------------------------------- MODULE VmJoin -------------------------------
(* What a report of machines (updateVms) promises: its work is split, one    *)
(* piece per machine, and the report is answered in the step in which the    *)
(* last piece is done: not earlier, not again, and not for an empty report.  *)
EXTENDS FiniteSets

CONSTANTS Polls, Machines

VARIABLES phase, working
vars == <<phase, working>>

Init ==
  /\ phase = [p \in Polls |-> "open"]
  /\ working = [p \in Polls |-> {}]

Refuse(p) ==
  /\ phase[p] = "open"
  /\ phase' = [phase EXCEPT ![p] = "refused"]
  /\ UNCHANGED working

Split(p) ==
  /\ phase[p] = "open"
  /\ phase' = [phase EXCEPT ![p] = "split"]
  /\ \E s \in SUBSET Machines : working' = [working EXCEPT ![p] = s]

Leave(p) ==
  /\ phase[p] = "split"
  /\ \E m \in working[p] :
       /\ working' = [working EXCEPT ![p] = @ \ {m}]
       /\ phase' = [phase EXCEPT ![p] = IF working[p] = {m} THEN "ok" ELSE @]

Next == \E p \in Polls : Refuse(p) \/ Split(p) \/ Leave(p)

Spec == Init /\ [][Next]_vars
=============================================================================
