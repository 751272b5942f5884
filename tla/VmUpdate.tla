------------------------------ MODULE VmUpdate ------------------------------
(* updateVms (src/servlets/functions/functions-vm.c): a node's poller        *)
(* reports the machines it sees.  Every machine gets a context of its own, a *)
(* child, which runs vm_cb_update from one query's reply to the next through *)
(* jobs of the main loop; the call is answered by the child that brings the  *)
(* parent's ctx->count down to 5.                                            *)
(*                                                                           *)
(* Several polls run side by side and may report the same machine (a machine *)
(* that migrates is seen on two nodes), and the pool of connections returns  *)
(* a child's replies in any order.                                           *)
EXTENDS Integers, Sequences, FiniteSets

CONSTANTS
  Polls,       \* the reports: one call, on a connection of its own
  Machines,    \* the machines of the nodes
  MaxChildren  \* bound: the children of all reports

ASSUME VmUpdateAssumption ==
  /\ IsFiniteSet(Machines)
  /\ Polls \cap {"nobody", "older"} = {}
  /\ MaxChildren \in Nat

VARIABLES
  pc,        \* a report: idle, asking (getNodeControlModule), waiting (for
             \* its children), ok or refused
  list,      \* the machines of a report
  count,     \* ctx->count of a waiting report
  child,     \* the children of a report, by machine
  creator,   \* the row of a machine in vms: nobody's, older, or a report's
  conf,      \* the machines with a row in vmconfig
  stats,     \* and in vmstats
  up         \* the server process lives

vars == <<pc, list, count, child, creator, conf, stats, up>>
tables == <<creator, conf, stats>>

OK == "ok"
Exists == "ENTITY_ALREADY_EXISTS"
Unknown == "UNKNOWN_RESOURCE"
DbQuery == "DB_QUERY"

(* A child: whether the memory is in use, ctx->count, error, cbs ("job" is   *)
(* cb_bool_job or cb_pointer_job), dead, and whether ecore holds its job or  *)
(* an error event; q are its queries in flight, stored is the machine that   *)
(* getVM found.                                                              *)
Child ==
  [life |-> "live", n |-> 0, e |-> OK, cbs |-> <<>>, dead |-> FALSE,
   job |-> TRUE, ev |-> FALSE, q |-> {}, stored |-> FALSE]
NoChild == [Child EXCEPT !.life = "none", !.job = FALSE]

Live(p) == {m \in Machines : child[p][m].life = "live"}
Queries == {"createVM", "setVmState", "updateVmTimestamp",
            "updateVMparentNode", "isVmIgnored", "getVM", "updateVmConfig",
            "pruneVmStats", "updateVmStats"}

Init ==
  /\ pc = [p \in Polls |-> "idle"]
  /\ list = [p \in Polls |-> {}]
  /\ count = [p \in Polls |-> 0]
  /\ child = [p \in Polls |-> [m \in Machines |-> NoChild]]
  /\ creator \in [Machines -> {"nobody", "older"}]
  /\ conf = {m \in Machines : creator[m] = "older"}
  /\ stats = {}
  /\ up = TRUE

-----------------------------------------------------------------------------
(* The report: _updateVMs.                                                   *)

Report(p) ==
  /\ up /\ pc[p] = "idle"
  /\ pc' = [pc EXCEPT ![p] = "asking"]
  /\ \E s \in SUBSET Machines : list' = [list EXCEPT ![p] = s]
  /\ Cardinality({x \in Polls \X Machines : x[2] \in list'[x[1]]}) <= MaxChildren
  /\ UNCHANGED <<count, child, tables, up>>

(* getNodeControlModule fails, finds no node, or a node without a module.    *)
NodeRefused(p) ==
  /\ up /\ pc[p] = "asking"
  /\ pc' = [pc EXCEPT ![p] = "refused"]
  /\ UNCHANGED <<list, count, child, tables, up>>

(* Mutant: the parent stops at 4.                                            *)
SplitCountsOneLess(p) ==
  /\ up /\ pc[p] = "asking"
  /\ pc' = [pc EXCEPT ![p] = "waiting"]
  /\ count' = [count EXCEPT ![p] = 4 + Cardinality(list[p])]
  /\ child' = [child EXCEPT ![p] = [m \in Machines |->
                 IF m \in list[p] THEN Child ELSE NoChild]]
  /\ UNCHANGED <<list, tables, up>>

(* Mutant: the children are made but not put into the main loop.             *)
SplitSchedulesNone(p) ==
  /\ up /\ pc[p] = "asking"
  /\ pc' = [pc EXCEPT ![p] = "waiting"]
  /\ count' = [count EXCEPT ![p] = 5 + Cardinality(list[p])]
  /\ child' = [child EXCEPT ![p] = [m \in Machines |->
                 IF m \in list[p] THEN [Child EXCEPT !.job = FALSE] ELSE NoChild]]
  /\ UNCHANGED <<list, tables, up>>

(* Count 1: a child per machine, and the count starts at 1 + 4 and one for   *)
(* each child.                                                               *)
Split(p) ==
  /\ up /\ pc[p] = "asking"
  /\ pc' = [pc EXCEPT ![p] = "waiting"]
  /\ count' = [count EXCEPT ![p] = 5 + Cardinality(list[p])]
  /\ child' = [child EXCEPT ![p] = [m \in Machines |->
                 IF m \in list[p] THEN Child ELSE NoChild]]
  /\ UNCHANGED <<list, tables, up>>

-----------------------------------------------------------------------------
(* The child: vm_cb_update.                                                  *)

Out(c) == [c EXCEPT !.life = "freed"]

(* A query with the next job behind it: with ctx->error set the callback is  *)
(* not pushed, and the function's end frees the context.                     *)
Sends(c, qs, cbs) ==
  [c EXCEPT !.q = @ \cup qs,
            !.cbs = IF c.e = OK THEN @ \o cbs ELSE @,
            !.life = IF c.e = OK THEN "live" ELSE "freed"]

(* Count 5: old statistics go, the new ones come.                            *)
statistics(c) ==
  Sends([c EXCEPT !.n = 5, !.e = OK], {"pruneVmStats", "updateVmStats"},
        <<"null", "job">>)

(* Mutant: the error is cleared at count 4, as the other counts do.          *)
configureClears(c) ==
  {Sends([c EXCEPT !.e = OK], {"updateVmConfig"}, <<"job">>)} \cup
  IF c.stored THEN {statistics(c)} ELSE {}

(* Count 4: a new configuration, or it is the one that getVM found.          *)
configure(c) ==
  {Sends(c, {"updateVmConfig"}, <<"job">>)} \cup
  IF c.stored THEN {statistics(c)} ELSE {}

(* One run, by ctx->count.  0: an invalid uuid, or the row is created.       *)
(* 1: the row is new, so back to 0 with the state and the time, the first of *)
(* whose replies is swallowed; later, a machine that migrates, or its node   *)
(* is noted.  2: is it ignored?  3: the answer is lost (cb_bool_job), and    *)
(* the configuration is read.  6 and 7 are out of reach.                     *)
vm_cb_update(c) ==
  CASE c.n = 0 -> {Out(c), Sends(c, {"createVM"}, <<"job">>)}
    [] c.n = 1 /\ c.e = Exists ->
         {Sends([c EXCEPT !.e = OK, !.n = 0],
                {"setVmState", "updateVmTimestamp"}, <<"null", "job">>)}
    [] c.n = 1 /\ c.e # Exists ->
         {Out(c), Sends(c, {"updateVMparentNode"}, <<"job">>)}
    [] c.n = 2 -> {Sends([c EXCEPT !.e = OK], {"isVmIgnored"}, <<"job">>)}
    [] c.n = 3 -> {Sends(c, {"getVM"}, <<"job">>)}
    [] c.n = 4 -> configure(c)
    [] OTHER -> {statistics(c)}

(* Mutant: the parent goes on when any child leaves.                         *)
LeavesAny(p) ==
  /\ count' = [count EXCEPT ![p] = @ - 1]
  /\ pc' = [pc EXCEPT ![p] = "ok"]

(* out: the child that brings the count to 5 enters the parent, which        *)
(* answers TRUE.                                                             *)
Leaves(p) ==
  /\ count' = [count EXCEPT ![p] = @ - 1]
  /\ pc' = IF count[p] - 1 = 5 THEN [pc EXCEPT ![p] = "ok"] ELSE pc

RunJob(p, m) ==
  /\ up /\ child[p][m].life = "live" /\ child[p][m].job
  /\ \E c \in vm_cb_update([child[p][m] EXCEPT !.job = FALSE]) :
       /\ child' = [child EXCEPT ![p][m] = c]
       /\ IF c.life = "freed" THEN Leaves(p) ELSE UNCHANGED <<count, pc>>
  /\ UNCHANGED <<list, tables, up>>

-----------------------------------------------------------------------------
(* The database and the replies.                                             *)

(* Mutant: the uuid of a machine is not unique in vms.                       *)
CanSucceedTwice(m, q) == q # "pruneVmStats"

(* vms.uuid is unique; the statement of pruneVmStats is not SQL.             *)
CanSucceed(m, q) == q # "pruneVmStats" /\ (q = "createVM" => creator[m] = "nobody")

Changes(p, m, q) ==
  /\ creator' = IF q = "createVM" THEN [creator EXCEPT ![m] = p] ELSE creator
  /\ conf' = IF q = "updateVmConfig" THEN conf \cup {m} ELSE conf
  /\ stats' = IF q = "updateVmStats" THEN stats \cup {<<p, m>>} ELSE stats

(* What the reply makes of ctx->error: QEE says ENTITY_ALREADY_EXISTS of     *)
(* every insertion; a row that already says so in this second is not         *)
(* "affected"; the rest finds its row.                                       *)
Errors(m, q) ==
  CASE q = "createVM" -> {Exists}
    [] q \in {"setVmState", "updateVmTimestamp"} -> {OK, Unknown}
    [] q = "getVM" /\ m \notin conf -> {Unknown}
    [] OTHER -> {OK}

(* Mutant: the first reply that comes runs the job, whatever its place.      *)
TakesSkipsNull(c) ==
  [c EXCEPT !.cbs = <<>>, !.n = @ + 1, !.job = TRUE]

(* The first callback: a NULL swallows the reply, the other one makes a job. *)
(* A dead child has none; the result event that is made instead is dropped.  *)
Takes(c) ==
  IF c.cbs = <<>> THEN c
  ELSE IF Head(c.cbs) = "null" THEN [c EXCEPT !.cbs = Tail(@)]
  ELSE [c EXCEPT !.cbs = Tail(@), !.n = @ + 1, !.job = TRUE]

Reply(p, m, q) ==
  /\ up /\ child[p][m].life = "live" /\ q \in child[p][m].q
  /\ CanSucceed(m, q)
  /\ \E e \in Errors(m, q) :
       LET c == [child[p][m] EXCEPT
                   !.q = @ \ {q},
                   !.e = IF @ = OK THEN e ELSE @,
                   !.stored = IF q = "getVM" THEN e = OK ELSE @]
       IN child' = [child EXCEPT ![p][m] = Takes(c)]
  /\ Changes(p, m, q)
  /\ UNCHANGED <<pc, list, count, up>>

QueryFails(p, m, q) ==
  /\ up /\ child[p][m].life = "live" /\ q \in child[p][m].q
  /\ child' = [child EXCEPT ![p][m].q = @ \ {q}, ![p][m].e = DbQuery,
                            ![p][m].ev = TRUE]
  /\ UNCHANGED <<pc, list, count, tables, up>>

(* error_handler: the parent of a child is no module, so nothing is resumed. *)
HandleError(p, m) ==
  /\ up /\ child[p][m].life = "live" /\ child[p][m].ev
  /\ child' = [child EXCEPT ![p][m].ev = FALSE, ![p][m].dead = TRUE,
                            ![p][m].cbs = <<>>]
  /\ UNCHANGED <<pc, list, count, tables, up>>

(* The context is freed, its query is not cancelled: event_cb writes to      *)
(* memory that is not its own, which may end the process or not.             *)
ReplyToFreed(p, m, q) ==
  /\ up /\ child[p][m].life = "freed" /\ q \in child[p][m].q
  /\ child' = [child EXCEPT ![p][m].q = @ \ {q}]
  /\ Changes(p, m, q)
  /\ up' \in BOOLEAN
  /\ UNCHANGED <<pc, list, count>>

-----------------------------------------------------------------------------
Answering(p) ==
  \/ NodeRefused(p)
  \/ Split(p)
Working ==
  \E p \in Polls, m \in Machines :
    \/ RunJob(p, m)
    \/ HandleError(p, m)
    \/ \E q \in Queries : Reply(p, m, q) \/ QueryFails(p, m, q) \/ ReplyToFreed(p, m, q)

Next ==
  \/ \E p \in Polls : Report(p) \/ Answering(p)
  \/ Working

(* The main loop runs its jobs and events, the database answers.             *)
Spec ==
  /\ Init /\ [][Next]_vars
  /\ WF_vars(\E p \in Polls : Answering(p))
  /\ WF_vars(Working)

-----------------------------------------------------------------------------
TypeOK ==
  /\ pc \in [Polls -> {"idle", "asking", "waiting", "ok", "refused"}]
  /\ list \in [Polls -> SUBSET Machines]
  /\ count \in [Polls -> Nat]
  /\ DOMAIN child = Polls
  /\ \A p \in Polls :
       /\ DOMAIN child[p] = Machines
       /\ \A m \in Machines :
            LET c == child[p][m]
            IN /\ c.life \in {"none", "live", "freed"}
               /\ c.n \in 0..4 /\ c.q \subseteq Queries
               /\ c.cbs \in {<<>>, <<"job">>, <<"null", "job">>}
               /\ c.job => c.q = {} /\ c.cbs = <<>> /\ ~c.ev
  /\ creator \in [Machines -> {"nobody", "older"} \cup Polls]
  /\ conf \subseteq Machines
  /\ up \in BOOLEAN

(* The magic 5: the count of a waiting report is 5 and its live children, so *)
(* the last one, and no other, answers it.                                   *)
CountIsChildren ==
  \A p \in Polls : pc[p] = "waiting" => count[p] = 5 + Cardinality(Live(p))

(* No report ever stores a statistic: a machine with a row dies of           *)
(* createVM, and a new one has no configuration to compare, whose            *)
(* UNKNOWN_RESOURCE ends the child at count 4.                               *)
NoStatistics == stats = {}

(* A report that is answered "ok" made the rows of all its machines itself,  *)
(* those with an invalid uuid aside: no machine that was known is ever       *)
(* updated by a report that says so, and of two reports of one machine at    *)
(* most one is answered.                                                     *)
OkOnlyAboutStrangers ==
  \A p \in Polls : pc[p] = "ok" =>
    \A m \in list[p] :
      child[p][m].life = "freed" /\ (creator[m] = p \/ child[p][m].n = 0)

(* The contexts freed under a query: after the first reply of a new machine  *)
(* that changed no row, and when there is no configuration.                  *)
FreedOnlyWhere ==
  \A p \in Polls, m \in Machines :
    child[p][m].life = "freed" =>
      child[p][m].q \subseteq {"updateVMparentNode", "updateVmConfig"}

(* A report is answered once all its children are done, and only then.       *)
phase == [p \in Polls |->
  CASE pc[p] \in {"idle", "asking"} -> "open"
    [] pc[p] = "waiting" -> "split"
    [] OTHER -> pc[p]]
Join == INSTANCE VmJoin WITH working <- [p \in Polls |-> Live(p)]
JoinSpec == Join!Spec

(* A report of at least one machine is answered, unless a query of a child   *)
(* failed (the count then never gets to 5) or the process died.              *)
ReportAnswered ==
  \A p \in Polls :
    (pc[p] = "waiting" /\ list[p] # {}) ~>
      \/ pc[p] = "ok" \/ ~up
      \/ \E m \in Machines : child[p][m].life = "live" /\ child[p][m].dead
=============================================================================
