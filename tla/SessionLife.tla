---------------------------- MODULE SessionLife ----------------------------
(***************************************************************************)
(* What the `sessions` table promises of a session id, whatever calls are  *)
(* in flight: an id gets one owner, only an owned id is ever               *)
(* authenticated, and after a logout that met no call of the same session  *)
(* it never is again.  A logout that did meet one may be undone when that  *)
(* call writes its copy back (Restore): the promise is this weak on        *)
(* purpose.                                                                *)
(***************************************************************************)
CONSTANTS Sids, Users, NoUser

VARIABLES
  owner,  \* the user a session id was granted to
  state   \* "off", "on" when the row is authenticated, "closed"

lifeVars == <<owner, state>>

LifeInit ==
  /\ owner = [s \in Sids |-> NoUser]
  /\ state = [s \in Sids |-> "off"]

\* The password of u was right: s is bound to u for good.
Grant(s, u) ==
  /\ owner[s] = NoUser
  /\ state[s] = "off"
  /\ owner' = [owner EXCEPT ![s] = u]
  /\ UNCHANGED state

\* The row is written as authenticated: by the login, or by a call that held
\* a copy while the session was logged out.
Restore(s) ==
  /\ owner[s] # NoUser
  /\ state[s] = "off"
  /\ state' = [state EXCEPT ![s] = "on"]
  /\ UNCHANGED owner

\* The row is written as not authenticated while some call holds a copy.
Revoke(s) ==
  /\ state[s] = "on"
  /\ state' = [state EXCEPT ![s] = "off"]
  /\ UNCHANGED owner

\* The session is logged out while no call holds a copy.
Close(s) ==
  /\ state[s] # "closed"
  /\ state' = [state EXCEPT ![s] = "closed"]
  /\ UNCHANGED owner

\* The table is emptied.
Truncate ==
  /\ state' = [s \in Sids |-> IF state[s] = "closed" THEN "closed" ELSE "off"]
  /\ UNCHANGED owner

LifeNext ==
  \/ \E s \in Sids : \/ \E u \in Users : Grant(s, u)
                     \/ Restore(s) \/ Revoke(s) \/ Close(s)
  \/ Truncate

LifeSpec == LifeInit /\ [][LifeNext]_lifeVars
=============================================================================
