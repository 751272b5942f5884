--------------------------- MODULE Session_proofs ---------------------------
(***************************************************************************)
(* Type correctness of Session, and that a call with several queries in    *)
(* flight is answered by the last of them.  The two are proved together:   *)
(* ctx->count stays a natural number only because it agrees with the       *)
(* queries that are still in flight.                                       *)
(***************************************************************************)
EXTENDS Session, FiniteSetTheorems, TLAPS

\* The groups of TypeOK the parts of an action are about.
TableTyped ==
  /\ stored \subseteq Sids
  /\ sessions \in [Sids -> Row]
  /\ granted \in [Sids -> Uid]
  /\ written \subseteq Sids
  /\ closed \subseteq Sids

AnswerTyped ==
  /\ pc \in [Conns -> Phases]
  /\ reply \in [Conns -> Replies]
  /\ given \subseteq Sids

QueriesTyped ==
  /\ count \in [Conns -> Nat]
  /\ todo \in [Conns -> SUBSET (Sids \union {"lastLogin", "setSession"})]
  /\ err \in [Conns -> BOOLEAN]
  /\ dead \in [Conns -> BOOLEAN]

RestTyped ==
  /\ clock \in Nat
  /\ conf \in [authtype: AuthTypes, fallback: Fallbacks]
  /\ users \subseteq Users
  /\ issued \subseteq Sids
  /\ req \in [Conns -> Request]

SesTyped == ses \in [Conns -> SESSION]

\* A call that may read or write a row of the table has a session id.
NoRowYet == {"idle", "ip", "ssoConfig", "stuck"}
HasSid == \A c \in Conns : pc[c] \notin NoRowYet => ses[c].sid \in Sids

\* Only login and logoutByName have several queries in flight, finitely many.
Several == {"finish", "deauths"}
QueriesInv ==
  /\ IsFiniteSet(stored)
  /\ \A c \in Conns : IsFiniteSet(todo[c])
  /\ \A c \in Conns : pc[c] \notin Several => todo[c] = {}
  /\ \A c \in Conns :
       pc[c] = "deauths" /\ ~dead[c] => count[c] = Cardinality(todo[c])

TypeInv ==
  /\ TableTyped /\ AnswerTyped /\ QueriesTyped /\ RestTyped /\ SesTyped
  /\ HasSid /\ QueriesInv

LEMMA TypeGroups ==
  TypeOK <=> /\ TableTyped /\ AnswerTyped /\ QueriesTyped
             /\ RestTyped /\ SesTyped
  BY DEF TypeOK, TableTyped, AnswerTyped, QueriesTyped, RestTyped, SesTyped

-----------------------------------------------------------------------------
(* The parts actions are made of.                                          *)

\* A structure has fields of their types, and its row is a row.
LEMMA SessionFields ==
  ASSUME NEW v \in SESSION
  PROVE  /\ v.sid \in Sids \union {NoSid}
         /\ v.authenticated \in BOOLEAN
         /\ v.uid \in Uid
         /\ v.failures \in Nat
         /\ v.timestamp \in Nat
         /\ RowOf(v) \in Row
  BY DEF SESSION, RowOf, Row

LEMMA GoTyped ==
  ASSUME AnswerTyped, NEW c \in Conns, NEW p \in Phases, Go(c, p)
  PROVE  pc' \in [Conns -> Phases]
  BY DEF AnswerTyped, Go

LEMMA SendType ==
  ASSUME AnswerTyped, NEW c \in Conns, SesTyped', NEW r \in Replies,
         Send(c, r), pc' \in [Conns -> Phases]
  PROVE  AnswerTyped'
<1>1. given' \subseteq Sids
  BY SessionFields DEF AnswerTyped, Send, SesTyped
<1>2. reply' \in [Conns -> Replies]
  BY DEF AnswerTyped, Send
<1>3. QED
  BY <1>1, <1>2 DEF AnswerTyped

LEMMA AnswerType ==
  ASSUME AnswerTyped, NEW c \in Conns, SesTyped', NEW r \in Replies,
         Answer(c, r)
  PROVE  AnswerTyped'
<1>1. "idle" \in Phases
  BY DEF Phases
<1>2. pc' \in [Conns -> Phases]
  BY <1>1, GoTyped DEF Answer
<1>3. QED
  BY <1>2, SendType DEF Answer

LEMMA ContinueType ==
  ASSUME AnswerTyped, NEW c \in Conns, NEW p \in Phases, Continue(c, p)
  PROVE  AnswerTyped'
  BY GoTyped DEF AnswerTyped, Continue

LEMMA SesUpdate ==
  ASSUME SesTyped, NEW c \in Conns, NEW v \in SESSION,
         ses' = [ses EXCEPT ![c] = v]
  PROVE  SesTyped'
  BY DEF SesTyped

LEMMA UpsertType ==
  ASSUME TableTyped, SesTyped, NEW c \in Conns, ses[c].sid \in Sids, Upsert(c)
  PROVE  TableTyped'
<1>1. RowOf(ses[c]) \in Row
  BY SessionFields DEF SesTyped
<1>2. QED
  BY <1>1 DEF TableTyped, Upsert

LEMMA DeauthenticateType ==
  ASSUME TableTyped, NEW c \in Conns, NEW s \in Sids, Deauthenticate(c, s)
  PROVE  TableTyped'
<1>1. [sessions[s] EXCEPT !.authenticated = FALSE] \in Row
  BY DEF TableTyped, Row
<1>2. sessions' \in [Sids -> Row]
  BY <1>1 DEF TableTyped, Deauthenticate
<1>3. closed' \subseteq Sids
  BY DEF TableTyped, Deauthenticate
<1>4. QED
  BY <1>2, <1>3 DEF TableTyped, Deauthenticate

LEMMA LoginStartType ==
  ASSUME AnswerTyped, SesTyped, NEW c \in Conns, NEW v \in SESSION,
         LoginStart(c, v)
  PROVE  AnswerTyped' /\ SesTyped'
<1>1. CASE Suspended(v, clock)
  <2>1. SesTyped'
    BY <1>1, SesUpdate DEF LoginStart
  <2>2. "MAX_LOGIN_FAILURES" \in Replies
    BY DEF Replies, Faults
  <2>3. QED
    BY <1>1, <2>1, <2>2, AnswerType DEF LoginStart
<1>2. CASE ~Suspended(v, clock)
  <2>1. [v EXCEPT !.failures = 0] \in SESSION
    BY DEF SESSION
  <2>2. SesTyped'
    BY <1>2, <2>1, SesUpdate DEF LoginStart
  <2>3. "loginUid" \in Phases
    BY DEF Phases, InMethod
  <2>4. QED
    BY <1>2, <2>2, <2>3, ContinueType DEF LoginStart
<1>3. QED
  BY <1>1, <1>2

LEMMA FinishOneType ==
  ASSUME AnswerTyped, QueriesTyped, SesTyped', NEW c \in Conns, NEW q,
         NEW bad \in BOOLEAN, NEW last \in BOOLEAN,
         FinishOne(c, q, bad, last)
  PROVE  /\ AnswerTyped'
         /\ todo' \in [Conns -> SUBSET (Sids \union {"lastLogin", "setSession"})]
         /\ err' \in [Conns -> BOOLEAN]
<1>1. /\ todo' \in [Conns -> SUBSET (Sids \union {"lastLogin", "setSession"})]
      /\ err' \in [Conns -> BOOLEAN]
  BY DEF QueriesTyped, FinishOne
<1>2. /\ pc[c] \in Phases /\ "idle" \in Phases
      /\ "ok" \in Replies /\ "UNKNOWN_RESOURCE" \in Replies
  BY DEF AnswerTyped, Phases, Replies, Faults
<1>3. CASE dead[c]
  <2>1. PICK p \in Phases : Continue(c, p)
    BY <1>2, <1>3 DEF FinishOne
  <2>2. QED
    BY <1>1, <2>1, ContinueType
<1>4. CASE ~dead[c] /\ last
  <2>1. PICK r \in Replies : Answer(c, r)
    BY <1>2, <1>4 DEF FinishOne
  <2>2. QED
    BY <1>1, <2>1, AnswerType
<1>5. CASE ~dead[c] /\ ~last
  BY <1>1, <1>2, <1>5, ContinueType DEF FinishOne
<1>6. QED
  BY <1>3, <1>4, <1>5

-----------------------------------------------------------------------------
(* A step of one call.                                                     *)

\* The step changes nothing of the other calls.
OnlyCall(c) ==
  \A d \in Conns \ {c} :
    /\ pc'[d] = pc[d]
    /\ ses'[d] = ses[d]
    /\ req'[d] = req[d]
    /\ count'[d] = count[d]
    /\ todo'[d] = todo[d]
    /\ dead'[d] = dead[d]
    /\ reply'[d] = reply[d]

\* The invariants are kept when they are kept for the call that moves.
LEMMA LocalStep ==
  ASSUME HasSid, QueriesInv, NEW c \in Conns, OnlyCall(c),
         pc'[c] \notin NoRowYet => ses'[c].sid \in Sids,
         IsFiniteSet(stored'),
         IsFiniteSet(todo'[c]),
         pc'[c] \notin Several => todo'[c] = {},
         pc'[c] = "deauths" /\ ~dead'[c] => count'[c] = Cardinality(todo'[c])
  PROVE  HasSid' /\ QueriesInv'
<1>1. HasSid'
  BY DEF HasSid, OnlyCall
<1>2. QueriesInv'
  BY DEF QueriesInv, OnlyCall
<1>3. QED
  BY <1>1, <1>2

\* The same for a call that waits for one query, and then for one again.
LEMMA SingleStep ==
  ASSUME HasSid, QueriesInv, NEW c \in Conns, OnlyCall(c),
         pc[c] \notin Several, pc'[c] \notin Several,
         pc'[c] \notin NoRowYet => ses'[c].sid \in Sids,
         IsFiniteSet(stored'),
         todo' = todo
  PROVE  HasSid' /\ QueriesInv'
<1>1. todo'[c] = {} /\ pc'[c] # "deauths"
  BY DEF QueriesInv, Several
<1>2. QED
  BY <1>1, LocalStep, FS_EmptySet

\* _login starts, or is refused.
LEMMA LoginStartMoves ==
  ASSUME AnswerTyped, SesTyped, NEW c \in Conns, NEW v \in SESSION,
         LoginStart(c, v)
  PROVE  /\ pc'[c] \in {"idle", "loginUid"}
         /\ ses'[c].sid = v.sid
         /\ \A d \in Conns \ {c} :
              pc'[d] = pc[d] /\ ses'[d] = ses[d] /\ reply'[d] = reply[d]
  BY DEF LoginStart, Answer, Send, Continue, Go, AnswerTyped, SesTyped, SESSION

LEMMA UpsertFinite ==
  ASSUME QueriesInv, NEW c \in Conns, Upsert(c)
  PROVE  IsFiniteSet(stored')
  BY FS_AddElement DEF QueriesInv, Upsert

-----------------------------------------------------------------------------
(* The pre-call.                                                           *)

LEMMA TickType ==
  ASSUME TypeInv, Tick
  PROVE  TypeInv'
<1>1. clock' \in Nat
  BY DEF TypeInv, RestTyped, Tick
<1>2. QED
  BY <1>1 DEF TypeInv, Tick, TableTyped, AnswerTyped, QueriesTyped, RestTyped,
     SesTyped, HasSid, QueriesInv, dbVars, ctxVars, histVars

LEMMA StartCallType ==
  ASSUME SessionAssumption, TypeInv, NEW c \in Conns, NEW r \in Requests,
         StartCall(c, r)
  PROVE  TypeInv'
<1>1. TableTyped'
  BY DEF TypeInv, TableTyped, StartCall, dbVars, histVars
<1>2. RestTyped'
  BY DEF TypeInv, RestTyped, StartCall, Requests
<1>3. QueriesTyped'
  BY DEF TypeInv, QueriesTyped, StartCall
<1>4. SesTyped'
  <2>1. NewSESSION \in SESSION
    BY SessionAssumption DEF NewSESSION, SESSION, Uid
  <2>2. QED
    BY <2>1, SesUpdate DEF TypeInv, StartCall
<1>5. AnswerTyped'
  BY DEF TypeInv, AnswerTyped, StartCall, Go, Phases, PreCall, Replies
<1>6. HasSid' /\ QueriesInv'
  <2>1. OnlyCall(c) /\ pc[c] = "idle" /\ pc'[c] = "ip" /\ UNCHANGED <<todo, stored>>
    BY DEF OnlyCall, TypeInv, AnswerTyped, QueriesTyped, SesTyped, RestTyped,
       StartCall, Go, dbVars
  <2>2. QED
    BY <2>1, SingleStep DEF TypeInv, NoRowYet, Several, QueriesInv
<1>7. QED
  BY <1>1, <1>2, <1>3, <1>4, <1>5, <1>6 DEF TypeInv

LEMMA OpenSessionType ==
  ASSUME TypeInv, NEW c \in Conns, NEW s \in Sids, OpenSession(c, s)
  PROVE  TypeInv'
<1>1. TableTyped' /\ QueriesTyped' /\ RestTyped'
  BY DEF TypeInv, TableTyped, QueriesTyped, RestTyped, OpenSession, dbVars,
     ctxVars, histVars
<1>2. SesTyped' /\ ses'[c].sid = s
  <2>1. /\ [ses[c] EXCEPT !.sid = s, !.timestamp = clock] \in SESSION
        /\ [ses[c] EXCEPT !.sid = s, !.timestamp = clock].sid = s
    BY DEF TypeInv, SesTyped, RestTyped, SESSION
  <2>2. QED
    BY <2>1 DEF TypeInv, SesTyped, OpenSession
<1>3. AnswerTyped'
  BY ContinueType DEF TypeInv, OpenSession, Phases, PreCall
<1>4. HasSid' /\ QueriesInv'
  <2>1. /\ OnlyCall(c) /\ pc[c] = "ip" /\ pc'[c] = "newSession"
        /\ UNCHANGED <<todo, stored>>
    BY DEF OnlyCall, TypeInv, AnswerTyped, SesTyped, OpenSession, Continue, Go,
       ctxVars, dbVars
  <2>2. QED
    BY <1>2, <2>1, SingleStep DEF TypeInv, NoRowYet, Several, QueriesInv
<1>5. QED
  BY <1>1, <1>2, <1>3, <1>4 DEF TypeInv

LEMMA AskSsoType ==
  ASSUME TypeInv, NEW c \in Conns, AskSso(c)
  PROVE  TypeInv'
<1>1. TableTyped' /\ QueriesTyped' /\ RestTyped' /\ SesTyped'
  BY DEF TypeInv, TableTyped, QueriesTyped, RestTyped, SesTyped, AskSso, dbVars,
     ctxVars, histVars
<1>2. AnswerTyped'
  BY ContinueType DEF TypeInv, AskSso, Phases, PreCall
<1>3. HasSid' /\ QueriesInv'
  <2>1. /\ OnlyCall(c) /\ pc[c] = "ip" /\ pc'[c] = "ssoConfig"
        /\ UNCHANGED <<todo, stored>>
    BY DEF OnlyCall, TypeInv, AnswerTyped, AskSso, Continue, Go, ctxVars, dbVars
  <2>2. QED
    BY <2>1, SingleStep DEF TypeInv, NoRowYet, Several, QueriesInv
<1>4. QED
  BY <1>1, <1>2, <1>3 DEF TypeInv

LEMMA StoreNewSessionType ==
  ASSUME TypeInv, NEW c \in Conns, StoreNewSession(c)
  PROVE  TypeInv'
<1>1. QueriesTyped' /\ RestTyped'
  BY DEF TypeInv, QueriesTyped, RestTyped, StoreNewSession, ctxVars
<1>2. pc[c] = "newSession" /\ ses[c] \in SESSION /\ ses[c].sid \in Sids
  BY DEF TypeInv, SesTyped, HasSid, NoRowYet, StoreNewSession
<1>3. TableTyped' /\ IsFiniteSet(stored')
  BY <1>2, UpsertType, UpsertFinite DEF TypeInv, StoreNewSession
<1>4. /\ AnswerTyped' /\ SesTyped'
      /\ ses'[c].sid = ses[c].sid /\ pc'[c] \in {"idle", "loginUid"}
      /\ \A d \in Conns \ {c} :
           pc'[d] = pc[d] /\ ses'[d] = ses[d] /\ reply'[d] = reply[d]
  <2>1. CASE req[c].method = "login"
    BY <1>2, <2>1, LoginStartType, LoginStartMoves DEF TypeInv, StoreNewSession
  <2>2. CASE req[c].method # "login"
    <3>1. UNCHANGED ses /\ Answer(c, "ok") /\ "ok" \in Replies
      BY <2>2 DEF StoreNewSession, Replies
    <3>2. SesTyped'
      BY <3>1 DEF TypeInv, SesTyped
    <3>3. QED
      BY <3>1, <3>2, AnswerType DEF TypeInv, AnswerTyped, Answer, Send, Go
  <2>3. QED
    BY <2>1, <2>2
<1>5. HasSid' /\ QueriesInv'
  <2>1. OnlyCall(c) /\ UNCHANGED todo
    BY <1>4 DEF OnlyCall, StoreNewSession, ctxVars
  <2>2. QED
    BY <1>2, <1>3, <1>4, <2>1, SingleStep DEF TypeInv, Several
<1>6. QED
  BY <1>1, <1>3, <1>4, <1>5 DEF TypeInv

LEMMA SsoOffType ==
  ASSUME TypeInv, NEW c \in Conns, SsoOff(c)
  PROVE  TypeInv'
<1>1. TableTyped' /\ RestTyped' /\ QueriesTyped'
  BY DEF TypeInv, TableTyped, RestTyped, QueriesTyped, SsoOff, dbVars, histVars
<1>2. SesTyped' /\ ses'[c].sid = req[c].cookie
  <2>1. req[c].cookie \in Sids \union {NoSid}
    BY DEF TypeInv, RestTyped, Request
  <2>2. /\ [ses[c] EXCEPT !.sid = req[c].cookie] \in SESSION
        /\ [ses[c] EXCEPT !.sid = req[c].cookie].sid = req[c].cookie
    BY <2>1 DEF TypeInv, SesTyped, SESSION
  <2>3. QED
    BY <2>2 DEF TypeInv, SesTyped, SsoOff
<1>3. AnswerTyped'
  <2>1. CASE req[c].cookie = NoSid
    BY <1>2, <2>1, AnswerType DEF TypeInv, SsoOff, Replies, Faults
  <2>2. CASE req[c].cookie # NoSid
    BY <2>2, ContinueType DEF TypeInv, SsoOff, Phases, PreCall
  <2>3. QED
    BY <2>1, <2>2
<1>4. HasSid' /\ QueriesInv'
  <2>1. /\ OnlyCall(c) /\ pc[c] = "ssoConfig" /\ UNCHANGED <<todo, stored>>
        /\ pc'[c] = IF req[c].cookie = NoSid THEN "idle" ELSE "getSession"
    BY DEF OnlyCall, TypeInv, AnswerTyped, SesTyped, QueriesTyped, SsoOff,
       Answer, Send, Continue, Go, dbVars
  <2>2. req[c].cookie # NoSid => req[c].cookie \in Sids
    BY DEF TypeInv, RestTyped, Request
  <2>3. QED
    BY <1>2, <2>1, <2>2, SingleStep DEF TypeInv, NoRowYet, Several, QueriesInv
<1>5. QED
  BY <1>1, <1>2, <1>3, <1>4 DEF TypeInv

LEMMA LoadSessionType ==
  ASSUME TypeInv, NEW c \in Conns, LoadSession(c)
  PROVE  TypeInv'
<1>1. TableTyped' /\ QueriesTyped' /\ RestTyped'
  BY DEF TypeInv, TableTyped, QueriesTyped, RestTyped, LoadSession, dbVars,
     ctxVars, histVars
<1>2. pc[c] = "getSession" /\ ses[c] \in SESSION /\ ses[c].sid \in Sids
  BY DEF TypeInv, SesTyped, HasSid, NoRowYet, LoadSession
<1>3. SesTyped' /\ ses'[c].sid = ses[c].sid
  <2> DEFINE row == sessions[ses[c].sid]
             v == [ses[c] EXCEPT !.authenticated = row.authenticated,
                                 !.uid = row.uid, !.failures = row.failures,
                                 !.timestamp = row.timestamp]
  <2>1. CASE ses[c].sid \in stored
    <3>1. row \in Row
      BY <1>2 DEF TypeInv, TableTyped
    <3>2. v \in SESSION /\ v.sid = ses[c].sid
      BY <1>2, <3>1 DEF SESSION, Row
    <3>3. ses' = [ses EXCEPT ![c] = v]
      BY <2>1 DEF LoadSession, Loaded
    <3>4. QED
      BY <3>2, <3>3 DEF TypeInv, SesTyped
  <2>2. CASE ses[c].sid \notin stored
    BY <2>2 DEF TypeInv, SesTyped, LoadSession, Loaded
  <2>3. QED
    BY <2>1, <2>2
<1>4. AnswerTyped'
  BY ContinueType DEF TypeInv, LoadSession, Phases, PreCall
<1>5. HasSid' /\ QueriesInv'
  <2>1. /\ OnlyCall(c) /\ pc'[c] = "sessionTimeout" /\ UNCHANGED <<todo, stored>>
    BY DEF OnlyCall, TypeInv, AnswerTyped, SesTyped, LoadSession, Continue, Go,
       ctxVars, dbVars
  <2>2. QED
    BY <1>2, <1>3, <2>1, SingleStep DEF TypeInv, Several, QueriesInv
<1>6. QED
  BY <1>1, <1>3, <1>4, <1>5 DEF TypeInv

LEMMA StatusReply ==
  ASSUME NEW v \in SESSION, NEW now \in Nat
  PROVE  \/ SessionStatus(v, now) = "VALID_SESSION"
         \/ SessionStatus(v, now) \in Replies
<1>1. v.authenticated \in BOOLEAN
  BY SessionFields
<1>2. QED
  BY <1>1 DEF SessionStatus, Replies, Faults

LEMMA CheckSessionType ==
  ASSUME SessionAssumption, TypeInv, NEW c \in Conns, CheckSession(c)
  PROVE  TypeInv'
<1>1. TableTyped' /\ QueriesTyped' /\ RestTyped'
  BY DEF TypeInv, TableTyped, QueriesTyped, RestTyped, CheckSession, dbVars,
     ctxVars, histVars
<1>2. /\ pc[c] = "sessionTimeout" /\ ses[c] \in SESSION /\ ses[c].sid \in Sids
      /\ clock \in Nat
  BY DEF TypeInv, SesTyped, RestTyped, HasSid, NoRowYet, CheckSession
<1> DEFINE Moved == /\ AnswerTyped' /\ SesTyped'
                    /\ ses'[c].sid = ses[c].sid
                    /\ pc'[c] \in {"idle", "loginUid", "logout", "userType"}
                    /\ \A d \in Conns \ {c} :
                         /\ pc'[d] = pc[d]
                         /\ ses'[d] = ses[d]
                         /\ reply'[d] = reply[d]
           v == [ses[c] EXCEPT !.uid = NoUser, !.authenticated = FALSE]
<1>3. /\ v \in SESSION /\ v.sid = ses[c].sid
      /\ v = [ses[c] EXCEPT !.uid = NoUser, !.authenticated = FALSE]
  BY <1>2 DEF SESSION, Uid
<1> HIDE DEF Moved, v
<1>4. ASSUME UNCHANGED ses, NEW r \in Replies, Answer(c, r)  PROVE Moved
  <2>1. SesTyped'
    BY <1>4 DEF TypeInv, SesTyped
  <2>2. QED
    BY <1>4, <2>1, AnswerType DEF Moved, TypeInv, AnswerTyped, Answer, Send, Go
<1>5. ASSUME UNCHANGED ses, NEW p \in {"logout", "userType"}, Continue(c, p)
      PROVE  Moved
  <2>1. SesTyped' /\ p \in Phases
    BY <1>5 DEF TypeInv, SesTyped, Phases, PreCall, InMethod
  <2>2. QED
    BY <1>5, <2>1, ContinueType DEF Moved, TypeInv, AnswerTyped, Continue, Go
<1>6. ASSUME LoginStart(c, v)  PROVE Moved
  BY <1>3, <1>6, LoginStartType, LoginStartMoves DEF Moved, TypeInv
<1>7. ASSUME ses' = [ses EXCEPT ![c].uid = NoUser, ![c].authenticated = FALSE],
             Answer(c, "ok")
      PROVE  Moved
  <2>1. ses' = [ses EXCEPT ![c] = v]
    BY <1>7 DEF TypeInv, SesTyped, v
  <2>2. SesTyped' /\ ses'[c] = v /\ \A d \in Conns \ {c} : ses'[d] = ses[d]
    BY <1>3, <2>1 DEF TypeInv, SesTyped
  <2>3. "ok" \in Replies
    BY DEF Replies
  <2>4. QED
    BY <1>3, <1>7, <2>2, <2>3, AnswerType DEF Moved, TypeInv, AnswerTyped,
         Answer, Send, Go
<1>8. "ok" \in Replies
  BY DEF Replies
<1>9. SessionStatus(ses[c], clock) # "VALID_SESSION" =>
        SessionStatus(ses[c], clock) \in Replies
  BY <1>2, StatusReply
<1>10. Moved
  BY <1>4, <1>5, <1>6, <1>7, <1>8, <1>9 DEF CheckSession, v
<1>11. HasSid' /\ QueriesInv'
  <2>1. OnlyCall(c) /\ UNCHANGED <<todo, stored>>
    BY <1>10 DEF Moved, OnlyCall, CheckSession, ctxVars, dbVars
  <2>2. QED
    BY <1>2, <1>10, <2>1, SingleStep DEF Moved, TypeInv, Several, QueriesInv
<1>12. QED
  BY <1>1, <1>10, <1>11 DEF Moved, TypeInv

LEMMA ReadUserTypeType ==
  ASSUME TypeInv, NEW c \in Conns, ReadUserType(c)
  PROVE  TypeInv'
<1>1. TableTyped' /\ RestTyped' /\ QueriesTyped'
  BY DEF TypeInv, TableTyped, RestTyped, QueriesTyped, ReadUserType, dbVars,
     histVars
<1>2. pc[c] = "userType" /\ ses[c] \in SESSION /\ ses[c].sid \in Sids
  BY DEF TypeInv, SesTyped, HasSid, NoRowYet, ReadUserType
<1>3. SesTyped' /\ ses'[c].sid = ses[c].sid
  <2>1. /\ [ses[c] EXCEPT !.timestamp = clock] \in SESSION
        /\ [ses[c] EXCEPT !.timestamp = clock].sid = ses[c].sid
    BY <1>2 DEF TypeInv, RestTyped, SESSION
  <2>2. QED
    BY <2>1 DEF TypeInv, SesTyped, ReadUserType
<1>4. AnswerTyped' /\ pc'[c] \in {"idle", "touch"}
  <2>1. CASE ses[c].uid \in users
    BY <2>1, ContinueType
       DEF TypeInv, AnswerTyped, ReadUserType, Continue, Go, Phases, PreCall
  <2>2. CASE ses[c].uid \notin users
    BY <1>3, <2>2, AnswerType
       DEF TypeInv, AnswerTyped, ReadUserType, Answer, Send, Go, Replies, Faults
  <2>3. QED
    BY <2>1, <2>2
<1>5. HasSid' /\ QueriesInv'
  <2>1. OnlyCall(c) /\ UNCHANGED <<todo, stored>>
    BY DEF OnlyCall, TypeInv, AnswerTyped, SesTyped, QueriesTyped, ReadUserType,
       Answer, Send, Continue, Go, dbVars
  <2>2. QED
    BY <1>2, <1>3, <1>4, <2>1, SingleStep DEF TypeInv, Several, QueriesInv
<1>6. QED
  BY <1>1, <1>3, <1>4, <1>5 DEF TypeInv

LEMMA TouchType ==
  ASSUME TypeInv, NEW c \in Conns, Touch(c)
  PROVE  TypeInv'
<1>1. QueriesTyped' /\ RestTyped' /\ SesTyped'
  BY DEF TypeInv, QueriesTyped, RestTyped, SesTyped, Touch, ctxVars
<1>2. pc[c] = "touch" /\ ses[c].sid \in Sids
  BY DEF TypeInv, HasSid, NoRowYet, Touch
<1>3. TableTyped' /\ IsFiniteSet(stored')
  BY <1>2, UpsertType, UpsertFinite DEF TypeInv, Touch
<1>4. \/ \E r \in {"ok", "NOT_AUTHORIZED"} : Answer(c, r)
      \/ \E p \in {"sessionsOf", "removeUser", "cleanDB"} : Continue(c, p)
  BY DEF Touch, AdminPhase
<1>5. AnswerTyped' /\ pc'[c] \in {"idle", "sessionsOf", "removeUser", "cleanDB"}
  <2>1. CASE \E r \in {"ok", "NOT_AUTHORIZED"} : Answer(c, r)
    BY <1>1, <2>1, AnswerType
       DEF TypeInv, AnswerTyped, Answer, Send, Go, Replies, Faults
  <2>2. CASE \E p \in {"sessionsOf", "removeUser", "cleanDB"} : Continue(c, p)
    BY <2>2, ContinueType
       DEF TypeInv, AnswerTyped, Continue, Go, Phases, InMethod
  <2>3. QED
    BY <1>4, <2>1, <2>2
<1>6. HasSid' /\ QueriesInv'
  <2>1. OnlyCall(c) /\ UNCHANGED <<ses, todo>>
    BY <1>4 DEF OnlyCall, TypeInv, AnswerTyped, Touch, Answer, Send, Continue,
         Go,
       ctxVars
  <2>2. QED
    BY <1>2, <1>3, <1>5, <2>1, SingleStep DEF TypeInv, Several
<1>7. QED
  BY <1>1, <1>3, <1>5, <1>6 DEF TypeInv

-----------------------------------------------------------------------------
(* login.                                                                  *)

LEMMA FindUserType ==
  ASSUME TypeInv, NEW c \in Conns, FindUser(c)
  PROVE  TypeInv'
<1>1. TableTyped' /\ RestTyped' /\ QueriesTyped'
  BY DEF TypeInv, TableTyped, RestTyped, QueriesTyped, FindUser, dbVars,
     ctxVars, histVars
<1>2. pc[c] = "loginUid" /\ ses[c] \in SESSION /\ ses[c].sid \in Sids
  BY DEF TypeInv, SesTyped, HasSid, NoRowYet, FindUser
<1>3. SesTyped' /\ ses'[c].sid = ses[c].sid
  <2>1. CASE req[c].user \in users
    <3>1. req[c].user \in Uid
      BY <2>1 DEF TypeInv, RestTyped, Uid
    <3>2. /\ [ses[c] EXCEPT !.uid = req[c].user] \in SESSION
          /\ [ses[c] EXCEPT !.uid = req[c].user].sid = ses[c].sid
      BY <1>2, <3>1 DEF SESSION
    <3>3. QED
      BY <2>1, <3>2 DEF TypeInv, SesTyped, FindUser
  <2>2. CASE req[c].user \notin users
    <3>1. /\ [ses[c] EXCEPT !.timestamp = clock] \in SESSION
          /\ [ses[c] EXCEPT !.timestamp = clock].sid = ses[c].sid
      BY <1>2 DEF TypeInv, RestTyped, SESSION
    <3>2. QED
      BY <2>2, <3>1 DEF TypeInv, SesTyped, FindUser
  <2>3. QED
    BY <2>1, <2>2
<1>4. \/ \E p \in {"authType", "fallback"} : Continue(c, p)
      \/ Go(c, "loginUnknown") /\ Send(c, "refused")
  BY DEF FindUser, FirstAuthPhase
<1>5. AnswerTyped' /\ pc'[c] \in {"authType", "fallback", "loginUnknown"}
  <2>1. CASE \E p \in {"authType", "fallback"} : Continue(c, p)
    BY <2>1, ContinueType
       DEF TypeInv, AnswerTyped, Continue, Go, Phases, InMethod
  <2>2. CASE Go(c, "loginUnknown") /\ Send(c, "refused")
    <3>1. pc' \in [Conns -> Phases] /\ pc'[c] = "loginUnknown"
      BY <2>2 DEF TypeInv, AnswerTyped, Go, Phases, InMethod
    <3>2. "refused" \in Replies
      BY DEF Replies
    <3>3. AnswerTyped'
      BY <1>3, <2>2, <3>1, <3>2, SendType DEF TypeInv
    <3>4. QED
      BY <3>1, <3>3
  <2>3. QED
    BY <1>4, <2>1, <2>2
<1>6. HasSid' /\ QueriesInv'
  <2>1. OnlyCall(c) /\ UNCHANGED <<todo, stored>>
    BY <1>4 DEF OnlyCall, TypeInv, AnswerTyped, SesTyped, FindUser, Continue, Go,
       Send, QueriesTyped, dbVars
  <2>2. QED
    BY <1>2, <1>3, <1>5, <2>1, SingleStep DEF TypeInv, Several, QueriesInv
<1>7. QED
  BY <1>1, <1>3, <1>5, <1>6 DEF TypeInv

LEMMA StoreUnknownType ==
  ASSUME TypeInv, NEW c \in Conns, StoreUnknown(c)
  PROVE  TypeInv'
<1>1. QueriesTyped' /\ RestTyped' /\ SesTyped'
  BY DEF TypeInv, QueriesTyped, RestTyped, SesTyped, StoreUnknown, ctxVars
<1>2. pc[c] = "loginUnknown" /\ ses[c].sid \in Sids
  BY DEF TypeInv, HasSid, NoRowYet, StoreUnknown
<1>3. TableTyped' /\ IsFiniteSet(stored')
  BY <1>2, UpsertType, UpsertFinite DEF TypeInv, StoreUnknown
<1>4. AnswerTyped' /\ pc'[c] = "idle"
  BY ContinueType DEF TypeInv, AnswerTyped, StoreUnknown, Continue, Go, Phases
<1>5. HasSid' /\ QueriesInv'
  <2>1. OnlyCall(c) /\ UNCHANGED <<ses, todo>>
    BY DEF OnlyCall, TypeInv, AnswerTyped, StoreUnknown, Continue, Go, ctxVars
  <2>2. QED
    BY <1>2, <1>3, <1>4, <2>1, SingleStep DEF TypeInv, Several
<1>6. QED
  BY <1>1, <1>3, <1>4, <1>5 DEF TypeInv

LEMMA ReadAuthTypeType ==
  ASSUME TypeInv, NEW c \in Conns, ReadAuthType(c)
  PROVE  TypeInv'
<1>1. TableTyped' /\ RestTyped' /\ QueriesTyped'
  BY DEF TypeInv, TableTyped, RestTyped, QueriesTyped, ReadAuthType, dbVars,
     histVars
<1>2. pc[c] = "authType" /\ ses[c] \in SESSION /\ ses[c].sid \in Sids
  BY DEF TypeInv, SesTyped, HasSid, NoRowYet, ReadAuthType
<1>3. SesTyped' /\ ses'[c].sid = ses[c].sid
  <2>1. CASE conf.authtype = "pam"
    <3>1. req[c].good \in BOOLEAN
      BY DEF TypeInv, RestTyped, Request
    <3>2. /\ [ses[c] EXCEPT !.authenticated = req[c].good] \in SESSION
          /\ [ses[c] EXCEPT !.authenticated = req[c].good].sid = ses[c].sid
      BY <1>2, <3>1 DEF SESSION
    <3>3. QED
      BY <2>1, <3>2 DEF TypeInv, SesTyped, ReadAuthType
  <2>2. CASE conf.authtype # "pam"
    BY <2>2 DEF TypeInv, SesTyped, ReadAuthType
  <2>3. QED
    BY <2>1, <2>2
<1>4. \E p \in {"getAuth", "stuck", "fallback"} : Continue(c, p)
  BY DEF ReadAuthType, AuthPhase
<1>5. AnswerTyped' /\ pc'[c] \in {"getAuth", "stuck", "fallback"}
  BY <1>4, ContinueType
     DEF TypeInv, AnswerTyped, Continue, Go, Phases, InMethod
<1>6. HasSid' /\ QueriesInv'
  <2>1. OnlyCall(c) /\ UNCHANGED <<todo, stored>>
    BY <1>4 DEF OnlyCall, TypeInv, AnswerTyped, SesTyped, QueriesTyped,
       ReadAuthType, Continue, Go, dbVars
  <2>2. QED
    BY <1>2, <1>3, <1>5, <2>1, SingleStep DEF TypeInv, Several, QueriesInv
<1>7. QED
  BY <1>1, <1>3, <1>5, <1>6 DEF TypeInv

LEMMA ReadFallbackType ==
  ASSUME TypeInv, NEW c \in Conns, ReadFallback(c)
  PROVE  TypeInv'
<1>1. TableTyped' /\ RestTyped' /\ QueriesTyped' /\ SesTyped'
  BY DEF TypeInv, TableTyped, RestTyped, QueriesTyped, SesTyped, ReadFallback,
     dbVars, histVars
<1>2. pc[c] = "fallback" /\ ses[c].sid \in Sids
  BY DEF TypeInv, HasSid, NoRowYet, ReadFallback
<1>3. AnswerTyped' /\ pc'[c] \in {"idle", "stuck"}
  <2>1. CASE conf.fallback
    BY <2>1, ContinueType
       DEF TypeInv, AnswerTyped, ReadFallback, Continue, Go, Phases
  <2>2. CASE ~conf.fallback
    BY <1>1, <2>2, AnswerType
       DEF TypeInv, AnswerTyped, ReadFallback, Answer, Send, Go, Replies, Faults
  <2>3. QED
    BY <2>1, <2>2
<1>4. HasSid' /\ QueriesInv'
  <2>1. OnlyCall(c) /\ UNCHANGED <<ses, todo, stored>>
    BY DEF OnlyCall, TypeInv, AnswerTyped, QueriesTyped, ReadFallback,
       Answer, Send, Continue, Go, dbVars
  <2>2. QED
    BY <1>2, <1>3, <2>1, SingleStep DEF TypeInv, Several, QueriesInv
<1>5. QED
  BY <1>1, <1>3, <1>4 DEF TypeInv

LEMMA LoginSucceedsType ==
  ASSUME SessionAssumption, TypeInv, NEW c \in Conns, NEW s \in Sids,
         LoginSucceeds(c, s)
  PROVE  TypeInv'
<1>1. ses[c] \in SESSION /\ ses[c].uid \in Uid /\ clock \in Nat
  BY SessionFields DEF TypeInv, SesTyped, RestTyped
<1>2. TableTyped' /\ RestTyped'
  BY <1>1 DEF TypeInv, TableTyped, RestTyped, LoginSucceeds, dbVars
<1>3. QueriesTyped' /\ todo'[c] = {"lastLogin", "setSession"}
  BY DEF TypeInv, QueriesTyped, LoginSucceeds
<1>4. SesTyped' /\ ses'[c].sid = s
  <2> DEFINE v == [ses[c] EXCEPT !.sid = s, !.authenticated = TRUE,
                                 !.failures = 0, !.timestamp = clock]
  <2>1. v \in SESSION /\ v.sid = s
    BY <1>1 DEF SESSION
  <2>2. QED
    BY <2>1 DEF TypeInv, SesTyped, LoginSucceeds
<1>5. AnswerTyped' /\ pc'[c] = "finish"
  BY ContinueType
     DEF TypeInv, AnswerTyped, LoginSucceeds, Continue, Go, Phases, InMethod
<1>6. HasSid' /\ QueriesInv'
  <2>1. OnlyCall(c) /\ UNCHANGED stored
    BY DEF OnlyCall, TypeInv, AnswerTyped, SesTyped, QueriesTyped,
       LoginSucceeds, Continue, Go, dbVars
  <2>2. IsFiniteSet({"lastLogin"} \union {"setSession"})
    BY FS_Singleton, FS_AddElement
  <2>3. IsFiniteSet(todo'[c])
    <3>1. todo'[c] = {"lastLogin"} \union {"setSession"}
      BY <1>3
    <3>2. QED
      BY <2>2, <3>1
  <2>4. QED
    BY <1>4, <1>5, <2>1, <2>3, LocalStep DEF TypeInv, Several, QueriesInv
<1>7. QED
  BY <1>2, <1>3, <1>4, <1>5, <1>6 DEF TypeInv

LEMMA LoginFailsType ==
  ASSUME TypeInv, NEW c \in Conns, LoginFails(c)
  PROVE  TypeInv'
<1>1. TableTyped' /\ RestTyped' /\ QueriesTyped' /\ SesTyped'
  BY DEF TypeInv, TableTyped, RestTyped, QueriesTyped, SesTyped, LoginFails,
     dbVars, ctxVars, histVars
<1>2. AnswerTyped' /\ pc'[c] = "idle"
  BY <1>1, AnswerType
     DEF TypeInv, AnswerTyped, LoginFails, Answer, Send, Go, Replies, Faults
<1>3. HasSid' /\ QueriesInv'
  <2>1. OnlyCall(c) /\ pc[c] = "getAuth" /\ UNCHANGED <<todo, stored>>
    BY DEF OnlyCall, TypeInv, AnswerTyped, LoginFails, Answer, Send, Go,
         ctxVars, dbVars
  <2>2. QED
    BY <1>2, <2>1, SingleStep DEF TypeInv, NoRowYet, Several, QueriesInv
<1>4. QED
  BY <1>1, <1>2, <1>3 DEF TypeInv

LEMMA NoCredentialsType ==
  ASSUME TypeInv, NEW c \in Conns, NoCredentials(c)
  PROVE  TypeInv'
<1>1. TableTyped' /\ RestTyped' /\ QueriesTyped' /\ SesTyped'
  BY DEF TypeInv, TableTyped, RestTyped, QueriesTyped, SesTyped, NoCredentials,
     dbVars, ctxVars, histVars
<1>2. AnswerTyped' /\ pc'[c] = "fallback"
  BY ContinueType
     DEF TypeInv, AnswerTyped, NoCredentials, Continue, Go, Phases, InMethod
<1>3. HasSid' /\ QueriesInv'
  <2>1. OnlyCall(c) /\ pc[c] = "getAuth" /\ UNCHANGED <<ses, todo, stored>>
    BY DEF OnlyCall, TypeInv, AnswerTyped, NoCredentials, Continue, Go, ctxVars,
       dbVars
  <2>2. QED
    BY <1>2, <2>1, SingleStep DEF TypeInv, HasSid, NoRowYet, Several, QueriesInv
<1>4. QED
  BY <1>1, <1>2, <1>3 DEF TypeInv

LEMMA FinishLastLoginType ==
  ASSUME TypeInv, NEW c \in Conns, NEW same \in BOOLEAN,
         FinishLastLogin(c, same)
  PROVE  TypeInv'
<1> DEFINE bad == same \/ ses[c].uid \notin users
           last == LastReply(todo[c] \ {"lastLogin"})
<1>1. TableTyped' /\ RestTyped' /\ SesTyped'
  BY DEF TypeInv, TableTyped, RestTyped, SesTyped, FinishLastLogin, dbVars,
     histVars
<1>2. pc[c] = "finish" /\ ses[c].sid \in Sids /\ bad \in BOOLEAN
  BY DEF TypeInv, HasSid, NoRowYet, FinishLastLogin
<1>3. last \in BOOLEAN /\ (last <=> todo[c] \ {"lastLogin"} = {})
  BY DEF LastReply
<1>4. FinishOne(c, "lastLogin", bad, last)
  BY DEF FinishLastLogin
<1> HIDE DEF bad, last
<1>5. AnswerTyped' /\ QueriesTyped'
  BY <1>1, <1>2, <1>3, <1>4, FinishOneType DEF TypeInv, QueriesTyped, FinishLastLogin
<1>6. HasSid' /\ QueriesInv'
  <2>0. /\ todo'[c] = todo[c] \ {"lastLogin"}
        /\ dead[c] /\ todo'[c] = {} => pc'[c] = "idle"
        /\ dead[c] /\ todo'[c] # {} => pc'[c] = pc[c]
        /\ ~dead[c] /\ last => pc'[c] = "idle"
        /\ ~dead[c] /\ ~last => pc'[c] = pc[c]
        /\ \A d \in Conns \ {c} :
             pc'[d] = pc[d] /\ todo'[d] = todo[d] /\ reply'[d] = reply[d]
    <3>1. AnswerTyped /\ QueriesTyped
      BY DEF TypeInv
    <3>2. QED
      BY <1>3, <1>4, <3>1
         DEF FinishOne, Answer, Send, Continue, Go, AnswerTyped, QueriesTyped
  <2>1. OnlyCall(c) /\ UNCHANGED <<ses, stored>>
    BY <2>0
       DEF OnlyCall, TypeInv, FinishLastLogin, dbVars
  <2>2. IsFiniteSet(todo'[c])
    <3>1. IsFiniteSet(todo[c])
      BY DEF TypeInv, QueriesInv
    <3>2. IsFiniteSet(todo[c] \ {"lastLogin"})
      BY <3>1, FS_RemoveElement, Zenon
    <3>3. QED
      BY <2>0, <3>2
  <2>3. pc'[c] \in {"idle", "finish"} /\ (pc'[c] = "idle" => todo'[c] = {})
    BY <1>2, <1>3, <2>0
  <2>4. QED
    BY <1>2, <2>1, <2>2, <2>3, LocalStep DEF TypeInv, Several, QueriesInv
<1>7. QED
  BY <1>1, <1>5, <1>6 DEF TypeInv

LEMMA FinishSetSessionType ==
  ASSUME TypeInv, NEW c \in Conns, FinishSetSession(c)
  PROVE  TypeInv'
<1> DEFINE last == LastReply(todo[c] \ {"setSession"})
<1>1. RestTyped' /\ SesTyped'
  BY DEF TypeInv, RestTyped, SesTyped, FinishSetSession
<1>2. pc[c] = "finish" /\ ses[c].sid \in Sids
  BY DEF TypeInv, HasSid, NoRowYet, FinishSetSession
<1>3. last \in BOOLEAN /\ (last <=> todo[c] \ {"setSession"} = {})
  BY DEF LastReply
<1>4. FinishOne(c, "setSession", FALSE, last)
  BY DEF FinishSetSession
<1> HIDE DEF last
<1>5. TableTyped' /\ IsFiniteSet(stored')
  BY <1>2, UpsertType, UpsertFinite DEF TypeInv, FinishSetSession
<1>6. AnswerTyped' /\ QueriesTyped'
  <2>1. /\ AnswerTyped'
        /\ todo' \in [Conns -> SUBSET (Sids \union {"lastLogin", "setSession"})]
        /\ err' \in [Conns -> BOOLEAN]
    BY <1>1, <1>3, <1>4, FinishOneType DEF TypeInv
  <2>2. count' = count /\ dead' = dead
    BY DEF FinishSetSession
  <2>3. QED
    BY <2>1, <2>2 DEF TypeInv, QueriesTyped
<1>7. HasSid' /\ QueriesInv'
  <2>0. /\ todo'[c] = todo[c] \ {"setSession"}
        /\ dead[c] /\ todo'[c] = {} => pc'[c] = "idle"
        /\ dead[c] /\ todo'[c] # {} => pc'[c] = pc[c]
        /\ ~dead[c] /\ last => pc'[c] = "idle"
        /\ ~dead[c] /\ ~last => pc'[c] = pc[c]
        /\ \A d \in Conns \ {c} :
             pc'[d] = pc[d] /\ todo'[d] = todo[d] /\ reply'[d] = reply[d]
    <3>1. AnswerTyped /\ QueriesTyped
      BY DEF TypeInv
    <3>2. QED
      BY <1>3, <1>4, <3>1
         DEF FinishOne, Answer, Send, Continue, Go, AnswerTyped, QueriesTyped
  <2>1. OnlyCall(c) /\ UNCHANGED ses
    BY <2>0 DEF OnlyCall, TypeInv, FinishSetSession
  <2>2. IsFiniteSet(todo'[c])
    <3>1. IsFiniteSet(todo[c])
      BY DEF TypeInv, QueriesInv
    <3>2. IsFiniteSet(todo[c] \ {"setSession"})
      BY <3>1, FS_RemoveElement, Zenon
    <3>3. QED
      BY <2>0, <3>2
  <2>3. pc'[c] \in {"idle", "finish"} /\ (pc'[c] = "idle" => todo'[c] = {})
    BY <1>2, <1>3, <2>0
  <2>4. QED
    BY <1>2, <1>5, <2>1, <2>2, <2>3, LocalStep DEF TypeInv, Several
<1>8. QED
  BY <1>1, <1>5, <1>6, <1>7 DEF TypeInv

-----------------------------------------------------------------------------
(* logout and the methods of the super user, and failing queries.          *)

LEMMA LogoutType ==
  ASSUME TypeInv, NEW c \in Conns, Logout(c)
  PROVE  TypeInv'
<1>1. RestTyped' /\ QueriesTyped' /\ SesTyped'
  BY DEF TypeInv, RestTyped, QueriesTyped, SesTyped, Logout, ctxVars
<1>2. pc[c] = "logout" /\ ses[c].sid \in Sids
  BY DEF TypeInv, HasSid, NoRowYet, Logout
<1>3. TableTyped'
  BY <1>2, DeauthenticateType DEF TypeInv, Logout
<1>4. \E r \in {"ok", "UNKNOWN_RESOURCE"} : Answer(c, r)
  BY DEF Logout
<1>5. AnswerTyped' /\ pc'[c] = "idle"
  BY <1>1, <1>4, AnswerType DEF TypeInv, AnswerTyped, Answer, Send, Go,
       Replies, Faults
<1>6. HasSid' /\ QueriesInv'
  <2>1. OnlyCall(c) /\ UNCHANGED <<todo, stored>>
    BY <1>4 DEF OnlyCall, TypeInv, AnswerTyped, Logout, Answer, Send, Go,
         ctxVars,
       Deauthenticate
  <2>2. QED
    BY <1>2, <1>5, <2>1, SingleStep DEF TypeInv, NoRowYet, Several, QueriesInv
<1>7. QED
  BY <1>1, <1>3, <1>5, <1>6 DEF TypeInv

LEMMA ListSessionsType ==
  ASSUME TypeInv, NEW c \in Conns, ListSessions(c)
  PROVE  TypeInv'
<1> DEFINE list == SessionsOf(req[c].user)
<1>1. TableTyped' /\ RestTyped' /\ SesTyped'
  BY DEF TypeInv, TableTyped, RestTyped, SesTyped, ListSessions, dbVars, histVars
<1>2. pc[c] = "sessionsOf" /\ ses[c].sid \in Sids
  BY DEF TypeInv, HasSid, NoRowYet, ListSessions
<1>3. list \subseteq stored /\ list \subseteq Sids
  BY DEF TypeInv, TableTyped, SessionsOf
<1>4. IsFiniteSet(list) /\ Cardinality(list) \in Nat
  BY <1>3, FS_Subset, FS_CardinalityType DEF TypeInv, QueriesInv
<1>5. CASE list = {}
  <2>1. UNCHANGED <<todo, count, err, dead, ses, stored>>
        /\ Answer(c, "UNKNOWN_RESOURCE")
    BY <1>5 DEF ListSessions, dbVars
  <2>2. QueriesTyped'
    BY <2>1 DEF TypeInv, QueriesTyped
  <2>3. AnswerTyped' /\ pc'[c] = "idle"
    BY <1>1, <2>1, AnswerType
       DEF TypeInv, AnswerTyped, Answer, Send, Go, Replies, Faults
  <2>4. OnlyCall(c)
    BY <2>1 DEF OnlyCall, TypeInv, AnswerTyped, ListSessions, Answer, Send, Go
  <2>5. QED
    BY <1>1, <1>2, <2>1, <2>2, <2>3, <2>4, SingleStep
       DEF TypeInv, NoRowYet, Several, QueriesInv
<1>6. CASE list # {}
  <2>1. /\ todo' = [todo EXCEPT ![c] = list]
        /\ count' = [count EXCEPT ![c] = Cardinality(list)]
        /\ Continue(c, "deauths")
        /\ UNCHANGED <<err, dead, ses, stored>>
    BY <1>6 DEF ListSessions, Awaited, dbVars
  <2> HIDE DEF list
  <2>2. /\ QueriesTyped' /\ todo'[c] = list /\ count'[c] = Cardinality(list)
    BY <1>3, <1>4, <2>1 DEF TypeInv, QueriesTyped
  <2>3. AnswerTyped' /\ pc'[c] = "deauths"
    BY <2>1, ContinueType DEF TypeInv, AnswerTyped, Continue, Go, Phases, InMethod
  <2>4. OnlyCall(c)
    BY <2>1 DEF OnlyCall, TypeInv, AnswerTyped, QueriesTyped, ListSessions,
       Continue, Go
  <2>5. HasSid' /\ QueriesInv'
    BY <1>2, <1>4, <2>1, <2>2, <2>3, <2>4, LocalStep
       DEF TypeInv, Several, QueriesInv
  <2>6. QED
    BY <1>1, <2>2, <2>3, <2>5 DEF TypeInv
<1>7. QED
  BY <1>5, <1>6

LEMMA DeauthOneType ==
  ASSUME TypeInv, NEW c \in Conns, NEW s \in Sids, DeauthOne(c, s)
  PROVE  TypeInv'
<1> DEFINE bad == ~sessions[s].authenticated
           last == count'[c] = 0
           rest == todo[c] \ {s}
<1>1. RestTyped' /\ SesTyped'
  BY DEF TypeInv, RestTyped, SesTyped, DeauthOne
<1>2. /\ pc[c] = "deauths" /\ ses[c].sid \in Sids /\ s \in todo[c]
      /\ bad \in BOOLEAN /\ last \in BOOLEAN
  BY DEF TypeInv, HasSid, NoRowYet, DeauthOne
<1>3. TableTyped' /\ UNCHANGED <<stored, ses, dead>>
  BY DeauthenticateType DEF TypeInv, DeauthOne, Deauthenticate
<1>4. /\ IsFiniteSet(rest)
      /\ Cardinality(rest) = Cardinality(todo[c]) - 1
      /\ Cardinality(rest) \in Nat
      /\ Cardinality(rest) = 0 <=> rest = {}
  BY <1>2, FS_RemoveElement, FS_CardinalityType, FS_EmptySet
     DEF TypeInv, QueriesInv
<1>5. ~dead[c] => count'[c] = Cardinality(rest)
  BY <1>2, <1>4 DEF TypeInv, QueriesInv, QueriesTyped, DeauthOne
<1>6. count' \in [Conns -> Nat] /\ \A d \in Conns \ {c} : count'[d] = count[d]
  <2>1. CASE dead[c]
    BY <2>1 DEF TypeInv, QueriesTyped, DeauthOne
  <2>2. CASE ~dead[c]
    <3>1. count[c] - 1 \in Nat
      BY <1>4, <1>5, <2>2 DEF TypeInv, QueriesTyped, DeauthOne
    <3>2. QED
      BY <2>2, <3>1 DEF TypeInv, QueriesTyped, DeauthOne
  <2>3. QED
    BY <2>1, <2>2
<1>7. FinishOne(c, s, bad, last) /\ (last <=> count'[c] = 0)
  BY DEF DeauthOne
<1> HIDE DEF bad, last
<1>8. AnswerTyped' /\ QueriesTyped'
  <2>1. /\ AnswerTyped'
        /\ todo' \in [Conns -> SUBSET (Sids \union {"lastLogin", "setSession"})]
        /\ err' \in [Conns -> BOOLEAN]
    BY <1>1, <1>2, <1>7, FinishOneType DEF TypeInv
  <2>2. QED
    BY <1>3, <1>6, <2>1 DEF TypeInv, QueriesTyped
<1>9. HasSid' /\ QueriesInv'
  <2>0. /\ todo'[c] = rest
        /\ dead[c] /\ todo'[c] = {} => pc'[c] = "idle"
        /\ dead[c] /\ todo'[c] # {} => pc'[c] = pc[c]
        /\ ~dead[c] /\ last => pc'[c] = "idle"
        /\ ~dead[c] /\ ~last => pc'[c] = pc[c]
        /\ \A d \in Conns \ {c} :
             pc'[d] = pc[d] /\ todo'[d] = todo[d] /\ reply'[d] = reply[d]
    <3>1. AnswerTyped /\ QueriesTyped
      BY DEF TypeInv
    <3>2. QED
      BY <1>2, <1>7, <3>1
         DEF FinishOne, Answer, Send, Continue, Go, AnswerTyped, QueriesTyped
  <2>1. OnlyCall(c)
    BY <1>3, <1>6, <2>0 DEF OnlyCall, DeauthOne
  <2>2. /\ todo'[c] = rest
        /\ pc'[c] = IF rest = {} THEN "idle" ELSE "deauths"
    BY <1>2, <1>4, <1>5, <1>7, <2>0
  <2>3. QED
    BY <1>2, <1>3, <1>4, <1>5, <2>1, <2>2, LocalStep
       DEF TypeInv, Several, QueriesInv
<1>10. QED
  BY <1>1, <1>3, <1>8, <1>9 DEF TypeInv

LEMMA RemoveUserType ==
  ASSUME TypeInv, NEW c \in Conns, RemoveUser(c)
  PROVE  TypeInv'
<1>1. TableTyped' /\ RestTyped' /\ QueriesTyped' /\ SesTyped'
  BY DEF TypeInv, TableTyped, RestTyped, QueriesTyped, SesTyped, RemoveUser,
     dbVars, ctxVars, histVars
<1>2. \E r \in {"ok", "UNKNOWN_RESOURCE"} : Answer(c, r)
  BY DEF RemoveUser
<1>3. AnswerTyped' /\ pc'[c] = "idle"
  BY <1>1, <1>2, AnswerType DEF TypeInv, AnswerTyped, Answer, Send, Go,
       Replies, Faults
<1>4. HasSid' /\ QueriesInv'
  <2>1. OnlyCall(c) /\ pc[c] = "removeUser" /\ UNCHANGED <<todo, stored>>
    BY <1>2 DEF OnlyCall, TypeInv, AnswerTyped, RemoveUser, Answer, Send, Go,
         ctxVars,
       dbVars
  <2>2. QED
    BY <1>3, <2>1, SingleStep DEF TypeInv, NoRowYet, Several, QueriesInv
<1>5. QED
  BY <1>1, <1>3, <1>4 DEF TypeInv

LEMMA CleanDBType ==
  ASSUME TypeInv, NEW c \in Conns, CleanDB(c)
  PROVE  TypeInv'
<1>1. RestTyped' /\ QueriesTyped' /\ SesTyped'
  BY DEF TypeInv, RestTyped, QueriesTyped, SesTyped, CleanDB, ctxVars
<1>2. TableTyped' /\ IsFiniteSet(stored')
  BY FS_EmptySet DEF TypeInv, TableTyped, CleanDB, NoRow, Row, Uid, histVars
<1>3. AnswerTyped' /\ pc'[c] = "stuck"
  BY ContinueType DEF TypeInv, AnswerTyped, CleanDB, Continue, Go, Phases
<1>4. HasSid' /\ QueriesInv'
  <2>1. OnlyCall(c) /\ pc[c] = "cleanDB" /\ UNCHANGED todo
    BY DEF OnlyCall, TypeInv, AnswerTyped, CleanDB, Continue, Go, ctxVars
  <2>2. QED
    BY <1>2, <1>3, <2>1, SingleStep DEF TypeInv, NoRowYet, Several
<1>5. QED
  BY <1>1, <1>2, <1>3, <1>4 DEF TypeInv

LEMMA DbErrorType ==
  ASSUME TypeInv, NEW c \in Conns, NEW q, DbError(c, q)
  PROVE  TypeInv'
<1>1. TableTyped' /\ RestTyped' /\ SesTyped'
  BY DEF TypeInv, TableTyped, RestTyped, SesTyped, DbError, dbVars, histVars
<1>2. /\ QueriesTyped' /\ todo'[c] = todo[c] \ {q} /\ dead'[c] = TRUE
  BY DEF TypeInv, QueriesTyped, DbError
<1>3. /\ pc' \in [Conns -> Phases]
      /\ pc'[c] = IF todo'[c] = {} THEN "idle" ELSE pc[c]
  BY DEF TypeInv, AnswerTyped, DbError, Go, Phases
<1>4. AnswerTyped'
  <2>1. CASE dead[c]
    BY <1>3, <2>1 DEF TypeInv, AnswerTyped, DbError
  <2>2. CASE ~dead[c]
    <3>1. "DB_QUERY" \in Replies
      BY DEF Replies, Faults
    <3>2. QED
      BY <1>1, <1>3, <2>2, <3>1, SendType DEF TypeInv, DbError
  <2>3. QED
    BY <2>1, <2>2
<1>5. HasSid' /\ QueriesInv'
  <2>1. OnlyCall(c) /\ UNCHANGED <<ses, stored>>
    BY DEF OnlyCall, TypeInv, AnswerTyped, QueriesTyped, DbError, Go, Send, dbVars
  <2>2. IsFiniteSet(todo'[c])
    BY <1>2, FS_RemoveElement DEF TypeInv, QueriesInv
  <2>3. todo'[c] # {} => pc[c] \in Several
    BY <1>2 DEF TypeInv, QueriesInv
  <2>4. QED
    BY <1>2, <1>3, <2>1, <2>2, <2>3, LocalStep
       DEF TypeInv, HasSid, NoRowYet, Several, QueriesInv
<1>6. QED
  BY <1>1, <1>2, <1>4, <1>5 DEF TypeInv

-----------------------------------------------------------------------------
(* The theorems.                                                           *)

LEMMA TypeInit ==
  ASSUME SessionAssumption, Init
  PROVE  TypeInv
<1>1. NoRow \in Row /\ NewSESSION \in SESSION
  BY SessionAssumption DEF NoRow, NewSESSION, Row, SESSION, Uid
<1>2. TableTyped /\ SesTyped
  BY <1>1 DEF Init, TableTyped, SesTyped, Uid
<1>3. AnswerTyped /\ QueriesTyped /\ RestTyped
  BY SessionAssumption
     DEF Init, AnswerTyped, QueriesTyped, RestTyped, Phases, Replies, Request, Uid
<1>4. HasSid /\ QueriesInv
  BY FS_EmptySet DEF Init, HasSid, QueriesInv, NoRowYet, Several
<1>5. QED
  BY <1>2, <1>3, <1>4 DEF TypeInv

LEMMA TypeStep ==
  ASSUME SessionAssumption, TypeInv, [Next]_vars
  PROVE  TypeInv'
<1>1. CASE UNCHANGED vars
  BY <1>1 DEF vars, TypeInv, TableTyped, AnswerTyped, QueriesTyped, RestTyped,
     SesTyped, HasSid, QueriesInv
<1>2. CASE Tick
  BY <1>2, TickType
<1>3. ASSUME NEW c \in Conns, NEW r \in Requests, StartCall(c, r)
      PROVE  TypeInv'
  BY <1>3, StartCallType
<1>4. ASSUME NEW c \in Conns, Step(c)  PROVE TypeInv'
  BY <1>4, OpenSessionType, LoginSucceedsType, DeauthOneType, AskSsoType,
     StoreNewSessionType, SsoOffType, LoadSessionType, CheckSessionType,
     ReadUserTypeType, TouchType, FindUserType, StoreUnknownType,
     ReadAuthTypeType, ReadFallbackType, LoginFailsType, NoCredentialsType,
     FinishLastLoginType, FinishSetSessionType, LogoutType, ListSessionsType,
     RemoveUserType, CleanDBType DEF Step
<1>5. ASSUME NEW c \in Conns, NEW q, DbError(c, q)  PROVE TypeInv'
  BY <1>5, DbErrorType
<1>6. QED
  BY <1>1, <1>2, <1>3, <1>4, <1>5 DEF Next

\* Every reachable state of every instance satisfies the inductive invariant.
THEOREM TypeInvariance == Spec => []TypeInv
<1>1. Init => TypeInv
  BY TypeInit, SessionAssumption
<1>2. TypeInv /\ [Next]_vars => TypeInv'
  BY TypeStep, SessionAssumption
<1>3. QED
  BY <1>1, <1>2, PTL DEF Spec

\* Type correctness: in particular ctx->count is never counted below zero.
THEOREM TypeCorrect == Spec => []TypeOK
<1>1. TypeInv => TypeOK
  BY TypeGroups DEF TypeInv
<1>2. QED
  BY <1>1, TypeInvariance, PTL

\* A login or logoutByName is answered by its last reply: no query of an
\* answered call is in flight, and ctx->count agrees with the queries.
THEOREM AnswersAreLast == Spec => []AnswerIsLast
<1>1. TypeInv => AnswerIsLast
  BY DEF TypeInv, QueriesInv, AnswerIsLast, Several
<1>2. QED
  BY <1>1, TypeInvariance, PTL
=============================================================================
