------------------------- MODULE SessionGrant_proofs -------------------------
(***************************************************************************)
(* Whatever calls interleave, only a checked password makes a session      *)
(* authenticated, a quiescent logout is final, the session table           *)
(* implements SessionLife, and a login that is answered "ok" left a        *)
(* session of the user it named.                                           *)
(*                                                                         *)
(* Every step of a call is first brought into one of a few forms (Moves):  *)
(* what it may do to the call's own copy of the session, and what it may   *)
(* do to the table.  The invariants are then proved of the forms.          *)
(***************************************************************************)
EXTENDS Session_proofs

\* Ids in use, by whomever, were issued; so a new id is in nobody's hands.
IssuedInv ==
  /\ given \subseteq issued /\ stored \subseteq issued /\ closed \subseteq issued
  /\ \A c \in Conns : /\ req[c].cookie \in issued \union {NoSid}
                      /\ ses[c].sid \in issued \union {NoSid}
  /\ \A s \in Sids : granted[s] # NoUser => s \in issued

\* Until the row is loaded or the password checked, a copy says nothing.
NotYet == {"ip", "ssoConfig", "newSession", "getSession", "loginUid",
           "loginUnknown", "authType", "getAuth", "fallback"}
FreshInv == \A c \in Conns : pc[c] \in NotYet => ~ses[c].authenticated

-----------------------------------------------------------------------------
(* The forms of a step.                                                    *)

\* Phases in which a copy that was loaded may still be written back.
Loading == {"sessionTimeout", "userType", "touch"}

\* The copy stays what it was, or loses `authenticated`.
Keep(c) ==
  /\ ses'[c].sid = ses[c].sid
  /\ ses'[c].authenticated => ses[c].authenticated /\ ses'[c].uid = ses[c].uid
  /\ pc[c] # "stuck"
  /\ pc'[c] \in NotYet => ~ses'[c].authenticated
  /\ pc'[c] \in Loading /\ ses'[c].authenticated => pc[c] \in Loading
  /\ pc'[c] = "finish" => pc[c] = "finish" /\ todo'[c] \subseteq todo[c]

\* The copy does not say "authenticated".
Blank(c) ==
  ~ses'[c].authenticated /\ ses'[c].sid \in issued' \union {NoSid}

\* The row was loaded into the copy.
Load(c) ==
  /\ pc[c] = "getSession" /\ pc'[c] = "sessionTimeout"
  /\ ses[c].sid \in Sids /\ ses'[c].sid = ses[c].sid
  /\ ses'[c].authenticated = sessions[ses[c].sid].authenticated
  /\ ses'[c].uid = sessions[ses[c].sid].uid

\* PAM: the copy may say anything, for the call does nothing any more.
Stop(c) == pc'[c] = "stuck" /\ ses'[c].sid = ses[c].sid

\* The password was checked.
Grant(c) ==
  \E s \in Sids \ issued :
    /\ issued' = issued \union {s}
    /\ pc'[c] = "finish"
    /\ ses'[c].sid = s /\ ses'[c].authenticated
    /\ ses'[c].uid = ses[c].uid /\ ses[c].uid \in Users
    /\ granted' = [granted EXCEPT ![s] = ses[c].uid]

Copies(c) ==
  /\ OnlyCall(c)
  /\ issued \subseteq issued'
  /\ given' \subseteq given \union ({ses'[c].sid} \ {NoSid})
  /\ req'[c].cookie \in given \union {NoSid, req[c].cookie}
  /\ Keep(c) \/ Blank(c) \/ Load(c) \/ Stop(c) \/ Grant(c)

SameRows == UNCHANGED <<stored, sessions, written, closed>>

Writes(c) ==
  /\ Upsert(c)
  /\ \/ pc[c] \in {"newSession", "loginUnknown", "touch"}
     \/ pc[c] = "finish" /\ "setSession" \in todo[c]

Deauths(c) ==
  \E s \in Sids : Deauthenticate(c, s) /\ pc[c] \in {"logout", "deauths"}

Empties ==
  /\ stored' = {} /\ sessions' = [s \in Sids |-> NoRow]
  /\ UNCHANGED <<written, granted, closed>>

Table(c) ==
  \/ SameRows /\ (UNCHANGED granted \/ Grant(c))
  \/ Writes(c) \/ Deauths(c) \/ Empties

Moves(c) == Copies(c) /\ Table(c)

-----------------------------------------------------------------------------
(* Every step has these forms.                                             *)

Ready == TypeInv /\ IssuedInv /\ FreshInv

LEMMA StartCallMoves ==
  ASSUME SessionAssumption, Ready, NEW c \in Conns, NEW r \in Requests,
         StartCall(c, r)
  PROVE  Moves(c)
<1>1. Table(c)
  BY DEF Table, SameRows, StartCall, dbVars, histVars
<1>2. OnlyCall(c)
  BY DEF OnlyCall, StartCall, Go, Ready, TypeInv, AnswerTyped, SesTyped,
     QueriesTyped, RestTyped
<1>3. Blank(c)
  BY DEF Blank, StartCall, NewSESSION, Ready, TypeInv, SesTyped
<1>4. QED
  BY <1>1, <1>2, <1>3
     DEF Moves, Copies, StartCall, Requests, Ready, TypeInv, RestTyped

LEMMA OpenSessionMoves ==
  ASSUME Ready, NEW c \in Conns, NEW s \in Sids, OpenSession(c, s)
  PROVE  Moves(c)
<1>1. Table(c)
  BY DEF Table, SameRows, OpenSession, dbVars, histVars
<1>2. OnlyCall(c)
  BY DEF OnlyCall, OpenSession, Continue, Go, ctxVars, Ready, TypeInv,
     AnswerTyped, SesTyped
<1>3. Blank(c)
  <2>1. ~ses[c].authenticated
    BY DEF OpenSession, Ready, FreshInv, NotYet
  <2>2. ses'[c] = [ses[c] EXCEPT !.sid = s, !.timestamp = clock]
    BY DEF OpenSession, Ready, TypeInv, SesTyped
  <2>3. ses[c] \in SESSION
    BY DEF Ready, TypeInv, SesTyped
  <2>4. ses'[c].sid = s /\ ~ses'[c].authenticated
    BY <2>1, <2>2, <2>3 DEF SESSION
  <2>5. QED
    BY <2>4 DEF Blank, OpenSession
<1>4. QED
  BY <1>1, <1>2, <1>3 DEF Moves, Copies, OpenSession, Continue

LEMMA AskSsoMoves ==
  ASSUME Ready, NEW c \in Conns, AskSso(c)
  PROVE  Moves(c)
<1>1. Table(c)
  BY DEF Table, SameRows, AskSso, dbVars, histVars
<1>2. OnlyCall(c)
  BY DEF OnlyCall, AskSso, Continue, Go, ctxVars, Ready, TypeInv, AnswerTyped
<1>3. Blank(c)
  BY DEF Blank, AskSso, Ready, FreshInv, IssuedInv, NotYet
<1>4. QED
  BY <1>1, <1>2, <1>3 DEF Moves, Copies, AskSso, Continue

LEMMA StoreNewSessionMoves ==
  ASSUME Ready, NEW c \in Conns, StoreNewSession(c)
  PROVE  Moves(c)
<1>1. Table(c)
  BY DEF Table, Writes, StoreNewSession
<1>2. /\ ~ses[c].authenticated /\ ses[c] \in SESSION
      /\ ses[c].sid \in issued \union {NoSid}
  BY DEF StoreNewSession, Ready, TypeInv, SesTyped, FreshInv, IssuedInv, NotYet
<1>3. CASE req[c].method = "login"
  <2>1. LoginStart(c, ses[c])
    BY <1>3 DEF StoreNewSession
  <2>2. [ses[c] EXCEPT !.failures = 0].sid = ses[c].sid
        /\ [ses[c] EXCEPT !.failures = 0].authenticated = ses[c].authenticated
    BY <1>2 DEF SESSION
  <2>3. /\ ses'[c].sid = ses[c].sid /\ ~ses'[c].authenticated
        /\ given' \subseteq given \union ({ses'[c].sid} \ {NoSid})
    BY <1>2, <2>1, <2>2
       DEF LoginStart, Answer, Send, Continue, Ready, TypeInv, SesTyped
  <2>4. OnlyCall(c)
    BY <1>2, <2>1, LoginStartMoves
       DEF OnlyCall, StoreNewSession, ctxVars, Ready, TypeInv
  <2>5. QED
    BY <1>1, <1>2, <2>3, <2>4 DEF Moves, Copies, Blank, StoreNewSession
<1>4. CASE req[c].method # "login"
  <2>1. Answer(c, "ok") /\ UNCHANGED ses
    BY <1>4 DEF StoreNewSession
  <2>2. OnlyCall(c)
    BY <2>1 DEF OnlyCall, StoreNewSession, Answer, Send, Go, ctxVars, Ready,
         TypeInv,
       AnswerTyped
  <2>3. QED
    BY <1>1, <1>2, <2>1, <2>2 DEF Moves, Copies, Blank, StoreNewSession,
         Answer, Send
<1>5. QED
  BY <1>3, <1>4

LEMMA SsoOffMoves ==
  ASSUME Ready, NEW c \in Conns, SsoOff(c)
  PROVE  Moves(c)
<1>1. Table(c)
  BY DEF Table, SameRows, SsoOff, dbVars, histVars
<1>2. OnlyCall(c)
  BY DEF OnlyCall, SsoOff, Answer, Send, Continue, Go, Ready, TypeInv,
       AnswerTyped,
     SesTyped, QueriesTyped
<1>3. Blank(c)
  <2>1. ~ses[c].authenticated /\ ses[c] \in SESSION
    BY DEF SsoOff, Ready, TypeInv, SesTyped, FreshInv, NotYet
  <2>2. ses'[c] = [ses[c] EXCEPT !.sid = req[c].cookie]
    BY DEF SsoOff, Ready, TypeInv, SesTyped
  <2>3. ses'[c].sid = req[c].cookie /\ ~ses'[c].authenticated
    BY <2>1, <2>2 DEF SESSION
  <2>4. QED
    BY <2>3 DEF Blank, SsoOff, Ready, IssuedInv
<1>4. given' \subseteq given \union ({ses'[c].sid} \ {NoSid})
  BY DEF SsoOff, Answer, Send, Continue
<1>5. QED
  BY <1>1, <1>2, <1>3, <1>4 DEF Moves, Copies, SsoOff

LEMMA LoadSessionMoves ==
  ASSUME Ready, NEW c \in Conns, LoadSession(c)
  PROVE  Moves(c)
<1>1. Table(c)
  BY DEF Table, SameRows, LoadSession, dbVars, histVars
<1>2. /\ OnlyCall(c) /\ pc[c] = "getSession" /\ pc'[c] = "sessionTimeout"
      /\ UNCHANGED <<issued, given, req>>
  BY DEF OnlyCall, LoadSession, Continue, Go, ctxVars, Ready, TypeInv,
     AnswerTyped, SesTyped
<1>3. ses[c] \in SESSION /\ ses[c].sid \in Sids /\ ~ses[c].authenticated
  BY <1>2 DEF Ready, TypeInv, SesTyped, HasSid, NoRowYet, FreshInv, NotYet
<1>4. CASE ses[c].sid \in stored
  <2> DEFINE row == sessions[ses[c].sid]
  <2>1. ses'[c] = [ses[c] EXCEPT !.authenticated = row.authenticated,
                                 !.uid = row.uid, !.failures = row.failures,
                                 !.timestamp = row.timestamp]
    BY <1>4 DEF LoadSession, Loaded, Ready, TypeInv, SesTyped
  <2>2. Load(c)
    BY <1>2, <1>3, <2>1 DEF Load, SESSION
  <2>3. QED
    BY <1>1, <1>2, <2>2 DEF Moves, Copies
<1>5. CASE ses[c].sid \notin stored
  <2>1. ses'[c] = ses[c]
    BY <1>5 DEF LoadSession, Loaded, Ready, TypeInv, SesTyped
  <2>2. Blank(c)
    BY <1>2, <1>3, <2>1 DEF Blank, Ready, IssuedInv
  <2>3. QED
    BY <1>1, <1>2, <2>2 DEF Moves, Copies
<1>6. QED
  BY <1>4, <1>5

LEMMA CheckSessionMoves ==
  ASSUME SessionAssumption, Ready, NEW c \in Conns, CheckSession(c)
  PROVE  Moves(c)
<1>1. Table(c)
  BY DEF Table, SameRows, CheckSession, dbVars, histVars
<1>2. /\ pc[c] = "sessionTimeout" /\ ses[c] \in SESSION
      /\ ses[c].sid \in issued \union {NoSid}
      /\ UNCHANGED <<issued, req, count, todo, dead>>
  BY DEF CheckSession, ctxVars, Ready, TypeInv, SesTyped, IssuedInv
<1>3. ASSUME UNCHANGED ses,
             \/ \E r : Answer(c, r)
             \/ \E p \in {"logout", "userType"} : Continue(c, p)
      PROVE  Moves(c)
  <2>1. OnlyCall(c)
    BY <1>2, <1>3 DEF OnlyCall, Answer, Send, Continue, Go, Ready, TypeInv,
         AnswerTyped
  <2>2. pc'[c] \in {"idle", "logout", "userType"}
    BY <1>3 DEF Answer, Send, Continue, Go, Ready, TypeInv, AnswerTyped
  <2>3. Keep(c)
    BY <1>2, <1>3, <2>2 DEF Keep, NotYet, Loading
  <2>4. given' \subseteq given \union ({ses'[c].sid} \ {NoSid})
    BY <1>3 DEF Answer, Send, Continue
  <2>5. QED
    BY <1>1, <1>2, <2>1, <2>3, <2>4 DEF Moves, Copies
<1> DEFINE v == [ses[c] EXCEPT !.uid = NoUser, !.authenticated = FALSE]
<1>4. v \in SESSION /\ v.sid = ses[c].sid /\ ~v.authenticated
  BY <1>2 DEF SESSION, Uid
<1>5. ASSUME LoginStart(c, v)  PROVE Moves(c)
  <2>1. OnlyCall(c)
    BY <1>2, <1>4, <1>5, LoginStartMoves DEF OnlyCall, Ready, TypeInv
  <2>2. [v EXCEPT !.failures = 0].sid = v.sid
        /\ [v EXCEPT !.failures = 0].authenticated = v.authenticated
    BY <1>4 DEF SESSION
  <2> HIDE DEF v
  <2>3. /\ ses'[c].sid = ses[c].sid /\ ~ses'[c].authenticated
        /\ given' \subseteq given \union ({ses'[c].sid} \ {NoSid})
    BY <1>4, <1>5, <2>2
       DEF LoginStart, Answer, Send, Continue, Ready, TypeInv, SesTyped
  <2>4. QED
    BY <1>1, <1>2, <2>1, <2>3 DEF Moves, Copies, Blank
<1>6. ASSUME ses' = [ses EXCEPT ![c].uid = NoUser, ![c].authenticated = FALSE],
             Answer(c, "ok")
      PROVE  Moves(c)
  <2>1. ses' = [ses EXCEPT ![c] = v]
    BY <1>6 DEF Ready, TypeInv, SesTyped
  <2> HIDE DEF v
  <2>2. ses'[c] = v /\ \A d \in Conns \ {c} : ses'[d] = ses[d]
    BY <2>1 DEF Ready, TypeInv, SesTyped
  <2>3. OnlyCall(c)
    BY <1>2, <1>6, <2>2 DEF OnlyCall, Answer, Send, Go, Ready, TypeInv,
         AnswerTyped
  <2>4. QED
    BY <1>1, <1>2, <1>4, <1>6, <2>2, <2>3 DEF Moves, Copies, Blank, Answer, Send
<1>7. QED
  BY <1>3, <1>5, <1>6 DEF CheckSession

LEMMA ReadUserTypeMoves ==
  ASSUME Ready, NEW c \in Conns, ReadUserType(c)
  PROVE  Moves(c)
<1>1. Table(c)
  BY DEF Table, SameRows, ReadUserType, dbVars, histVars
<1>2. /\ OnlyCall(c) /\ pc[c] = "userType" /\ pc'[c] \in {"idle", "touch"}
      /\ UNCHANGED <<issued, req, todo>>
      /\ given' \subseteq given \union ({ses'[c].sid} \ {NoSid})
  BY DEF OnlyCall, ReadUserType, Answer, Send, Continue, Go, Ready, TypeInv,
     AnswerTyped, SesTyped, QueriesTyped
<1>3. ses[c] \in SESSION
  BY DEF Ready, TypeInv, SesTyped
<1>4. \/ ses'[c] = [ses[c] EXCEPT !.timestamp = clock]
      \/ ses'[c] = ses[c]
  BY DEF ReadUserType, Ready, TypeInv, SesTyped
<1>5. /\ ses'[c].sid = ses[c].sid /\ ses'[c].uid = ses[c].uid
      /\ ses'[c].authenticated = ses[c].authenticated
  BY <1>3, <1>4 DEF SESSION
<1>6. Keep(c)
  BY <1>2, <1>5 DEF Keep, NotYet, Loading
<1>7. QED
  BY <1>1, <1>2, <1>6 DEF Moves, Copies

LEMMA TouchMoves ==
  ASSUME Ready, NEW c \in Conns, Touch(c)
  PROVE  Moves(c)
<1>1. Table(c)
  BY DEF Table, Writes, Touch
<1>2. \/ \E r \in {"ok", "NOT_AUTHORIZED"} : Answer(c, r)
      \/ \E p \in {"sessionsOf", "removeUser", "cleanDB"} : Continue(c, p)
  BY DEF Touch, AdminPhase
<1>3. /\ OnlyCall(c) /\ pc[c] = "touch"
      /\ pc'[c] \in {"idle", "sessionsOf", "removeUser", "cleanDB"}
      /\ UNCHANGED <<issued, req, ses, todo>>
      /\ given' \subseteq given \union ({ses'[c].sid} \ {NoSid})
  BY <1>2 DEF OnlyCall, Touch, Answer, Send, Continue, Go, ctxVars, Ready,
       TypeInv,
     AnswerTyped
<1>4. Keep(c)
  BY <1>3 DEF Keep, NotYet, Loading
<1>5. QED
  BY <1>1, <1>3, <1>4 DEF Moves, Copies

LEMMA FindUserMoves ==
  ASSUME Ready, NEW c \in Conns, FindUser(c)
  PROVE  Moves(c)
<1>1. Table(c)
  BY DEF Table, SameRows, FindUser, dbVars, histVars
<1>2. OnlyCall(c) /\ UNCHANGED <<issued, req>>
      /\ given' \subseteq given \union ({ses'[c].sid} \ {NoSid})
  BY DEF OnlyCall, FindUser, Continue, Send, Go, Ready, TypeInv, AnswerTyped,
     SesTyped, QueriesTyped
<1>3. ses[c] \in SESSION /\ ~ses[c].authenticated
      /\ ses[c].sid \in issued \union {NoSid}
  BY DEF FindUser, Ready, TypeInv, SesTyped, IssuedInv, FreshInv, NotYet
<1>4. \/ ses'[c] = [ses[c] EXCEPT !.uid = req[c].user]
      \/ ses'[c] = [ses[c] EXCEPT !.timestamp = clock]
  BY DEF FindUser, Ready, TypeInv, SesTyped
<1>5. ses'[c].sid = ses[c].sid /\ ~ses'[c].authenticated
  BY <1>3, <1>4 DEF SESSION
<1>6. QED
  BY <1>1, <1>2, <1>3, <1>5 DEF Moves, Copies, Blank

LEMMA StoreUnknownMoves ==
  ASSUME Ready, NEW c \in Conns, StoreUnknown(c)
  PROVE  Moves(c)
<1>1. Table(c)
  BY DEF Table, Writes, StoreUnknown
<1>2. OnlyCall(c) /\ UNCHANGED <<issued, ses, req, given>>
  BY DEF OnlyCall, StoreUnknown, Continue, Go, ctxVars, Ready, TypeInv, AnswerTyped
<1>3. Blank(c)
  BY <1>2 DEF Blank, StoreUnknown, Ready, FreshInv, IssuedInv, NotYet
<1>4. QED
  BY <1>1, <1>2, <1>3 DEF Moves, Copies

LEMMA ReadAuthTypeMoves ==
  ASSUME Ready, NEW c \in Conns, ReadAuthType(c)
  PROVE  Moves(c)
<1>1. Table(c)
  BY DEF Table, SameRows, ReadAuthType, dbVars, histVars
<1>2. OnlyCall(c) /\ UNCHANGED <<issued, given, req>>
  BY DEF OnlyCall, ReadAuthType, Continue, Go, Ready, TypeInv, AnswerTyped,
     SesTyped, QueriesTyped
<1>3. ses[c] \in SESSION /\ ~ses[c].authenticated
      /\ ses[c].sid \in issued \union {NoSid}
  BY DEF ReadAuthType, Ready, TypeInv, SesTyped, IssuedInv, FreshInv, NotYet
<1>4. CASE conf.authtype = "pam"
  <2>1. /\ ses'[c] = [ses[c] EXCEPT !.authenticated = req[c].good]
        /\ pc'[c] = "stuck"
    BY <1>4 DEF ReadAuthType, AuthPhase, Continue, Go, Ready, TypeInv,
       AnswerTyped, SesTyped
  <2>2. Stop(c)
    BY <1>3, <2>1 DEF Stop, SESSION
  <2>3. QED
    BY <1>1, <1>2, <2>2 DEF Moves, Copies
<1>5. CASE conf.authtype # "pam"
  <2>1. Blank(c)
    BY <1>2, <1>3, <1>5 DEF Blank, ReadAuthType
  <2>2. QED
    BY <1>1, <1>2, <2>1 DEF Moves, Copies
<1>6. QED
  BY <1>4, <1>5

LEMMA ReadFallbackMoves ==
  ASSUME Ready, NEW c \in Conns, ReadFallback(c)
  PROVE  Moves(c)
<1>1. Table(c)
  BY DEF Table, SameRows, ReadFallback, dbVars, histVars
<1>2. OnlyCall(c) /\ UNCHANGED <<issued, ses, req>>
      /\ given' \subseteq given \union ({ses'[c].sid} \ {NoSid})
  BY DEF OnlyCall, ReadFallback, Answer, Send, Continue, Go, Ready, TypeInv,
     AnswerTyped, QueriesTyped
<1>3. Blank(c)
  BY <1>2 DEF Blank, ReadFallback, Ready, FreshInv, IssuedInv, NotYet
<1>4. QED
  BY <1>1, <1>2, <1>3 DEF Moves, Copies

LEMMA LoginSucceedsMoves ==
  ASSUME Ready, NEW c \in Conns, NEW s \in Sids, LoginSucceeds(c, s)
  PROVE  Moves(c)
<1>1. /\ OnlyCall(c) /\ pc'[c] = "finish"
      /\ s \in Sids \ issued /\ issued' = issued \union {s}
      /\ UNCHANGED <<given, req, stored, sessions, written, closed>>
  BY DEF OnlyCall, LoginSucceeds, NewSids, Continue, Go, dbVars, Ready, TypeInv,
     AnswerTyped, SesTyped, QueriesTyped
<1>2. granted' = [granted EXCEPT ![s] = ses[c].uid]
  BY DEF LoginSucceeds, PasswordMatches
<1>3. ses[c] \in SESSION /\ ses[c].uid \in Users
  BY DEF LoginSucceeds, Ready, TypeInv, SesTyped, RestTyped
<1>4. ses'[c] = [ses[c] EXCEPT !.sid = s, !.authenticated = TRUE,
                               !.failures = 0, !.timestamp = clock]
  BY DEF LoginSucceeds, Ready, TypeInv, SesTyped
<1>5. ses'[c].sid = s /\ ses'[c].authenticated /\ ses'[c].uid = ses[c].uid
  BY <1>3, <1>4 DEF SESSION
<1>6. Grant(c)
  BY <1>1, <1>2, <1>3, <1>5 DEF Grant
<1>7. QED
  BY <1>1, <1>6 DEF Moves, Copies, Table, SameRows

LEMMA LoginFailsMoves ==
  ASSUME Ready, NEW c \in Conns, LoginFails(c)
  PROVE  Moves(c)
<1>1. Table(c)
  BY DEF Table, SameRows, LoginFails, dbVars, histVars
<1>2. OnlyCall(c) /\ UNCHANGED <<issued, ses, req>>
      /\ given' \subseteq given \union ({ses'[c].sid} \ {NoSid})
  BY DEF OnlyCall, LoginFails, Answer, Send, Go, ctxVars, Ready, TypeInv,
       AnswerTyped
<1>3. Blank(c)
  BY <1>2 DEF Blank, LoginFails, Ready, FreshInv, IssuedInv, NotYet
<1>4. QED
  BY <1>1, <1>2, <1>3 DEF Moves, Copies

LEMMA NoCredentialsMoves ==
  ASSUME Ready, NEW c \in Conns, NoCredentials(c)
  PROVE  Moves(c)
<1>1. Table(c)
  BY DEF Table, SameRows, NoCredentials, dbVars, histVars
<1>2. OnlyCall(c) /\ UNCHANGED <<issued, given, ses, req>>
  BY DEF OnlyCall, NoCredentials, Continue, Go, ctxVars, Ready, TypeInv,
     AnswerTyped
<1>3. Blank(c)
  BY <1>2 DEF Blank, NoCredentials, Ready, FreshInv, IssuedInv, NotYet
<1>4. QED
  BY <1>1, <1>2, <1>3 DEF Moves, Copies

\* One of several queries is back: the copy is not touched.
LEMMA FinishOneCopies ==
  ASSUME Ready, NEW c \in Conns, NEW q, NEW bad \in BOOLEAN,
         NEW last \in BOOLEAN, FinishOne(c, q, bad, last),
         pc[c] \in Several, OnlyCall(c), UNCHANGED <<issued, ses, req>>
  PROVE  Copies(c)
<1>1. todo'[c] \subseteq todo[c] /\ pc'[c] \in {"idle", pc[c]}
  BY DEF FinishOne, Answer, Send, Continue, Go, Ready, TypeInv, AnswerTyped,
     QueriesTyped
<1>2. given' \subseteq given \union ({ses'[c].sid} \ {NoSid})
  BY DEF FinishOne, Answer, Send, Continue
<1>3. Keep(c)
  BY <1>1 DEF Keep, Several, NotYet, Loading
<1>4. QED
  BY <1>2, <1>3 DEF Copies

LEMMA FinishLastLoginMoves ==
  ASSUME Ready, NEW c \in Conns, NEW same \in BOOLEAN,
         FinishLastLogin(c, same)
  PROVE  Moves(c)
<1> DEFINE bad == same \/ ses[c].uid \notin users
           last == LastReply(todo[c] \ {"lastLogin"})
<1>1. Table(c)
  BY DEF Table, SameRows, FinishLastLogin, dbVars, histVars
<1>2. /\ FinishOne(c, "lastLogin", bad, last) /\ bad \in BOOLEAN
      /\ last \in BOOLEAN /\ pc[c] \in Several
      /\ UNCHANGED <<issued, ses, req, count, dead>>
  BY DEF FinishLastLogin, LastReply, Several
<1> HIDE DEF bad, last
<1>3. OnlyCall(c)
  BY <1>2 DEF OnlyCall, FinishOne, Answer, Send, Continue, Go, Ready, TypeInv,
     AnswerTyped, QueriesTyped
<1>4. Copies(c)
  BY <1>2, <1>3, FinishOneCopies
<1>5. QED
  BY <1>1, <1>4 DEF Moves

LEMMA FinishSetSessionMoves ==
  ASSUME Ready, NEW c \in Conns, FinishSetSession(c)
  PROVE  Moves(c)
<1> DEFINE last == LastReply(todo[c] \ {"setSession"})
<1>1. Table(c)
  BY DEF Table, Writes, FinishSetSession
<1>2. /\ FinishOne(c, "setSession", FALSE, last)
      /\ last \in BOOLEAN /\ pc[c] \in Several
      /\ UNCHANGED <<issued, ses, req, count, dead>>
  BY DEF FinishSetSession, LastReply, Several
<1> HIDE DEF last
<1>3. OnlyCall(c)
  BY <1>2 DEF OnlyCall, FinishOne, Answer, Send, Continue, Go, Ready, TypeInv,
     AnswerTyped, QueriesTyped
<1>4. Copies(c)
  BY <1>2, <1>3, FinishOneCopies
<1>5. QED
  BY <1>1, <1>4 DEF Moves

LEMMA LogoutMoves ==
  ASSUME Ready, NEW c \in Conns, Logout(c)
  PROVE  Moves(c)
<1>1. pc[c] = "logout" /\ ses[c].sid \in Sids
  BY DEF Logout, Ready, TypeInv, HasSid, NoRowYet
<1>2. Table(c)
  BY <1>1 DEF Table, Deauths, Logout
<1>3. \E r \in {"ok", "UNKNOWN_RESOURCE"} : Answer(c, r)
  BY DEF Logout
<1>4. /\ OnlyCall(c) /\ UNCHANGED <<issued, ses, req, todo>> /\ pc'[c] = "idle"
      /\ given' \subseteq given \union ({ses'[c].sid} \ {NoSid})
  BY <1>3 DEF OnlyCall, Logout, Answer, Send, Go, ctxVars, Ready, TypeInv,
       AnswerTyped
<1>5. Keep(c)
  BY <1>1, <1>4 DEF Keep, NotYet, Loading
<1>6. QED
  BY <1>2, <1>4, <1>5 DEF Moves, Copies

LEMMA ListSessionsMoves ==
  ASSUME Ready, NEW c \in Conns, ListSessions(c)
  PROVE  Moves(c)
<1>1. Table(c)
  BY DEF Table, SameRows, ListSessions, dbVars, histVars
<1>2. /\ OnlyCall(c) /\ UNCHANGED <<issued, ses, req>> /\ pc[c] = "sessionsOf"
      /\ pc'[c] \in {"idle", "deauths"}
      /\ given' \subseteq given \union ({ses'[c].sid} \ {NoSid})
  BY DEF OnlyCall, ListSessions, Answer, Send, Continue, Go, Ready, TypeInv,
     AnswerTyped, QueriesTyped
<1>3. Keep(c)
  BY <1>2 DEF Keep, NotYet, Loading
<1>4. QED
  BY <1>1, <1>2, <1>3 DEF Moves, Copies

LEMMA DeauthOneMoves ==
  ASSUME Ready, NEW c \in Conns, NEW s \in Sids, DeauthOne(c, s)
  PROVE  Moves(c)
<1> DEFINE bad == ~sessions[s].authenticated
           last == count'[c] = 0
<1>1. Table(c)
  BY DEF Table, Deauths, DeauthOne
<1>2. /\ FinishOne(c, s, bad, last) /\ bad \in BOOLEAN /\ last \in BOOLEAN
      /\ pc[c] \in Several /\ UNCHANGED <<issued, ses, req, dead>>
      /\ \A d \in Conns \ {c} : count'[d] = count[d]
  BY DEF DeauthOne, Several, Ready, TypeInv, QueriesTyped
<1> HIDE DEF bad, last
<1>3. OnlyCall(c)
  BY <1>2 DEF OnlyCall, FinishOne, Answer, Send, Continue, Go, Ready, TypeInv,
     AnswerTyped, QueriesTyped
<1>4. Copies(c)
  BY <1>2, <1>3, FinishOneCopies
<1>5. QED
  BY <1>1, <1>4 DEF Moves

LEMMA RemoveUserMoves ==
  ASSUME Ready, NEW c \in Conns, RemoveUser(c)
  PROVE  Moves(c)
<1>1. Table(c)
  BY DEF Table, SameRows, RemoveUser, dbVars, histVars
<1>2. \E r \in {"ok", "UNKNOWN_RESOURCE"} : Answer(c, r)
  BY DEF RemoveUser
<1>3. /\ OnlyCall(c) /\ UNCHANGED <<issued, ses, req, todo>> /\ pc'[c] = "idle"
      /\ pc[c] = "removeUser"
      /\ given' \subseteq given \union ({ses'[c].sid} \ {NoSid})
  BY <1>2 DEF OnlyCall, RemoveUser, Answer, Send, Go, ctxVars, Ready, TypeInv,
     AnswerTyped
<1>4. Keep(c)
  BY <1>3 DEF Keep, NotYet, Loading
<1>5. QED
  BY <1>1, <1>3, <1>4 DEF Moves, Copies

LEMMA CleanDBMoves ==
  ASSUME Ready, NEW c \in Conns, CleanDB(c)
  PROVE  Moves(c)
<1>1. Table(c)
  BY DEF Table, Empties, CleanDB, histVars
<1>2. /\ OnlyCall(c) /\ UNCHANGED <<issued, given, ses, req>> /\ pc'[c] = "stuck"
  BY DEF OnlyCall, CleanDB, Continue, Go, ctxVars, Ready, TypeInv, AnswerTyped
<1>3. QED
  BY <1>1, <1>2 DEF Moves, Copies, Stop

LEMMA DbErrorMoves ==
  ASSUME Ready, NEW c \in Conns, NEW q, DbError(c, q)
  PROVE  Moves(c)
<1>1. Table(c)
  BY DEF Table, SameRows, DbError, dbVars, histVars
<1>2. /\ OnlyCall(c) /\ UNCHANGED <<issued, ses, req>>
      /\ todo'[c] = todo[c] \ {q} /\ pc[c] # "stuck"
      /\ pc'[c] = IF todo'[c] = {} THEN "idle" ELSE pc[c]
      /\ given' \subseteq given \union ({ses'[c].sid} \ {NoSid})
  BY DEF OnlyCall, DbError, Go, Send, Ready, TypeInv, AnswerTyped, QueriesTyped
<1>3. pc'[c] = "idle" \/ (pc'[c] = pc[c] /\ pc[c] \in Several)
  BY <1>2 DEF Ready, TypeInv, QueriesInv
<1>4. Keep(c)
  BY <1>2, <1>3 DEF Keep, Several, NotYet, Loading
<1>5. QED
  BY <1>1, <1>2, <1>4 DEF Moves, Copies

\* Every step is a tick of the clock or moves one call.
LEMMA StepMoves ==
  ASSUME SessionAssumption, Ready, Next
  PROVE  Tick \/ \E c \in Conns : Moves(c)
<1>1. ASSUME NEW c \in Conns, NEW r \in Requests, StartCall(c, r)
      PROVE  Moves(c)
  BY <1>1, StartCallMoves
<1>2. ASSUME NEW c \in Conns, Step(c)  PROVE Moves(c)
  BY <1>2, OpenSessionMoves, LoginSucceedsMoves, DeauthOneMoves, AskSsoMoves,
     StoreNewSessionMoves, SsoOffMoves, LoadSessionMoves, CheckSessionMoves,
     ReadUserTypeMoves, TouchMoves, FindUserMoves, StoreUnknownMoves,
     ReadAuthTypeMoves, ReadFallbackMoves, LoginFailsMoves, NoCredentialsMoves,
     FinishLastLoginMoves, FinishSetSessionMoves, LogoutMoves,
     ListSessionsMoves, RemoveUserMoves, CleanDBMoves DEF Step
<1>3. ASSUME NEW c \in Conns, NEW q, DbError(c, q)  PROVE Moves(c)
  BY <1>3, DbErrorMoves
<1>4. QED
  BY <1>1, <1>2, <1>3 DEF Next

-----------------------------------------------------------------------------
(* The invariants, of the forms.                                           *)

\* A call that writes its copy has a session id, one that was issued.
LEMMA WritesIssued ==
  ASSUME Ready, NEW c \in Conns, Writes(c)
  PROVE  ses[c].sid \in Sids /\ ses[c].sid \in issued
<1>1. pc[c] \notin NoRowYet
  BY DEF Writes, NoRowYet
<1>2. ses[c].sid \in Sids
  BY <1>1 DEF Ready, TypeInv, HasSid
<1>3. ses[c].sid \in issued \/ (ses[c].sid = NoSid /\ NoSid \in Sids)
  BY <1>2 DEF Ready, IssuedInv
<1>4. QED
  BY <1>2, <1>3, SessionAssumption DEF SessionAssumption

LEMMA CopyIssued ==
  ASSUME Ready, NEW c \in Conns, Copies(c)
  PROVE  ses'[c].sid \in issued' \union {NoSid}
  BY DEF Copies, Keep, Blank, Load, Stop, Grant, Ready, IssuedInv

\* The owner of an issued id does not change.
LEMMA OwnerKept ==
  ASSUME Ready, NEW c \in Conns, Moves(c), NEW s \in issued
  PROVE  granted'[s] = granted[s]
<1>1. s \in Sids
  BY DEF Ready, TypeInv, RestTyped
<1>2. QED
  BY <1>1 DEF Moves, Table, SameRows, Grant, Writes, Upsert, Deauths,
     Deauthenticate, Empties, Ready, TypeInv, TableTyped

LEMMA IssuedStep ==
  ASSUME Ready, NEW c \in Conns, Moves(c)
  PROVE  IssuedInv'
<1>1. issued \subseteq issued' /\ ses'[c].sid \in issued' \union {NoSid}
  BY CopyIssued DEF Moves, Copies
<1>2. given' \subseteq issued'
  BY <1>1 DEF Moves, Copies, Ready, IssuedInv
<1>3. stored' \subseteq issued'
  BY <1>1, WritesIssued DEF Moves, Table, SameRows, Writes, Upsert, Deauths,
     Deauthenticate, Empties, Ready, IssuedInv
<1>4. closed' \subseteq issued'
  BY <1>1 DEF Moves, Table, SameRows, Writes, Upsert, Deauths, Deauthenticate,
     Empties, Ready, IssuedInv
<1>5. \A d \in Conns : /\ req'[d].cookie \in issued' \union {NoSid}
                       /\ ses'[d].sid \in issued' \union {NoSid}
  BY <1>1 DEF Moves, Copies, OnlyCall, Ready, IssuedInv
<1>6. ASSUME NEW s \in Sids, granted'[s] # NoUser  PROVE s \in issued'
  BY <1>1, <1>6 DEF Moves, Table, SameRows, Grant, Writes, Upsert, Deauths,
     Deauthenticate, Empties, Ready, IssuedInv, TypeInv, TableTyped
<1>7. QED
  BY <1>2, <1>3, <1>4, <1>5, <1>6 DEF IssuedInv

LEMMA FreshStep ==
  ASSUME Ready, NEW c \in Conns, Moves(c)
  PROVE  FreshInv'
<1>1. pc'[c] \in NotYet => ~ses'[c].authenticated
  BY DEF Moves, Copies, Keep, Blank, Load, Stop, Grant, NotYet
<1>2. QED
  BY <1>1 DEF Moves, Copies, OnlyCall, Ready, FreshInv

\* A written row has the fields of the structure.
LEMMA UpsertRow ==
  ASSUME Ready, NEW c \in Conns, ses[c].sid \in Sids, Upsert(c)
  PROVE  /\ sessions'[ses[c].sid].authenticated = ses[c].authenticated
         /\ sessions'[ses[c].sid].uid = ses[c].uid
         /\ \A s \in Sids \ {ses[c].sid} : sessions'[s] = sessions[s]
  BY DEF Upsert, RowOf, Ready, TypeInv, TableTyped

\* A deauthenticated row keeps its owner.
LEMMA DeauthRow ==
  ASSUME Ready, NEW c \in Conns, NEW s \in Sids, Deauthenticate(c, s)
  PROVE  /\ ~sessions'[s].authenticated
         /\ \A t \in Sids \ {s} : sessions'[t] = sessions[t]
<1>1. sessions[s] \in Row
  BY DEF Ready, TypeInv, TableTyped
<1>2. sessions'[s] = [sessions[s] EXCEPT !.authenticated = FALSE]
  BY DEF Deauthenticate, Ready, TypeInv, TableTyped
<1>3. ~sessions'[s].authenticated
  BY <1>1, <1>2 DEF Row
<1>4. QED
  BY <1>3 DEF Deauthenticate, Ready, TypeInv, TableTyped

LEMMA GrantedStep ==
  ASSUME SessionAssumption, Ready, AuthenticatedOnlyByLogin,
         NEW c \in Conns, Moves(c)
  PROVE  AuthenticatedOnlyByLogin'
<1>1. \A s \in Sids : granted[s] # NoUser => granted'[s] = granted[s]
  BY OwnerKept DEF Ready, IssuedInv
<1>2. ASSUME NEW s \in Sids, sessions'[s].authenticated
      PROVE  granted'[s] = sessions'[s].uid /\ granted'[s] # NoUser
  <2>1. CASE sessions'[s] = sessions[s]
    BY <1>1, <1>2, <2>1 DEF AuthenticatedOnlyByLogin
  <2>2. CASE sessions'[s] # sessions[s]
    <3>1. Writes(c) \/ Deauths(c) \/ Empties
      BY <2>2 DEF Moves, Table, SameRows
    <3>2. CASE Writes(c)
      <4>1. ses[c].sid = s /\ sessions'[s].uid = ses[c].uid
            /\ ses[c].authenticated /\ pc[c] # "stuck"
        BY <1>2, <2>2, <3>2, WritesIssued, UpsertRow DEF Writes
      <4>2. granted[s] = ses[c].uid /\ ses[c].uid # NoUser
        BY <4>1 DEF AuthenticatedOnlyByLogin
      <4>3. QED
        BY <1>1, <4>1, <4>2
    <3>3. CASE Deauths(c)
      BY <1>2, <2>2, <3>3, DeauthRow DEF Deauths
    <3>4. CASE Empties
      BY <1>2, <3>4 DEF Empties, NoRow
    <3>5. QED
      BY <3>1, <3>2, <3>3, <3>4
  <2>3. QED
    BY <2>1, <2>2
<1>3. ASSUME NEW d \in Conns, ses'[d].authenticated, pc'[d] # "stuck"
      PROVE  /\ ses'[d].sid # NoSid /\ granted'[ses'[d].sid] = ses'[d].uid
             /\ ses'[d].uid # NoUser
  <2>1. ASSUME pc[d] # "stuck", ses[d].authenticated,
               ses'[d].sid = ses[d].sid, ses'[d].uid = ses[d].uid
        PROVE  /\ ses'[d].sid # NoSid /\ granted'[ses'[d].sid] = ses'[d].uid
               /\ ses'[d].uid # NoUser
    <3>1. ses[d].sid \in Sids
      BY <2>1 DEF AuthenticatedOnlyByLogin, Ready, TypeInv, SesTyped, SESSION
    <3>2. QED
      BY <1>1, <2>1, <3>1 DEF AuthenticatedOnlyByLogin
  <2>2. CASE d # c
    BY <1>3, <2>1, <2>2 DEF Moves, Copies, OnlyCall
  <2>3. CASE d = c /\ Keep(c)
    BY <1>3, <2>1, <2>3 DEF Keep
  <2>4. CASE d = c /\ Load(c)
    BY <1>1, <1>3, <2>4, SessionAssumption
       DEF Load, AuthenticatedOnlyByLogin, SessionAssumption
  <2>5. CASE d = c /\ Grant(c)
    <3>1. PICK s \in Sids \ issued :
            /\ ses'[c].sid = s /\ ses'[c].uid = ses[c].uid
            /\ ses[c].uid \in Users
            /\ granted' = [granted EXCEPT ![s] = ses[c].uid]
      BY <2>5 DEF Grant
    <3>2. granted'[s] = ses[c].uid
      BY <3>1 DEF Ready, TypeInv, TableTyped
    <3>3. QED
      BY <2>5, <3>1, <3>2, SessionAssumption DEF SessionAssumption
  <2>6. QED
    BY <1>3, <2>2, <2>3, <2>4, <2>5 DEF Moves, Copies, Blank, Stop
<1>4. QED
  BY <1>2, <1>3 DEF AuthenticatedOnlyByLogin

\* A step takes no copy of a closed session to where it can be written.
LEMMA NoNewHolder ==
  ASSUME Ready, NEW c \in Conns, Moves(c), NEW s \in Sids, s \in issued,
         ~sessions[s].authenticated \/ pc[c] # "getSession",
         NEW d \in Conns, ~HoldsCopy(d, s)
  PROVE  ~HoldsCopy(d, s)'
<1>1. CASE d # c
  BY <1>1 DEF Moves, Copies, OnlyCall, HoldsCopy
<1>2. CASE d = c
  BY <1>2 DEF Moves, Copies, HoldsCopy, Keep, Blank, Load, Stop, Grant, Loading
<1>3. QED
  BY <1>1, <1>2

LEMMA FinalStep ==
  ASSUME Ready, QuiescentLogoutIsFinal, NEW c \in Conns, Moves(c)
  PROVE  QuiescentLogoutIsFinal'
<1>1. ASSUME NEW s \in closed
      PROVE  /\ ~sessions'[s].authenticated
             /\ \A d \in Conns : ~HoldsCopy(d, s)'
  <2>1. /\ s \in Sids /\ s \in issued /\ ~sessions[s].authenticated
        /\ \A d \in Conns : ~HoldsCopy(d, s)
    BY DEF QuiescentLogoutIsFinal, Ready, IssuedInv, TypeInv, TableTyped
  <2>2. CASE SameRows
    BY <2>1, <2>2, NoNewHolder DEF SameRows
  <2>3. CASE Writes(c)
    <3>1. ses[c].sid = s => ~ses[c].authenticated
      BY <2>1, <2>3 DEF Writes, HoldsCopy, Ready, FreshInv, NotYet
    <3>2. QED
      BY <2>1, <2>3, <3>1, WritesIssued, UpsertRow, NoNewHolder DEF Writes
  <2>4. CASE Deauths(c)
    <3>1. ~sessions'[s].authenticated
      BY <2>1, <2>4, DeauthRow DEF Deauths
    <3>2. QED
      BY <2>1, <3>1, NoNewHolder
  <2>5. CASE Empties
    <3>1. ~sessions'[s].authenticated
      BY <2>1, <2>5 DEF Empties, NoRow
    <3>2. QED
      BY <2>1, <3>1, NoNewHolder
  <2>6. QED
    BY <2>2, <2>3, <2>4, <2>5 DEF Moves, Table
<1>2. ASSUME NEW s \in closed', s \notin closed
      PROVE  /\ ~sessions'[s].authenticated
             /\ \A d \in Conns : ~HoldsCopy(d, s)'
  <2>1. Deauths(c)
    BY <1>2 DEF Moves, Table, SameRows, Writes, Upsert, Empties
  <2>2. /\ Deauthenticate(c, s) /\ pc[c] \in {"logout", "deauths"}
        /\ s \in Sids /\ s \in issued
        /\ \A d \in Conns \ {c} : ~HoldsCopy(d, s)
    <3>1. PICK r \in Sids :
            Deauthenticate(c, r) /\ pc[c] \in {"logout", "deauths"}
      BY <2>1 DEF Deauths
    <3>2. s = r /\ s \in stored /\ \A d \in Conns \ {c} : ~HoldsCopy(d, s)
      BY <1>2, <3>1 DEF Deauthenticate
    <3>3. QED
      BY <3>1, <3>2 DEF Ready, IssuedInv
  <2>3. ~HoldsCopy(c, s)
    BY <2>2 DEF HoldsCopy
  <2>4. ~sessions'[s].authenticated
    BY <2>2, DeauthRow
  <2>5. pc[c] # "getSession"
    BY <2>2
  <2>6. QED
    BY <2>2, <2>3, <2>4, <2>5, NoNewHolder
<1>3. QED
  BY <1>1, <1>2 DEF QuiescentLogoutIsFinal

-----------------------------------------------------------------------------
(* The theorems.                                                           *)

GrantInv == /\ Ready
            /\ AuthenticatedOnlyByLogin
            /\ QuiescentLogoutIsFinal

LEMMA GrantInit == SessionAssumption /\ Init => GrantInv
<1> SUFFICES ASSUME SessionAssumption, Init  PROVE GrantInv
  OBVIOUS
<1>1. TypeInv
  BY TypeInit
<1>2. IssuedInv
  BY DEF Init, IssuedInv, NewSESSION
<1>3. FreshInv
  BY DEF Init, FreshInv, NewSESSION
<1>4. AuthenticatedOnlyByLogin
  BY DEF Init, AuthenticatedOnlyByLogin, NoRow, NewSESSION
<1>5. QuiescentLogoutIsFinal
  BY DEF Init, QuiescentLogoutIsFinal
<1>6. QED
  BY <1>1, <1>2, <1>3, <1>4, <1>5 DEF GrantInv, Ready

LEMMA GrantStep ==
  ASSUME SessionAssumption, GrantInv, [Next]_vars
  PROVE  GrantInv'
<1>1. TypeInv'
  BY TypeStep DEF GrantInv, Ready
<1>2. ASSUME UNCHANGED <<stored, sessions, issued, given, req, pc, ses, todo,
                         granted, closed>>
      PROVE  GrantInv'
  <2>1. IssuedInv' /\ FreshInv'
    BY <1>2 DEF GrantInv, Ready, IssuedInv, FreshInv
  <2>2. AuthenticatedOnlyByLogin'
    BY <1>2 DEF GrantInv, AuthenticatedOnlyByLogin
  <2>3. QuiescentLogoutIsFinal'
    BY <1>2 DEF GrantInv, QuiescentLogoutIsFinal, HoldsCopy
  <2>4. QED
    BY <1>1, <2>1, <2>2, <2>3 DEF GrantInv, Ready
<1>3. ASSUME NEW c \in Conns, Moves(c)  PROVE GrantInv'
  BY <1>1, <1>3, IssuedStep, FreshStep, GrantedStep, FinalStep
     DEF GrantInv, Ready
<1>4. CASE Tick
  BY <1>2, <1>4 DEF Tick, dbVars, ctxVars, histVars
<1>5. CASE UNCHANGED vars
  BY <1>2, <1>5 DEF vars
<1>6. CASE Next
  BY <1>3, <1>4, <1>6, StepMoves DEF GrantInv
<1>7. QED
  BY <1>5, <1>6

LEMMA GrantInvariance == Spec => []GrantInv
<1>1. Init => GrantInv
  BY GrantInit, SessionAssumption
<1>2. GrantInv /\ [Next]_vars => GrantInv'
  BY GrantStep, SessionAssumption
<1>3. QED
  BY <1>1, <1>2, PTL DEF Spec

\* No interleaving of calls, and no row that is missing, stale or truncated,
\* makes a session authenticated whose user's password was not checked.
THEOREM OnlyLoginAuthenticates == Spec => []AuthenticatedOnlyByLogin
<1>1. GrantInv => AuthenticatedOnlyByLogin
  BY DEF GrantInv
<1>2. QED
  BY <1>1, GrantInvariance, PTL

\* A logout that ran while no call held a copy of the session cannot be
\* undone: _setSession of no later call writes it back as authenticated.
THEOREM LogoutIsFinal == Spec => []QuiescentLogoutIsFinal
<1>1. GrantInv => QuiescentLogoutIsFinal
  BY DEF GrantInv
<1>2. QED
  BY <1>1, GrantInvariance, PTL

\* The state SessionLife sees of a row.
StateOf(s) == IF sessions[s].authenticated THEN "on"
              ELSE IF s \in closed THEN "closed" ELSE "off"

\* Whoever's state changes is one row; or the table is emptied.
LEMMA LifeSteps ==
  ASSUME GrantInv, GrantInv', NEW c \in Conns, Moves(c)
  PROVE  Life!LifeNext \/ UNCHANGED Life!lifeVars
<1> DEFINE st == [s \in Sids |-> StateOf(s)]
<1>0. /\ \A s \in closed : ~sessions[s].authenticated
      /\ \A s \in closed' : ~sessions'[s].authenticated
  BY DEF GrantInv, QuiescentLogoutIsFinal
<1>1. CASE SameRows /\ UNCHANGED granted
  BY <1>1 DEF SameRows, Life!lifeVars
<1>2. CASE SameRows /\ Grant(c)
  <2>1. PICK s \in Sids \ issued :
          /\ ses[c].uid \in Users
          /\ granted' = [granted EXCEPT ![s] = ses[c].uid]
    BY <1>2 DEF Grant
  <2>2. granted[s] = NoUser /\ s \notin closed
    BY DEF GrantInv, Ready, IssuedInv
  <2>3. ~sessions[s].authenticated
    BY <2>2 DEF GrantInv, AuthenticatedOnlyByLogin
  <2>4. Life!Grant(s, ses[c].uid)
    BY <1>2, <2>1, <2>2, <2>3 DEF Life!Grant, SameRows
  <2>5. QED
    BY <2>1, <2>4 DEF Life!LifeNext
<1>3. ASSUME NEW s \in Sids, UNCHANGED granted,
             \A t \in Sids \ {s} : StateOf(t)' = StateOf(t),
             s \in closed => s \in closed',
             StateOf(s)' = "on" => granted[s] # NoUser
      PROVE  Life!LifeNext \/ UNCHANGED Life!lifeVars
  <2>1. st' = [st EXCEPT ![s] = StateOf(s)']
    BY <1>3
  <2>2. CASE StateOf(s)' = StateOf(s)
    <3>1. st' = st
      BY <1>3, <2>2
    <3>2. QED
      BY <1>3, <3>1 DEF Life!lifeVars, StateOf
  <2>3. CASE StateOf(s) # "closed" /\ StateOf(s)' = "closed"
    <3>1. Life!Close(s)
      BY <1>3, <2>1, <2>3 DEF Life!Close, StateOf
    <3>2. QED
      BY <3>1 DEF Life!LifeNext
  <2>4. CASE StateOf(s) = "on" /\ StateOf(s)' = "off"
    <3>1. Life!Revoke(s)
      BY <1>3, <2>1, <2>4 DEF Life!Revoke, StateOf
    <3>2. QED
      BY <3>1 DEF Life!LifeNext
  <2>5. CASE StateOf(s) = "off" /\ StateOf(s)' = "on"
    <3>1. Life!Restore(s)
      BY <1>3, <2>1, <2>5 DEF Life!Restore, StateOf
    <3>2. QED
      BY <3>1 DEF Life!LifeNext
  <2>6. QED
    BY <1>0, <1>3, <2>2, <2>3, <2>4, <2>5 DEF StateOf
<1>4. ASSUME NEW s \in Sids, StateOf(s)' = "on"  PROVE granted'[s] # NoUser
  BY <1>4 DEF GrantInv, AuthenticatedOnlyByLogin, StateOf
<1>5. CASE Writes(c)
  <2>1. ses[c].sid \in Sids /\ UNCHANGED <<closed, granted>>
    BY <1>5, WritesIssued DEF GrantInv, Writes, Upsert
  <2>2. \A t \in Sids \ {ses[c].sid} : StateOf(t)' = StateOf(t)
    BY <1>5, <2>1, UpsertRow DEF Writes, StateOf, GrantInv
  <2>3. QED
    BY <1>3, <1>4, <2>1, <2>2
<1>6. CASE Deauths(c)
  <2>1. PICK s \in Sids : Deauthenticate(c, s)
    BY <1>6 DEF Deauths
  <2>2. \A t \in Sids \ {s} : sessions'[t] = sessions[t]
    BY <2>1, DeauthRow DEF GrantInv
  <2>3. /\ \A t \in Sids \ {s} : StateOf(t)' = StateOf(t)
        /\ s \in closed => s \in closed'
        /\ UNCHANGED granted
    BY <2>1, <2>2 DEF Deauthenticate, StateOf
  <2>4. QED
    BY <1>3, <1>4, <2>3
<1>7. CASE Empties
  <2>1. Life!Truncate
    BY <1>0, <1>7 DEF Life!Truncate, Empties, NoRow
  <2>2. QED
    BY <2>1 DEF Life!LifeNext
<1>8. QED
  BY <1>1, <1>2, <1>5, <1>6, <1>7 DEF Moves, Table

\* The table implements SessionLife: an id has one owner, its row is only
\* ever authenticated for the owner, and a closed id stays closed.
THEOREM TableImplementsLife == Spec => SessionLifeSpec
<1>1. Init => Life!LifeInit
  BY DEF Init, Life!LifeInit, NoRow
<1>2. GrantInv /\ GrantInv' /\ [Next]_vars => [Life!LifeNext]_(Life!lifeVars)
  <2> SUFFICES ASSUME GrantInv, GrantInv', [Next]_vars
               PROVE  Life!LifeNext \/ UNCHANGED Life!lifeVars
    OBVIOUS
  <2>1. CASE UNCHANGED vars
    BY <2>1 DEF vars, Life!lifeVars
  <2>2. CASE Tick
    BY <2>2 DEF Tick, dbVars, histVars, Life!lifeVars
  <2>3. ASSUME NEW c \in Conns, Moves(c)
        PROVE  Life!LifeNext \/ UNCHANGED Life!lifeVars
    BY <2>3, LifeSteps
  <2>4. CASE Next
    BY <2>2, <2>3, <2>4, StepMoves, SessionAssumption DEF GrantInv
  <2>5. QED
    BY <2>1, <2>4
<1>3. QED
  BY <1>1, <1>2, GrantInvariance, PTL DEF Spec, SessionLifeSpec, Life!LifeSpec

-----------------------------------------------------------------------------
(* A login that is answered "ok".  The answer is given by whichever of       *)
(* setLastLogin and setSession comes back last, long after the password was  *)
(* checked.  So the invariant follows one call through the phases of login:  *)
(* whose uid its structure holds, for whom its session id was granted, and   *)
(* that its row is written once setSession is no longer in flight.  Steps of *)
(* other calls keep it because an id that was issued keeps its owner, and a  *)
(* row that was ever written stays so.                                       *)

\* The phases that only a call other than login reaches.
NoLogin == {"userType", "touch", "logout", "sessionsOf", "deauths", "removeUser"}

\* From _auth on, the structure holds the uid of the user that was named.
NamedUser == {"authType", "getAuth", "fallback", "finish"}

\* The session id of call c was granted to the user its login named.
Granted(c) ==
  /\ ses[c].sid \in issued
  /\ granted[ses[c].sid] = req[c].user
  /\ req[c].good

CallLogin(c) ==
  /\ pc[c] # "idle" => reply[c] # "ok"
  /\ pc[c] \in NoLogin => req[c].method # "login"
  /\ pc[c] \in NamedUser => ses[c].uid = req[c].user
  /\ pc[c] = "finish" =>
       /\ Granted(c)
       /\ "setSession" \notin todo[c] /\ ~dead[c] => ses[c].sid \in written
  /\ pc[c] = "idle" /\ req[c].method = "login" /\ reply[c] = "ok" =>
       Granted(c) /\ ses[c].sid \in written

LoginInv == \A c \in Conns : CallLogin(c)

-----------------------------------------------------------------------------
(* The call that moves, one lemma per group of actions.                    *)

Typed == SessionAssumption /\ GrantInv /\ LoginInv

\* Between the phases that matter there is nothing to show, as long as the
\* answer is not "ok".
LEMMA Quiet ==
  ASSUME NEW c \in Conns, reply'[c] # "ok", pc'[c] \notin NoLogin \union NamedUser
  PROVE  CallLogin(c)'
  BY DEF CallLogin, NamedUser

\* A call other than login.
LEMMA Otherwise ==
  ASSUME NEW c \in Conns, req'[c].method # "login", pc'[c] \notin NamedUser,
         pc'[c] # "idle" => reply'[c] # "ok"
  PROVE  CallLogin(c)'
  BY DEF CallLogin, NamedUser

\* Answer and Continue on the call itself.
LEMMA AnswerOf ==
  ASSUME TypeInv, NEW c \in Conns, NEW r, Answer(c, r)
  PROVE  pc'[c] = "idle" /\ reply'[c] = r
  BY DEF Answer, Send, Go, TypeInv, AnswerTyped

LEMMA ContinueOf ==
  ASSUME TypeInv, NEW c \in Conns, NEW p, Continue(c, p)
  PROVE  pc'[c] = p /\ reply'[c] = reply[c]
  BY DEF Continue, Go, TypeInv, AnswerTyped

\* The call that moves is not idle, so not answered "ok".
LEMMA Running ==
  ASSUME Typed, NEW c \in Conns, pc[c] # "idle" PROVE reply[c] # "ok"
  BY DEF Typed, LoginInv, CallLogin

LEMMA StatusNotOk ==
  ASSUME NEW s, NEW now PROVE SessionStatus(s, now) # "ok"
  BY DEF SessionStatus

LEMMA LoginStartQuiet ==
  ASSUME Typed, NEW c \in Conns, pc[c] # "idle", NEW v, LoginStart(c, v)
  PROVE  CallLogin(c)'
<1>1. TypeInv
  BY DEF Typed, GrantInv, Ready
<1>2. \/ pc'[c] = "idle" /\ reply'[c] = "MAX_LOGIN_FAILURES"
      \/ pc'[c] = "loginUid" /\ reply'[c] = reply[c]
  BY <1>1, AnswerOf, ContinueOf DEF LoginStart
<1>3. QED
  BY <1>2, Running, Quiet DEF NoLogin, NamedUser

LEMMA PreCallLogin ==
  ASSUME Typed, NEW c \in Conns,
         \/ \E r \in Requests : StartCall(c, r)
         \/ \E s \in Sids : OpenSession(c, s)
         \/ AskSso(c) \/ StoreNewSession(c) \/ SsoOff(c) \/ LoadSession(c)
  PROVE  CallLogin(c)'
<1>0. TypeInv
  BY DEF Typed, GrantInv, Ready
<1>1. CASE \E r \in Requests : StartCall(c, r)
  <2>1. pc'[c] = "ip" /\ reply'[c] = "none"
    BY <1>0, <1>1 DEF StartCall, Go, TypeInv, AnswerTyped
  <2>2. QED
    BY <2>1, Quiet DEF NoLogin, NamedUser
<1>2. CASE (\E s \in Sids : OpenSession(c, s)) \/ AskSso(c) \/ LoadSession(c)
  <2>1. /\ pc[c] # "idle" /\ reply'[c] = reply[c]
        /\ pc'[c] \in {"newSession", "ssoConfig", "sessionTimeout"}
    BY <1>0, <1>2, ContinueOf DEF OpenSession, AskSso, LoadSession
  <2>2. QED
    BY <2>1, Running, Quiet DEF NoLogin, NamedUser
<1>3. CASE StoreNewSession(c)
  <2>1. CASE req[c].method = "login"
    BY <1>3, <2>1, LoginStartQuiet DEF StoreNewSession
  <2>2. CASE req[c].method # "login"
    <3>1. pc'[c] = "idle" /\ req' = req
      BY <1>0, <1>3, <2>2, AnswerOf DEF StoreNewSession
    <3>2. QED
      BY <2>2, <3>1, Otherwise DEF NamedUser
  <2>3. QED
    BY <2>1, <2>2
<1>4. CASE SsoOff(c)
  <2>1. \/ pc'[c] = "idle" /\ reply'[c] = "NOT_AUTHENTICATED"
        \/ pc'[c] = "getSession" /\ reply'[c] = reply[c]
    BY <1>0, <1>4, AnswerOf, ContinueOf DEF SsoOff
  <2>2. pc[c] # "idle"
    BY <1>4 DEF SsoOff
  <2>3. QED
    BY <2>1, <2>2, Running, Quiet DEF NoLogin, NamedUser
<1>5. QED
  BY <1>1, <1>2, <1>3, <1>4

LEMMA CheckSessionLogin ==
  ASSUME Typed, NEW c \in Conns, CheckSession(c)
  PROVE  CallLogin(c)'
<1>0. TypeInv /\ pc[c] # "idle" /\ req' = req
  BY DEF Typed, GrantInv, Ready, CheckSession
<1>1. CASE \E v : LoginStart(c, v)
  BY <1>0, <1>1, LoginStartQuiet
<1>2. CASE req[c].method # "login" /\ Answer(c, "ok")
  BY <1>0, <1>2, AnswerOf, Otherwise DEF NamedUser
<1>3. CASE Answer(c, SessionStatus(ses[c], clock))
  BY <1>0, <1>3, AnswerOf, StatusNotOk, Quiet DEF NoLogin, NamedUser
<1>4. CASE req[c].method # "login" /\ (Continue(c, "logout") \/ Continue(c, "userType"))
  BY <1>0, <1>4, ContinueOf, Running, Otherwise DEF NamedUser
<1>5. QED
  BY <1>1, <1>2, <1>3, <1>4 DEF CheckSession

\* The methods other than login.
LEMMA OtherMethodsLogin ==
  ASSUME Typed, NEW c \in Conns,
         \/ ReadUserType(c) \/ Touch(c) \/ Logout(c) \/ ListSessions(c)
         \/ RemoveUser(c) \/ CleanDB(c)
         \/ \E s \in Sids : DeauthOne(c, s)
  PROVE  CallLogin(c)'
<1>0. TypeInv /\ req' = req /\ (pc[c] \in NoLogin => req[c].method # "login")
  BY DEF Typed, GrantInv, Ready, LoginInv, CallLogin, ReadUserType, Touch, Logout,
     ListSessions, RemoveUser, CleanDB, DeauthOne
<1>1. CASE ReadUserType(c)
  <2>1. pc'[c] \in {"touch", "idle"} /\ (pc'[c] = "touch" => reply'[c] = reply[c])
    BY <1>0, <1>1, AnswerOf, ContinueOf DEF ReadUserType
  <2>2. QED
    BY <1>0, <1>1, <2>1, Running, Otherwise DEF NoLogin, NamedUser, ReadUserType
<1>2. CASE Touch(c)
  <2>1. /\ pc'[c] \in {"idle", "sessionsOf", "removeUser", "cleanDB"}
        /\ pc'[c] # "idle" => reply'[c] = reply[c]
    BY <1>0, <1>2, AnswerOf, ContinueOf DEF Touch, AdminPhase
  <2>2. QED
    BY <1>0, <1>2, <2>1, Running, Otherwise DEF NoLogin, NamedUser, Touch
<1>3. CASE Logout(c) \/ RemoveUser(c)
  <2>1. pc'[c] = "idle"
    BY <1>0, <1>3, AnswerOf DEF Logout, RemoveUser
  <2>2. QED
    BY <1>0, <1>3, <2>1, Otherwise DEF NoLogin, NamedUser, Logout, RemoveUser
<1>4. CASE ListSessions(c)
  <2>1. pc'[c] \in {"deauths", "idle"} /\ (pc'[c] = "deauths" => reply'[c] = reply[c])
    BY <1>0, <1>4, AnswerOf, ContinueOf DEF ListSessions
  <2>2. QED
    BY <1>0, <1>4, <2>1, Running, Otherwise DEF NoLogin, NamedUser, ListSessions
<1>5. CASE CleanDB(c)
  <2>1. pc'[c] = "stuck" /\ reply'[c] = reply[c] /\ pc[c] # "idle"
    BY <1>0, <1>5, ContinueOf DEF CleanDB
  <2>2. QED
    BY <2>1, Running, Quiet DEF NoLogin, NamedUser
<1>6. CASE \E s \in Sids : DeauthOne(c, s)
  <2>1. pc[c] = "deauths"
    BY <1>6 DEF DeauthOne
  <2>2. pc'[c] = "idle" \/ (pc'[c] = pc[c] /\ reply'[c] = reply[c])
    BY <1>0, <1>6, AnswerOf, ContinueOf DEF DeauthOne, FinishOne
  <2>3. QED
    BY <1>0, <2>1, <2>2, Running, Otherwise DEF NoLogin, NamedUser
<1>7. QED
  BY <1>1, <1>2, <1>3, <1>4, <1>5, <1>6

\* From the name to the credentials: whose uid the structure holds.
LEMMA FindUserLogin ==
  ASSUME Typed, NEW c \in Conns, FindUser(c) \/ StoreUnknown(c)
  PROVE  CallLogin(c)'
<1>0. TypeInv /\ req' = req /\ pc[c] # "idle"
  BY DEF Typed, GrantInv, Ready, FindUser, StoreUnknown
<1>1. CASE FindUser(c) /\ req[c].user \in users
  <2>1. ses' = [ses EXCEPT ![c].uid = req[c].user] /\ ses[c] \in SESSION
    BY <1>0, <1>1 DEF FindUser, TypeInv, SesTyped
  <2>2. ses'[c].uid = req[c].user
    BY <1>0, <2>1 DEF TypeInv, SesTyped, SESSION
  <2>3. pc'[c] \in {"authType", "fallback"} /\ reply'[c] = reply[c]
    BY <1>0, <1>1, ContinueOf DEF FindUser, FirstAuthPhase
  <2>4. QED
    BY <1>0, <2>2, <2>3, Running DEF CallLogin, NoLogin
<1>2. CASE FindUser(c) /\ req[c].user \notin users
  <2>1. pc'[c] = "loginUnknown" /\ reply'[c] = "refused"
    BY <1>0, <1>2 DEF FindUser, Go, Send, TypeInv, AnswerTyped
  <2>2. QED
    BY <2>1, Quiet DEF NoLogin, NamedUser
<1>3. CASE StoreUnknown(c)
  <2>1. pc'[c] = "idle" /\ reply'[c] = reply[c]
    BY <1>0, <1>3, ContinueOf DEF StoreUnknown
  <2>2. QED
    BY <1>0, <2>1, Running, Quiet DEF NoLogin, NamedUser
<1>4. QED
  BY <1>1, <1>2, <1>3

LEMMA AuthLogin ==
  ASSUME Typed, NEW c \in Conns,
         ReadAuthType(c) \/ ReadFallback(c) \/ LoginFails(c) \/ NoCredentials(c)
  PROVE  CallLogin(c)'
<1>0. /\ TypeInv /\ req' = req /\ pc[c] \in {"authType", "getAuth", "fallback"}
      /\ ses[c].uid = req[c].user /\ ses[c] \in SESSION
  BY DEF Typed, GrantInv, Ready, LoginInv, CallLogin, NamedUser, ReadAuthType,
     ReadFallback, LoginFails, NoCredentials, TypeInv, SesTyped
<1>1. ses'[c].uid = ses[c].uid
  <2>1. \/ ses' = ses
        \/ ses' = [ses EXCEPT ![c].authenticated = req[c].good]
    BY DEF ReadAuthType, ReadFallback, LoginFails, NoCredentials
  <2>2. QED
    BY <1>0, <2>1 DEF TypeInv, SesTyped, SESSION
<1>2. \/ /\ pc'[c] \in {"getAuth", "fallback", "stuck"}
         /\ reply'[c] = reply[c]
      \/ /\ pc'[c] = "idle"
         /\ reply'[c] \in {"NOT_AUTHORIZED", "UNKNOWN_RESOURCE"}
  BY <1>0, AnswerOf, ContinueOf
     DEF ReadAuthType, AuthPhase, ReadFallback, LoginFails, NoCredentials
<1>3. QED
  BY <1>0, <1>1, <1>2, Running DEF CallLogin, NoLogin

\* The password was checked: the new id is granted to the user that was named.
LEMMA LoginSucceedsLogin ==
  ASSUME Typed, NEW c \in Conns, NEW s \in Sids, LoginSucceeds(c, s)
  PROVE  CallLogin(c)'
<1>0. /\ TypeInv /\ req' = req /\ pc[c] = "getAuth" /\ ses[c] \in SESSION
      /\ ses[c].uid = req[c].user
  BY DEF Typed, GrantInv, Ready, LoginInv, CallLogin, NamedUser, LoginSucceeds,
     TypeInv, SesTyped
<1>1. ses'[c].sid = s /\ ses'[c].uid = req[c].user
  <2>1. ses'[c] = [ses[c] EXCEPT !.sid = s, !.authenticated = TRUE,
                                 !.failures = 0, !.timestamp = clock]
    BY <1>0 DEF LoginSucceeds, TypeInv, SesTyped
  <2>2. QED
    BY <1>0, <2>1 DEF SESSION
<1>2. /\ req[c].good /\ s \in issued' /\ granted' = [granted EXCEPT ![s] = ses[c].uid]
      /\ todo'[c] = {"lastLogin", "setSession"}
  BY <1>0 DEF LoginSucceeds, PasswordMatches, TypeInv, QueriesTyped
<1>3. granted'[s] = req[c].user
  BY <1>0, <1>2 DEF TypeInv, TableTyped
<1>4. Granted(c)'
  BY <1>0, <1>1, <1>2, <1>3 DEF Granted
<1>5. pc'[c] = "finish" /\ reply'[c] = reply[c]
  BY <1>0, ContinueOf DEF LoginSucceeds
<1>6. QED
  BY <1>0, <1>1, <1>2, <1>4, <1>5, Running DEF CallLogin, NoLogin

\* One of the two replies of a login: the answer is "ok" only when it is the
\* last, and then setSession has run.
LEMMA FinishLogin ==
  ASSUME Typed, NEW c \in Conns,
         \/ \E same \in BOOLEAN : FinishLastLogin(c, same)
         \/ FinishSetSession(c)
  PROVE  CallLogin(c)'
<1>0. /\ TypeInv /\ UNCHANGED <<req, ses, issued, granted, dead>> /\ pc[c] = "finish"
      /\ ses[c].uid = req[c].user /\ Granted(c)
      /\ "setSession" \notin todo[c] /\ ~dead[c] => ses[c].sid \in written
  BY DEF Typed, GrantInv, Ready, LoginInv, CallLogin, NamedUser, FinishLastLogin,
     FinishSetSession, Upsert, histVars
<1>1. Granted(c)'
  BY <1>0 DEF Granted
<1>2. written \subseteq written'
  BY DEF FinishLastLogin, FinishSetSession, Upsert, histVars
<1>3. ASSUME NEW q \in {"lastLogin", "setSession"}, NEW bad, NEW last,
             FinishOne(c, q, bad, last),
             last <=> todo[c] \ {q} = {},
             q = "setSession" => ses[c].sid \in written'
      PROVE  CallLogin(c)'
  <2>1. todo'[c] = todo[c] \ {q}
    BY <1>0, <1>3 DEF FinishOne, TypeInv, QueriesTyped
  <2>2. "setSession" \notin todo'[c] /\ ~dead'[c] => ses'[c].sid \in written'
    BY <1>0, <1>2, <1>3, <2>1
  <2>3. \/ pc'[c] = "finish" /\ reply'[c] = reply[c]
        \/ dead[c] /\ pc'[c] = "idle" /\ reply'[c] = reply[c]
        \/ ~dead[c] /\ todo'[c] = {} /\ pc'[c] = "idle"
    BY <1>0, <1>3, <2>1, AnswerOf, ContinueOf DEF FinishOne
  <2>4. QED
    BY <1>0, <1>1, <2>2, <2>3, Running DEF CallLogin, NoLogin
<1>4. ASSUME NEW same \in BOOLEAN, FinishLastLogin(c, same)
      PROVE  CallLogin(c)'
  <2>1. FinishOne(c, "lastLogin", same \/ ses[c].uid \notin users,
                  todo[c] \ {"lastLogin"} = {})
    BY <1>4 DEF FinishLastLogin, LastReply
  <2>2. QED
    BY <1>3, <2>1
<1>5. CASE FinishSetSession(c)
  <2>1. /\ FinishOne(c, "setSession", FALSE, todo[c] \ {"setSession"} = {})
        /\ ses[c].sid \in written'
    BY <1>5 DEF FinishSetSession, LastReply, Upsert
  <2>2. QED
    BY <1>3, <2>1
<1>6. QED
  BY <1>4, <1>5

\* A query that fails answers the call, and kills it.
LEMMA DbErrorLogin ==
  ASSUME Typed, NEW c \in Conns, NEW q, DbError(c, q)
  PROVE  CallLogin(c)'
<1>0. /\ TypeInv /\ UNCHANGED <<req, ses, issued, granted>> /\ CallLogin(c)
      /\ pc[c] # "idle"
  BY DEF Typed, GrantInv, Ready, LoginInv, DbError, histVars
<1>1. /\ reply'[c] \in {"DB_QUERY", reply[c]} /\ dead'[c] = TRUE
      /\ pc'[c] \in {"idle", pc[c]}
  BY <1>0 DEF DbError, Go, Send, TypeInv, AnswerTyped, QueriesTyped
<1>2. QED
  BY <1>0, <1>1, Running DEF CallLogin, Granted, NoLogin, NamedUser

-----------------------------------------------------------------------------
(* The other calls, and the theorem.                                       *)

LEMMA OthersLogin ==
  ASSUME Typed, NEW c \in Conns, Moves(c), NEW d \in Conns, d # c
  PROVE  CallLogin(d)'
<1>1. /\ UNCHANGED <<pc[d], ses[d], req[d], todo[d], dead[d], reply[d]>>
      /\ issued \subseteq issued'
  BY DEF Moves, Copies, OnlyCall
<1>2. written \subseteq written'
  BY DEF Moves, Table, SameRows, Writes, Upsert, Deauths, Deauthenticate, Empties
<1>3. Granted(d) => Granted(d)'
  BY <1>1, OwnerKept DEF Granted, Typed, GrantInv
<1>4. CallLogin(d)
  BY DEF Typed, LoginInv
<1>5. QED
  BY <1>1, <1>2, <1>3, <1>4 DEF CallLogin

LEMMA LoginInit == SessionAssumption /\ Init => LoginInv
  BY DEF Init, LoginInv, CallLogin, NoLogin, NamedUser

LEMMA LoginStep ==
  ASSUME SessionAssumption, GrantInv, LoginInv, [Next]_vars
  PROVE  LoginInv'
<1>0. Typed /\ Ready
  BY DEF Typed, GrantInv
<1>1. ASSUME UNCHANGED <<issued, req, pc, ses, todo, dead, reply, granted, written>>
      PROVE  LoginInv'
  BY <1>1 DEF LoginInv, CallLogin, Granted
<1>2. ASSUME NEW c \in Conns, Moves(c), CallLogin(c)'  PROVE LoginInv'
  BY <1>0, <1>2, OthersLogin DEF LoginInv
<1>3. ASSUME NEW c \in Conns, NEW r \in Requests, StartCall(c, r)
      PROVE  LoginInv'
  BY <1>0, <1>2, <1>3, StartCallMoves, PreCallLogin
<1>4. ASSUME NEW c \in Conns, NEW q, DbError(c, q)  PROVE LoginInv'
  BY <1>0, <1>2, <1>4, DbErrorMoves, DbErrorLogin
<1>5. ASSUME NEW c \in Conns, Step(c)  PROVE LoginInv'
  <2>1. Moves(c)
    BY <1>0, <1>5, OpenSessionMoves, LoginSucceedsMoves, DeauthOneMoves, AskSsoMoves,
       StoreNewSessionMoves, SsoOffMoves, LoadSessionMoves, CheckSessionMoves,
       ReadUserTypeMoves, TouchMoves, FindUserMoves, StoreUnknownMoves,
       ReadAuthTypeMoves, ReadFallbackMoves, LoginFailsMoves, NoCredentialsMoves,
       FinishLastLoginMoves, FinishSetSessionMoves, LogoutMoves,
       ListSessionsMoves, RemoveUserMoves, CleanDBMoves DEF Step
  <2>2. CallLogin(c)'
    BY <1>0, <1>5, PreCallLogin, CheckSessionLogin, OtherMethodsLogin, FindUserLogin,
       AuthLogin, LoginSucceedsLogin, FinishLogin DEF Step
  <2>3. QED
    BY <1>2, <2>1, <2>2
<1>6. CASE Tick
  BY <1>1, <1>6 DEF Tick, ctxVars, histVars
<1>7. CASE UNCHANGED vars
  BY <1>1, <1>7 DEF vars
<1>8. QED
  BY <1>3, <1>4, <1>5, <1>6, <1>7 DEF Next

\* A login answered "ok" left a session, stored in the table, of the user it
\* named and with the right password: in whatever order setLastLogin and
\* setSession came back, whatever failed and whatever other calls did.
THEOREM LoginLeavesSession == Spec => []LoginOkMeansSession
<1>1. Init => LoginInv
  BY LoginInit, SessionAssumption
<1>2. GrantInv /\ LoginInv /\ [Next]_vars => LoginInv'
  BY LoginStep, SessionAssumption
<1>3. LoginInv => LoginOkMeansSession
  BY DEF LoginInv, CallLogin, Granted, LoginOkMeansSession
<1>4. QED
  BY <1>1, <1>2, <1>3, GrantInvariance, PTL DEF Spec
=============================================================================
