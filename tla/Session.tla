------------------------------ MODULE Session ------------------------------
(***************************************************************************)
(* Sessions of the RPC server: session_pre_call, which runs before every   *)
(* call, and the calls that change the `sessions` table (login, logout,    *)
(* logoutByName, cleanDB).                                                 *)
(*                                                                         *)
(* The server is one event loop, but a call is a chain of asynchronous     *)
(* database queries, so calls of several connections interleave between    *)
(* any two queries.  Each call works on its own SESSION structure, loaded  *)
(* from the table by session_pre_call and written back whole, so a copy    *)
(* may be stale when it is written.                                        *)
(*                                                                         *)
(* pc[c] names the query call c waits for.  An action executes that query  *)
(* and runs its callback up to the next query: the callback reads and      *)
(* writes only the call's own structures, so nothing can tell the two      *)
(* apart.                                                                  *)
(***************************************************************************)
EXTENDS Naturals, FiniteSets

CONSTANTS
  Conns,          \* connections; each has one call at a time
  Users,          \* uids of the accounts
  Supers,         \* the uids of type USER_TYPE_SUPER_USER
  Sids,           \* the uuids azy_uuid_new can make
  NoUser,         \* uid -1
  NoSid,          \* no cookie, or one that is not a uuid
  SessionTimeout, \* config `session_timeout`, in ticks
  RetryTimeout,   \* zconf->RETRY_TIMEOUT, in ticks
  MaxFailures,    \* zconf->MAX_LOGIN_FAILURES
  AuthTypes,      \* values of config `authtype`; "unset" when it has no row
  Fallbacks,      \* whether config `authfallback` has a row
  Methods,        \* the methods the clients call
  Horizon         \* bound: the last tick of the clock

ASSUME SessionAssumption ==
  /\ Supers \subseteq Users
  /\ NoUser \notin Users
  /\ NoSid \notin Sids
  /\ {SessionTimeout, RetryTimeout, Horizon} \subseteq Nat
  /\ MaxFailures \in Nat \ {0}
  /\ AuthTypes \subseteq {"unset", "internal", "pam", "other"}
  /\ Fallbacks \subseteq BOOLEAN

VARIABLES
  clock,     \* time(NULL)
  conf,      \* the configuration rows that select the authentication
  users,     \* table `users`: uids that exist
  stored,    \* table `sessions`: session ids that have a row
  sessions,  \* table `sessions`: the row of each id
  issued,    \* uuids made so far
  given,     \* session ids clients were given as a cookie
  req,       \* the request of the connection's call
  pc,        \* the query its call waits for
  ses,       \* data_->session, the call's SESSION
  count,     \* ctx->count
  todo,      \* queries in flight when there are several
  err,       \* ctx->error is set
  dead,      \* answered (ctx->dead, or by CTX_RETURN) before its queries came back
  reply,     \* the answer of the last call
  granted,   \* history: the user whose password was checked for a session
  written,   \* history: sessions whose row was ever written
  closed     \* history: sessions deauthenticated when no copy was about

dbVars   == <<stored, sessions>>
ctxVars  == <<count, todo, err, dead>>
histVars == <<granted, written, closed>>
vars == <<clock, conf, users, stored, sessions, issued, given, req, pc, ses,
          count, todo, err, dead, reply, granted, written, closed>>

-----------------------------------------------------------------------------
(* Types and empty values.                                                 *)

Uid == Users \union {NoUser}

Row == [authenticated: BOOLEAN, uid: Uid, failures: Nat, timestamp: Nat]

SESSION == [sid: Sids \union {NoSid}, authenticated: BOOLEAN, uid: Uid,
            failures: Nat, timestamp: Nat]

\* The phases before the method runs, and those of the methods.
PreCall == {"ip", "newSession", "ssoConfig", "getSession", "sessionTimeout",
            "userType", "touch"}
InMethod == {"loginUid", "loginUnknown", "authType", "getAuth", "fallback",
             "finish", "sessionsOf", "deauths", "logout", "removeUser",
             "cleanDB"}
Phases == {"idle", "stuck"} \union PreCall \union InMethod

Faults == {"NOT_AUTHORIZED", "NOT_AUTHENTICATED", "EXPIRED_SESSION",
           "MAX_LOGIN_FAILURES", "UNKNOWN_RESOURCE", "DB_QUERY"}
Replies == {"none", "ok", "refused"} \union Faults

Request == [method: {"hello", "login", "logout", "download", "call",
                     "logoutByName", "removeUser", "cleanDB"},
            user: Uid, good: BOOLEAN, cookie: Sids \union {NoSid}]

NoRow == [authenticated |-> FALSE, uid |-> NoUser, failures |-> 0,
          timestamp |-> 0]

\* SESSION_new() and uid = -1 of PRE_CALL.
NewSESSION == [sid |-> NoSid, authenticated |-> FALSE, uid |-> NoUser,
               failures |-> 0, timestamp |-> 0]

\* What the clients send.  A user name matters to login, logoutByName and
\* removeUser only, the password to login only; NoUser stands for a name that
\* is unknown or not active.
Requests ==
  {r \in Request :
     /\ r.method \in Methods
     /\ r.cookie \in given \union {NoSid}
     /\ r.user # NoUser => r.method \in {"login", "logoutByName", "removeUser"}
     /\ r.method \in {"logoutByName", "removeUser"} => r.user # NoUser
     /\ r.good => r.method = "login" /\ r.user # NoUser}

-----------------------------------------------------------------------------
(* Helpers.                                                                *)

Go(c, phase) == pc' = [pc EXCEPT ![c] = phase]

\* azy sends the answer, with the session id set so far as the cookie.
Send(c, r) ==
  /\ reply' = [reply EXCEPT ![c] = r]
  /\ given' = given \union ({ses'[c].sid} \ {NoSid})

\* The answer when no query of the call is under way.
Answer(c, r) == Go(c, "idle") /\ Send(c, r)

Continue(c, phase) ==
  /\ Go(c, phase)
  /\ UNCHANGED <<reply, given>>

\* The row setSession writes: the whole structure.
RowOf(s) == [authenticated |-> s.authenticated, uid |-> s.uid,
             failures |-> s.failures, timestamp |-> s.timestamp]

\* INSERT ... ON DUPLICATE KEY UPDATE of the call's structure.
Upsert(c) ==
  /\ stored' = stored \union {ses[c].sid}
  /\ sessions' = [sessions EXCEPT ![ses[c].sid] = RowOf(ses[c])]
  /\ written' = written \union {ses[c].sid}
  /\ UNCHANGED <<granted, closed>>

\* Mutant: the flag is taken from the owner instead of from the row.
LoadedByOwner(s, found, row) ==
  IF found THEN [s EXCEPT !.authenticated = (row.uid # NoUser), !.uid = row.uid,
                          !.failures = row.failures,
                          !.timestamp = row.timestamp]
           ELSE s

\* session_pre_call_cb_getSession: what is copied from the row into the
\* call's structure.  A missing row leaves the structure as it is.
Loaded(s, found, row) ==
  IF found
  THEN [s EXCEPT !.authenticated = row.authenticated, !.uid = row.uid,
                 !.failures = row.failures, !.timestamp = row.timestamp]
  ELSE s

\* session_checker.
SessionStatus(s, now) ==
  CASE ~s.authenticated -> "NOT_AUTHORIZED"
    [] s.authenticated /\ now <= s.timestamp + SessionTimeout -> "VALID_SESSION"
    [] OTHER -> "EXPIRED_SESSION"

\* _login: too many failures and the last one is recent.
Suspended(s, now) ==
  /\ s.failures >= MaxFailures
  /\ now < s.timestamp + RetryTimeout

\* _login before the user is known, on the structure session_pre_call reset.
\* Either the client is suspended or the uid is looked up.
LoginStart(c, s) ==
  IF Suspended(s, clock)
  THEN /\ ses' = [ses EXCEPT ![c] = s]
       /\ Answer(c, "MAX_LOGIN_FAILURES")
  ELSE /\ ses' = [ses EXCEPT ![c] = IF s.failures >= MaxFailures
                                    THEN [s EXCEPT !.failures = 0] ELSE s]
       /\ Continue(c, "loginUid")

\* A copy that can still be written back as authenticated.
HoldsCopy(c, s) ==
  /\ ses[c].sid = s
  /\ ses[c].authenticated
  /\ \/ pc[c] \in {"sessionTimeout", "userType", "touch"}
     \/ pc[c] = "finish" /\ "setSession" \in todo[c]

\* deauthSession on the row of s: history notes when no copy is about.
Deauthenticate(c, s) ==
  /\ sessions' = [sessions EXCEPT ![s].authenticated = FALSE]
  /\ closed' = IF s \in stored /\ \A d \in Conns \ {c} : ~HoldsCopy(d, s)
               THEN closed \union {s} ELSE closed
  /\ UNCHANGED <<stored, granted, written>>

-----------------------------------------------------------------------------
(* The pre-call.                                                           *)

Tick ==
  /\ clock < Horizon
  /\ clock' = clock + 1
  /\ UNCHANGED <<conf, users, dbVars, issued, given, req, pc, ses, ctxVars,
                 reply, histVars>>

\* azy_uuid_new never makes the same uuid twice.
NewSids == Sids \ issued

NeedsNoSession(c) == req[c].method \in {"login", "hello", "download"}

WantsNewSession(c) ==
  pc[c] = "ip" /\ req[c].cookie = NoSid /\ NeedsNoSession(c)

WantsLoginSession(c) ==
  req[c].method = "login" /\ pc[c] \notin {"idle", "stuck", "finish"}

\* Bound: calls start only while uuids for all that run are left.
EnoughSids ==
  Cardinality({c \in Conns : WantsNewSession(c)})
    + Cardinality({c \in Conns : WantsLoginSession(c)}) <= Cardinality(NewSids)

\* A request arrives: PRE_CALL makes a new structure and asks for the
\* configuration of the proxy to find the client's address.
StartCall(c, r) ==
  /\ pc[c] = "idle"
  /\ req' = [req EXCEPT ![c] = r]
  /\ ses' = [ses EXCEPT ![c] = NewSESSION]
  /\ count' = [count EXCEPT ![c] = 0]
  /\ err' = [err EXCEPT ![c] = FALSE]
  /\ dead' = [dead EXCEPT ![c] = FALSE]
  /\ reply' = [reply EXCEPT ![c] = "none"]
  /\ Go(c, "ip")
  /\ UNCHANGED <<clock, conf, users, dbVars, issued, given, todo, histVars>>
  /\ EnoughSids'

\* The address is known and there is no cookie: a call that needs none gets
\* a new session.
OpenSession(c, s) ==
  /\ pc[c] = "ip"
  /\ req[c].cookie = NoSid
  /\ NeedsNoSession(c)
  /\ s \in NewSids
  /\ issued' = issued \union {s}
  /\ ses' = [ses EXCEPT ![c].sid = s, ![c].timestamp = clock]
  /\ Continue(c, "newSession")
  /\ UNCHANGED <<clock, conf, users, dbVars, req, ctxVars, histVars>>

\* Any other call first asks whether single sign-on is enabled.
AskSso(c) ==
  /\ pc[c] = "ip"
  /\ req[c].cookie = NoSid => ~NeedsNoSession(c)
  /\ Continue(c, "ssoConfig")
  /\ UNCHANGED <<clock, conf, users, dbVars, issued, req, ses, ctxVars,
                 histVars>>

\* The row of the new session is stored and the method runs.
StoreNewSession(c) ==
  /\ pc[c] = "newSession"
  /\ Upsert(c)
  /\ IF req[c].method = "login"
     THEN LoginStart(c, ses[c])
     ELSE UNCHANGED ses /\ Answer(c, "ok")
  /\ UNCHANGED <<clock, conf, users, issued, req, ctxVars>>

\* Single sign-on is off.  ctx->count was counted up by the job that brought
\* the value and by session_pre_call_sso_check, and stays 2.
SsoOff(c) ==
  /\ pc[c] = "ssoConfig"
  /\ count' = [count EXCEPT ![c] = 2]
  /\ ses' = [ses EXCEPT ![c].sid = req[c].cookie]
  /\ IF req[c].cookie = NoSid THEN Answer(c, "NOT_AUTHENTICATED")
                              ELSE Continue(c, "getSession")
  /\ UNCHANGED <<clock, conf, users, dbVars, issued, req, todo, err, dead,
                 histVars>>

\* getSession returns the row, if there is one.
LoadSession(c) ==
  /\ pc[c] = "getSession"
  /\ LET s == ses[c].sid IN
       ses' = [ses EXCEPT ![c] = Loaded(@, s \in stored, sessions[s])]
  /\ Continue(c, "sessionTimeout")
  /\ UNCHANGED <<clock, conf, users, dbVars, issued, req, ctxVars, histVars>>

\* The session is checked; session_pre_call decides what may go on.  It calls
\* RESUME for a login before it resets uid and authenticated: azy is running
\* the directive then, and enters the method when the directive has returned.
CheckSession(c) ==
  /\ pc[c] = "sessionTimeout"
  /\ LET method == req[c].method
         status == SessionStatus(ses[c], clock)
     IN \/ /\ method = "login"
           /\ LoginStart(c, [ses[c] EXCEPT !.uid = NoUser,
                                           !.authenticated = FALSE])
        \/ /\ method = "hello"
           /\ ses' = [ses EXCEPT ![c].uid = NoUser, ![c].authenticated = FALSE]
           /\ Answer(c, "ok")
        \/ /\ method = "logout" /\ ses[c].authenticated
           /\ UNCHANGED ses
           /\ Continue(c, "logout")
        \/ /\ method = "download"
           /\ UNCHANGED ses
           /\ Answer(c, "ok")
        \/ /\ method \notin {"login", "hello", "logout", "download"}
           /\ status = "VALID_SESSION"
           /\ UNCHANGED ses
           /\ Continue(c, "userType")
        \/ /\ method \notin {"login", "hello", "download"}
           /\ method = "logout" => ~ses[c].authenticated
           /\ status # "VALID_SESSION"
           /\ UNCHANGED ses
           /\ Answer(c, status)
  /\ UNCHANGED <<clock, conf, users, dbVars, issued, req, ctxVars, histVars>>

\* session_pre_call_cb_super: the account exists, the time stamp is set and
\* the session is about to be written back.
ReadUserType(c) ==
  /\ pc[c] = "userType"
  /\ IF ses[c].uid \in users
     THEN /\ ses' = [ses EXCEPT ![c].timestamp = clock]
          /\ count' = [count EXCEPT ![c] = 0]
          /\ Continue(c, "touch")
     ELSE UNCHANGED <<ses, count>> /\ Answer(c, "UNKNOWN_RESOURCE")
  /\ UNCHANGED <<clock, conf, users, dbVars, issued, req, todo, err, dead,
                 histVars>>

\* The phase in which a method of the super user waits for its query.
AdminPhase(method) ==
  CASE method = "logoutByName" -> "sessionsOf"
    [] method = "removeUser" -> "removeUser"
    [] OTHER -> "cleanDB"

\* The session is written back and the method runs.
Touch(c) ==
  /\ pc[c] = "touch"
  /\ Upsert(c)
  /\ UNCHANGED ses
  /\ LET method == req[c].method IN
       \/ /\ method = "call"
          /\ Answer(c, "ok")
       \/ /\ method # "call" /\ ses[c].uid \notin Supers
          /\ Answer(c, "NOT_AUTHORIZED")
       \/ /\ method # "call" /\ ses[c].uid \in Supers
          /\ Continue(c, AdminPhase(method))
  /\ UNCHANGED <<clock, conf, users, issued, req, ctxVars>>

-----------------------------------------------------------------------------
(* login.                                                                  *)

\* _auth, first time: with ctx->count 0 the authentication type is asked
\* for; with the 2 session_pre_call_sso_check left, _auth_db takes up in the
\* middle, finds no credentials and asks for the fallback.
FirstAuthPhase(n) == IF n = 0 THEN "authType" ELSE "fallback"

\* login_cb_uid.  For an unknown user AZY_RETVAL has set the answer, so that
\* the CTX_RETURN of _setSession gives it while setSession is under way.
FindUser(c) ==
  /\ pc[c] = "loginUid"
  /\ IF req[c].user \in users
     THEN /\ ses' = [ses EXCEPT ![c].uid = req[c].user]
          /\ Continue(c, FirstAuthPhase(count[c]))
          /\ UNCHANGED dead
     ELSE /\ ses' = [ses EXCEPT ![c].timestamp = clock]
          /\ Go(c, "loginUnknown")
          /\ Send(c, "refused")
          /\ dead' = [dead EXCEPT ![c] = TRUE]
  /\ UNCHANGED <<clock, conf, users, dbVars, issued, req, count, todo, err,
                 histVars>>

\* The session of an unknown user is written after its caller was answered.
StoreUnknown(c) ==
  /\ pc[c] = "loginUnknown"
  /\ Upsert(c)
  /\ Continue(c, "idle")
  /\ UNCHANGED <<clock, conf, users, issued, req, ses, ctxVars>>

\* Mutant: without a row for `authtype` nothing authenticates.
StrictAuthPhase(t) ==
  CASE t = "internal" -> "getAuth"
    [] t \in {"unset", "pam"} -> "stuck"
    [] OTHER -> "fallback"

\* _auth with the value of `authtype`.  The PAM branch sets authenticated but
\* not ctx->auth, so _login returns and nothing resumes the call.
AuthPhase(t) ==
  CASE t \in {"unset", "internal"} -> "getAuth"
    [] t = "pam" -> "stuck"
    [] OTHER -> "fallback"

ReadAuthType(c) ==
  /\ pc[c] = "authType"
  /\ count' = [count EXCEPT ![c] = 1]
  /\ ses' = IF conf.authtype = "pam"
            THEN [ses EXCEPT ![c].authenticated = req[c].good] ELSE ses
  /\ Continue(c, AuthPhase(conf.authtype))
  /\ UNCHANGED <<clock, conf, users, dbVars, issued, req, todo, err, dead,
                 histVars>>

\* `authfallback` arrives with ctx->count 11, for which _auth has no case:
\* with a value nothing happens any more, without one the error is reported.
ReadFallback(c) ==
  /\ pc[c] = "fallback"
  /\ count' = [count EXCEPT ![c] = 11]
  /\ UNCHANGED ses
  /\ IF conf.fallback THEN Continue(c, "stuck")
                      ELSE Answer(c, "UNKNOWN_RESOURCE")
  /\ UNCHANGED <<clock, conf, users, dbVars, issued, req, todo, err, dead,
                 histVars>>

\* Mutant: the result of the comparison is ignored.
AnyPassword(c) == TRUE

\* _auth_db compares the hash of the password.
PasswordMatches(c) == req[c].good

\* Right password: a new session id, last login and session are written at
\* the same time.
LoginSucceeds(c, s) ==
  /\ pc[c] = "getAuth"
  /\ ses[c].uid \in users
  /\ PasswordMatches(c)
  /\ s \in NewSids
  /\ issued' = issued \union {s}
  /\ count' = [count EXCEPT ![c] = 3]
  /\ ses' = [ses EXCEPT ![c].sid = s, ![c].authenticated = TRUE,
                        ![c].failures = 0, ![c].timestamp = clock]
  /\ todo' = [todo EXCEPT ![c] = {"lastLogin", "setSession"}]
  /\ granted' = IF req[c].good THEN [granted EXCEPT ![s] = ses[c].uid]
                               ELSE granted
  /\ Continue(c, "finish")
  /\ UNCHANGED <<clock, conf, users, dbVars, req, err, dead, written, closed>>

\* Wrong password: _auth_db reports the error and _login returns before it
\* counts the failure.
LoginFails(c) ==
  /\ pc[c] = "getAuth"
  /\ ses[c].uid \in users
  /\ ~PasswordMatches(c)
  /\ UNCHANGED ses
  /\ Answer(c, "NOT_AUTHORIZED")
  /\ UNCHANGED <<clock, conf, users, dbVars, issued, req, ctxVars, histVars>>

\* The account was removed meanwhile: no credentials, so the fallback.
NoCredentials(c) ==
  /\ pc[c] = "getAuth"
  /\ ses[c].uid \notin users
  /\ Continue(c, "fallback")
  /\ UNCHANGED <<clock, conf, users, dbVars, issued, req, ses, ctxVars,
                 histVars>>

\* Mutant: without CTX_CB_ADD(NULL) the first reply answers.
AnyReply(rest) == TRUE

\* The first of the two replies takes the NULL callback off the chain, the
\* second finds none and answers the call.
LastReply(rest) == rest = {}

\* One query of several has come back; `bad` tells that it changed no row and
\* `last` that no callback is left, so that the call is answered.  A call that
\* died of a database error was answered then, and drops its other replies.
FinishOne(c, q, bad, last) ==
  LET rest == todo[c] \ {q} IN
    /\ todo' = [todo EXCEPT ![c] = rest]
    /\ err' = [err EXCEPT ![c] = @ \/ bad]
    /\ IF dead[c]   THEN Continue(c, IF rest = {} THEN "idle" ELSE pc[c])
       ELSE IF last THEN Answer(c, IF err'[c] THEN "UNKNOWN_RESOURCE" ELSE "ok")
                    ELSE Continue(c, pc[c])

\* setLastLogin changes no row when the account is gone, or when it logged
\* in within the same second.
FinishLastLogin(c, same) ==
  /\ pc[c] = "finish"
  /\ "lastLogin" \in todo[c]
  /\ UNCHANGED ses
  /\ FinishOne(c, "lastLogin", same \/ ses[c].uid \notin users,
               LastReply(todo[c] \ {"lastLogin"}))
  /\ UNCHANGED <<clock, conf, users, dbVars, issued, req, count, dead,
                 histVars>>

FinishSetSession(c) ==
  /\ pc[c] = "finish"
  /\ "setSession" \in todo[c]
  /\ UNCHANGED ses
  /\ Upsert(c)
  /\ FinishOne(c, "setSession", FALSE, LastReply(todo[c] \ {"setSession"}))
  /\ UNCHANGED <<clock, conf, users, issued, req, count, dead>>

-----------------------------------------------------------------------------
(* logout and the methods of the super user.                               *)

\* _logout with the ctx->count 2 that is left: deauthSession at once.
Logout(c) ==
  /\ pc[c] = "logout"
  /\ Deauthenticate(c, ses[c].sid)
  /\ UNCHANGED ses
  /\ Answer(c, IF sessions[ses[c].sid].authenticated
               THEN "ok" ELSE "UNKNOWN_RESOURCE")
  /\ UNCHANGED <<clock, conf, users, issued, req, ctxVars>>

SessionsOf(u) == {s \in stored : u \in users /\ sessions[s].uid = u}

\* Mutant: the call answers one reply early.
AwaitedButOne(list) == Cardinality(list) - 1

\* ctx->count while the sessions in `list` are deauthenticated.
Awaited(list) == Cardinality(list)

\* getSessionsByName returns and user_cb_logoutsessions deauthenticates
\* every session at once, counting the replies.
ListSessions(c) ==
  /\ pc[c] = "sessionsOf"
  /\ UNCHANGED ses
  /\ LET list == SessionsOf(req[c].user) IN
       IF list = {}
       THEN UNCHANGED <<todo, count>> /\ Answer(c, "UNKNOWN_RESOURCE")
       ELSE /\ todo' = [todo EXCEPT ![c] = list]
            /\ count' = [count EXCEPT ![c] = Awaited(list)]
            /\ Continue(c, "deauths")
  /\ UNCHANGED <<clock, conf, users, dbVars, issued, req, err, dead, histVars>>

\* One of the queries has run; user_cb_logout_deauth counts down and answers
\* when ctx->count is 0.
DeauthOne(c, s) ==
  /\ pc[c] = "deauths"
  /\ s \in todo[c]
  /\ Deauthenticate(c, s)
  /\ UNCHANGED ses
  /\ count' = IF dead[c] THEN count ELSE [count EXCEPT ![c] = @ - 1]
  /\ FinishOne(c, s, ~sessions[s].authenticated, count'[c] = 0)
  /\ UNCHANGED <<clock, conf, users, issued, req, dead>>

RemoveUser(c) ==
  /\ pc[c] = "removeUser"
  /\ users' = users \ {req[c].user}
  /\ UNCHANGED ses
  /\ Answer(c, IF req[c].user \in users THEN "ok" ELSE "UNKNOWN_RESOURCE")
  /\ UNCHANGED <<clock, conf, dbVars, issued, req, ctxVars, histVars>>

\* TRUNCATE TABLE sessions; the query has no callback, so the call is never
\* answered.
CleanDB(c) ==
  /\ pc[c] = "cleanDB"
  /\ stored' = {}
  /\ sessions' = [s \in Sids |-> NoRow]
  /\ Continue(c, "stuck")
  /\ UNCHANGED <<clock, conf, users, issued, req, ses, ctxVars, histVars>>

\* A query fails: error_handler answers the call and marks it dead; a call
\* that was answered before is not answered again.  Other queries of the call
\* still run; that a connection sends its next request only when they have is
\* an assumption of this module, for POST clears ctx->dead and a late reply
\* would be taken for one of the next call.
DbError(c, q) ==
  /\ pc[c] \notin {"idle", "stuck"}
  /\ IF pc[c] \in {"finish", "deauths"} THEN q \in todo[c] ELSE q = "query"
  /\ UNCHANGED ses
  /\ IF dead[c] THEN UNCHANGED <<reply, given>> ELSE Send(c, "DB_QUERY")
  /\ dead' = [dead EXCEPT ![c] = TRUE]
  /\ todo' = [todo EXCEPT ![c] = @ \ {q}]
  /\ Go(c, IF todo'[c] = {} THEN "idle" ELSE pc[c])
  /\ UNCHANGED <<clock, conf, users, dbVars, issued, req, count, err, histVars>>

-----------------------------------------------------------------------------
Init ==
  /\ clock = 0
  /\ conf \in [authtype: AuthTypes, fallback: Fallbacks]
  /\ users = Users
  /\ stored = {}
  /\ sessions = [s \in Sids |-> NoRow]
  /\ issued = {}
  /\ given = {}
  /\ req = [c \in Conns |-> [method |-> "hello", user |-> NoUser,
                             good |-> FALSE, cookie |-> NoSid]]
  /\ pc = [c \in Conns |-> "idle"]
  /\ ses = [c \in Conns |-> NewSESSION]
  /\ count = [c \in Conns |-> 0]
  /\ todo = [c \in Conns |-> {}]
  /\ err = [c \in Conns |-> FALSE]
  /\ dead = [c \in Conns |-> FALSE]
  /\ reply = [c \in Conns |-> "none"]
  /\ granted = [s \in Sids |-> NoUser]
  /\ written = {}
  /\ closed = {}

\* What brings a call forward: the reply to a query it waits for.
Step(c) ==
  \/ \E s \in Sids : OpenSession(c, s) \/ LoginSucceeds(c, s) \/ DeauthOne(c, s)
  \/ AskSso(c) \/ StoreNewSession(c) \/ SsoOff(c) \/ LoadSession(c)
  \/ CheckSession(c) \/ ReadUserType(c) \/ Touch(c)
  \/ FindUser(c) \/ StoreUnknown(c) \/ ReadAuthType(c) \/ ReadFallback(c)
  \/ LoginFails(c) \/ NoCredentials(c)
  \/ \E same \in BOOLEAN : FinishLastLogin(c, same)
  \/ FinishSetSession(c)
  \/ Logout(c) \/ ListSessions(c) \/ RemoveUser(c) \/ CleanDB(c)

Next ==
  \/ Tick
  \/ \E c \in Conns :
       \/ \E r \in Requests : StartCall(c, r)
       \/ Step(c)
       \/ \E q \in {"query", "lastLogin", "setSession"} \union Sids :
            DbError(c, q)

Spec == Init /\ [][Next]_vars

\* The database answers every query; no one has to send a request.
FairSpec == Spec /\ \A c \in Conns : WF_vars(Step(c))

-----------------------------------------------------------------------------
(* Properties.                                                             *)

\* Every variable has its type, and counts of queries are never negative.
TypeOK ==
  /\ clock \in Nat
  /\ conf \in [authtype: AuthTypes, fallback: Fallbacks]
  /\ users \subseteq Users
  /\ stored \subseteq Sids
  /\ sessions \in [Sids -> Row]
  /\ issued \subseteq Sids
  /\ given \subseteq Sids
  /\ req \in [Conns -> Request]
  /\ pc \in [Conns -> Phases]
  /\ ses \in [Conns -> SESSION]
  /\ count \in [Conns -> Nat]
  /\ todo \in [Conns -> SUBSET (Sids \union {"lastLogin", "setSession"})]
  /\ err \in [Conns -> BOOLEAN]
  /\ dead \in [Conns -> BOOLEAN]
  /\ reply \in [Conns -> Replies]
  /\ granted \in [Sids -> Uid]
  /\ written \subseteq Sids
  /\ closed \subseteq Sids

\* No row and no structure of a call says "authenticated as u" unless the
\* password of u was checked by _auth_db for exactly that session id: not
\* after stale copies were written back, rows truncated or users removed.
AuthenticatedOnlyByLogin ==
  /\ \A s \in Sids :
       sessions[s].authenticated =>
         granted[s] = sessions[s].uid /\ granted[s] # NoUser
  /\ \A c \in Conns :
       ses[c].authenticated /\ pc[c] # "stuck" =>
         /\ ses[c].sid # NoSid
         /\ granted[ses[c].sid] = ses[c].uid
         /\ ses[c].uid # NoUser

\* Once deauthSession has run while no call held an authenticated copy of the
\* session, neither the row nor a copy that can still be written is
\* authenticated again.  (With such a copy about _setSession undoes the
\* logout, which is why the property has that condition.)
QuiescentLogoutIsFinal ==
  \A s \in closed :
    /\ ~sessions[s].authenticated
    /\ \A c \in Conns : ~HoldsCopy(c, s)

\* A login that was answered "ok" left a session of the user it named, and
\* its row was written before the answer, although setLastLogin and
\* setSession run at the same time and either may be the last.
LoginOkMeansSession ==
  \A c \in Conns :
    pc[c] = "idle" /\ req[c].method = "login" /\ reply[c] = "ok" =>
      /\ ses[c].sid \in written
      /\ granted[ses[c].sid] = req[c].user
      /\ req[c].good

\* A call with several queries in flight (login, logoutByName) is answered by
\* its last reply: the callbacks left, or ctx->count, agree with the queries.
AnswerIsLast ==
  \A c \in Conns :
    /\ pc[c] = "idle" => todo[c] = {}
    /\ pc[c] = "deauths" /\ ~dead[c] => count[c] = Cardinality(todo[c])

\* The session table keeps the promises of SessionLife.
Life == INSTANCE SessionLife
  WITH owner <- granted,
       state <- [s \in Sids |-> IF sessions[s].authenticated THEN "on"
                                ELSE IF s \in closed THEN "closed"
                                ELSE "off"]

SessionLifeSpec == Life!LifeSpec

\* Every call is answered, except cleanDB, whose queries have no callbacks,
\* when authentication is internal and there is no fallback.
CallsAnswered ==
  conf.authtype \in {"unset", "internal"} /\ ~conf.fallback =>
    \A c \in Conns :
      pc[c] # "idle" /\ req[c].method # "cleanDB" ~> pc[c] = "idle"

\* "reset for check in login later", functions-session.c:519: a login that
\* comes with a session cookie is checked too, so that the fallback is asked
\* for only when the account has no stored credentials.
CredentialsAreChecked ==
  \A c \in Conns :
    pc[c] = "fallback" =>
      conf.authtype = "other" \/ ses[c].uid \notin users
=============================================================================
