------------------------------ MODULE RpcCall ------------------------------
(* The engine that runs the methods: one connection, its Zentific_Ctx, the   *)
(* queries in flight and the events that answer.                             *)
(*                                                                           *)
(* A method is entered, sends queries and leaves (functions.h, CTX_RETURN);  *)
(* a reply runs the first callback of the chain (zrpcdb.c, zrpcdb.x), which  *)
(* enters the method again or answers; a reply without a callback makes an   *)
(* event (loop.c), and the event answers.  An answer runs POST (servlets.h): *)
(* the context is cleared, the queries in flight are not.  Their replies     *)
(* come back to the same context, whatever call it then serves.              *)
(*                                                                           *)
(* A call's session has been looked up when Call is taken (see Session).     *)
EXTENDS StorageCalls, NetworkCalls, ConsoleCalls, NodeCalls, VmCalls,
        AccountCalls, JobCalls, SqlQueries

(* The functions that no method of zentific-server.azy enters: other         *)
(* functions call them, or none does.                                        *)
Internal ==
  {"disableDiskByStorage", "getDiskByStorage", "getVmByDisk", "isDiskByStorage",
   "getNetworkControlModule", "setNetworkControlModule",
   "acquireConsoleLock", "getConsoleLockVmsBySession", "getConsoleType",
   "releaseConsoleLock", "saveGraphicalConsolePort", "saveTextConsolePort",
   "getAllNodesByUID", "getAllUnconfiguredNodesByUID", "getNODEattribute",
   "getNODEstat", "getNodeConfiguredHost", "isNODEowner",
   "isNodeEnabledAndConfigured", "addTemplate", "modifyTemplate", "isVMowner",
   "migrateVM", "restoreVM", "suspendVM", "removeVm", "saveVMrevision",
   "setVmNeedsReboot", "createDisk", "createNetIf", "disableControlModule",
   "enableControlModule", "disablePlatform", "enablePlatform", "isPlatform",
   "getActiveUserUID", "getControlModuleNameByNetwork", "getLanguageCode",
   "getLatestRevision", "getPlatformFeatures", "getPlatformIdByVm",
   "getUserGroupId", "getUserGroupName", "getVMvifByMac", "getVmDisk",
   "isControlModule", "isControlModuleByName", "isDisk", "isNetIf",
   "isSuperUser", "isSuperUserByName", "isUserGroupMember",
   "isUserGroupMemberByName", "isUserGroupMemberByNameAndUsername",
   "updateDiskStats", "updateNetIfStats", "isJob"}
(* The functions that a method of zentific-server.azy enters.                *)
Remote ==
  (StorageAll \cup NetworkAll \cup ConsoleAll \cup NodeAll \cup VmAll \cup
   AccountAll \cup JobAll) \ Internal

CONSTANTS
  Methods,      \* the remote methods a first call may name
  Later,        \* and the later ones
  MaxCalls,     \* bound: calls of the connection
  MaxFailures   \* bound: queries that the database fails, the bad ones aside

ASSUME RpcCallAssumption ==
  /\ Methods \subseteq Remote /\ Later \subseteq Remote
  /\ MaxCalls \in Nat /\ MaxFailures \in Nat

VARIABLES
  ctx,          \* the context, as far as the engine and the methods use it
  out,          \* the queries in flight: [q |-> query, old |-> an earlier call's]
  ev,           \* ecore's queue of result and error events
  prev,         \* the last call answered
  calls,        \* the calls made
  failures,     \* the queries failed
  freed,        \* replies due to contexts that storage_cb_vmjob has freed
  up            \* the server process lives

vars == <<ctx, out, ev, prev, calls, failures, freed, up>>

(* The context after PRE_CALL.  m, n, e, v, o: see CallSteps.  fault is the  *)
(* error the answer holds already, cbs the callbacks, st is ctx->state: one  *)
(* row is expected.  The rest is bookkeeping for the properties: an earlier  *)
(* call's reply or event took part (late), a look-up for one row found more  *)
(* (many), a query failed (bad), rows were changed (wrote).                  *)
Fresh(m) ==
  [m |-> m, n |-> 0, e |-> OK, fault |-> OK, cbs |-> <<>>, st |-> FALSE,
   v |-> 0, o |-> FALSE, late |-> FALSE, many |-> FALSE, bad |-> FALSE,
   wrote |-> FALSE]
Idle == Fresh("none")
Busy == ctx.m # "none"

(* The errors that a call in progress may hold.                              *)
Errors ==
  {OK, "DB_QUERY", "DB_MULTI", "DB_FAIL", "UNKNOWN_RESOURCE", "RESOURCE_IN_USE",
   "ENTITY_ALREADY_EXISTS", "INVALID_PARAMETER", "NO_CHANGE_PERFORMED",
   "JOB_CREATION_FAILED", "SERVER_FAILURE", "CONSOLE_LOCKED", "NOT_IMPLEMENTED",
   "NODE_DISABLED", "NODE_UNCONFIGURED", "INSUFFICIENT_RESOURCES",
   "PLATFORM_NOT_PRESENT"}

StepOf(m, n, e, v, o) ==
  CASE m \in StorageAll -> StorageStep(m, n, e, v, o)
    [] m \in NetworkAll -> NetworkStep(m, n, e, v, o)
    [] m \in ConsoleAll -> ConsoleStep(m, n, e, v, o)
    [] m \in NodeAll -> NodeStep(m, n, e, v, o)
    [] m \in VmAll -> VmStep(m, n, e, v, o)
    [] m \in AccountAll -> AccountStep(m, n, e, v, o)
    [] OTHER -> JobStep(m, n, e, v, o)

(* cb_pointer_return stores whatever the reply carried.  These methods ask   *)
(* for a number; any other takes it for the address of an object.            *)
TakesNumbers == {"registerNode", "addNode", "attachNetIf", "detachNetIf",
                 "addNetIf", "modifyNetIf", "addVmToNode", "saveVM"}
Steps(c) ==
  IF c.v = Wild /\ c.m \notin TakesNumbers
  THEN {Crash} \cup StepOf(c.m, c.n, c.e, 1, c.o)
  ELSE StepOf(c.m, c.n, c.e, c.v, c.o)

-----------------------------------------------------------------------------
(* The queries.                                                              *)

Single == {"text", "int", "bool"}
Writes == {"write", "insert", "exists"}
Kids == {"storage_cb_vmjob", "console_disconnect_text", "vm_cb_getvm",
         "platform_get"}
\* "getNetworkOfNone" asks for a number that no network has.
Kind(q) == IF q = "getNetworkOfNone" THEN "rows" ELSE KindOf[q]
SetsState(q) ==
  q \notin Kids /\ (Kind(q) \in Single \cup {"insert", "enabled"} \/ q = "defineNetwork")

(* The look-ups for one row whose key is not unique in zentific.sql (or is   *)
(* compared with LIKE, or joined).                                           *)
Shared ==
  {"getConsoleType", "getConsoleLockSession", "hasConsoleLock",
   "getGraphicalConsolePort", "getConsoleNodeHost", "getConsoleClientHost",
   "isDisk", "isDiskInUse", "getVmByDisk",
   "isUserGroupMember", "isNetwork", "isPlatformByName",
   "isControlModuleForPlatformByName", "isNetIf", "isNetIfByMAC",
   "getVMparentNode", "getVmNotes", "isVMowner", "isNODEowner", "getPrivilege",
   "getJobStatus", "getUserGroupNamesByName", "getConfigValue"}
(* The rows that a unique key, or LIMIT 1, picks.                            *)
ByKey == {"getStorage", "getDiskByStorage", "getNetwork", "getNode",
          "getPlatform", "getVMvifByMac", "getConfig", "getLatestNodeStat",
          "getNodeConfiguredState", "getJob", "getVM"}
Rows(q) ==
  IF q = "getNetworkOfNone" THEN {0}
  ELSE IF q \in Shared THEN 0..2
  ELSE IF q \in ByKey \/ Kind(q) \in Single \cup Writes \cup {"enabled"} THEN 0..1
  ELSE 0..2

(* Mutant: zrpcdb_cb_exec does not look at the rows affected.                *)
ErrorAfterAnyWrite(q, e, r) ==
  IF r > 0 \/ Kind(q) \in Writes \cup {"rows"} \/ e # OK THEN e
  ELSE "UNKNOWN_RESOURCE"

(* What a reply with r rows makes of ctx->error.                             *)
ErrorAfter(q, e, r) ==
  IF Kind(q) = "exists" THEN IF e = OK THEN "ENTITY_ALREADY_EXISTS" ELSE e
  ELSE IF r > 0 \/ Kind(q) = "rows" THEN e
  ELSE IF e = OK \/ Kind(q) = "vm" THEN "UNKNOWN_RESOURCE" ELSE e
(* What is handed to the callback, given that error.                         *)
ValueAfter(q, e, r) ==
  IF Kind(q) = "rows" THEN r
  ELSE IF e # OK THEN IF Kind(q) = "int" THEN Wild ELSE 0
  ELSE IF Kind(q) \in {"list", "text", "vm"} THEN r ELSE Wild

-----------------------------------------------------------------------------
(* Entering and leaving a method.                                            *)

Aged(s) == [i \in DOMAIN s |-> [s[i] EXCEPT !.old = TRUE]]
\* What a call leaves behind: its queries, and its events.
Left(qs, es) ==
  {qs[i].q : i \in {j \in DOMAIN qs : ~qs[j].old}} \cup
  {es[i].k : i \in {j \in DOMAIN es : ~es[j].old}}

(* Mutant: POST does not clear the context's callbacks.                      *)
AnswersKeepCallbacks(c, e, qs, es) ==
  /\ prev' = [m |-> c.m, e |-> e, left |-> Left(qs, es), late |-> c.late,
              many |-> c.many, bad |-> c.bad, wrote |-> c.wrote]
  /\ ctx' = [Idle EXCEPT !.cbs = c.cbs]
  /\ out' = Aged(qs)
  /\ ev' = Aged(es)
  /\ UNCHANGED up

(* The answer, and POST.                                                     *)
Answers(c, e, qs, es) ==
  /\ prev' = [m |-> c.m, e |-> e, left |-> Left(qs, es), late |-> c.late,
              many |-> c.many, bad |-> c.bad, wrote |-> c.wrote]
  /\ ctx' = Idle
  /\ out' = Aged(qs)
  /\ ev' = Aged(es)
  /\ UNCHANGED up

Fault(c) == IF c.fault # OK THEN c.fault ELSE c.e

Waits(c, qs, es) ==
  /\ ctx' = c
  /\ out' = qs
  /\ ev' = es
  /\ UNCHANGED <<prev, up>>

Dies(c, qs, es) ==
  /\ up' = FALSE
  /\ ctx' = c
  /\ out' = qs
  /\ ev' = es
  /\ UNCHANGED prev

Sent(qs, q) == qs \o [i \in DOMAIN q |-> [q |-> q[i], old |-> FALSE]]

(* Members of the database object that no LOAD line of db_sources.c fills    *)
(* in: they are NULL, and calling one is the end of the process.             *)
NotLoaded ==
  {"isDiskByStorage", "getVmByRev", "getVmCount", "getVmCountByUID",
   "getNodeCount", "getNodeCountByUID", "getAllNodesFullRangeSorted",
   "getNetworkIdByName", "setPlatformConfig", "setControlModuleConfig"}
Loaded(s) == \A i \in DOMAIN s.ask : s.ask[i] \notin NotLoaded

\* The context after an entry that does not answer.
Entered(c, s) ==
  [c EXCEPT !.e = After(s, c.e),
            !.n = IF s.count = NoCount THEN @ ELSE s.count,
            !.v = 0,
            !.o = IF s.obj = Same THEN @ ELSE s.obj = "object",
            !.cbs = IF After(s, c.e) = OK THEN @ \o s.cb ELSE @,
            !.st = @ \/ \E i \in DOMAIN s.ask : SetsState(s.ask[i])]

(* The method runs once more, up to CTX_RETURN.                              *)
Enter(c, qs, es) ==
  \E s \in Steps(c) :
    LET dead == s.crash \/ ~Loaded(s)
        e == After(s, c.e)
        c1 == Entered(c, s)
        qs1 == Sent(qs, s.ask)
    IN CASE dead -> Dies(c, qs, es)
         [] ~dead /\ e # OK -> Answers(c1, Fault(c1), qs1, es)
         [] ~dead /\ e = OK /\ s.ret /\ c.fault = OK -> Answers(c1, OK, qs1, es)
         [] OTHER -> Waits(c1, qs1, es)

Rewinds(c, v, qs, es) == Enter([c EXCEPT !.n = @ + 1, !.v = v], qs, es)

-----------------------------------------------------------------------------
(* The callbacks, by the names CallSteps gives them.  c has lost the first   *)
(* of its callbacks (MARK_CB); v is what the reply carries.                  *)

CallbackOf(cb, c, v, qs, es) ==
  LET found == c.e = OK
      again == Rewinds(c, v, qs, es)
      answer(e) == Answers(c, e, qs, es)
      clean == [c EXCEPT !.e = OK]
      send(q, k) == Waits([clean EXCEPT !.cbs = @ \o k, !.st = @ \/ SetsState(q)],
                          Sent(qs, <<q>>), es)
  IN CASE cb = "rewind" -> Rewinds(c, 0, qs, es)
       [] cb = "int_rewind" -> Rewinds([c EXCEPT !.fault = Fault(c)], 0, qs, es)
       [] cb = "value" -> again
       [] cb = "answer" -> answer(Fault(c))
       \* a job's node and address, a list of two
       [] cb = "job_node_addr" ->
            IF found /\ v = 2 THEN again
            ELSE answer(Fault(c))
       [] cb = "job_node_addr_wild" -> answer(Fault(c)) \/ Dies(c, qs, es)
       [] cb = "job_module" -> IF found THEN again ELSE answer(Fault(c))
       [] cb = "job_module_of_none" ->
            IF found THEN Dies(c, qs, es) ELSE answer(Fault(c))
       \* with two jobs or more the reply's list is freed more than once
       [] cb = "net_target_host" ->
            IF found /\ v = 2 THEN Waits(c, qs, es) \/ (c.n > 11 /\ Dies(c, qs, es))
            ELSE answer(Fault(c))
       [] cb = "net_target_addr" ->
            IF found /\ v = 2 THEN Dies(c, qs, es) ELSE Waits(c, qs, es)
       \* the name of a user or a group is free, or taken
       [] cb = "user_name" ->
            IF found THEN answer("ENTITY_ALREADY_EXISTS")
            ELSE Rewinds(clean, 0, qs, es)
       [] cb = "user_lang" ->
            IF found THEN answer("INVALID_PARAMETER") \/ Rewinds(c, 0, qs, es)
            ELSE Rewinds(clean, 0, qs, es)
       [] cb = "group_modify" ->
            IF found THEN answer("ENTITY_ALREADY_EXISTS")
            ELSE send("modifyUserGroup", <<>>)
       [] cb = "group_add" ->
            IF found THEN answer("ENTITY_ALREADY_EXISTS")
            ELSE send("addUserGroup", <<>>)
       \* the error of a free address is not cleared: RESUME answers with it
       [] cb = "generatemac" ->
            IF found THEN send("isNetIfByMAC", <<"generatemac">>)
            ELSE answer(Fault(c))
       \* jobs
       [] cb = "ptr_job" ->
            answer(IF v = 0 THEN "NOT_AUTHORIZED" ELSE Fault(c))
       [] cb = "ptr_int" ->
            IF found THEN answer("NOT_AUTHORIZED") \/ answer(OK) ELSE answer(Fault(c))
       \* the user's number is read through as a pointer; 0 is "no number"
       [] cb = "jobs_cb_add" ->
            \/ answer("JOB_CREATION_FAILED")
            \/ found /\ Dies(c, qs, es)
       [] cb = "jobs_cb_get" ->
            IF found /\ v # 0
            THEN \/ send("getVMattribute", <<"jobs_resource">>)
                 \/ send("getNODEattribute", <<"jobs_resource">>)
                 \/ Waits(c, qs, es)
            ELSE answer("NOT_AUTHORIZED")
       [] cb = "jobs_resource" -> answer(Fault(c))

(* Mutant: a NULL in the chain is called.                                    *)
DeliverCallsNull(q, c, v, old, qs) ==
  IF c.cbs = <<>> THEN Waits(c, qs, Append(ev, [k |-> "result", old |-> old]))
  ELSE LET c1 == [c EXCEPT !.cbs = Tail(@)]
       IN IF Head(c.cbs) # "null" THEN CallbackOf(Head(c.cbs), c1, v, qs, ev)
          ELSE Dies(c1, qs, ev)

(* A reply with value v goes to the first callback, or becomes an event.  A  *)
(* NULL in the chain swallows it, but event_cb itself would call the NULL.   *)
Deliver(q, c, v, old, qs) ==
  IF c.cbs = <<>> THEN Waits(c, qs, Append(ev, [k |-> "result", old |-> old]))
  ELSE LET c1 == [c EXCEPT !.cbs = Tail(@)]
       IN IF Head(c.cbs) # "null" THEN CallbackOf(Head(c.cbs), c1, v, qs, ev)
          ELSE IF Kind(q) \in {"rows", "enabled"} THEN Dies(c1, qs, ev)
          ELSE Waits(c1, qs, ev)

Raise(c, old, qs) == Waits(c, qs, Append(ev, [k |-> "error", old |-> old]))

-----------------------------------------------------------------------------
(* The steps.                                                                *)

Without(i) == [j \in 1..(Len(out) - 1) |-> out[IF j < i THEN j ELSE j + 1]]

(* PRE_CALL clears the context of a connection that has no session.  The     *)
(* call enters its method at once: session_pre_call and its queries (module  *)
(* Session) have succeeded, none of them met a leftover of the last call,    *)
(* and the caller is a super user, for whom CHECK_EXIST_AND_PRIVS asks       *)
(* nothing.                                                                  *)
Call ==
  /\ up /\ ~Busy /\ calls < MaxCalls
  /\ \E m \in IF calls = 0 THEN Methods ELSE Later : Enter(Fresh(m), out, ev)
  /\ calls' = calls + 1
  /\ UNCHANGED <<failures, freed>>

(* event_cb: the server refuses or fails the query.                          *)
QueryFails(i) ==
  /\ out[i].q \notin Kids
  /\ IF Kind(out[i].q) = "bad" THEN UNCHANGED failures
     ELSE failures < MaxFailures /\ failures' = failures + 1
  /\ IF Busy
     THEN Raise([ctx EXCEPT !.e = "DB_QUERY", !.st = FALSE, !.bad = TRUE,
                            !.late = @ \/ out[i].old],
                out[i].old, Without(i))
     ELSE Raise(ctx, TRUE, Without(i))
  /\ UNCHANGED freed

(* Mutant: ctx->state is not cleared by a reply.                             *)
StateKept(c) == c.st

(* event_cb takes ctx->state and clears it, whichever query it was set for.  *)
StateAfter(c) == FALSE

(* event_cb: r rows come back.                                               *)
QueryReturns(i) ==
  LET q == out[i].q
      old == out[i].old
      c == [ctx EXCEPT !.late = @ \/ old, !.st = StateAfter(ctx)]
  IN /\ q \notin Kids
     /\ Kind(q) # "bad"
     /\ \E r \in Rows(q) :
          LET c1 == [c EXCEPT !.e = ErrorAfter(q, @, r),
                              !.wrote = @ \/ (~old /\ Kind(q) \in Writes /\ r > 0)]
          IN CASE ~Busy -> Waits(ctx, Without(i), Append(ev, [k |-> "result", old |-> TRUE]))
               [] Busy /\ Kind(q) \notin Writes /\ ctx.st /\ r > 1 ->
                    Raise([c EXCEPT !.e = "DB_MULTI", !.st = TRUE,
                                    !.many = @ \/ Kind(q) \in Single], old, Without(i))
               \* zrpcdb_node_cb_enc and _conf make events of their own
               [] Busy /\ Kind(q) = "enabled" /\ r = 0 ->
                    \E e \in {"UNKNOWN_RESOURCE", "NODE_DISABLED", "NODE_UNCONFIGURED"} :
                      Raise([c EXCEPT !.e = e], old, Without(i))
               [] Busy /\ Kind(q) = "enabled" /\ r > 0 ->
                    Deliver(q, [c EXCEPT !.st = TRUE], Wild, old, Without(i))
               [] OTHER -> Deliver(q, c1, ValueAfter(q, c1.e, r), old, Without(i))
     /\ UNCHANGED <<failures, freed>>

(* A context of its own (fake "child") finishes: it takes one from the       *)
(* parent's count and the last one enters the method again.  The context of  *)
(* a job frees itself in the step that sends its addJob (storage_cb_vmjob,   *)
(* case 2), unless an error made it give up before.                          *)
Target == [storage_cb_vmjob |-> 4, console_disconnect_text |-> 2,
           vm_cb_getvm |-> 2, platform_get |-> 2]
KidError(q, e) ==
  CASE q = "console_disconnect_text" -> {OK, "UNKNOWN_RESOURCE"}
    [] q = "platform_get" -> {e, "UNKNOWN_RESOURCE"}
    [] OTHER -> {e}
KidReturns(i) ==
  LET q == out[i].q IN
  /\ q \in Kids
  /\ IF ~Busy THEN Waits(ctx, Without(i), ev)
     ELSE \E e \in KidError(q, ctx.e) :
            LET c == [ctx EXCEPT !.n = @ - 1, !.e = e, !.late = @ \/ out[i].old]
            IN IF c.n = Target[q] THEN Enter(c, Without(i), ev)
               ELSE Waits(c, Without(i), ev)
  /\ freed' \in IF q = "storage_cb_vmjob" THEN {freed, freed + 1} ELSE {freed}
  /\ UNCHANGED failures

(* It never comes back: one of its queries failed (its error event wakes a   *)
(* parent that has none), or the job's list had not two entries.             *)
KidLost(i) ==
  /\ out[i].q \in Kids
  /\ IF out[i].q = "storage_cb_vmjob" THEN UNCHANGED failures
     ELSE failures < MaxFailures /\ failures' = failures + 1
  /\ Waits(ctx, Without(i), ev)
  /\ UNCHANGED freed

(* The reply of such an addJob finds freed memory, which does no harm ...    *)
LateAddJob ==
  /\ up /\ freed > 0
  /\ freed' = freed - 1
  /\ UNCHANGED <<ctx, out, ev, prev, calls, failures, up>>

(* ... or kills the server, as the job may do that storage_cb_vmjob appends  *)
(* to after freeing it.  Whatever the connection does by then, the crash is  *)
(* put down to the one method that makes such a context.                     *)
UseAfterFree ==
  /\ up
  /\ freed > 0 \/ \E i \in DOMAIN out : out[i].q = "storage_cb_vmjob"
  /\ Dies(Fresh("detachDiskFromStorage"), <<>>, <<>>)
  /\ UNCHANGED <<calls, failures, freed>>

(* Mutant: an error event is not told to the client.                         *)
HandleResultOnly ==
  LET c == [ctx EXCEPT !.late = @ \/ Head(ev).old] IN
  /\ up /\ ev # <<>>
  /\ IF ~Busy \/ Head(ev).k = "error" THEN Waits(ctx, out, Tail(ev))
     ELSE Answers(c, Fault(c), out, Tail(ev))
  /\ UNCHANGED <<calls, failures, freed>>

(* loop.c: result_handler and error_handler.  On a context that POST has     *)
(* cleared they find no module to resume.                                    *)
HandleEvent ==
  LET c == [ctx EXCEPT !.late = @ \/ Head(ev).old] IN
  /\ up /\ ev # <<>>
  /\ IF ~Busy THEN Waits(ctx, out, Tail(ev))
     ELSE Answers(c, IF Head(ev).k = "error" /\ Fault(c) = OK THEN "no error" ELSE Fault(c),
                  out, Tail(ev))
  /\ UNCHANGED <<calls, failures, freed>>

Reply ==
  /\ up
  /\ \E i \in DOMAIN out :
       QueryFails(i) \/ QueryReturns(i) \/ KidReturns(i) \/ KidLost(i)
  /\ UNCHANGED calls

Init ==
  /\ ctx = Idle
  /\ out = <<>>
  /\ ev = <<>>
  /\ prev = [m |-> "none", e |-> OK, left |-> {}, late |-> FALSE,
             many |-> FALSE, bad |-> FALSE, wrote |-> FALSE]
  /\ calls = 0
  /\ failures = 0
  /\ freed = 0
  /\ up = TRUE

Next == Call \/ Reply \/ HandleEvent \/ LateAddJob \/ UseAfterFree

(* The database answers every query, and ecore handles every event; nothing  *)
(* waits for the reply to a freed context.                                   *)
Spec == Init /\ [][Next]_vars /\ WF_vars(Reply) /\ WF_vars(HandleEvent)

-----------------------------------------------------------------------------
(* The methods a property has to except, each for its reason.                *)

VmJobs == VmActions \cup {"attachNetIf", "detachNetIf"}
\* A write beside a look-up, or an error kept while the next query is sent.
LeavesQueries ==
  {"addNetIf", "addNode", "addPlatform", "attachNetIf",
   "attachNetworkToNode", "attachStorageToNode", "cancelJobsByUID",
   "cancelJobsByUUID", "connectGraphicalConsole", "detachAllNodesByNetwork", "detachDiskFromStorage", "detachNetIf",
   "detachNetworkFromNode", "detachStorageFromNode", "modifyNetwork",
   "modifyPlatform", "registerNode", "removeStorage", "setNodeControlModule",
   "setNodeControlModuleByName", "setUserAttribute_language",
   "setUserAttribute_name"}
\* The methods that change rows (those named like the statement they send,
\* and the others that can be answered without an error).
Changes ==
  {m \in Queries : KindOf[m] \in Writes \cup {"bad"}} \cup VmJobs \cup
  {"generatePassword", "generatePasswordByName", "setUserAttribute_language",
   "setUserAttribute_name", "setSecureControlModuleConfig", "registerNode",
   "addNode", "setConfigs", "cancelJob", "addVmToNode"}
\* A look-up's reply (or a list of the wrong length) answers "ok" instead, or
\* there was nothing to change (modifyNetIf).
OkForNothing ==
  VmJobs \cup
  {"setUserAttribute_language", "setUserAttribute_name", "registerNode",
   "modifyNetIf", "modifyNetwork"}
\* A later step fails, the insertion is always ENTITY_ALREADY_EXISTS, or the
\* answer does not wait for the change.
HalfDone ==
  VmActions \cup
  {"addNode", "addPlatform", "addVmToNode",
   "attachNetworkToNode", "attachStorageToNode", "cancelJob",
   "cancelJobsByUID", "cancelJobsByUUID", "defineNetwork",
   "detachDiskFromStorage", "detachNetworkFromNode", "modifyPlatform",
   "registerNode", "removeStorage", "setNodeControlModule",
   "setNodeControlModuleByName", "setUserAttribute_language", "setUserAttribute_name"}
\* Counts that never get where the method waits for them, callbacks that
\* swallow the reply, faults that nothing sends; and generateMAC, which draws
\* addresses for as long as they are taken.
NeverAnswered ==
  {"addNode", "cleanDB", "detachAllNetIfsByNetwork", "detachAllNodesByNetwork",
   "detachDiskFromStorage", "disconnectConsole", "getAllVmsFullByNode",
   "getJob", "getPlatform", "getPlatformByName", "getPlatformsFull",
   "getVMsFull", "getVMsFullUID", "getVmsByNetworkFull", "modifyNetwork",
   "modifyStorage", "registerNode", "setConfigs", "setPassword",
   "setPasswordByName", "generateMAC"}
\* NULL, a number or freed memory is dereferenced, or NULL is called.
Crashes ==
  VmJobs \cup ConfigWrites \cup
  {"addDiskToStorage", "defineDisk", "getVmByRev", "getVmCount", "getNodeCount",
   "getAllNodesFullRangeSorted", "getNetworkIdByName", "addNode", "attachDiskToStorage", "attachNetworkToNode",
   "attachStorageToNode", "cancelJob", "cancelJobsByUID", "cancelJobsByUUID",
   "detachAllDisksByStorage", "detachAllNetIfsByNetwork",
   "detachAllNodesByStorage", "detachDiskFromStorage", "detachNetworkFromNode",
   "enableDiskByStorage", "getPlatform",
   "getPlatformByName", "modifyNetwork", "modifyStorage", "registerNode",
   "saveVM"}

-----------------------------------------------------------------------------
(* The properties.                                                           *)

(* Types; between two calls the context is clear and what is in flight       *)
(* belongs to an earlier call (POST).                                        *)
TypeOK ==
  /\ ctx.e \in Errors /\ ctx.fault \in Errors
  /\ ctx.n \in Int /\ ctx.v \in -1..2
  /\ \A i \in DOMAIN out : out[i].q \in Queries \cup Kids \cup {"getNetworkOfNone"}
  /\ \A i \in DOMAIN ev : ev[i].k \in {"result", "error"}
  /\ calls \in 0..MaxCalls /\ failures \in 0..MaxFailures /\ up \in BOOLEAN
  /\ freed \in Nat
  /\ ~Busy => /\ ctx = Idle
              /\ \A i \in DOMAIN out : out[i].old
              /\ \A i \in DOMAIN ev : ev[i].old

(* Only these methods are answered with something of theirs still under way, *)
(* to come back to the connection's next call (servlets.h POST clears ctx    *)
(* and cancels nothing); others only when the database failed a query.       *)
LeftoversOnlyOf ==
  prev.left # {} => prev.m \in LeavesQueries \/ prev.bad \/ prev.late

(* A call that is told "ok" changed what it was asked to change, but for the *)
(* methods that take another reply for their own, and calls that were        *)
(* reached by an earlier call's reply.                                       *)
OkMeansChanged ==
  prev.m \in Changes \ OkForNothing /\ prev.e = OK => prev.wrote \/ prev.late

(* A call that is told an error, none of whose queries the database failed,  *)
(* changed nothing, and no change of it is still on its way.                 *)
ErrorMeansUnchanged ==
  prev.e # OK /\ (prev.wrote \/ prev.left \cap UNION {QueriesOf(k) : k \in Writes} # {})
    => prev.m \in HalfDone \/ prev.bad \/ prev.late

(* DB_MULTI is answered when a look-up for one row found more, never because *)
(* ctx->state was still set when another query's rows came (zrpcdb.c:67); a  *)
(* machine's interface is moved with three queries side by side.             *)
TooManyIsTrue ==
  prev.e = "DB_MULTI" =>
    prev.many \/ prev.late \/ prev.m \in {"attachNetIf", "detachNetIf"}

(* No other method brings the server down, unless an earlier call's reply    *)
(* got where it expects an object of its own.  The crash of freed memory     *)
(* counts as that of the method that freed it (UseAfterFree).                *)
CrashesOnlyIn == ~up => ctx.m \in Crashes \/ ctx.late

(* Every other call is answered, whatever the database does.                 *)
CallsAnswered ==
  (Busy /\ ctx.m \notin NeverAnswered) ~> (~Busy \/ ctx.late \/ ~up)
=============================================================================
