# A TLA+ model of zrpc, the Zentific RPC server

`zrpc` (`src/src/bin`, `src/src/servlets`, `src/db_sources`) answers remote
calls about virtual machines, nodes, storage, networks and users. Almost
everything it does is a chain of asynchronous queries to a MySQL database. It
is one event loop (ecore) without threads, except for two port searches; what
makes it hard is that *calls* interleave between any two queries, that several
queries of one call may be in flight, and that a call keeps its place with a
single counter, `ctx->count`.

Paths below are relative to the repository's root; `functions-x.c` is in
`src/servlets/functions/`, `zrpcdb_x.c` in `db_sources/mysql/`.

## 1. Inventory

| Component | State | Operations | Interacts with | Hard part | Correct when |
|---|---|---|---|---|---|
| Call engine: `include/functions.h`, `servlets.h`, `functions_cb.c`, `loop.c`, `zrpcdb.x`, `zrpcdb.c` | `Zentific_Ctx` of a connection: callbacks `cbs`, `params`, `count`, `error`, `ret_set`, `dead` | PRE_CALL, CTX_CB_ADD, MARK_CB, REWIND, RESUME, POST; `event_cb`, `zrpcdb_cb_exec`, `result_handler`, `error_handler` | every handler | replies outlive the call they belong to (`POST` clears the context) | each reply runs the callback added for it; a call is answered once |
| Sessions, login, logout: `functions-session.c`, `servlet-functions.c`, `functions-auth.c`, `functions-user.c`, `zrpcdb_session.c` | table `sessions`, the call's `SESSION` copy, accounts, `config` rows | `session_pre_call`, `login`, `logout`, `logoutByName`, `removeUser`, `cleanDB` | every call passes here | copies are written back whole and late; two queries at once in `login`; shared `ctx->count` | only a login authenticates, and for its user; a logout lasts; every call is answered |
| VM service: `functions-vm.c`, `zrpcdb_vm.c` | tables `vms`, `vmconfig`, `vmstats`, `revisions` | `updateVMs`, `saveVM`, `addVmToNode`, the getters "full" | disks, vifs, jobs | one context per machine, joined by counting the parent down to a magic number | the join happens exactly once |
| Disks and vifs: `functions-disk.c`, `functions-vif.c` | tables `disks`, `vifs`, statistics | the disk and vif part of a machine's update | VM service | a count of writes hidden in the count of steps | the VM's context is counted down once |
| Jobs: `functions-jobs.c`, `zrpcdb_scheduler.c` | table `jobs` | `addJob`, kick of the scheduler over TCP, `cancelJob` | all workflows, the scheduler daemon | timer against answer; handlers without a filter | a stored job is kicked, and its caller told so once |
| Consoles: `functions-console.c`, `zrpcdb_console.c`, `loop.c` | `vmconsolelocks`, tunnel processes | connect, disconnect, `console_handler` | VM service, sessions | lock looked for and then taken; exit against timer | one tunnel per console; a lock is released |
| Life cycle: `server.c`, `db_sources.c`, `zconf.c`, `zrpcdb.c` | loaded modules, client count, queued calls | start, SIGHUP, `reloadModules`, `reloadConfig` | all | deferred reload; refcounts | queued calls are resumed; no freed module is used |
| Nodes: `functions-node.c` | `nodes`, `nodeconfig` | `registerNode`, `addNode`, `modifyNode` | jobs | look, then insert | a node is created once |
| Storage, network: `functions-storage.c`, `functions-network.c` | `storage`, `networks`, relations | workflows that create a job per node | jobs | join of several jobs, partial failure | every node gets its job, the caller one answer |
| Users, groups, platforms: `functions-user.c`, `functions-group.c`, `functions-platform.c` | `users`, `groups`, `membership`, `platforms` | add, rename, remove | sessions | look, then insert | names are unique |
| Configuration: `functions-zentific.c` | `config`, `plugins` | `setConfig`, `generateMAC`, `cleanDB` | all | two statements, retry loop | a key keeps a value; a MAC is free |
| `zproxy` (`src/utils/zproxy.c`) | one client, one backend, SSL state | select loop, restart of the backend | a program of its own | half-closed sides | bytes arrive in order, both sides are closed |
| Utilities: `dbinit.c`, `readpassphrase.c`, `sha1.c`, `sigsegv.c`, `utility.c`, `xen-detect.c` | none that outlives a call | | | | |

`PROJECT.json` lists the same components with what is modelled of each, and
the hazards of the code, each at the line where it bites.

## 2. The modules

Ordered by how much depends on them.

| Part | Modules | Composed of | Abstract specification | Proofs |
|---|---|---|---|---|
| sessions | `Session` | | `SessionLife` | `Session_proofs`, `SessionGrant_proofs` |
| life cycle | `Reload` | | | `Reload_proofs` |
| methods and engine | `RpcCall` | `CallSteps` and one module per service: `StorageCalls`, `NetworkCalls`, `ConsoleCalls`, `NodeCalls`, `VmCalls`, `AccountCalls`, `JobCalls`; `SqlQueries` for the database | | `CallSteps_proofs`, `RpcCall_proofs`, `RpcAnswers_proofs` |
| `updateVms` | `VmUpdate` | | `VmJoin` | `VmUpdate_proofs` |
| `zproxy` | `ZProxy` | | | `ZProxy_proofs` |

`MCSession`, `MCReload`, `MCRpcCall`, `MCVmUpdate` and `MCZProxy` instantiate
them for TLC.

The parts meet in three places. Every call passes through `session_pre_call`
(`Session`) before its method is entered (`RpcCall` begins there). `updateVms`
is a method like the others whose work is done by contexts of its own
(`VmUpdate`). `Reload` holds calls back and closes the database they use; its
calls are abstract ones of one or more queries.

Modules that are proved about declare their bounds as CONSTANTS with named
assumptions, have one action per handler and no recursive operator. What is
left to do is at the end of sections 9 and 10.

## 3. The session model

| Module | What it is |
|---|---|
| `Session` | the component: variables, one action per query with its callback, properties |
| `SessionLife` | what the table promises of a session id: `Session` implements it |
| `MCSession` | gives TLC the model values and the symmetry |
| `Session_proofs` | type correctness and the reply counts |
| `SessionGrant_proofs` | who may be authenticated, finality of a logout, the refinement; a login answered "ok" left its session |

**State.** `stored` and `sessions` are the `sessions` table; `users` the
accounts; `conf` the configuration rows `authtype` and `authfallback`.
`ses[c]` is `data_->session`, the structure the call works on; `count`, `err`
and `dead` are fields of its `Zentific_Ctx` (`dead` is also set for a call that
was answered with a query still under way). `pc[c]` names the query the call
waits for and `todo[c]` the queries in flight when there are several.
`granted`, `written` and `closed` are history: they are read by properties and
by no guard.

**Steps.** An action executes the query `pc[c]` waits for and runs the
callback up to the next query. The callback touches only the structures of its
own call, so nothing distinguishes the two moments.

| Action | Code |
|---|---|
| `StartCall` | PRE_CALL, `session_getClientIP` |
| `OpenSession`, `StoreNewSession` | `session_pre_call` without a cookie |
| `AskSso`, `SsoOff` | `session_pre_call_sso_check`; the 2 it leaves in `ctx->count` matters later |
| `LoadSession`, `CheckSession` | `_getSession`, `_checkSession` and the decisions at the end of `session_pre_call` |
| `ReadUserType`, `Touch` | `session_pre_call_cb_super`: the copy is stamped and written back; then CHECK_SUPER_PRIV |
| `FindUser`, `StoreUnknown` | `_login`, `login_cb_uid`; an unknown user is answered by the CTX_RETURN of `_setSession`, before the session is written |
| `ReadAuthType`, `ReadFallback`, `LoginSucceeds`, `LoginFails`, `NoCredentials` | `_auth`, `_auth_db` |
| `FinishLastLogin`, `FinishSetSession` | the two queries a login sends at once, `zrpcdb_cb_exec` |
| `Logout` | `_logout` |
| `ListSessions`, `DeauthOne` | `user_cb_logoutsessions`, `user_cb_logout_deauth` |
| `RemoveUser`, `CleanDB` | the statements of that name |
| `DbError` | `event_cb` with an error, `error_handler` |
| `Tick` | time passes |

**What the model shows of the code.** Facts that follow from the source and
are kept as they are: a call that holds a copy undoes a logout that happens
meanwhile (so `QuiescentLogoutIsFinal` speaks of logouts that met no copy);
failures are never counted, so the lockout never starts; a PAM login and one
that finds a fallback value are never answered (`"stuck"`); nor is `cleanDB`.

**Assumptions.** The rows `proxied` and `session_timeout` exist, as
`zentific.sql` installs them; single sign-on is off, as it is by default; uuids
are fresh; a connection sends its next request only when the queries of the
last call have come back (what happens otherwise is the subject of `RpcCall`).
`session_pre_call` calls RESUME for a login before it resets `uid` and
`authenticated` (`functions-session.c:521`): azy is running that directive, so
the method is entered when the directive has returned, and finds the fields
reset.

**Bounds.** `Horizon` bounds the clock, and `EnoughSids` lets a call start only
while the uuids it may need are left, so that no call is stuck because the
model ran out of them.

## 4. The reload model

| Module | What it is |
|---|---|
| `Reload` | start, exit, SIGHUP, `reloadModules`, `reloadConfig`, and the calls that come meanwhile |
| `MCReload` | gives TLC the model values |
| `Reload_proofs` | type correctness and the safety properties |

**State.** The globals of `server.c` under their own names (`db`, `config`,
`reload_modules`, `reloading_modules`; `waiting` is `reload_modules_list`), the
statics of the database module (`init_count`; `hashes` and `handlers` say
whether its hash tables and event handlers exist; `typeCbs` are the calls whose
query has an entry), what became of each DB object (`dbs`), and for each
connection where its call is (`pc`), the object its query went to (`query`) and
its pointer to the configuration (`zconf`).

| Action | Code |
|---|---|
| `Start`, `BootConnected` | `initialize`, `db_init`, `db_source_init_cb` |
| `Sighup`, `Tick` | `signals_handler`: the first signal parses the configuration, a second within five seconds reloads; ignored while a reload is pending |
| `ReloadBegin` (`Defer`, `BeginNow`) | `modules_reload_begin`, part of `Sighup`, `Disconnect` and `ReloadModules` |
| `ReloadConnected` | `init_cb`, `modules_reload_handler`: success or failure |
| `Connect`, `Disconnect` | connections, `server_client_disc` |
| `StartCall`, `RestartCall` | PRE_CALL, for a new call and for one that was resumed |
| `NextQuery`, `Answer`, `ReloadModules`, `ReloadConfig` | a reply, and what the call does then |
| `Terminate` | `cleanup_exit` |

**What the model shows of the code.** Reloads overlap: `reload_modules` stays
set while the new object connects, so a client that comes and goes starts
another. The log line "Continuing with already loaded modules"
(`server.c:403`) is never reached: `modules_load` ends the process instead of
returning NULL. An object whose pool fails to connect stays counted in
`init_count` for ever.

**Assumptions.** A signal is taken between two events of the main loop, though
the real handler may interrupt one. Loading the database module again gives the
library that is loaded already, so its statics are shared. azy resumes a call
after `modules_reload_handler` has returned, as every caller of
`azy_server_module_events_resume` in the source relies on; it counts a client
out before it announces that it has gone; what it keeps of a queued module
whose client has gone is not modelled. Queries of a live pool are answered and
do not fail; `Session` models failing queries.

**Bounds.** `Dbs` and `Configs` bound how many objects are made; when they are
used up, `db_init` and the parsing of the file can only fail. Four objects
allow a reload and two that overlap; two clients let one call while the other
causes a second reload; with two configurations one can be replaced and freed.

## 5. The model of the methods and their engine

A method is a C function that is entered again and again. `ctx->count` says how
far it got, `ctx->error` what the last query said; an entry sends queries,
pushes callbacks and leaves through `CTX_RETURN`.

| Module | Code |
|---|---|
| `CallSteps` | the vocabulary: `CTX_CB_ADD` with `cb_bool_rewind`, `cb_int_rewind`, `CTX_VALUE_RETURN`, `CTX_INT_RETURN`; setting and clearing `ctx->error`, `ctx->count`, `ctx->retval` |
| `StorageCalls`, `NetworkCalls`, `ConsoleCalls`, `NodeCalls`, `VmCalls`, `AccountCalls` (users, groups, platforms, settings, MAC addresses, disks and interfaces), `JobCalls` | one operator per method, of the count, the error, the number of rows the last reply handed over, and whether `ctx->retval` holds an object; its value is the set of things one entry may do |
| `SqlQueries` | `db_sources/mysql/zrpcdb_*.c`: each query and what its result callback makes of the rows (`KindOf`) |
| `RpcCall` | the engine: `PRE_CALL`, `Enter` (`CTX_RETURN`), `Deliver` and `CallbackOf` (`event_cb`, `zrpcdb_cb_exec`, `functions_cb.c`), `HandleEvent` (`result_handler`, `error_handler`), `Answers` (`POST`) |
| `CallSteps_proofs` | what one entry may do, method by method |
| `RpcCall_proofs` | the engine's types; the server outlives every method not in `Crashes` |
| `RpcAnswers_proofs` | what each step of the engine comes to; no reply is refused wrongly, but for two methods; no query outlives its call's answer, but for the methods in `LeavesQueries` |

The arms of every `CASE` are disjoint, so that TLC (which takes the first) and
the provers (for which the choice is open) read the same model.

**State.** One connection: its context `ctx`, the queries in flight `out`,
ecore's queue `ev`, the process `up`. `old` marks queries and events of an
earlier call. `prev` remembers how the last call was answered, for the
properties.

**Steps.** `Call` enters a method of the chosen set. `Reply` takes any query in
flight, in any order, and lets it fail, or return any number of rows the schema
allows (`Rows`: one at most where a unique key picks it, more where none does).
A context of its own that a method makes is one such reply (`KidReturns`,
`KidLost`). The one that `detachDiskFromStorage` makes frees its job and itself
in the step that sends its `addJob`, so that it may kill the server then
(`UseAfterFree`), and so may the reply to that `addJob` (`freed`), unless it
does nothing (`LateAddJob`); that the memory is another context's by then is
left out. `HandleEvent` answers. Resuming re-enters the method in the same
step, as azy does it.

**The tables are not kept.** Another connection may change any row between two
queries, so every look-up may find any number of rows the schema allows. That
covers every interleaving with other connections as far as this connection's
answers depend on them.

**What the model shows of the code.** The properties except some methods, each
for a reason that follows from the source; the sets `LeavesQueries`,
`OkForNothing`, `HalfDone`, `NeverAnswered` and `Crashes` of `RpcCall` list
them. Among them:

* An insertion is always answered ENTITY_ALREADY_EXISTS, also when it succeeded
  (`createDisk` on the way of others, `defineNetwork`, `modifyNetwork`).
* A look-up that finds nothing leaves UNKNOWN_RESOURCE in `ctx->error`. A method
  that goes on with "it does not exist" without clearing it is answered by the
  next `CTX_RETURN` while its write is in flight (`removeStorage`,
  `addPlatform`), or never gets to its next step: a console cannot be connected,
  so the tunnels, their timer and their exit are out of reach; `generateMAC`
  never returns an address.
* Ten members of the database object that the methods call are not among those
  `db_sources.c` loads, so they are NULL (`NotLoaded`): counting machines or
  nodes, adding a disk to a storage, a machine's earlier revision and the
  configuration of a platform end the process.
* Checks that are the wrong way round: `removeDiskFromStorage` finds every existing disk in use, `addUser`
  refuses known languages, `removeNetIf` always answers INVALID_PARAMETER.
* The workflows that make a job per node, disk or interface dereference an
  array of pointers nobody fills (`detachAllNodesByStorage`,
  `detachAllDisksByStorage`, `detachAllNetIfsByNetwork`).
* `addJob` stores the job and then takes the caller's number for a pointer: the
  first user (0) is told JOB_CREATION_FAILED, any other number is dereferenced.
  The scheduler is never kicked, so its TCP handlers and timer are out of reach.
* A virtual machine's action is answered "ok" without a job when the list of
  its parent does not have exactly two entries.
* `getPlatform`, `getVMsFull`, `getJob`, `setConfigs`, a `setPassword` that is
  too short and others are never answered.

**Assumptions.** A call enters its method at once: that its `session_pre_call`
met no reply or event of the connection's last call is assumed (`Call`; a reply
that comes later, when the method runs, is in the model), and the caller is a
super user, for whom `CHECK_EXIST_AND_PRIVS` asks nothing. For other callers
the wrapper makes two look-ups first (does it exist, does the caller own it),
and refuses or enters the method.
The generated conversions of a row give an object or NULL; an
INSERT reports no rows; azy resumes a call synchronously, except from
within the directive it is running (section 3); sorting and the
content of rows are left out; magic checks are on.

**Bounds.** `MaxCalls` 2: the second call is the first that can meet what an
earlier one left behind; a third meets no other kind of leftovers, since
everything older is marked `old` alike. `MaxFailures` 1, beside the queries
that always fail (the statement is not SQL). Every function that a method of
`zentific-server.azy` enters is taken first (`MCRpcCall` names the others); the
second call is one of ten that differ in what they have to lose: reads of one
row and of lists, chains of look-ups, parallel writes, a fan-out, a job.
Lists have at most two entries, which is what distinguishes "none", "one" and
"several", and the length two that the job's callbacks ask for.

## 6. The model of updateVms

| Module | What it is |
|---|---|
| `VmUpdate` | `_updateVMs`, `vm_cb_update` and the children's queries, several reports at once |
| `VmJoin` | what a report promises: it is answered in the step in which its last piece of work is done |
| `VmUpdate_proofs` | all safety properties and the refinement |

**State.** `pc`, `list` and `count` belong to a report; `child[p][m]` is the
context made for machine `m`: its count, error, callbacks, queries in flight,
whether it is dead, waits for a job of the main loop, or has been freed.
`creator`, `conf` and `stats` are the tables `vms`, `vmconfig` and
`vmstats`.

| Action | Code |
|---|---|
| `Report`, `NodeRefused`, `Split` | `_updateVMs` |
| `RunJob` | `vm_cb_update` from one query to the next, and its end at `out`, which counts the parent down (`Leaves`) |
| `Reply`, `QueryFails`, `HandleError` | `event_cb`, `cb_bool_job`, `cb_pointer_job`, `error_handler` on a child |
| `ReplyToFreed` | the reply to a query whose context was freed; the process may die of it |

**What the model shows of the code.** `createVM` of a machine that has a row
fails on the unique uuid; the error event finds no module to resume, so the
child stays and the report is never answered. `createVM` that succeeds says
ENTITY_ALREADY_EXISTS and is taken for "known". A new machine has no
configuration row, so `updateVmConfig` is sent with an error set, and the child
is freed under it. So no statistics are ever stored, and counts 5 to 7 of
`vm_cb_update`, with the updates of disks and interfaces behind them, are not
reached (`NoStatistics`, proved). An empty report is never answered.

**Bounds.** Two reports of two machines each at most (`MaxChildren` 4): every
overlap of two lists, in every mixture of known and new machines. The theorems
do not depend on them.

**Left out.** The removal of a machine's row; a client that disconnects while
children run; and `vms.ignored`, whose value no child ever sees: `isVmIgnored`
is asked with a callback that drops the answer (`functions-vm.c:594`), so the
query is modelled and its answer is not.

## 7. The model of zproxy

| Module | What it is |
|---|---|
| `ZProxy` | `proxy()`, its start and its ends, and the peers |
| `MCZProxy` | gives TLC the model values |
| `ZProxy_proofs` | type correctness and the five safety properties |

`ZProxy` is a program of its own: `proxy()` with its loop and its two `goto`s,
the SSL objects, the pid file, and the peers, which write, close and reset when
they like. An endpoint writes records of two chunks; with SSL, one read takes
the record from the socket and the rest of it stays in the SSL object, where
`poll` does not see it. What is delivered (`got`) is counted in halves of
chunks, because a write may be cut: `Deliver` hands over both halves (`Whole`)
or, where the receiver's side has no SSL, the first half twice (`Cut`), which is
what `data_send` does after a short write.

| Action | Code |
|---|---|
| `Start` | `main` from `zshare_pid_check` to `listen`: it serves; it ends in `cleanup_exit`, without a pid file; or `zshare_daemon_closefds` fails and it exits with the pid file in place |
| `ConnectBackend`, `AcceptClient` | `restartbackend:`, `awaitclient:` |
| `Poll` (`Serve`: one turn), `FromClient`, `FromBackend` | the loop |
| `Deliver` | `data_send`, `SSL_write` |
| `Restart`, `CleanupExit`, `CleanupTwice`, `HandshakeFails` | its ways out |
| `Terminate`, `Crash` | SIGTERM and SIGINT; a signal without a handler, `free()` noticing the damage |

**What the model shows of the code.** After the backend has closed,
`frontend_conn` is freed by `ssl_teardown` and again when the next client is
accepted; with SSL most errors run `cleanup_ssl` twice (`ClientsDoNoHarm` says
that clients alone cannot cause it while the proxy serves). A process that is
killed (by SIGPIPE too), whose handshake fails or that cannot detach leaves its
pid file, and every later start is refused (`PidfileTellsTruth`). A short write
repeats the start of the buffer in place of its rest (`InOrder` says that the
damage stays within the chunk; the run `zproxy_short` shows it).

**Assumptions.** Peers keep reading (a write blocks otherwise); a write is cut
once at most, in the middle of a chunk; a peer that leaves during a write counts
as one that left before or after it; `accept` does not fail. `SSL_write` writes
all it is given, as partial writes are not enabled. The functions of Zshare are
not in the repository: `zshare_pid_delete` is taken to delete the file that
`zshare_pid_create` made, and no other; one process at a time is started. A
signal that comes before `setup_signal_handler` counts as one that comes right
after the start and has no handler.

**Bounds.** In `zproxy`, two clients and two backend connections: one restart of
each kind, with a client waiting in the kernel meanwhile. One record of two
chunks per endpoint: enough for a rest to stay in the SSL object, and for both
chunks to be cut. That bound would silence a peer after its record, so
`zproxy_live` (one client, one backend connection, two records unread at most)
adds to the specification that the history forgets what has left the socket
(`Forget` of `MCZProxy`; no guard but the bound reads it): there each peer may
talk without end, and the mutant that serves the backend first is caught in a
loop in which the client's data is never read.

## 8. Runs

| Run | Question | Instance | States |
|---|---|---|---|
| `session_safety` | who may be authenticated, what a logout and an "ok" mean, refinement of `SessionLife`, while the account is removed | 2 connections, 4 session ids | 372,609 |
| `session_admin` | types and reply counts over every method and every configuration | 1 connection, 2 users, 4 ids | 209,560 |
| `session_live` | every call is answered; a logout lasts, also when sessions expire and the table is emptied | 2 connections, 2 ids, expiry (Horizon 1), no symmetry | 282,096 |
| `cookie_login` | a login with a cookie has its credentials checked (it has not) | 1 connection | |
| `reload` | one database serves, results have handlers, no queued call and no reload is forgotten | 2 clients, 4 DB objects, 2 configurations | |
| `reload_tables` | the reply to a SELECT finds its callback (not after a reload) | 1 client, 2 DB objects | |
| `reload_overlap` | the database of a running call is not closed (it is when reloads overlap) | 2 clients, 3 DB objects | |
| `calls` | what "ok" and an error mean, what is left behind, what crashes, what is answered | every method, then one of ten; one failing query | 222,662 |
| `vm_update` | the join by counting, what a report's "ok" means, refinement of `VmJoin` | 2 reports, 2 machines, 4 children | 280,854 |
| `zproxy` | bytes in order and to the right peer, SSL objects, pid file | 2 clients, 2 backends, 1 record each | 3,113,308 |
| `zproxy_live` | each side is heard, also while the other talks without end | 1 client, 1 backend, 2 records unread at most | 301,110 |
| `zproxy_short` | what is received is what was sent (it is not, after a short write) | 1 client, 1 backend | |

Two connections of `Session` are enough for one to hold a copy while the other
changes the row; two ids for one login (a call without a cookie makes a session,
the login another), four for two, or for two sessions of one user beside the
super user's, which makes `logoutByName` wait for more than one reply. The bounds of the
other runs are explained in their sections.

`CHECK_DEADLOCK FALSE` is set because the session ids, the clock, the calls,
the reports and the clients are bounded: when they run out and nothing is under
way, nothing more happens. In `reload`, `calls`, `vm_update` and the runs of `ZProxy` the
process may also end.

**Fairness.** `FairSpec` of `Session` asks that a call whose query can be answered is
(`WF_vars(Step(c))`): the pool retries and the event loop dispatches every
reply. Nobody is obliged to send a request, to let time pass or to fail. `FairSpec`
of `Reload` asks that every attempt to connect to the database ends, well or
badly, as TCP makes it, and that azy runs a call again that was resumed; no
client is obliged to leave, so a deferred reload may wait for ever. `Spec` of
`RpcCall` asks that the database goes on answering (`WF_vars(Reply)`: some
query, in any order) and that ecore takes its events in turn
(`WF_vars(HandleEvent)`); calls are bounded, so each query in flight is
answered. `VmUpdate` asks the same of the reports' look-up and of the main
loop with the database. `ZProxy` asks only that the process runs
(`WF_vars(ProxyStep)`), in `zproxy_live` too; no peer has to come, write or leave.

**Findings**, one for each run that is expected to be violated:

* `cookie_login`: a login that carries a session cookie enters `_auth` with
  `ctx->count` 2 and asks for the fallback although the account has
  credentials; it is answered UNKNOWN_RESOURCE. `functions-session.c:519` says
  "reset for check in login later", and the client of an expired session is
  told "Please log in again." (`zentific-server.azy:23`).
* `reload_tables`: `modules_reload_handler` closes the old DB object after the
  new one was set up, and `uninit` frees the hash tables both share; `init` made
  none because `init_count` was not 0. "all SELECT calls have cbs"
  (`zrpcdb.c:65`) is false after the first reload.
* `reload_overlap`: of two overlapping reloads the first clears the flags that
  hold calls back, and the second closes the database under the calls that have
  started since. `server.c:396` says "Deferring module reload until clients are
  finished".
* `zproxy_short`: after a short write `data_send` sends `data` again and not
  `retry` (`zproxy.c:83`), so the peer receives the start of the chunk in place
  of its rest. `zproxy.c:817` says "this is just a 1:1 client:host proxy", and
  819 "it gets the job done".

Two more defects are plain to read in the source and in the models, and no run
is spent on them. The method `reloadConfig` frees the configuration the global
`config` points to and keeps the new one in its own call only (`ReloadConfig`;
`zconf.c:30` says "avoid losing current config"). The database object is
calloc'ed and filled by one `LOAD` line per function; ten functions that
methods call have none (`NotLoaded`), so a client's first `getNodeCount`, say,
calls NULL: the methods concerned are among `Crashes` (`db_sources.c:85` says
"generate all of the necessary references").

Each property of a passing run has a mutant in `PROJECT.json`: a definition of
the model changed as a plausible bug would (a callback list that survives
`POST`, a reply that skips its place in the chain, a pid file not deleted, a
count that starts one too low), under which the run finds the property
violated. The mutants stand beside the definitions they change.

## 9. Proofs

For every value of the constants that satisfies the module's assumption
(`SessionAssumption`, `ReloadAssumption`, `VmUpdateAssumption`,
`ZProxyAssumption`, `RpcCallAssumption`: the calls name methods that
`zentific-server.azy` has, the bounds are numbers):

* `TypeCorrect`, `AnswersAreLast` (`Session_proofs`). The inductive invariant
  is `TypeInv`: the types, what each phase implies about `todo` and `req`, and
  `AnswerIsLast`. The count of `deauths` needs the finiteness of the set of
  sessions listed, which is why `todo` is tied to the phase.
* `OnlyLoginAuthenticates`, `LogoutIsFinal`, `TableImplementsLife`
  (`SessionGrant_proofs`). The invariant `GrantInv` adds to `TypeInv` that ids
  in use were issued, that the row and every copy that says "authenticated as
  u" has `granted = u`, and that a closed session has no copy that could still
  be written. Lemmas describe how each action moves `sessions`, `granted` and
  `closed`; each conjunct then has its own preservation lemma.
* `LoginLeavesSession` (`SessionGrant_proofs`), on top of `GrantInv`. `LoginInv`
  follows one login: from `_auth` on the structure holds the uid of the user it
  named; from `finish` on its id is issued and granted to that user with the
  right password, and written once `setSession` has returned, whatever became of
  `setLastLogin`. The later phases of other methods are never a login's, which
  is what makes "idle, login, ok" speak of this login.
* `ReloadTypeCorrect`, `ServesOneDb`, `HandlersStay`, `QueuedCallsAreExpected`,
  `NoReloadIsLost` (`Reload_proofs`). `StepMoves` reduces every step to one of
  six moves of the database objects; `DbInv` says that `init_count` is the
  number of objects in use, which is why `uninit` of the old one never reaches
  0 while another serves. `QueueInv` ties the list, the flags and the calls
  together; it must say that an object is connecting whenever
  `reloading_modules` is set, since only its handler empties the list.
* `TypeCorrect`, `CountsChildren`, `NeverStatistics`, `OkForStrangers`,
  `FreedWhere`, `ImplementsJoin` (`VmUpdate_proofs`). `Inv` is the invariant.
  `ChildInv` gives the shape of a child for each count (what it waits for, with
  which callbacks and error), and that a child past `createVM` belongs to the
  report that made the row. `ConfInv` says that a row of `vmconfig` belongs to
  an older machine, or came when its child ended; that is why `getVM` never
  finds one for a child that is alive, and why no statistic is stored. `DoneInv`
  says what an answered report did. `KeepsInv` and `LeavesInv` reduce every
  step to a child that stays or one that leaves; each action has its lemma. The
  refinement uses `Inv` and the same lemmas: a step is a `Leave` of `VmJoin`
  when a child leaves, and a stutter otherwise.
* `ZProxyTypeOK`, `PidfileHolds`, `ClientsDoNoHarmHolds`, `OneToOneHolds`,
  `InOrderHolds`, `NothingHeldBackHolds` (`ZProxy_proofs`), for any clients, any
  backend connections and any number of records. `TypeInv` adds to the types
  what the descriptors are at each point of the loop (`Places`), that whoever is
  connected has not been closed and waits once (`Connections`), and that an SSL
  object holds at most the rest of one record (`Chunks`). `Moves` reduces every
  step to one of ten moves of the data. `LocalInv` adds that an SSL object of
  the client's side is freed in a running proxy only after a backend left.
  `OneToOne` is not inductive: `TrafficInv` adds that whoever waits is fresh
  (nothing came to it or from it), that the relation "has received from" is one
  to one and symmetric, and that what was received, with what SSL holds and what
  the socket holds, adds up to what was written; a chunk whose write was cut
  counts two halves like any other, which is why what follows it is at its place
  again. Freshness is what carries a
  restart: the next client has waited in the backlog all the while.

* `EngineTypeOK`, `ServerLives` (`RpcCall_proofs`, from `CallSteps_proofs`), for
  every set of methods, any number of calls and any number of failed queries:
  `calls` checks two calls, the second one of ten. `MethodSteps` says of every
  method, whatever its count and error, that an entry asks for what the database
  object or the engine knows and pushes callbacks the engine knows; and that all
  but the methods in `Excepted` neither dereference NULL nor push a callback
  that may. The methods in `Staged` are safe only because of what they wait for:
  the stages they wait at are listed (`Stages`: count, callback, query) and
  `ReaderSteps`, `ChainSteps`, `SetterSteps` and the four lemmas after them say
  what an entry does at each. `EngineInv` is the type invariant: every step ends
  in an answer, in waiting or in the death of the process, and each settles the
  state. `CrashesOnlyIn` is not inductive; `CrashInv` adds `Sound`: a call that
  no earlier call's reply has reached waits either with callbacks that can do no
  harm, or at one of its stages with that stage's callback for at most that
  stage's query. So a chain never gets a reply of another kind, a count that
  children bring down never wakes a chain, and `setConfigs`, whose chain holds
  NULLs, never gets the kind of reply that calls one. From `Sound` a reply makes
  the context `Ready`, and an entry that is ready is `Fine`.

* `TooManyRowsAreTrue` (`RpcAnswers_proofs`): `event_cb` refuses a reply of more
  rows when `ctx->state` is set, whichever query set it, so a list may be refused
  for a look-up sent beside it. `AnswerInv` adds to `TooManyIsTrue` what a call
  has under way, by five classes of methods that `MethodsTidy` puts every method
  into: one query at a time (`Serial`, nearly all), queries side by side of which
  none can be refused wrongly (`Narrowers`, and `addNetIf` up to count 2), lists
  beside queries that leave `ctx->state` alone (`Quiet`), one list and then
  insertions (`Cancellers`). `Held` is what is in flight and whether the state may
  be set then, `Fits` what an entry expects, and `EnterHolds` that an entry that
  fits holds again. `attachNetIf` and `detachNetIf` are in no class: they do send
  a list beside look-ups. The same invariant carries `ctx->error` and the fault:
  once either is `DB_MULTI`, a look-up did find more.

* `LeftoversAreKnown` (`RpcAnswers_proofs`): `POST` clears the context and cancels
  nothing, so a query in flight at an answer comes back to the connection's next
  call. `LeftInv` adds to `LeftoversOnlyOf` that a call which is not excepted (no
  earlier reply has reached it, no query of its failed, it is not in
  `LeavesQueries`) either has one event to come and no query under way, or no
  event, and what it has sent is what it waits for (`Under`). Four classes cover
  all other methods: `Straight` ones send one query at a time and are never
  entered with an error (the two in `Short` never get to their end); `Careful`
  ones may be, and look at the error before they send; `Listers` start a context
  of their own for each row and count down `ctx->count`, which bounds what is
  under way (`Fewer`); `Counters` keep one callback in the chain for each query.
  `StraightSteps`, `CarefulSteps`, `ShortSteps`, `ListerSteps` and `CounterSteps`
  give `EnterProper`: an entry with nothing under way (`Afresh`) sends nothing, or
  waits for what it sends (`Proper`). `Takes` is what a callback finds when its
  reply comes, and `Decent` what each step comes to. The queries of `Counters`
  need `AnswerInv`: only a reply to a look-up for one row is ever refused in these
  methods, and theirs are none, so no error cuts in while others are under way.

Only model-checked: `OkMeansChanged` and `ErrorMeansUnchanged` of `RpcCall`, and
liveness (`CallsAnswered`, `QueuedCallsRun`, `ReportAnswered`, `EachIsHeard`),
which the prover cannot express. The two need, method by method, which writes have
been made when it answers; `Held` and `Under` say which queries are under way, not
what became of those that returned.

## 10. Not modelled

* Single sign-on and the parsing of client addresses.
* What the code cannot reach: the scheduler's TCP handlers and timer, the
  console tunnels, the children of the storage and network workflows, counts 6
  and 7 of `vm_cb_update` with `disks_updateconfig` and `vifs_updateconfig`, and
  `saveVM` after its crash. The models show that nothing gets there; a model of
  code that never runs would check nothing of the program.
* `_disconnectConsolesBySession`, which `_logout` calls at count 0 and is entered
  at 2, with single sign-on off.
* The text of queries, log messages, dates, and the sorting of lists.

Out of scope altogether: the utilities, the hash, the Debian and init files and
the third-party libraries (azy, ecore, esskyuehl), which appear only as the
source uses them.
