------------------------------- MODULE Reload -------------------------------
(***************************************************************************)
(* The life of the server process: start, SIGHUP, the reload of servlets   *)
(* and database module, the reload of the configuration, and the calls     *)
(* that arrive meanwhile.                                                  *)
(*                                                                         *)
(* A reload is deferred until no client is connected.  It then replaces    *)
(* the servlets at once, but the new database object connects in the       *)
(* background; calls that arrive before it has are queued.                 *)
(*                                                                         *)
(* An action is one event of the main loop, or one signal: a signal that   *)
(* interrupts a handler is taken as if it came before or after it.         *)
(***************************************************************************)
EXTENDS Integers, FiniteSets

CONSTANTS
  Clients,  \* connections; each has one call at a time
  Dbs,      \* bound: the DB objects calloc returns, each used once
  NoDb,     \* NULL
  Configs,  \* bound: the zentific_config structures
  NoConfig  \* NULL

ASSUME ReloadAssumption ==
  /\ IsFiniteSet(Dbs)
  /\ NoDb \notin Dbs
  /\ NoConfig \notin Configs

VARIABLES
  phase,             \* of the process
  dbs,               \* what became of each DB object
  db,                \* the global `db`
  init_count,        \* users of the database module's statics
  handlers,          \* zrpc_res and zrpc_err are installed
  hashes,            \* type_cbs, db_cbs and db_cb_params exist
  typeCbs,           \* the calls whose query has an entry in type_cbs
  reload_modules,    \* a reload is asked for, or under way
  reloading_modules, \* the new database object is connecting
  waiting,           \* reload_modules_list
  recent,            \* the last signal came less than 5 seconds ago
  pc,                \* where the call of each connection is
  query,             \* the database object its query was sent to
  config,            \* the global `config`
  zconf,             \* data_->zconf of each connection
  freedConfigs       \* the structures given to config_free

dbVars     == <<dbs, db, init_count, handlers, hashes, typeCbs>>
reloadVars == <<reload_modules, reloading_modules, waiting>>
callVars   == <<pc, query, zconf>>
confVars   == <<config, freedConfigs>>
vars == <<phase, dbs, db, init_count, handlers, hashes, typeCbs,
          reload_modules, reloading_modules, waiting, recent, pc, query,
          config, zconf, freedConfigs>>

\* An object is used from a successful init() to its uninit(): a pool that
\* failed to connect is never given back.
InUse == {"connecting", "up", "failed"}

Connected == {c \in Clients : pc[c] # "absent"}

-----------------------------------------------------------------------------
(* The database object.                                                    *)

\* Mutant: only the object that sets the statics up is counted.
DbInitCountsFirst(d) ==
  /\ dbs[d] = "none"
  /\ dbs' = [dbs EXCEPT ![d] = "connecting"]
  /\ init_count' = 1
  /\ handlers' = (handlers \/ init_count = 0)
  /\ hashes' = (hashes \/ init_count = 0)
  /\ UNCHANGED <<db, typeCbs>>

\* Mutant: objects are not counted.
DbInitUncounted(d) ==
  /\ dbs[d] = "none"
  /\ dbs' = [dbs EXCEPT ![d] = "connecting"]
  /\ handlers' = (handlers \/ init_count = 0)
  /\ hashes' = (hashes \/ init_count = 0)
  /\ UNCHANGED <<db, init_count, typeCbs>>

\* init() of the database module: the object begins to connect.  The statics
\* are shared by all objects of the library, and set up by the first one.
DbInit(d) ==
  /\ dbs[d] = "none"
  /\ dbs' = [dbs EXCEPT ![d] = "connecting"]
  /\ init_count' = init_count + 1
  /\ handlers' = (handlers \/ init_count = 0)
  /\ hashes' = (hashes \/ init_count = 0)
  /\ UNCHANGED <<db, typeCbs>>

\* db_init, when the library and all its functions are found.
DbLoad == \E d \in Dbs : DbInit(d)

\* The statics after uninit(): the handlers go with the last user, the hash
\* tables with every one.
UninitStatics ==
  /\ init_count' = init_count - 1
  /\ handlers' = (handlers /\ init_count # 1)
  /\ hashes' = FALSE
  /\ typeCbs' = {}

\* Mutant: the old object is forgotten, not closed.
ReplaceDbLeaks(d) ==
  /\ dbs' = [dbs EXCEPT ![d] = "up"]
  /\ db' = d
  /\ UNCHANGED <<init_count, handlers, hashes, typeCbs>>

\* db_uninit(db); db = data;
ReplaceDb(d) ==
  /\ dbs' = [dbs EXCEPT ![db] = "freed", ![d] = "up"]
  /\ db' = d
  /\ UninitStatics

-----------------------------------------------------------------------------
(* Start and end.                                                          *)

\* initialize(): db_init with the default callback, or exit.
Start ==
  /\ phase = "start"
  /\ \/ /\ DbLoad
        /\ phase' = "boot"
     \/ /\ phase' = "exited"
        /\ UNCHANGED dbVars
  /\ UNCHANGED <<reloadVars, recent, callVars, confVars>>

\* db_source_init_cb, after which main() starts the server or gives up.
BootConnected(d) ==
  /\ phase = "boot"
  /\ dbs[d] = "connecting"
  /\ \/ /\ dbs' = [dbs EXCEPT ![d] = "up"]
        /\ db' = d
        /\ phase' = "up"
     \/ /\ dbs' = [dbs EXCEPT ![d] = "failed"]
        /\ phase' = "exited"
        /\ UNCHANGED db
  /\ UNCHANGED <<init_count, handlers, hashes, typeCbs, reloadVars, recent,
                 callVars, confVars>>

\* SIGTERM or SIGINT: cleanup_exit.
Terminate ==
  /\ phase = "up"
  /\ phase' = "exited"
  /\ dbs' = [dbs EXCEPT ![db] = "freed"]
  /\ UninitStatics
  /\ UNCHANGED <<db, reloadVars, recent, callVars, confVars>>

-----------------------------------------------------------------------------
(* The reload.                                                             *)

\* Mutant: db_init has failed, but the reload stays marked as pending.
BeginForgets ==
  \/ /\ DbLoad
     /\ reload_modules' = TRUE
     /\ reloading_modules' = TRUE
     /\ UNCHANGED phase
  \/ /\ reload_modules' = TRUE
     /\ UNCHANGED <<phase, dbVars, reloading_modules>>

\* modules_reload_begin past its first test.  modules_load() ends the process
\* when the base servlet cannot be loaded; the servlets themselves are
\* replaced while no client is there to call them.
BeginNow ==
  \/ /\ DbLoad
     /\ reload_modules' = TRUE
     /\ reloading_modules' = TRUE
     /\ UNCHANGED phase
  \/ /\ reload_modules' = FALSE
     /\ UNCHANGED <<phase, dbVars, reloading_modules>>
  \/ /\ phase' = "exited"
     /\ dbs' = [dbs EXCEPT ![db] = "freed"]
     /\ UninitStatics
     /\ reload_modules' = TRUE
     /\ UNCHANGED <<db, reloading_modules>>

Defer ==
  /\ reload_modules' = TRUE
  /\ UNCHANGED <<phase, dbVars, reloading_modules>>

\* modules_reload_begin.
ReloadBegin(clients) == IF clients = {} THEN BeginNow ELSE Defer

\* Mutant: the flags are reset and the queue forgotten.
ResetFlags ==
  /\ pc' = pc
  /\ waiting' = {}
  /\ reload_modules' = FALSE
  /\ reloading_modules' = FALSE

\* Mutant: the calls are resumed but their list is not emptied.
ResumeKeepsList ==
  /\ pc' = [c \in Clients |-> IF c \in waiting THEN "resumed" ELSE pc[c]]
  /\ waiting' = waiting
  /\ reload_modules' = FALSE
  /\ reloading_modules' = FALSE

\* The end of modules_reload_handler: the queued calls go back to their
\* pre-call, and the flags are reset.
ResumeWaiting ==
  /\ pc' = [c \in Clients |-> IF c \in waiting THEN "resumed" ELSE pc[c]]
  /\ waiting' = {}
  /\ reload_modules' = FALSE
  /\ reloading_modules' = FALSE

\* init_cb calls modules_reload_handler.
ReloadConnected(d) ==
  /\ phase = "up"
  /\ dbs[d] = "connecting"
  /\ \/ ReplaceDb(d)
     \/ /\ dbs' = [dbs EXCEPT ![d] = "failed"]
        /\ UNCHANGED <<db, init_count, handlers, hashes, typeCbs>>
  /\ ResumeWaiting
  /\ UNCHANGED <<phase, recent, query, zconf, confVars>>

\* config_reparse of the structure `old`: a new one, or the old one when the
\* file cannot be parsed.
Reparsed(old, new) ==
  \/ /\ new \in Configs \ (freedConfigs \union {config, NoConfig})
     /\ \A c \in Clients : zconf[c] # new
     /\ freedConfigs' = freedConfigs \union {old}
  \/ /\ new = old
     /\ UNCHANGED freedConfigs

\* signals_handler.
Sighup ==
  /\ phase = "up"
  /\ recent' = TRUE
  /\ \/ /\ reload_modules
        /\ UNCHANGED <<phase, dbVars, reloadVars, confVars>>
     \/ /\ ~reload_modules
        /\ recent
        /\ ReloadBegin(Connected)
        /\ UNCHANGED <<waiting, confVars>>
     \/ /\ ~reload_modules
        /\ ~recent
        /\ Reparsed(config, config')
        /\ UNCHANGED <<phase, dbVars, reloadVars>>
  /\ UNCHANGED callVars

\* Five seconds pass.
Tick ==
  /\ recent
  /\ recent' = FALSE
  /\ UNCHANGED <<phase, dbVars, reloadVars, callVars, confVars>>

-----------------------------------------------------------------------------
(* Connections and their calls.                                            *)

Connect(c) ==
  /\ phase = "up"
  /\ pc[c] = "absent"
  /\ pc' = [pc EXCEPT ![c] = "idle"]
  /\ UNCHANGED <<phase, dbVars, reloadVars, recent, query, zconf, confVars>>

\* server_client_disc; the client that has gone is no longer counted.  What
\* azy keeps of its queued module is not seen here: resuming it changes nothing.
Disconnect(c) ==
  /\ phase = "up"
  /\ pc[c] # "absent"
  /\ pc' = [pc EXCEPT ![c] = "absent"]
  /\ query' = [query EXCEPT ![c] = NoDb]
  /\ zconf' = [zconf EXCEPT ![c] = NoConfig]
  /\ waiting' = waiting \ {c}
  /\ IF reload_modules
       THEN ReloadBegin(Connected \ {c})
       ELSE UNCHANGED <<phase, dbVars, reload_modules, reloading_modules>>
  /\ UNCHANGED <<recent, confVars>>

\* QUERY: the reply will look its callback up in type_cbs.
Send(c) ==
  /\ pc' = [pc EXCEPT ![c] = "query"]
  /\ query' = [query EXCEPT ![c] = db]
  /\ typeCbs' = IF hashes THEN typeCbs \union {c} ELSE typeCbs \ {c}
  /\ UNCHANGED <<dbs, db, init_count, handlers, hashes>>

\* The end of PRE_CALL: the call waits for the reload, or its first query is
\* sent by session_pre_call.
QueueOrSend(c) ==
  /\ \/ /\ reloading_modules
        /\ waiting' = waiting \union {c}
        /\ pc' = [pc EXCEPT ![c] = "queued"]
        /\ UNCHANGED <<dbVars, query>>
     \/ /\ ~reloading_modules
        /\ Send(c)
        /\ UNCHANGED waiting
  /\ UNCHANGED <<phase, reload_modules, reloading_modules, recent, confVars>>

\* PRE_CALL of a new call.
StartCall(c) ==
  /\ phase = "up"
  /\ pc[c] = "idle"
  /\ zconf' = [zconf EXCEPT ![c] = config]
  /\ QueueOrSend(c)

\* PRE_CALL again, after modules_reload_handler has rewound it.
RestartCall(c) ==
  /\ phase = "up"
  /\ pc[c] = "resumed"
  /\ QueueOrSend(c)
  /\ UNCHANGED zconf

\* The reply to the query comes, if its pool is still there.
Replied(c) ==
  /\ phase = "up"
  /\ pc[c] = "query"
  /\ dbs[query[c]] = "up"

\* The callback sends the next query of the call.
NextQuery(c) ==
  /\ Replied(c)
  /\ c \in typeCbs
  /\ Send(c)
  /\ UNCHANGED <<phase, reloadVars, recent, zconf, confVars>>

\* POST.
Finish(c) ==
  /\ pc' = [pc EXCEPT ![c] = "idle"]
  /\ query' = [query EXCEPT ![c] = NoDb]
  /\ zconf' = [zconf EXCEPT ![c] = NoConfig]

\* The call is answered.  A reply without an entry in type_cbs is taken for
\* that of a statement: the callback gets 0 instead of the row.
Answer(c) ==
  /\ Replied(c)
  /\ Finish(c)
  /\ UNCHANGED <<phase, dbVars, reloadVars, recent, confVars>>

\* The method reloadModules.
ReloadModules(c) ==
  /\ Replied(c)
  /\ c \in typeCbs
  /\ ReloadBegin(Connected)
  /\ Finish(c)
  /\ UNCHANGED <<waiting, recent, confVars>>

\* The method reloadConfig: the pointer that config_reparse replaces is that
\* of the call.  Freeing the structure of another call's reloadConfig once
\* more may end the process.
ReloadConfig(c) ==
  /\ Replied(c)
  /\ c \in typeCbs
  /\ \E new \in Configs : Reparsed(zconf[c], new)
  /\ phase' \in IF zconf[c] \in freedConfigs THEN {"up", "exited"} ELSE {"up"}
  /\ Finish(c)
  /\ UNCHANGED <<dbVars, reloadVars, recent, config>>

-----------------------------------------------------------------------------
Init ==
  /\ phase = "start"
  /\ dbs = [d \in Dbs |-> "none"]
  /\ db = NoDb
  /\ init_count = 0
  /\ handlers = FALSE
  /\ hashes = FALSE
  /\ typeCbs = {}
  /\ reload_modules = FALSE
  /\ reloading_modules = FALSE
  /\ waiting = {}
  /\ recent = FALSE
  /\ pc = [c \in Clients |-> "absent"]
  /\ query = [c \in Clients |-> NoDb]
  /\ config \in Configs
  /\ zconf = [c \in Clients |-> NoConfig]
  /\ freedConfigs = {}

Call(c) ==
  \/ StartCall(c)
  \/ RestartCall(c)
  \/ NextQuery(c)
  \/ Answer(c)
  \/ ReloadModules(c)
  \/ ReloadConfig(c)

Next ==
  \/ Start
  \/ \E d \in Dbs : BootConnected(d) \/ ReloadConnected(d)
  \/ Terminate
  \/ Sighup
  \/ Tick
  \/ \E c \in Clients : Connect(c) \/ Disconnect(c) \/ Call(c)

Spec == Init /\ [][Next]_vars

\* Every attempt to connect comes to an end, and azy runs a call that was
\* resumed again.
FairSpec ==
  /\ Spec
  /\ \A d \in Dbs : WF_vars(ReloadConnected(d))
  /\ \A c \in Clients : WF_vars(RestartCall(c))

-----------------------------------------------------------------------------
(* Properties.                                                             *)

TypeOK ==
  /\ phase \in {"start", "boot", "up", "exited"}
  /\ dbs \in [Dbs -> InUse \union {"none", "freed"}]
  /\ db \in Dbs \union {NoDb}
  /\ init_count \in Nat
  /\ handlers \in BOOLEAN
  /\ hashes \in BOOLEAN
  /\ typeCbs \subseteq Clients
  /\ reload_modules \in BOOLEAN
  /\ reloading_modules \in BOOLEAN
  /\ waiting \subseteq Clients
  /\ recent \in BOOLEAN
  /\ pc \in [Clients -> {"absent", "idle", "queued", "resumed", "query"}]
  /\ query \in [Clients -> Dbs \union {NoDb}]
  /\ config \in Configs
  /\ zconf \in [Clients -> Configs \union {NoConfig}]
  /\ freedConfigs \subseteq Configs

\* A queued call is on the list that modules_reload_handler empties, and a
\* database object is on its way that will call that handler: nobody else
\* resumes it (servlets.h, PRE_CALL).
QueuedCallsWaitForAReload ==
  phase = "up" =>
    /\ waiting = {c \in Clients : pc[c] = "queued"}
    /\ waiting # {} => /\ reloading_modules
                       /\ \E d \in Dbs : dbs[d] = "connecting"

\* No lost wake-up: a reload that is still marked as pending when the last
\* client has gone has been started, because further SIGHUPs are ignored until
\* it ends (server.c, signals_handler and server_client_disc).
DeferredReloadStarts ==
  phase = "up" /\ reload_modules /\ Connected = {} => reloading_modules

\* While the server is up, exactly one pool is connected, and it is the one
\* calls use, however reloads overlap and fail (modules_reload_handler).
OneServingDb == phase = "up" => {d \in Dbs : dbs[d] = "up"} = {db}

\* The handlers that turn query results into answers are there whenever the
\* server is up: taking the old object down never takes them along
\* (zrpcdb.c, init and uninit).
ResultsHaveAHandler == phase = "up" => handlers

\* A queued call is resumed, unless its client or the server goes.
QueuedCallsRun ==
  \A c \in Clients :
    pc[c] = "queued" ~> (pc[c] \in {"query", "absent"} \/ phase # "up")

\* zrpcdb.c:65, "all SELECT calls have cbs": the reply to a query in flight
\* finds the function that converts it.
SelectsHaveCallbacks ==
  \A c \in Clients : phase = "up" /\ pc[c] = "query" => c \in typeCbs

\* server.c:396, "Deferring module reload until clients are finished": the
\* database a call has a query on is not taken down under it.
CallsKeepTheirDb ==
  \A c \in Clients : phase = "up" /\ pc[c] = "query" => dbs[query[c]] = "up"
=============================================================================
