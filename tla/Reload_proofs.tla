--------------------------- MODULE Reload_proofs ---------------------------
(***************************************************************************)
(* Type correctness of Reload and its safety properties: a database object *)
(* serves the calls and the results have their handlers however reloads    *)
(* overlap and fail, no queued call is forgotten, and no deferred reload   *)
(* is lost.                                                                *)
(***************************************************************************)
EXTENDS Reload, FiniteSetTheorems, TLAPS

UsedDbs == {d \in Dbs : dbs[d] \in InUse}

\* init_count counts the objects in use, failed ones included; this is why the
\* old object never takes the handlers along.
DbInv ==
  /\ init_count = Cardinality(UsedDbs)
  /\ init_count > 0 => handlers
  /\ phase \in {"start", "boot"} => \A d \in Dbs : dbs[d] # "up"
  /\ OneServingDb

\* The list, the flags and the calls agree.
QueueInv ==
  /\ waiting = {c \in Clients : pc[c] = "queued"}
  /\ waiting # {} => reloading_modules
  /\ phase = "up" /\ reloading_modules =>
       \E d \in Dbs : dbs[d] = "connecting"
  /\ phase \in {"start", "boot"} =>
       ~reload_modules /\ ~reloading_modules /\ Connected = {}
  /\ DeferredReloadStarts

\* PRE_CALL has set data_->zconf for every call that runs or waits.
HasConf ==
  \A c \in Clients :
    pc[c] \in {"queued", "resumed", "query"} => zconf[c] \in Configs

ReloadInv == TypeOK /\ DbInv /\ QueueInv /\ HasConf

-----------------------------------------------------------------------------
(* What a step does to the database objects.                               *)

Fails(d) ==
  /\ dbs[d] = "connecting"
  /\ dbs' = [dbs EXCEPT ![d] = "failed"]
  /\ UNCHANGED <<db, init_count, handlers>>
  /\ phase' \in {phase, "exited"}

Boots(d) ==
  /\ phase = "boot"
  /\ dbs[d] = "connecting"
  /\ dbs' = [dbs EXCEPT ![d] = "up"]
  /\ db' = d
  /\ UNCHANGED <<init_count, handlers>>
  /\ phase' = "up"

Replaces(d) ==
  /\ phase = "up" /\ phase' = "up"
  /\ dbs[d] = "connecting"
  /\ ReplaceDb(d)

Opens(d) ==
  /\ DbInit(d)
  /\ phase' = phase \/ (phase = "start" /\ phase' = "boot")

Closes ==
  /\ phase = "up" /\ phase' = "exited"
  /\ dbs' = [dbs EXCEPT ![db] = "freed"]
  /\ db' = db
  /\ UninitStatics

Keeps ==
  /\ UNCHANGED <<dbs, db, init_count, handlers>>
  /\ phase' \in {phase, "exited"}

DbMove ==
  \/ Keeps
  \/ Closes
  \/ \E d \in Dbs : Fails(d) \/ Boots(d) \/ Replaces(d) \/ Opens(d)

\* A call of modules_reload_begin moves the database objects like this.
LEMMA BeginMoves ==
  ASSUME phase = "up", NEW clients, ReloadBegin(clients)
  PROVE  DbMove
<1>1. CASE clients = {}
  <2>1. BeginNow
    BY <1>1 DEF ReloadBegin
  <2>2. CASE DbLoad /\ UNCHANGED phase
    BY <2>2 DEF DbLoad, DbMove, Opens
  <2>3. CASE UNCHANGED <<phase, dbVars>>
    BY <2>3 DEF DbMove, Keeps, dbVars
  <2>4. CASE phase' = "exited" /\ dbs' = [dbs EXCEPT ![db] = "freed"]
             /\ UninitStatics /\ UNCHANGED db
    BY <2>4 DEF DbMove, Closes
  <2> QED
    BY <2>1, <2>2, <2>3, <2>4 DEF BeginNow
<1>2. CASE clients # {}
  BY <1>2 DEF ReloadBegin, Defer, DbMove, Keeps, dbVars
<1> QED
  BY <1>1, <1>2

LEMMA StepMoves ==
  ASSUME [Next]_vars
  PROVE  DbMove
<1>1. CASE UNCHANGED vars
  BY <1>1 DEF vars, DbMove, Keeps
<1>2. CASE Start
  BY <1>2 DEF Start, DbLoad, DbMove, Keeps, Opens, dbVars
<1>3. ASSUME NEW d \in Dbs, BootConnected(d)
      PROVE  DbMove
  BY <1>3 DEF BootConnected, DbMove, Boots, Fails
<1>4. ASSUME NEW d \in Dbs, ReloadConnected(d)
      PROVE  DbMove
  BY <1>4 DEF ReloadConnected, DbMove, Replaces, Fails
<1>5. CASE Terminate
  BY <1>5 DEF Terminate, DbMove, Closes
<1>6. CASE Sighup
  <2>1. CASE UNCHANGED <<phase, dbVars>>
    BY <2>1 DEF DbMove, Keeps, dbVars
  <2>2. CASE ReloadBegin(Connected)
    BY <1>6, <2>2, BeginMoves DEF Sighup
  <2> QED
    BY <1>6, <2>1, <2>2 DEF Sighup
<1>7. CASE Tick
  BY <1>7 DEF Tick, DbMove, Keeps, dbVars
<1>8. ASSUME NEW c \in Clients, Connect(c) \/ Disconnect(c) \/ Call(c)
      PROVE  DbMove
  <2>1. CASE Connect(c)
    BY <2>1 DEF Connect, DbMove, Keeps, dbVars
  <2>2. CASE Disconnect(c)
    <3>1. CASE reload_modules
      BY <2>2, <3>1, BeginMoves DEF Disconnect
    <3>2. CASE ~reload_modules
      BY <2>2, <3>2 DEF Disconnect, DbMove, Keeps, dbVars
    <3> QED
      BY <3>1, <3>2
  <2>3. CASE StartCall(c) \/ RestartCall(c)
    BY <2>3 DEF StartCall, RestartCall, QueueOrSend, Send, DbMove, Keeps, dbVars
  <2>4. CASE NextQuery(c)
    BY <2>4 DEF NextQuery, Send, DbMove, Keeps
  <2>5. CASE Answer(c)
    BY <2>5 DEF Answer, DbMove, Keeps, dbVars
  <2>6. CASE ReloadModules(c)
    BY <2>6, BeginMoves DEF ReloadModules, Replied
  <2>7. CASE ReloadConfig(c)
    <3>1. phase = "up" /\ phase' \in {"up", "exited"}
      BY <2>7 DEF ReloadConfig, Replied
    <3> QED
      BY <2>7, <3>1 DEF ReloadConfig, DbMove, Keeps, dbVars
  <2> QED
    BY <1>8, <2>1, <2>2, <2>3, <2>4, <2>5, <2>6, <2>7 DEF Call
<1> QED
  BY <1>1, <1>2, <1>3, <1>4, <1>5, <1>6, <1>7, <1>8 DEF Next

-----------------------------------------------------------------------------
(* The database objects.                                                   *)

\* The object that serves is among those counted.
LEMMA ServingIsCounted ==
  ASSUME TypeOK, DbInv, phase = "up"
  PROVE  /\ db \in Dbs /\ dbs[db] = "up"
         /\ db \in UsedDbs
         /\ IsFiniteSet(UsedDbs)
         /\ init_count > 0
<1>1. db \in Dbs /\ dbs[db] = "up"
  BY DEF DbInv, OneServingDb
<1>2. db \in UsedDbs
  BY <1>1 DEF UsedDbs, InUse
<1>3. IsFiniteSet(UsedDbs)
  BY ReloadAssumption, FS_Subset DEF UsedDbs
<1>4. Cardinality(UsedDbs) # 0
  BY <1>2, <1>3, FS_EmptySet
<1>5. init_count > 0
  BY <1>4 DEF DbInv, TypeOK
<1> QED
  BY <1>1, <1>2, <1>3, <1>5

\* uninit() takes the handlers along only with the last object.
LEMMA HandlersOutliveOne ==
  ASSUME init_count \in Nat, init_count > 0, handlers, UninitStatics
  PROVE  init_count' > 0 => handlers'
<1>1. init_count' > 0 => init_count # 1
  BY DEF UninitStatics
<1>2. init_count # 1 => handlers'
  BY Zenon DEF UninitStatics
<1> QED
  BY <1>1, <1>2

LEMMA DbStep ==
  ASSUME TypeOK, DbInv, DbMove
  PROVE  /\ DbInv'
         /\ init_count' \in Nat
         /\ dbs' \in [Dbs -> InUse \union {"none", "freed"}]
         /\ db' \in Dbs \union {NoDb}
<1> DEFINE Typed == /\ init_count' \in Nat
                    /\ dbs' \in [Dbs -> InUse \union {"none", "freed"}]
                    /\ db' \in Dbs \union {NoDb}
<1>t. /\ dbs \in [Dbs -> InUse \union {"none", "freed"}]
      /\ db \in Dbs \union {NoDb}
      /\ init_count \in Nat
      /\ handlers \in BOOLEAN
  BY DEF TypeOK
<1>f. IsFiniteSet(UsedDbs)
  BY ReloadAssumption, FS_Subset DEF UsedDbs
<1>1. CASE Keeps
  <2>1. UsedDbs' = UsedDbs
    BY <1>1 DEF Keeps, UsedDbs
  <2>2. Typed
    BY <1>1, <1>t DEF Keeps
  <2> QED
    BY <1>1, <2>1, <2>2 DEF Keeps, DbInv, OneServingDb
<1>2. CASE Closes
  <2>1. db \in Dbs /\ db \in UsedDbs /\ init_count > 0
    BY <1>2, ServingIsCounted DEF Closes
  <2>2. UsedDbs' = UsedDbs \ {db}
    BY <1>2, <1>t, <2>1 DEF Closes, UsedDbs, InUse
  <2>3. Cardinality(UsedDbs') = Cardinality(UsedDbs) - 1
    BY <1>f, <2>1, <2>2, FS_RemoveElement
  <2>4. Typed
    BY <1>2, <1>t, <2>1 DEF Closes, UninitStatics
  <2>5. init_count' = Cardinality(UsedDbs')
    BY <1>2, <2>3 DEF Closes, UninitStatics, DbInv
  <2>6. init_count' > 0 => handlers'
    BY <1>2, <1>t, <2>1, HandlersOutliveOne DEF Closes, DbInv
  <2> QED
    BY <1>2, <2>4, <2>5, <2>6 DEF Closes, DbInv, OneServingDb
<1>3. ASSUME NEW d \in Dbs, Fails(d)
      PROVE  DbInv' /\ Typed
  <2>1. UsedDbs' = UsedDbs
    BY <1>3, <1>t DEF Fails, UsedDbs, InUse
  <2>2. Typed
    BY <1>3, <1>t DEF Fails, InUse
  <2>3. \A e \in Dbs : dbs'[e] = "up" <=> dbs[e] = "up"
    BY <1>3, <1>t DEF Fails
  <2> QED
    BY <1>3, <2>1, <2>2, <2>3 DEF Fails, DbInv, OneServingDb
<1>4. ASSUME NEW d \in Dbs, Boots(d)
      PROVE  DbInv' /\ Typed
  <2>1. UsedDbs' = UsedDbs
    BY <1>4, <1>t DEF Boots, UsedDbs, InUse
  <2>2. Typed
    BY <1>4, <1>t DEF Boots, InUse
  <2>3. {e \in Dbs : dbs'[e] = "up"} = {d}
    BY <1>4, <1>t DEF Boots, DbInv
  <2> QED
    BY <1>4, <2>1, <2>2, <2>3 DEF Boots, DbInv, OneServingDb
<1>5. ASSUME NEW d \in Dbs, Replaces(d)
      PROVE  DbInv' /\ Typed
  <2>1. db \in Dbs /\ db \in UsedDbs /\ dbs[db] = "up" /\ init_count > 0
    BY <1>5, ServingIsCounted DEF Replaces
  <2>2. UsedDbs' = UsedDbs \ {db}
    BY <1>5, <1>t, <2>1 DEF Replaces, ReplaceDb, UsedDbs, InUse
  <2>3. Cardinality(UsedDbs') = Cardinality(UsedDbs) - 1
    BY <1>f, <2>1, <2>2, FS_RemoveElement
  <2>4. Typed
    BY <1>5, <1>t, <2>1 DEF Replaces, ReplaceDb, UninitStatics, InUse
  <2>5. init_count' = Cardinality(UsedDbs')
    BY <1>5, <2>3 DEF Replaces, ReplaceDb, UninitStatics, DbInv
  <2>6. init_count' > 0 => handlers'
    BY <1>5, <1>t, <2>1, HandlersOutliveOne DEF Replaces, ReplaceDb, DbInv
  <2>7. {e \in Dbs : dbs'[e] = "up"} = {d}
    BY <1>5, <1>t, <2>1 DEF Replaces, ReplaceDb, DbInv, OneServingDb
  <2> QED
    BY <1>5, <2>4, <2>5, <2>6, <2>7 DEF Replaces, ReplaceDb, DbInv, OneServingDb
<1>6. ASSUME NEW d \in Dbs, Opens(d)
      PROVE  DbInv' /\ Typed
  <2>1. d \notin UsedDbs /\ UsedDbs' = UsedDbs \union {d}
    BY <1>6, <1>t DEF Opens, DbInit, UsedDbs, InUse
  <2>2. Cardinality(UsedDbs') = Cardinality(UsedDbs) + 1
    BY <1>f, <2>1, FS_AddElement
  <2>3. Typed
    BY <1>6, <1>t DEF Opens, DbInit, InUse
  <2>4. init_count' = Cardinality(UsedDbs')
    BY <1>6, <2>2 DEF Opens, DbInit, DbInv
  <2>5. handlers'
    <3>1. handlers \/ init_count = 0
      BY <1>t DEF DbInv
    <3> QED
      BY Zenon, <1>6, <3>1 DEF Opens, DbInit
  <2>6. \A e \in Dbs : dbs'[e] = "up" <=> dbs[e] = "up"
    BY <1>6, <1>t DEF Opens, DbInit
  <2> QED
    BY <1>6, <2>3, <2>4, <2>5, <2>6 DEF Opens, DbInit, DbInv, OneServingDb
<1> QED
  BY <1>1, <1>2, <1>3, <1>4, <1>5, <1>6 DEF DbMove

-----------------------------------------------------------------------------
(* The queue and the flags.                                                *)

\* modules_reload_begin leaves the queue alone, and a reload that could start
\* has started.
LEMMA BeginFlags ==
  ASSUME TypeOK, phase = "up", QueueInv, NEW clients, ReloadBegin(clients)
  PROVE  /\ reload_modules' \in BOOLEAN
         /\ reloading_modules' \in BOOLEAN
         /\ reloading_modules => reloading_modules'
         /\ phase' \in {"up", "exited"}
         /\ phase' = "up" /\ reloading_modules' =>
              \E d \in Dbs : dbs'[d] = "connecting"
         /\ clients = {} /\ phase' = "up" /\ reload_modules' =>
              reloading_modules'
         /\ hashes' \in BOOLEAN
         /\ typeCbs' \subseteq Clients
<1>t. /\ dbs \in [Dbs -> InUse \union {"none", "freed"}]
      /\ reload_modules \in BOOLEAN
      /\ reloading_modules \in BOOLEAN
      /\ hashes \in BOOLEAN
      /\ typeCbs \subseteq Clients
  BY DEF TypeOK
<1>1. CASE clients # {}
  BY <1>1, <1>t DEF ReloadBegin, Defer, QueueInv, dbVars
<1>2. CASE clients = {}
  <2>1. BeginNow
    BY <1>2 DEF ReloadBegin
  <2>2. CASE /\ DbLoad
             /\ reload_modules' = TRUE
             /\ reloading_modules' = TRUE
             /\ UNCHANGED phase
    <3>1. PICK d \in Dbs : DbInit(d)
      BY <2>2 DEF DbLoad
    <3>2. dbs'[d] = "connecting"
      BY <3>1, <1>t DEF DbInit
    <3>3. hashes' \in BOOLEAN /\ typeCbs' = typeCbs
      BY <3>1 DEF DbInit
    <3> QED
      BY <2>2, <3>2, <3>3, <1>t
  <2>3. CASE reload_modules' = FALSE
             /\ UNCHANGED <<phase, dbVars, reloading_modules>>
    BY <2>3, <1>t DEF QueueInv, dbVars
  <2>4. CASE /\ phase' = "exited"
             /\ UninitStatics
             /\ reload_modules' = TRUE
             /\ UNCHANGED reloading_modules
    BY <2>4, <1>t DEF UninitStatics
  <2> QED
    BY <2>1, <2>2, <2>3, <2>4 DEF BeginNow
<1> QED
  BY <1>1, <1>2

\* The variables DbStep does not speak of.
RestTyped ==
  /\ phase \in {"start", "boot", "up", "exited"}
  /\ handlers \in BOOLEAN
  /\ hashes \in BOOLEAN
  /\ typeCbs \subseteq Clients
  /\ reload_modules \in BOOLEAN
  /\ reloading_modules \in BOOLEAN
  /\ waiting \subseteq Clients
  /\ recent \in BOOLEAN
  /\ pc \in [Clients -> {"absent", "idle", "queued", "resumed", "query"}]
  /\ query \in [Clients -> Dbs \union {NoDb}]
  /\ config \in Configs
  /\ zconf \in [Clients -> Configs \union {NoConfig}]
  /\ freedConfigs \subseteq Configs

LEMMA TypeParts ==
  TypeOK <=> /\ RestTyped
             /\ dbs \in [Dbs -> InUse \union {"none", "freed"}]
             /\ db \in Dbs \union {NoDb}
             /\ init_count \in Nat
  BY DEF TypeOK, RestTyped

LEMMA ConfStep ==
  ASSUME TypeOK, QueueInv, HasConf, [Next]_vars
  PROVE  HasConf'
<1>t. /\ pc \in [Clients -> {"absent", "idle", "queued", "resumed", "query"}]
      /\ zconf \in [Clients -> Configs \union {NoConfig}]
      /\ config \in Configs
  BY DEF TypeOK
<1>1. CASE UNCHANGED callVars
  BY <1>1 DEF callVars, HasConf
<1>2. ASSUME NEW d \in Dbs, ReloadConnected(d)
      PROVE  HasConf'
  BY <1>2, <1>t DEF ReloadConnected, ResumeWaiting, QueueInv, HasConf
<1>3. ASSUME NEW c \in Clients, Connect(c) \/ Disconnect(c)
      PROVE  HasConf'
  BY <1>3, <1>t DEF Connect, Disconnect, HasConf
<1>4. ASSUME NEW c \in Clients, Call(c)
      PROVE  HasConf'
  <2>1. CASE StartCall(c)
    BY <2>1, <1>t DEF StartCall, QueueOrSend, Send, HasConf
  <2>2. CASE RestartCall(c)
    BY <2>2, <1>t DEF RestartCall, QueueOrSend, Send, HasConf
  <2>3. CASE NextQuery(c)
    BY <2>3, <1>t DEF NextQuery, Replied, Send, HasConf
  <2>4. CASE Finish(c)
    BY <2>4, <1>t DEF Finish, HasConf
  <2> QED
    BY <1>4, <2>1, <2>2, <2>3, <2>4
       DEF Call, Answer, ReloadModules, ReloadConfig
<1> QED
  BY <1>1, <1>2, <1>3, <1>4
     DEF Next, vars, callVars, Start, BootConnected, Terminate, Sighup, Tick

LEMMA QueueStep ==
  ASSUME ReloadInv, [Next]_vars
  PROVE  RestTyped' /\ QueueInv'
<1> USE DEF ReloadInv
<1>t. RestTyped /\ DbInv /\ QueueInv /\ TypeOK
  BY TypeParts
<1>d. /\ dbs \in [Dbs -> InUse \union {"none", "freed"}]
      /\ db \in Dbs \union {NoDb}
  BY DEF TypeOK
<1>1. CASE UNCHANGED vars
  <2>1. RestTyped'
    BY <1>1, <1>t DEF vars, RestTyped
  <2> QED
    BY <1>1, <2>1, <1>t DEF vars, QueueInv, DeferredReloadStarts, Connected
<1>2. CASE Start
  <2>1. UNCHANGED <<reloadVars, recent, callVars, confVars>>
        /\ phase = "start" /\ phase' \in {"boot", "exited"}
        /\ hashes' \in BOOLEAN /\ handlers' \in BOOLEAN /\ typeCbs' = typeCbs
    BY <1>2, <1>t DEF Start, DbLoad, DbInit, dbVars, RestTyped
  <2>2. RestTyped'
    BY <2>1, <1>t DEF RestTyped, reloadVars, callVars, confVars
  <2> QED
    BY <2>1, <2>2, <1>t
       DEF QueueInv, DeferredReloadStarts, Connected, reloadVars, callVars
<1>3. ASSUME NEW d \in Dbs, BootConnected(d)
      PROVE  RestTyped' /\ QueueInv'
  <2>1. /\ UNCHANGED <<handlers, hashes, typeCbs, reloadVars, recent,
                       callVars, confVars>>
        /\ phase = "boot" /\ phase' \in {"up", "exited"}
    BY <1>3 DEF BootConnected
  <2>2. RestTyped'
    BY <2>1, <1>t DEF RestTyped, reloadVars, callVars, confVars
  <2> QED
    BY <2>1, <2>2, <1>t
       DEF QueueInv, DeferredReloadStarts, Connected, reloadVars, callVars
<1>4. ASSUME NEW d \in Dbs, ReloadConnected(d)
      PROVE  RestTyped' /\ QueueInv'
  <2>1. /\ phase = "up" /\ phase' = "up"
        /\ UNCHANGED <<recent, query, zconf, confVars>>
        /\ ResumeWaiting
        /\ hashes' \in BOOLEAN /\ handlers' \in BOOLEAN
        /\ typeCbs' \subseteq Clients
    BY <1>4, <1>t DEF ReloadConnected, ReplaceDb, UninitStatics, RestTyped
  <2>2. pc' \in [Clients ->
                   {"absent", "idle", "queued", "resumed", "query"}]
    BY <2>1, <1>t DEF ResumeWaiting, RestTyped
  <2>3. RestTyped'
    BY <2>1, <2>2, <1>t DEF RestTyped, ResumeWaiting, confVars
  <2>4. waiting' = {c \in Clients : pc'[c] = "queued"}
    BY <2>1, <1>t DEF ResumeWaiting, QueueInv
  <2> QED
    BY <2>1, <2>3, <2>4 DEF ResumeWaiting, QueueInv, DeferredReloadStarts
<1>5. CASE Terminate
  <2>1. /\ UNCHANGED <<reloadVars, recent, callVars, confVars>>
        /\ phase' = "exited"
        /\ hashes' \in BOOLEAN /\ handlers' \in BOOLEAN
        /\ typeCbs' \subseteq Clients
    BY <1>5, <1>t DEF Terminate, UninitStatics, RestTyped
  <2>2. RestTyped'
    BY <2>1, <1>t DEF RestTyped, reloadVars, callVars, confVars
  <2> QED
    BY <2>1, <2>2, <1>t
       DEF QueueInv, DeferredReloadStarts, reloadVars, callVars
<1>h. handlers' \in BOOLEAN
  <2>1. CASE UNCHANGED handlers
    BY <2>1, <1>t DEF RestTyped
  <2> QED
    BY StepMoves, <2>1
       DEF DbMove, Keeps, Closes, Fails, Boots, Replaces, ReplaceDb, Opens,
           DbInit, UninitStatics
<1>6. CASE Sighup
  <2>1. phase = "up" /\ recent' = TRUE /\ UNCHANGED <<waiting, callVars>>
    BY <1>6 DEF Sighup, reloadVars
  <2>2. CASE UNCHANGED <<phase, dbVars, reloadVars>>
             /\ config' \in Configs /\ freedConfigs' \subseteq Configs
    <3>1. RestTyped'
      BY <2>1, <2>2, <1>t DEF RestTyped, dbVars, reloadVars, callVars
    <3> QED
      BY <2>1, <2>2, <3>1, <1>t
         DEF QueueInv, DeferredReloadStarts, Connected, dbVars, reloadVars,
             callVars
  <2>3. CASE ReloadBegin(Connected) /\ UNCHANGED confVars
    <3>1. RestTyped'
      BY <2>1, <2>3, <1>t, <1>h, BeginFlags DEF RestTyped, callVars, confVars
    <3>2. Connected' = Connected
      BY <2>1 DEF Connected, callVars
    <3> QED
      BY <2>1, <2>3, <3>1, <3>2, <1>t, BeginFlags
         DEF QueueInv, DeferredReloadStarts, callVars
  <2>4. Reparsed(config, config') =>
          config' \in Configs /\ freedConfigs' \subseteq Configs
    BY <1>t DEF Reparsed, RestTyped
  <2>5. UNCHANGED confVars =>
          config' \in Configs /\ freedConfigs' \subseteq Configs
    BY <1>t DEF confVars, RestTyped
  <2> QED
    BY <1>6, <2>2, <2>3, <2>4, <2>5 DEF Sighup
<1>7. CASE Tick
  <2>1. RestTyped'
    BY <1>7, <1>t
       DEF Tick, RestTyped, dbVars, reloadVars, callVars, confVars
  <2> QED
    BY <1>7, <2>1, <1>t
       DEF Tick, QueueInv, DeferredReloadStarts, Connected, dbVars,
           reloadVars, callVars
<1>8. ASSUME NEW c \in Clients, Connect(c)
      PROVE  RestTyped' /\ QueueInv'
  <2>1. RestTyped'
    BY <1>8, <1>t DEF Connect, RestTyped, dbVars, reloadVars, confVars
  <2>2. /\ c \in Connected'
        /\ waiting' = {e \in Clients : pc'[e] = "queued"}
    BY <1>8, <1>t DEF Connect, RestTyped, QueueInv, Connected, reloadVars
  <2> QED
    BY <1>8, <2>1, <2>2, <1>t
       DEF Connect, QueueInv, DeferredReloadStarts, dbVars, reloadVars
<1>9. ASSUME NEW c \in Clients, Disconnect(c)
      PROVE  RestTyped' /\ QueueInv'
  <2>1. /\ Connected' = Connected \ {c}
        /\ waiting' = {e \in Clients : pc'[e] = "queued"}
    BY <1>9, <1>t DEF Disconnect, RestTyped, QueueInv, Connected
  <2>2. /\ phase = "up"
        /\ pc' \in [Clients ->
                      {"absent", "idle", "queued", "resumed", "query"}]
        /\ query' \in [Clients -> Dbs \union {NoDb}]
        /\ zconf' \in [Clients -> Configs \union {NoConfig}]
        /\ waiting' \subseteq waiting
        /\ UNCHANGED <<recent, confVars>>
    BY <1>9, <1>t DEF Disconnect, RestTyped
  <2>3. CASE reload_modules
    <3>1. ReloadBegin(Connected \ {c})
      BY <1>9, <2>3 DEF Disconnect
    <3>2. RestTyped'
      BY <2>2, <3>1, <1>t, <1>h, BeginFlags DEF RestTyped, confVars
    <3>3. waiting' # {} => reloading_modules'
      BY <2>2, <3>1, <1>t, BeginFlags DEF QueueInv
    <3> QED
      BY <2>1, <2>2, <3>1, <3>2, <3>3, <1>t, BeginFlags
         DEF QueueInv, DeferredReloadStarts
  <2>4. CASE ~reload_modules
    <3>1. UNCHANGED <<phase, dbVars, reload_modules, reloading_modules>>
      BY <1>9, <2>4 DEF Disconnect
    <3>2. RestTyped'
      BY <2>2, <3>1, <1>t DEF RestTyped, dbVars, confVars
    <3> QED
      BY <2>1, <2>2, <2>4, <3>1, <3>2, <1>t
         DEF QueueInv, DeferredReloadStarts, dbVars
  <2> QED
    BY <2>3, <2>4
<1>10. ASSUME NEW c \in Clients, StartCall(c) \/ RestartCall(c)
       PROVE  RestTyped' /\ QueueInv'
  <2>1. /\ phase = "up" /\ pc[c] \in {"idle", "resumed"} /\ QueueOrSend(c)
        /\ zconf' \in [Clients -> Configs \union {NoConfig}]
    BY <1>10, <1>t DEF StartCall, RestartCall, RestTyped
  <2>2. /\ UNCHANGED <<phase, reload_modules, reloading_modules, recent,
                       confVars, dbs, hashes>>
        /\ query' \in [Clients -> Dbs \union {NoDb}]
        /\ typeCbs' \subseteq Clients
        /\ waiting' \subseteq Clients
    BY <2>1, <1>t, <1>d DEF QueueOrSend, Send, RestTyped, dbVars
  <2>3. \/ /\ reloading_modules
           /\ pc' = [pc EXCEPT ![c] = "queued"]
           /\ waiting' = waiting \union {c}
        \/ /\ pc' = [pc EXCEPT ![c] = "query"]
           /\ waiting' = waiting
    BY <2>1 DEF QueueOrSend, Send
  <2>4. /\ waiting' = {e \in Clients : pc'[e] = "queued"}
        /\ waiting' # {} => reloading_modules
        /\ c \in Connected'
        /\ pc' \in [Clients ->
                      {"absent", "idle", "queued", "resumed", "query"}]
    BY <2>1, <2>3, <1>t DEF RestTyped, QueueInv, Connected
  <2>5. RestTyped'
    BY <2>1, <2>2, <2>4, <1>t, <1>h DEF RestTyped, confVars
  <2> QED
    BY <2>1, <2>2, <2>4, <2>5, <1>t DEF QueueInv, DeferredReloadStarts
<1>11. ASSUME NEW c \in Clients, NextQuery(c)
       PROVE  RestTyped' /\ QueueInv'
  <2>1. RestTyped'
    BY <1>11, <1>t, <1>d
       DEF NextQuery, Send, RestTyped, reloadVars, confVars
  <2>2. /\ waiting' = {e \in Clients : pc'[e] = "queued"}
        /\ c \in Connected'
    BY <1>11, <1>t
       DEF NextQuery, Send, Replied, RestTyped, QueueInv, Connected, reloadVars
  <2>3. /\ phase = "up"
        /\ UNCHANGED <<phase, dbs, reload_modules, reloading_modules, waiting>>
    BY <1>11 DEF NextQuery, Replied, Send, reloadVars
  <2> QED
    BY <2>1, <2>2, <2>3, <1>t DEF QueueInv, DeferredReloadStarts
<1>e. ASSUME NEW c \in Clients, Replied(c), Finish(c), UNCHANGED waiting
      PROVE  /\ phase = "up"
             /\ pc' \in [Clients ->
                           {"absent", "idle", "queued", "resumed", "query"}]
             /\ query' \in [Clients -> Dbs \union {NoDb}]
             /\ zconf' \in [Clients -> Configs \union {NoConfig}]
             /\ waiting' = {e \in Clients : pc'[e] = "queued"}
             /\ c \in Connected /\ c \in Connected'
  BY <1>e, <1>t DEF Replied, Finish, RestTyped, QueueInv, Connected
<1>12. ASSUME NEW c \in Clients, Answer(c)
       PROVE  RestTyped' /\ QueueInv'
  <2>1. /\ Replied(c) /\ Finish(c) /\ UNCHANGED waiting
        /\ UNCHANGED <<phase, dbVars, reloadVars, recent, confVars>>
    BY <1>12 DEF Answer, reloadVars
  <2>2. RestTyped'
    BY <2>1, <1>e, <1>t DEF RestTyped, dbVars, reloadVars, confVars
  <2> QED
    BY <2>1, <2>2, <1>e, <1>t
       DEF QueueInv, DeferredReloadStarts, dbVars, reloadVars
<1>13. ASSUME NEW c \in Clients, ReloadModules(c)
       PROVE  RestTyped' /\ QueueInv'
  <2>1. /\ Replied(c) /\ Finish(c) /\ UNCHANGED waiting
        /\ ReloadBegin(Connected)
        /\ UNCHANGED <<recent, confVars>>
    BY <1>13 DEF ReloadModules
  <2>2. RestTyped'
    BY <2>1, <1>e, <1>h, <1>t, BeginFlags DEF RestTyped, confVars
  <2> QED
    BY <2>1, <2>2, <1>e, <1>t, BeginFlags DEF QueueInv, DeferredReloadStarts
<1>14. ASSUME NEW c \in Clients, ReloadConfig(c)
       PROVE  RestTyped' /\ QueueInv'
  <2>1. /\ Replied(c) /\ Finish(c) /\ UNCHANGED waiting
        /\ UNCHANGED <<dbVars, reloadVars, recent, config>>
        /\ phase' \in {"up", "exited"}
    BY <1>14 DEF ReloadConfig, reloadVars
  <2>2. zconf[c] \in Configs
    BY <2>1 DEF HasConf, Replied
  <2>3. freedConfigs' \subseteq Configs
    BY <1>14, <2>2, <1>t DEF ReloadConfig, Reparsed, RestTyped
  <2>4. RestTyped'
    BY <2>1, <2>3, <1>e, <1>t DEF RestTyped, dbVars, reloadVars
  <2> QED
    BY <2>1, <2>4, <1>e, <1>t
       DEF QueueInv, DeferredReloadStarts, dbVars, reloadVars
<1> QED
  BY <1>1, <1>2, <1>3, <1>4, <1>5, <1>6, <1>7, <1>8, <1>9, <1>10, <1>11,
     <1>12, <1>13, <1>14 DEF Next, Call

-----------------------------------------------------------------------------
(* The theorems.                                                           *)

LEMMA ReloadInvHolds == Spec => []ReloadInv
<1>1. Init => ReloadInv
  <2> SUFFICES ASSUME Init
               PROVE  ReloadInv
    OBVIOUS
  <2>1. TypeOK
    BY DEF Init, TypeOK
  <2>2. UsedDbs = {}
    BY DEF Init, UsedDbs, InUse
  <2>3. DbInv
    BY <2>2, FS_EmptySet DEF Init, DbInv, OneServingDb
  <2>4. QueueInv
    BY DEF Init, QueueInv, DeferredReloadStarts, Connected
  <2>5. HasConf
    BY DEF Init, HasConf
  <2> QED
    BY <2>1, <2>3, <2>4, <2>5 DEF ReloadInv
<1>2. ReloadInv /\ [Next]_vars => ReloadInv'
  <2> SUFFICES ASSUME ReloadInv, [Next]_vars
               PROVE  ReloadInv'
    OBVIOUS
  <2>1. DbMove
    BY StepMoves
  <2>2. /\ DbInv'
        /\ init_count' \in Nat
        /\ dbs' \in [Dbs -> InUse \union {"none", "freed"}]
        /\ db' \in Dbs \union {NoDb}
    BY <2>1, DbStep DEF ReloadInv
  <2>3. RestTyped' /\ QueueInv'
    BY QueueStep
  <2>4. HasConf'
    BY ConfStep DEF ReloadInv
  <2>5. TypeOK'
    BY <2>2, <2>3 DEF TypeOK, RestTyped
  <2> QED
    BY <2>2, <2>3, <2>4, <2>5 DEF ReloadInv
<1> QED
  BY <1>1, <1>2, PTL DEF Spec

\* Every variable of Reload keeps its type, and init_count never goes below
\* zero (zrpcdb.c, uninit).
THEOREM ReloadTypeCorrect == Spec => []TypeOK
<1>1. ReloadInv => TypeOK
  BY DEF ReloadInv
<1> QED
  BY <1>1, ReloadInvHolds, PTL

\* However reloads overlap and fail, the server runs on exactly one connected
\* database object (modules_reload_handler).
THEOREM ServesOneDb == Spec => []OneServingDb
<1>1. ReloadInv => OneServingDb
  BY DEF ReloadInv, DbInv
<1> QED
  BY <1>1, ReloadInvHolds, PTL

\* No sequence of reloads removes the handlers of query results while the
\* server is up (zrpcdb.c, uninit).
THEOREM HandlersStay == Spec => []ResultsHaveAHandler
<1>1. ReloadInv => ResultsHaveAHandler
  BY ServingIsCounted DEF ReloadInv, DbInv, ResultsHaveAHandler
<1> QED
  BY <1>1, ReloadInvHolds, PTL

\* A call that PRE_CALL put on reload_modules_list is there until the handler
\* of a database object under way resumes it (servlets.h, server.c).
THEOREM QueuedCallsAreExpected == Spec => []QueuedCallsWaitForAReload
<1>1. ReloadInv => QueuedCallsWaitForAReload
  BY DEF ReloadInv, QueueInv, QueuedCallsWaitForAReload
<1> QED
  BY <1>1, ReloadInvHolds, PTL

\* A reload that was deferred has begun once no client is connected
\* (server_client_disc).
THEOREM NoReloadIsLost == Spec => []DeferredReloadStarts
<1>1. ReloadInv => DeferredReloadStarts
  BY DEF ReloadInv, QueueInv
<1> QED
  BY <1>1, ReloadInvHolds, PTL
=============================================================================
