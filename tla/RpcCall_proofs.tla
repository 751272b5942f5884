---------------------------- MODULE RpcCall_proofs ----------------------------
(***************************************************************************)
(* The engine that runs the methods: its state is what the code declares   *)
(* (EngineTypeOK), and no method brings the server down that is not listed *)
(* as doing so (ServerLives).                                              *)
(*                                                                         *)
(* Types: every step of the engine ends in an answer, in waiting, or in    *)
(* the death of the process, and each of the three settles the state       *)
(* (Settled).  Survival: while no reply of an earlier call has come to it, *)
(* a call waits for its own queries with its own callbacks (Sound), what   *)
(* they hand over is what the method counts on (Ready), and an entry so    *)
(* prepared neither dereferences NULL nor calls it (ReadyIsFine, from the  *)
(* lemmas of CallSteps_proofs on the methods); so each step spares the     *)
(* server (Spared).                                                        *)
(***************************************************************************)
EXTENDS CallSteps_proofs

\* The context, the queries in flight and ecore's queue, by their types.
Context ==
  [m : Remote \cup {"none"}, n : Int, e : Errors, fault : Errors,
   cbs : Seq(Callbacks), st : BOOLEAN, v : -1..2, o : BOOLEAN, late : BOOLEAN,
   many : BOOLEAN, bad : BOOLEAN, wrote : BOOLEAN]
Flights == Seq([q : Asks \ NotLoaded, old : BOOLEAN])
Events == Seq([k : {"result", "error"}, old : BOOLEAN])

\* No call is served: nothing is left of the last one but what comes too late.
Clear(c, qs, es) ==
  /\ c = Idle
  /\ \A i \in DOMAIN qs : qs[i].old
  /\ \A i \in DOMAIN es : es[i].old

EngineInv ==
  /\ ctx \in Context /\ out \in Flights /\ ev \in Events
  /\ calls \in 0..MaxCalls /\ failures \in 0..MaxFailures /\ up \in BOOLEAN
  /\ freed \in Nat
  /\ ~Busy => Clear(ctx, out, ev)

\* What every step leaves behind.
Settled ==
  /\ ctx' \in Context /\ out' \in Flights /\ ev' \in Events /\ up' \in BOOLEAN
  /\ ctx'.m = "none" => Clear(ctx', out', ev')

LEMMA NoMethodNone == "none" \notin Remote
BY DEF Remote, StorageAll, StorageMethods, StorageReads, StorageModuleReads, StorageRelationReads,
       NodesAndVmsReads, StorageDiskReads,
       NetworkAll, NetworkMethods, NetworkReads, DefineReads, NetworkModuleReads,
       NodesByNetworkReads, NetworkOtherReads,
       ConsoleAll, ConsoleMethods, PortReads, LockReads, SessionLockReads,
       NodeAll, NodeMethods, AttributeReads, StateReads, NodeListReads, RemoveReads, NodeOtherReads,
       VmAll, VmMethods, VmActions, VmUnimplemented, TopReads, PrivilegeReads, VmReads, VmRowReads, TemplateReads,
       AccountAll, AccountMethods, UserReads, UserByNameReads, UserListReads, GroupReads, GroupByNameReads,
       GroupListReads, PlatformReads, ModuleReads, SettingReads, DiskReads, NetIfReads, LogReads, ConfigWrites,
       JobAll, JobMethods, JobReads

LEMMA FreshIsContext == \A m \in Remote \cup {"none"} : Fresh(m) \in Context
<1>1. <<>> \in Seq(Callbacks) BY NoneOf
<1> QED BY <1>1 DEF Fresh, Context, Errors, OK

\* Sequences.
LEMMA Elements ==
  ASSUME NEW S, NEW s \in Seq(S)
  PROVE  DOMAIN s = 1..Len(s) /\ Len(s) \in Nat /\ \A i \in DOMAIN s : s[i] \in S
OBVIOUS

LEMMA AgedSequence ==
  ASSUME NEW S, NEW s \in Seq(S), \A x \in S : [x EXCEPT !.old = TRUE] \in S /\ "old" \in DOMAIN x
  PROVE  Aged(s) \in Seq(S) /\ \A i \in DOMAIN Aged(s) : Aged(s)[i].old
<1>1. DOMAIN s = 1..Len(s) /\ Len(s) \in Nat /\ \A i \in DOMAIN s : s[i] \in S
  BY Elements
<1>2. Aged(s) \in [1..Len(s) -> S] BY <1>1 DEF Aged
<1>3. Aged(s) \in Seq(S) BY <1>1, <1>2
<1>4. \A i \in DOMAIN s : Aged(s)[i] = [s[i] EXCEPT !.old = TRUE] BY DEF Aged
<1>5. \A i \in DOMAIN s : Aged(s)[i].old BY <1>1, <1>4
<1>6. DOMAIN Aged(s) = DOMAIN s BY DEF Aged
<1> QED BY <1>3, <1>5, <1>6

LEMMA AgedFlights ==
  \A qs \in Flights : Aged(qs) \in Flights /\ \A i \in DOMAIN Aged(qs) : Aged(qs)[i].old
<1>1. \A x \in [q : Asks \ NotLoaded, old : BOOLEAN] :
        [x EXCEPT !.old = TRUE] \in [q : Asks \ NotLoaded, old : BOOLEAN] /\ "old" \in DOMAIN x
  OBVIOUS
<1> QED BY <1>1, AgedSequence DEF Flights

LEMMA AgedEvents ==
  \A es \in Events : Aged(es) \in Events /\ \A i \in DOMAIN Aged(es) : Aged(es)[i].old
<1>1. \A x \in [k : {"result", "error"}, old : BOOLEAN] :
        [x EXCEPT !.old = TRUE] \in [k : {"result", "error"}, old : BOOLEAN] /\ "old" \in DOMAIN x
  OBVIOUS
<1> QED BY <1>1, AgedSequence DEF Events

LEMMA SentFlights ==
  ASSUME NEW qs \in Flights, NEW q \in Seq(Asks), \A i \in DOMAIN q : q[i] \notin NotLoaded
  PROVE  Sent(qs, q) \in Flights
<1> DEFINE new == [i \in DOMAIN q |-> [q |-> q[i], old |-> FALSE]]
<1>1. DOMAIN q = 1..Len(q) /\ Len(q) \in Nat /\ \A i \in 1..Len(q) : q[i] \in Asks \ NotLoaded
  OBVIOUS
<1>2. new \in [1..Len(q) -> [q : Asks \ NotLoaded, old : BOOLEAN]]
  BY <1>1
<1>3. new \in Seq([q : Asks \ NotLoaded, old : BOOLEAN])
  BY <1>1, <1>2
<1> HIDE DEF new
<1>4. qs \o new \in Flights BY <1>3 DEF Flights
<1> QED BY <1>4 DEF Sent, new

LEMMA WithoutFlights ==
  ASSUME out \in Flights, NEW i \in DOMAIN out
  PROVE  /\ Without(i) \in Flights
         /\ (\A j \in DOMAIN out : out[j].old) => \A j \in DOMAIN Without(i) : Without(i)[j].old
<1>1. DOMAIN out = 1..Len(out) /\ Len(out) \in Nat /\ i \in 1..Len(out) BY DEF Flights
<1>2. \A j \in 1..(Len(out) - 1) : (IF j < i THEN j ELSE j + 1) \in DOMAIN out
  BY <1>1
<1>3. \A j \in DOMAIN out : out[j] \in [q : Asks \ NotLoaded, old : BOOLEAN]
  BY Elements DEF Flights
<1>4. Without(i) \in [1..(Len(out) - 1) -> [q : Asks \ NotLoaded, old : BOOLEAN]]
  BY <1>2, <1>3 DEF Without
<1>5. Len(out) - 1 \in Nat BY <1>1
<1>6. Without(i) \in Flights BY <1>4, <1>5 DEF Flights
<1>7. ASSUME \A j \in DOMAIN out : out[j].old, NEW j \in DOMAIN Without(i)
      PROVE  Without(i)[j].old
  BY <1>7, <1>2 DEF Without
<1> QED BY <1>6, <1>7

\* The four ways to leave the engine.
LEMMA AnswersSettle ==
  ASSUME NEW c, NEW e, NEW qs \in Flights, NEW es \in Events, up \in BOOLEAN,
         Answers(c, e, qs, es)
  PROVE  Settled
<1>1. Idle \in Context BY FreshIsContext DEF Idle
<1> QED BY <1>1, AgedFlights, AgedEvents DEF Answers, Settled, Clear

LEMMA WaitsSettle ==
  ASSUME NEW c \in Context, NEW qs \in Flights, NEW es \in Events, up \in BOOLEAN,
         c.m = "none" => Clear(c, qs, es), Waits(c, qs, es)
  PROVE  Settled
BY DEF Waits, Settled

LEMMA DiesSettle ==
  ASSUME NEW c \in Context, NEW qs \in Flights, NEW es \in Events,
         c.m # "none", Dies(c, qs, es)
  PROVE  Settled
BY DEF Dies, Settled

LEMMA StepsTyped ==
  ASSUME NEW c \in Context, c.m \in Remote
  PROVE  Steps(c) \subseteq Typed \cup {Crash}
<1>1. c.n \in Int /\ c.v \in Int BY DEF Context
<1>2. StepOf(c.m, c.n, c.e, c.v, c.o) \subseteq Typed \cup {Crash} BY <1>1, MethodSteps
<1>3. StepOf(c.m, c.n, c.e, 1, c.o) \subseteq Typed \cup {Crash} BY <1>1, MethodSteps
<1> QED BY <1>2, <1>3 DEF Steps

LEMMA EnteredTyped ==
  ASSUME NEW c \in Context, NEW s, After(s, c.e) \in Errors,
         (IF s.count = NoCount THEN c.n ELSE s.count) \in Int,
         (IF After(s, c.e) = OK THEN c.cbs \o s.cb ELSE c.cbs) \in Seq(Callbacks)
  PROVE  Entered(c, s) \in Context
<1> DEFINE o == IF s.obj = Same THEN c.o ELSE s.obj = "object"
           st == c.st \/ \E i \in DOMAIN s.ask : SetsState(s.ask[i])
           n == IF s.count = NoCount THEN c.n ELSE s.count
           cbs == IF After(s, c.e) = OK THEN c.cbs \o s.cb ELSE c.cbs
<1>1. o \in BOOLEAN /\ st \in BOOLEAN BY DEF Context
<1>2. 0 \in -1..2 /\ n \in Int /\ cbs \in Seq(Callbacks) OBVIOUS
<1>3. Entered(c, s) = [c EXCEPT !.e = After(s, c.e), !.n = n, !.v = 0, !.o = o, !.cbs = cbs, !.st = st]
  BY DEF Entered
<1> HIDE DEF o, st, n, cbs
<1> QED BY <1>1, <1>2, <1>3 DEF Context

LEMMA EnterSettles ==
  ASSUME NEW c \in Context, c.m \in Remote, NEW qs \in Flights, NEW es \in Events, up \in BOOLEAN,
         Enter(c, qs, es)
  PROVE  Settled
<1> DEFINE c1(s) == Entered(c, s)
<1>1. PICK s \in Steps(c) :
        \/ Dies(c, qs, es)
        \/ ~(s.crash \/ ~Loaded(s)) /\ Answers(c1(s), Fault(c1(s)), Sent(qs, s.ask), es)
        \/ ~(s.crash \/ ~Loaded(s)) /\ Answers(c1(s), OK, Sent(qs, s.ask), es)
        \/ ~(s.crash \/ ~Loaded(s)) /\ Waits(c1(s), Sent(qs, s.ask), es)
  BY DEF Enter
<1>2. CASE Dies(c, qs, es) BY <1>2, DiesSettle, NoMethodNone
<1>3. CASE ~s.crash /\ Loaded(s)
  <2>1. s \in Typed BY <1>3, StepsTyped, Survives
  <2>2. Sent(qs, s.ask) \in Flights
    BY <2>1, <1>3, SentFlights DEF Typed, Shape, Loaded
  <2>3. c1(s) \in Context
    <3>1. s.cb \in Seq(Callbacks) /\ s.err \in Errors \cup {Same} /\ s.count \in Int
      BY <2>1 DEF Typed, Shape
    <3>2. c.cbs \o s.cb \in Seq(Callbacks) BY <3>1, Joined DEF Context
    <3>3. After(s, c.e) \in Errors BY <3>1 DEF Context, After
    <3>4. /\ (IF s.count = NoCount THEN c.n ELSE s.count) \in Int
          /\ (IF After(s, c.e) = OK THEN c.cbs \o s.cb ELSE c.cbs) \in Seq(Callbacks)
      BY <3>1, <3>2 DEF Context
    <3> QED BY <3>3, <3>4, EnteredTyped
  <2>4. c1(s).m # "none"
    <3>1. c1(s).m = c.m BY DEF Entered, Context
    <3> HIDE DEF c1
    <3> QED BY <3>1, NoMethodNone
  <2> HIDE DEF c1
  <2> QED BY <1>1, <1>3, <2>2, <2>3, <2>4, DiesSettle, AnswersSettle, WaitsSettle, NoMethodNone
<1> QED BY <1>1, <1>2, <1>3

LEMMA RewindsSettle ==
  ASSUME NEW c \in Context, c.m \in Remote, NEW v \in -1..2, NEW qs \in Flights,
         NEW es \in Events, up \in BOOLEAN, Rewinds(c, v, qs, es)
  PROVE  Settled
<1>1. c.n + 1 \in Int /\ [c EXCEPT !.n = c.n + 1, !.v = v] \in Context
  <2>1. c.n + 1 \in Int BY DEF Context
  <2> QED BY <2>1 DEF Context
<1>2. [c EXCEPT !.n = @ + 1, !.v = v].m = c.m BY DEF Context
<1> QED BY <1>1, <1>2, EnterSettles DEF Rewinds

\* What a callback may come to.
Clean(c) == [c EXCEPT !.e = OK]
Sends(c, q, k, qs, es) ==
  Waits([Clean(c) EXCEPT !.cbs = @ \o k, !.st = @ \/ SetsState(q)], Sent(qs, <<q>>), es)
SentBack == {"modifyUserGroup", "addUserGroup", "isNetIfByMAC", "getVMattribute", "getNODEattribute"}

LEMMA CallbackCases ==
  ASSUME NEW cb \in Callbacks \ {"null"}, NEW c, NEW v, NEW qs, NEW es, CallbackOf(cb, c, v, qs, es)
  PROVE  \/ \E w \in {0, v} : Rewinds(c, w, qs, es)
         \/ Rewinds([c EXCEPT !.fault = Fault(c)], 0, qs, es)
         \/ Rewinds(Clean(c), 0, qs, es)
         \/ \E e : Answers(c, e, qs, es)
         \/ Waits(c, qs, es)
         \/ Dies(c, qs, es)
         \/ \E q \in SentBack : \E k \in {<<>>, <<"generatemac">>, <<"jobs_resource">>} :
              Sends(c, q, k, qs, es)
<1>1. CASE cb \in {"rewind", "int_rewind", "value", "answer"}
  BY <1>1 DEF CallbackOf
<1>2. CASE cb \in {"job_node_addr", "job_node_addr_wild", "job_module", "job_module_of_none"}
  BY <1>2 DEF CallbackOf
<1>3. CASE cb \in {"net_target_host", "net_target_addr"}
  BY <1>3 DEF CallbackOf
<1>4. CASE cb \in {"user_name", "user_lang"}
  BY <1>4 DEF CallbackOf, Clean
<1>5. CASE cb \in {"group_modify", "group_add", "generatemac"}
  BY <1>5 DEF CallbackOf, Clean, Sends, SentBack
<1>6. CASE cb \in {"ptr_job", "ptr_int", "jobs_cb_add", "jobs_resource"}
  BY <1>6 DEF CallbackOf
<1>7. CASE cb = "jobs_cb_get"
  BY <1>7 DEF CallbackOf, Clean, Sends, SentBack
<1> QED BY <1>1, <1>2, <1>3, <1>4, <1>5, <1>6, <1>7 DEF Callbacks, Meek

LEMMA SentBackKnown == SentBack \subseteq Asks \ NotLoaded
BY AccountNamesKnown, VmNamesKnown, NodeNamesKnown
   DEF SentBack, AccountNames, VmNames, NodeNames, NotLoaded

LEMMA CallbackSettles ==
  ASSUME NEW cb \in Callbacks \ {"null"}, NEW c \in Context, c.m \in Remote, NEW v \in -1..2,
         NEW qs \in Flights, NEW es \in Events, up \in BOOLEAN, CallbackOf(cb, c, v, qs, es)
  PROVE  Settled
<1>1. CASE \E w \in {0, v} : Rewinds(c, w, qs, es)
  BY <1>1, RewindsSettle
<1>2. CASE Rewinds([c EXCEPT !.fault = Fault(c)], 0, qs, es)
  <2> DEFINE c1 == [c EXCEPT !.fault = Fault(c)]
  <2>1. c1 \in Context /\ c1.m = c.m
    BY DEF Context, Fault
  <2>2. Rewinds(c1, 0, qs, es) BY <1>2
  <2>3. 0 \in -1..2 OBVIOUS
  <2> HIDE DEF c1
  <2> QED BY <2>1, <2>2, <2>3, RewindsSettle
<1>3. Clean(c) \in Context /\ Clean(c).m = c.m BY DEF Context, Clean, Errors, OK
<1>4. CASE Rewinds(Clean(c), 0, qs, es) BY <1>3, <1>4, RewindsSettle
<1>5. CASE \E e : Answers(c, e, qs, es) BY <1>5, AnswersSettle
<1>6. CASE Waits(c, qs, es) \/ Dies(c, qs, es)
  BY <1>6, WaitsSettle, DiesSettle, NoMethodNone
<1>7. ASSUME NEW q \in SentBack, NEW k \in {<<>>, <<"generatemac">>, <<"jobs_resource">>},
             Sends(c, q, k, qs, es)
      PROVE  Settled
  <2>1. Sent(qs, <<q>>) \in Flights
    <3>1. q \in Asks \ NotLoaded BY SentBackKnown
    <3>2. <<q>> \in Seq(Asks) /\ \A i \in DOMAIN <<q>> : <<q>>[i] = q BY <3>1, OneOf
    <3> QED BY <3>1, <3>2, SentFlights
  <2>2. k \in Seq(Callbacks)
    <3>1. "generatemac" \in Callbacks /\ "jobs_resource" \in Callbacks BY DEF Callbacks, Meek
    <3> QED BY <3>1, OneOf, NoneOf
  <2> DEFINE c1 == [Clean(c) EXCEPT !.cbs = @ \o k, !.st = @ \/ SetsState(q)]
  <2>3. c1 \in Context
    <3>1. Clean(c).cbs \o k \in Seq(Callbacks) BY <1>3, <2>2, Joined DEF Context
    <3>2. (Clean(c).st \/ SetsState(q)) \in BOOLEAN OBVIOUS
    <3> QED BY <1>3, <3>1, <3>2 DEF Context
  <2>4. c1.m # "none" BY <1>3, NoMethodNone DEF Context
  <2>5. Waits(c1, Sent(qs, <<q>>), es) BY <1>7 DEF Sends
  <2> HIDE DEF c1
  <2> QED BY <2>1, <2>3, <2>4, <2>5, WaitsSettle
<1> QED BY <1>1, <1>2, <1>4, <1>5, <1>6, <1>7, CallbackCases

LEMMA DeliverSettles ==
  ASSUME NEW q, NEW c \in Context, c.m \in Remote, NEW v \in -1..2, NEW old \in BOOLEAN,
         NEW qs \in Flights, ev \in Events, up \in BOOLEAN, Deliver(q, c, v, old, qs)
  PROVE  Settled
<1>1. CASE c.cbs = <<>>
  <2>1. Append(ev, [k |-> "result", old |-> old]) \in Events BY DEF Events
  <2> QED BY <1>1, <2>1, WaitsSettle, NoMethodNone DEF Deliver
<1>2. CASE c.cbs # <<>>
  <2> DEFINE c1 == [c EXCEPT !.cbs = Tail(@)]
  <2>1. Head(c.cbs) \in Callbacks /\ Tail(c.cbs) \in Seq(Callbacks) BY <1>2 DEF Context
  <2>2. c1 \in Context /\ c1.m = c.m BY <2>1 DEF Context
  <2>3. \/ Head(c.cbs) # "null" /\ CallbackOf(Head(c.cbs), c1, v, qs, ev)
        \/ Dies(c1, qs, ev) \/ Waits(c1, qs, ev)
    BY <1>2 DEF Deliver
  <2> HIDE DEF c1
  <2> QED BY <2>1, <2>2, <2>3, CallbackSettles, WaitsSettle, DiesSettle, NoMethodNone
<1> QED BY <1>1, <1>2

LEMMA RaiseSettles ==
  ASSUME NEW c \in Context, NEW old \in BOOLEAN, NEW qs \in Flights, ev \in Events, up \in BOOLEAN,
         Raise(c, old, qs), c.m = "none" => Clear(c, qs, ev) /\ old
  PROVE  Settled
<1> DEFINE es == Append(ev, [k |-> "error", old |-> old])
<1>1. es \in Events BY DEF Events
<1>2. c.m = "none" => Clear(c, qs, es)
  <2>1. \A i \in DOMAIN es : es[i] = [k |-> "error", old |-> old] \/ (i \in DOMAIN ev /\ es[i] = ev[i])
    BY DEF Events
  <2> QED BY <2>1 DEF Clear
<1> HIDE DEF es
<1>3. Waits(c, qs, es) BY DEF Raise, es
<1> QED BY <1>1, <1>2, <1>3, WaitsSettle

\* Rows and values are few.
LEMMA RowsAreFew ==
  \A q, e : \A r \in Rows(q) : r \in 0..2 /\ ValueAfter(q, e, r) \in -1..2
<1>1. \A q : \A r \in Rows(q) : r \in 0..2
  <2>1. \A q : Rows(q) = {0} \/ Rows(q) = 0..1 \/ Rows(q) = 0..2
    <3> TAKE q
    <3>1. CASE q = "getNetworkOfNone" BY <3>1 DEF Rows
    <3>2. CASE q # "getNetworkOfNone" /\ q \in Shared BY <3>2 DEF Rows
    <3>3. CASE /\ q # "getNetworkOfNone" /\ q \notin Shared
               /\ q \in ByKey \/ Kind(q) \in Single \cup Writes \cup {"enabled"}
      BY <3>3 DEF Rows
    <3>4. CASE /\ q # "getNetworkOfNone" /\ q \notin Shared
               /\ ~(q \in ByKey \/ Kind(q) \in Single \cup Writes \cup {"enabled"})
      BY <3>4 DEF Rows
    <3> QED BY <3>1, <3>2, <3>3, <3>4
  <2> QED BY <2>1
<1>2. \A q, e : \A r \in 0..2 : ValueAfter(q, e, r) \in -1..2 BY DEF ValueAfter, Wild
<1> QED BY <1>1, <1>2

LEMMA ErrorsStay ==
  \A q, r : \A e \in Errors : ErrorAfter(q, e, r) \in Errors
BY DEF ErrorAfter, Errors, OK

LEMMA CallTyped == ASSUME EngineInv, Call PROVE EngineInv'
<1>1. PICK m \in Remote : Enter(Fresh(m), out, ev)
  BY RpcCallAssumption DEF Call
<1>2. Fresh(m) \in Context /\ Fresh(m).m = m BY FreshIsContext DEF Fresh
<1>3. Settled BY <1>1, <1>2, EnterSettles DEF EngineInv
<1>4. calls' \in 0..MaxCalls /\ failures' \in 0..MaxFailures /\ freed' \in Nat
  BY RpcCallAssumption DEF Call, EngineInv
<1> QED BY <1>3, <1>4 DEF EngineInv, Settled, Busy

LEMMA InFlight ==
  ASSUME EngineInv, NEW i \in DOMAIN out
  PROVE  /\ out[i].q \in Asks \ NotLoaded /\ out[i].old \in BOOLEAN
         /\ Without(i) \in Flights
         /\ ~Busy => out[i].old /\ Clear(ctx, Without(i), ev)
<1>1. out \in Flights /\ (~Busy => Clear(ctx, out, ev)) BY DEF EngineInv
<1>2. out[i] \in [q : Asks \ NotLoaded, old : BOOLEAN] BY <1>1, Elements DEF Flights
<1> QED BY <1>1, <1>2, WithoutFlights DEF Clear

LEMMA FailsSettles ==
  ASSUME EngineInv, up, NEW i \in DOMAIN out, QueryFails(i)
  PROVE  Settled /\ failures' \in 0..MaxFailures
<1>1. failures' \in 0..MaxFailures BY RpcCallAssumption DEF EngineInv, QueryFails
<1>2. CASE Busy
  <2> DEFINE c == [ctx EXCEPT !.e = "DB_QUERY", !.st = FALSE, !.bad = TRUE, !.late = @ \/ out[i].old]
  <2>1. c \in Context
    <3>1. (ctx.late \/ out[i].old) \in BOOLEAN /\ "DB_QUERY" \in Errors BY DEF Errors
    <3> QED BY <3>1 DEF EngineInv, Context
  <2>2. Raise(c, out[i].old, Without(i)) BY <1>2 DEF QueryFails
  <2>3. c.m # "none" BY <1>2 DEF Busy, EngineInv, Context
  <2> HIDE DEF c
  <2> QED BY <1>1, <2>1, <2>2, <2>3, InFlight, RaiseSettles DEF EngineInv
<1>3. CASE ~Busy
  <2>1. Raise(ctx, TRUE, Without(i)) BY <1>3 DEF QueryFails
  <2> QED BY <1>1, <1>3, <2>1, InFlight, RaiseSettles DEF EngineInv
<1> QED BY <1>2, <1>3

LEMMA ReturnsSettles ==
  ASSUME EngineInv, up, NEW i \in DOMAIN out, QueryReturns(i)
  PROVE  Settled /\ failures' \in 0..MaxFailures
<1> DEFINE q == out[i].q
           old == out[i].old
           c == [ctx EXCEPT !.late = @ \/ old, !.st = StateAfter(ctx)]
           c1(r) == [c EXCEPT !.e = ErrorAfter(q, @, r),
                              !.wrote = @ \/ (~old /\ Kind(q) \in Writes /\ r > 0)]
           cm == [c EXCEPT !.e = "DB_MULTI", !.st = TRUE, !.many = @ \/ Kind(q) \in Single]
           ce(e) == [c EXCEPT !.e = e]
           ct == [c EXCEPT !.st = TRUE]
<1>1. PICK r \in Rows(q) :
        \/ ~Busy /\ Waits(ctx, Without(i), Append(ev, [k |-> "result", old |-> TRUE]))
        \/ Busy /\ Raise(cm, old, Without(i))
        \/ Busy /\ \E e \in {"UNKNOWN_RESOURCE", "NODE_DISABLED", "NODE_UNCONFIGURED"} :
                     Raise(ce(e), old, Without(i))
        \/ Busy /\ Deliver(q, ct, Wild, old, Without(i))
        \/ Busy /\ Deliver(q, c1(r), ValueAfter(q, c1(r).e, r), old, Without(i))
  BY DEF QueryReturns
<1>2. failures' \in 0..MaxFailures BY DEF QueryReturns, EngineInv
<1>3. /\ q \in Asks \ NotLoaded /\ old \in BOOLEAN /\ Without(i) \in Flights
      /\ ~Busy => old /\ Clear(ctx, Without(i), ev)
  BY InFlight
<1>4. CASE ~Busy
  <2> DEFINE es == Append(ev, [k |-> "result", old |-> TRUE])
  <2>1. es \in Events BY DEF EngineInv, Events
  <2>2. \A j \in DOMAIN es : es[j] = [k |-> "result", old |-> TRUE] \/ (j \in DOMAIN ev /\ es[j] = ev[j])
    BY DEF EngineInv, Events
  <2>3. Clear(ctx, Without(i), es) BY <1>3, <1>4, <2>2 DEF Clear
  <2>4. Waits(ctx, Without(i), es) BY <1>1, <1>4
  <2> HIDE DEF es
  <2> QED BY <1>2, <1>3, <2>1, <2>3, <2>4, WaitsSettle DEF EngineInv
<1>5. CASE Busy
  <2>0. ctx \in Context /\ ctx.m \in Remote BY <1>5 DEF EngineInv, Context, Busy
  <2>1. c \in Context /\ c.m = ctx.m
    <3>1. (ctx.late \/ old) \in BOOLEAN /\ StateAfter(ctx) \in BOOLEAN BY DEF StateAfter
    <3> HIDE DEF old
    <3> QED BY <3>1, <2>0 DEF Context
  <2> HIDE DEF c, q, old
  <2>2. \A e \in Errors : ce(e) \in Context /\ ce(e).m = c.m BY <2>1 DEF Context
  <2>3. ct \in Context /\ ct.m = c.m BY <2>1 DEF Context
  <2>4. cm \in Context /\ cm.m = c.m
    <3>1. (c.many \/ Kind(q) \in Single) \in BOOLEAN /\ "DB_MULTI" \in Errors BY DEF Errors
    <3> QED BY <3>1, <2>1 DEF Context
  <2>5. c1(r) \in Context /\ c1(r).m = c.m
    <3>1. (c.wrote \/ (~old /\ Kind(q) \in Writes /\ r > 0)) \in BOOLEAN OBVIOUS
    <3>2. ErrorAfter(q, c.e, r) \in Errors BY <2>1, ErrorsStay DEF Context
    <3> QED BY <3>1, <3>2, <2>1 DEF Context
  <2>6. Wild \in -1..2 /\ ValueAfter(q, c1(r).e, r) \in -1..2 BY RowsAreFew DEF Wild
  <2>7. {"UNKNOWN_RESOURCE", "NODE_DISABLED", "NODE_UNCONFIGURED"} \subseteq Errors BY DEF Errors
  <2>8. ctx.m # "none" BY <1>5 DEF Busy
  <2>9. ev \in Events BY DEF EngineInv
  <2> HIDE DEF c1, cm, ce, ct
  <2>10. CASE Raise(cm, old, Without(i))
    BY <2>10, <2>4, <2>1, <2>8, <2>9, <1>2, <1>3, RaiseSettles
  <2>11. CASE \E e \in {"UNKNOWN_RESOURCE", "NODE_DISABLED", "NODE_UNCONFIGURED"} : Raise(ce(e), old, Without(i))
    BY <2>11, <2>2, <2>7, <2>1, <2>8, <2>9, <1>2, <1>3, RaiseSettles
  <2>12. CASE Deliver(q, ct, Wild, old, Without(i))
    BY <2>12, <2>3, <2>6, <2>0, <2>1, <2>9, <1>2, <1>3, DeliverSettles
  <2>13. CASE Deliver(q, c1(r), ValueAfter(q, c1(r).e, r), old, Without(i))
    BY <2>13, <2>5, <2>6, <2>0, <2>1, <2>9, <1>2, <1>3, DeliverSettles
  <2> QED BY <1>1, <1>5, <2>10, <2>11, <2>12, <2>13
<1> QED BY <1>4, <1>5

LEMMA KidsSettle ==
  ASSUME EngineInv, up, NEW i \in DOMAIN out, KidReturns(i) \/ KidLost(i)
  PROVE  Settled /\ failures' \in 0..MaxFailures
<1>1. failures' \in 0..MaxFailures
  <2>1. failures' = failures \/ (failures < MaxFailures /\ failures' = failures + 1)
    <3>1. KidReturns(i) => failures' = failures BY DEF KidReturns
    <3>2. KidLost(i) => failures' = failures \/ (failures < MaxFailures /\ failures' = failures + 1)
      BY DEF KidLost
    <3> QED BY <3>1, <3>2
  <2> QED BY <2>1, RpcCallAssumption DEF EngineInv
<1>2. CASE Waits(ctx, Without(i), ev)
  BY <1>1, <1>2, InFlight, WaitsSettle DEF EngineInv, Busy
<1>3. CASE Busy /\ KidReturns(i)
  <2> DEFINE c(e) == [ctx EXCEPT !.n = @ - 1, !.e = e, !.late = @ \/ out[i].old]
  <2>1. PICK e \in KidError(out[i].q, ctx.e) :
          Enter(c(e), Without(i), ev) \/ Waits(c(e), Without(i), ev)
    BY <1>3 DEF KidReturns
  <2>2. e \in Errors BY DEF KidError, Errors, OK, EngineInv, Context
  <2>3. c(e) \in Context /\ c(e).m = ctx.m
    <3>1. (ctx.late \/ out[i].old) \in BOOLEAN OBVIOUS
    <3>2. ctx \in Context /\ ctx.n - 1 \in Int BY DEF EngineInv, Context
    <3> QED BY <2>2, <3>1, <3>2 DEF Context
  <2>4. ctx.m \in Remote /\ ctx.m # "none" BY <1>3 DEF EngineInv, Context, Busy
  <2> HIDE DEF c
  <2> QED BY <1>1, <2>1, <2>3, <2>4, InFlight, EnterSettles, WaitsSettle DEF EngineInv
<1> QED BY <1>2, <1>3 DEF KidReturns, KidLost

LEMMA ReplyTyped == ASSUME EngineInv, Reply PROVE EngineInv'
<1>1. PICK i \in DOMAIN out : QueryFails(i) \/ QueryReturns(i) \/ KidReturns(i) \/ KidLost(i)
  BY DEF Reply
<1>2. up /\ calls' = calls BY DEF Reply
<1>3. Settled /\ failures' \in 0..MaxFailures
  BY <1>1, <1>2, FailsSettles, ReturnsSettles, KidsSettle
<1>4. freed' \in {freed, freed + 1}
  BY <1>1 DEF QueryFails, QueryReturns, KidReturns, KidLost
<1> QED BY <1>2, <1>3, <1>4 DEF EngineInv, Settled, Busy

LEMMA HandleEventTyped == ASSUME EngineInv, HandleEvent PROVE EngineInv'
<1> DEFINE c == [ctx EXCEPT !.late = @ \/ Head(ev).old]
<1>1. /\ Tail(ev) \in Events
      /\ \A i \in DOMAIN Tail(ev) : i + 1 \in DOMAIN ev /\ Tail(ev)[i] = ev[i + 1]
  <2>1. ev # <<>> /\ ev \in Seq([k : {"result", "error"}, old : BOOLEAN])
    BY DEF HandleEvent, EngineInv, Events
  <2>2. \A S : \A s \in Seq(S) : s # <<>> =>
          Tail(s) \in Seq(S) /\ \A i \in DOMAIN Tail(s) : i + 1 \in DOMAIN s /\ Tail(s)[i] = s[i + 1]
    OBVIOUS
  <2> QED BY <2>1, <2>2 DEF Events
<1>2. \/ ~Busy /\ Waits(ctx, out, Tail(ev))
      \/ \E e : Answers(c, e, out, Tail(ev))
  BY DEF HandleEvent
<1>3. Settled
  <2>1. CASE ~Busy /\ Waits(ctx, out, Tail(ev))
    <3>1. Clear(ctx, out, Tail(ev)) BY <1>1, <2>1 DEF EngineInv, Clear
    <3> QED BY <1>1, <2>1, <3>1, WaitsSettle DEF EngineInv
  <2>2. CASE \E e : Answers(c, e, out, Tail(ev))
    BY <1>1, <2>2, AnswersSettle DEF EngineInv
  <2> QED BY <1>2, <2>1, <2>2
<1> QED BY <1>3 DEF EngineInv, Settled, Busy, HandleEvent

LEMMA FreedIsKnown ==
  /\ "detachDiskFromStorage" \in Remote \cap Crashes
  /\ "detachDiskFromStorage" # "none"
BY DEF Remote, StorageAll, StorageMethods, StorageRelationReads, Internal, Crashes

LEMMA FreedTyped == ASSUME EngineInv, LateAddJob \/ UseAfterFree PROVE EngineInv'
<1>1. CASE LateAddJob BY <1>1 DEF LateAddJob, EngineInv, Busy, Clear
<1>2. CASE UseAfterFree
  <2> DEFINE c == Fresh("detachDiskFromStorage")
  <2>1. c \in Context /\ c.m # "none" BY FreedIsKnown, FreshIsContext DEF Fresh
  <2>2. <<>> \in Flights /\ <<>> \in Events BY NoneOf DEF Flights, Events
  <2> HIDE DEF c
  <2>3. Dies(c, <<>>, <<>>) BY <1>2 DEF UseAfterFree, c
  <2> QED BY <1>2, <2>1, <2>2, <2>3 DEF UseAfterFree, Dies, EngineInv, Busy
<1> QED BY <1>1, <1>2

LEMMA EngineTyped == Spec => []EngineInv
<1>1. Init => EngineInv
  <2>1. Idle \in Context BY FreshIsContext DEF Idle
  <2>2. <<>> \in Flights /\ <<>> \in Events BY NoneOf DEF Flights, Events
  <2> QED BY <2>1, <2>2, RpcCallAssumption DEF Init, EngineInv, Clear
<1>2. EngineInv /\ [Next]_vars => EngineInv'
  BY CallTyped, ReplyTyped, HandleEventTyped, FreedTyped
     DEF Next, vars, EngineInv, Busy, Clear
<1> QED BY <1>1, <1>2, PTL DEF Spec

\* The engine's state is what the code declares it to be, and between two calls
\* POST has left nothing but what belongs to an earlier call.
THEOREM EngineTypeOK == Spec => []TypeOK
<1>1. EngineInv => TypeOK
  <2>1. ASSUME EngineInv PROVE \A i \in DOMAIN out : out[i].q \in Queries \cup Kids \cup {"getNetworkOfNone"}
    BY <2>1, InFlight DEF Asks
  <2>2. ASSUME EngineInv PROVE \A i \in DOMAIN ev : ev[i].k \in {"result", "error"}
    <3>1. ev \in Events BY <2>2 DEF EngineInv
    <3>2. \A i \in DOMAIN ev : ev[i] \in [k : {"result", "error"}, old : BOOLEAN]
      BY <3>1, Elements DEF Events
    <3> QED BY <3>2
  <2> QED BY <2>1, <2>2 DEF EngineInv, TypeOK, Context, Clear
<1> QED BY <1>1, EngineTyped, PTL

-----------------------------------------------------------------------------
(* Why no other method dies: as long as no reply of an earlier call has come *)
(* (late), the callbacks of the context are those that the method pushed,    *)
(* and its own queries alone are answered to them.                           *)

\* The queries of the call itself.
New(qs) == {i \in DOMAIN qs : ~qs[i].old}
NoKids(qs) == \A i \in New(qs) : qs[i].q \notin Kids
WaitsAt(c, qs, t) ==
  /\ c.m = t.m /\ c.n = t.n /\ c.cbs = <<t.cb>>
  /\ \A i \in New(qs) : qs[i].q = t.q
  /\ \A i, j \in New(qs) : i = j
Waiting(c, qs) == \E t \in Stages : WaitsAt(c, qs, t)

Apart == Staged \ {"connectGraphicalConsole"}

\* A context in which a call of its own waits.
Sound(c, qs) ==
  /\ c.m \in Readers => c.cbs = <<>> \/ Waiting(c, qs)
  /\ c.m \in Chains => NoKids(qs) /\ (c.cbs = <<>> \/ Waiting(c, qs))
  /\ c.m \in Setters => c.n >= 0 /\ NoKids(qs) /\ (c.cbs \in Seq(Meek) \/ Waiting(c, qs))
  /\ c.m = "setConfigs" => c.cbs \in Seq({"null"}) /\ \A i \in New(qs) : qs[i].q = "setConfig"
  /\ c.m = "addVmToNode" => c.cbs \in Seq({"value"})
  /\ c.m = "addNetIf" => c.n <= 1 /\ c.cbs \in Seq({"rewind"})
  /\ c.m \notin Apart => c.cbs \in Seq(Meek)

\* The counts at which a chain is entered.
Reaches(m) ==
  IF m = "modifyDiskByStorage" THEN 0..1
  ELSE IF m = "detachAllNodesByNetwork" THEN 0..3 ELSE 0..2

\* A context with which the method may be entered.
Ready(c, qs) ==
  /\ c.m \in Readers => c.cbs = <<>> /\ c.v \in Nat /\ (c.n = 0 => New(qs) = {})
  /\ c.m \in Chains => /\ c.cbs = <<>> /\ c.v \in Nat /\ New(qs) = {} /\ c.n \in Reaches(c.m)
                       /\ c.m = "modifyNetIf" /\ c.n = 2 => c.v = 0
  /\ c.m \in Setters => /\ c.cbs \in Seq(Meek) /\ c.v \in Nat /\ NoKids(qs) /\ c.n >= 0
                        /\ c.n = 0 => c.cbs = <<>> /\ New(qs) = {}
  /\ c.m = "setConfigs" => /\ c.cbs \in Seq({"null"}) /\ c.v = 0
                           /\ \A i \in New(qs) : qs[i].q = "setConfig"
  /\ c.m = "addVmToNode" => c.cbs \in Seq({"value"})
  /\ c.m = "addNetIf" => c.cbs \in Seq({"rewind"}) /\ c.v = 0 /\ c.n <= 2
  /\ c.m \notin Apart => c.cbs \in Seq(Meek) /\ c.v = 0

LEMMA ClassesApart ==
  /\ Readers \cap Chains = {} /\ Readers \cap Setters = {} /\ Chains \cap Setters = {}
  /\ "setConfigs" \notin Readers \cup Chains \cup Setters
  /\ "addVmToNode" \notin Readers \cup Chains \cup Setters
  /\ "addNetIf" \notin Readers \cup Chains \cup Setters
  /\ Apart = Readers \cup Chains \cup Setters \cup {"setConfigs", "addVmToNode", "addNetIf"}
BY DEF Readers, Chains, Setters, Apart, Staged

LEMMA EnteredFields ==
  ASSUME NEW c \in Context, NEW s, After(s, c.e) = OK
  PROVE  /\ Entered(c, s).m = c.m /\ Entered(c, s).v = 0 /\ Entered(c, s).late = c.late
         /\ Entered(c, s).n = IF s.count = NoCount THEN c.n ELSE s.count
         /\ Entered(c, s).cbs = c.cbs \o s.cb
BY DEF Entered, Context

LEMMA NewSent ==
  ASSUME NEW qs \in Flights, NEW q \in Seq(Asks), NEW i \in New(Sent(qs, q))
  PROVE  \/ i \in New(qs) /\ Sent(qs, q)[i] = qs[i]
         \/ \E j \in DOMAIN q : i = Len(qs) + j /\ Sent(qs, q)[i].q = q[j]
<1> DEFINE new == [j \in DOMAIN q |-> [q |-> q[j], old |-> FALSE]]
           R == [q : Asks, old : BOOLEAN]
<1>1. DOMAIN q = 1..Len(q) /\ Len(q) \in Nat /\ \A j \in DOMAIN q : q[j] \in Asks
  BY Elements
<1>2. new \in Seq(R)
  <2>1. new \in [1..Len(q) -> R] BY <1>1
  <2> QED BY <1>1, <2>1
<1>3. qs \in Seq(R)
  <2>1. [q : Asks \ NotLoaded, old : BOOLEAN] \subseteq R OBVIOUS
  <2>2. \A S, T : S \subseteq T => Seq(S) \subseteq Seq(T) OBVIOUS
  <2> HIDE DEF R
  <2>3. Flights \subseteq Seq(R) BY <2>1, <2>2 DEF Flights
  <2> QED BY <2>3
<1>4. \A j \in DOMAIN q : new[j].q = q[j] OBVIOUS
<1>5. Len(new) = Len(q) /\ DOMAIN new = 1..Len(q) BY <1>1, <1>2
<1>6. Sent(qs, q) = qs \o new BY DEF Sent
<1> HIDE DEF new, R
<1>7. /\ DOMAIN (qs \o new) = 1..(Len(qs) + Len(new)) /\ Len(qs) \in Nat /\ DOMAIN qs = 1..Len(qs)
      /\ \A k \in 1..Len(qs) : (qs \o new)[k] = qs[k]
      /\ \A k \in (Len(qs) + 1)..(Len(qs) + Len(new)) : (qs \o new)[k] = new[k - Len(qs)]
  BY <1>2, <1>3
<1>8. CASE i \in 1..Len(qs) BY <1>6, <1>7, <1>8 DEF New
<1>9. CASE i \notin 1..Len(qs)
  <2>1. i \in (Len(qs) + 1)..(Len(qs) + Len(q)) BY <1>5, <1>6, <1>7, <1>9 DEF New
  <2>2. i - Len(qs) \in DOMAIN q /\ i = Len(qs) + (i - Len(qs)) BY <1>1, <1>7, <2>1
  <2>3. Sent(qs, q)[i].q = q[i - Len(qs)] BY <1>4, <1>5, <1>6, <1>7, <2>1, <2>2
  <2> QED BY <2>2, <2>3
<1> QED BY <1>8, <1>9

\* What an entry sends is of the queries it asks for.
LEMMA NewAsked ==
  ASSUME NEW qs \in Flights, NEW A, A \subseteq Asks, NEW q \in Seq(A), NEW P,
         \A i \in New(qs) : qs[i].q \in P, A \subseteq P
  PROVE  \A i \in New(Sent(qs, q)) : Sent(qs, q)[i].q \in P
<1>1. q \in Seq(Asks) /\ \A j \in DOMAIN q : q[j] \in A
  <2>1. Seq(A) \subseteq Seq(Asks) OBVIOUS
  <2> QED BY <2>1, Elements
<1> QED BY <1>1, NewSent

LEMMA LoadedShape ==
  ASSUME NEW A, A \subseteq Asks \ NotLoaded, NEW C, C \subseteq Callbacks, NEW s \in Shape(A, C)
  PROVE  s \in Typed /\ Loaded(s)
<1>1. s \in Typed
  <2>1. A \subseteq Asks OBVIOUS
  <2> QED BY <2>1, LargerShape DEF Typed
<1>2. s.ask \in Seq(A) BY DEF Shape
<1>3. \A i \in DOMAIN s.ask : s.ask[i] \in A BY <1>2, Elements
<1> QED BY <1>1, <1>3 DEF Loaded

\* The first query of a call, and the only one.
LEMMA LeadingWaits ==
  ASSUME NEW c \in Context, NEW qs \in Flights, NEW A, A \subseteq Asks \ NotLoaded,
         NEW C, C \subseteq Callbacks,
         NEW s \in Leading(c.m, c.n, c.e, A, C), After(s, c.e) = OK,
         c.cbs = <<>>, New(qs) = {}
  PROVE  Entered(c, s).cbs \in Seq(C) \/ Waiting(Entered(c, s), Sent(qs, s.ask))
<1>1. s \in Shape(A, Callbacks) BY DEF Leading
<1>2. s.cb \in Seq(Callbacks) /\ s.ask \in Seq(A) BY <1>1 DEF Shape
<1>3. Entered(c, s).cbs = s.cb
  <2>1. <<>> \o s.cb = s.cb BY <1>2
  <2> QED BY <2>1, EnteredFields
<1>4. CASE s.cb \in Seq(C) BY <1>3, <1>4
<1>5. ASSUME NEW t \in Stages, t.m = c.m, t.n = (IF s.count = NoCount THEN c.n ELSE s.count),
             s.ask = <<t.q>>, s.cb = <<t.cb>>
      PROVE  WaitsAt(Entered(c, s), Sent(qs, s.ask), t)
  <2>1. s.ask \in Seq(Asks)
    <3>1. Seq(A) \subseteq Seq(Asks) OBVIOUS
    <3> QED BY <3>1, <1>2
  <2>2. DOMAIN s.ask = {1} /\ s.ask[1] = t.q BY <1>5
  <2>3. \A i \in New(Sent(qs, s.ask)) : i = Len(qs) + 1 /\ Sent(qs, s.ask)[i].q = t.q
    BY <2>1, <2>2, NewSent
  <2>4. Entered(c, s).m = t.m /\ Entered(c, s).n = t.n BY <1>5, EnteredFields
  <2> QED BY <2>3, <2>4, <1>3, <1>5 DEF WaitsAt
<1> QED BY <1>4, <1>5 DEF Leading, Waiting

\* One entry, class by class: it survives, and what it leaves is sound.
Fine(c, qs, s) ==
  /\ s \in Typed /\ Loaded(s)
  /\ After(s, c.e) = OK => Sound(Entered(c, s), Sent(qs, s.ask))

LEMMA PlainReady ==
  ASSUME NEW c \in Context, c.m \in Remote \ Crashes, NEW qs \in Flights, Ready(c, qs),
         c.m \notin Apart, NEW s \in Steps(c)
  PROVE  Fine(c, qs, s)
<1>1. c.cbs \in Seq(Meek) /\ c.v = 0 /\ c.n \in Int BY DEF Ready, Context
<1>2. s \in StepOf(c.m, c.n, c.e, 0, c.o) BY <1>1 DEF Steps, Wild
<1>3. Meek \subseteq Callbacks BY DEF Callbacks
<1>4. s \in Typed /\ Loaded(s) /\ (After(s, c.e) = OK => s.cb \in Seq(Meek))
  <2>1. CASE c.m # "connectGraphicalConsole"
    <3>1. c.m \notin Excepted BY <2>1 DEF Excepted, Apart, Remote
    <3>2. s \in Plain BY <1>1, <1>2, <3>1, MethodSteps
    <3> QED BY <3>2, <1>3, LoadedShape DEF Plain, Shape
  <2>2. CASE c.m = "connectGraphicalConsole"
    <3>1. s \in Leading("connectGraphicalConsole", c.n, c.e, Asks \ NotLoaded, Meek)
      BY <1>2, <2>2, ConnectSteps
    <3>2. s \in Shape(Asks \ NotLoaded, Callbacks) BY <3>1 DEF Leading
    <3>3. \A t \in Stages : t.m # "connectGraphicalConsole"
      BY StagesByClass DEF Readers, Chains, Setters
    <3> QED BY <3>1, <3>2, <3>3, LoadedShape DEF Leading
  <2> QED BY <2>1, <2>2
<1>5. ASSUME After(s, c.e) = OK PROVE Sound(Entered(c, s), Sent(qs, s.ask))
  <2>1. Entered(c, s).m = c.m /\ Entered(c, s).cbs = c.cbs \o s.cb BY <1>5, EnteredFields
  <2>2. c.cbs \o s.cb \in Seq(Meek) BY <1>1, <1>4, <1>5, Joined
  <2> QED BY <2>1, <2>2, ClassesApart DEF Sound
<1> QED BY <1>4, <1>5 DEF Fine

LEMMA ReaderReady ==
  ASSUME NEW c \in Context, c.m \in Readers, NEW qs \in Flights, Ready(c, qs), NEW s \in Steps(c)
  PROVE  Fine(c, qs, s)
<1>1. c.cbs = <<>> /\ c.v \in Nat /\ (c.n = 0 => New(qs) = {}) /\ c.n \in Int BY DEF Ready, Context
<1>2. s \in StepOf(c.m, c.n, c.e, c.v, c.o) BY <1>1 DEF Steps, Wild
<1>3. c.m \notin {"setConfigs", "addVmToNode", "addNetIf"} /\ c.m \in Apart
      /\ c.m \notin Chains /\ c.m \notin Setters
  BY ClassesApart
<1>4. CASE c.n = 0
  <2>1. s \in Leading(c.m, c.n, c.e, Asks \ NotLoaded, {}) BY <1>1, <1>2, <1>4, ReaderSteps
  <2>2. s \in Typed /\ Loaded(s) BY <2>1, LoadedShape DEF Leading
  <2>3. ASSUME After(s, c.e) = OK PROVE Sound(Entered(c, s), Sent(qs, s.ask))
    <3>1. Entered(c, s).cbs \in Seq({}) \/ Waiting(Entered(c, s), Sent(qs, s.ask))
      BY <1>1, <1>4, <2>1, <2>3, LeadingWaits
    <3>2. \A x \in Seq({}) : x = <<>> OBVIOUS
    <3>3. Entered(c, s).m = c.m BY <2>3, EnteredFields
    <3> QED BY <1>3, <3>1, <3>2, <3>3 DEF Sound
  <2> QED BY <2>2, <2>3 DEF Fine
<1>5. CASE c.n # 0
  <2>1. s \in Silent BY <1>1, <1>2, <1>5, ReaderSteps
  <2>2. s \in Typed /\ Loaded(s) BY <2>1, LoadedShape DEF Silent
  <2>3. ASSUME After(s, c.e) = OK PROVE Sound(Entered(c, s), Sent(qs, s.ask))
    <3>1. s.cb = <<>>
      <4>1. s.cb \in Seq({}) BY <2>1 DEF Silent, Shape
      <4> QED BY <4>1
    <3>2. Entered(c, s).m = c.m /\ Entered(c, s).cbs = c.cbs \o s.cb
      BY <2>3, EnteredFields
    <3>3. c.cbs \o s.cb = <<>>
      <4>1. <<>> \o <<>> = <<>> OBVIOUS
      <4> QED BY <4>1, <1>1, <3>1
    <3> QED BY <1>3, <3>2, <3>3 DEF Sound
  <2> QED BY <2>2, <2>3 DEF Fine
<1> QED BY <1>4, <1>5

LEMMA ChainReady ==
  ASSUME NEW c \in Context, c.m \in Chains, NEW qs \in Flights, Ready(c, qs), NEW s \in Steps(c)
  PROVE  Fine(c, qs, s)
<1>1. /\ c.cbs = <<>> /\ c.v \in Nat /\ New(qs) = {} /\ c.n \in Reaches(c.m)
      /\ c.m = "modifyNetIf" /\ c.n = 2 => c.v = 0
  BY DEF Ready
<1>2. s \in StepOf(c.m, c.n, c.e, c.v, c.o) BY <1>1 DEF Steps, Wild
<1>3. c.m \notin {"setConfigs", "addVmToNode", "addNetIf"} /\ c.m \in Apart
      /\ c.m \notin Readers /\ c.m \notin Setters
  BY ClassesApart
<1>4. s \in Leading(c.m, c.n, c.e, Calm, {})
  <2>1. CASE c.m = "modifyDiskByStorage"
    BY <1>1, <1>2, <2>1, ChainSteps, StagedStepOf DEF Reaches
  <2>2. CASE c.m = "detachStorageFromNode"
    BY <1>1, <1>2, <2>2, ChainSteps, StagedStepOf DEF Reaches
  <2>3. CASE c.m = "detachAllNodesByNetwork"
    BY <1>1, <1>2, <2>3, ChainSteps, StagedStepOf DEF Reaches
  <2>4. CASE c.m = "modifyNetIf"
    BY <1>1, <1>2, <2>4, ChainSteps, StagedStepOf DEF Reaches
  <2> QED BY <2>1, <2>2, <2>3, <2>4 DEF Chains
<1>5. Calm \subseteq Asks \ NotLoaded BY DEF Calm
<1>6. s \in Typed /\ Loaded(s) BY <1>4, <1>5, LoadedShape DEF Leading
<1>7. ASSUME After(s, c.e) = OK PROVE Sound(Entered(c, s), Sent(qs, s.ask))
  <2>1. Entered(c, s).cbs \in Seq({}) \/ Waiting(Entered(c, s), Sent(qs, s.ask))
    BY <1>1, <1>4, <1>5, <1>7, LeadingWaits
  <2>2. \A x \in Seq({}) : x = <<>> OBVIOUS
  <2>3. Entered(c, s).m = c.m BY <1>7, EnteredFields
  <2>4. NoKids(Sent(qs, s.ask))
    <3>1. s.ask \in Seq(Calm) BY <1>4 DEF Leading, Shape
    <3>2. Calm \subseteq Asks BY <1>5
    <3>3. \A i \in New(Sent(qs, s.ask)) : Sent(qs, s.ask)[i].q \in Calm
      BY <1>1, <3>1, <3>2, NewAsked
    <3> QED BY <3>3 DEF NoKids, Calm
  <2> QED BY <1>3, <2>1, <2>2, <2>3, <2>4 DEF Sound
<1> QED BY <1>6, <1>7 DEF Fine

LEMMA SetterReady ==
  ASSUME NEW c \in Context, c.m \in Setters, NEW qs \in Flights, Ready(c, qs), NEW s \in Steps(c)
  PROVE  Fine(c, qs, s)
<1>1. /\ c.cbs \in Seq(Meek) /\ c.v \in Nat /\ NoKids(qs) /\ c.n \in Nat
      /\ c.n = 0 => c.cbs = <<>> /\ New(qs) = {}
  BY DEF Ready, Context
<1>2. s \in StepOf(c.m, c.n, c.e, c.v, c.o) BY <1>1 DEF Steps, Wild
<1>3. c.m \notin {"setConfigs", "addVmToNode", "addNetIf"} /\ c.m \in Apart
      /\ c.m \notin Readers /\ c.m \notin Chains
  BY ClassesApart
<1>4. /\ s.count = NoCount
      /\ c.n = 0 => s \in Leading(c.m, c.n, c.e, Calm, Meek)
      /\ c.n # 0 => s \in Shape(Calm, Meek)
  <2>1. /\ \A x \in StepOf(c.m, c.n, c.e, c.v, c.o) : x.count = NoCount
        /\ c.n = 0 => StepOf(c.m, c.n, c.e, c.v, c.o) \subseteq Leading(c.m, 0, c.e, Calm, Meek)
        /\ c.n # 0 => StepOf(c.m, c.n, c.e, c.v, c.o) \subseteq Shape(Calm, Meek)
    BY <1>1, SetterSteps
  <2> QED BY <1>2, <2>1
<1>5. Calm \subseteq Asks \ NotLoaded /\ Meek \subseteq Callbacks BY DEF Calm, Callbacks
<1>6. s \in Shape(Calm, Callbacks)
  <2>1. Shape(Calm, Meek) \subseteq Shape(Calm, Callbacks) BY <1>5, LargerShape
  <2> QED BY <1>4, <2>1 DEF Leading
<1>7. s \in Typed /\ Loaded(s) BY <1>5, <1>6, LoadedShape
<1>8. ASSUME After(s, c.e) = OK PROVE Sound(Entered(c, s), Sent(qs, s.ask))
  <2>1. Entered(c, s).cbs \in Seq(Meek) \/ Waiting(Entered(c, s), Sent(qs, s.ask))
    <3>1. CASE c.n = 0 BY <1>1, <1>4, <1>5, <1>8, <3>1, LeadingWaits
    <3>2. CASE c.n # 0
      <4>1. s.cb \in Seq(Meek) BY <1>4, <3>2 DEF Shape
      <4>2. c.cbs \o s.cb \in Seq(Meek) BY <1>1, <4>1, Joined
      <4> QED BY <1>8, <4>2, EnteredFields
    <3> QED BY <3>1, <3>2
  <2>2. Entered(c, s).m = c.m /\ Entered(c, s).n = c.n BY <1>4, <1>8, EnteredFields
  <2>3. NoKids(Sent(qs, s.ask))
    <3>1. s.ask \in Seq(Calm) BY <1>6 DEF Shape
    <3>2. Calm \subseteq Asks /\ Calm \subseteq Asks \ Kids BY <1>5 DEF Calm
    <3>3. \A i \in New(qs) : qs[i].q \in Asks \ Kids
      <4>1. \A i \in DOMAIN qs : qs[i] \in [q : Asks \ NotLoaded, old : BOOLEAN] BY Elements DEF Flights
      <4> QED BY <1>1, <4>1 DEF NoKids, New
    <3>4. \A i \in New(Sent(qs, s.ask)) : Sent(qs, s.ask)[i].q \in Asks \ Kids
      BY <3>1, <3>2, <3>3, NewAsked
    <3> QED BY <3>4 DEF NoKids
  <2> QED BY <1>1, <1>3, <2>1, <2>2, <2>3 DEF Sound
<1> QED BY <1>7, <1>8 DEF Fine

LEMMA OtherReady ==
  ASSUME NEW c \in Context, c.m \in {"setConfigs", "addVmToNode", "addNetIf"}, NEW qs \in Flights,
         Ready(c, qs), NEW s \in Steps(c)
  PROVE  Fine(c, qs, s)
<1>1. c.m \notin Readers /\ c.m \notin Chains /\ c.m \notin Setters /\ c.m \in Apart
  BY ClassesApart
<1>2. CASE c.m = "setConfigs"
  <2>1. c.cbs \in Seq({"null"}) /\ c.v = 0 /\ \A i \in New(qs) : qs[i].q = "setConfig"
    BY <1>2 DEF Ready
  <2>2. s \in Shape({"setConfig"}, {"null"}) BY <1>2, <2>1, SetConfigsSteps DEF Steps, Wild
  <2>3. {"setConfig"} \subseteq Asks \ NotLoaded /\ {"null"} \subseteq Callbacks
    BY AccountNamesKnown DEF AccountNames, NotLoaded, Callbacks
  <2>4. s \in Typed /\ Loaded(s) BY <2>2, <2>3, LoadedShape
  <2>5. ASSUME After(s, c.e) = OK PROVE Sound(Entered(c, s), Sent(qs, s.ask))
    <3>1. s.ask \in Seq({"setConfig"}) /\ s.cb \in Seq({"null"}) BY <2>2 DEF Shape
    <3>2. c.cbs \o s.cb \in Seq({"null"}) BY <2>1, <3>1, Joined
    <3>3. \A i \in New(Sent(qs, s.ask)) : Sent(qs, s.ask)[i].q \in {"setConfig"}
      BY <2>1, <2>3, <3>1, NewAsked
    <3>4. Entered(c, s).m = c.m /\ Entered(c, s).cbs = c.cbs \o s.cb BY <2>5, EnteredFields
    <3> QED BY <1>1, <1>2, <3>2, <3>3, <3>4 DEF Sound
  <2> QED BY <2>4, <2>5 DEF Fine
<1>3. CASE c.m = "addVmToNode"
  <2>1. c.cbs \in Seq({"value"}) BY <1>3 DEF Ready
  <2>2. s \in Shape(Asks \ NotLoaded, {"value"}) BY <1>3, AddVmSteps DEF Steps, TakesNumbers
  <2>3. {"value"} \subseteq Callbacks BY DEF Callbacks
  <2>4. s \in Typed /\ Loaded(s) BY <2>2, <2>3, LoadedShape
  <2>5. ASSUME After(s, c.e) = OK PROVE Sound(Entered(c, s), Sent(qs, s.ask))
    <3>1. s.cb \in Seq({"value"}) BY <2>2 DEF Shape
    <3>2. c.cbs \o s.cb \in Seq({"value"}) BY <2>1, <3>1, Joined
    <3>3. Entered(c, s).m = c.m /\ Entered(c, s).cbs = c.cbs \o s.cb BY <2>5, EnteredFields
    <3> QED BY <1>1, <1>3, <3>2, <3>3 DEF Sound
  <2> QED BY <2>4, <2>5 DEF Fine
<1>4. CASE c.m = "addNetIf"
  <2>1. c.cbs \in Seq({"rewind"}) /\ c.v = 0 /\ c.n <= 2 /\ c.n \in Int BY <1>4 DEF Ready, Context
  <2>2. /\ s \in Shape(Asks \ NotLoaded, {"rewind"}) /\ s.count = NoCount
        /\ c.n = 2 => After(s, c.e) # OK
    <3>1. s \in StepOf("addNetIf", c.n, c.e, c.v, c.o) BY <1>4, <2>1 DEF Steps, Wild
    <3>2. c.v \in Int /\ (c.n = 2 => c.v = 0) BY <2>1
    <3>3. \A x \in StepOf("addNetIf", c.n, c.e, c.v, c.o) :
            /\ x \in Shape(Asks \ NotLoaded, {"rewind"})
            /\ x.count = NoCount
            /\ c.n = 2 => After(x, c.e) # OK
      BY <2>1, <3>2, AddNetIfSteps
    <3> QED BY <3>1, <3>3
  <2>3. {"rewind"} \subseteq Callbacks BY DEF Callbacks, Meek
  <2>4. s \in Typed /\ Loaded(s) BY <2>2, <2>3, LoadedShape
  <2>5. ASSUME After(s, c.e) = OK PROVE Sound(Entered(c, s), Sent(qs, s.ask))
    <3>1. s.cb \in Seq({"rewind"}) BY <2>2 DEF Shape
    <3>2. c.cbs \o s.cb \in Seq({"rewind"}) BY <2>1, <3>1, Joined
    <3>3. Entered(c, s).m = c.m /\ Entered(c, s).cbs = c.cbs \o s.cb /\ Entered(c, s).n = c.n
      BY <2>2, <2>5, EnteredFields
    <3>4. c.n <= 1 BY <2>1, <2>2, <2>5
    <3> QED BY <1>1, <1>4, <3>2, <3>3, <3>4 DEF Sound
  <2> QED BY <2>4, <2>5 DEF Fine
<1> QED BY <1>2, <1>3, <1>4

LEMMA ReadyIsFine ==
  ASSUME NEW c \in Context, c.m \in Remote \ Crashes, NEW qs \in Flights, Ready(c, qs), NEW s \in Steps(c)
  PROVE  Fine(c, qs, s)
BY PlainReady, ReaderReady, ChainReady, SetterReady, OtherReady, ClassesApart

\* What a step leaves behind of a call that is not exempt.
Exempt(c) == c.late \/ c.m \in Crashes
Spared ==
  /\ up' => ctx'.v = 0
  /\ ~up' => Exempt(ctx')
  /\ up' /\ ctx'.m # "none" /\ ~Exempt(ctx') => Sound(ctx', out')

LEMMA EnterSpares ==
  ASSUME NEW c \in Context, c.m \in Remote, NEW qs \in Flights, NEW es, up,
         ~Exempt(c) => Ready(c, qs), Enter(c, qs, es)
  PROVE  Spared
<1>1. PICK s \in Steps(c) :
        \/ (s.crash \/ ~Loaded(s)) /\ Dies(c, qs, es)
        \/ \E e : Answers(Entered(c, s), e, Sent(qs, s.ask), es)
        \/ After(s, c.e) = OK /\ ~s.crash /\ Loaded(s) /\ Waits(Entered(c, s), Sent(qs, s.ask), es)
  BY DEF Enter
<1>2. ~Exempt(c) => Fine(c, qs, s) /\ s.crash = FALSE
  BY ReadyIsFine, Survives DEF Exempt, Fine
<1>3. CASE (s.crash \/ ~Loaded(s)) /\ Dies(c, qs, es)
  BY <1>2, <1>3 DEF Dies, Spared, Fine
<1>4. CASE \E e : Answers(Entered(c, s), e, Sent(qs, s.ask), es)
  BY <1>4 DEF Answers, Spared, Idle, Fresh
<1>5. CASE After(s, c.e) = OK /\ Waits(Entered(c, s), Sent(qs, s.ask), es)
  <2>1. Entered(c, s).m = c.m /\ Entered(c, s).v = 0 /\ Entered(c, s).late = c.late
    BY <1>5, EnteredFields
  <2> QED BY <1>2, <1>5, <2>1 DEF Waits, Spared, Fine, Exempt
<1> QED BY <1>1, <1>3, <1>4, <1>5


-----------------------------------------------------------------------------
(* What the steps of the engine keep.                                        *)

CrashInv == up => ctx.v = 0 /\ (Busy /\ ~Exempt(ctx) => Sound(ctx, out))

LEMMA AnswersSpare ==
  ASSUME NEW c, NEW e, NEW qs, NEW es, up, Answers(c, e, qs, es)
  PROVE  Spared
BY DEF Answers, Spared, Idle, Fresh

LEMMA WaitsSpare ==
  ASSUME NEW c, NEW qs, NEW es, up, Waits(c, qs, es), c.v = 0,
         c.m # "none" /\ ~Exempt(c) => Sound(c, qs)
  PROVE  Spared
BY DEF Waits, Spared

LEMMA DiesSpare ==
  ASSUME NEW c, NEW qs, NEW es, Dies(c, qs, es), Exempt(c)
  PROVE  Spared
BY DEF Dies, Spared

\* Of the queries in flight one is gone.
LEMMA NewWithout ==
  ASSUME out \in Flights, NEW i \in DOMAIN out, NEW j \in New(Without(i))
  PROVE  LET k == IF j < i THEN j ELSE j + 1
         IN k \in New(out) /\ k # i /\ Without(i)[j] = out[k]
<1>1. DOMAIN out = 1..Len(out) /\ Len(out) \in Nat /\ i \in 1..Len(out) BY DEF Flights
<1>2. DOMAIN Without(i) = 1..(Len(out) - 1) BY DEF Without
<1>3. j \in 1..(Len(out) - 1) /\ ~Without(i)[j].old BY <1>2 DEF New
<1>4. Without(i)[j] = out[IF j < i THEN j ELSE j + 1] BY <1>3 DEF Without
<1>5. /\ (IF j < i THEN j ELSE j + 1) \in 1..Len(out)
      /\ (IF j < i THEN j ELSE j + 1) # i
  BY <1>1, <1>3
<1> QED BY <1>1, <1>3, <1>4, <1>5 DEF New

LEMMA LastOne ==
  ASSUME out \in Flights, NEW i \in New(out), \A j, k \in New(out) : j = k
  PROVE  New(Without(i)) = {}
<1>1. i \in DOMAIN out BY DEF New
<1> QED BY <1>1, NewWithout

LEMMA WithoutSound ==
  ASSUME out \in Flights, NEW i \in DOMAIN out, NEW c, Sound(c, out)
  PROVE  Sound(c, Without(i))
<1>1. \A j \in New(Without(i)) : \E k \in New(out) : Without(i)[j] = out[k]
  BY NewWithout
<1>2. NoKids(out) => NoKids(Without(i)) BY <1>1 DEF NoKids
<1>3. (\A j \in New(out) : out[j].q = "setConfig")
        => \A j \in New(Without(i)) : Without(i)[j].q = "setConfig"
  BY <1>1
<1>4. Waiting(c, out) => Waiting(c, Without(i))
  <2>1. ASSUME NEW t \in Stages, WaitsAt(c, out, t) PROVE WaitsAt(c, Without(i), t)
    <3>1. \A j \in New(Without(i)) : Without(i)[j].q = t.q BY <1>1, <2>1 DEF WaitsAt
    <3>2. ASSUME NEW j \in New(Without(i)), NEW k \in New(Without(i)) PROVE j = k
      <4>1. (IF j < i THEN j ELSE j + 1) = (IF k < i THEN k ELSE k + 1)
        <5>1. /\ (IF j < i THEN j ELSE j + 1) \in New(out)
              /\ (IF k < i THEN k ELSE k + 1) \in New(out)
          BY NewWithout
        <5> QED BY <5>1, <2>1 DEF WaitsAt
      <4>2. j \in Int /\ k \in Int /\ i \in Int BY DEF New, Without, Flights
      <4> QED BY <4>1, <4>2
    <3> QED BY <2>1, <3>1, <3>2 DEF WaitsAt
  <2> QED BY <2>1 DEF Waiting
<1> QED BY <1>2, <1>3, <1>4 DEF Sound

\* Nothing else of the context counts.
LEMMA SameSound ==
  ASSUME NEW c, NEW d, NEW qs, c.m = d.m, c.n = d.n, c.cbs = d.cbs, Sound(c, qs)
  PROVE  Sound(d, qs)
BY DEF Sound, Waiting, WaitsAt

LEMMA FailsSpare ==
  ASSUME EngineInv, CrashInv, up, NEW i \in DOMAIN out, QueryFails(i)
  PROVE  Spared
<1>1. out \in Flights /\ ctx \in Context /\ ctx.v = 0 BY DEF EngineInv, CrashInv
<1>2. CASE Busy
  <2> DEFINE c == [ctx EXCEPT !.e = "DB_QUERY", !.st = FALSE, !.bad = TRUE, !.late = @ \/ out[i].old]
  <2>1. c.m = ctx.m /\ c.n = ctx.n /\ c.cbs = ctx.cbs /\ c.v = ctx.v /\ (~c.late => ~ctx.late)
    BY <1>1 DEF Context
  <2>2. Waits(c, Without(i), Append(ev, [k |-> "error", old |-> out[i].old]))
    BY <1>2 DEF QueryFails, Raise
  <2> HIDE DEF c
  <2>3. ~Exempt(c) => Sound(ctx, out) BY <1>2, <2>1 DEF Exempt, CrashInv
  <2>4. ~Exempt(c) => Sound(c, Without(i)) BY <1>1, <2>1, <2>3, WithoutSound, SameSound
  <2> QED BY <1>1, <2>1, <2>2, <2>4, WaitsSpare
<1>3. CASE ~Busy
  <2>1. Waits(ctx, Without(i), Append(ev, [k |-> "error", old |-> TRUE]))
    BY <1>3 DEF QueryFails, Raise
  <2> QED BY <1>1, <1>3, <2>1, WaitsSpare DEF Busy
<1> QED BY <1>2, <1>3

LEMMA CallSpares ==
  ASSUME EngineInv, CrashInv, Call
  PROVE  Spared
<1>1. PICK m \in Remote : Enter(Fresh(m), out, ev)
  BY RpcCallAssumption DEF Call
<1>2. Fresh(m) \in Context BY FreshIsContext
<1>3. /\ Fresh(m).m = m /\ Fresh(m).n = 0 /\ Fresh(m).v = 0 /\ Fresh(m).cbs = <<>>
  BY DEF Fresh
<1>4. New(out) = {} BY DEF Call, EngineInv, Clear, New
<1>5. Ready(Fresh(m), out)
  <2>1. \A S : <<>> \in Seq(S) BY NoneOf
  <2>2. 0 \in Reaches(m) BY DEF Reaches
  <2>3. NoKids(out) BY <1>4 DEF NoKids
  <2>4. 0 \in Nat /\ 0 >= 0 /\ 0 <= 2 /\ 0 # 2 OBVIOUS
  <2> HIDE DEF Fresh
  <2> QED BY <1>3, <1>4, <2>1, <2>2, <2>3, <2>4 DEF Ready
<1>6. out \in Flights /\ up BY DEF EngineInv, Call
<1> QED BY <1>1, <1>2, <1>3, <1>5, <1>6, EnterSpares

LEMMA HandleEventSpares ==
  ASSUME EngineInv, CrashInv, HandleEvent
  PROVE  Spared
<1>1. \/ ~Busy /\ Waits(ctx, out, Tail(ev))
      \/ \E c, e : Answers(c, e, out, Tail(ev))
  BY DEF HandleEvent
<1>2. up /\ ctx.v = 0 BY DEF HandleEvent, CrashInv
<1> QED BY <1>1, <1>2, WaitsSpare, AnswersSpare DEF Busy

LEMMA ExpectedAreCalm == (Expected \cup {"getNetworkOfNone", "setConfig"}) \cap Kids = {}
BY DEF Expected, Kids

\* A count that is reached: no chain, and no setter, waits for one.
LEMMA KidSound ==
  ASSUME EngineInv, NEW i \in New(out), out[i].q \in Kids, Sound(ctx, out)
  PROVE  /\ ctx.m \notin Chains \cup Setters \cup {"setConfigs"}
         /\ ctx.m \in Readers => ctx.cbs = <<>>
<1>1. ctx.m \notin Chains \cup Setters BY DEF Sound, NoKids
<1>2. ctx.m # "setConfigs" BY ExpectedAreCalm DEF Sound
<1>3. ASSUME ctx.m \in Readers, ctx.cbs # <<>> PROVE FALSE
  <2>1. PICK t \in Stages : WaitsAt(ctx, out, t) BY <1>3 DEF Sound, Waiting
  <2>2. t.q \in Expected BY <1>3, <2>1, StagesByClass DEF WaitsAt
  <2>3. out[i].q = t.q BY <2>1 DEF WaitsAt
  <2> QED BY <2>2, <2>3, ExpectedAreCalm
<1> QED BY <1>1, <1>2, <1>3

LEMMA KidSpares ==
  ASSUME EngineInv, CrashInv, up, NEW i \in DOMAIN out, KidReturns(i) \/ KidLost(i)
  PROVE  Spared
<1>1. out \in Flights /\ ctx \in Context /\ ctx.v = 0 BY DEF EngineInv, CrashInv
<1>2. CASE Waits(ctx, Without(i), ev)
  <2>1. ctx.m # "none" /\ ~Exempt(ctx) => Sound(ctx, Without(i))
    BY <1>1, WithoutSound DEF CrashInv, Busy
  <2> QED BY <1>1, <1>2, <2>1, WaitsSpare
<1>3. CASE Busy /\ KidReturns(i)
  <2> DEFINE c(e) == [ctx EXCEPT !.n = @ - 1, !.e = e, !.late = @ \/ out[i].old]
  <2>1. PICK e \in KidError(out[i].q, ctx.e) :
          \/ c(e).n = Target[out[i].q] /\ Enter(c(e), Without(i), ev)
          \/ Waits(c(e), Without(i), ev)
    BY <1>3 DEF KidReturns
  <2>2. out[i].q \in Kids BY <1>3 DEF KidReturns
  <2>3. Target[out[i].q] \in {2, 4} BY <2>2 DEF Kids, Target
  <2>4. e \in Errors BY DEF KidError, Errors, OK, EngineInv, Context
  <2>5. c(e) \in Context
    <3>1. (ctx.late \/ out[i].old) \in BOOLEAN OBVIOUS
    <3>2. ctx.n - 1 \in Int BY <1>1 DEF Context
    <3> QED BY <1>1, <2>4, <3>1, <3>2 DEF Context
  <2>6. /\ c(e).m = ctx.m /\ c(e).n = ctx.n - 1 /\ c(e).cbs = ctx.cbs /\ c(e).v = 0
        /\ ~c(e).late => ~ctx.late /\ ~out[i].old
    BY <1>1 DEF Context
  <2> HIDE DEF c
  <2>7. ctx.m \in Remote /\ ctx.m # "none" /\ ctx.n \in Int
    BY <1>1, <1>3 DEF Context, Busy
  <2>8. ~Exempt(c(e)) => /\ ctx.m \notin Chains \cup Setters \cup {"setConfigs"}
                         /\ ctx.m \in Readers => ctx.cbs = <<>>
                         /\ Sound(ctx, out)
    <3>1. ASSUME ~Exempt(c(e)) PROVE i \in New(out) /\ Sound(ctx, out)
      BY <1>3, <2>6, <3>1 DEF Exempt, CrashInv, New
    <3> QED BY <2>2, <3>1, KidSound
  <2>9. Without(i) \in Flights BY <1>1, WithoutFlights
  <2>10. CASE c(e).n = Target[out[i].q] /\ Enter(c(e), Without(i), ev)
    <3>1. ~Exempt(c(e)) => Ready(c(e), Without(i))
      <4>1. c(e).n \in {2, 4} /\ c(e).n # 0 BY <2>3, <2>10
      <4>2. 0 \in Nat OBVIOUS
      <4>3. ctx.m = "addNetIf" /\ Sound(ctx, out) => c(e).n <= 2
        BY <2>6, <2>7 DEF Sound
      <4> QED BY <2>6, <2>8, <4>1, <4>2, <4>3 DEF Ready, Sound
    <3> QED BY <2>5, <2>6, <2>7, <2>9, <2>10, <3>1, EnterSpares
  <2>11. CASE Waits(c(e), Without(i), ev)
    <3>1. ~Exempt(c(e)) => Sound(c(e), Without(i))
      <4>1. ctx.m = "addNetIf" /\ Sound(ctx, out) => c(e).n <= 1
        BY <2>6, <2>7 DEF Sound
      <4> QED BY <2>6, <2>8, <4>1 DEF Sound
    <3> QED BY <2>6, <2>11, <3>1, WaitsSpare
  <2> QED BY <2>1, <2>10, <2>11
<1> QED BY <1>2, <1>3 DEF KidReturns, KidLost

\* The callbacks, when the call is exempt and when it is not.
LEMMA RewindsSpare ==
  ASSUME NEW c \in Context, c.m \in Remote, NEW w \in -1..2, NEW qs \in Flights, NEW es, up,
         Rewinds(c, w, qs, es),
         ~Exempt(c) =>
           \A d \in Context :
             (d.m = c.m /\ d.n = c.n + 1 /\ d.cbs = c.cbs /\ d.v = w) => Ready(d, qs)
  PROVE  Spared
<1> DEFINE d == [c EXCEPT !.n = c.n + 1, !.v = w]
<1>1. d \in Context
  <2>1. c.n + 1 \in Int BY DEF Context
  <2> QED BY <2>1 DEF Context
<1>2. d.m = c.m /\ d.n = c.n + 1 /\ d.cbs = c.cbs /\ d.v = w /\ d.late = c.late
  BY DEF Context
<1>3. Enter(d, qs, es) BY DEF Rewinds
<1> HIDE DEF d
<1>4. ~Exempt(d) => Ready(d, qs) BY <1>1, <1>2 DEF Exempt
<1> QED BY <1>1, <1>2, <1>3, <1>4, EnterSpares

\* The contexts that a callback goes on with.
Faulty(c) == [c EXCEPT !.fault = Fault(c)]
Sending(c, q, k) == [Clean(c) EXCEPT !.cbs = @ \o k, !.st = @ \/ SetsState(q)]

LEMMA OtherContexts ==
  ASSUME NEW c \in Context, NEW d \in {Faulty(c), Clean(c)}
  PROVE  /\ d \in Context /\ d.m = c.m /\ d.n = c.n /\ d.cbs = c.cbs
         /\ d.v = c.v /\ d.late = c.late
BY DEF Faulty, Fault, Clean, Context, Errors, OK

LEMMA SendingContext ==
  ASSUME NEW c \in Context, NEW q, NEW k
  PROVE  /\ Sending(c, q, k).m = c.m /\ Sending(c, q, k).n = c.n
         /\ Sending(c, q, k).cbs = c.cbs \o k
         /\ Sending(c, q, k).v = c.v /\ Sending(c, q, k).late = c.late
BY DEF Clean, Sending, Context

LEMMA ExemptSpares ==
  ASSUME NEW cb \in Callbacks \ {"null"}, NEW c \in Context, c.m \in Remote, c.v = 0, NEW v \in -1..2,
         NEW qs \in Flights, NEW es, up, CallbackOf(cb, c, v, qs, es), Exempt(c)
  PROVE  Spared
<1>1. CASE \E w \in {0, v} : Rewinds(c, w, qs, es) BY <1>1, RewindsSpare
<1>2. CASE Rewinds(Faulty(c), 0, qs, es) \/ Rewinds(Clean(c), 0, qs, es)
  <2>1. PICK d \in {Faulty(c), Clean(c)} : Rewinds(d, 0, qs, es) BY <1>2
  <2>2. d \in Context /\ d.m = c.m /\ d.late = c.late BY OtherContexts
  <2>3. Exempt(d) /\ 0 \in -1..2 BY <2>2 DEF Exempt
  <2> QED BY <2>1, <2>2, <2>3, RewindsSpare
<1>3. CASE \E e : Answers(c, e, qs, es) BY <1>3, AnswersSpare
<1>4. CASE Waits(c, qs, es) BY <1>4, WaitsSpare
<1>5. CASE Dies(c, qs, es) BY <1>5, DiesSpare
<1>6. ASSUME NEW q \in SentBack, NEW k, Sends(c, q, k, qs, es) PROVE Spared
  <2>1. Waits(Sending(c, q, k), Sent(qs, <<q>>), es) BY <1>6 DEF Sends, Sending
  <2>2. Sending(c, q, k).m = c.m /\ Sending(c, q, k).v = c.v /\ Sending(c, q, k).late = c.late
    BY SendingContext
  <2>3. Exempt(Sending(c, q, k)) BY <2>2 DEF Exempt
  <2> QED BY <2>1, <2>2, <2>3, WaitsSpare
<1> QED BY <1>1, <1>2, <1>3, <1>4, <1>5, <1>6, CallbackCases DEF Faulty

\* The meek callbacks never bring the server down, and hand nothing on.
LEMMA MeekCases ==
  ASSUME NEW cb \in Meek, NEW c, NEW v, NEW qs, NEW es, CallbackOf(cb, c, v, qs, es)
  PROVE  \/ \E d \in {c, Faulty(c), Clean(c)} : Rewinds(d, 0, qs, es)
         \/ \E e : Answers(c, e, qs, es)
         \/ Waits(c, qs, es)
         \/ \E q \in SentBack : \E k \in {<<>>, <<"generatemac">>, <<"jobs_resource">>} :
              Sends(c, q, k, qs, es)
<1>1. CASE cb \in {"rewind", "int_rewind", "answer"}
  BY <1>1 DEF CallbackOf, Faulty
<1>2. CASE cb \in {"user_name", "user_lang"}
  BY <1>2 DEF CallbackOf, Clean
<1>3. CASE cb \in {"group_modify", "group_add", "generatemac"}
  BY <1>3 DEF CallbackOf, Clean, Sends, SentBack
<1>4. CASE cb \in {"ptr_job", "ptr_int", "jobs_resource"}
  BY <1>4 DEF CallbackOf
<1>5. CASE cb = "jobs_cb_get"
  BY <1>5 DEF CallbackOf, Clean, Sends, SentBack
<1> QED BY <1>1, <1>2, <1>3, <1>4, <1>5 DEF Meek

LEMMA MeekSpares ==
  ASSUME NEW cb \in Meek, NEW c \in Context, c.m \in Remote, c.v = 0, NEW v,
         NEW qs \in Flights, NEW es, up, CallbackOf(cb, c, v, qs, es),
         c.cbs \in Seq(Meek),
         c.m \notin Apart \/ (c.m \in Setters /\ NoKids(qs) /\ c.n >= 0)
  PROVE  Spared
<1>1. /\ c.m \notin Readers /\ c.m \notin Chains
      /\ c.m \notin {"setConfigs", "addVmToNode", "addNetIf"}
      /\ c.n \in Int
      /\ c.m \in Setters => NoKids(qs) /\ c.n >= 0
  BY ClassesApart DEF Context
<1>2. CASE \E d \in {c, Faulty(c), Clean(c)} : Rewinds(d, 0, qs, es)
  <2>1. ASSUME NEW d \in Context, d.m = c.m, d.n = c.n, d.cbs = c.cbs, Rewinds(d, 0, qs, es)
        PROVE  Spared
    <3>1. ASSUME NEW x \in Context, x.m = d.m, x.n = d.n + 1, x.cbs = d.cbs, x.v = 0
          PROVE  Ready(x, qs)
      <4>1. c.n >= 0 => x.n >= 0 /\ x.n # 0 BY <1>1, <2>1, <3>1
      <4>2. 0 \in Nat OBVIOUS
      <4> QED BY <1>1, <2>1, <3>1, <4>1, <4>2 DEF Ready
    <3>2. \A x \in Context : (x.m = d.m /\ x.n = d.n + 1 /\ x.cbs = d.cbs /\ x.v = 0) => Ready(x, qs)
      BY <3>1
    <3>3. 0 \in -1..2 /\ d.m \in Remote BY <2>1
    <3> QED BY <2>1, <3>2, <3>3, RewindsSpare
  <2>2. PICK d \in {c, Faulty(c), Clean(c)} : Rewinds(d, 0, qs, es) BY <1>2
  <2>3. d \in Context /\ d.m = c.m /\ d.n = c.n /\ d.cbs = c.cbs BY OtherContexts
  <2> QED BY <2>1, <2>2, <2>3
<1>3. CASE \E e : Answers(c, e, qs, es) BY <1>3, AnswersSpare
<1>4. CASE Waits(c, qs, es)
  <2>1. Sound(c, qs) BY <1>1 DEF Sound
  <2> QED BY <1>4, <2>1, WaitsSpare
<1>5. ASSUME NEW q \in SentBack, NEW k \in {<<>>, <<"generatemac">>, <<"jobs_resource">>},
             Sends(c, q, k, qs, es)
      PROVE  Spared
  <2> DEFINE d == Sending(c, q, k)
  <2>1. Waits(d, Sent(qs, <<q>>), es) BY <1>5 DEF Sends, Sending
  <2>2. d.m = c.m /\ d.n = c.n /\ d.cbs = c.cbs \o k /\ d.v = 0 BY SendingContext
  <2> HIDE DEF d
  <2>3. c.cbs \o k \in Seq(Meek)
    <3>1. "generatemac" \in Meek /\ "jobs_resource" \in Meek BY DEF Meek
    <3>2. k \in Seq(Meek) BY <3>1, OneOf, NoneOf
    <3> QED BY <3>2, Joined
  <2>4. ASSUME NoKids(qs) PROVE NoKids(Sent(qs, <<q>>))
    <3> DEFINE A == {q}
    <3>1. A \subseteq Asks /\ A \subseteq Asks \ Kids BY SentBackKnown DEF SentBack, Kids
    <3>2. <<q>> \in Seq(A)
      <4>1. q \in A OBVIOUS
      <4> QED BY <4>1, OneOf
    <3> HIDE DEF A
    <3>3. \A i \in New(qs) : qs[i].q \in Asks \ Kids
      <4>1. \A i \in DOMAIN qs : qs[i] \in [q : Asks \ NotLoaded, old : BOOLEAN] BY Elements DEF Flights
      <4> QED BY <2>4, <4>1 DEF NoKids, New
    <3>4. \A i \in New(Sent(qs, <<q>>)) : Sent(qs, <<q>>)[i].q \in Asks \ Kids
      BY <3>1, <3>2, <3>3, NewAsked
    <3> QED BY <3>4 DEF NoKids
  <2>5. Sound(d, Sent(qs, <<q>>)) BY <1>1, <2>2, <2>3, <2>4 DEF Sound
  <2> QED BY <2>1, <2>2, <2>5, WaitsSpare
<1> QED BY <1>2, <1>3, <1>4, <1>5, MeekCases

\* A reply of the call's own, to a context that waits: what its value may be.
Replied(i, c, v) ==
  /\ i \in New(out) /\ Sound(c, out) /\ c.v = 0 /\ ~Exempt(c)
  /\ Kind(out[i].q) \in Carried => v \in Nat
  /\ out[i].q = "getNetworkOfNone" => v = 0
  /\ Kind(out[i].q) # "bad"
\* c has lost the first of its callbacks.
Marked(c, d) ==
  /\ c.cbs # <<>> /\ d.cbs = Tail(c.cbs)
  /\ d.m = c.m /\ d.n = c.n /\ d.v = c.v /\ d.late = c.late

LEMMA ChainNext ==
  \A t \in Stages :
    t.m \in Chains /\ t.cb \in {"value", "rewind"} /\ t.q \notin Refused =>
      /\ t.n + 1 \in Reaches(t.m)
      /\ t.m = "modifyNetIf" /\ t.n + 1 = 2 => t.q = "getNetworkOfNone"
<1>1. \A m, n, cb, q : /\ At(m, n, cb, q).m = m /\ At(m, n, cb, q).n = n
                       /\ At(m, n, cb, q).cb = cb /\ At(m, n, cb, q).q = q
  BY DEF At
<1> QED BY <1>1 DEF Stages, Chains, Refused, Reaches

LEMMA StageReply ==
  ASSUME EngineInv, NEW i, NEW c, NEW d, NEW v, Replied(i, c, v), Marked(c, d), Waiting(c, out)
  PROVE  \E t \in Stages :
           /\ c.m = t.m /\ c.n = t.n /\ Head(c.cbs) = t.cb /\ d.cbs = <<>>
           /\ out[i].q = t.q /\ New(Without(i)) = {}
<1>1. PICK t \in Stages : WaitsAt(c, out, t) BY DEF Waiting
<1>2. out[i].q = t.q BY <1>1 DEF WaitsAt, Replied
<1>3. New(Without(i)) = {} BY <1>1, LastOne DEF WaitsAt, Replied, EngineInv
<1>4. c.cbs = <<t.cb>> /\ Head(<<t.cb>>) = t.cb /\ Tail(<<t.cb>>) = <<>> BY <1>1 DEF WaitsAt
<1> QED BY <1>1, <1>2, <1>3, <1>4 DEF WaitsAt, Marked

LEMMA ValueOrRewind ==
  ASSUME NEW c, NEW v, NEW qs, NEW es, NEW cb \in {"value", "rewind"}, CallbackOf(cb, c, v, qs, es)
  PROVE  \/ cb = "value" /\ Rewinds(c, v, qs, es)
         \/ cb = "rewind" /\ Rewinds(c, 0, qs, es)
BY DEF CallbackOf

LEMMA ReaderReply ==
  ASSUME EngineInv, up, NEW i, NEW c \in Context, NEW d \in Context, NEW v \in -1..2,
         Replied(i, c, v), Marked(c, d), c.m \in Readers, c.m \in Remote,
         Without(i) \in Flights, CallbackOf(Head(c.cbs), d, v, Without(i), ev)
  PROVE  Spared
<1>1. PICK t \in Stages :
        /\ c.m = t.m /\ c.n = t.n /\ Head(c.cbs) = t.cb /\ d.cbs = <<>>
        /\ out[i].q = t.q /\ New(Without(i)) = {}
  BY StageReply DEF Replied, Sound, Marked
<1>2. c.n = 0 /\ Head(c.cbs) = "value" /\ out[i].q \in Expected BY <1>1, StagesByClass
<1>3. v \in Nat BY <1>2, ExpectedKinds DEF Replied
<1>4. Rewinds(d, v, Without(i), ev) BY <1>2, ValueOrRewind
<1>5. \A x \in Context :
        (x.m = d.m /\ x.n = d.n + 1 /\ x.cbs = d.cbs /\ x.v = v) => Ready(x, Without(i))
  <2>1. d.m = c.m /\ d.n = 0 /\ d.n + 1 # 0 BY <1>2 DEF Marked
  <2> QED BY <1>1, <1>3, <2>1, ClassesApart DEF Ready
<1>6. d.m \in Remote BY DEF Marked
<1> QED BY <1>4, <1>5, <1>6, RewindsSpare

LEMMA ChainReply ==
  ASSUME EngineInv, up, NEW i, NEW c \in Context, NEW d \in Context, NEW v \in -1..2,
         Replied(i, c, v), Marked(c, d), c.m \in Chains, c.m \in Remote,
         Without(i) \in Flights, CallbackOf(Head(c.cbs), d, v, Without(i), ev)
  PROVE  Spared
<1>1. PICK t \in Stages :
        /\ c.m = t.m /\ c.n = t.n /\ Head(c.cbs) = t.cb /\ d.cbs = <<>>
        /\ out[i].q = t.q /\ New(Without(i)) = {}
  BY StageReply DEF Replied, Sound, Marked
<1>2. d.m = c.m /\ d.n = c.n /\ d.v = 0 /\ d.late = c.late /\ d.m \in Remote BY DEF Marked, Replied
<1>3. /\ c.m \notin Readers /\ c.m \notin Setters /\ c.m \in Apart
      /\ c.m \notin {"setConfigs", "addVmToNode", "addNetIf"}
  BY ClassesApart
<1>4. CASE t.cb \in {"value", "rewind"}
  <2>1. t.q \notin Refused BY <1>1, ExpectedKinds DEF Replied
  <2>2. /\ t.n + 1 \in Reaches(t.m)
        /\ t.m = "modifyNetIf" /\ t.n + 1 = 2 => t.q = "getNetworkOfNone"
    BY <1>1, <1>4, <2>1, ChainNext
  <2>3. ASSUME NEW w \in Nat, w \in -1..2, t.q = "getNetworkOfNone" => w = 0,
               Rewinds(d, w, Without(i), ev)
        PROVE  Spared
    <3>1. \A x \in Context :
            (x.m = d.m /\ x.n = d.n + 1 /\ x.cbs = d.cbs /\ x.v = w) => Ready(x, Without(i))
      BY <1>1, <1>2, <1>3, <2>2, <2>3 DEF Ready
    <3> QED BY <1>2, <2>3, <3>1, RewindsSpare
  <2>4. t.cb = "value" => v \in Nat
    <3>1. t.cb = "value" => t.q \in Expected \cup {"getNetworkOfNone"}
      BY <1>1, <1>4, StagesByClass
    <3> QED BY <1>1, <3>1, ExpectedKinds DEF Replied
  <2>5. 0 \in Nat /\ 0 \in -1..2 OBVIOUS
  <2> QED BY <1>1, <1>4, <2>3, <2>4, <2>5, ValueOrRewind DEF Replied
<1>5. CASE t.cb \notin {"value", "rewind"}
  <2>1. d.n = 11 /\ Head(c.cbs) = "net_target_host" BY <1>1, <1>2, <1>5, StagesByClass
  <2>2. Waits(d, Without(i), ev) \/ \E e : Answers(d, e, Without(i), ev)
    <3>1. ~(d.n > 11) BY <2>1
    <3> QED BY <2>1, <3>1 DEF CallbackOf
  <2>3. Sound(d, Without(i)) BY <1>1, <1>2, <1>3 DEF Sound, NoKids
  <2> QED BY <1>2, <2>2, <2>3, WaitsSpare, AnswersSpare
<1> QED BY <1>4, <1>5

LEMMA MeekReply ==
  ASSUME EngineInv, up, NEW i, NEW c \in Context, NEW d \in Context, NEW v \in -1..2,
         Replied(i, c, v), Marked(c, d), c.m \in Remote,
         c.m \notin Apart \/ c.m \in Setters,
         Without(i) \in Flights, CallbackOf(Head(c.cbs), d, v, Without(i), ev)
  PROVE  Spared
<1>1. d.m = c.m /\ d.n = c.n /\ d.v = 0 /\ d.late = c.late /\ d.m \in Remote BY DEF Marked, Replied
<1>2. c.m \in Setters => NoKids(Without(i)) /\ c.n >= 0
  <2>1. i \in DOMAIN out /\ out \in Flights /\ Sound(c, out) BY DEF Replied, New, EngineInv
  <2>2. Sound(c, Without(i)) BY <2>1, WithoutSound
  <2> QED BY <2>2 DEF Sound
<1>3. CASE c.cbs \in Seq(Meek)
  <2>1. Head(c.cbs) \in Meek /\ d.cbs \in Seq(Meek) BY <1>3 DEF Marked
  <2> QED BY <1>1, <1>2, <2>1, MeekSpares
<1>4. CASE c.m \in Setters /\ Waiting(c, out)
  <2>1. PICK t \in Stages :
          /\ c.m = t.m /\ c.n = t.n /\ Head(c.cbs) = t.cb /\ d.cbs = <<>>
          /\ out[i].q = t.q /\ New(Without(i)) = {}
    BY <1>4, StageReply
  <2>2. c.n = 0 /\ Head(c.cbs) = "value" /\ out[i].q \in Expected BY <1>4, <2>1, StagesByClass
  <2>3. v \in Nat BY <2>2, ExpectedKinds DEF Replied
  <2>4. Rewinds(d, v, Without(i), ev) BY <2>2, ValueOrRewind
  <2>5. \A x \in Context :
          (x.m = d.m /\ x.n = d.n + 1 /\ x.cbs = d.cbs /\ x.v = v) => Ready(x, Without(i))
    <3>1. d.n + 1 >= 0 /\ d.n + 1 # 0 BY <1>1, <2>2
    <3>2. <<>> \in Seq(Meek) BY NoneOf
    <3> QED BY <1>1, <1>2, <1>4, <2>1, <2>3, <3>1, <3>2, ClassesApart DEF Ready
  <2> QED BY <1>1, <2>4, <2>5, RewindsSpare
<1> QED BY <1>3, <1>4 DEF Replied, Sound

LEMMA OtherReply ==
  ASSUME EngineInv, up, NEW i, NEW c \in Context, NEW d \in Context, NEW v \in -1..2,
         Replied(i, c, v), Marked(c, d), c.m \in {"addVmToNode", "addNetIf"}, c.m \in Remote,
         Without(i) \in Flights, CallbackOf(Head(c.cbs), d, v, Without(i), ev)
  PROVE  Spared
<1>1. d.m = c.m /\ d.n = c.n /\ d.v = 0 /\ d.late = c.late /\ d.m \in Remote BY DEF Marked, Replied
<1>2. /\ c.m \notin Readers /\ c.m \notin Setters /\ c.m \notin Chains /\ c.m \in Apart
  BY ClassesApart
<1>3. CASE c.m = "addVmToNode"
  <2>1. c.cbs \in Seq({"value"}) BY <1>3 DEF Replied, Sound
  <2>2. Head(c.cbs) = "value" /\ d.cbs \in Seq({"value"})
    <3>1. Head(c.cbs) \in {"value"} /\ Tail(c.cbs) \in Seq({"value"}) BY <2>1 DEF Marked
    <3> QED BY <3>1 DEF Marked
  <2>3. Rewinds(d, v, Without(i), ev) BY <2>2, ValueOrRewind
  <2>4. \A x \in Context :
          (x.m = d.m /\ x.n = d.n + 1 /\ x.cbs = d.cbs /\ x.v = v) => Ready(x, Without(i))
    BY <1>1, <1>2, <1>3, <2>2 DEF Ready
  <2> QED BY <1>1, <2>3, <2>4, RewindsSpare
<1>4. CASE c.m = "addNetIf"
  <2>1. c.cbs \in Seq({"rewind"}) /\ c.n <= 1 BY <1>4 DEF Replied, Sound
  <2>2. Head(c.cbs) = "rewind" /\ d.cbs \in Seq({"rewind"})
    <3>1. Head(c.cbs) \in {"rewind"} /\ Tail(c.cbs) \in Seq({"rewind"}) BY <2>1 DEF Marked
    <3> QED BY <3>1 DEF Marked
  <2>3. Rewinds(d, 0, Without(i), ev) BY <2>2, ValueOrRewind
  <2>4. \A x \in Context :
          (x.m = d.m /\ x.n = d.n + 1 /\ x.cbs = d.cbs /\ x.v = 0) => Ready(x, Without(i))
    <3>1. d.n + 1 <= 2
      <4>1. c.n \in Int BY DEF Context
      <4> QED BY <1>1, <2>1, <4>1
    <3> QED BY <1>1, <1>2, <1>4, <2>2, <3>1 DEF Ready
  <2>5. 0 \in -1..2 OBVIOUS
  <2> QED BY <1>1, <2>3, <2>4, <2>5, RewindsSpare
<1> QED BY <1>3, <1>4

\* A NULL in the chain: setConfigs alone has one, and its replies are swallowed.
LEMMA NullReply ==
  ASSUME EngineInv, NEW i, NEW c \in Context, NEW d \in Context, NEW v,
         Replied(i, c, v), Marked(c, d), Head(c.cbs) = "null"
  PROVE  Sound(d, Without(i)) /\ Kind(out[i].q) \notin {"rows", "enabled"}
<1>1. \A S : "null" \notin S => c.cbs \notin Seq(S)
  <2>1. \A S : c.cbs \in Seq(S) => Head(c.cbs) \in S BY DEF Marked
  <2> QED BY <2>1
<1>2. "null" \notin Meek /\ "null" \notin {"value"} /\ "null" \notin {"rewind"} BY DEF Meek
<1>3. ~Waiting(c, out)
  <2>1. ASSUME Waiting(c, out) PROVE FALSE
    <3>1. PICK t \in Stages : t.cb = "null" BY <2>1, StageReply
    <3>2. t.cb # "null" BY StagesByClass
    <3> QED BY <3>1, <3>2
  <2> QED BY <2>1
<1>4. c.m = "setConfigs"
  <2>1. c.m \in Apart BY <1>1, <1>2 DEF Replied, Sound
  <2>2. c.m \notin Readers \cup Chains BY <1>3 DEF Replied, Sound, Marked
  <2>3. c.m \notin Setters BY <1>1, <1>2, <1>3 DEF Replied, Sound
  <2>4. c.m # "addVmToNode" /\ c.m # "addNetIf" BY <1>1, <1>2 DEF Replied, Sound
  <2> QED BY <2>1, <2>2, <2>3, <2>4, ClassesApart
<1>5. c.cbs \in Seq({"null"}) /\ out[i].q = "setConfig" BY <1>4 DEF Replied, Sound
<1>6. d.cbs \in Seq({"null"}) BY <1>5 DEF Marked
<1>7. \A j \in New(Without(i)) : Without(i)[j].q = "setConfig"
  <2>1. i \in DOMAIN out /\ out \in Flights /\ Sound(c, out) BY DEF Replied, New, EngineInv
  <2>2. Sound(c, Without(i)) BY <2>1, WithoutSound
  <2> QED BY <1>4, <2>2 DEF Sound
<1>8. d.m = "setConfigs" BY <1>4 DEF Marked
<1> QED BY <1>5, <1>6, <1>7, <1>8, ClassesApart, ExpectedKinds DEF Sound

LEMMA DeliverSpares ==
  ASSUME EngineInv, up, NEW i \in DOMAIN out, NEW c \in Context, c.m \in Remote, c.v = 0,
         NEW v \in -1..2, NEW old, ~Exempt(c) => Replied(i, c, v),
         Deliver(out[i].q, c, v, old, Without(i))
  PROVE  Spared
<1>1. Without(i) \in Flights /\ out \in Flights BY WithoutFlights DEF EngineInv
<1>2. CASE c.cbs = <<>>
  <2>1. Waits(c, Without(i), Append(ev, [k |-> "result", old |-> old])) BY <1>2 DEF Deliver
  <2>2. ~Exempt(c) => Sound(c, Without(i)) BY <1>1, WithoutSound DEF Replied
  <2> QED BY <2>1, <2>2, WaitsSpare
<1>3. CASE c.cbs # <<>>
  <2> DEFINE d == [c EXCEPT !.cbs = Tail(@)]
  <2>1. Head(c.cbs) \in Callbacks /\ Tail(c.cbs) \in Seq(Callbacks) BY <1>3 DEF Context
  <2>2. d \in Context /\ Marked(c, d) BY <1>3, <2>1 DEF Context, Marked
  <2>3. \/ Head(c.cbs) # "null" /\ CallbackOf(Head(c.cbs), d, v, Without(i), ev)
        \/ /\ Head(c.cbs) = "null" /\ Kind(out[i].q) \in {"rows", "enabled"}
           /\ Dies(d, Without(i), ev)
        \/ Head(c.cbs) = "null" /\ Waits(d, Without(i), ev)
    BY <1>3 DEF Deliver
  <2> HIDE DEF d
  <2>4. d.m = c.m /\ d.v = 0 /\ d.m \in Remote /\ (Exempt(d) <=> Exempt(c))
    BY <2>2 DEF Marked, Exempt
  <2>5. CASE Head(c.cbs) = "null"
    <3>1. ~Exempt(c) => Sound(d, Without(i)) /\ Kind(out[i].q) \notin {"rows", "enabled"}
      BY <2>2, <2>5, NullReply
    <3>2. CASE Kind(out[i].q) \in {"rows", "enabled"} /\ Dies(d, Without(i), ev)
      BY <2>4, <3>1, <3>2, DiesSpare
    <3>3. CASE Waits(d, Without(i), ev) BY <2>4, <3>1, <3>3, WaitsSpare
    <3> QED BY <2>3, <2>5, <3>2, <3>3
  <2>6. CASE Head(c.cbs) # "null" /\ Exempt(c)
    <3>1. CallbackOf(Head(c.cbs), d, v, Without(i), ev) BY <2>3, <2>6
    <3> QED BY <1>1, <2>1, <2>2, <2>4, <2>6, <3>1, ExemptSpares
  <2>7. CASE Head(c.cbs) # "null" /\ ~Exempt(c)
    <3>1. CallbackOf(Head(c.cbs), d, v, Without(i), ev) BY <2>3, <2>7
    <3>2. Replied(i, c, v) BY <2>7
    <3>3. c.m # "setConfigs"
      <4>1. ASSUME c.m = "setConfigs" PROVE FALSE
        <5>1. c.cbs \in Seq({"null"}) BY <3>2, <4>1 DEF Replied, Sound
        <5>2. Head(c.cbs) \in {"null"} BY <1>3, <5>1
        <5> QED BY <5>2, <2>7
      <4> QED BY <4>1
    <3>4. \/ c.m \in Readers \/ c.m \in Chains \/ c.m \in Setters \/ c.m \notin Apart
          \/ c.m \in {"addVmToNode", "addNetIf"}
      BY <3>3, ClassesApart
    <3> QED BY <1>1, <2>2, <3>1, <3>2, <3>4, ReaderReply, ChainReply, MeekReply, OtherReply
  <2> QED BY <2>5, <2>6, <2>7
<1> QED BY <1>2, <1>3

LEMMA CarriedValues ==
  ASSUME NEW q, NEW e, NEW r \in Rows(q)
  PROVE  /\ Kind(q) \in Carried => ValueAfter(q, e, r) \in Nat
         /\ q = "getNetworkOfNone" => ValueAfter(q, e, r) = 0
<1>1. r \in Nat
  <2>1. r \in 0..2 BY RowsAreFew
  <2> QED BY <2>1
<1>2. Kind(q) \in Carried => ValueAfter(q, e, r) \in Nat
  BY <1>1 DEF Carried, ValueAfter
<1>3. q = "getNetworkOfNone" => ValueAfter(q, e, r) = 0
  BY DEF ValueAfter, Kind, Rows
<1> QED BY <1>2, <1>3

LEMMA ReturnsSpare ==
  ASSUME EngineInv, CrashInv, up, NEW i \in DOMAIN out, QueryReturns(i)
  PROVE  Spared
<1> DEFINE q == out[i].q
           old == out[i].old
           c == [ctx EXCEPT !.late = @ \/ old, !.st = StateAfter(ctx)]
           c1(r) == [c EXCEPT !.e = ErrorAfter(q, @, r),
                              !.wrote = @ \/ (~old /\ Kind(q) \in Writes /\ r > 0)]
           cm == [c EXCEPT !.e = "DB_MULTI", !.st = TRUE, !.many = @ \/ Kind(q) \in Single]
           ce(e) == [c EXCEPT !.e = e]
           ct == [c EXCEPT !.st = TRUE]
<1>1. PICK r \in Rows(q) :
        \/ ~Busy /\ Waits(ctx, Without(i), Append(ev, [k |-> "result", old |-> TRUE]))
        \/ Busy /\ Raise(cm, old, Without(i))
        \/ Busy /\ \E e \in {"UNKNOWN_RESOURCE", "NODE_DISABLED", "NODE_UNCONFIGURED"} :
                     Raise(ce(e), old, Without(i))
        \/ Busy /\ Kind(q) = "enabled" /\ Deliver(q, ct, Wild, old, Without(i))
        \/ Busy /\ Deliver(q, c1(r), ValueAfter(q, c1(r).e, r), old, Without(i))
  BY DEF QueryReturns
<1>2. Kind(q) # "bad" BY DEF QueryReturns
<1>3. out \in Flights /\ ctx \in Context /\ ctx.v = 0 /\ old \in BOOLEAN
  BY InFlight DEF EngineInv, CrashInv
<1>4. CASE ~Busy
  BY <1>1, <1>3, <1>4, WaitsSpare DEF Busy
<1>5. CASE Busy
  <2>0. ctx.m \in Remote BY <1>3, <1>5 DEF Context, Busy
  <2>1. c \in Context
    <3>1. (ctx.late \/ old) \in BOOLEAN /\ StateAfter(ctx) \in BOOLEAN BY DEF StateAfter
    <3> HIDE DEF old
    <3> QED BY <3>1, <1>3 DEF Context
  <2>2. /\ c.m = ctx.m /\ c.n = ctx.n /\ c.cbs = ctx.cbs /\ c.v = ctx.v
        /\ ~c.late => ~ctx.late /\ i \in New(out)
    BY <1>3 DEF Context, New
  <2> HIDE DEF c, q, old
  \* The contexts of the five cases differ from ctx in nothing that Sound looks at.
  <2>3. ASSUME NEW d \in Context, d.m = c.m, d.n = c.n, d.cbs = c.cbs, d.v = c.v, d.late = c.late
        PROVE  /\ d.v = 0 /\ d.m \in Remote
               /\ ~Exempt(d) => i \in New(out) /\ Sound(d, out)
    <3>1. ~Exempt(d) => i \in New(out) /\ Sound(ctx, out)
      BY <1>5, <2>2, <2>3 DEF Exempt, CrashInv
    <3>2. Sound(ctx, out) => Sound(d, out) BY <2>2, <2>3, SameSound
    <3> QED BY <1>3, <2>0, <2>2, <2>3, <3>1, <3>2
  <2>4. ASSUME NEW d \in Context, d.m = c.m, d.n = c.n, d.cbs = c.cbs, d.v = c.v, d.late = c.late,
               Raise(d, old, Without(i))
        PROVE  Spared
    <3>1. Waits(d, Without(i), Append(ev, [k |-> "error", old |-> old])) BY <2>4 DEF Raise
    <3>2. d.v = 0 /\ (~Exempt(d) => Sound(d, out)) BY <2>3, <2>4
    <3>3. ~Exempt(d) => Sound(d, Without(i)) BY <1>3, <3>2, WithoutSound
    <3> QED BY <3>1, <3>2, <3>3, WaitsSpare
  <2>5. ASSUME NEW d \in Context, d.m = c.m, d.n = c.n, d.cbs = c.cbs, d.v = c.v, d.late = c.late,
               NEW v \in -1..2, Kind(q) \in Carried => v \in Nat, q = "getNetworkOfNone" => v = 0,
               Deliver(q, d, v, old, Without(i))
        PROVE  Spared
    <3>1. d.v = 0 /\ d.m \in Remote /\ (~Exempt(d) => i \in New(out) /\ Sound(d, out))
      BY <2>3, <2>5
    <3>2. ~Exempt(d) => Replied(i, d, v) BY <1>2, <2>5, <3>1 DEF Replied, q
    <3>3. Deliver(out[i].q, d, v, old, Without(i)) BY <2>5 DEF q
    <3> QED BY <3>1, <3>2, <3>3, DeliverSpares
  <2>6. \A e \in Errors : /\ ce(e) \in Context /\ ce(e).m = c.m /\ ce(e).n = c.n
                          /\ ce(e).cbs = c.cbs /\ ce(e).v = c.v /\ ce(e).late = c.late
    BY <2>1 DEF Context
  <2>7. /\ ct \in Context /\ ct.m = c.m /\ ct.n = c.n
        /\ ct.cbs = c.cbs /\ ct.v = c.v /\ ct.late = c.late
    BY <2>1 DEF Context
  <2>8. /\ cm \in Context /\ cm.m = c.m /\ cm.n = c.n
        /\ cm.cbs = c.cbs /\ cm.v = c.v /\ cm.late = c.late
    <3>1. (c.many \/ Kind(q) \in Single) \in BOOLEAN /\ "DB_MULTI" \in Errors BY DEF Errors
    <3> QED BY <3>1, <2>1 DEF Context
  <2>9. /\ c1(r) \in Context /\ c1(r).m = c.m /\ c1(r).n = c.n
        /\ c1(r).cbs = c.cbs /\ c1(r).v = c.v /\ c1(r).late = c.late
    <3>1. (c.wrote \/ (~old /\ Kind(q) \in Writes /\ r > 0)) \in BOOLEAN OBVIOUS
    <3>2. ErrorAfter(q, c.e, r) \in Errors BY <2>1, ErrorsStay DEF Context
    <3> QED BY <3>1, <3>2, <2>1 DEF Context
  <2>10. {"UNKNOWN_RESOURCE", "NODE_DISABLED", "NODE_UNCONFIGURED"} \subseteq Errors BY DEF Errors
  <2> HIDE DEF c1, cm, ce, ct
  <2>11. CASE Raise(cm, old, Without(i)) BY <2>4, <2>8, <2>11
  <2>12. CASE \E e \in {"UNKNOWN_RESOURCE", "NODE_DISABLED", "NODE_UNCONFIGURED"} : Raise(ce(e), old, Without(i))
    BY <2>4, <2>6, <2>10, <2>12
  <2>13. CASE Kind(q) = "enabled" /\ Deliver(q, ct, Wild, old, Without(i))
    <3>1. Wild \in -1..2 BY DEF Wild
    <3>2. Kind(q) \notin Carried /\ q # "getNetworkOfNone" BY <2>13 DEF Carried, Kind
    <3> QED BY <2>5, <2>7, <2>13, <3>1, <3>2
  <2>14. CASE Deliver(q, c1(r), ValueAfter(q, c1(r).e, r), old, Without(i))
    <3>1. ValueAfter(q, c1(r).e, r) \in -1..2 BY RowsAreFew
    <3>2. /\ Kind(q) \in Carried => ValueAfter(q, c1(r).e, r) \in Nat
          /\ q = "getNetworkOfNone" => ValueAfter(q, c1(r).e, r) = 0
      BY CarriedValues
    <3> QED BY <2>5, <2>9, <2>14, <3>1, <3>2
  <2> QED BY <1>1, <1>5, <2>11, <2>12, <2>13, <2>14
<1> QED BY <1>4, <1>5

\* The invariant of the engine that keeps the server alive: whatever call is
\* served, what it waits for is what its method counts on.
LEMMA CrashTyped == Spec => [](CrashInv /\ CrashesOnlyIn)
<1> DEFINE Inv == CrashInv /\ CrashesOnlyIn
<1>1. Init => Inv
  BY DEF Init, CrashInv, CrashesOnlyIn, Busy, Idle, Fresh
<1>2. ASSUME EngineInv, Inv, [Next]_vars PROVE Inv'
  <2>1. ASSUME Spared PROVE Inv'
    <3>1. up' => ctx'.v = 0 /\ (ctx'.m # "none" /\ ~Exempt(ctx') => Sound(ctx', out'))
      BY <2>1 DEF Spared
    <3>2. CrashInv' BY <3>1 DEF CrashInv, Busy, Exempt, Sound, Waiting, WaitsAt, NoKids, New
    <3>3. CrashesOnlyIn' BY <2>1 DEF Spared, Exempt, CrashesOnlyIn
    <3> QED BY <3>2, <3>3
  <2>2. CASE Call BY <1>2, <2>1, <2>2, CallSpares
  <2>3. CASE Reply
    <3>1. PICK i \in DOMAIN out : QueryFails(i) \/ QueryReturns(i) \/ KidReturns(i) \/ KidLost(i)
      BY <2>3 DEF Reply
    <3>2. up BY <2>3 DEF Reply
    <3> QED BY <1>2, <2>1, <3>1, <3>2, FailsSpare, ReturnsSpare, KidSpares
  <2>4. CASE HandleEvent BY <1>2, <2>1, <2>4, HandleEventSpares
  <2>5. CASE UseAfterFree
    <3> DEFINE c == Fresh("detachDiskFromStorage")
    <3>1. Exempt(c) BY FreedIsKnown DEF Exempt, Fresh
    <3> HIDE DEF c
    <3>2. Dies(c, <<>>, <<>>) BY <2>5 DEF UseAfterFree, c
    <3> QED BY <2>1, <3>1, <3>2, DiesSpare
  <2>6. CASE LateAddJob \/ UNCHANGED vars
    <3>1. UNCHANGED <<ctx, out, up>> BY <2>6 DEF LateAddJob, vars
    <3> QED BY <1>2, <3>1
        DEF CrashInv, CrashesOnlyIn, Busy, Exempt, Sound, Waiting, WaitsAt, NoKids, New
  <2> QED BY <1>2, <2>2, <2>3, <2>4, <2>5, <2>6 DEF Next
<1> QED BY <1>1, <1>2, EngineTyped, PTL DEF Spec

\* No method brings the server down but those that dereference NULL or a number
\* or call a function that was not loaded; all the others, in any number of
\* calls and whatever the database answers, do so only when a reply or an event
\* of an earlier call has reached them.
THEOREM ServerLives == Spec => []CrashesOnlyIn
BY CrashTyped, PTL
=============================================================================
