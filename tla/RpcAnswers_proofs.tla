-------------------------- MODULE RpcAnswers_proofs --------------------------
(***************************************************************************)
(* What an answer says of the call it answers.  The engine's steps are     *)
(* first brought into cases (what a reply, a callback, an entry comes to). *)
(*                                                                         *)
(* DB_MULTI is told only to a client whose look-up for one row found more. *)
(* event_cb takes ctx->state of the reply that happens to come, not of the *)
(* query that set it.  What saves all methods but two is what they have    *)
(* under way together: every method is put into one of five classes by the *)
(* queries it sends side by side.  The invariant (AnswerInv) says for each *)
(* class what is in flight and whether ctx->state may be set then (Held);  *)
(* an entry that meets what it expects (Fits) sends no more than its class *)
(* allows.                                                                 *)
(*                                                                         *)
(* No query or event of a call outlives its answer, but those of the       *)
(* methods in LeavesQueries.  The other methods fall into four classes     *)
(* (Careful, Straight, Listers, Counters) by how they wait; the invariant  *)
(* (LeftInv) says that a call has one event to come, or that what it has   *)
(* sent is what its callbacks and its count still wait for (Under); an     *)
(* entry is made with nothing under way (Afresh), and sends nothing or     *)
(* waits for what it sends (Proper).                                       *)
(***************************************************************************)
EXTENDS RpcCall_proofs

-----------------------------------------------------------------------------
(* What one step of the engine comes to, for the proofs that follow.         *)

\* d is the context c that waits, but for what a reply brings.
Alike(c, d) ==
  /\ d \in Context /\ d.m = c.m /\ d.n = c.n /\ d.cbs = c.cbs /\ d.v = c.v
  /\ d.o = c.o /\ d.fault = c.fault /\ (c.late => d.late) /\ (c.bad => d.bad)

\* A query that fails, or a reply that is refused: an error event is made.
Bounced(c, d, q) ==
  /\ Alike(c, d) /\ d.wrote = c.wrote
  /\ \/ d.e = "DB_QUERY" /\ d.bad /\ ~d.st /\ d.many = c.many
     \/ /\ d.e = "DB_MULTI" /\ c.st /\ Kind(q) \notin Writes \cup {"bad"} /\ 2 \in Rows(q)
        /\ d.many = (c.many \/ Kind(q) \in Single)
     \/ /\ d.e \in {"UNKNOWN_RESOURCE", "NODE_DISABLED", "NODE_UNCONFIGURED"} /\ ~d.st /\ d.many = c.many
        /\ Kind(q) = "enabled"

\* A reply that is delivered with the value v.
Delivered(c, d, q, v) ==
  /\ Alike(c, d) /\ d.many = c.many /\ d.bad = c.bad /\ Kind(q) # "bad"
  /\ \/ Kind(q) = "enabled" /\ d.e = c.e /\ d.wrote = c.wrote
     \/ /\ ~d.st
        /\ \E r \in Rows(q) :
             /\ d.e = ErrorAfter(q, c.e, r) /\ v = ValueAfter(q, d.e, r)
             /\ ~d.late => d.wrote = (c.wrote \/ (Kind(q) \in Writes /\ r > 0))

LEMMA ReplyCases ==
  ASSUME EngineInv, Busy, NEW i \in DOMAIN out, QueryFails(i) \/ QueryReturns(i)
  PROVE  \E d \in Context :
           /\ out[i].old => d.late
           /\ \/ Bounced(ctx, d, out[i].q) /\ Raise(d, out[i].old, Without(i))
              \/ \E v \in -1..2 : /\ Delivered(ctx, d, out[i].q, v)
                                  /\ Deliver(out[i].q, d, v, out[i].old, Without(i))
<1> DEFINE q == out[i].q
           old == out[i].old
           c == [ctx EXCEPT !.late = @ \/ old, !.st = FALSE]
           cf == [ctx EXCEPT !.e = "DB_QUERY", !.st = FALSE, !.bad = TRUE, !.late = @ \/ old]
           c1(r) == [c EXCEPT !.e = ErrorAfter(q, @, r),
                              !.wrote = @ \/ (~old /\ Kind(q) \in Writes /\ r > 0)]
           cm == [c EXCEPT !.e = "DB_MULTI", !.st = TRUE, !.many = @ \/ Kind(q) \in Single]
           ce(e) == [c EXCEPT !.e = e]
           ct == [c EXCEPT !.st = TRUE]
<1>0. ctx \in Context /\ old \in BOOLEAN BY InFlight DEF EngineInv
<1>1. {"DB_QUERY", "DB_MULTI", "UNKNOWN_RESOURCE", "NODE_DISABLED", "NODE_UNCONFIGURED"} \subseteq Errors
  BY DEF Errors
<1>2. CASE QueryFails(i)
  <2>1. Raise(cf, old, Without(i)) BY <1>2 DEF QueryFails
  <2>2. cf \in Context /\ Bounced(ctx, cf, q) /\ (old => cf.late)
    <3>1. (ctx.late \/ old) \in BOOLEAN OBVIOUS
    <3> HIDE DEF old
    <3> QED BY <1>0, <1>1, <3>1 DEF Context, Bounced, Alike
  <2> HIDE DEF cf
  <2> QED BY <2>1, <2>2
<1>3. CASE QueryReturns(i)
  <2>1. Kind(q) # "bad" /\ q \notin Kids BY <1>3 DEF QueryReturns
  <2>2. PICK r \in Rows(q) :
          \/ Kind(q) \notin Writes /\ ctx.st /\ r > 1 /\ Raise(cm, old, Without(i))
          \/ Kind(q) = "enabled" /\ \E e \in {"UNKNOWN_RESOURCE", "NODE_DISABLED", "NODE_UNCONFIGURED"} :
               Raise(ce(e), old, Without(i))
          \/ Kind(q) = "enabled" /\ Deliver(q, ct, Wild, old, Without(i))
          \/ Deliver(q, c1(r), ValueAfter(q, c1(r).e, r), old, Without(i))
    BY <1>3 DEF QueryReturns, StateAfter
  <2>3. c \in Context /\ Alike(ctx, c) /\ (old => c.late) /\ ~c.st
        /\ c.many = ctx.many /\ c.bad = ctx.bad /\ c.wrote = ctx.wrote /\ c.e = ctx.e
    <3>1. (ctx.late \/ old) \in BOOLEAN OBVIOUS
    <3> HIDE DEF old
    <3> QED BY <1>0, <3>1 DEF Context, Alike
  <2> HIDE DEF c
  <2>4. CASE Kind(q) \notin Writes /\ ctx.st /\ r > 1 /\ Raise(cm, old, Without(i))
    <3>1. r = 2
      <4>1. r \in 0..2 BY RowsAreFew
      <4> QED BY <2>4, <4>1
    <3>2. cm \in Context /\ (old => cm.late) /\ Bounced(ctx, cm, q)
      <4>1. (ctx.many \/ Kind(q) \in Single) \in BOOLEAN OBVIOUS
      <4>2. cm = [c EXCEPT !.e = "DB_MULTI", !.st = TRUE, !.many = ctx.many \/ Kind(q) \in Single]
        BY <2>3
      <4> HIDE DEF cm, q, old
      <4>3. cm \in Context /\ Alike(ctx, cm) BY <1>1, <2>3, <4>1, <4>2 DEF Context, Alike
      <4>4. /\ cm.e = "DB_MULTI" /\ cm.many = (ctx.many \/ Kind(q) \in Single) /\ cm.wrote = ctx.wrote
            /\ old => cm.late
        BY <2>3, <4>2 DEF Context
      <4> QED BY <2>1, <2>4, <3>1, <4>3, <4>4 DEF Bounced
    <3> HIDE DEF cm
    <3> QED BY <2>4, <3>2
  <2>5. ASSUME NEW e \in {"UNKNOWN_RESOURCE", "NODE_DISABLED", "NODE_UNCONFIGURED"},
               Kind(q) = "enabled", Raise(ce(e), old, Without(i))
        PROVE  \E d \in Context : /\ old => d.late
                                  /\ Bounced(ctx, d, q) /\ Raise(d, old, Without(i))
    <3>1. ce(e) \in Context /\ (old => ce(e).late) /\ Bounced(ctx, ce(e), q)
      <4> HIDE DEF q, old
      <4> QED BY <1>1, <2>3, <2>5 DEF Context, Bounced, Alike
    <3> HIDE DEF ce
    <3> QED BY <2>5, <3>1
  <2>6. CASE Kind(q) = "enabled" /\ Deliver(q, ct, Wild, old, Without(i))
    <3>1. ct \in Context /\ (old => ct.late) /\ Delivered(ctx, ct, q, Wild)
      <4> HIDE DEF q, old
      <4> QED BY <2>1, <2>3, <2>6 DEF Context, Delivered, Alike
    <3>2. Wild \in -1..2 BY DEF Wild
    <3> HIDE DEF ct
    <3> QED BY <2>6, <3>1, <3>2
  <2>7. CASE Deliver(q, c1(r), ValueAfter(q, c1(r).e, r), old, Without(i))
    <3>1. c1(r) \in Context /\ (old => c1(r).late) /\ Delivered(ctx, c1(r), q, ValueAfter(q, c1(r).e, r))
      <4>1. (ctx.wrote \/ (~old /\ Kind(q) \in Writes /\ r > 0)) \in BOOLEAN OBVIOUS
      <4>2. ErrorAfter(q, ctx.e, r) \in Errors BY <1>0, ErrorsStay DEF Context
      <4>3. c1(r) = [c EXCEPT !.e = ErrorAfter(q, ctx.e, r),
                              !.wrote = ctx.wrote \/ (~old /\ Kind(q) \in Writes /\ r > 0)]
        BY <2>3
      <4> HIDE DEF c1, q, old
      <4>4. c1(r) \in Context /\ Alike(ctx, c1(r)) BY <2>3, <4>1, <4>2, <4>3 DEF Context, Alike
      <4>5. /\ c1(r).e = ErrorAfter(q, ctx.e, r) /\ ~c1(r).st /\ c1(r).many = ctx.many
            /\ c1(r).bad = ctx.bad
            /\ c1(r).wrote = (ctx.wrote \/ (~old /\ Kind(q) \in Writes /\ r > 0))
            /\ old => c1(r).late
        BY <2>3, <4>3 DEF Context
      <4> QED BY <2>1, <4>4, <4>5 DEF Delivered
    <3>2. ValueAfter(q, c1(r).e, r) \in -1..2 BY RowsAreFew
    <3> HIDE DEF c1
    <3> QED BY <2>7, <3>1, <3>2
  <2> QED BY <2>2, <2>4, <2>5, <2>6, <2>7
<1> QED BY <1>2, <1>3

\* The context without the first of its callbacks.
Popped(c) == [c EXCEPT !.cbs = Tail(@)]

LEMMA PoppedContext ==
  ASSUME NEW c \in Context, c.cbs # <<>>
  PROVE  /\ Popped(c) \in Context /\ Head(c.cbs) \in Callbacks
         /\ Popped(c).cbs = Tail(c.cbs) /\ Tail(c.cbs) \in Seq(Callbacks)
         /\ Popped(c).m = c.m /\ Popped(c).n = c.n /\ Popped(c).e = c.e /\ Popped(c).fault = c.fault
         /\ Popped(c).v = c.v /\ Popped(c).o = c.o /\ Popped(c).st = c.st /\ Popped(c).late = c.late
         /\ Popped(c).many = c.many /\ Popped(c).bad = c.bad /\ Popped(c).wrote = c.wrote
<1>1. c.cbs \in Seq(Callbacks) BY DEF Context
<1>2. Head(c.cbs) \in Callbacks /\ Tail(c.cbs) \in Seq(Callbacks) BY <1>1
<1> QED BY <1>2 DEF Popped, Context

LEMMA DeliverCases ==
  ASSUME NEW q, NEW c, NEW v, NEW old, NEW qs, Deliver(q, c, v, old, qs)
  PROVE  \/ c.cbs = <<>> /\ Waits(c, qs, Append(ev, [k |-> "result", old |-> old]))
         \/ /\ c.cbs # <<>> /\ Head(c.cbs) = "null"
            /\ Waits(Popped(c), qs, ev) \/ Dies(Popped(c), qs, ev)
         \/ /\ c.cbs # <<>> /\ Head(c.cbs) # "null"
            /\ CallbackOf(Head(c.cbs), Popped(c), v, qs, ev)
BY DEF Deliver, Popped

\* A callback that enters the method again does so with this context.
Reenters(cb, c, v, x) ==
  /\ x \in Context /\ x.m = c.m /\ x.n = c.n + 1 /\ x.cbs = c.cbs /\ x.o = c.o /\ x.st = c.st
  /\ x.late = c.late /\ x.many = c.many /\ x.bad = c.bad /\ x.wrote = c.wrote
  /\ \/ cb \in {"rewind", "int_rewind"} /\ x.v = 0 /\ x.e = c.e
     \/ cb \in {"value", "job_node_addr", "job_module"} /\ x.v = v /\ x.e = c.e
     \/ cb \in {"user_name", "user_lang"} /\ x.v = 0 /\ x.e = OK
  /\ x.fault = IF cb = "int_rewind" THEN Fault(c) ELSE c.fault
  /\ cb = "job_node_addr" => v = 2
  /\ cb \in {"job_node_addr", "job_module"} => c.e = OK

\* An answer that is not one of the database's errors, or is the call's own.
Told(c, e) ==
  \/ e = Fault(c)
  \/ e \in {"ENTITY_ALREADY_EXISTS", "INVALID_PARAMETER", "NOT_AUTHORIZED", "JOB_CREATION_FAILED",
            "no error"}
Endings ==
  {"answer", "job_node_addr", "job_node_addr_wild", "job_module", "job_module_of_none",
   "net_target_host", "user_name", "user_lang", "group_modify", "group_add", "generatemac",
   "ptr_job", "ptr_int", "jobs_cb_add", "jobs_cb_get", "jobs_resource"}
Senders == {"group_modify", "group_add", "generatemac", "jobs_cb_get"}

LEMMA RewindsEnters ==
  ASSUME NEW c \in Context, NEW v \in -1..2, NEW qs, NEW es, Rewinds(c, v, qs, es)
  PROVE  \E x \in Context :
           /\ Enter(x, qs, es)
           /\ x.m = c.m /\ x.n = c.n + 1 /\ x.v = v /\ x.e = c.e /\ x.fault = c.fault /\ x.cbs = c.cbs
           /\ x.o = c.o /\ x.st = c.st /\ x.late = c.late /\ x.many = c.many /\ x.bad = c.bad
           /\ x.wrote = c.wrote
<1> DEFINE x == [c EXCEPT !.n = c.n + 1, !.v = v]
<1>1. c.n + 1 \in Int BY DEF Context
<1>2. /\ x \in Context
      /\ x.m = c.m /\ x.n = c.n + 1 /\ x.v = v /\ x.e = c.e /\ x.fault = c.fault /\ x.cbs = c.cbs
      /\ x.o = c.o /\ x.st = c.st /\ x.late = c.late /\ x.many = c.many /\ x.bad = c.bad
      /\ x.wrote = c.wrote
  BY <1>1 DEF Context
<1>3. Enter(x, qs, es) BY DEF Rewinds
<1> HIDE DEF x
<1> QED BY <1>2, <1>3

LEMMA CallbackOutcomes ==
  ASSUME NEW cb \in Callbacks \ {"null"}, NEW c \in Context, NEW v \in -1..2, NEW qs, NEW es,
         CallbackOf(cb, c, v, qs, es)
  PROVE  \/ \E x \in Context : Reenters(cb, c, v, x) /\ Enter(x, qs, es)
         \/ cb \in Endings /\ \E e : (Told(c, e) \/ (cb = "ptr_int" /\ e = OK)) /\ Answers(c, e, qs, es)
         \/ cb \in {"net_target_host", "net_target_addr", "jobs_cb_get"} /\ Waits(c, qs, es)
         \/ Dies(c, qs, es)
         \/ cb \in Senders /\ \E q \in SentBack : \E k \in {<<>>, <<"generatemac">>, <<"jobs_resource">>} :
              Sends(c, q, k, qs, es)
<1>0. /\ Faulty(c) \in Context /\ Clean(c) \in Context
      /\ \A d \in {Faulty(c), Clean(c)} :
           /\ d.m = c.m /\ d.n = c.n /\ d.cbs = c.cbs /\ d.o = c.o /\ d.st = c.st
           /\ d.late = c.late /\ d.many = c.many /\ d.bad = c.bad /\ d.wrote = c.wrote
      /\ Faulty(c).e = c.e /\ Faulty(c).fault = Fault(c)
      /\ Clean(c).e = OK /\ Clean(c).fault = c.fault
  BY DEF Faulty, Fault, Clean, Context, Errors, OK
<1>1. 0 \in -1..2 OBVIOUS
<1>2. CASE cb \in {"rewind", "value"}
  <2>1. Rewinds(c, IF cb = "value" THEN v ELSE 0, qs, es) BY <1>2 DEF CallbackOf
  <2> QED BY <1>1, <1>2, <2>1, RewindsEnters DEF Reenters
<1>3. CASE cb = "int_rewind"
  <2>1. Rewinds(Faulty(c), 0, qs, es) BY <1>3 DEF CallbackOf, Faulty
  <2> QED BY <1>0, <1>1, <1>3, <2>1, RewindsEnters DEF Reenters
<1>4. CASE cb \in {"job_node_addr", "job_module"}
  <2>1. \/ Rewinds(c, v, qs, es) /\ c.e = OK /\ (cb = "job_node_addr" => v = 2)
        \/ Answers(c, Fault(c), qs, es)
    BY <1>4 DEF CallbackOf
  <2>2. CASE Rewinds(c, v, qs, es) /\ c.e = OK /\ (cb = "job_node_addr" => v = 2)
    BY <1>4, <2>2, RewindsEnters DEF Reenters
  <2> QED BY <1>4, <2>1, <2>2 DEF Endings, Told
<1>5. CASE cb \in {"user_name", "user_lang"}
  <2>1. \/ c.e = OK /\ Rewinds(c, 0, qs, es)
        \/ Rewinds(Clean(c), 0, qs, es)
        \/ \E e \in {"ENTITY_ALREADY_EXISTS", "INVALID_PARAMETER"} : Answers(c, e, qs, es)
    BY <1>5 DEF CallbackOf, Clean
  <2>2. CASE c.e = OK /\ Rewinds(c, 0, qs, es)
    BY <1>1, <1>5, <2>2, RewindsEnters DEF Reenters
  <2>3. CASE Rewinds(Clean(c), 0, qs, es)
    BY <1>0, <1>1, <1>5, <2>3, RewindsEnters DEF Reenters
  <2> QED BY <1>5, <2>1, <2>2, <2>3 DEF Endings, Told
<1>6. CASE cb \in {"answer", "job_node_addr_wild", "job_module_of_none", "net_target_host", "net_target_addr",
                   "ptr_job", "ptr_int", "jobs_cb_add", "jobs_resource"}
  BY <1>6 DEF CallbackOf, Endings, Told
<1>7. CASE cb \in Senders
  BY <1>7 DEF CallbackOf, Clean, Sends, SentBack, Senders, Endings, Told
<1> QED BY <1>2, <1>3, <1>4, <1>5, <1>6, <1>7 DEF Callbacks, Meek, Senders

\* The entry of a method.
LEMMA EnterCases ==
  ASSUME NEW c \in Context, c.m \in Remote, NEW qs, NEW es, Enter(c, qs, es)
  PROVE  \/ Dies(c, qs, es)
         \/ \E w \in -1..2 : \E s \in StepOf(c.m, c.n, c.e, w, c.o) :
              /\ s \in Typed /\ Loaded(s) /\ w = IF c.v = Wild /\ c.m \notin TakesNumbers THEN 1 ELSE c.v
              /\ \/ After(s, c.e) # OK /\ Answers(Entered(c, s), Fault(Entered(c, s)), Sent(qs, s.ask), es)
                 \/ /\ After(s, c.e) = OK /\ s.ret /\ c.fault = OK
                    /\ Answers(Entered(c, s), OK, Sent(qs, s.ask), es)
                 \/ /\ After(s, c.e) = OK /\ (s.ret => c.fault # OK)
                    /\ Waits(Entered(c, s), Sent(qs, s.ask), es)
<1> DEFINE w == IF c.v = Wild /\ c.m \notin TakesNumbers THEN 1 ELSE c.v
<1>1. PICK s \in Steps(c) :
        \/ Dies(c, qs, es)
        \/ /\ ~s.crash /\ Loaded(s)
           /\ \/ After(s, c.e) # OK /\ Answers(Entered(c, s), Fault(Entered(c, s)), Sent(qs, s.ask), es)
              \/ /\ After(s, c.e) = OK /\ s.ret /\ c.fault = OK
                 /\ Answers(Entered(c, s), OK, Sent(qs, s.ask), es)
              \/ /\ After(s, c.e) = OK /\ (s.ret => c.fault # OK)
                 /\ Waits(Entered(c, s), Sent(qs, s.ask), es)
  BY DEF Enter
<1>2. ASSUME ~s.crash PROVE s \in Typed /\ s \in StepOf(c.m, c.n, c.e, w, c.o)
  <2>1. s \in Typed BY <1>2, StepsTyped, Survives
  <2>2. s # Crash BY <1>2, Survives
  <2> QED BY <2>1, <2>2 DEF Steps
<1>3. w \in -1..2 BY DEF Context
<1> HIDE DEF w
<1> QED BY <1>1, <1>2, <1>3 DEF w

\* A context of its own has come back to c.
Rejoins(c, x, q) ==
  /\ x \in Context /\ x.m = c.m /\ x.n = c.n - 1 /\ x.cbs = c.cbs /\ x.v = c.v /\ x.o = c.o
  /\ x.st = c.st /\ x.fault = c.fault /\ x.many = c.many /\ x.bad = c.bad /\ x.wrote = c.wrote
  /\ x.e \in KidError(q, c.e) /\ (c.late => x.late)

LEMMA KidCases ==
  ASSUME EngineInv, Busy, NEW i \in DOMAIN out, KidReturns(i) \/ KidLost(i)
  PROVE  /\ out[i].q \in Kids
         /\ \/ Waits(ctx, Without(i), ev)
            \/ \E x \in Context :
                 /\ Rejoins(ctx, x, out[i].q) /\ (out[i].old => x.late)
                 /\ \/ x.n = Target[out[i].q] /\ Enter(x, Without(i), ev)
                    \/ Waits(x, Without(i), ev)
<1> DEFINE q == out[i].q
           old == out[i].old
           x(e) == [ctx EXCEPT !.n = @ - 1, !.e = e, !.late = @ \/ old]
<1>0. ctx \in Context /\ old \in BOOLEAN BY InFlight DEF EngineInv
<1>1. CASE KidLost(i) BY <1>1 DEF KidLost
<1>2. CASE KidReturns(i)
  <2>1. PICK e \in KidError(q, ctx.e) :
          \/ x(e).n = Target[q] /\ Enter(x(e), Without(i), ev)
          \/ Waits(x(e), Without(i), ev)
    BY <1>2 DEF KidReturns
  <2>2. e \in Errors BY <1>0 DEF KidError, Errors, OK, Context
  <2>3. ctx.n - 1 \in Int /\ (ctx.late \/ old) \in BOOLEAN BY <1>0 DEF Context
  <2> HIDE DEF q, old
  <2>4. x(e) \in Context BY <1>0, <2>2, <2>3 DEF Context
  <2>5. Rejoins(ctx, x(e), q) /\ (old => x(e).late) BY <1>0, <2>1, <2>4 DEF Context, Rejoins
  <2>6. q \in Kids BY <1>2 DEF KidReturns, q
  <2> HIDE DEF x
  <2> QED BY <2>1, <2>4, <2>5, <2>6 DEF q, old
<1> QED BY <1>1, <1>2

LEMMA FirstAndRest ==
  ASSUME NEW S, NEW s \in Seq(S), s # <<>>
  PROVE  Head(s) \in S /\ Tail(s) \in Seq(S)
OBVIOUS

\* An event.
LEMMA EventCases ==
  ASSUME EngineInv, Busy, HandleEvent
  PROVE  /\ up /\ ev # <<>> /\ Head(ev) \in [k : {"result", "error"}, old : BOOLEAN]
         /\ \E d \in Context : \E e :
              /\ Alike(ctx, d) /\ d.e = ctx.e
              /\ d.many = ctx.many /\ d.wrote = ctx.wrote /\ d.bad = ctx.bad
              /\ Head(ev).old => d.late
              /\ e = Fault(d) \/ e = "no error"
              /\ Head(ev).k = "result" => e = Fault(d)
              /\ Answers(d, e, out, Tail(ev))
<1> DEFINE d == [ctx EXCEPT !.late = @ \/ Head(ev).old]
<1>1. /\ up /\ ev # <<>>
      /\ Answers(d, IF Head(ev).k = "error" /\ Fault(d) = OK THEN "no error" ELSE Fault(d), out, Tail(ev))
  BY DEF HandleEvent
<1>2. Head(ev) \in [k : {"result", "error"}, old : BOOLEAN]
  BY <1>1, FirstAndRest DEF EngineInv, Events
<1>3. d \in Context /\ Alike(ctx, d) /\ (Head(ev).old => d.late)
      /\ d.e = ctx.e /\ d.many = ctx.many /\ d.wrote = ctx.wrote /\ d.bad = ctx.bad
  <2>1. (ctx.late \/ Head(ev).old) \in BOOLEAN BY <1>2
  <2> QED BY <2>1 DEF EngineInv, Context, Alike
<1> HIDE DEF d
<1> QED BY <1>1, <1>2, <1>3

\* The context after an entry.
LEMMA EnteredOwn ==
  ASSUME NEW c \in Context, NEW s \in Typed
  PROVE  /\ Entered(c, s) \in Context /\ Entered(c, s).m = c.m /\ Entered(c, s).v = 0
         /\ Entered(c, s).e = After(s, c.e) /\ Entered(c, s).fault = c.fault
         /\ Entered(c, s).n = IF s.count = NoCount THEN c.n ELSE s.count
         /\ After(s, c.e) = OK => Entered(c, s).cbs = c.cbs \o s.cb
         /\ Entered(c, s).st = (c.st \/ \E i \in DOMAIN s.ask : SetsState(s.ask[i]))
         /\ Entered(c, s).late = c.late /\ Entered(c, s).many = c.many
         /\ Entered(c, s).bad = c.bad /\ Entered(c, s).wrote = c.wrote
<1>1. s.cb \in Seq(Callbacks) /\ s.err \in Errors \cup {Same} /\ s.count \in Int
  BY DEF Typed, Shape
<1>2. c.cbs \o s.cb \in Seq(Callbacks) BY <1>1, Joined DEF Context
<1>3. After(s, c.e) \in Errors BY <1>1 DEF Context, After
<1>4. /\ (IF s.count = NoCount THEN c.n ELSE s.count) \in Int
      /\ (IF After(s, c.e) = OK THEN c.cbs \o s.cb ELSE c.cbs) \in Seq(Callbacks)
  BY <1>1, <1>2 DEF Context
<1>5. Entered(c, s) \in Context BY <1>3, <1>4, EnteredTyped
<1> DEFINE e == After(s, c.e)
           n == IF s.count = NoCount THEN c.n ELSE s.count
           o == IF s.obj = Same THEN c.o ELSE s.obj = "object"
           k == IF e = OK THEN c.cbs \o s.cb ELSE c.cbs
           st == c.st \/ \E i \in DOMAIN s.ask : SetsState(s.ask[i])
<1>6. Entered(c, s) = [c EXCEPT !.e = e, !.n = n, !.v = 0, !.o = o, !.cbs = k, !.st = st]
  BY DEF Entered
<1>7. (e = OK => k = c.cbs \o s.cb) /\ n = IF s.count = NoCount THEN c.n ELSE s.count
  OBVIOUS
<1> HIDE DEF e, n, o, k, st
<1>8. /\ Entered(c, s).m = c.m /\ Entered(c, s).v = 0 /\ Entered(c, s).e = e
      /\ Entered(c, s).fault = c.fault /\ Entered(c, s).n = n /\ Entered(c, s).cbs = k
      /\ Entered(c, s).st = st
      /\ Entered(c, s).late = c.late /\ Entered(c, s).many = c.many
      /\ Entered(c, s).bad = c.bad /\ Entered(c, s).wrote = c.wrote
  BY <1>6 DEF Context
<1> QED BY <1>5, <1>7, <1>8 DEF e, st

LEMMA SendingOwn ==
  ASSUME NEW c \in Context, NEW q \in SentBack,
         NEW k \in {<<>>, <<"generatemac">>, <<"jobs_resource">>}, NEW qs, NEW es, Sends(c, q, k, qs, es)
  PROVE  \E d : /\ Waits(d, Sent(qs, <<q>>), es)
                /\ d.m = c.m /\ d.n = c.n /\ d.e = OK /\ d.fault = c.fault /\ d.cbs = c.cbs \o k
                /\ d.v = c.v /\ d.late = c.late /\ d.many = c.many /\ d.bad = c.bad /\ d.wrote = c.wrote
                /\ d.st = (c.st \/ SetsState(q))
<1> DEFINE d == Sending(c, q, k)
<1>1. Waits(d, Sent(qs, <<q>>), es) BY DEF Sends, Sending
<1>2. /\ d.m = c.m /\ d.n = c.n /\ d.e = OK /\ d.fault = c.fault /\ d.cbs = c.cbs \o k
      /\ d.v = c.v /\ d.late = c.late /\ d.many = c.many /\ d.bad = c.bad /\ d.wrote = c.wrote
      /\ d.st = (c.st \/ SetsState(q))
  BY DEF Sending, Clean, Context
<1> HIDE DEF d
<1> QED BY <1>1, <1>2

-----------------------------------------------------------------------------
(* What a method asks for in one entry.                                      *)

\* The errors that the methods raise themselves.
Raised == Errors \ {"DB_MULTI"}

\* At most one query of A.
Lone(A) ==
  [ask : {<<>>} \cup {<<q>> : q \in A}, cb : Seq(Callbacks), err : Raised \cup {Same}, count : Int,
   obj : {Same, "object", "null"}, ret : BOOLEAN, crash : BOOLEAN]
\* Any number of them, with callbacks of C.
Several(A, C) ==
  [ask : Seq(A), cb : Seq(C), err : Raised \cup {Same}, count : Int,
   obj : {Same, "object", "null"}, ret : BOOLEAN, crash : BOOLEAN]

\* The words of CallSteps, over queries of Q and callbacks of C, stay within L.
Words(L, Q, C) ==
  /\ Nothing \in L /\ Answer \in L /\ Crash \in L
  /\ \A x \in Raised : Fail(x) \in L
  /\ \A k \in Int : Goto(k) \in L
  /\ \A q \in Q : Ask(q) \in L /\ \A cb \in C : AskCb(q, cb) \in L
  /\ \A s \in L : /\ Cleared(s) \in L /\ Hold(s) \in L /\ Answering(s) \in L
                  /\ \A k \in Int : Counting(s, k) \in L /\ HoldValue(s, k) \in L

LEMMA LoneWords ==
  ASSUME NEW A
  PROVE  /\ Words(Lone(A), A, Callbacks)
         /\ \A s, t \in Lone(A) : s.ask = <<>> => Both(s, t) \in Lone(A)
<1>1. <<>> \in Seq(Callbacks) /\ \A cb \in Callbacks : <<cb>> \in Seq(Callbacks) BY NoneOf, OneOf
<1>2. \A s, t \in Seq(Callbacks) : s \o t \in Seq(Callbacks) BY Joined
<1>3. OK \in Raised /\ Same \in Raised \cup {Same} BY DEF OK, Raised, Errors
<1> USE DEF Lone
<1>4. Nothing \in Lone(A) BY <1>1, <1>3 DEF Nothing, NoCount
<1>5. Crash \in Lone(A) BY <1>4 DEF Crash
<1>6. \A x \in Raised : Fail(x) \in Lone(A) BY <1>4 DEF Fail
<1>7. \A q \in A : Ask(q) \in Lone(A) /\ \A cb \in Callbacks : AskCb(q, cb) \in Lone(A)
  BY <1>1, <1>4 DEF Ask, AskCb
<1>8. \A s \in Lone(A) : Cleared(s) \in Lone(A) /\ Hold(s) \in Lone(A) /\ Answering(s) \in Lone(A)
  BY <1>3 DEF Cleared, Hold, Answering
<1>9. \A s \in Lone(A) : \A k \in Int : Counting(s, k) \in Lone(A) BY DEF Counting
<1>10. \A s \in Lone(A) : \A k \in Int : HoldValue(s, k) \in Lone(A) BY DEF HoldValue
<1>11. ASSUME NEW s \in Lone(A), NEW t \in Lone(A), s.ask = <<>> PROVE Both(s, t) \in Lone(A)
  <2>1. s.ask \o t.ask = t.ask
    <3>1. t.ask \in Seq(A)
      <4>1. \A q \in A : <<q>> \in Seq(A) BY OneOf
      <4>2. <<>> \in Seq(A) BY NoneOf
      <4>3. t.ask \in {<<>>} \cup {<<q>> : q \in A} OBVIOUS
      <4> HIDE DEF Lone
      <4>4. t.ask = <<>> \/ \E q \in A : t.ask = <<q>> BY <4>3
      <4> QED BY <4>1, <4>2, <4>4
    <3> QED BY <1>11, <3>1
  <2>2. s.cb \o t.cb \in Seq(Callbacks) BY <1>2
  <2> QED BY <2>1, <2>2 DEF Both
<1> HIDE DEF Lone
<1>12. Answer \in Lone(A) BY <1>4, <1>8 DEF Answer
<1>13. \A k \in Int : Goto(k) \in Lone(A) BY <1>4, <1>9 DEF Goto
<1> QED BY <1>4, <1>5, <1>6, <1>7, <1>8, <1>9, <1>10, <1>11, <1>12, <1>13 DEF Words

LEMMA SeveralWords ==
  ASSUME NEW A, NEW C
  PROVE  /\ Words(Several(A, C), A, C)
         /\ \A s, t \in Several(A, C) : Both(s, t) \in Several(A, C)
         /\ \A q \in A : \A k \in Int :
              Times(k, q) \in Several(A, C) /\ \A cb \in C : TimesCb(k, q, cb) \in Several(A, C)
<1>1. <<>> \in Seq(A) /\ <<>> \in Seq(C) BY NoneOf
<1>2. (\A q \in A : <<q>> \in Seq(A)) /\ (\A cb \in C : <<cb>> \in Seq(C)) BY OneOf
<1>3. (\A s, t \in Seq(A) : s \o t \in Seq(A)) /\ (\A s, t \in Seq(C) : s \o t \in Seq(C))
  BY Joined
<1>4. /\ \A k \in Int : \A q \in A : [i \in 1..k |-> q] \in Seq(A)
      /\ \A k \in Int : \A cb \in C : [i \in 1..k |-> cb] \in Seq(C)
  BY Repeated
<1>5. OK \in Raised /\ Same \in Raised \cup {Same} BY DEF OK, Raised, Errors
<1> USE DEF Several
<1>6. Nothing \in Several(A, C) BY <1>1, <1>5 DEF Nothing, NoCount
<1>7. Crash \in Several(A, C) BY <1>6 DEF Crash
<1>8. \A x \in Raised : Fail(x) \in Several(A, C) BY <1>6 DEF Fail
<1>9. \A q \in A : Ask(q) \in Several(A, C) /\ \A cb \in C : AskCb(q, cb) \in Several(A, C)
  BY <1>2, <1>6 DEF Ask, AskCb
<1>10. \A s \in Several(A, C) :
         Cleared(s) \in Several(A, C) /\ Hold(s) \in Several(A, C) /\ Answering(s) \in Several(A, C)
  BY <1>5 DEF Cleared, Hold, Answering
<1>11. \A s \in Several(A, C) : \A k \in Int : Counting(s, k) \in Several(A, C) BY DEF Counting
<1>12. \A s \in Several(A, C) : \A k \in Int : HoldValue(s, k) \in Several(A, C) BY DEF HoldValue
<1>13. \A s, t \in Several(A, C) : Both(s, t) \in Several(A, C) BY <1>3 DEF Both
<1>14. \A q \in A : \A k \in Int : Times(k, q) \in Several(A, C) BY <1>4, <1>6 DEF Times
<1>15. \A q \in A : \A k \in Int : \A cb \in C : TimesCb(k, q, cb) \in Several(A, C)
  <2> TAKE q \in A
  <2> TAKE k \in Int
  <2> TAKE cb \in C
  <2>1. Times(k, q) \in Several(A, C) /\ [i \in 1..k |-> cb] \in Seq(C) BY <1>14, <1>4
  <2> QED BY <2>1 DEF TimesCb
<1> HIDE DEF Several
<1>16. Answer \in Several(A, C) BY <1>6, <1>10 DEF Answer
<1>17. \A k \in Int : Goto(k) \in Several(A, C) BY <1>6, <1>11 DEF Goto
<1> QED BY <1>6, <1>7, <1>8, <1>9, <1>10, <1>11, <1>12, <1>13, <1>14, <1>15, <1>16, <1>17 DEF Words

-----------------------------------------------------------------------------
(* DB_MULTI.  A look-up for one row sets ctx->state; the next reply of more  *)
(* rows, whichever it is, is refused.                                        *)

\* The queries whose reply is refused rightly, or never.
Narrow ==
  {q \in Asks \ Kids : Kind(q) \in Single \cup Writes \cup {"bad"} \/ 2 \notin Rows(q)}
\* Those that leave ctx->state alone.
Mute == {q \in Asks : q \in Kids \/ (~SetsState(q) /\ Kind(q) # "enabled")}
Enabling == {"isNodeEnabledAndConfigured"}

OneRow ==
  {"isNode", "isControlModuleByName", "isPlatformByName", "getNodePlatform",
   "isControlModuleForPlatform", "isControlModuleForPlatformByName",
   "isControlModuleForPlatformById", "isControlModuleForPlatformByMid", "isUserName",
   "getLanguageCode", "isVM", "isNetworkId", "isNetIfByMAC", "getVMattribute", "getNODEattribute",
   "createNode", "setNodeConfiguredHost", "setNodeStatus", "updateNodeConfig",
   "setNodeControlModule", "setNodeControlModuleByName", "setUserAttribute", "setConfig",
   "updateNodeStats", "addJob", "modifyUserGroup", "addUserGroup", "defineNetwork"}
Listing ==
  {"getVmsByNetwork", "getAllVmsByNode", "getVMsByUID", "getVMsByUIDSorted", "getVMs",
   "getVMsSorted", "getPlatformsFull", "getNetwork", "getNodesByNetwork", "getNodeNameAndUuid",
   "getVMvifsByNetwork", "getVMparentNodeAndAddress", "getJobsByUUID", "getJobsByUID"}
\* Queries of which no row is no error.
Bare == {"getStorage", "getDiskByStorage", "getVMvifByMac", "getNetwork", "getVMvifsByNetwork"}
Classed(f) ==
  \A k \in DOMAIN f : \A q \in f[k] :
    /\ q \in OneRow => k \in Single \cup Writes
    /\ q \in Bare => k = "rows"
    /\ q \in Listing => k \in {"list", "rows"}
    /\ k = "enabled" <=> q \in Enabling

LEMMA AllClassed == \A f \in QueryFiles : Classed(f)
<1> USE DEF Classed, OneRow, Bare, Listing, Enabling, Single, Writes
<1>1. Classed(AuthQueries) BY DEF AuthQueries
<1>2. Classed(ConsoleQueries) BY DEF ConsoleQueries
<1>3. Classed(DiskQueries1) BY DEF DiskQueries1
<1>4. Classed(DiskQueries2) BY DEF DiskQueries2
<1>5. Classed(GroupQueries1) BY DEF GroupQueries1
<1>6. Classed(GroupQueries2) BY DEF GroupQueries2
<1>7. Classed(NetworkQueries1) BY DEF NetworkQueries1
<1>8. Classed(NetworkQueries2) BY DEF NetworkQueries2
<1>9. Classed(NetworkQueries3) BY DEF NetworkQueries3
<1>10. Classed(NodeQueries1) BY DEF NodeQueries1
<1>11. Classed(NodeQueries2) BY DEF NodeQueries2
<1>12. Classed(NodeQueries3) BY DEF NodeQueries3
<1>13. Classed(NodeQueries4) BY DEF NodeQueries4
<1>14. Classed(NodeQueries5) BY DEF NodeQueries5
<1>15. Classed(PlatformQueries1) BY DEF PlatformQueries1
<1>16. Classed(PlatformQueries2) BY DEF PlatformQueries2
<1>17. Classed(PlatformQueries3) BY DEF PlatformQueries3
<1>18. Classed(JobQueries1) BY DEF JobQueries1
<1>19. Classed(JobQueries2) BY DEF JobQueries2
<1>20. Classed(JobQueries3) BY DEF JobQueries3
<1>21. Classed(JobQueries4) BY DEF JobQueries4
<1>22. Classed(JobQueries5) BY DEF JobQueries5
<1>23. Classed(SessionQueries) BY DEF SessionQueries
<1>24. Classed(StorageQueries1) BY DEF StorageQueries1
<1>25. Classed(StorageQueries2) BY DEF StorageQueries2
<1>26. Classed(StorageQueries3) BY DEF StorageQueries3
<1>27. Classed(UserQueries1) BY DEF UserQueries1
<1>28. Classed(UserQueries2) BY DEF UserQueries2
<1>29. Classed(UserQueries3) BY DEF UserQueries3
<1>30. Classed(UserQueries4) BY DEF UserQueries4
<1>31. Classed(NetIfQueries1) BY DEF NetIfQueries1
<1>32. Classed(NetIfQueries2) BY DEF NetIfQueries2
<1>33. Classed(VmQueries1) BY DEF VmQueries1
<1>34. Classed(VmQueries2) BY DEF VmQueries2
<1>35. Classed(VmQueries3) BY DEF VmQueries3
<1>36. Classed(VmQueries4) BY DEF VmQueries4
<1>37. Classed(VmQueries5) BY DEF VmQueries5
<1>38. Classed(SettingQueries1) BY DEF SettingQueries1
<1>39. Classed(SettingQueries2) BY DEF SettingQueries2
<1> HIDE DEF Classed, OneRow, Bare, Listing, Enabling, Single, Writes
<1> QED
  BY <1>1, <1>2, <1>3, <1>4, <1>5, <1>6, <1>7, <1>8, <1>9, <1>10, <1>11, <1>12, <1>13,
     <1>14, <1>15, <1>16, <1>17, <1>18, <1>19, <1>20, <1>21, <1>22, <1>23, <1>24, <1>25, <1>26,
     <1>27, <1>28, <1>29, <1>30, <1>31, <1>32, <1>33, <1>34, <1>35, <1>36, <1>37, <1>38, <1>39
     DEF QueryFiles

LEMMA QueryKinds ==
  ASSUME NEW q \in Queries
  PROVE  /\ q \in OneRow => KindOf[q] \in Single \cup Writes
         /\ q \in Bare => KindOf[q] = "rows"
         /\ q \in Listing => KindOf[q] \in {"list", "rows"}
         /\ KindOf[q] = "enabled" <=> q \in Enabling
<1>1. KindOf[q] \in Kinds /\ q \in QueriesOf(KindOf[q])
  BY DEF KindOf, Queries
<1>2. \E f \in QueryFiles : KindOf[q] \in DOMAIN f /\ q \in f[KindOf[q]]
  BY <1>1 DEF QueriesOf
<1> QED BY <1>2, AllClassed DEF Classed

LEMMA OneRowAreNarrow ==
  OneRow \cup Enabling \cup {"getNode", "getNodeConfiguredState"} \subseteq Narrow
<1>1. OneRow \cup Enabling \cup {"getNode", "getNodeConfiguredState"} \subseteq Asks
  <2>1. {"isUserName", "getLanguageCode", "isNetIfByMAC", "setUserAttribute", "setConfig",
         "modifyUserGroup", "addUserGroup"} \subseteq Asks
    BY AccountNamesKnown DEF AccountNames
  <2>2. {"isVM", "isNetworkId", "addJob", "defineNetwork"} \subseteq Asks
    BY NetworkNamesKnown DEF NetworkNames
  <2>3. "getVMattribute" \in Asks BY VmNamesKnown DEF VmNames
  <2>4. (OneRow \cup Enabling \cup {"getNode", "getNodeConfiguredState"})
          \ {"isUserName", "getLanguageCode", "isNetIfByMAC", "setUserAttribute", "setConfig",
             "modifyUserGroup", "addUserGroup", "isVM", "isNetworkId", "addJob", "getVMattribute",
             "defineNetwork"}
        \subseteq NodeNames
    BY DEF OneRow, Enabling, NodeNames
  <2> QED BY <2>1, <2>2, <2>3, <2>4, NodeNamesKnown
<1>2. /\ (OneRow \cup Enabling \cup {"getNode", "getNodeConfiguredState"})
           \cap (Kids \cup NotLoaded \cup {"getNetworkOfNone"}) = {}
      /\ {"getNode", "getNodeConfiguredState"} \subseteq ByKey
      /\ {"getNode", "getNodeConfiguredState"} \cap Shared = {}
      /\ Enabling \cap Shared = {}
  BY DEF OneRow, Enabling, Kids, NotLoaded, ByKey, Shared
<1>3. OneRow \cup Enabling \cup {"getNode", "getNodeConfiguredState"} \subseteq Queries
  BY <1>1, <1>2 DEF Asks
<1>4. \A q \in OneRow : Kind(q) \in Single \cup Writes BY <1>2, <1>3, QueryKinds DEF Kind
<1>5. \A q \in {"getNode", "getNodeConfiguredState"} : Rows(q) = 0..1 BY <1>2 DEF Rows
<1>6. \A q \in Enabling : Rows(q) = 0..1
  <2>1. \A q \in Enabling : Kind(q) = "enabled" BY <1>2, <1>3, QueryKinds DEF Kind
  <2> QED BY <1>2, <2>1 DEF Rows
<1>7. 2 \notin 0..1 OBVIOUS
<1> QED BY <1>1, <1>2, <1>4, <1>5, <1>6, <1>7 DEF Narrow

LEMMA ListsAreMute == Listing \cup Kids \subseteq Mute
<1>1. Listing \subseteq Asks
  <2>1. {"getNetwork", "getNodesByNetwork", "getNodeNameAndUuid", "getVMvifsByNetwork",
         "getVMparentNodeAndAddress"} \subseteq Asks
    BY NetworkNamesKnown DEF NetworkNames
  <2>2. {"getVmsByNetwork", "getAllVmsByNode", "getVMsByUID", "getVMsByUIDSorted", "getVMs",
         "getVMsSorted"} \subseteq Asks
    BY VmNamesKnown DEF VmNames
  <2>3. {"getJobsByUUID", "getJobsByUID"} \subseteq Asks BY JobNamesKnown DEF JobNames
  <2>4. "getPlatformsFull" \in Asks BY AccountNamesKnown DEF AccountNames
  <2> QED BY <2>1, <2>2, <2>3, <2>4 DEF Listing
<1>2. Listing \cap (Kids \cup NotLoaded \cup {"getNetworkOfNone"}) = {} /\ "defineNetwork" \notin Listing
  BY DEF Listing, Kids, NotLoaded
<1>3. Listing \subseteq Queries BY <1>1, <1>2 DEF Asks
<1>4. \A q \in Listing : Kind(q) \in {"list", "rows"} BY <1>2, <1>3, QueryKinds DEF Kind
<1>5. \A q \in Listing : ~SetsState(q) BY <1>2, <1>4 DEF SetsState, Single
<1> QED BY <1>1, <1>4, <1>5 DEF Mute, Asks

\* isNodeEnabledAndConfigured alone keeps ctx->state.
LEMMA EnabledAlone ==
  \A q \in Asks \ (NotLoaded \cup Kids) : Kind(q) = "enabled" => q \in Enabling
BY QueryKinds DEF Kind, Asks

\* The methods, by what they have under way at a time: queries that cannot be
\* refused wrongly (Narrowers), queries that leave ctx->state alone (Quiet),
\* one list and then insertions (Cancellers), one query (Serial).
Movers == {"attachNetIf", "detachNetIf"}
Narrowers ==
  {"registerNode", "addNode", "setNodeControlModule", "setNodeControlModuleByName",
   "setUserAttribute_name", "setUserAttribute_language", "setConfigs", "ztoolsUpdate",
   "updateNodeStats"}
Quiet ==
  {"getVmsByNetworkFull", "getAllVmsFullByNode", "getVMsFullUID", "getVMsFull",
   "getPlatformsFull", "modifyNetwork", "detachAllNetIfsByNetwork"}
Cancellers == {"cancelJobsByUUID", "cancelJobsByUID"}
Serial == Remote \ (Movers \cup Narrowers \cup Quiet \cup Cancellers \cup {"addNetIf"})

SerialAsks == Asks \ Enabling
Tame == {"rewind", "value", "net_target_host", "net_target_addr", "jobs_cb_add"}

\* The words with names of their own.
Brief(L, Q) ==
  /\ Nothing \in L /\ Answer \in L /\ Crash \in L
  /\ \A x \in Raised : Fail(x) \in L
  /\ \A k \in Int : Goto(k) \in L
  /\ \A q \in Q : Ask(q) \in L /\ Again(q) \in L /\ AgainInt(q) \in L /\ Value(q) \in L

LEMMA BriefWords ==
  ASSUME NEW L, NEW A, NEW C, Words(L, A, C), {"rewind", "int_rewind", "value"} \subseteq C,
         NEW Q, Q \subseteq A
  PROVE  Brief(L, Q)
BY DEF Words, Brief, Again, AgainInt, Value

LEMMA SerialWords ==
  ASSUME NEW Q, Q \subseteq SerialAsks
  PROVE  /\ Brief(Lone(SerialAsks), Q) /\ JobAdd \in Lone(SerialAsks)
         /\ \A q \in Q : \A cb \in Callbacks : AskCb(q, cb) \in Lone(SerialAsks)
<1>1. Words(Lone(SerialAsks), SerialAsks, Callbacks) BY LoneWords
<1>2. {"rewind", "int_rewind", "value", "jobs_cb_add"} \subseteq Callbacks BY DEF Callbacks, Meek
<1>3. "addJob" \in SerialAsks BY JobNamesKnown DEF JobNames, SerialAsks, Enabling
<1>4. JobAdd \in Lone(SerialAsks) BY <1>1, <1>2, <1>3 DEF Words, JobAdd
<1>5. \A q \in Q : \A cb \in Callbacks : AskCb(q, cb) \in Lone(SerialAsks) BY <1>1 DEF Words
<1> QED BY <1>1, <1>2, <1>4, <1>5, BriefWords

LEMMA SerialCombined ==
  \A s \in Lone(SerialAsks) :
    /\ Cleared(s) \in Lone(SerialAsks) /\ Hold(s) \in Lone(SerialAsks)
    /\ Answering(s) \in Lone(SerialAsks)
    /\ \A k \in Int : Counting(s, k) \in Lone(SerialAsks) /\ HoldValue(s, k) \in Lone(SerialAsks)
    /\ s.ask = <<>> => \A t \in Lone(SerialAsks) : Both(s, t) \in Lone(SerialAsks)
BY LoneWords DEF Words

LEMMA StorageTidy ==
  ASSUME NEW m \in StorageAll, NEW n \in Int, NEW e, NEW v \in Int, NEW o
  PROVE  StorageStep(m, n, e, v, o) \subseteq Lone(SerialAsks)
<1> DEFINE L == Lone(SerialAsks)
<1>0. StorageNames \subseteq SerialAsks BY StorageNamesKnown DEF SerialAsks, Enabling, StorageNames
<1>1. Brief(L, StorageNames) /\ JobAdd \in L BY <1>0, SerialWords
<1>2. /\ AskCb("getControlModuleNameByStorage", "job_module_of_none") \in L
      /\ AskCb("getNodeConfiguredHost", "job_node_addr") \in L
  BY <1>0, SerialWords DEF StorageNames, Callbacks
<1> HIDE DEF L
<1>3. \A s \in L : /\ Cleared(s) \in L /\ Hold(s) \in L
                   /\ Counting(s, 5) \in L /\ HoldValue(s, v) \in L
                   /\ s.ask = <<>> => \A t \in L : Both(s, t) \in L
  BY SerialCombined DEF L
<1>4. /\ HoldValue(Value("getDiskByStorage"), v) \in L /\ Hold(Nothing) \in L
      /\ Counting(Ask("storage_cb_vmjob"), 5) \in L
      /\ Hold(Again("modifyDisk")) \in L
      /\ HoldValue(Again("attachStorageToNode"), v) \in L
      /\ HoldValue(Again("detachStorageFromNode"), v) \in L
      /\ Cleared(Ask("defineStorage")) \in L /\ Value("getVmByDisk") \in L
  <2>1. /\ Value("getDiskByStorage") \in L /\ Nothing \in L /\ Ask("storage_cb_vmjob") \in L
        /\ Again("modifyDisk") \in L /\ Again("attachStorageToNode") \in L
        /\ Again("detachStorageFromNode") \in L /\ Value("getVmByDisk") \in L
        /\ Ask("defineStorage") \in L
    BY <1>1 DEF Brief, StorageNames
  <2> QED BY <2>1, <1>3
<1> USE DEF Brief, StorageNames, Raised, Errors, Checked
<1>5. /\ defineStorage(n, e, v, o) \subseteq L /\ removeStorage(n, e, v, o) \subseteq L
      /\ removeDiskFromStorage(n, e, v, o) \subseteq L /\ modifyStorage(n, e, v, o) \subseteq L
  BY <1>1, <1>4 DEF defineStorage, removeStorage, removeDiskFromStorage, modifyStorage
<1>6. modifyDiskByStorage(n, e, v, o) \subseteq L
  <2>1. CASE n \in {0, 1} BY <1>1, <1>4, <2>1 DEF modifyDiskByStorage
  <2>2. CASE n \notin {0, 1}
    <3>1. ModuleThenJob(2, n, e, v, "getControlModuleNameByStorage") \subseteq L
      BY <1>1 DEF ModuleThenJob
    <3> QED BY <3>1, <2>2 DEF modifyDiskByStorage
  <2> QED BY <2>1, <2>2
<1>7. storage_cb_setup_disk(n, e, v, o) \subseteq L BY <1>1, <1>4 DEF storage_cb_setup_disk
<1>8. \A s \in storage_cb_setup_disk(n, e, v, o) : n = 2 => s.ask = <<>>
  BY DEF storage_cb_setup_disk, Nothing, Crash, Hold
<1>9. diskAction(n, e, v, o) \subseteq L
  <2>1. ASSUME NEW s \in storage_cb_setup_disk(n, e, v, o)
        PROVE  (IF n # 2 \/ s.crash THEN s
                ELSE Both(s, AskCb("getControlModuleNameByStorage", "job_module_of_none"))) \in L
    BY <1>2, <1>3, <1>7, <1>8
  <2> QED BY <2>1 DEF diskAction
<1>10. detachDiskFromStorage(n, e, v, o) \subseteq L
  <2>1. CASE n \in 0..1 BY <1>7, <2>1 DEF detachDiskFromStorage
  <2>2. CASE n = 2
    <3>1. ASSUME NEW s \in storage_cb_setup_disk(n, e, v, o)
          PROVE  (IF s.crash THEN s ELSE Both(s, Value("getVmByDisk"))) \in L
      BY <1>3, <1>4, <1>7, <1>8, <2>2
    <3> QED BY <3>1, <2>2 DEF detachDiskFromStorage
  <2>3. CASE n \notin 0..2 BY <1>1, <1>4, <2>3 DEF detachDiskFromStorage
  <2> QED BY <2>1, <2>2, <2>3
<1>11. \A a \in {"attachStorageToNode", "detachStorageFromNode"} :
         storage_cb_setup_storage(a, n, e, v, o) \subseteq L
  <2> TAKE a \in {"attachStorageToNode", "detachStorageFromNode"}
  <2>1. HoldValue(Again(a), v) \in L BY <1>4
  <2> QED BY <1>1, <1>2, <2>1 DEF storage_cb_setup_storage
<1>12. /\ detachAllNodesByStorage(n, e, v, o) \subseteq L
       /\ detachAllDisksByStorage(n, e, v, o) \subseteq L
       /\ addDiskToStorage(n, e, v, o) \subseteq L
       /\ defineDisk(n, e, v, o) \subseteq L /\ getDiskByStorage \subseteq L
  BY <1>1 DEF detachAllNodesByStorage, detachAllDisksByStorage, addDiskToStorage, defineDisk, getDiskByStorage
<1> HIDE DEF Brief, StorageNames, Raised, Errors, Checked
<1>13. CASE m \in StorageMethods \cup {"getDiskByStorage"}
  <2>1. /\ attachDiskToStorage(n, e, v, o) \subseteq L /\ enableDiskByStorage(n, e, v, o) \subseteq L
        /\ disableDiskByStorage(n, e, v, o) \subseteq L
    BY <1>9 DEF attachDiskToStorage, enableDiskByStorage, disableDiskByStorage
  <2>2. /\ attachStorageToNode(n, e, v, o) \subseteq L
        /\ detachStorageFromNode(n, e, v, o) \subseteq L
    BY <1>11 DEF attachStorageToNode, detachStorageFromNode
  <2>3. StorageStep(m, n, e, v, o) \subseteq L
    BY <1>13, <1>5, <1>6, <1>10, <1>12, <2>1, <2>2 DEF StorageStep, StorageMethods
  <2> QED BY <2>3 DEF L
<1>14. CASE m \notin StorageMethods \cup {"getDiskByStorage"}
  <2>1. m \in StorageNames
    BY <1>14 DEF StorageAll, StorageReads, StorageModuleReads, StorageRelationReads,
      NodesAndVmsReads, StorageDiskReads, StorageNames
  <2>2. Ask(m) \in L BY <2>1, <1>1 DEF Brief
  <2>3. StorageStep(m, n, e, v, o) = {Ask(m)} BY <1>14 DEF StorageStep, StorageMethods
  <2> QED BY <2>2, <2>3 DEF L
<1> QED BY <1>13, <1>14

LEMMA NetworkTidy ==
  ASSUME NEW m \in NetworkAll, NEW n \in Int, NEW e, NEW v \in Int, NEW o
  PROVE  /\ m \notin Movers \cup {"addNetIf"} \cup Quiet =>
              NetworkStep(m, n, e, v, o) \subseteq Lone(SerialAsks)
         /\ m \in Quiet => NetworkStep(m, n, e, v, o) \subseteq Several(Mute, Tame)
<1> DEFINE L == Lone(SerialAsks)
           M == Several(Mute, Tame)
<1>0. NetworkNames \subseteq SerialAsks BY NetworkNamesKnown DEF SerialAsks, Enabling, NetworkNames
<1>1. Brief(L, NetworkNames) /\ JobAdd \in L BY <1>0, SerialWords
<1>2. /\ AskCb("getNodeConfiguredHost", "job_node_addr_wild") \in L
      /\ AskCb("getVMparentNodeAndAddress", "job_node_addr") \in L
      /\ AskCb("getControlModuleNameByNetwork", "job_module") \in L
  BY <1>0, SerialWords DEF NetworkNames, Callbacks
<1>3. /\ Nothing \in M /\ Fail("NO_CHANGE_PERFORMED") \in M /\ Fail("INVALID_PARAMETER") \in M
      /\ Fail("UNKNOWN_RESOURCE") \in M
      /\ Value("getNetwork") \in M /\ Value("getNodesByNetwork") \in M /\ Value("getVMvifsByNetwork") \in M
  <2>1. Words(M, Mute, Tame) BY SeveralWords
  <2>2. "value" \in Tame BY DEF Tame
  <2>3. \A q \in Listing : q \in Mute BY ListsAreMute
  <2> HIDE DEF M
  <2>4. \A q \in Listing : Value(q) \in M BY <2>1, <2>2, <2>3 DEF Words, Value
  <2> QED BY <2>1, <2>4 DEF Words, Listing, Raised, Errors
<1>4. \A k \in Int :
        /\ PerNode(k) \in M
        /\ Counting(TimesCb(k, "getVMparentNodeAndAddress", "net_target_addr"), 10) \in M
  <2> TAKE k \in Int
  <2>1. "getNodeNameAndUuid" \in Mute /\ "getVMparentNodeAndAddress" \in Mute
    BY ListsAreMute DEF Listing
  <2>2. "net_target_host" \in Tame /\ "net_target_addr" \in Tame BY DEF Tame
  <2>3. /\ TimesCb(k, "getNodeNameAndUuid", "net_target_host") \in M
        /\ TimesCb(k, "getVMparentNodeAndAddress", "net_target_addr") \in M
    BY <2>1, <2>2, SeveralWords
  <2>4. Words(M, Mute, Tame) BY SeveralWords
  <2> HIDE DEF M
  <2>5. \A s \in M : \A j \in Int : Counting(s, j) \in M BY <2>4 DEF Words
  <2> QED BY <2>3, <2>5 DEF PerNode
<1> HIDE DEF L, M
<1> USE DEF Brief, NetworkNames, Raised, Errors, Checked
<1>5. \A q \in {"attachNetworkToNode", "detachNetworkFromNode"} : networkOfNode(q, n, e, v, o) \subseteq L
  BY <1>1, <1>2 DEF networkOfNode
<1>6. modifyNetIf(n, e, v, o) \subseteq L
  <2>1. CASE n = 0 BY <2>1, <1>1 DEF modifyNetIf
  <2>2. CASE n = 1 BY <2>2, <1>1 DEF modifyNetIf
  <2>3. CASE n \notin {0, 1}
    <3>1. network_job_create_vm("modifyNetIf", n, e, v, o) \subseteq L
      BY <2>3, <1>1, <1>2 DEF network_job_create_vm
    <3> QED BY <2>3, <3>1 DEF modifyNetIf
  <2> QED BY <2>1, <2>2, <2>3
<1>7. removeNetIf(n, e, v, o) \subseteq L /\ isNetworkId \subseteq L
  BY <1>1 DEF removeNetIf, isNetworkId
<1>8. removeNetwork(n, e, v, o) \subseteq L BY <1>1 DEF removeNetwork
<1>9. modifyNetwork(n, e, v, o) \subseteq M BY <1>3, <1>4 DEF modifyNetwork
<1>10. detachAllNetIfsByNetwork(n, e, v, o) \subseteq M BY <1>3, <1>4 DEF detachAllNetIfsByNetwork
<1>11. detachAllNodesByNetwork(n, e, v, o) \subseteq L
  <2>1. PerNode(1) \in L
    <3>1. TimesCb(1, "getNodeNameAndUuid", "net_target_host") = AskCb("getNodeNameAndUuid", "net_target_host")
      <4>1. /\ [i \in 1..1 |-> "getNodeNameAndUuid"] = <<"getNodeNameAndUuid">>
            /\ [i \in 1..1 |-> "net_target_host"] = <<"net_target_host">>
        OBVIOUS
      <4> QED BY <4>1 DEF TimesCb, Times, AskCb, Nothing
    <3>2. AskCb("getNodeNameAndUuid", "net_target_host") \in Lone(SerialAsks)
      BY <1>0, SerialWords DEF NetworkNames, Callbacks, Meek
    <3>3. \A s \in Lone(SerialAsks) : \A j \in Int : Counting(s, j) \in Lone(SerialAsks)
      BY SerialCombined
    <3>4. 10 + 1 \in Int OBVIOUS
    <3> QED BY <3>1, <3>2, <3>3, <3>4 DEF PerNode, L
  <2>2. CASE n \in {0, 1} BY <2>2, <1>1 DEF detachAllNodesByNetwork
  <2>3. CASE n = 2 BY <2>3, <1>1 DEF detachAllNodesByNetwork
  <2>4. CASE n \notin {0, 1, 2} BY <2>1, <2>4 DEF detachAllNodesByNetwork
  <2> QED BY <2>2, <2>3, <2>4
<1> HIDE DEF Brief, NetworkNames, Raised, Errors, Checked
<1>12. CASE m \in NetworkMethods \cup {"isNetworkId"}
  <2>1. attachNetworkToNode(n, e, v, o) \subseteq L /\ detachNetworkFromNode(n, e, v, o) \subseteq L
    BY <1>5 DEF attachNetworkToNode, detachNetworkFromNode
  <2>2. /\ m \notin Movers \cup {"addNetIf"} \cup Quiet => NetworkStep(m, n, e, v, o) \subseteq L
        /\ m \in Quiet => NetworkStep(m, n, e, v, o) \subseteq M
    BY <1>12, <1>6, <1>7, <1>8, <1>9, <1>10, <1>11, <2>1 DEF NetworkStep, NetworkMethods, Movers, Quiet
  <2> QED BY <2>2 DEF L, M
<1>13. CASE m \notin NetworkMethods \cup {"isNetworkId"}
  <2>1. m \in NetworkNames
    BY <1>13 DEF NetworkAll, NetworkReads, DefineReads, NetworkModuleReads,
      NodesByNetworkReads, NetworkOtherReads, NetworkNames
  <2>2. Ask(m) \in L BY <2>1, <1>1 DEF Brief
  <2>3. NetworkStep(m, n, e, v, o) = {Ask(m)} BY <1>13 DEF NetworkStep, NetworkMethods
  <2>4. m \notin Quiet BY <1>13 DEF Quiet, NetworkMethods, NetworkAll, NetworkReads, DefineReads,
      NetworkModuleReads, NodesByNetworkReads, NetworkOtherReads
  <2> QED BY <2>2, <2>3, <2>4 DEF L
<1> QED BY <1>12, <1>13

LEMMA ConsoleTidy ==
  ASSUME NEW m \in ConsoleAll, NEW n \in Int, NEW e, NEW v \in Int, NEW o
  PROVE  ConsoleStep(m, n, e, v, o) \subseteq Lone(SerialAsks)
<1> DEFINE L == Lone(SerialAsks)
<1>0. ConsoleNames \subseteq SerialAsks BY ConsoleNamesKnown DEF SerialAsks, Enabling, ConsoleNames
<1>1. Brief(L, ConsoleNames) BY <1>0, SerialWords
<1>2. Counting(Ask("console_disconnect_text"), 3) \in L
  <2>1. Ask("console_disconnect_text") \in L BY <1>1 DEF Brief, ConsoleNames
  <2>2. \A s \in L : \A k \in Int : Counting(s, k) \in L BY SerialCombined
  <2> QED BY <2>1, <2>2
<1> HIDE DEF L
<1> USE DEF Brief, ConsoleNames, Raised, Errors, Checked
<1>3. /\ connectTextConsole(n, e, v, o) \subseteq L
      /\ connectGraphicalConsole(n, e, v, o) \subseteq L
      /\ getConsoleLockUser(n, e, v, o) \subseteq L
      /\ acquireConsoleLock(n, e, v, o) \subseteq L
      /\ getSupportedConsoles(n, e, v, o) \subseteq L /\ hasConsoleLock \subseteq L
  BY <1>1 DEF connectTextConsole, connectGraphicalConsole, getConsoleLockUser, acquireConsoleLock,
    getSupportedConsoles, hasConsoleLock
<1>4. disconnectConsole(n, e, v, o) \subseteq L BY <1>1, <1>2 DEF disconnectConsole
<1> HIDE DEF Brief, ConsoleNames, Raised, Errors, Checked
<1>5. CASE m \in ConsoleMethods \cup {"hasConsoleLock"}
  BY <1>5, <1>3, <1>4 DEF ConsoleStep, ConsoleMethods, L
<1>6. CASE m \notin ConsoleMethods \cup {"hasConsoleLock"}
  <2>1. m \in ConsoleNames
    BY <1>6 DEF ConsoleAll, PortReads, LockReads, SessionLockReads, ConsoleNames
  <2>2. Ask(m) \in L BY <2>1, <1>1 DEF Brief
  <2>3. ConsoleStep(m, n, e, v, o) = {Ask(m)} BY <1>6 DEF ConsoleStep, ConsoleMethods
  <2> QED BY <2>2, <2>3 DEF L
<1> QED BY <1>5, <1>6

NodeQueries ==
  {"isNode", "createNode", "getNode", "getNodeConfiguredState", "isControlModuleByName",
   "setNodeConfiguredHost", "setNodeStatus", "updateNodeConfig", "isNodeEnabledAndConfigured",
   "updateNodeStats", "isPlatformByName", "setNodeControlModuleByName", "setNodeControlModule",
   "getNodePlatform", "isControlModuleForPlatform", "isControlModuleForPlatformByName",
   "isControlModuleForPlatformById", "isControlModuleForPlatformByMid"}

LEMMA NodeTidy ==
  ASSUME NEW m \in NodeAll \ Enabling, NEW n \in Int, NEW e, NEW v \in Int, NEW o
  PROVE  /\ m \notin Narrowers => NodeStep(m, n, e, v, o) \subseteq Lone(SerialAsks)
         /\ m \in Narrowers => NodeStep(m, n, e, v, o) \subseteq Several(Narrow, Callbacks)
<1> DEFINE L == Lone(SerialAsks)
           N == Several(Narrow, Callbacks)
<1>0. NodeNames \ Enabling \subseteq SerialAsks BY NodeNamesKnown DEF SerialAsks
<1>1. Brief(L, NodeNames \ Enabling) BY <1>0, SerialWords
<1>2. Brief(N, NodeQueries)
  <2>1. NodeQueries \subseteq Narrow BY OneRowAreNarrow DEF NodeQueries, OneRow, Enabling
  <2>2. {"rewind", "int_rewind", "value"} \subseteq Callbacks BY DEF Callbacks, Meek
  <2>3. Words(N, Narrow, Callbacks) BY SeveralWords
  <2> HIDE DEF N
  <2> QED BY <2>1, <2>2, <2>3, BriefWords
<1>3. \A s \in N : /\ Cleared(s) \in N /\ Answering(s) \in N
                   /\ \A k \in Int : Counting(s, k) \in N
                   /\ \A t \in N : Both(s, t) \in N
  BY SeveralWords DEF Words
<1> HIDE DEF L, N
<1>4. /\ Both(AgainInt("createNode"), Value("getNode")) \in N
      /\ Counting(Cleared(Both(Answer, Value("getNode"))), 3) \in N
      /\ Counting(AgainInt("createNode"), 2) \in N
      /\ Cleared(Counting(Value("getNodeConfiguredState"), 9)) \in N
      /\ Counting(AgainInt("setNodeStatus"), 2) \in N
      /\ Cleared(Again("isControlModuleByName")) \in N
      /\ Cleared(AgainInt("isPlatformByName")) \in N
      /\ Both(Ask("setNodeStatus"), AgainInt("setNodeControlModuleByName")) \in N
  <2>1. /\ AgainInt("createNode") \in N /\ Value("getNode") \in N /\ Answer \in N
        /\ AgainInt("setNodeStatus") \in N /\ Value("getNodeConfiguredState") \in N
        /\ Again("isControlModuleByName") \in N /\ Ask("setNodeStatus") \in N
        /\ AgainInt("isPlatformByName") \in N /\ AgainInt("setNodeControlModuleByName") \in N
    BY <1>2 DEF Brief, NodeQueries
  <2>2. \A s \in N : \A t \in N : Both(s, t) \in N BY <1>3
  <2>3. /\ Both(AgainInt("createNode"), Value("getNode")) \in N
        /\ Both(Answer, Value("getNode")) \in N
        /\ Both(Ask("setNodeStatus"), AgainInt("setNodeControlModuleByName")) \in N
    BY <2>1, <2>2
  <2>4. \A s \in N : Cleared(s) \in N BY <1>3
  <2>5. \A s \in N : \A k \in Int : Counting(s, k) \in N BY <1>3
  <2>6. /\ Counting(AgainInt("createNode"), 2) \in N
        /\ Counting(AgainInt("setNodeStatus"), 2) \in N
        /\ Counting(Value("getNodeConfiguredState"), 9) \in N
        /\ Cleared(Both(Answer, Value("getNode"))) \in N
    BY <2>1, <2>3, <2>4, <2>5
  <2> QED BY <2>1, <2>3, <2>4, <2>5, <2>6
<1>5. Crash \in N BY <1>2 DEF Brief
<1> USE DEF Brief, NodeQueries, Raised, Errors, Checked
<1>6. nodeconfig_update(n, v) \subseteq N /\ nodeconfig_update(2, v) \subseteq N
  BY <1>2, <1>4 DEF nodeconfig_update
<1>7. registerNode(n, e, v, o) \subseteq N
  <2>1. CASE n = 4
    <3>1. ASSUME NEW s \in registerNode(n, e, v, o) PROVE s \in N
      <4>1. PICK t \in nodeconfig_update(n, v) : s = IF t.crash THEN t ELSE Answering(t)
        BY <2>1, <3>1 DEF registerNode
      <4>2. t \in N /\ Answering(t) \in N BY <1>3, <1>6
      <4> QED BY <4>1, <4>2
    <3> QED BY <3>1
  <2>2. CASE n = 11 BY <2>2, <1>2, <1>4 DEF registerNode
  <2>3. CASE n = 3 BY <2>3, <1>6 DEF registerNode
  <2>4. CASE n \in {0, 1, 12} BY <2>4, <1>2, <1>4 DEF registerNode
  <2>5. CASE n = 10 BY <2>5, <1>2, <1>4 DEF registerNode
  <2>6. CASE n \notin {0, 1, 3, 4, 10, 11, 12} BY <2>6, <1>2 DEF registerNode
  <2> QED BY <2>1, <2>2, <2>3, <2>4, <2>5, <2>6
<1>8. updateNodeStats(n, e, v, o) \subseteq N BY <1>2 DEF updateNodeStats
<1>9. addNode(n, e, v, o) \subseteq N
  <2>1. CASE n \in {0, 1} BY <2>1, <1>2, <1>4 DEF addNode
  <2>2. CASE n = 2
    <3>1. \A s \in N : Cleared(s) \in N BY <1>3
    <3>2. ASSUME NEW s \in addNode(n, e, v, o) PROVE s \in N
      <4>1. PICK t \in nodeconfig_update(2, v) : s = Cleared(t) BY <2>2, <3>2 DEF addNode
      <4> QED BY <4>1, <3>1, <1>6
    <3> QED BY <3>2
  <2>3. CASE n \notin {0, 1, 2} BY <2>3, <1>2, <1>6 DEF addNode
  <2> QED BY <2>1, <2>2, <2>3
<1>10. /\ setNodeControlModuleByName(n, e, v, o) \subseteq N
       /\ setNodeControlModule(n, e, v, o) \subseteq N
  BY <1>2, <1>4 DEF setNodeControlModuleByName, setNodeControlModule, setModule
<1>11. /\ isNODEowner \subseteq L /\ getNodeStats \subseteq L /\ isNODE \subseteq L
       /\ getNodeCount \subseteq L
  BY <1>1 DEF isNODEowner, getNodeStats, isNODE, getNodeCount, NodeNames, Enabling
<1> HIDE DEF Brief, NodeQueries, Raised, Errors, Checked
<1>13. CASE m \in NodeMethods \cup {"isNODEowner", "getNodeStats", "isNODE", "getNodeCount"}
  BY <1>13, <1>7, <1>8, <1>9, <1>10, <1>11 DEF NodeStep, NodeMethods, Narrowers, L, N
<1>14. CASE m \notin NodeMethods \cup {"isNODEowner", "getNodeStats", "isNODE", "getNodeCount"}
  <2>1. m \in NodeNames
    BY <1>14 DEF NodeAll, AttributeReads, StateReads, NodeListReads, RemoveReads, NodeOtherReads, NodeNames
  <2>2. Ask(m) \in L BY <2>1, <1>1 DEF Brief
  <2>3. NodeStep(m, n, e, v, o) = {Ask(m)} BY <1>14 DEF NodeStep, NodeMethods
  <2>4. m \notin Narrowers
    BY <1>14 DEF NodeAll, AttributeReads, StateReads, NodeListReads, RemoveReads, NodeOtherReads,
      NodeMethods, Narrowers
  <2> QED BY <2>2, <2>3, <2>4 DEF L
<1> QED BY <1>13, <1>14

LEMMA VmTidy ==
  ASSUME NEW m \in VmAll, NEW n \in Int, NEW e, NEW v \in Int, NEW o
  PROVE  /\ m \notin Narrowers \cup Quiet => VmStep(m, n, e, v, o) \subseteq Lone(SerialAsks)
         /\ m \in Narrowers => VmStep(m, n, e, v, o) \subseteq Several(Narrow, Callbacks)
         /\ m \in Quiet => VmStep(m, n, e, v, o) \subseteq Several(Mute, Tame)
<1> DEFINE L == Lone(SerialAsks)
           N == Several(Narrow, Callbacks)
           M == Several(Mute, Tame)
<1>0. VmNames \ Enabling \subseteq SerialAsks BY VmNamesKnown DEF SerialAsks
<1>1. Brief(L, VmNames \ Enabling) /\ JobAdd \in L BY <1>0, SerialWords
<1>2. /\ AskCb("getVMparentNodeAndAddress", "job_node_addr") \in L
      /\ AskCb("getNodeControlModule", "job_module") \in L
  <2>1. "getVMparentNodeAndAddress" \in VmNames \ Enabling /\ "getNodeControlModule" \in VmNames \ Enabling
    BY DEF VmNames, Enabling
  <2>2. "job_node_addr" \in Callbacks /\ "job_module" \in Callbacks BY DEF Callbacks
  <2> QED BY <1>0, <2>1, <2>2, SerialWords
<1>3. Cleared(Value("getNodeControlModule")) \in L /\ Hold(Value("getLatestNodeStat")) \in L
  <2>1. Value("getNodeControlModule") \in L /\ Value("getLatestNodeStat") \in L
    BY <1>1 DEF Brief, VmNames, Enabling
  <2> QED BY <2>1, SerialCombined
<1>4. ztoolsUpdate \subseteq N
  <2>1. Words(N, Narrow, Callbacks) BY SeveralWords
  <2>2. "isNodeEnabledAndConfigured" \in Narrow BY OneRowAreNarrow DEF Enabling
  <2> HIDE DEF N
  <2> QED BY <2>1, <2>2 DEF Words, ztoolsUpdate
<1>5. /\ Nothing \in M /\ Answer \in M /\ Fail("INVALID_PARAMETER") \in M
      /\ \A q \in Listing : Value(q) \in M
      /\ Counting(Times(v, "vm_cb_getvm"), 2 + v) \in M
  <2>1. Words(M, Mute, Tame) BY SeveralWords
  <2>2. "value" \in Tame BY DEF Tame
  <2>3. (\A q \in Listing : q \in Mute) /\ "vm_cb_getvm" \in Mute BY ListsAreMute DEF Kids
  <2>4. Times(v, "vm_cb_getvm") \in M BY <2>3, SeveralWords
  <2> HIDE DEF M
  <2>5. \A q \in Listing : Value(q) \in M BY <2>1, <2>2, <2>3 DEF Words, Value
  <2>6. \A s \in M : \A j \in Int : Counting(s, j) \in M BY <2>1 DEF Words
  <2>7. Counting(Times(v, "vm_cb_getvm"), 2 + v) \in M BY <2>4, <2>6
  <2> QED BY <2>1, <2>5, <2>7 DEF Words, Raised, Errors
<1> HIDE DEF L, M, N
<1>6. ASSUME NEW first \in SUBSET M
      PROVE  vm_cb_getallvmsfull(first, n, e, v) \subseteq M
  BY <1>5 DEF vm_cb_getallvmsfull
<1>7. /\ getVmsByNetworkFull(n, e, v, o) \subseteq M
      /\ getAllVmsFullByNode(n, e, v, o) \subseteq M
  BY <1>5, <1>6 DEF getVmsByNetworkFull, getAllVmsFullByNode, Listing
<1>8. /\ getVMsFullUID(n, e, v, o) \subseteq M
      /\ getVMsFull(n, e, v, o) \subseteq M
  <2>1. \A uid \in BOOLEAN :
          {Fail("INVALID_PARAMETER")} \cup {Value(q) : q \in vmLists(uid)} \subseteq M
    BY <1>5 DEF vmLists, Listing
  <2> QED BY <2>1, <1>6 DEF getVMsFullUID, getVMsFull, vmListFull
<1> USE DEF Brief, VmNames, Raised, Errors, Checked, Enabling
<1>9. addVmToNode(n, e, v, o) \subseteq L BY <1>1, <1>3 DEF addVmToNode
<1>10. saveVM(n, e, v, o) \subseteq L BY <1>1 DEF saveVM
<1>11. vmAction(n, e, v, o) \subseteq L BY <1>1, <1>2 DEF vmAction
<1>12. \A uid \in BOOLEAN : vmList(uid) \subseteq L BY <1>1 DEF vmList, vmLists
<1>13. isVM \subseteq L /\ removeVm \subseteq L /\ getVmByRev \subseteq L /\ getVmCount \subseteq L
  BY <1>1 DEF isVM, removeVm, getVmByRev, getVmCount
<1>14. {Fail("NOT_IMPLEMENTED")} \subseteq L BY <1>1
<1> HIDE DEF Brief, VmNames, Raised, Errors, Checked, Enabling
<1> DEFINE Own == VmMethods \cup VmUnimplemented \cup
                  {"getVMs", "getVMsUID", "isVM", "getVmByRev", "ztoolsUpdate", "removeVm", "getVmCount"}
<1>15. CASE m \in Own
  <2>1. CASE m \in VmActions
    <3>0. /\ m # "getVmsByNetworkFull" /\ m # "getAllVmsFullByNode" /\ m # "getVMsFullUID"
          /\ m # "getVMsFull" /\ m # "addVmToNode" /\ m # "saveVM"
      BY <2>1 DEF VmActions
    <3>1. VmStep(m, n, e, v, o) = vmAction(n, e, v, o)
      BY <2>1, <3>0 DEF VmStep, VmActions, VmUnimplemented
    <3>2. m \notin Narrowers \cup Quiet BY <2>1 DEF Narrowers, Quiet, VmActions
    <3> QED BY <3>1, <3>2, <1>11 DEF L
  <2>2. CASE m \notin VmActions
    BY <1>15, <2>2, <1>4, <1>7, <1>8, <1>9, <1>10, <1>12, <1>13, <1>14
       DEF VmStep, VmMethods, VmUnimplemented, Narrowers, Quiet, L, M, N
  <2> QED BY <2>1, <2>2
<1>16. CASE m \notin Own
  <2>1. m \in VmNames \ Enabling
    BY <1>16 DEF VmAll, TopReads, PrivilegeReads, VmReads, VmRowReads, TemplateReads, VmNames, Enabling
  <2>2. VmStep(m, n, e, v, o) = {Ask(m)} BY <1>16 DEF VmStep, VmMethods, VmUnimplemented
  <2>3. m \notin Narrowers \cup Quiet
    BY <1>16 DEF VmAll, TopReads, PrivilegeReads, VmReads, VmRowReads, TemplateReads, VmMethods, Narrowers, Quiet
  <2>4. Ask(m) \in L BY <2>1, <1>1 DEF Brief
  <2> QED BY <2>2, <2>3, <2>4 DEF L
<1> QED BY <1>15, <1>16

LEMMA AccountTidy ==
  ASSUME NEW m \in AccountAll, NEW n \in Int, NEW e, NEW v \in Int, NEW o
  PROVE  /\ m \notin Narrowers \cup Quiet => AccountStep(m, n, e, v, o) \subseteq Lone(SerialAsks)
         /\ m \in Narrowers => AccountStep(m, n, e, v, o) \subseteq Several(Narrow, Callbacks)
         /\ m \in Quiet => AccountStep(m, n, e, v, o) \subseteq Several(Mute, Tame)
<1> DEFINE L == Lone(SerialAsks)
           N == Several(Narrow, Callbacks)
           M == Several(Mute, Tame)
<1>0. AccountNames \subseteq SerialAsks BY AccountNamesKnown DEF SerialAsks, Enabling, AccountNames
<1>1. Brief(L, AccountNames) BY <1>0, SerialWords
<1>2. /\ \A q \in {"setPassword", "setPasswordByName", "getUserType", "getUserTypeByName"} :
           AskCb(q, "answer") \in L
      /\ AskCb("isUserName", "user_name") \in L
      /\ AskCb("getLanguageCode", "user_lang") \in L
      /\ AskCb("getUserGroupId", "group_modify") \in L
      /\ AskCb("isUserGroupByName", "group_add") \in L
      /\ AskCb("isNetIfByMAC", "generatemac") \in L
  <2>1. \A q \in AccountNames : \A cb \in Meek : AskCb(q, cb) \in L
    BY <1>0, SerialWords DEF Callbacks
  <2> HIDE DEF L
  <2> QED BY <2>1 DEF Meek, AccountNames
<1>3. /\ \A q \in {"renameUserGroup", "renameUserGroupByName", "modifyUserGroupByName"} :
           Cleared(Ask(q)) \in L
      /\ Counting(Ask("platform_get"), 2) \in L
  <2>1. /\ \A q \in {"renameUserGroup", "renameUserGroupByName", "modifyUserGroupByName"} : Ask(q) \in L
        /\ Ask("platform_get") \in L
    BY <1>1 DEF Brief, AccountNames
  <2>2. \A s \in L : Cleared(s) \in L /\ \A k \in Int : Counting(s, k) \in L BY SerialCombined
  <2> HIDE DEF L
  <2> QED BY <2>1, <2>2
<1>4. /\ Fail("INVALID_PARAMETER") \in N
      /\ Both(AskCb("isUserName", "user_name"), Ask("setUserAttribute")) \in N
      /\ Both(AskCb("getLanguageCode", "user_lang"), Ask("setUserAttribute")) \in N
      /\ Ask("setUserAttribute") \in N
  <2>1. Words(N, Narrow, Callbacks) BY SeveralWords
  <2>2. {"isUserName", "getLanguageCode", "setUserAttribute"} \subseteq Narrow
    BY OneRowAreNarrow DEF OneRow
  <2>3. "user_name" \in Callbacks /\ "user_lang" \in Callbacks BY DEF Callbacks, Meek
  <2>4. \A s, t \in N : Both(s, t) \in N BY SeveralWords
  <2> HIDE DEF N
  <2>5. /\ AskCb("isUserName", "user_name") \in N /\ AskCb("getLanguageCode", "user_lang") \in N
        /\ Ask("setUserAttribute") \in N
    BY <2>1, <2>2, <2>3 DEF Words
  <2>6. "INVALID_PARAMETER" \in Raised BY DEF Raised, Errors
  <2> QED BY <2>1, <2>4, <2>5, <2>6 DEF Words
<1>5. setConfigs(n, e, v, o) \subseteq N
  <2>1. "setConfig" \in Narrow /\ "null" \in Callbacks BY OneRowAreNarrow DEF OneRow, Callbacks
  <2>2. \A k \in Int : TimesCb(k, "setConfig", "null") \in N BY <2>1, SeveralWords
  <2> HIDE DEF N
  <2> QED BY <2>2 DEF setConfigs
<1>6. getPlatformsFull(n, e, v, o) \subseteq M
  <2>1. Words(M, Mute, Tame) BY SeveralWords
  <2>2. "value" \in Tame BY DEF Tame
  <2>3. "getPlatformsFull" \in Mute /\ "platform_get" \in Mute BY ListsAreMute DEF Kids, Listing
  <2>4. Times(v, "platform_get") \in M BY <2>3, SeveralWords
  <2> HIDE DEF M
  <2>5. Value("getPlatformsFull") \in M BY <2>1, <2>2, <2>3 DEF Words, Value
  <2>6. \A s \in M : \A j \in Int : Counting(s, j) \in M BY <2>1 DEF Words
  <2>7. Counting(Times(v, "platform_get"), 2 + v) \in M BY <2>4, <2>6
  <2>8. Nothing \in M /\ Cleared(Answer) \in M BY <2>1 DEF Words
  <2> QED BY <2>5, <2>7, <2>8 DEF getPlatformsFull
<1> HIDE DEF L, M, N
<1>7. /\ setUserAttribute_name(n, e, v, o) \subseteq N
      /\ setUserAttribute_language(n, e, v, o) \subseteq N
  BY <1>4 DEF setUserAttribute_name, setUserAttribute_language, attributeName, attributeLanguage
<1> USE DEF Brief, AccountNames, Raised, Errors, Checked
<1>8. /\ setPassword(n, e, v, o) \subseteq L
      /\ setPasswordByName(n, e, v, o) \subseteq L
      /\ setSecureControlModuleConfig(n, e, v, o) \subseteq L
      /\ setUserAttribute(n, e, v, o) \subseteq L
      /\ addToUserGroup(n, e, v, o) \subseteq L
      /\ addPlatform(n, e, v, o) \subseteq L
      /\ modifyPlatform(n, e, v, o) \subseteq L
      /\ cleanDB \subseteq L
  BY <1>1 DEF setPassword, setPasswordByName, setSecureControlModuleConfig, setUserAttribute,
              addToUserGroup, addPlatform, modifyPlatform, ifPlatformIsFree, cleanDB
<1>9. /\ generatePassword(n, e, v, o) \subseteq L
      /\ generatePasswordByName(n, e, v, o) \subseteq L
      /\ isSuperUser(n, e, v, o) \subseteq L
      /\ isSuperUserByName(n, e, v, o) \subseteq L
      /\ modifyUserGroup(n, e, v, o) \subseteq L
      /\ addUserGroup(n, e, v, o) \subseteq L
      /\ generateMAC(n, e, v, o) \subseteq L
  BY <1>2 DEF generatePassword, generatePasswordByName, isSuperUser, isSuperUserByName,
              modifyUserGroup, addUserGroup, generateMAC
<1>10. addUser(n, e, v, o) \subseteq L BY <1>1, <1>2 DEF addUser
<1>11. /\ renameUserGroup(n, e, v, o) \subseteq L
       /\ renameUserGroupByName(n, e, v, o) \subseteq L
       /\ modifyUserGroupByName(n, e, v, o) \subseteq L
  BY <1>1, <1>3 DEF renameUserGroup, renameUserGroupByName, modifyUserGroupByName, ifNameIsFree
<1>12. /\ getPlatform(n, e, v, o) \subseteq L
       /\ getPlatformByName(n, e, v, o) \subseteq L
  BY <1>1, <1>3 DEF getPlatform, getPlatformByName
<1> HIDE DEF Brief, AccountNames, Raised, Errors, Checked
<1>13. CASE m \in AccountMethods \cup {"cleanDB"}
  <2>1. CASE m \in {"getPlatform", "getPlatformByName"}
    BY <2>1, <1>12 DEF AccountStep, CheckedReads, Narrowers, Quiet, L
  <2>2. CASE m = "getPlatformsFull"
    BY <2>2, <1>6 DEF AccountStep, CheckedReads, Narrowers, Quiet, M
  <2>3. CASE m \in {"setConfigs", "setUserAttribute_name", "setUserAttribute_language"}
    BY <2>3, <1>5, <1>7 DEF AccountStep, CheckedReads, Narrowers, Quiet, N
  <2>4. CASE m \in {"setPassword", "setPasswordByName", "setSecureControlModuleConfig", "setUserAttribute",
                  "addToUserGroup", "addPlatform", "modifyPlatform", "cleanDB"}
    BY <2>4, <1>8 DEF AccountStep, CheckedReads, Narrowers, Quiet, L
  <2>5. CASE m \in {"generatePassword", "generatePasswordByName", "isSuperUser", "isSuperUserByName",
                  "modifyUserGroup", "addUserGroup", "generateMAC"}
    BY <2>5, <1>9 DEF AccountStep, CheckedReads, Narrowers, Quiet, L
  <2>6. CASE m \in {"addUser", "renameUserGroup", "renameUserGroupByName", "modifyUserGroupByName"}
    BY <2>6, <1>10, <1>11 DEF AccountStep, CheckedReads, Narrowers, Quiet, L
  <2> QED BY <1>13, <2>1, <2>2, <2>3, <2>4, <2>5, <2>6 DEF AccountMethods
<1>14. CASE m \notin AccountMethods \cup {"cleanDB"}
  <2>1. m \in AccountNames
    BY <1>14 DEF AccountAll, AccountMethods, UserReads, UserByNameReads, UserListReads, GroupReads, GroupByNameReads,
                 GroupListReads, PlatformReads, ModuleReads, SettingReads, DiskReads, NetIfReads,
                 LogReads, ConfigWrites, AccountNames
  <2>2. m \notin Narrowers \cup Quiet
    BY <2>1, <1>14 DEF AccountNames, AccountMethods, Narrowers, Quiet
  <2>3. AccountStep(m, n, e, v, o) \in {{Ask(m)}, Checked(Ask(m))}
    BY <1>14 DEF AccountStep, AccountMethods
  <2>4. Ask(m) \in L /\ Fail("INVALID_PARAMETER") \in L
    BY <2>1, <1>1 DEF Brief, Raised, Errors
  <2> QED BY <2>2, <2>3, <2>4 DEF Checked, L
<1> QED BY <1>13, <1>14

\* A list is asked for at first; then a job is added for each entry.
Cancels(n, s) ==
  \/ /\ n = 0 /\ s.ask \in {<<>>} \cup {<<q>> : q \in {"getJobsByUUID", "getJobsByUID"}}
     /\ s.cb \in {<<>>, <<"value">>} /\ s.err \in Raised \cup {Same}
  \/ n # 0 /\ s \in Several({"addJob"}, {"jobs_cb_add"})

LEMMA JobTidy ==
  ASSUME NEW m \in JobAll, NEW n \in Int, NEW e, NEW v \in Int, NEW o
  PROVE  /\ m \notin Cancellers => JobStep(m, n, e, v, o) \subseteq Lone(SerialAsks)
         /\ m \in Cancellers => \A s \in JobStep(m, n, e, v, o) : Cancels(n, s)
<1> DEFINE L == Lone(SerialAsks)
           J == Several({"addJob"}, {"jobs_cb_add"})
<1>0. JobNames \subseteq SerialAsks BY JobNamesKnown DEF SerialAsks, Enabling, JobNames
<1>1. /\ Brief(L, JobNames) /\ JobAdd \in L
      /\ \A q \in JobNames : \A cb \in Meek : AskCb(q, cb) \in L
  BY <1>0, SerialWords DEF Callbacks
<1>2. Nothing \in J /\ Cleared(Answer) \in J /\ TimesCb(v, "addJob", "jobs_cb_add") \in J
  <2>1. Words(J, {"addJob"}, {"jobs_cb_add"}) BY SeveralWords
  <2>2. "addJob" \in {"addJob"} /\ "jobs_cb_add" \in {"jobs_cb_add"} OBVIOUS
  <2>3. TimesCb(v, "addJob", "jobs_cb_add") \in J BY <2>2, SeveralWords
  <2> HIDE DEF J
  <2> QED BY <2>1, <2>3 DEF Words
<1> HIDE DEF L, J
<1>3. /\ getJob(n, e, v, o) \subseteq L
      /\ getRecentJobs(n, e, v, o) \subseteq L
      /\ getRecentJobsByUID(n, e, v, o) \subseteq L
      /\ getJobsByJIDs(n, e, v, o) \subseteq L
      /\ getJobsStatus(n, e, v, o) \subseteq L
      /\ getJobStatus(n, e, v, o) \subseteq L
  BY <1>1 DEF getJob, getRecentJobs, getRecentJobsByUID, getJobsByJIDs, getJobsStatus, getJobStatus,
    Meek, Brief, JobNames, Raised, Errors, Checked
<1>4. getJobsByUID \subseteq L /\ isJob \subseteq L /\ addJob \subseteq L /\ cancelJob(n, e, v, o) \subseteq L
  BY <1>1 DEF getJobsByUID, isJob, addJob, cancelJob, Brief, JobNames, Raised, Errors, Checked
<1>5. ASSUME NEW q \in {"getJobsByUUID", "getJobsByUID"}, NEW s \in jobs_cancel(q, n, e, v)
      PROVE  Cancels(n, s)
  <2>1. CASE n = 0
    <3>1. s = Value(q) BY <1>5, <2>1 DEF jobs_cancel
    <3>2. s.ask = <<q>> /\ s.cb = <<"value">> /\ s.err = Same BY <3>1 DEF Value, AskCb, Nothing
    <3> QED BY <2>1, <3>2 DEF Cancels
  <2>2. CASE n # 0
    <3>1. jobs_cancel(q, n, e, v) \subseteq {Cleared(Answer), TimesCb(v, "addJob", "jobs_cb_add"), Nothing}
      BY <2>2 DEF jobs_cancel
    <3> QED BY <1>2, <1>5, <2>2, <3>1 DEF Cancels, J
  <2> QED BY <2>1, <2>2
<1>6. ASSUME NEW s \in cancelJobsByUUID(n, e, v, o) \cup cancelJobsByUID(n, e, v, o) PROVE Cancels(n, s)
  <2>1. CASE s = Fail("INVALID_PARAMETER") /\ n = 0
    <3>1. s.ask = <<>> /\ s.cb = <<>> /\ s.err = "INVALID_PARAMETER" BY <2>1 DEF Fail, Nothing
    <3> QED BY <2>1, <3>1 DEF Cancels, Raised, Errors
  <2>2. CASE s = Value("getJobsByUID") /\ n = 0
    <3>1. s.ask = <<"getJobsByUID">> /\ s.cb = <<"value">> /\ s.err = Same
      BY <2>2 DEF Value, AskCb, Nothing
    <3> QED BY <2>2, <3>1 DEF Cancels
  <2>3. \/ s \in jobs_cancel("getJobsByUUID", n, e, v) \/ s \in jobs_cancel("getJobsByUID", n, e, v)
        \/ n = 0 /\ s \in {Fail("INVALID_PARAMETER"), Value("getJobsByUID")}
    BY <1>6 DEF cancelJobsByUUID, cancelJobsByUID, Checked
  <2> QED BY <1>5, <2>1, <2>2, <2>3
<1>7. CASE m \in JobMethods \cup {"getJobsByUID", "isJob", "addJob"}
  BY <1>7, <1>3, <1>4, <1>6 DEF JobStep, JobMethods, Cancellers, L
<1>8. CASE m \notin JobMethods \cup {"getJobsByUID", "isJob", "addJob"}
  <2>1. m \in JobNames /\ m \notin Cancellers
    BY <1>8 DEF JobAll, JobReads, JobNames, JobMethods, Cancellers
  <2>2. JobStep(m, n, e, v, o) = {Ask(m)} BY <1>8 DEF JobStep, JobMethods
  <2>3. Ask(m) \in L BY <2>1, <1>1 DEF Brief
  <2> QED BY <2>1, <2>2, <2>3 DEF L
<1> QED BY <1>7, <1>8

\* What one entry of a method asks for, by its class.
LEMMA MethodsTidy ==
  ASSUME NEW m \in Remote \ (Movers \cup {"addNetIf"}), NEW n \in Int, NEW e, NEW v \in Int, NEW o
  PROVE  /\ m \in Serial => StepOf(m, n, e, v, o) \subseteq Lone(SerialAsks)
         /\ m \in Narrowers => StepOf(m, n, e, v, o) \subseteq Several(Narrow, Callbacks)
         /\ m \in Quiet => StepOf(m, n, e, v, o) \subseteq Several(Mute, Tame)
         /\ m \in Cancellers => \A s \in StepOf(m, n, e, v, o) : Cancels(n, s)
<1> DEFINE Good(S) == /\ m \in Serial => S \subseteq Lone(SerialAsks)
                      /\ m \in Narrowers => S \subseteq Several(Narrow, Callbacks)
                      /\ m \in Quiet => S \subseteq Several(Mute, Tame)
                      /\ m \in Cancellers => \A s \in S : Cancels(n, s)
<1>0. m \in Serial => m \notin Narrowers \cup Quiet \cup Cancellers BY DEF Serial
<1>1. m \in StorageAll => Good(StorageStep(m, n, e, v, o))
  <2>1. m \in StorageAll => m \notin Narrowers \cup Quiet \cup Cancellers
    BY DEF StorageAll, StorageMethods, StorageReads, StorageModuleReads, StorageRelationReads,
      NodesAndVmsReads, StorageDiskReads, Narrowers, Quiet, Cancellers
  <2> QED BY <2>1, StorageTidy
<1>2. m \in NetworkAll => Good(NetworkStep(m, n, e, v, o))
  <2>1. m \in NetworkAll => m \notin Narrowers \cup Cancellers
    BY DEF NetworkAll, NetworkMethods, NetworkReads, DefineReads, NetworkModuleReads,
      NodesByNetworkReads, NetworkOtherReads, Narrowers, Cancellers
  <2> QED BY <1>0, <2>1, NetworkTidy
<1>3. m \in ConsoleAll => Good(ConsoleStep(m, n, e, v, o))
  <2>1. m \in ConsoleAll => m \notin Narrowers \cup Quiet \cup Cancellers
    BY DEF ConsoleAll, ConsoleMethods, PortReads, LockReads, SessionLockReads, Narrowers, Quiet, Cancellers
  <2> QED BY <2>1, ConsoleTidy
<1>4. m \in NodeAll => Good(NodeStep(m, n, e, v, o))
  <2>1. m \in NodeAll => m \notin Quiet \cup Cancellers
    BY DEF NodeAll, NodeMethods, AttributeReads, StateReads, NodeListReads, RemoveReads, NodeOtherReads,
      Quiet, Cancellers
  <2>2. m \notin Enabling BY DEF Remote, Internal, Enabling
  <2> QED BY <1>0, <2>1, <2>2, NodeTidy
<1>5. m \in VmAll => Good(VmStep(m, n, e, v, o))
  <2>1. m \in VmAll => m \notin Cancellers
    BY DEF VmAll, VmMethods, VmActions, TopReads, PrivilegeReads, VmReads, VmRowReads, TemplateReads,
      VmUnimplemented, Cancellers
  <2> QED BY <1>0, <2>1, VmTidy
<1>6. m \in AccountAll => Good(AccountStep(m, n, e, v, o))
  <2>1. m \in AccountAll => m \notin Cancellers
    BY DEF AccountAll, AccountMethods, UserReads, UserByNameReads, UserListReads, GroupReads, GroupByNameReads,
      GroupListReads, PlatformReads, ModuleReads, SettingReads, DiskReads, NetIfReads, LogReads, ConfigWrites,
      Cancellers
  <2> QED BY <1>0, <2>1, AccountTidy
<1>7. m \in JobAll => Good(JobStep(m, n, e, v, o))
  <2>1. m \in JobAll => m \notin Narrowers \cup Quiet
    BY DEF JobAll, JobMethods, JobReads, Narrowers, Quiet
  <2> QED BY <1>0, <2>1, JobTidy
<1>8. m \in StorageAll \cup NetworkAll \cup ConsoleAll \cup NodeAll \cup VmAll \cup AccountAll \cup JobAll
  BY DEF Remote
<1> HIDE DEF Good
<1>9. Good(StepOf(m, n, e, v, o))
  BY <1>1, <1>2, <1>3, <1>4, <1>5, <1>6, <1>7, <1>8 DEF StepOf
<1> QED BY <1>9 DEF Good

\* addNetIf is entered at the counts 0 to 2, without a value.
LEMMA AddNetIfTidy ==
  ASSUME NEW n \in Int, NEW e, NEW o, n <= 2
  PROVE  \A s \in StepOf("addNetIf", n, e, 0, o) :
           /\ s \in Several(Narrow, {"rewind"}) /\ s.count = NoCount
           /\ n = 2 => After(s, e) # OK
<1> DEFINE S == Several(Narrow, {"rewind"})
<1>1. /\ Again("isNetworkId") \in S /\ Both(Again("isVM"), Again("isNetworkId")) \in S
      /\ Nothing \in S /\ \A x \in Raised : Fail(x) \in S
  <2>1. Words(S, Narrow, {"rewind"}) BY SeveralWords
  <2>2. {"isVM", "isNetworkId"} \subseteq Narrow BY OneRowAreNarrow DEF OneRow
  <2>3. \A s, t \in S : Both(s, t) \in S BY SeveralWords
  <2> HIDE DEF S
  <2>4. Again("isNetworkId") \in S /\ Again("isVM") \in S BY <2>1, <2>2 DEF Words, Again
  <2> QED BY <2>1, <2>3, <2>4 DEF Words
<1> HIDE DEF S
<1>2. StepOf("addNetIf", n, e, 0, o) \subseteq S
  <2>1. addNetIf(n, e, 0, o) \subseteq S
    BY <1>1 DEF addNetIf, network_job_create_vm, Checked, Raised, Errors, Wild
  <2> QED BY <2>1, StagedStepOf
<1> QED BY <1>2, AddNetIfSteps DEF S

-----------------------------------------------------------------------------
(* What is under way, by the class of the method.                            *)

Asked(qs, A) == \A i \in New(qs) : qs[i].q \in A
Only(qs) == \A i, j \in New(qs) : i = j
Aside(c) == c.late \/ c.m \in Movers
Truthful(c) == c.e = "DB_MULTI" \/ c.fault = "DB_MULTI" => c.many

\* What is under way between the entries of a method.
Held(c, qs) ==
  /\ c.m \in Serial => Only(qs) /\ Asked(qs, SerialAsks) /\ (c.st => Asked(qs, Narrow))
  /\ c.m \in Narrowers => Asked(qs, Narrow)
  /\ c.m = "addNetIf" => Asked(qs, Narrow) /\ c.n <= 1 /\ c.cbs \in Seq({"rewind"})
  /\ c.m \in Quiet => ~c.st /\ Asked(qs, Mute) /\ c.cbs \in Seq(Tame)
  /\ c.m \in Cancellers =>
       \/ /\ ~c.st /\ Only(qs) /\ Asked(qs, {"getJobsByUUID", "getJobsByUID"})
          /\ c.cbs \in {<<>>, <<"value">>}
       \/ Asked(qs, {"addJob"}) /\ c.cbs \in Seq({"jobs_cb_add"})

\* With what it may be entered.
Fits(c, qs) ==
  /\ c.m \in Serial => ~c.st /\ New(qs) = {}
  /\ c.m \in Narrowers => Asked(qs, Narrow)
  /\ c.m = "addNetIf" => Asked(qs, Narrow) /\ c.n <= 2 /\ c.v = 0 /\ c.cbs \in Seq({"rewind"})
  /\ c.m \in Quiet => ~c.st /\ Asked(qs, Mute) /\ c.cbs \in Seq(Tame)
  /\ c.m \in Cancellers => ~c.st /\ New(qs) = {} /\ c.cbs = <<>>

\* The strengthening of TooManyIsTrue: ctx->state is set for nothing but what
\* is still under way.
AnswerInv ==
  /\ TooManyIsTrue
  /\ up /\ Busy /\ ~Aside(ctx) => Truthful(ctx) /\ Held(ctx, out)

LEMMA SetsNarrow ==
  ASSUME NEW q \in SerialAsks \ NotLoaded, SetsState(q)
  PROVE  q \in Narrow
<1>1. q \in Asks \ (NotLoaded \cup Kids) BY DEF SetsState, SerialAsks
<1>2. q \notin Enabling BY DEF SerialAsks
<1>3. Kind(q) # "enabled" BY <1>1, <1>2, EnabledAlone
<1>4. CASE q = "defineNetwork" BY <1>4, OneRowAreNarrow DEF OneRow
<1>5. CASE q # "defineNetwork" BY <1>1, <1>3, <1>5 DEF SetsState, Narrow, Writes, Single
<1> QED BY <1>4, <1>5

\* One query is sent when none is under way.
LEMMA SentAlone ==
  ASSUME NEW qs \in Flights, New(qs) = {}, NEW A, A \subseteq Asks, NEW x \in A
  PROVE  /\ Only(Sent(qs, <<x>>)) /\ \A i \in New(Sent(qs, <<x>>)) : Sent(qs, <<x>>)[i].q = x
         /\ Asked(Sent(qs, <<x>>), A)
<1> DEFINE q == <<x>>
<1>1. q \in Seq(Asks) /\ DOMAIN q = {1} /\ q[1] = x BY OneOf
<1> HIDE DEF q
<1>2. \A i \in New(Sent(qs, q)) : i = Len(qs) + 1 /\ Sent(qs, q)[i].q = x
  BY <1>1, NewSent
<1>3. /\ Only(Sent(qs, q)) /\ \A i \in New(Sent(qs, q)) : Sent(qs, q)[i].q = x
      /\ Asked(Sent(qs, q), A)
  BY <1>2 DEF Only, Asked
<1> QED BY <1>3 DEF q

LEMMA SentNothing ==
  ASSUME NEW qs \in Flights
  PROVE  /\ New(Sent(qs, <<>>)) \subseteq New(qs)
         /\ \A i \in New(Sent(qs, <<>>)) : Sent(qs, <<>>)[i] = qs[i]
<1>1. <<>> \in Seq(Asks) /\ DOMAIN <<>> = {} BY NoneOf
<1> QED BY <1>1, NewSent

LEMMA SerialHolds ==
  ASSUME NEW qs \in Flights, New(qs) = {}, NEW s \in Lone(SerialAsks), Loaded(s)
  PROVE  /\ Only(Sent(qs, s.ask)) /\ Asked(Sent(qs, s.ask), SerialAsks)
         /\ (\E i \in DOMAIN s.ask : SetsState(s.ask[i])) => Asked(Sent(qs, s.ask), Narrow)
<1>1. s.ask = <<>> \/ \E x \in SerialAsks : s.ask = <<x>>
  <2> DEFINE A == SerialAsks
  <2>1. s.ask \in {<<>>} \cup {<<x>> : x \in A} BY DEF Lone
  <2> HIDE DEF A
  <2>2. s.ask = <<>> \/ \E x \in A : s.ask = <<x>> BY <2>1
  <2> QED BY <2>2 DEF A
<1>2. CASE s.ask = <<>>
  <2>1. New(Sent(qs, s.ask)) = {} BY <1>2, SentNothing
  <2> QED BY <2>1 DEF Only, Asked
<1>3. ASSUME NEW x \in SerialAsks, s.ask = <<x>>
      PROVE  /\ Only(Sent(qs, s.ask)) /\ Asked(Sent(qs, s.ask), SerialAsks)
             /\ (\E i \in DOMAIN s.ask : SetsState(s.ask[i])) => Asked(Sent(qs, s.ask), Narrow)
  <2>1. SerialAsks \subseteq Asks BY DEF SerialAsks
  <2>2. DOMAIN s.ask = {1} /\ s.ask[1] = x BY <1>3
  <2>3. x \notin NotLoaded BY <2>2 DEF Loaded
  <2>4. SetsState(x) => x \in Narrow BY <2>3, SetsNarrow
  <2>5. /\ Only(Sent(qs, s.ask)) /\ Asked(Sent(qs, s.ask), SerialAsks)
        /\ \A i \in New(Sent(qs, s.ask)) : Sent(qs, s.ask)[i].q = x
    BY <1>3, <2>1, SentAlone
  <2> QED BY <2>2, <2>4, <2>5 DEF Asked
<1> QED BY <1>1, <1>2, <1>3

LEMMA SeveralHold ==
  ASSUME NEW qs \in Flights, NEW A, A \subseteq Asks, NEW C, NEW s \in Several(A, C),
         NEW P, A \subseteq P, Asked(qs, P)
  PROVE  Asked(Sent(qs, s.ask), P)
<1>1. s.ask \in Seq(A) BY DEF Several
<1>2. \A i \in New(qs) : qs[i].q \in P BY DEF Asked
<1> QED BY <1>1, <1>2, NewAsked DEF Asked

\* None of the queries of Quiet sets ctx->state.
LEMMA MuteStays ==
  ASSUME NEW C, NEW s \in Several(Mute, C)
  PROVE  ~ \E i \in DOMAIN s.ask : SetsState(s.ask[i])
<1>1. s.ask \in Seq(Mute) BY DEF Several
<1>2. \A i \in DOMAIN s.ask : s.ask[i] \in Mute BY <1>1, Elements
<1>3. \A q \in Mute : ~SetsState(q) BY DEF Mute, SetsState
<1> QED BY <1>2, <1>3

\* The classes are apart.
LEMMA ClassesDiffer ==
  ASSUME NEW m \in Remote \ Movers
  PROVE  /\ m \in Serial \/ m \in Narrowers \/ m = "addNetIf" \/ m \in Quiet \/ m \in Cancellers
         /\ m \in Serial => m \notin Narrowers \cup Quiet \cup Cancellers \cup {"addNetIf"}
         /\ m \in Narrowers => m \notin Quiet \cup Cancellers \cup {"addNetIf"}
         /\ m \in Quiet => m \notin Cancellers \cup {"addNetIf"}
         /\ m \in Cancellers => m # "addNetIf"
BY DEF Serial, Narrowers, Quiet, Cancellers

LEMMA EnterHolds ==
  ASSUME NEW c \in Context, c.m \in Remote \ Movers, NEW qs \in Flights, Fits(c, qs),
         NEW w \in Int, c.m = "addNetIf" => w = 0,
         NEW s \in StepOf(c.m, c.n, c.e, w, c.o), s \in Typed, Loaded(s)
  PROVE  /\ s.err \in Raised \cup {Same}
         /\ After(s, c.e) = OK => Held(Entered(c, s), Sent(qs, s.ask))
<1> DEFINE d == Entered(c, s)
           qs1 == Sent(qs, s.ask)
<1>0. /\ d.m = c.m /\ d.n = IF s.count = NoCount THEN c.n ELSE s.count
      /\ After(s, c.e) = OK => d.cbs = c.cbs \o s.cb
      /\ d.st = (c.st \/ \E i \in DOMAIN s.ask : SetsState(s.ask[i]))
  BY EnteredOwn
<1>c. c.n \in Int BY DEF Context
<1> HIDE DEF d
<1>1. CASE c.m \in Serial
  <2>0. c.m \notin Narrowers \cup Quiet \cup Cancellers \cup {"addNetIf"} BY <1>1, ClassesDiffer
  <2>1. s \in Lone(SerialAsks) BY <1>1, <1>c, <2>0, MethodsTidy
  <2>2. ~c.st /\ New(qs) = {} BY <1>1 DEF Fits
  <2>3. /\ Only(qs1) /\ Asked(qs1, SerialAsks)
        /\ (\E i \in DOMAIN s.ask : SetsState(s.ask[i])) => Asked(qs1, Narrow)
    BY <2>1, <2>2, SerialHolds
  <2>4. s.err \in Raised \cup {Same} BY <2>1 DEF Lone
  <2> HIDE DEF qs1
  <2>5. Held(d, qs1) BY <1>0, <2>0, <2>2, <2>3 DEF Held
  <2> QED BY <2>4, <2>5 DEF d, qs1
<1>2. CASE c.m \in Narrowers
  <2>0. c.m \notin Serial \cup Quiet \cup Cancellers \cup {"addNetIf"} BY <1>2, ClassesDiffer
  <2>1. s \in Several(Narrow, Callbacks) BY <1>2, <1>c, <2>0, MethodsTidy
  <2>2. Narrow \subseteq Asks /\ Asked(qs, Narrow) BY <1>2 DEF Fits, Narrow
  <2>3. Asked(qs1, Narrow) BY <2>1, <2>2, SeveralHold
  <2>4. s.err \in Raised \cup {Same} BY <2>1 DEF Several
  <2> HIDE DEF qs1
  <2>5. Held(d, qs1) BY <1>0, <2>0, <2>3 DEF Held
  <2> QED BY <2>4, <2>5 DEF d, qs1
<1>3. CASE c.m = "addNetIf"
  <2>0. c.m \notin Serial \cup Narrowers \cup Quiet \cup Cancellers BY <1>3, ClassesDiffer
  <2>1. Asked(qs, Narrow) /\ c.n <= 2 /\ c.cbs \in Seq({"rewind"}) BY <1>3 DEF Fits
  <2>2. /\ s \in Several(Narrow, {"rewind"}) /\ s.count = NoCount
        /\ c.n = 2 => After(s, c.e) # OK
    BY <1>3, <1>c, <2>1, AddNetIfTidy
  <2>3. Narrow \subseteq Asks BY DEF Narrow
  <2>4. Asked(qs1, Narrow) BY <2>1, <2>2, <2>3, SeveralHold
  <2>5. s.cb \in Seq({"rewind"}) /\ s.err \in Raised \cup {Same} BY <2>2 DEF Several
  <2>6. c.cbs \o s.cb \in Seq({"rewind"}) BY <2>1, <2>5, Joined
  <2> HIDE DEF qs1
  <2>7. ASSUME After(s, c.e) = OK PROVE Held(d, qs1)
    <3>1. d.n <= 1 BY <1>0, <1>c, <2>1, <2>2, <2>7
    <3> QED BY <1>0, <2>0, <2>4, <2>6, <2>7, <3>1 DEF Held
  <2> QED BY <2>5, <2>7 DEF d, qs1
<1>4. CASE c.m \in Quiet
  <2>0. c.m \notin Serial \cup Narrowers \cup Cancellers \cup {"addNetIf"} BY <1>4, ClassesDiffer
  <2>1. s \in Several(Mute, Tame) BY <1>4, <1>c, <2>0, MethodsTidy
  <2>2. Mute \subseteq Asks /\ ~c.st /\ Asked(qs, Mute) /\ c.cbs \in Seq(Tame)
    BY <1>4 DEF Fits, Mute
  <2>3. Asked(qs1, Mute) BY <2>1, <2>2, SeveralHold
  <2>4. s.err \in Raised \cup {Same} /\ s.cb \in Seq(Tame) BY <2>1 DEF Several
  <2>5. c.cbs \o s.cb \in Seq(Tame) BY <2>2, <2>4, Joined
  <2>6. ~d.st BY <1>0, <2>1, <2>2, MuteStays
  <2> HIDE DEF qs1
  <2>7. After(s, c.e) = OK => Held(d, qs1) BY <1>0, <2>0, <2>3, <2>5, <2>6 DEF Held
  <2> QED BY <2>4, <2>7 DEF d, qs1
<1>5. CASE c.m \in Cancellers
  <2>0. c.m \notin Serial \cup Narrowers \cup Quiet \cup {"addNetIf"} BY <1>5, ClassesDiffer
  <2>1. Cancels(c.n, s) BY <1>5, <1>c, <2>0, MethodsTidy
  <2>2. ~c.st /\ New(qs) = {} /\ c.cbs = <<>> BY <1>5 DEF Fits
  <2>3. {"getJobsByUUID", "getJobsByUID"} \subseteq Mute BY ListsAreMute DEF Listing
  <2>4. s.cb \in Seq(Callbacks) BY DEF Typed, Shape
  <2>5. After(s, c.e) = OK => d.cbs = s.cb
    <3>1. <<>> \o s.cb = s.cb BY <2>4
    <3> QED BY <1>0, <2>2, <3>1
  <2>6. CASE s \in Several({"addJob"}, {"jobs_cb_add"})
    <3>1. "addJob" \in Asks BY JobNamesKnown DEF JobNames
    <3>2. Asked(qs, {"addJob"}) BY <2>2 DEF Asked
    <3>3. Asked(qs1, {"addJob"}) BY <2>6, <3>1, <3>2, SeveralHold
    <3>4. s.cb \in Seq({"jobs_cb_add"}) /\ s.err \in Raised \cup {Same} BY <2>6 DEF Several
    <3> HIDE DEF qs1
    <3>5. After(s, c.e) = OK => Held(d, qs1) BY <1>0, <2>0, <2>5, <3>3, <3>4 DEF Held
    <3> QED BY <3>4, <3>5 DEF d, qs1
  <2>7. CASE s.ask = <<>> /\ s.cb \in {<<>>, <<"value">>} /\ s.err \in Raised \cup {Same}
    <3>1. New(qs1) = {} BY <2>2, <2>7, SentNothing
    <3>2. DOMAIN s.ask = {} BY <2>7
    <3>3. ~d.st BY <1>0, <2>2, <3>2
    <3> HIDE DEF qs1
    <3>4. After(s, c.e) = OK => Held(d, qs1)
      BY <1>0, <2>0, <2>5, <2>7, <3>1, <3>3 DEF Held, Only, Asked
    <3> QED BY <2>7, <3>4 DEF d, qs1
  <2>8. ASSUME NEW q \in {"getJobsByUUID", "getJobsByUID"}, s.ask = <<q>>,
               s.cb \in {<<>>, <<"value">>}, s.err \in Raised \cup {Same}
        PROVE  After(s, c.e) = OK => Held(d, qs1)
    <3>1. {"getJobsByUUID", "getJobsByUID"} \subseteq Asks BY <2>3 DEF Mute
    <3>2. Only(qs1) /\ Asked(qs1, {"getJobsByUUID", "getJobsByUID"}) BY <2>2, <2>8, <3>1, SentAlone
    <3>3. DOMAIN s.ask = {1} /\ s.ask[1] = q BY <2>8
    <3>4. ~SetsState(q) BY <2>3 DEF Mute, SetsState
    <3>5. ~d.st BY <1>0, <2>2, <3>3, <3>4
    <3> HIDE DEF qs1
    <3> QED BY <1>0, <2>0, <2>5, <2>8, <3>2, <3>5 DEF Held
  <2>9. CASE \E q \in {"getJobsByUUID", "getJobsByUID"} :
               s.ask = <<q>> /\ s.cb \in {<<>>, <<"value">>} /\ s.err \in Raised \cup {Same}
    BY <2>8, <2>9 DEF d, qs1
  <2>10. \/ s \in Several({"addJob"}, {"jobs_cb_add"})
         \/ s.ask = <<>> /\ s.cb \in {<<>>, <<"value">>} /\ s.err \in Raised \cup {Same}
         \/ \E q \in {"getJobsByUUID", "getJobsByUID"} :
              s.ask = <<q>> /\ s.cb \in {<<>>, <<"value">>} /\ s.err \in Raised \cup {Same}
    BY <2>1 DEF Cancels
  <2> QED BY <2>6, <2>7, <2>9, <2>10
<1> QED BY <1>1, <1>2, <1>3, <1>4, <1>5, ClassesDiffer

-----------------------------------------------------------------------------
(* TooManyIsTrue holds, step by step.                                        *)

\* What every step of the engine comes to.
Honest ==
  /\ TooManyIsTrue'
  /\ up' /\ ctx'.m # "none" /\ ~Aside(ctx') => Truthful(ctx') /\ Held(ctx', out')

LEMMA AnswersHonest ==
  ASSUME NEW c, NEW e, NEW qs, NEW es, Answers(c, e, qs, es), e = "DB_MULTI" => c.many \/ Aside(c)
  PROVE  Honest
<1>1. ctx'.m = "none" BY DEF Answers, Idle, Fresh
<1>2. prev'.e = e /\ prev'.m = c.m /\ prev'.many = c.many /\ prev'.late = c.late BY DEF Answers
<1>3. TooManyIsTrue' BY <1>2 DEF TooManyIsTrue, Aside, Movers
<1> QED BY <1>1, <1>3 DEF Honest

LEMMA WaitsHonest ==
  ASSUME NEW c, NEW qs, NEW es, Waits(c, qs, es), TooManyIsTrue,
         c.m # "none" /\ ~Aside(c) => Truthful(c) /\ Held(c, qs)
  PROVE  Honest
BY DEF Waits, Honest, TooManyIsTrue

LEMMA DiesHonest ==
  ASSUME NEW c, NEW qs, NEW es, Dies(c, qs, es), TooManyIsTrue
  PROVE  Honest
BY DEF Dies, Honest, TooManyIsTrue

LEMMA EnterHonest ==
  ASSUME NEW c \in Context, c.m \in Remote, NEW qs \in Flights, NEW es, Enter(c, qs, es), TooManyIsTrue,
         ~Aside(c) => Truthful(c) /\ Fits(c, qs)
  PROVE  Honest
<1>1. CASE Dies(c, qs, es) BY <1>1, DiesHonest
<1>2. ASSUME NEW w \in -1..2, NEW s \in StepOf(c.m, c.n, c.e, w, c.o),
             s \in Typed, Loaded(s), w = IF c.v = Wild /\ c.m \notin TakesNumbers THEN 1 ELSE c.v,
             \/ After(s, c.e) # OK /\ Answers(Entered(c, s), Fault(Entered(c, s)), Sent(qs, s.ask), es)
             \/ /\ After(s, c.e) = OK /\ s.ret /\ c.fault = OK
                /\ Answers(Entered(c, s), OK, Sent(qs, s.ask), es)
             \/ /\ After(s, c.e) = OK /\ (s.ret => c.fault # OK)
                /\ Waits(Entered(c, s), Sent(qs, s.ask), es)
      PROVE  Honest
  <2> DEFINE d == Entered(c, s)
  <2>1. /\ d.m = c.m /\ d.e = After(s, c.e) /\ d.fault = c.fault /\ d.late = c.late /\ d.many = c.many
    BY <1>2, EnteredOwn
  <2>2. Aside(d) <=> Aside(c) BY <2>1 DEF Aside
  <2>3. ASSUME ~Aside(c)
        PROVE  /\ s.err \in Raised \cup {Same}
               /\ After(s, c.e) = OK => Held(d, Sent(qs, s.ask))
    <3>1. c.m \in Remote \ Movers BY <2>3 DEF Aside
    <3>2. Fits(c, qs) BY <2>3
    <3>3. c.m = "addNetIf" => w = 0 BY <1>2, <3>2 DEF Fits, Wild
    <3>4. w \in Int OBVIOUS
    <3> QED BY <1>2, <3>1, <3>2, <3>3, <3>4, EnterHolds
  <2>4. ~Aside(c) => Truthful(d)
    BY <2>1, <2>3 DEF Truthful, After, Raised, Same
  <2>5. Fault(d) = "DB_MULTI" => d.many \/ Aside(d) BY <2>2, <2>4 DEF Fault, Truthful
  <2>6. OK # "DB_MULTI" BY DEF OK
  <2> HIDE DEF d
  <2>7. CASE \E e \in {Fault(d), OK} : Answers(d, e, Sent(qs, s.ask), es)
    BY <2>5, <2>6, <2>7, AnswersHonest
  <2>8. CASE After(s, c.e) = OK /\ Waits(d, Sent(qs, s.ask), es)
    BY <2>2, <2>3, <2>4, <2>8, WaitsHonest
  <2> QED BY <1>2, <2>7, <2>8 DEF d
<1> QED BY <1>1, <1>2, EnterCases

\* Of what is under way one query is gone.
LEMMA HeldWithout ==
  ASSUME out \in Flights, NEW i \in DOMAIN out, NEW c, Held(c, out)
  PROVE  Held(c, Without(i))
<1>1. \A j \in New(Without(i)) : \E k \in New(out) : Without(i)[j] = out[k]
  BY NewWithout
<1>2. ASSUME NEW A, Asked(out, A) PROVE Asked(Without(i), A)
  BY <1>1, <1>2 DEF Asked
<1>3. ASSUME Only(out) PROVE Only(Without(i))
  <2>1. ASSUME NEW j \in New(Without(i)), NEW k \in New(Without(i)) PROVE j = k
    <3>1. (IF j < i THEN j ELSE j + 1) = (IF k < i THEN k ELSE k + 1)
      <4>1. /\ (IF j < i THEN j ELSE j + 1) \in New(out)
            /\ (IF k < i THEN k ELSE k + 1) \in New(out)
        BY NewWithout
      <4> QED BY <4>1, <1>3 DEF Only
    <3>2. j \in Int /\ k \in Int /\ i \in Int BY DEF New, Without, Flights
    <3> QED BY <3>1, <3>2
  <2> QED BY <2>1 DEF Only
<1> QED BY <1>2, <1>3 DEF Held

\* Nothing else of the context counts.
LEMMA HeldAlike ==
  ASSUME NEW c, NEW d, NEW qs, c.m = d.m, c.n = d.n, c.cbs = d.cbs, d.st => c.st, Held(c, qs)
  PROVE  Held(d, qs)
BY DEF Held

\* The reply of a query of the call's own.
LEMMA RepliesNarrow ==
  ASSUME out \in Flights, NEW c, c.m \in Remote \ Movers, Held(c, out),
         NEW i \in New(out), out[i].q \notin Kids
  PROVE  /\ c.st /\ Kind(out[i].q) \notin Writes \cup {"bad"} /\ 2 \in Rows(out[i].q)
              => Kind(out[i].q) \in Single
         /\ Kind(out[i].q) = "enabled" => c.m \in Narrowers \cup {"addNetIf"}
         /\ c.m \in Serial => New(Without(i)) = {}
<1> DEFINE q == out[i].q
<1>0. q \in Asks \ (NotLoaded \cup Kids)
  <2>1. i \in DOMAIN out BY DEF New
  <2>2. out[i] \in [q : Asks \ NotLoaded, old : BOOLEAN] BY <2>1, Elements DEF Flights
  <2> QED BY <2>2
<1>1. CASE c.m \in Serial
  <2>1. Only(out) /\ q \in SerialAsks /\ (c.st => q \in Narrow) BY <1>1 DEF Held, Asked
  <2>2. New(Without(i)) = {} BY <2>1, LastOne DEF Only
  <2>3. Kind(q) # "enabled" BY <1>0, <2>1, EnabledAlone DEF SerialAsks
  <2> QED BY <2>1, <2>2, <2>3 DEF Narrow
<1>2. CASE c.m \in Narrowers \cup {"addNetIf"}
  <2>1. q \in Narrow BY <1>2 DEF Held, Asked
  <2>2. c.m \notin Serial BY <1>2 DEF Serial
  <2> QED BY <1>2, <2>1, <2>2 DEF Narrow
<1>3. CASE c.m \in Quiet
  <2>1. ~c.st /\ q \in Mute BY <1>3 DEF Held, Asked
  <2>2. c.m \notin Serial BY <1>3 DEF Serial
  <2> QED BY <1>0, <2>1, <2>2 DEF Mute
<1>4. CASE c.m \in Cancellers
  <2>1. c.m \notin Serial BY <1>4 DEF Serial
  <2>2. CASE ~c.st /\ Asked(out, {"getJobsByUUID", "getJobsByUID"})
    <3>1. q \in {"getJobsByUUID", "getJobsByUID"} BY <2>2 DEF Asked
    <3>2. q \in Mute BY <3>1, ListsAreMute DEF Listing
    <3> QED BY <1>0, <2>1, <2>2, <3>2 DEF Mute
  <2>3. CASE Asked(out, {"addJob"})
    <3>1. q = "addJob" BY <2>3 DEF Asked
    <3>2. q \in Narrow BY <3>1, OneRowAreNarrow DEF OneRow
    <3>3. Kind(q) # "enabled" BY <1>0, <3>1, EnabledAlone DEF Enabling
    <3> QED BY <2>1, <3>2, <3>3 DEF Narrow
  <2> QED BY <1>4, <2>2, <2>3 DEF Held
<1> QED BY <1>1, <1>2, <1>3, <1>4, ClassesDiffer

\* The context that a reply is delivered to.
Received(c, qs) ==
  /\ Truthful(c) /\ Held(c, qs)
  /\ c.st => c.m \in Narrowers \cup {"addNetIf"}
  /\ c.m \in Serial => New(qs) = {}
  /\ c.m \in Cancellers =>
       \/ New(qs) = {} /\ c.cbs \in {<<>>, <<"value">>}
       \/ c.cbs \in Seq({"jobs_cb_add"})

LEMMA DeliveredReceived ==
  ASSUME out \in Flights, NEW c \in Context, c.m \in Remote \ Movers, Held(c, out), Truthful(c),
         NEW i \in New(out), out[i].q \notin Kids, NEW d, NEW v, Delivered(c, d, out[i].q, v)
  PROVE  Received(d, Without(i))
<1> DEFINE q == out[i].q
<1>1. d.m = c.m /\ d.n = c.n /\ d.cbs = c.cbs /\ d.fault = c.fault /\ d.many = c.many
  BY DEF Delivered, Alike
<1>2. d.e = "DB_MULTI" => c.e = "DB_MULTI" BY DEF Delivered, ErrorAfter
<1>3. Truthful(d) BY <1>1, <1>2 DEF Truthful
<1>4. d.st => c.m \in Narrowers \cup {"addNetIf"}
  BY RepliesNarrow DEF Delivered
<1>5. i \in DOMAIN out BY DEF New
<1>6. Held(c, Without(i)) BY <1>5, HeldWithout
<1>7. Held(d, Without(i))
  <2>1. CASE ~d.st BY <1>1, <1>6, <2>1, HeldAlike
  <2>2. CASE c.m \in Narrowers \cup {"addNetIf"}
    <3>1. c.m \notin Serial \cup Quiet \cup Cancellers
      BY <2>2, ClassesDiffer
    <3> QED BY <1>1, <1>6, <3>1 DEF Held
  <2> QED BY <1>4, <2>1, <2>2
<1>8. c.m \in Serial => New(Without(i)) = {} BY RepliesNarrow
<1>9. c.m \in Cancellers => \/ New(Without(i)) = {} /\ c.cbs \in {<<>>, <<"value">>}
                            \/ c.cbs \in Seq({"jobs_cb_add"})
  BY LastOne DEF Held, Only
<1> QED BY <1>1, <1>3, <1>4, <1>7, <1>8, <1>9 DEF Received

\* Without its first callback it is as good.
LEMMA PoppedReceived ==
  ASSUME NEW c \in Context, NEW qs, Received(c, qs), c.cbs # <<>>, c.m \in Remote \ Movers
  PROVE  /\ Received(Popped(c), qs)
         /\ c.m = "addNetIf" => Head(c.cbs) = "rewind"
         /\ c.m \in Quiet => Head(c.cbs) \in Tame
         /\ c.m \in Cancellers => \/ Head(c.cbs) = "value" /\ New(qs) = {} /\ Popped(c).cbs = <<>>
                                  \/ Head(c.cbs) = "jobs_cb_add"
<1> DEFINE d == Popped(c)
<1>1. /\ d.m = c.m /\ d.n = c.n /\ d.e = c.e /\ d.fault = c.fault /\ d.st = c.st /\ d.many = c.many
      /\ d.cbs = Tail(c.cbs)
  BY PoppedContext
<1> HIDE DEF d
<1>2. ASSUME NEW S, c.cbs \in Seq(S) PROVE Head(c.cbs) \in S /\ d.cbs \in Seq(S)
  BY <1>1, <1>2, FirstAndRest
<1>3. c.cbs \in {<<>>, <<"value">>} => Head(c.cbs) = "value" /\ d.cbs = <<>>
  <2>1. Head(<<"value">>) = "value" /\ Tail(<<"value">>) = <<>> OBVIOUS
  <2> QED BY <1>1, <2>1
<1>4. Truthful(d) BY <1>1 DEF Received, Truthful
<1>5. Held(c, qs) BY DEF Received
<1>6. c.m = "addNetIf" => Head(c.cbs) \in {"rewind"} /\ d.cbs \in Seq({"rewind"})
  BY <1>2, <1>5 DEF Held
<1>7. c.m \in Quiet => Head(c.cbs) \in Tame /\ d.cbs \in Seq(Tame)
  BY <1>2, <1>5 DEF Held
<1>8. c.cbs \in Seq({"jobs_cb_add"}) => Head(c.cbs) \in {"jobs_cb_add"} /\ d.cbs \in Seq({"jobs_cb_add"})
  BY <1>2
<1>9. Held(d, qs)
  <2>1. c.m \in Cancellers =>
          \/ /\ ~d.st /\ Only(qs) /\ Asked(qs, {"getJobsByUUID", "getJobsByUID"})
             /\ d.cbs \in {<<>>, <<"value">>}
          \/ Asked(qs, {"addJob"}) /\ d.cbs \in Seq({"jobs_cb_add"})
    BY <1>1, <1>3, <1>5, <1>8 DEF Held
  <2> QED BY <1>1, <1>5, <1>6, <1>7, <2>1 DEF Held
<1>10. c.m \in Cancellers => \/ Head(c.cbs) = "value" /\ New(qs) = {} /\ d.cbs = <<>>
                             \/ Head(c.cbs) = "jobs_cb_add" /\ d.cbs \in Seq({"jobs_cb_add"})
  BY <1>3, <1>8 DEF Received
<1>11. Received(d, qs)
  <2>1. d.st => d.m \in Narrowers \cup {"addNetIf"} BY <1>1 DEF Received
  <2>2. d.m \in Serial => New(qs) = {} BY <1>1 DEF Received
  <2>3. d.m \in Cancellers =>
          \/ New(qs) = {} /\ d.cbs \in {<<>>, <<"value">>}
          \/ d.cbs \in Seq({"jobs_cb_add"})
    BY <1>1, <1>10
  <2> QED BY <1>4, <1>9, <2>1, <2>2, <2>3 DEF Received
<1> QED BY <1>6, <1>7, <1>10, <1>11 DEF d

\* The first callback, with the context c that has lost it.
LEMMA CallbackHonest ==
  ASSUME NEW cb \in Callbacks \ {"null"}, NEW c \in Context, c.m \in Remote, NEW v \in -1..2,
         NEW qs \in Flights, NEW es, CallbackOf(cb, c, v, qs, es), TooManyIsTrue,
         ~Aside(c) =>
           /\ Received(c, qs)
           /\ c.m = "addNetIf" => cb = "rewind"
           /\ c.m \in Quiet => cb \in Tame
           /\ c.m \in Cancellers => \/ cb = "value" /\ New(qs) = {} /\ c.cbs = <<>>
                                    \/ cb = "jobs_cb_add"
  PROVE  Honest
<1>0. ~Aside(c) => c.m \in Remote \ Movers /\ Truthful(c) /\ Held(c, qs)
  BY DEF Aside, Received
<1>1. ASSUME NEW x \in Context, Reenters(cb, c, v, x), Enter(x, qs, es) PROVE Honest
  <2>1. x.m = c.m /\ x.late = c.late BY <1>1 DEF Reenters
  <2>2. ASSUME ~Aside(c) PROVE Truthful(x)
    <3>1. x.many = c.many /\ x.e \in {c.e, OK} /\ x.fault \in {c.fault, Fault(c)}
      BY <1>1 DEF Reenters
    <3>2. OK # "DB_MULTI" BY DEF OK
    <3> QED BY <1>0, <2>2, <3>1, <3>2 DEF Truthful, Fault
  <2>3. ASSUME ~Aside(c) PROVE Fits(x, qs)
    <3>1. x.st = c.st /\ x.cbs = c.cbs /\ x.n = c.n + 1 /\ c.n \in Int
      BY <1>1 DEF Reenters, Context
    <3>2. CASE c.m \in Serial
      <4>1. c.m \notin Narrowers \cup Quiet \cup Cancellers \cup {"addNetIf"}
        BY <1>0, <2>3, <3>2, ClassesDiffer
      <4>2. ~x.st /\ New(qs) = {} BY <2>3, <3>1, <3>2, <4>1 DEF Received
      <4> QED BY <2>1, <3>2, <4>1, <4>2 DEF Fits
    <3>3. CASE c.m \in Narrowers
      <4>1. c.m \notin Serial \cup Quiet \cup Cancellers \cup {"addNetIf"}
        BY <1>0, <2>3, <3>3, ClassesDiffer
      <4> QED BY <1>0, <2>1, <2>3, <3>3, <4>1 DEF Fits, Held
    <3>4. CASE c.m = "addNetIf"
      <4>1. c.m \notin Serial \cup Narrowers \cup Quiet \cup Cancellers
        BY <1>0, <2>3, <3>4, ClassesDiffer
      <4>2. x.v = 0 BY <1>1, <2>3, <3>4 DEF Reenters
      <4>3. Asked(qs, Narrow) /\ c.n <= 1 /\ c.cbs \in Seq({"rewind"}) BY <1>0, <2>3, <3>4 DEF Held
      <4>4. x.n <= 2 BY <3>1, <4>3
      <4> QED BY <2>1, <3>1, <3>4, <4>1, <4>2, <4>3, <4>4 DEF Fits
    <3>5. CASE c.m \in Quiet
      <4>1. c.m \notin Serial \cup Narrowers \cup Cancellers \cup {"addNetIf"}
        BY <1>0, <2>3, <3>5, ClassesDiffer
      <4> QED BY <1>0, <2>1, <2>3, <3>1, <3>5, <4>1 DEF Fits, Held
    <3>6. CASE c.m \in Cancellers
      <4>1. c.m \notin Serial \cup Narrowers \cup Quiet \cup {"addNetIf"}
        BY <1>0, <2>3, <3>6, ClassesDiffer
      <4>2. cb = "value" /\ New(qs) = {} /\ c.cbs = <<>> BY <1>1, <2>3, <3>6 DEF Reenters
      <4>3. ~x.st BY <2>3, <3>1, <4>1 DEF Received
      <4> QED BY <2>1, <3>1, <3>6, <4>1, <4>2, <4>3 DEF Fits
    <3> QED BY <1>0, <2>3, <3>2, <3>3, <3>4, <3>5, <3>6, ClassesDiffer
  <2>4. ~Aside(x) => Truthful(x) /\ Fits(x, qs) BY <2>1, <2>2, <2>3 DEF Aside
  <2> QED BY <1>1, <2>1, <2>4, EnterHonest
<1>2. ASSUME NEW e, Told(c, e) \/ e = OK, Answers(c, e, qs, es) PROVE Honest
  <2>1. e = "DB_MULTI" => e = Fault(c) BY <1>2 DEF Told, OK
  <2>2. e = "DB_MULTI" => c.many \/ Aside(c) BY <1>0, <2>1 DEF Fault, Truthful
  <2> QED BY <1>2, <2>2, AnswersHonest
<1>3. CASE Waits(c, qs, es) BY <1>0, <1>3, WaitsHonest
<1>4. CASE Dies(c, qs, es) BY <1>4, DiesHonest
<1>5. ASSUME cb \in Senders, NEW q \in SentBack,
             NEW k \in {<<>>, <<"generatemac">>, <<"jobs_resource">>}, Sends(c, q, k, qs, es)
      PROVE  Honest
  <2>1. PICK d : /\ Waits(d, Sent(qs, <<q>>), es)
                 /\ d.m = c.m /\ d.e = OK /\ d.fault = c.fault
                 /\ d.late = c.late /\ d.many = c.many
    BY <1>5, SendingOwn
  <2>2. ASSUME ~Aside(c) PROVE Truthful(d) /\ Held(d, Sent(qs, <<q>>))
    <3>1. Truthful(d) BY <1>0, <2>1, <2>2 DEF Truthful, OK
    <3>2. c.m \notin Quiet \cup Cancellers \cup {"addNetIf"} BY <1>5, <2>2 DEF Senders, Tame
    <3>3. q \in Narrow /\ q \in SerialAsks
      <4>1. q \in OneRow /\ q \notin Enabling BY DEF SentBack, OneRow, Enabling
      <4> QED BY <4>1, OneRowAreNarrow DEF SerialAsks, Narrow
    <3> DEFINE one == <<q>>
    <3>4. c.m \in Serial => /\ Only(Sent(qs, one)) /\ Asked(Sent(qs, one), SerialAsks)
                            /\ Asked(Sent(qs, one), Narrow)
      <4>1. ASSUME c.m \in Serial
            PROVE  /\ Only(Sent(qs, one)) /\ Asked(Sent(qs, one), SerialAsks)
                   /\ Asked(Sent(qs, one), Narrow)
        <5>1. New(qs) = {} BY <2>2, <4>1 DEF Received
        <5>2. SerialAsks \subseteq Asks /\ Narrow \subseteq Asks BY DEF SerialAsks, Narrow
        <5> QED BY <3>3, <5>1, <5>2, SentAlone
      <4> QED BY <4>1
    <3>5. c.m \in Narrowers => Asked(Sent(qs, one), Narrow)
      <4>1. one \in Seq(Narrow) BY <3>3, OneOf
      <4>2. Narrow \subseteq Asks BY DEF Narrow
      <4> HIDE DEF one
      <4>3. ASSUME c.m \in Narrowers PROVE Asked(Sent(qs, one), Narrow)
        <5>1. \A i \in New(qs) : qs[i].q \in Narrow BY <1>0, <2>2, <4>3 DEF Held, Asked
        <5> QED BY <4>1, <4>2, <5>1, NewAsked DEF Asked
      <4> QED BY <4>3
    <3> HIDE DEF one
    <3>6. Held(d, Sent(qs, one)) BY <2>1, <3>2, <3>4, <3>5 DEF Held
    <3> QED BY <3>1, <3>6 DEF one
  <2>3. Aside(d) <=> Aside(c) BY <2>1 DEF Aside
  <2> QED BY <2>1, <2>2, <2>3, WaitsHonest
<1> QED BY <1>1, <1>2, <1>3, <1>4, <1>5, CallbackOutcomes

LEMMA DeliverHonest ==
  ASSUME NEW c \in Context, c.m \in Remote, NEW q, NEW v \in -1..2, NEW old, NEW qs \in Flights,
         Deliver(q, c, v, old, qs), TooManyIsTrue, ~Aside(c) => Received(c, qs)
  PROVE  Honest
<1>1. CASE c.cbs = <<>> /\ Waits(c, qs, Append(ev, [k |-> "result", old |-> old]))
  BY <1>1, WaitsHonest DEF Received
<1>2. CASE c.cbs # <<>>
  <2> DEFINE d == Popped(c)
  <2>1. d \in Context /\ Head(c.cbs) \in Callbacks /\ d.m = c.m /\ d.late = c.late
    BY <1>2, PoppedContext
  <2>2. Aside(d) <=> Aside(c) BY <2>1 DEF Aside
  <2>3. ~Aside(c) =>
          /\ Received(d, qs)
          /\ d.m = "addNetIf" => Head(c.cbs) = "rewind"
          /\ d.m \in Quiet => Head(c.cbs) \in Tame
          /\ d.m \in Cancellers => \/ Head(c.cbs) = "value" /\ New(qs) = {} /\ d.cbs = <<>>
                                   \/ Head(c.cbs) = "jobs_cb_add"
    <3>1. ~Aside(c) => c.m \in Remote \ Movers BY DEF Aside
    <3> QED BY <1>2, <2>1, <3>1, PoppedReceived
  <2> HIDE DEF d
  <2>4. CASE Waits(d, qs, ev) BY <2>2, <2>3, <2>4, WaitsHonest DEF Received
  <2>5. CASE Dies(d, qs, ev) BY <2>5, DiesHonest
  <2>6. CASE Head(c.cbs) # "null" /\ CallbackOf(Head(c.cbs), d, v, qs, ev)
    BY <2>1, <2>2, <2>3, <2>6, CallbackHonest
  <2> QED BY <1>2, <2>4, <2>5, <2>6, DeliverCases DEF d
<1> QED BY <1>1, <1>2, DeliverCases

LEMMA QueryHonest ==
  ASSUME EngineInv, AnswerInv, up, Busy, NEW i \in DOMAIN out, QueryFails(i) \/ QueryReturns(i)
  PROVE  Honest
<1>1. ctx \in Context /\ ctx.m \in Remote /\ out \in Flights /\ Without(i) \in Flights /\ TooManyIsTrue
  BY InFlight DEF EngineInv, Context, Busy, AnswerInv
<1>2. out[i].q \notin Kids BY DEF QueryFails, QueryReturns
<1>3. ASSUME NEW d \in Context, out[i].old => d.late, ctx.m = d.m, ctx.late => d.late, ~Aside(d)
      PROVE  /\ i \in New(out) /\ ctx.m \in Remote \ Movers /\ Truthful(ctx) /\ Held(ctx, out)
  BY <1>1, <1>3 DEF Aside, AnswerInv, New
<1>4. ASSUME NEW d \in Context, out[i].old => d.late,
             Bounced(ctx, d, out[i].q), Raise(d, out[i].old, Without(i))
      PROVE  Honest
  <2>1. d.m = ctx.m /\ d.n = ctx.n /\ d.cbs = ctx.cbs /\ d.fault = ctx.fault /\ (ctx.late => d.late)
    BY <1>4 DEF Bounced, Alike
  <2>2. ASSUME ~Aside(d) PROVE Truthful(d) /\ Held(d, Without(i))
    <3>1. i \in New(out) /\ ctx.m \in Remote \ Movers /\ Truthful(ctx) /\ Held(ctx, out)
      BY <1>3, <1>4, <2>1, <2>2
    <3>2. d.st => ctx.st BY <1>4 DEF Bounced
    <3>3. Held(d, Without(i)) BY <1>1, <2>1, <3>1, <3>2, HeldWithout, HeldAlike
    <3>4. /\ ctx.many => d.many
          /\ d.e = "DB_MULTI" => d.many
      BY <1>1, <1>2, <1>4, <3>1, RepliesNarrow DEF Bounced
    <3> QED BY <2>1, <3>1, <3>3, <3>4 DEF Truthful
  <2> QED BY <1>1, <1>4, <2>2, WaitsHonest DEF Raise
<1>5. ASSUME NEW d \in Context, out[i].old => d.late, NEW v \in -1..2,
             Delivered(ctx, d, out[i].q, v), Deliver(out[i].q, d, v, out[i].old, Without(i))
      PROVE  Honest
  <2>1. d.m = ctx.m /\ (ctx.late => d.late) BY <1>5 DEF Delivered, Alike
  <2>2. ASSUME ~Aside(d) PROVE Received(d, Without(i))
    <3>1. i \in New(out) /\ ctx.m \in Remote \ Movers /\ Truthful(ctx) /\ Held(ctx, out)
      BY <1>3, <1>5, <2>1, <2>2
    <3> QED BY <1>1, <1>2, <1>5, <3>1, DeliveredReceived
  <2> QED BY <1>1, <1>5, <2>1, <2>2, DeliverHonest
<1> QED BY <1>4, <1>5, ReplyCases

\* A context of its own comes back, or is lost.
LEMMA KidHonest ==
  ASSUME EngineInv, AnswerInv, up, Busy, NEW i \in DOMAIN out, KidReturns(i) \/ KidLost(i)
  PROVE  Honest
<1>1. ctx \in Context /\ ctx.m \in Remote /\ out \in Flights /\ Without(i) \in Flights /\ TooManyIsTrue
  BY InFlight DEF EngineInv, Context, Busy, AnswerInv
<1>2. out[i].q \in Kids BY DEF KidReturns, KidLost
<1>3. CASE Waits(ctx, Without(i), ev)
  <2>1. ~Aside(ctx) => Truthful(ctx) /\ Held(ctx, Without(i))
    BY <1>1, HeldWithout DEF AnswerInv
  <2> QED BY <1>1, <1>3, <2>1, WaitsHonest
<1>4. ASSUME NEW x \in Context, Rejoins(ctx, x, out[i].q), out[i].old => x.late
      PROVE  ~Aside(x) => /\ Truthful(x) /\ Held(x, Without(i)) /\ Fits(x, Without(i))
  <2>1. /\ x.m = ctx.m /\ x.n = ctx.n - 1 /\ x.cbs = ctx.cbs /\ x.st = ctx.st
        /\ x.fault = ctx.fault /\ x.many = ctx.many /\ (ctx.late => x.late)
    BY <1>4 DEF Rejoins
  <2> SUFFICES ASSUME ~Aside(x) PROVE Truthful(x) /\ Held(x, Without(i)) /\ Fits(x, Without(i))
    OBVIOUS
  <2>2. i \in New(out) /\ ctx.m \in Remote \ Movers /\ Truthful(ctx) /\ Held(ctx, out)
    BY <1>1, <1>4, <2>1 DEF Aside, AnswerInv, New
  <2>3. x.e = "DB_MULTI" => ctx.e = "DB_MULTI"
    BY <1>4 DEF Rejoins, KidError, OK
  <2>4. Truthful(x) BY <2>1, <2>2, <2>3 DEF Truthful
  <2>5. out[i].q \notin Narrow BY <1>2 DEF Narrow
  <2>6. ctx.m \notin Narrowers \cup {"addNetIf"} BY <2>2, <2>5 DEF Held, Asked
  <2>7. ctx.m \notin Cancellers
    <3>1. out[i].q \notin {"getJobsByUUID", "getJobsByUID", "addJob"} BY <1>2 DEF Kids
    <3> QED BY <2>2, <3>1 DEF Held, Asked
  <2>8. Held(ctx, Without(i)) BY <1>1, <2>2, HeldWithout
  <2>9. CASE ctx.m \in Serial
    <3>1. ~ctx.st /\ New(Without(i)) = {} BY <1>1, <2>2, <2>5, <2>9, LastOne DEF Held, Asked, Only
    <3>2. ctx.m \notin Quiet BY <2>2, <2>9, ClassesDiffer
    <3> QED BY <2>1, <2>4, <2>6, <2>7, <3>1, <3>2 DEF Held, Fits, Only, Asked
  <2>10. CASE ctx.m \in Quiet
    <3>1. ctx.m \notin Serial BY <2>2, <2>10, ClassesDiffer
    <3> QED BY <2>1, <2>4, <2>6, <2>7, <2>8, <2>10, <3>1 DEF Held, Fits
  <2> QED BY <2>2, <2>6, <2>7, <2>9, <2>10, ClassesDiffer
<1>5. ASSUME NEW x \in Context, Rejoins(ctx, x, out[i].q), out[i].old => x.late,
             Enter(x, Without(i), ev) \/ Waits(x, Without(i), ev)
      PROVE  Honest
  <2>1. x.m \in Remote BY <1>1, <1>5 DEF Rejoins
  <2>2. ~Aside(x) => /\ Truthful(x) /\ Held(x, Without(i)) /\ Fits(x, Without(i)) BY <1>4, <1>5
  <2>3. CASE Enter(x, Without(i), ev) BY <1>1, <2>1, <2>2, <2>3, EnterHonest
  <2>4. CASE Waits(x, Without(i), ev) BY <1>1, <2>2, <2>4, WaitsHonest
  <2> QED BY <1>5, <2>3, <2>4
<1> QED BY <1>3, <1>5, KidCases

LEMMA CallHonest ==
  ASSUME EngineInv, AnswerInv, Call
  PROVE  Honest
<1>1. PICK m \in Remote : Enter(Fresh(m), out, ev)
  BY RpcCallAssumption DEF Call
<1> DEFINE c == Fresh(m)
<1>2. c \in Context BY FreshIsContext
<1>3. c.m = m /\ c.n = 0 /\ c.v = 0 /\ c.cbs = <<>> /\ ~c.st /\ c.e = OK /\ c.fault = OK
  BY DEF Fresh
<1> HIDE DEF c
<1>4. New(out) = {} BY DEF Call, EngineInv, Clear, New
<1>5. Fits(c, out)
  <2>1. \A S : <<>> \in Seq(S) BY NoneOf
  <2> QED BY <1>3, <1>4, <2>1 DEF Fits, Asked
<1>6. Truthful(c) BY <1>3 DEF Truthful, OK
<1>7. out \in Flights /\ TooManyIsTrue BY DEF EngineInv, AnswerInv
<1> QED BY <1>1, <1>2, <1>3, <1>5, <1>6, <1>7, EnterHonest DEF c

LEMMA EventHonest ==
  ASSUME EngineInv, AnswerInv, Busy, HandleEvent
  PROVE  Honest
<1>1. PICK d \in Context : \E e :
        /\ Alike(ctx, d) /\ d.e = ctx.e /\ d.many = ctx.many
        /\ e = Fault(d) \/ e = "no error"
        /\ Answers(d, e, out, Tail(ev))
  BY EventCases
<1>2. d.m = ctx.m /\ d.fault = ctx.fault /\ (ctx.late => d.late) BY <1>1 DEF Alike
<1>3. up BY DEF HandleEvent
<1>4. Fault(d) = "DB_MULTI" => d.many \/ Aside(d)
  BY <1>1, <1>2, <1>3 DEF Fault, AnswerInv, Aside, Truthful
<1> QED BY <1>1, <1>4, AnswersHonest

\* No call is served: what comes is too late.
LEMMA IdleHonest ==
  ASSUME EngineInv, AnswerInv, ~Busy, Reply \/ HandleEvent
  PROVE  Honest
<1>1. \E qs, es : Waits(ctx, qs, es)
  <2>1. CASE Reply BY <2>1 DEF Reply, QueryFails, QueryReturns, KidReturns, KidLost, Raise
  <2>2. CASE HandleEvent BY <2>2 DEF HandleEvent
  <2> QED BY <2>1, <2>2
<1>2. TooManyIsTrue BY DEF AnswerInv
<1> QED BY <1>1, <1>2, WaitsHonest DEF Busy

\* The invariant: ctx->state and the error belong to what is under way.
LEMMA AnswersTyped == Spec => []AnswerInv
<1>1. Init => AnswerInv
  BY DEF Init, AnswerInv, TooManyIsTrue, Busy, Idle, Fresh, OK
<1>2. ASSUME EngineInv, AnswerInv, [Next]_vars PROVE AnswerInv'
  <2>1. ASSUME Honest PROVE AnswerInv'
    BY <2>1 DEF Honest, AnswerInv, Busy, Aside, Truthful, Held, Only, Asked, New
  <2>2. CASE Call BY <1>2, <2>1, <2>2, CallHonest
  <2>3. CASE Reply
    <3>1. PICK i \in DOMAIN out : QueryFails(i) \/ QueryReturns(i) \/ KidReturns(i) \/ KidLost(i)
      BY <2>3 DEF Reply
    <3>2. up BY <2>3 DEF Reply
    <3> QED BY <1>2, <2>1, <2>3, <3>1, <3>2, QueryHonest, KidHonest, IdleHonest
  <2>4. CASE HandleEvent BY <1>2, <2>1, <2>4, EventHonest, IdleHonest
  <2>5. CASE UseAfterFree
    BY <1>2, <2>5 DEF UseAfterFree, Dies, AnswerInv, TooManyIsTrue
  <2>6. CASE LateAddJob \/ UNCHANGED vars
    <3>1. UNCHANGED <<ctx, out, ev, prev, up>> BY <2>6 DEF LateAddJob, vars
    <3> QED BY <1>2, <3>1 DEF AnswerInv, TooManyIsTrue, Busy, Aside, Truthful, Held, Only, Asked, New
  <2> QED BY <1>2, <2>2, <2>3, <2>4, <2>5, <2>6 DEF Next
<1> QED BY <1>1, <1>2, EngineTyped, PTL DEF Spec

\* A client that is told DB_MULTI asked for one row of which there are more: no
\* reply is refused because ctx->state was left set by another query, but for the
\* machine's interfaces and for calls that an earlier call's reply has reached.
THEOREM TooManyRowsAreTrue == Spec => []TooManyIsTrue
<1>1. AnswerInv => TooManyIsTrue BY DEF AnswerInv
<1> QED BY <1>1, AnswersTyped, PTL

-----------------------------------------------------------------------------
(* What a call leaves behind.  A call that is answered while a query of its  *)
(* own is on its way sent that query beside another one, or in the entry     *)
(* that answers.                                                             *)

\* The methods that are not in LeavesQueries: those that may be entered with an
\* error and look at it before they send anything (Careful), those that start a
\* context of their own for each row of a list (Listers), those with a query for
\* each setting or interface (Counters), and those with one query at a time that
\* are never entered with an error (Straight; Short ones do not get to their end).
Careful ==
  {"defineStorage", "modifyStorage", "detachAllNodesByStorage", "detachAllDisksByStorage",
   "addDiskToStorage", "defineDisk", "removeDiskFromStorage", "removeNetwork",
   "connectTextConsole", "disconnectConsole", "getConsoleLockUser", "getSupportedConsoles",
   "updateNodeStats", "addVmToNode", "saveVM", "addToUserGroup", "renameUserGroup",
   "renameUserGroupByName", "modifyUserGroupByName", "getPlatform", "getPlatformByName"}
Listers ==
  {"getVmsByNetworkFull", "getAllVmsFullByNode", "getVMsFullUID", "getVMsFull", "getPlatformsFull"}
Counters == {"setConfigs", "detachAllNetIfsByNetwork"}
Short == {"modifyNetIf", "modifyDiskByStorage"}
Straight == Remote \ (LeavesQueries \cup Careful \cup Listers \cup Counters)

Keeping == Bare \cup {"getNetworkOfNone"}

\* An entry with the error e that sends at most one query of A, with a callback
\* of C, and does not answer then.
Fair(e, A, C) ==
  [ask : {<<>>}, cb : {<<>>}, err : Raised \cup {Same}, count : Nat \cup {NoCount},
   obj : {Same, "object", "null"}, ret : BOOLEAN, crash : BOOLEAN]
  \cup
  [ask : {<<q>> : q \in A}, cb : {<<>>} \cup {<<f>> : f \in C},
   err : IF e = OK THEN {Same, OK} ELSE {OK}, count : Nat \cup {NoCount},
   obj : {Same, "object", "null"}, ret : {FALSE}, crash : BOOLEAN]

\* The words that stay within L for the queries of Q and the callbacks of C.
FairWords(L, e, Q, C) ==
  /\ Nothing \in L /\ Answer \in L /\ Crash \in L
  /\ \A x \in Raised : Fail(x) \in L
  /\ \A k \in Nat : Goto(k) \in L
  /\ \A q \in Q : Cleared(Ask(q)) \in L /\ \A cb \in C : Cleared(AskCb(q, cb)) \in L
  /\ e = OK => \A q \in Q : Ask(q) \in L /\ \A cb \in C : AskCb(q, cb) \in L
  /\ \A s \in L : /\ Hold(s) \in L
                  /\ \A k \in Nat : Counting(s, k) \in L
                  /\ \A k \in Int : HoldValue(s, k) \in L

LEMMA FairVocabulary ==
  ASSUME NEW e, NEW A, NEW C
  PROVE  FairWords(Fair(e, A, C), e, A, C)
<1> DEFINE L == Fair(e, A, C)
           Asking == {<<q>> : q \in A}
           Leaving == {<<>>} \cup {<<f>> : f \in C}
           Kind3 == IF e = OK THEN {Same, OK} ELSE {OK}
           Idle3 == [ask : {<<>>}, cb : {<<>>}, err : Raised \cup {Same}, count : Nat \cup {NoCount},
                     obj : {Same, "object", "null"}, ret : BOOLEAN, crash : BOOLEAN]
           Send3 == [ask : Asking, cb : Leaving, err : Kind3, count : Nat \cup {NoCount},
                     obj : {Same, "object", "null"}, ret : {FALSE}, crash : BOOLEAN]
<1>0. L = Idle3 \cup Send3 BY DEF Fair
<1>1. OK \in Raised /\ OK \in Kind3 /\ (e = OK => Same \in Kind3) BY DEF OK, Raised, Errors
<1>2. (\A q \in A : <<q>> \in Asking) /\ <<>> \in Leaving /\ \A f \in C : <<f>> \in Leaving OBVIOUS
<1> HIDE DEF L, Asking, Leaving, Kind3
<1>3. Nothing \in Idle3 BY DEF Nothing
<1>4. Answer \in Idle3 /\ Crash \in Idle3 /\ \A x \in Raised : Fail(x) \in Idle3
  BY <1>3 DEF Answer, Answering, Crash, Fail
<1>5. \A k \in Nat : Goto(k) \in Idle3 BY <1>3 DEF Goto, Counting
<1>6. \A q \in A : Cleared(Ask(q)) \in Send3 /\ \A cb \in C : Cleared(AskCb(q, cb)) \in Send3
  BY <1>1, <1>2 DEF Ask, AskCb, Cleared, Nothing
<1>7. e = OK => \A q \in A : Ask(q) \in Send3 /\ \A cb \in C : AskCb(q, cb) \in Send3
  BY <1>1, <1>2 DEF Ask, AskCb, Nothing
<1>8. \A s \in Idle3 : /\ Hold(s) \in Idle3
                       /\ \A k \in Nat : Counting(s, k) \in Idle3
                       /\ \A k \in Int : HoldValue(s, k) \in Idle3
  BY DEF Hold, Counting, HoldValue
<1>9. \A s \in Send3 : /\ Hold(s) \in Send3
                       /\ \A k \in Nat : Counting(s, k) \in Send3
                       /\ \A k \in Int : HoldValue(s, k) \in Send3
  BY DEF Hold, Counting, HoldValue
<1> HIDE DEF Idle3, Send3
<1> QED BY <1>0, <1>3, <1>4, <1>5, <1>6, <1>7, <1>8, <1>9 DEF FairWords, L

\* What the careful methods ask for.
CarefulAsks ==
  {"isStorage", "defineStorage", "getStorage", "getNodesByStorage", "getDisksByStorage",
   "isDiskByStorage", "isDiskInUse", "isNetworkId", "isNetworkInUse", "removeNetwork",
   "hasConsoleLock", "console_disconnect_text", "getConsoleLockSession", "getUserNameBySession",
   "getVMattribute", "isNodeEnabledAndConfigured", "updateNodeStats", "isVM",
   "getNodeControlModule", "getLatestNodeStat", "createVM", "getPlatformIdByVm",
   "createVmTemplate", "isUserUID", "addToUserGroup", "isUserGroupByName", "renameUserGroup",
   "renameUserGroupByName", "modifyUserGroupByName", "getPlatform", "platform_get"}

LEMMA CarefulAsksKnown == CarefulAsks \subseteq Asks
<1>1. {"isStorage", "defineStorage", "getStorage", "getNodesByStorage", "getDisksByStorage", "isDiskInUse",
       "isDiskByStorage"} \subseteq Asks
  BY StorageNamesKnown DEF StorageNames
<1>2. {"isNetworkId", "isNetworkInUse", "removeNetwork"} \subseteq Asks
  BY NetworkNamesKnown DEF NetworkNames
<1>3. {"hasConsoleLock", "console_disconnect_text", "getConsoleLockSession", "getUserNameBySession"} \subseteq Asks
  BY ConsoleNamesKnown DEF ConsoleNames
<1>4. {"isNodeEnabledAndConfigured", "updateNodeStats"} \subseteq Asks BY NodeNamesKnown DEF NodeNames
<1>5. {"getVMattribute", "isVM", "getNodeControlModule", "getLatestNodeStat", "createVM", "getPlatformIdByVm",
       "createVmTemplate"} \subseteq Asks
  BY VmNamesKnown DEF VmNames
<1>6. {"isUserUID", "addToUserGroup", "isUserGroupByName", "renameUserGroup", "renameUserGroupByName",
       "modifyUserGroupByName", "getPlatform", "platform_get"} \subseteq Asks
  BY AccountNamesKnown DEF AccountNames
<1> QED BY <1>1, <1>2, <1>3, <1>4, <1>5, <1>6 DEF CarefulAsks

\* The words of the careful methods.
LEMMA CarefulVocabulary ==
  ASSUME NEW e
  PROVE  LET L == Fair(e, Asks, Callbacks)
         IN /\ Nothing \in L /\ Answer \in L /\ Crash \in L
            /\ \A x \in Raised : Fail(x) \in L
            /\ \A k \in Nat : Goto(k) \in L
            /\ \A q \in CarefulAsks : Cleared(Ask(q)) \in L /\ Cleared(Value(q)) \in L
            /\ e = OK => \A q \in CarefulAsks : /\ Ask(q) \in L /\ Again(q) \in L
                                                /\ AgainInt(q) \in L /\ Value(q) \in L
            /\ \A s \in L : Hold(s) \in L /\ \A k \in Nat : Counting(s, k) \in L
<1> DEFINE L == Fair(e, Asks, Callbacks)
<1>1. FairWords(L, e, Asks, Callbacks) BY FairVocabulary
<1>2. CarefulAsks \subseteq Asks BY CarefulAsksKnown
<1>3. "rewind" \in Callbacks /\ "int_rewind" \in Callbacks /\ "value" \in Callbacks BY DEF Callbacks, Meek
<1> HIDE DEF L
<1>4. \A q \in CarefulAsks : Cleared(Ask(q)) \in L /\ Cleared(Value(q)) \in L
  BY <1>1, <1>2, <1>3 DEF FairWords, Value
<1>5. e = OK => \A q \in CarefulAsks : Ask(q) \in L /\ Again(q) \in L /\ AgainInt(q) \in L /\ Value(q) \in L
  BY <1>1, <1>2, <1>3 DEF FairWords, Value, Again, AgainInt
<1> QED BY <1>1, <1>4, <1>5 DEF FairWords, L

\* The careful methods send nothing with an error.
LEMMA CarefulStorage ==
  ASSUME NEW n \in Int, NEW e, NEW v \in Int, NEW o, n # 0 \/ e = OK
  PROVE  \A s \in defineStorage(n, e, v, o) \cup modifyStorage(n, e, v, o)
                  \cup detachAllNodesByStorage(n, e, v, o) \cup detachAllDisksByStorage(n, e, v, o)
                  \cup removeDiskFromStorage(n, e, v, o)
                  \cup addDiskToStorage(n, e, v, o) \cup defineDisk(n, e, v, o) :
           Loaded(s) => s \in Fair(e, Asks, Callbacks)
<1> DEFINE L == Fair(e, Asks, Callbacks)
<1>1. /\ Nothing \in L /\ Crash \in L /\ Goto(4) \in L
      /\ \A x \in {"ENTITY_ALREADY_EXISTS", "NO_CHANGE_PERFORMED", "RESOURCE_IN_USE", "INVALID_PARAMETER"} :
           Fail(x) \in L
      /\ Cleared(Ask("defineStorage")) \in L
      /\ e = OK => /\ Again("isStorage") \in L /\ Value("getStorage") \in L /\ Value("getNodesByStorage") \in L
                   /\ Value("getDisksByStorage") \in L /\ Again("isDiskInUse") \in L
  BY CarefulVocabulary DEF CarefulAsks, Raised, Errors
<1>2. ~Loaded(Again("isDiskByStorage"))
  <2>1. Again("isDiskByStorage").ask = <<"isDiskByStorage">> BY DEF Again, AskCb, Nothing
  <2>2. 1 \in DOMAIN <<"isDiskByStorage">> /\ <<"isDiskByStorage">>[1] = "isDiskByStorage" OBVIOUS
  <2> QED BY <2>1, <2>2 DEF Loaded, NotLoaded
<1> HIDE DEF L
<1>3. defineStorage(n, e, v, o) \subseteq L BY <1>1 DEF defineStorage
<1>4. modifyStorage(n, e, v, o) \subseteq L BY <1>1 DEF modifyStorage
<1>5. /\ detachAllNodesByStorage(n, e, v, o) \subseteq L /\ detachAllDisksByStorage(n, e, v, o) \subseteq L
      /\ removeDiskFromStorage(n, e, v, o) \subseteq L
  BY <1>1 DEF detachAllNodesByStorage, detachAllDisksByStorage, removeDiskFromStorage, Checked
<1>6. \A s \in addDiskToStorage(n, e, v, o) \cup defineDisk(n, e, v, o) : Loaded(s) => s \in L
  BY <1>1, <1>2 DEF addDiskToStorage, defineDisk, Checked
<1> QED BY <1>3, <1>4, <1>5, <1>6 DEF L

LEMMA CarefulConsoles ==
  ASSUME NEW n \in Int, NEW e, NEW v \in Int, NEW o, n # 0 \/ e = OK
  PROVE  /\ connectTextConsole(n, e, v, o) \subseteq Fair(e, Asks, Callbacks)
         /\ disconnectConsole(n, e, v, o) \subseteq Fair(e, Asks, Callbacks)
         /\ getConsoleLockUser(n, e, v, o) \subseteq Fair(e, Asks, Callbacks)
         /\ getSupportedConsoles(n, e, v, o) \subseteq Fair(e, Asks, Callbacks)
<1> DEFINE L == Fair(e, Asks, Callbacks)
<1>1. /\ Nothing \in L /\ Answer \in L
      /\ Fail("CONSOLE_LOCKED") \in L /\ Fail("INVALID_PARAMETER") \in L
      /\ e = OK => /\ Again("hasConsoleLock") \in L /\ Value("getConsoleLockSession") \in L
                   /\ Ask("getUserNameBySession") \in L /\ Value("getVMattribute") \in L
                   /\ Counting(Ask("console_disconnect_text"), 3) \in L
  BY CarefulVocabulary DEF CarefulAsks, Raised, Errors
<1> HIDE DEF L
<1>2. /\ connectTextConsole(n, e, v, o) \subseteq L /\ disconnectConsole(n, e, v, o) \subseteq L
      /\ getConsoleLockUser(n, e, v, o) \subseteq L /\ getSupportedConsoles(n, e, v, o) \subseteq L
  BY <1>1 DEF connectTextConsole, disconnectConsole, getConsoleLockUser, getSupportedConsoles, Checked
<1> QED BY <1>2 DEF L

LEMMA CarefulMachines ==
  ASSUME NEW n \in Int, NEW e, NEW v \in Int, NEW o, n # 0 \/ e = OK
  PROVE  /\ removeNetwork(n, e, v, o) \subseteq Fair(e, Asks, Callbacks)
         /\ updateNodeStats(n, e, v, o) \subseteq Fair(e, Asks, Callbacks)
         /\ addVmToNode(n, e, v, o) \subseteq Fair(e, Asks, Callbacks)
         /\ saveVM(n, e, v, o) \subseteq Fair(e, Asks, Callbacks)
<1> DEFINE L == Fair(e, Asks, Callbacks)
<1>1. /\ Nothing \in L /\ Crash \in L
      /\ \A x \in {"RESOURCE_IN_USE", "SERVER_FAILURE", "INVALID_PARAMETER", "ENTITY_ALREADY_EXISTS",
                   "NODE_UNCONFIGURED", "DB_FAIL", "INSUFFICIENT_RESOURCES"} : Fail(x) \in L
      /\ Cleared(Value("getNodeControlModule")) \in L
      /\ e = OK => /\ Again("isNetworkId") \in L /\ AgainInt("isNetworkInUse") \in L
                   /\ Ask("removeNetwork") \in L /\ Again("isNodeEnabledAndConfigured") \in L
                   /\ Ask("updateNodeStats") \in L /\ Value("isVM") \in L
                   /\ Hold(Value("getLatestNodeStat")) \in L /\ Value("createVM") \in L
                   /\ Value("getPlatformIdByVm") \in L /\ Value("createVmTemplate") \in L
  BY CarefulVocabulary DEF CarefulAsks, Raised, Errors
<1> HIDE DEF L
<1>2. removeNetwork(n, e, v, o) \subseteq L BY <1>1 DEF removeNetwork, Checked
<1>3. updateNodeStats(n, e, v, o) \subseteq L /\ saveVM(n, e, v, o) \subseteq L
  BY <1>1 DEF updateNodeStats, saveVM
<1>4. addVmToNode(n, e, v, o) \subseteq L BY <1>1 DEF addVmToNode, Checked
<1> QED BY <1>2, <1>3, <1>4 DEF L

LEMMA CarefulAccounts ==
  ASSUME NEW n \in Int, NEW e, NEW v \in Int, NEW o, n # 0 \/ e = OK
  PROVE  /\ addToUserGroup(n, e, v, o) \subseteq Fair(e, Asks, Callbacks)
         /\ renameUserGroup(n, e, v, o) \subseteq Fair(e, Asks, Callbacks)
         /\ renameUserGroupByName(n, e, v, o) \subseteq Fair(e, Asks, Callbacks)
         /\ modifyUserGroupByName(n, e, v, o) \subseteq Fair(e, Asks, Callbacks)
         /\ getPlatform(n, e, v, o) \subseteq Fair(e, Asks, Callbacks)
         /\ getPlatformByName(n, e, v, o) \subseteq Fair(e, Asks, Callbacks)
<1> DEFINE L == Fair(e, Asks, Callbacks)
<1>1. /\ Nothing \in L /\ Crash \in L
      /\ \A x \in {"INVALID_PARAMETER", "ENTITY_ALREADY_EXISTS", "PLATFORM_NOT_PRESENT"} : Fail(x) \in L
      /\ \A q \in {"renameUserGroup", "renameUserGroupByName", "modifyUserGroupByName"} : Cleared(Ask(q)) \in L
      /\ e = OK => /\ Again("isUserUID") \in L /\ Ask("addToUserGroup") \in L
                   /\ Again("isUserGroupByName") \in L /\ Value("getPlatform") \in L
                   /\ Counting(Ask("platform_get"), 2) \in L
  BY CarefulVocabulary DEF CarefulAsks, Raised, Errors
<1> HIDE DEF L
<1>2. addToUserGroup(n, e, v, o) \subseteq L BY <1>1 DEF addToUserGroup, Checked
<1>3. \A q \in {"renameUserGroup", "renameUserGroupByName", "modifyUserGroupByName"} :
        ifNameIsFree(q, n, e) \subseteq L
  BY <1>1 DEF ifNameIsFree
<1>4. getPlatform(n, e, v, o) \subseteq L /\ getPlatformByName(n, e, v, o) \subseteq L
  BY <1>1 DEF getPlatform, getPlatformByName, Checked
<1> QED BY <1>2, <1>3, <1>4 DEF renameUserGroup, renameUserGroupByName, modifyUserGroupByName, L

\* An entry of a straight method: one query that ends the call, or a row that is
\* read for the next entry.
Upright == Fair(OK, Asks \ Kids, Endings) \cup Fair(OK, Keeping, {"value"})

LEMMA KeepingAreQueries == Keeping \subseteq Asks \ Kids
<1>1. {"getStorage", "getDiskByStorage"} \subseteq Asks BY StorageNamesKnown DEF StorageNames
<1>2. {"getNetwork", "getVMvifsByNetwork", "getVMvifByMac", "getNetworkOfNone"} \subseteq Asks
  BY NetworkNamesKnown DEF NetworkNames
<1> QED BY <1>1, <1>2 DEF Keeping, Bare, Kids

LEMMA UprightWords ==
  /\ Nothing \in Upright /\ Answer \in Upright /\ Crash \in Upright /\ JobAdd \in Upright
  /\ \A x \in Raised : Fail(x) \in Upright
  /\ \A q \in Asks \ Kids : Ask(q) \in Upright /\ \A cb \in Endings : AskCb(q, cb) \in Upright
  /\ \A q \in Keeping : Value(q) \in Upright
  /\ \A s \in Upright : Hold(s) \in Upright /\ \A k \in Int : HoldValue(s, k) \in Upright
<1> DEFINE E == Fair(OK, Asks \ Kids, Endings)
           K == Fair(OK, Keeping, {"value"})
<1>1. FairWords(E, OK, Asks \ Kids, Endings) BY FairVocabulary
<1>2. FairWords(K, OK, Keeping, {"value"}) BY FairVocabulary
<1>3. "addJob" \in Asks \ Kids BY JobNamesKnown DEF JobNames, Kids
<1>4. "jobs_cb_add" \in Endings BY DEF Endings
<1> HIDE DEF E, K
<1>5. JobAdd \in E BY <1>1, <1>3, <1>4 DEF FairWords, JobAdd
<1>6. Upright = E \cup K BY DEF Upright, E, K
<1>7. \A s \in E : Hold(s) \in E /\ \A k \in Int : HoldValue(s, k) \in E BY <1>1 DEF FairWords
<1>8. \A s \in K : Hold(s) \in K /\ \A k \in Int : HoldValue(s, k) \in K BY <1>2 DEF FairWords
<1>9. \A q \in Keeping : Value(q) \in K BY <1>2 DEF FairWords, Value
<1>10. /\ Nothing \in E /\ Answer \in E /\ Crash \in E /\ \A x \in Raised : Fail(x) \in E
       /\ \A q \in Asks \ Kids : Ask(q) \in E /\ \A cb \in Endings : AskCb(q, cb) \in E
  BY <1>1 DEF FairWords
<1> QED BY <1>5, <1>6, <1>7, <1>8, <1>9, <1>10

\* The job of an action on a disk: the module is asked for beside nothing.
LEMMA BothHeld ==
  ASSUME NEW q, NEW cb
  PROVE  Both(Hold(Nothing), AskCb(q, cb)) = Hold(AskCb(q, cb))
<1>1. <<>> \o <<q>> = <<q>> /\ <<>> \o <<cb>> = <<cb>> OBVIOUS
<1> QED BY <1>1 DEF Both, Hold, AskCb, Nothing

LEMMA StraightStorage ==
  ASSUME NEW m \in StorageAll, m \in Straight \ Short, NEW n \in Int, NEW v \in Int, NEW o
  PROVE  StorageStep(m, n, OK, v, o) \subseteq Upright
<1> DEFINE L == Upright
<1>1. /\ Nothing \in L /\ Crash \in L /\ Fail("INVALID_PARAMETER") \in L
      /\ Value("getStorage") \in L /\ HoldValue(Value("getDiskByStorage"), v) \in L
      /\ Hold(Nothing) \in L
  <2>1. "INVALID_PARAMETER" \in Raised BY DEF Raised, Errors
  <2>2. "getStorage" \in Keeping /\ "getDiskByStorage" \in Keeping BY DEF Keeping, Bare
  <2> QED BY <2>1, <2>2, UprightWords
<1>2. \A q \in StorageNames \ Kids : Ask(q) \in L
  BY StorageNamesKnown, UprightWords
<1>3. Hold(AskCb("getControlModuleNameByStorage", "job_module_of_none")) \in L
  <2>1. "getControlModuleNameByStorage" \in StorageNames \ Kids BY DEF StorageNames, Kids
  <2>2. "job_module_of_none" \in Endings BY DEF Endings
  <2> QED BY <2>1, <2>2, StorageNamesKnown, UprightWords
<1> HIDE DEF L
<1>4. storage_cb_setup_disk(n, OK, v, o) \subseteq L
  BY <1>1 DEF storage_cb_setup_disk, Checked
<1>5. diskAction(n, OK, v, o) \subseteq L
  <2>1. ASSUME NEW s \in storage_cb_setup_disk(n, OK, v, o), n = 2, ~s.crash PROVE s = Hold(Nothing)
    BY <2>1 DEF storage_cb_setup_disk, Crash, Nothing
  <2>2. ASSUME NEW s \in storage_cb_setup_disk(n, OK, v, o)
        PROVE  (IF n # 2 \/ s.crash THEN s
                ELSE Both(s, AskCb("getControlModuleNameByStorage", "job_module_of_none"))) \in L
    BY <1>3, <1>4, <2>1, BothHeld
  <2> QED BY <2>2 DEF diskAction
<1>6. getDiskByStorage \subseteq L
  <2>1. "getDiskByStorage" \in StorageNames \ Kids BY DEF StorageNames, Kids
  <2> QED BY <1>1, <1>2, <2>1 DEF getDiskByStorage, Checked
<1>7. CASE m \in StorageMethods \cup {"getDiskByStorage"}
  <2>1. m \in {"attachDiskToStorage", "enableDiskByStorage", "getDiskByStorage"}
    BY <1>7 DEF StorageMethods, Straight, Short, Remote, Internal, LeavesQueries, Careful, Listers, Counters
  <2>2. StorageStep(m, n, OK, v, o) \subseteq L
    BY <1>5, <1>6, <2>1 DEF StorageStep, attachDiskToStorage, enableDiskByStorage
  <2> QED BY <2>2 DEF L
<1>8. CASE m \notin StorageMethods \cup {"getDiskByStorage"}
  <2>1. m \in StorageNames \ Kids
    BY <1>8 DEF StorageAll, StorageReads, StorageModuleReads, StorageRelationReads,
      NodesAndVmsReads, StorageDiskReads, StorageNames, Kids
  <2>2. StorageStep(m, n, OK, v, o) = {Ask(m)} BY <1>8 DEF StorageStep, StorageMethods
  <2> QED BY <1>2, <2>1, <2>2 DEF L
<1> QED BY <1>7, <1>8

LEMMA StraightNetwork ==
  ASSUME NEW m \in NetworkAll, m \in Straight \ Short, NEW n \in Int, NEW v \in Int, NEW o
  PROVE  NetworkStep(m, n, OK, v, o) \subseteq Upright
<1> DEFINE L == Upright
<1>1. Fail("INVALID_PARAMETER") \in L
  <2>1. "INVALID_PARAMETER" \in Raised BY DEF Raised, Errors
  <2> QED BY <2>1, UprightWords
<1>2. \A q \in NetworkNames \ Kids : Ask(q) \in L
  BY NetworkNamesKnown, UprightWords
<1> HIDE DEF L
<1>3. "isNetworkId" \in NetworkNames \ Kids BY DEF NetworkNames, Kids
<1>4. removeNetIf(n, OK, v, o) \subseteq L /\ isNetworkId \subseteq L
  BY <1>1, <1>2, <1>3 DEF removeNetIf, isNetworkId, Checked
<1>7. CASE m \in NetworkMethods \cup {"isNetworkId"}
  <2>1. m \in {"removeNetIf", "isNetworkId"}
    BY <1>7 DEF NetworkMethods, Straight, Short, Remote, Internal, LeavesQueries, Careful, Listers, Counters
  <2>2. NetworkStep(m, n, OK, v, o) \subseteq L BY <1>4, <2>1 DEF NetworkStep
  <2> QED BY <2>2 DEF L
<1>8. CASE m \notin NetworkMethods \cup {"isNetworkId"}
  <2>1. m \in NetworkNames \ Kids
    BY <1>8 DEF NetworkAll, NetworkReads, DefineReads, NetworkModuleReads,
      NodesByNetworkReads, NetworkOtherReads, NetworkNames, Kids
  <2>2. NetworkStep(m, n, OK, v, o) = {Ask(m)} BY <1>8 DEF NetworkStep, NetworkMethods
  <2> QED BY <1>2, <2>1, <2>2 DEF L
<1> QED BY <1>7, <1>8

LEMMA StraightConsoles ==
  ASSUME NEW m \in ConsoleAll, m \in Straight \ Short, NEW n \in Int, NEW v \in Int, NEW o
  PROVE  ConsoleStep(m, n, OK, v, o) \subseteq Upright
<1>2. \A q \in ConsoleNames \ Kids : Ask(q) \in Upright
  BY ConsoleNamesKnown, UprightWords
<1>7. CASE m \in ConsoleMethods \cup {"hasConsoleLock"}
  <2>1. m = "hasConsoleLock"
    BY <1>7 DEF ConsoleMethods, Straight, Short, Remote, Internal, LeavesQueries, Careful, Listers, Counters
  <2>2. "hasConsoleLock" \in ConsoleNames \ Kids BY DEF ConsoleNames, Kids
  <2>3. ConsoleStep(m, n, OK, v, o) = {Ask("hasConsoleLock")} BY <2>1 DEF ConsoleStep, hasConsoleLock
  <2> QED BY <1>2, <2>2, <2>3
<1>8. CASE m \notin ConsoleMethods \cup {"hasConsoleLock"}
  <2>1. m \in ConsoleNames \ Kids
    BY <1>8 DEF ConsoleAll, PortReads, LockReads, SessionLockReads, ConsoleNames, Kids
  <2>2. ConsoleStep(m, n, OK, v, o) = {Ask(m)} BY <1>8 DEF ConsoleStep, ConsoleMethods
  <2> QED BY <1>2, <2>1, <2>2
<1> QED BY <1>7, <1>8

LEMMA StraightNodes ==
  ASSUME NEW m \in NodeAll, m \in Straight \ Short, NEW n \in Int, NEW v \in Int, NEW o
  PROVE  NodeStep(m, n, OK, v, o) \subseteq Upright
<1> DEFINE L == Upright
<1>1. Fail("INVALID_PARAMETER") \in L
  <2>1. "INVALID_PARAMETER" \in Raised BY DEF Raised, Errors
  <2> QED BY <2>1, UprightWords
<1>2. \A q \in NodeNames \ Kids : Ask(q) \in L
  BY NodeNamesKnown, UprightWords
<1> HIDE DEF L
<1>3. {"isNode", "isNODEowner", "getNodeStats", "getNodeCount", "getNodeCountByUID"} \subseteq NodeNames \ Kids
  BY DEF NodeNames, Kids
<1>4. isNODEowner \subseteq L /\ getNodeStats \subseteq L /\ isNODE \subseteq L /\ getNodeCount \subseteq L
  BY <1>1, <1>2, <1>3 DEF isNODEowner, getNodeStats, isNODE, getNodeCount, Checked
<1>7. CASE m \in NodeMethods \cup {"isNODEowner", "getNodeStats", "isNODE", "getNodeCount"}
  <2>1. m \in {"isNODEowner", "getNodeStats", "isNODE", "getNodeCount"}
    BY <1>7 DEF NodeMethods, Straight, Short, Remote, Internal, LeavesQueries, Careful, Listers, Counters
  <2>2. NodeStep(m, n, OK, v, o) \subseteq L BY <1>4, <2>1 DEF NodeStep
  <2> QED BY <2>2 DEF L
<1>8. CASE m \notin NodeMethods \cup {"isNODEowner", "getNodeStats", "isNODE", "getNodeCount"}
  <2>1. m \in NodeNames \ Kids
    BY <1>8 DEF NodeAll, AttributeReads, StateReads, NodeListReads, RemoveReads, NodeOtherReads, NodeNames, Kids
  <2>2. NodeStep(m, n, OK, v, o) = {Ask(m)} BY <1>8 DEF NodeStep, NodeMethods
  <2> QED BY <1>2, <2>1, <2>2 DEF L
<1> QED BY <1>7, <1>8

LEMMA StraightMachines ==
  ASSUME NEW m \in VmAll, m \in Straight \ Short, NEW n \in Int, NEW v \in Int, NEW o
  PROVE  VmStep(m, n, OK, v, o) \subseteq Upright
<1> DEFINE L == Upright
           Own == VmMethods \cup VmUnimplemented \cup
                  {"getVMs", "getVMsUID", "isVM", "getVmByRev", "ztoolsUpdate", "removeVm", "getVmCount"}
<1>1. /\ Fail("INVALID_PARAMETER") \in L /\ Fail("JOB_CREATION_FAILED") \in L
      /\ Fail("NOT_IMPLEMENTED") \in L /\ JobAdd \in L
  <2>1. {"INVALID_PARAMETER", "JOB_CREATION_FAILED", "NOT_IMPLEMENTED"} \subseteq Raised BY DEF Raised, Errors
  <2> QED BY <2>1, UprightWords
<1>2. \A q \in VmNames \ Kids : Ask(q) \in L BY VmNamesKnown, UprightWords
<1>3. AskCb("getVMparentNodeAndAddress", "job_node_addr") \in L /\ AskCb("getNodeControlModule", "job_module") \in L
  <2>1. {"getVMparentNodeAndAddress", "getNodeControlModule"} \subseteq VmNames \ Kids BY DEF VmNames, Kids
  <2>2. {"job_node_addr", "job_module"} \subseteq Endings BY DEF Endings
  <2> QED BY <2>1, <2>2, VmNamesKnown, UprightWords
<1> HIDE DEF L
<1>4. {"isVM", "getVmByRev", "isNodeEnabledAndConfigured", "ignoreVm", "removeVm", "getVmCount",
       "getVmCountByUID", "getVMs", "getVMsSorted", "getVMsByUID", "getVMsByUIDSorted"} \subseteq VmNames \ Kids
  BY DEF VmNames, Kids
<1>5. vmAction(n, OK, v, o) \subseteq L BY <1>1, <1>3 DEF vmAction
<1>6. /\ vmList(TRUE) \subseteq L /\ vmList(FALSE) \subseteq L
      /\ isVM \subseteq L /\ getVmByRev \subseteq L /\ ztoolsUpdate \subseteq L
      /\ removeVm \subseteq L /\ getVmCount \subseteq L
  BY <1>1, <1>2, <1>4 DEF vmList, vmLists, isVM, getVmByRev, ztoolsUpdate, removeVm, getVmCount, Checked
<1>7. CASE m \in VmActions
  <2>1. VmStep(m, n, OK, v, o) = vmAction(n, OK, v, o) BY <1>7 DEF VmStep, VmActions, VmUnimplemented
  <2> QED BY <1>5, <2>1 DEF L
<1>8. CASE m \in Own \ VmActions
  <2>1. m \in VmUnimplemented \cup
          {"getVMs", "getVMsUID", "isVM", "getVmByRev", "ztoolsUpdate", "removeVm", "getVmCount"}
    BY <1>8 DEF VmMethods, Straight, Short, LeavesQueries, Careful, Listers, Counters
  <2>2. VmStep(m, n, OK, v, o) \subseteq L
    BY <1>1, <1>6, <2>1 DEF VmStep, VmActions, VmUnimplemented
  <2> QED BY <2>2 DEF L
<1>9. CASE m \notin Own
  <2>1. m \in VmNames \ Kids
    BY <1>9 DEF VmAll, TopReads, PrivilegeReads, VmReads, VmRowReads, TemplateReads, VmNames, Kids
  <2>2. VmStep(m, n, OK, v, o) = {Ask(m)} BY <1>9 DEF VmStep, VmMethods, VmUnimplemented
  <2> QED BY <1>2, <2>1, <2>2 DEF L
<1>10. VmActions \subseteq Own BY DEF VmMethods
<1> HIDE DEF Own
<1> QED BY <1>7, <1>8, <1>9, <1>10

LEMMA StraightAccounts ==
  ASSUME NEW m \in AccountAll, m \in Straight \ Short, NEW n \in Int, NEW v \in Int, NEW o
  PROVE  AccountStep(m, n, OK, v, o) \subseteq Upright
<1> DEFINE L == Upright
<1>1. Fail("INVALID_PARAMETER") \in L /\ Fail("SERVER_FAILURE") \in L /\ Nothing \in L
  <2>1. {"INVALID_PARAMETER", "SERVER_FAILURE"} \subseteq Raised BY DEF Raised, Errors
  <2> QED BY <2>1, UprightWords
<1>2. \A q \in AccountNames \ Kids : Ask(q) \in L /\ \A cb \in Endings : AskCb(q, cb) \in L
  BY AccountNamesKnown, UprightWords
<1> HIDE DEF L
<1>3. {"answer", "user_name", "user_lang", "group_modify", "group_add", "generatemac"} \subseteq Endings
  BY DEF Endings
<1>4. {"setPassword", "setPasswordByName", "getUserType", "getUserTypeByName", "setUserAttribute",
       "isUserName", "getLanguageCode", "addUser", "getUserGroupId", "isUserGroupByName", "setBlobConfig",
       "isNetIfByMAC"} \subseteq AccountNames \ Kids
  BY DEF AccountNames, Kids
<1>5. /\ setPassword(n, OK, v, o) \subseteq L /\ setPasswordByName(n, OK, v, o) \subseteq L
      /\ setUserAttribute(n, OK, v, o) \subseteq L /\ setSecureControlModuleConfig(n, OK, v, o) \subseteq L
      /\ cleanDB \subseteq L
  BY <1>1, <1>2, <1>4 DEF setPassword, setPasswordByName, setUserAttribute, setSecureControlModuleConfig,
    cleanDB, Checked
<1>6. /\ generatePassword(n, OK, v, o) \subseteq L /\ generatePasswordByName(n, OK, v, o) \subseteq L
      /\ isSuperUser(n, OK, v, o) \subseteq L /\ isSuperUserByName(n, OK, v, o) \subseteq L
      /\ modifyUserGroup(n, OK, v, o) \subseteq L /\ addUserGroup(n, OK, v, o) \subseteq L
      /\ generateMAC(n, OK, v, o) \subseteq L /\ addUser(n, OK, v, o) \subseteq L
  BY <1>1, <1>2, <1>3, <1>4 DEF generatePassword, generatePasswordByName, isSuperUser, isSuperUserByName,
    modifyUserGroup, addUserGroup, generateMAC, addUser, Checked
<1>7. CASE m \in AccountMethods \cup {"cleanDB"}
  <2>1. m \in {"setPassword", "setPasswordByName", "setUserAttribute", "setSecureControlModuleConfig", "cleanDB",
               "generatePassword", "generatePasswordByName", "isSuperUser", "isSuperUserByName",
               "modifyUserGroup", "addUserGroup", "generateMAC", "addUser"}
    BY <1>7 DEF AccountMethods, Straight, Short, LeavesQueries, Careful, Listers, Counters
  <2>2. AccountStep(m, n, OK, v, o) \subseteq L BY <1>5, <1>6, <2>1 DEF AccountStep, CheckedReads
  <2> QED BY <2>2 DEF L
<1>8. CASE m \notin AccountMethods \cup {"cleanDB"}
  <2>1. m \in AccountNames \ Kids
    BY <1>8 DEF AccountAll, AccountMethods, UserReads, UserByNameReads, UserListReads, GroupReads, GroupByNameReads,
                 GroupListReads, PlatformReads, ModuleReads, SettingReads, DiskReads, NetIfReads,
                 LogReads, ConfigWrites, AccountNames, Kids
  <2>2. AccountStep(m, n, OK, v, o) \in {{Ask(m)}, Checked(Ask(m))}
    BY <1>8 DEF AccountStep, AccountMethods
  <2> QED BY <1>1, <1>2, <2>1, <2>2 DEF Checked, L
<1> QED BY <1>7, <1>8

LEMMA StraightJobs ==
  ASSUME NEW m \in JobAll, m \in Straight \ Short, NEW n \in Int, NEW v \in Int, NEW o
  PROVE  JobStep(m, n, OK, v, o) \subseteq Upright
<1> DEFINE L == Upright
<1>1. Fail("INVALID_PARAMETER") \in L /\ JobAdd \in L
  <2>1. "INVALID_PARAMETER" \in Raised BY DEF Raised, Errors
  <2> QED BY <2>1, UprightWords
<1>2. \A q \in JobNames \ Kids : Ask(q) \in L /\ \A cb \in Endings : AskCb(q, cb) \in L
  BY JobNamesKnown, UprightWords
<1> HIDE DEF L
<1>3. {"jobs_cb_get", "ptr_job", "ptr_int"} \subseteq Endings BY DEF Endings
<1>4. JobNames \cap Kids = {} BY DEF JobNames, Kids
<1>5. /\ getJob(n, OK, v, o) \subseteq L /\ getRecentJobs(n, OK, v, o) \subseteq L
      /\ getRecentJobsByUID(n, OK, v, o) \subseteq L /\ getJobsByJIDs(n, OK, v, o) \subseteq L
      /\ getJobsStatus(n, OK, v, o) \subseteq L /\ getJobStatus(n, OK, v, o) \subseteq L
  BY <1>1, <1>2, <1>3, <1>4 DEF getJob, getRecentJobs, getRecentJobsByUID, getJobsByJIDs, getJobsStatus,
    getJobStatus, JobNames, Checked
<1>6. getJobsByUID \subseteq L /\ isJob \subseteq L /\ addJob \subseteq L /\ cancelJob(n, OK, v, o) \subseteq L
  BY <1>1, <1>2, <1>4 DEF getJobsByUID, isJob, addJob, cancelJob, JobNames, Checked
<1>7. CASE m \in JobMethods \cup {"getJobsByUID", "isJob", "addJob"}
  <2>1. m \notin {"cancelJobsByUUID", "cancelJobsByUID"} BY DEF Straight, LeavesQueries
  <2>2. JobStep(m, n, OK, v, o) \subseteq L BY <1>5, <1>6, <1>7, <2>1 DEF JobStep, JobMethods
  <2> QED BY <2>2 DEF L
<1>8. CASE m \notin JobMethods \cup {"getJobsByUID", "isJob", "addJob"}
  <2>1. m \in JobNames BY <1>8 DEF JobAll, JobReads, JobNames, JobMethods
  <2>2. JobStep(m, n, OK, v, o) = {Ask(m)} BY <1>8 DEF JobStep, JobMethods
  <2> QED BY <1>2, <1>4, <2>1, <2>2 DEF L
<1> QED BY <1>7, <1>8

LEMMA StraightSteps ==
  ASSUME NEW m \in Straight \ Short, NEW n \in Int, NEW v \in Int, NEW o
  PROVE  StepOf(m, n, OK, v, o) \subseteq Upright
<1>1. m \in StorageAll => StorageStep(m, n, OK, v, o) \subseteq Upright BY StraightStorage
<1>2. m \in NetworkAll => NetworkStep(m, n, OK, v, o) \subseteq Upright BY StraightNetwork
<1>3. m \in ConsoleAll => ConsoleStep(m, n, OK, v, o) \subseteq Upright BY StraightConsoles
<1>4. m \in NodeAll => NodeStep(m, n, OK, v, o) \subseteq Upright BY StraightNodes
<1>5. m \in VmAll => VmStep(m, n, OK, v, o) \subseteq Upright BY StraightMachines
<1>6. m \in AccountAll => AccountStep(m, n, OK, v, o) \subseteq Upright BY StraightAccounts
<1>7. m \in JobAll => JobStep(m, n, OK, v, o) \subseteq Upright BY StraightJobs
<1>8. m \in StorageAll \cup NetworkAll \cup ConsoleAll \cup NodeAll \cup VmAll \cup AccountAll \cup JobAll
  BY DEF Straight, Remote
<1> QED BY <1>1, <1>2, <1>3, <1>4, <1>5, <1>6, <1>7, <1>8 DEF StepOf

\* Which service a careful method belongs to.
LEMMA CarefulServices ==
  /\ Careful \cap StorageAll =
       {"defineStorage", "modifyStorage", "detachAllNodesByStorage", "detachAllDisksByStorage",
        "addDiskToStorage", "defineDisk", "removeDiskFromStorage"}
  /\ Careful \cap NetworkAll = {"removeNetwork"}
  /\ Careful \cap ConsoleAll =
       {"connectTextConsole", "disconnectConsole", "getConsoleLockUser", "getSupportedConsoles"}
  /\ Careful \cap NodeAll = {"updateNodeStats"}
  /\ Careful \cap VmAll = {"addVmToNode", "saveVM"}
  /\ Careful \cap AccountAll =
       {"addToUserGroup", "renameUserGroup", "renameUserGroupByName", "modifyUserGroupByName",
        "getPlatform", "getPlatformByName"}
  /\ Careful \cap JobAll = {}
<1> USE DEF Careful
<1>1. Careful \cap StorageAll =
        {"defineStorage", "modifyStorage", "detachAllNodesByStorage", "detachAllDisksByStorage",
         "addDiskToStorage", "defineDisk", "removeDiskFromStorage"}
  BY DEF StorageAll, StorageMethods, StorageReads, StorageModuleReads, StorageRelationReads,
         NodesAndVmsReads, StorageDiskReads
<1>2. Careful \cap NetworkAll = {"removeNetwork"}
  BY DEF NetworkAll, NetworkMethods, NetworkReads, DefineReads, NetworkModuleReads,
         NodesByNetworkReads, NetworkOtherReads
<1>3. Careful \cap ConsoleAll =
        {"connectTextConsole", "disconnectConsole", "getConsoleLockUser", "getSupportedConsoles"}
  BY DEF ConsoleAll, ConsoleMethods, PortReads, LockReads, SessionLockReads
<1>4. Careful \cap NodeAll = {"updateNodeStats"}
  BY DEF NodeAll, NodeMethods, AttributeReads, StateReads, NodeListReads, RemoveReads, NodeOtherReads
<1>5. Careful \cap VmAll = {"addVmToNode", "saveVM"}
  BY DEF VmAll, VmMethods, VmActions, VmUnimplemented, TopReads, PrivilegeReads, VmReads, VmRowReads,
         TemplateReads
<1>6. Careful \cap AccountAll =
        {"addToUserGroup", "renameUserGroup", "renameUserGroupByName", "modifyUserGroupByName",
         "getPlatform", "getPlatformByName"}
  BY DEF AccountAll, AccountMethods, UserReads, UserByNameReads, UserListReads, GroupReads, GroupByNameReads,
         GroupListReads, PlatformReads, ModuleReads, SettingReads, DiskReads, NetIfReads, LogReads, ConfigWrites
<1>7. Careful \cap JobAll = {} BY DEF JobAll, JobMethods, JobReads
<1> QED BY <1>1, <1>2, <1>3, <1>4, <1>5, <1>6, <1>7

LEMMA CarefulSteps ==
  ASSUME NEW m \in Careful, m \in Remote, NEW n \in Int, NEW e, NEW v \in Int, NEW o, n # 0 \/ e = OK
  PROVE  \A s \in StepOf(m, n, e, v, o) : Loaded(s) => s \in Fair(e, Asks, Callbacks)
<1> DEFINE F == Fair(e, Asks, Callbacks)
           Good(S) == \A s \in S : Loaded(s) => s \in F
<1> HIDE DEF F
<1>1. m \in StorageAll => Good(StorageStep(m, n, e, v, o))
  <2>1. CASE m \in {"defineStorage", "modifyStorage", "detachAllNodesByStorage", "detachAllDisksByStorage",
                    "addDiskToStorage", "defineDisk", "removeDiskFromStorage"}
    <3>1. StorageStep(m, n, e, v, o) \subseteq
            defineStorage(n, e, v, o) \cup modifyStorage(n, e, v, o)
              \cup detachAllNodesByStorage(n, e, v, o) \cup detachAllDisksByStorage(n, e, v, o)
              \cup removeDiskFromStorage(n, e, v, o)
              \cup addDiskToStorage(n, e, v, o) \cup defineDisk(n, e, v, o)
      BY <2>1 DEF StorageStep
    <3> QED BY <3>1, CarefulStorage DEF F
  <2> QED BY <2>1, CarefulServices
<1>2. m \in NetworkAll => Good(NetworkStep(m, n, e, v, o))
  <2>1. NetworkStep("removeNetwork", n, e, v, o) \subseteq F BY CarefulMachines DEF NetworkStep, F
  <2>2. m \in NetworkAll => m = "removeNetwork" BY CarefulServices
  <2> QED BY <2>1, <2>2
<1>3. m \in ConsoleAll => Good(ConsoleStep(m, n, e, v, o))
  <2>1. CASE m \in {"connectTextConsole", "disconnectConsole", "getConsoleLockUser", "getSupportedConsoles"}
    <3>1. ConsoleStep(m, n, e, v, o) \subseteq F BY <2>1, CarefulConsoles DEF ConsoleStep, F
    <3> QED BY <3>1
  <2> QED BY <2>1, CarefulServices
<1>4. m \in NodeAll => Good(NodeStep(m, n, e, v, o))
  <2>1. NodeStep("updateNodeStats", n, e, v, o) \subseteq F BY CarefulMachines DEF NodeStep, F
  <2>2. m \in NodeAll => m = "updateNodeStats" BY CarefulServices
  <2> QED BY <2>1, <2>2
<1>5. m \in VmAll => Good(VmStep(m, n, e, v, o))
  <2>1. CASE m \in {"addVmToNode", "saveVM"}
    <3>1. addVmToNode(n, e, v, o) \subseteq F /\ saveVM(n, e, v, o) \subseteq F BY CarefulMachines DEF F
    <3>2. /\ VmStep("addVmToNode", n, e, v, o) = addVmToNode(n, e, v, o)
          /\ VmStep("saveVM", n, e, v, o) = saveVM(n, e, v, o)
      BY DEF VmStep, VmActions, VmUnimplemented
    <3> QED BY <2>1, <3>1, <3>2
  <2> QED BY <2>1, CarefulServices
<1>6. m \in AccountAll => Good(AccountStep(m, n, e, v, o))
  <2>1. CASE m \in {"addToUserGroup", "renameUserGroup", "renameUserGroupByName", "modifyUserGroupByName",
                    "getPlatform", "getPlatformByName"}
    <3>1. /\ addToUserGroup(n, e, v, o) \subseteq F /\ renameUserGroup(n, e, v, o) \subseteq F
          /\ renameUserGroupByName(n, e, v, o) \subseteq F /\ modifyUserGroupByName(n, e, v, o) \subseteq F
          /\ getPlatform(n, e, v, o) \subseteq F /\ getPlatformByName(n, e, v, o) \subseteq F
      BY CarefulAccounts DEF F
    <3>2. /\ AccountStep("addToUserGroup", n, e, v, o) = addToUserGroup(n, e, v, o)
          /\ AccountStep("renameUserGroup", n, e, v, o) = renameUserGroup(n, e, v, o)
          /\ AccountStep("renameUserGroupByName", n, e, v, o) = renameUserGroupByName(n, e, v, o)
          /\ AccountStep("modifyUserGroupByName", n, e, v, o) = modifyUserGroupByName(n, e, v, o)
          /\ AccountStep("getPlatform", n, e, v, o) = getPlatform(n, e, v, o)
          /\ AccountStep("getPlatformByName", n, e, v, o) = getPlatformByName(n, e, v, o)
      BY DEF AccountStep, CheckedReads
    <3> QED BY <2>1, <3>1, <3>2
  <2> QED BY <2>1, CarefulServices
<1>7. m \notin JobAll BY CarefulServices
<1>8. m \in StorageAll \cup NetworkAll \cup ConsoleAll \cup NodeAll \cup VmAll \cup AccountAll \cup JobAll
  BY DEF Remote
<1> HIDE DEF Good
<1>9. Good(StepOf(m, n, e, v, o)) BY <1>1, <1>2, <1>3, <1>4, <1>5, <1>6, <1>7, <1>8 DEF StepOf
<1> QED BY <1>9 DEF Good, F

\* The methods of the other classes, entry by entry.
LEMMA ShortSteps ==
  ASSUME NEW n \in Int, NEW v \in Int, NEW o
  PROVE  /\ StepOf("modifyDiskByStorage", 0, OK, v, o)
              \subseteq {Fail("INVALID_PARAMETER"), Value("getDiskByStorage")}
         /\ StepOf("modifyDiskByStorage", 1, OK, v, o)
              \subseteq {Fail("NO_CHANGE_PERFORMED"), Hold(Again("modifyDisk"))}
         /\ StepOf("modifyNetIf", 0, OK, v, o) = {Value("getVMvifByMac")}
         /\ StepOf("modifyNetIf", 1, OK, v, o)
              \subseteq {Fail("UNKNOWN_RESOURCE"), Answer, Value("getNetworkOfNone")}
         /\ StepOf("modifyNetIf", 2, OK, 0, o) = {Fail("UNKNOWN_RESOURCE")}
<1>1. /\ modifyDiskByStorage(0, OK, v, o) \subseteq {Fail("INVALID_PARAMETER"), Value("getDiskByStorage")}
      /\ modifyDiskByStorage(1, OK, v, o) \subseteq {Fail("NO_CHANGE_PERFORMED"), Hold(Again("modifyDisk"))}
  BY DEF modifyDiskByStorage
<1>2. /\ modifyNetIf(0, OK, v, o) = {Value("getVMvifByMac")}
      /\ modifyNetIf(1, OK, v, o) \subseteq {Fail("UNKNOWN_RESOURCE"), Answer, Value("getNetworkOfNone")}
  BY DEF modifyNetIf
<1>3. network_job_create_vm("modifyNetIf", 2, OK, 0, o) = {Fail("UNKNOWN_RESOURCE")}
  BY DEF network_job_create_vm, Wild
<1>4. modifyNetIf(2, OK, 0, o) = {Fail("UNKNOWN_RESOURCE")} BY <1>3 DEF modifyNetIf
<1> QED BY <1>1, <1>2, <1>4, StagedStepOf

\* The lists of the listers, and the contexts of their own.
Lists ==
  {"getVmsByNetwork", "getAllVmsByNode", "getVMsByUID", "getVMsByUIDSorted", "getVMs", "getVMsSorted",
   "getPlatformsFull"}
OfTheirOwn == {"vm_cb_getvm", "platform_get"}

LEMMA ListerSteps ==
  ASSUME NEW m \in Listers, NEW e, NEW v \in Int, NEW o
  PROVE  /\ \A s \in StepOf(m, 0, e, v, o) :
              s = Fail("INVALID_PARAMETER") \/ \E q \in Lists : s = Value(q)
         /\ \A s \in StepOf(m, 1, e, v, o) :
              \/ s = Nothing
              \/ e = OK /\ \E q \in OfTheirOwn : s = Counting(Times(v, q), 2 + v)
         /\ StepOf(m, 2, e, v, o) \subseteq {Answer, Cleared(Answer)}
<1>1. ASSUME NEW first
      PROVE  /\ vm_cb_getallvmsfull(first, 0, e, v) = first
             /\ \A s \in vm_cb_getallvmsfull(first, 1, e, v) :
                  s = Nothing \/ (e = OK /\ s = Counting(Times(v, "vm_cb_getvm"), 2 + v))
             /\ vm_cb_getallvmsfull(first, 2, e, v) = {Answer}
  BY DEF vm_cb_getallvmsfull
<1>2. ASSUME m \in {"getVmsByNetworkFull", "getAllVmsFullByNode"}
      PROVE  \E q \in {"getVmsByNetwork", "getAllVmsByNode"} : \A n :
               StepOf(m, n, e, v, o) = vm_cb_getallvmsfull({Value(q)}, n, e, v)
  BY <1>2, StagedStepOf DEF getVmsByNetworkFull, getAllVmsFullByNode
<1> DEFINE First(A) == {Fail("INVALID_PARAMETER")} \cup {Value(q) : q \in A}
<1>3. ASSUME m \in {"getVMsFullUID", "getVMsFull"}
      PROVE  \E uid \in BOOLEAN : \A n : StepOf(m, n, e, v, o) = vm_cb_getallvmsfull(First(vmLists(uid)), n, e, v)
  <2>1. ASSUME NEW n
        PROVE  /\ StepOf("getVMsFullUID", n, e, v, o) = getVMsFullUID(n, e, v, o)
               /\ StepOf("getVMsFull", n, e, v, o) = getVMsFull(n, e, v, o)
    BY StagedStepOf
  <2>2. \A uid, n : vmListFull(uid, n, e, v) = vm_cb_getallvmsfull(First(vmLists(uid)), n, e, v)
    BY DEF vmListFull
  <2> HIDE DEF First
  <2>3. \A n : /\ getVMsFullUID(n, e, v, o) = vm_cb_getallvmsfull(First(vmLists(TRUE)), n, e, v)
               /\ getVMsFull(n, e, v, o) = vm_cb_getallvmsfull(First(vmLists(FALSE)), n, e, v)
    BY <2>2 DEF getVMsFullUID, getVMsFull
  <2> QED BY <1>3, <2>1, <2>3
<1>4. CASE m \in {"getVmsByNetworkFull", "getAllVmsFullByNode"}
  BY <1>1, <1>2, <1>4 DEF Lists, OfTheirOwn
<1>5. CASE m \in {"getVMsFullUID", "getVMsFull"}
  <2>1. PICK uid \in BOOLEAN : \A n : StepOf(m, n, e, v, o) = vm_cb_getallvmsfull(First(vmLists(uid)), n, e, v)
    BY <1>3, <1>5
  <2>2. vmLists(uid) \subseteq Lists BY DEF vmLists, Lists
  <2> DEFINE first == First(vmLists(uid))
  <2>3. \A s \in first : s = Fail("INVALID_PARAMETER") \/ \E q \in Lists : s = Value(q) BY <2>2
  <2> HIDE DEF first
  <2>4. \A n : StepOf(m, n, e, v, o) = vm_cb_getallvmsfull(first, n, e, v) BY <2>1 DEF first
  <2> QED BY <1>1, <2>3, <2>4 DEF OfTheirOwn
<1>6. CASE m = "getPlatformsFull"
  BY <1>6, StagedStepOf DEF getPlatformsFull, Lists, OfTheirOwn
<1> QED BY <1>4, <1>5, <1>6 DEF Listers

LEMMA CounterSteps ==
  ASSUME NEW n \in Int, NEW e, NEW v \in -1..2, NEW o
  PROVE  /\ \A s \in StepOf("setConfigs", n, e, v, o) :
              \E k \in Int : s = TimesCb(k, "setConfig", "null")
         /\ \A s \in StepOf("detachAllNetIfsByNetwork", n, e, v, o) :
              \/ \E x \in Raised : s = Fail(x)
              \/ s = Value("getNetwork") \/ s = Value("getVMvifsByNetwork")
              \/ s = Counting(TimesCb(v, "getVMparentNodeAndAddress", "net_target_addr"), 10)
<1>1. ASSUME NEW s \in setConfigs(n, e, v, o) PROVE \E k \in Int : s = TimesCb(k, "setConfig", "null")
  <2>1. PICK k \in 0..2 : s = TimesCb(k, "setConfig", "null") BY DEF setConfigs
  <2>2. k \in Int OBVIOUS
  <2> QED BY <2>1, <2>2
<1>2. StepOf("detachAllNetIfsByNetwork", n, e, v, o) = detachAllNetIfsByNetwork(n, e, v, o)
  <2>1. "detachAllNetIfsByNetwork" \in NetworkAll BY DEF NetworkAll, NetworkMethods
  <2>2. "detachAllNetIfsByNetwork" \notin StorageAll
    BY DEF StorageAll, StorageMethods, StorageReads, StorageModuleReads, StorageRelationReads,
           NodesAndVmsReads, StorageDiskReads
  <2>3. "detachAllNetIfsByNetwork" \notin ConsoleAll \cup NodeAll \cup VmAll
    BY DEF ConsoleAll, ConsoleMethods, PortReads, LockReads, SessionLockReads,
           NodeAll, NodeMethods, AttributeReads, StateReads, NodeListReads, RemoveReads, NodeOtherReads,
           VmAll, VmMethods, VmActions, VmUnimplemented, TopReads, PrivilegeReads, VmReads, VmRowReads,
           TemplateReads
  <2>4. "detachAllNetIfsByNetwork" \notin AccountAll
    BY DEF AccountAll, AccountMethods, UserReads, UserByNameReads, UserListReads, GroupReads, GroupByNameReads,
           GroupListReads, PlatformReads, ModuleReads, SettingReads, DiskReads, NetIfReads, LogReads, ConfigWrites
  <2>5. StepOf("detachAllNetIfsByNetwork", n, e, v, o) = NetworkStep("detachAllNetIfsByNetwork", n, e, v, o)
    BY <2>1, <2>2, <2>3, <2>4 DEF StepOf
  <2> QED BY <2>5 DEF NetworkStep
<1>3. {"INVALID_PARAMETER", "UNKNOWN_RESOURCE", "NO_CHANGE_PERFORMED"} \subseteq Raised BY DEF Raised, Errors
<1>4. \A s \in detachAllNetIfsByNetwork(n, e, v, o) :
        \/ \E x \in Raised : s = Fail(x)
        \/ s = Value("getNetwork") \/ s = Value("getVMvifsByNetwork")
        \/ s = Counting(TimesCb(v, "getVMparentNodeAndAddress", "net_target_addr"), 10)
  BY <1>3 DEF detachAllNetIfsByNetwork, Checked
<1> QED BY <1>1, <1>2, <1>4, StagedStepOf

-----------------------------------------------------------------------------
(* What is under way between two entries of a call, by the class of the      *)
(* method.                                                                   *)

\* The calls that the property excepts.
Excused(c) == c.late \/ c.bad \/ c.m \in LeavesQueries

\* The call's own queries are among the last k.
Fewer(qs, k) == \A i \in New(qs) : i > Len(qs) - k

\* A row is read whose absence is no error.
Reading(c, qs) == c.cbs = <<"value">> /\ c.e = OK /\ Only(qs) /\ Asked(qs, Keeping)

StraightWaits(c, qs) ==
  \/ /\ Only(qs) /\ c.m \notin Short /\ NoKids(qs)
     /\ c.cbs = <<>> \/ \E f \in Endings : c.cbs = <<f>>
  \/ /\ Reading(c, qs)
     /\ c.m \in Short => \/ c.n = 0
                         \/ c.m = "modifyNetIf" /\ c.n = 1 /\ Asked(qs, {"getNetworkOfNone"})
  \/ c.m = "modifyDiskByStorage" /\ Only(qs) /\ Asked(qs, {"modifyDisk"})
ListerWaits(c, qs) ==
  \/ Only(qs) /\ c.n = 0 /\ c.cbs = <<"value">> /\ NoKids(qs)
  \/ Asked(qs, OfTheirOwn) /\ Fewer(qs, c.n - 2)
CounterWaits(c, qs) ==
  \/ c.m = "detachAllNetIfsByNetwork" /\ Reading(c, qs)
  \/ /\ Asked(qs, {"setConfig", "getVMparentNodeAndAddress"})
     /\ c.cbs \in Seq({"null", "net_target_addr"}) /\ Fewer(qs, Len(c.cbs))

Under(c, qs) ==
  /\ c.m \in Careful => Only(qs) /\ c.n >= 0
  /\ c.m \in Straight => StraightWaits(c, qs)
  /\ c.m \in Listers => ListerWaits(c, qs)
  /\ c.m \in Counters => CounterWaits(c, qs)

\* A call that is not excused waits for its own queries, or for one event.
Kept(c, qs, es) ==
  \/ New(qs) = {} /\ Only(es)
  \/ New(es) = {} /\ Under(c, qs)

\* The strengthening of LeftoversOnlyOf.
LeftInv ==
  /\ LeftoversOnlyOf
  /\ up /\ Busy /\ ~Excused(ctx) => Kept(ctx, out, ev)

\* With what a method may be entered, none of its queries being under way.
Afresh(c) ==
  /\ c.m \in Careful => c.n >= 0 /\ (c.n # 0 \/ c.e = OK)
  /\ c.m \in Straight => c.e = OK /\ c.cbs = <<>>
  /\ c.m \in Short => c.n \in {0, 1} \/ (c.m = "modifyNetIf" /\ c.n = 2 /\ c.v = 0)
  /\ c.m \in Listers => (c.n = 0 /\ c.e = OK /\ c.cbs = <<>>) \/ c.n \in {1, 2}
  /\ c.m \in Counters => c.e = OK /\ c.cbs = <<>>

\* An entry that sends nothing, or waits for what it sent.
Proper(c, qs, s) ==
  s.ask = <<>> \/ (After(s, c.e) = OK /\ ~s.ret /\ Under(Entered(c, s), Sent(qs, s.ask)))

LEMMA ClassesSplit ==
  ASSUME NEW m \in Remote \ LeavesQueries
  PROVE  /\ m \in Careful \/ m \in Straight \/ m \in Listers \/ m \in Counters
         /\ m \in Careful => m \notin Straight \cup Listers \cup Counters
         /\ m \in Straight => m \notin Listers \cup Counters
         /\ m \in Listers => m \notin Counters
         /\ m \in Short => m \in Straight
BY DEF Careful, Straight, Listers, Counters, Short

LEMMA NothingNew ==
  ASSUME NEW qs, New(qs) = {}
  PROVE  Only(qs) /\ NoKids(qs) /\ (\A A : Asked(qs, A)) /\ (\A k : Fewer(qs, k))
BY DEF Only, NoKids, Asked, Fewer

LEMMA FewerSent ==
  ASSUME NEW qs \in Flights, New(qs) = {}, NEW q \in Seq(Asks)
  PROVE  Fewer(Sent(qs, q), Len(q))
<1> DEFINE new == [j \in DOMAIN q |-> [q |-> q[j], old |-> FALSE]]
<1>1. DOMAIN q = 1..Len(q) /\ Len(q) \in Nat BY Elements
<1>2. Len(new) = Len(q) /\ DOMAIN new = 1..Len(q) BY <1>1
<1>3. Sent(qs, q) = qs \o new BY DEF Sent
<1> HIDE DEF new
<1>4. Len(Sent(qs, q)) = Len(qs) + Len(q) /\ Len(qs) \in Nat
  <2>1. Len(qs) \in Nat /\ DOMAIN qs = 1..Len(qs) BY DEF Flights
  <2>2. Len(qs \o new) = Len(qs) + Len(new) BY <1>1, <1>2, <2>1
  <2> QED BY <1>2, <1>3, <2>1, <2>2
<1>5. ASSUME NEW i \in New(Sent(qs, q)) PROVE i > Len(Sent(qs, q)) - Len(q)
  <2>1. PICK j \in DOMAIN q : i = Len(qs) + j BY NewSent
  <2> QED BY <1>1, <1>4, <2>1
<1> QED BY <1>5 DEF Fewer

\* One query less, and one of the call's own less.
LEMMA FewerWithout ==
  ASSUME out \in Flights, NEW i \in DOMAIN out, NEW k \in Int, Fewer(out, k)
  PROVE  /\ Fewer(Without(i), k)
         /\ ~out[i].old => Fewer(Without(i), k - 1)
<1>1. DOMAIN out = 1..Len(out) /\ Len(out) \in Nat /\ i \in 1..Len(out) BY DEF Flights
<1>2. Len(Without(i)) = Len(out) - 1 BY <1>1 DEF Without
<1>3. ASSUME NEW j \in New(Without(i))
      PROVE  /\ j > Len(Without(i)) - k
             /\ ~out[i].old => j > Len(Without(i)) - (k - 1)
  <2>1. (IF j < i THEN j ELSE j + 1) \in New(out) BY NewWithout
  <2>2. (IF j < i THEN j ELSE j + 1) > Len(out) - k BY <2>1 DEF Fewer
  <2>3. j \in Int BY <1>1, <1>2 DEF New, Without
  <2>4. ~out[i].old => i > Len(out) - k BY DEF Fewer, New
  <2> QED BY <1>1, <1>2, <2>2, <2>3, <2>4
<1> QED BY <1>3 DEF Fewer

LEMMA FairShape ==
  ASSUME NEW e, NEW A, NEW C, NEW s \in Fair(e, A, C)
  PROVE  \/ s.ask = <<>>
         \/ /\ \E q \in A : s.ask = <<q>>
            /\ s.cb = <<>> \/ \E f \in C : s.cb = <<f>>
            /\ After(s, e) = OK /\ ~s.ret
            /\ s.count = NoCount \/ s.count \in Nat
<1> DEFINE Asking == {<<q>> : q \in A}
           Leaving == {<<>>} \cup {<<f>> : f \in C}
<1>1. (\A a \in Asking : \E q \in A : a = <<q>>) /\ (\A a \in Leaving : a = <<>> \/ \E f \in C : a = <<f>>)
  OBVIOUS
<1> HIDE DEF Asking, Leaving
<1>2. \/ s.ask = <<>>
      \/ /\ s.ask \in Asking /\ s.cb \in Leaving /\ s.err \in (IF e = OK THEN {Same, OK} ELSE {OK})
         /\ ~s.ret /\ s.count \in Nat \cup {NoCount}
  BY DEF Fair, Asking, Leaving
<1>3. s.err \in (IF e = OK THEN {Same, OK} ELSE {OK}) => After(s, e) = OK BY DEF After, OK, Same
<1> QED BY <1>1, <1>2, <1>3

LEMMA CarefulProper ==
  ASSUME NEW c \in Context, c.m \in Remote \ LeavesQueries, c.m \in Careful, NEW qs \in Flights,
         New(qs) = {}, Afresh(c), NEW w \in Int, NEW s \in StepOf(c.m, c.n, c.e, w, c.o), s \in Typed, Loaded(s)
  PROVE  Proper(c, qs, s)
<1>1. c.n \in Int /\ c.n >= 0 /\ (c.n # 0 \/ c.e = OK) BY DEF Afresh, Context
<1>2. s \in Fair(c.e, Asks, Callbacks) BY <1>1, CarefulSteps
<1>3. ASSUME s.ask # <<>>
      PROVE  After(s, c.e) = OK /\ ~s.ret /\ Under(Entered(c, s), Sent(qs, s.ask))
  <2>1. /\ \E q \in Asks : s.ask = <<q>>
        /\ After(s, c.e) = OK /\ ~s.ret /\ (s.count = NoCount \/ s.count \in Nat)
    BY <1>2, <1>3, FairShape
  <2>2. PICK q \in Asks : s.ask = <<q>> BY <2>1
  <2>3. Only(Sent(qs, s.ask)) BY <2>2, SentAlone
  <2>4. Entered(c, s).m = c.m /\ Entered(c, s).n = IF s.count = NoCount THEN c.n ELSE s.count
    BY EnteredOwn
  <2>5. Entered(c, s).n >= 0 BY <1>1, <2>1, <2>4
  <2>6. c.m \notin Straight \cup Listers \cup Counters BY ClassesSplit
  <2> QED BY <2>1, <2>3, <2>4, <2>5, <2>6 DEF Under
<1> QED BY <1>3 DEF Proper

LEMMA NotKids ==
  /\ (Keeping \cup {"modifyDisk"} \cup Lists \cup SentBack) \cap Kids = {}
  /\ Keeping \cup {"modifyDisk"} \cup Lists \cup OfTheirOwn \cup SentBack \subseteq Asks
<1>1. (Keeping \cup {"modifyDisk"} \cup Lists \cup SentBack) \cap Kids = {}
  BY DEF Keeping, Bare, Lists, SentBack, Kids
<1>2. Keeping \subseteq Asks /\ SentBack \subseteq Asks BY KeepingAreQueries, SentBackKnown
<1>3. "modifyDisk" \in Asks BY StorageNamesKnown DEF StorageNames
<1>4. Lists \cup OfTheirOwn \subseteq Asks
  <2>1. "getVmsByNetwork" \in Asks BY VmNamesKnown DEF VmNames
  <2>2. Lists \cup OfTheirOwn \subseteq VmNames \cup AccountNames BY DEF VmNames, AccountNames, Lists, OfTheirOwn
  <2> QED BY <2>1, <2>2, VmNamesKnown, AccountNamesKnown
<1> QED BY <1>1, <1>2, <1>3, <1>4

LEMMA StraightProper ==
  ASSUME NEW c \in Context, c.m \in Remote \ LeavesQueries, c.m \in Straight \ Short, NEW qs \in Flights,
         New(qs) = {}, Afresh(c), NEW w \in Int, NEW s \in StepOf(c.m, c.n, c.e, w, c.o), s \in Typed, Loaded(s)
  PROVE  Proper(c, qs, s)
<1>1. c.n \in Int /\ c.e = OK /\ c.cbs = <<>> BY DEF Afresh, Context
<1>2. s \in Upright BY <1>1, StraightSteps
<1>3. c.m \notin Careful \cup Listers \cup Counters BY ClassesSplit
<1> DEFINE d == Entered(c, s)
<1>4. d.m = c.m /\ d.e = After(s, c.e) /\ (After(s, c.e) = OK => d.cbs = s.cb)
  <2>1. d.m = c.m /\ d.e = After(s, c.e) /\ (After(s, c.e) = OK => d.cbs = c.cbs \o s.cb) BY EnteredOwn
  <2>2. s.cb \in Seq(Callbacks) BY DEF Typed, Shape
  <2>3. <<>> \o s.cb = s.cb BY <2>2
  <2> QED BY <1>1, <2>1, <2>3
<1> HIDE DEF d
<1>5. ASSUME s.ask # <<>>, s \in Fair(OK, Asks \ Kids, Endings)
      PROVE  After(s, c.e) = OK /\ ~s.ret /\ StraightWaits(d, Sent(qs, s.ask))
  <2>1. /\ \E q \in Asks \ Kids : s.ask = <<q>>
        /\ After(s, c.e) = OK /\ ~s.ret /\ (s.cb = <<>> \/ \E f \in Endings : s.cb = <<f>>)
    BY <1>1, <1>5, FairShape
  <2>2. PICK q \in Asks \ Kids : s.ask = <<q>> BY <2>1
  <2>3. Only(Sent(qs, s.ask)) /\ \A i \in New(Sent(qs, s.ask)) : Sent(qs, s.ask)[i].q = q
    BY <2>2, SentAlone
  <2>4. NoKids(Sent(qs, s.ask)) BY <2>2, <2>3 DEF NoKids
  <2> QED BY <1>4, <2>1, <2>3, <2>4 DEF StraightWaits
<1>6. ASSUME s.ask # <<>>, s \in Fair(OK, Keeping, {"value"})
      PROVE  After(s, c.e) = OK /\ ~s.ret /\ StraightWaits(d, Sent(qs, s.ask))
  <2>1. /\ \E q \in Keeping : s.ask = <<q>>
        /\ After(s, c.e) = OK /\ ~s.ret /\ (s.cb = <<>> \/ s.cb = <<"value">>)
    BY <1>1, <1>6, FairShape
  <2>2. PICK q \in Keeping : s.ask = <<q>> BY <2>1
  <2>3. Keeping \subseteq Asks \ Kids BY KeepingAreQueries
  <2>4. /\ Only(Sent(qs, s.ask)) /\ \A i \in New(Sent(qs, s.ask)) : Sent(qs, s.ask)[i].q = q
        /\ Asked(Sent(qs, s.ask), Keeping)
    BY <2>2, <2>3, SentAlone
  <2>5. NoKids(Sent(qs, s.ask)) BY <2>2, <2>3, <2>4 DEF NoKids
  <2> QED BY <1>4, <2>1, <2>4, <2>5 DEF StraightWaits, Reading
<1>7. ASSUME StraightWaits(d, Sent(qs, s.ask)) PROVE Under(d, Sent(qs, s.ask))
  BY <1>3, <1>4, <1>7 DEF Under
<1>8. s \in Fair(OK, Asks \ Kids, Endings) \/ s \in Fair(OK, Keeping, {"value"}) BY <1>2 DEF Upright
<1> QED BY <1>5, <1>6, <1>7, <1>8 DEF Proper, d

LEMMA WordFields ==
  ASSUME NEW q, NEW cb, NEW x
  PROVE  /\ Fail(x).ask = <<>> /\ Nothing.ask = <<>> /\ Answer.ask = <<>> /\ Cleared(Answer).ask = <<>>
         /\ AskCb(q, cb).ask = <<q>> /\ AskCb(q, cb).cb = <<cb>> /\ AskCb(q, cb).err = Same
         /\ AskCb(q, cb).count = NoCount /\ ~AskCb(q, cb).ret
         /\ Hold(AskCb(q, cb)).ask = <<q>> /\ Hold(AskCb(q, cb)).cb = <<cb>>
         /\ Hold(AskCb(q, cb)).err = Same /\ Hold(AskCb(q, cb)).count = NoCount /\ ~Hold(AskCb(q, cb)).ret
BY DEF Fail, Nothing, Answer, Answering, Cleared, AskCb, Hold

\* A single query with a callback, sent from a fresh entry.
LEMMA AskedAlone ==
  ASSUME NEW c \in Context, NEW qs \in Flights, New(qs) = {}, c.e = OK, c.cbs = <<>>,
         NEW s \in Typed, NEW q \in Asks, NEW cb,
         s.ask = <<q>>, s.cb = <<cb>>, s.err = Same, s.count = NoCount
  PROVE  /\ After(s, c.e) = OK /\ Entered(c, s).m = c.m /\ Entered(c, s).n = c.n /\ Entered(c, s).e = OK
         /\ Entered(c, s).cbs = <<cb>>
         /\ Only(Sent(qs, s.ask)) /\ \A i \in New(Sent(qs, s.ask)) : Sent(qs, s.ask)[i].q = q
<1>1. After(s, c.e) = OK BY DEF After
<1>2. Only(Sent(qs, s.ask)) /\ \A i \in New(Sent(qs, s.ask)) : Sent(qs, s.ask)[i].q = q
  BY SentAlone
<1>3. /\ Entered(c, s).m = c.m /\ Entered(c, s).n = c.n /\ Entered(c, s).e = OK
      /\ Entered(c, s).cbs = c.cbs \o s.cb
  BY <1>1, EnteredOwn
<1>4. <<>> \o <<cb>> = <<cb>> OBVIOUS
<1> QED BY <1>1, <1>2, <1>3, <1>4

LEMMA ShortProper ==
  ASSUME NEW c \in Context, c.m \in Remote \ LeavesQueries, c.m \in Short, NEW qs \in Flights,
         New(qs) = {}, Afresh(c), NEW w \in Int, c.m = "modifyNetIf" => w = c.v,
         NEW s \in StepOf(c.m, c.n, c.e, w, c.o), s \in Typed, Loaded(s)
  PROVE  Proper(c, qs, s)
<1>1. /\ c.e = OK /\ c.cbs = <<>> /\ c.m \in Straight
      /\ c.n \in {0, 1} \/ (c.m = "modifyNetIf" /\ c.n = 2 /\ c.v = 0)
  BY ClassesSplit DEF Afresh
<1>2. c.m \notin Careful \cup Listers \cup Counters BY <1>1, ClassesSplit
<1> DEFINE qs1 == Sent(qs, s.ask)
<1>3. ASSUME NEW q \in Keeping, s = Value(q), c.n = 0 \/ (c.m = "modifyNetIf" /\ c.n = 1 /\ q = "getNetworkOfNone")
      PROVE  Proper(c, qs, s)
  <2>1. s.ask = <<q>> /\ s.cb = <<"value">> /\ s.err = Same /\ s.count = NoCount /\ ~s.ret
    BY <1>3, WordFields DEF Value
  <2>2. q \in Asks BY NotKids
  <2>3. /\ After(s, c.e) = OK /\ Entered(c, s).m = c.m /\ Entered(c, s).n = c.n /\ Entered(c, s).e = OK
        /\ Entered(c, s).cbs = <<"value">> /\ Only(qs1) /\ \A i \in New(qs1) : qs1[i].q = q
    BY <1>1, <2>1, <2>2, AskedAlone
  <2> HIDE DEF qs1
  <2>4. StraightWaits(Entered(c, s), qs1) BY <1>3, <2>3 DEF StraightWaits, Reading, Asked
  <2>5. Under(Entered(c, s), qs1) BY <1>2, <2>3, <2>4 DEF Under
  <2> QED BY <2>1, <2>3, <2>5 DEF Proper, qs1
<1>4. ASSUME s = Hold(Again("modifyDisk")), c.m = "modifyDiskByStorage"
      PROVE  Proper(c, qs, s)
  <2>1. s.ask = <<"modifyDisk">> /\ s.cb = <<"rewind">> /\ s.err = Same /\ s.count = NoCount /\ ~s.ret
    BY <1>4, WordFields DEF Again
  <2>2. "modifyDisk" \in Asks BY NotKids
  <2>3. /\ After(s, c.e) = OK /\ Entered(c, s).m = c.m
        /\ Only(qs1) /\ \A i \in New(qs1) : qs1[i].q = "modifyDisk"
    BY <1>1, <2>1, <2>2, AskedAlone
  <2> HIDE DEF qs1
  <2>4. StraightWaits(Entered(c, s), qs1) BY <1>4, <2>3 DEF StraightWaits, Asked
  <2>5. Under(Entered(c, s), qs1) BY <1>2, <2>3, <2>4 DEF Under
  <2> QED BY <2>1, <2>3, <2>5 DEF Proper, qs1
<1>5. ASSUME s \in {Answer, Nothing} \/ \E x \in {"INVALID_PARAMETER", "NO_CHANGE_PERFORMED", "UNKNOWN_RESOURCE"} : s = Fail(x)
      PROVE  Proper(c, qs, s)
  BY <1>5, WordFields DEF Proper
<1>6. {"getDiskByStorage", "getVMvifByMac", "getNetworkOfNone"} \subseteq Keeping BY DEF Keeping, Bare
<1>7. CASE c.m = "modifyDiskByStorage"
  <2>1. CASE c.n = 0
    <3>1. s \in {Fail("INVALID_PARAMETER"), Value("getDiskByStorage")} BY <1>1, <1>7, <2>1, ShortSteps
    <3> QED BY <1>3, <1>5, <1>6, <2>1, <3>1
  <2>2. CASE c.n = 1
    <3>1. s \in {Fail("NO_CHANGE_PERFORMED"), Hold(Again("modifyDisk"))} BY <1>1, <1>7, <2>2, ShortSteps
    <3> QED BY <1>4, <1>5, <1>7, <3>1
  <2> QED BY <1>1, <1>7, <2>1, <2>2
<1>8. CASE c.m = "modifyNetIf"
  <2>1. CASE c.n = 0
    <3>1. s = Value("getVMvifByMac") BY <1>1, <1>8, <2>1, ShortSteps
    <3> QED BY <1>3, <1>6, <2>1, <3>1
  <2>2. CASE c.n = 1
    <3>1. s \in {Fail("UNKNOWN_RESOURCE"), Answer, Value("getNetworkOfNone")} BY <1>1, <1>8, <2>2, ShortSteps
    <3> QED BY <1>3, <1>5, <1>6, <1>8, <2>2, <3>1
  <2>3. CASE c.n = 2
    <3>1. w = 0 BY <1>1, <1>8, <2>3
    <3>2. StepOf("modifyNetIf", 2, OK, 0, c.o) = {Fail("UNKNOWN_RESOURCE")}
      <4>1. 0 \in Int OBVIOUS
      <4> QED BY <4>1, ShortSteps
    <3>3. s = Fail("UNKNOWN_RESOURCE") BY <1>1, <1>8, <2>3, <3>1, <3>2
    <3> QED BY <1>5, <3>3
  <2> QED BY <1>1, <2>1, <2>2, <2>3
<1> QED BY <1>7, <1>8 DEF Short

Copies(k, x) == [i \in 1..k |-> x]

LEMMA RepeatedLength ==
  ASSUME NEW k \in Int, NEW x
  PROVE  Copies(k, x) \in Seq({x}) /\ (k > 0 => Len(Copies(k, x)) = k) /\ (k <= 0 => Copies(k, x) = <<>>)
<1> DEFINE r == [i \in 1..k |-> x]
<1>1. r \in Seq({x}) BY Repeated
<1>2. k > 0 => Len(r) = k OBVIOUS
<1>3. ASSUME k <= 0 PROVE r = <<>>
  <2>1. 1..k = {} BY <1>3
  <2> HIDE DEF r
  <2>2. DOMAIN r = {} BY <2>1 DEF r
  <2>3. Len(r) = 0 /\ r \in Seq({x}) BY <1>1, <2>2
  <2>4. r = <<>> BY <2>3
  <2> QED BY <2>4 DEF r
<1> QED BY <1>1, <1>2, <1>3 DEF Copies

\* The words for several queries.
LEMMA TimesFields ==
  ASSUME NEW k \in Int, NEW q, NEW cb, NEW j
  PROVE  /\ Counting(Times(k, q), j).ask = Copies(k, q)
         /\ Counting(Times(k, q), j).err = Same /\ Counting(Times(k, q), j).count = j
         /\ ~Counting(Times(k, q), j).ret
         /\ TimesCb(k, q, cb).ask = Copies(k, q) /\ TimesCb(k, q, cb).cb = Copies(k, cb)
         /\ TimesCb(k, q, cb).err = Same /\ ~TimesCb(k, q, cb).ret
         /\ Counting(TimesCb(k, q, cb), j).ask = Copies(k, q)
         /\ Counting(TimesCb(k, q, cb), j).cb = Copies(k, cb)
         /\ Counting(TimesCb(k, q, cb), j).err = Same /\ ~Counting(TimesCb(k, q, cb), j).ret
<1> DEFINE a == Copies(k, q)
           b == Copies(k, cb)
<1>1. Times(k, q) = [Nothing EXCEPT !.ask = a] /\ TimesCb(k, q, cb) = [Times(k, q) EXCEPT !.cb = b]
  BY DEF Times, TimesCb, Copies
<1> HIDE DEF a, b
<1>2. /\ Times(k, q).ask = a /\ Times(k, q).err = Same /\ ~Times(k, q).ret
      /\ TimesCb(k, q, cb).ask = a /\ TimesCb(k, q, cb).cb = b
      /\ TimesCb(k, q, cb).err = Same /\ ~TimesCb(k, q, cb).ret
  BY <1>1 DEF Nothing
<1>3. /\ Counting(Times(k, q), j).ask = a /\ Counting(Times(k, q), j).err = Same
      /\ Counting(Times(k, q), j).count = j /\ ~Counting(Times(k, q), j).ret
      /\ Counting(TimesCb(k, q, cb), j).ask = a /\ Counting(TimesCb(k, q, cb), j).cb = b
      /\ Counting(TimesCb(k, q, cb), j).err = Same /\ ~Counting(TimesCb(k, q, cb), j).ret
  BY <1>1, <1>2 DEF Counting, Nothing
<1> QED BY <1>2, <1>3 DEF a, b

\* Several copies of one query, sent from a fresh entry.
LEMMA SentSeveral ==
  ASSUME NEW qs \in Flights, New(qs) = {}, NEW k \in Int, NEW A, A \subseteq Asks, NEW q \in A,
         NEW a, a = Copies(k, q)
  PROVE  Asked(Sent(qs, a), A) /\ Fewer(Sent(qs, a), Len(a))
<1>1. a \in Seq({q}) BY RepeatedLength
<1>2. {q} \subseteq Asks OBVIOUS
<1>3. a \in Seq(Asks) BY <1>1, <1>2
<1>4. \A i \in New(qs) : qs[i].q \in {q} OBVIOUS
<1>5. \A i \in New(Sent(qs, a)) : Sent(qs, a)[i].q \in {q} BY <1>1, <1>2, <1>4, NewAsked
<1> QED BY <1>3, <1>5, FewerSent DEF Asked

LEMMA ListerProper ==
  ASSUME NEW c \in Context, c.m \in Remote \ LeavesQueries, c.m \in Listers, NEW qs \in Flights,
         New(qs) = {}, Afresh(c), NEW w \in -1..2, NEW s \in StepOf(c.m, c.n, c.e, w, c.o), s \in Typed
  PROVE  Proper(c, qs, s)
<1>1. w \in Int /\ c.n \in Int BY DEF Context
<1>2. c.m \notin Careful \cup Straight \cup Counters BY ClassesSplit
<1> DEFINE qs1 == Sent(qs, s.ask)
           d == Entered(c, s)
<1>3. d.m = c.m /\ d.n = IF s.count = NoCount THEN c.n ELSE s.count BY EnteredOwn
<1>4. ASSUME ListerWaits(d, qs1) PROVE Under(d, qs1)
  <2> HIDE DEF d, qs1
  <2> QED BY <1>2, <1>3, <1>4 DEF Under
<1>5. CASE c.n = 0 /\ c.e = OK /\ c.cbs = <<>>
  <2>0. s \in StepOf(c.m, 0, c.e, w, c.o) BY <1>5
  <2>1. s = Fail("INVALID_PARAMETER") \/ \E q \in Lists : s = Value(q) BY <1>1, <2>0, ListerSteps
  <2>2. ASSUME NEW q \in Lists, s = Value(q) PROVE Proper(c, qs, s)
    <3>1. s.ask = <<q>> /\ s.cb = <<"value">> /\ s.err = Same /\ s.count = NoCount /\ ~s.ret
      BY <2>2, WordFields DEF Value
    <3>2. q \in Asks /\ q \notin Kids BY NotKids
    <3>3. /\ After(s, c.e) = OK /\ d.n = c.n
          /\ d.cbs = <<"value">> /\ Only(qs1) /\ \A i \in New(qs1) : qs1[i].q = q
      BY <1>5, <3>1, <3>2, AskedAlone
    <3> HIDE DEF d, qs1
    <3>4. ListerWaits(d, qs1) BY <1>5, <3>2, <3>3 DEF ListerWaits, NoKids
    <3> QED BY <1>4, <3>1, <3>3, <3>4 DEF Proper, d, qs1
  <2>3. s = Fail("INVALID_PARAMETER") => s.ask = <<>> BY WordFields
  <2> QED BY <2>1, <2>2, <2>3 DEF Proper
<1>6. CASE c.n = 1
  <2>0. s \in StepOf(c.m, 1, c.e, w, c.o) BY <1>6
  <2>1. s = Nothing \/ (c.e = OK /\ \E q \in OfTheirOwn : s = Counting(Times(w, q), 2 + w))
    BY <1>1, <2>0, ListerSteps
  <2>2. ASSUME c.e = OK, NEW q \in OfTheirOwn, s = Counting(Times(w, q), 2 + w) PROVE Proper(c, qs, s)
    <3>1. s.ask = Copies(w, q) /\ s.err = Same /\ s.count = 2 + w /\ ~s.ret
      BY <1>1, <2>2, TimesFields
    <3>2. (w > 0 => Len(s.ask) = w) /\ (w <= 0 => s.ask = <<>>) BY <1>1, <3>1, RepeatedLength
    <3>3. OfTheirOwn \subseteq Asks BY NotKids
    <3>4. Asked(qs1, OfTheirOwn) /\ Fewer(qs1, Len(s.ask)) BY <1>1, <3>1, <3>3, SentSeveral
    <3>5. After(s, c.e) = OK BY <2>2, <3>1 DEF After
    <3>6. w > 0 => d.n - 2 = w BY <1>1, <1>3, <3>1 DEF NoCount
    <3> HIDE DEF d, qs1
    <3>7. w > 0 => ListerWaits(d, qs1) BY <3>2, <3>4, <3>6 DEF ListerWaits
    <3> QED BY <1>1, <1>4, <3>1, <3>2, <3>5, <3>7 DEF Proper, d, qs1
  <2>3. s = Nothing => s.ask = <<>> BY WordFields
  <2> QED BY <2>1, <2>2, <2>3 DEF Proper
<1>7. CASE c.n = 2
  <2>1. s \in {Answer, Cleared(Answer)} BY <1>1, <1>7, ListerSteps
  <2> QED BY <2>1, WordFields DEF Proper
<1> QED BY <1>5, <1>6, <1>7 DEF Afresh

LEMMA CounterProper ==
  ASSUME NEW c \in Context, c.m \in Remote \ LeavesQueries, c.m \in Counters, NEW qs \in Flights,
         New(qs) = {}, Afresh(c), NEW w \in -1..2, NEW s \in StepOf(c.m, c.n, c.e, w, c.o), s \in Typed
  PROVE  Proper(c, qs, s)
<1>1. w \in Int /\ c.n \in Int /\ c.e = OK /\ c.cbs = <<>> BY DEF Context, Afresh
<1>2. c.m \notin Careful \cup Straight \cup Listers BY ClassesSplit
<1> DEFINE qs1 == Sent(qs, s.ask)
           d == Entered(c, s)
<1>3. d.m = c.m /\ d.e = After(s, c.e) /\ (After(s, c.e) = OK => d.cbs = s.cb)
  <2>1. d.m = c.m /\ d.e = After(s, c.e) /\ (After(s, c.e) = OK => d.cbs = c.cbs \o s.cb) BY EnteredOwn
  <2>2. s.cb \in Seq(Callbacks) BY DEF Typed, Shape
  <2>3. <<>> \o s.cb = s.cb BY <2>2
  <2> QED BY <1>1, <2>1, <2>3
<1>4. ASSUME CounterWaits(d, qs1) PROVE Under(d, qs1)
  <2> HIDE DEF d, qs1
  <2> QED BY <1>2, <1>3, <1>4 DEF Under
<1>5. ASSUME NEW k \in Int, NEW q \in {"setConfig", "getVMparentNodeAndAddress"},
             NEW cb \in {"null", "net_target_addr"},
             s.ask = Copies(k, q), s.cb = Copies(k, cb), s.err = Same, ~s.ret
      PROVE  Proper(c, qs, s)
  <2>1. {"setConfig", "getVMparentNodeAndAddress"} \subseteq Asks
    BY AccountNamesKnown, VmNamesKnown DEF AccountNames, VmNames
  <2>2. Asked(qs1, {"setConfig", "getVMparentNodeAndAddress"}) /\ Fewer(qs1, Len(s.ask))
    BY <1>5, <2>1, SentSeveral
  <2>3. After(s, c.e) = OK BY <1>1, <1>5 DEF After
  <2>4. d.cbs = s.cb BY <1>3, <2>3
  <2>5. s.cb \in Seq({"null", "net_target_addr"})
    <3>1. s.cb \in Seq({cb}) BY <1>5, RepeatedLength
    <3> QED BY <3>1
  <2>6. Len(s.cb) = Len(s.ask)
    <3>1. CASE k > 0
      <4>1. Len(s.cb) = k BY <1>5, <3>1, RepeatedLength
      <4>2. Len(s.ask) = k BY <1>5, <3>1, RepeatedLength
      <4> QED BY <4>1, <4>2
    <3>2. CASE k <= 0
      <4>1. s.cb = <<>> BY <1>5, <3>2, RepeatedLength
      <4>2. s.ask = <<>> BY <1>5, <3>2, RepeatedLength
      <4> QED BY <4>1, <4>2
    <3> QED BY <3>1, <3>2
  <2> HIDE DEF d, qs1
  <2>7. CounterWaits(d, qs1) BY <2>2, <2>4, <2>5, <2>6 DEF CounterWaits
  <2> QED BY <1>4, <1>5, <2>3, <2>7 DEF Proper, d, qs1
<1>6. CASE c.m = "setConfigs"
  <2>0. s \in StepOf("setConfigs", c.n, c.e, w, c.o) BY <1>6
  <2>1. \E k \in Int : s = TimesCb(k, "setConfig", "null")
    <3>1. s \in setConfigs(c.n, c.e, w, c.o) BY <1>1, <2>0, StagedStepOf
    <3>2. PICK k \in 0..2 : s = TimesCb(k, "setConfig", "null") BY <3>1 DEF setConfigs
    <3>3. k \in Int OBVIOUS
    <3> QED BY <3>2, <3>3
  <2>2. PICK k \in Int : s = TimesCb(k, "setConfig", "null") BY <2>1
  <2>3. /\ s.ask = Copies(k, "setConfig") /\ s.cb = Copies(k, "null")
        /\ s.err = Same /\ ~s.ret
    BY <2>2, TimesFields
  <2> QED BY <1>5, <2>3
<1>7. CASE c.m = "detachAllNetIfsByNetwork"
  <2>1. \/ \E x \in Raised : s = Fail(x)
        \/ \E q \in {"getNetwork", "getVMvifsByNetwork"} : s = Value(q)
        \/ s = Counting(TimesCb(w, "getVMparentNodeAndAddress", "net_target_addr"), 10)
    BY <1>1, <1>7, CounterSteps
  <2>2. ASSUME NEW x, s = Fail(x) PROVE Proper(c, qs, s) BY <2>2, WordFields DEF Proper
  <2>3. ASSUME NEW q \in {"getNetwork", "getVMvifsByNetwork"}, s = Value(q) PROVE Proper(c, qs, s)
    <3>1. s.ask = <<q>> /\ s.cb = <<"value">> /\ s.err = Same /\ s.count = NoCount /\ ~s.ret
      BY <2>3, WordFields DEF Value
    <3>2. q \in Keeping /\ q \in Asks
      <4>1. q \in Keeping BY DEF Keeping, Bare
      <4> QED BY <4>1, NotKids
    <3>3. /\ After(s, c.e) = OK /\ d.e = OK
          /\ d.cbs = <<"value">> /\ Only(qs1) /\ \A i \in New(qs1) : qs1[i].q = q
      BY <1>1, <3>1, <3>2, AskedAlone
    <3> HIDE DEF d, qs1
    <3>4. CounterWaits(d, qs1) BY <1>3, <1>7, <3>2, <3>3 DEF CounterWaits, Reading, Asked
    <3> QED BY <1>4, <3>1, <3>3, <3>4 DEF Proper, d, qs1
  <2>4. ASSUME s = Counting(TimesCb(w, "getVMparentNodeAndAddress", "net_target_addr"), 10)
        PROVE  Proper(c, qs, s)
    <3>1. /\ s.ask = Copies(w, "getVMparentNodeAndAddress") /\ s.cb = Copies(w, "net_target_addr")
          /\ s.err = Same /\ ~s.ret
      BY <1>1, <2>4, TimesFields
    <3> QED BY <1>1, <1>5, <3>1
  <2> QED BY <2>1, <2>2, <2>3, <2>4
<1> QED BY <1>6, <1>7 DEF Counters

\* Whatever the method: a fresh entry is proper.
LEMMA EnterProper ==
  ASSUME NEW c \in Context, c.m \in Remote \ LeavesQueries, NEW qs \in Flights, New(qs) = {}, Afresh(c),
         NEW w \in -1..2, w = IF c.v = Wild /\ c.m \notin TakesNumbers THEN 1 ELSE c.v,
         NEW s \in StepOf(c.m, c.n, c.e, w, c.o), s \in Typed, Loaded(s)
  PROVE  Proper(c, qs, s)
<1>1. w \in Int OBVIOUS
<1>2. c.m = "modifyNetIf" => w = c.v BY DEF TakesNumbers
<1>3. CASE c.m \in Careful BY <1>1, <1>3, CarefulProper
<1>4. CASE c.m \in Straight \ Short BY <1>1, <1>4, StraightProper
<1>5. CASE c.m \in Short BY <1>1, <1>2, <1>5, ShortProper
<1>6. CASE c.m \in Listers BY <1>6, ListerProper
<1>7. CASE c.m \in Counters BY <1>7, CounterProper
<1> QED BY <1>3, <1>4, <1>5, <1>6, <1>7, ClassesSplit

LEMMA UnderWithout ==
  ASSUME out \in Flights, NEW i \in DOMAIN out, NEW c \in Context, Under(c, out)
  PROVE  Under(c, Without(i))
<1>1. \A j \in New(Without(i)) : \E k \in New(out) : Without(i)[j] = out[k]
  BY NewWithout
<1>2. ASSUME NEW A, Asked(out, A) PROVE Asked(Without(i), A) BY <1>1, <1>2 DEF Asked
<1>3. NoKids(out) => NoKids(Without(i)) BY <1>1 DEF NoKids
<1>4. Only(out) => Only(Without(i))
  <2>1. ASSUME Only(out), NEW j \in New(Without(i)), NEW k \in New(Without(i)) PROVE j = k
    <3>1. (IF j < i THEN j ELSE j + 1) = (IF k < i THEN k ELSE k + 1)
      <4>1. /\ (IF j < i THEN j ELSE j + 1) \in New(out)
            /\ (IF k < i THEN k ELSE k + 1) \in New(out)
        BY NewWithout
      <4> QED BY <4>1, <2>1 DEF Only
    <3>2. j \in Int /\ k \in Int /\ i \in Int BY DEF New, Without, Flights
    <3> QED BY <3>1, <3>2
  <2> QED BY <2>1 DEF Only
<1>5. Fewer(out, c.n - 2) => Fewer(Without(i), c.n - 2)
  <2>1. c.n - 2 \in Int BY DEF Context
  <2> QED BY <2>1, FewerWithout
<1>6. Fewer(out, Len(c.cbs)) => Fewer(Without(i), Len(c.cbs))
  <2>1. Len(c.cbs) \in Int BY DEF Context
  <2> QED BY <2>1, FewerWithout
<1>7. Reading(c, out) => Reading(c, Without(i)) BY <1>2, <1>4 DEF Reading
<1>8. StraightWaits(c, out) => StraightWaits(c, Without(i)) BY <1>2, <1>3, <1>4, <1>7 DEF StraightWaits
<1>9. ListerWaits(c, out) => ListerWaits(c, Without(i)) BY <1>2, <1>3, <1>4, <1>5 DEF ListerWaits
<1>10. CounterWaits(c, out) => CounterWaits(c, Without(i)) BY <1>2, <1>6, <1>7 DEF CounterWaits
<1> QED BY <1>4, <1>8, <1>9, <1>10 DEF Under

\* The writes of setConfigs, and the machines of detachAllNetIfsByNetwork.
LEMMA CountedKinds ==
  /\ Kind("setConfig") \in Single \cup Writes /\ 2 \notin Rows("setConfig")
  /\ Kind("getVMparentNodeAndAddress") \in {"list", "rows"}
<1>1. "setConfig" \in Queries /\ "getVMparentNodeAndAddress" \in Queries
  <2>1. "setConfig" \in Asks BY AccountNamesKnown DEF AccountNames
  <2>2. "getVMparentNodeAndAddress" \in Asks BY NetworkNamesKnown DEF NetworkNames
  <2> QED BY <2>1, <2>2 DEF Asks, Kids, NotLoaded
<1>2. "setConfig" \in OneRow /\ "getVMparentNodeAndAddress" \in Listing BY DEF OneRow, Listing
<1>3. Kind("setConfig") \in Single \cup Writes BY <1>1, <1>2, QueryKinds DEF Kind
<1>4. Kind("getVMparentNodeAndAddress") \in {"list", "rows"} BY <1>1, <1>2, QueryKinds DEF Kind
<1>5. Rows("setConfig") = 0..1 BY <1>3 DEF Rows, Shared
<1>6. 2 \notin 0..1 OBVIOUS
<1> QED BY <1>3, <1>4, <1>5, <1>6

\* A query of the call's own has been answered: it was the last one, or one of
\* a counter's.
Counted(c, qs) ==
  /\ c.m \in Counters
  /\ Asked(qs, {"setConfig", "getVMparentNodeAndAddress"})
  /\ c.cbs \in Seq({"null", "net_target_addr"}) /\ Fewer(qs, Len(c.cbs))

LEMMA OwnReplies ==
  ASSUME out \in Flights, NEW c \in Context, c.m \in Remote \ LeavesQueries, Under(c, out),
         NEW i \in New(out), out[i].q \notin Kids
  PROVE  New(Without(i)) = {} \/ Counted(c, out)
<1>1. Only(out) => New(Without(i)) = {} BY LastOne DEF Only
<1>2. CASE c.m \in Careful BY <1>1, <1>2 DEF Under
<1>3. CASE c.m \in Straight BY <1>1, <1>3 DEF Under, StraightWaits, Reading
<1>4. CASE c.m \in Listers
  <2>1. out[i].q \notin OfTheirOwn BY DEF OfTheirOwn, Kids
  <2> QED BY <1>1, <1>4, <2>1 DEF Under, ListerWaits, Asked
<1>5. CASE c.m \in Counters BY <1>1, <1>5 DEF Under, CounterWaits, Reading, Counted
<1> QED BY <1>2, <1>3, <1>4, <1>5, ClassesSplit

-----------------------------------------------------------------------------
(* LeftoversOnlyOf holds, step by step.                                      *)

\* What every step of the engine comes to.
Decent ==
  /\ LeftoversOnlyOf'
  /\ up' /\ ctx'.m # "none" /\ ~Excused(ctx') => Kept(ctx', out', ev')

LEMMA AnswersDecent ==
  ASSUME NEW c, NEW e, NEW qs, NEW es, Answers(c, e, qs, es),
         Excused(c) \/ (New(qs) = {} /\ New(es) = {})
  PROVE  Decent
<1>1. ctx'.m = "none" BY DEF Answers, Idle, Fresh
<1>2. prev'.m = c.m /\ prev'.left = Left(qs, es) /\ prev'.bad = c.bad /\ prev'.late = c.late BY DEF Answers
<1>3. New(qs) = {} /\ New(es) = {} => Left(qs, es) = {} BY DEF Left, New
<1>4. LeftoversOnlyOf' BY <1>2, <1>3 DEF LeftoversOnlyOf, Excused
<1> QED BY <1>1, <1>4 DEF Decent

LEMMA WaitsDecent ==
  ASSUME NEW c, NEW qs, NEW es, Waits(c, qs, es), LeftoversOnlyOf,
         c.m # "none" /\ ~Excused(c) => Kept(c, qs, es)
  PROVE  Decent
BY DEF Waits, Decent, LeftoversOnlyOf

LEMMA DiesDecent ==
  ASSUME NEW c, NEW qs, NEW es, Dies(c, qs, es), LeftoversOnlyOf
  PROVE  Decent
BY DEF Dies, Decent, LeftoversOnlyOf

LEMMA EnterDecent ==
  ASSUME NEW c \in Context, c.m \in Remote, NEW qs \in Flights, NEW es, Enter(c, qs, es), LeftoversOnlyOf,
         ~Excused(c) => New(qs) = {} /\ New(es) = {} /\ Afresh(c)
  PROVE  Decent
<1>1. CASE Dies(c, qs, es) BY <1>1, DiesDecent
<1>2. ASSUME NEW w \in -1..2, NEW s \in StepOf(c.m, c.n, c.e, w, c.o),
             s \in Typed, Loaded(s), w = IF c.v = Wild /\ c.m \notin TakesNumbers THEN 1 ELSE c.v,
             \/ After(s, c.e) # OK /\ Answers(Entered(c, s), Fault(Entered(c, s)), Sent(qs, s.ask), es)
             \/ /\ After(s, c.e) = OK /\ s.ret /\ c.fault = OK
                /\ Answers(Entered(c, s), OK, Sent(qs, s.ask), es)
             \/ /\ After(s, c.e) = OK /\ (s.ret => c.fault # OK)
                /\ Waits(Entered(c, s), Sent(qs, s.ask), es)
      PROVE  Decent
  <2> DEFINE d == Entered(c, s)
             qs1 == Sent(qs, s.ask)
  <2>1. d.m = c.m /\ d.late = c.late /\ d.bad = c.bad BY <1>2, EnteredOwn
  <2>2. Excused(d) <=> Excused(c) BY <2>1 DEF Excused
  <2>3. ~Excused(c) => Proper(c, qs, s)
    <3>1. ASSUME ~Excused(c) PROVE Proper(c, qs, s)
      <4>1. c.m \in Remote \ LeavesQueries BY <3>1 DEF Excused
      <4>2. New(qs) = {} /\ Afresh(c) BY <3>1
      <4> QED BY <1>2, <4>1, <4>2, EnterProper
    <3> QED BY <3>1
  <2>4. ~Excused(c) /\ s.ask = <<>> => New(qs1) = {} BY SentNothing
  <2>5. ~Excused(c) /\ (After(s, c.e) # OK \/ s.ret) => New(qs1) = {} BY <2>3, <2>4 DEF Proper
  <2>6. New(es) = {} => Only(es) BY NothingNew
  <2>7. ~Excused(c) => (New(qs1) = {} /\ Only(es)) \/ (New(es) = {} /\ Under(d, qs1))
    BY <2>3, <2>4, <2>6 DEF Proper
  <2> HIDE DEF d, qs1
  <2>8. CASE (After(s, c.e) # OK \/ s.ret) /\ \E e : Answers(d, e, qs1, es)
    BY <2>2, <2>5, <2>8, AnswersDecent
  <2>9. CASE Waits(d, qs1, es) BY <2>2, <2>7, <2>9, WaitsDecent DEF Kept
  <2> QED BY <1>2, <2>8, <2>9 DEF d, qs1
<1> QED BY <1>1, <1>2, EnterCases

\* The context c, which has lost its first callback cb, and the value v of the
\* reply: all that the call has sent is answered, or it is one of a counter's.
Takes(cb, c, v, qs) ==
  \/ /\ New(qs) = {}
     /\ c.m \in Careful => c.n >= 0
     /\ c.m \in Straight =>
          /\ c.cbs = <<>>
          /\ \/ cb \in Endings /\ c.m \notin Short
             \/ /\ cb = "value" /\ c.e = OK
                /\ c.m \in Short => c.n = 0 \/ (c.m = "modifyNetIf" /\ c.n = 1 /\ v = 0)
     /\ c.m \in Listers => cb = "value" /\ c.n = 0
     /\ c.m \in Counters => cb = "value" /\ c.e = OK /\ c.cbs = <<>>
  \/ cb = "net_target_addr" /\ Under(c, qs)

LEMMA CallbackDecent ==
  ASSUME NEW cb \in Callbacks \ {"null"}, NEW c \in Context, c.m \in Remote, NEW v \in -1..2,
         NEW qs \in Flights, NEW es, CallbackOf(cb, c, v, qs, es), LeftoversOnlyOf,
         ~Excused(c) => New(es) = {} /\ Takes(cb, c, v, qs)
  PROVE  Decent
<1>0. ~Excused(c) => c.m \in Remote \ LeavesQueries BY DEF Excused
<1>1. ASSUME NEW x \in Context, Reenters(cb, c, v, x), Enter(x, qs, es) PROVE Decent
  <2>1. /\ x.m = c.m /\ x.n = c.n + 1 /\ x.cbs = c.cbs /\ x.late = c.late /\ x.bad = c.bad
        /\ cb # "net_target_addr"
    BY <1>1 DEF Reenters
  <2>2. Excused(x) <=> Excused(c) BY <2>1 DEF Excused
  <2>3. ASSUME ~Excused(c) PROVE New(qs) = {} /\ New(es) = {} /\ Afresh(x)
    <3>1. /\ New(qs) = {} /\ New(es) = {} /\ c.n \in Int
      BY <2>1, <2>3 DEF Takes, Context
    <3>2. CASE c.m \in Careful
      <4>1. c.m \notin Straight \cup Listers \cup Counters \cup Short BY <1>0, <2>3, <3>2, ClassesSplit
      <4>2. c.n >= 0 BY <2>1, <2>3, <3>2 DEF Takes
      <4>3. x.n >= 0 /\ x.n # 0 BY <2>1, <3>1, <4>2
      <4> QED BY <2>1, <3>1, <4>1, <4>3 DEF Afresh
    <3>3. CASE c.m \in Straight
      <4>1. c.m \notin Careful \cup Listers \cup Counters BY <1>0, <2>3, <3>3, ClassesSplit
      <4>2. /\ c.cbs = <<>>
            /\ \/ cb \in Endings /\ c.m \notin Short
               \/ /\ cb = "value" /\ c.e = OK
                  /\ c.m \in Short => c.n = 0 \/ (c.m = "modifyNetIf" /\ c.n = 1 /\ v = 0)
        BY <2>1, <2>3, <3>3 DEF Takes
      <4>3. x.e = OK BY <1>1, <4>2 DEF Reenters, Endings
      <4>4. cb = "value" => x.v = v BY <1>1 DEF Reenters
      <4>5. c.m \in Short => x.n \in {0, 1} \/ (x.m = "modifyNetIf" /\ x.n = 2 /\ x.v = 0)
        BY <2>1, <3>1, <4>2, <4>4
      <4> QED BY <2>1, <3>1, <4>1, <4>2, <4>3, <4>5 DEF Afresh
    <3>4. CASE c.m \in Listers
      <4>1. c.m \notin Careful \cup Straight \cup Counters \cup Short BY <1>0, <2>3, <3>4, ClassesSplit
      <4>2. x.n = 1 BY <2>1, <2>3, <3>4 DEF Takes
      <4> QED BY <2>1, <3>1, <4>1, <4>2 DEF Afresh
    <3>5. CASE c.m \in Counters
      <4>1. c.m \notin Careful \cup Straight \cup Listers \cup Short BY <1>0, <2>3, <3>5, ClassesSplit
      <4>2. cb = "value" /\ c.e = OK /\ c.cbs = <<>> BY <2>1, <2>3, <3>5 DEF Takes
      <4>3. x.e = OK BY <1>1, <4>2 DEF Reenters
      <4> QED BY <2>1, <3>1, <4>1, <4>2, <4>3 DEF Afresh
    <3> QED BY <1>0, <2>3, <3>2, <3>3, <3>4, <3>5, ClassesSplit
  <2> QED BY <1>1, <2>1, <2>2, <2>3, EnterDecent
<1>2. ASSUME cb \in Endings, NEW e, Answers(c, e, qs, es) PROVE Decent
  <2>1. cb # "net_target_addr" BY <1>2 DEF Endings
  <2> QED BY <1>2, <2>1, AnswersDecent DEF Takes
<1>3. CASE Waits(c, qs, es)
  <2>1. ~Excused(c) => Kept(c, qs, es) BY NothingNew DEF Takes, Kept
  <2> QED BY <1>3, <2>1, WaitsDecent
<1>4. CASE Dies(c, qs, es) BY <1>4, DiesDecent
<1>5. ASSUME cb \in Senders, NEW q \in SentBack,
             NEW k \in {<<>>, <<"generatemac">>, <<"jobs_resource">>}, Sends(c, q, k, qs, es)
      PROVE  Decent
  <2> DEFINE d == Sending(c, q, k)
  <2>1. Waits(d, Sent(qs, <<q>>), es) BY <1>5 DEF Sends, Sending
  <2>2. d.m = c.m /\ d.n = c.n /\ d.cbs = c.cbs \o k /\ d.late = c.late /\ d.bad = c.bad
    BY DEF Sending, Clean, Context
  <2> HIDE DEF d
  <2>3. Excused(d) <=> Excused(c) BY <2>2 DEF Excused
  <2>4. cb \notin {"net_target_addr", "value"} BY <1>5 DEF Senders
  <2>5. q \in Asks /\ q \notin Kids BY NotKids
  <2>6. ASSUME ~Excused(c) PROVE New(es) = {} /\ Under(d, Sent(qs, <<q>>))
    <3> DEFINE qs1 == Sent(qs, <<q>>)
    <3>1. New(qs) = {} /\ New(es) = {} BY <2>4, <2>6 DEF Takes
    <3>2. Only(qs1) /\ \A i \in New(qs1) : qs1[i].q = q BY <2>5, <3>1, SentAlone
    <3> HIDE DEF qs1
    <3>3. NoKids(qs1) BY <2>5, <3>2 DEF NoKids
    <3>4. c.m \notin Listers \cup Counters BY <2>4, <2>6 DEF Takes
    <3>5. c.m \in Careful => d.n >= 0 BY <2>4, <2>6, <2>2 DEF Takes
    <3>6. ASSUME c.m \in Straight PROVE StraightWaits(d, qs1)
      <4>1. c.cbs = <<>> /\ c.m \notin Short BY <2>4, <2>6, <3>6 DEF Takes
      <4>2. d.cbs = k
        <5>1. <<>> \o k = k OBVIOUS
        <5> QED BY <2>2, <4>1, <5>1
      <4>3. k = <<>> \/ \E f \in Endings : k = <<f>> BY DEF Endings
      <4> QED BY <2>2, <3>2, <3>3, <4>1, <4>2, <4>3 DEF StraightWaits
    <3> QED BY <2>2, <3>1, <3>2, <3>4, <3>5, <3>6 DEF Under, qs1
  <2> QED BY <2>1, <2>3, <2>6, WaitsDecent DEF Kept
<1> QED BY <1>1, <1>2, <1>3, <1>4, <1>5, CallbackOutcomes

\* The first callback takes the reply of a query of the call's own.
LEMMA FirstTakes ==
  ASSUME NEW c \in Context, c.m \in Remote \ LeavesQueries, NEW i \in New(out), NEW d \in Context, NEW v,
         Under(c, out), Delivered(c, d, out[i].q, v), d.cbs # <<>>, Head(d.cbs) # "null", out[i].q \notin Kids,
         New(Without(i)) = {}, ~Counted(c, out)
  PROVE  Takes(Head(d.cbs), Popped(d), v, Without(i))
<1> DEFINE q == out[i].q
           p == Popped(d)
           cb == Head(d.cbs)
<1>1. d.m = c.m /\ d.n = c.n /\ d.cbs = c.cbs /\ Kind(q) # "bad" BY DEF Delivered, Alike
<1>2. p.m = d.m /\ p.n = d.n /\ p.e = d.e /\ p.cbs = Tail(d.cbs) BY PoppedContext
<1> HIDE DEF p
<1>3. ASSUME NEW f, c.cbs = <<f>> PROVE cb = f /\ p.cbs = <<>>
  <2>1. Head(<<f>>) = f /\ Tail(<<f>>) = <<>> OBVIOUS
  <2> QED BY <1>1, <1>2, <1>3, <2>1
\* No row is no error.
<1>4. ASSUME Reading(c, out) PROVE cb = "value" /\ p.e = OK /\ p.cbs = <<>> /\ (q = "getNetworkOfNone" => v = 0)
  <2>1. q \in Keeping BY <1>4 DEF Reading, Asked
  <2>2. Kind(q) = "rows"
    <3>1. CASE q = "getNetworkOfNone" BY <3>1 DEF Kind
    <3>2. CASE q \in Bare /\ q # "getNetworkOfNone"
      <4>1. q \in Asks BY <2>1, NotKids
      <4>2. q \in Queries BY <3>2, <4>1 DEF Asks, Bare, Kids, NotLoaded
      <4> QED BY <3>2, <4>2, QueryKinds DEF Kind
    <3> QED BY <2>1, <3>1, <3>2 DEF Keeping
  <2>3. PICK r \in Rows(q) : d.e = ErrorAfter(q, c.e, r) /\ v = ValueAfter(q, d.e, r)
    BY <2>2 DEF Delivered
  <2>4. d.e = OK BY <1>4, <2>2, <2>3 DEF ErrorAfter, Reading
  <2>5. v = r BY <2>2, <2>3 DEF ValueAfter
  <2>6. q = "getNetworkOfNone" => r = 0 BY <2>3 DEF Rows
  <2>7. cb = "value" /\ p.cbs = <<>> BY <1>3, <1>4 DEF Reading
  <2> QED BY <1>2, <2>4, <2>5, <2>6, <2>7
<1>5. c.m \in Careful => c.n >= 0 BY DEF Under
<1>6. ASSUME c.m \in Straight
      PROVE  /\ p.cbs = <<>>
             /\ \/ cb \in Endings /\ c.m \notin Short
                \/ /\ cb = "value" /\ p.e = OK
                   /\ c.m \in Short => c.n = 0 \/ (c.m = "modifyNetIf" /\ c.n = 1 /\ v = 0)
  <2>1. StraightWaits(c, out) BY <1>6 DEF Under
  <2>2. CASE c.m \notin Short /\ \E f \in Endings : c.cbs = <<f>>
    BY <1>3, <2>2
  <2>3. CASE /\ Reading(c, out)
             /\ c.m \in Short => \/ c.n = 0
                                 \/ c.m = "modifyNetIf" /\ c.n = 1 /\ Asked(out, {"getNetworkOfNone"})
    BY <1>4, <2>3 DEF Asked
  <2>4. CASE Asked(out, {"modifyDisk"})
    <3>1. q = "modifyDisk" BY <2>4 DEF Asked
    <3>2. Kind("modifyDisk") = "bad" BY ExpectedKinds DEF Refused
    <3> QED BY <1>1, <3>1, <3>2
  <2> QED BY <1>1, <2>1, <2>2, <2>3, <2>4 DEF StraightWaits
<1>7. ASSUME c.m \in Listers PROVE cb = "value" /\ c.n = 0
  <2>1. ListerWaits(c, out) BY <1>7 DEF Under
  <2>2. q \notin OfTheirOwn BY DEF OfTheirOwn, Kids
  <2> QED BY <1>1, <1>3, <2>1, <2>2 DEF ListerWaits, Asked
<1>8. c.m \in Counters => cb = "value" /\ p.e = OK /\ p.cbs = <<>>
  BY <1>4 DEF Under, CounterWaits, Counted
<1> QED BY <1>1, <1>2, <1>5, <1>6, <1>7, <1>8 DEF Takes, p

LEMMA OneLess ==
  ASSUME NEW S, NEW s \in Seq(S), s # <<>>
  PROVE  Len(Tail(s)) = Len(s) - 1 /\ Len(s) \in Nat
OBVIOUS

\* An event is made when there is none.
LEMMA OneEvent ==
  ASSUME ev \in Events, New(ev) = {}, NEW x
  PROVE  Only(Append(ev, x))
<1>1. Len(ev) \in Nat /\ DOMAIN ev = 1..Len(ev) BY DEF Events
<1>2. ASSUME NEW i \in New(Append(ev, x)) PROVE i = Len(ev) + 1
  <2>1. i \in 1..(Len(ev) + 1) BY <1>1 DEF New
  <2>2. i \in 1..Len(ev) => Append(ev, x)[i] = ev[i] BY <1>1
  <2>3. i \notin 1..Len(ev) BY <1>1, <2>2 DEF New
  <2> QED BY <1>1, <2>1, <2>3
<1> QED BY <1>2 DEF Only

\* The last of a call's queries is answered, or it is a counter's: the reply is
\* delivered.
LEMMA DeliverDecent ==
  ASSUME NEW c \in Context, c.m \in Remote, NEW i \in DOMAIN out, out \in Flights, ev \in Events, Without(i) \in Flights,
        
         NEW d \in Context, NEW v \in -1..2, NEW old, out[i].q \notin Kids,
         Delivered(c, d, out[i].q, v), Deliver(out[i].q, d, v, old, Without(i)), LeftoversOnlyOf,
         ~Excused(d) => i \in New(out) /\ New(ev) = {} /\ Under(c, out)
  PROVE  Decent
<1>0. /\ d.m = c.m /\ d.n = c.n /\ d.cbs = c.cbs
      /\ ~Excused(d) => c.m \in Remote \ LeavesQueries
  BY DEF Delivered, Alike, Excused
<1> DEFINE qs == Without(i)
<1>1. ~Excused(d) => New(qs) = {} \/ Counted(c, out)
  BY <1>0, OwnReplies
<1>2. New(qs) = {} => Only(qs) /\ \A k : Fewer(qs, k) BY NothingNew
<1> HIDE DEF qs
<1>3. CASE d.cbs = <<>> /\ Waits(d, qs, Append(ev, [k |-> "result", old |-> old]))
  <2>1. ASSUME ~Excused(d) PROVE New(qs) = {} /\ Only(Append(ev, [k |-> "result", old |-> old]))
    <3>1. ~Counted(c, out)
      <4>1. Len(c.cbs) = 0 BY <1>0, <1>3
      <4>2. i \in New(out) /\ i \in Int /\ Len(out) \in Int BY <2>1 DEF Flights
      <4> QED BY <4>1, <4>2 DEF Counted, Fewer
    <3>2. New(ev) = {} BY <2>1
    <3> QED BY <1>1, <2>1, <3>1, <3>2, OneEvent
  <2> QED BY <1>3, <2>1, WaitsDecent DEF Kept
<1>4. ASSUME d.cbs # <<>> PROVE Decent
  <2> DEFINE p == Popped(d)
             cb == Head(d.cbs)
  <2>1. /\ p \in Context /\ cb \in Callbacks /\ p.m = d.m /\ p.n = d.n /\ p.cbs = Tail(d.cbs)
        /\ p.late = d.late /\ p.bad = d.bad
    BY <1>4, PoppedContext
  <2>2. Excused(p) <=> Excused(d) BY <2>1 DEF Excused
  <2> HIDE DEF p
  <2>3. ASSUME Counted(c, out), ~Excused(d) PROVE cb \in {"null", "net_target_addr"} /\ Under(p, qs)
    <3>1. c.cbs \in Seq({"null", "net_target_addr"}) /\ c.cbs # <<>> /\ Tail(d.cbs) = Tail(c.cbs)
      BY <1>0, <1>4, <2>3 DEF Counted
    <3>2. cb \in {"null", "net_target_addr"} /\ p.cbs \in Seq({"null", "net_target_addr"})
      BY <1>0, <2>1, <3>1, FirstAndRest
    <3>3. Len(p.cbs) = Len(c.cbs) - 1 /\ Len(c.cbs) \in Int 
      <4> DEFINE S == {"null", "net_target_addr"}
      <4>1. c.cbs \in Seq(S) /\ c.cbs # <<>> /\ p.cbs = Tail(c.cbs) BY <2>1, <3>1
      <4> HIDE DEF S
      <4> QED BY <4>1, OneLess
    <3>4. Fewer(qs, Len(c.cbs) - 1) BY <2>3, <3>3, FewerWithout DEF Counted, New, qs
    <3>5. Asked(qs, {"setConfig", "getVMparentNodeAndAddress"}) BY <2>3, NewWithout DEF Counted, Asked, qs
    <3>6. CounterWaits(p, qs) BY <3>2, <3>3, <3>4, <3>5 DEF CounterWaits
    <3>7. c.m \in Counters /\ c.m \notin Careful \cup Straight \cup Listers
      BY <1>0, <2>3, ClassesSplit DEF Counted
    <3> QED BY <1>0, <2>1, <3>2, <3>6, <3>7 DEF Under
  <2>4. CASE cb = "null" /\ Waits(p, qs, ev)
    <3>1. ~Excused(p) => Kept(p, qs, ev) BY <1>1, <2>2, <2>3, NothingNew DEF Kept
    <3> QED BY <2>4, <3>1, WaitsDecent
  <2>5. CASE Dies(p, qs, ev) BY <2>5, DiesDecent
  <2>6. CASE cb # "null" /\ CallbackOf(cb, p, v, qs, ev)
    <3>1. ASSUME ~Excused(p) PROVE New(ev) = {} /\ Takes(cb, p, v, qs)
      <4>1. CASE Counted(c, out) BY <2>2, <2>3, <2>6, <3>1, <4>1 DEF Takes
      <4>2. CASE ~Counted(c, out)
        <5>1. c.m \in Remote \ LeavesQueries /\ New(qs) = {} /\ i \in New(out) /\ Under(c, out)
          BY <1>0, <1>1, <2>2, <3>1, <4>2
        <5> QED BY <1>4, <2>2, <2>6, <3>1, <4>2, <5>1, FirstTakes DEF p, qs
      <4> QED BY <2>2, <3>1, <4>1, <4>2
    <3>2. qs \in Flights BY DEF qs
    <3> QED BY <1>0, <2>1, <2>6, <3>1, <3>2, CallbackDecent
  <2> QED BY <1>4, <2>4, <2>5, <2>6, DeliverCases DEF p, qs
<1> QED BY <1>3, <1>4, DeliverCases DEF qs

LEMMA QueryDecent ==
  ASSUME EngineInv, AnswerInv, LeftInv, up, Busy, NEW i \in DOMAIN out, QueryFails(i) \/ QueryReturns(i)
  PROVE  Decent
<1>1. /\ ctx \in Context /\ ctx.m \in Remote /\ out \in Flights /\ ev \in Events /\ Without(i) \in Flights
      /\ LeftoversOnlyOf
  BY InFlight DEF EngineInv, Context, Busy, LeftInv
<1>2. out[i].q \notin Kids BY DEF QueryFails, QueryReturns
<1>3. ASSUME NEW d \in Context, out[i].old => d.late, Alike(ctx, d), ~Excused(d)
      PROVE  /\ i \in New(out) /\ New(ev) = {} /\ Under(ctx, out) /\ ctx.m \in Remote \ LeavesQueries
             /\ ~Aside(ctx)
  <2>1. ~Excused(ctx) BY <1>3 DEF Alike, Excused
  <2>2. i \in New(out) BY <1>3 DEF New, Excused
  <2>3. Kept(ctx, out, ev) BY <2>1 DEF LeftInv
  <2>4. ctx.m \notin Movers BY <2>1 DEF Excused, LeavesQueries, Movers
  <2> QED BY <1>1, <2>1, <2>2, <2>3, <2>4 DEF Kept, Aside, Excused
<1>4. ASSUME NEW d \in Context, out[i].old => d.late,
             Bounced(ctx, d, out[i].q), Raise(d, out[i].old, Without(i))
      PROVE  Decent
  <2>1. Waits(d, Without(i), Append(ev, [k |-> "error", old |-> out[i].old])) BY <1>4 DEF Raise
  <2>2. ASSUME ~Excused(d) PROVE New(Without(i)) = {} /\ New(ev) = {}
    <3>1. /\ i \in New(out) /\ New(ev) = {} /\ Under(ctx, out) /\ ctx.m \in Remote \ LeavesQueries
          /\ ~Aside(ctx)
      BY <1>3, <1>4, <2>2 DEF Bounced
    <3>2. ctx.m \in Remote \ Movers /\ Held(ctx, out) BY <3>1 DEF Aside, AnswerInv
    <3>3. /\ ctx.st /\ Kind(out[i].q) \notin Writes \cup {"bad"} /\ 2 \in Rows(out[i].q)
                => Kind(out[i].q) \in Single
      BY <1>1, <1>2, <3>1, <3>2, RepliesNarrow
    <3>4. \/ ctx.st /\ Kind(out[i].q) \notin Writes \cup {"bad"} /\ 2 \in Rows(out[i].q)
          \/ Kind(out[i].q) = "enabled"
      BY <1>4, <2>2 DEF Bounced, Excused
    <3>5. out[i].q \notin {"setConfig", "getVMparentNodeAndAddress"}
      BY <3>3, <3>4, CountedKinds DEF Single, Writes
    <3>6. ~Counted(ctx, out) BY <3>1, <3>5 DEF Counted, Asked
    <3> QED BY <1>1, <1>2, <3>1, <3>6, OwnReplies
  <2>3. ~Excused(d) => /\ New(Without(i)) = {}
                       /\ Only(Append(ev, [k |-> "error", old |-> out[i].old]))
    BY <1>1, <2>2, OneEvent
  <2> QED BY <1>1, <2>1, <2>3, WaitsDecent DEF Kept
<1>5. ASSUME NEW d \in Context, out[i].old => d.late, NEW v \in -1..2,
             Delivered(ctx, d, out[i].q, v), Deliver(out[i].q, d, v, out[i].old, Without(i))
      PROVE  Decent
  <2>1. ~Excused(d) => i \in New(out) /\ New(ev) = {} /\ Under(ctx, out)
    BY <1>3, <1>5 DEF Delivered
  <2> QED BY <1>1, <1>2, <1>5, <2>1, DeliverDecent
<1> QED BY <1>4, <1>5, ReplyCases

\* A context of its own comes back, or is lost.
LEMMA KidDecent ==
  ASSUME EngineInv, LeftInv, up, Busy, NEW i \in DOMAIN out, KidReturns(i) \/ KidLost(i)
  PROVE  Decent
<1>1. /\ ctx \in Context /\ ctx.m \in Remote /\ out \in Flights /\ Without(i) \in Flights
      /\ LeftoversOnlyOf
  BY InFlight DEF EngineInv, Context, Busy, LeftInv
<1>2. out[i].q \in Kids BY DEF KidReturns, KidLost
<1>3. CASE Waits(ctx, Without(i), ev)
  <2>1. New(out) = {} => New(Without(i)) = {} BY <1>1, NewWithout
  <2>2. ~Excused(ctx) => Kept(ctx, Without(i), ev)
    BY <1>1, <2>1, UnderWithout DEF LeftInv, Kept
  <2> QED BY <1>1, <1>3, <2>2, WaitsDecent
<1>4. ASSUME NEW x \in Context, Rejoins(ctx, x, out[i].q), out[i].old => x.late, ~Excused(x)
      PROVE  /\ New(ev) = {}
             /\ New(Without(i)) = {} \/ Under(x, Without(i))
             /\ x.n = Target[out[i].q] => New(Without(i)) = {} /\ Afresh(x)
  <2>1. x.m = ctx.m /\ x.n = ctx.n - 1 /\ (ctx.late => x.late) /\ x.bad = ctx.bad /\ ctx.n \in Int
    BY <1>1, <1>4 DEF Rejoins, Context
  <2>2. ~Excused(ctx) /\ i \in New(out) BY <1>4, <2>1 DEF Excused, New
  <2>3. New(ev) = {} /\ Under(ctx, out) /\ ctx.m \in Remote \ LeavesQueries
    BY <1>1, <2>2 DEF LeftInv, Kept, Excused
  <2>4. Target[out[i].q] >= 2 /\ (out[i].q \in OfTheirOwn => Target[out[i].q] = 2)
    BY <1>2 DEF Target, Kids, OfTheirOwn
  <2>5. CASE ctx.m \in Careful
    <3>1. New(Without(i)) = {} BY <1>1, <2>2, <2>3, <2>5, LastOne DEF Under, Only
    <3>2. ctx.m \notin Straight \cup Listers \cup Counters \cup Short BY <2>3, <2>5, ClassesSplit
    <3>3. x.n = Target[out[i].q] => x.n >= 0 /\ x.n # 0 BY <2>1, <2>4 DEF Context
    <3> QED BY <2>1, <2>3, <3>1, <3>2, <3>3 DEF Afresh
  <2>6. ctx.m \notin Straight
    <3>1. ASSUME ctx.m \in Straight PROVE FALSE
      <4>1. StraightWaits(ctx, out) BY <2>3, <3>1 DEF Under
      <4>2. ~NoKids(out) BY <1>2, <2>2 DEF NoKids
      <4>3. out[i].q \notin Keeping \cup {"modifyDisk"} BY <1>2, NotKids
      <4> QED BY <2>2, <4>1, <4>2, <4>3 DEF StraightWaits, Reading, Asked
    <3> QED BY <3>1
  <2>7. ctx.m \notin Counters
    <3>1. ASSUME ctx.m \in Counters PROVE FALSE
      <4>1. CounterWaits(ctx, out) BY <2>3, <3>1 DEF Under
      <4>2. out[i].q \notin Keeping BY <1>2, NotKids
      <4>3. out[i].q \notin {"setConfig", "getVMparentNodeAndAddress"} BY <1>2 DEF Kids
      <4> QED BY <2>2, <4>1, <4>2, <4>3 DEF CounterWaits, Reading, Asked
    <3> QED BY <3>1
  <2>8. CASE ctx.m \in Listers
    <3>1. ctx.m \notin Careful \cup Straight \cup Counters \cup Short BY <2>3, <2>8, ClassesSplit
    <3>2. Asked(out, OfTheirOwn) /\ Fewer(out, ctx.n - 2)
      <4>1. ~NoKids(out) BY <1>2, <2>2 DEF NoKids
      <4> QED BY <2>3, <2>8, <4>1 DEF Under, ListerWaits
    <3>3. out[i].q \in OfTheirOwn BY <2>2, <3>2 DEF Asked
    <3>4. Fewer(Without(i), (ctx.n - 2) - 1)
      <4>1. ~out[i].old /\ ctx.n - 2 \in Int BY <2>1, <2>2 DEF New
      <4> QED BY <1>1, <3>2, <4>1, FewerWithout
    <3>5. Fewer(Without(i), x.n - 2)
      <4>1. (ctx.n - 2) - 1 = x.n - 2 BY <2>1
      <4> QED BY <3>4, <4>1
    <3>6. Asked(Without(i), OfTheirOwn) BY <1>1, <3>2, NewWithout DEF Asked
    <3>7. Under(x, Without(i)) BY <2>1, <3>1, <3>5, <3>6 DEF Under, ListerWaits
    <3>8. ASSUME x.n = Target[out[i].q] PROVE New(Without(i)) = {} /\ Afresh(x)
      <4>1. x.n = 2 BY <2>4, <3>3, <3>8
      <4>2. Fewer(Without(i), 0) BY <3>5, <4>1
      <4>3. New(Without(i)) = {}
        <5>1. DOMAIN Without(i) = 1..Len(Without(i)) /\ Len(Without(i)) \in Nat BY <1>1 DEF Flights
        <5> QED BY <4>2, <5>1 DEF Fewer, New
      <4> QED BY <2>1, <3>1, <4>1, <4>3 DEF Afresh
    <3> QED BY <2>3, <3>7, <3>8
  <2> QED BY <2>3, <2>5, <2>6, <2>7, <2>8, ClassesSplit
<1>5. ASSUME NEW x \in Context, Rejoins(ctx, x, out[i].q), out[i].old => x.late,
             \/ x.n = Target[out[i].q] /\ Enter(x, Without(i), ev)
             \/ Waits(x, Without(i), ev)
      PROVE  Decent
  <2>1. x.m \in Remote BY <1>1, <1>5 DEF Rejoins
  <2>2. ~Excused(x) => /\ New(ev) = {}
                       /\ New(Without(i)) = {} \/ Under(x, Without(i))
                       /\ x.n = Target[out[i].q] => New(Without(i)) = {} /\ Afresh(x)
    BY <1>4, <1>5
  <2>3. CASE x.n = Target[out[i].q] /\ Enter(x, Without(i), ev)
    BY <1>1, <2>1, <2>2, <2>3, EnterDecent
  <2>4. CASE Waits(x, Without(i), ev)
    BY <1>1, <2>2, <2>4, WaitsDecent, NothingNew DEF Kept
  <2> QED BY <1>5, <2>3, <2>4
<1> QED BY <1>3, <1>5, KidCases

LEMMA CallDecent ==
  ASSUME EngineInv, LeftInv, Call
  PROVE  Decent
<1>1. PICK m \in Remote : Enter(Fresh(m), out, ev)
  BY RpcCallAssumption DEF Call
<1> DEFINE c == Fresh(m)
<1>2. c \in Context BY FreshIsContext
<1>3. c.m = m /\ c.n = 0 /\ c.cbs = <<>> /\ c.e = OK BY DEF Fresh
<1> HIDE DEF c
<1>4. New(out) = {} /\ New(ev) = {} BY DEF Call, EngineInv, Clear, New
<1>5. Afresh(c) BY <1>3 DEF Afresh
<1>6. out \in Flights /\ LeftoversOnlyOf BY DEF EngineInv, LeftInv
<1> QED BY <1>1, <1>2, <1>3, <1>4, <1>5, <1>6, EnterDecent DEF c

LEMMA TailElements ==
  ASSUME NEW S, NEW s \in Seq(S), s # <<>>
  PROVE  /\ 1 \in DOMAIN s /\ Head(s) = s[1]
         /\ \A j \in DOMAIN Tail(s) : j + 1 \in DOMAIN s /\ j + 1 # 1 /\ Tail(s)[j] = s[j + 1]
OBVIOUS

LEMMA EventDecent ==
  ASSUME EngineInv, LeftInv, Busy, HandleEvent
  PROVE  Decent
<1>1. PICK d \in Context : \E e :
        /\ Alike(ctx, d) /\ d.bad = ctx.bad
        /\ Head(ev).old => d.late
        /\ Answers(d, e, out, Tail(ev))
  BY EventCases
<1>2. ev \in Events /\ ev # <<>> /\ up BY DEF EngineInv, HandleEvent
<1>3. /\ 1 \in DOMAIN ev /\ Head(ev) = ev[1]
      /\ \A j \in DOMAIN Tail(ev) : j + 1 \in DOMAIN ev /\ j + 1 # 1 /\ Tail(ev)[j] = ev[j + 1]
  BY <1>2, TailElements DEF Events
<1>4. ASSUME ~Excused(d) PROVE New(out) = {} /\ New(Tail(ev)) = {}
  <2>1. ~Excused(ctx) BY <1>1, <1>4 DEF Alike, Excused
  <2>2. Kept(ctx, out, ev) BY <1>2, <2>1 DEF LeftInv
  <2>3. 1 \in New(ev) BY <1>1, <1>3, <1>4 DEF Excused, New
  <2>4. New(out) = {} /\ Only(ev) BY <2>2, <2>3 DEF Kept
  <2>5. New(Tail(ev)) = {} BY <1>3, <2>3, <2>4 DEF Only, New
  <2> QED BY <2>4, <2>5
<1> QED BY <1>1, <1>4, AnswersDecent

LEMMA IdleDecent ==
  ASSUME EngineInv, LeftInv, ~Busy, Reply \/ HandleEvent
  PROVE  Decent
<1>1. \E qs, es : Waits(ctx, qs, es)
  <2>1. CASE Reply BY <2>1 DEF Reply, QueryFails, QueryReturns, KidReturns, KidLost, Raise
  <2>2. CASE HandleEvent BY <2>2 DEF HandleEvent
  <2> QED BY <2>1, <2>2
<1>2. LeftoversOnlyOf BY DEF LeftInv
<1> QED BY <1>1, <1>2, WaitsDecent DEF Busy

\* The invariant: what a call has under way it waits for.
LEMMA LeftoversTyped == Spec => []LeftInv
<1>1. Init => LeftInv
  BY DEF Init, LeftInv, LeftoversOnlyOf, Busy, Idle, Fresh
<1>2. ASSUME EngineInv, AnswerInv, LeftInv, [Next]_vars PROVE LeftInv'
  <2>1. ASSUME Decent PROVE LeftInv'
    BY <2>1 DEF Decent, LeftInv, Busy
  <2>2. CASE Call BY <1>2, <2>1, <2>2, CallDecent
  <2>3. CASE Reply
    <3>1. PICK i \in DOMAIN out : QueryFails(i) \/ QueryReturns(i) \/ KidReturns(i) \/ KidLost(i)
      BY <2>3 DEF Reply
    <3>2. up BY <2>3 DEF Reply
    <3> QED BY <1>2, <2>1, <2>3, <3>1, <3>2, QueryDecent, KidDecent, IdleDecent
  <2>4. CASE HandleEvent BY <1>2, <2>1, <2>4, EventDecent, IdleDecent
  <2>5. CASE UseAfterFree
    BY <1>2, <2>5 DEF UseAfterFree, Dies, LeftInv, LeftoversOnlyOf
  <2>6. CASE LateAddJob \/ UNCHANGED vars
    <3>1. UNCHANGED <<ctx, out, ev, prev, up>> BY <2>6 DEF LateAddJob, vars
    <3> QED BY <1>2, <3>1 DEF LeftInv, LeftoversOnlyOf, Busy
  <2> QED BY <1>2, <2>2, <2>3, <2>4, <2>5, <2>6 DEF Next
<1> QED BY <1>1, <1>2, EngineTyped, AnswersTyped, PTL DEF Spec

\* A call that is answered leaves nothing of its own under way, to come back to
\* the connection's next call, but for the methods that LeavesQueries names, calls
\* one of whose queries the database failed and calls that an earlier call's reply
\* has reached.
THEOREM LeftoversAreKnown == Spec => []LeftoversOnlyOf
<1>1. LeftInv => LeftoversOnlyOf BY DEF LeftInv
<1> QED BY <1>1, LeftoversTyped, PTL
=============================================================================
