-------------------------- MODULE VmUpdate_proofs --------------------------
(* What holds of VmUpdate for any number of reports and machines: types, the *)
(* count of a waiting report, what a child's context looks like from one     *)
(* callback to the next, and that reports implement VmJoin.                  *)
EXTENDS VmUpdate, FiniteSetTheorems, TLAPS

ST == {"setVmState", "updateVmTimestamp"}
JobCb == <<"job">>
NullJobCb == <<"null", "job">>

ChildSet ==
  [life : {"none", "live", "freed"}, n : 0..4,
   e : {OK, Exists, Unknown, DbQuery}, cbs : {<<>>, JobCb, NullJobCb},
   dead : BOOLEAN, job : BOOLEAN, ev : BOOLEAN, q : SUBSET Queries,
   stored : BOOLEAN]

\* A child whose job is in the main loop.
Ready(c) ==
  /\ c.job /\ c.q = {} /\ c.cbs = <<>> /\ ~c.ev /\ ~c.dead
  /\ c.e # DbQuery
  /\ c.n \in {0, 3} => c.e = OK
  /\ c.n = 2 => c.e # Exists
  /\ c.n = 4 => c.e = Unknown

\* One that waits for its replies.
Waiting(c) ==
  /\ ~c.job /\ ~c.ev /\ ~c.dead
  /\ \/ c.n = 0 /\ c.e = OK /\ c.q = {"createVM"} /\ c.cbs = JobCb
     \/ c.n = 0 /\ c.e = OK /\ c.q = ST /\ c.cbs = NullJobCb
     \/ /\ c.n = 0 /\ c.e \in {OK, Unknown} /\ c.cbs = JobCb
        /\ \E s \in ST : c.q = {s}
     \/ c.n = 1 /\ c.e = OK /\ c.q = {"updateVMparentNode"} /\ c.cbs = JobCb
     \/ c.n = 2 /\ c.e = OK /\ c.q = {"isVmIgnored"} /\ c.cbs = JobCb
     \/ c.n = 3 /\ c.e = OK /\ c.q = {"getVM"} /\ c.cbs = JobCb

\* One of whose queries failed: no callback is left for the replies to come
\* but the NULL.
Failed(c) ==
  /\ ~c.job /\ (c.ev \/ c.dead)
  /\ \/ c.q = {}
     \/ c.n = 0 /\ c.cbs \in {<<>>, NullJobCb} /\ \E s \in ST : c.q = {s}

Shape(c) ==
  /\ c.life = "none" => ~c.job /\ c.q = {} /\ c.cbs = <<>> /\ ~c.ev
  /\ c.life = "live" => ~c.stored /\ (Ready(c) \/ Waiting(c) \/ Failed(c))
  /\ c.life = "freed" =>
       /\ ~c.job
       /\ c.q \subseteq {"updateVMparentNode", "updateVmConfig"}
       /\ c.n = 0 => c.q = {}

\* A child that got past createVM made the row.
PastCreate(c) == c.n > 0 \/ c.q \ {"createVM"} # {}

ChildInv ==
  \A p \in Polls, m \in Machines :
    /\ Shape(child[p][m])
    /\ PastCreate(child[p][m]) => creator[m] = p
    /\ child[p][m].life # "none" <=> (m \in list[p] /\ pc[p] \in {"waiting", "ok"})

\* A row in vmconfig is an older machine's, or came with a child's end.
ConfInv ==
  \A m \in conf :
    \/ creator[m] = "older"
    \/ \E p \in Polls : creator[m] = p /\ child[p][m].life = "freed"

DoneInv == \A p \in Polls : pc[p] = "ok" => Live(p) = {}

Types ==
  /\ pc \in [Polls -> {"idle", "asking", "waiting", "ok", "refused"}]
  /\ list \in [Polls -> SUBSET Machines]
  /\ count \in [Polls -> Nat]
  /\ child \in [Polls -> [Machines -> ChildSet]]
  /\ creator \in [Machines -> {"nobody", "older"} \cup Polls]
  /\ conf \subseteq Machines
  /\ up \in BOOLEAN

Inv ==
  /\ Types
  /\ ChildInv
  /\ ConfInv
  /\ DoneInv
  /\ CountIsChildren
  /\ NoStatistics

-----------------------------------------------------------------------------
(* One child.                                                                *)

LEMMA Callbacks ==
  /\ JobCb # <<>> /\ NullJobCb # <<>> /\ JobCb # NullJobCb
  /\ Head(JobCb) = "job" /\ Tail(JobCb) = <<>>
  /\ Head(NullJobCb) = "null" /\ Tail(NullJobCb) = JobCb
  /\ <<>> \o JobCb = JobCb /\ <<>> \o NullJobCb = NullJobCb
PROOF
<1>1. Head(JobCb) = "job" /\ Tail(JobCb) = <<>> /\ JobCb # <<>>
  BY DEF JobCb
<1>2. Head(NullJobCb) = "null" /\ Tail(NullJobCb) = JobCb /\ NullJobCb # <<>>
  BY DEF JobCb, NullJobCb
<1>3. JobCb # NullJobCb
  BY DEF JobCb, NullJobCb
<1>4. <<>> \o JobCb = JobCb /\ <<>> \o NullJobCb = NullJobCb
  BY DEF JobCb, NullJobCb
<1> QED BY <1>1, <1>2, <1>3, <1>4

LEMMA SendsChild ==
  ASSUME NEW b \in ChildSet, b.cbs = <<>>, b.q = {},
         NEW qs \in SUBSET Queries, NEW k \in {JobCb, NullJobCb}
  PROVE  LET d == Sends(b, qs, k)
         IN /\ d \in ChildSet /\ d.n = b.n /\ d.e = b.e /\ d.q = qs
            /\ d.dead = b.dead /\ d.job = b.job /\ d.ev = b.ev
            /\ d.stored = b.stored
            /\ b.e = OK => d.life = "live" /\ d.cbs = k
            /\ b.e # OK => d.life = "freed"
PROOF
<1>1. <<>> \o k = k
  BY Callbacks
<1> DEFINE d == Sends(b, qs, k)
<1>2. d = [b EXCEPT !.q = qs, !.cbs = IF b.e = OK THEN k ELSE <<>>,
                    !.life = IF b.e = OK THEN "live" ELSE "freed"]
  BY <1>1 DEF Sends, ChildSet
<1> HIDE DEF d
<1>3. /\ d \in ChildSet /\ d.n = b.n /\ d.e = b.e /\ d.q = qs
      /\ d.dead = b.dead /\ d.job = b.job /\ d.ev = b.ev /\ d.stored = b.stored
      /\ b.e = OK => d.life = "live" /\ d.cbs = k
      /\ b.e # OK => d.life = "freed"
  BY <1>2 DEF ChildSet
<1> QED BY <1>3 DEF d

(* A job leaves the child waiting, or freed; only its first run is made      *)
(* before the row.                                                           *)
LEMMA RunChild ==
  ASSUME NEW c \in ChildSet, Ready(c), c.life = "live", ~c.stored,
         NEW d \in vm_cb_update([c EXCEPT !.job = FALSE])
  PROVE  /\ d \in ChildSet /\ d.life \in {"live", "freed"} /\ Shape(d)
         /\ PastCreate(d) => c.n > 0
PROOF
<1> DEFINE b == [c EXCEPT !.job = FALSE]
<1>1. /\ b \in ChildSet /\ b.n = c.n /\ b.e = c.e /\ ~b.job /\ b.q = {}
      /\ b.cbs = <<>> /\ ~b.ev /\ ~b.dead /\ ~b.stored /\ b.life = "live"
  BY DEF ChildSet, Ready
<1>a. d \in vm_cb_update(b)
  OBVIOUS
<1>c. ST \subseteq Queries /\ OK # Unknown /\ OK # Exists
  BY DEF ST, Queries, OK, Unknown, Exists
<1> HIDE DEF b
<1>b. d = Out(b) =>
        /\ d \in ChildSet /\ d.life = "freed" /\ d.n = b.n /\ d.q = {}
        /\ ~d.job /\ ~d.stored
  BY <1>1 DEF Out, ChildSet
<1>2. CASE b.n = 0
  <2>1. d = Out(b) \/ d = Sends(b, {"createVM"}, JobCb)
    BY <1>a, <1>2 DEF vm_cb_update, JobCb
  <2>2. b.e = OK
    BY <1>1, <1>2 DEF Ready
  <2>3. CASE d = Out(b)
    BY <1>1, <1>b, <1>2, <2>3 DEF Shape, PastCreate
  <2>4. CASE d = Sends(b, {"createVM"}, JobCb)
    <3>1. /\ d \in ChildSet /\ d.n = 0 /\ d.e = OK /\ d.q = {"createVM"}
          /\ ~d.dead /\ ~d.job /\ ~d.ev /\ ~d.stored
          /\ d.life = "live" /\ d.cbs = JobCb
      BY <1>1, <1>2, <2>2, <2>4, SendsChild DEF Queries
    <3> QED BY <3>1 DEF Shape, Waiting, PastCreate
  <2> QED BY <2>1, <2>3, <2>4
<1>3. CASE b.n = 1 /\ b.e = Exists
  <2> DEFINE x == [b EXCEPT !.e = OK, !.n = 0]
  <2>1. d = Sends(x, ST, NullJobCb)
    BY <1>a, <1>3 DEF vm_cb_update, NullJobCb, ST
  <2>2. /\ x \in ChildSet /\ x.n = 0 /\ x.e = OK /\ x.q = {} /\ x.cbs = <<>>
        /\ ~x.dead /\ ~x.job /\ ~x.ev /\ ~x.stored
    <3>1. 0 \in 0..4
      OBVIOUS
    <3> QED BY <1>1, <3>1 DEF ChildSet
  <2> HIDE DEF x
  <2>3. /\ d \in ChildSet /\ d.n = 0 /\ d.e = OK /\ d.q = ST
        /\ ~d.dead /\ ~d.job /\ ~d.ev /\ ~d.stored
        /\ d.life = "live" /\ d.cbs = NullJobCb
    BY <1>c, <2>1, <2>2, SendsChild
  <2> QED BY <1>1, <1>3, <2>3 DEF Shape, Waiting
<1>4. CASE b.n = 1 /\ b.e # Exists
  <2>1. d = Out(b) \/ d = Sends(b, {"updateVMparentNode"}, JobCb)
    BY <1>a, <1>4 DEF vm_cb_update, JobCb
  <2>2. CASE d = Out(b)
    BY <1>1, <1>b, <1>4, <2>2 DEF Shape
  <2>3. CASE d = Sends(b, {"updateVMparentNode"}, JobCb)
    <3>1. /\ d \in ChildSet /\ d.n = 1 /\ d.e = b.e
          /\ d.q = {"updateVMparentNode"}
          /\ ~d.dead /\ ~d.job /\ ~d.ev /\ ~d.stored
          /\ b.e = OK => d.life = "live" /\ d.cbs = JobCb
          /\ b.e # OK => d.life = "freed"
      BY <1>1, <1>4, <2>3, SendsChild DEF Queries
    <3> QED BY <1>1, <1>4, <3>1 DEF Shape, Waiting
  <2> QED BY <2>1, <2>2, <2>3
<1>5. CASE b.n = 2
  <2> DEFINE x == [b EXCEPT !.e = OK]
  <2>1. d = Sends(x, {"isVmIgnored"}, JobCb)
    BY <1>a, <1>5 DEF vm_cb_update, JobCb
  <2>2. /\ x \in ChildSet /\ x.n = 2 /\ x.e = OK /\ x.q = {} /\ x.cbs = <<>>
        /\ ~x.dead /\ ~x.job /\ ~x.ev /\ ~x.stored
    BY <1>1, <1>5 DEF ChildSet
  <2> HIDE DEF x
  <2>3. /\ d \in ChildSet /\ d.n = 2 /\ d.e = OK /\ d.q = {"isVmIgnored"}
        /\ ~d.dead /\ ~d.job /\ ~d.ev /\ ~d.stored
        /\ d.life = "live" /\ d.cbs = JobCb
    BY <2>1, <2>2, SendsChild DEF Queries
  <2> QED BY <1>1, <1>5, <2>3 DEF Shape, Waiting
<1>6. CASE b.n = 3
  <2>1. d = Sends(b, {"getVM"}, JobCb)
    BY <1>a, <1>6 DEF vm_cb_update, JobCb
  <2>2. b.e = OK
    BY <1>1, <1>6 DEF Ready
  <2>3. /\ d \in ChildSet /\ d.n = 3 /\ d.e = OK /\ d.q = {"getVM"}
        /\ ~d.dead /\ ~d.job /\ ~d.ev /\ ~d.stored
        /\ d.life = "live" /\ d.cbs = JobCb
    BY <1>1, <1>6, <2>1, <2>2, SendsChild DEF Queries
  <2> QED BY <1>1, <1>6, <2>3 DEF Shape, Waiting
<1>7. CASE b.n = 4
  <2>1. d = Sends(b, {"updateVmConfig"}, JobCb)
    BY <1>a, <1>1, <1>7 DEF vm_cb_update, configure, JobCb
  <2>2. b.e # OK
    BY <1>1, <1>7, <1>c DEF Ready
  <2>3. /\ d \in ChildSet /\ d.n = 4 /\ d.q = {"updateVmConfig"} /\ ~d.job
        /\ d.life = "freed"
    BY <1>1, <1>7, <2>1, <2>2, SendsChild DEF Queries
  <2> QED BY <1>1, <1>7, <2>3 DEF Shape
<1> QED BY <1>1, <1>2, <1>3, <1>4, <1>5, <1>6, <1>7 DEF ChildSet

\* The errors of a reply when there is no configuration to be found.
ErrorOf(r, e) ==
  /\ r = "createVM" => e = Exists
  /\ r \in ST => e \in {OK, Unknown}
  /\ r = "getVM" => e = Unknown
  /\ r \notin ST \cup {"createVM", "getVM"} => e = OK

AfterReply(c, r, e) ==
  Takes([c EXCEPT !.q = @ \ {r}, !.e = IF @ = OK THEN e ELSE @,
                  !.stored = IF r = "getVM" THEN e = OK ELSE @])

(* A reply runs the callback it finds.                                       *)
LEMMA ReplyChild ==
  ASSUME NEW c \in ChildSet, c.life = "live", Shape(c), NEW r \in c.q,
         NEW e \in {OK, Exists, Unknown}, ErrorOf(r, e)
  PROVE  LET d == AfterReply(c, r, e)
         IN /\ d \in ChildSet /\ d.life = "live" /\ Shape(d)
            /\ PastCreate(d) => r = "createVM" \/ PastCreate(c)
PROOF
<1> DEFINE b == [c EXCEPT !.q = @ \ {r}, !.e = IF @ = OK THEN e ELSE @,
                          !.stored = IF r = "getVM" THEN e = OK ELSE @]
<1> DEFINE d == Takes(b)
<1> SUFFICES /\ d \in ChildSet /\ d.life = "live" /\ Shape(d)
             /\ PastCreate(d) => r = "createVM" \/ PastCreate(c)
  BY DEF AfterReply
<1>0. ~c.stored /\ c.q # {} /\ (Waiting(c) \/ Failed(c))
  BY DEF Shape, Ready
<1>1. /\ b \in ChildSet /\ b.n = c.n /\ b.job = c.job /\ b.q = c.q \ {r}
      /\ b.cbs = c.cbs /\ b.ev = c.ev /\ b.dead = c.dead /\ ~b.stored
      /\ b.life = "live" /\ b.e = IF c.e = OK THEN e ELSE c.e
  BY <1>0 DEF ChildSet, ErrorOf, ST, OK, Unknown, Exists, Queries
<1> HIDE DEF b
<1>2. /\ b.cbs = <<>> => d = b
      /\ b.cbs = NullJobCb => d = [b EXCEPT !.cbs = JobCb]
      /\ b.cbs = JobCb => d = [b EXCEPT !.cbs = <<>>, !.n = b.n + 1, !.job = TRUE]
  BY <1>1, Callbacks DEF Takes
<1> HIDE DEF d
<1>3. CASE Failed(c)
  <2>1. /\ c.n = 0 /\ c.cbs \in {<<>>, NullJobCb} /\ ~c.job /\ (c.ev \/ c.dead)
        /\ c.q = {r} /\ r \in ST
    BY <1>0, <1>3 DEF Failed
  <2>2. b.q = {}
    BY <1>1, <2>1
  <2>3. CASE c.cbs = <<>>
    BY <1>1, <1>2, <2>1, <2>2, <2>3 DEF Shape, Failed, PastCreate
  <2>4. CASE c.cbs = NullJobCb
    BY <1>1, <1>2, <2>1, <2>2, <2>4 DEF Shape, Failed, PastCreate, ChildSet
  <2> QED BY <2>1, <2>3, <2>4
<1>4. CASE Waiting(c) /\ c.cbs = NullJobCb
  <2>1. c.n = 0 /\ c.e = OK /\ c.q = ST /\ r \in ST
    BY <1>4, Callbacks DEF Waiting
  <2>2. \E s \in ST : b.q = {s}
    BY <1>1, <2>1 DEF ST
  <2>3. d = [b EXCEPT !.cbs = JobCb]
    BY <1>1, <1>2, <1>4
  <2>3a. b.e \in {OK, Unknown}
    BY <1>1, <2>1 DEF ErrorOf
  <2>4. d \in ChildSet /\ d.life = "live" /\ ~d.stored /\ Waiting(d)
    BY <1>1, <1>4, <2>1, <2>2, <2>3, <2>3a DEF ChildSet, Waiting
  <2>5. PastCreate(c)
    BY <2>1 DEF PastCreate, ST
  <2> QED BY <2>4, <2>5 DEF Shape
<1>5. CASE Waiting(c) /\ c.cbs = JobCb
  <2>1. d = [b EXCEPT !.cbs = <<>>, !.n = b.n + 1, !.job = TRUE]
    BY <1>1, <1>2, <1>5
  <2>2. c.q = {r} /\ c.n \in 0..3 /\ ~c.ev /\ ~c.dead
    BY <1>5, Callbacks DEF Waiting
  <2>3. /\ c.n = 3 => r = "getVM"
        /\ c.n = 2 => r = "isVmIgnored"
        /\ c.n = 1 => r = "updateVMparentNode"
        /\ c.n = 0 => r \in ST \cup {"createVM"}
        /\ c.n # 0 => c.e = OK
        /\ r = "createVM" => c.e = OK
        /\ r \in ST => c.e \in {OK, Unknown}
    <3>1. r \in c.q /\ (\A s : c.q = {s} => r = s)
      BY <2>2
    <3>2. c.n # 0 => c.e = OK /\ r \notin ST \cup {"createVM"}
      BY <1>5, <3>1, Callbacks DEF Waiting, ST
    <3>3. c.n = 0 => r \in ST \cup {"createVM"} /\ c.e \in {OK, Unknown}
                     /\ (r = "createVM" => c.e = OK)
      BY <1>5, <3>1, Callbacks DEF Waiting, ST
    <3>4. (c.n = 3 => r = "getVM") /\ (c.n = 2 => r = "isVmIgnored")
          /\ (c.n = 1 => r = "updateVMparentNode")
      BY <1>5, <3>1, Callbacks DEF Waiting
    <3> QED BY <3>2, <3>3, <3>4
  <2>4. d \in ChildSet /\ d.life = "live" /\ ~d.stored /\ d.q = {}
    <3>1. b.n + 1 \in 0..4 /\ b.q = {}
      BY <1>1, <2>2
    <3> QED BY <1>1, <2>1, <3>1 DEF ChildSet
  <2>5. Ready(d)
    BY <1>1, <2>1, <2>2, <2>3, <2>4
    DEF Ready, ErrorOf, ST, OK, Unknown, Exists, DbQuery, ChildSet
  <2>6. r = "createVM" \/ PastCreate(c)
    BY <2>2 DEF PastCreate
  <2> QED BY <2>4, <2>5, <2>6 DEF Shape
<1> QED BY <1>0, <1>3, <1>4, <1>5 DEF Waiting

LEMMA FailChild ==
  ASSUME NEW c \in ChildSet, c.life = "live", Shape(c), NEW r \in c.q
  PROVE  LET d == [c EXCEPT !.q = @ \ {r}, !.e = DbQuery, !.ev = TRUE]
         IN /\ d \in ChildSet /\ d.life = "live" /\ Shape(d)
            /\ PastCreate(d) => PastCreate(c)
PROOF
<1> DEFINE d == [c EXCEPT !.q = @ \ {r}, !.e = DbQuery, !.ev = TRUE]
<1> SUFFICES /\ d \in ChildSet /\ d.life = "live" /\ Shape(d)
             /\ PastCreate(d) => PastCreate(c)
  OBVIOUS
<1>1. /\ d \in ChildSet /\ d.n = c.n /\ d.job = c.job /\ d.q = c.q \ {r}
      /\ d.cbs = c.cbs /\ d.ev /\ d.stored = c.stored /\ d.life = "live"
  BY DEF ChildSet
<1> HIDE DEF d
<1>2. ~c.stored /\ (Waiting(c) \/ Failed(c)) /\ ~c.job
  BY DEF Shape, Ready, Waiting, Failed
<1>3. CASE Waiting(c) /\ c.cbs = NullJobCb
  <2>1. c.n = 0 /\ c.q = ST
    BY <1>3, Callbacks DEF Waiting
  <2>2. \E s \in ST : d.q = {s}
    BY <1>1, <2>1 DEF ST
  <2> QED BY <1>1, <1>2, <1>3, <2>1, <2>2 DEF Shape, Failed, PastCreate
<1>4. CASE Waiting(c) /\ c.cbs = JobCb
  <2>1. c.q = {r}
    BY <1>4, Callbacks DEF Waiting
  <2>2. d.q = {}
    BY <1>1, <2>1
  <2> QED BY <1>1, <1>2, <2>2 DEF Shape, Failed, PastCreate
<1>5. CASE Failed(c)
  <2>1. d.q = {}
    BY <1>1, <1>5 DEF Failed
  <2> QED BY <1>1, <1>2, <2>1 DEF Shape, Failed, PastCreate
<1> QED BY <1>2, <1>3, <1>4, <1>5 DEF Waiting

LEMMA ErrorChild ==
  ASSUME NEW c \in ChildSet, c.life = "live", Shape(c), c.ev
  PROVE  LET d == [c EXCEPT !.ev = FALSE, !.dead = TRUE, !.cbs = <<>>]
         IN /\ d \in ChildSet /\ d.life = "live" /\ Shape(d)
            /\ PastCreate(d) => PastCreate(c)
PROOF
<1> DEFINE d == [c EXCEPT !.ev = FALSE, !.dead = TRUE, !.cbs = <<>>]
<1> SUFFICES /\ d \in ChildSet /\ d.life = "live" /\ Shape(d)
             /\ PastCreate(d) => PastCreate(c)
  OBVIOUS
<1>1. /\ d \in ChildSet /\ d.n = c.n /\ d.job = c.job /\ d.q = c.q
      /\ d.cbs = <<>> /\ d.dead /\ d.stored = c.stored /\ d.life = "live"
  BY DEF ChildSet
<1> HIDE DEF d
<1>2. Failed(c) /\ ~c.stored
  BY DEF Shape, Ready, Waiting
<1>3. Failed(d)
  BY <1>1, <1>2 DEF Failed
<1> QED BY <1>1, <1>2, <1>3 DEF Shape, PastCreate

-----------------------------------------------------------------------------
(* The reports.                                                              *)

LEMMA LiveFinite ==
  ASSUME NEW p \in Polls
  PROVE  IsFiniteSet(Live(p)) /\ Cardinality(Live(p)) \in Nat
BY VmUpdateAssumption, FS_Subset, FS_CardinalityType DEF Live

LEMMA ChildTypes ==
  ASSUME Types, NEW p \in Polls, NEW m \in Machines
  PROVE  child[p][m] \in ChildSet
BY DEF Types

LEMMA NoChildShape ==
  /\ Child \in ChildSet /\ NoChild \in ChildSet
  /\ Child.life = "live" /\ NoChild.life = "none"
  /\ Shape(Child) /\ Shape(NoChild)
  /\ ~PastCreate(Child) /\ ~PastCreate(NoChild)
PROOF
<1>1. Child \in ChildSet
  BY DEF Child, ChildSet
<1>1a. NoChild \in ChildSet
  BY <1>1 DEF NoChild, ChildSet
<1>2. /\ Child.life = "live" /\ Child.n = 0 /\ Child.e = OK /\ Child.cbs = <<>>
      /\ ~Child.dead /\ Child.job /\ ~Child.ev /\ Child.q = {} /\ ~Child.stored
  BY DEF Child
<1>3. /\ NoChild.life = "none" /\ NoChild.n = 0 /\ NoChild.cbs = <<>>
      /\ ~NoChild.job /\ ~NoChild.ev /\ NoChild.q = {}
  BY DEF Child, NoChild
<1>4. OK # DbQuery
  BY DEF OK, DbQuery
<1>5. Shape(Child)
  BY <1>2, <1>4 DEF Shape, Ready
<1>6. Shape(NoChild)
  BY <1>3 DEF Shape
<1> QED BY <1>1, <1>1a, <1>2, <1>3, <1>5, <1>6 DEF PastCreate

LEMMA InitInv == Init => Inv
PROOF
<1> SUFFICES ASSUME Init PROVE Inv
  OBVIOUS
<1>1. \A p \in Polls, m \in Machines : child[p][m] = NoChild
  BY DEF Init
<1>2. Types
  BY NoChildShape DEF Init, Types
<1>3. ChildInv
  BY <1>1, NoChildShape DEF Init, ChildInv
<1>4. ConfInv
  BY DEF Init, ConfInv
<1>5. DoneInv /\ CountIsChildren /\ NoStatistics
  BY DEF Init, DoneInv, CountIsChildren, NoStatistics
<1> QED BY <1>2, <1>3, <1>4, <1>5 DEF Inv

(* A child that goes on, or leaves something in flight, changes no count.    *)
LEMMA KeepsInv ==
  ASSUME Inv, NEW p \in Polls, NEW m \in Machines, NEW d \in ChildSet,
         Shape(d), d.life = child[p][m].life, d.life # "none",
         child' = [child EXCEPT ![p][m] = d],
         PastCreate(d) => creator'[m] = p,
         UNCHANGED <<pc, list, count, stats>>,
         \/ UNCHANGED creator
         \/ creator[m] = "nobody" /\ creator' = [creator EXCEPT ![m] = p],
         \/ UNCHANGED conf
         \/ conf' = conf \cup {m} /\ creator'[m] = p /\ d.life = "freed",
         up' \in BOOLEAN
  PROVE  Inv'
PROOF
<1>1. /\ \A x \in Polls, y \in Machines : <<x, y>> # <<p, m>> =>
           child'[x][y] = child[x][y]
      /\ child'[p][m] = d
      /\ child' \in [Polls -> [Machines -> ChildSet]]
  BY DEF Inv, Types
<1>2. \A x \in Polls : Live(x)' = Live(x)
  BY <1>1 DEF Live
<1>3. Types'
  BY <1>1 DEF Inv, Types
<1>4. \A y \in Machines : creator[y] # "nobody" => creator'[y] = creator[y]
  BY DEF Inv, Types
<1>5. ChildInv'
  <2> SUFFICES ASSUME NEW x \in Polls, NEW y \in Machines
               PROVE  /\ Shape(child'[x][y])
                      /\ PastCreate(child'[x][y]) => creator'[y] = x
                      /\ child'[x][y].life # "none" <=>
                           (y \in list[x] /\ pc[x] \in {"waiting", "ok"})
    BY DEF ChildInv
  <2>1. CASE <<x, y>> = <<p, m>>
    BY <1>1, <2>1 DEF Inv, ChildInv
  <2>2. CASE <<x, y>> # <<p, m>>
    <3>1. x # "nobody"
      BY VmUpdateAssumption
    <3> QED BY <1>1, <1>4, <2>2, <3>1 DEF Inv, ChildInv
  <2> QED BY <2>1, <2>2
<1>6. ConfInv'
  <2> SUFFICES ASSUME NEW y \in conf'
               PROVE  \/ creator'[y] = "older"
                      \/ \E x \in Polls : creator'[y] = x /\ child'[x][y].life = "freed"
    BY DEF ConfInv
  <2>1. CASE y \in conf
    <3>1. y \in Machines
      BY <2>1 DEF Inv, Types
    <3>2. CASE creator[y] = "older"
      BY <1>4, <3>1, <3>2
    <3>3. CASE \E x \in Polls : creator[y] = x /\ child[x][y].life = "freed"
      <4>1. PICK x \in Polls : creator[y] = x /\ child[x][y].life = "freed"
        BY <3>3
      <4>2. x # "nobody"
        BY VmUpdateAssumption
      <4>3. child'[x][y].life = child[x][y].life
        BY <1>1, <3>1
      <4> QED BY <1>4, <3>1, <4>1, <4>2, <4>3
    <3> QED BY <2>1, <3>2, <3>3 DEF Inv, ConfInv
  <2>2. CASE y \notin conf
    BY <1>1, <2>2
  <2> QED BY <2>1, <2>2
<1>7. DoneInv' /\ CountIsChildren' /\ NoStatistics'
  BY <1>2 DEF Inv, DoneInv, CountIsChildren, NoStatistics
<1> QED BY <1>3, <1>5, <1>6, <1>7 DEF Inv

(* A child that leaves takes one from the count, and the last one answers.   *)
LEMMA LeavesInv ==
  ASSUME Inv, NEW p \in Polls, NEW m \in Machines, NEW d \in ChildSet,
         Shape(d), child[p][m].life = "live", d.life = "freed",
         child' = [child EXCEPT ![p][m] = d],
         PastCreate(d) => creator[m] = p,
         Leaves(p), UNCHANGED <<list, tables, up>>
  PROVE  /\ Inv'
         /\ Live(p)' = Live(p) \ {m}
         /\ \A x \in Polls \ {p} : Live(x)' = Live(x)
         /\ pc[p] = "waiting"
         /\ pc' = [pc EXCEPT ![p] = IF Live(p) = {m} THEN "ok" ELSE "waiting"]
PROOF
<1>1. /\ \A x \in Polls, y \in Machines : <<x, y>> # <<p, m>> =>
           child'[x][y] = child[x][y]
      /\ child'[p][m] = d
      /\ child' \in [Polls -> [Machines -> ChildSet]]
  BY DEF Inv, Types
<1>2. Live(p)' = Live(p) \ {m} /\ m \in Live(p)
  BY <1>1 DEF Live
<1>3. \A x \in Polls \ {p} : Live(x)' = Live(x)
  BY <1>1 DEF Live
<1>4. pc[p] = "waiting"
  BY <1>2 DEF Inv, ChildInv, DoneInv, Live
<1>5. count[p] = 5 + Cardinality(Live(p))
  BY <1>4 DEF Inv, CountIsChildren
<1>6. /\ Cardinality(Live(p) \ {m}) = Cardinality(Live(p)) - 1
      /\ Cardinality(Live(p)) \in Nat
      /\ Cardinality(Live(p)) = 1 <=> Live(p) = {m}
  <2>1. Cardinality(Live(p) \ {m}) = Cardinality(Live(p)) - 1
    BY <1>2, LiveFinite, FS_RemoveElement
  <2>2. IsFiniteSet(Live(p) \ {m})
    BY LiveFinite, FS_Subset
  <2>3. Cardinality(Live(p) \ {m}) = 0 <=> Live(p) \ {m} = {}
    BY <2>2, FS_EmptySet
  <2> QED BY <1>2, <2>1, <2>3, LiveFinite
<1>7. pc' = [pc EXCEPT ![p] = IF Live(p) = {m} THEN "ok" ELSE "waiting"]
  <2>1. count[p] - 1 = 5 <=> Live(p) = {m}
    BY <1>5, <1>6
  <2>2. pc = [pc EXCEPT ![p] = "waiting"]
    BY <1>4 DEF Inv, Types
  <2> QED BY <2>1, <2>2 DEF Leaves
<1>8. /\ pc' \in [Polls -> {"idle", "asking", "waiting", "ok", "refused"}]
      /\ \A x \in Polls \ {p} : pc'[x] = pc[x] /\ count'[x] = count[x]
      /\ pc'[p] = IF Live(p) = {m} THEN "ok" ELSE "waiting"
      /\ count'[p] = count[p] - 1
      /\ count' \in [Polls -> Nat]
  BY <1>5, <1>6, <1>7 DEF Leaves, Inv, Types
<1>9. Types'
  BY <1>1, <1>8 DEF Inv, Types, tables
<1>10. ChildInv'
  <2> SUFFICES ASSUME NEW x \in Polls, NEW y \in Machines
               PROVE  /\ Shape(child'[x][y])
                      /\ PastCreate(child'[x][y]) => creator[y] = x
                      /\ child'[x][y].life # "none" <=>
                           (y \in list[x] /\ pc'[x] \in {"waiting", "ok"})
    BY DEF ChildInv, tables
  <2>1. CASE <<x, y>> = <<p, m>>
    BY <1>1, <1>4, <1>8, <2>1 DEF Inv, ChildInv
  <2>2. CASE <<x, y>> # <<p, m>>
    BY <1>1, <1>4, <1>8, <2>2 DEF Inv, ChildInv
  <2> QED BY <2>1, <2>2
<1>11. ConfInv'
  <2>1. \A x \in Polls, y \in Machines :
          child[x][y].life = "freed" => child'[x][y].life = "freed"
    BY <1>1
  <2>2. conf \subseteq Machines /\ conf' = conf /\ creator' = creator
    BY DEF Inv, Types, tables
  <2>3. ConfInv
    BY DEF Inv
  <2> QED BY <2>1, <2>2, <2>3 DEF ConfInv
<1>12. DoneInv'
  BY <1>2, <1>3, <1>8 DEF Inv, DoneInv
<1>13. CountIsChildren'
  <2> SUFFICES ASSUME NEW x \in Polls, pc'[x] = "waiting"
               PROVE  count'[x] = 5 + Cardinality(Live(x)')
    BY DEF CountIsChildren, Live
  <2>1. CASE x = p
    <3>1. Cardinality(Live(x)') = Cardinality(Live(p)) - 1
      BY <1>2, <1>6, <2>1
    <3>2. count'[x] = count[p] - 1
      BY <1>8, <2>1
    <3>3. Cardinality(Live(p)) \in Nat /\ count[p] = 5 + Cardinality(Live(p))
      BY <1>5, <1>6
    <3> QED BY <3>1, <3>2, <3>3
  <2>2. CASE x # p
    <3>1. Live(x)' = Live(x)
      BY <1>3, <2>2
    <3>2. pc[x] = "waiting" /\ count'[x] = count[x]
      BY <1>8, <2>2
    <3>3. count[x] = 5 + Cardinality(Live(x))
      BY <3>2 DEF Inv, CountIsChildren
    <3> QED BY <3>1, <3>2, <3>3
  <2> QED BY <2>1, <2>2
<1> QED BY <1>2, <1>3, <1>4, <1>7, <1>9, <1>10, <1>11, <1>12, <1>13
        DEF Inv, NoStatistics, tables

-----------------------------------------------------------------------------
(* Every step keeps the invariant.                                           *)

LEMMA ReportInv ==
  ASSUME Inv, NEW p \in Polls, Report(p)
  PROVE  Inv' /\ \A x \in Polls : Live(x)' = Live(x)
PROOF
<1>1. \A x \in Polls : Live(x)' = Live(x)
  BY DEF Report, Live
<1>2. /\ pc' \in [Polls -> {"idle", "asking", "waiting", "ok", "refused"}]
      /\ \A x \in Polls \ {p} : pc'[x] = pc[x] /\ list'[x] = list[x]
      /\ pc[p] = "idle" /\ pc'[p] = "asking"
      /\ list' \in [Polls -> SUBSET Machines]
  BY DEF Report, Inv, Types
<1>3. Types'
  BY <1>2 DEF Report, Inv, Types, tables
<1>4. ChildInv'
  BY <1>2 DEF Report, Inv, ChildInv, tables
<1>5. ConfInv' /\ NoStatistics'
  BY DEF Report, Inv, ConfInv, NoStatistics, tables
<1>6. DoneInv' /\ CountIsChildren'
  BY <1>1, <1>2 DEF Report, Inv, DoneInv, CountIsChildren
<1> QED BY <1>1, <1>3, <1>4, <1>5, <1>6 DEF Inv

LEMMA RefusedInv ==
  ASSUME Inv, NEW p \in Polls, NodeRefused(p)
  PROVE  Inv' /\ \A x \in Polls : Live(x)' = Live(x)
PROOF
<1>1. \A x \in Polls : Live(x)' = Live(x)
  BY DEF NodeRefused, Live
<1>2. /\ pc' \in [Polls -> {"idle", "asking", "waiting", "ok", "refused"}]
      /\ \A x \in Polls \ {p} : pc'[x] = pc[x]
      /\ pc[p] = "asking" /\ pc'[p] = "refused"
  BY DEF NodeRefused, Inv, Types
<1>3. Types'
  BY <1>2 DEF NodeRefused, Inv, Types, tables
<1>4. ChildInv'
  BY <1>2 DEF NodeRefused, Inv, ChildInv, tables
<1>5. ConfInv' /\ NoStatistics'
  BY DEF NodeRefused, Inv, ConfInv, NoStatistics, tables
<1>6. DoneInv' /\ CountIsChildren'
  BY <1>1, <1>2 DEF NodeRefused, Inv, DoneInv, CountIsChildren
<1> QED BY <1>1, <1>3, <1>4, <1>5, <1>6 DEF Inv

LEMMA SplitInv ==
  ASSUME Inv, NEW p \in Polls, Split(p)
  PROVE  /\ Inv'
         /\ Live(p)' = list[p]
         /\ \A x \in Polls \ {p} : Live(x)' = Live(x)
PROOF
<1>1. /\ pc' \in [Polls -> {"idle", "asking", "waiting", "ok", "refused"}]
      /\ \A x \in Polls \ {p} :
           pc'[x] = pc[x] /\ child'[x] = child[x] /\ count'[x] = count[x]
      /\ pc[p] = "asking" /\ pc'[p] = "waiting"
      /\ count'[p] = 5 + Cardinality(list[p])
      /\ \A m \in Machines : child'[p][m] = IF m \in list[p] THEN Child ELSE NoChild
      /\ list[p] \subseteq Machines
  BY DEF Split, Inv, Types
<1>2. Live(p)' = list[p]
  BY <1>1, NoChildShape DEF Live
<1>3. \A x \in Polls \ {p} : Live(x)' = Live(x)
  BY <1>1 DEF Live
<1>4. IsFiniteSet(list[p]) /\ Cardinality(list[p]) \in Nat
  BY <1>1, VmUpdateAssumption, FS_Subset, FS_CardinalityType
<1>5. Types'
  <2>1. count' \in [Polls -> Nat]
    BY <1>4 DEF Split, Inv, Types
  <2>2. child' \in [Polls -> [Machines -> ChildSet]]
    BY NoChildShape DEF Split, Inv, Types
  <2> QED BY <1>1, <2>1, <2>2 DEF Split, Inv, Types, tables
<1>6. ChildInv'
  BY <1>1, NoChildShape DEF Split, Inv, ChildInv, tables
<1>7. ConfInv'
  <2>1. \A m \in Machines : child[p][m].life = "none"
    BY <1>1 DEF Inv, ChildInv
  <2>2. \A x \in Polls, m \in Machines :
          child[x][m].life = "freed" => child'[x][m].life = "freed"
    BY <1>1, <2>1
  <2>3. conf \subseteq Machines /\ conf' = conf /\ creator' = creator
    BY DEF Split, Inv, Types, tables
  <2> QED BY <2>2, <2>3 DEF Inv, ConfInv
<1>8. DoneInv'
  BY <1>1, <1>3 DEF Inv, DoneInv
<1>9. CountIsChildren'
  <2> SUFFICES ASSUME NEW x \in Polls, pc'[x] = "waiting"
               PROVE  count'[x] = 5 + Cardinality(Live(x)')
    BY DEF CountIsChildren, Live
  <2>1. CASE x = p
    BY <1>1, <1>2, <2>1
  <2>2. CASE x # p
    <3>1. Live(x)' = Live(x) /\ pc[x] = "waiting" /\ count'[x] = count[x]
      BY <1>1, <1>3, <2>2
    <3>2. count[x] = 5 + Cardinality(Live(x))
      BY <3>1 DEF Inv, CountIsChildren
    <3> QED BY <3>1, <3>2
  <2> QED BY <2>1, <2>2
<1> QED BY <1>2, <1>3, <1>5, <1>6, <1>7, <1>8, <1>9
        DEF Inv, Split, NoStatistics, tables

\* A step of one child's life other than its end.
Quiet(p, m) ==
  /\ UNCHANGED <<pc, list>>
  /\ \A x \in Polls : Live(x)' = Live(x)

LEMMA ChildKeeps ==
  ASSUME Inv, NEW p \in Polls, NEW m \in Machines, NEW d \in ChildSet,
         d.life = child[p][m].life,
         child' = [child EXCEPT ![p][m] = d]
  PROVE  \A x \in Polls : Live(x)' = Live(x)
PROOF
<1>1. /\ \A x \in Polls, y \in Machines : <<x, y>> # <<p, m>> =>
           child'[x][y] = child[x][y]
      /\ child'[p][m] = d
  BY DEF Inv, Types
<1> QED BY <1>1 DEF Live

LEMMA RunJobInv ==
  ASSUME Inv, NEW p \in Polls, NEW m \in Machines, RunJob(p, m)
  PROVE  /\ Inv'
         /\ \/ Quiet(p, m)
            \/ /\ UNCHANGED list
               /\ m \in Live(p) /\ Live(p)' = Live(p) \ {m}
               /\ \A x \in Polls \ {p} : Live(x)' = Live(x)
               /\ pc[p] = "waiting"
               /\ pc' = [pc EXCEPT ![p] = IF Live(p) = {m} THEN "ok" ELSE "waiting"]
PROOF
<1> DEFINE c == child[p][m]
<1>1. PICK d \in vm_cb_update([c EXCEPT !.job = FALSE]) :
        /\ child' = [child EXCEPT ![p][m] = d]
        /\ IF d.life = "freed" THEN Leaves(p) ELSE UNCHANGED <<count, pc>>
  BY DEF RunJob
<1>2. /\ c \in ChildSet /\ c.life = "live" /\ c.job /\ Shape(c)
      /\ UNCHANGED <<list, tables, up>>
  BY ChildTypes DEF RunJob, Inv, ChildInv
<1>3. ~c.stored /\ Ready(c)
  BY <1>2 DEF Shape, Waiting, Failed
<1> HIDE DEF c
<1>4. /\ d \in ChildSet /\ d.life \in {"live", "freed"} /\ Shape(d)
      /\ PastCreate(d) => c.n > 0
  BY <1>2, <1>3, RunChild
<1>5. PastCreate(d) => creator[m] = p
  BY <1>4 DEF Inv, ChildInv, PastCreate, c
<1>6. CASE d.life = "freed"
  BY <1>1, <1>2, <1>4, <1>5, <1>6, LeavesInv DEF c, Live
<1>7. CASE d.life = "live"
  <2>1. UNCHANGED <<pc, list, count, stats, creator, conf, up>>
    BY <1>1, <1>2, <1>7 DEF tables
  <2>2. Inv'
    BY <1>1, <1>2, <1>4, <1>5, <1>7, <2>1, KeepsInv DEF c, Inv, Types
  <2>3. Quiet(p, m)
    BY <1>1, <1>2, <1>4, <1>7, <2>1, ChildKeeps DEF Quiet, c
  <2> QED BY <2>2, <2>3
<1> QED BY <1>4, <1>6, <1>7

LEMMA ReplyInv ==
  ASSUME Inv, NEW p \in Polls, NEW m \in Machines, NEW r \in Queries,
         Reply(p, m, r)
  PROVE  Inv' /\ Quiet(p, m)
PROOF
<1> DEFINE c == child[p][m]
<1>1. PICK e \in Errors(m, r) :
        child' = [child EXCEPT ![p][m] = AfterReply(c, r, e)]
  BY DEF Reply, AfterReply
<1>2. /\ c \in ChildSet /\ c.life = "live" /\ r \in c.q /\ Shape(c)
      /\ PastCreate(c) => creator[m] = p
      /\ CanSucceed(m, r) /\ Changes(p, m, r) /\ UNCHANGED <<pc, list, count, up>>
  BY ChildTypes DEF Reply, Inv, ChildInv
<1>3. r \notin {"pruneVmStats", "updateVmStats", "updateVmConfig"}
  BY <1>2 DEF Shape, Ready, Waiting, Failed, ST
\* No configuration is there to be found.
<1>4. r # "createVM" => creator[m] = p
  BY <1>2 DEF PastCreate
<1>5. r = "getVM" => m \notin conf
  <2> SUFFICES ASSUME r = "getVM", m \in conf PROVE FALSE
    OBVIOUS
  <2>1. creator[m] = p /\ p # "older"
    BY <1>4, VmUpdateAssumption
  <2>2. PICK x \in Polls : creator[m] = x /\ child[x][m].life = "freed"
    BY <2>1 DEF Inv, ConfInv
  <2> QED BY <1>2, <2>1, <2>2
<1>6. ErrorOf(r, e) /\ e \in {OK, Exists, Unknown}
  BY <1>1, <1>5 DEF Errors, ErrorOf, ST
<1> HIDE DEF c
<1> DEFINE d == AfterReply(c, r, e)
<1>8. child' = [child EXCEPT ![p][m] = d]
  BY <1>1
<1>9. /\ d \in ChildSet /\ d.life = "live" /\ Shape(d)
      /\ PastCreate(d) => r = "createVM" \/ PastCreate(c)
  BY <1>2, <1>6, ReplyChild
<1> HIDE DEF d
<1>10. /\ UNCHANGED <<conf, stats>>
       /\ r = "createVM" => creator[m] = "nobody" /\ creator' = [creator EXCEPT ![m] = p]
       /\ r # "createVM" => UNCHANGED creator
  BY <1>2, <1>3 DEF Changes, CanSucceed
<1>11. PastCreate(d) => creator'[m] = p
  BY <1>2, <1>9, <1>10 DEF Inv, Types
<1>12. d.life = child[p][m].life
  BY <1>2, <1>9 DEF c
<1>13. Inv'
  BY <1>2, <1>8, <1>9, <1>10, <1>11, <1>12, KeepsInv DEF Inv, Types
<1> QED BY <1>2, <1>8, <1>9, <1>12, <1>13, ChildKeeps DEF Quiet

LEMMA FailsInv ==
  ASSUME Inv, NEW p \in Polls, NEW m \in Machines, NEW r \in Queries,
         QueryFails(p, m, r)
  PROVE  Inv' /\ Quiet(p, m)
PROOF
<1> DEFINE c == child[p][m]
           d == [c EXCEPT !.q = @ \ {r}, !.e = DbQuery, !.ev = TRUE]
<1>1. /\ c \in ChildSet /\ c.life = "live" /\ r \in c.q /\ Shape(c)
      /\ PastCreate(c) => creator[m] = p
      /\ UNCHANGED <<pc, list, count, tables, up>>
  BY ChildTypes DEF QueryFails, Inv, ChildInv
<1>2. child' = [child EXCEPT ![p][m] = d]
  BY DEF QueryFails, Inv, Types
<1> HIDE DEF c
<1>3. /\ d \in ChildSet /\ d.life = "live" /\ Shape(d)
      /\ PastCreate(d) => PastCreate(c)
  BY <1>1, FailChild
<1> HIDE DEF d
<1>4. d.life = child[p][m].life /\ (PastCreate(d) => creator'[m] = p)
  BY <1>1, <1>3 DEF c, tables
<1>5. Inv'
  BY <1>1, <1>2, <1>3, <1>4, KeepsInv DEF tables, Inv, Types
<1> QED BY <1>1, <1>2, <1>3, <1>4, <1>5, ChildKeeps DEF Quiet

LEMMA HandleErrorInv ==
  ASSUME Inv, NEW p \in Polls, NEW m \in Machines, HandleError(p, m)
  PROVE  Inv' /\ Quiet(p, m)
PROOF
<1> DEFINE c == child[p][m]
           d == [c EXCEPT !.ev = FALSE, !.dead = TRUE, !.cbs = <<>>]
<1>1. /\ c \in ChildSet /\ c.life = "live" /\ c.ev /\ Shape(c)
      /\ PastCreate(c) => creator[m] = p
      /\ UNCHANGED <<pc, list, count, tables, up>>
  BY ChildTypes DEF HandleError, Inv, ChildInv
<1>2. child' = [child EXCEPT ![p][m] = d]
  BY DEF HandleError, Inv, Types
<1> HIDE DEF c
<1>3. /\ d \in ChildSet /\ d.life = "live" /\ Shape(d)
      /\ PastCreate(d) => PastCreate(c)
  BY <1>1, ErrorChild
<1> HIDE DEF d
<1>4. d.life = child[p][m].life /\ (PastCreate(d) => creator'[m] = p)
  BY <1>1, <1>3 DEF c, tables
<1>5. Inv'
  BY <1>1, <1>2, <1>3, <1>4, KeepsInv DEF tables, Inv, Types
<1> QED BY <1>1, <1>2, <1>3, <1>4, <1>5, ChildKeeps DEF Quiet

LEMMA ReplyToFreedInv ==
  ASSUME Inv, NEW p \in Polls, NEW m \in Machines, NEW r \in Queries,
         ReplyToFreed(p, m, r)
  PROVE  Inv' /\ Quiet(p, m)
PROOF
<1> DEFINE c == child[p][m]
           d == [c EXCEPT !.q = @ \ {r}]
<1>1. /\ c \in ChildSet /\ c.life = "freed" /\ r \in c.q /\ Shape(c)
      /\ PastCreate(c) => creator[m] = p
      /\ Changes(p, m, r) /\ up' \in BOOLEAN /\ UNCHANGED <<pc, list, count>>
  BY ChildTypes DEF ReplyToFreed, Inv, ChildInv
<1>2. child' = [child EXCEPT ![p][m] = d]
  BY DEF ReplyToFreed, Inv, Types
<1> HIDE DEF c
<1>3. /\ d \in ChildSet /\ d.life = "freed" /\ d.n = c.n /\ d.q = c.q \ {r}
      /\ d.job = c.job
  BY <1>1 DEF ChildSet
<1>4. r \in {"updateVMparentNode", "updateVmConfig"} /\ creator[m] = p
  BY <1>1 DEF Shape, PastCreate
<1> HIDE DEF d
<1>5. Shape(d)
  BY <1>1, <1>3 DEF Shape
<1>6. /\ UNCHANGED <<stats, creator>>
      /\ conf' = conf \/ conf' = conf \cup {m}
  BY <1>1, <1>4 DEF Changes
<1>7. d.life = child[p][m].life
  BY <1>1, <1>3 DEF c
<1>8. Inv'
  BY <1>1, <1>2, <1>3, <1>4, <1>5, <1>6, <1>7, KeepsInv
<1> QED BY <1>1, <1>2, <1>3, <1>7, <1>8, ChildKeeps DEF Quiet

-----------------------------------------------------------------------------
(* The theorems.                                                             *)

LEMMA NextInv == Inv /\ [Next]_vars => Inv'
PROOF
<1> SUFFICES ASSUME Inv, [Next]_vars PROVE Inv'
  OBVIOUS
<1>1. CASE \E p \in Polls : Report(p)
  BY <1>1, ReportInv
<1>2. CASE \E p \in Polls : NodeRefused(p)
  BY <1>2, RefusedInv
<1>3. CASE \E p \in Polls : Split(p)
  BY <1>3, SplitInv
<1>4. CASE \E p \in Polls, m \in Machines : RunJob(p, m)
  BY <1>4, RunJobInv
<1>5. CASE \E p \in Polls, m \in Machines : HandleError(p, m)
  BY <1>5, HandleErrorInv
<1>6. CASE \E p \in Polls, m \in Machines, r \in Queries : Reply(p, m, r)
  BY <1>6, ReplyInv
<1>7. CASE \E p \in Polls, m \in Machines, r \in Queries : QueryFails(p, m, r)
  BY <1>7, FailsInv
<1>8. CASE \E p \in Polls, m \in Machines, r \in Queries : ReplyToFreed(p, m, r)
  BY <1>8, ReplyToFreedInv
<1>9. CASE UNCHANGED vars
  BY <1>9 DEF vars, tables, Inv, Types, ChildInv, ConfInv, DoneInv,
     CountIsChildren, NoStatistics, Live
<1> QED BY <1>1, <1>2, <1>3, <1>4, <1>5, <1>6, <1>7, <1>8, <1>9
        DEF Next, Answering, Working

LEMMA InvHolds == Spec => []Inv
PROOF
<1>1. Init => Inv
  BY InitInv
<1>2. Inv /\ [Next]_vars => Inv'
  BY NextInv
<1> QED BY <1>1, <1>2, PTL DEF Spec

(* Types, and that a child in the main loop has nothing else under way.      *)
THEOREM TypeCorrect == Spec => []TypeOK
PROOF
<1>1. Inv => TypeOK
  <2> SUFFICES ASSUME Inv PROVE TypeOK
    OBVIOUS
  <2>1. ASSUME NEW p \in Polls, NEW m \in Machines
        PROVE  LET c == child[p][m]
               IN /\ c.life \in {"none", "live", "freed"}
                  /\ c.n \in 0..4 /\ c.q \subseteq Queries
                  /\ c.cbs \in {<<>>, JobCb, NullJobCb}
                  /\ c.job => c.q = {} /\ c.cbs = <<>> /\ ~c.ev
    <3> DEFINE c == child[p][m]
    <3>1. c \in ChildSet /\ Shape(c)
      BY ChildTypes DEF Inv, ChildInv
    <3> HIDE DEF c
    <3>2. /\ c.life \in {"none", "live", "freed"}
          /\ c.n \in 0..4 /\ c.q \subseteq Queries
          /\ c.cbs \in {<<>>, JobCb, NullJobCb}
      BY <3>1 DEF ChildSet
    <3>3. c.job => c.q = {} /\ c.cbs = <<>> /\ ~c.ev
      BY <3>1, <3>2 DEF Shape, Ready, Waiting, Failed
    <3> QED BY <3>2, <3>3 DEF c
  <2>2. DOMAIN child = Polls /\ \A p \in Polls : DOMAIN child[p] = Machines
    BY DEF Inv, Types
  <2> QED BY <2>1, <2>2 DEF TypeOK, Inv, Types, JobCb, NullJobCb
<1> QED BY <1>1, InvHolds, PTL

(* The magic 5 of vm_cb_update and _updateVMs, for any number of machines    *)
(* and reports.                                                              *)
THEOREM CountsChildren == Spec => []CountIsChildren
PROOF
<1>1. Inv => CountIsChildren
  BY DEF Inv
<1> QED BY <1>1, InvHolds, PTL

(* updateVms stores no statistic, whatever is reported.                      *)
THEOREM NeverStatistics == Spec => []NoStatistics
PROOF
<1>1. Inv => NoStatistics
  BY DEF Inv
<1> QED BY <1>1, InvHolds, PTL

(* A report is answered only if it made the rows of its machines.            *)
THEOREM OkForStrangers == Spec => []OkOnlyAboutStrangers
PROOF
<1>1. Inv => OkOnlyAboutStrangers
  <2> SUFFICES ASSUME Inv, NEW p \in Polls, pc[p] = "ok", NEW m \in list[p]
               PROVE  child[p][m].life = "freed" /\ (creator[m] = p \/ child[p][m].n = 0)
    BY DEF OkOnlyAboutStrangers
  <2>1. m \in Machines
    BY DEF Inv, Types
  <2>2. child[p][m].life # "none" /\ child[p][m].life # "live"
    BY <2>1 DEF Inv, ChildInv, DoneInv, Live
  <2>3. child[p][m].life \in {"none", "live", "freed"} /\ child[p][m].n \in 0..4
    BY <2>1, ChildTypes DEF Inv, ChildSet
  <2>4. child[p][m].n > 0 => creator[m] = p
    BY <2>1 DEF Inv, ChildInv, PastCreate
  <2> QED BY <2>2, <2>3, <2>4
<1> QED BY <1>1, InvHolds, PTL

(* The two places where a context is freed under its query.                  *)
THEOREM FreedWhere == Spec => []FreedOnlyWhere
PROOF
<1>1. Inv => FreedOnlyWhere
  BY DEF Inv, ChildInv, Shape, FreedOnlyWhere
<1> QED BY <1>1, InvHolds, PTL

(* The reports and their children implement the join of VmJoin.              *)
THEOREM ImplementsJoin == Spec => JoinSpec
PROOF
<1> DEFINE w == [p \in Polls |-> Live(p)]
<1>1. Init => Join!Init
  BY NoChildShape DEF Init, Join!Init, phase, Live
<1>2. ASSUME Inv, [Next]_vars PROVE [Join!Next]_<<phase, w>>
  <2>1. ASSUME UNCHANGED <<pc, list>>, \A x \in Polls : Live(x)' = Live(x)
        PROVE  UNCHANGED <<phase, w>>
    BY <2>1 DEF phase
  <2>2. CASE \E p \in Polls : Report(p)
    <3>1. PICK p \in Polls : Report(p)
      BY <2>2
    <3>2. phase' = phase
      BY <3>1 DEF Report, phase, Inv, Types
    <3>3. w' = w
      BY <3>1, ReportInv, <1>2
    <3> QED BY <3>2, <3>3
  <2>3. CASE \E p \in Polls : NodeRefused(p)
    <3>1. PICK p \in Polls : NodeRefused(p)
      BY <2>3
    <3>2. phase[p] = "open" /\ phase' = [phase EXCEPT ![p] = "refused"]
      <4>1. /\ pc[p] = "asking" /\ pc'[p] = "refused"
            /\ \A x \in Polls \ {p} : pc'[x] = pc[x]
        BY <3>1, <1>2 DEF NodeRefused, Inv, Types
      <4>2. phase[p] = "open" /\ phase'[p] = "refused"
        BY <4>1 DEF phase
      <4>3. \A x \in Polls \ {p} : phase'[x] = phase[x]
        BY <4>1 DEF phase
      <4> QED BY <4>2, <4>3 DEF phase
    <3>3. w' = w
      BY <3>1, RefusedInv, <1>2
    <3> QED BY <3>1, <3>2, <3>3 DEF Join!Next, Join!Refuse
  <2>4. CASE \E p \in Polls : Split(p)
    <3>1. PICK p \in Polls : Split(p)
      BY <2>4
    <3>2. phase[p] = "open" /\ phase' = [phase EXCEPT ![p] = "split"]
      <4>1. /\ pc[p] = "asking" /\ pc'[p] = "waiting"
            /\ \A x \in Polls \ {p} : pc'[x] = pc[x]
        BY <3>1, <1>2 DEF Split, Inv, Types
      <4>2. phase[p] = "open" /\ phase'[p] = "split"
        BY <4>1 DEF phase
      <4>3. \A x \in Polls \ {p} : phase'[x] = phase[x]
        BY <4>1 DEF phase
      <4> QED BY <4>2, <4>3 DEF phase
    <3>3. list[p] \in SUBSET Machines /\ w' = [w EXCEPT ![p] = list[p]]
      BY <3>1, SplitInv, <1>2 DEF Inv, Types
    <3>4. Join!Split(p)
      BY <3>1, <3>2, <3>3 DEF Join!Split
    <3> QED BY <3>1, <3>4 DEF Join!Next
  <2>5. CASE \E p \in Polls, m \in Machines : RunJob(p, m)
    <3>1. PICK p \in Polls, m \in Machines : RunJob(p, m)
      BY <2>5
    <3>2. CASE Quiet(p, m)
      BY <2>1, <3>2 DEF Quiet
    <3>3. CASE /\ UNCHANGED list
               /\ m \in Live(p) /\ Live(p)' = Live(p) \ {m}
               /\ \A x \in Polls \ {p} : Live(x)' = Live(x)
               /\ pc[p] = "waiting"
               /\ pc' = [pc EXCEPT ![p] = IF Live(p) = {m} THEN "ok" ELSE "waiting"]
      <4>1. w' = [w EXCEPT ![p] = w[p] \ {m}] /\ m \in w[p]
        BY <3>3
      <4>2. phase[p] = "split"
        BY <3>3 DEF phase
      <4>3. phase' = [phase EXCEPT ![p] = IF w[p] = {m} THEN "ok" ELSE @]
        BY <3>3, <1>2 DEF phase, Inv, Types
      <4>4. Join!Leave(p)
        BY <4>1, <4>2, <4>3 DEF Join!Leave
      <4> QED BY <4>4 DEF Join!Next
    <3> QED BY <3>1, <3>2, <3>3, <1>2, RunJobInv
  <2>6. CASE \E p \in Polls, m \in Machines :
               \/ HandleError(p, m)
               \/ \E r \in Queries : Reply(p, m, r) \/ QueryFails(p, m, r)
                                     \/ ReplyToFreed(p, m, r)
    BY <2>1, <2>6, <1>2, HandleErrorInv, ReplyInv, FailsInv, ReplyToFreedInv
    DEF Quiet
  <2>7. CASE UNCHANGED vars
    BY <2>1, <2>7 DEF vars, Live
  <2> QED BY <2>2, <2>3, <2>4, <2>5, <2>6, <2>7, <1>2
          DEF Next, Answering, Working
<1> HIDE DEF w
<1> QED BY <1>1, <1>2, InvHolds, PTL DEF Spec, JoinSpec, Join!Spec, Join!vars, w
=============================================================================
