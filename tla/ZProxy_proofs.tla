---------------------------- MODULE ZProxy_proofs ----------------------------
(***************************************************************************)
(* Proofs about ZProxy: its type invariant and its five safety properties, *)
(* for any clients, any backend connections and any number of records.     *)
(*                                                                         *)
(* The pid file and the SSL objects need little more than themselves.      *)
(* What is delivered needs to know who talks to whom: an endpoint that     *)
(* waits (in the backlog, or connected and without a client) is fresh,     *)
(* and the current pair has talked to nobody else.                         *)
(***************************************************************************)
EXTENDS ZProxy, SequenceTheorems, TLAPS

Relaying == pc \in {"poll", "fromClient", "fromBackend"}
Up == {"open", "fin", "reset"}

\* Only SSL holds decrypted chunks, one at most, and takes whole records;
\* no more is read than was written.
Chunks ==
    \A e \in Endpoints :
        /\ sock[e] + pend[e] <= 2 * written[e]
        /\ IF ssl[SideOf(e)] THEN sock[e] % 2 = 0 /\ pend[e] <= 1 ELSE pend[e] = 0

\* The descriptors that proxy() has at each point of its loop.
Places ==
    /\ Relaying => client \in Clients /\ backend \in Backends
    /\ pc = "accept" => client = None /\ backend \in Backends
    /\ pc \in {"gone", "connect"} => client = None /\ backend = None
    /\ pc = "gone" => backlog = <<>>

\* Whoever is connected has not been closed by the proxy, and waits once.
Connections ==
    /\ \A e \in Endpoints : peer[e] \in {"fin", "reset"} => e \in left
    /\ Relaying => peer[client] \in Up
    /\ Relaying \/ pc = "accept" => peer[backend] \in Up
    /\ \A i \in DOMAIN backlog : peer[backlog[i]] \in Up
    /\ \A i, j \in DOMAIN backlog : backlog[i] = backlog[j] => i = j
    /\ Relaying => \A i \in DOMAIN backlog : backlog[i] # client

TypeInv == TypeOK /\ Chunks /\ Places /\ Connections

\* Some of what e received came from f.
Talk(e, f) == \E i \in DOMAIN got[e] : got[e][i][1] = f

\* Nothing came to e or from e.
Fresh(e) ==
    /\ got[e] = <<>> /\ pend[e] = 0 /\ sock[e] = 2 * written[e]
    /\ \A f \in Endpoints : ~Talk(f, e)

\* Whoever waits is fresh.
Waiting ==
    /\ \A e \in Endpoints : peer[e] = "new" => Fresh(e)
    /\ \A i \in DOMAIN backlog : Fresh(backlog[i])
    /\ pc = "accept" => Fresh(backend)

\* An endpoint talks to one other, and that one to it; the current pair
\* talks to itself.
Pairs ==
    /\ \A e, f, g \in Endpoints : Talk(e, f) /\ Talk(e, g) => f = g
    /\ \A e, f, g \in Endpoints : Talk(e, f) /\ Talk(f, g) => g = e
    /\ Relaying =>
         \A f \in Endpoints :
             /\ Talk(client, f) \/ Talk(f, client) => f = backend
             /\ Talk(backend, f) \/ Talk(f, backend) => f = client

\* What was read from one side has been delivered to the other.
Counts ==
    Relaying =>
        /\ peer[backend] = "open" => Len(got[backend]) = 2 * Taken(client)
        /\ peer[client] = "open" => Len(got[client]) = 2 * Taken(backend)

TrafficInv == Waiting /\ Pairs /\ Counts /\ InOrder

-----------------------------------------------------------------------------
(* What a step does to the traffic: one move for every way through the     *)
(* actions, without the SSL objects and the pid file.                      *)

Conns == [Sides -> {"null", "live", "freed"}]
Ways == {"never", "clean", "handshake", "detach", "killed"}

\* The types of what only the proxy itself looks at.
LocalTypes ==
    /\ pidfile \in BOOLEAN /\ freedTwice \in BOOLEAN
    /\ revents \subseteq Sides /\ conn \in Conns /\ ended \in Ways

\* One chunk of e was taken.
Reads(e) ==
    /\ sock' \in [Endpoints -> Nat] /\ pend' \in [Endpoints -> Nat]
    /\ written' = written
    /\ sock'[e] + pend'[e] = sock[e] + pend[e] - 1
    /\ \A f \in Endpoints : f # e => sock'[f] = sock[f] /\ pend'[f] = pend[f]
    /\ sock[e] + pend[e] > 0
    /\ Chunks'

Parties == <<client, backend, backlog, left>>

Starts == pc = "gone" /\ pc' \in {"gone", "connect"} /\ UNCHANGED <<traffic, Parties, peer>>
Connects ==
    /\ pc = "connect" /\ pc' = "accept"
    /\ backend' \in Backends /\ peer[backend'] = "new"
    /\ peer' = [peer EXCEPT ![backend'] = "open"]
    /\ UNCHANGED <<traffic, client, backlog, left>>
Accepts ==
    /\ pc = "accept" /\ pc' = "poll" /\ backlog # <<>>
    /\ client' = Head(backlog) /\ backlog' = Tail(backlog)
    /\ UNCHANGED <<traffic, backend, left, peer>>
Turns == Relaying /\ Relaying' /\ UNCHANGED <<traffic, Parties, peer>>
Relays(e, f) ==
    /\ Relaying /\ Relaying' /\ Reads(e) /\ Deliver(f, e) /\ UNCHANGED Parties
Restarts ==
    /\ Relaying /\ pc' = "connect" /\ client' = None /\ backend' = None
    /\ peer' = [peer EXCEPT ![client] = "closed", ![backend] = "closed"]
    /\ UNCHANGED <<traffic, backlog, left>>
Ends ==
    /\ pc # "gone" /\ pc' = "gone"
    /\ client' = None /\ backend' = None /\ backlog' = <<>>
    /\ peer' = [e \in Endpoints |-> IF peer[e] = "new" THEN "new" ELSE "closed"]
    /\ UNCHANGED <<left, got>>
    /\ \/ UNCHANGED traffic
       \/ Relaying /\ \E e \in {client, backend} : Reads(e)
Comes(c) ==
    /\ pc # "gone" /\ peer[c] = "new" /\ peer' = [peer EXCEPT ![c] = "open"]
    /\ backlog' = Append(backlog, c)
    /\ UNCHANGED <<traffic, pc, client, backend, left>>

Move ==
    \/ Starts \/ Connects \/ Accepts \/ Turns
    \/ Relays(client, backend) \/ Relays(backend, client)
    \/ Restarts \/ Ends
    \/ \E c \in Clients : Comes(c)
    \/ \E e \in Endpoints : (PeerWrites(e) \/ PeerLeaves(e)) /\ pc' = pc

\* How the process may end, with the objects c already freed.
Finish == pc' = "gone" /\ \E how \in Ways : Gone(how)

LEMMA TeardownType ==
    ASSUME NEW c \in Conns, NEW s \in Sides PROVE Teardown(c, s) \in Conns
BY DEF Teardown, Conns

LEMMA CleanupType == ASSUME NEW c \in Conns PROVE CleanupSsl(c) \in Conns
BY DEF CleanupSsl, Conns

\* Every way out ends in Gone, and leaves the pid file only as said in
\* PidfileTellsTruth.
LEMMA WaysOut ==
    ASSUME TypeOK, NEW c \in Conns,
           CleanupExit(c) \/ CleanupTwice(c) \/ HandshakeFails(c) \/ Killed
    PROVE  /\ Finish
           /\ LocalTypes'
           /\ pidfile' => ended' \in {"killed", "handshake", "detach"}
<1>1. CleanupSsl(c) \in Conns BY CleanupType
<1> DEFINE Out(d) == /\ Finish /\ LocalTypes'
                     /\ pidfile' => ended' \in {"killed", "handshake", "detach"}
<1>2. ASSUME NEW d \in Conns, CleanupExit(d) PROVE Out(d)
  <2>1. CleanupSsl(d) \in Conns BY CleanupType
  <2>2. CASE pidfile' = FALSE /\ Gone("clean")
    BY <1>2, <2>1, <2>2 DEF CleanupExit, Finish, Gone, LocalTypes, Ways, TypeOK
  <2>3. CASE UNCHANGED pidfile /\ Gone("killed")
    BY <1>2, <2>1, <2>3 DEF CleanupExit, Finish, Gone, LocalTypes, Ways, TypeOK
  <2> QED BY <1>2, <2>2, <2>3 DEF CleanupExit
<1>3. CASE CleanupExit(c) BY <1>2, <1>3
<1>4. CASE CleanupTwice(c)
  <2>1. CleanupExit(CleanupSsl(c)) \/ CleanupExit(c) BY <1>4 DEF CleanupTwice
  <2> HIDE DEF Out
  <2>2. Out(c) \/ Out(CleanupSsl(c)) BY <1>1, <1>2, <2>1
  <2> QED BY <2>2 DEF Out
<1>5. CASE HandshakeFails(c)
  BY <1>1, <1>5 DEF HandshakeFails, Finish, Gone, LocalTypes, Ways, TypeOK
<1>6. CASE Killed
  BY <1>6 DEF Killed, Finish, Gone, LocalTypes, Ways, TypeOK, Conns
<1> QED BY <1>3, <1>4, <1>5, <1>6

LEMMA NextOfUnused ==
    ASSUME NEW S, Unused(S) # {} PROVE NextOf(S) \in S /\ peer[NextOf(S)] = "new"
BY DEF NextOf, Unused

\* read() and SSL_read() take one chunk.
LEMMA ReadTakesOne ==
    ASSUME TypeOK, Chunks, NEW e \in Endpoints, HasData(e),
           Read(e, SideOf(e)), ssl' = ssl
    PROVE  Reads(e)
<1> USE DEF TypeOK
<1>0. SideOf(e) \in Sides BY DEF SideOf, Sides
<1>1. CASE ~ssl[SideOf(e)]
  <2>1. pend[e] = 0 /\ sock[e] > 0 BY <1>1 DEF Chunks, HasData
  <2>2. sock' = [sock EXCEPT ![e] = @ - 1] /\ pend' = pend /\ written' = written
    BY <1>1 DEF Read
  <2>3. sock'[e] = sock[e] - 1 /\ sock' \in [Endpoints -> Nat] BY <2>1, <2>2
  <2>4. \A f \in Endpoints : f # e => sock'[f] = sock[f] /\ pend'[f] = pend[f]
    BY <2>2
  <2>5. Chunks'
    <3>1. sock'[e] + pend'[e] <= 2 * written'[e] BY <2>1, <2>2, <2>3 DEF Chunks
    <3> QED BY <1>1, <2>1, <2>2, <2>3, <2>4, <3>1 DEF Chunks, SideOf
  <2> QED BY <2>1, <2>2, <2>3, <2>4, <2>5 DEF Reads
<1>2. CASE ssl[SideOf(e)] /\ pend[e] > 0
  <2>2. pend' = [pend EXCEPT ![e] = @ - 1] /\ sock' = sock /\ written' = written
    BY <1>2 DEF Read
  <2>3. pend'[e] = pend[e] - 1 /\ pend' \in [Endpoints -> Nat] BY <1>2, <2>2
  <2>4. Chunks'
    <3>1. sock'[e] + pend'[e] <= 2 * written'[e] /\ pend'[e] <= 1 /\ sock'[e] % 2 = 0
      BY <1>2, <2>2, <2>3 DEF Chunks
    <3>2. \A f \in Endpoints : f # e => pend'[f] = pend[f] BY <2>2
    <3> SUFFICES ASSUME NEW f \in Endpoints
                 PROVE  /\ sock'[f] + pend'[f] <= 2 * written'[f]
                        /\ IF ssl[SideOf(f)] THEN sock'[f] % 2 = 0 /\ pend'[f] <= 1
                           ELSE pend'[f] = 0
      BY DEF Chunks, SideOf
    <3>3. CASE f = e BY <1>2, <3>1, <3>3
    <3>4. CASE f # e BY <2>2, <3>2, <3>4 DEF Chunks
    <3> QED BY <3>3, <3>4
  <2> QED BY <1>2, <2>2, <2>3, <2>4 DEF Reads
<1>3. CASE ssl[SideOf(e)] /\ ~(pend[e] > 0)
  <2>1. pend[e] = 0 /\ sock[e] >= 2 BY <1>3 DEF Chunks, HasData
  <2>2. /\ sock' = [sock EXCEPT ![e] = @ - 2]
        /\ pend' = [pend EXCEPT ![e] = 1] /\ written' = written
    BY <1>3 DEF Read
  <2>3. /\ sock'[e] = sock[e] - 2 /\ sock' \in [Endpoints -> Nat]
        /\ pend'[e] = 1 /\ pend' \in [Endpoints -> Nat] BY <2>1, <2>2
  <2>4. \A f \in Endpoints : f # e => sock'[f] = sock[f] /\ pend'[f] = pend[f]
    BY <2>2
  <2>5. Chunks'
    <3>1. (sock[e] - 2) % 2 = 0 BY <1>3, <2>1 DEF Chunks
    <3>2. sock'[e] + pend'[e] <= 2 * written'[e] BY <2>1, <2>2, <2>3 DEF Chunks
    <3> SUFFICES ASSUME NEW f \in Endpoints
                 PROVE  /\ sock'[f] + pend'[f] <= 2 * written'[f]
                        /\ IF ssl[SideOf(f)] THEN sock'[f] % 2 = 0 /\ pend'[f] <= 1
                           ELSE pend'[f] = 0
      BY DEF Chunks, SideOf
    <3>3. CASE f = e BY <1>3, <2>3, <3>1, <3>2, <3>3
    <3>4. CASE f # e BY <2>2, <2>4, <3>4 DEF Chunks
    <3> QED BY <3>3, <3>4
  <2> QED BY <2>1, <2>2, <2>3, <2>4, <2>5 DEF Reads
<1> QED BY <1>1, <1>2, <1>3

\* The current pair is of two sides.
LEMMA PairTypes ==
    ASSUME TypeInv, Relaying
    PROVE  /\ client \in Endpoints /\ backend \in Endpoints /\ client # backend
           /\ client \in Clients /\ backend \in Backends
           /\ SideOf(client) = "front" /\ SideOf(backend) = "back"
BY ZProxyAssumption DEF TypeInv, Places, Endpoints, SideOf

\* What every step does to the rest of the state.
Kept == ssl' = ssl /\ pc' \in {"gone", "connect", "accept", "poll", "fromClient", "fromBackend"}
             /\ LocalTypes'

\* A way out of the loop or of its surroundings is an end.
LEMMA EndMoves ==
    ASSUME TypeInv, pc # "gone", Finish, LocalTypes',
           \/ UNCHANGED traffic
           \/ Relaying /\ got' = got /\ \E e \in {client, backend} : Reads(e)
    PROVE  Ends /\ Kept
BY DEF Ends, Kept, Finish, Gone, traffic

LEMMA RestartMoves ==
    ASSUME TypeInv, Relaying, NEW c \in Conns, Restart(c), UNCHANGED traffic
    PROVE  Restarts /\ Kept
BY DEF Restarts, Kept, Restart, TypeInv, TypeOK, LocalTypes, Ways, Sides

LEMMA StartMoves ==
    ASSUME TypeInv, Start PROVE Move /\ Kept
BY DEF TypeInv, TypeOK, Start, Move, Kept, Starts, Parties, LocalTypes, Ways, Conns

LEMMA ConnectBackendMoves ==
    ASSUME TypeInv, ConnectBackend PROVE Move /\ Kept
<1> USE DEF TypeInv, TypeOK
<1>0. conn \in Conns /\ pc = "connect" /\ UNCHANGED traffic BY DEF Conns, ConnectBackend
<1>1. CASE Unused(Backends) # {} /\ pc' = "accept"
  <2>1. NextOf(Backends) \in Backends /\ peer[NextOf(Backends)] = "new"
    BY <1>1, NextOfUnused
  <2>2. /\ backend' = NextOf(Backends)
        /\ peer' = [peer EXCEPT ![NextOf(Backends)] = "open"]
        /\ conn' = [conn EXCEPT !["back"] = IF ssl["back"] THEN "live" ELSE @]
        /\ UNCHANGED <<ssl, pidfile, client, revents, backlog, left, freedTwice, ended>>
    BY <1>0, <1>1 DEF ConnectBackend, HandshakeFails, CleanupExit, Gone
  <2>3. Connects BY <1>0, <1>1, <2>1, <2>2 DEF Connects
  <2>4. conn' \in Conns BY <1>0, <2>2 DEF Conns, Sides
  <2> QED BY <1>1, <2>2, <2>3, <2>4 DEF Move, Kept, LocalTypes, Ways
<1>2. CASE \E c \in Conns : CleanupExit(c) \/ HandshakeFails(c)
  BY <1>0, <1>2, WaysOut, EndMoves DEF Move
<1>3. \/ Unused(Backends) # {} /\ pc' = "accept"
      \/ HandshakeFails(Teardown(conn, "back"))
      \/ CleanupExit(conn)
  BY DEF ConnectBackend
<1>4. Teardown(conn, "back") \in Conns BY <1>0, TeardownType DEF Sides
<1> QED BY <1>0, <1>1, <1>2, <1>3, <1>4

LEMMA AcceptClientMoves ==
    ASSUME TypeInv, AcceptClient PROVE Move /\ Kept
<1> USE DEF TypeInv, TypeOK
<1> DEFINE again == ssl["front"] /\ conn["front"] = "freed"
           fresh == [conn EXCEPT !["front"] = IF ssl["front"] THEN "live" ELSE @]
<1>1. fresh \in Conns BY DEF Conns, Sides
<1>2. pc = "accept" /\ backlog # <<>> /\ UNCHANGED traffic BY DEF AcceptClient
<1>3. CASE /\ pc' = "poll" /\ client' = Head(backlog) /\ backlog' = Tail(backlog)
           /\ conn' = fresh /\ freedTwice' = (freedTwice \/ again)
           /\ UNCHANGED <<ssl, pidfile, backend, revents, peer, left, ended>>
  <2>1. Accepts BY <1>2, <1>3 DEF Accepts
  <2>2. Kept BY <1>1, <1>3 DEF Kept, LocalTypes, Ways
  <2> QED BY <2>1, <2>2 DEF Move
<1>4. CASE HandshakeFails(fresh)
  BY <1>1, <1>2, <1>4, WaysOut, EndMoves DEF Move
<1> QED BY <1>3, <1>4 DEF AcceptClient

LEMMA PollMoves ==
    ASSUME TypeInv, Poll PROVE Move /\ Kept
<1> USE DEF TypeInv, TypeOK
<1>0. conn \in Conns /\ Teardown(conn, "back") \in Conns
  BY TeardownType DEF Conns, Sides
<1>1. pc = "poll" /\ Relaying /\ UNCHANGED traffic BY DEF Poll, Relaying
<1>2. CASE CleanupTwice(Teardown(conn, "back"))
  BY <1>0, <1>1, <1>2, WaysOut, EndMoves DEF Move
<1>3. CASE Restart(conn) BY <1>0, <1>1, <1>3, RestartMoves DEF Move
<1>4. CASE /\ revents' = {s \in Sides : Readable(IF s = "front" THEN client ELSE backend)}
           /\ pc' = IF Readable(client) THEN "fromClient" ELSE "fromBackend"
           /\ UNCHANGED <<ssl, pidfile, client, backend, backlog, peer, left, ended>>
           /\ UNCHANGED heap
  BY <1>0, <1>1, <1>4 DEF Move, Kept, Turns, Relaying, LocalTypes, Ways, heap, Parties
<1> QED BY <1>2, <1>3, <1>4 DEF Poll, Serve

LEMMA FromClientMoves ==
    ASSUME TypeInv, FromClient PROVE Move /\ Kept
<1> USE DEF TypeInv, TypeOK
<1>0. conn \in Conns /\ pc = "fromClient" /\ Relaying BY DEF Conns, FromClient, Relaying
<1>1. client \in Endpoints /\ SideOf(client) = "front" BY <1>0, PairTypes
<1> DEFINE Sent == /\ Deliver(backend, client)
                   /\ pc' = IF "back" \in revents THEN "fromBackend" ELSE "poll"
                   /\ UNCHANGED <<ssl, pidfile, client, backend, revents, backlog, left, ended>>
                   /\ UNCHANGED heap
<1>2. CASE HasData(client) /\ Read(client, "front") /\ (Sent \/ (Killed /\ UNCHANGED got))
  <2>1. CASE Sent
    <3>1. Reads(client) BY <1>1, <1>2, <2>1, ReadTakesOne
    <3>2. Relays(client, backend) BY <1>0, <2>1, <3>1 DEF Relays, Relaying, Parties
    <3> QED BY <1>0, <2>1, <3>2 DEF Move, Kept, LocalTypes, Ways, heap
  <2>2. CASE Killed /\ UNCHANGED got
    <3>1. Reads(client)
      BY <1>1, <1>2, <2>2, ReadTakesOne DEF Killed, Gone
    <3> QED BY <1>0, <2>2, <3>1, WaysOut, EndMoves DEF Move
  <2> QED BY <1>2, <2>1, <2>2
<1>3. CASE Restart(conn) /\ UNCHANGED traffic BY <1>0, <1>3, RestartMoves DEF Move
<1>4. CASE (CleanupTwice(conn) \/ CleanupExit(conn)) /\ UNCHANGED traffic
  BY <1>0, <1>4, WaysOut, EndMoves DEF Move
<1> QED BY <1>2, <1>3, <1>4 DEF FromClient

LEMMA FromBackendMoves ==
    ASSUME TypeInv, FromBackend PROVE Move /\ Kept
<1> USE DEF TypeInv, TypeOK
<1>0. conn \in Conns /\ pc = "fromBackend" /\ Relaying BY DEF Conns, FromBackend, Relaying
<1>1. backend \in Endpoints /\ SideOf(backend) = "back" BY <1>0, PairTypes
<1> DEFINE Sent == /\ Deliver(client, backend) /\ pc' = "poll"
                   /\ UNCHANGED <<ssl, pidfile, client, backend, revents, backlog, left, ended>>
                   /\ UNCHANGED heap
           Lost == (Killed \/ CleanupTwice(conn) \/ CleanupExit(conn)) /\ UNCHANGED got
<1>2. CASE HasData(backend) /\ Read(backend, "back") /\ (Sent \/ Lost)
  <2>1. CASE Sent
    <3>1. Reads(backend) BY <1>1, <1>2, <2>1, ReadTakesOne
    <3>2. Relays(backend, client) BY <1>0, <2>1, <3>1 DEF Relays, Relaying, Parties
    <3> QED BY <1>0, <2>1, <3>2 DEF Move, Kept, LocalTypes, Ways, heap
  <2>2. CASE Lost
    <3>1. Finish /\ LocalTypes' BY <1>0, <2>2, WaysOut
    <3>2. Reads(backend)
      BY <1>1, <1>2, <3>1, ReadTakesOne DEF Finish, Gone
    <3> QED BY <1>0, <2>2, <3>1, <3>2, EndMoves DEF Move
  <2> QED BY <1>2, <2>1, <2>2
<1>3. CASE Restart(Teardown(Teardown(conn, "back"), "front")) /\ UNCHANGED traffic
  <2>1. Teardown(Teardown(conn, "back"), "front") \in Conns
    BY <1>0, TeardownType DEF Sides
  <2> QED BY <1>0, <1>3, <2>1, RestartMoves DEF Move
<1>4. CASE (CleanupTwice(conn) \/ CleanupExit(conn)) /\ UNCHANGED traffic
  BY <1>0, <1>4, WaysOut, EndMoves DEF Move
<1> QED BY <1>2, <1>3, <1>4 DEF FromBackend

LEMMA OthersMove ==
    ASSUME TypeInv,
           Terminate \/ Crash \/ ClientConnects
           \/ \E e \in Endpoints : PeerWrites(e) \/ PeerLeaves(e)
    PROVE  Move /\ Kept
<1> USE DEF TypeInv, TypeOK
<1>0. conn \in Conns BY DEF Conns
<1>1. CASE Terminate \/ Crash
  BY <1>0, <1>1, WaysOut, EndMoves DEF Move, Terminate, Crash
<1>2. CASE ClientConnects
  <2>1. NextOf(Clients) \in Clients /\ peer[NextOf(Clients)] = "new"
    BY <1>2, NextOfUnused DEF ClientConnects
  <2>2. Comes(NextOf(Clients))
    BY <1>2, <2>1 DEF ClientConnects, Comes, process
  <2> QED BY <1>0, <1>2, <2>1, <2>2 DEF Move, Kept, LocalTypes, Ways, ClientConnects, process, heap
<1>3. CASE \E e \in Endpoints : PeerWrites(e) \/ PeerLeaves(e)
  BY <1>0, <1>3 DEF Move, Kept, LocalTypes, Ways, PeerWrites, PeerLeaves, process, heap
<1> QED BY <1>1, <1>2, <1>3

\* Every step of the system is one of the moves.
LEMMA Moves == TypeInv /\ Next => Move /\ Kept
BY StartMoves, ConnectBackendMoves, AcceptClientMoves, PollMoves, FromClientMoves,
   FromBackendMoves, OthersMove DEF Next, ProxyStep

-----------------------------------------------------------------------------
(* The type invariant                                                      *)

\* What accept() takes is the first of the backlog, and the others move up.
LEMMA TailFacts ==
    ASSUME NEW S, NEW s \in Seq(S), s # <<>>
    PROVE  /\ Head(s) \in S /\ Tail(s) \in Seq(S)
           /\ 1 \in DOMAIN s /\ Head(s) = s[1]
           /\ \A i \in DOMAIN Tail(s) :
                 i \in Nat /\ i # 0 /\ i + 1 \in DOMAIN s /\ Tail(s)[i] = s[i + 1]
BY HeadTailProperties

LEMMA AppendFacts ==
    ASSUME NEW S, NEW s \in Seq(S), NEW x \in S
    PROVE  /\ Append(s, x) \in Seq(S) /\ Len(Append(s, x)) = Len(s) + 1
           /\ \A i \in DOMAIN Append(s, x) :
                 \/ i \in DOMAIN s /\ Append(s, x)[i] = s[i]
                 \/ i = Len(s) + 1 /\ i \notin DOMAIN s /\ Append(s, x)[i] = x
           /\ \A i \in DOMAIN s : i \in DOMAIN Append(s, x) /\ Append(s, x)[i] = s[i]
BY AppendProperties

DataTypes ==
    /\ client \in Clients \cup {None} /\ backend \in Backends \cup {None}
    /\ backlog \in Seq(Clients)
    /\ sock \in [Endpoints -> Nat] /\ pend \in [Endpoints -> Nat]
    /\ peer \in [Endpoints -> {"new", "open", "fin", "reset", "closed"}]
    /\ written \in [Endpoints -> 0..MaxRecords]
    /\ got \in [Endpoints -> Seq(Endpoints \X Nat)]
    /\ left \subseteq Endpoints

LEMMA TwoMore ==
    ASSUME NEW S, NEW s \in Seq(S), NEW x \in S, NEW y \in S
    PROVE  /\ s \o <<x, y>> \in Seq(S) /\ Len(s \o <<x, y>>) = Len(s) + 2
           /\ \A i \in DOMAIN (s \o <<x, y>>) :
                 \/ i \in DOMAIN s /\ (s \o <<x, y>>)[i] = s[i]
                 \/ i = Len(s) + 1 /\ (s \o <<x, y>>)[i] = x
                 \/ i = Len(s) + 2 /\ (s \o <<x, y>>)[i] = y
<1>1. <<x, y>> \in Seq(S) /\ Len(<<x, y>>) = 2 /\ <<x, y>>[1] = x /\ <<x, y>>[2] = y
  OBVIOUS
<1> DEFINE t == <<x, y>>
<1>2. t \in Seq(S) /\ Len(t) = 2 /\ t[1] = x /\ t[2] = y BY <1>1
<1> HIDE DEF t
<1>3. /\ s \o t \in Seq(S) /\ Len(s \o t) = Len(s) + 2
      /\ \A i \in 1..(Len(s) + 2) :
            (s \o t)[i] = IF i <= Len(s) THEN s[i] ELSE t[i - Len(s)]
  <2>1. /\ s \o t \in Seq(S) /\ Len(s \o t) = Len(s) + Len(t)
        /\ \A i \in 1 .. Len(s) + Len(t) :
              (s \o t)[i] = IF i <= Len(s) THEN s[i] ELSE t[i - Len(s)]
    BY <1>2, ConcatProperties
  <2> QED BY <1>2, <2>1
<1>4. DOMAIN (s \o t) = 1..(Len(s) + 2) /\ DOMAIN s = 1..Len(s) /\ Len(s) \in Nat
  BY <1>3, LenProperties
<1>5. \A i \in DOMAIN (s \o t) :
          \/ i \in DOMAIN s /\ (s \o t)[i] = s[i]
          \/ i = Len(s) + 1 /\ (s \o t)[i] = x
          \/ i = Len(s) + 2 /\ (s \o t)[i] = y
  BY <1>2, <1>3, <1>4
<1> QED BY <1>3, <1>5 DEF t

\* What is delivered are the two halves of the sender's next chunk, or its
\* first half twice; the receiver's connection goes on or is reset.
LEMMA DeliverTypes ==
    ASSUME TypeInv, NEW e \in Endpoints, NEW f \in Endpoints,
           sock[e] + pend[e] > 0, Deliver(f, e)
    PROVE  /\ Taken(e) \in Nat
           /\ got' \in [Endpoints -> Seq(Endpoints \X Nat)]
           /\ peer' \in [Endpoints -> {"new", "open", "fin", "reset", "closed"}]
           /\ peer[f] = "open" =>
                /\ Len(got'[f]) = Len(got[f]) + 2
                /\ \A i \in DOMAIN got'[f] :
                     \/ i \in DOMAIN got[f] /\ got'[f][i] = got[f][i]
                     \/ i = Len(got[f]) + 1 /\ got'[f][i] = <<e, 2 * Taken(e) + 1>>
                     \/ /\ i = Len(got[f]) + 2
                        /\ \/ got'[f][i] = <<e, 2 * Taken(e) + 2>>
                           \/ ~ssl[SideOf(f)] /\ got'[f][i] = <<e, 2 * Taken(e) + 1>>
           /\ peer[f] # "open" => got'[f] = got[f]
           /\ \A g \in Endpoints : g # f => got'[g] = got[g] /\ peer'[g] = peer[g]
           /\ peer'[f] = IF peer[f] = "fin" THEN "reset" ELSE peer[f]
<1> USE DEF TypeInv, TypeOK
<1>1. Taken(e) \in Nat
  <2>1. sock[e] \in Nat /\ pend[e] \in Nat /\ written[e] \in Nat
        /\ sock[e] + pend[e] <= 2 * written[e]
    BY ZProxyAssumption DEF Chunks
  <2> QED BY <2>1 DEF Taken
<1> DEFINE odd == 2 * Taken(e) + 1
           even == 2 * Taken(e) + 2
           halves == Endpoints \X Nat
<1>2. <<e, odd>> \in halves /\ <<e, even>> \in halves
  <2>1. odd \in Nat /\ even \in Nat BY <1>1
  <2> HIDE DEF odd, even
  <2> QED BY <2>1
<1>3. 2 * (Taken(e) + 1) - 1 = odd /\ 2 * (Taken(e) + 1) = even BY <1>1
<1>4. got[f] \in Seq(halves) OBVIOUS
<1>5. peer' = IF peer[f] = "fin" THEN [peer EXCEPT ![f] = "reset"] ELSE peer BY DEF Deliver
<1>6. CASE peer[f] # "open"
  <2>1. got' = got BY <1>6 DEF Deliver
  <2> QED BY <1>1, <1>5, <1>6, <2>1
<1>7. CASE peer[f] = "open"
  <2>1. PICK last \in {<<e, even>>, <<e, odd>>} :
            /\ last = <<e, odd>> => last = <<e, even>> \/ ~ssl[SideOf(f)]
            /\ got' = [got EXCEPT ![f] = @ \o <<<<e, odd>>, last>>]
    <3> HIDE DEF odd, even
    <3>1. PICK sent \in {Whole(e, Taken(e) + 1)}
                        \cup (IF ssl[SideOf(f)] THEN {} ELSE {Cut(e, Taken(e) + 1)}) :
              got' = [got EXCEPT ![f] = @ \o sent]
      BY <1>7 DEF Deliver
    <3>2. /\ Whole(e, Taken(e) + 1) = <<<<e, odd>>, <<e, even>>>>
          /\ Cut(e, Taken(e) + 1) = <<<<e, odd>>, <<e, odd>>>>
      BY <1>3 DEF Whole, Cut
    <3>3. CASE sent = <<<<e, odd>>, <<e, even>>>> BY <3>1, <3>3
    <3>4. CASE sent = <<<<e, odd>>, <<e, odd>>>> /\ ~ssl[SideOf(f)] BY <3>1, <3>4
    <3> QED BY <3>1, <3>2, <3>3, <3>4
  <2>2. last \in halves BY <1>2
  <2> DEFINE first == <<e, odd>>
  <2>3. first \in halves BY <1>2
  <2>4. got'[f] = got[f] \o <<first, last>> /\ \A g \in Endpoints : g # f => got'[g] = got[g]
    BY <2>1
  <2> HIDE DEF first, halves
  <2>5. /\ got'[f] \in Seq(halves) /\ Len(got'[f]) = Len(got[f]) + 2
        /\ \A i \in DOMAIN got'[f] :
              \/ i \in DOMAIN got[f] /\ got'[f][i] = got[f][i]
              \/ i = Len(got[f]) + 1 /\ got'[f][i] = first
              \/ i = Len(got[f]) + 2 /\ got'[f][i] = last
    <3> DEFINE long == got[f] \o <<first, last>>
    <3>1. /\ long \in Seq(halves) /\ Len(long) = Len(got[f]) + 2
          /\ \A i \in DOMAIN long :
                \/ i \in DOMAIN got[f] /\ long[i] = got[f][i]
                \/ i = Len(got[f]) + 1 /\ long[i] = first
                \/ i = Len(got[f]) + 2 /\ long[i] = last
      BY ONLY <1>4, <2>2, <2>3, TwoMore
    <3>2. got'[f] = long BY <2>4
    <3> HIDE DEF long
    <3> QED BY ONLY <3>1, <3>2
  <2>6. got' \in [Endpoints -> Seq(halves)]
    <3>1. got' = [got EXCEPT ![f] = got'[f]] BY <2>1
    <3> QED BY <2>5, <3>1 DEF halves
  <2> QED BY <1>1, <1>5, <1>7, <2>1, <2>4, <2>5, <2>6 DEF first, halves
<1> QED BY <1>6, <1>7

LEMMA DataTypesStep == TypeInv /\ Move => DataTypes'
<1> SUFFICES ASSUME TypeInv, Move PROVE DataTypes' OBVIOUS
<1> USE DEF TypeInv, TypeOK, DataTypes
<1>1. CASE Starts \/ Turns BY <1>1 DEF Starts, Turns, Parties, traffic
<1>2. CASE Connects BY <1>2 DEF Connects, traffic
<1>3. CASE Accepts BY <1>3, TailFacts DEF Accepts, traffic
<1>4. ASSUME NEW e \in Endpoints, NEW f \in Endpoints, Relays(e, f) PROVE DataTypes'
  <2>1. /\ got' \in [Endpoints -> Seq(Endpoints \X Nat)]
        /\ peer' \in [Endpoints -> {"new", "open", "fin", "reset", "closed"}]
    BY <1>4, DeliverTypes DEF Relays, Reads
  <2>2. /\ sock' \in [Endpoints -> Nat] /\ pend' \in [Endpoints -> Nat]
        /\ written' = written /\ UNCHANGED Parties
    BY <1>4 DEF Relays, Reads
  <2> QED BY <2>1, <2>2 DEF Parties
<1>5. CASE Relays(client, backend) \/ Relays(backend, client)
  BY <1>4, <1>5, PairTypes DEF Relays
<1>6. CASE Restarts BY <1>6 DEF Restarts, traffic
<1>7. CASE Ends BY <1>7 DEF Ends, Reads, traffic
<1>8. ASSUME NEW c \in Clients, Comes(c) PROVE DataTypes'
  <2>1. Append(backlog, c) \in Seq(Clients) BY AppendFacts
  <2> QED BY <1>8, <2>1 DEF Comes, traffic, Endpoints
<1>9. CASE \E e \in Endpoints : PeerWrites(e) \/ PeerLeaves(e)
  <2>1. PICK e \in Endpoints : PeerWrites(e) \/ PeerLeaves(e) BY <1>9
  <2>2. CASE PeerWrites(e)
    <3>1. written[e] + 1 \in 0..MaxRecords /\ sock[e] + 2 \in Nat
      BY <2>2, ZProxyAssumption DEF PeerWrites
    <3> QED BY <2>2, <3>1 DEF PeerWrites, process
  <2>3. CASE PeerLeaves(e) BY <2>3 DEF PeerLeaves, process, traffic
  <2> QED BY <2>1, <2>2, <2>3
<1> QED BY <1>1, <1>2, <1>3, <1>5, <1>6, <1>7, <1>8, <1>9 DEF Move

LEMMA ChunksStep == TypeInv /\ Move /\ ssl' = ssl => Chunks'
<1> SUFFICES ASSUME TypeInv, Move, ssl' = ssl PROVE Chunks' OBVIOUS
<1> USE DEF TypeInv, TypeOK
<1>1. CASE UNCHANGED traffic BY <1>1 DEF Chunks, traffic, SideOf
<1>2. CASE \E e \in Endpoints : Reads(e) BY <1>2 DEF Reads
<1>3. ASSUME NEW e \in Endpoints, PeerWrites(e) PROVE Chunks'
  <2>1. /\ written' = [written EXCEPT ![e] = @ + 1] /\ sock' = [sock EXCEPT ![e] = @ + 2]
        /\ pend' = pend
    BY <1>3 DEF PeerWrites
  <2> SUFFICES ASSUME NEW f \in Endpoints
               PROVE  /\ sock'[f] + pend'[f] <= 2 * written'[f]
                      /\ IF ssl[SideOf(f)] THEN sock'[f] % 2 = 0 /\ pend'[f] <= 1
                         ELSE pend'[f] = 0
    BY DEF Chunks, SideOf
  <2>2. /\ sock[f] + pend[f] <= 2 * written[f]
        /\ IF ssl[SideOf(f)] THEN sock[f] % 2 = 0 /\ pend[f] <= 1 ELSE pend[f] = 0
        /\ sock[f] \in Nat /\ pend[f] \in Nat /\ written[f] \in Nat
    BY ZProxyAssumption DEF Chunks
  <2>3. CASE f # e BY <2>1, <2>2, <2>3
  <2>4. CASE f = e
    <3>1. sock'[f] = sock[f] + 2 /\ written'[f] = written[f] + 1 /\ pend'[f] = pend[f]
      BY <2>1, <2>4
    <3>2. sock[f] % 2 = 0 => (sock[f] + 2) % 2 = 0 BY <2>2
    <3>3. sock[f] + 2 + pend[f] <= 2 * (written[f] + 1) BY <2>2
    <3>4. /\ ssl[SideOf(f)] => (sock[f] + 2) % 2 = 0 /\ pend[f] <= 1
          /\ ~ssl[SideOf(f)] => pend[f] = 0
      BY <2>2, <3>2
    <3> QED BY <3>1, <3>3, <3>4
  <2> QED BY <2>3, <2>4
<1>4. CASE \E e \in Endpoints : PeerLeaves(e)
  BY <1>1, <1>4 DEF PeerLeaves
<1>5. \/ UNCHANGED traffic \/ Relays(client, backend) \/ Relays(backend, client) \/ Ends
      \/ \E e \in Endpoints : PeerWrites(e) \/ PeerLeaves(e)
  BY DEF Move, Starts, Connects, Accepts, Turns, Restarts, Comes
<1>6. CASE Relays(client, backend) \/ Relays(backend, client)
  BY <1>2, <1>6, PairTypes DEF Relays
<1>7. CASE Ends BY <1>1, <1>2, <1>7, PairTypes DEF Ends
<1> QED BY <1>1, <1>3, <1>4, <1>5, <1>6, <1>7

LEMMA PlacesStep == TypeInv /\ Move => Places'
<1> SUFFICES ASSUME TypeInv, Move PROVE Places' OBVIOUS
<1> USE DEF TypeInv, TypeOK, Places, Relaying
<1>1. CASE Starts BY <1>1 DEF Starts, Parties
<1>2. CASE Connects BY <1>2 DEF Connects
<1>3. CASE Accepts BY <1>3, TailFacts DEF Accepts
<1>4. CASE Turns BY <1>4 DEF Turns, Parties
<1>5. CASE Relays(client, backend) \/ Relays(backend, client)
  BY <1>5 DEF Relays, Parties
<1>6. CASE Restarts BY <1>6 DEF Restarts
<1>7. CASE Ends BY <1>7 DEF Ends
<1>8. CASE \E c \in Clients : Comes(c) BY <1>8 DEF Comes
<1>9. CASE \E e \in Endpoints : (PeerWrites(e) \/ PeerLeaves(e)) /\ pc' = pc
  BY <1>9 DEF PeerWrites, PeerLeaves, process
<1> QED BY <1>1, <1>2, <1>3, <1>4, <1>5, <1>6, <1>7, <1>8, <1>9 DEF Move

LEMMA ConnectionsStep == TypeInv /\ Move => Connections'
<1> SUFFICES ASSUME TypeInv, Move PROVE Connections' OBVIOUS
<1> USE DEF TypeInv, TypeOK
<1>0. \A i \in DOMAIN backlog : backlog[i] \in Clients /\ backlog[i] \in Endpoints
  BY DEF Endpoints
<1>1. CASE Starts BY <1>1 DEF Starts, Parties, Connections, Relaying
<1>2. CASE Connects
  <2>1. /\ pc = "connect" /\ ~Relaying' /\ UNCHANGED <<client, backlog, left>>
        /\ backend' \in Backends /\ peer' = [peer EXCEPT ![backend'] = "open"]
    BY <1>2 DEF Connects, Relaying
  <2>2. backend' \in Endpoints /\ backend' \notin Clients BY <2>1, ZProxyAssumption DEF Endpoints
  <2>3. \A e \in Endpoints : peer'[e] = IF e = backend' THEN "open" ELSE peer[e] BY <2>1
  <2> QED BY <1>0, <2>1, <2>2, <2>3 DEF Connections, Up
<1>3. CASE Accepts
  <2>1. /\ Head(backlog) = backlog[1] /\ 1 \in DOMAIN backlog
        /\ \A i \in DOMAIN Tail(backlog) :
             /\ i \in Nat /\ i # 0
             /\ i + 1 \in DOMAIN backlog /\ Tail(backlog)[i] = backlog[i + 1]
    BY <1>3, TailFacts DEF Accepts
  <2> QED BY <1>3, <2>1 DEF Accepts, Connections, Relaying, Up
<1>4. CASE Turns BY <1>4 DEF Turns, Parties, Connections, Relaying
<1>5. ASSUME NEW e \in Endpoints, NEW f \in Endpoints, Relays(e, f) PROVE Connections'
  <2>1. /\ Relaying /\ Relaying' /\ UNCHANGED <<client, backend, backlog, left>>
        /\ sock[e] + pend[e] > 0 /\ Deliver(f, e)
    BY <1>5 DEF Relays, Reads, Parties
  <2>2. /\ \A g \in Endpoints : g # f => peer'[g] = peer[g]
        /\ peer'[f] = IF peer[f] = "fin" THEN "reset" ELSE peer[f]
    BY <2>1, DeliverTypes
  <2>3. /\ \A g \in Endpoints : peer[g] \in Up => peer'[g] \in Up
        /\ \A g \in Endpoints : peer'[g] \in {"fin", "reset"} => peer[g] \in {"fin", "reset"}
    BY <2>2 DEF Up
  <2>4. client \in Endpoints /\ backend \in Endpoints BY <2>1, PairTypes
  <2> QED BY <1>0, <2>1, <2>3, <2>4 DEF Connections
<1>6. CASE Restarts
  BY <1>0, <1>6, PairTypes, ZProxyAssumption DEF Restarts, Connections, Relaying, Up
<1>7. CASE Ends BY <1>7 DEF Ends, Connections, Relaying, Up
<1>8. ASSUME NEW c \in Clients, Comes(c) PROVE Connections'
  <2>1. \A i \in DOMAIN backlog' :
             \/ i \in DOMAIN backlog /\ backlog'[i] = backlog[i]
             \/ i = Len(backlog) + 1 /\ backlog'[i] = c
    BY <1>8, AppendFacts DEF Comes
  <2>2. \A i \in DOMAIN backlog : backlog[i] # c
    BY <1>8 DEF Comes, Connections, Up
  <2>3. \A e \in Endpoints : peer'[e] = IF e = c THEN "open" ELSE peer[e]
    BY <1>8 DEF Comes
  <2>4. Relaying' = Relaying /\ client' = client /\ backend' = backend /\ left' = left
        /\ pc' = pc
    BY <1>8 DEF Comes, Relaying
  <2>5. Relaying => client # c BY <1>8, PairTypes DEF Comes, Connections, Up
  <2>6. Relaying \/ pc = "accept" => backend # c /\ backend \in Endpoints
    BY ZProxyAssumption DEF Places, Endpoints
  <2>7. \A i, j \in DOMAIN backlog' : backlog'[i] = backlog'[j] => i = j
    BY <2>1, <2>2 DEF Connections
  <2>8. \A i \in DOMAIN backlog' : peer'[backlog'[i]] \in Up
    <3>1. c \in Endpoints BY DEF Endpoints
    <3> SUFFICES ASSUME NEW i \in DOMAIN backlog' PROVE peer'[backlog'[i]] \in Up OBVIOUS
    <3>2. CASE backlog'[i] = c BY <2>3, <3>1, <3>2 DEF Up
    <3>3. CASE i \in DOMAIN backlog /\ backlog'[i] = backlog[i]
      BY <1>0, <2>2, <2>3, <3>3 DEF Connections
    <3> QED BY <2>1, <3>2, <3>3
  <2>9. /\ \A e \in Endpoints : peer'[e] \in {"fin", "reset"} => e \in left'
        /\ Relaying' => peer'[client'] \in Up
        /\ (Relaying' \/ pc' = "accept") => peer'[backend'] \in Up
    BY <2>3, <2>4, <2>5, <2>6, PairTypes DEF Connections, Up
  <2>10. Relaying' => \A i \in DOMAIN backlog' : backlog'[i] # client'
    BY <2>1, <2>4, <2>5 DEF Connections
  <2> QED BY <2>7, <2>8, <2>9, <2>10 DEF Connections
<1>9. ASSUME NEW e \in Endpoints, PeerWrites(e) \/ PeerLeaves(e), pc' = pc
      PROVE  Connections'
  <2>1. CASE PeerWrites(e)
    BY <1>9, <2>1 DEF PeerWrites, process, Connections, Relaying
  <2>2. CASE PeerLeaves(e)
    BY <1>0, <1>9, <2>2, PairTypes
    DEF PeerLeaves, process, Connections, Relaying, Up, Places, Endpoints
  <2> QED BY <1>9, <2>1, <2>2
<1> QED BY <1>1, <1>2, <1>3, <1>4, <1>5, <1>6, <1>7, <1>8, <1>9, PairTypes DEF Move, Relays

LEMMA TypeInit == Init => TypeInv
<1> SUFFICES ASSUME Init PROVE TypeInv OBVIOUS
<1> USE DEF Init
<1>1. TypeOK
  <2>1. /\ client \in Clients \cup {None} /\ backend \in Backends \cup {None}
        /\ backlog \in Seq(Clients) /\ left \subseteq Endpoints
    OBVIOUS
  <2>2. /\ sock \in [Endpoints -> Nat] /\ pend \in [Endpoints -> Nat]
        /\ written \in [Endpoints -> 0..MaxRecords]
    BY ZProxyAssumption
  <2>3. got \in [Endpoints -> Seq(Endpoints \X Nat)] OBVIOUS
  <2>4. /\ ssl \in [Sides -> BOOLEAN] /\ revents \subseteq Sides
        /\ conn \in [Sides -> {"null", "live", "freed"}]
        /\ peer \in [Endpoints -> {"new", "open", "fin", "reset", "closed"}]
    OBVIOUS
  <2> QED BY <2>1, <2>2, <2>3, <2>4 DEF TypeOK
<1>2. Chunks BY DEF Chunks, SideOf
<1>3. Places BY DEF Places, Relaying
<1>4. Connections BY DEF Connections, Relaying
<1> QED BY <1>1, <1>2, <1>3, <1>4 DEF TypeInv

LEMMA TypeStep == TypeInv /\ [Next]_vars => TypeInv'
<1> SUFFICES ASSUME TypeInv, [Next]_vars PROVE TypeInv' OBVIOUS
<1>1. CASE Next
  <2>1. Move /\ Kept BY <1>1, Moves
  <2>2. DataTypes' /\ Chunks' /\ Places' /\ Connections'
    BY <2>1, DataTypesStep, ChunksStep, PlacesStep, ConnectionsStep DEF Kept
  <2>3. TypeOK'
    BY <2>1, <2>2 DEF TypeInv, TypeOK, DataTypes, Kept, LocalTypes, Conns, Ways
  <2> QED BY <2>2, <2>3 DEF TypeInv
<1>2. CASE UNCHANGED vars
  BY <1>2 DEF vars, TypeInv, TypeOK, Chunks, SideOf, Places, Connections, Relaying
<1> QED BY <1>1, <1>2

\* The relay's state has its types: at each point of the loop proxy() holds
\* the descriptors it uses, none of them closed, and an SSL object holds at
\* most the rest of one record.
THEOREM ZProxyTypes == Spec => []TypeInv
BY TypeInit, TypeStep, PTL DEF Spec

\* The same, as the run checks it.
THEOREM ZProxyTypeOK == Spec => []TypeOK
<1>1. TypeInv => TypeOK BY DEF TypeInv
<1> QED BY <1>1, ZProxyTypes, PTL

-----------------------------------------------------------------------------
(* The pid file and the SSL objects                                        *)

\* The object of the front is freed only when a backend has left.
FrontFreed == conn["front"] = "freed" \/ freedTwice
BackendLeft == ssl["front"] /\ left \cap Backends # {}
FreedWhenLeft == pc # "gone" /\ FrontFreed => BackendLeft

LocalInv == PidfileTellsTruth /\ FreedWhenLeft

\* A process that ends, and one that goes on.
EndsWell == pc' = "gone" /\ (pidfile' => ended' \in {"killed", "handshake", "detach"})
GoesOn ==
    /\ pc # "gone" /\ pc' # "gone" /\ pidfile' = pidfile
    /\ ssl' = ssl /\ left \subseteq left'
    /\ FrontFreed' => FrontFreed \/ BackendLeft

\* Every step of a process either ends it, as PidfileTellsTruth has it, or
\* leaves the pid file and frees the front's object only as said.
LEMMA ProcessGoesOnOrEnds ==
    ASSUME TypeInv, Next, pc # "gone" PROVE EndsWell \/ GoesOn
<1> USE DEF TypeInv, TypeOK
<1>0. conn \in Conns BY DEF Conns
<1>1. ASSUME NEW c \in Conns,
             CleanupExit(c) \/ CleanupTwice(c) \/ HandshakeFails(c) \/ Killed
      PROVE  EndsWell
  BY <1>1, WaysOut DEF Finish, Gone, EndsWell
<1>2. CASE ConnectBackend
  <2>1. Teardown(conn, "back") \in Conns BY <1>0, TeardownType DEF Sides
  <2>2. CASE HandshakeFails(Teardown(conn, "back")) \/ CleanupExit(conn)
    BY <1>0, <1>1, <2>1, <2>2
  <2>3. CASE /\ pc' = "accept"
             /\ conn' = [conn EXCEPT !["back"] = IF ssl["back"] THEN "live" ELSE @]
             /\ UNCHANGED <<ssl, pidfile, client, revents, backlog, left, freedTwice, ended>>
    BY <1>2, <2>3 DEF ConnectBackend, GoesOn, FrontFreed, Sides
  <2> QED BY <1>2, <2>2, <2>3 DEF ConnectBackend
<1>3. CASE AcceptClient
  <2> DEFINE again == ssl["front"] /\ conn["front"] = "freed"
             fresh == [conn EXCEPT !["front"] = IF ssl["front"] THEN "live" ELSE @]
  <2>1. fresh \in Conns BY DEF Conns, Sides
  <2>2. CASE HandshakeFails(fresh) BY <1>1, <2>1, <2>2
  <2>3. CASE /\ pc' = "poll" /\ conn' = fresh /\ freedTwice' = (freedTwice \/ again)
             /\ UNCHANGED <<ssl, pidfile, backend, revents, peer, left, ended>>
    BY <1>3, <2>3 DEF AcceptClient, GoesOn, FrontFreed, Sides
  <2> QED BY <1>3, <2>2, <2>3 DEF AcceptClient
<1>4. ASSUME NEW c \in Conns, Restart(c),
             c["front"] = "freed" => FrontFreed \/ BackendLeft
      PROVE  GoesOn
  BY <1>4 DEF Restart, GoesOn, FrontFreed
<1>5. ASSUME UNCHANGED <<ssl, pidfile, left>>, UNCHANGED heap, pc' # "gone" PROVE GoesOn
  BY <1>5 DEF heap, GoesOn, FrontFreed
<1>6. CASE Poll
  <2>1. Teardown(conn, "back") \in Conns BY <1>0, TeardownType DEF Sides
  <2>2. CASE CleanupTwice(Teardown(conn, "back")) BY <1>1, <2>1, <2>2
  <2>3. CASE Restart(conn) BY <1>0, <1>4, <2>3 DEF FrontFreed
  <2>4. CASE /\ pc' = IF Readable(client) THEN "fromClient" ELSE "fromBackend"
             /\ UNCHANGED <<ssl, pidfile, client, backend, backlog, peer, left, ended>>
             /\ UNCHANGED heap
    BY <1>5, <2>4
  <2> QED BY <1>6, <2>2, <2>3, <2>4 DEF Poll, Serve
<1>7. CASE FromClient
  <2>1. CASE /\ pc' = IF "back" \in revents THEN "fromBackend" ELSE "poll"
             /\ UNCHANGED <<ssl, pidfile, client, backend, revents, backlog, left, ended>>
             /\ UNCHANGED heap
    BY <1>5, <2>1
  <2>2. CASE Killed \/ CleanupTwice(conn) \/ CleanupExit(conn) BY <1>0, <1>1, <2>2
  <2>3. CASE Restart(conn) BY <1>0, <1>4, <2>3 DEF FrontFreed
  <2> QED BY <1>7, <2>1, <2>2, <2>3 DEF FromClient
<1>8. CASE FromBackend
  <2>1. CASE /\ pc' = "poll"
             /\ UNCHANGED <<ssl, pidfile, client, backend, revents, backlog, left, ended>>
             /\ UNCHANGED heap
    BY <1>5, <2>1
  <2>2. CASE Killed \/ CleanupTwice(conn) \/ CleanupExit(conn) BY <1>0, <1>1, <2>2
  <2>3. CASE /\ peer[backend] = "fin"
             /\ Restart(Teardown(Teardown(conn, "back"), "front"))
    <3>1. Teardown(Teardown(conn, "back"), "front") \in Conns
      BY <1>0, TeardownType DEF Sides
    <3>2. backend \in left /\ backend \in Backends
      BY <1>8, <2>3 DEF Connections, Places, Relaying, Endpoints, FromBackend
    <3>3. Teardown(Teardown(conn, "back"), "front")["front"] = "freed"
             => FrontFreed \/ BackendLeft
      BY <3>2 DEF Teardown, FrontFreed, BackendLeft, Sides
    <3> QED BY <1>4, <2>3, <3>1, <3>3
  <2> QED BY <1>8, <2>1, <2>2, <2>3 DEF FromBackend
<1>9. CASE Terminate \/ Crash BY <1>0, <1>1, <1>9 DEF Terminate, Crash
<1>10. CASE ClientConnects BY <1>5, <1>10 DEF ClientConnects, process
<1>11. CASE \E e \in Endpoints : PeerWrites(e) \/ PeerLeaves(e)
  BY <1>11 DEF PeerWrites, PeerLeaves, process, heap, GoesOn, FrontFreed
<1>12. ~Start BY DEF Start
<1> QED BY <1>2, <1>3, <1>6, <1>7, <1>8, <1>9, <1>10, <1>11, <1>12 DEF Next, ProxyStep

\* Between two processes: only a start can change anything.
LEMMA NoProcess ==
    ASSUME TypeInv, Next, pc = "gone"
    PROVE  \/ Start
           \/ UNCHANGED <<pc, pidfile, ended, conn, freedTwice>>
<1>1. ~ProxyStep /\ ~Terminate /\ ~Crash /\ ~ClientConnects
  BY DEF ProxyStep, ConnectBackend, AcceptClient, Poll, FromClient, FromBackend,
         Terminate, Crash, ClientConnects
<1> QED BY <1>1 DEF Next, PeerWrites, PeerLeaves, process, heap

LEMMA LocalInit == Init => LocalInv
BY DEF Init, LocalInv, PidfileTellsTruth, FreedWhenLeft

LEMMA LocalStep == TypeInv /\ LocalInv /\ [Next]_vars => LocalInv'
<1> SUFFICES ASSUME TypeInv, LocalInv, [Next]_vars PROVE LocalInv' OBVIOUS
<1> USE DEF LocalInv, PidfileTellsTruth, FreedWhenLeft
<1>1. CASE Next /\ pc # "gone"
  <2>1. CASE EndsWell BY <2>1 DEF EndsWell
  <2>2. CASE GoesOn BY <1>1, <2>2 DEF GoesOn, BackendLeft
  <2> QED BY <1>1, <2>1, <2>2, ProcessGoesOnOrEnds
<1>2. CASE Next /\ pc = "gone"
  <2>1. CASE Start
    BY <2>1 DEF Start, FrontFreed, Sides
  <2>2. CASE UNCHANGED <<pc, pidfile, ended, conn, freedTwice>>
    BY <1>2, <2>2
  <2> QED BY <1>2, <2>1, <2>2, NoProcess
<1>3. CASE UNCHANGED vars BY <1>3 DEF vars, FrontFreed, BackendLeft
<1> QED BY <1>1, <1>2, <1>3

\* The pid file that keeps zproxy from starting again is left behind only by
\* a process that was killed, whose handshake failed or that could not detach,
\* and is there as long as one runs: whatever clients and backends do.
THEOREM PidfileHolds == Spec => []PidfileTellsTruth
<1>1. LocalInv => PidfileTellsTruth BY DEF LocalInv
<1> QED BY <1>1, LocalInit, LocalStep, ZProxyTypes, PTL DEF Spec

\* No number of clients that come, write and leave makes a running proxy
\* free an SSL object twice, as long as the backends stay.
THEOREM ClientsDoNoHarmHolds == Spec => []ClientsDoNoHarm
<1>1. LocalInv => ClientsDoNoHarm
  BY DEF LocalInv, FreedWhenLeft, FrontFreed, BackendLeft, ClientsDoNoHarm
<1> QED BY <1>1, LocalInit, LocalStep, ZProxyTypes, PTL DEF Spec

-----------------------------------------------------------------------------
(* What is delivered                                                       *)

\* When nothing is delivered, everybody has talked to whom it had before.
LEMMA SilentTalk ==
    ASSUME got' = got, NEW e, NEW f PROVE Talk(e, f)' = Talk(e, f)
BY DEF Talk

\* A delivery makes its two ends talk, and nobody else.
LEMMA RelayTalk ==
    ASSUME TypeInv, NEW e \in Endpoints, NEW f \in Endpoints, Relays(e, f),
           NEW x \in Endpoints, NEW y \in Endpoints
    PROVE  Talk(x, y)' => Talk(x, y) \/ (x = f /\ y = e)
<1> SUFFICES ASSUME Talk(x, y)' PROVE Talk(x, y) \/ (x = f /\ y = e) OBVIOUS
<1>1. PICK i \in DOMAIN got'[x] : got'[x][i][1] = y BY DEF Talk
<1>3. CASE x # f \/ peer[f] # "open"
  <2>1. got'[x] = got[x] BY <1>3, DeliverTypes DEF Relays, Reads
  <2> QED BY <1>1, <2>1 DEF Talk
<1>4. CASE x = f /\ peer[f] = "open"
  <2>1. \/ i \in DOMAIN got[f] /\ got'[f][i] = got[f][i]
        \/ \E n \in Nat : got'[f][i] = <<e, n>>
    <3>1. /\ Taken(e) \in Nat
          /\ \/ i \in DOMAIN got[f] /\ got'[f][i] = got[f][i]
             \/ got'[f][i] = <<e, 2 * Taken(e) + 1>>
             \/ got'[f][i] = <<e, 2 * Taken(e) + 2>>
      BY <1>1, <1>4, DeliverTypes DEF Relays, Reads
    <3> QED BY <3>1
  <2> QED BY <1>1, <1>4, <2>1 DEF Talk
<1> QED BY <1>3, <1>4

\* The waiting stay fresh when somebody else is relayed.
LEMMA FreshStays ==
    ASSUME TypeInv, NEW x \in Endpoints, Fresh(x),
           \/ got' = got /\ sock'[x] = sock[x] /\ pend'[x] = pend[x]
              /\ written'[x] = written[x]
           \/ \E e, f \in Endpoints : Relays(e, f) /\ x # e /\ x # f
    PROVE  Fresh(x)'
<1>1. CASE got' = got /\ sock'[x] = sock[x] /\ pend'[x] = pend[x] /\ written'[x] = written[x]
  BY <1>1, SilentTalk DEF Fresh
<1>2. ASSUME NEW e \in Endpoints, NEW f \in Endpoints, Relays(e, f), x # e, x # f
      PROVE  Fresh(x)'
  <2>1. /\ got'[x] = got[x] /\ sock'[x] = sock[x] /\ pend'[x] = pend[x]
        /\ written'[x] = written[x]
    BY <1>2, DeliverTypes DEF Relays, Reads
  <2>2. \A g \in Endpoints : ~Talk(g, x)' BY <1>2, RelayTalk DEF Fresh
  <2> QED BY <2>1, <2>2 DEF Fresh
<1> QED BY <1>1, <1>2

\* Who is connected is not new; who is in the backlog is not being relayed.
LEMMA WaitingApart ==
    ASSUME TypeInv, Relaying
    PROVE  /\ \A x \in Endpoints : peer[x] = "new" => x # client /\ x # backend
           /\ \A i \in DOMAIN backlog :
                backlog[i] \in Endpoints /\ backlog[i] # client /\ backlog[i] # backend
<1>1. \A i \in DOMAIN backlog : backlog[i] \in Clients BY DEF TypeInv, TypeOK
<1> QED BY <1>1, ZProxyAssumption DEF TypeInv, Connections, Places, Up, Endpoints

LEMMA WaitingStep == TypeInv /\ Waiting /\ Move => Waiting'
<1> SUFFICES ASSUME TypeInv, Waiting, Move PROVE Waiting' OBVIOUS
<1> USE DEF TypeInv, TypeOK
<1>0. \A i \in DOMAIN backlog : backlog[i] \in Endpoints BY DEF Endpoints
<1>1. ASSUME UNCHANGED traffic, NEW x \in Endpoints, Fresh(x) PROVE Fresh(x)'
  BY <1>1, FreshStays DEF traffic
<1>2. CASE Starts \/ Turns
  BY <1>0, <1>1, <1>2 DEF Starts, Turns, Parties, Waiting, Relaying
<1>3. CASE Connects
  <2>1. backend' \in Endpoints /\ Fresh(backend') BY <1>3 DEF Connects, Waiting, Endpoints
  <2>2. \A e \in Endpoints : peer'[e] = "new" => peer[e] = "new" BY <1>3 DEF Connects
  <2>3. PICK b \in Endpoints : b = backend' /\ Fresh(b) BY <2>1
  <2>4. Fresh(b)' BY <1>1, <1>3, <2>3 DEF Connects
  <2>5. Fresh(backend)' BY <2>3, <2>4 DEF Fresh, Talk
  <2> QED BY <1>0, <1>1, <1>3, <2>2, <2>5 DEF Connects, Waiting
<1>4. CASE Accepts
  <2>1. \A i \in DOMAIN Tail(backlog) :
            i + 1 \in DOMAIN backlog /\ Tail(backlog)[i] = backlog[i + 1]
    BY <1>4, TailFacts DEF Accepts
  <2> QED BY <1>0, <1>1, <1>4, <2>1 DEF Accepts, Waiting
<1>5. ASSUME NEW e \in Endpoints, NEW f \in Endpoints, Relays(e, f),
             {e, f} = {client, backend}
      PROVE  Waiting'
  <2>1. \A x \in Endpoints : peer'[x] = "new" => peer[x] = "new"
    BY <1>5, DeliverTypes DEF Relays, Reads
  <2>2. \A x \in Endpoints : x # client /\ x # backend /\ Fresh(x) => Fresh(x)'
    BY <1>5, FreshStays
  <2>3. Relaying /\ Relaying' /\ backlog' = backlog BY <1>5 DEF Relays, Parties
  <2> QED BY <2>1, <2>2, <2>3, WaitingApart DEF Waiting, Relaying
<1>6. CASE Relays(client, backend) \/ Relays(backend, client)
  BY <1>5, <1>6, PairTypes DEF Relays
<1>7. CASE Restarts
  <2>1. \A x \in Endpoints : peer'[x] = "new" => peer[x] = "new" BY <1>7 DEF Restarts
  <2> QED BY <1>0, <1>1, <1>7, <2>1 DEF Restarts, Waiting
<1>8. CASE Ends
  <2>1. \A x \in Endpoints : peer'[x] = "new" => peer[x] = "new" BY <1>8 DEF Ends
  <2>2. CASE UNCHANGED traffic BY <1>1, <1>8, <2>1, <2>2 DEF Ends, Waiting
  <2>3. ASSUME Relaying, NEW e \in {client, backend}, Reads(e) PROVE Waiting'
    <3>1. \A x \in Endpoints : peer[x] = "new" => x # e BY <2>3, WaitingApart
    <3>2. \A x \in Endpoints : Fresh(x) /\ x # e => Fresh(x)'
      BY <1>8, <2>3, FreshStays DEF Reads, Ends
    <3> QED BY <1>8, <2>1, <3>1, <3>2 DEF Ends, Waiting
  <2> QED BY <1>8, <2>2, <2>3 DEF Ends
<1>9. ASSUME NEW c \in Clients, Comes(c) PROVE Waiting'
  <2>1. c \in Endpoints /\ Fresh(c) BY <1>9 DEF Comes, Waiting, Endpoints
  <2>2. \A i \in DOMAIN backlog' :
             \/ i \in DOMAIN backlog /\ backlog'[i] = backlog[i]
             \/ backlog'[i] = c
    BY <1>9, AppendFacts DEF Comes
  <2>3. \A x \in Endpoints : peer'[x] = "new" => peer[x] = "new" BY <1>9 DEF Comes
  <2>4. \A x \in Endpoints : Fresh(x) => Fresh(x)' BY <1>1, <1>9 DEF Comes
  <2>5. pc' = "accept" => backend' \in Endpoints /\ Fresh(backend)'
    BY <1>9, <2>4 DEF Comes, Waiting, Places, Endpoints
  <2> QED BY <1>0, <1>9, <2>1, <2>2, <2>3, <2>4, <2>5 DEF Comes, Waiting
<1>10. ASSUME NEW e \in Endpoints, PeerWrites(e) \/ PeerLeaves(e), pc' = pc
       PROVE  Waiting'
  <2>1. /\ UNCHANGED <<backlog, backend, got>>
        /\ \A x \in Endpoints : peer'[x] = "new" => peer[x] = "new"
    BY <1>10 DEF PeerWrites, PeerLeaves, process, traffic
  <2>2. \A x \in Endpoints : Fresh(x) => Fresh(x)'
    <3>1. CASE PeerLeaves(e) BY <1>1, <3>1 DEF PeerLeaves
    <3>2. ASSUME PeerWrites(e), NEW x \in Endpoints, Fresh(x) PROVE Fresh(x)'
      <4>1. CASE x # e BY <2>1, <3>2, <4>1, FreshStays DEF PeerWrites
      <4>2. CASE x = e
        <5>1. /\ sock'[x] = sock[x] + 2 /\ written'[x] = written[x] + 1
              /\ pend'[x] = pend[x] /\ got' = got
          BY <3>2, <4>2 DEF PeerWrites
        <5>2. sock[x] \in Nat /\ written[x] \in Nat BY ZProxyAssumption
        <5> QED BY <3>2, <5>1, <5>2, SilentTalk DEF Fresh
      <4> QED BY <4>1, <4>2
    <3> QED BY <1>10, <3>1, <3>2
  <2> QED BY <1>0, <1>10, <2>1, <2>2 DEF Waiting, Places, Endpoints
<1> QED BY <1>2, <1>3, <1>4, <1>6, <1>7, <1>8, <1>9, <1>10 DEF Move

LEMMA PairsStep == TypeInv /\ Waiting /\ Pairs /\ Move => Pairs'
<1> SUFFICES ASSUME TypeInv, Waiting, Pairs, Move PROVE Pairs' OBVIOUS
<1> DEFINE Alone(c, b) ==
        \A f \in Endpoints :
            /\ Talk(c, f) \/ Talk(f, c) => f = b
            /\ Talk(b, f) \/ Talk(f, b) => f = c
<1>1. ASSUME got' = got, ~Relaying' PROVE Pairs'
  BY <1>1, SilentTalk DEF Pairs
<1>2. CASE Starts \/ Connects \/ Restarts \/ Ends
  BY <1>1, <1>2 DEF Starts, Connects, Restarts, Ends, traffic, Relaying
<1>3. ASSUME got' = got, UNCHANGED <<pc, client, backend>> PROVE Pairs'
  BY <1>3, SilentTalk DEF Pairs, Relaying
<1>4. CASE \/ \E c \in Clients : Comes(c)
           \/ \E e \in Endpoints : (PeerWrites(e) \/ PeerLeaves(e)) /\ pc' = pc
  BY <1>3, <1>4 DEF Comes, PeerWrites, PeerLeaves, process, traffic
<1>5. CASE Turns
  BY <1>5, SilentTalk DEF Turns, Parties, traffic, Pairs
<1>6. CASE Accepts
  <2>1. client' = backlog[1] /\ 1 \in DOMAIN backlog
    BY <1>6, TailFacts DEF Accepts, TypeInv, TypeOK
  <2>2. Fresh(backlog[1]) /\ Fresh(backend) BY <1>6, <2>1 DEF Waiting, Accepts
  <2>3. \A f \in Endpoints : ~Talk(backlog[1], f) /\ ~Talk(f, backlog[1])
                             /\ ~Talk(backend, f) /\ ~Talk(f, backend)
    BY <2>2 DEF Fresh, Talk
  <2>4. got' = got /\ backend' = backend BY <1>6 DEF Accepts, traffic
  <2> QED BY <2>1, <2>3, <2>4 DEF Pairs, Talk
<1>7. ASSUME NEW e \in Endpoints, NEW f \in Endpoints, Relays(e, f), Relaying,
             \/ e = client /\ f = backend
             \/ e = backend /\ f = client
      PROVE  Pairs'
  <2>1. \A x, y \in Endpoints : Talk(x, y)' => Talk(x, y) \/ (x = f /\ y = e)
    BY <1>7, RelayTalk
  <2>2. Alone(e, f) BY <1>7 DEF Pairs
  <2>3. \A x, y, z \in Endpoints : Talk(x, y)' /\ Talk(x, z)' => y = z
    BY <2>1, <2>2 DEF Pairs
  <2>4. \A x, y, z \in Endpoints : Talk(x, y)' /\ Talk(y, z)' => z = x
    BY <2>1, <2>2 DEF Pairs
  <2>5. client' = client /\ backend' = backend /\ client \in Endpoints /\ backend \in Endpoints
    BY <1>7, PairTypes DEF Relays, Parties
  <2>6. \A g \in Endpoints : /\ Talk(e, g)' \/ Talk(g, e)' => g = f
                             /\ Talk(f, g)' \/ Talk(g, f)' => g = e
    BY <2>1, <2>2
  <2> QED BY <1>7, <2>3, <2>4, <2>5, <2>6 DEF Pairs, Talk
<1>8. CASE Relays(client, backend) \/ Relays(backend, client)
  BY <1>7, <1>8, PairTypes DEF Relays
<1> QED BY <1>2, <1>4, <1>5, <1>6, <1>8 DEF Move

LEMMA CountsStep == TypeInv /\ Waiting /\ Counts /\ Move => Counts'
<1> SUFFICES ASSUME TypeInv, Waiting, Counts, Move PROVE Counts' OBVIOUS
<1> USE DEF TypeInv, TypeOK
<1>1. ASSUME UNCHANGED <<traffic, client, backend>>, Relaying,
             \A e \in Endpoints : peer'[e] = "open" => peer[e] = "open"
      PROVE  Counts'
  BY <1>1, PairTypes DEF Counts, traffic, Taken
<1>2. CASE Starts \/ Connects \/ Restarts \/ Ends
  BY <1>2 DEF Starts, Connects, Restarts, Ends, Counts, Relaying
<1>3. CASE Turns BY <1>1, <1>3 DEF Turns, Parties
<1>4. CASE Accepts
  <2>1. client' = backlog[1] /\ 1 \in DOMAIN backlog BY <1>4, TailFacts DEF Accepts
  <2>2. /\ Fresh(backlog[1]) /\ Fresh(backend)
        /\ backlog[1] \in Endpoints /\ backend \in Endpoints
    BY <1>4, <2>1 DEF Waiting, Accepts, Places, Endpoints
  <2>3. \A e \in Endpoints : Fresh(e) => Len(got[e]) = 0 /\ 2 * Taken(e) = 0
    BY ZProxyAssumption DEF Fresh, Taken
  <2>4. UNCHANGED traffic /\ backend' = backend BY <1>4 DEF Accepts
  <2> QED BY <2>1, <2>2, <2>3, <2>4 DEF Counts, traffic, Taken
<1>5. ASSUME NEW e \in Endpoints, NEW f \in Endpoints, Relays(e, f), e # f,
             peer[f] = "open" => Len(got[f]) = 2 * Taken(e),
             peer[e] = "open" => Len(got[e]) = 2 * Taken(f)
      PROVE  /\ peer'[f] = "open" => Len(got'[f]) = 2 * Taken(e)'
             /\ peer'[e] = "open" => Len(got'[e]) = 2 * Taken(f)'
  <2>1. Taken(e)' = Taken(e) + 1
    <3>1. /\ sock[e] \in Nat /\ pend[e] \in Nat /\ written[e] \in Nat
          /\ sock'[e] \in Nat /\ pend'[e] \in Nat
          /\ sock'[e] + pend'[e] = sock[e] + pend[e] - 1 /\ written'[e] = written[e]
      BY <1>5, ZProxyAssumption DEF Relays, Reads
    <3> HIDE DEF TypeInv, TypeOK
    <3>2. 2 * written[e] - sock'[e] - pend'[e] = 2 * written[e] - sock[e] - pend[e] + 1
      BY <3>1
    <3> QED BY <3>1, <3>2 DEF Taken
  <2>2. Taken(f)' = Taken(f) BY <1>5 DEF Relays, Reads, Taken
  <2>3. /\ Taken(e) \in Nat
        /\ peer[f] = "open" => Len(got'[f]) = Len(got[f]) + 2
        /\ got'[e] = got[e] /\ peer'[e] = peer[e]
        /\ peer'[f] = IF peer[f] = "fin" THEN "reset" ELSE peer[f]
    BY <1>5, DeliverTypes DEF Relays, Reads
  <2> HIDE DEF TypeInv, TypeOK
  <2> QED BY <1>5, <2>1, <2>2, <2>3
<1>6. CASE Relays(client, backend) \/ Relays(backend, client)
  <2>1. Relaying /\ client' = client /\ backend' = backend BY <1>6 DEF Relays, Parties
  <2>2. client \in Endpoints /\ backend \in Endpoints /\ client # backend
    BY <2>1, PairTypes
  <2> QED BY <1>5, <1>6, <2>1, <2>2 DEF Counts, Taken
<1>7. CASE \E c \in Clients : Comes(c)
  <2>1. PICK c \in Clients : Comes(c) BY <1>7
  <2>2. Relaying => peer'[client] = peer[client] /\ peer'[backend] = peer[backend]
    BY <2>1, PairTypes, WaitingApart DEF Comes, Endpoints
  <2>3. /\ UNCHANGED <<sock, pend, written, got, client, backend>>
        /\ Relaying' = Relaying
    BY <2>1 DEF Comes, traffic, Relaying
  <2> QED BY <2>2, <2>3 DEF Counts, Taken
<1>8. ASSUME NEW e \in Endpoints, PeerWrites(e) \/ PeerLeaves(e), pc' = pc
      PROVE  Counts'
  <2>1. CASE PeerLeaves(e)
    BY <1>1, <1>8, <2>1 DEF PeerLeaves, process, Counts, Relaying
  <2>2. CASE PeerWrites(e)
    <3>1. \A x \in Endpoints : Taken(x)' = Taken(x)
      <4> SUFFICES ASSUME NEW x \in Endpoints PROVE Taken(x)' = Taken(x) OBVIOUS
      <4>1. sock[x] \in Nat /\ written[x] \in Nat /\ pend[x] \in Nat BY ZProxyAssumption
      <4>2. CASE x = e
        <5>1. sock'[x] = sock[x] + 2 /\ written'[x] = written[x] + 1 /\ pend'[x] = pend[x]
          BY <2>2, <4>2 DEF PeerWrites
        <5> QED BY <4>1, <5>1 DEF Taken
      <4>3. CASE x # e BY <2>2, <4>3 DEF PeerWrites, Taken
      <4> QED BY <4>2, <4>3
    <3>2. UNCHANGED <<client, backend, got, peer>> BY <2>2 DEF PeerWrites, process
    <3>3. Relaying' = Relaying BY <1>8 DEF Relaying
    <3> QED BY <3>1, <3>2, <3>3, PairTypes DEF Counts, Taken
  <2> QED BY <1>8, <2>1, <2>2
<1> QED BY <1>2, <1>3, <1>4, <1>6, <1>7, <1>8 DEF Move

LEMMA InOrderStep == TypeInv /\ Counts /\ InOrder /\ Move /\ ssl' = ssl => InOrder'
<1> SUFFICES ASSUME TypeInv, Counts, InOrder, Move, ssl' = ssl PROVE InOrder' OBVIOUS
<1> USE DEF TypeInv, TypeOK
<1> DEFINE Placed(x, i) == \/ got'[x][i][2] = i
                           \/ ~ssl[SideOf(x)] /\ i % 2 = 0 /\ got'[x][i][2] = i - 1
<1>0. ASSUME \A x \in Endpoints : \A i \in DOMAIN got'[x] : Placed(x, i) PROVE InOrder'
  BY <1>0 DEF InOrder, SideOf
<1>1. CASE got' = got BY <1>0, <1>1 DEF InOrder
<1>2. ASSUME NEW e \in Endpoints, NEW f \in Endpoints, Relays(e, f),
             peer[f] = "open" => Len(got[f]) = 2 * Taken(e)
      PROVE  InOrder'
  <2>0. ASSUME NEW x \in Endpoints, got'[x] = got[x], NEW i \in DOMAIN got'[x]
        PROVE  Placed(x, i)
    BY <2>0 DEF InOrder
  <2>1. \A x \in Endpoints : x # f => got'[x] = got[x]
    BY <1>2, DeliverTypes DEF Relays, Reads
  <2>2. CASE peer[f] # "open"
    <3>1. got'[f] = got[f] BY <1>2, <2>2, DeliverTypes DEF Relays, Reads
    <3>2. \A x \in Endpoints : got'[x] = got[x] BY <2>1, <3>1
    <3> HIDE DEF Placed
    <3> QED BY <1>0, <2>0, <3>2
  <2>3. CASE peer[f] = "open"
    <3>1. Taken(e) \in Nat /\ Len(got[f]) = 2 * Taken(e) /\ SideOf(f) \in Sides
      BY <1>2, <2>3, DeliverTypes DEF Relays, Reads, SideOf, Sides
    <3> SUFFICES ASSUME NEW i \in DOMAIN got'[f] PROVE Placed(f, i)
      <4> HIDE DEF Placed
      <4> QED BY <1>0, <2>0, <2>1
    <3>2. CASE i \in DOMAIN got[f] /\ got'[f][i] = got[f][i] BY <3>2 DEF InOrder
    <3>3. CASE i = Len(got[f]) + 1 /\ got'[f][i] = <<e, 2 * Taken(e) + 1>>
      <4>1. got'[f][i][2] = 2 * Taken(e) + 1 BY <3>3
      <4> QED BY <3>1, <3>3, <4>1
    <3>4. CASE /\ i = Len(got[f]) + 2
               /\ \/ got'[f][i] = <<e, 2 * Taken(e) + 2>>
                  \/ ~ssl[SideOf(f)] /\ got'[f][i] = <<e, 2 * Taken(e) + 1>>
      <4>1. \/ got'[f][i][2] = 2 * Taken(e) + 2
            \/ ~ssl[SideOf(f)] /\ got'[f][i][2] = 2 * Taken(e) + 1
        BY <3>4
      <4>2. (2 * Taken(e) + 2) % 2 = 0 BY <3>1
      <4>3. i = 2 * Taken(e) + 2 /\ 2 * Taken(e) + 1 = i - 1 BY <3>1, <3>4
      <4> HIDE DEF Taken
      <4> QED BY <4>1, <4>2, <4>3
    <3> HIDE DEF Placed
    <3>5. \/ i \in DOMAIN got[f] /\ got'[f][i] = got[f][i]
          \/ i = Len(got[f]) + 1 /\ got'[f][i] = <<e, 2 * Taken(e) + 1>>
          \/ /\ i = Len(got[f]) + 2
             /\ \/ got'[f][i] = <<e, 2 * Taken(e) + 2>>
                \/ ~ssl[SideOf(f)] /\ got'[f][i] = <<e, 2 * Taken(e) + 1>>
      BY <1>2, <2>3, DeliverTypes DEF Relays, Reads
    <3> QED BY <3>2, <3>3, <3>4, <3>5
  <2> QED BY <2>2, <2>3
<1>3. CASE Relays(client, backend) \/ Relays(backend, client)
  <2>1. Relaying BY <1>3 DEF Relays
  <2> QED BY <1>2, <1>3, <2>1, PairTypes DEF Counts
<1>4. got' = got \/ Relays(client, backend) \/ Relays(backend, client)
  BY DEF Move, Starts, Connects, Accepts, Turns, Restarts, Ends, Comes,
         PeerWrites, PeerLeaves, traffic
<1> QED BY <1>1, <1>3, <1>4

LEMMA TrafficInit == Init => TrafficInv
<1> SUFFICES ASSUME Init PROVE TrafficInv OBVIOUS
<1>1. \A e, f \in Endpoints : ~Talk(e, f) BY DEF Init, Talk
<1>2. Waiting BY <1>1 DEF Init, Waiting, Fresh
<1>3. Pairs BY <1>1 DEF Init, Pairs, Relaying
<1>4. Counts /\ InOrder BY DEF Init, Counts, InOrder, Relaying
<1> QED BY <1>2, <1>3, <1>4 DEF TrafficInv

LEMMA TrafficStep == TypeInv /\ TrafficInv /\ [Next]_vars => TrafficInv'
<1> SUFFICES ASSUME TypeInv, TrafficInv, [Next]_vars PROVE TrafficInv' OBVIOUS
<1>1. CASE Next
  BY <1>1, Moves, WaitingStep, PairsStep, CountsStep, InOrderStep DEF TrafficInv, Kept
<1>2. CASE UNCHANGED vars
  BY <1>2 DEF vars, TrafficInv, Waiting, Fresh, Pairs, Talk, Counts, Taken, InOrder, SideOf, Relaying
<1> QED BY <1>1, <1>2

LEMMA TrafficHolds == Spec => [](TypeInv /\ TrafficInv)
<1>1. TypeInv /\ TrafficInv /\ TypeInv' /\ [Next]_vars => TypeInv' /\ TrafficInv'
  BY TrafficStep
<1> QED BY <1>1, TypeInit, TypeStep, TrafficInit, PTL DEF Spec

\* No client sees what was meant for another, whoever came before it and
\* however that one's session ended.
THEOREM OneToOneHolds == Spec => []OneToOne
<1>1. TypeInv /\ TrafficInv => OneToOne
  <2> SUFFICES ASSUME TypeInv, TrafficInv, NEW e \in Endpoints, NEW i \in DOMAIN got[e]
               PROVE  LET from == got[e][i][1] IN
                      /\ \A j \in DOMAIN got[e] : got[e][j][1] = from
                      /\ \A j \in DOMAIN got[from] : got[from][j][1] = e
    BY DEF OneToOne
  <2>1. \A x \in Endpoints : \A j \in DOMAIN got[x] :
           got[x][j][1] \in Endpoints /\ Talk(x, got[x][j][1])
    <3> SUFFICES ASSUME NEW x \in Endpoints, NEW j \in DOMAIN got[x]
                 PROVE  got[x][j][1] \in Endpoints /\ Talk(x, got[x][j][1])
      OBVIOUS
    <3>1. got[x] \in Seq(Endpoints \X Nat) BY DEF TypeInv, TypeOK
    <3>2. got[x][j] \in Endpoints \X Nat BY <3>1, ElementOfSeq
    <3> QED BY <3>2 DEF Talk
  <2> QED BY <2>1 DEF TrafficInv, Pairs
<1> QED BY <1>1, TrafficHolds, PTL

\* The i-th half delivered is the i-th that was sent, but for the rest of a
\* chunk whose write was cut, where the start of that chunk comes again.
THEOREM InOrderHolds == Spec => []InOrder
<1>1. TypeInv /\ TrafficInv => InOrder BY DEF TrafficInv
<1> QED BY <1>1, TrafficHolds, PTL

\* While both sides stay, as much as was read from one has come to the other.
THEOREM NothingHeldBackHolds == Spec => []NothingHeldBack
<1>1. TypeInv /\ TrafficInv => NothingHeldBack
  <2> SUFFICES ASSUME TypeInv, TrafficInv, client # None PROVE NothingHeldBack
    BY DEF NothingHeldBack
  <2>1. Relaying BY DEF TypeInv, TypeOK, Places, Relaying
  <2>2. /\ backend \notin left => peer[backend] = "open"
        /\ client \notin left => peer[client] = "open"
    BY <2>1, PairTypes DEF TypeInv, Connections, Up
  <2> QED BY <2>1, <2>2 DEF TrafficInv, Counts, NothingHeldBack
<1> QED BY <1>1, TrafficHolds, PTL

=============================================================================
