------------------------------- MODULE ZProxy -------------------------------
(***************************************************************************)
(* zproxy (src/utils/zproxy.c): a program that relays one client at a time *)
(* to a backend, normally a console.  It connects to the backend first,    *)
(* then accepts a client, and relays in one poll loop until a side goes    *)
(* away; then it drops both sides and connects to the backend again.       *)
(*                                                                         *)
(* An endpoint is a client or one connection to the backend.  What an      *)
(* endpoint writes comes in records of two chunks; a chunk is what one     *)
(* read takes (BUFSIZ - 1 bytes), and an SSL record may be longer.  What   *)
(* is delivered is counted in halves of chunks: a write may be cut.        *)
(***************************************************************************)
EXTENDS Naturals, Sequences, FiniteSets

CONSTANTS Clients,     \* the clients that may come
          Backends,    \* the connections the backend accepts
          MaxRecords   \* bound: records written by an endpoint

ASSUME ZProxyAssumption ==
    /\ Clients \cap Backends = {}
    /\ MaxRecords \in Nat

Endpoints == Clients \cup Backends
None == "none"
Sides == {"front", "back"}
SideOf(e) == IF e \in Clients THEN "front" ELSE "back"

VARIABLES
    ssl,       \* options: frontendssl, backendssl
    pc,        \* where proxy() is; "gone" when there is no process
    pidfile,   \* the file named by --pidpath exists
    client,    \* clientfd
    backend,   \* backend_host_fd
    revents,   \* the sides the last poll() found readable
    conn,      \* frontend_conn, backend_conn: NULL, an object, or a freed one
    backlog,   \* clients the kernel has queued on proxyfd
    sock,      \* chunks of an endpoint not yet taken from the socket
    pend,      \* chunks that the SSL object holds decrypted
    peer,      \* state of the TCP connection of an endpoint
    \* History, read by no guard:
    written,   \* records written by an endpoint
    got,       \* what was delivered to an endpoint: <<source, half>>
    left,      \* endpoints that closed or reset the connection themselves
    freedTwice,\* an SSL object was freed twice
    ended      \* how the last process ended

vars == <<ssl, pc, pidfile, client, backend, revents, conn, backlog, sock,
          pend, peer, written, got, left, freedTwice, ended>>

process == <<ssl, pc, pidfile, client, backend, revents>>
heap == <<conn, freedTwice>>
traffic == <<sock, pend, written, got>>

TypeOK ==
    /\ ssl \in [Sides -> BOOLEAN]
    /\ pc \in {"gone", "connect", "accept", "poll", "fromClient", "fromBackend"}
    /\ pidfile \in BOOLEAN
    /\ client \in Clients \cup {None} /\ backend \in Backends \cup {None}
    /\ revents \subseteq Sides
    /\ conn \in [Sides -> {"null", "live", "freed"}]
    /\ backlog \in Seq(Clients)
    /\ sock \in [Endpoints -> Nat] /\ pend \in [Endpoints -> Nat]
    /\ peer \in [Endpoints -> {"new", "open", "fin", "reset", "closed"}]
    /\ written \in [Endpoints -> 0..MaxRecords]
    /\ got \in [Endpoints -> Seq(Endpoints \X Nat)]
    /\ left \subseteq Endpoints
    /\ freedTwice \in BOOLEAN
    /\ ended \in {"never", "clean", "handshake", "detach", "killed"}

Init ==
    /\ ssl \in [Sides -> BOOLEAN]
    /\ pc = "gone" /\ pidfile = FALSE
    /\ client = None /\ backend = None /\ revents = {}
    /\ conn = [s \in Sides |-> "null"]
    /\ backlog = <<>>
    /\ sock = [e \in Endpoints |-> 0] /\ pend = [e \in Endpoints |-> 0]
    /\ peer = [e \in Endpoints |-> "new"]
    /\ written = [e \in Endpoints |-> 0]
    /\ got = [e \in Endpoints |-> <<>>]
    /\ left = {} /\ freedTwice = FALSE /\ ended = "never"

-----------------------------------------------------------------------------
(* SSL objects and the end of the process                                  *)

\* The objects `used' as options say, freed again where they were already.
CleanupSsl(c) == [s \in Sides |-> IF ssl[s] /\ c[s] # "null" THEN "freed" ELSE c[s]]
CleanupFreesTwice(c) == \E s \in Sides : ssl[s] /\ c[s] = "freed"

\* ssl_teardown(): frees the object; the caller keeps the pointer.
Teardown(c, side) == IF ssl[side] THEN [c EXCEPT ![side] = "freed"] ELSE c

\* The process ends: the kernel closes every socket it had.
Gone(how) ==
    /\ pc' = "gone" /\ ended' = how
    /\ client' = None /\ backend' = None /\ revents' = {} /\ backlog' = <<>>
    /\ peer' = [e \in Endpoints |-> IF peer[e] = "new" THEN "new" ELSE "closed"]
    /\ UNCHANGED <<ssl, left>>

CleanupExitKeepsFile(c) ==   \* mutant: exit() without zshare_pid_delete()
    /\ conn' = CleanupSsl(c)
    /\ freedTwice' = (freedTwice \/ CleanupFreesTwice(c))
    /\ UNCHANGED pidfile
    /\ Gone("clean")

\* cleanup_exit(): cleanup_ssl() and the pid file, after `c', the objects
\* that were freed on the way here.
CleanupExit(c) ==
    /\ conn' = CleanupSsl(c)
    /\ freedTwice' = (freedTwice \/ CleanupFreesTwice(c))
    /\ \/ pidfile' = FALSE /\ Gone("clean")
       \/ freedTwice' /\ UNCHANGED pidfile /\ Gone("killed")   \* abort()

\* cleanup_ssl(); cleanup_exit(): the way most errors take with SSL.
CleanupTwice(c) ==
    IF ssl["front"] \/ ssl["back"] THEN
        /\ CleanupExit(CleanupSsl(c))
    ELSE CleanupExit(c)

\* A failed handshake: cleanup_ssl(); exit(), without the pid file.
HandshakeFails(c) ==
    /\ conn' = CleanupSsl(c)
    /\ freedTwice' = (freedTwice \/ CleanupFreesTwice(c))
    /\ UNCHANGED pidfile
    /\ Gone("handshake")

\* Ended by a signal that has no handler.
Killed == Gone("killed") /\ UNCHANGED <<pidfile, conn, freedTwice>>

\* The next of a set of endpoints; which one makes no difference.
Unused(S) == {e \in S : peer[e] = "new"}
NextOf(S) == CHOOSE e \in Unused(S) : TRUE

-----------------------------------------------------------------------------
(* Start, connect, accept                                                  *)

\* main(): refused while the pid file exists; then proxy() up to listen().
\* cleanup_exit() where the file cannot be written or the port is taken;
\* a bare exit() where zshare_daemon_closefds() fails, the file written.
Start ==
    /\ pc = "gone" /\ ~pidfile
    /\ \/ pc' = "connect" /\ pidfile' = TRUE /\ UNCHANGED ended
       \/ ended' = "clean" /\ UNCHANGED <<pc, pidfile>>
       \/ ended' = "detach" /\ pidfile' = TRUE /\ UNCHANGED pc
    /\ conn' = [s \in Sides |-> "null"] /\ freedTwice' = FALSE
    /\ UNCHANGED <<ssl, client, backend, revents, backlog, peer, left>>
    /\ UNCHANGED traffic

\* restartbackend: zconnect() and the handshake.  backend_conn is
\* overwritten, whatever it points to.
ConnectBackend ==
    /\ pc = "connect"
    /\ \/ /\ Unused(Backends) # {}
          /\ pc' = "accept" /\ backend' = NextOf(Backends)
          /\ peer' = [peer EXCEPT ![NextOf(Backends)] = "open"]
          /\ conn' = [conn EXCEPT !["back"] = IF ssl["back"] THEN "live" ELSE @]
          /\ UNCHANGED <<ssl, pidfile, client, revents, backlog, left,
                         freedTwice, ended>>
       \/ ssl["back"] /\ HandshakeFails(Teardown(conn, "back"))
       \/ CleanupExit(conn)
    /\ UNCHANGED traffic

\* accept(): blocks until a client is there.  The SSL object of the client
\* before is freed here.
AcceptClient ==
    /\ pc = "accept" /\ backlog # <<>>
    /\ LET again == ssl["front"] /\ conn["front"] = "freed"
           fresh == [conn EXCEPT !["front"] = IF ssl["front"] THEN "live" ELSE @]
       IN  \/ /\ pc' = "poll" /\ client' = Head(backlog)
              /\ backlog' = Tail(backlog)
              /\ conn' = fresh /\ freedTwice' = (freedTwice \/ again)
              /\ UNCHANGED <<ssl, pidfile, backend, revents, peer, left, ended>>
           \/ ssl["front"] /\ HandshakeFails(fresh)
    /\ UNCHANGED traffic

-----------------------------------------------------------------------------
(* The poll loop                                                           *)

RestartTearsDown(c) ==   \* mutant: the client's object is always freed
    /\ pc' = "connect" /\ client' = None /\ backend' = None /\ revents' = {}
    /\ peer' = [peer EXCEPT ![client] = "closed", ![backend] = "closed"]
    /\ conn' = Teardown(c, "front")
    /\ UNCHANGED <<ssl, pidfile, backlog, left, ended, freedTwice>>

RestartKeepsBackend(c) ==   \* mutant: goto awaitclient
    /\ pc' = "accept" /\ client' = None /\ revents' = {}
    /\ peer' = [peer EXCEPT ![client] = "closed"]
    /\ conn' = c
    /\ UNCHANGED <<ssl, pidfile, backend, backlog, left, ended, freedTwice>>

\* close(clientfd); close(backend_host_fd); goto restartbackend
\* with `c' the SSL objects that were freed before.
Restart(c) ==
    /\ pc' = "connect" /\ client' = None /\ backend' = None /\ revents' = {}
    /\ peer' = [peer EXCEPT ![client] = "closed", ![backend] = "closed"]
    /\ conn' = c
    /\ UNCHANGED <<ssl, pidfile, backlog, left, ended, freedTwice>>

ReadableIfMany(e) == sock[e] > 1 \/ peer[e] \in {"fin", "reset"}   \* mutant
\* poll() reports data, an end of file and an error alike as readable; what
\* the SSL object still holds it does not see.
Readable(e) == sock[e] > 0 \/ peer[e] \in {"fin", "reset"}

ServeBackendFirst ==   \* mutant: the client is served when the backend is silent
    /\ "reset" \notin {peer[backend], peer[client]}
    /\ Readable(client) \/ Readable(backend)
    /\ revents' = IF Readable(backend) THEN {"back"} ELSE {"front"}
    /\ pc' = IF Readable(backend) THEN "fromBackend" ELSE "fromClient"
    /\ UNCHANGED <<ssl, pidfile, client, backend, backlog, peer, left, ended>>
    /\ UNCHANGED heap

\* One turn of the loop: the client if it is readable, then the backend.
Serve ==
    /\ "reset" \notin {peer[backend], peer[client]}
    /\ Readable(client) \/ Readable(backend)
    /\ revents' = {s \in Sides : Readable(IF s = "front" THEN client ELSE backend)}
    /\ pc' = IF Readable(client) THEN "fromClient" ELSE "fromBackend"
    /\ UNCHANGED <<ssl, pidfile, client, backend, backlog, peer, left, ended>>
    /\ UNCHANGED heap

Poll ==
    /\ pc = "poll"
    /\ \/ /\ peer[backend] = "reset"              \* POLLHUP
          /\ CleanupTwice(Teardown(conn, "back"))
       \/ /\ peer[backend] # "reset" /\ peer[client] = "reset"
          /\ Restart(conn)
       \/ Serve
    /\ UNCHANGED traffic

HasData(e) == sock[e] + pend[e] > 0
Taken(e) == 2 * written[e] - sock[e] - pend[e]

ReadDropsRest(e, side) ==   \* mutant: the rest of a record is forgotten
    /\ sock' = [sock EXCEPT ![e] = @ - (IF ssl[side] THEN 2 ELSE 1)]
    /\ UNCHANGED <<pend, written>>

ReadSocketFirst(e, side) ==   \* mutant: what SSL holds is not looked at
    /\ IF ~ssl[side] THEN sock' = [sock EXCEPT ![e] = @ - 1] /\ UNCHANGED pend
       ELSE sock' = [sock EXCEPT ![e] = @ - 2] /\ pend' = [pend EXCEPT ![e] = 1]
    /\ UNCHANGED written

\* read() or SSL_read() of one chunk of e; SSL takes a record and keeps the
\* rest.
Read(e, side) ==
    /\ IF ~ssl[side] THEN sock' = [sock EXCEPT ![e] = @ - 1] /\ UNCHANGED pend
       ELSE IF pend[e] > 0 THEN pend' = [pend EXCEPT ![e] = @ - 1] /\ UNCHANGED sock
       ELSE sock' = [sock EXCEPT ![e] = @ - 2] /\ pend' = [pend EXCEPT ![e] = 1]
    /\ UNCHANGED written

\* Chunk n of an endpoint, in halves, when it is written whole; and when the
\* first send() took one half: the second sends `data' again, not `retry',
\* for the length that is left.
Whole(from, n) == <<<<from, 2 * n - 1>>, <<from, 2 * n>>>>
Cut(from, n) == <<<<from, 2 * n - 1>>, <<from, 2 * n - 1>>>>

DeliverFullLength(e, from) ==   \* mutant: `len' is not reduced on a retry
    LET n == Taken(from) + 1 IN
    /\ \E sent \in {Whole(from, n)} \cup
          (IF ssl[SideOf(e)] THEN {} ELSE {<<<<from, 2 * n - 1>>>> \o Whole(from, n)}) :
          got' = IF peer[e] = "open" THEN [got EXCEPT ![e] = @ \o sent] ELSE got
    /\ peer' = IF peer[e] = "fin" THEN [peer EXCEPT ![e] = "reset"] ELSE peer

\* SSL_write() writes all, data_send() may be cut: delivered to an open
\* connection; to one whose end is closed it is lost, and answered by a reset.
Deliver(e, from) ==
    LET n == Taken(from) + 1 IN
    /\ \E sent \in {Whole(from, n)} \cup (IF ssl[SideOf(e)] THEN {} ELSE {Cut(from, n)}) :
          got' = IF peer[e] = "open" THEN [got EXCEPT ![e] = @ \o sent] ELSE got
    /\ peer' = IF peer[e] = "fin" THEN [peer EXCEPT ![e] = "reset"] ELSE peer

FromClient ==
    /\ pc = "fromClient"
    /\ \/ /\ HasData(client)
          /\ Read(client, "front")
          /\ \/ /\ Deliver(backend, client)       \* `wrote' is not looked at
                /\ pc' = IF "back" \in revents THEN "fromBackend" ELSE "poll"
                /\ UNCHANGED <<ssl, pidfile, client, backend, revents, backlog,
                               left, ended>>
                /\ UNCHANGED heap
             \/ peer[backend] = "reset" /\ Killed /\ UNCHANGED got  \* SIGPIPE
       \/ /\ peer[client] = "fin" /\ ~HasData(client)
          /\ Restart(conn) /\ UNCHANGED traffic
       \/ /\ peer[client] = "reset"
          /\ IF ssl["front"] THEN CleanupTwice(conn) ELSE CleanupExit(conn)
          /\ UNCHANGED traffic

FromBackend ==
    /\ pc = "fromBackend"
    /\ \/ /\ HasData(backend)
          /\ Read(backend, "back")
          /\ \/ /\ peer[client] # "reset" /\ Deliver(client, backend)
                /\ pc' = "poll"
                /\ UNCHANGED <<ssl, pidfile, client, backend, revents, backlog,
                               left, ended>>
                /\ UNCHANGED heap
             \/ /\ peer[client] = "reset" /\ UNCHANGED got
                /\ \/ Killed
                   \/ IF ssl["front"] THEN CleanupTwice(conn) ELSE CleanupExit(conn)
       \/ /\ peer[backend] = "fin" /\ ~HasData(backend)
          /\ Restart(Teardown(Teardown(conn, "back"), "front"))
          /\ UNCHANGED traffic
       \/ /\ peer[backend] = "reset"
          /\ IF ssl["back"] THEN CleanupTwice(conn) ELSE CleanupExit(conn)
          /\ UNCHANGED traffic

\* SIGTERM or SIGINT, at any moment.
Terminate == pc # "gone" /\ CleanupExit(conn) /\ UNCHANGED traffic

\* SIGKILL or another signal without a handler, at any moment; SIGABRT when
\* free() finds the damage that freeing twice had done.
Crash == pc # "gone" /\ Killed /\ UNCHANGED traffic

-----------------------------------------------------------------------------
(* The other ends                                                          *)

ClientConnects ==
    /\ pc # "gone" /\ Unused(Clients) # {}
    /\ peer' = [peer EXCEPT ![NextOf(Clients)] = "open"]
    /\ backlog' = Append(backlog, NextOf(Clients))
    /\ UNCHANGED <<process, heap, traffic, left, ended>>

PeerWrites(e) ==
    /\ peer[e] = "open" /\ written[e] < MaxRecords
    /\ written' = [written EXCEPT ![e] = @ + 1]
    /\ sock' = [sock EXCEPT ![e] = @ + 2]
    /\ UNCHANGED <<process, heap, backlog, pend, peer, got, left, ended>>

PeerLeaves(e) ==
    /\ peer[e] = "open"
    /\ \E how \in {"fin", "reset"} : peer' = [peer EXCEPT ![e] = how]
    /\ left' = left \cup {e}
    /\ UNCHANGED <<process, heap, traffic, backlog, ended>>

ProxyStep == ConnectBackend \/ AcceptClient \/ Poll \/ FromClient \/ FromBackend

Next ==
    \/ Start \/ ProxyStep \/ Terminate \/ Crash
    \/ ClientConnects
    \/ \E e \in Endpoints : PeerWrites(e) \/ PeerLeaves(e)

\* The process runs; nobody has to connect, write or leave.
Spec == Init /\ [][Next]_vars /\ WF_vars(ProxyStep)

-----------------------------------------------------------------------------
(* Properties                                                              *)

\* What an endpoint receives comes from one other endpoint, and what that one
\* receives comes from this one: after a restart no client sees what was
\* meant for another (the two `goto restartbackend' of a client that left).
OneToOne ==
    \A e \in Endpoints : \A i \in DOMAIN got[e] :
        LET from == got[e][i][1] IN
        /\ \A j \in DOMAIN got[e] : got[e][j][1] = from
        /\ \A j \in DOMAIN got[from] : got[from][j][1] = e

\* What comes after a short write is at its place again: the i-th half that
\* an endpoint receives is the i-th that was sent, except that without SSL on
\* its side the start of a chunk may stand for the rest of that chunk
\* (data_send() goes on at `data', for the length that is left).  Nothing is
\* missing before what is delivered, nothing comes later or once more,
\* although the result of a write to the backend is ignored.
InOrder ==
    \A e \in Endpoints : \A i \in DOMAIN got[e] :
        \/ got[e][i][2] = i
        \/ ~ssl[SideOf(e)] /\ i % 2 = 0 /\ got[e][i][2] = i - 1

\* What the 1:1 proxy is for, `it gets the job done': an endpoint receives
\* what the other one sent.
AsSent == \A e \in Endpoints : \A i \in DOMAIN got[e] : got[e][i][2] = i

\* A proxy that serves, and whose backends never went away, has freed no SSL
\* object twice, however many clients came and left.  (Once a backend has
\* left, frontend_conn is freed by ssl_teardown() and by the next accept.)
ClientsDoNoHarm ==
    pc # "gone" /\ freedTwice => ssl["front"] /\ left \cap Backends # {}

\* The pid file that makes every later start fail is left behind only by a
\* process that was killed (also by a write to a connection that was reset:
\* there is no MSG_NOSIGNAL), whose SSL handshake failed, or that could not
\* detach; while it runs there is one.
PidfileTellsTruth ==
    IF pc = "gone" THEN pidfile => ended \in {"killed", "handshake", "detach"}
    ELSE pidfile

\* While both sides stay, as much has been delivered to one as was read from
\* the other: also when the two directions meet in one turn of the loop.
NothingHeldBack ==
    client # None =>
        /\ backend \notin left => Len(got[backend]) = 2 * Taken(client)
        /\ client \notin left => Len(got[client]) = 2 * Taken(backend)

\* What a side of a session has sent is read, unless it ends: the other side,
\* which may talk all the time, does not keep the loop from it.  With SSL this
\* is true of records only: the rest of one longer than the buffer stays in
\* the SSL object until the socket is readable again.
Unread(e) == sock[e] + (IF ssl[SideOf(e)] THEN 0 ELSE pend[e])
Served(e) == client # None /\ e \in {client, backend}
EachIsHeard == \A e \in Endpoints : Served(e) /\ Unread(e) > 0 ~> ~Served(e) \/ Unread(e) = 0

=============================================================================
