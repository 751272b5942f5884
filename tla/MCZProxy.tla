------------------------------ MODULE MCZProxy ------------------------------
(* ZProxy with model values for the endpoints. *)
EXTENDS ZProxy, TLC

CONSTANTS c1, c2, b1, b2

MCClients == {c1, c2}
MCBackends == {b1, b2}

\* Endpoints that talk without end: once what e wrote has left its socket, the
\* history forgets it (no guard but the bound of PeerWrites reads it).
Forget(e) ==
    /\ sock[e] = 0 /\ written[e] > pend[e]
    /\ written' = [written EXCEPT ![e] = pend[e]]
    /\ got' = [f \in Endpoints |-> SelectSeq(got[f], LAMBDA half : half[1] # e)]
    /\ UNCHANGED <<process, heap, backlog, sock, pend, peer, left, ended>>

TalkNext == Next \/ \E e \in Endpoints : Forget(e)
TalkSpec == Init /\ [][TalkNext]_vars /\ WF_vars(ProxyStep)
=============================================================================
