------------------------------- MODULE MCBmca -------------------------------
(* Topologies for the model checking of Bmca.                              *)
EXTENDS Bmca

\* Both directions of a set of links.
PeerOf(links) ==
    [p \in UNION {{l[1], l[2]} : l \in links} |->
        CHOOSE q \in UNION {{l[1], l[2]} : l \in links} : <<p, q>> \in links \/ <<q, p>> \in links]

\* Three bridges in a ring.
RingPeer == PeerOf({<<<<1, 1>>, <<2, 1>>>>, <<<<2, 2>>, <<3, 1>>>>, <<<<3, 2>>, <<1, 2>>>>})
RingPorts == DOMAIN RingPeer

\* The same ring of bridges 2, 3, 4 with the best clock outside it, at bridge 2.
TailPeer == PeerOf({<<<<1, 1>>, <<2, 3>>>>, <<<<2, 1>>, <<3, 1>>>>,
                    <<<<3, 2>>, <<4, 1>>>>, <<<<4, 2>>, <<2, 2>>>>})
TailPorts == DOMAIN TailPeer

\* syncReceiptTimeoutTime is not initialised: a value far ahead.
FarAhead == {Never}
=============================================================================
