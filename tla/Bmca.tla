-------------------------------- MODULE Bmca --------------------------------
(***************************************************************************)
(* The best master clock algorithm of a network of bridges: in each bridge *)
(* PortAnnounceInformation (PAI) and PortAnnounceTransmit (PAT) of every   *)
(* port and PortStateSelection (PSSel), driven by the main loop; between   *)
(* the bridges Announce messages on full-duplex links.                     *)
(*                                                                         *)
(* One iteration of a bridge's main loop is one step: its machines share   *)
(* one thread.  What interleaves is the bridges, the messages on the links *)
(* and the passing of seconds, with bridges that stop and start again and  *)
(* Announces that are lost.                                                *)
(*                                                                         *)
(* A clock is a number: the rank of its system identity, smaller is        *)
(* better.  Deadlines are numbers of seconds that are left.  Fields the    *)
(* code always sets together are kept once: masterPriority of a port and   *)
(* masterStepsRemoved follow from gmPriority (MasterPriority), the         *)
(* stepsRemoved of a port from its portPriority, gmPresent from gmPriority,*)
(* the state of port 0 from the other ports (IsGrandmaster).  Ports that   *)
(* the configuration disables do not take part and are left out.           *)
(***************************************************************************)
EXTENDS Integers, Sequences, FiniteSets

CONSTANTS
    Bridges,          \* the clocks, by rank
    Ports,            \* pairs <<bridge, port number>>
    Peer,             \* the port at the other end of a port's link
    NotGmCapable,     \* bridges with priority1 = 255
    LowByte,          \* 256: stepsRemoved has two bytes
    MAX_PATH_TRACE_N,
    AnnounceTimeout,  \* announceReceiptTimeout, 3 announce intervals of 1 s
    SyncTimeout,      \* syncReceiptTimeout with the logMessageInterval of Sync
    InitialSync,      \* syncReceiptTimeoutTime before it is first written
    MaxFailures,      \* bound: bridges that stop
    MaxRestarts,      \* bound: bridges that start again
    MaxLosses         \* bound: Announces lost on a link

PortNumbers(b) == {i \in 1 .. 4 : <<b, i>> \in Ports}
Owner(p) == p[1]

ASSUME BridgesAssumption ==
    /\ Bridges \subseteq Nat \ {0}
    /\ NotGmCapable \subseteq Bridges
    \* the ranks agree with priority1 = 255 being the worst
    /\ \A b \in NotGmCapable, c \in Bridges \ NotGmCapable : c < b
ASSUME LinksAssumption ==
    /\ Ports \subseteq Bridges \X (1 .. 4)
    /\ Peer \in [Ports -> Ports]
    /\ \A p \in Ports : Peer[p] # p /\ Peer[Peer[p]] = p /\ Owner(Peer[p]) # Owner(p)
    \* no parallel links: sourcePortNumber, which is never set in a received
    \* vector, and portNumber decide no comparison
    /\ \A p, q \in Ports :
          p # q /\ Owner(p) = Owner(q) => Owner(Peer[p]) # Owner(Peer[q])
ASSUME BoundsAssumption ==
    /\ LowByte \in Nat \ {0, 1} /\ MAX_PATH_TRACE_N \in Nat
    /\ AnnounceTimeout \in Nat \ {0} /\ SyncTimeout \in Nat \ {0}
    /\ MaxFailures \in Nat /\ MaxRestarts \in Nat /\ MaxLosses \in Nat

Never == -1     \* the largest time, never reached
NoAnnounce == <<>>    \* rcvdAnnouncePtr = NULL; no message sent
Times == (0 .. SyncTimeout) \cup (0 .. AnnounceTimeout)

ASSUME InitialSyncAssumption == InitialSync \subseteq Times \cup {Never}

VARIABLES
    bridge,     \* PerPTPInstanceGlobal and the machines of each bridge
    wire,       \* Announces on their way to a port
    alive,      \* bridges that run
    failures, restarts, losses

bmcaVars == <<bridge, wire, alive, failures, restarts, losses>>

-----------------------------------------------------------------------------
(* Priority vectors                                                        *)

Vectors == [root : Bridges, steps : 0 .. LowByte * LowByte - 1, src : Bridges, port : 0 .. 4]

\* memcmp sees the low byte of the little-endian stepsRemoved first.
StepsKey(n) == (n % LowByte) * LowByte + n \div LowByte

\* compare_priority_vectors(v, w) = SUPERIOR_PRIORITY
Superior(v, w) ==
    \/ v.root < w.root
    \/ v.root = w.root /\ StepsKey(v.steps) < StepsKey(w.steps)
    \/ v.root = w.root /\ v.steps = w.steps /\ v.src < w.src
    \/ v.root = w.root /\ v.steps = w.steps /\ v.src = w.src /\ v.port < w.port

SystemPriority(b) == [root |-> b, steps |-> 0, src |-> b, port |-> 0]

\* masterPriority of port i: gmPriority with this clock and port as the source.
MasterPriority(s, i) == [s.gm EXCEPT !.src = s.id, !.port = i]

GmPresent(s) == s.gm.root \notin NotGmCapable

\* The element of a singleton: intermediate states of a run are bound as the
\* element of a set, which TLC evaluates once.
The(S) == CHOOSE x \in S : TRUE

IsGrandmaster(s) == \A i \in DOMAIN s.port : s.port[i].role # "SLAVE"

-----------------------------------------------------------------------------
(* PortStateSelection                                                      *)

\* gmPathPriority of a port: one hop more than portPriority (uint16_t).
GmPath(p) == [p.prio EXCEPT !.steps = (@ + 1) % (LowByte * LowByte)]

\* The best of systemPriority and the vectors received by the ports.
GmPriority(s) ==
    LET received == {GmPath(s.port[i]) : i \in {j \in DOMAIN s.port :
                        s.port[j].info # "AGED" /\ s.port[j].prio.src # s.id}}
        candidates == received \cup {SystemPriority(s.id)}
    IN CHOOSE v \in candidates : \A w \in candidates : ~Superior(w, v)

\* Mutant: a port with own information never asks for an update.
PortStateUpdate_MineStale(s, i) ==
    LET p == s.port[i]
    IN CASE p.info = "AGED" -> [p EXCEPT !.role = "MASTER", !.updt = TRUE]
         [] p.info = "MINE" -> [p EXCEPT !.role = "MASTER"]
         [] p.info = "RECEIVED" ->
              IF GmPath(p) = s.gm THEN [p EXCEPT !.role = "SLAVE", !.updt = FALSE]
              ELSE IF Superior(MasterPriority(s, i), p.prio)
              THEN [p EXCEPT !.role = "MASTER", !.updt = TRUE]
              ELSE [p EXCEPT !.role = "PASSIVE", !.updt = FALSE]

\* portStateUpdate: role of the port, and whether PAI must take over
\* masterPriority.
PortStateUpdate(s, i) ==
    LET p == s.port[i]
    IN CASE p.info = "AGED" -> [p EXCEPT !.role = "MASTER", !.updt = TRUE]
         [] p.info = "MINE" -> [p EXCEPT !.role = "MASTER", !.updt = @ \/ MasterPriority(s, i) # p.prio]
         [] p.info = "RECEIVED" ->
              IF GmPath(p) = s.gm THEN [p EXCEPT !.role = "SLAVE", !.updt = FALSE]
              ELSE IF Superior(MasterPriority(s, i), p.prio)
              THEN [p EXCEPT !.role = "MASTER", !.updt = TRUE]
              ELSE [p EXCEPT !.role = "PASSIVE", !.updt = FALSE]

\* pathTrace changes when a port becomes SLAVE, or when this is the root.
PathTrace(s, ports) ==
    LET new == {i \in DOMAIN s.port : ports[i].role = "SLAVE" /\ s.port[i].role # "SLAVE"}
    IN IF s.gm.root = s.id THEN <<s.id>>
       ELSE IF new = {} THEN s.path
       ELSE LET received == s.port[CHOOSE i \in new : TRUE].annPath
            IN IF Len(received) < MAX_PATH_TRACE_N THEN Append(received, s.id) ELSE <<>>

\* port_state_selection_sm_run: nothing to do unless a port asks for it.
Select(s) ==
    IF \A i \in DOMAIN s.port : ~s.port[i].reselect THEN s
    ELSE LET Assign(g, ports) ==
                 [g EXCEPT !.path = PathTrace(g, ports),
                           !.port = [i \in DOMAIN ports |->
                                       [ports[i] EXCEPT !.reselect = FALSE, !.selected = TRUE]]]
         IN The({Assign(g, [i \in DOMAIN s.port |-> PortStateUpdate(g, i)]) :
                   g \in {[s EXCEPT !.gm = gm] : gm \in {GmPriority(s)}}})

-----------------------------------------------------------------------------
(* PortAnnounceInformation                                                 *)

Aged(s, i) ==
    [s EXCEPT !.port[i] = [@ EXCEPT !.state = "AGED", !.info = "AGED", !.annPath = <<>>,
                                    !.reselect = TRUE, !.selected = FALSE]]

Update(s, i) ==
    [s EXCEPT !.port[i] = [@ EXCEPT !.state = "CURRENT", !.info = "MINE", !.updt = FALSE,
                                    !.prio = MasterPriority(s, i)]]

\* An Announce that is not better than portPriority is dropped.
Inferior(s, i) == [s EXCEPT !.port[i].rcvd = NoAnnounce]

Repeated(s, i) ==
    LET msg == s.port[i].rcvd
    IN [s EXCEPT !.port[i] = [@ EXCEPT !.rcvd = NoAnnounce, !.age = AnnounceTimeout,
                                    !.annPath = msg.path]]

\* The sync receipt timeout of the WHOLE bridge restarts with the announce
\* receipt timeout of this port (3 s).
SuperiorMaster(s, i) ==
    LET msg == s.port[i].rcvd
    IN [s EXCEPT !.sync = AnnounceTimeout,
                 !.port[i] = [@ EXCEPT !.prio = msg.prio, !.annPath = msg.path,
                                       !.age = AnnounceTimeout, !.info = "RECEIVED",
                                       !.reselect = TRUE, !.selected = FALSE, !.rcvd = NoAnnounce]]

\* rcvInfo and the state it leads to.
Receive(s, i) ==
    LET p == s.port[i]
    IN IF p.rcvd.prio = p.prio THEN Repeated(s, i)
       ELSE IF Superior(p.rcvd.prio, p.prio) THEN SuperiorMaster(s, i)
       ELSE Inferior(s, i)

\* Mutant: an expired announce is kept as long as Syncs arrive.
ReceiptTimeout_SyncOnly(s, i) == s.sync = 0 /\ GmPresent(s)

\* The sync receipt timeout concerns every port, whatever its information.
ReceiptTimeout(s, i) ==
    LET p == s.port[i]
    IN \/ p.info = "RECEIVED" /\ p.age = 0 /\ ~p.updt /\ p.rcvd = NoAnnounce
       \/ s.sync = 0 /\ GmPresent(s)

\* In CURRENT: timeouts first, and again after a message has been handled.
Current(s, i) ==
    LET p == s.port[i]
        Settle(t) == IF ReceiptTimeout(t, i) THEN Aged(t, i) ELSE t
    IN IF p.rcvd # NoAnnounce /\ ~p.updt /\ ~ReceiptTimeout(s, i)
       THEN The({Settle(t) : t \in {Receive(s, i)}})
       ELSE Settle(s)

\* port_announce_information_sm_run
PaiRun(s, i) ==
    The({IF u.port[i].state = "CURRENT" THEN Current(u, i) ELSE u :
           u \in {IF s.port[i].selected /\ s.port[i].updt THEN Update(s, i) ELSE s}})

-----------------------------------------------------------------------------
(* PortAnnounceTransmit                                                    *)

\* setAnnounce
Announce(s, i) == [prio |-> MasterPriority(s, i), path |-> s.path]

\* Mutant: the port announces whatever its role.
PatRun_AnyRole(s, i) ==
    LET p == s.port[i]
        ready == p.selected /\ ~p.updt
        q == IF p.due /\ ready THEN [p EXCEPT !.newInfo = TRUE, !.due = FALSE] ELSE p
        sends == ready /\ q.newInfo /\ ~q.due
    IN [s EXCEPT !.port[i] = IF sends THEN [q EXCEPT !.newInfo = FALSE] ELSE q,
                 !.out[i] = IF sends THEN Announce(s, i) ELSE NoAnnounce]

\* port_announce_transmit_sm_run: the interval timer is restarted, and newInfo
\* set, only when the port is selected and up to date; a MASTER port then sends.
PatRun(s, i) ==
    LET p == s.port[i]
        ready == p.selected /\ ~p.updt
        q == IF p.due /\ ready THEN [p EXCEPT !.newInfo = TRUE, !.due = FALSE] ELSE p
        sends == ready /\ q.newInfo /\ ~q.due /\ p.role = "MASTER"
    IN [s EXCEPT !.port[i] = IF sends THEN [q EXCEPT !.newInfo = FALSE] ELSE q,
                 !.out[i] = IF sends THEN Announce(s, i) ELSE NoAnnounce]

-----------------------------------------------------------------------------
(* The main loop of a bridge                                               *)

\* PAI, then PAT of a port that takes part.
Poll(s, i) ==
    The({IF i \in DOMAIN t.port THEN The({PatRun(u, i) : u \in {PaiRun(t, i)}}) ELSE t : t \in {s}})

\* One iteration: PAI and PAT of every port in order, at most one received
\* Announce (r = 0: none), then port state selection.
Iteration(s, r) ==
    LET Received(t) == IF r = 0 THEN t
                       ELSE PaiRun([t EXCEPT !.port[r].rcvd = Head(wire[<<s.id, r>>])], r)
    IN The({Select(t) : t \in {Received(u) : u \in {Poll(Poll(Poll(Poll(s, 1), 2), 3), 4)}}})

Idle(s) == [s EXCEPT !.out = [i \in DOMAIN s.out |-> NoAnnounce]]

\* The state after the first iteration of the main loop: the machines have been
\* initialised, every port has aged and was selected MASTER; portPriority and
\* syncReceiptTimeoutTime are not initialised (the former is not read before
\* it is set).
StartStates(b) ==
    {[id |-> b, gm |-> SystemPriority(b), path |-> <<b>>, sync |-> t,
      port |-> [i \in PortNumbers(b) |->
                 [state |-> "AGED", info |-> "AGED", role |-> "MASTER", prio |-> SystemPriority(b),
                  age |-> 0, rcvd |-> NoAnnounce, annPath |-> <<>>, selected |-> TRUE,
                  reselect |-> FALSE, updt |-> TRUE, newInfo |-> TRUE, due |-> TRUE]],
      out |-> [i \in PortNumbers(b) |-> NoAnnounce]] : t \in InitialSync}

BmcaInit ==
    /\ bridge \in {f \in [Bridges -> UNION {StartStates(b) : b \in Bridges}] :
                       \A b \in Bridges : f[b].id = b}
    /\ wire = [p \in Ports |-> <<>>]
    /\ alive = Bridges
    /\ failures = 0 /\ restarts = 0 /\ losses = 0

\* An iteration of b's main loop, with the frames it sends.
Iterate(b) ==
    /\ b \in alive
    /\ \E r \in {0} \cup {i \in PortNumbers(b) : wire[<<b, i>>] # <<>>} :
       \E s \in {Iteration(bridge[b], r)} :
          /\ bridge' = [bridge EXCEPT ![b] = Idle(s)]
          /\ wire' = [p \in Ports |->
                IF p = <<b, r>> THEN Tail(wire[p])
                ELSE IF Owner(Peer[p]) = b /\ Owner(p) \in alive /\ s.out[Peer[p][2]] # NoAnnounce
                THEN Append(wire[p], s.out[Peer[p][2]])
                ELSE wire[p]]
    /\ UNCHANGED <<alive, failures, restarts, losses>>

-----------------------------------------------------------------------------
(* Time and the transport of Sync (SyncRelay), once per second             *)

Role(p) == bridge[Owner(p)].port[p[2]].role

\* Bridges that get Syncs of a grandmaster along MASTER-SLAVE links.
Synchronized ==
    LET grandmasters == {b \in alive : IsGrandmaster(bridge[b]) /\ GmPresent(bridge[b])}
        Hop(S) == S \cup {b \in alive : \E i \in PortNumbers(b) :
                     /\ Role(<<b, i>>) = "SLAVE" /\ GmPresent(bridge[b])
                     /\ Role(Peer[<<b, i>>]) = "MASTER" /\ Owner(Peer[<<b, i>>]) \in S}
        reached[n \in 0 .. Cardinality(Bridges)] == IF n = 0 THEN grandmasters ELSE Hop(reached[n - 1])
    IN reached[Cardinality(Bridges)]

\* What syncReceiptTimeoutTime can be after this second.  A Sync of any port
\* restarts the timeout; a clock master that sends on a port disables it.
SyncAfter(b) ==
    LET s == bridge[b]
        received == \E i \in PortNumbers(b) : /\ Role(Peer[<<b, i>>]) = "MASTER"
                                              /\ Owner(Peer[<<b, i>>]) \in Synchronized
        sends == IsGrandmaster(s) /\ GmPresent(s) /\ \E i \in PortNumbers(b) : s.port[i].role = "MASTER"
    IN IF received \/ sends
       THEN (IF received THEN {SyncTimeout} ELSE {}) \cup (IF sends THEN {Never} ELSE {})
       ELSE {IF s.sync > 0 THEN s.sync - 1 ELSE s.sync}

\* Mutant: a deadline that has passed counts on.
SecondOlder_NoFloor(p) == [p EXCEPT !.age = @ - 1, !.due = TRUE]

SecondOlder(p) == [p EXCEPT !.age = IF @ > 0 THEN @ - 1 ELSE 0, !.due = TRUE]

\* A second passes when every bridge has handled what there was.
Tick ==
    /\ \A p \in Ports : wire[p] = <<>>
    /\ \A b \in alive : Iteration(bridge[b], 0) = bridge[b]
    /\ \E after \in {[b \in alive |-> SyncAfter(b)]} :
       \E sync \in [alive -> UNION {after[b] : b \in alive}] :
          /\ \A b \in alive : sync[b] \in after[b]
          /\ bridge' = [b \in Bridges |->
                IF b \in alive
                THEN [bridge[b] EXCEPT !.sync = sync[b],
                                       !.port = [i \in DOMAIN @ |-> SecondOlder(@[i])]]
                ELSE bridge[b]]
    /\ UNCHANGED <<wire, alive, failures, restarts, losses>>

-----------------------------------------------------------------------------
(* Failures                                                                *)

\* b stops; what it has sent stays on the links.
Stop(b) ==
    /\ b \in alive /\ alive # {b}
    /\ failures < MaxFailures
    /\ failures' = failures + 1
    /\ alive' = alive \ {b}
    /\ wire' = [p \in Ports |-> IF Owner(p) = b THEN <<>> ELSE wire[p]]
    /\ UNCHANGED <<bridge, restarts, losses>>

\* Booting takes longer than the announce receipt timeout of the neighbours.
Restart(b) ==
    /\ b \in Bridges \ alive
    /\ \A i \in PortNumbers(b) : LET q == Peer[<<b, i>>] IN
          wire[q] = <<>> /\ (Owner(q) \in alive => bridge[Owner(q)].port[q[2]].info # "RECEIVED")
    /\ restarts < MaxRestarts
    /\ restarts' = restarts + 1
    /\ alive' = alive \cup {b}
    /\ \E s \in StartStates(b) : bridge' = [bridge EXCEPT ![b] = s]
    /\ UNCHANGED <<wire, failures, losses>>

LoseAnnounce(p) ==
    /\ wire[p] # <<>>
    /\ losses < MaxLosses
    /\ losses' = losses + 1
    /\ wire' = [wire EXCEPT ![p] = Tail(@)]
    /\ UNCHANGED <<bridge, alive, failures, restarts>>

BmcaNext ==
    \/ \E b \in Bridges : Iterate(b) \/ Stop(b) \/ Restart(b)
    \/ \E p \in Ports : LoseAnnounce(p)
    \/ Tick

BmcaSpec == BmcaInit /\ [][BmcaNext]_bmcaVars

\* Every bridge keeps running its loop, and time passes.
BmcaFairSpec == BmcaSpec /\ (\A b \in Bridges : WF_bmcaVars(Iterate(b))) /\ WF_bmcaVars(Tick)

-----------------------------------------------------------------------------
(* Properties                                                              *)

PortStates ==
    [state : {"AGED", "CURRENT"}, info : {"AGED", "MINE", "RECEIVED"},
     role : {"MASTER", "SLAVE", "PASSIVE"}, prio : Vectors, age : 0 .. AnnounceTimeout,
     rcvd : {NoAnnounce} \cup [prio : Vectors, path : Seq(Bridges)], annPath : Seq(Bridges),
     selected : BOOLEAN, reselect : BOOLEAN, updt : BOOLEAN, newInfo : BOOLEAN, due : BOOLEAN]

\* Every field keeps its type; in particular deadlines do not run past zero.
BmcaTypeOK ==
    /\ \A b \in Bridges :
          /\ bridge[b].id = b /\ bridge[b].gm \in Vectors /\ bridge[b].path \in Seq(Bridges)
          /\ bridge[b].sync \in Times \cup {Never}
          /\ bridge[b].port \in [PortNumbers(b) -> PortStates]
    /\ \A p \in Ports : wire[p] \in Seq([prio : Vectors, path : Seq(Bridges)])
    /\ alive \subseteq Bridges
    /\ failures \in 0 .. MaxFailures /\ restarts \in 0 .. MaxRestarts /\ losses \in 0 .. MaxLosses

\* The reselect/updtInfo handshake between PortStateSelection and
\* PortAnnounceInformation: the portPriority of a port that announces own
\* information, and has nothing left to update, is the current masterPriority.
OwnInformationIsCurrent ==
    \A b \in Bridges : \A i \in PortNumbers(b) :
        LET p == bridge[b].port[i]
        IN p.info = "MINE" /\ p.selected /\ ~p.updt => p.prio = MasterPriority(bridge[b], i)

\* Time is not passed round in a circle: from every running bridge the chain of
\* SLAVE ports ends after fewer hops than there are bridges.
Upstream(b) ==
    {Owner(Peer[<<b, i>>]) : i \in {j \in PortNumbers(b) : Role(<<b, j>>) = "SLAVE"}} \cap alive
NoTimingLoop ==
    \A b \in alive :
        LET chain[n \in 0 .. Cardinality(Bridges)] ==
                IF n = 0 THEN {b} ELSE UNION {Upstream(c) : c \in chain[n - 1]}
        IN chain[Cardinality(Bridges)] = {}

\* The believed distance to the grandmaster stays within "at most 8 hops"
\* (MAX_PATH_TRACE_N), in networks smaller than that.
HopLimit == \A b \in alive : bridge[b].gm.steps <= MAX_PATH_TRACE_N

\* Every running bridge takes its time from the best running clock, over links
\* with one MASTER end each.
Settled ==
    /\ \A b \in alive : bridge[b].gm.root \in alive /\ \A c \in alive : bridge[b].gm.root <= c
    /\ \A p \in Ports : Owner(p) \in alive /\ Owner(Peer[p]) \in alive =>
          (Role(p) = "MASTER" <=> Role(Peer[p]) # "MASTER")
\* After the last failure the announces and timeouts of the running bridges
\* settle on the best running clock and stay there.
Converges == <>[]Settled
=============================================================================
