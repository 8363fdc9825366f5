------------------------------ MODULE SyncRelay ------------------------------
(***************************************************************************)
(* The transport of synchronized time through one bridge:                  *)
(*                                                                         *)
(*   Sync, Follow_Up --> MDSyncReceive --> PortSyncSyncReceive             *)
(*                                            --> SiteSyncSync             *)
(*   clock (1 s tick) --> ClockMasterSyncSend --> SiteSyncSync             *)
(*   SiteSyncSync --> ClockSlaveSync                                       *)
(*                --> PortSyncSyncSend --> MDSyncSend --> Sync, Follow_Up  *)
(*                                                                         *)
(* The machines of one bridge run in the main loop's thread and call each  *)
(* other synchronously, so one input (a message, a transmit timestamp, a   *)
(* timeout, the tick) is one step.  What interleaves is the order of these *)
(* inputs with each other, with losses, and with role changes made by      *)
(* PortStateSelection.  Time values are abstracted to the identity of the  *)
(* Sync transmission they come from.                                       *)
(***************************************************************************)
EXTENDS Integers, Sequences, FiniteSets

CONSTANTS
    NPorts,         \* external ports 1 .. NPorts; port 0 is the local clock
    Enabled,        \* ports with portOper and ptpPortEnabled (fixed by the config)
    SeqMod,         \* number of sequence ids (65536)
    InitialSeqIds,  \* values rand() may give to syncSequenceId
    MaxSync,        \* bound: Sync transmissions of all upstream neighbours
    MaxTick,        \* bound: ticks of the clock master
    MaxReselect,    \* bound: changes of the port states
    TsuMayLose      \* may the TSU fail to record a transmit timestamp?

ASSUME PortsAssumption == NPorts \in Nat \ {0} /\ Enabled \subseteq 1 .. NPorts
ASSUME SeqAssumption == SeqMod \in Nat \ {0, 1} /\ InitialSeqIds \subseteq 0 .. SeqMod - 1

Ports == 1 .. NPorts
AllPorts == 0 .. NPorts
Role == {"MASTER", "SLAVE", "PASSIVE", "DISABLED"}
None == -1      \* a NULL pointer, or a timeout that was never set

VARIABLES
    roles, gmPresent,   \* selectedState[], gmPresent
    mdsr,               \* MDSyncReceiveSM per port
    mdss,               \* MDSyncSendSM per port, with the history of what it sent
    syncTimeoutFrom,    \* port whose sample last set syncReceiptTimeoutTime; the
                        \* clock master (0) sets it to "never"
    slaveSample,        \* sample ClockSlaveSync last applied to the RTC
    relayed,            \* history: the samples SiteSyncSync accepted, in order
    link, txTs,         \* messages from the upstream neighbour, TSU transmit FIFO
    lostTxTs,           \* history: ports that lost a transmit timestamp
    staleSyncs,         \* history: Syncs sent since the port stopped being MASTER
    nSync, nTick, nReselect

siteVars == <<syncTimeoutFrom, slaveSample, relayed, mdss, txTs, lostTxTs, staleSyncs>>
roleVars == <<roles, gmPresent, nReselect>>
vars == <<siteVars, roleVars, mdsr, link, nSync, nTick>>

\* What updtStatesTree can assign: at most one SLAVE port, and port 0 is SLAVE
\* (the local clock is the source) when there is none.
ValidRoles ==
    {r \in [AllPorts -> Role] :
        /\ \A p \in Ports : r[p] = "DISABLED" <=> p \notin Enabled
        /\ Cardinality({p \in Ports : r[p] = "SLAVE"}) <= 1
        /\ r[0] = IF \E p \in Ports : r[p] = "SLAVE" THEN "MASTER" ELSE "SLAVE"}

Init ==
    /\ roles \in ValidRoles
    /\ gmPresent = TRUE
    /\ mdsr = [p \in Ports |-> [state |-> "DISCARD", rcvdSync |-> FALSE,
                                rcvdFollowUp |-> FALSE, sync |-> None, followUp |-> None]]
    /\ mdss \in [Ports -> {[state |-> "INITIALIZING", rcvdMDSync |-> FALSE, md |-> 0,
                            txSeq |-> None, syncSequenceId |-> s, sent |-> << >>] : s \in InitialSeqIds}]
    /\ syncTimeoutFrom = None
    /\ slaveSample = 0
    /\ relayed = << >>
    /\ link = [p \in Ports |-> << >>]
    /\ txTs = [p \in Ports |-> << >>]
    /\ lostTxTs = {} /\ staleSyncs = [p \in Ports |-> 0]
    /\ nSync = 0 /\ nTick = 0 /\ nReselect = 0

-----------------------------------------------------------------------------
(* MDSyncSend                                                              *)

\* send_sync_action: send a Sync with the current id, then increment the id.
SendSync(m) ==
    [m EXCEPT !.state = "SEND_SYNC",
              !.rcvdMDSync = FALSE,
              !.txSeq = m.syncSequenceId,
              !.syncSequenceId = (@ + 1) % SeqMod,
              !.sent = Append(@, [kind |-> "Sync", seq |-> m.syncSequenceId, sample |-> m.md])]

\* send_follow_up_action: the id of the Sync, the data of the LATEST MDSyncSend.
SendFollowUp(m) ==
    [m EXCEPT !.state = "SEND_FOLLOW_UP",
              !.sent = Append(@, [kind |-> "FollowUp", seq |-> m.txSeq, sample |-> m.md])]

\* Mutant: a new sample restarts SEND_SYNC although a Sync is outstanding.
RecvMDSync_Restart(m, sample) ==
    SendSync([m EXCEPT !.rcvdMDSync = TRUE, !.md = sample])

\* md_sync_send_sm_recv_md_sync and the run it triggers: in SEND_SYNC the new
\* sample replaces the one of the outstanding Sync and stays pending.
RecvMDSync(m, sample) ==
    LET m1 == [m EXCEPT !.rcvdMDSync = TRUE, !.md = sample]
    IN IF m.state = "SEND_SYNC" THEN m1 ELSE SendSync(m1)

\* Mutant: the id is compared with the one of the next Sync.
TxTimestampMatches_Next(m, seq) == seq = m.syncSequenceId

\* tsuTimestamp.sequenceID != syncSequenceId - 1 is computed in int: for
\* syncSequenceId = 0 the right-hand side is -1.
TxTimestampMatches(m, seq) == seq = m.syncSequenceId - 1

\* md_sync_send_sm_txts and the run it triggers.
RecvTxTimestamp(m, seq) ==
    IF m.state # "SEND_SYNC" \/ ~TxTimestampMatches(m, seq) THEN m
    ELSE LET m1 == SendFollowUp(m) IN IF m1.rcvdMDSync THEN SendSync(m1) ELSE m1

\* A Sync was sent in this step: its TSU will stamp it.
SendsSync(p) == mdss'[p].syncSequenceId # mdss[p].syncSequenceId

-----------------------------------------------------------------------------
(* SiteSyncSync and the machines it calls                                  *)

\* Mutant: PortSyncSyncSend ignores the state of its own port.
PortSyncSyncSends_AnyRole(p, port) == port # p /\ p \in Enabled

\* PortSyncSyncSend hands a sample to MDSyncSend.
PortSyncSyncSends(p, port) == port # p /\ p \in Enabled /\ roles[p] = "MASTER"

\* PortSyncSyncReceive sets syncReceiptTimeoutTime for a Sync of ANY port, before
\* SiteSyncSync looks at the port's state; PortSyncSyncSend sets it when it sends.
SyncReceiptTimeoutAfter(port, sends) ==
    IF port # 0 \/ sends # {} THEN port ELSE syncTimeoutFrom

\* SiteSyncSync accepts a sample of the SLAVE port (port 0: of the clock master).
SiteAccepts(port) == roles[port] = "SLAVE" /\ gmPresent

\* site_sync_sync_sm_recv_pss: an accepted sample goes to ClockSlaveSync, which
\* sets the RTC offset, and to every PortSyncSyncSend.
SiteSyncReceive(sample) ==
    LET accepted == SiteAccepts(sample.port)
        n == Len(relayed) + 1
        sends == {p \in Ports : accepted /\ PortSyncSyncSends(p, sample.port)}
    IN /\ relayed' = IF accepted THEN Append(relayed, sample) ELSE relayed
       /\ slaveSample' = IF accepted THEN n ELSE slaveSample
       /\ mdss' = [p \in Ports |-> IF p \in sends THEN RecvMDSync(mdss[p], n) ELSE mdss[p]]
       /\ txTs' = [p \in Ports |-> IF SendsSync(p) THEN Append(txTs[p], mdss'[p].txSeq) ELSE txTs[p]]
       /\ staleSyncs' = [p \in Ports |-> IF SendsSync(p) /\ roles[p] # "MASTER"
                                         THEN staleSyncs[p] + 1 ELSE staleSyncs[p]]
       /\ syncTimeoutFrom' = SyncReceiptTimeoutAfter(sample.port, sends)
       /\ UNCHANGED lostTxTs

-----------------------------------------------------------------------------
(* MDSyncReceive                                                           *)

\* Mutant: the Follow_Up is taken whatever its sequence id.
FollowUpMatches_Any(r) == r.rcvdFollowUp

FollowUpMatches(r) == r.rcvdFollowUp /\ r.followUp = r.sync

\* waiting_for_sync_action: both flags are cleared and the sample delivered.
Delivered(r) == [r EXCEPT !.state = "WAITING_FOR_SYNC", !.rcvdSync = FALSE, !.rcvdFollowUp = FALSE]

\* A new Sync always restarts the wait for its Follow_Up.
Restarted(r) == [r EXCEPT !.state = "WAITING_FOR_FOLLOW_UP", !.rcvdSync = FALSE]

\* md_sync_receive_sm_run without the timeout, applied to machine r of port p.
MdSyncReceiveRun(p, r) ==
    LET r1 == IF r.rcvdSync /\ p \in Enabled THEN Restarted(r) ELSE r
    IN IF r1.state = "WAITING_FOR_FOLLOW_UP" /\ FollowUpMatches(r1)
       THEN /\ mdsr' = [mdsr EXCEPT ![p] = Delivered(r1)]
            /\ SiteSyncReceive([port |-> p, sync |-> r1.sync, followUp |-> r1.followUp])
       ELSE /\ mdsr' = [mdsr EXCEPT ![p] = r1]
            /\ UNCHANGED siteVars

RecvSync(p) ==
    /\ link[p] # << >> /\ Head(link[p]).kind = "Sync"
    /\ link' = [link EXCEPT ![p] = Tail(@)]
    /\ MdSyncReceiveRun(p, [mdsr[p] EXCEPT !.rcvdSync = TRUE, !.sync = Head(link[p]).seq])
    /\ UNCHANGED <<roleVars, nSync, nTick>>

RecvFollowUp(p) ==
    /\ link[p] # << >> /\ Head(link[p]).kind = "FollowUp"
    /\ link' = [link EXCEPT ![p] = Tail(@)]
    /\ MdSyncReceiveRun(p, [mdsr[p] EXCEPT !.rcvdFollowUp = TRUE, !.followUp = Head(link[p]).seq])
    /\ UNCHANGED <<roleVars, nSync, nTick>>

\* followUpReceiptTimeoutTime has passed in WAITING_FOR_FOLLOW_UP.
FollowUpReceiptTimeout(p) ==
    /\ mdsr[p].state = "WAITING_FOR_FOLLOW_UP"
    /\ mdsr' = [mdsr EXCEPT ![p].state = "DISCARD", ![p].rcvdSync = FALSE, ![p].rcvdFollowUp = FALSE]
    /\ UNCHANGED <<siteVars, roleVars, link, nSync, nTick>>

-----------------------------------------------------------------------------
(* The other inputs                                                        *)

\* ClockMasterSyncSend: syncSendTime has passed.
ClockMasterTick ==
    /\ nTick < MaxTick
    /\ nTick' = nTick + 1
    /\ SiteSyncReceive([port |-> 0, sync |-> nTick + 1, followUp |-> nTick + 1])
    /\ UNCHANGED <<roleVars, mdsr, link, nSync>>

\* The main loop finds a Sync timestamp in the port's TSU transmit FIFO.
PollTxTimestamp(p) ==
    /\ txTs[p] # << >>
    /\ mdss' = [mdss EXCEPT ![p] = RecvTxTimestamp(@, Head(txTs[p]))]
    /\ txTs' = [txTs EXCEPT ![p] = IF SendsSync(p) THEN Append(Tail(@), mdss'[p].txSeq) ELSE Tail(@)]
    /\ staleSyncs' = [staleSyncs EXCEPT ![p] = IF SendsSync(p) /\ roles[p] # "MASTER" THEN @ + 1 ELSE @]
    /\ UNCHANGED <<syncTimeoutFrom, slaveSample, relayed, lostTxTs, roleVars, mdsr, link, nSync, nTick>>

\* PortStateSelection assigns new port states between two inputs.
Reselect(r, present) ==
    /\ nReselect < MaxReselect
    /\ nReselect' = nReselect + 1
    /\ roles' = r /\ gmPresent' = present
    /\ staleSyncs' = [p \in Ports |-> IF r[p] = "MASTER" THEN 0 ELSE staleSyncs[p]]
    /\ UNCHANGED <<syncTimeoutFrom, slaveSample, relayed, mdss, txTs, lostTxTs, mdsr, link, nSync, nTick>>

\* External: the neighbour on port p sends a two-step Sync; ids do not repeat
\* within a run.
UpstreamSync(p) ==
    /\ nSync < MaxSync
    /\ nSync' = nSync + 1
    /\ link' = [link EXCEPT ![p] = @ \o << [kind |-> "Sync", seq |-> nSync + 1],
                                           [kind |-> "FollowUp", seq |-> nSync + 1] >>]
    /\ UNCHANGED <<siteVars, roleVars, mdsr, nTick>>

\* External: a message is lost before it reaches the main loop.
LoseMessage(p) ==
    /\ link[p] # << >>
    /\ link' = [link EXCEPT ![p] = Tail(@)]
    /\ UNCHANGED <<siteVars, roleVars, mdsr, nSync, nTick>>

\* External: the TSU does not record the transmit timestamp.
LoseTxTimestamp(p) ==
    /\ TsuMayLose /\ txTs[p] # << >>
    /\ txTs' = [txTs EXCEPT ![p] = Tail(@)]
    /\ lostTxTs' = lostTxTs \cup {p}
    /\ UNCHANGED <<syncTimeoutFrom, slaveSample, relayed, mdss, staleSyncs, roleVars, mdsr, link, nSync, nTick>>

MainLoop ==
    \/ ClockMasterTick
    \/ \E p \in Ports : \/ RecvSync(p) \/ RecvFollowUp(p) \/ FollowUpReceiptTimeout(p)
                        \/ PollTxTimestamp(p)
    \/ \E r \in ValidRoles, present \in BOOLEAN : Reselect(r, present)

Environment ==
    \E p \in Ports : UpstreamSync(p) \/ LoseMessage(p) \/ LoseTxTimestamp(p)

Next == MainLoop \/ Environment

Spec == Init /\ [][Next]_vars

\* The main loop polls the transmit FIFO of every port in every iteration.
FairSpec == Spec /\ \A p \in Ports : WF_vars(PollTxTimestamp(p))

-----------------------------------------------------------------------------
(* Properties                                                              *)

\* Every variable has its type.
TypeOK ==
    /\ roles \in [AllPorts -> Role] /\ gmPresent \in BOOLEAN
    /\ mdsr \in [Ports -> [state : {"DISCARD", "WAITING_FOR_FOLLOW_UP", "WAITING_FOR_SYNC"},
                           rcvdSync : BOOLEAN, rcvdFollowUp : BOOLEAN,
                           sync : Nat \cup {None}, followUp : Nat \cup {None}]]
    /\ mdss \in [Ports -> [state : {"INITIALIZING", "SEND_SYNC", "SEND_FOLLOW_UP"},
                           rcvdMDSync : BOOLEAN, md : Nat,
                           txSeq : (0 .. SeqMod - 1) \cup {None}, syncSequenceId : 0 .. SeqMod - 1,
                           sent : Seq([kind : {"Sync", "FollowUp"}, seq : 0 .. SeqMod - 1, sample : Nat])]]
    /\ syncTimeoutFrom \in AllPorts \cup {None}
    /\ slaveSample \in Nat
    /\ relayed \in Seq([port : AllPorts, sync : Nat, followUp : Nat])
    /\ link \in [Ports -> Seq([kind : {"Sync", "FollowUp"}, seq : Nat])]
    /\ txTs \in [Ports -> Seq(0 .. SeqMod - 1)]
    /\ lostTxTs \subseteq Ports /\ staleSyncs \in [Ports -> Nat]
    /\ nSync \in Nat /\ nTick \in Nat /\ nReselect \in Nat

\* md_sync_send_sm on every port sends Sync, Follow_Up, Sync, Follow_Up, ... and
\* each Follow_Up has the sequence id of the Sync before it, whatever samples,
\* losses and role changes come between sending a Sync and reading its timestamp.
TwoStepPairs ==
    \A p \in Ports : \A i \in DOMAIN mdss[p].sent :
        LET msg == mdss[p].sent[i]
        IN IF i % 2 = 1 THEN msg.kind = "Sync"
           ELSE msg.kind = "FollowUp" /\ msg.seq = mdss[p].sent[i - 1].seq

\* Every Follow_Up carries time that was really measured: a sample accepted by
\* SiteSyncSync, taken from a Sync and a Follow_Up of ONE upstream transmission
\* (md_sync_receive_sm matches them across losses), received on another port, and
\* not older than the sample that triggered its Sync.
FollowUpIsGenuine ==
    \A p \in Ports : \A i \in DOMAIN mdss[p].sent :
        mdss[p].sent[i].kind = "FollowUp" =>
            LET n == mdss[p].sent[i].sample
            IN /\ n \in DOMAIN relayed
               /\ relayed[n].sync = relayed[n].followUp
               /\ relayed[n].port # p
               /\ n >= mdss[p].sent[i - 1].sample

\* A port that stops being MASTER between a Sync and its timestamp sends at most
\* one more Sync: md_sync_send_sm itself never looks at selectedState, only the
\* one pending sample can slip through.
AtMostOneStaleSync == \A p \in Ports : staleSyncs[p] <= 1

\* From the moment a Sync of the slave port has been relayed until the clock master's own
\* sample is relayed again, syncReceiptTimeoutTime is that of a received Sync, so that the
\* loss of the Syncs will be noticed, also when no port is MASTER and none sends.  Nothing
\* is said of a bridge between its reselection and its first Sync: there the timeout is
\* still off, as its own samples have left it, or not set at all.
TimeoutIsOfASync ==
    relayed # << >> /\ relayed[Len(relayed)].port # 0 => syncTimeoutFrom \in Ports

\* Once PortSyncSyncSend has given MDSyncSend of port p a sample, the neighbour
\* gets a Follow_Up with that sample or a newer one: the port does not wait for
\* ever for the timestamp of its Sync, as long as the TSU records them all.
SampleReachesNeighbour ==
    \A p \in Ports, n \in 1 .. MaxSync + MaxTick :
        mdss[p].md >= n ~> \/ p \in lostTxTs
                           \/ \E i \in DOMAIN mdss[p].sent :
                                mdss[p].sent[i].kind = "FollowUp" /\ mdss[p].sent[i].sample >= n
=============================================================================
