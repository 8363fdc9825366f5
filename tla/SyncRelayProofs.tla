--------------------------- MODULE SyncRelayProofs ---------------------------
(***************************************************************************)
(* Proofs about SyncRelay, for every number of ports, every modulus of the *)
(* sequence ids and every bound: what each port sends is a sequence of     *)
(* Sync/Follow_Up pairs, every Follow_Up carries time that was measured, a *)
(* port sends at most one Sync after it stopped being MASTER, and the sync *)
(* receipt timeout is off only while the clock master is the source.       *)
(*                                                                         *)
(* Then about ClockSlave, for limbs of every width, lists of every length  *)
(* and every rate, delay and jump: the offset is that of the source within *)
(* 3 ns, and the rate is taken between the newest and the oldest sample.   *)
(***************************************************************************)
EXTENDS SyncRelay, ClockSlave, SequenceTheorems, TLAPS

-----------------------------------------------------------------------------
(* MDSyncSend: types and pairs                                             *)

Message == [kind : {"Sync", "FollowUp"}, seq : 0 .. SeqMod - 1, sample : Nat]
Sender == [state : {"INITIALIZING", "SEND_SYNC", "SEND_FOLLOW_UP"},
           rcvdMDSync : BOOLEAN, md : Nat,
           txSeq : (0 .. SeqMod - 1) \cup {None}, syncSequenceId : 0 .. SeqMod - 1,
           sent : Seq(Message)]

Last(s) == s[Len(s)]

\* What one port sent so far: TwoStepPairs of one port.
Pairs(s) ==
    \A i \in DOMAIN s : IF i % 2 = 1 THEN s[i].kind = "Sync"
                        ELSE s[i].kind = "FollowUp" /\ s[i].seq = s[i - 1].seq

\* A Sync without its Follow_Up is outstanding exactly in SEND_SYNC, and txSeq is its id.
MachineOK(m) ==
    /\ Pairs(m.sent)
    /\ m.state = "SEND_SYNC" <=> Len(m.sent) % 2 = 1
    /\ m.state = "SEND_SYNC" => m.txSeq = Last(m.sent).seq

\* A Sync after a complete pair, and a Follow_Up after a Sync, keep the alternation.
LEMMA AppendKeepsPairs ==
    ASSUME NEW s \in Seq(Message), NEW msg \in Message, Pairs(s),
           IF Len(s) % 2 = 1 THEN msg.kind = "FollowUp" /\ msg.seq = Last(s).seq
                             ELSE msg.kind = "Sync"
    PROVE  /\ Append(s, msg) \in Seq(Message) /\ Pairs(Append(s, msg))
           /\ Last(Append(s, msg)) = msg
           /\ Len(Append(s, msg)) % 2 = 1 <=> Len(s) % 2 # 1
<1> DEFINE t == Append(s, msg)
<1>1. /\ t \in Seq(Message) /\ Len(t) = Len(s) + 1 /\ t[Len(s) + 1] = msg
      /\ \A i \in 1 .. Len(s) : t[i] = s[i]
      /\ DOMAIN t = 1 .. Len(s) + 1 /\ DOMAIN s = 1 .. Len(s) /\ Len(s) \in Nat
  OBVIOUS
<1> HIDE DEF t
<1>2. Len(t) % 2 = 1 <=> Len(s) % 2 # 1
  BY <1>1
<1>3. Last(t) = msg
  BY <1>1 DEF Last
<1>4. ASSUME NEW i \in DOMAIN t
      PROVE  IF i % 2 = 1 THEN t[i].kind = "Sync"
             ELSE t[i].kind = "FollowUp" /\ t[i].seq = t[i - 1].seq
  <2>1. CASE i \in 1 .. Len(s) /\ i - 1 \in 1 .. Len(s)
    BY <1>1, <2>1 DEF Pairs
  <2>2. CASE i = 1
    BY <1>1, <2>2 DEF Pairs
  <2>3. CASE i = Len(s) + 1 /\ i # 1
    <3>1. i - 1 = Len(s) /\ i - 1 \in 1 .. Len(s)
      BY <1>1, <2>3
    <3>2. t[i] = msg /\ t[i - 1] = Last(s)
      BY <1>1, <2>3, <3>1 DEF Last
    <3>3. i % 2 = 1 <=> Len(s) % 2 # 1
      BY <1>1, <2>3
    <3>4. QED
      BY <3>2, <3>3
  <2>4. QED
    BY <1>1, <2>1, <2>2, <2>3
<1>5. QED
  BY <1>1, <1>2, <1>3, <1>4 DEF Pairs, t

\* send_sync_action after a Follow_Up, or as the first action, starts a new pair.
LEMMA SendSyncStartsPair ==
    ASSUME NEW m \in Sender, MachineOK(m), m.state # "SEND_SYNC"
    PROVE  /\ SendSync(m) \in Sender /\ MachineOK(SendSync(m))
           /\ SendSync(m).sent = Append(m.sent, [kind |-> "Sync", seq |-> m.syncSequenceId,
                                                 sample |-> m.md])
<1> DEFINE msg == [kind |-> "Sync", seq |-> m.syncSequenceId, sample |-> m.md]
           n == SendSync(m)
<1>1. m.sent \in Seq(Message) /\ msg \in Message /\ msg.kind = "Sync" /\ msg.seq = m.syncSequenceId
  BY SeqAssumption DEF Sender, Message
<1>2. n.sent = Append(m.sent, msg) /\ n.state = "SEND_SYNC" /\ n.txSeq = m.syncSequenceId
  BY DEF Sender, SendSync
<1>3. (m.syncSequenceId + 1) % SeqMod \in 0 .. SeqMod - 1
  BY SeqAssumption DEF Sender
<1>4. Pairs(m.sent) /\ Len(m.sent) % 2 # 1
  BY DEF MachineOK
<1> HIDE DEF msg
<1>5. /\ Append(m.sent, msg) \in Seq(Message) /\ Pairs(Append(m.sent, msg))
      /\ Last(Append(m.sent, msg)) = msg /\ Len(Append(m.sent, msg)) % 2 = 1
  BY <1>1, <1>4, AppendKeepsPairs
<1>6. n \in Sender
  BY <1>3, <1>5 DEF Sender, SendSync, msg
<1> HIDE DEF n
<1>7. MachineOK(n)
  BY <1>1, <1>2, <1>5 DEF MachineOK
<1>8. QED
  BY <1>2, <1>6, <1>7 DEF n, msg

\* send_follow_up_action with a Sync outstanding completes its pair.
LEMMA SendFollowUpCompletesPair ==
    ASSUME NEW m \in Sender, MachineOK(m), m.state = "SEND_SYNC"
    PROVE  /\ SendFollowUp(m) \in Sender /\ MachineOK(SendFollowUp(m))
           /\ SendFollowUp(m).sent = Append(m.sent, [kind |-> "FollowUp", seq |-> m.txSeq,
                                                     sample |-> m.md])
<1> DEFINE msg == [kind |-> "FollowUp", seq |-> m.txSeq, sample |-> m.md]
           n == SendFollowUp(m)
<1>1. Pairs(m.sent) /\ Len(m.sent) % 2 = 1 /\ m.txSeq = Last(m.sent).seq
  BY DEF MachineOK
<1>2. Len(m.sent) \in Nat \ {0} /\ m.sent \in Seq(Message)
  BY <1>1 DEF Sender
<1>3. Last(m.sent) \in Message
  BY <1>2 DEF Last
<1>4. msg \in Message /\ msg.kind = "FollowUp" /\ msg.seq = m.txSeq
  BY <1>1, <1>3 DEF Sender, Message
<1>5. n.sent = Append(m.sent, msg) /\ n.state = "SEND_FOLLOW_UP"
  BY DEF Sender, SendFollowUp
<1> HIDE DEF msg
<1>6. /\ Append(m.sent, msg) \in Seq(Message) /\ Pairs(Append(m.sent, msg))
      /\ Len(Append(m.sent, msg)) % 2 # 1
  BY <1>1, <1>2, <1>4, AppendKeepsPairs
<1>7. n \in Sender
  BY <1>6 DEF Sender, SendFollowUp, msg
<1> HIDE DEF n
<1>8. MachineOK(n)
  BY <1>5, <1>6 DEF MachineOK
<1>9. QED
  BY <1>5, <1>7, <1>8 DEF n, msg

\* md_sync_send_sm_recv_md_sync, in every state.
LEMMA RecvMDSyncKeepsPairs ==
    ASSUME NEW m \in Sender, MachineOK(m), NEW n \in Nat
    PROVE  RecvMDSync(m, n) \in Sender /\ MachineOK(RecvMDSync(m, n))
<1> DEFINE m1 == [m EXCEPT !.rcvdMDSync = TRUE, !.md = n]
<1>1. m1 \in Sender /\ MachineOK(m1) /\ m1.state = m.state
  BY DEF Sender, MachineOK
<1>2. QED
  BY <1>1, SendSyncStartsPair DEF RecvMDSync

\* A new sample advances syncSequenceId only by sending a Sync with the old one.
LEMMA SentSyncHasItsId ==
    ASSUME NEW m \in Sender, NEW n \in Nat,
           RecvMDSync(m, n).syncSequenceId # m.syncSequenceId
    PROVE  /\ m.state # "SEND_SYNC"
           /\ RecvMDSync(m, n).txSeq = m.syncSequenceId
           /\ RecvMDSync(m, n).rcvdMDSync = FALSE
<1> DEFINE m1 == [m EXCEPT !.rcvdMDSync = TRUE, !.md = n]
<1>1. m1 \in Sender /\ m1.syncSequenceId = m.syncSequenceId
  BY DEF Sender
<1>2. m.state # "SEND_SYNC" /\ RecvMDSync(m, n) = SendSync(m1)
  BY <1>1 DEF RecvMDSync
<1> HIDE DEF m1
<1>3. SendSync(m1).txSeq = m1.syncSequenceId /\ SendSync(m1).rcvdMDSync = FALSE
  BY <1>1 DEF SendSync, Sender
<1>4. QED
  BY <1>1, <1>2, <1>3

\* So does a timestamp.
LEMMA AdvanceHasItsId ==
    ASSUME NEW m \in Sender, MachineOK(m), NEW seq,
           RecvTxTimestamp(m, seq).syncSequenceId # m.syncSequenceId
    PROVE  RecvTxTimestamp(m, seq).txSeq = m.syncSequenceId
<1> DEFINE m1 == SendFollowUp(m)
<1>1. m.state = "SEND_SYNC" /\ TxTimestampMatches(m, seq)
  BY DEF RecvTxTimestamp
<1>2. m1 \in Sender /\ m1.syncSequenceId = m.syncSequenceId
  BY <1>1, SendFollowUpCompletesPair DEF SendFollowUp, Sender
<1>3. RecvTxTimestamp(m, seq) = IF m1.rcvdMDSync THEN SendSync(m1) ELSE m1
  BY <1>1 DEF RecvTxTimestamp
<1> HIDE DEF m1
<1>4. SendSync(m1).txSeq = m1.syncSequenceId
  BY <1>2 DEF SendSync, Sender
<1>5. QED
  BY <1>2, <1>3, <1>4

\* md_sync_send_sm_txts, in every state and for every timestamp.
LEMMA RecvTxTimestampKeepsPairs ==
    ASSUME NEW m \in Sender, MachineOK(m), NEW seq
    PROVE  RecvTxTimestamp(m, seq) \in Sender /\ MachineOK(RecvTxTimestamp(m, seq))
<1> DEFINE m1 == SendFollowUp(m)
<1>1. CASE m.state # "SEND_SYNC" \/ ~TxTimestampMatches(m, seq)
  BY <1>1 DEF RecvTxTimestamp
<1>2. CASE ~(m.state # "SEND_SYNC" \/ ~TxTimestampMatches(m, seq))
  <2>1. m1 \in Sender /\ MachineOK(m1) /\ m1.state # "SEND_SYNC"
    BY <1>2, SendFollowUpCompletesPair DEF SendFollowUp, Sender
  <2>2. RecvTxTimestamp(m, seq) = IF m1.rcvdMDSync THEN SendSync(m1) ELSE m1
    BY <1>2 DEF RecvTxTimestamp
  <2>3. QED
    BY <2>1, <2>2, SendSyncStartsPair
<1>3. QED
  BY <1>1, <1>2

-----------------------------------------------------------------------------
(* The types, and the pairs of all ports                                   *)

Sample == [port : AllPorts, sync : Nat, followUp : Nat]

\* A wait for a Follow_Up has a Sync, and a received message has a sequence id.
ReceiverOK(r) ==
    /\ r.state = "WAITING_FOR_FOLLOW_UP" \/ r.rcvdSync => r.sync # None
    /\ r.rcvdFollowUp => r.followUp # None

SiteTypeOK ==
    /\ mdss \in [Ports -> Sender]
    /\ syncTimeoutFrom \in AllPorts \cup {None}
    /\ slaveSample \in Nat
    /\ relayed \in Seq(Sample)
    /\ txTs \in [Ports -> Seq(0 .. SeqMod - 1)]
    /\ lostTxTs \subseteq Ports /\ staleSyncs \in [Ports -> Nat]

Machines == \A p \in Ports : MachineOK(mdss[p])
Receivers == \A p \in Ports : ReceiverOK(mdsr[p])

IInv == TypeOK /\ Machines /\ Receivers

LEMMA TypeOKHasSite == TypeOK => SiteTypeOK
  BY DEF TypeOK, SiteTypeOK, Sender, Message, Sample

LEMMA InitIInv == Init => IInv
<1> SUFFICES ASSUME Init PROVE IInv
  OBVIOUS
<1>1. mdss \in [Ports -> Sender]
  <2>1. ASSUME NEW q \in InitialSeqIds
        PROVE  [state |-> "INITIALIZING", rcvdMDSync |-> FALSE, md |-> 0, txSeq |-> None,
                syncSequenceId |-> q, sent |-> << >>] \in Sender
    BY SeqAssumption DEF Sender
  <2>2. QED
    BY <2>1 DEF Init
<1>2. Machines
  <2>1. \A p \in Ports : mdss[p].state = "INITIALIZING" /\ mdss[p].sent = << >>
    BY DEF Init
  <2>2. QED
    <3>1. Len(<< >>) % 2 # 1 /\ Pairs(<< >>)
      BY DEF Pairs
    <3>2. QED
      BY <2>1, <3>1 DEF Machines, MachineOK
<1>3. Receivers
  BY DEF Init, Receivers, ReceiverOK
<1>4. roles \in [AllPorts -> Role]
  BY DEF Init, ValidRoles
<1>5. /\ link \in [Ports -> Seq([kind : {"Sync", "FollowUp"}, seq : Nat])]
      /\ txTs \in [Ports -> Seq(0 .. SeqMod - 1)] /\ staleSyncs \in [Ports -> Nat]
      /\ relayed \in Seq(Sample)
  BY DEF Init
<1>6. mdsr \in [Ports -> [state : {"DISCARD", "WAITING_FOR_FOLLOW_UP", "WAITING_FOR_SYNC"},
                          rcvdSync : BOOLEAN, rcvdFollowUp : BOOLEAN,
                          sync : Nat \cup {None}, followUp : Nat \cup {None}]]
  BY DEF Init
<1>7. TypeOK
  BY <1>1, <1>4, <1>5, <1>6 DEF Init, TypeOK, Sender, Message, Sample
<1>8. QED
  BY <1>2, <1>3, <1>7 DEF IInv

\* site_sync_sync_sm_recv_pss and all it calls, for any sample.
LEMMA SiteSyncReceiveOK ==
    ASSUME SiteTypeOK, Machines, NEW sample \in Sample, SiteSyncReceive(sample)
    PROVE  SiteTypeOK' /\ Machines'
<1> DEFINE sends == {p \in Ports : SiteAccepts(sample.port) /\ PortSyncSyncSends(p, sample.port)}
           n == Len(relayed) + 1
<1>1. n \in Nat /\ sample.port \in AllPorts
  BY DEF SiteTypeOK, Sample
<1>2. mdss' = [p \in Ports |-> IF p \in sends THEN RecvMDSync(mdss[p], n) ELSE mdss[p]]
  BY DEF SiteSyncReceive
<1>3. \A p \in Ports : RecvMDSync(mdss[p], n) \in Sender /\ MachineOK(RecvMDSync(mdss[p], n))
  BY <1>1, RecvMDSyncKeepsPairs DEF SiteTypeOK, Machines
<1>4. mdss' \in [Ports -> Sender] /\ Machines'
  BY <1>2, <1>3 DEF SiteTypeOK, Machines
<1>5. txTs' \in [Ports -> Seq(0 .. SeqMod - 1)]
  <2>1. txTs' = [p \in Ports |-> IF SendsSync(p) THEN Append(txTs[p], mdss'[p].txSeq) ELSE txTs[p]]
    BY DEF SiteSyncReceive
  <2>2. ASSUME NEW p \in Ports, SendsSync(p) PROVE mdss'[p].txSeq \in 0 .. SeqMod - 1
    <3>1. mdss'[p] = RecvMDSync(mdss[p], n) /\ mdss[p] \in Sender
      BY <1>2, <2>2 DEF SendsSync, SiteTypeOK
    <3>2. mdss'[p].txSeq = mdss[p].syncSequenceId
      BY <1>1, <2>2, <3>1, SentSyncHasItsId DEF SendsSync
    <3>3. QED
      BY <3>1, <3>2 DEF Sender
  <2>3. ASSUME NEW p \in Ports
        PROVE  (IF SendsSync(p) THEN Append(txTs[p], mdss'[p].txSeq) ELSE txTs[p])
                 \in Seq(0 .. SeqMod - 1)
    <3>1. txTs[p] \in Seq(0 .. SeqMod - 1)
      BY DEF SiteTypeOK
    <3>2. CASE SendsSync(p)
      BY <2>2, <3>1, <3>2, AppendProperties
    <3>3. CASE ~SendsSync(p)
      BY <3>1, <3>3
    <3>4. QED
      BY <3>2, <3>3
  <2>4. QED
    BY <2>1, <2>3
<1>6. staleSyncs' \in [Ports -> Nat] /\ slaveSample' \in Nat /\ lostTxTs' \subseteq Ports
  BY <1>1 DEF SiteSyncReceive, SiteTypeOK
<1>7. relayed' \in Seq(Sample)
  BY DEF SiteSyncReceive, SiteTypeOK
<1>8. syncTimeoutFrom' \in AllPorts \cup {None}
  BY <1>1 DEF SiteSyncReceive, SyncReceiptTimeoutAfter, SiteTypeOK
<1>9. QED
  BY <1>4, <1>5, <1>6, <1>7, <1>8 DEF SiteTypeOK

Receiver == [state : {"DISCARD", "WAITING_FOR_FOLLOW_UP", "WAITING_FOR_SYNC"},
             rcvdSync : BOOLEAN, rcvdFollowUp : BOOLEAN,
             sync : Nat \cup {None}, followUp : Nat \cup {None}]

\* md_sync_receive_sm_run delivers a sample only with the Sync and the Follow_Up of one id.
LEMMA MdSyncReceiveRunOK ==
    ASSUME SiteTypeOK, Machines, Receivers, mdsr \in [Ports -> Receiver],
           NEW p \in Ports, NEW r \in Receiver, ReceiverOK(r), MdSyncReceiveRun(p, r)
    PROVE  /\ mdsr' \in [Ports -> Receiver] /\ Receivers'
           /\ SiteTypeOK' /\ Machines'
           /\ \/ UNCHANGED siteVars
              \/ \E sample \in Sample : sample.sync = sample.followUp /\ SiteSyncReceive(sample)
<1> DEFINE r1 == IF r.rcvdSync /\ p \in Enabled THEN Restarted(r) ELSE r
<1>1. r1 \in Receiver /\ ReceiverOK(r1)
  BY DEF Receiver, ReceiverOK, Restarted
<1>2. CASE r1.state = "WAITING_FOR_FOLLOW_UP" /\ FollowUpMatches(r1)
  <2>1. mdsr' = [mdsr EXCEPT ![p] = Delivered(r1)]
    BY <1>2 DEF MdSyncReceiveRun
  <2> DEFINE sample == [port |-> p, sync |-> r1.sync, followUp |-> r1.followUp]
  <2>2. sample \in Sample /\ sample.sync = sample.followUp
    BY <1>1, <1>2 DEF Sample, Receiver, ReceiverOK, FollowUpMatches, AllPorts, Ports
  <2>3. SiteSyncReceive(sample)
    BY <1>2 DEF MdSyncReceiveRun
  <2>4. Delivered(r1) \in Receiver /\ ReceiverOK(Delivered(r1))
    BY <1>1 DEF Delivered, Receiver, ReceiverOK
  <2> HIDE DEF sample, r1
  <2>5. mdsr' \in [Ports -> Receiver] /\ Receivers'
    BY <2>1, <2>4 DEF Receivers
  <2>6. SiteTypeOK' /\ Machines'
    BY <2>2, <2>3, SiteSyncReceiveOK
  <2>7. QED
    BY <2>2, <2>3, <2>5, <2>6
<1>3. CASE ~(r1.state = "WAITING_FOR_FOLLOW_UP" /\ FollowUpMatches(r1))
  <2>1. mdsr' = [mdsr EXCEPT ![p] = r1] /\ UNCHANGED siteVars
    BY <1>3 DEF MdSyncReceiveRun
  <2> HIDE DEF r1
  <2>2. mdsr' \in [Ports -> Receiver] /\ Receivers'
    BY <1>1, <2>1 DEF Receivers
  <2>3. QED
    BY <2>1, <2>2 DEF siteVars, SiteTypeOK, Machines
<1>4. QED
  BY <1>2, <1>3

\* md_sync_send_sm_txts, and the Sync it may send, keep the types of one port.
LEMMA PollTxTimestampOK ==
    ASSUME SiteTypeOK, Machines, NEW p \in Ports, PollTxTimestamp(p)
    PROVE  SiteTypeOK' /\ Machines'
<1> DEFINE m == RecvTxTimestamp(mdss[p], Head(txTs[p]))
<1>1. txTs[p] \in Seq(0 .. SeqMod - 1) /\ txTs[p] # << >>
  BY DEF PollTxTimestamp, SiteTypeOK
<1>2. m \in Sender /\ MachineOK(m)
  BY RecvTxTimestampKeepsPairs DEF SiteTypeOK, Machines
<1>3. mdss' = [mdss EXCEPT ![p] = m]
  BY DEF PollTxTimestamp
<1>4. SendsSync(p) => m.txSeq \in 0 .. SeqMod - 1
  <2>1. mdss[p] \in Sender /\ MachineOK(mdss[p]) /\ mdss'[p] = m
    BY <1>3 DEF SiteTypeOK, Machines
  <2>2. SendsSync(p) => m.txSeq = mdss[p].syncSequenceId
    BY <2>1, AdvanceHasItsId DEF SendsSync
  <2>3. QED
    BY <2>1, <2>2 DEF Sender
<1> HIDE DEF m
<1>5. mdss' \in [Ports -> Sender] /\ Machines'
  BY <1>2, <1>3 DEF SiteTypeOK, Machines
<1>6. txTs' \in [Ports -> Seq(0 .. SeqMod - 1)]
  <2> DEFINE q == IF SendsSync(p) THEN Append(Tail(txTs[p]), m.txSeq) ELSE Tail(txTs[p])
  <2>1. txTs' = [txTs EXCEPT ![p] = q]
    BY <1>3 DEF PollTxTimestamp, SiteTypeOK
  <2>2. Tail(txTs[p]) \in Seq(0 .. SeqMod - 1)
    BY <1>1, HeadTailProperties
  <2>3. q \in Seq(0 .. SeqMod - 1)
    BY <1>4, <2>2, AppendProperties
  <2> HIDE DEF q
  <2>4. QED
    BY <2>1, <2>3 DEF SiteTypeOK
<1>7. staleSyncs' \in [Ports -> Nat]
  BY DEF PollTxTimestamp, SiteTypeOK
<1>8. QED
  BY <1>5, <1>6, <1>7 DEF PollTxTimestamp, SiteTypeOK

\* The main loop's other inputs and the environment do not touch MDSyncSend.
LEMMA StepIInv ==
    ASSUME IInv, [Next]_vars
    PROVE  IInv'
<1>1. SiteTypeOK /\ Machines /\ Receivers /\ mdsr \in [Ports -> Receiver]
  BY TypeOKHasSite DEF IInv, TypeOK, Receiver
<1> DEFINE Rest == /\ roles \in [AllPorts -> Role] /\ gmPresent \in BOOLEAN
                   /\ link \in [Ports -> Seq([kind : {"Sync", "FollowUp"}, seq : Nat])]
                   /\ nSync \in Nat /\ nTick \in Nat /\ nReselect \in Nat
<1>2. Rest
  BY DEF IInv, TypeOK
<1>3. SiteTypeOK' /\ Machines' /\ Receivers' /\ mdsr' \in [Ports -> Receiver] /\ Rest' => IInv'
  BY DEF IInv, TypeOK, SiteTypeOK, Sender, Message, Sample, Receiver
<1>4. ASSUME UNCHANGED siteVars PROVE SiteTypeOK' /\ Machines'
  BY <1>1, <1>4 DEF siteVars, SiteTypeOK, Machines
<1>5. ASSUME UNCHANGED mdsr PROVE Receivers' /\ mdsr' \in [Ports -> Receiver]
  BY <1>1, <1>5 DEF Receivers
<1>6. ASSUME NEW p \in Ports, RecvSync(p) \/ RecvFollowUp(p) PROVE IInv'
  <2>1. Head(link[p]) \in [kind : {"Sync", "FollowUp"}, seq : Nat] /\ mdsr[p] \in Receiver
    BY <1>1, <1>2, <1>6, HeadTailProperties DEF RecvSync, RecvFollowUp
  <2>2. Rest'
    <3>1. Tail(link[p]) \in Seq([kind : {"Sync", "FollowUp"}, seq : Nat])
      BY <1>2, <1>6, HeadTailProperties DEF RecvSync, RecvFollowUp
    <3>2. QED
      BY <1>2, <1>6, <3>1 DEF RecvSync, RecvFollowUp, roleVars
  <2>3. Head(link[p]).seq \in Nat /\ ReceiverOK(mdsr[p])
    BY <1>1, <2>1 DEF Receivers
  <2>4. PICK r \in Receiver : ReceiverOK(r) /\ MdSyncReceiveRun(p, r)
    <3>1. CASE RecvSync(p)
      <4> DEFINE r == [mdsr[p] EXCEPT !.rcvdSync = TRUE, !.sync = Head(link[p]).seq]
      <4>1. r \in Receiver
        BY <2>1, <2>3 DEF Receiver
      <4>2. ReceiverOK(r)
        BY <2>1, <2>3 DEF Receiver, ReceiverOK, None
      <4>3. QED
        BY <3>1, <4>1, <4>2 DEF RecvSync
    <3>2. CASE RecvFollowUp(p)
      <4> DEFINE r == [mdsr[p] EXCEPT !.rcvdFollowUp = TRUE, !.followUp = Head(link[p]).seq]
      <4>1. r \in Receiver
        BY <2>1, <2>3 DEF Receiver
      <4>2. ReceiverOK(r)
        BY <2>1, <2>3 DEF Receiver, ReceiverOK, None
      <4>3. QED
        BY <3>2, <4>1, <4>2 DEF RecvFollowUp
    <3>3. QED
      BY <1>6, <3>1, <3>2
  <2>5. QED
    BY <1>1, <1>3, <2>2, <2>4, MdSyncReceiveRunOK
<1>7. ASSUME NEW p \in Ports, FollowUpReceiptTimeout(p) PROVE IInv'
  <2>1. mdsr' \in [Ports -> Receiver] /\ Receivers'
    <3> DEFINE r == [mdsr[p] EXCEPT !.state = "DISCARD", !.rcvdSync = FALSE, !.rcvdFollowUp = FALSE]
    <3>1. mdsr' = [mdsr EXCEPT ![p] = r]
      BY <1>1, <1>7 DEF FollowUpReceiptTimeout
    <3>2. r \in Receiver /\ ReceiverOK(r)
      BY <1>1 DEF Receiver, ReceiverOK
    <3> HIDE DEF r
    <3>3. QED
      BY <1>1, <3>1, <3>2 DEF Receivers
  <2>2. QED
    BY <1>2, <1>3, <1>4, <1>7, <2>1 DEF FollowUpReceiptTimeout, roleVars
<1>8. CASE ClockMasterTick
  <2>1. [port |-> 0, sync |-> nTick + 1, followUp |-> nTick + 1] \in Sample
    BY <1>2, PortsAssumption DEF Sample, AllPorts
  <2>2. QED
    BY <1>1, <1>2, <1>3, <1>5, <1>8, <2>1, SiteSyncReceiveOK DEF ClockMasterTick, roleVars
<1>9. ASSUME NEW p \in Ports, PollTxTimestamp(p) PROVE IInv'
  BY <1>1, <1>2, <1>3, <1>5, <1>9, PollTxTimestampOK DEF PollTxTimestamp, roleVars
<1>10. ASSUME NEW r \in ValidRoles, NEW present \in BOOLEAN, Reselect(r, present) PROVE IInv'
  <2>1. SiteTypeOK' /\ Machines'
    BY <1>1, <1>10 DEF Reselect, SiteTypeOK, Machines
  <2>2. Rest'
    BY <1>2, <1>10 DEF Reselect, ValidRoles
  <2>3. QED
    BY <1>3, <1>5, <1>10, <2>1, <2>2 DEF Reselect
<1>11. ASSUME NEW p \in Ports, UpstreamSync(p) \/ LoseMessage(p) PROVE IInv'
  <2>1. Rest'
    <3>1. CASE UpstreamSync(p)
      <4> DEFINE new == << [kind |-> "Sync", seq |-> nSync + 1], [kind |-> "FollowUp", seq |-> nSync + 1] >>
      <4>1. new \in Seq([kind : {"Sync", "FollowUp"}, seq : Nat])
        BY <1>2
      <4> HIDE DEF new
      <4>2. link[p] \o new \in Seq([kind : {"Sync", "FollowUp"}, seq : Nat])
        BY <1>2, <4>1
      <4>3. link' = [link EXCEPT ![p] = link[p] \o new]
        BY <3>1 DEF UpstreamSync, new
      <4>4. QED
        BY <1>2, <3>1, <4>2, <4>3 DEF UpstreamSync, roleVars
    <3>2. CASE LoseMessage(p)
      <4>1. Tail(link[p]) \in Seq([kind : {"Sync", "FollowUp"}, seq : Nat])
        BY <1>2, <3>2, HeadTailProperties DEF LoseMessage
      <4>2. QED
        BY <1>2, <3>2, <4>1 DEF LoseMessage, roleVars
    <3>3. QED
      BY <1>11, <3>1, <3>2
  <2>2. QED
    BY <1>3, <1>4, <1>5, <1>11, <2>1 DEF UpstreamSync, LoseMessage
<1>12. ASSUME NEW p \in Ports, LoseTxTimestamp(p) PROVE IInv'
  <2>1. Tail(txTs[p]) \in Seq(0 .. SeqMod - 1)
    BY <1>1, <1>12, HeadTailProperties DEF LoseTxTimestamp, SiteTypeOK
  <2>2. SiteTypeOK' /\ Machines'
    BY <1>1, <1>12, <2>1 DEF LoseTxTimestamp, SiteTypeOK, Machines
  <2>3. QED
    BY <1>2, <1>3, <1>5, <1>12, <2>2 DEF LoseTxTimestamp, roleVars
<1>13. CASE UNCHANGED vars
  BY <1>2, <1>3, <1>4, <1>5, <1>13 DEF vars, roleVars
<1>14. QED
  BY <1>6, <1>7, <1>8, <1>9, <1>10, <1>11, <1>12, <1>13 DEF Next, MainLoop, Environment

\* Every variable of the machines along the path of synchronized time keeps its type; in
\* particular a sequence id stays below its modulus.
THEOREM TypeCorrect == Spec => []TypeOK
<1>1. IInv => TypeOK
  BY DEF IInv
<1>2. QED
  BY InitIInv, StepIInv, <1>1, PTL DEF Spec

\* Every port sends Sync and Follow_Up in turn, each Follow_Up with the sequence id of its
\* Sync, whatever samples, losses, timeouts and role changes come between.
THEOREM FollowUpsArePaired == Spec => []TwoStepPairs
<1>1. IInv => TwoStepPairs
  BY DEF IInv, Machines, MachineOK, Pairs, TwoStepPairs
<1>2. QED
  BY InitIInv, StepIInv, <1>1, PTL DEF Spec

-----------------------------------------------------------------------------
(* Every Follow_Up carries measured time                                   *)

\* The Follow_Ups that port p sent, s, are genuine with respect to the samples r that
\* SiteSyncSync accepted.
Carries(n, before, p, r) ==
    n \in DOMAIN r /\ r[n].sync = r[n].followUp /\ r[n].port # p /\ n >= before
FollowUpsOK(s, p, r) ==
    \A i \in DOMAIN s : s[i].kind = "FollowUp" => Carries(s[i].sample, s[i - 1].sample, p, r)

\* md is a sample of another port, and not older than the one of an outstanding Sync.
Genuine(m, p, r) ==
    /\ FollowUpsOK(m.sent, p, r)
    /\ m.md <= Len(r)
    /\ m.state # "INITIALIZING" => m.md \in DOMAIN r /\ r[m.md].port # p
    /\ m.state = "SEND_SYNC" => m.md >= Last(m.sent).sample

Matched(r) == \A n \in DOMAIN r : r[n].sync = r[n].followUp

GInv == Matched(relayed) /\ \A p \in Ports : Genuine(mdss[p], p, relayed)

LEMMA OddIsPositive == \A n \in Nat : n % 2 = 1 => n # 0
  OBVIOUS

LEMMA AppendKeepsFollowUps ==
    ASSUME NEW s \in Seq(Message), NEW msg \in Message, Pairs(s), NEW p, NEW r,
           FollowUpsOK(s, p, r),
           msg.kind = "FollowUp" => s # << >> /\ Carries(msg.sample, Last(s).sample, p, r)
    PROVE  FollowUpsOK(Append(s, msg), p, r)
<1> DEFINE t == Append(s, msg)
<1>1. /\ t[Len(s) + 1] = msg /\ \A i \in 1 .. Len(s) : t[i] = s[i]
      /\ DOMAIN t = 1 .. Len(s) + 1 /\ DOMAIN s = 1 .. Len(s) /\ Len(s) \in Nat
      /\ s # << >> => Len(s) > 0
  OBVIOUS
<1> HIDE DEF t
<1>2. ASSUME NEW i \in DOMAIN t, t[i].kind = "FollowUp"
      PROVE  Carries(t[i].sample, t[i - 1].sample, p, r)
  <2>1. CASE i \in 1 .. Len(s)
    <3>1. i # 1
      BY <1>1, <1>2, <2>1 DEF Pairs
    <3>2. i - 1 \in 1 .. Len(s)
      BY <1>1, <2>1, <3>1
    <3>3. t[i] = s[i] /\ t[i - 1] = s[i - 1]
      BY <1>1, <2>1, <3>2
    <3>4. QED
      BY <1>1, <1>2, <2>1, <3>3 DEF FollowUpsOK
  <2>2. CASE i = Len(s) + 1
    <3>1. t[i] = msg
      BY <1>1, <2>2
    <3>2. s # << >> /\ Carries(msg.sample, Last(s).sample, p, r)
      BY <1>2, <3>1
    <3>3. t[i - 1] = Last(s)
      BY <1>1, <2>2, <3>2 DEF Last
    <3>4. QED
      BY <3>1, <3>2, <3>3
  <2>3. QED
    BY <1>1, <2>1, <2>2
<1>3. QED
  BY <1>2 DEF FollowUpsOK, t

LEMMA SendSyncGenuine ==
    ASSUME NEW m \in Sender, MachineOK(m), m.state # "SEND_SYNC", NEW p, NEW r,
           FollowUpsOK(m.sent, p, r), m.md <= Len(r), m.md \in DOMAIN r, r[m.md].port # p
    PROVE  Genuine(SendSync(m), p, r)
<1> DEFINE msg == [kind |-> "Sync", seq |-> m.syncSequenceId, sample |-> m.md]
           n == SendSync(m)
<1>1. /\ msg \in Message /\ msg.kind = "Sync" /\ msg.sample = m.md
      /\ m.sent \in Seq(Message) /\ Pairs(m.sent) /\ m.md \in Nat
  BY SeqAssumption DEF Sender, Message, MachineOK
<1>2. n.sent = Append(m.sent, msg) /\ n.md = m.md /\ n.state = "SEND_SYNC"
  BY DEF SendSync, Sender
<1> HIDE DEF msg, n
<1>3. FollowUpsOK(n.sent, p, r)
  BY <1>1, <1>2, AppendKeepsFollowUps
<1>4. Last(n.sent) = msg
  BY <1>1, <1>2, AppendProperties DEF Last
<1>5. Genuine(n, p, r)
  BY <1>1, <1>2, <1>3, <1>4 DEF Genuine
<1>6. QED
  BY <1>5 DEF n

LEMMA SendFollowUpGenuine ==
    ASSUME NEW m \in Sender, MachineOK(m), m.state = "SEND_SYNC", NEW p, NEW r,
           Matched(r), Genuine(m, p, r)
    PROVE  Genuine(SendFollowUp(m), p, r)
<1> DEFINE msg == [kind |-> "FollowUp", seq |-> m.txSeq, sample |-> m.md]
           n == SendFollowUp(m)
<1>1. m.sent \in Seq(Message) /\ Pairs(m.sent) /\ Len(m.sent) % 2 = 1 /\ m.txSeq = Last(m.sent).seq
  BY DEF Sender, MachineOK
<1>2. Len(m.sent) \in Nat \ {0}
  BY <1>1, LenProperties, OddIsPositive
<1>3. Last(m.sent) \in Message /\ m.sent # << >>
  BY <1>1, <1>2 DEF Last
<1>4. msg \in Message /\ msg.sample = m.md
  BY <1>1, <1>3 DEF Sender, Message
<1>5. n.sent = Append(m.sent, msg) /\ n.md = m.md /\ n.state = "SEND_FOLLOW_UP"
  BY DEF SendFollowUp, Sender
<1>6. Carries(m.md, Last(m.sent).sample, p, r)
  BY DEF Genuine, Matched, Carries
<1> HIDE DEF msg, n
<1>7. FollowUpsOK(n.sent, p, r)
  BY <1>1, <1>3, <1>4, <1>5, <1>6, AppendKeepsFollowUps DEF Genuine
<1>8. Genuine(n, p, r)
  BY <1>5, <1>7 DEF Genuine
<1>9. QED
  BY <1>8 DEF n

\* A newly accepted sample leaves what was sent before genuine.
LEMMA GenuineGrows ==
    ASSUME NEW r \in Seq(Sample), NEW e \in Sample, NEW m \in Sender, NEW p, Genuine(m, p, r)
    PROVE  Genuine(m, p, Append(r, e))
<1> DEFINE q == Append(r, e)
<1>1. /\ \A n \in DOMAIN r : n \in DOMAIN q /\ q[n] = r[n]
      /\ Len(q) = Len(r) + 1 /\ Len(r) \in Nat /\ m.md \in Nat
  BY DEF Sender
<1> HIDE DEF q
<1>2. FollowUpsOK(m.sent, p, q)
  BY <1>1 DEF Genuine, FollowUpsOK, Carries
<1>3. m.md <= Len(q)
  BY <1>1 DEF Genuine
<1>4. Genuine(m, p, q)
  BY <1>1, <1>2, <1>3 DEF Genuine
<1>5. QED
  BY <1>4 DEF q

\* md_sync_send_sm_recv_md_sync with the sample that was just accepted.
LEMMA RecvMDSyncGenuine ==
    ASSUME NEW r \in Seq(Sample), NEW e \in Sample, NEW m \in Sender, MachineOK(m), NEW p,
           Genuine(m, p, r), e.port # p
    PROVE  Genuine(RecvMDSync(m, Len(r) + 1), p, Append(r, e))
<1> DEFINE q == Append(r, e)
           n == Len(r) + 1
           m1 == [m EXCEPT !.rcvdMDSync = TRUE, !.md = n]
<1>1. n \in DOMAIN q /\ q[n] = e /\ n = Len(q) /\ Len(r) \in Nat /\ n \in Nat
  OBVIOUS
<1>2. FollowUpsOK(m.sent, p, q)
  BY GenuineGrows DEF Genuine
<1>3. /\ m1 \in Sender /\ m1.state = m.state /\ m1.sent = m.sent /\ m1.md = n
      /\ m1.txSeq = m.txSeq
  BY <1>1 DEF Sender
<1>4. RecvMDSync(m, n) = IF m.state = "SEND_SYNC" THEN m1 ELSE SendSync(m1)
  BY DEF RecvMDSync
<1> HIDE DEF q, m1, n
<1>5. MachineOK(m1)
  BY <1>3 DEF MachineOK
<1>6. CASE m.state = "SEND_SYNC"
  <2>1. m.md <= Len(r) /\ m.md >= Last(m.sent).sample /\ Last(m.sent).sample \in Nat
    <3>1. m.sent \in Seq(Message) /\ Len(m.sent) % 2 = 1
      BY <1>6 DEF MachineOK, Sender
    <3>2. Last(m.sent) \in Message
      <4>1. Len(m.sent) \in Nat \ {0}
        BY <3>1, LenProperties, OddIsPositive
      <4>2. QED
        BY <3>1, <4>1 DEF Last
    <3>3. QED
      BY <1>6, <3>2 DEF Genuine, Message
  <2>2. n >= Last(m.sent).sample
    BY <1>1, <2>1 DEF n, Sender
  <2>3. QED
    BY <1>1, <1>2, <1>3, <1>4, <1>6, <2>2 DEF Genuine, n, q
<1>7. CASE m.state # "SEND_SYNC"
  <2>1. Genuine(SendSync(m1), p, q)
    BY <1>1, <1>2, <1>3, <1>5, <1>7, SendSyncGenuine
  <2>2. QED
    BY <1>4, <1>7, <2>1 DEF n, q
<1>8. QED
  BY <1>6, <1>7

\* md_sync_send_sm_txts: the Follow_Up, and the Sync of a pending sample after it.
LEMMA RecvTxTimestampGenuine ==
    ASSUME NEW m \in Sender, MachineOK(m), NEW seq, NEW p, NEW r, Matched(r), Genuine(m, p, r)
    PROVE  Genuine(RecvTxTimestamp(m, seq), p, r)
<1> DEFINE m1 == SendFollowUp(m)
<1>1. CASE m.state # "SEND_SYNC" \/ ~TxTimestampMatches(m, seq)
  BY <1>1 DEF RecvTxTimestamp
<1>2. CASE ~(m.state # "SEND_SYNC" \/ ~TxTimestampMatches(m, seq))
  <2>1. /\ m1 \in Sender /\ MachineOK(m1) /\ Genuine(m1, p, r)
        /\ m1.state = "SEND_FOLLOW_UP"
    BY <1>2, SendFollowUpCompletesPair, SendFollowUpGenuine DEF SendFollowUp, Sender
  <2>2. RecvTxTimestamp(m, seq) = IF m1.rcvdMDSync THEN SendSync(m1) ELSE m1
    BY <1>2 DEF RecvTxTimestamp
  <2> HIDE DEF m1
  <2>3. Genuine(SendSync(m1), p, r)
    BY <2>1, SendSyncGenuine DEF Genuine
  <2>4. QED
    BY <2>1, <2>2, <2>3
<1>3. QED
  BY <1>1, <1>2

\* SiteSyncSync hands a sample of one port to the other MASTER ports.
LEMMA SiteSyncReceiveGenuine ==
    ASSUME SiteTypeOK, Machines, GInv, NEW sample \in Sample, sample.sync = sample.followUp,
           SiteSyncReceive(sample)
    PROVE  GInv'
<1> DEFINE sends == {p \in Ports : SiteAccepts(sample.port) /\ PortSyncSyncSends(p, sample.port)}
           n == Len(relayed) + 1
           q == Append(relayed, sample)
<1>1. mdss' = [p \in Ports |-> IF p \in sends THEN RecvMDSync(mdss[p], n) ELSE mdss[p]]
  BY DEF SiteSyncReceive
<1>2. \A p \in Ports : mdss[p] \in Sender /\ MachineOK(mdss[p]) /\ Genuine(mdss[p], p, relayed)
  BY DEF SiteTypeOK, Machines, GInv
<1>3. relayed \in Seq(Sample) /\ Matched(relayed)
  BY DEF SiteTypeOK, GInv
<1>4. CASE SiteAccepts(sample.port)
  <2>1. relayed' = q
    BY <1>4 DEF SiteSyncReceive
  <2>2. Matched(q)
    <3>1. /\ DOMAIN q = 1 .. Len(relayed) + 1 /\ DOMAIN relayed = 1 .. Len(relayed)
          /\ Len(relayed) \in Nat /\ q[Len(relayed) + 1] = sample
          /\ \A i \in 1 .. Len(relayed) : q[i] = relayed[i]
      BY <1>3
    <3> HIDE DEF q
    <3>2. QED
      BY <1>3, <3>1 DEF Matched
  <2>3. ASSUME NEW p \in Ports PROVE Genuine(mdss'[p], p, q)
    <3>1. CASE p \in sends
      <4>1. mdss'[p] = RecvMDSync(mdss[p], n) /\ sample.port # p
        BY <1>1, <3>1 DEF PortSyncSyncSends
      <4>2. QED
        BY <1>2, <1>3, <4>1, RecvMDSyncGenuine
    <3>2. CASE p \notin sends
      BY <1>1, <1>2, <1>3, <3>2, GenuineGrows
    <3>3. QED
      BY <3>1, <3>2
  <2>4. QED
    BY <2>1, <2>2, <2>3 DEF GInv
<1>5. CASE ~SiteAccepts(sample.port)
  <2>1. relayed' = relayed /\ \A p \in Ports : mdss'[p] = mdss[p]
    BY <1>1, <1>5 DEF SiteSyncReceive
  <2>2. QED
    BY <1>2, <1>3, <2>1 DEF GInv
<1>6. QED
  BY <1>4, <1>5

\* What a step does to the machines that carry samples.
LEMMA StepKinds ==
    ASSUME IInv, [Next]_vars
    PROVE  \/ UNCHANGED <<mdss, relayed, syncTimeoutFrom>>
           \/ \E sample \in Sample : sample.sync = sample.followUp /\ SiteSyncReceive(sample)
           \/ \E p \in Ports : PollTxTimestamp(p)
<1>1. SiteTypeOK /\ Machines /\ Receivers /\ mdsr \in [Ports -> Receiver] /\ nTick \in Nat
  BY TypeOKHasSite DEF IInv, TypeOK, Receiver
<1>2. ASSUME NEW p \in Ports, RecvSync(p) \/ RecvFollowUp(p)
      PROVE  \/ UNCHANGED <<mdss, relayed, syncTimeoutFrom>>
             \/ \E sample \in Sample : sample.sync = sample.followUp /\ SiteSyncReceive(sample)
  <2>1. Head(link[p]) \in [kind : {"Sync", "FollowUp"}, seq : Nat]
    BY <1>2, HeadTailProperties DEF RecvSync, RecvFollowUp, IInv, TypeOK
  <2>2. mdsr[p] \in Receiver /\ Head(link[p]).seq \in Nat /\ ReceiverOK(mdsr[p])
    BY <1>1, <2>1 DEF Receivers
  <2>3. PICK r \in Receiver : ReceiverOK(r) /\ MdSyncReceiveRun(p, r)
    <3>1. CASE RecvSync(p)
      <4> DEFINE r == [mdsr[p] EXCEPT !.rcvdSync = TRUE, !.sync = Head(link[p]).seq]
      <4>1. r \in Receiver
        BY <2>2 DEF Receiver
      <4>2. ReceiverOK(r)
        BY <2>2 DEF Receiver, ReceiverOK, None
      <4>3. QED
        BY <3>1, <4>1, <4>2 DEF RecvSync
    <3>2. CASE RecvFollowUp(p)
      <4> DEFINE r == [mdsr[p] EXCEPT !.rcvdFollowUp = TRUE, !.followUp = Head(link[p]).seq]
      <4>1. r \in Receiver
        BY <2>2 DEF Receiver
      <4>2. ReceiverOK(r)
        BY <2>2 DEF Receiver, ReceiverOK, None
      <4>3. QED
        BY <3>2, <4>1, <4>2 DEF RecvFollowUp
    <3>3. QED
      BY <1>2, <3>1, <3>2
  <2>4. UNCHANGED siteVars => UNCHANGED <<mdss, relayed, syncTimeoutFrom>>
    BY DEF siteVars
  <2>5. QED
    BY <1>1, <2>3, <2>4, MdSyncReceiveRunOK
<1>3. ASSUME ClockMasterTick
      PROVE  \E sample \in Sample : sample.sync = sample.followUp /\ SiteSyncReceive(sample)
  <2> DEFINE sample == [port |-> 0, sync |-> nTick + 1, followUp |-> nTick + 1]
  <2>1. sample \in Sample /\ sample.sync = sample.followUp
    BY <1>1, PortsAssumption DEF Sample, AllPorts
  <2>2. QED
    BY <1>3, <2>1 DEF ClockMasterTick
<1>4. QED
  BY <1>2, <1>3 DEF Next, MainLoop, Environment, FollowUpReceiptTimeout, Reselect, UpstreamSync,
                    LoseMessage, LoseTxTimestamp, vars, siteVars

LEMMA StepGInv ==
    ASSUME IInv, GInv, [Next]_vars
    PROVE  GInv'
<1>1. SiteTypeOK /\ Machines
  BY TypeOKHasSite DEF IInv
<1>2. CASE UNCHANGED <<mdss, relayed>>
  BY <1>2 DEF GInv
<1>3. CASE \E sample \in Sample : sample.sync = sample.followUp /\ SiteSyncReceive(sample)
  BY <1>1, <1>3, SiteSyncReceiveGenuine
<1>4. ASSUME NEW p \in Ports, PollTxTimestamp(p) PROVE GInv'
  <2> DEFINE m == RecvTxTimestamp(mdss[p], Head(txTs[p]))
  <2>1. mdss' = [mdss EXCEPT ![p] = m] /\ relayed' = relayed
    BY <1>4 DEF PollTxTimestamp
  <2>2. Genuine(m, p, relayed)
    BY <1>1, RecvTxTimestampGenuine DEF SiteTypeOK, Machines, GInv
  <2> HIDE DEF m
  <2>3. QED
    BY <1>1, <2>1, <2>2 DEF GInv, SiteTypeOK
<1>5. QED
  BY <1>2, <1>3, <1>4, StepKinds

LEMMA InitGInv == Init => GInv
<1> SUFFICES ASSUME Init PROVE GInv
  OBVIOUS
<1>1. relayed = << >> /\ Matched(relayed) /\ Len(relayed) = 0
  BY DEF Init, Matched
<1>2. \A p \in Ports : mdss[p].state = "INITIALIZING" /\ mdss[p].sent = << >> /\ mdss[p].md = 0
  BY DEF Init
<1>3. QED
  BY <1>1, <1>2 DEF GInv, Genuine, FollowUpsOK

\* Every Follow_Up on every port carries a sample that SiteSyncSync accepted from another
\* port, measured by the Sync and the Follow_Up of one upstream transmission, and not older
\* than the sample that triggered its Sync.
THEOREM FollowUpsAreGenuine == Spec => []FollowUpIsGenuine
<1>1. GInv => FollowUpIsGenuine
  BY DEF GInv, Genuine, FollowUpsOK, Carries, FollowUpIsGenuine
<1>2. Init => IInv /\ GInv
  BY InitIInv, InitGInv
<1>3. IInv /\ GInv /\ [Next]_vars => IInv' /\ GInv'
  BY StepIInv, StepGInv
<1>4. QED
  BY <1>1, <1>2, <1>3, PTL DEF Spec

-----------------------------------------------------------------------------
(* A port that stopped being MASTER                                        *)

\* A MASTER port has sent nothing stale, and one pending sample is all that can slip out.
Stale == \A p \in Ports : /\ roles[p] = "MASTER" => staleSyncs[p] = 0
                          /\ staleSyncs[p] = 0 \/ (staleSyncs[p] = 1 /\ ~mdss[p].rcvdMDSync)

\* A timestamp makes MDSyncSend send a Sync only for a pending sample, which it takes.
LEMMA TimestampTakesPending ==
    ASSUME NEW m \in Sender, MachineOK(m), NEW seq
    PROVE  LET n == RecvTxTimestamp(m, seq)
           IN /\ n.rcvdMDSync => m.rcvdMDSync
              /\ n.syncSequenceId # m.syncSequenceId => m.rcvdMDSync /\ ~n.rcvdMDSync
<1> DEFINE m1 == SendFollowUp(m)
<1>1. CASE m.state # "SEND_SYNC" \/ ~TxTimestampMatches(m, seq)
  BY <1>1 DEF RecvTxTimestamp
<1>2. CASE ~(m.state # "SEND_SYNC" \/ ~TxTimestampMatches(m, seq))
  <2>1. /\ m1 \in Sender /\ m1.rcvdMDSync = m.rcvdMDSync
        /\ m1.syncSequenceId = m.syncSequenceId
    BY <1>2, SendFollowUpCompletesPair DEF SendFollowUp, Sender
  <2>2. RecvTxTimestamp(m, seq) = IF m1.rcvdMDSync THEN SendSync(m1) ELSE m1
    BY <1>2 DEF RecvTxTimestamp
  <2> HIDE DEF m1
  <2>3. SendSync(m1).rcvdMDSync = FALSE
    BY <2>1 DEF SendSync, Sender
  <2>4. QED
    BY <2>1, <2>2, <2>3
<1>3. QED
  BY <1>1, <1>2

LEMMA StepStale ==
    ASSUME IInv, Stale, [Next]_vars
    PROVE  Stale'
<1>1. SiteTypeOK /\ Machines
  BY TypeOKHasSite DEF IInv
<1>2. ASSUME UNCHANGED <<mdss, roles, staleSyncs>> PROVE Stale'
  BY <1>2 DEF Stale
<1>3. ASSUME NEW sample, SiteSyncReceive(sample), roles' = roles PROVE Stale'
  <2>1. ASSUME NEW p \in Ports, roles[p] # "MASTER"
        PROVE  mdss'[p] = mdss[p] /\ staleSyncs'[p] = staleSyncs[p]
    BY <1>3, <2>1 DEF SiteSyncReceive, PortSyncSyncSends, SendsSync
  <2>2. ASSUME NEW p \in Ports, roles[p] = "MASTER" PROVE staleSyncs'[p] = staleSyncs[p]
    BY <1>3, <2>2 DEF SiteSyncReceive
  <2>3. QED
    BY <1>3, <2>1, <2>2 DEF Stale
<1>4. ASSUME NEW p \in Ports, PollTxTimestamp(p) PROVE Stale'
  <2> DEFINE n == RecvTxTimestamp(mdss[p], Head(txTs[p]))
  <2>1. mdss'[p] = n /\ \A q \in Ports \ {p} : mdss'[q] = mdss[q] /\ staleSyncs'[q] = staleSyncs[q]
    <3>1. mdss' = [mdss EXCEPT ![p] = n]
      BY <1>4 DEF PollTxTimestamp
    <3> HIDE DEF n
    <3>2. \A q \in Ports \ {p} : staleSyncs'[q] = staleSyncs[q]
      BY <1>1, <1>4 DEF PollTxTimestamp, SiteTypeOK
    <3>3. QED
      BY <1>1, <3>1, <3>2 DEF SiteTypeOK
  <2>2. /\ n.rcvdMDSync => mdss[p].rcvdMDSync
        /\ n.syncSequenceId # mdss[p].syncSequenceId => mdss[p].rcvdMDSync /\ ~n.rcvdMDSync
    BY <1>1, TimestampTakesPending DEF SiteTypeOK, Machines
  <2> HIDE DEF n
  <2>3. staleSyncs'[p] = IF SendsSync(p) /\ roles[p] # "MASTER" THEN staleSyncs[p] + 1 ELSE staleSyncs[p]
    BY <1>1, <1>4 DEF PollTxTimestamp, SiteTypeOK
  <2>4. roles' = roles
    BY <1>4 DEF PollTxTimestamp, roleVars
  <2>5. SendsSync(p) <=> n.syncSequenceId # mdss[p].syncSequenceId
    BY <2>1 DEF SendsSync
  <2>6. /\ roles'[p] = "MASTER" => staleSyncs'[p] = 0
        /\ staleSyncs'[p] = 0 \/ (staleSyncs'[p] = 1 /\ ~mdss'[p].rcvdMDSync)
    <3>1. CASE SendsSync(p) /\ roles[p] # "MASTER"
      BY <2>1, <2>2, <2>3, <2>4, <2>5, <3>1 DEF Stale
    <3>2. CASE ~(SendsSync(p) /\ roles[p] # "MASTER")
      BY <2>1, <2>2, <2>3, <2>4, <2>5, <3>2 DEF Stale
    <3>3. QED
      BY <3>1, <3>2
  <2>7. QED
    BY <2>1, <2>4, <2>6 DEF Stale
<1>5. ASSUME NEW r, NEW present, Reselect(r, present) PROVE Stale'
  BY <1>1, <1>5 DEF Reselect, Stale, SiteTypeOK
<1>6. ASSUME NEW p \in Ports, RecvSync(p) \/ RecvFollowUp(p) PROVE Stale'
  <2>1. roles' = roles
    BY <1>6 DEF RecvSync, RecvFollowUp, roleVars
  <2>2. UNCHANGED siteVars \/ \E sample : SiteSyncReceive(sample)
    BY <1>6 DEF RecvSync, RecvFollowUp, MdSyncReceiveRun
  <2>3. QED
    BY <1>2, <1>3, <2>1, <2>2 DEF siteVars
<1>7. CASE ClockMasterTick
  BY <1>3, <1>7 DEF ClockMasterTick, roleVars
<1>8. QED
  BY <1>2, <1>4, <1>5, <1>6, <1>7
     DEF Next, MainLoop, Environment, FollowUpReceiptTimeout, UpstreamSync, LoseMessage,
         LoseTxTimestamp, vars, siteVars, roleVars

\* md_sync_send_sm never looks at the port state, and still sends at most one Sync after
\* the port stopped being MASTER, for any number of samples, timestamps and role changes.
THEOREM OneStaleSync == Spec => []AtMostOneStaleSync
<1>1. Init => Stale
  BY DEF Init, Stale
<1>2. Init => IInv /\ Stale
  BY <1>1, InitIInv
<1>3. IInv /\ Stale /\ [Next]_vars => IInv' /\ Stale'
  BY StepIInv, StepStale
<1>4. Stale => AtMostOneStaleSync
  BY DEF Stale, AtMostOneStaleSync
<1>5. QED
  BY <1>2, <1>3, <1>4, PTL DEF Spec

-----------------------------------------------------------------------------
(* The sync receipt timeout                                                *)

LEMMA StepTimeout ==
    ASSUME IInv, TimeoutIsOfASync, [Next]_vars
    PROVE  TimeoutIsOfASync'
<1>1. relayed \in Seq(Sample) /\ SiteTypeOK /\ Machines
  BY TypeOKHasSite DEF IInv, SiteTypeOK
<1>2. ASSUME NEW sample \in Sample, SiteSyncReceive(sample)
      PROVE  TimeoutIsOfASync'
  <2>1. CASE sample.port # 0
    <3>1. syncTimeoutFrom' = sample.port
      BY <1>2, <2>1 DEF SiteSyncReceive, SyncReceiptTimeoutAfter
    <3>2. syncTimeoutFrom' \in Ports
      BY <2>1, <3>1 DEF Sample, AllPorts, Ports
    <3>3. QED
      BY <3>2 DEF TimeoutIsOfASync
  <2>2. CASE sample.port = 0 /\ SiteAccepts(sample.port)
    <3>1. relayed' = Append(relayed, sample)
      BY <1>2, <2>2 DEF SiteSyncReceive
    <3>2. relayed' # << >> /\ relayed'[Len(relayed')] = sample
      BY <1>1, <3>1, AppendProperties
    <3>3. QED
      BY <2>2, <3>2 DEF TimeoutIsOfASync
  <2>3. CASE sample.port = 0 /\ ~SiteAccepts(sample.port)
    <3>1. relayed' = relayed /\ syncTimeoutFrom' = syncTimeoutFrom
      BY <1>2, <2>3 DEF SiteSyncReceive, SyncReceiptTimeoutAfter
    <3>2. QED
      BY <3>1 DEF TimeoutIsOfASync
  <2>4. QED
    BY <2>1, <2>2, <2>3
<1>3. ASSUME UNCHANGED <<relayed, syncTimeoutFrom>> PROVE TimeoutIsOfASync'
  BY <1>3 DEF TimeoutIsOfASync
<1>4. ASSUME NEW p \in Ports, PollTxTimestamp(p) PROVE UNCHANGED <<relayed, syncTimeoutFrom>>
  BY <1>4 DEF PollTxTimestamp
<1>5. QED
  BY <1>2, <1>3, <1>4, StepKinds

\* Once a Sync of the slave port is the sample relayed last, the sync receipt timeout is
\* armed by a received Sync: no role change and no port that does not send leaves it off.
THEOREM TimeoutIsArmed == Spec => []TimeoutIsOfASync
<1>1. Init => TimeoutIsOfASync
  BY DEF Init, TimeoutIsOfASync
<1>2. Init => IInv /\ TimeoutIsOfASync
  BY <1>1, InitIInv
<1>3. IInv /\ TimeoutIsOfASync /\ [Next]_vars => IInv' /\ TimeoutIsOfASync'
  BY StepIInv, StepTimeout
<1>4. QED
  BY <1>2, <1>3, PTL DEF Spec

(***************************************************************************)
(* ClockSlave: arithmetic on UScaledNs, the list of samples, the offset    *)
(***************************************************************************)

\* Quotient and remainder.
LEMMA Division ==
    ASSUME NEW v \in Int, NEW n \in Nat \ {0}
    PROVE  /\ v % n \in 0 .. n - 1 /\ v \div n \in Int
           /\ v = n * (v \div n) + (v % n)
<1>1. v % n \in 0 .. n - 1
  BY SMT
<1>2. v \div n \in Int /\ v = n * (v \div n) + (v % n)
  BY SMT
<1>3. QED
  BY <1>1, <1>2

\* Within one turn above or below, % adds or subtracts the modulus once.
LEMMA OneTurn ==
    ASSUME NEW n \in Nat \ {0}, NEW x \in Int, -n <= x, x < 2 * n
    PROVE  x % n = IF x < 0 THEN x + n ELSE IF x < n THEN x ELSE x - n
<1>1. CASE x < 0
  BY <1>1, SMT
<1>2. CASE 0 <= x /\ x < n
  BY <1>2, SMT
<1>3. CASE n <= x
  BY <1>3, SMT
<1>4. QED
  BY <1>1, <1>2, <1>3

\* A carry out of a limb, and what is left in it.
LEMMA LimbSum ==
    ASSUME NEW m \in Nat \ {0, 1}, NEW a \in 0 .. m - 1, NEW b \in 0 .. m - 1, NEW c \in {0, 1}
    PROVE  /\ check_overflow(a, b, c, m) = IF a + b + c < m THEN 0 ELSE 1
           /\ (a + b + c) % m = IF a + b + c < m THEN a + b + c ELSE a + b + c - m
<1> DEFINE x == a + b + c
<1>0. m \in Nat \ {0} /\ x \in Int /\ -m <= x /\ 0 <= x /\ x < 2 * m
  OBVIOUS
<1>1. x % m = IF x < m THEN x ELSE x - m
  <2> HIDE DEF x
  <2>1. x % m = IF x < 0 THEN x + m ELSE IF x < m THEN x ELSE x - m
    BY <1>0, OneTurn, Zenon
  <2> QED BY <1>0, <2>1
<1> DEFINE s == (a + b + c) % m
<1>2. check_overflow(a, b, c, m) = IF c = 0 THEN IF s < a THEN 1 ELSE 0
                                   ELSE IF s > a THEN 0 ELSE 1
  BY DEF check_overflow
<1>3. s = IF a + b + c < m THEN a + b + c ELSE a + b + c - m
  BY <1>1
<1> HIDE DEF s
<1>4. check_overflow(a, b, c, m) = IF a + b + c < m THEN 0 ELSE 1
  BY <1>2, <1>3
<1>5. QED
  BY <1>1, <1>4

\* The same for a borrow.
LEMMA LimbDifference ==
    ASSUME NEW m \in Nat \ {0, 1}, NEW a \in 0 .. m - 1, NEW b \in 0 .. m - 1, NEW c \in {0, 1}
    PROVE  /\ Borrows(a, b, c) = IF a - c - b < 0 THEN 1 ELSE 0
           /\ (a - c - b) % m = IF a - c - b < 0 THEN a - c - b + m ELSE a - c - b
<1> DEFINE x == a - c - b
<1>0. m \in Nat \ {0} /\ x \in Int /\ -m <= x /\ x < m /\ x < 2 * m
  OBVIOUS
<1>1. x % m = IF x < 0 THEN x + m ELSE x
  <2> HIDE DEF x
  <2>1. x % m = IF x < 0 THEN x + m ELSE IF x < m THEN x ELSE x - m
    BY <1>0, OneTurn, Zenon
  <2> QED BY <1>0, <2>1
<1>2. Borrows(a, b, c) = IF a - c - b < 0 THEN 1 ELSE 0
  BY DEF Borrows
<1>3. QED
  BY <1>1, <1>2

\* The limbs above 1 ns, as one number.
Ns(t) == t.nsec + NsMod * t.nsec_msb

LEMMA FromValueType ==
    ASSUME NEW v \in Int
    PROVE  FromValue(v) \in UScaledNs
<1>1. SubNs \in Nat \ {0, 1} /\ NsMod \in Nat \ {0, 1} /\ MsbMod \in Nat \ {0, 1}
  BY LimbAssumption
<1>2. SubNs * NsMod \in Nat \ {0}
  BY <1>1
<1>3. v % SubNs \in 0 .. SubNs - 1
  BY <1>1, Division
<1>4. v \div SubNs \in Int /\ v \div (SubNs * NsMod) \in Int
  BY <1>1, <1>2, Division
<1>5. (v \div SubNs) % NsMod \in 0 .. NsMod - 1
  BY <1>1, <1>4, Division
<1>6. (v \div (SubNs * NsMod)) % MsbMod \in 0 .. MsbMod - 1
  BY <1>1, <1>4, Division
<1>7. QED
  BY <1>3, <1>5, <1>6 DEF FromValue, UScaledNs

LEMMA SubtractType ==
    ASSUME NEW t1 \in UScaledNs, NEW t2 \in UScaledNs
    PROVE  Subtract(t1, t2) \in UScaledNs
<1>1. SubNs \in Nat \ {0, 1} /\ NsMod \in Nat \ {0, 1} /\ MsbMod \in Nat \ {0, 1}
  BY LimbAssumption
<1> DEFINE b1 == IF t1.subns >= t2.subns THEN 0 ELSE 1
           b2 == Borrows(t1.nsec, t2.nsec, b1)
<1>2. b1 \in {0, 1} /\ b2 \in {0, 1}
  BY DEF Borrows
<1>3. /\ t1.subns - t2.subns \in Int /\ t1.nsec - b1 - t2.nsec \in Int
      /\ t1.nsec_msb - b2 - t2.nsec_msb \in Int
  <2> HIDE DEF b1, b2
  <2> QED BY <1>1, <1>2 DEF UScaledNs
<1>4. /\ (t1.subns - t2.subns) % SubNs \in 0 .. SubNs - 1
      /\ (t1.nsec - b1 - t2.nsec) % NsMod \in 0 .. NsMod - 1
      /\ (t1.nsec_msb - b2 - t2.nsec_msb) % MsbMod \in 0 .. MsbMod - 1
  <2> HIDE DEF b1, b2
  <2> QED BY <1>1, <1>3, Division
<1>5. QED
  BY <1>4 DEF Subtract, UScaledNs

LEMMA AddType ==
    ASSUME NEW t1 \in UScaledNs, NEW t2 \in UScaledNs
    PROVE  Add(t1, t2) \in UScaledNs
<1>1. SubNs \in Nat \ {0, 1} /\ NsMod \in Nat \ {0, 1} /\ MsbMod \in Nat \ {0, 1}
  BY LimbAssumption
<1> DEFINE c == EarlyCarry(t1, t2)
           d == check_overflow(t1.nsec, t2.nsec, c, NsMod)
<1>2. c \in {0, 1} /\ d \in {0, 1}
  BY DEF EarlyCarry, check_overflow
<1>3. /\ t1.subns + t2.subns \in Int /\ t1.nsec + t2.nsec + c \in Int
      /\ t1.nsec_msb + t2.nsec_msb + d \in Int
  <2> HIDE DEF c, d
  <2> QED BY <1>1, <1>2 DEF UScaledNs
<1>4. /\ (t1.subns + t2.subns) % SubNs \in 0 .. SubNs - 1
      /\ (t1.nsec + t2.nsec + c) % NsMod \in 0 .. NsMod - 1
      /\ (t1.nsec_msb + t2.nsec_msb + d) % MsbMod \in 0 .. MsbMod - 1
  <2> HIDE DEF c, d
  <2> QED BY <1>1, <1>3, Division
<1>5. QED
  BY <1>4 DEF Add, UScaledNs

LEMMA ValueType ==
    ASSUME NEW t \in UScaledNs
    PROVE  Ns(t) \in Nat /\ Value(t) \in Nat /\ Value(t) = t.subns + SubNs * Ns(t)
<1>1. SubNs \in Nat /\ NsMod \in Nat
  BY LimbAssumption
<1>2. t.subns \in Nat /\ t.nsec \in Nat /\ t.nsec_msb \in Nat
  BY DEF UScaledNs
<1>3. NsMod * t.nsec_msb \in Nat
  BY <1>1, <1>2
<1>4. Ns(t) \in Nat
  BY <1>2, <1>3 DEF Ns
<1>5. SubNs * Ns(t) \in Nat
  BY <1>1, <1>4
<1>6. QED
  BY <1>2, <1>4, <1>5 DEF Value, Ns

\* Two limbs are ordered by the higher one first.
LEMMA LimbOrder ==
    ASSUME NEW n \in Nat \ {0}, NEW a \in 0 .. n - 1, NEW b \in 0 .. n - 1,
           NEW p \in Int, NEW q \in Int
    PROVE  a + n * p >= b + n * q <=> p > q \/ (p = q /\ a >= b)
<1>1. CASE p = q
  BY <1>1
<1>2. CASE p > q
  <2>1. n * p >= n * q + n
    <3>1. PICK d \in Nat : p = q + 1 + d
      <4>1. p - q - 1 \in Nat /\ p = q + 1 + (p - q - 1)
        BY <1>2
      <4>2. QED
        BY <4>1
    <3>2. n * p = n * q + n + n * d /\ n * d \in Nat
      BY <3>1
    <3>3. n * q \in Int /\ n * p \in Int
      OBVIOUS
    <3>4. QED
      BY <3>2, <3>3
  <2>2. n * q \in Int /\ n * p \in Int
    OBVIOUS
  <2>3. QED
    BY <1>2, <2>1, <2>2
<1>3. CASE p < q
  <2>1. n * q >= n * p + n
    <3>1. PICK d \in Nat : q = p + 1 + d
      <4>1. q - p - 1 \in Nat /\ q = p + 1 + (q - p - 1)
        BY <1>3
      <4>2. QED
        BY <4>1
    <3>2. n * q = n * p + n + n * d /\ n * d \in Nat
      BY <3>1
    <3>3. n * q \in Int /\ n * p \in Int
      OBVIOUS
    <3>4. QED
      BY <3>2, <3>3
  <2>2. n * q \in Int /\ n * p \in Int
    OBVIOUS
  <2>3. QED
    BY <1>3, <2>1, <2>2
<1>4. QED
  BY <1>1, <1>2, <1>3

\* uscaledns_compare orders by value.
LEMMA CompareIsExact ==
    ASSUME NEW t1 \in UScaledNs, NEW t2 \in UScaledNs
    PROVE  Compare(t1, t2) >= 0 <=> Value(t1) >= Value(t2)
<1>1. SubNs \in Nat \ {0} /\ NsMod \in Nat \ {0}
  BY LimbAssumption
<1>2. /\ t1.subns \in 0 .. SubNs - 1 /\ t1.nsec \in 0 .. NsMod - 1 /\ t1.nsec_msb \in Int
      /\ t2.subns \in 0 .. SubNs - 1 /\ t2.nsec \in 0 .. NsMod - 1 /\ t2.nsec_msb \in Int
  BY LimbAssumption DEF UScaledNs
<1>3. /\ Ns(t1) \in Int /\ Ns(t2) \in Int
      /\ Value(t1) = t1.subns + SubNs * Ns(t1) /\ Value(t2) = t2.subns + SubNs * Ns(t2)
  BY ValueType
<1>4. Value(t1) >= Value(t2) <=>
        Ns(t1) > Ns(t2) \/ (Ns(t1) = Ns(t2) /\ t1.subns >= t2.subns)
  <2> DEFINE X1 == Ns(t1)  X2 == Ns(t2)  s1 == t1.subns  s2 == t2.subns
  <2> HIDE DEF X1, X2, s1, s2
  <2>1. /\ X1 \in Int /\ X2 \in Int /\ s1 \in 0 .. SubNs - 1 /\ s2 \in 0 .. SubNs - 1
        /\ Value(t1) = s1 + SubNs * X1 /\ Value(t2) = s2 + SubNs * X2
    BY <1>2, <1>3 DEF X1, X2, s1, s2
  <2>2. s1 + SubNs * X1 >= s2 + SubNs * X2 <=> X1 > X2 \/ (X1 = X2 /\ s1 >= s2)
    BY <1>1, <2>1, LimbOrder
  <2> QED BY <2>1, <2>2 DEF X1, X2, s1, s2
<1>5. /\ Ns(t1) >= Ns(t2) <=>
           t1.nsec_msb > t2.nsec_msb \/ (t1.nsec_msb = t2.nsec_msb /\ t1.nsec >= t2.nsec)
      /\ Ns(t2) >= Ns(t1) <=>
           t2.nsec_msb > t1.nsec_msb \/ (t2.nsec_msb = t1.nsec_msb /\ t2.nsec >= t1.nsec)
  BY <1>1, <1>2, LimbOrder DEF Ns
<1>6. QED
  BY <1>2, <1>3, <1>4, <1>5 DEF Compare

\* uscaledns_subtract is exact.
LEMMA SubtractIsExact ==
    ASSUME NEW t1 \in UScaledNs, NEW t2 \in UScaledNs, Value(t1) >= Value(t2)
    PROVE  Value(Subtract(t1, t2)) = Value(t1) - Value(t2)
<1>1. SubNs \in Nat \ {0, 1} /\ NsMod \in Nat \ {0, 1} /\ MsbMod \in Nat \ {0, 1}
  BY LimbAssumption
<1> DEFINE s1 == t1.subns  a1 == t1.nsec  h1 == t1.nsec_msb
           s2 == t2.subns  a2 == t2.nsec  h2 == t2.nsec_msb
           b1 == IF s1 >= s2 THEN 0 ELSE 1
           b2 == Borrows(a1, a2, b1)
           t == Subtract(t1, t2)
<1>2. /\ s1 \in 0 .. SubNs - 1 /\ a1 \in 0 .. NsMod - 1 /\ h1 \in 0 .. MsbMod - 1
      /\ s2 \in 0 .. SubNs - 1 /\ a2 \in 0 .. NsMod - 1 /\ h2 \in 0 .. MsbMod - 1
  BY DEF UScaledNs
<1>3. b1 \in {0, 1}
  OBVIOUS
<1>4. /\ t.subns = (s1 - s2) % SubNs /\ t.nsec = (a1 - b1 - a2) % NsMod
      /\ t.nsec_msb = (h1 - b2 - h2) % MsbMod
  BY DEF Subtract
<1>5. /\ t \in UScaledNs /\ Value(t) = t.subns + SubNs * Ns(t)
      /\ Ns(t) = t.nsec + NsMod * t.nsec_msb
  BY SubtractType, ValueType DEF Ns
<1>6. /\ Value(t1) = s1 + SubNs * Ns(t1) /\ Ns(t1) = a1 + NsMod * h1 /\ Ns(t1) \in Nat
      /\ Value(t2) = s2 + SubNs * Ns(t2) /\ Ns(t2) = a2 + NsMod * h2 /\ Ns(t2) \in Nat
  BY ValueType DEF Ns
<1> DEFINE X1 == Ns(t1)
           X2 == Ns(t2)
<1>7. X1 > X2 \/ (X1 = X2 /\ s1 >= s2)
  <2>1. s1 + SubNs * X1 >= s2 + SubNs * X2
    BY <1>6
  <2>2. X1 \in Int /\ X2 \in Int /\ SubNs \in Nat \ {0}
    BY <1>1, <1>6
  <2> HIDE DEF X1, X2, s1, s2
  <2> QED BY <1>2, <2>1, <2>2, LimbOrder
<1>8. t.subns = s1 - s2 + SubNs * b1
  <2> DEFINE x == s1 - s2
  <2>1. x \in Int /\ -SubNs <= x /\ x < SubNs /\ x < 2 * SubNs /\ SubNs \in Nat \ {0}
    BY <1>1, <1>2
  <2>2. x % SubNs = IF x < 0 THEN x + SubNs ELSE IF x < SubNs THEN x ELSE x - SubNs
    <3> HIDE DEF x
    <3> QED BY <2>1, OneTurn, Zenon
  <2>3. x < 0 <=> b1 = 1
    BY <1>1, <1>2
  <2>4. t.subns = x % SubNs
    BY <1>4
  <2> HIDE DEF x, b1, t
  <2>5. t.subns = x + SubNs * b1
    BY <1>1, <1>3, <2>1, <2>2, <2>3, <2>4
  <2> QED BY <2>5 DEF x
<1>9. b2 \in {0, 1} /\ t.nsec = a1 - b1 - a2 + NsMod * b2 /\ (b2 = 1 <=> a1 - b1 - a2 < 0)
  <2>1. /\ b2 = IF a1 - b1 - a2 < 0 THEN 1 ELSE 0
        /\ (a1 - b1 - a2) % NsMod = IF a1 - b1 - a2 < 0 THEN a1 - b1 - a2 + NsMod ELSE a1 - b1 - a2
    <3> HIDE DEF b1, a1, a2
    <3>1. /\ NsMod \in Nat \ {0, 1} /\ a1 \in 0 .. NsMod - 1 /\ a2 \in 0 .. NsMod - 1
          /\ b1 \in {0, 1}
      BY <1>1, <1>2, <1>3
    <3>2. /\ Borrows(a1, a2, b1) = IF a1 - b1 - a2 < 0 THEN 1 ELSE 0
          /\ (a1 - b1 - a2) % NsMod =
               IF a1 - b1 - a2 < 0 THEN a1 - b1 - a2 + NsMod ELSE a1 - b1 - a2
      BY <3>1, LimbDifference, Zenon
    <3> QED BY <3>2 DEF b2
  <2> HIDE DEF b2, b1, a1, a2, t
  <2> QED BY <1>1, <1>2, <1>3, <1>4, <2>1
<1>10. h1 - b2 - h2 >= 0
  <2>1. X1 >= X2 + b1
    BY <1>6, <1>7
  <2>2. a1 + NsMod * h1 >= b1 + a2 + NsMod * h2
    BY <1>6, <2>1, <1>2, <1>1
  <2>3. CASE b2 = 0
    <3>1. (a1 - b1 - a2) + NsMod * h1 >= 0 + NsMod * h2
      <4>1. NsMod * h1 \in Int /\ NsMod * h2 \in Int
        BY <1>1, <1>2
      <4> HIDE DEF b1, b2, a1, a2, h1, h2
      <4> QED BY <1>1, <1>2, <1>3, <2>2, <4>1
    <3>2. a1 - b1 - a2 \in 0 .. NsMod - 1
      <4> HIDE DEF b1, b2, a1, a2, h1, h2
      <4> QED BY <1>1, <1>2, <1>3, <1>9, <2>3
    <3>3. h1 > h2 \/ h1 = h2
      <4> DEFINE x == a1 - b1 - a2
      <4>1. 0 \in 0 .. NsMod - 1 /\ h1 \in Int /\ h2 \in Int /\ NsMod \in Nat \ {0}
        BY <1>1, <1>2
      <4> HIDE DEF b1, b2, a1, a2, h1, h2, x
      <4> QED BY <3>1, <3>2, <4>1, LimbOrder DEF x
    <3> HIDE DEF b1, b2, a1, a2, h1, h2
    <3>4. QED
      BY <1>2, <2>3, <3>3
  <2>4. CASE b2 = 1
    <3> DEFINE x == a1 - b1 - a2 + NsMod
    <3>1. x + NsMod * h1 >= NsMod + NsMod * h2
      <4>1. NsMod * h1 \in Int /\ NsMod * h2 \in Int
        BY <1>1, <1>2
      <4> HIDE DEF b1, b2, a1, a2, h1, h2
      <4> QED BY <1>1, <1>2, <1>3, <2>2, <4>1
    <3>2. x \in 0 .. NsMod - 1
      <4> HIDE DEF b1, b2, a1, a2, h1, h2
      <4> QED BY <1>1, <1>2, <1>3, <1>9, <2>4
    <3>3. h1 > h2
      <4>1. 0 \in 0 .. NsMod - 1 /\ h1 \in Int /\ h2 \in Int /\ NsMod \in Nat \ {0}
            /\ h2 + 1 \in Int
        BY <1>1, <1>2
      <4>2. NsMod * (h2 + 1) = NsMod + NsMod * h2 /\ NsMod * h2 \in Int
        BY <4>1
      <4>3. x + NsMod * h1 >= 0 + NsMod * (h2 + 1)
        <5> HIDE DEF x, h1, h2
        <5>1. x \in Int
          BY <3>2, <1>1
        <5> QED BY <3>1, <4>1, <4>2, <5>1
      <4>4. h1 > h2 + 1 \/ h1 = h2 + 1
        <5> HIDE DEF b1, b2, a1, a2, h1, h2, x
        <5> QED BY <3>2, <4>1, <4>3, LimbOrder
      <4> HIDE DEF b1, b2, a1, a2, h1, h2, x
      <4> QED BY <4>1, <4>4
    <3> HIDE DEF b1, b2, a1, a2, h1, h2
    <3>4. QED
      BY <1>2, <2>4, <3>3
  <2>5. QED
    BY <1>9, <2>3, <2>4
<1>11. t.nsec_msb = h1 - b2 - h2
  <2> DEFINE x == h1 - b2 - h2
  <2>1. x \in 0 .. MsbMod - 1
    <3> HIDE DEF b1, b2, a1, a2, h1, h2
    <3> QED BY <1>1, <1>2, <1>9, <1>10
  <2>2. x % MsbMod = x
    <3> HIDE DEF x
    <3> QED BY <1>1, <2>1, SMT
  <2> QED BY <1>4, <2>2
<1>12. Ns(t) = X1 - X2 - b1
  <2> HIDE DEF b1, b2, a1, a2, h1, h2, t, X1, X2
  <2>1. NsMod * (h1 - b2 - h2) = NsMod * h1 - NsMod * b2 - NsMod * h2
    BY <1>1, <1>2, <1>9
  <2>2. NsMod * h1 \in Int /\ NsMod * b2 \in Int /\ NsMod * h2 \in Int
    BY <1>1, <1>2, <1>9
  <2> QED BY <1>1, <1>2, <1>3, <1>5, <1>6, <1>9, <1>11, <2>1, <2>2 DEF X1, X2
<1>13. QED
  <2> HIDE DEF b1, b2, a1, a2, h1, h2, t, s1, s2
  <2>1. SubNs * (X1 - X2 - b1) = SubNs * X1 - SubNs * X2 - SubNs * b1
    BY <1>1, <1>3, <1>6
  <2>2. SubNs * X1 \in Int /\ SubNs * X2 \in Int /\ SubNs * b1 \in Int
    BY <1>1, <1>3, <1>6
  <2>3. Value(t) = Value(t1) - Value(t2)
    BY <1>2, <1>3, <1>5, <1>6, <1>8, <1>12, <2>1, <2>2
  <2> QED BY <2>3 DEF t

\* One unit of the second limb when the lowest limbs add up to 0xFFFF, which is no
\* carry.
EarlyBy(t1, t2) == IF t1.subns + t2.subns = SubNs - 1 THEN SubNs ELSE 0

\* uscaledns_add is exact but for the early carry, as long as the sum fits.
LEMMA AddIsExact ==
    ASSUME NEW t1 \in UScaledNs, NEW t2 \in UScaledNs,
           Ns(t1) + Ns(t2) + 1 < NsMod * MsbMod
    PROVE  Value(Add(t1, t2)) = Value(t1) + Value(t2) + EarlyBy(t1, t2)
<1>1. SubNs \in Nat \ {0, 1} /\ NsMod \in Nat \ {0, 1} /\ MsbMod \in Nat \ {0, 1}
  BY LimbAssumption
<1> DEFINE s1 == t1.subns  a1 == t1.nsec  h1 == t1.nsec_msb
           s2 == t2.subns  a2 == t2.nsec  h2 == t2.nsec_msb
           c == EarlyCarry(t1, t2)
           d == check_overflow(a1, a2, c, NsMod)
           t == Add(t1, t2)
           X1 == Ns(t1)
           X2 == Ns(t2)
<1>2. /\ s1 \in 0 .. SubNs - 1 /\ a1 \in 0 .. NsMod - 1 /\ h1 \in 0 .. MsbMod - 1
      /\ s2 \in 0 .. SubNs - 1 /\ a2 \in 0 .. NsMod - 1 /\ h2 \in 0 .. MsbMod - 1
  BY DEF UScaledNs
<1>3. c \in {0, 1} /\ (c = 1 <=> s1 + s2 >= SubNs - 1)
  BY DEF EarlyCarry
<1>4. /\ t.subns = (s1 + s2) % SubNs /\ t.nsec = (a1 + a2 + c) % NsMod
      /\ t.nsec_msb = (h1 + h2 + d) % MsbMod
  BY DEF Add
<1>5. /\ t \in UScaledNs /\ Value(t) = t.subns + SubNs * Ns(t)
      /\ Ns(t) = t.nsec + NsMod * t.nsec_msb
  BY AddType, ValueType DEF Ns
<1>6. /\ Value(t1) = s1 + SubNs * X1 /\ X1 = a1 + NsMod * h1 /\ X1 \in Nat
      /\ Value(t2) = s2 + SubNs * X2 /\ X2 = a2 + NsMod * h2 /\ X2 \in Nat
  BY ValueType DEF Ns
<1>7. t.subns = IF s1 + s2 < SubNs THEN s1 + s2 ELSE s1 + s2 - SubNs
  <2> DEFINE x == s1 + s2
  <2>1. /\ x \in Int /\ 0 <= x /\ -SubNs <= x /\ x < 2 * SubNs /\ SubNs \in Nat \ {0}
    BY <1>1, <1>2
  <2>2. x % SubNs = IF x < 0 THEN x + SubNs ELSE IF x < SubNs THEN x ELSE x - SubNs
    <3> HIDE DEF x
    <3> QED BY <2>1, OneTurn, Zenon
  <2>3. t.subns = x % SubNs
    BY <1>4
  <2> HIDE DEF x
  <2>4. t.subns = IF x < SubNs THEN x ELSE x - SubNs
    BY <2>1, <2>2, <2>3
  <2> HIDE DEF s1, s2, t
  <2> QED BY <1>1, <1>2, <2>1, <2>4 DEF x
<1>8. d \in {0, 1} /\ t.nsec = a1 + a2 + c - NsMod * d /\ (d = 1 <=> a1 + a2 + c >= NsMod)
  <2> HIDE DEF c, a1, a2, t
  <2>1. /\ NsMod \in Nat \ {0, 1} /\ a1 \in 0 .. NsMod - 1 /\ a2 \in 0 .. NsMod - 1
        /\ c \in {0, 1}
    BY <1>1, <1>2, <1>3
  <2>2. /\ check_overflow(a1, a2, c, NsMod) = IF a1 + a2 + c < NsMod THEN 0 ELSE 1
        /\ (a1 + a2 + c) % NsMod =
             IF a1 + a2 + c < NsMod THEN a1 + a2 + c ELSE a1 + a2 + c - NsMod
    BY <2>1, LimbSum, Zenon
  <2>3. d = IF a1 + a2 + c < NsMod THEN 0 ELSE 1
    BY <2>2
  <2> HIDE DEF d
  <2> QED BY <1>4, <2>1, <2>2, <2>3
<1>9. h1 + h2 + d < MsbMod
  <2> HIDE DEF c, d, a1, a2, h1, h2, t, X1, X2
  <2> DEFINE h == h1 + h2 + d
             x == a1 + a2 + c - NsMod * d
  <2>1. /\ NsMod * h = NsMod * h1 + NsMod * h2 + NsMod * d
        /\ NsMod * h1 \in Int /\ NsMod * h2 \in Int /\ NsMod * d \in Int
        /\ NsMod * MsbMod \in Int
    BY <1>1, <1>2, <1>8
  <2>2. x \in 0 .. NsMod - 1
    <3>1. CASE d = 0
      BY <1>1, <1>2, <1>3, <1>8, <3>1
    <3>2. CASE d = 1
      BY <1>1, <1>2, <1>3, <1>8, <3>2
    <3>3. QED
      BY <1>8, <3>1, <3>2
  <2>3. x + NsMod * h < NsMod * MsbMod
    <3>1. X1 + X2 + 1 < NsMod * MsbMod
      BY DEF X1, X2
    <3>2. x + NsMod * h = X1 + X2 + c
      BY <1>1, <1>2, <1>3, <1>6, <2>1
    <3> HIDE DEF x, h
    <3> QED BY <1>3, <1>6, <3>1, <3>2, <2>1
  <2>4. ~(h >= MsbMod)
    <3> SUFFICES ASSUME h >= MsbMod PROVE FALSE
      OBVIOUS
    <3>1. h \in Int /\ MsbMod \in Int /\ 0 \in 0 .. NsMod - 1 /\ NsMod \in Nat \ {0}
      BY <1>1, <1>2, <1>8
    <3> HIDE DEF x, h
    <3>2. x + NsMod * h >= 0 + NsMod * MsbMod <=> h > MsbMod \/ (h = MsbMod /\ x >= 0)
      BY <2>2, <3>1, LimbOrder
    <3>3. x \in Nat /\ NsMod * h \in Int
      BY <1>1, <2>2, <3>1
    <3> QED BY <2>1, <2>3, <3>1, <3>2, <3>3
  <2> QED BY <1>1, <1>2, <1>8, <2>4
<1>10. t.nsec_msb = h1 + h2 + d
  <2> DEFINE x == h1 + h2 + d
  <2>1. x \in 0 .. MsbMod - 1
    <3> HIDE DEF d, h1, h2
    <3> QED BY <1>1, <1>2, <1>8, <1>9
  <2>2. x % MsbMod = x
    <3> HIDE DEF x
    <3> QED BY <1>1, <2>1, SMT
  <2> QED BY <1>4, <2>2
<1>11. Ns(t) = X1 + X2 + c
  <2> HIDE DEF c, d, a1, a2, h1, h2, t, X1, X2
  <2>1. NsMod * (h1 + h2 + d) = NsMod * h1 + NsMod * h2 + NsMod * d
    BY <1>1, <1>2, <1>8
  <2>2. NsMod * h1 \in Int /\ NsMod * h2 \in Int /\ NsMod * d \in Int
    BY <1>1, <1>2, <1>8
  <2> QED BY <1>1, <1>2, <1>3, <1>5, <1>6, <1>8, <1>10, <2>1, <2>2
<1>12. Value(t) = Value(t1) + Value(t2) + (IF s1 + s2 = SubNs - 1 THEN SubNs ELSE 0)
  <2> HIDE DEF c, t, X1, X2, s1, s2
  <2>1. SubNs * (X1 + X2 + c) = SubNs * X1 + SubNs * X2 + SubNs * c
    BY <1>1, <1>3, <1>6
  <2>2. /\ SubNs * X1 \in Int /\ SubNs * X2 \in Int
        /\ SubNs * c = IF c = 1 THEN SubNs ELSE 0
    BY <1>1, <1>3, <1>6
  <2> QED BY <1>1, <1>2, <1>3, <1>5, <1>6, <1>7, <1>11, <2>1, <2>2
<1>13. QED
  BY <1>12 DEF EarlyBy

\* The limbs of a number that fits stand for it.
LEMMA FromValueIsExact ==
    ASSUME NEW v \in Nat, v < SubNs * (NsMod * MsbMod)
    PROVE  /\ Value(FromValue(v)) = v
           /\ Ns(FromValue(v)) \in Nat /\ SubNs * Ns(FromValue(v)) <= v
           /\ FromValue(v).subns = v % SubNs
<1>1. SubNs \in Nat \ {0, 1} /\ NsMod \in Nat \ {0, 1} /\ MsbMod \in Nat \ {0, 1}
  BY LimbAssumption
<1> DEFINE n == SubNs * NsMod
           r == v % SubNs
           q == v \div SubNs
           a == q % NsMod
           p == q \div NsMod
           h == v \div n
           z == v % n
           t == FromValue(v)
<1>2. n \in Nat \ {0}
  BY <1>1
<1>3. r \in 0 .. SubNs - 1 /\ q \in Int /\ v = SubNs * q + r
  BY <1>1, Division
<1>4. a \in 0 .. NsMod - 1 /\ p \in Int /\ q = NsMod * p + a
  <2> HIDE DEF q
  <2> QED BY <1>1, <1>3, Division
<1>5. z \in 0 .. n - 1 /\ h \in Int /\ v = n * h + z
  <2> HIDE DEF n
  <2> QED BY <1>2, Division
<1> HIDE DEF r, q, a, p, h, z
<1>6. v = n * p + (SubNs * a + r) /\ SubNs * a + r \in 0 .. n - 1
  <2>1. SubNs * (NsMod * p + a) = n * p + SubNs * a
    BY <1>1, <1>3, <1>4
  <2>2. SubNs * a + r \in 0 .. n - 1
    <3>1. SubNs * a + r >= 0 /\ SubNs * a \in Nat
      BY <1>1, <1>3, <1>4
    <3>2. r + SubNs * a >= 0 + SubNs * NsMod <=> a > NsMod \/ (a = NsMod /\ r >= 0)
      BY <1>1, <1>3, <1>4, LimbOrder
    <3> QED BY <1>1, <1>2, <1>3, <1>4, <3>1, <3>2
  <2>3. n * p \in Int /\ SubNs * a \in Int
    BY <1>1, <1>2, <1>4
  <2> HIDE DEF n
  <2> QED BY <1>3, <1>4, <2>1, <2>2, <2>3
<1>7. p = h
  <2> DEFINE y == SubNs * a + r
  <2>1. /\ y + n * p >= z + n * h <=> p > h \/ (p = h /\ y >= z)
        /\ z + n * h >= y + n * p <=> h > p \/ (h = p /\ z >= y)
    <3> HIDE DEF n, y
    <3> QED BY <1>2, <1>4, <1>5, <1>6, LimbOrder DEF y
  <2>2. y + n * p = v /\ z + n * h = v
    <3>1. n * p \in Int /\ n * h \in Int /\ y \in Int
      BY <1>2, <1>4, <1>5, <1>6
    <3> HIDE DEF n, y
    <3> QED BY <1>5, <1>6, <3>1 DEF y
  <2> HIDE DEF n, y
  <2> QED BY <1>4, <1>5, <2>1, <2>2
<1>8. h \in 0 .. MsbMod - 1
  <2>1. h >= 0
    <3>1. z + n * h >= 0 + n * 0 <=> h > 0 \/ (h = 0 /\ z >= 0)
      <4> HIDE DEF n
      <4> QED BY <1>2, <1>5, LimbOrder
    <3>2. n * h \in Int
      BY <1>2, <1>5
    <3> HIDE DEF n
    <3> QED BY <1>2, <1>5, <3>1, <3>2
  <2>2. h < MsbMod
    <3>1. z + n * h >= 0 + n * MsbMod <=> h > MsbMod \/ (h = MsbMod /\ z >= 0)
      <4> HIDE DEF n
      <4> QED BY <1>1, <1>2, <1>5, LimbOrder
    <3>2. n * h \in Int /\ n * MsbMod = SubNs * (NsMod * MsbMod) /\ n * MsbMod \in Int
      BY <1>1, <1>2, <1>5
    <3> HIDE DEF n
    <3> QED BY <1>1, <1>2, <1>5, <3>1, <3>2
  <2> QED BY <1>1, <1>5, <2>1, <2>2
<1>9. /\ t.subns = r /\ t.nsec = a /\ t.nsec_msb = h
  <2>1. h % MsbMod = h
    BY <1>1, <1>8, SMT
  <2> QED BY <2>1 DEF FromValue, r, q, a, h
<1>10. /\ Value(t) = r + SubNs * Ns(t) /\ Ns(t) = q /\ Ns(t) \in Nat
  <2>1. t \in UScaledNs
    BY FromValueType
  <2> HIDE DEF t
  <2>2. Ns(t) \in Nat /\ Value(t) = t.subns + SubNs * Ns(t)
    BY <2>1, ValueType
  <2>3. Ns(t) = a + NsMod * p
    BY <1>7, <1>9 DEF Ns
  <2>4. NsMod * p \in Int
    BY <1>1, <1>4
  <2> QED BY <1>1, <1>4, <1>9, <2>2, <2>3, <2>4
<1>11. QED
  BY <1>1, <1>3, <1>9, <1>10 DEF r

-----------------------------------------------------------------------------
(* The list of the last samples                                            *)

\* How many samples slot i is behind slot t.
Behind(t, i) == (t - i) % MAXLENGTH
NextSlotOf(t) == (t + 1) % MAXLENGTH

LEMMA BehindSlot ==
    ASSUME NEW t \in Slots, NEW i \in Slots
    PROVE  Behind(t, i) \in Slots /\ Behind(t, i) = IF t >= i THEN t - i ELSE t - i + MAXLENGTH
<1> DEFINE x == t - i
<1>1. /\ MAXLENGTH \in Nat \ {0} /\ t \in 0 .. MAXLENGTH - 1 /\ i \in 0 .. MAXLENGTH - 1
  BY ListAssumption DEF Slots
<1>2. x \in Int /\ -MAXLENGTH <= x /\ x < MAXLENGTH /\ x < 2 * MAXLENGTH
  BY <1>1
<1>3. x % MAXLENGTH = IF x < 0 THEN x + MAXLENGTH ELSE IF x < MAXLENGTH THEN x ELSE x - MAXLENGTH
  <2> HIDE DEF x
  <2> QED BY <1>1, <1>2, OneTurn, Zenon
<1>4. QED
  <2> DEFINE y == x % MAXLENGTH
  <2>1. Behind(t, i) = y
    BY DEF Behind
  <2>2. y = IF x < 0 THEN x + MAXLENGTH ELSE x
    <3> HIDE DEF x
    <3> QED BY <1>1, <1>2, <1>3
  <2> HIDE DEF y
  <2> QED BY <1>1, <2>1, <2>2 DEF Slots

LEMMA NextSlotType ==
    ASSUME NEW t \in Slots
    PROVE  NextSlotOf(t) \in Slots /\ NextSlotOf(t) = IF t = MAXLENGTH - 1 THEN 0 ELSE t + 1
<1> DEFINE x == t + 1
<1>1. MAXLENGTH \in Nat \ {0, 1} /\ t \in 0 .. MAXLENGTH - 1
  BY ListAssumption DEF Slots
<1>2. /\ x \in Int /\ 0 <= x /\ -MAXLENGTH <= x /\ x < 2 * MAXLENGTH /\ MAXLENGTH \in Nat \ {0}
  BY <1>1
<1>3. x % MAXLENGTH = IF x < 0 THEN x + MAXLENGTH ELSE IF x < MAXLENGTH THEN x ELSE x - MAXLENGTH
  <2> HIDE DEF x
  <2> QED BY <1>2, OneTurn, Zenon
<1>4. QED
  <2> DEFINE y == x % MAXLENGTH
  <2>1. NextSlotOf(t) = y
    BY DEF NextSlotOf
  <2>2. y = IF x < MAXLENGTH THEN x ELSE x - MAXLENGTH
    <3> HIDE DEF x
    <3> QED BY <1>1, <1>2, <1>3
  <2> HIDE DEF y
  <2> QED BY <1>1, <2>1, <2>2 DEF Slots

\* A new sample: every other slot is one sample further behind.
LEMMA NextBehind ==
    ASSUME NEW t \in Slots, NEW i \in Slots
    PROVE  /\ Behind(NextSlotOf(t), i) = IF i = NextSlotOf(t) THEN 0 ELSE Behind(t, i) + 1
           /\ i = NextSlotOf(t) <=> Behind(t, i) = MAXLENGTH - 1
<1>1. MAXLENGTH \in Nat \ {0, 1} /\ t \in 0 .. MAXLENGTH - 1 /\ i \in 0 .. MAXLENGTH - 1
  BY ListAssumption DEF Slots
<1> DEFINE u == NextSlotOf(t)
<1>2. u \in Slots /\ u \in 0 .. MAXLENGTH - 1 /\ u = IF t = MAXLENGTH - 1 THEN 0 ELSE t + 1
  BY NextSlotType DEF Slots
<1> HIDE DEF u
<1>3. Behind(t, i) = IF t >= i THEN t - i ELSE t - i + MAXLENGTH
  BY BehindSlot
<1>4. Behind(u, i) = IF u >= i THEN u - i ELSE u - i + MAXLENGTH
  BY <1>2, BehindSlot
<1>5. /\ Behind(u, i) = IF i = u THEN 0 ELSE Behind(t, i) + 1
      /\ i = u <=> Behind(t, i) = MAXLENGTH - 1
  BY <1>1, <1>2, <1>3, <1>4
<1>6. QED
  BY <1>5 DEF u

\* Slots are told apart by how far behind they are.
LEMMA BehindInjective ==
    ASSUME NEW t \in Slots, NEW i \in Slots, NEW j \in Slots, Behind(t, i) = Behind(t, j)
    PROVE  i = j
<1>1. MAXLENGTH \in Nat \ {0, 1} /\ t \in 0 .. MAXLENGTH - 1 /\ i \in 0 .. MAXLENGTH - 1
      /\ j \in 0 .. MAXLENGTH - 1
  BY ListAssumption DEF Slots
<1>2. /\ Behind(t, i) = IF t >= i THEN t - i ELSE t - i + MAXLENGTH
      /\ Behind(t, j) = IF t >= j THEN t - j ELSE t - j + MAXLENGTH
  BY BehindSlot
<1>3. (IF t >= i THEN t - i ELSE t - i + MAXLENGTH) = IF t >= j THEN t - j ELSE t - j + MAXLENGTH
  BY <1>2, Zenon
<1>4. QED
  BY <1>1, <1>3

ClockTyped ==
    /\ ClockTypeOK
    /\ master \in Int /\ local \in Nat /\ undisturbed \in Nat

\* Slot i holds the last sample stored in it; the list does not reach further back
\* than the samples do.
Numbered ==
    /\ \A i \in Slots : list[i].n = IF Behind(listTailPeriod, i) < samples
                                    THEN samples - Behind(listTailPeriod, i) ELSE 0
    /\ isEmptyPeriod <=> samples = 0
    /\ samples > 0 => Behind(listTailPeriod, listHeadPeriod) < samples
    /\ samples = 0 => listHeadPeriod = 0 /\ listTailPeriod = MAXLENGTH - 1

ClockInv == ClockTyped /\ Numbered

WindowLength == IF isEmptyPeriod THEN 0 ELSE Behind(listTailPeriod, listHeadPeriod) + 1

\* The head from which the ratio is taken is the oldest sample of the list, or the
\* next one if the list was full.
LEMMA AdvanceIsOldest ==
    ASSUME ClockInv
    PROVE  LET head == Advance(listHeadPeriod, listTailPeriod)
           IN /\ head \in Slots
              /\ Behind(NextSlotOf(listTailPeriod), head) =
                   IF WindowLength = MAXLENGTH THEN WindowLength - 1 ELSE WindowLength
              /\ Behind(NextSlotOf(listTailPeriod), head) \in 0 .. samples
<1> DEFINE h == listHeadPeriod  t == listTailPeriod  u == NextSlotOf(t)  head == Advance(h, t)
<1>1. /\ h \in Slots /\ t \in Slots /\ samples \in Nat /\ u \in Slots
      /\ MAXLENGTH \in Nat \ {0, 1} /\ isEmptyPeriod \in BOOLEAN
  BY ListAssumption, NextSlotType, StepAssumption DEF ClockInv, ClockTyped, ClockTypeOK
<1>2. head = IF ~isEmptyPeriod /\ h = u THEN NextSlotOf(h) ELSE h
  BY DEF Advance, NextSlotOf
<1>3. /\ isEmptyPeriod <=> samples = 0
      /\ samples > 0 => Behind(t, h) < samples
      /\ samples = 0 => h = 0 /\ t = MAXLENGTH - 1
  BY DEF ClockInv, Numbered
<1>4. /\ Behind(u, h) = IF h = u THEN 0 ELSE Behind(t, h) + 1
      /\ h = u <=> Behind(t, h) = MAXLENGTH - 1
      /\ Behind(t, h) \in 0 .. MAXLENGTH - 1
  BY <1>1, NextBehind, BehindSlot DEF Slots
<1>5. CASE isEmptyPeriod
  <2>1. u = 0 /\ h = 0 /\ head = 0 /\ samples = 0
    BY <1>1, <1>2, <1>3, <1>5, NextSlotType
  <2>2. WindowLength = 0
    BY <1>5 DEF WindowLength
  <2>3. head \in Slots /\ Behind(u, head) = 0
    BY <1>1, <1>4, <2>1
  <2> HIDE DEF head, u
  <2>4. QED
    BY <1>1, <2>1, <2>2, <2>3 DEF head, u
<1>6. CASE ~isEmptyPeriod /\ h = u
  <2> DEFINE g == NextSlotOf(h)
  <2>1. g \in Slots /\ g = IF h = MAXLENGTH - 1 THEN 0 ELSE h + 1
    BY <1>1, NextSlotType
  <2>2. g # u
    <3> HIDE DEF g, u
    <3> QED BY <1>1, <1>6, <2>1 DEF Slots
  <2>3. Behind(u, g) = MAXLENGTH - 1
    <3>1. Behind(g, g) = 0
      <4> HIDE DEF g
      <4> QED BY <2>1, BehindSlot DEF Slots
    <3>2. Behind(u, g) = IF u >= g THEN u - g ELSE u - g + MAXLENGTH
      <4> HIDE DEF g, u
      <4> QED BY <1>1, <2>1, BehindSlot
    <3> HIDE DEF g, u
    <3> QED BY <1>1, <1>6, <2>1, <3>2 DEF Slots
  <2>4. Behind(t, h) = MAXLENGTH - 1 /\ WindowLength = MAXLENGTH
    BY <1>1, <1>4, <1>6 DEF WindowLength
  <2>5. head = g
    BY <1>2, <1>6
  <2>6. Behind(u, head) \in 0 .. samples
    <3> HIDE DEF g, u, head
    <3> QED BY <1>1, <1>3, <1>6, <2>3, <2>4, <2>5
  <2> HIDE DEF g, u, head
  <2>7. QED
    BY <1>1, <2>1, <2>3, <2>4, <2>5, <2>6 DEF u, head
<1>7. CASE ~isEmptyPeriod /\ h # u
  <2>1. head = h
    BY <1>2, <1>7
  <2>2. Behind(u, head) = Behind(t, h) + 1 /\ Behind(t, h) < MAXLENGTH - 1
    BY <1>1, <1>4, <1>7, <2>1
  <2>3. WindowLength = Behind(t, h) + 1
    BY <1>7 DEF WindowLength
  <2>4. Behind(u, head) \in 0 .. samples /\ WindowLength # MAXLENGTH
    <3> HIDE DEF u, head
    <3> QED BY <1>1, <1>3, <1>4, <1>7, <2>2, <2>3
  <2> HIDE DEF u, head
  <2>5. QED
    BY <1>1, <2>1, <2>2, <2>3, <2>4 DEF u, head
<1>8. QED
  BY <1>1, <1>5, <1>6, <1>7

-----------------------------------------------------------------------------
(* One sample                                                              *)

\* A ratio that is not meaningless is at least one half, so that the period does not
\* become 0.
LEMMA RatioKeepsRate ==
    ASSUME NEW r \in Nat \ {0}, NEW dT \in Nat, NEW dL \in Nat, Verdict(dT, dL) = "correct"
    PROVE  Rounded(r * dT, dL) \in Nat \ {0}
<1>1. dT # dL /\ ~(Distance(dT, dL) * Limit > dL)
  BY DEF Verdict
<1>2. Limit \in Nat /\ Limit >= 2
  BY StepAssumption
<1>3. Distance(dT, dL) \in Nat \ {0}
  BY <1>1 DEF Distance
<1>4. 2 * Distance(dT, dL) <= dL
  <2> DEFINE e == Distance(dT, dL)
  <2> HIDE DEF e
  <2>1. e \in Nat /\ Limit - 2 \in Nat /\ Limit = 2 + (Limit - 2)
    BY <1>2, <1>3 DEF e
  <2>2. e * Limit = e * 2 + e * (Limit - 2) /\ e * (Limit - 2) \in Nat
    BY <2>1
  <2>3. ~(e * Limit > dL)
    BY <1>1 DEF e
  <2>4. 2 * e <= dL
    BY <2>1, <2>2, <2>3
  <2> QED BY <2>4 DEF e
<1>5. dL > 0 /\ 2 * dT >= dL
  <2>1. Distance(dT, dL) = IF dT > dL THEN dT - dL ELSE dL - dT
    BY DEF Distance
  <2> QED BY <1>3, <1>4, <2>1
<1> DEFINE x == 2 * (r * dT) + dL
           m == 2 * dL
<1>6. x \in Nat /\ m \in Nat \ {0} /\ x >= m
  <2>1. r - 1 \in Nat /\ r = 1 + (r - 1)
    OBVIOUS
  <2>2. r * dT = dT + (r - 1) * dT /\ (r - 1) * dT \in Nat
    BY <2>1
  <2> QED BY <1>5, <2>2
<1>7. Rounded(r * dT, dL) = x \div m
  BY DEF Rounded
<1> HIDE DEF x, m
<1>8. x % m \in 0 .. m - 1 /\ x \div m \in Int /\ x = m * (x \div m) + (x % m)
  BY <1>6, Division
<1> DEFINE q == x \div m
<1>9. q >= 1
  <2> HIDE DEF q
  <2>1. m * q > 0
    BY <1>6, <1>8 DEF q
  <2>2. (x % m) + m * q >= 0 + m * 1 <=> q > 1 \/ (q = 1 /\ x % m >= 0)
    <3> DEFINE z == x % m
    <3>1. z \in 0 .. m - 1 /\ q \in Int
      BY <1>8 DEF q
    <3> HIDE DEF z
    <3>2. z + m * q >= 0 + m * 1 <=> q > 1 \/ (q = 1 /\ z >= 0)
      BY <1>6, <3>1, LimbOrder
    <3> QED BY <3>2 DEF z
  <2>3. x = (x % m) + m * q /\ q \in Int
    <3> DEFINE z == x % m
    <3>1. z \in Int /\ m * q \in Int /\ x = m * q + z
      BY <1>6, <1>8 DEF q
    <3> HIDE DEF z
    <3>2. x = z + m * q
      BY <3>1
    <3> QED BY <1>8, <3>2 DEF z, q
  <2>4. (x % m) + m * q >= m
    BY <1>6, <2>3
  <2> QED BY <1>6, <1>8, <2>2, <2>3, <2>4
<1>10. QED
  BY <1>7, <1>8, <1>9

Sampled == \E pot, fup, delay, tx \in UScaledNs : SendSyncIndication(pot, fup, delay, tx)

LEMMA RecvPssSamples ==
    ASSUME ClockTyped, NEW gap \in 1 .. MaxGap, NEW jump \in Jumps, NEW ns \in CorrectionNs,
           RecvPss(gap, jump, ns)
    PROVE  /\ Sampled
           /\ samples' = samples + 1 /\ samples' \in 0 .. MaxSamples
           /\ master' \in Int /\ local' \in Nat /\ undisturbed' \in Nat
           /\ source' = source
<1>1. /\ samples \in Nat /\ rate \in Nat /\ master \in Int /\ local \in Nat
      /\ undisturbed \in Nat /\ SubNs \in Nat \ {0} /\ ns \in Nat /\ jump \in Int
      /\ gap \in Nat /\ Step \in Nat /\ MaxSamples \in Nat
  BY StepAssumption, LimbAssumption DEF ClockTyped, ClockTypeOK
<1>2. samples' = samples + 1 /\ samples' \in 0 .. MaxSamples /\ source' = source
  BY <1>1 DEF RecvPss, ClockTyped, ClockTypeOK
<1>3. master' \in Int /\ local' \in Nat
  <2>1. gap * Step \in Int /\ gap * rate \in Nat
    BY <1>1
  <2>2. master' = master + gap * Step + jump /\ local' = local + gap * rate
    BY DEF RecvPss
  <2> QED BY <1>1, <2>1, <2>2
<1>4. undisturbed' \in Nat
  BY <1>1 DEF RecvPss
<1> DEFINE c == (master' % SubNs) + SubNs * ns
           d == local' % SubNs
<1>5. c \in Int /\ d \in Int /\ master' - c \in Int /\ local' - d \in Int
  <2>1. master' % SubNs \in Int /\ d \in Int
    BY <1>1, <1>3, Division
  <2>2. SubNs * ns \in Int
    BY <1>1
  <2> QED BY <1>3, <2>1, <2>2
<1>6. /\ FromValue(master' - c) \in UScaledNs /\ FromValue(c) \in UScaledNs
      /\ FromValue(Delay) \in UScaledNs /\ FromValue(local') \in UScaledNs
      /\ FromValue(local' - d) \in UScaledNs /\ FromValue(d) \in UScaledNs /\ Zero \in UScaledNs
  <2>1. Delay \in Int /\ 0 \in Int
    BY StepAssumption
  <2> HIDE DEF c, d
  <2> QED BY <1>3, <1>5, <2>1, FromValueType DEF Zero
<1>7. \/ SendSyncIndication(FromValue(master' - c), FromValue(c), FromValue(Delay), FromValue(local'))
      \/ SendSyncIndication(FromValue(local' - d), FromValue(d), Zero, FromValue(local'))
  BY DEF RecvPss
<1>8. Sampled
  <2> HIDE DEF c, d
  <2> QED BY <1>6, <1>7, Zenon DEF Sampled
<1>9. QED
  BY <1>2, <1>3, <1>4, <1>8

LEMMA SlaveTimeType ==
    ASSUME NEW t \in UScaledNs, NEW l \in UScaledNs
    PROVE  updateSlaveTime(t, l) \in [sub : BOOLEAN, ns : 0 .. NsMod - 1]
<1>1. /\ Subtract(t, l).nsec \in 0 .. NsMod - 1 /\ Subtract(l, t).nsec \in 0 .. NsMod - 1
  <2>1. Subtract(t, l) \in UScaledNs /\ Subtract(l, t) \in UScaledNs
    BY SubtractType
  <2> QED BY <2>1 DEF UScaledNs
<1>2. QED
  BY <1>1 DEF updateSlaveTime

\* What a sample does to the list: it is stored behind the tail, and the head is the
\* oldest sample, or the newest when the ratio was used.
Stored ==
    LET tail == NextSlotOf(listTailPeriod)
        head == Advance(listHeadPeriod, listTailPeriod)
    IN /\ \E t, l \in UScaledNs : /\ list' = [list EXCEPT ![tail] = Entry(samples + 1, t, l)]
                                  /\ offset' = updateSlaveTime(t, l)
       /\ listTailPeriod' = tail /\ isEmptyPeriod' = FALSE
       /\ \/ listHeadPeriod' = head
          \/ /\ listHeadPeriod' = tail
             /\ Subtract(list'[tail].time, list'[head].time)
                  # Subtract(list'[tail].localTime, list'[head].localTime)
       /\ rate' \in Nat \ {0}

LEMMA SampleIsStored ==
    ASSUME ClockInv, Sampled
    PROVE  Stored
<1>1. PICK pot, fup, delay, tx \in UScaledNs : SendSyncIndication(pot, fup, delay, tx)
  BY DEF Sampled
<1> DEFINE t == Add(Add(pot, fup), delay)
           l == Add(tx, delay)
           tail == NextSlotOf(listTailPeriod)
           head == Advance(listHeadPeriod, listTailPeriod)
           slots == [list EXCEPT ![tail] = Entry(samples + 1, t, l)]
           dT == Value(Subtract(slots[tail].time, slots[head].time))
           dL == Value(Subtract(slots[tail].localTime, slots[head].localTime))
<1>2. t \in UScaledNs /\ l \in UScaledNs
  BY AddType
<1>3. /\ list' = slots /\ listTailPeriod' = tail /\ isEmptyPeriod' = FALSE
      /\ offset' = updateSlaveTime(t, l) /\ updateSlavePeriod(slots, head, tail)
  BY <1>1 DEF SendSyncIndication, NextSlotOf
<1>4. tail \in Slots /\ head \in Slots /\ listTailPeriod \in Slots
  <2>1. listTailPeriod \in Slots
    BY DEF ClockInv, ClockTyped, ClockTypeOK
  <2> QED BY <2>1, NextSlotType, AdvanceIsOldest
<1>5. slots \in [Slots -> [n : Nat, time : UScaledNs, localTime : UScaledNs]]
  <2>1. list \in [Slots -> [n : Nat, time : UScaledNs, localTime : UScaledNs]] /\ samples \in Nat
    BY StepAssumption DEF ClockInv, ClockTyped, ClockTypeOK
  <2>2. Entry(samples + 1, t, l) \in [n : Nat, time : UScaledNs, localTime : UScaledNs]
    <3> HIDE DEF t, l
    <3> QED BY <1>2, <2>1 DEF Entry
  <2> HIDE DEF t, l, tail
  <2> QED BY <1>4, <2>1, <2>2
<1>6. dT \in Nat /\ dL \in Nat
  <2> HIDE DEF slots, tail, head
  <2>1. /\ slots[tail].time \in UScaledNs /\ slots[head].time \in UScaledNs
        /\ slots[tail].localTime \in UScaledNs /\ slots[head].localTime \in UScaledNs
    BY <1>4, <1>5
  <2> QED BY <2>1, SubtractType, ValueType
<1>7. rate \in Nat \ {0}
  BY DEF ClockInv, ClockTyped, ClockTypeOK
<1>8. \/ /\ rate' = rate /\ listHeadPeriod' = head
      \/ /\ Verdict(dT, dL) # "exact"
         /\ rate' = IF Verdict(dT, dL) = "correct" THEN Rounded(rate * dT, dL) ELSE rate
         /\ listHeadPeriod' = tail
  <2> HIDE DEF slots, tail, head
  <2> QED BY <1>3 DEF updateSlavePeriod
<1>9. rate' \in Nat \ {0}
  <2> HIDE DEF dT, dL, tail, head
  <2> QED BY <1>6, <1>7, <1>8, RatioKeepsRate
<1>10. Verdict(dT, dL) # "exact" =>
         Subtract(slots[tail].time, slots[head].time)
           # Subtract(slots[tail].localTime, slots[head].localTime)
  <2> HIDE DEF slots, tail, head
  <2> QED BY DEF Verdict
<1>11. \E t0, l0 \in UScaledNs : /\ list' = [list EXCEPT ![tail] = Entry(samples + 1, t0, l0)]
                                 /\ offset' = updateSlaveTime(t0, l0)
  <2>1. list' = [list EXCEPT ![tail] = Entry(samples + 1, t, l)] /\ offset' = updateSlaveTime(t, l)
    BY <1>3
  <2> HIDE DEF t, l, tail
  <2> QED BY <1>2, <2>1
<1>12. \/ listHeadPeriod' = head
       \/ /\ listHeadPeriod' = tail
          /\ Subtract(list'[tail].time, list'[head].time)
               # Subtract(list'[tail].localTime, list'[head].localTime)
  <2>1. list' = slots
    BY <1>3
  <2> HIDE DEF slots, tail, head, dT, dL
  <2> QED BY <1>8, <1>10, <2>1
<1>13. QED
  <2>1. listTailPeriod' = tail /\ isEmptyPeriod' = FALSE
    BY <1>3
  <2> QED BY <1>9, <1>11, <1>12, <2>1, Zenon DEF Stored

\* Slot i after a sample.
LEMMA StoredNumbers ==
    ASSUME ClockInv, Stored, samples' = samples + 1
    PROVE  /\ list' \in [Slots -> [n : Nat, time : UScaledNs, localTime : UScaledNs]]
           /\ offset' \in [sub : BOOLEAN, ns : 0 .. NsMod - 1]
           /\ listTailPeriod' = NextSlotOf(listTailPeriod) /\ listTailPeriod' \in Slots
           /\ \A i \in Slots : list'[i].n = IF Behind(listTailPeriod', i) < samples'
                                            THEN samples' - Behind(listTailPeriod', i) ELSE 0
<1> DEFINE tail == NextSlotOf(listTailPeriod)
<1>1. PICK t \in UScaledNs, l \in UScaledNs :
        /\ list' = [list EXCEPT ![tail] = Entry(samples + 1, t, l)]
        /\ offset' = updateSlaveTime(t, l)
  BY DEF Stored
<1>2. /\ list \in [Slots -> [n : Nat, time : UScaledNs, localTime : UScaledNs]]
      /\ samples \in Nat /\ listTailPeriod \in Slots
  BY StepAssumption DEF ClockInv, ClockTyped, ClockTypeOK
<1>3. listTailPeriod' = tail /\ tail \in Slots
  BY <1>2, NextSlotType DEF Stored
<1>4. Entry(samples + 1, t, l) \in [n : Nat, time : UScaledNs, localTime : UScaledNs]
      /\ Entry(samples + 1, t, l).n = samples + 1
  BY <1>2 DEF Entry
<1>5. list' \in [Slots -> [n : Nat, time : UScaledNs, localTime : UScaledNs]]
  <2> HIDE DEF tail
  <2> QED BY <1>1, <1>2, <1>3, <1>4
<1>6. ASSUME NEW i \in Slots
      PROVE  list'[i].n = IF Behind(tail, i) < samples + 1
                          THEN samples + 1 - Behind(tail, i) ELSE 0
  <2>1. /\ Behind(tail, i) = IF i = tail THEN 0 ELSE Behind(listTailPeriod, i) + 1
        /\ Behind(listTailPeriod, i) \in Nat
    BY <1>2, NextBehind, BehindSlot DEF Slots
  <2>2. list[i].n = IF Behind(listTailPeriod, i) < samples
                    THEN samples - Behind(listTailPeriod, i) ELSE 0
    BY DEF ClockInv, Numbered
  <2> HIDE DEF tail
  <2>3. CASE i = tail
    BY <1>1, <1>2, <1>3, <1>4, <2>1, <2>3
  <2>4. CASE i # tail
    <3>1. list'[i] = list[i]
      BY <1>1, <1>2, <1>3, <2>4
    <3> QED BY <1>2, <2>1, <2>2, <2>4, <3>1
  <2>5. QED
    BY <2>3, <2>4
<1>7. offset' \in [sub : BOOLEAN, ns : 0 .. NsMod - 1]
  BY <1>1, SlaveTimeType
<1>8. \A i \in Slots : list'[i].n = IF Behind(listTailPeriod', i) < samples'
                                   THEN samples' - Behind(listTailPeriod', i) ELSE 0
  <2> SUFFICES ASSUME NEW i \in Slots
               PROVE  list'[i].n = IF Behind(listTailPeriod', i) < samples'
                                   THEN samples' - Behind(listTailPeriod', i) ELSE 0
    OBVIOUS
  <2>1. list'[i].n = IF Behind(tail, i) < samples + 1 THEN samples + 1 - Behind(tail, i) ELSE 0
    BY <1>6
  <2>2. Behind(listTailPeriod', i) = Behind(tail, i)
    BY <1>3
  <2>3. samples' = samples + 1 /\ samples \in Nat /\ Behind(tail, i) \in Nat
    BY <1>2, <1>3, BehindSlot DEF Slots
  <2> DEFINE b == Behind(tail, i)
  <2> HIDE DEF b, tail
  <2> QED BY <2>1, <2>2, <2>3 DEF b
<1>9. QED
  BY <1>3, <1>5, <1>7, <1>8

LEMMA RecvPssKeepsInv ==
    ASSUME ClockInv, NEW gap \in 1 .. MaxGap, NEW jump \in Jumps, NEW ns \in CorrectionNs,
           RecvPss(gap, jump, ns)
    PROVE  ClockInv'
<1>1. /\ Sampled /\ samples' = samples + 1 /\ samples' \in 0 .. MaxSamples
      /\ master' \in Int /\ local' \in Nat /\ undisturbed' \in Nat /\ source' = source
  BY RecvPssSamples DEF ClockInv
<1>2. Stored
  BY <1>1, SampleIsStored
<1>3. /\ list' \in [Slots -> [n : Nat, time : UScaledNs, localTime : UScaledNs]]
      /\ offset' \in [sub : BOOLEAN, ns : 0 .. NsMod - 1]
      /\ listTailPeriod' = NextSlotOf(listTailPeriod) /\ listTailPeriod' \in Slots
      /\ \A i \in Slots : list'[i].n = IF Behind(listTailPeriod', i) < samples'
                                       THEN samples' - Behind(listTailPeriod', i) ELSE 0
  BY <1>1, <1>2, StoredNumbers
<1> DEFINE head == Advance(listHeadPeriod, listTailPeriod)
<1>4. /\ head \in Slots /\ Behind(listTailPeriod', head) \in 0 .. samples
  BY <1>3, AdvanceIsOldest
<1>5. listHeadPeriod' \in {head, listTailPeriod'} /\ isEmptyPeriod' = FALSE /\ rate' \in Nat \ {0}
  BY <1>2, <1>3 DEF Stored
<1>6. samples \in Nat /\ Behind(listTailPeriod', listTailPeriod') = 0
  BY <1>3, BehindSlot, StepAssumption DEF ClockInv, ClockTyped, ClockTypeOK, Slots
<1>7. listHeadPeriod' \in Slots /\ Behind(listTailPeriod', listHeadPeriod') < samples'
  <2> HIDE DEF head
  <2> QED BY <1>1, <1>3, <1>4, <1>5, <1>6
<1>8. ClockTyped'
  <2>1. source' \in {"master", "self"}
    BY <1>1 DEF ClockInv, ClockTyped, ClockTypeOK
  <2> QED BY <1>1, <1>3, <1>5, <1>7, <2>1 DEF ClockTyped, ClockTypeOK
<1>9. Numbered'
  BY <1>1, <1>3, <1>5, <1>6, <1>7 DEF Numbered, Behind
<1>10. QED
  BY <1>8, <1>9 DEF ClockInv

LEMMA ChangeSourceKeepsInv ==
    ASSUME ClockInv, ChangeSource
    PROVE  ClockInv'
<1>1. ClockTyped'
  BY DEF ClockInv, ClockTyped, ClockTypeOK, ChangeSource, listVars
<1>2. Numbered'
  BY DEF ClockInv, Numbered, ChangeSource, listVars, Behind
<1>3. QED
  BY <1>1, <1>2 DEF ClockInv

LEMMA ClockInitInv == ClockInit => ClockInv
<1> SUFFICES ASSUME ClockInit PROVE ClockInv
  OBVIOUS
<1>1. /\ MAXLENGTH \in Nat \ {0, 1} /\ SubNs \in Nat \ {0, 1} /\ NsMod \in Nat \ {0, 1}
  BY ListAssumption, LimbAssumption
<1>2. Zero \in UScaledNs
  BY FromValueType DEF Zero
<1>3. /\ list = [i \in Slots |-> Entry(0, Zero, Zero)]
      /\ listHeadPeriod = 0 /\ listTailPeriod = MAXLENGTH - 1 /\ isEmptyPeriod = TRUE
      /\ samples = 0
  BY DEF ClockInit
<1>4. Entry(0, Zero, Zero) \in [n : Nat, time : UScaledNs, localTime : UScaledNs]
      /\ Entry(0, Zero, Zero).n = 0
  BY <1>2 DEF Entry
<1>5. ClockTyped
  BY <1>1, <1>3, <1>4, StepAssumption DEF ClockInit, ClockTyped, ClockTypeOK, Slots
<1>6. Numbered
  <2>1. \A i \in Slots : list[i].n = 0 /\ Behind(listTailPeriod, i) \in Nat
    <3> SUFFICES ASSUME NEW i \in Slots PROVE list[i].n = 0 /\ Behind(listTailPeriod, i) \in Nat
      OBVIOUS
    <3>1. list[i].n = 0
      BY <1>3, <1>4
    <3>2. listTailPeriod \in Slots
      BY <1>1, <1>3 DEF Slots
    <3> QED BY <3>1, <3>2, BehindSlot DEF Slots
  <2> QED BY <1>3, <2>1 DEF Numbered
<1>7. QED
  BY <1>5, <1>6 DEF ClockInv

LEMMA ClockNextInv == ClockInv /\ [ClockNext]_clockVars => ClockInv'
<1> SUFFICES ASSUME ClockInv, [ClockNext]_clockVars PROVE ClockInv'
  OBVIOUS
<1>1. CASE \E gap \in 1 .. MaxGap, jump \in Jumps, ns \in CorrectionNs : RecvPss(gap, jump, ns)
  BY <1>1, RecvPssKeepsInv
<1>2. CASE ChangeSource
  BY <1>2, ChangeSourceKeepsInv
<1>3. CASE UNCHANGED clockVars
  BY <1>3 DEF clockVars, listVars, ClockInv, ClockTyped, ClockTypeOK, Numbered, Behind
<1>4. QED
  BY <1>1, <1>2, <1>3 DEF ClockNext

\* The list, the registers and the source keep their types: in particular the period
\* register never becomes 0, whatever ratio the samples give.
THEOREM ClockTyping == ClockSpec => []ClockTypeOK
<1>1. ClockInv => ClockTypeOK
  BY DEF ClockInv, ClockTyped
<1>2. QED
  BY <1>1, ClockInitInv, ClockNextInv, PTL DEF ClockSpec

LEMMA SampleSlides ==
    ASSUME ClockInv, Stored, samples' = samples + 1
    PROVE  OldestToNewest
<1> DEFINE tail == listTailPeriod'
           head == Advance(listHeadPeriod, listTailPeriod)
           length == IF isEmptyPeriod THEN 0
                     ELSE ((listTailPeriod - listHeadPeriod) % MAXLENGTH) + 1
           oldest == IF length = MAXLENGTH THEN samples' - length + 1 ELSE samples' - length
           first  == CHOOSE i \in Slots : list'[i].n = oldest
<1>1. /\ tail = NextSlotOf(listTailPeriod) /\ tail \in Slots
      /\ \A i \in Slots : list'[i].n = IF Behind(tail, i) < samples'
                                       THEN samples' - Behind(tail, i) ELSE 0
  BY StoredNumbers
<1>2. /\ head \in Slots
      /\ Behind(tail, head) = IF length = MAXLENGTH THEN length - 1 ELSE length
      /\ Behind(tail, head) \in 0 .. samples
  <2>1. WindowLength = length
    BY DEF WindowLength, Behind
  <2> HIDE DEF length, head, tail
  <2> QED BY <1>1, <2>1, AdvanceIsOldest DEF head
<1>3. samples \in Nat /\ samples' = samples + 1 /\ MAXLENGTH \in Nat
  BY StepAssumption, ListAssumption DEF ClockInv, ClockTyped, ClockTypeOK
<1>4. oldest = samples' - Behind(tail, head) /\ oldest \in Nat \ {0}
  <2>1. length \in Int
    <3>1. Behind(listTailPeriod, listHeadPeriod) \in Int
      BY BehindSlot, ListAssumption DEF ClockInv, ClockTyped, ClockTypeOK, Slots
    <3> QED BY <3>1 DEF Behind
  <2> HIDE DEF length, tail, head
  <2> QED BY <1>2, <1>3, <2>1
<1>5. list'[head].n = oldest
  <2> HIDE DEF head, tail, oldest
  <2>1. list'[head].n = IF Behind(tail, head) < samples' THEN samples' - Behind(tail, head) ELSE 0
    BY <1>1, <1>2
  <2> QED BY <1>2, <1>3, <1>4, <2>1
<1>6. first = head
  <2>1. ASSUME NEW i \in Slots, list'[i].n = oldest PROVE i = head
    <3> HIDE DEF head, tail, oldest
    <3>1. list'[i].n = IF Behind(tail, i) < samples' THEN samples' - Behind(tail, i) ELSE 0
      BY <1>1
    <3>2. Behind(tail, i) \in Int
      BY <1>1, BehindSlot DEF Slots
    <3>3. Behind(tail, i) = Behind(tail, head)
      BY <1>2, <1>3, <1>4, <2>1, <3>1, <3>2
    <3> QED BY <1>1, <1>2, <3>3, BehindInjective
  <2> HIDE DEF head, oldest
  <2> QED BY <1>2, <1>5, <2>1
<1>7. list'[tail].n = samples'
  <2> HIDE DEF tail
  <2>1. list'[tail].n = IF Behind(tail, tail) < samples' THEN samples' - Behind(tail, tail) ELSE 0
    BY <1>1
  <2>2. Behind(tail, tail) = 0
    BY <1>1, BehindSlot DEF Slots
  <2> QED BY <1>3, <2>1, <2>2
<1>8. \/ listHeadPeriod' = head
      \/ /\ listHeadPeriod' = tail
         /\ Subtract(list'[tail].time, list'[head].time)
              # Subtract(list'[tail].localTime, list'[head].localTime)
  <2> HIDE DEF head, tail
  <2> QED BY <1>1 DEF Stored, head
<1>9. \/ list'[listHeadPeriod'].n = oldest
      \/ /\ listHeadPeriod' = tail
         /\ Subtract(list'[tail].time, list'[first].time)
              # Subtract(list'[tail].localTime, list'[first].localTime)
  <2> HIDE DEF head, tail, first, oldest
  <2> QED BY <1>5, <1>6, <1>8
<1>10. QED
  BY <1>7, <1>9, Zenon DEF OldestToNewest

\* A sample moves the window on by one: the ratio is taken between the newest sample
\* and the oldest of the circular list, whatever its length and however often it has
\* wrapped or started again.
THEOREM WindowsSlide == ClockSpec => WindowSlides
<1>1. ClockInv /\ [ClockNext]_clockVars => [samples' = samples + 1 => OldestToNewest]_clockVars
  <2> SUFFICES ASSUME ClockInv, ClockNext, samples' = samples + 1 PROVE OldestToNewest
    OBVIOUS
  <2>1. CASE \E gap \in 1 .. MaxGap, jump \in Jumps, ns \in CorrectionNs : RecvPss(gap, jump, ns)
    <3>1. Sampled
      BY <2>1, RecvPssSamples DEF ClockInv
    <3>2. Stored
      BY <3>1, SampleIsStored
    <3> QED BY <3>2, SampleSlides
  <2>2. CASE ChangeSource
    BY <2>2, StepAssumption DEF ChangeSource, ClockInv, ClockTyped, ClockTypeOK
  <2>3. QED
    BY <2>1, <2>2 DEF ClockNext
<1>2. QED
  BY <1>1, ClockInitInv, ClockNextInv, PTL DEF ClockSpec, WindowSlides

-----------------------------------------------------------------------------
(* The offset                                                              *)

Width == SubNs * (NsMod * MsbMod)

\* A sum that fits is exact, or 1 ns too large.
LEMMA AddIsClose ==
    ASSUME NEW t1 \in UScaledNs, NEW t2 \in UScaledNs, Value(t1) + Value(t2) + SubNs < Width
    PROVE  /\ Add(t1, t2) \in UScaledNs
           /\ Value(Add(t1, t2)) \in {Value(t1) + Value(t2), Value(t1) + Value(t2) + SubNs}
<1>1. SubNs \in Nat \ {0, 1} /\ NsMod \in Nat \ {0, 1} /\ MsbMod \in Nat \ {0, 1}
  BY LimbAssumption
<1> DEFINE x == Ns(t1) + Ns(t2) + 1
           w == NsMod * MsbMod
<1>2. /\ Ns(t1) \in Nat /\ Ns(t2) \in Nat
      /\ Value(t1) = t1.subns + SubNs * Ns(t1) /\ Value(t2) = t2.subns + SubNs * Ns(t2)
      /\ t1.subns \in Nat /\ t2.subns \in Nat
  BY ValueType DEF UScaledNs
<1>3. x \in Int /\ w \in Int /\ SubNs * x = SubNs * Ns(t1) + SubNs * Ns(t2) + SubNs
  BY <1>1, <1>2
<1>4. SubNs * x < SubNs * w
  <2>1. SubNs * Ns(t1) \in Int /\ SubNs * Ns(t2) \in Int
    BY <1>1, <1>2
  <2>2. SubNs * w = Width
    BY DEF Width
  <2> HIDE DEF x, w
  <2> QED BY <1>1, <1>2, <1>3, <2>1, <2>2
<1>5. x < w
  <2> HIDE DEF x, w
  <2>1. 0 + SubNs * x >= 0 + SubNs * w <=> x > w \/ (x = w /\ 0 >= 0)
    <3>1. 0 \in 0 .. SubNs - 1 /\ SubNs \in Nat \ {0}
      BY <1>1
    <3> QED BY <1>3, <3>1, LimbOrder
  <2>2. SubNs * x \in Int /\ SubNs * w \in Int
    BY <1>1, <1>3
  <2> QED BY <1>3, <1>4, <2>1, <2>2
<1>6. Value(Add(t1, t2)) = Value(t1) + Value(t2) + EarlyBy(t1, t2)
  BY <1>5, AddIsExact
<1>7. EarlyBy(t1, t2) \in {0, SubNs}
  BY DEF EarlyBy
<1>8. Value(t1) \in Nat /\ Value(t2) \in Nat
  BY ValueType
<1>9. QED
  BY <1>1, <1>6, <1>7, <1>8, AddType

\* What set_rtc_sync_offset writes of a difference is less than 1 ns too small.
LEMMA DifferenceIsClose ==
    ASSUME NEW t1 \in UScaledNs, NEW t2 \in UScaledNs,
           Value(t1) >= Value(t2), Value(t1) - Value(t2) < SubNs * NsMod
    PROVE  LET ns == Subtract(t1, t2).nsec
           IN /\ ns \in Nat /\ SubNs * ns \in Nat /\ SubNs * ns <= Value(t1) - Value(t2)
              /\ Value(t1) - Value(t2) < SubNs * ns + SubNs
<1> DEFINE t == Subtract(t1, t2)
           v == Value(t1) - Value(t2)
<1>1. SubNs \in Nat \ {0, 1} /\ NsMod \in Nat \ {0, 1} /\ MsbMod \in Nat \ {0, 1}
  BY LimbAssumption
<1>2. t \in UScaledNs /\ v = t.subns + SubNs * Ns(t) /\ Ns(t) = t.nsec + NsMod * t.nsec_msb
  BY SubtractType, SubtractIsExact, ValueType DEF Ns
<1>3. v < SubNs * NsMod
  OBVIOUS
<1> HIDE DEF t, v
<1>4. /\ t.subns \in 0 .. SubNs - 1 /\ t.nsec \in 0 .. NsMod - 1 /\ t.nsec_msb \in Nat
      /\ Ns(t) \in Nat
  BY <1>2, ValueType, LimbAssumption DEF UScaledNs
<1>5. Ns(t) < NsMod
  <2>1. t.subns + SubNs * Ns(t) >= 0 + SubNs * NsMod <=>
          Ns(t) > NsMod \/ (Ns(t) = NsMod /\ t.subns >= 0)
    <3> DEFINE x == Ns(t)  y == t.subns
    <3>1. x \in Int /\ y \in 0 .. SubNs - 1 /\ 0 \in 0 .. SubNs - 1 /\ SubNs \in Nat \ {0} /\ NsMod \in Int
      BY <1>1, <1>4
    <3> HIDE DEF x, y
    <3>2. y + SubNs * x >= 0 + SubNs * NsMod <=> x > NsMod \/ (x = NsMod /\ y >= 0)
      BY <3>1, LimbOrder
    <3> QED BY <3>2 DEF x, y
  <2>2. SubNs * Ns(t) \in Int /\ SubNs * NsMod \in Int
    BY <1>1, <1>4
  <2> QED BY <1>1, <1>2, <1>3, <1>4, <2>1, <2>2
<1>6. Ns(t) = t.nsec
  <2>1. CASE t.nsec_msb = 0
    BY <1>1, <1>2, <1>4, <2>1
  <2>2. CASE t.nsec_msb # 0
    <3>1. t.nsec_msb - 1 \in Nat /\ NsMod * t.nsec_msb = NsMod + NsMod * (t.nsec_msb - 1)
      BY <1>1, <1>4, <2>2
    <3>2. NsMod * (t.nsec_msb - 1) \in Nat
      BY <1>1, <3>1
    <3> QED BY <1>1, <1>2, <1>4, <1>5, <3>1, <3>2
  <2> QED BY <2>1, <2>2
<1>7. SubNs * t.nsec \in Nat
  BY <1>1, <1>4
<1>8. SubNs * t.nsec <= v /\ v < SubNs * t.nsec + SubNs
  BY <1>1, <1>2, <1>4, <1>6, <1>7
<1>9. QED
  BY <1>4, <1>7, <1>8 DEF t, v

\* A sample with time T of its source, arriving at local time x over a link with delay
\* d, and a correction of c in followUpCorrectionField.
LEMMA SampleIsClose ==
    ASSUME NEW T \in Nat, NEW c \in 0 .. T, NEW d \in Nat, NEW x \in Nat,
           T + d + 2 * SubNs < Width, x + d + 2 * SubNs < Width,
           Distance(T, x) + 2 * SubNs < SubNs * NsMod
    PROVE  LET t == Add(Add(FromValue(T - c), FromValue(c)), FromValue(d))
               l == Add(FromValue(x), FromValue(d))
           IN Distance(SlaveTime(updateSlaveTime(t, l), x), T) <= 3 * SubNs
<1>1. SubNs \in Nat \ {0, 1} /\ Width \in Nat /\ SubNs * NsMod \in Nat
  BY LimbAssumption DEF Width
<1> DEFINE pot == FromValue(T - c)  fup == FromValue(c)  del == FromValue(d)
           up == FromValue(x)
           p == Add(pot, fup)
           t == Add(p, del)
           l == Add(up, del)
<1>2. /\ T - c \in Nat /\ T - c < Width /\ c \in Nat /\ c < Width /\ d < Width /\ x < Width
  BY <1>1
<1>3. /\ pot \in UScaledNs /\ fup \in UScaledNs /\ del \in UScaledNs /\ up \in UScaledNs
      /\ Value(pot) = T - c /\ Value(fup) = c /\ Value(del) = d /\ Value(up) = x
  BY <1>2, FromValueType, FromValueIsExact DEF Width
<1> HIDE DEF pot, fup, del, up
<1>4. p \in UScaledNs /\ Value(p) \in {T, T + SubNs}
  BY <1>1, <1>2, <1>3, AddIsClose
<1> HIDE DEF p
<1>5. t \in UScaledNs /\ Value(t) \in {T + d, T + d + SubNs, T + d + 2 * SubNs}
  <2>1. Value(p) + Value(del) + SubNs < Width
    BY <1>1, <1>3, <1>4
  <2>2. t \in UScaledNs /\ Value(t) \in {Value(p) + Value(del), Value(p) + Value(del) + SubNs}
    BY <1>3, <1>4, <2>1, AddIsClose
  <2> HIDE DEF t
  <2> QED BY <1>1, <1>3, <1>4, <2>2
<1>6. l \in UScaledNs /\ Value(l) \in {x + d, x + d + SubNs}
  <2>1. Value(up) + Value(del) + SubNs < Width
    BY <1>1, <1>3
  <2>2. l \in UScaledNs /\ Value(l) \in {Value(up) + Value(del), Value(up) + Value(del) + SubNs}
    BY <1>3, <2>1, AddIsClose
  <2> HIDE DEF l
  <2> QED BY <1>1, <1>3, <2>2
<1> HIDE DEF t, l
<1> DEFINE o == updateSlaveTime(t, l)
<1>7. Distance(T, x) = IF T > x THEN T - x ELSE x - T
  BY DEF Distance
<1>8. ASSUME Value(t) >= Value(l)
      PROVE  Distance(SlaveTime(o, x), T) <= 3 * SubNs
  <2> DEFINE ns == Subtract(t, l).nsec
  <2>1. Value(t) - Value(l) < SubNs * NsMod
    BY <1>1, <1>5, <1>6, <1>7
  <2>2. /\ ns \in Nat /\ SubNs * ns \in Nat /\ SubNs * ns <= Value(t) - Value(l)
        /\ Value(t) - Value(l) < SubNs * ns + SubNs
    BY <1>5, <1>6, <1>8, <2>1, DifferenceIsClose
  <2>3. o.sub = FALSE /\ o.ns = ns
    <3>1. Compare(t, l) >= 0
      BY <1>5, <1>6, <1>8, CompareIsExact
    <3> QED BY <3>1 DEF updateSlaveTime
  <2>4. SlaveTime(o, x) = x + SubNs * ns
    <3> HIDE DEF o, ns
    <3> QED BY <2>3 DEF SlaveTime
  <2> DEFINE y == SubNs * ns  z == SlaveTime(o, x)
  <2> HIDE DEF o, ns, y, z
  <2>5. Distance(z, T) = IF z > T THEN z - T ELSE T - z
    BY DEF Distance
  <2>6. Distance(z, T) <= 3 * SubNs
    BY <1>1, <1>5, <1>6, <2>2, <2>4, <2>5 DEF y, z
  <2> QED BY <2>6 DEF z
<1>9. ASSUME ~(Value(t) >= Value(l))
      PROVE  Distance(SlaveTime(o, x), T) <= 3 * SubNs
  <2> DEFINE ns == Subtract(l, t).nsec
  <2>1. Value(l) - Value(t) < SubNs * NsMod /\ Value(l) >= Value(t)
    BY <1>1, <1>5, <1>6, <1>7, <1>9
  <2>2. /\ ns \in Nat /\ SubNs * ns \in Nat /\ SubNs * ns <= Value(l) - Value(t)
        /\ Value(l) - Value(t) < SubNs * ns + SubNs
    BY <1>5, <1>6, <1>9, <2>1, DifferenceIsClose
  <2>3. o.sub = TRUE /\ o.ns = ns
    <3>1. ~(Compare(t, l) >= 0)
      BY <1>5, <1>6, <1>9, CompareIsExact
    <3> QED BY <3>1 DEF updateSlaveTime
  <2>4. SlaveTime(o, x) = x - SubNs * ns
    <3> HIDE DEF o, ns
    <3> QED BY <2>3 DEF SlaveTime
  <2> DEFINE y == SubNs * ns  z == SlaveTime(o, x)
  <2> HIDE DEF o, ns, y, z
  <2>5. Distance(z, T) = IF z > T THEN z - T ELSE T - z
    BY DEF Distance
  <2>6. Distance(z, T) <= 3 * SubNs
    BY <1>1, <1>5, <1>6, <2>2, <2>4, <2>5 DEF y, z
  <2> QED BY <2>6 DEF z
<1>10. Distance(SlaveTime(o, x), T) <= 3 * SubNs
  BY <1>8, <1>9, Zenon
<1>11. QED
  BY <1>10, Zenon DEF t, l, p, pot, fup, del, up

\* The times fit their registers: no sum wraps the highest limb, what is in
\* followUpCorrectionField is less than the time it is part of, and the offset needs
\* only the register of the ns.  In the code the first limit is 2^80 ns, the last 2^64.
TimesFit ==
    /\ master + Delay + 2 * SubNs < Width /\ local + Delay + 2 * SubNs < Width
    /\ \A ns \in CorrectionNs : SubNs * ns + SubNs <= master
    /\ Distance(master, local) + 2 * SubNs < SubNs * NsMod

\* The corrections of RecvPss, and the hypotheses of SampleIsClose for both sources.
LEMMA CorrectionsFit ==
    ASSUME NEW T \in Int, NEW x \in Nat, NEW ns \in Nat,
           T + Delay + 2 * SubNs < Width, x + Delay + 2 * SubNs < Width,
           SubNs * ns + SubNs <= T, Distance(T, x) + 2 * SubNs < SubNs * NsMod
    PROVE  /\ T \in Nat /\ (T % SubNs) + SubNs * ns \in 0 .. T /\ x % SubNs \in 0 .. x
           /\ x + 0 + 2 * SubNs < Width /\ Distance(x, x) + 2 * SubNs < SubNs * NsMod
<1>1. /\ SubNs \in Nat \ {0, 1} /\ SubNs \in Nat \ {0} /\ SubNs * NsMod \in Int /\ Width \in Int
      /\ Delay \in Nat
  BY LimbAssumption, StepAssumption DEF Width
<1>2. SubNs * ns \in Nat
  BY <1>1
<1>3. T % SubNs \in 0 .. SubNs - 1
  BY <1>1, Division
<1> DEFINE r == T % SubNs
           d == x % SubNs
           q == x \div SubNs
<1>4. q \in Int /\ d \in 0 .. SubNs - 1 /\ x = SubNs * q + d
  <2>1. x \in Int
    OBVIOUS
  <2> QED BY <1>1, <2>1, Division, Zenon
<1> HIDE DEF r, d, q
<1>5. T \in Nat /\ r + SubNs * ns \in 0 .. T
  BY <1>1, <1>2, <1>3 DEF r
<1>6. d \in 0 .. x
  <2>1. d + SubNs * q >= 0 + SubNs * 0 <=> q > 0 \/ (q = 0 /\ d >= 0)
    BY <1>1, <1>4, LimbOrder
  <2>2. SubNs * q \in Int
    BY <1>1, <1>4
  <2>3. q >= 0
    BY <1>1, <1>4, <2>1, <2>2
  <2>4. SubNs * q >= 0
    BY <1>1, <1>4, <2>3
  <2> QED BY <1>1, <1>4, <2>2, <2>4
<1>7. x + 0 + 2 * SubNs < Width
  BY <1>1
<1>8. Distance(x, x) + 2 * SubNs < SubNs * NsMod
  <2>1. Distance(x, x) = 0 /\ Distance(T, x) \in Nat
    BY DEF Distance
  <2> QED BY <1>1, <2>1
<1>9. QED
  BY <1>5, <1>6, <1>7, <1>8 DEF r, d

LEMMA RecvPssIsClose ==
    ASSUME ClockInv, NEW gap \in 1 .. MaxGap, NEW jump \in Jumps, NEW ns \in CorrectionNs,
           RecvPss(gap, jump, ns), TimesFit'
    PROVE  CloseToSource
<1> DEFINE T == master'
           x == local'
           c == (T % SubNs) + SubNs * ns
           d == x % SubNs
<1>1. T \in Int /\ x \in Nat /\ source \in {"master", "self"}
  BY RecvPssSamples DEF ClockInv, ClockTyped, ClockTypeOK
<1>2. SubNs \in Nat \ {0, 1} /\ NsMod \in Nat /\ Delay \in Nat /\ ns \in Nat /\ 0 \in Nat
  BY LimbAssumption, StepAssumption
<1>3. /\ T + Delay + 2 * SubNs < Width /\ x + Delay + 2 * SubNs < Width
      /\ SubNs * ns + SubNs <= T /\ Distance(T, x) + 2 * SubNs < SubNs * NsMod
  BY DEF TimesFit
<1>4. /\ T \in Nat /\ c \in 0 .. T /\ d \in 0 .. x
      /\ x + 0 + 2 * SubNs < Width /\ Distance(x, x) + 2 * SubNs < SubNs * NsMod
  <2> HIDE DEF T, x
  <2> QED BY <1>1, <1>2, <1>3, CorrectionsFit
<1>5. CASE source = "master"
  <2> DEFINE t == Add(Add(FromValue(T - c), FromValue(c)), FromValue(Delay))
             l == Add(FromValue(x), FromValue(Delay))
  <2>1. offset' = updateSlaveTime(t, l)
    BY <1>5 DEF RecvPss, SendSyncIndication
  <2>2. Distance(SlaveTime(updateSlaveTime(t, l), x), T) <= 3 * SubNs
    <3> HIDE DEF c, T, x
    <3> QED BY <1>1, <1>2, <1>3, <1>4, SampleIsClose
  <2> HIDE DEF t, l
  <2> QED BY <1>5, <2>1, <2>2 DEF CloseToSource
<1>6. CASE source = "self"
  <2> DEFINE t == Add(Add(FromValue(x - d), FromValue(d)), FromValue(0))
             l == Add(FromValue(x), FromValue(0))
  <2>1. offset' = updateSlaveTime(t, l)
    BY <1>6 DEF RecvPss, SendSyncIndication, Zero
  <2>2. Distance(SlaveTime(updateSlaveTime(t, l), x), x) <= 3 * SubNs
    <3> HIDE DEF d, x
    <3> QED BY <1>1, <1>2, <1>4, SampleIsClose
  <2> HIDE DEF t, l
  <2> QED BY <1>6, <2>1, <2>2 DEF CloseToSource
<1>7. QED
  BY <1>1, <1>5, <1>6

\* As long as the times fit, the slave time is the source's within 3 ns after every
\* sample, whatever the widths of the limbs, the link delay, the jumps and the lost
\* Syncs: the early carries of uscaledns_add cost 1 ns each, and two of them meet.
THEOREM OffsetsAreClose == ClockSpec /\ []TimesFit => OffsetIsClose
<1>1. ClockInv /\ TimesFit' /\ [ClockNext]_clockVars => [samples' = samples + 1 => CloseToSource]_clockVars
  <2> SUFFICES ASSUME ClockInv, TimesFit', ClockNext, samples' = samples + 1 PROVE CloseToSource
    OBVIOUS
  <2>1. CASE \E gap \in 1 .. MaxGap, jump \in Jumps, ns \in CorrectionNs : RecvPss(gap, jump, ns)
    BY <2>1, RecvPssIsClose
  <2>2. CASE ChangeSource
    BY <2>2, StepAssumption DEF ChangeSource, ClockInv, ClockTyped, ClockTypeOK
  <2>3. QED
    BY <2>1, <2>2 DEF ClockNext
<1>2. QED
  BY <1>1, ClockInitInv, ClockNextInv, PTL DEF ClockSpec, OffsetIsClose
=============================================================================
