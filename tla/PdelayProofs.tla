---------------------------- MODULE PdelayProofs ----------------------------
(***************************************************************************)
(* Proofs about Pdelay, for every modulus of the sequence ids, every       *)
(* threshold of lost responses and every bound: the types, the responder   *)
(* never answers through a null pointer, a port does not go on measuring   *)
(* delay after more lost responses than allowed, and a delay is computed   *)
(* from the timestamps of one exchange.                                    *)
(*                                                                         *)
(* Then about Bmca, for networks of every size and shape: the types, and   *)
(* that the own information a port announces is current.                   *)
(***************************************************************************)
EXTENDS Pdelay, Bmca, SequenceTheorems, WellFoundedInduction, TLAPS

-----------------------------------------------------------------------------
(* One run of MDPdelayReq                                                  *)

ReqSM == [state : {"SEND", "WAIT_RESP", "WAIT_FOLLOW_UP", "INTERVAL_TIMER", "RESET"},
          seq : SeqId, elapsed : BOOLEAN, rcvdTs : BOOLEAN, rcvdResp : BOOLEAN,
          respSeq : OptSeq, rcvdFollowUp : BOOLEAN, followUpSeq : OptSeq,
          t1 : OptSeq, t2 : OptSeq, t3 : OptSeq, t4 : OptSeq,
          lostResponses : 0 .. AllowedLostResponses + 1, isMeasuringDelay : BOOLEAN,
          measured : [t1 : OptSeq, t2 : OptSeq, t3 : OptSeq, t4 : OptSeq],
          resets : 0 .. AllowedLostResponses + 2, staleWrap : BOOLEAN]

\* Every RESET since the last measurement was counted while the port measures.
Counted(r) == r.isMeasuringDelay => r.resets <= r.lostResponses

\* A run keeps the id, or sends the next Pdelay_Req because the interval has elapsed.
Advances(r, q) ==
    \/ q.seq = r.seq /\ q.elapsed = r.elapsed
    \/ r.elapsed /\ ~q.elapsed /\ q.seq = (r.seq + 1) % SeqMod

RunsTo(r, q) == q \in ReqSM /\ (Counted(r) => Counted(q)) /\ Advances(r, q)

LEMMA NextSeq == \A k \in SeqId : (k + 1) % SeqMod \in SeqId
  BY PdelayAssumption DEF SeqId

LEMMA EnterSendRuns ==
    ASSUME NEW r \in ReqSM, r.elapsed
    PROVE  RunsTo(r, EnterSend(r))
<1> DEFINE q == EnterSend(r)
<1>1. (r.seq + 1) % SeqMod \in SeqId
  BY NextSeq DEF ReqSM
<1>2. q \in ReqSM
  BY <1>1 DEF ReqSM, EnterSend
<1>3. /\ q.seq = (r.seq + 1) % SeqMod /\ q.elapsed = FALSE
      /\ q.isMeasuringDelay = r.isMeasuringDelay
      /\ q.resets = r.resets /\ q.lostResponses = r.lostResponses
  BY DEF ReqSM, EnterSend
<1> HIDE DEF q
<1>4. RunsTo(r, q)
  BY <1>2, <1>3 DEF RunsTo, Counted, Advances
<1>5. QED
  BY <1>4 DEF q

\* reset_action counts a lost response, or gives up measuring.
LEMMA EnterResetRuns ==
    ASSUME NEW r \in ReqSM
    PROVE  RunsTo(r, EnterReset(r))
<1> DEFINE c == CountLost(r)
           r1 == [c EXCEPT !.state = "RESET", !.rcvdResp = FALSE,
                    !.resets = IF @ <= AllowedLostResponses + 1 THEN @ + 1 ELSE @]
<1>1. /\ c \in ReqSM /\ c.resets = r.resets /\ c.elapsed = r.elapsed /\ c.seq = r.seq
      /\ c.isMeasuringDelay => /\ r.isMeasuringDelay /\ r.lostResponses <= AllowedLostResponses
                               /\ c.lostResponses = r.lostResponses + 1
  <2>1. CASE r.lostResponses <= AllowedLostResponses
    BY <2>1, PdelayAssumption DEF CountLost, ReqSM
  <2>2. CASE ~(r.lostResponses <= AllowedLostResponses)
    BY <2>2, PdelayAssumption DEF CountLost, ReqSM
  <2>3. QED
    BY <2>1, <2>2
<1>2. EnterReset(r) = IF r.elapsed THEN EnterSend(r1) ELSE r1
  BY DEF EnterReset
<1> HIDE DEF c
<1>3. /\ r1 \in ReqSM /\ r1.seq = r.seq /\ r1.elapsed = r.elapsed
      /\ r1.isMeasuringDelay = c.isMeasuringDelay /\ r1.lostResponses = c.lostResponses
      /\ r1.resets <= r.resets + 1
  <2> DEFINE n == IF c.resets <= AllowedLostResponses + 1 THEN c.resets + 1 ELSE c.resets
  <2>1. n \in 0 .. AllowedLostResponses + 2 /\ n <= r.resets + 1
    BY <1>1, PdelayAssumption DEF ReqSM
  <2>2. r1 = [c EXCEPT !.state = "RESET", !.rcvdResp = FALSE, !.resets = n]
    BY <1>1 DEF ReqSM
  <2> HIDE DEF n, r1
  <2>3. r1 \in ReqSM
    BY <1>1, <2>1, <2>2 DEF ReqSM
  <2>4. /\ r1.seq = c.seq /\ r1.elapsed = c.elapsed /\ r1.isMeasuringDelay = c.isMeasuringDelay
        /\ r1.lostResponses = c.lostResponses /\ r1.resets = n
    BY <1>1, <2>2 DEF ReqSM
  <2>5. QED
    BY <1>1, <2>1, <2>3, <2>4
<1> HIDE DEF r1
<1>4. Counted(r) => Counted(r1)
  BY <1>1, <1>3 DEF Counted, ReqSM
<1>5. CASE r.elapsed
  <2>1. RunsTo(r1, EnterSend(r1))
    BY <1>3, <1>5, EnterSendRuns
  <2>2. QED
    BY <1>2, <1>3, <1>4, <1>5, <2>1 DEF RunsTo, Advances
<1>6. CASE ~r.elapsed
  BY <1>2, <1>3, <1>4, <1>6 DEF RunsTo, Advances
<1>7. QED
  BY <1>5, <1>6

LEMMA EnterIntervalTimerRuns ==
    ASSUME NEW r \in ReqSM
    PROVE  RunsTo(r, EnterIntervalTimer(r))
<1> DEFINE q == EnterIntervalTimer(r)
<1>1. q \in ReqSM
  <2> DEFINE d == [t1 |-> r.t1, t2 |-> r.t2, t3 |-> r.t3, t4 |-> r.t4]
  <2>1. d \in [t1 : OptSeq, t2 : OptSeq, t3 : OptSeq, t4 : OptSeq]
    BY DEF ReqSM
  <2>2. q = [r EXCEPT !.state = "INTERVAL_TIMER", !.rcvdFollowUp = FALSE, !.lostResponses = 0,
                      !.isMeasuringDelay = TRUE, !.resets = 0, !.measured = d]
    BY DEF EnterIntervalTimer
  <2>3. 0 \in 0 .. AllowedLostResponses + 1 /\ 0 \in 0 .. AllowedLostResponses + 2
    BY PdelayAssumption
  <2> HIDE DEF d, q
  <2>4. QED
    BY <2>1, <2>2, <2>3 DEF ReqSM
<1>2. q.seq = r.seq /\ q.elapsed = r.elapsed /\ q.resets = 0 /\ q.lostResponses = 0
  BY DEF EnterIntervalTimer, ReqSM
<1> HIDE DEF q
<1>3. RunsTo(r, q)
  BY <1>1, <1>2 DEF RunsTo, Counted, Advances
<1>4. QED
  BY <1>3 DEF q

LEMMA StayRuns == \A r \in ReqSM : RunsTo(r, r)
  BY DEF RunsTo, Advances

LEMMA RunWaitFollowUpRuns ==
    ASSUME NEW r \in ReqSM
    PROVE  RunsTo(r, RunWaitFollowUp(r))
  BY EnterResetRuns, EnterIntervalTimerRuns, StayRuns DEF RunWaitFollowUp

LEMMA RunWaitRespRuns ==
    ASSUME NEW r \in ReqSM
    PROVE  RunsTo(r, RunWaitResp(r))
<1> DEFINE q == [r EXCEPT !.state = "WAIT_FOLLOW_UP", !.rcvdResp = FALSE]
<1>1. q \in ReqSM
  BY DEF ReqSM
<1>2. /\ q.seq = r.seq /\ q.elapsed = r.elapsed /\ q.isMeasuringDelay = r.isMeasuringDelay
      /\ q.resets = r.resets /\ q.lostResponses = r.lostResponses
  BY DEF ReqSM
<1>3. \/ RunWaitResp(r) = EnterReset(r) \/ RunWaitResp(r) = r
      \/ RunWaitResp(r) = RunWaitFollowUp(q)
  BY DEF RunWaitResp
<1> HIDE DEF q
<1>4. RunsTo(q, RunWaitFollowUp(q))
  BY <1>1, RunWaitFollowUpRuns
<1>5. RunsTo(r, RunWaitFollowUp(q))
  BY <1>2, <1>4 DEF RunsTo, Counted, Advances
<1>6. QED
  BY <1>3, <1>5, EnterResetRuns, StayRuns

\* md_pdelay_req_sm_run, from every state.
LEMMA RunRuns ==
    ASSUME NEW r \in ReqSM
    PROVE  RunsTo(r, Run(r))
<1>1. CASE r.state = "SEND"
  <2> DEFINE q == [r EXCEPT !.state = "WAIT_RESP", !.rcvdTs = FALSE]
  <2>1. q \in ReqSM
    BY DEF ReqSM
  <2>2. /\ q.seq = r.seq /\ q.elapsed = r.elapsed /\ q.isMeasuringDelay = r.isMeasuringDelay
        /\ q.resets = r.resets /\ q.lostResponses = r.lostResponses
    BY DEF ReqSM
  <2>3. Run(r) = IF r.rcvdTs THEN RunWaitResp(q) ELSE r
    BY <1>1 DEF Run
  <2> HIDE DEF q
  <2>4. RunsTo(q, RunWaitResp(q))
    BY <2>1, RunWaitRespRuns
  <2>5. RunsTo(r, RunWaitResp(q))
    BY <2>2, <2>4 DEF RunsTo, Counted, Advances
  <2>6. QED
    BY <2>3, <2>5, StayRuns
<1>2. CASE r.state = "WAIT_RESP"
  BY <1>2, RunWaitRespRuns DEF Run
<1>3. CASE r.state = "WAIT_FOLLOW_UP"
  BY <1>3, RunWaitFollowUpRuns DEF Run
<1>4. CASE r.state \in {"RESET", "INTERVAL_TIMER"}
  BY <1>4, EnterSendRuns, StayRuns DEF Run
<1>5. QED
  BY <1>1, <1>2, <1>3, <1>4 DEF ReqSM

-----------------------------------------------------------------------------
(* The inductive invariant                                                 *)

\* Requests on their way have increasing ids, all after those whose answer waits for a
\* timestamp, and a second request is newer than all of these.  The ids wrap only when
\* nothing is on its way.
Order ==
    /\ \A i \in DOMAIN reqLink : /\ reqLink[i] <= req.seq
                                 /\ \A j \in DOMAIN reqLink : i < j => reqLink[i] < reqLink[j]
    /\ \A i \in DOMAIN respTs : /\ respTs[i] <= req.seq
                                /\ \A j \in DOMAIN reqLink : respTs[i] < reqLink[j]
    /\ (resp.state = "WAIT_TIMESTAMP" /\ resp.rcvdReq)
         => \A i \in DOMAIN respTs : respTs[i] < resp.reqSeq
    /\ (req.elapsed /\ req.seq = SeqMod - 1) => reqLink = << >> /\ respTs = << >>
    /\ resp.state # "CRASHED"
    /\ resp.state = "WAIT_TIMESTAMP" => resp.reqSeq \in SeqId

IInv == TypeOK /\ Counted(req) /\ Order

LinksOK == reqLink \in Seq(SeqId) /\ respTs \in Seq(SeqId) /\ req \in ReqSM

LEMMA TypesInside == TypeOK => LinksOK
  BY DEF TypeOK, LinksOK, ReqSM

LEMMA NextSeqWraps ==
    ASSUME NEW k \in SeqId
    PROVE  (k + 1) % SeqMod = IF k = SeqMod - 1 THEN 0 ELSE k + 1
  BY PdelayAssumption DEF SeqId

\* A run of the requester sends at most the next request.
LEMMA ReqStepOrder ==
    ASSUME TypeOK, Order, NEW r \in ReqSM, Advances(req, r), NEW c, ReqStep(r, c),
           UNCHANGED <<resp, respTs>>
    PROVE  reqLink' \in Seq(SeqId) /\ Order'
<1>1. /\ req' = r
      /\ reqLink' = IF r.seq # req.seq THEN Append(reqLink, r.seq) ELSE reqLink
  BY DEF ReqStep
<1>2. LinksOK /\ req.seq \in SeqId /\ r.seq \in SeqId
  BY TypesInside DEF LinksOK, ReqSM
<1>3. CASE r.seq = req.seq
  <2>1. reqLink' = reqLink /\ (r.elapsed => req.elapsed)
    BY <1>1, <1>3 DEF Advances
  <2>2. QED
    BY <1>1, <1>2, <1>3, <2>1 DEF Order, LinksOK
<1>4. CASE r.seq # req.seq
  <2>1. req.elapsed /\ ~r.elapsed /\ r.seq = IF req.seq = SeqMod - 1 THEN 0 ELSE req.seq + 1
    BY <1>2, <1>4, NextSeqWraps DEF Advances
  <2>2. /\ reqLink' \in Seq(SeqId) /\ Len(reqLink') = Len(reqLink) + 1
        /\ reqLink'[Len(reqLink) + 1] = r.seq
        /\ \A i \in 1 .. Len(reqLink) : reqLink'[i] = reqLink[i]
        /\ DOMAIN reqLink = 1 .. Len(reqLink) /\ DOMAIN reqLink' = 1 .. Len(reqLink) + 1
        /\ Len(reqLink) \in Nat
    BY <1>1, <1>2, <1>4, AppendProperties, LenProperties DEF LinksOK
  <2>3. /\ \A i \in DOMAIN reqLink : reqLink[i] < r.seq /\ reqLink[i] \in Nat
        /\ \A i \in DOMAIN respTs : respTs[i] < r.seq /\ respTs[i] \in Nat
    <3>1. /\ \A i \in DOMAIN reqLink : reqLink[i] \in Nat
          /\ \A i \in DOMAIN respTs : respTs[i] \in Nat
      <4>1. SeqId \subseteq Nat
        BY PdelayAssumption DEF SeqId
      <4>2. reqLink \in [1 .. Len(reqLink) -> SeqId] /\ respTs \in [1 .. Len(respTs) -> SeqId]
        BY <1>2, LenProperties DEF LinksOK
      <4>3. QED
        BY <4>1, <4>2
    <3>2. CASE req.seq = SeqMod - 1
      <4>1. reqLink = << >> /\ respTs = << >>
        BY <2>1, <3>2 DEF Order
      <4>2. QED
        BY <4>1
    <3>3. CASE req.seq # SeqMod - 1
      <4>1. r.seq = req.seq + 1 /\ req.seq \in Nat
        BY <1>2, <2>1, <3>3 DEF SeqId
      <4>2. /\ \A i \in DOMAIN reqLink : reqLink[i] <= req.seq
            /\ \A i \in DOMAIN respTs : respTs[i] <= req.seq
        BY DEF Order
      <4>3. QED
        BY <3>1, <4>1, <4>2
    <3>4. QED
      BY <3>2, <3>3
  <2>4. ASSUME NEW i \in DOMAIN reqLink'
        PROVE  /\ reqLink'[i] <= r.seq
               /\ \A j \in DOMAIN reqLink' : i < j => reqLink'[i] < reqLink'[j]
    <3>1. CASE i \in 1 .. Len(reqLink)
      <4>1. reqLink'[i] = reqLink[i] /\ i \in DOMAIN reqLink /\ reqLink[i] < r.seq /\ reqLink[i] \in Nat
        BY <1>2, <2>2, <2>3, <3>1
      <4>2. r.seq \in Nat
        BY <1>2, <2>1, PdelayAssumption DEF SeqId
      <4>3. ASSUME NEW j \in DOMAIN reqLink', i < j PROVE reqLink'[i] < reqLink'[j]
        <5>1. CASE j \in 1 .. Len(reqLink)
          <6>1. reqLink'[j] = reqLink[j] /\ j \in DOMAIN reqLink
            BY <1>2, <2>2, <2>3, <5>1
          <6>2. QED
            BY <4>1, <4>3, <6>1 DEF Order
        <5>2. CASE j = Len(reqLink) + 1
          BY <2>2, <4>1, <5>2
        <5>3. QED
          BY <2>2, <5>1, <5>2
      <4>4. QED
        BY <4>1, <4>2, <4>3
    <3>2. CASE i = Len(reqLink) + 1
      BY <1>2, <2>2, <3>2 DEF SeqId
    <3>3. QED
      BY <2>2, <3>1, <3>2
  <2>5. ASSUME NEW i \in DOMAIN respTs
        PROVE  /\ respTs[i] <= r.seq
               /\ \A j \in DOMAIN reqLink' : respTs[i] < reqLink'[j]
    BY <1>2, <2>2, <2>3, <2>5 DEF Order, SeqId
  <2>6. QED
    BY <1>1, <2>1, <2>2, <2>4, <2>5 DEF Order
<1>5. QED
  BY <1>3, <1>4

\* The same for its types and its count, after a message or a timestamp was stored in q.
LEMMA ReqStepOK ==
    ASSUME IInv, NEW q \in ReqSM, NEW r \in ReqSM,
           q.seq = req.seq, q.elapsed = req.elapsed, Counted(q), RunsTo(q, r),
           NEW c, c => reqTs # << >>, ReqStep(r, c),
           UNCHANGED <<resp, respTs, linkVars>>,
           respLink' \in Seq([kind : {"Resp", "FollowUp"}, seq : SeqId, ts : SeqId])
    PROVE  IInv'
<1>1. Advances(req, r) /\ Counted(r)
  BY DEF RunsTo, Advances
<1>2. reqLink' \in Seq(SeqId) /\ Order'
  BY <1>1, ReqStepOrder DEF IInv
<1>3. reqTs' \in Seq(SeqId)
  <2> DEFINE t == IF c THEN Tail(reqTs) ELSE reqTs
  <2>1. t \in Seq(SeqId)
    BY HeadTailProperties DEF IInv, TypeOK
  <2>2. reqTs' = IF r.seq # req.seq THEN Append(t, r.seq) ELSE t
    BY DEF ReqStep
  <2> HIDE DEF t
  <2>3. r.seq \in SeqId
    BY DEF ReqSM
  <2>4. QED
    BY <2>1, <2>2, <2>3, AppendProperties
<1>4. req' = r
  BY DEF ReqStep
<1>5. Counted(req)'
  BY <1>1, <1>4 DEF Counted
<1>6. TypeOK'
  BY <1>2, <1>3, <1>4 DEF IInv, TypeOK, linkVars, ReqSM
<1>7. QED
  BY <1>2, <1>5, <1>6 DEF IInv

-----------------------------------------------------------------------------
(* The steps                                                               *)

LEMMA InitIInv == Init => IInv
<1> SUFFICES ASSUME Init PROVE IInv
  OBVIOUS
<1>1. 0 \in SeqId /\ 0 # SeqMod - 1 /\ 0 \in 0 .. AllowedLostResponses + 1 /\ 0 \in 0 .. AllowedLostResponses + 2
  BY PdelayAssumption DEF SeqId
<1>2. NotMeasured \in [t1 : OptSeq, t2 : OptSeq, t3 : OptSeq, t4 : OptSeq]
  BY DEF NotMeasured, OptSeq
<1>3. PICK e \in BOOLEAN :
        /\ phase \in {"orderly", "rough"}
        /\ req = [state |-> "SEND", seq |-> 0, elapsed |-> e, rcvdTs |-> FALSE,
                  rcvdResp |-> FALSE, respSeq |-> None, rcvdFollowUp |-> FALSE, followUpSeq |-> None,
                  t1 |-> None, t2 |-> None, t3 |-> None, t4 |-> None,
                  lostResponses |-> 0, isMeasuringDelay |-> FALSE,
                  measured |-> NotMeasured, resets |-> 0, staleWrap |-> FALSE]
  BY PdelayAssumption DEF Init
<1>4. req \in ReqSM /\ req.seq = 0 /\ req.isMeasuringDelay = FALSE
  BY <1>1, <1>2, <1>3 DEF ReqSM, OptSeq
<1>5. resp \in [state : {"INITIAL_WAITING", "WAIT_TIMESTAMP", "WAITING", "CRASHED"},
                rcvdReq : BOOLEAN, reqSeq : OptSeq, t2 : OptSeq, t3 : OptSeq]
  BY DEF Init, OptSeq
<1>6. reqLink = <<0>> /\ reqTs = <<0>> /\ respLink = << >> /\ respTs = << >> /\ lostTs = FALSE
      /\ resp.state = "INITIAL_WAITING"
  BY DEF Init
<1>7. TypeOK
  <2>1. /\ reqLink \in Seq(SeqId) /\ reqTs \in Seq(SeqId) /\ respTs \in Seq(SeqId)
        /\ respLink \in Seq([kind : {"Resp", "FollowUp"}, seq : SeqId, ts : SeqId])
    BY <1>1, <1>6
  <2>2. phase \in {"orderly", "rough", "calm"} /\ lostTs \in BOOLEAN
    BY <1>3, <1>6
  <2>3. QED
    BY <1>4, <1>5, <2>1, <2>2 DEF TypeOK, ReqSM
<1>8. Order
  BY <1>1, <1>4, <1>6 DEF Order
<1>9. QED
  BY <1>4, <1>7, <1>8 DEF IInv, Counted

\* Messages and timestamps that the requester handles are stored, then the machine runs.
LEMMA RequesterKeepsIInv ==
    ASSUME IInv, Requester
    PROVE  IInv'
<1>1. req \in ReqSM /\ Counted(req) /\ respLink \in Seq([kind : {"Resp", "FollowUp"}, seq : SeqId, ts : SeqId])
      /\ reqTs \in Seq(SeqId)
  BY DEF IInv, TypeOK, ReqSM
<1>2. CASE ReqPoll
  <2>1. RunsTo(req, Run(req)) /\ Run(req) \in ReqSM
    BY <1>1, RunRuns DEF RunsTo
  <2>2. ReqStep(Run(req), FALSE) /\ UNCHANGED <<resp, respTs, linkVars, respLink>>
    BY <1>2 DEF ReqPoll
  <2>3. QED
    BY <1>1, <2>1, <2>2, ReqStepOK
<1>3. CASE ReqTxTimestamp
  <2> DEFINE q == [req EXCEPT !.t1 = Head(reqTs), !.rcvdTs = TRUE]
             r == IF req.state = "SEND" /\ Head(reqTs) = req.seq THEN Run(q) ELSE req
  <2>1. Head(reqTs) \in SeqId /\ reqTs # << >>
    BY <1>1, <1>3, HeadTailProperties DEF ReqTxTimestamp
  <2>2. q \in ReqSM
    BY <1>1, <2>1 DEF ReqSM, OptSeq
  <2>3. /\ q.seq = req.seq /\ q.elapsed = req.elapsed /\ q.isMeasuringDelay = req.isMeasuringDelay
        /\ q.resets = req.resets /\ q.lostResponses = req.lostResponses
    BY <1>1 DEF ReqSM
  <2>4. ReqStep(r, TRUE) /\ UNCHANGED <<resp, respTs, linkVars, respLink>>
    BY <1>3 DEF ReqTxTimestamp
  <2> HIDE DEF q
  <2>5. Counted(q)
    BY <1>1, <2>3 DEF Counted
  <2>6. RunsTo(q, Run(q)) /\ Run(q) \in ReqSM
    BY <2>2, RunRuns DEF RunsTo
  <2>7. CASE req.state = "SEND" /\ Head(reqTs) = req.seq
    BY <1>1, <2>1, <2>2, <2>3, <2>4, <2>5, <2>6, <2>7, ReqStepOK
  <2>8. CASE ~(req.state = "SEND" /\ Head(reqTs) = req.seq)
    BY <1>1, <2>1, <2>4, <2>8, StayRuns, ReqStepOK
  <2>9. QED
    BY <2>7, <2>8
<1>4. CASE RecvResp \/ RecvRespFollowUp
  <2>1. Head(respLink) \in [kind : {"Resp", "FollowUp"}, seq : SeqId, ts : SeqId]
        /\ respLink' \in Seq([kind : {"Resp", "FollowUp"}, seq : SeqId, ts : SeqId])
    BY <1>1, <1>4, HeadTailProperties DEF RecvResp, RecvRespFollowUp
  <2> DEFINE m == Head(respLink)
  <2>2. m.seq \in SeqId /\ m.ts \in SeqId
    BY <2>1
  <2>3. UNCHANGED <<resp, respTs, linkVars>>
    BY <1>4 DEF RecvResp, RecvRespFollowUp
  <2>4. CASE RecvResp
    <3> DEFINE q == [req EXCEPT !.rcvdResp = TRUE, !.respSeq = m.seq, !.t2 = m.ts]
               r == [Run(q) EXCEPT !.t4 = m.seq]
    <3>1. q \in ReqSM
      BY <1>1, <2>2 DEF ReqSM, OptSeq
    <3>2. /\ q.seq = req.seq /\ q.elapsed = req.elapsed /\ q.isMeasuringDelay = req.isMeasuringDelay
          /\ q.resets = req.resets /\ q.lostResponses = req.lostResponses
      BY <1>1 DEF ReqSM
    <3>3. ReqStep(r, FALSE)
      BY <2>4 DEF RecvResp
    <3> HIDE DEF q
    <3>4. Counted(q) /\ RunsTo(q, Run(q)) /\ Run(q) \in ReqSM
      BY <1>1, <3>1, <3>2, RunRuns DEF Counted, RunsTo
    <3>5. r \in ReqSM
      BY <2>2, <3>4 DEF ReqSM, OptSeq
    <3>6. /\ r.seq = Run(q).seq /\ r.elapsed = Run(q).elapsed
          /\ r.isMeasuringDelay = Run(q).isMeasuringDelay
          /\ r.resets = Run(q).resets /\ r.lostResponses = Run(q).lostResponses
      BY <3>4 DEF ReqSM
    <3> HIDE DEF r
    <3>7. RunsTo(q, r)
      BY <3>4, <3>5, <3>6 DEF RunsTo, Counted, Advances
    <3>8. QED
      BY <2>1, <2>3, <3>1, <3>2, <3>3, <3>4, <3>5, <3>7, ReqStepOK
  <2>5. CASE RecvRespFollowUp
    <3> DEFINE q == [req EXCEPT !.rcvdFollowUp = TRUE, !.followUpSeq = m.seq, !.t3 = m.ts]
    <3>1. q \in ReqSM
      BY <1>1, <2>2 DEF ReqSM, OptSeq
    <3>2. /\ q.seq = req.seq /\ q.elapsed = req.elapsed /\ q.isMeasuringDelay = req.isMeasuringDelay
          /\ q.resets = req.resets /\ q.lostResponses = req.lostResponses
      BY <1>1 DEF ReqSM
    <3>3. ReqStep(Run(q), FALSE)
      BY <2>5 DEF RecvRespFollowUp
    <3> HIDE DEF q
    <3>4. Counted(q) /\ RunsTo(q, Run(q)) /\ Run(q) \in ReqSM
      BY <1>1, <3>1, <3>2, RunRuns DEF Counted, RunsTo
    <3>5. QED
      BY <2>1, <2>3, <3>1, <3>2, <3>3, <3>4, ReqStepOK
  <2>6. QED
    BY <1>4, <2>4, <2>5
<1>5. QED
  BY <1>2, <1>3, <1>4 DEF Requester

\* A request is answered, or waits behind the one that is being answered.
LEMMA RecvReqKeepsIInv ==
    ASSUME IInv, RecvReq
    PROVE  IInv'
<1> DEFINE k == Head(reqLink)
           r == [resp EXCEPT !.reqSeq = k, !.t2 = k]
<1>1. /\ LinksOK /\ reqLink # << >> /\ reqLink' = Tail(reqLink) /\ req.seq \in SeqId
      /\ resp.state # "CRASHED"
  BY TypesInside DEF IInv, Order, RecvReq, LinksOK, ReqSM
<1>2. k \in SeqId /\ reqLink' \in Seq(SeqId)
  BY <1>1, HeadTailProperties DEF LinksOK
<1>3. /\ Len(reqLink') = Len(reqLink) - 1 /\ Len(reqLink) \in Nat \ {0}
      /\ \A i \in 1 .. Len(reqLink') : reqLink'[i] = reqLink[i + 1]
      /\ k = reqLink[1]
      /\ DOMAIN reqLink = 1 .. Len(reqLink) /\ DOMAIN reqLink' = 1 .. Len(reqLink')
  <2>1. Len(reqLink) \in Nat /\ Len(reqLink) # 0
    BY <1>1, LenProperties, EmptySeq DEF LinksOK
  <2>2. QED
    BY <1>1, <1>2, <2>1, HeadTailProperties, LenProperties DEF LinksOK
<1>4. UNCHANGED <<req, reqTs, linkVars>>
  BY DEF RecvReq
<1>5. \A i \in DOMAIN reqLink' : i + 1 \in DOMAIN reqLink /\ k < reqLink'[i]
  BY <1>2, <1>3 DEF IInv, Order
<1>6. /\ \A i \in DOMAIN reqLink' : /\ reqLink'[i] <= req.seq
                                    /\ \A j \in DOMAIN reqLink' : i < j => reqLink'[i] < reqLink'[j]
      /\ \A i \in DOMAIN respTs : \A j \in DOMAIN reqLink' : respTs[i] < reqLink'[j]
  BY <1>2, <1>3, <1>5 DEF IInv, Order
<1>7. /\ ~(req.elapsed /\ req.seq = SeqMod - 1) /\ k <= req.seq
      /\ \A i \in DOMAIN respTs : respTs[i] < k
  BY <1>1, <1>3 DEF IInv, Order
<1>8. r \in [state : {"INITIAL_WAITING", "WAIT_TIMESTAMP", "WAITING", "CRASHED"},
             rcvdReq : BOOLEAN, reqSeq : OptSeq, t2 : OptSeq, t3 : OptSeq] /\ r.reqSeq = k
  BY <1>2 DEF IInv, TypeOK, OptSeq
<1>9. CASE resp.state = "WAIT_TIMESTAMP"
  <2>1. resp' = [r EXCEPT !.rcvdReq = TRUE] /\ UNCHANGED <<respLink, respTs>>
    BY <1>9 DEF RecvReq
  <2> HIDE DEF k, r
  <2>2. resp'.reqSeq = k /\ resp'.state # "CRASHED"
        /\ resp' \in [state : {"INITIAL_WAITING", "WAIT_TIMESTAMP", "WAITING", "CRASHED"},
                      rcvdReq : BOOLEAN, reqSeq : OptSeq, t2 : OptSeq, t3 : OptSeq]
    <3>1. r.state = resp.state
      BY DEF r, IInv, TypeOK
    <3>2. QED
      BY <1>1, <1>8, <2>1, <3>1
  <2>3. Order'
    BY <1>2, <1>4, <1>6, <1>7, <2>1, <2>2 DEF IInv, Order
  <2>4. TypeOK'
    BY <1>2, <1>4, <2>1, <2>2 DEF IInv, TypeOK, linkVars
  <2>5. QED
    BY <1>4, <2>3, <2>4 DEF IInv, Counted
<1>10. CASE resp.state # "WAIT_TIMESTAMP"
  <2> DEFINE m == [kind |-> "Resp", seq |-> k, ts |-> r.t2]
  <2>1. /\ resp' = [r EXCEPT !.state = "WAIT_TIMESTAMP", !.rcvdReq = FALSE]
        /\ respLink' = Append(respLink, m) /\ respTs' = Append(respTs, k)
    BY <1>1, <1>10 DEF RecvReq
  <2>2. m \in [kind : {"Resp", "FollowUp"}, seq : SeqId, ts : SeqId]
    BY <1>2 DEF IInv, TypeOK
  <2> HIDE DEF k, r, m
  <2>3. resp'.reqSeq = k /\ resp'.state = "WAIT_TIMESTAMP" /\ ~resp'.rcvdReq
        /\ resp' \in [state : {"INITIAL_WAITING", "WAIT_TIMESTAMP", "WAITING", "CRASHED"},
                      rcvdReq : BOOLEAN, reqSeq : OptSeq, t2 : OptSeq, t3 : OptSeq]
    BY <1>8, <2>1
  <2>4. respLink' \in Seq([kind : {"Resp", "FollowUp"}, seq : SeqId, ts : SeqId])
    BY <2>1, <2>2, AppendProperties DEF IInv, TypeOK
  <2>5. /\ respTs' \in Seq(SeqId) /\ respTs'[Len(respTs) + 1] = k
        /\ \A i \in 1 .. Len(respTs) : respTs'[i] = respTs[i]
        /\ DOMAIN respTs = 1 .. Len(respTs) /\ DOMAIN respTs' = 1 .. Len(respTs) + 1
        /\ Len(respTs) \in Nat
    BY <1>1, <1>2, <2>1, AppendProperties, LenProperties DEF LinksOK
  <2>6. ASSUME NEW i \in DOMAIN respTs'
        PROVE  respTs'[i] <= req.seq /\ \A j \in DOMAIN reqLink' : respTs'[i] < reqLink'[j]
    <3>1. CASE i \in 1 .. Len(respTs)
      BY <1>6, <2>5, <3>1 DEF IInv, Order
    <3>2. CASE i = Len(respTs) + 1
      BY <1>5, <1>7, <2>5, <3>2
    <3>3. QED
      BY <2>5, <3>1, <3>2
  <2>7. Order'
    BY <1>2, <1>4, <1>6, <1>7, <2>3, <2>6 DEF Order
  <2>8. TypeOK'
    BY <1>2, <1>4, <2>3, <2>4, <2>5 DEF IInv, TypeOK, linkVars
  <2>9. QED
    BY <1>4, <2>7, <2>8 DEF IInv, Counted
<1>11. QED
  BY <1>9, <1>10

\* A timestamp completes an answer, and never one behind which a request waits.
LEMMA RespTxTimestampKeepsIInv ==
    ASSUME IInv, RespTxTimestamp
    PROVE  IInv'
<1> DEFINE k == Head(respTs)
           m == [kind |-> "FollowUp", seq |-> resp.reqSeq, ts |-> k]
<1>1. /\ LinksOK /\ respTs # << >> /\ respTs' = Tail(respTs) /\ req.seq \in SeqId
      /\ UNCHANGED <<req, reqLink, reqTs, linkVars>>
  BY TypesInside DEF IInv, RespTxTimestamp, LinksOK, ReqSM
<1>2. k \in SeqId /\ respTs' \in Seq(SeqId)
  BY <1>1, HeadTailProperties DEF LinksOK
<1>3. /\ \A i \in DOMAIN respTs' : i + 1 \in DOMAIN respTs /\ respTs'[i] = respTs[i + 1]
      /\ k = respTs[1] /\ 1 \in DOMAIN respTs
  <2>1. Len(respTs) \in Nat /\ Len(respTs) # 0
    BY <1>1, LenProperties, EmptySeq DEF LinksOK
  <2>2. QED
    BY <1>1, <1>2, <2>1, HeadTailProperties, LenProperties DEF LinksOK
<1>4. /\ \A i \in DOMAIN respTs' : /\ respTs'[i] <= req.seq
                                   /\ \A j \in DOMAIN reqLink : respTs'[i] < reqLink[j]
      /\ (resp.state = "WAIT_TIMESTAMP" /\ resp.rcvdReq)
           => \A i \in DOMAIN respTs' : respTs'[i] < resp.reqSeq
      /\ ~(req.elapsed /\ req.seq = SeqMod - 1)
  BY <1>1, <1>3 DEF IInv, Order
<1>5. CASE RespTimestampMatches(k)
  <2>1. resp.state = "WAIT_TIMESTAMP" /\ k = resp.reqSeq /\ resp.reqSeq \in SeqId
    BY <1>5 DEF RespTimestampMatches, IInv, Order
  <2>2. ~resp.rcvdReq
    BY <1>2, <1>3, <2>1 DEF IInv, Order, SeqId
  <2>3. /\ resp' = [resp EXCEPT !.t3 = k, !.reqSeq = None, !.state = "WAITING"]
        /\ respLink' = Append(respLink, m)
    BY <1>5, <2>2 DEF RespTxTimestamp
  <2>4. m \in [kind : {"Resp", "FollowUp"}, seq : SeqId, ts : SeqId]
    BY <1>2, <2>1
  <2> HIDE DEF m, k
  <2>5. resp'.state = "WAITING"
        /\ resp' \in [state : {"INITIAL_WAITING", "WAIT_TIMESTAMP", "WAITING", "CRASHED"},
                      rcvdReq : BOOLEAN, reqSeq : OptSeq, t2 : OptSeq, t3 : OptSeq]
    BY <1>2, <2>3 DEF IInv, TypeOK, OptSeq
  <2>6. respLink' \in Seq([kind : {"Resp", "FollowUp"}, seq : SeqId, ts : SeqId])
    BY <2>3, <2>4, AppendProperties DEF IInv, TypeOK
  <2>7. Order'
    BY <1>1, <1>4, <2>5 DEF IInv, Order
  <2>8. TypeOK'
    BY <1>1, <1>2, <2>5, <2>6 DEF IInv, TypeOK, linkVars
  <2>9. QED
    BY <1>1, <2>7, <2>8 DEF IInv, Counted
<1>6. CASE ~RespTimestampMatches(k)
  <2>1. UNCHANGED <<resp, respLink>>
    BY <1>6 DEF RespTxTimestamp
  <2> HIDE DEF k, m
  <2>2. Order'
    BY <1>1, <1>4, <2>1 DEF IInv, Order
  <2>3. TypeOK'
    BY <1>1, <1>2, <2>1 DEF IInv, TypeOK, linkVars
  <2>4. QED
    BY <1>1, <2>2, <2>3 DEF IInv, Counted
<1>7. QED
  BY <1>5, <1>6

\* Time passes only at the last id when nothing is on its way.
LEMMA IntervalElapsesKeepsIInv ==
    ASSUME IInv, IntervalElapses
    PROVE  IInv'
<1>1. req \in ReqSM /\ UNCHANGED <<resp, reqLink, respLink, reqTs, respTs, linkVars>>
  BY DEF IInv, TypeOK, ReqSM, IntervalElapses
<1>2. req' = [req EXCEPT !.elapsed = TRUE]
  BY DEF IntervalElapses
<1>3. /\ req' \in ReqSM /\ req'.seq = req.seq /\ req'.isMeasuringDelay = req.isMeasuringDelay
      /\ req'.resets = req.resets /\ req'.lostResponses = req.lostResponses
  BY <1>1, <1>2 DEF ReqSM
<1>4. req.seq < SeqMod - 1 \/ (reqLink = << >> /\ respTs = << >>)
  BY DEF IntervalElapses
<1>5. req.seq \in Nat
  BY <1>1, PdelayAssumption DEF ReqSM, SeqId
<1>6. (req.seq = SeqMod - 1) => reqLink = << >> /\ respTs = << >>
  BY <1>4, <1>5, PdelayAssumption
<1>7. Order'
  BY <1>1, <1>3, <1>6 DEF IInv, Order
<1>8. TypeOK'
  BY <1>1, <1>3 DEF IInv, TypeOK, ReqSM, linkVars
<1>9. Counted(req)'
  BY <1>3 DEF IInv, Counted
<1>10. QED
  BY <1>7, <1>8, <1>9 DEF IInv

\* What is left when the first one is taken.
LEMMA TailOrder ==
    ASSUME NEW s \in Seq(SeqId), s # << >>
    PROVE  /\ Tail(s) \in Seq(SeqId)
           /\ \A i \in DOMAIN Tail(s) : i + 1 \in DOMAIN s /\ Tail(s)[i] = s[i + 1] /\ i \in Int
<1>1. Len(s) \in Nat /\ Len(s) # 0
  BY EmptySeq
<1>2. QED
  BY <1>1, HeadTailProperties, LenProperties

\* Losses keep what is left in order.
LEMMA EnvironmentKeepsIInv ==
    ASSUME IInv, Environment
    PROVE  IInv'
<1>1. LinksOK /\ UNCHANGED <<req, resp>>
  BY TypesInside DEF IInv, Environment, LoseReq, LoseResp, LoseTimestamp, CalmDown
<1>2. CASE LoseReq
  <2>1. reqLink # << >> /\ reqLink' = Tail(reqLink) /\ UNCHANGED <<respLink, reqTs, respTs, linkVars>>
    BY <1>2 DEF LoseReq
  <2>2. /\ reqLink' \in Seq(SeqId)
        /\ \A i \in DOMAIN reqLink' : i + 1 \in DOMAIN reqLink /\ reqLink'[i] = reqLink[i + 1] /\ i \in Int
    BY <1>1, <2>1, TailOrder DEF LinksOK
  <2>3. ~(req.elapsed /\ req.seq = SeqMod - 1)
    BY <2>1 DEF IInv, Order
  <2>4. Order'
    BY <1>1, <2>1, <2>2, <2>3 DEF IInv, Order
  <2>5. TypeOK'
    BY <1>1, <2>1, <2>2 DEF IInv, TypeOK, linkVars
  <2>6. QED
    BY <1>1, <2>4, <2>5 DEF IInv, Counted
<1>3. CASE LoseResp \/ CalmDown
  <2>1. UNCHANGED <<reqLink, reqTs, respTs, lostTs>> /\ phase' \in {"orderly", "rough", "calm"}
        /\ respLink' \in Seq([kind : {"Resp", "FollowUp"}, seq : SeqId, ts : SeqId])
    <3>1. CASE LoseResp
      BY <3>1, HeadTailProperties DEF LoseResp, IInv, TypeOK, linkVars
    <3>2. CASE CalmDown
      BY <3>2 DEF CalmDown, IInv, TypeOK
    <3>3. QED
      BY <1>3, <3>1, <3>2
  <2>2. Order'
    BY <1>1, <2>1 DEF IInv, Order
  <2>3. TypeOK'
    BY <1>1, <2>1 DEF IInv, TypeOK
  <2>4. QED
    BY <1>1, <2>2, <2>3 DEF IInv, Counted
<1>4. CASE LoseTimestamp
  <2>1. lostTs' = TRUE /\ UNCHANGED <<reqLink, respLink, phase>>
    BY <1>4 DEF LoseTimestamp
  <2>2. CASE respTs' = respTs /\ reqTs # << >> /\ reqTs' = Tail(reqTs)
    <3>1. Order'
      BY <1>1, <2>1, <2>2 DEF IInv, Order
    <3>2. reqTs' \in Seq(SeqId)
      BY <2>2, HeadTailProperties DEF IInv, TypeOK
    <3>3. TypeOK'
      BY <1>1, <2>1, <2>2, <3>2 DEF IInv, TypeOK
    <3>4. QED
      BY <1>1, <3>1, <3>3 DEF IInv, Counted
  <2>3. CASE respTs # << >> /\ respTs' = Tail(respTs) /\ reqTs' = reqTs
    <3>1. /\ respTs' \in Seq(SeqId)
          /\ \A i \in DOMAIN respTs' : i + 1 \in DOMAIN respTs /\ respTs'[i] = respTs[i + 1]
      BY <1>1, <2>3, TailOrder DEF LinksOK
    <3>2. Order'
      BY <1>1, <2>1, <2>3, <3>1 DEF IInv, Order
    <3>3. TypeOK'
      BY <1>1, <2>1, <2>3, <3>1 DEF IInv, TypeOK
    <3>4. QED
      BY <1>1, <3>2, <3>3 DEF IInv, Counted
  <2>4. QED
    BY <1>4, <2>2, <2>3 DEF LoseTimestamp
<1>5. QED
  BY <1>2, <1>3, <1>4 DEF Environment

LEMMA StepIInv == IInv /\ [Next]_vars => IInv'
<1> SUFFICES ASSUME IInv, [Next]_vars PROVE IInv'
  OBVIOUS
<1>1. CASE Requester
  BY <1>1, RequesterKeepsIInv
<1>2. CASE Responder
  BY <1>2, RecvReqKeepsIInv, RespTxTimestampKeepsIInv DEF Responder
<1>3. CASE IntervalElapses
  BY <1>3, IntervalElapsesKeepsIInv
<1>4. CASE Environment
  BY <1>4, EnvironmentKeepsIInv
<1>5. CASE UNCHANGED vars
  <2>1. TypeOK' /\ Counted(req)'
    BY <1>5 DEF IInv, vars, linkVars, TypeOK, Counted
  <2>2. Order'
    BY <1>5 DEF IInv, vars, Order
  <2>3. QED
    BY <2>1, <2>2 DEF IInv
<1>6. QED
  BY <1>1, <1>2, <1>3, <1>4, <1>5 DEF Next

-----------------------------------------------------------------------------
(* The theorems                                                            *)

\* Every variable of the two peer delay machines and of the link keeps its type: ids stay
\* below the modulus and lostResponses stops one above the threshold.
THEOREM TypeCorrect == Spec => []TypeOK
<1>1. IInv => TypeOK
  BY DEF IInv
<1>2. QED
  BY InitIInv, StepIInv, <1>1, PTL DEF Spec

\* md_pdelay_resp_sm_run never answers a request through the pointer that
\* md_pdelay_resp_sm_txts has set to NULL, whatever requests and timestamps are lost or late.
THEOREM NullIsNeverAnswered == Spec => []NoNullRequest
<1>1. IInv => NoNullRequest
  BY DEF IInv, Order, NoNullRequest
<1>2. QED
  BY InitIInv, StepIInv, <1>1, PTL DEF Spec

\* isMeasuringDelay does not outlive AllowedLostResponses + 1 lost responses in a row.
THEOREM MeasuringIsWithdrawn == Spec => []MeasuringIsRecent
<1>1. IInv => MeasuringIsRecent
  <2> SUFFICES ASSUME IInv, req.isMeasuringDelay PROVE req.resets <= AllowedLostResponses + 1
    BY DEF MeasuringIsRecent
  <2>1. req \in ReqSM
    BY DEF IInv, TypeOK, ReqSM
  <2>2. req.resets <= req.lostResponses
    BY DEF IInv, Counted
  <2>3. QED
    BY <2>1, <2>2, PdelayAssumption DEF ReqSM
<1>2. QED
  BY InitIInv, StepIInv, <1>1, PTL DEF Spec

-----------------------------------------------------------------------------
(* One exchange is measured                                                *)
(*                                                                         *)
(* R stands for the ids on reqLink and P for the messages on respLink.     *)

Msg == [kind : {"Resp", "FollowUp"}, seq : SeqId, ts : SeqId]

\* No Resp of an exchange before k will come, and none of exchange k.
NoOlder(k, R, P) ==
    /\ \A j \in DOMAIN R : k <= R[j]
    /\ \A j \in DOMAIN P : P[j].kind = "Resp" => k <= P[j].seq
Answered(k, R, P) ==
    /\ \A j \in DOMAIN R : R[j] # k
    /\ \A j \in DOMAIN P : P[j].kind = "Resp" => P[j].seq # k

MeasuredOne(r) ==
    ~r.staleWrap =>
        r.measured.t1 = r.measured.t2 /\ r.measured.t2 = r.measured.t3
            /\ r.measured.t3 = r.measured.t4

\* Timestamps and flags that were stored from messages; a Follow_Up comes behind its Resp.
Stored(r, R, P) ==
    /\ r.t2 = r.respSeq /\ r.t3 = r.followUpSeq
    /\ ~r.staleWrap /\ r.rcvdFollowUp =>
         r.followUpSeq <= r.seq /\ (r.followUpSeq = r.seq => Answered(r.seq, R, P))
    /\ MeasuredOne(r)

\* The machine between two runs: a Resp it waits for or has flagged for this exchange is
\* the last one that comes.
Exchange(r, R, P) ==
    /\ Stored(r, R, P) /\ ~r.rcvdTs
    /\ r.state \in {"WAIT_RESP", "WAIT_FOLLOW_UP"} => r.t1 = r.seq
    /\ r.state = "WAIT_RESP" => ~r.rcvdResp
    /\ r.state = "WAIT_FOLLOW_UP" => ~r.rcvdResp /\ r.respSeq = r.seq /\ NoOlder(r.seq, R, P)
    /\ r.state = "SEND" /\ r.rcvdResp /\ r.respSeq = r.seq => NoOlder(r.seq, R, P)
    /\ r.state # "SEND" /\ r.rcvdResp => r.respSeq <= r.seq

\* Answers on their way have ids in the order of their requests, and come before the
\* requests that are still to be answered.
InOrder(k, R, P) ==
    \A i \in DOMAIN P :
      /\ P[i].seq <= k /\ P[i].ts = P[i].seq
      /\ \A j \in DOMAIN R : P[i].seq < R[j]
      /\ \A j \in DOMAIN P : i < j /\ P[j].kind = "Resp" => P[i].seq < P[j].seq
Answers ==
    /\ InOrder(req.seq, reqLink, respLink)
    /\ req.elapsed /\ req.seq = SeqMod - 1 => respLink = << >>

\* With IInv, the inductive invariant for OneExchange.
Measuring == Answers /\ Exchange(req, reqLink, respLink) /\ req.t4 = req.respSeq

\* What is on the links when machine r sends: nothing newer, and nothing at all at a wrap.
LinksOf(r, R, P) ==
    /\ R \in Seq(SeqId) /\ P \in Seq(Msg)
    /\ \A j \in DOMAIN R : R[j] <= r.seq
    /\ \A j \in DOMAIN P : P[j].seq <= r.seq
    /\ r.elapsed /\ r.seq = SeqMod - 1 => R = << >> /\ P = << >>

\* A run of r ended in q; a new id was sent.
Ended(r, q, R, P) ==
    /\ Exchange(q, IF q.seq # r.seq THEN Append(R, q.seq) ELSE R, P)
    /\ q.t4 = r.t4 /\ q.respSeq = r.respSeq

LEMMA EnterSendEnds ==
    ASSUME NEW r \in ReqSM, NEW R, NEW P, LinksOf(r, R, P), Stored(r, R, P), ~r.rcvdTs,
           r.elapsed, r.rcvdResp => r.respSeq <= r.seq
    PROVE  Ended(r, EnterSend(r), R, P)
<1> DEFINE q == EnterSend(r)
           k == (r.seq + 1) % SeqMod
           w == r.staleWrap \/ (r.rcvdFollowUp /\ r.seq = SeqMod - 1)
<1>1. r.seq \in SeqId /\ r.seq \in Nat /\ k \in SeqId /\ k \in Nat
      /\ k = IF r.seq = SeqMod - 1 THEN 0 ELSE r.seq + 1
  BY NextSeq, NextSeqWraps, PdelayAssumption DEF ReqSM, SeqId
<1>2. k # r.seq
  BY <1>1, PdelayAssumption
<1>3. /\ q.seq = k /\ q.state = "SEND" /\ q.t2 = r.t2 /\ q.t3 = r.t3 /\ q.t4 = r.t4
      /\ q.respSeq = r.respSeq /\ q.followUpSeq = r.followUpSeq /\ q.measured = r.measured
      /\ q.rcvdTs = r.rcvdTs /\ q.rcvdResp = r.rcvdResp /\ q.rcvdFollowUp = r.rcvdFollowUp
  BY DEF EnterSend, ReqSM
<1>4. q.staleWrap = w
  BY DEF EnterSend, ReqSM
<1> HIDE DEF q, k
<1>5. /\ Append(R, k) \in Seq(SeqId) /\ DOMAIN Append(R, k) = 1 .. Len(R) + 1
      /\ Append(R, k)[Len(R) + 1] = k /\ Len(R) \in Nat /\ DOMAIN R = 1 .. Len(R)
      /\ \A j \in 1 .. Len(R) : Append(R, k)[j] = R[j]
  BY <1>1, AppendProperties, LenProperties DEF LinksOf
<1>6. (\A j \in DOMAIN R : R[j] \in Nat) /\ (\A j \in DOMAIN P : P[j].seq \in Nat)
  <2>1. \A j \in DOMAIN R : R[j] \in SeqId
    BY ElementOfSeq, LenProperties DEF LinksOf
  <2>2. \A j \in DOMAIN P : P[j] \in Msg
    BY ElementOfSeq, LenProperties DEF LinksOf
  <2>3. QED
    BY <2>1, <2>2, PdelayAssumption DEF SeqId, Msg
<1>7. r.rcvdResp /\ r.respSeq = k => NoOlder(k, Append(R, k), P)
  <2>1. CASE r.seq = SeqMod - 1
    <3>1. k = 0
      BY <1>1, <2>1
    <3>2. QED
      BY <1>1, <1>5, <1>6, <3>1 DEF NoOlder
  <2>2. CASE r.seq # SeqMod - 1
    BY <1>1, <2>2
  <2>3. QED
    BY <2>1, <2>2
<1>8. ~w /\ r.rcvdFollowUp => r.followUpSeq < k
  <2> SUFFICES ASSUME ~w, r.rcvdFollowUp
               PROVE  r.followUpSeq < k
    OBVIOUS
  <2>1. r.seq # SeqMod - 1 /\ r.followUpSeq <= r.seq
    BY DEF Stored
  <2>2. r.followUpSeq \in Int
    BY PdelayAssumption DEF ReqSM, OptSeq, SeqId, None
  <2>3. QED
    BY <1>1, <2>1, <2>2
<1>9. r.followUpSeq < k => r.followUpSeq <= k /\ r.followUpSeq # k
  <2>1. r.followUpSeq \in Int
    BY PdelayAssumption DEF ReqSM, OptSeq, SeqId, None
  <2>2. QED
    BY <1>1, <2>1
<1>10. MeasuredOne(q)
  BY <1>3, <1>4, Zenon DEF Stored, MeasuredOne
<1>11. ~q.staleWrap /\ q.rcvdFollowUp => q.followUpSeq <= k /\ q.followUpSeq # k
  BY <1>3, <1>4, <1>8, <1>9
<1> HIDE DEF w
<1>12. Stored(q, Append(R, k), P)
  BY <1>3, <1>10, <1>11 DEF Stored
<1>13. Exchange(q, Append(R, k), P)
  BY <1>3, <1>7, <1>12 DEF Exchange
<1>14. Ended(r, q, R, P)
  BY <1>2, <1>3, <1>13 DEF Ended
<1>15. QED
  BY <1>14 DEF q

LEMMA EnterResetEnds ==
    ASSUME NEW r \in ReqSM, NEW R, NEW P, LinksOf(r, R, P), Stored(r, R, P), ~r.rcvdTs
    PROVE  Ended(r, EnterReset(r), R, P)
<1> DEFINE c == CountLost(r)
           r1 == [c EXCEPT !.state = "RESET", !.rcvdResp = FALSE,
                    !.resets = IF @ <= AllowedLostResponses + 1 THEN @ + 1 ELSE @]
<1>1. /\ c \in ReqSM /\ c.elapsed = r.elapsed /\ c.seq = r.seq /\ c.t2 = r.t2 /\ c.t3 = r.t3
      /\ c.t4 = r.t4 /\ c.respSeq = r.respSeq /\ c.followUpSeq = r.followUpSeq
      /\ c.measured = r.measured /\ c.rcvdTs = r.rcvdTs /\ c.rcvdFollowUp = r.rcvdFollowUp
      /\ c.staleWrap = r.staleWrap
  <2>1. CASE r.lostResponses <= AllowedLostResponses
    BY <2>1, PdelayAssumption DEF CountLost, ReqSM
  <2>2. CASE ~(r.lostResponses <= AllowedLostResponses)
    BY <2>2, PdelayAssumption DEF CountLost, ReqSM
  <2>3. QED
    BY <2>1, <2>2
<1>2. EnterReset(r) = IF r.elapsed THEN EnterSend(r1) ELSE r1
  BY DEF EnterReset
<1> HIDE DEF c
<1>3. r1 \in ReqSM
  <2> DEFINE n == IF c.resets <= AllowedLostResponses + 1 THEN c.resets + 1 ELSE c.resets
  <2>1. n \in 0 .. AllowedLostResponses + 2
    BY <1>1, PdelayAssumption DEF ReqSM
  <2>2. r1 = [c EXCEPT !.state = "RESET", !.rcvdResp = FALSE, !.resets = n]
    BY <1>1 DEF ReqSM
  <2> HIDE DEF n, r1
  <2>3. QED
    BY <1>1, <2>1, <2>2 DEF ReqSM
<1>4. /\ r1.elapsed = r.elapsed /\ r1.seq = r.seq /\ r1.t2 = r.t2 /\ r1.t3 = r.t3
      /\ r1.t4 = r.t4 /\ r1.respSeq = r.respSeq /\ r1.followUpSeq = r.followUpSeq
      /\ r1.measured = r.measured /\ r1.state = "RESET"
  BY <1>1 DEF ReqSM
<1>5. /\ r1.rcvdTs = r.rcvdTs /\ r1.rcvdFollowUp = r.rcvdFollowUp
      /\ r1.staleWrap = r.staleWrap /\ ~r1.rcvdResp
  BY <1>1 DEF ReqSM
<1> HIDE DEF r1
<1>6. Stored(r1, R, P) /\ LinksOf(r1, R, P)
  BY <1>4, <1>5 DEF Stored, MeasuredOne, LinksOf
<1>7. CASE r.elapsed
  <2>1. Ended(r1, EnterSend(r1), R, P)
    BY <1>3, <1>4, <1>5, <1>6, <1>7, EnterSendEnds
  <2>2. QED
    BY <1>2, <1>4, <1>7, <2>1 DEF Ended
<1>8. CASE ~r.elapsed
  <2>1. Exchange(r1, R, P)
    BY <1>4, <1>5, <1>6 DEF Exchange
  <2>2. QED
    BY <1>2, <1>4, <1>8, <2>1 DEF Ended
<1>9. QED
  BY <1>7, <1>8

\* The delay is computed: all four timestamps are of this exchange.
LEMMA EnterIntervalTimerEnds ==
    ASSUME NEW r \in ReqSM, NEW R, NEW P, Stored(r, R, P), ~r.rcvdTs, ~r.rcvdResp,
           ~r.staleWrap => /\ r.t1 = r.seq /\ r.respSeq = r.seq /\ r.followUpSeq = r.seq
                           /\ r.t4 = r.seq
    PROVE  Ended(r, EnterIntervalTimer(r), R, P)
<1> DEFINE q == EnterIntervalTimer(r)
<1>1. /\ q.seq = r.seq /\ q.state = "INTERVAL_TIMER" /\ q.t2 = r.t2 /\ q.t3 = r.t3
      /\ q.t4 = r.t4 /\ q.respSeq = r.respSeq /\ q.followUpSeq = r.followUpSeq
      /\ q.measured = [t1 |-> r.t1, t2 |-> r.t2, t3 |-> r.t3, t4 |-> r.t4]
  BY DEF EnterIntervalTimer, ReqSM
<1>2. /\ q.rcvdTs = r.rcvdTs /\ q.rcvdResp = r.rcvdResp /\ ~q.rcvdFollowUp
      /\ q.staleWrap = r.staleWrap
  BY DEF EnterIntervalTimer, ReqSM
<1> HIDE DEF q
<1>3. MeasuredOne(q)
  BY <1>1, <1>2 DEF Stored, MeasuredOne
<1>4. Exchange(q, R, P)
  BY <1>1, <1>2, <1>3 DEF Stored, Exchange
<1>5. Ended(r, q, R, P)
  BY <1>1, <1>4 DEF Ended
<1>6. QED
  BY <1>5 DEF q

\* t4 is that of the flagged Resp, except while this Resp is handled; then no
\* Follow_Up of this exchange is there.
Stamped(r) ==
    \/ r.t4 = r.respSeq \/ r.respSeq # r.seq \/ r.staleWrap
    \/ ~(r.rcvdFollowUp /\ r.followUpSeq = r.seq)
    \/ r.rcvdResp /\ r.state = "WAIT_FOLLOW_UP"

LEMMA RunWaitFollowUpEnds ==
    ASSUME NEW r \in ReqSM, NEW R, NEW P, LinksOf(r, R, P), Stored(r, R, P), ~r.rcvdTs,
           r.state = "WAIT_FOLLOW_UP", r.t1 = r.seq, r.respSeq = r.seq, NoOlder(r.seq, R, P),
           Stamped(r)
    PROVE  Ended(r, RunWaitFollowUp(r), R, P)
<1>1. CASE r.elapsed \/ r.rcvdResp
  BY <1>1, EnterResetEnds DEF RunWaitFollowUp
<1>2. CASE ~r.elapsed /\ ~r.rcvdResp /\ r.rcvdFollowUp /\ r.followUpSeq = r.seq
  <2>1. ~r.staleWrap => r.t4 = r.seq
    BY <1>2 DEF Stamped
  <2>2. QED
    BY <1>2, <2>1, EnterIntervalTimerEnds DEF RunWaitFollowUp
<1>3. CASE ~r.elapsed /\ ~r.rcvdResp /\ ~(r.rcvdFollowUp /\ r.followUpSeq = r.seq)
  <2>1. RunWaitFollowUp(r) = r
    BY <1>3 DEF RunWaitFollowUp
  <2>2. Exchange(r, R, P)
    BY <1>3 DEF Exchange
  <2>3. QED
    BY <2>1, <2>2 DEF Ended
<1>4. QED
  BY <1>1, <1>2, <1>3

LEMMA RunWaitRespEnds ==
    ASSUME NEW r \in ReqSM, NEW R, NEW P, LinksOf(r, R, P), Stored(r, R, P), ~r.rcvdTs,
           r.state = "WAIT_RESP", r.t1 = r.seq, Stamped(r),
           r.rcvdResp /\ r.respSeq = r.seq => NoOlder(r.seq, R, P)
    PROVE  Ended(r, RunWaitResp(r), R, P)
<1>1. CASE r.elapsed \/ (r.rcvdResp /\ r.respSeq # r.seq)
  BY <1>1, EnterResetEnds DEF RunWaitResp
<1>2. CASE ~r.elapsed /\ ~r.rcvdResp
  <2>1. RunWaitResp(r) = r
    BY <1>2 DEF RunWaitResp
  <2>2. Exchange(r, R, P)
    BY <1>2 DEF Exchange
  <2>3. QED
    BY <2>1, <2>2 DEF Ended
<1>3. CASE ~r.elapsed /\ r.rcvdResp /\ r.respSeq = r.seq
  <2> DEFINE q == [r EXCEPT !.state = "WAIT_FOLLOW_UP", !.rcvdResp = FALSE]
  <2>1. RunWaitResp(r) = RunWaitFollowUp(q)
    BY <1>3 DEF RunWaitResp
  <2>2. /\ q.seq = r.seq /\ q.t1 = r.t1 /\ q.t2 = r.t2 /\ q.t3 = r.t3 /\ q.t4 = r.t4
        /\ q.respSeq = r.respSeq /\ q.followUpSeq = r.followUpSeq /\ q.measured = r.measured
        /\ q.state = "WAIT_FOLLOW_UP" /\ q \in ReqSM
    BY DEF ReqSM
  <2>3. /\ q.elapsed = r.elapsed /\ q.rcvdTs = r.rcvdTs /\ q.rcvdFollowUp = r.rcvdFollowUp
        /\ q.staleWrap = r.staleWrap
    BY DEF ReqSM
  <2> HIDE DEF q
  <2>4. Stored(q, R, P) /\ LinksOf(q, R, P)
    BY <2>2, <2>3 DEF Stored, MeasuredOne, LinksOf
  <2>5. Stamped(q)
    BY <2>2, <2>3 DEF Stamped
  <2>6. Ended(q, RunWaitFollowUp(q), R, P)
    BY <1>3, <2>2, <2>3, <2>4, <2>5, RunWaitFollowUpEnds
  <2>7. QED
    BY <2>1, <2>2, <2>6 DEF Ended
<1>4. QED
  BY <1>1, <1>2, <1>3

\* What must hold of a machine that is about to run.
Ready(r, R, P) ==
    /\ Stored(r, R, P)
    /\ r.rcvdTs => r.state = "SEND"
    /\ r.state \in {"WAIT_RESP", "WAIT_FOLLOW_UP"} \/ r.rcvdTs => r.t1 = r.seq /\ Stamped(r)
    /\ r.state = "WAIT_FOLLOW_UP" => r.respSeq = r.seq /\ NoOlder(r.seq, R, P)
    /\ r.state \in {"SEND", "WAIT_RESP"} /\ r.rcvdResp /\ r.respSeq = r.seq => NoOlder(r.seq, R, P)
    /\ r.state \in {"RESET", "INTERVAL_TIMER"} /\ r.rcvdResp => r.respSeq <= r.seq

LEMMA RunEnds ==
    ASSUME NEW r \in ReqSM, NEW R, NEW P, LinksOf(r, R, P), Ready(r, R, P)
    PROVE  Ended(r, Run(r), R, P)
<1>1. CASE r.state = "SEND" /\ r.rcvdTs
  <2> DEFINE q == [r EXCEPT !.state = "WAIT_RESP", !.rcvdTs = FALSE]
  <2>1. Run(r) = RunWaitResp(q)
    BY <1>1 DEF Run
  <2>2. /\ q.seq = r.seq /\ q.t1 = r.t1 /\ q.t2 = r.t2 /\ q.t3 = r.t3 /\ q.t4 = r.t4
        /\ q.respSeq = r.respSeq /\ q.followUpSeq = r.followUpSeq /\ q.measured = r.measured
        /\ q.state = "WAIT_RESP" /\ q \in ReqSM
    BY DEF ReqSM
  <2>3. /\ q.elapsed = r.elapsed /\ ~q.rcvdTs /\ q.rcvdFollowUp = r.rcvdFollowUp
        /\ q.staleWrap = r.staleWrap /\ q.rcvdResp = r.rcvdResp
    BY DEF ReqSM
  <2> HIDE DEF q
  <2>4. Stored(q, R, P) /\ LinksOf(q, R, P)
    BY <2>2, <2>3 DEF Ready, Stored, MeasuredOne, LinksOf
  <2>5. Stamped(q)
    BY <1>1, <2>2, <2>3 DEF Ready, Stamped
  <2>6. q.rcvdResp /\ q.respSeq = q.seq => NoOlder(q.seq, R, P)
    BY <1>1, <2>2, <2>3 DEF Ready
  <2>7. Ended(q, RunWaitResp(q), R, P)
    BY <1>1, <2>2, <2>3, <2>4, <2>5, <2>6, RunWaitRespEnds DEF Ready
  <2>8. QED
    BY <2>1, <2>2, <2>7 DEF Ended
<1>2. CASE r.state = "WAIT_RESP"
  BY <1>2, RunWaitRespEnds DEF Ready, Run
<1>3. CASE r.state = "WAIT_FOLLOW_UP"
  BY <1>3, RunWaitFollowUpEnds DEF Ready, Run
<1>4. CASE r.state \in {"RESET", "INTERVAL_TIMER"} /\ r.elapsed
  BY <1>4, EnterSendEnds DEF Ready, Run
<1>5. CASE \/ r.state = "SEND" /\ ~r.rcvdTs
           \/ r.state \in {"RESET", "INTERVAL_TIMER"} /\ ~r.elapsed
  <2>1. Run(r) = r
    BY <1>5 DEF Run
  <2>2. Exchange(r, R, P)
    BY <1>5 DEF Ready, Exchange
  <2>3. QED
    BY <2>1, <2>2 DEF Ended
<1>6. QED
  BY <1>1, <1>2, <1>3, <1>4, <1>5 DEF ReqSM

-----------------------------------------------------------------------------
(* The links                                                               *)

LEMMA TailMessages ==
    ASSUME NEW P \in Seq(Msg), P # << >>
    PROVE  /\ Tail(P) \in Seq(Msg) /\ Head(P) = P[1] /\ 1 \in DOMAIN P /\ Head(P) \in Msg
           /\ \A i \in DOMAIN Tail(P) : i \in Nat \ {0} /\ i + 1 \in DOMAIN P /\ Tail(P)[i] = P[i + 1]
<1>1. Len(P) \in Nat /\ Len(P) # 0
  BY EmptySeq
<1>2. QED
  BY <1>1, HeadTailProperties, LenProperties

LEMMA TailIds ==
    ASSUME NEW R \in Seq(SeqId), R # << >>
    PROVE  /\ Tail(R) \in Seq(SeqId) /\ Head(R) = R[1] /\ 1 \in DOMAIN R /\ Head(R) \in SeqId
           /\ \A i \in DOMAIN Tail(R) : i \in Nat \ {0} /\ i + 1 \in DOMAIN R /\ Tail(R)[i] = R[i + 1]
<1>1. Len(R) \in Nat /\ Len(R) # 0
  BY EmptySeq
<1>2. QED
  BY <1>1, HeadTailProperties, LenProperties

\* Messages are taken off the link in order.
LEMMA InOrderTail ==
    ASSUME NEW k, NEW R, NEW P \in Seq(Msg), P # << >>, InOrder(k, R, P)
    PROVE  InOrder(k, R, Tail(P))
<1> DEFINE T == Tail(P)
<1>1. \A i \in DOMAIN T : i \in Nat \ {0} /\ i + 1 \in DOMAIN P /\ T[i] = P[i + 1]
  BY TailMessages
<1> HIDE DEF T
<1>2. \A i, j \in DOMAIN T : i < j => i + 1 < j + 1
  BY <1>1
<1>3. InOrder(k, R, T)
  BY <1>1, <1>2 DEF InOrder
<1>4. QED
  BY <1>3 DEF T

LEMMA InOrderTailRequests ==
    ASSUME NEW k, NEW R \in Seq(SeqId), R # << >>, NEW P, InOrder(k, R, P)
    PROVE  InOrder(k, Tail(R), P)
<1> DEFINE T == Tail(R)
<1>1. \A i \in DOMAIN T : i + 1 \in DOMAIN R /\ T[i] = R[i + 1]
  BY TailIds
<1> HIDE DEF T
<1>2. InOrder(k, T, P)
  BY <1>1 DEF InOrder
<1>3. QED
  BY <1>2 DEF T

\* A new request is newer than all answers.
LEMMA InOrderRequest ==
    ASSUME NEW k \in SeqId, NEW n \in SeqId, NEW R \in Seq(SeqId), NEW P \in Seq(Msg),
           InOrder(k, R, P), k < n \/ P = << >>
    PROVE  InOrder(n, Append(R, n), P)
<1> DEFINE S == Append(R, n)
<1>1. /\ DOMAIN S = 1 .. Len(R) + 1 /\ S[Len(R) + 1] = n /\ Len(R) \in Nat
      /\ DOMAIN R = 1 .. Len(R) /\ \A j \in 1 .. Len(R) : S[j] = R[j]
  BY AppendProperties, LenProperties
<1> HIDE DEF S
<1>2. \A i \in DOMAIN P : P[i].seq < n
  <2>1. \A i \in DOMAIN P : P[i] \in Msg
    BY ElementOfSeq, LenProperties
  <2>2. \A i \in DOMAIN P : P[i].seq \in Nat
    BY <2>1, PdelayAssumption DEF Msg, SeqId
  <2>3. k \in Nat /\ n \in Nat
    BY PdelayAssumption DEF SeqId
  <2>4. CASE P = << >>
    BY <2>4
  <2>5. CASE k < n
    BY <2>2, <2>3, <2>5 DEF InOrder
  <2>6. QED
    BY <2>4, <2>5
<1>3. \A i \in DOMAIN P : P[i].seq <= n
  <2>1. \A i \in DOMAIN P : P[i] \in Msg
    BY ElementOfSeq, LenProperties
  <2>2. (\A i \in DOMAIN P : P[i].seq \in Nat) /\ n \in Nat
    BY <2>1, PdelayAssumption DEF Msg, SeqId
  <2>3. QED
    BY <1>2, <2>2
<1>4. \A i \in DOMAIN P : \A j \in DOMAIN S : P[i].seq < S[j]
  BY <1>1, <1>2 DEF InOrder
<1>5. InOrder(n, S, P)
  BY <1>3, <1>4 DEF InOrder
<1>6. QED
  BY <1>5 DEF S

\* A new answer: newer than those before it if it is a Resp, older than all requests.
LEMMA InOrderAnswer ==
    ASSUME NEW k, NEW R, NEW P \in Seq(Msg), InOrder(k, R, P), NEW m \in Msg,
           m.seq <= k, m.ts = m.seq, \A j \in DOMAIN R : m.seq < R[j],
           m.kind = "Resp" => \A i \in DOMAIN P : P[i].seq < m.seq
    PROVE  InOrder(k, R, Append(P, m))
<1> DEFINE Q == Append(P, m)
<1>1. /\ DOMAIN Q = 1 .. Len(P) + 1 /\ Q[Len(P) + 1] = m /\ Len(P) \in Nat
      /\ DOMAIN P = 1 .. Len(P) /\ \A j \in 1 .. Len(P) : Q[j] = P[j]
  BY AppendProperties, LenProperties
<1> HIDE DEF Q
<1>2. ASSUME NEW i \in DOMAIN Q
      PROVE  /\ Q[i].seq <= k /\ Q[i].ts = Q[i].seq
             /\ \A j \in DOMAIN R : Q[i].seq < R[j]
  <2>1. CASE i \in DOMAIN P
    BY <1>1, <2>1 DEF InOrder
  <2>2. CASE i = Len(P) + 1
    BY <1>1, <2>2
  <2>3. QED
    BY <1>1, <2>1, <2>2
<1>3. ASSUME NEW i \in DOMAIN Q, NEW j \in DOMAIN Q, i < j, Q[j].kind = "Resp"
      PROVE  Q[i].seq < Q[j].seq
  <2>1. i \in DOMAIN P /\ Q[i] = P[i]
    BY <1>1, <1>3
  <2>2. CASE j \in DOMAIN P
    BY <1>1, <1>3, <2>1, <2>2 DEF InOrder
  <2>3. CASE j = Len(P) + 1
    BY <1>1, <1>3, <2>1, <2>3
  <2>4. QED
    BY <1>1, <2>2, <2>3
<1>4. InOrder(k, R, Q)
  BY <1>2, <1>3 DEF InOrder
<1>5. QED
  BY <1>4 DEF Q

\* Messages are lost, handled or answered: no Resp comes that did not come before.
Moved(R, P, R2, P2) ==
    /\ \A j \in DOMAIN R2 : \E i \in DOMAIN R : R2[j] = R[i]
    /\ \A j \in DOMAIN P2 : P2[j].kind = "Resp" =>
         \/ \E i \in DOMAIN P : P[i].kind = "Resp" /\ P2[j].seq = P[i].seq
         \/ \E i \in DOMAIN R : P2[j].seq = R[i]

LEMMA MovedLinks ==
    ASSUME NEW k, NEW R, NEW P, NEW R2, NEW P2, Moved(R, P, R2, P2)
    PROVE  /\ NoOlder(k, R, P) => NoOlder(k, R2, P2)
           /\ Answered(k, R, P) => Answered(k, R2, P2)
<1>1. NoOlder(k, R, P) => NoOlder(k, R2, P2)
  BY DEF Moved, NoOlder
<1>2. Answered(k, R, P) => Answered(k, R2, P2)
  BY DEF Moved, Answered
<1>3. QED
  BY <1>1, <1>2

LEMMA MovedExchange ==
    ASSUME NEW r, NEW R, NEW P, NEW R2, NEW P2, Moved(R, P, R2, P2), Exchange(r, R, P)
    PROVE  Exchange(r, R2, P2)
<1>1. /\ NoOlder(r.seq, R, P) => NoOlder(r.seq, R2, P2)
      /\ Answered(r.seq, R, P) => Answered(r.seq, R2, P2)
  BY MovedLinks
<1>2. Stored(r, R2, P2)
  BY <1>1 DEF Exchange, Stored
<1>3. QED
  BY <1>1, <1>2 DEF Exchange

LEMMA MovedTail ==
    ASSUME NEW R, NEW P \in Seq(Msg), P # << >>
    PROVE  Moved(R, P, R, Tail(P))
  BY TailMessages DEF Moved

LEMMA MovedTailRequests ==
    ASSUME NEW R \in Seq(SeqId), R # << >>, NEW P
    PROVE  Moved(R, P, Tail(R), P)
  BY TailIds DEF Moved

-----------------------------------------------------------------------------
(* The steps keep Measuring                                                *)

LEMMA LinkTypes ==
    ASSUME IInv, Measuring
    PROVE  /\ req \in ReqSM /\ reqLink \in Seq(SeqId) /\ respLink \in Seq(Msg)
           /\ reqTs \in Seq(SeqId) /\ respTs \in Seq(SeqId) /\ req.seq \in SeqId
           /\ LinksOf(req, reqLink, respLink)
           /\ Exchange(req, reqLink, respLink) /\ req.t4 = req.respSeq /\ Answers
<1>1. /\ req \in ReqSM /\ reqLink \in Seq(SeqId) /\ respLink \in Seq(Msg)
      /\ reqTs \in Seq(SeqId) /\ respTs \in Seq(SeqId) /\ req.seq \in SeqId
  BY DEF IInv, TypeOK, ReqSM, Msg
<1>2. LinksOf(req, reqLink, respLink)
  BY <1>1 DEF LinksOf, IInv, Order, Measuring, Answers, InOrder
<1>3. QED
  BY <1>1, <1>2 DEF Measuring

LEMMA InitMeasuring == Init => Measuring
<1> SUFFICES ASSUME Init PROVE Measuring
  OBVIOUS
<1>1. PICK e \in BOOLEAN :
        req = [state |-> "SEND", seq |-> 0, elapsed |-> e, rcvdTs |-> FALSE,
                  rcvdResp |-> FALSE, respSeq |-> None, rcvdFollowUp |-> FALSE, followUpSeq |-> None,
                  t1 |-> None, t2 |-> None, t3 |-> None, t4 |-> None,
                  lostResponses |-> 0, isMeasuringDelay |-> FALSE,
                  measured |-> NotMeasured, resets |-> 0, staleWrap |-> FALSE]
  BY PdelayAssumption DEF Init
<1>2. respLink = << >>
  BY DEF Init
<1>3. Answers
  BY <1>2 DEF Answers, InOrder
<1>4. MeasuredOne(req)
  BY <1>1 DEF MeasuredOne, NotMeasured
<1>5. Stored(req, reqLink, respLink)
  BY <1>1, <1>4 DEF Stored
<1>6. req.state = "SEND" /\ ~req.rcvdResp /\ ~req.rcvdTs /\ req.t4 = req.respSeq
  BY <1>1
<1>7. QED
  BY <1>3, <1>5, <1>6 DEF Measuring, Exchange

\* A step of the requester, seen from the links.
LEMMA ReqStepMeasures ==
    ASSUME IInv, Measuring, NEW r \in ReqSM, NEW c, Advances(req, r), ReqStep(r, c),
           \/ respLink' = respLink
           \/ respLink # << >> /\ respLink' = Tail(respLink),
           Exchange(r, IF r.seq # req.seq THEN Append(reqLink, r.seq) ELSE reqLink, respLink'),
           r.t4 = r.respSeq
    PROVE  Measuring'
<1>1. /\ req' = r
      /\ reqLink' = IF r.seq # req.seq THEN Append(reqLink, r.seq) ELSE reqLink
  BY DEF ReqStep
<1>2. respLink' \in Seq(Msg) /\ InOrder(req.seq, reqLink, respLink')
  <2>1. respLink \in Seq(Msg) /\ InOrder(req.seq, reqLink, respLink)
    BY LinkTypes DEF Answers
  <2>2. CASE respLink' = respLink
    BY <2>1, <2>2
  <2>3. CASE respLink # << >> /\ respLink' = Tail(respLink)
    BY <2>1, <2>3, TailMessages, InOrderTail
  <2>4. QED
    BY <2>2, <2>3
<1>3. respLink = << >> => respLink' = << >>
  OBVIOUS
<1>4. r.seq \in SeqId /\ req.seq \in SeqId /\ reqLink \in Seq(SeqId)
  BY LinkTypes DEF ReqSM
<1>5. InOrder(r.seq, reqLink', respLink')
  <2>1. CASE r.seq = req.seq
    BY <1>1, <1>2, <2>1
  <2>2. CASE r.seq # req.seq
    <3>1. req.elapsed /\ r.seq = IF req.seq = SeqMod - 1 THEN 0 ELSE req.seq + 1
      BY <1>4, <2>2, NextSeqWraps DEF Advances
    <3>2. req.seq < r.seq \/ respLink' = << >>
      BY <1>3, <1>4, <3>1, LinkTypes DEF Answers, SeqId
    <3>3. QED
      BY <1>1, <1>2, <1>4, <2>2, <3>2, InOrderRequest
  <2>3. QED
    BY <2>1, <2>2
<1>6. r.elapsed /\ r.seq = SeqMod - 1 => respLink' = << >>
  BY <1>3, LinkTypes DEF Advances, Answers
<1>7. Answers'
  BY <1>1, <1>5, <1>6 DEF Answers
<1>8. QED
  BY <1>1, <1>7 DEF Measuring

\* Something was stored in q, then the machine ran.
LEMMA RunMeasures ==
    ASSUME IInv, Measuring, NEW q \in ReqSM, q.seq = req.seq, q.elapsed = req.elapsed,
           NEW c, ReqStep(Run(q), c),
           \/ respLink' = respLink
           \/ respLink # << >> /\ respLink' = Tail(respLink),
           Ready(q, reqLink, respLink'), q.t4 = q.respSeq
    PROVE  Measuring'
<1>1. respLink' \in Seq(Msg)
  BY LinkTypes, TailMessages
<1>2. LinksOf(q, reqLink, respLink')
  <2>1. \A j \in DOMAIN respLink' : \E i \in DOMAIN respLink : respLink'[j] = respLink[i]
    BY LinkTypes, TailMessages
  <2>2. respLink = << >> => respLink' = << >>
    OBVIOUS
  <2>3. QED
    BY <1>1, <2>1, <2>2, LinkTypes DEF LinksOf
<1>3. Ended(q, Run(q), reqLink, respLink')
  BY <1>2, RunEnds
<1>4. RunsTo(q, Run(q)) /\ Run(q) \in ReqSM
  BY RunRuns DEF RunsTo
<1>5. Advances(req, Run(q))
  BY <1>4 DEF RunsTo, Advances
<1>6. QED
  BY <1>3, <1>4, <1>5, ReqStepMeasures DEF Ended

LEMMA ReadyIfExchange ==
    ASSUME NEW r, NEW R, NEW P, Exchange(r, R, P), r.t4 = r.respSeq
    PROVE  Ready(r, R, P)
  BY DEF Exchange, Ready, Stamped

LEMMA ReqPollMeasures ==
    ASSUME IInv, Measuring, ReqPoll
    PROVE  Measuring'
<1>1. ReqStep(Run(req), FALSE) /\ respLink' = respLink
  BY DEF ReqPoll
<1>2. QED
  BY <1>1, LinkTypes, ReadyIfExchange, RunMeasures

\* The timestamp of this Pdelay_Req.
LEMMA ReqTxTimestampMeasures ==
    ASSUME IInv, Measuring, ReqTxTimestamp
    PROVE  Measuring'
<1>1. respLink' = respLink /\ reqTs # << >>
  BY DEF ReqTxTimestamp
<1>2. CASE req.state = "SEND" /\ Head(reqTs) = req.seq
  <2> DEFINE q == [req EXCEPT !.t1 = Head(reqTs), !.rcvdTs = TRUE]
  <2>1. ReqStep(Run(q), TRUE)
    BY <1>2 DEF ReqTxTimestamp
  <2>2. /\ q \in ReqSM /\ q.seq = req.seq /\ q.t1 = req.seq /\ q.t2 = req.t2 /\ q.t3 = req.t3
        /\ q.t4 = req.t4 /\ q.respSeq = req.respSeq /\ q.followUpSeq = req.followUpSeq
        /\ q.measured = req.measured /\ q.state = "SEND"
    BY <1>2, LinkTypes DEF ReqSM, OptSeq
  <2>3. /\ q.elapsed = req.elapsed /\ q.rcvdFollowUp = req.rcvdFollowUp
        /\ q.staleWrap = req.staleWrap /\ q.rcvdResp = req.rcvdResp
    BY LinkTypes DEF ReqSM
  <2> HIDE DEF q
  <2>4. Stored(q, reqLink, respLink)
    BY <2>2, <2>3, LinkTypes DEF Exchange, Stored, MeasuredOne
  <2>5. Ready(q, reqLink, respLink)
    BY <1>2, <2>2, <2>3, <2>4, LinkTypes DEF Exchange, Ready, Stamped
  <2>6. QED
    BY <1>1, <2>1, <2>2, <2>3, <2>5, LinkTypes, RunMeasures
<1>3. CASE ~(req.state = "SEND" /\ Head(reqTs) = req.seq)
  <2>1. ReqStep(req, TRUE)
    BY <1>3 DEF ReqTxTimestamp
  <2>2. Advances(req, req)
    BY DEF Advances
  <2>3. QED
    BY <1>1, <2>1, <2>2, LinkTypes, ReqStepMeasures
<1>4. QED
  BY <1>2, <1>3

\* What is at the head of the link, and what comes behind it.
LEMMA FirstMessage ==
    ASSUME IInv, Measuring, respLink # << >>
    PROVE  LET m == Head(respLink) IN
           /\ m \in Msg /\ m.ts = m.seq /\ m.seq <= req.seq
           /\ NoOlder(m.seq, reqLink, Tail(respLink)) /\ Answered(m.seq, reqLink, Tail(respLink))
<1> DEFINE m == Head(respLink)
           T == Tail(respLink)
<1>1. /\ T \in Seq(Msg) /\ m = respLink[1] /\ 1 \in DOMAIN respLink /\ m \in Msg
      /\ \A i \in DOMAIN T : i \in Nat \ {0} /\ i + 1 \in DOMAIN respLink /\ T[i] = respLink[i + 1]
  BY LinkTypes, TailMessages
<1>2. m.ts = m.seq /\ m.seq <= req.seq /\ \A j \in DOMAIN reqLink : m.seq < reqLink[j]
  BY <1>1, LinkTypes DEF Answers, InOrder
<1>3. \A j \in DOMAIN T : T[j].kind = "Resp" => m.seq < T[j].seq
  <2>1. \A j \in DOMAIN T : 1 < j + 1
    BY <1>1
  <2>2. QED
    BY <1>1, <2>1, LinkTypes DEF Answers, InOrder
<1>4. /\ m.seq \in Nat /\ (\A j \in DOMAIN reqLink : reqLink[j] \in Nat)
      /\ \A j \in DOMAIN T : T[j].seq \in Nat
  <2>1. \A j \in DOMAIN reqLink : reqLink[j] \in SeqId
    BY LinkTypes, ElementOfSeq, LenProperties
  <2>2. \A j \in DOMAIN T : T[j] \in Msg
    BY <1>1, ElementOfSeq, LenProperties
  <2>3. QED
    BY <1>1, <2>1, <2>2, PdelayAssumption DEF Msg, SeqId
<1> HIDE DEF m, T
<1>5. NoOlder(m.seq, reqLink, T)
  BY <1>2, <1>3, <1>4 DEF NoOlder
<1>6. Answered(m.seq, reqLink, T)
  BY <1>2, <1>3, <1>4 DEF Answered
<1>7. QED
  BY <1>1, <1>2, <1>5, <1>6 DEF m, T

LEMMA RecvRespFollowUpMeasures ==
    ASSUME IInv, Measuring, RecvRespFollowUp
    PROVE  Measuring'
<1> DEFINE m == Head(respLink)
           T == Tail(respLink)
           q == [req EXCEPT !.rcvdFollowUp = TRUE, !.followUpSeq = m.seq, !.t3 = m.ts]
<1>1. ReqStep(Run(q), FALSE) /\ respLink # << >> /\ respLink' = T
  BY DEF RecvRespFollowUp
<1>2. m \in Msg /\ m.ts = m.seq /\ m.seq <= req.seq /\ Answered(m.seq, reqLink, T)
  BY <1>1, FirstMessage
<1>3. Exchange(req, reqLink, T)
  BY <1>1, LinkTypes, MovedTail, MovedExchange
<1> HIDE DEF m, T
<1>4. /\ q \in ReqSM /\ q.seq = req.seq /\ q.t1 = req.t1 /\ q.t2 = req.t2 /\ q.t3 = m.seq
      /\ q.t4 = req.t4 /\ q.respSeq = req.respSeq /\ q.followUpSeq = m.seq
      /\ q.measured = req.measured /\ q.state = req.state
  BY <1>2, LinkTypes DEF ReqSM, OptSeq, Msg
<1>5. /\ q.elapsed = req.elapsed /\ q.rcvdTs = req.rcvdTs
      /\ q.staleWrap = req.staleWrap /\ q.rcvdResp = req.rcvdResp
  BY LinkTypes DEF ReqSM
<1> HIDE DEF q
<1>6. Stored(q, reqLink, T)
  <2>1. MeasuredOne(q)
    BY <1>3, <1>4, <1>5 DEF Exchange, Stored, MeasuredOne
  <2>2. QED
    BY <1>2, <1>3, <1>4, <2>1 DEF Exchange, Stored
<1>7. Exchange(q, reqLink, T)
  BY <1>3, <1>4, <1>5, <1>6 DEF Exchange
<1>8. QED
  BY <1>1, <1>4, <1>5, <1>7, LinkTypes, ReadyIfExchange, RunMeasures DEF T

\* A Resp: t4 is stored behind the run, which does not compute the delay.
LEMMA RecvRespMeasures ==
    ASSUME IInv, Measuring, RecvResp
    PROVE  Measuring'
<1> DEFINE m == Head(respLink)
           T == Tail(respLink)
           q == [req EXCEPT !.rcvdResp = TRUE, !.respSeq = m.seq, !.t2 = m.ts]
           u == Run(q)
           r == [u EXCEPT !.t4 = m.seq]
<1>1. ReqStep(r, FALSE) /\ respLink # << >> /\ respLink' = T /\ m.kind = "Resp"
  BY DEF RecvResp
<1>2. /\ m \in Msg /\ m.ts = m.seq /\ m.seq <= req.seq /\ m = respLink[1] /\ 1 \in DOMAIN respLink
      /\ NoOlder(m.seq, reqLink, T)
  BY <1>1, FirstMessage, LinkTypes, TailMessages
<1>3. Exchange(req, reqLink, T) /\ T \in Seq(Msg)
  BY <1>1, LinkTypes, MovedTail, MovedExchange, TailMessages
<1>4. LinksOf(req, reqLink, T)
  <2>1. \A j \in DOMAIN T : \E i \in DOMAIN respLink : T[j] = respLink[i]
    BY <1>1, LinkTypes, TailMessages
  <2>2. ~(req.elapsed /\ req.seq = SeqMod - 1)
    BY <1>1, LinkTypes DEF Answers
  <2>3. QED
    BY <1>3, <2>1, <2>2, LinkTypes DEF LinksOf
<1>5. req.state = "WAIT_FOLLOW_UP" => m.seq = req.seq
  <2>1. req.state = "WAIT_FOLLOW_UP" => req.seq <= m.seq
    BY <1>1, <1>2, LinkTypes DEF Exchange, NoOlder
  <2>2. m.seq \in Nat /\ req.seq \in Nat
    BY <1>2, LinkTypes, PdelayAssumption DEF Msg, SeqId
  <2>3. QED
    BY <1>2, <2>1, <2>2
<1>6. ~req.staleWrap /\ req.rcvdFollowUp /\ req.followUpSeq = req.seq => m.seq # req.seq
  BY <1>1, <1>2, LinkTypes DEF Exchange, Stored, Answered
<1> HIDE DEF m, T
<1>7. /\ q \in ReqSM /\ q.seq = req.seq /\ q.t1 = req.t1 /\ q.t2 = m.seq /\ q.t3 = req.t3
      /\ q.t4 = req.t4 /\ q.respSeq = m.seq /\ q.followUpSeq = req.followUpSeq
      /\ q.measured = req.measured /\ q.state = req.state
  BY <1>2, LinkTypes DEF ReqSM, OptSeq, Msg
<1>8. /\ q.elapsed = req.elapsed /\ q.rcvdTs = req.rcvdTs
      /\ q.staleWrap = req.staleWrap /\ q.rcvdResp /\ q.rcvdFollowUp = req.rcvdFollowUp
  BY LinkTypes DEF ReqSM
<1> HIDE DEF q
<1>9. Stored(q, reqLink, T)
  <2>1. MeasuredOne(q)
    BY <1>3, <1>7, <1>8 DEF Exchange, Stored, MeasuredOne
  <2>2. QED
    BY <1>3, <1>7, <1>8, <2>1 DEF Exchange, Stored
<1>10. Stamped(q)
  BY <1>6, <1>7, <1>8 DEF Stamped
<1>11. Ready(q, reqLink, T)
  BY <1>2, <1>3, <1>5, <1>7, <1>8, <1>9, <1>10 DEF Exchange, Ready
<1>12. LinksOf(q, reqLink, T)
  BY <1>4, <1>7, <1>8 DEF LinksOf
<1>13. Ended(q, u, reqLink, T) /\ RunsTo(q, u) /\ u \in ReqSM
  BY <1>7, <1>11, <1>12, RunEnds, RunRuns DEF RunsTo
<1> HIDE DEF u
<1>14. /\ r \in ReqSM /\ r.seq = u.seq /\ r.t1 = u.t1 /\ r.t2 = u.t2 /\ r.t3 = u.t3
       /\ r.t4 = m.seq /\ r.respSeq = u.respSeq /\ r.followUpSeq = u.followUpSeq
       /\ r.measured = u.measured /\ r.state = u.state
  BY <1>2, <1>13 DEF ReqSM, OptSeq, Msg
<1>15. /\ r.elapsed = u.elapsed /\ r.rcvdTs = u.rcvdTs /\ r.rcvdResp = u.rcvdResp
       /\ r.staleWrap = u.staleWrap /\ r.rcvdFollowUp = u.rcvdFollowUp
  BY <1>13 DEF ReqSM
<1> HIDE DEF r
<1>16. r.t4 = r.respSeq
  BY <1>7, <1>13, <1>14 DEF Ended
<1>17. Advances(req, r)
  BY <1>7, <1>8, <1>13, <1>14, <1>15 DEF RunsTo, Advances
<1>18. \A R : Exchange(u, R, T) => Exchange(r, R, T)
  <2> SUFFICES ASSUME NEW R, Exchange(u, R, T)
               PROVE  Exchange(r, R, T)
    OBVIOUS
  <2>1. Stored(r, R, T)
    BY <1>14, <1>15 DEF Exchange, Stored, MeasuredOne
  <2>2. QED
    BY <1>14, <1>15, <2>1 DEF Exchange
<1>19. Exchange(r, IF r.seq # req.seq THEN Append(reqLink, r.seq) ELSE reqLink, T)
  BY <1>7, <1>13, <1>14, <1>18 DEF Ended
<1>20. QED
  BY <1>1, <1>14, <1>16, <1>17, <1>19, ReqStepMeasures DEF T

\* Steps that do not touch the requester: its messages stay in order, and no Resp comes
\* that would not have come.
LEMMA LinksMeasure ==
    ASSUME IInv, Measuring, UNCHANGED req, Moved(reqLink, respLink, reqLink', respLink'),
           InOrder(req.seq, reqLink', respLink'),
           ~(req.elapsed /\ req.seq = SeqMod - 1) \/ respLink' = << >>
    PROVE  Measuring'
<1>1. Exchange(req, reqLink', respLink')
  BY LinkTypes, MovedExchange
<1>2. QED
  BY <1>1, LinkTypes DEF Measuring, Answers

LEMMA RecvReqMeasures ==
    ASSUME IInv, Measuring, RecvReq
    PROVE  Measuring'
<1> DEFINE k == Head(reqLink)
           T == Tail(reqLink)
<1>1. UNCHANGED req /\ reqLink # << >> /\ reqLink' = T
  BY DEF RecvReq
<1>2. /\ T \in Seq(SeqId) /\ k = reqLink[1] /\ 1 \in DOMAIN reqLink /\ k \in SeqId
      /\ \A i \in DOMAIN T : i \in Nat \ {0} /\ i + 1 \in DOMAIN reqLink /\ T[i] = reqLink[i + 1]
  BY <1>1, LinkTypes, TailIds
<1>3. InOrder(req.seq, T, respLink) /\ Moved(reqLink, respLink, T, respLink)
  BY <1>1, LinkTypes, InOrderTailRequests, MovedTailRequests DEF Answers
<1>4. ~(req.elapsed /\ req.seq = SeqMod - 1)
  BY <1>1 DEF IInv, Order
<1>5. CASE respLink' = respLink
  BY <1>1, <1>3, <1>4, <1>5, LinksMeasure
<1>6. CASE respLink' # respLink
  <2> DEFINE r == [resp EXCEPT !.reqSeq = k, !.t2 = k]
             m == [kind |-> "Resp", seq |-> k, ts |-> r.t2]
  <2>1. respLink' = Append(respLink, m)
    BY <1>6 DEF RecvReq
  <2>2. r.t2 = k
    BY DEF IInv, TypeOK
  <2>3. m \in Msg /\ m.seq = k /\ m.ts = k
    BY <1>2, <2>2 DEF Msg
  <2>4. k <= req.seq
    BY <1>2, LinkTypes DEF LinksOf
  <2>5. \A j \in DOMAIN T : k < T[j]
    <3>1. \A j \in DOMAIN T : 1 < j + 1
      BY <1>2
    <3>2. QED
      BY <1>2, <3>1 DEF IInv, Order
  <2>6. \A i \in DOMAIN respLink : respLink[i].seq < k
    BY <1>2, LinkTypes DEF Answers, InOrder
  <2> HIDE DEF m, r, k, T
  <2>7. InOrder(req.seq, T, respLink')
    BY <1>3, <2>1, <2>3, <2>4, <2>5, <2>6, LinkTypes, InOrderAnswer
  <2>8. Moved(reqLink, respLink, T, respLink')
    <3>1. /\ DOMAIN respLink' = 1 .. Len(respLink) + 1 /\ respLink'[Len(respLink) + 1] = m
          /\ DOMAIN respLink = 1 .. Len(respLink) /\ Len(respLink) \in Nat
          /\ \A j \in 1 .. Len(respLink) : respLink'[j] = respLink[j]
      BY <2>1, <2>3, LinkTypes, AppendProperties, LenProperties
    <3>2. \A j \in DOMAIN respLink' : j \in DOMAIN respLink \/ j = Len(respLink) + 1
      BY <3>1
    <3>3. \A j \in DOMAIN respLink' :
            \/ \E i \in DOMAIN respLink : respLink'[j] = respLink[i]
            \/ \E i \in DOMAIN reqLink : respLink'[j].seq = reqLink[i]
      BY <1>2, <2>3, <3>1, <3>2
    <3>4. QED
      BY <1>3, <3>3 DEF Moved
  <2>9. QED
    BY <1>1, <1>4, <2>7, <2>8, LinksMeasure
<1>7. QED
  BY <1>5, <1>6

LEMMA RespTxTimestampMeasures ==
    ASSUME IInv, Measuring, RespTxTimestamp
    PROVE  Measuring'
<1> DEFINE k == Head(respTs)
           m == [kind |-> "FollowUp", seq |-> resp.reqSeq, ts |-> k]
<1>1. UNCHANGED <<req, reqLink>> /\ respTs # << >>
  BY DEF RespTxTimestamp
<1>2. k = respTs[1] /\ 1 \in DOMAIN respTs /\ k \in SeqId
  BY <1>1, LinkTypes, TailIds
<1>3. ~(req.elapsed /\ req.seq = SeqMod - 1)
  BY <1>1 DEF IInv, Order
<1>4. k <= req.seq /\ \A j \in DOMAIN reqLink : k < reqLink[j]
  BY <1>2 DEF IInv, Order
<1>5. CASE RespTimestampMatches(k)
  <2>1. respLink' = Append(respLink, m) /\ k = resp.reqSeq
    BY <1>5 DEF RespTxTimestamp, RespTimestampMatches
  <2>2. m \in Msg /\ m.kind = "FollowUp" /\ m.seq = k /\ m.ts = k
    BY <1>2, <2>1 DEF Msg
  <2> HIDE DEF k, m
  <2>3. InOrder(req.seq, reqLink, respLink')
    BY <1>4, <2>1, <2>2, LinkTypes, InOrderAnswer DEF Answers
  <2>4. Moved(reqLink, respLink, reqLink, respLink')
    <3>1. /\ DOMAIN respLink' = 1 .. Len(respLink) + 1 /\ respLink'[Len(respLink) + 1] = m
          /\ DOMAIN respLink = 1 .. Len(respLink) /\ Len(respLink) \in Nat
          /\ \A j \in 1 .. Len(respLink) : respLink'[j] = respLink[j]
      BY <2>1, <2>2, LinkTypes, AppendProperties, LenProperties
    <3>2. \A j \in DOMAIN respLink' : respLink'[j].kind = "Resp" =>
            \E i \in DOMAIN respLink : respLink'[j] = respLink[i]
      BY <2>2, <3>1
    <3>3. QED
      BY <3>2 DEF Moved
  <2>5. QED
    BY <1>1, <1>3, <2>3, <2>4, LinksMeasure
<1>6. CASE ~RespTimestampMatches(k)
  <2>1. respLink' = respLink
    BY <1>6 DEF RespTxTimestamp
  <2>2. QED
    BY <1>1, <2>1 DEF Measuring, Answers
<1>7. QED
  BY <1>5, <1>6

LEMMA IntervalElapsesMeasures ==
    ASSUME IInv, Measuring, IntervalElapses
    PROVE  Measuring'
<1>1. req' = [req EXCEPT !.elapsed = TRUE] /\ UNCHANGED <<reqLink, respLink>>
  BY DEF IntervalElapses
<1>2. /\ req'.seq = req.seq /\ req'.t1 = req.t1 /\ req'.t2 = req.t2 /\ req'.t3 = req.t3
      /\ req'.t4 = req.t4 /\ req'.respSeq = req.respSeq /\ req'.followUpSeq = req.followUpSeq
      /\ req'.measured = req.measured /\ req'.state = req.state
  BY <1>1, LinkTypes DEF ReqSM
<1>3. /\ req'.rcvdTs = req.rcvdTs /\ req'.rcvdResp = req.rcvdResp
      /\ req'.staleWrap = req.staleWrap /\ req'.rcvdFollowUp = req.rcvdFollowUp
  BY <1>1, LinkTypes DEF ReqSM
<1>4. Stored(req', reqLink, respLink)
  BY <1>2, <1>3, LinkTypes DEF Exchange, Stored, MeasuredOne
<1>5. Exchange(req', reqLink, respLink)
  BY <1>2, <1>3, <1>4, LinkTypes DEF Exchange
<1>6. req.seq = SeqMod - 1 => respLink = << >>
  <2>1. req.seq < SeqMod - 1 \/ respLink = << >>
    BY DEF IntervalElapses
  <2>2. QED
    BY <2>1, LinkTypes, PdelayAssumption DEF SeqId
<1>7. Answers'
  BY <1>1, <1>2, <1>6, LinkTypes DEF Answers
<1>8. QED
  BY <1>1, <1>2, <1>5, <1>7, LinkTypes DEF Measuring

LEMMA EnvironmentMeasures ==
    ASSUME IInv, Measuring, Environment
    PROVE  Measuring'
<1>1. UNCHANGED req
  BY DEF Environment, LoseReq, LoseResp, LoseTimestamp, CalmDown
<1>2. CASE LoseReq
  <2>1. reqLink # << >> /\ reqLink' = Tail(reqLink) /\ respLink' = respLink
    BY <1>2 DEF LoseReq
  <2>2. ~(req.elapsed /\ req.seq = SeqMod - 1)
    BY <2>1 DEF IInv, Order
  <2>3. QED
    BY <1>1, <2>1, <2>2, LinkTypes, InOrderTailRequests, MovedTailRequests, LinksMeasure DEF Answers
<1>3. CASE LoseResp
  <2>1. respLink # << >> /\ respLink' = Tail(respLink) /\ reqLink' = reqLink
    BY <1>3 DEF LoseResp
  <2>2. ~(req.elapsed /\ req.seq = SeqMod - 1)
    BY <2>1, LinkTypes DEF Answers
  <2>3. QED
    BY <1>1, <2>1, <2>2, LinkTypes, InOrderTail, MovedTail, LinksMeasure DEF Answers
<1>4. CASE LoseTimestamp \/ CalmDown
  <2>1. UNCHANGED <<reqLink, respLink>>
    BY <1>4 DEF LoseTimestamp, CalmDown
  <2>2. QED
    BY <1>1, <2>1 DEF Measuring, Answers
<1>5. QED
  BY <1>2, <1>3, <1>4 DEF Environment

LEMMA StepMeasuring == IInv /\ Measuring /\ [Next]_vars => Measuring'
<1> SUFFICES ASSUME IInv, Measuring, [Next]_vars PROVE Measuring'
  OBVIOUS
<1>1. CASE Requester
  BY <1>1, ReqPollMeasures, ReqTxTimestampMeasures, RecvRespMeasures, RecvRespFollowUpMeasures
    DEF Requester
<1>2. CASE Responder
  BY <1>2, RecvReqMeasures, RespTxTimestampMeasures DEF Responder
<1>3. CASE IntervalElapses
  BY <1>3, IntervalElapsesMeasures
<1>4. CASE Environment
  BY <1>4, EnvironmentMeasures
<1>5. CASE UNCHANGED vars
  BY <1>5 DEF vars, Measuring, Answers
<1>6. QED
  BY <1>1, <1>2, <1>3, <1>4, <1>5 DEF Next

\* computePropTime subtracts the four timestamps of one exchange, whatever is lost or
\* late, unless a Follow_Up stays flagged through all sequence ids.
THEOREM DelayIsOfOneExchange == Spec => []OneExchange
<1>1. Measuring => OneExchange
  BY DEF Measuring, Exchange, Stored, MeasuredOne, OneExchange
<1>2. QED
  BY InitIInv, StepIInv, InitMeasuring, StepMeasuring, <1>1, PTL DEF Spec

-----------------------------------------------------------------------------
(***************************************************************************)
(* Bmca: priority vectors, one bridge, the network                         *)
(*                                                                         *)
(* Priority vectors are ordered lexicographically, so a best one exists    *)
(* (BestVector) and gmPriority is a vector of the network.  The invariant  *)
(* says of every bridge that it is Sound: well typed, with the own         *)
(* information of its ports current.  Every run of a state machine, and    *)
(* thus every iteration of the main loop, keeps a bridge Sound.            *)
(***************************************************************************)

LEMMA TheOf == \A x : The({x}) = x
  BY DEF The

\* Of finitely or infinitely many things, one has the least number.
LEMMA Least ==
    ASSUME NEW S, S # {}, NEW f \in [S -> Nat]
    PROVE  \E x \in S : \A y \in S : f[x] <= f[y]
<1> DEFINE T == {f[x] : x \in S}
<1>1. T \subseteq Nat /\ T # {}
  OBVIOUS
<1>2. PICK n \in T : \A m \in T : ~(<<m, n>> \in OpToRel(<, Nat))
  BY <1>1, NatLessThanWellFounded, WFMin
<1>3. ASSUME NEW m \in T, ~(n <= m)
      PROVE  FALSE
  <2>1. m \in Nat /\ n \in Nat
    BY <1>1
  <2> HIDE DEF T
  <2>2. m < n
    BY <1>3, <2>1
  <2>3. <<m, n>> \in OpToRel(<, Nat)
    BY <2>1, <2>2 DEF OpToRel
  <2> QED BY <1>2, <2>3, Zenon
<1>4. PICK x \in S : n = f[x]
  OBVIOUS
<1>5. QED
  BY <1>3, <1>4

LEMMA StepsKeyType == \A n \in 0 .. LowByte * LowByte - 1 : StepsKey(n) \in Nat
<1> SUFFICES ASSUME NEW n \in 0 .. LowByte * LowByte - 1 PROVE StepsKey(n) \in Nat
  OBVIOUS
<1>1. LowByte \in Nat /\ LowByte > 0 /\ n \in Nat
  BY BoundsAssumption
<1>2. n % LowByte \in Nat /\ n \div LowByte \in Nat
  BY <1>1, SMT
<1>3. QED
  BY <1>1, <1>2 DEF StepsKey

\* compare_priority_vectors finds a best vector among any vectors.
LEMMA BestVector ==
    ASSUME NEW S, S \subseteq Vectors, S # {}
    PROVE  \E v \in S : \A w \in S : ~Superior(w, v)
<1>1. \A v \in Vectors : /\ v.root \in Nat /\ StepsKey(v.steps) \in Nat
                         /\ v.src \in Nat /\ v.port \in Nat
  <2> TAKE v \in Vectors
  <2>1. /\ v.root \in Bridges /\ v.src \in Bridges /\ v.port \in 0 .. 4
        /\ v.steps \in 0 .. LowByte * LowByte - 1
    BY DEF Vectors
  <2>2. StepsKey(v.steps) \in Nat
    BY <2>1, StepsKeyType
  <2>3. \A c \in Bridges : c \in Nat
    BY BridgesAssumption
  <2> QED BY <2>1, <2>2, <2>3
<1>2. PICK v1 \in S : \A w \in S : v1.root <= w.root
  <2> DEFINE f == [v \in S |-> v.root]
  <2>1. f \in [S -> Nat]
    BY <1>1
  <2>2. \E x \in S : \A y \in S : f[x] <= f[y]
    <3> HIDE DEF f
    <3> QED BY <2>1, Least
  <2> QED BY <2>2
<1> DEFINE S1 == {v \in S : v.root = v1.root}
<1>3. PICK v2 \in S1 : \A w \in S1 : StepsKey(v2.steps) <= StepsKey(w.steps)
  <2> DEFINE f == [v \in S1 |-> StepsKey(v.steps)]
  <2>1. f \in [S1 -> Nat] /\ S1 # {}
    BY <1>1
  <2>2. \E x \in S1 : \A y \in S1 : f[x] <= f[y]
    <3> HIDE DEF f, S1
    <3> QED BY <2>1, Least
  <2> QED BY <2>2
<1> DEFINE S2 == {v \in S1 : v.steps = v2.steps}
<1>4. PICK v3 \in S2 : \A w \in S2 : v3.src <= w.src
  <2> DEFINE f == [v \in S2 |-> v.src]
  <2>1. f \in [S2 -> Nat] /\ S2 # {}
    BY <1>1
  <2>2. \E x \in S2 : \A y \in S2 : f[x] <= f[y]
    <3> HIDE DEF f, S2
    <3> QED BY <2>1, Least
  <2> QED BY <2>2
<1> DEFINE S3 == {v \in S2 : v.src = v3.src}
<1>5. PICK v4 \in S3 : \A w \in S3 : v4.port <= w.port
  <2> DEFINE f == [v \in S3 |-> v.port]
  <2>1. f \in [S3 -> Nat] /\ S3 # {}
    BY <1>1
  <2>2. \E x \in S3 : \A y \in S3 : f[x] <= f[y]
    <3> HIDE DEF f, S3
    <3> QED BY <2>1, Least
  <2> QED BY <2>2
<1>6. /\ v4 \in S /\ v4.root = v1.root /\ v4.steps = v2.steps /\ v4.src = v3.src
  OBVIOUS
<1>7. ASSUME NEW w \in S, Superior(w, v4) PROVE FALSE
  <2>1. w \in Vectors /\ v4 \in Vectors
    BY <1>6
  <2>2. w.root \in Nat /\ v4.root \in Nat /\ v1.root <= w.root
    BY <1>1, <1>2, <2>1
  <2>3. w.root = v4.root
    BY <1>6, <1>7, <2>2 DEF Superior
  <2>4. w \in S1
    BY <1>6, <2>3
  <2>5. StepsKey(v4.steps) <= StepsKey(w.steps) /\ StepsKey(v4.steps) \in Nat /\ StepsKey(w.steps) \in Nat
    BY <1>1, <1>3, <1>6, <2>1, <2>4
  <2>6. w.steps = v4.steps
    BY <1>7, <2>2, <2>3, <2>5 DEF Superior
  <2>7. w \in S2
    BY <1>6, <2>4, <2>6
  <2>8. v4.src <= w.src /\ v4.src \in Nat /\ w.src \in Nat
    BY <1>1, <1>4, <1>6, <2>1, <2>7
  <2>9. w.src = v4.src
    BY <1>7, <2>2, <2>3, <2>5, <2>6, <2>8 DEF Superior
  <2>10. w \in S3
    BY <1>6, <2>7, <2>9
  <2>11. v4.port <= w.port /\ v4.port \in Nat /\ w.port \in Nat
    BY <1>1, <1>5, <2>1, <2>10
  <2> QED BY <1>7, <2>2, <2>3, <2>5, <2>6, <2>8, <2>9, <2>11 DEF Superior
<1>8. QED
  BY <1>6, <1>7

-----------------------------------------------------------------------------
(* One bridge                                                              *)

Announces == [prio : Vectors, path : Seq(Bridges)]

BridgeStates(b) ==
    [id : {b}, gm : Vectors, path : Seq(Bridges), sync : Times \cup {Never},
     port : [PortNumbers(b) -> PortStates], out : [PortNumbers(b) -> {NoAnnounce} \cup Announces]]

\* OwnInformationIsCurrent of one bridge, at any point of its main loop.
OwnIsCurrent(s) ==
    \A i \in DOMAIN s.port :
        s.port[i].info = "MINE" /\ s.port[i].selected /\ ~s.port[i].updt
          => s.port[i].prio = MasterPriority(s, i)

Sound(s, b) == s \in BridgeStates(b) /\ OwnIsCurrent(s)

LEMMA MasterPriorityType ==
    ASSUME NEW b \in Bridges, NEW s \in BridgeStates(b), NEW i \in PortNumbers(b)
    PROVE  MasterPriority(s, i) \in Vectors
<1>1. s.gm \in Vectors /\ s.id = b /\ i \in 0 .. 4
  BY DEF BridgeStates, PortNumbers
<1>2. QED
  BY <1>1 DEF MasterPriority, Vectors

\* A port, and the sync receipt timeout, change; what is the bridge's own stays.
LEMMA PortChanges ==
    ASSUME NEW b \in Bridges, NEW s, Sound(s, b), NEW i \in PortNumbers(b),
           NEW q \in PortStates, NEW x \in Times \cup {Never},
           q.info = "MINE" /\ q.selected /\ ~q.updt => q.prio = MasterPriority(s, i)
    PROVE  /\ Sound([s EXCEPT !.port[i] = q], b)
           /\ Sound([s EXCEPT !.sync = x, !.port[i] = q], b)
<1> DEFINE u == [s EXCEPT !.port[i] = q]
           v == [s EXCEPT !.sync = x, !.port[i] = q]
<1>1. s \in BridgeStates(b) /\ DOMAIN s.port = PortNumbers(b)
  BY DEF Sound, BridgeStates
<1>2. /\ u \in BridgeStates(b) /\ u.id = s.id /\ u.gm = s.gm
      /\ u.port = [s.port EXCEPT ![i] = q]
  BY <1>1 DEF BridgeStates
<1>3. /\ v \in BridgeStates(b) /\ v.id = s.id /\ v.gm = s.gm
      /\ v.port = [s.port EXCEPT ![i] = q]
  BY <1>1 DEF BridgeStates
<1>4. ASSUME NEW t, t.id = s.id, t.gm = s.gm, t.port = [s.port EXCEPT ![i] = q]
      PROVE  OwnIsCurrent(t)
  <2>1. DOMAIN t.port = PortNumbers(b)
    BY <1>1, <1>4
  <2>2. \A j \in PortNumbers(b) : MasterPriority(t, j) = MasterPriority(s, j)
    BY <1>4 DEF MasterPriority
  <2>3. ASSUME NEW j \in PortNumbers(b),
               t.port[j].info = "MINE", t.port[j].selected, ~t.port[j].updt
        PROVE  t.port[j].prio = MasterPriority(t, j)
    <3>1. CASE j = i
      BY <1>1, <1>4, <2>2, <2>3, <3>1
    <3>2. CASE j # i
      <4>1. t.port[j] = s.port[j]
        BY <1>1, <1>4, <3>2
      <4> QED BY <1>1, <2>2, <2>3, <4>1 DEF Sound, OwnIsCurrent
    <3>3. QED
      BY <3>1, <3>2
  <2> QED BY <2>1, <2>3, Zenon DEF OwnIsCurrent
<1> HIDE DEF u, v
<1>5. Sound(u, b) /\ Sound(v, b)
  BY <1>2, <1>3, <1>4 DEF Sound
<1>6. QED
  BY <1>5 DEF u, v

LEMMA PortOf ==
    ASSUME NEW b \in Bridges, NEW s, Sound(s, b), NEW i \in PortNumbers(b)
    PROVE  /\ s.port[i] \in PortStates
           /\ DOMAIN s.port = PortNumbers(b)
           /\ MasterPriority(s, i) \in Vectors
  BY MasterPriorityType DEF Sound, BridgeStates

\* The fields of a port.
LEMMA PortFields ==
    ASSUME NEW p \in PortStates
    PROVE  /\ p.prio \in Vectors /\ p.annPath \in Seq(Bridges)
           /\ p.rcvd \in {NoAnnounce} \cup Announces
           /\ p.age \in 0 .. AnnounceTimeout
           /\ p.info \in {"AGED", "MINE", "RECEIVED"}
           /\ p.selected \in BOOLEAN /\ p.updt \in BOOLEAN /\ p.reselect \in BOOLEAN
  BY DEF PortStates, Announces

LEMMA AgedIsSound ==
    ASSUME NEW b \in Bridges, NEW s, Sound(s, b), NEW i \in PortNumbers(b)
    PROVE  Sound(Aged(s, i), b)
<1> DEFINE p == s.port[i]
           q == [p EXCEPT !.state = "AGED", !.info = "AGED", !.annPath = <<>>,
                          !.reselect = TRUE, !.selected = FALSE]
<1>1. q \in PortStates /\ q.info # "MINE"
  <2>1. <<>> \in Seq(Bridges)
    OBVIOUS
  <2>2. p \in PortStates
    BY PortOf
  <2> HIDE DEF p
  <2> QED BY <2>1, <2>2 DEF PortStates
<1>2. Aged(s, i) = [s EXCEPT !.port[i] = q]
  BY DEF Aged
<1> HIDE DEF q
<1>3. \E x : x \in Times \cup {Never}
  OBVIOUS
<1>4. Sound([s EXCEPT !.port[i] = q], b)
  BY <1>1, <1>3, PortChanges
<1>5. QED
  BY <1>2, <1>4

LEMMA UpdateIsSound ==
    ASSUME NEW b \in Bridges, NEW s, Sound(s, b), NEW i \in PortNumbers(b)
    PROVE  Sound(Update(s, i), b)
<1> DEFINE v == MasterPriority(s, i)
           p == s.port[i]
           q == [p EXCEPT !.state = "CURRENT", !.info = "MINE", !.updt = FALSE, !.prio = v]
<1>1. Update(s, i) = [s EXCEPT !.port[i] = q]
  BY DEF Update
<1>2. v \in Vectors
  BY PortOf
<1>3. q \in PortStates /\ q.prio = v
  <2>1. p \in PortStates
    BY PortOf
  <2> HIDE DEF v, p
  <2> QED BY <1>2, <2>1 DEF PortStates
<1>4. q.prio = MasterPriority(s, i)
  BY <1>3
<1> HIDE DEF q, v
<1>5. Sound([s EXCEPT !.port[i] = q], b)
  BY <1>3, <1>4, PortChanges
<1>6. QED
  BY <1>1, <1>5

LEMMA TimesMember == AnnounceTimeout \in Times \cup {Never} /\ AnnounceTimeout \in 0 .. AnnounceTimeout
  BY BoundsAssumption DEF Times

\* A port that changes its portPriority only as it takes information of a
\* neighbour, or keeps its own with the announce it was sent.
LEMMA ReceiveIsSound ==
    ASSUME NEW b \in Bridges, NEW s, Sound(s, b), NEW i \in PortNumbers(b),
           s.port[i].rcvd # NoAnnounce
    PROVE  Sound(Receive(s, i), b)
<1> DEFINE p == s.port[i]
           msg == p.rcvd
<1>1. p \in PortStates
  BY PortOf
<1>2. msg \in Announces /\ msg.prio \in Vectors /\ msg.path \in Seq(Bridges)
  BY <1>1, PortFields DEF Announces
<1>3. p.info = "MINE" /\ p.selected /\ ~p.updt => p.prio = MasterPriority(s, i)
  BY PortOf DEF Sound, OwnIsCurrent
<1>4. Sound(Repeated(s, i), b)
  <2> DEFINE q == [p EXCEPT !.rcvd = NoAnnounce, !.age = AnnounceTimeout, !.annPath = msg.path]
  <2>1. Repeated(s, i) = [s EXCEPT !.port[i] = q]
    BY DEF Repeated
  <2> HIDE DEF p, msg
  <2>2. /\ q \in PortStates /\ q.info = p.info /\ q.selected = p.selected
        /\ q.updt = p.updt /\ q.prio = p.prio
    BY <1>1, <1>2, TimesMember DEF PortStates
  <2> HIDE DEF q
  <2>3. Sound([s EXCEPT !.port[i] = q], b)
    BY <1>3, <2>2, TimesMember, PortChanges
  <2> QED BY <2>1, <2>3
<1>5. Sound(Inferior(s, i), b)
  <2> DEFINE q == [p EXCEPT !.rcvd = NoAnnounce]
  <2>1. Inferior(s, i) = [s EXCEPT !.port[i] = q]
    BY PortOf DEF Inferior, Sound, BridgeStates
  <2> HIDE DEF p, msg
  <2>2. /\ q \in PortStates /\ q.info = p.info /\ q.selected = p.selected
        /\ q.updt = p.updt /\ q.prio = p.prio
    BY <1>1 DEF PortStates
  <2> HIDE DEF q
  <2>3. Sound([s EXCEPT !.port[i] = q], b)
    BY <1>3, <2>2, TimesMember, PortChanges
  <2> QED BY <2>1, <2>3
<1>6. Sound(SuperiorMaster(s, i), b)
  <2> DEFINE q == [p EXCEPT !.prio = msg.prio, !.annPath = msg.path,
                            !.age = AnnounceTimeout, !.info = "RECEIVED",
                            !.reselect = TRUE, !.selected = FALSE, !.rcvd = NoAnnounce]
  <2>1. SuperiorMaster(s, i) = [s EXCEPT !.sync = AnnounceTimeout, !.port[i] = q]
    BY PortOf DEF SuperiorMaster, Sound, BridgeStates
  <2> HIDE DEF p, msg
  <2>2. q \in PortStates /\ q.info # "MINE"
    BY <1>1, <1>2, TimesMember DEF PortStates
  <2> HIDE DEF q
  <2>3. Sound([s EXCEPT !.sync = AnnounceTimeout, !.port[i] = q], b)
    BY <2>2, TimesMember, PortChanges
  <2> QED BY <2>1, <2>3
<1>7. QED
  BY <1>4, <1>5, <1>6 DEF Receive

LEMMA CurrentIsSound ==
    ASSUME NEW b \in Bridges, NEW s, Sound(s, b), NEW i \in PortNumbers(b)
    PROVE  Sound(Current(s, i), b)
<1>1. ASSUME NEW t, Sound(t, b)
      PROVE  Sound(IF ReceiptTimeout(t, i) THEN Aged(t, i) ELSE t, b)
  BY <1>1, AgedIsSound
<1>2. CASE s.port[i].rcvd # NoAnnounce /\ ~s.port[i].updt /\ ~ReceiptTimeout(s, i)
  <2> DEFINE t == Receive(s, i)
  <2>1. Sound(t, b)
    BY <1>2, ReceiveIsSound
  <2>2. Current(s, i) = The({IF ReceiptTimeout(u, i) THEN Aged(u, i) ELSE u : u \in {t}})
    BY <1>2 DEF Current
  <2> HIDE DEF t
  <2>3. Current(s, i) = IF ReceiptTimeout(t, i) THEN Aged(t, i) ELSE t
    <3>1. {IF ReceiptTimeout(u, i) THEN Aged(u, i) ELSE u : u \in {t}}
            = {IF ReceiptTimeout(t, i) THEN Aged(t, i) ELSE t}
      OBVIOUS
    <3> QED BY <2>2, <3>1, TheOf
  <2> QED BY <1>1, <2>1, <2>3
<1>3. CASE ~(s.port[i].rcvd # NoAnnounce /\ ~s.port[i].updt /\ ~ReceiptTimeout(s, i))
  BY <1>1, <1>3 DEF Current
<1>4. QED
  BY <1>2, <1>3

LEMMA PaiRunIsSound ==
    ASSUME NEW b \in Bridges, NEW s, Sound(s, b), NEW i \in PortNumbers(b)
    PROVE  Sound(PaiRun(s, i), b)
<1> DEFINE u == IF s.port[i].selected /\ s.port[i].updt THEN Update(s, i) ELSE s
<1>1. Sound(u, b)
  BY UpdateIsSound
<1>2. PaiRun(s, i) = The({IF x.port[i].state = "CURRENT" THEN Current(x, i) ELSE x : x \in {u}})
  BY DEF PaiRun
<1> HIDE DEF u
<1>3. {IF x.port[i].state = "CURRENT" THEN Current(x, i) ELSE x : x \in {u}}
        = {IF u.port[i].state = "CURRENT" THEN Current(u, i) ELSE u}
  OBVIOUS
<1>4. PaiRun(s, i) = IF u.port[i].state = "CURRENT" THEN Current(u, i) ELSE u
  BY <1>2, <1>3, TheOf
<1>5. QED
  BY <1>1, <1>4, CurrentIsSound

-----------------------------------------------------------------------------
(* Announces sent                                                          *)

\* PAT changes neither portPriority nor anything its currency depends on.
LEMMA PatRunIsSound ==
    ASSUME NEW b \in Bridges, NEW s, Sound(s, b), NEW i \in PortNumbers(b)
    PROVE  Sound(PatRun(s, i), b)
<1> DEFINE p == s.port[i]
           ready == p.selected /\ ~p.updt
           q == IF p.due /\ ready THEN [p EXCEPT !.newInfo = TRUE, !.due = FALSE] ELSE p
           sends == ready /\ q.newInfo /\ ~q.due /\ p.role = "MASTER"
           r == IF sends THEN [q EXCEPT !.newInfo = FALSE] ELSE q
           o == IF sends THEN Announce(s, i) ELSE NoAnnounce
<1>1. PatRun(s, i) = [s EXCEPT !.port[i] = r, !.out[i] = o]
  BY DEF PatRun
<1>2. p \in PortStates
  BY PortOf
<1>3. p.info = "MINE" /\ p.selected /\ ~p.updt => p.prio = MasterPriority(s, i)
  BY PortOf DEF Sound, OwnIsCurrent
<1>4. r \in PortStates /\ r.info = p.info /\ r.selected = p.selected
      /\ r.updt = p.updt /\ r.prio = p.prio
  <2> HIDE DEF p
  <2>1. q \in PortStates /\ q.info = p.info /\ q.selected = p.selected
        /\ q.updt = p.updt /\ q.prio = p.prio
    BY <1>2 DEF PortStates
  <2> HIDE DEF q, sends
  <2> QED BY <2>1 DEF PortStates
<1>5. o \in {NoAnnounce} \cup Announces
  <2>1. Announce(s, i) \in Announces
    BY PortOf DEF Announce, Announces, Sound, BridgeStates
  <2> HIDE DEF sends
  <2> QED BY <2>1
<1> HIDE DEF r, o
<1> DEFINE u == [s EXCEPT !.port[i] = r]
<1>6. Sound(u, b)
  <2> HIDE DEF p
  <2>1. Sound([s EXCEPT !.port[i] = r], b)
    BY <1>3, <1>4, TimesMember, PortChanges
  <2> QED BY <2>1
<1> DEFINE t == [u EXCEPT !.out[i] = o]
<1>7. PatRun(s, i) = t
  BY <1>1 DEF Sound, BridgeStates
<1> HIDE DEF u
<1>8. t \in BridgeStates(b) /\ t.port = u.port /\ t.gm = u.gm /\ t.id = u.id
  BY <1>5, <1>6 DEF Sound, BridgeStates
<1> HIDE DEF t
<1>9. OwnIsCurrent(t)
  BY <1>6, <1>8 DEF Sound, OwnIsCurrent, MasterPriority
<1>10. QED
  BY <1>7, <1>8, <1>9 DEF Sound

LEMMA PollIsSound ==
    ASSUME NEW b \in Bridges, NEW s, Sound(s, b), NEW i
    PROVE  Sound(Poll(s, i), b)
<1> DEFINE F(t) == IF i \in DOMAIN t.port THEN The({PatRun(u, i) : u \in {PaiRun(t, i)}}) ELSE t
<1>1. Poll(s, i) = F(s)
  <2>1. Poll(s, i) = The({F(t) : t \in {s}})
    BY DEF Poll
  <2>2. {F(t) : t \in {s}} = {F(s)}
    <3> HIDE DEF F
    <3> QED OBVIOUS
  <2> HIDE DEF F
  <2> QED BY <2>1, <2>2, TheOf
<1>2. ASSUME i \in DOMAIN s.port
      PROVE  Sound(F(s), b)
  <2>1. i \in PortNumbers(b)
    BY <1>2 DEF Sound, BridgeStates
  <2> DEFINE t == PaiRun(s, i)
  <2>2. Sound(t, b)
    BY <2>1, PaiRunIsSound
  <2>3. F(s) = The({PatRun(u, i) : u \in {t}})
    BY <1>2
  <2> HIDE DEF t, F
  <2>4. F(s) = PatRun(t, i)
    <3>1. {PatRun(u, i) : u \in {t}} = {PatRun(t, i)}
      OBVIOUS
    <3> QED BY <2>3, <3>1, TheOf
  <2> QED BY <2>1, <2>2, <2>4, PatRunIsSound
<1>3. QED
  BY <1>1, <1>2

-----------------------------------------------------------------------------
(* Port state selection                                                    *)

LEMMA Hops == \A n \in 0 .. LowByte * LowByte - 1 : (n + 1) % (LowByte * LowByte) \in 0 .. LowByte * LowByte - 1
<1> SUFFICES ASSUME NEW n \in 0 .. LowByte * LowByte - 1
             PROVE  (n + 1) % (LowByte * LowByte) \in 0 .. LowByte * LowByte - 1
  OBVIOUS
<1> DEFINE L == LowByte * LowByte
<1>1. L \in Nat /\ L > 0 /\ n \in Nat
  BY BoundsAssumption
<1> HIDE DEF L
<1>2. (n + 1) % L \in 0 .. L - 1
  BY <1>1
<1>3. QED
  BY <1>2 DEF L

LEMMA GmPriorityType ==
    ASSUME NEW b \in Bridges, NEW s, Sound(s, b)
    PROVE  GmPriority(s) \in Vectors
<1> DEFINE received == {GmPath(s.port[i]) : i \in {j \in DOMAIN s.port :
                          s.port[j].info # "AGED" /\ s.port[j].prio.src # s.id}}
           candidates == received \cup {SystemPriority(s.id)}
<1>1. GmPriority(s) = CHOOSE v \in candidates : \A w \in candidates : ~Superior(w, v)
  BY DEF GmPriority
<1>2. \A p \in PortStates : GmPath(p) \in Vectors
  <2> TAKE p \in PortStates
  <2>1. p.prio \in Vectors
    BY PortFields
  <2>2. [p.prio EXCEPT !.steps = (p.prio.steps + 1) % (LowByte * LowByte)] \in Vectors
    <3> DEFINE v == p.prio
               n == (v.steps + 1) % (LowByte * LowByte)
    <3>1. v \in Vectors /\ v.steps \in 0 .. LowByte * LowByte - 1
      BY <2>1 DEF Vectors
    <3>2. n \in 0 .. LowByte * LowByte - 1
      BY <3>1, Hops
    <3> HIDE DEF v, n
    <3>3. [v EXCEPT !.steps = n] \in Vectors
      BY <3>1, <3>2 DEF Vectors
    <3> QED BY <3>3 DEF v, n
  <2> QED BY <2>2 DEF GmPath
<1>3. SystemPriority(s.id) \in Vectors
  <2>1. s.id = b
    BY DEF Sound, BridgeStates
  <2>2. 0 \in 0 .. LowByte * LowByte - 1
    BY BoundsAssumption
  <2> QED BY <2>1, <2>2 DEF SystemPriority, Vectors
<1>4. received \subseteq Vectors
  BY <1>2, PortOf DEF Sound, BridgeStates
<1>5. candidates \subseteq Vectors /\ candidates # {}
  <2> HIDE DEF received
  <2> QED BY <1>3, <1>4
<1> HIDE DEF candidates
<1>6. PICK v \in candidates : \A w \in candidates : ~Superior(w, v)
  BY <1>5, BestVector
<1>7. GmPriority(s) \in candidates
  BY <1>1, <1>6
<1>8. QED
  BY <1>5, <1>7

\* After the new gmPriority is known, a port with own information that asks for
\* no update has the new masterPriority, whether it asked before or not.
LEMMA PortStateUpdateType ==
    ASSUME NEW b \in Bridges, NEW g \in BridgeStates(b), NEW i \in PortNumbers(b)
    PROVE  LET p == PortStateUpdate(g, i)
           IN /\ p \in PortStates
              /\ p.info = "MINE" /\ ~p.updt => p.prio = MasterPriority(g, i)
<1> DEFINE p == g.port[i]
           v == MasterPriority(g, i)
<1>1. p \in PortStates
  BY DEF BridgeStates
<1>2. p.info \in {"AGED", "MINE", "RECEIVED"}
  BY <1>1, PortFields
<1>3. CASE p.info = "AGED"
  <2>1. PortStateUpdate(g, i) = [p EXCEPT !.role = "MASTER", !.updt = TRUE]
    BY <1>3 DEF PortStateUpdate
  <2> HIDE DEF p, v
  <2> QED BY <1>1, <1>3, <2>1 DEF PortStates
<1>4. CASE p.info = "MINE"
  <2> DEFINE x == p.updt \/ v # p.prio
  <2>1. PortStateUpdate(g, i) = [p EXCEPT !.role = "MASTER", !.updt = x]
    BY <1>4 DEF PortStateUpdate
  <2>2. x \in BOOLEAN /\ (~x => p.prio = v)
    <3> HIDE DEF p, v
    <3> QED OBVIOUS
  <2> HIDE DEF p, x
  <2>3. /\ [p EXCEPT !.role = "MASTER", !.updt = x] \in PortStates
        /\ [p EXCEPT !.role = "MASTER", !.updt = x].updt = x
        /\ [p EXCEPT !.role = "MASTER", !.updt = x].prio = p.prio
    BY <1>1, <2>2 DEF PortStates
  <2> QED BY <2>1, <2>2, <2>3
<1>5. CASE p.info = "RECEIVED"
  <2>1. \/ PortStateUpdate(g, i) = [p EXCEPT !.role = "SLAVE", !.updt = FALSE]
        \/ PortStateUpdate(g, i) = [p EXCEPT !.role = "MASTER", !.updt = TRUE]
        \/ PortStateUpdate(g, i) = [p EXCEPT !.role = "PASSIVE", !.updt = FALSE]
    BY <1>5, Zenon DEF PortStateUpdate
  <2> HIDE DEF p, v
  <2>2. ASSUME NEW role \in {"MASTER", "SLAVE", "PASSIVE"}, NEW x \in BOOLEAN
        PROVE  /\ [p EXCEPT !.role = role, !.updt = x] \in PortStates
               /\ [p EXCEPT !.role = role, !.updt = x].info = p.info
    BY <1>1 DEF PortStates
  <2>3. PortStateUpdate(g, i) \in PortStates /\ PortStateUpdate(g, i).info = p.info
    BY <2>1, <2>2
  <2> QED BY <1>5, <2>3
<1>6. QED
  BY <1>2, <1>3, <1>4, <1>5

LEMMA PathTraceType ==
    ASSUME NEW b \in Bridges, NEW g \in BridgeStates(b), NEW ports
    PROVE  PathTrace(g, ports) \in Seq(Bridges)
<1> DEFINE new == {i \in DOMAIN g.port : ports[i].role = "SLAVE" /\ g.port[i].role # "SLAVE"}
           received == g.port[CHOOSE i \in new : TRUE].annPath
<1>1. g.id \in Bridges /\ g.path \in Seq(Bridges)
  BY DEF BridgeStates
<1>2. new # {} => received \in Seq(Bridges)
  <2> SUFFICES ASSUME new # {} PROVE received \in Seq(Bridges)
    OBVIOUS
  <2> DEFINE j == CHOOSE i \in new : TRUE
  <2>1. j \in new
    <3> HIDE DEF new
    <3> QED OBVIOUS
  <2>2. j \in DOMAIN g.port
    BY <2>1
  <2> HIDE DEF j, new
  <2>3. g.port[j] \in PortStates
    BY <2>2 DEF BridgeStates
  <2>4. g.port[j].annPath \in Seq(Bridges)
    BY <2>3, PortFields
  <2> QED BY <2>4 DEF j
<1>3. PathTrace(g, ports) =
         IF g.gm.root = g.id THEN <<g.id>>
         ELSE IF new = {} THEN g.path
         ELSE IF Len(received) < MAX_PATH_TRACE_N THEN Append(received, g.id) ELSE <<>>
  BY DEF PathTrace
<1> HIDE DEF new, received
<1>4. QED
  BY <1>1, <1>2, <1>3

LEMMA SelectIsSound ==
    ASSUME NEW b \in Bridges, NEW s, Sound(s, b)
    PROVE  Sound(Select(s), b)
<1>1. CASE \A i \in DOMAIN s.port : ~s.port[i].reselect
  BY <1>1 DEF Select
<1>2. CASE ~(\A i \in DOMAIN s.port : ~s.port[i].reselect)
  <2> DEFINE Assign(g, ports) ==
                 [g EXCEPT !.path = PathTrace(g, ports),
                           !.port = [i \in DOMAIN ports |->
                                       [ports[i] EXCEPT !.reselect = FALSE, !.selected = TRUE]]]
             Whole(g) == Assign(g, [i \in DOMAIN s.port |-> PortStateUpdate(g, i)])
             gm0 == GmPriority(s)
             h == [s EXCEPT !.gm = gm0]
  <2>1. Select(s) = The({Whole(g) : g \in {[s EXCEPT !.gm = gm] : gm \in {gm0}}})
    BY <1>2 DEF Select
  <2>2. Select(s) = Whole(h)
    <3> HIDE DEF gm0, Whole
    <3>1. {[s EXCEPT !.gm = gm] : gm \in {gm0}} = {h}
      OBVIOUS
    <3> HIDE DEF h
    <3>2. {Whole(g) : g \in {h}} = {Whole(h)}
      OBVIOUS
    <3> QED BY <2>1, <3>1, <3>2, TheOf
  <2>3. h \in BridgeStates(b) /\ DOMAIN s.port = PortNumbers(b)
    <3>1. gm0 \in Vectors
      BY GmPriorityType
    <3> HIDE DEF gm0
    <3> QED BY <3>1 DEF Sound, BridgeStates
  <2> HIDE DEF h
  <2> DEFINE ports == [i \in PortNumbers(b) |-> PortStateUpdate(h, i)]
             last == [i \in PortNumbers(b) |-> [ports[i] EXCEPT !.reselect = FALSE, !.selected = TRUE]]
             path == PathTrace(h, ports)
             t == [h EXCEPT !.path = path, !.port = last]
  <2>4. Select(s) = t
    BY <2>2, <2>3
  <2>5. \A i \in PortNumbers(b) :
           /\ last[i] \in PortStates
           /\ last[i].info = "MINE" /\ ~last[i].updt => last[i].prio = MasterPriority(h, i)
    <3> TAKE i \in PortNumbers(b)
    <3> DEFINE p == PortStateUpdate(h, i)
    <3>1. /\ p \in PortStates
          /\ p.info = "MINE" /\ ~p.updt => p.prio = MasterPriority(h, i)
      BY <2>3, PortStateUpdateType
    <3>2. last[i] = [p EXCEPT !.reselect = FALSE, !.selected = TRUE]
      OBVIOUS
    <3> HIDE DEF p, last
    <3>3. /\ last[i] \in PortStates /\ last[i].info = p.info /\ last[i].updt = p.updt
          /\ last[i].prio = p.prio
      BY <3>1, <3>2 DEF PortStates
    <3> QED BY <3>1, <3>3
  <2>6. path \in Seq(Bridges)
    BY <2>3, PathTraceType
  <2> HIDE DEF path
  <2>7. last \in [PortNumbers(b) -> PortStates] /\ DOMAIN last = PortNumbers(b)
    BY <2>5
  <2> HIDE DEF last, ports
  <2>8. t \in BridgeStates(b) /\ t.port = last /\ t.gm = h.gm /\ t.id = h.id
    BY <2>3, <2>6, <2>7 DEF BridgeStates
  <2> HIDE DEF t
  <2>9. \A i \in PortNumbers(b) : MasterPriority(t, i) = MasterPriority(h, i)
    BY <2>8 DEF MasterPriority
  <2>10. OwnIsCurrent(t)
    <3>1. ASSUME NEW i \in DOMAIN t.port, t.port[i].info = "MINE", ~t.port[i].updt
          PROVE  t.port[i].prio = MasterPriority(t, i)
      <4>1. i \in PortNumbers(b) /\ t.port[i] = last[i]
        BY <2>7, <2>8, <3>1
      <4> QED BY <2>5, <2>9, <3>1, <4>1
    <3> QED BY <3>1, Zenon DEF OwnIsCurrent
  <2> QED BY <2>4, <2>8, <2>10 DEF Sound
<1>3. QED
  BY <1>1, <1>2

-----------------------------------------------------------------------------
(* One iteration of the main loop                                          *)

\* The port an iteration takes a frame from, if any.
Readable(b, r) == r = 0 \/ (r \in PortNumbers(b) /\ wire[<<b, r>>] # <<>>)

LEMMA IterationIsSound ==
    ASSUME NEW b \in Bridges, NEW s, Sound(s, b), NEW r, Readable(b, r),
           \A p \in Ports : wire[p] \in Seq(Announces)
    PROVE  Sound(Iteration(s, r), b)
<1> DEFINE Received(t) == IF r = 0 THEN t
                       ELSE PaiRun([t EXCEPT !.port[r].rcvd = Head(wire[<<s.id, r>>])], r)
           polled == Poll(Poll(Poll(Poll(s, 1), 2), 3), 4)
<1>1. Iteration(s, r) = The({Select(t) : t \in {Received(u) : u \in {polled}}})
  BY DEF Iteration
<1>2. Sound(polled, b)
  <2>1. Sound(Poll(s, 1), b)
    BY PollIsSound
  <2> DEFINE s1 == Poll(s, 1)
             s2 == Poll(s1, 2)
             s3 == Poll(s2, 3)
             s4 == Poll(s3, 4)
  <2>2. Sound(s2, b)
    <3> HIDE DEF s1
    <3> QED BY <2>1, PollIsSound DEF s1
  <2>3. Sound(s3, b)
    <3> HIDE DEF s2
    <3> QED BY <2>2, PollIsSound
  <2>4. Sound(s4, b)
    <3> HIDE DEF s3
    <3> QED BY <2>3, PollIsSound
  <2> QED BY <2>4
<1>3. Iteration(s, r) = Select(Received(polled))
  <2> HIDE DEF polled, Received
  <2>1. {Received(u) : u \in {polled}} = {Received(polled)}
    OBVIOUS
  <2>2. {Select(t) : t \in {Received(polled)}} = {Select(Received(polled))}
    OBVIOUS
  <2> QED BY <1>1, <2>1, <2>2, TheOf
<1> HIDE DEF polled
<1>4. Sound(Received(polled), b)
  <2>1. CASE r = 0
    BY <1>2, <2>1
  <2>2. CASE r # 0
    <3> DEFINE msg == Head(wire[<<s.id, r>>])
               p == polled.port[r]
               q == [p EXCEPT !.rcvd = msg]
    <3>1. r \in PortNumbers(b) /\ s.id = b /\ <<b, r>> \in Ports /\ wire[<<b, r>>] # <<>>
      BY <2>2 DEF Readable, Sound, BridgeStates, PortNumbers
    <3>2. msg \in Announces
      <4> DEFINE w == wire[<<b, r>>]
      <4>1. w \in Seq(Announces) /\ w # <<>>
        BY <3>1
      <4> HIDE DEF w
      <4>2. Head(w) \in Announces
        BY <4>1
      <4> QED BY <3>1, <4>2 DEF w
    <3>3. Received(polled) = PaiRun([polled EXCEPT !.port[r] = q], r)
      BY <1>2, <2>2 DEF Sound, BridgeStates
    <3>4. p \in PortStates
      BY <1>2, <3>1, PortOf
    <3>5. p.info = "MINE" /\ p.selected /\ ~p.updt => p.prio = MasterPriority(polled, r)
      BY <1>2, <3>1, PortOf DEF Sound, OwnIsCurrent
    <3> HIDE DEF p, msg
    <3>6. /\ q \in PortStates /\ q.info = p.info /\ q.selected = p.selected
          /\ q.updt = p.updt /\ q.prio = p.prio
      BY <3>2, <3>4 DEF PortStates, Announces
    <3> HIDE DEF q, Received
    <3>7. Sound([polled EXCEPT !.port[r] = q], b)
      BY <1>2, <3>1, <3>5, <3>6, TimesMember, PortChanges
    <3> QED BY <3>1, <3>3, <3>7, PaiRunIsSound
  <2> QED BY <2>1, <2>2
<1>5. QED
  <2> HIDE DEF Received
  <2> QED BY <1>3, <1>4, SelectIsSound

LEMMA IdleIsSound ==
    ASSUME NEW b \in Bridges, NEW s, Sound(s, b)
    PROVE  Sound(Idle(s), b)
<1>1. /\ Idle(s) \in BridgeStates(b) /\ Idle(s).port = s.port
      /\ Idle(s).gm = s.gm /\ Idle(s).id = s.id
  BY DEF Idle, Sound, BridgeStates
<1>2. OwnIsCurrent(Idle(s))
  BY <1>1 DEF Sound, OwnIsCurrent, MasterPriority
<1>3. QED
  BY <1>1, <1>2 DEF Sound

LEMMA StartIsSound ==
    ASSUME NEW b \in Bridges, NEW s \in StartStates(b)
    PROVE  Sound(s, b)
<1>1. SystemPriority(b) \in Vectors
  <2>1. 0 \in 0 .. LowByte * LowByte - 1
    BY BoundsAssumption
  <2> QED BY <2>1 DEF SystemPriority, Vectors
<1>2. <<>> \in Seq(Bridges) /\ <<b>> \in Seq(Bridges) /\ 0 \in 0 .. AnnounceTimeout
  BY BoundsAssumption
<1> DEFINE v == SystemPriority(b)
           p == [state |-> "AGED", info |-> "AGED", role |-> "MASTER", prio |-> v,
                 age |-> 0, rcvd |-> NoAnnounce, annPath |-> <<>>, selected |-> TRUE,
                 reselect |-> FALSE, updt |-> TRUE, newInfo |-> TRUE, due |-> TRUE]
<1>3. PICK t \in InitialSync :
         s = [id |-> b, gm |-> v, path |-> <<b>>, sync |-> t,
              port |-> [i \in PortNumbers(b) |-> p],
              out |-> [i \in PortNumbers(b) |-> NoAnnounce]]
  BY DEF StartStates
<1> HIDE DEF v
<1>4. p \in PortStates /\ p.info = "AGED"
  BY <1>1, <1>2 DEF PortStates, v
<1> HIDE DEF p
<1>5. s \in BridgeStates(b)
  BY <1>1, <1>2, <1>3, <1>4, InitialSyncAssumption DEF BridgeStates, v
<1>6. OwnIsCurrent(s)
  BY <1>3, <1>4 DEF OwnIsCurrent
<1>7. QED
  BY <1>5, <1>6 DEF Sound

-----------------------------------------------------------------------------
(* The bridges and the links                                               *)

\* Every bridge, and what is on every link, at any time.
BridgesSound ==
    /\ bridge \in [Bridges -> UNION {BridgeStates(b) : b \in Bridges}]
    /\ \A b \in Bridges : Sound(bridge[b], b)
LinksSound == wire \in [Ports -> Seq(Announces)]
CountsSound ==
    /\ alive \subseteq Bridges
    /\ failures \in 0 .. MaxFailures /\ restarts \in 0 .. MaxRestarts /\ losses \in 0 .. MaxLosses
BmcaInv == BridgesSound /\ LinksSound /\ CountsSound

LEMMA BmcaInvAtStart == BmcaInit => BmcaInv
<1> SUFFICES ASSUME BmcaInit PROVE BmcaInv
  OBVIOUS
<1>1. \A b \in Bridges : bridge[b] \in StartStates(b)
  <2> TAKE b \in Bridges
  <2>1. PICK c \in Bridges : bridge[b] \in StartStates(c)
    BY DEF BmcaInit
  <2>2. bridge[b].id = b /\ bridge[b].id = c
    BY <2>1 DEF BmcaInit, StartStates
  <2> QED BY <2>1, <2>2
<1>2. \A b \in Bridges : Sound(bridge[b], b)
  BY <1>1, StartIsSound
<1>3. DOMAIN bridge = Bridges /\ bridge = [b \in Bridges |-> bridge[b]]
  BY DEF BmcaInit
<1>4. BridgesSound
  BY <1>2, <1>3 DEF BridgesSound, Sound
<1>5. LinksSound
  <2>1. <<>> \in Seq(Announces)
    OBVIOUS
  <2> QED BY <2>1 DEF BmcaInit, LinksSound
<1>6. CountsSound
  BY BoundsAssumption DEF BmcaInit, CountsSound
<1>7. QED
  BY <1>4, <1>5, <1>6 DEF BmcaInv

\* One bridge changes.
LEMMA OneBridge ==
    ASSUME BridgesSound, NEW b \in Bridges, NEW s, Sound(s, b), bridge' = [bridge EXCEPT ![b] = s]
    PROVE  BridgesSound'
<1>1. \A c \in Bridges : bridge'[c] = IF c = b THEN s ELSE bridge[c]
  BY DEF BridgesSound
<1>2. \A c \in Bridges : Sound(bridge'[c], c)
  BY <1>1 DEF BridgesSound
<1>3. bridge' \in [Bridges -> UNION {BridgeStates(c) : c \in Bridges}]
  BY <1>1, <1>2 DEF BridgesSound, Sound
<1>4. QED
  BY <1>2, <1>3 DEF BridgesSound

LEMMA LinksRead ==
    ASSUME LinksSound
    PROVE  \A p \in Ports : wire[p] \in Seq(Announces) /\ (wire[p] # <<>> => Tail(wire[p]) \in Seq(Announces))
<1> TAKE p \in Ports
<1> DEFINE w == wire[p]
<1>1. w \in Seq(Announces)
  BY DEF LinksSound
<1> HIDE DEF w
<1>2. w # <<>> => Tail(w) \in Seq(Announces)
  BY <1>1
<1>3. QED
  BY <1>1, <1>2 DEF w

LEMMA IterateIsSound ==
    ASSUME BmcaInv, NEW b \in Bridges, Iterate(b)
    PROVE  BmcaInv'
<1>1. PICK r \in {0} \cup {i \in PortNumbers(b) : wire[<<b, i>>] # <<>>} :
        \E s \in {Iteration(bridge[b], r)} :
          /\ bridge' = [bridge EXCEPT ![b] = Idle(s)]
          /\ wire' = [p \in Ports |->
                IF p = <<b, r>> THEN Tail(wire[p])
                ELSE IF Owner(Peer[p]) = b /\ Owner(p) \in alive /\ s.out[Peer[p][2]] # NoAnnounce
                THEN Append(wire[p], s.out[Peer[p][2]])
                ELSE wire[p]]
  BY Zenon DEF Iterate
<1> DEFINE s == Iteration(bridge[b], r)
<1>2. Sound(s, b)
  <2>1. Readable(b, r)
    BY <1>1 DEF Readable
  <2>2. Sound(bridge[b], b) /\ \A p \in Ports : wire[p] \in Seq(Announces)
    BY LinksRead DEF BmcaInv, BridgesSound
  <2> QED BY <2>1, <2>2, IterationIsSound
<1>3. /\ bridge' = [bridge EXCEPT ![b] = Idle(s)]
      /\ wire' = [p \in Ports |->
            IF p = <<b, r>> THEN Tail(wire[p])
            ELSE IF Owner(Peer[p]) = b /\ Owner(p) \in alive /\ s.out[Peer[p][2]] # NoAnnounce
            THEN Append(wire[p], s.out[Peer[p][2]])
            ELSE wire[p]]
  BY <1>1
<1> HIDE DEF s
<1>4. BridgesSound'
  BY <1>2, <1>3, IdleIsSound, OneBridge DEF BmcaInv
<1>5. LinksSound'
  <2>1. ASSUME NEW p \in Ports
        PROVE  wire'[p] \in Seq(Announces)
    <3> DEFINE w == wire[p]
               o == s.out[Peer[p][2]]
    <3>1. w \in Seq(Announces) /\ (w # <<>> => Tail(w) \in Seq(Announces))
      BY LinksRead DEF BmcaInv
    <3>2. CASE p = <<b, r>>
      <4>1. wire'[p] = Tail(w)
        BY <1>3, <3>2
      <4>2. r # 0
        BY <3>2, LinksAssumption
      <4>3. w # <<>>
        BY <1>1, <3>2, <4>2
      <4> HIDE DEF w
      <4> QED BY <3>1, <4>1, <4>3
    <3>3. CASE p # <<b, r>> /\ Owner(Peer[p]) = b /\ Owner(p) \in alive /\ o # NoAnnounce
      <4>1. wire'[p] = Append(w, o)
        BY <1>3, <3>3
      <4>2. Peer[p][2] \in PortNumbers(b)
        <5>1. Peer[p] \in Ports /\ Peer[p][1] = b
          BY <3>3, LinksAssumption DEF Owner
        <5>2. Peer[p] = <<b, Peer[p][2]>> /\ Peer[p][2] \in 1 .. 4
          BY <5>1, LinksAssumption
        <5> QED BY <5>1, <5>2 DEF PortNumbers
      <4>3. o \in Announces
        BY <1>2, <3>3, <4>2 DEF Sound, BridgeStates
      <4> HIDE DEF w, o
      <4>4. Append(w, o) \in Seq(Announces)
        BY <3>1, <4>3
      <4> QED BY <4>1, <4>4
    <3>4. CASE p # <<b, r>> /\ ~(Owner(Peer[p]) = b /\ Owner(p) \in alive /\ o # NoAnnounce)
      <4>1. wire'[p] = w
        BY <1>3, <3>4
      <4> HIDE DEF w
      <4> QED BY <3>1, <4>1
    <3> HIDE DEF w, o
    <3> QED BY <3>2, <3>3, <3>4
  <2>2. wire' = [p \in Ports |-> wire'[p]]
    BY <1>3
  <2> QED BY <2>1, <2>2 DEF LinksSound
<1>6. CountsSound'
  BY DEF Iterate, BmcaInv, CountsSound
<1>7. QED
  BY <1>4, <1>5, <1>6 DEF BmcaInv

LEMMA StopIsSound ==
    ASSUME BmcaInv, NEW b \in Bridges, Stop(b)
    PROVE  BmcaInv'
<1>1. BridgesSound'
  BY DEF Stop, BmcaInv, BridgesSound
<1>2. LinksSound'
  <2>1. <<>> \in Seq(Announces)
    OBVIOUS
  <2> QED BY <2>1, LinksRead DEF Stop, BmcaInv, LinksSound
<1>3. CountsSound'
  BY BoundsAssumption DEF Stop, BmcaInv, CountsSound
<1>4. QED
  BY <1>1, <1>2, <1>3 DEF BmcaInv

LEMMA RestartIsSound ==
    ASSUME BmcaInv, NEW b \in Bridges, Restart(b)
    PROVE  BmcaInv'
<1>1. PICK s \in StartStates(b) : bridge' = [bridge EXCEPT ![b] = s]
  BY DEF Restart
<1>2. BridgesSound'
  BY <1>1, StartIsSound, OneBridge DEF BmcaInv
<1>3. LinksSound'
  BY DEF Restart, BmcaInv, LinksSound
<1>4. CountsSound'
  BY BoundsAssumption DEF Restart, BmcaInv, CountsSound
<1>5. QED
  BY <1>2, <1>3, <1>4 DEF BmcaInv

LEMMA LossIsSound ==
    ASSUME BmcaInv, NEW p \in Ports, LoseAnnounce(p)
    PROVE  BmcaInv'
<1>1. BridgesSound'
  BY DEF LoseAnnounce, BmcaInv, BridgesSound
<1>2. LinksSound'
  <2>1. Tail(wire[p]) \in Seq(Announces)
    BY LinksRead DEF LoseAnnounce, BmcaInv
  <2>2. wire' = [wire EXCEPT ![p] = Tail(wire[p])]
    BY DEF LoseAnnounce
  <2> HIDE DEF LoseAnnounce
  <2> QED BY <2>1, <2>2 DEF BmcaInv, LinksSound
<1>3. CountsSound'
  BY BoundsAssumption DEF LoseAnnounce, BmcaInv, CountsSound
<1>4. QED
  BY <1>1, <1>2, <1>3 DEF BmcaInv

\* The deadlines of a bridge a second later.
LEMMA SyncAfterType ==
    ASSUME NEW b \in Bridges, Sound(bridge[b], b)
    PROVE  SyncAfter(b) \subseteq Times \cup {Never}
<1> DEFINE t == bridge[b].sync
<1>1. t \in Times \cup {Never}
  BY DEF Sound, BridgeStates
<1>2. SyncAfter(b) \subseteq {SyncTimeout, Never, IF t > 0 THEN t - 1 ELSE t}
  BY DEF SyncAfter
<1> HIDE DEF t
<1>3. SyncTimeout \in Times /\ (IF t > 0 THEN t - 1 ELSE t) \in Times \cup {Never}
  BY <1>1, BoundsAssumption DEF Times, Never
<1>4. QED
  BY <1>2, <1>3

LEMMA SecondOlderType ==
    ASSUME NEW p \in PortStates
    PROVE  /\ SecondOlder(p) \in PortStates /\ SecondOlder(p).info = p.info
           /\ SecondOlder(p).selected = p.selected /\ SecondOlder(p).updt = p.updt
           /\ SecondOlder(p).prio = p.prio
<1> DEFINE a == IF p.age > 0 THEN p.age - 1 ELSE 0
<1>1. a \in 0 .. AnnounceTimeout
  BY PortFields, BoundsAssumption
<1>2. SecondOlder(p) = [p EXCEPT !.age = a, !.due = TRUE]
  BY DEF SecondOlder
<1> HIDE DEF a
<1>3. QED
  BY <1>1, <1>2 DEF PortStates

LEMMA TickIsSound ==
    ASSUME BmcaInv, Tick
    PROVE  BmcaInv'
<1>0. \A b \in Bridges : Sound(bridge[b], b)
  BY DEF BmcaInv, BridgesSound
<1>1. PICK sync :
        /\ \A b \in alive : sync[b] \in SyncAfter(b)
        /\ bridge' = [b \in Bridges |->
              IF b \in alive
              THEN [bridge[b] EXCEPT !.sync = sync[b],
                                     !.port = [i \in DOMAIN bridge[b].port |-> SecondOlder(bridge[b].port[i])]]
              ELSE bridge[b]]
  <2>1. PICK after \in {[b \in alive |-> SyncAfter(b)]} :
          \E sync \in [alive -> UNION {after[b] : b \in alive}] :
            /\ \A b \in alive : sync[b] \in after[b]
            /\ bridge' = [b \in Bridges |->
                  IF b \in alive
                  THEN [bridge[b] EXCEPT !.sync = sync[b],
                                         !.port = [i \in DOMAIN @ |-> SecondOlder(@[i])]]
                  ELSE bridge[b]]
    BY Zenon DEF Tick
  <2>2. PICK sync \in [alive -> UNION {after[b] : b \in alive}] :
            /\ \A b \in alive : sync[b] \in after[b]
            /\ bridge' = [b \in Bridges |->
                  IF b \in alive
                  THEN [bridge[b] EXCEPT !.sync = sync[b],
                                         !.port = [i \in DOMAIN @ |-> SecondOlder(@[i])]]
                  ELSE bridge[b]]
    BY <2>1
  <2>3. \A b \in alive : sync[b] \in SyncAfter(b)
    BY <2>1, <2>2
  <2>4. bridge' = [b \in Bridges |->
              IF b \in alive
              THEN [bridge[b] EXCEPT !.sync = sync[b],
                                     !.port = [i \in DOMAIN bridge[b].port |-> SecondOlder(bridge[b].port[i])]]
              ELSE bridge[b]]
    BY <1>0, <2>2 DEF Sound, BridgeStates
  <2> QED BY <2>3, <2>4
<1>2. ASSUME NEW b \in Bridges
      PROVE  Sound(bridge'[b], b)
  <2>1. Sound(bridge[b], b)
    BY DEF BmcaInv, BridgesSound
  <2>2. CASE b \in alive
    <3> DEFINE s == bridge[b]
               x == sync[b]
               ports == [i \in PortNumbers(b) |-> SecondOlder(s.port[i])]
               t == [s EXCEPT !.sync = x, !.port = ports]
    <3>1. x \in Times \cup {Never}
      BY <1>1, <2>1, <2>2, SyncAfterType
    <3>2. bridge'[b] = t
      BY <1>1, <2>1, <2>2 DEF Sound, BridgeStates
    <3> HIDE DEF s, x
    <3>3. Sound(s, b)
      BY <2>1 DEF s
    <3>4. \A i \in PortNumbers(b) :
             /\ ports[i] \in PortStates /\ ports[i].info = s.port[i].info
             /\ ports[i].selected = s.port[i].selected /\ ports[i].updt = s.port[i].updt
             /\ ports[i].prio = s.port[i].prio
      BY <3>3, PortOf, SecondOlderType
    <3>5. ports \in [PortNumbers(b) -> PortStates]
      BY <3>4
    <3> HIDE DEF ports
    <3>6. t \in BridgeStates(b) /\ t.port = ports /\ t.gm = s.gm /\ t.id = s.id
      BY <3>1, <3>3, <3>5 DEF Sound, BridgeStates
    <3>7. DOMAIN s.port = PortNumbers(b) /\ DOMAIN ports = PortNumbers(b)
      BY <3>3, <3>5 DEF Sound, BridgeStates
    <3> HIDE DEF t
    <3>8. OwnIsCurrent(t)
      <4>1. \A i \in PortNumbers(b) : MasterPriority(t, i) = MasterPriority(s, i)
        BY <3>6 DEF MasterPriority
      <4>2. ASSUME NEW i \in DOMAIN t.port,
                   t.port[i].info = "MINE", t.port[i].selected, ~t.port[i].updt
            PROVE  t.port[i].prio = MasterPriority(t, i)
        <5>1. i \in PortNumbers(b) /\ i \in DOMAIN s.port
          BY <3>6, <3>7
        <5>2. s.port[i].info = "MINE" /\ s.port[i].selected /\ ~s.port[i].updt
          BY <3>4, <3>6, <4>2, <5>1
        <5>3. s.port[i].prio = MasterPriority(s, i)
          BY <3>3, <5>1, <5>2 DEF Sound, OwnIsCurrent
        <5> QED BY <3>4, <3>6, <4>1, <5>1, <5>3
      <4> QED BY <4>2, Zenon DEF OwnIsCurrent
    <3> QED BY <3>2, <3>6, <3>8 DEF Sound
  <2>3. CASE b \notin alive
    BY <1>1, <2>1, <2>3
  <2> QED BY <2>2, <2>3
<1>3. BridgesSound'
  <2>1. bridge' = [b \in Bridges |-> bridge'[b]]
    BY <1>1
  <2>2. \A b \in Bridges : bridge'[b] \in BridgeStates(b)
    BY <1>2 DEF Sound
  <2> QED BY <1>2, <2>1, <2>2 DEF BridgesSound
<1>4. LinksSound' /\ CountsSound'
  BY DEF Tick, BmcaInv, LinksSound, CountsSound
<1>5. QED
  BY <1>3, <1>4 DEF BmcaInv

LEMMA BmcaInvInductive == BmcaInv /\ [BmcaNext]_bmcaVars => BmcaInv'
<1> SUFFICES ASSUME BmcaInv, [BmcaNext]_bmcaVars PROVE BmcaInv'
  OBVIOUS
<1>1. CASE \E b \in Bridges : Iterate(b) \/ Stop(b) \/ Restart(b)
  BY <1>1, IterateIsSound, StopIsSound, RestartIsSound
<1>2. CASE \E p \in Ports : LoseAnnounce(p)
  BY <1>2, LossIsSound
<1>3. CASE Tick
  BY <1>3, TickIsSound
<1>4. CASE UNCHANGED bmcaVars
  BY <1>4 DEF bmcaVars, BmcaInv, BridgesSound, LinksSound, CountsSound
<1>5. QED
  BY <1>1, <1>2, <1>3, <1>4 DEF BmcaNext

LEMMA BmcaInvHolds == BmcaSpec => []BmcaInv
  BY BmcaInvAtStart, BmcaInvInductive, PTL DEF BmcaSpec

LEMMA BmcaInvTypes == BmcaInv => BmcaTypeOK
<1> SUFFICES ASSUME BmcaInv PROVE BmcaTypeOK
  OBVIOUS
<1>1. \A b \in Bridges :
         /\ bridge[b].id = b /\ bridge[b].gm \in Vectors /\ bridge[b].path \in Seq(Bridges)
         /\ bridge[b].sync \in Times \cup {Never}
         /\ bridge[b].port \in [PortNumbers(b) -> PortStates]
  BY DEF BmcaInv, BridgesSound, Sound, BridgeStates
<1>2. \A p \in Ports : wire[p] \in Seq([prio : Vectors, path : Seq(Bridges)])
  BY DEF BmcaInv, LinksSound, Announces
<1>3. QED
  BY <1>1, <1>2 DEF BmcaInv, CountsSound, BmcaTypeOK

LEMMA BmcaInvCurrent == BmcaInv => OwnInformationIsCurrent
  BY DEF BmcaInv, BridgesSound, Sound, OwnIsCurrent, OwnInformationIsCurrent, BridgeStates

\* Every field keeps its type in networks of every size and shape: gmPriority
\* and the vectors received remain vectors of the bridges, path traces name
\* bridges, and no deadline runs past zero.
THEOREM BmcaTyping == BmcaSpec => []BmcaTypeOK
  BY BmcaInvHolds, BmcaInvTypes, PTL

\* The reselect/updtInfo handshake between PortStateSelection and
\* PortAnnounceInformation leaves no port with own information that is not the
\* current masterPriority, whatever bridges stop, start or lose.
THEOREM OwnInformationCurrent == BmcaSpec => []OwnInformationIsCurrent
  BY BmcaInvHolds, BmcaInvCurrent, PTL
===============================================================================
