-------------------------------- MODULE Pdelay --------------------------------
(***************************************************************************)
(* The peer delay mechanism of one link: MDPdelayReq at one end,           *)
(* MDPdelayResp at the other, the two directions of the link and the TSU   *)
(* transmit FIFOs of both ports.                                           *)
(*                                                                         *)
(*   Pdelay_Req k      t1 when sent, t2 when received                      *)
(*   Pdelay_Resp k     carries t2; t3 when sent, t4 when received          *)
(*   Resp_Follow_Up k  carries t3                                          *)
(*                                                                         *)
(* A timestamp is abstracted to the exchange it was taken in.  A handler   *)
(* and the run loop behind it are one step.  The transmit timestamp of a   *)
(* frame is polled from the TSU some time after the frame was sent: the    *)
(* answer of the other end may be handled first.  The two machines leave   *)
(* the state in which they wait for it only when it comes.                 *)
(***************************************************************************)
EXTENDS Integers, Sequences

CONSTANTS
    SeqMod,                 \* number of sequence ids (65536)
    AllowedLostResponses,   \* 255 in the code
    InitiallyElapsed,       \* has the RTC passed one second when the first Req is sent?
    MaxInFlight             \* bound: messages on the way when an interval ends

ASSUME PdelayAssumption ==
    /\ SeqMod \in Nat \ {0, 1} /\ AllowedLostResponses \in Nat
    /\ InitiallyElapsed \subseteq BOOLEAN

None == -1      \* a NULL pointer or a timestamp never taken
SeqId == 0 .. SeqMod - 1

VARIABLES
    req,                \* MDPdelayReqSM
    resp,               \* MDPdelayRespSM
    reqLink, respLink,  \* the link, towards the responder and back
    reqTs, respTs,      \* TSU transmit FIFOs of the two ports
    phase,              \* assumption on the link: "orderly" (always prompt), "rough"
                        \* (late and lossy), or "calm" (prompt after it was rough)
    lostTs              \* history: a TSU has failed to record a transmit timestamp

linkVars == <<phase, lostTs>>
vars == <<req, resp, reqLink, respLink, reqTs, respTs, linkVars>>

NotMeasured == [t1 |-> None, t2 |-> None, t3 |-> None, t4 |-> None]

\* init_md_pdelay_req_sm runs the machine to INITIAL_SEND_PDELAY_REQ, which sends
\* the first Pdelay_Req and differs from SEND_PDELAY_REQ only in that
\* (pdelayReqSequenceId is random: 0 stands for it).  pdelayIntervalTimer is 0,
\* so whether the interval has elapsed depends on the RTC.
Init ==
    /\ \E e \in InitiallyElapsed :
        /\ phase \in IF e THEN {"rough"} ELSE {"orderly", "rough"}
        /\ req = [state |-> "SEND", seq |-> 0, elapsed |-> e, rcvdTs |-> FALSE,
                  rcvdResp |-> FALSE, respSeq |-> None, rcvdFollowUp |-> FALSE, followUpSeq |-> None,
                  t1 |-> None, t2 |-> None, t3 |-> None, t4 |-> None,
                  lostResponses |-> 0, isMeasuringDelay |-> FALSE,
                  measured |-> NotMeasured, resets |-> 0, staleWrap |-> FALSE]
    /\ resp = [state |-> "INITIAL_WAITING", rcvdReq |-> FALSE, reqSeq |-> None, t2 |-> None, t3 |-> None]
    /\ reqLink = <<0>> /\ reqTs = <<0>>
    /\ respLink = << >> /\ respTs = << >> /\ lostTs = FALSE

-----------------------------------------------------------------------------
(* MDPdelayReq: r is the record of the machine                             *)

\* send_pdelay_req_action: the next id, and the interval starts again ("staleWrap"
\* is history: the ids have wrapped while an old Follow_Up was flagged).
EnterSend(r) == [r EXCEPT !.state = "SEND", !.seq = (@ + 1) % SeqMod, !.elapsed = FALSE,
                          !.staleWrap = @ \/ (r.rcvdFollowUp /\ r.seq = SeqMod - 1)]

\* Mutant: the fault threshold is never acted upon.
CountLost_Forever(r) ==
    IF r.lostResponses <= AllowedLostResponses
    THEN [r EXCEPT !.lostResponses = @ + 1]
    ELSE r

\* reset_action ("resets" is history: RESETs since the last measurement, capped).
CountLost(r) ==
    IF r.lostResponses <= AllowedLostResponses
    THEN [r EXCEPT !.lostResponses = @ + 1]
    ELSE [r EXCEPT !.isMeasuringDelay = FALSE]

\* RESET: rcvdPdelayResp is cleared, rcvdPdelayRespFollowUp is not; the next
\* Pdelay_Req follows at once when the interval has elapsed.
EnterReset(r) ==
    LET r1 == [CountLost(r) EXCEPT !.state = "RESET", !.rcvdResp = FALSE,
                   !.resets = IF @ <= AllowedLostResponses + 1 THEN @ + 1 ELSE @]
    IN IF r.elapsed THEN EnterSend(r1) ELSE r1

\* waiting_for_pdelay_interval_timer_action: the delay is computed from whatever
\* t1 .. t4 hold.
EnterIntervalTimer(r) ==
    [r EXCEPT !.state = "INTERVAL_TIMER", !.rcvdFollowUp = FALSE,
              !.lostResponses = 0, !.isMeasuringDelay = TRUE, !.resets = 0,
              !.measured = [t1 |-> r.t1, t2 |-> r.t2, t3 |-> r.t3, t4 |-> r.t4]]

\* WAITING_FOR_PDELAY_RESP_FOLLOW_UP: a second Resp of the exchange is a fault.
RunWaitFollowUp(r) ==
    IF r.elapsed \/ (r.rcvdResp /\ r.respSeq = r.seq) THEN EnterReset(r)
    ELSE IF r.rcvdFollowUp /\ r.followUpSeq = r.seq THEN EnterIntervalTimer(r)
    ELSE r

\* Mutant: rcvdPdelayResp is not cleared when the Follow_Up is awaited.
RunWaitResp_KeepsFlag(r) ==
    IF r.elapsed THEN EnterReset(r)
    ELSE IF ~r.rcvdResp THEN r
    ELSE IF r.respSeq # r.seq THEN EnterReset(r)
    ELSE RunWaitFollowUp([r EXCEPT !.state = "WAIT_FOLLOW_UP"])

\* Mutant: the Resp is taken whatever its sequence id.
RunWaitResp_AnySeq(r) ==
    IF r.elapsed THEN EnterReset(r)
    ELSE IF ~r.rcvdResp THEN r
    ELSE RunWaitFollowUp([r EXCEPT !.state = "WAIT_FOLLOW_UP", !.rcvdResp = FALSE])

\* WAITING_FOR_PDELAY_RESP: a Resp of another exchange is a fault, also one whose
\* flag was set in an earlier state.
RunWaitResp(r) ==
    IF r.elapsed THEN EnterReset(r)
    ELSE IF ~r.rcvdResp THEN r
    ELSE IF r.respSeq # r.seq THEN EnterReset(r)
    ELSE RunWaitFollowUp([r EXCEPT !.state = "WAIT_FOLLOW_UP", !.rcvdResp = FALSE])

\* md_pdelay_req_sm_run
Run(r) ==
    CASE r.state = "SEND" ->
            IF r.rcvdTs THEN RunWaitResp([r EXCEPT !.state = "WAIT_RESP", !.rcvdTs = FALSE]) ELSE r
      [] r.state = "WAIT_RESP" -> RunWaitResp(r)
      [] r.state = "WAIT_FOLLOW_UP" -> RunWaitFollowUp(r)
      [] r.state \in {"RESET", "INTERVAL_TIMER"} -> IF r.elapsed THEN EnterSend(r) ELSE r

\* A step of the requester; a new id means that a Pdelay_Req was sent, which its
\* TSU stamps.
ReqStep(r, consumedTs) ==
    LET sends == r.seq # req.seq
        ts == IF consumedTs THEN Tail(reqTs) ELSE reqTs
    IN /\ req' = r
       /\ reqLink' = IF sends THEN Append(reqLink, r.seq) ELSE reqLink
       /\ reqTs' = IF sends THEN Append(ts, r.seq) ELSE ts

\* The main loop runs the machine in every iteration.
ReqPoll ==
    /\ ReqStep(Run(req), FALSE)
    /\ UNCHANGED <<resp, respLink, respTs, linkVars>>

\* md_pdelay_req_sm_txts
ReqTxTimestamp ==
    /\ reqTs # << >>
    /\ ReqStep(IF req.state = "SEND" /\ Head(reqTs) = req.seq
               THEN Run([req EXCEPT !.t1 = Head(reqTs), !.rcvdTs = TRUE])
               ELSE req, TRUE)
    /\ UNCHANGED <<resp, respLink, respTs, linkVars>>

\* md_pdelay_req_sm_recv_resp: t4 is stored AFTER the machine has run.
RecvResp ==
    LET m == Head(respLink)
    IN /\ respLink # << >> /\ m.kind = "Resp"
       /\ respLink' = Tail(respLink)
       /\ ReqStep([Run([req EXCEPT !.rcvdResp = TRUE, !.respSeq = m.seq, !.t2 = m.ts])
                      EXCEPT !.t4 = m.seq], FALSE)
       /\ UNCHANGED <<resp, respTs, linkVars>>

\* md_pdelay_req_sm_recv_resp_follow_up
RecvRespFollowUp ==
    LET m == Head(respLink)
    IN /\ respLink # << >> /\ m.kind = "FollowUp"
       /\ respLink' = Tail(respLink)
       /\ ReqStep(Run([req EXCEPT !.rcvdFollowUp = TRUE, !.followUpSeq = m.seq, !.t3 = m.ts]), FALSE)
       /\ UNCHANGED <<resp, respTs, linkVars>>

\* Time passes: pdelayReqInterval after the last Pdelay_Req.  On a rough link no
\* sequence id is used twice; otherwise every answer comes within the interval.
IntervalElapses ==
    /\ ~req.elapsed
    /\ IF phase = "rough"
       THEN req.seq < SeqMod - 1 /\ Len(reqLink) + Len(respLink) <= MaxInFlight
       ELSE reqLink = << >> /\ respLink = << >> /\ reqTs = << >> /\ respTs = << >>
    /\ req' = [req EXCEPT !.elapsed = TRUE]
    /\ UNCHANGED <<resp, reqLink, respLink, reqTs, respTs, linkVars>>

-----------------------------------------------------------------------------
(* MDPdelayResp                                                            *)

\* md_pdelay_resp_sm_recv_req: the request is answered unless an answer still
\* waits for its timestamp; rcvdPdelayReqPtr and t2 are overwritten in any case
\* (nobody receives once the process has crashed).
RecvReq ==
    LET k == Head(reqLink)
        r == [resp EXCEPT !.reqSeq = k, !.t2 = k]
    IN /\ reqLink # << >>
       /\ reqLink' = Tail(reqLink)
       /\ IF resp.state = "CRASHED"
          THEN UNCHANGED <<resp, respLink, respTs>>
          ELSE IF resp.state = "WAIT_TIMESTAMP"
          THEN /\ resp' = [r EXCEPT !.rcvdReq = TRUE]
               /\ UNCHANGED <<respLink, respTs>>
          ELSE /\ resp' = [r EXCEPT !.state = "WAIT_TIMESTAMP", !.rcvdReq = FALSE]
               /\ respLink' = Append(respLink, [kind |-> "Resp", seq |-> k, ts |-> r.t2])
               /\ respTs' = Append(respTs, k)
       /\ UNCHANGED <<req, reqTs, linkVars>>

\* Mutant: the sequence id of the timestamp is not compared.
RespTimestampMatches_Any(k) == resp.state = "WAIT_TIMESTAMP"

\* Mutant: the id is compared as MDSyncSendSM does, with the next id less one.
RespTimestampMatches_Next(k) == resp.state = "WAIT_TIMESTAMP" /\ k = resp.reqSeq - 1

RespTimestampMatches(k) == resp.state = "WAIT_TIMESTAMP" /\ k = resp.reqSeq

\* md_pdelay_resp_sm_txts: the Follow_Up is sent and rcvdPdelayReqPtr set to NULL;
\* a request that is still flagged would then be answered through that pointer.
RespTxTimestamp ==
    LET k == Head(respTs)
    IN /\ respTs # << >> /\ resp.state # "CRASHED"
       /\ respTs' = Tail(respTs)
       /\ IF RespTimestampMatches(k)
          THEN /\ resp' = [resp EXCEPT !.t3 = k, !.reqSeq = None,
                               !.state = IF resp.rcvdReq THEN "CRASHED" ELSE "WAITING"]
               /\ respLink' = Append(respLink, [kind |-> "FollowUp", seq |-> resp.reqSeq, ts |-> k])
          ELSE UNCHANGED <<resp, respLink>>
       /\ UNCHANGED <<req, reqLink, reqTs, linkVars>>

-----------------------------------------------------------------------------
(* External: the link and the TSUs lose something                          *)

LoseReq ==
    /\ phase = "rough" /\ reqLink # << >> /\ reqLink' = Tail(reqLink)
    /\ UNCHANGED <<req, resp, respLink, reqTs, respTs, linkVars>>

LoseResp ==
    /\ phase = "rough" /\ respLink # << >> /\ respLink' = Tail(respLink)
    /\ UNCHANGED <<req, resp, reqLink, reqTs, respTs, linkVars>>

LoseTimestamp ==
    /\ phase = "rough" /\ lostTs' = TRUE
    /\ \/ reqTs # << >> /\ reqTs' = Tail(reqTs) /\ UNCHANGED respTs
       \/ respTs # << >> /\ respTs' = Tail(respTs) /\ UNCHANGED reqTs
    /\ UNCHANGED <<req, resp, reqLink, respLink, phase>>

CalmDown ==
    /\ phase = "rough" /\ phase' = "calm"
    /\ UNCHANGED <<req, resp, reqLink, respLink, reqTs, respTs, lostTs>>

Requester == ReqPoll \/ ReqTxTimestamp \/ RecvResp \/ RecvRespFollowUp
Responder == RecvReq \/ RespTxTimestamp
Environment == LoseReq \/ LoseResp \/ LoseTimestamp \/ CalmDown

Next == Requester \/ Responder \/ IntervalElapses \/ Environment

Spec == Init /\ [][Next]_vars

\* Time passes, and both main loops take frames from their receive queue, poll their
\* transmit FIFOs and run the machines in every iteration.
FairSpec ==
    /\ Spec
    /\ WF_vars(IntervalElapses)
    /\ WF_vars(ReqPoll) /\ WF_vars(ReqTxTimestamp)
    /\ WF_vars(RecvResp) /\ WF_vars(RecvRespFollowUp)
    /\ WF_vars(RecvReq) /\ WF_vars(RespTxTimestamp)

-----------------------------------------------------------------------------
(* Properties                                                              *)

OptSeq == SeqId \cup {None}

\* Every variable has its type.
TypeOK ==
    /\ req \in [state : {"SEND", "WAIT_RESP", "WAIT_FOLLOW_UP", "INTERVAL_TIMER", "RESET"},
                seq : SeqId, elapsed : BOOLEAN, rcvdTs : BOOLEAN, rcvdResp : BOOLEAN,
                respSeq : OptSeq, rcvdFollowUp : BOOLEAN, followUpSeq : OptSeq,
                t1 : OptSeq, t2 : OptSeq, t3 : OptSeq, t4 : OptSeq,
                lostResponses : 0 .. AllowedLostResponses + 1, isMeasuringDelay : BOOLEAN,
                measured : [t1 : OptSeq, t2 : OptSeq, t3 : OptSeq, t4 : OptSeq],
                resets : 0 .. AllowedLostResponses + 2, staleWrap : BOOLEAN]
    /\ resp \in [state : {"INITIAL_WAITING", "WAIT_TIMESTAMP", "WAITING", "CRASHED"},
                 rcvdReq : BOOLEAN, reqSeq : OptSeq, t2 : OptSeq, t3 : OptSeq]
    /\ reqLink \in Seq(SeqId)
    /\ respLink \in Seq([kind : {"Resp", "FollowUp"}, seq : SeqId, ts : SeqId])
    /\ reqTs \in Seq(SeqId) /\ respTs \in Seq(SeqId)
    /\ phase \in {"orderly", "rough", "calm"} /\ lostTs \in BOOLEAN

\* computePropTime subtracts timestamps of ONE exchange (and so does not take the
\* exit for t4 < t1), although t2, t3 and t4 are overwritten by every Resp and
\* Follow_Up in every state and t4 is stored after the run; only a Follow_Up that
\* stays flagged through all 65536 ids could break it.
OneExchange ==
    ~req.staleWrap =>
        req.measured.t1 = req.measured.t2 /\ req.measured.t2 = req.measured.t3
            /\ req.measured.t3 = req.measured.t4

\* md_pdelay_resp_sm_run never answers through the pointer it has set to NULL,
\* although a second request sets rcvdPdelayReq while the first waits.
NoNullRequest == resp.state # "CRASHED"

\* isMeasuringDelay is withdrawn when allowedLostResponses is exceeded: it is
\* never TRUE after more than AllowedLostResponses + 1 RESETs in a row.
MeasuringIsRecent == req.isMeasuringDelay => req.resets <= AllowedLostResponses + 1

\* The two ways in which MDPdelayReq and MDPdelayResp can fail on a good link: a
\* Resp handled in RESET stays flagged for the next exchange; a second Req replaces
\* the one whose answer still waits for its transmit timestamp.
StaleResp == req.state = "RESET" /\ req.rcvdResp
Overrun   == resp.state = "WAIT_TIMESTAMP" /\ resp.rcvdReq

\* system-design.md: for each pair of connected devices the state machines will
\* measure link delay - again and again, if answers have always come in time.  After
\* losses and late messages they do so again, unless RESET goes on flagging
\* answers, the responder was overrun or a timestamp was lost.
DelayIsMeasured ==
    /\ []<>(phase = "orderly" => req.state = "INTERVAL_TIMER")
    /\ []<>(phase = "calm" => req.state = "INTERVAL_TIMER" \/ StaleResp \/ Overrun \/ lostTs)

\* A responder that waits for the transmit timestamp of its Pdelay_Resp stops
\* waiting, unless it is overrun: it goes on answering requests.
ResponderReturns ==
    resp.state = "WAIT_TIMESTAMP" ~> resp.state # "WAIT_TIMESTAMP" \/ lostTs \/ Overrun
=============================================================================
