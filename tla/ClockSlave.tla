----------------------------- MODULE ClockSlave -----------------------------
(***************************************************************************)
(* ClockSlaveSync and the RTC: every sample of the synchronized time sets  *)
(* the offset of the slave time to the local clock; a circular list of the *)
(* last samples gives the rate ratio by which the period of the local      *)
(* clock is corrected.                                                     *)
(*                                                                         *)
(* Time is counted in units of 2^-16 ns, except in registers.  The source  *)
(* of the samples is a master, whose time may jump (another grandmaster),  *)
(* or the local clock itself, when no port is SLAVE.                       *)
(***************************************************************************)
EXTENDS ScaledNs, FiniteSets

CONSTANTS
  MAXLENGTH,     \* length of the list (64)
  Step,          \* master time between two Syncs
  Rates,         \* local time in a Step, before the first correction
  Limit,         \* a ratio off by more than 1 in Limit is meaningless (1000)
  Delay,         \* meanLinkDelay
  CorrectionNs,  \* whole ns that followUpCorrectionField may hold
  Start,         \* initial master time and local times
  Jumps,         \* jumps of the master's time
  MaxSamples,    \* bound
  MaxGap         \* bound: Syncs lost in a row, plus one

ASSUME ListAssumption == MAXLENGTH \in Nat \ {0, 1}
ASSUME StepAssumption ==
  /\ Step \in Nat \ {0} /\ Rates \subseteq Nat \ {0} /\ Limit \in Nat \ {0, 1}
  /\ Delay \in Nat /\ CorrectionNs \subseteq Nat /\ Jumps \subseteq Int
  /\ Start.master \in Nat /\ Start.local \subseteq Nat
  /\ MaxSamples \in Nat /\ MaxGap \in Nat

VARIABLES
  list,          \* lSyncReceiptTime, lSyncReceiptLocalTime
  listHeadPeriod, listTailPeriod, isEmptyPeriod,
  rate,          \* the period register: local time in a Step
  offset,        \* the offset registers: sign and ns
  master, local, \* time of the source and local time at the last sample
  source,        \* "master", or "self"
  undisturbed,   \* history: samples since the start, a jump or a change of source
  samples        \* number of samples so far

listVars == <<list, listHeadPeriod, listTailPeriod, isEmptyPeriod>>
clockVars == <<listVars, rate, offset, master, local, source, undisturbed, samples>>

Slots == 0 .. MAXLENGTH - 1
Zero == FromValue(0)
Entry(n, t, l) == [n |-> n, time |-> t, localTime |-> l]

ClockInit ==
  /\ list = [i \in Slots |-> Entry(0, Zero, Zero)]
  /\ listHeadPeriod = 0 /\ listTailPeriod = MAXLENGTH - 1 /\ isEmptyPeriod = TRUE
  /\ rate \in Rates /\ offset = [sub |-> FALSE, ns |-> 0]
  /\ master = Start.master /\ local \in Start.local
  /\ source \in {"master", "self"}
  /\ undisturbed = 0 /\ samples = 0

\* Mutant: the list is full one slot too late.
Advance_Late(head, tail) == head

\* The head after a sample was stored behind tail: the oldest one is given up when
\* the list is full.
Advance(head, tail) ==
  IF ~isEmptyPeriod /\ head = (tail + 1) % MAXLENGTH THEN (head + 1) % MAXLENGTH ELSE head

\* Mutant: the sign of the offset is not looked at.
updateSlaveTime_Adds(t, l) == [sub |-> FALSE, ns |-> Subtract(t, l).nsec]

\* updateSlaveTime and set_rtc_sync_offset: the ns of the difference, and its sign.
updateSlaveTime(t, l) ==
  IF Compare(t, l) >= 0 THEN [sub |-> FALSE, ns |-> Subtract(t, l).nsec]
                        ELSE [sub |-> TRUE, ns |-> Subtract(l, t).nsec]

Distance(a, b) == IF a > b THEN a - b ELSE b - a

\* Mutant: a meaningless ratio is used.
Verdict_NoLimit(dT, dL) == IF dT = dL THEN "exact" ELSE "correct"

\* updateSlavePeriod: ratio dT / dL of the ends of the list.  "exact" stands for
\* |r - 1| < 1e-9, "meaningless" for |r - 1| > 1e-3.
Verdict(dT, dL) == IF dT = dL THEN "exact"
                   ELSE IF Distance(dT, dL) * Limit > dL THEN "meaningless" ELSE "correct"

Rounded(a, b) == (2 * a + b) \div (2 * b)

\* Mutant: the list is not reset when the period has been changed.
updateSlavePeriod_NoReset(slots, head, tail) ==
  LET dT == Value(Subtract(slots[tail].time, slots[head].time))
      dL == Value(Subtract(slots[tail].localTime, slots[head].localTime))
  IN IF head = tail \/ Verdict(dT, dL) = "exact" THEN UNCHANGED rate /\ listHeadPeriod' = head
     ELSE /\ rate' = IF Verdict(dT, dL) = "correct" THEN Rounded(rate * dT, dL) ELSE rate
          /\ listHeadPeriod' = IF Verdict(dT, dL) = "correct" THEN head ELSE tail

\* The period is multiplied by the ratio, and the list starts again.
updateSlavePeriod(slots, head, tail) ==
  LET dT == Value(Subtract(slots[tail].time, slots[head].time))
      dL == Value(Subtract(slots[tail].localTime, slots[head].localTime))
  IN IF head = tail \/ Verdict(dT, dL) = "exact" THEN UNCHANGED rate /\ listHeadPeriod' = head
     ELSE /\ rate' = IF Verdict(dT, dL) = "correct" THEN Rounded(rate * dT, dL) ELSE rate
          /\ listHeadPeriod' = tail

\* send_sync_indication_action with a sample whose preciseOriginTimestamp and
\* followUpCorrectionField are pot and fup, and which left its sender at local time
\* upstreamTxTime.
SendSyncIndication(pot, fup, meanLinkDelay, upstreamTxTime) ==
  LET t == Add(Add(pot, fup), meanLinkDelay)
      l == Add(upstreamTxTime, meanLinkDelay)
      tail == (listTailPeriod + 1) % MAXLENGTH
      slots == [list EXCEPT ![tail] = Entry(samples + 1, t, l)]
  IN /\ list' = slots /\ listTailPeriod' = tail /\ isEmptyPeriod' = FALSE
     /\ offset' = updateSlaveTime(t, l)
     /\ updateSlavePeriod(slots, Advance(listHeadPeriod, listTailPeriod), tail)

\* clock_slave_sync_sm_recv_pss: the next sample comes after gap Steps; the time of
\* the master may have jumped meanwhile.  preciseOriginTimestamp has whole ns, what is
\* below 1 ns is in followUpCorrectionField.
RecvPss(gap, jump, ns) ==
  /\ samples < MaxSamples
  /\ samples' = samples + 1
  /\ master' = master + gap * Step + jump
  /\ local' = local + gap * rate
  /\ undisturbed' = IF jump # 0 THEN 0 ELSE undisturbed + 1
  /\ IF source = "master"
       THEN LET correction == (master' % SubNs) + SubNs * ns
            IN SendSyncIndication(FromValue(master' - correction), FromValue(correction),
                                  FromValue(Delay), FromValue(local'))
       ELSE SendSyncIndication(FromValue(local' - (local' % SubNs)), FromValue(local' % SubNs),
                               Zero, FromValue(local'))
  /\ UNCHANGED source

\* PortStateSelection makes a port SLAVE, or makes none.
ChangeSource ==
  /\ samples < MaxSamples /\ undisturbed > 0
  /\ source' = IF source = "self" THEN "master" ELSE "self"
  /\ undisturbed' = 0
  /\ UNCHANGED <<listVars, rate, offset, master, local, samples>>

ClockNext ==
  \/ \E gap \in 1 .. MaxGap, jump \in Jumps, ns \in CorrectionNs : RecvPss(gap, jump, ns)
  \/ ChangeSource

ClockSpec == ClockInit /\ [][ClockNext]_clockVars

(***************************************************************************)
(* Properties                                                              *)
(***************************************************************************)
ClockTypeOK ==
  /\ list \in [Slots -> [n : Nat, time : UScaledNs, localTime : UScaledNs]]
  /\ listHeadPeriod \in Slots /\ listTailPeriod \in Slots /\ isEmptyPeriod \in BOOLEAN
  /\ rate \in Nat \ {0} /\ offset \in [sub : BOOLEAN, ns : 0 .. NsMod - 1]
  /\ source \in {"master", "self"} /\ samples \in 0 .. MaxSamples

\* The ends of the list after a sample.
OldestToNewest ==
  LET length == IF isEmptyPeriod THEN 0
                ELSE ((listTailPeriod - listHeadPeriod) % MAXLENGTH) + 1
      oldest == IF length = MAXLENGTH THEN samples' - length + 1 ELSE samples' - length
      first  == CHOOSE i \in Slots : list'[i].n = oldest
      newest == list'[listTailPeriod']
  IN /\ newest.n = samples'
     /\ \/ list'[listHeadPeriod'].n = oldest
        \/ /\ listHeadPeriod' = listTailPeriod'
           /\ Subtract(newest.time, list'[first].time)
                # Subtract(newest.localTime, list'[first].localTime)

\* The ratio is taken between the newest sample and the oldest the list can still hold,
\* also when it has wrapped; the list starts again at the newest sample only when that
\* ratio is not 1.
WindowSlides == [][samples' = samples + 1 => OldestToNewest]_clockVars

\* The time that local time l and offset o give.
SlaveTime(o, l) == IF o.sub THEN l - SubNs * o.ns ELSE l + SubNs * o.ns
CloseToSource ==
  Distance(SlaveTime(offset', local'), IF source = "self" THEN local' ELSE master') <= 3 * SubNs

\* After a sample the slave time (local time and offset) is that of the source at the
\* moment the sample arrived, within 3 ns: uscaledns_add carries one unit early, each
\* time 1 ns at most, and set_rtc_sync_offset drops what is below 1 ns.
OffsetIsClose == [][samples' = samples + 1 => CloseToSource]_clockVars

\* Two samples after the last jump or change of source the local clock runs at the
\* master's rate, up to what the early carries cost, or so far from it that every ratio
\* is taken as meaningless.  The latter only after a jump: a jump of the time small
\* enough to be taken for a rate error makes the rate wrong, and a rate that is wrong
\* by more than 1 in Limit is never corrected again.
RateSettles ==
  source = "master" /\ undisturbed >= 3 =>
    \/ Distance(rate, Step) <= 3 * SubNs
    \/ undisturbed < samples /\ Distance(rate, Step) * Limit > rate - 3 * SubNs
=============================================================================
