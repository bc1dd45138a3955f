------------------------------- MODULE Health -------------------------------
(***************************************************************************)
(* Stream health: what health.py makes of the messages of one address in   *)
(* one take.                                                               *)
(*                                                                         *)
(* A sender samples once a period.  It sends each sample at once, or       *)
(* queues samples and flushes the queue on a timer.  The link delivers at  *)
(* once and in order, or it may lose, repeat, delay and reorder.  Sender   *)
(* and link are external: the code sees only what arrives, and when.       *)
(***************************************************************************)
EXTENDS Integers, Sequences, FiniteSets

CONSTANTS
    None,            \* Python's None
    Period,          \* ticks in a nominal period
    Burst,           \* samples in one flush of a sender that queues
    MaxGapPeriods, LossPer, OrderPer, RatePer,
                     \* MAX_GAP_PERIODS; 1 / MAX_LOSS_RATE; 1 / MAX_OUT_OF_ORDER_RATE;
                     \* 1 / (1 - MIN_RATE_FRACTION)
    MaxDelay, MaxFaults,   \* bounds: ticks on the link; losses and repetitions
    MaxSamples, MaxNow,    \* bounds: samples; ticks
    FaultySamples, FaultyNow   \* the same bounds on a faulty link

ASSUME NoneAssumption == None \notin Int
ASSUME SizesAssumption ==
    {Period, Burst, MaxGapPeriods, LossPer, OrderPer, RatePer} \subseteq Nat \ {0}
\* health.py:23, MAX_GAP_PERIODS = 10.0: half of it, where the verdict warns, is above a period.
ASSUME GapAssumption == MaxGapPeriods > 2
ASSUME BoundsAssumption == {MaxSamples, MaxNow, FaultySamples, FaultyNow} \subseteq Nat

VARIABLES
    link,       \* what the stream is like; see Links
    now,        \* ticks
    alive,      \* whether the sender still samples
    seq,        \* the device's sequence number, counted from the first sample
    queue,      \* samples the sender has not flushed
    wire,       \* messages under way
    faults,     \* losses and repetitions so far
    recording,  \* whether a take is open
    entry,      \* the take's AddressHealth for the address; as new before the first message
    malformed,  \* whether a malformed datagram arrived in the take
    got, first, highest   \* history: numbers the take has seen, its first, its highest

streamVars == <<link, alive, seq, queue>>
takeVars   == <<entry, malformed, got, first, highest>>
vars == <<streamVars, now, wire, faults, recording, takeVars>>

Links == [burst : BOOLEAN, faulty : BOOLEAN, rated : BOOLEAN, numbered : BOOLEAN, deviceTime : BOOLEAN]

-----------------------------------------------------------------------------
(* AddressHealth *)

NewEntry == [count |-> 0, firstT |-> None, lastT |-> None, outOfOrder |-> 0, lost |-> 0,
             deviceTime |-> FALSE, intervals |-> <<>>, lastSeq |-> None]

\* Mutant: off by one.
MutSkipped(e, s) == IF e.lastSeq # None /\ s > e.lastSeq + 1 THEN s - e.lastSeq - 2 ELSE 0

\* Numbers passed over between the last message and this one.
Skipped(e, s) == IF e.lastSeq # None /\ s > e.lastSeq + 1 THEN s - e.lastSeq - 1 ELSE 0

\* Mutant: messages that arrive together leave no interval.
MutIntervals(e, t) == IF e.lastT = None \/ e.lastT = t THEN e.intervals ELSE Append(e.intervals, t - e.lastT)

Intervals(e, t) == IF e.lastT = None THEN e.intervals ELSE Append(e.intervals, t - e.lastT)

Late(e, s) == e.lastSeq # None /\ s <= e.lastSeq

Observe(e, t, s, deviceTime) ==
    [count      |-> e.count + 1,
     firstT     |-> IF e.firstT = None THEN t ELSE e.firstT,
     lastT      |-> t,
     outOfOrder |-> e.outOfOrder + (IF s # None /\ Late(e, s) THEN 1 ELSE 0),
     lost       |-> e.lost + (IF s # None THEN Skipped(e, s) ELSE 0),
     deviceTime |-> e.deviceTime \/ deviceTime,
     intervals  |-> Intervals(e, t),
     lastSeq    |-> IF s # None THEN s ELSE e.lastSeq]

\* Python's round(0.5 * n): halves go to the even neighbour.
RoundedHalf(n) == IF n % 2 = 0 THEN n \div 2 ELSE IF (n \div 2) % 2 = 0 THEN n \div 2 ELSE n \div 2 + 1

\* The element of rank r, counted from 0, of the sorted values of s.
Ranked(s, r) ==
    CHOOSE v \in {s[i] : i \in DOMAIN s} :
        /\ Cardinality({i \in DOMAIN s : s[i] < v}) <= r
        /\ Cardinality({i \in DOMAIN s : s[i] <= v}) > r

MedianInterval(e) == IF e.intervals = <<>> THEN 0 ELSE Ranked(e.intervals, RoundedHalf(Len(e.intervals) - 1))
MaxInterval(e)    == IF e.intervals = <<>> THEN 0 ELSE Ranked(e.intervals, Len(e.intervals) - 1)

Duration(e) == IF e.firstT = None THEN 0 ELSE e.lastT - e.firstT

\* Mutant: the comparison with the period is the wrong way round.
MutBatched(e) ==
    /\ link.rated /\ e.count >= 3
    /\ 4 * MedianInterval(e) > Period
    /\ MaxInterval(e) > 2 * Period

\* A median interval below a quarter of the period and a maximum above two.
Batched(e) ==
    /\ link.rated /\ e.count >= 3
    /\ 4 * MedianInterval(e) < Period
    /\ MaxInterval(e) > 2 * Period

\* Some quantity of the verdict, h times over, reaches its limit.  Messages that all came in
\* one instant have no rate (rate_hz), whose shortfall is the whole nominal one.
Reaches(e, h) ==
    \/ e.lost > 0 /\ h * e.lost * LossPer >= e.count + e.lost
    \/ e.count > 0 /\ h * e.outOfOrder * OrderPer >= e.count
    \/ /\ link.rated /\ e.count > 1
       /\ \/ h * MaxInterval(e) >= MaxGapPeriods * Period
          \/ Duration(e) = 0
          \/ h * RatePer * (Duration(e) - (e.count - 1) * Period) >= Duration(e)

AddressVerdict(e) ==
    IF Reaches(e, 1) THEN "fail"
    ELSE IF Reaches(e, 2) \/ (Batched(e) /\ ~ e.deviceTime) THEN "warn" ELSE "pass"

\* HealthTracker.verdict.  An address that was never heard has no entry there, and the
\* verdict of a new one is to pass.
Verdict ==
    IF AddressVerdict(entry) = "fail" THEN "fail"
    ELSE IF malformed \/ AddressVerdict(entry) = "warn" THEN "warn" ELSE "pass"

-----------------------------------------------------------------------------
(* The sender and the link *)

Init ==
    /\ link \in {l \in Links : l.faulty => l.numbered /\ ~ l.burst /\ ~ l.deviceTime}
    /\ now = 0 /\ alive = TRUE /\ seq = 0 /\ queue = <<>> /\ wire = <<>> /\ faults = 0
    /\ recording = FALSE /\ entry = NewEntry /\ malformed = FALSE
    /\ got = {} /\ first = None /\ highest = None

SampleBound == IF link.faulty THEN FaultySamples ELSE MaxSamples
TimeBound   == IF link.faulty THEN FaultyNow ELSE MaxNow

Message(n) == [seq |-> n, sent |-> now + 1]

\* Time passes; a sample is taken when a period ends, and sent at once or with its burst.
Tick ==
    /\ now < TimeBound
    /\ IF link.faulty THEN \A i \in DOMAIN wire : wire[i].sent + MaxDelay > now ELSE wire = <<>>
    /\ now' = now + 1
    /\ LET sample  == alive /\ seq < SampleBound /\ now' % Period = 0
           samples == IF sample THEN Append(queue, seq + 1) ELSE queue
           flush   == ~ link.burst \/ now' % (Burst * Period) = 0
       IN /\ seq' = IF sample THEN seq + 1 ELSE seq
          /\ queue' = IF flush THEN <<>> ELSE samples
          /\ wire' = IF flush THEN wire \o [i \in DOMAIN samples |-> Message(samples[i])] ELSE wire
    /\ UNCHANGED <<link, alive, faults, recording, takeVars>>

\* The instrument is switched off, or its network goes away.
Die ==
    /\ alive
    /\ alive' = FALSE
    /\ UNCHANGED <<link, seq, queue, now, wire, faults, recording, takeVars>>

Without(i) == SubSeq(wire, 1, i - 1) \o SubSeq(wire, i + 1, Len(wire))

Lose(i) ==
    /\ link.faulty /\ faults < MaxFaults
    /\ wire' = Without(i) /\ faults' = faults + 1
    /\ UNCHANGED <<streamVars, now, recording, takeVars>>

Repeat(i) ==
    /\ link.faulty /\ faults < MaxFaults
    /\ wire' = Append(wire, wire[i]) /\ faults' = faults + 1
    /\ UNCHANGED <<streamVars, now, recording, takeVars>>

-----------------------------------------------------------------------------
(* The recorder *)

\* A take begins with a tracker of its own.
StartTake ==
    /\ ~ recording
    /\ recording' = TRUE
    /\ UNCHANGED <<streamVars, now, wire, faults, takeVars>>

\* _arg_at: the sequence field of a message, where its address has one.
Number(m) == IF link.numbered THEN m.seq ELSE None

\* A message in a take is observed by its tracker; between takes an idle tracker of the same
\* kind observes it.
Receive(i) ==
    /\ link.faulty \/ i = 1
    /\ wire' = Without(i)
    /\ IF recording
       THEN /\ entry' = Observe(entry, now, Number(wire[i]), link.deviceTime)
            /\ got' = got \cup {wire[i].seq}
            /\ first' = IF first = None THEN wire[i].seq ELSE first
            /\ highest' = IF highest = None \/ wire[i].seq > highest THEN wire[i].seq ELSE highest
       ELSE UNCHANGED <<entry, got, first, highest>>
    /\ UNCHANGED <<streamVars, now, faults, recording, malformed>>

ReceiveMalformed ==
    /\ link.faulty /\ recording /\ faults < MaxFaults
    /\ malformed' = TRUE /\ faults' = faults + 1
    /\ UNCHANGED <<streamVars, now, wire, recording, entry, got, first, highest>>

Next ==
    \/ Tick \/ Die \/ StartTake \/ ReceiveMalformed
    \/ \E i \in DOMAIN wire : Lose(i) \/ Repeat(i) \/ Receive(i)

Spec == Init /\ [][Next]_vars

-----------------------------------------------------------------------------
(* What the operator is told *)

Missing == IF first = None THEN {} ELSE {n \in first..highest : n \notin got}

\* Types, and the agreement of the counters with each other.
TypeOK ==
    /\ link \in Links /\ now \in 0..TimeBound /\ seq \in 0..SampleBound
    /\ Verdict \in {"pass", "warn", "fail"}
    /\ entry.count > 0 =>
          /\ entry.count \in Nat \ {0} /\ entry.lost \in Nat /\ entry.outOfOrder \in 0..(entry.count - 1)
          /\ entry.lastT \in 0..now /\ entry.firstT \in 0..entry.lastT
          /\ Len(entry.intervals) = entry.count - 1
          /\ \A i \in DOMAIN entry.intervals : entry.intervals[i] \in 0..Duration(entry)
          /\ entry.lastSeq \in IF link.numbered THEN got ELSE {None}

\* health.py:77-84: of the messages sent between the first and the furthest a take has seen,
\* the ones that have not arrived are all counted as lost, in whatever order the others came,
\* and a take that lost a hundredth of them fails; when no message came out of order, exactly
\* those are counted.
LossIsNeverUnderstated ==
    link.numbered /\ entry.count > 0 =>
        LET missing == Cardinality(Missing) IN
        /\ entry.lost >= missing
        /\ entry.outOfOrder = 0 => entry.lost = missing
        /\ missing > 0 /\ LossPer * missing >= entry.count + missing => Verdict = "fail"

\* docs/SPEC_V1.md 6.1: a sender that flushes more than two samples at a time is recognised
\* from its sixth message on, and one more than a flush holds, wherever in a burst the take
\* began, and does not pass unless the samples carry a time; a sender that sends each sample
\* at once is never taken for one, and passes.
BatchingIsSeen ==
    ~ link.faulty /\ link.rated /\ entry.count > 0 =>
        IF link.burst
        THEN Burst > 2 /\ entry.count >= 6 /\ entry.count > Burst =>
                Batched(entry) /\ (Verdict = "pass" => entry.deviceTime)
        ELSE ~ Batched(entry) /\ Verdict = "pass"

\* docs/SPEC_V1.md 6.2, a take is flagged when the "maximum inter-arrival [is] above ten
\* nominal periods": a rated stream that has been silent for longer in a take fails it.
SilenceFails ==
    recording /\ link.rated /\ entry.count > 0 /\ now - entry.lastT > MaxGapPeriods * Period =>
        Verdict = "fail"
=============================================================================
