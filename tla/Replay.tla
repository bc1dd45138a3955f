------------------------------- MODULE Replay -------------------------------
(***************************************************************************)
(* puara-creator play (replay.py): the takes a selector names, one after   *)
(* the other, each announced, sent with the timing of the recording and    *)
(* closed, once or in a loop.                                              *)
(*                                                                         *)
(* An address is the sequence of its segments.  Time is counted from the   *)
(* wall_origin of the take being played, in the ticks of its recording;    *)
(* how late the scheduler wakes the replayer is chosen freely within a     *)
(* bound.  The takes' files do not change meanwhile.                       *)
(***************************************************************************)
EXTENDS Integers, Sequences, Positions, Functions, FiniteSetsExt

CONSTANTS
    None,
    Sessions,    \* the takes of a session, by number: [number, lines]
    Torn,        \* a line a crash has truncated; the others are [t, address]
    Selectors,   \* values of --take: [all, pieces]; a piece is <<first, last>>, or <<>> if no number
    Options,     \* [target, rate, loop, prefix, globs, mark, reset]: whether the target is HOST:PORT;
                 \* a glob is the set of addresses it matches
    MaxLate      \* bound: ticks by which a message goes out after it was due

ASSUME LateAssumption == MaxLate \in Nat
\* A line carries its arrival's stamp, and lines are written in the order of arrival.
ASSUME ArrivalAssumption ==
    \A takes \in Sessions : \A n \in DOMAIN takes :
        LET lines == takes[n].lines IN
        \A i, j \in DOMAIN lines : i < j /\ lines[i] # Torn /\ lines[j] # Torn => lines[i].t <= lines[j].t

VARIABLES
    takes, selector, options,   \* what the command was given
    pc,
    numbers, k,   \* the takes to play, by number, and the one at hand
    line,         \* the last line of its file that was read
    origin,       \* Replayer.origin
    elapsed,      \* time.monotonic() - wall_origin
    out           \* history: the datagrams of this round

inputs == <<takes, selector, options>>
vars   == <<inputs, pc, numbers, k, line, origin, elapsed, out>>

Goto(point) == pc' = point

-----------------------------------------------------------------------------
(* parse_take_selector *)

Available == {takes[i].number : i \in DOMAIN takes}

Named == UNION {piece[1]..piece[2] : piece \in Range(selector.pieces)}

\* The selectors that are refused: a piece is no number or range, or no take is named.
Refused == ~ selector.all /\ (<<>> \in Range(selector.pieces) \/ Named \cap Available = {})

Chosen == IF selector.all THEN Available ELSE Named \cap Available

Select ==
    /\ pc = "select"
    /\ IF Refused THEN Goto("refused") /\ UNCHANGED numbers
       ELSE Goto("open") /\ numbers' = Ascending(Chosen)
    /\ UNCHANGED <<inputs, k, line, origin, elapsed, out>>

\* parse_target raises on a target that is no HOST:PORT.
Open ==
    /\ pc = "open"
    /\ Goto(IF options.target THEN "round" ELSE "failed")
    /\ UNCHANGED <<inputs, numbers, k, line, origin, elapsed, out>>

-----------------------------------------------------------------------------
(* play_take *)

Take == takes[CHOOSE i \in DOMAIN takes : takes[i].number = numbers[k]]

\* Mutant: the filter is asked about the address that is sent.
MutMatches(address, o) ==
    o.globs = {} \/ \E glob \in o.globs : (IF o.prefix = None THEN address ELSE o.prefix \o Tail(address)) \in glob

Matches(address, o) == o.globs = {} \/ \E glob \in o.globs : address \in glob

\* TakeRead.records: the lines that can be decoded.
Recorded(take) == {i \in DOMAIN take.lines : take.lines[i] # Torn}

Selected(take) == {i \in Recorded(take) : Matches(take.lines[i].address, options)}

\* _rewrite: the first segment is replaced.
Rewritten(address) == IF options.prefix = None THEN address ELSE options.prefix \o Tail(address)

Left     == {i \in Selected(Take) : i > line}
Upcoming == Min(Left)

Control(what, n)  == [what |-> what, take |-> n]
Message(n, i, to) == [what |-> "message", take |-> n, line |-> i, address |-> to, at |-> elapsed]

\* The control messages before a take, and the start of its clock.
Announce ==
    /\ pc = "round" /\ k <= Len(numbers)
    /\ out' = out \o (IF options.reset THEN <<Control("reset", None)>> ELSE <<>>)
                  \o (IF options.mark THEN <<Control("take", Take.number)>> ELSE <<>>)
    /\ elapsed' = 0 /\ origin' = None /\ line' = 0
    /\ Goto("play")
    /\ UNCHANGED <<inputs, numbers, k>>

\* Mutant: the interval is waited for from the last message on.
MutBehind ==
    IF origin = None THEN 0
    ELSE (elapsed - out[Len(out)].at) * options.rate - (Take.lines[Upcoming].t - Take.lines[line].t)

\* How long ago the next message was due, in the time of the recording.
Behind == elapsed * options.rate - (IF origin = None THEN 0 ELSE Take.lines[Upcoming].t - origin)

\* Mutant: the rate is not looked at.
MutDue == Behind >= 0

Due == options.rate > 0 => Behind >= 0

Send ==
    /\ pc = "play" /\ Left # {} /\ Due
    /\ origin' = IF origin = None THEN Take.lines[Upcoming].t ELSE origin
    /\ out' = Append(out, Message(Take.number, Upcoming, Rewritten(Take.lines[Upcoming].address)))
    /\ line' = Upcoming
    /\ UNCHANGED <<inputs, pc, numbers, k, elapsed>>

EndTake ==
    /\ pc = "play" /\ Left = {}
    /\ out' = IF options.mark THEN Append(out, Control("end", Take.number)) ELSE out
    /\ k' = k + 1
    /\ Goto("round")
    /\ UNCHANGED <<inputs, numbers, line, origin, elapsed>>

\* _wait_until
Tick ==
    /\ pc = "play" /\ Left # {} /\ options.rate > 0 /\ Behind < MaxLate * options.rate
    /\ elapsed' = elapsed + 1
    /\ UNCHANGED <<inputs, pc, numbers, k, line, origin, out>>

-----------------------------------------------------------------------------
(* replay_session *)

Init ==
    /\ takes \in Sessions /\ selector \in Selectors /\ options \in Options
    /\ pc = "select" /\ numbers = <<>> /\ k = 1 /\ line = 0 /\ origin = None /\ elapsed = 0 /\ out = <<>>

EndRound ==
    /\ pc = "round" /\ k > Len(numbers)
    /\ IF options.loop THEN k' = 1 /\ out' = <<>> /\ UNCHANGED pc
       ELSE Goto("done") /\ UNCHANGED <<k, out>>
    /\ UNCHANGED <<inputs, numbers, line, origin, elapsed>>

\* An interrupt, or an error of the socket or of a file.
Fail ==
    /\ pc \in {"select", "open", "round", "play"}
    /\ Goto("failed")
    /\ UNCHANGED <<inputs, numbers, k, line, origin, elapsed, out>>

Ended == pc \in {"done", "refused", "failed"}

Play == Select \/ Open \/ Announce \/ Send \/ EndTake \/ EndRound

Next == Play \/ Tick \/ Fail

Spec == Init /\ [][Next]_vars

\* The replayer goes on and time passes; nothing fails.
FairSpec == Spec /\ WF_vars(Play) /\ WF_vars(Tick)

-----------------------------------------------------------------------------
(* What a playback is *)

Messages  == {i \in DOMAIN out : out[i].what = "message"}
FileOf(n) == takes[CHOOSE i \in DOMAIN takes : takes[i].number = n].lines

\* The lines of take n that the filter lets through, and those sent before datagram i.
LetThrough(n) ==
    {l \in DOMAIN FileOf(n) : FileOf(n)[l] # Torn /\ (options.globs = {} \/ FileOf(n)[l].address \in UNION options.globs)}
SentBefore(n, i) == {out[j].line : j \in {m \in Messages : m < i /\ out[m].take = n}}

\* docs/SPEC_V1.md 2.2 and 3.1: playback preserves "the original message order exactly", the
\* recorded messages "with the original addresses unless --prefix is given", and those of a
\* take between its marks.  When a message goes out, the lines of its take that the filter
\* lets through and that come before it have gone out, once each, and no other; so have the
\* whole takes chosen before its own.  An end mark comes when nothing of its take is left.
OriginalOrder ==
    \A i \in DOMAIN out : LET n == out[i].take IN
        /\ out[i].what = "message" =>
              /\ out[i].line \in LetThrough(n)
              /\ options.prefix = None => out[i].address = FileOf(n)[out[i].line].address
              /\ SentBefore(n, i) = {l \in LetThrough(n) : l < out[i].line}
              /\ \A m \in Range(numbers) : SentBefore(m, i) = IF m < n THEN LetThrough(m)
                                                             ELSE IF m > n THEN {} ELSE SentBefore(n, i)
              /\ options.mark => \E j \in 1..(i - 1) : /\ out[j] = Control("take", n)
                                                       /\ \A m \in (j + 1)..(i - 1) : m \in Messages
        /\ out[i].what = "end" => SentBefore(n, i) = LetThrough(n)

\* docs/SPEC_V1.md 2.2: playback reproduces "the recorded inter-arrival intervals".  Between
\* any two messages of a take, however many were late in between, as much time passed as
\* between their arrivals, divided by the rate, within the lateness of one message.
IntervalsKept ==
    options.rate > 0 =>
        \A i, j \in Messages : out[i].take = out[j].take =>
            (out[j].at - out[i].at) * options.rate
                - (FileOf(out[j].take)[out[j].line].t - FileOf(out[i].take)[out[i].line].t)
            < (MaxLate + 1) * options.rate

\* A playback ends, at any rate and with nothing to send, unless it was asked to repeat;
\* then every chosen take is played again and again.
PlaybackGoesOn ==
    /\ ~ options.loop ~> Ended
    /\ \A n \in UNION {{session[i].number : i \in DOMAIN session} : session \in Sessions} :
          options.loop /\ n \in Range(numbers) ~> pc = "failed" \/ (pc = "play" /\ Take.number = n)
=============================================================================
