------------------------------ MODULE Scoring ------------------------------
(***************************************************************************)
(* scoring.run_score: each take of a split is replayed in real time to a   *)
(* descriptor under test (replay.py), its detections are collected by the  *)
(* listener's thread, brought into corpus time and matched (Matching), and *)
(* a consultation of the test split is logged.                             *)
(*                                                                         *)
(* The replayer, the descriptor and the listener share only sockets and    *)
(* the list `detections`: what the descriptor answers, how late, and when  *)
(* the listener's thread reads it are chosen freely within bounds.  Wall   *)
(* time advances in ticks while run_score waits.                           *)
(***************************************************************************)
EXTENDS Matching, Positions, SequencesExt

CONSTANTS
    Corpora,      \* the takes of a split, in the order load_corpus gives them
    Class, Source,   \* gesture_class and label_source of the options
    Options,      \* the other options that matter: split, unlock, unhealthy
    Drain,        \* _DRAIN_S
    MaxLate,      \* bound: ticks by which a message is sent after it was due
    Lag, SlowLag  \* bound: ticks from a message to the detection it causes, read

ASSUME ScoringAssumption ==
    /\ {Drain, MaxLate, Lag, SlowLag} \subseteq Nat
    /\ \A o \in Options : DOMAIN o = {"split", "unlock", "unhealthy"}
    /\ \A corpus \in Corpora :
          /\ corpus \in Seq(Range(corpus))
          /\ \A n \in DOMAIN corpus :
                LET t == corpus[n] IN
                /\ t.usable \in BOOLEAN /\ t.ambient \in BOOLEAN
                /\ t.records \in Seq([t : Int, gesture : BOOLEAN])
                /\ t.labels \in Seq(Range(t.labels)) /\ \A i \in DOMAIN t.labels : t.labels[i].t \in Int

\* A descriptor that is not slow has answered, and its answer is read, before the drain is over.
ASSUME DrainAssumption == Lag < Drain

VARIABLES
    takes,        \* the corpus scored
    options,      \* the options given
    slow,         \* whether the descriptor may answer later than the drain lasts
    spc, k,       \* where run_score is, and the take it is at
    sent,         \* records of the take already sent
    now, until,   \* the wall clock; when the drain is over
    origin, wallOrigin,   \* Replayer.origin, Replayer.wall_origin
    flight,       \* external: detections caused and not yet read, in order
    thread,       \* the listener's: "none", "runs", "raised" or "stopped"
    detections,   \* DetectionListener.detections
    transport,    \* calibrate_transport's answer: None or a round trip
    overall,      \* the pooled Counts
    consultations,   \* lines of holdout_log.jsonl
    error,        \* an exception is on its way out of the try block
    caused, scored   \* history: detections caused, and what became of them

runVars   == <<spc, k, sent, until, origin, wallOrigin, transport, overall, consultations, error>>
inputs    == <<takes, options, slow>>
vars == <<matchVars, inputs, thread, runVars, now, flight, detections, caused, scored>>

Take == takes[k]

\* SessionRead.labels, of one take, by their positions.
Labels(t, source) == {i \in DOMAIN t.labels : t.labels[i].source = source}

References(t) == LET of == Ascending({i \in Labels(t, Source) : t.labels[i].class = Class})
                 IN [i \in DOMAIN of |-> t.labels[of[i]].t]

LabelSources == UNION {{t.labels[i].source : i \in DOMAIN t.labels} : t \in Range(takes)}

-----------------------------------------------------------------------------
(* Before the takes *)

Init ==
    /\ MatchInit
    /\ takes \in Corpora /\ options \in Options /\ slow \in BOOLEAN
    /\ spc = "check" /\ thread = "none" /\ k = 1 /\ sent = 0 /\ now = 0 /\ until = 0
    /\ origin = None /\ wallOrigin = None /\ flight = <<>> /\ detections = <<>>
    /\ transport = None /\ overall = NoCounts /\ consultations = 0 /\ error = FALSE
    /\ caused = {} /\ scored = <<>>

Goto(point) == spc' = point

\* The refusals: an empty split, a locked holdout, labels nobody made.
Check ==
    /\ spc = "check"
    /\ Goto(IF takes = <<>> \/ (options.split = "test" /\ ~ options.unlock) \/ Source \notin LabelSources
            THEN "refused" ELSE "listen")
    /\ UNCHANGED <<matchVars, inputs, thread, k, sent, until, origin, wallOrigin, transport, overall, consultations, error,
                   now, flight, detections, caused, scored>>

\* The listener is constructed and started, and the descriptor's address taken apart, all
\* before the try block: a port in use, or an address that cannot be used, ends the run, and
\* in the second case leaves the thread behind.
Listen ==
    /\ spc = "listen"
    /\ \/ thread' = "runs" /\ spc' \in {"calibrate", "failed"}
       \/ thread' = "none" /\ spc' = "failed"
    /\ UNCHANGED <<matchVars, inputs, k, sent, until, origin, wallOrigin, transport, overall, consultations, error,
                   now, flight, detections, caused, scored>>

\* Mutant: the calibration waits until a ping is answered.
MutWaitForPong ==
    /\ spc = "calibrate" /\ transport # None
    /\ Goto("take")
    /\ UNCHANGED <<matchVars, inputs, thread, k, sent, until, origin, wallOrigin, transport, overall, consultations, error,
                   now, flight, detections, caused, scored>>

\* The pings are sent, the pauses slept, and what has come back is the answer.
Calibrate ==
    /\ spc = "calibrate"
    /\ transport' \in {None, Lag}
    /\ Goto("take")
    /\ UNCHANGED <<matchVars, inputs, thread, k, sent, until, origin, wallOrigin, overall, consultations, error,
                   now, flight, detections, caused, scored>>

-----------------------------------------------------------------------------
(* One take *)

SkipTake ==
    /\ spc = "take" /\ k <= Len(takes) /\ ~ Take.usable /\ ~ options.unhealthy
    /\ k' = k + 1
    /\ UNCHANGED <<matchVars, inputs, thread, spc, sent, until, origin, wallOrigin, transport, overall, consultations, error,
                   now, flight, detections, caused, scored>>

\* listener.clear()
Clear ==
    /\ spc = "take" /\ k <= Len(takes) /\ (Take.usable \/ options.unhealthy)
    /\ detections' = <<>>
    /\ Goto("begin")
    /\ UNCHANGED <<matchVars, inputs, thread, k, sent, until, origin, wallOrigin, transport, overall, consultations, error,
                   now, flight, caused, scored>>

\* Mutant: the wall clock's side of the mapping keeps the first take's origin.
MutKeepOrigin ==
    /\ spc = "begin"
    /\ wallOrigin' = (IF wallOrigin = None THEN now ELSE wallOrigin) /\ origin' = None /\ sent' = 0
    /\ Goto("play")
    /\ UNCHANGED <<matchVars, inputs, thread, k, until, transport, overall, consultations, error,
                   now, flight, detections, caused, scored>>

\* play_take up to its loop: the control messages, and the two ends of the mapping.
BeginPlay ==
    /\ spc = "begin"
    /\ wallOrigin' = now /\ origin' = None /\ sent' = 0
    /\ Goto("play")
    /\ UNCHANGED <<matchVars, inputs, thread, k, until, transport, overall, consultations, error,
                   now, flight, detections, caused, scored>>

Upcoming == Take.records[sent + 1]
Due == wallOrigin + (IF origin = None THEN 0 ELSE Upcoming.t - origin)

\* A message goes out once it is due; the descriptor answers a gesture with nothing,
\* one detection, two, or one of another class.  Nobody reads it if the thread has ended.
SendRecord ==
    /\ spc = "play" /\ sent < Len(Take.records) /\ now >= Due
    /\ origin' = IF origin = None THEN Upcoming.t ELSE origin
    /\ sent' = sent + 1
    /\ \E answer \in IF Upcoming.gesture THEN {<<>>, <<Class>>, <<Class, Class>>, <<"other">>} ELSE {<<>>} :
          LET new == [i \in DOMAIN answer |-> [take |-> k, record |-> sent + 1, n |-> i, class |-> answer[i]]] IN
          /\ flight' = IF thread = "runs" THEN flight \o [i \in DOMAIN new |-> [cause |-> new[i], at |-> now]]
                       ELSE flight
          /\ caused' = caused \cup Range(new)
    /\ UNCHANGED <<matchVars, inputs, thread, spc, k, until, wallOrigin, transport, overall, consultations, error,
                   now, detections, scored>>

\* Mutant: the detections are collected as soon as the take has been sent.
MutNoDrain(t) == t

\* The moment up to which run_score sleeps after a take.
DrainEnds(t) == t + Drain

EndPlay ==
    /\ spc = "play" /\ sent = Len(Take.records)
    /\ until' = DrainEnds(now)
    /\ Goto("drain")
    /\ UNCHANGED <<matchVars, inputs, thread, k, sent, origin, wallOrigin, transport, overall, consultations, error,
                   now, flight, detections, caused, scored>>

\* Replayer.to_corpus_time
ToCorpusTime(wall) ==
    IF origin = None \/ wallOrigin = None THEN wall ELSE origin + (wall - wallOrigin)

\* take_detections, filtered by class and mapped, and the call of match_take.
Collect ==
    /\ spc = "drain" /\ now >= until
    /\ LET ours == Ascending({i \in DOMAIN detections : detections[i].cause.class = Class})
           corpusTimes == [i \in DOMAIN ours |-> ToCorpusTime(detections[ours[i]].t)]
       IN /\ MatchTake(References(Take), corpusTimes, Take.ambient, origin)
          /\ scored' = scored \o [i \in DOMAIN ours |->
                                    [cause |-> detections[ours[i]].cause, take |-> k, t |-> corpusTimes[i]]]
    /\ detections' = <<>>
    /\ Goto("match")
    /\ UNCHANGED <<inputs, thread, k, sent, until, origin, wallOrigin, transport, overall, consultations, error,
                   now, flight, caused>>

Match ==
    /\ spc = "match" /\ Matches
    /\ UNCHANGED <<inputs, thread, runVars, now, flight, detections, caused, scored>>

\* Counts.merge
Merge ==
    /\ spc = "match" /\ mpc = "counted"
    /\ overall' = [f \in DOMAIN overall |-> overall[f] + counts[f]]
    /\ k' = k + 1
    /\ Goto("take")
    /\ UNCHANGED <<matchVars, inputs, thread, sent, until, origin, wallOrigin, transport, consultations, error,
                   now, flight, detections, caused, scored>>

-----------------------------------------------------------------------------
(* After the takes *)

LastTake ==
    /\ spc = "take" /\ k > Len(takes)
    /\ Goto("close")
    /\ UNCHANGED <<matchVars, inputs, thread, k, sent, until, origin, wallOrigin, transport, overall, consultations, error,
                   now, flight, detections, caused, scored>>

\* An interrupt, or an error of a socket or of a file, in the try block.
Fail ==
    /\ spc \in {"calibrate", "take", "begin", "play", "drain", "match"}
    /\ error' = TRUE
    /\ Goto("close")
    /\ UNCHANGED <<matchVars, inputs, thread, k, sent, until, origin, wallOrigin, transport, overall, consultations,
                   now, flight, detections, caused, scored>>

\* The finally block: the sockets are closed, the listener's thread joined.
Close ==
    /\ spc = "close"
    /\ flight' = <<>>
    /\ thread' = IF thread = "runs" THEN "stopped" ELSE thread
    /\ Goto(IF error THEN "failed" ELSE IF options.split = "test" THEN "log" ELSE "done")
    /\ UNCHANGED <<matchVars, inputs, k, sent, until, origin, wallOrigin, transport, overall, consultations, error,
                   now, detections, caused, scored>>

\* Mutant: an entry may be written twice.
MutLogHoldout ==
    /\ spc = "log"
    /\ consultations' = consultations + 1
    /\ spc' \in {"log", "done"}
    /\ UNCHANGED <<matchVars, inputs, thread, k, sent, until, origin, wallOrigin, transport, overall, error,
                   now, flight, detections, caused, scored>>

\* _log_holdout
LogHoldout ==
    /\ spc = "log"
    /\ consultations' = consultations + 1
    /\ Goto("done")
    /\ UNCHANGED <<matchVars, inputs, thread, k, sent, until, origin, wallOrigin, transport, overall, error,
                   now, flight, detections, caused, scored>>

Ended == spc \in {"done", "refused", "failed"}

-----------------------------------------------------------------------------
(* The listener's thread, and time *)

MaxLag == IF slow THEN SlowLag ELSE Lag

\* _run and _handle: the detection is stamped when its datagram is read.
Hear ==
    /\ flight # <<>> /\ ~ Ended
    /\ detections' = Append(detections, [cause |-> Head(flight).cause, t |-> now])
    /\ flight' = Tail(flight)
    /\ UNCHANGED <<matchVars, inputs, thread, runVars, now, caused, scored>>

\* A datagram whose arguments are no numbers: float() or int() raises, and the thread ends.
\* Nothing that arrives afterwards is read.
Raise ==
    /\ thread = "runs" /\ ~ Ended
    /\ thread' = "raised" /\ flight' = <<>>
    /\ UNCHANGED <<matchVars, inputs, runVars, now, detections, caused, scored>>

Tick ==
    /\ \/ spc = "play" /\ sent < Len(Take.records) /\ now < Due + MaxLate
       \/ spc = "drain" /\ now < until
    /\ flight # <<>> => now < Head(flight).at + MaxLag
    /\ now' = now + 1
    /\ UNCHANGED <<matchVars, inputs, thread, runVars, flight, detections, caused, scored>>

Run ==
    \/ Check \/ Listen \/ Calibrate \/ SkipTake \/ Clear \/ BeginPlay \/ SendRecord \/ EndPlay
    \/ Collect \/ Match \/ Merge \/ LastTake \/ Close \/ LogHoldout

Next == Run \/ Fail \/ Hear \/ Raise \/ Tick

Spec == Init /\ [][Next]_vars

\* run_score goes on, the descriptor's answers are read, and time passes; nothing fails.
FairSpec == Spec /\ WF_vars(Run) /\ WF_vars(Hear) /\ WF_vars(Tick)

-----------------------------------------------------------------------------
(* What a score means *)

Detection == [take : Nat, record : Nat, n : 1..2, class : {Class, "other"}]

\* Types of the whole run: the options, the take at hand, the mapping of clocks, the
\* detections under way and what became of them.
TypeOK ==
    /\ takes \in Corpora /\ k \in 1..(Len(takes) + 1)
    /\ thread \in {"none", "runs", "raised", "stopped"} /\ (flight # <<>> => thread = "runs")
    /\ spc \in {"check", "listen", "calibrate", "take", "begin", "play", "drain", "match", "close", "log",
               "done", "refused", "failed"}
    /\ now \in Nat /\ until \in Nat /\ sent \in Nat /\ consultations \in 0..1
    /\ origin \in Int \cup {None} /\ wallOrigin \in Nat \cup {None} /\ transport \in {None, Lag}
    /\ \A i \in DOMAIN flight : flight[i].cause \in Detection /\ flight[i].at <= now
    /\ \A i \in DOMAIN detections : detections[i].cause \in Detection /\ detections[i].t \in 0..now
    /\ caused \subseteq Detection
    /\ \A i \in DOMAIN scored : scored[i].cause \in caused /\ scored[i].t \in Int
    /\ mpc \in {"idle", "pair", "counted"} /\ \A f \in DOMAIN overall : overall[f] \in Nat

\* Attribution (scoring.py:285-301): no detection is scored twice; if the descriptor answers
\* before the drain is over, a detection is scored in no take but the one whose message
\* caused it, and every detection of the class is, unless the thread has raised.
ScoredInItsTake ==
    /\ \A i, j \in DOMAIN scored : scored[i].cause = scored[j].cause => i = j
    /\ ~ slow =>
          /\ \A i \in DOMAIN scored : scored[i].cause.take = scored[i].take
          /\ \A c \in caused : c.class = Class /\ c.take < k /\ thread # "raised" =>
                \E i \in DOMAIN scored : scored[i].cause = c

\* No message of the take before the r-th has a later stamp.
InOrder(t, r) == \A j \in 1..r : t.records[j].t <= t.records[r].t

\* The mapping into corpus time (replay.py:164-174): a detection scored in its take lies
\* after the message that caused it, by no more than that message was sent late and the
\* answer took.  The clock of an earlier take never enters it.  (A message that follows one
\* with a later stamp is sent behind that one, however late that makes it.)
CorpusTimeIsHonest ==
    \A i \in DOMAIN scored :
        LET s == scored[i] IN
        s.take = s.cause.take /\ InOrder(takes[s.take], s.cause.record) =>
            s.t - takes[s.take].records[s.cause.record].t \in 0..(MaxLate + MaxLag)

Gestures(t) == {i \in DOMAIN t.records : t.records[i].gesture}
Answers(take, record) == {c \in caused : c.take = take /\ c.record = record /\ c.class = Class}

\* A take in which matching is not in doubt: its messages are in order, its references are
\* its gestures, none is in the settling period, and they lie so far apart that no answer is
\* as near to another gesture as to its own, or in the double-fire window of another's.
ClearCut(t) ==
    /\ \A r \in DOMAIN t.records : InOrder(t, r)
    /\ Range(References(t)) = {t.records[i].t : i \in Gestures(t)} /\ IsInjective(References(t))
    /\ \A i \in Gestures(t) : t.records[i].t - t.records[1].t >= Warmup
    /\ \A i, j \in Gestures(t) :
          i # j => LET apart == Abs(t.records[i].t - t.records[j].t)
                   IN apart > 2 * (MaxLate + Lag) /\ apart > DoubleFireWindow + (MaxLate + Lag)

\* docs/EVALUATION.md 2: a descriptor that answers every gesture of a take at once is
\* credited with all of them, whatever the scheduler did to the replay and to the listener.
\* Each second answer is counted once, and as a double fire when it was read after the first
\* (what one read at the same moment counts as is ExtrasAreDoubleFires' concern).
\* That takes answers that come within the tolerance and within the double-fire window, and
\* a listener that has read them.
PromptAnswersAllCount ==
    (mpc = "counted" /\ spc = "match" /\ ~ slow /\ thread # "raised" /\ ClearCut(Take)
        /\ MaxLate + Lag <= Tolerance /\ Lag <= DoubleFireWindow
        /\ \A i \in Gestures(Take) : Answers(k, i) # {}) =>
        LET at(c) == (CHOOSE s \in Range(scored) : s.cause = c).t
            second == {c \in caused : c.take = k /\ c.class = Class /\ c.n = 2}
            together(c) == \E d \in Answers(k, c.record) : d.n = 1 /\ at(d) = at(c)
        IN /\ counts.matched = Cardinality(Gestures(Take)) /\ counts.settling = 0
           /\ counts.falsePositives + counts.doubleFires = Cardinality(second)
           /\ counts.doubleFires >= Cardinality({c \in second : ~ together(c)})

\* run_score ends: neither a descriptor that never answers the pings, nor a take with no
\* message, nor an error keeps it waiting.
RunEnds == <>Ended

\* docs/FORMAT.md 6, "Appended by `score` whenever the test split is unlocked. One line per
\* unlock": a run that replayed a take of the test split has been logged when it is over.
ConsultationIsLogged ==
    Ended /\ options.split = "test" /\ (k > 1 \/ sent > 0) => consultations = 1
=============================================================================
