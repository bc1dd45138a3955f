----------------------------- MODULE CueSession -----------------------------
(***************************************************************************)
(* A recording session as the operator sees it: the loop of                *)
(* record_session.py that reads keys and starts and stops takes, the cue   *)
(* thread of each cued take (cue.py), what the two share in recorder.py    *)
(* (_take, _cue, _take_finished, the take's counters) and the events and   *)
(* take metadata that session.py writes.                                   *)
(*                                                                         *)
(* Two front ends call the same recorder.  The interactive loop reads a    *)
(* key, ends a take whose schedule has finished, and then obeys the key.   *)
(* The headless loop records one take and ends it with the schedule, with  *)
(* silence or with a signal.                                               *)
(*                                                                         *)
(* The datagrams of a take are the subject of Recorder; how two threads    *)
(* share one line of events.jsonl is the subject of JsonlWriter, and an    *)
(* event is one step here.                                                 *)
(***************************************************************************)
EXTENDS Integers, Sequences, FiniteSets

CONSTANTS
    FrontEnds,     \* the loops to consider: interactive, headless
    Cueing,        \* cue_config.interval_s > 0
    CountIn, Reps, \* cue_config.count_in, cue_config.reps
    Keys,          \* the keys the operator may press
    MaxKeys        \* bound: keys pressed in the session

ASSUME FrontAssumption   == FrontEnds \subseteq {"interactive", "headless"} /\ Cueing \in BOOLEAN
ASSUME NumbersAssumption == CountIn \in Nat /\ Reps \in Nat \ {0} /\ MaxKeys \in Nat \ {0}
ASSUME KeysAssumption    == Keys \subseteq {"space", "a", "x", "r", "n", "q"}

None   == 0        \* no take, no cue engine
NoKey  == "none"   \* read_key's timeout
TakeNumbers == 1..MaxKeys   \* no key starts more than one take

VARIABLES
    front,         \* the loop that runs: stdin is a terminal, or is not
    slow,          \* whether a call of the cue thread may take over a second
    tty, keybuf,   \* keys waiting in the terminal, and in sys.stdin's buffer
    presses,       \* keys pressed so far
    interrupted,   \* headless: the signal handler ran
    pc, todo,      \* the caller: its control point, and the calls that follow
    key, seen,     \* the key it read; history: whether a take was recording then
    kind, status,  \* arguments of start_take and of stop_take
    take, cue,     \* self._take, self._cue: take numbers
    finished,      \* self._take_finished
    takes,         \* session.takes, by number
    nextTake,      \* session._next_take
    events,        \* events.jsonl
    eventsOpen,    \* whether its writer is open
    engines        \* the cue thread of each take

keyVars    == <<front, slow, tty, keybuf, presses, interrupted>>
loopVars   == <<pc, todo, key, seen, kind, status>>
takeVars   == <<take, cue, takes, nextTake>>
eventVars  == <<events, eventsOpen>>
vars == <<keyVars, loopVars, takeVars, finished, eventVars, engines>>

-----------------------------------------------------------------------------
(* Data *)

\* What write_take_meta persists of a take.
Meta == [status : {"unused", "recording", "complete", "aborted"}, bad : BOOLEAN,
         cues : Nat, reps : Nat]

UnusedTake == [kind |-> "none", status |-> "unused", bad |-> FALSE, cues |-> 0, reps |-> 0,
               meta |-> [status |-> "unused", bad |-> FALSE, cues |-> 0, reps |-> 0]]

MetaOf(t)   == [status |-> t.status, bad |-> t.bad, cues |-> t.cues, reps |-> t.reps]
WithMeta(t) == [t EXCEPT !.meta = MetaOf(t)]

\* A cue thread: `held` is the local `take` of _on_cue.
NoEngine  == [pc |-> "off", index |-> 0, stop |-> FALSE, held |-> None]
NewEngine == [pc |-> "wait", index |-> -CountIn, stop |-> FALSE, held |-> None]

Event(what, k, n) == [what |-> what, take |-> k, n |-> n]
Log(e) == events' = Append(events, e) /\ UNCHANGED eventsOpen

recording == take # None

Init ==
    /\ front \in FrontEnds /\ slow \in BOOLEAN
    /\ tty = <<>> /\ keybuf = <<>> /\ presses = 0 /\ interrupted = FALSE
    /\ key = NoKey /\ seen = FALSE /\ status = "complete"
    /\ IF front = "interactive"
       THEN pc = "key" /\ todo = <<>> /\ kind = "cued"
       ELSE /\ pc = "start_take" /\ todo = <<"watch">>
            /\ kind \in IF Cueing THEN {"cued", "ambient"} ELSE {"ambient"}
    /\ take = None /\ cue = None /\ finished = FALSE
    /\ takes = [k \in TakeNumbers |-> UnusedTake] /\ nextTake = 1
    /\ events = <<Event("session_start", None, 0)>> /\ eventsOpen = TRUE
    /\ engines = [k \in TakeNumbers |-> NoEngine]

\* Make the calls in `ops`, then read the next key.
Proceed(ops) ==
    /\ pc'   = IF ops = <<>> THEN "key" ELSE Head(ops)
    /\ todo' = IF ops = <<>> THEN <<>> ELSE Tail(ops)

Return == Proceed(todo) /\ UNCHANGED <<key, seen, kind, status>>
Goto(point) == pc' = point /\ UNCHANGED <<todo, key, seen, kind, status>>

-----------------------------------------------------------------------------
(* The operator *)

Press ==
    /\ front = "interactive" /\ pc # "done" /\ presses < MaxKeys
    /\ \E k \in Keys : tty' = Append(tty, k)
    /\ presses' = presses + 1
    /\ UNCHANGED <<front, slow, keybuf, interrupted, loopVars, takeVars, finished, eventVars, engines>>

\* SIGINT or SIGTERM in a headless session.
Interrupt ==
    /\ front = "headless" /\ pc # "done" /\ ~interrupted
    /\ interrupted' = TRUE
    /\ UNCHANGED <<front, slow, tty, keybuf, presses, loopVars, takeVars, finished, eventVars, engines>>

-----------------------------------------------------------------------------
(* The interactive loop *)

\* read_key: select looks at the terminal, read(1) at sys.stdin, which takes
\* everything the terminal has into its buffer when the buffer is empty.
ReadKey ==
    /\ pc = "key"
    /\ IF tty = <<>>
       THEN key' = NoKey /\ UNCHANGED <<tty, keybuf>>
       ELSE IF keybuf # <<>>
            THEN key' = Head(keybuf) /\ keybuf' = Tail(keybuf) /\ UNCHANGED tty
            ELSE key' = Head(tty) /\ keybuf' = Tail(tty) /\ tty' = <<>>
    /\ seen' = recording
    /\ pc' = "check"
    /\ UNCHANGED <<front, slow, presses, interrupted, todo, kind, status, takeVars, finished, eventVars, engines>>

\* End a take whose schedule has finished, and then obey the key.
EndFinished ==
    /\ pc = "check"
    /\ Proceed(IF recording /\ finished THEN <<"stop_take", "obey">> ELSE <<"obey">>)
    /\ status' = "complete"
    /\ UNCHANGED <<keyVars, key, seen, kind, takeVars, finished, eventVars, engines>>

StopIfRecording == IF recording THEN <<"stop_take">> ELSE <<>>

Obey ==
    /\ pc = "obey"
    /\ \/ /\ key = NoKey
          /\ Proceed(<<>>) /\ UNCHANGED kind
       \/ /\ key = "space"
          /\ Proceed(IF recording THEN <<"stop_take">> ELSE <<"start_take">>)
          /\ kind' = "cued"
       \/ /\ key = "a"
          /\ Proceed(IF recording THEN <<>> ELSE <<"start_take">>)
          /\ kind' = "ambient"
       \/ /\ key = "x"
          /\ Proceed(<<"mark_last_take">>) /\ UNCHANGED kind
       \/ /\ key = "r"
          /\ kind' = IF recording THEN takes[take].kind ELSE "cued"
          /\ Proceed(StopIfRecording \o <<"mark_last_take", "start_take">>)
       \/ /\ key = "n"
          /\ Proceed(<<"note">>) /\ UNCHANGED kind
       \/ /\ key = "q"
          /\ Proceed(StopIfRecording \o <<"close">>) /\ UNCHANGED kind
    /\ UNCHANGED <<keyVars, key, seen, status, takeVars, finished, eventVars, engines>>

\* Control-C while the loop waits for a key: recorder.stop() aborts the take.
KeyboardInterrupt ==
    /\ front = "interactive" /\ pc = "key"
    /\ Proceed(StopIfRecording \o <<"close">>)
    /\ status' = "aborted"
    /\ UNCHANGED <<keyVars, key, seen, kind, takeVars, finished, eventVars, engines>>

\* read_line takes what was typed up to the return key; an empty text is no note.
Note ==
    /\ pc = "note"
    /\ Log(Event("note", None, 0)) \/ UNCHANGED eventVars
    /\ tty' = <<>> /\ keybuf' = <<>>
    /\ Return
    /\ UNCHANGED <<front, slow, presses, interrupted, takeVars, finished, engines>>

-----------------------------------------------------------------------------
(* The headless loop *)

\* A signal, the end of the schedule, or no traffic for idle_timeout_s, which
\* may be at any time.
Watch ==
    /\ pc = "watch"
    /\ Proceed(<<"stop_take", "close">>)
    /\ UNCHANGED <<keyVars, key, seen, kind, status, takeVars, finished, eventVars, engines>>

-----------------------------------------------------------------------------
(* start_take *)

\* session.start_take: a number, the metadata, the event.
OpenTake ==
    /\ pc = "start_take" /\ nextTake \in TakeNumbers
    /\ takes' = [takes EXCEPT ![nextTake] =
                     WithMeta([UnusedTake EXCEPT !.kind = kind, !.status = "recording"])]
    /\ nextTake' = nextTake + 1
    /\ Log(Event("take_start", nextTake, 0))
    /\ Goto("arm")
    /\ UNCHANGED <<keyVars, take, cue, finished, engines>>

ArmTake ==
    /\ pc = "arm"
    /\ take' = nextTake - 1
    /\ Goto("clear")
    /\ UNCHANGED <<keyVars, cue, takes, nextTake, finished, eventVars, engines>>

MutKeepFinished ==
    /\ pc = "clear"
    /\ Goto("launch")
    /\ UNCHANGED <<keyVars, takeVars, finished, eventVars, engines>>

ClearFinished ==
    /\ pc = "clear"
    /\ finished' = FALSE
    /\ Goto("launch")
    /\ UNCHANGED <<keyVars, takeVars, eventVars, engines>>

MutCueAnyTake ==
    /\ pc = "launch"
    /\ IF Cueing
       THEN cue' = take /\ engines' = [engines EXCEPT ![take] = NewEngine]
       ELSE UNCHANGED <<cue, engines>>
    /\ Return
    /\ UNCHANGED <<keyVars, take, takes, nextTake, finished, eventVars>>

LaunchCue ==
    /\ pc = "launch"
    /\ IF kind = "cued" /\ Cueing
       THEN cue' = take /\ engines' = [engines EXCEPT ![take] = NewEngine]
       ELSE UNCHANGED <<cue, engines>>
    /\ Return
    /\ UNCHANGED <<keyVars, take, takes, nextTake, finished, eventVars>>

-----------------------------------------------------------------------------
(* stop_take *)

StopCue ==
    /\ pc = "stop_take"
    /\ IF cue = None THEN UNCHANGED engines
       ELSE engines' = [engines EXCEPT ![cue].stop = TRUE]
    /\ Goto("join")
    /\ UNCHANGED <<keyVars, takeVars, finished, eventVars>>

MutJoinNothing == TRUE

\* The thread has ended, or a call it is making takes longer than the second
\* join waits.  A thread that waits for its next cue is woken by the stop event.
Joined ==
    cue # None => \/ engines[cue].pc = "done"
                  \/ slow /\ engines[cue].pc # "wait"

JoinCue ==
    /\ pc = "join"
    /\ Joined
    /\ cue' = None
    /\ Goto("disarm")
    /\ UNCHANGED <<keyVars, take, takes, nextTake, finished, eventVars, engines>>

\* `take = self._take; self._take = None`, and the status end_take gives it.
DisarmTake ==
    /\ pc = "disarm"
    /\ takes' = [takes EXCEPT ![take].status = status]
    /\ take' = None
    /\ Goto("end_event")
    /\ UNCHANGED <<keyVars, cue, nextTake, finished, eventVars, engines>>

LastTake == nextTake - 1

\* What end_take logs of take k; of an aborted one, no repetitions.
EndOf(k) == IF takes[k].status = "complete" THEN Event("take_end", k, takes[k].reps)
            ELSE Event("take_abort", k, 0)

EndEvent ==
    /\ pc = "end_event"
    /\ Log(EndOf(LastTake))
    /\ Goto("end_meta")
    /\ UNCHANGED <<keyVars, takeVars, finished, engines>>

EndMeta ==
    /\ pc = "end_meta"
    /\ takes' = [takes EXCEPT ![LastTake] = WithMeta(@)]
    /\ Return
    /\ UNCHANGED <<keyVars, take, cue, nextTake, finished, eventVars, engines>>

-----------------------------------------------------------------------------
(* mark_last_take, and the end of the session *)

MarkLastTake ==
    /\ pc = "mark_last_take"
    /\ IF LastTake = None THEN UNCHANGED <<takes, eventVars>>
       ELSE /\ takes' = [takes EXCEPT ![LastTake] = WithMeta([@ EXCEPT !.bad = TRUE])]
            /\ Log(Event("take_mark", LastTake, 0))
    /\ Return
    /\ UNCHANGED <<keyVars, take, cue, nextTake, finished, engines>>

\* recorder.stop() finds no take; session.close() logs the end of the session.
Close ==
    /\ pc = "close"
    /\ events' = Append(events, Event("session_end", None, 0))
    /\ eventsOpen' = FALSE
    /\ Goto("done")
    /\ UNCHANGED <<keyVars, takeVars, finished, engines>>

-----------------------------------------------------------------------------
(* The cue thread of take e *)

Engine(e, point) == [engines[e] EXCEPT !.pc = point]
SetEngine(e, to) ==
    engines' = [engines EXCEPT ![e] = to] /\ UNCHANGED <<keyVars, loopVars, nextTake, take, cue>>

\* The stop event, at any of the three places that look at it.
CueStopped(e) ==
    /\ engines[e].pc = "wait" /\ engines[e].stop
    /\ SetEngine(e, Engine(e, "done"))
    /\ UNCHANGED <<takes, finished, eventVars>>

\* The deadline passes; the cue is sent.
EmitCue(e) ==
    /\ engines[e].pc = "wait" /\ ~engines[e].stop
    /\ SetEngine(e, Engine(e, "on_cue"))
    /\ UNCHANGED <<takes, finished, eventVars>>

\* _on_cue reads the open take, without the lock.
ReadTake(e) ==
    /\ engines[e].pc = "on_cue"
    /\ SetEngine(e, [engines[e] EXCEPT !.pc = IF recording THEN "count" ELSE "next",
                                       !.held = take])
    /\ UNCHANGED <<takes, finished, eventVars>>

Armed(e) == engines[e].index >= 0

MutCountEveryCue(e) ==
    /\ engines[e].pc = "count"
    /\ takes' = [takes EXCEPT ![engines[e].held].cues = @ + 1,
                              ![engines[e].held].reps = @ + 1]
    /\ SetEngine(e, Engine(e, "event"))
    /\ UNCHANGED <<finished, eventVars>>

CountCue(e) ==
    /\ engines[e].pc = "count"
    /\ takes' = [takes EXCEPT ![engines[e].held].cues = @ + 1,
                              ![engines[e].held].reps = IF Armed(e) THEN engines[e].index + 1
                                                                    ELSE @]
    /\ SetEngine(e, Engine(e, "event"))
    /\ UNCHANGED <<finished, eventVars>>

\* Writing to a closed file raises, and the exception ends the thread.
CueEvent(e) ==
    /\ engines[e].pc = "event"
    /\ IF eventsOpen
       THEN /\ SetEngine(e, Engine(e, "next"))
            /\ Log(Event("cue", engines[e].held, engines[e].index))
       ELSE /\ SetEngine(e, Engine(e, "done"))
            /\ UNCHANGED eventVars
    /\ UNCHANGED <<takes, finished>>

MutLastCue(e) == Armed(e) /\ engines[e].index >= Reps

LastCue(e) == Armed(e) /\ engines[e].index >= Reps - 1

MutForgetFinished(e) ==
    /\ engines[e].pc = "next"
    /\ SetEngine(e, [engines[e] EXCEPT !.pc = IF LastCue(e) THEN "done" ELSE "wait",
                                       !.index = @ + 1, !.held = None])
    /\ UNCHANGED <<takes, finished, eventVars>>

\* The next index, or the end of the schedule and on_finished.
NextCue(e) ==
    /\ engines[e].pc = "next"
    /\ SetEngine(e, [engines[e] EXCEPT !.pc = IF LastCue(e) THEN "done" ELSE "wait",
                                       !.index = @ + 1, !.held = None])
    /\ finished' = (finished \/ LastCue(e))
    /\ UNCHANGED <<takes, eventVars>>

CueThread(e) ==
    CueStopped(e) \/ EmitCue(e) \/ ReadTake(e) \/ CountCue(e) \/ CueEvent(e) \/ NextCue(e)

-----------------------------------------------------------------------------

StartTake == OpenTake \/ ArmTake \/ ClearFinished \/ LaunchCue
StopTake  == StopCue \/ JoinCue \/ DisarmTake \/ EndEvent \/ EndMeta

\* What the caller's thread does without waiting for the operator.
Caller == ReadKey \/ EndFinished \/ Obey \/ StartTake \/ StopTake \/ MarkLastTake \/ Close

MutIgnoreSignal == finished /\ Watch

\* The headless loop looks every 50 ms; that a silence ends the take is left
\* to the traffic.
WatchDue == (interrupted \/ finished) /\ Watch

Next ==
    \/ Press \/ Interrupt
    \/ Caller \/ Note \/ KeyboardInterrupt \/ Watch
    \/ \E e \in TakeNumbers : CueThread(e)

Spec == Init /\ [][Next]_vars

\* The threads are scheduled; the operator, the traffic and the signals are not.
FairSpec ==
    /\ Spec
    /\ WF_vars(Caller) /\ WF_vars(WatchDue)
    /\ \A e \in TakeNumbers : WF_vars(CueThread(e))

-----------------------------------------------------------------------------
(* Properties.  Those about the order of cues assume that no call of the   *)
(* cue thread takes more than the second its join waits (~slow).           *)

TypeOK ==
    /\ tty \in Seq(Keys) /\ keybuf \in Seq(Keys) /\ presses \in 0..MaxKeys
    /\ front \in FrontEnds /\ slow \in BOOLEAN
    /\ interrupted \in BOOLEAN /\ seen \in BOOLEAN /\ key \in Keys \cup {NoKey}
    /\ kind \in {"cued", "ambient"} /\ status \in {"complete", "aborted"}
    /\ take \in {None} \cup TakeNumbers /\ cue \in {None} \cup TakeNumbers
    /\ finished \in BOOLEAN /\ eventsOpen \in BOOLEAN
    /\ nextTake \in 1..(MaxKeys + 1)
    /\ \A k \in TakeNumbers : /\ takes[k].kind \in {"none", "cued", "ambient"}
                              /\ takes[k].meta \in Meta /\ MetaOf(takes[k]) \in Meta
                              /\ engines[k].index \in -CountIn..Reps
                              /\ engines[k].held \in {None} \cup TakeNumbers

\* The events of take k, as indices of the log.
EventsOf(k) == {i \in DOMAIN events : events[i].take = k}
CuesOf(k)   == {i \in EventsOf(k) : events[i].what = "cue"}

\* The cue events of a take lie between its start and its end, and carry the
\* indices of one schedule from the count-in on, none missing and none twice.
CuesAreOneSchedule ==
    ~slow => \A k \in TakeNumbers : \A i \in CuesOf(k) :
        /\ \E s \in EventsOf(k) : s < i /\ events[s].what = "take_start"
        /\ \A s \in EventsOf(k) : events[s].what \in {"take_end", "take_abort"} => i < s
        /\ events[i].n = Cardinality({j \in CuesOf(k) : j < i}) - CountIn

\* Of an ended take, the metadata on disk, the reps of its take_end event and
\* its cue events tell the same story.
EndedTakeCountsCues ==
    \A k \in TakeNumbers :
        (~slow /\ takes[k].status \in {"complete", "aborted"} /\ ~(k = LastTake /\ pc \in {"end_event", "end_meta"}))
        => /\ takes[k].meta = MetaOf(takes[k])
           /\ takes[k].meta.cues = Cardinality(CuesOf(k))
           /\ takes[k].meta.reps = Cardinality({i \in CuesOf(k) : events[i].n >= 0})
           /\ \A i \in EventsOf(k) : events[i].what = "take_end" => events[i].n = takes[k].reps

\* When the loop finds a take finished, it is a cued take whose every cue was
\* given and written: the end of one schedule never ends another take.
FinishedMeansWhole ==
    (~slow /\ recording /\ finished /\ pc # "clear") =>
        /\ takes[take].kind = "cued"
        /\ takes[take].reps = Reps /\ takes[take].cues = CountIn + Reps
        /\ Cardinality(CuesOf(take)) = CountIn + Reps

\* Between takes and in an ambient take no cue thread is alive.
NoStrayCueThread ==
    ~slow => \A e \in TakeNumbers :
        engines[e].pc \notin {"off", "done"} => e = cue /\ take = cue /\ takes[e].kind = "cued"

\* A cued take left alone ends by itself, unless the operator is typing a note;
\* stop_take always comes back from the cue thread.
ScheduleEndsTake ==
    \A k \in TakeNumbers :
        (take = k /\ takes[k].kind = "cued") ~> (take # k \/ pc = "note")

\* A signal ends a headless session, whenever it arrives and whatever the cue
\* thread is doing.
SessionEnds == interrupted ~> pc = "done"

\* Refuted.  SPEC_V1.md and UI.md: space is "start/stop take".  A space read
\* while a take was recording leaves no take recording.
SpaceStopsTake ==
    (pc = "key" /\ key = "space" /\ seen) => ~recording

\* Refuted.  SPEC_V1.md: r is "redo last take".  The take that r starts has the
\* kind of the take it marks bad.
RedoKeepsKind ==
    (pc = "arm" /\ key = "r" /\ LastTake > 1) => takes[LastTake].kind = takes[LastTake - 1].kind

\* Refuted.  keys.py: read_key is to "Return one keypress, or None if `timeout`
\* elapses first".  A key that was pressed is read, or the loop has ended or
\* waits for a note.
PressedIsRead ==
    (keybuf # <<>>) ~> (keybuf = <<>> \/ pc \in {"note", "done"})
=============================================================================
