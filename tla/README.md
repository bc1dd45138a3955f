# Verification of puara-creator

TLA+ modules, TLC configurations and TLAPS proofs kept beside the code of puara-creator, the tool that records gesture
sessions from OSC instruments, labels them, replays them and scores recognisers against them. Paths below are relative to
`src/src/puara_creator/` unless they begin with `docs/` or `tests/`.

`PROJECT.json` ties every definition to its source lines, and lists the runs, the mutants, the findings, the hazards and the
theorems. The modules are:

| Module | What it is |
| --- | --- |
| `Recorder` | the capture threads and the life of a take: socket buffer, receiver, processor, caller |
| `TakeLog`, `RecorderRefinement` | what the recorder promises, and the mapping under which `Recorder` implements it |
| `RecorderProofs` | proofs about `Recorder`, and that it implements `TakeLog` |
| `JsonlWriter`, `JsonlProofs` | an append-only file with several writers, a buffer, fsync, crashes and reopening; proofs |
| `CueSession`, `CueProofs` | the keyboard and headless loops, the cue threads, the events and the counts they leave; proofs |
| `Corpus` | session directories: recordings that create and fill them, kills, and a reader that goes through them |
| `WebCapture`, `WebCaptureMC` | the server's handlers and event loop, over `Corpus`; values for TLC |
| `CaptureProofs` | proofs about `Corpus` and `WebCapture` together |
| `Matching` | the pairing of detections with references, and its outcomes |
| `Scoring`, `ScoringMC`, `ScoringProofs` | a scoring run from its refusals to the holdout log, over `Matching`; values for TLC; proofs about both |
| `Health`, `HealthProofs` | counters and verdict of one address, over senders and links of several kinds; proofs |
| `Labelling`, `LabellingMC`, `LabellingProofs` | labels from cues, by runs of which several may append to one session; values for TLC; proofs |
| `Replay`, `ReplayMC` | the replay command: a selector, then its takes with the timing of the recording, once or in a loop; values for TLC |
| `Positions` | the positions a comprehension keeps, in the order of the list; used by `Scoring`, `Replay` and `Labelling` |
| `Inductions` | lemmas: the least natural that takes the place of induction, sums over integer functions, lists in ascending order |

Each configuration has the name of the module or of the claim it checks; a run takes from a second to a minute and a half.

## 1. Inventory

### The parts, their state and what makes them right

**Recorder** (`recorder.py`). State: the socket; `_queue`; `_stop`; `_lock`; `_take`, `_take_seq`, `_drops_at_take_start`;
the counters `_total_messages`, `_malformed`, `_idle_health`; `_cue`, `_take_finished`. Operations: `start`, `start_take`,
`stop_take`, `mark_last_take`, `stop`, `snapshot` on the caller's thread; `_receive_loop` and `_process_loop` on their own
threads; `_on_cue` on the cue thread. Hard: four threads, a lock that covers only part of what they share, a queue between
the moment a datagram is stamped and the moment it is routed, drops counted by the kernel. Right when: a message is
delivered once, in order, to the take that is open; nothing is written to a take that is being closed; counts, drops and
metadata agree with the file; stopping always returns.

**JSONL writer and reader** (`jsonl.py`). State: a file handle, its buffer, the last flush. Operations: `write`, `flush`,
`close`, `read_jsonl`, `write_json`. Hard: a line is two writes with no lock; the flush is tried only by the next write;
crashes; tools that append later. Right when: what can be read is an unbroken beginning, the loss is bounded, forced bytes stay.

**Session** (`session.py`). State: the session directory, `takes`, `_next_take`, `events.jsonl`, `meta.json` and one
metadata file per take. Operations: creation, `start_take`, `end_take`, `mark_take`, `event`, `note`, `close`. Hard: two
threads log events; a crash between a file and its metadata. Right when: numbers are unique, metadata matches the file,
a crashed session is recognisable and readable.

**Cue engine** (`cue.py`) and **recording loops** (`record_session.py`, `keys.py`). State: one thread per cued take with
its index and stop event, the flag `_take_finished`, the key being obeyed, keys not yet read. Operations: the schedule, stop
with a join that gives up after a second, nine key actions, the headless loop. Hard: the schedule ends while a key is being
obeyed; one flag for all takes; the cue thread counts into a take another thread is ending. Right when: a take's cues are one
schedule inside the take, counts on disk agree with the log, a cued take ends by itself and ends no other.

**Web front end** (`web.py`, `static/index.html`). State: `CaptureState`, one per server. Operations: probe, start, stop,
action, telemetry, relabel, manual label, score. Hard: a handler awaits between checking the state and setting it; nobody
looks at `_take_finished`; labels are appended to a session that may still be recording. Right when: at most one recorder
runs and it is the one the state names; every session that was opened is closed.

**Corpus reader** (`read.py`). Operations: `load_session`, `load_corpus`, take selection, `usable`, labels by source. Hard:
sessions that crashed, were left `recording`, or belong to another split. Right when: aborted, bad and failed takes are
excluded and the splits are disjoint by subject.

**Labelling** (`labelling.py`, `commands.py`). Operations: activity signal, refinement in a window, alignment, relabelling.
Hard: windows that overlap, a fallback between methods, appending twice. Right when: a cue has at most one label per set, and
labels lie in their windows.

**Replay** (`replay.py`). State: the two ends of the mapping between wall and corpus time (`origin`, `wall_origin`), the take and the message at
hand. Operations: select, announce a take, send a message when it is due, end it, go round. Hard: a scheduler that wakes it late, takes with nothing to
send, filters and prefixes, a torn line. Right when: what is sent is the recording, in its order and with its intervals, and a playback ends.

**Scoring** (`scoring.py`). State: the listener's thread and list, the transport offset, the holdout log. Operations: listen, clear, play a
take, drain, collect, match, log the consultation. Hard: detections that arrive late, from another take or malformed; errors; the log written
last. Right when: a detection is attributed to the take that caused it, and a consultation of the test split is always counted.

**Matching** (`metrics.py`). A pure algorithm: greedy assignment of detections to references, double fires, settling. Right
when: the assignment is one to one, within tolerance, and every detection is counted once.

**Stream health** (`health.py`). State: per-address counters. Operation: `observe`. Hard: reordering, restarts and gaps of
the device's sequence number. Right when: what is reported lost was lost.

**Others.** OSC parsing (`oscparse.py`) appears as the number of messages in a datagram. Namespace schemas
(`namespace.py`), the clock (`clock.py`), rendering (`tui.py`), reports (`report.py`) and argument parsing (`cli.py`) keep no
state that another part can observe out of order; they are not modelled.

### How they interact

```
 instrument --UDP--> kernel buffer --> receiver --queue--> processor --(lock)--> take file / idle counters
                                                                ^
 keyboard / HTTP --> caller: start_take, stop_take, mark ---(lock)
                        |        ^ _take_finished
                        v        |
                     cue thread -+--> events.jsonl <-- caller (take_start, take_end, note, mark)
                                            ^
 labelling run, web labels -----------------+ (append, later or at the same time)

 session directories --> reader --> labelling, replay --> device under test --> listener --> matching --> report, holdout log
```

### What is hard here

`PROJECT.json` lists the hazards with their lines. They fall into five groups: the routing of a message against the start and
end of a take; the two threads that log events; crashes around buffered files and metadata; flags and states read at one
moment and acted upon at another (`_take_finished`, the key, `CaptureState`, the split check); and evaluation, where late or
failing steps change what a score means.

## 2. Plan

What loses recorded data came first, then what makes a corpus unreadable or untrue, then what makes a score mean something
else. Done, in this order: `Recorder` with `TakeLog`; `JsonlWriter`; `CueSession`; `Corpus` and `WebCapture`; `Matching` and
`Scoring`; `Health`; `Labelling`; `Replay`.

Proved, for every value of the constants: each safety property of every passing run but `replay`'s (the refinement of `TakeLog` among them). `PROJECT.json`
lists the theorems. What is checked under fairness is left to TLC alone: `ENABLED` and liveness are beyond the prover.

Left, by what it would add:

1. Errors inside the capture threads: the processor ending on a write error.
2. Proofs about `Replay`: its order is an induction over the lines of a file, its intervals are not.

Composition: `RecorderRefinement` instantiates `TakeLog`; `WebCapture` extends `Corpus`; `Scoring` extends `Matching` and calls it.
`Scoring`, `Replay` and `Labelling` take the comprehensions of their sources from `Positions`.
`CueSession` abstracts `Recorder` to the open take and its counters (the datagrams do not influence the loops except through
the idle timeout, which may fire at any time). `Corpus` takes a take to be what a reader can tell of it (a file that is absent, open or closed;
metadata; events): what is inside a file is `JsonlWriter`'s. `Scoring` takes labels and usability as given: they are what `Labelling`, `Corpus` and `Health` say.

## 3. Recorder

### Correspondence

Each thread has a control point (`rpc`, `ppc`, `cpc`) and each action is the code between two points where another thread can
interfere. The receiver: `TestStop`, `RecvFrom` (the stamp is taken here), `RecvNothing`, `QueuePut`. The processor:
`GetDatagram`, `GetEmpty` (the 0.1 s timeout, and the way out after `_stop`), `CountMalformed`, `TakeMalformed`, `AcquireLock`,
`CountMessage` (which routes), then `ObserveIdle`, or `ObserveTake` and `WriteRecord`, and `ReleaseLock`, once per message of a bundle. The caller: `Start`,
`StartTake` (the session opens the take, its metadata and file), `ReadBaseline`, `ArmTake` (under the lock), `StopTake`, `DisarmTake` (under the lock),
`ReadDrops`, `EndTake`, `MarkLastTake`, `Stop`, `FinishStop`. Each thread's disjunct of `Next` conjoins what that thread cannot touch.

Abstracted: a datagram is the number of messages it holds (0 malformed, 1 bare, n a bundle); its index in `received` is its
identity. The clock counts take boundaries: it advances exactly when a `t_start` or `t_end` is stamped, so comparing stamps
tells on which side of a boundary a datagram arrived. The kernel's buffer and drop counter are external.

### Runs

`recorder` (`Recorder.cfg`, 2.3 million states, one minute): two datagrams of up to two messages or malformed, a receive buffer of
one, two takes, two marks. Two takes are the least in which a line can land in the wrong one; two datagrams are enough to have one in each
thread's hands and to overflow the buffer; a bundle of two is the least that a take boundary can cut. It checks

- `WritesIntoOpenTake`: between the routing decision and the write the take is the open one;
- `TakesAreUnbroken`: a take file is an unbroken run of the arrival order, numbered from 0;
- `SnapshotIsAccounted`: whenever the lock is free, every counted message has been written to a take, which is to its file or to the writer's buffer, or is in the idle
  counters (that a message is on disk before it is displayed, as `docs/SPEC_V1.md` 2.1 asks, is refuted by `JsonlDisplay.cfg`);
- `EndedMetaMatchesFile`, `EndedTakesAreFinal`: an ended take and its metadata are final and agree, even
  though `mark_last_take` rewrites metadata without the lock;
- `DropsInTakeAreReported`: what the kernel dropped during a take is in its `socket_drops`;
- `ImplementsTakeLog`: every behaviour is one of `TakeLog`, in which a message is delivered once, in arrival order, to the take open
  at that moment or outside every take.

`recorder_live` (`RecorderLive.cfg`): `ReceivedIsHandled`, `StopEndsThreads`, `StopTakeReturns` under `FairSpec`. Fairness: each
thread is weakly fair, because the interpreter and the system schedule all runnable threads; a call the caller has begun goes on, but beginning one is
not fair, so nothing depends on the operator. No strong fairness is assumed for the lock: `threading.Lock` promises no order, and a caller that waits for it is
served because the datagrams, finite in the model, leave pauses. Under traffic that never pauses these runs show nothing of who gets the lock.

### Proofs

For any sizes, buffer, number of datagrams, takes and marks, `RecorderProofs` proves every safety property of the run. None of them is
inductive. The invariant has these parts:

- `TypeInv`, split by the thread that owns the variables; `LockInv`, which ties the lock's holder to the control points (the processor
  between `AcquireLock` and `ReleaseLock`); `TakeInv`, which says what every take looks like at each control point of the caller (the open
  take has an open writer and has not ended, a take being ended is no longer the open one, an ended take's metadata agrees with it);
  `CountInv`, which ties a take's count to the length of its file, with the one message in between accounted for. They give `TypeCorrect`,
  `WriteSafe`, `EndedFinal` and `EndedMetaCorrect`: the lock is why `WriteSafe` holds, and `TakeInv` with the lock is why `EndedFinal` does.
- `FlowInv`: the datagrams pass one behind the other, those pulled first, then the queue, then the one the receiver is about to put;
  `OrderInv`: every file is in order, and what is in the processor's hands, or nothing at all, can follow the last line of the open take. They give `TakesUnbroken`.
- `FreshInv`, `TotalInv`, `DropInv`: takes not begun are untouched, the total is the sum over the files and the idle counters but for the message under way, and the drop
  counter's baseline separates the drops of the open take from those before it. With the sums of `Inductions` they give `SnapshotAccounted` and `DropsReported`.
- `HeldInv`: a datagram is in hand exactly between taking it up and being done with it. `TakeLogImplemented` rests on all of these: `PendingWaits` says that
  hands, queue and receiver together hold exactly the messages from the first undelivered one on (`Waiting`), so `RecvFrom` maps to `Arrive`,
  `ObserveIdle` and `WriteRecord` to `Deliver` of the earliest, `ArmTake`, `DisarmTake` and `EndTake` to `Open`, `Close` and `End`, and every other step to a stutter.

They rest on the named assumptions of `Recorder` only: sizes and bounds are natural numbers. Only liveness is left to TLC.

## 4. JsonlWriter

One handle at a time. `write` is `Stamp` (its caller reads the clock), `WriteJson`, `WriteNewline`, `TestFlush`, `Flush`, `Sync`; `Close` shares the last two.
`Buffered` is the library's buffered writer: what does not fit sends the whole buffer to the system first. A record's text is two
halves, so that `Crash` can tear it: `kill -9` keeps what the system has, a power failure keeps at least what was forced to
disk. `Reopen` is a labelling run. `Decodes` and `ReadRecords` are `read_jsonl`: a line is read when it is exactly one record. A take file has one thread
and a timed flush; `events.jsonl` has several and an interval of 0; both are in one run, chosen in `Init`.

`jsonl` (`JsonlWriter.cfg`, 1.7 million states): two threads, three records, a buffer of five units, so that it overflows between a text and its newline, an interval of two ticks
in four, two openings. `ReadsABeginning`: what can be read of a take file is an unbroken beginning of what was written, after any crash. `LossIsBounded`: of
two records whose writes returned, the earlier is on disk or was returned less than an interval before the later: a crash costs less than an interval of what was written before the last write. (Two more properties are proved and not in the run: `ClosedIsComplete`, that a closed take file is whole, and `SyncedIsKept`, that no write, crash or later append changes what was forced to disk.)
The run allows deadlock: a closed or crashed file is the end. `JsonlSilence.cfg` and `JsonlDisplay.cfg` refute what the documents say beyond that: that a crash costs at most a second of data also when the
stream falls silent, and that a message is on disk before it is displayed.

Proved (`JsonlProofs`), for any threads, capacity, interval and bounds: all five properties. `JsonlTypeCorrect` and `SyncedKept`: the file only grows, except at
a crash, which cuts it no shorter than what was forced; two lemmas on sequences, about appending and about cutting, carry it. The other three
need to know what is where: every unit of a take file lies at the place its record and its part give it (`InPlace`), and `StreamInv` ties the length of file and buffer to the
records stamped, by what the one writer has still to write. From it follows what a reader decodes, without an induction over the file:
a file whose units are in place decodes at the first unit of each of its complete records and nowhere else (`ReadCount`). That gives `ReadBeginning` and `ClosedComplete`. `LossInv` adds where each record is (in the
file, forced, or young) by the time of the last flush, and gives `LossBounded`.

## 5. CueSession

The caller has one control point and a list of calls still to make in this iteration (`todo`): `ReadKey`, `EndFinished` (a finished schedule ends the
take before the key is obeyed), `Obey`, which queues the calls of the key, and then the steps of `start_take`, `stop_take`, `mark_last_take`, the note and the close.
The cue thread of take e: `CueStopped` or `EmitCue`, `ReadTake` (without the lock), `CountCue`, `CueEvent`, `NextCue`, which sets `_take_finished` after the last armed cue.
`ReadKey` keeps the terminal and `sys.stdin`'s buffer apart, as `select` and `read(1)` do. The headless loop is `Watch`. What `Recorder` models (datagrams, lock, drops) is left out; the event that ends a
take is `EndOf` its status (`take_end` with the repetitions, or `take_abort` with none); events are written in one step, `JsonlWriter`
says what two threads do to a line.

`slow` says whether a call of the cue thread may outlast the second its join waits. The four safety properties about cues assume that none does: with a
stalled thread a late cue can land in the next take. Liveness is checked in both cases. Control-C is modelled where the
loop waits for a key, not in the middle of a call.

`cue_session` (`CueSession.cfg`, 122 thousand states): both front ends, a count-in of one and two repetitions, any two keys at any moments: enough for two takes, a schedule
that ends while a key is obeyed, and a flag left over from one take to the next. (Three keys without `slow` and without liveness were checked as well when the model was built.)
`CuesAreOneSchedule`, `EndedTakeCountsCues`, `FinishedMeansWhole`, `NoStrayCueThread`; and, under `FairSpec`, `ScheduleEndsTake` and `SessionEnds`. Fairness is
weak, per thread: `read_key` times out twelve times a second, so the loop never waits for the operator, except in a note; the operator, the traffic and the signals
are not fair. The run allows deadlock: a finished session is the end.

`CueProofs` proves the type invariant and the four safety properties, for either front end, any keys and number of them, any count-in and number of repetitions.
The invariant is `Inv == BaseInv /\ (~slow => QuickInv)`. `BaseInv` holds with slow threads too: the calls still to make at each point of the caller (`CallInv`), which take records (`TakeInv`), whose
engine the recorder holds (`CueInv`), what the log knows (`LogInv`). `QuickInv` is what the join gives: a live thread is the one of the open take (`ThreadInv`), its counters, its index and
the log differ by what it is in the middle of (`CountInv`), cues lie inside their take in order (`OrderInv`), and what was persisted of an ended take is what it was (`EndInv`).
They are inductive only together: that no cue is counted after the take's end is `ThreadInv`, which needs the caller's points from `BaseInv`. Liveness is model-checked.

## 6. Corpus and WebCapture

### Correspondence

A recording r goes through the points of `pc[r]`. On the command line: `CheckSplit`, `Resolve` (the namespace), then the constructor of
`Session` in its own steps (`PickName`, `MakeDirectory`, `WriteMeta`, `BeginSession`), `StartRecorder`; a take is `OpenTake`, `FirstTakeMeta`,
`TakeStart`, then `StopTake`, `CloseFile`, `EndEvent`, `EndMeta`; `MarkTake` (the event) and `MarkMeta`, `StopSession` and `CloseSession` complete it. One step is one
change of the disk, because a reader or a kill may come between any two: `write_json` replaces a whole document, a data file is absent, open or closed. `Kill` may
come anywhere. Files and events are indexed by the session's identifier and not by the recording, so two recordings that had
one directory would be seen to mix.

The server (`WebCapture`) runs the same steps under one event loop: `loop` is the recording whose handler has it, and between the first and
the last step of a handler nothing else of the server runs, while other processes and readers do. The one await of `capture_start` is where
`loop` is given up (`CaptureStart` without a schema, then `Inferred`). `overlapped` remembers that a start went past its check while another one awaited its probe. `Construct` sets the state after the recorder has started;
`Act` and `Complete` are an operation and the rest of its handler. `KillServer` ends every recording of the server; the server may start again.

The reader: `ListSessions`, `ReadSession` (which lists the takes that have metadata), `ReadTake` (which needs the data file), `NextSession`, or `NoSession`, the error on an empty corpus. `view` is what it took.

### Runs

`capture` (`WebCapture.cfg`, 3.3 million states, about a minute): two recordings of one subject, each of the command line or of the server, with either
split, all in one second so that they compete for an identifier; two takes and one mark over both, so that a session has two takes or two sessions have one;
one reader. Two recordings are the least that can race; the reader passes once, at any speed. Recordings are interchangeable, and so are splits: both are symmetric. The run allows deadlock: when all is
recorded and read nothing is left to do.

- `ReaderNeverFails`: metadata never exists without its data file, whose absence makes `load_corpus` raise; the constructor and `start_take` write in
  the right order for it, whoever reads when;
- `UsableIsFinal`: what a reader took for usable is closed, ended in the events, and still complete whatever happens later; a take in which the
  process was killed is never usable;
- `OneHistoryPerSession`: a session's events are one history, whatever recordings were begun in one second;
- `StateNamesTheRecording`: the state names the recorder that runs, whether its start awaited a probe or not, also after a start that was refused or failed to bind and after the
  server's end, unless two starts overlapped (`overlapped`; with that, `web_one_recording` refutes it).

There is no liveness here: every step but those of a handler under way waits for a person.

### Proofs

`CaptureProofs` proves all five, and `SplitsHoldWithoutRaces` (the split check is enough on the command line, unless two recordings are between the check and their metadata, which the code allows), for any number of recordings, splits, takes and marks, resting on `CorpusAssumption` (the recordings are
finitely many, bounds are numbers, `None` is not a value of anything else). The inductive invariant `Inv`: a
recording that has made its directory is the only one that works in it (`OwnInv`: of two that picked one name the second fails at `mkdir`); metadata has
its file and a complete take its closed file and its end (`DiskInv`, which says nothing of recordings and so survives every kill); what is on disk of the take
at hand, by the point its recording is at (`TakeInv`); and what a reader has listed stays (`ReadInv`). `ReaderSafe`, `UsableStaysFinal`,
`CorpusTypeCorrect` follow. Three more invariants lean on it: `ServerInv` (who has the loop, what the state names, and that, unless starts overlapped, at most one awaits its probe and nothing is active meanwhile), for `StateIsTheRecording`; `SplitInv` (a recording that passed
the check has a split that agrees with every session on disk), for `SplitsHold`; `HistInv` (the log of a directory by the point of its owner), for `OneHistory`.

## 7. Matching and Scoring

### Correspondence

`Matching` is `match_take`: `MatchTake` sets apart detections in the settling period and lists the candidates, `PairNearest` visits
them one at a time in the order of their sort (distance, reference, detection), `CountOutcomes` gives everything its outcome. Warm-up discards detections and not references,
as in the code; a second detection at the very instant of the first is a false positive and not a double fire, since the code's window is open at 0, against `docs/EVALUATION.md` 2
(`ScoringDoubleFires.cfg`). `Recall`, `Precision` and `DoubleFireRate` are those of `Report`.

`Scoring` is `run_score`: `Check` (the three refusals), `Listen` (the listener's thread is started before the try block, so that an error there skips the finally block and may leave it), `Calibrate`, and for each take `SkipTake` or `Clear`, `BeginPlay`, `SendRecord`, `EndPlay`, `Collect`, `Match`, `Merge`; then `Close` (the
finally block) and `LogHoldout`. `Fail` is an exception or an interrupt in the try block. The listener's thread (`thread`) is `Hear`; the stamp is given when the datagram is
read. `Raise` is a malformed argument, which ends the thread and not the run. The descriptor is external: it answers a gesture with nothing, one detection, two, or one of another class, in order, within `Lag` ticks, or within `SlowLag` where `slow`. A message may go
out `MaxLate` ticks late. Only rate 1 is modelled, which is what `run_score` uses.

### Run

`scoring` (1.2 million states, forty seconds): six small corpora (no take, a bad one, gestures far apart with labels of two sources, gestures closer than the tolerance with a reference in
the settling period, an ambient take with an empty one and a short one after it, a take whose messages are out of the order of their stamps), three sets of options, both speeds of the descriptor. `Lag` is within the drain, `SlowLag` beyond it: late detections do land in the next take, and the properties say of them only that none is scored twice. Three takes are more than the two that a late
detection needs; clocks of takes start apart, so that a mapping kept from the last take shows.

- `NearestFirst`: pairs are one to one, and a pair within tolerance is left out only because an earlier one took a side of it;
- `ScoredInItsTake`: no detection is scored twice, and with a descriptor faster than the drain each is scored in the take that caused it, and none is lost unless the listener's thread has died;
- `CorpusTimeIsHonest`: a scored detection lies between the message that caused it and the lateness allowed, when no message before that one has a later stamp (`InOrder`; the replay
  sends messages in the order of the file, so one behind a later stamp goes out late by the difference);
- `PromptAnswersAllCount`: when a descriptor answers every gesture in time, the take is clear-cut and the listener's thread lives, all references are matched and each second answer is counted once, as a
  double fire when it was read after the first. (What one read in the instant of the first counts as it leaves open: the code and the document disagree.) In time is within the tolerance and, between two answers, within the double-fire window. `ClearCut` keeps gestures more than `2 * (MaxLate + Lag)` apart, so that no
  answer is as near to another gesture as to its own, and more than the double-fire window and `MaxLate + Lag` apart, so that none is a double fire of another's. The conditions on that window came with
  the proof: without them the claim holds for the run's constants and fails for others (a window of 4 makes a second answer read with its first the double fire of the gesture before; a window of 0 makes every
  later second answer a false positive);
- `RunEnds`, under weak fairness of the run, the listener and time: the run always ends. Weak fairness is what the code gives: sleeps are finite,
  the drain has an end, no wait depends on the descriptor. `Fail` is not fair.

The run allows deadlock: a finished run is the end.

### Proofs

All proofs are in `ScoringProofs`. `PairsAreNearestFirst`: for any lists, tolerance, warm-up. `NearestFirst` says nothing of the pairs still to visit; the invariant adds that every pair made is earlier than every
pair left, so that one refused now conflicts with an earlier one. `RunsPairNearestFirst`: the same in every scoring run, because a step of a run is, for the matching, a step
of its own or none.

Four more properties are proved for any corpora and bounds: `ScoringTypeCorrect`, `DetectionsScoredInTheirTake`, `CorpusTimeHonest`, `PromptAnswersCounted`. The invariant `ScoringInv` says, besides types:
`TakeClock`, that the two origins belong to the take at hand; `IdentityInv`, that a detection is in one place at a time (under way, in the list, or scored) and was caused by a message
already sent; `FlightInv`, that answers under way are in order and none is older than `MaxLag`; `PromptInv`, that a prompt descriptor's answers stay in their take, since what is under way in the drain
was caused `Drain` before its end; `HonestInv`, that every stamp, under way, read or scored, is within the lateness allowed of the time its message was due.
They rest on `ScoringAssumption` (takes are lists of typed records and labels, bounds are numbers), `NoneAssumption` (`None` is no integer) and, for attribution, `DrainAssumption`: an answer in time
is one within the drain, `Lag < Drain`.

`PromptAnswersCounted` adds `AnswerInv`: only gestures are answered, the answers of one leave together and are read in order and at most `MaxLag` apart, and the list being matched is the tail of what was scored,
all of it the take's. In a clear-cut take a detection is then within `MaxLate + Lag` of its own reference and farther from every other, so nearest first pairs each reference with a first answer
and nothing else (`OwnTimeIsNearest`, `FirstAnswersPaired`), no detection is settling, and a second answer is a double fire of its own gesture if it was read later than the first (`SecondAnswers`,
`NoDoubleOfAnother`); read with it, it is counted as one thing or the other. The counts follow from one-to-one maps between gestures, references and answers (`AsMany`). Of this run only `RunEnds` is only model-checked.

## 8. Health

`Observe` is `AddressHealth.observe`, `AddressVerdict` and `Verdict` are the verdicts, with the code's thresholds (ten periods, 1 %, 0.1 %, 90 %) as constants; a half of a
threshold warns. As in the code a take fails when a quantity reaches its limit (`docs/SPEC_V1.md` 6.2 says above it), and messages that all came in one instant have no rate, the whole of which is missing. `Batched` is the recogniser of senders that flush. The sender and the link are external: a
sender takes a sample a period (one tick) and sends it or flushes `Burst` at a time; the link is perfect, or loses, repeats, delays and reorders. The take may
begin in the middle of a burst. The sequence number starts at the first sample; a sender that restarts is not modelled.

`health` (`Health.cfg`, 1.8 million states, 20 seconds): every combination of burst, faulty, rated, numbered, device time; twelve samples and fourteen ticks on a perfect link, so that a burst of three
is seen four times and a silence of more than ten periods fits; six samples with two faults on a faulty one, enough for a loss before, between and after a reordering.

- `LossIsNeverUnderstated`: missing numbers are all counted as lost, in whatever order messages came, and exactly when none came late; a loss of 1 % fails the take (of six samples any loss is more: the run does not come near the threshold, the proof is for any number).
  A late packet may be counted too often: that is the direction the code errs in;
- `BatchingIsSeen`: a sender that flushes more than two samples at a time is recognised from its sixth message on (and one more than a flush holds, so that a pause
  between two flushes has been seen), wherever in a burst the take began, and does not pass unless its samples carry a time; a steady sender is never taken for one, and passes. The sixth and not the fifth: of five messages after a take that begins with the last sample of a burst the rounded median can be that of the long intervals.

`LossIsCounted` (`HealthProofs`) proves the first for any sender, link, burst and bounds: the invariant adds that the last number is no higher than the highest, and equal to it
while nothing was late. `HealthTypeCorrect` proves the type invariant, with what the counters and intervals of an entry say of one another. `BatchesRecognised` proves `BatchingIsSeen` for
any period, flush size and bounds, where the run has bursts of three. Its invariant, `FaithfulInv`, follows the whole stream over a link that loses nothing, number by number: what is queued are the
samples after those flushed, what is under way was flushed last and is due now, and the entry is that of the last `c` of the `k` messages that came, so that its intervals are known
(`Gap`): one flush period after every message whose number is a multiple of the flush size, none after the others. `LongAreFew` bounds the long ones by a third (they inject into blocks of three), `LongComes` finds one in as
many messages as a flush holds, and `TwoLengths` turns the two counts into the ranks that `_percentile` picks. The theorems rest on `NoneAssumption`, `SizesAssumption` and `BoundsAssumption`, the last
also on `GapAssumption`: half the gap that fails a take is longer than a period (health.py:23, ten periods). The run allows deadlock: both bounds reached.

## 9. Labelling

`Span`, `Found` and `Instance` are the search in one window, `Limit` and `Align` the consensus of `_align`, `Labels` the choice between methods, where fewer than three instances are
never aligned whatever was asked for. A run is `Load`, `AppendLabel` for each label, `Finish`; `Kill` leaves what was appended; `ManualLabel` is the browser's. A take whose metadata has no counts
(it crashed) has no activity. The activity is one value a tick and external to the model; the fractions are the code's.

`labelling` (1.2 million states, a minute and a half): two runs at the same time, with any of three methods or one that does not exist, two windows (one that keeps neighbouring cues apart, one that overlaps), four gestures that are early, in
time, late or missed. `OnsetsAreDistinct`: where windows do not overlap one gesture is never the instance of two cues, labels follow each other as their cues do, and runs of one source and window agree on every cue. `AlignedAgree`: after
alignment every onset is within two deviations of the consensus, and most are where they were found. The run allows deadlock: finished runs stop.

### Proofs

`LabellingProofs` proves both for any take, windows, methods, fractions and number of runs: `GesturesDistinct` and `AlignedSetsAgree`. The argument has two halves.

- The runs. `AppendInv`: what a run has appended, taken out of the log by position, is what it computed, in order and as far as it came, and the rest is in `todo`, whatever other runs and hands append
  between. `LogInv`: a label in the log is one its run computed. `FoundInv`: what it computed depends on the take, the method and the window only, none of which changes, so that two runs with labels of one source and window
  have one list (`OneList`). `Ascending` positions change by one at the end when the log grows (`AscendingAppends`), or not at all (`OthersAppend`).
- One set of labels. An instance lies in the window of its cue (`InstanceInWindow`: walking back or on from the peak stays in the ticks searched). A median is one of its values and more than half of them are not above it
  (`MedianIsOne`), so the consensus is the reaction of one of the instances and an aligned onset stays in its window too (`ConsensusIsOne`, `AlignKeepsWindow`), and fewer than half of the onsets deviate by more than the limit (`AlignMoves`).

They rest on `LabellingAssumption` (windows are whole numbers of quarters, fractions and bounds are numbers) and `TakeAssumption` (an activity has a natural value every tick from its first to its last; the cues of a take are
a list). `Apart`, the condition under which gestures are distinct, asks for cues a window apart and at different times; the second follows from the first unless the window is empty, a case in which the proof needs it.

## 10. Replay

`Replay` is `replay_session`: `Select` (`parse_take_selector`), `Open` (the target), then for every take `Announce` (the control messages, the start of its clock), `Send` and `EndTake`, and
`EndRound`, which ends the playback or goes round. `Tick` is time passing in `_wait_until`: a message may go out up to `MaxLate` ticks after it was due. `Fail` is an interrupt or an error of the socket or of a
file. An address is the sequence of its segments and a pattern the set of addresses it matches. Sessions do not change while they are played, and a take's lines are in the order of their stamps, since one
receiver stamps them and one queue keeps their order (`ArrivalAssumption`, which `IntervalsKept` needs; what a line behind a later stamp does to a score is in `Scoring`'s run). `Scoring` has its own copy of a
playback at rate 1, where what matters is when a message goes out.

`replay` (`Replay.cfg`, 186 thousand states, half a minute): a session with no take, and one of three takes, with messages that arrived together, a gap in the numbers, an empty take and a torn last line; selectors that name
takes in any order, twice, beyond the session, not at all, or are no number; rates 0, 1 and 2; with and without a loop, a prefix, filters, marks. `MaxLate` is 2: more than the shortest interval, so that messages catch up with each other.

- `OriginalOrder`: when a message goes out, exactly the lines before it that the filter lets through have gone out, once each, those of earlier takes all, between the marks of their take;
- `IntervalsKept`: between any two messages of a take as much time passed as between their arrivals, divided by the rate, within the lateness of one: lateness does not add up;
- `PlaybackGoesOn`, under weak fairness of the replayer and of time: a playback ends unless it was to repeat, and in a loop every chosen take is played again. Sleeps are finite and nothing waits for the receiver of
  the datagrams, so weak fairness is what the code gives; `Fail` is not fair.

The run allows deadlock: a playback that has ended is the end. A loop over a session with no take goes round without a pause; that is in the hazards. Nothing is proved about this module yet.

## 11. Refuted claims

What a document, a comment or a docstring says and the code does not do. Three have a run of their own and are quoted in `PROJECT.json`:

| Run | Claim | What happens |
| --- | --- | --- |
| `jsonl_torn_append` | `OnlyLastLineIsTruncated` | the first label appended to a log with a torn last line is lost with it |
| `web_one_recording` | `OneRecording` | two starts pass the check while one awaits its probe; two recorders run and the state names one |
| `scoring_holdout` | `ConsultationIsLogged` | a run that fails after replaying test takes is not logged |

The others are stated in their modules, with a configuration in which TLC finds the counterexample (`tlc -config <cfg> <module>`):

| Configuration | Module | Claim | What happens |
| --- | --- | --- | --- |
| `RecorderTakeStart.cfg` | `Recorder` | `TakesBeginAtTakeStart` | a datagram stamped before `t_start` and still queued is written into the take |
| `RecorderMissing.cfg` | `Recorder` | `MissingIsReported` | datagrams queued at the end of a take are in no take, with no drop reported |
| `JsonlMerge.cfg` | `JsonlWriter` | `OneObjectPerLine` | two threads put two objects on one line, and the reader skips both |
| `JsonlSilence.cfg` | `JsonlWriter` | `NothingWaitsLongerThanInterval` | a stream that falls silent is not flushed, and a crash loses more than the "at most one second" of `docs/SPEC_V1.md:88` |
| `JsonlDisplay.cfg` | `JsonlWriter` | `DisplayedIsInTheFile` | a message is counted for the display while its line is in the writer's buffer, against "to disk before acknowledging it" of `docs/SPEC_V1.md:87` |
| `CorpusSplit.cfg` | `WebCaptureMC` | `OneSplitPerSubject` | the server creates sessions without the split check of `docs/SPEC_V1.md:222` (nor does its `--force-split` exist) |
| `ScoringDoubleFires.cfg` | `ScoringMC` | `ExtrasAreDoubleFires` | a second detection read in the instant of a matched one (two of one bundle) is a false positive, and not the double fire of `docs/EVALUATION.md:46` |
| `ScoringPrecision.cfg` | `ScoringMC` | `PrecisionIsOfAllDetections` | double fires are in neither term of the precision, which `docs/EVALUATION.md:43` takes of all detections |
| `CueSpace.cfg` | `CueSession` | `SpaceStopsTake` | space, pressed to stop a take that ends just then, starts another |
| `CueRedo.cfg` | `CueSession` | `RedoKeepsKind` | redo after an ambient take starts a cued one |
| `CueStuckKey.cfg` | `CueSession` | `PressedIsRead` | of two keys that arrive together the second waits for a third |
| `HealthSilence.cfg` | `Health` | `SilenceFails` | an instrument that stays silent to the end of a take leaves a verdict of pass |
| `LabellingTwice.cfg` | `LabellingMC` | `OneLabelPerCue` | a second run appends a second set with one source; scoring counts each reference twice |
| `CorpusAborts.cfg` | `WebCaptureMC` | `NextToolAborts` | a take left `recording` is never rewritten to `aborted` (`docs/FORMAT.md:265`) |

Three differences need no run to be seen: a health check fails at its limit and not above it (`health.py`, `>= 1.0`, against `docs/SPEC_V1.md` 6.2); messages that are not for a take are displayed and never written; and the
scorer never replays a take twice to detect a state carried over (`docs/SPEC_V1.md` 3.1).

## 12. What is not modelled

- `namespace.py`: lookups and inference over addresses. What a schema decides (a rate, a sequence field, a device time) is a parameter of `Health`'s links, whether one was inferred a choice in `Corpus`.
- `clock.py`, `tui.py`, `report.py`, `cli.py`: conversions, rendering, formatting, argument parsing; no state another part could see out of order.
- Byte formats (OSC, JSON) and signal processing: a datagram is the number of its messages, a line is whole or torn, an activity is given.
- In `Recorder`: the processor thread dying on an exception in `_handle`, and the display values of `snapshot`. In `CueSession`: the length of an interval, and Control-C in the middle of a call.
- Several addresses of a take (each has its own entry and the verdict is the worst), counts by subject, latencies and rates over time.
- In `Replay`: the statistics it prints, a malformed line in the middle of a file, files that change while they are played. In `Scoring`: the thread and the port that an unusable address leaves behind, after the run they belong to.
- In the browser: telemetry, envelopes and the page. That a cued take goes on after its schedule is visible from the code (`web.py` never reads `take_finished`); a property would restate it.
- A second socket bound to the same port (`SO_REUSEADDR`), through which a probe or a second run takes datagrams from the first: which one the kernel serves is the system's.

TLAPS proves nothing here about liveness or `ENABLED`; those stay with TLC. What a recursive function or a list computes is proved only where an induction could be replaced by the least counterexample
(`Inductions`); the other recursive definitions stay with TLC.
