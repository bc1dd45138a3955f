---------------------------- MODULE JsonlWriter ----------------------------
(***************************************************************************)
(* An append-only JSONL file of puara-creator (jsonl.py): the threads that *)
(* call JsonlWriter.write on one open handle, the handle's buffer, the     *)
(* operating system's copy of the file, the part of it that fsync forced   *)
(* to disk, a crash, and the tool that later reopens the file to append.   *)
(*                                                                         *)
(* write() appends in two calls, the JSON text and then the newline; it    *)
(* holds no lock.  A take file has one writing thread (the processor) and  *)
(* a flush interval of one second.  events.jsonl has two (the caller's     *)
(* thread and the cue thread, through Session.event) and an interval of 0. *)
(*                                                                         *)
(* A record is a number, its place in the order of the time stamps; its    *)
(* text is kept as two halves, so that a crash can tear it.                *)
(***************************************************************************)
EXTENDS Integers, Sequences, FiniteSets

CONSTANTS
    Files,          \* the kinds of file to consider: take, events
    Writers,        \* the threads that write events
    FlushInterval,  \* flush_interval_s of a take file, in ticks of the clock
    Capacity,       \* units the handle's buffer holds (64 KiB in the code)
    MaxRecords,     \* bound: records written to the file
    MaxTime,        \* bound: ticks of the clock
    MaxOpens        \* bound: times the file is opened

ASSUME FilesAssumption   == Files \subseteq {"take", "events"} /\ Writers # {}
ASSUME NumbersAssumption == /\ FlushInterval \in Nat /\ Capacity \in Nat
                            /\ MaxRecords \in Nat /\ MaxTime \in Nat
                            /\ MaxOpens \in Nat \ {0}

Records == 1..MaxRecords
Unit    == [rec : Nat, part : {"head", "tail", "nl"}]

Json(r)    == << [rec |-> r, part |-> "head"], [rec |-> r, part |-> "tail"] >>
Newline(r) == << [rec |-> r, part |-> "nl"] >>

VARIABLES
    target,     \* the file the handle is for: a take's or events.jsonl
    clock,      \* monotonic_seconds()
    stamped,    \* records stamped so far: the last record's number
    buffer,     \* what the handle holds and the operating system does not
    file,       \* the file as the operating system has it
    synced,     \* how much of `file` fsync has forced to disk
    lastFlush,  \* self._last_flush
    pc, rec,    \* each writer's control point, and the record in its hands
    now,        \* each writer's local `now`
    opens,      \* times the file was opened
    closing,    \* close() has been called
    returnedAt  \* history: when write() of a record returned, or -1

handleVars == <<buffer, file, synced>>
vars == <<target, clock, stamped, handleVars, lastFlush, pc, rec, now, opens, closing, returnedAt>>

NotReturned == -1

\* What the file was opened with.
Interval == IF target = "take" THEN FlushInterval ELSE 0

Init ==
    /\ target \in Files
    /\ clock = 0 /\ stamped = 0
    /\ buffer = <<>> /\ file = <<>> /\ synced = 0 /\ lastFlush = 0
    /\ \E t \in Writers :
          pc = [w \in Writers |-> IF target = "events" \/ w = t THEN "idle" ELSE "off"]
    /\ rec = [w \in Writers |-> 0]
    /\ now = [w \in Writers |-> 0]
    /\ opens = 1 /\ closing = FALSE
    /\ returnedAt = [r \in Records |-> NotReturned]

-----------------------------------------------------------------------------
(* write() *)

\* BufferedWriter.write: what does not fit sends the whole buffer to the
\* operating system first.
Buffered(units) ==
    /\ IF Len(buffer) + Len(units) > Capacity
       THEN file' = file \o buffer /\ buffer' = units
       ELSE file' = file /\ buffer' = buffer \o units
    /\ UNCHANGED synced

\* The caller of write() stamps the record before it makes the call.
Stamp(w) ==
    /\ pc[w] = "idle" /\ ~closing /\ stamped < MaxRecords
    /\ stamped' = stamped + 1
    /\ rec' = [rec EXCEPT ![w] = stamped + 1]
    /\ pc' = [pc EXCEPT ![w] = "json"]
    /\ UNCHANGED <<target, clock, handleVars, lastFlush, now, opens, closing, returnedAt>>

WriteJson(w) ==
    /\ pc[w] = "json"
    /\ Buffered(Json(rec[w]))
    /\ pc' = [pc EXCEPT ![w] = "newline"]
    /\ UNCHANGED <<target, clock, stamped, lastFlush, rec, now, opens, closing, returnedAt>>

MutNoNewline(w) ==
    /\ pc[w] = "newline"
    /\ UNCHANGED handleVars
    /\ pc' = [pc EXCEPT ![w] = "due"]
    /\ UNCHANGED <<target, clock, stamped, lastFlush, rec, now, opens, closing, returnedAt>>

WriteNewline(w) ==
    /\ pc[w] = "newline"
    /\ Buffered(Newline(rec[w]))
    /\ pc' = [pc EXCEPT ![w] = "due"]
    /\ UNCHANGED <<target, clock, stamped, lastFlush, rec, now, opens, closing, returnedAt>>

MutFlushLate == clock - lastFlush > Interval

FlushDue == clock - lastFlush >= Interval

\* `now` is read, and compared with the last flush.
TestFlush(w) ==
    /\ pc[w] = "due"
    /\ now' = [now EXCEPT ![w] = clock]
    /\ IF FlushDue
       THEN /\ pc' = [pc EXCEPT ![w] = "flush"]
            /\ UNCHANGED returnedAt
       ELSE /\ pc' = [pc EXCEPT ![w] = "idle"]
            /\ returnedAt' = [returnedAt EXCEPT ![rec[w]] = clock]
    /\ UNCHANGED <<target, clock, stamped, handleVars, lastFlush, rec, opens, closing>>

-----------------------------------------------------------------------------
(* flush(), and close() *)

MutDropBuffer(w) ==
    /\ pc[w] = "flush"
    /\ buffer' = <<>>
    /\ UNCHANGED <<file, synced>>
    /\ pc' = [pc EXCEPT ![w] = "sync"]
    /\ UNCHANGED <<target, clock, stamped, lastFlush, rec, now, opens, closing, returnedAt>>

Flush(w) ==
    /\ pc[w] = "flush"
    /\ file' = file \o buffer /\ buffer' = <<>>
    /\ UNCHANGED synced
    /\ pc' = [pc EXCEPT ![w] = "sync"]
    /\ UNCHANGED <<target, clock, stamped, lastFlush, rec, now, opens, closing, returnedAt>>

Fsync == synced' = Len(file)

\* fsync returns; write() remembers when it flushed and returns, close()
\* closes the handle.
Sync(w) ==
    /\ pc[w] = "sync"
    /\ Fsync
    /\ IF closing
       THEN /\ pc' = [x \in Writers |-> "closed"]
            /\ UNCHANGED <<lastFlush, returnedAt>>
       ELSE /\ pc' = [pc EXCEPT ![w] = "idle"]
            /\ lastFlush' = now[w]
            /\ returnedAt' = [returnedAt EXCEPT ![rec[w]] = now[w]]
    /\ UNCHANGED <<target, clock, stamped, buffer, file, rec, now, opens, closing>>

\* The owner closes the file when nothing is writing: end_take after the take
\* was disarmed under the lock, Session.close after the threads were joined.
Close(w) ==
    /\ \A x \in Writers : pc[x] \in {"idle", "off"}
    /\ pc[w] = "idle" /\ ~closing
    /\ closing' = TRUE
    /\ pc' = [pc EXCEPT ![w] = "flush"]
    /\ UNCHANGED <<target, clock, stamped, handleVars, lastFlush, rec, now, opens, returnedAt>>

-----------------------------------------------------------------------------
(* The clock; a crash; the next tool. *)

Tick ==
    /\ clock < MaxTime
    /\ clock' = clock + 1
    /\ UNCHANGED <<target, stamped, handleVars, lastFlush, pc, rec, now, opens, closing, returnedAt>>

\* The first m units of f.
Prefix(f, m) == SubSeq(f, 1, m)

\* kill -9 keeps what the operating system has; a power failure keeps at least
\* what was forced to disk and may cut the rest anywhere.
Crash ==
    /\ \E w \in Writers : pc[w] \notin {"closed", "crashed"}
    /\ buffer' = <<>>
    /\ \E n \in synced..Len(file) : file' = Prefix(file, n) /\ synced' = n
    /\ pc' = [w \in Writers |-> "crashed"]
    /\ UNCHANGED <<target, clock, stamped, lastFlush, rec, now, opens, closing, returnedAt>>

MutReopenForWriting(w) ==
    /\ target = "events" /\ opens < MaxOpens
    /\ pc[w] \in {"closed", "crashed"}
    /\ opens' = opens + 1
    /\ closing' = FALSE
    /\ lastFlush' = clock
    /\ pc' = [x \in Writers |-> IF x = w THEN "idle" ELSE "off"]
    /\ file' = <<>>
    /\ UNCHANGED <<target, clock, stamped, buffer, synced, rec, now, returnedAt>>

\* A labelling run, with one thread, opens the file for appending.
Reopen(w) ==
    /\ target = "events" /\ opens < MaxOpens
    /\ pc[w] \in {"closed", "crashed"}
    /\ opens' = opens + 1
    /\ closing' = FALSE
    /\ lastFlush' = clock
    /\ pc' = [x \in Writers |-> IF x = w THEN "idle" ELSE "off"]
    /\ UNCHANGED <<target, clock, stamped, handleVars, rec, now, returnedAt>>

Write(w) == Stamp(w) \/ WriteJson(w) \/ WriteNewline(w) \/ TestFlush(w) \/ Flush(w) \/ Sync(w)

Next ==
    \/ \E w \in Writers : Write(w) \/ Close(w) \/ Reopen(w)
    \/ Tick
    \/ Crash

Spec == Init /\ [][Next]_vars

-----------------------------------------------------------------------------
(* read_jsonl: the lines of the file that decode, in order. *)

StartsLine(f, i) == i = 1 \/ f[i - 1].part = "nl"

\* A line decodes when it is exactly one record's text; the newline after it
\* may be missing at the end of the file.
Decodes(f, i) ==
    /\ StartsLine(f, i)
    /\ i + 1 \in DOMAIN f
    /\ f[i].part = "head" /\ f[i + 1] = [rec |-> f[i].rec, part |-> "tail"]
    /\ i + 2 \in DOMAIN f => f[i + 2].part = "nl"

ReadPositions(f) == {i \in DOMAIN f : Decodes(f, i)}
ReadRecords(f)   == {f[i].rec : i \in ReadPositions(f)}

-----------------------------------------------------------------------------
(* Properties *)

TypeOK ==
    /\ target \in Files /\ clock \in 0..MaxTime /\ stamped \in 0..MaxRecords
    /\ buffer \in Seq(Unit) /\ file \in Seq(Unit) /\ synced \in 0..Len(file)
    /\ lastFlush \in 0..MaxTime
    /\ pc \in [Writers -> {"idle", "json", "newline", "due", "flush", "sync",
                           "closed", "crashed", "off"}]
    /\ rec \in [Writers -> Nat] /\ now \in [Writers -> 0..MaxTime]
    /\ opens \in 1..MaxOpens /\ closing \in BOOLEAN
    /\ returnedAt \in [Records -> -1..MaxTime]

\* What the reader finds in a take file, which has one writer, is an unbroken beginning of
\* what was written, in order, at every moment and after every crash: a crash
\* costs the end of the file and nothing in the middle.
ReadsABeginning ==
    target = "take" =>
    LET read == ReadPositions(file) IN
    /\ ReadRecords(file) = 1..Cardinality(read)
    /\ \A i \in DOMAIN file : file[i].part = "tail" => file[i].rec \in ReadRecords(file)
    /\ \A i, j \in read : i < j => file[i].rec < file[j].rec

\* SPEC_V1.md: a crash "costs at most one second of data".  Of the records whose
\* write() returned, one that is not on disk was returned less than a flush
\* interval before the last one, whatever is written in between, before a crash
\* and after it; in events.jsonl, whose interval is 0, every one is on disk.
\* (Its bytes: with two writers the record may be there and unreadable.)
LossIsBounded ==
    \A r, q \in Records :
        returnedAt[r] # NotReturned /\ returnedAt[q] # NotReturned =>
            \/ \E i \in 1..synced : file[i] = [rec |-> r, part |-> "nl"]
            \/ returnedAt[q] - returnedAt[r] < Interval

\* What fsync forced to disk is never changed again, by a write, a crash or a
\* later tool.
SyncedIsKept ==
    [][/\ synced' >= synced /\ Len(file') >= synced
       /\ Prefix(file', synced) = Prefix(file, synced)]_vars

\* A closed take file holds every record whose write() returned, each one
\* readable.
ClosedIsComplete ==
    (target = "take" /\ \E w \in Writers : pc[w] = "closed") =>
        \A r \in Records : returnedAt[r] # NotReturned => r \in ReadRecords(file)

\* Refuted.  FORMAT.md: events.jsonl has "One JSON object per line".  Every
\* terminated line is blank or decodes.
OneObjectPerLine ==
    \A i \in DOMAIN file :
        /\ StartsLine(file, i) /\ file[i].part # "nl"
        /\ \E j \in i..Len(file) : file[j].part = "nl"
        => Decodes(file, i)

\* Refuted.  jsonl.py: "Only the last line can be truncated".  A line that does
\* not decode has no record after it, in a file with one writer at a time.
OnlyLastLineIsTruncated ==
    \A i \in DOMAIN file :
        StartsLine(file, i) /\ file[i].part # "nl" /\ ~Decodes(file, i)
            => \A j \in i..Len(file) : file[j].rec = file[i].rec

\* Refuted.  SPEC_V1.md: the recorder "MUST flush at least once per second, so
\* that a crash costs at most one second of data".  A record that is in the
\* buffer was written no longer than an interval ago: but only the next write()
\* flushes, and the instrument may fall silent.
NothingWaitsLongerThanInterval ==
    \A r \in Records :
        /\ returnedAt[r] # NotReturned
        /\ \E i \in DOMAIN buffer : buffer[i] = [rec |-> r, part |-> "nl"]
        => clock - returnedAt[r] <= Interval

\* Refuted.  SPEC_V1.md: the recorder "MUST write each datagram to disk before
\* acknowledging it in the display".  The display counts a message of a take as
\* soon as write() returned (Recorder.snapshot): by then it is in the file.
DisplayedIsInTheFile ==
    (target = "take" /\ \A w \in Writers : pc[w] # "crashed") =>
        \A r \in Records :
            returnedAt[r] # NotReturned =>
                \E i \in DOMAIN file : file[i] = [rec |-> r, part |-> "nl"]
=============================================================================
