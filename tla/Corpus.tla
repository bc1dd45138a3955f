------------------------------- MODULE Corpus -------------------------------
(***************************************************************************)
(* Session directories: how a recording creates and fills one (session.py, *)
(* record_session.py), what is on disk when it is killed, and how a reader *)
(* (read.py) goes through them all at the same time.                       *)
(*                                                                         *)
(* A recording is a process of the command line here; WebCapture adds the  *)
(* ones the server makes.  A file is what a reader can tell of it: a JSON  *)
(* document is replaced as a whole (write_json renames), a data file is    *)
(* absent, open or closed.                                                 *)
(***************************************************************************)
EXTENDS Naturals, Sequences, FiniteSets

CONSTANTS
    None,        \* Python's None
    Recordings,  \* calls of run_record, or requests to start one
    Splits,      \* the splits a recording may name; they all have one subject
    MaxTakes, MaxMarks   \* bounds: takes and marks, of all recordings

Names == 1..Cardinality(Recordings)    \* the identifier, its "-2", its "-3", ...
Takes == 1..MaxTakes

Meta  == [status : {"recording", "complete", "aborted"}, mark : {None, "bad"}]   \* of a take

ASSUME CorpusAssumption ==
    /\ IsFiniteSet(Recordings) /\ MaxTakes \in Nat /\ MaxMarks \in Nat
    /\ None \notin Recordings \cup Splits \cup Names \cup Meta

VARIABLES
    kind,      \* kind[r]: "cli" or "web"
    plan,      \* plan[r]: its split, and whether a schema was given
    pc,        \* pc[r]: where it is
    name,      \* name[r]: the session identifier it picked
    take,      \* take[r]: the number of takes it began
    ending,    \* ending[r]: the status end_take gives, and whether the session ends with it
    marks,     \* takes marked so far
    meta,      \* meta.json by name: None or its split
    dirs,      \* the session directories
    events,    \* events.jsonl by name
    files,     \* data files by name and take: "absent", "open", "closed"
    takeMeta,  \* metadata files by name and take: None or [status, mark]
    reader, list, rest, view,   \* a reader: where it is, what it has still to read, what it has
    raced      \* history: two recordings were between the split check and meta.json

processVars == <<kind, plan>>
diskVars    == <<meta, dirs, events, files, takeMeta>>
readerVars  == <<reader, list, rest, view>>
ownVars     == <<pc, name, take, ending, marks>>
vars == <<processVars, ownVars, diskVars, readerVars, raced>>

-----------------------------------------------------------------------------
(* Steps of a recording *)

InitWith(kinds) ==
    /\ kind \in [Recordings -> kinds]
    /\ plan \in [Recordings -> [split : Splits, schema : BOOLEAN]]
    /\ \A q \in Recordings : kind[q] = "cli" => ~ plan[q].schema   \* only its refusal depends on it
    /\ pc = [r \in Recordings |-> "idle"]
    /\ name = [r \in Recordings |-> None] /\ take = [r \in Recordings |-> 0]
    /\ ending = [r \in Recordings |-> [status |-> "recording", last |-> FALSE]]
    /\ marks = 0
    /\ meta = [n \in Names |-> None] /\ dirs = {} /\ events = [n \in Names |-> <<>>]
    /\ files = [n \in Names |-> [t \in Takes |-> "absent"]]
    /\ takeMeta = [n \in Names |-> [t \in Takes |-> None]]
    /\ reader = "idle" /\ list = {} /\ rest = {} /\ view = {}
    /\ raced = FALSE

Goto(r, at) == pc' = [pc EXCEPT ![r] = at]

Log(n, event) == events' = [events EXCEPT ![n] = Append(@, event)]

WriteTakeMeta(r, status, mark) ==
    takeMeta' = [takeMeta EXCEPT ![name[r]][take[r]] = [status |-> status, mark |-> mark]]

MarkOnDisk(r) == IF takeMeta[name[r]][take[r]] = None THEN None ELSE takeMeta[name[r]][take[r]].mark

Rest(r) == UNCHANGED <<processVars, readerVars>>

\* Between a recording's split check and its metadata.
Unseen(r) == pc[r] \in {"probe", "name", "mkdir", "meta"}

\* No session on disk has the subject in another split.
SplitAllowed(split) == \A n \in Names : meta[n] # None => meta[n] = split

\* _check_split.  The first step of the command line, long before the directory.
CheckSplit(r) ==
    /\ pc[r] = "idle"
    /\ Goto(r, IF SplitAllowed(plan[r].split) THEN "probe" ELSE "refused")
    /\ raced' = (raced \/ \E p \in Recordings \ {r} : Unseen(p))
    /\ UNCHANGED <<name, take, ending, marks, diskVars>> /\ Rest(r)

\* probe_namespace: what it may infer from its seconds of listening; a malformed datagram is
\* skipped, and silence infers nothing.
Inferences == {"addresses", "nothing"}

\* _resolve_schema: a schema given, one inferred, or no traffic to infer one from.
Resolve(r) ==
    /\ pc[r] = "probe"
    /\ \E heard \in Inferences :
          Goto(r, IF plan[r].schema \/ heard # "nothing" THEN "name" ELSE "refused")
    /\ UNCHANGED <<name, take, ending, marks, diskVars, raced>> /\ Rest(r)

\* The first free identifier of one second.
PickName(r) ==
    /\ pc[r] = "name"
    /\ \E n \in Names : /\ n \notin dirs /\ 1..(n - 1) \subseteq dirs
                        /\ name' = [name EXCEPT ![r] = n]
    /\ Goto(r, "mkdir")
    /\ UNCHANGED <<take, ending, marks, diskVars, raced>> /\ Rest(r)

\* Mutant: mkdir(exist_ok=True).
MutMakeDirectory(r) ==
    /\ pc[r] = "mkdir"
    /\ Goto(r, "meta") /\ dirs' = dirs \cup {name[r]}
    /\ UNCHANGED <<name, take, ending, marks, meta, events, files, takeMeta, raced>> /\ Rest(r)

\* mkdir(exist_ok=False): of two that picked one identifier, the second gets an error.
MakeDirectory(r) ==
    /\ pc[r] = "mkdir"
    /\ IF name[r] \in dirs THEN Goto(r, "failed") /\ UNCHANGED dirs
       ELSE Goto(r, "meta") /\ dirs' = dirs \cup {name[r]}
    /\ UNCHANGED <<name, take, ending, marks, meta, events, files, takeMeta, raced>> /\ Rest(r)

\* Mutant: meta.json is left for the end of the session.
MutWriteMeta(r) ==
    /\ pc[r] = "meta"
    /\ Goto(r, "begin")
    /\ UNCHANGED <<name, take, ending, marks, diskVars, raced>> /\ Rest(r)

WriteMeta(r) ==
    /\ pc[r] = "meta"
    /\ meta' = [meta EXCEPT ![name[r]] = plan[r].split]
    /\ Goto(r, "begin")
    /\ UNCHANGED <<name, take, ending, marks, dirs, events, files, takeMeta, raced>> /\ Rest(r)

BeginSession(r) ==
    /\ pc[r] = "begin"
    /\ Log(name[r], [kind |-> "session_start", take |-> 0])
    /\ Goto(r, "start")
    /\ UNCHANGED <<name, take, ending, marks, meta, dirs, files, takeMeta, raced>> /\ Rest(r)

\* Recorder.start: its socket may be refused, and then nothing closes the session.
StartRecorder(r) ==
    /\ pc[r] = "start"
    /\ Goto(r, "ready") \/ Goto(r, "failed")
    /\ UNCHANGED <<name, take, ending, marks, diskVars, raced>> /\ Rest(r)

-----------------------------------------------------------------------------
(* Takes *)

\* The bound.
MayOpen(r) ==
    take[r] < MaxTakes /\ Cardinality({p \in Names \X Takes : files[p[1]][p[2]] # "absent"}) < MaxTakes

\* Mutant: the file is opened when there is something to write into it.
MutOpenTake(r) ==
    /\ pc[r] = "ready" /\ MayOpen(r)
    /\ take' = [take EXCEPT ![r] = @ + 1]
    /\ takeMeta' = [takeMeta EXCEPT ![name[r]][take[r] + 1] = [status |-> "recording", mark |-> None]]
    /\ Goto(r, "take_event")
    /\ UNCHANGED <<name, ending, marks, meta, dirs, events, files, raced>> /\ Rest(r)

\* start_take: the data file is opened, ...
OpenTake(r) ==
    /\ pc[r] = "ready" /\ MayOpen(r)
    /\ take' = [take EXCEPT ![r] = @ + 1]
    /\ files' = [files EXCEPT ![name[r]][take[r] + 1] = "open"]
    /\ Goto(r, "take_meta")
    /\ UNCHANGED <<name, ending, marks, meta, dirs, events, takeMeta, raced>> /\ Rest(r)

\* ... then its metadata is written, ...
FirstTakeMeta(r) ==
    /\ pc[r] = "take_meta"
    /\ WriteTakeMeta(r, "recording", None)
    /\ Goto(r, "take_event")
    /\ UNCHANGED <<name, take, ending, marks, meta, dirs, events, files, raced>> /\ Rest(r)

\* ... then the event, and the take is armed.
TakeStart(r) ==
    /\ pc[r] = "take_event"
    /\ Log(name[r], [kind |-> "take_start", take |-> take[r]])
    /\ Goto(r, "take")
    /\ UNCHANGED <<name, take, ending, marks, meta, dirs, files, takeMeta, raced>> /\ Rest(r)

\* stop_take, or Recorder.stop with a take open, which aborts it.
StopTake(r) ==
    /\ pc[r] = "take"
    /\ \E last \in BOOLEAN :
          ending' = [ending EXCEPT ![r] = [status |-> IF last THEN "aborted" ELSE "complete", last |-> last]]
    /\ Goto(r, "close_file")
    /\ UNCHANGED <<name, take, marks, diskVars, raced>> /\ Rest(r)

\* Mutant: the metadata says so before the file is closed.
MutCloseFile(r) ==
    /\ pc[r] = "close_file"
    /\ WriteTakeMeta(r, ending[r].status, MarkOnDisk(r))
    /\ Goto(r, "end_event")
    /\ UNCHANGED <<name, take, ending, marks, meta, dirs, events, files, raced>> /\ Rest(r)

\* end_take: the file is closed, ...
CloseFile(r) ==
    /\ pc[r] = "close_file"
    /\ files' = [files EXCEPT ![name[r]][take[r]] = "closed"]
    /\ Goto(r, "end_event")
    /\ UNCHANGED <<name, take, ending, marks, meta, dirs, events, takeMeta, raced>> /\ Rest(r)

\* ... then the event, ...
EndEvent(r) ==
    /\ pc[r] = "end_event"
    /\ Log(name[r], [kind |-> IF ending[r].last THEN "take_abort" ELSE "take_end", take |-> take[r]])
    /\ Goto(r, "end_meta")
    /\ UNCHANGED <<name, take, ending, marks, meta, dirs, files, takeMeta, raced>> /\ Rest(r)

\* ... then the metadata says so.
EndMeta(r) ==
    /\ pc[r] = "end_meta"
    /\ WriteTakeMeta(r, ending[r].status, MarkOnDisk(r))
    /\ Goto(r, IF ending[r].last THEN "close" ELSE "ready")
    /\ UNCHANGED <<name, take, ending, marks, meta, dirs, events, files, raced>> /\ Rest(r)

\* mark_take, of the take in progress or the last one: the event, ...
MarkTake(r) ==
    /\ pc[r] \in {"ready", "take"} /\ take[r] > 0 /\ marks < MaxMarks
    /\ marks' = marks + 1
    /\ Log(name[r], [kind |-> "take_mark", take |-> take[r]])
    /\ Goto(r, IF pc[r] = "take" THEN "take_mark" ELSE "late_mark")
    /\ UNCHANGED <<name, take, ending, meta, dirs, files, takeMeta, raced>> /\ Rest(r)

\* ... then the metadata.
MarkMeta(r) ==
    /\ pc[r] \in {"take_mark", "late_mark"}
    /\ WriteTakeMeta(r, IF pc[r] = "take_mark" THEN "recording" ELSE ending[r].status, "bad")
    /\ Goto(r, IF pc[r] = "take_mark" THEN "take" ELSE "ready")
    /\ UNCHANGED <<name, take, ending, marks, meta, dirs, events, files, raced>> /\ Rest(r)

\* The session is ended between takes, or after the take that was open.
StopSession(r) ==
    /\ pc[r] = "ready"
    /\ Goto(r, "close")
    /\ UNCHANGED <<name, take, ending, marks, diskVars, raced>> /\ Rest(r)

CloseSession(r) ==
    /\ pc[r] = "close"
    /\ Log(name[r], [kind |-> "session_end", take |-> 0])
    /\ Goto(r, "closed")
    /\ UNCHANGED <<name, take, ending, marks, meta, dirs, files, takeMeta, raced>> /\ Rest(r)

Over(r) == pc[r] \in {"closed", "refused", "failed", "dead"}

Kill(r) ==
    /\ pc[r] # "idle" /\ ~ Over(r)
    /\ Goto(r, "dead")
    /\ UNCHANGED <<name, take, ending, marks, diskVars, raced>> /\ Rest(r)

\* What session.py does once a recording has been let through.
Create(r)  == PickName(r) \/ MakeDirectory(r) \/ WriteMeta(r) \/ BeginSession(r) \/ StartRecorder(r)
InTake(r)  == FirstTakeMeta(r) \/ TakeStart(r) \/ CloseFile(r) \/ EndEvent(r) \/ EndMeta(r)
              \/ MarkMeta(r) \/ CloseSession(r)
Operate(r) == OpenTake(r) \/ StopTake(r) \/ MarkTake(r) \/ StopSession(r)

-----------------------------------------------------------------------------
(* A reader *)

Untouched == UNCHANGED <<processVars, ownVars, diskVars, raced>>

\* load_corpus lists the directories that have a meta.json.
ListSessions ==
    /\ reader = "idle"
    /\ reader' = "session" /\ list' = {n \in Names : meta[n] # None}
    /\ UNCHANGED <<rest, view>> /\ Untouched

\* load_session reads it, and lists the takes that have metadata.
ReadSession ==
    /\ reader = "session"
    /\ \E n \in list : /\ \A m \in list : n <= m
                       /\ list' = list \ {n}
                       /\ rest' = {<<n, t>> : t \in {u \in Takes : takeMeta[n][u] # None}}
    /\ reader' = "take"
    /\ UNCHANGED view /\ Untouched

\* The data file of a take with metadata has to exist.
ReadTake ==
    /\ reader = "take"
    /\ \E p \in rest :
       /\ \A q \in rest : p[2] <= q[2]
       /\ IF files[p[1]][p[2]] = "absent"
          THEN reader' = "failed" /\ UNCHANGED <<rest, view>>
          ELSE /\ view' = view \cup {[name |-> p[1], take |-> p[2], meta |-> takeMeta[p[1]][p[2]]]}
               /\ rest' = rest \ {p}
               /\ UNCHANGED reader
    /\ UNCHANGED list /\ Untouched

NextSession ==
    /\ reader = "take" /\ rest = {}
    /\ reader' = IF list = {} THEN "done" ELSE "session"
    /\ UNCHANGED <<list, rest, view>> /\ Untouched

\* A corpus without a session is refused.
NoSession ==
    /\ reader = "session" /\ list = {}
    /\ reader' = "empty"
    /\ UNCHANGED <<list, rest, view>> /\ Untouched

Read == ListSessions \/ ReadSession \/ ReadTake \/ NextSession \/ NoSession

\* TakeRead.usable; health is Health's.
MetaUsable(m) == m.mark # "bad" /\ m.status = "complete"

\* A recording of the command line.
Cli(r) == CheckSplit(r) \/ Resolve(r) \/ Create(r) \/ InTake(r) \/ Operate(r) \/ Kill(r)

-----------------------------------------------------------------------------
(* What the corpus promises *)

TypeOK ==
    /\ DOMAIN pc = Recordings /\ marks \in 0..MaxMarks /\ dirs \subseteq Names
    /\ \A r \in Recordings : name[r] \in Names \cup {None} /\ take[r] \in 0..MaxTakes
    /\ \A n \in Names : meta[n] \in Splits \cup {None} /\ (meta[n] # None => n \in dirs)
    /\ \A n \in Names, t \in Takes :
          /\ files[n][t] \in {"absent", "open", "closed"}
          /\ takeMeta[n][t] \in Meta \cup {None}
          /\ files[n][t] # "absent" => meta[n] # None
    /\ list \subseteq Names /\ rest \subseteq Names \X Takes

\* A reader that goes through the corpus while sessions are created, recorded, killed and
\* ended never meets metadata whose data file is missing (read.py:236-239).
ReaderNeverFails == reader # "failed"

\* What a reader takes for usable is final: its file is closed and its end is in the events,
\* whatever else happens, and only a mark may change its metadata again.  A recording that
\* was killed in a take leaves nothing usable of it.
UsableIsFinal ==
    \A v \in view :
        MetaUsable(v.meta) =>
            /\ files[v.name][v.take] = "closed"
            /\ takeMeta[v.name][v.take].status = "complete"
            /\ \E i \in DOMAIN events[v.name] : events[v.name][i] = [kind |-> "take_end", take |-> v.take]

Before(es, i, k, t) == \E j \in 1..(i - 1) : es[j] = [kind |-> k, take |-> t]

\* A session directory has one history: it starts once, its takes follow each other, each
\* ended at most once and marked after its start, and nothing follows its end; whatever
\* recordings were started in one second, none writes into another's session.
OneHistoryPerSession ==
    \A n \in Names : LET es == events[n] IN
        \A i \in DOMAIN es :
            /\ (es[i].kind = "session_start") = (i = 1)
            /\ es[i].kind = "session_end" => i = Len(es)
            /\ es[i].kind = "take_start" =>
                  /\ ~ Before(es, i, "take_start", es[i].take)
                  /\ es[i].take > 1 => Before(es, i, "take_end", es[i].take - 1)
            /\ es[i].kind \in {"take_end", "take_abort", "take_mark"} => Before(es, i, "take_start", es[i].take)
            /\ es[i].kind \in {"take_end", "take_abort"} =>
                  ~ Before(es, i, "take_end", es[i].take) /\ ~ Before(es, i, "take_abort", es[i].take)

\* docs/SPEC_V1.md 7: "a single subject's data MUST NOT appear in more than one split".
OneSplitPerSubject == \A n, m \in Names : meta[n] # None /\ meta[m] # None => meta[n] = meta[m]

\* record_session.py:62-80 is enough for that as long as recordings are made on the command
\* line and no two of them are between the check and their metadata at a time.
SplitsHoldWithoutRaces ==
    (\A r \in Recordings : kind[r] = "cli") /\ ~ raced => OneSplitPerSubject
=============================================================================
