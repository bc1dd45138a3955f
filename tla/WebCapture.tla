----------------------------- MODULE WebCapture -----------------------------
(***************************************************************************)
(* The web front end's handlers (web.py) over session directories that     *)
(* recordings of the command line and readers share.                       *)
(*                                                                         *)
(* Handlers run on one event loop: nothing of another handler happens      *)
(* until a handler returns or awaits.  capture_start awaits once, to infer *)
(* a schema; the others never do.  Other processes, and the workers that   *)
(* read the corpus for the server, do not wait for the loop.               *)
(***************************************************************************)
EXTENDS Corpus

VARIABLES
    current,   \* CaptureState: the recording whose session and recorder it names, or None
    loop,      \* the recording a handler is working on, or None
    overlapped \* history: a start went past its check while another one awaited its probe

webVars == <<current, loop, overlapped>>

WebInit == InitWith({"cli", "web"}) /\ current = None /\ loop = None /\ overlapped = FALSE

Web(r) == kind[r] = "web"

\* Some other start is between its check and the end of its probe.
OtherProbes(r) == \E p \in Recordings \ {r} : Web(p) /\ pc[p] = "probe"

\* Mutant: a start is not refused.
MutCaptureStart(r) ==
    /\ Web(r) /\ pc[r] = "idle" /\ loop = None
    /\ Goto(r, IF plan[r].schema THEN "name" ELSE "probe")
    /\ loop' = IF plan[r].schema THEN r ELSE None
    /\ overlapped' = (overlapped \/ OtherProbes(r))
    /\ UNCHANGED <<name, take, ending, marks, diskVars, raced, current>> /\ Rest(r)

\* capture_start up to the await: refused while a recording is in progress.  The split of
\* the subject is not looked at.
CaptureStart(r) ==
    /\ Web(r) /\ pc[r] = "idle" /\ loop = None
    /\ Goto(r, IF current # None THEN "refused" ELSE IF plan[r].schema THEN "name" ELSE "probe")
    /\ loop' = IF current = None /\ plan[r].schema THEN r ELSE None
    /\ overlapped' = (overlapped \/ (current = None /\ OtherProbes(r)))
    /\ UNCHANGED <<name, take, ending, marks, diskVars, raced, current>> /\ Rest(r)

\* After the await.
Inferred(r) ==
    /\ Web(r) /\ loop = None /\ Resolve(r)
    /\ loop' = IF pc'[r] = "name" THEN r ELSE None
    /\ UNCHANGED <<current, overlapped>>

\* The rest of capture_start: the session, the recorder, and only then the state.
Construct(r) ==
    /\ Web(r) /\ loop = r /\ Create(r)
    /\ current' = IF pc'[r] = "ready" THEN r ELSE current
    /\ loop' = IF pc'[r] \in {"ready", "failed"} THEN None ELSE r
    /\ UNCHANGED overlapped

\* capture_action and capture_stop reach the recording the state names, and no other.
Act(r) ==
    /\ Web(r) /\ loop = None /\ current = r /\ Operate(r)
    /\ loop' = IF pc'[r] \in {"ready", "take"} THEN None ELSE r
    /\ UNCHANGED <<current, overlapped>>

\* The rest of the handler: a whole start, end or mark of a take, or capture_stop to its end.
Complete(r) ==
    /\ Web(r) /\ loop = r /\ InTake(r)
    /\ loop' = IF pc'[r] \in {"ready", "take", "closed"} THEN None ELSE r
    /\ current' = IF pc'[r] = "closed" THEN None ELSE current
    /\ UNCHANGED overlapped

\* The server is killed or interrupted: every recording of its own stops where it is.  It
\* may be started again.
KillServer ==
    /\ \E r \in Recordings : Web(r) /\ pc[r] # "idle" /\ ~ Over(r)
    /\ pc' = [r \in Recordings |-> IF Web(r) /\ pc[r] # "idle" /\ ~ Over(r) THEN "dead" ELSE pc[r]]
    /\ current' = None /\ loop' = None /\ overlapped' = FALSE
    /\ UNCHANGED <<name, take, ending, marks, diskVars, raced, processVars, readerVars>>

Handlers(r) == CaptureStart(r) \/ Inferred(r) \/ Construct(r) \/ Act(r) \/ Complete(r)

WebNext ==
    \/ KillServer
    \/ \E r \in Recordings : Handlers(r)
    \/ (\E r \in Recordings : kind[r] = "cli" /\ Cli(r)) /\ UNCHANGED webVars
    \/ Read /\ UNCHANGED webVars

WebSpec == WebInit /\ [][WebNext]_<<vars, webVars>>

-----------------------------------------------------------------------------
(* What CaptureState promises *)

\* Recorders of the server whose socket is open.
Running == {r \in Recordings : Web(r) /\ pc[r] \in {"ready", "take_meta", "take_event", "take", "take_mark",
                                                     "close_file", "end_event", "end_meta", "late_mark", "close"}}

\* As long as no start went past its check while another one awaited its probe, the state names
\* every recorder that runs, whatever was probed, failed to bind or was killed: a second start is
\* refused, and the session the state names is one that can still be recorded into.
StateNamesTheRecording ==
    ~ overlapped => Running = IF current = None THEN {} ELSE {current}

\* web.py:51, "The one recording that may be in progress".
OneRecording == Cardinality(Running) <= 1

\* docs/FORMAT.md 5, a take left `recording` by a crash: "the next tool to open the session
\* rewrites it to `aborted`".
NextToolAborts ==
    reader = "done" =>
        \A v \in view : v.meta.status = "recording" =>
            \/ \E r \in Recordings : name[r] = v.name /\ ~ Over(r)
            \/ takeMeta[v.name][v.take].status # "recording"
=============================================================================
