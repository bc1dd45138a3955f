------------------------------- MODULE CueProofs -------------------------------
(***************************************************************************)
(* Proofs about CueSession, for either front end, any keys and any number  *)
(* of them, and any count-in and number of reps.                           *)
(***************************************************************************)
EXTENDS CueSession, SequenceTheorems, FiniteSetTheorems, TLAPS

\* Where the caller is: between calls, starting a take, ending one.
Alone    == {"key", "check", "obey", "note", "close", "watch", "done"}
Starting == {"start_take", "arm", "clear", "launch"}
Ending   == {"stop_take", "join", "disarm", "end_event", "end_meta"}
Points   == Alone \cup Starting \cup Ending \cup {"mark_last_take"}

Calls == {<<>>, <<"watch">>, <<"start_take">>, <<"obey">>, <<"close">>,
          <<"mark_last_take", "start_take">>}

Take   == [kind : {"none", "cued", "ambient"}, status : {"unused", "recording", "complete", "aborted"},
           bad : BOOLEAN, cues : Nat, reps : Nat, meta : Meta]
Thread == [pc : {"off", "wait", "on_cue", "count", "event", "next", "done"},
           index : -CountIn..Reps, stop : BOOLEAN, held : {None} \cup TakeNumbers]
Entry  == [what : {"session_start", "take_start", "cue", "take_end", "take_abort", "take_mark", "note", "session_end"},
           take : {None} \cup TakeNumbers, n : Int]

Live(e) == engines[e].pc \notin {"off", "done"}

-----------------------------------------------------------------------------
(* The invariant *)

TypeInv ==
    /\ tty \in Seq(Keys) /\ keybuf \in Seq(Keys) /\ presses \in 0..MaxKeys
    /\ front \in FrontEnds /\ slow \in BOOLEAN
    /\ interrupted \in BOOLEAN /\ seen \in BOOLEAN /\ key \in Keys \cup {NoKey}
    /\ kind \in {"cued", "ambient"} /\ status \in {"complete", "aborted"}
    /\ pc \in Points /\ todo \in Calls
    /\ take \in {None} \cup TakeNumbers /\ cue \in {None} \cup TakeNumbers
    /\ finished \in BOOLEAN /\ eventsOpen \in BOOLEAN
    /\ nextTake \in 1..(MaxKeys + 1)
    /\ takes \in [TakeNumbers -> Take] /\ engines \in [TakeNumbers -> Thread]
    /\ events \in Seq(Entry)

\* The calls still to make, and whether a take is recording, at each point of the caller.
CallInv ==
    /\ pc \in Alone => todo = <<>>
    /\ pc \in Starting => todo \in {<<>>, <<"watch">>}
    /\ pc = "mark_last_take" => todo \in {<<>>, <<"start_take">>}
    /\ pc \in Ending => todo \in {<<>>, <<"obey">>, <<"close">>, <<"mark_last_take", "start_take">>}
    /\ take # None => take = LastTake
    /\ pc \in {"start_take", "arm", "end_event", "end_meta", "close", "done"} => take = None
    /\ pc = "mark_last_take" /\ todo = <<"start_take">> => take = None
    /\ pc \in {"clear", "launch", "stop_take", "join", "disarm", "watch"} => take # None
    /\ pc \in {"arm", "end_event", "end_meta"} => LastTake # None
    /\ pc # "done" => eventsOpen

\* A take is recording from its number to its disarming.
TakeInv ==
    /\ \A k \in TakeNumbers :
          /\ k >= nextTake => takes[k] = UnusedTake /\ engines[k] = NoEngine
          /\ k < nextTake => takes[k].kind # "none" /\ takes[k].status # "unused"
          /\ k < nextTake => (takes[k].status = "recording" <=> k = take \/ (k = LastTake /\ pc = "arm"))
    /\ pc \in {"arm", "clear", "launch"} => takes[LastTake].kind = kind /\ engines[LastTake] = NoEngine

\* The recorder's engine belongs to the open take.
CueInv ==
    /\ cue # None => cue = take /\ takes[cue].kind = "cued"
    /\ pc \in {"clear", "launch", "disarm"} => cue = None
    /\ \A e \in TakeNumbers :
          /\ Live(e) => engines[e].index <= Reps - 1
          /\ engines[e].pc \in {"count", "event"} => engines[e].held # None /\ engines[e].held < nextTake

\* The log knows only takes that were started, and the end of those that have ended.
LogInv ==
    /\ \A i \in DOMAIN events : events[i].take < nextTake
    /\ \A k \in TakeNumbers : k < nextTake => \E s \in EventsOf(k) : events[s].what = "take_start"
    /\ \A i \in DOMAIN events : events[i].what \in {"take_end", "take_abort"} =>
          events[i].take # None /\ takes[events[i].take].status \in {"complete", "aborted"}

AtLeast0(n) == IF n > 0 THEN n ELSE 0
Counted(k)  == {i \in CuesOf(k) : events[i].n >= 0}

\* While the cue thread is quick: how far its take's counters, its index and
\* the log are apart, at each of its points.
CountOf(k) ==
    /\ takes[k].cues = Cardinality(CuesOf(k)) + (IF engines[k].pc = "event" THEN 1 ELSE 0)
    /\ takes[k].reps = AtLeast0(takes[k].cues - CountIn)
    /\ Cardinality(Counted(k)) = AtLeast0(Cardinality(CuesOf(k)) - CountIn)
    /\ engines[k].pc = "off" => Cardinality(CuesOf(k)) = 0
    /\ engines[k].pc # "off" =>
          engines[k].index = Cardinality(CuesOf(k)) - CountIn - (IF engines[k].pc = "next" THEN 1 ELSE 0)

CountInv == \A k \in TakeNumbers : CountOf(k)

\* ... the thread is alive only for the engine the recorder holds, works on its
\* take, and has sent every cue when the schedule is finished.
ThreadInv ==
    /\ \A e \in TakeNumbers : Live(e) => e = cue
    /\ \A e \in TakeNumbers : engines[e].pc \in {"count", "event"} => engines[e].held = e
    /\ take # None /\ finished /\ pc # "clear" =>
          /\ engines[take].pc = "done" /\ engines[take].index = Reps
          /\ takes[take].kind = "cued"

\* ... the cues lie in their take, in order.
InOrder(k, i) ==
    /\ \E s \in EventsOf(k) : s < i /\ events[s].what = "take_start"
    /\ \A s \in EventsOf(k) : events[s].what \in {"take_end", "take_abort"} => i < s
    /\ events[i].n = Cardinality({j \in CuesOf(k) : j < i}) - CountIn

OrderInv == \A k \in TakeNumbers : \A i \in CuesOf(k) : InOrder(k, i)

\* ... and what was persisted of an ended take is what it was.
EndInv ==
    /\ \A k \in TakeNumbers :
          takes[k].status \in {"complete", "aborted"} /\ ~(k = LastTake /\ pc \in {"end_event", "end_meta"})
          => takes[k].meta = MetaOf(takes[k])
    /\ \A i \in DOMAIN events : events[i].what = "take_end" => events[i].n = takes[events[i].take].reps

BaseInv  == TypeInv /\ CallInv /\ TakeInv /\ CueInv /\ LogInv
QuickInv == CountInv /\ ThreadInv /\ OrderInv /\ EndInv
Inv      == BaseInv /\ (~slow => QuickInv)

-----------------------------------------------------------------------------
(* Lemmas on what a step does *)

\* The constants, as facts of arithmetic.
LEMMA Numbers ==
    /\ CountIn \in Nat /\ Reps \in Nat /\ Reps >= 1 /\ MaxKeys \in Nat /\ MaxKeys >= 1
    /\ TakeNumbers = 1..MaxKeys /\ None = 0 /\ None \notin TakeNumbers
    /\ \A k \in TakeNumbers : k \in Nat /\ k >= 1 /\ k <= MaxKeys
BY NumbersAssumption DEF TakeNumbers, None

\* Proceed makes the first call and leaves the others.
LEMMA Proceeds ==
    /\ Proceed(<<>>) => pc' = "key" /\ todo' = <<>>
    /\ \A a : Proceed(<<a>>) => pc' = a /\ todo' = <<>>
    /\ \A a, b : Proceed(<<a, b>>) => pc' = a /\ todo' = <<b>>
    /\ \A a, b, c : Proceed(<<a, b, c>>) => pc' = a /\ todo' = <<b, c>>
BY DEF Proceed

\* What the caller does with the takes it finds: the cases of StopIfRecording.
LEMMA StopsIfRecording ==
    /\ recording => /\ StopIfRecording \o <<"close">> = <<"stop_take", "close">>
                    /\ StopIfRecording \o <<"mark_last_take", "start_take">>
                           = <<"stop_take", "mark_last_take", "start_take">>
    /\ ~recording => /\ StopIfRecording \o <<"close">> = <<"close">>
                     /\ StopIfRecording \o <<"mark_last_take", "start_take">>
                           = <<"mark_last_take", "start_take">>
<1> DEFINE S == {"stop_take", "close", "mark_last_take", "start_take"}
<1>1. /\ <<"close">> \in Seq(S) /\ <<"mark_last_take", "start_take">> \in Seq(S)
      /\ <<"stop_take">> \in Seq(S)
  OBVIOUS
<1>2. /\ <<>> \o <<"close">> = <<"close">>
      /\ <<>> \o <<"mark_last_take", "start_take">> = <<"mark_last_take", "start_take">>
  BY <1>1, ConcatEmptySeq
<1>3. ASSUME NEW u \in Seq(S), NEW v \in Seq(S), Len(v) = Len(u) + 1, v[1] = "stop_take",
             \A i \in 1..Len(u) : v[i + 1] = u[i]
      PROVE  <<"stop_take">> \o u = v
  <2> DEFINE w == <<"stop_take">> \o u
  <2>1. Len(<<"stop_take">>) = 1 /\ <<"stop_take">>[1] = "stop_take"
    OBVIOUS
  <2>2. /\ w \in Seq(S) /\ Len(w) = Len(u) + 1
        /\ \A i \in 1..(Len(u) + 1) : w[i] = IF i <= 1 THEN "stop_take" ELSE u[i - 1]
    <3>1. /\ w \in Seq(S) /\ Len(w) = 1 + Len(u)
          /\ \A i \in 1..(1 + Len(u)) : w[i] = IF i <= 1 THEN <<"stop_take">>[i] ELSE u[i - 1]
      BY <1>1, <2>1, ConcatProperties
    <3> QED
      BY <2>1, <3>1, LenProperties
  <2>3. \A i \in 1..Len(w) : w[i] = v[i]
    <3> TAKE i \in 1..Len(w)
    <3>1. CASE i = 1
      BY <1>3, <2>2, <3>1, LenProperties
    <3>2. CASE i # 1
      <4>1. Len(u) \in Nat /\ i - 1 \in 1..Len(u) /\ (i - 1) + 1 = i
        BY <2>2, <3>2, LenProperties
      <4> QED
        BY <1>3, <2>2, <4>1
    <3> QED
      BY <3>1, <3>2
  <2> QED
    BY <1>3, <2>2, <2>3, SeqEqual
<1>4. /\ <<"stop_take">> \o <<"close">> = <<"stop_take", "close">>
      /\ <<"stop_take">> \o <<"mark_last_take", "start_take">> = <<"stop_take", "mark_last_take", "start_take">>
  <2>1. /\ <<"stop_take", "close">> \in Seq(S)
        /\ <<"stop_take", "mark_last_take", "start_take">> \in Seq(S)
    OBVIOUS
  <2>2. \A i \in 1..Len(<<"close">>) : <<"stop_take", "close">>[i + 1] = <<"close">>[i]
    OBVIOUS
  <2>3. \A i \in 1..Len(<<"mark_last_take", "start_take">>) :
            <<"stop_take", "mark_last_take", "start_take">>[i + 1] = <<"mark_last_take", "start_take">>[i]
    OBVIOUS
  <2>4. /\ Len(<<"stop_take", "close">>) = Len(<<"close">>) + 1
        /\ <<"stop_take", "close">>[1] = "stop_take"
        /\ Len(<<"stop_take", "mark_last_take", "start_take">>) = Len(<<"mark_last_take", "start_take">>) + 1
        /\ <<"stop_take", "mark_last_take", "start_take">>[1] = "stop_take"
    OBVIOUS
  <2> HIDE DEF S
  <2>5. <<"stop_take">> \o <<"close">> = <<"stop_take", "close">>
    BY <1>1, <1>3, <2>1, <2>2, <2>4, Zenon
  <2>6. <<"stop_take">> \o <<"mark_last_take", "start_take">> = <<"stop_take", "mark_last_take", "start_take">>
    BY <1>1, <1>3, <2>1, <2>3, <2>4, Zenon
  <2> QED
    BY <2>5, <2>6
<1> QED
  BY <1>2, <1>4 DEF StopIfRecording

\* A caller that has made its call goes on with the calls still to make.
LEMMA Returns ==
    ASSUME todo \in Calls, Return
    PROVE  /\ todo = <<>> => pc' = "key" /\ todo' = <<>>
           /\ todo = <<"watch">> => pc' = "watch" /\ todo' = <<>>
           /\ todo = <<"start_take">> => pc' = "start_take" /\ todo' = <<>>
           /\ todo = <<"obey">> => pc' = "obey" /\ todo' = <<>>
           /\ todo = <<"close">> => pc' = "close" /\ todo' = <<>>
           /\ todo = <<"mark_last_take", "start_take">> => pc' = "mark_last_take" /\ todo' = <<"start_take">>
           /\ UNCHANGED <<key, seen, kind, status>>
BY Proceeds DEF Return

\* An entry at the end of the log.
LEMMA Logged ==
    ASSUME TypeInv, NEW e \in Entry, events' = Append(events, e)
    PROVE  /\ events' \in Seq(Entry) /\ Len(events') = Len(events) + 1
           /\ Len(events) \in Nat /\ Len(events) + 1 \notin DOMAIN events
           /\ DOMAIN events = 1..Len(events) /\ DOMAIN events' = DOMAIN events \cup {Len(events) + 1}
           /\ \A i \in DOMAIN events : events'[i] = events[i]
           /\ events'[Len(events) + 1] = e
<1>1. events \in Seq(Entry)
  BY DEF TypeInv
<1>2. /\ events' \in Seq(Entry) /\ Len(events') = Len(events) + 1
      /\ \A i \in 1..Len(events) : events'[i] = events[i]
      /\ events'[Len(events) + 1] = e
  BY <1>1, AppendProperties
<1>3. Len(events) \in Nat /\ DOMAIN events = 1..Len(events) /\ DOMAIN events' = 1..Len(events')
  BY <1>1, <1>2, LenProperties
<1> QED
  BY <1>2, <1>3

LEMMA EventIsEntry ==
    ASSUME NEW w \in {"session_start", "take_start", "cue", "take_end", "take_abort", "take_mark", "note", "session_end"},
           NEW k \in {None} \cup TakeNumbers, NEW n \in Int
    PROVE  Event(w, k, n) \in Entry
BY DEF Event, Entry

LEMMA EndOfEntry ==
    ASSUME TypeInv, NEW k \in TakeNumbers
    PROVE  /\ EndOf(k) \in Entry /\ EndOf(k).take = k
           /\ EndOf(k).what \in {"take_end", "take_abort"}
           /\ EndOf(k).what = "take_end" => EndOf(k).n = takes[k].reps
<1>1. takes[k].reps \in Int
  BY DEF TypeInv, Take
<1>2. Event("take_end", k, takes[k].reps) \in Entry /\ Event("take_abort", k, 0) \in Entry
  BY <1>1, EventIsEntry
<1>3. EndOf(k) \in {Event("take_end", k, takes[k].reps), Event("take_abort", k, 0)}
  BY DEF EndOf
<1>4. EndOf(k).take = k /\ EndOf(k).what \in {"take_end", "take_abort"}
  BY <1>3 DEF Event
<1>5. EndOf(k).what = "take_end" => EndOf(k).n = takes[k].reps
  BY <1>3 DEF Event
<1> QED
  BY <1>2, <1>3, <1>4, <1>5

LEMMA TypeInit == Init => TypeInv
<1> SUFFICES ASSUME Init PROVE TypeInv
  OBVIOUS
<1> USE Numbers
<1>1. events \in Seq(Entry)
  <2>1. Event("session_start", None, 0) \in Entry
    BY EventIsEntry
  <2> QED
    BY <2>1 DEF Init
<1>2. UnusedTake \in Take
  BY DEF UnusedTake, Take, Meta
<1>3. NoEngine \in Thread
  BY DEF NoEngine, Thread
<1>4. pc \in Points /\ todo \in Calls
  BY DEF Init, Points, Calls, Starting, Alone
<1>5. tty \in Seq(Keys) /\ keybuf \in Seq(Keys) /\ presses \in 0..MaxKeys
  BY DEF Init
<1>6. /\ front \in FrontEnds /\ slow \in BOOLEAN /\ interrupted \in BOOLEAN /\ seen \in BOOLEAN
      /\ finished \in BOOLEAN /\ eventsOpen \in BOOLEAN
  BY DEF Init
<1>7. key \in Keys \cup {NoKey} /\ kind \in {"cued", "ambient"} /\ status \in {"complete", "aborted"}
  BY DEF Init
<1>8. /\ take \in {None} \cup TakeNumbers /\ cue \in {None} \cup TakeNumbers
      /\ nextTake \in 1..(MaxKeys + 1)
  BY DEF Init
<1>9. takes \in [TakeNumbers -> Take] /\ engines \in [TakeNumbers -> Thread]
  BY <1>2, <1>3 DEF Init
<1> QED
  BY <1>1, <1>4, <1>5, <1>6, <1>7, <1>8, <1>9 DEF TypeInv

\* A key and the rest of the keys.
LEMMA KeyRead ==
    ASSUME TypeInv, ReadKey
    PROVE  key' \in Keys \cup {NoKey} /\ tty' \in Seq(Keys) /\ keybuf' \in Seq(Keys)
<1>1. tty \in Seq(Keys) /\ keybuf \in Seq(Keys)
  BY DEF TypeInv
<1>2. ASSUME NEW s \in Seq(Keys), s # <<>>
      PROVE  Head(s) \in Keys /\ Tail(s) \in Seq(Keys)
  BY <1>2, HeadTailProperties
<1>3. <<>> \in Seq(Keys)
  OBVIOUS
<1> QED
  BY <1>1, <1>2, <1>3 DEF ReadKey

\* The takes and the threads stay records.
LEMMA TakeTypes ==
    ASSUME TypeInv, Next
    PROVE  takes' \in [TakeNumbers -> Take]
<1>1. takes \in [TakeNumbers -> Take] /\ kind \in {"cued", "ambient"} /\ status \in {"complete", "aborted"}
  BY DEF TypeInv
<1>2. ASSUME NEW t \in Take PROVE WithMeta(t) \in Take
  BY DEF WithMeta, MetaOf, Take, Meta
<1>3. CASE UNCHANGED takes
  BY <1>1, <1>3
<1>4. CASE OpenTake
  <2>1. [UnusedTake EXCEPT !.kind = kind, !.status = "recording"] \in Take
    BY <1>1, Numbers DEF UnusedTake, Take, Meta
  <2> QED
    BY <1>1, <1>2, <1>4, <2>1 DEF OpenTake
<1>5. CASE DisarmTake
  <2>1. ASSUME NEW t \in Take PROVE [t EXCEPT !.status = status] \in Take
    BY <1>1 DEF Take
  <2> QED
    BY <1>1, <1>5, <2>1 DEF DisarmTake
<1>6. CASE EndMeta
  BY <1>1, <1>2, <1>6 DEF EndMeta
<1>7. CASE MarkLastTake
  <2>1. ASSUME NEW t \in Take PROVE [t EXCEPT !.bad = TRUE] \in Take
    BY DEF Take
  <2> QED
    BY <1>1, <1>2, <1>7, <2>1 DEF MarkLastTake
<1>8. ASSUME NEW e \in TakeNumbers, CountCue(e) PROVE takes' \in [TakeNumbers -> Take]
  <2> DEFINE h == engines[e].held
             r == IF Armed(e) THEN engines[e].index + 1 ELSE takes[h].reps
  <2>1. takes' = [takes EXCEPT ![h].cues = @ + 1, ![h].reps = IF Armed(e) THEN engines[e].index + 1 ELSE @]
    BY <1>8 DEF CountCue
  <2>2. CASE h \in TakeNumbers
    <3>1. takes[h].cues + 1 \in Nat /\ r \in Nat
      BY <1>1, <2>2 DEF TypeInv, Take, Thread, Armed
    <3>2. takes' = [takes EXCEPT ![h] = [takes[h] EXCEPT !.cues = takes[h].cues + 1, !.reps = r]]
      BY <2>1, <2>2, <1>1 DEF Take
    <3>3. ASSUME NEW t \in Take, NEW c \in Nat, NEW n \in Nat
          PROVE  [t EXCEPT !.cues = c, !.reps = n] \in Take
      BY DEF Take
    <3> HIDE DEF r
    <3>4. [takes[h] EXCEPT !.cues = takes[h].cues + 1, !.reps = r] \in Take
      BY <1>1, <2>2, <3>1, <3>3
    <3> QED
      BY <1>1, <2>2, <3>2, <3>4
  <2>3. CASE h \notin TakeNumbers
    BY <1>1, <2>1, <2>3
  <2> QED
    BY <2>2, <2>3
<1>9. ASSUME NEW e \in TakeNumbers, CueThread(e), ~CountCue(e) PROVE UNCHANGED takes
  BY <1>9 DEF CueThread, CueStopped, EmitCue, ReadTake, CueEvent, NextCue
<1>10. Next => \/ UNCHANGED takes \/ OpenTake \/ DisarmTake \/ EndMeta \/ MarkLastTake
               \/ \E e \in TakeNumbers : CountCue(e)
  BY <1>9 DEF Next, Press, Interrupt, Caller, ReadKey, EndFinished, Obey, StartTake, StopTake, ArmTake,
              ClearFinished, LaunchCue, StopCue, JoinCue, EndEvent, Close, Note, KeyboardInterrupt, Watch, takeVars
<1> QED
  BY <1>3, <1>4, <1>5, <1>6, <1>7, <1>8, <1>10

\* A step of a cue thread changes only that thread.
LEMMA ThreadMoves ==
    ASSUME TypeInv, CueInv, NEW e \in TakeNumbers, CueThread(e)
    PROVE  /\ UNCHANGED <<keyVars, loopVars, nextTake, take, cue>>
           /\ engines' = [engines EXCEPT ![e] = engines'[e]]
           /\ engines'[e] \in Thread /\ engines' \in [TakeNumbers -> Thread]
           /\ Live(e) /\ (Live(e)' => engines'[e].index <= Reps - 1)
<1>1. engines[e] \in Thread /\ engines \in [TakeNumbers -> Thread]
  BY DEF TypeInv
<1>2. \A p \in {"wait", "on_cue", "count", "event", "next", "done"} : Engine(e, p) \in Thread
  BY <1>1 DEF Engine, Thread
<1>3. ASSUME NEW t \in Thread, SetEngine(e, t)
      PROVE  /\ engines' = [engines EXCEPT ![e] = engines'[e]] /\ engines'[e] = t
             /\ engines' \in [TakeNumbers -> Thread]
             /\ UNCHANGED <<keyVars, loopVars, nextTake, take, cue>>
  BY <1>1, <1>3 DEF SetEngine
<1>4. take \in {None} \cup TakeNumbers
  BY DEF TypeInv
<1>5. Live(e) => engines[e].index <= Reps - 1
  BY DEF CueInv
<1>6. CASE CueStopped(e) \/ EmitCue(e) \/ CountCue(e) \/ CueEvent(e)
  <2>1. PICK p \in {"wait", "on_cue", "count", "event", "next", "done"} : SetEngine(e, Engine(e, p))
    BY <1>6 DEF CueStopped, EmitCue, CountCue, CueEvent
  <2>2. Live(e)
    BY <1>6 DEF CueStopped, EmitCue, CountCue, CueEvent, Live
  <2>3. Engine(e, p).index = engines[e].index
    BY <1>1 DEF Engine, Thread
  <2> QED
    BY <1>2, <1>3, <1>5, <2>1, <2>2, <2>3
<1>7. CASE ReadTake(e)
  <2> DEFINE t == [engines[e] EXCEPT !.pc = IF recording THEN "count" ELSE "next", !.held = take]
  <2>1. t \in Thread /\ t.index = engines[e].index
    BY <1>1, <1>4 DEF Thread
  <2>2. SetEngine(e, t) /\ Live(e)
    BY <1>7 DEF ReadTake, Live
  <2> QED
    BY <1>3, <1>5, <2>1, <2>2
<1>8. CASE NextCue(e)
  <2> DEFINE t == [engines[e] EXCEPT !.pc = IF LastCue(e) THEN "done" ELSE "wait",
                                     !.index = @ + 1, !.held = None]
  <2>1. SetEngine(e, t) /\ Live(e)
    BY <1>8 DEF NextCue, Live
  <2>2. engines[e].index \in -CountIn..Reps /\ engines[e].index <= Reps - 1
    BY <1>1, <1>5, <2>1 DEF Thread
  <2>3. engines[e].index + 1 \in -CountIn..Reps
    BY <1>1, <2>2, Numbers DEF Thread
  <2>4. PICK p \in {"done", "wait"}, i \in -CountIn..Reps :
            /\ p = (IF LastCue(e) THEN "done" ELSE "wait") /\ i = engines[e].index + 1
            /\ t = [engines[e] EXCEPT !.pc = p, !.index = i, !.held = None]
    BY <2>3
  <2> HIDE DEF t
  <2>5. /\ t \in Thread /\ t.pc = (IF LastCue(e) THEN "done" ELSE "wait")
        /\ t.index = engines[e].index + 1
    <3>1. t \in Thread /\ t.pc = p /\ t.index = i
      BY <1>1, <2>4 DEF Thread
    <3> QED
      BY <2>4, <3>1
  <2>6. t.pc # "done" => t.index <= Reps - 1
    BY <2>2, <2>5, Numbers DEF LastCue, Armed
  <2>7. engines'[e] = t
    BY <1>3, <2>1, <2>5
  <2> QED
    BY <1>3, <2>1, <2>5, <2>6, <2>7 DEF Live
<1> QED
  BY <1>6, <1>7, <1>8 DEF CueThread

\* What each step of a cue thread does to it.
LEMMA ThreadGoes ==
    ASSUME TypeInv, NEW e \in TakeNumbers
    PROVE  /\ CueStopped(e) => /\ engines[e].pc = "wait" /\ engines'[e].pc = "done"
                               /\ engines'[e].index = engines[e].index /\ engines'[e].held = engines[e].held
           /\ EmitCue(e) => /\ engines[e].pc = "wait" /\ engines'[e].pc = "on_cue"
                            /\ engines'[e].index = engines[e].index /\ engines'[e].held = engines[e].held
           /\ ReadTake(e) => /\ engines[e].pc = "on_cue"
                             /\ engines'[e].pc = (IF recording THEN "count" ELSE "next")
                             /\ engines'[e].index = engines[e].index /\ engines'[e].held = take
           /\ CountCue(e) => /\ engines[e].pc = "count" /\ engines'[e].pc = "event"
                             /\ engines'[e].index = engines[e].index /\ engines'[e].held = engines[e].held
           /\ CueEvent(e) => /\ engines[e].pc = "event"
                             /\ engines'[e].pc = (IF eventsOpen THEN "next" ELSE "done")
                             /\ engines'[e].index = engines[e].index /\ engines'[e].held = engines[e].held
           /\ NextCue(e) => /\ engines[e].pc = "next"
                            /\ engines'[e].pc = (IF LastCue(e) THEN "done" ELSE "wait")
                            /\ engines'[e].index = engines[e].index + 1 /\ engines'[e].held = None
<1>1. engines \in [TakeNumbers -> Thread] /\ engines[e] \in Thread
  BY DEF TypeInv
<1>2. ASSUME NEW t, SetEngine(e, t) PROVE engines'[e] = t
  BY <1>1, <1>2 DEF SetEngine
<1>3. ASSUME NEW p PROVE /\ Engine(e, p).pc = p /\ Engine(e, p).index = engines[e].index
                         /\ Engine(e, p).held = engines[e].held
  BY <1>1 DEF Engine, Thread
<1>4. CueStopped(e) => engines[e].pc = "wait" /\ engines'[e] = Engine(e, "done")
  BY <1>2 DEF CueStopped
<1>5. EmitCue(e) => engines[e].pc = "wait" /\ engines'[e] = Engine(e, "on_cue")
  BY <1>2 DEF EmitCue
<1>6. CountCue(e) => engines[e].pc = "count" /\ engines'[e] = Engine(e, "event")
  BY <1>2 DEF CountCue
<1>7. CueEvent(e) => engines[e].pc = "event" /\ engines'[e] = Engine(e, IF eventsOpen THEN "next" ELSE "done")
  BY <1>2 DEF CueEvent
<1>8. ReadTake(e) => /\ engines[e].pc = "on_cue"
                     /\ engines'[e] = [engines[e] EXCEPT !.pc = IF recording THEN "count" ELSE "next", !.held = take]
  BY <1>2 DEF ReadTake
<1>9. NextCue(e) => /\ engines[e].pc = "next"
                    /\ engines'[e] = [engines[e] EXCEPT !.pc = IF LastCue(e) THEN "done" ELSE "wait",
                                                        !.index = engines[e].index + 1, !.held = None]
  BY <1>2 DEF NextCue
<1>10. ReadTake(e) => /\ engines[e].pc = "on_cue"
                      /\ engines'[e].pc = (IF recording THEN "count" ELSE "next")
                      /\ engines'[e].index = engines[e].index /\ engines'[e].held = take
  BY <1>1, <1>8 DEF Thread
<1>11. NextCue(e) => /\ engines[e].pc = "next"
                     /\ engines'[e].pc = (IF LastCue(e) THEN "done" ELSE "wait")
                     /\ engines'[e].index = engines[e].index + 1 /\ engines'[e].held = None
  BY <1>1, <1>9 DEF Thread
<1>12. CueEvent(e) => /\ engines[e].pc = "event"
                      /\ engines'[e].pc = (IF eventsOpen THEN "next" ELSE "done")
                      /\ engines'[e].index = engines[e].index /\ engines'[e].held = engines[e].held
  <2>1. PICK p : p = IF eventsOpen THEN "next" ELSE "done"
    OBVIOUS
  <2> QED
    BY <1>3, <1>7, <2>1
<1>13. /\ \A p : engines'[e] = Engine(e, p) =>
            /\ engines'[e].pc = p /\ engines'[e].index = engines[e].index /\ engines'[e].held = engines[e].held
  BY <1>3
<1> QED
  BY <1>4, <1>5, <1>6, <1>10, <1>11, <1>12, <1>13

LEMMA ThreadTypes ==
    ASSUME TypeInv, CueInv, Next
    PROVE  engines' \in [TakeNumbers -> Thread]
<1>1. engines \in [TakeNumbers -> Thread]
  BY DEF TypeInv
<1>2. CASE UNCHANGED engines
  BY <1>1, <1>2
<1>3. CASE LaunchCue
  <2>1. NewEngine \in Thread
    BY Numbers DEF NewEngine, Thread
  <2> QED
    BY <1>1, <1>3, <2>1 DEF LaunchCue
<1>4. CASE StopCue
  <2>1. ASSUME NEW t \in Thread PROVE [t EXCEPT !.stop = TRUE] \in Thread
    BY DEF Thread
  <2> QED
    BY <1>1, <1>4, <2>1 DEF StopCue
<1>5. Next => UNCHANGED engines \/ LaunchCue \/ StopCue \/ \E e \in TakeNumbers : CueThread(e)
  BY DEF Next, Press, Interrupt, Caller, ReadKey, EndFinished, Obey, StartTake, StopTake, OpenTake, ArmTake,
         ClearFinished, JoinCue, DisarmTake, EndEvent, EndMeta, MarkLastTake, Close, Note, KeyboardInterrupt, Watch
<1> QED
  BY <1>2, <1>3, <1>4, <1>5, ThreadMoves

\* What a step appends to the log, if anything.
LEMMA LogGrows ==
    ASSUME TypeInv, CallInv, Next
    PROVE  \/ UNCHANGED events
           \/ OpenTake /\ events' = Append(events, Event("take_start", nextTake, 0)) /\ nextTake \in TakeNumbers
           \/ EndEvent /\ LastTake \in TakeNumbers
              /\ events' = Append(events, EndOf(LastTake))
           \/ MarkLastTake /\ LastTake \in TakeNumbers
              /\ events' = Append(events, Event("take_mark", LastTake, 0))
           \/ Note /\ events' = Append(events, Event("note", None, 0))
           \/ Close /\ events' = Append(events, Event("session_end", None, 0))
           \/ \E e \in TakeNumbers : CueEvent(e)
                  /\ events' = Append(events, Event("cue", engines[e].held, engines[e].index))
<1>1. LastTake # None => LastTake \in TakeNumbers
  BY Numbers DEF TypeInv, LastTake
<1>2. ASSUME NEW e \in TakeNumbers, CueThread(e)
      PROVE  \/ UNCHANGED events
             \/ CueEvent(e) /\ events' = Append(events, Event("cue", engines[e].held, engines[e].index))
  BY <1>2 DEF CueThread, CueStopped, EmitCue, ReadTake, CountCue, CueEvent, NextCue, eventVars, Log
<1>3. CASE OpenTake
  BY <1>3 DEF OpenTake, Log
<1>4. CASE EndEvent
  BY <1>1, <1>4 DEF EndEvent, Log, CallInv
<1>5. CASE MarkLastTake
  BY <1>1, <1>5 DEF MarkLastTake, Log, eventVars
<1>6. CASE Note
  BY <1>6 DEF Note, Log, eventVars
<1>7. CASE Close
  BY <1>7 DEF Close
<1>8. Next => \/ UNCHANGED events \/ OpenTake \/ EndEvent \/ MarkLastTake \/ Note \/ Close
              \/ \E e \in TakeNumbers : CueThread(e)
  BY DEF Next, Press, Interrupt, Caller, ReadKey, EndFinished, Obey, StartTake, StopTake, ArmTake, eventVars,
         ClearFinished, LaunchCue, StopCue, JoinCue, DisarmTake, EndMeta, KeyboardInterrupt, Watch
<1> QED
  BY <1>2, <1>3, <1>4, <1>5, <1>6, <1>7, <1>8

LEMMA LogTypes ==
    ASSUME TypeInv, CallInv, Next
    PROVE  events' \in Seq(Entry)
<1>1. \A k \in TakeNumbers : takes[k].reps \in Nat
  BY DEF TypeInv, Take
<1>2. \A e \in TakeNumbers : engines[e].index \in Int /\ engines[e].held \in {None} \cup TakeNumbers
  BY Numbers DEF TypeInv, Thread
<1>3. events \in Seq(Entry)
  BY DEF TypeInv
<1>4. ASSUME NEW w \in {"session_start", "take_start", "cue", "take_end", "take_abort", "take_mark", "note", "session_end"},
             NEW k \in {None} \cup TakeNumbers, NEW n \in Int, events' = Append(events, Event(w, k, n))
      PROVE  events' \in Seq(Entry)
  BY <1>3, <1>4, EventIsEntry, AppendProperties
<1>5. \A w \in {"session_start", "take_start", "cue", "take_end", "take_abort", "take_mark", "note", "session_end"} :
      \A k \in {None} \cup TakeNumbers : \A n \in Int :
          events' = Append(events, Event(w, k, n)) => events' \in Seq(Entry)
  BY <1>4
<1>6. CASE UNCHANGED events
  BY <1>3, <1>6
<1>7. CASE \E e \in TakeNumbers : events' = Append(events, Event("cue", engines[e].held, engines[e].index))
  BY <1>2, <1>5, <1>7
<1>8. nextTake \in TakeNumbers /\ events' = Append(events, Event("take_start", nextTake, 0)) => events' \in Seq(Entry)
  BY <1>5
<1>9. LastTake \in TakeNumbers =>
      /\ events' = Append(events, EndOf(LastTake)) => events' \in Seq(Entry)
      /\ events' = Append(events, Event("take_mark", LastTake, 0)) => events' \in Seq(Entry)
  BY <1>3, <1>5, EndOfEntry, AppendProperties
<1>10. /\ events' = Append(events, Event("note", None, 0)) => events' \in Seq(Entry)
       /\ events' = Append(events, Event("session_end", None, 0)) => events' \in Seq(Entry)
  BY <1>5
<1> QED
  BY <1>6, <1>7, <1>8, <1>9, <1>10, LogGrows

\* Where the loop goes from a key, and from control-C.
LEMMA ObeyGoes ==
    ASSUME Obey
    PROVE  /\ \/ pc' = "key" /\ todo' = <<>>
              \/ pc' = "stop_take" /\ todo' = <<>> /\ take # None
              \/ pc' = "start_take" /\ todo' = <<>> /\ take = None
              \/ pc' = "mark_last_take" /\ todo' = <<>>
              \/ pc' = "stop_take" /\ todo' = <<"mark_last_take", "start_take">> /\ take # None
              \/ pc' = "mark_last_take" /\ todo' = <<"start_take">> /\ take = None
              \/ pc' = "note" /\ todo' = <<>>
              \/ pc' = "stop_take" /\ todo' = <<"close">> /\ take # None
              \/ pc' = "close" /\ todo' = <<>> /\ take = None
           /\ UNCHANGED <<take, nextTake, eventsOpen>> /\ pc = "obey"
           /\ UNCHANGED <<takes, cue, finished, events, engines>>
BY Proceeds, StopsIfRecording DEF Obey, recording, takeVars, eventVars

LEMMA InterruptGoes ==
    ASSUME KeyboardInterrupt
    PROVE  /\ \/ pc' = "stop_take" /\ todo' = <<"close">> /\ take # None
              \/ pc' = "close" /\ todo' = <<>> /\ take = None
           /\ UNCHANGED <<take, nextTake, eventsOpen>> /\ pc = "key"
           /\ UNCHANGED <<takes, cue, finished, events, engines>>
BY Proceeds, StopsIfRecording DEF KeyboardInterrupt, recording, takeVars, eventVars

\* The caller's control, one case for each of its calls.
LEMMA CallStep ==
    ASSUME TypeInv, CallInv, [Next]_vars
    PROVE  pc' \in Points /\ todo' \in Calls /\ CallInv'
<1> DEFINE Goal == pc' \in Points /\ todo' \in Calls /\ CallInv'
<1> USE Numbers
<1>1. pc \in Points /\ todo \in Calls
  BY DEF TypeInv
<1>2. CASE UNCHANGED <<pc, todo, take, nextTake, eventsOpen>>
  BY <1>1, <1>2 DEF CallInv, LastTake
<1>3. CASE ReadKey
  BY <1>1, <1>3 DEF ReadKey, takeVars, eventVars, CallInv, LastTake, Points, Calls, Alone, Starting, Ending
<1>4. CASE EndFinished
  <2>1. /\ \/ pc' = "stop_take" /\ todo' = <<"obey">> /\ take # None
           \/ pc' = "obey" /\ todo' = <<>>
        /\ UNCHANGED <<take, nextTake, eventsOpen>> /\ pc = "check"
    BY <1>4, Proceeds DEF EndFinished, recording, takeVars, eventVars
  <2> QED
    BY <2>1 DEF CallInv, LastTake, Points, Calls, Alone, Starting, Ending
<1>5. CASE Obey
  BY <1>5, ObeyGoes DEF CallInv, LastTake, Points, Calls, Alone, Starting, Ending
<1>6. CASE KeyboardInterrupt
  BY <1>6, InterruptGoes DEF CallInv, LastTake, Points, Calls, Alone, Starting, Ending
<1>7. CASE Watch
  <2>1. /\ pc' = "stop_take" /\ todo' = <<"close">> /\ pc = "watch"
        /\ UNCHANGED <<take, nextTake, eventsOpen>>
    BY <1>7, Proceeds DEF Watch, takeVars, eventVars
  <2> QED
    BY <2>1 DEF CallInv, LastTake, Points, Calls, Alone, Starting, Ending
<1>8. CASE Note
  <2>1. pc = "note" /\ todo = <<>> /\ eventsOpen
    BY <1>8 DEF Note, CallInv, Alone
  <2>2. pc' = "key" /\ todo' = <<>> /\ UNCHANGED <<take, nextTake, eventsOpen>>
    BY <1>1, <1>8, <2>1, Returns DEF Note, takeVars, eventVars, Log
  <2> QED
    BY <2>1, <2>2 DEF CallInv, LastTake, Points, Calls, Alone, Starting, Ending
<1>9. CASE OpenTake
  <2>1. /\ pc = "start_take" /\ pc' = "arm" /\ nextTake \in TakeNumbers /\ nextTake' = nextTake + 1
        /\ UNCHANGED <<todo, take, eventsOpen>>
    BY <1>9 DEF OpenTake, Goto, Log
  <2> QED
    BY <1>1, <2>1 DEF CallInv, LastTake, Points, Calls, Alone, Starting, Ending
<1>10. CASE ArmTake
  <2>1. pc = "arm" /\ pc' = "clear" /\ take' = LastTake /\ UNCHANGED <<todo, nextTake, eventsOpen>>
    BY <1>10 DEF ArmTake, Goto, LastTake, eventVars
  <2> QED
    BY <1>1, <2>1 DEF CallInv, LastTake, Points, Calls, Alone, Starting, Ending
<1>11. CASE ClearFinished
  <2>1. pc = "clear" /\ pc' = "launch" /\ UNCHANGED <<todo, take, nextTake, eventsOpen>>
    BY <1>11 DEF ClearFinished, Goto, takeVars, eventVars
  <2> QED
    BY <1>1, <2>1 DEF CallInv, LastTake, Points, Calls, Alone, Starting, Ending
<1>12. CASE LaunchCue
  <2>1. pc = "launch" /\ Return /\ todo \in {<<>>, <<"watch">>} /\ UNCHANGED <<take, nextTake, eventsOpen>>
    BY <1>12 DEF LaunchCue, CallInv, Starting, eventVars
  <2>2. (pc' = "key" \/ pc' = "watch") /\ todo' = <<>>
    BY <1>1, <2>1, Returns
  <2> QED
    BY <2>1, <2>2 DEF CallInv, LastTake, Points, Calls, Alone, Starting, Ending
<1>13. CASE StopCue
  <2>1. pc = "stop_take" /\ pc' = "join" /\ UNCHANGED <<todo, take, nextTake, eventsOpen>>
    BY <1>13 DEF StopCue, Goto, takeVars, eventVars
  <2> QED
    BY <1>1, <2>1 DEF CallInv, LastTake, Points, Calls, Alone, Starting, Ending
<1>14. CASE JoinCue
  <2>1. pc = "join" /\ pc' = "disarm" /\ UNCHANGED <<todo, take, nextTake, eventsOpen>>
    BY <1>14 DEF JoinCue, Goto, eventVars
  <2> QED
    BY <1>1, <2>1 DEF CallInv, LastTake, Points, Calls, Alone, Starting, Ending
<1>15. CASE DisarmTake
  <2>1. pc = "disarm" /\ pc' = "end_event" /\ take' = None /\ UNCHANGED <<todo, nextTake, eventsOpen>>
    BY <1>15 DEF DisarmTake, Goto, eventVars
  <2> QED
    BY <1>1, <2>1 DEF CallInv, LastTake, Points, Calls, Alone, Starting, Ending
<1>16. CASE EndEvent
  <2>1. pc = "end_event" /\ pc' = "end_meta" /\ UNCHANGED <<todo, take, nextTake, eventsOpen>>
    BY <1>16 DEF EndEvent, Goto, takeVars, Log
  <2> QED
    BY <1>1, <2>1 DEF CallInv, LastTake, Points, Calls, Alone, Starting, Ending
<1>17. CASE EndMeta
  <2>1. pc = "end_meta" /\ Return /\ UNCHANGED <<take, nextTake, eventsOpen>>
        /\ todo \in {<<>>, <<"obey">>, <<"close">>, <<"mark_last_take", "start_take">>}
    BY <1>17 DEF EndMeta, CallInv, Ending, eventVars
  <2>2. \/ pc' = "key" /\ todo' = <<>>
        \/ pc' = "obey" /\ todo' = <<>>
        \/ pc' = "close" /\ todo' = <<>>
        \/ pc' = "mark_last_take" /\ todo' = <<"start_take">>
    BY <1>1, <2>1, Returns
  <2> QED
    BY <2>1, <2>2 DEF CallInv, LastTake, Points, Calls, Alone, Starting, Ending
<1>18. CASE MarkLastTake
  <2>1. pc = "mark_last_take" /\ Return /\ UNCHANGED <<take, nextTake, eventsOpen>>
        /\ todo \in {<<>>, <<"start_take">>}
    BY <1>18 DEF MarkLastTake, CallInv, eventVars, Log
  <2>2. \/ pc' = "key" /\ todo' = <<>>
        \/ pc' = "start_take" /\ todo' = <<>> /\ take = None
    BY <1>1, <2>1, Returns DEF CallInv
  <2> QED
    BY <2>1, <2>2 DEF CallInv, LastTake, Points, Calls, Alone, Starting, Ending
<1>19. CASE Close
  <2>1. pc = "close" /\ pc' = "done" /\ UNCHANGED <<todo, take, nextTake>>
    BY <1>19 DEF Close, Goto, takeVars
  <2> QED
    BY <1>1, <2>1 DEF CallInv, LastTake, Points, Calls, Alone, Starting, Ending
<1>20. ASSUME NEW e \in TakeNumbers, CueThread(e) PROVE Goal
  <2>1. UNCHANGED <<pc, todo, take, nextTake, eventsOpen>>
    BY <1>20 DEF CueThread, CueStopped, EmitCue, ReadTake, CountCue, CueEvent, NextCue, SetEngine, loopVars,
                 eventVars, Log
  <2> QED
    BY <1>2, <2>1
<1>21. CASE Press \/ Interrupt \/ UNCHANGED vars
  <2>1. UNCHANGED <<pc, todo, take, nextTake, eventsOpen>>
    BY <1>21 DEF Press, Interrupt, vars, loopVars, takeVars, eventVars
  <2> QED
    BY <1>2, <2>1
<1> QED
  BY <1>3, <1>4, <1>5, <1>6, <1>7, <1>8, <1>9, <1>10, <1>11, <1>12, <1>13, <1>14, <1>15, <1>16, <1>17, <1>18,
     <1>19, <1>20, <1>21 DEF Next, Caller, StartTake, StopTake

LEMMA TypeStep ==
    ASSUME TypeInv, CallInv, TakeInv, CueInv, [Next]_vars
    PROVE  TypeInv'
<1>1. CASE UNCHANGED vars
  BY <1>1 DEF vars, keyVars, loopVars, takeVars, eventVars, TypeInv
<1>2. CASE Next
  <2>1. takes' \in [TakeNumbers -> Take] /\ engines' \in [TakeNumbers -> Thread] /\ events' \in Seq(Entry)
    BY <1>2, TakeTypes, ThreadTypes, LogTypes
  <2>2. pc' \in Points /\ todo' \in Calls
    BY CallStep
  <2>3. kind' \in {"cued", "ambient"} /\ status' \in {"complete", "aborted"}
    <3>1. kind \in {"cued", "ambient"} /\ status \in {"complete", "aborted"}
      BY DEF TypeInv
    <3>2. take # None => takes[take].kind \in {"cued", "ambient"}
      <4>1. take # None => take \in TakeNumbers /\ take < nextTake
        BY Numbers DEF TypeInv, CallInv, LastTake
      <4>2. \A k \in TakeNumbers : takes[k].kind \in {"none", "cued", "ambient"}
        BY DEF TypeInv, Take
      <4> QED
        BY <4>1, <4>2 DEF TakeInv
    <3>3. CASE UNCHANGED <<kind, status>>
      BY <3>1, <3>3
    <3>4. CASE Obey
      BY <3>1, <3>2, <3>4 DEF Obey, recording
    <3>5. CASE EndFinished \/ KeyboardInterrupt
      BY <3>1, <3>5 DEF EndFinished, KeyboardInterrupt
    <3>6. ASSUME NEW e \in TakeNumbers, CueThread(e) PROVE UNCHANGED <<kind, status>>
      BY <3>6, ThreadMoves DEF loopVars
    <3>7. Next => \/ UNCHANGED <<kind, status>> \/ Obey \/ EndFinished \/ KeyboardInterrupt
                  \/ \E e \in TakeNumbers : CueThread(e)
      BY DEF Next, Press, Interrupt, Caller, ReadKey, StartTake, StopTake, OpenTake, ArmTake, ClearFinished,
             LaunchCue, StopCue, JoinCue, DisarmTake, EndEvent, EndMeta, MarkLastTake, Close, Note, Watch,
             loopVars, Goto, Return
    <3> QED
      BY <1>2, <3>3, <3>4, <3>5, <3>6, <3>7
  <2>4. /\ front' \in FrontEnds /\ slow' \in BOOLEAN /\ interrupted' \in BOOLEAN /\ presses' \in 0..MaxKeys
        /\ tty' \in Seq(Keys) /\ keybuf' \in Seq(Keys)
    <3>1. /\ front \in FrontEnds /\ slow \in BOOLEAN /\ interrupted \in BOOLEAN /\ presses \in 0..MaxKeys
          /\ tty \in Seq(Keys) /\ keybuf \in Seq(Keys) /\ <<>> \in Seq(Keys)
      BY DEF TypeInv
    <3>2. CASE UNCHANGED keyVars
      BY <3>1, <3>2 DEF keyVars
    <3>3. CASE Press
      <4>1. PICK k \in Keys : tty' = Append(tty, k)
        BY <3>3 DEF Press
      <4>2. tty' \in Seq(Keys)
        BY <3>1, <4>1, AppendProperties
      <4> QED
        BY <3>1, <3>3, <4>2, Numbers DEF Press
    <3>4. CASE ReadKey
      BY <3>1, <3>4, KeyRead DEF ReadKey
    <3>5. CASE Interrupt
      BY <3>1, <3>5 DEF Interrupt
    <3>6. CASE Note
      BY <3>1, <3>6 DEF Note
    <3>7. Next => \/ UNCHANGED keyVars \/ Press \/ ReadKey \/ Interrupt \/ Note
      BY ThreadMoves DEF Next, Caller, EndFinished, Obey, StartTake, StopTake, OpenTake, ArmTake, ClearFinished,
             LaunchCue, StopCue, JoinCue, DisarmTake, EndEvent, EndMeta, MarkLastTake, Close, KeyboardInterrupt, Watch
    <3> QED
      BY <1>2, <3>2, <3>3, <3>4, <3>5, <3>6, <3>7
  <2>5. key' \in Keys \cup {NoKey} /\ seen' \in BOOLEAN
    <3>1. key \in Keys \cup {NoKey} /\ seen \in BOOLEAN
      BY DEF TypeInv
    <3>2. CASE ReadKey
      BY <3>2, KeyRead DEF ReadKey, recording
    <3>3. Next => ReadKey \/ UNCHANGED <<key, seen>>
      BY ThreadMoves DEF Next, Press, Interrupt, Caller, EndFinished, Obey, StartTake, StopTake, OpenTake, ArmTake,
             ClearFinished, LaunchCue, StopCue, JoinCue, DisarmTake, EndEvent, EndMeta, MarkLastTake, Close, Note,
             KeyboardInterrupt, Watch, loopVars, Goto, Return
    <3> QED
      BY <1>2, <3>1, <3>2, <3>3
  <2>6. /\ take' \in {None} \cup TakeNumbers /\ cue' \in {None} \cup TakeNumbers
        /\ nextTake' \in 1..(MaxKeys + 1)
    <3>1. /\ take \in {None} \cup TakeNumbers /\ cue \in {None} \cup TakeNumbers
          /\ nextTake \in 1..(MaxKeys + 1)
      BY DEF TypeInv
    <3>2. CASE UNCHANGED <<take, cue, nextTake>>
      BY <3>1, <3>2
    <3>3. CASE OpenTake
      BY <3>1, <3>3, Numbers DEF OpenTake
    <3>4. CASE ArmTake
      BY <3>1, <3>4, Numbers DEF ArmTake, CallInv, LastTake
    <3>5. CASE LaunchCue \/ JoinCue \/ DisarmTake
      BY <3>1, <3>5 DEF LaunchCue, JoinCue, DisarmTake
    <3>6. Next => \/ UNCHANGED <<take, cue, nextTake>> \/ OpenTake \/ ArmTake \/ LaunchCue \/ JoinCue \/ DisarmTake
      BY ThreadMoves DEF Next, Press, Interrupt, Caller, ReadKey, EndFinished, Obey, StartTake, StopTake,
             ClearFinished, StopCue, EndEvent, EndMeta, MarkLastTake, Close, Note, KeyboardInterrupt, Watch, takeVars
    <3> QED
      BY <1>2, <3>2, <3>3, <3>4, <3>5, <3>6
  <2>7. finished' \in BOOLEAN /\ eventsOpen' \in BOOLEAN
    <3>1. finished \in BOOLEAN /\ eventsOpen \in BOOLEAN
      BY DEF TypeInv
    <3>2. ASSUME NEW e \in TakeNumbers, CueThread(e) PROVE finished' \in BOOLEAN /\ UNCHANGED eventsOpen
      BY <3>1, <3>2 DEF CueThread, CueStopped, EmitCue, ReadTake, CountCue, CueEvent, NextCue, eventVars, Log,
                       LastCue, Armed
    <3>3. Next => \/ UNCHANGED <<finished, eventsOpen>> \/ ClearFinished \/ Close
                  \/ \E e \in TakeNumbers : CueThread(e)
      BY DEF Next, Press, Interrupt, Caller, ReadKey, EndFinished, Obey, StartTake, StopTake, OpenTake, ArmTake,
             LaunchCue, StopCue, JoinCue, DisarmTake, EndEvent, EndMeta, MarkLastTake, Note, KeyboardInterrupt,
             Watch, eventVars, Log
    <3> QED
      BY <1>2, <3>1, <3>2, <3>3 DEF ClearFinished, Close, eventVars
  <2> QED
    BY <2>1, <2>2, <2>3, <2>4, <2>5, <2>6, <2>7 DEF TypeInv
<1> QED
  BY <1>1, <1>2

\* The caller's points between which no take is opened.
Elsewhere == Points \ {"arm", "clear", "launch"}

\* A recording take is a started one, and so is a take with a thread.
LEMMA OpenIsStarted ==
    ASSUME TypeInv, CallInv, TakeInv
    PROVE  /\ take # None => take \in TakeNumbers /\ take = nextTake - 1 /\ take < nextTake
           /\ LastTake # None => LastTake \in TakeNumbers /\ LastTake < nextTake /\ LastTake = nextTake - 1
           /\ nextTake \in Nat /\ LastTake \in Nat
           /\ \A e \in TakeNumbers : Live(e) => e < nextTake
<1>1. \A e \in TakeNumbers : Live(e) => ~(e >= nextTake)
  BY DEF TakeInv, Live, NoEngine
<1> QED
  BY <1>1, Numbers DEF TypeInv, CallInv, LastTake

\* A step that opens, closes and launches nothing leaves TakeInv as it was.
LEMMA TakeFrame ==
    ASSUME TypeInv, CallInv, TakeInv, TypeInv', UNCHANGED <<nextTake, take>>,
           pc \notin {"arm", "clear", "launch"}, pc' \notin {"arm", "clear", "launch"},
           \A k \in TakeNumbers : takes'[k].kind = takes[k].kind /\ takes'[k].status = takes[k].status,
           \A k \in TakeNumbers : k >= nextTake => takes'[k] = takes[k] /\ engines'[k] = engines[k]
    PROVE  TakeInv'
BY DEF TakeInv, LastTake

LEMMA TakeStep ==
    ASSUME TypeInv, CallInv, TakeInv, CueInv, TypeInv', CallInv', [Next]_vars
    PROVE  TakeInv'
<1> USE Numbers
<1> DEFINE Frame == /\ UNCHANGED <<nextTake, take, takes, engines>>
                    /\ pc \notin {"arm", "clear", "launch"} /\ pc' \notin {"arm", "clear", "launch"}
<1>1. takes \in [TakeNumbers -> Take] /\ engines \in [TakeNumbers -> Thread]
  BY DEF TypeInv
<1>2. CASE UNCHANGED <<nextTake, take, takes, engines, pc, kind>>
  BY <1>2 DEF TakeInv, LastTake
<1>3. CASE ReadKey \/ EndFinished \/ Obey \/ KeyboardInterrupt \/ Watch \/ Note \/ JoinCue \/ Close \/ EndEvent
  <2>1. Frame
    <3>1. CASE ReadKey \/ JoinCue \/ Close \/ EndEvent
      BY <3>1 DEF ReadKey, JoinCue, Close, EndEvent, takeVars, Goto
    <3>2. CASE EndFinished
      BY <3>2, Proceeds DEF EndFinished, takeVars
    <3>3. CASE Obey
      BY <3>3, ObeyGoes
    <3>4. CASE KeyboardInterrupt
      BY <3>4, InterruptGoes
    <3>5. CASE Watch
      BY <3>5, Proceeds DEF Watch, takeVars
    <3>6. CASE Note
      <4>1. todo = <<>> /\ todo \in Calls /\ Return
        BY <3>6 DEF Note, CallInv, Alone, Calls
      <4> QED
        BY <3>6, <4>1, Returns DEF Note, takeVars
    <3> QED
      BY <1>3, <3>1, <3>2, <3>3, <3>4, <3>5, <3>6
  <2> QED
    BY <2>1, TakeFrame
<1>4. CASE OpenTake
  <2> DEFINE new == WithMeta([UnusedTake EXCEPT !.kind = kind, !.status = "recording"])
  <2>1. /\ takes' = [takes EXCEPT ![nextTake] = new] /\ nextTake' = nextTake + 1
        /\ nextTake \in TakeNumbers /\ pc = "start_take" /\ pc' = "arm" /\ take' = take /\ kind' = kind
        /\ UNCHANGED engines
    BY <1>4 DEF OpenTake, Goto
  <2>2. new.kind = kind /\ new.status = "recording"
    BY DEF WithMeta, MetaOf, UnusedTake
  <2> HIDE DEF new
  <2>3. take = None /\ kind # "none"
    BY <2>1 DEF CallInv, TypeInv
  <2>4. takes'[nextTake] = new /\ \A k \in TakeNumbers : k # nextTake => takes'[k] = takes[k]
    BY <1>1, <2>1
  <2>5. LastTake' = nextTake /\ nextTake \in Nat
    BY <2>1 DEF LastTake, TypeInv
  <2>6. \A k \in TakeNumbers : /\ k >= nextTake' => k # nextTake /\ k >= nextTake
                               /\ k < nextTake' => k = nextTake \/ k < nextTake
                               /\ k < nextTake => k # LastTake' /\ k # take
    BY <2>1, <2>3, <2>5
  <2>7. \A k \in TakeNumbers : k < nextTake => takes[k].status # "recording"
    BY <2>1, <2>3 DEF TakeInv
  <2>8. engines[nextTake] = NoEngine
    BY <2>1, <2>5 DEF TakeInv
  <2> QED
    BY <2>1, <2>2, <2>3, <2>4, <2>5, <2>6, <2>7, <2>8 DEF TakeInv
<1>5. CASE ArmTake
  <2>1. /\ pc = "arm" /\ pc' = "clear" /\ take' = LastTake /\ kind' = kind
        /\ UNCHANGED <<takes, nextTake, engines>> /\ LastTake' = LastTake /\ take = None
    BY <1>5 DEF ArmTake, Goto, LastTake, CallInv
  <2> QED
    BY <2>1 DEF TakeInv
<1>6. CASE ClearFinished
  <2>1. /\ pc = "clear" /\ pc' = "launch" /\ UNCHANGED <<takes, nextTake, engines, take, kind>> /\ LastTake' = LastTake
    BY <1>6 DEF ClearFinished, Goto, LastTake, takeVars
  <2> QED
    BY <2>1 DEF TakeInv
<1>7. CASE LaunchCue
  <2>1. /\ pc = "launch" /\ (pc' = "key" \/ pc' = "watch") /\ UNCHANGED <<takes, nextTake, take>> /\ LastTake' = LastTake
    <3>1. todo \in {<<>>, <<"watch">>} /\ Return /\ todo \in Calls
      BY <1>7 DEF LaunchCue, CallInv, Starting, Calls
    <3> QED
      BY <1>7, <3>1, Returns DEF LaunchCue, LastTake
  <2>2. take \in TakeNumbers /\ ~(take >= nextTake)
    BY <2>1, OpenIsStarted DEF CallInv
  <2>3. \A k \in TakeNumbers : k >= nextTake => engines'[k] = engines[k]
    BY <1>1, <1>7, <2>2 DEF LaunchCue
  <2> QED
    BY <2>1, <2>3 DEF TakeInv
<1>8. CASE StopCue
  <2>1. /\ pc = "stop_take" /\ pc' = "join" /\ UNCHANGED <<takes, nextTake, take>>
    BY <1>8 DEF StopCue, Goto, takeVars
  <2>2. cue # None => cue = take /\ ~(cue >= nextTake)
    BY OpenIsStarted DEF CueInv
  <2>3. \A k \in TakeNumbers : k >= nextTake => engines'[k] = engines[k]
    BY <1>1, <1>8, <2>2 DEF StopCue
  <2> QED
    BY <2>1, <2>3, TakeFrame
<1>9. CASE DisarmTake
  <2>1. /\ pc = "disarm" /\ pc' = "end_event" /\ UNCHANGED <<nextTake, engines>> /\ take' = None
        /\ takes' = [takes EXCEPT ![take].status = status] /\ LastTake' = LastTake
    BY <1>9 DEF DisarmTake, Goto, LastTake
  <2>2. take \in TakeNumbers /\ take < nextTake /\ status \in {"complete", "aborted"} /\ nextTake \in Nat
    BY <2>1, OpenIsStarted DEF CallInv, TypeInv
  <2>3. /\ takes'[take].kind = takes[take].kind /\ takes'[take].status = status
        /\ \A k \in TakeNumbers : k # take => takes'[k] = takes[k]
    BY <1>1, <2>1, <2>2 DEF Take
  <2>4. \A k \in TakeNumbers : k >= nextTake => k # take
    BY <2>2
  <2> QED
    BY <2>1, <2>2, <2>3, <2>4 DEF TakeInv
<1>10. CASE EndMeta \/ MarkLastTake
  <2>1. \A k \in TakeNumbers : takes'[k].kind = takes[k].kind /\ takes'[k].status = takes[k].status
    <3>1. \A t \in Take : /\ WithMeta(t).kind = t.kind /\ WithMeta(t).status = t.status
                          /\ WithMeta([t EXCEPT !.bad = TRUE]).kind = t.kind
                          /\ WithMeta([t EXCEPT !.bad = TRUE]).status = t.status
      BY DEF WithMeta, Take
    <3>2. ASSUME NEW k \in TakeNumbers
          PROVE  takes'[k] = takes[k] \/ takes'[k] = WithMeta(takes[k])
                 \/ takes'[k] = WithMeta([takes[k] EXCEPT !.bad = TRUE])
      BY <1>1, <1>10 DEF EndMeta, MarkLastTake
    <3>3. \A k \in TakeNumbers : takes[k] \in Take
      BY <1>1
    <3> QED
      BY <3>1, <3>2, <3>3
  <2>2. \A k \in TakeNumbers : k # LastTake => takes'[k] = takes[k]
    BY <1>1, <1>10 DEF EndMeta, MarkLastTake
  <2>3. \A k \in TakeNumbers : k >= nextTake => k # LastTake
    BY OpenIsStarted
  <2>4. pc \in {"end_meta", "mark_last_take"} /\ Return /\ UNCHANGED <<engines, nextTake, take>>
    BY <1>10 DEF EndMeta, MarkLastTake
  <2>5. pc' \notin {"arm", "clear", "launch"}
    <3>1. todo \in {<<>>, <<"obey">>, <<"close">>, <<"mark_last_take", "start_take">>, <<"start_take">>} /\ todo \in Calls
      BY <2>4 DEF CallInv, Ending, Calls
    <3> QED
      BY <2>4, <3>1, Returns
  <2> QED
    BY <2>1, <2>2, <2>3, <2>4, <2>5, TakeFrame
<1>11. ASSUME NEW e \in TakeNumbers, CueThread(e) PROVE TakeInv'
  <2>1. /\ UNCHANGED <<pc, kind, nextTake, take>> /\ LastTake' = LastTake
        /\ engines' = [engines EXCEPT ![e] = engines'[e]] /\ Live(e)
    BY <1>11, ThreadMoves DEF loopVars, LastTake
  <2>2. e < nextTake /\ ~(e >= nextTake)
    BY <2>1, OpenIsStarted
  <2>3. \A k \in TakeNumbers : k >= nextTake => engines'[k] = engines[k]
    BY <1>1, <2>1, <2>2
  <2>4. /\ \A k \in TakeNumbers : takes'[k].kind = takes[k].kind /\ takes'[k].status = takes[k].status
        /\ \A k \in TakeNumbers : k >= nextTake => takes'[k] = takes[k]
    <3>1. CASE UNCHANGED takes
      BY <3>1
    <3>2. CASE CountCue(e)
      <4> DEFINE h == engines[e].held
      <4>1. takes' = [takes EXCEPT ![h].cues = @ + 1, ![h].reps = IF Armed(e) THEN engines[e].index + 1 ELSE @]
        BY <3>2 DEF CountCue
      <4>2. h \in TakeNumbers /\ h < nextTake
        BY <1>1, <3>2 DEF CountCue, CueInv, Thread
      <4>3. /\ \A k \in TakeNumbers : k # h => takes'[k] = takes[k]
            /\ takes'[h].kind = takes[h].kind /\ takes'[h].status = takes[h].status
        BY <1>1, <4>1, <4>2 DEF Take
      <4>4. \A k \in TakeNumbers : k >= nextTake => k # h
        BY <4>2, OpenIsStarted
      <4> HIDE DEF h
      <4> QED
        BY <4>3, <4>4
    <3> QED
      BY <1>11, <3>1, <3>2 DEF CueThread, CueStopped, EmitCue, ReadTake, CueEvent, NextCue
  <2>5. pc \in {"arm", "clear", "launch"} => engines'[LastTake] = engines[LastTake]
    BY <1>1, <2>1, OpenIsStarted DEF TakeInv, Live, NoEngine, CallInv
  <2> QED
    BY <2>1, <2>3, <2>4, <2>5, OpenIsStarted DEF TakeInv, CallInv
<1>12. CASE Press \/ Interrupt \/ UNCHANGED vars
  <2>1. UNCHANGED <<nextTake, take, takes, engines, pc, kind>>
    BY <1>12 DEF Press, Interrupt, vars, loopVars, takeVars
  <2> QED
    BY <1>2, <2>1
<1> QED
  BY <1>3, <1>4, <1>5, <1>6, <1>7, <1>8, <1>9, <1>10, <1>11, <1>12 DEF Next, Caller, StartTake, StopTake

\* A take keeps its kind, and once ended it stays so.
LEMMA TakeKeeps ==
    ASSUME TypeInv, CallInv, TakeInv, [Next]_vars
    PROVE  \A k \in TakeNumbers : k < nextTake =>
               /\ takes'[k].kind = takes[k].kind
               /\ takes'[k].status = takes[k].status \/ takes'[k].status \in {"complete", "aborted"}
<1> DEFINE Same(t, u) == u.kind = t.kind /\ u.status = t.status
<1>1. takes \in [TakeNumbers -> Take] /\ nextTake \in Nat /\ status \in {"complete", "aborted"}
  BY OpenIsStarted DEF TypeInv
<1>2. CASE UNCHANGED takes
  BY <1>2
<1>3. CASE OpenTake
  <2>1. \A k \in TakeNumbers : k < nextTake => k # nextTake
    BY <1>1, Numbers
  <2> QED
    BY <1>1, <1>3, <2>1 DEF OpenTake
<1>4. CASE DisarmTake
  <2>1. ASSUME NEW k \in TakeNumbers
        PROVE  \/ takes'[k] = takes[k]
               \/ takes'[k].kind = takes[k].kind /\ takes'[k].status = status
    <3>1. takes[k] \in Take
      BY <1>1
    <3>2. takes' = [takes EXCEPT ![take].status = status]
      BY <1>4 DEF DisarmTake
    <3> QED
      BY <1>1, <3>1, <3>2 DEF Take
  <2> QED
    BY <1>1, <2>1
<1>5. CASE EndMeta \/ MarkLastTake
  <2>1. \A t \in Take : Same(t, WithMeta(t)) /\ Same(t, WithMeta([t EXCEPT !.bad = TRUE]))
    BY DEF WithMeta, Take
  <2>2. ASSUME NEW k \in TakeNumbers
        PROVE  takes'[k] = takes[k] \/ takes'[k] = WithMeta(takes[k])
               \/ takes'[k] = WithMeta([takes[k] EXCEPT !.bad = TRUE])
    BY <1>1, <1>5 DEF EndMeta, MarkLastTake
  <2>3. \A k \in TakeNumbers : takes[k] \in Take
    BY <1>1
  <2> QED
    BY <2>1, <2>2, <2>3
<1>6. ASSUME NEW e \in TakeNumbers, CountCue(e)
      PROVE  \A k \in TakeNumbers : Same(takes[k], takes'[k])
  BY <1>1, <1>6 DEF CountCue, Take
<1>7. ASSUME NEW e \in TakeNumbers, CueThread(e), ~CountCue(e) PROVE UNCHANGED takes
  BY <1>7 DEF CueThread, CueStopped, EmitCue, ReadTake, CueEvent, NextCue
<1>8. [Next]_vars => \/ UNCHANGED takes \/ OpenTake \/ DisarmTake \/ EndMeta \/ MarkLastTake
                     \/ \E e \in TakeNumbers : CountCue(e)
  BY <1>7 DEF Next, Press, Interrupt, Caller, ReadKey, EndFinished, Obey, StartTake, StopTake, ArmTake,
              ClearFinished, LaunchCue, StopCue, JoinCue, EndEvent, Close, Note, KeyboardInterrupt, Watch, takeVars, vars
<1> QED
  BY <1>2, <1>3, <1>4, <1>5, <1>6, <1>8

LEMMA CueStep ==
    ASSUME TypeInv, CallInv, TakeInv, CueInv, TypeInv', CallInv', [Next]_vars
    PROVE  CueInv'
<1>1. engines \in [TakeNumbers -> Thread] /\ cue \in {None} \cup TakeNumbers
  BY DEF TypeInv
<1>2. /\ nextTake' \in Nat /\ nextTake \in Nat /\ nextTake <= nextTake'
      /\ \A e \in TakeNumbers : engines[e].held \in Nat
  <2>1. nextTake \in Nat /\ nextTake' \in Nat
    BY Numbers DEF TypeInv
  <2>2. nextTake' = nextTake \/ nextTake' = nextTake + 1
    BY ThreadMoves DEF Next, Press, Interrupt, Caller, ReadKey, EndFinished, Obey, StartTake, StopTake, OpenTake,
           ArmTake, ClearFinished, LaunchCue, StopCue, JoinCue, DisarmTake, EndEvent, EndMeta, MarkLastTake, Close,
           Note, KeyboardInterrupt, Watch, takeVars, vars
  <2>3. \A e \in TakeNumbers : engines[e].held \in Nat
    BY <1>1, Numbers DEF Thread
  <2> QED
    BY <2>1, <2>2, <2>3
<1>3. \A e \in TakeNumbers : /\ Live(e)' => engines'[e].index <= Reps - 1
                             /\ engines'[e].pc \in {"count", "event"} => engines'[e].held # None /\ engines'[e].held < nextTake'
  <2>1. ASSUME NEW e \in TakeNumbers, engines'[e].pc = engines[e].pc, engines'[e].index = engines[e].index,
               engines'[e].held = engines[e].held
        PROVE  /\ Live(e)' => engines'[e].index <= Reps - 1
               /\ engines'[e].pc \in {"count", "event"} => engines'[e].held # None /\ engines'[e].held < nextTake'
    BY <1>2, <2>1 DEF CueInv, Live
  <2>2. CASE UNCHANGED engines
    BY <2>1, <2>2
  <2>3. CASE StopCue
    <3>1. ASSUME NEW e \in TakeNumbers
          PROVE  engines'[e] = engines[e] \/ engines'[e] = [engines[e] EXCEPT !.stop = TRUE]
      BY <1>1, <2>3 DEF StopCue
    <3>2. \A t \in Thread : /\ [t EXCEPT !.stop = TRUE].pc = t.pc
                            /\ [t EXCEPT !.stop = TRUE].index = t.index
                            /\ [t EXCEPT !.stop = TRUE].held = t.held
      BY DEF Thread
    <3> QED
      BY <1>1, <2>1, <3>1, <3>2
  <2>4. CASE LaunchCue
    <3>1. ASSUME NEW e \in TakeNumbers PROVE engines'[e] = engines[e] \/ engines'[e] = NewEngine
      BY <1>1, <2>4 DEF LaunchCue
    <3>2. NewEngine.pc = "wait" /\ NewEngine.index <= Reps - 1
      BY Numbers DEF NewEngine
    <3> QED
      BY <2>1, <3>1, <3>2
  <2>5. ASSUME NEW e \in TakeNumbers, CueThread(e)
        PROVE  \A k \in TakeNumbers :
                  /\ Live(k)' => engines'[k].index <= Reps - 1
                  /\ engines'[k].pc \in {"count", "event"} => engines'[k].held # None /\ engines'[k].held < nextTake'
    <3>1. /\ engines' = [engines EXCEPT ![e] = engines'[e]] /\ (Live(e)' => engines'[e].index <= Reps - 1)
          /\ nextTake' = nextTake
      BY <2>5, ThreadMoves DEF takeVars
    <3>2. engines'[e].pc \in {"count", "event"} => ReadTake(e) \/ CountCue(e)
      BY <2>5, ThreadGoes DEF CueThread
    <3>3. /\ ReadTake(e) /\ engines'[e].pc = "count" => engines'[e].held = take /\ take # None
          /\ ReadTake(e) => engines'[e].pc # "event"
          /\ CountCue(e) => engines[e].pc = "count" /\ engines'[e].held = engines[e].held
      BY ThreadGoes DEF recording
    <3>4. take # None => take < nextTake
      BY OpenIsStarted
    <3>5. \A k \in TakeNumbers : k # e => engines'[k] = engines[k]
      BY <1>1, <3>1
    <3>6. engines[e].pc = "count" => engines[e].held # None /\ engines[e].held < nextTake
      BY DEF CueInv
    <3>7. engines'[e].pc \in {"count", "event"} => engines'[e].held # None /\ engines'[e].held < nextTake'
      BY <3>1, <3>2, <3>3, <3>4, <3>6
    <3> QED
      BY <2>1, <3>1, <3>5, <3>7
  <2>6. [Next]_vars => UNCHANGED engines \/ LaunchCue \/ StopCue \/ \E e \in TakeNumbers : CueThread(e)
    BY DEF Next, Press, Interrupt, Caller, ReadKey, EndFinished, Obey, StartTake, StopTake, OpenTake, ArmTake,
           ClearFinished, JoinCue, DisarmTake, EndEvent, EndMeta, MarkLastTake, Close, Note, KeyboardInterrupt,
           Watch, vars
  <2> QED
    BY <2>2, <2>3, <2>4, <2>5, <2>6
<1>4. cue = None \/ (cue = take /\ cue \in TakeNumbers /\ takes'[cue].kind = "cued")
  BY <1>1, TakeKeeps, OpenIsStarted DEF CueInv
<1>5. /\ cue' # None => cue' = take' /\ takes'[cue'].kind = "cued"
      /\ pc' \in {"clear", "launch", "disarm"} => cue' = None
  <2>1. CASE UNCHANGED <<cue, take>> /\ pc' \notin {"clear", "launch", "disarm"}
    BY <1>4, <2>1
  <2>2. CASE UNCHANGED <<cue, take, pc>>
    BY <1>4, <2>2 DEF CueInv
  <2>3. CASE ArmTake
    <3>1. pc = "arm" /\ cue' = cue
      BY <2>3 DEF ArmTake
    <3>2. take = None
      BY <3>1 DEF CallInv
    <3> QED
      BY <1>4, <3>1, <3>2 DEF CueInv, None, TakeNumbers
  <2>4. CASE ClearFinished
    BY <2>4 DEF ClearFinished, takeVars, CueInv
  <2>5. CASE LaunchCue
    <3>1. pc = "launch" /\ take # None /\ cue = None /\ take \in TakeNumbers /\ take = LastTake /\ take < nextTake
      BY <2>5, OpenIsStarted DEF LaunchCue, CallInv, CueInv, LastTake
    <3>2. takes[take].kind = kind /\ takes'[take].kind = takes[take].kind
      BY <3>1, TakeKeeps DEF TakeInv
    <3>3. pc' \in {"key", "watch"}
      <4>1. todo \in {<<>>, <<"watch">>} /\ Return /\ todo \in Calls
        BY <2>5, <3>1 DEF LaunchCue, CallInv, Starting, Calls
      <4> QED
        BY <4>1, Returns
    <3> QED
      BY <2>5, <3>1, <3>2, <3>3 DEF LaunchCue
  <2>6. CASE JoinCue
    BY <2>6 DEF JoinCue
  <2>7. CASE DisarmTake
    <3>1. cue = None /\ cue' = cue /\ pc' = "end_event"
      BY <2>7 DEF DisarmTake, CueInv, Goto
    <3> QED
      BY <3>1
  <2>8. ASSUME Note \/ EndMeta \/ MarkLastTake
        PROVE  UNCHANGED <<cue, take>> /\ pc' \notin {"clear", "launch", "disarm"}
    <3>1. /\ todo \in {<<>>, <<"obey">>, <<"close">>, <<"mark_last_take", "start_take">>, <<"start_take">>}
          /\ todo \in Calls /\ Return /\ UNCHANGED <<cue, take>>
      BY <2>8 DEF Note, EndMeta, MarkLastTake, CallInv, Ending, Alone, Calls, takeVars
    <3> QED
      BY <3>1, Returns
  <2>9. ASSUME ReadKey \/ EndFinished \/ Obey \/ KeyboardInterrupt \/ Watch \/ OpenTake \/ StopCue \/ EndEvent \/ Close
        PROVE  UNCHANGED <<cue, take>> /\ pc' \notin {"clear", "launch", "disarm"}
    <3>1. CASE ReadKey \/ OpenTake \/ StopCue \/ EndEvent \/ Close
      BY <3>1 DEF ReadKey, OpenTake, StopCue, EndEvent, Close, takeVars, Goto
    <3>2. CASE EndFinished \/ Watch
      BY <3>2, Proceeds DEF EndFinished, Watch, takeVars
    <3>3. CASE Obey \/ KeyboardInterrupt
      BY <3>3, ObeyGoes, InterruptGoes
    <3> QED
      BY <2>9, <3>1, <3>2, <3>3
  <2>10. ASSUME NEW e \in TakeNumbers, CueThread(e) PROVE UNCHANGED <<cue, take, pc>>
    BY <2>10, ThreadMoves DEF loopVars
  <2>11. CASE Press \/ Interrupt \/ UNCHANGED vars
    BY <2>2, <2>11 DEF Press, Interrupt, vars, loopVars, takeVars
  <2> QED
    BY <2>1, <2>2, <2>3, <2>4, <2>5, <2>6, <2>7, <2>8, <2>9, <2>10, <2>11 DEF Next, Caller, StartTake, StopTake
<1> QED
  BY <1>3, <1>5 DEF CueInv

\* The events of a take after one more entry.
LEMMA LogAdds ==
    ASSUME TypeInv, NEW e \in Entry, events' = Append(events, e), NEW k \in TakeNumbers
    PROVE  /\ EventsOf(k)' = EventsOf(k) \cup (IF e.take = k THEN {Len(events) + 1} ELSE {})
           /\ CuesOf(k)' = CuesOf(k) \cup (IF e.take = k /\ e.what = "cue" THEN {Len(events) + 1} ELSE {})
           /\ EventsOf(k) \subseteq 1..Len(events) /\ CuesOf(k) \subseteq EventsOf(k)
           /\ \A i \in EventsOf(k) : events'[i] = events[i] /\ i \in Nat /\ i < Len(events) + 1
<1>1. /\ DOMAIN events = 1..Len(events) /\ DOMAIN events' = DOMAIN events \cup {Len(events) + 1}
      /\ \A i \in DOMAIN events : events'[i] = events[i]
      /\ events'[Len(events) + 1] = e /\ Len(events) \in Nat /\ Len(events) + 1 \notin DOMAIN events
  BY Logged
<1>2. EventsOf(k)' = EventsOf(k) \cup (IF e.take = k THEN {Len(events) + 1} ELSE {})
  BY <1>1 DEF EventsOf
<1>3. EventsOf(k) \subseteq 1..Len(events) /\ CuesOf(k) \subseteq EventsOf(k)
  BY <1>1 DEF EventsOf, CuesOf
<1>4. \A i \in EventsOf(k) : events'[i] = events[i] /\ i \in Nat /\ i < Len(events) + 1
  BY <1>1, <1>3
<1>5. CuesOf(k)' = CuesOf(k) \cup (IF e.take = k /\ e.what = "cue" THEN {Len(events) + 1} ELSE {})
  BY <1>1, <1>2, <1>4 DEF CuesOf
<1> QED
  BY <1>2, <1>3, <1>4, <1>5

LEMMA LogStep ==
    ASSUME TypeInv, CallInv, TakeInv, CueInv, LogInv, TypeInv', CallInv', [Next]_vars
    PROVE  LogInv'
<1>1. /\ nextTake' \in Nat /\ nextTake \in Nat /\ nextTake >= 1
      /\ nextTake' = nextTake \/ (OpenTake /\ nextTake' = nextTake + 1)
  <2>1. nextTake \in Nat /\ nextTake' \in Nat /\ nextTake >= 1
    BY Numbers DEF TypeInv
  <2>2. nextTake' = nextTake \/ (OpenTake /\ nextTake' = nextTake + 1)
    BY ThreadMoves DEF Next, Press, Interrupt, Caller, ReadKey, EndFinished, Obey, StartTake, StopTake, OpenTake,
           ArmTake, ClearFinished, LaunchCue, StopCue, JoinCue, DisarmTake, EndEvent, EndMeta, MarkLastTake, Close,
           Note, KeyboardInterrupt, Watch, takeVars, vars
  <2> QED
    BY <2>1, <2>2
<1>2. DOMAIN events \subseteq Nat /\ \A i \in DOMAIN events : events[i] \in Entry
  BY DEF TypeInv
<1>3. ASSUME NEW i \in DOMAIN events
      PROVE  /\ events[i].take < nextTake'
             /\ events[i].what \in {"take_end", "take_abort"} =>
                   events[i].take # None /\ takes'[events[i].take].status \in {"complete", "aborted"}
  <2>1. events[i].take < nextTake /\ events[i].take \in {None} \cup TakeNumbers
    BY <1>2 DEF LogInv, Entry
  <2>2. events[i].take \in Nat
    BY <2>1, Numbers
  <2> QED
    BY <1>1, <2>1, <2>2, TakeKeeps DEF LogInv
<1>4. CASE UNCHANGED events
  <2>1. \A k \in TakeNumbers : EventsOf(k)' = EventsOf(k)
    BY <1>4 DEF EventsOf
  <2>2. ~OpenTake
    <3>1. Append(events, Event("take_start", nextTake, 0)) # events
      <4>1. Event("take_start", nextTake, 0) \in {Event("take_start", nextTake, 0)} \cup Entry
        OBVIOUS
      <4>2. events \in Seq({Event("take_start", nextTake, 0)} \cup Entry)
        BY DEF TypeInv
      <4> QED
        BY <4>1, <4>2, AppendProperties, LenProperties
    <3> QED
      BY <1>4, <3>1 DEF OpenTake, Log
  <2> QED
    BY <1>1, <1>3, <1>4, <2>1, <2>2 DEF LogInv
<1>5. ASSUME NEW e \in Entry, events' = Append(events, e), e.take < nextTake',
             e.what \in {"take_end", "take_abort"} => e.take # None /\ takes'[e.take].status \in {"complete", "aborted"},
             nextTake' = nextTake \/ (e.what = "take_start" /\ e.take = nextTake)
      PROVE  LogInv'
  <2>1. /\ DOMAIN events' = DOMAIN events \cup {Len(events) + 1}
        /\ \A i \in DOMAIN events : events'[i] = events[i]
        /\ events'[Len(events) + 1] = e
    BY <1>5, Logged
  <2>2. ASSUME NEW k \in TakeNumbers, k < nextTake'
        PROVE  \E s \in EventsOf(k)' : events'[s].what = "take_start"
    <3>1. CASE k < nextTake
      <4>1. PICK s \in EventsOf(k) : events[s].what = "take_start"
        BY <3>1 DEF LogInv
      <4>2. s \in EventsOf(k)' /\ events'[s] = events[s]
        BY <1>5, LogAdds
      <4> QED
        BY <4>1, <4>2
    <3>2. CASE ~(k < nextTake)
      <4>1. e.take = k /\ e.what = "take_start"
        BY <1>1, <1>5, <2>2, <3>2, Numbers
      <4>2. Len(events) + 1 \in EventsOf(k)'
        BY <1>5, <4>1, LogAdds
      <4> QED
        BY <2>1, <4>1, <4>2
    <3> QED
      BY <3>1, <3>2
  <2>3. \A i \in DOMAIN events' : /\ events'[i].take < nextTake'
                                  /\ events'[i].what \in {"take_end", "take_abort"} => events'[i].take # None
                                        /\ takes'[events'[i].take].status \in {"complete", "aborted"}
    BY <1>3, <1>5, <2>1
  <2> QED
    BY <2>2, <2>3 DEF LogInv
<1>6. ASSUME NEW w \in {"session_start", "take_start", "cue", "take_end", "take_abort", "take_mark", "note", "session_end"},
             NEW k \in {None} \cup TakeNumbers, NEW n \in Int, events' = Append(events, Event(w, k, n)),
             k < nextTake', w \in {"take_end", "take_abort"} => k # None /\ takes'[k].status \in {"complete", "aborted"},
             nextTake' = nextTake \/ (w = "take_start" /\ k = nextTake)
      PROVE  LogInv'
  <2>1. /\ Event(w, k, n) \in Entry /\ Event(w, k, n).what = w /\ Event(w, k, n).take = k
    BY EventIsEntry DEF Event
  <2> QED
    BY <1>5, <1>6, <2>1
<1>7. CASE OpenTake /\ events' = Append(events, Event("take_start", nextTake, 0)) /\ nextTake \in TakeNumbers
  <2>1. nextTake' = nextTake + 1
    BY <1>7 DEF OpenTake
  <2> QED
    BY <1>1, <1>6, <1>7, <2>1
<1>8. CASE EndEvent /\ LastTake \in TakeNumbers
           /\ events' = Append(events, EndOf(LastTake))
  <2>1. nextTake' = nextTake /\ pc = "end_event" /\ takes' = takes
    BY <1>8 DEF EndEvent, takeVars
  <2>2. LastTake < nextTake /\ LastTake # None /\ takes[LastTake].status \in {"complete", "aborted"}
    <3>1. LastTake < nextTake /\ LastTake # None /\ take = None
      BY <1>8, <2>1, OpenIsStarted, Numbers DEF CallInv
    <3>2. takes[LastTake].status \in {"unused", "recording", "complete", "aborted"}
      BY <1>8 DEF TypeInv, Take
    <3> QED
      BY <1>8, <2>1, <3>1, <3>2 DEF TakeInv
  <2>3. EndOf(LastTake) \in Entry /\ EndOf(LastTake).take = LastTake
    BY <1>8, EndOfEntry
  <2> QED
    BY <1>5, <1>8, <2>1, <2>2, <2>3
<1>9. CASE MarkLastTake /\ LastTake \in TakeNumbers /\ events' = Append(events, Event("take_mark", LastTake, 0))
  <2>1. nextTake' = nextTake /\ LastTake < nextTake
    BY <1>9, OpenIsStarted, Numbers DEF MarkLastTake
  <2> QED
    BY <1>6, <1>9, <2>1
<1>10. CASE Note /\ events' = Append(events, Event("note", None, 0))
  <2>1. nextTake' = nextTake /\ None < nextTake'
    BY <1>1, <1>10, Numbers DEF Note, takeVars
  <2> QED
    BY <1>6, <1>10, <2>1
<1>11. CASE Close /\ events' = Append(events, Event("session_end", None, 0))
  <2>1. nextTake' = nextTake /\ None < nextTake'
    BY <1>1, <1>11, Numbers DEF Close, takeVars
  <2> QED
    BY <1>6, <1>11, <2>1
<1>12. ASSUME NEW e \in TakeNumbers, CueEvent(e),
              events' = Append(events, Event("cue", engines[e].held, engines[e].index))
       PROVE  LogInv'
  <2>1. nextTake' = nextTake
    BY <1>12, ThreadMoves DEF CueThread
  <2>2. engines[e].held \in {None} \cup TakeNumbers /\ engines[e].index \in Int
    BY Numbers DEF TypeInv, Thread
  <2>3. engines[e].held < nextTake
    BY <1>12 DEF CueEvent, CueInv
  <2> QED
    BY <1>6, <1>12, <2>1, <2>2, <2>3
<1>13. CASE UNCHANGED vars
  BY <1>4, <1>13 DEF vars, eventVars
<1> QED
  BY <1>4, <1>7, <1>8, <1>9, <1>10, <1>11, <1>12, <1>13, LogGrows

-----------------------------------------------------------------------------
(* The invariant while the cue thread is quick *)

\* A step of a live thread: it is the recorder's, of the take that records.
LEMMA LiveIsCurrent ==
    ASSUME BaseInv, ThreadInv, NEW e \in TakeNumbers, Live(e)
    PROVE  /\ e = cue /\ e = take /\ take # None /\ e \in TakeNumbers /\ e < nextTake
           /\ takes[e].kind = "cued" /\ takes[e].status = "recording"
           /\ eventsOpen /\ pc \notin {"clear", "launch", "disarm"} /\ ~finished
<1>1. e = cue /\ cue # None /\ None \notin TakeNumbers
  BY Numbers DEF ThreadInv
<1>2. e = take /\ takes[e].kind = "cued" /\ take # None
  BY <1>1 DEF BaseInv, CueInv
<1>3. e < nextTake
  BY <1>2, OpenIsStarted DEF BaseInv
<1>4. takes[e].status = "recording"
  BY <1>2, <1>3 DEF BaseInv, TakeInv
<1>5. pc \notin {"clear", "launch", "disarm"}
  BY <1>1 DEF BaseInv, CueInv
<1>6. eventsOpen
  BY <1>2 DEF BaseInv, CallInv
<1>7. ~finished
  BY <1>2, <1>5 DEF ThreadInv, Live
<1> QED
  BY <1>1, <1>2, <1>3, <1>4, <1>5, <1>6, <1>7

\* Of the caller's calls only these touch the engines.
LEMMA EnginesKept ==
    ASSUME TypeInv, [Next]_vars, ~LaunchCue, ~ \E e \in TakeNumbers : CueThread(e)
    PROVE  \A k \in TakeNumbers : /\ engines'[k].pc = engines[k].pc /\ engines'[k].index = engines[k].index
                                  /\ engines'[k].held = engines[k].held
<1>1. engines \in [TakeNumbers -> Thread]
  BY DEF TypeInv
<1>2. CASE UNCHANGED engines
  BY <1>2
<1>3. CASE StopCue
  <2>1. ASSUME NEW k \in TakeNumbers
        PROVE  engines'[k] = engines[k] \/ engines'[k] = [engines[k] EXCEPT !.stop = TRUE]
    BY <1>1, <1>3 DEF StopCue
  <2>2. \A t \in Thread : /\ [t EXCEPT !.stop = TRUE].pc = t.pc
                          /\ [t EXCEPT !.stop = TRUE].index = t.index
                          /\ [t EXCEPT !.stop = TRUE].held = t.held
    BY DEF Thread
  <2> QED
    BY <1>1, <2>1, <2>2
<1>4. [Next]_vars => UNCHANGED engines \/ LaunchCue \/ StopCue \/ \E e \in TakeNumbers : CueThread(e)
  BY DEF Next, Press, Interrupt, Caller, ReadKey, EndFinished, Obey, StartTake, StopTake, OpenTake, ArmTake,
         ClearFinished, JoinCue, DisarmTake, EndEvent, EndMeta, MarkLastTake, Close, Note, KeyboardInterrupt,
         Watch, vars
<1> QED
  BY <1>2, <1>3, <1>4

LEMMA ThreadStep ==
    ASSUME ~slow, BaseInv, ThreadInv, TypeInv', CallInv', [Next]_vars
    PROVE  ThreadInv'
<1> USE DEF BaseInv
<1>1. engines \in [TakeNumbers -> Thread] /\ take \in {None} \cup TakeNumbers /\ None \notin TakeNumbers
  BY Numbers DEF TypeInv
<1>2. CASE LaunchCue
  <2>1. /\ pc = "launch" /\ take # None /\ take = LastTake /\ cue = None /\ take \in TakeNumbers
        /\ UNCHANGED <<take, finished>>
    BY <1>1, <1>2 DEF LaunchCue, CallInv, CueInv
  <2>2. engines[take].pc = "off" /\ ~finished
    BY <2>1 DEF TakeInv, NoEngine, ThreadInv
  <2>3. \A e \in TakeNumbers : ~Live(e)
    BY <1>1, <2>1 DEF ThreadInv
  <2>4. \A e \in TakeNumbers : /\ e # take => engines'[e] = engines[e]
                               /\ engines'[e] = engines[e] \/ (engines'[e] = NewEngine /\ cue' = take)
    BY <1>1, <1>2, <2>1 DEF LaunchCue
  <2>5. NewEngine.pc = "wait"
    BY DEF NewEngine
  <2> QED
    BY <2>1, <2>2, <2>3, <2>4, <2>5 DEF ThreadInv, Live
<1>3. ASSUME NEW e \in TakeNumbers, CueThread(e) PROVE ThreadInv'
  <2>1. /\ Live(e) /\ engines' = [engines EXCEPT ![e] = engines'[e]]
        /\ UNCHANGED <<pc, take, cue>>
    BY <1>3, ThreadMoves DEF loopVars
  <2>2. e = cue /\ e = take /\ takes[e].kind = "cued" /\ ~finished /\ e < nextTake
    BY <2>1, LiveIsCurrent
  <2>3. \A k \in TakeNumbers : k # e => engines'[k] = engines[k]
    BY <1>1, <2>1
  <2>4. engines'[e].pc \in {"count", "event"} => engines'[e].held = e
    <3>1. engines[e].pc = "count" => engines[e].held = e
      BY DEF ThreadInv
    <3> QED
      BY <1>3, <2>2, <3>1, ThreadGoes DEF CueThread
  <2>5. finished' => engines'[e].pc = "done" /\ engines'[e].index = Reps
    <3>1. finished' => NextCue(e) /\ LastCue(e)
      BY <1>3, <2>2 DEF CueThread, CueStopped, EmitCue, ReadTake, CountCue, CueEvent, NextCue
    <3>2. engines[e].index \in Int /\ engines[e].index <= Reps - 1
      BY <1>1, <2>1, Numbers DEF CueInv, Thread
    <3> QED
      BY <3>1, <3>2, ThreadGoes, Numbers DEF LastCue
  <2>6. takes'[e].kind = "cued"
    BY <2>2, TakeKeeps
  <2> QED
    BY <2>1, <2>2, <2>3, <2>4, <2>5, <2>6 DEF ThreadInv, Live
<1>4. CASE ~LaunchCue /\ ~ \E e \in TakeNumbers : CueThread(e)
  <2>1. \A k \in TakeNumbers : /\ engines'[k].pc = engines[k].pc /\ engines'[k].index = engines[k].index
                               /\ engines'[k].held = engines[k].held
    BY <1>4, EnginesKept
  <2>2. \A e \in TakeNumbers : Live(e)' => e = cue'
    <3>1. CASE JoinCue
      <4>1. cue = None \/ (cue \in TakeNumbers /\ engines[cue].pc = "done")
        BY <3>1 DEF JoinCue, Joined, TypeInv
      <4>2. \A e \in TakeNumbers : ~Live(e)
        BY <1>1, <4>1 DEF ThreadInv, Live
      <4> QED
        BY <2>1, <4>2 DEF Live
    <3>2. JoinCue \/ cue' = cue
      BY <1>4 DEF Next, Press, Interrupt, Caller, ReadKey, EndFinished, Obey, StartTake, StopTake, OpenTake, ArmTake,
             ClearFinished, StopCue, DisarmTake, EndEvent, EndMeta, MarkLastTake, Close, Note, KeyboardInterrupt,
             Watch, takeVars, vars
    <3> QED
      BY <2>1, <3>1, <3>2 DEF ThreadInv, Live
  <2>3. take' # None /\ finished' /\ pc' # "clear" =>
            take' = take /\ take # None /\ finished /\ pc # "clear"
    <3>1. CASE UNCHANGED <<take, finished, pc>>
      BY <3>1
    <3>2. CASE ArmTake \/ ClearFinished \/ DisarmTake
      BY <3>2 DEF ArmTake, ClearFinished, DisarmTake, Goto
    <3>3. Next => \/ UNCHANGED <<take, finished, pc>> \/ ArmTake \/ ClearFinished \/ DisarmTake
                  \/ UNCHANGED <<take, finished>> /\ pc # "clear"
      BY <1>4 DEF Next, Press, Interrupt, Caller, ReadKey, EndFinished, Obey, StartTake, StopTake, OpenTake,
             StopCue, JoinCue, EndEvent, EndMeta, MarkLastTake, Close, Note, KeyboardInterrupt,
             Watch, takeVars, loopVars
    <3> QED
      BY <3>1, <3>2, <3>3 DEF vars, loopVars, takeVars
  <2>4. take # None => take \in TakeNumbers /\ take < nextTake /\ takes'[take].kind = takes[take].kind
    BY OpenIsStarted, TakeKeeps
  <2> QED
    BY <2>1, <2>2, <2>3, <2>4 DEF ThreadInv
<1> QED
  BY <1>2, <1>3, <1>4

\* The cues of a take are finitely many.
LEMMA CuesAreFinite ==
    ASSUME TypeInv, NEW k \in TakeNumbers
    PROVE  /\ IsFiniteSet(CuesOf(k)) /\ Cardinality(CuesOf(k)) \in Nat
           /\ IsFiniteSet(Counted(k)) /\ Cardinality(Counted(k)) \in Nat
<1>1. DOMAIN events = 1..Len(events) /\ Len(events) \in Nat
  BY LenProperties DEF TypeInv
<1>2. IsFiniteSet(1..Len(events))
  BY <1>1, FS_Interval
<1>3. CuesOf(k) \in SUBSET (1..Len(events)) /\ Counted(k) \in SUBSET (1..Len(events))
  BY <1>1 DEF CuesOf, EventsOf, Counted
<1> QED
  BY <1>2, <1>3, FS_Subset, FS_CardinalityType

\* Without a new cue of take k its cues are the same.
LEMMA SameCues ==
    ASSUME TypeInv, NEW k \in TakeNumbers,
           \/ UNCHANGED events
           \/ \E e \in Entry : events' = Append(events, e) /\ ~(e.what = "cue" /\ e.take = k)
    PROVE  CuesOf(k)' = CuesOf(k) /\ Counted(k)' = Counted(k)
<1>1. CASE UNCHANGED events
  BY <1>1 DEF CuesOf, EventsOf, Counted
<1>2. ASSUME NEW e \in Entry, events' = Append(events, e), ~(e.what = "cue" /\ e.take = k)
      PROVE  CuesOf(k)' = CuesOf(k) /\ Counted(k)' = Counted(k)
  <2>1. CuesOf(k)' = CuesOf(k)
    <3>1. CuesOf(k)' = CuesOf(k) \cup (IF e.take = k /\ e.what = "cue" THEN {Len(events) + 1} ELSE {})
      BY <1>2, LogAdds
    <3>2. ~(e.take = k /\ e.what = "cue")
      BY <1>2
    <3> QED
      BY <3>1, <3>2
  <2>2. \A i \in CuesOf(k) : events'[i] = events[i]
    BY <1>2, LogAdds
  <2> QED
    BY <2>1, <2>2 DEF Counted
<1> QED
  BY <1>1, <1>2

\* A new cue of take k is one more, and one more counted if its index says so.
LEMMA OneMoreCue ==
    ASSUME TypeInv, NEW k \in TakeNumbers, NEW n \in Int, events' = Append(events, Event("cue", k, n))
    PROVE  /\ CuesOf(k)' = CuesOf(k) \cup {Len(events) + 1}
           /\ Cardinality(CuesOf(k)') = Cardinality(CuesOf(k)) + 1
           /\ Cardinality(Counted(k)') = Cardinality(Counted(k)) + (IF n >= 0 THEN 1 ELSE 0)
           /\ events'[Len(events) + 1].n = n
<1> DEFINE e == Event("cue", k, n)
<1>1. e \in Entry /\ e.take = k /\ e.what = "cue" /\ e.n = n
  BY EventIsEntry DEF Event
<1> HIDE DEF e
<1>2. events' = Append(events, e)
  BY DEF e
<1>3. /\ CuesOf(k)' = CuesOf(k) \cup {Len(events) + 1}
      /\ \A i \in CuesOf(k) : events'[i] = events[i] /\ i < Len(events) + 1
  BY <1>1, <1>2, LogAdds
<1>4. events'[Len(events) + 1] = e /\ Len(events) \in Nat
  BY <1>1, <1>2, Logged
<1>5. Len(events) + 1 \notin CuesOf(k)
  BY <1>3, <1>4
<1>6. Counted(k)' = Counted(k) \cup (IF n >= 0 THEN {Len(events) + 1} ELSE {})
  BY <1>1, <1>3, <1>4 DEF Counted
<1>7. Len(events) + 1 \notin Counted(k)
  BY <1>5 DEF Counted
<1>8. Cardinality(CuesOf(k)') = Cardinality(CuesOf(k)) + 1
  BY <1>3, <1>5, CuesAreFinite, FS_AddElement
<1>9. Cardinality(Counted(k)') = Cardinality(Counted(k)) + (IF n >= 0 THEN 1 ELSE 0)
  <2>1. CASE n >= 0
    BY <1>6, <1>7, <2>1, CuesAreFinite, FS_AddElement
  <2>2. CASE ~(n >= 0)
    BY <1>6, <2>2, CuesAreFinite
  <2> QED
    BY <2>1, <2>2
<1> QED
  BY <1>1, <1>3, <1>4, <1>8, <1>9

\* The step of a live thread is of its own take, and counts or logs that one.
LEMMA ThreadActs ==
    ASSUME BaseInv, ThreadInv, NEW e \in TakeNumbers, CueThread(e)
    PROVE  /\ \/ CountCue(e) /\ UNCHANGED <<events, eventsOpen>>
                 /\ takes' = [takes EXCEPT ![e].cues = @ + 1,
                                           ![e].reps = IF Armed(e) THEN engines[e].index + 1 ELSE @]
              \/ CueEvent(e) /\ UNCHANGED takes
                 /\ events' = Append(events, Event("cue", e, engines[e].index))
              \/ ~CountCue(e) /\ ~CueEvent(e) /\ UNCHANGED <<takes, events>>
           /\ UNCHANGED <<pc, nextTake, take, slow>>
           /\ \A k \in TakeNumbers : k # e => engines'[k] = engines[k]
<1>1. TypeInv /\ CueInv /\ engines \in [TakeNumbers -> Thread]
  BY DEF BaseInv, TypeInv
<1>2. /\ Live(e) /\ engines' = [engines EXCEPT ![e] = engines'[e]]
      /\ UNCHANGED <<pc, nextTake, take, slow>>
  BY <1>1, ThreadMoves DEF loopVars, keyVars
<1>3. eventsOpen
  BY <1>2, LiveIsCurrent
<1>4. engines[e].pc \in {"count", "event"} => engines[e].held = e
  BY DEF ThreadInv
<1>5. ASSUME CountCue(e)
      PROVE  /\ UNCHANGED <<events, eventsOpen>>
             /\ takes' = [takes EXCEPT ![e].cues = @ + 1,
                                       ![e].reps = IF Armed(e) THEN engines[e].index + 1 ELSE @]
  BY <1>4, <1>5 DEF CountCue, eventVars
<1>6. ASSUME CueEvent(e)
      PROVE  UNCHANGED takes /\ events' = Append(events, Event("cue", e, engines[e].index))
  BY <1>3, <1>4, <1>6 DEF CueEvent, Log
<1>7. ASSUME ~CountCue(e), ~CueEvent(e)
      PROVE  UNCHANGED <<takes, events>>
  BY <1>7 DEF CueThread, CueStopped, EmitCue, ReadTake, NextCue, eventVars
<1>8. \A k \in TakeNumbers : k # e => engines'[k] = engines[k]
  BY <1>1, <1>2
<1> QED
  BY <1>2, <1>5, <1>6, <1>7, <1>8

\* The counters of a take change only where a cue is counted.
LEMMA CountersKept ==
    ASSUME TypeInv, CallInv, TakeInv, [Next]_vars, ~ \E e \in TakeNumbers : CueThread(e)
    PROVE  \A k \in TakeNumbers : takes'[k].cues = takes[k].cues /\ takes'[k].reps = takes[k].reps
<1> DEFINE Same(t, u) == u.cues = t.cues /\ u.reps = t.reps
<1>1. takes \in [TakeNumbers -> Take] /\ \A k \in TakeNumbers : takes[k] \in Take
  BY DEF TypeInv
<1>2. CASE UNCHANGED takes
  BY <1>2
<1>3. CASE OpenTake
  <2>1. nextTake \in TakeNumbers /\ nextTake >= nextTake
    BY <1>3, Numbers DEF OpenTake
  <2>2. takes[nextTake] = UnusedTake
    BY <2>1 DEF TakeInv
  <2>3. Same(UnusedTake, WithMeta([UnusedTake EXCEPT !.kind = kind, !.status = "recording"]))
    BY DEF WithMeta, UnusedTake
  <2> QED
    BY <1>1, <1>3, <2>1, <2>2, <2>3 DEF OpenTake
<1>4. CASE DisarmTake
  BY <1>1, <1>4 DEF DisarmTake, Take
<1>5. CASE EndMeta \/ MarkLastTake
  <2>1. \A t \in Take : Same(t, WithMeta(t)) /\ Same(t, WithMeta([t EXCEPT !.bad = TRUE]))
    BY DEF WithMeta, Take
  <2>2. ASSUME NEW k \in TakeNumbers
        PROVE  takes'[k] = takes[k] \/ takes'[k] = WithMeta(takes[k])
               \/ takes'[k] = WithMeta([takes[k] EXCEPT !.bad = TRUE])
    BY <1>1, <1>5 DEF EndMeta, MarkLastTake
  <2> QED
    BY <1>1, <2>1, <2>2
<1>6. [Next]_vars => UNCHANGED takes \/ OpenTake \/ DisarmTake \/ EndMeta \/ MarkLastTake
                     \/ \E e \in TakeNumbers : CueThread(e)
  BY DEF Next, Press, Interrupt, Caller, ReadKey, EndFinished, Obey, StartTake, StopTake, ArmTake,
         ClearFinished, LaunchCue, StopCue, JoinCue, EndEvent, Close, Note, KeyboardInterrupt, Watch, takeVars, vars
<1> QED
  BY <1>2, <1>3, <1>4, <1>5, <1>6

\* What anyone but a cue thread appends to the log is no cue.
LEMMA CallersLog ==
    ASSUME TypeInv, CallInv, [Next]_vars, ~ \E e \in TakeNumbers : CueThread(e)
    PROVE  \/ UNCHANGED events
           \/ \E e \in Entry : /\ events' = Append(events, e) /\ e.what # "cue"
                               /\ e.what = "take_end" =>
                                      EndEvent /\ LastTake \in TakeNumbers /\ e.take = LastTake
                                      /\ e.n = takes[LastTake].reps
<1> DEFINE Goal == \E e \in Entry : /\ events' = Append(events, e) /\ e.what # "cue"
                                    /\ e.what = "take_end" =>
                                           EndEvent /\ LastTake \in TakeNumbers /\ e.take = LastTake
                                           /\ e.n = takes[LastTake].reps
<1>1. ASSUME NEW w \in {"take_start", "take_mark", "note", "session_end"}, NEW k \in {None} \cup TakeNumbers,
             events' = Append(events, Event(w, k, 0))
      PROVE  Goal
  <2>1. Event(w, k, 0) \in Entry /\ Event(w, k, 0).what = w
    BY EventIsEntry DEF Event
  <2> QED
    BY <1>1, <2>1
<1>2. ASSUME EndEvent, LastTake \in TakeNumbers,
             events' = Append(events, EndOf(LastTake))
      PROVE  Goal
  BY <1>2, EndOfEntry
<1>3. ~ \E e \in TakeNumbers : CueEvent(e)
  BY DEF CueThread
<1> HIDE DEF Goal
<1>4. UNCHANGED vars => UNCHANGED events
  BY DEF vars, eventVars
<1>5. nextTake \in TakeNumbers /\ events' = Append(events, Event("take_start", nextTake, 0)) => Goal
  BY <1>1
<1>6. LastTake \in TakeNumbers /\ events' = Append(events, Event("take_mark", LastTake, 0)) => Goal
  BY <1>1
<1>7. /\ events' = Append(events, Event("note", None, 0)) => Goal
      /\ events' = Append(events, Event("session_end", None, 0)) => Goal
  BY <1>1
<1>8. Next => UNCHANGED events \/ Goal
  BY <1>2, <1>3, <1>5, <1>6, <1>7, LogGrows
<1>9. UNCHANGED events \/ Goal
  BY <1>4, <1>8
<1> QED
  BY <1>9 DEF Goal

LEMMA CallersCues ==
    ASSUME TypeInv, CallInv, [Next]_vars, ~ \E e \in TakeNumbers : CueThread(e)
    PROVE  \A k \in TakeNumbers : CuesOf(k)' = CuesOf(k) /\ Counted(k)' = Counted(k)
BY CallersLog, SameCues

LEMMA CountStep ==
    ASSUME ~slow, BaseInv, ThreadInv, CountInv, TypeInv', CallInv', [Next]_vars
    PROVE  CountInv'
<1> SUFFICES ASSUME NEW k \in TakeNumbers PROVE CountOf(k)'
  BY DEF CountInv
<1>0. TypeInv /\ CallInv /\ TakeInv /\ CueInv
  BY DEF BaseInv
<1>1. CountOf(k) /\ Cardinality(CuesOf(k)) \in Nat /\ CountIn \in Nat
  BY <1>0, CuesAreFinite, Numbers DEF CountInv
<1>2. engines[k] \in Thread /\ engines \in [TakeNumbers -> Thread] /\ takes \in [TakeNumbers -> Take]
      /\ takes[k] \in Take
  BY <1>0 DEF TypeInv
<1>3. CASE LaunchCue
  <2>1. /\ \A j \in TakeNumbers : CuesOf(j)' = CuesOf(j) /\ Counted(j)' = Counted(j)
        /\ UNCHANGED takes
    <3>1. UNCHANGED events
      BY <1>3 DEF LaunchCue, eventVars
    <3> QED
      BY <1>0, <1>3, <3>1, SameCues DEF LaunchCue
  <2>2. take = LastTake /\ engines[take] = NoEngine /\ take \in TakeNumbers
    BY <1>0, <1>3, OpenIsStarted DEF LaunchCue, CallInv, TakeInv
  <2>3. engines'[k] = engines[k] \/ (k = take /\ engines'[k] = NewEngine)
    BY <1>2, <1>3, <2>2 DEF LaunchCue
  <2>4. NewEngine.pc = "wait" /\ NewEngine.index = -CountIn /\ NoEngine.pc = "off"
    BY DEF NewEngine, NoEngine
  <2>5. CASE engines'[k] = engines[k]
    BY <1>1, <2>1, <2>5 DEF CountOf
  <2>6. CASE k = take /\ engines'[k] = NewEngine
    <3>1. Cardinality(CuesOf(k)) = 0 /\ -CountIn = 0 - CountIn
      BY <1>1, <2>2, <2>4, <2>6 DEF CountOf
    <3> QED
      BY <1>1, <2>1, <2>2, <2>4, <2>6, <3>1 DEF CountOf
  <2> QED
    BY <2>3, <2>5, <2>6
<1>4. CASE ~LaunchCue /\ ~ \E e \in TakeNumbers : CueThread(e)
  <2>1. CuesOf(k)' = CuesOf(k) /\ Counted(k)' = Counted(k)
    BY <1>0, <1>4, CallersCues
  <2>2. takes'[k].cues = takes[k].cues /\ takes'[k].reps = takes[k].reps
    BY <1>0, <1>4, CountersKept
  <2>3. engines'[k].pc = engines[k].pc /\ engines'[k].index = engines[k].index
    BY <1>0, <1>4, EnginesKept
  <2> QED
    BY <1>1, <2>1, <2>2, <2>3 DEF CountOf
<1>5. ASSUME NEW e \in TakeNumbers, CueThread(e) PROVE CountOf(k)'
  <2> DEFINE i == engines[e].index
  <2>1. i \in Int /\ engines \in [TakeNumbers -> Thread]
    BY <1>0, Numbers DEF TypeInv, Thread
  <2>2. CASE CountCue(e)
    <3>1. /\ UNCHANGED events
          /\ takes' = [takes EXCEPT ![e].cues = @ + 1, ![e].reps = IF Armed(e) THEN i + 1 ELSE @]
          /\ \A j \in TakeNumbers : j # e => engines'[j] = engines[j]
      BY <1>5, <2>2, ThreadGoes, ThreadActs, <1>0 DEF CueThread
    <3>2. CuesOf(k)' = CuesOf(k) /\ Counted(k)' = Counted(k)
      BY <1>0, <3>1, SameCues
    <3>3. CASE k # e
      BY <1>1, <1>2, <3>1, <3>2, <3>3 DEF CountOf
    <3>4. CASE k = e
      <4>1. /\ engines[e].pc = "count" /\ engines'[e].pc = "event" /\ engines'[e].index = i
        BY <1>0, <2>2, ThreadGoes
      <4>2. /\ takes'[e].cues = takes[e].cues + 1
            /\ takes'[e].reps = IF i >= 0 THEN i + 1 ELSE takes[e].reps
        BY <1>2, <3>1, <3>4 DEF Take, Armed
      <4>3. /\ takes[e].cues = Cardinality(CuesOf(e)) /\ i = Cardinality(CuesOf(e)) - CountIn
            /\ takes[e].reps = AtLeast0(takes[e].cues - CountIn)
            /\ Cardinality(Counted(e)) = AtLeast0(Cardinality(CuesOf(e)) - CountIn)
        BY <1>1, <3>4, <4>1 DEF CountOf
      <4> HIDE DEF i
      <4>4. takes'[e].reps = AtLeast0(takes'[e].cues - CountIn)
        BY <1>1, <3>4, <4>2, <4>3 DEF AtLeast0
      <4> QED
        BY <1>1, <3>2, <3>4, <4>1, <4>2, <4>3, <4>4 DEF CountOf
    <3> QED
      BY <3>3, <3>4
  <2>3. CASE CueEvent(e)
    <3>1. /\ UNCHANGED takes /\ events' = Append(events, Event("cue", e, i))
          /\ \A j \in TakeNumbers : j # e => engines'[j] = engines[j]
      <4>1. ~CountCue(e)
        BY <2>3 DEF CueEvent, CountCue
      <4> QED
        BY <1>5, <2>3, <4>1, ThreadActs
    <3>2. CASE k # e
      <4>1. CuesOf(k)' = CuesOf(k) /\ Counted(k)' = Counted(k)
        <5>1. Event("cue", e, i) \in Entry /\ Event("cue", e, i).take = e
          BY <2>1, EventIsEntry DEF Event
        <5> QED
          BY <1>0, <3>1, <3>2, <5>1, SameCues
      <4> QED
        BY <1>1, <3>1, <3>2, <4>1 DEF CountOf
    <3>3. CASE k = e
      <4>1. engines[e].pc = "event" /\ engines'[e].pc = "next" /\ engines'[e].index = i
        <5>1. Live(e)
          BY <1>0, <1>5, ThreadMoves
        <5> QED
          BY <1>0, <2>3, <5>1, LiveIsCurrent, ThreadGoes
      <4>2. /\ Cardinality(CuesOf(e)') = Cardinality(CuesOf(e)) + 1
            /\ Cardinality(Counted(e)') = Cardinality(Counted(e)) + (IF i >= 0 THEN 1 ELSE 0)
        BY <1>0, <2>1, <3>1, OneMoreCue
      <4>3. /\ takes[e].cues = Cardinality(CuesOf(e)) + 1 /\ i = Cardinality(CuesOf(e)) - CountIn
            /\ Cardinality(Counted(e)) = AtLeast0(Cardinality(CuesOf(e)) - CountIn)
            /\ takes[e].reps = AtLeast0(takes[e].cues - CountIn)
        BY <1>1, <3>3, <4>1 DEF CountOf
      <4> HIDE DEF i
      <4>4. Cardinality(Counted(e)') = AtLeast0(Cardinality(CuesOf(e)') - CountIn)
        BY <1>1, <3>3, <4>2, <4>3 DEF AtLeast0
      <4> QED
        BY <1>1, <3>1, <3>3, <4>1, <4>2, <4>3, <4>4 DEF CountOf
    <3> QED
      BY <3>2, <3>3
  <2>4. CASE ~CountCue(e) /\ ~CueEvent(e)
    <3>1. /\ UNCHANGED <<takes, events>> /\ \A j \in TakeNumbers : j # e => engines'[j] = engines[j]
      BY <1>5, <2>4, ThreadActs
    <3>2. CuesOf(k)' = CuesOf(k) /\ Counted(k)' = Counted(k)
      BY <1>0, <3>1, SameCues
    <3>3. \/ engines[e].pc = "next" /\ engines'[e].pc \in {"done", "wait"} /\ engines'[e].index = i + 1
          \/ engines[e].pc = "wait" /\ engines'[e].pc \in {"done", "on_cue"} /\ engines'[e].index = i
          \/ engines[e].pc = "on_cue" /\ engines'[e].pc = "count" /\ engines'[e].index = i
      <4>1. Live(e)
        BY <1>0, <1>5, ThreadMoves
      <4>2. recording
        BY <4>1, LiveIsCurrent DEF recording
      <4> QED
        BY <1>0, <1>5, <2>4, <4>2, ThreadGoes DEF CueThread
    <3> QED
      BY <1>1, <2>1, <3>1, <3>2, <3>3 DEF CountOf
  <2> QED
    BY <2>2, <2>3, <2>4
<1> QED
  BY <1>3, <1>4, <1>5

\* A cue in order stays so under one more entry that is no cue of its take.
LEMMA StaysInOrder ==
    ASSUME TypeInv, NEW k \in TakeNumbers, NEW i \in CuesOf(k), InOrder(k, i),
           \/ UNCHANGED events
           \/ \E e \in Entry : events' = Append(events, e)
    PROVE  InOrder(k, i)'
<1>1. CASE UNCHANGED events
  BY <1>1 DEF InOrder, EventsOf, CuesOf
<1>2. ASSUME NEW e \in Entry, events' = Append(events, e)
      PROVE  InOrder(k, i)'
  <2>1. /\ EventsOf(k)' = EventsOf(k) \cup (IF e.take = k THEN {Len(events) + 1} ELSE {})
        /\ CuesOf(k)' = CuesOf(k) \cup (IF e.take = k /\ e.what = "cue" THEN {Len(events) + 1} ELSE {})
        /\ CuesOf(k) \subseteq EventsOf(k)
        /\ \A s \in EventsOf(k) : events'[s] = events[s] /\ s \in Nat /\ s < Len(events) + 1
    BY <1>2, LogAdds
  <2>2. i < Len(events) + 1 /\ events'[i] = events[i] /\ i \in Nat /\ Len(events) \in Nat
    BY <1>2, <2>1, Logged
  <2>3. \E s \in EventsOf(k)' : s < i /\ events'[s].what = "take_start"
    BY <2>1 DEF InOrder
  <2>4. \A s \in EventsOf(k)' : events'[s].what \in {"take_end", "take_abort"} => i < s
    BY <2>1, <2>2 DEF InOrder
  <2>5. {j \in CuesOf(k)' : j < i} = {j \in CuesOf(k) : j < i}
    BY <2>1, <2>2
  <2> QED
    BY <2>2, <2>3, <2>4, <2>5 DEF InOrder
<1> QED
  BY <1>1, <1>2

LEMMA OrderStep ==
    ASSUME ~slow, BaseInv, ThreadInv, CountInv, OrderInv, TypeInv', CallInv', [Next]_vars
    PROVE  OrderInv'
<1> SUFFICES ASSUME NEW k \in TakeNumbers, NEW i \in CuesOf(k)' PROVE InOrder(k, i)'
  BY DEF OrderInv
<1>0. TypeInv /\ CallInv /\ TakeInv /\ CueInv /\ LogInv
  BY DEF BaseInv
<1>1. CASE ~ \E e \in TakeNumbers : CueThread(e)
  <2>1. CuesOf(k)' = CuesOf(k)
    BY <1>0, <1>1, CallersCues
  <2>2. UNCHANGED events \/ \E e \in Entry : events' = Append(events, e)
    BY <1>0, <1>1, CallersLog
  <2> QED
    BY <1>0, <2>1, <2>2, StaysInOrder DEF OrderInv
<1>2. ASSUME NEW e \in TakeNumbers, CueThread(e) PROVE InOrder(k, i)'
  <2> DEFINE n == engines[e].index
  <2>1. n \in Int
    BY <1>0, Numbers DEF TypeInv, Thread
  <2>2. CASE UNCHANGED events
    <3>1. CuesOf(k)' = CuesOf(k)
      BY <2>2 DEF CuesOf, EventsOf
    <3> QED
      BY <1>0, <2>2, <3>1, StaysInOrder DEF OrderInv
  <2>3. CASE CueEvent(e) /\ events' = Append(events, Event("cue", e, n))
    <3>1. /\ Event("cue", e, n) \in Entry /\ Event("cue", e, n).take = e /\ Event("cue", e, n).what = "cue"
      BY <2>1, EventIsEntry DEF Event
    <3>2. CASE i \in CuesOf(k)
      BY <1>0, <2>3, <3>1, <3>2, StaysInOrder DEF OrderInv
    <3>3. CASE i \notin CuesOf(k)
      <4>1. k = e /\ i = Len(events) + 1
        <5>1. CuesOf(k)' = CuesOf(k) \cup (IF Event("cue", e, n).take = k /\ Event("cue", e, n).what = "cue"
                                           THEN {Len(events) + 1} ELSE {})
          BY <1>0, <2>3, <3>1, LogAdds
        <5> QED
          BY <3>1, <3>3, <5>1
      <4>2. /\ CuesOf(k)' = CuesOf(k) \cup {Len(events) + 1} /\ events'[Len(events) + 1].n = n
        BY <1>0, <2>1, <2>3, <4>1, OneMoreCue
      <4>3. /\ EventsOf(k)' = EventsOf(k) \cup {Len(events) + 1} /\ CuesOf(k) \subseteq EventsOf(k)
            /\ \A s \in EventsOf(k) : events'[s] = events[s] /\ s \in Nat /\ s < Len(events) + 1
            /\ events'[Len(events) + 1] = Event("cue", e, n) /\ Len(events) \in Nat
        <5>1. /\ EventsOf(k)' = EventsOf(k) \cup (IF Event("cue", e, n).take = k THEN {Len(events) + 1} ELSE {})
              /\ CuesOf(k) \subseteq EventsOf(k)
              /\ \A s \in EventsOf(k) : events'[s] = events[s] /\ s \in Nat /\ s < Len(events) + 1
          BY <1>0, <2>3, <3>1, LogAdds
        <5>2. events'[Len(events) + 1] = Event("cue", e, n) /\ Len(events) \in Nat
          BY <1>0, <2>3, <3>1, Logged
        <5> QED
          BY <3>1, <4>1, <5>1, <5>2
      <4>4. takes[k].status = "recording" /\ k < nextTake
        <5>1. Live(e)
          BY <1>0, <1>2, ThreadMoves
        <5> QED
          BY <4>1, <5>1, LiveIsCurrent
      <4>5. \A s \in EventsOf(k) : events[s].what \notin {"take_end", "take_abort"}
        BY <1>0, <4>4 DEF LogInv, EventsOf
      <4>6. \E s \in EventsOf(k)' : s < i /\ events'[s].what = "take_start"
        BY <1>0, <4>1, <4>3, <4>4 DEF LogInv
      <4>7. \A s \in EventsOf(k)' : events'[s].what \in {"take_end", "take_abort"} => i < s
        BY <3>1, <4>3, <4>5
      <4>8. {j \in CuesOf(k)' : j < i} = CuesOf(k)
        BY <4>1, <4>2, <4>3
      <4>9. n = Cardinality(CuesOf(k)) - CountIn
        <5>1. CountOf(k) /\ Cardinality(CuesOf(k)) \in Nat /\ CountIn \in Nat
          BY <1>0, CuesAreFinite, Numbers DEF CountInv
        <5> QED
          BY <2>3, <4>1, <5>1 DEF CueEvent, CountOf
      <4> QED
        BY <4>1, <4>2, <4>6, <4>7, <4>8, <4>9 DEF InOrder
    <3> QED
      BY <3>2, <3>3
  <2> QED
    BY <1>2, <2>2, <2>3, ThreadActs
<1> QED
  BY <1>1, <1>2

LEMMA EndStep ==
    ASSUME ~slow, BaseInv, ThreadInv, EndInv, TypeInv', CallInv', [Next]_vars
    PROVE  EndInv'
<1>0. TypeInv /\ CallInv /\ TakeInv /\ CueInv /\ LogInv
  BY DEF BaseInv
<1> DEFINE Ended(s)  == s \in {"complete", "aborted"}
           Busy(k)   == k = LastTake /\ pc \in {"end_event", "end_meta"}
           Meets(k)  == Ended(takes[k].status) /\ ~Busy(k) => takes[k].meta = MetaOf(takes[k])
           Counts(i) == events[i].what = "take_end" => events[i].n = takes[events[i].take].reps
<1>1. takes \in [TakeNumbers -> Take] /\ \A k \in TakeNumbers : takes[k] \in Take
  BY <1>0 DEF TypeInv
<1>2. EndInv <=> (\A k \in TakeNumbers : Meets(k)) /\ (\A i \in DOMAIN events : Counts(i))
  BY DEF EndInv
<1>3. EndInv' <=> (\A k \in TakeNumbers : Meets(k)') /\ (\A i \in DOMAIN events' : Counts(i)')
  BY DEF EndInv
<1>4. ASSUME NEW k \in TakeNumbers PROVE Meets(k)'
  <2>1. CASE takes'[k] = takes[k] /\ (Busy(k) => Busy(k)')
    BY <1>2, <2>1 DEF MetaOf
  <2>2. CASE OpenTake
    <3>1. pc = "start_take" /\ takes' = [takes EXCEPT ![nextTake] =
                     WithMeta([UnusedTake EXCEPT !.kind = kind, !.status = "recording"])]
      BY <2>2 DEF OpenTake
    <3>2. WithMeta([UnusedTake EXCEPT !.kind = kind, !.status = "recording"]).status = "recording"
      BY DEF WithMeta, UnusedTake
    <3>3. takes'[k] = takes[k] \/ takes'[k].status = "recording"
      BY <1>1, <3>1, <3>2
    <3> QED
      BY <2>1, <3>1, <3>3
  <2>3. CASE DisarmTake
    <3>1. pc = "disarm" /\ pc' = "end_event" /\ takes' = [takes EXCEPT ![take].status = status]
          /\ take = LastTake /\ LastTake' = LastTake
      BY <1>0, <2>3 DEF DisarmTake, Goto, CallInv, LastTake
    <3>2. k # take => takes'[k] = takes[k]
      BY <1>1, <3>1
    <3> QED
      BY <2>1, <3>1, <3>2
  <2>4. CASE EndMeta \/ MarkLastTake
    <3>1. \A t \in Take : WithMeta(t).meta = MetaOf(WithMeta(t))
      BY DEF WithMeta, MetaOf, Take
    <3>2. \A t \in Take : [t EXCEPT !.bad = TRUE] \in Take
      BY DEF Take
    <3>3. \/ takes'[k] = WithMeta(takes[k])
          \/ takes'[k] = WithMeta([takes[k] EXCEPT !.bad = TRUE])
          \/ takes'[k] = takes[k] /\ ~Busy(k)
      <4>1. CASE EndMeta
        <5>1. pc = "end_meta" /\ takes' = [takes EXCEPT ![LastTake] = WithMeta(@)]
          BY <4>1 DEF EndMeta
        <5> QED
          BY <1>1, <5>1
      <4>2. CASE MarkLastTake
        <5>1. pc = "mark_last_take"
          BY <4>2 DEF MarkLastTake
        <5> QED
          BY <1>1, <4>2, <5>1 DEF MarkLastTake
      <4> QED
        BY <2>4, <4>1, <4>2
    <3>4. CASE takes'[k] = takes[k] /\ ~Busy(k)
      BY <2>1, <3>4
    <3>5. CASE \E t \in Take : takes'[k] = WithMeta(t)
      <4>1. takes'[k].meta = MetaOf(takes'[k])
        BY <3>1, <3>5
      <4> QED
        BY <4>1 DEF MetaOf
    <3> QED
      BY <1>1, <3>2, <3>3, <3>4, <3>5
  <2>5. ASSUME NEW e \in TakeNumbers, CueThread(e) PROVE Meets(k)'
    <3>1. Live(e) /\ UNCHANGED <<pc, nextTake>>
      BY <1>0, <2>5, ThreadMoves DEF loopVars
    <3>2. (Busy(k) => Busy(k)') /\ takes[e].status = "recording" /\ e < nextTake
      BY <3>1, LiveIsCurrent DEF LastTake
    <3>3. CASE takes'[k] = takes[k]
      BY <2>1, <3>2, <3>3
    <3>4. CASE k = e
      <4>1. CASE CountCue(e)
        <5>1. takes' = [takes EXCEPT ![e].cues = @ + 1, ![e].reps = IF Armed(e) THEN engines[e].index + 1 ELSE @]
          BY <2>5, <4>1, ThreadActs, ThreadGoes, <1>0
        <5>2. takes'[e].status = takes[e].status
          BY <1>1, <5>1 DEF Take
        <5> QED
          BY <3>2, <3>4, <5>2
      <4>2. CASE ~CountCue(e)
        BY <2>5, <3>3, <3>4, <4>2, ThreadActs
      <4> QED
        BY <4>1, <4>2
    <3>5. k # e => takes'[k] = takes[k]
      BY <1>1, <2>5, ThreadActs
    <3> QED
      BY <3>3, <3>4, <3>5
  <2>6. CASE ~OpenTake /\ ~DisarmTake /\ ~EndMeta /\ ~MarkLastTake /\ ~ \E e \in TakeNumbers : CueThread(e)
    <3>1. UNCHANGED <<takes, nextTake>> /\ (pc \in {"end_event", "end_meta"} => pc' \in {"end_event", "end_meta"})
      BY <2>6 DEF Next, Press, Interrupt, Caller, ReadKey, EndFinished, Obey, StartTake, StopTake, ArmTake,
             ClearFinished, LaunchCue, StopCue, JoinCue, EndEvent, Close, Note, KeyboardInterrupt, Watch, takeVars,
             loopVars, vars, Goto
    <3> QED
      BY <2>1, <3>1 DEF LastTake
  <2> QED
    BY <2>2, <2>3, <2>4, <2>5, <2>6
<1>5. ASSUME NEW i \in DOMAIN events PROVE Counts(i) /\ (events'[i] = events[i] => Counts(i)')
  <2>1. CASE events[i].what # "take_end"
    BY <2>1
  <2>2. CASE events[i].what = "take_end"
    <3>1. events[i].take \in TakeNumbers /\ takes[events[i].take].status \in {"complete", "aborted"}
      <4>1. events[i] \in Entry
        BY <1>0 DEF TypeInv
      <4> QED
        BY <1>0, <2>2, <4>1 DEF LogInv, Entry
    <3>2. takes'[events[i].take].reps = takes[events[i].take].reps
      <4>1. ASSUME NEW e \in TakeNumbers, CueThread(e) PROVE takes'[events[i].take] = takes[events[i].take]
        <5>1. Live(e)
          BY <1>0, <4>1, ThreadMoves
        <5>2. takes[e].status = "recording"
          BY <5>1, LiveIsCurrent
        <5> QED
          BY <1>1, <3>1, <4>1, <5>2, ThreadActs
      <4>2. CASE ~ \E e \in TakeNumbers : CueThread(e)
        BY <1>0, <3>1, <4>2, CountersKept
      <4> QED
        BY <4>1, <4>2
    <3> QED
      BY <1>2, <2>2, <3>2
  <2> QED
    BY <2>1, <2>2
<1>6. ASSUME NEW i \in DOMAIN events' PROVE Counts(i)'
  <2>1. CASE UNCHANGED events
    BY <1>5, <2>1
  <2>2. ASSUME NEW e \in Entry, events' = Append(events, e),
               e.what = "take_end" => EndEvent /\ LastTake \in TakeNumbers /\ e.take = LastTake
                                      /\ e.n = takes[LastTake].reps
        PROVE  Counts(i)'
    <3>1. /\ DOMAIN events' = DOMAIN events \cup {Len(events) + 1}
          /\ \A j \in DOMAIN events : events'[j] = events[j]
          /\ events'[Len(events) + 1] = e
      BY <1>0, <2>2, Logged
    <3>2. EndEvent => takes' = takes
      BY DEF EndEvent, takeVars
    <3> QED
      BY <1>5, <2>2, <3>1, <3>2
  <2>3. ASSUME NEW e \in TakeNumbers, CueThread(e) PROVE Counts(i)'
    <3>1. UNCHANGED events \/ events' = Append(events, Event("cue", e, engines[e].index))
      BY <2>3, ThreadActs
    <3>2. engines[e].index \in Int
      BY <1>0, Numbers DEF TypeInv, Thread
    <3>3. Event("cue", e, engines[e].index) \in Entry /\ Event("cue", e, engines[e].index).what = "cue"
      BY <3>2, EventIsEntry DEF Event
    <3> QED
      BY <2>1, <2>2, <3>1, <3>3
  <2>4. CASE ~ \E e \in TakeNumbers : CueThread(e)
    BY <1>0, <2>1, <2>2, <2>4, CallersLog
  <2> QED
    BY <2>3, <2>4
<1> QED
  BY <1>3, <1>4, <1>6

-----------------------------------------------------------------------------
(* The theorems *)

LEMMA InvInit == Init => Inv
<1> SUFFICES ASSUME Init PROVE Inv
  OBVIOUS
<1>1. TypeInv
  BY TypeInit
<1>2. /\ takes = [k \in TakeNumbers |-> UnusedTake] /\ engines = [k \in TakeNumbers |-> NoEngine]
      /\ events = <<Event("session_start", None, 0)>> /\ take = None /\ cue = None /\ nextTake = 1
      /\ pc \in {"key", "start_take"} /\ (pc = "key" => todo = <<>>) /\ (pc = "start_take" => todo = <<"watch">>)
      /\ ~finished /\ eventsOpen
  BY DEF Init
<1>3. /\ DOMAIN events = {1} /\ events[1].take = 0 /\ events[1].what = "session_start"
  BY <1>2 DEF Event, None
<1>4. CallInv
  BY <1>2 DEF CallInv, Alone, Starting, Ending, LastTake, None
<1>5. TakeInv
  BY <1>2, Numbers DEF TakeInv
<1>6. CueInv
  BY <1>2 DEF CueInv, Live, NoEngine
<1>7. LogInv
  BY <1>2, <1>3, Numbers DEF LogInv
<1>8. \A k \in TakeNumbers : EventsOf(k) = {} /\ CuesOf(k) = {} /\ Counted(k) = {}
  BY <1>3, Numbers DEF EventsOf, CuesOf, Counted
<1>9. CountInv
  <2> SUFFICES ASSUME NEW k \in TakeNumbers PROVE CountOf(k)
    BY DEF CountInv
  <2>1. takes[k].cues = 0 /\ takes[k].reps = 0 /\ engines[k].pc = "off"
    BY <1>2 DEF UnusedTake, NoEngine
  <2>2. Cardinality(CuesOf(k)) = 0 /\ Cardinality(Counted(k)) = 0
    BY <1>8, FS_EmptySet
  <2>3. CountIn \in Nat
    BY Numbers
  <2> QED
    BY <2>1, <2>2, <2>3 DEF CountOf, AtLeast0
<1>10. ThreadInv
  BY <1>2 DEF ThreadInv, Live, NoEngine
<1>11. OrderInv
  BY <1>8 DEF OrderInv
<1>12. EndInv
  BY <1>2, <1>3 DEF EndInv, UnusedTake
<1> QED
  BY <1>1, <1>4, <1>5, <1>6, <1>7, <1>9, <1>10, <1>11, <1>12 DEF Inv, BaseInv, QuickInv

LEMMA InvStep == Inv /\ [Next]_vars => Inv'
<1> SUFFICES ASSUME Inv, [Next]_vars PROVE Inv'
  OBVIOUS
<1>1. BaseInv /\ TypeInv /\ CallInv /\ TakeInv /\ CueInv /\ LogInv
  BY DEF Inv, BaseInv
<1>2. TypeInv'
  BY <1>1, TypeStep
<1>3. CallInv'
  BY <1>1, CallStep
<1>4. TakeInv' /\ CueInv' /\ LogInv'
  BY <1>1, <1>2, <1>3, TakeStep, CueStep, LogStep
<1>5. slow' = slow
  BY ThreadMoves, <1>1 DEF Next, Press, Interrupt, Caller, ReadKey, EndFinished, Obey, StartTake, StopTake, OpenTake,
     ArmTake, ClearFinished, LaunchCue, StopCue, JoinCue, DisarmTake, EndEvent, EndMeta, MarkLastTake, Close, Note,
     KeyboardInterrupt, Watch, keyVars, vars
<1>6. ASSUME ~slow PROVE QuickInv'
  <2>1. CountInv /\ ThreadInv /\ OrderInv /\ EndInv
    BY <1>6 DEF Inv, QuickInv
  <2>2. ThreadInv'
    BY <1>1, <1>2, <1>3, <1>6, <2>1, ThreadStep
  <2>3. CountInv'
    BY <1>1, <1>2, <1>3, <1>6, <2>1, CountStep
  <2>4. OrderInv'
    BY <1>1, <1>2, <1>3, <1>6, <2>1, OrderStep
  <2>5. EndInv'
    BY <1>1, <1>2, <1>3, <1>6, <2>1, EndStep
  <2> QED
    BY <2>2, <2>3, <2>4, <2>5 DEF QuickInv
<1> QED
  BY <1>2, <1>3, <1>4, <1>5, <1>6 DEF Inv, BaseInv

\* The inductive invariant holds throughout.
LEMMA Invariant == Spec => []Inv
<1> QED
  BY InvInit, InvStep, PTL DEF Spec

\* The state of a session keeps its types, slow cue threads included: a cue
\* index never passes the number of reps (cue.py:111), and a take number is
\* always one the session gave out (session.py:158).
THEOREM TypeCorrect == Spec => []TypeOK
<1>1. Inv => TypeOK
  <2> SUFFICES ASSUME TypeInv PROVE TypeOK
    BY DEF Inv, BaseInv
  <2>1. ASSUME NEW k \in TakeNumbers
        PROVE  /\ takes[k].kind \in {"none", "cued", "ambient"}
               /\ takes[k].meta \in Meta /\ MetaOf(takes[k]) \in Meta
               /\ engines[k].index \in -CountIn..Reps
               /\ engines[k].held \in {None} \cup TakeNumbers
    BY DEF TypeInv, Take, Thread, MetaOf, Meta
  <2> QED
    BY <2>1 DEF TypeOK, TypeInv
<1> QED
  BY <1>1, Invariant, PTL

\* No cue thread outlives its take: while stop_take's join waits long enough,
\* a thread that is alive is that of the open cued take (recorder.py:198-205).
THEOREM NoStrays == Spec => []NoStrayCueThread
<1>1. Inv => NoStrayCueThread
  <2> SUFFICES ASSUME Inv, ~slow, NEW e \in TakeNumbers, Live(e)
               PROVE  e = cue /\ take = cue /\ takes[e].kind = "cued"
    BY DEF NoStrayCueThread, Live
  <2> QED
    BY LiveIsCurrent DEF Inv, QuickInv
<1> QED
  BY <1>1, Invariant, PTL

\* `_take_finished` found by the loop is about the take that is open: all its
\* cues, count-in and reps, were given and written (recorder.py:192, 224).
THEOREM FinishedIsWhole == Spec => []FinishedMeansWhole
<1>1. Inv => FinishedMeansWhole
  <2> SUFFICES ASSUME Inv, ~slow, recording, finished, pc # "clear"
               PROVE  /\ takes[take].kind = "cued"
                      /\ takes[take].reps = Reps /\ takes[take].cues = CountIn + Reps
                      /\ Cardinality(CuesOf(take)) = CountIn + Reps
    BY DEF FinishedMeansWhole
  <2>1. TypeInv /\ CountInv /\ ThreadInv /\ take \in TakeNumbers
    BY DEF Inv, BaseInv, QuickInv, TypeInv, recording
  <2>2. engines[take].pc = "done" /\ engines[take].index = Reps /\ takes[take].kind = "cued"
    BY <2>1 DEF ThreadInv, recording
  <2>3. CountOf(take) /\ Cardinality(CuesOf(take)) \in Nat
    BY <2>1, CuesAreFinite DEF CountInv
  <2> QED
    BY <2>2, <2>3, Numbers DEF CountOf, AtLeast0
<1> QED
  BY <1>1, Invariant, PTL

\* The cue events of a take are one schedule, inside the take: each comes after
\* its take_start and before its end (or abort) and carries the next index, from the
\* count-in on (cue.py:92-123, recorder.py:245-258).
THEOREM OneSchedule == Spec => []CuesAreOneSchedule
<1>1. Inv => CuesAreOneSchedule
  BY DEF Inv, QuickInv, OrderInv, InOrder, CuesAreOneSchedule
<1> QED
  BY <1>1, Invariant, PTL

\* What end_take persisted of a take, its take_end event and the cue events of
\* the log give the same counts, whenever and however the take ended
\* (session.py:175-185, 197-215).
THEOREM EndedTakesAgree == Spec => []EndedTakeCountsCues
<1>1. Inv => EndedTakeCountsCues
  <2> SUFFICES ASSUME Inv, ~slow, NEW k \in TakeNumbers, takes[k].status \in {"complete", "aborted"},
                      ~(k = LastTake /\ pc \in {"end_event", "end_meta"})
               PROVE  /\ takes[k].meta = MetaOf(takes[k])
                      /\ takes[k].meta.cues = Cardinality(CuesOf(k))
                      /\ takes[k].meta.reps = Cardinality({i \in CuesOf(k) : events[i].n >= 0})
                      /\ \A i \in EventsOf(k) : events[i].what = "take_end" => events[i].n = takes[k].reps
    BY DEF EndedTakeCountsCues
  <2>1. TypeInv /\ BaseInv /\ CountInv /\ ThreadInv /\ EndInv
    BY DEF Inv, BaseInv, QuickInv
  <2>2. takes[k].meta = MetaOf(takes[k])
    BY <2>1 DEF EndInv
  <2>3. engines[k].pc # "event"
    BY <2>1, LiveIsCurrent DEF Live
  <2>4. /\ takes[k].cues = Cardinality(CuesOf(k)) /\ takes[k].reps = Cardinality(Counted(k))
    <3>1. CountOf(k) /\ Cardinality(CuesOf(k)) \in Nat
      BY <2>1, CuesAreFinite DEF CountInv
    <3> QED
      BY <2>3, <3>1 DEF CountOf
  <2>5. \A i \in EventsOf(k) : events[i].what = "take_end" => events[i].n = takes[k].reps
    BY <2>1 DEF EndInv, EventsOf
  <2> QED
    BY <2>2, <2>4, <2>5 DEF MetaOf, Counted
<1> QED
  BY <1>1, Invariant, PTL
=============================================================================
