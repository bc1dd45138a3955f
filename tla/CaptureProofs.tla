---------------------------- MODULE CaptureProofs ----------------------------
(***************************************************************************)
(* Proofs about Corpus and WebCapture, for any recordings, of the command  *)
(* line or of the server, any splits and any number of takes and marks.    *)
(***************************************************************************)
EXTENDS WebCapture, SequenceTheorems, TLAPS

\* Where a recording is: before its directory exists, before its first take, in a take.
Early  == {"idle", "probe", "name", "mkdir"}
Making == {"meta", "begin", "start"}
Taking == {"take_meta", "take_event", "take", "take_mark", "close_file", "end_event", "end_meta"}
Owning == Making \cup Taking \cup {"ready", "late_mark", "close"}
Points == Early \cup Owning \cup {"closed", "refused", "failed", "dead"}

Kinds == {"session_start", "take_start", "take_mark", "take_end", "take_abort", "session_end"}
Event == [kind : Kinds, take : 0..MaxTakes]

EndLogged(n, t) == \E i \in DOMAIN events[n] : events[n][i] = [kind |-> "take_end", take |-> t]

IsComplete(n, t) == takeMeta[n][t] # None /\ takeMeta[n][t].status = "complete"

-----------------------------------------------------------------------------
(* The invariant *)

TypeInv ==
    /\ kind \in [Recordings -> {"cli", "web"}]
    /\ plan \in [Recordings -> [split : Splits, schema : BOOLEAN]]
    /\ pc \in [Recordings -> Points]
    /\ name \in [Recordings -> Names \cup {None}]
    /\ take \in [Recordings -> 0..MaxTakes]
    /\ ending \in [Recordings -> [status : {"recording", "complete", "aborted"}, last : BOOLEAN]]
    /\ marks \in 0..MaxMarks
    /\ meta \in [Names -> Splits \cup {None}] /\ dirs \subseteq Names
    /\ events \in [Names -> Seq(Event)]
    /\ files \in [Names -> [Takes -> {"absent", "open", "closed"}]]
    /\ takeMeta \in [Names -> [Takes -> Meta \cup {None}]]
    /\ list \subseteq Names /\ rest \subseteq Names \X Takes
    /\ view \subseteq [name : Names, take : Takes, meta : Meta]

\* A directory that a recording still works in is its own.
OwnInv ==
    /\ \A r \in Recordings :
          /\ pc[r] = "mkdir" => name[r] \in Names
          /\ pc[r] \in Early \cup Making => take[r] = 0
          /\ pc[r] \in Taking \cup {"late_mark"} => take[r] > 0
          /\ pc[r] \in Owning => name[r] \in dirs
          /\ pc[r] \in Owning \ {"meta"} => meta[name[r]] # None
    /\ \A r, p \in Recordings :
          r # p /\ pc[r] \in Owning /\ pc[p] \in Owning => name[r] # name[p]

\* Metadata implies the file, and a complete take its end, whoever wrote them.
DiskInv ==
    /\ \A n \in Names : meta[n] # None => n \in dirs
    /\ \A n \in Names, t \in Takes :
          /\ files[n][t] # "absent" => meta[n] # None
          /\ takeMeta[n][t] # None => files[n][t] # "absent"
          /\ IsComplete(n, t) => files[n][t] = "closed" /\ EndLogged(n, t)

\* What is on disk of the take a recording works on, and of its takes to come.
OnDisk(r) ==
    /\ \A t \in Takes : t > take[r] => files[name[r]][t] = "absent"
    /\ pc[r] \in Taking => files[name[r]][take[r]] # "absent"
    /\ pc[r] \in Taking => ~ IsComplete(name[r], take[r])
    /\ pc[r] \in {"end_event", "end_meta"} => files[name[r]][take[r]] = "closed"
    /\ pc[r] \in {"close_file", "end_event", "end_meta"} =>
          ending[r].status = IF ending[r].last THEN "aborted" ELSE "complete"
    /\ pc[r] = "end_meta" /\ ~ ending[r].last => EndLogged(name[r], take[r])
    /\ pc[r] \in {"ready", "late_mark"} /\ take[r] > 0 =>
          /\ ending[r].status = "complete" /\ files[name[r]][take[r]] = "closed"
          /\ EndLogged(name[r], take[r])

TakeInv == \A r \in Recordings : pc[r] \in Owning => OnDisk(r)

\* What a reader has read, and what it has still to read, stays true.
ReadInv ==
    /\ reader # "failed"
    /\ \A p \in rest : takeMeta[p[1]][p[2]] # None
    /\ \A v \in view : MetaUsable(v.meta) => IsComplete(v.name, v.take)

Inv == TypeInv /\ OwnInv /\ DiskInv /\ TakeInv /\ ReadInv

-----------------------------------------------------------------------------
(* Facts used everywhere *)

LEMMA Events ==
    /\ 0 \in 0..MaxTakes
    /\ \A k \in Kinds, t \in 0..MaxTakes : [kind |-> k, take |-> t] \in Event
  <1>1. MaxTakes \in Nat
    BY CorpusAssumption
  <1>2. 0 \in 0..MaxTakes
    BY <1>1
  <1> QED BY <1>2 DEF Event

LEMMA LogStays ==
    ASSUME TypeInv, NEW n \in Names, NEW e \in Event, Log(n, e)
    PROVE  /\ events' \in [Names -> Seq(Event)]
           /\ \A m \in Names, t \in Takes : EndLogged(m, t) => EndLogged(m, t)'
           /\ \A t \in Takes : e = [kind |-> "take_end", take |-> t] => EndLogged(n, t)'
  <1> DEFINE old == events[n]
  <1>1. old \in Seq(Event)
    BY DEF TypeInv
  <1>2. /\ Append(old, e) \in Seq(Event)
        /\ Len(Append(old, e)) = Len(old) + 1 /\ Len(old) \in Nat
        /\ \A i \in 1..Len(old) : Append(old, e)[i] = old[i]
        /\ Append(old, e)[Len(old) + 1] = e
        /\ DOMAIN old = 1..Len(old)
        /\ DOMAIN Append(old, e) = 1..(Len(old) + 1)
    <2> HIDE DEF old
    <2> QED BY <1>1, AppendProperties
  <1>3. events' = [events EXCEPT ![n] = Append(old, e)]
    BY DEF Log
  <1> HIDE DEF old
  <1>4. events' \in [Names -> Seq(Event)]
    BY <1>2, <1>3 DEF TypeInv
  <1>5. events'[n] = Append(old, e) /\ \A m \in Names : m # n => events'[m] = events[m]
    BY <1>3 DEF TypeInv
  <1>6. ASSUME NEW m \in Names, NEW t \in Takes, EndLogged(m, t) PROVE EndLogged(m, t)'
    <2>1. CASE m # n
      BY <1>5, <1>6, <2>1 DEF EndLogged
    <2>2. CASE m = n
      <3>1. PICK i \in DOMAIN old : old[i] = [kind |-> "take_end", take |-> t]
        BY <1>6, <2>2 DEF EndLogged, old
      <3>2. i \in DOMAIN Append(old, e) /\ Append(old, e)[i] = old[i]
        BY <1>2
      <3> QED BY <1>5, <2>2, <3>1, <3>2 DEF EndLogged
    <2> QED BY <2>1, <2>2
  <1>7. ASSUME NEW t \in Takes, e = [kind |-> "take_end", take |-> t] PROVE EndLogged(n, t)'
    <2>1. Len(old) + 1 \in DOMAIN events'[n] /\ events'[n][Len(old) + 1] = e
      BY <1>2, <1>5
    <2> QED BY <1>7, <2>1 DEF EndLogged
  <1> QED BY <1>4, <1>6, <1>7


\* What stays of the invariant when nothing on disk changes.
LEMMA DiskStays ==
    ASSUME Inv, UNCHANGED diskVars
    PROVE  /\ DiskInv'
           /\ UNCHANGED readerVars => ReadInv'
  <1>1. \A n, t : IsComplete(n, t)' = IsComplete(n, t) /\ EndLogged(n, t)' = EndLogged(n, t)
    BY DEF diskVars, IsComplete, EndLogged
  <1> QED BY <1>1 DEF Inv, DiskInv, ReadInv, diskVars, readerVars, MetaUsable

\* A step of a recording that only moves on, or fails: it keeps what is its own.
LEMMA MovesOn ==
    ASSUME Inv, NEW r \in Recordings, NEW at \in Points, Goto(r, at), UNCHANGED diskVars,
           UNCHANGED <<name, take, ending, marks>>, Rest(r),
           \/ at \notin Owning /\ (at = "mkdir" => name[r] \in Names)
                               /\ (at \in Early => take[r] = 0)
           \/ pc[r] = "begin" /\ at = "start"
           \/ pc[r] = "start" /\ at = "ready"
           \/ pc[r] = "ready" /\ at = "close"
    PROVE  Inv'
  <1>1. TypeInv'
    BY DEF Inv, TypeInv, Goto, Rest, processVars, readerVars, diskVars
  <1>2. pc'[r] = at /\ \A p \in Recordings : p # r => pc'[p] = pc[p]
    BY DEF Inv, TypeInv, Goto
  <1>3. OwnInv'
    BY <1>2 DEF Inv, OwnInv, Rest, diskVars, Early, Making, Taking, Owning
  <1>4. \A n, t : IsComplete(n, t)' = IsComplete(n, t) /\ EndLogged(n, t)' = EndLogged(n, t)
    BY DEF diskVars, IsComplete, EndLogged
  <1>5. pc[r] \in Making => take[r] = 0
    BY DEF Inv, OwnInv
  <1>6. TakeInv'
    BY <1>2, <1>4, <1>5 DEF Inv, TakeInv, OnDisk, diskVars, Early, Making, Taking, Owning
  <1> QED BY <1>1, <1>3, <1>6, DiskStays DEF Inv, Rest

-----------------------------------------------------------------------------
(* A session is made *)

LEMMA CheckSplitHolds ==
    ASSUME Inv, NEW r \in Recordings, CheckSplit(r) PROVE Inv'
  <1>1. PICK at \in {"probe", "refused"} : Goto(r, at)
    BY DEF CheckSplit
  <1>2. take[r] = 0
    BY DEF Inv, OwnInv, CheckSplit, Early
  <1> QED BY <1>1, <1>2, MovesOn DEF CheckSplit, Points, Early, Owning, Making, Taking

LEMMA ResolveHolds ==
    ASSUME Inv, NEW r \in Recordings, Resolve(r) PROVE Inv'
  <1>1. PICK at \in {"name", "refused"} : Goto(r, at)
    BY DEF Resolve
  <1>2. take[r] = 0
    BY DEF Inv, OwnInv, Resolve, Early
  <1> QED BY <1>1, <1>2, MovesOn DEF Resolve, Points, Early, Owning, Making, Taking

LEMMA PickNameHolds ==
    ASSUME Inv, NEW r \in Recordings, PickName(r) PROVE Inv'
  <1>1. PICK n \in Names : name' = [name EXCEPT ![r] = n]
    BY DEF PickName
  <1>2. TypeInv'
    BY <1>1 DEF Inv, TypeInv, PickName, Goto, Rest, processVars, readerVars, diskVars, Points, Early
  <1>3. /\ pc[r] = "name" /\ pc'[r] = "mkdir" /\ name'[r] = n
        /\ \A p \in Recordings : p # r => pc'[p] = pc[p] /\ name'[p] = name[p]
    BY <1>1 DEF Inv, TypeInv, PickName, Goto
  <1>4. OwnInv'
    BY <1>3 DEF Inv, OwnInv, PickName, diskVars, Early, Making, Taking, Owning
  <1>5. \A m, t : IsComplete(m, t)' = IsComplete(m, t) /\ EndLogged(m, t)' = EndLogged(m, t)
    BY DEF PickName, diskVars, IsComplete, EndLogged
  <1>6. TakeInv'
    BY <1>3, <1>5 DEF Inv, TakeInv, OnDisk, PickName, diskVars, Making, Taking, Owning
  <1> QED BY <1>2, <1>4, <1>6, DiskStays DEF Inv, PickName, Rest

\* A new directory is nobody else's, and nothing is in it yet.
LEMMA MakeDirectoryHolds ==
    ASSUME Inv, NEW r \in Recordings, MakeDirectory(r) PROVE Inv'
  <1>1. CASE name[r] \in dirs
    BY <1>1, MovesOn DEF MakeDirectory, diskVars, Points, Early, Owning, Making, Taking
  <1>2. CASE name[r] \notin dirs
    <2>1. name[r] \in Names /\ take[r] = 0
      BY DEF Inv, OwnInv, MakeDirectory, Early
    <2>2. TypeInv'
      BY <1>2, <2>1 DEF Inv, TypeInv, MakeDirectory, Goto, Rest, processVars, readerVars,
                        Points, Owning, Making
    <2>3. /\ pc[r] = "mkdir" /\ pc'[r] = "meta" /\ dirs' = dirs \cup {name[r]}
          /\ \A p \in Recordings : p # r => pc'[p] = pc[p]
      BY <1>2 DEF Inv, TypeInv, MakeDirectory, Goto
    <2>4. OwnInv'
      BY <1>2, <2>1, <2>3 DEF Inv, OwnInv, MakeDirectory, Early, Making, Taking, Owning
    <2>5. \A m, t : IsComplete(m, t)' = IsComplete(m, t) /\ EndLogged(m, t)' = EndLogged(m, t)
      BY DEF MakeDirectory, IsComplete, EndLogged
    <2>6. DiskInv' /\ ReadInv'
      BY <2>3, <2>5 DEF Inv, DiskInv, ReadInv, MakeDirectory, Rest, readerVars, MetaUsable
    <2>7. \A t \in Takes : files[name[r]][t] = "absent"
      BY <1>2, <2>1 DEF Inv, DiskInv
    <2>8. TakeInv'
      BY <2>3, <2>5, <2>7 DEF Inv, TakeInv, OnDisk, MakeDirectory, Making, Taking, Owning
    <2> QED BY <2>2, <2>4, <2>6, <2>8 DEF Inv
  <1> QED BY <1>1, <1>2

LEMMA WriteMetaHolds ==
    ASSUME Inv, NEW r \in Recordings, WriteMeta(r) PROVE Inv'
  <1>1. /\ name[r] \in dirs /\ name[r] \in Names /\ take[r] = 0
    BY DEF Inv, OwnInv, TypeInv, WriteMeta, Owning, Making
  <1>2. plan[r].split \in Splits /\ plan[r].split # None
    BY CorpusAssumption DEF Inv, TypeInv
  <1>3. TypeInv'
    BY <1>1, <1>2 DEF Inv, TypeInv, WriteMeta, Goto, Rest, processVars, readerVars, Points, Owning, Making
  <1>4. /\ pc[r] = "meta" /\ pc'[r] = "begin"
        /\ \A p \in Recordings : p # r => pc'[p] = pc[p]
        /\ meta'[name[r]] # None /\ \A n \in Names : n # name[r] => meta'[n] = meta[n]
    BY <1>1, <1>2 DEF Inv, TypeInv, WriteMeta, Goto
  <1>5. OwnInv'
    <2>1. \A n \in Names : meta[n] # None => meta'[n] # None
      BY <1>4
    <2>2. \A p \in Recordings : pc'[p] \in Owning => name'[p] \in dirs'
      BY <1>1, <1>4 DEF Inv, OwnInv, WriteMeta, Making, Owning
    <2>3. \A p \in Recordings : pc'[p] \in Owning \ {"meta"} => meta'[name'[p]] # None
      BY <1>1, <1>4, <2>1 DEF Inv, OwnInv, TypeInv, WriteMeta
    <2> QED BY <1>1, <1>4, <2>2, <2>3 DEF Inv, OwnInv, WriteMeta, Early, Making, Taking, Owning
  <1>6. \A m, t : IsComplete(m, t)' = IsComplete(m, t) /\ EndLogged(m, t)' = EndLogged(m, t)
    BY DEF WriteMeta, IsComplete, EndLogged
  <1>7. DiskInv' /\ ReadInv'
    BY <1>1, <1>4, <1>6 DEF Inv, DiskInv, ReadInv, WriteMeta, Rest, readerVars, MetaUsable
  <1>8. TakeInv'
    BY <1>4, <1>6, <1>1 DEF Inv, TakeInv, OnDisk, WriteMeta, Making, Taking, Owning
  <1> QED BY <1>3, <1>5, <1>7, <1>8 DEF Inv

\* Nothing but the events and a point changes.
LEMMA Logs ==
    ASSUME Inv, NEW r \in Recordings, NEW e \in Event, name[r] \in Names, Log(name[r], e),
           UNCHANGED <<meta, dirs, files, takeMeta>>
    PROVE  /\ DiskInv'
           /\ UNCHANGED readerVars => ReadInv'
           /\ \A m \in Names, t \in Takes : EndLogged(m, t) => EndLogged(m, t)'
           /\ \A m, t : IsComplete(m, t)' = IsComplete(m, t)
           /\ events' \in [Names -> Seq(Event)]
  <1>1. \A m, t : IsComplete(m, t)' = IsComplete(m, t)
    BY DEF IsComplete
  <1>2. /\ \A m \in Names, t \in Takes : EndLogged(m, t) => EndLogged(m, t)'
        /\ events' \in [Names -> Seq(Event)]
    BY LogStays DEF Inv
  <1>3. DiskInv'
    BY <1>1, <1>2 DEF Inv, DiskInv
  <1>4. UNCHANGED readerVars => ReadInv'
    BY <1>1 DEF Inv, ReadInv, readerVars, MetaUsable
  <1> QED BY <1>1, <1>2, <1>3, <1>4

\* The takes of the other recordings are not touched by what happens in r's directory.
LEMMA OthersStay ==
    ASSUME Inv, NEW r \in Recordings, pc[r] \in Owning,
           \A p \in Recordings \ {r} : pc'[p] = pc[p] /\ name'[p] = name[p]
                                       /\ take'[p] = take[p] /\ ending'[p] = ending[p],
           \A n \in Names \ {name[r]} : files'[n] = files[n] /\ takeMeta'[n] = takeMeta[n],
           \A n \in Names, t \in Takes : EndLogged(n, t) => EndLogged(n, t)'
    PROVE  \A p \in Recordings \ {r} : pc'[p] \in Owning => OnDisk(p)'
  <1> SUFFICES ASSUME NEW p \in Recordings \ {r}, pc[p] \in Owning
               PROVE  OnDisk(p)'
    OBVIOUS
  <1>1. name[p] \in Names \ {name[r]} /\ OnDisk(p)
    BY DEF Inv, OwnInv, TypeInv, TakeInv
  <1>2. take[p] > 0 => take[p] \in Takes
    BY CorpusAssumption DEF Inv, TypeInv, Takes
  <1>3. pc[p] \in Taking => take[p] > 0
    BY DEF Inv, OwnInv
  <1>4. \A t \in Takes : IsComplete(name[p], t)' = IsComplete(name[p], t)
    BY <1>1 DEF IsComplete
  <1>5. pc'[p] = pc[p] /\ name'[p] = name[p] /\ take'[p] = take[p] /\ ending'[p] = ending[p]
    OBVIOUS
  <1>6. \A t \in Takes : EndLogged(name[p], t) => EndLogged(name[p], t)'
    BY <1>1
  <1>7. /\ \A t \in Takes : t > take'[p] => files'[name'[p]][t] = "absent"
        /\ pc'[p] \in Taking => files'[name'[p]][take'[p]] # "absent"
        /\ pc'[p] \in {"end_event", "end_meta"} => files'[name'[p]][take'[p]] = "closed"
        /\ pc'[p] \in {"close_file", "end_event", "end_meta"} =>
              ending'[p].status = IF ending'[p].last THEN "aborted" ELSE "complete"
    BY <1>1, <1>5 DEF OnDisk
  <1>8. pc'[p] \in Taking => ~ IsComplete(name[p], take[p])'
    BY <1>1, <1>2, <1>3, <1>4, <1>5 DEF OnDisk, IsComplete
  <1>9. pc'[p] = "end_meta" /\ ~ ending'[p].last => EndLogged(name[p], take[p])'
    BY <1>1, <1>2, <1>3, <1>5, <1>6 DEF OnDisk, Taking, EndLogged
  <1>10. pc'[p] \in {"ready", "late_mark"} /\ take'[p] > 0 =>
            /\ ending'[p].status = "complete" /\ files'[name'[p]][take'[p]] = "closed"
            /\ EndLogged(name[p], take[p])'
    BY <1>1, <1>2, <1>5, <1>6 DEF OnDisk, EndLogged
  <1> QED BY <1>7, <1>8, <1>9, <1>10 DEF OnDisk

LEMMA BeginSessionHolds ==
    ASSUME Inv, NEW r \in Recordings, BeginSession(r) PROVE Inv'
  <1>1. name[r] \in Names /\ take[r] = 0
    BY DEF Inv, OwnInv, TypeInv, BeginSession, Owning, Making
  <1>2. [kind |-> "session_start", take |-> 0] \in Event
    BY Events DEF Kinds
  <1>3. /\ DiskInv' /\ ReadInv' /\ events' \in [Names -> Seq(Event)]
        /\ \A m \in Names, t \in Takes : EndLogged(m, t) => EndLogged(m, t)'
        /\ \A m, t : IsComplete(m, t)' = IsComplete(m, t)
    <2> DEFINE e == [kind |-> "session_start", take |-> 0]
    <2>1. Log(name[r], e) /\ e \in Event
      BY <1>2 DEF BeginSession
    <2>2. UNCHANGED <<meta, dirs, files, takeMeta>> /\ UNCHANGED readerVars
      BY DEF BeginSession, Rest
    <2> HIDE DEF e
    <2> QED BY <1>1, <2>1, <2>2, Logs
  <1>4. TypeInv'
    BY <1>3 DEF Inv, TypeInv, BeginSession, Goto, Rest, processVars, readerVars, Points, Owning, Making
  <1>5. pc[r] = "begin" /\ pc'[r] = "start" /\ \A p \in Recordings : p # r => pc'[p] = pc[p]
    BY DEF Inv, TypeInv, BeginSession, Goto
  <1>6. OwnInv'
    BY <1>5 DEF Inv, OwnInv, BeginSession, Early, Making, Taking, Owning
  <1>7. TakeInv'
    <2>1. \A p \in Recordings \ {r} : pc'[p] \in Owning => OnDisk(p)'
      BY <1>3, <1>5, OthersStay DEF BeginSession, Owning, Making
    <2>2. OnDisk(r)'
      BY <1>1, <1>5 DEF Inv, TakeInv, OnDisk, BeginSession, Making, Taking, Owning
    <2> QED BY <2>1, <2>2 DEF TakeInv
  <1> QED BY <1>3, <1>4, <1>6, <1>7 DEF Inv

LEMMA StartRecorderHolds ==
    ASSUME Inv, NEW r \in Recordings, StartRecorder(r) PROVE Inv'
  <1>1. PICK at \in {"ready", "failed"} : Goto(r, at)
    BY DEF StartRecorder
  <1>2. pc[r] = "start"
    BY DEF StartRecorder
  <1> QED BY <1>1, <1>2, MovesOn DEF StartRecorder, Points, Early, Owning, Making, Taking

-----------------------------------------------------------------------------
(* A take is recorded *)

LEMMA Owned ==
    ASSUME Inv, NEW r \in Recordings, pc[r] \in Owning
    PROVE  /\ name[r] \in Names /\ name[r] \in dirs /\ OnDisk(r)
           /\ take[r] \in 0..MaxTakes
           /\ take[r] > 0 => take[r] \in Takes
           /\ pc[r] \in Taking => take[r] \in Takes
           /\ pc[r] # "meta" => meta[name[r]] # None
           /\ \A p \in Recordings \ {r} : pc[p] \in Owning => name[p] # name[r]
  <1>1. take[r] > 0 => take[r] \in Takes
    BY CorpusAssumption DEF Inv, TypeInv, Takes
  <1> QED BY <1>1 DEF Inv, TypeInv, OwnInv, TakeInv

\* A step inside a recording's own directory keeps the invariants of ownership.
LEMMA OwnStays ==
    ASSUME Inv, NEW r \in Recordings, NEW at \in Points, pc[r] \in Owning \ {"meta"},
           at \in Owning \ Making \/ at = "closed" \/ at = "start",
           Goto(r, at) \/ (at = pc[r] /\ UNCHANGED pc),
           UNCHANGED <<name, meta, dirs>>,
           \A p \in Recordings \ {r} : take'[p] = take[p],
           at = "start" => take'[r] = 0,
           at \in Taking \cup {"late_mark"} => take'[r] > 0
    PROVE  OwnInv'
  <1>1. pc'[r] = at /\ \A p \in Recordings \ {r} : pc'[p] = pc[p]
    BY DEF Inv, TypeInv, Goto
  <1> QED BY <1>1 DEF Inv, OwnInv, Early, Making, Taking, Owning

LEMMA OpenTakeHolds ==
    ASSUME Inv, NEW r \in Recordings, OpenTake(r) PROVE Inv'
  <1>1. pc[r] = "ready" /\ pc[r] \in Owning /\ pc[r] # "meta"
    BY DEF OpenTake, Owning
  <1>2. /\ name[r] \in Names /\ OnDisk(r) /\ meta[name[r]] # None
        /\ MaxTakes \in Nat /\ take[r] \in 0..MaxTakes
    BY <1>1, Owned, CorpusAssumption
  <1>3. take[r] < MaxTakes
    BY DEF OpenTake, MayOpen
  <1>4. take[r] + 1 \in Takes /\ take[r] + 1 \in 0..MaxTakes /\ take[r] + 1 > take[r] /\ take[r] + 1 > 0
    BY <1>2, <1>3 DEF Takes
  <1>5. PICK n \in Names, u \in Takes : n = name[r] /\ u = take[r] + 1
    BY <1>2, <1>4
  <1>6. files[n][u] = "absent" /\ ~ IsComplete(n, u) /\ \A t \in Takes : t > u => files[n][t] = "absent"
    <2>1. \A t \in Takes : t > take[r] => files[n][t] = "absent"
      BY <1>2, <1>5 DEF OnDisk
    <2>2. u > take[r] /\ \A t \in Takes : t > u => t > take[r]
      BY <1>2, <1>4, <1>5 DEF Takes
    <2> QED BY <2>1, <2>2 DEF Inv, DiskInv, IsComplete
  <1>7. /\ take' = [take EXCEPT ![r] = u] /\ files' = [files EXCEPT ![n][u] = "open"]
        /\ pc' = [pc EXCEPT ![r] = "take_meta"] /\ name' = name
        /\ UNCHANGED <<kind, plan, ending, marks, meta, dirs, events, takeMeta, reader, list, rest, view>>
    BY <1>5 DEF OpenTake, Goto, Rest, processVars, readerVars
  <1>8. u \in 0..MaxTakes
    BY <1>4, <1>5
  <1>9. TypeInv'
    <2>1. pc' \in [Recordings -> Points]
      BY <1>7 DEF Inv, TypeInv, Points, Owning, Taking
    <2>2. take' \in [Recordings -> 0..MaxTakes]
      BY <1>7, <1>8 DEF Inv, TypeInv
    <2>3. files' \in [Names -> [Takes -> {"absent", "open", "closed"}]]
      BY <1>7 DEF Inv, TypeInv
    <2> QED BY <1>7, <2>1, <2>2, <2>3 DEF Inv, TypeInv
  <1>10. pc'[r] = "take_meta" /\ take'[r] = u /\ \A p \in Recordings \ {r} : pc'[p] = pc[p] /\ take'[p] = take[p]
    BY <1>7 DEF Inv, TypeInv
  <1>11. OwnInv'
    BY <1>1, <1>4, <1>5, <1>7, <1>10, OwnStays DEF Goto, Owning, Points, Making, Taking
  <1>12. /\ \A m, t : IsComplete(m, t)' = IsComplete(m, t)
         /\ \A m, t : EndLogged(m, t)' = EndLogged(m, t)
    BY <1>7 DEF IsComplete, EndLogged
  <1>13. /\ files'[n][u] = "open"
         /\ \A m \in Names, t \in Takes : m # n \/ t # u => files'[m][t] = files[m][t]
         /\ \A m \in Names \ {n} : files'[m] = files[m]
    BY <1>7 DEF Inv, TypeInv
  <1>14. DiskInv'
    BY <1>2, <1>5, <1>6, <1>7, <1>12, <1>13 DEF Inv, DiskInv
  <1>15. ReadInv'
    BY <1>7, <1>12 DEF Inv, ReadInv, MetaUsable
  <1>16. \A p \in Recordings \ {r} : pc'[p] \in Owning => OnDisk(p)'
    BY <1>1, <1>5, <1>7, <1>10, <1>12, <1>13, OthersStay
  <1>17. OnDisk(r)'
    <2>1. /\ name'[r] = n /\ take'[r] = u /\ pc'[r] = "take_meta"
          /\ \A t \in Takes : t > u => files'[n][t] = "absent"
      BY <1>4, <1>5, <1>6, <1>7, <1>10, <1>13 DEF Takes
    <2>2. ~ IsComplete(n, u)'
      BY <1>6, <1>12
    <2>3. ~ IsComplete(name[r], take[r])'
      BY <2>1, <2>2 DEF IsComplete
    <2> QED BY <1>13, <2>1, <2>3 DEF OnDisk
  <1> QED BY <1>9, <1>11, <1>14, <1>15, <1>16, <1>17 DEF Inv, TakeInv

\* What writing a take's metadata keeps: it may not undo its completeness.
LEMMA MetaWritten ==
    ASSUME Inv, NEW n \in Names, NEW u \in Takes, NEW new \in Meta,
           takeMeta' = [takeMeta EXCEPT ![n][u] = new],
           files[n][u] # "absent",
           IsComplete(n, u) => new.status = "complete",
           new.status = "complete" => files[n][u] = "closed" /\ EndLogged(n, u),
           \A m \in Names, t \in Takes : EndLogged(m, t) => EndLogged(m, t)',
           UNCHANGED <<meta, dirs, files, readerVars>>
    PROVE  /\ takeMeta' \in [Names -> [Takes -> Meta \cup {None}]]
           /\ \A m \in Names \ {n} : takeMeta'[m] = takeMeta[m]
           /\ IsComplete(n, u)' <=> new.status = "complete"
           /\ DiskInv' /\ ReadInv'
  <1>2. new # None
    BY CorpusAssumption
  <1>5. takeMeta' \in [Names -> [Takes -> Meta \cup {None}]]
    BY DEF Inv, TypeInv
  <1>6. /\ takeMeta'[n][u] = new
        /\ \A m \in Names \ {n} : takeMeta'[m] = takeMeta[m]
        /\ \A m \in Names, t \in Takes : m # n \/ t # u => takeMeta'[m][t] = takeMeta[m][t]
    BY DEF Inv, TypeInv
  <1>7. IsComplete(n, u)' <=> new.status = "complete"
    BY <1>2, <1>6 DEF IsComplete
  <1>8. /\ \A m \in Names, t \in Takes : IsComplete(m, t)' => IsComplete(m, t) \/ (m = n /\ t = u)
        /\ \A m \in Names, t \in Takes : IsComplete(m, t) => IsComplete(m, t)'
    <2>1. \A m \in Names, t \in Takes : m # n \/ t # u => (IsComplete(m, t)' <=> IsComplete(m, t))
      BY <1>6 DEF IsComplete
    <2>2. \A m \in Names, t \in Takes : m = n /\ t = u /\ IsComplete(m, t) => IsComplete(m, t)'
      BY <1>7 DEF IsComplete
    <2>3. ASSUME NEW m \in Names, NEW t \in Takes, IsComplete(m, t) PROVE IsComplete(m, t)'
      <3>1. CASE m = n /\ t = u
        BY <2>2, <2>3, <3>1
      <3>2. CASE m # n \/ t # u
        BY <2>1, <2>3, <3>2
      <3> QED BY <3>1, <3>2
    <2>4. ASSUME NEW m \in Names, NEW t \in Takes, IsComplete(m, t)', ~ (m = n /\ t = u)
          PROVE  IsComplete(m, t)
      BY <2>1, <2>4
    <2> QED BY <2>3, <2>4
  <1>9. \A m \in Names, t \in Takes : takeMeta[m][t] # None => takeMeta'[m][t] # None
    BY <1>2, <1>6
  <1>10. DiskInv'
    <2>1. \A m \in Names, t \in Takes : takeMeta'[m][t] # None => files[m][t] # "absent"
      BY <1>6 DEF Inv, DiskInv
    <2>2. \A m \in Names, t \in Takes : IsComplete(m, t)' => files[m][t] = "closed" /\ EndLogged(m, t)
      BY <1>7, <1>8 DEF Inv, DiskInv
    <2> QED BY <2>1, <2>2 DEF Inv, DiskInv
  <1>11. ReadInv'
    <2>1. \A p \in rest : takeMeta'[p[1]][p[2]] # None
      BY <1>9 DEF Inv, TypeInv, ReadInv
    <2>2. \A v \in view : v.name \in Names /\ v.take \in Takes
      BY DEF Inv, TypeInv
    <2>3. \A v \in view : MetaUsable(v.meta) => IsComplete(v.name, v.take)'
      BY <1>8, <2>2 DEF Inv, ReadInv
    <2> QED BY <2>1, <2>3 DEF Inv, ReadInv, readerVars, MetaUsable
  <1> QED BY <1>5, <1>6, <1>7, <1>10, <1>11


\* FirstTakeMeta, EndMeta and MarkMeta write metadata; this is what they have in common.
LEMMA TakeMetaHolds ==
    ASSUME Inv, NEW r \in Recordings, NEW status \in {"recording", "complete", "aborted"},
           NEW mark \in {None, "bad"}, NEW at \in Taking \cup {"ready", "close"},
           pc[r] \in Taking \cup {"late_mark"}, take[r] > 0,
           pc' = [pc EXCEPT ![r] = at],
           WriteTakeMeta(r, status, mark),
           events' \in [Names -> Seq(Event)],
           \A n \in Names, t \in Takes : EndLogged(n, t) => EndLogged(n, t)',
           marks' \in 0..MaxMarks,
           UNCHANGED <<name, take, ending, meta, dirs, files>>, Rest(r),
           IsComplete(name[r], take[r]) => status = "complete",
           status = "complete" => /\ at \in {"ready", "close"}
                                  /\ files[name[r]][take[r]] = "closed"
                                  /\ EndLogged(name[r], take[r]),
           at = "ready" => status = "complete" /\ ending[r].status = "complete",
           at \in {"end_event", "end_meta", "close_file"} => at = pc[r]
    PROVE  Inv'
  <1>1. PICK n \in Names, u \in Takes : n = name[r] /\ u = take[r]
    BY Owned DEF Owning
  <1>2. OnDisk(r) /\ pc[r] \in Owning /\ pc[r] # "meta" /\ take[r] \in 0..MaxTakes
    BY Owned DEF Owning, Taking
  <1>3. PICK new \in Meta : new = [status |-> status, mark |-> mark] /\ new.status = status
    <2>1. [status |-> status, mark |-> mark] \in Meta
      BY DEF Meta
    <2> QED BY <2>1
  <1>4. takeMeta' = [takeMeta EXCEPT ![n][u] = new]
    BY <1>1, <1>3 DEF WriteTakeMeta
  <1>5. files[n][u] # "absent"
    BY <1>1, <1>2 DEF OnDisk
  <1>6. /\ takeMeta' \in [Names -> [Takes -> Meta \cup {None}]]
        /\ \A m \in Names \ {n} : takeMeta'[m] = takeMeta[m]
        /\ IsComplete(n, u)' <=> status = "complete"
        /\ DiskInv' /\ ReadInv'
    <2>1. IsComplete(n, u) => new.status = "complete"
      BY <1>1, <1>3 DEF IsComplete
    <2>2. new.status = "complete" => files[n][u] = "closed" /\ EndLogged(n, u)
      BY <1>1, <1>3 DEF EndLogged
    <2>3. UNCHANGED <<meta, dirs, files, readerVars>>
      BY DEF Rest
    <2>4. \A m \in Names, t \in Takes : EndLogged(m, t) => EndLogged(m, t)'
      OBVIOUS
    <2>5. /\ takeMeta' \in [Names -> [Takes -> Meta \cup {None}]]
          /\ \A m \in Names \ {n} : takeMeta'[m] = takeMeta[m]
          /\ IsComplete(n, u)' <=> new.status = "complete"
          /\ DiskInv' /\ ReadInv'
      BY <1>4, <1>5, <2>1, <2>2, <2>3, <2>4, MetaWritten
    <2> QED BY <1>3, <2>5
  <1>7. TypeInv'
    <2>1. pc' \in [Recordings -> Points]
      BY DEF Inv, TypeInv, Points, Owning
    <2> QED BY <1>6, <2>1 DEF Inv, TypeInv, Rest, processVars, readerVars
  <1>8. pc'[r] = at /\ \A p \in Recordings \ {r} : pc'[p] = pc[p]
    BY DEF Inv, TypeInv
  <1>9. OwnInv'
    BY <1>2, <1>8, OwnStays DEF Goto, Points, Owning, Making, Taking
  <1>10. \A p \in Recordings \ {r} : pc'[p] \in Owning => OnDisk(p)'
    BY <1>1, <1>2, <1>6, <1>8, OthersStay
  <1>11. OnDisk(r)'
    <2>1. /\ name'[r] = n /\ take'[r] = u /\ files' = files /\ ending' = ending
          /\ \A t \in Takes : t > u => files[n][t] = "absent"
      BY <1>1, <1>2 DEF OnDisk
    <2>2. at \in Taking => ~ IsComplete(name[r], take[r])'
      BY <1>1, <1>6, <2>1 DEF IsComplete, Taking
    <2>3. EndLogged(name[r], take[r]) => EndLogged(name[r], take[r])'
      <3>1. EndLogged(n, u) => EndLogged(n, u)'
        OBVIOUS
      <3> QED BY <1>1, <2>1, <3>1 DEF EndLogged
    <2>4. at \in {"end_event", "end_meta", "close_file"} => OnDisk(r)'
      BY <1>1, <1>2, <1>5, <1>8, <2>1, <2>2, <2>3 DEF OnDisk, Taking
    <2>5. at = "ready" => OnDisk(r)'
      BY <1>1, <1>8, <2>1, <2>3 DEF OnDisk, Taking
    <2>6. at \in {"take_meta", "take_event", "take", "take_mark", "close"} => OnDisk(r)'
      BY <1>1, <1>5, <1>8, <2>1, <2>2 DEF OnDisk, Taking
    <2> QED BY <2>4, <2>5, <2>6 DEF Taking
  <1> QED BY <1>6, <1>7, <1>9, <1>10, <1>11 DEF Inv, TakeInv

LEMMA FirstTakeMetaHolds ==
    ASSUME Inv, NEW r \in Recordings, FirstTakeMeta(r) PROVE Inv'
  <1>1. pc[r] = "take_meta" /\ pc[r] \in Taking /\ pc[r] \in Owning
    BY DEF FirstTakeMeta, Taking, Owning
  <1>2. take[r] > 0 /\ ~ IsComplete(name[r], take[r])
    BY <1>1, Owned DEF Inv, OwnInv, OnDisk
  <1>3. /\ WriteTakeMeta(r, "recording", None) /\ pc' = [pc EXCEPT ![r] = "take_event"]
        /\ UNCHANGED <<name, take, ending, meta, dirs, files>> /\ UNCHANGED <<marks, events>> /\ Rest(r)
    BY DEF FirstTakeMeta, Goto
  <1>4. \A n \in Names, t \in Takes : EndLogged(n, t) => EndLogged(n, t)'
    BY <1>3 DEF EndLogged
  <1>5. events' \in [Names -> Seq(Event)] /\ marks' \in 0..MaxMarks
    BY <1>3 DEF Inv, TypeInv
  <1>6. "take_event" \in Taking \cup {"ready", "close"}
    BY DEF Taking
  <1> QED BY <1>1, <1>2, <1>3, <1>4, <1>5, <1>6, TakeMetaHolds

LEMMA EndMetaHolds ==
    ASSUME Inv, NEW r \in Recordings, EndMeta(r) PROVE Inv'
  <1>1. pc[r] = "end_meta" /\ pc[r] \in Taking /\ pc[r] \in Owning
    BY DEF EndMeta, Taking, Owning
  <1>2. /\ take[r] > 0 /\ OnDisk(r) /\ name[r] \in Names /\ take[r] \in Takes
        /\ ending[r] \in [status : {"recording", "complete", "aborted"}, last : BOOLEAN]
    BY <1>1, Owned DEF Inv, OwnInv, TypeInv
  <1>3. PICK at \in {"ready", "close"} : at = IF ending[r].last THEN "close" ELSE "ready"
    OBVIOUS
  <1>4. PICK status \in {"recording", "complete", "aborted"} : status = ending[r].status
    BY <1>2
  <1>5. PICK mark \in {None, "bad"} : mark = MarkOnDisk(r)
    BY <1>2 DEF MarkOnDisk, Inv, TypeInv, Meta
  <1>6. /\ WriteTakeMeta(r, status, mark) /\ pc' = [pc EXCEPT ![r] = at]
        /\ UNCHANGED <<name, take, ending, meta, dirs, files>> /\ UNCHANGED <<marks, events>> /\ Rest(r)
    BY <1>3, <1>4, <1>5 DEF EndMeta, Goto
  <1>7. \A n \in Names, t \in Takes : EndLogged(n, t) => EndLogged(n, t)'
    BY <1>6 DEF EndLogged
  <1>8. events' \in [Names -> Seq(Event)] /\ marks' \in 0..MaxMarks
    BY <1>6 DEF Inv, TypeInv
  <1>9. /\ ~ IsComplete(name[r], take[r]) /\ files[name[r]][take[r]] = "closed"
        /\ status = "complete" => EndLogged(name[r], take[r])
        /\ at = "ready" => status = "complete" /\ ending[r].status = "complete"
    BY <1>1, <1>2, <1>3, <1>4 DEF OnDisk
  <1> QED BY <1>1, <1>2, <1>6, <1>7, <1>8, <1>9, TakeMetaHolds

LEMMA MarkMetaHolds ==
    ASSUME Inv, NEW r \in Recordings, MarkMeta(r) PROVE Inv'
  <1>1. pc[r] \in {"take_mark", "late_mark"} /\ pc[r] \in Owning
    BY DEF MarkMeta, Taking, Owning
  <1>2. /\ OnDisk(r) /\ name[r] \in Names /\ take[r] > 0 /\ take[r] \in Takes
        /\ ending[r] \in [status : {"recording", "complete", "aborted"}, last : BOOLEAN]
    BY <1>1, Owned DEF Inv, OwnInv, TypeInv, Taking
  <1>3. PICK status \in {"recording", "complete", "aborted"} :
            status = IF pc[r] = "take_mark" THEN "recording" ELSE ending[r].status
    BY <1>2
  <1>4. PICK at \in Taking \cup {"ready", "close"} : at = IF pc[r] = "take_mark" THEN "take" ELSE "ready"
    BY DEF Taking
  <1>5. /\ WriteTakeMeta(r, status, "bad") /\ pc' = [pc EXCEPT ![r] = at]
        /\ UNCHANGED <<name, take, ending, meta, dirs, files>> /\ UNCHANGED <<marks, events>> /\ Rest(r)
    BY <1>3, <1>4 DEF MarkMeta, Goto
  <1>6. \A n \in Names, t \in Takes : EndLogged(n, t) => EndLogged(n, t)'
    BY <1>5 DEF EndLogged
  <1>7. events' \in [Names -> Seq(Event)] /\ marks' \in 0..MaxMarks
    BY <1>5 DEF Inv, TypeInv
  <1>8. /\ IsComplete(name[r], take[r]) => status = "complete"
        /\ status = "complete" => /\ at = "ready" /\ files[name[r]][take[r]] = "closed"
                                  /\ EndLogged(name[r], take[r])
        /\ at = "ready" => status = "complete" /\ ending[r].status = "complete"
    BY <1>1, <1>2, <1>3, <1>4 DEF OnDisk, Taking
  <1>9. pc[r] \in Taking \cup {"late_mark"} /\ at \notin {"end_event", "end_meta", "close_file"}
    BY <1>1, <1>4 DEF Taking
  <1> QED BY <1>2, <1>5, <1>6, <1>7, <1>8, <1>9, TakeMetaHolds

\* A step that appends an event to r's own log and moves on.
LEMMA EventHolds ==
    ASSUME Inv, NEW r \in Recordings, NEW at \in {"take", "end_meta", "take_mark", "late_mark", "closed"}, NEW e \in Event,
           pc[r] \in Owning, Log(name[r], e), Goto(r, at),
           \/ pc[r] = "take_event" /\ at = "take"
           \/ /\ pc[r] = "end_event" /\ at = "end_meta"
              /\ ~ ending[r].last => e = [kind |-> "take_end", take |-> take[r]]
           \/ pc[r] = "take" /\ at = "take_mark"
           \/ pc[r] = "ready" /\ take[r] > 0 /\ at = "late_mark"
           \/ pc[r] = "close" /\ at = "closed",
           marks' \in 0..MaxMarks,
           UNCHANGED <<name, take, ending, meta, dirs, files, takeMeta>>, Rest(r)
    PROVE  Inv'
  <1>1. /\ name[r] \in Names /\ OnDisk(r) /\ pc[r] # "meta"
        /\ pc[r] \in Taking => take[r] > 0
        /\ take[r] > 0 => take[r] \in Takes
    BY Owned DEF Inv, OwnInv
  <1>2. UNCHANGED readerVars
    BY DEF Rest
  <1>3. /\ DiskInv' /\ ReadInv' /\ events' \in [Names -> Seq(Event)]
        /\ \A m \in Names, t \in Takes : EndLogged(m, t) => EndLogged(m, t)'
        /\ \A m, t : IsComplete(m, t)' = IsComplete(m, t)
    BY <1>1, <1>2, Logs
  <1>4. TypeInv'
    <2>1. pc' \in [Recordings -> Points]
      BY DEF Inv, TypeInv, Goto, Points, Owning, Taking
    <2> QED BY <1>3, <2>1 DEF Inv, TypeInv, Rest, processVars, readerVars
  <1>5. pc'[r] = at /\ \A p \in Recordings \ {r} : pc'[p] = pc[p]
    BY DEF Inv, TypeInv, Goto
  <1>6. OwnInv'
    BY <1>1, <1>5, OwnStays DEF Points, Owning, Making, Taking
  <1>7. \A p \in Recordings \ {r} : pc'[p] \in Owning => OnDisk(p)'
    BY <1>3, <1>5, OthersStay
  <1>8. pc'[r] \in Owning => OnDisk(r)'
    <2>1. CASE at = "closed"
      BY <1>5, <2>1 DEF Owning, Making, Taking
    <2>2. CASE at \in {"take", "take_mark"}
      <3>1. ~ IsComplete(name[r], take[r])'
        BY <1>1, <1>3, <2>2 DEF OnDisk, Taking, IsComplete
      <3> QED BY <1>1, <1>5, <2>2, <3>1 DEF OnDisk, Taking
    <2>3. CASE at = "end_meta"
      <3>1. ~ IsComplete(name[r], take[r])'
        BY <1>1, <1>3, <2>3 DEF OnDisk, Taking, IsComplete
      <3>2. ~ ending[r].last => EndLogged(name[r], take[r])'
        <4>1. ASSUME NEW t \in Takes, e = [kind |-> "take_end", take |-> t] PROVE EndLogged(name[r], t)'
          BY <1>1, <4>1, LogStays DEF Inv
        <4>2. PICK t \in Takes : t = take[r]
          BY <1>1, <2>3 DEF Taking
        <4> QED BY <4>1, <4>2, <2>3 DEF EndLogged
      <3> QED BY <1>1, <1>5, <2>3, <3>1, <3>2 DEF OnDisk, Taking
    <2>4. CASE at = "late_mark"
      <3>1. PICK t \in Takes : t = take[r]
        BY <1>1, <2>4
      <3>2. EndLogged(name[r], t)'
        BY <1>1, <1>3, <2>4, <3>1 DEF OnDisk
      <3>3. EndLogged(name[r], take[r])'
        BY <3>1, <3>2 DEF EndLogged
      <3> QED BY <1>1, <1>5, <2>4, <3>3 DEF OnDisk, Taking
    <2> QED BY <2>1, <2>2, <2>3, <2>4
  <1> QED BY <1>3, <1>4, <1>6, <1>7, <1>8 DEF Inv, TakeInv

LEMMA TakeStartHolds ==
    ASSUME Inv, NEW r \in Recordings, TakeStart(r) PROVE Inv'
  <1>1. pc[r] = "take_event" /\ pc[r] \in Owning /\ take[r] \in 0..MaxTakes
    BY DEF TakeStart, Owning, Taking, Inv, TypeInv
  <1>2. PICK e \in Event : e = [kind |-> "take_start", take |-> take[r]]
    BY <1>1, Events DEF Kinds
  <1>3. Log(name[r], e)
    BY <1>2 DEF TakeStart
  <1> QED BY <1>1, <1>3, EventHolds DEF TakeStart, Inv, TypeInv

LEMMA EndEventHolds ==
    ASSUME Inv, NEW r \in Recordings, EndEvent(r) PROVE Inv'
  <1>1. pc[r] = "end_event" /\ pc[r] \in Owning /\ take[r] \in 0..MaxTakes
    BY DEF EndEvent, Owning, Taking, Inv, TypeInv
  <1>2. PICK k \in Kinds : k = IF ending[r].last THEN "take_abort" ELSE "take_end"
    BY DEF Kinds
  <1>3. PICK e \in Event : e = [kind |-> k, take |-> take[r]]
    BY <1>1, Events
  <1>4. Log(name[r], e) /\ (~ ending[r].last => e = [kind |-> "take_end", take |-> take[r]])
    BY <1>2, <1>3 DEF EndEvent
  <1> QED BY <1>1, <1>4, EventHolds DEF EndEvent, Inv, TypeInv

LEMMA CloseSessionHolds ==
    ASSUME Inv, NEW r \in Recordings, CloseSession(r) PROVE Inv'
  <1>1. pc[r] = "close" /\ pc[r] \in Owning
    BY DEF CloseSession, Owning
  <1>2. PICK e \in Event : e = [kind |-> "session_end", take |-> 0]
    BY Events DEF Kinds
  <1>3. Log(name[r], e)
    BY <1>2 DEF CloseSession
  <1> QED BY <1>1, <1>3, EventHolds DEF CloseSession, Inv, TypeInv

LEMMA MarkTakeHolds ==
    ASSUME Inv, NEW r \in Recordings, MarkTake(r) PROVE Inv'
  <1>1. pc[r] \in {"ready", "take"} /\ take[r] > 0 /\ pc[r] \in Owning /\ take[r] \in 0..MaxTakes
    BY DEF MarkTake, Owning, Taking, Inv, TypeInv
  <1>2. PICK e \in Event : e = [kind |-> "take_mark", take |-> take[r]]
    BY <1>1, Events DEF Kinds
  <1>3. PICK at \in {"take_mark", "late_mark"} : at = IF pc[r] = "take" THEN "take_mark" ELSE "late_mark"
    OBVIOUS
  <1>4. /\ Log(name[r], e) /\ Goto(r, at) /\ Rest(r) /\ marks' = marks + 1 /\ marks < MaxMarks
        /\ UNCHANGED <<name, take, ending, meta, dirs, files, takeMeta>>
    BY <1>2, <1>3 DEF MarkTake
  <1>5. marks' \in 0..MaxMarks
    BY <1>4, CorpusAssumption DEF Inv, TypeInv
  <1> QED BY <1>1, <1>3, <1>4, <1>5, EventHolds

LEMMA StopTakeHolds ==
    ASSUME Inv, NEW r \in Recordings, StopTake(r) PROVE Inv'
  <1>1. pc[r] = "take" /\ pc[r] \in Owning /\ pc[r] \in Taking
    BY DEF StopTake, Owning, Taking
  <1>2. PICK last \in BOOLEAN :
            ending' = [ending EXCEPT ![r] = [status |-> IF last THEN "aborted" ELSE "complete", last |-> last]]
    BY DEF StopTake
  <1>3. /\ pc' = [pc EXCEPT ![r] = "close_file"] /\ Rest(r)
        /\ UNCHANGED <<name, take, marks, meta, dirs, events, files, takeMeta>>
    BY DEF StopTake, Goto, diskVars
  <1>4. TypeInv'
    <2>1. pc' \in [Recordings -> Points]
      BY <1>3 DEF Inv, TypeInv, Points, Owning, Taking
    <2>2. ending' \in [Recordings -> [status : {"recording", "complete", "aborted"}, last : BOOLEAN]]
      BY <1>2 DEF Inv, TypeInv
    <2> QED BY <1>3, <2>1, <2>2 DEF Inv, TypeInv, Rest, processVars, readerVars
  <1>5. /\ pc'[r] = "close_file" /\ \A p \in Recordings \ {r} : pc'[p] = pc[p] /\ ending'[p] = ending[p]
        /\ ending'[r].status = IF ending'[r].last THEN "aborted" ELSE "complete"
    BY <1>2, <1>3 DEF Inv, TypeInv
  <1>6. OwnInv'
    BY <1>1, <1>3, <1>5, OwnStays DEF Goto, Points, Owning, Making, Taking, Inv, OwnInv
  <1>7. /\ \A m, t : IsComplete(m, t)' = IsComplete(m, t)
        /\ \A m, t : EndLogged(m, t)' = EndLogged(m, t)
    BY <1>3 DEF IsComplete, EndLogged
  <1>8. DiskInv' /\ ReadInv'
    BY <1>3, DiskStays DEF diskVars, Rest
  <1>9. \A p \in Recordings \ {r} : pc'[p] \in Owning => OnDisk(p)'
    BY <1>1, <1>3, <1>5, <1>7, OthersStay
  <1>10. OnDisk(r)'
    <2>1. OnDisk(r)
      BY <1>1, Owned
    <2>2. ~ IsComplete(name[r], take[r])'
      BY <1>1, <1>3, <1>7, <2>1 DEF OnDisk, IsComplete
    <2> QED BY <1>1, <1>3, <1>5, <2>1, <2>2 DEF OnDisk, Taking
  <1> QED BY <1>4, <1>6, <1>8, <1>9, <1>10 DEF Inv, TakeInv

LEMMA CloseFileHolds ==
    ASSUME Inv, NEW r \in Recordings, CloseFile(r) PROVE Inv'
  <1>1. pc[r] = "close_file" /\ pc[r] \in Owning /\ pc[r] \in Taking
    BY DEF CloseFile, Owning, Taking
  <1>2. PICK n \in Names, u \in Takes : n = name[r] /\ u = take[r]
    BY <1>1, Owned
  <1>3. /\ pc' = [pc EXCEPT ![r] = "end_event"] /\ files' = [files EXCEPT ![n][u] = "closed"] /\ Rest(r)
        /\ UNCHANGED <<name, take, ending, marks, meta, dirs, events, takeMeta>>
    BY <1>2 DEF CloseFile, Goto
  <1>4. OnDisk(r) /\ meta[n] # None /\ take[r] > 0
    BY <1>1, <1>2, Owned DEF Inv, OwnInv
  <1>5. TypeInv'
    <2>1. pc' \in [Recordings -> Points]
      BY <1>3 DEF Inv, TypeInv, Points, Owning, Taking
    <2>2. files' \in [Names -> [Takes -> {"absent", "open", "closed"}]]
      BY <1>3 DEF Inv, TypeInv
    <2> QED BY <1>3, <2>1, <2>2 DEF Inv, TypeInv, Rest, processVars, readerVars
  <1>6. pc'[r] = "end_event" /\ \A p \in Recordings \ {r} : pc'[p] = pc[p]
    BY <1>3 DEF Inv, TypeInv
  <1>7. OwnInv'
    <2>1. "end_event" \in Points /\ "end_event" \in Owning \ Making /\ pc[r] # "meta"
      BY <1>1 DEF Points, Owning, Making, Taking
    <2>2. Goto(r, "end_event") /\ UNCHANGED <<name, meta, dirs>> /\ take' = take
      BY <1>3 DEF Goto
    <2> QED BY <1>1, <1>4, <2>1, <2>2, OwnStays
  <1>8. /\ \A m, t : IsComplete(m, t)' = IsComplete(m, t)
        /\ \A m, t : EndLogged(m, t)' = EndLogged(m, t)
    BY <1>3 DEF IsComplete, EndLogged
  <1>9. /\ files'[n][u] = "closed"
        /\ \A m \in Names, t \in Takes : m # n \/ t # u => files'[m][t] = files[m][t]
        /\ \A m \in Names \ {n} : files'[m] = files[m]
    BY <1>3 DEF Inv, TypeInv
  <1>10. DiskInv'
    BY <1>3, <1>4, <1>8, <1>9 DEF Inv, DiskInv
  <1>11. ReadInv'
    BY <1>3, <1>8 DEF Inv, ReadInv, Rest, readerVars, MetaUsable
  <1>12. \A p \in Recordings \ {r} : pc'[p] \in Owning => OnDisk(p)'
    BY <1>1, <1>2, <1>3, <1>6, <1>8, <1>9, OthersStay
  <1>13. OnDisk(r)'
    <2>1. name'[r] = n /\ take'[r] = u /\ \A t \in Takes : t > u => files'[n][t] = "absent"
      <3>1. \A t \in Takes : t > u => t # u
        BY <1>2, CorpusAssumption DEF Takes
      <3> QED BY <1>2, <1>3, <1>4, <1>9, <3>1 DEF OnDisk
    <2>2. ~ IsComplete(name[r], take[r])'
      BY <1>1, <1>3, <1>4, <1>8 DEF OnDisk, IsComplete
    <2> QED BY <1>1, <1>3, <1>4, <1>6, <1>9, <2>1, <2>2 DEF OnDisk, Taking
  <1> QED BY <1>5, <1>7, <1>10, <1>11, <1>12, <1>13 DEF Inv, TakeInv

LEMMA StopSessionHolds ==
    ASSUME Inv, NEW r \in Recordings, StopSession(r) PROVE Inv'
  <1>1. pc[r] = "ready" /\ Goto(r, "close")
    BY DEF StopSession
  <1> QED BY <1>1, MovesOn DEF StopSession, Points, Owning

LEMMA KillHolds ==
    ASSUME Inv, NEW r \in Recordings, Kill(r) PROVE Inv'
  <1>1. Goto(r, "dead")
    BY DEF Kill
  <1> QED BY <1>1, MovesOn DEF Kill, Points, Early, Owning, Making, Taking

\* Every step of a recording, whoever makes it.
LEMMA RecordingHolds ==
    ASSUME Inv, NEW r \in Recordings,
           CheckSplit(r) \/ Resolve(r) \/ Create(r) \/ InTake(r) \/ Operate(r) \/ Kill(r)
    PROVE  Inv'
  <1>1. CASE CheckSplit(r) \/ Resolve(r) \/ Kill(r)
    BY <1>1, CheckSplitHolds, ResolveHolds, KillHolds
  <1>2. CASE Create(r)
    BY <1>2, PickNameHolds, MakeDirectoryHolds, WriteMetaHolds, BeginSessionHolds, StartRecorderHolds DEF Create
  <1>3. CASE InTake(r)
    BY <1>3, FirstTakeMetaHolds, TakeStartHolds, CloseFileHolds, EndEventHolds, EndMetaHolds, MarkMetaHolds, CloseSessionHolds
       DEF InTake
  <1>4. CASE Operate(r)
    BY <1>4, OpenTakeHolds, StopTakeHolds, MarkTakeHolds, StopSessionHolds DEF Operate
  <1> QED BY <1>1, <1>2, <1>3, <1>4

-----------------------------------------------------------------------------
(* The reader, and the handlers' own steps *)

LEMMA ReaderHolds ==
    ASSUME Inv, Read PROVE Inv'
  <1>1. UNCHANGED <<processVars, ownVars, diskVars>>
    BY DEF Read, ListSessions, ReadSession, ReadTake, NextSession, NoSession, Untouched
  <1>2. OwnInv' /\ TakeInv' /\ DiskInv'
    <2>1. \A m, t : IsComplete(m, t)' = IsComplete(m, t) /\ EndLogged(m, t)' = EndLogged(m, t)
      BY <1>1 DEF diskVars, IsComplete, EndLogged
    <2>2. OwnInv'
      BY <1>1 DEF Inv, OwnInv, ownVars, diskVars
    <2>3. TakeInv'
      BY <1>1, <2>1 DEF Inv, TakeInv, OnDisk, ownVars, diskVars
    <2> QED BY <1>1, <2>2, <2>3, DiskStays
  <1>3. \A m, t : IsComplete(m, t)' = IsComplete(m, t)
    BY <1>1 DEF diskVars, IsComplete
  <1>4. takeMeta' = takeMeta
    BY <1>1 DEF diskVars
  <1>5. CASE ListSessions \/ NextSession \/ NoSession
    <2>1. list' \subseteq Names /\ rest' = rest /\ view' = view /\ reader' # "failed"
      BY <1>5 DEF ListSessions, NextSession, NoSession, Inv, TypeInv
    <2>2. TypeInv' /\ ReadInv'
      BY <1>1, <1>3, <1>4, <2>1 DEF Inv, TypeInv, ReadInv, processVars, ownVars, diskVars, MetaUsable
    <2> QED BY <1>2, <2>2 DEF Inv
  <1>6. CASE ReadSession
    <2>1. PICK n \in list : /\ list' = list \ {n}
                            /\ rest' = {<<n, t>> : t \in {u \in Takes : takeMeta[n][u] # None}}
      BY <1>6 DEF ReadSession
    <2>2. n \in Names /\ view' = view /\ reader' # "failed"
      BY <1>6 DEF ReadSession, Inv, TypeInv
    <2>3. list' \subseteq Names /\ rest' \subseteq Names \X Takes
      BY <2>1, <2>2 DEF Inv, TypeInv
    <2>4. \A p \in rest' : takeMeta[p[1]][p[2]] # None
      BY <2>1
    <2>5. TypeInv' /\ ReadInv'
      BY <1>1, <1>3, <1>4, <2>2, <2>3, <2>4 DEF Inv, TypeInv, ReadInv, processVars, ownVars, diskVars, MetaUsable
    <2> QED BY <1>2, <2>5 DEF Inv
  <1>7. CASE ReadTake
    <2>1. PICK p \in rest :
              IF files[p[1]][p[2]] = "absent"
              THEN reader' = "failed" /\ UNCHANGED <<rest, view>>
              ELSE /\ view' = view \cup {[name |-> p[1], take |-> p[2], meta |-> takeMeta[p[1]][p[2]]]}
                   /\ rest' = rest \ {p}
                   /\ UNCHANGED reader
      BY <1>7 DEF ReadTake
    <2>2. PICK n \in Names, u \in Takes : n = p[1] /\ u = p[2]
      BY DEF Inv, TypeInv
    <2>3. takeMeta[n][u] # None /\ takeMeta[n][u] \in Meta /\ files[n][u] # "absent"
      BY <2>2 DEF Inv, TypeInv, ReadInv, DiskInv
    <2>4. PICK v : v = [name |-> n, take |-> u, meta |-> takeMeta[n][u]]
      OBVIOUS
    <2>5. view' = view \cup {v} /\ rest' = rest \ {p} /\ reader' = reader /\ list' = list
      BY <1>7, <2>1, <2>2, <2>3, <2>4 DEF ReadTake
    <2>6. v \in [name : Names, take : Takes, meta : Meta]
      BY <2>3, <2>4
    <2>7. MetaUsable(v.meta) => IsComplete(v.name, v.take)
      BY <2>3, <2>4 DEF MetaUsable, IsComplete
    <2>8. TypeInv'
      BY <1>1, <2>5, <2>6 DEF Inv, TypeInv, processVars, ownVars, diskVars
    <2>9. ReadInv'
      BY <1>3, <1>4, <2>5, <2>7 DEF Inv, ReadInv, MetaUsable
    <2> QED BY <1>2, <2>8, <2>9 DEF Inv
  <1> QED BY <1>5, <1>6, <1>7 DEF Read

LEMMA CaptureStartHolds ==
    ASSUME Inv, NEW r \in Recordings, CaptureStart(r) PROVE Inv'
  <1>1. PICK at \in {"refused", "name", "probe"} : Goto(r, at)
    BY DEF CaptureStart
  <1>2. take[r] = 0
    BY DEF Inv, OwnInv, CaptureStart, Early
  <1> QED BY <1>1, <1>2, MovesOn DEF CaptureStart, Points, Early, Owning, Making, Taking

\* The recordings that a dead server leaves own nothing any more.
LEMMA KillServerHolds ==
    ASSUME Inv, KillServer PROVE Inv'
  <1>1. /\ pc' \in [Recordings -> Points]
        /\ \A r \in Recordings : pc'[r] = pc[r] \/ pc'[r] = "dead"
    BY DEF Inv, TypeInv, KillServer, Points
  <1>2. UNCHANGED <<name, take, ending, marks, diskVars, processVars, readerVars>>
    BY DEF KillServer
  <1>3. TypeInv'
    BY <1>1, <1>2 DEF Inv, TypeInv, diskVars, processVars, readerVars
  <1>4. OwnInv'
    BY <1>1, <1>2 DEF Inv, OwnInv, diskVars, Early, Making, Taking, Owning
  <1>5. \A m, t : IsComplete(m, t)' = IsComplete(m, t) /\ EndLogged(m, t)' = EndLogged(m, t)
    BY <1>2 DEF diskVars, IsComplete, EndLogged
  <1>6. TakeInv'
    BY <1>1, <1>2, <1>5 DEF Inv, TakeInv, OnDisk, diskVars, Making, Taking, Owning
  <1> QED BY <1>2, <1>3, <1>4, <1>6, DiskStays DEF Inv

LEMMA InitHolds == WebInit => Inv
  <1> SUFFICES ASSUME WebInit PROVE Inv
    OBVIOUS
  <1>1. MaxTakes \in Nat /\ MaxMarks \in Nat
    BY CorpusAssumption
  <1>2. kind \in [Recordings -> {"cli", "web"}] /\ plan \in [Recordings -> [split : Splits, schema : BOOLEAN]]
    BY DEF WebInit, InitWith
  <1>3. /\ pc = [r \in Recordings |-> "idle"] /\ name = [r \in Recordings |-> None]
        /\ take = [r \in Recordings |-> 0] /\ marks = 0
        /\ ending = [r \in Recordings |-> [status |-> "recording", last |-> FALSE]]
        /\ meta = [n \in Names |-> None] /\ dirs = {} /\ events = [n \in Names |-> <<>>]
        /\ files = [n \in Names |-> [t \in Takes |-> "absent"]]
        /\ takeMeta = [n \in Names |-> [t \in Takes |-> None]]
        /\ reader = "idle" /\ list = {} /\ rest = {} /\ view = {}
    BY DEF WebInit, InitWith
  <1>4. TypeInv
    <2>1. <<>> \in Seq(Event)
      OBVIOUS
    <2>2. events \in [Names -> Seq(Event)]
      BY <1>3, <2>1
    <2>3. 0 \in 0..MaxTakes /\ 0 \in 0..MaxMarks
      BY <1>1
    <2>4. /\ pc \in [Recordings -> Points] /\ take \in [Recordings -> 0..MaxTakes] /\ marks \in 0..MaxMarks
          /\ ending \in [Recordings -> [status : {"recording", "complete", "aborted"}, last : BOOLEAN]]
      BY <1>3, <2>3 DEF Points, Early
    <2> QED BY <1>2, <1>3, <2>2, <2>4 DEF TypeInv
  <1>5. OwnInv
    BY <1>3 DEF OwnInv, Early, Making, Taking, Owning
  <1>6. DiskInv
    BY <1>3 DEF DiskInv, IsComplete
  <1>7. TakeInv
    BY <1>3 DEF TakeInv, Early, Making, Taking, Owning
  <1> QED BY <1>3, <1>4, <1>5, <1>6, <1>7 DEF Inv, ReadInv

LEMMA NextHolds ==
    ASSUME Inv, [WebNext]_<<vars, webVars>> PROVE Inv'
  <1>1. CASE KillServer
    BY <1>1, KillServerHolds
  <1>2. ASSUME NEW r \in Recordings, Handlers(r) PROVE Inv'
    <2>1. CASE CaptureStart(r)
      BY <2>1, CaptureStartHolds
    <2>2. CASE ~ CaptureStart(r)
      <3>1. Resolve(r) \/ Create(r) \/ Operate(r) \/ InTake(r)
        BY <1>2, <2>2 DEF Handlers, Inferred, Construct, Act, Complete
      <3> QED BY <3>1, RecordingHolds
    <2> QED BY <2>1, <2>2
  <1>3. ASSUME NEW r \in Recordings, Cli(r) PROVE Inv'
    BY <1>3, RecordingHolds DEF Cli
  <1>4. CASE Read
    BY <1>4, ReaderHolds
  <1>5. CASE UNCHANGED <<vars, webVars>>
    <2>1. UNCHANGED <<kind, plan, pc, name, take, ending, marks, meta, dirs, events, files, takeMeta,
                      reader, list, rest, view>>
      BY <1>5 DEF vars, processVars, ownVars, diskVars, readerVars
    <2>2. \A m, t : IsComplete(m, t)' = IsComplete(m, t) /\ EndLogged(m, t)' = EndLogged(m, t)
      BY <2>1 DEF IsComplete, EndLogged
    <2>3. TypeInv' /\ OwnInv'
      BY <2>1 DEF Inv, TypeInv, OwnInv
    <2>4. TakeInv'
      BY <2>1, <2>2 DEF Inv, TakeInv, OnDisk
    <2> QED BY <2>1, <2>3, <2>4, DiskStays DEF Inv, diskVars, readerVars
  <1> QED BY <1>1, <1>2, <1>3, <1>4, <1>5 DEF WebNext

\* The inductive invariant: a recording owns its directory from mkdir on, metadata on disk has
\* its data file, metadata that says complete has a closed file and an ended take, and what a
\* reader listed was there.
THEOREM CorpusInvariant == WebSpec => []Inv
  <1>1. WebInit => Inv
    BY InitHolds
  <1>2. Inv /\ [WebNext]_<<vars, webVars>> => Inv'
    BY NextHolds
  <1> QED BY <1>1, <1>2, PTL DEF WebSpec

-----------------------------------------------------------------------------
(* What follows *)

\* A reader never meets metadata whose data file is missing, however many sessions are
\* created, recorded, killed and read at the same time.
THEOREM ReaderSafe == WebSpec => []ReaderNeverFails
  <1>1. Inv => ReaderNeverFails
    BY DEF Inv, ReadInv, ReaderNeverFails
  <1> QED BY <1>1, CorpusInvariant, PTL

\* What a reader took for usable stays closed, complete and ended.
THEOREM UsableStaysFinal == WebSpec => []UsableIsFinal
  <1>1. Inv => UsableIsFinal
    <2> SUFFICES ASSUME Inv, NEW v \in view, MetaUsable(v.meta)
                 PROVE  /\ files[v.name][v.take] = "closed"
                        /\ takeMeta[v.name][v.take].status = "complete"
                        /\ EndLogged(v.name, v.take)
      BY DEF UsableIsFinal, EndLogged
    <2>1. v.name \in Names /\ v.take \in Takes
      BY DEF Inv, TypeInv
    <2>2. IsComplete(v.name, v.take)
      BY DEF Inv, ReadInv
    <2> QED BY <2>1, <2>2 DEF Inv, DiskInv, IsComplete
  <1> QED BY <1>1, CorpusInvariant, PTL

\* The types of the state of every recording, of the disk and of the reader.
THEOREM CorpusTypeCorrect == WebSpec => []TypeOK
  <1>1. Inv => TypeOK
    BY DEF Inv, TypeInv, DiskInv, TypeOK
  <1> QED BY <1>1, CorpusInvariant, PTL

-----------------------------------------------------------------------------
(* The server's state *)

RunningPoints == {"ready", "take_meta", "take_event", "take", "take_mark", "close_file", "end_event", "end_meta",
                  "late_mark", "close"}
MakingPoints  == {"name", "mkdir", "meta", "begin", "start"}

\* A start past its check, whose recording the state does not name yet.
Pending(r) == Web(r) /\ pc[r] \in {"probe"} \cup MakingPoints

\* A start past its check is alone with its probe, as long as none overlapped, and holds the
\* loop from the end of it to the state it sets.
ServerInv ==
    /\ loop # None => loop \in Recordings
    /\ current # None => current \in Recordings /\ Web(current) /\ pc[current] \in RunningPoints
    /\ ~ overlapped =>
          /\ \A r, p \in Recordings : Pending(r) /\ Pending(p) => r = p
          /\ \A r \in Recordings :
                /\ Pending(r) => current = None
                /\ Web(r) /\ pc[r] \in MakingPoints => loop = r
                /\ Web(r) /\ pc[r] \in RunningPoints => current = r

\* Where the steps of a recording lead.
Moves(r, to) == \E at \in to : Goto(r, at)

LEMMA Lead ==
    ASSUME TypeInv, NEW r \in Recordings, NEW to, Moves(r, to)
    PROVE  pc'[r] \in to /\ \A p \in Recordings \ {r} : pc'[p] = pc[p]
  BY DEF TypeInv, Moves, Goto

LEMMA MakingLeads ==
    ASSUME NEW r \in Recordings, Create(r)
    PROVE  /\ pc[r] \in MakingPoints /\ Moves(r, MakingPoints \cup {"ready", "failed"})
           /\ UNCHANGED <<kind, plan>>
  <1>1. CASE PickName(r)
    BY <1>1 DEF PickName, Moves, Rest, processVars, MakingPoints
  <1>2. CASE MakeDirectory(r)
    BY <1>2 DEF MakeDirectory, Moves, Rest, processVars, MakingPoints
  <1>3. CASE WriteMeta(r)
    BY <1>3 DEF WriteMeta, Moves, Rest, processVars, MakingPoints
  <1>4. CASE BeginSession(r)
    BY <1>4 DEF BeginSession, Moves, Rest, processVars, MakingPoints
  <1>5. CASE StartRecorder(r)
    BY <1>5 DEF StartRecorder, Moves, Rest, processVars, MakingPoints
  <1> QED BY <1>1, <1>2, <1>3, <1>4, <1>5 DEF Create

LEMMA TakingLeads ==
    ASSUME NEW r \in Recordings, InTake(r)
    PROVE  /\ pc[r] \in RunningPoints /\ Moves(r, RunningPoints \cup {"closed"})
           /\ UNCHANGED <<kind, plan>>
  <1>1. CASE FirstTakeMeta(r) \/ TakeStart(r)
    BY <1>1 DEF FirstTakeMeta, TakeStart, Moves, Rest, processVars, RunningPoints
  <1>2. CASE CloseFile(r) \/ EndEvent(r)
    BY <1>2 DEF CloseFile, EndEvent, Moves, Rest, processVars, RunningPoints
  <1>3. CASE EndMeta(r) \/ MarkMeta(r) \/ CloseSession(r)
    BY <1>3 DEF EndMeta, MarkMeta, CloseSession, Moves, Rest, processVars, RunningPoints
  <1> QED BY <1>1, <1>2, <1>3 DEF InTake

LEMMA OperatingLeads ==
    ASSUME TypeInv, NEW r \in Recordings, Operate(r)
    PROVE  Moves(r, RunningPoints) /\ UNCHANGED <<kind, plan>>
  <1>1. CASE OpenTake(r) \/ StopTake(r) \/ StopSession(r)
    BY <1>1 DEF OpenTake, StopTake, StopSession, Moves, Rest, processVars, RunningPoints
  <1>2. CASE MarkTake(r)
    BY <1>2 DEF MarkTake, Moves, Rest, processVars, RunningPoints
  <1> QED BY <1>1, <1>2 DEF Operate

LEMMA CliLeads ==
    ASSUME TypeInv, NEW r \in Recordings, Cli(r)
    PROVE  UNCHANGED <<kind, plan>> /\ \A p \in Recordings \ {r} : pc'[p] = pc[p]
  <1>1. CASE CheckSplit(r) \/ Resolve(r) \/ Kill(r)
    BY <1>1 DEF CheckSplit, Resolve, Kill, Goto, Rest, processVars, TypeInv
  <1>2. CASE Create(r) \/ InTake(r) \/ Operate(r)
    BY <1>2, MakingLeads, TakingLeads, OperatingLeads, Lead
  <1> QED BY <1>1, <1>2 DEF Cli

LEMMA ServerStays ==
    ASSUME TypeInv, ServerInv, NEW r \in Recordings, Handlers(r)
    PROVE  ServerInv'
  <1>1. Web(r)
    BY DEF Handlers, CaptureStart, Inferred, Construct, Act, Complete
  <1>2. CASE CaptureStart(r)
    <2>1. Moves(r, {"refused", "name", "probe"}) /\ UNCHANGED <<kind, plan, current>>
      BY <1>2 DEF CaptureStart, Moves, Rest, processVars
    <2>2. pc[r] = "idle" /\ pc'[r] \in {"refused", "name", "probe"} /\ \A p \in Recordings \ {r} : pc'[p] = pc[p]
      BY <1>2, <2>1, Lead DEF CaptureStart
    <2>3. /\ loop = None /\ loop' = (IF current = None /\ plan[r].schema THEN r ELSE None)
          /\ pc'[r] = IF current # None THEN "refused" ELSE IF plan[r].schema THEN "name" ELSE "probe"
          /\ overlapped' = (overlapped \/ (current = None /\ OtherProbes(r)))
      BY <1>2 DEF CaptureStart, Goto, TypeInv
    <2>4. CASE current # None
      BY <1>1, <2>1, <2>2, <2>3, <2>4, CorpusAssumption DEF ServerInv, Web, Pending, RunningPoints, MakingPoints
    <2>5. CASE current = None
      <3>1. ~ overlapped' => \A p \in Recordings \ {r} : ~ Pending(p)
        BY <2>3, <2>5, CorpusAssumption DEF ServerInv, Pending, OtherProbes
      <3>2. \A p \in Recordings \ {r} : Pending(p)' = Pending(p)
        BY <2>1, <2>2 DEF Pending, Web
      <3>3. ~ overlapped' => \A q, p \in Recordings : Pending(q)' /\ Pending(p)' => q = p
        BY <3>1, <3>2
      <3> QED BY <1>1, <2>1, <2>2, <2>3, <2>5, <3>1, <3>2, <3>3, CorpusAssumption
              DEF ServerInv, Web, Pending, RunningPoints, MakingPoints
    <2> QED BY <2>4, <2>5
  <1>3. CASE Inferred(r)
    <2>1. pc[r] = "probe" /\ Moves(r, {"refused", "name"}) /\ UNCHANGED <<kind, plan, current, overlapped>>
      BY <1>3 DEF Inferred, Resolve, Moves, Rest, processVars
    <2>2. pc'[r] \in {"refused", "name"} /\ \A p \in Recordings \ {r} : pc'[p] = pc[p]
      BY <2>1, Lead
    <2>3. loop = None /\ loop' = IF pc'[r] = "name" THEN r ELSE None
      BY <1>3 DEF Inferred
    <2> QED BY <1>1, <2>1, <2>2, <2>3, CorpusAssumption DEF ServerInv, Web, Pending, RunningPoints, MakingPoints
  <1>4. CASE Construct(r)
    <2>1. pc[r] \in MakingPoints /\ Moves(r, MakingPoints \cup {"ready", "failed"}) /\ UNCHANGED <<kind, plan>>
      BY <1>4, MakingLeads DEF Construct
    <2>2. pc'[r] \in MakingPoints \cup {"ready", "failed"} /\ \A p \in Recordings \ {r} : pc'[p] = pc[p]
      BY <2>1, Lead
    <2>3. /\ loop = r /\ current' = (IF pc'[r] = "ready" THEN r ELSE current)
          /\ loop' = (IF pc'[r] \in {"ready", "failed"} THEN None ELSE r)
          /\ overlapped' = overlapped
      BY <1>4 DEF Construct
    <2> QED BY <1>1, <2>1, <2>2, <2>3, CorpusAssumption DEF ServerInv, Web, Pending, RunningPoints, MakingPoints
  <1>5. CASE Act(r)
    <2>1. pc'[r] \in RunningPoints /\ (\A p \in Recordings \ {r} : pc'[p] = pc[p]) /\ UNCHANGED <<kind, plan>>
      BY <1>5, OperatingLeads, Lead DEF Act
    <2>2. loop = None /\ current = r /\ UNCHANGED <<current, overlapped>> /\ loop' \in {None, r}
      BY <1>5 DEF Act
    <2> QED BY <1>1, <2>1, <2>2, CorpusAssumption DEF ServerInv, Web, Pending, RunningPoints, MakingPoints
  <1>6. CASE Complete(r)
    <2>1. pc[r] \in RunningPoints /\ Moves(r, RunningPoints \cup {"closed"}) /\ UNCHANGED <<kind, plan>>
      BY <1>6, TakingLeads DEF Complete
    <2>2. pc'[r] \in RunningPoints \cup {"closed"} /\ \A p \in Recordings \ {r} : pc'[p] = pc[p]
      BY <2>1, Lead
    <2>3. /\ loop = r /\ loop' \in {None, r} /\ overlapped' = overlapped
          /\ current' = IF pc'[r] = "closed" THEN None ELSE current
      BY <1>6 DEF Complete
    <2> QED BY <1>1, <2>1, <2>2, <2>3, CorpusAssumption DEF ServerInv, Web, Pending, RunningPoints, MakingPoints
  <1> QED BY <1>2, <1>3, <1>4, <1>5, <1>6 DEF Handlers

\* As long as no start goes past its check while another one awaits its probe, the state names
\* every recorder that runs: with probes, refusals, failed binds and restarts of the server.
THEOREM StateIsTheRecording == WebSpec => []StateNamesTheRecording
  <1>1. WebInit => ServerInv
    BY DEF WebInit, InitWith, ServerInv, Pending, RunningPoints, MakingPoints
  <1>2. TypeInv /\ ServerInv /\ [WebNext]_<<vars, webVars>> => ServerInv'
    <2> SUFFICES ASSUME TypeInv, ServerInv, [WebNext]_<<vars, webVars>> PROVE ServerInv'
      OBVIOUS
    <2>1. CASE KillServer
      BY <2>1 DEF KillServer, TypeInv, ServerInv, Web, Pending, Over, processVars, RunningPoints, MakingPoints
    <2>2. ASSUME NEW r \in Recordings, Handlers(r) PROVE ServerInv'
      BY <2>2, ServerStays
    <2>3. ASSUME NEW r \in Recordings, kind[r] = "cli", Cli(r), UNCHANGED webVars PROVE ServerInv'
      BY <2>3, CliLeads DEF ServerInv, Web, Pending, MakingPoints, RunningPoints, webVars
    <2>4. CASE Read /\ UNCHANGED webVars
      BY <2>4 DEF Read, ListSessions, ReadSession, ReadTake, NextSession, NoSession, Untouched,
                  processVars, ownVars, webVars, ServerInv, Web, Pending, MakingPoints, RunningPoints
    <2>5. CASE UNCHANGED <<vars, webVars>>
      BY <2>5 DEF vars, processVars, ownVars, webVars, ServerInv, Web, Pending, MakingPoints, RunningPoints
    <2> QED BY <2>1, <2>2, <2>3, <2>4, <2>5 DEF WebNext
  <1>3. ServerInv => StateNamesTheRecording
    <2> SUFFICES ASSUME ServerInv, ~ overlapped PROVE Running = IF current = None THEN {} ELSE {current}
      BY DEF StateNamesTheRecording
    <2>1. \A r \in Recordings : r \in Running <=> Web(r) /\ pc[r] \in RunningPoints
      BY DEF Running, RunningPoints
    <2>2. Running \subseteq Recordings
      BY DEF Running
    <2>3. \A r \in Recordings : r \in Running <=> current = r
      BY <2>1, CorpusAssumption DEF ServerInv
    <2> QED BY <2>2, <2>3, CorpusAssumption DEF ServerInv
  <1>4. Inv => TypeInv
    BY DEF Inv
  <1> QED BY <1>1, <1>2, <1>3, <1>4, CorpusInvariant, PTL DEF WebSpec

-----------------------------------------------------------------------------
(* The split of a subject *)

AllCli == \A r \in Recordings : kind[r] = "cli"

\* Without a race at most one recording is between its check and its metadata, and what it
\* checked is still so.
SplitInv ==
    AllCli /\ ~ raced =>
        /\ OneSplitPerSubject
        /\ \A r \in Recordings : Unseen(r) => SplitAllowed(plan[r].split)
        /\ \A r, p \in Recordings : Unseen(r) /\ Unseen(p) => r = p

\* A step that neither checks a split nor writes meta.json.
LEMMA SplitStays ==
    ASSUME SplitInv, UNCHANGED <<kind, plan, meta, raced>>,
           \A r \in Recordings : Unseen(r)' => Unseen(r)
    PROVE  SplitInv'
  BY DEF SplitInv, AllCli, OneSplitPerSubject, SplitAllowed

LEMMA SplitHolds ==
    ASSUME Inv, SplitInv, NEW r \in Recordings, Cli(r) PROVE SplitInv'
  <1>1. CASE CheckSplit(r)
    <2>1. /\ UNCHANGED <<kind, plan, meta>> /\ raced' = (raced \/ \E p \in Recordings \ {r} : Unseen(p))
          /\ pc'[r] = IF SplitAllowed(plan[r].split) THEN "probe" ELSE "refused"
          /\ \A p \in Recordings \ {r} : pc'[p] = pc[p]
      BY <1>1 DEF CheckSplit, Goto, Rest, processVars, diskVars, Inv, TypeInv
    <2>2. \A p \in Recordings \ {r} : Unseen(p)' = Unseen(p)
      BY <2>1 DEF Unseen
    <2>3. Unseen(r)' => SplitAllowed(plan[r].split)
      BY <2>1 DEF Unseen
    <2> QED BY <2>1, <2>2, <2>3 DEF SplitInv, AllCli, OneSplitPerSubject, SplitAllowed
  <1>2. CASE WriteMeta(r)
    <2>1. name[r] \in Names /\ plan[r].split \in Splits
      BY <1>2 DEF WriteMeta, Inv, TypeInv, OwnInv, Owning, Making
    <2>2. /\ UNCHANGED <<kind, plan, raced>> /\ Unseen(r) /\ ~ Unseen(r)'
          /\ \A p \in Recordings \ {r} : Unseen(p)' = Unseen(p)
      BY <1>2 DEF WriteMeta, Goto, Rest, processVars, Inv, TypeInv, Unseen
    <2>3. /\ meta'[name[r]] = plan[r].split
          /\ \A n \in Names \ {name[r]} : meta'[n] = meta[n]
      BY <1>2, <2>1 DEF WriteMeta, Inv, TypeInv
    <2>4. AllCli /\ ~ raced =>
             /\ \A p \in Recordings : ~ Unseen(p)'
             /\ \A n \in Names : meta[n] # None => meta[n] = plan[r].split
      BY <2>2 DEF SplitInv, SplitAllowed
    <2>5. AllCli /\ ~ raced => \A n \in Names : meta'[n] # None => meta'[n] = plan[r].split
      BY <2>3, <2>4
    <2> QED BY <2>2, <2>4, <2>5 DEF SplitInv, AllCli, OneSplitPerSubject
  <1>3. CASE Resolve(r) \/ PickName(r) \/ MakeDirectory(r)
    <2>1. UNCHANGED <<kind, plan, meta, raced>> /\ Unseen(r) /\ \A p \in Recordings \ {r} : pc'[p] = pc[p]
      BY <1>3 DEF Resolve, PickName, MakeDirectory, Goto, Rest, processVars, diskVars, Inv, TypeInv, Unseen
    <2> QED BY <2>1, SplitStays DEF Unseen
  <1>4. CASE BeginSession(r) \/ StartRecorder(r) \/ InTake(r) \/ Operate(r) \/ Kill(r)
    <2>1. UNCHANGED <<kind, plan, meta, raced>>
      BY <1>4 DEF BeginSession, StartRecorder, InTake, FirstTakeMeta, TakeStart, CloseFile, EndEvent, EndMeta,
                  MarkMeta, CloseSession, Operate, OpenTake, StopTake, MarkTake, StopSession, Kill, Rest, processVars, diskVars
    <2>2. (\A p \in Recordings \ {r} : pc'[p] = pc[p])
      BY CliLeads DEF Inv
    <2>3. ~ Unseen(r)'
      <3>1. CASE BeginSession(r) \/ StartRecorder(r) \/ Kill(r)
        BY <3>1 DEF BeginSession, StartRecorder, Kill, Goto, Inv, TypeInv, Unseen
      <3>2. CASE InTake(r)
        BY <3>2, TakingLeads, Lead DEF Inv, Unseen, RunningPoints
      <3>3. CASE Operate(r)
        BY <3>3, OperatingLeads, Lead DEF Inv, Unseen, RunningPoints
      <3> QED BY <1>4, <3>1, <3>2, <3>3
    <2> QED BY <2>1, <2>2, <2>3, SplitStays DEF Unseen
  <1> QED BY <1>1, <1>2, <1>3, <1>4 DEF Cli, Create

\* The check of the command line keeps a subject in one split, for any number of recordings
\* of any splits, as long as no two of them are between the check and their metadata.
THEOREM SplitsHold == WebSpec => []SplitsHoldWithoutRaces
  <1>1. WebInit => SplitInv
    BY DEF WebInit, InitWith, SplitInv, OneSplitPerSubject, Unseen
  <1>2. Inv /\ SplitInv /\ [WebNext]_<<vars, webVars>> => SplitInv'
    <2> SUFFICES ASSUME Inv, SplitInv, [WebNext]_<<vars, webVars>> PROVE SplitInv'
      OBVIOUS
    <2>1. CASE KillServer
      BY <2>1, SplitStays DEF KillServer, processVars, diskVars, Unseen, Inv, TypeInv
    <2>2. ASSUME NEW r \in Recordings, Handlers(r) PROVE SplitInv'
      <3>1. kind[r] = "web"
        BY <2>2 DEF Handlers, CaptureStart, Inferred, Construct, Act, Complete, Web
      <3>2. UNCHANGED kind
        BY <2>2, MakingLeads, TakingLeads, OperatingLeads
           DEF Inv, Handlers, CaptureStart, Inferred, Construct, Act, Complete, Resolve, Rest, processVars
      <3> QED BY <3>1, <3>2 DEF SplitInv, AllCli
    <2>3. ASSUME NEW r \in Recordings, kind[r] = "cli", Cli(r), UNCHANGED webVars PROVE SplitInv'
      BY <2>3, SplitHolds
    <2>4. CASE Read /\ UNCHANGED webVars
      BY <2>4, SplitStays
         DEF Read, ListSessions, ReadSession, ReadTake, NextSession, NoSession, Untouched,
             processVars, ownVars, diskVars, Unseen
    <2>5. CASE UNCHANGED <<vars, webVars>>
      BY <2>5, SplitStays DEF vars, processVars, ownVars, diskVars, Unseen
    <2> QED BY <2>1, <2>2, <2>3, <2>4, <2>5 DEF WebNext
  <1>3. SplitInv => SplitsHoldWithoutRaces
    BY DEF SplitInv, AllCli, SplitsHoldWithoutRaces
  <1> QED BY <1>1, <1>2, <1>3, CorpusInvariant, PTL DEF WebSpec

-----------------------------------------------------------------------------
(* The history of a session *)

\* What OneHistoryPerSession says of one log.
History(es) ==
    \A i \in DOMAIN es :
        /\ (es[i].kind = "session_start") = (i = 1)
        /\ es[i].kind = "session_end" => i = Len(es)
        /\ es[i].kind = "take_start" =>
              /\ ~ Before(es, i, "take_start", es[i].take)
              /\ es[i].take > 1 => Before(es, i, "take_end", es[i].take - 1)
        /\ es[i].kind \in {"take_end", "take_abort", "take_mark"} => Before(es, i, "take_start", es[i].take)
        /\ es[i].kind \in {"take_end", "take_abort"} =>
              ~ Before(es, i, "take_end", es[i].take) /\ ~ Before(es, i, "take_abort", es[i].take)

Has(es, k, t) == \E j \in DOMAIN es : es[j] = [kind |-> k, take |-> t]

\* What may be added to a log.
Follows(es, e) ==
    /\ (e.kind = "session_start") = (es = <<>>)
    /\ \A i \in DOMAIN es : es[i].kind # "session_end"
    /\ e.kind = "take_start" =>
          ~ Has(es, "take_start", e.take) /\ (e.take > 1 => Has(es, "take_end", e.take - 1))
    /\ e.kind \in {"take_end", "take_abort", "take_mark"} => Has(es, "take_start", e.take)
    /\ e.kind \in {"take_end", "take_abort"} =>
          ~ Has(es, "take_end", e.take) /\ ~ Has(es, "take_abort", e.take)

LEMMA AppendFacts ==
    ASSUME NEW es \in Seq(Event), NEW e \in Event
    PROVE  /\ Append(es, e) \in Seq(Event) /\ Len(es) \in Nat /\ DOMAIN es = 1..Len(es)
           /\ DOMAIN Append(es, e) = 1..(Len(es) + 1) /\ Len(Append(es, e)) = Len(es) + 1
           /\ \A i \in 1..Len(es) : Append(es, e)[i] = es[i]
           /\ Append(es, e)[Len(es) + 1] = e
           /\ es = <<>> <=> Len(es) = 0
  BY AppendProperties, EmptySeq

LEMMA HistoryGrows ==
    ASSUME NEW es \in Seq(Event), NEW e \in Event, History(es), Follows(es, e)
    PROVE  History(Append(es, e))
  <1> DEFINE new == Append(es, e)
  <1>1. /\ Len(es) \in Nat /\ DOMAIN es = 1..Len(es) /\ DOMAIN new = 1..(Len(es) + 1) /\ Len(new) = Len(es) + 1
        /\ \A i \in 1..Len(es) : new[i] = es[i]
        /\ new[Len(es) + 1] = e /\ (es = <<>> <=> Len(es) = 0)
    BY AppendFacts
  <1> HIDE DEF new
  <1>2. \A i \in 1..Len(es) : \A k, t : Before(new, i, k, t) <=> Before(es, i, k, t)
    BY <1>1 DEF Before
  <1>3. \A k, t : Before(new, Len(es) + 1, k, t) <=> Has(es, k, t)
    BY <1>1 DEF Before, Has
  <1>4. ASSUME NEW i \in 1..Len(es)
        PROVE  /\ (new[i].kind = "session_start") = (i = 1)
               /\ new[i].kind # "session_end"
               /\ new[i].kind = "take_start" =>
                     /\ ~ Before(new, i, "take_start", new[i].take)
                     /\ new[i].take > 1 => Before(new, i, "take_end", new[i].take - 1)
               /\ new[i].kind \in {"take_end", "take_abort", "take_mark"} =>
                     Before(new, i, "take_start", new[i].take)
               /\ new[i].kind \in {"take_end", "take_abort"} =>
                     ~ Before(new, i, "take_end", new[i].take) /\ ~ Before(new, i, "take_abort", new[i].take)
    BY <1>1, <1>2, <1>4 DEF History, Follows
  <1>5. \A i \in DOMAIN new : i \in 1..Len(es) \/ (i = Len(es) + 1 /\ new[i] = e)
    BY <1>1
  <1>6. (e.kind = "session_start") = (Len(es) + 1 = 1)
    BY <1>1 DEF Follows
  <1>7. /\ e.kind = "take_start" =>
             /\ ~ Before(new, Len(es) + 1, "take_start", e.take)
             /\ e.take > 1 => Before(new, Len(es) + 1, "take_end", e.take - 1)
        /\ e.kind \in {"take_end", "take_abort", "take_mark"} => Before(new, Len(es) + 1, "take_start", e.take)
        /\ e.kind \in {"take_end", "take_abort"} =>
             ~ Before(new, Len(es) + 1, "take_end", e.take) /\ ~ Before(new, Len(es) + 1, "take_abort", e.take)
    BY <1>3 DEF Follows
  <1>8. History(new)
    BY <1>1, <1>4, <1>5, <1>6, <1>7 DEF History
  <1> QED BY <1>8 DEF new

\* What the log of a recording that still works has in it.
LogOf(r) ==
    LET es == events[name[r]] IN
    /\ (es = <<>>) = (pc[r] \in {"meta", "begin"})
    /\ \A i \in DOMAIN es :
          /\ es[i].kind # "session_end"
          /\ es[i].kind = "take_start" => es[i].take <= take[r]
          /\ es[i].kind = "take_start" /\ pc[r] \in {"take_meta", "take_event"} => es[i].take < take[r]
    /\ (\/ pc[r] \in {"take", "take_mark", "close_file", "end_event", "end_meta"}
        \/ pc[r] \in {"ready", "late_mark"} /\ take[r] > 0) =>
          Has(es, "take_start", take[r])
    /\ pc[r] \in {"take", "take_mark", "close_file", "end_event"} =>
          ~ Has(es, "take_end", take[r]) /\ ~ Has(es, "take_abort", take[r])
    /\ pc[r] \in {"take_meta", "take_event"} /\ take[r] > 1 => Has(es, "take_end", take[r] - 1)

HistInv ==
    /\ \A n \in Names : History(events[n]) /\ (n \notin dirs => events[n] = <<>>)
    /\ \A r \in Recordings : pc[r] \in Owning => LogOf(r)

\* Steps that add nothing to a log.
LEMMA Quiet ==
    ASSUME HistInv, NEW r \in Recordings, UNCHANGED events, \A n \in Names : n \in dirs => n \in dirs',
           \A p \in Recordings \ {r} : pc'[p] = pc[p] /\ (pc[p] \in Owning => name'[p] = name[p] /\ take'[p] = take[p]),
           pc'[r] \in Owning => LogOf(r)'
    PROVE  HistInv'
  <1>1. \A p \in Recordings \ {r} : pc'[p] \in Owning => LogOf(p)'
    BY DEF HistInv, LogOf
  <1> QED BY <1>1 DEF HistInv

\* Steps that add an event to r's own log.
LEMMA Added ==
    ASSUME Inv, HistInv, NEW r \in Recordings, pc[r] \in Owning, NEW e \in Event, Log(name[r], e),
           Follows(events[name[r]], e), UNCHANGED <<name, take, dirs>>,
           \A p \in Recordings \ {r} : pc'[p] = pc[p],
           pc'[r] \in Owning => LogOf(r)'
    PROVE  HistInv'
  <1>1. name[r] \in Names /\ name[r] \in dirs /\ events[name[r]] \in Seq(Event)
    BY Owned DEF Inv, TypeInv
  <1>2. /\ events'[name[r]] = Append(events[name[r]], e)
        /\ \A n \in Names \ {name[r]} : events'[n] = events[n]
    BY <1>1 DEF Log, Inv, TypeInv
  <1>3. History(events'[name[r]])
    BY <1>1, <1>2, HistoryGrows DEF HistInv
  <1>4. \A n \in Names : History(events'[n]) /\ (n \notin dirs' => events'[n] = <<>>)
    BY <1>1, <1>2, <1>3 DEF HistInv
  <1>5. ASSUME NEW p \in Recordings \ {r}, pc[p] \in Owning PROVE LogOf(p)'
    <2>1. name[p] \in Names \ {name[r]}
      BY <1>5 DEF Inv, TypeInv, OwnInv
    <2>2. events'[name'[p]] = events[name[p]] /\ pc'[p] = pc[p] /\ take'[p] = take[p] /\ LogOf(p)
      BY <1>2, <1>5, <2>1 DEF HistInv
    <2> QED BY <2>2 DEF LogOf
  <1> QED BY <1>4, <1>5 DEF HistInv

\* The log after an event.
LEMMA HasAfter ==
    ASSUME NEW es \in Seq(Event), NEW e \in Event
    PROVE  /\ Append(es, e) # <<>>
           /\ \A k, t : Has(Append(es, e), k, t) <=> Has(es, k, t) \/ e = [kind |-> k, take |-> t]
           /\ \A i \in DOMAIN Append(es, e) : Append(es, e)[i] = e \/ \E j \in DOMAIN es : Append(es, e)[i] = es[j]
  <1> DEFINE new == Append(es, e)
  <1>1. /\ new \in Seq(Event) /\ Len(es) \in Nat /\ DOMAIN es = 1..Len(es)
        /\ DOMAIN new = 1..(Len(es) + 1) /\ Len(new) = Len(es) + 1
        /\ \A i \in 1..Len(es) : new[i] = es[i]
        /\ new[Len(es) + 1] = e /\ (new = <<>> <=> Len(new) = 0)
    BY AppendFacts, EmptySeq
  <1> HIDE DEF new
  <1>2. new # <<>>
    BY <1>1
  <1>3. \A i \in DOMAIN new : i \in DOMAIN es \/ i = Len(es) + 1
    BY <1>1
  <1>4. \A k, t : Has(new, k, t) <=> Has(es, k, t) \/ e = [kind |-> k, take |-> t]
    <2>1. \A k, t : Has(new, k, t) => Has(es, k, t) \/ e = [kind |-> k, take |-> t]
      BY <1>1, <1>3 DEF Has
    <2>2. \A k, t : Has(es, k, t) => Has(new, k, t)
      BY <1>1 DEF Has
    <2>3. \A k, t : e = [kind |-> k, take |-> t] => Has(new, k, t)
      BY <1>1 DEF Has
    <2> QED BY <2>1, <2>2, <2>3
  <1>5. \A i \in DOMAIN new : new[i] = e \/ \E j \in DOMAIN es : new[i] = es[j]
    BY <1>1, <1>3
  <1> QED BY <1>2, <1>4, <1>5 DEF new

LEMMA QuietSteps ==
    ASSUME Inv, HistInv, NEW r \in Recordings,
           \/ CheckSplit(r) \/ Resolve(r) \/ PickName(r) \/ MakeDirectory(r) \/ WriteMeta(r) \/ StartRecorder(r)
           \/ OpenTake(r) \/ FirstTakeMeta(r) \/ StopTake(r) \/ CloseFile(r) \/ EndMeta(r) \/ MarkMeta(r)
           \/ StopSession(r) \/ Kill(r)
    PROVE  HistInv'
  <1>1. CASE CheckSplit(r) \/ Resolve(r) \/ Kill(r)
    <2>1. UNCHANGED <<events, dirs, name, take>> /\ pc'[r] \notin Owning /\ \A p \in Recordings \ {r} : pc'[p] = pc[p]
      BY <1>1 DEF CheckSplit, Resolve, Kill, Goto, diskVars, Owning, Making, Taking, Inv, TypeInv
    <2> QED BY <2>1, Quiet
  <1>2. CASE PickName(r)
    <2>1. UNCHANGED <<events, dirs, take>> /\ pc'[r] \notin Owning
          /\ \A p \in Recordings \ {r} : pc'[p] = pc[p] /\ name'[p] = name[p]
      BY <1>2 DEF PickName, Goto, diskVars, Owning, Making, Taking, Inv, TypeInv
    <2> QED BY <2>1, Quiet
  <1>3. CASE MakeDirectory(r)
    <2>1. /\ UNCHANGED <<events, name, take>> /\ dirs \subseteq dirs'
          /\ \A p \in Recordings \ {r} : pc'[p] = pc[p]
          /\ pc'[r] \in {"failed", "meta"} /\ (pc'[r] = "meta" => name[r] \notin dirs)
      BY <1>3 DEF MakeDirectory, Goto, Inv, TypeInv
    <2>2. pc'[r] \in Owning => LogOf(r)'
      <3>1. name[r] \in Names
        BY <1>3 DEF MakeDirectory, Inv, OwnInv
      <3>2. pc'[r] = "meta" => events'[name'[r]] = <<>>
        BY <2>1, <3>1 DEF HistInv
      <3>3. pc'[r] \in Owning => pc'[r] = "meta"
        BY <2>1 DEF Owning, Making, Taking
      <3>4. DOMAIN <<>> = {}
        OBVIOUS
      <3> QED BY <3>2, <3>3, <3>4 DEF LogOf
    <2> QED BY <2>1, <2>2, Quiet
  <1>4. CASE WriteMeta(r) \/ StartRecorder(r)
    <2>1. /\ UNCHANGED <<events, dirs, name, take>> /\ \A p \in Recordings \ {r} : pc'[p] = pc[p]
          /\ \/ pc[r] = "meta" /\ pc'[r] = "begin"
             \/ pc[r] = "start" /\ pc'[r] \in {"ready", "failed"}
      BY <1>4 DEF WriteMeta, StartRecorder, Goto, diskVars, Inv, TypeInv
    <2>2. LogOf(r) /\ take[r] = 0
      BY <2>1 DEF Inv, OwnInv, HistInv, Owning, Making
    <2>3. pc'[r] \in Owning => LogOf(r)'
      BY <2>1, <2>2 DEF LogOf, Owning, Making, Taking
    <2> QED BY <2>1, <2>3, Quiet
  <1>5. CASE OpenTake(r)
    <2>1. /\ UNCHANGED <<events, dirs, name>> /\ pc[r] = "ready" /\ pc'[r] = "take_meta"
          /\ take'[r] = take[r] + 1
          /\ \A p \in Recordings \ {r} : pc'[p] = pc[p] /\ take'[p] = take[p]
      BY <1>5 DEF OpenTake, Goto, Inv, TypeInv
    <2>2. /\ LogOf(r) /\ take[r] \in Nat /\ name[r] \in Names
          /\ take[r] > 0 => EndLogged(name[r], take[r])
      BY <2>1, Owned, CorpusAssumption DEF HistInv, Owning, OnDisk
    <2>3. events[name[r]] \in Seq(Event)
      BY <2>2 DEF Inv, TypeInv
    <2>4. \A i \in DOMAIN events[name[r]] : events[name[r]][i].take \in Nat
      <3>1. \A e \in Event : e.take \in 0..MaxTakes
        BY DEF Event
      <3>2. \A i \in DOMAIN events[name[r]] : events[name[r]][i] \in Event
        BY <2>3
      <3>3. \A n \in 0..MaxTakes : n \in Nat
        BY CorpusAssumption
      <3> QED BY <3>1, <3>2, <3>3
    <2>5. take'[r] > 1 => Has(events[name[r]], "take_end", take'[r] - 1)
      BY <2>1, <2>2 DEF EndLogged, Has
    <2>6. LogOf(r)'
      BY <2>1, <2>2, <2>4, <2>5 DEF LogOf
    <2> QED BY <2>1, <2>6, Quiet
  <1>6. CASE FirstTakeMeta(r) \/ CloseFile(r) \/ EndMeta(r) \/ MarkMeta(r) \/ StopSession(r)
    <2>1. /\ UNCHANGED <<events, dirs, name, take>> /\ \A p \in Recordings \ {r} : pc'[p] = pc[p]
          /\ \/ pc[r] = "take_meta" /\ pc'[r] = "take_event"
             \/ pc[r] = "close_file" /\ pc'[r] = "end_event"
             \/ pc[r] = "end_meta" /\ pc'[r] \in {"ready", "close"}
             \/ pc[r] = "take_mark" /\ pc'[r] = "take"
             \/ pc[r] = "late_mark" /\ pc'[r] = "ready"
             \/ pc[r] = "ready" /\ pc'[r] = "close"
      BY <1>6 DEF FirstTakeMeta, CloseFile, EndMeta, MarkMeta, StopSession, Goto, diskVars, Inv, TypeInv
    <2>2. LogOf(r)
      BY <2>1 DEF HistInv, Owning, Taking
    <2>3. LogOf(r)'
      BY <2>1, <2>2 DEF LogOf
    <2> QED BY <2>1, <2>3, Quiet
  <1>7. CASE StopTake(r)
    <2>1. /\ UNCHANGED <<events, dirs, name, take>> /\ \A p \in Recordings \ {r} : pc'[p] = pc[p]
          /\ pc[r] = "take" /\ pc'[r] = "close_file"
      BY <1>7 DEF StopTake, Goto, diskVars, Inv, TypeInv
    <2>2. LogOf(r)
      BY <2>1 DEF HistInv, Owning, Taking
    <2>3. LogOf(r)'
      BY <2>1, <2>2 DEF LogOf
    <2> QED BY <2>1, <2>3, Quiet
  <1> QED BY <1>1, <1>2, <1>3, <1>4, <1>5, <1>6, <1>7

LEMMA LogSteps ==
    ASSUME Inv, HistInv, NEW r \in Recordings,
           BeginSession(r) \/ TakeStart(r) \/ MarkTake(r) \/ EndEvent(r) \/ CloseSession(r)
    PROVE  HistInv'
  <1>1. /\ pc[r] \in Owning /\ UNCHANGED <<name, take, dirs>>
        /\ \A p \in Recordings \ {r} : pc'[p] = pc[p]
    BY DEF BeginSession, TakeStart, MarkTake, EndEvent, CloseSession, Goto, Owning, Making, Taking, Inv, TypeInv
  <1>2. PICK es \in Seq(Event) : es = events[name[r]]
    BY <1>1, Owned DEF Inv, TypeInv
  <1>3. /\ LogOf(r) /\ name[r] \in Names /\ take[r] \in 0..MaxTakes /\ MaxTakes \in Nat
        /\ History(es)
    BY <1>1, <1>2, Owned, CorpusAssumption DEF HistInv
  <1>4. ASSUME NEW e \in Event, Log(name[r], e)
        PROVE  events'[name'[r]] = Append(es, e)
    BY <1>1, <1>2, <1>3, <1>4 DEF Log, Inv, TypeInv
  <1>5. CASE BeginSession(r)
    <2>1. PICK e \in Event : e = [kind |-> "session_start", take |-> 0]
      BY Events DEF Kinds
    <2>2. pc[r] = "begin" /\ pc'[r] = "start" /\ Log(name[r], e) /\ take[r] = 0
      BY <1>5, <2>1 DEF BeginSession, Goto, Inv, TypeInv, OwnInv, Making
    <2>3. es = <<>> /\ DOMAIN <<>> = {}
      BY <1>2, <1>3, <2>2 DEF LogOf
    <2>4. Follows(es, e)
      BY <2>1, <2>3 DEF Follows
    <2>5. LogOf(r)'
      <3>1. events'[name'[r]] = Append(es, e) /\ take'[r] = 0 /\ pc'[r] = "start"
        BY <1>1, <1>4, <2>2
      <3>2. \A i \in DOMAIN Append(es, e) : Append(es, e)[i] = e
        BY <2>3, HasAfter
      <3>3. /\ Append(es, e) # <<>>
            /\ \A i \in DOMAIN Append(es, e) : Append(es, e)[i].kind = "session_start"
        BY <2>1, <3>2, HasAfter
      <3> QED BY <3>1, <3>3 DEF LogOf
    <2> QED BY <1>1, <1>2, <2>2, <2>4, <2>5, Added
  <1>6. CASE TakeStart(r)
    <2>1. PICK e \in Event : e = [kind |-> "take_start", take |-> take[r]]
      BY <1>3, Events DEF Kinds
    <2>2. pc[r] = "take_event" /\ pc'[r] = "take" /\ Log(name[r], e)
      BY <1>6, <2>1 DEF TakeStart, Goto, Inv, TypeInv
    <2>3. /\ es # <<>>
          /\ \A i \in DOMAIN es : es[i].kind # "session_end" /\ (es[i].kind = "take_start" => es[i].take < take[r])
          /\ take[r] > 1 => Has(es, "take_end", take[r] - 1)
      BY <1>2, <1>3, <2>2 DEF LogOf
    <2>4. ~ Has(es, "take_start", take[r])
      <3>1. \A n \in 0..MaxTakes : ~ (n < n)
        BY <1>3
      <3> QED BY <1>3, <2>3, <3>1 DEF Has
    <2>5. ~ Has(es, "take_end", take[r]) /\ ~ Has(es, "take_abort", take[r])
      <3>1. ASSUME NEW j \in DOMAIN es, es[j].kind \in {"take_end", "take_abort"}, es[j].take = take[r]
            PROVE  FALSE
        <4>1. Before(es, j, "take_start", take[r])
          BY <1>3, <3>1 DEF History
        <4>2. PICK i \in 1..(j - 1) : es[i] = [kind |-> "take_start", take |-> take[r]]
          BY <4>1 DEF Before
        <4>3. i \in DOMAIN es
          BY AppendFacts, <2>1, <4>2
        <4> QED BY <2>4, <4>2, <4>3 DEF Has
      <3> QED BY <3>1 DEF Has
    <2>6. Follows(es, e)
      BY <2>1, <2>3, <2>4 DEF Follows
    <2>7. LogOf(r)'
      <3>1. events'[name'[r]] = Append(es, e) /\ take'[r] = take[r] /\ pc'[r] = "take"
        BY <1>1, <1>4, <2>2
      <3>2. \A i \in DOMAIN Append(es, e) :
              /\ Append(es, e)[i].kind # "session_end"
              /\ Append(es, e)[i].kind = "take_start" => Append(es, e)[i].take <= take[r]
        <4>1. \A j \in DOMAIN es : es[j].kind = "take_start" => es[j].take <= take[r]
          BY <1>2, <1>3 DEF LogOf
        <4>2. e.kind # "session_end" /\ e.take <= take[r]
          BY <1>3, <2>1
        <4> QED BY <2>3, <4>1, <4>2, HasAfter
      <3>3. /\ Append(es, e) # <<>> /\ Has(Append(es, e), "take_start", take[r])
            /\ ~ Has(Append(es, e), "take_end", take[r]) /\ ~ Has(Append(es, e), "take_abort", take[r])
        BY <2>1, <2>5, HasAfter
      <3> QED BY <3>1, <3>2, <3>3 DEF LogOf
    <2> QED BY <1>1, <1>2, <2>2, <2>6, <2>7, Added
  <1>7. CASE MarkTake(r)
    <2>1. PICK e \in Event : e = [kind |-> "take_mark", take |-> take[r]]
      BY <1>3, Events DEF Kinds
    <2>2. /\ pc[r] \in {"ready", "take"} /\ take[r] > 0 /\ Log(name[r], e)
          /\ pc'[r] = IF pc[r] = "take" THEN "take_mark" ELSE "late_mark"
      BY <1>7, <2>1 DEF MarkTake, Goto, Inv, TypeInv
    <2>3. /\ es # <<>> /\ Has(es, "take_start", take[r])
          /\ \A i \in DOMAIN es : es[i].kind # "session_end" /\ (es[i].kind = "take_start" => es[i].take <= take[r])
          /\ pc[r] = "take" => ~ Has(es, "take_end", take[r]) /\ ~ Has(es, "take_abort", take[r])
      BY <1>2, <1>3, <2>2 DEF LogOf
    <2>4. Follows(es, e)
      BY <2>1, <2>3 DEF Follows
    <2>5. LogOf(r)'
      <3>1. /\ events'[name'[r]] = Append(es, e) /\ take'[r] = take[r]
            /\ pc'[r] = IF pc[r] = "take" THEN "take_mark" ELSE "late_mark"
        BY <1>1, <1>4, <2>2
      <3>2. \A i \in DOMAIN Append(es, e) :
              /\ Append(es, e)[i].kind # "session_end"
              /\ Append(es, e)[i].kind = "take_start" => Append(es, e)[i].take <= take[r]
        BY <2>1, <2>3, HasAfter
      <3>3. /\ Append(es, e) # <<>> /\ Has(Append(es, e), "take_start", take[r])
            /\ pc[r] = "take" =>
                 ~ Has(Append(es, e), "take_end", take[r]) /\ ~ Has(Append(es, e), "take_abort", take[r])
        BY <2>1, <2>3, HasAfter
      <3> QED BY <2>2, <3>1, <3>2, <3>3 DEF LogOf
    <2> QED BY <1>1, <1>2, <2>2, <2>4, <2>5, Added
  <1>8. CASE EndEvent(r)
    <2>1. PICK k \in {"take_end", "take_abort"} : k = IF ending[r].last THEN "take_abort" ELSE "take_end"
      OBVIOUS
    <2>2. PICK e \in Event : e = [kind |-> k, take |-> take[r]]
      BY <1>3, Events DEF Kinds
    <2>3. pc[r] = "end_event" /\ pc'[r] = "end_meta" /\ Log(name[r], e)
      BY <1>8, <2>1, <2>2 DEF EndEvent, Goto, Inv, TypeInv
    <2>4. /\ es # <<>> /\ Has(es, "take_start", take[r])
          /\ \A i \in DOMAIN es : es[i].kind # "session_end" /\ (es[i].kind = "take_start" => es[i].take <= take[r])
          /\ ~ Has(es, "take_end", take[r]) /\ ~ Has(es, "take_abort", take[r])
      BY <1>2, <1>3, <2>3 DEF LogOf
    <2>5. Follows(es, e)
      BY <2>2, <2>4 DEF Follows
    <2>6. LogOf(r)'
      <3>1. events'[name'[r]] = Append(es, e) /\ take'[r] = take[r] /\ pc'[r] = "end_meta"
        BY <1>1, <1>4, <2>3
      <3>2. \A i \in DOMAIN Append(es, e) :
              /\ Append(es, e)[i].kind # "session_end"
              /\ Append(es, e)[i].kind = "take_start" => Append(es, e)[i].take <= take[r]
        BY <2>2, <2>4, HasAfter
      <3>3. Append(es, e) # <<>> /\ Has(Append(es, e), "take_start", take[r])
        BY <2>4, HasAfter
      <3> QED BY <3>1, <3>2, <3>3 DEF LogOf
    <2> QED BY <1>1, <1>2, <2>3, <2>5, <2>6, Added
  <1>9. CASE CloseSession(r)
    <2>1. PICK e \in Event : e = [kind |-> "session_end", take |-> 0]
      BY Events DEF Kinds
    <2>2. pc[r] = "close" /\ pc'[r] = "closed" /\ Log(name[r], e)
      BY <1>9, <2>1 DEF CloseSession, Goto, Inv, TypeInv
    <2>3. es # <<>> /\ \A i \in DOMAIN es : es[i].kind # "session_end"
      BY <1>2, <1>3, <2>2 DEF LogOf
    <2>4. Follows(es, e)
      BY <2>1, <2>3 DEF Follows
    <2>5. pc'[r] \notin Owning
      BY <2>2 DEF Owning, Making, Taking
    <2> QED BY <1>1, <1>2, <2>2, <2>4, <2>5, Added
  <1> QED BY <1>5, <1>6, <1>7, <1>8, <1>9

\* A session directory has one history, whatever recordings were started in one second.
THEOREM OneHistory == WebSpec => []OneHistoryPerSession
  <1>1. WebInit => HistInv
    <2> SUFFICES ASSUME WebInit PROVE HistInv
      OBVIOUS
    <2>1. \A n \in Names : events[n] = <<>>
      BY DEF WebInit, InitWith
    <2>2. \A r \in Recordings : pc[r] \notin Owning
      BY DEF WebInit, InitWith, Owning, Making, Taking
    <2>3. History(<<>>)
      BY DEF History
    <2> QED BY <2>1, <2>2, <2>3 DEF HistInv
  <1>2. Inv /\ HistInv /\ [WebNext]_<<vars, webVars>> => HistInv'
    <2> SUFFICES ASSUME Inv, HistInv, [WebNext]_<<vars, webVars>> PROVE HistInv'
      OBVIOUS
    <2>1. ASSUME NEW r \in Recordings,
                 CheckSplit(r) \/ Resolve(r) \/ Create(r) \/ InTake(r) \/ Operate(r) \/ Kill(r)
          PROVE  HistInv'
      BY <2>1, QuietSteps, LogSteps DEF Create, InTake, Operate
    <2>2. ASSUME NEW r \in Recordings, CaptureStart(r) PROVE HistInv'
      <3>1. UNCHANGED <<events, dirs, name, take>> /\ pc'[r] \notin Owning /\ \A p \in Recordings \ {r} : pc'[p] = pc[p]
        BY <2>2 DEF CaptureStart, Goto, diskVars, Owning, Making, Taking, Inv, TypeInv
      <3> QED BY <3>1, Quiet
    <2>3. ASSUME NEW r \in Recordings, Handlers(r) PROVE HistInv'
      BY <2>1, <2>2, <2>3 DEF Handlers, Inferred, Construct, Act, Complete
    <2>4. CASE KillServer
      <3>1. /\ UNCHANGED <<events, dirs, name, take>>
            /\ \A r \in Recordings : pc'[r] = pc[r] \/ pc'[r] \notin Owning
        BY <2>4 DEF KillServer, diskVars, Owning, Making, Taking
      <3>2. \A r \in Recordings : pc'[r] \in Owning => LogOf(r)'
        BY <3>1 DEF HistInv, LogOf
      <3> QED BY <3>1, <3>2 DEF HistInv
    <2>5. CASE Read \/ UNCHANGED <<vars, webVars>>
      <3>1. UNCHANGED <<events, dirs, name, take, pc>>
        BY <2>5 DEF Read, ListSessions, ReadSession, ReadTake, NextSession, NoSession, Untouched,
                    vars, ownVars, diskVars
      <3>2. \A r \in Recordings : pc'[r] \in Owning => LogOf(r)'
        BY <3>1 DEF HistInv, LogOf
      <3> QED BY <3>1, <3>2 DEF HistInv
    <2> QED BY <2>1, <2>3, <2>4, <2>5 DEF WebNext, Cli
  <1>3. HistInv => OneHistoryPerSession
    BY DEF HistInv, History, OneHistoryPerSession
  <1> QED BY <1>1, <1>2, <1>3, CorpusInvariant, PTL DEF WebSpec
=============================================================================
