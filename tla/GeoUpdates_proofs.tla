------------------------- MODULE GeoUpdates_proofs -------------------------
(***************************************************************************)
(* No rule-set is downloaded by two threads at once, a tunnel only routes  *)
(* by files that came from the address its plan has, and once all is       *)
(* through the daemon knows what the cache holds: for every routing.json,  *)
(* every schedule and every number of events.                              *)
(*                                                                         *)
(* A file is marked from the start of its download to the handler of the   *)
(* thread's message, so the keys of the threads and those of the messages  *)
(* under way never overlap.  That keeps a second thread away from a record *)
(* between the step that writes its address (Adopt) and the one that       *)
(* replaces its file (Fetch), and so record and file name the same source. *)
(* Between a worker's look at the cache and the start of sing-box the file *)
(* may go and come again, but the record keeps its address unless a thread *)
(* downloads from one that routing.json no longer has (UsedInv).           *)
(*                                                                         *)
(* The last message that brings the state of a file says what the cache    *)
(* holds, or a thread is still to tell; of a schedule only messages of the *)
(* current epoch count (Known).  While a thread of an older epoch          *)
(* downloads, nobody else changes the schedule, so that what a reader of   *)
(* the current one has read stays true.                                    *)
(***************************************************************************)
EXTENDS GeoUpdates, FiniteSetTheorems, TLAPS

\* routing.json names finitely many rule-sets, each file name with one address.
ConstantsOK ==
    /\ NoUrl \notin Urls
    /\ \A r \in Routings :
          /\ \A rs \in Selectable(r) : rs.key \in Keys /\ rs.url \in Urls
          /\ \A rs, other \in Selectable(r) : rs.key = other.key => rs = other
          /\ IsFiniteSet(Selectable(r))

\* Rule-sets that one version of routing.json declares.
Declared(sets) == \E r \in Routings : sets \subseteq Selectable(r)

Phases == {"load", "adopt", "fetch", "record", "send"}

\* A thread downloads declared rule-sets that are marked, and reports on them.
JobOK(j, marked) ==
    /\ DOMAIN j = {"sets", "todo", "phase", "saved", "onlyMissing", "epoch", "reports", "write"}
    /\ j.phase \in Phases
    /\ Declared(j.sets)
    /\ KeysOf(j.sets) \subseteq marked
    /\ j.todo \in Seq(j.sets)
    /\ j.phase /= "send" => j.todo /= <<>>
    /\ DOMAIN j.reports \subseteq KeysOf(j.sets)

\* The keys that threads download.
Busy == UNION {KeysOf(j.sets) : j \in jobs}

\* Messages report on keys that are marked and that no thread downloads, and
\* no two of them on the same one.
Pending(ms, keys) ==
    /\ \E S : ms \in Seq(S)
    /\ \A i \in 1..Len(ms) :
          /\ ms[i].type = "Updated" => DOMAIN ms[i].reports \subseteq keys
          /\ ms[i].type = "Connected" => Declared(ms[i].skipped)
    /\ \A i, l \in 1..Len(ms) :
          (i /= l /\ ms[i].type = "Updated" /\ ms[l].type = "Updated") =>
              DOMAIN ms[i].reports \cap DOMAIN ms[l].reports = {}

DownloadInv ==
    /\ \A j \in jobs : JobOK(j, Marked)
    /\ OneDownloadPerFile
    /\ Pending(msgs, Marked \ Busy)

MetaOK(m) ==
    /\ DOMAIN m = {"epoch", "records"}
    /\ DOMAIN m.records = Keys
    /\ \A k \in Keys : DOMAIN m.records[k] = {"url", "etag", "checked", "retry", "next"}

\* A file that is used is of the address its record has,
Sourced(m, f) ==
    \A k \in Keys : f[k].usable => f[k].url = m.records[k].url /\ m.records[k].url /= NoUrl

\* and a thread that is about to fetch has written its address there.
Adopting(m, js) ==
    \A j \in js : j.phase = "fetch" => m.records[Head(j.todo).key].url = Head(j.todo).url

CacheInv ==
    /\ MetaOK(meta)
    /\ DOMAIN files = Keys
    /\ count \in [Events -> Nat]
    /\ count.disk = 0 => Sourced(meta, files) /\ Adopting(meta, jobs)

\* The plan of a worker is one of routing.json, of its version then.
PlanOK(plan) == \E r \in Routings, m \in Modes : plan = r[m]

LinkInv ==
    /\ routing \in Routings /\ mode \in Modes
    /\ DOMAIN link = {"state", "fallback", "worker", "tunnel"}
    /\ DOMAIN link.worker = {"on", "plan", "read", "used", "edited"}
    /\ link.worker.on => PlanOK(link.worker.plan)

Inv == DownloadInv /\ CacheInv /\ LinkInv

-----------------------------------------------------------------------------
(* Sequences and counters.                                                 *)

\* A finite set has a sequence of its elements.
LEMMA SequenceOfSet ==
    ASSUME NEW T, IsFiniteSet(T)
    PROVE  SetToSeq(T) \in Seq(T) /\ (T /= {} => SetToSeq(T) /= <<>>)
<1>1. Cardinality(T) \in Nat /\ ExistsBijection(1..Cardinality(T), T)
  BY FS_CardinalityType
<1>2. PICK f \in [1..Cardinality(T) -> T] : IsInjective(f)
  BY <1>1 DEF ExistsBijection, Bijection, Injection, IsInjective
<1>3. SetToSeq(T) \in [1..Cardinality(T) -> T]
  BY <1>2 DEF SetToSeq
<1>4. T /= {} => Cardinality(T) /= 0
  BY FS_EmptySet
<1>5. ASSUME T /= {} PROVE SetToSeq(T) /= <<>>
  BY <1>1, <1>3, <1>4, <1>5
<1> QED
  BY <1>1, <1>3, <1>5

\* Counting events only ever adds to the counters, and one that is there is
\* counted.
LEMMA CountsGrow ==
    ASSUME count \in [Events -> Nat], NEW events \in Seq(Events), Counts(events)
    PROVE  /\ count' \in [Events -> Nat]
           /\ \A e \in Events : count[e] <= count'[e]
           /\ \A i \in DOMAIN events : count'[events[i]] > 0
<1> DEFINE Those(e) == {i \in DOMAIN events : events[i] = e}
<1>1. ASSUME NEW e \in Events
      PROVE  /\ Cardinality(Those(e)) \in Nat
             /\ Those(e) /= {} => Cardinality(Those(e)) > 0
  <2>i. 1 \in Int /\ Len(events) \in Int /\ Those(e) \subseteq 1..Len(events)
    OBVIOUS
  <2>1. IsFiniteSet(1..Len(events))
    BY <2>i, FS_Interval
  <2>2. IsFiniteSet(Those(e))
    BY <2>1, <2>i, FS_Subset
  <2> HIDE DEF Those
  <2>3. Cardinality(Those(e)) \in Nat
    BY <2>2, FS_CardinalityType
  <2>4. Cardinality(Those(e)) = 0 <=> Those(e) = {}
    BY <2>2, FS_EmptySet
  <2> QED
    BY <2>3, <2>4
<1>2. count' = [e \in Events |-> count[e] + Cardinality(Those(e))]
  BY DEF Counts
<1>3. \A i \in DOMAIN events : events[i] \in Events /\ i \in Those(events[i])
  OBVIOUS
<1> HIDE DEF Those
<1>4. \A e \in Events : count'[e] = count[e] + Cardinality(Those(e)) /\ count[e] \in Nat
  BY <1>2
<1>5. count' \in [Events -> Nat]
  BY <1>1, <1>2
<1> QED
  BY <1>1, <1>3, <1>4, <1>5

-----------------------------------------------------------------------------
(* Messages.                                                               *)

LEMMA PendingSuperseded ==
    ASSUME NEW ms, NEW keys, Pending(ms, keys)
    PROVE  Pending(Superseded(ms), keys)
<1>1. PICK S : ms \in Seq(S)
  BY DEF Pending
<1> DEFINE T == S \cup {[type |-> "Superseded"]}
<1> DEFINE new == Superseded(ms)
<1>2. new = [i \in 1..Len(ms) |-> IF ms[i].type = "Connected" THEN [type |-> "Superseded"] ELSE ms[i]]
  BY <1>1 DEF Superseded
<1>3. new \in Seq(T) /\ Len(new) = Len(ms)
  BY <1>1, <1>2
<1>4. \A i \in 1..Len(ms) : new[i] = ms[i] \/ new[i] = [type |-> "Superseded"]
  BY <1>2
<1>5. \A i \in 1..Len(ms) : new[i].type \in {"Updated", "Connected"} => new[i] = ms[i]
  BY <1>4
<1> HIDE DEF new, T
<1>6. \E U : new \in Seq(U)
  BY <1>3
<1> QED
  BY <1>3, <1>5, <1>6 DEF Pending, new

LEMMA PendingWider ==
    ASSUME NEW ms, NEW keys, NEW more, Pending(ms, keys), keys \subseteq more
    PROVE  Pending(ms, more)
BY DEF Pending

\* The keys of the message that is taken are not among those of the others.
LEMMA PendingTail ==
    ASSUME NEW ms, NEW keys, Pending(ms, keys), ms /= <<>>
    PROVE  /\ Pending(Tail(ms), keys)
           /\ Head(ms).type = "Updated" => Pending(Tail(ms), keys \ DOMAIN Head(ms).reports)
           /\ Head(ms).type = "Updated" => DOMAIN Head(ms).reports \subseteq keys
           /\ Head(ms).type = "Connected" => Declared(Head(ms).skipped)
<1>1. PICK S : ms \in Seq(S)
  BY DEF Pending
<1>2. /\ Len(ms) \in Nat \ {0} /\ Head(ms) = ms[1] /\ 1 \in 1..Len(ms)
      /\ Tail(ms) \in Seq(S) /\ Len(Tail(ms)) = Len(ms) - 1
      /\ \A i \in 1..Len(Tail(ms)) : Tail(ms)[i] = ms[i + 1] /\ i + 1 \in 1..Len(ms) /\ i + 1 /= 1
  BY <1>1
<1>3. \E U : Tail(ms) \in Seq(U)
  BY <1>2
<1>4. \A i, l \in 1..Len(Tail(ms)) : i /= l => i + 1 /= l + 1
  BY <1>2
<1> DEFINE rest == Tail(ms)
<1>5. /\ \A i \in 1..Len(rest) :
            /\ rest[i].type = "Updated" => DOMAIN rest[i].reports \subseteq keys
            /\ rest[i].type = "Connected" => Declared(rest[i].skipped)
      /\ \A i, l \in 1..Len(rest) :
            (i /= l /\ rest[i].type = "Updated" /\ rest[l].type = "Updated") =>
                DOMAIN rest[i].reports \cap DOMAIN rest[l].reports = {}
      /\ Head(ms).type = "Updated" => \A i \in 1..Len(rest) :
            rest[i].type = "Updated" => DOMAIN rest[i].reports \subseteq keys \ DOMAIN Head(ms).reports
  BY <1>2, <1>4 DEF Pending
<1>6. /\ Head(ms).type = "Updated" => DOMAIN Head(ms).reports \subseteq keys
      /\ Head(ms).type = "Connected" => Declared(Head(ms).skipped)
  BY <1>2 DEF Pending
<1> HIDE DEF rest
<1>7. Pending(rest, keys)
  BY <1>3, <1>5 DEF Pending, rest
<1>8. Head(ms).type = "Updated" => Pending(rest, keys \ DOMAIN Head(ms).reports)
  BY <1>3, <1>5 DEF Pending, rest
<1> QED
  BY <1>6, <1>7, <1>8 DEF rest

LEMMA PendingAppend ==
    ASSUME NEW ms, NEW keys, NEW more, NEW m, Pending(ms, keys), keys \subseteq more,
           m.type = "Updated" => DOMAIN m.reports \subseteq more \ keys,
           m.type = "Connected" => Declared(m.skipped)
    PROVE  Pending(Append(ms, m), more)
<1>1. PICK S : ms \in Seq(S)
  BY DEF Pending
<1> DEFINE new == Append(ms, m)
<1>2. /\ new \in Seq(S \cup {m}) /\ Len(ms) \in Nat /\ Len(new) = Len(ms) + 1
      /\ new[Len(new)] = m
      /\ \A i \in 1..Len(ms) : new[i] = ms[i]
      /\ \A i \in 1..Len(new) : i \in 1..Len(ms) \/ i = Len(new)
  BY <1>1
<1> HIDE DEF new
<1>3. \E U : new \in Seq(U)
  BY <1>2
<1>4. \A i \in 1..Len(new) :
          /\ new[i].type = "Updated" => DOMAIN new[i].reports \subseteq more
          /\ new[i].type = "Connected" => Declared(new[i].skipped)
  BY <1>2 DEF Pending
<1>5. ASSUME NEW i \in 1..Len(new), NEW l \in 1..Len(new), i /= l,
             new[i].type = "Updated", new[l].type = "Updated"
      PROVE  DOMAIN new[i].reports \cap DOMAIN new[l].reports = {}
  BY <1>2, <1>5 DEF Pending
<1> QED
  BY <1>3, <1>4, <1>5 DEF Pending, new

-----------------------------------------------------------------------------
(* Downloads: what starts, goes on and ends.                               *)

LEMMA SmallerDeclared ==
    ASSUME NEW sets, NEW part \in SUBSET sets, Declared(sets) PROVE Declared(part)
BY DEF Declared

LEMMA FetchesAreEvents ==
    ASSUME ConstantsOK, NEW sets, Declared(sets) PROVE FetchEvents(sets) \in Seq(Events)
<1> DEFINE start == Startable(sets)
<1>1. IsFiniteSet(start)
  BY FS_Subset DEF Startable, Declared, ConstantsOK
<1>2. Cardinality(start) \in Nat
  BY <1>1, FS_CardinalityType
<1> HIDE DEF start
<1>3. FetchEvents(sets) = [i \in 1..Cardinality(start) |-> "fetch"]
  BY DEF FetchEvents, start
<1> QED
  BY <1>2, <1>3 DEF Events

\* A thread that starts has keys that no other thread and no message has.
LEMMA StartKeeps ==
    ASSUME ConstantsOK, DownloadInv, NEW sets, NEW trigger, NEW onlyMissing,
           Declared(sets), StartDownload(sets, trigger, onlyMissing)
    PROVE  /\ \A j \in jobs' : JobOK(j, Marked')
           /\ OneDownloadPerFile'
           /\ Marked \ Busy \subseteq Marked' \ Busy'
           /\ \A j \in jobs' : j \in jobs \/ j.phase = "load"
           /\ FetchEvents(sets) \in Seq(Events)
<1> DEFINE start == Startable(sets)
<1> DEFINE job == [sets |-> start, todo |-> SetToSeq(start), phase |-> "load", saved |-> meta,
                   onlyMissing |-> onlyMissing, epoch |-> epoch, reports |-> <<>>,
                   write |-> [on |-> trigger = "Automatic" \/ (onlyMissing /\ auto /= "Off"),
                              epoch |-> epoch, days |-> IntervalDays(auto)]]
<1>1. /\ marks' = Put(marks, [k \in KeysOf(start) |-> trigger])
      /\ jobs' = IF start = {} THEN jobs ELSE jobs \cup {job}
  BY DEF StartDownload
<1>2. Marked' = Marked \cup KeysOf(start)
  BY <1>1 DEF Marked, Put
<1>3. Declared(start) /\ KeysOf(start) \cap Marked = {}
  BY SmallerDeclared DEF Startable, KeysOf, Declared
<1>4. IsFiniteSet(start)
  BY <1>3, FS_Subset DEF Declared, ConstantsOK
<1>5. SetToSeq(start) \in Seq(start) /\ (start /= {} => SetToSeq(start) /= <<>>)
  BY <1>4, SequenceOfSet
<1>6. FetchEvents(sets) \in Seq(Events)
  BY FetchesAreEvents
<1> HIDE DEF start
<1>7. /\ DOMAIN job = {"sets", "todo", "phase", "saved", "onlyMissing", "epoch", "reports", "write"}
      /\ job.sets = start /\ job.todo = SetToSeq(start) /\ job.phase = "load"
      /\ DOMAIN job.reports = {}
  OBVIOUS
<1> HIDE DEF job
<1>8. start /= {} => JobOK(job, Marked')
  BY <1>2, <1>3, <1>5, <1>7 DEF JobOK, Phases
<1>9. \A j \in jobs : JobOK(j, Marked')
  BY <1>2 DEF DownloadInv, JobOK
<1>10. \A j \in jobs : KeysOf(j.sets) \cap KeysOf(job.sets) = {}
  BY <1>3, <1>7 DEF DownloadInv, JobOK
<1>11. OneDownloadPerFile'
  BY <1>1, <1>10 DEF DownloadInv, OneDownloadPerFile
<1>12. Busy' \subseteq Busy \cup KeysOf(start)
  BY <1>1, <1>7 DEF Busy
<1>13. Marked \ Busy \subseteq Marked' \ Busy'
  BY <1>2, <1>3, <1>12
<1> QED
  BY <1>1, <1>6, <1>7, <1>8, <1>9, <1>11, <1>13

\* A thread that goes on keeps its keys.
LEMMA ReplaceKeeps ==
    ASSUME DownloadInv, NEW j \in jobs, NEW new, Replace(j, new), new.sets = j.sets,
           JobOK(new, Marked), UNCHANGED <<marks, msgs>>
    PROVE  DownloadInv'
<1>1. jobs' = (jobs \ {j}) \cup {new}
  BY DEF Replace
<1>2. \A i \in jobs' : JobOK(i, Marked')
  BY <1>1 DEF DownloadInv, Marked
<1>3. OneDownloadPerFile'
  BY <1>1 DEF DownloadInv, OneDownloadPerFile
<1>4. Busy' = Busy
  BY <1>1 DEF Busy
<1>5. Pending(msgs, Marked \ Busy)' 
  BY <1>4 DEF DownloadInv, Marked
<1> QED
  BY <1>2, <1>3, <1>5 DEF DownloadInv

-----------------------------------------------------------------------------
(* The cache.                                                              *)

SameSources(m, new) == MetaOK(new) /\ \A k \in Keys : new.records[k].url = m.records[k].url

\* Only adopt_source changes the address of a record.
LEMMA RecordedKeeps ==
    ASSUME NEW m, MetaOK(m), NEW rs, rs.key \in Keys, NEW outcome, NEW write, NEW time
    PROVE  SameSources(m, [m EXCEPT !.records[rs.key] = Recorded(m, rs, outcome, write, time)])
<1> DEFINE record == Recorded(m, rs, outcome, write, time)
<1>1. DOMAIN record = {"url", "etag", "checked", "retry", "next"} /\ record.url = m.records[rs.key].url
  BY DEF Recorded, MetaOK
<1> HIDE DEF record
<1>2. SameSources(m, [m EXCEPT !.records[rs.key] = record])
  BY <1>1 DEF SameSources, MetaOK
<1> QED
  BY <1>2 DEF record

LEMMA ResetKeeps ==
    ASSUME NEW m, MetaOK(m), NEW sets, NEW enabled, NEW time
    PROVE  SameSources(m, ResetSchedules(m, sets, enabled, time))
BY DEF ResetSchedules, WithRecords, SameSources, MetaOK

LEMMA EnsureKeeps ==
    ASSUME NEW m, MetaOK(m), NEW sets, NEW enabled, NEW time
    PROVE  SameSources(m, EnsureSchedules(m, sets, enabled, time))
BY DEF EnsureSchedules, WithRecords, SameSources, MetaOK

\* The keys of a thread's rule-sets are names of files.
LEMMA JobKeys ==
    ASSUME ConstantsOK, NEW j, NEW marked, JobOK(j, marked), j.phase /= "send"
    PROVE  /\ Head(j.todo) \in j.sets
           /\ Head(j.todo).key \in Keys /\ Head(j.todo).url \in Urls
           /\ Head(j.todo).key \in KeysOf(j.sets)
<1>1. Head(j.todo) \in j.sets
  BY DEF JobOK
<1> QED
  BY <1>1 DEF JobOK, ConstantsOK, Declared, KeysOf

\* A step that changes no address and no file, and lets no thread fetch.
LEMMA CacheKept ==
    ASSUME ConstantsOK, CacheInv, \A j \in jobs : JobOK(j, Marked),
           SameSources(meta, meta'), UNCHANGED files,
           count' \in [Events -> Nat], count.disk <= count'.disk,
           \A j \in jobs' : j \in jobs \/ j.phase /= "fetch"
    PROVE  CacheInv'
<1>1. count.disk \in Nat /\ count'.disk \in Nat
  BY DEF CacheInv, Events
<1>2. MetaOK(meta') /\ DOMAIN files' = Keys
  BY DEF SameSources, CacheInv
<1>3. ASSUME count'.disk = 0 PROVE Sourced(meta', files') /\ Adopting(meta', jobs')
  <2>1. Sourced(meta, files) /\ Adopting(meta, jobs)
    BY <1>1, <1>3 DEF CacheInv
  <2>2. Sourced(meta', files')
    BY <2>1 DEF Sourced, SameSources
  <2>3. ASSUME NEW j \in jobs', j.phase = "fetch"
        PROVE  meta'.records[Head(j.todo).key].url = Head(j.todo).url
    <3>1. j \in jobs /\ JobOK(j, Marked)
      BY <2>3
    <3>2. Head(j.todo).key \in Keys
      BY <3>1, <2>3, JobKeys
    <3> QED
      BY <2>1, <2>3, <3>1, <3>2 DEF Adopting, SameSources
  <2> QED
    BY <2>2, <2>3 DEF Adopting
<1> QED
  BY <1>2, <1>3 DEF CacheInv

LEMMA SameIsSame == ASSUME NEW m, MetaOK(m) PROVE SameSources(m, m)
BY DEF SameSources

-----------------------------------------------------------------------------
(* The connection.                                                         *)

LinkFields == {"state", "fallback", "worker", "tunnel"}

WorkerFields == {"on", "plan", "read", "used", "edited"}

CountStep == count' \in [Events -> Nat] /\ count.disk <= count'.disk

LEMMA QueuedLink ==
    ASSUME NEW l, DOMAIN l = LinkFields
    PROVE  /\ DOMAIN Queued(l) = LinkFields
           /\ DOMAIN Queued(l).worker = WorkerFields
           /\ ~Queued(l).worker.on
           /\ Queued(l).tunnel = l.tunnel
BY DEF Queued, LinkFields, WorkerFields, NoWorker

\* Of a worker, an edit of routing.json only changes that mark.
LEMMA EditedLink ==
    ASSUME NEW l, DOMAIN l = LinkFields, DOMAIN l.worker = WorkerFields
    PROVE  /\ DOMAIN Edited(l) = LinkFields
           /\ DOMAIN Edited(l).worker = WorkerFields
           /\ Edited(l).state = l.state
           /\ Edited(l).fallback = l.fallback
           /\ Edited(l).tunnel = l.tunnel
           /\ Edited(l).worker.on = l.worker.on
           /\ Edited(l).worker.plan = l.worker.plan
           /\ Edited(l).worker.edited = l.worker.on
BY DEF Edited, LinkFields, WorkerFields

LEMMA IdleIsDown ==
    /\ DOMAIN IdleLink = LinkFields /\ DOMAIN IdleLink.worker = WorkerFields
    /\ ~IdleLink.worker.on /\ ~IdleLink.tunnel.up
BY DEF IdleLink, LinkFields, WorkerFields, NoWorker, NoTunnel

-----------------------------------------------------------------------------
(* Kinds of steps.                                                         *)

LEMMA Counted ==
    ASSUME CacheInv, NEW events \in Seq(Events), Counts(events) PROVE CountStep
<1>1. count \in [Events -> Nat]
  BY DEF CacheInv
<1>2. count' \in [Events -> Nat] /\ \A e \in Events : count[e] <= count'[e]
  BY <1>1, CountsGrow
<1> QED
  BY <1>2 DEF CountStep, Events

LEMMA NotCounted == ASSUME CacheInv, UNCHANGED count PROVE CountStep
BY DEF CacheInv, CountStep, Events

LEMMA Disks == ASSUME CacheInv, CountStep PROVE count.disk \in Nat /\ count'.disk \in Nat
BY DEF CacheInv, CountStep, Events

\* Neither threads nor marks change.
LEMMA PlainStep ==
    ASSUME ConstantsOK, Inv, LinkInv', CountStep, UNCHANGED <<jobs, marks, files>>,
           Pending(msgs', Marked \ Busy), SameSources(meta, meta')
    PROVE  Inv'
<1>1. DownloadInv'
  <2>1. Marked' = Marked /\ Busy' = Busy /\ jobs' = jobs
    BY DEF Marked, Busy
  <2>2. Pending(msgs', Marked' \ Busy')
    BY <2>1
  <2>3. \A j \in jobs' : JobOK(j, Marked')
    BY <2>1 DEF Inv, DownloadInv
  <2> QED
    BY <2>1, <2>2, <2>3 DEF Inv, DownloadInv, OneDownloadPerFile
<1>2. CacheInv'
  BY CacheKept DEF Inv, DownloadInv, CountStep
<1> QED
  BY <1>1, <1>2 DEF Inv

\* A download starts, or would have if there were anything to start.
LEMMA StartStep ==
    ASSUME ConstantsOK, Inv, LinkInv', NEW sets, NEW trigger, NEW onlyMissing,
           Declared(sets), StartDownload(sets, trigger, onlyMissing),
           \/ Counts(FetchEvents(sets))
           \/ \E e \in Events : Counts(<<e>> \o FetchEvents(sets)),
           UNCHANGED <<meta, files>>, Pending(msgs', Marked \ Busy)
    PROVE  Inv'
<1>1. /\ \A j \in jobs' : JobOK(j, Marked')
      /\ OneDownloadPerFile'
      /\ Marked \ Busy \subseteq Marked' \ Busy'
      /\ \A j \in jobs' : j \in jobs \/ j.phase = "load"
      /\ FetchEvents(sets) \in Seq(Events)
  BY StartKeeps DEF Inv
<1>2. CountStep
  <2>1. \A e \in Events : <<e>> \o FetchEvents(sets) \in Seq(Events)
    BY <1>1
  <2> QED
    BY <1>1, <2>1, Counted DEF Inv
<1>3. DownloadInv'
  <2>1. Pending(msgs', Marked' \ Busy')
    BY <1>1, PendingWider
  <2> QED
    BY <1>1, <2>1 DEF DownloadInv
<1>4. CacheInv'
  <2>1. SameSources(meta, meta')
    BY SameIsSame DEF Inv, CacheInv
  <2>2. \A j \in jobs' : j \in jobs \/ j.phase /= "fetch"
    BY <1>1
  <2> QED
    BY <1>2, <2>1, <2>2, CacheKept DEF Inv, DownloadInv, CountStep
<1> QED
  BY <1>3, <1>4 DEF Inv

\* A link that stays, and one that is queued.
LEMMA LinkStays ==
    ASSUME Inv, UNCHANGED link, routing' \in Routings, mode' \in Modes PROVE LinkInv'
BY DEF Inv, LinkInv

LEMMA LinkQueued ==
    ASSUME Inv, link' = Queued(link), routing' \in Routings, mode' \in Modes PROVE LinkInv'
<1>1. DOMAIN link = LinkFields
  BY DEF Inv, LinkInv, LinkFields
<1> QED
  BY <1>1, QueuedLink DEF LinkInv, LinkFields, WorkerFields

LEMMA LinkEdited ==
    ASSUME Inv, link' = Edited(link) \/ link' = Edited(Queued(link)), routing' \in Routings,
           mode' \in Modes
    PROVE  LinkInv'
<1>1. DOMAIN link = LinkFields /\ DOMAIN link.worker = WorkerFields
  BY DEF Inv, LinkInv, LinkFields, WorkerFields
<1>2. CASE link' = Edited(link)
  BY <1>1, <1>2, EditedLink DEF Inv, LinkInv, LinkFields, WorkerFields
<1>3. CASE link' = Edited(Queued(link))
  BY <1>1, <1>3, QueuedLink, EditedLink DEF LinkInv, LinkFields, WorkerFields
<1> QED
  BY <1>2, <1>3

LEMMA LinkIdles ==
    ASSUME Inv, link' = IdleLink, routing' \in Routings, mode' \in Modes PROVE LinkInv'
BY IdleIsDown DEF LinkInv, LinkFields, WorkerFields

\* What the invariant says of the selected mode.
LEMMA PlanIsDeclared ==
    ASSUME Inv
    PROVE  /\ routing \in Routings /\ mode \in Modes /\ PlanOK(Plan)
           /\ Declared(Selectable(routing)) /\ Declared(RuleSets(Plan))
BY DEF Inv, LinkInv, PlanOK, Plan, Declared, Selectable

LEMMA PlansAreDeclared ==
    ASSUME NEW plan, PlanOK(plan) PROVE Declared(RuleSets(plan))
BY DEF PlanOK, Declared, Selectable

-----------------------------------------------------------------------------
(* The steps of the main loop.                                             *)

\* Schedules and keys.
LEMMA StartsKeep ==
    ASSUME ConstantsOK, Inv, TickUpdates \/ UpdateGeo PROVE Inv'
<1>1. Pending(msgs, Marked \ Busy)
  BY DEF Inv, DownloadInv
<1>2. CASE TickUpdates
  <2>1. Declared(DueRuleSets)
    BY PlanIsDeclared, SmallerDeclared DEF DueRuleSets, Startable, Declared
  <2>2. /\ StartDownload(DueRuleSets, "Automatic", FALSE) /\ Counts(FetchEvents(DueRuleSets))
        /\ UNCHANGED <<meta, files, msgs, link, routing, mode>>
    BY <1>2 DEF TickUpdates, cache, settings
  <2>3. LinkInv'
    BY <2>2, LinkStays, PlanIsDeclared
  <2> QED
    BY <1>1, <2>1, <2>2, <2>3, StartStep
<1>3. CASE UpdateGeo
  <2> DEFINE sets == Selectable(routing)
  <2>1. /\ StartDownload(sets, "Manual", FALSE) /\ Counts(<<"user">> \o FetchEvents(sets))
        /\ UNCHANGED <<meta, files, msgs, link, routing, mode>>
    BY <1>3 DEF UpdateGeo, cache, settings
  <2>2. LinkInv' /\ Declared(sets)
    BY <2>1, LinkStays, PlanIsDeclared
  <2>3. "user" \in Events
    BY DEF Events
  <2> HIDE DEF sets
  <2> QED
    BY <1>1, <2>1, <2>2, <2>3, StartStep
<1> QED
  BY <1>2, <1>3

LEMMA ReloadKeeps ==
    ASSUME ConstantsOK, Inv, NEW r \in Routings, ReloadRouting(r) PROVE Inv'
<1> DEFINE sets == Selectable(r)
<1> DEFINE started == IF sets /= Selectable(routing) /\ DownloadAllowed THEN Startable(sets) ELSE {}
<1>1. /\ StartDownload(started, "Manual", TRUE) /\ Counts(<<"reload">> \o FetchEvents(started))
      /\ UNCHANGED <<meta, files, mode>> /\ routing' = r
      /\ link' = Edited(link) \/ link' = Edited(Reconnected(link))
      /\ msgs' = CurrentMsgs(link', msgs)
  BY DEF ReloadRouting, cache, settings
<1>2. Declared(started)
  BY DEF Declared, Startable
<1>3. "reload" \in Events
  BY DEF Events
<1>4. LinkInv'
  BY <1>1, LinkEdited, PlanIsDeclared DEF Reconnected
<1>5. Pending(msgs', Marked \ Busy)
  BY <1>1, PendingSuperseded DEF CurrentMsgs, Inv, DownloadInv
<1> HIDE DEF started
<1> QED
  BY <1>1, <1>2, <1>3, <1>4, <1>5, StartStep

LEMMA ConnectedKeeps == ASSUME ConstantsOK, Inv, HandleConnected PROVE Inv'
<1> DEFINE m == Head(msgs)
<1> DEFINE again == ~m.fallback /\ ArrivedMeanwhile(m.skipped)
<1> DEFINE wanted == IF m.fallback THEN RuleSets(Plan)
                     ELSE IF again THEN {} ELSE {rs \in m.skipped : ~RetryPending(rs)}
<1> DEFINE up == [link EXCEPT !.state = "Connected", !.fallback = m.fallback, !.worker = NoWorker]
<1>1. /\ msgs /= <<>> /\ m.type = "Connected" /\ msgs' = Tail(msgs)
      /\ StartDownload(wanted, "Manual", TRUE) /\ Counts(FetchEvents(wanted))
      /\ link' = IF again THEN Queued(up) ELSE up
      /\ UNCHANGED <<meta, files, routing, mode>>
  BY DEF HandleConnected, cache, settings
<1>2. Pending(msgs', Marked \ Busy) /\ Declared(m.skipped)
  BY <1>1, PendingTail DEF Inv, DownloadInv
<1>3. Declared(wanted)
  BY <1>2, PlanIsDeclared DEF Declared
<1>4. DOMAIN up = LinkFields /\ DOMAIN up.worker = WorkerFields /\ ~up.worker.on
  BY DEF Inv, LinkInv, LinkFields, WorkerFields, NoWorker
<1> HIDE DEF up
<1>5. LinkInv'
  BY <1>1, <1>4, QueuedLink, PlanIsDeclared DEF LinkInv, LinkFields, WorkerFields
<1> HIDE DEF wanted
<1> QED
  BY <1>1, <1>2, <1>3, <1>5, StartStep

\* The marks of the rule-sets that a message reports on go with it.
LEMMA UpdatedKeeps == ASSUME ConstantsOK, Inv, HandleUpdated PROVE Inv'
<1> DEFINE keys == DOMAIN Head(msgs).reports
<1>1. /\ msgs /= <<>> /\ Head(msgs).type = "Updated" /\ msgs' = Tail(msgs)
      /\ marks' = [k \in Marked \ keys |-> marks[k]]
      /\ link' = link \/ link' = Queued(link)
      /\ UNCHANGED <<meta, files, routing, mode, jobs, count>>
  BY DEF HandleUpdated, cache, settings, threads
<1>2. Pending(Tail(msgs), (Marked \ Busy) \ keys) /\ keys \subseteq Marked \ Busy
  BY <1>1, PendingTail DEF Inv, DownloadInv
<1>3. Marked' = Marked \ keys /\ Busy' = Busy /\ jobs' = jobs
  BY <1>1 DEF Marked, Busy
<1> HIDE DEF keys
<1>4. Pending(msgs', Marked' \ Busy')
  <2>1. (Marked \ Busy) \ keys = Marked' \ Busy'
    BY <1>3
  <2> QED
    BY <1>1, <1>2, <2>1
<1>5. \A j \in jobs : KeysOf(j.sets) \subseteq Busy
  BY DEF Busy
<1>6. \A j \in jobs' : JobOK(j, Marked')
  BY <1>2, <1>3, <1>5 DEF Inv, DownloadInv, JobOK
<1>7. DownloadInv'
  BY <1>3, <1>4, <1>6 DEF Inv, DownloadInv, OneDownloadPerFile
<1>8. CountStep
  BY <1>1, NotCounted DEF Inv
<1>9. CacheInv'
  <2>1. SameSources(meta, meta')
    BY <1>1, SameIsSame DEF Inv, CacheInv
  <2> QED
    BY <1>1, <1>8, <2>1, CacheKept DEF Inv, DownloadInv, CountStep
<1>11. LinkInv'
  BY <1>1, LinkStays, LinkQueued, PlanIsDeclared
<1> QED
  BY <1>7, <1>9, <1>11 DEF Inv

\* Steps that neither start nor end a download.
LEMMA OthersKeep ==
    ASSUME ConstantsOK, Inv,
           \/ CycleGeoInterval \/ HandleRefreshed \/ HandleSuperseded
           \/ (\E m \in Modes : SelectMode(m)) \/ (\E t \in refreshes : ReadStates(t) \/ Refresh(t))
           \/ UserConnects \/ UserDisconnects \/ TickConnects \/ WorkerReads \/ WorkerFails
           \/ Advance \/ (\E u \in Urls : NewVersion(u))
    PROVE  Inv'
<1>m. Pending(msgs, Marked \ Busy) /\ SameSources(meta, meta) /\ MetaOK(meta)
  BY SameIsSame DEF Inv, DownloadInv, CacheInv
<1>p. routing \in Routings /\ mode \in Modes /\ PlanOK(Plan)
  BY PlanIsDeclared
<1>e. <<"user">> \in Seq(Events) /\ <<"user", "disk">> \in Seq(Events)
      /\ <<"connect">> \in Seq(Events) /\ <<"release">> \in Seq(Events)
  BY DEF Events
<1>c. CacheInv
  BY DEF Inv
<1>1. CASE CycleGeoInterval
  <2>1. UNCHANGED <<jobs, marks, files, msgs, link, routing, mode>>
    BY <1>1 DEF CycleGeoInterval, threads
  <2>2. CountStep
    BY <1>1, <1>e, <1>c, Counted DEF CycleGeoInterval
  <2>3. SameSources(meta, meta')
    <3> DEFINE reset == ResetSchedules(meta, Selectable(routing), auto' /= "Off", now)
    <3>1. meta' = reset \/ meta' = meta
      BY <1>1 DEF CycleGeoInterval
    <3>2. SameSources(meta, reset)
      BY <1>m, ResetKeeps
    <3> HIDE DEF reset
    <3> QED
      BY <1>m, <3>1, <3>2
  <2>4. LinkInv'
    BY <2>1, <1>p, LinkStays
  <2> QED
    BY <1>m, <2>1, <2>2, <2>3, <2>4, PlainStep
<1>2. CASE HandleRefreshed \/ HandleSuperseded
  <2>1. /\ UNCHANGED <<jobs, marks, files, meta, link, routing, mode, count>>
        /\ msgs /= <<>> /\ msgs' = Tail(msgs)
    BY <1>2 DEF HandleRefreshed, HandleSuperseded, threads, cache, settings, model
  <2>2. LinkInv' /\ CountStep
    BY <2>1, <1>p, <1>c, LinkStays, NotCounted
  <2>3. Pending(msgs', Marked \ Busy)
    BY <1>m, <2>1, PendingTail
  <2> QED
    BY <1>m, <2>1, <2>2, <2>3, PlainStep
<1>3. ASSUME NEW m \in Modes, SelectMode(m) PROVE Inv'
  <2>1. /\ UNCHANGED <<jobs, marks, files, meta, msgs, routing>> /\ mode' = m
        /\ link' = link \/ link' = Queued(link)
        /\ Counts(<<"user">>)
    BY <1>3 DEF SelectMode, threads, cache, model
  <2>2. LinkInv' /\ CountStep
    BY <2>1, <1>p, <1>c, <1>e, LinkStays, LinkQueued, Counted
  <2> QED
    BY <1>m, <2>1, <2>2, PlainStep
<1>4. ASSUME NEW t \in refreshes, Refresh(t) PROVE Inv'
  <2> DEFINE sent == [type |-> "Refreshed", epoch |-> t.epoch, states |-> t.states]
  <2>1. /\ UNCHANGED <<jobs, marks, files, meta, link, routing, mode, count>>
        /\ msgs' = Append(msgs, sent)
    BY <1>4 DEF Refresh, cache, settings, model
  <2>2. sent.type = "Refreshed"
    OBVIOUS
  <2> HIDE DEF sent
  <2>3. LinkInv' /\ CountStep
    BY <2>1, <1>p, <1>c, LinkStays, NotCounted
  <2>4. Pending(msgs', Marked \ Busy)
    BY <1>m, <2>1, <2>2, PendingAppend
  <2> QED
    BY <1>m, <2>1, <2>3, <2>4, PlainStep
<1>5. CASE UserConnects
  <2>1. /\ UNCHANGED <<jobs, marks, files, meta, msgs, routing, mode>> /\ link' = Queued(link)
        /\ Counts(<<"connect">>)
    BY <1>5 DEF UserConnects, threads, cache, settings, model
  <2>2. LinkInv' /\ CountStep
    BY <2>1, <1>p, <1>c, <1>e, LinkQueued, Counted
  <2> QED
    BY <1>m, <2>1, <2>2, PlainStep
<1>6. CASE UserDisconnects
  <2>1. /\ UNCHANGED <<jobs, marks, files, meta, routing, mode>> /\ link' = IdleLink
        /\ Counts(<<"user">>) /\ msgs' = Superseded(msgs)
    BY <1>6 DEF UserDisconnects, threads, cache, settings, model
  <2>2. LinkInv' /\ CountStep
    BY <2>1, <1>p, <1>c, <1>e, LinkIdles, Counted
  <2>3. Pending(msgs', Marked \ Busy)
    BY <1>m, <2>1, PendingSuperseded
  <2> QED
    BY <1>m, <2>1, <2>2, <2>3, PlainStep
<1>7. CASE TickConnects
  <2>1. /\ UNCHANGED <<jobs, marks, files, meta, msgs, routing, mode, count>>
        /\ link' = [link EXCEPT !.state = "ConnectPending", !.tunnel = NoTunnel,
                                !.worker = [NoWorker EXCEPT !.on = TRUE, !.plan = Plan]]
    BY <1>7 DEF TickConnects, threads, cache, settings, model
  <2>2. DOMAIN link = LinkFields
    BY DEF Inv, LinkInv, LinkFields
  <2>3. /\ DOMAIN link' = LinkFields /\ DOMAIN link'.worker = WorkerFields
        /\ link'.worker.plan = Plan
    BY <2>1, <2>2 DEF LinkFields, WorkerFields, NoWorker
  <2>4. LinkInv' /\ CountStep
    BY <2>1, <2>3, <1>p, <1>c, NotCounted DEF LinkInv, LinkFields, WorkerFields
  <2> QED
    BY <1>m, <2>1, <2>4, PlainStep
<1>8. CASE WorkerFails
  <2>1. UNCHANGED <<jobs, marks, files, meta, msgs, routing, mode, count>> /\ link' = IdleLink
    BY <1>8 DEF WorkerFails, threads, cache, settings, model
  <2>2. LinkInv' /\ CountStep
    BY <2>1, <1>p, <1>c, LinkIdles, NotCounted
  <2> QED
    BY <1>m, <2>1, <2>2, PlainStep
<1>9. CASE Advance \/ \E t \in refreshes : ReadStates(t)
  <2>1. UNCHANGED <<jobs, marks, files, meta, msgs, link, routing, mode, count>>
    BY <1>9 DEF Advance, ReadStates, threads, cache, settings, model
  <2>2. LinkInv' /\ CountStep
    BY <2>1, <1>p, <1>c, LinkStays, NotCounted
  <2> QED
    BY <1>m, <2>1, <2>2, PlainStep
<1>10. ASSUME NEW u \in Urls, NewVersion(u) PROVE Inv'
  <2>1. UNCHANGED <<jobs, marks, files, meta, msgs, link, routing, mode>> /\ Counts(<<"release">>)
    BY <1>10 DEF NewVersion, threads, settings, model
  <2>2. LinkInv' /\ CountStep
    BY <2>1, <1>p, <1>c, <1>e, LinkStays, Counted
  <2> QED
    BY <1>m, <2>1, <2>2, PlainStep
<1>11. CASE WorkerReads
  <2> DEFINE used == Available(link.worker.plan)
  <2>1. /\ UNCHANGED <<jobs, marks, files, meta, msgs, routing, mode, count>>
        /\ link' = [link EXCEPT !.worker.read = TRUE, !.worker.used = used]
    BY <1>11 DEF WorkerReads, threads, cache, settings, model
  <2> HIDE DEF used
  <2>2. LinkInv'
    BY <2>1, <1>p DEF Inv, LinkInv
  <2>3. CountStep
    BY <2>1, <1>c, NotCounted
  <2> QED
    BY <1>m, <2>1, <2>2, <2>3, PlainStep
<1> QED
  BY <1>1, <1>2, <1>3, <1>4, <1>5, <1>6, <1>7, <1>8, <1>9, <1>10, <1>11

-----------------------------------------------------------------------------
(* The steps of threads.                                                   *)

\* No other thread has the rule-set a thread is at.
LEMMA OthersElsewhere ==
    ASSUME ConstantsOK, DownloadInv, NEW j \in jobs, j.phase /= "send",
           NEW i \in jobs \ {j}, i.phase /= "send"
    PROVE  Head(i.todo).key /= Head(j.todo).key
<1>1. JobOK(j, Marked) /\ JobOK(i, Marked)
  BY DEF DownloadInv
<1>2. Head(j.todo).key \in KeysOf(j.sets) /\ Head(i.todo).key \in KeysOf(i.sets)
  BY <1>1, JobKeys
<1> QED
  BY <1>2 DEF DownloadInv, OneDownloadPerFile

\* The record takes the address, and a file of another one goes, before
\* anything is fetched.
LEMMA AdoptKeeps ==
    ASSUME ConstantsOK, Inv, NEW j \in jobs, Adopt(j) PROVE Inv'
<1> DEFINE rs == Head(j.todo)
<1> DEFINE record == meta.records[rs.key]
<1> DEFINE new == [j EXCEPT !.phase = "fetch", !.saved = IF j.phase = "load" THEN meta ELSE j.saved]
<1>1. /\ j.phase \in {"load", "adopt"} /\ Replace(j, new)
      /\ files' = [files EXCEPT ![rs.key] = AdoptedFile(record, files[rs.key], rs)]
      /\ \/ meta' = [meta EXCEPT !.records[rs.key] = Adopted(record, rs)] /\ Counts(<<>>)
         \/ UNCHANGED meta /\ Counts(<<"disk">>)
      /\ UNCHANGED <<marks, msgs, link, routing, mode>>
  BY DEF Adopt, settings, model
<1>2. JobOK(j, Marked) /\ j.phase /= "send"
  BY <1>1 DEF Inv, DownloadInv
<1>3. rs.key \in Keys /\ rs.url \in Urls /\ rs.url /= NoUrl
  BY <1>2, JobKeys DEF ConstantsOK
<1>4. /\ new.sets = j.sets /\ new.todo = j.todo /\ new.phase = "fetch" /\ new.reports = j.reports
      /\ DOMAIN new = DOMAIN j
  BY <1>2 DEF JobOK
<1>5. JobOK(new, Marked)
  BY <1>1, <1>2, <1>4 DEF JobOK, Phases
<1> HIDE DEF new, rs
<1>6. DownloadInv'
  BY <1>1, <1>4, <1>5, ReplaceKeeps DEF Inv
<1>7. CountStep
  <2>1. <<>> \in Seq(Events) /\ <<"disk">> \in Seq(Events)
    BY DEF Events
  <2> QED
    BY <1>1, <2>1, Counted DEF Inv
<1>8. LinkInv'
  BY <1>1, <1>7, LinkStays, PlanIsDeclared
<1>9. MetaOK(meta) /\ DOMAIN files = Keys /\ count \in [Events -> Nat]
  BY DEF Inv, CacheInv
<1>10. DOMAIN files' = Keys
  BY <1>1, <1>9
<1>11. CASE meta' = [meta EXCEPT !.records[rs.key] = Adopted(record, rs)]
  <2>1. /\ DOMAIN Adopted(record, rs) = {"url", "etag", "checked", "retry", "next"}
        /\ Adopted(record, rs).url = rs.url
    BY <1>3, <1>9 DEF Adopted, MetaOK, NoRecord
  <2>2. /\ DOMAIN meta' = {"epoch", "records"} /\ DOMAIN meta'.records = Keys
        /\ meta'.records[rs.key] = Adopted(record, rs)
        /\ \A k \in Keys \ {rs.key} : meta'.records[k] = meta.records[k]
    BY <1>3, <1>9, <1>11 DEF MetaOK
  <2>3. MetaOK(meta')
    BY <2>1, <2>2, <1>9 DEF MetaOK
  <2>4. ASSUME count'.disk = 0 PROVE Sourced(meta', files') /\ Adopting(meta', jobs')
    <3>1. Sourced(meta, files) /\ Adopting(meta, jobs)
      BY <1>7, <2>4, Disks DEF Inv, CacheInv, CountStep
    <3>2. Sourced(meta', files')
      <4>1. ASSUME NEW k \in Keys \ {rs.key}, files'[k].usable
            PROVE  files'[k].url = meta'.records[k].url /\ meta'.records[k].url /= NoUrl
        BY <1>1, <1>9, <2>2, <3>1, <4>1 DEF Sourced
      <4>2. ASSUME files'[rs.key].usable
            PROVE  files'[rs.key].url = rs.url
        <5>1. files'[rs.key] = AdoptedFile(record, files[rs.key], rs)
          BY <1>1, <1>3, <1>9
        <5>2. Describes(record, rs) /\ files[rs.key].usable /\ files'[rs.key] = files[rs.key]
          BY <4>2, <5>1 DEF AdoptedFile, NoFile
        <5> QED
          BY <1>3, <3>1, <5>2 DEF Sourced, Describes
      <4> QED
        BY <1>3, <2>1, <2>2, <4>1, <4>2 DEF Sourced
    <3>3. ASSUME NEW i \in jobs', i.phase = "fetch"
          PROVE  meta'.records[Head(i.todo).key].url = Head(i.todo).url
      <4>1. CASE i = new
        BY <1>4, <2>1, <2>2, <4>1 DEF rs
      <4>2. CASE i /= new
        <5>1. i \in jobs \ {j} /\ i.phase /= "send" /\ JobOK(i, Marked)
          BY <1>1, <3>3, <4>2 DEF Replace, Inv, DownloadInv
        <5>2. Head(i.todo).key \in Keys \ {rs.key}
          BY <1>2, <5>1, OthersElsewhere, JobKeys DEF Inv, rs
        <5> QED
          BY <2>2, <3>1, <3>3, <5>1, <5>2 DEF Adopting
      <4> QED
        BY <4>1, <4>2
    <3> QED
      BY <3>2, <3>3 DEF Adopting
  <2>5. CacheInv'
    BY <1>7, <1>10, <2>3, <2>4 DEF CacheInv, CountStep
  <2> QED
    BY <1>6, <1>8, <2>5 DEF Inv
<1>12. CASE UNCHANGED meta /\ Counts(<<"disk">>)
  <2>1. <<"disk">> \in Seq(Events) /\ 1 \in DOMAIN <<"disk">> /\ <<"disk">>[1] = "disk"
    BY DEF Events
  <2>2. count'.disk > 0
    BY <1>9, <1>12, <2>1, CountsGrow
  <2>3. CacheInv'
    BY <1>7, <1>9, <1>10, <1>12, <2>2 DEF CacheInv, CountStep
  <2> QED
    BY <1>6, <1>8, <2>3 DEF Inv
<1> QED
  BY <1>1, <1>11, <1>12

\* A file is only replaced by one of the address its record has.
LEMMA FetchKeeps ==
    ASSUME ConstantsOK, Inv, NEW j \in jobs, Fetch(j) PROVE Inv'
<1> DEFINE rs == Head(j.todo)
<1> DEFINE new(o) == [j EXCEPT !.phase = "record", !.reports = Put(j.reports, [k \in {rs.key} |-> o])]
<1>1. /\ j.phase = "fetch" /\ UNCHANGED <<meta, marks, msgs, link, routing, mode, count>>
      /\ \E o : Replace(j, new(o))
      /\ \/ UNCHANGED files
         \/ \E version : files' = [files EXCEPT ![rs.key] = DownloadedFile(rs, version)]
  BY DEF Fetch, settings, model
<1>2. PICK o : Replace(j, new(o))
  BY <1>1
<1>3. JobOK(j, Marked) /\ j.phase /= "send"
  BY <1>1 DEF Inv, DownloadInv
<1>4. rs.key \in Keys /\ rs.url \in Urls /\ rs.url /= NoUrl /\ rs.key \in KeysOf(j.sets)
  BY <1>3, JobKeys DEF ConstantsOK
<1>5. /\ new(o).sets = j.sets /\ new(o).todo = j.todo /\ new(o).phase = "record"
      /\ DOMAIN new(o) = DOMAIN j
      /\ DOMAIN new(o).reports = DOMAIN j.reports \cup {rs.key}
  BY <1>3 DEF JobOK, Put
<1>6. JobOK(new(o), Marked)
  BY <1>1, <1>3, <1>4, <1>5 DEF JobOK, Phases
<1> HIDE DEF new, rs
<1>7. DownloadInv'
  BY <1>1, <1>2, <1>5, <1>6, ReplaceKeeps DEF Inv
<1>8. CountStep
  BY <1>1, NotCounted DEF Inv
<1>9. LinkInv'
  BY <1>1, <1>8, LinkStays, PlanIsDeclared
<1>10. DOMAIN files' = Keys
  BY <1>1 DEF Inv, CacheInv
<1>11. ASSUME count'.disk = 0 PROVE Sourced(meta', files') /\ Adopting(meta', jobs')
  <2>1. Sourced(meta, files) /\ Adopting(meta, jobs)
    BY <1>1, <1>11 DEF Inv, CacheInv
  <2>2. Adopting(meta', jobs')
    BY <1>1, <1>2, <1>5, <2>1 DEF Adopting, Replace
  <2>3. meta.records[rs.key].url = rs.url
    BY <1>1, <2>1 DEF Adopting, rs
  <2>4. CASE UNCHANGED files
    BY <1>1, <2>1, <2>2, <2>4 DEF Sourced
  <2>5. ASSUME NEW version, files' = [files EXCEPT ![rs.key] = DownloadedFile(rs, version)]
        PROVE  Sourced(meta', files')
    <3>1. DownloadedFile(rs, version).url = rs.url
      BY DEF DownloadedFile
    <3>2. /\ files'[rs.key] = DownloadedFile(rs, version)
          /\ \A k \in Keys \ {rs.key} : files'[k] = files[k]
      BY <1>4, <2>5 DEF Inv, CacheInv
    <3> QED
      BY <1>1, <1>4, <2>1, <2>3, <3>1, <3>2 DEF Sourced
  <2> QED
    BY <1>1, <2>2, <2>4, <2>5
<1>12. CacheInv'
  BY <1>1, <1>10, <1>11 DEF Inv, CacheInv
<1> QED
  BY <1>7, <1>9, <1>12 DEF Inv

LEMMA RecordKeeps ==
    ASSUME ConstantsOK, Inv, NEW j \in jobs, Record(j) PROVE Inv'
<1> DEFINE rs == Head(j.todo)
<1> DEFINE rest == Tail(j.todo)
<1> DEFINE new == [j EXCEPT !.todo = rest, !.phase = IF rest = <<>> THEN "send" ELSE "adopt"]
<1> DEFINE written == [meta EXCEPT !.records[rs.key] =
                          Recorded(meta, rs, j.reports[rs.key], j.write, now)]
<1>1. /\ j.phase = "record" /\ Replace(j, new)
      /\ \/ meta' = written /\ Counts(<<>>)
         \/ UNCHANGED meta /\ Counts(<<"disk">>)
      /\ UNCHANGED <<files, marks, msgs, link, routing, mode>>
  BY DEF Record, settings, model
<1>2. JobOK(j, Marked) /\ j.phase /= "send"
  BY <1>1 DEF Inv, DownloadInv
<1>3. rs.key \in Keys
  BY <1>2, JobKeys
<1>4. rest \in Seq(j.sets)
  BY <1>2 DEF JobOK
<1> HIDE DEF rest
<1>5. /\ new.sets = j.sets /\ new.todo = rest /\ new.reports = j.reports
      /\ new.phase = IF rest = <<>> THEN "send" ELSE "adopt"
      /\ DOMAIN new = DOMAIN j
  BY <1>2 DEF JobOK
<1>6. JobOK(new, Marked)
  BY <1>2, <1>4, <1>5 DEF JobOK, Phases
<1>7. MetaOK(meta) /\ SameSources(meta, written) /\ SameSources(meta, meta)
  BY <1>3, RecordedKeeps, SameIsSame DEF Inv, CacheInv
<1> HIDE DEF new, rs, written
<1>8. DownloadInv'
  BY <1>1, <1>5, <1>6, ReplaceKeeps DEF Inv
<1>9. CountStep
  <2>1. <<>> \in Seq(Events) /\ <<"disk">> \in Seq(Events)
    BY DEF Events
  <2> QED
    BY <1>1, <2>1, Counted DEF Inv
<1>10. CacheInv'
  <2>1. \A i \in jobs' : i \in jobs \/ i.phase /= "fetch"
    BY <1>1, <1>5 DEF Replace
  <2>2. SameSources(meta, meta')
    BY <1>1, <1>7
  <2> QED
    BY <1>1, <1>9, <2>1, <2>2, CacheKept DEF Inv, DownloadInv, CountStep
<1>11. LinkInv'
  BY <1>1, <1>9, LinkStays, PlanIsDeclared
<1> QED
  BY <1>8, <1>10, <1>11 DEF Inv

\* The keys of a thread pass to its message.
LEMMA SendKeeps ==
    ASSUME ConstantsOK, Inv, NEW j \in jobs, Send(j) PROVE Inv'
<1> DEFINE sent == [type |-> "Updated", reports |-> j.reports, epoch |-> j.epoch,
                    states |-> StatesOf(meta, files, j.sets)]
<1>1. /\ jobs' = jobs \ {j} /\ msgs' = Append(msgs, sent)
      /\ UNCHANGED <<meta, files, marks, link, routing, mode, count>>
  BY DEF Send, cache, settings, model
<1>2. sent.type = "Updated" /\ sent.reports = j.reports
  OBVIOUS
<1> HIDE DEF sent
<1>3. JobOK(j, Marked)
  BY DEF Inv, DownloadInv
<1>4. Busy' \subseteq Busy /\ KeysOf(j.sets) \subseteq Busy /\ KeysOf(j.sets) \cap Busy' = {}
  BY <1>1 DEF Busy, Inv, DownloadInv, OneDownloadPerFile
<1>5. Marked' = Marked
  BY <1>1 DEF Marked
<1>6. DOMAIN sent.reports \subseteq (Marked' \ Busy') \ (Marked \ Busy)
  BY <1>2, <1>3, <1>4, <1>5 DEF JobOK
<1>7. Pending(msgs', Marked' \ Busy')
  <2>1. Marked \ Busy \subseteq Marked' \ Busy'
    BY <1>4, <1>5
  <2>2. Pending(msgs, Marked \ Busy)
    BY DEF Inv, DownloadInv
  <2> DEFINE before == Marked \ Busy
  <2> DEFINE after == Marked' \ Busy'
  <2> HIDE DEF before, after
  <2>3. Pending(Append(msgs, sent), after)
    BY <1>2, <1>6, <2>1, <2>2, PendingAppend DEF before, after
  <2> QED
    BY <1>1, <2>3 DEF after
<1>8. DownloadInv'
  <2>1. \A i \in jobs' : JobOK(i, Marked')
    BY <1>1, <1>5 DEF Inv, DownloadInv
  <2>2. OneDownloadPerFile'
    BY <1>1 DEF Inv, DownloadInv, OneDownloadPerFile
  <2> QED
    BY <1>7, <2>1, <2>2 DEF DownloadInv
<1>9. CountStep
  BY <1>1, NotCounted DEF Inv
<1>10. CacheInv'
  <2>1. SameSources(meta, meta')
    BY <1>1, SameIsSame DEF Inv, CacheInv
  <2> QED
    BY <1>1, <1>9, <2>1, CacheKept DEF Inv, DownloadInv, CountStep
<1>11. LinkInv'
  BY <1>1, <1>9, LinkStays, PlanIsDeclared
<1> QED
  BY <1>8, <1>10, <1>11 DEF Inv

\* The report of a tunnel that starts.
LEMMA WorkerKeeps == ASSUME ConstantsOK, Inv, WorkerStarts PROVE Inv'
<1> DEFINE plan == link.worker.plan
<1> DEFINE used == link.worker.used
<1> DEFINE sent == [type |-> "Connected", fallback |-> Fallback(plan, used),
                    skipped |-> Skipped(plan, used)]
<1>1. /\ link.worker.on
      /\ \E tunnel : link' = [link EXCEPT !.worker = NoWorker, !.tunnel = tunnel]
      /\ msgs' = Append(msgs, sent)
      /\ UNCHANGED <<meta, files, marks, jobs, routing, mode, count>>
  BY DEF WorkerStarts, cache, settings, model, threads
<1>2. sent.type = "Connected" /\ sent.skipped = Skipped(plan, used)
  OBVIOUS
<1> HIDE DEF sent
<1>3. PlanOK(plan) /\ Declared(RuleSets(plan))
  BY <1>1, PlansAreDeclared DEF Inv, LinkInv
<1>4. Declared(Skipped(plan, used))
  BY <1>3 DEF Declared, Skipped, RuleSets
<1>5. Pending(msgs', Marked' \ Busy')
  <2>1. Marked' = Marked /\ Busy' = Busy
    BY <1>1 DEF Marked, Busy
  <2>2. Pending(msgs, Marked \ Busy)
    BY DEF Inv, DownloadInv
  <2>3. Pending(Append(msgs, sent), Marked \ Busy)
    BY <1>2, <1>4, <2>2, PendingAppend
  <2> QED
    BY <1>1, <2>1, <2>3
<1>6. DownloadInv'
  <2>1. \A i \in jobs' : JobOK(i, Marked')
    BY <1>1 DEF Inv, DownloadInv, Marked
  <2> QED
    BY <1>1, <1>5, <2>1 DEF Inv, DownloadInv, OneDownloadPerFile
<1>7. CacheInv'
  BY <1>1 DEF Inv, CacheInv
<1>8. LinkInv'
  BY <1>1 DEF Inv, LinkInv, NoWorker
<1> QED
  BY <1>6, <1>7, <1>8 DEF Inv

-----------------------------------------------------------------------------
(* Starts, and the theorem.                                                *)

LEMMA NothingPending ==
    ASSUME NEW keys PROVE Pending(<<>>, keys)
<1>1. <<>> \in Seq({}) /\ Len(<<>>) = 0
  OBVIOUS
<1>2. \E S : <<>> \in Seq(S)
  BY <1>1
<1> QED
  BY <1>1, <1>2 DEF Pending

\* A daemon that starts again has no thread and no message, and finds the
\* records and files as the last one left them.
LEMMA RestartKeeps == ASSUME ConstantsOK, Inv, Restart PROVE Inv'
<1> DEFINE ensured == EnsureSchedules(meta, Selectable(routing), auto /= "Off", now)
<1>1. /\ meta' = ensured /\ jobs' = {} /\ msgs' = <<>> /\ link' = IdleLink
      /\ Counts(<<"restart">>) /\ UNCHANGED <<files, routing, mode>>
  BY DEF Restart, settings
<1>2. SameSources(meta, meta')
  BY <1>1, EnsureKeeps DEF Inv, CacheInv
<1>3. CountStep
  <2>1. <<"restart">> \in Seq(Events)
    BY DEF Events
  <2> QED
    BY <1>1, <2>1, Counted DEF Inv
<1>4. DownloadInv'
  BY <1>1, NothingPending DEF DownloadInv, OneDownloadPerFile
<1>5. CacheInv'
  BY <1>1, <1>2, <1>3, CacheKept DEF Inv, DownloadInv, CountStep
<1>6. LinkInv'
  BY <1>1, <1>3, LinkIdles, PlanIsDeclared
<1> QED
  BY <1>4, <1>5, <1>6 DEF Inv

LEMMA StepKeeps == ASSUME ConstantsOK, Inv, Next PROVE Inv'
BY StartsKeep, ReloadKeeps, ConnectedKeeps, UpdatedKeeps, OthersKeep, AdoptKeeps, FetchKeeps,
   RecordKeeps, SendKeeps, WorkerKeeps, RestartKeeps DEF Next

LEMMA StutterKeeps == ASSUME Inv, UNCHANGED vars PROVE Inv'
<1>1. UNCHANGED <<routing, mode, marks, meta, files, jobs, msgs, link, count>>
  BY DEF vars, settings, model, cache, threads
<1>2. Marked' = Marked /\ Busy' = Busy
  BY <1>1 DEF Marked, Busy
<1>3. DownloadInv'
  <2>1. \A j \in jobs' : JobOK(j, Marked')
    BY <1>1, <1>2 DEF Inv, DownloadInv
  <2>2. Pending(msgs', Marked' \ Busy')
    BY <1>1, <1>2 DEF Inv, DownloadInv
  <2> QED
    BY <1>1, <2>1, <2>2 DEF Inv, DownloadInv, OneDownloadPerFile
<1>4. CacheInv' /\ LinkInv'
  BY <1>1 DEF Inv, CacheInv, LinkInv
<1> QED
  BY <1>3, <1>4 DEF Inv

LEMMA StartsRight == ASSUME ConstantsOK, Init PROVE Inv
<1> DEFINE empty == [epoch |-> 0, records |-> [k \in Keys |-> NoRecord]]
<1>1. /\ meta = EnsureSchedules(empty, Selectable(routing), TRUE, now)
      /\ files = [k \in Keys |-> NoFile] /\ count = [e \in Events |-> 0]
      /\ jobs = {} /\ msgs = <<>> /\ link = IdleLink
      /\ routing \in Routings /\ mode \in Modes
  BY DEF Init
<1>2. MetaOK(empty)
  BY DEF MetaOK, NoRecord
<1>3. MetaOK(meta)
  BY <1>1, <1>2, EnsureKeeps DEF SameSources
<1>4. CacheInv
  BY <1>1, <1>3 DEF CacheInv, Sourced, Adopting, NoFile
<1>5. DownloadInv
  BY <1>1, NothingPending DEF DownloadInv, OneDownloadPerFile
<1>6. LinkInv
  BY <1>1, IdleIsDown DEF LinkInv, LinkFields, WorkerFields
<1> QED
  BY <1>4, <1>5, <1>6 DEF Inv

-----------------------------------------------------------------------------
(* What a tunnel opens is of the address its plan has.                     *)

\* Of an address that routing.json no longer has, a thread only downloads
\* what is stale.
JobsDeclared ==
    \A j \in jobs : \A rs \in j.sets, declared \in Selectable(routing) :
        declared.key = rs.key => (declared = rs \/ rs.key \in stale)

\* Of the plan's address is the record of what a worker has found there: a
\* file of another one is not in its place when the tunnel opens it.
WorkerOK ==
    (link.worker.on /\ ~link.worker.edited) =>
        /\ RuleSets(link.worker.plan) \subseteq Selectable(routing)
        /\ link.worker.read => \A rs \in link.worker.used :
              /\ rs \in RuleSets(link.worker.plan)
              /\ rs.key \in stale \/ (count.disk = 0 => meta.records[rs.key].url = rs.url)

UsedInv == JobsDeclared /\ WorkerOK /\ RoutedFromSource

\* The tunnel stays or stops: it goes on with the files it opened.
LEMMA RoutedKept ==
    ASSUME Inv, RoutedFromSource, CountStep, stale \subseteq stale',
           link'.tunnel = link.tunnel \/ ~link'.tunnel.up
    PROVE  RoutedFromSource'
<1>1. count.disk > 0 => count'.disk > 0
  BY Disks DEF Inv, CountStep
<1> QED
  BY <1>1 DEF RoutedFromSource

\* Threads that go on, and ones that start with what is declared or stale.
LEMMA DeclaredKept ==
    ASSUME ConstantsOK, Inv, JobsDeclared, UNCHANGED routing, stale \subseteq stale',
           \A j \in jobs' :
              \/ \E i \in jobs : i.sets = j.sets
              \/ \A rs \in j.sets : rs \in Selectable(routing) \/ rs.key \in stale'
    PROVE  JobsDeclared'
<1>1. routing \in Routings /\ Selectable(routing)' = Selectable(routing)
  BY PlanIsDeclared DEF Selectable
<1>2. ASSUME NEW j \in jobs', NEW rs \in j.sets, NEW declared \in Selectable(routing),
             declared.key = rs.key
      PROVE  declared = rs \/ rs.key \in stale'
  <2>1. CASE \E i \in jobs : i.sets = j.sets
    BY <1>2, <2>1 DEF JobsDeclared
  <2>2. CASE rs \in Selectable(routing)
    BY <1>1, <1>2, <2>2 DEF ConstantsOK
  <2> QED
    BY <1>2, <2>1, <2>2
<1> QED
  BY <1>1, <1>2 DEF JobsDeclared

\* The worker stays or ends, and no record has a new address.
LEMMA WorkerKept ==
    ASSUME ConstantsOK, Inv, WorkerOK, CountStep, UNCHANGED routing, stale \subseteq stale',
           SameSources(meta, meta'), link'.worker = link.worker \/ ~link'.worker.on
    PROVE  WorkerOK'
<1>1. Selectable(routing)' = Selectable(routing)
  BY DEF Selectable
<1>2. count'.disk = 0 => count.disk = 0
  BY Disks DEF Inv, CountStep
<1>3. ASSUME link'.worker.on, ~link'.worker.edited
      PROVE  /\ RuleSets(link'.worker.plan) \subseteq Selectable(routing)
             /\ link'.worker.read => \A rs \in link'.worker.used :
                   /\ rs \in RuleSets(link'.worker.plan)
                   /\ rs.key \in stale' \/ (count'.disk = 0 => meta'.records[rs.key].url = rs.url)
  <2>1. link'.worker = link.worker
    BY <1>3
  <2>2. \A rs \in Selectable(routing) : rs.key \in Keys
    BY PlanIsDeclared DEF ConstantsOK
  <2> QED
    BY <1>2, <1>3, <2>1, <2>2 DEF WorkerOK, SameSources
<1> QED
  BY <1>1, <1>3 DEF WorkerOK

LEMMA UsedKept ==
    ASSUME ConstantsOK, Inv, UsedInv, CountStep, UNCHANGED routing, stale \subseteq stale',
           SameSources(meta, meta'),
           link'.worker = link.worker \/ ~link'.worker.on,
           link'.tunnel = link.tunnel \/ ~link'.tunnel.up,
           \A j \in jobs' :
              \/ \E i \in jobs : i.sets = j.sets
              \/ \A rs \in j.sets : rs \in Selectable(routing) \/ rs.key \in stale'
    PROVE  UsedInv'
BY DeclaredKept, WorkerKept, RoutedKept DEF UsedInv

\* No step takes back that metadata could not be written.
LEMMA StepCounts == ASSUME ConstantsOK, Inv, Next PROVE CountStep
<1>1. CacheInv
  BY DEF Inv
<1>2. /\ <<>> \in Seq(Events) /\ <<"user">> \in Seq(Events) /\ <<"user", "disk">> \in Seq(Events)
      /\ <<"connect">> \in Seq(Events) /\ <<"release">> \in Seq(Events)
      /\ <<"disk">> \in Seq(Events) /\ <<"restart">> \in Seq(Events) /\ <<"reload">> \in Seq(Events)
  BY DEF Events
<1>3. ASSUME NEW sets, Declared(sets),
             \/ Counts(FetchEvents(sets)) \/ Counts(<<"user">> \o FetchEvents(sets))
             \/ Counts(<<"reload">> \o FetchEvents(sets))
      PROVE  CountStep
  <2>1. FetchEvents(sets) \in Seq(Events)
    BY <1>3, FetchesAreEvents
  <2>2. /\ <<"user">> \o FetchEvents(sets) \in Seq(Events)
        /\ <<"reload">> \o FetchEvents(sets) \in Seq(Events)
    BY <1>2, <2>1
  <2> QED
    BY <1>1, <1>3, <2>1, <2>2, Counted
<1>4. CASE TickUpdates
  <2>1. Declared(DueRuleSets)
    BY PlanIsDeclared, SmallerDeclared DEF DueRuleSets, Startable, Declared
  <2> QED
    BY <1>3, <1>4, <2>1 DEF TickUpdates
<1>5. CASE UpdateGeo
  BY <1>3, <1>5, PlanIsDeclared DEF UpdateGeo
<1>6. ASSUME NEW r \in Routings, ReloadRouting(r) PROVE CountStep
  <2> DEFINE started == IF Selectable(r) /= Selectable(routing) /\ DownloadAllowed
                        THEN Startable(Selectable(r)) ELSE {}
  <2>1. Declared(started)
    BY DEF Declared, Startable
  <2>2. Counts(<<"reload">> \o FetchEvents(started))
    BY <1>6 DEF ReloadRouting
  <2> QED
    BY <1>3, <2>1, <2>2
<1>7. CASE HandleConnected
  <2> DEFINE m == Head(msgs)
  <2> DEFINE again == ~m.fallback /\ ArrivedMeanwhile(m.skipped)
  <2> DEFINE wanted == IF m.fallback THEN RuleSets(Plan)
                       ELSE IF again THEN {} ELSE {rs \in m.skipped : ~RetryPending(rs)}
  <2>1. Declared(m.skipped)
    BY <1>7, PendingTail DEF HandleConnected, Inv, DownloadInv
  <2>2. Declared(wanted)
    BY <2>1, PlanIsDeclared DEF Declared
  <2>3. Counts(FetchEvents(wanted))
    BY <1>7 DEF HandleConnected
  <2> QED
    BY <1>3, <2>2, <2>3
<1>8. CASE \/ CycleGeoInterval \/ (\E m \in Modes : SelectMode(m))
           \/ (\E j \in jobs : Adopt(j) \/ Record(j))
           \/ UserConnects \/ UserDisconnects \/ (\E u \in Urls : NewVersion(u)) \/ Restart
  BY <1>1, <1>2, <1>8, Counted
     DEF CycleGeoInterval, SelectMode, Adopt, Record, UserConnects, UserDisconnects, NewVersion, Restart
<1>9. CASE \/ (\E j \in jobs : Fetch(j) \/ Send(j)) \/ (\E t \in refreshes : ReadStates(t) \/ Refresh(t))
           \/ HandleUpdated \/ HandleRefreshed \/ HandleSuperseded
           \/ TickConnects \/ WorkerReads \/ WorkerStarts \/ WorkerFails \/ Advance
  BY <1>1, <1>9, NotCounted
     DEF Fetch, Send, ReadStates, Refresh, HandleUpdated, HandleRefreshed, HandleSuperseded,
         TickConnects, WorkerReads, WorkerStarts, WorkerFails, Advance
<1> QED
  BY <1>4, <1>5, <1>6, <1>7, <1>8, <1>9 DEF Next

LEMMA StartedSets ==
    ASSUME NEW sets, NEW trigger, NEW onlyMissing, StartDownload(sets, trigger, onlyMissing)
    PROVE  /\ Startable(sets) \subseteq sets
           /\ \A j \in jobs' : j \in jobs \/ j.sets = Startable(sets)
BY DEF StartDownload, Startable

LEMMA StartsUsed ==
    ASSUME ConstantsOK, Inv, UsedInv, TickUpdates \/ UpdateGeo PROVE UsedInv'
<1>1. CountStep /\ MetaOK(meta)
  BY StepCounts DEF Inv, CacheInv, Next
<1>2. PICK sets \in SUBSET Selectable(routing) :
          \E trigger \in {"Automatic", "Manual"} : StartDownload(sets, trigger, FALSE)
  BY DEF TickUpdates, UpdateGeo, DueRuleSets, Startable
<1>3. UNCHANGED <<meta, link, routing, stale>>
  BY DEF TickUpdates, UpdateGeo, cache, settings
<1>4. \A j \in jobs' : j \in jobs \/ j.sets \subseteq Selectable(routing)
  BY <1>2, StartedSets
<1> QED
  BY <1>1, <1>3, <1>4, SameIsSame, UsedKept

LEMMA ConnectedUsed ==
    ASSUME ConstantsOK, Inv, UsedInv, HandleConnected PROVE UsedInv'
<1> DEFINE m == Head(msgs)
<1> DEFINE again == ~m.fallback /\ ArrivedMeanwhile(m.skipped)
<1> DEFINE wanted == IF m.fallback THEN RuleSets(Plan)
                     ELSE IF again THEN {} ELSE {rs \in m.skipped : ~RetryPending(rs)}
<1> DEFINE up == [link EXCEPT !.state = "Connected", !.fallback = m.fallback, !.worker = NoWorker]
<1>1. CountStep /\ SameSources(meta, meta)
  BY StepCounts, SameIsSame DEF Inv, CacheInv, Next
<1>2. /\ StartDownload(wanted, "Manual", TRUE)
      /\ link' = IF again THEN Queued(up) ELSE up
      /\ stale' = stale \cup KeysOf(Startable(wanted) \ Selectable(routing))
      /\ UNCHANGED <<meta, routing>>
  BY DEF HandleConnected, cache, settings
<1>3. DOMAIN up = LinkFields /\ ~up.worker.on /\ up.tunnel = link.tunnel
  BY DEF Inv, LinkInv, LinkFields, NoWorker
<1> HIDE DEF up, wanted
<1>4. ~link'.worker.on /\ link'.tunnel = link.tunnel
  BY <1>2, <1>3, QueuedLink
<1>5. \A j \in jobs' : j \in jobs \/ \A rs \in j.sets : rs \in Selectable(routing) \/ rs.key \in stale'
  BY <1>2, StartedSets DEF KeysOf
<1> QED
  BY <1>1, <1>2, <1>4, <1>5, UsedKept

\* Steps that start no download, no worker and no tunnel.
LEMMA OthersUsed ==
    ASSUME ConstantsOK, Inv, UsedInv,
           \/ CycleGeoInterval \/ HandleUpdated \/ HandleRefreshed \/ HandleSuperseded
           \/ (\E m \in Modes : SelectMode(m)) \/ (\E t \in refreshes : ReadStates(t) \/ Refresh(t))
           \/ UserConnects \/ UserDisconnects \/ WorkerFails
           \/ Advance \/ (\E u \in Urls : NewVersion(u))
    PROVE  UsedInv'
<1>1. CountStep /\ SameSources(meta, meta)
  BY StepCounts, SameIsSame DEF Inv, CacheInv, Next
<1>2. UNCHANGED <<routing, jobs>> /\ stale \subseteq stale'
  BY DEF CycleGeoInterval, HandleUpdated, HandleRefreshed, HandleSuperseded, SelectMode, ReadStates,
         Refresh, UserConnects, UserDisconnects, WorkerFails, Advance, NewVersion, threads, settings
<1>3. link' = link \/ link' = Queued(link) \/ link' = IdleLink
  BY DEF CycleGeoInterval, HandleUpdated, HandleRefreshed, HandleSuperseded, SelectMode, ReadStates,
         Refresh, UserConnects, UserDisconnects, WorkerFails, Advance, NewVersion
<1>4. SameSources(meta, meta')
  <2>1. CASE CycleGeoInterval
    <3> DEFINE reset == ResetSchedules(meta, Selectable(routing), auto' /= "Off", now)
    <3>1. meta' = reset \/ meta' = meta
      BY <2>1 DEF CycleGeoInterval
    <3>2. SameSources(meta, reset)
      BY ResetKeeps DEF Inv, CacheInv
    <3> HIDE DEF reset
    <3> QED
      BY <1>1, <3>1, <3>2
  <2>2. CASE ~CycleGeoInterval
    <3>1. UNCHANGED meta
      BY <2>2 DEF HandleUpdated, HandleRefreshed, HandleSuperseded, SelectMode, ReadStates,
         Refresh, UserConnects, UserDisconnects, WorkerFails, Advance, NewVersion, cache
    <3> QED
      BY <1>1, <3>1
  <2> QED
    BY <2>1, <2>2
<1>5. /\ link'.worker = link.worker \/ ~link'.worker.on
      /\ link'.tunnel = link.tunnel \/ ~link'.tunnel.up
  BY <1>3, QueuedLink, IdleIsDown DEF Inv, LinkInv, LinkFields
<1> QED
  BY <1>1, <1>2, <1>4, <1>5, UsedKept

\* A thread never takes other rule-sets.
LEMMA ThreadsUsed ==
    ASSUME ConstantsOK, Inv, UsedInv, NEW j \in jobs, Fetch(j) \/ Record(j) \/ Send(j) PROVE UsedInv'
<1>1. CountStep /\ SameSources(meta, meta)
  BY StepCounts, SameIsSame DEF Inv, CacheInv, Next
<1>2. JobOK(j, Marked)
  BY DEF Inv, DownloadInv
<1>3. UNCHANGED <<routing, link, stale>>
  BY DEF Fetch, Record, Send, settings
<1>4. jobs' \subseteq jobs \/ \E new : new.sets = j.sets /\ Replace(j, new)
  BY <1>2 DEF Fetch, Record, Send, JobOK
<1>5. \A i \in jobs' : \E old \in jobs : old.sets = i.sets
  BY <1>4 DEF Replace
<1>6. SameSources(meta, meta')
  <2>1. CASE Record(j)
    <3> DEFINE rs == Head(j.todo)
    <3> DEFINE written == [meta EXCEPT !.records[rs.key] =
                              Recorded(meta, rs, j.reports[rs.key], j.write, now)]
    <3>1. meta' = written \/ meta' = meta
      BY <2>1 DEF Record
    <3>2. rs.key \in Keys
      BY <1>2, <2>1, JobKeys DEF Record
    <3>3. SameSources(meta, written)
      BY <3>2, RecordedKeeps DEF Inv, CacheInv
    <3> HIDE DEF written
    <3> QED
      BY <1>1, <3>1, <3>3
  <2>2. CASE ~Record(j)
    BY <1>1, <2>2 DEF Fetch, Send, cache
  <2> QED
    BY <2>1, <2>2
<1> QED
  BY <1>1, <1>3, <1>5, <1>6, UsedKept

\* adopt_source gives the record of a worker's rule-set another address only
\* where the rule-set is stale.
LEMMA AdoptUsed ==
    ASSUME ConstantsOK, Inv, UsedInv, NEW j \in jobs, Adopt(j) PROVE UsedInv'
<1> DEFINE at == Head(j.todo)
<1> DEFINE new == [j EXCEPT !.phase = "fetch", !.saved = IF j.phase = "load" THEN meta ELSE j.saved]
<1>1. CountStep
  BY StepCounts DEF Next
<1>2. /\ j.phase \in {"load", "adopt"} /\ Replace(j, new) /\ UNCHANGED <<routing, link, stale>>
      /\ \/ meta' = [meta EXCEPT !.records[at.key] = Adopted(meta.records[at.key], at)]
         \/ UNCHANGED meta
  BY DEF Adopt, settings
<1>3. JobOK(j, Marked) /\ j.phase /= "send"
  BY <1>2 DEF Inv, DownloadInv
<1>4. at \in j.sets /\ at.key \in Keys
  BY <1>3, JobKeys
<1>5. new.sets = j.sets
  BY <1>3 DEF JobOK
<1> HIDE DEF at, new
<1>6. \A i \in jobs' : \E old \in jobs : old.sets = i.sets
  BY <1>2, <1>5 DEF Replace
<1>7. JobsDeclared' /\ RoutedFromSource'
  BY <1>1, <1>2, <1>6, DeclaredKept, RoutedKept DEF UsedInv
<1>8. MetaOK(meta)
  BY DEF Inv, CacheInv
<1>9. /\ meta'.records[at.key].url = at.url \/ UNCHANGED meta
      /\ \A k \in Keys \ {at.key} : meta'.records[k].url = meta.records[k].url
  BY <1>2, <1>4, <1>8 DEF MetaOK, Adopted, NoRecord
<1>10. Selectable(routing)' = Selectable(routing)
  BY <1>2 DEF Selectable
<1>11. count'.disk = 0 => count.disk = 0
  BY <1>1, Disks DEF Inv, CountStep
<1>12. ASSUME link.worker.on, ~link.worker.edited, link.worker.read, NEW rs \in link.worker.used,
              rs.key \notin stale, count'.disk = 0
       PROVE  meta'.records[rs.key].url = rs.url
  <2>1. /\ rs \in Selectable(routing) /\ rs.key \in Keys
        /\ meta.records[rs.key].url = rs.url
    BY <1>11, <1>12, PlanIsDeclared DEF UsedInv, WorkerOK, ConstantsOK
  <2>2. CASE rs.key = at.key
    <3>1. rs = at
      BY <1>4, <1>12, <2>1, <2>2 DEF UsedInv, JobsDeclared
    <3> QED
      BY <1>9, <2>1, <3>1
  <2>3. CASE rs.key /= at.key
    BY <1>9, <2>1, <2>3
  <2> QED
    BY <2>2, <2>3
<1>13. WorkerOK'
  BY <1>2, <1>10, <1>12 DEF UsedInv, WorkerOK
<1> QED
  BY <1>7, <1>13 DEF UsedInv

\* What an edit of routing.json declares anew for a marked file is stale,
\* and a worker that started before it is marked.
LEMMA ReloadUsed ==
    ASSUME ConstantsOK, Inv, UsedInv, NEW r \in Routings, ReloadRouting(r) PROVE UsedInv'
<1> DEFINE sets == Selectable(r)
<1> DEFINE started == IF sets /= Selectable(routing) /\ DownloadAllowed THEN Startable(sets) ELSE {}
<1>1. CountStep
  BY StepCounts DEF Next
<1>2. /\ StartDownload(started, "Manual", TRUE) /\ routing' = r
      /\ link' = Edited(link) \/ link' = Edited(Reconnected(link))
      /\ stale' = stale \cup {k \in Marked : \E rs \in sets : rs.key = k /\ rs \notin Selectable(routing)}
  BY DEF ReloadRouting
<1>3. Selectable(routing)' = sets
  BY <1>2 DEF Selectable
<1>4. started \subseteq sets
  BY DEF Startable
<1> HIDE DEF started
<1>5. DOMAIN link = LinkFields /\ DOMAIN link.worker = WorkerFields
  BY DEF Inv, LinkInv, LinkFields, WorkerFields
<1>6. link'.tunnel = link.tunnel /\ (link'.worker.on => link'.worker.edited)
  BY <1>2, <1>5, QueuedLink, EditedLink DEF Reconnected
<1>7. RoutedFromSource' /\ WorkerOK'
  BY <1>1, <1>2, <1>6, RoutedKept DEF UsedInv, WorkerOK
<1>8. ASSUME NEW j \in jobs', NEW rs \in j.sets, NEW declared \in sets, declared.key = rs.key
      PROVE  declared = rs \/ rs.key \in stale'
  <2>1. CASE j \in jobs
    <3>1. rs.key \in Marked
      BY <1>8, <2>1 DEF Inv, DownloadInv, JobOK, KeysOf
    <3> QED
      BY <1>2, <1>8, <2>1, <3>1 DEF UsedInv, JobsDeclared
  <2>2. CASE j \notin jobs
    <3>1. rs \in sets
      BY <1>2, <1>4, <1>8, <2>2, StartedSets
    <3> QED
      BY <1>8, <3>1 DEF ConstantsOK
  <2> QED
    BY <2>1, <2>2
<1>9. JobsDeclared'
  BY <1>3, <1>8 DEF JobsDeclared
<1> QED
  BY <1>7, <1>9 DEF UsedInv

\* A worker takes a plan of routing.json, and then finds there only what has
\* the plan's address; from what it found the tunnel opens its files.
LEMMA WorkerUsed ==
    ASSUME ConstantsOK, Inv, UsedInv, TickConnects \/ WorkerReads \/ WorkerStarts PROVE UsedInv'
<1>1. CountStep /\ UNCHANGED <<routing, jobs, meta, files, stale, mode, count>>
  BY StepCounts DEF Next, TickConnects, WorkerReads, WorkerStarts, threads, cache, settings
<1>2. JobsDeclared'
  BY <1>1, DeclaredKept DEF UsedInv
<1>3. DOMAIN link = LinkFields /\ DOMAIN link.worker = WorkerFields
  BY DEF Inv, LinkInv, LinkFields, WorkerFields
<1>4. Selectable(routing)' = Selectable(routing)
  BY <1>1 DEF Selectable
<1>5. CASE TickConnects
  <2>1. link' = [link EXCEPT !.state = "ConnectPending", !.tunnel = NoTunnel,
                             !.worker = [NoWorker EXCEPT !.on = TRUE, !.plan = Plan]]
    BY <1>5 DEF TickConnects
  <2>2. ~link'.tunnel.up /\ link'.worker.plan = Plan /\ ~link'.worker.read
    BY <1>3, <2>1 DEF LinkFields, NoTunnel, NoWorker
  <2>3. RuleSets(Plan) \subseteq Selectable(routing)
    BY PlanIsDeclared DEF Selectable, Plan
  <2>4. WorkerOK' /\ RoutedFromSource'
    BY <1>4, <2>2, <2>3 DEF WorkerOK, RoutedFromSource
  <2> QED
    BY <1>2, <2>4 DEF UsedInv
<1>6. CASE WorkerReads
  <2> DEFINE used == Available(link.worker.plan)
  <2>1. link.worker.on /\ link' = [link EXCEPT !.worker.read = TRUE, !.worker.used = used]
    BY <1>6 DEF WorkerReads
  <2>2. ASSUME NEW rs \in used, ~link.worker.edited
        PROVE  /\ rs \in RuleSets(link.worker.plan)
               /\ count.disk = 0 => meta.records[rs.key].url = rs.url
    <3>1. rs \in RuleSets(link.worker.plan) /\ HasCurrent(meta, files, rs)
      BY <2>2 DEF Available
    <3>2. rs.key \in Keys
      BY <2>1, <2>2, <3>1, PlanIsDeclared DEF UsedInv, WorkerOK, ConstantsOK
    <3> QED
      BY <3>1, <3>2 DEF HasCurrent, Describes, Inv, CacheInv, Sourced
  <2> HIDE DEF used
  <2>3. /\ link'.tunnel = link.tunnel /\ link'.worker.plan = link.worker.plan
        /\ link'.worker.edited = link.worker.edited /\ link'.worker.used = used
    BY <1>3, <2>1 DEF LinkFields, WorkerFields
  <2>4. RoutedFromSource'
    BY <1>1, <2>3, RoutedKept DEF UsedInv
  <2>5. WorkerOK'
    BY <1>1, <1>4, <2>1, <2>2, <2>3 DEF UsedInv, WorkerOK
  <2> QED
    BY <1>2, <2>4, <2>5 DEF UsedInv
<1>7. CASE WorkerStarts
  <2> DEFINE plan == link.worker.plan
  <2> DEFINE used == link.worker.used
  <2> DEFINE from == [k \in KeysOf(used) |-> files[k].url]
  <2>1. /\ link.worker.on /\ link.worker.read /\ \A rs \in used : files[rs.key].usable
        /\ link' = [link EXCEPT !.worker = NoWorker,
                       !.tunnel = [up |-> TRUE, plan |-> plan, edited |-> link.worker.edited,
                                   from |-> from]]
    BY <1>7 DEF WorkerStarts
  <2>2. ASSUME ~link.worker.edited, NEW rs \in RuleSets(plan), rs.key \in DOMAIN from,
               rs.key \notin stale, ~(count.disk > 0)
        PROVE  from[rs.key] = rs.url
    <3>1. count.disk = 0
      BY <2>2 DEF Inv, CacheInv, Events
    <3>2. PICK same \in used : same.key = rs.key
      BY <2>2 DEF KeysOf
    <3>3. /\ rs \in Selectable(routing) /\ same \in Selectable(routing)
          /\ meta.records[same.key].url = same.url
      BY <2>1, <2>2, <3>1, <3>2 DEF UsedInv, WorkerOK
    <3>4. same = rs /\ rs.key \in Keys
      BY <3>2, <3>3, PlanIsDeclared DEF ConstantsOK
    <3>5. files[rs.key].url = rs.url
      BY <2>1, <3>1, <3>2, <3>3, <3>4 DEF Inv, CacheInv, Sourced
    <3> QED
      BY <2>2, <3>5
  <2>3. /\ ~link'.worker.on /\ link'.tunnel.plan = plan /\ link'.tunnel.from = from
        /\ link'.tunnel.edited = link.worker.edited
    BY <1>3, <2>1 DEF LinkFields, NoWorker
  <2> HIDE DEF from
  <2>4. RoutedFromSource' /\ WorkerOK'
    BY <1>1, <2>2, <2>3 DEF RoutedFromSource, WorkerOK
  <2> QED
    BY <1>2, <2>4 DEF UsedInv
<1> QED
  BY <1>5, <1>6, <1>7

LEMMA UsedStepKeeps == ASSUME ConstantsOK, Inv, UsedInv, Next PROVE UsedInv'
<1>1. CASE Restart
  <2>1. jobs' = {} /\ link' = IdleLink
    BY <1>1 DEF Restart
  <2> QED
    BY <2>1, IdleIsDown DEF UsedInv, JobsDeclared, WorkerOK, RoutedFromSource
<1> QED
  BY <1>1, StartsUsed, ConnectedUsed, OthersUsed, ThreadsUsed, AdoptUsed, ReloadUsed, WorkerUsed DEF Next

LEMMA UsedStutterKeeps == ASSUME UsedInv, UNCHANGED vars PROVE UsedInv'
<1>1. UNCHANGED <<routing, meta, jobs, link, stale, count>>
  BY DEF vars, settings, model, cache, threads
<1> QED
  BY <1>1 DEF UsedInv, JobsDeclared, WorkerOK, RoutedFromSource, Selectable

LEMMA UsedStartsRight == ASSUME Init PROVE UsedInv
<1>1. jobs = {} /\ link = IdleLink
  BY DEF Init
<1> QED
  BY <1>1, IdleIsDown DEF UsedInv, JobsDeclared, WorkerOK, RoutedFromSource

\* However schedules, keys, edits of routing.json, connects and restarts
\* fall, no file is downloaded by two threads at once.  While metadata can be
\* written, a tunnel only opens files of the address its plan has, although
\* threads remove and replace files between the worker's look at the cache
\* and the start of sing-box; not if routing.json changed after the worker
\* took the plan, or while the file was downloaded from another address.
THEOREM FilesHaveTheirSource ==
    ASSUME ConstantsOK PROVE Spec => [](OneDownloadPerFile /\ RoutedFromSource)
<1> DEFINE Both == Inv /\ UsedInv
<1>1. Init => Both
  BY StartsRight, UsedStartsRight
<1>2. Both /\ [Next]_vars => Both'
  BY StepKeeps, StutterKeeps, UsedStepKeeps, UsedStutterKeeps
<1>3. Both => OneDownloadPerFile /\ RoutedFromSource
  BY DEF Inv, DownloadInv, UsedInv
<1> HIDE DEF Both
<1> QED
  BY <1>1, <1>2, <1>3, PTL DEF Spec

-----------------------------------------------------------------------------
(* What the daemon knows of the cache.                                     *)

\* What is known of a rule-set: what its file and record say, and its schedule.
Data == {"present", "checked"}
Times == {"retry", "next"}
IsState(s) == s = [f \in Data \cup Times |-> s[f]]

\* What the cache holds of one rule-set.
StateOf(m, f, rs) ==
    [present |-> HasCurrent(m, f, rs), checked |-> RecordOf(m, rs).checked,
     retry |-> RecordOf(m, rs).retry, next |-> RecordOf(m, rs).next]

Agree(s, d, fs) == \A f \in fs : s[f] = d[f]

\* A message that brings the state of a file, of one of the epochs.
Tells(m, k) == m.type \in {"Updated", "Refreshed"} /\ k \in DOMAIN m.states
Brings(m, k, epochs) == Tells(m, k) /\ m.epoch \in epochs

\* The last message that brings it agrees with d, or what was known before
\* if there is none.
Latest(ms, old, k, epochs, d, fs) ==
    /\ \A i \in 1..Len(ms) :
          (Brings(ms[i], k, epochs) /\ \A l \in 1..Len(ms) : l > i => ~Brings(ms[l], k, epochs))
              => Agree(ms[i].states[k], d, fs)
    /\ (\A i \in 1..Len(ms) : ~Brings(ms[i], k, epochs)) => Agree(old, d, fs)

\* All messages say of a file that it is there, or all that it is not; all
\* that come with or after a report on its download.
AllSay(ms, k, p) == \A i \in 1..Len(ms) : Tells(ms[i], k) => ms[i].states[k].present = p
Reports(ms, k, p) ==
    \E i \in 1..Len(ms) :
        /\ ms[i].type = "Updated" /\ k \in DOMAIN ms[i].reports
        /\ \A l \in 1..Len(ms) : (l >= i /\ Tells(ms[l], k)) => ms[l].states[k].present = p

IsSeq(ms) == \E S : ms \in Seq(S)

-----------------------------------------------------------------------------
(* What the messages under way say.                                        *)

\* Superseding the reports of connects changes no news.
LEMMA SupersededSays ==
    ASSUME NEW ms, IsSeq(ms)
    PROVE  /\ IsSeq(Superseded(ms)) /\ Len(Superseded(ms)) = Len(ms)
           /\ \A i \in 1..Len(ms) :
                 /\ ms[i].type = "Connected" => Superseded(ms)[i] = [type |-> "Superseded"]
                 /\ ms[i].type /= "Connected" => Superseded(ms)[i] = ms[i]
<1>1. PICK S : ms \in Seq(S)
  BY DEF IsSeq
<1> DEFINE T == S \cup {[type |-> "Superseded"]}
<1> DEFINE new == Superseded(ms)
<1>2. new = [i \in 1..Len(ms) |-> IF ms[i].type = "Connected" THEN [type |-> "Superseded"] ELSE ms[i]]
  BY <1>1 DEF Superseded
<1>3. new \in Seq(T) /\ Len(new) = Len(ms)
  BY <1>1, <1>2
<1> HIDE DEF T
<1> QED
  BY <1>2, <1>3 DEF IsSeq

LEMMA AppendSays ==
    ASSUME NEW ms, NEW m, IsSeq(ms)
    PROVE  /\ IsSeq(Append(ms, m)) /\ Len(ms) \in Nat /\ Len(Append(ms, m)) = Len(ms) + 1
           /\ Append(ms, m)[Len(ms) + 1] = m
           /\ \A i \in 1..Len(ms) : Append(ms, m)[i] = ms[i]
           /\ \A i \in 1..Len(ms) + 1 : i \in 1..Len(ms) \/ i = Len(ms) + 1
<1>1. PICK S : ms \in Seq(S)
  BY DEF IsSeq
<1>2. Append(ms, m) \in Seq(S \cup {m})
  BY <1>1
<1> QED
  BY <1>1, <1>2 DEF IsSeq

LEMMA TailSays ==
    ASSUME NEW ms, IsSeq(ms), ms /= <<>>
    PROVE  /\ IsSeq(Tail(ms)) /\ Len(ms) \in Nat \ {0} /\ Len(Tail(ms)) = Len(ms) - 1
           /\ Head(ms) = ms[1]
           /\ \A i \in 1..Len(Tail(ms)) : Tail(ms)[i] = ms[i + 1] /\ i + 1 \in 1..Len(ms) /\ i + 1 > 1
           /\ \A i \in 1..Len(ms) : i = 1 \/ i - 1 \in 1..Len(Tail(ms))
<1>1. PICK S : ms \in Seq(S)
  BY DEF IsSeq
<1> QED
  BY <1>1 DEF IsSeq

LEMMA LatestSuperseded ==
    ASSUME NEW ms, IsSeq(ms), NEW old, NEW k, NEW epochs, NEW d, NEW fs,
           Latest(ms, old, k, epochs, d, fs)
    PROVE  Latest(Superseded(ms), old, k, epochs, d, fs)
<1> DEFINE new == Superseded(ms)
<1>1. \A i \in 1..Len(ms) : /\ Brings(new[i], k, epochs) <=> Brings(ms[i], k, epochs)
                            /\ Brings(ms[i], k, epochs) => new[i] = ms[i]
  BY SupersededSays DEF Brings, Tells
<1>2. Len(new) = Len(ms)
  BY SupersededSays
<1> HIDE DEF new
<1> QED
  BY <1>1, <1>2 DEF Latest, new

LEMMA LatestAppend ==
    ASSUME NEW ms, IsSeq(ms), NEW m, NEW old, NEW k, NEW epochs, NEW d, NEW fs
    PROVE  /\ Latest(ms, old, k, epochs, d, fs) /\ ~Brings(m, k, epochs)
                => Latest(Append(ms, m), old, k, epochs, d, fs)
           /\ Brings(m, k, epochs) /\ Agree(m.states[k], d, fs)
                => Latest(Append(ms, m), old, k, epochs, d, fs)
<1> DEFINE new == Append(ms, m)
<1>1. /\ Len(ms) \in Nat /\ Len(new) = Len(ms) + 1 /\ new[Len(ms) + 1] = m
      /\ \A i \in 1..Len(ms) : new[i] = ms[i]
      /\ \A i \in 1..Len(new) : i \in 1..Len(ms) \/ i = Len(ms) + 1
  BY AppendSays
<1> HIDE DEF new
<1>2. ASSUME Latest(ms, old, k, epochs, d, fs), ~Brings(m, k, epochs)
      PROVE  Latest(new, old, k, epochs, d, fs)
  <2>1. ASSUME NEW i \in 1..Len(new), Brings(new[i], k, epochs),
               \A l \in 1..Len(new) : l > i => ~Brings(new[l], k, epochs)
        PROVE  Agree(new[i].states[k], d, fs)
    <3>1. i \in 1..Len(ms) /\ new[i] = ms[i]
      BY <1>1, <1>2, <2>1
    <3>2. \A l \in 1..Len(ms) : l > i => ~Brings(ms[l], k, epochs)
      BY <1>1, <2>1
    <3> QED
      BY <1>2, <2>1, <3>1, <3>2 DEF Latest
  <2>2. ASSUME \A i \in 1..Len(new) : ~Brings(new[i], k, epochs) PROVE Agree(old, d, fs)
    <3>1. \A i \in 1..Len(ms) : ~Brings(ms[i], k, epochs)
      BY <1>1, <2>2
    <3> QED
      BY <1>2, <3>1 DEF Latest
  <2> QED
    BY <2>1, <2>2 DEF Latest
<1>3. ASSUME Brings(m, k, epochs), Agree(m.states[k], d, fs)
      PROVE  Latest(new, old, k, epochs, d, fs)
  <2>1. ASSUME NEW i \in 1..Len(new), Brings(new[i], k, epochs),
               \A l \in 1..Len(new) : l > i => ~Brings(new[l], k, epochs)
        PROVE  Agree(new[i].states[k], d, fs)
    <3>1. i = Len(ms) + 1
      BY <1>1, <1>3, <2>1
    <3> QED
      BY <1>1, <1>3, <3>1
  <2>2. Len(ms) + 1 \in 1..Len(new) /\ Brings(new[Len(ms) + 1], k, epochs)
    BY <1>1, <1>3
  <2> QED
    BY <2>1, <2>2 DEF Latest
<1> QED
  BY <1>2, <1>3 DEF new

\* What the main loop takes over from the first message it had before from
\* the list.
LEMMA LatestTail ==
    ASSUME NEW ms, IsSeq(ms), ms /= <<>>, NEW old, NEW new, NEW k, NEW epochs, NEW d, NEW fs,
           Latest(ms, old, k, epochs, d, fs),
           Brings(Head(ms), k, epochs) => Agree(new, Head(ms).states[k], fs),
           ~Brings(Head(ms), k, epochs) => Agree(new, old, fs)
    PROVE  Latest(Tail(ms), new, k, epochs, d, fs)
<1> DEFINE rest == Tail(ms)
<1>1. /\ Len(ms) \in Nat \ {0} /\ Len(rest) = Len(ms) - 1 /\ Head(ms) = ms[1]
      /\ \A i \in 1..Len(rest) : rest[i] = ms[i + 1] /\ i + 1 \in 1..Len(ms)
      /\ \A i \in 1..Len(ms) : i = 1 \/ i - 1 \in 1..Len(rest)
  BY TailSays
<1> HIDE DEF rest
<1>2. ASSUME NEW i \in 1..Len(rest), Brings(rest[i], k, epochs),
             \A l \in 1..Len(rest) : l > i => ~Brings(rest[l], k, epochs)
      PROVE  Agree(rest[i].states[k], d, fs)
  <2>1. ASSUME NEW l \in 1..Len(ms), l > i + 1 PROVE ~Brings(ms[l], k, epochs)
    <3>1. l - 1 \in 1..Len(rest) /\ l - 1 > i /\ rest[l - 1] = ms[l]
      BY <1>1, <2>1
    <3> QED
      BY <1>2, <3>1
  <2>2. i + 1 \in 1..Len(ms) /\ rest[i] = ms[i + 1]
    BY <1>1
  <2> QED
    BY <1>2, <2>1, <2>2 DEF Latest
<1>3. ASSUME \A i \in 1..Len(rest) : ~Brings(rest[i], k, epochs) PROVE Agree(new, d, fs)
  <2>1. ASSUME NEW l \in 1..Len(ms), l > 1 PROVE ~Brings(ms[l], k, epochs)
    <3>1. l - 1 \in 1..Len(rest) /\ rest[l - 1] = ms[l]
      BY <1>1, <2>1
    <3> QED
      BY <1>3, <3>1
  <2>2. 1 \in 1..Len(ms)
    BY <1>1
  <2>3. CASE Brings(Head(ms), k, epochs)
    <3>1. Agree(Head(ms).states[k], d, fs)
      BY <1>1, <2>1, <2>2, <2>3 DEF Latest
    <3> QED
      BY <2>3, <3>1 DEF Agree
  <2>4. CASE ~Brings(Head(ms), k, epochs)
    <3>1. \A l \in 1..Len(ms) : ~Brings(ms[l], k, epochs)
      BY <1>1, <2>1, <2>4
    <3>2. Agree(old, d, fs)
      BY <3>1 DEF Latest
    <3> QED
      BY <2>4, <3>2 DEF Agree
  <2> QED
    BY <2>3, <2>4
<1> QED
  BY <1>2, <1>3 DEF Latest, rest

LEMMA ReportsSuperseded ==
    ASSUME NEW ms, IsSeq(ms), NEW k, NEW p
    PROVE  /\ Reports(ms, k, p) => Reports(Superseded(ms), k, p)
           /\ AllSay(ms, k, p) => AllSay(Superseded(ms), k, p)
<1> DEFINE new == Superseded(ms)
<1>1. \A i \in 1..Len(ms) :
          /\ Tells(new[i], k) => Tells(ms[i], k) /\ new[i] = ms[i]
          /\ ms[i].type = "Updated" => new[i] = ms[i]
  BY SupersededSays DEF Tells
<1>2. Len(new) = Len(ms)
  BY SupersededSays
<1> HIDE DEF new
<1>3. Reports(ms, k, p) => Reports(new, k, p)
  BY <1>1, <1>2 DEF Reports
<1>4. AllSay(ms, k, p) => AllSay(new, k, p)
  BY <1>1, <1>2 DEF AllSay
<1> QED
  BY <1>3, <1>4 DEF new

LEMMA ReportsAppend ==
    ASSUME NEW ms, IsSeq(ms), NEW m, NEW k, NEW p, Tells(m, k) => m.states[k].present = p
    PROVE  /\ Reports(ms, k, p) => Reports(Append(ms, m), k, p)
           /\ AllSay(ms, k, p) => AllSay(Append(ms, m), k, p)
           /\ m.type = "Updated" /\ k \in DOMAIN m.reports => Reports(Append(ms, m), k, p)
<1> DEFINE new == Append(ms, m)
<1>1. /\ Len(ms) \in Nat /\ Len(new) = Len(ms) + 1 /\ new[Len(ms) + 1] = m
      /\ \A i \in 1..Len(ms) : new[i] = ms[i]
      /\ \A i \in 1..Len(new) : i \in 1..Len(ms) \/ i = Len(ms) + 1
  BY AppendSays
<1> HIDE DEF new
<1>2. ASSUME Reports(ms, k, p) PROVE Reports(new, k, p)
  <2>1. PICK i \in 1..Len(ms) :
            /\ ms[i].type = "Updated" /\ k \in DOMAIN ms[i].reports
            /\ \A l \in 1..Len(ms) : (l >= i /\ Tells(ms[l], k)) => ms[l].states[k].present = p
    BY <1>2 DEF Reports
  <2>2. i \in 1..Len(new) /\ new[i] = ms[i]
    BY <1>1
  <2>3. \A l \in 1..Len(new) : (l >= i /\ Tells(new[l], k)) => new[l].states[k].present = p
    BY <1>1, <2>1
  <2> QED
    BY <2>1, <2>2, <2>3 DEF Reports
<1>3. AllSay(ms, k, p) => AllSay(new, k, p)
  BY <1>1 DEF AllSay
<1>4. ASSUME m.type = "Updated", k \in DOMAIN m.reports PROVE Reports(new, k, p)
  <2>1. Len(ms) + 1 \in 1..Len(new)
    BY <1>1
  <2>2. \A l \in 1..Len(new) : l >= Len(ms) + 1 => new[l] = m
    BY <1>1
  <2> QED
    BY <1>1, <1>4, <2>1, <2>2 DEF Reports
<1> QED
  BY <1>2, <1>3, <1>4 DEF new

LEMMA ReportsTail ==
    ASSUME NEW ms, IsSeq(ms), ms /= <<>>, NEW k, NEW p
    PROVE  /\ Reports(ms, k, p) => Reports(Tail(ms), k, p)
                 \/ (Head(ms).type = "Updated" /\ k \in DOMAIN Head(ms).reports /\ AllSay(ms, k, p))
           /\ AllSay(ms, k, p) => AllSay(Tail(ms), k, p)
<1> DEFINE rest == Tail(ms)
<1>1. /\ Len(ms) \in Nat \ {0} /\ Len(rest) = Len(ms) - 1 /\ Head(ms) = ms[1]
      /\ \A i \in 1..Len(rest) : rest[i] = ms[i + 1] /\ i + 1 \in 1..Len(ms)
      /\ \A i \in 1..Len(ms) : i = 1 \/ i - 1 \in 1..Len(rest)
  BY TailSays
<1> HIDE DEF rest
<1>2. ASSUME Reports(ms, k, p)
      PROVE  \/ Reports(rest, k, p)
             \/ (Head(ms).type = "Updated" /\ k \in DOMAIN Head(ms).reports /\ AllSay(ms, k, p))
  <2>1. PICK i \in 1..Len(ms) :
            /\ ms[i].type = "Updated" /\ k \in DOMAIN ms[i].reports
            /\ \A l \in 1..Len(ms) : (l >= i /\ Tells(ms[l], k)) => ms[l].states[k].present = p
    BY <1>2 DEF Reports
  <2>2. CASE i = 1
    <3>1. AllSay(ms, k, p)
      BY <2>1, <2>2 DEF AllSay
    <3> QED
      BY <1>1, <2>1, <2>2, <3>1
  <2>3. CASE i /= 1
    <3>1. i - 1 \in 1..Len(rest) /\ rest[i - 1] = ms[i]
      BY <1>1, <2>3
    <3>2. \A l \in 1..Len(rest) : l >= i - 1 => l + 1 >= i
      BY <1>1
    <3>3. \A l \in 1..Len(rest) : (l >= i - 1 /\ Tells(rest[l], k)) => rest[l].states[k].present = p
      BY <1>1, <2>1, <3>2
    <3> QED
      BY <2>1, <3>1, <3>3 DEF Reports
  <2> QED
    BY <2>2, <2>3
<1>3. AllSay(ms, k, p) => AllSay(rest, k, p)
  BY <1>1 DEF AllSay
<1> QED
  BY <1>2, <1>3 DEF rest

-----------------------------------------------------------------------------
(* What the daemon knows of the cache, or is about to learn.               *)

Epochs == 0..epoch

News(m) ==
    /\ m.type \in {"Updated", "Refreshed"} =>
          /\ m.epoch \in Epochs
          /\ DOMAIN m.states \subseteq Keys
          /\ \A k \in DOMAIN m.states : IsState(m.states[k])
    /\ m.type = "Updated" => DOMAIN m.reports = DOMAIN m.states

ReaderOK(t) ==
    /\ DOMAIN t = {"sets", "epoch", "read", "states"}
    /\ Declared(t.sets)
    /\ t.epoch \in Epochs
    /\ t.read => DOMAIN t.states = KeysOf(t.sets) /\ \A k \in KeysOf(t.sets) : IsState(t.states[k])

\* A thread reports on all its rule-sets before it ends.
Complete(j) ==
    /\ j.epoch \in Epochs /\ j.write.epoch = j.epoch
    /\ \A rs \in j.sets : rs.key \in DOMAIN j.reports \/ \E i \in 1..Len(j.todo) : j.todo[i] = rs
    /\ j.phase = "record" => Head(j.todo).key \in DOMAIN j.reports
    /\ j.phase = "send" => j.todo = <<>>

Shapes ==
    /\ epoch \in Nat /\ meta.epoch = epoch
    /\ DOMAIN states = Keys /\ \A k \in Keys : IsState(states[k])
    /\ \A i \in 1..Len(msgs) : News(msgs[i])
    /\ \A t \in refreshes : ReaderOK(t)
    /\ \A j \in jobs : Complete(j)

\* Every mark has a thread or a message that will end it.
Reported == {k \in Keys : \E i \in 1..Len(msgs) : msgs[i].type = "Updated" /\ k \in DOMAIN msgs[i].reports}
MarksUnderWay == Marked \subseteq Busy \cup Reported

\* At most one report of a connect is believed, that of the tunnel, and a
\* fallback has something that is required.
LinkOrder ==
    /\ link.worker.on => link.state = "ConnectPending"
    /\ \A i \in 1..Len(msgs) : msgs[i].type = "Connected" =>
          /\ link.state = "ConnectPending" /\ ~link.worker.on
          /\ msgs[i].fallback => Required(link.tunnel.plan) /= {}
          /\ \A l \in 1..Len(msgs) : msgs[l].type = "Connected" => l = i
    /\ link.state = "Connected" /\ link.fallback => Required(link.tunnel.plan) /= {}

\* Threads download what routing.json declares.
SourcesInv ==
    \A j \in jobs : \A rs \in j.sets, declared \in Selectable(routing) :
        declared.key = rs.key => declared = rs

OfEpoch(k, e, js) == \E j \in js : j.epoch = e /\ k \in KeysOf(j.sets)
Overtaken(k, e, js) == \E j \in js : j.epoch /= e /\ k \in KeysOf(j.sets)

\* Of each rule-set the last message says what the cache holds, or a thread
\* will.  A schedule counts if it is of the current epoch; while a thread of
\* an older one downloads, nobody changes it.
Known(rs) ==
    LET k == rs.key
        d == StateOf(meta, files, rs)
    IN  /\ \/ Latest(msgs, states[k], k, Nat, d, Data)
           \/ k \in Busy
           \/ \E t \in refreshes : k \in KeysOf(t.sets)
        /\ \/ Latest(msgs, states[k], k, {epoch}, d, Times)
           \/ OfEpoch(k, epoch, jobs)
           \/ OfEpoch(k, epoch, refreshes)
        /\ \A t \in refreshes :
              (t.epoch = epoch /\ k \in KeysOf(t.sets) /\ Overtaken(k, epoch, jobs)) =>
                  /\ rs \in t.sets
                  /\ t.read => Agree(t.states[k], d, Times)
        /\ k \in Marked => k \in Busy \/ Reports(msgs, k, d.present)

InFallback == link.state = "Connected" /\ link.fallback /\ link.tunnel.plan = Plan

\* A fallback waits for a download or for a file that is missing, and of
\* what is not marked the daemon and all messages know it.
FallbackInv ==
    InFallback =>
        /\ \E rs \in Required(Plan) : rs.key \in Marked \/ ~HasCurrent(meta, files, rs)
        /\ \A rs \in RuleSets(Plan) : rs.key \notin Marked =>
              /\ states[rs.key].present = StateOf(meta, files, rs).present
              /\ AllSay(msgs, rs.key, StateOf(meta, files, rs).present)

StatesInv ==
    stale = {} =>
        /\ SourcesInv
        /\ \A rs \in Selectable(routing) : Known(rs)
        /\ FallbackInv

StateInv == Shapes /\ MarksUnderWay /\ LinkOrder /\ StatesInv

-----------------------------------------------------------------------------
(* The cache and what is read of it.                                       *)

LEMMA StateIsState ==
    ASSUME NEW m, NEW f, NEW rs PROVE IsState(StateOf(m, f, rs))
BY DEF IsState, StateOf, Data, Times

\* GeoManager::states of declared rule-sets has the state of each.
LEMMA StatesRead ==
    ASSUME ConstantsOK, NEW sets, Declared(sets), NEW m, NEW f
    PROVE  /\ DOMAIN StatesOf(m, f, sets) = KeysOf(sets)
           /\ \A rs \in sets : StatesOf(m, f, sets)[rs.key] = StateOf(m, f, rs)
           /\ \A k \in KeysOf(sets) : IsState(StatesOf(m, f, sets)[k])
           /\ KeysOf(sets) \subseteq Keys
<1>1. DOMAIN StatesOf(m, f, sets) = KeysOf(sets)
  BY DEF StatesOf, KeysOf
<1>2. ASSUME NEW rs \in sets PROVE StatesOf(m, f, sets)[rs.key] = StateOf(m, f, rs)
  <2>1. rs.key \in {r.key : r \in sets}
    OBVIOUS
  <2>2. (CHOOSE r \in sets : r.key = rs.key) = rs
    BY DEF Declared, ConstantsOK
  <2> QED
    BY <2>1, <2>2 DEF StatesOf, StateOf
<1>3. \A k \in KeysOf(sets) : \E rs \in sets : rs.key = k
  BY DEF KeysOf
<1>4. KeysOf(sets) \subseteq Keys
  BY DEF KeysOf, Declared, ConstantsOK
<1> QED
  BY <1>1, <1>2, <1>3, <1>4, StateIsState

\* apply_rule_set_states: what is told is taken over, but a schedule only
\* if it is of the current epoch.
LEMMA AppliedIs ==
    ASSUME NEW old, DOMAIN old = Keys, \A k \in Keys : IsState(old[k]),
           NEW known, DOMAIN known \subseteq Keys, \A k \in DOMAIN known : IsState(known[k]),
           NEW e
    PROVE  /\ DOMAIN Applied(old, known, e) = Keys
           /\ \A k \in Keys : IsState(Applied(old, known, e)[k])
           /\ \A k \in DOMAIN known : Agree(Applied(old, known, e)[k], known[k], Data)
           /\ e = epoch => \A k \in DOMAIN known : Agree(Applied(old, known, e)[k], known[k], Times)
           /\ e /= epoch => \A k \in DOMAIN known : Agree(Applied(old, known, e)[k], old[k], Times)
           /\ \A k \in Keys \ DOMAIN known : Applied(old, known, e)[k] = old[k]
<1> DEFINE new == Applied(old, known, e)
<1>1. DOMAIN new = Keys
  BY DEF Applied, Put
<1>2. ASSUME NEW k \in DOMAIN known
      PROVE  new[k] = IF e = epoch THEN known[k]
                      ELSE [known[k] EXCEPT !.retry = old[k].retry, !.next = old[k].next]
  BY <1>2 DEF Applied, Put
<1>3. ASSUME NEW k \in Keys \ DOMAIN known PROVE new[k] = old[k]
  BY <1>3 DEF Applied, Put
<1> HIDE DEF new
<1>4. ASSUME NEW k \in DOMAIN known
      PROVE  /\ IsState(new[k]) /\ Agree(new[k], known[k], Data)
             /\ e = epoch => Agree(new[k], known[k], Times)
             /\ e /= epoch => Agree(new[k], old[k], Times)
  <2>1. CASE e = epoch
    BY <1>2, <2>1 DEF Agree
  <2>2. CASE e /= epoch
    <3> DEFINE s == known[k]
    <3> DEFINE changed == [s EXCEPT !.retry = old[k].retry, !.next = old[k].next]
    <3>1. new[k] = changed
      BY <1>2, <2>2
    <3>2. s = [f \in Data \cup Times |-> s[f]]
      BY DEF IsState
    <3> HIDE DEF s
    <3>3. /\ changed = [f \in Data \cup Times |-> changed[f]]
          /\ changed["present"] = s["present"] /\ changed["checked"] = s["checked"]
          /\ changed["retry"] = old[k]["retry"] /\ changed["next"] = old[k]["next"]
      BY <3>2 DEF Data, Times
    <3> HIDE DEF changed
    <3> QED
      BY <2>2, <3>1, <3>3 DEF IsState, Agree, Data, Times, s
  <2> QED
    BY <2>1, <2>2
<1> QED
  BY <1>1, <1>3, <1>4 DEF new

LEMMA StateSame ==
    ASSUME NEW m, NEW f, NEW n, NEW g, NEW rs, n.records[rs.key] = m.records[rs.key], g[rs.key] = f[rs.key]
    PROVE  StateOf(n, g, rs) = StateOf(m, f, rs) /\ (HasCurrent(n, g, rs) <=> HasCurrent(m, f, rs))
BY DEF StateOf, HasCurrent, RecordOf, Describes

\* adopt_source changes no schedule that counts.
LEMMA AdoptedState ==
    ASSUME NEW m, MetaOK(m), NEW f, NEW rs, rs.key \in Keys, NEW n, NEW g,
           \/ n.records[rs.key] = m.records[rs.key]
           \/ n.records[rs.key] = Adopted(m.records[rs.key], rs)
    PROVE  Agree(StateOf(n, g, rs), StateOf(m, f, rs), Times)
<1> DEFINE record == m.records[rs.key]
<1>2. n.records[rs.key] = record \/ n.records[rs.key] = Adopted(record, rs)
  OBVIOUS
<1>3. DOMAIN record = {"url", "etag", "checked", "retry", "next"}
  BY DEF MetaOK
<1>4. CASE Describes(record, rs)
  <2>1. /\ Adopted(record, rs).retry = record.retry /\ Adopted(record, rs).next = record.next
        /\ Adopted(record, rs).url = rs.url
    BY <1>3, <1>4 DEF Adopted
  <2>2. Describes(n.records[rs.key], rs) /\ n.records[rs.key].retry = record.retry
        /\ n.records[rs.key].next = record.next
    BY <1>2, <1>4, <2>1 DEF Describes
  <2> HIDE DEF record
  <2>3. RecordOf(n, rs).retry = record.retry /\ RecordOf(n, rs).next = record.next
        /\ RecordOf(m, rs) = record
    BY <1>4, <2>2 DEF RecordOf, record
  <2> QED
    BY <2>3 DEF Agree, Times, StateOf
<1>5. CASE ~Describes(record, rs)
  <2>1. RecordOf(m, rs) = NoRecord
    BY <1>5 DEF RecordOf
  <2>2. DOMAIN NoRecord = {"url", "etag", "checked", "retry", "next"}
    BY DEF NoRecord
  <2>3. Adopted(record, rs).retry = NoRecord.retry /\ Adopted(record, rs).next = NoRecord.next
    BY <1>5, <2>2 DEF Adopted
  <2>4. RecordOf(n, rs).retry = NoRecord.retry /\ RecordOf(n, rs).next = NoRecord.next
    BY <1>2, <1>5, <2>3 DEF RecordOf
  <2> QED
    BY <2>1, <2>4 DEF Agree, Times, StateOf
<1> QED
  BY <1>4, <1>5

\* record_outcome writes a schedule only for a thread of its epoch.
LEMMA RecordedState ==
    ASSUME NEW m, NEW f, NEW rs, NEW outcome, NEW write, NEW time, NEW n,
           MetaOK(m), rs.key \in Keys, write.epoch /= m.epoch,
           \/ n.records[rs.key] = m.records[rs.key]
           \/ n.records[rs.key] = Recorded(m, rs, outcome, write, time)
    PROVE  Agree(StateOf(n, f, rs), StateOf(m, f, rs), Times)
<1> DEFINE record == m.records[rs.key]
<1> DEFINE recorded == Recorded(m, rs, outcome, write, time)
<1>1. recorded.url = record.url /\ recorded.retry = record.retry /\ recorded.next = record.next
  BY DEF Recorded, MetaOK
<1>2. n.records[rs.key] = record \/ n.records[rs.key] = recorded
  OBVIOUS
<1> HIDE DEF recorded
<1>3. RecordOf(n, rs).retry = RecordOf(m, rs).retry /\ RecordOf(n, rs).next = RecordOf(m, rs).next
  BY <1>1, <1>2 DEF RecordOf, Describes
<1> QED
  BY <1>3 DEF Agree, Times, StateOf

\* A new schedule says nothing else of a file.
LEMMA ScheduledState ==
    ASSUME NEW m, MetaOK(m), NEW f, NEW sets, NEW enabled, NEW time, NEW rs, rs.key \in Keys
    PROVE  /\ Agree(StateOf(ResetSchedules(m, sets, enabled, time), f, rs), StateOf(m, f, rs), Data)
           /\ HasCurrent(ResetSchedules(m, sets, enabled, time), f, rs) <=> HasCurrent(m, f, rs)
<1> DEFINE n == ResetSchedules(m, sets, enabled, time)
<1>1. /\ n.records[rs.key].url = m.records[rs.key].url
      /\ n.records[rs.key].checked = m.records[rs.key].checked
  BY DEF ResetSchedules, WithRecords, MetaOK
<1> HIDE DEF n
<1>4. HasCurrent(n, f, rs) <=> HasCurrent(m, f, rs)
  BY <1>1 DEF HasCurrent, Describes
<1>5. RecordOf(n, rs).checked = RecordOf(m, rs).checked
  BY <1>1 DEF RecordOf, Describes
<1>6. HasCurrent(n, f, rs) = HasCurrent(m, f, rs)
  BY <1>4 DEF HasCurrent, Describes
<1>7. Agree(StateOf(n, f, rs), StateOf(m, f, rs), Data)
  BY <1>5, <1>6 DEF Agree, Data, StateOf
<1> QED
  BY <1>4, <1>7 DEF n

-----------------------------------------------------------------------------
(* What a step leaves as it was, or a thread will tell.                    *)

LEMMA KnownStep ==
    ASSUME NEW rs, Known(rs), UNCHANGED epoch,
           LET k == rs.key
               d == StateOf(meta, files, rs)
               new == StateOf(meta', files', rs)
           IN  /\ Latest(msgs, states[k], k, Nat, d, Data)
                    => k \in Busy' \/ Latest(msgs', states'[k], k, Nat, new, Data)
               /\ Latest(msgs, states[k], k, {epoch}, d, Times)
                    => OfEpoch(k, epoch, jobs') \/ Latest(msgs', states'[k], k, {epoch}, new, Times)
               /\ k \in Busy => k \in Busy'
               /\ OfEpoch(k, epoch, jobs) => OfEpoch(k, epoch, jobs')
               /\ Overtaken(k, epoch, jobs') => Overtaken(k, epoch, jobs) /\ Agree(new, d, Times)
               /\ refreshes \subseteq refreshes'
               /\ \A t \in refreshes' \ refreshes : rs \in t.sets /\ ~t.read
               /\ k \in Marked' => \/ k \in Busy'
                                   \/ /\ k \in Marked
                                      /\ Reports(msgs, k, d.present) => Reports(msgs', k, new.present)
    PROVE  Known(rs)'
<1> DEFINE k == rs.key
<1> DEFINE d == StateOf(meta, files, rs)
<1> DEFINE new == StateOf(meta', files', rs)
<1>1. \/ Latest(msgs', states'[k], k, Nat, new, Data)
      \/ k \in Busy'
      \/ \E t \in refreshes' : k \in KeysOf(t.sets)
  BY DEF Known
<1>2. \/ Latest(msgs', states'[k], k, {epoch'}, new, Times)
      \/ OfEpoch(k, epoch', jobs')
      \/ OfEpoch(k, epoch', refreshes')
  <2>1. OfEpoch(k, epoch, refreshes) => OfEpoch(k, epoch, refreshes')
    BY DEF OfEpoch
  <2> QED
    BY <2>1 DEF Known
<1>3. ASSUME NEW t \in refreshes', t.epoch = epoch', k \in KeysOf(t.sets), Overtaken(k, epoch', jobs')
      PROVE  /\ rs \in t.sets
             /\ t.read => Agree(t.states[k], new, Times)
  <2>1. Overtaken(k, epoch, jobs) /\ Agree(new, d, Times)
    BY <1>3
  <2>2. CASE t \notin refreshes
    BY <2>2
  <2>3. CASE t \in refreshes
    <3>1. rs \in t.sets /\ (t.read => Agree(t.states[k], d, Times))
      BY <1>3, <2>1, <2>3 DEF Known
    <3> QED
      BY <2>1, <3>1 DEF Agree
  <2> QED
    BY <2>2, <2>3
<1>4. k \in Marked' => k \in Busy' \/ Reports(msgs', k, new.present)
  BY DEF Known
<1> HIDE DEF d, new
<1> QED
  BY <1>1, <1>2, <1>3, <1>4 DEF Known, k, new

LEMMA AgreeSame == ASSUME NEW s, NEW fs PROVE Agree(s, s, fs)
BY DEF Agree

\* A step that only changes the connection, or starts downloads or readers.
LEMMA KnownKept ==
    ASSUME NEW rs, Known(rs), UNCHANGED <<epoch, states, meta, files>>,
           LET k == rs.key IN
           /\ \A epochs, d, fs : Latest(msgs, states[k], k, epochs, d, fs)
                                   => Latest(msgs', states[k], k, epochs, d, fs)
           /\ \A p : Reports(msgs, k, p) => Reports(msgs', k, p)
           /\ jobs \subseteq jobs'
           /\ \A j \in jobs' \ jobs : j.epoch = epoch
           /\ refreshes \subseteq refreshes'
           /\ \A t \in refreshes' \ refreshes : rs \in t.sets /\ ~t.read
           /\ k \in Marked' => k \in Marked \/ k \in Busy'
    PROVE  Known(rs)'
<1> DEFINE k == rs.key
<1> DEFINE d == StateOf(meta, files, rs)
<1>1. StateOf(meta', files', rs) = d /\ states'[k] = states[k]
  OBVIOUS
<1>2. k \in Busy => k \in Busy'
  BY DEF Busy
<1>3. OfEpoch(k, epoch, jobs) => OfEpoch(k, epoch, jobs')
  BY DEF OfEpoch
<1>4. Overtaken(k, epoch, jobs') => Overtaken(k, epoch, jobs)
  BY DEF Overtaken
<1>5. Agree(d, d, Times)
  BY AgreeSame
<1> HIDE DEF d
<1>6. /\ Latest(msgs, states[k], k, Nat, d, Data) => Latest(msgs', states'[k], k, Nat, d, Data)
      /\ Latest(msgs, states[k], k, {epoch}, d, Times) => Latest(msgs', states'[k], k, {epoch}, d, Times)
      /\ Reports(msgs, k, d.present) => Reports(msgs', k, d.present)
  BY <1>1
<1> QED
  BY <1>1, <1>2, <1>3, <1>4, <1>5, <1>6, KnownStep DEF d

\* The same of the fallback.
LEMMA FallbackStep ==
    ASSUME FallbackInv, InFallback' => InFallback /\ Plan' = Plan,
           InFallback' =>
              /\ \A rs \in Required(Plan) :
                    (rs.key \in Marked \/ ~HasCurrent(meta, files, rs))
                        => (rs.key \in Marked' \/ ~HasCurrent(meta', files', rs))
              /\ \A rs \in RuleSets(Plan) :
                    (rs.key \notin Marked' =>
                       /\ rs.key \notin Marked
                       /\ states[rs.key].present = StateOf(meta, files, rs).present
                            => states'[rs.key].present = StateOf(meta', files', rs).present
                       /\ AllSay(msgs, rs.key, StateOf(meta, files, rs).present)
                            => AllSay(msgs', rs.key, StateOf(meta', files', rs).present))
    PROVE  FallbackInv'
<1> SUFFICES ASSUME InFallback'
             PROVE  /\ \E rs \in Required(Plan') : rs.key \in Marked' \/ ~HasCurrent(meta', files', rs)
                    /\ \A rs \in RuleSets(Plan') : rs.key \notin Marked' =>
                          /\ states'[rs.key].present = StateOf(meta', files', rs).present
                          /\ AllSay(msgs', rs.key, StateOf(meta', files', rs).present)
  BY DEF FallbackInv
<1>1. InFallback /\ Plan' = Plan
  OBVIOUS
<1>2. \E rs \in Required(Plan) : rs.key \in Marked' \/ ~HasCurrent(meta', files', rs)
  BY <1>1 DEF FallbackInv
<1>3. ASSUME NEW rs \in RuleSets(Plan), rs.key \notin Marked'
      PROVE  /\ states'[rs.key].present = StateOf(meta', files', rs).present
             /\ AllSay(msgs', rs.key, StateOf(meta', files', rs).present)
  BY <1>1, <1>3 DEF FallbackInv
<1> QED
  BY <1>1, <1>2, <1>3

-----------------------------------------------------------------------------
(* Shapes, marks and the order of connects.                                *)

LEMMA MsgsAreSeq == ASSUME Inv PROVE IsSeq(msgs)
BY DEF Inv, DownloadInv, Pending, IsSeq

LEMMA ShapesStep ==
    ASSUME Shapes, UNCHANGED epoch, meta'.epoch = meta.epoch,
           DOMAIN states' = Keys, \A k \in Keys : IsState(states'[k]),
           \A i \in 1..Len(msgs') : News(msgs'[i]),
           \A t \in refreshes' : t \in refreshes \/ ReaderOK(t),
           \A j \in jobs' : j \in jobs \/ Complete(j)
    PROVE  Shapes'
<1>1. Epochs' = Epochs
  BY DEF Epochs
<1>2. \A m : News(m) => News(m)'
  BY <1>1 DEF News
<1>3. \A t : ReaderOK(t) => ReaderOK(t)'
  BY <1>1 DEF ReaderOK
<1>4. \A j : Complete(j) => Complete(j)'
  BY <1>1 DEF Complete
<1> QED
  BY <1>2, <1>3, <1>4 DEF Shapes

\* The messages that stay, or lose the reports of connects.
LEMMA NewsStay ==
    ASSUME IsSeq(msgs), Shapes, msgs' = msgs \/ msgs' = Superseded(msgs)
    PROVE  /\ \A i \in 1..Len(msgs') : News(msgs'[i])
           /\ \A k, p : /\ Reports(msgs, k, p) => Reports(msgs', k, p)
                        /\ AllSay(msgs, k, p) => AllSay(msgs', k, p)
           /\ \A old, k, epochs, d, fs :
                 Latest(msgs, old, k, epochs, d, fs) => Latest(msgs', old, k, epochs, d, fs)
           /\ Reported \subseteq Reported'
           /\ IsSeq(msgs')
<1>1. CASE msgs' = msgs
  BY <1>1 DEF Shapes, Reported
<1>2. CASE msgs' = Superseded(msgs)
  <2>1. /\ Len(msgs') = Len(msgs) /\ IsSeq(msgs')
        /\ \A i \in 1..Len(msgs) :
              /\ msgs[i].type = "Connected" => msgs'[i] = [type |-> "Superseded"]
              /\ msgs[i].type /= "Connected" => msgs'[i] = msgs[i]
    BY <1>2, SupersededSays
  <2>2. \A i \in 1..Len(msgs') : News(msgs'[i])
    BY <2>1 DEF Shapes, News
  <2>3. Reported \subseteq Reported'
    BY <2>1 DEF Reported
  <2> QED
    BY <1>2, <2>1, <2>2, <2>3, ReportsSuperseded, LatestSuperseded
<1> QED
  BY <1>1, <1>2

LEMMA MarksStep ==
    ASSUME MarksUnderWay, Marked' \subseteq Marked \cup Busy', Busy \subseteq Busy', Reported \subseteq Reported'
    PROVE  MarksUnderWay'
BY DEF MarksUnderWay

\* A connection that stays, and one that is no longer connecting.
LEMMA OrderStays ==
    ASSUME LinkOrder, UNCHANGED <<link, msgs>>
    PROVE  LinkOrder'
BY DEF LinkOrder

\* Connections that differ only in what a worker has seen.
Alike(new, old) ==
    /\ new.state = old.state /\ new.fallback = old.fallback
    /\ new.tunnel = old.tunnel /\ new.worker.on = old.worker.on

LEMMA OrderAlike ==
    ASSUME LinkOrder, Alike(link', link), UNCHANGED msgs
    PROVE  LinkOrder'
BY DEF LinkOrder, Alike

LEMMA OrderSuperseded ==
    ASSUME LinkOrder, IsSeq(msgs), msgs' = Superseded(msgs),
           ~link'.worker.on, link'.state /= "Connected"
    PROVE  LinkOrder'
<1>1. \A i \in 1..Len(msgs') : msgs'[i].type /= "Connected"
  BY SupersededSays
<1> QED
  BY <1>1 DEF LinkOrder

LEMMA OrderBefore ==
    ASSUME LinkOrder, UNCHANGED msgs, link.state /= "ConnectPending" \/ link.worker.on,
           link'.worker.on => link'.state = "ConnectPending",
           link'.state = "Connected" /\ link'.fallback => Required(link'.tunnel.plan) /= {}
    PROVE  LinkOrder'
<1>1. \A i \in 1..Len(msgs) : msgs[i].type /= "Connected"
  BY DEF LinkOrder
<1> QED
  BY <1>1 DEF LinkOrder

-----------------------------------------------------------------------------
(* Downloads that start.                                                   *)

\* The sequence of a finite set has all its elements.
LEMMA SequenceHasAll ==
    ASSUME NEW T, IsFiniteSet(T) PROVE \A x \in T : \E i \in 1..Len(SetToSeq(T)) : SetToSeq(T)[i] = x
<1> DEFINE n == Cardinality(T)
<1>1. n \in Nat /\ ExistsBijection(1..n, T)
  BY FS_CardinalityType
<1>2. PICK f \in [1..n -> T] : IsInjective(f)
  BY <1>1 DEF ExistsBijection, Bijection, Injection, IsInjective
<1> DEFINE s == SetToSeq(T)
<1>3. s \in [1..n -> T] /\ IsInjective(s)
  BY <1>2 DEF SetToSeq
<1> HIDE DEF s
<1>4. s \in Injection(1..n, T)
  BY <1>3 DEF Injection
<1>5. Cardinality(1..n) = n
  <2>1. 1 \in Int /\ n \in Int
    BY <1>1
  <2>2. Cardinality(1..n) = IF 1 > n THEN 0 ELSE n - 1 + 1
    BY <2>1, FS_Interval
  <2> QED
    BY <1>1, <2>2
<1>6. s \in Surjection(1..n, T)
  BY <1>4, <1>5, FS_Injection
<1>7. Len(s) = n
  BY <1>1, <1>3
<1> QED
  BY <1>6, <1>7 DEF Surjection, s

LEMMA Started ==
    ASSUME ConstantsOK, Inv, Shapes, NEW sets, NEW trigger, NEW onlyMissing,
           Declared(sets), StartDownload(sets, trigger, onlyMissing)
    PROVE  /\ Marked' = Marked \cup KeysOf(Startable(sets))
           /\ Busy' = Busy \cup KeysOf(Startable(sets))
           /\ jobs \subseteq jobs'
           /\ \A j \in jobs' \ jobs : j.sets = Startable(sets) /\ j.epoch = epoch /\ Complete(j)
           /\ \A rs \in sets : rs.key \in Marked'
<1> DEFINE start == Startable(sets)
<1> DEFINE job == [sets |-> start, todo |-> SetToSeq(start), phase |-> "load", saved |-> meta,
                   onlyMissing |-> onlyMissing, epoch |-> epoch, reports |-> <<>>,
                   write |-> [on |-> trigger = "Automatic" \/ (onlyMissing /\ auto /= "Off"),
                              epoch |-> epoch, days |-> IntervalDays(auto)]]
<1>1. /\ marks' = Put(marks, [k \in KeysOf(start) |-> trigger])
      /\ jobs' = IF start = {} THEN jobs ELSE jobs \cup {job}
  BY DEF StartDownload
<1>2. Marked' = Marked \cup KeysOf(start)
  BY <1>1 DEF Marked, Put
<1>3. Declared(start)
  BY SmallerDeclared DEF Startable
<1>4. IsFiniteSet(start)
  BY <1>3, FS_Subset DEF Declared, ConstantsOK
<1>5. \A rs \in sets : rs.key \in Marked'
  BY <1>2 DEF Startable, KeysOf
<1> HIDE DEF start
<1>6. /\ job.sets = start /\ job.todo = SetToSeq(start) /\ job.phase = "load"
      /\ job.epoch = epoch /\ job.write.epoch = epoch
  OBVIOUS
<1> HIDE DEF job
<1>7. Complete(job)
  <2>1. epoch \in Epochs
    BY DEF Shapes, Epochs
  <2>2. \A rs \in start : \E i \in 1..Len(SetToSeq(start)) : SetToSeq(start)[i] = rs
    BY <1>4, SequenceHasAll
  <2> QED
    BY <1>6, <2>1, <2>2 DEF Complete
<1>8. Busy' = Busy \cup KeysOf(start)
  <2>1. CASE start = {}
    BY <1>1, <2>1 DEF Busy, KeysOf
  <2>2. CASE start /= {}
    BY <1>1, <1>6, <2>2 DEF Busy
  <2> QED
    BY <2>1, <2>2
<1>9. \A j \in jobs' \ jobs : j = job
  BY <1>1
<1> QED
  BY <1>1, <1>2, <1>5, <1>6, <1>7, <1>8, <1>9 DEF start

\* Schedules and keys start downloads of what is declared.
LEMMA StartsKnown ==
    ASSUME ConstantsOK, Inv, StateInv, TickUpdates \/ UpdateGeo PROVE StateInv'
<1>1. PICK sets, trigger :
          /\ sets \subseteq Selectable(routing)
          /\ StartDownload(sets, trigger, FALSE)
  BY DEF TickUpdates, UpdateGeo, DueRuleSets, Startable
<1>2. UNCHANGED <<epoch, states, meta, files, msgs, link, routing, mode, stale, refreshes>>
  BY DEF TickUpdates, UpdateGeo, settings, model, cache
<1>3. Declared(sets)
  BY <1>1, PlanIsDeclared DEF Declared
<1>4. /\ Marked' = Marked \cup KeysOf(Startable(sets))
      /\ Busy' = Busy \cup KeysOf(Startable(sets))
      /\ jobs \subseteq jobs'
      /\ \A j \in jobs' \ jobs : j.sets = Startable(sets) /\ j.epoch = epoch /\ Complete(j)
  BY <1>1, <1>3, Started DEF StateInv
<1>5. IsSeq(msgs)
  BY MsgsAreSeq
<1>6. Shapes'
  BY <1>2, <1>4, ShapesStep DEF StateInv, Shapes
<1>7. MarksUnderWay'
  BY <1>2, <1>4, MarksStep DEF StateInv, Reported
<1>8. LinkOrder'
  BY <1>2, OrderStays DEF StateInv
<1>9. ASSUME stale' = {} PROVE SourcesInv' /\ (\A rs \in Selectable(routing)' : Known(rs)') /\ FallbackInv'
  <2>1. stale = {} /\ SourcesInv /\ (\A rs \in Selectable(routing) : Known(rs)) /\ FallbackInv
    BY <1>2, <1>9 DEF StateInv, StatesInv
  <2>2. Selectable(routing)' = Selectable(routing)
    BY <1>2 DEF Selectable
  <2>3. SourcesInv'
    <3>1. ASSUME NEW j \in jobs' \ jobs, NEW rs \in j.sets, NEW declared \in Selectable(routing),
                 declared.key = rs.key
          PROVE  declared = rs
      <4>1. rs \in Selectable(routing)
        BY <1>1, <1>4, <3>1 DEF Startable
      <4> QED
        BY <3>1, <4>1, PlanIsDeclared DEF ConstantsOK
    <3> QED
      BY <2>1, <2>2, <3>1 DEF SourcesInv
  <2>4. ASSUME NEW rs \in Selectable(routing) PROVE Known(rs)'
    BY <1>2, <1>4, <2>1, KnownKept
  <2>5. FallbackInv'
    <3>1. InFallback' => InFallback /\ Plan' = Plan
      BY <1>2 DEF InFallback, Plan
    <3> QED
      BY <1>2, <1>4, <2>1, <3>1, FallbackStep
  <2> QED
    BY <2>2, <2>3, <2>4, <2>5
<1> QED
  BY <1>6, <1>7, <1>8, <1>9 DEF StateInv, StatesInv

-----------------------------------------------------------------------------
(* The connection, time and servers.                                       *)

\* A step that neither reads nor writes the cache, and handles no message.
LEMMA ElsewhereKnown ==
    ASSUME Inv, StateInv, UNCHANGED <<epoch, states, marks, meta, files, routing, jobs, refreshes, stale>>,
           msgs' = msgs \/ msgs' = Superseded(msgs), LinkOrder',
           InFallback' => InFallback /\ Plan' = Plan
    PROVE  StateInv'
<1>1. /\ \A i \in 1..Len(msgs') : News(msgs'[i])
      /\ \A k, p : /\ Reports(msgs, k, p) => Reports(msgs', k, p)
                   /\ AllSay(msgs, k, p) => AllSay(msgs', k, p)
      /\ \A old, k, epochs, d, fs :
            Latest(msgs, old, k, epochs, d, fs) => Latest(msgs', old, k, epochs, d, fs)
      /\ Reported \subseteq Reported'
  BY MsgsAreSeq, NewsStay DEF StateInv
<1>2. Marked' = Marked /\ Busy' = Busy
  BY DEF Marked, Busy
<1>3. Shapes'
  BY <1>1, ShapesStep DEF StateInv, Shapes
<1>4. MarksUnderWay'
  BY <1>1, <1>2, MarksStep DEF StateInv
<1>5. ASSUME stale' = {} PROVE SourcesInv' /\ (\A rs \in Selectable(routing)' : Known(rs)') /\ FallbackInv'
  <2>1. stale = {} /\ SourcesInv /\ (\A rs \in Selectable(routing) : Known(rs)) /\ FallbackInv
    BY <1>5 DEF StateInv, StatesInv
  <2>2. Selectable(routing)' = Selectable(routing)
    BY DEF Selectable
  <2>3. SourcesInv'
    BY <2>1, <2>2 DEF SourcesInv
  <2>4. ASSUME NEW rs \in Selectable(routing) PROVE Known(rs)'
    BY <1>1, <1>2, <2>1, KnownKept
  <2>5. FallbackInv'
    BY <1>1, <1>2, <2>1, FallbackStep
  <2> QED
    BY <2>2, <2>3, <2>4, <2>5
<1> QED
  BY <1>3, <1>4, <1>5 DEF StateInv, StatesInv

LEMMA ConnectionKnown ==
    ASSUME ConstantsOK, Inv, StateInv,
           \/ \E m \in Modes : SelectMode(m)
           \/ UserConnects \/ UserDisconnects \/ TickConnects \/ WorkerReads \/ WorkerFails
           \/ Advance \/ \E u \in Urls : NewVersion(u)
    PROVE  StateInv'
<1>1. DOMAIN link = LinkFields
  BY DEF Inv, LinkInv, LinkFields
<1>2. Queued(link).state = "Connecting" /\ ~Queued(link).worker.on
  BY <1>1 DEF Queued, LinkFields, NoWorker
<1>3. IdleLink.state = "Idle" /\ ~IdleLink.worker.on
  BY DEF IdleLink, NoWorker
<1>4. IsSeq(msgs)
  BY MsgsAreSeq
<1>5. ASSUME NEW m \in Modes, SelectMode(m) PROVE StateInv'
  <2>1. /\ UNCHANGED <<epoch, states, marks, meta, files, routing, jobs, refreshes, stale, msgs>>
        /\ link' = IF link.state = "Connected" THEN Queued(link) ELSE link
    BY <1>5 DEF SelectMode, model, cache, threads
  <2>2. CASE link.state = "Connected"
    <3>1. LinkOrder'
      BY <1>2, <2>1, <2>2, OrderBefore DEF StateInv
    <3> QED
      BY <1>2, <2>1, <2>2, <3>1, ElsewhereKnown DEF InFallback
  <2>3. CASE link.state /= "Connected"
    <3>1. LinkOrder'
      BY <2>1, <2>3, OrderStays DEF StateInv
    <3> QED
      BY <2>1, <2>3, <3>1, ElsewhereKnown DEF InFallback
  <2> QED
    BY <2>2, <2>3
<1>6. CASE UserConnects
  <2>1. /\ UNCHANGED <<epoch, states, marks, meta, files, routing, jobs, refreshes, stale, msgs>>
        /\ link.state = "Idle" /\ link' = Queued(link)
    BY <1>6 DEF UserConnects, model, cache, threads
  <2>2. LinkOrder'
    BY <1>2, <2>1, OrderBefore DEF StateInv
  <2> QED
    BY <1>2, <2>1, <2>2, ElsewhereKnown DEF InFallback
<1>7. CASE UserDisconnects
  <2>1. /\ UNCHANGED <<epoch, states, marks, meta, files, routing, jobs, refreshes, stale>>
        /\ msgs' = Superseded(msgs) /\ link' = IdleLink
    BY <1>7 DEF UserDisconnects, model, cache, threads
  <2>2. LinkOrder'
    BY <1>3, <1>4, <2>1, OrderSuperseded DEF StateInv
  <2> QED
    BY <1>3, <2>1, <2>2, ElsewhereKnown DEF InFallback
<1>8. CASE TickConnects
  <2>1. /\ UNCHANGED <<epoch, states, marks, meta, files, routing, jobs, refreshes, stale, msgs>>
        /\ link.state = "Connecting"
        /\ link' = [link EXCEPT !.state = "ConnectPending", !.tunnel = NoTunnel,
                                !.worker = [NoWorker EXCEPT !.on = TRUE, !.plan = Plan]]
    BY <1>8 DEF TickConnects, model, cache, threads
  <2>2. link'.state = "ConnectPending"
    BY <1>1, <2>1 DEF LinkFields
  <2>3. LinkOrder'
    BY <2>1, <2>2, OrderBefore DEF StateInv
  <2> QED
    BY <2>1, <2>2, <2>3, ElsewhereKnown DEF InFallback
<1>9. CASE WorkerFails
  <2>1. /\ UNCHANGED <<epoch, states, marks, meta, files, routing, jobs, refreshes, stale, msgs>>
        /\ link.worker.on /\ link' = IdleLink
    BY <1>9 DEF WorkerFails, model, cache, threads
  <2>2. LinkOrder'
    BY <1>3, <2>1, OrderBefore DEF StateInv
  <2> QED
    BY <1>3, <2>1, <2>2, ElsewhereKnown DEF InFallback
<1>r. CASE WorkerReads
  <2> DEFINE used == Available(link.worker.plan)
  <2>1. /\ UNCHANGED <<epoch, states, marks, meta, files, routing, mode, jobs, refreshes, stale, msgs>>
        /\ link' = [link EXCEPT !.worker.read = TRUE, !.worker.used = used]
    BY <1>r DEF WorkerReads, settings, model, cache, threads
  <2> HIDE DEF used
  <2>2. Alike(link', link)
    BY <2>1, <1>1 DEF Inv, LinkInv, LinkFields, Alike
  <2>3. LinkOrder'
    BY <2>1, <2>2, OrderAlike DEF StateInv
  <2>4. InFallback' => InFallback /\ Plan' = Plan
    BY <2>1, <2>2 DEF InFallback, Plan, Alike
  <2> QED
    BY <2>1, <2>3, <2>4, ElsewhereKnown
<1>10. CASE Advance \/ \E u \in Urls : NewVersion(u)
  <2>1. UNCHANGED <<epoch, states, marks, meta, files, routing, mode, jobs, refreshes, stale, msgs, link>>
    BY <1>10 DEF Advance, NewVersion, settings, model, cache, threads
  <2>2. LinkOrder'
    BY <2>1, OrderStays DEF StateInv
  <2>3. InFallback' => InFallback /\ Plan' = Plan
    BY <2>1 DEF InFallback, Plan
  <2> QED
    BY <2>1, <2>2, <2>3, ElsewhereKnown
<1> QED
  BY <1>5, <1>6, <1>7, <1>8, <1>9, <1>r, <1>10

-----------------------------------------------------------------------------
(* Messages that are taken.                                                *)

\* The state of a file after the first message: what it says, or as before.
Took(k) ==
    /\ ~Tells(Head(msgs), k) => states'[k] = states[k]
    /\ Tells(Head(msgs), k) =>
          /\ Agree(states'[k], Head(msgs).states[k], Data)
          /\ Head(msgs).epoch = epoch => Agree(states'[k], Head(msgs).states[k], Times)
          /\ Head(msgs).epoch /= epoch => Agree(states'[k], states[k], Times)

HeadReports(k) == Head(msgs).type = "Updated" /\ k \in DOMAIN Head(msgs).reports

LEMMA FirstNews ==
    ASSUME Inv, Shapes, msgs /= <<>>
    PROVE  /\ IsSeq(msgs) /\ 1 \in 1..Len(msgs) /\ Head(msgs) = msgs[1] /\ News(Head(msgs))
           /\ \A i \in 1..Len(Tail(msgs)) : \E l \in 1..Len(msgs) : l > 1 /\ Tail(msgs)[i] = msgs[l]
           /\ \A i \in 1..Len(msgs) : i /= 1 => \E l \in 1..Len(Tail(msgs)) : Tail(msgs)[l] = msgs[i]
<1>1. IsSeq(msgs)
  BY MsgsAreSeq
<1>2. /\ Len(msgs) \in Nat \ {0} /\ Len(Tail(msgs)) = Len(msgs) - 1 /\ Head(msgs) = msgs[1]
      /\ \A i \in 1..Len(Tail(msgs)) : Tail(msgs)[i] = msgs[i + 1] /\ i + 1 \in 1..Len(msgs) /\ i + 1 > 1
      /\ \A i \in 1..Len(msgs) : i = 1 \/ i - 1 \in 1..Len(Tail(msgs))
  BY <1>1, TailSays
<1>3. 1 \in 1..Len(msgs)
  BY <1>2
<1>4. \A i \in 1..Len(msgs) : i /= 1 => i - 1 \in 1..Len(Tail(msgs)) /\ (i - 1) + 1 = i
  BY <1>2
<1>5. \A i \in 1..Len(msgs) : i /= 1 => Tail(msgs)[i - 1] = msgs[i]
  BY <1>2, <1>4
<1> QED
  BY <1>1, <1>2, <1>3, <1>4, <1>5 DEF Shapes

LEMMA TakenKnown ==
    ASSUME Inv, Shapes, msgs /= <<>>, msgs' = Tail(msgs), NEW rs, Known(rs), Took(rs.key),
           UNCHANGED <<epoch, meta, files, refreshes>>,
           jobs \subseteq jobs', \A j \in jobs' \ jobs : j.epoch = epoch,
           rs.key \in Marked' => rs.key \in Busy' \/ (rs.key \in Marked /\ ~HeadReports(rs.key))
    PROVE  Known(rs)'
<1> DEFINE k == rs.key
<1> DEFINE d == StateOf(meta, files, rs)
<1>1. StateOf(meta', files', rs) = d
  OBVIOUS
<1>2. IsSeq(msgs) /\ News(Head(msgs))
  BY FirstNews
<1>3. /\ Brings(Head(msgs), k, Nat) <=> Tells(Head(msgs), k)
      /\ Brings(Head(msgs), k, {epoch}) <=> (Tells(Head(msgs), k) /\ Head(msgs).epoch = epoch)
  BY <1>2 DEF Brings, News, Tells, Epochs
<1>4. Latest(msgs, states[k], k, Nat, d, Data) => Latest(Tail(msgs), states'[k], k, Nat, d, Data)
  <2>1. /\ Brings(Head(msgs), k, Nat) => Agree(states'[k], Head(msgs).states[k], Data)
        /\ ~Brings(Head(msgs), k, Nat) => Agree(states'[k], states[k], Data)
    BY <1>3, AgreeSame DEF Took
  <2> HIDE DEF d
  <2> QED
    BY <1>2, <2>1, LatestTail
<1>5. Latest(msgs, states[k], k, {epoch}, d, Times) => Latest(Tail(msgs), states'[k], k, {epoch}, d, Times)
  <2>1. /\ Brings(Head(msgs), k, {epoch}) => Agree(states'[k], Head(msgs).states[k], Times)
        /\ ~Brings(Head(msgs), k, {epoch}) => Agree(states'[k], states[k], Times)
    BY <1>3, AgreeSame DEF Took
  <2> HIDE DEF d
  <2> QED
    BY <1>2, <2>1, LatestTail
<1>6. k \in Marked' => k \in Busy' \/ (k \in Marked /\
          (Reports(msgs, k, d.present) => Reports(msgs', k, d.present)))
  BY <1>2, ReportsTail DEF HeadReports
<1>7. /\ k \in Busy => k \in Busy'
      /\ OfEpoch(k, epoch, jobs) => OfEpoch(k, epoch, jobs')
      /\ Overtaken(k, epoch, jobs') => Overtaken(k, epoch, jobs)
  BY DEF Busy, OfEpoch, Overtaken
<1>8. Agree(d, d, Times)
  BY AgreeSame
<1> HIDE DEF d
<1>9. \A t \in refreshes' \ refreshes : rs \in t.sets /\ ~t.read
  OBVIOUS
<1> QED
  BY <1>1, <1>4, <1>5, <1>6, <1>7, <1>8, <1>9, KnownStep DEF d

\* A rule-set that is no longer marked: all messages said the same of it.
LEMMA TakenSays ==
    ASSUME Inv, StateInv, msgs /= <<>>, msgs' = Tail(msgs), NEW rs \in RuleSets(Plan), Took(rs.key),
           UNCHANGED <<meta, files>>, stale = {}, InFallback,
           rs.key \notin Marked' => rs.key \notin Marked \/ HeadReports(rs.key),
           rs.key \notin Marked'
    PROVE  /\ states'[rs.key].present = StateOf(meta, files, rs).present
           /\ AllSay(msgs', rs.key, StateOf(meta, files, rs).present)
<1> DEFINE k == rs.key
<1> DEFINE p == StateOf(meta, files, rs).present
<1>1. IsSeq(msgs) /\ News(Head(msgs)) /\ 1 \in 1..Len(msgs) /\ Head(msgs) = msgs[1]
  BY FirstNews DEF StateInv
<1>2. AllSay(msgs, k, p) /\ (states[k].present = p \/ Tells(Head(msgs), k))
  <2>1. CASE k \notin Marked
    BY <2>1 DEF StateInv, StatesInv, FallbackInv
  <2>2. CASE k \in Marked
    <3>1. HeadReports(k)
      BY <2>2
    <3>2. DOMAIN Head(msgs).reports \subseteq Marked \ Busy /\
          Pending(Tail(msgs), (Marked \ Busy) \ DOMAIN Head(msgs).reports)
      BY <3>1, PendingTail DEF Inv, DownloadInv, HeadReports
    <3>3. ~Reports(Tail(msgs), k, p)
      BY <3>1, <3>2 DEF Reports, Pending, HeadReports
    <3>4. rs \in Selectable(routing)
      BY DEF Plan, Selectable, Inv, LinkInv
    <3>5. Reports(msgs, k, p)
      <4>1. Known(rs) /\ k \notin Busy
        BY <3>1, <3>2, <3>4 DEF StateInv, StatesInv, HeadReports
      <4> QED
        BY <2>2, <4>1 DEF Known
    <3>6. AllSay(msgs, k, p)
      BY <1>1, <3>3, <3>5, ReportsTail
    <3>7. Tells(Head(msgs), k)
      BY <1>1, <3>1 DEF HeadReports, News, Tells
    <3> QED
      BY <3>6, <3>7
  <2> QED
    BY <2>1, <2>2
<1> HIDE DEF p
<1>3. AllSay(msgs', k, p)
  BY <1>1, <1>2, ReportsTail
<1>4. states'[k].present = p
  <2>1. CASE Tells(Head(msgs), k)
    <3>1. Head(msgs).states[k].present = p
      BY <1>1, <1>2, <2>1 DEF AllSay
    <3> QED
      BY <2>1, <3>1 DEF Took, Agree, Data
  <2>2. CASE ~Tells(Head(msgs), k)
    BY <1>2, <2>2 DEF Took
  <2> QED
    BY <2>1, <2>2
<1> QED
  BY <1>3, <1>4 DEF p

\* The other parts of the invariant when a message is taken.
LEMMA TakenMarks ==
    ASSUME Inv, Shapes, MarksUnderWay, msgs /= <<>>, msgs' = Tail(msgs), Busy \subseteq Busy',
           \A k \in Marked' : k \in Busy' \/ (k \in Marked /\ ~HeadReports(k))
    PROVE  MarksUnderWay'
<1>1. ASSUME NEW k \in Marked', k \notin Busy' PROVE k \in Reported'
  <2>1. k \in Marked /\ ~HeadReports(k) /\ k \notin Busy
    BY <1>1
  <2>2. k \in Keys
    BY <2>1 DEF MarksUnderWay, Reported
  <2>3. PICK i \in 1..Len(msgs) : msgs[i].type = "Updated" /\ k \in DOMAIN msgs[i].reports
    BY <2>1 DEF MarksUnderWay, Reported
  <2>4. i /= 1
    BY <2>1, <2>3, FirstNews DEF HeadReports
  <2>5. PICK l \in 1..Len(Tail(msgs)) : Tail(msgs)[l] = msgs[i]
    BY <2>4, FirstNews
  <2> QED
    BY <2>2, <2>3, <2>5 DEF Reported
<1> QED
  BY <1>1 DEF MarksUnderWay

LEMMA TakenNews ==
    ASSUME Inv, Shapes, msgs /= <<>>, msgs' = Tail(msgs)
    PROVE  \A i \in 1..Len(msgs') : News(msgs'[i])
BY FirstNews DEF Shapes

LEMMA TakenOrder ==
    ASSUME Inv, Shapes, LinkOrder, msgs /= <<>>, msgs' = Tail(msgs), UNCHANGED link
    PROVE  LinkOrder'
<1>1. IsSeq(msgs) 
  BY MsgsAreSeq
<1>2. /\ \A i \in 1..Len(Tail(msgs)) : Tail(msgs)[i] = msgs[i + 1] /\ i + 1 \in 1..Len(msgs)
      /\ \A i, l \in 1..Len(Tail(msgs)) : i + 1 = l + 1 => i = l
  BY <1>1, TailSays
<1>3. \A i, l \in 1..Len(msgs') :
         (msgs'[i].type = "Connected" /\ msgs'[l].type = "Connected") => l = i
  BY <1>2 DEF LinkOrder
<1>4. \A i \in 1..Len(msgs') : msgs'[i].type = "Connected" =>
          /\ link.state = "ConnectPending" /\ ~link.worker.on
          /\ msgs'[i].fallback => Required(link.tunnel.plan) /= {}
  BY <1>2 DEF LinkOrder
<1> QED
  BY <1>3, <1>4 DEF LinkOrder

LEMMA TookApplied ==
    ASSUME Inv, Shapes, msgs /= <<>>, Head(msgs).type \in {"Updated", "Refreshed"},
           states' = Applied(states, Head(msgs).states, Head(msgs).epoch)
    PROVE  /\ DOMAIN states' = Keys /\ \A k \in Keys : IsState(states'[k])
           /\ \A k \in Keys : Took(k)
<1> DEFINE m == Head(msgs)
<1>1. News(m)
  BY FirstNews
<1>2. DOMAIN m.states \subseteq Keys /\ \A k \in DOMAIN m.states : IsState(m.states[k])
  BY <1>1 DEF News
<1>3. DOMAIN states = Keys /\ \A k \in Keys : IsState(states[k])
  BY DEF Shapes
<1>4. \A k : Tells(m, k) <=> k \in DOMAIN m.states
  BY DEF Tells
<1> DEFINE known == m.states
<1> DEFINE e == m.epoch
<1> DEFINE old == states
<1>a. /\ DOMAIN old = Keys /\ \A k \in Keys : IsState(old[k])
      /\ DOMAIN known \subseteq Keys /\ \A k \in DOMAIN known : IsState(known[k])
  BY <1>2, <1>3
<1> HIDE DEF m, known, e, old
<1>5. /\ DOMAIN Applied(old, known, e) = Keys
      /\ \A k \in Keys : IsState(Applied(old, known, e)[k])
      /\ \A k \in DOMAIN known : Agree(Applied(old, known, e)[k], known[k], Data)
      /\ e = epoch => \A k \in DOMAIN known : Agree(Applied(old, known, e)[k], known[k], Times)
      /\ e /= epoch => \A k \in DOMAIN known : Agree(Applied(old, known, e)[k], old[k], Times)
      /\ \A k \in Keys \ DOMAIN known : Applied(old, known, e)[k] = old[k]
  BY <1>a, AppliedIs
<1>6. states' = Applied(old, known, e)
  BY DEF m, old, known, e
<1> QED
  BY <1>4, <1>5, <1>6 DEF Took, m, old, known, e

\* Keys of declared rule-sets are names of files.
LEMMA DeclaredKeys ==
    ASSUME ConstantsOK, Inv
    PROVE  /\ \A rs \in Selectable(routing) : rs.key \in Keys
           /\ RuleSets(Plan) \subseteq Selectable(routing)
           /\ Required(Plan) \subseteq RuleSets(Plan)
<1>1. routing \in Routings /\ mode \in Modes
  BY PlanIsDeclared
<1> QED
  BY <1>1 DEF ConstantsOK, Plan, Selectable, RuleSets, Required

LEMMA RefreshedKnown ==
    ASSUME ConstantsOK, Inv, StateInv, HandleRefreshed \/ HandleSuperseded PROVE StateInv'
<1>1. /\ msgs /= <<>> /\ msgs' = Tail(msgs) /\ Head(msgs).type /= "Updated"
      /\ UNCHANGED <<epoch, meta, files, routing, mode, marks, jobs, refreshes, link, stale>>
  BY DEF HandleRefreshed, HandleSuperseded, settings, model, cache, threads
<1>2. DOMAIN states' = Keys /\ (\A k \in Keys : IsState(states'[k])) /\ \A k \in Keys : Took(k)
  <2>1. CASE HandleRefreshed
    BY <2>1, TookApplied DEF HandleRefreshed, StateInv
  <2>2. CASE HandleSuperseded
    BY <2>2 DEF HandleSuperseded, StateInv, Shapes, Took, Tells, model
  <2> QED
    BY <2>1, <2>2
<1>3. Marked' = Marked /\ Busy' = Busy
  BY <1>1 DEF Marked, Busy
<1>4. Shapes'
  BY <1>1, <1>2, TakenNews, ShapesStep DEF StateInv, Shapes
<1>5. MarksUnderWay'
  BY <1>1, <1>3, TakenMarks DEF StateInv, HeadReports, MarksUnderWay
<1>6. LinkOrder'
  BY <1>1, TakenOrder DEF StateInv
<1>7. ASSUME stale' = {} PROVE SourcesInv' /\ (\A rs \in Selectable(routing)' : Known(rs)') /\ FallbackInv'
  <2>1. stale = {} /\ SourcesInv /\ (\A rs \in Selectable(routing) : Known(rs)) /\ FallbackInv
    BY <1>1, <1>7 DEF StateInv, StatesInv
  <2>2. Selectable(routing)' = Selectable(routing)
    BY <1>1 DEF Selectable
  <2>3. SourcesInv'
    BY <1>1, <2>1, <2>2 DEF SourcesInv
  <2>4. ASSUME NEW rs \in Selectable(routing) PROVE Known(rs)'
    <3>1. Took(rs.key)
      BY <1>2, DeclaredKeys
    <3> QED
      BY <1>1, <1>3, <2>1, <3>1, TakenKnown DEF StateInv, HeadReports
  <2>5. FallbackInv'
    <3>1. InFallback' => InFallback /\ Plan' = Plan
      BY <1>1 DEF InFallback, Plan
    <3>2. ASSUME InFallback', NEW rs \in RuleSets(Plan), rs.key \notin Marked'
          PROVE  /\ states'[rs.key].present = StateOf(meta, files, rs).present
                 /\ AllSay(msgs', rs.key, StateOf(meta, files, rs).present)
      <4>1. Took(rs.key)
        BY <1>2, DeclaredKeys
      <4> QED
        BY <1>1, <1>3, <2>1, <3>1, <3>2, <4>1, TakenSays
    <3> QED
      BY <1>1, <1>3, <2>1, <3>1, <3>2, FallbackStep
  <2> QED
    BY <2>2, <2>3, <2>4, <2>5
<1> QED
  BY <1>4, <1>5, <1>6, <1>7 DEF StateInv, StatesInv

\* The end of a download: a fallback stays only if a required rule-set is
\* still downloaded, or missing.
LEMMA UpdatedKnown == ASSUME ConstantsOK, Inv, StateInv, HandleUpdated PROVE StateInv'
<1> DEFINE keys == DOMAIN Head(msgs).reports
<1> DEFINE updated == {k \in keys : Head(msgs).reports[k].updated}
<1> DEFINE again == link.state = "Connected" /\
                    IF link.fallback THEN LeavesFallback(states', Marked \ keys) ELSE Routes(updated)
<1>1. /\ msgs /= <<>> /\ msgs' = Tail(msgs) /\ Head(msgs).type = "Updated"
      /\ marks' = [k \in Marked \ keys |-> marks[k]]
      /\ states' = Applied(states, Head(msgs).states, Head(msgs).epoch)
      /\ link' = IF again THEN Queued(link) ELSE link
      /\ UNCHANGED <<epoch, meta, files, routing, mode, jobs, refreshes, stale>>
  BY DEF HandleUpdated, settings, cache, threads
<1>2. DOMAIN states' = Keys /\ (\A k \in Keys : IsState(states'[k])) /\ \A k \in Keys : Took(k)
  BY <1>1, TookApplied DEF StateInv
<1>3. Marked' = Marked \ keys /\ Busy' = Busy
  BY <1>1 DEF Marked, Busy
<1>4. \A k : HeadReports(k) <=> k \in keys
  BY <1>1 DEF HeadReports
<1>5. Queued(link).state = "Connecting" /\ ~Queued(link).worker.on
  BY DEF Inv, LinkInv, Queued, NoWorker
<1>6. again => link.state = "Connected"
  OBVIOUS
<1>7. link.state = "Connected" /\ link.fallback /\ ~again => ~LeavesFallback(states', Marked \ keys)
  OBVIOUS
<1> HIDE DEF again, updated, keys
<1>8. Shapes'
  BY <1>1, <1>2, TakenNews, ShapesStep DEF StateInv, Shapes
<1>9. MarksUnderWay'
  BY <1>1, <1>3, <1>4, TakenMarks DEF StateInv
<1>10. LinkOrder'
  <2>1. CASE again
    <3>1. \A i \in 1..Len(msgs') : msgs'[i].type /= "Connected"
      BY <1>1, <1>6, <2>1, FirstNews DEF StateInv, LinkOrder
    <3> QED
      BY <1>1, <1>5, <2>1, <3>1 DEF LinkOrder
  <2>2. CASE ~again
    BY <1>1, <2>2, TakenOrder DEF StateInv
  <2> QED
    BY <2>1, <2>2
<1>11. ASSUME stale' = {} PROVE SourcesInv' /\ (\A rs \in Selectable(routing)' : Known(rs)') /\ FallbackInv'
  <2>1. stale = {} /\ SourcesInv /\ (\A rs \in Selectable(routing) : Known(rs)) /\ FallbackInv
    BY <1>1, <1>11 DEF StateInv, StatesInv
  <2>2. Selectable(routing)' = Selectable(routing)
    BY <1>1 DEF Selectable
  <2>3. SourcesInv'
    BY <1>1, <2>1, <2>2 DEF SourcesInv
  <2>4. ASSUME NEW rs \in Selectable(routing) PROVE Known(rs)'
    <3>1. Took(rs.key)
      BY <1>2, DeclaredKeys
    <3>2. rs.key \in Marked' => rs.key \in Marked /\ ~HeadReports(rs.key)
      BY <1>3, <1>4
    <3> QED
      BY <1>1, <2>1, <3>1, <3>2, TakenKnown DEF StateInv
  <2>5. FallbackInv'
    <3> SUFFICES ASSUME InFallback' PROVE FallbackInv'
      BY DEF FallbackInv
    <3>1. ~again /\ link' = link
      BY <1>1, <1>5 DEF InFallback
    <3>2. InFallback /\ Plan' = Plan
      BY <1>1, <3>1 DEF InFallback, Plan
    <3>3. ASSUME NEW rs \in RuleSets(Plan), rs.key \notin Marked'
          PROVE  /\ states'[rs.key].present = StateOf(meta, files, rs).present
                 /\ AllSay(msgs', rs.key, StateOf(meta, files, rs).present)
      <4>1. Took(rs.key) /\ (rs.key \notin Marked \/ HeadReports(rs.key))
        BY <1>2, <1>3, <1>4, <3>3, DeclaredKeys
      <4> QED
        BY <1>1, <2>1, <3>2, <3>3, <4>1, TakenSays
    <3>4. PICK rs \in Required(Plan) : rs.key \in Marked \ keys \/ ~states'[rs.key].present
      <4>1. ~LeavesFallback(states', Marked \ keys)
        BY <1>7, <3>1, <3>2 DEF InFallback
      <4> QED
        BY <4>1 DEF LeavesFallback
    <3>5. rs.key \in Marked' \/ ~HasCurrent(meta, files, rs)
      BY <1>3, <3>3, <3>4, DeclaredKeys DEF StateOf
    <3> QED
      BY <1>1, <3>2, <3>3, <3>4, <3>5 DEF FallbackInv
  <2> QED
    BY <2>2, <2>3, <2>4, <2>5
<1> QED
  BY <1>8, <1>9, <1>10, <1>11 DEF StateInv, StatesInv

\* A connection in the fallback downloads all its rule-sets; one of them is
\* required.
LEMMA ConnectedKnown == ASSUME ConstantsOK, Inv, StateInv, HandleConnected PROVE StateInv'
<1> DEFINE m == Head(msgs)
<1> DEFINE again == ~m.fallback /\ ArrivedMeanwhile(m.skipped)
<1> DEFINE wanted == IF m.fallback THEN RuleSets(Plan)
                     ELSE IF again THEN {} ELSE {rs \in m.skipped : ~RetryPending(rs)}
<1> DEFINE up == [link EXCEPT !.state = "Connected", !.fallback = m.fallback, !.worker = NoWorker]
<1>1. /\ msgs /= <<>> /\ m.type = "Connected" /\ msgs' = Tail(msgs)
      /\ StartDownload(wanted, "Manual", TRUE)
      /\ stale' = stale \cup KeysOf(Startable(wanted) \ Selectable(routing))
      /\ link' = IF again THEN Queued(up) ELSE up
      /\ UNCHANGED <<epoch, states, meta, files, routing, mode, refreshes>>
  BY DEF HandleConnected, settings, cache
<1>2. Declared(wanted)
  <2>1. Declared(m.skipped)
    BY <1>1, PendingTail DEF Inv, DownloadInv
  <2> QED
    BY <2>1, PlanIsDeclared DEF Declared
<1>3. /\ up.state = "Connected" /\ up.fallback = m.fallback /\ ~up.worker.on /\ up.tunnel = link.tunnel
      /\ Queued(up).state = "Connecting" /\ ~Queued(up).worker.on
  BY DEF Inv, LinkInv, NoWorker, Queued
<1>4. m.fallback => wanted = RuleSets(Plan) /\ ~again
  OBVIOUS
<1> HIDE DEF up, wanted, again
<1>5. /\ Marked' = Marked \cup KeysOf(Startable(wanted))
      /\ Busy' = Busy \cup KeysOf(Startable(wanted))
      /\ jobs \subseteq jobs'
      /\ \A j \in jobs' \ jobs : j.sets = Startable(wanted) /\ j.epoch = epoch /\ Complete(j)
      /\ \A rs \in wanted : rs.key \in Marked'
  BY <1>1, <1>2, Started DEF StateInv
<1>6. /\ IsSeq(msgs) /\ 1 \in 1..Len(msgs) /\ m = msgs[1]
      /\ \A i \in 1..Len(Tail(msgs)) : \E l \in 1..Len(msgs) : l > 1 /\ Tail(msgs)[i] = msgs[l]
  BY <1>1, FirstNews DEF StateInv
<1>7. /\ link.state = "ConnectPending" /\ ~link.worker.on
      /\ m.fallback => Required(link.tunnel.plan) /= {}
      /\ \A l \in 1..Len(msgs) : msgs[l].type = "Connected" => l = 1
  BY <1>1, <1>6 DEF StateInv, LinkOrder
<1>8. \A k : ~HeadReports(k) /\ ~Tells(Head(msgs), k)
  BY <1>1 DEF HeadReports, Tells
<1> HIDE DEF m
<1>9. Shapes'
  BY <1>1, <1>5, TakenNews, ShapesStep DEF StateInv, Shapes
<1>10. MarksUnderWay'
  BY <1>1, <1>5, <1>8, TakenMarks DEF StateInv
<1>11. LinkOrder'
  <2>1. \A i \in 1..Len(msgs') : msgs'[i].type /= "Connected"
    BY <1>1, <1>6, <1>7
  <2> QED
    BY <1>1, <1>3, <1>7, <2>1 DEF LinkOrder
<1>12. ASSUME stale' = {} PROVE SourcesInv' /\ (\A rs \in Selectable(routing)' : Known(rs)') /\ FallbackInv'
  <2>1. stale = {} /\ SourcesInv /\ (\A rs \in Selectable(routing) : Known(rs)) /\ FallbackInv
    BY <1>1, <1>12 DEF StateInv, StatesInv
  <2>2. Selectable(routing)' = Selectable(routing)
    BY <1>1 DEF Selectable
  <2>3. Startable(wanted) \subseteq Selectable(routing)
    BY <1>1, <1>12 DEF KeysOf
  <2>4. SourcesInv'
    <3>1. ASSUME NEW j \in jobs' \ jobs, NEW rs \in j.sets, NEW declared \in Selectable(routing),
                 declared.key = rs.key
          PROVE  declared = rs
      BY <1>5, <2>3, <3>1, PlanIsDeclared DEF ConstantsOK
    <3> QED
      BY <2>1, <2>2, <3>1 DEF SourcesInv
  <2>5. ASSUME NEW rs \in Selectable(routing) PROVE Known(rs)'
    <3>1. Took(rs.key)
      BY <1>1, <1>8 DEF Took
    <3>2. rs.key \in Marked' => rs.key \in Busy' \/ (rs.key \in Marked /\ ~HeadReports(rs.key))
      BY <1>5, <1>8
    <3> QED
      BY <1>1, <1>5, <2>1, <3>1, <3>2, TakenKnown DEF StateInv
  <2>6. FallbackInv'
    <3> SUFFICES ASSUME InFallback' PROVE FallbackInv'
      BY DEF FallbackInv
    <3>1. link' = up /\ m.fallback
      BY <1>1, <1>3 DEF InFallback
    <3>2. link.tunnel.plan = Plan /\ Plan' = Plan
      BY <1>1, <1>3, <3>1 DEF InFallback, Plan
    <3>3. \A rs \in RuleSets(Plan) : rs.key \in Marked'
      BY <1>4, <1>5, <3>1
    <3>4. Required(Plan) /= {} /\ Required(Plan) \subseteq RuleSets(Plan)
      BY <1>7, <3>1, <3>2, DeclaredKeys
    <3> QED
      BY <3>2, <3>3, <3>4 DEF FallbackInv
  <2> QED
    BY <2>2, <2>4, <2>5, <2>6
<1> QED
  BY <1>9, <1>10, <1>11, <1>12 DEF StateInv, StatesInv

-----------------------------------------------------------------------------
(* Another routing.json.                                                   *)

\* What it declares anew a thread is about to read; a connection whose plan
\* changed is made again or waits for a download of all there is.
LEMMA ReloadKnown ==
    ASSUME ConstantsOK, Inv, StateInv, NEW r \in Routings, ReloadRouting(r) PROVE StateInv'
<1> DEFINE sets == Selectable(r)
<1> DEFINE changed == sets /= Selectable(routing)
<1> DEFINE started == IF changed /\ DownloadAllowed THEN Startable(sets) ELSE {}
<1> DEFINE waits == AwaitsDownload(routing[mode], r[mode], started)
<1>1. /\ routing' = r
      /\ refreshes' = IF changed THEN refreshes \cup {Reader(sets)} ELSE refreshes
      /\ StartDownload(started, "Manual", TRUE)
      /\ link' = IF r[mode] /= routing[mode] /\ ~waits THEN Edited(Reconnected(link)) ELSE Edited(link)
      /\ msgs' = CurrentMsgs(link', msgs)
      /\ stale' = stale \cup {k \in Marked : \E rs \in sets : rs.key = k /\ rs \notin Selectable(routing)}
      /\ UNCHANGED <<epoch, states, meta, files, mode>>
  BY DEF ReloadRouting, settings, cache
<1>2. Declared(started) /\ Declared(sets)
  BY DEF Declared, Startable
<1>3. waits => \A rs \in sets : rs.key \in Marked \/ rs \in started
  BY DEF AwaitsDownload, KeysOf, Startable
<1>4. started \subseteq sets /\ (changed => Reader(sets) \in refreshes')
  BY <1>1 DEF Startable
<1>5. sets /= Selectable(routing) => changed
  OBVIOUS
<1>6. /\ DOMAIN Reader(sets) = {"sets", "epoch", "read", "states"}
      /\ Reader(sets).sets = sets /\ Reader(sets).epoch = epoch /\ ~Reader(sets).read
  BY DEF Reader
<1>7. \A t \in refreshes' \ refreshes : t = Reader(sets)
  BY <1>1
<1>8. refreshes \subseteq refreshes'
  BY <1>1
<1> HIDE DEF changed, started, waits
<1>9. /\ Marked' = Marked \cup KeysOf(Startable(started))
      /\ Busy' = Busy \cup KeysOf(Startable(started))
      /\ jobs \subseteq jobs'
      /\ \A j \in jobs' \ jobs : j.sets = Startable(started) /\ j.epoch = epoch /\ Complete(j)
      /\ \A rs \in started : rs.key \in Marked'
  BY <1>1, <1>2, Started DEF StateInv
<1>10. /\ \A i \in 1..Len(msgs') : News(msgs'[i])
       /\ \A k, p : /\ Reports(msgs, k, p) => Reports(msgs', k, p)
                    /\ AllSay(msgs, k, p) => AllSay(msgs', k, p)
       /\ \A old, k, epochs, d, fs :
             Latest(msgs, old, k, epochs, d, fs) => Latest(msgs', old, k, epochs, d, fs)
       /\ Reported \subseteq Reported'
  BY <1>1, MsgsAreSeq, NewsStay DEF StateInv, CurrentMsgs
<1>11. Alike(Edited(link), link) /\ Alike(Edited(Queued(link)), Queued(link))
  BY QueuedLink, EditedLink DEF Inv, LinkInv, LinkFields, WorkerFields, Alike
<1>q. Edited(Queued(link)).state = "Connecting" /\ ~Edited(Queued(link)).worker.on
  BY <1>11 DEF Inv, LinkInv, Queued, NoWorker, Alike
<1>12. link' = Edited(link) \/ link' = Edited(Queued(link))
  BY <1>1 DEF Reconnected
<1>13. Shapes'
  <2>1. ReaderOK(Reader(sets))
    BY <1>2, <1>6 DEF ReaderOK, Epochs, StateInv, Shapes
  <2> QED
    BY <1>1, <1>7, <1>9, <1>10, <2>1, ShapesStep DEF StateInv, Shapes
<1>14. MarksUnderWay'
  BY <1>9, <1>10, MarksStep DEF StateInv
<1>15. LinkOrder'
  <2>1. CASE link'.state = "Connecting"
    <3>1. ~link'.worker.on
      BY <1>11, <1>q, <1>12, <2>1 DEF StateInv, LinkOrder, Alike
    <3>2. msgs' = Superseded(msgs)
      BY <1>1, <2>1 DEF CurrentMsgs
    <3> QED
      BY <2>1, <3>1, <3>2, MsgsAreSeq, OrderSuperseded DEF StateInv
  <2>2. CASE link'.state /= "Connecting"
    <3>1. Alike(link', link) /\ msgs' = msgs
      BY <1>1, <1>11, <1>q, <1>12, <2>2 DEF CurrentMsgs
    <3> QED
      BY <3>1, OrderAlike DEF StateInv
  <2> QED
    BY <2>1, <2>2
<1>16. ASSUME stale' = {} PROVE SourcesInv' /\ (\A rs \in Selectable(routing)' : Known(rs)') /\ FallbackInv'
  <2>1. stale = {} /\ SourcesInv /\ (\A rs \in Selectable(routing) : Known(rs)) /\ FallbackInv
    BY <1>1, <1>16 DEF StateInv, StatesInv
  <2>2. Selectable(routing)' = sets
    BY <1>1 DEF Selectable
  <2>3. \A rs \in sets : rs.key \in Marked => rs \in Selectable(routing)
    BY <1>1, <1>16
  <2>4. \A j \in jobs : KeysOf(j.sets) \subseteq Marked
    BY DEF Inv, DownloadInv, JobOK
  <2>5. SourcesInv'
    <3>1. ASSUME NEW j \in jobs' \ jobs, NEW rs \in j.sets, NEW declared \in sets,
                 declared.key = rs.key
          PROVE  declared = rs
      <4>1. rs \in sets
        BY <1>4, <1>9, <3>1 DEF Startable
      <4> QED
        BY <3>1, <4>1 DEF ConstantsOK
    <3>2. ASSUME NEW j \in jobs, NEW rs \in j.sets, NEW declared \in sets,
                 declared.key = rs.key
          PROVE  declared = rs
      <4>1. declared \in Selectable(routing)
        BY <2>3, <2>4, <3>2 DEF KeysOf
      <4> QED
        BY <2>1, <3>2, <4>1 DEF SourcesInv
    <3> QED
      BY <2>2, <3>1, <3>2 DEF SourcesInv
  <2>6. ASSUME NEW rs \in sets PROVE Known(rs)'
    <3>1. CASE rs \in Selectable(routing)
      BY <1>1, <1>6, <1>7, <1>8, <1>9, <1>10, <2>1, <3>1, KnownKept
    <3>2. CASE rs \notin Selectable(routing)
      <4>1. rs.key \notin Marked /\ Reader(sets) \in refreshes'
        BY <1>4, <1>5, <2>3, <3>2
      <4>2. rs.key \in KeysOf(Reader(sets).sets)
        BY <1>6 DEF KeysOf
      <4>3. OfEpoch(rs.key, epoch, refreshes')
        BY <1>6, <4>1, <4>2 DEF OfEpoch
      <4>4. ~Overtaken(rs.key, epoch, jobs')
        BY <1>9, <2>4, <4>1 DEF Overtaken
      <4>5. rs.key \in Marked' => rs.key \in Busy'
        BY <1>9, <4>1
      <4> QED
        BY <1>1, <4>1, <4>2, <4>3, <4>4, <4>5 DEF Known
    <3> QED
      BY <3>1, <3>2
  <2>7. FallbackInv'
    <3> SUFFICES ASSUME InFallback' PROVE FallbackInv'
      BY DEF FallbackInv
    <3>1. Alike(link', link) /\ Plan' = r[mode]
      BY <1>1, <1>11, <1>q, <1>12 DEF InFallback, Plan
    <3>2. CASE r[mode] = routing[mode]
      <4>1. InFallback /\ Plan' = Plan
        BY <3>1, <3>2 DEF InFallback, Plan, Alike
      <4> QED
        BY <1>1, <1>9, <1>10, <2>1, <4>1, FallbackStep
    <3>3. CASE r[mode] /= routing[mode]
      <4>1. waits
        <5>1. ASSUME ~waits PROVE FALSE
          <6>1. link' = Edited(Reconnected(link))
            BY <1>1, <3>3, <5>1
          <6>2. link.state = "Connected"
            BY <3>1 DEF InFallback, Alike
          <6> QED
            BY <1>q, <3>1, <6>1, <6>2 DEF Reconnected, Alike
        <5> QED
          BY <5>1
      <4>2. \A rs \in sets : rs.key \in Marked'
        BY <1>3, <1>9, <4>1
      <4>3. RuleSets(r[mode]) \subseteq sets /\ Required(r[mode]) \subseteq RuleSets(r[mode])
        BY DEF Selectable, RuleSets, Required, Inv, LinkInv
      <4>4. Required(r[mode]) /= {}
        BY <3>1 DEF InFallback, StateInv, LinkOrder, Alike
      <4> QED
        BY <3>1, <4>2, <4>3, <4>4 DEF FallbackInv
    <3> QED
      BY <3>2, <3>3
  <2> QED
    BY <2>2, <2>5, <2>6, <2>7
<1> QED
  BY <1>13, <1>14, <1>15, <1>16 DEF StateInv, StatesInv

-----------------------------------------------------------------------------
(* Threads.                                                                *)

LEMMA LatestSame ==
    ASSUME NEW ms, NEW old, NEW k, NEW epochs, NEW d, NEW new, NEW fs,
           Latest(ms, old, k, epochs, d, fs), Agree(new, d, fs)
    PROVE  Latest(ms, old, k, epochs, new, fs)
BY DEF Latest, Agree

\* A thread changes the state of its own rule-sets, and a schedule only if
\* it is of its epoch.
LEMMA ThreadKnown ==
    ASSUME ConstantsOK, Inv, StateInv, NEW j \in jobs, NEW new, Replace(j, new),
           new.sets = j.sets, new.epoch = j.epoch, Complete(new), meta'.epoch = meta.epoch,
           UNCHANGED <<epoch, states, marks, routing, mode, refreshes, msgs, link, stale>>,
           \A rs : (rs.key \in Keys /\ rs.key \notin KeysOf(j.sets)) =>
               /\ StateOf(meta', files', rs) = StateOf(meta, files, rs)
               /\ HasCurrent(meta', files', rs) <=> HasCurrent(meta, files, rs),
           j.epoch /= epoch => \A rs \in j.sets :
               Agree(StateOf(meta', files', rs), StateOf(meta, files, rs), Times)
    PROVE  StateInv'
<1>1. jobs' = (jobs \ {j}) \cup {new}
  BY DEF Replace
<1>2. Marked' = Marked /\ Busy' = Busy
  BY <1>1 DEF Marked, Busy
<1>3. /\ \A k : OfEpoch(k, epoch, jobs) <=> OfEpoch(k, epoch, jobs')
      /\ \A k : Overtaken(k, epoch, jobs) <=> Overtaken(k, epoch, jobs')
  BY <1>1 DEF OfEpoch, Overtaken
<1>4. KeysOf(j.sets) \subseteq Busy /\ KeysOf(j.sets) \subseteq Marked
  BY DEF Busy, Inv, DownloadInv, JobOK
<1>5. \A k \in KeysOf(j.sets) : Overtaken(k, epoch, jobs) => j.epoch /= epoch
  BY DEF Overtaken, Inv, DownloadInv, OneDownloadPerFile
<1>6. \A k \in KeysOf(j.sets) : j.epoch = epoch => OfEpoch(k, epoch, jobs)
  BY DEF OfEpoch
<1>7. Shapes'
  BY <1>1, ShapesStep DEF StateInv, Shapes
<1>8. MarksUnderWay'
  BY <1>2, MarksStep DEF StateInv, Reported
<1>9. LinkOrder'
  BY OrderStays DEF StateInv
<1>10. ASSUME stale' = {} PROVE SourcesInv' /\ (\A rs \in Selectable(routing)' : Known(rs)') /\ FallbackInv'
  <2>1. stale = {} /\ SourcesInv /\ (\A rs \in Selectable(routing) : Known(rs)) /\ FallbackInv
    BY <1>10 DEF StateInv, StatesInv
  <2>2. Selectable(routing)' = Selectable(routing)
    BY DEF Selectable
  <2>3. SourcesInv'
    BY <1>1, <2>1, <2>2 DEF SourcesInv
  <2>4. ASSUME NEW rs \in Selectable(routing) PROVE Known(rs)'
    <3> DEFINE k == rs.key
    <3> DEFINE d == StateOf(meta, files, rs)
    <3> DEFINE then == StateOf(meta', files', rs)
    <3>1. k \in Keys
      BY DeclaredKeys
    <3>2. k \notin KeysOf(j.sets) => then = d
      BY <3>1
    <3>3. k \in KeysOf(j.sets) => rs \in j.sets
      BY <2>1 DEF SourcesInv, KeysOf
    <3>4. k \in KeysOf(j.sets) /\ j.epoch /= epoch => Agree(then, d, Times)
      BY <3>3
    <3> HIDE DEF d, then
    <3>5. Latest(msgs, states[k], k, Nat, d, Data)
             => k \in Busy' \/ Latest(msgs', states'[k], k, Nat, then, Data)
      BY <1>2, <1>4, <3>2
    <3>6. Latest(msgs, states[k], k, {epoch}, d, Times)
             => OfEpoch(k, epoch, jobs') \/ Latest(msgs', states'[k], k, {epoch}, then, Times)
      BY <1>3, <1>6, <3>2, <3>4, LatestSame
    <3>7. Overtaken(k, epoch, jobs') => Overtaken(k, epoch, jobs) /\ Agree(then, d, Times)
      BY <1>3, <1>5, <3>2, <3>4, AgreeSame
    <3>8. k \in Marked' => \/ k \in Busy'
                           \/ /\ k \in Marked
                              /\ Reports(msgs, k, d.present) => Reports(msgs', k, then.present)
      BY <1>2, <1>4, <3>2
    <3>9. (k \in Busy => k \in Busy') /\ (OfEpoch(k, epoch, jobs) => OfEpoch(k, epoch, jobs'))
          /\ refreshes \subseteq refreshes' /\ \A t \in refreshes' \ refreshes : rs \in t.sets /\ ~t.read
      BY <1>2, <1>3
    <3> QED
      BY <2>1, <3>5, <3>6, <3>7, <3>8, <3>9, KnownStep DEF d, then
  <2>5. FallbackInv'
    <3>1. InFallback' => InFallback /\ Plan' = Plan
      BY DEF InFallback, Plan
    <3>2. \A rs \in RuleSets(Plan) : rs.key \in Keys
      BY DeclaredKeys
    <3>3. \A rs \in RuleSets(Plan) : rs.key \notin Marked =>
              /\ StateOf(meta', files', rs) = StateOf(meta, files, rs)
              /\ HasCurrent(meta', files', rs) <=> HasCurrent(meta, files, rs)
      BY <1>4, <3>2
    <3>4. Required(Plan) \subseteq RuleSets(Plan)
      BY DeclaredKeys
    <3>5. \A rs \in Required(Plan) :
              (rs.key \in Marked \/ ~HasCurrent(meta, files, rs))
                  => (rs.key \in Marked' \/ ~HasCurrent(meta', files', rs))
      BY <1>2, <3>3, <3>4
    <3>6. \A rs \in RuleSets(Plan) : rs.key \notin Marked' =>
              /\ rs.key \notin Marked
              /\ states[rs.key].present = StateOf(meta, files, rs).present
                   => states'[rs.key].present = StateOf(meta', files', rs).present
              /\ AllSay(msgs, rs.key, StateOf(meta, files, rs).present)
                   => AllSay(msgs', rs.key, StateOf(meta', files', rs).present)
      BY <1>2, <3>3
    <3> QED
      BY <2>1, <3>1, <3>5, <3>6, FallbackStep
  <2> QED
    BY <2>2, <2>3, <2>4, <2>5
<1> QED
  BY <1>7, <1>8, <1>9, <1>10 DEF StateInv, StatesInv

\* The rule-set a thread is at, and the others it downloads.
LEMMA ThreadAt ==
    ASSUME ConstantsOK, Inv, NEW j \in jobs, j.phase /= "send"
    PROVE  /\ JobOK(j, Marked) /\ MetaOK(meta) /\ DOMAIN files = Keys
           /\ Head(j.todo) \in j.sets /\ Head(j.todo).key \in Keys /\ Head(j.todo).key \in KeysOf(j.sets)
           /\ Head(j.todo).url /= NoUrl
           /\ \A rs \in j.sets : rs.key \in Keys /\ (rs.key = Head(j.todo).key => rs = Head(j.todo))
<1>1. JobOK(j, Marked)
  BY DEF Inv, DownloadInv
<1>2. \A rs, other \in j.sets : rs.key \in Keys /\ (rs.key = other.key => rs = other)
  BY <1>1 DEF JobOK, Declared, ConstantsOK
<1> QED
  BY <1>1, <1>2, JobKeys DEF ConstantsOK, Inv, CacheInv

LEMMA AdoptKnown ==
    ASSUME ConstantsOK, Inv, StateInv, NEW j \in jobs, Adopt(j) PROVE StateInv'
<1> DEFINE rs == Head(j.todo)
<1> DEFINE record == meta.records[rs.key]
<1> DEFINE new == [j EXCEPT !.phase = "fetch", !.saved = IF j.phase = "load" THEN meta ELSE j.saved]
<1>1. /\ j.phase \in {"load", "adopt"} /\ Replace(j, new)
      /\ files' = [files EXCEPT ![rs.key] = AdoptedFile(record, files[rs.key], rs)]
      /\ meta' = meta \/ meta' = [meta EXCEPT !.records[rs.key] = Adopted(record, rs)]
      /\ UNCHANGED <<epoch, states, marks, routing, mode, refreshes, msgs, link, stale>>
  BY DEF Adopt, settings, model
<1>2. /\ JobOK(j, Marked) /\ MetaOK(meta) /\ DOMAIN files = Keys
      /\ rs \in j.sets /\ rs.key \in Keys /\ rs.key \in KeysOf(j.sets) /\ rs.url /= NoUrl
      /\ \A other \in j.sets : other.key \in Keys /\ (other.key = rs.key => other = rs)
  BY <1>1, ThreadAt
<1>3. /\ new.sets = j.sets /\ new.epoch = j.epoch /\ new.todo = j.todo /\ new.reports = j.reports
      /\ new.write = j.write /\ new.phase = "fetch"
  BY <1>2 DEF JobOK
<1>4. Complete(new)
  BY <1>3 DEF Complete, StateInv, Shapes
<1> HIDE DEF new, rs
<1>5. /\ Agree(StateOf(meta', files', rs), StateOf(meta, files, rs), Times)
      /\ \A other : (other.key \in Keys /\ other.key /= rs.key) =>
            /\ meta'.records[other.key] = meta.records[other.key] /\ files'[other.key] = files[other.key]
  <2>1. \/ meta'.records[rs.key] = meta.records[rs.key]
        \/ meta'.records[rs.key] = Adopted(meta.records[rs.key], rs)
    BY <1>1, <1>2 DEF MetaOK
  <2>2. Agree(StateOf(meta', files', rs), StateOf(meta, files, rs), Times)
    BY <1>2, <2>1, AdoptedState
  <2>3. \A other : (other.key \in Keys /\ other.key /= rs.key) =>
            /\ meta'.records[other.key] = meta.records[other.key] /\ files'[other.key] = files[other.key]
    BY <1>1, <1>2 DEF MetaOK
  <2> QED
    BY <2>2, <2>3
<1>6. meta'.epoch = meta.epoch
  BY <1>1, <1>2 DEF MetaOK
<1>7. \A other : (other.key \in Keys /\ other.key /= rs.key) =>
          /\ StateOf(meta', files', other) = StateOf(meta, files, other)
          /\ HasCurrent(meta', files', other) <=> HasCurrent(meta, files, other)
  BY <1>5, StateSame
<1>8. \A other \in j.sets : Agree(StateOf(meta', files', other), StateOf(meta, files, other), Times)
  BY <1>2, <1>5, <1>7, AgreeSame
<1> QED
  BY <1>1, <1>2, <1>3, <1>4, <1>6, <1>7, <1>8, ThreadKnown

LEMMA FetchKnown ==
    ASSUME ConstantsOK, Inv, StateInv, NEW j \in jobs, Fetch(j) PROVE StateInv'
<1> DEFINE rs == Head(j.todo)
<1> DEFINE new(o) == [j EXCEPT !.phase = "record", !.reports = Put(j.reports, [k \in {rs.key} |-> o])]
<1>1. /\ j.phase = "fetch" /\ \E o : Replace(j, new(o))
      /\ \/ UNCHANGED files
         \/ \E version : files' = [files EXCEPT ![rs.key] = DownloadedFile(rs, version)]
      /\ UNCHANGED <<epoch, states, marks, meta, routing, mode, refreshes, msgs, link, stale>>
  BY DEF Fetch, settings, model
<1>2. PICK o : Replace(j, new(o))
  BY <1>1
<1>3. /\ JobOK(j, Marked) /\ DOMAIN files = Keys
      /\ rs.key \in Keys /\ rs.key \in KeysOf(j.sets)
      /\ \A other \in j.sets : other.key \in Keys /\ (other.key = rs.key => other = rs)
  BY <1>1, ThreadAt
<1>4. /\ new(o).sets = j.sets /\ new(o).epoch = j.epoch /\ new(o).todo = j.todo
      /\ new(o).write = j.write /\ new(o).phase = "record"
      /\ DOMAIN new(o).reports = DOMAIN j.reports \cup {rs.key}
  BY <1>3 DEF JobOK, Put
<1>5. Complete(new(o))
  BY <1>4 DEF Complete, StateInv, Shapes
<1> HIDE DEF new
<1>6. \A other : (other.key \in Keys /\ other.key /= rs.key) => files'[other.key] = files[other.key]
  BY <1>1, <1>3
<1> HIDE DEF rs
<1>7. \A other : (other.key \in Keys /\ other.key /= rs.key) =>
          /\ StateOf(meta', files', other) = StateOf(meta, files, other)
          /\ HasCurrent(meta', files', other) <=> HasCurrent(meta, files, other)
  BY <1>1, <1>6, StateSame
<1>8. \A other : Agree(StateOf(meta', files', other), StateOf(meta, files, other), Times)
  BY <1>1 DEF Agree, StateOf, Times
<1> QED
  BY <1>1, <1>2, <1>3, <1>4, <1>5, <1>7, <1>8, ThreadKnown

LEMMA RecordKnown ==
    ASSUME ConstantsOK, Inv, StateInv, NEW j \in jobs, Record(j) PROVE StateInv'
<1> DEFINE rs == Head(j.todo)
<1> DEFINE rest == Tail(j.todo)
<1> DEFINE new == [j EXCEPT !.todo = rest, !.phase = IF rest = <<>> THEN "send" ELSE "adopt"]
<1>1. /\ j.phase = "record" /\ Replace(j, new)
      /\ \/ meta' = meta
         \/ meta' = [meta EXCEPT !.records[rs.key] = Recorded(meta, rs, j.reports[rs.key], j.write, now)]
      /\ UNCHANGED <<epoch, states, marks, files, routing, mode, refreshes, msgs, link, stale>>
  BY DEF Record, settings, model
<1>2. /\ JobOK(j, Marked) /\ MetaOK(meta) /\ rs.key \in Keys /\ rs.key \in KeysOf(j.sets)
      /\ \A other \in j.sets : other.key \in Keys /\ (other.key = rs.key => other = rs)
  BY <1>1, ThreadAt
<1>3. /\ new.sets = j.sets /\ new.epoch = j.epoch /\ new.todo = rest /\ new.reports = j.reports
      /\ new.write = j.write /\ new.phase = IF rest = <<>> THEN "send" ELSE "adopt"
  BY <1>2 DEF JobOK
<1>4. Complete(j)
  BY DEF StateInv, Shapes
<1>5. \A i \in 1..Len(j.todo) : j.todo[i] = rs \/ \E l \in 1..Len(rest) : rest[l] = j.todo[i]
  <2>1. j.todo \in Seq(j.sets) /\ j.todo /= <<>>
    BY <1>1, <1>2 DEF JobOK
  <2>2. /\ j.todo[1] = rs /\ Len(j.todo) \in Nat /\ Len(rest) = Len(j.todo) - 1
        /\ \A l \in 1..Len(rest) : rest[l] = j.todo[l + 1]
    BY <2>1
  <2>3. \A i \in 1..Len(j.todo) : i /= 1 => i - 1 \in 1..Len(rest) /\ (i - 1) + 1 = i
    BY <2>2
  <2> HIDE DEF rest, rs
  <2> QED
    BY <2>2, <2>3
<1>6. Complete(new)
  <2>1. \A other \in j.sets : other.key \in DOMAIN j.reports \/ \E l \in 1..Len(rest) : rest[l] = other
    <3>1. rs.key \in DOMAIN j.reports
      BY <1>1, <1>4 DEF Complete
    <3> HIDE DEF rs, rest, new
    <3> QED
      BY <1>4, <1>5, <3>1 DEF Complete
  <2>2. new.phase /= "record" /\ (new.phase = "send" => rest = <<>>)
    BY <1>3
  <2> HIDE DEF new, rest, rs
  <2> QED
    BY <1>3, <1>4, <2>1, <2>2 DEF Complete
<1>7. j.write.epoch = j.epoch /\ meta.epoch = epoch
  BY <1>4 DEF Complete, StateInv, Shapes
<1> HIDE DEF new, rs, rest
<1>8. /\ j.write.epoch /= meta.epoch => Agree(StateOf(meta', files, rs), StateOf(meta, files, rs), Times)
      /\ meta'.epoch = meta.epoch
      /\ \A other : (other.key \in Keys /\ other.key /= rs.key) =>
            meta'.records[other.key] = meta.records[other.key]
  <2>1. \/ meta'.records[rs.key] = meta.records[rs.key]
        \/ meta'.records[rs.key] = Recorded(meta, rs, j.reports[rs.key], j.write, now)
    BY <1>1, <1>2 DEF MetaOK
  <2>2. j.write.epoch /= meta.epoch => Agree(StateOf(meta', files, rs), StateOf(meta, files, rs), Times)
    BY <1>2, <2>1, RecordedState
  <2>3. /\ meta'.epoch = meta.epoch
        /\ \A other : (other.key \in Keys /\ other.key /= rs.key) =>
              meta'.records[other.key] = meta.records[other.key]
    BY <1>1, <1>2 DEF MetaOK
  <2> QED
    BY <2>2, <2>3
<1>9. \A other : (other.key \in Keys /\ other.key /= rs.key) =>
          /\ StateOf(meta', files', other) = StateOf(meta, files, other)
          /\ HasCurrent(meta', files', other) <=> HasCurrent(meta, files, other)
  BY <1>1, <1>8, StateSame
<1>10. j.epoch /= epoch => \A other \in j.sets :
           Agree(StateOf(meta', files', other), StateOf(meta, files, other), Times)
  BY <1>1, <1>2, <1>7, <1>8, <1>9, AgreeSame
<1> QED
  BY <1>1, <1>2, <1>3, <1>6, <1>8, <1>9, <1>10, ThreadKnown

\* A message that is sent leaves the others as they were.
LEMMA SentFacts ==
    ASSUME Inv, Shapes, NEW m, msgs' = Append(msgs, m), News(m), m.type /= "Connected"
    PROVE  /\ IsSeq(msgs) /\ \A i \in 1..Len(msgs') : News(msgs'[i])
           /\ Reported \subseteq Reported'
           /\ m.type = "Updated" => \A k \in DOMAIN m.reports : k \in Keys => k \in Reported'
           /\ LinkOrder /\ UNCHANGED link => LinkOrder'
<1>1. IsSeq(msgs)
  BY MsgsAreSeq
<1>2. /\ Len(msgs) \in Nat /\ Len(msgs') = Len(msgs) + 1 /\ msgs'[Len(msgs) + 1] = m
      /\ \A i \in 1..Len(msgs) : msgs'[i] = msgs[i]
      /\ \A i \in 1..Len(msgs') : i \in 1..Len(msgs) \/ i = Len(msgs) + 1
  BY <1>1, AppendSays
<1>3. 1..Len(msgs) \subseteq 1..Len(msgs') /\ Len(msgs) + 1 \in 1..Len(msgs')
  BY <1>2
<1>4. \A i \in 1..Len(msgs') : News(msgs'[i])
  BY <1>2 DEF Shapes
<1>5. Reported \subseteq Reported'
  BY <1>2, <1>3 DEF Reported
<1>6. m.type = "Updated" => \A k \in DOMAIN m.reports : k \in Keys => k \in Reported'
  BY <1>2, <1>3 DEF Reported
<1>7. \A i \in 1..Len(msgs') : msgs'[i].type = "Connected" => i \in 1..Len(msgs) /\ msgs'[i] = msgs[i]
  BY <1>2
<1>8. ASSUME LinkOrder, UNCHANGED link PROVE LinkOrder'
  BY <1>7, <1>8 DEF LinkOrder
<1> QED
  BY <1>1, <1>4, <1>5, <1>6, <1>8

\* The end of a thread: its message says what the cache holds.
LEMMA SendKnown ==
    ASSUME ConstantsOK, Inv, StateInv, NEW j \in jobs, Send(j) PROVE StateInv'
<1> DEFINE sent == [type |-> "Updated", reports |-> j.reports, epoch |-> j.epoch,
                    states |-> StatesOf(meta, files, j.sets)]
<1> DEFINE mine == KeysOf(j.sets)
<1>1. /\ j.phase = "send" /\ jobs' = jobs \ {j} /\ msgs' = Append(msgs, sent)
      /\ UNCHANGED <<epoch, states, marks, meta, files, routing, mode, refreshes, link, stale>>
  BY DEF Send, cache, settings, model
<1>2. /\ sent.type = "Updated" /\ sent.reports = j.reports /\ sent.epoch = j.epoch
      /\ sent.states = StatesOf(meta, files, j.sets)
  OBVIOUS
<1> HIDE DEF sent
<1>3. JobOK(j, Marked) /\ Complete(j)
  BY DEF Inv, DownloadInv, StateInv, Shapes
<1>4. /\ DOMAIN sent.states = mine /\ mine \subseteq Keys
      /\ \A rs \in j.sets : sent.states[rs.key] = StateOf(meta, files, rs)
      /\ \A k \in mine : IsState(sent.states[k])
  BY <1>2, <1>3, StatesRead DEF JobOK
<1>5. DOMAIN sent.reports = mine
  <2>1. \A rs \in j.sets : rs.key \in DOMAIN j.reports
    BY <1>1, <1>3 DEF Complete
  <2> QED
    BY <1>2, <1>3, <2>1 DEF JobOK, KeysOf
<1>6. mine \subseteq Busy /\ mine \cap Busy' = {} /\ Busy \subseteq Busy' \cup mine /\ mine \subseteq Marked
  BY <1>1, <1>3 DEF Busy, Inv, DownloadInv, OneDownloadPerFile, JobOK
<1>7. \A k \in mine : \A i \in jobs' : k \notin KeysOf(i.sets)
  BY <1>1 DEF Inv, DownloadInv, OneDownloadPerFile
<1>8. \A k : k \notin mine => (OfEpoch(k, epoch, jobs) => OfEpoch(k, epoch, jobs'))
  BY <1>1 DEF OfEpoch
<1>9. Marked' = Marked
  BY <1>1 DEF Marked
<1>10. News(sent)
  BY <1>2, <1>3, <1>4, <1>5 DEF News, Complete
<1>11. /\ IsSeq(msgs) /\ \A i \in 1..Len(msgs') : News(msgs'[i])
       /\ Reported \subseteq Reported' /\ mine \subseteq Reported'
       /\ LinkOrder'
  BY <1>1, <1>2, <1>4, <1>5, <1>10, SentFacts DEF StateInv
<1>12. Shapes'
  BY <1>1, <1>11, ShapesStep DEF StateInv, Shapes
<1>13. MarksUnderWay'
  BY <1>6, <1>9, <1>11 DEF StateInv, MarksUnderWay
<1>14. \A k : Tells(sent, k) <=> k \in mine
  BY <1>2, <1>4 DEF Tells
<1>15. j.epoch \in Nat
  BY <1>3 DEF Complete, Epochs
<1> HIDE DEF mine
<1>16. ASSUME stale' = {} PROVE SourcesInv' /\ (\A rs \in Selectable(routing)' : Known(rs)') /\ FallbackInv'
  <2>1. stale = {} /\ SourcesInv /\ (\A rs \in Selectable(routing) : Known(rs)) /\ FallbackInv
    BY <1>1, <1>16 DEF StateInv, StatesInv
  <2>2. Selectable(routing)' = Selectable(routing)
    BY <1>1 DEF Selectable
  <2>3. SourcesInv'
    BY <1>1, <2>1, <2>2 DEF SourcesInv
  <2>4. ASSUME NEW rs \in Selectable(routing) PROVE Known(rs)'
    <3> DEFINE k == rs.key
    <3> DEFINE d == StateOf(meta, files, rs)
    <3>1. StateOf(meta', files', rs) = d /\ states'[k] = states[k]
      BY <1>1
    <3>2. CASE k \in mine
      <4>1. sent.states[k] = d
        BY <1>4, <2>1, <3>2 DEF SourcesInv, KeysOf, mine
      <4>2. Agree(sent.states[k], d, Data) /\ Agree(sent.states[k], d, Times)
        BY <4>1, AgreeSame
      <4> HIDE DEF d
      <4>3. Latest(msgs', states'[k], k, Nat, d, Data)
        <5>1. Brings(sent, k, Nat)
          BY <1>2, <1>14, <1>15, <3>2 DEF Brings
        <5> QED
          BY <1>1, <1>11, <3>1, <4>2, <5>1, LatestAppend
      <4>4. \/ Latest(msgs', states'[k], k, {epoch}, d, Times)
            \/ OfEpoch(k, epoch, refreshes)
        <5>1. CASE j.epoch = epoch
          <6>1. Brings(sent, k, {epoch})
            BY <1>2, <1>14, <3>2, <5>1 DEF Brings
          <6> QED
            BY <1>1, <1>11, <3>1, <4>2, <6>1, LatestAppend
        <5>2. CASE j.epoch /= epoch
          <6>1. ~Brings(sent, k, {epoch})
            BY <1>2, <5>2 DEF Brings
          <6>2. ~OfEpoch(k, epoch, jobs)
            BY <1>1, <1>7, <3>2, <5>2 DEF OfEpoch
          <6>3. Latest(msgs, states[k], k, {epoch}, d, Times) \/ OfEpoch(k, epoch, refreshes)
            BY <2>1, <6>2 DEF Known, d
          <6> QED
            BY <1>1, <1>11, <3>1, <6>1, <6>3, LatestAppend
        <5> QED
          BY <5>1, <5>2
      <4>5. ~Overtaken(k, epoch, jobs')
        BY <1>7, <3>2 DEF Overtaken
      <4>6. Reports(msgs', k, d.present)
        BY <1>1, <1>2, <1>5, <1>11, <3>2, <4>1, ReportsAppend DEF mine
      <4> QED
        BY <1>1, <3>1, <4>3, <4>4, <4>5, <4>6 DEF Known, d
    <3>3. CASE k \notin mine
      <4> HIDE DEF d
      <4>1. ~Tells(sent, k) /\ ~Brings(sent, k, Nat) /\ ~Brings(sent, k, {epoch})
        BY <1>14, <3>3 DEF Brings
      <4>2. /\ Latest(msgs, states[k], k, Nat, d, Data) => Latest(msgs', states'[k], k, Nat, d, Data)
            /\ Latest(msgs, states[k], k, {epoch}, d, Times)
                 => Latest(msgs', states'[k], k, {epoch}, d, Times)
        BY <1>1, <1>11, <3>1, <4>1, LatestAppend
      <4>3. Reports(msgs, k, d.present) => Reports(msgs', k, d.present)
        BY <1>1, <1>11, <4>1, ReportsAppend
      <4>4. Overtaken(k, epoch, jobs') => Overtaken(k, epoch, jobs)
        BY <1>1 DEF Overtaken
      <4>5. /\ k \in Busy => k \in Busy'
            /\ OfEpoch(k, epoch, jobs) => OfEpoch(k, epoch, jobs')
        BY <1>6, <1>8, <3>3
      <4>6. Agree(d, d, Times)
        BY AgreeSame
      <4> QED
        BY <1>1, <1>9, <2>1, <3>1, <4>2, <4>3, <4>4, <4>5, <4>6, KnownStep DEF d
    <3> QED
      BY <3>2, <3>3
  <2>5. FallbackInv'
    <3>1. InFallback' => InFallback /\ Plan' = Plan
      BY <1>1 DEF InFallback, Plan
    <3>2. ASSUME NEW rs \in RuleSets(Plan), rs.key \notin Marked, NEW p, AllSay(msgs, rs.key, p)
          PROVE  AllSay(msgs', rs.key, p)
      <4>1. ~Tells(sent, rs.key)
        BY <1>6, <1>14, <3>2
      <4> QED
        BY <1>1, <1>11, <3>2, <4>1, ReportsAppend
    <3> QED
      BY <1>1, <1>9, <2>1, <3>1, <3>2, FallbackStep
  <2> QED
    BY <2>2, <2>3, <2>4, <2>5
<1> QED
  BY <1>11, <1>12, <1>13, <1>16 DEF StateInv, StatesInv

\* A refresh sends what it read: unless it is outdated, what the cache
\* holds, or a download that is under way will say more.
LEMMA RefreshKnown ==
    ASSUME ConstantsOK, Inv, StateInv, NEW t \in refreshes, Refresh(t) PROVE StateInv'
<1> DEFINE sent == [type |-> "Refreshed", epoch |-> t.epoch, states |-> t.states]
<1> DEFINE mine == KeysOf(t.sets)
<1>1. /\ t.read /\ refreshes' = refreshes \ {t} /\ msgs' = Append(msgs, sent)
      /\ stale' = stale \cup Outdated(t.states)
      /\ UNCHANGED <<epoch, states, marks, meta, files, routing, mode, jobs, link>>
  BY DEF Refresh, cache, settings, model
<1>2. sent.type = "Refreshed" /\ sent.epoch = t.epoch /\ sent.states = t.states
  OBVIOUS
<1> HIDE DEF sent
<1>3. ReaderOK(t)
  BY DEF StateInv, Shapes
<1>4. /\ DOMAIN sent.states = mine /\ mine \subseteq Keys
      /\ \A k \in mine : IsState(sent.states[k])
  <2>1. mine \subseteq Keys
    BY <1>3 DEF ReaderOK, Declared, ConstantsOK, KeysOf
  <2> QED
    BY <1>1, <1>2, <1>3, <2>1 DEF ReaderOK
<1>5. News(sent)
  BY <1>2, <1>3, <1>4 DEF News, ReaderOK
<1>6. /\ IsSeq(msgs) /\ \A i \in 1..Len(msgs') : News(msgs'[i])
      /\ Reported \subseteq Reported'
      /\ LinkOrder'
  BY <1>1, <1>2, <1>5, SentFacts DEF StateInv
<1>7. Marked' = Marked /\ Busy' = Busy
  BY <1>1 DEF Marked, Busy
<1>8. Shapes'
  BY <1>1, <1>6, ShapesStep DEF StateInv, Shapes
<1>9. MarksUnderWay'
  BY <1>6, <1>7 DEF StateInv, MarksUnderWay
<1>10. \A k : Tells(sent, k) <=> k \in mine
  BY <1>2, <1>4 DEF Tells
<1>11. t.epoch \in Nat
  BY <1>3 DEF ReaderOK, Epochs
<1> HIDE DEF mine
<1>12. ASSUME stale' = {} PROVE SourcesInv' /\ (\A rs \in Selectable(routing)' : Known(rs)') /\ FallbackInv'
  <2>1. stale = {} /\ SourcesInv /\ (\A rs \in Selectable(routing) : Known(rs)) /\ FallbackInv
    BY <1>1, <1>12 DEF StateInv, StatesInv
  <2>2. Selectable(routing)' = Selectable(routing)
    BY <1>1 DEF Selectable
  <2>3. SourcesInv'
    BY <1>1, <2>1, <2>2 DEF SourcesInv
  <2>4. \A rs \in Selectable(routing) : rs.key \in mine \ Busy => sent.states[rs.key] = StateOf(meta, files, rs)
    <3>1. Outdated(t.states) = {}
      BY <1>1, <1>12
    <3>2. ASSUME NEW rs \in Selectable(routing), rs.key \in mine, rs.key \notin Busy
          PROVE  sent.states[rs.key] = StateOf(meta, files, rs)
      <4>1. rs.key \in DOMAIN t.states \cap KeysOf(Selectable(routing))
        BY <1>2, <1>4, <3>2 DEF KeysOf
      <4>2. rs.key \notin UNION {KeysOf(j.sets) : j \in jobs}
        BY <3>2 DEF Busy
      <4>3. t.states[rs.key] = StatesOf(meta, files, Selectable(routing))[rs.key]
        BY <3>1, <4>1, <4>2 DEF Outdated
      <4>4. StatesOf(meta, files, Selectable(routing))[rs.key] = StateOf(meta, files, rs)
        BY <3>2, PlanIsDeclared, StatesRead
      <4> QED
        BY <1>2, <4>3, <4>4
    <3> QED
      BY <3>2
  <2>5. ASSUME NEW rs \in Selectable(routing) PROVE Known(rs)'
    <3> DEFINE k == rs.key
    <3> DEFINE d == StateOf(meta, files, rs)
    <3>1. StateOf(meta', files', rs) = d /\ states'[k] = states[k]
      BY <1>1
    <3>2. k \in mine /\ k \notin Busy => sent.states[k] = d
      BY <2>4
    <3>3. Known(rs)
      BY <2>1
    <3>4. /\ Brings(sent, k, Nat) <=> k \in mine
          /\ Brings(sent, k, {epoch}) <=> (k \in mine /\ t.epoch = epoch)
      BY <1>2, <1>10, <1>11 DEF Brings
    <3>5. k \notin mine => \A s \in refreshes : k \in KeysOf(s.sets) => s \in refreshes'
      BY <1>1 DEF mine
    <3> HIDE DEF d
    <3>6. \/ Latest(msgs', states'[k], k, Nat, d, Data)
          \/ k \in Busy'
          \/ \E s \in refreshes' : k \in KeysOf(s.sets)
      <4>1. CASE k \in Busy
        BY <1>7, <4>1
      <4>2. CASE k \in mine /\ k \notin Busy
        <5>1. Agree(sent.states[k], d, Data)
          BY <3>2, <4>2, AgreeSame
        <5> QED
          BY <1>1, <1>6, <3>1, <3>4, <4>2, <5>1, LatestAppend
      <4>3. CASE k \notin mine /\ k \notin Busy
        <5>1. Latest(msgs, states[k], k, Nat, d, Data) \/ \E s \in refreshes' : k \in KeysOf(s.sets)
          BY <3>3, <3>5, <4>3 DEF Known, d
        <5> QED
          BY <1>1, <1>6, <3>1, <3>4, <4>3, <5>1, LatestAppend
      <4> QED
        BY <4>1, <4>2, <4>3
    <3>7. \/ Latest(msgs', states'[k], k, {epoch}, d, Times)
          \/ OfEpoch(k, epoch, jobs)
          \/ OfEpoch(k, epoch, refreshes')
      <4>1. CASE k \in mine /\ t.epoch = epoch
        <5>1. ASSUME ~OfEpoch(k, epoch, jobs) PROVE Agree(sent.states[k], d, Times)
          <6>1. CASE k \notin Busy
            BY <3>2, <4>1, <6>1, AgreeSame
          <6>2. CASE k \in Busy
            <7>1. Overtaken(k, epoch, jobs)
              BY <5>1, <6>2 DEF Busy, OfEpoch, Overtaken
            <7> QED
              BY <1>1, <1>2, <3>3, <4>1, <7>1 DEF Known, d, mine
          <6> QED
            BY <6>1, <6>2
        <5>2. CASE OfEpoch(k, epoch, jobs)
          BY <5>2
        <5>3. CASE ~OfEpoch(k, epoch, jobs)
          <6>1. Brings(sent, k, {epoch}) /\ Agree(sent.states[k], d, Times)
            BY <3>4, <4>1, <5>1, <5>3
          <6> QED
            BY <1>1, <1>6, <3>1, <6>1, LatestAppend
        <5> QED
          BY <5>2, <5>3
      <4>2. CASE ~(k \in mine /\ t.epoch = epoch)
        <5>1. OfEpoch(k, epoch, refreshes) => OfEpoch(k, epoch, refreshes')
          BY <1>1, <4>2 DEF OfEpoch, mine
        <5>2. \/ Latest(msgs, states[k], k, {epoch}, d, Times)
              \/ OfEpoch(k, epoch, jobs)
              \/ OfEpoch(k, epoch, refreshes)
          BY <3>3 DEF Known, d
        <5>3. ~Brings(sent, k, {epoch})
          BY <3>4, <4>2
        <5>4. Latest(msgs, states[k], k, {epoch}, d, Times)
                => Latest(msgs', states'[k], k, {epoch}, d, Times)
          BY <1>1, <1>6, <3>1, <5>3, LatestAppend
        <5> QED
          BY <5>1, <5>2, <5>4
      <4> QED
        BY <4>1, <4>2
    <3>8. \A s \in refreshes' :
             (s.epoch = epoch /\ k \in KeysOf(s.sets) /\ Overtaken(k, epoch, jobs)) =>
                 /\ rs \in s.sets
                 /\ s.read => Agree(s.states[k], d, Times)
      BY <1>1, <3>3 DEF Known, d
    <3>9. k \in Marked' => k \in Busy' \/ Reports(msgs', k, d.present)
      <4>1. ASSUME k \in Marked, k \notin Busy PROVE Reports(msgs', k, d.present)
        <5>1. Reports(msgs, k, d.present)
          BY <3>3, <4>1 DEF Known, d
        <5>2. Tells(sent, k) => sent.states[k].present = d.present
          BY <1>10, <3>2, <4>1
        <5> QED
          BY <1>1, <1>6, <5>1, <5>2, ReportsAppend
      <4> QED
        BY <1>7, <4>1
    <3> QED
      BY <1>1, <3>1, <3>6, <3>7, <3>8, <3>9 DEF Known, d
  <2>6. FallbackInv'
    <3>1. InFallback' => InFallback /\ Plan' = Plan
      BY <1>1 DEF InFallback, Plan
    <3>2. Busy \subseteq Marked
      BY DEF Busy, Inv, DownloadInv, JobOK
    <3>3. ASSUME NEW rs \in RuleSets(Plan), rs.key \notin Marked,
                 AllSay(msgs, rs.key, StateOf(meta, files, rs).present)
          PROVE  AllSay(msgs', rs.key, StateOf(meta, files, rs).present)
      <4>1. Tells(sent, rs.key) => sent.states[rs.key].present = StateOf(meta, files, rs).present
        BY <1>10, <2>4, <3>2, <3>3, DeclaredKeys
      <4> QED
        BY <1>1, <1>6, <3>3, <4>1, ReportsAppend
    <3> QED
      BY <1>1, <1>7, <2>1, <3>1, <3>3, FallbackStep
  <2> QED
    BY <2>2, <2>3, <2>5, <2>6
<1> QED
  BY <1>6, <1>8, <1>9, <1>12 DEF StateInv, StatesInv

\* A refresh that reads finds what the cache holds.
LEMMA ReadKnown ==
    ASSUME ConstantsOK, Inv, StateInv, NEW t \in refreshes, ReadStates(t) PROVE StateInv'
<1> DEFINE new == [t EXCEPT !.read = TRUE, !.states = StatesOf(meta, files, t.sets)]
<1>1. /\ refreshes' = (refreshes \ {t}) \cup {new}
      /\ UNCHANGED <<epoch, states, marks, meta, files, routing, mode, jobs, msgs, link, stale>>
  BY DEF ReadStates, cache, settings, model
<1>2. ReaderOK(t)
  BY DEF StateInv, Shapes
<1>3. /\ DOMAIN new = {"sets", "epoch", "read", "states"}
      /\ new.sets = t.sets /\ new.epoch = t.epoch /\ new.read
      /\ new.states = StatesOf(meta, files, t.sets)
  BY <1>2 DEF ReaderOK
<1> HIDE DEF new
<1>4. /\ DOMAIN new.states = KeysOf(t.sets)
      /\ \A rs \in t.sets : new.states[rs.key] = StateOf(meta, files, rs)
      /\ \A k \in KeysOf(t.sets) : IsState(new.states[k])
  BY <1>2, <1>3, StatesRead DEF ReaderOK
<1>5. ReaderOK(new)
  BY <1>2, <1>3, <1>4 DEF ReaderOK
<1>6. Marked' = Marked /\ Busy' = Busy
  BY <1>1 DEF Marked, Busy
<1>7. Shapes'
  BY <1>1, <1>5, ShapesStep DEF StateInv, Shapes
<1>8. MarksUnderWay'
  BY <1>1, <1>6 DEF StateInv, MarksUnderWay, Reported
<1>9. LinkOrder'
  BY <1>1, OrderStays DEF StateInv
<1>10. ASSUME stale' = {} PROVE SourcesInv' /\ (\A rs \in Selectable(routing)' : Known(rs)') /\ FallbackInv'
  <2>1. stale = {} /\ SourcesInv /\ (\A rs \in Selectable(routing) : Known(rs)) /\ FallbackInv
    BY <1>1, <1>10 DEF StateInv, StatesInv
  <2>2. Selectable(routing)' = Selectable(routing)
    BY <1>1 DEF Selectable
  <2>3. SourcesInv'
    BY <1>1, <2>1, <2>2 DEF SourcesInv
  <2>4. ASSUME NEW rs \in Selectable(routing) PROVE Known(rs)'
    <3> DEFINE k == rs.key
    <3> DEFINE d == StateOf(meta, files, rs)
    <3>1. StateOf(meta', files', rs) = d
      BY <1>1
    <3>2. /\ (\E s \in refreshes : k \in KeysOf(s.sets)) => \E s \in refreshes' : k \in KeysOf(s.sets)
          /\ OfEpoch(k, epoch, refreshes) => OfEpoch(k, epoch, refreshes')
      BY <1>1, <1>3 DEF OfEpoch
    <3>3. ASSUME NEW s \in refreshes', s.epoch = epoch, k \in KeysOf(s.sets), Overtaken(k, epoch, jobs)
          PROVE  /\ rs \in s.sets
                 /\ s.read => Agree(s.states[k], d, Times)
      <4>1. CASE s \in refreshes
        BY <2>1, <3>3, <4>1 DEF Known
      <4>2. CASE s = new
        <5>1. rs \in t.sets
          BY <1>3, <2>1, <3>3, <4>2 DEF Known
        <5> QED
          BY <1>3, <1>4, <4>2, <5>1, AgreeSame
      <4> QED
        BY <1>1, <4>1, <4>2
    <3>4. Known(rs)
      BY <2>1
    <3> HIDE DEF d
    <3>5. /\ \/ Latest(msgs, states[k], k, Nat, d, Data)
             \/ k \in Busy
             \/ \E s \in refreshes : k \in KeysOf(s.sets)
          /\ \/ Latest(msgs, states[k], k, {epoch}, d, Times)
             \/ OfEpoch(k, epoch, jobs)
             \/ OfEpoch(k, epoch, refreshes)
          /\ k \in Marked => k \in Busy \/ Reports(msgs, k, d.present)
      BY <3>4 DEF Known, d
    <3> QED
      BY <1>1, <1>6, <3>1, <3>2, <3>3, <3>5 DEF Known, d
  <2>5. FallbackInv'
    BY <1>1, <1>6, <2>1 DEF FallbackInv, InFallback, Plan
  <2> QED
    BY <2>2, <2>3, <2>4, <2>5
<1> QED
  BY <1>7, <1>8, <1>9, <1>10 DEF StateInv, StatesInv

-----------------------------------------------------------------------------
(* The next interval, tunnels and starts.                                  *)

\* A new epoch: what threads and messages say of schedules no longer counts,
\* and the main thread itself reads the cache.
LEMMA IntervalKnown == ASSUME ConstantsOK, Inv, StateInv, CycleGeoInterval PROVE StateInv'
<1> DEFINE sets == Selectable(routing)
<1> DEFINE reset == ResetSchedules(meta, sets, auto' /= "Off", now)
<1>1. /\ UNCHANGED <<files, marks, routing, mode, jobs, refreshes, msgs, link, stale>>
      /\ \/ meta' = reset /\ epoch' = reset.epoch /\ states' = Put(states, StatesOf(reset, files, sets))
         \/ UNCHANGED <<meta, epoch, states>>
  BY DEF CycleGeoInterval, threads
<1>2. CASE UNCHANGED <<meta, epoch, states>>
  <2>1. LinkOrder'
    BY <1>1, OrderStays DEF StateInv
  <2> QED
    BY <1>1, <1>2, <2>1, ElsewhereKnown DEF InFallback, Plan
<1>3. CASE meta' = reset /\ epoch' = reset.epoch /\ states' = Put(states, StatesOf(reset, files, sets))
  <2>1. MetaOK(meta) /\ epoch \in Nat /\ meta.epoch = epoch /\ DOMAIN states = Keys
        /\ \A k \in Keys : IsState(states[k])
    BY DEF Inv, CacheInv, StateInv, Shapes
  <2>2. /\ reset.epoch = meta.epoch + 1
        /\ \A rs \in sets : /\ Agree(StateOf(reset, files, rs), StateOf(meta, files, rs), Data)
                            /\ HasCurrent(reset, files, rs) <=> HasCurrent(meta, files, rs)
    <3> DEFINE enabled == auto' /= "Off"
    <3>1. enabled = (auto' /= "Off")
      OBVIOUS
    <3> HIDE DEF enabled
    <3>2. \A rs : rs.key \in Keys =>
            /\ Agree(StateOf(ResetSchedules(meta, sets, enabled, now), files, rs), StateOf(meta, files, rs), Data)
            /\ HasCurrent(ResetSchedules(meta, sets, enabled, now), files, rs) <=> HasCurrent(meta, files, rs)
      BY <2>1, ScheduledState
    <3>3. ResetSchedules(meta, sets, enabled, now).epoch = meta.epoch + 1
      BY <2>1 DEF ResetSchedules, WithRecords, MetaOK
    <3> QED
      BY <3>1, <3>2, <3>3, DeclaredKeys
  <2> HIDE DEF reset
  <2>3. /\ DOMAIN StatesOf(reset, files, sets) = KeysOf(sets)
        /\ \A rs \in sets : StatesOf(reset, files, sets)[rs.key] = StateOf(reset, files, rs)
        /\ \A k \in KeysOf(sets) : IsState(StatesOf(reset, files, sets)[k])
        /\ KeysOf(sets) \subseteq Keys
    BY PlanIsDeclared, StatesRead
  <2>4. /\ DOMAIN states' = Keys /\ \A k \in Keys : IsState(states'[k])
        /\ \A rs \in sets : states'[rs.key] = StateOf(reset, files, rs)
    <3>1. \A rs \in sets : rs.key \in KeysOf(sets)
      BY DEF KeysOf
    <3>2. DOMAIN states' = Keys
      BY <1>3, <2>1, <2>3 DEF Put
    <3>3. \A k \in KeysOf(sets) : states'[k] = StatesOf(reset, files, sets)[k]
      BY <1>3, <2>3 DEF Put
    <3>4. \A k \in Keys \ KeysOf(sets) : states'[k] = states[k]
      BY <1>3, <2>1, <2>3 DEF Put
    <3> QED
      BY <2>1, <2>3, <3>1, <3>2, <3>3, <3>4
  <2>5. epoch' = epoch + 1 /\ epoch' \in Nat /\ meta'.epoch = epoch'
    BY <1>3, <2>1, <2>2
  <2>6. Epochs \subseteq Epochs' /\ epoch' \notin Epochs
    BY <2>1, <2>5 DEF Epochs
  <2>7. Marked' = Marked /\ Busy' = Busy
    BY <1>1 DEF Marked, Busy
  <2>8. Shapes'
    <3>1. \A m : News(m) => News(m)'
      BY <2>6 DEF News
    <3>2. \A t : ReaderOK(t) => ReaderOK(t)'
      BY <2>6 DEF ReaderOK
    <3>3. \A j : Complete(j) => Complete(j)'
      BY <2>6 DEF Complete
    <3> QED
      BY <1>1, <2>4, <2>5, <3>1, <3>2, <3>3 DEF StateInv, Shapes
  <2>9. MarksUnderWay'
    BY <1>1, <2>7 DEF StateInv, MarksUnderWay, Reported
  <2>10. LinkOrder'
    BY <1>1, OrderStays DEF StateInv
  <2>11. ASSUME stale' = {} PROVE SourcesInv' /\ (\A rs \in Selectable(routing)' : Known(rs)') /\ FallbackInv'
    <3>1. stale = {} /\ SourcesInv /\ (\A rs \in Selectable(routing) : Known(rs)) /\ FallbackInv
      BY <1>1, <2>11 DEF StateInv, StatesInv
    <3>2. Selectable(routing)' = sets
      BY <1>1 DEF Selectable
    <3>3. SourcesInv'
      BY <1>1, <3>1, <3>2 DEF SourcesInv
    <3>4. ASSUME NEW rs \in sets PROVE Known(rs)'
      <4> DEFINE k == rs.key
      <4> DEFINE d == StateOf(meta, files, rs)
      <4> DEFINE then == StateOf(meta', files', rs)
      <4>1. then = StateOf(reset, files, rs) /\ states'[k] = then
        BY <1>1, <1>3, <2>4
      <4>2. Agree(then, d, Data)
        BY <2>2, <4>1
      <4>3. \A i \in 1..Len(msgs) : ~Brings(msgs[i], k, {epoch'})
        BY <2>6 DEF Brings, Tells, StateInv, Shapes, News
      <4>4. \A t \in refreshes : t.epoch /= epoch'
        BY <2>6 DEF StateInv, Shapes, ReaderOK
      <4>5. Known(rs)
        BY <3>1
      <4> HIDE DEF d, then
      <4>6. Agree(states'[k], then, Data) /\ Agree(states'[k], then, Times)
        BY <4>1, AgreeSame
      <4>7. Latest(msgs', states'[k], k, {epoch'}, then, Times)
        BY <1>1, <4>3, <4>6 DEF Latest
      <4>8. Latest(msgs, states[k], k, Nat, d, Data) => Latest(msgs', states'[k], k, Nat, then, Data)
        BY <1>1, <4>2, <4>6 DEF Latest, Agree
      <4>9. \/ Latest(msgs', states'[k], k, Nat, then, Data)
            \/ k \in Busy'
            \/ \E t \in refreshes' : k \in KeysOf(t.sets)
        BY <1>1, <2>7, <4>5, <4>8 DEF Known, d
      <4>10. k \in Marked' => k \in Busy' \/ Reports(msgs', k, then.present)
        <5>1. then.present = d.present
          BY <4>2 DEF Agree, Data
        <5> QED
          BY <1>1, <2>7, <4>5, <5>1 DEF Known, d
      <4> QED
        BY <1>1, <4>4, <4>7, <4>9, <4>10 DEF Known, then
    <3>5. FallbackInv'
      <4>1. InFallback' => InFallback /\ Plan' = Plan
        BY <1>1 DEF InFallback, Plan
      <4>2. \A rs \in RuleSets(Plan) :
               /\ HasCurrent(meta', files', rs) <=> HasCurrent(meta, files, rs)
               /\ StateOf(meta', files', rs).present = StateOf(meta, files, rs).present
               /\ states'[rs.key].present = StateOf(meta', files', rs).present
        BY <1>1, <1>3, <2>2, <2>4, DeclaredKeys DEF Agree, Data
      <4>3. Required(Plan) \subseteq RuleSets(Plan)
        BY DeclaredKeys
      <4> QED
        BY <1>1, <2>7, <3>1, <4>1, <4>2, <4>3, FallbackStep
    <3> QED
      BY <3>2, <3>3, <3>4, <3>5
  <2> QED
    BY <2>8, <2>9, <2>10, <2>11 DEF StateInv, StatesInv
<1> QED
  BY <1>1, <1>2, <1>3

\* A tunnel that starts reports what it did without.
LEMMA WorkerKnown == ASSUME ConstantsOK, Inv, StateInv, WorkerStarts PROVE StateInv'
<1> DEFINE plan == link.worker.plan
<1> DEFINE used == link.worker.used
<1> DEFINE sent == [type |-> "Connected", fallback |-> Fallback(plan, used),
                    skipped |-> Skipped(plan, used)]
<1>1. /\ link.worker.on /\ msgs' = Append(msgs, sent)
      /\ \E from, edited : link' = [link EXCEPT !.worker = NoWorker,
            !.tunnel = [up |-> TRUE, plan |-> plan, edited |-> edited, from |-> from]]
      /\ UNCHANGED <<epoch, states, marks, meta, files, routing, mode, jobs, refreshes, stale>>
  BY DEF WorkerStarts, cache, settings, model, threads
<1>2. sent.type = "Connected" /\ (sent.fallback => Required(plan) /= {})
  BY DEF Fallback
<1> HIDE DEF sent
<1>3. link'.state = link.state /\ ~link'.worker.on /\ link'.tunnel.plan = plan
  BY <1>1 DEF Inv, LinkInv, NoWorker
<1>4. link.state = "ConnectPending" /\ \A i \in 1..Len(msgs) : msgs[i].type /= "Connected"
  BY <1>1 DEF StateInv, LinkOrder
<1> HIDE DEF plan
<1>5. IsSeq(msgs)
  BY MsgsAreSeq
<1>6. /\ Len(msgs) \in Nat /\ Len(msgs') = Len(msgs) + 1 /\ msgs'[Len(msgs) + 1] = sent
      /\ \A i \in 1..Len(msgs) : msgs'[i] = msgs[i]
      /\ \A i \in 1..Len(msgs') : i \in 1..Len(msgs) \/ i = Len(msgs) + 1
  BY <1>1, <1>5, AppendSays
<1>7. Marked' = Marked /\ Busy' = Busy
  BY <1>1 DEF Marked, Busy
<1>8. Shapes'
  <2>1. News(sent)
    BY <1>2 DEF News
  <2>2. \A i \in 1..Len(msgs') : News(msgs'[i])
    BY <1>6, <2>1 DEF StateInv, Shapes
  <2> QED
    BY <1>1, <2>2, ShapesStep DEF StateInv, Shapes
<1>9. MarksUnderWay'
  <2>1. \A i \in 1..Len(msgs) : i \in 1..Len(msgs')
    BY <1>6
  <2>2. Reported \subseteq Reported'
    BY <1>6, <2>1 DEF Reported
  <2> QED
    BY <1>7, <2>2 DEF StateInv, MarksUnderWay
<1>10. LinkOrder'
  <2>1. \A i \in 1..Len(msgs') : msgs'[i].type = "Connected" => i = Len(msgs) + 1
    BY <1>4, <1>6
  <2> QED
    BY <1>2, <1>3, <1>4, <1>6, <2>1 DEF LinkOrder
<1>11. ASSUME stale' = {} PROVE SourcesInv' /\ (\A rs \in Selectable(routing)' : Known(rs)') /\ FallbackInv'
  <2>1. stale = {} /\ SourcesInv /\ (\A rs \in Selectable(routing) : Known(rs)) /\ FallbackInv
    BY <1>1, <1>11 DEF StateInv, StatesInv
  <2>2. Selectable(routing)' = Selectable(routing)
    BY <1>1 DEF Selectable
  <2>3. SourcesInv'
    BY <1>1, <2>1, <2>2 DEF SourcesInv
  <2>4. /\ \A k, epochs : ~Brings(sent, k, epochs)
        /\ \A k : ~Tells(sent, k)
    BY <1>2 DEF Brings, Tells
  <2>5. ASSUME NEW rs \in Selectable(routing) PROVE Known(rs)'
    <3>1. \A epochs, d, fs : Latest(msgs, states[rs.key], rs.key, epochs, d, fs)
                               => Latest(msgs', states[rs.key], rs.key, epochs, d, fs)
      BY <1>1, <1>5, <2>4, LatestAppend
    <3>2. \A p : Reports(msgs, rs.key, p) => Reports(msgs', rs.key, p)
      BY <1>1, <1>5, <2>4, ReportsAppend
    <3> QED
      BY <1>1, <1>7, <2>1, <3>1, <3>2, KnownKept
  <2>6. FallbackInv'
    BY <1>3, <1>4 DEF FallbackInv, InFallback
  <2> QED
    BY <2>2, <2>3, <2>5, <2>6
<1> QED
  BY <1>8, <1>9, <1>10, <1>11 DEF StateInv, StatesInv

\* A daemon that starts reads the cache before anything else.
Fresh ==
    /\ jobs = {} /\ refreshes = {} /\ msgs = <<>> /\ Marked = {}
    /\ link = IdleLink
    /\ epoch \in Nat /\ meta.epoch = epoch
    /\ states = Loaded(meta, Selectable(routing))

LEMMA FreshKnown ==
    ASSUME ConstantsOK, routing \in Routings, Fresh PROVE StateInv
<1> DEFINE sets == Selectable(routing)
<1>1. Declared(sets)
  BY DEF Declared
<1>2. /\ DOMAIN StatesOf(meta, files, sets) = KeysOf(sets)
      /\ \A rs \in sets : StatesOf(meta, files, sets)[rs.key] = StateOf(meta, files, rs)
      /\ \A k \in KeysOf(sets) : IsState(StatesOf(meta, files, sets)[k])
      /\ KeysOf(sets) \subseteq Keys
  BY <1>1, StatesRead
<1>3. \A rs \in sets : rs.key \in KeysOf(sets)
  BY DEF KeysOf
<1> DEFINE unknown == [present |-> FALSE, checked |-> Unset, retry |-> NoRetry, next |-> Unset]
<1>4. IsState(unknown)
  BY DEF IsState, Data, Times
<1>5. states = Put([k \in Keys |-> unknown], StatesOf(meta, files, sets))
  BY DEF Fresh, Loaded
<1> HIDE DEF unknown, sets
<1>6. /\ DOMAIN states = Keys
      /\ \A k \in KeysOf(sets) : states[k] = StatesOf(meta, files, sets)[k]
      /\ \A k \in Keys \ KeysOf(sets) : states[k] = unknown
  BY <1>2, <1>5 DEF Put
<1>7. Len(msgs) = 0 /\ 1..Len(msgs) = {}
  BY DEF Fresh
<1>8. IdleLink.state = "Idle" /\ ~IdleLink.worker.on
  BY DEF IdleLink, NoWorker
<1>9. Shapes
  BY <1>2, <1>4, <1>6, <1>7 DEF Shapes, Fresh
<1>10. MarksUnderWay /\ LinkOrder /\ FallbackInv /\ SourcesInv
  BY <1>7, <1>8 DEF MarksUnderWay, LinkOrder, FallbackInv, InFallback, SourcesInv, Fresh
<1>11. ASSUME NEW rs \in sets PROVE Known(rs)
  <2> DEFINE d == StateOf(meta, files, rs)
  <2>1. states[rs.key] = d
    BY <1>2, <1>3, <1>6
  <2>2. Agree(states[rs.key], d, Data) /\ Agree(states[rs.key], d, Times)
    BY <2>1, AgreeSame
  <2> HIDE DEF d
  <2>3. /\ Latest(msgs, states[rs.key], rs.key, Nat, d, Data)
        /\ Latest(msgs, states[rs.key], rs.key, {epoch}, d, Times)
    BY <1>7, <2>2 DEF Latest
  <2> QED
    BY <2>3 DEF Known, d, Fresh
<1> QED
  BY <1>9, <1>10, <1>11 DEF StateInv, StatesInv, sets

LEMMA NoMarks == DOMAIN <<>> = {}
OBVIOUS

LEMMA RestartFresh == ASSUME ConstantsOK, Inv, StateInv, Restart PROVE Fresh'
<1> DEFINE sets == Selectable(routing)
<1> DEFINE ensured == EnsureSchedules(meta, sets, auto /= "Off", now)
<1>1. /\ jobs' = {} /\ refreshes' = {} /\ msgs' = <<>> /\ marks' = <<>> /\ link' = IdleLink
      /\ epoch' = meta.epoch /\ meta' = ensured
      /\ UNCHANGED <<files, routing>>
  BY DEF Restart
<1>2. states' = Loaded(meta', sets)
  BY DEF Restart
<1>3. ensured.epoch = meta.epoch
  BY DEF EnsureSchedules, WithRecords, Inv, CacheInv, MetaOK
<1>4. Loaded(meta', sets) = Loaded(meta, sets)'
  BY <1>1 DEF Loaded, Selectable
<1>5. epoch' \in Nat /\ meta'.epoch = epoch'
  BY <1>1, <1>3 DEF StateInv, Shapes
<1>6. Marked' = {}
  BY <1>1, NoMarks DEF Marked
<1> HIDE DEF ensured
<1> QED
  BY <1>1, <1>2, <1>4, <1>5, <1>6 DEF Fresh

LEMMA InitFresh == Init => Fresh
<1> SUFFICES ASSUME Init PROVE Fresh
  OBVIOUS
<1> DEFINE empty == [epoch |-> 0, records |-> [k \in Keys |-> NoRecord]]
<1>1. /\ meta = EnsureSchedules(empty, Selectable(routing), TRUE, now)
      /\ jobs = {} /\ refreshes = {} /\ msgs = <<>> /\ marks = <<>> /\ link = IdleLink
      /\ epoch = 0 /\ states = Loaded(meta, Selectable(routing))
  BY DEF Init
<1>2. meta.epoch = 0
  BY <1>1 DEF EnsureSchedules, WithRecords
<1>3. Marked = {}
  BY <1>1, NoMarks DEF Marked
<1> HIDE DEF empty
<1> QED
  BY <1>1, <1>2, <1>3 DEF Fresh

LEMMA RestartKnown == ASSUME ConstantsOK, Inv, StateInv, Restart PROVE StateInv'
<1>1. routing' \in Routings
  BY PlanIsDeclared DEF Restart
<1>2. Fresh'
  BY RestartFresh
<1>3. (routing \in Routings /\ Fresh => StateInv)'
  BY FreshKnown, PTL
<1> QED
  BY <1>1, <1>2, <1>3

LEMMA StateStepKeeps == ASSUME ConstantsOK, Inv, StateInv, Next PROVE StateInv'
BY StartsKnown, ConnectionKnown, RefreshedKnown, UpdatedKnown, ConnectedKnown, ReloadKnown,
   AdoptKnown, FetchKnown, RecordKnown, SendKnown, RefreshKnown, ReadKnown, IntervalKnown,
   WorkerKnown, RestartKnown DEF Next

LEMMA StateStutterKeeps == ASSUME Inv, StateInv, UNCHANGED vars PROVE StateInv'
<1>1. UNCHANGED <<epoch, states, marks, meta, files, routing, mode, jobs, refreshes, stale, msgs, link>>
  BY DEF vars, settings, model, cache, threads
<1>2. LinkOrder'
  BY <1>1, OrderStays DEF StateInv
<1> QED
  BY <1>1, <1>2, ElsewhereKnown DEF InFallback, Plan

LEMMA StatesStartRight == ASSUME ConstantsOK, Init PROVE StateInv
<1>1. routing \in Routings
  BY DEF Init
<1> QED
  BY <1>1, InitFresh, FreshKnown

\* Once nothing is under way the daemon knows what the cache holds, and a
\* fallback has a file that is missing.
LEMMA QuietIsKnown ==
    ASSUME ConstantsOK, Inv, StateInv PROVE StatesMatchDisk /\ FallbackOnlyWhileMissing
<1> SUFFICES ASSUME Quiet, stale = {}
             PROVE  /\ \A k \in KeysOf(Selectable(routing)) :
                          states[k] = StatesOf(meta, files, Selectable(routing))[k]
                    /\ InFallback => \E rs \in Required(Plan) : ~HasCurrent(meta, files, rs)
  BY DEF StatesMatchDisk, FallbackOnlyWhileMissing, InFallback
<1> DEFINE sets == Selectable(routing)
<1>1. jobs = {} /\ refreshes = {} /\ Len(msgs) = 0 /\ Busy = {} /\ 1..Len(msgs) = {}
  BY DEF Quiet, Busy
<1>2. ASSUME NEW rs \in sets PROVE states[rs.key] = StatesOf(meta, files, sets)[rs.key]
  <2> DEFINE d == StateOf(meta, files, rs)
  <2>1. Known(rs)
    BY <1>2 DEF StateInv, StatesInv
  <2>2. /\ Latest(msgs, states[rs.key], rs.key, Nat, d, Data)
        /\ Latest(msgs, states[rs.key], rs.key, {epoch}, d, Times)
    BY <1>1, <2>1 DEF Known, OfEpoch
  <2>3. IsState(states[rs.key]) /\ IsState(d)
    BY <1>2, DeclaredKeys, StateIsState DEF StateInv, Shapes
  <2> HIDE DEF d
  <2>4. Agree(states[rs.key], d, Data) /\ Agree(states[rs.key], d, Times)
    BY <1>1, <2>2 DEF Latest
  <2>5. states[rs.key] = d
    BY <2>3, <2>4 DEF IsState, Agree
  <2>6. StatesOf(meta, files, sets)[rs.key] = d
    BY <1>2, PlanIsDeclared, StatesRead DEF d
  <2> QED
    BY <2>5, <2>6
<1>3. \A k \in KeysOf(sets) : states[k] = StatesOf(meta, files, sets)[k]
  <2> SUFFICES ASSUME NEW k \in KeysOf(sets) PROVE states[k] = StatesOf(meta, files, sets)[k]
    OBVIOUS
  <2>1. PICK rs \in sets : rs.key = k
    BY DEF KeysOf
  <2> QED
    BY <1>2, <2>1
<1>4. Marked = {}
  BY <1>1 DEF StateInv, MarksUnderWay, Reported
<1>5. InFallback => \E rs \in Required(Plan) : ~HasCurrent(meta, files, rs)
  BY <1>4 DEF StateInv, StatesInv, FallbackInv
<1> QED
  BY <1>3, <1>5

\* Once threads and messages are through, the daemon's view of its rule-sets
\* is what the cache holds, and a fallback lacks a required file: however
\* schedules, keys, edits of routing.json, connects, restarts and failing
\* writes of the metadata fell between them.
THEOREM StatesFollowDisk ==
    ASSUME ConstantsOK PROVE Spec => [](StatesMatchDisk /\ FallbackOnlyWhileMissing)
<1>1. Init => Inv /\ StateInv
  BY StartsRight, StatesStartRight
<1>2. (Inv /\ StateInv) /\ [Next]_vars => (Inv /\ StateInv)'
  BY StepKeeps, StutterKeeps, StateStepKeeps, StateStutterKeeps
<1>3. Inv /\ StateInv => StatesMatchDisk /\ FallbackOnlyWhileMissing
  BY QuietIsKnown
<1> QED
  BY <1>1, <1>2, <1>3, PTL DEF Spec
=============================================================================
