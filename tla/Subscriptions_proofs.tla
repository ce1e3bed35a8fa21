------------------------ MODULE Subscriptions_proofs ------------------------
(***************************************************************************)
(* A subscription that is marked has a thread or a result under way, and   *)
(* at most five automatic updates fail on a date: for every set of         *)
(* subscriptions, every answer of their servers and every number of        *)
(* events.                                                                 *)
(*                                                                         *)
(* The retry state that is saved counts at least the failures of the date; *)
(* an automatic update is only marked while it counts fewer than five, and *)
(* until the result nothing but a reset changes it, because the mark keeps *)
(* a second update from starting.                                          *)
(***************************************************************************)
EXTENDS Subscriptions, FiniteSetTheorems, WellFoundedInduction, TLAPS

SubOK(sub) ==
    /\ DOMAIN sub = {"auto", "last", "next", "retry"}
    /\ sub.retry.failures \in Nat /\ sub.retry.date \in Int

\* The file holds no failures of a date to come.
ConstantsOK ==
    /\ \A b \in Bounds : b.times \in SUBSET Nat /\ b.times /= {}
    /\ DOMAIN InitialSubs \subseteq Subs /\ IsFiniteSet(DOMAIN InitialSubs)
    /\ \A s \in DOMAIN InitialSubs :
          /\ SubOK(InitialSubs[s])
          /\ \A b \in Bounds : \A t \in b.times : InitialSubs[s].retry.date <= Date(t)

Fields == {"order", "subs", "profiles"}

TypeInv ==
    /\ bound \in Bounds /\ now \in Nat
    /\ count \in [Events -> Nat]
    /\ DOMAIN config = Fields
    /\ DOMAIN config.subs \subseteq Subs /\ IsFiniteSet(DOMAIN config.subs)
    /\ failedToday \in [Subs -> Nat]

\* What a retry state counts of a date.
FailedOn(retry, date) == IF retry.date = date THEN retry.failures ELSE 0

RetryOK(sub, automatic, failed, date, exact) ==
    /\ SubOK(sub)
    /\ sub.retry.date <= date
    /\ automatic => FailedOn(sub.retry, date) < MaxConsecutiveFailures
    /\ exact => failed <= FailedOn(sub.retry, date)

RetriesOK ==
    \A s \in DOMAIN config.subs :
        RetryOK(config.subs[s], Automatic(s), failedToday[s], Date(now), count.save = 0)

Inv == TypeInv /\ RetriesOK /\ FailuresBounded /\ MarkedIsUnderWay

-----------------------------------------------------------------------------
(* Dates, counters and saves.                                              *)

\* A set of times has a first one.
LEMMA LeastTime ==
    ASSUME NEW T \in SUBSET Nat, T /= {}
    PROVE  Min(T) \in T /\ \A t \in T : Min(T) <= t
<1> DEFINE before == {p \in Nat \X Nat : p[1] < p[2]}
<1>1. OpToRel(<, Nat) = before
  BY Zenon DEF OpToRel
<1>2. IsWellFoundedOn(before, Nat)
  BY <1>1, NatLessThanWellFounded
<1> HIDE DEF before
<1>3. PICK x \in T : \A t \in T : ~(<<t, x>> \in before)
  BY <1>2, WFMin
<1>4. ASSUME NEW t \in T PROVE x <= t
  <2>1. <<t, x>> \in Nat \X Nat /\ ~(<<t, x>> \in before)
    BY <1>3
  <2>2. ~(t < x)
    BY <2>1 DEF before
  <2> QED
    BY <2>2
<1> QED
  BY <1>4 DEF Min

LEMMA DatesGrow ==
    ASSUME NEW t \in Nat, NEW later \in Nat, t <= later
    PROVE  Date(t) \in Nat /\ Date(later) \in Nat /\ Date(t) <= Date(later)
BY DEF Date, DayMinutes

\* Counting events only ever adds to the counters, and one that is there is
\* counted.
LEMMA CountsGrow ==
    ASSUME count \in [Events -> Nat], NEW events \in Seq(Events), Counts(events)
    PROVE  /\ count' \in [Events -> Nat]
           /\ \A e \in Events : count[e] <= count'[e]
           /\ \A i \in DOMAIN events : count'[events[i]] > 0
<1> DEFINE Those(e) == {i \in DOMAIN events : events[i] = e}
<1>1. ASSUME NEW e \in Events
      PROVE  /\ Cardinality(Those(e)) \in Nat
             /\ Those(e) /= {} => Cardinality(Those(e)) > 0
  <2>i. 1 \in Int /\ Len(events) \in Int /\ Those(e) \subseteq 1..Len(events)
    OBVIOUS
  <2>1. IsFiniteSet(1..Len(events))
    BY <2>i, FS_Interval
  <2>2. IsFiniteSet(Those(e))
    BY <2>1, <2>i, FS_Subset
  <2> HIDE DEF Those
  <2>3. Cardinality(Those(e)) \in Nat
    BY <2>2, FS_CardinalityType
  <2>4. Cardinality(Those(e)) = 0 <=> Those(e) = {}
    BY <2>2, FS_EmptySet
  <2> QED
    BY <2>3, <2>4
<1>2. count' = [e \in Events |-> count[e] + Cardinality(Those(e))]
  BY DEF Counts
<1>3. \A i \in DOMAIN events : events[i] \in Events /\ i \in Those(events[i])
  OBVIOUS
<1> HIDE DEF Those
<1>4. \A e \in Events : count'[e] = count[e] + Cardinality(Those(e)) /\ count[e] \in Nat
  BY <1>2
<1>5. count' \in [Events -> Nat]
  BY <1>1, <1>2
<1> QED
  BY <1>1, <1>3, <1>4, <1>5

\* The counters after a step: a failed save is never forgotten.
CountStep ==
    /\ count' \in [Events -> Nat] /\ bound' = bound
    /\ count'.save = 0 => count.save = 0

LEMMA Counted ==
    ASSUME count \in [Events -> Nat], NEW events \in Seq(Events), Counts(events)
    PROVE  CountStep /\ \A i \in DOMAIN events : events[i] = "save" => count'.save > 0
<1>1. /\ count' \in [Events -> Nat]
      /\ \A e \in Events : count[e] <= count'[e]
      /\ \A i \in DOMAIN events : count'[events[i]] > 0
  BY CountsGrow
<1>2. bound' = bound /\ "save" \in Events
  BY DEF Counts, Events
<1>3. count.save <= count'.save /\ count.save \in Nat /\ count'.save \in Nat
  BY <1>1, <1>2
<1> QED
  BY <1>1, <1>2, <1>3 DEF CountStep

LEMMA NotCounted == ASSUME TypeInv, UNCHANGED <<count, bound>> PROVE CountStep
BY DEF TypeInv, CountStep

\* A save that fails is counted.
LEMMA SaveCounted ==
    ASSUME TypeInv, NEW saved \in BOOLEAN,
           \/ Counts(SaveEvent(saved))
           \/ Counts(<<"user">> \o SaveEvent(saved))
           \/ Counts(<<"user", "fetch">> \o SaveEvent(saved))
    PROVE  CountStep /\ (count'.save = 0 => saved)
<1> DEFINE Lists == {SaveEvent(saved), <<"user">> \o SaveEvent(saved), <<"user", "fetch">> \o SaveEvent(saved)}
<1>0. /\ <<"user">> \in Seq(Events) /\ <<"user", "fetch">> \in Seq(Events)
      /\ <<"save">> \in Seq(Events) /\ <<>> \in Seq(Events)
  BY DEF Events
<1>1. ASSUME NEW events \in Lists
      PROVE  events \in Seq(Events) /\ (saved \/ \E i \in DOMAIN events : events[i] = "save")
  <2>1. SaveEvent(saved) \in Seq(Events)
    BY <1>0 DEF SaveEvent
  <2>2. CASE events = SaveEvent(saved)
    BY <2>1, <2>2 DEF SaveEvent
  <2>3. ASSUME NEW before \in Seq(Events), events = before \o SaveEvent(saved)
        PROVE  events \in Seq(Events) /\ (saved \/ \E i \in DOMAIN events : events[i] = "save")
    <3>1. events \in Seq(Events)
      BY <2>1, <2>3
    <3>2. CASE ~saved
      <4>1. Len(before) \in Nat /\ Len(<<"save">>) = 1 /\ <<"save">>[1] = "save"
        OBVIOUS
      <4>2. events = before \o <<"save">>
        BY <2>3, <3>2 DEF SaveEvent
      <4>3. Len(events) = Len(before) + 1 /\ events[Len(before) + 1] = "save"
        BY <1>0, <4>1, <4>2
      <4> QED
        BY <3>1, <4>1, <4>3
    <3> QED
      BY <3>1, <3>2
  <2> QED
    BY <1>0, <1>1, <2>2, <2>3
<1>2. PICK events \in Lists : Counts(events)
  OBVIOUS
<1> HIDE DEF Lists
<1>3. CountStep /\ \A i \in DOMAIN events : events[i] = "save" => count'.save > 0
  BY <1>1, <1>2, Counted DEF TypeInv
<1> QED
  BY <1>1, <1>3

\* A save that fails leaves the configuration as it was, and one that does
\* not only orders the profiles anew.
LEMMA Committed ==
    ASSUME DOMAIN config = Fields, NEW edited, DOMAIN edited = Fields,
           NEW saved \in BOOLEAN, Commit(edited, saved)
    PROVE  DOMAIN config' = Fields /\ config'.subs = IF saved THEN edited.subs ELSE config.subs
BY DEF Commit, Normalized, Fields

-----------------------------------------------------------------------------
(* What is marked and what is under way.                                   *)

LEMMA MarkKeeps ==
    ASSUME NEW S, NEW trigger, marks' = Mark(S, trigger)
    PROVE  /\ Marked' = Marked \cup S
           /\ \A s \in S : marks'[s] = trigger
           /\ \A s \in Marked \ S : marks'[s] = marks[s]
BY DEF Mark, Marked, Put

LEMMA ReceiveKeeps ==
    ASSUME NEW s, Receive(s)
    PROVE  /\ Marked' = Marked \ {s} /\ DOMAIN results' = DOMAIN results \ {s}
           /\ \A t \in Marked' : marks'[t] = marks[t]
BY DEF Receive, Unmark, Marked

LEMMA UnderWayKept ==
    ASSUME MarkedIsUnderWay, CountStep,
           count'.save = 0 =>
              \A s \in Marked' : \/ s \in Marked /\ (s \in inFlight \cup DOMAIN results =>
                                                      s \in inFlight' \cup DOMAIN results')
                                 \/ s \in inFlight' \cup DOMAIN results'
    PROVE  MarkedIsUnderWay'
BY DEF MarkedIsUnderWay, CountStep

\* A step that changes no schedule of a subscription and starts no
\* automatic update.
Kept ==
    /\ UNCHANGED <<now, failedToday>>
    /\ DOMAIN config' = Fields /\ DOMAIN config'.subs \subseteq DOMAIN config.subs
    /\ \A s \in DOMAIN config'.subs : config'.subs[s] = config.subs[s]
    /\ \A s \in Marked' : (s \in Marked /\ marks'[s] = marks[s]) \/ marks'[s] = "Manual"

LEMMA RetriesKept ==
    ASSUME Inv, Kept, CountStep
    PROVE  TypeInv' /\ RetriesOK' /\ FailuresBounded'
<1>1. TypeInv'
  BY FS_Subset DEF Inv, TypeInv, Kept, CountStep
<1>2. FailuresBounded'
  BY DEF Inv, FailuresBounded, Kept, CountStep
<1>3. ASSUME NEW s \in DOMAIN config'.subs
      PROVE  RetryOK(config.subs[s], Automatic(s)', failedToday[s], Date(now), count'.save = 0)
  <2>1. s \in DOMAIN config.subs /\ (Automatic(s)' => Automatic(s))
    BY DEF Kept, Automatic, Marked
  <2>2. RetryOK(config.subs[s], Automatic(s), failedToday[s], Date(now), count.save = 0)
    BY <2>1 DEF Inv, RetriesOK
  <2> QED
    BY <2>1, <2>2 DEF RetryOK, CountStep
<1>4. RetriesOK'
  <2>1. /\ now' = now /\ failedToday' = failedToday
        /\ \A s \in DOMAIN config'.subs : config'.subs[s] = config.subs[s]
    BY DEF Kept
  <2> QED
    BY <1>3, <2>1 DEF RetriesOK
<1> QED
  BY <1>1, <1>2, <1>4

-----------------------------------------------------------------------------
(* Starts of updates and edits.                                            *)

\* A failed update that retries does so at most four times a day.
LEMMA DueHasRetries ==
    ASSUME Inv, NEW s \in DOMAIN config.subs, Due(s)
    PROVE  FailedOn(config.subs[s].retry, Date(now)) < MaxConsecutiveFailures
<1>1. SubOK(config.subs[s]) /\ Date(now) \in Nat
  BY DatesGrow DEF Inv, TypeInv, RetriesOK, RetryOK
<1> QED
  BY <1>1 DEF Due, AutomaticDue, Governs, RetryDue, FailedOn, SubOK, NoRetry, Unset, MaxConsecutiveFailures

LEMMA TickKeeps == ASSUME Inv, Tick PROVE Inv'
<1> DEFINE due == {s \in DOMAIN config.subs : DownloadAllowed /\ Due(s)}
<1>1. /\ marks' = Mark(due, "Automatic") /\ config' = config
      /\ inFlight' = inFlight \cup (due \cap DOMAIN config'.subs)
      /\ Counts([i \in 1..Cardinality(due) |-> "fetch"])
      /\ UNCHANGED <<now, results, failedToday>>
  BY DEF Tick, Spawn
<1>2. \A s \in due : s \in DOMAIN config.subs /\ Due(s)
  OBVIOUS
<1> HIDE DEF due
<1>3. CountStep
  <2>1. due \subseteq DOMAIN config.subs
    BY <1>2
  <2>2. Cardinality(due) \in Nat
    BY <2>1, FS_Subset, FS_CardinalityType DEF Inv, TypeInv
  <2>3. [i \in 1..Cardinality(due) |-> "fetch"] \in Seq(Events)
    BY <2>2 DEF Events
  <2> QED
    BY <1>1, <2>3, Counted DEF Inv, TypeInv
<1>4. TypeInv'
  BY <1>1, <1>3 DEF Inv, TypeInv, CountStep
<1>5. FailuresBounded'
  BY <1>1, <1>3 DEF Inv, FailuresBounded, CountStep
<1>6. Marked' = Marked \cup due /\ \A s \in Marked \ due : marks'[s] = marks[s]
  BY <1>1, MarkKeeps
<1>7. MarkedIsUnderWay'
  <2>1. \A s \in due : s \in inFlight'
    BY <1>1, <1>2
  <2> QED
    BY <1>1, <1>3, <1>6, <2>1, UnderWayKept DEF Inv
<1>8. RetriesOK'
  <2>1. ASSUME NEW s \in DOMAIN config.subs
        PROVE  RetryOK(config.subs[s], Automatic(s)', failedToday[s], Date(now), count'.save = 0)
    <3>1. RetryOK(config.subs[s], Automatic(s), failedToday[s], Date(now), count.save = 0)
      BY DEF Inv, RetriesOK
    <3>2. CASE s \in due
      BY <1>2, <1>3, <3>1, <3>2, DueHasRetries DEF RetryOK, CountStep
    <3>3. CASE s \notin due
      <4>1. Automatic(s)' => Automatic(s)
        BY <1>6, <3>3 DEF Automatic, Marked
      <4> QED
        BY <1>3, <3>1, <4>1 DEF RetryOK, CountStep
    <3> QED
      BY <3>2, <3>3
  <2> QED
    BY <1>1, <2>1 DEF RetriesOK
<1> QED
  BY <1>4, <1>5, <1>7, <1>8 DEF Inv

\* A key that starts an update of a subscription there is.
LEMMA ManualKeeps ==
    ASSUME Inv, NEW s \in DOMAIN config.subs, UpdateManually(s) PROVE Inv'
<1>1. PICK saved \in BOOLEAN :
         /\ Commit(config, saved) /\ Spawn(IF saved THEN {s} ELSE {})
         /\ Counts(<<"user", "fetch">> \o SaveEvent(saved))
  BY DEF UpdateManually, StartManual
<1>2. marks' = Mark({s}, "Manual") /\ UNCHANGED <<now, results, failedToday>>
  BY DEF UpdateManually, StartManual
<1>3. CountStep /\ (count'.save = 0 => saved)
  BY <1>1, SaveCounted DEF Inv
<1>4. DOMAIN config' = Fields /\ config'.subs = config.subs
  BY <1>1, Committed DEF Inv, TypeInv
<1>5. Marked' = Marked \cup {s} /\ marks'[s] = "Manual" /\ \A t \in Marked \ {s} : marks'[t] = marks[t]
  BY <1>2, MarkKeeps
<1>6. Kept
  BY <1>2, <1>4, <1>5 DEF Kept
<1>7. inFlight \subseteq inFlight' /\ (saved => s \in inFlight')
  BY <1>1, <1>4 DEF Spawn
<1>8. MarkedIsUnderWay'
  BY <1>2, <1>3, <1>5, <1>7, UnderWayKept DEF Inv
<1> QED
  BY <1>3, <1>6, <1>8, RetriesKept DEF Inv

\* A subscription that is pasted has a schedule without failures.
LEMMA PasteKeeps ==
    ASSUME Inv, NEW s \in Subs, PasteSubscription(s) PROVE Inv'
<1> DEFINE subs == Put(config.subs, [t \in {s} |-> NewSub])
<1> DEFINE edited == [config EXCEPT !.subs = subs, !.order = Append(config.order, s)]
<1>1. PICK saved \in BOOLEAN :
         /\ Commit(edited, saved)
         /\ \/ /\ marks' = Mark({s}, "Manual") /\ Spawn(IF saved THEN {s} ELSE {})
               /\ Counts(<<"user", "fetch">> \o SaveEvent(saved))
            \/ /\ Counts(<<"user">> \o SaveEvent(saved)) /\ UNCHANGED <<marks, inFlight>>
  BY DEF PasteSubscription, StartManual
<1>2. /\ s \notin DOMAIN config.subs /\ s \notin Marked
      /\ failedToday' = [failedToday EXCEPT ![s] = 0] /\ UNCHANGED <<now, results>>
  BY DEF PasteSubscription
<1>3. CountStep /\ (count'.save = 0 => saved)
  BY <1>1, SaveCounted DEF Inv
<1>4. DOMAIN edited = Fields /\ edited.subs = subs
  BY DEF Inv, TypeInv, Fields
<1> HIDE DEF edited
<1>5. DOMAIN config' = Fields /\ config'.subs = IF saved THEN subs ELSE config.subs
  BY <1>1, <1>4, Committed DEF Inv, TypeInv
<1>6. /\ DOMAIN subs = DOMAIN config.subs \cup {s} /\ subs[s] = NewSub
      /\ \A t \in DOMAIN config.subs : subs[t] = config.subs[t]
  BY <1>2 DEF Put
<1> HIDE DEF subs
<1>7. TypeInv'
  <2>1. IsFiniteSet(DOMAIN config'.subs) /\ DOMAIN config'.subs \subseteq Subs
    BY <1>5, <1>6, FS_AddElement DEF Inv, TypeInv
  <2> QED
    BY <1>2, <1>3, <1>5, <2>1 DEF Inv, TypeInv, CountStep
<1>8. FailuresBounded'
  BY <1>2, <1>3 DEF Inv, TypeInv, FailuresBounded, CountStep, MaxConsecutiveFailures
<1>9. /\ (Marked' = Marked \cup {s} /\ marks'[s] = "Manual") \/ marks' = marks
      /\ \A t \in Marked \ {s} : marks'[t] = marks[t]
  BY <1>1, MarkKeeps
<1>10. MarkedIsUnderWay'
  <2>1. inFlight \subseteq inFlight'
    BY <1>1 DEF Spawn
  <2>2. saved /\ s \in Marked' => s \in inFlight'
    BY <1>1, <1>2, <1>5, <1>6 DEF Spawn, Marked
  <2>3. Marked' \subseteq Marked \cup {s}
    BY <1>9 DEF Marked
  <2> QED
    BY <1>2, <1>3, <2>1, <2>2, <2>3, UnderWayKept DEF Inv
<1>11. RetriesOK'
  <2>1. ~Automatic(s)'
    BY <1>2, <1>9 DEF Automatic, Marked
  <2>2. RetryOK(NewSub, FALSE, 0, Date(now), count'.save = 0)
    BY DatesGrow DEF RetryOK, NewSub, SubOK, NoRetry, Unset, FailedOn, Inv, TypeInv
  <2>3. ASSUME NEW t \in DOMAIN config.subs
        PROVE  RetryOK(config.subs[t], Automatic(t)', failedToday'[t], Date(now), count'.save = 0)
    <3>1. RetryOK(config.subs[t], Automatic(t), failedToday[t], Date(now), count.save = 0)
      BY DEF Inv, RetriesOK
    <3>2. failedToday'[t] = failedToday[t] /\ (Automatic(t)' => Automatic(t))
      BY <1>2, <1>9 DEF Inv, TypeInv, Automatic, Marked
    <3> QED
      BY <1>3, <3>1, <3>2 DEF RetryOK, CountStep
  <2>4. failedToday'[s] = 0
    BY <1>2 DEF Inv, TypeInv
  <2>5. ASSUME NEW t \in DOMAIN config'.subs
        PROVE  RetryOK(config'.subs[t], Automatic(t)', failedToday'[t], Date(now), count'.save = 0)
    <3>1. CASE t = s
      <4>1. ~Automatic(t)'
        BY <2>1, <3>1 DEF Automatic, Marked
      <4>2. config'.subs[t] = NewSub /\ failedToday'[t] = 0
        BY <1>2, <1>5, <1>6, <2>4, <2>5, <3>1
      <4> QED
        BY <2>2, <4>1, <4>2 DEF RetryOK
    <3>2. CASE t /= s
      BY <1>5, <1>6, <2>3, <3>2
    <3> QED
      BY <3>1, <3>2
  <2> QED
    BY <1>2, <2>5 DEF RetriesOK
<1> QED
  BY <1>7, <1>8, <1>10, <1>11 DEF Inv

\* A step that changes the schedule of one subscription, or none.
LEMMA OneChanged ==
    ASSUME Inv, CountStep, NEW s \in DOMAIN config.subs, NEW sub,
           now' = now, DOMAIN config' = Fields,
           config'.subs = [config.subs EXCEPT ![s] = sub],
           failedToday' \in [Subs -> Nat],
           \A t \in Subs \ {s} : failedToday'[t] = failedToday[t],
           count'.save = 0 => failedToday'[s] <= MaxConsecutiveFailures,
           \A t \in Marked' : t \in Marked /\ marks'[t] = marks[t],
           RetryOK(sub, Automatic(s)', failedToday'[s], Date(now), count'.save = 0)
    PROVE  TypeInv' /\ RetriesOK' /\ FailuresBounded'
<1>1. TypeInv'
  BY DEF Inv, TypeInv, CountStep
<1>2. FailuresBounded'
  BY DEF Inv, FailuresBounded, CountStep
<1>3. ASSUME NEW t \in DOMAIN config.subs
      PROVE  RetryOK(config'.subs[t], Automatic(t)', failedToday'[t], Date(now), count'.save = 0)
  <2>1. CASE t = s
    <3>1. Automatic(t)' = Automatic(s)' /\ config'.subs[t] = sub
      BY <2>1 DEF Automatic, Marked
    <3> QED
      BY <2>1, <3>1 DEF RetryOK
  <2>2. CASE t /= s
    <3>1. RetryOK(config.subs[t], Automatic(t), failedToday[t], Date(now), count.save = 0)
      BY DEF Inv, RetriesOK
    <3>2. /\ failedToday'[t] = failedToday[t] /\ config'.subs[t] = config.subs[t]
          /\ Automatic(t)' => Automatic(t)
      BY <2>2 DEF Inv, TypeInv, Automatic, Marked
    <3> QED
      BY <3>1, <3>2 DEF RetryOK, CountStep
  <2> QED
    BY <2>1, <2>2
<1>4. RetriesOK'
  BY <1>3 DEF RetriesOK
<1> QED
  BY <1>1, <1>2, <1>4

\* The key resets the retries and what counts of them.
LEMMA CycleKeeps ==
    ASSUME Inv, NEW s \in DOMAIN config.subs, CycleInterval(s) PROVE Inv'
<1> DEFINE auto == NextSchedule(config.subs[s].auto)
<1> DEFINE new == [config.subs[s] EXCEPT !.auto = auto, !.retry = NoRetry,
                     !.next = IF auto = "Off" THEN Unset ELSE NextWindowDate(now)]
<1> DEFINE edited == [config EXCEPT !.subs[s] = new]
<1>1. PICK saved \in BOOLEAN :
         /\ Commit(edited, saved)
         /\ failedToday' = IF saved THEN [failedToday EXCEPT ![s] = 0] ELSE failedToday
         /\ Counts(<<"user">> \o SaveEvent(saved))
  BY DEF CycleInterval
<1>2. UNCHANGED <<now, marks, inFlight, results>>
  BY DEF CycleInterval
<1>3. CountStep
  BY <1>1, SaveCounted DEF Inv
<1>4. DOMAIN edited = Fields /\ edited.subs = [config.subs EXCEPT ![s] = new]
  BY DEF Inv, TypeInv, Fields
<1> HIDE DEF edited
<1>5. DOMAIN config' = Fields
      /\ config'.subs = IF saved THEN [config.subs EXCEPT ![s] = new] ELSE config.subs
  BY <1>1, <1>4, Committed DEF Inv, TypeInv
<1>6. SubOK(config.subs[s]) /\ s \in Subs
  BY DEF Inv, TypeInv, RetriesOK, RetryOK
<1>7. SubOK(new) /\ new.retry = NoRetry
  BY <1>6 DEF SubOK, NoRetry, Unset
<1> HIDE DEF new
<1>8. MarkedIsUnderWay'
  BY <1>2, <1>3, UnderWayKept DEF Inv, Marked
<1>9. CASE saved
  <2>1. RetryOK(new, Automatic(s)', 0, Date(now), count'.save = 0)
    BY <1>7, DatesGrow DEF RetryOK, FailedOn, NoRetry, Unset, MaxConsecutiveFailures, Inv, TypeInv
  <2>2. /\ failedToday'[s] = 0 /\ failedToday' \in [Subs -> Nat]
        /\ \A t \in Subs \ {s} : failedToday'[t] = failedToday[t]
    BY <1>1, <1>6, <1>9 DEF Inv, TypeInv
  <2>3. \A t \in Marked' : t \in Marked /\ marks'[t] = marks[t]
    BY <1>2 DEF Marked
  <2>4. 0 <= MaxConsecutiveFailures
    BY DEF MaxConsecutiveFailures
  <2> QED
    BY <1>2, <1>3, <1>5, <1>8, <1>9, <2>1, <2>2, <2>3, <2>4, OneChanged DEF Inv
<1>10. CASE ~saved
  <2>1. Kept
    BY <1>1, <1>2, <1>5, <1>10 DEF Kept, Marked
  <2> QED
    BY <1>3, <1>8, <2>1, RetriesKept DEF Inv
<1> QED
  BY <1>9, <1>10

LEMMA DeleteKeeps ==
    ASSUME Inv, NEW s \in DOMAIN config.subs, DeleteSubscription(s) PROVE Inv'
<1> DEFINE edited == [order |-> SelectSeq(config.order, LAMBDA t : t /= s),
                      subs |-> [t \in DOMAIN config.subs \ {s} |-> config.subs[t]],
                      profiles |-> SelectSeq(config.profiles, LAMBDA p : p.sub /= s)]
<1>1. PICK saved \in BOOLEAN : Commit(edited, saved) /\ Counts(<<"user">> \o SaveEvent(saved))
  BY DEF DeleteSubscription
<1>2. UNCHANGED <<now, marks, inFlight, results, failedToday>>
  BY DEF DeleteSubscription
<1>3. CountStep
  BY <1>1, SaveCounted DEF Inv
<1>4. DOMAIN edited = Fields /\ edited.subs = [t \in DOMAIN config.subs \ {s} |-> config.subs[t]]
  BY DEF Fields
<1> HIDE DEF edited
<1>5. DOMAIN config' = Fields /\ config'.subs = IF saved THEN edited.subs ELSE config.subs
  BY <1>1, <1>4, Committed DEF Inv, TypeInv
<1>6. Kept
  BY <1>2, <1>4, <1>5 DEF Kept, Marked
<1>7. MarkedIsUnderWay'
  BY <1>2, <1>3, UnderWayKept DEF Inv, Marked
<1> QED
  BY <1>3, <1>6, <1>7, RetriesKept DEF Inv

LEMMA PasteProfileKeeps ==
    ASSUME Inv, NEW server \in Servers, PasteProfile(server) PROVE Inv'
<1> DEFINE edited == [config EXCEPT !.profiles =
                         Append(config.profiles, [id |-> nextId, server |-> server, sub |-> NoSub])]
<1>1. PICK saved \in BOOLEAN : Commit(edited, saved) /\ Counts(<<"user">> \o SaveEvent(saved))
  BY DEF PasteProfile
<1>2. UNCHANGED <<now, marks, inFlight, results, failedToday>>
  BY DEF PasteProfile
<1>3. CountStep
  BY <1>1, SaveCounted DEF Inv
<1>4. DOMAIN edited = Fields /\ edited.subs = config.subs
  BY DEF Fields, Inv, TypeInv
<1> HIDE DEF edited
<1>5. DOMAIN config' = Fields /\ config'.subs = config.subs
  BY <1>1, <1>4, Committed DEF Inv, TypeInv
<1>6. Kept
  BY <1>2, <1>5 DEF Kept, Marked
<1>7. MarkedIsUnderWay'
  BY <1>2, <1>3, UnderWayKept DEF Inv, Marked
<1> QED
  BY <1>3, <1>6, <1>7, RetriesKept DEF Inv

-----------------------------------------------------------------------------
(* Results.                                                                *)

\* A thread that ends leaves its result.
LEMMA FetchKeeps == ASSUME Inv, NEW s, FetchEnds(s) PROVE Inv'
<1>1. PICK result :
         /\ results' = Put(results, [t \in {s} |-> result])
         /\ Counts(IF result.ok THEN <<"list">> ELSE <<>>)
  BY DEF FetchEnds
<1>2. inFlight' = inFlight \ {s} /\ UNCHANGED <<now, config, marks, failedToday>>
  BY DEF FetchEnds, ThreadEnds
<1>3. CountStep
  <2>1. <<"list">> \in Seq(Events) /\ <<>> \in Seq(Events)
    BY DEF Events
  <2> QED
    BY <1>1, <2>1, Counted DEF Inv, TypeInv
<1>4. DOMAIN results' = DOMAIN results \cup {s}
  BY <1>1 DEF Put
<1>5. Kept
  BY <1>2 DEF Kept, Marked, Inv, TypeInv
<1>6. MarkedIsUnderWay'
  BY <1>2, <1>3, <1>4, UnderWayKept DEF Inv, Marked
<1> QED
  BY <1>3, <1>5, <1>6, RetriesKept DEF Inv

\* The mark goes with the result.
LEMMA ReceiveUnderWay ==
    ASSUME Inv, CountStep, NEW s, Receive(s), UNCHANGED inFlight
    PROVE  MarkedIsUnderWay'
BY ReceiveKeeps, UnderWayKept DEF Inv

LEMMA DiscardKeeps == ASSUME Inv, NEW s, ResultDiscarded(s) PROVE Inv'
<1>1. Receive(s) /\ UNCHANGED <<now, config, inFlight, failedToday, count, bound>>
  BY DEF ResultDiscarded
<1>2. CountStep
  BY <1>1, NotCounted DEF Inv
<1>3. Kept
  BY <1>1, ReceiveKeeps DEF Kept, Inv, TypeInv
<1> QED
  BY <1>1, <1>2, <1>3, ReceiveUnderWay, RetriesKept DEF Inv

\* A success resets the retries of an automatic update and leaves those of a
\* manual one.
LEMMA OkKeeps == ASSUME Inv, NEW s, ResultOk(s) PROVE Inv'
<1> DEFINE sub == [config.subs[s] EXCEPT !.last = now]
<1> DEFINE new == IF Automatic(s) THEN ScheduledAfterSuccess(sub) ELSE sub
<1> DEFINE merged == Merged(s, results[s].servers)
<1> DEFINE edited == [config EXCEPT !.subs[s] = new, !.profiles = merged.profiles]
<1>1. PICK saved \in BOOLEAN :
         /\ Commit(edited, saved) /\ Counts(SaveEvent(saved))
         /\ failedToday' = IF saved /\ Automatic(s) THEN [failedToday EXCEPT ![s] = 0] ELSE failedToday
  BY DEF ResultOk
<1>2. /\ Receive(s) /\ s \in DOMAIN config.subs /\ UNCHANGED <<now, inFlight>>
  BY DEF ResultOk
<1>3. CountStep /\ (count'.save = 0 => saved)
  BY <1>1, SaveCounted DEF Inv
<1> HIDE DEF merged
<1>4. DOMAIN edited = Fields /\ edited.subs = [config.subs EXCEPT ![s] = new]
  BY DEF Inv, TypeInv, Fields
<1> HIDE DEF edited
<1>5. DOMAIN config' = Fields
      /\ config'.subs = IF saved THEN [config.subs EXCEPT ![s] = new] ELSE config.subs
  BY <1>1, <1>4, Committed DEF Inv, TypeInv
<1>6. RetryOK(config.subs[s], Automatic(s), failedToday[s], Date(now), count.save = 0) /\ s \in Subs
  BY <1>2 DEF Inv, TypeInv, RetriesOK
<1>7. SubOK(new) /\ new.retry = IF Automatic(s) THEN NoRetry ELSE config.subs[s].retry
  <2>1. SubOK(sub) /\ sub.retry = config.subs[s].retry
    BY <1>6 DEF SubOK, RetryOK
  <2> HIDE DEF sub
  <2>2. SubOK(ScheduledAfterSuccess(sub)) /\ ScheduledAfterSuccess(sub).retry = NoRetry
    BY <2>1 DEF SubOK, ScheduledAfterSuccess, NoRetry, Unset
  <2> QED
    BY <2>1, <2>2
<1> HIDE DEF new
<1>8. MarkedIsUnderWay'
  BY <1>2, <1>3, ReceiveUnderWay
<1>9. /\ s \notin Marked' /\ \A t \in Marked' : t \in Marked /\ marks'[t] = marks[t]
  BY <1>2, ReceiveKeeps
<1>10. CASE saved
  <2>1. /\ failedToday' \in [Subs -> Nat]
        /\ \A t \in Subs \ {s} : failedToday'[t] = failedToday[t]
        /\ failedToday'[s] = IF Automatic(s) THEN 0 ELSE failedToday[s]
    BY <1>1, <1>6, <1>10 DEF Inv, TypeInv
  <2>2. ~Automatic(s)'
    BY <1>9 DEF Automatic, Marked
  <2>3. RetryOK(new, FALSE, failedToday'[s], Date(now), count'.save = 0)
    <3>1. CASE Automatic(s)
      BY <1>7, <2>1, <3>1, DatesGrow DEF RetryOK, FailedOn, NoRetry, Unset, Inv, TypeInv
    <3>2. CASE ~Automatic(s)
      BY <1>3, <1>6, <1>7, <2>1, <3>2 DEF RetryOK, FailedOn, CountStep
    <3> QED
      BY <3>1, <3>2
  <2>4. RetryOK(new, Automatic(s)', failedToday'[s], Date(now), count'.save = 0)
    BY <2>2, <2>3 DEF RetryOK
  <2>5. count'.save = 0 => failedToday'[s] <= MaxConsecutiveFailures
    BY <1>3, <1>6, <2>1 DEF Inv, FailuresBounded, CountStep, MaxConsecutiveFailures
  <2> QED
    BY <1>2, <1>3, <1>5, <1>8, <1>9, <1>10, <2>1, <2>4, <2>5, OneChanged DEF Inv
<1>11. CASE ~saved
  <2>1. Kept
    BY <1>1, <1>2, <1>5, <1>9, <1>11 DEF Kept
  <2> QED
    BY <1>3, <1>8, <2>1, RetriesKept DEF Inv
<1> QED
  BY <1>10, <1>11

\* A failure that is counted is in the retry state that is saved.
LEMMA FailureRecorded ==
    ASSUME now \in Nat, NEW sub, SubOK(sub)
    PROVE  /\ SubOK(RecordedFailure(sub))
           /\ RecordedFailure(sub).retry.date = Date(now)
           /\ RecordedFailure(sub).retry.failures = FailedOn(sub.retry, Date(now)) + 1
<1>1. Date(now) \in Nat
  BY DatesGrow
<1>2. /\ AfterFailure(sub.retry, now).date = Date(now)
      /\ AfterFailure(sub.retry, now).failures = FailedOn(sub.retry, Date(now)) + 1
  BY <1>1 DEF AfterFailure, FailedOn, NoRetry, Unset, SubOK
<1>3. FailedOn(sub.retry, Date(now)) + 1 \in Nat
  BY DEF FailedOn, SubOK
<1>4. /\ DOMAIN RecordedFailure(sub) = DOMAIN sub
      /\ RecordedFailure(sub).retry = AfterFailure(sub.retry, now)
  BY DEF RecordedFailure, SubOK
<1> QED
  BY <1>1, <1>2, <1>3, <1>4 DEF SubOK

LEMMA ErrorKeeps == ASSUME Inv, NEW s, ResultError(s) PROVE Inv'
<1> DEFINE new == RecordedFailure(config.subs[s])
<1> DEFINE edited == [config EXCEPT !.subs[s] = new]
<1>1. Receive(s) /\ s \in DOMAIN config.subs /\ UNCHANGED <<now, inFlight>>
  BY DEF ResultError
<1>2. /\ s \notin Marked' /\ \A t \in Marked' : t \in Marked /\ marks'[t] = marks[t]
  BY <1>1, ReceiveKeeps
<1>3. CASE CountsFailure(s)
  <2>1. PICK saved \in BOOLEAN : Commit(edited, saved) /\ Counts(SaveEvent(saved))
    BY <1>3 DEF ResultError
  <2>2. failedToday' = [failedToday EXCEPT ![s] = @ + 1]
    BY <1>3 DEF ResultError
  <2>3. CountStep /\ (count'.save = 0 => saved)
    BY <2>1, SaveCounted DEF Inv
  <2>4. DOMAIN edited = Fields /\ edited.subs = [config.subs EXCEPT ![s] = new]
    BY DEF Inv, TypeInv, Fields
  <2> HIDE DEF edited
  <2>5. DOMAIN config' = Fields
        /\ config'.subs = IF saved THEN [config.subs EXCEPT ![s] = new] ELSE config.subs
    BY <2>1, <2>4, Committed DEF Inv, TypeInv
  <2>6. RetryOK(config.subs[s], TRUE, failedToday[s], Date(now), count.save = 0) /\ s \in Subs
    BY <1>1, <1>3 DEF Inv, TypeInv, RetriesOK, RetryOK, CountsFailure
  <2>7. /\ SubOK(new) /\ new.retry.date = Date(now)
        /\ new.retry.failures = FailedOn(config.subs[s].retry, Date(now)) + 1
    BY <2>6, FailureRecorded DEF RetryOK, Inv, TypeInv
  <2> HIDE DEF new
  <2>8. MarkedIsUnderWay'
    BY <1>1, <2>3, ReceiveUnderWay
  <2>9. /\ failedToday' \in [Subs -> Nat] /\ failedToday'[s] = failedToday[s] + 1
        /\ \A t \in Subs \ {s} : failedToday'[t] = failedToday[t]
    BY <2>2, <2>6 DEF Inv, TypeInv
  <2>10. FailedOn(config.subs[s].retry, Date(now)) \in Nat /\ Date(now) \in Nat
    BY <2>6, DatesGrow DEF RetryOK, SubOK, FailedOn, Inv, TypeInv
  <2>11. FailedOn(new.retry, Date(now)) = FailedOn(config.subs[s].retry, Date(now)) + 1
    BY <2>7 DEF FailedOn
  <2>12. failedToday[s] \in Nat
    BY <2>6 DEF Inv, TypeInv
  <2>13. count'.save = 0 =>
            /\ failedToday'[s] <= FailedOn(new.retry, Date(now))
            /\ failedToday'[s] <= MaxConsecutiveFailures
    BY <2>3, <2>6, <2>9, <2>10, <2>11, <2>12 DEF RetryOK, CountStep, MaxConsecutiveFailures
  <2>14. ~Automatic(s)'
    BY <1>2 DEF Automatic, Marked
  <2>15. RetryOK(new, Automatic(s)', failedToday'[s], Date(now), count'.save = 0)
    BY <2>7, <2>10, <2>13, <2>14 DEF RetryOK
  <2>16. CASE saved
    BY <1>1, <1>2, <2>3, <2>5, <2>8, <2>9, <2>13, <2>15, <2>16, OneChanged DEF Inv
  <2>17. CASE ~saved
    <3>1. count'.save /= 0
      BY <2>3, <2>17
    <3>2. TypeInv'
      BY <1>1, <2>3, <2>5, <2>9, <2>17 DEF Inv, TypeInv, CountStep
    <3>3. FailuresBounded'
      BY <3>1 DEF FailuresBounded
    <3>4. ASSUME NEW t \in DOMAIN config.subs
          PROVE  RetryOK(config.subs[t], Automatic(t)', failedToday'[t], Date(now), count'.save = 0)
      <4>1. RetryOK(config.subs[t], Automatic(t), failedToday[t], Date(now), count.save = 0)
        BY DEF Inv, RetriesOK
      <4>2. Automatic(t)' => Automatic(t)
        BY <1>2 DEF Automatic, Marked
      <4> QED
        BY <3>1, <4>1, <4>2 DEF RetryOK
    <3>5. RetriesOK'
      BY <1>1, <2>5, <2>17, <3>4 DEF RetriesOK
    <3> QED
      BY <2>8, <3>2, <3>3, <3>5 DEF Inv
  <2> QED
    BY <2>16, <2>17
<1>4. CASE ~CountsFailure(s)
  <2>1. UNCHANGED <<config, failedToday, count, bound>>
    BY <1>4 DEF ResultError
  <2>2. CountStep
    BY <2>1, NotCounted DEF Inv
  <2>3. Kept
    BY <1>1, <1>2, <2>1 DEF Kept, Inv, TypeInv
  <2> QED
    BY <1>1, <2>2, <2>3, ReceiveUnderWay, RetriesKept DEF Inv
<1> QED
  BY <1>3, <1>4

-----------------------------------------------------------------------------
(* Time, starts, and the theorem.                                          *)

LEMMA MovesKeep == ASSUME Inv, ConnectionMoves PROVE Inv'
<1>1. Counts(<<"move">>) /\ UNCHANGED <<now, config, marks, inFlight, results, failedToday>>
  BY DEF ConnectionMoves
<1>2. CountStep
  <2>1. <<"move">> \in Seq(Events)
    BY DEF Events
  <2> QED
    BY <1>1, <2>1, Counted DEF Inv, TypeInv
<1>3. Kept
  BY <1>1 DEF Kept, Marked, Inv, TypeInv
<1>4. MarkedIsUnderWay'
  BY <1>1, <1>2, UnderWayKept DEF Inv, Marked
<1> QED
  BY <1>2, <1>3, <1>4, RetriesKept DEF Inv

\* On a later date no failure counts, whatever was saved.
LEMMA AdvanceKeeps == ASSUME ConstantsOK, Inv, Advance PROVE Inv'
<1> DEFINE later == {t \in bound.times : t > now}
<1>1. /\ later /= {} /\ now' = Min(later)
      /\ failedToday' = IF Date(now') = Date(now) THEN failedToday ELSE [s \in Subs |-> 0]
      /\ UNCHANGED <<config, marks, inFlight, results, count, bound>>
  BY DEF Advance
<1>2. bound.times \in SUBSET Nat /\ now \in Nat
  BY DEF ConstantsOK, Inv, TypeInv
<1>3. later \in SUBSET Nat /\ \A t \in later : t > now
  BY <1>2
<1> HIDE DEF later
<1>4. now' \in Nat /\ now' > now
  BY <1>1, <1>3, LeastTime
<1>5. Date(now) \in Nat /\ Date(now') \in Nat /\ Date(now) <= Date(now')
  BY <1>2, <1>4, DatesGrow
<1>6. CountStep
  BY <1>1, NotCounted DEF Inv
<1>7. TypeInv'
  BY <1>1, <1>4 DEF Inv, TypeInv
<1>8. FailuresBounded'
  BY <1>1 DEF Inv, FailuresBounded, MaxConsecutiveFailures
<1>9. MarkedIsUnderWay'
  BY <1>1, <1>6, UnderWayKept DEF Inv, Marked
<1>10. ASSUME NEW s \in DOMAIN config.subs
       PROVE  RetryOK(config.subs[s], Automatic(s)', failedToday'[s], Date(now'), count'.save = 0)
  <2>1. RetryOK(config.subs[s], Automatic(s), failedToday[s], Date(now), count.save = 0) /\ s \in Subs
    BY DEF Inv, TypeInv, RetriesOK
  <2>2. Automatic(s)' = Automatic(s)
    BY <1>1 DEF Automatic, Marked
  <2>3. CASE Date(now') = Date(now)
    BY <1>1, <2>1, <2>2, <2>3 DEF RetryOK
  <2>4. CASE Date(now') /= Date(now)
    <3>1. config.subs[s].retry.date < Date(now') /\ failedToday'[s] = 0
      BY <1>1, <1>5, <2>1, <2>4 DEF RetryOK, SubOK
    <3> QED
      BY <1>5, <2>1, <3>1 DEF RetryOK, SubOK, FailedOn, MaxConsecutiveFailures
  <2> QED
    BY <2>3, <2>4
<1>11. RetriesOK'
  BY <1>1, <1>10 DEF RetriesOK, Date
<1> QED
  BY <1>7, <1>8, <1>9, <1>11 DEF Inv

LEMMA StepKeeps == ASSUME ConstantsOK, Inv, Next PROVE Inv'
BY TickKeeps, ManualKeeps, CycleKeeps, DeleteKeeps, PasteKeeps, PasteProfileKeeps, FetchKeeps,
   DiscardKeeps, OkKeeps, ErrorKeeps, MovesKeep, AdvanceKeeps DEF Next

LEMMA StutterKeeps == ASSUME Inv, UNCHANGED vars PROVE Inv'
<1>1. UNCHANGED <<now, config, marks, inFlight, results, failedToday, count, bound>>
  BY DEF vars
<1>2. CountStep
  BY <1>1, NotCounted DEF Inv
<1>3. Kept
  BY <1>1 DEF Kept, Marked, Inv, TypeInv
<1>4. MarkedIsUnderWay'
  BY <1>1, <1>2, UnderWayKept DEF Inv, Marked
<1> QED
  BY <1>2, <1>3, <1>4, RetriesKept DEF Inv

LEMMA StartsRight == ASSUME ConstantsOK, Init PROVE Inv
<1>1. /\ config = [order |-> SetToSeq(DOMAIN InitialSubs), subs |-> InitialSubs,
                   profiles |-> InitialProfiles]
      /\ marks = <<>> /\ failedToday = [s \in Subs |-> 0] /\ count = [e \in Events |-> 0]
      /\ bound \in Bounds /\ now = Min(bound.times)
  BY DEF Init
<1>2. now \in Nat /\ now \in bound.times
  BY <1>1, LeastTime DEF ConstantsOK
<1>3. DOMAIN config = Fields /\ config.subs = InitialSubs
  BY <1>1 DEF Fields
<1>4. TypeInv
  BY <1>1, <1>2, <1>3 DEF TypeInv, ConstantsOK
<1>5. Marked = {}
  BY <1>1 DEF Marked
<1>6. FailuresBounded /\ MarkedIsUnderWay
  BY <1>1, <1>5 DEF FailuresBounded, MarkedIsUnderWay, MaxConsecutiveFailures
<1>7. RetriesOK
  <2>1. ASSUME NEW s \in DOMAIN InitialSubs
        PROVE  RetryOK(InitialSubs[s], Automatic(s), failedToday[s], Date(now), count.save = 0)
    <3>1. SubOK(InitialSubs[s]) /\ InitialSubs[s].retry.date <= Date(now) /\ s \in Subs
      BY <1>1, <1>2 DEF ConstantsOK
    <3>2. ~Automatic(s) /\ failedToday[s] = 0
      BY <1>1, <1>5, <3>1 DEF Automatic
    <3>3. 0 <= FailedOn(InitialSubs[s].retry, Date(now))
      BY <3>1 DEF SubOK, FailedOn
    <3> QED
      BY <3>1, <3>2, <3>3 DEF RetryOK
  <2> QED
    BY <1>3, <2>1 DEF RetriesOK
<1> QED
  BY <1>4, <1>6, <1>7 DEF Inv

\* Whatever the schedules, keys and answers, an update that is marked ends
\* with a thread or a result, and a date has at most five failures.
THEOREM UpdatesAreBounded ==
    ASSUME ConstantsOK PROVE Spec => [](MarkedIsUnderWay /\ FailuresBounded)
<1>1. Inv /\ [Next]_vars => Inv'
  BY StepKeeps, StutterKeeps
<1>2. Inv => MarkedIsUnderWay /\ FailuresBounded
  BY DEF Inv
<1> QED
  BY <1>1, <1>2, StartsRight, PTL DEF Spec
=============================================================================
