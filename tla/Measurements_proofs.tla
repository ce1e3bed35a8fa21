------------------------ MODULE Measurements_proofs -------------------------
(***************************************************************************)
(* Tests of profiles do not collide and the traffic shown is of this       *)
(* tunnel, for any number of profiles, test slots, tunnels and polls.  A   *)
(* profile is waiting, under test or neither, never two of them; a poll    *)
(* that names the current tunnel holds no more than that one transferred.  *)
(***************************************************************************)
EXTENDS Measurements, FiniteSetTheorems, TLAPS

\* What the proofs need of the constants.
ConstantsOK == IsFiniteSet(Ids) /\ TestSlots \in Nat /\ Stamps \subseteq Nat

TestType ==
    /\ pending \in Seq(Ids) /\ testing \in SUBSET Ids
    /\ test \in Seq([id : Ids, pc : {"starting", "running"}])

\* testing_profiles are the profiles that the threads test, each by one of
\* them, and none of them waits; what waits does so once.
TestInv ==
    /\ TestType
    /\ \A i, j \in 1..Len(pending) : pending[i] = pending[j] => i = j
    /\ \A i \in 1..Len(pending) : pending[i] \notin testing
    /\ \A i, j \in 1..Len(test) : test[i].id = test[j].id => i = j
    /\ testing = {test[i].id : i \in 1..Len(test)}
    /\ Len(test) <= TestSlots

TrafficType ==
    /\ link \in [connected : BOOLEAN, attempt : Nat]
    /\ total \in Nat
    /\ traffic \in [up : Nat, rate : Nat, of : Nat, at : Nat, request : Nat, response : Nat]
    /\ poll \in SUBSET [attempt : Nat, request : Nat, up : Int, at : Nat]

\* No poll is of a tunnel to come, and one of the current tunnel read no more
\* than that has transferred so far; what is shown has a stamp only after an
\* answer of the current tunnel.
TrafficInv ==
    /\ TrafficType
    /\ traffic.of \in {0, link.attempt} /\ traffic.up <= total /\ traffic.rate <= 1000 * total
    /\ traffic.response = 0 => traffic.at = 0
    /\ traffic.response <= 1 => traffic.rate = 0
    /\ \A p \in poll : p.attempt <= link.attempt /\ (p.attempt = link.attempt => p.up <= total)

Inv == TestInv /\ TrafficInv

-----------------------------------------------------------------------------

\* As many profiles are under test as there are threads.
LEMMA TestsAreCounted ==
    ASSUME TestInv
    PROVE  IsFiniteSet(testing) /\ Cardinality(testing) = Len(test)
<1> DEFINE f == [i \in 1..Len(test) |-> test[i].id]
<1>1. Len(test) \in Nat
  BY DEF TestInv, TestType
<1>2. f \in Bijection(1..Len(test), testing)
  BY DEF TestInv, Bijection, Injection, Surjection, IsInjective
<1>3. IsFiniteSet(1..Len(test)) /\ Cardinality(1..Len(test)) = Len(test)
  BY <1>1, FS_Interval
<1> QED
  BY <1>2, <1>3, FS_Bijection DEF ExistsBijection

\* T queues profiles that neither wait nor are under test, each once.
LEMMA QueuedAreNew ==
    ASSUME ConstantsOK, NEW ids \in SetToAllKPermutations({id \in Ids : Queueable(id)})
    PROVE  /\ ids \in Seq(Ids)
           /\ \A i \in 1..Len(ids) : Queueable(ids[i])
           /\ \A i, j \in 1..Len(ids) : ids[i] = ids[j] => i = j
<1>1. PICK S \in SUBSET {id \in Ids : Queueable(id)} : ids \in SetToSeqs(S)
  BY DEF SetToAllKPermutations
<1>2. Cardinality(S) \in Nat
  BY FS_Subset, FS_CardinalityType DEF ConstantsOK
<1>3. /\ ids \in [1..Cardinality(S) -> S]
      /\ \A i, j \in 1..Cardinality(S) : i # j => ids[i] # ids[j]
  BY <1>1 DEF SetToSeqs
<1>4. Len(ids) = Cardinality(S) /\ ids \in Seq(S)
  BY <1>2, <1>3
<1> QED
  BY <1>3, <1>4

\* A profile that neither waits nor is under test may be queued.
LEMMA QueueKeeps ==
    ASSUME TestInv, NEW ids \in Seq(Ids), pending' = pending \o ids, UNCHANGED <<testing, test>>,
           \A i \in 1..Len(ids) : Queueable(ids[i]),
           \A i, j \in 1..Len(ids) : ids[i] = ids[j] => i = j
    PROVE  TestInv'
<1>1. /\ pending' \in Seq(Ids) /\ Len(pending') = Len(pending) + Len(ids)
      /\ Len(pending) \in Nat /\ Len(ids) \in Nat
  BY DEF TestInv, TestType
<1>2. \A i \in 1..Len(pending') :
        pending'[i] = IF i <= Len(pending) THEN pending[i] ELSE ids[i - Len(pending)]
  BY <1>1 DEF TestInv, TestType
<1>3. \A i \in 1..Len(ids) : ids[i] \notin testing /\ \A j \in 1..Len(pending) : ids[i] # pending[j]
  BY DEF Queueable, Range, TestInv, TestType
<1>4. \A i \in 1..Len(pending') : pending'[i] \notin testing'
  <2> SUFFICES ASSUME NEW i \in 1..Len(pending') PROVE pending'[i] \notin testing'
    OBVIOUS
  <2>1. CASE i <= Len(pending)
    BY <1>1, <1>2, <2>1 DEF TestInv
  <2>2. CASE i > Len(pending)
    <3>1. i - Len(pending) \in 1..Len(ids)
      BY <1>1, <2>2
    <3> QED
      BY <1>1, <1>2, <1>3, <2>2, <3>1
  <2> QED
    BY <1>1, <2>1, <2>2
<1>5. \A i, j \in 1..Len(pending') : pending'[i] = pending'[j] => i = j
  <2> SUFFICES ASSUME NEW i \in 1..Len(pending'), NEW j \in 1..Len(pending'),
                      pending'[i] = pending'[j]
               PROVE  i = j
    OBVIOUS
  <2>1. /\ i > Len(pending) => i - Len(pending) \in 1..Len(ids)
        /\ j > Len(pending) => j - Len(pending) \in 1..Len(ids)
    BY <1>1
  <2>2. CASE i <= Len(pending) /\ j <= Len(pending)
    BY <1>1, <1>2, <2>2 DEF TestInv
  <2>3. CASE i > Len(pending) /\ j > Len(pending)
    BY <1>1, <1>2, <2>1, <2>3
  <2>4. CASE i > Len(pending) /\ j <= Len(pending)
    BY <1>1, <1>2, <1>3, <2>1, <2>4
  <2>5. CASE i <= Len(pending) /\ j > Len(pending)
    BY <1>1, <1>2, <1>3, <2>1, <2>5
  <2> QED
    BY <1>1, <2>2, <2>3, <2>4, <2>5
<1> QED
  BY <1>1, <1>4, <1>5 DEF TestInv, TestType

\* Tests start for the first of those that wait, as far as slots are free.
LEMMA StartKeeps ==
    ASSUME ConstantsOK, TestInv, StartTests
    PROVE  TestInv'
<1> DEFINE n == Least(FreeSlots, Len(pending))
           new == [i \in 1..n |-> [id |-> pending[i], pc |-> "starting"]]
<1>1. Len(pending) \in Nat /\ Len(test) \in Nat
  BY DEF TestInv, TestType
<1>2. /\ n \in Nat /\ n <= Len(pending) /\ n > 0
      /\ Len(test) + n <= TestSlots
  <2>1. Cardinality(testing) = Len(test) /\ TestSlots \in Nat /\ Len(test) <= TestSlots
    BY TestsAreCounted DEF ConstantsOK, TestInv
  <2> QED
    BY <1>1, <2>1 DEF StartTests, Least, FreeSlots
<1>3. /\ pending' = SubSeq(pending, n + 1, Len(pending))
      /\ testing' = testing \cup {pending[i] : i \in 1..n}
      /\ test' = test \o new
  BY DEF StartTests
<1> HIDE DEF n
<1>4. \A i \in 1..Len(pending) : pending[i] \in Ids
  BY DEF TestInv, TestType
<1>5. new \in Seq([id : Ids, pc : {"starting", "running"}]) /\ Len(new) = n
  BY <1>1, <1>2, <1>4
<1>6. /\ test' \in Seq([id : Ids, pc : {"starting", "running"}]) /\ Len(test') = Len(test) + n
      /\ \A i \in 1..Len(test') :
           test'[i].id = IF i <= Len(test) THEN test[i].id ELSE pending[i - Len(test)]
  BY <1>1, <1>2, <1>3, <1>5 DEF TestInv, TestType
<1>7. /\ pending' \in Seq(Ids) /\ Len(pending') = Len(pending) - n
      /\ \A i \in 1..Len(pending') : pending'[i] = pending[i + n] /\ i + n \in 1..Len(pending)
  BY <1>1, <1>2, <1>3 DEF TestInv, TestType
<1>8. testing' \in SUBSET Ids
  BY <1>2, <1>3, <1>4 DEF TestInv, TestType
<1>9. \A i, j \in 1..Len(pending') : pending'[i] = pending'[j] => i = j
  <2> SUFFICES ASSUME NEW i \in 1..Len(pending'), NEW j \in 1..Len(pending'),
                      pending'[i] = pending'[j]
               PROVE  i = j
    OBVIOUS
  <2>1. i + n = j + n
    BY <1>7 DEF TestInv
  <2> QED
    BY <1>1, <1>2, <1>7, <2>1
<1>10. \A i \in 1..Len(pending') : pending'[i] \notin testing'
  <2> SUFFICES ASSUME NEW i \in 1..Len(pending') PROVE pending'[i] \notin testing'
    OBVIOUS
  <2>1. pending'[i] = pending[i + n] /\ i + n \in 1..Len(pending) /\ pending[i + n] \notin testing
    BY <1>7 DEF TestInv
  <2>2. \A k \in 1..n : pending[k] # pending[i + n]
    BY <1>1, <1>2, <1>7, <2>1 DEF TestInv
  <2> QED
    BY <1>3, <2>1, <2>2
<1>11. \A i, j \in 1..Len(test') : test'[i].id = test'[j].id => i = j
  <2> SUFFICES ASSUME NEW i \in 1..Len(test'), NEW j \in 1..Len(test'), test'[i].id = test'[j].id
               PROVE  i = j
    OBVIOUS
  <2>1. \A k \in 1..Len(test') : k > Len(test) => k - Len(test) \in 1..Len(pending)
    BY <1>1, <1>2, <1>6
  <2>2. \A k \in 1..Len(test) : test[k].id \in testing
    BY DEF TestInv
  <2>3. CASE i <= Len(test) /\ j <= Len(test)
    BY <1>1, <1>6, <2>3 DEF TestInv
  <2>4. CASE i > Len(test) /\ j > Len(test)
    BY <1>1, <1>2, <1>6, <2>1, <2>4 DEF TestInv
  <2>5. CASE i > Len(test) /\ j <= Len(test)
    BY <1>1, <1>6, <2>1, <2>2, <2>5 DEF TestInv
  <2>6. CASE i <= Len(test) /\ j > Len(test)
    BY <1>1, <1>6, <2>1, <2>2, <2>6 DEF TestInv
  <2> QED
    BY <1>1, <1>2, <1>6, <2>3, <2>4, <2>5, <2>6
<1>12. testing' = {test'[i].id : i \in 1..Len(test')}
  <2>1. ASSUME NEW x \in testing' PROVE \E i \in 1..Len(test') : x = test'[i].id
    <3>1. CASE x \in testing
      <4>1. PICK i \in 1..Len(test) : x = test[i].id
        BY <3>1 DEF TestInv
      <4> QED
        BY <1>1, <1>2, <1>6, <4>1
    <3>2. CASE x \notin testing
      <4>1. PICK i \in 1..n : x = pending[i]
        BY <1>3, <2>1, <3>2
      <4>2. i + Len(test) \in 1..Len(test') /\ test'[i + Len(test)].id = pending[i]
        BY <1>1, <1>2, <1>6, <4>1
      <4> QED
        BY <4>1, <4>2
    <3> QED
      BY <3>1, <3>2
  <2>2. ASSUME NEW i \in 1..Len(test') PROVE test'[i].id \in testing'
    <3>1. CASE i <= Len(test)
      BY <1>1, <1>3, <1>6, <3>1 DEF TestInv
    <3>2. CASE i > Len(test)
      <4>1. i - Len(test) \in 1..n
        BY <1>1, <1>2, <1>6, <3>2
      <4>2. test'[i].id = pending[i - Len(test)]
        BY <1>1, <1>6, <3>2
      <4> QED
        BY <1>3, <4>1, <4>2
    <3> QED
      BY <1>1, <1>2, <1>6, <3>1, <3>2
  <2> QED
    BY <2>1, <2>2
<1> QED
  BY <1>1, <1>2, <1>6, <1>7, <1>8, <1>9, <1>10, <1>11, <1>12 DEF TestInv, TestType

\* A thread that starts its sing-box tests the same profile.
LEMMA SpawnKeeps ==
    ASSUME TestInv, NEW i, SpawnTest(i)
    PROVE  TestInv'
<1> DEFINE Thread == [id : Ids, pc : {"starting", "running"}]
<1>1. test' = [test EXCEPT ![i] = [test[i] EXCEPT !.pc = "running"]] /\ i \in 1..Len(test)
  BY DEF SpawnTest, TestInv, TestType
<1>2. test[i] \in Thread
  <2>1. test \in Seq(Thread)
    BY DEF TestInv, TestType
  <2> HIDE DEF Thread
  <2> QED
    BY <1>1, <2>1
<1>3. [test[i] EXCEPT !.pc = "running"] \in Thread /\ [test[i] EXCEPT !.pc = "running"].id = test[i].id
  BY <1>2
<1>4. test' \in Seq(Thread) /\ Len(test') = Len(test)
  BY <1>1, <1>3 DEF TestInv, TestType
<1>5. \A j \in 1..Len(test) : test'[j].id = test[j].id
  BY <1>1, <1>3 DEF TestInv, TestType
<1>6. UNCHANGED <<pending, testing>>
  BY DEF SpawnTest
<1> QED
  BY <1>4, <1>5, <1>6 DEF TestInv, TestType

\* A thread that ends takes its profile along, which no other tests.
LEMMA ResultKeeps ==
    ASSUME ConstantsOK, TestInv, NEW i, TestResult(i)
    PROVE  TestInv'
<1>1. i \in 1..Len(test) /\ Len(test) \in Nat
  BY DEF TestResult, TestInv, TestType
<1>2. test' = SubSeq(test, 1, i - 1) \o SubSeq(test, i + 1, Len(test))
  BY DEF TestResult, RemoveAt
<1>3. /\ test' \in Seq([id : Ids, pc : {"starting", "running"}])
      /\ Len(test') = Len(test) - 1
      /\ \A j \in 1..Len(test') : test'[j] = IF j < i THEN test[j] ELSE test[j + 1]
  <2> DEFINE before == SubSeq(test, 1, i - 1)
             after == SubSeq(test, i + 1, Len(test))
             Thread == [id : Ids, pc : {"starting", "running"}]
  <2>1. test \in Seq(Thread)
    BY DEF TestInv, TestType
  <2> HIDE DEF Thread
  <2>2. before \in Seq(Thread) /\ Len(before) = i - 1 /\ \A j \in 1..(i - 1) : before[j] = test[j]
    BY <1>1, <2>1
  <2>3. /\ after \in Seq(Thread) /\ Len(after) = Len(test) - i
        /\ \A j \in 1..(Len(test) - i) : after[j] = test[i + j]
    BY <1>1, <2>1
  <2> HIDE DEF before, after
  <2>4. test' = before \o after
    BY <1>2 DEF before, after
  <2>5. test' \in Seq(Thread) /\ Len(test') = Len(test) - 1
    <3>1. test' \in Seq(Thread)
      BY <2>2, <2>3, <2>4
    <3>2. Len(test') = Len(before) + Len(after)
      <4>1. ASSUME NEW s \in Seq(Thread), NEW t \in Seq(Thread) PROVE Len(s \o t) = Len(s) + Len(t)
        OBVIOUS
      <4>2. before \in Seq(Thread) /\ after \in Seq(Thread)
        BY <2>2, <2>3
      <4> QED
        BY <2>4, <4>1, <4>2
    <3> QED
      BY <1>1, <2>2, <2>3, <3>1, <3>2
  <2>6. ASSUME NEW j \in 1..Len(test') PROVE test'[j] = IF j < i THEN test[j] ELSE test[j + 1]
    <3>1. CASE j < i
      BY <1>1, <2>2, <2>3, <2>4, <2>5, <3>1
    <3>2. CASE j >= i
      <4>1. j - (i - 1) \in 1..(Len(test) - i)
        BY <1>1, <2>5, <3>2
      <4>2. test'[j] = after[j - (i - 1)]
        BY <1>1, <2>2, <2>3, <2>4, <2>5, <3>2, <4>1
      <4>3. after[j - (i - 1)] = test[i + (j - (i - 1))] /\ i + (j - (i - 1)) = j + 1
        BY <1>1, <2>3, <4>1
      <4> QED
        BY <1>1, <3>2, <4>2, <4>3
    <3> QED
      BY <1>1, <3>1, <3>2
  <2> QED
    BY <2>5, <2>6 DEF Thread
<1>4. UNCHANGED pending /\ testing' = testing \ {test[i].id}
  BY DEF TestResult
<1>5. \A j, k \in 1..Len(test') : test'[j].id = test'[k].id => j = k
  <2> SUFFICES ASSUME NEW j \in 1..Len(test'), NEW k \in 1..Len(test'), test'[j].id = test'[k].id
               PROVE  j = k
    OBVIOUS
  <2> DEFINE At(x) == IF x < i THEN x ELSE x + 1
  <2>1. At(j) \in 1..Len(test) /\ At(k) \in 1..Len(test)
    BY <1>1, <1>3
  <2>2. test'[j] = test[At(j)] /\ test'[k] = test[At(k)]
    BY <1>3
  <2>3. At(j) = At(k)
    BY <2>1, <2>2 DEF TestInv
  <2> QED
    BY <1>1, <1>3, <2>3
<1>6. testing' = {test'[j].id : j \in 1..Len(test')}
  <2>1. ASSUME NEW x \in testing' PROVE \E j \in 1..Len(test') : x = test'[j].id
    <3>1. PICK k \in 1..Len(test) : x = test[k].id
      BY <1>4, <2>1 DEF TestInv
    <3>2. k # i
      BY <1>4, <2>1, <3>1
    <3>3. CASE k < i
      <4>1. k \in 1..Len(test') /\ test'[k] = test[k]
        BY <1>1, <1>3, <3>3
      <4> QED
        BY <3>1, <4>1
    <3>4. CASE k > i
      <4>1. k - 1 \in 1..Len(test') /\ test'[k - 1] = test[k]
        BY <1>1, <1>3, <3>4
      <4> QED
        BY <3>1, <4>1
    <3> QED
      BY <1>1, <3>2, <3>3, <3>4
  <2>2. ASSUME NEW j \in 1..Len(test') PROVE test'[j].id \in testing'
    <3> DEFINE at == IF j < i THEN j ELSE j + 1
    <3>1. at \in 1..Len(test) /\ at # i /\ test'[j] = test[at]
      BY <1>1, <1>3
    <3> QED
      BY <1>1, <1>4, <3>1 DEF TestInv
  <2> QED
    BY <2>1, <2>2
<1>7. \A j \in 1..Len(pending') : pending'[j] \notin testing'
  BY <1>4 DEF TestInv
<1> QED
  <2>1. TestType'
    BY <1>3, <1>4 DEF TestInv, TestType
  <2>2. Len(test') <= TestSlots
    BY <1>1, <1>3 DEF TestInv, ConstantsOK
  <2>3. \A j, k \in 1..Len(pending') : pending'[j] = pending'[k] => j = k
    BY <1>4 DEF TestInv
  <2> QED
    BY <1>5, <1>6, <1>7, <2>1, <2>2, <2>3 DEF TestInv

-----------------------------------------------------------------------------

\* A rate is no more than what was counted, had it come in a millisecond.
LEMMA RateIsBounded ==
    ASSUME NEW prev \in Nat, NEW curr \in Nat, NEW elapsed \in Nat
    PROVE  ComputeRate(prev, curr, elapsed) \in Nat /\ ComputeRate(prev, curr, elapsed) <= 1000 * curr
<1>1. CASE elapsed = 0 \/ curr <= prev
  BY <1>1 DEF ComputeRate
<1>2. CASE elapsed > 0 /\ curr > prev
  <2>1. ASSUME NEW a \in Nat, NEW b \in Nat, b > 0 PROVE a \div b \in Nat /\ a \div b <= a
    BY <2>1
  <2>2. (curr - prev) * 1000 \in Nat /\ (curr - prev) * 1000 <= 1000 * curr
    BY <1>2
  <2> QED
    BY <1>2, <2>1, <2>2 DEF ComputeRate
<1> QED
  BY <1>1, <1>2

\* An answer of the current tunnel: its rate takes an earlier one.
LEMMA AnswerKeeps ==
    ASSUME TrafficInv, NEW p \in poll, TrafficStatsUpdated(p), Current(p)
    PROVE  TrafficInv'
<1> DEFINE rate == IF traffic.at = 0 THEN 0
                   ELSE ComputeRate(traffic.up, p.up, Elapsed(traffic.at, p.at))
<1>1. /\ p \in [attempt : Nat, request : Nat, up : Int, at : Nat]
      /\ traffic \in [up : Nat, rate : Nat, of : Nat, at : Nat, request : Nat, response : Nat]
      /\ p.up >= 0 /\ UNCHANGED <<link, total>> /\ poll' = poll \ {p}
      /\ traffic' = [traffic EXCEPT !.up = p.up, !.at = p.at, !.of = p.attempt,
                                    !.response = p.request, !.rate = rate]
  BY DEF TrafficInv, TrafficType, TrafficStatsUpdated
<1>2. /\ p.attempt = link.attempt /\ p.request > traffic.response
      /\ total \in Nat /\ p.up <= total
  BY DEF TrafficInv, TrafficType, Current
<1>3. PICK prev \in Nat, curr \in Nat, elapsed \in Nat :
          prev = traffic.up /\ curr = p.up /\ elapsed = Elapsed(traffic.at, p.at)
  BY <1>1 DEF Elapsed
<1>4. rate = 0 \/ rate = ComputeRate(prev, curr, elapsed)
  BY <1>3
<1>5. p.request <= 1 => rate = 0
  BY <1>1, <1>2 DEF TrafficInv
<1> HIDE DEF rate
<1>6. rate \in Nat /\ rate <= 1000 * total
  <2>1. ComputeRate(prev, curr, elapsed) \in Nat /\ ComputeRate(prev, curr, elapsed) <= 1000 * curr
    BY RateIsBounded
  <2>2. curr <= total /\ total \in Nat
    BY <1>2, <1>3
  <2>3. ComputeRate(prev, curr, elapsed) <= 1000 * total /\ 0 <= 1000 * total
    BY <2>1, <2>2
  <2> QED
    BY <1>4, <2>1, <2>3
<1>7. /\ traffic' \in [up : Nat, rate : Nat, of : Nat, at : Nat, request : Nat, response : Nat]
      /\ traffic'.of = p.attempt /\ traffic'.up = p.up /\ traffic'.rate = rate
      /\ traffic'.response = p.request
  <2>1. rate \in Nat
    BY <1>6
  <2>2. p.up \in Nat
    BY <1>1
  <2> QED
    BY <1>1, <2>1, <2>2
<1>8. p.request \in Nat /\ p.request > 0
  BY <1>1, <1>2
<1> QED
  BY <1>1, <1>2, <1>5, <1>6, <1>7, <1>8 DEF TrafficInv, TrafficType

\* Every step of the tunnel, of a poll and of its answer keeps the traffic's.
LEMMA TrafficKeeps ==
    ASSUME ConstantsOK, TrafficInv, TrafficNext
    PROVE  TrafficInv'
<1> USE DEF TrafficInv, TrafficType
<1>1. CASE Connected
  <2>1. /\ link' = [connected |-> TRUE, attempt |-> link.attempt + 1] /\ total' = 0
        /\ traffic' = NoTraffic /\ UNCHANGED poll
    BY <1>1 DEF Connected
  <2>2. link'.attempt \in Nat /\ \A p \in poll' : p.attempt < link'.attempt
    BY <2>1
  <2> QED
    BY <2>1, <2>2 DEF NoTraffic
<1>2. CASE NotConnected
  <2>1. /\ link' = [link EXCEPT !.connected = FALSE] /\ traffic' = NoTraffic
        /\ UNCHANGED <<total, poll>>
    BY <1>2 DEF NotConnected
  <2>2. link' \in [connected : BOOLEAN, attempt : Nat] /\ link'.attempt = link.attempt
    BY <2>1
  <2> QED
    BY <2>1, <2>2 DEF NoTraffic
<1>3. CASE Transfer
  BY <1>3 DEF Transfer
<1>4. CASE Poll
  BY <1>4 DEF Poll
<1>5. ASSUME NEW p \in poll, NEW at \in Stamps, Sample(p, at) PROVE TrafficInv'
  <2>1. UNCHANGED <<link, total, traffic>>
    BY <1>5 DEF Sample
  <2>2. \A q \in poll' : q \in poll \/ q = [p EXCEPT !.up = total, !.at = at]
    BY <1>5 DEF Sample
  <2> DEFINE q0 == [p EXCEPT !.up = total, !.at = at]
  <2>3. /\ q0 \in [attempt : Nat, request : Nat, up : Int, at : Nat]
        /\ q0.attempt = p.attempt /\ q0.up = total
    <3>1. p \in [attempt : Nat, request : Nat, up : Int, at : Nat]
      BY <1>5
    <3>2. total \in Int /\ at \in Nat
      BY DEF ConstantsOK
    <3> QED
      BY <3>1, <3>2
  <2> HIDE DEF q0
  <2>4. \A q \in poll' : q \in poll \/ q = q0
    BY <2>2 DEF q0
  <2>5. poll' \in SUBSET [attempt : Nat, request : Nat, up : Int, at : Nat]
    BY <2>3, <2>4
  <2>6. \A q \in poll' : q.attempt <= link.attempt /\ (q.attempt = link.attempt => q.up <= total)
    BY <2>3, <2>4
  <2> QED
    BY <2>1, <2>5, <2>6
<1>6. ASSUME NEW p \in poll, TrafficStatsUpdated(p) PROVE TrafficInv'
  <2>1. UNCHANGED <<link, total>> /\ poll' \in SUBSET poll /\ p.up >= 0
    BY <1>6 DEF TrafficStatsUpdated
  <2>2. CASE ~Current(p)
    BY <1>6, <2>1, <2>2 DEF TrafficStatsUpdated
  <2>3. CASE Current(p)
    BY <1>6, <2>3, AnswerKeeps
  <2> QED
    BY <2>2, <2>3
<1> QED
  BY <1>1, <1>2, <1>3, <1>4, <1>5, <1>6 DEF TrafficNext

-----------------------------------------------------------------------------

\* Every step of the tests keeps theirs.
LEMMA TestsKeep ==
    ASSUME ConstantsOK, TestInv, TestsNext
    PROVE  TestInv'
<1>1. ASSUME NEW id \in Ids, QueueTest(id) PROVE TestInv'
  <2>1. /\ pending' = pending \o <<id>> /\ UNCHANGED <<testing, test>>
        /\ Queueable(id)
    BY <1>1 DEF QueueTest, TestInv, TestType
  <2> DEFINE ids == <<id>>
  <2>2. ids \in Seq(Ids) /\ Len(ids) = 1 /\ ids[1] = id
    BY <1>1
  <2>3. pending' = pending \o ids
    BY <2>1
  <2> HIDE DEF ids
  <2>4. /\ \A i \in 1..Len(ids) : Queueable(ids[i])
        /\ \A i, j \in 1..Len(ids) : ids[i] = ids[j] => i = j
    BY <2>1, <2>2
  <2> QED
    BY <2>1, <2>2, <2>3, <2>4, QueueKeeps
<1>2. CASE QueueAll
  <2>1. /\ UNCHANGED <<testing, test>>
        /\ \E ids \in SetToAllKPermutations({id \in Ids : Queueable(id)}) : pending' = pending \o ids
    BY <1>2 DEF QueueAll
  <2> QED
    BY <2>1, QueuedAreNew, QueueKeeps
<1>3. CASE StartTests
  BY <1>3, StartKeeps
<1>4. ASSUME NEW i, SpawnTest(i) \/ TestResult(i) PROVE TestInv'
  BY <1>4, SpawnKeeps, ResultKeeps
<1> QED
  BY <1>1, <1>2, <1>3, <1>4 DEF TestsNext

\* The start satisfies both.
LEMMA StartsRight == ConstantsOK /\ Init => Inv
BY DEF ConstantsOK, Init, Inv, TestInv, TestType, TrafficInv, TrafficType, NoTraffic

\* A step that changes nothing keeps both.
LEMMA StutterKeeps == Inv /\ UNCHANGED vars => Inv'
<1> SUFFICES ASSUME Inv, UNCHANGED <<pending, testing, test, link, total, traffic, poll>>
             PROVE  Inv'
  BY DEF vars, testVars, trafficVars
<1>1. TestInv'
  BY DEF Inv, TestInv, TestType
<1>2. TrafficInv'
  BY DEF Inv, TrafficInv, TrafficType
<1> QED
  BY <1>1, <1>2 DEF Inv

\* Every step keeps both.
LEMMA StepKeeps == ConstantsOK /\ Inv /\ Next => Inv'
<1> SUFFICES ASSUME ConstantsOK, Inv, Next PROVE Inv'
  OBVIOUS
<1>1. CASE TestsNext
  <2>1. UNCHANGED trafficVars
    BY <1>1 DEF TestsNext, QueueTest, QueueAll, StartTests, SpawnTest, TestResult
  <2> QED
    BY <1>1, <2>1, TestsKeep DEF Inv, TrafficInv, TrafficType, trafficVars
<1>2. CASE TrafficNext
  <2>1. UNCHANGED testVars
    BY <1>2 DEF TrafficNext, Connected, NotConnected, Transfer, Poll, Sample, TrafficStatsUpdated
  <2> QED
    BY <1>2, <2>1, TrafficKeeps DEF Inv, TestInv, TestType, testVars
<1> QED
  BY <1>1, <1>2 DEF Next

\* The invariant says what the properties do.
LEMMA InvIsSafe == Inv => TestsDoNotCollide /\ TrafficIsOfThisTunnel
BY DEF Inv, TestInv, TestType, TrafficInv, TestsDoNotCollide, TrafficIsOfThisTunnel, IsInjective

\* For any number of profiles, slots, tunnels and polls: tests share no
\* configuration file and no more than TestSlots run, and the traffic shown
\* is of this tunnel.
THEOREM ResultsAreSafe ==
    ASSUME ConstantsOK
    PROVE  Spec => [](TestsDoNotCollide /\ TrafficIsOfThisTunnel)
<1>1. Inv /\ [Next]_vars => Inv'
  BY StepKeeps, StutterKeeps
<1> QED
  BY <1>1, StartsRight, InvIsSafe, PTL DEF Spec
=============================================================================
