--------------------------- MODULE ServicesProofs ---------------------------
(***************************************************************************)
(* Theorems about the components that stand by themselves, for every value *)
(* of their constants: the limiter's bound, the age of a served rate, what *)
(* a verified recovery package says, how far the dashboard's figures err,  *)
(* and that its list has no gaps.                                          *)
(***************************************************************************)
EXTENDS Dashboard, RateLimiter, RateCache, RecoveryPackage, FiniteSetTheorems,
        SequenceTheorems, TLAPS

-----------------------------------------------------------------------------
(* RateLimiter. The proof looks at the admissions that opened a window:    *)
(* after one of them the next is at most Limit admissions on, and not      *)
(* before its window is over.                                              *)

Buckets == [count : Nat, windowEnd : Nat]

LimiterTyped ==
  /\ tick \in Nat
  /\ store \in [Keys -> Buckets \cup {NoBucket}]
  /\ admitted \in [Keys -> Seq(Nat)]

\* S are the admissions, of the m in times, that opened a window, up to the last
\* one, n; the bucket, if it is there, is of that one's window, which is over if
\* it is not.
Starts(times, m, S, n) ==
  /\ n \in S
  /\ \A s \in S : s \in 1 .. n
  /\ n \in 1 .. m
  /\ \A s, t \in S : s < t => times[t] >= times[s] + LimitWindow
  /\ \A j \in 1 .. m : \E s \in S : s <= j /\ j < s + Limit

Times(times, m, now) ==
  /\ \A i \in 1 .. m : times[i] \in Nat /\ times[i] <= now
  /\ \A i, j \in 1 .. m : i <= j => times[i] <= times[j]

BucketOf(times, m, n, bucket, now) ==
  IF bucket = NoBucket
  THEN now >= times[n] + LimitWindow
  ELSE /\ bucket.windowEnd = times[n] + LimitWindow
       /\ bucket.count = m - n + 1
       /\ bucket.count <= Limit

Opened(times, m, S, n, bucket, now) ==
  /\ Starts(times, m, S, n)
  /\ Times(times, m, now)
  /\ BucketOf(times, m, n, bucket, now)

KeyHolds(k) ==
  IF admitted[k] = << >>
  THEN store[k] = NoBucket
  ELSE \E S \in SUBSET Nat : \E n \in Nat :
         Opened(admitted[k], Len(admitted[k]), S, n, store[k], tick)

LimiterInv == LimiterTyped /\ \A k \in Keys : KeyHolds(k)

-----------------------------------------------------------------------------
(* One key *)

\* One more admission.
LEMMA TimesGrow ==
  ASSUME NEW m \in Nat, NEW times, NEW more, NEW now \in Nat, Times(times, m, now),
         more[m + 1] = now, \A i \in 1 .. m : more[i] = times[i]
  PROVE  Times(more, m + 1, now)
<1>1. ASSUME NEW i \in 1 .. m + 1 PROVE more[i] \in Nat /\ more[i] <= now
  BY DEF Times
<1>2. ASSUME NEW i \in 1 .. m + 1, NEW j \in 1 .. m + 1, i <= j PROVE more[i] <= more[j]
  <2>1. CASE j = m + 1
    BY <1>1, <2>1
  <2>2. CASE j \in 1 .. m
    <3>1. i \in 1 .. m
      BY <1>2, <2>2
    <3> QED BY <1>2, <2>2, <3>1 DEF Times
  <2> QED BY <2>1, <2>2
<1> QED BY <1>1, <1>2 DEF Times

\* Time passes.
LEMMA OpenedLater ==
  ASSUME NEW m \in Nat, NEW times, NEW S, NEW n, NEW bucket, NEW now \in Nat,
         NEW later \in Nat, Opened(times, m, S, n, bucket, now), now <= later
  PROVE  Opened(times, m, S, n, bucket, later)
<1>1. Times(times, m, later)
  BY DEF Opened, Times
<1>2. BucketOf(times, m, n, bucket, later)
  <2>1. times[n] \in Nat
    BY DEF Opened, Starts, Times
  <2> QED BY <2>1, LimiterAssumption DEF Opened, BucketOf
<1> QED BY <1>1, <1>2 DEF Opened

\* A bucket whose window is over is dropped.
LEMMA OpenedCollected ==
  ASSUME NEW m \in Nat, NEW times, NEW S, NEW n, NEW bucket, NEW now \in Nat,
         Opened(times, m, S, n, bucket, now), ~ InWindow(bucket, now)
  PROVE  Opened(times, m, S, n, NoBucket, now)
<1>1. times[n] \in Nat
  BY DEF Opened, Starts, Times
<1>2. now >= times[n] + LimitWindow
  BY <1>1, LimiterAssumption DEF Opened, BucketOf, InWindow
<1> QED BY <1>2 DEF Opened, BucketOf

\* An admission within the window.
LEMMA OpenedCounts ==
  ASSUME NEW m \in Nat, NEW times, NEW more, NEW S, NEW n, NEW bucket \in Buckets,
         NEW now \in Nat,
         Opened(times, m, S, n, bucket, now), bucket # NoBucket, bucket.count < Limit,
         more[m + 1] = now, \A i \in 1 .. m : more[i] = times[i]
  PROVE  Opened(more, m + 1, S, n, [bucket EXCEPT !.count = @ + 1], now)
<1> DEFINE b == [bucket EXCEPT !.count = @ + 1]
<1>1. /\ b # NoBucket /\ b.windowEnd = bucket.windowEnd
      /\ b.count = bucket.count + 1 /\ bucket.count \in Nat
  BY LimiterAssumption DEF Buckets
<1> HIDE DEF b
<1>2. Times(more, m + 1, now)
  BY TimesGrow DEF Opened
<1>3. n \in 1 .. m /\ n \in S /\ bucket.count = m - n + 1
  BY DEF Opened, Starts, BucketOf
<1>4. Starts(more, m + 1, S, n)
  <2>1. \A s \in S : s \in 1 .. m /\ more[s] = times[s]
    BY <1>3 DEF Opened, Starts
  <2>2. \A s, t \in S : s < t => more[t] >= more[s] + LimitWindow
    BY <2>1 DEF Opened, Starts
  <2>3. ASSUME NEW j \in 1 .. m + 1 PROVE \E s \in S : s <= j /\ j < s + Limit
    <3>1. CASE j \in 1 .. m
      BY <3>1 DEF Opened, Starts
    <3>2. CASE j = m + 1
      BY <1>3, <3>2, LimiterAssumption
    <3> QED BY <3>1, <3>2
  <2> QED BY <1>3, <2>2, <2>3 DEF Opened, Starts
<1>5. BucketOf(more, m + 1, n, b, now)
  <2>1. bucket.windowEnd = more[n] + LimitWindow
    BY <1>3 DEF Opened, BucketOf
  <2>2. b.count = (m + 1) - n + 1 /\ b.count <= Limit
    BY <1>1, <1>3, LimiterAssumption
  <2> QED BY <1>1, <2>1, <2>2 DEF BucketOf
<1> QED BY <1>2, <1>4, <1>5 DEF Opened, b

\* An admission that opens a window, after one that is over.
LEMMA OpenedAnew ==
  ASSUME NEW m \in Nat, NEW times, NEW more, NEW S, NEW n, NEW now \in Nat,
         Opened(times, m, S, n, NoBucket, now),
         more[m + 1] = now, \A i \in 1 .. m : more[i] = times[i]
  PROVE  Opened(more, m + 1, S \cup {m + 1}, m + 1,
                [count |-> 1, windowEnd |-> now + LimitWindow], now)
<1> DEFINE b == [count |-> 1, windowEnd |-> now + LimitWindow]
<1>1. b # NoBucket /\ b.count = 1 /\ b.windowEnd = now + LimitWindow
  BY LimiterAssumption
<1> HIDE DEF b
<1>2. Times(more, m + 1, now)
  BY TimesGrow DEF Opened
<1>3. n \in 1 .. m /\ \A s \in S : s \in 1 .. n
  BY DEF Opened, Starts
<1>4. Starts(more, m + 1, S \cup {m + 1}, m + 1)
  <2>1. \A s \in S : s \in 1 .. m /\ s # m + 1 /\ more[s] = times[s]
    BY <1>3
  <2>2. \A s, t \in S : s < t => more[t] >= more[s] + LimitWindow
    BY <2>1 DEF Opened, Starts
  <2>3. ASSUME NEW s \in S PROVE now >= more[s] + LimitWindow
    <3>1. s \in 1 .. m /\ s <= n /\ times[s] \in Nat /\ times[n] \in Nat
      BY <1>3 DEF Opened, Times
    <3>2. times[s] <= times[n]
      BY <1>3, <3>1 DEF Opened, Times
    <3>3. now >= times[n] + LimitWindow
      BY DEF Opened, BucketOf
    <3> QED BY <2>1, <3>1, <3>2, <3>3, LimiterAssumption
  <2>4. ASSUME NEW s \in S \cup {m + 1}, NEW t \in S \cup {m + 1}, s < t
        PROVE  more[t] >= more[s] + LimitWindow
    <3>1. s \in S
      BY <2>1, <2>4
    <3> QED BY <2>2, <2>3, <2>4, <3>1
  <2>5. ASSUME NEW j \in 1 .. m + 1 PROVE \E s \in S \cup {m + 1} : s <= j /\ j < s + Limit
    <3>1. CASE j \in 1 .. m
      BY <3>1 DEF Opened, Starts
    <3>2. CASE j = m + 1
      BY <3>2, LimiterAssumption
    <3> QED BY <3>1, <3>2
  <2>6. \A s \in S \cup {m + 1} : s \in 1 .. m + 1
    BY <2>1
  <2> QED BY <2>4, <2>5, <2>6 DEF Starts
<1>5. BucketOf(more, m + 1, m + 1, b, now)
  BY <1>1, LimiterAssumption DEF BucketOf
<1> QED BY <1>2, <1>4, <1>5 DEF Opened, b

\* The first admission to a key.
LEMMA OpenedFirst ==
  ASSUME NEW more, NEW now \in Nat, more[1] = now
  PROVE  Opened(more, 1, {1}, 1, [count |-> 1, windowEnd |-> now + LimitWindow], now)
<1> DEFINE b == [count |-> 1, windowEnd |-> now + LimitWindow]
<1>1. b # NoBucket /\ b.count = 1 /\ b.windowEnd = now + LimitWindow
  BY LimiterAssumption
<1> HIDE DEF b
<1>2. Times(more, 1, now) /\ Starts(more, 1, {1}, 1)
  BY LimiterAssumption DEF Times, Starts
<1>3. BucketOf(more, 1, 1, b, now)
  BY <1>1, LimiterAssumption DEF BucketOf
<1> QED BY <1>2, <1>3 DEF Opened, b

-----------------------------------------------------------------------------
(* The invariant *)

\* Nothing is admitted yet, and no bucket is there.
LEMMA LimiterInit == InitLimiter => LimiterInv
BY DEF InitLimiter, LimiterInv, LimiterTyped, KeyHolds

\* A request: refused, counted, or the first of a window.
LEMMA ArrivesKeeps ==
  ASSUME LimiterInv, NEW k \in Keys, Arrives(k)
  PROVE  LimiterInv'
<1> DEFINE b == store[k]
           c == Checked(b, Limit, LimitWindow, tick)
           times == admitted[k]
<1>1. b \in Buckets \cup {NoBucket} /\ times \in Seq(Nat) /\ tick \in Nat /\ tick' = tick
  BY DEF LimiterInv, LimiterTyped, Arrives
<1>2. store' = [store EXCEPT ![k] = c]
  BY DEF Arrives
<1>3. KeyHolds(k)
  BY DEF LimiterInv
<1>4. ASSUME ~ Admits(b, Limit, tick) PROVE LimiterInv'
  <2>1. c = b
    BY <1>4 DEF Checked
  <2>2. store' = store /\ admitted' = admitted
    BY <1>2, <1>4, <2>1 DEF Arrives, LimiterInv, LimiterTyped
  <2> QED BY <1>1, <2>2 DEF LimiterInv, LimiterTyped, KeyHolds
<1>5. ASSUME Admits(b, Limit, tick) PROVE LimiterInv'
  <2>1. c = Counted(b, LimitWindow, tick)
    BY <1>5 DEF Checked
  <2>2. admitted' = [admitted EXCEPT ![k] = Append(times, tick)]
    BY <1>5 DEF Arrives
  <2>3. c \in Buckets
    <3>1. CASE InWindow(b, tick)
      BY <1>1, <2>1, <3>1 DEF Counted, Buckets, InWindow
    <3>2. CASE ~ InWindow(b, tick)
      BY <1>1, <2>1, <3>2, LimiterAssumption DEF Counted, Buckets
    <3> QED BY <3>1, <3>2
  <2> DEFINE m == Len(times)
             more == Append(times, tick)
  <2>4. /\ m \in Nat /\ Len(more) = m + 1 /\ more[m + 1] = tick
        /\ \A i \in 1 .. m : more[i] = times[i]
    BY <1>1
  <2>5. \E S \in SUBSET Nat : \E n \in Nat : Opened(more, m + 1, S, n, c, tick)
    <3>1. CASE times = << >>
      <4>1. ~ InWindow(b, tick) /\ m = 0
        BY <1>3, <3>1 DEF KeyHolds, InWindow
      <4>2. c = [count |-> 1, windowEnd |-> tick + LimitWindow]
        BY <2>1, <4>1 DEF Counted
      <4> HIDE DEF b, c, m, more
      <4>3. more[1] = tick
        BY <2>4, <4>1
      <4>4. Opened(more, 1, {1}, 1, c, tick)
        BY <1>1, <4>2, <4>3, OpenedFirst
      <4> QED BY <4>1, <4>4
    <3>2. CASE times # << >>
      <4>1. PICK S \in SUBSET Nat, n \in Nat : Opened(times, m, S, n, b, tick)
        BY <1>3, <3>2 DEF KeyHolds
      <4>2. CASE InWindow(b, tick)
        <5>1. b \in Buckets /\ b # NoBucket /\ b.count < Limit
          BY <1>1, <1>5, <4>2 DEF InWindow, Admits
        <5>2. c = [b EXCEPT !.count = @ + 1]
          BY <2>1, <4>2 DEF Counted
        <5> HIDE DEF b, c, m, more
        <5>3. Opened(more, m + 1, S, n, c, tick)
          BY <1>1, <2>4, <4>1, <5>1, <5>2, OpenedCounts
        <5> QED BY <5>3
      <4>3. CASE ~ InWindow(b, tick)
        <5>1. c = [count |-> 1, windowEnd |-> tick + LimitWindow]
          BY <2>1, <4>3 DEF Counted
        <5> HIDE DEF b, c, m, more
        <5>2. Opened(times, m, S, n, NoBucket, tick)
          BY <1>1, <2>4, <4>1, <4>3, OpenedCollected
        <5>3. Opened(more, m + 1, S \cup {m + 1}, m + 1, c, tick)
          BY <1>1, <2>4, <5>1, <5>2, OpenedAnew
        <5>4. m + 1 \in Nat /\ S \cup {m + 1} \in SUBSET Nat
          BY <2>4
        <5> QED BY <5>3, <5>4
      <4> QED BY <4>2, <4>3
    <3> QED BY <3>1, <3>2
  <2> HIDE DEF b, c, times
  <2>6. LimiterTyped'
    BY <1>1, <1>2, <2>2, <2>3 DEF LimiterInv, LimiterTyped
  <2>7. ASSUME NEW j \in Keys PROVE KeyHolds(j)'
    <3>1. CASE j = k
      <4>1. store'[j] = c /\ admitted'[j] = more
        BY <1>2, <2>2, <3>1 DEF LimiterInv, LimiterTyped
      <4>2. more # << >>
        BY <2>4
      <4> HIDE DEF m, more
      <4> QED BY <1>1, <2>4, <2>5, <4>1, <4>2 DEF KeyHolds
    <3>2. CASE j # k
      <4>1. store'[j] = store[j] /\ admitted'[j] = admitted[j] /\ KeyHolds(j)
        BY <1>2, <2>2, <3>2 DEF LimiterInv, LimiterTyped
      <4> QED BY <1>1, <4>1 DEF KeyHolds
    <3> QED BY <3>1, <3>2
  <2> QED BY <2>6, <2>7 DEF LimiterInv
<1> QED BY <1>4, <1>5

\* The collector drops buckets whose window is over.
LEMMA CollectKeeps ==
  ASSUME LimiterInv, Collect
  PROVE  LimiterInv'
<1>1. LimiterTyped'
  BY DEF LimiterInv, LimiterTyped, Collect
<1>2. ASSUME NEW k \in Keys PROVE KeyHolds(k)'
  <2>1. /\ KeyHolds(k) /\ admitted' = admitted /\ tick' = tick /\ tick \in Nat
        /\ admitted[k] \in Seq(Nat) /\ store[k] \in Buckets \cup {NoBucket}
        /\ store'[k] = IF InWindow(store[k], tick) THEN store[k] ELSE NoBucket
    BY DEF LimiterInv, LimiterTyped, Collect
  <2>2. CASE InWindow(store[k], tick)
    BY <2>1, <2>2 DEF KeyHolds
  <2>3. CASE ~ InWindow(store[k], tick)
    <3>1. CASE admitted[k] = << >>
      BY <2>1, <2>3, <3>1 DEF KeyHolds
    <3>2. CASE admitted[k] # << >>
      <4>1. PICK S \in SUBSET Nat, n \in Nat : Opened(admitted[k], Len(admitted[k]), S, n, store[k], tick)
        BY <2>1, <3>2 DEF KeyHolds
      <4>2. Opened(admitted[k], Len(admitted[k]), S, n, NoBucket, tick)
        BY <2>1, <2>3, <4>1, OpenedCollected
      <4> QED BY <2>1, <2>3, <3>2, <4>2 DEF KeyHolds
    <3> QED BY <3>1, <3>2
  <2> QED BY <2>2, <2>3
<1> QED BY <1>1, <1>2 DEF LimiterInv

\* A window that is over stays over.
LEMMA PassesKeeps ==
  ASSUME LimiterInv, Passes
  PROVE  LimiterInv'
<1>1. LimiterTyped'
  BY DEF LimiterInv, LimiterTyped, Passes
<1>2. ASSUME NEW k \in Keys PROVE KeyHolds(k)'
  <2>1. /\ KeyHolds(k) /\ admitted' = admitted /\ store' = store /\ tick' = tick + 1
        /\ tick \in Nat /\ admitted[k] \in Seq(Nat) /\ store[k] \in Buckets \cup {NoBucket}
    BY DEF LimiterInv, LimiterTyped, Passes
  <2>2. CASE admitted[k] = << >>
    BY <2>1, <2>2 DEF KeyHolds
  <2>3. CASE admitted[k] # << >>
    <3>1. PICK S \in SUBSET Nat, n \in Nat : Opened(admitted[k], Len(admitted[k]), S, n, store[k], tick)
      BY <2>1, <2>3 DEF KeyHolds
    <3>2. Opened(admitted[k], Len(admitted[k]), S, n, store[k], tick + 1)
      BY <2>1, <3>1, OpenedLater
    <3> QED BY <2>1, <2>3, <3>2 DEF KeyHolds
  <2> QED BY <2>2, <2>3
<1> QED BY <1>1, <1>2 DEF LimiterInv

\* Each action touches the bucket and the admissions of one key at most.
LEMMA LimiterStep == LimiterInv /\ [NextLimiter]_limiterVars => LimiterInv'
<1> SUFFICES ASSUME LimiterInv, [NextLimiter]_limiterVars PROVE LimiterInv'
  OBVIOUS
<1>1. CASE \E h \in Headers : Request(h)
  BY <1>1, ArrivesKeeps DEF Request, Keys
<1>2. CASE Restarts
  BY <1>2 DEF Restarts, LimiterInv, LimiterTyped, KeyHolds
<1>3. CASE UNCHANGED limiterVars
  BY <1>3 DEF limiterVars, LimiterInv, LimiterTyped, KeyHolds
<1> QED BY <1>1, <1>2, <1>3, CollectKeeps, PassesKeeps DEF NextLimiter

\* Two windows opened one after the other hold at most Limit admissions each, so
\* 2 * Limit of them include the opening of two: whenever the collector runs, at
\* most twice the limit less one is admitted within a window's length.
THEOREM LimiterBound == SpecLimiter => []TwiceTheLimitTakesAWindow
<1>1. LimiterInv => TwiceTheLimitTakesAWindow
  <2> SUFFICES ASSUME LimiterInv, NEW k \in Keys, NEW i \in 1 .. Len(admitted[k]),
                      i + 2 * Limit - 1 <= Len(admitted[k])
               PROVE  admitted[k][i + 2 * Limit - 1] - admitted[k][i] >= LimitWindow
    BY DEF TwiceTheLimitTakesAWindow
  <2> DEFINE times == admitted[k]
             j == i + 2 * Limit - 1
  <2>1. times \in Seq(Nat) /\ Len(times) \in Nat /\ KeyHolds(k) /\ times # << >>
    BY DEF LimiterInv, LimiterTyped
  <2>2. PICK S \in SUBSET Nat, n \in Nat : Opened(times, Len(times), S, n, store[k], tick)
    BY <2>1 DEF KeyHolds
  <2>3. /\ \A s \in S : s \in 1 .. Len(times)
        /\ \A s, t \in S : s < t => times[t] >= times[s] + LimitWindow
        /\ \A l \in 1 .. Len(times) : \E s \in S : s <= l /\ l < s + Limit
        /\ \A l, m \in 1 .. Len(times) : l <= m => times[l] <= times[m]
        /\ \A l \in 1 .. Len(times) : times[l] \in Nat
    BY <2>2 DEF Opened, Starts, Times
  <2>4. j \in 1 .. Len(times) /\ i \in Nat
    BY <2>1, LimiterAssumption
  <2> HIDE DEF times, j
  <2>5. PICK s \in S : s <= j /\ j < s + Limit
    BY <2>3, <2>4
  <2>6. s \in Nat /\ s - 1 \in 1 .. Len(times) /\ s >= i + Limit
    BY <2>1, <2>3, <2>4, <2>5, LimiterAssumption DEF j
  <2>7. PICK t \in S : t <= s - 1 /\ s - 1 < t + Limit
    BY <2>3, <2>6
  <2>8. t \in 1 .. Len(times) /\ t < s /\ i <= t
    BY <2>3, <2>4, <2>6, <2>7, LimiterAssumption
  <2>9. i \in 1 .. Len(times) /\ s \in 1 .. Len(times)
    BY <2>1, <2>3 DEF times
  <2>10. times[i] <= times[t] /\ times[s] >= times[t] + LimitWindow /\ times[s] <= times[j]
    BY <2>3, <2>4, <2>5, <2>8, <2>9
  <2>11. {times[i], times[j], times[s], times[t]} \subseteq Nat
    BY <2>1, <2>4, <2>8, <2>9
  <2>12. times[j] - times[i] >= LimitWindow
    BY <2>10, <2>11, LimiterAssumption
  <2> QED BY <2>12 DEF times, j
<1> QED BY <1>1, LimiterInit, LimiterStep, PTL DEF SpecLimiter

-----------------------------------------------------------------------------
(* RateCache. *)

\* What an entry says of its rate is true.
Entries ==
  {e \in [rate : Nat, fetchedAt : Nat, expiresAt : Nat] :
     e.fetchedAt <= e.rate /\ e.expiresAt = e.fetchedAt + RateLife}

AskedCalls == [pc : {"asked"}, at : Nat, cached : Entries \cup {NoEntry}]

\* The provider reads its market after it was asked.
ReadCalls ==
  {r \in [pc : {"read"}, at : Nat, cached : Entries \cup {NoEntry}, rate : Nat] :
     r.at <= r.rate}

Quotes ==
  {q \in [rate : Nat, fetchedAt : Nat, asked : Nat] :
     q.fetchedAt <= q.rate /\ q.asked < q.fetchedAt + RateLife}

CacheInv ==
  /\ minute \in Nat
  /\ rateCache \in Entries \cup {NoEntry}
  /\ quote \in [Askers -> Quotes \cup {NoEntry}]
  /\ ask \in [Askers -> {NoCall} \cup AskedCalls \cup ReadCalls]
  \* a call was asked before now
  /\ \A a \in Askers : ask[a].pc = "asked" => ask[a].at <= minute

\* No entry, and no call.
LEMMA CacheInit == InitCache => CacheInv
BY DEF InitCache, CacheInv, NoCall

\* A call in progress, by its place.
LEMMA CallByPlace ==
  ASSUME CacheInv, NEW a \in Askers
  PROVE  /\ ask[a].pc = "asked" => ask[a] \in AskedCalls
         /\ ask[a].pc = "read" => ask[a] \in ReadCalls
BY DEF CacheInv, NoCall, AskedCalls, ReadCalls

\* An answer from a true entry, young enough when the call began, is a true quote.
LEMMA AnswerKeeps ==
  ASSUME CacheInv, NEW a \in Askers, NEW e \in Entries, Answered(a, e),
         ask[a].at \in Nat, e.expiresAt > ask[a].at,
         rateCache' \in Entries \cup {NoEntry}
  PROVE  CacheInv'
<1> DEFINE q == [rate |-> e.rate, fetchedAt |-> e.fetchedAt, asked |-> ask[a].at]
<1>1. q \in Quotes
  BY DEF Quotes, Entries
<1>2. quote' = [quote EXCEPT ![a] = q] /\ ask' = [ask EXCEPT ![a] = NoCall]
      /\ minute' = minute
  BY DEF Answered
<1> HIDE DEF q
<1> QED BY <1>1, <1>2 DEF CacheInv, NoCall

\* An answer is stored with the time of its request.
LEMMA CacheStep == CacheInv /\ [NextCache]_cacheVars => CacheInv'
<1> SUFFICES ASSUME CacheInv, [NextCache]_cacheVars PROVE CacheInv'
  OBVIOUS
<1>1. ASSUME NEW a \in Askers, AskRate(a) PROVE CacheInv'
  <2> DEFINE r == [pc |-> "asked", at |-> minute, cached |-> rateCache]
  <2>1. r \in AskedCalls /\ r.at = minute
    BY DEF AskedCalls, CacheInv
  <2>2. ask' = [ask EXCEPT ![a] = r] /\ UNCHANGED <<rateCache, quote, minute>>
    BY <1>1 DEF AskRate
  <2> HIDE DEF r
  <2> QED BY <2>1, <2>2 DEF CacheInv
<1>2. ASSUME NEW a \in Askers, ProviderReads(a) PROVE CacheInv'
  <2> DEFINE r == [pc |-> "read", at |-> ask[a].at, cached |-> ask[a].cached, rate |-> minute]
  <2>1. ask[a] \in AskedCalls /\ ask[a].at <= minute
    BY <1>2, CallByPlace DEF ProviderReads, CacheInv
  <2>2. r \in ReadCalls /\ r.pc = "read"
    BY <2>1 DEF ReadCalls, AskedCalls, CacheInv
  <2>3. ask' = [ask EXCEPT ![a] = r] /\ UNCHANGED <<rateCache, quote, minute>>
    BY <1>2 DEF ProviderReads
  <2> HIDE DEF r
  <2> QED BY <2>2, <2>3 DEF CacheInv
<1>3. ASSUME NEW a \in Askers, FreshRate(a) PROVE CacheInv'
  <2> DEFINE e == Entry(ask[a].rate, ask[a].at)
  <2>1. ask[a] \in ReadCalls
    BY <1>3, CallByPlace DEF FreshRate
  <2>2. ask[a].at \in Nat /\ ask[a].rate \in Nat /\ ask[a].at <= ask[a].rate
    BY <2>1 DEF ReadCalls
  <2>3. e \in Entries /\ e.expiresAt > ask[a].at
    BY <2>2, CacheAssumption DEF Entries, Entry
  <2>4. rateCache' = e /\ Answered(a, e)
    BY <1>3 DEF FreshRate
  <2> HIDE DEF e
  <2> QED BY <2>2, <2>3, <2>4, AnswerKeeps
<1>4. ASSUME NEW a \in Askers, ServeCached(a) PROVE CacheInv'
  <2>1. ask[a].at \in Nat /\ ask[a].cached \in Entries \cup {NoEntry}
    BY <1>4, CallByPlace DEF ServeCached, AskedCalls, ReadCalls
  <2>2. ask[a].cached \in Entries /\ ask[a].cached.expiresAt > ask[a].at
    BY <1>4, <2>1 DEF ServeCached, Unexpired
  <2> QED BY <1>4, <2>1, <2>2, AnswerKeeps DEF ServeCached, CacheInv
<1>5. ASSUME NEW a \in Askers, NoRate(a) PROVE CacheInv'
  BY <1>5 DEF NoRate, CacheInv, NoCall
<1>6. CASE LoseCache
  BY <1>6 DEF LoseCache, CacheInv, NoCall
<1>7. CASE MinutePasses
  <2>1. \A a \in Askers : ask[a].pc = "asked" => ask[a].at \in Nat /\ ask[a].at <= minute
    BY CallByPlace DEF CacheInv, AskedCalls
  <2> QED BY <1>7, <2>1 DEF MinutePasses, CacheInv
<1>8. CASE UNCHANGED cacheVars
  BY <1>8 DEF cacheVars, CacheInv
<1> QED BY <1>1, <1>2, <1>3, <1>4, <1>5, <1>6, <1>7, <1>8 DEF NextCache

\* fetchedAt is taken before the provider is asked and expiresAt is compared with
\* the time the call began, so neither a slow provider nor the order in which
\* the answers reach the cache makes a rate older than it says.
THEOREM RateIsAsYoungAsItSays == SpecCache => []RateIsNoOlderThanItSays
<1>1. CacheInv => RateIsNoOlderThanItSays
  BY DEF CacheInv, Quotes, RateIsNoOlderThanItSays
<1> QED BY <1>1, CacheInit, CacheStep, PTL DEF SpecCache

-----------------------------------------------------------------------------
(* RecoveryPackage. A payload is a function of its properties, so that two *)
(* whose canonical forms are one differ in the order of their keys only.   *)

\* The properties a payload may have.
Fields == {"schema", "network", "texts", "allocated", "funded", "range", "gap",
           "history", "generated", "extra", "order"}

IsPayload(p) == p = [f \in Fields |-> p[f]]

IsSignature(s) ==
  s = [algorithm |-> s.algorithm, key_id |-> s.key_id, encoding |-> s.encoding,
       key |-> s.key, message |-> s.message]

IsPackage(x) == x = [payload |-> x.payload, signature |-> x.signature, extra |-> x.extra]

\* The signature at hand is of something that was signed.
Sealed ==
  \E s \in signed : /\ package.signature.key = s[1]
                    /\ package.signature.message = Canonical(Copy(s[2]))

\* Nothing has been changed since it was signed.
Fresh ==
  \E k \in DOMAIN KeyOf \ {Blank}, p \in {Payload} \cup Changed(Payload) :
    ValidPayload(p) /\ package = SignedBy(k, p)

PackageInv ==
  /\ \A s \in signed : IsPayload(s[2])
  /\ package # NoPackage =>
       /\ IsPackage(package) /\ IsSignature(package.signature) /\ IsPayload(package.payload)
       /\ Sealed
       /\ alterations = 0 => Fresh
  /\ alterations \in Nat

\* A changed payload has the properties a payload has.
LEMMA ChangedIsPayload ==
  ASSUME NEW p, IsPayload(p), NEW q \in Changed(p)
  PROVE  IsPayload(q)
<1>1. DOMAIN p = Fields
  BY DEF IsPayload
<1>2. PICK f \in Fields : \E v : q = [p EXCEPT ![f] = v]
  BY <1>1 DEF Changed
<1>3. PICK v : q = [p EXCEPT ![f] = v]
  BY <1>2
<1>4. q = [x \in Fields |-> IF x = f THEN v ELSE p[x]]
  BY <1>1, <1>3
<1>5. \A x \in Fields : q[x] = IF x = f THEN v ELSE p[x]
  BY <1>4
<1>6. [x \in Fields |-> q[x]] = [x \in Fields |-> IF x = f THEN v ELSE p[x]]
  BY <1>5
<1> QED BY <1>4, <1>6 DEF IsPayload

\* And so has the one there is at first.
LEMMA PayloadIsPayload == IsPayload(Payload)
BY DEF IsPayload, Payload, Fields

\* The order of the keys is the only thing another order changes.
LEMMA OrderedAnew ==
  ASSUME NEW p, IsPayload(p), NEW o
  PROVE  /\ IsPayload([p EXCEPT !.order = o])
         /\ [p EXCEPT !.order = o].order = o
         /\ \A f \in Fields \ {"order"} : [p EXCEPT !.order = o][f] = p[f]
<1>1. DOMAIN p = Fields
  BY DEF IsPayload
<1>2. [p EXCEPT !.order = o] = [x \in Fields |-> IF x = "order" THEN o ELSE p[x]]
  BY <1>1
<1>3. \A x \in Fields : [p EXCEPT !.order = o][x] = IF x = "order" THEN o ELSE p[x]
  BY <1>2
<1>4. [x \in Fields |-> [p EXCEPT !.order = o][x]] = [x \in Fields |-> IF x = "order" THEN o ELSE p[x]]
  BY <1>3
<1>5. "order" \in Fields
  BY DEF Fields
<1> QED BY <1>2, <1>3, <1>4, <1>5 DEF IsPayload

\* The validation does not look at the order of the keys.
LEMMA ValidInAnyOrder ==
  ASSUME NEW p, IsPayload(p), NEW o
  PROVE  ValidPayload([p EXCEPT !.order = o]) <=> ValidPayload(p)
<1> DEFINE q == [p EXCEPT !.order = o]
<1>1. /\ q.schema = p.schema /\ q.network = p.network /\ q.texts = p.texts
      /\ q.allocated = p.allocated /\ q.funded = p.funded /\ q.range = p.range
      /\ q.gap = p.gap /\ q.history = p.history /\ q.generated = p.generated
      /\ q.extra = p.extra
  BY OrderedAnew DEF Fields
<1> HIDE DEF q
<1>2. ValidPayload(q) <=> ValidPayload(p)
  BY <1>1 DEF ValidPayload, HasPrivateMaterial
<1> QED BY <1>2 DEF q

\* A payload is what its properties are.
LEMMA SamePayload ==
  ASSUME NEW p, IsPayload(p), NEW q, IsPayload(q),
         \A f \in Fields : p[f] = q[f]
  PROVE  p = q
BY DEF IsPayload

\* What Copy and Canonical leave as it was, the order aside.
LEMMA CanonicalIs ==
  ASSUME NEW p, IsPayload(p)
  PROVE  /\ IsPayload(Copy(p)) /\ IsPayload(Canonical(p))
         /\ Canonical(p).order = "sorted"
         /\ \A f \in Fields \ {"order"} : Copy(p)[f] = p[f] /\ Canonical(p)[f] = p[f]
<1>1. /\ IsPayload([p EXCEPT !.order = "source"])
      /\ \A f \in Fields \ {"order"} : [p EXCEPT !.order = "source"][f] = p[f]
  BY OrderedAnew
<1>2. /\ IsPayload([p EXCEPT !.order = "sorted"])
      /\ [p EXCEPT !.order = "sorted"].order = "sorted"
      /\ \A f \in Fields \ {"order"} : [p EXCEPT !.order = "sorted"][f] = p[f]
  BY OrderedAnew
<1> QED BY <1>1, <1>2 DEF Copy, Canonical

\* The bytes that are signed: the content in the canonical order.
LEMMA SealIs ==
  ASSUME NEW p, IsPayload(p)
  PROVE  /\ IsPayload(Canonical(Copy(p))) /\ Canonical(Copy(p)).order = "sorted"
         /\ \A f \in Fields \ {"order"} : Canonical(Copy(p))[f] = p[f]
<1>1. PICK c : c = Copy(p)
  OBVIOUS
<1>2. IsPayload(c) /\ \A f \in Fields \ {"order"} : c[f] = p[f]
  BY <1>1, CanonicalIs
<1>3. /\ IsPayload(Canonical(c)) /\ Canonical(c).order = "sorted"
      /\ \A f \in Fields \ {"order"} : Canonical(c)[f] = c[f]
  BY <1>2, CanonicalIs
<1> QED BY <1>1, <1>2, <1>3

\* Canonical forms are of the same bytes only if they have the same content.
LEMMA CanonicalSaysAll ==
  ASSUME NEW p, IsPayload(p), NEW q, IsPayload(q), Canonical(Copy(p)) = Canonical(Copy(q))
  PROVE  SameContent(p, q)
<1>1. \A f \in Fields \ {"order"} : p[f] = q[f]
  <2>1. \A f \in Fields \ {"order"} : Canonical(Copy(p))[f] = p[f]
    BY SealIs
  <2>2. \A f \in Fields \ {"order"} : Canonical(Copy(q))[f] = q[f]
    BY SealIs
  <2> QED BY <2>1, <2>2
<1>2. PICK r : r = [p EXCEPT !.order = q.order]
  OBVIOUS
<1>3. /\ IsPayload([p EXCEPT !.order = q.order])
      /\ [p EXCEPT !.order = q.order].order = q.order
      /\ \A f \in Fields \ {"order"} : [p EXCEPT !.order = q.order][f] = p[f]
  BY OrderedAnew
<1>4. IsPayload(r) /\ \A f \in Fields : r[f] = q[f]
  BY <1>1, <1>2, <1>3
<1> QED BY <1>2, <1>4, SamePayload DEF SameContent

\* And the same content has one canonical form.
LEMMA CanonicalForgetsOrder ==
  ASSUME NEW p, IsPayload(p), NEW q, IsPayload(q), \A f \in Fields \ {"order"} : p[f] = q[f]
  PROVE  Canonical(Copy(p)) = Canonical(Copy(q))
<1>1. PICK c, d : c = Canonical(Copy(p)) /\ d = Canonical(Copy(q))
  OBVIOUS
<1>2. IsPayload(c) /\ c.order = "sorted" /\ \A f \in Fields \ {"order"} : c[f] = p[f]
  BY <1>1, SealIs
<1>3. IsPayload(d) /\ d.order = "sorted" /\ \A f \in Fields \ {"order"} : d[f] = q[f]
  BY <1>1, SealIs
<1>4. \A f \in Fields : c[f] = d[f]
  BY <1>2, <1>3
<1> QED BY <1>1, <1>2, <1>3, <1>4, SamePayload

\* What was signed stays signed.
LEMMA SealedStays ==
  ASSUME Sealed, signed \subseteq signed',
         package'.signature.key = package.signature.key,
         package'.signature.message = package.signature.message
  PROVE  Sealed'
BY DEF Sealed

\* What is signed is a payload, and its package is of the shape and fresh.
LEMMA SigningKeeps == PackageInv /\ SignPackage => PackageInv'
<1> SUFFICES ASSUME PackageInv, SignPackage PROVE PackageInv'
  OBVIOUS
<1>1. PICK k \in DOMAIN KeyOf \ {Blank}, p \in {Payload} \cup Changed(Payload) :
        /\ ValidPayload(p)
        /\ signed' = signed \cup {<<KeyOf[k], p>>}
        /\ package' = SignedBy(k, p)
        /\ alterations' = 0
  BY DEF SignPackage
<1>2. IsPayload(p)
  BY PayloadIsPayload, ChangedIsPayload
<1>3. IsPayload(Copy(p))
  BY <1>2, CanonicalIs
<1>4. /\ package'.payload = Copy(p) /\ package'.signature.key = KeyOf[k]
      /\ package'.signature.message = Canonical(Copy(p))
      /\ IsPackage(package)' /\ IsSignature(package.signature)'
  BY <1>1 DEF SignedBy, IsPackage, IsSignature
<1>5. Sealed'
  <2>1. <<KeyOf[k], p>> \in signed' /\ <<KeyOf[k], p>>[1] = KeyOf[k] /\ <<KeyOf[k], p>>[2] = p
    BY <1>1
  <2> QED BY <1>4, <2>1 DEF Sealed
<1>6. Fresh'
  BY <1>1 DEF Fresh
<1>7. \A s \in signed' : IsPayload(s[2])
  BY <1>1, <1>2 DEF PackageInv
<1> QED BY <1>1, <1>3, <1>4, <1>5, <1>6, <1>7 DEF PackageInv

\* A change on the way leaves a package, whose signature is of something signed.
LEMMA AlteringKeeps ==
  ASSUME PackageInv, package # NoPackage,
         AlterPayload \/ AlterSignature \/ SwapSignature \/ AddProperty
  PROVE  PackageInv'
<1>1. /\ IsPackage(package) /\ IsSignature(package.signature) /\ IsPayload(package.payload)
      /\ Sealed /\ alterations \in Nat /\ \A s \in signed : IsPayload(s[2])
  BY DEF PackageInv
<1>2. signed' = signed /\ alterations' \in Nat /\ alterations' # 0
  <2>1. signed' = signed /\ alterations' = alterations + 1
    <3>1. AlterPayload => signed' = signed /\ alterations' = alterations + 1
      BY DEF AlterPayload, Alters
    <3>2. AlterSignature => signed' = signed /\ alterations' = alterations + 1
      BY DEF AlterSignature, Alters
    <3>3. SwapSignature => signed' = signed /\ alterations' = alterations + 1
      BY DEF SwapSignature, Alters
    <3>4. AddProperty => signed' = signed /\ alterations' = alterations + 1
      BY DEF AddProperty, Alters
    <3> QED BY <3>1, <3>2, <3>3, <3>4
  <2> QED BY <1>1, <2>1
<1>3. PICK x, y : x = package.payload /\ y = package.signature
  OBVIOUS
<1>4. package = [payload |-> x, signature |-> y, extra |-> package.extra]
  BY <1>1, <1>3 DEF IsPackage
<1>5. y = [algorithm |-> y.algorithm, key_id |-> y.key_id, encoding |-> y.encoding,
           key |-> y.key, message |-> y.message]
  BY <1>1, <1>3 DEF IsSignature
<1>6. CASE AlterPayload
  <2>1. PICK p \in Changed(x) : package' = [package EXCEPT !.payload = p]
    BY <1>3, <1>6 DEF AlterPayload, Alters
  <2>2. package' = [payload |-> p, signature |-> y, extra |-> package.extra]
    BY <1>4, <2>1
  <2>3. IsPayload(p)
    BY <1>1, <1>3, ChangedIsPayload
  <2>4. Sealed'
    BY <1>1, <1>2, <1>3, <2>2, SealedStays
  <2>5. IsPackage(package)' /\ IsSignature(package.signature)' /\ IsPayload(package.payload)'
    BY <1>1, <1>3, <2>2, <2>3 DEF IsPackage, IsSignature
  <2> QED BY <1>1, <1>2, <2>4, <2>5 DEF PackageInv
<1>7. CASE AlterSignature
  <2>1. PICK z : /\ package' = [package EXCEPT !.signature = z]
                 /\ \/ \E k : z = [y EXCEPT !.key_id = k]
                    \/ \E e : z = [y EXCEPT !.encoding = e]
                    \/ z = [y EXCEPT !.algorithm = "another"]
    BY <1>3, <1>7 DEF AlterSignature, Alters
  <2>2. package' = [payload |-> x, signature |-> z, extra |-> package.extra]
    BY <1>4, <2>1
  <2>3. /\ z = [algorithm |-> z.algorithm, key_id |-> z.key_id, encoding |-> z.encoding,
                key |-> z.key, message |-> z.message]
        /\ z.key = y.key /\ z.message = y.message
    BY <1>5, <2>1
  <2>4. Sealed'
    BY <1>1, <1>2, <1>3, <2>2, <2>3, SealedStays
  <2>5. IsPackage(package)' /\ IsSignature(package.signature)' /\ IsPayload(package.payload)'
    BY <1>1, <1>3, <2>2, <2>3 DEF IsPackage, IsSignature
  <2> QED BY <1>1, <1>2, <2>4, <2>5 DEF PackageInv
<1>8. CASE SwapSignature
  <2>1. PICK s \in signed :
          package' = [package EXCEPT !.signature.key = s[1],
                                     !.signature.message = Canonical(Copy(s[2]))]
    BY <1>8 DEF SwapSignature, Alters
  <2>2. PICK z : z = [y EXCEPT !.key = s[1], !.message = Canonical(Copy(s[2]))]
    OBVIOUS
  <2>3. package' = [payload |-> x, signature |-> z, extra |-> package.extra]
    BY <1>3, <1>4, <2>1, <2>2
  <2>4. /\ z = [algorithm |-> z.algorithm, key_id |-> z.key_id, encoding |-> z.encoding,
                key |-> z.key, message |-> z.message]
        /\ z.key = s[1] /\ z.message = Canonical(Copy(s[2]))
    BY <1>5, <2>2
  <2>5. Sealed'
    BY <1>2, <2>3, <2>4 DEF Sealed
  <2>6. IsPackage(package)' /\ IsSignature(package.signature)' /\ IsPayload(package.payload)'
    BY <1>1, <1>3, <2>3, <2>4 DEF IsPackage, IsSignature
  <2> QED BY <1>1, <1>2, <2>5, <2>6 DEF PackageInv
<1>9. CASE AddProperty
  <2>1. package' = [payload |-> x, signature |-> y, extra |-> TRUE]
    <3>1. package' = [package EXCEPT !.extra = TRUE]
      BY <1>9 DEF AddProperty, Alters
    <3>2. PICK e : e = TRUE
      OBVIOUS
    <3>3. package' = [package EXCEPT !.extra = e]
      BY <3>1, <3>2
    <3>4. package' = [payload |-> x, signature |-> y, extra |-> e]
      BY <1>4, <3>3
    <3> QED BY <3>2, <3>4, Zenon
  <2>2. Sealed'
    BY <1>1, <1>2, <1>3, <2>1, SealedStays
  <2>3. IsPackage(package)' /\ IsSignature(package.signature)' /\ IsPayload(package.payload)'
    BY <1>1, <1>3, <2>1 DEF IsPackage, IsSignature
  <2> QED BY <1>1, <1>2, <2>2, <2>3 DEF PackageInv
<1> QED BY <1>6, <1>7, <1>8, <1>9

\* A package nobody touched verifies, however its keys are ordered.
LEMMA FreshVerifies ==
  ASSUME Fresh
  PROVE  Verifies(package) /\ Verifies([package EXCEPT !.payload.order = "another"])
<1>1. PICK k \in DOMAIN KeyOf \ {Blank}, p \in {Payload} \cup Changed(Payload) :
        ValidPayload(p) /\ package = SignedBy(k, p)
  BY DEF Fresh
<1>2. IsPayload(p)
  BY PayloadIsPayload, ChangedIsPayload
<1>3. PICK c, d, y : /\ c = Copy(p) /\ d = [c EXCEPT !.order = "another"]
                     /\ y = package.signature
  OBVIOUS
<1>4. IsPayload(c) /\ \A f \in Fields \ {"order"} : c[f] = p[f]
  BY <1>2, <1>3, CanonicalIs
<1>5. IsPayload(d) /\ \A f \in Fields \ {"order"} : d[f] = p[f]
  <2>1. /\ IsPayload([c EXCEPT !.order = "another"])
        /\ \A f \in Fields \ {"order"} : [c EXCEPT !.order = "another"][f] = c[f]
    BY <1>4, OrderedAnew
  <2> QED BY <1>3, <1>4, <2>1
<1>6. Canonical(Copy(c)) = Canonical(c) /\ Canonical(Copy(d)) = Canonical(c)
  <2>1. Canonical(Copy(c)) = Canonical(Copy(p)) /\ Canonical(Copy(d)) = Canonical(Copy(p))
    BY <1>2, <1>4, <1>5, CanonicalForgetsOrder
  <2> QED BY <1>3, <2>1
<1>7. ValidPayload(c) /\ ValidPayload(d)
  <2>1. ValidPayload(c)
    <3>1. ValidPayload([p EXCEPT !.order = "source"])
      BY <1>1, <1>2, ValidInAnyOrder
    <3> QED BY <1>3, <3>1 DEF Copy
  <2>2. ValidPayload([c EXCEPT !.order = "another"])
    BY <1>4, <2>1, ValidInAnyOrder
  <2> QED BY <1>3, <2>1, <2>2
<1>8. package = [payload |-> c, signature |-> y, extra |-> FALSE]
  BY <1>1, <1>3 DEF SignedBy
<1>9. /\ y.algorithm = "Ed25519" /\ y.key_id = k /\ y.encoding = "strict"
      /\ y.key = KeyOf[k] /\ y.message = Canonical(c)
  BY <1>1, <1>3 DEF SignedBy
<1>10. [package EXCEPT !.payload.order = "another"] = [payload |-> d, signature |-> y, extra |-> FALSE]
  <2>1. package.payload = c
    BY <1>8
  <2>2. [package EXCEPT !.payload.order = "another"] = [package EXCEPT !.payload = d]
    BY <1>3, <2>1
  <2>3. PICK e : e = FALSE
    OBVIOUS
  <2>4. package = [payload |-> c, signature |-> y, extra |-> e]
    BY <1>8, <2>3, Zenon
  <2>5. [package EXCEPT !.payload = d] = [payload |-> d, signature |-> y, extra |-> e]
    BY <2>4
  <2> QED BY <2>2, <2>3, <2>5, Zenon
<1>11. ValidSignature(y)
  BY <1>9 DEF ValidSignature
<1>12. Verifies([payload |-> c, signature |-> y, extra |-> FALSE])
  BY <1>1, <1>6, <1>7, <1>9, <1>11 DEF Verifies
<1>13. Verifies([payload |-> d, signature |-> y, extra |-> FALSE])
  BY <1>1, <1>6, <1>7, <1>9, <1>11 DEF Verifies
<1> QED BY <1>8, <1>10, <1>12, <1>13

\* What verifies says what was signed with that key.
LEMMA VerifiedIsSigned ==
  ASSUME PackageInv, package # NoPackage, Verifies(package)
  PROVE  /\ \E s \in signed : /\ s[1] = KeyOf[package.signature.key_id]
                              /\ SameContent(s[2], package.payload)
         /\ package.payload.range.start <= package.payload.range.end
         /\ ~ HasPrivateMaterial(package.payload)
<1>1. PICK s \in signed : /\ package.signature.key = s[1]
                          /\ package.signature.message = Canonical(Copy(s[2]))
  BY DEF PackageInv, Sealed
<1>2. /\ package.signature.key = KeyOf[package.signature.key_id]
      /\ package.signature.message = Canonical(Copy(package.payload))
      /\ ValidPayload(package.payload)
  BY DEF Verifies
<1>3. IsPayload(s[2]) /\ IsPayload(package.payload)
  BY DEF PackageInv
<1>4. SameContent(s[2], package.payload)
  BY <1>1, <1>2, <1>3, CanonicalSaysAll
<1> QED BY <1>1, <1>2, <1>4 DEF ValidPayload, ValidRange

\* Signing covers the canonical form, which keeps everything but the order of the
\* keys: whatever is changed, mixed or swapped on its way, what verifies says what
\* was signed with the key it names, and what was signed verifies.
THEOREM PackagesSayWhatWasSigned == SpecRecovery => []PackagesAreAuthentic
<1>1. InitRecovery => PackageInv
  BY DEF InitRecovery, PackageInv
<1>2. PackageInv /\ [NextRecovery]_recoveryVars => PackageInv'
  <2>1. PackageInv /\ UNCHANGED recoveryVars => PackageInv'
    BY DEF PackageInv, recoveryVars, Sealed, Fresh
  <2> QED BY <2>1, SigningKeeps, AlteringKeeps DEF NextRecovery
<1>3. PackageInv => PackagesAreAuthentic
  BY FreshVerifies, VerifiedIsSigned DEF PackagesAreAuthentic, PackageInv
<1> QED BY <1>1, <1>2, <1>3, PTL DEF SpecRecovery

-----------------------------------------------------------------------------
(* Dashboard: the figures. A figure that is still to be read has a value   *)
(* already, the size of its class in the table as it is now. The sum of    *)
(* all values is right when the request begins, stays as it is when one of *)
(* them is read, and is shifted by one at most by a move.                  *)

RowTypes ==
  [status : {"AWAITING_PAYMENT", "SEEN_IN_MEMPOOL", "CONFIRMING", "CONFIRMED", "EXPIRED"},
   created : Nat, deadline : Nat]

Readings ==
  [pc : {"reading"}, at : Nat, span : Spans, read : UNION {[Q -> Nat] : Q \in SUBSET Queries}]

TableTyped == rows \in Seq(RowTypes) /\ clock \in Nat

FiguresTyped ==
  /\ figures \in {NoFigures, [pc |-> "shown"]} \cup Readings
  /\ moved \in Nat

\* The rows of a table that were created within a span, and those a query selects.
Within(table, span) == {i \in DOMAIN table : table[i].created \in span}

Class(q, table, span, at) == {i \in Within(table, span) : Selects(q, table[i], at)}

Size(q, table, span, at) == Cardinality(Class(q, table, span, at))

\* The one count that selects a row.
Kind(row, at) ==
  CASE row.status = "CONFIRMED" -> "confirmed"
    [] row.status = "EXPIRED" -> "expiredDb"
    [] row.status \in ActiveStatuses /\ row.deadline <= at -> "expiredVirtual"
    [] OTHER -> "active"

\* Of the five counts one selects a row, and no other one.
LEMMA KindIs ==
  ASSUME NEW row \in RowTypes, NEW at \in Nat
  PROVE  /\ Kind(row, at) \in Counts
         /\ \A q \in Counts : Selects(q, row, at) <=> q = Kind(row, at)
<1>1. row.deadline \in Nat /\ row.deadline # NoDeadline
  BY NoDeadlineAssumption DEF RowTypes
<1>2. row.status \in {"AWAITING_PAYMENT", "SEEN_IN_MEMPOOL", "CONFIRMING", "CONFIRMED", "EXPIRED"}
  BY DEF RowTypes
<1>3. CASE row.status = "CONFIRMED"
  BY <1>3 DEF Kind, Counts, Selects, ActiveStatuses
<1>4. CASE row.status = "EXPIRED"
  BY <1>4 DEF Kind, Counts, Selects, ActiveStatuses
<1>5. CASE row.status \in ActiveStatuses /\ row.deadline <= at
  <2>1. Kind(row, at) = "expiredVirtual"
    BY <1>5 DEF Kind, ActiveStatuses
  <2>2. Due(row.deadline, at) /\ ~ Open(row.deadline, at)
    BY <1>1, <1>5 DEF Due, Open
  <2> QED BY <1>1, <1>5, <2>1, <2>2 DEF Counts, Selects, ActiveStatuses
<1>6. CASE row.status \in ActiveStatuses /\ ~ row.deadline <= at
  <2>1. Kind(row, at) = "active"
    BY <1>6 DEF Kind, ActiveStatuses
  <2>2. ~ Due(row.deadline, at) /\ Open(row.deadline, at)
    BY <1>1, <1>6 DEF Due, Open
  <2> QED BY <1>1, <1>6, <2>1, <2>2 DEF Counts, Selects, ActiveStatuses
<1> QED BY <1>2, <1>3, <1>4, <1>5, <1>6 DEF ActiveStatuses

\* The rows of a table are finitely many.
LEMMA ClassFinite ==
  ASSUME NEW table \in Seq(RowTypes), NEW span, NEW at \in Nat, NEW q
  PROVE  /\ IsFiniteSet(Within(table, span)) /\ Cardinality(Within(table, span)) \in Nat
         /\ IsFiniteSet(Class(q, table, span, at)) /\ Size(q, table, span, at) \in Nat
<1>1. DOMAIN table = 1 .. Len(table) /\ Len(table) \in Nat
  OBVIOUS
<1>2. IsFiniteSet(DOMAIN table)
  BY <1>1, FS_Interval
<1>3. IsFiniteSet(Within(table, span))
  BY <1>2, FS_Subset DEF Within
<1>4. IsFiniteSet(Class(q, table, span, at))
  BY <1>3, FS_Subset DEF Class
<1> QED BY <1>3, <1>4, FS_CardinalityType DEF Size

\* Sets without a common element.
LEMMA Together ==
  ASSUME NEW S, NEW T, IsFiniteSet(S), IsFiniteSet(T), S \cap T = {}
  PROVE  IsFiniteSet(S \cup T) /\ Cardinality(S \cup T) = Cardinality(S) + Cardinality(T)
<1>1. Cardinality(S \cap T) = 0
  BY FS_EmptySet
<1> QED BY <1>1, FS_Union, FS_CardinalityType

\* The counts put every row of the span in one class.
LEMMA Partition ==
  ASSUME NEW table \in Seq(RowTypes), NEW span, NEW at \in Nat
  PROVE  Size("confirmed", table, span, at) + Size("active", table, span, at)
           + Size("expiredDb", table, span, at) + Size("expiredVirtual", table, span, at)
           + Size("failed", table, span, at) = Cardinality(Within(table, span))
<1> DEFINE C(q) == Class(q, table, span, at)
<1>1. \A q \in Counts : IsFiniteSet(C(q))
  BY ClassFinite
<1>2. \A i \in Within(table, span) : table[i] \in RowTypes
  BY DEF Within
<1>3. \A q, r \in Counts : q # r => C(q) \cap C(r) = {}
  BY <1>2, KindIs DEF Class
<1>4. Within(table, span)
        = (((C("confirmed") \cup C("active")) \cup C("expiredDb")) \cup C("expiredVirtual"))
            \cup C("failed")
  <2>1. \A i \in Within(table, span) : \E q \in Counts : i \in C(q)
    BY <1>2, KindIs DEF Class
  <2>2. \A q : C(q) \subseteq Within(table, span)
    BY DEF Class
  <2> HIDE DEF C
  <2> QED BY <2>1, <2>2 DEF Counts
<1>5. {"confirmed", "active", "expiredDb", "expiredVirtual", "failed"} \subseteq Counts
  BY DEF Counts
<1> HIDE DEF C
<1>6. /\ IsFiniteSet(C("confirmed") \cup C("active"))
      /\ Cardinality(C("confirmed") \cup C("active"))
           = Cardinality(C("confirmed")) + Cardinality(C("active"))
  BY <1>1, <1>3, <1>5, Together
<1>7. /\ IsFiniteSet((C("confirmed") \cup C("active")) \cup C("expiredDb"))
      /\ Cardinality((C("confirmed") \cup C("active")) \cup C("expiredDb"))
           = Cardinality(C("confirmed") \cup C("active")) + Cardinality(C("expiredDb"))
  <2>1. (C("confirmed") \cup C("active")) \cap C("expiredDb") = {}
    BY <1>3, <1>5
  <2> QED BY <1>1, <1>5, <1>6, <2>1, Together
<1>8. /\ IsFiniteSet(((C("confirmed") \cup C("active")) \cup C("expiredDb")) \cup C("expiredVirtual"))
      /\ Cardinality(((C("confirmed") \cup C("active")) \cup C("expiredDb")) \cup C("expiredVirtual"))
           = Cardinality((C("confirmed") \cup C("active")) \cup C("expiredDb"))
               + Cardinality(C("expiredVirtual"))
  <2>1. ((C("confirmed") \cup C("active")) \cup C("expiredDb")) \cap C("expiredVirtual") = {}
    BY <1>3, <1>5
  <2> QED BY <1>1, <1>5, <1>7, <2>1, Together
<1>9. Cardinality(Within(table, span))
        = Cardinality(((C("confirmed") \cup C("active")) \cup C("expiredDb")) \cup C("expiredVirtual"))
            + Cardinality(C("failed"))
  <2>1. (((C("confirmed") \cup C("active")) \cup C("expiredDb")) \cup C("expiredVirtual"))
          \cap C("failed") = {}
    BY <1>3, <1>5
  <2> QED BY <1>1, <1>4, <1>5, <1>8, <2>1, Together
<1>10. \A q \in Counts : Cardinality(C(q)) \in Nat
  BY <1>1, FS_CardinalityType
<1>11. \A q : Size(q, table, span, at) = Cardinality(C(q))
  BY DEF C, Size
<1> QED BY <1>5, <1>6, <1>7, <1>8, <1>9, <1>10, <1>11

\* The classes of two tables, but for a row that left a and one that joined b.
Shifted(table, more, span, at, a, b) ==
  \A q \in Counts :
    Size(q, more, span, at) + (IF q = a THEN 1 ELSE 0)
      = Size(q, table, span, at) + (IF q = b THEN 1 ELSE 0)

\* A move takes a row of the span from one class to one, and no other one.
LEMMA MoveShifts ==
  ASSUME NEW table \in Seq(RowTypes), NEW more \in Seq(RowTypes), NEW span, NEW at \in Nat,
         NEW n \in DOMAIN table, DOMAIN more = DOMAIN table,
         \A i \in DOMAIN table : more[i].created = table[i].created,
         \A i \in DOMAIN table \ {n} : more[i] = table[i]
  PROVE  /\ Within(more, span) = Within(table, span)
         /\ \E a, b \in Queries : Shifted(table, more, span, at, a, b)
<1>1. Within(more, span) = Within(table, span)
  BY DEF Within
<1>2. CASE n \notin Within(table, span)
  <2>1. \A q \in Counts : Class(q, more, span, at) = Class(q, table, span, at)
    BY <1>1, <1>2 DEF Class, Within
  <2>2. "chart" \in Queries /\ "chart" \notin Counts
    BY DEF Queries, Counts
  <2>3. \A q \in Counts : Size(q, table, span, at) \in Nat
    BY ClassFinite
  <2>4. Shifted(table, more, span, at, "chart", "chart")
    BY <2>1, <2>2, <2>3 DEF Size, Shifted
  <2> QED BY <1>1, <2>2, <2>4
<1>3. CASE n \in Within(table, span)
  <2>1. PICK a, b \in Counts : /\ \A q \in Counts : Selects(q, table[n], at) <=> q = a
                               /\ \A q \in Counts : Selects(q, more[n], at) <=> q = b
    <3>1. table[n] \in RowTypes /\ more[n] \in RowTypes
      OBVIOUS
    <3> QED BY <3>1, KindIs
  <2>2. ASSUME NEW q \in Counts
        PROVE  Size(q, more, span, at) + (IF q = a THEN 1 ELSE 0)
                 = Size(q, table, span, at) + (IF q = b THEN 1 ELSE 0)
    <3> DEFINE rest == Class(q, table, span, at) \ {n}
    <3>1. rest = Class(q, more, span, at) \ {n}
      BY <1>1 DEF Class, Within
    <3>2. /\ n \in Class(q, table, span, at) <=> q = a
          /\ n \in Class(q, more, span, at) <=> q = b
      BY <1>1, <1>3, <2>1 DEF Class
    <3>3. IsFiniteSet(rest) /\ n \notin rest /\ Cardinality(rest) \in Nat
      BY ClassFinite, FS_Subset, FS_CardinalityType
    <3>4. Cardinality(rest \cup {n}) = Cardinality(rest) + 1
      BY <3>3, FS_AddElement
    <3>5. Class(q, table, span, at) = IF q = a THEN rest \cup {n} ELSE rest
      BY <3>2
    <3>6. Class(q, more, span, at) = IF q = b THEN rest \cup {n} ELSE rest
      BY <3>1, <3>2
    <3> HIDE DEF rest
    <3> QED BY <3>3, <3>4, <3>5, <3>6 DEF Size
  <2>3. Counts \subseteq Queries
    BY DEF Queries
  <2>4. Shifted(table, more, span, at, a, b)
    BY <2>2 DEF Shifted
  <2> QED BY <1>1, <2>1, <2>3, <2>4
<1> QED BY <1>2, <1>3

\* A new row joins one class, if it is of the span.
LEMMA NewRowShifts ==
  ASSUME NEW table \in Seq(RowTypes), NEW row \in RowTypes, NEW span, NEW at \in Nat
  PROVE  /\ Cardinality(Within(Append(table, row), span))
              \in {Cardinality(Within(table, span)), Cardinality(Within(table, span)) + 1}
         /\ \E b \in Queries : Shifted(table, Append(table, row), span, at, "chart", b)
<1>1. PICK more, n : more = Append(table, row) /\ n = Len(table) + 1
  OBVIOUS
<1>2. /\ more \in Seq(RowTypes) /\ DOMAIN more = DOMAIN table \cup {n} /\ n \notin DOMAIN table
      /\ more[n] = row /\ \A i \in DOMAIN table : more[i] = table[i]
  BY <1>1
<1>3. /\ \A q : IsFiniteSet(Class(q, table, span, at)) /\ Size(q, table, span, at) \in Nat
      /\ IsFiniteSet(Within(table, span)) /\ Cardinality(Within(table, span)) \in Nat
  BY ClassFinite
<1>4. n \notin Within(table, span) /\ \A q : n \notin Class(q, table, span, at)
  BY <1>2 DEF Within, Class
<1>5. CASE row.created \notin span
  <2>1. Within(more, span) = Within(table, span)
    BY <1>2, <1>5 DEF Within
  <2>2. \A q \in Counts : Class(q, more, span, at) = Class(q, table, span, at)
    BY <1>2, <1>5 DEF Within, Class
  <2>3. "chart" \in Queries /\ "chart" \notin Counts
    BY DEF Queries, Counts
  <2>4. Shifted(table, more, span, at, "chart", "chart")
    BY <1>3, <2>2, <2>3 DEF Size, Shifted
  <2> QED BY <1>1, <2>1, <2>3, <2>4
<1>6. CASE row.created \in span
  <2>1. Within(more, span) = Within(table, span) \cup {n}
    BY <1>2, <1>6 DEF Within
  <2>2. Cardinality(Within(more, span)) = Cardinality(Within(table, span)) + 1
    BY <1>3, <1>4, <2>1, FS_AddElement
  <2>3. PICK b \in Counts : \A q \in Counts : Selects(q, row, at) <=> q = b
    BY KindIs
  <2>4. \A q \in Counts : Class(q, more, span, at)
          = IF q = b THEN Class(q, table, span, at) \cup {n} ELSE Class(q, table, span, at)
    BY <1>2, <1>6, <2>1, <2>3 DEF Class, Within
  <2>5. \A q : Cardinality(Class(q, table, span, at) \cup {n}) = Size(q, table, span, at) + 1
    BY <1>3, <1>4, FS_AddElement DEF Size
  <2>6. \A q \in Counts :
          Size(q, more, span, at) = Size(q, table, span, at) + (IF q = b THEN 1 ELSE 0)
    BY <1>3, <2>4, <2>5 DEF Size
  <2>7. b \in Queries /\ "chart" \notin Counts
    BY DEF Queries, Counts
  <2>8. \A q \in Counts : Size(q, more, span, at) \in Nat
    BY <1>2, ClassFinite
  <2>9. Shifted(table, more, span, at, "chart", b)
    BY <2>6, <2>7, <2>8 DEF Shifted
  <2> QED BY <1>1, <2>2, <2>7, <2>9
<1> QED BY <1>5, <1>6

\* A figure as it was read, or as it would be read now.
Value(q) ==
  IF q \in DOMAIN figures.read THEN figures.read[q] ELSE Size(q, rows, figures.span, figures.at)

Sum ==
  Value("confirmed") + Value("active") + Value("expiredDb") + Value("expiredVirtual")
    + Value("failed")

Started == Cardinality(Within(rows, figures.span))

\* The sum is off by one for each move at most, and right without any.
FiguresHold ==
  figures.pc = "reading" =>
    /\ Sum <= Started + moved /\ Started <= Sum + moved
    /\ moved = 0 =>
         \A q \in DOMAIN figures.read : figures.read[q] = Size(q, rows, figures.span, figures.at)

FiguresInv == TableTyped /\ FiguresTyped /\ FiguresHold

\* A request under way has read figures that are numbers.
LEMMA ReadingIs ==
  ASSUME FiguresTyped, figures.pc = "reading"
  PROVE  /\ figures \in Readings /\ figures.at \in Nat /\ figures.span \in Spans
         /\ DOMAIN figures.read \subseteq Queries
         /\ \A q \in DOMAIN figures.read : figures.read[q] \in Nat
<1>1. figures \in Readings
  BY DEF FiguresTyped, NoFigures
<1>2. PICK Q \in SUBSET Queries : figures.read \in [Q -> Nat]
  BY <1>1 DEF Readings
<1> QED BY <1>1, <1>2 DEF Readings

\* A figure's value is a number, read or not.
LEMMA ValueType ==
  ASSUME TableTyped, FiguresTyped, figures.pc = "reading", NEW q
  PROVE  Value(q) \in Nat
BY ReadingIs, ClassFinite DEF Value, TableTyped

\* The sum after one figure, of those still to be read, went down and one up.
LEMMA SumShifts ==
  ASSUME \A q \in Counts : Value(q) \in Nat /\ Value(q)' \in Nat,
         NEW a, NEW b,
         \A q \in Counts :
           Value(q)' + (IF q = a THEN 1 ELSE 0) = Value(q) + (IF q = b THEN 1 ELSE 0)
  PROVE  /\ Sum \in Nat /\ Sum' \in Nat /\ Sum' <= Sum + 1
         /\ a \notin Counts => Sum <= Sum'
         /\ Sum <= Sum' + 1
<1> DEFINE less(q) == IF q = a THEN 1 ELSE 0
           plus(q) == IF q = b THEN 1 ELSE 0
<1>1. {"confirmed", "active", "expiredDb", "expiredVirtual", "failed"} \subseteq Counts
  BY DEF Counts
<1>2. \A q \in Counts : less(q) \in 0 .. 1 /\ plus(q) \in 0 .. 1
  OBVIOUS
<1>3. less("confirmed") + less("active") + less("expiredDb") + less("expiredVirtual")
        + less("failed") <= 1
  OBVIOUS
<1>4. plus("confirmed") + plus("active") + plus("expiredDb") + plus("expiredVirtual")
        + plus("failed") <= 1
  OBVIOUS
<1>5. a \notin Counts => \A q \in Counts : less(q) = 0
  OBVIOUS
<1>6. \A q \in Counts : Value(q)' + less(q) = Value(q) + plus(q)
  OBVIOUS
<1> HIDE DEF less, plus
<1> QED BY <1>1, <1>2, <1>3, <1>4, <1>5, <1>6 DEF Sum

\* What a move of the payments does to the values, the figures being read.
LEMMA MovesShift ==
  ASSUME TableTyped, FiguresTyped, figures.pc = "reading", PaymentsMove
  PROVE  /\ TableTyped' /\ figures' = figures /\ moved' = moved + 1
         /\ Started \in Nat /\ Started' \in {Started, Started + 1}
         /\ \E a, b \in Queries :
              /\ \A q \in Counts :
                   Value(q)' + (IF q = a THEN 1 ELSE 0) = Value(q) + (IF q = b THEN 1 ELSE 0)
              /\ a \in Counts => Started' = Started
<1>1. PICK span, at, read : span = figures.span /\ at = figures.at /\ read = figures.read
  OBVIOUS
<1>2. figures' = figures /\ moved' = moved + 1
  BY DEF PaymentsMove
<1>3. at \in Nat /\ rows \in Seq(RowTypes) /\ clock \in Nat
  BY <1>1, ReadingIs DEF TableTyped
<1>4. "chart" \in Queries /\ "chart" \notin Counts
  BY DEF Queries, Counts
<1>5. \A q : /\ Value(q) = IF q \in DOMAIN read THEN read[q] ELSE Size(q, rows, span, at)
             /\ Value(q)' = IF q \in DOMAIN read THEN read[q] ELSE Size(q, rows', span, at)
  BY <1>1, <1>2 DEF Value
<1>6. Started = Cardinality(Within(rows, span)) /\ Started' = Cardinality(Within(rows', span))
  BY <1>1, <1>2 DEF Started
<1>7. Started \in Nat /\ \A q : Value(q) \in Nat
  BY <1>3, <1>6, ClassFinite, ValueType
<1>8. CASE CreatePayment
  <2>1. PICK row : row = NewRow(clock)
    OBVIOUS
  <2>2. row \in RowTypes
    BY <1>3, <2>1, TableAssumption DEF NewRow, RowTypes
  <2>3. rows' = Append(rows, row) /\ clock' = clock
    BY <1>8, <2>1 DEF CreatePayment
  <2>4. TableTyped'
    BY <1>3, <2>2, <2>3 DEF TableTyped
  <2>5. Started' \in {Started, Started + 1}
    BY <1>3, <1>6, <2>2, <2>3, NewRowShifts
  <2>6. PICK b \in Queries : Shifted(rows, rows', span, at, "chart", b)
    BY <1>3, <2>2, <2>3, NewRowShifts
  <2>7. PICK c \in Queries : c = IF b \in DOMAIN read THEN "chart" ELSE b
    BY <1>4
  <2>8. \A q \in Counts :
          Value(q)' + (IF q = "chart" THEN 1 ELSE 0) = Value(q) + (IF q = c THEN 1 ELSE 0)
    BY <1>4, <1>5, <1>7, <2>6, <2>7 DEF Shifted
  <2> QED BY <1>2, <1>4, <1>7, <2>4, <2>5, <2>8
<1>9. ASSUME NEW n \in DOMAIN rows, MovePayment(n)
      PROVE  /\ TableTyped' /\ Started' = Started
             /\ \E a, b \in Queries : \A q \in Counts :
                  Value(q)' + (IF q = a THEN 1 ELSE 0) = Value(q) + (IF q = b THEN 1 ELSE 0)
  <2>1. rows[n] \in RowTypes
    BY <1>3
  <2>2. PICK s : s \in Moves(rows[n]) /\ rows' = [rows EXCEPT ![n].status = s] /\ clock' = clock
    BY <1>9 DEF MovePayment
  <2>3. s \in {"AWAITING_PAYMENT", "SEEN_IN_MEMPOOL", "CONFIRMING", "CONFIRMED", "EXPIRED"}
    BY <2>1, <2>2 DEF Moves, HandlerMoves, RowTypes
  <2>4. rows' = [rows EXCEPT ![n] = [rows[n] EXCEPT !.status = s]]
    BY <2>2
  <2>5. /\ [rows[n] EXCEPT !.status = s] \in RowTypes
        /\ [rows[n] EXCEPT !.status = s].created = rows[n].created
    BY <2>1, <2>3 DEF RowTypes
  <2>6. /\ rows' \in Seq(RowTypes) /\ DOMAIN rows' = DOMAIN rows
        /\ \A i \in DOMAIN rows : rows'[i].created = rows[i].created
        /\ \A i \in DOMAIN rows \ {n} : rows'[i] = rows[i]
    BY <1>3, <2>4, <2>5
  <2>7. Within(rows', span) = Within(rows, span)
    BY <2>6 DEF Within
  <2>8. PICK a, b \in Queries : Shifted(rows, rows', span, at, a, b)
    BY <1>3, <2>6, MoveShifts
  <2>9. PICK c, d \in Queries : /\ c = IF a \in DOMAIN read THEN "chart" ELSE a
                                /\ d = IF b \in DOMAIN read THEN "chart" ELSE b
    BY <1>4
  <2>10. \A q \in Counts :
           Value(q)' + (IF q = c THEN 1 ELSE 0) = Value(q) + (IF q = d THEN 1 ELSE 0)
    BY <1>4, <1>5, <1>7, <2>8, <2>9 DEF Shifted
  <2>11. TableTyped'
    BY <1>3, <2>2, <2>6 DEF TableTyped
  <2> QED BY <1>6, <2>7, <2>10, <2>11
<1> QED BY <1>2, <1>7, <1>8, <1>9 DEF PaymentsMove

\* A payment that appears or moves, whether figures are being read or not.
LEMMA MovesHold == FiguresInv /\ PaymentsMove => FiguresInv'
<1> SUFFICES ASSUME TableTyped, FiguresTyped, FiguresHold, PaymentsMove PROVE FiguresInv'
  BY DEF FiguresInv
<1>1. CASE figures.pc = "reading"
  <2>1. /\ TableTyped' /\ figures' = figures /\ moved' = moved + 1 /\ moved \in Nat
        /\ Started \in Nat /\ Started' \in {Started, Started + 1}
    BY <1>1, MovesShift DEF FiguresTyped
  <2>2. PICK a, b \in Queries :
          /\ \A q \in Counts :
               Value(q)' + (IF q = a THEN 1 ELSE 0) = Value(q) + (IF q = b THEN 1 ELSE 0)
          /\ a \in Counts => Started' = Started
    BY <1>1, MovesShift
  <2>3. FiguresTyped'
    BY <2>1 DEF FiguresTyped
  <2>4. \A q \in Counts : Value(q) \in Nat /\ Value(q)' \in Nat
    <3>1. \A q : Value(q) \in Nat
      BY <1>1, ValueType
    <3>2. TableTyped' /\ FiguresTyped' /\ figures'.pc = "reading" => \A q : Value(q)' \in Nat
      <4> SUFFICES ASSUME TableTyped', FiguresTyped', figures'.pc = "reading", NEW q
                   PROVE  Value(q)' \in Nat
        OBVIOUS
      <4>1. figures.at \in Nat /\ \A r \in DOMAIN figures.read : figures.read[r] \in Nat
        BY <1>1, ReadingIs
      <4>2. Size(q, rows', figures.span, figures.at) \in Nat
        BY <4>1, ClassFinite DEF TableTyped
      <4> QED BY <2>1, <4>1, <4>2 DEF Value
    <3> QED BY <1>1, <2>1, <2>3, <3>1, <3>2
  <2>5. /\ Sum \in Nat /\ Sum' \in Nat /\ Sum' <= Sum + 1 /\ Sum <= Sum' + 1
        /\ a \notin Counts => Sum <= Sum'
    BY <2>2, <2>4, SumShifts
  <2>6. Sum <= Started + moved /\ Started <= Sum + moved
    BY <1>1 DEF FiguresHold
  <2>7. Sum' <= Started' + moved' /\ Started' <= Sum' + moved'
    <3>1. PICK x, y, u, v, m : x = Sum /\ y = Sum' /\ u = Started /\ v = Started' /\ m = moved
      OBVIOUS
    <3>2. /\ x \in Nat /\ y \in Nat /\ y <= x + 1 /\ x <= y + 1
          /\ u \in Nat /\ v \in {u, u + 1} /\ m \in Nat /\ x <= u + m /\ u <= x + m
          /\ v = u \/ x <= y
      BY <2>1, <2>2, <2>5, <2>6, <3>1
    <3>3. y <= v + (m + 1) /\ v <= y + (m + 1)
      BY <3>2
    <3> QED BY <2>1, <3>1, <3>3
  <2>8. moved' # 0
    BY <2>1
  <2> QED BY <2>1, <2>3, <2>7, <2>8 DEF FiguresInv, FiguresHold
<1>2. CASE figures.pc # "reading"
  <2>1. figures' = figures /\ moved' = 0
    BY <1>2 DEF PaymentsMove
  <2>2. TableTyped'
    <3>1. CASE CreatePayment
      <4>1. NewRow(clock) \in RowTypes
        BY TableAssumption DEF TableTyped, NewRow, RowTypes
      <4> QED BY <3>1, <4>1 DEF CreatePayment, TableTyped
    <3>2. ASSUME NEW n \in DOMAIN rows, MovePayment(n) PROVE TableTyped'
      <4>1. PICK s : s \in Moves(rows[n]) /\ rows' = [rows EXCEPT ![n].status = s] /\ clock' = clock
        BY <3>2 DEF MovePayment
      <4>2. rows[n] \in RowTypes
        BY DEF TableTyped
      <4>3. s \in {"AWAITING_PAYMENT", "SEEN_IN_MEMPOOL", "CONFIRMING", "CONFIRMED", "EXPIRED"}
        BY <4>1, <4>2 DEF Moves, HandlerMoves, RowTypes
      <4>4. [rows[n] EXCEPT !.status = s] \in RowTypes
        BY <4>2, <4>3 DEF RowTypes
      <4>5. rows' = [rows EXCEPT ![n] = [rows[n] EXCEPT !.status = s]]
        BY <4>1
      <4> QED BY <4>1, <4>4, <4>5 DEF TableTyped
    <3> QED BY <3>1, <3>2 DEF PaymentsMove
  <2> QED BY <1>2, <2>1, <2>2 DEF FiguresInv, FiguresTyped, FiguresHold
<1> QED BY <1>1, <1>2

\* What is read is what would be read: no value changes.
LEMMA QueryHolds ==
  ASSUME FiguresInv, NEW q \in Queries, RunQuery(q)
  PROVE  FiguresInv'
<1> USE DEF FiguresInv
<1>1. PICK span, at, read : span = figures.span /\ at = figures.at /\ read = figures.read
  OBVIOUS
<1>2. /\ figures.pc = "reading" /\ figures \in Readings /\ at \in Nat /\ q \notin DOMAIN read
      /\ DOMAIN read \subseteq Queries /\ \A k \in DOMAIN read : read[k] \in Nat
      /\ UNCHANGED <<rows, clock, moved>>
  BY <1>1, ReadingIs DEF RunQuery, tableVars
<1>3. PICK n : n = Size(q, rows, span, at)
  OBVIOUS
<1>4. n \in Nat
  BY <1>2, <1>3, ClassFinite DEF TableTyped
<1>5. PICK more : more = [k \in DOMAIN read \cup {q} |-> IF k = q THEN n ELSE read[k]]
  OBVIOUS
<1>6. figures' = [figures EXCEPT !.read = more]
  <2>1. {i \in DOMAIN rows : InSpan(rows[i]) /\ Selects(q, rows[i], figures.at)}
          = Class(q, rows, span, at)
    BY <1>1 DEF Class, Within, InSpan
  <2>2. n = Cardinality({i \in DOMAIN rows : InSpan(rows[i]) /\ Selects(q, rows[i], figures.at)})
    BY <1>3, <2>1 DEF Size
  <2> QED BY <1>1, <1>5, <2>2 DEF RunQuery
<1>7. more \in UNION {[Q -> Nat] : Q \in SUBSET Queries}
  <2>1. more \in [DOMAIN read \cup {q} -> Nat] /\ DOMAIN read \cup {q} \in SUBSET Queries
    BY <1>2, <1>4, <1>5
  <2> QED BY <2>1
<1>8. /\ figures' \in Readings /\ figures'.pc = "reading"
      /\ figures'.span = span /\ figures'.at = at /\ figures'.read = more
  BY <1>1, <1>2, <1>6, <1>7 DEF Readings
<1>9. \A k \in DOMAIN more : more[k] = IF k = q THEN n ELSE read[k]
  BY <1>5
<1>10. DOMAIN more = DOMAIN read \cup {q}
  BY <1>5
<1>11. /\ \A k : Value(k) = IF k \in DOMAIN read THEN read[k] ELSE Size(k, rows, span, at)
       /\ \A k : Value(k)' = IF k \in DOMAIN more THEN more[k] ELSE Size(k, rows, span, at)
  BY <1>1, <1>2, <1>8 DEF Value
<1>12. \A k : Value(k)' = Value(k)
  BY <1>2, <1>3, <1>9, <1>10, <1>11
<1>13. Sum' = Sum
  BY <1>12 DEF Sum
<1>14. Started' = Started
  BY <1>1, <1>2, <1>8 DEF Started
<1>15. TableTyped' /\ FiguresTyped'
  BY <1>2, <1>8 DEF TableTyped, FiguresTyped
<1>16. moved' = 0 => \A k \in DOMAIN more : more[k] = Size(k, rows, span, at)
  BY <1>1, <1>2, <1>3, <1>9, <1>10 DEF FiguresHold
<1>17. FiguresHold'
  <2>1. Sum' <= Started' + moved' /\ Started' <= Sum' + moved'
    BY <1>2, <1>13, <1>14 DEF FiguresHold
  <2> QED BY <1>2, <1>8, <1>16, <2>1 DEF FiguresHold
<1> QED BY <1>15, <1>17

\* When nothing is read the values are the classes, which every row of the span
\* is in one of.
LEMMA AskHolds ==
  ASSUME FiguresInv, AskFigures
  PROVE  FiguresInv'
<1> USE DEF FiguresInv
<1>1. PICK span \in Spans :
        figures' = [pc |-> "reading", at |-> clock, span |-> span, read |-> << >>]
  BY DEF AskFigures
<1>2. UNCHANGED <<rows, clock>> /\ moved' = 0 /\ rows \in Seq(RowTypes) /\ clock \in Nat
  BY DEF AskFigures, tableVars, TableTyped
<1>3. figures' \in Readings
  <2>1. << >> \in [{} -> Nat] /\ {} \in SUBSET Queries
    OBVIOUS
  <2> QED BY <1>1, <1>2, <2>1 DEF Readings
<1>4. \A q : Value(q)' = Size(q, rows, span, clock)
  BY <1>1, <1>2 DEF Value
<1>5. Sum' = Started' /\ Started' \in Nat
  <2>1. Started' = Cardinality(Within(rows, span))
    BY <1>1, <1>2 DEF Started
  <2>2. Started' \in Nat
    BY <1>2, <2>1, ClassFinite
  <2>3. Sum' = Cardinality(Within(rows, span))
    BY <1>2, <1>4, Partition DEF Sum
  <2> QED BY <2>1, <2>2, <2>3
<1>6. Sum' <= Started' + moved' /\ Started' <= Sum' + moved'
  <2>1. PICK x : x = Started'
    OBVIOUS
  <2>2. x \in Nat
    BY <1>5, <2>1, Zenon
  <2>3. x <= x + 0
    BY <2>2
  <2> QED BY <1>2, <1>5, <2>1, <2>3, Zenon
<1>7. DOMAIN figures'.read = {}
  BY <1>1
<1> QED BY <1>2, <1>3, <1>6, <1>7 DEF FiguresHold, FiguresTyped, TableTyped

\* Steps that leave the table and the figures alone, the clock aside.
LEMMA FiguresKeep ==
  ASSUME FiguresInv, UNCHANGED <<rows, figures, moved>>, clock' \in Nat
  PROVE  FiguresInv'
<1>1. Sum' = Sum /\ Started' = Started
  BY DEF Sum, Started, Value
<1>2. TableTyped' /\ FiguresTyped'
  BY DEF FiguresInv, TableTyped, FiguresTyped
<1>3. FiguresHold'
  BY <1>1 DEF FiguresInv, FiguresHold
<1> QED BY <1>2, <1>3 DEF FiguresInv

\* Every step keeps the figures' invariant.
LEMMA FiguresStep == FiguresInv /\ [NextFigures \/ NextList]_dashboardVars => FiguresInv'
<1> SUFFICES ASSUME FiguresInv, [NextFigures \/ NextList]_dashboardVars PROVE FiguresInv'
  OBVIOUS
<1>1. clock \in Nat
  BY DEF FiguresInv, TableTyped
<1>2. CASE AskFigures
  BY <1>2, AskHolds
<1>3. CASE \E q \in Queries : RunQuery(q)
  BY <1>3, QueryHolds
<1>4. CASE ShowFigures
  <2>1. UNCHANGED <<rows, clock>> /\ figures' = [pc |-> "shown"] /\ moved' = 0
    BY <1>4 DEF ShowFigures, tableVars
  <2> QED BY <2>1 DEF FiguresInv, TableTyped, FiguresTyped, FiguresHold
<1>5. CASE PaymentsMove
  BY <1>5, MovesHold
<1>6. CASE ClockTicks /\ UNCHANGED <<figures, moved, list>>
  BY <1>1, <1>6, FiguresKeep DEF ClockTicks
<1>7. CASE OpenList \/ LoadMore
  BY <1>1, <1>7, FiguresKeep DEF OpenList, LoadMore, tableVars
<1>8. CASE UNCHANGED dashboardVars
  BY <1>1, <1>8, FiguresKeep DEF dashboardVars, tableVars
<1> QED BY <1>2, <1>3, <1>4, <1>5, <1>6, <1>7, <1>8 DEF NextFigures, NextList

\* No figures are asked for at first.
LEMMA FiguresInit == InitDashboard => FiguresInv
<1> SUFFICES ASSUME InitDashboard PROVE FiguresInv
  OBVIOUS
<1>1. rows = <<NewRow(0)>> /\ clock = 0 /\ figures = NoFigures /\ moved = 0
  BY DEF InitDashboard, InitTable
<1>2. NewRow(0) \in RowTypes
  BY TableAssumption DEF NewRow, RowTypes
<1>3. figures.pc # "reading"
  BY <1>1 DEF NoFigures
<1> QED BY <1>1, <1>2, <1>3 DEF FiguresInv, TableTyped, FiguresTyped, FiguresHold

\* What the list shows of a row is what the counts put it under.
LEMMA KindIsShown ==
  ASSUME NEW row \in RowTypes, NEW at \in Nat
  PROVE  /\ Selects("confirmed", row, at)
              <=> EffectiveStatus(row.status, row.deadline, at) \in {"CONFIRMED"}
         /\ Selects("active", row, at)
              <=> EffectiveStatus(row.status, row.deadline, at) \in ActiveStatuses
         /\ Selects("expiredDb", row, at) \/ Selects("expiredVirtual", row, at)
              <=> EffectiveStatus(row.status, row.deadline, at) \in {"EXPIRED"}
<1>1. row.deadline \in Nat /\ row.deadline # NoDeadline
  BY NoDeadlineAssumption DEF RowTypes
<1>2. row.status \in {"AWAITING_PAYMENT", "SEEN_IN_MEMPOOL", "CONFIRMING", "CONFIRMED", "EXPIRED"}
  BY DEF RowTypes
<1>3. Due(row.deadline, at) <=> ~ Open(row.deadline, at)
  BY <1>1 DEF Due, Open
<1>4. CASE row.status \in ActiveStatuses
  BY <1>1, <1>2, <1>3, <1>4 DEF Selects, EffectiveStatus, ActiveStatuses
<1>5. CASE row.status \notin ActiveStatuses
  BY <1>2, <1>5 DEF Selects, EffectiveStatus, ActiveStatuses
<1> QED BY <1>4, <1>5

\* The figures, when nothing moved, are those of the list.
LEMMA FiguresAreShown ==
  ASSUME TableTyped, FiguresTyped, figures.pc = "reading"
  PROVE  /\ Size("confirmed", rows, figures.span, figures.at) = ShownAs({"CONFIRMED"})
         /\ Size("active", rows, figures.span, figures.at) = ShownAs(ActiveStatuses)
         /\ Size("expiredDb", rows, figures.span, figures.at)
              + Size("expiredVirtual", rows, figures.span, figures.at) = ShownAs({"EXPIRED"})
<1>1. PICK span, at : span = figures.span /\ at = figures.at
  OBVIOUS
<1>2. at \in Nat /\ rows \in Seq(RowTypes)
  BY <1>1, ReadingIs DEF TableTyped
<1>3. \A i \in DOMAIN rows : rows[i] \in RowTypes
  BY <1>2
<1>4. \A S : ShownAs(S)
        = Cardinality({i \in Within(rows, span) :
                         EffectiveStatus(rows[i].status, rows[i].deadline, at) \in S})
  <2> TAKE S
  <2>1. {n \in DOMAIN rows : InSpan(rows[n]) /\ Shown(n, figures.at) \in S}
          = {i \in Within(rows, span) :
               EffectiveStatus(rows[i].status, rows[i].deadline, at) \in S}
    BY <1>1 DEF Within, InSpan, Shown
  <2> QED BY <2>1 DEF ShownAs
<1>5. Class("confirmed", rows, span, at)
        = {i \in Within(rows, span) :
             EffectiveStatus(rows[i].status, rows[i].deadline, at) \in {"CONFIRMED"}}
  BY <1>2, <1>3, KindIsShown DEF Class, Within
<1>6. Class("active", rows, span, at)
        = {i \in Within(rows, span) :
             EffectiveStatus(rows[i].status, rows[i].deadline, at) \in ActiveStatuses}
  BY <1>2, <1>3, KindIsShown DEF Class, Within
<1>7. Class("expiredDb", rows, span, at) \cup Class("expiredVirtual", rows, span, at)
        = {i \in Within(rows, span) :
             EffectiveStatus(rows[i].status, rows[i].deadline, at) \in {"EXPIRED"}}
  BY <1>2, <1>3, KindIsShown DEF Class, Within
<1>8. Class("expiredDb", rows, span, at) \cap Class("expiredVirtual", rows, span, at) = {}
  BY <1>2, <1>3, KindIs DEF Class, Within, Counts
<1>9. Cardinality(Class("expiredDb", rows, span, at) \cup Class("expiredVirtual", rows, span, at))
        = Size("expiredDb", rows, span, at) + Size("expiredVirtual", rows, span, at)
  BY <1>2, <1>8, ClassFinite, Together DEF Size
<1> QED BY <1>1, <1>4, <1>5, <1>6, <1>7, <1>9 DEF Size

\* Each move shifts one payment from one class to one other, so the sum of counts
\* taken at different times is off by one for each at most, in either direction;
\* and without a move the figures are what the list shows.
THEOREM FiguresAreRightButForMoves == SpecDashboard => []FiguresErrOnlyByMoves
<1>1. FiguresInv => FiguresErrOnlyByMoves
  <2> SUFFICES ASSUME TableTyped, FiguresTyped, FiguresHold,
                      figures.pc = "reading", DOMAIN figures.read = Queries
               PROVE  FiguresErrOnlyByMoves
    BY DEF FiguresInv, FiguresErrOnlyByMoves
  <2>1. {"confirmed", "active", "expiredDb", "expiredVirtual", "failed", "chart"} \subseteq Queries
    BY DEF Queries, Counts
  <2>2. \A q \in Queries : Value(q) = Figure(q)
    BY DEF Value, Figure
  <2>3. Sum = Figure("confirmed") + Figure("active") + Figure("expiredDb")
                + Figure("expiredVirtual") + Figure("failed")
    BY <2>1, <2>2 DEF Sum
  <2>4. Started = Cardinality({n \in DOMAIN rows : InSpan(rows[n])})
    BY DEF Started, Within, InSpan
  <2>5. moved = 0 =>
          \A q \in Queries : Figure(q) = Size(q, rows, figures.span, figures.at)
    BY DEF FiguresHold, Figure
  <2>6. Size("chart", rows, figures.span, figures.at)
          = Size("confirmed", rows, figures.span, figures.at)
    <3>1. Class("chart", rows, figures.span, figures.at)
            = Class("confirmed", rows, figures.span, figures.at)
      BY DEF Class, Selects
    <3> QED BY <3>1 DEF Size
  <2> QED BY <2>1, <2>3, <2>4, <2>5, <2>6, FiguresAreShown DEF FiguresHold, FiguresErrOnlyByMoves
<1> QED BY <1>1, FiguresInit, FiguresStep, PTL DEF SpecDashboard

-----------------------------------------------------------------------------
(* Dashboard: the list of payments, page by page. A list of a finite set   *)
(* is determined by how many members come before each one; a page starts   *)
(* after a row that stays where it is, since rows are only added in front. *)

\* How many of S come before n in the list.
Rank(S, n) == Cardinality({m \in S : m > n})

\* Ranks go from 0 to one less than the members, the greater member first.
LEMMA RankIs ==
  ASSUME NEW S \in SUBSET Nat, IsFiniteSet(S)
  PROVE  /\ Cardinality(S) \in Nat
         /\ \A n \in S : Rank(S, n) \in 0 .. Cardinality(S) - 1
         /\ \A m, n \in S : m < n => Rank(S, n) < Rank(S, m)
<1>1. Cardinality(S) \in Nat
  BY FS_CardinalityType
<1>2. ASSUME NEW n \in S PROVE Rank(S, n) \in 0 .. Cardinality(S) - 1
  <2> DEFINE above == {m \in S : m > n}
  <2>1. above \subseteq S \ {n}
    OBVIOUS
  <2>2. IsFiniteSet(S \ {n}) /\ Cardinality(S \ {n}) = Cardinality(S) - 1
    BY FS_RemoveElement
  <2>3. Cardinality(above) \in Nat /\ Cardinality(above) <= Cardinality(S) - 1
    BY <2>1, <2>2, FS_Subset, FS_CardinalityType
  <2> HIDE DEF above
  <2>4. Rank(S, n) = Cardinality(above)
    BY DEF Rank, above
  <2> QED BY <1>1, <2>3, <2>4
<1>3. ASSUME NEW m \in S, NEW n \in S, m < n PROVE Rank(S, n) < Rank(S, m)
  <2> DEFINE A == {k \in S : k > n}
             B == {k \in S : k > m}
  <2>1. A \subseteq B \ {n} /\ n \in B
    <3>1. \A k \in S : k \in Nat /\ (k > n => k > m /\ k # n)
      <4> TAKE k \in S
      <4>1. k \in Nat /\ m \in Nat /\ n \in Nat /\ m < n
        BY <1>3
      <4> QED BY <4>1
    <3>2. n > m
      BY <1>3
    <3> QED BY <3>1, <3>2
  <2>2. IsFiniteSet(B)
    BY FS_Subset
  <2>3. IsFiniteSet(B \ {n}) /\ Cardinality(B \ {n}) = Cardinality(B) - 1
    BY <2>1, <2>2, FS_RemoveElement
  <2>4. IsFiniteSet(A) /\ Cardinality(A) <= Cardinality(B \ {n})
    BY <2>1, <2>3, FS_Subset
  <2>5. Cardinality(A) \in Nat /\ Cardinality(B) \in Nat
    BY <2>2, <2>4, FS_CardinalityType
  <2>6. Rank(S, n) = Cardinality(A) /\ Rank(S, m) = Cardinality(B)
    BY DEF Rank
  <2> HIDE DEF A, B
  <2> QED BY <2>3, <2>4, <2>5, <2>6
<1> QED BY <1>1, <1>2, <1>3

\* Each place of the list is some member's.
LEMMA RankOnto ==
  ASSUME NEW S \in SUBSET Nat, IsFiniteSet(S), NEW i \in 1 .. Cardinality(S)
  PROVE  \E n \in S : Rank(S, n) = i - 1
<1> DEFINE T == 0 .. Cardinality(S) - 1
           f == [n \in S |-> Rank(S, n)]
<1>1. Cardinality(S) \in Nat
  BY RankIs
<1>2. IsFiniteSet(T) /\ Cardinality(T) = Cardinality(S)
  <2>1. 0 \in Int /\ Cardinality(S) - 1 \in Int
    BY <1>1
  <2>2. Cardinality(T) = IF 0 > Cardinality(S) - 1 THEN 0 ELSE Cardinality(S) - 1 - 0 + 1
    BY <2>1, FS_Interval
  <2> HIDE DEF T
  <2>3. IsFiniteSet(T)
    BY <2>1, FS_Interval DEF T
  <2> QED BY <1>1, <2>2, <2>3
<1>3. f \in Injection(S, T)
  <2>1. f \in [S -> T]
    BY RankIs
  <2>2. \A m, n \in S : f[m] = f[n] => m = n
    <3> SUFFICES ASSUME NEW m \in S, NEW n \in S, m # n PROVE f[m] # f[n]
      OBVIOUS
    <3>1. m \in Nat /\ n \in Nat /\ Rank(S, m) \in Int /\ Rank(S, n) \in Int
      BY RankIs, <1>1
    <3>2. m < n \/ n < m
      BY <3>1
    <3>3. Rank(S, n) < Rank(S, m) \/ Rank(S, m) < Rank(S, n)
      BY <3>2, RankIs
    <3> QED BY <3>1, <3>3
  <2> QED BY <2>1, <2>2 DEF Injection, IsInjective
<1>4. f \in Surjection(S, T)
  <2>1. Cardinality(S) = Cardinality(T) <=> f \in Surjection(S, T)
    BY <1>2, <1>3, FS_Injection
  <2> QED BY <1>2, <2>1
<1>5. i - 1 \in T
  BY <1>1
<1> QED BY <1>4, <1>5 DEF Surjection

\* Descending lists all members of a finite set, each once, the greatest first.
LEMMA DescendingIs ==
  ASSUME NEW S \in SUBSET Nat, IsFiniteSet(S)
  PROVE  /\ Descending(S) \in Seq(S) /\ Len(Descending(S)) = Cardinality(S)
         /\ Cardinality(S) \in Nat
         /\ \A i \in 1 .. Cardinality(S) : Rank(S, Descending(S)[i]) = i - 1
         /\ \A i, j \in 1 .. Cardinality(S) : i < j => Descending(S)[j] < Descending(S)[i]
<1>1. Cardinality(S) \in Nat
  BY RankIs
<1>2. PICK D : D = Descending(S)
  OBVIOUS
<1>3. D = [i \in 1 .. Cardinality(S) |-> CHOOSE n \in S : Rank(S, n) = i - 1]
  BY <1>2 DEF Descending, Rank
<1>4. ASSUME NEW i \in 1 .. Cardinality(S) PROVE D[i] \in S /\ Rank(S, D[i]) = i - 1
  <2>1. \E n \in S : Rank(S, n) = i - 1
    BY RankOnto
  <2> QED BY <1>3, <2>1
<1>5. D \in Seq(S) /\ Len(D) = Cardinality(S)
  <2>1. D \in [1 .. Cardinality(S) -> S]
    BY <1>3, <1>4
  <2> QED BY <1>1, <2>1
<1>6. ASSUME NEW i \in 1 .. Cardinality(S), NEW j \in 1 .. Cardinality(S), i < j
      PROVE  D[j] < D[i]
  <2>1. D[i] \in S /\ D[j] \in S /\ Rank(S, D[i]) = i - 1 /\ Rank(S, D[j]) = j - 1
    BY <1>4
  <2>2. Rank(S, D[i]) < Rank(S, D[j]) /\ i - 1 \in Int /\ j - 1 \in Int
    BY <1>6, <2>1
  <2>3. D[i] \in Nat /\ D[j] \in Nat
    BY <2>1
  <2>4. ~ D[i] < D[j]
    <3>1. D[i] < D[j] => Rank(S, D[j]) < Rank(S, D[i])
      BY <2>1, RankIs
    <3> QED BY <1>6, <2>1, <2>2, <3>1
  <2>5. D[i] # D[j]
    BY <2>1, <2>2
  <2> QED BY <2>3, <2>4, <2>5
<1> QED BY <1>1, <1>2, <1>4, <1>5, <1>6

\* An interval from 1 is listed down from its end.
LEMMA DescendingInterval ==
  ASSUME NEW c \in Nat
  PROVE  /\ Cardinality(1 .. c) = c /\ IsFiniteSet(1 .. c)
         /\ \A i \in 1 .. c : Descending(1 .. c)[i] = c + 1 - i
<1>1. IsFiniteSet(1 .. c) /\ Cardinality(1 .. c) = c
  BY FS_Interval
<1>2. ASSUME NEW i \in 1 .. c PROVE Descending(1 .. c)[i] = c + 1 - i
  <2>1. PICK n : n = Descending(1 .. c)[i]
    OBVIOUS
  <2>2. n \in 1 .. c /\ Rank(1 .. c, n) = i - 1
    BY <1>1, <2>1, DescendingIs
  <2>3. {m \in 1 .. c : m > n} = n + 1 .. c
    BY <2>2
  <2>4. Cardinality(n + 1 .. c) = IF n + 1 > c THEN 0 ELSE c - (n + 1) + 1
    BY <2>2, FS_Interval
  <2>5. i - 1 = IF n + 1 > c THEN 0 ELSE c - (n + 1) + 1
    BY <2>2, <2>3, <2>4 DEF Rank
  <2> QED BY <2>1, <2>2, <2>5
<1> QED BY <1>1, <1>2

\* What a query takes: rows further down, in their order, and all there are
\* without a filter.
LEMMA TakenIs ==
  ASSUME NEW wanted, NEW cursor \in Nat, Len(rows) \in Nat, DOMAIN rows = 1 .. Len(rows),
         cursor <= Len(rows)
  PROVE  /\ Taken(wanted, cursor) \in Seq(Nat)
         /\ \A i \in 1 .. Len(Taken(wanted, cursor)) :
              /\ Taken(wanted, cursor)[i] \in 1 .. Len(rows)
              /\ cursor # 0 => Taken(wanted, cursor)[i] < cursor
         /\ \A i, j \in 1 .. Len(Taken(wanted, cursor)) :
              i < j => Taken(wanted, cursor)[j] < Taken(wanted, cursor)[i]
         /\ LET start == IF cursor = 0 THEN Len(rows) + 1 ELSE cursor
            IN wanted = {} =>
                 /\ \A i \in 1 .. Len(Taken(wanted, cursor)) :
                      Taken(wanted, cursor)[i] = start - i
                 /\ Len(Taken(wanted, cursor)) <= PageLimit =>
                      Len(Taken(wanted, cursor)) = start - 1
<1>1. PICK S, found, skip, K, taken :
        /\ S = Matching(wanted, cursor)
        /\ found = Descending(S)
        /\ skip = IF cursor = 0 THEN 0 ELSE 1
        /\ K = IF Len(found) < skip THEN 0
               ELSE IF Len(found) - skip <= PageLimit THEN Len(found) - skip ELSE PageLimit + 1
        /\ taken = Taken(wanted, cursor)
  OBVIOUS
<1>2. PageLimit \in Nat /\ PageLimit > 0
  BY DashboardAssumption
<1>3. S \subseteq 1 .. Len(rows) /\ S \in SUBSET Nat /\ IsFiniteSet(S)
  <2>1. S \subseteq 1 .. Len(rows)
    BY <1>1 DEF Matching
  <2>2. IsFiniteSet(1 .. Len(rows))
    BY FS_Interval
  <2>3. IsFiniteSet(S)
    BY <2>1, <2>2, FS_Subset
  <2>4. \A n \in S : n \in Nat
    BY <2>1
  <2> QED BY <2>1, <2>3, <2>4
<1>4. cursor # 0 => \A n \in S : n <= cursor
  BY <1>1 DEF Matching
<1>5. /\ found \in Seq(S) /\ Len(found) = Cardinality(S) /\ Len(found) \in Nat
      /\ \A i, j \in 1 .. Len(found) : i < j => found[j] < found[i]
  BY <1>1, <1>3, DescendingIs
<1>6. \A i \in 1 .. Len(found) : found[i] \in S
  BY <1>5
<1>7. skip \in {0, 1} /\ K \in Nat
  BY <1>1, <1>2, <1>5
<1>8. {j \in 1 .. PageLimit + 1 : skip + j <= Len(found)} = 1 .. K
  BY <1>1, <1>2, <1>5, <1>7
<1>9. taken = [i \in 1 .. K |-> found[skip + i]]
  <2>1. taken = [i \in {j \in 1 .. PageLimit + 1 : skip + j <= Len(found)} |-> found[skip + i]]
    BY <1>1 DEF Taken
  <2> QED BY <1>8, <2>1
<1>10. \A i \in 1 .. K : skip + i \in 1 .. Len(found)
  BY <1>1, <1>2, <1>5, <1>7
<1>11. \A i \in 1 .. K : taken[i] = found[skip + i] /\ taken[i] \in S
  BY <1>6, <1>9, <1>10
<1>12. taken \in Seq(Nat) /\ Len(taken) = K
  <2>1. taken \in [1 .. K -> Nat]
    BY <1>3, <1>9, <1>11
  <2> QED BY <1>7, <2>1
<1>13. ASSUME NEW i \in 1 .. K
       PROVE  taken[i] \in 1 .. Len(rows) /\ (cursor # 0 => taken[i] < cursor)
  <2>1. taken[i] \in 1 .. Len(rows)
    BY <1>3, <1>11
  <2>2. CASE cursor # 0
    <3>1. skip = 1 /\ 1 \in 1 .. Len(found) /\ skip + i \in 1 .. Len(found) /\ 1 < skip + i
      BY <1>1, <1>5, <1>10, <2>2
    <3>2. found[skip + i] < found[1] /\ found[1] \in S
      BY <1>5, <1>6, <3>1
    <3>3. found[1] <= cursor /\ found[1] \in Nat
      BY <1>3, <1>4, <2>2, <3>2
    <3> QED BY <1>11, <2>1, <3>2, <3>3
  <2> QED BY <2>1, <2>2
<1>14. ASSUME NEW i \in 1 .. K, NEW j \in 1 .. K, i < j PROVE taken[j] < taken[i]
  <2>1. skip + i < skip + j
    BY <1>7, <1>14
  <2> QED BY <1>5, <1>10, <1>11, <2>1
<1>15. ASSUME wanted = {}, NEW start, start = IF cursor = 0 THEN Len(rows) + 1 ELSE cursor
       PROVE  /\ \A i \in 1 .. K : taken[i] = start - i
              /\ K <= PageLimit => K = start - 1
  <2>1. PICK c \in Nat : c = IF cursor = 0 THEN Len(rows) ELSE cursor
    OBVIOUS
  <2>2. S = 1 .. c
    <3>1. S = {n \in 1 .. Len(rows) : cursor # 0 => n <= cursor}
      BY <1>1, <1>15 DEF Matching
    <3>2. CASE cursor = 0
      BY <2>1, <3>1, <3>2
    <3>3. CASE cursor # 0
      <4>1. S = {n \in 1 .. Len(rows) : n <= cursor}
        BY <3>1, <3>3
      <4>2. \A n : n \in 1 .. Len(rows) /\ n <= cursor <=> n \in 1 .. cursor
        OBVIOUS
      <4> QED BY <2>1, <3>3, <4>1, <4>2
    <3> QED BY <3>2, <3>3
  <2>3. Len(found) = c /\ \A i \in 1 .. c : found[i] = c + 1 - i
    BY <1>1, <1>5, <2>2, DescendingInterval
  <2>4. start = c + 1 - skip
    <3>1. CASE cursor = 0
      <4>1. skip = 0 /\ c = Len(rows) /\ start = Len(rows) + 1
        BY <1>1, <1>15, <2>1, <3>1
      <4> QED BY <4>1
    <3>2. CASE cursor # 0
      <4>1. skip = 1 /\ c = cursor /\ start = cursor
        BY <1>1, <1>15, <2>1, <3>2
      <4> QED BY <4>1
    <3> QED BY <3>1, <3>2
  <2>5. \A i \in 1 .. K : taken[i] = start - i
    <3> TAKE i \in 1 .. K
    <3>1. taken[i] = c + 1 - (skip + i)
      BY <1>10, <1>11, <2>3
    <3> QED BY <1>7, <2>4, <3>1
  <2>6. skip <= c
    <3>1. CASE cursor = 0
      BY <1>1, <3>1
    <3>2. CASE cursor # 0
      <4>1. skip = 1 /\ c = cursor
        BY <1>1, <2>1, <3>2
      <4> QED BY <3>2, <4>1
    <3> QED BY <3>1, <3>2
  <2>7. K <= PageLimit => K = c - skip
    BY <1>1, <1>2, <1>7, <2>3, <2>6
  <2> QED BY <1>7, <2>4, <2>5, <2>7
<1> QED BY <1>1, <1>12, <1>13, <1>14, <1>15

\* The page is what was taken without the row too many, and the cursor its last.
LEMMA PageIs ==
  ASSUME NEW taken \in Seq(Nat)
  PROVE  /\ PageOf(taken) \in Seq(Nat)
         /\ Len(PageOf(taken)) \in Nat /\ Len(PageOf(taken)) <= Len(taken)
         /\ \A i \in 1 .. Len(PageOf(taken)) : PageOf(taken)[i] = taken[i]
         /\ Len(taken) > PageLimit => /\ Len(PageOf(taken)) = PageLimit
                                      /\ NextCursor(taken) = PageOf(taken)[PageLimit]
         /\ Len(taken) <= PageLimit => Len(PageOf(taken)) = Len(taken) /\ NextCursor(taken) = 0
<1>1. PageLimit \in Nat /\ PageLimit > 0 /\ Len(taken) \in Nat
  BY DashboardAssumption
<1>2. CASE Len(taken) > PageLimit
  <2>1. PageOf(taken) = SubSeq(taken, 1, PageLimit) /\ NextCursor(taken) = taken[PageLimit]
    BY <1>2 DEF PageOf, NextCursor
  <2>2. SubSeq(taken, 1, PageLimit) = [i \in 1 .. PageLimit |-> taken[i]]
    <3>1. SubSeq(taken, 1, PageLimit) = [i \in 1 .. PageLimit - 1 + 1 |-> taken[i + 1 - 1]]
      BY <1>1
    <3> QED BY <1>1, <3>1
  <2>3. PageOf(taken) \in [1 .. PageLimit -> Nat]
    <3>1. \A i \in 1 .. PageLimit : taken[i] \in Nat
      BY <1>1, <1>2
    <3> QED BY <2>1, <2>2, <3>1
  <2> QED BY <1>1, <1>2, <2>1, <2>2, <2>3
<1>3. CASE Len(taken) <= PageLimit
  <2>1. PageOf(taken) = taken /\ NextCursor(taken) = 0
    BY <1>1, <1>3 DEF PageOf, NextCursor
  <2> QED BY <1>1, <1>3, <2>1
<1> QED BY <1>1, <1>2, <1>3

\* The first row a page can begin after.
Start(cursor) == IF cursor = 0 THEN Len(rows) + 1 ELSE cursor

\* A page and its cursor, in terms of the cursor it was asked for with.
PageHolds(wanted, cursor, p, next) ==
  /\ p \in Seq(Nat) /\ next \in Nat
  /\ \A i \in 1 .. Len(p) : p[i] \in 1 .. Len(rows) /\ (cursor # 0 => p[i] < cursor)
  /\ \A i \in 2 .. Len(p) : p[i] < p[i - 1]
  /\ next # 0 => Len(p) > 0 /\ next = p[Len(p)]
  /\ wanted = {} => /\ \A i \in 1 .. Len(p) : p[i] = Start(cursor) - i
                    /\ next = 0 => Len(p) = Start(cursor) - 1

\* A page holds what follows its cursor, and its own cursor is its last row.
LEMMA PageFollows ==
  ASSUME TableTyped, NEW wanted, NEW cursor \in Nat, cursor <= Len(rows)
  PROVE  PageHolds(wanted, cursor, PageOf(Taken(wanted, cursor)), NextCursor(Taken(wanted, cursor)))
<1>1. PICK taken, p, next : /\ taken = Taken(wanted, cursor)
                            /\ p = PageOf(taken) /\ next = NextCursor(taken)
  OBVIOUS
<1>2. Len(rows) \in Nat /\ DOMAIN rows = 1 .. Len(rows)
  BY DEF TableTyped
<1>3. PageLimit \in Nat /\ PageLimit > 0
  BY DashboardAssumption
<1>4. /\ taken \in Seq(Nat) /\ Len(taken) \in Nat
      /\ \A i \in 1 .. Len(taken) : taken[i] \in 1 .. Len(rows) /\ (cursor # 0 => taken[i] < cursor)
      /\ \A i, j \in 1 .. Len(taken) : i < j => taken[j] < taken[i]
  BY <1>1, <1>2, TakenIs
<1>5. wanted = {} => /\ \A i \in 1 .. Len(taken) : taken[i] = Start(cursor) - i
                     /\ Len(taken) <= PageLimit => Len(taken) = Start(cursor) - 1
  BY <1>1, <1>2, TakenIs DEF Start
<1>6. /\ p \in Seq(Nat) /\ Len(p) \in Nat /\ Len(p) <= Len(taken)
      /\ \A i \in 1 .. Len(p) : p[i] = taken[i]
      /\ Len(taken) > PageLimit => Len(p) = PageLimit /\ next = p[PageLimit]
      /\ Len(taken) <= PageLimit => Len(p) = Len(taken) /\ next = 0
  BY <1>1, <1>4, PageIs
<1>7. \A i \in 1 .. Len(p) : i \in 1 .. Len(taken)
  BY <1>4, <1>6
<1>8. \A i \in 1 .. Len(p) : p[i] \in 1 .. Len(rows) /\ (cursor # 0 => p[i] < cursor)
  BY <1>4, <1>6, <1>7
<1>9. \A i \in 2 .. Len(p) : p[i] < p[i - 1]
  <2> TAKE i \in 2 .. Len(p)
  <2>1. i \in 1 .. Len(p) /\ i - 1 \in 1 .. Len(p) /\ i - 1 < i
    BY <1>6
  <2> QED BY <1>4, <1>6, <1>7, <2>1
<1>10. next \in Nat /\ (next # 0 => Len(p) > 0 /\ next = p[Len(p)])
       /\ (next = 0 => Len(taken) <= PageLimit)
  <2>1. CASE Len(taken) > PageLimit
    <3>1. Len(p) = PageLimit /\ next = p[PageLimit] /\ PageLimit \in 1 .. Len(p)
      BY <1>3, <1>6, <2>1
    <3>2. next \in 1 .. Len(rows)
      BY <1>8, <3>1
    <3> QED BY <1>2, <1>3, <3>1, <3>2
  <2>2. CASE Len(taken) <= PageLimit
    BY <1>6, <2>2
  <2> QED BY <1>3, <1>4, <2>1, <2>2
<1>11. wanted = {} => /\ \A i \in 1 .. Len(p) : p[i] = Start(cursor) - i
                      /\ next = 0 => Len(p) = Start(cursor) - 1
  BY <1>5, <1>6, <1>7, <1>10
<1>12. PageHolds(wanted, cursor, p, next)
  BY <1>6, <1>8, <1>9, <1>10, <1>11 DEF PageHolds
<1> QED BY <1>1, <1>12

\* The list on the page, and what its cursor is.
ItemsHold(wanted, items, next) ==
  /\ items \in Seq(Nat) /\ next \in Nat
  /\ \A i \in 1 .. Len(items) : items[i] \in 1 .. Len(rows)
  /\ \A i \in 2 .. Len(items) : items[i] < items[i - 1]
  /\ next # 0 => Len(items) > 0 /\ next = items[Len(items)]
  /\ wanted = {} /\ Len(items) > 0 =>
       /\ \A i \in 2 .. Len(items) : items[i] = items[i - 1] - 1
       /\ next = 0 => items[Len(items)] = 1

ListHolds ==
  /\ list = [wanted |-> list.wanted, items |-> list.items, next |-> list.next]
  /\ ItemsHold(list.wanted, list.items, list.next)

\* The table only grows.
LEMMA ItemsStay ==
  ASSUME TableTyped, TableTyped', Len(rows) <= Len(rows'), NEW wanted, NEW items, NEW next,
         ItemsHold(wanted, items, next)
  PROVE  ItemsHold(wanted, items, next)'
<1>1. Len(rows) \in Nat /\ Len(rows') \in Nat
  BY DEF TableTyped
<1>2. \A i \in 1 .. Len(items) : items[i] \in 1 .. Len(rows')
  <2> TAKE i \in 1 .. Len(items)
  <2>1. items[i] \in 1 .. Len(rows)
    BY DEF ItemsHold
  <2> QED BY <1>1, <2>1
<1> QED BY <1>2 DEF ItemsHold

\* The first page of a list.
LEMMA OpenedHolds ==
  ASSUME TableTyped, NEW wanted, NEW p, NEW next, PageHolds(wanted, 0, p, next)
  PROVE  ItemsHold(wanted, p, next)
<1>1. Len(rows) \in Nat /\ Len(p) \in Nat
  BY DEF TableTyped, PageHolds
<1>2. ASSUME wanted = {}, Len(p) > 0
      PROVE  /\ \A i \in 2 .. Len(p) : p[i] = p[i - 1] - 1
             /\ next = 0 => p[Len(p)] = 1
  <2>1. \A i \in 1 .. Len(p) : p[i] = Len(rows) + 1 - i
    BY <1>2 DEF PageHolds, Start
  <2>2. \A i \in 2 .. Len(p) : p[i] = p[i - 1] - 1
    <3> TAKE i \in 2 .. Len(p)
    <3>1. i \in 1 .. Len(p) /\ i - 1 \in 1 .. Len(p)
      BY <1>1
    <3>2. p[i] = Len(rows) + 1 - i /\ p[i - 1] = Len(rows) + 1 - (i - 1)
      BY <2>1, <3>1
    <3> QED BY <1>1, <3>2
  <2>3. next = 0 => p[Len(p)] = 1
    <3>1. next = 0 => Len(p) = Len(rows)
      BY <1>1, <1>2 DEF PageHolds, Start
    <3>2. p[Len(p)] = Len(rows) + 1 - Len(p)
      BY <1>1, <1>2, <2>1
    <3> QED BY <1>1, <3>1, <3>2
  <2> QED BY <2>2, <2>3
<1> QED BY <1>2 DEF PageHolds, ItemsHold

\* One more page behind those there are.
LEMMA MoreHolds ==
  ASSUME TableTyped, NEW wanted, NEW items, NEW cursor, NEW p, NEW next,
         ItemsHold(wanted, items, cursor), cursor # 0, PageHolds(wanted, cursor, p, next)
  PROVE  ItemsHold(wanted, items \o p, next)
<1>1. PICK n, k, all : n = Len(items) /\ k = Len(p) /\ all = items \o p
  OBVIOUS
<1>2. /\ items \in Seq(Nat) /\ p \in Seq(Nat) /\ n \in Nat /\ k \in Nat /\ n > 0
      /\ cursor = items[n] /\ cursor \in Nat /\ next \in Nat /\ Len(rows) \in Nat
  BY <1>1 DEF ItemsHold, PageHolds, TableTyped
<1>3. /\ all \in Seq(Nat) /\ Len(all) = n + k
      /\ \A i \in 1 .. n : all[i] = items[i]
      /\ \A i \in 1 .. k : all[n + i] = p[i]
  BY <1>1, <1>2
<1>4. \A i \in 1 .. n + k : i \in 1 .. n \/ \E j \in 1 .. k : i = n + j
  <2> TAKE i \in 1 .. n + k
  <2>1. i <= n \/ (i - n \in 1 .. k /\ i = n + (i - n))
    BY <1>2
  <2> QED BY <1>2, <2>1
<1>5. \A i \in 1 .. n + k : all[i] \in 1 .. Len(rows)
  BY <1>1, <1>3, <1>4 DEF ItemsHold, PageHolds
<1>6. \A i \in 2 .. n + k :
        \/ i \in 2 .. n /\ all[i] = items[i] /\ all[i - 1] = items[i - 1]
        \/ 1 \in 1 .. k /\ all[i] = p[1] /\ all[i - 1] = cursor
        \/ \E j \in 2 .. k : all[i] = p[j] /\ all[i - 1] = p[j - 1]
  <2> TAKE i \in 2 .. n + k
  <2>1. CASE i <= n
    <3>1. i \in 2 .. n /\ i \in 1 .. n /\ i - 1 \in 1 .. n
      BY <1>2, <2>1
    <3> QED BY <1>3, <3>1
  <2>2. CASE i = n + 1
    <3>1. 1 \in 1 .. k /\ n \in 1 .. n /\ i - 1 = n
      BY <1>2, <2>2
    <3> QED BY <1>2, <1>3, <2>2, <3>1
  <2>3. CASE i > n + 1
    <3>1. PICK j : j = i - n
      OBVIOUS
    <3>2. j \in 2 .. k /\ j \in 1 .. k /\ j - 1 \in 1 .. k /\ i = n + j /\ i - 1 = n + (j - 1)
      BY <1>2, <2>3, <3>1
    <3> QED BY <1>3, <3>2
  <2> QED BY <1>2, <2>1, <2>2, <2>3
<1>7. \A i \in 2 .. n + k : all[i] < all[i - 1]
  <2>1. 1 \in 1 .. k => p[1] < cursor
    BY <1>1 DEF PageHolds
  <2>2. \A i \in 2 .. n : items[i] < items[i - 1]
    BY <1>1 DEF ItemsHold
  <2>3. \A j \in 2 .. k : p[j] < p[j - 1]
    BY <1>1 DEF PageHolds
  <2> QED BY <1>6, <2>1, <2>2, <2>3
<1>8. next # 0 => Len(all) > 0 /\ next = all[Len(all)]
  <2>1. next # 0 => k > 0 /\ next = p[k]
    BY <1>1 DEF PageHolds
  <2>2. k > 0 => k \in 1 .. k /\ n + k > 0
    BY <1>2
  <2> QED BY <1>3, <2>1, <2>2
<1>9. ASSUME wanted = {}
      PROVE  /\ \A i \in 2 .. n + k : all[i] = all[i - 1] - 1
             /\ next = 0 => all[n + k] = 1
  <2>1. /\ \A j \in 1 .. k : p[j] = cursor - j
        /\ next = 0 => k = cursor - 1
    BY <1>1, <1>9 DEF PageHolds, Start
  <2>2. \A i \in 2 .. n : items[i] = items[i - 1] - 1
    BY <1>1, <1>2, <1>9 DEF ItemsHold
  <2>3. \A j \in 2 .. k : p[j] = p[j - 1] - 1
    <3> TAKE j \in 2 .. k
    <3>1. j \in 1 .. k /\ j - 1 \in 1 .. k
      BY <1>2
    <3>2. p[j] = cursor - j /\ p[j - 1] = cursor - (j - 1)
      BY <2>1, <3>1
    <3> QED BY <1>2, <3>2
  <2>4. \A i \in 2 .. n + k : all[i] = all[i - 1] - 1
    <3>1. 1 \in 1 .. k => p[1] = cursor - 1
      BY <2>1
    <3> QED BY <1>6, <2>2, <2>3, <3>1
  <2>5. next = 0 => all[n + k] = 1
    <3>1. CASE k = 0
      <4>1. n + k = n /\ n \in 1 .. n
        BY <1>2, <3>1
      <4>2. all[n + k] = cursor
        BY <1>2, <1>3, <4>1
      <4>3. next = 0 => cursor = 1
        BY <1>2, <2>1, <3>1
      <4> QED BY <4>2, <4>3
    <3>2. CASE k # 0
      <4>1. k \in 1 .. k
        BY <1>2, <3>2
      <4>2. all[n + k] = cursor - k
        BY <1>3, <2>1, <4>1
      <4> QED BY <1>2, <2>1, <4>2
    <3> QED BY <3>1, <3>2
  <2> QED BY <2>4, <2>5
<1> QED BY <1>1, <1>2, <1>3, <1>5, <1>7, <1>8, <1>9 DEF ItemsHold

\* Every step leaves the table as long as it was or longer.
LEMMA TableGrows ==
  ASSUME TableTyped, [NextFigures \/ NextList]_dashboardVars
  PROVE  Len(rows) <= Len(rows')
<1>1. Len(rows) \in Nat /\ rows \in Seq(RowTypes)
  BY DEF TableTyped
<1>2. CASE UNCHANGED rows
  BY <1>1, <1>2
<1>3. CASE CreatePayment
  <2>1. rows' = Append(rows, NewRow(clock))
    BY <1>3 DEF CreatePayment
  <2>2. NewRow(clock) \in RowTypes
    BY TableAssumption DEF TableTyped, NewRow, RowTypes
  <2> QED BY <1>1, <2>1, <2>2
<1>4. ASSUME NEW n \in DOMAIN rows, MovePayment(n) PROVE Len(rows) <= Len(rows')
  <2>1. PICK r : rows' = [rows EXCEPT ![n] = r]
    BY <1>4 DEF MovePayment
  <2>2. Len(rows') = Len(rows)
    BY <1>1, <2>1
  <2> QED BY <1>1, <2>2
<1> QED BY <1>2, <1>3, <1>4
    DEF NextFigures, NextList, AskFigures, RunQuery, ShowFigures, PaymentsMove, ClockTicks,
        OpenList, LoadMore, dashboardVars, tableVars

\* Every step keeps what the list is: pages follow each other, the table grows.
LEMMA ListStep ==
  FiguresInv /\ FiguresInv' /\ ListHolds /\ [NextFigures \/ NextList]_dashboardVars => ListHolds'
<1> SUFFICES ASSUME TableTyped, TableTyped', ListHolds, [NextFigures \/ NextList]_dashboardVars
             PROVE  ListHolds'
  BY DEF FiguresInv
<1>1. CASE UNCHANGED list
  <2>1. Len(rows) <= Len(rows')
    BY TableGrows
  <2> QED BY <1>1, <2>1, ItemsStay DEF ListHolds
<1>2. CASE OpenList
  <2>1. PICK wanted, p, next :
          /\ list' = [wanted |-> wanted, items |-> p, next |-> next]
          /\ p = PageOf(Taken(wanted, 0)) /\ next = NextCursor(Taken(wanted, 0))
    BY <1>2 DEF OpenList
  <2>2. rows' = rows /\ 0 \in Nat /\ 0 <= Len(rows)
    BY <1>2 DEF OpenList, tableVars, TableTyped
  <2>3. ItemsHold(wanted, p, next)
    BY <2>1, <2>2, PageFollows, OpenedHolds
  <2>4. ItemsHold(wanted, p, next)'
    BY <2>2, <2>3 DEF ItemsHold
  <2> QED BY <2>1, <2>4 DEF ListHolds
<1>3. CASE LoadMore
  <2>1. PICK wanted, items, cursor, p, next :
          /\ wanted = list.wanted /\ items = list.items /\ cursor = list.next
          /\ p = PageOf(Taken(wanted, cursor)) /\ next = NextCursor(Taken(wanted, cursor))
    OBVIOUS
  <2>2. /\ cursor # 0 /\ rows' = rows
        /\ list' = [list EXCEPT !.items = @ \o p, !.next = next]
    BY <1>3, <2>1 DEF LoadMore, tableVars
  <2>3. list = [wanted |-> wanted, items |-> items, next |-> cursor]
    BY <2>1 DEF ListHolds
  <2>4. list' = [wanted |-> wanted, items |-> items \o p, next |-> next]
    BY <2>2, <2>3
  <2>5. ItemsHold(wanted, items, cursor)
    BY <2>1 DEF ListHolds
  <2>6. cursor \in Nat /\ cursor <= Len(rows)
    <3>1. cursor \in Nat /\ Len(items) \in Nat /\ Len(items) > 0 /\ cursor = items[Len(items)]
      BY <2>2, <2>5 DEF ItemsHold
    <3>2. Len(items) \in 1 .. Len(items)
      BY <3>1
    <3>3. cursor \in 1 .. Len(rows)
      BY <2>5, <3>1, <3>2 DEF ItemsHold
    <3> QED BY <3>1, <3>3 DEF TableTyped
  <2>7. ItemsHold(wanted, items \o p, next)
    BY <2>1, <2>2, <2>5, <2>6, PageFollows, MoreHolds
  <2>8. ItemsHold(wanted, items \o p, next)'
    BY <2>2, <2>7 DEF ItemsHold
  <2> QED BY <2>4, <2>8 DEF ListHolds
<1> QED BY <1>1, <1>2, <1>3
    DEF NextFigures, NextList, AskFigures, RunQuery, ShowFigures, PaymentsMove, ClockTicks,
        dashboardVars

\* A page begins after the last row of the one before, which is never removed, so
\* whatever appears or moves in between, no row is shown twice, and none is left
\* out of a list without a filter.
THEOREM ListsAreComplete == SpecDashboard => []ListHasNoGaps
<1>1. InitDashboard => ListHolds
  <2> SUFFICES ASSUME InitDashboard PROVE ListHolds
    OBVIOUS
  <2>1. list = [wanted |-> {}, items |-> << >>, next |-> 0]
    BY DEF InitDashboard
  <2> QED BY <2>1 DEF ListHolds, ItemsHold
<1>2. ListHolds => ListHasNoGaps
  <2> SUFFICES ASSUME ListHolds PROVE ListHasNoGaps
    OBVIOUS
  <2>1. list.items \in Seq(Nat) /\ (list.items # << >> => Len(list.items) > 0)
    BY DEF ListHolds, ItemsHold
  <2> QED BY <2>1 DEF ListHolds, ItemsHold, ListHasNoGaps
<1>3. FiguresInv /\ [NextFigures \/ NextList]_dashboardVars => FiguresInv'
  BY FiguresStep
<1> QED BY <1>1, <1>2, <1>3, FiguresInit, ListStep, PTL DEF SpecDashboard

=============================================================================
