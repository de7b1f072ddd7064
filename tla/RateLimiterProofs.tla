------------------------- MODULE RateLimiterProofs -------------------------
(***************************************************************************)
(* Theorems about the rate limiter, for any identities, any limit, window  *)
(* and resolution of the clock, and however many requests arrive when.     *)
(***************************************************************************)
EXTENDS RateLimiter, FiniteSetTheorems, TLAPS

USE LimitAssumption, WindowAssumption, TickAssumption, BoundAssumption

(* Requests of i let through in the present window of its bucket, in the    *)
(* Window - 1 ticks before that window, and in the Window ticks up to t.    *)
Current(i) == {x \in served[i] : x[1] >= start[i]}
Before(i) == {x \in served[i] : x[1] < start[i] /\ x[1] > start[i] - Window}
UpTo(i, t) == {x \in served[i] : x[1] =< t /\ x[1] > t - Window}

(* History: what was let through lies in the past and before the end of the *)
(* present window, and the hits of a tick are numbered.                     *)
HistoryInv ==
    \A i \in Identities :
        /\ start[i] =< now
        /\ i \notin started => served[i] = {} /\ retryAt[i] = -1
        /\ \A x \in served[i] : /\ x[1] =< now
                                /\ x[1] < start[i] + Window
                                /\ x[1] = now => x[2] =< hits[i]

(* The present window let through what it counted, up to the limit, and     *)
(* the ticks a window's length before it belong to one earlier window.      *)
CountInv ==
    \A i \in Identities :
        /\ i \in started =>
              Cardinality(Current(i)) = IF count[i] =< Limit THEN count[i] ELSE Limit
        /\ Cardinality(Before(i)) =< Limit

(* A refused client was told a time after the end of the window it hit, and *)
(* at most a second after it.                                               *)
RetryInv ==
    \A i \in Identities : retryAt[i] # -1 =>
        /\ retryAt[i] > start[i] + Window
        /\ retryAt[i] =< start[i] + Window + PerSecond

LimiterInv == TypeOK /\ HistoryInv /\ CountInv /\ BurstBound /\ RetryInv

(* A window is a positive number of ticks. *)
LEMMA WindowType == Window \in Nat \ {0}
  BY DEF Window

(* The history of an identity, and with it every part of it, is finite. *)
LEMMA HistoryFinite ==
  ASSUME TypeOK, NEW i \in Identities, NEW S \in SUBSET served[i]
  PROVE  IsFiniteSet(S) /\ Cardinality(S) \in Nat
<1>1. IsFiniteSet(Times \X (1 .. MaxHits))
  <2>1. IsFiniteSet(0 .. MaxTime) /\ IsFiniteSet(1 .. MaxHits)
    BY FS_Interval
  <2> QED
    BY <2>1, FS_Product DEF Times
<1>2. S \in SUBSET (Times \X (1 .. MaxHits))
  BY DEF TypeOK
<1>3. IsFiniteSet(S)
  BY <1>1, <1>2, FS_Subset
<1> QED
  BY <1>3, FS_CardinalityType

(* A quotient rounded down, and one more, enclose a number. *)
LEMMA Quotient ==
  ASSUME NEW a \in Int, NEW b \in Nat \ {0}
  PROVE  /\ a \div b \in Int
         /\ (a \div b) * b =< a
         /\ a < (a \div b + 1) * b
  OBVIOUS

(* int(window - elapsed) + 1 whole seconds end after the window, and at     *)
(* most a second after it.                                                  *)
LEMMA RetryAfterBounds ==
  ASSUME TypeOK, NEW i \in Identities
  PROVE  /\ now + RetryAfter(i) \in Int
         /\ now + RetryAfter(i) > NewStart(i) + Window
         /\ now + RetryAfter(i) =< NewStart(i) + Window + PerSecond
<1> DEFINE a == Window - (now - NewStart(i))
<1>1. a \in Int /\ now \in Int /\ NewStart(i) \in Int
  BY WindowType DEF TypeOK, NewStart, Times
<1>2. RetryAfter(i) = (a \div PerSecond + 1) * PerSecond
  BY DEF RetryAfter
<1> HIDE DEF a
<1>3. /\ a \div PerSecond \in Int
      /\ (a \div PerSecond) * PerSecond =< a
      /\ a < (a \div PerSecond + 1) * PerSecond
  BY <1>1, Quotient
<1>4. (a \div PerSecond + 1) * PerSecond = (a \div PerSecond) * PerSecond + PerSecond
  BY <1>3
<1>5. a = Window - (now - NewStart(i))
  BY DEF a
<1>6. /\ RetryAfter(i) \in Int
      /\ RetryAfter(i) > a
      /\ RetryAfter(i) =< a + PerSecond
  BY <1>1, <1>2, <1>3, <1>4
<1> QED
  BY <1>1, <1>5, <1>6, WindowType

-----------------------------------------------------------------------------
(* The invariant holds initially. *)
LEMMA InitInv == Init => LimiterInv
<1> SUFFICES ASSUME Init PROVE LimiterInv
  OBVIOUS
<1>1. TypeOK
  BY DEF Init, TypeOK, Times
<1>2. HistoryInv /\ RetryInv
  BY DEF Init, HistoryInv, RetryInv
<1>3. CountInv
  <2>1. ASSUME NEW i \in Identities PROVE i \notin started /\ Before(i) = {}
    BY DEF Init, Before
  <2> QED
    BY <2>1, FS_EmptySet DEF CountInv
<1>4. BurstBound
  <2>1. ASSUME NEW i \in Identities, NEW t \in Times PROVE UpTo(i, t) = {}
    BY DEF Init, UpTo
  <2> QED
    BY <2>1, FS_EmptySet DEF BurstBound, ServedUpTo, UpTo
<1> QED
  BY <1>1, <1>2, <1>3, <1>4 DEF LimiterInv

(* The passing of time keeps the invariant. *)
LEMMA TickInv ==
  ASSUME LimiterInv, Tick
  PROVE  LimiterInv'
<1>1. TypeOK'
  BY DEF LimiterInv, TypeOK, Tick, Times
<1>2. HistoryInv' /\ RetryInv'
  BY <1>1 DEF LimiterInv, HistoryInv, RetryInv, TypeOK, Tick, Times
<1>3. ASSUME NEW i \in Identities
      PROVE  /\ Current(i)' = Current(i)
             /\ Before(i)' = Before(i)
             /\ \A t : ServedUpTo(i, t)' = ServedUpTo(i, t)
  BY DEF Tick, Current, Before, ServedUpTo
<1> QED
  BY <1>1, <1>2, <1>3 DEF LimiterInv, CountInv, BurstBound, Tick

(* A hit keeps the types. *)
LEMMA HitTypeOK ==
  ASSUME TypeOK, NEW i \in Identities, Hit(i)
  PROVE  TypeOK'
<1>1. NewStart(i) \in Times /\ NewCount(i) \in Nat
  BY DEF TypeOK, NewStart, NewCount
<1>2. now + RetryAfter(i) \in Int
  BY RetryAfterBounds
<1>3. hits'[i] \in 1 .. MaxHits /\ hits' \in [Identities -> 0 .. MaxHits]
  BY DEF Hit, TypeOK
<1>4. /\ served' \in [Identities -> SUBSET (Times \X (1 .. MaxHits))]
      /\ retryAt' \in [Identities -> Int]
  <2>1. CASE Allowed(i)
    <3>1. <<now, hits[i] + 1>> \in Times \X (1 .. MaxHits)
      BY <1>3 DEF Hit, TypeOK
    <3> QED
      BY <2>1, <3>1 DEF Allowed, TypeOK
  <2>2. CASE Refused(i)
    BY <1>2, <2>2 DEF Refused, TypeOK
  <2> QED
    BY <2>1, <2>2 DEF Hit
<1> QED
  BY <1>1, <1>3, <1>4 DEF Hit, TypeOK

(* A hit of i leaves the other identities as they were. *)
LEMMA HitFrame ==
  ASSUME TypeOK, NEW i \in Identities, Hit(i), NEW j \in Identities, j # i
  PROVE  /\ start'[j] = start[j] /\ count'[j] = count[j]
         /\ served'[j] = served[j] /\ hits'[j] = hits[j]
         /\ retryAt'[j] = retryAt[j]
         /\ (j \in started' <=> j \in started)
  BY DEF TypeOK, Hit, Allowed, Refused

(* What a hit does to the bucket of its identity. *)
LEMMA HitBucket ==
  ASSUME TypeOK, NEW i \in Identities, Hit(i)
  PROVE  /\ start'[i] = NewStart(i) /\ count'[i] = NewCount(i)
         /\ hits'[i] = hits[i] + 1
         /\ i \in started'
         /\ now' = now
         /\ \/ /\ NewCount(i) =< Limit
               /\ served'[i] = served[i] \cup {<<now, hits[i] + 1>>}
               /\ retryAt'[i] = -1
            \/ /\ NewCount(i) > Limit
               /\ served'[i] = served[i]
               /\ retryAt'[i] = now + RetryAfter(i)
  BY DEF TypeOK, Hit, Allowed, Refused

(* A hit falls into the window it is counted in. *)
LEMMA HitWithinWindow ==
  ASSUME TypeOK, HistoryInv, NEW i \in Identities
  PROVE  /\ NewStart(i) \in Nat /\ now \in Nat /\ start[i] \in Nat
         /\ start[i] =< NewStart(i) /\ NewStart(i) =< now
         /\ now < NewStart(i) + Window
  BY WindowType DEF TypeOK, HistoryInv, NewStart, Expired, Times

(* What the window of a hit had let through before it: nothing when the hit *)
(* opens the window.                                                        *)
LEMMA KeptCount ==
  ASSUME LimiterInv, NEW i \in Identities
  PROVE  Cardinality({x \in served[i] : x[1] >= NewStart(i)})
            = IF NewCount(i) =< Limit THEN NewCount(i) - 1 ELSE Limit
<1> DEFINE Kept == {x \in served[i] : x[1] >= NewStart(i)}
<1>0. TypeOK /\ HistoryInv /\ CountInv /\ count[i] \in Nat
  BY DEF LimiterInv, TypeOK
<1>1. CASE Expired(i)
  <2>1. ASSUME NEW x \in served[i] PROVE x[1] \in Int /\ x[1] < now
    BY <1>0, <1>1, WindowType DEF TypeOK, HistoryInv, Expired, Times
  <2>2. Kept = {}
    BY <1>0, <1>1, <2>1 DEF NewStart, TypeOK, Times
  <2> QED
    BY <1>1, <2>2, FS_EmptySet DEF NewCount
<1>2. CASE ~Expired(i)
  <2>1. Kept = Current(i)
    BY <1>2 DEF NewStart, Current
  <2>2. Cardinality(Current(i)) = IF count[i] =< Limit THEN count[i] ELSE Limit
    BY <1>0, <1>2 DEF CountInv, Expired
  <2>3. NewCount(i) = count[i] + 1
    BY <1>2 DEF NewCount
  <2>4. Cardinality(Kept) = IF NewCount(i) =< Limit THEN NewCount(i) - 1 ELSE Limit
    <3> HIDE DEF Kept
    <3> QED
      BY <1>0, <2>1, <2>2, <2>3
  <2> QED
    BY <2>4
<1> QED
  BY <1>1, <1>2

(* A hit keeps the history in order. *)
LEMMA HitHistory ==
  ASSUME LimiterInv, NEW i \in Identities, Hit(i)
  PROVE  HistoryInv' /\ RetryInv'
<1>0. TypeOK /\ HistoryInv /\ RetryInv /\ now' = now
  BY HitBucket DEF LimiterInv
<1> SUFFICES ASSUME NEW j \in Identities
             PROVE  /\ start'[j] =< now
                    /\ j \notin started' => served'[j] = {} /\ retryAt'[j] = -1
                    /\ \A x \in served'[j] : /\ x[1] =< now
                                             /\ x[1] < start'[j] + Window
                                             /\ x[1] = now => x[2] =< hits'[j]
                    /\ retryAt'[j] # -1 =>
                          /\ retryAt'[j] > start'[j] + Window
                          /\ retryAt'[j] =< start'[j] + Window + PerSecond
  BY <1>0 DEF HistoryInv, RetryInv
<1>1. CASE j # i
  BY <1>0, <1>1, HitFrame DEF HistoryInv, RetryInv
<1>2. CASE j = i
  <2>1. /\ start'[i] = NewStart(i) /\ hits'[i] = hits[i] + 1 /\ i \in started'
        /\ served'[i] \subseteq served[i] \cup {<<now, hits[i] + 1>>}
        /\ retryAt'[i] \in {-1, now + RetryAfter(i)}
    BY <1>0, HitBucket
  <2>2. ASSUME NEW x \in served[i]
        PROVE  /\ x[1] =< now
               /\ x[1] < NewStart(i) + Window
               /\ x[1] = now => x[2] =< hits[i] + 1
    <3>1. x[1] \in Nat /\ x[2] \in Nat /\ hits[i] \in Nat
      BY <1>0 DEF TypeOK, Times
    <3>2. x[1] < start[i] + Window /\ x[1] =< now /\ (x[1] = now => x[2] =< hits[i])
      BY <1>0 DEF HistoryInv
    <3> QED
      BY <1>0, <3>1, <3>2, HitWithinWindow, WindowType
  <2>3. hits[i] \in Nat
    BY <1>0 DEF TypeOK
  <2> QED
    BY <1>0, <1>2, <2>1, <2>2, <2>3, HitWithinWindow, RetryAfterBounds
<1> QED
  BY <1>1, <1>2

(* A hit counts what it lets through, and what the window before it let     *)
(* through is counted there.                                                *)
LEMMA HitCount ==
  ASSUME LimiterInv, NEW i \in Identities, Hit(i)
  PROVE  CountInv'
<1>0. TypeOK /\ HistoryInv /\ CountInv /\ now' = now
  BY HitBucket DEF LimiterInv
<1>1. ASSUME NEW j \in Identities, j # i
      PROVE  /\ Current(j)' = Current(j) /\ Before(j)' = Before(j)
             /\ count'[j] = count[j] /\ (j \in started' <=> j \in started)
  BY <1>0, <1>1, HitFrame DEF Current, Before
<1> DEFINE N == <<now, hits[i] + 1>>
           Kept == {x \in served[i] : x[1] >= NewStart(i)}
<1>2. /\ start'[i] = NewStart(i) /\ count'[i] = NewCount(i) /\ i \in started'
      /\ \/ NewCount(i) =< Limit /\ served'[i] = served[i] \cup {N}
         \/ NewCount(i) > Limit /\ served'[i] = served[i]
  BY <1>0, HitBucket
<1>3. N \notin served[i]
  BY <1>0 DEF HistoryInv, TypeOK
<1>4. /\ NewStart(i) \in Nat /\ now \in Nat /\ start[i] \in Nat
      /\ start[i] =< NewStart(i) /\ NewStart(i) =< now
      /\ now < NewStart(i) + Window
  BY <1>0, HitWithinWindow
<1>5. /\ IsFiniteSet(Kept) /\ Kept \subseteq served[i]
      /\ Cardinality(Kept) = IF NewCount(i) =< Limit THEN NewCount(i) - 1 ELSE Limit
  BY <1>0, KeptCount, HistoryFinite
<1>6. NewCount(i) \in Nat
  BY <1>0 DEF NewCount, TypeOK
<1>7. Cardinality(Current(i)') = IF NewCount(i) =< Limit THEN NewCount(i) ELSE Limit
  <2>1. CASE NewCount(i) =< Limit /\ served'[i] = served[i] \cup {N}
    <3>1. Current(i)' = Kept \cup {N}
      BY <1>2, <1>4, <2>1 DEF Current
    <3>2. Cardinality(Kept \cup {N}) = Cardinality(Kept) + 1
      BY <1>3, <1>5, FS_AddElement
    <3> QED
      BY <1>5, <1>6, <2>1, <3>1, <3>2
  <2>2. CASE NewCount(i) > Limit /\ served'[i] = served[i]
    <3>1. Current(i)' = Kept
      BY <1>2, <2>2 DEF Current
    <3> QED
      BY <1>5, <1>6, <2>2, <3>1
  <2> QED
    BY <1>2, <2>1, <2>2
<1>8. Cardinality(Before(i)') =< Limit
  <2>1. CASE Expired(i)
    <3>1. Before(i)' \subseteq Current(i)
      BY <1>0, <1>2, <1>4, <2>1, WindowType
         DEF Before, Current, Expired, NewStart, HistoryInv, TypeOK, Times
    <3>2. IsFiniteSet(Current(i)) /\ Cardinality(Current(i)) \in Nat
      BY <1>0, HistoryFinite DEF Current
    <3>3. IsFiniteSet(Before(i)') /\ Cardinality(Before(i)') =< Cardinality(Current(i))
      BY <3>1, <3>2, FS_Subset
    <3>4. CASE i \in started
      <4>1. Cardinality(Current(i)) =< Limit
        BY <1>0, <3>4 DEF CountInv, TypeOK
      <4>2. Cardinality(Before(i)') \in Nat
        BY <3>3, FS_CardinalityType
      <4> QED
        BY <3>2, <3>3, <4>1, <4>2
    <3>5. CASE i \notin started
      <4>1. Before(i)' = {}
        BY <1>0, <3>1, <3>5 DEF HistoryInv, Current
      <4> QED
        BY <4>1, FS_EmptySet
    <3> QED
      BY <3>4, <3>5
  <2>2. CASE ~Expired(i)
    <3>1. Before(i)' = Before(i)
      BY <1>2, <1>4, <2>2 DEF Before, NewStart
    <3> QED
      BY <1>0, <3>1 DEF CountInv
  <2> QED
    BY <2>1, <2>2
<1>9. ASSUME NEW j \in Identities
      PROVE  /\ j \in started' =>
                   Cardinality(Current(j)') = IF count'[j] =< Limit THEN count'[j] ELSE Limit
             /\ Cardinality(Before(j)') =< Limit
  <2>1. CASE j = i
    BY <1>2, <1>7, <1>8, <2>1
  <2>2. CASE j # i
    <3>1. /\ j \in started =>
               Cardinality(Current(j)) = IF count[j] =< Limit THEN count[j] ELSE Limit
          /\ Cardinality(Before(j)) =< Limit
      BY <1>0 DEF CountInv
    <3>2. /\ Current(j)' = Current(j) /\ Before(j)' = Before(j)
          /\ count'[j] = count[j] /\ (j \in started' <=> j \in started)
      BY <1>1, <2>2
    <3> QED
      BY <3>1, <3>2
  <2> QED
    BY <2>1, <2>2
<1> QED
  BY <1>9 DEF CountInv

(* A hit keeps the bound on bursts: ticks a window's length apart belong to *)
(* the present window or to the one before it.                              *)
LEMMA HitBurst ==
  ASSUME LimiterInv, CountInv', TypeOK', NEW i \in Identities, Hit(i)
  PROVE  BurstBound'
<1>0. TypeOK /\ HistoryInv /\ BurstBound /\ now' = now
  BY HitBucket DEF LimiterInv
<1> SUFFICES ASSUME NEW j \in Identities, NEW t \in Times
             PROVE  Cardinality(UpTo(j, t)') =< 2 * Limit
  BY DEF BurstBound, ServedUpTo, UpTo
<1>1. Cardinality(UpTo(j, t)) =< 2 * Limit
  BY <1>0 DEF BurstBound, ServedUpTo, UpTo
<1> DEFINE N == <<now, hits[i] + 1>>
<1>2. /\ start'[i] = NewStart(i) /\ i \in started'
      /\ served'[i] \in {served[i], served[i] \cup {N}}
  BY <1>0, HitBucket
<1>3. CASE j # i \/ served'[j] = served[j] \/ now > t \/ now =< t - Window
  <2>1. UpTo(j, t)' = UpTo(j, t)
    <3>1. CASE served'[j] = served[j]
      BY <3>1 DEF UpTo
    <3>2. CASE served'[j] # served[j]
      <4>1. j = i /\ served'[j] = served[j] \cup {N}
        BY <1>0, <1>2, <3>2, HitFrame
      <4> QED
        BY <1>0, <1>3, <3>2, <4>1, WindowType DEF UpTo, TypeOK, Times
    <3> QED
      BY <3>1, <3>2
  <2> QED
    BY <1>1, <2>1
<1>4. CASE j = i /\ now =< t /\ now > t - Window
  <2>1. UpTo(i, t)' \subseteq Current(i)' \cup Before(i)'
    <3>1. /\ NewStart(i) \in Nat /\ now \in Nat /\ t \in Nat
          /\ NewStart(i) =< now
      BY <1>0, HitWithinWindow DEF Times
    <3>2. \A x \in served'[i] : x[1] \in Nat
      BY DEF TypeOK, Times
    <3> QED
      BY <1>2, <1>4, <3>1, <3>2, WindowType DEF UpTo, Current, Before
  <2>2. /\ IsFiniteSet(Current(i)') /\ Cardinality(Current(i)') \in Nat
        /\ IsFiniteSet(Before(i)') /\ Cardinality(Before(i)') \in Nat
    <3>1. \A S \in SUBSET served'[i] : IsFiniteSet(S) /\ Cardinality(S) \in Nat
      <4>1. IsFiniteSet(0 .. MaxTime) /\ IsFiniteSet(1 .. MaxHits)
        BY FS_Interval
      <4>2. IsFiniteSet(Times \X (1 .. MaxHits))
        BY <4>1, FS_Product DEF Times
      <4> QED
        BY <4>2, FS_Subset, FS_CardinalityType DEF TypeOK
    <3> QED
      BY <3>1 DEF Current, Before
  <2>3. Cardinality(Current(i)') =< Limit /\ Cardinality(Before(i)') =< Limit
    BY <1>2 DEF CountInv, TypeOK
  <2>4. Cardinality(Current(i)' \cup Before(i)') =< 2 * Limit
    <3>1. /\ IsFiniteSet(Current(i)' \cup Before(i)')
          /\ Cardinality(Current(i)' \cup Before(i)') =
                 Cardinality(Current(i)') + Cardinality(Before(i)')
                    - Cardinality(Current(i)' \cap Before(i)')
      BY <2>2, FS_Union
    <3>2. Cardinality(Current(i)' \cap Before(i)') \in Nat
      BY <2>2, FS_Intersection, FS_CardinalityType
    <3> QED
      BY <2>2, <2>3, <3>1, <3>2
  <2>5. /\ IsFiniteSet(Current(i)' \cup Before(i)')
        /\ Cardinality(Current(i)' \cup Before(i)') \in Nat
    BY <2>2, FS_Union, FS_CardinalityType
  <2>6. /\ Cardinality(UpTo(i, t)') =< Cardinality(Current(i)' \cup Before(i)')
        /\ Cardinality(UpTo(i, t)') \in Nat
    BY <2>1, <2>5, FS_Subset, FS_CardinalityType
  <2> QED
    BY <1>4, <2>4, <2>5, <2>6
<1> QED
  BY <1>0, <1>3, <1>4, WindowType DEF TypeOK, Times

(* Every step keeps the invariant of the limiter. *)
LEMMA NextInv ==
  ASSUME LimiterInv, [Next]_vars
  PROVE  LimiterInv'
<1>1. ASSUME NEW i \in Identities, Hit(i) PROVE LimiterInv'
  <2>1. TypeOK'
    BY <1>1, HitTypeOK DEF LimiterInv
  <2>2. HistoryInv' /\ RetryInv' /\ CountInv'
    BY <1>1, HitHistory, HitCount
  <2>3. BurstBound'
    BY <1>1, <2>1, <2>2, HitBurst
  <2> QED
    BY <2>1, <2>2, <2>3 DEF LimiterInv
<1>2. CASE UNCHANGED vars
  BY <1>2 DEF vars, LimiterInv, TypeOK, HistoryInv, CountInv, Current, Before,
              BurstBound, ServedUpTo, RetryInv
<1> QED
  BY <1>1, <1>2, TickInv DEF Next

-----------------------------------------------------------------------------
(* The buckets, what they let through and what they told the clients they   *)
(* refused always agree.                                                    *)
THEOREM LimiterInvariant == Spec => []LimiterInv
  BY InitInv, NextInv, PTL DEF Spec

(* Every variable of the limiter always has its type. *)
THEOREM LimiterTypeCorrect == Spec => []TypeOK
<1>1. LimiterInv => TypeOK
  BY DEF LimiterInv
<1> QED
  BY <1>1, LimiterInvariant, PTL

(* In any interval of a window's length no identity is served more than     *)
(* twice the limit, wherever the fixed windows begin.                       *)
THEOREM BurstsBounded == Spec => []BurstBound
<1>1. LimiterInv => BurstBound
  BY DEF LimiterInv
<1> QED
  BY <1>1, LimiterInvariant, PTL

(* A client that waits as long as Retry-After says finds the window over,   *)
(* and waits at most a second longer than it had to.                        *)
THEOREM RetryAfterIsHonest == Spec => []RetryAfterHonest
<1>1. LimiterInv => RetryAfterHonest
  <2> SUFFICES ASSUME LimiterInv, NEW i \in Identities, retryAt[i] # -1
               PROVE  /\ now >= retryAt[i] => Expired(i)
                      /\ retryAt[i] =< start[i] + Window + PerSecond
    BY DEF RetryAfterHonest
  <2>1. /\ now \in Int /\ start[i] \in Int /\ retryAt[i] \in Int
        /\ retryAt[i] > start[i] + Window
        /\ retryAt[i] =< start[i] + Window + PerSecond
    BY DEF LimiterInv, RetryInv, TypeOK, Times
  <2> QED
    BY <2>1, WindowType DEF Expired
<1> QED
  BY <1>1, LimiterInvariant, PTL

(* A request is refused only if the limit was used up within the window's   *)
(* length before it.                                                        *)
THEOREM OnlyEarnedRefusals == Spec => RefusalsEarned
<1>1. ASSUME LimiterInv, [Next]_vars, NEW i \in Identities,
             hits'[i] > hits[i], served'[i] = served[i]
      PROVE  Cardinality(UpTo(i, now)) >= Limit
  <2>0. TypeOK /\ HistoryInv
    BY <1>1 DEF LimiterInv
  <2>1. Hit(i)
    <3>1. ASSUME NEW j \in Identities, Hit(j), j # i PROVE FALSE
      BY <1>1, <2>0, <3>1, HitFrame DEF TypeOK
    <3>2. ~Tick /\ ~UNCHANGED vars
      BY <1>1, <2>0 DEF Tick, vars, TypeOK
    <3> QED
      BY <1>1, <3>1, <3>2 DEF Next
  <2>2. <<now, hits[i] + 1>> \notin served[i]
    BY <2>0 DEF HistoryInv, TypeOK
  <2>3. NewCount(i) > Limit
    BY <1>1, <2>0, <2>1, <2>2, HitBucket
  <2> DEFINE Kept == {x \in served[i] : x[1] >= NewStart(i)}
  <2>4. Cardinality(Kept) = Limit
    <3>1. NewCount(i) \in Nat
      BY <2>0 DEF NewCount, TypeOK
    <3> QED
      BY <1>1, <2>3, <3>1, KeptCount
  <2>5. Kept \subseteq UpTo(i, now)
    <3>1. \A x \in served[i] : x[1] \in Nat /\ x[1] =< now
      BY <2>0 DEF TypeOK, HistoryInv, Times
    <3> QED
      BY <2>0, <3>1, HitWithinWindow, WindowType DEF UpTo
  <2>6. IsFiniteSet(UpTo(i, now)) /\ Cardinality(UpTo(i, now)) \in Nat
    BY <2>0, HistoryFinite DEF UpTo
  <2>7. Cardinality(Kept) =< Cardinality(UpTo(i, now))
    BY <2>5, <2>6, FS_Subset
  <2> QED
    BY <2>4, <2>6, <2>7
<1>2. ASSUME LimiterInv, [Next]_vars
      PROVE  \A i \in Identities :
                hits'[i] > hits[i] /\ served'[i] = served[i] => ServedUpTo(i, now) >= Limit
  BY <1>1, <1>2 DEF ServedUpTo, UpTo
<1> QED
  BY <1>2, LimiterInvariant, PTL DEF Spec, RefusalsEarned
=============================================================================
