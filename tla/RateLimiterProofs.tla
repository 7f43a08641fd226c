----------------------------- MODULE RateLimiterProofs -----------------------------
(* What TLAPS proves of RateLimiter, for any number of buckets, rates, capacities,
   timeouts and waiters.

   The invariant compares each bucket, as it would be if it were refilled now,
   with two histories.  Shadowed: with what it would hold had a waiter not called
   acquire, which is more by the token the waiter paid, or less than that because
   the bucket was full in between.  Budget: what was granted lately, what the
   bucket holds and what waiters further on paid it never add up to more than its
   capacity and a token for each waiter; and for the last bucket, which nobody
   waits behind, to more than its capacity.                                    *)
EXTENDS RateLimiter, FiniteSetTheorems, TLAPS

Shadowed(w) ==
  at[w] # 0 =>
    \A b \in Buckets :
      /\ Refilled(b) <= shadow[w][b] /\ shadow[w][b] <= Full(b)
      /\ shadow[w][b] <= Refilled(b) + (IF b < at[w] THEN Unit ELSE 0)

(* The waiters that paid b and wait further on. *)
Ahead(b) == {w \in Waiters : at[w] > b}

Budget(b) ==
  level[b] + Refilled(b) + Cardinality(Ahead(b)) * Unit
    <= Full(b) + Cardinality(Waiters) * Unit

IInv ==
  /\ TypeOK
  /\ \A w \in Waiters : Shadowed(w)
  /\ \A b \in Buckets : Budget(b)
  /\ level[Last] + Refilled(Last) <= Full(Last)

-----------------------------------------------------------------------------
(* Least and greatest elements, by well-founded orders: of the naturals, and of
   the subsets of a finite set.                                              *)

LEMMA MinOf ==
  ASSUME NEW S \in SUBSET Nat, S # {}
  PROVE  Min(S) \in S /\ \A y \in S : Min(S) <= y
<1>1. PICK x \in S : \A y \in S : ~(<<y, x>> \in OpToRel(<, Nat))
  BY NatLessThanWellFounded, WFMin
<1>2. \A y \in S : ~(y < x)
  BY <1>1 DEF OpToRel
<1>3. \A y \in S : x <= y
  BY <1>2
<1> QED
  BY <1>3 DEF Min

LEMMA MaxOf ==
  ASSUME NEW S \in SUBSET Nat, IsFiniteSet(S), S # {}
  PROVE  Max(S) \in S /\ \A y \in S : y <= Max(S)
<1> DEFINE HasMax(T) == \E x \in T : \A y \in T : y <= x
           Bad == {T \in SUBSET S : T # {} /\ ~HasMax(T)}
<1>1. HasMax(S)
  <2> SUFFICES ASSUME ~HasMax(S) PROVE FALSE
    OBVIOUS
  <2>1. IsWellFoundedOn(StrictSubsetOrdering(S), SUBSET S)
    BY FS_StrictSubsetOrderingWellFounded, FS_FiniteSubsetsOfFinite
  <2>2. Bad \subseteq SUBSET S /\ Bad # {}
    OBVIOUS
  <2>3. PICK T \in Bad : \A U \in Bad : ~(<<U, T>> \in StrictSubsetOrdering(S))
    <3> HIDE DEF Bad
    <3> QED
      BY <2>1, <2>2, WFMin
  <2>4. PICK x \in T : TRUE
    BY <2>3
  <2>5. T \ {x} \notin Bad
    BY <2>3, <2>4 DEF StrictSubsetOrdering
  <2>6. CASE T \ {x} = {}
    <3>1. T = {x} /\ x \in Nat
      BY <2>3, <2>4, <2>6
    <3> QED
      BY <2>3, <3>1
  <2>7. CASE T \ {x} # {}
    <3>1. PICK z \in T \ {x} : \A y \in T \ {x} : y <= z
      BY <2>3, <2>5, <2>7
    <3>2. T \subseteq Nat
      BY <2>3
    <3>3. HasMax(T)
      BY <2>4, <3>1, <3>2
    <3> QED
      BY <2>3, <3>3
  <2> QED
    BY <2>6, <2>7
<1> QED
  BY <1>1 DEF Max

LEMMA PatienceType == Patience \in Nat
<1> DEFINE S == (Timeouts \ {None}) \cup {0}
<1>1. S \in SUBSET Nat /\ S # {}
  <2>1. \A n \in Timeouts : n \in Nat \/ n = None
    BY LimiterAssumption
  <2>2. \A n \in S : n \in Nat
    BY <2>1
  <2> QED
    BY <2>2
<1>2. IsFiniteSet(S)
  <2>1. Timeouts \ {None} \in SUBSET Timeouts
    OBVIOUS
  <2> QED
    BY <2>1, LimiterAssumption, FS_Subset, FS_AddElement
<1>3. Max(S) \in Nat
  BY <1>1, <1>2, MaxOf
<1> QED
  BY <1>3 DEF Patience

-----------------------------------------------------------------------------
(* The arithmetic of a bucket. *)

LEMMA BucketTypes ==
  ASSUME NEW b \in Buckets
  PROVE  /\ b \in Nat /\ b >= 1 /\ b <= Last /\ Last \in Nat /\ Unit \in Nat /\ Unit > 0
         /\ Rate[b] \in Nat /\ Rate[b] > 0 /\ Full(b) \in Nat /\ Full(b) >= Unit
         /\ FullAfter(b) \in Nat /\ FullAfter(b) * Rate[b] >= Full(b)
<1>1. /\ b \in Nat /\ b >= 1 /\ b <= Last /\ Last \in Nat /\ Unit \in Nat /\ Unit > 0
      /\ Rate[b] \in Nat /\ Rate[b] > 0 /\ Capacity[b] \in Nat /\ Capacity[b] > 0
  BY LimiterAssumption DEF Buckets
<1>2. Full(b) \in Nat /\ Full(b) >= Unit
  BY <1>1 DEF Full
<1>3. \A n \in Nat, d \in Nat \ {0} :
        (n + d - 1) \div d \in Nat /\ ((n + d - 1) \div d) * d >= n
  <2> TAKE n \in Nat, d \in Nat \ {0}
  <2> DEFINE m == n + d - 1
  <2>1. m \in Nat
    OBVIOUS
  <2> HIDE DEF m
  <2>2. m \div d \in Nat /\ m < (m \div d) * d + d
    BY <2>1
  <2>3. (m \div d) * d \in Nat
    BY <2>2
  <2> QED
    BY <2>2, <2>3 DEF m
<1>4. FullAfter(b) \in Nat /\ FullAfter(b) * Rate[b] >= Full(b)
  <2>1. Rate[b] \in Nat \ {0} /\ Full(b) \in Nat
    BY <1>1, <1>2
  <2>2. /\ (Full(b) + Rate[b] - 1) \div Rate[b] \in Nat
        /\ ((Full(b) + Rate[b] - 1) \div Rate[b]) * Rate[b] >= Full(b)
    BY <1>3, <2>1, Zenon
  <2> QED
    BY <2>2, Zenon DEF FullAfter
<1> QED
  BY <1>1, <1>2, <1>4

LEMMA RefilledType ==
  ASSUME TypeOK, NEW b \in Buckets
  PROVE  /\ tokens[b] \in Nat /\ since[b] \in Nat /\ since[b] * Rate[b] \in Nat
         /\ tokens[b] <= Full(b)
         /\ Refilled(b) \in Nat /\ Refilled(b) <= Full(b)
         /\ Refilled(b) = AtMost(Full(b), tokens[b] + since[b] * Rate[b])
<1>1. /\ tokens[b] \in Nat /\ since[b] \in Nat /\ tokens[b] <= Full(b)
  BY DEF TypeOK
<1>2. since[b] * Rate[b] \in Nat
  BY <1>1, BucketTypes
<1> QED
  BY <1>1, <1>2, BucketTypes DEF Refilled, AtMost

(* A bucket that has just been looked at holds what it says. *)
LEMMA JustRefilled ==
  ASSUME NEW b \in Buckets, NEW n \in Nat, n <= Full(b),
         tokens'[b] = n, since'[b] = 0
  PROVE  Refilled(b)' = n
<1>1. since'[b] * Rate[b] = 0
  BY BucketTypes
<1>2. Refilled(b)' = AtMost(Full(b), tokens'[b] + since'[b] * Rate[b])
  BY DEF Refilled, Full
<1> QED
  BY <1>1, <1>2, BucketTypes DEF AtMost

(* A token given back, without a refill first, is worth a token after one. *)
LEMMA GivenBack ==
  ASSUME TypeOK, NEW b \in Buckets,
         tokens'[b] = AtMost(Full(b), tokens[b] + Unit), since'[b] = since[b]
  PROVE  Refilled(b)' = AtMost(Full(b), Refilled(b) + Unit)
<1>1. Refilled(b)' = AtMost(Full(b), tokens'[b] + since[b] * Rate[b])
  BY DEF Refilled, Full
<1> HIDE DEF Full
<1> QED
  BY <1>1, RefilledType, BucketTypes DEF AtMost

LEMMA GainsRate ==
  ASSUME TypeOK, NEW b \in Buckets,
         tokens'[b] = tokens[b], since'[b] = AtMost(FullAfter(b), since[b] + 1)
  PROVE  Refilled(b)' = AtMost(Full(b), Refilled(b) + Rate[b])
<1>1. Refilled(b)' = AtMost(Full(b), tokens[b] + since'[b] * Rate[b])
  BY DEF Refilled, Full
<1>2. since[b] \in Nat /\ since[b] <= FullAfter(b)
  BY DEF TypeOK
<1>3. CASE since[b] < FullAfter(b)
  <2>1. since'[b] = since[b] + 1
    BY <1>2, <1>3, BucketTypes DEF AtMost
  <2>2. since'[b] * Rate[b] = since[b] * Rate[b] + Rate[b]
    BY <1>2, <2>1, BucketTypes
  <2> QED
    BY <1>1, <2>2, RefilledType, BucketTypes DEF AtMost
<1>4. CASE since[b] = FullAfter(b)
  <2>1. since'[b] = since[b] /\ since[b] * Rate[b] >= Full(b)
    BY <1>2, <1>4, BucketTypes DEF AtMost
  <2> QED
    BY <1>1, <2>1, RefilledType, BucketTypes DEF AtMost
<1> QED
  BY <1>2, <1>3, <1>4, BucketTypes

LEMMA Untouched ==
  ASSUME NEW b \in Buckets, tokens'[b] = tokens[b], since'[b] = since[b]
  PROVE  Refilled(b)' = Refilled(b)
BY DEF Refilled

-----------------------------------------------------------------------------
(* What a step does to a bucket, and to the shadow v has of it. *)

Takes(b) == Refilled(b) >= Unit /\ Refilled(b)' = Refilled(b) - Unit

Keeps(b) == Refilled(b)' = Refilled(b)

Gains(b, n) == Refilled(b)' = AtMost(Full(b), Refilled(b) + n)

Follows(v, b) ==
  \/ Takes(b) /\ shadow'[v][b] = shadow[v][b] - Unit
  \/ Keeps(b) /\ shadow'[v][b] = shadow[v][b]
  \/ \E n \in Nat : Gains(b, n) /\ shadow'[v][b] = AtMost(Full(b), shadow[v][b] + n)

LEMMA StopFacts ==
  ASSUME TypeOK, NEW first \in Buckets
  PROVE  /\ Stop(first) \in Nat /\ first <= Stop(first) /\ Stop(first) <= Last + 1
         /\ Lacking(first) = {} => Stop(first) = Last + 1
         /\ Lacking(first) # {} => Stop(first) \in Buckets
         /\ \A b \in Passed(first) : Refilled(b) >= Unit
<1>1. first \in Nat /\ first <= Last /\ Last \in Nat /\ Unit \in Nat
  BY BucketTypes
<1>2. Lacking(first) \in SUBSET Nat /\ Lacking(first) \subseteq Buckets
  BY <1>1 DEF Lacking, Buckets
<1>3. CASE Lacking(first) = {}
  <2>1. Stop(first) = Last + 1
    BY <1>3 DEF Stop
  <2>2. \A b \in Passed(first) : Refilled(b) >= Unit
    <3> TAKE b \in Passed(first)
    <3>1. b \in Buckets /\ b \in first..Last /\ b \notin Lacking(first)
      BY <1>1, <1>3 DEF Passed, Buckets
    <3> QED
      BY <1>1, <3>1, RefilledType DEF Lacking
  <2> QED
    BY <1>1, <1>3, <2>1, <2>2
<1>4. CASE Lacking(first) # {}
  <2>1. /\ Stop(first) \in Lacking(first)
        /\ \A b \in Lacking(first) : Stop(first) <= b
    BY <1>2, <1>4, MinOf DEF Stop
  <2>2. /\ Stop(first) \in Nat /\ Stop(first) \in Buckets
        /\ first <= Stop(first) /\ Stop(first) <= Last
    BY <1>1, <1>2, <2>1 DEF Lacking
  <2>3. \A b \in Passed(first) : Refilled(b) >= Unit
    <3> TAKE b \in Passed(first)
    <3>1. b \in Buckets /\ b \in first..Last /\ b \notin Lacking(first)
      BY <1>1, <2>1, <2>2 DEF Passed, Buckets
    <3> QED
      BY <1>1, <3>1, RefilledType DEF Lacking
  <2> QED
    BY <1>1, <1>4, <2>2, <2>3
<1> QED
  BY <1>3, <1>4

(* A turn that goes on or ends well takes one token from each bucket it passed. *)
LEMMA TakenEffect ==
  ASSUME TypeOK, NEW first \in Buckets, NEW b \in Buckets,
         since' = Noted(first), tokens' = Taken(first)
  PROVE  IF b \in Passed(first) THEN Takes(b) ELSE Keeps(b)
<1> USE StopFacts, BucketTypes, RefilledType
<1>1. CASE b \in Passed(first)
  <2>1. Refilled(b) >= Unit /\ Refilled(b) - Unit \in Nat /\ Refilled(b) - Unit <= Full(b)
    BY <1>1
  <2>2. tokens'[b] = Refilled(b) - Unit /\ since'[b] = 0
    BY <1>1 DEF Taken, Noted, Passed, LookedAt
  <2>3. Refilled(b)' = Refilled(b) - Unit
    BY <2>1, <2>2, JustRefilled
  <2> QED
    BY <1>1, <2>1, <2>3 DEF Takes
<1>2. CASE b \notin Passed(first) /\ b \in LookedAt(first)
  <2>1. tokens'[b] = Refilled(b) /\ since'[b] = 0
    BY <1>2 DEF Taken, Noted
  <2> QED
    BY <1>2, <2>1, JustRefilled DEF Keeps
<1>3. CASE b \notin Passed(first) /\ b \notin LookedAt(first)
  <2>1. tokens'[b] = tokens[b] /\ since'[b] = since[b]
    BY <1>3 DEF Taken, Noted
  <2> QED
    BY <1>3, <2>1, Untouched DEF Keeps
<1> QED
  BY <1>1, <1>2, <1>3

(* A denied turn gives one back to each bucket that earlier turns passed. *)
LEMMA RolledBackEffect ==
  ASSUME TypeOK, NEW first \in Buckets, NEW b \in Buckets,
         since' = Noted(first), tokens' = RolledBack(first)
  PROVE  IF b < first THEN Gains(b, Unit) ELSE Keeps(b)
<1> USE StopFacts, BucketTypes, RefilledType
<1>1. CASE b < first
  <2>1. b < Stop(first) /\ b \notin Passed(first) /\ b \notin LookedAt(first)
    BY <1>1 DEF Passed, LookedAt
  <2>2. tokens'[b] = AtMost(Full(b), tokens[b] + Unit) /\ since'[b] = since[b]
    BY <2>1 DEF RolledBack, Taken, Noted
  <2> QED
    BY <1>1, <2>2, GivenBack DEF Gains
<1>2. CASE b \in Passed(first)
  <2>1. b < Stop(first) /\ b \in LookedAt(first) /\ ~(b < first) /\ Refilled(b) >= Unit
    BY <1>2 DEF Passed, LookedAt
  <2>2. tokens'[b] = AtMost(Full(b), Refilled(b) - Unit + Unit) /\ since'[b] = 0
    BY <1>2, <2>1 DEF RolledBack, Taken, Noted
  <2>3. tokens'[b] = Refilled(b)
    BY <2>1, <2>2 DEF AtMost
  <2> QED
    BY <2>1, <2>2, <2>3, JustRefilled DEF Keeps
<1>3. CASE ~(b < first) /\ b \notin Passed(first) /\ b \in LookedAt(first)
  <2>1. ~(b < Stop(first))
    BY <1>3 DEF Passed
  <2>2. tokens'[b] = Refilled(b) /\ since'[b] = 0
    BY <1>3, <2>1 DEF RolledBack, Taken, Noted
  <2> QED
    BY <1>3, <2>2, JustRefilled DEF Keeps
<1>4. CASE ~(b < first) /\ b \notin Passed(first) /\ b \notin LookedAt(first)
  <2>1. ~(b < Stop(first))
    BY <1>4 DEF Passed
  <2>2. tokens'[b] = tokens[b] /\ since'[b] = since[b]
    BY <1>4, <2>1 DEF RolledBack, Taken, Noted
  <2> QED
    BY <1>4, <2>2, Untouched DEF Keeps
<1> QED
  BY <1>1, <1>2, <1>3, <1>4

-----------------------------------------------------------------------------
(* The parts of the invariant, each under what a step may do to it. *)

LEMMA ShadowKept ==
  ASSUME TypeOK, NEW v \in Waiters, at[v] # 0, at'[v] = at[v], Shadowed(v),
         \A b \in Buckets : Follows(v, b)
  PROVE  Shadowed(v)' /\ \A b \in Buckets : shadow'[v][b] \in Nat
<1> SUFFICES ASSUME NEW b \in Buckets
             PROVE  /\ shadow'[v][b] \in Nat
                    /\ Refilled(b)' <= shadow'[v][b] /\ shadow'[v][b] <= Full(b)
                    /\ shadow'[v][b] <= Refilled(b)' + (IF b < at[v] THEN Unit ELSE 0)
  BY DEF Shadowed, Full
<1>1. /\ shadow[v][b] \in Nat /\ Refilled(b) <= shadow[v][b] /\ shadow[v][b] <= Full(b)
      /\ shadow[v][b] <= Refilled(b) + (IF b < at[v] THEN Unit ELSE 0)
  BY DEF TypeOK, Shadowed
<1> DEFINE d == IF b < at[v] THEN Unit ELSE 0
<1>2. d \in Nat
  BY BucketTypes
<1>3. shadow[v][b] <= Refilled(b) + d
  BY <1>1
<1> HIDE DEF d
<1>4. /\ shadow'[v][b] \in Nat
      /\ Refilled(b)' <= shadow'[v][b] /\ shadow'[v][b] <= Full(b)
      /\ shadow'[v][b] <= Refilled(b)' + d
  <2>1. CASE Takes(b) /\ shadow'[v][b] = shadow[v][b] - Unit
    BY <1>1, <1>2, <1>3, <2>1, BucketTypes, RefilledType DEF Takes
  <2>2. CASE Keeps(b) /\ shadow'[v][b] = shadow[v][b]
    BY <1>1, <1>2, <1>3, <2>2, BucketTypes, RefilledType DEF Keeps
  <2>3. ASSUME NEW n \in Nat, Gains(b, n), shadow'[v][b] = AtMost(Full(b), shadow[v][b] + n)
        PROVE  /\ shadow'[v][b] \in Nat
               /\ Refilled(b)' <= shadow'[v][b] /\ shadow'[v][b] <= Full(b)
               /\ shadow'[v][b] <= Refilled(b)' + d
    BY <1>1, <1>2, <1>3, <2>3, BucketTypes, RefilledType DEF Gains, AtMost
  <2> QED
    BY <2>1, <2>2, <2>3 DEF Follows
<1> QED
  BY <1>4 DEF d

(* One waiter goes from bucket at[w] to bucket k; 0 is none. *)
LEMMA AheadMoves ==
  ASSUME TypeOK, NEW w \in Waiters, NEW k \in 0..Last, at' = [at EXCEPT ![w] = k],
         NEW b \in Buckets
  PROVE  /\ Cardinality(Ahead(b)) \in Nat /\ Cardinality(Ahead(b)') \in Nat
         /\ at[w] > b /\ k <= b => Cardinality(Ahead(b)) = Cardinality(Ahead(b)') + 1
         /\ at[w] <= b /\ k > b => Cardinality(Ahead(b)') = Cardinality(Ahead(b)) + 1
         /\ (at[w] > b <=> k > b) => Ahead(b)' = Ahead(b)
<1>1. /\ at \in [Waiters -> 0..Last] /\ at[w] \in Nat /\ k \in Nat /\ b \in Nat
  BY BucketTypes DEF TypeOK
<1>2. IsFiniteSet(Ahead(b)) /\ IsFiniteSet(Ahead(b)')
  <2>1. Ahead(b) \subseteq Waiters /\ Ahead(b)' \subseteq Waiters
    BY DEF Ahead
  <2> QED
    BY <2>1, FS_Subset, LimiterAssumption
<1>3. Cardinality(Ahead(b)) \in Nat /\ Cardinality(Ahead(b)') \in Nat
  BY <1>2, FS_CardinalityType
<1>4. \A v \in Waiters : v # w => at'[v] = at[v]
  BY <1>1
<1>5. at'[w] = k
  BY <1>1
<1>6. CASE at[w] > b /\ k <= b
  <2>1. w \in Ahead(b) /\ Ahead(b)' = Ahead(b) \ {w}
    BY <1>1, <1>4, <1>5, <1>6 DEF Ahead
  <2> QED
    BY <1>1, <1>2, <1>3, <1>6, <2>1, FS_RemoveElement
<1>7. CASE at[w] <= b /\ k > b
  <2>1. w \notin Ahead(b) /\ Ahead(b)' = Ahead(b) \cup {w}
    BY <1>1, <1>4, <1>5, <1>7 DEF Ahead
  <2> QED
    BY <1>1, <1>2, <1>3, <1>7, <2>1, FS_AddElement
<1>8. CASE at[w] > b <=> k > b
  <2>1. Ahead(b)' = Ahead(b)
    BY <1>1, <1>4, <1>5, <1>8 DEF Ahead
  <2> QED
    BY <1>1, <1>3, <1>8, <2>1
<1> QED
  BY <1>1, <1>6, <1>7, <1>8

(* The budgets after a step that leaves the levels alone. *)
LEMMA BudgetKept ==
  ASSUME TypeOK, NEW b \in Buckets, Budget(b),
         NEW p \in Nat, NEW q \in Nat,
         Cardinality(Ahead(b)) \in Nat, Cardinality(Ahead(b)') \in Nat,
         Cardinality(Ahead(b)') + q <= Cardinality(Ahead(b)) + p,
         level'[b] \in Nat, Refilled(b)' \in Nat,
         level'[b] + Refilled(b)' + p * Unit <= level[b] + Refilled(b) + q * Unit
  PROVE  Budget(b)'
<1> DEFINE size == Cardinality(Waiters)
           n == Cardinality(Ahead(b))
           m == Cardinality(Ahead(b)')
<1>1. size \in Nat
  BY LimiterAssumption, FS_CardinalityType
<1>2. level[b] + Refilled(b) + n * Unit <= Full(b) + size * Unit
  BY DEF Budget
<1>3. /\ (m + q) * Unit <= (n + p) * Unit
      /\ (m + q) * Unit = m * Unit + q * Unit
      /\ (n + p) * Unit = n * Unit + p * Unit
  BY BucketTypes
<1>4. /\ level[b] \in Nat /\ Refilled(b) \in Nat /\ Full(b) \in Nat
      /\ m * Unit \in Nat /\ n * Unit \in Nat /\ p * Unit \in Nat /\ q * Unit \in Nat
      /\ size * Unit \in Nat
  BY <1>1, BucketTypes, RefilledType DEF TypeOK
<1>5. level'[b] + Refilled(b)' + m * Unit <= Full(b) + size * Unit
  BY <1>2, <1>3, <1>4
<1> QED
  BY <1>5 DEF Budget, Full

-----------------------------------------------------------------------------
(* Types of what a turn assigns. *)

LEMMA TurnTypes ==
  ASSUME TypeOK, NEW first \in Buckets
  PROVE  /\ Noted(first) \in [Buckets -> Nat]
         /\ \A b \in Buckets : Noted(first)[b] <= FullAfter(b)
         /\ Taken(first) \in [Buckets -> Nat]
         /\ \A b \in Buckets : Taken(first)[b] <= Full(b)
         /\ RolledBack(first) \in [Buckets -> Nat]
         /\ \A b \in Buckets : RolledBack(first)[b] <= Full(b)
<1>1. \A b \in Buckets : Noted(first)[b] \in Nat /\ Noted(first)[b] <= FullAfter(b)
  BY BucketTypes DEF Noted, TypeOK
<1>2. \A b \in Buckets : Taken(first)[b] \in Nat /\ Taken(first)[b] <= Full(b)
  BY StopFacts, BucketTypes, RefilledType DEF Taken
<1>3. ASSUME NEW b \in Buckets
      PROVE  RolledBack(first)[b] \in Nat /\ RolledBack(first)[b] <= Full(b)
  BY <1>2, BucketTypes DEF RolledBack, AtMost
<1> QED
  BY <1>1, <1>2, <1>3 DEF Noted, Taken, RolledBack

(* Begin and Poll give Turn different bounds for what w is owed; both are these. *)
Owed(mine, first) ==
  /\ mine \in [Buckets -> Nat]
  /\ \A b \in Buckets :
       /\ Refilled(b) <= mine[b] /\ mine[b] <= Full(b)
       /\ mine[b] <= Refilled(b) + (IF b < first THEN Unit ELSE 0)

(* The others' shadows follow the buckets, so they keep their distance. *)
LEMMA OthersShadowed ==
  ASSUME TypeOK, \A v \in Waiters : Shadowed(v),
         NEW w, NEW k \in 0..Last, at' = [at EXCEPT ![w] = k],
         NEW v \in Waiters, v # w,
         at[v] = 0 => shadow'[v] = shadow[v],
         at[v] # 0 => \A b \in Buckets : Follows(v, b),
         at[v] # 0 => shadow'[v] = [b \in Buckets |-> shadow'[v][b]]
  PROVE  Shadowed(v)' /\ shadow'[v] \in [Buckets -> Nat]
<1>1. at'[v] = at[v]
  BY DEF TypeOK
<1>2. CASE at[v] = 0
  BY <1>1, <1>2 DEF Shadowed, TypeOK
<1>3. CASE at[v] # 0
  BY <1>1, <1>3, ShadowKept
<1> QED
  BY <1>2, <1>3

LEMMA EffectType ==
  ASSUME TypeOK, NEW b \in Buckets, NEW n \in Nat, Takes(b) \/ Keeps(b) \/ Gains(b, n)
  PROVE  Refilled(b)' \in Nat /\ Refilled(b)' <= Full(b)
BY BucketTypes, RefilledType DEF Takes, Keeps, Gains, AtMost

LEMMA TurnTypeOK ==
  ASSUME TypeOK, NEW w \in Waiters, NEW first \in Buckets, NEW k \in 0..Last,
         NEW limit \in Timeouts \cup {None}, NEW elapsed \in 0..Patience,
         since' = Noted(first), tokens' = Taken(first) \/ tokens' = RolledBack(first),
         at' = [at EXCEPT ![w] = k], timeout' = [timeout EXCEPT ![w] = limit],
         waited' = [waited EXCEPT ![w] = elapsed],
         level' \in [Buckets -> Nat], shadow' \in [Waiters -> [Buckets -> Nat]],
         cancels' = cancels
  PROVE  TypeOK'
<1>1. /\ tokens' \in [Buckets -> Nat] /\ \A b \in Buckets : tokens'[b] <= Full(b)
      /\ since' \in [Buckets -> Nat] /\ \A b \in Buckets : since'[b] <= FullAfter(b)
  BY TurnTypes
<1>2. at' \in [Waiters -> 0..Last]
  BY DEF TypeOK
<1>3. timeout' \in [Waiters -> Timeouts \cup {None}] /\ waited' \in [Waiters -> 0..Patience]
  BY DEF TypeOK
<1>4. cancels' \in 0..MaxCancels
  BY DEF TypeOK
<1>5. /\ \A b \in Buckets : Full(b)' = Full(b) /\ FullAfter(b)' = FullAfter(b)
      /\ Patience' = Patience
  BY DEF Full, FullAfter, Patience
<1> QED
  BY <1>1, <1>2, <1>3, <1>4, <1>5 DEF TypeOK

-----------------------------------------------------------------------------
(* The three ways a turn ends. *)

Granted(w, first) ==
  /\ Lacking(first) = {}
  /\ tokens' = Taken(first)
  /\ level' = GrantedLevel
  /\ Forget(w)
  /\ shadow' = ShadowsAfter(w, Nothing,
                 LAMBDA b, n : IF b \in Passed(first) THEN n - Unit ELSE n)

GivesUp(w, first) ==
  /\ Lacking(first) # {}
  /\ tokens' = RolledBack(first)
  /\ Forget(w)
  /\ shadow' = ShadowsAfter(w, Nothing,
                 LAMBDA b, n : IF b < first THEN AtMost(Full(b), n + Unit) ELSE n)
  /\ level' = level

WaitsOn(w, first, limit, elapsed, mine) ==
  /\ Lacking(first) # {}
  /\ tokens' = Taken(first)
  /\ at' = [at EXCEPT ![w] = Stop(first)]
  /\ timeout' = [timeout EXCEPT ![w] = limit]
  /\ waited' = [waited EXCEPT ![w] = elapsed]
  /\ shadow' = ShadowsAfter(w, mine,
                 LAMBDA b, n : IF b \in Passed(first) THEN n - Unit ELSE n)
  /\ level' = level

LEMMA TurnEnds ==
  ASSUME NEW w, NEW first, NEW limit, NEW elapsed, NEW mine,
         Turn(w, first, limit, elapsed, mine)
  PROVE  /\ since' = Noted(first) /\ cancels' = cancels
         /\ \/ Granted(w, first)
            \/ GivesUp(w, first)
            \/ WaitsOn(w, first, limit, elapsed, mine)
BY Zenon DEF Turn, Granted, GivesUp, WaitsOn

LEMMA GrantedKeeps ==
  ASSUME IInv, NEW w \in Waiters, NEW first \in Buckets,
         at[w] = first \/ (at[w] = 0 /\ first = 1),
         since' = Noted(first), cancels' = cancels, Granted(w, first)
  PROVE  IInv'
<1>1. TypeOK /\ first \in Nat /\ Last \in Nat /\ Last \in Buckets /\ first <= Last
  BY LimiterAssumption DEF IInv, Buckets
<1>2. /\ \A v \in Waiters : Shadowed(v)
      /\ \A b \in Buckets : Budget(b)
      /\ level[Last] + Refilled(Last) <= Full(Last)
  BY DEF IInv
<1>3. /\ at \in [Waiters -> 0..Last] /\ level \in [Buckets -> Nat]
      /\ 0 \in 0..Last /\ 0 \in 0..Patience /\ None \in Timeouts \cup {None}
  BY <1>1, PatienceType DEF TypeOK
<1>4. Stop(first) = Last + 1
  BY <1>1, StopFacts DEF Granted
<1>5. /\ at' = [at EXCEPT ![w] = 0]
      /\ level' \in [Buckets -> Nat] /\ \A b \in Buckets : level'[b] = level[b] + Unit
  <2>1. at' = [at EXCEPT ![w] = 0]
    BY DEF Granted, Forget
  <2>2. level' = [b \in Buckets |-> level[b] + Unit]
    BY DEF Granted, GrantedLevel
  <2>3. \A b \in Buckets : level[b] + Unit \in Nat
    BY <1>3, BucketTypes
  <2> QED
    BY <2>1, <2>2, <2>3
<1>6. ASSUME NEW b \in Buckets
      PROVE  /\ b \in Passed(first) <=> first <= b
             /\ IF first <= b THEN Takes(b) ELSE Keeps(b)
  <2>1. b \in Passed(first) <=> first <= b
    BY <1>1, <1>4, BucketTypes DEF Passed
  <2> QED
    BY <1>1, <2>1, TakenEffect DEF Granted
<1>7. ASSUME NEW v \in Waiters, v # w
      PROVE  Shadowed(v)' /\ shadow'[v] \in [Buckets -> Nat]
  <2>1. at[v] = 0 => shadow'[v] = shadow[v]
    BY <1>7 DEF Granted, ShadowsAfter
  <2>2. at[v] # 0 => shadow'[v] = [b \in Buckets |->
                       IF b \in Passed(first) THEN shadow[v][b] - Unit ELSE shadow[v][b]]
    BY <1>7 DEF Granted, ShadowsAfter
  <2>3. at[v] # 0 => \A b \in Buckets : Follows(v, b)
    BY <1>6, <2>2 DEF Follows
  <2> QED
    BY <1>1, <1>2, <1>3, <1>5, <1>7, <2>1, <2>2, <2>3, OthersShadowed
<1>8. Shadowed(w)' /\ shadow'[w] \in [Buckets -> Nat]
  <2>1. shadow'[w] = Nothing
    BY DEF Granted, ShadowsAfter
  <2> QED
    BY <1>3, <1>5, <2>1 DEF Shadowed, Nothing
<1>9. TypeOK'
  <2>1. shadow' \in [Waiters -> [Buckets -> Nat]]
    BY <1>7, <1>8 DEF Granted, ShadowsAfter
  <2> QED
    BY <1>1, <1>3, <1>5, <2>1, TurnTypeOK DEF Granted, Forget
<1>10. ASSUME NEW b \in Buckets
       PROVE  Budget(b)'
  <2>1. /\ level[b] \in Nat /\ level'[b] = level[b] + Unit /\ at[w] \in Nat /\ b \in Nat /\ b > 0
        /\ Unit \in Nat
    BY <1>3, <1>5, BucketTypes
  <2>2. Refilled(b)' \in Nat /\ Refilled(b) \in Nat
    BY <1>1, <1>6, EffectType, RefilledType
  <2>3. CASE first <= b
    <3>0. at[w] > b <=> 0 > b
      BY <1>1, <2>1, <2>3
    <3>1. Ahead(b)' = Ahead(b) /\ Cardinality(Ahead(b)) \in Nat
      BY <1>1, <1>3, <1>5, <3>0, AheadMoves
    <3>2. Refilled(b)' = Refilled(b) - Unit
      BY <1>6, <2>3 DEF Takes
    <3>3. level'[b] + Refilled(b)' + 0 * Unit <= level[b] + Refilled(b) + 0 * Unit
      BY <2>1, <2>2, <3>2
    <3> QED
      BY <1>1, <1>2, <1>5, <2>1, <2>2, <3>1, <3>3, BudgetKept
  <2>4. CASE ~(first <= b)
    <3>1. at[w] > b /\ 0 <= b
      BY <1>1, <2>1, <2>4
    <3>2. /\ Cardinality(Ahead(b)) \in Nat /\ Cardinality(Ahead(b)') \in Nat
          /\ Cardinality(Ahead(b)) = Cardinality(Ahead(b)') + 1
      BY <1>1, <1>3, <1>5, <3>1, AheadMoves
    <3>3. Refilled(b)' = Refilled(b)
      BY <1>6, <2>4 DEF Keeps
    <3>4. level'[b] + Refilled(b)' + 0 * Unit <= level[b] + Refilled(b) + 1 * Unit
      BY <2>1, <2>2, <3>3
    <3>5. Cardinality(Ahead(b)') + 1 <= Cardinality(Ahead(b)) + 0
      BY <3>2
    <3> QED
      BY <1>1, <1>2, <1>5, <2>1, <2>2, <3>2, <3>4, <3>5, BudgetKept
  <2> QED
    BY <2>3, <2>4
<1>11. level'[Last] + Refilled(Last)' <= Full(Last)
  <2>1. Refilled(Last)' = Refilled(Last) - Unit
    BY <1>1, <1>6 DEF Takes
  <2> QED
    BY <1>1, <1>2, <1>3, <1>5, <2>1, RefilledType, BucketTypes
<1> QED
  BY <1>7, <1>8, <1>9, <1>10, <1>11 DEF IInv, Full

LEMMA GivesUpKeeps ==
  ASSUME IInv, NEW w \in Waiters, NEW first \in Buckets,
         at[w] = first \/ (at[w] = 0 /\ first = 1),
         since' = Noted(first), cancels' = cancels, GivesUp(w, first)
  PROVE  IInv'
<1>1. TypeOK /\ first \in Nat /\ Last \in Nat /\ Last \in Buckets /\ first <= Last
  BY LimiterAssumption DEF IInv, Buckets
<1>2. /\ \A v \in Waiters : Shadowed(v)
      /\ \A b \in Buckets : Budget(b)
      /\ level[Last] + Refilled(Last) <= Full(Last)
  BY DEF IInv
<1>3. /\ at \in [Waiters -> 0..Last] /\ level \in [Buckets -> Nat] /\ Unit \in Nat
      /\ 0 \in 0..Last /\ 0 \in 0..Patience /\ None \in Timeouts \cup {None}
  BY <1>1, PatienceType, BucketTypes DEF TypeOK
<1>4. at' = [at EXCEPT ![w] = 0] /\ level' = level
  BY DEF GivesUp, Forget
<1>5. ASSUME NEW b \in Buckets
      PROVE  IF b < first THEN Gains(b, Unit) ELSE Keeps(b)
  BY <1>1, RolledBackEffect DEF GivesUp
<1>6. ASSUME NEW v \in Waiters, v # w
      PROVE  Shadowed(v)' /\ shadow'[v] \in [Buckets -> Nat]
  <2>1. at[v] = 0 => shadow'[v] = shadow[v]
    BY <1>6 DEF GivesUp, ShadowsAfter
  <2>2. at[v] # 0 => shadow'[v] = [b \in Buckets |->
                       IF b < first THEN AtMost(Full(b), shadow[v][b] + Unit)
                                    ELSE shadow[v][b]]
    BY <1>6 DEF GivesUp, ShadowsAfter
  <2>3. at[v] # 0 => \A b \in Buckets : Follows(v, b)
    BY <1>3, <1>5, <2>2 DEF Follows
  <2> QED
    BY <1>1, <1>2, <1>3, <1>4, <1>6, <2>1, <2>2, <2>3, OthersShadowed
<1>7. Shadowed(w)' /\ shadow'[w] \in [Buckets -> Nat]
  <2>1. shadow'[w] = Nothing
    BY DEF GivesUp, ShadowsAfter
  <2> QED
    BY <1>3, <1>4, <2>1 DEF Shadowed, Nothing
<1>8. TypeOK'
  <2>1. shadow' \in [Waiters -> [Buckets -> Nat]]
    BY <1>6, <1>7 DEF GivesUp, ShadowsAfter
  <2> QED
    BY <1>1, <1>3, <1>4, <2>1, TurnTypeOK DEF GivesUp, Forget
<1>9. ASSUME NEW b \in Buckets
      PROVE  Budget(b)'
  <2>1. /\ level[b] \in Nat /\ level'[b] = level[b] /\ at[w] \in Nat /\ b \in Nat /\ b > 0
        /\ Unit \in Nat /\ Full(b) \in Nat
    BY <1>3, <1>4, BucketTypes
  <2>2. Refilled(b)' \in Nat /\ Refilled(b) \in Nat
    BY <1>1, <1>3, <1>5, EffectType, RefilledType
  <2>3. CASE ~(b < first)
    <3>1. at[w] > b <=> 0 > b
      BY <1>1, <2>1, <2>3
    <3>2. Ahead(b)' = Ahead(b) /\ Cardinality(Ahead(b)) \in Nat
      BY <1>1, <1>3, <1>4, <3>1, AheadMoves
    <3>3. level'[b] + Refilled(b)' + 0 * Unit <= level[b] + Refilled(b) + 0 * Unit
      BY <1>5, <2>1, <2>2, <2>3 DEF Keeps
    <3> QED
      BY <1>1, <1>2, <2>1, <2>2, <3>2, <3>3, BudgetKept
  <2>4. CASE b < first
    <3>1. at[w] > b /\ 0 <= b
      BY <1>1, <2>1, <2>4
    <3>2. /\ Cardinality(Ahead(b)) \in Nat /\ Cardinality(Ahead(b)') \in Nat
          /\ Cardinality(Ahead(b)) = Cardinality(Ahead(b)') + 1
      BY <1>1, <1>3, <1>4, <3>1, AheadMoves
    <3>3. Refilled(b)' <= Refilled(b) + Unit
      BY <1>5, <2>1, <2>2, <2>4 DEF Gains, AtMost
    <3>4. level'[b] + Refilled(b)' + 0 * Unit <= level[b] + Refilled(b) + 1 * Unit
      BY <2>1, <2>2, <3>3
    <3>5. Cardinality(Ahead(b)') + 1 <= Cardinality(Ahead(b)) + 0
      BY <3>2
    <3> QED
      BY <1>1, <1>2, <2>1, <2>2, <3>2, <3>4, <3>5, BudgetKept
  <2> QED
    BY <2>3, <2>4
<1>10. level'[Last] + Refilled(Last)' <= Full(Last)
  BY <1>1, <1>2, <1>4, <1>5 DEF Keeps
<1> QED
  BY <1>6, <1>7, <1>8, <1>9, <1>10 DEF IInv, Full

LEMMA WaitsKeeps ==
  ASSUME IInv, NEW w \in Waiters, NEW first \in Buckets,
         NEW limit \in Timeouts \cup {None}, NEW elapsed \in 0..Patience,
         NEW mine, Owed(mine, first),
         at[w] = first \/ (at[w] = 0 /\ first = 1),
         since' = Noted(first), cancels' = cancels,
         WaitsOn(w, first, limit, elapsed, mine)
  PROVE  IInv'
<1> DEFINE k == Stop(first)
<1>1. TypeOK /\ first \in Nat /\ Last \in Nat /\ Last \in Buckets /\ first <= Last
  BY LimiterAssumption DEF IInv, Buckets
<1>2. /\ \A v \in Waiters : Shadowed(v)
      /\ \A b \in Buckets : Budget(b)
      /\ level[Last] + Refilled(Last) <= Full(Last)
  BY DEF IInv
<1>3. at \in [Waiters -> 0..Last] /\ level \in [Buckets -> Nat] /\ Unit \in Nat
  BY <1>1, BucketTypes DEF TypeOK
<1>4. at' = [at EXCEPT ![w] = k] /\ level' = level
  BY DEF WaitsOn
<1>5. k \in Nat /\ k \in 0..Last /\ k # 0 /\ first <= k /\ k <= Last
  <2>1. Stop(first) \in Buckets /\ first <= Stop(first)
    BY <1>1, StopFacts DEF WaitsOn
  <2> QED
    BY <1>1, <2>1 DEF Buckets
<1>6. ASSUME NEW b \in Buckets
      PROVE  /\ b \in Passed(first) <=> first <= b /\ b < k
             /\ IF first <= b /\ b < k THEN Takes(b) ELSE Keeps(b)
  <2>1. b \in Passed(first) <=> first <= b /\ b < k
    BY DEF Passed
  <2> QED
    BY <1>1, <2>1, TakenEffect DEF WaitsOn
<1> HIDE DEF k
<1>7. ASSUME NEW v \in Waiters, v # w
      PROVE  Shadowed(v)' /\ shadow'[v] \in [Buckets -> Nat]
  <2>1. at[v] = 0 => shadow'[v] = shadow[v]
    BY <1>7 DEF WaitsOn, ShadowsAfter
  <2>2. at[v] # 0 => shadow'[v] = [b \in Buckets |->
                       IF b \in Passed(first) THEN shadow[v][b] - Unit ELSE shadow[v][b]]
    BY <1>7 DEF WaitsOn, ShadowsAfter
  <2>3. at[v] # 0 => \A b \in Buckets : Follows(v, b)
    BY <1>6, <2>2 DEF Follows
  <2> QED
    BY <1>1, <1>2, <1>4, <1>5, <1>7, <2>1, <2>2, <2>3, OthersShadowed
<1>8. Shadowed(w)' /\ shadow'[w] \in [Buckets -> Nat]
  <2>1. shadow'[w] = mine /\ at'[w] = k /\ mine \in [Buckets -> Nat]
    BY <1>3, <1>4 DEF WaitsOn, ShadowsAfter, Owed
  <2>2. ASSUME NEW b \in Buckets
        PROVE  /\ Refilled(b)' <= mine[b] /\ mine[b] <= Full(b)
               /\ mine[b] <= Refilled(b)' + (IF b < k THEN Unit ELSE 0)
    <3>1. /\ Refilled(b) <= mine[b] /\ mine[b] <= Full(b)
          /\ mine[b] <= Refilled(b) + (IF b < first THEN Unit ELSE 0)
      BY DEF Owed
    <3>2. /\ b \in Nat /\ Refilled(b) \in Nat /\ mine[b] \in Nat /\ Full(b) \in Nat
      BY <1>1, <2>1, BucketTypes, RefilledType
    <3>3. CASE first <= b /\ b < k
      <4>1. Refilled(b)' = Refilled(b) - Unit
        BY <1>6, <3>3 DEF Takes
      <4> QED
        BY <1>1, <1>3, <1>5, <3>1, <3>2, <3>3, <4>1
    <3>4. CASE ~(first <= b /\ b < k)
      <4>1. Refilled(b)' = Refilled(b)
        BY <1>6, <3>4 DEF Keeps
      <4> QED
        BY <1>1, <1>3, <1>5, <3>1, <3>2, <3>4, <4>1
    <3> QED
      BY <3>3, <3>4
  <2> QED
    BY <2>1, <2>2 DEF Shadowed, Full
<1>9. TypeOK'
  <2>1. shadow' \in [Waiters -> [Buckets -> Nat]]
    BY <1>7, <1>8 DEF WaitsOn, ShadowsAfter
  <2> QED
    BY <1>1, <1>3, <1>4, <1>5, <2>1, TurnTypeOK DEF WaitsOn
<1>10. ASSUME NEW b \in Buckets
       PROVE  Budget(b)'
  <2>1. /\ level[b] \in Nat /\ level'[b] = level[b] /\ at[w] \in Nat /\ b \in Nat /\ b > 0
        /\ Unit \in Nat
    BY <1>3, <1>4, BucketTypes
  <2>2. Refilled(b)' \in Nat /\ Refilled(b) \in Nat
    BY <1>1, <1>3, <1>6, EffectType, RefilledType
  <2>3. CASE first <= b /\ b < k
    <3>1. at[w] <= b /\ k > b
      BY <1>1, <1>5, <2>1, <2>3
    <3>2. /\ Cardinality(Ahead(b)) \in Nat /\ Cardinality(Ahead(b)') \in Nat
          /\ Cardinality(Ahead(b)') = Cardinality(Ahead(b)) + 1
      BY <1>1, <1>4, <1>5, <3>1, AheadMoves
    <3>3. Refilled(b)' = Refilled(b) - Unit
      BY <1>6, <2>3 DEF Takes
    <3>4. level'[b] + Refilled(b)' + 1 * Unit <= level[b] + Refilled(b) + 0 * Unit
      BY <2>1, <2>2, <3>3
    <3>5. Cardinality(Ahead(b)') + 0 <= Cardinality(Ahead(b)) + 1
      BY <3>2
    <3> QED
      BY <1>1, <1>2, <2>1, <2>2, <3>2, <3>4, <3>5, BudgetKept
  <2>4. CASE ~(first <= b /\ b < k)
    <3>1. at[w] > b <=> k > b
      BY <1>1, <1>5, <2>1, <2>4
    <3>2. Ahead(b)' = Ahead(b) /\ Cardinality(Ahead(b)) \in Nat
      BY <1>1, <1>4, <1>5, <3>1, AheadMoves
    <3>3. level'[b] + Refilled(b)' + 0 * Unit <= level[b] + Refilled(b) + 0 * Unit
      BY <1>6, <2>1, <2>2, <2>4 DEF Keeps
    <3> QED
      BY <1>1, <1>2, <2>1, <2>2, <3>2, <3>3, BudgetKept
  <2> QED
    BY <2>3, <2>4
<1>11. level'[Last] + Refilled(Last)' <= Full(Last)
  <2>1. Refilled(Last)' = Refilled(Last)
    BY <1>1, <1>5, <1>6 DEF Keeps
  <2> QED
    BY <1>1, <1>2, <1>4, <2>1
<1> QED
  BY <1>7, <1>8, <1>9, <1>10, <1>11 DEF IInv, Full

-----------------------------------------------------------------------------
(* The other steps. *)

LEMMA TurnKeeps ==
  ASSUME IInv, NEW w \in Waiters, NEW first \in Buckets,
         NEW limit \in Timeouts \cup {None}, NEW elapsed \in 0..Patience,
         NEW mine, Owed(mine, first),
         at[w] = first \/ (at[w] = 0 /\ first = 1),
         Turn(w, first, limit, elapsed, mine)
  PROVE  IInv'
<1>1. /\ since' = Noted(first) /\ cancels' = cancels
      /\ \/ Granted(w, first)
         \/ GivesUp(w, first)
         \/ WaitsOn(w, first, limit, elapsed, mine)
  BY TurnEnds
<1>2. CASE Granted(w, first)
  BY <1>1, <1>2, GrantedKeeps
<1>3. CASE GivesUp(w, first)
  BY <1>1, <1>3, GivesUpKeeps
<1>4. CASE WaitsOn(w, first, limit, elapsed, mine)
  BY <1>1, <1>4, WaitsKeeps
<1> QED
  BY <1>1, <1>2, <1>3, <1>4

LEMMA BeginKeeps ==
  ASSUME IInv, NEW w \in Waiters, Begin(w)
  PROVE  IInv'
<1> DEFINE mine == [b \in Buckets |-> Refilled(b)]
<1>1. TypeOK /\ 1 \in Buckets /\ 0 \in 0..Patience
  BY LimiterAssumption, PatienceType DEF IInv, Buckets
<1>2. PICK limit \in Timeouts : Turn(w, 1, limit, 0, mine)
  BY DEF Begin
<1>3. Owed(mine, 1)
  <2>1. \A b \in Buckets : /\ b \in Nat /\ b >= 1 /\ Refilled(b) \in Nat
                           /\ Refilled(b) <= Full(b)
    BY <1>1, BucketTypes, RefilledType
  <2> QED
    BY <2>1 DEF Owed
<1> HIDE DEF mine
<1> QED
  BY <1>1, <1>2, <1>3, TurnKeeps DEF Begin

LEMMA PollKeeps ==
  ASSUME IInv, NEW w \in Waiters, Poll(w)
  PROVE  IInv'
<1>1. /\ at[w] \in Buckets /\ timeout[w] \in Timeouts \cup {None}
      /\ waited[w] \in 0..Patience
  <2>1. at[w] \in 0..Last /\ at[w] # 0
    BY DEF IInv, TypeOK, Poll
  <2> QED
    BY <2>1, LimiterAssumption DEF IInv, TypeOK, Buckets
<1>2. Owed(shadow[w], at[w])
  BY <1>1 DEF IInv, TypeOK, Shadowed, Owed, Poll
<1> QED
  BY <1>1, <1>2, TurnKeeps DEF Poll

LEMMA CancelKeeps ==
  ASSUME IInv, NEW w \in Waiters, Cancel(w)
  PROVE  IInv'
<1>1. /\ TypeOK /\ 0 \in 0..Last /\ 0 \in 0..Patience /\ None \in Timeouts \cup {None}
      /\ Last \in Buckets /\ MaxCancels \in Nat /\ Unit \in Nat
  BY LimiterAssumption, PatienceType DEF IInv, Buckets
<1>2. /\ at' = [at EXCEPT ![w] = 0] /\ shadow' = [shadow EXCEPT ![w] = Nothing]
      /\ tokens' = tokens /\ since' = since /\ level' = level
  BY DEF Cancel, Forget
<1>3. TypeOK'
  <2>1. /\ timeout' = [timeout EXCEPT ![w] = None] /\ waited' = [waited EXCEPT ![w] = 0]
        /\ cancels' = cancels + 1 /\ cancels < MaxCancels
    BY DEF Cancel, Forget
  <2>2. cancels' \in 0..MaxCancels
    BY <1>1, <2>1 DEF TypeOK
  <2>3. Nothing \in [Buckets -> Nat]
    BY DEF Nothing
  <2>4. /\ \A b \in Buckets : Full(b)' = Full(b) /\ FullAfter(b)' = FullAfter(b)
        /\ Patience' = Patience
    BY DEF Full, FullAfter, Patience
  <2> QED
    BY <1>1, <1>2, <2>1, <2>2, <2>3, <2>4 DEF TypeOK
<1>4. \A b \in Buckets : Keeps(b)
  BY <1>2, Untouched DEF Keeps
<1>5. ASSUME NEW v \in Waiters
      PROVE  Shadowed(v)'
  <2>1. v = w => at'[v] = 0
    BY <1>1, <1>2 DEF TypeOK
  <2>2. v # w => at'[v] = at[v] /\ shadow'[v] = shadow[v]
    BY <1>1, <1>2 DEF TypeOK
  <2> QED
    BY <1>4, <2>1, <2>2 DEF IInv, Shadowed, Keeps, Full
<1>6. ASSUME NEW b \in Buckets
      PROVE  Budget(b)'
  <2>1. /\ Refilled(b)' = Refilled(b) /\ Refilled(b) \in Nat /\ level[b] \in Nat
        /\ at[w] \in Nat /\ b \in Nat
    BY <1>1, <1>4, RefilledType, BucketTypes DEF Keeps, TypeOK
  <2>2. /\ Cardinality(Ahead(b)) \in Nat /\ Cardinality(Ahead(b)') \in Nat
        /\ Cardinality(Ahead(b)') <= Cardinality(Ahead(b))
    <3>1. CASE at[w] > b
      <4>1. at[w] > b /\ 0 <= b
        BY <2>1, <3>1
      <4>2. /\ Cardinality(Ahead(b)) \in Nat /\ Cardinality(Ahead(b)') \in Nat
            /\ Cardinality(Ahead(b)) = Cardinality(Ahead(b)') + 1
        BY <1>1, <1>2, <4>1, AheadMoves
      <4> QED
        BY <4>2
    <3>2. CASE ~(at[w] > b)
      <4>1. at[w] > b <=> 0 > b
        BY <2>1, <3>2
      <4>2. Ahead(b)' = Ahead(b) /\ Cardinality(Ahead(b)) \in Nat
        BY <1>1, <1>2, <4>1, AheadMoves
      <4> QED
        BY <4>2
    <3> QED
      BY <3>1, <3>2
  <2>3. Cardinality(Ahead(b)') + 0 <= Cardinality(Ahead(b)) + 0
    BY <2>2
  <2>4. level'[b] + Refilled(b)' + 0 * Unit <= level[b] + Refilled(b) + 0 * Unit
    BY <1>1, <1>2, <2>1
  <2>5. level'[b] \in Nat /\ Refilled(b)' \in Nat
    BY <1>2, <2>1
  <2> QED
    BY <1>1, <2>2, <2>3, <2>4, <2>5, BudgetKept DEF IInv
<1>7. level'[Last] + Refilled(Last)' <= Full(Last)
  BY <1>1, <1>2, <1>4 DEF IInv, Keeps
<1> QED
  BY <1>3, <1>5, <1>6, <1>7 DEF IInv, Full

(* Steps that move no waiter: each shadow follows, each budget stays. *)
LEMMA NobodyMoves ==
  ASSUME IInv, at' = at, TypeOK',
         \A v \in Waiters : at[v] # 0 => \A b \in Buckets : Follows(v, b),
         \A b \in Buckets :
           \/ level'[b] + Refilled(b)' <= level[b] + Refilled(b)
           \/ level'[b] = 0
  PROVE  IInv'
<1> DEFINE size == Cardinality(Waiters)
<1>1. TypeOK /\ Last \in Buckets /\ Unit \in Nat
  BY LimiterAssumption DEF IInv, Buckets
<1>2. ASSUME NEW b \in Buckets
      PROVE  /\ Refilled(b)' \in Nat /\ Refilled(b)' <= Full(b) /\ level'[b] \in Nat
             /\ Refilled(b) \in Nat /\ level[b] \in Nat /\ Full(b) \in Nat
  <2>1. tokens'[b] \in Nat /\ since'[b] \in Nat /\ level'[b] \in Nat
    BY DEF TypeOK
  <2>2. Refilled(b)' = AtMost(Full(b), tokens'[b] + since'[b] * Rate[b])
    BY DEF Refilled, Full
  <2>3. since'[b] * Rate[b] \in Nat
    BY <2>1, BucketTypes
  <2>4. Refilled(b)' \in Nat /\ Refilled(b)' <= Full(b)
    BY <2>1, <2>2, <2>3, BucketTypes DEF AtMost
  <2> QED
    BY <1>1, <2>1, <2>4, BucketTypes, RefilledType DEF TypeOK
<1>3. ASSUME NEW v \in Waiters
      PROVE  Shadowed(v)'
  <2>1. CASE at[v] = 0
    BY <2>1 DEF Shadowed
  <2>2. CASE at[v] # 0
    <3>1. at'[v] = at[v] /\ Shadowed(v)
      BY DEF IInv
    <3> QED
      BY <1>1, <2>2, <3>1, ShadowKept
  <2> QED
    BY <2>1, <2>2
<1>4. ASSUME NEW b \in Buckets
      PROVE  Budget(b)'
  <2>1. Ahead(b)' = Ahead(b) /\ IsFiniteSet(Ahead(b))
    <3>1. Ahead(b) \subseteq Waiters
      BY DEF Ahead
    <3> QED
      BY <3>1, FS_Subset, LimiterAssumption DEF Ahead
  <2>2. Cardinality(Ahead(b)) \in Nat /\ Cardinality(Ahead(b)') \in Nat
    BY <2>1, FS_CardinalityType
  <2>3. CASE level'[b] + Refilled(b)' <= level[b] + Refilled(b)
    <3>1. level'[b] + Refilled(b)' + 0 * Unit <= level[b] + Refilled(b) + 0 * Unit
      BY <1>1, <1>2, <2>3
    <3>2. Cardinality(Ahead(b)') + 0 <= Cardinality(Ahead(b)) + 0
      BY <2>1, <2>2
    <3>3. Budget(b)
      BY DEF IInv
    <3> QED
      BY <1>1, <1>2, <2>2, <3>1, <3>2, <3>3, BudgetKept
  <2>4. CASE level'[b] = 0
    <3>1. size \in Nat /\ Cardinality(Ahead(b)) <= size
      <4>1. Ahead(b) \subseteq Waiters
        BY DEF Ahead
      <4> QED
        BY <4>1, LimiterAssumption, FS_CardinalityType, FS_Subset
    <3>2. Cardinality(Ahead(b)) * Unit <= size * Unit
      BY <1>1, <2>2, <3>1
    <3>3. Cardinality(Ahead(b)) * Unit \in Nat /\ size * Unit \in Nat
      BY <1>1, <2>2, <3>1
    <3>4. level'[b] + Refilled(b)' + Cardinality(Ahead(b)) * Unit <= Full(b) + size * Unit
      BY <1>2, <2>4, <3>2, <3>3
    <3> QED
      BY <2>1, <3>4 DEF Budget, Full
  <2> QED
    BY <2>3, <2>4
<1>5. level'[Last] + Refilled(Last)' <= Full(Last)
  <2>1. CASE level'[Last] + Refilled(Last)' <= level[Last] + Refilled(Last)
    BY <1>1, <1>2, <2>1 DEF IInv
  <2>2. CASE level'[Last] = 0
    BY <1>1, <1>2, <2>2
  <2> QED
    BY <1>1, <2>1, <2>2
<1> QED
  BY <1>3, <1>4, <1>5 DEF IInv, Full

LEMMA TryAcquireKeeps ==
  ASSUME IInv, TryAcquire
  PROVE  IInv'
<1>1. TypeOK /\ 1 \in Buckets /\ Unit \in Nat
  BY LimiterAssumption DEF IInv, Buckets
<1>2. /\ at' = at /\ timeout' = timeout /\ waited' = waited /\ cancels' = cancels
      /\ since' = Noted(1)
  BY DEF TryAcquire
<1>3. /\ \A b \in Buckets : Full(b)' = Full(b) /\ FullAfter(b)' = FullAfter(b)
      /\ Patience' = Patience
  BY DEF Full, FullAfter, Patience
<1>4. CASE Lacking(1) = {}
  <2>1. /\ tokens' = Taken(1) /\ level' = GrantedLevel
        /\ shadow' = ShadowsAfter(None, Nothing, LAMBDA b, n : n - Unit)
    BY <1>4 DEF TryAcquire
  <2>2. ASSUME NEW b \in Buckets
        PROVE  Takes(b)
    <3>1. b \in Passed(1)
      BY <1>1, <1>4, StopFacts, BucketTypes DEF Passed
    <3> QED
      BY <1>1, <1>2, <2>1, <3>1, TakenEffect
  <2>3. \A v \in Waiters : v # None
    BY LimiterAssumption
  <2>4. ASSUME NEW v \in Waiters
        PROVE  /\ at[v] = 0 => shadow'[v] = shadow[v]
               /\ at[v] # 0 => shadow'[v] = [b \in Buckets |-> shadow[v][b] - Unit]
    BY <2>1, <2>3 DEF ShadowsAfter
  <2>5. ASSUME NEW v \in Waiters, at[v] # 0
        PROVE  /\ \A b \in Buckets : Follows(v, b)
               /\ \A b \in Buckets : shadow'[v][b] \in Nat
    <3>1. \A b \in Buckets : Follows(v, b)
      BY <2>2, <2>4, <2>5 DEF Follows
    <3>2. Shadowed(v) /\ at'[v] = at[v]
      BY <1>2 DEF IInv
    <3> QED
      BY <1>1, <2>5, <3>1, <3>2, ShadowKept
  <2>6. shadow' \in [Waiters -> [Buckets -> Nat]]
    <3>1. \A v \in Waiters : shadow'[v] \in [Buckets -> Nat]
      BY <1>1, <2>4, <2>5 DEF TypeOK
    <3> QED
      BY <2>1, <3>1 DEF ShadowsAfter
  <2>7. level' \in [Buckets -> Nat] /\ \A b \in Buckets : level'[b] = level[b] + Unit
    <3>1. level' = [b \in Buckets |-> level[b] + Unit]
      BY <2>1 DEF GrantedLevel
    <3>2. \A b \in Buckets : level[b] + Unit \in Nat
      BY <1>1 DEF TypeOK
    <3> QED
      BY <3>1, <3>2
  <2>8. TypeOK'
    BY <1>1, <1>2, <1>3, <2>1, <2>6, <2>7, TurnTypes DEF TypeOK
  <2>9. ASSUME NEW b \in Buckets
        PROVE  level'[b] + Refilled(b)' <= level[b] + Refilled(b)
    <3>1. level[b] \in Nat /\ Refilled(b) \in Nat /\ Refilled(b)' = Refilled(b) - Unit
      BY <1>1, <2>2, RefilledType DEF Takes, TypeOK
    <3> QED
      BY <1>1, <2>7, <3>1
  <2> QED
    BY <1>2, <2>5, <2>8, <2>9, NobodyMoves
<1>5. CASE Lacking(1) # {}
  <2>1. /\ tokens' = [b \in Buckets |-> IF b \in LookedAt(1) THEN Refilled(b) ELSE tokens[b]]
        /\ level' = level /\ shadow' = shadow
    BY <1>5 DEF TryAcquire
  <2>2. ASSUME NEW b \in Buckets
        PROVE  Keeps(b)
    <3>1. CASE b \in LookedAt(1)
      <4>1. tokens'[b] = Refilled(b) /\ since'[b] = 0
        BY <1>2, <2>1, <3>1 DEF Noted
      <4> QED
        BY <1>1, <4>1, JustRefilled, RefilledType DEF Keeps
    <3>2. CASE b \notin LookedAt(1)
      <4>1. tokens'[b] = tokens[b] /\ since'[b] = since[b]
        BY <1>2, <2>1, <3>2 DEF Noted
      <4> QED
        BY <4>1, Untouched DEF Keeps
    <3> QED
      BY <3>1, <3>2
  <2>3. \A b \in Buckets : /\ Refilled(b) \in Nat /\ Refilled(b) <= Full(b)
                           /\ tokens[b] \in Nat /\ tokens[b] <= Full(b) /\ level[b] \in Nat
    BY <1>1, RefilledType DEF TypeOK
  <2>4. TypeOK'
    BY <1>1, <1>2, <1>3, <2>1, <2>3, TurnTypes DEF TypeOK
  <2>5. \A v \in Waiters : \A b \in Buckets : Follows(v, b)
    BY <2>1, <2>2 DEF Follows
  <2>6. \A b \in Buckets : level'[b] + Refilled(b)' <= level[b] + Refilled(b)
    BY <2>1, <2>2, <2>3 DEF Keeps
  <2> QED
    BY <1>2, <2>4, <2>5, <2>6, NobodyMoves
<1> QED
  BY <1>4, <1>5

LEMMA TickKeeps ==
  ASSUME IInv, Tick
  PROVE  IInv'
<1>1. TypeOK
  BY DEF IInv
<1>2. /\ at' = at /\ timeout' = timeout /\ cancels' = cancels /\ tokens' = tokens
      /\ since' = [b \in Buckets |-> AtMost(FullAfter(b), since[b] + 1)]
      /\ level' = [b \in Buckets |-> Less(level[b], Rate[b])]
      /\ waited' = [w \in Waiters |-> IF timeout[w] = None THEN 0
                                      ELSE AtMost(Patience, waited[w] + 1)]
      /\ shadow' = [w \in Waiters |->
                      IF at[w] = 0 THEN shadow[w]
                      ELSE [b \in Buckets |-> AtMost(Full(b), shadow[w][b] + Rate[b])]]
  BY DEF Tick
<1>3. ASSUME NEW b \in Buckets
      PROVE  /\ Gains(b, Rate[b])
             /\ since'[b] \in Nat /\ since'[b] <= FullAfter(b) /\ level'[b] \in Nat
             /\ \/ level'[b] + Refilled(b)' <= level[b] + Refilled(b)
                \/ level'[b] = 0
  <2>1. tokens'[b] = tokens[b] /\ since'[b] = AtMost(FullAfter(b), since[b] + 1)
    BY <1>2
  <2>2. Refilled(b)' = AtMost(Full(b), Refilled(b) + Rate[b])
    BY <1>1, <2>1, GainsRate
  <2>3. /\ level'[b] = Less(level[b], Rate[b]) /\ level[b] \in Nat /\ Rate[b] \in Nat
        /\ Refilled(b) \in Nat /\ Full(b) \in Nat
    BY <1>1, <1>2, BucketTypes, RefilledType DEF TypeOK
  <2>4. since'[b] \in Nat /\ since'[b] <= FullAfter(b)
    BY <1>1, <2>1, BucketTypes DEF AtMost, TypeOK
  <2>5. /\ level'[b] \in Nat
        /\ \/ level'[b] + Refilled(b)' <= level[b] + Refilled(b)
           \/ level'[b] = 0
    BY <2>2, <2>3 DEF Less, AtMost
  <2> QED
    BY <2>2, <2>4, <2>5 DEF Gains
<1>4. ASSUME NEW v \in Waiters, at[v] # 0
      PROVE  \A b \in Buckets : Follows(v, b)
  <2> SUFFICES ASSUME NEW b \in Buckets PROVE Follows(v, b)
    OBVIOUS
  <2>1. shadow'[v][b] = AtMost(Full(b), shadow[v][b] + Rate[b])
    BY <1>2, <1>4
  <2> QED
    BY <1>3, <2>1, BucketTypes DEF Follows
<1>5. TypeOK'
  <2>1. waited' \in [Waiters -> 0..Patience]
    <3>1. ASSUME NEW w \in Waiters PROVE waited'[w] \in 0..Patience
      <4>1. waited[w] \in 0..Patience /\ Patience \in Nat
        BY <1>1, PatienceType DEF TypeOK
      <4> QED
        BY <1>2, <4>1 DEF AtMost
    <3> QED
      BY <1>2, <3>1
  <2>2. shadow' \in [Waiters -> [Buckets -> Nat]]
    <3>1. ASSUME NEW w \in Waiters PROVE shadow'[w] \in [Buckets -> Nat]
      <4>1. CASE at[w] = 0
        BY <1>1, <1>2, <4>1 DEF TypeOK
      <4>2. CASE at[w] # 0
        <5>1. \A b \in Buckets : AtMost(Full(b), shadow[w][b] + Rate[b]) \in Nat
          BY <1>1, BucketTypes DEF TypeOK, AtMost
        <5> QED
          BY <1>2, <4>2, <5>1
      <4> QED
        BY <4>1, <4>2
    <3> QED
      BY <1>2, <3>1
  <2>3. since' \in [Buckets -> Nat] /\ \A b \in Buckets : since'[b] <= FullAfter(b)
    BY <1>2, <1>3
  <2>4. level' \in [Buckets -> Nat]
    BY <1>2, <1>3
  <2>5. /\ \A b \in Buckets : Full(b)' = Full(b) /\ FullAfter(b)' = FullAfter(b)
        /\ Patience' = Patience
    BY DEF Full, FullAfter, Patience
  <2> QED
    BY <1>1, <1>2, <2>1, <2>2, <2>3, <2>4, <2>5 DEF TypeOK
<1> QED
  BY <1>2, <1>3, <1>4, <1>5, NobodyMoves

-----------------------------------------------------------------------------
LEMMA InitSound == Init => IInv
<1> SUFFICES ASSUME Init PROVE IInv
  OBVIOUS
<1>1. /\ 0 \in 0..Last /\ 0 \in 0..Patience /\ 0 \in 0..MaxCancels
      /\ None \in Timeouts \cup {None} /\ Last \in Buckets /\ Unit \in Nat
  BY LimiterAssumption, PatienceType DEF Buckets
<1>2. \A b \in Buckets : Full(b) \in Nat /\ FullAfter(b) \in Nat
  BY BucketTypes
<1>3. TypeOK
  <2>1. \A b \in Buckets : tokens[b] \in Nat /\ tokens[b] <= Full(b)
    BY <1>2 DEF Init
  <2>2. \A b \in Buckets : since[b] = 0 /\ since[b] <= FullAfter(b)
    BY <1>2 DEF Init, Nothing
  <2>3. Nothing \in [Buckets -> Nat]
    BY DEF Nothing
  <2> QED
    BY <1>1, <2>1, <2>2, <2>3 DEF Init, TypeOK
<1>4. ASSUME NEW v \in Waiters PROVE Shadowed(v)
  BY DEF Init, Shadowed
<1>5. ASSUME NEW b \in Buckets PROVE level[b] = 0 /\ Budget(b)
  <2>1. level[b] = 0
    BY DEF Init, Nothing
  <2>2. Ahead(b) = {}
    BY BucketTypes DEF Init, Ahead
  <2>3. Cardinality(Ahead(b)) = 0
    BY <2>2, FS_EmptySet
  <2>4. Cardinality(Waiters) * Unit \in Nat
    BY <1>1, LimiterAssumption, FS_CardinalityType
  <2> QED
    BY <1>1, <1>2, <1>3, <2>1, <2>3, <2>4, RefilledType DEF Budget
<1>6. level[Last] + Refilled(Last) <= Full(Last)
  BY <1>1, <1>2, <1>3, <1>5, RefilledType
<1> QED
  BY <1>3, <1>4, <1>5, <1>6 DEF IInv

LEMMA StutterSound ==
  ASSUME IInv, UNCHANGED vars
  PROVE  IInv'
<1>1. /\ at' = at /\ level' = level /\ shadow' = shadow /\ tokens' = tokens
      /\ since' = since /\ timeout' = timeout /\ waited' = waited /\ cancels' = cancels
  BY DEF vars
<1>2. TypeOK'
  BY <1>1 DEF IInv, TypeOK, Full, FullAfter, Patience
<1>3. \A b \in Buckets : Keeps(b)
  BY <1>1, Untouched DEF Keeps
<1>4. \A v \in Waiters : \A b \in Buckets : Follows(v, b)
  BY <1>1, <1>3 DEF Follows
<1>5. ASSUME NEW b \in Buckets
      PROVE  level'[b] + Refilled(b)' <= level[b] + Refilled(b)
  <2>1. level[b] \in Nat /\ Refilled(b) \in Nat
    BY RefilledType DEF IInv, TypeOK
  <2> QED
    BY <1>1, <1>3, <2>1 DEF Keeps
<1> QED
  BY <1>1, <1>2, <1>4, <1>5, NobodyMoves

LEMMA NextSound == IInv /\ [Next]_vars => IInv'
<1> SUFFICES ASSUME IInv, [Next]_vars PROVE IInv'
  OBVIOUS
<1>1. ASSUME NEW w \in Waiters, Begin(w) PROVE IInv'
  BY <1>1, BeginKeeps
<1>2. ASSUME NEW w \in Waiters, Poll(w) PROVE IInv'
  BY <1>2, PollKeeps
<1>3. ASSUME NEW w \in Waiters, Cancel(w) PROVE IInv'
  BY <1>3, CancelKeeps
<1>4. CASE TryAcquire
  BY <1>4, TryAcquireKeeps
<1>5. CASE Tick
  BY <1>5, TickKeeps
<1>6. CASE UNCHANGED vars
  BY <1>6, StutterSound
<1> QED
  BY <1>1, <1>2, <1>3, <1>4, <1>5, <1>6 DEF Next

(* The invariant holds in every reachable state. *)
THEOREM InvariantHolds == Spec => []IInv
<1> QED
  BY InitSound, NextSound, PTL DEF Spec

(* Every variable keeps its type: no bucket goes below zero tokens or above its
   capacity, and the time since its last refill stays a number.              *)
THEOREM TypeCorrect == Spec => []TypeOK
<1>1. IInv => TypeOK
  BY DEF IInv
<1> QED
  BY <1>1, InvariantHolds, PTL

(* However callers interleave in TokenBucket.acquire and however often _refill
   runs, over any stretch of time the last bucket grants no more than its capacity
   and what it gained meanwhile; an earlier one exceeds that by at most a token
   for each waiter that paid it.                                              *)
THEOREM GrantsWithinRate == Spec => []WithinRate
<1>1. IInv => WithinRate
  <2> SUFFICES ASSUME IInv PROVE WithinRate
    OBVIOUS
  <2>1. TypeOK /\ Last \in Buckets
    BY LimiterAssumption DEF IInv, Buckets
  <2>2. level[Last] <= Full(Last)
    BY <2>1, RefilledType, BucketTypes DEF IInv, TypeOK
  <2>3. ASSUME NEW b \in Buckets
        PROVE  level[b] <= Full(b) + Cardinality(Waiters) * Unit
    <3>1. Cardinality(Ahead(b)) * Unit \in Nat
      <4>1. IsFiniteSet(Ahead(b))
        BY LimiterAssumption, FS_Subset DEF Ahead
      <4> QED
        BY <4>1, FS_CardinalityType, BucketTypes
    <3>2. Cardinality(Waiters) * Unit \in Nat
      BY LimiterAssumption, FS_CardinalityType, BucketTypes
    <3>3. level[b] \in Nat /\ Refilled(b) \in Nat /\ Full(b) \in Nat
      BY <2>1, RefilledType, BucketTypes DEF TypeOK
    <3> QED
      BY <3>1, <3>2, <3>3 DEF IInv, Budget
  <2> QED
    BY <2>2, <2>3 DEF WithinRate
<1> QED
  BY <1>1, InvariantHolds, PTL

-----------------------------------------------------------------------------
(* Only w's own turn, and of its three ends only the denial, is a step that
   Denied(w) describes.                                                     *)
LEMMA DenialIsATurn ==
  ASSUME IInv, [Next]_vars, NEW w \in Waiters, Denied(w)
  PROVE  /\ at[w] \in Buckets /\ since' = Noted(at[w])
         /\ tokens' = RolledBack(at[w])
<1>1. /\ TypeOK /\ Last \in Buckets /\ Unit \in Nat /\ Unit > 0
      /\ level[Last] \in Nat /\ at \in [Waiters -> 0..Last]
  <2>1. Last \in Buckets
    BY LimiterAssumption DEF Buckets
  <2> QED
    BY <2>1, BucketTypes DEF IInv, TypeOK
<1>2. at[w] # 0 /\ at'[w] = 0 /\ level' = level /\ cancels' = cancels
  BY DEF Denied
<1>3. at[w] \in Buckets
  BY <1>1, <1>2, LimiterAssumption DEF Buckets
<1>4. level' # GrantedLevel
  <2>1. GrantedLevel[Last] = level[Last] + Unit
    BY <1>1 DEF GrantedLevel
  <2> QED
    BY <1>1, <1>2, <2>1
<1>5. ASSUME NEW v \in Waiters, NEW first \in Buckets, NEW limit, NEW elapsed, NEW mine,
             Turn(v, first, limit, elapsed, mine), at[v] = first \/ at[v] = 0
      PROVE  /\ v = w /\ at[v] = first
             /\ since' = Noted(at[w]) /\ tokens' = RolledBack(at[w])
  <2>1. /\ since' = Noted(first)
        /\ GivesUp(v, first) \/ WaitsOn(v, first, limit, elapsed, mine)
    BY <1>4, <1>5, TurnEnds DEF Granted
  <2>2. PICK k : at' = [at EXCEPT ![v] = k]
    BY <2>1 DEF GivesUp, WaitsOn, Forget
  <2>3. v = w /\ at[v] = first
    BY <1>1, <1>2, <1>5, <2>2
  <2>4. ~WaitsOn(v, first, limit, elapsed, mine)
    <3> SUFFICES ASSUME WaitsOn(v, first, limit, elapsed, mine) PROVE FALSE
      OBVIOUS
    <3>1. Stop(first) \in Buckets /\ at'[v] = Stop(first)
      BY <1>1, StopFacts DEF WaitsOn
    <3> QED
      BY <1>2, <2>3, <3>1, BucketTypes
  <2> QED
    BY <2>1, <2>3, <2>4 DEF GivesUp
<1>6. ASSUME NEW v \in Waiters, Begin(v) PROVE FALSE
  <2>1. 1 \in Buckets
    BY LimiterAssumption DEF Buckets
  <2>2. PICK limit \in Timeouts : Turn(v, 1, limit, 0, [b \in Buckets |-> Refilled(b)])
    BY <1>6 DEF Begin
  <2>3. at[v] = 0
    BY <1>6 DEF Begin
  <2>4. v = w
    BY <1>5, <2>1, <2>2, <2>3
  <2> QED
    BY <1>2, <2>3, <2>4
<1>7. ASSUME NEW v \in Waiters, Poll(v)
      PROVE  since' = Noted(at[w]) /\ tokens' = RolledBack(at[w])
  <2>1. at[v] \in Buckets
    BY <1>1, <1>7, LimiterAssumption DEF Poll, Buckets
  <2> QED
    BY <1>5, <1>7, <2>1 DEF Poll
<1>8. ASSUME NEW v \in Waiters, Cancel(v) PROVE FALSE
  <2>1. cancels \in Nat /\ cancels' = cancels + 1
    BY <1>1, <1>8, LimiterAssumption DEF TypeOK, Cancel
  <2> QED
    BY <1>2, <2>1
<1>9. CASE at' = at
  BY <1>2, <1>9
<1> QED
  BY <1>3, <1>6, <1>7, <1>8, <1>9 DEF Next, TryAcquire, Tick, vars

(* RateLimiter.acquire's roll-back ("so we don't silently drain them"): when an
   acquire is denied, each bucket has at least what it would have had if the
   acquire had never been made, and at most one token more, in a bucket it had
   paid in an earlier turn.                                                  *)
THEOREM DenialIsFree == Spec => DeniedCostsNothing
<1> DEFINE Free ==
      \A w \in Waiters : Denied(w) =>
        \A b \in Buckets :
          /\ Refilled(b)' >= shadow[w][b]
          /\ Refilled(b)' <= shadow[w][b] + (IF b < at[w] THEN Unit ELSE 0)
<1>1. IInv /\ [Next]_vars => [Free]_vars
  <2> SUFFICES ASSUME IInv, [Next]_vars, NEW w \in Waiters, Denied(w), NEW b \in Buckets
               PROVE  /\ Refilled(b)' >= shadow[w][b]
                      /\ Refilled(b)' <= shadow[w][b] + (IF b < at[w] THEN Unit ELSE 0)
    OBVIOUS
  <2>1. TypeOK /\ at[w] # 0
    BY DEF IInv, Denied
  <2>2. IF b < at[w] THEN Gains(b, Unit) ELSE Keeps(b)
    BY <2>1, DenialIsATurn, RolledBackEffect
  <2>3. /\ Refilled(b) <= shadow[w][b] /\ shadow[w][b] <= Full(b)
        /\ shadow[w][b] <= Refilled(b) + (IF b < at[w] THEN Unit ELSE 0)
    BY <2>1 DEF IInv, Shadowed
  <2>4. /\ Refilled(b) \in Nat /\ Full(b) \in Nat /\ Unit \in Nat
        /\ shadow[w][b] \in Nat
    BY <2>1, RefilledType, BucketTypes DEF TypeOK
  <2>5. CASE b < at[w]
    BY <2>2, <2>3, <2>4, <2>5 DEF Gains, AtMost
  <2>6. CASE ~(b < at[w])
    BY <2>2, <2>3, <2>4, <2>6 DEF Keeps
  <2> QED
    BY <2>5, <2>6
<1>2. Spec => [][Free]_vars
  BY <1>1, InvariantHolds, PTL DEF Spec
<1> QED
  BY <1>2 DEF DeniedCostsNothing
=============================================================================
