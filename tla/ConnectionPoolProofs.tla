--------------------------- MODULE ConnectionPoolProofs ---------------------------
(* What TLAPS proves of ConnectionPool, for any finite set of clients, any set
   of connections and any limit.                                           *)
EXTENDS ConnectionPool, FiniteSetTheorems, SequenceTheorems, TLAPS

(* pool.pop() takes one connection off, and it was there once. *)
LEMMA Popped ==
  ASSUME NEW s \in Seq(Conns), s # <<>>, IsInjective(s)
  PROVE  /\ Last(s) \in Conns /\ Last(s) \in ToSet(s)
         /\ Front(s) \in Seq(Conns) /\ IsInjective(Front(s))
         /\ ToSet(Front(s)) = ToSet(s) \ {Last(s)}
<1> DEFINE n == Len(s) - 1
<1>1. Len(s) \in Nat /\ n \in Nat /\ DOMAIN s = 1..(n + 1)
  BY LenProperties, EmptySeq
<1>2. \A i \in 1..(n + 1) : s[i] \in Conns
  BY <1>1, ElementOfSeq
<1>3. Last(s) = s[n + 1]
  BY <1>1 DEF Last
<1>4. /\ Front(s) \in Seq(Conns) /\ Len(Front(s)) = n
      /\ \A i \in 1..n : Front(s)[i] = s[i]
  <2>1. Front(s) = SubSeq(s, 1, n)
    BY DEF Front
  <2>2. \A i \in 1..n : s[i] \in Conns
    BY <1>1, <1>2
  <2>3. /\ SubSeq(s, 1, n) \in Seq(Conns)
        /\ Len(SubSeq(s, 1, n)) = IF 1 <= n THEN n - 1 + 1 ELSE 0
        /\ \A i \in 1..(n - 1 + 1) : SubSeq(s, 1, n)[i] = s[1 + i - 1]
    BY <1>1, <2>2, SubSeqProperties
  <2> QED
    BY <1>1, <2>1, <2>3
<1>5. DOMAIN Front(s) = 1..n
  BY <1>4, LenProperties
<1> HIDE DEF n
<1>6. ToSet(s) = {s[i] : i \in 1..(n + 1)} /\ ToSet(Front(s)) = {s[i] : i \in 1..n}
  BY <1>1, <1>4, <1>5 DEF ToSet
<1>7. \A i, j \in 1..(n + 1) : s[i] = s[j] => i = j
  BY <1>1 DEF IsInjective
<1>8. IsInjective(Front(s))
  BY <1>1, <1>4, <1>5, <1>7 DEF IsInjective
<1>9. \A i \in 1..n : s[i] # s[n + 1]
  BY <1>1, <1>7
<1>10. ToSet(Front(s)) = ToSet(s) \ {Last(s)}
  <2>1. \A i \in 1..(n + 1) : i \in 1..n \/ i = n + 1
    BY <1>1
  <2>2. \A i \in 1..n : i \in 1..(n + 1)
    BY <1>1
  <2> QED
    BY <1>3, <1>6, <1>9, <2>1, <2>2
<1>11. Last(s) \in ToSet(s) /\ Last(s) \in Conns
  BY <1>1, <1>2, <1>3, <1>6
<1> QED
  BY <1>4, <1>8, <1>10, <1>11

(* pool.append(conn) of a connection that is not idle. *)
LEMMA Pushed ==
  ASSUME NEW s \in Seq(Conns), IsInjective(s), NEW k \in Conns, k \notin ToSet(s)
  PROVE  /\ Append(s, k) \in Seq(Conns) /\ IsInjective(Append(s, k))
         /\ ToSet(Append(s, k)) = ToSet(s) \cup {k}
<1> DEFINE n == Len(s)
           t == Append(s, k)
<1>1. n \in Nat /\ DOMAIN s = 1..n
  BY LenProperties
<1>2. t \in Seq(Conns) /\ Len(t) = n + 1 /\ t[n + 1] = k /\ \A i \in 1..n : t[i] = s[i]
  BY <1>1
<1>3. DOMAIN t = 1..(n + 1)
  BY <1>2, LenProperties
<1>4. \A i \in 1..(n + 1) : i \in 1..n \/ i = n + 1
  BY <1>1
<1>5. \A i \in 1..n : i \in 1..(n + 1) /\ i # n + 1 /\ s[i] # k
  BY <1>1 DEF ToSet
<1>6. n + 1 \in 1..(n + 1)
  BY <1>1
<1> HIDE DEF n, t
<1>7. ToSet(t) = ToSet(s) \cup {k}
  BY <1>1, <1>2, <1>3, <1>4, <1>5, <1>6 DEF ToSet
<1>8. IsInjective(t)
  BY <1>1, <1>2, <1>3, <1>4, <1>5 DEF IsInjective
<1> QED
  BY <1>2, <1>7, <1>8 DEF t

LEMMA EmptyPool == ToSet(<<>>) = {} /\ <<>> \in Seq(Conns) /\ IsInjective(<<>>)
BY DEF ToSet, IsInjective

-----------------------------------------------------------------------------
(* A client that moves on: what Goto does, and what it does to the number of
   handshakes under way.                                                   *)

LEMMA ConnectingFinite ==
  /\ IsFiniteSet(Connecting) /\ Cardinality(Connecting) \in Nat
BY PoolAssumption, FS_Subset, FS_CardinalityType DEF Connecting

LEMMA GotoEffect ==
  ASSUME TypeOK, NEW c \in Clients, NEW w \in PCs, NEW k \in Conns \cup {None},
         Goto(c, w, k)
  PROVE  /\ pc' \in [Clients -> PCs] /\ conn' \in [Clients -> Conns \cup {None}]
         /\ pc'[c] = w /\ conn'[c] = k
         /\ \A d \in Clients : d # c => pc'[d] = pc[d] /\ conn'[d] = conn[d]
         /\ w = "connecting" => Connecting' = Connecting \cup {c}
         /\ w # "connecting" => Connecting' = Connecting \ {c}
<1>1. /\ pc' \in [Clients -> PCs] /\ conn' \in [Clients -> Conns \cup {None}]
      /\ pc'[c] = w /\ conn'[c] = k
      /\ \A d \in Clients : d # c => pc'[d] = pc[d] /\ conn'[d] = conn[d]
  BY DEF TypeOK, Goto
<1>2. Connecting' = {d \in Clients : pc'[d] = "connecting"}
  BY DEF Connecting
<1> QED
  BY <1>1, <1>2 DEF Connecting

(* Moves that begin no handshake and end none leave their number alone. *)
LEMMA SameConnecting ==
  ASSUME TypeOK, NEW c \in Clients, NEW w \in PCs, NEW k \in Conns \cup {None},
         Goto(c, w, k), w # "connecting", pc[c] # "connecting"
  PROVE  Connecting' = Connecting
BY GotoEffect DEF Connecting

LEMMA StartsConnecting ==
  ASSUME TypeOK, NEW c \in Clients, Goto(c, "connecting", None), pc[c] # "connecting"
  PROVE  Cardinality(Connecting') = Cardinality(Connecting) + 1
<1>1. Connecting' = Connecting \cup {c}
  BY GotoEffect DEF PCs
<1>2. c \notin Connecting
  BY DEF Connecting
<1> QED
  BY <1>1, <1>2, ConnectingFinite, FS_AddElement

LEMMA EndsConnecting ==
  ASSUME TypeOK, NEW c \in Clients, NEW w \in PCs \ {"connecting"},
         NEW k \in Conns \cup {None}, Goto(c, w, k), pc[c] = "connecting"
  PROVE  /\ Cardinality(Connecting') = Cardinality(Connecting) - 1
         /\ Cardinality(Connecting) >= 1
<1>1. Connecting' = Connecting \ {c}
  BY GotoEffect
<1>2. c \in Connecting
  BY DEF Connecting
<1>3. Cardinality(Connecting') = Cardinality(Connecting) - 1
  BY <1>1, <1>2, ConnectingFinite, FS_RemoveElement
<1>4. Cardinality(Connecting) # 0
  BY <1>2, ConnectingFinite, FS_EmptySet
<1> QED
  BY <1>3, <1>4, ConnectingFinite

-----------------------------------------------------------------------------
(* The inductive invariant. *)

LEMMA InitIInv == Init => IInv
<1> SUFFICES ASSUME Init PROVE IInv
  OBVIOUS
<1>1. TypeOK
  <2>1. pool \in Seq(Conns) /\ closed \in BOOLEAN /\ inUse \in SUBSET Conns
    BY EmptyPool DEF Init
  <2>2. pending \in Nat /\ cancels \in 0..MaxCancels /\ toClose \in SUBSET Conns
    BY PoolAssumption DEF Init
  <2>3. /\ pc \in [Clients -> PCs] /\ conn \in [Clients -> Conns \cup {None}]
        /\ socket \in [Conns -> Sockets]
    BY DEF Init, PCs, Sockets
  <2> QED
    BY <2>1, <2>2, <2>3 DEF TypeOK
<1>2. Connecting = {} /\ Cardinality(Connecting) = 0
  BY FS_EmptySet DEF Init, Connecting
<1>3. SlotsAccounted
  BY <1>2 DEF Init, SlotsAccounted, Working
<1>4. ExclusiveLending /\ QuitIsFinal
  BY EmptyPool DEF Init, ExclusiveLending, QuitIsFinal, Working, Returnable, Idle, Asked
<1>5. HoldsWhileBusy /\ LeavingIsUncounted /\ ClosingIsClosed /\ ClosedPoolIsEmpty
  BY DEF Init, HoldsWhileBusy, LeavingIsUncounted, ClosingIsClosed, ClosedPoolIsEmpty
<1> QED
  BY <1>1, <1>3, <1>4, <1>5 DEF IInv

(* A client that goes on with its connection or lets go of it, that begins no
   handshake and leaves _pool alone.  It stays in _in_use as long as it works,
   and leaves it when it stops unless it is cancelled.                      *)
LEMMA Move ==
  ASSUME IInv, NEW c \in Clients, NEW w \in PCs \ {"connecting"},
         NEW k \in {conn[c], None},
         Goto(c, w, k), pc[c] # "connecting",
         k # None <=> w \in {"checking", "evicting", "using", "returning", "quitting"},
         inUse' \in {inUse, inUse \ {conn[c]}},
         w \in {"checking", "using"} => Working(c) /\ inUse' = inUse,
         w \in {"evicting", "returning", "quitting"} => conn[c] \notin inUse',
         w \notin {"checking", "using"} => conn[c] \notin inUse' \/ cancels' # 0,
         socket' \in [Conns -> Sockets],
         w = "returning" => Working(c),
         \A j \in Conns : \/ socket'[j] = socket[j]
                          \/ j = conn[c] /\ w \notin {"checking", "using", "returning"},
         UNCHANGED <<pool, pending, closed, toClose>>,
         cancels' \in 0..MaxCancels, cancels <= cancels'
  PROVE  IInv'
<1> USE DEF IInv
<1>1. conn[c] \in Conns \cup {None} /\ k \in Conns \cup {None}
  BY DEF TypeOK
<1>2. /\ pc' \in [Clients -> PCs] /\ conn' \in [Clients -> Conns \cup {None}]
      /\ pc'[c] = w /\ conn'[c] = k
      /\ \A d \in Clients : d # c => pc'[d] = pc[d] /\ conn'[d] = conn[d]
  BY <1>1, GotoEffect
<1>3. Connecting' = Connecting
  BY <1>1, SameConnecting
<1>4. Idle' = Idle /\ Idle \subseteq Conns
  BY DEF Idle, TypeOK, ToSet
<1>5. TypeOK'
  BY <1>2 DEF TypeOK
<1>6. ExclusiveLending'
  <2>1. \A d \in Clients : conn'[d] \in {conn[d], None}
    BY <1>2
  <2>2. \A d, e \in Clients : d # e /\ conn'[d] # None => conn'[d] # conn'[e]
    BY <2>1 DEF ExclusiveLending
  <2>3. IsInjective(pool')
    BY DEF ExclusiveLending
  <2>4. \A j \in Idle' : j \notin inUse' /\ \A d \in Clients : conn'[d] # j
    BY <1>4, <2>1, PoolAssumption DEF ExclusiveLending
  <2> QED
    BY <2>2, <2>3, <2>4 DEF ExclusiveLending
<1>7. ClosedPoolIsEmpty' /\ ClosingIsClosed'
  BY DEF ClosedPoolIsEmpty, ClosingIsClosed
<1>8. HoldsWhileBusy'
  BY <1>2 DEF HoldsWhileBusy
<1>9. LeavingIsUncounted'
  BY <1>2 DEF LeavingIsUncounted, HoldsWhileBusy
<1>10. QuitIsFinal'
  <2>1. \A j \in Idle' : j \in Conns /\ socket'[j] \notin Asked
    BY <1>4 DEF QuitIsFinal, ExclusiveLending
  <2>2. ASSUME ~closed, NEW d \in Clients, Returnable(d)'
        PROVE  socket'[conn'[d]] \notin Asked
    <3>1. Returnable(d) /\ conn'[d] = conn[d] /\ conn[d] \in Conns
      BY <1>2, <2>2 DEF Working, Returnable, HoldsWhileBusy, TypeOK
    <3>2. socket'[conn[d]] = socket[conn[d]]
      <4>1. d # c => conn[d] # conn[c]
        BY <3>1, PoolAssumption DEF ExclusiveLending
      <4>2. d = c => w \in {"checking", "using", "returning"}
        BY <1>2, <2>2 DEF Working, Returnable
      <4> QED
        BY <3>1, <4>1, <4>2
    <3> QED
      BY <3>1, <3>2, <2>2 DEF QuitIsFinal
  <2> QED
    BY <2>1, <2>2 DEF QuitIsFinal
<1>11. SlotsAccounted'
  <2>1. ASSUME ~closed, NEW d \in Clients, Working(d)'
        PROVE  conn'[d] \in inUse'
    <3>1. Working(d) /\ conn'[d] = conn[d] /\ conn[d] \in inUse
      BY <1>2, <2>1 DEF Working, HoldsWhileBusy, SlotsAccounted
    <3>2. CASE d = c
      BY <1>2, <2>1, <3>1, <3>2 DEF Working
    <3>3. CASE d # c
      <4>1. conn[d] # conn[c]
        BY <3>1, <3>3, PoolAssumption DEF ExclusiveLending, HoldsWhileBusy, Working
      <4> QED
        BY <3>1, <4>1
    <3> QED
      BY <3>2, <3>3
  <2>2. Cardinality(Connecting') <= pending'
    BY <1>3 DEF SlotsAccounted
  <2>3. ASSUME cancels' = 0
        PROVE  cancels = 0 /\ pending' = Cardinality(Connecting')
    BY <1>3, <2>3 DEF SlotsAccounted, TypeOK
  <2>4. ASSUME cancels' = 0, NEW j \in inUse'
        PROVE  \E d \in Clients : Working(d)' /\ conn'[d] = j
    <3>1. PICK d \in Clients : Working(d) /\ conn[d] = j
      BY <2>3, <2>4 DEF SlotsAccounted
    <3>2. Working(d)' /\ conn'[d] = j
      <4>1. CASE d # c
        BY <1>2, <3>1, <4>1 DEF Working
      <4>2. CASE d = c
        <5>1. w \in {"checking", "using"}
          BY <2>4, <3>1, <4>2
        <5> QED
          BY <1>2, <3>1, <4>2, <5>1 DEF Working, HoldsWhileBusy
      <4> QED
        BY <4>1, <4>2
    <3> QED
      BY <3>2
  <2> QED
    BY <2>1, <2>2, <2>3, <2>4 DEF SlotsAccounted
<1> QED
  BY <1>5, <1>6, <1>7, <1>8, <1>9, <1>10, <1>11

(* What acquire decides under the lock: an idle connection, a reservation or a
   refusal, for a client that comes anew or whose connection was evicted.   *)
LEMMA Acquiring ==
  ASSUME IInv, NEW c \in Clients, pc[c] \in {"idle", "refused", "evicting"},
         Acquire(c),
         socket' \in [Conns -> Sockets],
         \A j \in Conns : socket'[j] = socket[j] \/ j = conn[c],
         UNCHANGED <<closed, toClose, cancels>>
  PROVE  IInv'
<1> USE DEF IInv
<1>a. conn[c] \notin inUse /\ ~Working(c) /\ conn[c] \in Conns \cup {None}
  BY PoolAssumption DEF TypeOK, Working, HoldsWhileBusy, LeavingIsUncounted
<1>1. CASE Refuse(c)
  <2>1. Goto(c, "refused", None) /\ UNCHANGED <<pool, inUse, pending>>
    BY <1>1 DEF Refuse
  <2> QED
    BY <1>a, <2>1, Move DEF TypeOK, PCs
<1>2. CASE TakeIdle(c)
  <2> DEFINE k == Last(pool)
  <2>1. /\ pool # <<>> /\ pool' = Front(pool) /\ inUse' = inUse \cup {k}
        /\ Goto(c, "checking", k) /\ pending' = pending
    BY <1>2 DEF TakeIdle
  <2>2. /\ k \in Conns /\ k \in Idle
        /\ pool' \in Seq(Conns) /\ IsInjective(pool')
        /\ Idle' = Idle \ {k}
    BY <2>1, Popped DEF TypeOK, ExclusiveLending, Idle
  <2> HIDE DEF k
  <2>3. /\ pc' \in [Clients -> PCs] /\ conn' \in [Clients -> Conns \cup {None}]
        /\ pc'[c] = "checking" /\ conn'[c] = k
        /\ \A d \in Clients : d # c => pc'[d] = pc[d] /\ conn'[d] = conn[d]
    BY <2>1, <2>2, GotoEffect DEF PCs
  <2>4. Connecting' = Connecting
    BY <2>1, <2>2, SameConnecting DEF PCs
  <2>5. ~closed /\ k \notin inUse /\ k # None /\ \A d \in Clients : conn[d] # k
    BY <2>1, <2>2, PoolAssumption DEF ClosedPoolIsEmpty, ExclusiveLending
  <2>6. TypeOK'
    BY <2>1, <2>2, <2>3 DEF TypeOK
  <2>7. ExclusiveLending'
    <3>1. \A d, e \in Clients : d # e /\ conn'[d] # None => conn'[d] # conn'[e]
      BY <2>3, <2>5 DEF ExclusiveLending
    <3>2. \A j \in Idle' : j \notin inUse' /\ \A d \in Clients : conn'[d] # j
      BY <2>1, <2>2, <2>3 DEF ExclusiveLending
    <3> QED
      BY <2>2, <3>1, <3>2 DEF ExclusiveLending
  <2>8. ClosedPoolIsEmpty' /\ ClosingIsClosed'
    BY <2>5 DEF ClosedPoolIsEmpty, ClosingIsClosed
  <2>9. HoldsWhileBusy'
    BY <2>3, <2>5 DEF HoldsWhileBusy
  <2>10. LeavingIsUncounted'
    BY <2>1, <2>3, <2>5 DEF LeavingIsUncounted
  <2>11. QuitIsFinal'
    <3>1. \A j \in Idle : j \in Conns /\ socket'[j] \notin Asked
      <4>1. Idle \subseteq Conns
        BY DEF Idle, TypeOK, ToSet
      <4>2. \A j \in Idle : j # conn[c]
        BY DEF ExclusiveLending
      <4> QED
        BY <4>1, <4>2 DEF QuitIsFinal
    <3>2. ASSUME NEW d \in Clients, Returnable(d)'
          PROVE  socket'[conn'[d]] \notin Asked
      <4>1. CASE d = c
        BY <2>2, <2>3, <3>1, <4>1
      <4>2. CASE d # c
        <5>1. Returnable(d) /\ conn'[d] = conn[d] /\ conn[d] \in Conns
          BY <2>3, <3>2, <4>2 DEF Working, Returnable, HoldsWhileBusy, TypeOK
        <5>2. conn[d] # conn[c]
          BY <4>2, <5>1, PoolAssumption DEF ExclusiveLending
        <5> QED
          BY <2>5, <5>1, <5>2 DEF QuitIsFinal
      <4> QED
        BY <4>1, <4>2
    <3> QED
      BY <2>2, <3>1, <3>2 DEF QuitIsFinal
  <2>12. SlotsAccounted'
    <3>1. \A d \in Clients : Working(d)' => conn'[d] \in inUse'
      BY <2>1, <2>3, <2>5 DEF SlotsAccounted, Working
    <3>2. Cardinality(Connecting') <= pending'
      BY <2>1, <2>4 DEF SlotsAccounted
    <3>3. ASSUME cancels' = 0
          PROVE  cancels = 0 /\ pending' = Cardinality(Connecting')
      BY <2>1, <2>4, <3>3 DEF SlotsAccounted
    <3>4. ASSUME cancels' = 0, NEW j \in inUse'
          PROVE  \E d \in Clients : Working(d)' /\ conn'[d] = j
      <4>1. CASE j = k
        BY <2>3, <4>1 DEF Working
      <4>2. CASE j \in inUse
        <5>1. PICK d \in Clients : Working(d) /\ conn[d] = j
          BY <3>3, <3>4, <4>2 DEF SlotsAccounted
        <5> QED
          BY <1>a, <2>3, <5>1 DEF Working
      <4> QED
        BY <2>1, <3>4, <4>1, <4>2
    <3> QED
      BY <3>1, <3>2, <3>3, <3>4 DEF SlotsAccounted
  <2> QED
    BY <2>6, <2>7, <2>8, <2>9, <2>10, <2>11, <2>12
<1>3. CASE Reserve(c)
  <2>1. /\ pool = <<>> /\ pending' = pending + 1
        /\ Goto(c, "connecting", None) /\ UNCHANGED <<pool, inUse>>
    BY <1>3 DEF Reserve
  <2>2. /\ pc' \in [Clients -> PCs] /\ conn' \in [Clients -> Conns \cup {None}]
        /\ pc'[c] = "connecting" /\ conn'[c] = None
        /\ \A d \in Clients : d # c => pc'[d] = pc[d] /\ conn'[d] = conn[d]
    BY <2>1, GotoEffect DEF PCs
  <2>3. Cardinality(Connecting') = Cardinality(Connecting) + 1
    BY <2>1, StartsConnecting
  <2>4. Idle' = {} /\ pool' = <<>>
    BY <2>1, EmptyPool DEF Idle
  <2>5. TypeOK'
    BY <2>1, <2>2 DEF TypeOK
  <2>6. ExclusiveLending'
    BY <2>1, <2>2, <2>4 DEF ExclusiveLending
  <2>7. ClosedPoolIsEmpty' /\ ClosingIsClosed'
    BY <2>1 DEF ClosedPoolIsEmpty, ClosingIsClosed
  <2>8. HoldsWhileBusy'
    BY <2>2 DEF HoldsWhileBusy
  <2>9. LeavingIsUncounted'
    BY <2>1, <2>2 DEF LeavingIsUncounted
  <2>10. QuitIsFinal'
    <3>1. ASSUME ~closed, NEW d \in Clients, Returnable(d)'
          PROVE  socket'[conn'[d]] \notin Asked
      <4>1. Returnable(d) /\ conn'[d] = conn[d] /\ conn[d] \in Conns /\ d # c
        BY <2>2, <3>1 DEF Working, Returnable, HoldsWhileBusy, TypeOK
      <4>2. conn[d] # conn[c]
        BY <4>1, PoolAssumption DEF ExclusiveLending
      <4> QED
        BY <3>1, <4>1, <4>2 DEF QuitIsFinal
    <3> QED
      BY <2>4, <3>1 DEF QuitIsFinal
  <2>11. SlotsAccounted'
    <3>1. ~closed => \A d \in Clients : Working(d)' => conn'[d] \in inUse'
      BY <2>1, <2>2 DEF SlotsAccounted, Working
    <3>2. Cardinality(Connecting') <= pending'
      BY <2>1, <2>3, ConnectingFinite DEF SlotsAccounted, TypeOK
    <3>3. cancels' = 0 => pending' = Cardinality(Connecting')
      BY <2>1, <2>3 DEF SlotsAccounted
    <3>4. ASSUME cancels' = 0, NEW j \in inUse'
          PROVE  \E d \in Clients : Working(d)' /\ conn'[d] = j
      <4>1. PICK d \in Clients : Working(d) /\ conn[d] = j
        BY <2>1, <3>4 DEF SlotsAccounted
      <4> QED
        BY <1>a, <2>2, <4>1 DEF Working
    <3> QED
      BY <3>1, <3>2, <3>3, <3>4 DEF SlotsAccounted
  <2> QED
    BY <2>5, <2>6, <2>7, <2>8, <2>9, <2>10, <2>11
<1> QED
  BY <1>1, <1>2, <1>3 DEF Acquire

-----------------------------------------------------------------------------
(* The other steps. *)

LEMMA ConnectedStep ==
  ASSUME IInv, NEW c \in Clients, Connected(c) PROVE IInv'
<1> USE DEF IInv
<1>1. PICK k \in Fresh : /\ socket' = [socket EXCEPT ![k] = "up"]
                         /\ inUse' = inUse \cup {k}
                         /\ Goto(c, "using", k)
  BY DEF Connected
<1>2. /\ pc[c] = "connecting" /\ pending' = pending - 1
      /\ UNCHANGED <<pool, closed, toClose, cancels>>
  BY DEF Connected
<1>3. /\ k \in Conns /\ k # None /\ k \notin Idle /\ k \notin inUse
      /\ \A d \in Clients : conn[d] # k
  BY PoolAssumption DEF Fresh, Held, Idle
<1>4. /\ pc' \in [Clients -> PCs] /\ conn' \in [Clients -> Conns \cup {None}]
      /\ pc'[c] = "using" /\ conn'[c] = k
      /\ \A d \in Clients : d # c => pc'[d] = pc[d] /\ conn'[d] = conn[d]
  BY <1>1, <1>3, GotoEffect DEF PCs
<1>5. /\ Cardinality(Connecting') = Cardinality(Connecting) - 1
      /\ Cardinality(Connecting) >= 1
  BY <1>1, <1>2, <1>3, EndsConnecting DEF PCs
<1>6. Idle' = Idle /\ Idle \subseteq Conns
  BY <1>2 DEF Idle, TypeOK, ToSet
<1>7. TypeOK'
  <2>1. pending' \in Nat
    BY <1>2, <1>5, ConnectingFinite DEF SlotsAccounted, TypeOK
  <2>2. socket' \in [Conns -> Sockets]
    BY <1>1 DEF TypeOK, Sockets
  <2> QED
    BY <1>1, <1>2, <1>3, <1>4, <2>1, <2>2 DEF TypeOK
<1>8. ExclusiveLending'
  <2>1. \A d, e \in Clients : d # e /\ conn'[d] # None => conn'[d] # conn'[e]
    BY <1>3, <1>4 DEF ExclusiveLending
  <2>2. \A j \in Idle' : j \notin inUse' /\ \A d \in Clients : conn'[d] # j
    BY <1>1, <1>3, <1>4, <1>6 DEF ExclusiveLending
  <2> QED
    BY <1>2, <2>1, <2>2 DEF ExclusiveLending
<1>9. ClosedPoolIsEmpty' /\ ClosingIsClosed'
  BY <1>2 DEF ClosedPoolIsEmpty, ClosingIsClosed
<1>10. HoldsWhileBusy'
  BY <1>3, <1>4 DEF HoldsWhileBusy
<1>11. LeavingIsUncounted'
  BY <1>1, <1>3, <1>4 DEF LeavingIsUncounted
<1>12. QuitIsFinal'
  <2>1. \A j \in Conns : j # k => socket'[j] = socket[j]
    BY <1>1 DEF TypeOK
  <2>2. socket'[k] \notin Asked
    BY <1>1, <1>3 DEF TypeOK, Asked
  <2>3. \A j \in Idle' : socket'[j] \notin Asked
    BY <1>3, <1>6, <2>1 DEF QuitIsFinal
  <2>4. ASSUME ~closed, NEW d \in Clients, Returnable(d)'
        PROVE  socket'[conn'[d]] \notin Asked
    <3>1. CASE d = c
      BY <1>4, <2>2, <3>1
    <3>2. CASE d # c
      <4>1. Returnable(d) /\ conn'[d] = conn[d] /\ conn[d] \in Conns
        BY <1>4, <2>4, <3>2 DEF Working, Returnable, HoldsWhileBusy, TypeOK
      <4> QED
        BY <1>3, <2>1, <2>4, <4>1 DEF QuitIsFinal
    <3> QED
      BY <3>1, <3>2
  <2> QED
    BY <1>2, <2>3, <2>4 DEF QuitIsFinal
<1>13. SlotsAccounted'
  <2>1. ~closed' => \A d \in Clients : Working(d)' => conn'[d] \in inUse'
    BY <1>1, <1>2, <1>4 DEF SlotsAccounted, Working
  <2>2. Cardinality(Connecting') <= pending'
    BY <1>2, <1>5, ConnectingFinite DEF SlotsAccounted, TypeOK
  <2>3. cancels' = 0 => pending' = Cardinality(Connecting')
    BY <1>2, <1>5 DEF SlotsAccounted
  <2>4. ASSUME cancels' = 0, NEW j \in inUse'
        PROVE  \E d \in Clients : Working(d)' /\ conn'[d] = j
    <3>1. CASE j = k
      BY <1>4, <3>1 DEF Working
    <3>2. CASE j \in inUse
      <4>1. PICK d \in Clients : Working(d) /\ conn[d] = j
        BY <1>2, <2>4, <3>2 DEF SlotsAccounted
      <4> QED
        BY <1>2, <1>4, <4>1 DEF Working
    <3> QED
      BY <1>1, <2>4, <3>1, <3>2
  <2> QED
    BY <2>1, <2>2, <2>3, <2>4 DEF SlotsAccounted
<1> QED
  BY <1>7, <1>8, <1>9, <1>10, <1>11, <1>12, <1>13

(* The handshake failed, and gives its reservation back, or was cancelled, and
   does not.                                                               *)
LEMMA HandshakeEnds ==
  ASSUME IInv, NEW c \in Clients, pc[c] = "connecting", Goto(c, "idle", None),
         \/ pending' = pending - 1 /\ cancels' = cancels
         \/ pending' = pending /\ cancels' = cancels + 1 /\ cancels < MaxCancels,
         UNCHANGED <<pool, inUse, closed, toClose, socket>>
  PROVE  IInv'
<1> USE DEF IInv
<1>1. /\ pc' \in [Clients -> PCs] /\ conn' \in [Clients -> Conns \cup {None}]
      /\ pc'[c] = "idle" /\ conn'[c] = None
      /\ \A d \in Clients : d # c => pc'[d] = pc[d] /\ conn'[d] = conn[d]
  BY GotoEffect DEF PCs
<1>2. conn[c] = None
  BY DEF HoldsWhileBusy
<1>3. /\ Cardinality(Connecting') = Cardinality(Connecting) - 1
      /\ Cardinality(Connecting) >= 1
  BY EndsConnecting DEF PCs
<1>4. \A d \in Clients : /\ conn'[d] = conn[d] /\ (Working(d)' <=> Working(d))
                         /\ Returnable(d)' <=> Returnable(d)
  BY <1>1, <1>2 DEF Working, Returnable
<1>5. Idle' = Idle
  BY DEF Idle
<1>6. TypeOK'
  <2>1. pending' \in Nat /\ cancels' \in 0..MaxCancels
    BY <1>3, ConnectingFinite, PoolAssumption DEF SlotsAccounted, TypeOK
  <2> QED
    BY <1>1, <2>1 DEF TypeOK
<1>7. ExclusiveLending' /\ QuitIsFinal'
  BY <1>4, <1>5 DEF ExclusiveLending, QuitIsFinal
<1>8. ClosedPoolIsEmpty' /\ ClosingIsClosed'
  BY DEF ClosedPoolIsEmpty, ClosingIsClosed
<1>9. HoldsWhileBusy' /\ LeavingIsUncounted'
  BY <1>1, <1>2 DEF HoldsWhileBusy, LeavingIsUncounted
<1>10. SlotsAccounted'
  <2>1. ~closed' => \A d \in Clients : Working(d)' => conn'[d] \in inUse'
    BY <1>4 DEF SlotsAccounted
  <2>2. Cardinality(Connecting') <= pending'
    BY <1>3, ConnectingFinite DEF SlotsAccounted, TypeOK
  <2>3. cancels' = 0 => cancels = 0 /\ pending' = Cardinality(Connecting')
    BY <1>3 DEF SlotsAccounted, TypeOK
  <2>4. cancels' = 0 =>
          \A j \in inUse' : \E d \in Clients : Working(d)' /\ conn'[d] = j
    BY <1>4, <2>3 DEF SlotsAccounted
  <2> QED
    BY <2>1, <2>2, <2>3, <2>4 DEF SlotsAccounted
<1> QED
  BY <1>6, <1>7, <1>8, <1>9, <1>10

(* The connection goes back to the pool. *)
LEMMA PooledStep ==
  ASSUME IInv, NEW c \in Clients, pc[c] = "returning", socket[conn[c]] \in Open,
         ~closed, Goto(c, "idle", None), pool' = Append(pool, conn[c]),
         UNCHANGED <<inUse, pending, closed, toClose, socket, cancels>>
  PROVE  IInv'
<1> USE DEF IInv
<1>1. conn[c] \in Conns /\ conn[c] \notin inUse /\ conn[c] \notin Idle
  BY DEF TypeOK, HoldsWhileBusy, LeavingIsUncounted, ExclusiveLending
<1>2. /\ pool' \in Seq(Conns) /\ IsInjective(pool')
      /\ Idle' = Idle \cup {conn[c]}
  BY <1>1, Pushed DEF Idle, TypeOK, ExclusiveLending
<1>3. /\ pc' \in [Clients -> PCs] /\ conn' \in [Clients -> Conns \cup {None}]
      /\ pc'[c] = "idle" /\ conn'[c] = None
      /\ \A d \in Clients : d # c => pc'[d] = pc[d] /\ conn'[d] = conn[d]
  BY GotoEffect DEF PCs
<1>4. Connecting' = Connecting
  BY SameConnecting DEF PCs
<1>5. TypeOK'
  BY <1>2, <1>3 DEF TypeOK
<1>6. ExclusiveLending'
  <2>1. \A d, e \in Clients : d # e /\ conn'[d] # None => conn'[d] # conn'[e]
    BY <1>3 DEF ExclusiveLending
  <2>2. \A d \in Clients : conn'[d] # conn[c]
    BY <1>1, <1>3, PoolAssumption DEF ExclusiveLending
  <2>3. \A j \in Idle' : j \notin inUse' /\ \A d \in Clients : conn'[d] # j
    <3>1. \A j \in Idle : j # None
      BY PoolAssumption DEF Idle, TypeOK, ToSet
    <3> QED
      BY <1>1, <1>2, <1>3, <2>2, <3>1 DEF ExclusiveLending
  <2> QED
    BY <1>2, <2>1, <2>3 DEF ExclusiveLending
<1>7. ClosedPoolIsEmpty' /\ ClosingIsClosed'
  BY DEF ClosedPoolIsEmpty, ClosingIsClosed
<1>8. HoldsWhileBusy' /\ LeavingIsUncounted'
  BY <1>3 DEF HoldsWhileBusy, LeavingIsUncounted
<1>9. \A d \in Clients : Working(d)' <=> Working(d)
  BY <1>3 DEF Working
<1>10. \A d \in Clients : Working(d) => conn'[d] = conn[d]
  BY <1>3 DEF Working
<1>11. QuitIsFinal'
  <2>1. socket[conn[c]] \notin Asked
    BY DEF QuitIsFinal, Returnable
  <2>2. \A d \in Clients : Returnable(d)' => Returnable(d) /\ conn'[d] = conn[d]
    BY <1>3 DEF Working, Returnable
  <2> QED
    BY <1>2, <2>1, <2>2 DEF QuitIsFinal
<1>12. SlotsAccounted'
  BY <1>4, <1>9, <1>10 DEF SlotsAccounted
<1> QED
  BY <1>5, <1>6, <1>7, <1>8, <1>11, <1>12

(* close_all takes every connection the pool knows of. *)
LEMMA CloseAllStep == IInv /\ CloseAll => IInv'
<1> SUFFICES ASSUME IInv, CloseAll PROVE IInv'
  OBVIOUS
<1> USE DEF IInv
<1>1. /\ closed' = TRUE /\ pool' = <<>> /\ inUse' = {}
      /\ toClose' = toClose \cup Idle \cup inUse
      /\ UNCHANGED <<pending, pc, conn, socket, cancels>>
  BY DEF CloseAll, Idle
<1>2. Idle' = {} /\ pool' \in Seq(Conns) /\ IsInjective(pool')
  BY <1>1, EmptyPool DEF Idle
<1>3. Idle \subseteq Conns
  BY DEF Idle, TypeOK, ToSet
<1>4. TypeOK'
  BY <1>1, <1>2, <1>3 DEF TypeOK
<1>5. ExclusiveLending' /\ QuitIsFinal'
  BY <1>1, <1>2 DEF ExclusiveLending, QuitIsFinal
<1>6. ClosedPoolIsEmpty' /\ ClosingIsClosed'
  BY <1>1 DEF ClosedPoolIsEmpty, ClosingIsClosed
<1>7. HoldsWhileBusy' /\ LeavingIsUncounted'
  BY <1>1 DEF HoldsWhileBusy, LeavingIsUncounted
<1>8. SlotsAccounted'
  <2>1. Connecting' = Connecting
    BY <1>1 DEF Connecting
  <2> QED
    BY <1>1, <2>1 DEF SlotsAccounted
<1> QED
  BY <1>4, <1>5, <1>6, <1>7, <1>8

(* quit() changes no other connection, whether it returns or raises. *)
LEMMA QuitEffect ==
  ASSUME socket \in [Conns -> Sockets], NEW k, Quit(k)
  PROVE  /\ socket' \in [Conns -> Sockets]
         /\ \A j \in Conns : socket'[j] = socket[j] \/ j = k
BY DEF Quit, Sockets

(* One connection is quit by close_all, or lost; no bookkeeping changes but
   close_all's own list.                                                   *)
LEMMA SocketStep ==
  ASSUME IInv, socket' \in [Conns -> Sockets],
         ~closed => \A j \in Conns : socket'[j] \in Asked => socket[j] \in Asked,
         toClose' \in SUBSET toClose, cancels' \in 0..MaxCancels, cancels <= cancels',
         UNCHANGED <<pool, inUse, pending, closed, pc, conn>>
  PROVE  IInv'
<1> USE DEF IInv
<1>1. Idle' = Idle /\ Connecting' = Connecting /\ Idle \subseteq Conns
  BY DEF Idle, Connecting, TypeOK, ToSet
<1>2. TypeOK'
  BY DEF TypeOK
<1>3. ExclusiveLending' /\ HoldsWhileBusy' /\ LeavingIsUncounted'
  BY <1>1 DEF ExclusiveLending, HoldsWhileBusy, LeavingIsUncounted
<1>4. ClosedPoolIsEmpty' /\ ClosingIsClosed'
  BY DEF ClosedPoolIsEmpty, ClosingIsClosed
<1>5. QuitIsFinal'
  <2>1. closed => Idle = {}
    BY EmptyPool DEF ClosedPoolIsEmpty, Idle
  <2>2. \A c \in Clients : Returnable(c) => conn[c] \in Conns
    BY DEF Working, Returnable, HoldsWhileBusy, TypeOK
  <2> QED
    BY <1>1, <2>1, <2>2 DEF QuitIsFinal, Working, Returnable
<1>6. SlotsAccounted'
  <2>1. cancels' = 0 => cancels = 0
    BY DEF TypeOK
  <2> QED
    BY <1>1, <2>1 DEF SlotsAccounted, Working
<1> QED
  BY <1>2, <1>3, <1>4, <1>5, <1>6

LEMMA CancelStep ==
  ASSUME IInv, NEW c \in Clients, Cancel(c) PROVE IInv'
<1>1. /\ cancels < MaxCancels /\ cancels' = cancels + 1 /\ Goto(c, "idle", None)
      /\ UNCHANGED <<pool, inUse, pending, closed, toClose, socket>>
  BY DEF Cancel
<1>2. CASE pc[c] = "connecting"
  BY <1>1, <1>2, HandshakeEnds
<1>3. CASE pc[c] # "connecting"
  <2>1. cancels' \in 0..MaxCancels /\ cancels <= cancels' /\ cancels' # 0
    BY <1>1, PoolAssumption DEF IInv, TypeOK
  <2>2. socket' \in [Conns -> Sockets]
    BY <1>1 DEF IInv, TypeOK
  <2> QED
    BY <1>1, <1>3, <2>1, <2>2, Move DEF PCs
<1> QED
  BY <1>2, <1>3

(* Everything a client can do when what it waits for is ready. *)
LEMMA ResumeStep ==
  ASSUME IInv, NEW c \in Clients, Resume(c) PROVE IInv'
<1> USE DEF IInv
<1>1. /\ conn[c] # None <=>
           pc[c] \in {"checking", "evicting", "using", "returning", "quitting"}
      /\ socket \in [Conns -> Sockets] /\ cancels \in 0..MaxCancels
      /\ cancels <= cancels
  BY DEF TypeOK, HoldsWhileBusy
<1>2. pc[c] \in {"evicting", "returning", "quitting"} => conn[c] \notin inUse
  BY DEF LeavingIsUncounted
<1>3. CASE CheckPassed(c)
  BY <1>1, <1>3, Move DEF CheckPassed, PCs, Working
<1>4. CASE CheckFailed(c)
  BY <1>1, <1>4, Move DEF CheckFailed, PCs
<1>5. CASE Evicted(c)
  <2>1. Quit(conn[c])
    BY <1>5 DEF Evicted
  <2>2. /\ socket' \in [Conns -> Sockets]
        /\ \A j \in Conns : socket'[j] = socket[j] \/ j = conn[c]
    BY <1>1, <2>1, QuitEffect
  <2> QED
    BY <1>5, <2>2, Acquiring DEF Evicted
<1>6. CASE Connected(c)
  BY <1>6, ConnectedStep
<1>7. CASE ConnectFailed(c)
  BY <1>7, HandshakeEnds DEF ConnectFailed
<1>8. CASE Release(c)
  <2>1. CASE conn[c] \in inUse
    BY <1>1, <1>8, <2>1, Move DEF Release, PCs, Working
  <2>2. CASE conn[c] \notin inUse
    BY <1>1, <1>8, <2>2, Move DEF Release, PCs
  <2> QED
    BY <2>1, <2>2
<1>9. CASE ReturnPassed(c)
  <2>1. CASE closed
    BY <1>1, <1>2, <1>9, <2>1, Move DEF ReturnPassed, PCs
  <2>2. CASE ~closed
    BY <1>9, <2>2, PooledStep DEF ReturnPassed
  <2> QED
    BY <2>1, <2>2
<1>10. CASE ReturnFailed(c)
  BY <1>1, <1>2, <1>10, Move DEF ReturnFailed, PCs
<1>11. CASE QuitDone(c)
  <2>1. Quit(conn[c])
    BY <1>11 DEF QuitDone
  <2>2. /\ socket' \in [Conns -> Sockets]
        /\ \A j \in Conns : socket'[j] = socket[j] \/ j = conn[c]
    BY <1>1, <2>1, QuitEffect
  <2> QED
    BY <1>1, <1>2, <1>11, <2>2, Move DEF QuitDone, PCs
<1> QED
  BY <1>3, <1>4, <1>5, <1>6, <1>7, <1>8, <1>9, <1>10, <1>11 DEF Resume

LEMMA NextStep == IInv /\ [Next]_vars => IInv'
<1> SUFFICES ASSUME IInv, [Next]_vars PROVE IInv'
  OBVIOUS
<1>1. /\ socket \in [Conns -> Sockets]
      /\ cancels \in 0..MaxCancels /\ cancels <= cancels
  BY DEF IInv, TypeOK
<1>2. ASSUME NEW c \in Clients, Begin(c) PROVE IInv'
  BY <1>1, <1>2, Acquiring DEF Begin
<1>3. ASSUME NEW c \in Clients, Resume(c) PROVE IInv'
  BY <1>3, ResumeStep
<1>4. ASSUME NEW c \in Clients, Cancel(c) PROVE IInv'
  BY <1>4, CancelStep
<1>5. ASSUME NEW k \in Conns, CloseNext(k) PROVE IInv'
  <2>1. closed
    BY <1>5 DEF CloseNext, IInv, ClosingIsClosed
  <2> QED
    BY <1>1, <1>5, <2>1, QuitEffect, SocketStep DEF CloseNext
<1>6. ASSUME NEW k \in Conns, Lose(k) PROVE IInv'
  <2>1. /\ socket' \in [Conns -> Sockets]
        /\ \A j \in Conns : socket'[j] \in Asked => socket[j] \in Asked
    BY <1>1, <1>6 DEF Lose, Sockets, Asked, Open
  <2> QED
    BY <1>1, <1>6, <2>1, SocketStep DEF Lose
<1>7. CASE CloseAll
  BY <1>7, CloseAllStep
<1>8. CASE CancelClose
  <2>1. cancels' \in 0..MaxCancels /\ cancels <= cancels'
    BY <1>1, <1>8, PoolAssumption DEF CancelClose
  <2> QED
    BY <1>1, <1>8, <2>1, SocketStep DEF CancelClose
<1>9. CASE UNCHANGED vars
  BY <1>1, <1>9, SocketStep DEF vars, IInv, TypeOK
<1> QED
  BY <1>2, <1>3, <1>4, <1>5, <1>6, <1>7, <1>8, <1>9 DEF Next

(* The inductive invariant holds in every run. *)
THEOREM InvariantHolds == Spec => []IInv
<1>1. Init => IInv
  BY InitIInv
<1>2. IInv /\ [Next]_vars => IInv'
  BY NextStep
<1> QED
  BY <1>1, <1>2, PTL DEF Spec

(* The pool's state keeps its type; in particular _pending_count is never
   negative, whichever handshakes fail or are cancelled.                    *)
THEOREM TypeCorrect == Spec => []TypeOK
<1>1. IInv => TypeOK
  BY DEF IInv
<1> QED
  BY <1>1, InvariantHolds, PTL

(* acquire never lends a connection that somebody has: no two clients hold
   the same one, none is in the pool twice and no idle one is lent.         *)
THEOREM LendsExclusively == Spec => []ExclusiveLending
<1>1. IInv => ExclusiveLending
  BY DEF IInv
<1> QED
  BY <1>1, InvariantHolds, PTL

(* After close_all nothing is ever put back into the pool, also by the releases
   that were under way when it ran.                                         *)
THEOREM ShutdownIsFinal == Spec => []ClosedPoolIsEmpty
<1>1. IInv => ClosedPoolIsEmpty
  BY DEF IInv
<1> QED
  BY <1>1, InvariantHolds, PTL

(* No connection that was asked to quit is idle in the pool or, before close_all,
   in the hands of a client that would send with it or return it.           *)
THEOREM QuitConnectionsStayOut == Spec => []QuitIsFinal
<1>1. IInv => QuitIsFinal
  BY DEF IInv
<1> QED
  BY <1>1, InvariantHolds, PTL

(* _in_use and _pending_count count the connections lent and the handshakes
   under way, and nothing besides as long as no task is cancelled.          *)
THEOREM CountsAreTrue == Spec => []SlotsAccounted
<1>1. IInv => SlotsAccounted
  BY DEF IInv
<1> QED
  BY <1>1, InvariantHolds, PTL

-----------------------------------------------------------------------------
(* Without cancellations the counts that acquire looks at are bounded by the
   clients at work: each lent connection has a client of its own.           *)

Busy == {d \in Clients : pc[d] \in {"checking", "using", "connecting"}}

LEMMA CountsBoundedByBusy ==
  ASSUME IInv, cancels = 0
  PROVE  /\ IsFiniteSet(Busy) /\ Cardinality(Busy) \in Nat
         /\ Cardinality(inUse) \in Nat
         /\ Cardinality(inUse) + pending <= Cardinality(Busy)
<1> DEFINE W == {d \in Clients : Working(d)}
           L == {d \in W : conn[d] \in inUse}
           f == [d \in L |-> conn[d]]
<1>1. IsFiniteSet(W) /\ IsFiniteSet(L) /\ Cardinality(L) <= Cardinality(W)
  <2>1. W \in SUBSET Clients /\ L \in SUBSET W
    OBVIOUS
  <2> QED
    BY <2>1, PoolAssumption, FS_Subset
<1>2. f \in Surjection(L, inUse)
  <2>1. \A k \in inUse : \E d \in L : f[d] = k
    BY DEF IInv, SlotsAccounted
  <2> QED
    BY <2>1 DEF Surjection
<1>3. IsFiniteSet(inUse) /\ Cardinality(inUse) <= Cardinality(L)
  BY <1>1, <1>2, FS_Surjection
<1>4. pending = Cardinality(Connecting)
  BY DEF IInv, SlotsAccounted
<1>5. Busy = W \cup Connecting /\ W \cap Connecting = {}
  BY DEF Busy, Working, Connecting
<1>6. /\ IsFiniteSet(Busy)
      /\ Cardinality(Busy) = Cardinality(W) + Cardinality(Connecting) - 0
  <2>1. Cardinality(W \cap Connecting) = 0
    BY <1>5, FS_EmptySet
  <2>2. /\ IsFiniteSet(W \cup Connecting)
        /\ Cardinality(W \cup Connecting)
             = Cardinality(W) + Cardinality(Connecting) - Cardinality(W \cap Connecting)
    BY <1>1, ConnectingFinite, FS_Union
  <2> QED
    BY <1>5, <2>1, <2>2
<1>7. /\ Cardinality(inUse) \in Nat /\ Cardinality(L) \in Nat
      /\ Cardinality(W) \in Nat /\ Cardinality(Busy) \in Nat
  BY <1>1, <1>3, <1>6, FS_CardinalityType
<1> HIDE DEF W, L
<1> QED
  BY <1>1, <1>3, <1>4, <1>6, <1>7, ConnectingFinite

(* Only a refusal by acquire makes a client refused. *)
LEMMA RefusedByAcquire ==
  ASSUME IInv, NEW c \in Clients, [Next]_vars, pc'[c] = "refused", pc[c] # "refused"
  PROVE  pc[c] \in {"idle", "evicting"} /\ Refuse(c)
<1>1. ASSUME NEW d \in Clients, NEW w \in PCs, NEW k \in Conns \cup {None},
             Goto(d, w, k)
      PROVE  d = c /\ w = "refused"
  BY <1>1, GotoEffect DEF IInv
<1>2. \A d \in Clients : conn[d] \in Conns \cup {None}
  BY DEF IInv, TypeOK
<1>3. ASSUME NEW d \in Clients, Acquire(d) PROVE d = c /\ Refuse(c)
  <2>1. CASE TakeIdle(d)
    <3>1. Last(pool) \in Conns
      BY <2>1, Popped DEF TakeIdle, IInv, TypeOK, ExclusiveLending
    <3> QED
      BY <1>1, <2>1, <3>1 DEF TakeIdle, PCs
  <2>2. CASE Reserve(d)
    BY <1>1, <2>2 DEF Reserve, PCs
  <2>3. CASE Refuse(d)
    BY <1>1, <2>3 DEF Refuse, PCs
  <2> QED
    BY <1>3, <2>1, <2>2, <2>3 DEF Acquire
<1>4. ASSUME NEW d \in Clients, Begin(d) PROVE d = c /\ Refuse(c) /\ pc[c] = "idle"
  BY <1>3, <1>4 DEF Begin
<1>5. ASSUME NEW d \in Clients, Resume(d)
      PROVE  d = c /\ Refuse(c) /\ pc[c] = "evicting"
  <2>1. CASE Evicted(d)
    BY <1>3, <2>1 DEF Evicted
  <2>2. CASE Connected(d)
    BY <1>1, <2>2 DEF Connected, Fresh, PCs
  <2>3. CASE CheckPassed(d) \/ CheckFailed(d) \/ ConnectFailed(d)
    BY <1>1, <1>2, <2>3 DEF CheckPassed, CheckFailed, ConnectFailed, PCs
  <2>4. CASE Release(d) \/ ReturnFailed(d) \/ QuitDone(d)
    BY <1>1, <1>2, <2>4 DEF Release, ReturnFailed, QuitDone, PCs
  <2>5. CASE ReturnPassed(d)
    BY <1>1, <1>2, <2>5 DEF ReturnPassed, PCs
  <2> QED
    BY <1>5, <2>1, <2>2, <2>3, <2>4, <2>5 DEF Resume
<1>6. ASSUME NEW d \in Clients, Cancel(d) PROVE FALSE
  BY <1>1, <1>6 DEF Cancel, PCs
<1>7. pc' # pc
  OBVIOUS
<1>8. ~CloseAll /\ ~CancelClose /\ ~UNCHANGED vars
  BY <1>7 DEF CloseAll, CancelClose, vars
<1>9. \A k \in Conns : ~CloseNext(k) /\ ~Lose(k)
  BY <1>7 DEF CloseNext, Lose
<1> QED
  BY <1>4, <1>5, <1>6, <1>8, <1>9 DEF Next

(* A client is refused only while max_connections others are at work, if no
   task was cancelled: failed handshakes, evicted and returned connections all
   give their slot back in time.                                            *)
THEOREM RefusalsAreJustified == Spec => RefusedOnlyWhenBusy
<1> DEFINE A == \A c \in Clients :
                  cancels = 0 /\ pc'[c] = "refused" /\ pc[c] # "refused" =>
                    Cardinality({d \in Clients \ {c} :
                                   pc[d] \in {"checking", "using", "connecting"}})
                      >= MaxConnections
<1>1. ASSUME IInv, [Next]_vars PROVE A
  <2> SUFFICES ASSUME NEW c \in Clients,
                      cancels = 0, pc'[c] = "refused", pc[c] # "refused"
               PROVE  Cardinality({d \in Clients \ {c} :
                                     pc[d] \in {"checking", "using", "connecting"}})
                        >= MaxConnections
    OBVIOUS
  <2>1. pc[c] \in {"idle", "evicting"} /\ Refuse(c)
    BY <1>1, RefusedByAcquire
  <2>2. {d \in Clients \ {c} : pc[d] \in {"checking", "using", "connecting"}} = Busy
    BY <2>1 DEF Busy
  <2>3. Cardinality(inUse) + pending >= MaxConnections
    BY <2>1 DEF Refuse
  <2>4. pending \in Nat
    BY <1>1 DEF IInv, TypeOK
  <2>5. Cardinality(Busy) >= MaxConnections
    BY <1>1, <2>3, <2>4, CountsBoundedByBusy, PoolAssumption
  <2> QED
    BY <2>2, <2>5
<1>2. IInv /\ [Next]_vars => [A]_vars
  BY <1>1
<1>3. Spec => []IInv
  BY InvariantHolds
<1> QED
  BY <1>2, <1>3, PTL DEF Spec, RefusedOnlyWhenBusy

-----------------------------------------------------------------------------
(* What is counted in _in_use though nobody works with it: only a cancelled
   acquire leaves such a connection behind, until close_all.                *)
Orphans == {k \in inUse : \A c \in Clients : Working(c) => conn[c] # k}

(* Each slot that is counted for nobody was paid for by a cancellation. *)
SlotsLost ==
  /\ IsFiniteSet(Orphans)
  /\ Cardinality(Orphans) + pending <= Cardinality(Connecting) + cancels

LEMMA CardinalityTypes ==
  ASSUME IInv, SlotsLost
  PROVE  /\ Cardinality(Orphans) \in Nat /\ Cardinality(Connecting) \in Nat
         /\ pending \in Nat /\ cancels \in Nat
BY ConnectingFinite, FS_CardinalityType, PoolAssumption DEF SlotsLost, IInv, TypeOK

(* A step that orphans no connection. *)
LEMMA NoMoreOrphans ==
  ASSUME IInv, SlotsLost, Orphans' \subseteq Orphans, cancels' \in Nat, pending' \in Nat,
         Cardinality(Connecting') \in Nat,
         pending' + Cardinality(Connecting) + cancels
           <= pending + Cardinality(Connecting') + cancels'
  PROVE  SlotsLost'
<1>1. IsFiniteSet(Orphans') /\ Cardinality(Orphans') <= Cardinality(Orphans)
  BY FS_Subset DEF SlotsLost
<1>2. Cardinality(Orphans') \in Nat
  BY <1>1, FS_CardinalityType
<1> QED
  BY <1>1, <1>2, CardinalityTypes DEF SlotsLost

(* A client that stops working gives up its connection's place in _in_use. *)
LEMMA MoveKeepsSlots ==
  ASSUME IInv, SlotsLost, NEW c \in Clients, NEW w \in PCs \ {"connecting"},
         NEW k \in Conns \cup {None}, Goto(c, w, k), pc[c] # "connecting",
         \/ w \in {"checking", "using"} /\ k = conn[c] /\ inUse' = inUse
         \/ ~Working(c) /\ inUse' = inUse
         \/ inUse' = inUse \ {conn[c]},
         UNCHANGED <<pending, cancels>>
  PROVE  SlotsLost'
<1>1. /\ pc'[c] = w /\ conn'[c] = k
      /\ \A d \in Clients : d # c => pc'[d] = pc[d] /\ conn'[d] = conn[d]
  BY GotoEffect DEF IInv
<1>2. Connecting' = Connecting
  BY SameConnecting DEF IInv
<1>3. ASSUME NEW j \in Orphans' PROVE j \in Orphans
  <2>1. j \in inUse' /\ \A d \in Clients : Working(d)' => conn'[d] # j
    BY <1>3 DEF Orphans
  <2>2. ASSUME NEW d \in Clients, Working(d), conn[d] = j PROVE FALSE
    BY <1>1, <2>1, <2>2 DEF Working
  <2> QED
    BY <2>1, <2>2 DEF Orphans
<1> QED
  BY <1>2, <1>3, NoMoreOrphans, CardinalityTypes

(* A client gets a connection that was in no count: an idle one or a new one. *)
LEMMA LendingKeepsSlots ==
  ASSUME IInv, SlotsLost, NEW c \in Clients, ~Working(c), NEW w \in {"checking", "using"},
         NEW k \in Conns, Goto(c, w, k), inUse' = inUse \cup {k}, cancels' = cancels,
         \/ pc[c] # "connecting" /\ pending' = pending
         \/ pc[c] = "connecting" /\ pending' = pending - 1
  PROVE  SlotsLost'
<1>1. /\ pc'[c] = w /\ conn'[c] = k
      /\ \A d \in Clients : d # c => pc'[d] = pc[d] /\ conn'[d] = conn[d]
  BY GotoEffect DEF IInv, PCs
<1>2. ASSUME NEW j \in Orphans' PROVE j \in Orphans
  <2>1. j \in inUse' /\ \A d \in Clients : Working(d)' => conn'[d] # j
    BY <1>2 DEF Orphans
  <2>2. j # k
    BY <1>1, <2>1 DEF Working
  <2>3. ASSUME NEW d \in Clients, Working(d), conn[d] = j PROVE FALSE
    BY <1>1, <2>1, <2>3 DEF Working
  <2> QED
    BY <2>1, <2>2, <2>3 DEF Orphans
<1>3. CASE pc[c] # "connecting"
  <2>1. Connecting' = Connecting
    BY <1>3, SameConnecting DEF IInv, PCs
  <2> QED
    BY <1>2, <1>3, <2>1, NoMoreOrphans, CardinalityTypes
<1>4. CASE pc[c] = "connecting"
  <2>1. /\ Cardinality(Connecting') = Cardinality(Connecting) - 1
        /\ Cardinality(Connecting) >= 1
    BY <1>4, EndsConnecting DEF IInv, PCs
  <2>2. pending >= 1
    BY <2>1, CardinalityTypes DEF IInv, SlotsAccounted
  <2>3. /\ pending' \in Nat /\ Cardinality(Connecting') \in Nat /\ cancels' \in Nat
        /\ pending' + Cardinality(Connecting) + cancels
             <= pending + Cardinality(Connecting') + cancels'
    BY <1>4, <2>1, <2>2, CardinalityTypes
  <2> QED
    BY <1>2, <2>3, NoMoreOrphans
<1> QED
  BY <1>3, <1>4

(* Steps that change neither who works with what nor what is counted. *)
LEMMA SameOrphans ==
  ASSUME IInv, NEW c \in Clients, NEW w \in PCs \ {"checking", "using"},
         Goto(c, w, None), ~Working(c), inUse' = inUse
  PROVE  Orphans' \subseteq Orphans
<1>1. pc'[c] = w /\ \A d \in Clients : d # c => pc'[d] = pc[d] /\ conn'[d] = conn[d]
  BY GotoEffect DEF IInv
<1> QED
  BY <1>1 DEF Orphans, Working

LEMMA AcquireKeepsSlots ==
  ASSUME IInv, SlotsLost, NEW c \in Clients, pc[c] \in {"idle", "refused", "evicting"},
         Acquire(c), cancels' = cancels
  PROVE  SlotsLost'
<1>1. ~Working(c) /\ pc[c] # "connecting"
  BY DEF Working
<1>2. CASE TakeIdle(c)
  <2>1. Last(pool) \in Conns
    BY <1>2, Popped DEF TakeIdle, IInv, TypeOK, ExclusiveLending
  <2> QED
    BY <1>1, <1>2, <2>1, LendingKeepsSlots DEF TakeIdle
<1>3. CASE Reserve(c)
  <2>1. Cardinality(Connecting') = Cardinality(Connecting) + 1
    BY <1>1, <1>3, StartsConnecting DEF Reserve, IInv
  <2>2. Orphans' \subseteq Orphans
    BY <1>1, <1>3, SameOrphans DEF Reserve, PCs
  <2>3. pending' = pending + 1
    BY <1>3 DEF Reserve
  <2> QED
    BY <2>1, <2>2, <2>3, NoMoreOrphans, CardinalityTypes
<1>4. CASE Refuse(c)
  BY <1>1, <1>4, MoveKeepsSlots DEF Refuse, PCs
<1> QED
  BY <1>2, <1>3, <1>4 DEF Acquire

LEMMA ResumeKeepsSlots ==
  ASSUME IInv, SlotsLost, NEW c \in Clients, Resume(c)
  PROVE  SlotsLost'
<1>1. conn[c] \in Conns \cup {None}
  BY DEF IInv, TypeOK
<1>2. CASE CheckPassed(c) \/ CheckFailed(c)
  BY <1>1, <1>2, MoveKeepsSlots DEF CheckPassed, CheckFailed, PCs
<1>3. CASE Evicted(c)
  BY <1>3, AcquireKeepsSlots DEF Evicted
<1>4. CASE Connected(c)
  <2>1. ~Working(c)
    BY <1>4 DEF Connected, Working
  <2> QED
    BY <1>4, <2>1, LendingKeepsSlots DEF Connected, Fresh
<1>5. CASE ConnectFailed(c)
  <2>1. /\ Cardinality(Connecting') = Cardinality(Connecting) - 1
        /\ Cardinality(Connecting) >= 1
    BY <1>5, EndsConnecting DEF ConnectFailed, IInv, PCs
  <2>2. Orphans' \subseteq Orphans
    BY <1>5, SameOrphans DEF ConnectFailed, PCs, Working
  <2>3. pending >= 1
    BY <2>1, CardinalityTypes DEF IInv, SlotsAccounted
  <2>4. pending' = pending - 1 /\ cancels' = cancels
    BY <1>5 DEF ConnectFailed
  <2>5. /\ pending' \in Nat /\ Cardinality(Connecting') \in Nat /\ cancels' \in Nat
        /\ pending' + Cardinality(Connecting) + cancels
             <= pending + Cardinality(Connecting') + cancels'
    BY <2>1, <2>3, <2>4, CardinalityTypes
  <2> QED
    BY <2>2, <2>5, NoMoreOrphans
<1>6. CASE Release(c)
  BY <1>1, <1>6, MoveKeepsSlots DEF Release, PCs
<1>7. CASE ReturnPassed(c)
  <2>1. ~Working(c) /\ pc[c] # "connecting"
    BY <1>7 DEF ReturnPassed, Working
  <2> QED
    BY <1>1, <1>7, <2>1, MoveKeepsSlots DEF ReturnPassed, PCs
<1>8. CASE ReturnFailed(c) \/ QuitDone(c)
  <2>1. ~Working(c) /\ pc[c] # "connecting"
    BY <1>8 DEF ReturnFailed, QuitDone, Working
  <2> QED
    BY <1>1, <1>8, <2>1, MoveKeepsSlots DEF ReturnFailed, QuitDone, PCs
<1> QED
  BY <1>2, <1>3, <1>4, <1>5, <1>6, <1>7, <1>8 DEF Resume

(* A cancelled task leaves one slot at most. *)
LEMMA CancelPaysForSlot ==
  ASSUME IInv, SlotsLost, NEW c \in Clients, Cancel(c)
  PROVE  SlotsLost'
<1>1. /\ Goto(c, "idle", None) /\ inUse' = inUse /\ pending' = pending
      /\ cancels' = cancels + 1
  BY DEF Cancel
<1>2. CASE pc[c] = "connecting"
  <2>1. /\ Cardinality(Connecting') = Cardinality(Connecting) - 1
        /\ Cardinality(Connecting) >= 1
    BY <1>1, <1>2, EndsConnecting DEF IInv, PCs
  <2>2. Orphans' \subseteq Orphans
    BY <1>1, <1>2, SameOrphans DEF PCs, Working
  <2>3. /\ pending' \in Nat /\ Cardinality(Connecting') \in Nat /\ cancels' \in Nat
        /\ pending' + Cardinality(Connecting) + cancels
             <= pending + Cardinality(Connecting') + cancels'
    BY <1>1, <2>1, CardinalityTypes
  <2> QED
    BY <2>2, <2>3, NoMoreOrphans
<1>3. CASE pc[c] # "connecting"
  <2>1. Connecting' = Connecting
    BY <1>1, <1>3, SameConnecting DEF IInv, PCs
  <2>2. Orphans' \subseteq Orphans \cup {conn[c]}
    <3>1. \A d \in Clients : d # c => pc'[d] = pc[d] /\ conn'[d] = conn[d]
      BY <1>1, GotoEffect DEF IInv, PCs
    <3>2. ASSUME NEW j \in Orphans', j # conn[c] PROVE j \in Orphans
      BY <1>1, <3>1, <3>2 DEF Orphans, Working
    <3> QED
      BY <3>2
  <2>3. /\ IsFiniteSet(Orphans \cup {conn[c]})
        /\ Cardinality(Orphans \cup {conn[c]}) <= Cardinality(Orphans) + 1
    <3>1. IsFiniteSet(Orphans)
      BY DEF SlotsLost
    <3>2. /\ IsFiniteSet(Orphans \cup {conn[c]})
          /\ Cardinality(Orphans \cup {conn[c]})
               = IF conn[c] \in Orphans THEN Cardinality(Orphans) ELSE Cardinality(Orphans) + 1
      BY <3>1, FS_AddElement
    <3> QED
      BY <3>2, CardinalityTypes
  <2>4. IsFiniteSet(Orphans') /\ Cardinality(Orphans') <= Cardinality(Orphans) + 1
        /\ Cardinality(Orphans') \in Nat
    <3>1. /\ IsFiniteSet(Orphans')
          /\ Cardinality(Orphans') <= Cardinality(Orphans \cup {conn[c]})
      BY <2>2, <2>3, FS_Subset
    <3>2. Cardinality(Orphans') \in Nat /\ Cardinality(Orphans \cup {conn[c]}) \in Nat
      BY <2>3, <3>1, FS_CardinalityType
    <3> QED
      BY <2>3, <3>1, <3>2, CardinalityTypes
  <2> QED
    BY <1>1, <2>1, <2>4, CardinalityTypes DEF SlotsLost
<1> QED
  BY <1>2, <1>3

LEMMA SlotsStep == IInv /\ SlotsLost /\ [Next]_vars => SlotsLost'
<1> SUFFICES ASSUME IInv, SlotsLost, [Next]_vars PROVE SlotsLost'
  OBVIOUS
<1>1. ASSUME UNCHANGED <<pending, pc, conn>>, inUse' \in {inUse, {}}, cancels' \in Nat,
             cancels <= cancels'
      PROVE  SlotsLost'
  <2>1. Connecting' = Connecting /\ Orphans' \subseteq Orphans
    BY <1>1 DEF Connecting, Orphans, Working
  <2> QED
    BY <1>1, <2>1, NoMoreOrphans, CardinalityTypes
<1>2. ASSUME NEW c \in Clients, Begin(c) PROVE SlotsLost'
  BY <1>2, AcquireKeepsSlots DEF Begin
<1>3. CASE \E k \in Conns : CloseNext(k) \/ Lose(k)
  BY <1>1, <1>3, CardinalityTypes DEF CloseNext, Lose
<1>4. CASE CloseAll \/ CancelClose \/ UNCHANGED vars
  BY <1>1, <1>4, CardinalityTypes DEF CloseAll, CancelClose, vars
<1> QED
  BY <1>2, <1>3, <1>4, ResumeKeepsSlots, CancelPaysForSlot DEF Next

LEMMA InitSlots == Init => SlotsLost
<1> SUFFICES ASSUME Init PROVE SlotsLost
  OBVIOUS
<1>1. Orphans = {} /\ Connecting = {} /\ pending = 0 /\ cancels = 0
  BY DEF Init, Orphans, Connecting
<1> QED
  BY <1>1, FS_EmptySet DEF SlotsLost

(* The counts that acquire looks at are at most the clients at work and the
   cancelled ones.                                                          *)
LEMMA CountsPaidFor ==
  ASSUME IInv, SlotsLost
  PROVE  /\ Cardinality(inUse) \in Nat /\ Cardinality(Busy) \in Nat
         /\ Cardinality(inUse) + pending <= Cardinality(Busy) + cancels
<1> DEFINE W == {d \in Clients : Working(d)}
           L == {d \in W : conn[d] \in inUse}
           f == [d \in L |-> conn[d]]
           Lent == {conn[d] : d \in L}
<1>1. IsFiniteSet(W) /\ IsFiniteSet(L) /\ Cardinality(L) <= Cardinality(W)
  <2>1. W \in SUBSET Clients /\ L \in SUBSET W
    OBVIOUS
  <2> QED
    BY <2>1, PoolAssumption, FS_Subset
<1>2. f \in Surjection(L, Lent)
  BY DEF Surjection
<1>3. IsFiniteSet(Lent) /\ Cardinality(Lent) <= Cardinality(L)
  BY <1>1, <1>2, FS_Surjection
<1>4. inUse = Lent \cup Orphans /\ Lent \cap Orphans = {}
  BY DEF Orphans
<1>5. Cardinality(inUse) = Cardinality(Lent) + Cardinality(Orphans)
  <2>1. Cardinality(Lent \cap Orphans) = 0
    BY <1>4, FS_EmptySet
  <2>2. Cardinality(Lent) \in Nat /\ IsFiniteSet(Orphans)
    BY <1>3, FS_CardinalityType DEF SlotsLost
  <2> HIDE DEF Lent
  <2>3. Cardinality(Lent \cup Orphans)
          = Cardinality(Lent) + Cardinality(Orphans) - Cardinality(Lent \cap Orphans)
    BY <1>3, <2>2, FS_Union
  <2> QED
    BY <1>4, <2>1, <2>2, <2>3, CardinalityTypes
<1>6. Busy = W \cup Connecting /\ W \cap Connecting = {}
  BY DEF Busy, Working, Connecting
<1>7. Cardinality(Busy) = Cardinality(W) + Cardinality(Connecting)
  <2>1. Cardinality(W \cap Connecting) = 0
    BY <1>6, FS_EmptySet
  <2>2. Cardinality(W) \in Nat
    BY <1>1, FS_CardinalityType
  <2>3. Cardinality(W \cup Connecting)
          = Cardinality(W) + Cardinality(Connecting) - Cardinality(W \cap Connecting)
    BY <1>1, ConnectingFinite, FS_Union
  <2> QED
    BY <1>6, <2>1, <2>2, <2>3, ConnectingFinite
<1>8. Cardinality(Lent) \in Nat /\ Cardinality(L) \in Nat /\ Cardinality(W) \in Nat
  BY <1>1, <1>3, FS_CardinalityType
<1> HIDE DEF W, L, Lent
<1> QED
  BY <1>1, <1>3, <1>5, <1>7, <1>8, CardinalityTypes DEF SlotsLost

-----------------------------------------------------------------------------
(* The pool implements Lending. *)

LEMMA SameCardinality == \A S : Promise!Cardinality(S) = Cardinality(S)
BY DEF Cardinality, Promise!Cardinality

LEMMA AtWorkIsBusy ==
  ASSUME TypeOK PROVE Promise!AtWork = Busy
BY DEF Promise!AtWork, Busy, Stage, TypeOK, PCs

LEMMA GotoAsPromised ==
  ASSUME TypeOK, NEW c \in Clients, NEW w \in PCs, NEW k \in Conns \cup {None},
         Goto(c, w, k)
  PROVE  /\ pc'[c] = w
         /\ Promise!Move(c, Stage(c)', k)
<1>1. pc'[c] = w /\ conn'[c] = k /\ \A d \in Clients : d # c => pc'[d] = pc[d]
  BY GotoEffect
<1>2. \A d \in Clients : d # c => Stage(d)' = Stage(d)
  BY <1>1 DEF Stage
<1>3. conn' = [conn EXCEPT ![c] = k]
  BY DEF Goto
<1> QED
  BY <1>1, <1>2, <1>3 DEF Promise!Move

LEMMA StageOf ==
  ASSUME NEW c \in Clients
  PROVE  /\ pc[c] \in {"checking", "connecting"} => Stage(c) = "asking"
         /\ pc[c] \in {"evicting", "returning", "quitting"} => Stage(c) = "discarding"
         /\ pc[c] \in {"idle", "refused", "using"} => Stage(c) = pc[c]
BY DEF Stage

LEMMA StageAfter ==
  ASSUME NEW c \in Clients
  PROVE  /\ pc'[c] \in {"checking", "connecting"} => Stage(c)' = "asking"
         /\ pc'[c] \in {"evicting", "returning", "quitting"} => Stage(c)' = "discarding"
         /\ pc'[c] \in {"idle", "refused", "using"} => Stage(c)' = pc'[c]
BY DEF Stage

LEMMA PoolInit == Init => Promise!Init
<1> SUFFICES ASSUME Init PROVE Promise!Init
  OBVIOUS
<1>1. \A c \in Clients : Stage(c) = "idle"
  BY DEF Init, Stage
<1> QED
  BY <1>1 DEF Init, Promise!Init

LEMMA PoolStutters ==
  ASSUME UNCHANGED <<pc, conn, cancels>> PROVE UNCHANGED Promise!vars
BY DEF Promise!vars, Stage

LEMMA AcquireAsPromised ==
  ASSUME IInv, SlotsLost, NEW c \in Clients, pc[c] \in {"idle", "refused", "evicting"},
         Acquire(c), cancels' = cancels
  PROVE  Promise!Next
<1>1. TypeOK
  BY DEF IInv
<1>2. Promise!Outside(c)
  BY StageOf DEF Promise!Outside
<1>3. CASE TakeIdle(c)
  <2> DEFINE k == Last(pool)
  <2>1. k \in Conns /\ k \in Idle
    BY <1>3, Popped DEF TakeIdle, IInv, TypeOK, ExclusiveLending, Idle
  <2>2. Goto(c, "checking", k)
    BY <1>3 DEF TakeIdle
  <2> HIDE DEF k
  <2>3. k \in Promise!Unlent(c)
    BY <2>1 DEF Promise!Unlent, IInv, ExclusiveLending
  <2>4. Promise!Move(c, "asking", k)
    BY <1>1, <2>1, <2>2, GotoAsPromised, StageAfter DEF PCs
  <2>5. Promise!Ask(c)
    BY <1>2, <2>3, <2>4 DEF Promise!Ask
  <2> QED
    BY <2>5 DEF Promise!Next
<1>4. CASE Reserve(c)
  <2>1. Promise!Move(c, "asking", None)
    BY <1>1, <1>4, GotoAsPromised, StageAfter DEF Reserve, PCs
  <2>2. Promise!Ask(c)
    BY <1>2, <2>1 DEF Promise!Ask
  <2> QED
    BY <2>2 DEF Promise!Next
<1>5. CASE Refuse(c)
  <2>1. Promise!Move(c, "refused", None)
    BY <1>1, <1>5, GotoAsPromised, StageAfter DEF Refuse, PCs
  <2>2. Promise!AtWork \ {c} = Busy
    BY <1>1, AtWorkIsBusy DEF Busy
  <2>3. Cardinality(Busy) + cancels >= MaxConnections
    <3>1. Cardinality(inUse) + pending >= MaxConnections
      BY <1>5 DEF Refuse
    <3> QED
      BY <3>1, CountsPaidFor, CardinalityTypes, PoolAssumption
  <2>4. Cardinality(Promise!AtWork \ {c}) + cancels >= MaxConnections
    BY <2>2, <2>3
  <2>5. Promise!Refuse(c)
    BY <1>2, <2>1, <2>4, SameCardinality DEF Promise!Refuse
  <2> QED
    BY <2>5 DEF Promise!Next
<1> QED
  BY <1>3, <1>4, <1>5 DEF Acquire

LEMMA ResumeAsPromised ==
  ASSUME IInv, SlotsLost, NEW c \in Clients, Resume(c)
  PROVE  [Promise!Next]_(Promise!vars)
<1>1. /\ TypeOK /\ conn[c] \in Conns \cup {None}
      /\ conn[c] # None <=>
           pc[c] \in {"checking", "evicting", "using", "returning", "quitting"}
  BY DEF IInv, TypeOK, HoldsWhileBusy
<1>2. CASE CheckPassed(c)
  <2>1. Promise!Move(c, "using", conn[c])
    BY <1>1, <1>2, GotoAsPromised, StageAfter DEF CheckPassed, PCs
  <2>2. Promise!Serve(c)
    BY <1>1, <1>2, <2>1, StageOf DEF CheckPassed, Promise!Serve
  <2> QED
    BY <2>2 DEF Promise!Next
<1>3. CASE CheckFailed(c)
  <2>1. Promise!Move(c, "discarding", conn[c])
    BY <1>1, <1>3, GotoAsPromised, StageAfter DEF CheckFailed, PCs
  <2>2. Promise!Discard(c)
    BY <1>1, <1>3, <2>1, StageOf DEF CheckFailed, Promise!Discard
  <2> QED
    BY <2>2 DEF Promise!Next
<1>4. CASE Evicted(c)
  BY <1>4, AcquireAsPromised DEF Evicted
<1>5. CASE Connected(c)
  <2>1. PICK k \in Fresh : Goto(c, "using", k)
    BY <1>5 DEF Connected
  <2>2. k \in Conns /\ \A d \in Clients : conn[d] # k
    BY <2>1, PoolAssumption DEF Fresh, Held
  <2>3. Promise!Move(c, "using", k)
    BY <1>1, <2>1, <2>2, GotoAsPromised, StageAfter DEF PCs
  <2>4. Promise!Serve(c)
    BY <1>1, <1>5, <2>2, <2>3, StageOf DEF Connected, Promise!Serve, Promise!Unlent
  <2> QED
    BY <2>4 DEF Promise!Next
<1>6. CASE ConnectFailed(c)
  <2>1. Promise!Move(c, "idle", None)
    BY <1>1, <1>6, GotoAsPromised, StageAfter DEF ConnectFailed, PCs
  <2>2. Promise!GoWithout(c)
    BY <1>1, <1>6, <2>1, StageOf DEF ConnectFailed, Promise!GoWithout
  <2> QED
    BY <2>2 DEF Promise!Next
<1>7. CASE Release(c) /\ conn[c] \in inUse
  <2>1. Promise!Move(c, "discarding", conn[c])
    BY <1>1, <1>7, GotoAsPromised, StageAfter DEF Release, PCs
  <2>2. Promise!Discard(c)
    BY <1>1, <1>7, <2>1, StageOf DEF Release, Promise!Discard
  <2> QED
    BY <2>2 DEF Promise!Next
<1>8. ASSUME Goto(c, "idle", None), pc[c] \in {"using", "returning", "quitting"},
             cancels' = cancels
      PROVE  Promise!Next
  <2>1. Promise!Move(c, "idle", None)
    BY <1>1, <1>8, GotoAsPromised, StageAfter DEF PCs
  <2>2. Promise!GiveBack(c)
    BY <1>8, <2>1, StageOf DEF Promise!GiveBack
  <2> QED
    BY <2>2 DEF Promise!Next
<1>9. CASE Release(c) /\ conn[c] \notin inUse
  BY <1>8, <1>9 DEF Release
<1>10. CASE QuitDone(c)
  BY <1>8, <1>10 DEF QuitDone
<1>11. CASE ReturnPassed(c) /\ ~closed
  BY <1>8, <1>11 DEF ReturnPassed
<1>12. CASE ReturnFailed(c) \/ (ReturnPassed(c) /\ closed)
  <2>1. /\ pc[c] = "returning" /\ Goto(c, "quitting", conn[c]) /\ cancels' = cancels
    BY <1>12 DEF ReturnFailed, ReturnPassed
  <2>2. /\ pc'[c] = "quitting" /\ \A d \in Clients : d # c => pc'[d] = pc[d]
        /\ conn' = [conn EXCEPT ![c] = conn[c]]
    BY <1>1, <2>1, GotoEffect DEF PCs, Goto
  <2>3. conn' = conn
    BY <1>1, <2>2 DEF TypeOK
  <2>4. \A d \in Clients : Stage(d)' = Stage(d)
    BY <2>1, <2>2 DEF Stage
  <2> QED
    BY <2>1, <2>3, <2>4 DEF Promise!vars
<1> QED
  BY <1>2, <1>3, <1>4, <1>5, <1>6, <1>7, <1>9, <1>10, <1>11, <1>12 DEF Resume

LEMMA CancelAsPromised ==
  ASSUME IInv, NEW c \in Clients, Cancel(c) PROVE Promise!Next
<1>1. Promise!Move(c, "idle", None)
  BY GotoAsPromised, StageAfter DEF Cancel, IInv, PCs
<1>2. Promise!Cancel
  BY <1>1, StageOf DEF Cancel, Promise!Cancel
<1> QED
  BY <1>2 DEF Promise!Next

LEMMA CancelCloseAsPromised ==
  ASSUME CancelClose PROVE Promise!Next
<1>1. [c \in Clients |-> Stage(c)]' = [c \in Clients |-> Stage(c)]
  BY DEF CancelClose, Stage
<1>2. Promise!Cancel
  BY <1>1 DEF CancelClose, Promise!Cancel
<1> QED
  BY <1>2 DEF Promise!Next

LEMMA PoolStep == IInv /\ SlotsLost /\ [Next]_vars => [Promise!Next]_(Promise!vars)
<1> SUFFICES ASSUME IInv, SlotsLost, [Next]_vars PROVE [Promise!Next]_(Promise!vars)
  OBVIOUS
<1>1. ASSUME NEW c \in Clients, Begin(c) PROVE Promise!Next
  BY <1>1, AcquireAsPromised DEF Begin
<1>2. CASE \E k \in Conns : CloseNext(k) \/ Lose(k)
  BY <1>2, PoolStutters DEF CloseNext, Lose
<1>3. CASE CloseAll \/ UNCHANGED vars
  BY <1>3, PoolStutters DEF CloseAll, vars
<1> QED
  BY <1>1, <1>2, <1>3, ResumeAsPromised, CancelAsPromised, CancelCloseAsPromised DEF Next

(* The pool implements Lending: with every interleaving of acquire, release and
   close_all and any number of cancelled tasks, each of its steps lends
   exclusively, or refuses a client that finds max_connections others at work
   or cancelled.                                                            *)
THEOREM KeepsItsPromise == Spec => LendsAsPromised
<1>1. Init => Promise!Init /\ SlotsLost
  BY PoolInit, InitSlots
<1>2. IInv /\ SlotsLost /\ [Next]_vars => SlotsLost'
  BY SlotsStep
<1>3. IInv /\ SlotsLost /\ [Next]_vars => [Promise!Next]_(Promise!vars)
  BY PoolStep
<1>4. Spec => []IInv
  BY InvariantHolds
<1> QED
  BY <1>1, <1>2, <1>3, <1>4, PTL DEF Spec, LendsAsPromised, Promise!Spec

-----------------------------------------------------------------------------
(* How many connections there are.  OnePerClient is not inductive: a handshake
   adds a connection, so the ones to come are counted with those there are.  A
   reservation is made when none is idle, and then each connection is held by a
   client that waits for no handshake.                                       *)

Known == Idle \cup Held

Matched ==
  /\ IsFiniteSet(Known)
  /\ Cardinality(Known) + Cardinality(Connecting) <= Cardinality(Clients)

LEMMA MatchedWhenNoneIdle == TypeOK /\ HoldsWhileBusy /\ Idle = {} => Matched
<1> SUFFICES ASSUME TypeOK, HoldsWhileBusy, Idle = {} PROVE Matched
  OBVIOUS
<1> DEFINE H == {c \in Clients : conn[c] # None}
           f == [c \in H |-> conn[c]]
<1>1. Known = {conn[c] : c \in H}
  BY DEF Known, Held
<1>2. f \in Surjection(H, Known)
  BY <1>1 DEF Surjection
<1>3. H \cap Connecting = {} /\ H \cup Connecting \subseteq Clients
  BY DEF HoldsWhileBusy, Connecting
<1>4. IsFiniteSet(H) /\ Cardinality(H) \in Nat
  BY PoolAssumption, FS_Subset, FS_CardinalityType
<1>5. IsFiniteSet(Known) /\ Cardinality(Known) <= Cardinality(H) /\ Cardinality(Known) \in Nat
  BY <1>2, <1>4, FS_Surjection, FS_CardinalityType
<1> HIDE DEF H
<1>6. Cardinality(H \cup Connecting) = Cardinality(H) + Cardinality(Connecting)
  <2>1. Cardinality(H \cap Connecting) = 0
    BY <1>3, FS_EmptySet
  <2>2. Cardinality(H \cup Connecting)
          = Cardinality(H) + Cardinality(Connecting) - Cardinality(H \cap Connecting)
    BY <1>4, ConnectingFinite, FS_Union
  <2> QED
    BY <1>4, <2>1, <2>2, ConnectingFinite
<1>7. /\ Cardinality(H \cup Connecting) <= Cardinality(Clients)
      /\ Cardinality(Clients) \in Nat
  BY <1>3, PoolAssumption, FS_Subset, FS_CardinalityType
<1> QED
  BY <1>4, <1>5, <1>6, <1>7, ConnectingFinite DEF Matched

LEMMA NoMoreKnown ==
  ASSUME Matched, Known' \subseteq Known, Connecting' \subseteq Connecting
  PROVE  Matched'
<1>1. /\ IsFiniteSet(Known') /\ Cardinality(Known') <= Cardinality(Known)
      /\ Cardinality(Known') \in Nat /\ Cardinality(Known) \in Nat
  BY FS_Subset, FS_CardinalityType DEF Matched
<1>2. /\ Cardinality(Connecting') <= Cardinality(Connecting)
      /\ Cardinality(Connecting') \in Nat
  BY ConnectingFinite, FS_Subset, FS_CardinalityType
<1>3. Cardinality(Clients) \in Nat
  BY PoolAssumption, FS_CardinalityType
<1> QED
  BY <1>1, <1>2, <1>3, ConnectingFinite DEF Matched

(* A client that keeps its connection, drops it or puts it back into _pool. *)
LEMMA MoveMatched ==
  ASSUME IInv, Matched, NEW c \in Clients, NEW w \in PCs \ {"connecting"},
         NEW k \in {conn[c], None}, Goto(c, w, k),
         Idle' \subseteq Known
  PROVE  Matched'
<1>1. conn[c] \in Conns \cup {None} /\ k \in Conns \cup {None} /\ TypeOK
  BY DEF IInv, TypeOK
<1>2. /\ \A d \in Clients : d # c => conn'[d] = conn[d]
      /\ conn'[c] = k /\ Connecting' \subseteq Connecting
  BY <1>1, GotoEffect
<1>3. Held' \subseteq Held
  BY <1>2 DEF Held
<1> QED
  BY <1>2, <1>3, NoMoreKnown DEF Known

LEMMA AcquireMatched ==
  ASSUME IInv, IInv', Matched, NEW c \in Clients, Acquire(c)
  PROVE  Matched'
<1>1. CASE TakeIdle(c)
  <2> DEFINE k == Last(pool)
  <2>1. k \in Conns /\ k \in Idle /\ Idle' \subseteq Idle /\ TypeOK
    BY <1>1, Popped DEF TakeIdle, IInv, TypeOK, ExclusiveLending, Idle
  <2>2. Goto(c, "checking", k)
    BY <1>1 DEF TakeIdle
  <2> HIDE DEF k
  <2>3. /\ \A d \in Clients : d # c => conn'[d] = conn[d]
        /\ conn'[c] = k /\ Connecting' \subseteq Connecting
    BY <2>1, <2>2, GotoEffect DEF PCs
  <2>4. Held' \subseteq Held \cup {k}
    BY <2>3 DEF Held
  <2> QED
    BY <2>1, <2>3, <2>4, NoMoreKnown DEF Known
<1>2. CASE Reserve(c)
  <2>1. Idle' = {}
    BY <1>2, EmptyPool DEF Reserve, Idle
  <2>2. (TypeOK /\ HoldsWhileBusy /\ Idle = {})'
    BY <2>1 DEF IInv
  <2> QED
    BY <2>2, MatchedWhenNoneIdle, PTL
<1>3. CASE Refuse(c)
  <2>1. Idle' = Idle
    BY <1>3 DEF Refuse, Idle
  <2> QED
    BY <1>3, <2>1, MoveMatched DEF Refuse, PCs, Known
<1> QED
  BY <1>1, <1>2, <1>3 DEF Acquire

LEMMA ConnectedMatched ==
  ASSUME IInv, Matched, NEW c \in Clients, Connected(c)
  PROVE  Matched'
<1>1. PICK k \in Fresh : Goto(c, "using", k)
  BY DEF Connected
<1>2. k \in Conns /\ pc[c] = "connecting" /\ Idle' = Idle /\ TypeOK
  BY <1>1 DEF Connected, Fresh, Idle, IInv
<1>3. \A d \in Clients : d # c => conn'[d] = conn[d]
  BY <1>1, <1>2, GotoEffect DEF PCs
<1>4. conn'[c] = k
  BY <1>1, <1>2, GotoEffect DEF PCs
<1>5. Known' \subseteq Known \cup {k}
  BY <1>2, <1>3, <1>4 DEF Known, Held
<1>6. /\ Cardinality(Connecting') = Cardinality(Connecting) - 1
      /\ Cardinality(Connecting) >= 1
  BY <1>1, <1>2, EndsConnecting DEF PCs
<1>7. /\ IsFiniteSet(Known \cup {k}) /\ Cardinality(Known) \in Nat
      /\ Cardinality(Known \cup {k}) <= Cardinality(Known) + 1
  <2>1. /\ IsFiniteSet(Known \cup {k})
        /\ Cardinality(Known \cup {k})
             = IF k \in Known THEN Cardinality(Known) ELSE Cardinality(Known) + 1
    BY FS_AddElement DEF Matched
  <2>2. Cardinality(Known) \in Nat
    BY FS_CardinalityType DEF Matched
  <2> QED
    BY <2>1, <2>2
<1>8. /\ IsFiniteSet(Known') /\ Cardinality(Known') <= Cardinality(Known \cup {k})
      /\ Cardinality(Known') \in Nat /\ Cardinality(Known \cup {k}) \in Nat
  BY <1>5, <1>7, FS_Subset, FS_CardinalityType
<1>9. Cardinality(Clients) \in Nat
  BY PoolAssumption, FS_CardinalityType
<1> QED
  BY <1>6, <1>7, <1>8, <1>9, ConnectingFinite DEF Matched

LEMMA ResumeMatched ==
  ASSUME IInv, IInv', Matched, NEW c \in Clients, Resume(c)
  PROVE  Matched'
<1>1. CASE Evicted(c)
  BY <1>1, AcquireMatched DEF Evicted
<1>2. CASE Connected(c)
  BY <1>2, ConnectedMatched
<1>3. CASE ReturnPassed(c) /\ ~closed
  <2>1. /\ conn[c] \in Conns /\ conn[c] \notin Idle /\ conn[c] \in Held
        /\ pool \in Seq(Conns) /\ IsInjective(pool)
        /\ Goto(c, "idle", None) /\ pool' = Append(pool, conn[c])
    BY <1>3, PoolAssumption
       DEF ReturnPassed, IInv, TypeOK, HoldsWhileBusy, ExclusiveLending, Held
  <2>2. Idle' = Idle \cup {conn[c]}
    BY <2>1, Pushed DEF Idle
  <2> QED
    BY <2>1, <2>2, MoveMatched DEF PCs, Known
<1>4. CASE /\ UNCHANGED pool
           /\ \E w \in PCs \ {"connecting"}, k \in {conn[c], None} : Goto(c, w, k)
  <2>1. Idle' \subseteq Known
    BY <1>4 DEF Idle, Known
  <2> QED
    BY <1>4, <2>1, MoveMatched
<1>5. CASE CheckPassed(c) \/ CheckFailed(c) \/ ConnectFailed(c)
  BY <1>4, <1>5 DEF CheckPassed, CheckFailed, ConnectFailed, PCs
<1>6. CASE Release(c) \/ ReturnFailed(c) \/ QuitDone(c)
  BY <1>4, <1>6 DEF Release, ReturnFailed, QuitDone, PCs
<1>7. CASE ReturnPassed(c) /\ closed
  BY <1>4, <1>7 DEF ReturnPassed, PCs
<1> QED
  BY <1>1, <1>2, <1>3, <1>5, <1>6, <1>7 DEF Resume

LEMMA MatchedStep == IInv /\ IInv' /\ Matched /\ [Next]_vars => Matched'
<1> SUFFICES ASSUME IInv, IInv', Matched, [Next]_vars PROVE Matched'
  OBVIOUS
<1>1. ASSUME NEW c \in Clients, Begin(c) PROVE Matched'
  BY <1>1, AcquireMatched DEF Begin
<1>2. ASSUME NEW c \in Clients, Cancel(c) PROVE Matched'
  <2>1. Goto(c, "idle", None) /\ Idle' = Idle
    BY <1>2 DEF Cancel, Idle
  <2> QED
    BY <2>1, MoveMatched DEF PCs, Known
<1>3. CASE UNCHANGED <<pc, conn>> /\ pool' \in {pool, <<>>}
  <2>1. Held' = Held /\ Connecting' = Connecting /\ Idle' \subseteq Idle
    BY <1>3, EmptyPool DEF Held, Connecting, Idle
  <2> QED
    BY <2>1, NoMoreKnown DEF Known
<1>4. CASE \E k \in Conns : CloseNext(k) \/ Lose(k)
  BY <1>3, <1>4 DEF CloseNext, Lose
<1>5. CASE CloseAll \/ CancelClose \/ UNCHANGED vars
  BY <1>3, <1>5 DEF CloseAll, CancelClose, vars
<1> QED
  BY <1>1, <1>2, <1>4, <1>5, ResumeMatched DEF Next

(* Of the connections in _in_use, those that no client holds are orphans. *)
LEMMA OrphansExceed ==
  ASSUME IInv, SlotsLost, Matched PROVE OnePerClient
<1>1. Idle \cup Held \cup inUse \subseteq Known \cup Orphans
  <2>1. ASSUME NEW c \in Clients, Working(c), conn[c] \in Conns PROVE conn[c] \in Held
    BY <2>1, PoolAssumption DEF Held
  <2>2. \A k \in inUse : k \in Conns
    BY DEF IInv, TypeOK
  <2> QED
    BY <2>1, <2>2 DEF Known, Orphans
<1>2. /\ IsFiniteSet(Known) /\ Cardinality(Known) \in Nat
      /\ IsFiniteSet(Orphans) /\ Cardinality(Orphans) \in Nat
      /\ IsFiniteSet(Known \cap Orphans) /\ Cardinality(Known \cap Orphans) \in Nat
  BY FS_Intersection, FS_CardinalityType DEF Matched, SlotsLost
<1>3. /\ IsFiniteSet(Known \cup Orphans)
      /\ Cardinality(Known \cup Orphans)
           = Cardinality(Known) + Cardinality(Orphans) - Cardinality(Known \cap Orphans)
  BY <1>2, FS_Union
<1>4. /\ Cardinality(Idle \cup Held \cup inUse) <= Cardinality(Known \cup Orphans)
      /\ Cardinality(Idle \cup Held \cup inUse) \in Nat
  BY <1>1, <1>3, FS_Subset, FS_CardinalityType
<1>5. Cardinality(Orphans) <= cancels
  BY CardinalityTypes DEF SlotsLost, IInv, SlotsAccounted
<1>6. Cardinality(Known) <= Cardinality(Clients) /\ Cardinality(Clients) \in Nat
  BY <1>2, ConnectingFinite, PoolAssumption, FS_CardinalityType DEF Matched
<1> QED
  BY <1>2, <1>3, <1>4, <1>5, <1>6, CardinalityTypes DEF OnePerClient

(* What bounds the connections is not max_connections, which acquire compares with
   those lent and under way only, but the number of clients: there are never more
   connections, idle, lent, on their way out or forgotten in _in_use by a cancelled
   acquire, than clients that use the pool and cancelled tasks.              *)
THEOREM NoMoreThanClients == Spec => []OnePerClient
<1>1. Init => Matched
  <2>1. Init => Idle = {}
    BY EmptyPool DEF Init, Idle
  <2> QED
    BY <2>1, InitIInv, MatchedWhenNoneIdle DEF IInv
<1>2. IInv /\ IInv' /\ Matched /\ [Next]_vars => Matched'
  BY MatchedStep
<1>3. IInv /\ SlotsLost /\ Matched => OnePerClient
  BY OrphansExceed
<1>4. Init => SlotsLost
  BY InitSlots
<1>5. IInv /\ SlotsLost /\ [Next]_vars => SlotsLost'
  BY SlotsStep
<1> QED
  BY <1>1, <1>2, <1>3, <1>4, <1>5, InvariantHolds, PTL DEF Spec
=============================================================================
