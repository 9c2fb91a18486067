---------------------------- MODULE ReorderProofs ----------------------------
(****************************************************************************)
(* Proofs about ReorderQueue and PacketRefs, for any threads, references,   *)
(* leases and limits, and that the sorted array of ReorderQueue implements  *)
(* ReorderContract: a stable priority queue of packets.                     *)
(****************************************************************************)
EXTENDS ReorderQueue, FiniteSetTheorems, WellFoundedInduction, TLAPS

------------------------------------------------------------------------------
(* Counting references *)

Held(f, l) == {h \in Holder : f[h] = l}
One(a, b) == IF a = b THEN 1 ELSE 0

\* Overwriting one reference changes the counts of its old and its new lease by one.
LEMMA OverwriteOne ==
  ASSUME NEW f, f \in [Holder -> Lease \cup {NoLease}], NEW h \in Holder,
         NEW x \in Lease \cup {NoLease}, NEW l \in Lease
  PROVE  /\ Cardinality(Held(f, l)) \in Nat
         /\ Cardinality(Held([f EXCEPT ![h] = x], l)) =
              Cardinality(Held(f, l)) + One(x, l) - One(f[h], l)
<1> DEFINE g == [f EXCEPT ![h] = x]
<1>1. IsFiniteSet(Held(f, l)) /\ IsFiniteSet(Held(f, l) \ {h})
  <2>1. Held(f, l) \subseteq Holder /\ Held(f, l) \ {h} \subseteq Holder
    BY DEF Held
  <2>2. IsFiniteSet(Holder)
    BY RefsAssumption
  <2> QED BY <2>1, <2>2, FS_Subset
<1>2. Cardinality(Held(f, l)) \in Nat
  BY <1>1, FS_CardinalityType
<1>3. Cardinality(Held(f, l) \ {h}) = Cardinality(Held(f, l)) - One(f[h], l)
  <2>1. h \in Held(f, l) <=> f[h] = l
    BY DEF Held
  <2>2. Cardinality(Held(f, l) \ {h})
          = IF h \in Held(f, l) THEN Cardinality(Held(f, l)) - 1 ELSE Cardinality(Held(f, l))
    BY <1>1, FS_RemoveElement
  <2> QED BY <2>1, <2>2, <1>2 DEF One
<1>4. ASSUME x = l
      PROVE  Cardinality(Held(g, l)) = Cardinality(Held(f, l)) + One(x, l) - One(f[h], l)
  <2>1. Held(g, l) = (Held(f, l) \ {h}) \cup {h}
    BY <1>4 DEF Held
  <2>2. Cardinality((Held(f, l) \ {h}) \cup {h}) = Cardinality(Held(f, l) \ {h}) + 1
    BY <1>1, FS_AddElement
  <2>3. Cardinality(Held(g, l)) = Cardinality(Held(f, l) \ {h}) + 1
    BY <2>1, <2>2, Zenon
  <2>4. One(x, l) = 1 /\ One(f[h], l) \in {0, 1}
    BY <1>4 DEF One
  <2> HIDE DEF g
  <2> QED BY <2>3, <2>4, <1>2, <1>3
<1>5. ASSUME x # l
      PROVE  Cardinality(Held(g, l)) = Cardinality(Held(f, l)) + One(x, l) - One(f[h], l)
  <2>1. Held(g, l) = Held(f, l) \ {h}
    BY <1>5 DEF Held
  <2>2. Cardinality(Held(g, l)) = Cardinality(Held(f, l) \ {h})
    BY <2>1, Zenon
  <2>3. One(x, l) = 0 /\ One(f[h], l) \in {0, 1}
    BY <1>5 DEF One
  <2> HIDE DEF g
  <2> QED BY <2>2, <2>3, <1>2, <1>3
<1> QED BY <1>2, <1>4, <1>5

\* Moving a reference to another changes the count of what the other held alone.
LEMMA MoveOne ==
  ASSUME NEW f, f \in [Holder -> Lease \cup {NoLease}],
         NEW dst \in Holder, NEW src \in Holder, dst # src, NEW l \in Lease
  PROVE  /\ Cardinality(Held(f, l)) \in Nat
         /\ Cardinality(Held([f EXCEPT ![dst] = f[src], ![src] = NoLease], l)) =
              Cardinality(Held(f, l)) - One(f[dst], l)
<1> DEFINE g == [f EXCEPT ![dst] = f[src]]
           k == [g EXCEPT ![src] = NoLease]
<1>1. /\ g \in [Holder -> Lease \cup {NoLease}] /\ g[src] = f[src]
      /\ f[src] \in Lease \cup {NoLease}
  OBVIOUS
<1>2. k = [f EXCEPT ![dst] = f[src], ![src] = NoLease]
  BY Zenon
<1>3. NoLease # l
  BY RefsAssumption
<1>4. /\ Cardinality(Held(f, l)) \in Nat
      /\ Cardinality(Held(g, l)) = Cardinality(Held(f, l)) + One(f[src], l) - One(f[dst], l)
  <2>1. ASSUME NEW x \in Lease \cup {NoLease}
        PROVE  /\ Cardinality(Held(f, l)) \in Nat
               /\ Cardinality(Held([f EXCEPT ![dst] = x], l)) =
                    Cardinality(Held(f, l)) + One(x, l) - One(f[dst], l)
    BY OverwriteOne, Zenon
  <2> QED BY <1>1, <2>1, Zenon
<1>5. /\ Cardinality(Held(g, l)) \in Nat
      /\ Cardinality(Held(k, l)) = Cardinality(Held(g, l)) + One(NoLease, l) - One(g[src], l)
  <2> HIDE DEF g
  <2>1. NoLease \in Lease \cup {NoLease}
    OBVIOUS
  <2> QED BY <1>1, <2>1, OverwriteOne, Zenon
<1> HIDE DEF g, k
<1>6. /\ One(NoLease, l) = 0 /\ One(g[src], l) = One(f[src], l)
      /\ One(f[src], l) \in {0, 1} /\ One(f[dst], l) \in {0, 1}
  BY <1>1, <1>3 DEF One
<1>7. Cardinality(Held(k, l)) = Cardinality(Held(f, l)) - One(f[dst], l)
  BY <1>4, <1>5, <1>6
<1> QED BY <1>2, <1>4, <1>7

\* A lease that a reference is to has a positive count.
LEMMA HeldPositive ==
  ASSUME NEW f, f \in [Holder -> Lease \cup {NoLease}], NEW h \in Holder
  PROVE  Cardinality(Held(f, f[h])) \in Nat \ {0}
<1>1. IsFiniteSet(Held(f, f[h]))
  BY RefsAssumption, FS_Subset DEF Held
<1>2. Held(f, f[h]) # {}
  BY DEF Held
<1> QED BY <1>1, <1>2, FS_EmptySet, FS_CardinalityType

------------------------------------------------------------------------------
(* The inductive invariant of the references *)

RefType ==
  /\ lease \in [Holder -> Lease \cup {NoLease}] /\ info \in [Holder -> Info]
  /\ refcount \in [Lease -> Int] /\ lost \in [Lease -> Nat]
  /\ memory \in [Lease -> {"unused", "allocated", "freed"}]
  /\ freeing \in [Thread -> Lease \cup {NoLease}]

\* Only an allocated lease is counted.
CountedIsAllocated == \A l \in Lease : memory[l] # "allocated" => refcount[l] = 0

\* A lease that is being freed is allocated, is not counted, and has one thread that
\* frees it.
OneFrees ==
  \A t \in Thread : freeing[t] # NoLease =>
    /\ memory[freeing[t]] = "allocated" /\ refcount[freeing[t]] = 0
    /\ \A u \in Thread : freeing[u] = freeing[t] => u = t

\* An allocated lease that is not counted is being freed.
Reclaimed ==
  \A l \in Lease : memory[l] = "allocated" /\ refcount[l] = 0 =>
    \E t \in Thread : freeing[t] = l

Exact == \A l \in Lease : refcount[l] = Cardinality(Held(lease, l)) + lost[l]

RefInv == RefType /\ Exact /\ CountedIsAllocated /\ OneFrees /\ Reclaimed

\* The inductive invariant gives the three properties of the references.
LEMMA RefInvImplies ==
  RefInv => RefcountExact /\ NoDanglingLease
<1> SUFFICES ASSUME RefInv PROVE RefcountExact /\ NoDanglingLease
  OBVIOUS
<1>1. RefcountExact
  BY DEF RefInv, Exact, RefcountExact, Held, Holders
<1>2. ASSUME NEW h \in Holder, lease[h] # NoLease
      PROVE  memory[lease[h]] = "allocated" /\ \A t \in Thread : freeing[t] # lease[h]
  <2>1. lease[h] \in Lease
    BY <1>2 DEF RefInv, RefType
  <2>2. Cardinality(Held(lease, lease[h])) \in Nat \ {0}
    BY HeldPositive DEF RefInv, RefType
  <2>3. refcount[lease[h]] # 0
    BY <2>1, <2>2 DEF RefInv, RefType, Exact
  <2> QED BY <1>2, <2>1, <2>3 DEF RefInv, CountedIsAllocated, OneFrees
<1>3. ASSUME NEW t \in Thread, ~Ready(t)
      PROVE  /\ memory[freeing[t]] = "allocated"
             /\ \A u \in Thread : freeing[u] = freeing[t] => u = t
  BY <1>3 DEF RefInv, OneFrees, Ready
<1> QED BY <1>1, <1>2, <1>3, Zenon DEF NoDanglingLease

\* The fields of a cleared reference are those of a packet.
LEMMA ZeroInfo == Zero \in Info
BY DEF Zero, Info

\* A release of what one reference held keeps the invariant.
LEMMA ReleaseStep ==
  ASSUME RefInv, NEW t \in Thread, Ready(t), NEW h \in Holder,
         tide_payload_lease_release(t, lease[h]), UNCHANGED <<memory, lost>>,
         lease' \in [Holder -> Lease \cup {NoLease}], info' \in [Holder -> Info],
         \A l \in Lease : Cardinality(Held(lease', l)) =
                            Cardinality(Held(lease, l)) - One(lease[h], l)
  PROVE  RefInv'
<1>1. CASE lease[h] = NoLease
  <2>1. UNCHANGED <<refcount, freeing>>
    BY <1>1 DEF tide_payload_lease_release
  <2>2. \A l \in Lease : One(lease[h], l) = 0
    BY <1>1, RefsAssumption DEF One
  <2>3. \A l \in Lease : Cardinality(Held(lease, l)) \in Nat
    BY OverwriteOne DEF RefInv, RefType
  <2>4. Exact'
    BY <2>1, <2>2, <2>3 DEF RefInv, Exact
  <2> QED BY <2>1, <2>4 DEF RefInv, RefType, CountedIsAllocated, OneFrees, Reclaimed
<1>2. CASE lease[h] # NoLease
  <2> DEFINE m == lease[h]
  <2>1. m \in Lease
    BY <1>2 DEF RefInv, RefType
  <2>2. /\ refcount' = [refcount EXCEPT ![m] = refcount[m] - 1]
        /\ freeing' = [freeing EXCEPT ![t] = IF refcount[m] = 1 THEN m ELSE NoLease]
    BY <1>2 DEF tide_payload_lease_release
  <2>3. Cardinality(Held(lease, m)) \in Nat \ {0}
    BY HeldPositive DEF RefInv, RefType
  <2>4. refcount[m] \in Nat \ {0} /\ refcount[m] >= Cardinality(Held(lease, m))
    BY <2>1, <2>3 DEF RefInv, RefType, Exact
  <2>5. memory[m] = "allocated" /\ \A u \in Thread : freeing[u] # m
    BY <2>1, <2>4, <1>2 DEF RefInv, RefType, CountedIsAllocated, OneFrees
  <2> HIDE DEF m
  <2>6. RefType'
    BY <2>1, <2>2, <2>4 DEF RefInv, RefType
  <2>7. Exact'
    <3> SUFFICES ASSUME NEW l \in Lease
                 PROVE  refcount'[l] = Cardinality(Held(lease', l)) + lost'[l]
      BY DEF Exact
    <3>1. Cardinality(Held(lease, l)) \in Nat
      BY OverwriteOne DEF RefInv, RefType
    <3>2. /\ Cardinality(Held(lease', l)) = Cardinality(Held(lease, l)) - One(m, l)
          /\ refcount[l] = Cardinality(Held(lease, l)) + lost[l]
          /\ lost[l] \in Nat /\ lost'[l] = lost[l] /\ refcount[l] \in Int
      BY DEF RefInv, RefType, Exact, m
    <3>3. refcount'[l] = refcount[l] - One(m, l)
      BY <2>1, <2>2, <3>2 DEF One, RefInv, RefType
    <3>4. One(m, l) \in {0, 1}
      BY DEF One
    <3> QED BY <3>1, <3>2, <3>3, <3>4
  <2>8. CountedIsAllocated'
    BY <2>1, <2>2, <2>5 DEF RefInv, RefType, CountedIsAllocated
  <2>9. OneFrees'
    <3>1. CASE refcount[m] = 1
      BY <3>1, <2>1, <2>2, <2>5, <2>6, RefsAssumption DEF RefInv, RefType, OneFrees, Ready
    <3>2. CASE refcount[m] # 1
      <4>1. freeing' = [freeing EXCEPT ![t] = NoLease]
        BY <3>2, <2>2
      <4>2. \A u \in Thread : freeing'[u] # NoLease => freeing'[u] = freeing[u] /\ u # t
        BY <4>1 DEF RefInv, RefType
      <4> QED BY <4>1, <4>2, <2>1, <2>2, <2>5 DEF RefInv, RefType, OneFrees
    <3> QED BY <3>1, <3>2
  <2>10. Reclaimed'
    <3> SUFFICES ASSUME NEW l \in Lease, memory[l] = "allocated", refcount'[l] = 0
                 PROVE  \E u \in Thread : freeing'[u] = l
      BY DEF Reclaimed
    <3>1. CASE l = m
      <4>1. refcount[m] = 1
        BY <3>1, <2>1, <2>2, <2>4 DEF RefInv, RefType
      <4> QED BY <3>1, <4>1, <2>2 DEF RefInv, RefType
    <3>2. CASE l # m
      <4>1. refcount[l] = 0
        BY <3>2, <2>2 DEF RefInv, RefType
      <4>2. PICK u \in Thread : freeing[u] = l
        BY <4>1 DEF RefInv, Reclaimed
      <4>3. u # t
        BY <4>2, RefsAssumption DEF Ready
      <4> QED BY <4>2, <4>3, <2>2 DEF RefInv, RefType
    <3> QED BY <3>1, <3>2
  <2> QED BY <2>6, <2>7, <2>8, <2>9, <2>10 DEF RefInv
<1> QED BY <1>1, <1>2

\* A move into an empty reference changes no count.
LEMMA KeepStep ==
  ASSUME RefInv, NEW dst \in Holder, NEW src \in Holder, dst # src, lease[dst] = NoLease,
         lease' = [lease EXCEPT ![dst] = lease[src], ![src] = NoLease],
         info' \in [Holder -> Info],
         UNCHANGED <<refcount, memory, freeing, lost>>
  PROVE  RefInv'
<1>1. lease' \in [Holder -> Lease \cup {NoLease}]
  BY DEF RefInv, RefType
<1>2. ASSUME NEW l \in Lease
      PROVE  Cardinality(Held(lease', l)) = Cardinality(Held(lease, l))
  <2>1. /\ Cardinality(Held(lease, l)) \in Nat
        /\ Cardinality(Held(lease', l)) = Cardinality(Held(lease, l)) - One(lease[dst], l)
    BY MoveOne, Zenon DEF RefInv, RefType
  <2>2. One(lease[dst], l) = 0
    BY RefsAssumption DEF One
  <2> QED BY <2>1, <2>2
<1>3. Exact'
  BY <1>2, Zenon DEF RefInv, Exact
<1> QED BY <1>1, <1>3 DEF RefInv, RefType, CountedIsAllocated, OneFrees, Reclaimed

\* tide_packet_ref_reset keeps the invariant, of whichever reference.
LEMMA ResetStep ==
  ASSUME RefInv, NEW t \in Thread, NEW h \in Holder, tide_packet_ref_reset(t, h)
  PROVE  RefInv'
<1>1. /\ Ready(t) /\ tide_payload_lease_release(t, lease[h]) /\ UNCHANGED <<memory, lost>>
      /\ lease' = [lease EXCEPT ![h] = NoLease] /\ info' = [info EXCEPT ![h] = Zero]
  BY DEF tide_packet_ref_reset, Put
<1>2. lease' \in [Holder -> Lease \cup {NoLease}] /\ info' \in [Holder -> Info]
  BY <1>1, ZeroInfo DEF RefInv, RefType
<1>3. ASSUME NEW l \in Lease
      PROVE  Cardinality(Held(lease', l)) = Cardinality(Held(lease, l)) - One(lease[h], l)
  <2>1. NoLease \in Lease \cup {NoLease}
    OBVIOUS
  <2>2. /\ Cardinality(Held(lease, l)) \in Nat
        /\ Cardinality(Held(lease', l)) =
             Cardinality(Held(lease, l)) + One(NoLease, l) - One(lease[h], l)
    BY <1>1, <2>1, OverwriteOne, Zenon DEF RefInv, RefType
  <2>3. One(NoLease, l) = 0 /\ One(lease[h], l) \in {0, 1}
    BY RefsAssumption DEF One
  <2> QED BY <2>2, <2>3
<1> QED BY <1>1, <1>2, <1>3, ReleaseStep, Zenon

\* tide_packet_ref_move keeps the invariant: what dst held is released.
LEMMA MoveStep ==
  ASSUME RefInv, NEW t \in Thread, NEW dst \in Holder, NEW src \in Holder,
         tide_packet_ref_move(t, dst, src)
  PROVE  RefInv'
<1>1. /\ Ready(t) /\ dst # src
      /\ tide_payload_lease_release(t, lease[dst]) /\ UNCHANGED <<memory, lost>>
      /\ lease' = [lease EXCEPT ![dst] = lease[src], ![src] = NoLease]
      /\ info' = [info EXCEPT ![dst] = info[src], ![src] = Zero]
  BY DEF tide_packet_ref_move
<1>2. lease' \in [Holder -> Lease \cup {NoLease}] /\ info' \in [Holder -> Info]
  BY <1>1, ZeroInfo DEF RefInv, RefType
<1>3. ASSUME NEW l \in Lease
      PROVE  Cardinality(Held(lease', l)) = Cardinality(Held(lease, l)) - One(lease[dst], l)
  BY <1>1, MoveOne, Zenon DEF RefInv, RefType
<1> QED BY <1>1, <1>2, <1>3, ReleaseStep, Zenon

\* A new lease has one reference.
LEMMA CreateStep ==
  ASSUME RefInv, NEW t \in Thread, NEW r \in Ref, NEW m \in Lease,
         tide_payload_lease_create_copy(t, r, m)
  PROVE  RefInv'
<1>1. /\ lease[r] = NoLease /\ memory[m] = "unused"
      /\ memory' = [memory EXCEPT ![m] = "allocated"]
      /\ refcount' = [refcount EXCEPT ![m] = 1]
      /\ lease' = [lease EXCEPT ![r] = m] /\ info' = [info EXCEPT ![r] = Packet[m]]
      /\ UNCHANGED <<freeing, lost>>
  BY DEF tide_payload_lease_create_copy, Put
<1>2. RefType'
  <2>1. r \in Holder /\ Packet[m] \in Info
    BY RefsAssumption DEF Holder
  <2> QED BY <1>1, <2>1 DEF RefInv, RefType
<1>3. refcount[m] = 0
  BY <1>1 DEF RefInv, CountedIsAllocated
<1>4. Exact'
  <2> SUFFICES ASSUME NEW l \in Lease
               PROVE  refcount'[l] = Cardinality(Held(lease', l)) + lost'[l]
    BY DEF Exact
  <2>1. r \in Holder /\ m \in Lease \cup {NoLease}
    BY DEF Holder
  <2>2. /\ Cardinality(Held(lease, l)) \in Nat
        /\ Cardinality(Held(lease', l)) =
             Cardinality(Held(lease, l)) + One(m, l) - One(lease[r], l)
    BY <1>1, <2>1, OverwriteOne, Zenon DEF RefInv, RefType
  <2>3. /\ One(lease[r], l) = 0 /\ One(m, l) \in {0, 1}
        /\ refcount'[l] = refcount[l] + One(m, l)
    BY <1>1, <1>3, RefsAssumption DEF One, RefInv, RefType
  <2>4. /\ refcount[l] = Cardinality(Held(lease, l)) + lost[l]
        /\ lost'[l] = lost[l] /\ lost[l] \in Nat
    BY <1>1 DEF RefInv, RefType, Exact
  <2> QED BY <2>2, <2>3, <2>4
<1>5. CountedIsAllocated'
  BY <1>1 DEF RefInv, RefType, CountedIsAllocated
<1>6. ASSUME NEW u \in Thread, freeing[u] = m
      PROVE  FALSE
  <2>1. m # NoLease
    BY RefsAssumption
  <2>2. memory[m] = "allocated"
    BY <1>6, <2>1 DEF RefInv, OneFrees
  <2> QED BY <1>1, <2>2
<1>7. OneFrees'
  BY <1>1, <1>6 DEF RefInv, RefType, OneFrees
<1>8. Reclaimed'
  BY <1>1 DEF RefInv, RefType, Reclaimed
<1> QED BY <1>2, <1>4, <1>5, <1>7, <1>8 DEF RefInv

\* A retained lease has one more reference.
LEMMA RetainStep ==
  ASSUME RefInv, NEW t \in Thread, NEW r \in Ref, NEW other \in Ref,
         tide_payload_lease_retain(t, r, other)
  PROVE  RefInv'
<1> DEFINE m == lease[r]
<1>0. r \in Holder /\ other \in Holder
  BY DEF Holder
<1>1. /\ m \in Lease /\ lease[other] = NoLease
      /\ refcount' = [refcount EXCEPT ![m] = refcount[m] + 1]
      /\ lease' = [lease EXCEPT ![other] = m] /\ info' = [info EXCEPT ![other] = info[r]]
      /\ UNCHANGED <<memory, freeing, lost>>
  BY <1>0 DEF tide_payload_lease_retain, Put, RefInv, RefType
<1>2. Cardinality(Held(lease, m)) \in Nat \ {0}
  BY <1>0, HeldPositive DEF RefInv, RefType
<1>3. refcount[m] \in Nat \ {0}
  BY <1>1, <1>2 DEF RefInv, RefType, Exact
<1> HIDE DEF m
<1>4. RefType'
  BY <1>0, <1>1 DEF RefInv, RefType
<1>5. Exact'
  <2> SUFFICES ASSUME NEW l \in Lease
               PROVE  refcount'[l] = Cardinality(Held(lease', l)) + lost'[l]
    BY DEF Exact
  <2>1. m \in Lease \cup {NoLease}
    BY <1>1
  <2>2. /\ Cardinality(Held(lease, l)) \in Nat
        /\ Cardinality(Held(lease', l)) =
             Cardinality(Held(lease, l)) + One(m, l) - One(lease[other], l)
    BY <1>0, <1>1, <2>1, OverwriteOne, Zenon DEF RefInv, RefType
  <2>3. /\ One(lease[other], l) = 0 /\ One(m, l) \in {0, 1}
        /\ refcount'[l] = refcount[l] + One(m, l)
    BY <1>1, RefsAssumption DEF One, RefInv, RefType
  <2>4. /\ refcount[l] = Cardinality(Held(lease, l)) + lost[l]
        /\ lost'[l] = lost[l] /\ lost[l] \in Nat
    BY <1>1 DEF RefInv, RefType, Exact
  <2> QED BY <2>2, <2>3, <2>4
<1>6. memory[m] = "allocated" /\ \A u \in Thread : freeing[u] # m
  BY <1>1, <1>3, RefsAssumption DEF RefInv, RefType, CountedIsAllocated, OneFrees
<1>7. CountedIsAllocated' /\ OneFrees'
  BY <1>1, <1>6 DEF RefInv, RefType, CountedIsAllocated, OneFrees
<1>8. Reclaimed'
  BY <1>1, <1>3 DEF RefInv, RefType, Reclaimed
<1> QED BY <1>4, <1>5, <1>7, <1>8 DEF RefInv

\* Overwriting a reference keeps the invariant: its lease is counted as lost.
LEMMA InitAndMoveStep ==
  ASSUME RefInv, NEW t \in Thread, NEW dst \in Holder, NEW src \in Holder, dst # src,
         InitAndMove(t, dst, src)
  PROVE  RefInv'
<1>1. /\ lost' = IF lease[dst] = NoLease THEN lost ELSE [lost EXCEPT ![lease[dst]] = lost[lease[dst]] + 1]
      /\ lease' = [lease EXCEPT ![dst] = lease[src], ![src] = NoLease]
      /\ info' = [info EXCEPT ![dst] = info[src], ![src] = Zero]
      /\ UNCHANGED <<refcount, memory, freeing>>
  BY DEF InitAndMove
<1>2. RefType'
  BY <1>1, ZeroInfo DEF RefInv, RefType
<1>3. Exact'
  <2> SUFFICES ASSUME NEW l \in Lease
               PROVE  refcount'[l] = Cardinality(Held(lease', l)) + lost'[l]
    BY DEF Exact
  <2>1. /\ Cardinality(Held(lease, l)) \in Nat
        /\ Cardinality(Held(lease', l)) = Cardinality(Held(lease, l)) - One(lease[dst], l)
    BY <1>1, MoveOne, Zenon DEF RefInv, RefType
  <2>2. /\ lost'[l] = lost[l] + One(lease[dst], l) /\ One(lease[dst], l) \in {0, 1}
        /\ lost[l] \in Nat
    BY <1>1, RefsAssumption DEF One, RefInv, RefType
  <2>3. refcount'[l] = Cardinality(Held(lease, l)) + lost[l]
    BY <1>1 DEF RefInv, Exact
  <2> QED BY <2>1, <2>2, <2>3
<1> QED BY <1>1, <1>2, <1>3 DEF RefInv, CountedIsAllocated, OneFrees, Reclaimed

\* The thread that frees a lease is the only one, and nothing refers to the lease.
LEMMA FreeStep ==
  ASSUME RefInv, NEW t \in Thread, Free(t)
  PROVE  RefInv'
<1> DEFINE m == freeing[t]
<1>1. /\ m \in Lease /\ m # NoLease
      /\ memory' = [memory EXCEPT ![m] = "freed"]
      /\ freeing' = [freeing EXCEPT ![t] = NoLease]
      /\ UNCHANGED <<lease, info, refcount, lost>>
  BY DEF Free, Ready, RefInv, RefType
<1>2. refcount[m] = 0 /\ \A u \in Thread : freeing[u] = m => u = t
  BY <1>1 DEF RefInv, OneFrees
<1> HIDE DEF m
<1>3. RefType' /\ Exact'
  BY <1>1 DEF RefInv, RefType, Exact
<1>4. CountedIsAllocated'
  BY <1>1, <1>2 DEF RefInv, RefType, CountedIsAllocated
<1>5. ASSUME NEW u \in Thread, freeing'[u] # NoLease
      PROVE  u # t /\ freeing'[u] = freeing[u] /\ freeing[u] # m
  BY <1>1, <1>2, <1>5 DEF RefInv, RefType
<1>6. OneFrees'
  BY <1>1, <1>5 DEF RefInv, RefType, OneFrees
<1>7. Reclaimed'
  BY <1>1 DEF RefInv, RefType, Reclaimed, m
<1> QED BY <1>3, <1>4, <1>6, <1>7 DEF RefInv

------------------------------------------------------------------------------
(* The order of packets *)

\* Presentation order is a strict weak order.
LEMMA LessIsWeakOrder ==
  ASSUME NEW a \in Info, NEW b \in Info, NEW c \in Info
  PROVE  /\ ~tide_packet_less(a, a)
         /\ tide_packet_less(a, b) => ~tide_packet_less(b, a)
         /\ ~tide_packet_less(b, a) /\ ~tide_packet_less(c, b) => ~tide_packet_less(c, a)
BY DEF tide_packet_less, Info

\* The position push finds: below items the packet is less than, above one it is not.
LEMMA PositionIsRight ==
  ASSUME queue \in Seq(Cell), NEW x
  PROVE  /\ Position(x) \in 0..Len(queue)
         /\ \A i \in (Position(x) + 1)..Len(queue) : tide_packet_less(x, info[queue[i]])
         /\ Position(x) # 0 => ~tide_packet_less(x, info[queue[Position(x)]])
<1> DEFINE P == Positions(x)
<1>1. Len(queue) \in P /\ P \subseteq Nat
  <2>1. Len(queue) \in Nat
    OBVIOUS
  <2> QED BY <2>1 DEF Positions
<1>2. PICK p \in P : \A q \in P : ~(<<q, p>> \in OpToRel(<, Nat))
  <2> HIDE DEF P
  <2> QED BY <1>1, NatLessThanWellFounded, WFMin, Zenon
<1>3. \A q \in P : p <= q
  <2> HIDE DEF P
  <2> SUFFICES ASSUME NEW q \in P PROVE ~(q < p)
    BY <1>1
  <2> QED BY <1>1, <1>2, Zenon DEF OpToRel
<1>4. Position(x) \in P /\ \A q \in P : Position(x) <= q
  <2> HIDE DEF P
  <2>1. Position(x) = CHOOSE k \in P : \A q \in P : k <= q
    BY DEF Position, P
  <2> QED BY <1>3, <2>1
<1> DEFINE k == Position(x)
<1>5. k \in 0..Len(queue) /\ \A i \in (k + 1)..Len(queue) : tide_packet_less(x, info[queue[i]])
  BY <1>4 DEF Positions
<1>6. ASSUME k # 0, tide_packet_less(x, info[queue[k]])
      PROVE  FALSE
  <2> HIDE DEF k
  <2>1. k - 1 \in P
    <3>1. k - 1 \in 0..Len(queue)
      BY <1>5, <1>6
    <3>2. ASSUME NEW i \in ((k - 1) + 1)..Len(queue)
          PROVE  tide_packet_less(x, info[queue[i]])
      <4>1. i = k \/ i \in (k + 1)..Len(queue)
        BY <1>5, <3>1
      <4> QED BY <1>5, <1>6, <4>1
    <3> QED BY <3>1, <3>2 DEF Positions
  <2> QED BY <1>4, <1>5, <2>1 DEF k
<1> QED BY <1>5, <1>6

------------------------------------------------------------------------------
(* The inductive invariant of the queue *)

QueueType ==
  queue \in Seq(Cell) /\ capacity \in Nat /\ limit \in Nat

InQueue(c) == \E i \in 1..Len(queue) : queue[i] = c

\* An item that is not in the queue holds nothing, so that push overwrites no lease.
SpareCells == \A c \in Cell : ~InQueue(c) => lease[c] = NoLease

NothingLost == careful => \A l \in Lease : lost[l] = 0

QueueInv ==
  /\ QueueType /\ QueueBounded /\ QueueSorted
  /\ SpareCells /\ NothingLost

Inv == RefInv /\ QueueInv

\* A step on references outside the queue keeps the queue's invariant.
LEMMA QueueKept ==
  ASSUME Inv, UNCHANGED <<queue, capacity, limit, draining, careful, lost>>,
         \A c \in Cell : lease'[c] = lease[c] /\ info'[c] = info[c]
  PROVE  QueueInv'
<1>1. QueueType' /\ QueueBounded' /\ NothingLost'
  BY DEF Inv, QueueInv, QueueType, QueueBounded, NothingLost
<1>2. SpareCells'
  BY DEF Inv, QueueInv, SpareCells, InQueue
<1>3. \A i \in DOMAIN queue : queue[i] \in Cell
  BY DEF Inv, QueueInv, QueueType
<1>4. QueueSorted'
  BY <1>3 DEF Inv, QueueInv, QueueSorted, tide_packet_less
<1> QED BY <1>1, <1>2, <1>4 DEF QueueInv

\* The references and the items are different variables.
LEMMA RefIsNoCell ==
  ASSUME NEW r \in Ref, NEW c \in Cell
  PROVE  r # c /\ r \in Holder /\ c \in Holder
BY RefsAssumption DEF Holder

\* Inserting shifts the items above the position.
LEMMA InsertedItems ==
  ASSUME queue \in Seq(Cell), NEW c \in Cell, NEW p \in 0..Len(queue)
  PROVE  /\ InsertedAt(c, p) \in Seq(Cell) /\ Len(InsertedAt(c, p)) = Len(queue) + 1
         /\ \A i \in 1..p : InsertedAt(c, p)[i] = queue[i]
         /\ InsertedAt(c, p)[p + 1] = c
         /\ \A i \in (p + 2)..(Len(queue) + 1) : InsertedAt(c, p)[i] = queue[i - 1]
<1> DEFINE n == Len(queue)
<1>1. n \in Nat /\ \A i \in 1..n : queue[i] \in Cell
  OBVIOUS
<1> HIDE DEF n
<1>2. \A i \in 1..(n + 1) :
        (IF i <= p THEN queue[i] ELSE IF i = p + 1 THEN c ELSE queue[i - 1]) \in Cell
  <2> TAKE i \in 1..(n + 1)
  <2>1. CASE i <= p
    BY <1>1, <2>1 DEF n
  <2>2. CASE i > p + 1
    BY <1>1, <2>2 DEF n
  <2> QED BY <2>1, <2>2, <1>1 DEF n
<1>3. InsertedAt(c, p) = [i \in 1..(n + 1) |->
        IF i <= p THEN queue[i] ELSE IF i = p + 1 THEN c ELSE queue[i - 1]]
  BY DEF InsertedAt, n
<1>4. InsertedAt(c, p) \in Seq(Cell) /\ Len(InsertedAt(c, p)) = n + 1
  BY <1>1, <1>2, <1>3
<1> QED BY <1>1, <1>3, <1>4 DEF n

\* push keeps the queue sorted, within its bounds and over cells that hold nothing.
LEMMA PushStep ==
  ASSUME Inv, NEW t \in Thread, NEW r \in Ref, NEW c \in Cell,
         tide_reorder_queue_push(t, r, c)
  PROVE  Inv'
<1> DEFINE p == Position(info[r])
           n == Len(queue)
<1>1. /\ n < limit /\ ~InQueue(c)
      /\ queue' = InsertedAt(c, p)
      /\ lease' = [lease EXCEPT ![c] = lease[r], ![r] = NoLease]
      /\ info' = [info EXCEPT ![c] = info[r], ![r] = Zero]
      /\ capacity' = IF n = capacity THEN Grown ELSE capacity
      /\ UNCHANGED <<refcount, memory, freeing, lost, limit, draining, careful>>
  BY DEF tide_reorder_queue_push, InQueue
<1>2. r # c /\ r \in Holder /\ c \in Holder
  BY RefIsNoCell
<1>3. /\ queue \in Seq(Cell) /\ n \in Nat /\ \A i \in 1..n : queue[i] \in Cell
      /\ capacity \in Nat /\ limit \in Nat /\ n <= capacity /\ capacity <= limit
      /\ lease \in [Holder -> Lease \cup {NoLease}] /\ info \in [Holder -> Info]
  BY DEF Inv, QueueInv, QueueType, QueueBounded, RefInv, RefType
<1>4. lease[c] = NoLease
  BY <1>1 DEF Inv, QueueInv, SpareCells
<1>5. RefInv'
  <2>1. info' \in [Holder -> Info]
    BY <1>1, <1>2, <1>3, ZeroInfo
  <2> QED BY <1>1, <1>2, <1>4, <2>1, KeepStep, Zenon DEF Inv
<1>6. /\ p \in 0..n
      /\ \A i \in (p + 1)..n : tide_packet_less(info[r], info[queue[i]])
      /\ p # 0 => ~tide_packet_less(info[r], info[queue[p]])
  BY <1>3, PositionIsRight
<1>7. /\ queue' \in Seq(Cell) /\ Len(queue') = n + 1
      /\ \A i \in 1..p : queue'[i] = queue[i]
      /\ queue'[p + 1] = c
      /\ \A i \in (p + 2)..(n + 1) : queue'[i] = queue[i - 1]
  <2>1. /\ InsertedAt(c, p) \in Seq(Cell) /\ Len(InsertedAt(c, p)) = n + 1
        /\ \A i \in 1..p : InsertedAt(c, p)[i] = queue[i]
        /\ InsertedAt(c, p)[p + 1] = c
        /\ \A i \in (p + 2)..(n + 1) : InsertedAt(c, p)[i] = queue[i - 1]
    <3> HIDE DEF p
    <3> QED BY <1>3, <1>6, InsertedItems, Zenon
  <2> HIDE DEF p, n
  <2> QED BY <1>1, <2>1, Zenon
<1>8. ASSUME NEW i \in 1..n
      PROVE  /\ queue[i] # c /\ info'[queue[i]] = info[queue[i]]
             /\ lease'[queue[i]] = lease[queue[i]] /\ info[queue[i]] \in Info
  <2>1. queue[i] # c /\ queue[i] \in Cell
    BY <1>1, <1>3 DEF InQueue
  <2>2. queue[i] # r /\ queue[i] \in Holder
    BY <2>1, RefIsNoCell
  <2> QED BY <1>1, <1>3, <2>1, <2>2
<1>9. info'[c] = info[r] /\ info[r] \in Info
  BY <1>1, <1>2, <1>3
<1> HIDE DEF p, n
<1>b. p \in Nat /\ n \in Nat /\ p <= n
  BY <1>3, <1>6
<1>10. QueueType'
  <2>1. Grown \in Nat
    BY <1>3, QueueAssumption DEF Grown
  <2> QED BY <1>1, <1>3, <1>7, <2>1 DEF QueueType, Inv, QueueInv
<1>11. QueueBounded'
  <2>1. n + 1 <= capacity' /\ capacity' <= limit
    BY <1>1, <1>3, QueueAssumption DEF Grown
  <2>2. ASSUME NEW i \in 1..(n + 1), NEW j \in 1..(n + 1), queue'[i] = queue'[j]
        PROVE  i = j
    <3>1. \A a, b \in 1..n : queue[a] = queue[b] => a = b
      BY <1>3 DEF Inv, QueueInv, QueueBounded, n
    <3>2. ASSUME NEW a \in 1..(n + 1), a # p + 1
          PROVE  \/ a \in 1..p /\ a \in 1..n /\ queue'[a] = queue[a]
                 \/ a \in (p + 2)..(n + 1) /\ a - 1 \in 1..n /\ queue'[a] = queue[a - 1]
      <4>1. CASE a <= p
        <5>1. a \in 1..p /\ a \in 1..n
          BY <1>b, <4>1
        <5> QED BY <1>7, <5>1
      <4>2. CASE a > p + 1
        <5>1. a \in (p + 2)..(n + 1) /\ a - 1 \in 1..n
          BY <1>b, <4>2
        <5> QED BY <1>7, <5>1
      <4>3. a <= p \/ a > p + 1
        BY <1>b, <3>2
      <4> QED BY <4>1, <4>2, <4>3
    <3>3. ASSUME NEW a \in 1..(n + 1), a # p + 1
          PROVE  queue'[a] # c
      BY <3>2, <3>3, <1>8
    <3>4. CASE i = p + 1 \/ j = p + 1
      BY <3>3, <3>4, <2>2, <1>7
    <3>5. CASE i # p + 1 /\ j # p + 1
      BY <3>1, <3>2, <3>5, <2>2, <1>b
    <3> QED BY <3>4, <3>5
  <2>3. DOMAIN queue' = 1..(n + 1)
    BY <1>7
  <2> QED BY <1>1, <1>7, <2>1, <2>2, <2>3 DEF QueueBounded
<1>12. QueueSorted'
  <2> SUFFICES ASSUME NEW i \in 1..(n + 1), NEW j \in 1..(n + 1), i < j
               PROVE  ~tide_packet_less(info'[queue'[j]], info'[queue'[i]])
    <3>1. DOMAIN queue' = 1..(n + 1)
      <4>1. queue' \in Seq(Cell) /\ Len(queue') = n + 1
        BY <1>7
      <4> QED BY <4>1
    <3> QED BY <3>1 DEF QueueSorted, tide_packet_less
  <2>1. ASSUME NEW a \in 1..n, NEW b \in 1..n, a < b
        PROVE  ~tide_packet_less(info[queue[b]], info[queue[a]])
    BY <1>3, <2>1 DEF Inv, QueueInv, QueueSorted, n
  <2>2. CASE j <= p
    <3>1. i \in 1..n /\ j \in 1..n /\ queue'[i] = queue[i] /\ queue'[j] = queue[j]
      <4>1. i \in 1..p /\ j \in 1..p /\ i \in 1..n /\ j \in 1..n
        BY <1>b, <2>2
      <4> QED BY <4>1, <1>7
    <3>2. info'[queue'[i]] = info[queue[i]] /\ info'[queue'[j]] = info[queue[j]]
      BY <3>1, <1>8
    <3>3. ~tide_packet_less(info[queue[j]], info[queue[i]])
      BY <3>1, <2>1
    <3> QED BY <3>2, <3>3
  <2>3. CASE j = p + 1
    <3>1. i \in 1..n /\ p \in 1..n /\ i <= p /\ queue'[i] = queue[i] /\ queue'[j] = c
      <4>1. i \in 1..n /\ p \in 1..n /\ i <= p /\ i \in 1..p
        BY <1>b, <2>3
      <4> QED BY <4>1, <1>7, <2>3
    <3>2. ~tide_packet_less(info[r], info[queue[p]])
      <4>1. p # 0
        BY <3>1
      <4> QED BY <4>1, <1>6
    <3>3. ~tide_packet_less(info[r], info[queue[i]])
      <4>1. CASE i = p
        BY <3>2, <4>1
      <4>2. CASE i # p
        <5>1. ~tide_packet_less(info[queue[p]], info[queue[i]])
          <6>1. i < p
            BY <3>1, <4>2, <1>b
          <6> QED BY <2>1, <3>1, <6>1
        <5> QED BY <3>1, <3>2, <5>1, <1>8, <1>9, LessIsWeakOrder
      <4> QED BY <4>1, <4>2
    <3>4. info'[queue'[i]] = info[queue[i]] /\ info'[queue'[j]] = info[r]
      BY <3>1, <1>8, <1>9
    <3> QED BY <3>3, <3>4
  <2>4. CASE j > p + 1 /\ i = p + 1
    <3>1. j - 1 \in (p + 1)..n /\ j - 1 \in 1..n /\ queue'[j] = queue[j - 1] /\ queue'[i] = c
      <4>1. j - 1 \in (p + 1)..n /\ j - 1 \in 1..n /\ j \in (p + 2)..(n + 1)
        BY <1>b, <2>4
      <4> QED BY <4>1, <1>7, <2>4
    <3>2. tide_packet_less(info[r], info[queue[j - 1]])
      BY <1>6, <3>1
    <3>3. ~tide_packet_less(info[queue[j - 1]], info[r])
      BY <3>1, <3>2, <1>8, <1>9, LessIsWeakOrder
    <3>4. info'[queue'[j]] = info[queue[j - 1]] /\ info'[queue'[i]] = info[r]
      BY <3>1, <1>8, <1>9
    <3> QED BY <3>3, <3>4
  <2>5. CASE j > p + 1 /\ i <= p
    <3>1. /\ j - 1 \in 1..n /\ i \in 1..n /\ i < j - 1
          /\ queue'[j] = queue[j - 1] /\ queue'[i] = queue[i]
      <4>1. /\ j - 1 \in 1..n /\ i \in 1..n /\ i < j - 1
            /\ i \in 1..p /\ j \in (p + 2)..(n + 1)
        BY <1>b, <2>5
      <4> QED BY <4>1, <1>7
    <3>2. info'[queue'[i]] = info[queue[i]] /\ info'[queue'[j]] = info[queue[j - 1]]
      BY <3>1, <1>8
    <3>3. ~tide_packet_less(info[queue[j - 1]], info[queue[i]])
      BY <3>1, <2>1
    <3> QED BY <3>2, <3>3
  <2>6. CASE j > p + 1 /\ i > p + 1
    <3>1. /\ j - 1 \in 1..n /\ i - 1 \in 1..n /\ i - 1 < j - 1
          /\ queue'[j] = queue[j - 1] /\ queue'[i] = queue[i - 1]
      <4>1. /\ j - 1 \in 1..n /\ i - 1 \in 1..n /\ i - 1 < j - 1
            /\ i \in (p + 2)..(n + 1) /\ j \in (p + 2)..(n + 1)
        BY <1>b, <2>6
      <4> QED BY <4>1, <1>7
    <3>2. info'[queue'[i]] = info[queue[i - 1]] /\ info'[queue'[j]] = info[queue[j - 1]]
      BY <3>1, <1>8
    <3>3. ~tide_packet_less(info[queue[j - 1]], info[queue[i - 1]])
      BY <3>1, <2>1
    <3> QED BY <3>2, <3>3
  <2>7. j <= p \/ j = p + 1 \/ (j > p + 1 /\ (i = p + 1 \/ i <= p \/ i > p + 1))
    BY <1>b
  <2> QED BY <2>2, <2>3, <2>4, <2>5, <2>6, <2>7
<1>13. ASSUME NEW d, InQueue(d)
       PROVE  InQueue(d)'
  <2>1. PICK i \in 1..n : queue[i] = d
    BY <1>13 DEF InQueue, n
  <2>2. CASE i <= p
    <3>1. i \in 1..p /\ i \in 1..(n + 1)
      BY <2>2, <1>b
    <3>2. queue'[i] = d
      BY <3>1, <2>1, <1>7
    <3> QED BY <3>1, <3>2, <1>7 DEF InQueue
  <2>3. CASE i > p
    <3>1. i + 1 \in (p + 2)..(n + 1) /\ (i + 1) - 1 = i
      BY <2>3, <1>b
    <3>2. queue'[i + 1] = d /\ i + 1 \in 1..(n + 1)
      <4>1. i + 1 \in 1..(n + 1)
        BY <1>b
      <4>2. queue'[i + 1] = queue[(i + 1) - 1]
        BY <3>1, <1>7
      <4> QED BY <4>1, <4>2, <3>1, <2>1
    <3> QED BY <3>2, <1>7 DEF InQueue
  <2> QED BY <2>2, <2>3, <1>b
<1>14. InQueue(c)'
  <2>1. p + 1 \in 1..(n + 1)
    BY <1>b
  <2> QED BY <2>1, <1>7 DEF InQueue
<1>15. SpareCells'
  <2> SUFFICES ASSUME NEW d \in Cell, ~InQueue(d)' PROVE lease'[d] = NoLease
    BY DEF SpareCells
  <2>1. d # c /\ ~InQueue(d)
    BY <1>13, <1>14
  <2>2. d # r /\ d \in Holder
    BY RefIsNoCell
  <2> QED BY <1>1, <1>3, <2>1, <2>2 DEF Inv, QueueInv, SpareCells
<1>16. NothingLost'
  BY <1>1 DEF Inv, QueueInv, NothingLost
<1> QED BY <1>5, <1>10, <1>11, <1>12, <1>15, <1>16 DEF Inv, QueueInv

\* The items that are left when the first is taken out of the queue.
LEMMA TailItems ==
  ASSUME queue \in Seq(Cell), queue # <<>>, queue' = Tail(queue),
         \A i, j \in DOMAIN queue : queue[i] = queue[j] => i = j
  PROVE  /\ Len(queue) \in Nat \ {0} /\ Head(queue) = queue[1] /\ Head(queue) \in Cell
         /\ queue' \in Seq(Cell) /\ Len(queue') = Len(queue) - 1
         /\ \A i \in 1..(Len(queue) - 1) : queue'[i] = queue[i + 1] /\ queue'[i] # Head(queue)
         /\ \A c \in Cell : InQueue(c) => InQueue(c)' \/ c = Head(queue)
<1> DEFINE n == Len(queue)
<1>1. /\ n \in Nat \ {0} /\ Head(queue) = queue[1] /\ Head(queue) \in Cell
      /\ queue' \in Seq(Cell) /\ Len(queue') = n - 1 /\ DOMAIN queue = 1..n
      /\ \A i \in 1..(n - 1) : queue'[i] = queue[i + 1]
  OBVIOUS
<1> HIDE DEF n
<1>2. ASSUME NEW i \in 1..(n - 1)
      PROVE  queue'[i] # Head(queue)
  <2>1. i + 1 \in 1..n /\ 1 \in 1..n /\ i + 1 # 1
    BY <1>1
  <2> QED BY <1>1, <2>1
<1>3. ASSUME NEW c \in Cell, InQueue(c), c # Head(queue)
      PROVE  InQueue(c)'
  <2>1. PICK i \in 1..n : queue[i] = c
    BY <1>3 DEF InQueue, n
  <2>2. i # 1
    BY <2>1, <1>1, <1>3
  <2>3. i - 1 \in 1..(n - 1) /\ (i - 1) + 1 = i
    BY <2>2, <1>1
  <2>4. queue'[i - 1] = c
    BY <2>1, <2>3, <1>1
  <2> QED BY <2>3, <2>4, <1>1 DEF InQueue
<1> QED BY <1>1, <1>2, <1>3 DEF n

\* Taking out the first item keeps what the invariant says of the others.
LEMMA TailStep ==
  ASSUME Inv, queue # <<>>, queue' = Tail(queue), UNCHANGED <<capacity, limit, draining, careful>>,
         \A c \in Cell : c # Head(queue) => lease'[c] = lease[c] /\ info'[c] = info[c],
         lease'[Head(queue)] = NoLease
  PROVE  QueueBounded' /\ QueueSorted' /\ SpareCells' /\ QueueType'
<1> DEFINE n == Len(queue)
<1>1. /\ queue \in Seq(Cell) /\ capacity \in Nat /\ limit \in Nat
      /\ n <= capacity /\ capacity <= limit
      /\ \A i, j \in DOMAIN queue : queue[i] = queue[j] => i = j
  BY DEF Inv, QueueInv, QueueType, QueueBounded
<1>2. /\ n \in Nat \ {0} /\ queue' \in Seq(Cell) /\ Len(queue') = n - 1
      /\ \A i \in 1..(n - 1) : queue'[i] = queue[i + 1] /\ queue'[i] # Head(queue)
      /\ \A c \in Cell : InQueue(c) => InQueue(c)' \/ c = Head(queue)
  BY <1>1, TailItems
<1>3. DOMAIN queue = 1..n /\ DOMAIN queue' = 1..(n - 1)
  BY <1>1, <1>2
<1>4. \A i \in 1..(n - 1) : info'[queue'[i]] = info[queue[i + 1]]
  <2>1. \A i \in 1..(n - 1) : queue'[i] \in Cell
    BY <1>2
  <2> QED BY <2>1, <1>2
<1> HIDE DEF n
<1>5. QueueBounded'
  <2>1. ASSUME NEW i \in 1..(n - 1), NEW j \in 1..(n - 1), queue'[i] = queue'[j]
        PROVE  i = j
    <3>1. i + 1 \in 1..n /\ j + 1 \in 1..n /\ queue[i + 1] = queue[j + 1]
      BY <1>2, <2>1
    <3>2. i + 1 = j + 1
      BY <3>1, <1>1, <1>3
    <3> QED BY <3>2, <1>2
  <2>2. Len(queue') <= capacity' /\ capacity' <= limit'
    BY <1>1, <1>2 DEF n
  <2> QED BY <2>1, <2>2, <1>3, Zenon DEF QueueBounded
<1>6. QueueSorted'
  <2> SUFFICES ASSUME NEW i \in 1..(n - 1), NEW j \in 1..(n - 1), i < j
               PROVE  ~tide_packet_less(info'[queue'[j]], info'[queue'[i]])
    BY <1>3, Zenon DEF QueueSorted, tide_packet_less
  <2>1. i + 1 \in 1..n /\ j + 1 \in 1..n /\ i + 1 < j + 1
    <3>1. n \in Nat
      BY <1>2
    <3> QED BY <3>1
  <2>2. ~tide_packet_less(info[queue[j + 1]], info[queue[i + 1]])
    BY <2>1, <1>3 DEF Inv, QueueInv, QueueSorted
  <2>3. info'[queue'[j]] = info[queue[j + 1]] /\ info'[queue'[i]] = info[queue[i + 1]]
    BY <1>4, Zenon
  <2> QED BY <2>2, <2>3
<1>7. SpareCells'
  <2> SUFFICES ASSUME NEW d \in Cell, ~InQueue(d)' PROVE lease'[d] = NoLease
    BY DEF SpareCells
  <2>1. CASE d = Head(queue)
    BY <2>1
  <2>2. CASE d # Head(queue)
    BY <2>2, <1>2 DEF Inv, QueueInv, SpareCells
  <2> QED BY <2>1, <2>2
<1>8. QueueType'
  BY <1>1, <1>2 DEF QueueType
<1> QED BY <1>5, <1>6, <1>7, <1>8

\* pop_ready takes the first item and leaves the others as they are.
LEMMA PopStep ==
  ASSUME Inv, NEW t \in Thread, NEW r \in Ref, tide_reorder_queue_pop_ready(t, r)
  PROVE  Inv'
<1> DEFINE h == Head(queue)
<1>1. /\ careful => lease[r] = NoLease
      /\ queue # <<>> /\ InitAndMove(t, r, h) /\ queue' = Tail(queue)
      /\ UNCHANGED <<capacity, limit, draining, careful>>
  BY DEF tide_reorder_queue_pop_ready, Leaves
<1>2. /\ queue \in Seq(Cell) /\ \A i, j \in DOMAIN queue : queue[i] = queue[j] => i = j
      /\ lease \in [Holder -> Lease \cup {NoLease}] /\ info \in [Holder -> Info]
  BY DEF Inv, QueueInv, QueueType, QueueBounded, RefInv, RefType
<1>3. h \in Cell
  BY <1>1, <1>2, TailItems
<1>4. r # h /\ r \in Holder /\ h \in Holder
  BY <1>3, RefIsNoCell
<1>5. RefInv'
  BY <1>1, <1>4, InitAndMoveStep DEF Inv
<1>6. /\ lease' = [lease EXCEPT ![r] = lease[h], ![h] = NoLease]
      /\ info' = [info EXCEPT ![r] = info[h], ![h] = Zero]
      /\ lost' = IF lease[r] = NoLease THEN lost ELSE [lost EXCEPT ![lease[r]] = lost[lease[r]] + 1]
  BY <1>1 DEF InitAndMove
<1>7. \A c \in Cell : c # h => lease'[c] = lease[c] /\ info'[c] = info[c]
  BY <1>2, <1>4, <1>6, RefIsNoCell
<1>8. lease'[h] = NoLease
  BY <1>2, <1>4, <1>6
<1>9. QueueBounded' /\ QueueSorted' /\ SpareCells' /\ QueueType'
  BY <1>1, <1>7, <1>8, TailStep, Zenon
<1>10. NothingLost'
  BY <1>1, <1>6 DEF Inv, QueueInv, NothingLost
<1> QED BY <1>5, <1>9, <1>10 DEF Inv, QueueInv

\* destroy resets the first of the items that are left.
LEMMA DestroyItemStep ==
  ASSUME Inv, NEW t \in Thread, DestroyItem(t)
  PROVE  Inv'
<1> DEFINE h == Head(queue)
<1>1. /\ draining /\ queue # <<>> /\ tide_packet_ref_reset(t, h) /\ queue' = Tail(queue)
      /\ UNCHANGED <<capacity, limit, draining, careful>>
  BY DEF DestroyItem, Leaves
<1>2. /\ queue \in Seq(Cell) /\ \A i, j \in DOMAIN queue : queue[i] = queue[j] => i = j
      /\ lease \in [Holder -> Lease \cup {NoLease}] /\ info \in [Holder -> Info]
  BY DEF Inv, QueueInv, QueueType, QueueBounded, RefInv, RefType
<1>3. h \in Cell /\ h \in Holder
  BY <1>1, <1>2 DEF Holder
<1>4. RefInv'
  BY <1>1, <1>3, ResetStep DEF Inv
<1>5. /\ lease' = [lease EXCEPT ![h] = NoLease] /\ info' = [info EXCEPT ![h] = Zero]
      /\ lost' = lost
  BY <1>1 DEF tide_packet_ref_reset, Put
<1>6. /\ \A c \in Cell : c # h => lease'[c] = lease[c] /\ info'[c] = info[c]
      /\ lease'[h] = NoLease
  BY <1>2, <1>3, <1>5 DEF Holder
<1>7. QueueBounded' /\ QueueSorted' /\ SpareCells' /\ QueueType'
  BY <1>1, <1>2, <1>6, TailStep
<1>8. NothingLost'
  BY <1>1, <1>5 DEF Inv, QueueInv, NothingLost
<1> QED BY <1>4, <1>7, <1>8 DEF Inv, QueueInv

------------------------------------------------------------------------------
(* Every step, and the theorems *)

\* Initially nothing is referred to and the queue is empty.
LEMMA InitInv == Init => Inv
<1> SUFFICES ASSUME Init PROVE Inv
  OBVIOUS
<1>1. RefType
  BY ZeroInfo DEF Init, RefInit, RefType
<1>2. Exact
  <2> SUFFICES ASSUME NEW l \in Lease
               PROVE  refcount[l] = Cardinality(Held(lease, l)) + lost[l]
    BY DEF Exact
  <2>1. Held(lease, l) = {}
    BY RefsAssumption DEF Init, RefInit, Held
  <2>2. Cardinality({}) = 0
    BY FS_EmptySet
  <2>3. Cardinality(Held(lease, l)) = 0
    BY <2>1, <2>2, Zenon
  <2>4. refcount[l] = 0 /\ lost[l] = 0
    BY DEF Init, RefInit
  <2> QED BY <2>3, <2>4
<1>3. CountedIsAllocated /\ OneFrees /\ Reclaimed
  BY DEF Init, RefInit, CountedIsAllocated, OneFrees, Reclaimed
<1>4. QueueType /\ QueueBounded
  BY ZeroInfo DEF Init, QueueType, QueueBounded
<1>5. QueueSorted
  BY DEF Init, QueueSorted
<1>6. SpareCells /\ NothingLost
  BY DEF Init, RefInit, SpareCells, NothingLost, Holder
<1> QED BY <1>1, <1>2, <1>3, <1>4, <1>5, <1>6 DEF Inv, RefInv, QueueInv

\* What a thread does with references of its own keeps the invariant.
LEMMA OwnRefsStep ==
  ASSUME Inv, NEW t \in Thread, OwnRefs(t)
  PROVE  Inv'
<1>1. UNCHANGED <<queue, capacity, limit, draining, careful>>
  BY DEF OwnRefs, queueVars
<1>2. lease \in [Holder -> Lease \cup {NoLease}] /\ info \in [Holder -> Info]
  BY DEF Inv, RefInv, RefType
<1>3. ASSUME NEW r \in Ref, NEW x, NEW y, Put(r, x, y)
      PROVE  \A c \in Cell : lease'[c] = lease[c] /\ info'[c] = info[c]
  BY <1>2, <1>3, RefIsNoCell DEF Put
<1>4. CASE \E r \in Ref, l \in Lease : tide_payload_lease_create_copy(t, r, l)
  <2>1. PICK r \in Ref, l \in Lease : tide_payload_lease_create_copy(t, r, l)
    BY <1>4
  <2>2. RefInv'
    BY <2>1, CreateStep DEF Inv
  <2>3. Put(r, l, Packet[l]) /\ lost' = lost
    BY <2>1 DEF tide_payload_lease_create_copy
  <2>4. QueueInv'
    BY <1>1, <1>3, <2>3, QueueKept
  <2> QED BY <2>2, <2>4 DEF Inv
<1>5. CASE \E r, other \in Ref : tide_payload_lease_retain(t, r, other)
  <2>1. PICK r, other \in Ref : tide_payload_lease_retain(t, r, other)
    BY <1>5
  <2>2. RefInv'
    BY <2>1, RetainStep DEF Inv
  <2>3. Put(other, lease[r], info[r]) /\ lost' = lost
    BY <2>1 DEF tide_payload_lease_retain
  <2>4. QueueInv'
    BY <1>1, <1>3, <2>3, QueueKept
  <2> QED BY <2>2, <2>4 DEF Inv
<1>6. CASE \E r \in Ref : owner[r] = t /\ tide_packet_ref_reset(t, r)
  <2>1. PICK r \in Ref : tide_packet_ref_reset(t, r)
    BY <1>6
  <2>2. RefInv'
    BY <2>1, ResetStep DEF Inv, Holder
  <2>3. Put(r, NoLease, Zero) /\ lost' = lost
    BY <2>1 DEF tide_packet_ref_reset
  <2>4. QueueInv'
    BY <1>1, <1>3, <2>3, QueueKept
  <2> QED BY <2>2, <2>4 DEF Inv
<1>7. CASE \E dst, src \in Ref :
             owner[dst] = t /\ owner[src] = t /\ tide_packet_ref_move(t, dst, src)
  <2>1. PICK dst, src \in Ref : tide_packet_ref_move(t, dst, src)
    BY <1>7
  <2>2. RefInv'
    BY <2>1, MoveStep DEF Inv, Holder
  <2>3. /\ lease' = [lease EXCEPT ![dst] = lease[src], ![src] = NoLease]
        /\ info' = [info EXCEPT ![dst] = info[src], ![src] = Zero]
        /\ lost' = lost
    BY <2>1 DEF tide_packet_ref_move
  <2>4. \A c \in Cell : lease'[c] = lease[c] /\ info'[c] = info[c]
    BY <1>2, <2>3, RefIsNoCell
  <2>5. QueueInv'
    BY <1>1, <2>3, <2>4, QueueKept, Zenon
  <2> QED BY <2>2, <2>5 DEF Inv
<1> QED BY <1>4, <1>5, <1>6, <1>7 DEF OwnRefs

\* A step that leaves the references and the queue's items alone.
LEMMA ItemsKept ==
  ASSUME Inv, UNCHANGED <<refVars, queue, careful>>,
         capacity' \in Nat, limit' \in Nat, Len(queue) <= capacity', capacity' <= limit'
  PROVE  Inv'
<1>1. RefInv'
  BY DEF Inv, RefInv, RefType, Exact, CountedIsAllocated, OneFrees, Reclaimed, refVars
<1>2. QueueType'
  BY DEF Inv, QueueInv, QueueType
<1>3. QueueBounded'
  BY DEF Inv, QueueInv, QueueBounded
<1>4. QueueSorted'
  BY Zenon DEF Inv, QueueInv, QueueSorted, refVars, tide_packet_less
<1>5. SpareCells' /\ NothingLost'
  BY Zenon DEF Inv, QueueInv, SpareCells, NothingLost, InQueue, refVars
<1> QED BY <1>1, <1>2, <1>3, <1>4, <1>5 DEF Inv, QueueInv

\* Every step of every thread keeps the invariant.
LEMMA NextInv == Inv /\ [Next]_vars => Inv'
<1> SUFFICES ASSUME Inv, [Next]_vars PROVE Inv'
  OBVIOUS
<1>0. capacity \in Nat /\ limit \in Nat /\ Len(queue) <= capacity /\ capacity <= limit
  BY DEF Inv, QueueInv, QueueType, QueueBounded
<1>1. CASE UNCHANGED vars
  BY <1>0, <1>1, ItemsKept DEF vars, queueVars
<1>2. ASSUME NEW t \in Thread, OwnRefs(t) PROVE Inv'
  BY <1>2, OwnRefsStep
<1>3. ASSUME NEW t \in Thread, NEW n \in Limits, tide_reorder_queue_init(t, n) PROVE Inv'
  <2>1. /\ queue = <<>> /\ capacity = 0 /\ limit' = IF n = 0 THEN limit ELSE n
        /\ UNCHANGED <<refVars, queue, capacity, draining, careful>>
    BY <1>3 DEF tide_reorder_queue_init
  <2>2. limit' \in Nat
    BY <1>0, <2>1, QueueAssumption
  <2>3. Len(queue) = 0
    BY <2>1
  <2> QED BY <1>0, <2>1, <2>2, <2>3, ItemsKept
<1>4. ASSUME NEW t \in Thread, NEW r \in Ref, tide_reorder_queue_push_fails(t, r) PROVE Inv'
  BY <1>0, <1>4, ItemsKept DEF tide_reorder_queue_push_fails, vars, queueVars
<1>5. ASSUME NEW t \in Thread, NEW r \in Ref, NEW c \in Cell, tide_reorder_queue_push(t, r, c)
      PROVE  Inv'
  BY <1>5, PushStep
<1>6. ASSUME NEW t \in Thread, NEW r \in Ref, tide_reorder_queue_pop_ready(t, r) PROVE Inv'
  BY <1>6, PopStep
<1>7. ASSUME NEW t \in Thread, PopWouldBlock(t) PROVE Inv'
  BY <1>0, <1>7, ItemsKept DEF PopWouldBlock, vars, queueVars
<1>8. ASSUME NEW t \in Thread, DestroyStart(t) PROVE Inv'
  BY <1>0, <1>8, ItemsKept DEF DestroyStart
<1>9. ASSUME NEW t \in Thread, Free(t), UNCHANGED queueVars PROVE Inv'
  <2>1. UNCHANGED <<queue, capacity, limit, draining, careful, lost, lease, info>>
    BY <1>9 DEF Free, queueVars
  <2>2. RefInv'
    BY <1>9, FreeStep DEF Inv
  <2>3. QueueInv'
    BY <2>1, QueueKept
  <2> QED BY <2>2, <2>3 DEF Inv
<1>10. ASSUME NEW t \in Thread, DestroyItem(t) PROVE Inv'
  BY <1>10, DestroyItemStep
<1>11. ASSUME NEW t \in Thread, DestroyEnd(t) PROVE Inv'
  <2>1. /\ queue = <<>> /\ capacity' = 0 /\ draining' = FALSE
        /\ UNCHANGED <<refVars, queue, limit, careful>>
    BY <1>11 DEF DestroyEnd
  <2>2. Len(queue) = 0
    BY <2>1
  <2>3. capacity' \in Nat /\ limit' \in Nat /\ Len(queue) <= capacity' /\ capacity' <= limit'
    BY <1>0, <2>1, <2>2
  <2> QED BY <2>1, <2>3, ItemsKept, Zenon
<1>12. ASSUME NEW t \in Thread, OnQueue(t) PROVE Inv'
  BY <1>12, <1>3, <1>4, <1>5, <1>6, <1>7, <1>8, Zenon DEF OnQueue
<1>13. ASSUME NEW t \in Thread, GoesOn(t) PROVE Inv'
  BY <1>13, <1>9, <1>10, <1>11, Zenon DEF GoesOn
<1> QED BY <1>1, <1>2, <1>12, <1>13, Zenon DEF Next

\* The invariant holds in every reachable state.
LEMMA SpecInv == Spec => []Inv
BY InitInv, NextInv, PTL DEF Spec

\* Reference counts are exact in every reachable state: a count is the number of
\* references, whatever the interleaving of the threads.
THEOREM RefcountIsExact == Spec => []RefcountExact
<1>1. Inv => RefcountExact
  BY RefInvImplies DEF Inv
<1> QED BY <1>1, SpecInv, PTL

\* No thread ever holds a lease that was freed or is being freed, and no lease is freed
\* twice.
THEOREM NoLeaseDangles == Spec => []NoDanglingLease
<1>1. Inv => NoDanglingLease
  BY RefInvImplies DEF Inv
<1> QED BY <1>1, SpecInv, PTL

\* With a caller that passes empty references to pop_ready, a lease nothing refers to is
\* always on its way to be freed.
THEOREM NoLeaseLeaks == Spec => []NoLeaseLeaked
<1>1. Inv => NoLeaseLeaked
  <2> SUFFICES ASSUME Inv, careful, NEW l \in Lease, memory[l] = "allocated", Holders(l) = {}
               PROVE  \E t \in Thread : freeing[t] = l
    BY DEF NoLeaseLeaked
  <2>1. Held(lease, l) = {}
    BY DEF Held, Holders
  <2>2. Cardinality({}) = 0
    BY FS_EmptySet
  <2>3. refcount[l] = 0
    BY <2>1, <2>2 DEF Inv, RefInv, Exact, QueueInv, NothingLost
  <2> QED BY <2>3 DEF Inv, RefInv, Reclaimed
<1> QED BY <1>1, SpecInv, PTL

\* The queue is never longer than its array, nor the array than the limit, and every item
\* is a packet of its own.
THEOREM QueueIsBounded == Spec => []QueueBounded
<1>1. Inv => QueueBounded
  BY DEF Inv, QueueInv
<1> QED BY <1>1, SpecInv, PTL

\* The queue is always in presentation order.
THEOREM QueueIsSorted == Spec => []QueueSorted
<1>1. Inv => QueueSorted
  BY DEF Inv, QueueInv
<1> QED BY <1>1, SpecInv, PTL

------------------------------------------------------------------------------
(* The queue and the order its packets arrived in *)

\* The same cells, each once, are in the queue and in arrivals.
SameCells ==
  /\ Len(arrivals) = Len(queue)
  /\ \A a, b \in DOMAIN arrivals : arrivals[a] = arrivals[b] => a = b
  /\ \A i \in DOMAIN queue : \E a \in DOMAIN arrivals : arrivals[a] = queue[i]
  /\ \A a \in DOMAIN arrivals : \E i \in DOMAIN queue : queue[i] = arrivals[a]

\* An item that is before another in the queue is less than it or arrived first.
Stable ==
  \A i, j \in DOMAIN queue : \A a, b \in DOMAIN arrivals :
    i < j /\ arrivals[a] = queue[i] /\ arrivals[b] = queue[j] =>
      tide_packet_less(info[queue[i]], info[queue[j]]) \/ a < b

HistoryType ==
  arrivals \in Seq(Cell) /\ draining \in BOOLEAN /\ careful \in BOOLEAN

HistoryInv == HistoryType /\ SameCells /\ Stable

\* The place in a sequence of what is at i once the k-th element is gone.
Up(i, k) == IF i < k THEN i ELSE i + 1
Down(i, k) == IF i < k THEN i ELSE i - 1
Gone(s, k) == [i \in 1..(Len(s) - 1) |-> s[Up(i, k)]]

\* Taking out the k-th element moves those after it down by one.
LEMMA GoneItems ==
  ASSUME NEW S, NEW s \in Seq(S), NEW k \in 1..Len(s)
  PROVE  /\ Gone(s, k) \in Seq(S) /\ Len(Gone(s, k)) = Len(s) - 1
         /\ \A i \in 1..(Len(s) - 1) :
              /\ Up(i, k) \in 1..Len(s) /\ Up(i, k) # k
              /\ Gone(s, k)[i] = s[Up(i, k)]
         /\ \A i \in 1..Len(s) : i # k =>
              Down(i, k) \in 1..(Len(s) - 1) /\ Up(Down(i, k), k) = i
         /\ \A i, j \in 1..(Len(s) - 1) : Up(i, k) < Up(j, k) <=> i < j
<1> DEFINE n == Len(s)
<1>1. n \in Nat /\ k \in 1..n /\ \A i \in 1..n : s[i] \in S
  OBVIOUS
<1>2. \A i \in 1..(n - 1) : Up(i, k) \in 1..n /\ Up(i, k) # k
  BY <1>1 DEF Up
<1>3. \A i \in 1..n : i # k => Down(i, k) \in 1..(n - 1) /\ Up(Down(i, k), k) = i
  BY <1>1 DEF Up, Down
<1>4. \A i, j \in 1..(n - 1) : Up(i, k) < Up(j, k) <=> i < j
  BY <1>1 DEF Up
<1>5. Gone(s, k) = [i \in 1..(n - 1) |-> s[Up(i, k)]]
  BY DEF Gone
<1> HIDE DEF n
<1>6. Gone(s, k) \in Seq(S) /\ Len(Gone(s, k)) = n - 1
  <2>1. \A i \in 1..(n - 1) : s[Up(i, k)] \in S
    BY <1>1, <1>2
  <2>2. n - 1 \in Nat
    BY <1>1
  <2> QED BY <1>5, <2>1, <2>2
<1> QED BY <1>2, <1>3, <1>4, <1>5, <1>6 DEF n

\* What the order means after a step.
LEMMA StableNext ==
  ASSUME \A i, j \in DOMAIN queue' : \A a, b \in DOMAIN arrivals' :
           i < j /\ arrivals'[a] = queue'[i] /\ arrivals'[b] = queue'[j] =>
             tide_packet_less(info'[queue'[i]], info'[queue'[j]]) \/ a < b
  PROVE  Stable'
<1> SUFFICES ASSUME NEW i \in DOMAIN queue', NEW j \in DOMAIN queue',
                    NEW a \in DOMAIN arrivals', NEW b \in DOMAIN arrivals',
                    i < j, arrivals'[a] = queue'[i], arrivals'[b] = queue'[j]
             PROVE  tide_packet_less(info[queue[i]], info[queue[j]])' \/ a < b
  BY Zenon DEF Stable
<1>1. tide_packet_less(info'[queue'[i]], info'[queue'[j]]) \/ a < b
  BY Zenon
<1> QED BY <1>1, Zenon DEF tide_packet_less

\* Steps that leave the queue and the packets in it alone.
LEMMA HistoryKept ==
  ASSUME Inv, HistoryInv, UNCHANGED <<queue, arrivals, careful>>,
         draining' \in BOOLEAN,
         \A c \in Cell : info'[c] = info[c]
  PROVE  HistoryInv' /\ Pending' = Pending
<1>1. /\ \A i \in DOMAIN queue : queue[i] \in Cell
      /\ \A a \in DOMAIN arrivals : arrivals[a] \in Cell
  BY DEF Inv, QueueInv, QueueType, HistoryInv, HistoryType
<1>2. HistoryType' /\ SameCells'
  BY DEF HistoryInv, HistoryType, SameCells
<1>3. Stable'
  <2> SUFFICES ASSUME NEW i \in DOMAIN queue, NEW j \in DOMAIN queue,
                      NEW a \in DOMAIN arrivals, NEW b \in DOMAIN arrivals,
                      i < j, arrivals[a] = queue[i], arrivals[b] = queue[j]
               PROVE  tide_packet_less(info'[queue[i]], info'[queue[j]]) \/ a < b
    BY StableNext, Zenon
  <2>1. info'[queue[i]] = info[queue[i]] /\ info'[queue[j]] = info[queue[j]]
    BY <1>1
  <2>2. tide_packet_less(info[queue[i]], info[queue[j]]) \/ a < b
    BY Zenon DEF HistoryInv, Stable
  <2> QED BY <2>1, <2>2
<1>4. Pending' = Pending
  BY <1>1 DEF Pending
<1> QED BY <1>2, <1>3, <1>4 DEF HistoryInv

\* Where the first item of the queue is among the arrivals.
LEMMA HeadArrived ==
  ASSUME Inv, HistoryInv, queue # <<>>
  PROVE  /\ Len(queue) \in Nat \ {0} /\ DOMAIN queue = 1..Len(queue)
         /\ DOMAIN arrivals = 1..Len(queue) /\ Head(queue) = queue[1]
         /\ Head(queue) \in Cell
         /\ Arrived(Head(queue)) \in 1..Len(queue)
         /\ arrivals[Arrived(Head(queue))] = queue[1]
<1>1. /\ queue \in Seq(Cell) /\ arrivals \in Seq(Cell) /\ Len(arrivals) = Len(queue)
      /\ \A i \in DOMAIN queue : \E a \in DOMAIN arrivals : arrivals[a] = queue[i]
  BY DEF Inv, QueueInv, QueueType, HistoryInv, HistoryType, SameCells
<1>2. /\ Len(queue) \in Nat \ {0} /\ DOMAIN queue = 1..Len(queue) /\ Head(queue) = queue[1]
      /\ DOMAIN arrivals = 1..Len(queue) /\ Head(queue) \in Cell
  BY <1>1
<1>3. \E a \in DOMAIN arrivals : arrivals[a] = Head(queue)
  BY <1>1, <1>2
<1> QED BY <1>2, <1>3 DEF Arrived

\* When the first item leaves the queue the others keep their places in both orders.
LEMMA LeaveStep ==
  ASSUME Inv, HistoryInv, queue # <<>>, Leaves(Head(queue)), careful' = careful,
         draining' \in BOOLEAN,
         \A c \in Cell : c # Head(queue) => info'[c] = info[c]
  PROVE  HistoryInv' /\ Pending' = Gone(Pending, Arrived(Head(queue)))
<1> DEFINE n == Len(queue)
           h == Head(queue)
           k == Arrived(h)
<1>1. /\ n \in Nat \ {0} /\ DOMAIN queue = 1..n /\ DOMAIN arrivals = 1..n
      /\ h = queue[1] /\ h \in Cell /\ k \in 1..n /\ arrivals[k] = h
  BY HeadArrived
<1>2. /\ queue \in Seq(Cell) /\ arrivals \in Seq(Cell) /\ Len(arrivals) = n
      /\ \A i, j \in DOMAIN queue : queue[i] = queue[j] => i = j
      /\ \A a, b \in 1..n : arrivals[a] = arrivals[b] => a = b
      /\ \A i \in 1..n : \E a \in 1..n : arrivals[a] = queue[i]
      /\ \A a \in 1..n : \E i \in 1..n : queue[i] = arrivals[a]
  BY <1>1, Zenon DEF Inv, QueueInv, QueueType, QueueBounded, HistoryInv, HistoryType, SameCells
<1>3. /\ queue' \in Seq(Cell) /\ Len(queue') = n - 1
      /\ \A i \in 1..(n - 1) : queue'[i] = queue[i + 1] /\ queue'[i] # h
  BY <1>2, TailItems, Zenon DEF Leaves
<1>4. arrivals' = Gone(arrivals, k)
  <2>1. Len(arrivals) = n
    BY <1>2
  <2> HIDE DEF h
  <2>2. arrivals' = [i \in 1..(Len(arrivals) - 1) |->
                       IF i < k THEN arrivals[i] ELSE arrivals[i + 1]]
    BY DEF Leaves, h
  <2> HIDE DEF k
  <2> QED BY <2>2, Zenon DEF Gone, Up
<1> HIDE DEF k, h, n
<1>5. /\ arrivals' \in Seq(Cell) /\ Len(arrivals') = n - 1
      /\ \A i \in 1..(n - 1) : Up(i, k) \in 1..n /\ Up(i, k) # k /\ arrivals'[i] = arrivals[Up(i, k)]
      /\ \A i \in 1..n : i # k => Down(i, k) \in 1..(n - 1) /\ Up(Down(i, k), k) = i
      /\ \A i, j \in 1..(n - 1) : Up(i, k) < Up(j, k) <=> i < j
  <2> DEFINE m == Len(arrivals)
  <2>1. k \in 1..m /\ m = n
    BY <1>1, <1>2
  <2>2. /\ Gone(arrivals, k) \in Seq(Cell) /\ Len(Gone(arrivals, k)) = m - 1
        /\ \A i \in 1..(m - 1) : /\ Up(i, k) \in 1..m /\ Up(i, k) # k
                                 /\ Gone(arrivals, k)[i] = arrivals[Up(i, k)]
        /\ \A i \in 1..m : i # k => Down(i, k) \in 1..(m - 1) /\ Up(Down(i, k), k) = i
        /\ \A i, j \in 1..(m - 1) : Up(i, k) < Up(j, k) <=> i < j
    BY <2>1, <1>2, GoneItems, Zenon
  <2> HIDE DEF m
  <2> QED BY <2>1, <2>2, <1>4, Zenon
<1>6. DOMAIN queue' = 1..(n - 1) /\ DOMAIN arrivals' = 1..(n - 1)
  BY <1>3, <1>5
<1>7. HistoryType'
  BY <1>5 DEF HistoryInv, HistoryType
<1>8. SameCells'
  <2>1. ASSUME NEW a \in 1..(n - 1), NEW b \in 1..(n - 1), arrivals'[a] = arrivals'[b]
        PROVE  a = b
    <3>1. Up(a, k) = Up(b, k)
      BY <2>1, <1>2, <1>5
    <3>2. Up(a, k) \in Int /\ a \in Int /\ b \in Int
      BY <1>1, <1>5
    <3>3. ~(a < b) /\ ~(b < a)
      <4>1. ~(Up(a, k) < Up(b, k)) /\ ~(Up(b, k) < Up(a, k))
        BY <3>1, <3>2
      <4> QED BY <4>1, <1>5
    <3> QED BY <3>2, <3>3
  <2>2. ASSUME NEW i \in 1..(n - 1)
        PROVE  \E a \in 1..(n - 1) : arrivals'[a] = queue'[i]
    <3>1. i + 1 \in 1..n /\ queue'[i] = queue[i + 1] /\ queue'[i] # h
      BY <1>1, <1>3
    <3>2. PICK a \in 1..n : arrivals[a] = queue[i + 1]
      BY <3>1, <1>2
    <3>3. a # k
      BY <3>1, <3>2, <1>1
    <3>4. Down(a, k) \in 1..(n - 1) /\ Up(Down(a, k), k) = a
      BY <3>3, <1>5
    <3>5. arrivals'[Down(a, k)] = arrivals[a]
      BY <3>4, <1>5
    <3> QED BY <3>1, <3>2, <3>4, <3>5
  <2>3. ASSUME NEW a \in 1..(n - 1)
        PROVE  \E i \in 1..(n - 1) : queue'[i] = arrivals'[a]
    <3>1. Up(a, k) \in 1..n /\ Up(a, k) # k /\ arrivals'[a] = arrivals[Up(a, k)]
      BY <1>5
    <3>2. PICK i \in 1..n : queue[i] = arrivals[Up(a, k)]
      BY <3>1, <1>2, Zenon
    <3>3. i # 1
      <4>1. arrivals[Up(a, k)] # arrivals[k]
        BY <3>1, <1>1, <1>2
      <4> QED BY <3>2, <4>1, <1>1
    <3>4. i - 1 \in 1..(n - 1) /\ (i - 1) + 1 = i
      BY <3>3, <1>1
    <3> QED BY <3>1, <3>2, <3>4, <1>3
  <2> QED BY <2>1, <2>2, <2>3, <1>3, <1>5, <1>6, Zenon DEF SameCells
<1>9. \A i \in 1..(n - 1) : info'[queue'[i]] = info[queue[i + 1]]
  <2>1. \A i \in 1..(n - 1) : queue'[i] \in Cell
    BY <1>3
  <2> QED BY <2>1, <1>3 DEF h
<1>10. Stable'
  <2> SUFFICES ASSUME NEW i \in 1..(n - 1), NEW j \in 1..(n - 1),
                      NEW a \in 1..(n - 1), NEW b \in 1..(n - 1),
                      i < j, arrivals'[a] = queue'[i], arrivals'[b] = queue'[j]
               PROVE  tide_packet_less(info'[queue'[i]], info'[queue'[j]]) \/ a < b
    BY <1>6, StableNext, Zenon
  <2>1. i + 1 \in 1..n /\ j + 1 \in 1..n /\ i + 1 < j + 1
    <3>1. \A m \in Nat : \A x, y \in 1..(m - 1) : x + 1 \in 1..m /\ (x < y => x + 1 < y + 1)
      OBVIOUS
    <3> QED BY <1>1, <3>1, Zenon
  <2>2. /\ Up(a, k) \in 1..n /\ Up(b, k) \in 1..n
        /\ arrivals[Up(a, k)] = queue[i + 1] /\ arrivals[Up(b, k)] = queue[j + 1]
    <3>1. /\ Up(a, k) \in 1..n /\ arrivals'[a] = arrivals[Up(a, k)] /\ queue'[i] = queue[i + 1]
          /\ Up(b, k) \in 1..n /\ arrivals'[b] = arrivals[Up(b, k)] /\ queue'[j] = queue[j + 1]
      BY <1>3, <1>5, Zenon
    <3> QED BY <3>1, Zenon
  <2>3. tide_packet_less(info[queue[i + 1]], info[queue[j + 1]]) \/ Up(a, k) < Up(b, k)
    <3>1. DOMAIN queue = 1..n /\ DOMAIN arrivals = 1..n
      BY <1>1
    <3>2. Stable
      BY DEF HistoryInv
    <3> QED BY <2>1, <2>2, <3>1, <3>2, Zenon DEF Stable
  <2>4. Up(a, k) < Up(b, k) => a < b
    BY <1>5, Zenon
  <2> QED BY <2>3, <2>4, <1>9
<1>11. Pending' = Gone(Pending, k)
  <2>1. Len(Pending) = n /\ DOMAIN Pending = 1..n
    BY <1>1 DEF Pending
  <2>2. Pending' = [i \in 1..(n - 1) |-> info'[arrivals'[i]]]
    BY <1>6 DEF Pending
  <2>3. ASSUME NEW i \in 1..(n - 1)
        PROVE  info'[arrivals'[i]] = Pending[Up(i, k)]
    <3>1. Up(i, k) \in 1..n /\ Up(i, k) # k /\ arrivals'[i] = arrivals[Up(i, k)]
      BY <1>5
    <3>2. arrivals[Up(i, k)] \in Cell /\ arrivals[Up(i, k)] # h
      <4>1. arrivals[Up(i, k)] # arrivals[k]
        BY <3>1, <1>1, <1>2, Zenon
      <4>2. \A a \in 1..n : arrivals[a] \in Cell
        BY <1>2
      <4> QED BY <3>1, <4>1, <4>2, <1>1
    <3>3. info'[arrivals'[i]] = info[arrivals[Up(i, k)]]
      BY <3>1, <3>2 DEF h
    <3> QED BY <3>1, <3>3, <1>1 DEF Pending
  <2>4. Gone(Pending, k) = [i \in 1..(n - 1) |-> Pending[Up(i, k)]]
    BY <2>1 DEF Gone
  <2> HIDE DEF k, n
  <2> QED BY <2>2, <2>3, <2>4
<1> QED BY <1>7, <1>8, <1>10, <1>11 DEF HistoryInv, k, h

\* A packet that is pushed is the last to arrive, and it goes above every item that it is
\* not less than.
LEMMA PushHistoryStep ==
  ASSUME Inv, HistoryInv, NEW t \in Thread, NEW r \in Ref, NEW c \in Cell,
         tide_reorder_queue_push(t, r, c)
  PROVE  /\ HistoryInv'
         /\ Len(Pending) = Len(queue) /\ Len(Pending') = Len(Pending) + 1
         /\ \A i \in DOMAIN Pending : Pending'[i] = Pending[i]
<1> DEFINE p == Position(info[r])
           n == Len(queue)
<1>1. /\ \A i \in DOMAIN queue : queue[i] # c
      /\ queue' = InsertedAt(c, p)
      /\ info' = [info EXCEPT ![c] = info[r], ![r] = Zero]
      /\ arrivals' = Append(arrivals, c)
      /\ UNCHANGED <<draining, careful>>
  BY DEF tide_reorder_queue_push
<1>2. /\ queue \in Seq(Cell) /\ arrivals \in Seq(Cell) /\ Len(arrivals) = n /\ n \in Nat
      /\ info \in [Holder -> Info] /\ DOMAIN queue = 1..n /\ DOMAIN arrivals = 1..n
  <2>1. /\ queue \in Seq(Cell) /\ arrivals \in Seq(Cell) /\ Len(arrivals) = n
        /\ info \in [Holder -> Info]
    BY Zenon DEF Inv, QueueInv, QueueType, RefInv, RefType, HistoryInv, HistoryType, SameCells
  <2> QED BY <2>1
<1>3. /\ \A a, b \in 1..n : arrivals[a] = arrivals[b] => a = b
      /\ \A i \in 1..n : \E a \in 1..n : arrivals[a] = queue[i]
      /\ \A a \in 1..n : \E i \in 1..n : queue[i] = arrivals[a]
  BY <1>2, Zenon DEF HistoryInv, SameCells
<1>4. /\ p \in 0..n
      /\ \A i \in (p + 1)..n : tide_packet_less(info[r], info[queue[i]])
  BY <1>2, PositionIsRight
<1>5. /\ queue' \in Seq(Cell) /\ Len(queue') = n + 1
      /\ \A i \in 1..p : queue'[i] = queue[i]
      /\ queue'[p + 1] = c
      /\ \A i \in (p + 2)..(n + 1) : queue'[i] = queue[i - 1]
  <2> HIDE DEF p
  <2> QED BY <1>1, <1>2, <1>4, InsertedItems, Zenon
<1>6. r # c /\ r \in Holder /\ c \in Holder
  BY RefIsNoCell
<1>7. info'[c] = info[r] /\ \A d \in Cell : d # c => info'[d] = info[d]
  <2>1. \A d \in Cell : d # r /\ d \in Holder
    BY RefIsNoCell
  <2> QED BY <1>1, <1>2, <1>6, <2>1
<1> HIDE DEF p, n
<1>8. /\ arrivals' \in Seq(Cell) /\ Len(arrivals') = n + 1 /\ DOMAIN arrivals' = 1..(n + 1)
      /\ \A a \in 1..n : arrivals'[a] = arrivals[a] /\ arrivals[a] \in Cell
      /\ arrivals'[n + 1] = c
  <2>1. n = Len(arrivals)
    BY <1>2
  <2>2. /\ Append(arrivals, c) \in Seq(Cell)
        /\ Len(Append(arrivals, c)) = Len(arrivals) + 1
        /\ \A a \in 1..Len(arrivals) :
             Append(arrivals, c)[a] = arrivals[a] /\ arrivals[a] \in Cell
        /\ Append(arrivals, c)[Len(arrivals) + 1] = c
    BY <1>2
  <2>3. DOMAIN Append(arrivals, c) = 1..(Len(arrivals) + 1)
    BY <2>2
  <2> QED BY <1>1, <2>1, <2>2, <2>3, Zenon
<1>9. \A a \in 1..n : arrivals[a] # c
  <2>1. \A i \in 1..n : queue[i] # c
    BY <1>1, <1>2
  <2> QED BY <2>1, <1>3, Zenon
<1>b. p \in Nat /\ n \in Nat /\ p <= n /\ DOMAIN queue' = 1..(n + 1)
  <2>1. DOMAIN queue' = 1..Len(queue')
    BY <1>5
  <2>2. p \in Nat /\ n \in Nat /\ p <= n
    BY <1>2, <1>4
  <2> QED BY <2>1, <2>2, <1>5, Zenon
<1>10. ASSUME NEW i \in 1..(n + 1), i # p + 1
       PROVE  /\ Down(i, p + 1) \in 1..n /\ queue'[i] = queue[Down(i, p + 1)]
              /\ queue'[i] \in Cell /\ queue'[i] # c
  <2>1. Down(i, p + 1) \in 1..n
    BY <1>b, <1>10 DEF Down
  <2>2. queue'[i] = queue[Down(i, p + 1)]
    <3>1. CASE i < p + 1
      <4>1. i \in 1..p /\ Down(i, p + 1) = i
        BY <3>1, <1>b DEF Down
      <4> QED BY <4>1, <1>5
    <3>2. CASE ~(i < p + 1)
      <4>1. i \in (p + 2)..(n + 1) /\ Down(i, p + 1) = i - 1
        BY <3>2, <1>b, <1>10 DEF Down
      <4> QED BY <4>1, <1>5
    <3> QED BY <3>1, <3>2
  <2>3. \A j \in 1..n : queue[j] \in Cell /\ queue[j] # c
    BY <1>1, <1>2
  <2> QED BY <2>1, <2>2, <2>3
<1>11. HistoryType'
  BY <1>1, <1>8 DEF HistoryInv, HistoryType
<1>12. SameCells'
  <2>1. ASSUME NEW a \in 1..(n + 1), NEW b \in 1..(n + 1), arrivals'[a] = arrivals'[b]
        PROVE  a = b
    <3>1. \A d \in 1..(n + 1) : d # n + 1 => d \in 1..n
      BY <1>b
    <3>2. CASE a = n + 1 \/ b = n + 1
      BY <2>1, <3>1, <3>2, <1>8, <1>9
    <3>3. CASE a # n + 1 /\ b # n + 1
      BY <2>1, <3>1, <3>3, <1>3, <1>8
    <3> QED BY <3>2, <3>3
  <2>2. ASSUME NEW i \in 1..(n + 1)
        PROVE  \E a \in 1..(n + 1) : arrivals'[a] = queue'[i]
    <3>1. CASE i = p + 1
      <4>1. n + 1 \in 1..(n + 1)
        BY <1>b
      <4> QED BY <3>1, <4>1, <1>5, <1>8
    <3>2. CASE i # p + 1
      <4>1. PICK a \in 1..n : arrivals[a] = queue[Down(i, p + 1)]
        BY <3>2, <1>3, <1>10
      <4>2. a \in 1..(n + 1)
        BY <1>b
      <4> QED BY <3>2, <4>1, <4>2, <1>8, <1>10, Zenon
    <3> QED BY <3>1, <3>2
  <2>3. ASSUME NEW a \in 1..(n + 1)
        PROVE  \E i \in 1..(n + 1) : queue'[i] = arrivals'[a]
    <3>1. CASE a = n + 1
      <4>1. p + 1 \in 1..(n + 1)
        BY <1>b
      <4> QED BY <3>1, <4>1, <1>5, <1>8
    <3>2. CASE a # n + 1
      <4>1. a \in 1..n
        BY <3>2, <1>b
      <4>2. PICK i \in 1..n : queue[i] = arrivals[a]
        BY <4>1, <1>3
      <4>3. CASE i <= p
        <5>1. i \in 1..p /\ i \in 1..(n + 1)
          BY <4>3, <1>b
        <5> QED BY <4>1, <4>2, <5>1, <1>5, <1>8
      <4>4. CASE i > p
        <5>1. i + 1 \in (p + 2)..(n + 1) /\ i + 1 \in 1..(n + 1) /\ (i + 1) - 1 = i
          BY <4>4, <1>b
        <5>2. queue'[i + 1] = queue[(i + 1) - 1]
          BY <5>1, <1>5
        <5> QED BY <4>1, <4>2, <5>1, <5>2, <1>8
      <4> QED BY <4>3, <4>4, <1>b
    <3> QED BY <3>1, <3>2
  <2> QED BY <2>1, <2>2, <2>3, <1>5, <1>8, <1>b, Zenon DEF SameCells
<1>13. Stable'
  <2> SUFFICES ASSUME NEW i \in 1..(n + 1), NEW j \in 1..(n + 1),
                      NEW a \in 1..(n + 1), NEW b \in 1..(n + 1),
                      i < j, arrivals'[a] = queue'[i], arrivals'[b] = queue'[j]
               PROVE  tide_packet_less(info'[queue'[i]], info'[queue'[j]]) \/ a < b
    BY <1>8, <1>b, StableNext, Zenon
  <2>1. \A d \in 1..(n + 1) : d # n + 1 => d \in 1..n
    BY <1>b
  <2>2. CASE j = p + 1
    <3>1. b = n + 1
      BY <2>1, <2>2, <1>5, <1>8, <1>9
    <3>2. i # p + 1
      BY <2>2, <1>b
    <3>3. a # n + 1
      BY <3>2, <1>8, <1>10
    <3>4. \A d \in 1..(n + 1) : d # n + 1 => d < n + 1
      BY <1>b
    <3> QED BY <3>1, <3>3, <3>4, Zenon
  <2>3. CASE i = p + 1
    <3>1. j \in (p + 2)..(n + 1) /\ j - 1 \in (p + 1)..n /\ j # p + 1
      BY <2>3, <1>b
    <3>2. queue'[j] = queue[j - 1] /\ tide_packet_less(info[r], info[queue[j - 1]])
      BY <3>1, <1>4, <1>5
    <3>3. info'[queue'[j]] = info[queue[j - 1]]
      BY <3>1, <3>2, <1>7, <1>10, Zenon
    <3>4. info'[queue'[i]] = info[r]
      BY <2>3, <1>5, <1>7
    <3> QED BY <3>2, <3>3, <3>4
  <2>4. CASE i # p + 1 /\ j # p + 1
    <3> DEFINE u == Down(i, p + 1)
               v == Down(j, p + 1)
    <3>1. u \in 1..n /\ v \in 1..n /\ u < v
      <4>1. u < v
        BY <2>4, <1>b DEF Down
      <4> QED BY <4>1, <2>4, <1>10
    <3>2. queue'[i] = queue[u] /\ queue'[j] = queue[v]
      BY <2>4, <1>10
    <3>3. info'[queue'[i]] = info[queue[u]] /\ info'[queue'[j]] = info[queue[v]]
      BY <2>4, <3>2, <1>7, <1>10
    <3>4. a \in 1..n /\ b \in 1..n
      BY <2>1, <2>4, <1>8, <1>10, SMTT(30)
    <3>5. arrivals[a] = queue[u] /\ arrivals[b] = queue[v]
      BY <3>2, <3>4, <1>8
    <3> HIDE DEF u, v
    <3>6. tide_packet_less(info[queue[u]], info[queue[v]]) \/ a < b
      BY <3>1, <3>4, <3>5, <1>2, SMTT(30) DEF HistoryInv, Stable
    <3> QED BY <3>3, <3>6
  <2> QED BY <2>2, <2>3, <2>4
<1>14. /\ Len(Pending) = n /\ DOMAIN Pending = 1..n /\ Len(Pending') = n + 1
       /\ \A i \in 1..n : Pending'[i] = Pending[i]
  <2>1. Pending = [i \in 1..n |-> info[arrivals[i]]] /\ Pending' = [i \in 1..(n + 1) |-> info'[arrivals'[i]]]
    BY <1>2, <1>8, Zenon DEF Pending
  <2>2. ASSUME NEW i \in 1..n
        PROVE  info'[arrivals'[i]] = info[arrivals[i]] /\ i \in 1..(n + 1)
    <3>1. arrivals'[i] = arrivals[i] /\ arrivals[i] \in Cell /\ arrivals[i] # c
      BY <1>8, <1>9
    <3>2. i \in 1..(n + 1)
      BY <1>b
    <3> QED BY <1>7, <3>1, <3>2
  <2>3. DOMAIN Pending = 1..n /\ Len(Pending) = n
    <3>1. \A f : f = [i \in 1..n |-> info[arrivals[i]]] => DOMAIN f = 1..n /\ Len(f) = n
      BY <1>b
    <3> QED BY <2>1, <3>1, Zenon
  <2>4. Len(Pending') = n + 1
    BY <2>1, <1>b
  <2>5. \A i \in 1..n : Pending'[i] = Pending[i]
    BY <2>1, <2>2
  <2> QED BY <2>3, <2>4, <2>5
<1> QED BY <1>11, <1>12, <1>13, <1>14 DEF HistoryInv, n

------------------------------------------------------------------------------
(* Every step is one of the contract's, or changes nothing it can see *)

\* Initially the queue is empty, as the contract's is.
LEMMA InitHistory == Init => HistoryInv /\ Contract!Init
<1> SUFFICES ASSUME Init PROVE HistoryInv /\ Contract!Init
  OBVIOUS
<1>1. queue = <<>> /\ arrivals = <<>> /\ DOMAIN queue = {} /\ DOMAIN arrivals = {}
  BY DEF Init
<1>2. HistoryType
  <2>1. arrivals \in Seq(Cell)
    BY <1>1
  <2>2. draining = FALSE /\ careful \in BOOLEAN
    BY DEF Init
  <2> QED BY <2>1, <2>2, Zenon DEF HistoryType
<1>3. SameCells /\ Stable
  BY <1>1, Zenon DEF SameCells, Stable
<1>4. Contract!Init
  BY DEF Init, Contract!Init, Pending
<1> QED BY <1>2, <1>3, <1>4 DEF HistoryInv

\* push is the contract's Push.
LEMMA PushRefines ==
  ASSUME Inv, HistoryInv, NEW t \in Thread, NEW r \in Ref, NEW c \in Cell,
         tide_reorder_queue_push(t, r, c)
  PROVE  HistoryInv' /\ Contract!Push
<1>1. Len(queue) < limit /\ ~draining /\ UNCHANGED <<limit, draining>>
  BY DEF tide_reorder_queue_push, Uses
<1>2. /\ HistoryInv' /\ Len(Pending) = Len(queue) /\ Len(Pending') = Len(Pending) + 1
      /\ \A i \in DOMAIN Pending : Pending'[i] = Pending[i]
  BY PushHistoryStep
<1> QED BY <1>1, <1>2 DEF Contract!Push

\* The first item is the packet the contract would take out.
LEMMA HeadIsFirst ==
  ASSUME Inv, HistoryInv, queue # <<>>
  PROVE  /\ Arrived(Head(queue)) \in DOMAIN Pending
         /\ Contract!First(Arrived(Head(queue)))
<1> DEFINE k == Arrived(Head(queue))
           n == Len(queue)
<1>1. /\ n \in Nat \ {0} /\ DOMAIN queue = 1..n /\ DOMAIN arrivals = 1..n
      /\ k \in 1..n /\ arrivals[k] = queue[1]
  BY HeadArrived
<1>2. /\ \A i \in 1..n : queue[i] \in Cell
      /\ info \in [Holder -> Info] /\ Cell \subseteq Holder
  BY <1>1 DEF Inv, QueueInv, QueueType, RefInv, RefType, Holder
<1>3. /\ \A a, b \in 1..n : arrivals[a] = arrivals[b] => a = b
      /\ \A a \in 1..n : \E i \in 1..n : queue[i] = arrivals[a]
  BY <1>1, Zenon DEF HistoryInv, SameCells
<1>4. DOMAIN Pending = 1..n /\ \A a \in 1..n : Pending[a] = info[arrivals[a]]
  BY <1>1 DEF Pending
<1> HIDE DEF k, n
<1>5. ASSUME NEW j \in 1..n
      PROVE  /\ ~tide_packet_less(Pending[j], Pending[k])
             /\ j < k => tide_packet_less(Pending[k], Pending[j])
  <2>1. PICK q \in 1..n : queue[q] = arrivals[j]
    BY <1>3
  <2>2. Pending[k] = info[queue[1]] /\ Pending[j] = info[queue[q]]
    BY <2>1, <1>1, <1>4
  <2>3. 1 \in 1..n
    BY <1>1
  <2>4. info[queue[1]] \in Info
    BY <2>3, <1>2
  <2>5. CASE q = 1
    <3>1. j = k
      BY <2>1, <2>5, <1>1, <1>3
    <3>2. ~(j < k)
      BY <3>1, <1>1
    <3> QED BY <3>1, <3>2, <2>2, <2>4, LessIsWeakOrder
  <2>6. CASE q # 1
    <3>1. 1 < q
      BY <2>6, <1>1
    <3>2. ~tide_packet_less(info[queue[q]], info[queue[1]])
      BY <3>1, <2>3, <1>1 DEF Inv, QueueInv, QueueSorted
    <3>3. tide_packet_less(info[queue[1]], info[queue[q]]) \/ k < j
      BY <3>1, <2>1, <2>3, <1>1 DEF HistoryInv, Stable
    <3>4. ~(k < j /\ j < k)
      BY <1>1
    <3> QED BY <3>2, <3>3, <3>4, <2>2
  <2> QED BY <2>5, <2>6
<1>6. Contract!First(k)
  BY <1>4, <1>5 DEF Contract!First
<1> QED BY <1>1, <1>4, <1>6 DEF k

\* The contract's sequence without its k-th packet.
LEMMA WithoutIsGone ==
  ASSUME NEW k
  PROVE  Contract!Without(k) = Gone(Pending, k)
<1>1. \A j : Pending[Up(j, k)] = IF j < k THEN Pending[j] ELSE Pending[j + 1]
  BY Zenon DEF Up
<1> QED BY <1>1 DEF Contract!Without, Gone

\* pop_ready is the contract's Pop: it takes the least packet, the first of its equals.
LEMMA PopRefines ==
  ASSUME Inv, HistoryInv, NEW t \in Thread, NEW r \in Ref,
         tide_reorder_queue_pop_ready(t, r)
  PROVE  HistoryInv' /\ Contract!Pop
<1> DEFINE h == Head(queue)
<1>1. /\ ~draining /\ queue # <<>> /\ InitAndMove(t, r, h) /\ Leaves(h)
      /\ UNCHANGED <<limit, draining, careful>>
  BY DEF tide_reorder_queue_pop_ready, Uses
<1>2. h \in Cell /\ info \in [Holder -> Info] /\ draining' \in BOOLEAN
  <2>1. h \in Cell
    BY <1>1, HeadArrived
  <2> QED BY <1>1, <2>1 DEF Inv, RefInv, RefType, HistoryInv, HistoryType
<1>3. \A c \in Cell : c # h => info'[c] = info[c]
  <2>1. info' = [info EXCEPT ![r] = info[h], ![h] = Zero]
    BY <1>1 DEF InitAndMove
  <2>2. \A c \in Cell : c # r /\ c \in Holder
    BY RefIsNoCell
  <2> QED BY <2>1, <2>2, <1>2
<1>4. HistoryInv' /\ Pending' = Gone(Pending, Arrived(h))
  BY <1>1, <1>2, <1>3, LeaveStep
<1>5. Arrived(h) \in DOMAIN Pending /\ Contract!First(Arrived(h))
  BY <1>1, HeadIsFirst
<1> HIDE DEF h
<1>6. Pending' = Contract!Without(Arrived(h))
  BY <1>4, WithoutIsGone, Zenon
<1> QED BY <1>1, <1>4, <1>5, <1>6, SMTT(30) DEF Contract!Pop

\* A step of destroy is the contract's Drop.
LEMMA DestroyItemRefines ==
  ASSUME Inv, HistoryInv, NEW t \in Thread, DestroyItem(t)
  PROVE  HistoryInv' /\ Contract!Drop
<1> DEFINE h == Head(queue)
<1>1. /\ draining /\ queue # <<>> /\ tide_packet_ref_reset(t, h) /\ Leaves(h)
      /\ UNCHANGED <<limit, draining, careful>>
  BY DEF DestroyItem
<1>2. h \in Cell /\ info \in [Holder -> Info] /\ draining' \in BOOLEAN
  <2>1. h \in Cell
    BY <1>1, HeadArrived
  <2> QED BY <1>1, <2>1 DEF Inv, RefInv, RefType, HistoryInv, HistoryType
<1>3. \A c \in Cell : c # h => info'[c] = info[c]
  <2>1. info' = [info EXCEPT ![h] = Zero]
    BY <1>1 DEF tide_packet_ref_reset, Put
  <2>2. \A c \in Cell : c \in Holder
    BY DEF Holder
  <2> QED BY <2>1, <2>2, <1>2
<1>4. HistoryInv' /\ Pending' = Gone(Pending, Arrived(h))
  BY <1>1, <1>2, <1>3, LeaveStep
<1>5. Arrived(h) \in DOMAIN Pending
  BY <1>1, HeadIsFirst
<1> HIDE DEF h
<1>6. Pending' = Contract!Without(Arrived(h))
  BY <1>4, WithoutIsGone, Zenon
<1> QED BY <1>1, <1>4, <1>5, <1>6 DEF Contract!Drop

\* Every step keeps the invariant and is a step of the contract or invisible to it.
LEMMA StepRefines ==
  Inv /\ HistoryInv /\ [Next]_vars => HistoryInv' /\ [Contract!Next]_(Contract!vars)
<1> SUFFICES ASSUME Inv, HistoryInv, [Next]_vars
             PROVE  HistoryInv' /\ [Contract!Next]_(Contract!vars)
  OBVIOUS
<1>0. draining \in BOOLEAN
  BY DEF HistoryInv, HistoryType
<1>s. ASSUME HistoryInv', Pending' = Pending, UNCHANGED <<limit, draining>>
      PROVE  HistoryInv' /\ [Contract!Next]_(Contract!vars)
  BY <1>s DEF Contract!vars
<1>1. CASE UNCHANGED vars
  <2>1. UNCHANGED <<queue, arrivals, careful, draining, limit, info>>
    BY <1>1 DEF vars, refVars, queueVars
  <2> QED BY <1>0, <1>s, <2>1, HistoryKept
<1>2. ASSUME NEW t \in Thread, OwnRefs(t)
      PROVE  HistoryInv' /\ [Contract!Next]_(Contract!vars)
  <2>1. UNCHANGED <<queue, arrivals, careful, draining, limit>>
    BY <1>2 DEF OwnRefs, queueVars
  <2>2. info \in [Holder -> Info]
    BY DEF Inv, RefInv, RefType
  <2>3. \A c \in Cell : info'[c] = info[c]
    <3>1. ASSUME NEW r \in Ref, NEW x, NEW y, Put(r, x, y)
          PROVE  \A c \in Cell : info'[c] = info[c]
      BY <2>2, <3>1, RefIsNoCell DEF Put
    <3>2. ASSUME NEW r \in Ref, NEW l \in Lease, tide_payload_lease_create_copy(t, r, l)
          PROVE  \A c \in Cell : info'[c] = info[c]
      BY <3>1, <3>2 DEF tide_payload_lease_create_copy
    <3>3. ASSUME NEW r \in Ref, NEW other \in Ref, tide_payload_lease_retain(t, r, other)
          PROVE  \A c \in Cell : info'[c] = info[c]
      BY <3>1, <3>3 DEF tide_payload_lease_retain
    <3>4. ASSUME NEW r \in Ref, tide_packet_ref_reset(t, r)
          PROVE  \A c \in Cell : info'[c] = info[c]
      BY <3>1, <3>4 DEF tide_packet_ref_reset
    <3>5. ASSUME NEW dst \in Ref, NEW src \in Ref, tide_packet_ref_move(t, dst, src)
          PROVE  \A c \in Cell : info'[c] = info[c]
      <4>1. info' = [info EXCEPT ![dst] = info[src], ![src] = Zero]
        BY <3>5 DEF tide_packet_ref_move
      <4> QED BY <4>1, <2>2, RefIsNoCell
    <3> QED BY <1>2, <3>2, <3>3, <3>4, <3>5, Zenon DEF OwnRefs
  <2> QED BY <1>0, <1>s, <2>1, <2>3, HistoryKept
<1>3. ASSUME NEW t \in Thread, NEW n \in Limits, tide_reorder_queue_init(t, n)
      PROVE  HistoryInv' /\ [Contract!Next]_(Contract!vars)
  <2>1. /\ queue = <<>> /\ limit' = IF n = 0 THEN limit ELSE n
        /\ UNCHANGED <<queue, arrivals, careful, draining, info>>
    BY <1>3 DEF tide_reorder_queue_init, refVars
  <2>2. HistoryInv' /\ Pending' = Pending
    BY <1>0, <2>1, HistoryKept
  <2>3. CASE n = 0
    BY <1>s, <2>1, <2>2, <2>3
  <2>4. CASE n # 0
    <3>1. Pending = <<>>
      <4>1. arrivals \in Seq(Cell) /\ Len(arrivals) = 0
        BY <2>1 DEF HistoryInv, HistoryType, SameCells
      <4>2. DOMAIN arrivals = {}
        BY <4>1
      <4> QED BY <4>2 DEF Pending
    <3>2. limit' \in Nat \ {0}
      BY <2>1, <2>4, QueueAssumption
    <3>3. Contract!Create
      BY <2>1, <2>2, <3>1, <3>2 DEF Contract!Create
    <3> QED BY <2>2, <3>3 DEF Contract!Next
  <2> QED BY <2>3, <2>4
<1>4. ASSUME NEW t \in Thread, NEW r \in Ref, NEW c \in Cell, tide_reorder_queue_push(t, r, c)
      PROVE  HistoryInv' /\ [Contract!Next]_(Contract!vars)
  BY <1>4, PushRefines DEF Contract!Next
<1>5. ASSUME NEW t \in Thread, NEW r \in Ref, tide_reorder_queue_pop_ready(t, r)
      PROVE  HistoryInv' /\ [Contract!Next]_(Contract!vars)
  BY <1>5, PopRefines DEF Contract!Next
<1>6. ASSUME NEW t \in Thread, DestroyStart(t)
      PROVE  HistoryInv' /\ [Contract!Next]_(Contract!vars)
  <2>1. /\ ~draining /\ draining' = TRUE
        /\ UNCHANGED <<queue, arrivals, careful, limit, info>>
    BY <1>6 DEF DestroyStart, Uses, refVars
  <2>2. HistoryInv' /\ Pending' = Pending
    BY <2>1, HistoryKept
  <2>3. Contract!Destroy
    BY <1>0, <2>1, <2>2, Zenon DEF Contract!Destroy
  <2> QED BY <2>2, <2>3 DEF Contract!Next
<1>7. ASSUME NEW t \in Thread, Free(t), UNCHANGED queueVars
      PROVE  HistoryInv' /\ [Contract!Next]_(Contract!vars)
  <2>1. UNCHANGED <<queue, arrivals, careful, draining, limit, info>>
    BY <1>7 DEF Free, queueVars
  <2> QED BY <1>0, <1>s, <2>1, HistoryKept
<1>8. ASSUME NEW t \in Thread, DestroyItem(t)
      PROVE  HistoryInv' /\ [Contract!Next]_(Contract!vars)
  BY <1>8, DestroyItemRefines DEF Contract!Next
<1>9. ASSUME NEW t \in Thread, DestroyEnd(t)
      PROVE  HistoryInv' /\ [Contract!Next]_(Contract!vars)
  <2>1. /\ draining /\ draining' = FALSE /\ queue = <<>>
        /\ UNCHANGED <<queue, arrivals, careful, limit, info>>
    BY <1>9 DEF DestroyEnd, refVars
  <2>2. HistoryInv' /\ Pending' = Pending
    BY <1>0, <2>1, HistoryKept, Zenon
  <2>3. Pending = <<>>
    <3>1. arrivals \in Seq(Cell) /\ Len(arrivals) = 0
      BY <2>1 DEF HistoryInv, HistoryType, SameCells
    <3>2. DOMAIN arrivals = {}
      BY <3>1
    <3> QED BY <3>2 DEF Pending
  <2>4. Contract!Destroy
    BY <1>0, <2>1, <2>2, <2>3, Zenon DEF Contract!Destroy
  <2> QED BY <2>2, <2>4 DEF Contract!Next
<1>10. ASSUME NEW t \in Thread, OnQueue(t)
       PROVE  HistoryInv' /\ [Contract!Next]_(Contract!vars)
  <2>1. ASSUME NEW r \in Ref, tide_reorder_queue_push_fails(t, r) PROVE UNCHANGED vars
    BY <2>1 DEF tide_reorder_queue_push_fails
  <2>2. ASSUME PopWouldBlock(t) PROVE UNCHANGED vars
    BY <2>2 DEF PopWouldBlock
  <2> QED BY <1>1, <1>3, <1>4, <1>5, <1>6, <1>10, <2>1, <2>2, Zenon DEF OnQueue
<1>11. ASSUME NEW t \in Thread, GoesOn(t)
       PROVE  HistoryInv' /\ [Contract!Next]_(Contract!vars)
  BY <1>7, <1>8, <1>9, <1>11, Zenon DEF GoesOn
<1> QED BY <1>1, <1>2, <1>10, <1>11, Zenon DEF Next

\* Every behaviour of the sorted array is one of the contract's: each pop returns the least
\* of the pending packets and among equal ones the one pushed first, no packet is lost or
\* returned twice, whatever other threads do to the leases meanwhile.
THEOREM QueueImplementsContract == Spec => ImplementsContract
<1>1. Init /\ [][Next]_vars => ImplementsContract
  <2>1. Init => Inv /\ HistoryInv /\ Contract!Init
    BY InitInv, InitHistory
  <2>2. Inv /\ HistoryInv /\ [Next]_vars
          => Inv' /\ HistoryInv' /\ [Contract!Next]_(Contract!vars)
    BY NextInv, StepRefines
  <2> QED BY <2>1, <2>2, PTL DEF ImplementsContract, Contract!Spec
<1> QED BY <1>1, PTL DEF Spec

\* Every variable of the queue and of the references has its type in every reachable
\* state; a reference count never becomes negative.
THEOREM QueueTypeCorrect == Spec => []TypeOK
<1>1. Inv /\ HistoryInv => TypeOK
  <2> SUFFICES ASSUME Inv, HistoryInv PROVE TypeOK
    OBVIOUS
  <2>1. RefType /\ QueueType /\ HistoryType
    BY DEF Inv, RefInv, QueueInv, HistoryInv
  <2>2. refcount \in [Lease -> Nat]
    <3>1. ASSUME NEW l \in Lease PROVE refcount[l] \in Nat
      <4>1. Cardinality(Held(lease, l)) \in Nat
        <5>1. Held(lease, l) \subseteq Holder /\ IsFiniteSet(Holder)
          BY RefsAssumption DEF Held
        <5> QED BY <5>1, FS_Subset, FS_CardinalityType
      <4>2. refcount[l] = Cardinality(Held(lease, l)) + lost[l] /\ lost[l] \in Nat
        BY <2>1 DEF Inv, RefInv, Exact, RefType
      <4> QED BY <4>1, <4>2
    <3> QED BY <2>1, <3>1 DEF RefType
  <2> QED BY <2>1, <2>2, Zenon DEF TypeOK, RefType, QueueType, HistoryType
<1>2. Init => Inv /\ HistoryInv
  BY InitInv, InitHistory
<1>3. Inv /\ HistoryInv /\ [Next]_vars => Inv' /\ HistoryInv'
  BY NextInv, StepRefines
<1> QED BY <1>1, <1>2, <1>3, PTL DEF Spec

=============================================================================
