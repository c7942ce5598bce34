----------------------------- MODULE HeapProofs -----------------------------
(***************************************************************************)
(* The kernel heap is correct for any number of processors, any heap, any  *)
(* size classes and any requests: HeapInv is an invariant of HeapSpec.     *)
(*                                                                         *)
(* HeapInd is inductive.  It tells overlap by the bounds of the blocks,    *)
(* has no empty block, and keeps the nodes of the list from touching, from *)
(* which it follows that a list with every word of the heap is one node.   *)
(***************************************************************************)
EXTENDS Heap, FreeListProofs, FiniteSetTheorems

Shape ==
    /\ ListOK(free)
    /\ cached \subseteq [cpu : HeapCpus, addr : Nat, size : Classes]
    /\ used \subseteq UsedBlock
    /\ \A u \in used : PayloadIn(u) /\ NodeSize <= u.size

WithinCaps ==
    /\ IsFiniteSet(cached)
    /\ \A c \in HeapCpus, k \in Classes : Cardinality(Cached(c, k)) <= CacheCap

KeptApart ==
    /\ \A b, x \in cached : b # x => Off(b, x)
    /\ \A b, x \in used : b # x => Off(b, x)
    /\ \A b \in cached, x \in used : Off(b, x)
    /\ \A b \in cached, x \in free : Off(b, x)
    /\ \A b \in used, x \in free : Off(b, x)

InHeap(w) == HeapStart <= w /\ w < HeapStart + HeapSize

Covers ==
    \A w \in Nat :
        (\/ \E b \in free : w \in Words(b)
         \/ \E b \in cached : w \in Words(b)
         \/ \E b \in used : w \in Words(b)) <=> InHeap(w)

HeapInd == Shape /\ WithinCaps /\ KeptApart /\ Covers

\* Every request has a size and an alignment; class_for never rounds down.
LEMMA RoundedFits ==
  ASSUME NEW r \in HeapRequests
  PROVE  /\ r \in [size : Nat, align : Nat \ {0}]
         /\ Rounded(Need(r)) \in Nat \ {0} /\ Need(r) <= Rounded(Need(r))
<1>1. r \in [size : Nat, align : Nat \ {0}] /\ Need(r) \in Nat \ {0}
  BY HeapAssumption DEF Need, Header
<1> DEFINE n == Need(r)
           larger == {k \in Classes : k >= n}
<1>2. n \in Nat \ {0}
  BY <1>1
<1> HIDE DEF n
<1>5. Rounded(n) \in Nat \ {0} /\ n <= Rounded(n)
  <2>1. CASE larger = {}
    BY <1>2, <2>1 DEF Rounded
  <2>2. CASE larger # {}
    <3>1. larger \in SUBSET Nat
      BY HeapAssumption
    <3>2. Least(larger) \in larger
      BY <2>2, <3>1, LeastExists DEF Least
    <3>3. Rounded(n) = Least(larger)
      BY <2>2 DEF Rounded
    <3> QED
      BY <1>2, <3>2, <3>3, HeapAssumption
  <2> QED
    BY <2>1, <2>2
<1> QED
  BY <1>1, <1>5 DEF n

\* The heap begins as one node.
LEMMA HeapStarts == HeapInit => HeapInd
<1> SUFFICES ASSUME HeapInit PROVE HeapInd
  OBVIOUS
<1> USE HeapAssumption
<1>1. HeapSize \in Nat \ {0} /\ HeapStart \in Nat /\ ~(HeapSize < NodeSize)
  BY DEF NodeSize
<1>2. free = Insert({}, HeapStart, HeapSize) /\ cached = {} /\ used = {}
  BY <1>1 DEF HeapInit, InsertNolock
<1>3. ListOK({})
  BY DEF ListOK, Joined
<1>4. /\ ListOK(free)
      /\ \A w \in Nat : (\E b \in free : w \in Words(b)) <=> w \in Words(Block(HeapStart, HeapSize))
  BY <1>1, <1>2, <1>3, InsertKeeps
<1>5. Shape /\ KeptApart
  BY <1>2, <1>4 DEF Shape, KeptApart
<1>6. WithinCaps
  <2>1. \A c, k : Cached(c, k) = {}
    BY <1>2 DEF Cached
  <2> QED
    BY <1>2, <2>1, FS_EmptySet DEF WithinCaps
<1>7. Covers
  <2>1. \A w \in Nat : w \in Words(Block(HeapStart, HeapSize)) <=> InHeap(w)
    BY <1>1 DEF Words, Block, InHeap
  <2> QED
    BY <1>2, <1>4, <2>1 DEF Covers
<1> QED
  BY <1>5, <1>6, <1>7 DEF HeapInd

\* alloc from the cache of this CPU.
LEMMA FromCacheKeeps ==
  ASSUME HeapInd, NEW c \in HeapCpus, NEW r \in HeapRequests, AllocFromCache(c, r)
  PROVE  HeapInd'
<1> USE DEF HeapInd
<1>1. PICK b \in Cached(c, Rounded(Need(r))) :
        /\ cached' = cached \ {b}
        /\ used' = used \cup {Finish(b.addr, b.size, r)}
        /\ free' = free
  BY DEF AllocFromCache
<1> DEFINE u == Finish(b.addr, b.size, r)
<1>2. b \in cached /\ b.addr \in Nat /\ b.size \in Nat \ {0} /\ b.size = Rounded(Need(r))
  BY <1>1, RoundedFits DEF Cached, Shape
<1>3. u \in UsedBlock /\ u.addr = b.addr /\ u.size = b.size /\ PayloadIn(u) /\ NodeSize <= u.size
  BY <1>2, RoundedFits, FinishFits
<1> HIDE DEF u
<1>4. used' = used \cup {u}
  BY <1>1 DEF u
<1>5. \A x : (Off(x, b) <=> Off(x, u)) /\ (Off(b, x) <=> Off(u, x))
  BY <1>3 DEF Off
<1>6. \A w : w \in Words(b) <=> w \in Words(u)
  BY <1>3 DEF Words
<1>7. Shape'
  BY <1>1, <1>3, <1>4 DEF Shape
<1>8. WithinCaps'
  <2>1. IsFiniteSet(cached')
    BY <1>1, FS_Subset DEF WithinCaps
  <2>2. ASSUME NEW d \in HeapCpus, NEW k \in Classes
        PROVE  Cardinality(Cached(d, k)') <= CacheCap
    <3>1. Cached(d, k)' \subseteq Cached(d, k) /\ Cached(d, k) \subseteq cached
      BY <1>1 DEF Cached
    <3>2. IsFiniteSet(Cached(d, k))
      BY <3>1, FS_Subset DEF WithinCaps
    <3>3. IsFiniteSet(Cached(d, k)') /\ Cardinality(Cached(d, k)') <= Cardinality(Cached(d, k))
      BY <3>1, <3>2, FS_Subset
    <3>4. Cardinality(Cached(d, k)') \in Nat /\ Cardinality(Cached(d, k)) \in Nat
      BY <3>2, <3>3, FS_CardinalityType
    <3> QED
      BY <3>3, <3>4, HeapAssumption DEF WithinCaps
  <2> QED
    BY <2>1, <2>2 DEF WithinCaps
<1>9. KeptApart'
  <2>1. \A x \in used : Off(b, x) /\ Off(x, b)
    BY <1>2 DEF KeptApart, Off
  <2>2. \A x \in cached \ {b} : Off(x, b)
    BY <1>2 DEF KeptApart
  <2>3. \A x \in free : Off(b, x)
    BY <1>2 DEF KeptApart
  <2> QED
    BY <1>1, <1>4, <1>5, <2>1, <2>2, <2>3 DEF KeptApart
<1>10. Covers'
  BY <1>1, <1>2, <1>4, <1>6 DEF Covers, InHeap
<1> QED
  BY <1>7, <1>8, <1>9, <1>10

\* alloc from the global list.
LEMMA FromGlobalKeeps ==
  ASSUME HeapInd, NEW c \in HeapCpus, NEW r \in HeapRequests, AllocFromGlobal(c, r)
  PROVE  HeapInd'
<1> USE DEF HeapInd
<1> DEFINE need == Rounded(Need(r))
           b == FirstFit(free, need)
           k == Kept(b, need)
           u == Finish(b.addr, k, r)
<1>1. /\ Fits(free, need) # {} /\ cached' = cached
      /\ free' = Carved(free, b, need) /\ used' = used \cup {u}
  BY DEF AllocFromGlobal
<1>2. /\ need \in Nat \ {0} /\ Need(r) <= need
      /\ r \in [size : Nat, align : Nat \ {0}] /\ Need(r) \in Nat
  BY RoundedFits DEF Need, Header
<1> HIDE DEF need
<1>3. b \in free /\ b.size >= need /\ b.addr \in Nat /\ b.size \in Nat /\ ListOK(free)
  BY <1>1, <1>2, FirstFitFits DEF Shape, ListOK
<1> HIDE DEF b
<1>4. need <= b.size
  BY <1>2, <1>3
<1> HIDE DEF k
<1>5. /\ k \in Nat /\ need <= k
      /\ ListOK(free')
      /\ \A w \in Nat : (\E x \in free : w \in Words(x))
             <=> (w \in Words(Block(b.addr, k)) \/ \E x \in free' : w \in Words(x))
      /\ \A x \in free' : Off(Block(b.addr, k), x)
      /\ \A x : x.addr \in Nat /\ x.size \in Nat \ {0} /\ (\A y \in free : Off(x, y))
             => Off(x, Block(b.addr, k)) /\ \A y \in free' : Off(x, y)
  <2>1. k = Kept(b, need)
    BY DEF k
  <2> QED
    BY <1>1, <1>2, <1>3, <1>4, <2>1, CarveKeeps
<1>6. k \in Nat /\ b.addr \in Nat /\ r \in [size : Nat, align : Nat \ {0}] /\ Need(r) <= k
  BY <1>2, <1>3, <1>5
<1>7. u \in UsedBlock /\ u.addr = b.addr /\ u.size = k /\ PayloadIn(u) /\ NodeSize <= u.size
  BY <1>6, FinishFits
<1> HIDE DEF u
<1>8. \A x : (Off(x, Block(b.addr, k)) <=> Off(x, u)) /\ (Off(Block(b.addr, k), x) <=> Off(u, x))
  BY <1>7 DEF Off, Block
<1>9. \A w : w \in Words(Block(b.addr, k)) <=> w \in Words(u)
  BY <1>7 DEF Words, Block
<1>10. Shape'
  BY <1>1, <1>5, <1>7 DEF Shape
<1>11. WithinCaps'
  BY <1>1 DEF WithinCaps, Cached
<1>12. KeptApart'
  <2>1. ASSUME NEW x \in cached PROVE Off(x, u) /\ \A y \in free' : Off(x, y)
    <3>1. x.addr \in Nat /\ x.size \in Nat \ {0} /\ \A y \in free : Off(x, y)
      BY HeapAssumption DEF Shape, KeptApart
    <3> QED
      BY <1>5, <1>8, <3>1
  <2>2. ASSUME NEW x \in used PROVE Off(x, u) /\ Off(u, x) /\ \A y \in free' : Off(x, y)
    <3>1. x.addr \in Nat /\ x.size \in Nat \ {0} /\ \A y \in free : Off(x, y)
      BY DEF Shape, KeptApart, UsedBlock
    <3>2. Off(x, u) /\ \A y \in free' : Off(x, y)
      BY <1>5, <1>8, <3>1
    <3> QED
      BY <3>2 DEF Off
  <2>3. \A x \in free' : Off(u, x)
    BY <1>5, <1>8
  <2> QED
    BY <1>1, <2>1, <2>2, <2>3 DEF KeptApart
<1>13. Covers'
  BY <1>1, <1>5, <1>9 DEF Covers, InHeap
<1> QED
  BY <1>10, <1>11, <1>12, <1>13
\* dealloc, on any CPU.
LEMMA DeallocKeeps ==
  ASSUME HeapInd, NEW c \in HeapCpus, NEW u \in used, Dealloc(c, u)
  PROVE  HeapInd'
<1> USE DEF HeapInd
<1>1. /\ u.addr \in Nat /\ u.size \in Nat \ {0} /\ ~(u.size < NodeSize)
      /\ used' = used \ {u} /\ used' \subseteq used
  BY DEF Shape, UsedBlock, Dealloc, NodeSize
<1> DEFINE block == Block(u.addr, u.size)
<1>2. /\ \A x : (Off(x, block) <=> Off(x, u)) /\ (Off(block, x) <=> Off(u, x))
      /\ \A w : w \in Words(block) <=> w \in Words(u)
  BY DEF Block, Off, Words
<1>3. /\ \A x \in free : Off(u, x) /\ Off(x, u)
      /\ \A x \in cached : Off(u, x) /\ Off(x, u)
      /\ \A x \in used' : Off(u, x) /\ Off(x, u)
  BY <1>1 DEF KeptApart, Off
<1>4. CASE u.size \in Classes /\ Cardinality(Cached(c, u.size)) < CacheCap
  <2> DEFINE b == [cpu |-> c, addr |-> u.addr, size |-> u.size]
  <2>1. cached' = cached \cup {b} /\ free' = free
    BY <1>4 DEF Dealloc
  <2>2. b.addr = u.addr /\ b.size = u.size /\ b.cpu = c
    OBVIOUS
  <2>3. b \in [cpu : HeapCpus, addr : Nat, size : Classes]
    BY <1>1, <1>4
  <2> HIDE DEF b
  <2>4. /\ \A x : (Off(x, b) <=> Off(x, u)) /\ (Off(b, x) <=> Off(u, x))
        /\ \A w : w \in Words(b) <=> w \in Words(u)
    BY <2>2 DEF Off, Words
  <2>5. Shape'
    BY <1>1, <2>1, <2>3 DEF Shape
  <2>6. WithinCaps'
    <3>1. IsFiniteSet(cached')
      BY <2>1, FS_AddElement DEF WithinCaps
    <3>2. ASSUME NEW d \in HeapCpus, NEW k \in Classes
          PROVE  Cardinality(Cached(d, k)') <= CacheCap
      <4>1. IsFiniteSet(Cached(d, k))
        <5>1. Cached(d, k) \subseteq cached
          BY DEF Cached
        <5> QED
          BY <5>1, FS_Subset DEF WithinCaps
      <4>2. Cardinality(Cached(d, k)) \in Nat /\ Cardinality(Cached(d, k)) <= CacheCap
        BY <4>1, FS_CardinalityType DEF WithinCaps
      <4>3. CASE d = c /\ k = u.size
        <5>1. Cached(d, k)' = Cached(d, k) \cup {b}
          BY <2>1, <2>2, <4>3 DEF Cached
        <5>2. \/ Cardinality(Cached(d, k)') = Cardinality(Cached(d, k))
              \/ Cardinality(Cached(d, k)') = Cardinality(Cached(d, k)) + 1
          <6>1. CASE b \in Cached(d, k)
            <7>1. Cached(d, k)' = Cached(d, k)
              BY <5>1, <6>1
            <7> QED
              BY <7>1
          <6>2. CASE b \notin Cached(d, k)
            BY <4>1, <5>1, <6>2, FS_AddElement
          <6> QED
            BY <6>1, <6>2
        <5> QED
          BY <1>4, <4>2, <4>3, <5>2, HeapAssumption
      <4>4. CASE ~(d = c /\ k = u.size)
        <5>1. Cached(d, k)' = Cached(d, k)
          BY <2>1, <2>2, <4>4 DEF Cached
        <5> QED
          BY <4>2, <5>1
      <4> QED
        BY <4>3, <4>4
    <3> QED
      BY <3>1, <3>2 DEF WithinCaps
  <2>7. KeptApart'
    <3>1. \A x \in cached : Off(b, x) /\ Off(x, b)
      BY <1>3, <2>4
    <3>2. \A x \in used' : Off(b, x)
      BY <1>3, <2>4
    <3>3. \A x \in free : Off(b, x)
      BY <1>3, <2>4
    <3> QED
      BY <1>1, <2>1, <3>1, <3>2, <3>3 DEF KeptApart
  <2>8. Covers'
    BY <1>1, <2>1, <2>4 DEF Covers, InHeap
  <2> QED
    BY <2>5, <2>6, <2>7, <2>8
<1>5. CASE ~(u.size \in Classes /\ Cardinality(Cached(c, u.size)) < CacheCap)
  <2>1. cached' = cached /\ free' = Insert(free, u.addr, u.size)
    BY <1>1, <1>5 DEF Dealloc, InsertNolock
  <2>2. ListOK(free) /\ \A x \in free : Off(x, block)
    BY <1>2, <1>3 DEF Shape
  <2>3. /\ ListOK(free')
        /\ \A w \in Nat : (\E x \in free' : w \in Words(x))
                          <=> (w \in Words(block) \/ \E x \in free : w \in Words(x))
        /\ \A x : x.addr \in Nat /\ x.size \in Nat \ {0} /\ Off(x, block)
                   /\ (\A y \in free : Off(x, y))
                => \A y \in free' : Off(x, y)
    BY <1>1, <2>1, <2>2, InsertKeeps
  <2> HIDE DEF block
  <2>4. Shape'
    BY <1>1, <2>1, <2>3 DEF Shape
  <2>5. WithinCaps'
    BY <2>1 DEF WithinCaps, Cached
  <2>6. KeptApart'
    <3>1. ASSUME NEW x \in cached PROVE \A y \in free' : Off(x, y)
      <4>1. x.addr \in Nat /\ x.size \in Nat \ {0} /\ Off(x, block) /\ \A y \in free : Off(x, y)
        BY <1>2, <1>3, HeapAssumption DEF Shape, KeptApart
      <4> QED
        BY <2>3, <4>1
    <3>2. ASSUME NEW x \in used' PROVE \A y \in free' : Off(x, y)
      <4>1. x.addr \in Nat /\ x.size \in Nat \ {0} /\ Off(x, block) /\ \A y \in free : Off(x, y)
        BY <1>1, <1>2, <1>3 DEF Shape, KeptApart, UsedBlock
      <4> QED
        BY <2>3, <4>1
    <3> QED
      BY <1>1, <2>1, <3>1, <3>2 DEF KeptApart
  <2>7. Covers'
    BY <1>1, <1>2, <2>1, <2>3 DEF Covers, InHeap
  <2> QED
    BY <2>4, <2>5, <2>6, <2>7
<1> QED
  BY <1>4, <1>5

\* HeapInd is stronger than what the heap promises.
LEMMA HeapIndImplies == HeapInd => HeapInv
<1> SUFFICES ASSUME HeapInd PROVE HeapInv
  OBVIOUS
<1> USE DEF HeapInd
<1>1. /\ \A b \in free : b.addr \in Nat /\ b.size \in Nat \ {0}
      /\ \A b \in cached : b.addr \in Nat /\ b.size \in Nat \ {0}
      /\ \A b \in used : b.addr \in Nat /\ b.size \in Nat \ {0}
  BY HeapAssumption DEF Shape, ListOK, UsedBlock
<1>2. HeapTypeOK
  BY DEF HeapTypeOK, Shape, WithinCaps, ListOK, UsedBlock
<1>3. Disjoint
  <2>1. ASSUME NEW b \in free \cup used, NEW x \in free \cup used, b # x
        PROVE  Words(b) \cap Words(x) = {}
    <3>1. Off(b, x)
      BY <2>1 DEF KeptApart, Shape, ListOK, Off
    <3> QED
      BY <1>1, <3>1, OffMeansApart
  <2>3. Separate(free \cup used)
    BY <2>1 DEF Separate
  <2>4. ASSUME NEW b \in cached, NEW x \in cached, b # x PROVE Words(b) \cap Words(x) = {}
    <3>1. Off(b, x)
      BY <2>4 DEF KeptApart
    <3> QED
      BY <1>1, <3>1, OffMeansApart
  <2>5. ASSUME NEW b \in cached, NEW x \in free \cup used PROVE Words(b) \cap Words(x) = {}
    <3>1. Off(b, x)
      BY DEF KeptApart
    <3> QED
      BY <1>1, <3>1, OffMeansApart
  <2> QED
    BY <2>3, <2>4, <2>5 DEF Disjoint, Separate
<1>4. NothingLost
  <2> DEFINE all == UNION {Words(b) : b \in free \cup cached \cup used}
  <2>1. ASSUME NEW w \in all PROVE w \in HeapStart .. (HeapStart + HeapSize - 1)
    <3>1. PICK b \in free \cup cached \cup used : w \in Words(b)
      OBVIOUS
    <3>2. w \in Nat
      BY <1>1, <3>1 DEF Words
    <3>3. InHeap(w)
      BY <3>1, <3>2 DEF Covers
    <3> QED
      BY <3>2, <3>3, HeapAssumption DEF InHeap
  <2>2. ASSUME NEW w \in HeapStart .. (HeapStart + HeapSize - 1) PROVE w \in all
    <3>1. w \in Nat /\ InHeap(w)
      BY HeapAssumption DEF InHeap
    <3> QED
      BY <3>1 DEF Covers
  <2> QED
    BY <2>1, <2>2 DEF NothingLost
<1>5. Rejoined
  <2> SUFFICES ASSUME used = {}, cached = {} PROVE free = {Block(HeapStart, HeapSize)}
    BY DEF Rejoined
  <2>1. \A w \in Nat : (\E b \in free : w \in Words(b)) <=> (HeapStart <= w /\ w < HeapStart + HeapSize)
    BY DEF Covers, InHeap
  <2>2. ListOK(free) /\ HeapStart \in Nat /\ HeapSize \in Nat \ {0}
    BY HeapAssumption DEF Shape
  <2> QED
    BY <2>1, <2>2, OneNode
<1> QED
  BY <1>2, <1>3, <1>4, <1>5 DEF HeapInv, Shape

\* The kernel heap hands out disjoint, aligned, sufficient blocks and loses no
\* word, through splits, joins, caches and frees on any CPU (alloc, dealloc).
THEOREM HeapSafety == HeapSpec => []HeapInv
<1>1. HeapInd /\ [HeapNext]_heapVars => HeapInd'
  <2> SUFFICES ASSUME HeapInd, [HeapNext]_heapVars PROVE HeapInd'
    OBVIOUS
  <2>1. ASSUME NEW c \in HeapCpus, NEW r \in HeapRequests, AllocFromCache(c, r) PROVE HeapInd'
    BY <2>1, FromCacheKeeps
  <2>2. ASSUME NEW c \in HeapCpus, NEW r \in HeapRequests, AllocFromGlobal(c, r) PROVE HeapInd'
    BY <2>2, FromGlobalKeeps
  <2>3. ASSUME NEW c \in HeapCpus, NEW u \in used, Dealloc(c, u) PROVE HeapInd'
    BY <2>3, DeallocKeeps
  <2>4. CASE UNCHANGED heapVars
    BY <2>4 DEF heapVars, HeapInd, Shape, WithinCaps, KeptApart, Covers, Cached, InHeap
  <2> QED
    BY <2>1, <2>2, <2>3, <2>4 DEF HeapNext
<1> QED
  BY <1>1, HeapStarts, HeapIndImplies, PTL DEF HeapSpec
=============================================================================
