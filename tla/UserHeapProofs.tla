--------------------------- MODULE UserHeapProofs ---------------------------
(***************************************************************************)
(* The allocator of the programs is correct for any arena size, any        *)
(* requests and whatever other processes reserve: UserHeapInv is an        *)
(* invariant of UserHeapSpec.                                              *)
(*                                                                         *)
(* UserInd is inductive.  The arenas lie below the bump pointer, so a new  *)
(* one overlaps none, and with nothing handed out no recorded arena is a   *)
(* node: dealloc would have returned it.                                   *)
(***************************************************************************)
EXTENDS UserHeap, FreeListProofs

\* What take needs of the list it takes from
ListAndBlocks(F) ==
    /\ ListOK(F)
    /\ blocks \subseteq UsedBlock
    /\ \A u \in blocks : PayloadIn(u)
    /\ \A u, v \in blocks : u # v => Off(u, v)
    /\ \A u \in blocks, b \in F : Off(u, b)

ArenasOK ==
    /\ mapped \subseteq [addr : Nat, size : Nat \ {0}]
    /\ arenas \subseteq mapped
    /\ bump \in HeapVaBase .. HeapVaEnd
    /\ \A a \in mapped : a.addr + a.size <= bump
    /\ \A a, b \in mapped : a # b => Off(a, b)

Tiled ==
    \A w \in Nat : ((\E b \in nodes : w \in Words(b)) \/ (\E u \in blocks : w \in Words(u)))
                   <=> \E a \in mapped : w \in Words(a)

NoneEmpty == blocks = {} => arenas \cap nodes = {}

UserInd == ListAndBlocks(nodes) /\ ArenasOK /\ Tiled /\ NoneEmpty

\* take moves words from the list to the block it hands out.
LEMMA TakeKeeps ==
  ASSUME NEW F, ListAndBlocks(F), NEW r \in UserRequests, Fits(F, Need(r)) # {}, Take(F, r)
  PROVE  /\ ListAndBlocks(nodes)'
         /\ blocks' # {}
         /\ \A w \in Nat : ((\E b \in nodes' : w \in Words(b)) \/ (\E u \in blocks' : w \in Words(u)))
                <=> ((\E b \in F : w \in Words(b)) \/ (\E u \in blocks : w \in Words(u)))
<1> USE DEF ListAndBlocks
<1> DEFINE need == Need(r)
           b == FirstFit(F, need)
           k == Kept(b, need)
           u == Finish(b.addr, k, r)
<1>1. nodes' = Carved(F, b, need) /\ blocks' = blocks \cup {u}
  BY DEF Take
<1>2. r \in [size : Nat, align : Nat \ {0}] /\ need \in Nat \ {0} /\ Fits(F, need) # {}
  BY UserHeapAssumption DEF Need, Header
<1> HIDE DEF need
<1>3. b \in F /\ need <= b.size /\ b.addr \in Nat /\ b.size \in Nat
  <2>1. b \in F /\ b.size >= need
    BY <1>2, FirstFitFits
  <2> QED
    BY <1>2, <2>1 DEF ListOK
<1> HIDE DEF b, k
<1>4. /\ k \in Nat /\ need <= k
      /\ ListOK(nodes')
      /\ \A w \in Nat : (\E x \in F : w \in Words(x))
             <=> (w \in Words(Block(b.addr, k)) \/ \E x \in nodes' : w \in Words(x))
      /\ \A x \in nodes' : Off(Block(b.addr, k), x)
      /\ \A x : x.addr \in Nat /\ x.size \in Nat \ {0} /\ (\A y \in F : Off(x, y))
             => Off(x, Block(b.addr, k)) /\ \A y \in nodes' : Off(x, y)
  <2>1. k = Kept(b, need)
    BY DEF k
  <2> QED
    BY <1>1, <1>2, <1>3, <2>1, CarveKeeps
<1>5. Need(r) <= k
  BY <1>4 DEF need
<1>6. u \in UsedBlock /\ u.addr = b.addr /\ u.size = k /\ PayloadIn(u)
  BY <1>2, <1>3, <1>4, <1>5, FinishFits
<1> HIDE DEF u
<1>7. /\ \A x : (Off(x, Block(b.addr, k)) <=> Off(x, u)) /\ (Off(Block(b.addr, k), x) <=> Off(u, x))
      /\ \A w : w \in Words(Block(b.addr, k)) <=> w \in Words(u)
  BY <1>6 DEF Off, Words, Block
<1>8. ASSUME NEW x \in blocks PROVE Off(x, u) /\ Off(u, x) /\ \A y \in nodes' : Off(x, y)
  <2>1. x.addr \in Nat /\ x.size \in Nat \ {0} /\ \A y \in F : Off(x, y)
    BY DEF UsedBlock
  <2>2. Off(x, u) /\ \A y \in nodes' : Off(x, y)
    BY <1>4, <1>7, <2>1
  <2> QED
    BY <2>2 DEF Off
<1>9. \A x \in nodes' : Off(u, x)
  BY <1>4, <1>7
<1>10. ListAndBlocks(nodes)'
  BY <1>1, <1>4, <1>6, <1>8, <1>9
<1>11. \A w \in Nat : ((\E x \in nodes' : w \in Words(x)) \/ (\E x \in blocks' : w \in Words(x)))
                <=> ((\E x \in F : w \in Words(x)) \/ (\E x \in blocks : w \in Words(x)))
  BY <1>1, <1>4, <1>7
<1> QED
  BY <1>1, <1>10, <1>11

\* alloc from the list
LEMMA AllocKeeps ==
  ASSUME UserInd, NEW r \in UserRequests, UserAlloc(r)
  PROVE  UserInd'
<1>1. /\ Fits(nodes, Need(r)) # {} /\ Take(nodes, r)
      /\ arenas' = arenas /\ mapped' = mapped /\ bump' = bump
  BY DEF UserAlloc
<1>2. /\ ListAndBlocks(nodes)' /\ blocks' # {}
      /\ \A w \in Nat : ((\E b \in nodes' : w \in Words(b)) \/ (\E u \in blocks' : w \in Words(u)))
             <=> ((\E b \in nodes : w \in Words(b)) \/ (\E u \in blocks : w \in Words(u)))
  BY <1>1, TakeKeeps DEF UserInd
<1>3. ArenasOK' /\ Tiled' /\ NoneEmpty'
  BY <1>1, <1>2 DEF UserInd, ArenasOK, Tiled, NoneEmpty
<1> QED
  BY <1>2, <1>3 DEF UserInd

\* Every node and every block lies below the bump pointer.
LEMMA BelowBump ==
  ASSUME UserInd
  PROVE  /\ \A b \in nodes : b.addr + b.size <= bump
         /\ \A u \in blocks : u.addr + u.size <= bump
<1>1. ASSUME NEW x, x \in nodes \/ x \in blocks PROVE x.addr + x.size <= bump
  <2>1. x.addr \in Nat /\ x.size \in Nat \ {0}
    BY <1>1 DEF UserInd, ListAndBlocks, ListOK, UsedBlock
  <2> DEFINE w == x.addr + x.size - 1
  <2>2. w \in Nat /\ w \in Words(x)
    BY <2>1 DEF Words
  <2> HIDE DEF w
  <2>3. PICK a \in mapped : w \in Words(a)
    BY <1>1, <2>2 DEF UserInd, Tiled
  <2>4. a.addr \in Nat /\ a.size \in Nat /\ a.addr + a.size <= bump /\ bump \in Nat
    BY UserHeapAssumption DEF UserInd, ArenasOK
  <2>5. w < bump
    BY <2>2, <2>3, <2>4 DEF Words
  <2> QED
    BY <2>1, <2>4, <2>5 DEF w
<1> QED
  BY <1>1

\* grow asks for whole pages that hold what is needed.
LEMMA WantFits ==
  ASSUME NEW r \in UserRequests
  PROVE  /\ Need(r) \in Nat \ {0}
         /\ Want(Need(r)) \in Nat \ {0} /\ Need(r) <= Want(Need(r))
<1>1. Need(r) \in Nat \ {0}
  BY UserHeapAssumption DEF Need, Header
<1> DEFINE n == Need(r)
           m == IF n > ArenaSize THEN n ELSE ArenaSize
<1>2. n \in Nat \ {0}
  BY <1>1
<1> HIDE DEF n
<1>3. m \in Nat \ {0} /\ n <= m /\ PageWords \in Nat \ {0}
  BY <1>2, UserHeapAssumption
<1>4. Want(n) = AlignUp(m, PageWords)
  BY DEF Want
<1> HIDE DEF m
<1>5. AlignUp(m, PageWords) \in Nat /\ m <= AlignUp(m, PageWords)
  BY <1>3, AlignUpFits
<1>6. Want(n) \in Nat \ {0} /\ n <= Want(n)
  BY <1>2, <1>3, <1>4, <1>5
<1> QED
  BY <1>1, <1>6 DEF n

\* alloc through grow
LEMMA GrowKeeps ==
  ASSUME UserInd, NEW r \in UserRequests, UserAllocGrow(r)
  PROVE  UserInd'
<1> DEFINE size == Want(Need(r))
           arena == Block(bump, size)
           F == Insert(nodes, bump, size)
<1>1. /\ bump + size <= HeapVaEnd /\ bump' = bump + size
      /\ mapped' = mapped \cup {arena}
      /\ arenas' \subseteq arenas \cup {arena}
      /\ Take(F, r)
  BY DEF UserAllocGrow, Reserve, Block
<1>2. size \in Nat \ {0} /\ Need(r) \in Nat \ {0} /\ Need(r) <= size
  BY WantFits
<1> HIDE DEF size
<1>3. bump \in Nat /\ HeapVaBase <= bump /\ HeapVaBase \in Nat /\ HeapVaEnd \in Nat
  BY UserHeapAssumption DEF UserInd, ArenasOK
<1>4. arena \in [addr : Nat, size : Nat \ {0}] /\ arena.addr = bump /\ arena.size = size
  BY <1>2, <1>3 DEF Block
<1>5. /\ \A b \in nodes : Off(b, arena)
      /\ \A u \in blocks : Off(u, arena)
      /\ \A a \in mapped : Off(a, arena) /\ Off(arena, a)
  <2>1. \A a \in mapped : a.addr + a.size <= bump
    BY DEF UserInd, ArenasOK
  <2> QED
    BY <1>4, <2>1, BelowBump DEF Off
<1>6. ListOK(nodes)
  BY DEF UserInd, ListAndBlocks
<1>7. /\ ListOK(F)
      /\ \A w \in Nat : (\E b \in F : w \in Words(b))
                        <=> (w \in Words(arena) \/ \E b \in nodes : w \in Words(b))
      /\ \A x : x.addr \in Nat /\ x.size \in Nat \ {0} /\ Off(x, arena) /\ (\A b \in nodes : Off(x, b))
             => \A b \in F : Off(x, b)
      /\ \E b \in F : b.size >= size
  BY <1>2, <1>3, <1>5, <1>6, InsertKeeps
<1> HIDE DEF arena, F
<1>8. ListAndBlocks(F)
  <2>1. ASSUME NEW u \in blocks PROVE \A b \in F : Off(u, b)
    <3>1. u.addr \in Nat /\ u.size \in Nat \ {0} /\ Off(u, arena) /\ \A b \in nodes : Off(u, b)
      BY <1>5 DEF UserInd, ListAndBlocks, UsedBlock
    <3> QED
      BY <1>7, <3>1
  <2> QED
    BY <1>7, <2>1 DEF UserInd, ListAndBlocks
<1>9. Fits(F, Need(r)) # {}
  <2>1. PICK b \in F : b.size >= size
    BY <1>7
  <2>2. b.size \in Nat
    BY <1>7 DEF ListOK
  <2>3. b.size >= Need(r)
    BY <1>2, <2>1, <2>2
  <2> QED
    BY <2>3 DEF Fits
<1>10. /\ ListAndBlocks(nodes)' /\ blocks' # {}
       /\ \A w \in Nat : ((\E b \in nodes' : w \in Words(b)) \/ (\E u \in blocks' : w \in Words(u)))
              <=> ((\E b \in F : w \in Words(b)) \/ (\E u \in blocks : w \in Words(u)))
  BY <1>1, <1>8, <1>9, TakeKeeps
<1>11. Tiled'
  BY <1>1, <1>7, <1>10 DEF UserInd, Tiled
<1>12. ArenasOK'
  <2>1. mapped' \subseteq [addr : Nat, size : Nat \ {0}] /\ arenas' \subseteq mapped'
    BY <1>1, <1>4 DEF UserInd, ArenasOK
  <2>2. bump' \in HeapVaBase .. HeapVaEnd
    BY <1>1, <1>2, <1>3
  <2>3. ASSUME NEW a \in mapped' PROVE a.addr + a.size <= bump'
    <3>1. CASE a = arena
      BY <1>1, <1>4, <3>1
    <3>2. CASE a \in mapped
      <4>1. a.addr \in Nat /\ a.size \in Nat /\ a.addr + a.size <= bump
        BY <3>2 DEF UserInd, ArenasOK
      <4> QED
        BY <1>1, <1>2, <1>3, <4>1
    <3> QED
      BY <1>1, <3>1, <3>2
  <2>4. \A a, b \in mapped' : a # b => Off(a, b)
    BY <1>1, <1>5 DEF UserInd, ArenasOK
  <2> QED
    BY <2>1, <2>2, <2>3, <2>4 DEF ArenasOK
<1> QED
  BY <1>10, <1>11, <1>12 DEF UserInd, NoneEmpty

\* A reservation that maps nothing here: the kernel had no frames, or it was
\* another process.
LEMMA ReserveKeeps ==
  ASSUME UserInd, NEW size \in Nat, Reserve(size),
         UNCHANGED <<nodes, blocks, arenas, mapped>>
  PROVE  UserInd'
<1>1. bump' = bump + size /\ bump + size <= HeapVaEnd
  BY DEF Reserve
<1>2. bump \in Nat /\ HeapVaBase <= bump /\ HeapVaBase \in Nat /\ HeapVaEnd \in Nat
  BY UserHeapAssumption DEF UserInd, ArenasOK
<1>3. \A a \in mapped : a.addr + a.size <= bump'
  <2> SUFFICES ASSUME NEW a \in mapped PROVE a.addr + a.size <= bump'
    OBVIOUS
  <2>1. a.addr \in Nat /\ a.size \in Nat /\ a.addr + a.size <= bump
    BY DEF UserInd, ArenasOK
  <2> QED
    BY <1>1, <1>2, <2>1
<1>4. bump' \in HeapVaBase .. HeapVaEnd
  BY <1>1, <1>2
<1>5. ArenasOK'
  BY <1>3, <1>4 DEF UserInd, ArenasOK
<1> QED
  BY <1>5 DEF UserInd, ListAndBlocks, Tiled, NoneEmpty

\* dealloc with release_empty_arenas: an arena goes back only as a whole node,
\* so no word of what stays is unmapped.
LEMMA UserDeallocKeeps ==
  ASSUME UserInd, NEW u \in blocks, UserDealloc(u)
  PROVE  UserInd'
<1> DEFINE F == Insert(nodes, u.addr, u.size)
           block == Block(u.addr, u.size)
           empty == EmptyArenas(F)
<1>1. /\ blocks' = blocks \ {u} /\ nodes' = F \ empty
      /\ arenas' = arenas \ empty /\ mapped' = mapped \ empty /\ bump' = bump
  BY DEF UserDealloc
<1>2. u.addr \in Nat /\ u.size \in Nat \ {0} /\ ListOK(nodes)
  BY DEF UserInd, ListAndBlocks, UsedBlock
<1>3. /\ \A x : (Off(x, block) <=> Off(x, u)) /\ (Off(block, x) <=> Off(u, x))
      /\ \A w : w \in Words(block) <=> w \in Words(u)
  BY DEF Block, Off, Words
<1>4. \A b \in nodes : Off(b, block)
  BY <1>3 DEF UserInd, ListAndBlocks, Off
<1>5. /\ ListOK(F)
      /\ \A w \in Nat : (\E b \in F : w \in Words(b))
                        <=> (w \in Words(block) \/ \E b \in nodes : w \in Words(b))
      /\ \A x : x.addr \in Nat /\ x.size \in Nat \ {0} /\ Off(x, block) /\ (\A b \in nodes : Off(x, b))
             => \A b \in F : Off(x, b)
  BY <1>2, <1>4, InsertKeeps
<1>6. empty = arenas \cap F
  BY DEF EmptyArenas
<1> HIDE DEF F, block, empty
<1>7. \A v \in blocks' : \A b \in F : Off(v, b)
  <2> SUFFICES ASSUME NEW v \in blocks' PROVE \A b \in F : Off(v, b)
    OBVIOUS
  <2>1. v.addr \in Nat /\ v.size \in Nat \ {0} /\ Off(v, u) /\ \A b \in nodes : Off(v, b)
    BY <1>1 DEF UserInd, ListAndBlocks, UsedBlock
  <2> QED
    BY <1>3, <1>5, <2>1
<1>8. ListAndBlocks(nodes)'
  <2>1. ListOK(nodes')
    BY <1>1, <1>5 DEF ListOK, Joined
  <2> QED
    BY <1>1, <1>7, <2>1 DEF UserInd, ListAndBlocks
<1>9. ArenasOK'
  BY <1>1 DEF UserInd, ArenasOK
<1>10. NoneEmpty'
  BY <1>1, <1>6 DEF NoneEmpty
<1>11. \A w \in Nat : ((\E b \in F : w \in Words(b)) \/ (\E v \in blocks' : w \in Words(v)))
                      <=> \E a \in mapped : w \in Words(a)
  BY <1>1, <1>3, <1>5 DEF UserInd, Tiled
\* No word of a returned arena is in what stays.
<1>12. ASSUME NEW e \in empty, NEW x, x \in nodes' \/ x \in blocks' \/ x \in mapped',
              NEW w \in Nat, w \in Words(e), w \in Words(x)
       PROVE  FALSE
  <2>1. e \in F /\ e \in mapped
    BY <1>6 DEF UserInd, ArenasOK
  <2>2. x.addr \in Nat /\ x.size \in Nat \ {0} /\ e.addr \in Nat /\ e.size \in Nat \ {0}
    BY <1>1, <1>5, <1>12, <2>1 DEF UserInd, ListAndBlocks, ArenasOK, ListOK, UsedBlock
  <2>3. CASE x \in nodes'
    <3>1. Off(x, e)
      BY <1>1, <1>5, <2>1, <2>3 DEF ListOK
    <3> QED
      BY <1>12, <2>2, <3>1 DEF Off, Words
  <2>4. CASE x \in blocks'
    <3>1. Off(x, e)
      BY <1>7, <2>1, <2>4
    <3> QED
      BY <1>12, <2>2, <3>1 DEF Off, Words
  <2>5. CASE x \in mapped'
    <3>1. Off(x, e)
      BY <1>1, <2>1, <2>5 DEF UserInd, ArenasOK
    <3> QED
      BY <1>12, <2>2, <3>1 DEF Off, Words
  <2> QED
    BY <1>12, <2>3, <2>4, <2>5
<1>13. Tiled'
  <2> SUFFICES ASSUME NEW w \in Nat
               PROVE  ((\E b \in nodes' : w \in Words(b)) \/ (\E v \in blocks' : w \in Words(v)))
                      <=> \E a \in mapped' : w \in Words(a)
    BY DEF Tiled
  <2>1. ASSUME NEW x, x \in nodes' \/ x \in blocks', w \in Words(x)
        PROVE  \E a \in mapped' : w \in Words(a)
    <3>1. PICK a \in mapped : w \in Words(a)
      BY <1>1, <1>11, <2>1
    <3>2. a \notin empty
      BY <1>12, <2>1, <3>1
    <3> QED
      BY <1>1, <3>1, <3>2
  <2>2. ASSUME NEW a \in mapped', w \in Words(a)
        PROVE  (\E b \in nodes' : w \in Words(b)) \/ (\E v \in blocks' : w \in Words(v))
    <3>1. (\E b \in F : w \in Words(b)) \/ (\E v \in blocks' : w \in Words(v))
      BY <1>1, <1>11, <2>2
    <3>2. ASSUME NEW b \in F, w \in Words(b) PROVE b \in nodes'
      BY <1>1, <1>12, <2>2, <3>2
    <3> QED
      BY <3>1, <3>2
  <2> QED
    BY <2>1, <2>2
<1> QED
  BY <1>8, <1>9, <1>10, <1>13 DEF UserInd

\* With nothing handed out, an arena that was not returned has a neighbour.
LEMMA NeighbourKept == UserInd => FootprintReturned
<1> SUFFICES ASSUME UserInd, blocks = {}, NEW a \in arenas
             PROVE  \E b \in mapped : b.addr + b.size = a.addr \/ a.addr + a.size = b.addr
  BY DEF FootprintReturned
<1>1. /\ \A b \in mapped : b.addr \in Nat /\ b.size \in Nat \ {0}
      /\ \A b \in nodes : b.addr \in Nat /\ b.size \in Nat \ {0}
      /\ \A b, x \in nodes : b # x => Off(b, x)
      /\ \A b, x \in nodes : b.addr + b.size # x.addr
  BY DEF UserInd, ArenasOK, ListAndBlocks, ListOK, Joined
<1>2. \A w \in Nat : (\E b \in nodes : w \in Words(b)) <=> \E b \in mapped : w \in Words(b)
  BY DEF UserInd, Tiled
<1>3. a \in mapped /\ a \notin nodes /\ a \in [addr : Nat, size : Nat \ {0}]
      /\ \A b \in mapped : b # a => Off(b, a)
  BY DEF UserInd, ArenasOK, NoneEmpty
<1>4. PICK n \in nodes : a.addr \in Words(n)
  <2>1. a.addr \in Nat /\ a.addr \in Words(a)
    BY <1>1, <1>3 DEF Words
  <2> QED
    BY <1>2, <1>3, <2>1
<1>5. n.addr \in Nat /\ n.size \in Nat \ {0} /\ a.addr \in Nat /\ a.size \in Nat \ {0}
      /\ n.addr <= a.addr /\ a.addr < n.addr + n.size
  BY <1>1, <1>3, <1>4 DEF Words
<1>6. CASE n.addr < a.addr
  <2>1. a.addr - 1 \in Nat /\ a.addr - 1 \in Words(n)
    BY <1>5, <1>6 DEF Words
  <2>2. PICK b \in mapped : a.addr - 1 \in Words(b)
    BY <1>2, <2>1
  <2>3. b # a
    BY <1>5, <2>2 DEF Words
  <2>4. Off(b, a)
    BY <1>3, <2>3
  <2>5. b.addr + b.size = a.addr
    BY <1>1, <1>5, <2>2, <2>4 DEF Off, Words
  <2> QED
    BY <2>5
<1>7. CASE n.addr = a.addr /\ a.size < n.size
  <2>1. a.addr + a.size \in Nat /\ a.addr + a.size \in Words(n)
    BY <1>5, <1>7 DEF Words
  <2>2. PICK b \in mapped : a.addr + a.size \in Words(b)
    BY <1>2, <2>1
  <2>3. b # a
    BY <1>5, <2>2 DEF Words
  <2>4. Off(b, a)
    BY <1>3, <2>3
  <2>5. a.addr + a.size = b.addr
    BY <1>1, <1>5, <2>2, <2>4 DEF Off, Words
  <2> QED
    BY <2>5
<1>8. CASE n.addr = a.addr /\ n.size < a.size
  <2>1. a.addr + n.size \in Nat /\ a.addr + n.size \in Words(a)
    BY <1>5, <1>8 DEF Words
  <2>2. PICK m \in nodes : a.addr + n.size \in Words(m)
    BY <1>2, <1>3, <2>1
  <2>3. m # n
    BY <1>5, <1>8, <2>2 DEF Words
  <2>4. Off(n, m)
    BY <1>1, <2>3
  <2>5. n.addr + n.size = m.addr
    BY <1>1, <1>5, <1>8, <2>2, <2>4 DEF Off, Words
  <2> QED
    BY <1>1, <2>5
<1>9. CASE n.addr = a.addr /\ n.size = a.size
  <2>1. n \in [addr : Nat, size : Nat \ {0}]
    BY DEF UserInd, ListAndBlocks, ListOK
  <2>2. n = a
    BY <1>3, <1>9, <2>1
  <2> QED
    BY <1>3, <2>2
<1> QED
  BY <1>5, <1>6, <1>7, <1>8, <1>9

\* UserInd is stronger than what the allocator promises.
LEMMA UserIndImplies == UserInd => UserHeapInv
<1> SUFFICES ASSUME UserInd PROVE UserHeapInv
  OBVIOUS
<1>1. UserHeapTypeOK
  BY DEF UserHeapTypeOK, UserInd, ListAndBlocks, ListOK, ArenasOK, UsedBlock
<1>2. /\ \A b \in nodes : b.addr \in Nat /\ b.size \in Nat \ {0}
      /\ \A b \in blocks : b.addr \in Nat /\ b.size \in Nat \ {0}
      /\ \A b \in mapped : b.addr \in Nat /\ b.size \in Nat \ {0}
  BY DEF UserInd, ListAndBlocks, ListOK, ArenasOK, UsedBlock
<1>3. Separate(nodes \cup blocks)
  <2> SUFFICES ASSUME NEW b \in nodes \cup blocks, NEW x \in nodes \cup blocks, b # x
               PROVE  Words(b) \cap Words(x) = {}
    BY DEF Separate
  <2>1. Off(b, x)
    BY DEF UserInd, ListAndBlocks, ListOK, Off
  <2> QED
    BY <1>2, <2>1, OffMeansApart
<1>4. UNION {Words(b) : b \in nodes \cup blocks} = Lent
  <2>1. \A b \in nodes \cup blocks \cup mapped : \A w \in Words(b) : w \in Nat
    BY <1>2 DEF Words
  <2>2. ASSUME NEW w PROVE (\E b \in nodes \cup blocks : w \in Words(b)) <=> \E a \in mapped : w \in Words(a)
    BY <2>1 DEF UserInd, Tiled
  <2> QED
    BY <2>2 DEF Lent
<1>5. ArenasTiled
  BY <1>3, <1>4 DEF ArenasTiled, UserInd, ListAndBlocks
<1> QED
  BY <1>1, <1>5, NeighbourKept DEF UserHeapInv

\* What a program holds never overlaps, is aligned and lies in mapped arenas,
\* and no mapped word is lost, whatever it allocates and frees and whatever
\* other processes reserve (alloc, grow, dealloc, release_empty_arenas).
THEOREM UserHeapSafety == UserHeapSpec => []UserHeapInv
<1>1. UserHeapInit => UserInd
  BY UserHeapAssumption
     DEF UserHeapInit, UserInd, ListAndBlocks, ListOK, Joined, ArenasOK, Tiled, NoneEmpty
<1>2. UserInd /\ [UserHeapNext]_userHeapVars => UserInd'
  <2> SUFFICES ASSUME UserInd, [UserHeapNext]_userHeapVars PROVE UserInd'
    OBVIOUS
  <2>1. ASSUME NEW r \in UserRequests, UserAlloc(r) PROVE UserInd'
    BY <2>1, AllocKeeps
  <2>2. ASSUME NEW r \in UserRequests, UserAllocGrow(r) PROVE UserInd'
    BY <2>2, GrowKeeps
  <2>3. ASSUME NEW r \in UserRequests, UserAllocFails(r) PROVE UserInd'
    <3>1. Want(Need(r)) \in Nat
      BY WantFits
    <3> QED
      BY <2>3, <3>1, ReserveKeeps DEF UserAllocFails
  <2>4. ASSUME NEW u \in blocks, UserDealloc(u) PROVE UserInd'
    BY <2>4, UserDeallocKeeps
  <2>5. CASE OtherReserves
    <3>1. PageWords \in Nat
      BY UserHeapAssumption
    <3> QED
      BY <2>5, <3>1, ReserveKeeps DEF OtherReserves
  <2>6. CASE UNCHANGED userHeapVars
    BY <2>6 DEF userHeapVars, UserInd, ListAndBlocks, ArenasOK, Tiled, NoneEmpty
  <2> QED
    BY <2>1, <2>2, <2>3, <2>4, <2>5, <2>6 DEF UserHeapNext
<1> QED
  BY <1>1, <1>2, UserIndImplies, PTL DEF UserHeapSpec
=============================================================================
