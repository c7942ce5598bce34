-------------------------------- MODULE Heap --------------------------------
(***************************************************************************)
(* The kernel heap (memory/allocator.rs): one free list for all CPUs under *)
(* a lock, and for every CPU a cache of blocks of a few fixed sizes that   *)
(* only this CPU touches, with interrupts off.  alloc and dealloc make at  *)
(* most one visit to the free list, so each is one step.  A cache, a stack *)
(* in the code, is the set of its blocks.                                  *)
(***************************************************************************)
EXTENDS FreeList, FiniteSets

CONSTANTS
    HeapCpus,       \* the processors
    HeapStart,      \* first word of the heap
    HeapSize,       \* its length
    Classes,        \* CLASS_SIZES
    CacheCap,       \* CACHE_CAP
    HeapRequests    \* the layouts asked for: [size, align] in words

ASSUME HeapAssumption ==
    /\ HeapStart \in Nat /\ HeapSize \in Nat /\ HeapSize >= 2
    /\ Classes \subseteq Nat \ {0} /\ IsFiniteSet(Classes)
    /\ CacheCap \in Nat
    /\ HeapRequests \subseteq [size : Nat, align : Nat \ {0}]

VARIABLES
    free,       \* nodes of the global list
    cached,     \* blocks in the caches: [cpu, addr, size]
    used        \* blocks handed out: [addr, size, user, len, align]

heapVars == <<free, cached, used>>

Least(S) == CHOOSE x \in S : \A y \in S : x <= y

\* insert_nolock: a block that cannot hold a node is dropped.
InsertNolock(F, addr, size) == IF size < NodeSize THEN F ELSE Insert(F, addr, size)

HeapInit ==
    /\ free = InsertNolock({}, HeapStart, HeapSize)
    /\ cached = {} /\ used = {}

-----------------------------------------------------------------------------
\* class_for: the size carved for a request, its class or its own size.
Rounded(need) ==
    LET larger == {k \in Classes : k >= need}
    IN  IF larger = {} THEN need ELSE Least(larger)

Cached(c, size) == {b \in cached : b.cpu = c /\ b.size = size}

\* alloc on CPU c: the cache of the class first, then the global list.  With
\* neither the caller gets null.
AllocFromCache(c, r) ==
    \E b \in Cached(c, Rounded(Need(r))) :
        /\ cached' = cached \ {b}
        /\ used' = used \cup {Finish(b.addr, b.size, r)}
        /\ UNCHANGED free

AllocFromGlobal(c, r) ==
    LET need == Rounded(Need(r))
        b == FirstFit(free, need)
    IN  /\ Cached(c, need) = {} /\ Fits(free, need) # {}
        /\ free' = Carved(free, b, need)
        /\ used' = used \cup {Finish(b.addr, Kept(b, need), r)}
        /\ UNCHANGED cached

\* dealloc on CPU c, whichever CPU allocated: a block of exactly a class goes
\* to this CPU's cache while there is room, any other to the list.
Dealloc(c, u) ==
    /\ used' = used \ {u}
    /\ IF u.size \in Classes /\ Cardinality(Cached(c, u.size)) < CacheCap
       THEN cached' = cached \cup {[cpu |-> c, addr |-> u.addr, size |-> u.size]} /\ UNCHANGED free
       ELSE free' = InsertNolock(free, u.addr, u.size) /\ UNCHANGED cached

HeapNext ==
    \/ \E c \in HeapCpus, r \in HeapRequests : AllocFromCache(c, r)
    \/ \E c \in HeapCpus, r \in HeapRequests : AllocFromGlobal(c, r)
    \/ \E c \in HeapCpus, u \in used : Dealloc(c, u)

HeapSpec == HeapInit /\ [][HeapNext]_heapVars

-----------------------------------------------------------------------------
(* Properties.                                                             *)

\* The values of the variables; a cache holds only blocks of its class and at
\* most CACHE_CAP of them.
HeapTypeOK ==
    /\ free \subseteq [addr : Nat, size : Nat]
    /\ cached \subseteq [cpu : HeapCpus, addr : Nat, size : Classes]
    /\ used \subseteq [addr : Nat, size : Nat, user : Nat, len : Nat, align : Nat]
    /\ \A c \in HeapCpus, k \in Classes : Cardinality(Cached(c, k)) <= CacheCap

\* No word of the heap belongs to two blocks: what alloc hands out overlaps
\* no other block handed out, no cached block and no node of the list,
\* through splitting, joining and frees on other CPUs.
Disjoint ==
    /\ Separate(free \cup used)
    /\ Separate(cached)
    /\ \A b \in cached, x \in free \cup used : Words(b) \cap Words(x) = {}

\* No word of the heap is lost: each is in a node, a cache or a block handed
\* out, so take_raw keeps what is too short for a node and dealloc gives it
\* back.
NothingLost ==
    UNION {Words(b) : b \in free \cup cached \cup used} = HeapStart .. (HeapStart + HeapSize - 1)

\* The list is fully joined (insert_nolock): once nothing is handed out or
\* cached it is the whole heap again, whatever the order of the frees.
Rejoined == (used = {} /\ cached = {}) => free = {Block(HeapStart, HeapSize)}

\* The blocks tile the heap: within the cache limits, without overlap, without
\* a lost word, and each with its header and payload inside; the free ones
\* join up again.
HeapInv ==
    /\ HeapTypeOK
    /\ Disjoint
    /\ NothingLost
    /\ \A u \in used : PayloadIn(u)
    /\ Rejoined
=============================================================================
