------------------------------ MODULE UserHeap ------------------------------
(***************************************************************************)
(* The allocator every program is linked with (runtime.rs): a free list    *)
(* fed by arenas that SYS_HEAP_ALLOC maps and SYS_HEAP_FREE takes back.    *)
(* alloc and dealloc run under the spinlock of the heap, system calls      *)
(* included, so each is one step whatever the number of threads.           *)
(*                                                                         *)
(* The kernel hands out heap addresses from one bump pointer for all       *)
(* processes: two arenas of a program are adjacent unless another process  *)
(* reserved a range in between.                                            *)
(***************************************************************************)
EXTENDS FreeList, FiniteSets

CONSTANTS
    PageWords,      \* words of a page
    ArenaSize,      \* ARENA_SIZE
    MaxArenas,      \* MAX_ARENAS
    HeapVaBase,     \* HEAP_VA_BASE
    HeapVaEnd,      \* bound on the addresses handed out
    UserRequests    \* the layouts asked for: [size, align] in words

ASSUME UserHeapAssumption ==
    /\ PageWords \in Nat \ {0} /\ ArenaSize \in Nat \ {0} /\ MaxArenas \in Nat
    /\ HeapVaBase \in Nat \ {0} /\ HeapVaEnd \in Nat /\ HeapVaBase <= HeapVaEnd
    /\ UserRequests \subseteq [size : Nat, align : Nat \ {0}]

VARIABLES
    nodes,      \* Heap.head, the free list
    blocks,     \* what the program holds
    arenas,     \* Heap.arenas: the slots in use
    mapped,     \* HEAP_ALLOCS of this process
    bump        \* HEAP_VA_BUMP

userHeapVars == <<nodes, blocks, arenas, mapped, bump>>

UserHeapInit ==
    /\ nodes = {} /\ blocks = {} /\ arenas = {} /\ mapped = {}
    /\ bump = HeapVaBase

-----------------------------------------------------------------------------
\* What grow asks the kernel for
Want(need) == AlignUp(IF need > ArenaSize THEN need ELSE ArenaSize, PageWords)

\* take from the list F
Take(F, r) ==
    LET b == FirstFit(F, Need(r))
    IN  /\ nodes' = Carved(F, b, Need(r))
        /\ blocks' = blocks \cup {Finish(b.addr, Kept(b, Need(r)), r)}

\* alloc, when a node is large enough
UserAlloc(r) ==
    /\ Fits(nodes, Need(r)) # {}
    /\ Take(nodes, r)
    /\ UNCHANGED <<arenas, mapped, bump>>

\* sys_heap_alloc reserves addresses for good, before it looks for frames.
Reserve(size) ==
    /\ bump + size <= HeapVaEnd
    /\ bump' = bump + size

\* alloc through grow.  An arena that finds no slot is used but not recorded.
UserAllocGrow(r) ==
    LET arena == Block(bump, Want(Need(r)))
    IN  /\ Fits(nodes, Need(r)) = {}
        /\ Reserve(arena.size)
        /\ mapped' = mapped \cup {arena}
        /\ arenas' = IF Cardinality(arenas) < MaxArenas THEN arenas \cup {arena} ELSE arenas
        /\ Take(Insert(nodes, arena.addr, arena.size), r)

\* The kernel has no memory: alloc returns null, the addresses are spent.
UserAllocFails(r) ==
    /\ Fits(nodes, Need(r)) = {}
    /\ Reserve(Want(Need(r)))
    /\ UNCHANGED <<nodes, blocks, arenas, mapped>>

FreeArenas(F) == {a \in arenas : \E b \in F : Words(a) \subseteq Words(b)}

\* release_empty_arenas, when the list is F: the recorded arenas that one node
\* covers exactly go back to the kernel.
EmptyArenas(F) == arenas \cap F

\* dealloc
UserDealloc(u) ==
    LET F == Insert(nodes, u.addr, u.size)
        empty == EmptyArenas(F)
    IN  /\ blocks' = blocks \ {u}
        /\ nodes' = F \ empty
        /\ arenas' = arenas \ empty
        /\ mapped' = mapped \ empty
        /\ UNCHANGED bump

\* Another process reserves a range.
OtherReserves ==
    /\ Reserve(PageWords)
    /\ UNCHANGED <<nodes, blocks, arenas, mapped>>

UserHeapNext ==
    \/ \E r \in UserRequests : UserAlloc(r)
    \/ \E r \in UserRequests : UserAllocGrow(r)
    \/ \E r \in UserRequests : UserAllocFails(r)
    \/ \E u \in blocks : UserDealloc(u)
    \/ OtherReserves

UserHeapSpec == UserHeapInit /\ [][UserHeapNext]_userHeapVars

-----------------------------------------------------------------------------
(* Properties.                                                             *)

UserHeapTypeOK ==
    /\ nodes \cup arenas \cup mapped \subseteq [addr : Nat, size : Nat]
    /\ blocks \subseteq [addr : Nat, size : Nat, user : Nat, len : Nat, align : Nat]
    /\ arenas \subseteq mapped
    /\ bump \in HeapVaBase .. HeapVaEnd

Lent == UNION {Words(a) : a \in mapped}

\* The list and the blocks tile the arenas that are mapped: release_empty_arenas
\* never unmaps a word of a block or of a node of the list, though insert joins
\* nodes of adjacent arenas and a block may lie across two of them.
ArenasTiled ==
    /\ Separate(nodes \cup blocks)
    /\ UNION {Words(b) : b \in nodes \cup blocks} = Lent
    /\ \A u \in blocks : PayloadIn(u)

\* Once everything is freed the kernel has every recorded arena back, but for
\* arenas whose free words insert joined to those of an arena next to it.
FootprintReturned ==
    blocks = {} => \A a \in arenas : \E b \in mapped :
        b.addr + b.size = a.addr \/ a.addr + a.size = b.addr

\* What a program may rely on in its allocator, down to the arenas it returns
\* (alloc, dealloc, release_empty_arenas).
UserHeapInv ==
    /\ UserHeapTypeOK
    /\ ArenasTiled
    /\ FootprintReturned
=============================================================================
