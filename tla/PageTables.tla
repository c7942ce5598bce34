----------------------------- MODULE PageTables -----------------------------
(***************************************************************************)
(* The page tables of one process (memory/vmm.rs) under SYS_HEAP_ALLOC and *)
(* SYS_HEAP_FREE (syscall/runtime.rs) called by several of its threads at  *)
(* once, each on a CPU of its own.  HEAP_LOCK covers only the bookkeeping: *)
(* the tables are read and written with no lock, one entry at a time.      *)
(*                                                                         *)
(* Addresses are page numbers, an index into a table is a digit of the     *)
(* page number, and an entry is 0 or the table or frame it points to.      *)
(***************************************************************************)
EXTENDS Integers, FiniteSets

CONSTANTS
    Threads,    \* threads of the process
    Levels,     \* levels of tables, 4 on the machine
    Radix,      \* entries of a table, 512 on the machine
    MaxTables,  \* tables the kernel heap has room for
    Frames,     \* frames of the PMM: 1 .. n
    FirstPage,  \* HEAP_VA_BASE
    PageEnd,    \* bound on the addresses handed out
    Sizes       \* pages asked for in one call

ASSUME PageTablesAssumption ==
    /\ Levels \in Nat \ {0} /\ Radix \in Nat \ {0, 1} /\ MaxTables \in Nat \ {0}
    /\ Frames \subseteq Nat \ {0} /\ FirstPage \in Nat /\ PageEnd \in Nat
    /\ PageEnd <= Radix ^ Levels /\ Sizes \subseteq Nat \ {0}

VARIABLES
    tables,     \* entries of every table; table 1 is the PML4
    made,       \* tables allocated so far
    owner,      \* the page a frame was allocated for, or Free or Other
    vaBump,     \* HEAP_VA_BUMP
    allocs,     \* HEAP_ALLOCS of the process: [virt, pages]
    ptCall,     \* the call each thread is in
    tlb,        \* translations each CPU holds: <<page, frame>>
    clobbered   \* an entry for a table was overwritten with another table

ptVars == <<tables, made, owner, vaBump, allocs, ptCall, tlb, clobbered>>

Pages == FirstPage .. (PageEnd - 1)

Free == -1      \* in the PMM

Other == -2     \* with another process

Indices == 0 .. (Radix - 1)

NoPtCall == [pc |-> "user", virt |-> 0, pages |-> 0, i |-> 0, frame |-> 0, table |-> 1, level |-> 1]

PtInit ==
    /\ tables = [k \in 1 .. MaxTables |-> [x \in Indices |-> 0]]
    /\ made = 1
    /\ owner = [f \in Frames |-> Free]
    /\ vaBump = FirstPage
    /\ allocs = {}
    /\ ptCall = [t \in Threads |-> NoPtCall]
    /\ tlb = [t \in Threads |-> {}]
    /\ clobbered = FALSE

-----------------------------------------------------------------------------
(* Walking the tables.                                                     *)

\* pml4_i, pdpt_i, pd_i, pt_i
Index(page, level) == (page \div Radix ^ (Levels - level)) % Radix

\* The table of each level on the way to a page, 0 where an entry is absent.
Walk(page) ==
    LET w[l \in 1 .. Levels] ==
            IF l = 1 THEN 1
            ELSE IF w[l - 1] = 0 THEN 0 ELSE tables[w[l - 1]][Index(page, l - 1)]
    IN  w

\* translate: the frame, or 0
Translate(page) ==
    LET pt == Walk(page)[Levels]
    IN  IF pt = 0 THEN 0 ELSE tables[pt][Index(page, Levels)]

\* unmap_page
Unmapped(page) ==
    LET pt == Walk(page)[Levels]
    IN  IF pt = 0 THEN tables ELSE [tables EXCEPT ![pt][Index(page, Levels)] = 0]

Page(t) == ptCall[t].virt + ptCall[t].i

TableSlot(t) == Index(Page(t), ptCall[t].level)

\* Thread t is at pc.
At(t, pc) == ptCall[t].pc = pc

Go(t, new) == ptCall' = [ptCall EXCEPT ![t] = new]

-----------------------------------------------------------------------------
(* sys_heap_alloc.                                                         *)

ReserveReusing(t, n) ==
    LET top == IF allocs = {} THEN FirstPage ELSE vaBump
    IN  /\ At(t, "user") /\ top + n <= PageEnd
        /\ vaBump' = top + n
        /\ Go(t, [NoPtCall EXCEPT !.pc = "frame", !.virt = top, !.pages = n])
        /\ UNCHANGED <<tables, made, owner, allocs, tlb, clobbered>>

\* The range is reserved under HEAP_LOCK; addresses are never used again.
ReserveRange(t, n) ==
    /\ At(t, "user") /\ vaBump + n <= PageEnd
    /\ vaBump' = vaBump + n
    /\ Go(t, [NoPtCall EXCEPT !.pc = "frame", !.virt = vaBump, !.pages = n])
    /\ UNCHANGED <<tables, made, owner, allocs, tlb, clobbered>>

\* What rolls back, or frees, the first n pages of the range
Undo(t, n) == [ptCall[t] EXCEPT !.pc = IF n = 0 THEN "user" ELSE "release", !.pages = n, !.i = 0]

\* pmm::alloc_frame.  Without a frame, and with no process left to kill, the
\* call gives up; a victim's frames come back through OtherGives.
AllocFrame(t) ==
    /\ At(t, "frame")
    /\ \/ \E f \in Frames :
            /\ owner[f] = Free
            /\ owner' = [owner EXCEPT ![f] = Page(t)]
            /\ Go(t, [ptCall[t] EXCEPT !.pc = "walk", !.frame = f, !.table = 1, !.level = 1])
       \/ /\ \A f \in Frames : owner[f] # Free
          /\ Go(t, Undo(t, ptCall[t].i))
          /\ UNCHANGED owner
    /\ UNCHANGED <<tables, made, vaBump, allocs, tlb, clobbered>>

\* next_table reads an entry.
NextTableRead(t) ==
    LET entry == tables[ptCall[t].table][TableSlot(t)]
    IN  /\ At(t, "walk") /\ ptCall[t].level < Levels
        /\ IF entry = 0 THEN Go(t, [ptCall[t] EXCEPT !.pc = "table"])
           ELSE Go(t, [ptCall[t] EXCEPT !.table = entry, !.level = @ + 1])
        /\ UNCHANGED <<tables, made, owner, vaBump, allocs, tlb, clobbered>>

\* next_table goes on with a new table, whatever the entry holds by now; if the
\* kernel heap has none left, map_page fails and the call rolls back.
NextTableWrite(t) ==
    /\ At(t, "table")
    /\ \/ /\ made < MaxTables
          /\ made' = made + 1
          /\ clobbered' = (clobbered \/ tables[ptCall[t].table][TableSlot(t)] # 0)
          /\ tables' = [tables EXCEPT ![ptCall[t].table][TableSlot(t)] = made + 1]
          /\ Go(t, [ptCall[t] EXCEPT !.pc = "walk", !.table = made + 1, !.level = @ + 1])
          /\ UNCHANGED owner
       \/ /\ made = MaxTables
          /\ owner' = [owner EXCEPT ![ptCall[t].frame] = Free]
          /\ Go(t, Undo(t, ptCall[t].i))
          /\ UNCHANGED <<tables, made, clobbered>>
    /\ UNCHANGED <<vaBump, allocs, tlb>>

\* map_page writes the page's own entry; after the last page the range is
\* published under HEAP_LOCK.
MapPage(t) ==
    LET last == ptCall[t].i + 1 = ptCall[t].pages
    IN  /\ At(t, "walk") /\ ptCall[t].level = Levels
        /\ tables' = [tables EXCEPT ![ptCall[t].table][TableSlot(t)] = ptCall[t].frame]
        /\ Go(t, [ptCall[t] EXCEPT !.pc = IF last THEN "publish" ELSE "frame", !.i = @ + 1])
        /\ UNCHANGED <<made, owner, vaBump, allocs, tlb, clobbered>>

Publish(t) ==
    /\ At(t, "publish")
    /\ allocs' = allocs \cup {[virt |-> ptCall[t].virt, pages |-> ptCall[t].pages]}
    /\ Go(t, NoPtCall)
    /\ UNCHANGED <<tables, made, owner, vaBump, tlb, clobbered>>

-----------------------------------------------------------------------------
(* sys_heap_free and free_user_pages.                                      *)

\* The bookkeeping entry goes first, under HEAP_LOCK.
HeapFree(t, a) ==
    /\ At(t, "user")
    /\ allocs' = allocs \ {a}
    /\ Go(t, [NoPtCall EXCEPT !.pc = "release", !.virt = a.virt, !.pages = a.pages])
    /\ UNCHANGED <<tables, made, owner, vaBump, tlb, clobbered>>

\* The frame a page translates to goes back to the PMM ...
ReleaseFrame(t) ==
    LET frame == Translate(Page(t))
    IN  /\ At(t, "release")
        /\ owner' = IF frame = 0 THEN owner ELSE [owner EXCEPT ![frame] = Free]
        /\ Go(t, [ptCall[t] EXCEPT !.pc = "unmap"])
        /\ UNCHANGED <<tables, made, vaBump, allocs, tlb, clobbered>>

\* ... before the page is unmapped.  No CPU's TLB is flushed.
UnmapPage(t) ==
    /\ At(t, "unmap")
    /\ tables' = Unmapped(Page(t))
    /\ Go(t, IF ptCall[t].i + 1 = ptCall[t].pages THEN NoPtCall
             ELSE [ptCall[t] EXCEPT !.pc = "release", !.i = @ + 1])
    /\ UNCHANGED <<made, owner, vaBump, allocs, tlb, clobbered>>

-----------------------------------------------------------------------------
(* The hardware and the other processes.                                   *)

\* The CPU of a thread loads the translation of any page that has one.
TlbFill(t, page) ==
    /\ Translate(page) # 0
    /\ tlb' = [tlb EXCEPT ![t] = {e \in @ : e[1] # page} \cup {<<page, Translate(page)>>}]
    /\ UNCHANGED <<tables, made, owner, vaBump, allocs, ptCall, clobbered>>

\* switch_cr3 on the thread's CPU drops them all.
SwitchCr3(t) ==
    /\ tlb[t] # {}
    /\ tlb' = [tlb EXCEPT ![t] = {}]
    /\ UNCHANGED <<tables, made, owner, vaBump, allocs, ptCall, clobbered>>

OtherTakes(f) ==
    /\ owner[f] = Free
    /\ owner' = [owner EXCEPT ![f] = Other]
    /\ UNCHANGED <<tables, made, vaBump, allocs, ptCall, tlb, clobbered>>

OtherGives(f) ==
    /\ owner[f] = Other
    /\ owner' = [owner EXCEPT ![f] = Free]
    /\ UNCHANGED <<tables, made, vaBump, allocs, ptCall, tlb, clobbered>>

PtNext ==
    \/ \E t \in Threads, n \in Sizes : ReserveRange(t, n)
    \/ \E t \in Threads : AllocFrame(t)
    \/ \E t \in Threads : NextTableRead(t)
    \/ \E t \in Threads : NextTableWrite(t)
    \/ \E t \in Threads : MapPage(t)
    \/ \E t \in Threads : Publish(t)
    \/ \E t \in Threads, a \in allocs : HeapFree(t, a)
    \/ \E t \in Threads : ReleaseFrame(t)
    \/ \E t \in Threads : UnmapPage(t)
    \/ \E t \in Threads, page \in Pages : TlbFill(t, page)
    \/ \E t \in Threads : SwitchCr3(t)
    \/ \E f \in Frames : OtherTakes(f)
    \/ \E f \in Frames : OtherGives(f)

PtSpec == PtInit /\ [][PtNext]_ptVars

-----------------------------------------------------------------------------
(* Properties.                                                             *)

PtTypeOK ==
    /\ made \in 1 .. MaxTables
    /\ owner \in [Frames -> Pages \cup {Free, Other}]
    /\ vaBump \in FirstPage .. PageEnd
    /\ allocs \subseteq [virt : Pages, pages : Sizes]
    /\ \A t \in Threads : tlb[t] \subseteq Pages \X Frames

\* Pages of the allocations the program holds
LivePages == UNION {a.virt .. (a.virt + a.pages - 1) : a \in allocs}

\* Pages a thread has mapped or is about to map, or has still to release
BusyPages ==
    UNION {IF ptCall[t].pc \in {"frame", "walk", "table", "publish"}
           THEN ptCall[t].virt .. (Page(t) - (IF At(t, "frame") \/ At(t, "publish") THEN 1 ELSE 0))
           ELSE IF At(t, "release") THEN Page(t) .. (ptCall[t].virt + ptCall[t].pages - 1)
           ELSE IF At(t, "unmap") THEN (Page(t) + 1) .. (ptCall[t].virt + ptCall[t].pages - 1)
           ELSE {} : t \in Threads}

\* A page of an allocation the program holds is never translated, by the tables
\* or by what any CPU still has in its TLB, to a frame other than its own: that
\* free_user_pages frees a frame before it unmaps the page, and flushes nothing,
\* can only show at an address the program has freed, because sys_heap_alloc
\* hands out no address twice.
LivePageExclusive ==
    \A page \in LivePages :
        /\ Translate(page) # 0 => owner[Translate(page)] = page
        /\ \A t \in Threads, f \in Frames : <<page, f>> \in tlb[t] => owner[f] = page

\* The pages sys_heap_alloc returned are mapped, and the frames of the process
\* are those of its pages, so free returns them all - as long as no next_table
\* overwrote the entry another thread's next_table had just written.
MappedUnlessClobbered ==
    ~clobbered =>
        /\ \A page \in LivePages : Translate(page) # 0
        /\ \A f \in Frames : owner[f] \in {Free, Other} \/ owner[f] \in LivePages \cup BusyPages

\* The tables and the TLBs never give a live allocation a wrong frame, and the
\* mapping is complete unless two walks met (next_table, free_user_pages).
PageTablesInv ==
    /\ PtTypeOK
    /\ LivePageExclusive
    /\ MappedUnlessClobbered

\* "each page is a separate frame, mapped into the caller's address space": what
\* SYS_HEAP_ALLOC returned is mapped until it is freed.
HeapPagesMapped == \A page \in LivePages : Translate(page) # 0
=============================================================================
