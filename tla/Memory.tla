------------------------------- MODULE Memory -------------------------------
(***************************************************************************)
(* Physical frames and who may reach them: the frame bitmap of             *)
(* memory/pmm.rs, shared memory (memory/shm.rs), the user heap and its     *)
(* out-of-memory killer (syscall/runtime.rs), a program's image            *)
(* (task/exec.rs), the user page tables (memory/vmm.rs), and the release   *)
(* of all of it when a process exits (task/process.rs).                    *)
(*                                                                         *)
(* One action is one section under the lock it names (the PMM's, the       *)
(* SHM's, the heap's or THREADS_LOCK).  A process makes its calls from one *)
(* thread; it may have a second one, which only runs in user mode on a CPU *)
(* of its own.  Sizes are in pages and addresses are page numbers.         *)
(***************************************************************************)
EXTENDS Integers, FiniteSets, Sequences, FiniteSetsExt

CONSTANTS
    MaxPid,       \* processes ever created
    NumFrames,    \* total_frames
    CodePages,    \* frames of a program's code
    StackPages,   \* frames of its stack
    ShmLimit,     \* pages between USER_SHM_BASE and USER_SHM_LIMIT
    MaxShm,       \* bound on SHM objects ever created
    HeapLimit,    \* bound on heap pages ever reserved
    MaxPages,     \* bound on the size of one request
    MaxLeaked,    \* bound on the frames lost to programs that fail to load
    Placements    \* the ways the processes may be spread over the CPUs

Pids == 1..MaxPid
Frames == 0..NumFrames - 1
ShmIds == 1..MaxShm
ShmPages == 1..ShmLimit
HeapPages == ShmLimit + 1..ShmLimit + HeapLimit
Cores == {"own", "sibling"}

ASSUME MemoryAssumption ==
    /\ MaxPid \in Nat /\ NumFrames \in Nat \ {0}
    /\ CodePages \in Nat \ {0} /\ StackPages \in Nat \ {0}
    /\ ShmLimit \in Nat /\ MaxShm \in Nat /\ HeapLimit \in Nat /\ MaxPages \in Nat
    /\ MaxLeaked \in Nat
    /\ \A placement \in Placements : DOMAIN placement = Pids

VARIABLES
    bitmap,     \* the frames whose bit is set
    nextFrame,  \* next_frame
    objects,    \* OBJECTS, by id
    nextId,     \* NEXT_ID
    heap,       \* HEAP_ALLOCS
    vaBump,     \* HEAP_VA_BUMP
    image,      \* IMAGE_ALLOCS: the frames of each process's image
    leaked,     \* the frames of programs that could not be loaded
    pt,         \* the user page table of each process
    tlb,        \* the SHM translations each core running the process may hold
    mem,        \* Process.memory_bytes
    assigned_cpu,  \* the CPU each process runs on
    life,       \* "new", "loading" (its code is in memory), "live", "dead"
    sib,        \* the process has a second live thread
    killed,     \* kill_pending
    lock,       \* the process that holds THREADS_LOCK across steps, or 0
    pc,         \* where each process is: "user" or inside a call
    loc         \* the locals of its call

frameVars == <<bitmap, nextFrame>>
shmVars == <<objects, nextId>>
allocVars == <<heap, vaBump>>
procVars == <<life, sib, killed>>
vars == <<bitmap, nextFrame, objects, nextId, heap, vaBump, image, leaked, pt, tlb, mem, assigned_cpu,
          life, sib, killed, lock, pc, loc>>

Shm(p, fs) == [owner |-> p, frames |-> fs, holders |-> {p}, mappings |-> [q \in Pids |-> 0]]
NoShm == [Shm(0, <<>>) EXCEPT !.holders = {}]

\* The locals: an SHM id, frames in hand, a page, the pages left and done,
\* what to subtract from memory_bytes at the end, and where to go then.
NoCall == [id |-> 0, frames |-> <<>>, virt |-> 0, n |-> 0, done |-> 0, sub |-> 0, back |-> "user"]

Init ==
    /\ bitmap = {} /\ nextFrame = 0
    /\ objects = [i \in ShmIds |-> NoShm] /\ nextId = 1
    /\ heap = {} /\ vaBump = ShmLimit + 1
    /\ image = [p \in Pids |-> {}] /\ leaked = {}
    /\ pt = [p \in Pids |-> [v \in ShmPages \cup HeapPages |-> -1]]
    /\ tlb = [p \in Pids |-> [k \in Cores |-> {}]]
    /\ mem = [p \in Pids |-> 0]
    /\ assigned_cpu \in Placements
    /\ life = [p \in Pids |-> "new"]
    /\ sib = [p \in Pids |-> FALSE]
    /\ killed = [p \in Pids |-> FALSE]
    /\ lock = 0
    /\ pc = [p \in Pids |-> "user"]
    /\ loc = [p \in Pids |-> NoCall]

-----------------------------------------------------------------------------
(* The frame allocator: each operator is one section under the PMM's lock  *)

\* alloc_frame: the first clear bit from next_frame on, cyclically.
NextFit ==
    CHOOSE f \in Frames \ bitmap : \A g \in Frames \ bitmap :
        (f - nextFrame) % NumFrames <= (g - nextFrame) % NumFrames
HasFrame == bitmap # Frames
AllocFrame ==
    /\ bitmap' = bitmap \cup {NextFit}
    /\ nextFrame' = (NextFit + 1) % NumFrames

\* alloc_frames: the starts of the free runs of n frames; the search stops
\* one short of the last start that fits.
Runs(n) == {s \in 0..NumFrames - n - 1 : (s..s + n - 1) \cap bitmap = {}}

FreeFrame(f) == bitmap' = bitmap \ {f} /\ UNCHANGED nextFrame

-----------------------------------------------------------------------------
(* Entering and leaving a call                                             *)

\* A process that shares its CPU runs only while the others are in user
\* mode: a system call runs with interrupts off.
OnCpu(p) == \A q \in Pids \ {p} : assigned_cpu[q] = assigned_cpu[p] => pc[q] = "user"

InUser(p) == life[p] = "live" /\ pc[p] = "user" /\ OnCpu(p)
Enters(p) == InUser(p) /\ ~killed[p]

Goto(p, place, l) ==
    /\ pc' = [pc EXCEPT ![p] = place]
    /\ loc' = [loc EXCEPT ![p] = l]
Return(p) == Goto(p, "user", NoCall)

Unlocked == lock = 0

\* create_process_space: alloc_page_range for the code, then for the stack.
Stretch(n) == Min(Runs(n))..Min(Runs(n)) + n - 1

TakeFrames(n) ==
    /\ Runs(n) # {}
    /\ bitmap' = bitmap \cup Stretch(n)
    /\ nextFrame' = (Min(Runs(n)) + n) % NumFrames

LoadCode(p) ==
    /\ life[p] = "new"
    /\ \A q \in Pids : q < p => life[q] # "new"
    /\ TakeFrames(CodePages)
    /\ image' = [image EXCEPT ![p] = Stretch(CodePages)]
    /\ life' = [life EXCEPT ![p] = "loading"]
    /\ UNCHANGED <<shmVars, allocVars, leaked, pt, tlb, mem, sib, killed, lock, pc, loc, assigned_cpu>>

\* With its stack the process starts; set_memory_bytes counts the image.
LoadStack(p) ==
    /\ life[p] = "loading"
    /\ TakeFrames(StackPages)
    /\ Unlocked
    /\ image' = [image EXCEPT ![p] = @ \cup Stretch(StackPages)]
    /\ mem' = [mem EXCEPT ![p] = CodePages + StackPages]
    /\ life' = [life EXCEPT ![p] = "live"]
    /\ UNCHANGED <<shmVars, allocVars, leaked, pt, tlb, sib, killed, lock, pc, loc, assigned_cpu>>

\* The other returns: map_range finds no page table for the code, there is no
\* stack, or no page table for the stack.  None gives back what was allocated.
LoadFails(p) ==
    /\ life[p] = "loading"
    /\ Cardinality(leaked) + CodePages + StackPages <= MaxLeaked
    /\ \/ /\ leaked' = leaked \cup image[p]
          /\ UNCHANGED frameVars
       \/ /\ TakeFrames(StackPages)
          /\ leaked' = leaked \cup image[p] \cup Stretch(StackPages)
    /\ image' = [image EXCEPT ![p] = {}]
    /\ life' = [life EXCEPT ![p] = "new"]
    /\ UNCHANGED <<shmVars, allocVars, pt, tlb, mem, sib, killed, lock, pc, loc, assigned_cpu>>

\* The translations of p's SHM pages, as a fresh or flushed core may load them.
ShmTranslations(p) == {<<v, pt[p][v]>> : v \in {w \in ShmPages : pt[p][w] # -1}}

SpawnSibling(p) ==
    /\ Enters(p)
    /\ Unlocked
    /\ ~sib[p]
    /\ sib' = [sib EXCEPT ![p] = TRUE]
    /\ tlb' = [tlb EXCEPT ![p]["sibling"] = ShmTranslations(p)]
    /\ UNCHANGED <<frameVars, shmVars, allocVars, image, leaked, pt, mem, life, killed, lock, pc, loc, assigned_cpu>>

\* The second thread exits; its CPU leaves the address space.
ExitSibling(p) ==
    /\ sib[p]
    /\ Unlocked
    /\ sib' = [sib EXCEPT ![p] = FALSE]
    /\ tlb' = [tlb EXCEPT ![p]["sibling"] = {}]
    /\ UNCHANGED <<frameVars, shmVars, allocVars, image, leaked, pt, mem, life, killed, lock, pc, loc, assigned_cpu>>

-----------------------------------------------------------------------------
(* Shared memory                                                           *)

\* create: take an id; collect and zero the frames; publish the object.
ShmCreate(p) ==
    /\ Enters(p)
    /\ nextId <= MaxShm
    /\ nextId' = nextId + 1
    /\ \E n \in 1..MaxPages : Goto(p, "create", [NoCall EXCEPT !.id = nextId, !.n = n])
    /\ UNCHANGED <<frameVars, objects, allocVars, image, leaked, pt, tlb, mem, procVars, lock, assigned_cpu>>

ShmCreateFrame(p) ==
    /\ pc[p] = "create"
    /\ loc[p].n > 0
    /\ HasFrame
    /\ AllocFrame
    /\ Goto(p, "create", [loc[p] EXCEPT !.n = @ - 1, !.frames = Append(@, NextFit)])
    /\ UNCHANGED <<shmVars, allocVars, image, leaked, pt, tlb, mem, procVars, lock, assigned_cpu>>

ShmCreateLeaks(p) ==
    /\ pc[p] = "create"
    /\ loc[p].n > 0
    /\ ~HasFrame
    /\ Return(p)
    /\ UNCHANGED <<frameVars, shmVars, allocVars, image, leaked, pt, tlb, mem, procVars, lock, assigned_cpu>>

ShmCreateFails(p) ==
    /\ pc[p] = "create"
    /\ loc[p].n > 0
    /\ ~HasFrame
    /\ Goto(p, "drop", loc[p])
    /\ UNCHANGED <<frameVars, shmVars, allocVars, image, leaked, pt, tlb, mem, procVars, lock, assigned_cpu>>

ShmCreatePublish(p) ==
    /\ pc[p] = "create"
    /\ loc[p].n = 0
    /\ objects' = [objects EXCEPT ![loc[p].id] = Shm(p, loc[p].frames)]
    /\ Return(p)
    /\ UNCHANGED <<frameVars, nextId, allocVars, image, leaked, pt, tlb, mem, procVars, lock, assigned_cpu>>

\* free_frame on the frames in hand, one at a time; close and cleanup_pid
\* still hold THREADS_LOCK.
DropFrame(p) ==
    /\ pc[p] = "drop"
    /\ loc[p].frames # <<>>
    /\ FreeFrame(Head(loc[p].frames))
    /\ loc' = [loc EXCEPT ![p].frames = Tail(@)]
    /\ UNCHANGED <<shmVars, allocVars, image, leaked, pt, tlb, mem, procVars, lock, pc, assigned_cpu>>

DropDone(p) ==
    /\ pc[p] = "drop"
    /\ loc[p].frames = <<>>
    /\ Goto(p, loc[p].back, NoCall)
    /\ lock' = IF lock = p /\ loc[p].back = "user" THEN 0 ELSE lock
    /\ UNCHANGED <<frameVars, shmVars, allocVars, image, leaked, pt, tlb, mem, procVars, assigned_cpu>>

\* grant: the owner, still a holder, adds a live process.
ShmGrant(p, i, q) ==
    /\ Enters(p)
    /\ Unlocked
    /\ life[q] = "live"
    /\ objects[i].owner = p /\ p \in objects[i].holders
    /\ objects' = [objects EXCEPT ![i].holders = @ \cup {q}]
    /\ UNCHANGED <<frameVars, nextId, allocVars, image, leaked, pt, tlb, mem, procVars, lock, pc, loc, assigned_cpu>>

Size(i) == Len(objects[i].frames)

\* find_free_range: the lowest run of unmapped pages that fits.
FreeRanges(p, n) ==
    {v \in ShmPages : v + n - 1 <= ShmLimit /\ \A w \in v..v + n - 1 : pt[p][w] = -1}

\* map, for a holder that has no mapping yet (one that has gets the same
\* address again).  A failed map_page is rolled back and changes nothing.
ShmMap(p, i) ==
    LET n == Size(i)
        v == Min(FreeRanges(p, n))
        new == [w \in v..v + n - 1 |-> objects[i].frames[w - v + 1]]
    IN  /\ Enters(p)
        /\ p \in objects[i].holders
        /\ objects[i].mappings[p] = 0
        /\ FreeRanges(p, n) # {}
        /\ pt' = [pt EXCEPT ![p] = [w \in DOMAIN @ |-> IF w \in DOMAIN new THEN new[w] ELSE @[w]]]
        /\ tlb' = [tlb EXCEPT ![p] = [k \in Cores |->
                      IF k = "sibling" /\ ~sib[p] THEN {}
                      ELSE @[k] \cup {<<w, new[w]>> : w \in DOMAIN new}]]
        /\ objects' = [objects EXCEPT ![i].mappings[p] = v]
        /\ Goto(p, "account", [NoCall EXCEPT !.n = n])
        /\ UNCHANGED <<frameVars, nextId, allocVars, image, leaked, mem, procVars, lock, assigned_cpu>>

\* add_memory_bytes, after map or heap_alloc.
Account(p) ==
    /\ pc[p] = "account"
    /\ Unlocked
    /\ mem' = [mem EXCEPT ![p] = @ + loc[p].n]
    /\ Return(p)
    /\ UNCHANGED <<frameVars, shmVars, allocVars, image, leaked, pt, tlb, procVars, lock, assigned_cpu>>

\* The pages of p's mapping of object i.
MappedPages(p, i) ==
    IF objects[i].mappings[p] = 0 THEN {}
    ELSE objects[i].mappings[p]..objects[i].mappings[p] + Size(i) - 1

UnmapLazily(p, I) ==
    LET V == UNION {MappedPages(p, i) : i \in I} IN
    pt' = [pt EXCEPT ![p] = [v \in DOMAIN @ |-> IF v \in V THEN -1 ELSE @[v]]] /\ UNCHANGED tlb

\* unmap_holder on the objects of I: clear the entries, and reload CR3 on
\* this core only.
UnmapHolder(p, I) ==
    LET V == UNION {MappedPages(p, i) : i \in I} IN
    /\ pt' = [pt EXCEPT ![p] = [v \in DOMAIN @ |-> IF v \in V THEN -1 ELSE @[v]]]
    /\ tlb' = [tlb EXCEPT ![p]["own"] = {e \in @ : e[1] \notin V}]

\* sub_memory_bytes saturates.
Sub(a, b) == IF b > a THEN 0 ELSE a - b

\* unmap: refused while the process has another live thread.
ShmUnmap(p, i) ==
    /\ Enters(p)
    /\ Unlocked
    /\ ~sib[p]
    /\ objects[i].mappings[p] # 0
    /\ UnmapHolder(p, {i})
    /\ objects' = [objects EXCEPT ![i].mappings[p] = 0]
    /\ mem' = [mem EXCEPT ![p] = Sub(@, Size(i))]
    /\ UNCHANGED <<frameVars, nextId, allocVars, image, leaked, procVars, lock, pc, loc, assigned_cpu>>

\* What is left of object i without holder p, and the frames it gives up.
Without(p, i) == [objects[i] EXCEPT !.mappings[p] = 0, !.holders = @ \ {p}]
GivenUp(p, i) == IF objects[i].holders = {p} THEN objects[i].frames ELSE <<>>

\* close: unmap, drop the reference, and free the frames after the last one.
ShmClose(p, i) ==
    /\ Enters(p)
    /\ Unlocked
    /\ ~sib[p]
    /\ p \in objects[i].holders
    /\ UnmapHolder(p, {i})
    /\ mem' = [mem EXCEPT ![p] = Sub(@, Cardinality(MappedPages(p, i)))]
    /\ objects' = [objects EXCEPT ![i] = IF objects[i].holders = {p} THEN NoShm ELSE Without(p, i)]
    /\ lock' = p
    /\ Goto(p, "drop", [NoCall EXCEPT !.frames = GivenUp(p, i)])
    /\ UNCHANGED <<frameVars, nextId, allocVars, image, leaked, procVars, assigned_cpu>>

-----------------------------------------------------------------------------
(* The user heap                                                           *)

\* sys_heap_alloc: reserve a range; map it page by page; publish the entry.
HeapAlloc(p) ==
    /\ Enters(p)
    /\ \E n \in 1..MaxPages :
          /\ vaBump + n - 1 \in HeapPages
          /\ vaBump' = vaBump + n
          /\ Goto(p, "heap", [NoCall EXCEPT !.virt = vaBump, !.n = n])
    /\ UNCHANGED <<frameVars, shmVars, heap, image, leaked, pt, tlb, mem, procVars, lock, assigned_cpu>>

HeapPage(p) ==
    /\ pc[p] = "heap"
    /\ loc[p].n > 0
    /\ HasFrame
    /\ AllocFrame
    /\ pt' = [pt EXCEPT ![p][loc[p].virt + loc[p].done] = NextFit]
    /\ Goto(p, "heap", [loc[p] EXCEPT !.n = @ - 1, !.done = @ + 1])
    /\ UNCHANGED <<shmVars, allocVars, image, leaked, tlb, mem, procVars, lock, assigned_cpu>>

\* Give up: free_user_pages on the pages mapped so far.
RollBack(p) == Goto(p, "free", [NoCall EXCEPT !.virt = loc[p].virt, !.n = loc[p].done])

\* map_page fails for want of a page table: the frame goes straight back.
HeapMapFails(p) ==
    /\ pc[p] = "heap"
    /\ loc[p].n > 0
    /\ HasFrame
    /\ nextFrame' = (NextFit + 1) % NumFrames
    /\ RollBack(p)
    /\ UNCHANGED <<bitmap, shmVars, allocVars, image, leaked, pt, tlb, mem, procVars, lock, assigned_cpu>>

\* oom_victim: a process with the largest memory_bytes, the first one in
\* PROCESSES, whose order swap_remove shuffles.
Live == {q \in Pids : life[q] = "live"}
OomVictims == {v \in Live : \A q \in Live : mem[q] <= mem[v]}


\* Out of frames: flag the victim and try again, unless it is the caller.
OomKill(p) ==
    /\ pc[p] = "heap"
    /\ loc[p].n > 0
    /\ ~HasFrame
    /\ Unlocked
    /\ \E v \in OomVictims :
          \/ /\ v # p
             /\ killed' = [killed EXCEPT ![v] = TRUE]
             /\ UNCHANGED <<pc, loc>>
          \/ /\ v = p
             /\ RollBack(p)
             /\ UNCHANGED killed
    /\ UNCHANGED <<frameVars, shmVars, allocVars, image, leaked, pt, tlb, mem, life, sib, lock, assigned_cpu>>

HeapPublish(p) ==
    /\ pc[p] = "heap"
    /\ loc[p].n = 0
    /\ heap' = heap \cup {[pid |-> p, virt |-> loc[p].virt, size |-> loc[p].done]}
    /\ Goto(p, "account", [NoCall EXCEPT !.n = loc[p].done])
    /\ UNCHANGED <<frameVars, shmVars, vaBump, image, leaked, pt, tlb, mem, procVars, lock, assigned_cpu>>

\* sys_heap_free: take the entry out, then free its pages.
HeapFree(p) ==
    /\ Enters(p)
    /\ \E a \in heap :
          /\ a.pid = p
          /\ heap' = heap \ {a}
          /\ Goto(p, "free", [NoCall EXCEPT !.virt = a.virt, !.n = a.size, !.sub = a.size])
    /\ UNCHANGED <<frameVars, shmVars, vaBump, image, leaked, pt, tlb, mem, procVars, lock, assigned_cpu>>

\* free_user_pages: the frame is free before its entry is cleared.
FreePage(p) ==
    /\ pc[p] = "free"
    /\ loc[p].n > 0
    /\ FreeFrame(pt[p][loc[p].virt])
    /\ Goto(p, "unmap", loc[p])
    /\ UNCHANGED <<shmVars, allocVars, image, leaked, pt, tlb, mem, procVars, lock, assigned_cpu>>

UnmapPage(p) ==
    /\ pc[p] = "unmap"
    /\ pt' = [pt EXCEPT ![p][loc[p].virt] = -1]
    /\ Goto(p, "free", [loc[p] EXCEPT !.virt = @ + 1, !.n = @ - 1])
    /\ UNCHANGED <<frameVars, shmVars, allocVars, image, leaked, tlb, mem, procVars, lock, assigned_cpu>>

FreeDone(p) ==
    /\ pc[p] = "free"
    /\ loc[p].n = 0
    /\ lock \in {0, p}
    /\ mem' = [mem EXCEPT ![p] = Sub(@, loc[p].sub)]
    /\ Goto(p, loc[p].back, NoCall)
    /\ UNCHANGED <<frameVars, shmVars, allocVars, image, leaked, pt, tlb, procVars, lock, assigned_cpu>>

-----------------------------------------------------------------------------
(* Exit: exit_current holds THREADS_LOCK throughout                        *)

\* The last thread exits, by its own call or because it was flagged.
Exit(p) ==
    /\ InUser(p)
    /\ Unlocked
    /\ ~sib[p]
    /\ lock' = p
    /\ Goto(p, "exit", NoCall)
    /\ UNCHANGED <<frameVars, shmVars, allocVars, image, leaked, pt, tlb, mem, procVars, assigned_cpu>>

\* free_heap_for_pid takes the entries out one at a time.
ExitHeap(p) ==
    /\ pc[p] = "exit"
    /\ \E a \in heap :
          /\ a.pid = p
          /\ heap' = heap \ {a}
          /\ Goto(p, "free", [NoCall EXCEPT !.virt = a.virt, !.n = a.size, !.back = "exit"])
    /\ UNCHANGED <<frameVars, shmVars, vaBump, image, leaked, pt, tlb, mem, procVars, lock, assigned_cpu>>

\* The frames of several objects, listed one after the other.
InSomeOrder(S) == CHOOSE s \in [1..Cardinality(S) -> S] : IsInjective(s)

Held(p) == {i \in ShmIds : p \in objects[i].holders}

\* shm::cleanup_pid.
CleanupPid(p) ==
    /\ pc[p] = "exit"
    /\ \A a \in heap : a.pid # p
    /\ UnmapHolder(p, Held(p))
    /\ objects' = [i \in ShmIds |-> IF objects[i].holders = {p} THEN NoShm ELSE Without(p, i)]
    /\ mem' = [mem EXCEPT ![p] = Sub(@, Cardinality(UNION {MappedPages(p, i) : i \in Held(p)}))]
    /\ Goto(p, "drop", [NoCall EXCEPT !.frames = InSomeOrder(UNION {Range(GivenUp(p, i)) : i \in Held(p)}),
                                       !.back = "exit2"])
    /\ UNCHANGED <<frameVars, nextId, allocVars, image, leaked, procVars, lock, assigned_cpu>>

\* free_user_address_space, free_image_for_pid, remove_process.
RemoveProcess(p) ==
    /\ pc[p] = "exit2"
    /\ pt' = [pt EXCEPT ![p] = [v \in DOMAIN @ |-> -1]]
    /\ tlb' = [tlb EXCEPT ![p] = [k \in Cores |-> {}]]
    /\ bitmap' = bitmap \ image[p]
    /\ image' = [image EXCEPT ![p] = {}]
    /\ life' = [life EXCEPT ![p] = "dead"]
    /\ lock' = 0
    /\ Return(p)
    /\ UNCHANGED <<nextFrame, shmVars, allocVars, leaked, mem, sib, killed, assigned_cpu>>

-----------------------------------------------------------------------------

Calls(p) ==
    \/ ShmCreate(p) \/ HeapAlloc(p) \/ HeapFree(p)
    \/ \E i \in ShmIds : ShmMap(p, i) \/ ShmUnmap(p, i) \/ ShmClose(p, i)
    \/ \E i \in ShmIds, q \in Pids : ShmGrant(p, i, q)

\* The steps that continue a call.
Continue(p) ==
    \/ ShmCreateFrame(p) \/ ShmCreateFails(p) \/ ShmCreatePublish(p)
    \/ DropFrame(p) \/ DropDone(p) \/ Account(p)
    \/ HeapPage(p) \/ HeapMapFails(p) \/ OomKill(p) \/ HeapPublish(p)
    \/ FreePage(p) \/ UnmapPage(p) \/ FreeDone(p)
    \/ ExitHeap(p) \/ CleanupPid(p) \/ RemoveProcess(p)

Next ==
    \E p \in Pids :
        LoadCode(p) \/ LoadStack(p) \/ LoadFails(p) \/ SpawnSibling(p) \/ ExitSibling(p)
        \/ Calls(p) \/ Continue(p) \/ Exit(p)

\* A CPU goes on with the call it is in; a flagged process is scheduled when
\* its CPU is free, and each of its threads reaps itself.
Fairness ==
    \A p \in Pids :
        /\ WF_vars(Continue(p))
        /\ WF_vars(killed[p] /\ Exit(p))
        /\ WF_vars(killed[p] /\ ExitSibling(p))

Spec == Init /\ [][Next]_vars /\ Fairness

-----------------------------------------------------------------------------
(* Properties                                                              *)

TypeOK ==
    /\ bitmap \subseteq Frames /\ nextFrame \in Frames
    /\ objects \in [ShmIds -> [owner : {0} \cup Pids, frames : Seq(Frames), holders : SUBSET Pids,
                               mappings : [Pids -> {0} \cup ShmPages]]]
    /\ nextId \in 1..MaxShm + 1
    /\ heap \subseteq [pid : Pids, virt : HeapPages, size : 1..MaxPages]
    /\ vaBump \in ShmLimit + 1..ShmLimit + HeapLimit + 1
    /\ image \in [Pids -> SUBSET Frames] /\ leaked \subseteq Frames
    /\ pt \in [Pids -> [ShmPages \cup HeapPages -> {-1} \cup Frames]]
    /\ \A p \in Pids, k \in Cores : tlb[p][k] \subseteq ShmPages \X Frames
    /\ mem \in [Pids -> Nat]
    /\ life \in [Pids -> {"new", "loading", "live", "dead"}]
    /\ sib \in [Pids -> BOOLEAN] /\ killed \in [Pids -> BOOLEAN]
    /\ lock \in {0} \cup Pids /\ assigned_cpu \in Placements
    /\ pc \in [Pids -> {"user", "create", "drop", "account", "heap", "free", "unmap", "exit", "exit2"}]

\* The claims on frames: an object's frames, the frames a call has in hand,
\* a heap page's frame (until free_user_pages frees it), an image's; and the
\* frames that create_process_space forgets when it fails.
ShmClaims(i) == {<<"shm", i, k, objects[i].frames[k]>> : k \in DOMAIN objects[i].frames}
HandClaims(p) == {<<"hand", p, k, loc[p].frames[k]>> : k \in DOMAIN loc[p].frames}
HeapClaims(p) == {<<"heap", p, v, pt[p][v]>> : v \in
                     {w \in HeapPages : pt[p][w] # -1 /\ ~(pc[p] = "unmap" /\ w = loc[p].virt)}}
ImageClaims(p) == {<<"image", p, 0, f>> : f \in image[p]}
Claims ==
    (UNION {ShmClaims(i) : i \in ShmIds}) \cup
    (UNION {HandClaims(p) \cup HeapClaims(p) \cup ImageClaims(p) : p \in Pids}) \cup
    {<<"leaked", 0, 0, f>> : f \in leaked}

\* No frame is lost or handed out twice: every frame the bitmap marks used
\* has exactly one claim and no free frame has any, in the middle of every
\* create, failed create, close, free, roll back, out-of-memory kill and
\* exit.
FramesAccounted ==
    /\ {c[4] : c \in Claims} = bitmap
    /\ Cardinality(Claims) = Cardinality(bitmap)

\* shm.rs unmaps on the calling core only, and only without sibling threads.
\* Whatever a core of a process may have cached of the SHM range, and
\* whatever its page table holds there, belongs to an object of which it is
\* a holder: no process reaches a shared frame it gave up, or one that was
\* freed and handed to somebody else.
ShmIsolation ==
    \A p \in Pids :
        \A e \in ShmTranslations(p) \cup tlb[p]["own"] \cup tlb[p]["sibling"] :
            \E i \in ShmIds :
                /\ p \in objects[i].holders
                /\ e[1] \in MappedPages(p, i)
                /\ e[2] = objects[i].frames[e[1] - objects[i].mappings[p] + 1]

\* grant and exit_current hold THREADS_LOCK, so that no grant reaches a
\* process after its clean-up: every holder is alive, and an object with
\* frames has a holder.
HoldersAlive ==
    \A i \in ShmIds :
        /\ objects[i].holders \subseteq Live
        /\ Size(i) > 0 => objects[i].holders # {}

\* memory_bytes, by which the out-of-memory killer chooses, counts the image,
\* heap and shared pages of a process whenever it is in user mode.
MemoryExact ==
    \A p \in Live : pc[p] = "user" =>
        mem[p] = Cardinality(image[p]) + Cardinality({v \in DOMAIN pt[p] : pt[p][v] # -1})

\* The process that sys_heap_alloc waits for has this CPU to exit on.
VictimShut(p) ==
    /\ pc[p] = "heap" /\ ~HasFrame
    /\ \E v \in Live \ {p} : killed[v] /\ assigned_cpu[v] = assigned_cpu[p]


\* The books of physical memory balance: the bitmap, the page tables, the
\* shared objects and the per-process counts tell the same story.
MemoryInv ==
    /\ TypeOK
    /\ FramesAccounted
    /\ HoldersAlive
    /\ MemoryExact

=============================================================================
