-------------------------------- MODULE Vfs --------------------------------
(***************************************************************************)
(* The writable root filesystem of fs/vfs.rs: a flat table of slots, each  *)
(* with a generation that is bumped when the slot is reused, so that an    *)
(* open file holding (slot, generation) cannot reach a later file; and the *)
(* file system calls of syscall/runtime.rs that use it.                    *)
(*                                                                         *)
(* An action is one section under FS_LOCK.  A read or write also moves the *)
(* caller's own offset (set_fd), which no other process touches.           *)
(***************************************************************************)
EXTENDS Integers, Sequences, FiniteSets, FiniteSetsExt

CONSTANTS
    Procs,      \* processes, one thread each
    Paths,      \* the valid absolute paths, as sequences of names
    Fds,        \* descriptors of a process (MAX_FD, scaled down)
    Values,     \* what a write stores
    MaxNodes,   \* bound on the table
    GenMod,     \* the generation wraps at 2^32, scaled down
    MaxReuse,   \* bound on the reuses of one slot
    MaxLen,     \* bound on the length of a read or write
    MaxData     \* bound on the length of a file

ASSUME VfsAssumption ==
    /\ MaxNodes \in Nat \ {0} /\ MaxLen \in Nat /\ MaxData \in Nat
    /\ GenMod \in Nat \ {0} /\ MaxReuse \in Nat /\ MaxReuse < GenMod
    /\ Paths \subseteq Seq(STRING) /\ <<>> \in Paths
    /\ \A q \in Paths \ {<<>>} : SubSeq(q, 1, Len(q) - 1) \in Paths
    /\ Values \subseteq Nat /\ Fds \subseteq Nat

Slots == 1..MaxNodes
Root == <<>>

NoNode == [path |-> Root, kind |-> "free", data |-> <<>>]
Node(path, kind) == [path |-> path, kind |-> kind, data |-> <<>>]
Slot(g, n) == [generation |-> g, node |-> n]

\* An open file of the fd table, and the handle vfs::create hands out.
Handle(i, g) == [node |-> i, generation |-> g]
NoHandle == Handle(0, 0)
OpenFile(h, o) == [handle |-> h, offset |-> o]
ClosedFd == OpenFile(NoHandle, 0)

Request(step, path, h) == [step |-> step, path |-> path, handle |-> h]
NoRequest == Request("none", Root, NoHandle)

VARIABLES
    nodes,      \* NODES; the slots beyond size are not there yet
    size,       \* its length
    fds,        \* process, descriptor -> OpenFile
    call,       \* the call each process is in the middle of
    result      \* the bytes returned by the step just taken, if it was a read

vars == <<nodes, size, fds, call, result>>

\* vfs::init, with an empty image: the root directory.
Init ==
    /\ nodes = [i \in Slots |-> Slot(0, IF i = 1 THEN Node(Root, "dir") ELSE NoNode)]
    /\ size = 1
    /\ fds = [p \in Procs |-> [f \in Fds |-> ClosedFd]]
    /\ call = [p \in Procs |-> NoRequest]
    /\ result = <<>>

-----------------------------------------------------------------------------
(* Helpers of fs/vfs.rs                                                    *)

Present(i) == nodes[i].node.kind # "free"
Named(path) == {i \in 1..size : Present(i) /\ nodes[i].node.path = path}

\* find: the first slot with this path, 0 for none.
Find(path) == IF Named(path) = {} THEN 0 ELSE Min(Named(path))

IsKind(i, kind) == i # 0 /\ nodes[i].node.kind = kind

ParentOf(path) == SubSeq(path, 1, Len(path) - 1)
IsChild(dir, path) == path # Root /\ ParentOf(path) = dir

\* live and live_mut: the slot still holds the node the handle was made for.
Live(h) == nodes[h.node].generation = h.generation /\ Present(h.node)

Tombs == {i \in 1..size : ~Present(i)}

MakeSameGeneration(path, kind, i, g) ==
    /\ Find(path) = 0
    /\ IsKind(Find(ParentOf(path)), "dir")
    /\ i = IF Tombs # {} THEN Min(Tombs) ELSE size + 1
    /\ i <= MaxNodes
    /\ g = nodes[i].generation
    /\ nodes' = [nodes EXCEPT ![i] = Slot(g, Node(path, kind))]
    /\ size' = IF i > size THEN i ELSE size

\* make, when it succeeds: the first tombstone is reused with its generation
\* bumped, else a slot is appended.
Make(path, kind, i, g) ==
    /\ Find(path) = 0
    /\ IsKind(Find(ParentOf(path)), "dir")
    /\ i = IF Tombs # {} THEN Min(Tombs) ELSE size + 1
    /\ i <= MaxNodes
    /\ i <= size => nodes[i].generation < MaxReuse
    /\ g = IF i <= size THEN (nodes[i].generation + 1) % GenMod ELSE 0
    /\ nodes' = [nodes EXCEPT ![i] = Slot(g, Node(path, kind))]
    /\ size' = IF i > size THEN i ELSE size

\* read_at: the bytes from offset o on, none past the end or on a stale handle.
ReadAt(h, o, n) ==
    LET d == nodes[h.node].node.data IN
    IF ~Live(h) \/ o >= Len(d) THEN <<>>
    ELSE SubSeq(d, o + 1, o + (IF n < Len(d) - o THEN n ELSE Len(d) - o))

\* Vec::resize, then the copy.
Resized(d, n) == [k \in 1..(IF n > Len(d) THEN n ELSE Len(d)) |-> IF k <= Len(d) THEN d[k] ELSE 0]
Copied(d, o, s) == [k \in DOMAIN d |-> IF k > o /\ k <= o + Len(s) THEN s[k - o] ELSE d[k]]

-----------------------------------------------------------------------------
Idle(p) == call[p] = NoRequest
Goto(p, step, path, h) == call' = [call EXCEPT ![p] = Request(step, path, h)]
Return(p) == call' = [call EXCEPT ![p] = NoRequest]

\* sys_create: vfs::create, and on AlreadyExists (also for "/") a lookup.  Any
\* other error returns.
SysCreate(p) ==
    /\ Idle(p)
    /\ \E path \in Paths :
          \/ /\ path # Root
             /\ \E i \in Slots, g \in 0..(GenMod - 1) : /\ Make(path, "file", i, g)
                                                        /\ Goto(p, "alloc", Root, Handle(i, g))
          \/ /\ Find(path) # 0
             /\ Goto(p, "lookup", path, NoHandle)
             /\ UNCHANGED <<nodes, size>>
    /\ UNCHANGED <<fds>> /\ result' = <<>>

SysCreateLookup(p) ==
    /\ call[p].step = "lookup"
    /\ LET i == Find(call[p].path) IN
       IF IsKind(i, "file") THEN Goto(p, "truncate", Root, Handle(i, nodes[i].generation)) ELSE Return(p)
    /\ UNCHANGED <<nodes, size, fds>> /\ result' = <<>>

\* truncate: nothing if the file has been unlinked meanwhile.
SysCreateTruncate(p) ==
    LET h == call[p].handle IN
    /\ call[p].step = "truncate"
    /\ nodes' = IF Live(h) /\ IsKind(h.node, "file") THEN [nodes EXCEPT ![h.node].node.data = <<>>] ELSE nodes
    /\ Goto(p, "alloc", Root, h)
    /\ UNCHANGED <<size, fds>> /\ result' = <<>>

\* alloc_fd: the lowest free descriptor.  A file created in a call that finds
\* the table full stays, unopened.
AllocFd(p) ==
    LET free == {f \in Fds : fds[p][f] = ClosedFd} IN
    /\ call[p].step = "alloc"
    /\ fds' = IF free = {} THEN fds ELSE [fds EXCEPT ![p][Min(free)] = OpenFile(call[p].handle, 0)]
    /\ Return(p)
    /\ UNCHANGED <<nodes, size>> /\ result' = <<>>

\* sys_open on a file; anything else returns an error.
SysOpen(p) ==
    /\ Idle(p)
    /\ \E path \in Paths :
          LET i == Find(path) IN
          IsKind(i, "file") /\ Goto(p, "alloc", Root, Handle(i, nodes[i].generation))
    /\ UNCHANGED <<nodes, size, fds>> /\ result' = <<>>

SysClose(p) ==
    /\ Idle(p)
    /\ \E f \in Fds : fds' = [fds EXCEPT ![p][f] = ClosedFd]
    /\ UNCHANGED <<nodes, size, call>> /\ result' = <<>>

\* sys_read on a file: read_at, then set_fd moves the offset.
SysRead(p) ==
    /\ Idle(p)
    /\ \E f \in Fds, n \in 1..MaxLen :
          /\ fds[p][f] # ClosedFd
          /\ LET d == ReadAt(fds[p][f].handle, fds[p][f].offset, n) IN
             /\ result' = d
             /\ fds' = [fds EXCEPT ![p][f].offset = @ + Len(d)]
    /\ UNCHANGED <<nodes, size, call>>

\* sys_write on a file: write_at grows the file to the end of the write and
\* copies; it writes nothing through a stale handle.
SysWrite(p) ==
    /\ Idle(p)
    /\ \E f \in Fds, n \in 1..MaxLen, v \in Values :
          LET h == fds[p][f].handle
              o == fds[p][f].offset
              s == [k \in 1..n |-> v]
          IN  /\ fds[p][f] # ClosedFd
              /\ o + n <= MaxData
              /\ IF Live(h) /\ IsKind(h.node, "file")
                 THEN /\ nodes' = [nodes EXCEPT ![h.node].node.data = Copied(Resized(@, o + n), o, s)]
                      /\ fds' = [fds EXCEPT ![p][f].offset = o + n]
                 ELSE UNCHANGED <<nodes, fds>>
    /\ UNCHANGED <<size, call>> /\ result' = <<>>

SysMkdir(p) ==
    /\ Idle(p)
    /\ \E path \in Paths \ {Root}, i \in Slots, g \in 0..(GenMod - 1) : Make(path, "dir", i, g)
    /\ UNCHANGED <<fds, call>> /\ result' = <<>>

\* The slot becomes a tombstone and keeps its generation.
Tombstone(i) == nodes' = [nodes EXCEPT ![i].node = NoNode]

SysUnlink(p) ==
    /\ Idle(p)
    /\ \E path \in Paths : IsKind(Find(path), "file") /\ Tombstone(Find(path))
    /\ UNCHANGED <<size, fds, call>> /\ result' = <<>>

HasNoFile(path) == \A i \in 1..size : Present(i) /\ IsChild(path, nodes[i].node.path) => nodes[i].node.kind # "file"

\* rmdir's has_child, negated.
HasNoChild(path) == \A i \in 1..size : Present(i) => ~IsChild(path, nodes[i].node.path)

SysRmdir(p) ==
    /\ Idle(p)
    /\ \E path \in Paths \ {Root} :
          /\ IsKind(Find(path), "dir")
          /\ HasNoChild(path)
          /\ Tombstone(Find(path))
    /\ UNCHANGED <<size, fds, call>> /\ result' = <<>>

Next ==
    \E p \in Procs :
        \/ SysCreate(p) \/ SysCreateLookup(p) \/ SysCreateTruncate(p) \/ AllocFd(p)
        \/ SysOpen(p) \/ SysClose(p) \/ SysRead(p) \/ SysWrite(p)
        \/ SysMkdir(p) \/ SysUnlink(p) \/ SysRmdir(p)

Spec == Init /\ [][Next]_vars

-----------------------------------------------------------------------------
Handles == [node : 0..MaxNodes, generation : 0..(GenMod - 1)]

TypeOK ==
    /\ \A i \in Slots :
          /\ nodes[i].generation \in 0..(GenMod - 1)
          /\ nodes[i].node.path \in Paths
          /\ nodes[i].node.kind \in {"free", "dir", "file"}
          /\ nodes[i].node.data \in Seq(Values \cup {0})
    /\ size \in 1..MaxNodes
    /\ \A p \in Procs :
          /\ \A f \in Fds : fds[p][f].handle \in Handles /\ fds[p][f].offset \in Nat
          /\ call[p].step \in {"none", "lookup", "truncate", "alloc"}
          /\ call[p].path \in Paths /\ call[p].handle \in Handles
    /\ result \in Seq(Values \cup {0})

\* The table is a tree: a path names one slot, the directory it is in exists,
\* and only directories have children (make's checks, rmdir's has_child).
TreeShape ==
    \A i \in 1..size : Present(i) =>
        /\ \A j \in 1..size : Present(j) /\ nodes[j].node.path = nodes[i].node.path => i = j
        /\ nodes[i].node.path # Root => IsKind(Find(ParentOf(nodes[i].node.path)), "dir")

\* The node table is a well-formed tree: files have no unwritten bytes, and
\* paths and directories fit together, after any mix of the file calls.
VfsInv ==
    /\ TypeOK
    /\ TreeShape

-----------------------------------------------------------------------------
(* The table implements FileStore: the identity of a file is its slot and  *)
(* generation.                                                             *)

IdOf(h) == <<h.node, h.generation>>
AbsIds == Slots \X (0..(GenMod - 1))

AbsNames == [q \in Paths |-> IF Find(q) = 0 THEN <<0, 0>> ELSE <<Find(q), nodes[Find(q)].generation>>]
AbsInode ==
    [id \in AbsIds |->
        IF Live(Handle(id[1], id[2])) THEN [kind |-> nodes[id[1]].node.kind, data |-> nodes[id[1]].node.data]
        ELSE [kind |-> "gone", data |-> <<>>]]
AbsFresh == {id \in AbsIds : id[1] > size \/ id[2] > nodes[id[1]].generation}
AbsOpen == [p \in Procs |-> [f \in Fds |-> [id |-> IdOf(fds[p][f].handle), offset |-> fds[p][f].offset]]]
AbsReq == [p \in Procs |-> [step |-> call[p].step, path |-> call[p].path, id |-> IdOf(call[p].handle)]]

Store == INSTANCE FileStore WITH
    Ids <- AbsIds, NoId <- <<0, 0>>, names <- AbsNames, inode <- AbsInode, fresh <- AbsFresh,
    open <- AbsOpen, req <- AbsReq

\* The slot table with generations behaves as a store of files that are never
\* confused: a descriptor opened before an unlink never reaches the file that
\* reuses the slot (the comment on Slot).
ImplementsFileStore == Store!Spec

=============================================================================
