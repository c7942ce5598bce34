------------------------------ MODULE FreeList ------------------------------
(***************************************************************************)
(* The address-sorted, first-fit free list that the kernel heap            *)
(* (memory/allocator.rs) and the allocator of the programs                 *)
(* (userspace/runtime/runtime.rs) both are built on.                       *)
(*                                                                         *)
(* Addresses and sizes count machine words of 8 bytes, the alignment of    *)
(* FreeNode and AllocHeader.  A list is the set of its nodes, [addr, size].*)
(***************************************************************************)
EXTENDS Integers

Header == 2     \* size_of::<AllocHeader>()

NodeSize == 2   \* size_of::<FreeNode>()

AlignUp(v, align) == ((v + align - 1) \div align) * align

Block(addr, size) == [addr |-> addr, size |-> size]

Words(b) == b.addr .. (b.addr + b.size - 1)

\* insert: a block joins the node that begins at its end and the node that
\* ends at its beginning.
Insert(F, addr, size) ==
    LET after == {b \in F : addr + size = b.addr}
        before == {b \in F : b.addr + b.size = addr}
        first == IF before = {} THEN addr ELSE (CHOOSE b \in before : TRUE).addr
        end == IF after = {} THEN addr + size
               ELSE addr + size + (CHOOSE b \in after : TRUE).size
    IN  (F \ (after \cup before)) \cup {Block(first, end - first)}

\* The node a take takes: the first one that is large enough.
Fits(F, need) == {b \in F : b.size >= need}

FirstFit(F, need) == CHOOSE b \in Fits(F, need) : \A x \in Fits(F, need) : b.addr <= x.addr

KeptShort(b, need) == need

\* What is left of a node is kept with the block if it cannot hold a node.
Kept(b, need) == IF b.size - need >= NodeSize THEN need ELSE b.size

\* The list after a take
Carved(F, b, need) ==
    IF b.size - need < NodeSize THEN F \ {b}
    ELSE Insert(F \ {b}, b.addr + need, b.size - need)

\* Room for the header, the payload and the worst alignment.
Need(r) == Header + r.size + r.align

\* The block handed out: the header lies just before the aligned pointer.
Finish(addr, size, r) ==
    [addr |-> addr, size |-> size, user |-> AlignUp(addr + Header, r.align),
     len |-> r.size, align |-> r.align]

-----------------------------------------------------------------------------
(* What both allocators owe their callers.                                 *)

\* No word is in two of the blocks.
Separate(S) == \A b, x \in S : b # x => Words(b) \cap Words(x) = {}

\* The pointer is aligned; the header before it and the payload after it lie
\* inside the block.
PayloadIn(u) ==
    /\ u.user % u.align = 0
    /\ u.addr + Header <= u.user
    /\ u.user + u.len <= u.addr + u.size
=============================================================================
