----------------------------- MODULE FileStore -----------------------------
(***************************************************************************)
(* What the root filesystem promises: a tree of named files and            *)
(* directories, and open files that refer to one file for good.  A file    *)
(* has an identity that is never used again; once its name is unlinked the *)
(* file is gone, and an open file that refers to it reads and writes       *)
(* nothing.  Creating over an existing name truncates the file that is     *)
(* found there, in steps that other processes may come between.            *)
(***************************************************************************)
EXTENDS Integers, Sequences

CONSTANTS
    Procs,      \* processes
    Paths,      \* absolute paths, as sequences of names; <<>> is the root
    Ids,        \* identities of files
    NoId,
    Fds,        \* descriptors of a process
    Values,     \* what a write stores
    MaxLen,     \* bound on the length of a read or write
    MaxData     \* bound on the length of a file

VARIABLES
    names,      \* path -> identity, or NoId
    inode,      \* identity -> directory, file contents, or Gone
    fresh,      \* identities not used so far
    open,       \* process, descriptor -> open file
    req,        \* the call each process is in the middle of
    result      \* the bytes returned by the step just taken, if it was a read

absVars == <<names, inode, fresh, open, req, result>>

Root == <<>>
Gone == [kind |-> "gone", data |-> <<>>]
Dir == [kind |-> "dir", data |-> <<>>]
File(d) == [kind |-> "file", data |-> d]

Closed == [id |-> NoId, offset |-> 0]
NoReq == [step |-> "none", path |-> Root, id |-> NoId]

ParentOf(path) == SubSeq(path, 1, Len(path) - 1)
IsChild(dir, path) == path # Root /\ ParentOf(path) = dir

\* The contents of d after s is written at offset o: a gap is filled with 0.
Overwrite(d, o, s) ==
    [k \in 1..(IF o + Len(s) > Len(d) THEN o + Len(s) ELSE Len(d)) |->
        IF k > o /\ k <= o + Len(s) THEN s[k - o] ELSE IF k <= Len(d) THEN d[k] ELSE 0]

\* Up to n bytes of d from offset o on.
Slice(d, o, n) == SubSeq(d, o + 1, IF o + n < Len(d) THEN o + n ELSE Len(d))

Init ==
    /\ \E r \in Ids :
          /\ names = [q \in Paths |-> IF q = Root THEN r ELSE NoId]
          /\ inode = [i \in Ids |-> IF i = r THEN Dir ELSE Gone]
          /\ fresh = Ids \ {r}
    /\ open = [p \in Procs |-> [f \in Fds |-> Closed]]
    /\ req = [p \in Procs |-> NoReq]
    /\ result = <<>>

\* A new entry at an unused name in an existing directory.
Make(path, n, id) ==
    /\ names[path] = NoId
    /\ names[ParentOf(path)] # NoId /\ inode[names[ParentOf(path)]].kind = "dir"
    /\ id \in fresh
    /\ names' = [names EXCEPT ![path] = id]
    /\ inode' = [inode EXCEPT ![id] = n]
    /\ fresh' = fresh \ {id}

Begin(p, step, path, id) == req' = [req EXCEPT ![p] = [step |-> step, path |-> path, id |-> id]]
End(p) == req' = [req EXCEPT ![p] = NoReq]
Tree == <<names, inode, fresh>>

Create(p) ==
    /\ req[p] = NoReq
    /\ \E path \in Paths :
          \/ \E id \in Ids : path # Root /\ Make(path, File(<<>>), id) /\ Begin(p, "alloc", Root, id)
          \/ names[path] # NoId /\ Begin(p, "lookup", path, NoId) /\ UNCHANGED Tree
    /\ UNCHANGED <<open>> /\ result' = <<>>

\* The name is looked up again: it may be a directory, or gone, by now.
CreateLookup(p) ==
    /\ req[p].step = "lookup"
    /\ LET id == names[req[p].path] IN
       IF id # NoId /\ inode[id].kind = "file" THEN Begin(p, "truncate", Root, id) ELSE End(p)
    /\ UNCHANGED <<Tree, open>> /\ result' = <<>>

CreateTruncate(p) ==
    /\ req[p].step = "truncate"
    /\ inode' = [inode EXCEPT ![req[p].id] = IF @.kind = "file" THEN File(<<>>) ELSE @]
    /\ Begin(p, "alloc", Root, req[p].id)
    /\ UNCHANGED <<names, fresh, open>> /\ result' = <<>>

\* The call ends with an open file, or without if the table is full.
Alloc(p) ==
    /\ req[p].step = "alloc"
    /\ \/ \E f \in Fds : /\ open[p][f] = Closed
                         /\ open' = [open EXCEPT ![p][f] = [id |-> req[p].id, offset |-> 0]]
       \/ (\A f \in Fds : open[p][f] # Closed) /\ UNCHANGED open
    /\ End(p)
    /\ UNCHANGED <<Tree>> /\ result' = <<>>

Open(p) ==
    /\ req[p] = NoReq
    /\ \E path \in Paths :
          /\ names[path] # NoId /\ inode[names[path]].kind = "file"
          /\ Begin(p, "alloc", Root, names[path])
    /\ UNCHANGED <<Tree, open>> /\ result' = <<>>

Close(p) ==
    /\ req[p] = NoReq
    /\ \E f \in Fds : open' = [open EXCEPT ![p][f] = Closed]
    /\ UNCHANGED <<Tree, req>> /\ result' = <<>>

Read(p) ==
    /\ req[p] = NoReq
    /\ \E f \in Fds, n \in 1..MaxLen :
          /\ open[p][f] # Closed
          /\ LET d == Slice(inode[open[p][f].id].data, open[p][f].offset, n) IN
             /\ result' = d
             /\ open' = [open EXCEPT ![p][f].offset = @ + Len(d)]
    /\ UNCHANGED <<Tree, req>>

Write(p) ==
    /\ req[p] = NoReq
    /\ \E f \in Fds, n \in 1..MaxLen, v \in Values :
          LET id == open[p][f].id
              o  == open[p][f].offset
          IN  /\ open[p][f] # Closed
              /\ o + n <= MaxData
              /\ IF inode[id].kind = "file"
                 THEN /\ inode' = [inode EXCEPT ![id] = File(Overwrite(@.data, o, [k \in 1..n |-> v]))]
                      /\ open' = [open EXCEPT ![p][f].offset = o + n]
                 ELSE UNCHANGED <<inode, open>>
    /\ UNCHANGED <<names, fresh, req>> /\ result' = <<>>

Mkdir(p) ==
    /\ req[p] = NoReq
    /\ \E path \in Paths, id \in Ids : path # Root /\ Make(path, Dir, id)
    /\ UNCHANGED <<open, req>> /\ result' = <<>>

Remove(path) ==
    /\ names' = [names EXCEPT ![path] = NoId]
    /\ inode' = [inode EXCEPT ![names[path]] = Gone]

Unlink(p) ==
    /\ req[p] = NoReq
    /\ \E path \in Paths : names[path] # NoId /\ inode[names[path]].kind = "file" /\ Remove(path)
    /\ UNCHANGED <<fresh, open, req>> /\ result' = <<>>

Rmdir(p) ==
    /\ req[p] = NoReq
    /\ \E path \in Paths \ {Root} :
          /\ names[path] # NoId /\ inode[names[path]].kind = "dir"
          /\ \A q \in Paths : IsChild(path, q) => names[q] = NoId
          /\ Remove(path)
    /\ UNCHANGED <<fresh, open, req>> /\ result' = <<>>

Next ==
    \E p \in Procs :
        \/ Create(p) \/ CreateLookup(p) \/ CreateTruncate(p) \/ Alloc(p)
        \/ Open(p) \/ Close(p) \/ Read(p) \/ Write(p)
        \/ Mkdir(p) \/ Unlink(p) \/ Rmdir(p)

Spec == Init /\ [][Next]_absVars

=============================================================================
