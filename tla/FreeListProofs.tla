--------------------------- MODULE FreeListProofs ---------------------------
(***************************************************************************)
(* Lemmas about the free list, for lists of any length and blocks of any   *)
(* size.  Blocks that overlap are told by their bounds.                    *)
(***************************************************************************)
EXTENDS FreeList, TLAPS, WellFoundedInduction

\* One block ends before the other begins.
Off(b, x) == b.addr + b.size <= x.addr \/ x.addr + x.size <= b.addr

\* Two nodes never touch.
Joined(F) == \A b, x \in F : b.addr + b.size # x.addr

\* A list as insert keeps it: nodes of some length that neither overlap nor touch
ListOK(F) ==
    /\ F \subseteq [addr : Nat, size : Nat \ {0}]
    /\ \A b, x \in F : b # x => Off(b, x)
    /\ Joined(F)

\* What is handed out
UsedBlock == [addr : Nat, size : Nat \ {0}, user : Nat, len : Nat, align : Nat]

\* A set of natural numbers has a least element.
LEMMA LeastExists ==
  ASSUME NEW T \in SUBSET Nat, T # {}
  PROVE  \E x \in T : \A y \in T : x <= y
<1>1. PICK x \in T : \A y \in T : ~(<<y, x>> \in OpToRel(<, Nat))
  BY NatLessThanWellFounded, WFMin
<1>2. \A y \in T : ~(y < x)
  BY <1>1 DEF OpToRel
<1> QED
  BY <1>2

\* Blocks of some length share no word exactly if one ends before the other.
LEMMA OffMeansApart ==
  ASSUME NEW b, NEW x, b.addr \in Nat, b.size \in Nat \ {0}, x.addr \in Nat, x.size \in Nat \ {0}
  PROVE  Off(b, x) <=> Words(b) \cap Words(x) = {}
<1>1. Off(b, x) => Words(b) \cap Words(x) = {}
  BY DEF Off, Words
<1>2. ASSUME ~Off(b, x) PROVE Words(b) \cap Words(x) # {}
  <2>1. CASE b.addr <= x.addr
    BY <1>2, <2>1 DEF Off, Words
  <2>2. CASE x.addr <= b.addr
    BY <1>2, <2>2 DEF Off, Words
  <2> QED
    BY <2>1, <2>2
<1> QED
  BY <1>1, <1>2

\* A product is a multiple.
LEMMA MultipleOf ==
  ASSUME NEW q \in Nat, NEW a \in Nat \ {0}
  PROVE  (q * a) % a = 0
<1> DEFINE d == (q * a) \div a
           m == (q * a) % a
<1>1. d \in Int /\ m \in 0 .. (a - 1) /\ q * a = a * d + m /\ q * a \in Nat
  OBVIOUS
<1> HIDE DEF d, m
<1>2. a * (q - d) = m
  BY <1>1
<1>3. CASE q - d >= 1
  <2>1. a * (q - d) >= a
    BY <1>1, <1>3
  <2> QED
    BY <1>1, <1>2, <2>1
<1>4. CASE q - d <= -1
  <2>1. a * (q - d) <= -a
    BY <1>1, <1>4
  <2> QED
    BY <1>1, <1>2, <2>1
<1>5. CASE q - d = 0
  BY <1>1, <1>2, <1>5 DEF m
<1> QED
  BY <1>1, <1>3, <1>4, <1>5

\* align_up gives the next multiple.
LEMMA AlignUpFits ==
  ASSUME NEW v \in Nat, NEW a \in Nat \ {0}
  PROVE  /\ AlignUp(v, a) \in Nat
         /\ v <= AlignUp(v, a) /\ AlignUp(v, a) <= v + a - 1
         /\ AlignUp(v, a) % a = 0
<1> DEFINE q == (v + a - 1) \div a
           m == (v + a - 1) % a
<1>1. q \in Nat /\ m \in 0 .. (a - 1) /\ v + a - 1 = a * q + m
  OBVIOUS
<1>2. AlignUp(v, a) = q * a
  BY DEF AlignUp
<1> HIDE DEF q, m
<1>3. q * a = a * q /\ q * a \in Nat
  BY <1>1
<1>4. (q * a) % a = 0
  BY <1>1, MultipleOf
<1> QED
  BY <1>1, <1>2, <1>3, <1>4

\* insert keeps the list: the new node, joined with its neighbours, overlaps and
\* touches no other, and the list has the words it had and those of the block.
LEMMA InsertKeeps ==
  ASSUME NEW F, ListOK(F), NEW addr \in Nat, NEW size \in Nat \ {0},
         \A b \in F : Off(b, Block(addr, size))
  PROVE  /\ ListOK(Insert(F, addr, size))
         /\ \A w \in Nat : (\E b \in Insert(F, addr, size) : w \in Words(b))
                           <=> (w \in Words(Block(addr, size)) \/ \E b \in F : w \in Words(b))
         /\ \A x : x.addr \in Nat /\ x.size \in Nat \ {0} /\ Off(x, Block(addr, size))
                    /\ (\A b \in F : Off(x, b))
                => \A b \in Insert(F, addr, size) : Off(x, b)
         /\ \E b \in Insert(F, addr, size) : b.size >= size
<1> DEFINE after == {b \in F : addr + size = b.addr}
           before == {b \in F : b.addr + b.size = addr}
           first == IF before = {} THEN addr ELSE (CHOOSE b \in before : TRUE).addr
           end == IF after = {} THEN addr + size
                  ELSE addr + size + (CHOOSE b \in after : TRUE).size
           new == Block(first, end - first)
           G == (F \ (after \cup before)) \cup {new}
<1>1. Insert(F, addr, size) = G
  BY DEF Insert
<1>2. \A b \in F : b.addr \in Nat /\ b.size \in Nat \ {0}
  BY DEF ListOK
<1>3. \A b, x \in F : b # x => Off(b, x)
  BY DEF ListOK
<1>4. \A b, x \in F : b.addr + b.size # x.addr
  BY DEF ListOK, Joined
<1>5. \A b \in F : Off(b, [addr |-> addr, size |-> size])
  BY DEF Block
<1>6. \/ before = {} /\ first = addr
      \/ \E b \in F : before = {b} /\ b.addr + b.size = addr /\ first = b.addr
  <2>1. CASE before = {}
    BY <2>1
  <2>2. CASE before # {}
    <3>1. PICK b \in before : b = CHOOSE y \in before : TRUE
      BY <2>2
    <3>2. \A x \in before : x = b
      BY <1>2, <1>3, <3>1 DEF Off
    <3> QED
      BY <2>2, <3>1, <3>2
  <2> QED
    BY <2>1, <2>2
<1>7. \/ after = {} /\ end = addr + size
      \/ \E b \in F : after = {b} /\ b.addr = addr + size /\ end = addr + size + b.size
  <2>1. CASE after = {}
    BY <2>1
  <2>2. CASE after # {}
    <3>1. PICK b \in after : b = CHOOSE y \in after : TRUE
      BY <2>2
    <3>2. \A x \in after : x = b
      BY <1>2, <1>3, <3>1 DEF Off
    <3> QED
      BY <2>2, <3>1, <3>2
  <2> QED
    BY <2>1, <2>2
<1>8. first \in Nat /\ end \in Nat /\ first <= addr /\ addr + size <= end
  BY <1>2, <1>6, <1>7
<1>9. new.addr = first /\ new.size = end - first /\ new \in [addr : Nat, size : Nat \ {0}]
  BY <1>8 DEF Block
<1>10. \A x \in F \ (after \cup before) : x.addr + x.size # addr /\ x.addr # addr + size
  OBVIOUS
<1> HIDE DEF after, before, first, end, new
\* What lies off the block and its neighbours lies off the new node.
<1>11. ASSUME NEW x, x.addr \in Nat, x.size \in Nat \ {0},
              Off(x, [addr |-> addr, size |-> size]), \A b \in before \cup after : Off(x, b)
       PROVE  Off(x, new)
  <2>1. x.addr + x.size <= first \/ addr <= x.addr
    BY <1>2, <1>6, <1>11 DEF Off
  <2>2. x.addr + x.size <= addr \/ end <= x.addr
    BY <1>2, <1>7, <1>11 DEF Off
  <2> QED
    BY <1>8, <1>9, <2>1, <2>2, <1>11 DEF Off
<1>12. \A x \in F \ (after \cup before) : Off(x, new) /\ Off(new, x)
  <2> SUFFICES ASSUME NEW x \in F \ (after \cup before) PROVE Off(x, new) /\ Off(new, x)
    OBVIOUS
  <2>1. \A b \in before \cup after : b \in F /\ Off(x, b)
    BY <1>3 DEF before, after
  <2>2. Off(x, new)
    BY <1>2, <1>5, <1>11, <2>1
  <2> QED
    BY <2>2 DEF Off
<1>13. \A x \in F \ (after \cup before) : x.addr + x.size # new.addr /\ new.addr + new.size # x.addr
  BY <1>2, <1>4, <1>6, <1>7, <1>8, <1>9, <1>10
<1>14. ListOK(G)
  <2>1. G \subseteq [addr : Nat, size : Nat \ {0}]
    BY <1>9 DEF ListOK
  <2>2. \A b, x \in G : b # x => Off(b, x)
    BY <1>3, <1>12
  <2>3. Joined(G)
    BY <1>4, <1>8, <1>9, <1>13 DEF Joined
  <2> QED
    BY <2>1, <2>2, <2>3 DEF ListOK
<1>15. \A w \in Nat : w \in Words(new) <=>
            \/ w \in Words(Block(addr, size))
            \/ \E b \in before \cup after : w \in Words(b)
  BY <1>2, <1>6, <1>7, <1>8, <1>9 DEF Words, Block
<1>16. \A w \in Nat : (\E b \in G : w \in Words(b))
            <=> (w \in Words(Block(addr, size)) \/ \E b \in F : w \in Words(b))
  <2>1. before \cup after \subseteq F
    BY DEF before, after
  <2> QED
    BY <1>15, <2>1
<1>17. ASSUME NEW x, x.addr \in Nat, x.size \in Nat \ {0}, Off(x, Block(addr, size)),
              \A b \in F : Off(x, b)
       PROVE  \A b \in G : Off(x, b)
  <2>1. before \cup after \subseteq F
    BY DEF before, after
  <2> QED
    BY <1>11, <1>17, <2>1 DEF Block
<1>18. new \in G /\ new.size >= size
  BY <1>8, <1>9
<1> QED
  BY <1>1, <1>14, <1>16, <1>17, <1>18

\* take finds a node of the list that is large enough.
LEMMA FirstFitFits ==
  ASSUME NEW F, ListOK(F), NEW need \in Nat, Fits(F, need) # {}
  PROVE  FirstFit(F, need) \in F /\ FirstFit(F, need).size >= need
<1> DEFINE T == {b.addr : b \in Fits(F, need)}
<1>1. T \in SUBSET Nat /\ T # {}
  BY DEF ListOK, Fits
<1>2. PICK a \in T : \A y \in T : a <= y
  BY <1>1, LeastExists
<1>3. \E b \in Fits(F, need) : \A x \in Fits(F, need) : b.addr <= x.addr
  BY <1>2
<1>4. FirstFit(F, need) \in Fits(F, need)
  BY <1>3 DEF FirstFit
<1> QED
  BY <1>4 DEF Fits

\* take splits a node: the block kept is large enough, it and the new list have
\* the words of the old list, and neither overlaps what the old list did not.
LEMMA CarveKeeps ==
  ASSUME NEW F, ListOK(F), NEW b \in F, NEW need \in Nat \ {0}, need <= b.size,
         NEW k, k = Kept(b, need)
  PROVE  /\ k \in Nat /\ need <= k
         /\ ListOK(Carved(F, b, need))
         /\ \A w \in Nat : (\E x \in F : w \in Words(x))
                <=> (w \in Words(Block(b.addr, k)) \/ \E x \in Carved(F, b, need) : w \in Words(x))
         /\ \A x \in Carved(F, b, need) : Off(Block(b.addr, k), x)
         /\ \A x : x.addr \in Nat /\ x.size \in Nat \ {0} /\ (\A y \in F : Off(x, y))
                => /\ Off(x, Block(b.addr, k))
                   /\ \A y \in Carved(F, b, need) : Off(x, y)
<1> DEFINE R == F \ {b}
           block == Block(b.addr, k)
           rest == Block(b.addr + need, b.size - need)
<1>1. b \in [addr : Nat, size : Nat \ {0}] /\ b.addr \in Nat /\ b.size \in Nat \ {0}
  BY DEF ListOK
<1>2. ListOK(R) /\ \A x \in R : Off(x, b) /\ Off(b, x) /\ x.addr \in Nat /\ x.size \in Nat \ {0}
  BY DEF ListOK, Joined
<1>3. CASE b.size - need < NodeSize
  <2>1. Carved(F, b, need) = R /\ k = b.size /\ block = b
    BY <1>1, <1>3 DEF Carved, Kept, Block, NodeSize
  <2> QED
    BY <1>1, <1>2, <2>1
<1>4. CASE ~(b.size - need < NodeSize)
  <2>1. Carved(F, b, need) = Insert(R, b.addr + need, b.size - need) /\ k = need
    BY <1>1, <1>4 DEF Carved, Kept, NodeSize
  <2>2. b.addr + need \in Nat /\ b.size - need \in Nat \ {0}
    BY <1>1, <1>4 DEF NodeSize
  <2>3. \A x : x.addr \in Nat /\ x.size \in Nat \ {0} /\ Off(x, b) => Off(x, rest) /\ Off(x, block)
    BY <1>1, <2>1, <2>2 DEF Off, Block
  <2>4. \A x \in R : Off(x, rest) /\ Off(x, block)
    BY <1>2, <2>3
  <2>5. Off(block, rest) /\ block.addr \in Nat /\ block.size \in Nat \ {0}
    BY <1>1, <2>1, <2>2 DEF Off, Block
  <2>6. \A x \in R : Off(block, x)
    BY <2>4 DEF Off
  <2>7. /\ ListOK(Carved(F, b, need))
        /\ \A w \in Nat : (\E x \in Carved(F, b, need) : w \in Words(x))
                          <=> (w \in Words(rest) \/ \E x \in R : w \in Words(x))
        /\ \A x : x.addr \in Nat /\ x.size \in Nat \ {0} /\ Off(x, rest) /\ (\A y \in R : Off(x, y))
                => \A y \in Carved(F, b, need) : Off(x, y)
    <3> DEFINE ra == b.addr + need
               rs == b.size - need
    <3>1. ListOK(R) /\ ra \in Nat /\ rs \in Nat \ {0} /\ \A x \in R : Off(x, Block(ra, rs))
      BY <1>2, <2>2, <2>4
    <3>2. Carved(F, b, need) = Insert(R, ra, rs) /\ rest = Block(ra, rs)
      BY <2>1
    <3> HIDE DEF ra, rs, rest, R
    <3>3. /\ ListOK(Insert(R, ra, rs))
          /\ \A w \in Nat : (\E x \in Insert(R, ra, rs) : w \in Words(x))
                            <=> (w \in Words(Block(ra, rs)) \/ \E x \in R : w \in Words(x))
          /\ \A x : x.addr \in Nat /\ x.size \in Nat \ {0} /\ Off(x, Block(ra, rs))
                     /\ (\A y \in R : Off(x, y))
                  => \A y \in Insert(R, ra, rs) : Off(x, y)
      BY <3>1, InsertKeeps
    <3> QED
      BY <3>2, <3>3
  <2>8. \A w \in Nat : w \in Words(b) <=> w \in Words(block) \/ w \in Words(rest)
    BY <1>1, <2>1, <2>2 DEF Words, Block
  <2>9. \A x \in Carved(F, b, need) : Off(block, x)
    BY <2>5, <2>6, <2>7
  <2>10. ASSUME NEW x, x.addr \in Nat, x.size \in Nat \ {0}, \A y \in F : Off(x, y)
         PROVE  Off(x, block) /\ \A y \in Carved(F, b, need) : Off(x, y)
    BY <2>3, <2>7, <2>10
  <2>11. \A w \in Nat : (\E x \in F : w \in Words(x))
                <=> (w \in Words(block) \/ \E x \in Carved(F, b, need) : w \in Words(x))
    BY <2>7, <2>8
  <2>12. k \in Nat /\ need <= k
    BY <2>1
  <2>13. \A x : x.addr \in Nat /\ x.size \in Nat \ {0} /\ (\A y \in F : Off(x, y))
                => Off(x, block) /\ \A y \in Carved(F, b, need) : Off(x, y)
    BY <2>10
  <2> QED
    BY <2>7, <2>9, <2>11, <2>12, <2>13
<1> QED
  BY <1>3, <1>4

\* The block handed out holds its header and its payload.
LEMMA FinishFits ==
  ASSUME NEW addr \in Nat, NEW size \in Nat, NEW r \in [size : Nat, align : Nat \ {0}],
         Need(r) <= size
  PROVE  /\ Finish(addr, size, r) \in UsedBlock
         /\ Finish(addr, size, r).addr = addr /\ Finish(addr, size, r).size = size
         /\ NodeSize <= size
         /\ PayloadIn(Finish(addr, size, r))
<1>1. r.size \in Nat /\ r.align \in Nat \ {0}
  OBVIOUS
<1> DEFINE p == AlignUp(addr + Header, r.align)
<1>2. p \in Nat /\ addr + Header <= p /\ p <= addr + Header + r.align - 1 /\ p % r.align = 0
  <2> DEFINE v == addr + Header
             a == r.align
  <2>1. v \in Nat /\ a \in Nat \ {0}
    BY <1>1 DEF Header
  <2> HIDE DEF v, a
  <2>2. /\ AlignUp(v, a) \in Nat /\ v <= AlignUp(v, a) /\ AlignUp(v, a) <= v + a - 1
        /\ AlignUp(v, a) % a = 0
    BY <2>1, AlignUpFits
  <2> QED
    BY <2>2 DEF v, a
<1> HIDE DEF p
<1>3. Finish(addr, size, r) =
        [addr |-> addr, size |-> size, user |-> p, len |-> r.size, align |-> r.align]
  BY DEF Finish, p
<1>4. size \in Nat \ {0} /\ p + r.size <= addr + size /\ NodeSize <= size
  BY <1>1, <1>2 DEF Need, Header, NodeSize
<1> QED
  BY <1>1, <1>2, <1>3, <1>4 DEF PayloadIn, UsedBlock

\* A list whose nodes make up one range is a single node.
LEMMA OneNode ==
  ASSUME NEW F, ListOK(F), NEW start \in Nat, NEW size \in Nat \ {0},
         \A w \in Nat : (\E b \in F : w \in Words(b)) <=> (start <= w /\ w < start + size)
  PROVE  F = {Block(start, size)}
<1>1. \A x \in F : /\ x \in [addr : Nat, size : Nat \ {0}]
                   /\ x.addr \in Nat /\ x.size \in Nat \ {0}
                   /\ x = Block(x.addr, x.size)
                   /\ x.addr \in Words(x) /\ (x.addr + x.size - 1) \in Words(x)
  BY DEF ListOK, Words, Block
<1>2. \A x \in F : start <= x.addr /\ x.addr + x.size <= start + size
  <2> SUFFICES ASSUME NEW x \in F PROVE start <= x.addr /\ x.addr + x.size - 1 < start + size
    BY <1>1
  <2>1. x.addr \in Nat /\ x.addr + x.size - 1 \in Nat
    BY <1>1
  <2> QED
    BY <1>1, <2>1
<1>3. PICK b \in F : start \in Words(b)
  OBVIOUS
<1>4. b.addr = start
  <2>1. b.addr \in Nat /\ b.size \in Nat /\ start <= b.addr
    BY <1>1, <1>2
  <2>2. start \in b.addr .. b.addr + b.size - 1
    BY <1>3 DEF Words
  <2> QED
    BY <2>1, <2>2
<1>5. b.size = size
  <2> SUFFICES ASSUME b.size < size PROVE FALSE
    BY <1>1, <1>2, <1>4
  <2>1. PICK x \in F : start + b.size \in Words(x)
    BY <1>1
  <2>2. x # b
    BY <1>1, <1>4, <2>1 DEF Words
  <2>3. Off(b, x)
    BY <2>2 DEF ListOK
  <2>4. x.addr = b.addr + b.size
    BY <1>1, <1>4, <2>1, <2>3 DEF Words, Off
  <2> QED
    BY <2>4 DEF ListOK, Joined
<1>6. \A x \in F : x = b
  <2> SUFFICES ASSUME NEW x \in F, x # b PROVE FALSE
    OBVIOUS
  <2>1. Off(b, x)
    BY DEF ListOK
  <2> QED
    BY <1>1, <1>2, <1>4, <1>5, <2>1 DEF Off
<1> QED
  BY <1>1, <1>4, <1>5, <1>6
=============================================================================
