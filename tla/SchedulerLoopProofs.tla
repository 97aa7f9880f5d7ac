------------------------ MODULE SchedulerLoopProofs ------------------------
(* Proofs about the instruction queue, for every block and every number of *)
(* pushes, and about the loop of a destination that drains it, for every   *)
(* schedule: any number of triggers, blocks of any length, any number of   *)
(* events thrown.                                                          *)
EXTENDS SchedulerLoop, InstructionQueueSpec, FiniteSetTheorems, SequenceTheorems,
        WellFoundedInduction, TLAPS

-----------------------------------------------------------------------------
(* The operators on a queue                                                *)

(* Every non-empty set of naturals has a least member. *)
LEMMA LeastMember ==
  ASSUME NEW T \in SUBSET Nat, T # {}
  PROVE  \E x \in T : \A y \in T : x <= y
<1>1. OpToRel(<, Nat) = {ss \in Nat \X Nat : ss[1] < ss[2]}
  BY Zenon DEF OpToRel
<1>2. \E x \in T : \A y \in T :
        ~(<<y, x>> \in {ss \in Nat \X Nat : ss[1] < ss[2]})
  BY NatLessThanWellFounded, WFMin, <1>1, ZenonT(60)
<1>3. \A x, y \in Nat :
        x < y => <<x, y>> \in {ss \in Nat \X Nat : ss[1] < ss[2]}
  OBVIOUS
<1>4. PICK x \in T : \A y \in T : ~(y < x)
  BY <1>2, <1>3
<1> QED BY <1>4

(* The n-th smallest member of an interval. *)
LEMMA NthOfInterval ==
  ASSUME NEW a \in Int, NEW b \in Int, NEW n \in 1 .. (b - a + 1)
  PROVE  Nth(a .. b, n) = a + n - 1
<1> DEFINE UpTo(i) == {j \in a .. b : j <= i}
<1>1. \A i \in a .. b : Cardinality(UpTo(i)) = i - a + 1
  <2> TAKE i \in a .. b
  <2>1. UpTo(i) = a .. i
    OBVIOUS
  <2>2. Cardinality(a .. i) = IF a > i THEN 0 ELSE i - a + 1
    BY FS_Interval
  <2>3. Cardinality(a .. i) = i - a + 1
    BY <2>2
  <2> HIDE DEF UpTo
  <2> QED BY <2>1, <2>3
<1>2. a + n - 1 \in a .. b /\ Cardinality(UpTo(a + n - 1)) = n
  <2>1. a + n - 1 \in a .. b
    OBVIOUS
  <2>2. Cardinality(UpTo(a + n - 1)) = (a + n - 1) - a + 1
    BY <1>1, <2>1
  <2> QED BY <2>1, <2>2
<1>3. \A i \in a .. b : Cardinality(UpTo(i)) = n => i = a + n - 1
  BY <1>1
<1> QED BY <1>2, <1>3 DEF Nth

(* The two orders that all operations on a queue keep. *)
ImportantLast(q) ==
  \A i, j \in 1 .. Len(q) : i < j /\ ~q[j].important => ~q[i].important

UrgentLead(q) ==
  \A i, j \in 1 .. Len(q) : i < j /\ q[j].urgent => q[i].urgent

(* When the non-important entries of a queue stand first, there is a cut   *)
(* before which nothing and after which everything is important, and       *)
(* remove_non_important drops exactly what stands before the cut.          *)
LEMMA RemoveNonImportantCuts ==
  ASSUME NEW T, NEW q \in Seq(T), ImportantLast(q)
  PROVE  \E k \in 0 .. Len(q) :
           /\ \A i \in 1 .. k : ~q[i].important
           /\ \A i \in k + 1 .. Len(q) : q[i].important
           /\ RemoveNonImportant(q) = [n \in 1 .. Len(q) - k |-> q[k + n]]
<1> DEFINE K == ImportantAt(q)
<1>1. Len(q) \in Nat
  OBVIOUS
<1>2. PICK k \in 0 .. Len(q) : K = k + 1 .. Len(q)
  <2>1. CASE K = {}
    <3>1. Len(q) \in 0 .. Len(q) /\ Len(q) + 1 .. Len(q) = {}
      BY <1>1
    <3> QED BY <2>1, <3>1
  <2>2. CASE K # {}
    <3>1. K \in SUBSET Nat /\ K \subseteq 1 .. Len(q)
      BY <1>1 DEF ImportantAt
    <3>2. PICK m \in K : \A j \in K : m <= j
      BY <2>2, <3>1, LeastMember
    <3>3. \A j \in m .. Len(q) : q[j].important
      BY <3>1, <3>2, <1>1 DEF ImportantAt, ImportantLast
    <3>4. K = (m - 1) + 1 .. Len(q)
      BY <3>1, <3>2, <3>3, <1>1 DEF ImportantAt
    <3> QED BY <3>1, <3>4, <1>1
  <2> QED BY <2>1, <2>2
<1>3. Cardinality(K) = Len(q) - k
  <2>1. k + 1 \in Int /\ Len(q) \in Int
    BY <1>1
  <2>2. Cardinality(k + 1 .. Len(q)) =
          IF k + 1 > Len(q) THEN 0 ELSE Len(q) - (k + 1) + 1
    BY <2>1, FS_Interval
  <2> QED BY <1>1, <1>2, <2>2
<1>4. \A n \in 1 .. Len(q) - k : Nth(K, n) = k + n
  <2> TAKE n \in 1 .. Len(q) - k
  <2>1. Nth(k + 1 .. Len(q), n) = (k + 1) + n - 1
    BY <1>1, NthOfInterval
  <2> QED BY <1>2, <2>1, <1>1
<1>5. RemoveNonImportant(q) = [n \in 1 .. Len(q) - k |-> q[k + n]]
  BY <1>3, <1>4 DEF RemoveNonImportant
<1>6. (\A i \in 1 .. k : ~q[i].important) /\ (\A i \in k + 1 .. Len(q) : q[i].important)
  BY <1>1, <1>2 DEF ImportantAt
<1> QED BY <1>5, <1>6

(* In a queue whose urgent entries lead, pop_next(urgent_only=True) does   *)
(* what pop_next() does.                                                   *)
LEMMA PopUrgentTakesHead ==
  ASSUME NEW T, NEW q \in Seq(T), UrgentLead(q), UrgentAt(q) # {}
  PROVE  q # <<>> /\ UrgentIndex(q) = 1 /\ PopUrgent(q) = Tail(q)
<1>1. PICK j \in 1 .. Len(q) : q[j].urgent
  BY DEF UrgentAt
<1>2. Len(q) \in Nat \ {0} /\ q # <<>> /\ 1 \in 1 .. Len(q)
  BY <1>1
<1>3. q[1].urgent
  BY <1>1, <1>2 DEF UrgentLead
<1>4. 1 \in UrgentAt(q) /\ \A i \in UrgentAt(q) : i \in Nat /\ 1 <= i
  BY <1>2, <1>3 DEF UrgentAt
<1>5. UrgentIndex(q) = 1
  BY <1>4 DEF UrgentIndex
<1>6. PopUrgent(q) = SubSeq(q, 1, 0) \o SubSeq(q, 2, Len(q))
  BY <1>5 DEF PopUrgent
<1>7. SubSeq(q, 1, 0) = <<>>
  BY SubSeqEmpty
<1>8. SubSeq(q, 2, Len(q)) = Tail(q)
  BY <1>2, TailIsSubSeq
<1> QED BY <1>2, <1>5, <1>6, <1>7, <1>8

-----------------------------------------------------------------------------
(* Where the entries of a queue come from *)

(* Every entry of p is one of q, and p keeps both orders if q has them.    *)
PartOf(p, q) ==
  /\ \A i \in 1 .. Len(p) : \E j \in 1 .. Len(q) : p[i] = q[j]
  /\ ImportantLast(q) => ImportantLast(p)
  /\ UrgentLead(q) => UrgentLead(p)

LEMMA CutIsPart ==
  ASSUME NEW T, NEW q \in Seq(T), NEW k \in 0 .. Len(q), NEW p \in Seq(T),
         Len(p) = Len(q) - k, \A n \in 1 .. Len(p) : p[n] = q[k + n]
  PROVE  PartOf(p, q)
<1>1. \A n \in 1 .. Len(p) : k + n \in 1 .. Len(q)
  OBVIOUS
<1>2. \A i, j \in 1 .. Len(p) : i < j => k + i < k + j
  OBVIOUS
<1> QED BY <1>1, <1>2 DEF PartOf, ImportantLast, UrgentLead

LEMMA TailIsPart ==
  ASSUME NEW T, NEW q \in Seq(T), q # <<>>
  PROVE  Tail(q) \in Seq(T) /\ PartOf(Tail(q), q)
<1> DEFINE p == Tail(q)
<1>1. Len(q) \in Nat \ {0} /\ 1 \in 0 .. Len(q)
  OBVIOUS
<1>2. /\ p \in Seq(T) /\ Len(p) = Len(q) - 1
      /\ \A n \in 1 .. Len(p) : p[n] = q[n + 1]
  BY <1>1
<1> HIDE DEF p
<1>3. \A n \in 1 .. Len(p) : p[n] = q[1 + n]
  BY <1>1, <1>2
<1>4. PartOf(p, q)
  BY <1>1, <1>2, <1>3, CutIsPart
<1> QED BY <1>2, <1>4 DEF p

LEMMA RemoveIsPart ==
  ASSUME NEW T, NEW q \in Seq(T), ImportantLast(q)
  PROVE  /\ RemoveNonImportant(q) \in Seq(T)
         /\ PartOf(RemoveNonImportant(q), q)
         /\ \A n \in 1 .. Len(RemoveNonImportant(q)) : RemoveNonImportant(q)[n].important
<1>1. PICK k \in 0 .. Len(q) :
        /\ \A i \in k + 1 .. Len(q) : q[i].important
        /\ RemoveNonImportant(q) = [n \in 1 .. Len(q) - k |-> q[k + n]]
  BY RemoveNonImportantCuts
<1>0. Len(q) - k \in Nat /\ \A n \in 1 .. Len(q) - k : q[k + n] \in T
  OBVIOUS
<1>2. /\ RemoveNonImportant(q) \in Seq(T)
      /\ Len(RemoveNonImportant(q)) = Len(q) - k
      /\ \A n \in 1 .. Len(q) - k : RemoveNonImportant(q)[n] = q[k + n]
  BY <1>0, <1>1
<1>4. PartOf(RemoveNonImportant(q), q)
  BY <1>2, CutIsPart
<1>3. \A n \in 1 .. Len(q) - k : k + n \in k + 1 .. Len(q)
  OBVIOUS
<1> QED BY <1>1, <1>2, <1>3, <1>4

(* Where the elements of a concatenation come from. *)
Joins(p, a, b) ==
  /\ Len(a) \in Nat /\ Len(b) \in Nat /\ Len(p) = Len(a) + Len(b)
  /\ \A i \in 1 .. Len(p) :
       \/ i \in 1 .. Len(a) /\ p[i] = a[i]
       \/ i > Len(a) /\ i - Len(a) \in 1 .. Len(b) /\ p[i] = b[i - Len(a)]

LEMMA ConcatElements ==
  ASSUME NEW T, NEW a \in Seq(T), NEW b \in Seq(T)
  PROVE  a \o b \in Seq(T) /\ Joins(a \o b, a, b)
<1> DEFINE p == a \o b
<1>1. p \in Seq(T) /\ Len(p) = Len(a) + Len(b)
  BY ConcatProperties
<1>2. Len(a) \in Nat /\ Len(b) \in Nat
  OBVIOUS
<1>3. ASSUME NEW i \in 1 .. Len(a) + Len(b)
      PROVE  \/ i \in 1 .. Len(a) /\ p[i] = a[i]
             \/ /\ i > Len(a) /\ i - Len(a) \in 1 .. Len(b)
                /\ p[i] = b[i - Len(a)]
  <2>1. p[i] = IF i <= Len(a) THEN a[i] ELSE b[i - Len(a)]
    BY <1>3, ConcatProperties
  <2> QED BY <1>2, <1>3, <2>1
<1> HIDE DEF p
<1>4. Joins(p, a, b)
  BY <1>1, <1>2, <1>3 DEF Joins
<1> QED BY <1>1, <1>4 DEF p

-----------------------------------------------------------------------------
(* push_block *)

EntryOf(I) == [instr : I, important : BOOLEAN, urgent : BOOLEAN]

(* The entries a block is queued as. *)
MadeOf(es, block, important, urgent) ==
  /\ Len(es) = Len(block)
  /\ \A i \in 1 .. Len(es) : es[i].instr = block[i]
  /\ \A i \in 1 .. Len(es) : es[i].important = important
  /\ \A i \in 1 .. Len(es) : es[i].urgent = urgent

LEMMA EntriesOfBlock ==
  ASSUME NEW I, NEW block \in Seq(I),
         NEW important \in BOOLEAN, NEW urgent \in BOOLEAN
  PROVE  /\ Entries(block, important, urgent) \in Seq(EntryOf(I))
         /\ MadeOf(Entries(block, important, urgent), block, important, urgent)
<1> DEFINE entry(i) == [instr |-> block[i], important |-> important, urgent |-> urgent]
           es == Entries(block, important, urgent)
<1>1. Len(block) \in Nat /\ es = [i \in 1 .. Len(block) |-> entry(i)]
  BY DEF Entries, MakeEntry
<1>2. \A i \in 1 .. Len(block) : entry(i) \in EntryOf(I)
  BY DEF EntryOf
<1>3. \A i : /\ entry(i).instr = block[i]
             /\ entry(i).important = important
             /\ entry(i).urgent = urgent
  OBVIOUS
<1> HIDE DEF entry, es
<1>4. es \in Seq(EntryOf(I)) /\ Len(es) = Len(block)
  BY <1>1, <1>2
<1>5. MadeOf(es, block, important, urgent)
  BY <1>1, <1>3, <1>4 DEF MadeOf
<1> QED BY <1>4, <1>5 DEF es

(* An entry of p is one of q or was made of an instruction of the block.   *)
Brings(p, q, block, important, urgent) ==
  \A i \in 1 .. Len(p) :
    \/ \E j \in 1 .. Len(q) : p[i] = q[j]
    \/ \E j \in 1 .. Len(block) :
         /\ p[i].instr = block[j]
         /\ p[i].important = important
         /\ p[i].urgent = urgent
         /\ urgent => i <= Len(block)

(* push_block keeps both orders and brings nothing but the block.          *)
LEMMA PushKeepsOrders ==
  ASSUME NEW I, NEW q \in Seq(EntryOf(I)), NEW block \in Seq(I),
         NEW important \in BOOLEAN, NEW urgent \in BOOLEAN,
         ImportantLast(q), UrgentLead(q)
  PROVE  LET p == PushBlock(q, block, important, urgent) IN
         /\ p \in Seq(EntryOf(I))
         /\ ImportantLast(p) /\ UrgentLead(p)
         /\ Brings(p, q, block, important, urgent)
<1> DEFINE es == Entries(block, important, urgent)
           p == PushBlock(q, block, important, urgent)
           E == EntryOf(I)
<1>0. es \in Seq(E) /\ MadeOf(es, block, important, urgent)
  BY EntriesOfBlock
<1> HIDE DEF es, E
<1>1. /\ es \in Seq(E) /\ Len(es) = Len(block)
      /\ \A i \in 1 .. Len(es) : es[i].instr = block[i]
      /\ \A i \in 1 .. Len(es) : es[i].important = important
      /\ \A i \in 1 .. Len(es) : es[i].urgent = urgent
  BY <1>0, Zenon DEF MadeOf
<1>11. (important => \A i \in 1 .. Len(es) : es[i].important)
       /\ (~important => \A i \in 1 .. Len(es) : ~es[i].important)
  BY <1>1, Zenon
<1>12. (urgent => \A i \in 1 .. Len(es) : es[i].urgent)
       /\ (~urgent => \A i \in 1 .. Len(es) : ~es[i].urgent)
  BY <1>1, Zenon
<1>2. \/ p = q
      \/ urgent /\ p = es \o RemoveNonImportant(q)
      \/ ~urgent /\ (important \/ q = <<>>) /\ p = q \o es
  BY DEF PushBlock, es, p
<1>13. es \in Seq(E) /\ Len(es) = Len(block)
  BY <1>1
<1> HIDE DEF p
<1>3. q \in Seq(E)
  BY DEF E
<1>4. CASE p = q
  BY <1>3, <1>4 DEF Brings, p, E
<1>5. CASE urgent /\ p = es \o RemoveNonImportant(q)
  <2> DEFINE r == RemoveNonImportant(q)
  <2>1. /\ r \in Seq(E) /\ UrgentLead(r)
        /\ \A n \in 1 .. Len(r) : r[n].important
        /\ \A n \in 1 .. Len(r) : \E j \in 1 .. Len(q) : r[n] = q[j]
    BY <1>3, RemoveIsPart DEF PartOf
  <2> HIDE DEF r
  <2>2. /\ p \in Seq(E) /\ Len(es) \in Nat /\ Len(r) \in Nat /\ Len(p) = Len(es) + Len(r)
        /\ \A i \in 1 .. Len(p) :
              \/ i \in 1 .. Len(es) /\ p[i] = es[i]
              \/ i > Len(es) /\ i - Len(es) \in 1 .. Len(r) /\ p[i] = r[i - Len(es)]
    <3>1. p = es \o r
      BY <1>5 DEF r
    <3>2. r \in Seq(E)
      BY <2>1
    <3>3. es \in Seq(E)
      BY <1>13
    <3>4. es \o r \in Seq(E) /\ Joins(es \o r, es, r)
      BY <3>2, <3>3, ConcatElements
    <3>5. p \in Seq(E) /\ Joins(p, es, r)
      BY <3>1, <3>4, Zenon
    <3> QED BY <3>5 DEF Joins
  <2>3. ImportantLast(p)
    <3> SUFFICES ASSUME NEW i \in 1 .. Len(p), NEW j \in 1 .. Len(p),
                        i < j, ~p[j].important
                 PROVE  ~p[i].important
      BY DEF ImportantLast
    <3>1. j \in 1 .. Len(es)
      BY <2>1, <2>2
    <3>2. i \in 1 .. Len(es)
      BY <2>2, <3>1
    <3>3. \A n \in 1 .. Len(es) : p[n] = es[n]
      BY <2>2
    <3> QED BY <1>11, <3>1, <3>2, <3>3
  <2>4. UrgentLead(p)
    <3> SUFFICES ASSUME NEW i \in 1 .. Len(p), NEW j \in 1 .. Len(p),
                        i < j, p[j].urgent
                 PROVE  p[i].urgent
      BY DEF UrgentLead
    <3>1. CASE i \in 1 .. Len(es)
      <4>1. p[i] = es[i]
        BY <2>2, <3>1
      <4> QED BY <1>5, <1>12, <3>1, <4>1
    <3>2. CASE i \notin 1 .. Len(es)
      <4>1. /\ i - Len(es) \in 1 .. Len(r) /\ p[i] = r[i - Len(es)]
            /\ j - Len(es) \in 1 .. Len(r) /\ p[j] = r[j - Len(es)]
            /\ i - Len(es) < j - Len(es)
        BY <2>2, <3>2
      <4> QED BY <2>1, <4>1 DEF UrgentLead
    <3> QED BY <3>1, <3>2
  <2>5. Brings(p, q, block, important, urgent)
    <3> SUFFICES ASSUME NEW i \in 1 .. Len(p)
                 PROVE  \/ \E j \in 1 .. Len(q) : p[i] = q[j]
                        \/ \E j \in 1 .. Len(block) :
                             /\ p[i].instr = block[j]
                             /\ p[i].important = important
                             /\ p[i].urgent = urgent
                             /\ i <= Len(block)
      BY DEF Brings
    <3>1. CASE i \in 1 .. Len(es) /\ p[i] = es[i]
      <4>1. i \in 1 .. Len(block) /\ i <= Len(block)
        BY <1>1, <2>2, <3>1
      <4> QED BY <1>1, <3>1, <4>1
    <3>2. CASE i - Len(es) \in 1 .. Len(r) /\ p[i] = r[i - Len(es)]
      BY <2>1, <3>2
    <3> QED BY <2>2, <3>1, <3>2
  <2> QED BY <2>2, <2>3, <2>4, <2>5 DEF p, E
<1>6. CASE ~urgent /\ (important \/ q = <<>>) /\ p = q \o es
  <2>1. /\ p \in Seq(E) /\ Len(es) \in Nat /\ Len(q) \in Nat /\ Len(p) = Len(q) + Len(es)
        /\ \A i \in 1 .. Len(p) :
              \/ i \in 1 .. Len(q) /\ p[i] = q[i]
              \/ i > Len(q) /\ i - Len(q) \in 1 .. Len(es) /\ p[i] = es[i - Len(q)]
    <3>1. p = q \o es
      BY <1>6
    <3>2. es \in Seq(E)
      BY <1>13
    <3>3. q \o es \in Seq(E) /\ Joins(q \o es, q, es)
      BY <1>3, <3>2, ConcatElements
    <3>4. p \in Seq(E) /\ Joins(p, q, es)
      BY <3>1, <3>3, Zenon
    <3> QED BY <3>4 DEF Joins
  <2>2. ImportantLast(p)
    <3> SUFFICES ASSUME NEW i \in 1 .. Len(p), NEW j \in 1 .. Len(p),
                        i < j, ~p[j].important
                 PROVE  ~p[i].important
      BY DEF ImportantLast
    <3>1. CASE j \in 1 .. Len(q)
      <4>1. i \in 1 .. Len(q) /\ p[i] = q[i] /\ p[j] = q[j]
        BY <2>1, <3>1
      <4> QED BY <3>1, <4>1 DEF ImportantLast
    <3>2. CASE j \notin 1 .. Len(q)
      <4>0. j - Len(q) \in 1 .. Len(es) /\ p[j] = es[j - Len(q)]
        BY <2>1, <3>2
      <4>1. ~important
        BY <1>11, <4>0
      <4>2. Len(q) = 0
        BY <1>6, <4>1
      <4>3. i - Len(q) \in 1 .. Len(es) /\ p[i] = es[i - Len(q)]
        BY <2>1, <4>2
      <4> QED BY <1>11, <4>1, <4>3
    <3> QED BY <3>1, <3>2
  <2>3. UrgentLead(p)
    <3> SUFFICES ASSUME NEW i \in 1 .. Len(p), NEW j \in 1 .. Len(p),
                        i < j, p[j].urgent
                 PROVE  p[i].urgent
      BY DEF UrgentLead
    <3>0. ASSUME j - Len(q) \in 1 .. Len(es), p[j] = es[j - Len(q)] PROVE FALSE
      BY <1>6, <1>12, <3>0
    <3>1. j \in 1 .. Len(q)
      BY <2>1, <3>0
    <3>2. i \in 1 .. Len(q) /\ p[i] = q[i] /\ p[j] = q[j]
      BY <2>1, <3>1
    <3> QED BY <3>1, <3>2 DEF UrgentLead
  <2>4. Brings(p, q, block, important, urgent)
    <3> SUFFICES ASSUME NEW i \in 1 .. Len(p)
                 PROVE  \/ \E j \in 1 .. Len(q) : p[i] = q[j]
                        \/ \E j \in 1 .. Len(block) :
                             /\ p[i].instr = block[j]
                             /\ p[i].important = important
                             /\ p[i].urgent = urgent
      BY <1>6 DEF Brings
    <3>1. CASE i \in 1 .. Len(q) /\ p[i] = q[i]
      BY <3>1
    <3>2. CASE i - Len(q) \in 1 .. Len(es) /\ p[i] = es[i - Len(q)]
      BY <1>1, <3>2
    <3> QED BY <2>1, <3>1, <3>2
  <2> QED BY <2>1, <2>2, <2>3, <2>4 DEF p, E
<1> QED BY <1>2, <1>4, <1>5, <1>6

-----------------------------------------------------------------------------
(* The inductive invariant *)

(* A block not pushed yet has no entry in the queue and none popped. *)
BlocksAreFresh ==
  /\ \A i \in 1 .. Len(held) : held[i].instr.block <= pushes
  /\ \A b \in BlockId : b > pushes => done[b] = 0

(* The three queue properties need one another: that remove_non_important  *)
(* cuts a front off the queue needs NonImportantFirst, that the cut falls  *)
(* between two blocks needs BlocksKeepTheirOrder, and that pop_next        *)
(* (urgent_only) takes the head needs UrgentFirst.                         *)
QueueIInv ==
  /\ QueueTypeOK
  /\ NonImportantFirst
  /\ UrgentFirst
  /\ BlocksKeepTheirOrder
  /\ BlocksAreFresh

(* The place of one entry among those of its block, and what follows it. *)
StandsInOrder(i) ==
  \/ i > 1 /\ Precedes(held[i - 1], held[i])
  \/ /\ held[i].instr.at = done[held[i].instr.block] + 1
     /\ \A h \in 1 .. i - 1 : held[h].instr.block # held[i].instr.block

IsFollowed(i) ==
  held[i].instr.at < held[i].instr.of =>
    i < Len(held) /\ Precedes(held[i], held[i + 1])

LEMMA OrderOfHeld ==
  ASSUME QueueIInv
  PROVE  \A i \in 1 .. Len(held) : StandsInOrder(i) /\ IsFollowed(i)
BY Zenon DEF QueueIInv, BlocksKeepTheirOrder, StandsInOrder, IsFollowed

(* What remains of a queue when its first k entries are dropped. *)
Dropped(q, k) == [n \in 1 .. Len(q) - k |-> q[k + n]]

LEMMA DroppedIsSeq ==
  ASSUME NEW q \in Seq(NumberedEntry), NEW k \in 0 .. Len(q)
  PROVE  /\ Dropped(q, k) \in Seq(NumberedEntry)
         /\ Len(Dropped(q, k)) = Len(q) - k
         /\ \A n \in 1 .. Len(q) - k : Dropped(q, k)[n] = q[k + n]
<1>1. Len(q) - k \in Nat /\ \A n \in 1 .. Len(q) - k : q[k + n] \in NumberedEntry
  OBVIOUS
<1>2. Dropped(q, k) \in Seq(NumberedEntry)
  BY <1>1 DEF Dropped
<1>3. Len(Dropped(q, k)) = Len(q) - k
  BY <1>1 DEF Dropped
<1> QED BY <1>2, <1>3 DEF Dropped

(* Dropping the front of the queue keeps the invariant when the drop does  *)
(* not cut a block: the first entry kept is the oldest of its block.       *)
LEMMA DropKeepsInvariant ==
  ASSUME QueueIInv, NEW k \in 0 .. Len(held),
         k = 0 \/ k = Len(held) \/ ~Precedes(held[k], held[k + 1]),
         held' = Dropped(held, k), UNCHANGED <<pushes, done>>
  PROVE  QueueIInv'
<1>01. /\ held' \in Seq(NumberedEntry)
      /\ Len(held') = Len(held) - k
      /\ \A n \in 1 .. Len(held') : held'[n] = held[k + n]
  BY DroppedIsSeq DEF QueueIInv, QueueTypeOK
<1>02. Len(held) \in Nat
  BY DEF QueueIInv, QueueTypeOK
<1> DEFINE m == Len(held)
           m2 == Len(held')
<1>0. /\ m \in Nat /\ m2 = m - k /\ m2 \in Nat
      /\ \A n \in 1 .. m2 : held'[n] = held[k + n] /\ k + n \in 1 .. m
  BY <1>01, <1>02
<1>1. QueueTypeOK'
  BY <1>01 DEF QueueIInv, QueueTypeOK
<1>2. NonImportantFirst'
  <2> SUFFICES ASSUME NEW i \in 1 .. m2, NEW j \in 1 .. m2,
                      i < j, ~held'[j].important
               PROVE  /\ ~held'[i].important
                      /\ held'[i].instr.block = held'[j].instr.block
    BY DEF NonImportantFirst
  <2>1. k + i \in 1 .. m /\ k + j \in 1 .. m /\ k + i < k + j
    BY <1>0
  <2> QED BY <2>1, <1>0 DEF QueueIInv, NonImportantFirst
<1>3. UrgentFirst'
  <2> SUFFICES ASSUME NEW i \in 1 .. m2, NEW j \in 1 .. m2,
                      i < j, held'[j].urgent
               PROVE  held'[i].urgent
    BY DEF UrgentFirst
  <2>1. k + i \in 1 .. m /\ k + j \in 1 .. m /\ k + i < k + j
    BY <1>0
  <2> QED BY <2>1, <1>0 DEF QueueIInv, UrgentFirst
<1>4. BlocksKeepTheirOrder'
  <2> SUFFICES ASSUME NEW i \in 1 .. Len(held')
               PROVE  /\ \/ i > 1 /\ Precedes(held'[i - 1], held'[i])
                         \/ /\ held'[i].instr.at = done[held'[i].instr.block] + 1
                            /\ \A h \in 1 .. i - 1 :
                                 held'[h].instr.block # held'[i].instr.block
                      /\ held'[i].instr.at < held'[i].instr.of =>
                           i < Len(held') /\ Precedes(held'[i], held'[i + 1])
    BY DEF BlocksKeepTheirOrder
  <2>1. k + i \in 1 .. Len(held) /\ held'[i] = held[k + i]
    BY <1>0
  <2>5a. StandsInOrder(k + i) /\ IsFollowed(k + i)
    BY <2>1, OrderOfHeld
  <2>2. \/ k + i > 1 /\ Precedes(held[k + i - 1], held[k + i])
        \/ /\ held[k + i].instr.at = done[held[k + i].instr.block] + 1
           /\ \A h \in 1 .. k + i - 1 :
                held[h].instr.block # held[k + i].instr.block
    BY <2>5a DEF StandsInOrder
  <2>3. held[k + i].instr.at < held[k + i].instr.of =>
          k + i < Len(held) /\ Precedes(held[k + i], held[k + i + 1])
    BY <2>5a DEF IsFollowed
  <2>6. ASSUME k + i < Len(held)
        PROVE  i < Len(held') /\ held'[i + 1] = held[k + i + 1]
    <3>1. i + 1 \in 1 .. Len(held') /\ k + (i + 1) = k + i + 1
      BY <2>6, <1>0
    <3>2. held'[i + 1] = held[k + (i + 1)]
      BY <3>1, <1>0
    <3> QED BY <3>1, <3>2, <1>0
  <2>7. held'[i].instr.at < held'[i].instr.of =>
          i < Len(held') /\ Precedes(held'[i], held'[i + 1])
    BY <2>1, <2>3, <2>6
  <2>4. CASE k + i > 1 /\ Precedes(held[k + i - 1], held[k + i])
    <3>1. i > 1
      BY <2>4, <1>0
    <3>2. i - 1 \in 1 .. Len(held') /\ k + (i - 1) = k + i - 1
      BY <3>1, <1>0
    <3>3. held'[i - 1] = held[k + i - 1]
      BY <3>2, <1>0
    <3>4. Precedes(held'[i - 1], held'[i])
      BY <3>3, <2>1, <2>4
    <3>5. held'[i].instr.at < held'[i].instr.of =>
            i < Len(held') /\ Precedes(held'[i], held'[i + 1])
      BY <2>7
    <3> QED BY <3>1, <3>4, <3>5
  <2>5. CASE /\ held[k + i].instr.at = done[held[k + i].instr.block] + 1
             /\ \A h \in 1 .. k + i - 1 :
                  held[h].instr.block # held[k + i].instr.block
    <3>1. held'[i].instr.at < held'[i].instr.of =>
            i < Len(held') /\ Precedes(held'[i], held'[i + 1])
      BY <2>7
    <3>2. \A h \in 1 .. i - 1 :
            k + h \in 1 .. k + i - 1 /\ held'[h] = held[k + h]
      BY <1>0
    <3>3. \A h \in 1 .. i - 1 :
            held'[h].instr.block # held'[i].instr.block
      BY <3>2, <2>1, <2>5
    <3> QED BY <3>1, <3>3, <2>1, <2>5
  <2> QED BY <2>2, <2>4, <2>5
<1>5. BlocksAreFresh'
  BY <1>0 DEF QueueIInv, BlocksAreFresh
<1> QED BY <1>1, <1>2, <1>3, <1>4, <1>5 DEF QueueIInv

(* Consecutive entries of a block carry the same flags. *)
LEMMA PrecedesKeepsFlags ==
  ASSUME NEW d \in NumberedEntry, NEW e, Precedes(d, e)
  PROVE  /\ e.important = d.important
         /\ e.urgent = d.urgent
         /\ e.instr.block = d.instr.block
BY DEF Precedes, NumberedEntry, Numbered

LEMMA ExitBlockKeepsInvariant ==
  ASSUME QueueIInv, DropNonImportant
  PROVE  QueueIInv'
<1>1. held \in Seq(NumberedEntry)
  BY DEF QueueIInv, QueueTypeOK
<1>2. \A i, j \in 1 .. Len(held) :
        i < j /\ ~held[j].important => ~held[i].important
  BY DEF QueueIInv, NonImportantFirst
<1>3. PICK k \in 0 .. Len(held) :
        /\ \A i \in 1 .. k : ~held[i].important
        /\ \A i \in k + 1 .. Len(held) : held[i].important
        /\ RemoveNonImportant(held) = Dropped(held, k)
  BY <1>1, <1>2, RemoveNonImportantCuts DEF Dropped, ImportantLast
<1>4. ASSUME k # 0, k # Len(held)
      PROVE  ~Precedes(held[k], held[k + 1])
  <2>1. k \in 1 .. k /\ k + 1 \in k + 1 .. Len(held) /\ k \in 1 .. Len(held)
    BY <1>1, <1>4
  <2>2. held[k] \in NumberedEntry
    BY <1>1, <2>1
  <2> QED BY <2>1, <2>2, <1>3, PrecedesKeepsFlags
<1> QED BY <1>3, <1>4, DropKeepsInvariant DEF DropNonImportant

LEMMA ClearKeepsInvariant ==
  ASSUME QueueIInv, Clear
  PROVE  QueueIInv'
<1>1. Len(held') = 0 /\ held' \in Seq(NumberedEntry)
  BY DEF Clear
<1> QED BY <1>1 DEF Clear, QueueIInv, QueueTypeOK, NonImportantFirst, UrgentFirst,
                   BlocksKeepTheirOrder, BlocksAreFresh

(* Taking the head off the queue and counting it. *)
LEMMA TakeHeadKeepsInvariant ==
  ASSUME QueueIInv, held # <<>>,
         held' = Tail(held), CountPop(held[1]), pushes' = pushes
  PROVE  QueueIInv'
<1> DEFINE m == Len(held)
           m2 == Len(held')
           b == held[1].instr.block
<1>01. held \in Seq(NumberedEntry) /\ done \in [BlockId -> Nat] /\ pushes \in Nat
  BY MaxPushesAssumption DEF QueueIInv, QueueTypeOK
<1>02. held[1] \in NumberedEntry /\ m \in Nat \ {0}
  BY <1>01
<1>03. b \in BlockId
  BY <1>02 DEF NumberedEntry, Numbered
<1>04. /\ held' \in Seq(NumberedEntry) /\ m2 = m - 1
       /\ \A n \in 1 .. m2 : held'[n] = held[n + 1]
  BY <1>01, <1>02
<1>05. /\ done' \in [BlockId -> Nat]
       /\ done'[b] = done[b] + 1
       /\ \A c \in BlockId : c # b => done'[c] = done[c]
  BY <1>01, <1>03 DEF CountPop
<1>0. /\ m \in Nat /\ m2 \in Nat /\ m2 = m - 1
      /\ \A n \in 1 .. m2 : held'[n] = held[n + 1] /\ n + 1 \in 1 .. m
  BY <1>02, <1>04
<1>1. QueueTypeOK'
  BY <1>04, <1>05 DEF QueueIInv, QueueTypeOK
<1>2. NonImportantFirst'
  <2> SUFFICES ASSUME NEW i \in 1 .. m2, NEW j \in 1 .. m2,
                      i < j, ~held'[j].important
               PROVE  /\ ~held'[i].important
                      /\ held'[i].instr.block = held'[j].instr.block
    BY DEF NonImportantFirst
  <2>1. i + 1 \in 1 .. m /\ j + 1 \in 1 .. m /\ i + 1 < j + 1
    BY <1>0
  <2> QED BY <2>1, <1>0 DEF QueueIInv, NonImportantFirst
<1>3. UrgentFirst'
  <2> SUFFICES ASSUME NEW i \in 1 .. m2, NEW j \in 1 .. m2,
                      i < j, held'[j].urgent
               PROVE  held'[i].urgent
    BY DEF UrgentFirst
  <2>1. i + 1 \in 1 .. m /\ j + 1 \in 1 .. m /\ i + 1 < j + 1
    BY <1>0
  <2> QED BY <2>1, <1>0 DEF QueueIInv, UrgentFirst
<1>4. BlocksKeepTheirOrder'
  <2> SUFFICES ASSUME NEW i \in 1 .. m2
               PROVE  /\ \/ i > 1 /\ Precedes(held'[i - 1], held'[i])
                         \/ /\ held'[i].instr.at = done'[held'[i].instr.block] + 1
                            /\ \A h \in 1 .. i - 1 :
                                 held'[h].instr.block # held'[i].instr.block
                      /\ held'[i].instr.at < held'[i].instr.of =>
                           i < m2 /\ Precedes(held'[i], held'[i + 1])
    BY DEF BlocksKeepTheirOrder
  <2> DEFINE e == held[i + 1]
  <2>1. i + 1 \in 1 .. m /\ held'[i] = e /\ i + 1 > 1 /\ (i + 1) - 1 = i
    BY <1>0
  <2>2. \/ Precedes(held[i], e)
        \/ /\ e.instr.at = done[e.instr.block] + 1
           /\ \A h \in 1 .. i : held[h].instr.block # e.instr.block
    BY <2>1 DEF QueueIInv, BlocksKeepTheirOrder
  <2>3. e.instr.at < e.instr.of =>
          i + 1 < m /\ Precedes(e, held[(i + 1) + 1])
    BY <2>1 DEF QueueIInv, BlocksKeepTheirOrder
  <2>4. held'[i].instr.at < held'[i].instr.of =>
          i < m2 /\ Precedes(held'[i], held'[i + 1])
    BY <2>1, <2>3, <1>0
  <2>5. CASE Precedes(held[i], e) /\ i > 1
    <3>1. i - 1 \in 1 .. m2 /\ (i - 1) + 1 = i
      BY <2>5, <1>0
    <3>2. held'[i - 1] = held[i]
      BY <3>1, <1>0
    <3> QED BY <3>2, <2>1, <2>4, <2>5
  <2>6. CASE Precedes(held[i], e) /\ i = 1
    <3>1. e.instr.block = b /\ e.instr.at = held[1].instr.at + 1
      BY <2>6, <1>02 DEF Precedes, NumberedEntry, Numbered
    <3>2. held[1].instr.at = done[b] + 1
      BY <1>02, 1 \in 1 .. m, ~(1 > 1) DEF QueueIInv, BlocksKeepTheirOrder
    <3>3. 1 .. i - 1 = {}
      BY <2>6
    <3> QED BY <3>1, <3>2, <3>3, <1>05, <2>1, <2>4
  <2>7. CASE /\ e.instr.at = done[e.instr.block] + 1
             /\ \A h \in 1 .. i : held[h].instr.block # e.instr.block
    <3>1. e \in NumberedEntry
      BY <1>01, <2>1
    <3>2. e.instr.block \in BlockId /\ e.instr.block # b
      BY <3>1, <2>7, 1 \in 1 .. i DEF NumberedEntry, Numbered
    <3>3. \A h \in 1 .. i - 1 :
            held'[h] = held[h + 1] /\ h + 1 \in 1 .. i
      BY <1>0
    <3>4. \A h \in 1 .. i - 1 :
            held'[h].instr.block # held'[i].instr.block
      BY <3>3, <2>1, <2>7
    <3> QED BY <3>2, <3>4, <1>05, <2>1, <2>4, <2>7
  <2> QED BY <2>2, <2>5, <2>6, <2>7
<1>5. BlocksAreFresh'
  <2>1. b <= pushes
    BY <1>02, 1 \in 1 .. m DEF QueueIInv, BlocksAreFresh
  <2>2. \A c \in BlockId : c > pushes => c # b
    BY <2>1, <1>01, <1>03 DEF BlockId
  <2> QED BY <2>2, <1>0, <1>05 DEF QueueIInv, BlocksAreFresh
<1> QED BY <1>1, <1>2, <1>3, <1>4, <1>5 DEF QueueIInv

(* The urgent entry that peek_next_urgent finds is the head of the queue.  *)
LEMMA UrgentIsHead ==
  ASSUME QueueIInv, UrgentAt(held) # {}
  PROVE  /\ held # <<>>
         /\ UrgentIndex(held) = 1
         /\ PopUrgent(held) = Tail(held)
<1>1. held \in Seq(NumberedEntry) /\ UrgentLead(held)
  BY DEF QueueIInv, QueueTypeOK, UrgentFirst, UrgentLead
<1> QED BY <1>1, PopUrgentTakesHead

LEMMA PopNextKeepsInvariant ==
  ASSUME QueueIInv, PopNext
  PROVE  QueueIInv'
BY TakeHeadKeepsInvariant DEF PopNext

LEMMA PopNextUrgentKeepsInvariant ==
  ASSUME QueueIInv, PopNextUrgent
  PROVE  QueueIInv'
BY UrgentIsHead, TakeHeadKeepsInvariant DEF PopNextUrgent

-----------------------------------------------------------------------------
(* push_block *)

(* es holds the entries that a push makes of a block of len instructions. *)
NewBlock(es, len) ==
  \A i \in 1 .. len :
    /\ es[i].instr.block = pushes + 1
    /\ es[i].instr.at = i
    /\ es[i].instr.of = len
    /\ i > 1 => Precedes(es[i - 1], es[i])
    /\ i < len => Precedes(es[i], es[i + 1])
    /\ \A j \in 1 .. len : es[i].important = es[j].important

(* The last r entries of the queue are the important ones. *)
Cut(k, r) ==
  /\ Len(held) = k + r
  /\ \A i \in 1 .. k : ~held[i].important
  /\ \A n \in 1 .. r : held[k + n].important

(* An urgent push puts its len entries in front of the last r. *)
Prepended(es, len, k, r) ==
  /\ held' \in Seq(NumberedEntry)
  /\ Len(held') = len + r
  /\ \A i \in 1 .. len : held'[i] = es[i] /\ es[i].urgent
  /\ \A n \in 1 .. r : held'[len + n] = held[k + n]

LEMMA PrependKeepsInvariant ==
  ASSUME QueueIInv, pushes < MaxPushes, pushes' = pushes + 1, done' = done,
         NEW es, NEW len \in Nat, NEW k \in Nat, NEW r \in Nat,
         NewBlock(es, len), Cut(k, r), Prepended(es, len, k, r)
  PROVE  QueueIInv'
<1>04. /\ Len(held) = k + r
       /\ \A i \in 1 .. k : ~held[i].important
       /\ \A n \in 1 .. r : held[k + n].important
  BY DEF Cut
<1>05. /\ held' \in Seq(NumberedEntry)
       /\ Len(held') = len + r
  BY DEF Prepended
<1>06. \A i \in 1 .. len : held'[i] = es[i]
  BY DEF Prepended
<1>07. \A n \in 1 .. r : held'[len + n] = held[k + n]
  BY DEF Prepended
<1>08. \A i \in 1 .. len :
         /\ held'[i].instr.block = pushes + 1
         /\ held'[i].instr.at = i
         /\ held'[i].instr.of = len
         /\ held'[i].urgent
  BY DEF NewBlock, Prepended
<1>09. \A i \in 1 .. len :
         /\ i > 1 => Precedes(held'[i - 1], held'[i])
         /\ i < len => Precedes(held'[i], held'[i + 1])
  <2> TAKE i \in 1 .. len
  <2>1. /\ i > 1 => Precedes(es[i - 1], es[i])
        /\ i < len => Precedes(es[i], es[i + 1])
    BY DEF NewBlock
  <2>2. i > 1 => i - 1 \in 1 .. len
    OBVIOUS
  <2>3. i < len => i + 1 \in 1 .. len
    OBVIOUS
  <2> QED BY <2>1, <2>2, <2>3, <1>06
<1>10. \A i, j \in 1 .. len : held'[i].important = held'[j].important
  BY <1>06 DEF NewBlock
<1>01. /\ held \in Seq(NumberedEntry) /\ done \in [BlockId -> Nat] /\ pushes \in Nat
       /\ pushes + 1 \in BlockId
  BY MaxPushesAssumption DEF QueueIInv, QueueTypeOK, BlockId
<1>02. \A i \in 1 .. len + r : i \in 1 .. len \/ \E n \in 1 .. r : i = len + n
  <2> TAKE i \in 1 .. len + r
  <2>1. i > len => i - len \in 1 .. r /\ i = len + (i - len)
    OBVIOUS
  <2> QED BY <2>1
<1>03. \A n \in 1 .. r :
         /\ held[k + n].instr.block \in Nat
         /\ held[k + n].instr.block <= pushes
  <2> TAKE n \in 1 .. r
  <2>1. k + n \in 1 .. Len(held)
    BY <1>04
  <2>2. held[k + n] \in NumberedEntry
    BY <2>1, <1>01
  <2> QED BY <2>1, <2>2 DEF NumberedEntry, Numbered, BlockId, QueueIInv, BlocksAreFresh
<1>1. QueueTypeOK'
  BY <1>01, <1>05 DEF QueueIInv, QueueTypeOK, BlockId
<1>2. NonImportantFirst'
  <2> SUFFICES ASSUME NEW i \in 1 .. len + r, NEW j \in 1 .. len + r,
                      i < j, ~held'[j].important
               PROVE  /\ ~held'[i].important
                      /\ held'[i].instr.block = held'[j].instr.block
    BY <1>05 DEF NonImportantFirst
  <2>1. j \in 1 .. len
    BY <1>02, <1>04, <1>07
  <2>2. i \in 1 .. len
    BY <2>1
  <2> QED BY <2>1, <2>2, <1>08, <1>10
<1>3. UrgentFirst'
  <2> SUFFICES ASSUME NEW i \in 1 .. len + r, NEW j \in 1 .. len + r,
                      i < j, held'[j].urgent
               PROVE  held'[i].urgent
    BY <1>05 DEF UrgentFirst
  <2>1. CASE i \in 1 .. len
    BY <2>1, <1>08
  <2>2. ASSUME NEW n \in 1 .. r, i = len + n
        PROVE  held'[i].urgent
    <3>1. PICK o \in 1 .. r : j = len + o
      BY <1>02, <2>2
    <3>2. k + n \in 1 .. Len(held) /\ k + o \in 1 .. Len(held) /\ k + n < k + o
      BY <3>1, <2>2, <1>04
    <3>3. held[k + o].urgent
      BY <3>1, <1>07
    <3>4. held[k + n].urgent
      BY <3>2, <3>3 DEF QueueIInv, UrgentFirst
    <3> QED BY <3>4, <2>2, <1>07
  <2> QED BY <2>1, <2>2, <1>02
<1>4. BlocksKeepTheirOrder'
  <2> SUFFICES ASSUME NEW i \in 1 .. len + r
               PROVE  /\ \/ i > 1 /\ Precedes(held'[i - 1], held'[i])
                         \/ /\ held'[i].instr.at = done[held'[i].instr.block] + 1
                            /\ \A h \in 1 .. i - 1 :
                                 held'[h].instr.block # held'[i].instr.block
                      /\ held'[i].instr.at < held'[i].instr.of =>
                           i < len + r /\ Precedes(held'[i], held'[i + 1])
    BY <1>05 DEF BlocksKeepTheirOrder
  <2>1. CASE i \in 1 .. len
    <3>2. held'[i].instr.at < held'[i].instr.of =>
            i < len + r /\ Precedes(held'[i], held'[i + 1])
      <4> SUFFICES ASSUME i < len
                   PROVE  i < len + r /\ Precedes(held'[i], held'[i + 1])
        BY <2>1, <1>08
      <4>1. i < len + r
        OBVIOUS
      <4> QED BY <4>1, <2>1, <1>09
    <3>3. CASE i > 1
      BY <3>2, <3>3, <2>1, <1>09
    <3>4. CASE i = 1
      <4>1. done[pushes + 1] = 0
        BY <1>01 DEF QueueIInv, BlocksAreFresh
      <4>2. 1 .. i - 1 = {}
        BY <3>4
      <4>3. held'[i].instr.at = done[held'[i].instr.block] + 1
        BY <4>1, <3>4, <2>1, <1>08
      <4> QED BY <4>2, <4>3, <3>2
    <3> QED BY <3>3, <3>4, <2>1
  <2>2. ASSUME NEW n \in 1 .. r, i = len + n
        PROVE  /\ \/ i > 1 /\ Precedes(held'[i - 1], held'[i])
                  \/ /\ held'[i].instr.at = done[held'[i].instr.block] + 1
                     /\ \A h \in 1 .. i - 1 :
                          held'[h].instr.block # held'[i].instr.block
               /\ held'[i].instr.at < held'[i].instr.of =>
                    i < len + r /\ Precedes(held'[i], held'[i + 1])
    <3>0. held'[len + n] = held[k + n] /\ k + n \in 1 .. Len(held)
      BY <1>04, <1>07
    <3>1. held'[i] = held[k + n] /\ k + n \in 1 .. Len(held)
      BY <3>0, <2>2
    <3>5a. StandsInOrder(k + n) /\ IsFollowed(k + n)
      BY <3>1, OrderOfHeld
    <3>2. \/ k + n > 1 /\ Precedes(held[k + n - 1], held[k + n])
          \/ /\ held[k + n].instr.at = done[held[k + n].instr.block] + 1
             /\ \A h \in 1 .. k + n - 1 :
                  held[h].instr.block # held[k + n].instr.block
      BY <3>5a DEF StandsInOrder
    <3>3. held[k + n].instr.at < held[k + n].instr.of =>
            k + n < Len(held) /\ Precedes(held[k + n], held[k + n + 1])
      BY <3>5a DEF IsFollowed
    <3>4. held'[i].instr.at < held'[i].instr.of =>
            i < len + r /\ Precedes(held'[i], held'[i + 1])
      <4> SUFFICES ASSUME k + n < k + r, Precedes(held[k + n], held[k + n + 1])
                   PROVE  i < len + r /\ Precedes(held'[i], held'[i + 1])
        BY <3>1, <3>3, <1>04
      <4>1. n + 1 \in 1 .. r /\ i < len + r
        BY <2>2
      <4>2. i + 1 = len + (n + 1) /\ k + n + 1 = k + (n + 1)
        BY <2>2
      <4>3. held'[i + 1] = held[k + n + 1]
        BY <4>1, <4>2, <1>07
      <4> QED BY <4>1, <4>3, <3>1
    <3>5. CASE k + n > 1 /\ Precedes(held[k + n - 1], held[k + n]) /\ n > 1
      <4>1. n - 1 \in 1 .. r /\ i > 1
        BY <3>5, <2>2
      <4>2. i - 1 = len + (n - 1) /\ k + n - 1 = k + (n - 1)
        BY <2>2
      <4>3. held'[i - 1] = held[k + n - 1]
        BY <4>1, <4>2, <1>07
      <4> QED BY <4>1, <4>3, <3>1, <3>4, <3>5
    <3>6. CASE k + n > 1 /\ Precedes(held[k + n - 1], held[k + n]) /\ n = 1
      <4>1. k \in 1 .. k /\ k \in 1 .. Len(held) /\ k + n - 1 = k
        BY <3>6, <1>04
      <4>2. held[k] \in NumberedEntry
        BY <4>1, <1>01
      <4>3. held[k + n].important = held[k].important
        BY <4>1, <4>2, <3>6, PrecedesKeepsFlags
      <4> QED BY <4>1, <4>3, <1>04
    <3>7. CASE /\ held[k + n].instr.at = done[held[k + n].instr.block] + 1
               /\ \A h \in 1 .. k + n - 1 :
                    held[h].instr.block # held[k + n].instr.block
      <4>1. ASSUME NEW h \in 1 .. i - 1
            PROVE  held'[h].instr.block # held[k + n].instr.block
        <5>1. CASE h \in 1 .. len
          <6>1. held'[h].instr.block = pushes + 1
            BY <5>1, <1>08
          <6>2. held[k + n].instr.block \in Nat /\ held[k + n].instr.block <= pushes
            BY <1>03
          <6>3. held[k + n].instr.block # pushes + 1
            BY <6>2, <1>01
          <6> QED BY <6>1, <6>3
        <5>2. ASSUME NEW o \in 1 .. r, h = len + o
              PROVE  held'[h].instr.block # held[k + n].instr.block
          <6>1. k + o \in 1 .. k + n - 1
            BY <5>2, <2>2
          <6>2. held'[len + o] = held[k + o]
            BY <1>07
          <6>3. held'[h] = held[k + o]
            BY <5>2, <6>2
          <6> QED BY <6>1, <6>3, <3>7
        <5>3. h \in 1 .. len + r
          BY <2>2
        <5> QED BY <5>1, <5>2, <5>3, <1>02
      <4> QED BY <4>1, <3>1, <3>4, <3>7
    <3> QED BY <3>2, <3>5, <3>6, <3>7
  <2> QED BY <2>1, <2>2, <1>02
<1>5. BlocksAreFresh'
  <2>1. ASSUME NEW i \in 1 .. len + r
        PROVE  held'[i].instr.block <= pushes + 1
    <3>1. CASE i \in 1 .. len
      BY <3>1, <1>01, <1>08
    <3>2. ASSUME NEW n \in 1 .. r, i = len + n
          PROVE  held'[i].instr.block <= pushes + 1
      <4>1. held'[len + n] = held[k + n]
        BY <1>07
      <4>2. held'[i] = held[k + n]
        BY <4>1, <3>2
      <4>3. held[k + n].instr.block \in Nat /\ held[k + n].instr.block <= pushes
        BY <1>03
      <4>4. held[k + n].instr.block <= pushes + 1
        BY <4>3, <1>01
      <4> QED BY <4>2, <4>4
    <3> QED BY <3>1, <3>2, <1>02
  <2> QED BY <2>1, <1>01, <1>05 DEF QueueIInv, BlocksAreFresh, BlockId
<1> QED BY <1>1, <1>2, <1>3, <1>4, <1>5 DEF QueueIInv

(* A new block behind what is queued. *)
Appended(es, len) ==
  /\ held' \in Seq(NumberedEntry)
  /\ Len(held') = Len(held) + len
  /\ \A i \in 1 .. Len(held) : held'[i] = held[i]
  /\ \A n \in 1 .. len : held'[Len(held) + n] = es[n] /\ ~es[n].urgent

LEMMA AppendKeepsInvariant ==
  ASSUME QueueIInv, pushes < MaxPushes, pushes' = pushes + 1, done' = done,
         NEW es, NEW len \in Nat, NewBlock(es, len), Appended(es, len),
         Len(held) = 0 \/ \A n \in 1 .. len : es[n].important
  PROVE  QueueIInv'
<1>01. /\ held \in Seq(NumberedEntry) /\ done \in [BlockId -> Nat] /\ pushes \in Nat
       /\ pushes + 1 \in BlockId
  BY MaxPushesAssumption DEF QueueIInv, QueueTypeOK, BlockId
<1>02. PICK m \in Nat : m = Len(held)
  BY <1>01
<1>03. /\ held' \in Seq(NumberedEntry)
       /\ Len(held') = m + len
       /\ \A i \in 1 .. m : held'[i] = held[i]
       /\ \A n \in 1 .. len : held'[m + n] = es[n]
  BY <1>02 DEF Appended
<1>04. \A i \in 1 .. m + len : i \in 1 .. m \/ \E n \in 1 .. len : i = m + n
  <2> TAKE i \in 1 .. m + len
  <2>1. i > m => i - m \in 1 .. len /\ i = m + (i - m)
    OBVIOUS
  <2> QED BY <2>1
<1>05. \A n \in 1 .. len :
         /\ held'[m + n].instr.block = pushes + 1
         /\ held'[m + n].instr.at = n
         /\ held'[m + n].instr.of = len
         /\ ~held'[m + n].urgent
         /\ n > 1 => Precedes(held'[m + (n - 1)], held'[m + n])
         /\ n < len => Precedes(held'[m + n], held'[m + (n + 1)])
  <2> TAKE n \in 1 .. len
  <2>1. n > 1 => n - 1 \in 1 .. len
    OBVIOUS
  <2>2. n < len => n + 1 \in 1 .. len
    OBVIOUS
  <2>3. held'[m + n] = es[n] /\ ~es[n].urgent
    BY <1>02, <1>03 DEF Appended
  <2> QED BY <2>1, <2>2, <2>3, <1>03 DEF NewBlock
<1>06. \A n1, n2 \in 1 .. len :
         held'[m + n1].important = held'[m + n2].important
  <2> TAKE n1, n2 \in 1 .. len
  <2>1. es[n1].important = es[n2].important
    BY DEF NewBlock
  <2>2. held'[m + n1] = es[n1] /\ held'[m + n2] = es[n2]
    BY <1>03
  <2> QED BY <2>1, <2>2
<1>07. m = 0 \/ \A n \in 1 .. len : held'[m + n].important
  <2>1. CASE m = 0
    BY <2>1
  <2>2. CASE m # 0
    <3>1. \A n \in 1 .. len : es[n].important
      BY <2>2, <1>02
    <3> QED BY <3>1, <1>03
  <2> QED BY <2>1, <2>2
<1>08. \A i \in 1 .. m :
         /\ held[i].instr.block \in Nat
         /\ held[i].instr.block <= pushes
  <2> TAKE i \in 1 .. m
  <2>1. held[i] \in NumberedEntry
    BY <1>01, <1>02
  <2> QED BY <2>1, <1>02 DEF NumberedEntry, Numbered, BlockId, QueueIInv, BlocksAreFresh
<1>1. QueueTypeOK'
  BY <1>01, <1>03 DEF QueueIInv, QueueTypeOK, BlockId
<1>2. NonImportantFirst'
  <2> SUFFICES ASSUME NEW i \in 1 .. m + len, NEW j \in 1 .. m + len,
                      i < j, ~held'[j].important
               PROVE  /\ ~held'[i].important
                      /\ held'[i].instr.block = held'[j].instr.block
    BY <1>03 DEF NonImportantFirst
  <2>1. CASE j \in 1 .. m
    <3>1. i \in 1 .. m
      BY <2>1
    <3> QED BY <2>1, <3>1, <1>02, <1>03 DEF QueueIInv, NonImportantFirst
  <2>2. ASSUME NEW n \in 1 .. len, j = m + n
        PROVE  /\ ~held'[i].important
               /\ held'[i].instr.block = held'[j].instr.block
    <3>1. ~held'[m + n].important
      BY <2>2
    <3>2. m = 0
      BY <3>1, <1>07
    <3>3. PICK o \in 1 .. len : i = m + o
      BY <3>2, <1>04
    <3>4. /\ ~held'[m + o].important
          /\ held'[m + o].instr.block = held'[m + n].instr.block
      BY <3>1, <1>05, <1>06
    <3> QED BY <3>3, <3>4, <2>2
  <2> QED BY <2>1, <2>2, <1>04
<1>3. UrgentFirst'
  <2> SUFFICES ASSUME NEW i \in 1 .. m + len, NEW j \in 1 .. m + len,
                      i < j, held'[j].urgent
               PROVE  held'[i].urgent
    BY <1>03 DEF UrgentFirst
  <2>1. j \in 1 .. m
    BY <1>04, <1>05
  <2>2. i \in 1 .. m
    BY <2>1
  <2> QED BY <2>1, <2>2, <1>02, <1>03 DEF QueueIInv, UrgentFirst
<1>4. BlocksKeepTheirOrder'
  <2> SUFFICES ASSUME NEW i \in 1 .. m + len
               PROVE  /\ \/ i > 1 /\ Precedes(held'[i - 1], held'[i])
                         \/ /\ held'[i].instr.at = done[held'[i].instr.block] + 1
                            /\ \A h \in 1 .. i - 1 :
                                 held'[h].instr.block # held'[i].instr.block
                      /\ held'[i].instr.at < held'[i].instr.of =>
                           i < m + len /\ Precedes(held'[i], held'[i + 1])
    BY <1>03 DEF BlocksKeepTheirOrder
  <2>1. CASE i \in 1 .. m
    <3>1. /\ \/ i > 1 /\ Precedes(held[i - 1], held[i])
             \/ /\ held[i].instr.at = done[held[i].instr.block] + 1
                /\ \A h \in 1 .. i - 1 : held[h].instr.block # held[i].instr.block
          /\ held[i].instr.at < held[i].instr.of =>
               i < m /\ Precedes(held[i], held[i + 1])
      BY <2>1, <1>02 DEF QueueIInv, BlocksKeepTheirOrder
    <3>2. /\ held'[i] = held[i]
          /\ i > 1 => held'[i - 1] = held[i - 1]
          /\ i < m => held'[i + 1] = held[i + 1]
          /\ \A h \in 1 .. i - 1 : held'[h] = held[h]
      <4>1. /\ i > 1 => i - 1 \in 1 .. m
            /\ i < m => i + 1 \in 1 .. m
            /\ \A h \in 1 .. i - 1 : h \in 1 .. m
        BY <2>1
      <4> QED BY <4>1, <2>1, <1>03
    <3>3. i < m => i < m + len
      OBVIOUS
    <3> QED BY <3>1, <3>2, <3>3
  <2>2. ASSUME NEW n \in 1 .. len, i = m + n
        PROVE  /\ \/ i > 1 /\ Precedes(held'[i - 1], held'[i])
                  \/ /\ held'[i].instr.at = done[held'[i].instr.block] + 1
                     /\ \A h \in 1 .. i - 1 :
                          held'[h].instr.block # held'[i].instr.block
               /\ held'[i].instr.at < held'[i].instr.of =>
                    i < m + len /\ Precedes(held'[i], held'[i + 1])
    <3>1. /\ held'[i].instr.block = pushes + 1
          /\ held'[i].instr.at = n
          /\ held'[i].instr.of = len
          /\ n > 1 => Precedes(held'[m + (n - 1)], held'[i])
          /\ n < len => Precedes(held'[i], held'[m + (n + 1)])
      BY <2>2, <1>05
    <3>2. m + (n - 1) = i - 1 /\ m + (n + 1) = i + 1 /\ (n < len => i < m + len)
      BY <2>2
    <3>3. n < len => i < m + len /\ Precedes(held'[i], held'[i + 1])
      BY <3>1, <3>2
    <3>4. CASE n > 1
      <4>1. i > 1
        BY <3>4, <2>2
      <4> QED BY <4>1, <3>1, <3>2, <3>3, <3>4
    <3>5. CASE n = 1
      <4>1. done[pushes + 1] = 0
        BY <1>01 DEF QueueIInv, BlocksAreFresh
      <4>2. held'[i].instr.at = done[held'[i].instr.block] + 1
        BY <4>1, <3>1, <3>5
      <4>3. \A h \in 1 .. i - 1 : h \in 1 .. m
        BY <2>2, <3>5
      <4>4. \A h \in 1 .. i - 1 : held'[h].instr.block # pushes + 1
        <5> TAKE h \in 1 .. i - 1
        <5>1. held'[h] = held[h]
          BY <4>3, <1>03
        <5>2. held[h].instr.block \in Nat /\ held[h].instr.block <= pushes
          BY <4>3, <1>08
        <5>3. held[h].instr.block # pushes + 1
          BY <5>2, <1>01
        <5> QED BY <5>1, <5>3
      <4> QED BY <4>2, <4>4, <3>1, <3>3
    <3> QED BY <3>4, <3>5
  <2> QED BY <2>1, <2>2, <1>04
<1>5. BlocksAreFresh'
  <2>1. ASSUME NEW i \in 1 .. m + len
        PROVE  held'[i].instr.block <= pushes + 1
    <3>1. CASE i \in 1 .. m
      <4>1. held[i].instr.block \in Nat /\ held[i].instr.block <= pushes
        BY <3>1, <1>08
      <4>2. held[i].instr.block <= pushes + 1
        BY <4>1, <1>01
      <4> QED BY <4>2, <3>1, <1>03
    <3>2. ASSUME NEW n \in 1 .. len, i = m + n
          PROVE  held'[i].instr.block <= pushes + 1
      <4>1. held'[i].instr.block = pushes + 1
        BY <3>2, <1>05
      <4> QED BY <4>1, <1>01
    <3> QED BY <3>1, <3>2, <1>04
  <2> QED BY <2>1, <1>01, <1>03 DEF QueueIInv, BlocksAreFresh, BlockId
<1> QED BY <1>1, <1>2, <1>3, <1>4, <1>5 DEF QueueIInv

(* What Entries makes of a block that the model pushes. *)
LEMMA EntriesAreNewBlock ==
  ASSUME QueueIInv, pushes < MaxPushes,
         NEW len \in Nat, NEW important \in BOOLEAN, NEW urgent \in BOOLEAN
  PROVE  LET es == Entries(NumberedBlock(pushes + 1, len), important, urgent) IN
         /\ es \in Seq(NumberedEntry)
         /\ Len(es) = len
         /\ NewBlock(es, len)
         /\ \A i \in 1 .. len :
              es[i].important = important /\ es[i].urgent = urgent
         /\ NumberedBlock(pushes + 1, len) = <<>> <=> len = 0
<1> DEFINE blk == NumberedBlock(pushes + 1, len)
           es == Entries(blk, important, urgent)
           new(i) == [instr |-> [block |-> pushes + 1, at |-> i, of |-> len],
                      important |-> important, urgent |-> urgent]
<1>1. pushes + 1 \in BlockId
  BY MaxPushesAssumption DEF QueueIInv, QueueTypeOK, BlockId
<1>2. Len(blk) = len /\ (blk = <<>> <=> len = 0)
  BY DEF NumberedBlock
<1>3. es = [i \in 1 .. len |-> new(i)]
  BY <1>2 DEF Entries, MakeEntry, NumberedBlock
<1>4. \A i \in 1 .. len : new(i) \in NumberedEntry
  BY <1>1 DEF NumberedEntry, Numbered
<1>5. \A i \in 1 .. len :
        /\ i > 1 => Precedes(new(i - 1), new(i))
        /\ i < len => Precedes(new(i), new(i + 1))
  BY DEF Precedes
<1>6. \A i \in 1 .. len :
        /\ new(i).instr.block = pushes + 1
        /\ new(i).instr.at = i
        /\ new(i).instr.of = len
        /\ new(i).important = important
        /\ new(i).urgent = urgent
  OBVIOUS
<1> HIDE DEF es, new, blk
<1>7. es \in [1 .. len -> NumberedEntry]
  BY <1>3, <1>4
<1>8. es \in Seq(NumberedEntry) /\ Len(es) = len
  BY <1>7
<1>9. \A i \in 1 .. len :
        /\ es[i] = new(i)
        /\ i > 1 => es[i - 1] = new(i - 1)
        /\ i < len => es[i + 1] = new(i + 1)
  <2> TAKE i \in 1 .. len
  <2>1. (i > 1 => i - 1 \in 1 .. len) /\ (i < len => i + 1 \in 1 .. len)
    OBVIOUS
  <2> QED BY <2>1, <1>3
<1>10. NewBlock(es, len)
  BY <1>5, <1>6, <1>9 DEF NewBlock
<1> QED BY <1>2, <1>6, <1>8, <1>9, <1>10 DEF es, blk

(* What a push does is one of three things: nothing, put a block in front  *)
(* of the important entries, or put it behind all of them.                 *)
LEMMA PushShapes ==
  ASSUME QueueIInv, NEW len \in BlockLengths,
         NEW important \in BOOLEAN, NEW urgent \in BOOLEAN,
         QueuePush(len, important, urgent)
  PROVE  /\ pushes < MaxPushes /\ pushes' = pushes + 1 /\ done' = done /\ len \in Nat
         /\ \/ held' = held
            \/ \E es, k, r :
                 /\ k \in Nat /\ r \in Nat
                 /\ NewBlock(es, len) /\ Cut(k, r) /\ Prepended(es, len, k, r)
            \/ \E es :
                 /\ NewBlock(es, len) /\ Appended(es, len)
                 /\ Len(held) = 0 \/ \A n \in 1 .. len : es[n].important
<1> DEFINE es == Entries(NumberedBlock(pushes + 1, len), important, urgent)
<1>1. /\ len \in Nat /\ pushes < MaxPushes /\ pushes' = pushes + 1 /\ done' = done
      /\ held' = PushBlock(held, NumberedBlock(pushes + 1, len), important, urgent)
  BY BlockLengthsAssumption DEF QueuePush
<1>2. /\ es \in Seq(NumberedEntry) /\ Len(es) = len /\ NewBlock(es, len)
      /\ \A i \in 1 .. len : es[i].important = important /\ es[i].urgent = urgent
      /\ NumberedBlock(pushes + 1, len) = <<>> <=> len = 0
  BY <1>1, EntriesAreNewBlock
<1>3. held \in Seq(NumberedEntry) /\ pushes \in 0 .. MaxPushes /\ done \in [BlockId -> Nat]
  BY DEF QueueIInv, QueueTypeOK
<1> HIDE DEF es
<1>5. CASE len # 0 /\ urgent
  <2>1. held' = es \o RemoveNonImportant(held)
    BY <1>1, <1>2, <1>5 DEF PushBlock, es
  <2>2. \A i, j \in 1 .. Len(held) :
          i < j /\ ~held[j].important => ~held[i].important
    BY DEF QueueIInv, NonImportantFirst
  <2>3. PICK k \in 0 .. Len(held) :
          /\ \A i \in 1 .. k : ~held[i].important
          /\ \A i \in k + 1 .. Len(held) : held[i].important
          /\ RemoveNonImportant(held) = Dropped(held, k)
    BY <1>3, <2>2, RemoveNonImportantCuts DEF Dropped, ImportantLast
  <2>4. PICK r \in Nat : r = Len(held) - k /\ Len(held) = k + r
    BY <1>3
  <2>5. /\ Dropped(held, k) \in Seq(NumberedEntry)
        /\ Len(Dropped(held, k)) = r
        /\ \A n \in 1 .. r : Dropped(held, k)[n] = held[k + n]
    BY <1>3, <2>4, DroppedIsSeq
  <2>6. Cut(k, r)
    <3>1. \A n \in 1 .. r : k + n \in k + 1 .. Len(held)
      BY <2>4
    <3> QED BY <3>1, <2>3, <2>4 DEF Cut
  <2>7. /\ held' \in Seq(NumberedEntry)
        /\ Len(held') = len + r
        /\ \A i \in 1 .. len : held'[i] = es[i]
    <3> DEFINE d == Dropped(held, k)
    <3>1. d \in Seq(NumberedEntry) /\ Len(d) = r
      BY <2>5
    <3>2. held' = es \o d
      BY <2>1, <2>3
    <3> HIDE DEF d
    <3>3. es \o d \in Seq(NumberedEntry) /\ Joins(es \o d, es, d)
      BY <1>2, <3>1, ConcatElements
    <3>4. held' \in Seq(NumberedEntry) /\ Joins(held', es, d)
      BY <3>2, <3>3
    <3>5. Len(held') = len + r
      BY <1>2, <3>1, <3>4 DEF Joins
    <3>6. ASSUME NEW i \in 1 .. len
          PROVE  held'[i] = es[i]
      <4>1. i \in 1 .. Len(held') /\ ~(i > Len(es))
        BY <1>1, <1>2, <3>5
      <4> QED BY <3>4, <4>1 DEF Joins
    <3> QED BY <3>4, <3>5, <3>6
  <2>8. \A n \in 1 .. r : held'[len + n] = held[k + n]
    <3> TAKE n \in 1 .. r
    <3>1. len + n \in 1 .. len + r /\ ~(len + n <= len) /\ (len + n) - len = n
      BY <1>1
    <3>2. (es \o Dropped(held, k))[len + n] = Dropped(held, k)[n]
      <4> DEFINE d == Dropped(held, k)
                 at == len + n
      <4>1. d \in Seq(NumberedEntry) /\ Len(es) = len /\ Len(d) = r
        BY <1>2, <2>5
      <4> HIDE DEF d
      <4>2. Joins(es \o d, es, d)
        BY <1>2, <4>1, ConcatElements
      <4>3. at = Len(es) + n /\ n \in 1 .. Len(d)
        BY <4>1
      <4> HIDE DEF at
      <4>4. (es \o d)[at] = d[n]
        BY <4>2, <4>3 DEF Joins
      <4> QED BY <4>4 DEF d, at
    <3> QED BY <3>2, <2>1, <2>3, <2>5
  <2>9. \A i \in 1 .. len : es[i].urgent
    BY <1>2, <1>5
  <2>10. Prepended(es, len, k, r)
    BY <2>7, <2>8, <2>9 DEF Prepended
  <2> QED BY <1>1, <1>2, <2>6, <2>10, k \in Nat
<1>6. CASE len # 0 /\ ~urgent /\ (important \/ held = <<>>)
  <2>1. held' = held \o es
    BY <1>1, <1>2, <1>6 DEF PushBlock, es
  <2>2. /\ held' \in Seq(NumberedEntry)
        /\ Len(held') = Len(held) + len
        /\ \A i \in 1 .. Len(held) : held'[i] = held[i]
    <3>1. \A i \in 1 .. Len(held) : i \in 1 .. Len(held) + Len(es)
      BY <1>2, <1>3
    <3>2. held \o es \in Seq(NumberedEntry) /\ Len(held \o es) = Len(held) + Len(es)
      BY <1>2, <1>3, ConcatProperties
    <3>3. \A i \in 1 .. Len(held) : (held \o es)[i] = held[i]
      BY <1>2, <1>3, <3>1, ConcatProperties
    <3> QED BY <3>2, <3>3, <1>2, <2>1
  <2>3. \A n \in 1 .. len : held'[Len(held) + n] = es[n]
    <3> TAKE n \in 1 .. len
    <3>1. /\ Len(held) + n \in 1 .. Len(held) + len
          /\ ~(Len(held) + n <= Len(held))
          /\ (Len(held) + n) - Len(held) = n
      BY <1>1, <1>3
    <3> QED BY <1>2, <1>3, <2>1, <3>1, ConcatProperties
  <2>4. \A n \in 1 .. len : ~es[n].urgent
    BY <1>2, <1>6
  <2>5. Appended(es, len)
    BY <2>2, <2>3, <2>4 DEF Appended
  <2>6. Len(held) = 0 \/ \A n \in 1 .. len : es[n].important
    BY <1>2, <1>6
  <2> QED BY <1>1, <1>2, <2>5, <2>6
<1>7. CASE len = 0 \/ (~urgent /\ ~important /\ held # <<>>)
  BY <1>1, <1>2, <1>7 DEF PushBlock
<1> QED BY <1>5, <1>6, <1>7

LEMMA PushKeepsInvariant ==
  ASSUME QueueIInv, NEW len \in BlockLengths,
         NEW important \in BOOLEAN, NEW urgent \in BOOLEAN,
         QueuePush(len, important, urgent)
  PROVE  QueueIInv'
<1>1. /\ pushes < MaxPushes /\ pushes' = pushes + 1 /\ done' = done /\ len \in Nat
      /\ \/ held' = held
         \/ \E es, k, r :
              /\ k \in Nat /\ r \in Nat
              /\ NewBlock(es, len) /\ Cut(k, r) /\ Prepended(es, len, k, r)
         \/ \E es :
              /\ NewBlock(es, len) /\ Appended(es, len)
              /\ Len(held) = 0 \/ \A n \in 1 .. len : es[n].important
  BY PushShapes
<1>2. CASE held' = held
  <2>1. QueueTypeOK'
    BY <1>1, <1>2, MaxPushesAssumption DEF QueueIInv, QueueTypeOK
  <2>2. NonImportantFirst' /\ UrgentFirst'
    BY <1>2 DEF QueueIInv, NonImportantFirst, UrgentFirst
  <2>3. BlocksKeepTheirOrder'
    BY <1>1, <1>2 DEF QueueIInv, BlocksKeepTheirOrder
  <2>4. BlocksAreFresh'
    <3>1. \A i \in 1 .. Len(held) : held[i].instr.block \in Nat
      <4> TAKE i \in 1 .. Len(held)
      <4>1. held[i] \in NumberedEntry
        BY DEF QueueIInv, QueueTypeOK
      <4> QED BY <4>1 DEF NumberedEntry, Numbered, BlockId
    <3>2. pushes \in Nat
      BY MaxPushesAssumption DEF QueueIInv, QueueTypeOK
    <3> QED BY <1>1, <1>2, <3>1, <3>2 DEF QueueIInv, BlocksAreFresh, BlockId
  <2> QED BY <2>1, <2>2, <2>3, <2>4 DEF QueueIInv
<1>3. CASE \E es, k, r :
             /\ k \in Nat /\ r \in Nat
             /\ NewBlock(es, len) /\ Cut(k, r) /\ Prepended(es, len, k, r)
  BY <1>1, <1>3, PrependKeepsInvariant
<1>4. CASE \E es :
             /\ NewBlock(es, len) /\ Appended(es, len)
             /\ Len(held) = 0 \/ \A n \in 1 .. len : es[n].important
  BY <1>1, <1>4, AppendKeepsInvariant
<1> QED BY <1>1, <1>2, <1>3, <1>4

-----------------------------------------------------------------------------
(* The theorems *)

LEMMA InitInvariant == QueueInit => QueueIInv
BY MaxPushesAssumption DEF QueueInit, QueueIInv, QueueTypeOK, NonImportantFirst, UrgentFirst,
   BlocksKeepTheirOrder, BlocksAreFresh

LEMMA NextInvariant == QueueIInv /\ [QueueNext]_queueVars => QueueIInv'
<1> SUFFICES ASSUME QueueIInv, [QueueNext]_queueVars PROVE QueueIInv'
  OBVIOUS
<1>1. CASE \E len \in BlockLengths, important, urgent \in BOOLEAN :
             QueuePush(len, important, urgent)
  BY <1>1, PushKeepsInvariant
<1>2. CASE PopNext
  BY <1>2, PopNextKeepsInvariant
<1>3. CASE PopNextUrgent
  BY <1>3, PopNextUrgentKeepsInvariant
<1>4. CASE DropNonImportant
  BY <1>4, ExitBlockKeepsInvariant
<1>5. CASE Clear
  BY <1>5, ClearKeepsInvariant
<1>6. CASE UNCHANGED queueVars
  BY <1>6 DEF queueVars, QueueIInv, QueueTypeOK, NonImportantFirst, UrgentFirst,
              BlocksKeepTheirOrder, BlocksAreFresh
<1> QED BY <1>1, <1>2, <1>3, <1>4, <1>5, <1>6 DEF QueueNext

LEMMA Invariance == QueueSpec => []QueueIInv
BY InitInvariant, NextInvariant, PTL DEF QueueSpec

(* The queue only ever holds entries of pushed blocks. *)
THEOREM QueueTypeCorrect == QueueSpec => []QueueTypeOK
BY Invariance, PTL DEF QueueIInv

(* remove_non_important always drops the rest of a single block, from the  *)
(* front of the queue.                                                     *)
THEOREM NonImportantEntriesStandFirst == QueueSpec => []NonImportantFirst
BY Invariance, PTL DEF QueueIInv

(* pop_next(urgent_only=True) never overtakes another entry. *)
THEOREM UrgentEntriesStandFirst == QueueSpec => []UrgentFirst
BY Invariance, PTL DEF QueueIInv

(* Every block is executed from its first instruction on, without gap,     *)
(* repetition or interleaving, until it is finished or cut short.          *)
THEOREM BlocksRunInOrder == QueueSpec => []BlocksKeepTheirOrder
BY Invariance, PTL DEF QueueIInv

(* Important entries are kept, in their order, by an EXIT_BLOCK and by a   *)
(* push of any urgency.                                                    *)
LEMMA StepKeepsImportant ==
  ASSUME QueueIInv, [QueueNext]_queueVars, DropNonImportant \/ pushes' # pushes,
         NEW i \in ImportantAt(held), NEW j \in ImportantAt(held), i <= j
  PROVE  \E k, l \in 1 .. Len(held') :
           k <= l /\ held'[k] = held[i] /\ held'[l] = held[j]
<1>1. /\ held \in Seq(NumberedEntry) /\ Len(held) \in Nat
      /\ i \in 1 .. Len(held) /\ held[i].important
      /\ j \in 1 .. Len(held) /\ held[j].important
  BY DEF QueueIInv, QueueTypeOK, ImportantAt
<1>2. CASE DropNonImportant
  <2>1. \A a, b \in 1 .. Len(held) :
          a < b /\ ~held[b].important => ~held[a].important
    BY DEF QueueIInv, NonImportantFirst
  <2>2. PICK k \in 0 .. Len(held) :
          /\ \A n \in 1 .. k : ~held[n].important
          /\ RemoveNonImportant(held) = Dropped(held, k)
    BY <1>1, <2>1, RemoveNonImportantCuts DEF Dropped, ImportantLast
  <2>3. held' = Dropped(held, k)
    BY <1>2, <2>2 DEF DropNonImportant
  <2>4. /\ Len(held') = Len(held) - k
        /\ \A n \in 1 .. Len(held) - k : held'[n] = held[k + n]
    BY <1>1, <2>3, DroppedIsSeq
  <2>5. ~(i \in 1 .. k) /\ ~(j \in 1 .. k)
    BY <1>1, <2>2
  <2>6. /\ i - k \in 1 .. Len(held) - k /\ k + (i - k) = i
        /\ j - k \in 1 .. Len(held) - k /\ k + (j - k) = j
        /\ i - k <= j - k
    BY <1>1, <2>5
  <2>7. held'[i - k] = held[i] /\ held'[j - k] = held[j]
    BY <2>4, <2>6
  <2> QED BY <2>4, <2>6, <2>7
<1>3. CASE pushes' # pushes
  <2>1. PICK len \in BlockLengths, important, urgent \in BOOLEAN :
          QueuePush(len, important, urgent)
    BY <1>3 DEF QueueNext, PopNext, PopNextUrgent, DropNonImportant, Clear, queueVars
  <2>2. /\ len \in Nat
        /\ \/ held' = held
           \/ \E es, k, r :
                /\ k \in Nat /\ r \in Nat
                /\ NewBlock(es, len) /\ Cut(k, r) /\ Prepended(es, len, k, r)
           \/ \E es :
                /\ NewBlock(es, len) /\ Appended(es, len)
                /\ Len(held) = 0 \/ \A n \in 1 .. len : es[n].important
    BY <2>1, PushShapes
  <2>3. CASE held' = held
    BY <1>1, <2>3
  <2>4. ASSUME NEW es, NEW k \in Nat, NEW r \in Nat,
               Cut(k, r), Prepended(es, len, k, r)
        PROVE  \E a, b \in 1 .. Len(held') :
                 a <= b /\ held'[a] = held[i] /\ held'[b] = held[j]
    <3>1. ~(i \in 1 .. k) /\ ~(j \in 1 .. k) /\ Len(held) = k + r
      BY <1>1, <2>4 DEF Cut
    <3>2. PICK a \in 1 .. r : i = k + a
      <4>1. i - k \in 1 .. r /\ i = k + (i - k)
        BY <1>1, <3>1
      <4> QED BY <4>1
    <3>3. PICK b \in 1 .. r : j = k + b
      <4>1. j - k \in 1 .. r /\ j = k + (j - k)
        BY <1>1, <3>1
      <4> QED BY <4>1
    <3>4. held'[len + a] = held[k + a] /\ held'[len + b] = held[k + b]
      BY <2>4 DEF Prepended
    <3>5. len + a \in 1 .. len + r /\ len + b \in 1 .. len + r /\ len + a <= len + b
      BY <2>2, <3>2, <3>3
    <3>6. Len(held') = len + r
      BY <2>4 DEF Prepended
    <3> QED BY <3>2, <3>3, <3>4, <3>5, <3>6
  <2>5. ASSUME NEW es, Appended(es, len)
        PROVE  \E a, b \in 1 .. Len(held') :
                 a <= b /\ held'[a] = held[i] /\ held'[b] = held[j]
    <3>1. /\ Len(held') = Len(held) + len
          /\ held'[i] = held[i] /\ held'[j] = held[j]
      BY <1>1, <2>5 DEF Appended
    <3>2. i \in 1 .. Len(held') /\ j \in 1 .. Len(held')
      BY <1>1, <2>2, <3>1
    <3> QED BY <3>1, <3>2
  <2> QED BY <2>2, <2>3, <2>4, <2>5
<1> QED BY <1>2, <1>3

(* Neither a push nor an EXIT_BLOCK loses an important entry or makes one  *)
(* overtake another: only being popped and clear() remove it.              *)
THEOREM ImportantEntriesSurvive == QueueSpec => ImportantSurvives
<1>1. QueueIInv /\ [QueueNext]_queueVars =>
        [DropNonImportant \/ pushes' # pushes =>
           \A i, j \in ImportantAt(held) : i <= j =>
             \E k, l \in 1 .. Len(held') :
               /\ k <= l
               /\ held'[k] = held[i]
               /\ held'[l] = held[j]]_queueVars
  BY StepKeepsImportant
<1> QED BY <1>1, Invariance, PTL DEF QueueSpec, ImportantSurvives

-----------------------------------------------------------------------------
(* The loop of a destination                                               *)

Data == [block : Seq(Instruction), important : BOOLEAN, urgent : BOOLEAN]

(* Trigger data wait to be pushed during the tick only.                    *)
MatchedDuringTick == matched # <<>> => pc \in {"scan", "push"}

(* No trigger has the terminate instruction of an urgent event.            *)
MatchedArePlain ==
  \A i \in 1 .. Len(matched) : \A j \in 1 .. Len(matched[i].block) :
    ~matched[i].block[j].fromEvent

IInv ==
  /\ TypeOK
  /\ ImportantLast(queue)
  /\ UrgentLead(queue)
  /\ MatchedDuringTick
  /\ MatchedArePlain
  /\ EventDataIsThere
  /\ UrgentEventsActAtOnce

NoneFromEvent(q) == \A i \in 1 .. Len(q) : ~q[i].instr.fromEvent

Backed(q, ev) == \A i \in 1 .. Len(q) : q[i].instr.owner # 0 => ev # 0

BlocksBacked(m, ev) ==
  \A i \in 1 .. Len(m) : \A j \in 1 .. Len(m[i].block) : m[i].block[j].owner # 0 => ev # 0

LEMMA EventDataParts ==
  EventDataIsThere <=> Backed(queue, event) /\ BlocksBacked(matched, event)
BY DEF EventDataIsThere, Backed, BlocksBacked

LEMMA OnlyInExec ==
  ASSUME UrgentEventsActAtOnce, pc # "exec"
  PROVE  NoneFromEvent(queue)
BY DEF UrgentEventsActAtOnce, NoneFromEvent

-----------------------------------------------------------------------------
(* What is appended comes last. *)
LEMMA AppendElements ==
  ASSUME NEW T, NEW s \in Seq(T), NEW x \in T
  PROVE  /\ Append(s, x) \in Seq(T)
         /\ \A i \in 1 .. Len(Append(s, x)) :
              Append(s, x)[i] = x \/ \E j \in 1 .. Len(s) : Append(s, x)[i] = s[j]
<1>1. Len(s) \in Nat /\ Len(Append(s, x)) = Len(s) + 1 /\ Append(s, x) \in Seq(T)
  OBVIOUS
<1>2. ASSUME NEW i \in 1 .. Len(s) + 1
      PROVE  Append(s, x)[i] = x \/ \E j \in 1 .. Len(s) : Append(s, x)[i] = s[j]
  <2>1. CASE i = Len(s) + 1
    BY <2>1
  <2>2. CASE i \in 1 .. Len(s)
    <3>1. Append(s, x)[i] = s[i]
      BY <2>2
    <3> QED BY <2>2, <3>1
  <2> QED BY <1>1, <2>1, <2>2
<1> QED BY <1>1, <1>2

(* The trigger data of one trigger. *)
LEMMA TriggerDataOf ==
  ASSUME NEW t, t.block \in Seq(Act), t.important \in BOOLEAN, t.urgent \in BOOLEAN,
         NEW owner \in Nat
  PROVE  /\ TriggerData(t, owner) \in Data
         /\ \A j \in 1 .. Len(TriggerData(t, owner).block) :
              /\ ~TriggerData(t, owner).block[j].fromEvent
              /\ TriggerData(t, owner).block[j].owner = owner
<1> DEFINE instr(i) == [act |-> t.block[i], fromEvent |-> FALSE, owner |-> owner]
           block == BlockOf(t.block, owner)
           data == TriggerData(t, owner)
<1>1. Len(t.block) \in Nat /\ block = [i \in 1 .. Len(t.block) |-> instr(i)]
  BY DEF BlockOf
<1>2. \A i \in 1 .. Len(t.block) : instr(i) \in Instruction
  BY DEF Instruction
<1>3. \A i : ~instr(i).fromEvent /\ instr(i).owner = owner
  OBVIOUS
<1>4. data = [block |-> block, important |-> t.important, urgent |-> t.urgent]
  BY DEF TriggerData
<1> HIDE DEF instr, block, data
<1>5. block \in Seq(Instruction) /\ Len(block) = Len(t.block)
  BY <1>1, <1>2
<1>6. data \in Data /\ data.block = block
  BY <1>4, <1>5 DEF Data
<1>7. \A j \in 1 .. Len(block) : ~block[j].fromEvent /\ block[j].owner = owner
  BY <1>1, <1>3, <1>5
<1>8. \A j \in 1 .. Len(data.block) : ~data.block[j].fromEvent /\ data.block[j].owner = owner
  BY <1>6, <1>7
<1> QED BY <1>6, <1>8 DEF data

(* pop_next_event returns one of the events there are.                     *)
LEMMA FirstIsThere ==
  ASSUME NEW events, events \subseteq Pending, events # {}
  PROVE  First(events) \in events
<1> DEFINE ids == {p.id : p \in events}
<1>1. \A p \in events : p.id \in Nat
  BY DEF Pending
<1>2. ids \in SUBSET Nat /\ ids # {}
  BY <1>1
<1>3. PICK n \in ids : \A m \in ids : n <= m
  BY <1>2, LeastMember
<1>4. PICK p \in events : p.id = n
  OBVIOUS
<1>5. \A r \in events : p.id <= r.id
  BY <1>3, <1>4
<1> QED BY <1>5 DEF First

-----------------------------------------------------------------------------
(* Steps of the environment and of the loop that leave queue, trigger data *)
(* and event alone.                                                        *)

LEMMA PendingSteps ==
  ASSUME IInv, pending' \subseteq Pending, thrown' \in Nat,
         UNCHANGED <<pc, scanned, matched, queue, wait, event, firings, protected>>
  PROVE  IInv'
BY DEF IInv, TypeOK, MatchedDuringTick, MatchedArePlain, EventDataIsThere, UrgentEventsActAtOnce

LEMMA EnvironmentStep == IInv /\ Environment => IInv'
<1> SUFFICES ASSUME IInv, Environment
             PROVE  IInv'
  OBVIOUS
<1>1. pending \subseteq Pending /\ thrown \in Nat
  BY DEF IInv, TypeOK
<1>2. ASSUME NEW key \in ThrownKeys, NEW delayed \in BOOLEAN, Throw(key, delayed)
      PROVE  IInv'
  <2>1. thrown + 1 \in Nat \ {0}
    BY <1>1
  <2>2. [key |-> key, id |-> thrown + 1, delayed |-> delayed, by |-> 0] \in Pending
    BY <2>1 DEF Pending
  <2>3. pending' \subseteq Pending /\ thrown' \in Nat
    BY <1>1, <1>2, <2>1, <2>2 DEF Throw
  <2> QED BY <1>2, <2>3, PendingSteps DEF Throw
<1>3. ASSUME NEW p \in pending, Activate(p)
      PROVE  IInv'
  <2>1. [p EXCEPT !.delayed = FALSE] \in Pending
    BY <1>1 DEF Pending
  <2> QED BY <1>1, <1>3, <2>1, PendingSteps DEF Activate
<1>4. ASSUME NEW p \in pending, Expire(p)
      PROVE  IInv'
  BY <1>1, <1>4, PendingSteps DEF Expire
<1>5. CASE WaitElapses
  BY <1>5 DEF WaitElapses, IInv, TypeOK, MatchedDuringTick, MatchedArePlain,
              EventDataIsThere, UrgentEventsActAtOnce
<1> QED BY <1>2, <1>3, <1>4, <1>5 DEF Environment

(* Between the steps of a tick nothing that an urgent event brought is     *)
(* queued, so these may move on.                                           *)
LEMMA MovesOn ==
  ASSUME IInv, NoneFromEvent(queue),
         scanned' \in 0 .. Triggers, wait' \in {"absent", "ahead", "reached"},
         pc' \in {"top", "scan", "push", "urgent", "exec", "ended"},
         matched = <<>> \/ pc' \in {"scan", "push"},
         UNCHANGED <<matched, queue, event, pending, thrown, firings, protected>>
  PROVE  IInv'
BY DEF IInv, TypeOK, MatchedDuringTick, MatchedArePlain, EventDataIsThere,
       UrgentEventsActAtOnce, NoneFromEvent

LEMMA StartTickStep == IInv /\ (StartTick \/ SkipTick \/ EndPush \/ NoUrgent) => IInv'
<1> SUFFICES ASSUME IInv, StartTick \/ SkipTick \/ EndPush \/ NoUrgent
             PROVE  IInv'
  OBVIOUS
<1>1. /\ scanned \in 0 .. Triggers /\ wait \in {"absent", "ahead", "reached"}
      /\ MatchedDuringTick /\ UrgentEventsActAtOnce
  BY DEF IInv, TypeOK
<1>2. Triggers \in Nat /\ 0 \in 0 .. Triggers
  BY TimeTriggersAssumption, EventTriggersAssumption, <1>1 DEF Triggers
<1>3. pc # "exec"
  BY DEF StartTick, SkipTick, EndPush, NoUrgent
<1>4. NoneFromEvent(queue)
  BY <1>1, <1>3, OnlyInExec
<1>5. CASE StartTick
  BY <1>1, <1>2, <1>4, <1>5, MovesOn DEF StartTick
<1>6. CASE SkipTick
  BY <1>1, <1>4, <1>6, MovesOn DEF SkipTick, MatchedDuringTick
<1>7. CASE EndPush
  BY <1>1, <1>4, <1>7, MovesOn DEF EndPush
<1>8. CASE NoUrgent
  BY <1>1, <1>4, <1>8, MovesOn DEF NoUrgent, MatchedDuringTick
<1> QED BY <1>5, <1>6, <1>7, <1>8

LEMMA IdleStep == IInv /\ Idle => IInv'
<1> SUFFICES ASSUME IInv, Idle
             PROVE  IInv'
  OBVIOUS
<1>1. /\ scanned \in 0 .. Triggers /\ wait \in {"absent", "ahead", "reached"}
      /\ MatchedDuringTick /\ UrgentEventsActAtOnce /\ queue \in Seq(Entry)
  BY DEF IInv, TypeOK
<1>2. matched = <<>>
  BY <1>1 DEF Idle, MatchedDuringTick
<1>3. queue = <<>> \/ UrgentAt(queue) = {}
  BY DEF Idle, Runnable
<1>4. NoneFromEvent(queue)
  BY <1>1, <1>3 DEF UrgentEventsActAtOnce, NoneFromEvent, UrgentAt
<1> QED BY <1>1, <1>2, <1>4, MovesOn DEF Idle

-----------------------------------------------------------------------------
(* The scan *)

(* A step of the scan adds trigger data whose event, if any, is in the     *)
(* context by then.                                                        *)
LEMMA Matches ==
  ASSUME IInv, pc = "scan", scanned' \in 0 .. Triggers, firings' \in 0 .. MaxFirings,
         event' \in Nat, event # 0 => event' # 0, pending' \subseteq Pending,
         NEW d \in Data,
         \A j \in 1 .. Len(d.block) :
           ~d.block[j].fromEvent /\ (d.block[j].owner # 0 => event' # 0),
         matched' = Append(matched, d),
         UNCHANGED <<pc, queue, wait, thrown, protected>>
  PROVE  IInv'
<1>1. matched \in Seq(Data)
  BY DEF IInv, TypeOK, Data
<1>2. /\ matched' \in Seq(Data)
      /\ \A i \in 1 .. Len(matched') :
           matched'[i] = d \/ \E j \in 1 .. Len(matched) : matched'[i] = matched[j]
  BY <1>1, AppendElements
<1>3. TypeOK'
  BY <1>2 DEF IInv, TypeOK, Data
<1>4. MatchedArePlain'
  BY <1>2 DEF IInv, MatchedArePlain
<1>5. Backed(queue, event) /\ BlocksBacked(matched, event)
  BY EventDataParts DEF IInv
<1>6. BlocksBacked(matched', event')
  BY <1>2, <1>5 DEF BlocksBacked
<1>7. EventDataIsThere'
  BY <1>5, <1>6 DEF EventDataIsThere, Backed, BlocksBacked
<1> QED BY <1>3, <1>4, <1>7 DEF IInv, MatchedDuringTick, UrgentEventsActAtOnce

LEMMA ScanTimeTriggerStep == IInv /\ ScanTimeTrigger => IInv'
<1> SUFFICES ASSUME IInv, ScanTimeTrigger
             PROVE  IInv'
  OBVIOUS
<1> DEFINE t == TimeTriggers[scanned + 1]
<1>1. /\ scanned \in 0 .. Triggers /\ firings \in 0 .. MaxFirings
      /\ MaxFirings \in Nat /\ event \in Nat /\ pending \subseteq Pending
  BY BoundsAssumption DEF IInv, TypeOK
<1>2. Len(TimeTriggers) \in Nat /\ Len(EventTriggers) \in Nat /\ Triggers \in Nat
  BY TimeTriggersAssumption, EventTriggersAssumption DEF Triggers
<1>3. scanned + 1 \in 1 .. Len(TimeTriggers) /\ scanned + 1 \in 0 .. Triggers
  BY <1>1, <1>2 DEF ScanTimeTrigger, Triggers
<1>4. t \in TimeTrigger
  BY <1>3, TimeTriggersAssumption
<1>5. t.block \in Seq(Act) /\ t.important \in BOOLEAN /\ t.urgent \in BOOLEAN
  BY <1>4 DEF TimeTrigger
<1>6. CASE firings' = firings + 1 /\ firings < MaxFirings
           /\ matched' = Append(matched, TriggerData(t, 0))
  <2>1. firings' \in 0 .. MaxFirings
    BY <1>1, <1>6
  <2> DEFINE d == TriggerData(t, 0)
  <2>2. d \in Data /\ \A j \in 1 .. Len(d.block) : ~d.block[j].fromEvent /\ d.block[j].owner = 0
    BY <1>5, TriggerDataOf
  <2> HIDE DEF d, t
  <2>3. matched' = Append(matched, d)
    BY <1>6 DEF d
  <2>4. event' \in Nat /\ pending' \subseteq Pending /\ event' = event
        /\ scanned' \in 0 .. Triggers /\ pc = "scan"
    BY <1>1, <1>3 DEF ScanTimeTrigger
  <2>5. UNCHANGED <<pc, queue, wait, thrown, protected>>
    BY DEF ScanTimeTrigger
  <2> QED BY <2>1, <2>2, <2>3, <2>4, <2>5, Matches
<1>7. CASE UNCHANGED <<firings, matched>>
  BY <1>1, <1>3, <1>7 DEF ScanTimeTrigger, IInv, TypeOK, MatchedDuringTick,
     MatchedArePlain, EventDataIsThere, UrgentEventsActAtOnce
<1> QED BY <1>6, <1>7 DEF ScanTimeTrigger

LEMMA ScanEventTriggerStep == IInv /\ ScanEventTrigger => IInv'
<1> SUFFICES ASSUME IInv, ScanEventTrigger
             PROVE  IInv'
  OBVIOUS
<1> DEFINE t == EventTriggers[scanned + 1 - Len(TimeTriggers)]
           p == First(Available(t.key))
<1>1. /\ scanned \in 0 .. Triggers /\ firings \in 0 .. MaxFirings
      /\ event \in Nat /\ pending \subseteq Pending
  BY DEF IInv, TypeOK
<1>2. Len(TimeTriggers) \in Nat /\ Len(EventTriggers) \in Nat /\ Triggers \in Nat
  BY TimeTriggersAssumption, EventTriggersAssumption DEF Triggers
<1>3. /\ scanned + 1 - Len(TimeTriggers) \in 1 .. Len(EventTriggers)
      /\ scanned + 1 \in 0 .. Triggers
  BY <1>1, <1>2 DEF ScanEventTrigger, Triggers
<1>4. t \in [key : ThrownKeys \ Modes, block : Seq(Act), important : BOOLEAN, urgent : BOOLEAN]
  BY <1>3, EventTriggersAssumption, ElementOfSeq, Zenon
<1>5. t.block \in Seq(Act) /\ t.important \in BOOLEAN /\ t.urgent \in BOOLEAN
  BY <1>4
<1> HIDE DEF t
<1>6. CASE Available(t.key) = {}
  BY <1>1, <1>3, <1>6 DEF ScanEventTrigger, IInv, TypeOK, MatchedDuringTick,
     MatchedArePlain, EventDataIsThere, UrgentEventsActAtOnce, t
<1>7. CASE Available(t.key) # {}
  <2>1. Available(t.key) \subseteq Pending
    BY <1>1 DEF Available
  <2>2. p \in Available(t.key)
    BY <1>7, <2>1, FirstIsThere
  <2>3. p.id \in Nat \ {0}
    BY <2>1, <2>2 DEF Pending
  <2> DEFINE d == TriggerData(t, p.id)
  <2>4. d \in Data /\ \A j \in 1 .. Len(d.block) : ~d.block[j].fromEvent
    BY <1>5, <2>3, TriggerDataOf
  <2>5. pending' = pending \ {p} /\ event' = p.id /\ matched' = Append(matched, d)
    BY <1>7 DEF ScanEventTrigger, t
  <2> HIDE DEF d, p
  <2>6. event' \in Nat /\ event' # 0 /\ pending' \subseteq Pending
    BY <1>1, <2>3, <2>5
  <2>7. UNCHANGED <<pc, queue, wait, thrown, firings, protected>> /\ pc = "scan"
        /\ scanned' = scanned + 1
    BY DEF ScanEventTrigger
  <2> QED BY <1>1, <1>3, <2>4, <2>5, <2>6, <2>7, Matches
<1> QED BY <1>6, <1>7

LEMMA EndScanStep == IInv /\ EndScan => IInv'
<1> SUFFICES ASSUME IInv, EndScan
             PROVE  IInv'
  OBVIOUS
<1> DEFINE t == [block |-> FinalActions, important |-> FALSE, urgent |-> FALSE]
           d == TriggerData(t, 0)
<1>1. matched \in Seq(Data)
  BY DEF IInv, TypeOK, Data
<1>2. t.block \in Seq(Act) /\ t.important \in BOOLEAN /\ t.urgent \in BOOLEAN
  BY FinalActionsAssumption
<1> HIDE DEF t
<1>3. d \in Data /\ \A j \in 1 .. Len(d.block) : ~d.block[j].fromEvent /\ d.block[j].owner = 0
  BY <1>2, TriggerDataOf
<1>4. NoneFromEvent(queue)
  BY OnlyInExec DEF IInv, EndScan
<1>5. CASE matched' = <<d>>
  <2> HIDE DEF d
  <2>1. matched' \in Seq(Data) /\ Len(matched') = 1 /\ matched'[1] = d
    BY <1>3, <1>5
  <2>2. TypeOK'
    BY <2>1 DEF EndScan, IInv, TypeOK, Data
  <2>3. MatchedArePlain'
    BY <1>3, <2>1 DEF MatchedArePlain
  <2>4. BlocksBacked(matched', event')
    BY <1>3, <2>1 DEF BlocksBacked
  <2>5. Backed(queue, event) /\ event' = event /\ queue' = queue
    BY EventDataParts DEF IInv, EndScan
  <2>6. EventDataIsThere'
    BY <2>4, <2>5 DEF EventDataIsThere, Backed, BlocksBacked
  <2>7. UrgentEventsActAtOnce' /\ MatchedDuringTick'
    BY <1>4 DEF EndScan, UrgentEventsActAtOnce, MatchedDuringTick, NoneFromEvent
  <2> QED BY <2>2, <2>3, <2>6, <2>7 DEF IInv, EndScan
<1>6. CASE matched' = matched
  BY <1>4, <1>6 DEF EndScan, IInv, TypeOK, MatchedDuringTick,
     MatchedArePlain, EventDataIsThere, UrgentEventsActAtOnce, NoneFromEvent
<1> QED BY <1>5, <1>6 DEF EndScan, t

-----------------------------------------------------------------------------
(* Pushing *)

(* What the code's queue is made of is what the lemmas call EntryOf.       *)
LEMMA EntryIsEntryOf == Entry = EntryOf(Instruction)
BY DEF Entry, EntryOf

(* A push of plain trigger data backed by the event in the context.        *)
LEMMA PushStep == IInv /\ Push => IInv'
<1> SUFFICES ASSUME IInv, Push
             PROVE  IInv'
  OBVIOUS
<1> DEFINE h == Head(matched)
           q == PushBlock(queue, h.block, h.important, h.urgent)
<1>1. matched \in Seq(Data) /\ matched # <<>> /\ queue \in Seq(EntryOf(Instruction))
  BY EntryIsEntryOf DEF IInv, TypeOK, Data, Push
<1>2. h \in Data /\ h = matched[1] /\ 1 \in 1 .. Len(matched)
  BY <1>1
<1>3. matched' \in Seq(Data)
      /\ \A i \in 1 .. Len(matched') : \E j \in 1 .. Len(matched) : matched'[i] = matched[j]
  BY <1>1, TailIsPart DEF Push, PartOf
<1>4. MatchedArePlain'
  BY <1>3 DEF IInv, MatchedArePlain
<1>5. Backed(queue, event) /\ BlocksBacked(matched, event) /\ event' = event
  BY EventDataParts DEF IInv, Push
<1>6. BlocksBacked(matched', event')
  BY <1>3, <1>5 DEF BlocksBacked
<1>7. NoneFromEvent(queue)
  BY OnlyInExec DEF IInv, Push
<1>8. SUFFICES ASSUME queue' \in Seq(Entry), ImportantLast(queue'), UrgentLead(queue'),
                      Backed(queue', event), NoneFromEvent(queue')
               PROVE  IInv'
  <2>1. CASE queue' = queue
    BY <1>5, <1>7, <1>8, <2>1 DEF IInv, TypeOK
  <2>2. CASE queue' = q
    <3>1. /\ h.block \in Seq(Instruction)
          /\ h.important \in BOOLEAN /\ h.urgent \in BOOLEAN
      BY <1>2 DEF Data
    <3>2. ImportantLast(queue) /\ UrgentLead(queue)
      BY DEF IInv
    <3> HIDE DEF h
    <3>3. /\ q \in Seq(EntryOf(Instruction))
          /\ ImportantLast(q) /\ UrgentLead(q)
          /\ Brings(q, queue, h.block, h.important, h.urgent)
      BY <1>1, <3>1, <3>2, PushKeepsOrders
    <3>4. \A j \in 1 .. Len(h.block) :
            ~h.block[j].fromEvent /\ (h.block[j].owner # 0 => event # 0)
      BY <1>2, <1>5 DEF IInv, MatchedArePlain, BlocksBacked
    <3> HIDE DEF q
    <3>5. \A i \in 1 .. Len(q) :
            \/ \E j \in 1 .. Len(queue) : q[i] = queue[j]
            \/ \E j \in 1 .. Len(h.block) : q[i].instr = h.block[j]
      BY <3>3 DEF Brings
    <3>6. Backed(q, event)
      BY <1>5, <3>4, <3>5 DEF Backed
    <3>7. NoneFromEvent(q)
      BY <1>7, <3>4, <3>5 DEF NoneFromEvent
    <3> QED BY <1>8, <2>2, <3>3, <3>6, <3>7, EntryIsEntryOf
  <2> QED BY <2>1, <2>2 DEF Push
<1>9. TypeOK'
  BY <1>3, <1>8 DEF IInv, TypeOK, Data, Push
<1>10. EventDataIsThere'
  BY <1>5, <1>6, <1>8 DEF EventDataIsThere, Backed, BlocksBacked
<1>11. UrgentEventsActAtOnce' /\ MatchedDuringTick'
  BY <1>8 DEF UrgentEventsActAtOnce, MatchedDuringTick, NoneFromEvent, Push
<1> QED BY <1>4, <1>8, <1>9, <1>10, <1>11 DEF IInv

(* The terminate instruction of an urgent event goes to the head.          *)
LEMMA TakeUrgentStep ==
  ASSUME IInv, NEW p \in pending, TakeUrgent(p)
  PROVE  IInv'
<1> DEFINE block == UrgentBlock(p)
           q == PushBlock(queue, block, TRUE, TRUE)
<1>1. queue \in Seq(EntryOf(Instruction)) /\ ImportantLast(queue) /\ UrgentLead(queue)
      /\ pending \subseteq Pending
  BY EntryIsEntryOf DEF IInv, TypeOK
<1>2. p.key \in Modes
  <2>1. PICK k \in 1 .. 3 : Available(UrgentOrder[k]) # {} /\ p = First(Available(UrgentOrder[k]))
    BY DEF TakeUrgent
  <2>2. p \in Available(UrgentOrder[k])
    BY <1>1, <2>1, FirstIsThere DEF Available
  <2>3. UrgentOrder[k] \in Modes
    BY DEF UrgentOrder, Modes
  <2> QED BY <2>2, <2>3 DEF Available
<1>3. block \in Seq(Instruction) /\ Len(block) = 1 /\ block[1].owner = 0
  BY <1>2 DEF UrgentBlock, Instruction, Act
<1> HIDE DEF block
<1>4. /\ q \in Seq(EntryOf(Instruction))
      /\ ImportantLast(q) /\ UrgentLead(q)
      /\ Brings(q, queue, block, TRUE, TRUE)
  BY <1>1, <1>3, PushKeepsOrders
<1>5. queue' = q
  BY DEF TakeUrgent, PushUrgent, block
<1> HIDE DEF q
<1>6. \A i \in 1 .. Len(q) :
        \/ \E j \in 1 .. Len(queue) : q[i] = queue[j]
        \/ q[i].instr.owner = 0 /\ q[i].urgent /\ i <= 1
  BY <1>3, <1>4 DEF Brings
<1>7. NoneFromEvent(queue) /\ matched = <<>> /\ pc' = "exec"
  BY OnlyInExec DEF IInv, TakeUrgent, MatchedDuringTick
<1>8. TypeOK'
  BY <1>4, <1>5, EntryIsEntryOf DEF IInv, TypeOK, TakeUrgent
<1>9. Backed(queue, event) /\ event' = event /\ matched' = matched
  BY EventDataParts DEF IInv, TakeUrgent
<1>10. EventDataIsThere'
  BY <1>5, <1>6, <1>7, <1>9 DEF EventDataIsThere, Backed
<1>11. UrgentEventsActAtOnce'
  BY <1>5, <1>6, <1>7 DEF UrgentEventsActAtOnce, NoneFromEvent
<1>12. MatchedDuringTick' /\ MatchedArePlain'
  BY <1>7, <1>9 DEF MatchedDuringTick, MatchedArePlain
<1> QED BY <1>4, <1>5, <1>8, <1>10, <1>11, <1>12 DEF IInv

-----------------------------------------------------------------------------
(* Running an instruction *)

LEMMA PartOfPart ==
  ASSUME NEW p, NEW q, NEW r, PartOf(p, q), PartOf(q, r)
  PROVE  PartOf(p, r)
BY DEF PartOf

LEMMA PartKeeps ==
  ASSUME NEW p, NEW q, PartOf(p, q), NoneFromEvent(q)
  PROVE  NoneFromEvent(p)
BY DEF PartOf, NoneFromEvent

(* What is run is the head of the queue, during a wait too: an urgent      *)
(* instruction can only be there.                                          *)
LEMMA HeadIsTaken ==
  ASSUME IInv, pc = "exec", Runnable
  PROVE  /\ queue # <<>> /\ Taken = Head(queue) /\ Rest = Tail(queue)
         /\ Taken \in Entry /\ Rest \in Seq(Entry)
         /\ PartOf(Rest, queue) /\ NoneFromEvent(Rest)
<1>1. queue \in Seq(Entry) /\ UrgentLead(queue) /\ UrgentEventsActAtOnce
  BY DEF IInv, TypeOK
<1>2. queue # <<>> /\ Taken = Head(queue) /\ Rest = Tail(queue)
  <2>1. CASE HasUrgent
    <3>1. queue # <<>> /\ UrgentIndex(queue) = 1 /\ PopUrgent(queue) = Tail(queue)
      BY <1>1, <2>1, PopUrgentTakesHead DEF HasUrgent
    <3> QED BY <1>1, <2>1, <3>1 DEF Taken, Rest
  <2>2. CASE ~HasUrgent
    BY <2>2 DEF Taken, Rest, Runnable, HasUrgent
  <2> QED BY <2>1, <2>2
<1>3. Rest \in Seq(Entry) /\ PartOf(Rest, queue)
  BY <1>1, <1>2, TailIsPart
<1>4. Taken \in Entry
  BY <1>1, <1>2
<1>5. \A n \in 1 .. Len(Rest) : Rest[n] = queue[n + 1] /\ n + 1 \in 1 .. Len(queue) /\ n + 1 # 1
  BY <1>1, <1>2
<1>6. NoneFromEvent(Rest)
  BY <1>1, <1>5 DEF NoneFromEvent, UrgentEventsActAtOnce
<1> QED BY <1>2, <1>3, <1>4, <1>6

(* An iteration that leaves a part of the queue.                           *)
LEMMA IterationEnds ==
  ASSUME IInv, pc = "exec",
         NEW left \in Seq(Entry), PartOf(left, queue), NoneFromEvent(left),
         NEW e, NEW waitState \in {"absent", "ahead", "reached"},
         EndIteration(e, left, waitState),
         pending' \subseteq Pending, thrown' \in Nat
  PROVE  IInv'
<1>1. queue' = left /\ matched' = matched /\ matched = <<>> /\ pc' = "top"
  BY DEF EndIteration, IInv, MatchedDuringTick
<1>2. event' = event \/ (event' = 0 /\ left = <<>>)
  BY DEF EndIteration, EventAfter
<1>3. TypeOK'
  BY <1>1, <1>2 DEF EndIteration, IInv, TypeOK
<1>4. Backed(queue, event)
  BY EventDataParts DEF IInv
<1>5. Backed(left, event')
  <2>1. CASE event' = event
    BY <1>4, <2>1 DEF Backed, PartOf
  <2>2. CASE left = <<>>
    BY <2>2 DEF Backed
  <2> QED BY <1>2, <2>1, <2>2
<1>6. EventDataIsThere'
  BY <1>1, <1>5 DEF EventDataIsThere, Backed
<1>7. UrgentEventsActAtOnce' /\ MatchedDuringTick' /\ MatchedArePlain'
  BY <1>1 DEF UrgentEventsActAtOnce, MatchedDuringTick, MatchedArePlain, NoneFromEvent
<1>8. ImportantLast(queue') /\ UrgentLead(queue')
  BY <1>1 DEF PartOf, IInv
<1> QED BY <1>3, <1>6, <1>7, <1>8 DEF IInv

LEMMA LoopEnds ==
  ASSUME IInv, pc = "exec", NEW eventLeft \in Nat, EndLoop(eventLeft)
  PROVE  IInv'
<1>1. queue' = <<>> /\ matched' = <<>> /\ pc' = "ended" /\ event' \in Nat
  BY DEF EndLoop, IInv, MatchedDuringTick
<1>2. TypeOK'
  BY <1>1 DEF EndLoop, IInv, TypeOK
<1>3. EventDataIsThere' /\ UrgentEventsActAtOnce' /\ MatchedDuringTick' /\ MatchedArePlain'
  BY <1>1 DEF EventDataIsThere, UrgentEventsActAtOnce, MatchedDuringTick, MatchedArePlain
<1>4. ImportantLast(queue') /\ UrgentLead(queue')
  BY <1>1 DEF ImportantLast, UrgentLead
<1> QED BY <1>2, <1>3, <1>4 DEF IInv

LEMMA ExecStep == IInv /\ Exec => IInv'
<1> SUFFICES ASSUME IInv, Exec
             PROVE  IInv'
  OBVIOUS
<1> DEFINE e == Taken
           rest == Rest
           cut == RemoveNonImportant(rest)
<1>1. pc = "exec" /\ Runnable /\ Run(e, rest)
  BY DEF Exec
<1>2. /\ e \in Entry /\ rest \in Seq(Entry)
      /\ PartOf(rest, queue) /\ NoneFromEvent(rest) /\ ImportantLast(rest)
  BY <1>1, HeadIsTaken DEF IInv, PartOf
<1> HIDE DEF e, rest
<1>3. cut \in Seq(Entry) /\ PartOf(cut, queue) /\ NoneFromEvent(cut)
  BY <1>2, RemoveIsPart, PartOfPart, PartKeeps
<1>4. <<>> \in Seq(Entry) /\ PartOf(<<>>, queue) /\ NoneFromEvent(<<>>)
  BY DEF PartOf, NoneFromEvent, ImportantLast, UrgentLead
<1>5. pending \subseteq Pending /\ thrown \in Nat /\ event \in Nat
  BY DEF IInv, TypeOK
<1> HIDE DEF cut
<1>6. CASE Other(e, rest)
  BY <1>1, <1>2, <1>5, <1>6, IterationEnds DEF Other, Stays
<1>7. CASE Wait(e, rest)
  BY <1>1, <1>2, <1>5, <1>7, IterationEnds DEF Wait, Stays
<1>8. CASE Unload(e, rest)
  BY <1>1, <1>5, <1>8, LoopEnds DEF Unload
<1>9. CASE Terminate(e, rest)
  <2>1. e.instr.act \in Modes /\ e.instr.owner \in Nat
    BY <1>2, <1>9 DEF Terminate, Entry, Instruction
  <2>2. thrown + 1 \in Nat \ {0}
    BY <1>5
  <2>3. [key |-> e.instr.act, id |-> thrown + 1, delayed |-> FALSE, by |-> e.instr.owner]
          \in Pending
    BY <2>1, <2>2 DEF Pending
  <2>4. pending' \subseteq Pending /\ thrown' \in Nat
    BY <1>5, <1>9, <2>2, <2>3 DEF Terminate, ThrowUrgent
  <2>5. CASE e.instr.act = "block"
    BY <1>1, <1>3, <1>9, <2>4, <2>5, IterationEnds DEF Terminate, cut
  <2>6. CASE e.instr.act # "block"
    BY <1>1, <1>2, <1>9, <2>4, <2>6, IterationEnds DEF Terminate
  <2> QED BY <2>5, <2>6
<1>10. CASE TerminateNormal(e, rest)
  <2>1. CASE EndLoop(0)
    BY <1>1, <2>1, LoopEnds
  <2>2. CASE EndIteration(e, rest, "ahead") /\ Stays
    BY <1>1, <1>2, <1>5, <2>2, IterationEnds DEF Stays
  <2>3. CASE EndIteration(e, rest, "absent") /\ Stays
    BY <1>1, <1>2, <1>5, <2>3, IterationEnds DEF Stays
  <2> QED BY <1>10, <2>1, <2>2, <2>3 DEF TerminateNormal
<1>11. CASE TerminateImmediate(e, rest)
  <2>1. CASE EndLoop(0)
    BY <1>1, <2>1, LoopEnds
  <2>2. CASE EndIteration(e, <<>>, "absent") /\ Stays
    BY <1>1, <1>4, <1>5, <2>2, IterationEnds DEF Stays
  <2> QED BY <1>11, <2>1, <2>2 DEF TerminateImmediate
<1>12. CASE ExitBlock(e, rest)
  BY <1>1, <1>3, <1>5, <1>12, IterationEnds DEF ExitBlock, Stays, cut
<1> QED BY <1>1, <1>6, <1>7, <1>8, <1>9, <1>10, <1>11, <1>12 DEF Run

-----------------------------------------------------------------------------
(* The theorems *)

LEMMA InitHolds == Init => IInv
<1> SUFFICES ASSUME Init
             PROVE  IInv
  OBVIOUS
<1>1. 0 \in 0 .. Triggers /\ 0 \in 0 .. MaxFirings
  BY TriggersAssumption, BoundsAssumption, TimeTriggersAssumption, EventTriggersAssumption
     DEF Triggers
<1>2. TypeOK
  BY <1>1 DEF Init, TypeOK
<1> QED BY <1>2 DEF Init, IInv, ImportantLast, UrgentLead, MatchedDuringTick, MatchedArePlain,
                    EventDataIsThere, UrgentEventsActAtOnce

LEMMA StepHolds == IInv /\ [Next]_vars => IInv'
<1> SUFFICES ASSUME IInv, [Next]_vars
             PROVE  IInv'
  OBVIOUS
<1>1. CASE Tick
  BY <1>1, ScanTimeTriggerStep, ScanEventTriggerStep, EndScanStep, PushStep,
     StartTickStep, TakeUrgentStep DEF Tick
<1>2. CASE UNCHANGED vars
  BY <1>2 DEF vars, IInv, TypeOK, MatchedDuringTick, MatchedArePlain, EventDataIsThere,
     UrgentEventsActAtOnce
<1> QED BY <1>1, <1>2, StartTickStep, ExecStep, IdleStep, EnvironmentStep DEF Next

LEMMA IInvHolds == Spec => []IInv
BY InitHolds, StepHolds, PTL DEF Spec

(* The loop never leaves its types, whatever the schedule.                 *)
THEOREM TypeCorrect == Spec => []TypeOK
<1>1. IInv => TypeOK
  BY DEF IInv
<1> QED BY <1>1, IInvHolds, PTL

(* An instruction that an event brought never runs without event data.     *)
THEOREM EventDataStays == Spec => []EventDataIsThere
<1>1. IInv => EventDataIsThere
  BY DEF IInv
<1> QED BY <1>1, IInvHolds, PTL

(* An urgent event taken out of the store is acted on before anything      *)
(* else is run.                                                            *)
THEOREM UrgentEventsComeFirst == Spec => []UrgentEventsActAtOnce
<1>1. IInv => UrgentEventsActAtOnce
  BY DEF IInv
<1> QED BY <1>1, IInvHolds, PTL

(* Nothing but time and urgent instructions gets through a wait.           *)
THEOREM WaitsHold == Spec => WaitHolds
<1> DEFINE Held == wait = "ahead" /\ pc = "exec" /\ UrgentAt(queue) = {}
           Keeps == queue' = queue /\ event' = event /\ wait' = "ahead"
<1>1. Held /\ Next => Keeps
  <2> SUFFICES ASSUME Held, Next
               PROVE  Keeps
    OBVIOUS
  <2>1. ~Runnable
    BY DEF Runnable
  <2>2. CASE Idle
    BY <2>2 DEF Idle
  <2>3. CASE Environment
    BY <2>3 DEF Environment, Throw, Activate, Expire, WaitElapses
  <2> QED BY <2>1, <2>2, <2>3 DEF Next, Exec, StartTick, SkipTick, Tick, ScanTimeTrigger,
             ScanEventTrigger, EndScan, Push, EndPush, TakeUrgent, NoUrgent
<1>2. [Next]_vars => [Held => Keeps]_vars
  BY <1>1
<1> QED BY <1>2, PTL DEF Spec, WaitHolds

-----------------------------------------------------------------------------
(* What the loop does to its queue is what InstructionQueueSpec allows.    *)

(* One call of push_block, of pop_next or of clear, or pop_next and then   *)
(* remove_non_important.                                                   *)
Pushes == \E block \in Seq(Instruction), important, urgent \in BOOLEAN :
            queue' = PushBlock(queue, block, important, urgent)
Pops   == /\ queue # <<>>
          /\ queue' = Tail(queue) \/ queue' = RemoveNonImportant(Tail(queue))
QueueCalls == queue' = queue \/ Pushes \/ Pops \/ queue' = <<>>

LEMMA PushesData == IInv /\ Push => QueueCalls
<1> SUFFICES ASSUME IInv, Push PROVE QueueCalls
  OBVIOUS
<1>1. matched \in Seq(Data) /\ matched # <<>>
  BY DEF Push, IInv, TypeOK, Data
<1>2. Head(matched) \in Data
  BY <1>1, HeadTailProperties
<1> QED BY <1>2 DEF Push, QueueCalls, Pushes, Data

LEMMA PushesUrgent ==
  ASSUME IInv, NEW p \in pending, TakeUrgent(p)
  PROVE  QueueCalls
<1>1. p.key \in Act
  <2>1. PICK k \in 1 .. 3 : p = First(Available(UrgentOrder[k])) /\ Available(UrgentOrder[k]) # {}
    BY DEF TakeUrgent
  <2>2. Available(UrgentOrder[k]) \subseteq pending /\ pending \subseteq Pending
    BY DEF Available, IInv, TypeOK
  <2>3. p \in Available(UrgentOrder[k])
    BY <2>1, <2>2, FirstIsThere
  <2>4. p.key = UrgentOrder[k]
    BY <2>3 DEF Available
  <2> QED BY <2>4 DEF UrgentOrder, Act, Modes
<1>2. UrgentBlock(p) \in Seq(Instruction)
  <2>1. [act |-> p.key, fromEvent |-> TRUE, owner |-> 0] \in Instruction
    BY <1>1 DEF Instruction
  <2> QED BY <2>1 DEF UrgentBlock
<1> QED BY <1>2 DEF TakeUrgent, PushUrgent, QueueCalls, Pushes

LEMMA ExecPops == IInv /\ Exec => QueueCalls /\ queue # <<>> /\ Taken = Head(queue)
<1> SUFFICES ASSUME IInv, Exec PROVE QueueCalls /\ queue # <<>> /\ Taken = Head(queue)
  OBVIOUS
<1>1. queue # <<>> /\ Taken = Head(queue) /\ Rest = Tail(queue) /\ Run(Taken, Rest)
  BY HeadIsTaken DEF Exec
<1>2. queue' \in {Rest, RemoveNonImportant(Rest), <<>>}
  BY <1>1 DEF Run, Other, Wait, Unload, Terminate, TerminateNormal, TerminateImmediate, ExitBlock,
              EndIteration, EndLoop
<1> QED BY <1>1, <1>2 DEF QueueCalls, Pops

LEMMA NextCalls == IInv /\ [Next]_vars => QueueCalls /\ (Exec => queue # <<>> /\ Taken = Head(queue))
<1> SUFFICES ASSUME IInv, [Next]_vars
             PROVE  QueueCalls /\ (Exec => queue # <<>> /\ Taken = Head(queue))
  OBVIOUS
<1>1. CASE Exec
  BY <1>1, ExecPops
<1>2. CASE Push
  BY <1>2, PushesData, ExecPops
<1>3. CASE \E p \in pending : TakeUrgent(p)
  BY <1>3, PushesUrgent, ExecPops
<1>4. CASE queue' = queue
  BY <1>4, ExecPops DEF QueueCalls
<1>5. ASSUME Environment PROVE queue' = queue
  BY <1>5 DEF Environment, Throw, Activate, Expire, WaitElapses
<1> QED BY <1>1, <1>2, <1>3, <1>4, <1>5 DEF Next, vars, Tick, StartTick, SkipTick, Idle,
           ScanTimeTrigger, ScanEventTrigger, EndScan, EndPush, NoUrgent

(* run_scheduler_loop changes its queue only by calls that                 *)
(* InstructionQueueSpec has as actions, or by two of them in one           *)
(* iteration, a pop and the remove_non_important of an EXIT_BLOCK; there   *)
(* the instructions are numbered, and any number of calls is made in any   *)
(* order.                                                                  *)
THEOREM LoopCallsTheQueue == Spec => [][QueueCalls]_vars
<1>1. IInv /\ [Next]_vars => [QueueCalls]_vars
  BY NextCalls
<1> QED BY <1>1, IInvHolds, PTL DEF Spec

(* What the execution step runs is the head of the queue: peek_next_urgent *)
(* and pop_next(urgent_only) look all through it, during a wait, and never *)
(* find an urgent instruction behind another.                              *)
THEOREM LoopRunsTheHead == Spec => [][Exec => queue # <<>> /\ Taken = Head(queue)]_vars
<1> DEFINE HeadRuns == Exec => queue # <<>> /\ Taken = Head(queue)
<1>1. IInv /\ [Next]_vars => [HeadRuns]_vars
  BY NextCalls
<1> QED BY <1>1, IInvHolds, PTL DEF Spec

=============================================================================
