--------------------------- MODULE BucketGridProofs ---------------------------
(***************************************************************************)
(* Proofs about BucketGrid, for any images, date sections and number of    *)
(* requests under way: the list of the grid never holds an image twice,    *)
(* its spinner is served, and a list that is only patched agrees with the  *)
(* bucket of the server.                                                   *)
(***************************************************************************)
EXTENDS BucketGrid, FiniteSetTheorems, SequenceTheorems, WellFoundedInduction, TLAPS

-----------------------------------------------------------------------------
(* The inductive invariant                                                 *)

\* No file has two entries in a list of images.
Distinct(s) == \A i, j \in DOMAIN s : s[i].file = s[j].file => i = j

\* Which continuation an operation may have, and what that one relies on.
Fits(op, id, then, todo) ==
    /\ then = "show" <=> op = "fetch"
    /\ op \in {"favorite", "unfavorite"} => then \in {"star", "place", "viewer"}
    /\ op = "move" => then \in {"splice", "reorder"}
    /\ op = "add" => id \in Ids
    /\ then = "star" => op \in {"favorite", "unfavorite"} /\ ~id.dup
    /\ then = "place" => /\ op = "favorite" /\ ~id.dup
                         /\ todo \in Seq(Files) /\ Len(todo) = 1
    /\ then = "viewer" => op \in {"favorite", "unfavorite"}
    /\ then = "remove" => op = "delete"
    /\ then = "next" => op = "delete" /\ todo \in Seq(Files)
    /\ then \in {"splice", "reorder"} => op = "move"
    /\ then = "message" => op \in {"copy", "publish"}

CallFits(c) ==
    c \in Calls /\ Fits(c.op, c.id, c.then, c.todo) /\ IsInjective(c.seen.sequence)

\* An image on its way into the bucket is not in it, nor on its way twice.
NamesAreNew(cs, b, names) ==
    /\ Range(b.sequence) \subseteq names
    /\ \A i \in DOMAIN cs : cs[i].op = "add" =>
          /\ cs[i].id.file \in names
          /\ cs[i].state = "sent" => cs[i].id.file \notin Range(b.sequence)
    /\ \A i, j \in DOMAIN cs :
          cs[i].op = "add" /\ cs[j].op = "add" /\ cs[i].id.file = cs[j].id.file
             => i = j

\* A request sent alone is alone, and a listing written meanwhile is current.
AloneIsCurrent(cs, b) ==
    \A i \in DOMAIN cs : cs[i].alone =>
        /\ Len(cs) = 1
        /\ cs[i].op = "fetch" /\ cs[i].state = "served" => cs[i].seen = b

CallsFit(cs, b, names) ==
    /\ cs \in Seq(Calls) /\ \A i \in DOMAIN cs : CallFits(cs[i])
    /\ NamesAreNew(cs, b, names)
    /\ AloneIsCurrent(cs, b)

Served(cs) == \E i \in DOMAIN cs : cs[i].op = "fetch" /\ cs[i].mine

\* The list s has the files of the bucket b and their stars.
Agrees(b, s) ==
    /\ FilesOf(s) = Range(b.sequence)
    /\ StarredIn(s) = Range(b.favorites) \cap Range(b.sequence)
    /\ IsInjective(b.favorites)

\* While the request c is under way: the list agrees with the bucket, or will
\* once the answer has patched it; for a continuation not named here the
\* list is loaded again.
Awaited(c, b, s) ==
    \/ c.op = "fetch"
    \/ /\ c.state = "sent" \/ ~c.ok
       /\ Agrees(b, s)
       /\ c.state = "sent" /\ c.op = "favorite" => c.id.file \notin StarredIn(s)
    \/ /\ c.state = "served" /\ c.ok
       /\ c.then \in {"star", "place"} =>
             Agrees(b, WithStar(s, c.id.file, c.op = "favorite"))
       /\ c.then = "remove" => Agrees(b, Without(s, c.id.file))
       /\ c.then \in {"splice", "reorder", "message"} => Agrees(b, s)

Patched(isClean, isDue, cs, b, s) ==
    isClean =>
        /\ Len(cs) <= 1
        /\ cs # <<>> => cs[1].mine /\ cs[1].then \notin {"viewer", "close"}
        /\ ~isDue => IF cs = <<>> THEN Agrees(b, s) ELSE Awaited(cs[1], b, s)

\* The page: what it shows beside the list, and what the user is about.
PageOK ==
    /\ shown \in Files \cup {Nothing}
    /\ loading \in BOOLEAN /\ loaded \in BOOLEAN /\ timer \in BOOLEAN
    /\ deleting \in Labels \cup {Nothing}
    /\ drag \in Ids \cup {Nothing} /\ menu \in Ids \cup {Nothing}
    /\ loope \in [open : BOOLEAN, items : Seq(Items), at : Nat \ {0},
                  zoomed : BOOLEAN]
    /\ loope.open => loope.at \in DOMAIN loope.items
    /\ clean \in BOOLEAN /\ known \subseteq Files /\ acts \in 0..MaxActs

\* The list, the bucket and the requests between them.
ListOK ==
    /\ bucket \in Buckets /\ IsInjective(bucket.sequence)
    /\ images \in Seq(Images) /\ Distinct(images)
    /\ CallsFit(calls, bucket, known)
    /\ loading => Served(calls)
    /\ Patched(clean, timer, calls, bucket, images)

IInv == PageOK /\ ListOK
-----------------------------------------------------------------------------
(* Sequences                                                               *)

\* Every non-empty set of naturals has a least member.
LEMMA LeastMember ==
    ASSUME NEW T \in SUBSET Nat, T # {}
    PROVE  \E x \in T : \A y \in T : x <= y
<1>1. OpToRel(<, Nat) = {ss \in Nat \X Nat : ss[1] < ss[2]}
  BY Zenon DEF OpToRel
<1>2. \E x \in T : \A y \in T :
        ~(<<y, x>> \in {ss \in Nat \X Nat : ss[1] < ss[2]})
  BY NatLessThanWellFounded, WFMin, <1>1, ZenonT(30)
<1>3. \A x, y \in Nat :
        x < y => <<x, y>> \in {ss \in Nat \X Nat : ss[1] < ss[2]}
  OBVIOUS
<1>4. PICK x \in T : \A y \in T : ~(y < x)
  BY <1>2, <1>3
<1> QED BY <1>4

\* Nth counts the members of a finite set of numbers through, each once.
LEMMA NthCountsThrough ==
    ASSUME NEW P \in SUBSET Nat, IsFiniteSet(P)
    PROVE  /\ Cardinality(P) \in Nat
           /\ \A n \in 1..Cardinality(P) : Nth(P, n) \in P
           /\ \A m, n \in 1..Cardinality(P) : Nth(P, m) = Nth(P, n) => m = n
           /\ \A i \in P : \E n \in 1..Cardinality(P) : Nth(P, n) = i
<1> DEFINE UpTo(i) == {j \in P : j <= i}
           rank == [i \in P |-> Cardinality(UpTo(i))]
<1>1. Cardinality(P) \in Nat
  BY FS_CardinalityType
<1>2. \A i \in P : IsFiniteSet(UpTo(i)) /\ Cardinality(UpTo(i)) \in 1..Cardinality(P)
  <2> TAKE i \in P
  <2>1. UpTo(i) \in SUBSET P /\ UpTo(i) # {}
    OBVIOUS
  <2>2. /\ IsFiniteSet(UpTo(i)) /\ Cardinality(UpTo(i)) <= Cardinality(P)
        /\ Cardinality(UpTo(i)) \in Nat /\ Cardinality(UpTo(i)) # 0
    BY <2>1, FS_Subset, FS_CardinalityType, FS_EmptySet
  <2> QED BY <1>1, <2>2
<1>3. rank \in Injection(P, 1..Cardinality(P))
  <2>1. ASSUME NEW i \in P, NEW k \in P, i < k PROVE rank[i] # rank[k]
    <3>1. \A j \in UpTo(i) : j \in UpTo(k)
      <4> TAKE j \in UpTo(i)
      <4>1. j \in P /\ j <= i /\ j \in Nat /\ i \in Nat /\ k \in Nat
        OBVIOUS
      <4>2. j <= k
        BY <4>1, <2>1
      <4> QED BY <4>1, <4>2
    <3>2. k \in UpTo(k) /\ k \notin UpTo(i)
      <4>1. i \in Nat /\ k \in Nat
        OBVIOUS
      <4> QED BY <4>1, <2>1
    <3>3. UpTo(i) \in SUBSET UpTo(k) /\ UpTo(i) # UpTo(k)
      BY <3>1, <3>2
    <3> QED BY <1>2, <3>3, FS_Subset
  <2>2. rank \in [P -> 1..Cardinality(P)]
    BY <1>2
  <2>3. ASSUME NEW i \in P, NEW k \in P, rank[i] = rank[k] PROVE i = k
    <3>1. i \in Nat /\ k \in Nat /\ ~(i < k) /\ ~(k < i)
      BY <2>1, <2>3
    <3> QED BY <3>1
  <2> HIDE DEF rank
  <2> QED BY <2>2, <2>3 DEF Injection, IsInjective
<1>4. \A n \in 1..Cardinality(P) : \E i \in P : Cardinality(UpTo(i)) = n
  <2>1. IsFiniteSet(1..Cardinality(P)) /\ Cardinality(1..Cardinality(P)) = Cardinality(P)
    BY <1>1, FS_Interval
  <2>2. rank \in Surjection(P, 1..Cardinality(P))
    <3> HIDE DEF rank
    <3> QED BY <1>3, <2>1, FS_Injection
  <2>3. \A n \in 1..Cardinality(P) : \E i \in P : rank[i] = n
    <3> HIDE DEF rank
    <3> QED BY <2>2 DEF Surjection
  <2> QED BY <2>3
<1>5. \A n \in 1..Cardinality(P) : Nth(P, n) \in P /\ Cardinality(UpTo(Nth(P, n))) = n
  BY <1>4 DEF Nth
<1>6. \A i, k \in P : Cardinality(UpTo(i)) = Cardinality(UpTo(k)) => i = k
  <2>1. \A i, k \in P : rank[i] = rank[k] => i = k
    <3> HIDE DEF rank
    <3> QED BY <1>3 DEF Injection, IsInjective
  <2> QED BY <2>1
<1>7. \A i \in P : \E n \in 1..Cardinality(P) : Nth(P, n) = i
  <2> TAKE i \in P
  <2>1. Cardinality(UpTo(i)) \in 1..Cardinality(P)
    BY <1>2
  <2> HIDE DEF UpTo
  <2> WITNESS Cardinality(UpTo(i)) \in 1..Cardinality(P)
  <2> QED BY <1>5, <1>6, <2>1
<1>8. \A m, n \in 1..Cardinality(P) : Nth(P, m) = Nth(P, n) => m = n
  BY <1>5
<1> HIDE DEF UpTo, rank
<1> QED BY <1>1, <1>5, <1>7, <1>8

\* What Kept returns has the members of the sequence at the positions, once.
LEMMA KeptMembers ==
    ASSUME NEW S, NEW s \in Seq(S), NEW P \in SUBSET (DOMAIN s)
    PROVE  /\ Kept(s, P) \in Seq(S)
           /\ Len(Kept(s, P)) = Cardinality(P)
           /\ DOMAIN Kept(s, P) = 1..Cardinality(P)
           /\ \A n \in DOMAIN Kept(s, P) : /\ Nth(P, n) \in P
                                           /\ Kept(s, P)[n] = s[Nth(P, n)]
           /\ \A m, n \in DOMAIN Kept(s, P) : Nth(P, m) = Nth(P, n) => m = n
           /\ \A i \in P : \E n \in DOMAIN Kept(s, P) : Nth(P, n) = i
<1>1. Len(s) \in Nat /\ DOMAIN s = 1..Len(s) /\ \A i \in 1..Len(s) : s[i] \in S
  OBVIOUS
<1>2. IsFiniteSet(1..Len(s))
  BY <1>1, FS_Interval
<1>3. P \in SUBSET Nat /\ P \in SUBSET (1..Len(s))
  BY <1>1
<1>4. IsFiniteSet(P)
  BY <1>2, <1>3, FS_Subset
<1>5. /\ Cardinality(P) \in Nat
      /\ \A n \in 1..Cardinality(P) : Nth(P, n) \in P
      /\ \A m, n \in 1..Cardinality(P) : Nth(P, m) = Nth(P, n) => m = n
      /\ \A i \in P : \E n \in 1..Cardinality(P) : Nth(P, n) = i
  BY <1>3, <1>4, NthCountsThrough
<1>6. \A n \in 1..Cardinality(P) : s[Nth(P, n)] \in S
  BY <1>1, <1>3, <1>5
<1>7. Kept(s, P) = [n \in 1..Cardinality(P) |-> s[Nth(P, n)]]
  BY DEF Kept
<1>8. Kept(s, P) \in Seq(S) /\ Len(Kept(s, P)) = Cardinality(P)
  BY <1>5, <1>6, <1>7
<1>9. DOMAIN Kept(s, P) = 1..Cardinality(P)
  BY <1>7
<1> QED BY <1>5, <1>7, <1>8, <1>9

LEMMA KeptRange ==
    ASSUME NEW S, NEW s \in Seq(S), NEW P \in SUBSET (DOMAIN s)
    PROVE  /\ Kept(s, P) \in Seq(S)
           /\ Range(Kept(s, P)) = {s[i] : i \in P}
           /\ IsInjective(s) => IsInjective(Kept(s, P))
<1> DEFINE k == Kept(s, P)
<1>1. /\ k \in Seq(S)
      /\ \A n \in DOMAIN k : Nth(P, n) \in P /\ k[n] = s[Nth(P, n)]
      /\ \A m, n \in DOMAIN k : Nth(P, m) = Nth(P, n) => m = n
      /\ \A i \in P : \E n \in DOMAIN k : Nth(P, n) = i
  BY KeptMembers
<1> HIDE DEF k
<1>2. \A x \in Range(k) : x \in {s[i] : i \in P}
  BY <1>1 DEF Range
<1>3. \A i \in P : s[i] \in Range(k)
  BY <1>1 DEF Range
<1>4. IsInjective(s) => IsInjective(k)
  BY <1>1 DEF IsInjective
<1>5. Range(k) = {s[i] : i \in P}
  BY <1>2, <1>3
<1> QED BY <1>1, <1>4, <1>5 DEF k

\* The same of a list of images, or of the items of a section.
LEMMA KeptImages ==
    ASSUME NEW S, NEW s \in Seq(S), NEW P \in SUBSET (DOMAIN s)
    PROVE  /\ FilesOf(Kept(s, P)) = {s[i].file : i \in P}
           /\ StarredIn(Kept(s, P)) = {s[i].file : i \in {j \in P : s[j].favorite}}
           /\ Distinct(s) => Distinct(Kept(s, P))
<1> DEFINE k == Kept(s, P)
<1>1. /\ \A n \in DOMAIN k : Nth(P, n) \in P /\ k[n] = s[Nth(P, n)]
      /\ \A m, n \in DOMAIN k : Nth(P, m) = Nth(P, n) => m = n
      /\ \A i \in P : \E n \in DOMAIN k : Nth(P, n) = i
  BY KeptMembers
<1> HIDE DEF k
<1>2. FilesOf(k) = {s[i].file : i \in P}
  <2>1. \A n \in DOMAIN k : k[n].file \in {s[i].file : i \in P}
    BY <1>1
  <2>2. \A i \in P : s[i].file \in FilesOf(k)
    BY <1>1 DEF FilesOf
  <2> QED BY <2>1, <2>2 DEF FilesOf
<1>3. StarredIn(k) = {s[i].file : i \in {j \in P : s[j].favorite}}
  <2>1. \A n \in DOMAIN k : k[n].favorite =>
           k[n].file \in {s[i].file : i \in {j \in P : s[j].favorite}}
    BY <1>1
  <2>2. \A i \in P : s[i].favorite => s[i].file \in StarredIn(k)
    BY <1>1 DEF StarredIn
  <2> QED BY <2>1, <2>2 DEF StarredIn
<1>4. Distinct(s) => Distinct(k)
  BY <1>1 DEF Distinct
<1> QED BY <1>2, <1>3, <1>4 DEF k

\* Where the members of a sequence are once one is taken out or put in.
LEMMA RemoveAtMembers ==
    ASSUME NEW S, NEW s \in Seq(S), NEW i \in DOMAIN s
    PROVE  /\ RemoveAt(s, i) \in Seq(S)
           /\ Len(RemoveAt(s, i)) = Len(s) - 1
           /\ DOMAIN RemoveAt(s, i) = 1..Len(s) - 1
           /\ \A k \in 1..Len(s) - 1 :
                 RemoveAt(s, i)[k] = s[IF k < i THEN k ELSE k + 1]
<1> DEFINE a == SubSeq(s, 1, i - 1)
           b == SubSeq(s, i + 1, Len(s))
<1>0. Len(s) \in Nat /\ i \in 1..Len(s) /\ \A k \in 1..Len(s) : s[k] \in S
  OBVIOUS
<1>1. /\ a \in Seq(S) /\ Len(a) = i - 1 /\ \A k \in 1..i - 1 : a[k] = s[k]
  BY <1>0
<1>2. /\ b \in Seq(S) /\ Len(b) = Len(s) - i /\ \A k \in 1..Len(s) - i : b[k] = s[i + k]
  BY <1>0
<1> HIDE DEF a, b
<1>3. /\ a \o b \in Seq(S) /\ Len(a \o b) = Len(a) + Len(b)
      /\ \A k \in 1..Len(a) + Len(b) : (a \o b)[k] = IF k <= Len(a) THEN a[k] ELSE b[k - Len(a)]
  BY <1>1, <1>2, ConcatProperties
<1>4. Len(a) + Len(b) = Len(s) - 1
  BY <1>0, <1>1, <1>2
<1>5. ASSUME NEW k \in 1..Len(s) - 1
      PROVE  (a \o b)[k] = s[IF k < i THEN k ELSE k + 1]
  <2>1. (a \o b)[k] = IF k <= i - 1 THEN a[k] ELSE b[k - (i - 1)]
    BY <1>1, <1>3, <1>4
  <2>2. CASE k < i
    <3>1. k <= i - 1 /\ k \in 1..i - 1
      BY <1>0, <2>2
    <3> QED BY <1>1, <2>1, <2>2, <3>1
  <2>3. CASE ~(k < i)
    <3>1. /\ ~(k <= i - 1) /\ k - (i - 1) \in 1..Len(s) - i
          /\ i + (k - (i - 1)) = k + 1
      BY <1>0, <2>3
    <3>2. b[k - (i - 1)] = s[i + (k - (i - 1))]
      BY <1>2, <3>1
    <3> QED BY <2>1, <2>3, <3>1, <3>2
  <2> QED BY <2>2, <2>3
<1>6. DOMAIN (a \o b) = 1..Len(s) - 1
  BY <1>3, <1>4
<1>7. RemoveAt(s, i) = a \o b
  BY DEF RemoveAt, a, b
<1> QED BY <1>3, <1>4, <1>5, <1>6, <1>7

LEMMA InsertAtMembers ==
    ASSUME NEW S, NEW s \in Seq(S), NEW i \in 1..Len(s) + 1, NEW e \in S
    PROVE  /\ InsertAt(s, i, e) \in Seq(S)
           /\ DOMAIN InsertAt(s, i, e) = 1..Len(s) + 1
           /\ InsertAt(s, i, e)[i] = e
           /\ \A k \in 1..Len(s) + 1 : k < i => InsertAt(s, i, e)[k] = s[k]
           /\ \A k \in 1..Len(s) + 1 : k > i => InsertAt(s, i, e)[k] = s[k - 1]
<1> DEFINE a == SubSeq(s, 1, i - 1)
           b == SubSeq(s, i, Len(s))
           ae == a \o <<e>>
<1>0. Len(s) \in Nat /\ i \in 1..Len(s) + 1 /\ \A k \in 1..Len(s) : s[k] \in S
  OBVIOUS
<1>1. a \in Seq(S) /\ Len(a) = i - 1 /\ \A k \in 1..i - 1 : a[k] = s[k]
  BY <1>0
<1>2. /\ b \in Seq(S) /\ Len(b) = Len(s) - i + 1
      /\ \A k \in 1..Len(s) - i + 1 : b[k] = s[i + k - 1]
  BY <1>0
<1>3. <<e>> \in Seq(S) /\ Len(<<e>>) = 1 /\ <<e>>[1] = e
  OBVIOUS
<1> HIDE DEF a, b
<1>4. /\ ae \in Seq(S) /\ Len(ae) = i
      /\ \A k \in 1..i : ae[k] = IF k = i THEN e ELSE s[k]
  <2>1. /\ ae \in Seq(S) /\ Len(ae) = Len(a) + 1
        /\ \A k \in 1..Len(a) + 1 : ae[k] = IF k <= Len(a) THEN a[k] ELSE <<e>>[k - Len(a)]
    BY <1>1, <1>3, ConcatProperties
  <2>2. Len(a) + 1 = i
    BY <1>0, <1>1
  <2>3. ASSUME NEW k \in 1..i PROVE ae[k] = IF k = i THEN e ELSE s[k]
    <3>1. CASE k = i
      <4>1. ~(k <= Len(a)) /\ k - Len(a) = 1
        BY <1>0, <1>1, <3>1
      <4> QED BY <1>3, <2>1, <2>2, <3>1, <4>1
    <3>2. CASE k # i
      <4>1. k <= Len(a) /\ k \in 1..i - 1
        BY <1>0, <1>1, <3>2
      <4> QED BY <1>1, <2>1, <2>2, <3>2, <4>1
    <3> QED BY <3>1, <3>2
  <2> QED BY <2>1, <2>2, <2>3
<1> HIDE DEF ae
<1>5. /\ ae \o b \in Seq(S) /\ Len(ae \o b) = Len(ae) + Len(b)
      /\ \A k \in 1..Len(ae) + Len(b) : (ae \o b)[k] = IF k <= Len(ae) THEN ae[k] ELSE b[k - Len(ae)]
  BY <1>2, <1>4, ConcatProperties
<1>6. Len(ae) + Len(b) = Len(s) + 1
  BY <1>0, <1>2, <1>4
<1>7. ASSUME NEW k \in 1..Len(s) + 1
      PROVE  (ae \o b)[k] = IF k < i THEN s[k] ELSE IF k = i THEN e ELSE s[k - 1]
  <2>1. (ae \o b)[k] = IF k <= i THEN ae[k] ELSE b[k - i]
    BY <1>4, <1>5, <1>6
  <2>2. CASE k <= i
    <3>1. k \in 1..i
      BY <1>0, <2>2
    <3> QED BY <1>0, <1>4, <2>1, <2>2, <3>1
  <2>3. CASE ~(k <= i)
    <3>1. k - i \in 1..Len(s) - i + 1 /\ i + (k - i) - 1 = k - 1 /\ ~(k < i) /\ k # i
      BY <1>0, <2>3
    <3> QED BY <1>2, <2>1, <2>3, <3>1
  <2> QED BY <2>2, <2>3
<1>8. DOMAIN (ae \o b) = 1..Len(s) + 1
  BY <1>5, <1>6
<1>9. /\ (ae \o b)[i] = e
      /\ \A k \in 1..Len(s) + 1 : k < i => (ae \o b)[k] = s[k]
      /\ \A k \in 1..Len(s) + 1 : k > i => (ae \o b)[k] = s[k - 1]
  <2> DEFINE r == ae \o b
  <2>1. \A k \in 1..Len(s) + 1 : r[k] = IF k < i THEN s[k] ELSE IF k = i THEN e ELSE s[k - 1]
    BY <1>7
  <2> HIDE DEF r
  <2>2. /\ r[i] = e
        /\ \A k \in 1..Len(s) + 1 : k < i => r[k] = s[k]
        /\ \A k \in 1..Len(s) + 1 : k > i => r[k] = s[k - 1]
    BY <1>0, <2>1
  <2> QED BY <2>2 DEF r
<1>10. InsertAt(s, i, e) = ae \o b
  BY DEF InsertAt, ae, a, b
<1> QED BY <1>5, <1>8, <1>9, <1>10

\* Where the members of a list stood before one of them was taken out.
OldAt(i, k) == IF k < i THEN k ELSE k + 1

LEMMA RemovedPlaces ==
    ASSUME NEW S, NEW s \in Seq(S), NEW i \in DOMAIN s
    PROVE  LET r == RemoveAt(s, i) IN
           /\ r \in Seq(S) /\ Len(r) = Len(s) - 1 /\ DOMAIN r = 1..Len(s) - 1
           /\ \A k \in DOMAIN r : /\ r[k] = s[OldAt(i, k)]
                                 /\ OldAt(i, k) \in DOMAIN s /\ OldAt(i, k) # i
           /\ \A k, m \in DOMAIN r : OldAt(i, k) = OldAt(i, m) => k = m
           /\ \A j \in DOMAIN s : j # i => \E k \in DOMAIN r : OldAt(i, k) = j
<1> DEFINE r == RemoveAt(s, i)
           old(k) == OldAt(i, k)
<1>1. /\ r \in Seq(S) /\ Len(r) = Len(s) - 1 /\ DOMAIN r = 1..Len(s) - 1
      /\ \A k \in 1..Len(s) - 1 : r[k] = s[old(k)]
  BY RemoveAtMembers DEF OldAt
<1>2. Len(s) \in Nat /\ DOMAIN s = 1..Len(s) /\ i \in 1..Len(s)
  OBVIOUS
<1>3. /\ \A k \in 1..Len(s) - 1 : old(k) \in DOMAIN s /\ old(k) # i
      /\ \A k, m \in 1..Len(s) - 1 : old(k) = old(m) => k = m
      /\ \A j \in DOMAIN s : j # i => \E k \in 1..Len(s) - 1 : old(k) = j
  <2>1. \A k \in 1..Len(s) - 1 : old(k) \in DOMAIN s /\ old(k) # i
    BY <1>2 DEF OldAt
  <2>2. \A k, m \in 1..Len(s) - 1 : old(k) = old(m) => k = m
    BY <1>2 DEF OldAt
  <2>3. ASSUME NEW j \in DOMAIN s, j # i PROVE \E k \in 1..Len(s) - 1 : old(k) = j
    <3>1. CASE j < i
      <4>1. j \in 1..Len(s) - 1 /\ old(j) = j
        BY <1>2, <3>1 DEF OldAt
      <4> QED BY <4>1
    <3>2. CASE ~(j < i)
      <4>1. j - 1 \in 1..Len(s) - 1 /\ old(j - 1) = j
        BY <1>2, <2>3, <3>2 DEF OldAt
      <4> QED BY <4>1
    <3> QED BY <3>1, <3>2
  <2> QED BY <2>1, <2>2, <2>3
<1>4. /\ \A k \in DOMAIN r : r[k] = s[old(k)] /\ old(k) \in DOMAIN s /\ old(k) # i
      /\ \A k, m \in DOMAIN r : old(k) = old(m) => k = m
      /\ \A j \in DOMAIN s : j # i => \E k \in DOMAIN r : old(k) = j
  <2> HIDE DEF r, old
  <2> QED BY <1>1, <1>3
<1> QED BY <1>1, <1>4

\* Where they stood before one was put in.
OldBefore(i, k) == IF k < i THEN k ELSE k - 1

LEMMA InsertedPlaces ==
    ASSUME NEW S, NEW s \in Seq(S), NEW i \in 1..Len(s) + 1, NEW e \in S
    PROVE  LET r == InsertAt(s, i, e) IN
           /\ r \in Seq(S) /\ DOMAIN r = 1..Len(s) + 1
           /\ i \in DOMAIN r /\ r[i] = e
           /\ \A k \in DOMAIN r : k # i => /\ r[k] = s[OldBefore(i, k)]
                                         /\ OldBefore(i, k) \in DOMAIN s
           /\ \A k, m \in DOMAIN r :
                 k # i /\ m # i /\ OldBefore(i, k) = OldBefore(i, m) => k = m
           /\ \A j \in DOMAIN s : \E k \in DOMAIN r : k # i /\ OldBefore(i, k) = j
<1> DEFINE r == InsertAt(s, i, e)
           old(k) == IF k < i THEN k ELSE k - 1
<1>1. /\ r \in Seq(S) /\ DOMAIN r = 1..Len(s) + 1
      /\ \A k \in 1..Len(s) + 1 : r[k] = IF k = i THEN e ELSE s[old(k)]
  <2>1. /\ r \in Seq(S) /\ DOMAIN r = 1..Len(s) + 1 /\ r[i] = e
        /\ \A k \in 1..Len(s) + 1 : k < i => r[k] = s[k]
        /\ \A k \in 1..Len(s) + 1 : k > i => r[k] = s[k - 1]
    BY InsertAtMembers
  <2>2. \A k \in 1..Len(s) + 1 : k < i \/ k = i \/ k > i
    BY i \in Nat, Len(s) \in Nat
  <2>3. \A k \in 1..Len(s) + 1 : k > i => ~(k < i)
    BY i \in Nat, Len(s) \in Nat
  <2> HIDE DEF r
  <2> QED BY <2>1, <2>2, <2>3
<1>2. Len(s) \in Nat /\ DOMAIN s = 1..Len(s) /\ i \in 1..Len(s) + 1
  OBVIOUS
<1>3. /\ \A k \in 1..Len(s) + 1 : k # i => old(k) \in DOMAIN s
      /\ \A k, m \in 1..Len(s) + 1 : k # i /\ m # i /\ old(k) = old(m) => k = m
      /\ \A j \in DOMAIN s : \E k \in 1..Len(s) + 1 : k # i /\ old(k) = j
  <2>1. \A k \in 1..Len(s) + 1 : k # i => old(k) \in DOMAIN s
    BY <1>2
  <2>2. \A k, m \in 1..Len(s) + 1 : k # i /\ m # i /\ old(k) = old(m) => k = m
    BY <1>2
  <2>3. ASSUME NEW j \in DOMAIN s
        PROVE  \E k \in 1..Len(s) + 1 : k # i /\ old(k) = j
    <3>1. CASE j < i
      <4>1. j \in 1..Len(s) + 1 /\ j # i /\ old(j) = j
        BY <1>2, <3>1
      <4> QED BY <4>1
    <3>2. CASE ~(j < i)
      <4>1. j + 1 \in 1..Len(s) + 1 /\ j + 1 # i
        BY <1>2, <3>2
      <4>2. old(j + 1) = j
        BY <1>2, <3>2
      <4> QED BY <4>1, <4>2
    <3> QED BY <3>1, <3>2
  <2> QED BY <2>1, <2>2, <2>3
<1>4. i \in DOMAIN r /\ r[i] = e
  BY <1>1, <1>2
<1> HIDE DEF r, old
<1>5. \A k : OldBefore(i, k) = old(k)
  BY DEF OldBefore, old
<1> QED BY <1>1, <1>3, <1>4, <1>5 DEF r


\* The first place of what is looked for.
LEMMA PlaceOfFirst ==
    ASSUME NEW S, NEW s \in Seq(S), NEW f
    PROVE  /\ Position(s, f) \in 0..Len(s)
           /\ f \in FilesOf(s) => /\ Position(s, f) \in DOMAIN s
                                  /\ s[Position(s, f)].file = f
           /\ f \notin FilesOf(s) => Position(s, f) = 0
<1> DEFINE I == {i \in 1..Len(s) : s[i].file = f}
<1>1. Len(s) \in Nat /\ DOMAIN s = 1..Len(s) /\ I \in SUBSET Nat
  OBVIOUS
<1>2. Position(s, f) = IF I # {} THEN Min(I) ELSE 0
  BY DEF Position, SelectInSeq
<1>3. I # {} <=> f \in FilesOf(s)
  BY <1>1 DEF FilesOf
<1>4. I # {} => Min(I) \in I
  <2>1. I # {} => \E x \in I : \A y \in I : x <= y
    BY <1>1, LeastMember
  <2> HIDE DEF I
  <2> QED BY <2>1 DEF Min
<1>5. \A i \in I : i \in 1..Len(s) /\ s[i].file = f
  OBVIOUS
<1> HIDE DEF I
<1>6. CASE I # {}
  <2>1. Position(s, f) \in I
    BY <1>2, <1>4, <1>6
  <2>2. Position(s, f) \in 1..Len(s) /\ s[Position(s, f)].file = f
    BY <1>5, <2>1
  <2>3. f \in FilesOf(s)
    BY <1>3, <1>6
  <2> QED BY <1>1, <2>2, <2>3
<1>7. CASE I = {}
  <2>1. Position(s, f) = 0
    BY <1>2, <1>7
  <2> QED BY <1>1, <1>3, <1>7, <2>1
<1> QED BY <1>6, <1>7

LEMMA PlaceOfName ==
    ASSUME NEW S, NEW s \in Seq(S), NEW f
    PROVE  /\ IndexOf(s, f) \in 0..Len(s)
           /\ f \in Range(s) => /\ IndexOf(s, f) \in DOMAIN s
                                /\ s[IndexOf(s, f)] = f
<1> DEFINE I == {i \in 1..Len(s) : s[i] = f}
           at == IndexOf(s, f)
<1>1. Len(s) \in Nat /\ DOMAIN s = 1..Len(s) /\ I \in SUBSET Nat
  OBVIOUS
<1>2. at = IF I # {} THEN Min(I) ELSE 0
  BY DEF IndexOf, SelectInSeq
<1>3. f \in Range(s) => I # {}
  BY <1>1 DEF Range
<1>4. I # {} => Min(I) \in I
  <2>1. I # {} => \E x \in I : \A y \in I : x <= y
    BY <1>1, LeastMember
  <2> HIDE DEF I
  <2> QED BY <2>1 DEF Min
<1>5. \A i \in I : i \in 1..Len(s) /\ s[i] = f
  OBVIOUS
<1> HIDE DEF I, at
<1>6. /\ at \in 0..Len(s)
      /\ f \in Range(s) => at \in DOMAIN s /\ s[at] = f
  <2>1. CASE I # {}
    <3>1. at \in I
      BY <1>2, <1>4, <2>1
    <3> QED BY <1>1, <1>3, <1>5, <2>1, <3>1
  <2>2. CASE I = {}
    <3>1. at = 0
      BY <1>2, <2>2
    <3> QED BY <1>1, <1>3, <2>2, <3>1
  <2> QED BY <2>1, <2>2
<1> QED BY <1>6 DEF at

-----------------------------------------------------------------------------
(* Lists of images                                                         *)

LEMMA RemoveImageAt ==
    ASSUME NEW S, NEW s \in Seq(S), NEW i \in DOMAIN s, Distinct(s)
    PROVE  /\ RemoveAt(s, i) \in Seq(S) /\ Len(RemoveAt(s, i)) = Len(s) - 1
           /\ Distinct(RemoveAt(s, i))
           /\ FilesOf(RemoveAt(s, i)) = FilesOf(s) \ {s[i].file}
           /\ StarredIn(RemoveAt(s, i)) = StarredIn(s) \ {s[i].file}
<1> DEFINE r == RemoveAt(s, i)
           old(k) == OldAt(i, k)
<1>4. /\ \A k \in DOMAIN r : r[k] = s[old(k)] /\ old(k) \in DOMAIN s /\ old(k) # i
      /\ \A k, m \in DOMAIN r : old(k) = old(m) => k = m
      /\ \A j \in DOMAIN s : j # i => \E k \in DOMAIN r : old(k) = j
  BY RemovedPlaces
<1>0. r \in Seq(S) /\ Len(r) = Len(s) - 1
  BY RemovedPlaces
<1> HIDE DEF r, old
<1>5. Distinct(r)
  <2>1. ASSUME NEW k \in DOMAIN r, NEW m \in DOMAIN r, r[k].file = r[m].file
        PROVE  k = m
    <3>1. old(k) = old(m)
      BY <1>4, <2>1 DEF Distinct
    <3> QED BY <1>4, <3>1
  <2> QED BY <2>1 DEF Distinct
<1>6. FilesOf(r) = FilesOf(s) \ {s[i].file}
  <2>1. \A k \in DOMAIN r : r[k].file \in FilesOf(s) \ {s[i].file}
    BY <1>4 DEF FilesOf, Distinct
  <2>2. ASSUME NEW j \in DOMAIN s, s[j].file # s[i].file PROVE s[j].file \in FilesOf(r)
    <3>1. PICK k \in DOMAIN r : old(k) = j
      BY <1>4, <2>2
    <3> QED BY <1>4, <3>1 DEF FilesOf
  <2> QED BY <2>1, <2>2 DEF FilesOf
<1>7. StarredIn(r) = StarredIn(s) \ {s[i].file}
  <2>1. \A k \in DOMAIN r : r[k].favorite => r[k].file \in StarredIn(s) \ {s[i].file}
    BY <1>4 DEF StarredIn, Distinct
  <2>2. ASSUME NEW j \in DOMAIN s, s[j].favorite, s[j].file # s[i].file
        PROVE  s[j].file \in StarredIn(r)
    <3>1. PICK k \in DOMAIN r : old(k) = j
      BY <1>4, <2>2
    <3> QED BY <1>4, <2>2, <3>1 DEF StarredIn
  <2> QED BY <2>1, <2>2 DEF StarredIn
<1> QED BY <1>0, <1>5, <1>6, <1>7 DEF r

LEMMA InsertImageAt ==
    ASSUME NEW S, NEW s \in Seq(S), NEW i \in 1..Len(s) + 1, NEW e \in S,
           Distinct(s), e.file \notin FilesOf(s)
    PROVE  /\ InsertAt(s, i, e) \in Seq(S) /\ Distinct(InsertAt(s, i, e))
           /\ FilesOf(InsertAt(s, i, e)) = FilesOf(s) \cup {e.file}
           /\ StarredIn(InsertAt(s, i, e)) =
                 StarredIn(s) \cup {f \in {e.file} : e.favorite}
<1> DEFINE r == InsertAt(s, i, e)
           old(k) == OldBefore(i, k)
<1>1. /\ r \in Seq(S)
      /\ \A k \in DOMAIN r : r[k] = IF k = i THEN e ELSE s[old(k)]
  BY InsertedPlaces
<1>3. /\ \A k \in DOMAIN r : k # i => old(k) \in DOMAIN s
      /\ \A k, m \in DOMAIN r : k # i /\ m # i /\ old(k) = old(m) => k = m
      /\ \A j \in DOMAIN s : \E k \in DOMAIN r : k # i /\ old(k) = j
  BY InsertedPlaces
<1>0. i \in DOMAIN r /\ r[i] = e
  BY InsertedPlaces
<1> HIDE DEF r, old
<1>4. Distinct(r)
  <2>1. \A k \in DOMAIN r : k # i => r[k].file \in FilesOf(s)
    BY <1>1, <1>3 DEF FilesOf
  <2>2. \A k, m \in DOMAIN r : k # i /\ m # i /\ r[k].file = r[m].file => k = m
    BY <1>1, <1>3 DEF Distinct
  <2> QED BY <1>0, <2>1, <2>2 DEF Distinct
<1>5. FilesOf(r) = FilesOf(s) \cup {e.file}
  <2>1. \A k \in DOMAIN r : r[k].file \in FilesOf(s) \cup {e.file}
    BY <1>1, <1>3 DEF FilesOf
  <2>2. \A j \in DOMAIN s : s[j].file \in FilesOf(r)
    BY <1>1, <1>3 DEF FilesOf
  <2>3. e.file \in FilesOf(r)
    BY <1>0 DEF FilesOf
  <2> QED BY <2>1, <2>2, <2>3 DEF FilesOf
<1>6. StarredIn(r) = StarredIn(s) \cup {f \in {e.file} : e.favorite}
  <2>1. \A k \in DOMAIN r : r[k].favorite =>
           r[k].file \in StarredIn(s) \cup {f \in {e.file} : e.favorite}
    BY <1>1, <1>3 DEF StarredIn
  <2>2. \A j \in DOMAIN s : s[j].favorite => s[j].file \in StarredIn(r)
    BY <1>1, <1>3 DEF StarredIn
  <2>3. e.favorite => e.file \in StarredIn(r)
    BY <1>0 DEF StarredIn
  <2> QED BY <2>1, <2>2, <2>3 DEF StarredIn
<1> QED BY <1>1, <1>4, <1>5, <1>6 DEF r

\* An image taken out and put in again, wherever, is in the list as before.
LEMMA MovedImage ==
    ASSUME NEW s \in Seq(Images), Distinct(s), NEW i \in DOMAIN s,
           NEW r \in Seq(Images), Distinct(r), NEW k \in 1..Len(r) + 1,
           FilesOf(r) = FilesOf(s) \ {s[i].file},
           StarredIn(r) = StarredIn(s) \ {s[i].file}
    PROVE  /\ InsertAt(r, k, s[i]) \in Seq(Images)
           /\ Distinct(InsertAt(r, k, s[i]))
           /\ FilesOf(InsertAt(r, k, s[i])) = FilesOf(s)
           /\ StarredIn(InsertAt(r, k, s[i])) = StarredIn(s)
<1>1. s[i] \in Images /\ s[i].file \in FilesOf(s) /\ s[i].file \notin FilesOf(r)
  <2>1. s[i] \in Images
    OBVIOUS
  <2>2. s[i].file \in FilesOf(s)
    BY DEF FilesOf
  <2> QED BY <2>1, <2>2
<1>2. s[i].favorite <=> s[i].file \in StarredIn(s)
  BY DEF StarredIn, Distinct
<1>3. /\ InsertAt(r, k, s[i]) \in Seq(Images) /\ Distinct(InsertAt(r, k, s[i]))
      /\ FilesOf(InsertAt(r, k, s[i])) = FilesOf(r) \cup {s[i].file}
      /\ StarredIn(InsertAt(r, k, s[i])) =
            StarredIn(r) \cup {f \in {s[i].file} : s[i].favorite}
  BY <1>1, InsertImageAt
<1> QED BY <1>1, <1>2, <1>3

LEMMA WithoutImage ==
    ASSUME NEW s \in Seq(Images), Distinct(s), NEW f
    PROVE  /\ Without(s, f) \in Seq(Images) /\ Distinct(Without(s, f))
           /\ FilesOf(Without(s, f)) = FilesOf(s) \ {f}
           /\ StarredIn(Without(s, f)) = StarredIn(s) \ {f}
           /\ f \in FilesOf(s) => Len(Without(s, f)) = Len(s) - 1
<1> DEFINE P == {i \in DOMAIN s : s[i].file # f}
<1>1. /\ Without(s, f) \in Seq(Images) /\ Distinct(Without(s, f))
      /\ Len(Without(s, f)) = Cardinality(P)
      /\ FilesOf(Without(s, f)) = {s[i].file : i \in P}
      /\ StarredIn(Without(s, f)) = {s[i].file : i \in {j \in P : s[j].favorite}}
  BY KeptMembers, KeptImages DEF Without
<1>2. /\ {s[i].file : i \in P} = FilesOf(s) \ {f}
      /\ {s[i].file : i \in {j \in P : s[j].favorite}} = StarredIn(s) \ {f}
  BY DEF FilesOf, StarredIn
<1>3. ASSUME f \in FilesOf(s) PROVE Cardinality(P) = Len(s) - 1
  <2>1. PICK i \in DOMAIN s : s[i].file = f
    BY <1>3 DEF FilesOf
  <2>2. DOMAIN s = 1..Len(s) /\ Len(s) \in Nat
    OBVIOUS
  <2>3. IsFiniteSet(DOMAIN s) /\ Cardinality(DOMAIN s) = Len(s)
    <3> DEFINE n == Len(s)
    <3>1. n \in Nat /\ DOMAIN s = 1..n
      BY <2>2
    <3> HIDE DEF n
    <3>2. IsFiniteSet(1..n) /\ Cardinality(1..n) = IF 1 > n THEN 0 ELSE n - 1 + 1
      BY <3>1, FS_Interval
    <3>3. Cardinality(1..n) = n
      BY <3>1, <3>2
    <3> QED BY <3>1, <3>2, <3>3 DEF n
  <2>4. P = (DOMAIN s) \ {i}
    BY <2>1 DEF Distinct
  <2>5. Cardinality((DOMAIN s) \ {i}) = Cardinality(DOMAIN s) - 1
    BY <2>1, <2>3, FS_RemoveElement
  <2> QED BY <2>3, <2>4, <2>5
<1> HIDE DEF P
<1> QED BY <1>1, <1>2, <1>3

LEMMA StarsFirst ==
    ASSUME NEW s \in Seq(Images), Distinct(s)
    PROVE  /\ FavouritesFirst(s) \in Seq(Images) /\ Distinct(FavouritesFirst(s))
           /\ FilesOf(FavouritesFirst(s)) = FilesOf(s)
           /\ StarredIn(FavouritesFirst(s)) = StarredIn(s)
<1> DEFINE a == Starred(s)
           b == Unstarred(s)
           r == a \o b
<1>1. /\ a \in Seq(Images) /\ Distinct(a)
      /\ FilesOf(a) = StarredIn(s) /\ StarredIn(a) = StarredIn(s)
  <2> DEFINE P == {i \in DOMAIN s : s[i].favorite}
  <2>1. /\ Kept(s, P) \in Seq(Images) /\ Distinct(Kept(s, P))
        /\ FilesOf(Kept(s, P)) = {s[i].file : i \in P}
        /\ StarredIn(Kept(s, P)) = {s[i].file : i \in {j \in P : s[j].favorite}}
    BY KeptMembers, KeptImages
  <2>2. {j \in P : s[j].favorite} = P /\ StarredIn(s) = {s[i].file : i \in P}
    BY DEF StarredIn
  <2> HIDE DEF P
  <2>3. a = Kept(s, P)
    BY DEF a, Starred, P
  <2> QED BY <2>1, <2>2, <2>3
<1>2. /\ b \in Seq(Images) /\ Distinct(b) /\ StarredIn(b) = {}
      /\ FilesOf(b) = {s[i].file : i \in {j \in DOMAIN s : ~s[j].favorite}}
  <2> DEFINE P == {i \in DOMAIN s : ~s[i].favorite}
  <2>1. /\ Kept(s, P) \in Seq(Images) /\ Distinct(Kept(s, P))
        /\ FilesOf(Kept(s, P)) = {s[i].file : i \in P}
        /\ StarredIn(Kept(s, P)) = {s[i].file : i \in {j \in P : s[j].favorite}}
    BY KeptMembers, KeptImages
  <2>2. {j \in P : s[j].favorite} = {}
    OBVIOUS
  <2>3. b = Kept(s, P)
    BY DEF Unstarred
  <2> QED BY <2>1, <2>2, <2>3
<1>3. FilesOf(b) = FilesOf(s) \ StarredIn(s)
  <2>1. \A i, j \in DOMAIN s : s[i].file = s[j].file => i = j
    BY DEF Distinct
  <2>2. \A i \in DOMAIN s : s[i].file \in StarredIn(s) <=> s[i].favorite
    BY <2>1 DEF StarredIn
  <2>3. \A f \in FilesOf(b) : f \in FilesOf(s) \ StarredIn(s)
    BY <1>2, <2>2 DEF FilesOf
  <2>4. \A f \in FilesOf(s) \ StarredIn(s) : f \in FilesOf(b)
    BY <1>2, <2>2 DEF FilesOf
  <2> QED BY <2>3, <2>4
<1> HIDE DEF a, b
<1>4. /\ r \in Seq(Images) /\ DOMAIN r = 1..Len(a) + Len(b)
      /\ DOMAIN a = 1..Len(a) /\ DOMAIN b = 1..Len(b)
      /\ Len(a) \in Nat /\ Len(b) \in Nat
      /\ \A k \in 1..Len(a) + Len(b) : r[k] = IF k <= Len(a) THEN a[k] ELSE b[k - Len(a)]
  <2>1. /\ r \in Seq(Images) /\ Len(r) = Len(a) + Len(b)
        /\ \A k \in 1..Len(a) + Len(b) : r[k] = IF k <= Len(a) THEN a[k] ELSE b[k - Len(a)]
    BY <1>1, <1>2, ConcatProperties
  <2>2. /\ DOMAIN r = 1..Len(r) /\ DOMAIN a = 1..Len(a) /\ DOMAIN b = 1..Len(b)
        /\ Len(a) \in Nat /\ Len(b) \in Nat
    <3> HIDE DEF r
    <3> QED BY <1>1, <1>2, <2>1
  <2> QED BY <2>1, <2>2
<1> HIDE DEF r
<1>5. ASSUME NEW k \in DOMAIN r
      PROVE  \/ k \in DOMAIN a /\ r[k] = a[k]
             \/ k - Len(a) \in DOMAIN b /\ r[k] = b[k - Len(a)]
  <2>1. CASE k <= Len(a)
    BY <1>4, <2>1
  <2>2. CASE ~(k <= Len(a))
    <3>1. k - Len(a) \in DOMAIN b
      BY <1>4, <2>2
    <3> QED BY <1>4, <2>2, <3>1
  <2> QED BY <2>1, <2>2
<1>6. /\ \A k \in DOMAIN a : k \in DOMAIN r /\ r[k] = a[k]
      /\ \A k \in DOMAIN b : k + Len(a) \in DOMAIN r /\ r[k + Len(a)] = b[k]
  <2>1. \A k \in DOMAIN a : k \in DOMAIN r /\ r[k] = a[k]
    BY <1>4
  <2>2. ASSUME NEW k \in DOMAIN b
        PROVE  k + Len(a) \in DOMAIN r /\ r[k + Len(a)] = b[k]
    <3>1. k + Len(a) \in 1..Len(a) + Len(b) /\ ~(k + Len(a) <= Len(a))
          /\ (k + Len(a)) - Len(a) = k
      BY <1>4
    <3> QED BY <1>4, <3>1
  <2> QED BY <2>1, <2>2
<1>7. FilesOf(r) = FilesOf(a) \cup FilesOf(b)
  <2>1. \A k \in DOMAIN r : r[k].file \in FilesOf(a) \cup FilesOf(b)
    BY <1>5 DEF FilesOf
  <2>2. \A k \in DOMAIN a : a[k].file \in FilesOf(r)
    BY <1>6 DEF FilesOf
  <2>3. \A k \in DOMAIN b : b[k].file \in FilesOf(r)
    BY <1>6 DEF FilesOf
  <2> QED BY <2>1, <2>2, <2>3 DEF FilesOf
<1>8. StarredIn(r) = StarredIn(a) \cup StarredIn(b)
  <2>1. \A k \in DOMAIN r : r[k].favorite => r[k].file \in StarredIn(a) \cup StarredIn(b)
    BY <1>5 DEF StarredIn
  <2>2. \A k \in DOMAIN a : a[k].favorite => a[k].file \in StarredIn(r)
    BY <1>6 DEF StarredIn
  <2>3. \A k \in DOMAIN b : b[k].favorite => b[k].file \in StarredIn(r)
    BY <1>6 DEF StarredIn
  <2> QED BY <2>1, <2>2, <2>3 DEF StarredIn
<1>9. Distinct(r)
  <2>1. ASSUME NEW k \in DOMAIN r, NEW m \in DOMAIN r, r[k].file = r[m].file PROVE k = m
    <3>1. FilesOf(a) \cap FilesOf(b) = {}
      BY <1>1, <1>3
    <3>2. CASE k \in DOMAIN a /\ r[k] = a[k]
      <4>1. r[m].file \in FilesOf(a)
        BY <2>1, <3>2 DEF FilesOf
      <4>2. m \in DOMAIN a /\ r[m] = a[m]
        <5>1. m - Len(a) \in DOMAIN b /\ r[m] = b[m - Len(a)] => r[m].file \in FilesOf(b)
          BY DEF FilesOf
        <5> QED BY <1>5, <3>1, <4>1, <5>1
      <4> QED BY <1>1, <2>1, <3>2, <4>2 DEF Distinct
    <3>3. CASE k - Len(a) \in DOMAIN b /\ r[k] = b[k - Len(a)]
      <4>1. r[m].file \in FilesOf(b)
        BY <2>1, <3>3 DEF FilesOf
      <4>2. m - Len(a) \in DOMAIN b /\ r[m] = b[m - Len(a)]
        <5>1. m \in DOMAIN a /\ r[m] = a[m] => r[m].file \in FilesOf(a)
          BY DEF FilesOf
        <5> QED BY <1>5, <3>1, <4>1, <5>1
      <4>3. k - Len(a) = m - Len(a)
        BY <1>2, <2>1, <3>3, <4>2 DEF Distinct
      <4> QED BY <1>4, <4>3
    <3> QED BY <1>5, <3>2, <3>3
  <2> QED BY <2>1 DEF Distinct
<1>10. StarredIn(s) \subseteq FilesOf(s)
  BY DEF StarredIn, FilesOf
<1> QED BY <1>1, <1>2, <1>3, <1>4, <1>7, <1>8, <1>9, <1>10 DEF r, FavouritesFirst, a, b

LEMMA SeenAgrees ==
    ASSUME NEW b \in Buckets, IsInjective(b.sequence)
    PROVE  /\ Seen(b) \in Seq(Images) /\ Distinct(Seen(b))
           /\ FilesOf(Seen(b)) = Range(b.sequence)
           /\ StarredIn(Seen(b)) = Range(b.favorites) \cap Range(b.sequence)
<1> DEFINE q == b.sequence
           entry(i) == [file |-> q[i], favorite |-> Contains(b.favorites, q[i])]
           s == [i \in DOMAIN q |-> entry(i)]
<1>1. q \in Seq(Files) /\ b.favorites \in Seq(Files)
  BY DEF Buckets
<1> HIDE DEF q
<1>2. /\ Len(q) \in Nat /\ DOMAIN q = 1..Len(q) /\ \A i \in 1..Len(q) : q[i] \in Files
  BY <1>1
<1>3. \A i \in 1..Len(q) : entry(i) \in Images
  BY <1>2 DEF Images, Contains
<1>4. s \in Seq(Images)
  <2> HIDE DEF entry
  <2> QED BY <1>2, <1>3
<1>5. /\ DOMAIN s = DOMAIN q
      /\ \A i \in DOMAIN s : s[i].file = q[i] /\ s[i].favorite = Contains(b.favorites, q[i])
  OBVIOUS
<1> HIDE DEF s
<1>6. \A f : Contains(b.favorites, f) <=> f \in Range(b.favorites)
  <2>1. DOMAIN b.favorites = 1..Len(b.favorites)
    BY <1>1
  <2> QED BY <2>1 DEF Contains, Range
<1>7. Distinct(s)
  BY <1>5 DEF Distinct, IsInjective, q
<1>8. FilesOf(s) = Range(q)
  BY <1>5 DEF FilesOf, Range
<1>9. StarredIn(s) = Range(b.favorites) \cap Range(q)
  <2>1. \A i \in DOMAIN s : s[i].favorite => s[i].file \in Range(b.favorites) \cap Range(q)
    BY <1>5, <1>6 DEF Range
  <2>2. \A i \in DOMAIN q : q[i] \in Range(b.favorites) => q[i] \in StarredIn(s)
    BY <1>5, <1>6 DEF StarredIn
  <2> QED BY <2>1, <2>2 DEF StarredIn, Range
<1>10. Seen(b) = FavouritesFirst(s)
  BY DEF Seen, s, q
<1> QED BY <1>4, <1>7, <1>8, <1>9, <1>10, StarsFirst DEF q

LEMMA StarChanged ==
    ASSUME NEW s \in Seq(Images), Distinct(s), NEW f, NEW star \in BOOLEAN
    PROVE  /\ WithStar(s, f, star) \in Seq(Images) /\ Distinct(WithStar(s, f, star))
           /\ FilesOf(WithStar(s, f, star)) = FilesOf(s)
           /\ StarredIn(WithStar(s, f, star)) =
                 (StarredIn(s) \ {f}) \cup {g \in FilesOf(s) : g = f /\ star}
<1> DEFINE w == WithStar(s, f, star)
<1>1. Len(s) \in Nat /\ DOMAIN s = 1..Len(s) /\ \A i \in DOMAIN s : s[i] \in Images
  OBVIOUS
<1>2. /\ DOMAIN w = DOMAIN s
      /\ \A i \in DOMAIN s : /\ w[i] \in Images /\ w[i].file = s[i].file
                             /\ w[i].favorite = IF s[i].file = f THEN star ELSE s[i].favorite
  BY <1>1 DEF WithStar, Images
<1>3. w = [i \in 1..Len(s) |-> w[i]]
  BY <1>1 DEF WithStar
<1> HIDE DEF w
<1>4. w \in Seq(Images)
  BY <1>1, <1>2, <1>3
<1>5. Distinct(w) /\ FilesOf(w) = FilesOf(s)
  BY <1>2 DEF Distinct, FilesOf
<1>6. StarredIn(w) = (StarredIn(s) \ {f}) \cup {g \in FilesOf(s) : g = f /\ star}
  <2>1. \A i \in DOMAIN w : w[i].favorite =>
           w[i].file \in (StarredIn(s) \ {f}) \cup {g \in FilesOf(s) : g = f /\ star}
    BY <1>2 DEF StarredIn, FilesOf
  <2>2. \A i \in DOMAIN s : s[i].favorite /\ s[i].file # f => s[i].file \in StarredIn(w)
    BY <1>2 DEF StarredIn
  <2>3. \A i \in DOMAIN s : s[i].file = f /\ star => s[i].file \in StarredIn(w)
    BY <1>2 DEF StarredIn
  <2> QED BY <2>1, <2>2, <2>3 DEF StarredIn, FilesOf
<1> QED BY <1>4, <1>5, <1>6 DEF w

LEMMA ReorderedList ==
    ASSUME images \in Seq(Images), Distinct(images), NEW id \in Ids, NEW over \in Ids
    PROVE  /\ Reordered(id, over) \in Seq(Images) /\ Distinct(Reordered(id, over))
           /\ FilesOf(Reordered(id, over)) = FilesOf(images)
           /\ StarredIn(Reordered(id, over)) = StarredIn(images)
<1> DEFINE at   == PlaceOf(images, id)
           r    == RemoveAt(images, at)
           to   == PlaceOf(r, over)
           back == PlaceOf(Sorted, id) < PlaceOf(Sorted, over)
           k    == IF back THEN to + 1 ELSE to
<1>1. CASE at = 0 \/ to = 0
  BY <1>1 DEF Reordered
<1>2. CASE ~(at = 0 \/ to = 0)
  <2>1. at \in DOMAIN images
    <3>1. Position(images, id.file) \in DOMAIN images \/ Position(images, id.file) = 0
      BY PlaceOfFirst
    <3> QED BY <1>2, <3>1 DEF PlaceOf
  <2>2. /\ r \in Seq(Images) /\ Len(r) = Len(images) - 1 /\ Distinct(r)
        /\ FilesOf(r) = FilesOf(images) \ {images[at].file}
        /\ StarredIn(r) = StarredIn(images) \ {images[at].file}
    <3> HIDE DEF at
    <3> QED BY <2>1, RemoveImageAt
  <2>3. to \in DOMAIN r
    <3> HIDE DEF r
    <3>1. Position(r, over.file) \in DOMAIN r \/ Position(r, over.file) = 0
      BY <2>2, PlaceOfFirst
    <3> QED BY <1>2, <3>1 DEF PlaceOf
  <2>4. k \in 1..Len(r) + 1
    <3> HIDE DEF r, to
    <3>1. Len(r) \in Nat /\ to \in 1..Len(r)
      BY <2>2, <2>3
    <3> QED BY <3>1
  <2>5. Reordered(id, over) = InsertAt(r, k, images[at])
    BY <1>2 DEF Reordered
  <2> HIDE DEF at, r, k
  <2> QED BY <2>1, <2>2, <2>4, <2>5, MovedImage
<1> QED BY <1>1, <1>2

LEMMA SplicedList ==
    ASSUME images \in Seq(Images), Distinct(images),
           NEW f \in FilesOf(images), NEW after \in FilesOf(images)
    PROVE  /\ Spliced(f, after) \in Seq(Images) /\ Distinct(Spliced(f, after))
           /\ FilesOf(Spliced(f, after)) = FilesOf(images)
           /\ StarredIn(Spliced(f, after)) = StarredIn(images)
<1> DEFINE at    == Position(images, f)
           r     == Without(images, f)
           place == Position(images, after)
           k     == IF place > Len(r) THEN place ELSE place + 1
<1>1. at \in DOMAIN images /\ images[at].file = f
  BY PlaceOfFirst
<1>2. /\ r \in Seq(Images) /\ Distinct(r) /\ Len(r) = Len(images) - 1
      /\ FilesOf(r) = FilesOf(images) \ {f} /\ StarredIn(r) = StarredIn(images) \ {f}
  BY WithoutImage
<1>3. place \in DOMAIN images
  BY PlaceOfFirst
<1>4. Len(images) \in Nat /\ Len(r) \in Nat /\ place \in 1..Len(images)
  <2> HIDE DEF r, place
  <2> QED BY <1>2, <1>3
<1>5. k \in 1..Len(r) + 1
  <2> HIDE DEF r, place
  <2> QED BY <1>2, <1>4
<1>6. Spliced(f, after) = InsertAt(r, k, images[at])
  BY DEF Spliced
<1> HIDE DEF at, r, k
<1> QED BY <1>1, <1>2, <1>5, <1>6, MovedImage

LEMMA AfterWhichIsThere ==
    ASSUME images \in Seq(Images), Distinct(images), NEW id \in Ids, NEW over \in Ids,
           IsFavourite(over)
    PROVE  AfterWhich(id, over) \in Files \cup {Nothing}
<1> DEFINE target == Position(Sorted, over.file)
<1>1. Sorted \in Seq(Images) /\ FilesOf(Sorted) = FilesOf(images)
  BY StarsFirst DEF Sorted
<1>2. over.file \in Files /\ over.file \in FilesOf(images)
  BY DEF Ids, IsFavourite, StarredIn, FilesOf
<1>3. target \in DOMAIN Sorted
  BY <1>1, <1>2, PlaceOfFirst
<1>4. target # 1 => Sorted[target - 1].file \in Files
  <2> HIDE DEF target
  <2>1. DOMAIN Sorted = 1..Len(Sorted) /\ Len(Sorted) \in Nat
    BY <1>1
  <2>2. target # 1 => target - 1 \in 1..Len(Sorted)
    BY <1>3, <2>1
  <2>3. \A i \in 1..Len(Sorted) : Sorted[i].file \in Files
    <3>1. \A i \in 1..Len(Sorted) : Sorted[i] \in Images
      BY <1>1, ElementOfSeq
    <3> QED BY <3>1 DEF Images
  <2> QED BY <2>2, <2>3
<1> QED BY <1>2, <1>4 DEF AfterWhich

-----------------------------------------------------------------------------
(* The sections of the page                                                *)

Shown(section) == IF section = "favourites" THEN Favourites ELSE Dated(section)

\* Where the images a section shows are in the list.
PositionsOf(section) ==
    IF section = "favourites" THEN {i \in DOMAIN images : images[i].favorite}
    ELSE {i \in DOMAIN images : LabelOf[images[i].file] = section}

LEMMA SectionShown ==
    ASSUME images \in Seq(Images), NEW section
    PROVE  LET P == PositionsOf(section)  k == SectionItems(section) IN
           /\ k \in Seq(Items) /\ Len(k) \in Nat /\ DOMAIN k = 1..Len(k)
           /\ \A n \in DOMAIN k : /\ Nth(P, n) \in P
                                  /\ k[n] = ItemOf(images[Nth(P, n)], section # "favourites")
           /\ \A m, n \in DOMAIN k : Nth(P, m) = Nth(P, n) => m = n
           /\ \A i \in P : \E n \in DOMAIN k : Nth(P, n) = i
<1> DEFINE P == PositionsOf(section)
           s == Kept(images, P)
           item(n) == ItemOf(s[n], section # "favourites")
           k == [n \in DOMAIN s |-> item(n)]
<1>1. P \in SUBSET (DOMAIN images)
  BY DEF PositionsOf
<1>2. s = Shown(section)
  BY DEF Shown, PositionsOf, Favourites, Starred, Dated
<1>3. SectionItems(section) = k
  BY <1>2 DEF SectionItems, Shown
<1>4. /\ s \in Seq(Images)
      /\ \A n \in DOMAIN s : Nth(P, n) \in P /\ s[n] = images[Nth(P, n)]
      /\ \A m, n \in DOMAIN s : Nth(P, m) = Nth(P, n) => m = n
      /\ \A i \in P : \E n \in DOMAIN s : Nth(P, n) = i
  <2> HIDE DEF P
  <2> QED BY <1>1, KeptMembers
<1> HIDE DEF s, P
<1>5. Len(s) \in Nat /\ DOMAIN s = 1..Len(s) /\ \A n \in 1..Len(s) : s[n] \in Images
  BY <1>4
<1>6. \A n \in 1..Len(s) : item(n) \in Items
  BY <1>5 DEF ItemOf, Items, Images
<1>7. k \in Seq(Items) /\ Len(k) = Len(s)
  <2> HIDE DEF item
  <2> QED BY <1>5, <1>6
<1>8. DOMAIN k = DOMAIN s /\ \A n \in DOMAIN k : k[n] = ItemOf(s[n], section # "favourites")
  OBVIOUS
<1> HIDE DEF k
<1>9. \A n \in DOMAIN k : k[n] = ItemOf(images[Nth(P, n)], section # "favourites")
  BY <1>4, <1>8
<1> QED BY <1>3, <1>4, <1>5, <1>7, <1>8, <1>9 DEF P

\* No two cards of the page have the same id when no file is listed twice.
LEMMA CardsAreUnique ==
    ASSUME images \in Seq(Images), Distinct(images)
    PROVE  DraggableIdsAreUnique
<1> DEFINE items(s) == SectionItems(s)
<1>1. ASSUME NEW s PROVE Cardinality(IdsIn(s)) = Len(items(s))
  <2> DEFINE P == PositionsOf(s)
             k == items(s)
             id == [n \in DOMAIN k |-> IdOf(k[n])]
  <2>1. /\ k \in Seq(Items) /\ Len(k) \in Nat /\ DOMAIN k = 1..Len(k)
        /\ \A n \in DOMAIN k : Nth(P, n) \in P /\ k[n] = ItemOf(images[Nth(P, n)], s # "favourites")
        /\ \A m, n \in DOMAIN k : Nth(P, m) = Nth(P, n) => m = n
    BY SectionShown
  <2>2. P \subseteq DOMAIN images
    BY DEF PositionsOf
  <2> HIDE DEF P, k
  <2>3. \A m, n \in DOMAIN k : IdOf(k[m]) = IdOf(k[n]) => m = n
    <3> TAKE m, n \in DOMAIN k
    <3> HAVE IdOf(k[m]) = IdOf(k[n])
    <3>1. k[m].file = k[n].file
      BY DEF IdOf
    <3>2. images[Nth(P, m)].file = images[Nth(P, n)].file
      BY <2>1, <3>1 DEF ItemOf
    <3>3. Nth(P, m) = Nth(P, n)
      BY <2>1, <2>2, <3>2 DEF Distinct
    <3> QED BY <2>1, <3>3
  <2>4. IdsIn(s) = {id[n] : n \in DOMAIN k}
    <3>1. IdsIn(s) = {IdOf(item) : item \in Range(k)}
      BY DEF IdsIn, k
    <3> QED BY <3>1 DEF Range
  <2>5. id \in Surjection(1..Len(k), IdsIn(s)) /\ id \in Injection(1..Len(k), IdsIn(s))
    BY <2>1, <2>3, <2>4 DEF Surjection, Injection, IsInjective
  <2>6. IsFiniteSet(1..Len(k)) /\ Cardinality(1..Len(k)) = Len(k)
    <3> DEFINE n == Len(k)
    <3>1. n \in Nat
      BY <2>1
    <3> HIDE DEF n
    <3>2. IsFiniteSet(1..n) /\ Cardinality(1..n) = IF 1 > n THEN 0 ELSE n - 1 + 1
      BY <3>1, FS_Interval
    <3>3. Cardinality(1..n) = n
      BY <3>1, <3>2
    <3> QED BY <3>2, <3>3 DEF n
  <2> HIDE DEF id
  <2>7. Cardinality(IdsIn(s)) = Cardinality(1..Len(k))
    BY <2>5, <2>6, FS_Surjection
  <2> QED BY <2>6, <2>7 DEF k
<1>2. ASSUME NEW s, NEW r, s # r, NEW x \in IdsIn(s) PROVE x \notin IdsIn(r)
  <2>1. ASSUME NEW q, x \in IdsIn(q)
        PROVE  \E i \in PositionsOf(q) :
                  /\ i \in DOMAIN images /\ x.file = images[i].file
                  /\ x.dup = (q # "favourites" /\ images[i].favorite)
    <3> DEFINE P == PositionsOf(q)
               k == items(q)
    <3>1. /\ \A n \in DOMAIN k : Nth(P, n) \in P /\ k[n] = ItemOf(images[Nth(P, n)], q # "favourites")
      BY SectionShown
    <3>2. PICK n \in DOMAIN k : x = IdOf(k[n])
      BY <2>1 DEF IdsIn, Range
    <3>3. Nth(P, n) \in DOMAIN images
      BY <3>1 DEF PositionsOf
    <3> HIDE DEF P, k
    <3>4. /\ x.file = images[Nth(P, n)].file
          /\ x.dup = (q # "favourites" /\ images[Nth(P, n)].favorite)
      BY <3>1, <3>2 DEF IdOf, ItemOf
    <3> QED BY <3>1, <3>3, <3>4 DEF P
  <2>2. SUFFICES ASSUME x \in IdsIn(r) PROVE FALSE
    OBVIOUS
  <2>3. PICK i \in PositionsOf(s) : /\ i \in DOMAIN images /\ x.file = images[i].file
                                    /\ x.dup = (s # "favourites" /\ images[i].favorite)
    BY <2>1
  <2>4. PICK j \in PositionsOf(r) : /\ j \in DOMAIN images /\ x.file = images[j].file
                                    /\ x.dup = (r # "favourites" /\ images[j].favorite)
    BY <2>1, <2>2
  <2>5. i = j
    BY <2>3, <2>4 DEF Distinct
  <2> QED BY <1>2, <2>3, <2>4, <2>5 DEF PositionsOf
<1>3. \A s, r : s # r => IdsIn(s) \cap IdsIn(r) = {}
  BY <1>2
<1> QED BY <1>1, <1>3 DEF DraggableIdsAreUnique


-----------------------------------------------------------------------------
(* Lists of names: the bucket of the server                                *)

\* One entry less: the first of that name, and with it the name if it is
\* listed once.
LEMMA FirstRemoved ==
    ASSUME NEW s \in Seq(Files), NEW f
    PROVE  /\ RemoveFirst(s, f) \in Seq(Files)
           /\ IsInjective(s) => /\ IsInjective(RemoveFirst(s, f))
                                /\ Range(RemoveFirst(s, f)) = Range(s) \ {f}
<1> DEFINE at == IndexOf(s, f)
           r  == RemoveAt(s, at)
<1>1. DOMAIN s = 1..Len(s)
  OBVIOUS
<1>2. RemoveFirst(s, f) = IF f \in Range(s) THEN r ELSE s
  BY <1>1 DEF RemoveFirst, Range, IndexOf
<1>3. CASE f \in Range(s)
  <2>1. at \in DOMAIN s /\ s[at] = f
    BY <1>3, PlaceOfName
  <2> HIDE DEF at
  <2>2. /\ r \in Seq(Files)
        /\ \A k \in DOMAIN r : r[k] = s[OldAt(at, k)] /\ OldAt(at, k) \in DOMAIN s /\ OldAt(at, k) # at
        /\ \A k, m \in DOMAIN r : OldAt(at, k) = OldAt(at, m) => k = m
        /\ \A j \in DOMAIN s : j # at => \E k \in DOMAIN r : OldAt(at, k) = j
    BY <2>1, RemovedPlaces
  <2> HIDE DEF r
  <2>3. IsInjective(s) => IsInjective(r)
    BY <2>2 DEF IsInjective
  <2>4. ASSUME IsInjective(s) PROVE Range(r) = Range(s) \ {f}
    <3>1. \A k \in DOMAIN r : r[k] \in Range(s) \ {f}
      BY <2>1, <2>2, <2>4 DEF IsInjective, Range
    <3>2. ASSUME NEW j \in DOMAIN s, s[j] # f PROVE s[j] \in Range(r)
      <4>1. PICK k \in DOMAIN r : OldAt(at, k) = j
        BY <2>1, <2>2, <3>2
      <4> QED BY <2>2, <4>1 DEF Range
    <3> QED BY <3>1, <3>2 DEF Range
  <2> QED BY <1>2, <1>3, <2>2, <2>3, <2>4
<1>4. CASE f \notin Range(s)
  BY <1>2, <1>4
<1> QED BY <1>3, <1>4

LEMMA NameRemoved ==
    ASSUME NEW s \in Seq(Files), NEW f
    PROVE  /\ WithoutName(s, f) \in Seq(Files)
           /\ Range(WithoutName(s, f)) = Range(s) \ {f}
           /\ IsInjective(s) => IsInjective(WithoutName(s, f))
<1> DEFINE P == {i \in DOMAIN s : s[i] # f}
<1>1. P \in SUBSET (DOMAIN s) /\ {s[i] : i \in P} = Range(s) \ {f}
  BY DEF Range
<1>2. WithoutName(s, f) = Kept(s, P)
  BY DEF WithoutName
<1> HIDE DEF P
<1> QED BY <1>1, <1>2, KeptRange

LEMMA NameInserted ==
    ASSUME NEW s \in Seq(Files), NEW f \in Files, NEW k \in 1..Len(s) + 1
    PROVE  /\ InsertAt(s, k, f) \in Seq(Files)
           /\ Range(InsertAt(s, k, f)) = Range(s) \cup {f}
           /\ IsInjective(s) /\ f \notin Range(s) => IsInjective(InsertAt(s, k, f))
<1> DEFINE r == InsertAt(s, k, f)
           old(i) == OldBefore(k, i)
<1>1. /\ r \in Seq(Files) /\ k \in DOMAIN r /\ r[k] = f
      /\ \A i \in DOMAIN r : i # k => r[i] = s[old(i)] /\ old(i) \in DOMAIN s
      /\ \A i, j \in DOMAIN r : i # k /\ j # k /\ old(i) = old(j) => i = j
      /\ \A j \in DOMAIN s : \E i \in DOMAIN r : i # k /\ old(i) = j
  BY InsertedPlaces
<1> HIDE DEF r, old
<1>2. Range(r) = Range(s) \cup {f}
  <2>1. \A i \in DOMAIN r : r[i] \in Range(s) \cup {f}
    BY <1>1 DEF Range
  <2>2. \A j \in DOMAIN s : s[j] \in Range(r)
    BY <1>1 DEF Range
  <2>3. f \in Range(r)
    BY <1>1 DEF Range
  <2> QED BY <2>1, <2>2, <2>3 DEF Range
<1>3. IsInjective(s) /\ f \notin Range(s) => IsInjective(r)
  <2>1. \A i \in DOMAIN r : i # k => r[i] \in Range(s)
    BY <1>1 DEF Range
  <2>2. IsInjective(s) => \A i, j \in DOMAIN r : i # k /\ j # k /\ r[i] = r[j] => i = j
    BY <1>1 DEF IsInjective
  <2> QED BY <1>1, <2>1, <2>2 DEF IsInjective
<1> QED BY <1>1, <1>2, <1>3 DEF r

LEMMA NameAppended ==
    ASSUME NEW s \in Seq(Files), NEW f \in Files
    PROVE  /\ Append(s, f) \in Seq(Files)
           /\ Range(Append(s, f)) = Range(s) \cup {f}
           /\ IsInjective(s) /\ f \notin Range(s) => IsInjective(Append(s, f))
<1> DEFINE n == Len(s)
           r == Append(s, f)
<1>1. n \in Nat /\ DOMAIN s = 1..n
  OBVIOUS
<1>2. /\ r \in Seq(Files) /\ DOMAIN r = 1..n + 1 /\ r[n + 1] = f
      /\ \A i \in 1..n : r[i] = s[i]
  OBVIOUS
<1> HIDE DEF n, r
<1>3. \A i \in 1..n + 1 : i = n + 1 \/ i \in 1..n
  BY <1>1
<1>4. n + 1 \in 1..n + 1 /\ \A i \in 1..n : i \in 1..n + 1
  BY <1>1
<1>5. Range(r) = Range(s) \cup {f}
  <2>1. \A i \in DOMAIN r : r[i] \in Range(s) \cup {f}
    BY <1>1, <1>2, <1>3 DEF Range
  <2>2. \A j \in DOMAIN s : s[j] \in Range(r)
    BY <1>1, <1>2, <1>4 DEF Range
  <2>3. f \in Range(r)
    BY <1>2, <1>4 DEF Range
  <2> QED BY <2>1, <2>2, <2>3 DEF Range
<1>6. IsInjective(s) /\ f \notin Range(s) => IsInjective(r)
  <2>1. \A i \in 1..n : r[i] \in Range(s)
    BY <1>1, <1>2 DEF Range
  <2>2. IsInjective(s) => \A i, j \in 1..n : r[i] = r[j] => i = j
    BY <1>1, <1>2 DEF IsInjective
  <2> QED BY <1>2, <1>3, <2>1, <2>2 DEF IsInjective
<1> QED BY <1>2, <1>5, <1>6 DEF r

LEMMA MovedName ==
    ASSUME NEW b \in Buckets, NEW f \in Files, NEW after, f \in Range(b.sequence)
    PROVE  /\ MovedAfter(b, f, after) \in Buckets
           /\ Range(MovedAfter(b, f, after).sequence) = Range(b.sequence)
           /\ IsInjective(b.sequence) => IsInjective(MovedAfter(b, f, after).sequence)
           /\ MovedAfter(b, f, after).favorites = b.favorites
<1> DEFINE q     == b.sequence
           rest  == WithoutName(q, f)
           seat  == IndexOf(q, after)
           index == IF after = Nothing THEN 0 ELSE seat
           place == IF index > Len(rest) THEN Len(rest) ELSE index
           moved == InsertAt(rest, place + 1, f)
<1>1. q \in Seq(Files)
  BY DEF Buckets
<1>2. /\ rest \in Seq(Files) /\ Range(rest) = Range(b.sequence) \ {f}
      /\ IsInjective(b.sequence) => IsInjective(rest)
  BY <1>1, NameRemoved
<1>3. index \in Nat
  <2>1. seat \in 0..Len(q)
    <3> HIDE DEF q
    <3> QED BY <1>1, PlaceOfName
  <2>2. Len(q) \in Nat
    BY <1>1
  <2> HIDE DEF seat
  <2> QED BY <2>1, <2>2
<1>4. MovedAfter(b, f, after) = [b EXCEPT !.sequence = moved]
  BY DEF MovedAfter
<1> HIDE DEF rest, index
<1>5. place + 1 \in 1..Len(rest) + 1
  <2>1. Len(rest) \in Nat
    BY <1>2
  <2> QED BY <1>3, <2>1
<1> HIDE DEF place
<1>6. /\ moved \in Seq(Files) /\ Range(moved) = Range(rest) \cup {f}
      /\ IsInjective(rest) /\ f \notin Range(rest) => IsInjective(moved)
  BY <1>2, <1>5, NameInserted
<1> HIDE DEF moved
<1>7. /\ [b EXCEPT !.sequence = moved] \in Buckets
      /\ [b EXCEPT !.sequence = moved].sequence = moved
      /\ [b EXCEPT !.sequence = moved].favorites = b.favorites
  BY <1>6 DEF Buckets
<1> QED BY <1>2, <1>4, <1>6, <1>7

LEMMA PurgedBucket ==
    ASSUME NEW b \in Buckets
    PROVE  /\ Purged(b) \in Buckets
           /\ Range(Purged(b).sequence) \subseteq Range(b.sequence)
           /\ IsInjective(b.sequence) => IsInjective(Purged(b).sequence)
<1> DEFINE P == {i \in DOMAIN b.sequence : Contains(b.favorites, b.sequence[i])}
           k == Kept(b.sequence, P)
<1>1. b.sequence \in Seq(Files) /\ P \in SUBSET (DOMAIN b.sequence)
  BY DEF Buckets
<1>2. Purged(b) = [b EXCEPT !.sequence = k]
  BY DEF Purged
<1>3. {b.sequence[i] : i \in P} \subseteq Range(b.sequence)
  BY DEF Range
<1> HIDE DEF P
<1>4. /\ k \in Seq(Files) /\ Range(k) \subseteq Range(b.sequence)
      /\ IsInjective(b.sequence) => IsInjective(k)
  BY <1>1, <1>3, KeptRange
<1> HIDE DEF k
<1>5. [b EXCEPT !.sequence = k] \in Buckets /\ [b EXCEPT !.sequence = k].sequence = k
  BY <1>4 DEF Buckets
<1> QED BY <1>2, <1>4, <1>5

LEMMA DeletedFile ==
    ASSUME NEW b \in Buckets, NEW f
    PROVE  /\ Deleted(b, f) \in Buckets
           /\ Range(Deleted(b, f).sequence) = Range(b.sequence) \ {f}
           /\ IsInjective(b.sequence) => IsInjective(Deleted(b, f).sequence)
           /\ IsInjective(b.favorites) =>
                 /\ IsInjective(Deleted(b, f).favorites)
                 /\ Range(Deleted(b, f).favorites) = Range(b.favorites) \ {f}
<1> DEFINE q == WithoutName(b.sequence, f)
           v == RemoveFirst(b.favorites, f)
           d == [b EXCEPT !.sequence = q, !.favorites = v]
<1>1. b.sequence \in Seq(Files) /\ b.favorites \in Seq(Files)
  BY DEF Buckets
<1>2. /\ q \in Seq(Files) /\ Range(q) = Range(b.sequence) \ {f}
      /\ IsInjective(b.sequence) => IsInjective(q)
  BY <1>1, NameRemoved
<1>3. /\ v \in Seq(Files)
      /\ IsInjective(b.favorites) => IsInjective(v) /\ Range(v) = Range(b.favorites) \ {f}
  BY <1>1, FirstRemoved
<1>4. Deleted(b, f) = d
  BY DEF Deleted
<1> HIDE DEF q, v
<1>5. d \in Buckets /\ d.sequence = q /\ d.favorites = v
  BY <1>2, <1>3 DEF Buckets
<1> HIDE DEF d
<1> QED BY <1>2, <1>3, <1>4, <1>5

LEMMA StarTaken ==
    ASSUME NEW b \in Buckets, NEW f
    PROVE  /\ Unfavorited(b, f) \in Buckets /\ Unfavorited(b, f).sequence = b.sequence
           /\ IsInjective(b.favorites) =>
                 /\ IsInjective(Unfavorited(b, f).favorites)
                 /\ Range(Unfavorited(b, f).favorites) = Range(b.favorites) \ {f}
<1> DEFINE less == RemoveFirst(b.favorites, f)
<1>1. b.favorites \in Seq(Files)
  BY DEF Buckets
<1>2. /\ less \in Seq(Files)
      /\ IsInjective(b.favorites) =>
            IsInjective(less) /\ Range(less) = Range(b.favorites) \ {f}
  BY <1>1, FirstRemoved
<1>3. Unfavorited(b, f) = [b EXCEPT !.favorites = less]
  BY DEF Unfavorited
<1> HIDE DEF less
<1>4. /\ [b EXCEPT !.favorites = less] \in Buckets
      /\ [b EXCEPT !.favorites = less].favorites = less
      /\ [b EXCEPT !.favorites = less].sequence = b.sequence
  BY <1>2 DEF Buckets
<1> QED BY <1>2, <1>3, <1>4

LEMMA NameAdded ==
    ASSUME NEW b \in Buckets, NEW f \in Files
    PROVE  /\ Favorited(b, f) \in Buckets /\ Favorited(b, f).sequence = b.sequence
           /\ Range(Favorited(b, f).favorites) = Range(b.favorites) \cup {f}
           /\ IsInjective(b.favorites) /\ f \notin Range(b.favorites)
                 => IsInjective(Favorited(b, f).favorites)
           /\ Appended(b, f) \in Buckets
           /\ Range(Appended(b, f).sequence) = Range(b.sequence) \cup {f}
           /\ IsInjective(b.sequence) /\ f \notin Range(b.sequence)
                 => IsInjective(Appended(b, f).sequence)
<1> DEFINE more == Append(b.favorites, f)
           all  == Append(b.sequence, f)
<1>1. b.sequence \in Seq(Files) /\ b.favorites \in Seq(Files)
  BY DEF Buckets
<1>2. /\ more \in Seq(Files) /\ Range(more) = Range(b.favorites) \cup {f}
      /\ IsInjective(b.favorites) /\ f \notin Range(b.favorites) => IsInjective(more)
  BY <1>1, NameAppended
<1>4. /\ all \in Seq(Files) /\ Range(all) = Range(b.sequence) \cup {f}
      /\ IsInjective(b.sequence) /\ f \notin Range(b.sequence) => IsInjective(all)
  BY <1>1, NameAppended
<1>5. /\ Favorited(b, f) = [b EXCEPT !.favorites = more]
      /\ Appended(b, f) = [b EXCEPT !.sequence = all]
  BY DEF Favorited, Appended
<1> HIDE DEF more, all
<1>6. /\ [b EXCEPT !.favorites = more] \in Buckets
      /\ [b EXCEPT !.favorites = more].favorites = more
      /\ [b EXCEPT !.favorites = more].sequence = b.sequence
  BY <1>2 DEF Buckets
<1>8. /\ [b EXCEPT !.sequence = all] \in Buckets
      /\ [b EXCEPT !.sequence = all].sequence = all
  BY <1>4 DEF Buckets
<1> QED BY <1>2, <1>4, <1>5, <1>6, <1>8

-----------------------------------------------------------------------------
(* Requests                                                                *)

\* The request c is one just written.
IsNew(c, op, id, arg, then) ==
    /\ c \in Calls /\ IsInjective(c.seen.sequence)
    /\ c.op = op /\ c.id = id /\ c.arg = arg /\ c.then = then /\ c.todo = <<>>
    /\ c.mine /\ c.alone /\ c.state = "sent" /\ ~c.ok

LEMMA NewCall ==
    ASSUME NEW op \in Ops, NEW id \in Ids \cup {NoId}, NEW arg \in Files \cup {Nothing},
           NEW then \in Thens
    PROVE  IsNew(Call(op, id, arg, then), op, id, arg, then)
<1>1. /\ <<>> \in Seq(Files) /\ <<>> \in Seq(Files) \cup Seq(Nat) /\ IsInjective(<<>>)
  <2>1. DOMAIN <<>> = {}
    OBVIOUS
  <2> QED BY <2>1 DEF IsInjective
<1>2. Empty \in Buckets /\ Empty.sequence = <<>>
  BY <1>1 DEF Empty, Buckets
<1> HIDE DEF Empty
<1>3. Call(op, id, arg, then) \in Calls
  BY <1>1, <1>2 DEF Call, Calls
<1>4. LET c == Call(op, id, arg, then) IN
      /\ c.op = op /\ c.id = id /\ c.arg = arg /\ c.then = then /\ c.todo = <<>>
      /\ c.mine /\ c.alone /\ c.state = "sent" /\ ~c.ok /\ c.seen = Empty
  BY DEF Call
<1> DEFINE c == Call(op, id, arg, then)
<1>5. /\ c \in Calls /\ c.op = op /\ c.id = id /\ c.arg = arg /\ c.then = then /\ c.todo = <<>>
      /\ c.mine /\ c.alone /\ c.state = "sent" /\ ~c.ok /\ c.seen = Empty
  BY <1>3, <1>4
<1> HIDE DEF c
<1>6. IsNew(c, op, id, arg, then)
  BY <1>1, <1>2, <1>5 DEF IsNew
<1> QED BY <1>6 DEF c

\* What the actions change in a request before it is sent.
LEMMA TodoSet ==
    ASSUME NEW c \in Calls, NEW todo \in Seq(Files) \cup Seq(Nat)
    PROVE  LET x == [c EXCEPT !.todo = todo] IN
           /\ x \in Calls /\ x.op = c.op /\ x.id = c.id /\ x.arg = c.arg
           /\ x.then = c.then /\ x.todo = todo /\ x.mine = c.mine
           /\ x.state = c.state /\ x.seen = c.seen
BY DEF Calls

LEMMA MineSet ==
    ASSUME NEW c \in Calls, NEW mine \in BOOLEAN
    PROVE  LET x == [c EXCEPT !.mine = mine] IN
           /\ x \in Calls /\ x.op = c.op /\ x.id = c.id /\ x.arg = c.arg
           /\ x.then = c.then /\ x.todo = c.todo /\ x.mine = mine
           /\ x.state = c.state /\ x.seen = c.seen
BY DEF Calls

LEMMA FetchFits ==
    ASSUME NEW mine \in BOOLEAN
    PROVE  /\ LET x == [Fetch EXCEPT !.mine = mine] IN
              CallFits(x) /\ x.op = "fetch" /\ x.mine = mine /\ x.state = "sent"
           /\ CallFits(Fetch) /\ Fetch.op = "fetch" /\ Fetch.mine
           /\ Fetch.state = "sent" /\ Fetch.then = "show"
<1>1. /\ "fetch" \in Ops /\ "show" \in Thens /\ <<>> \in Seq(Files) \cup Seq(Nat)
      /\ NoId \in Ids \cup {NoId} /\ Nothing \in Files \cup {Nothing}
  BY DEF Ops, Thens
<1>2. /\ Fetch \in Calls /\ IsInjective(Fetch.seen.sequence)
      /\ Fetch.op = "fetch" /\ Fetch.then = "show" /\ Fetch.mine /\ Fetch.state = "sent"
  <2>1. IsNew(Fetch, "fetch", NoId, Nothing, "show")
    BY <1>1, NewCall DEF Fetch
  <2> QED BY <2>1 DEF IsNew
<1>3. LET x == [Fetch EXCEPT !.mine = mine] IN
      /\ x \in Calls /\ x.seen = Fetch.seen /\ x.op = Fetch.op /\ x.then = Fetch.then
      /\ x.mine = mine /\ x.state = Fetch.state
  BY <1>2, MineSet
<1>4. ASSUME NEW x \in Calls, IsInjective(x.seen.sequence), x.op = "fetch", x.then = "show"
      PROVE  CallFits(x)
  BY <1>4 DEF CallFits, Fits
<1> DEFINE x == [Fetch EXCEPT !.mine = mine]
<1>5. /\ x \in Calls /\ x.seen = Fetch.seen /\ x.op = Fetch.op /\ x.then = Fetch.then
      /\ x.mine = mine /\ x.state = Fetch.state
  BY <1>3
<1> HIDE DEF x
<1>6. CallFits(x) /\ x.op = "fetch" /\ x.mine = mine /\ x.state = "sent"
  BY <1>2, <1>4, <1>5
<1> QED BY <1>2, <1>4, <1>6 DEF x

-----------------------------------------------------------------------------
(* Requests under way                                                      *)

LEMMA SentAlone ==
    ASSUME NEW cs \in Seq(Calls), NEW c \in Calls
    PROVE  LET sent == Send(cs, c) IN
           /\ sent \in Seq(Calls) /\ Len(sent) = Len(cs) + 1
           /\ DOMAIN sent = 1..Len(cs) + 1
           /\ \A i \in DOMAIN sent :
                 sent[i] = [(IF i > Len(cs) THEN c ELSE cs[i])
                              EXCEPT !.alone = IF cs = <<>> THEN @ ELSE FALSE]
<1> DEFINE n == Len(cs)
           old(i) == IF i > n THEN c ELSE cs[i]
           sent == Send(cs, c)
<1>1. n \in Nat /\ (cs = <<>> => n = 0) /\ \A i \in 1..n : cs[i] \in Calls
  OBVIOUS
<1>2. \A i \in 1..n + 1 : old(i) \in Calls
  BY <1>1
<1>3. CASE cs = <<>>
  <2>1. sent = <<c>> /\ n = 0
    BY <1>3 DEF Send
  <2>2. [c EXCEPT !.alone = c.alone] = c
    BY DEF Calls
  <2>3. old(1) = c
    BY <2>1
  <2> HIDE DEF n, old
  <2>4. 0 + 1 = 1 /\ \A i \in 1..1 : i = 1
    OBVIOUS
  <2>5. <<c>> \in Seq(Calls) /\ Len(<<c>>) = 1 /\ DOMAIN <<c>> = 1..1 /\ <<c>>[1] = c
    OBVIOUS
  <2>6. \A i \in 1..1 : <<c>>[i] = [old(i) EXCEPT !.alone = IF cs = <<>> THEN @ ELSE FALSE]
    BY <1>3, <2>2, <2>3, <2>4, <2>5
  <2> QED BY <2>1, <2>4, <2>5, <2>6 DEF n, old
<1>4. CASE cs # <<>>
  <2> DEFINE new(i) == [old(i) EXCEPT !.alone = FALSE]
  <2>1. sent = [i \in 1..n + 1 |-> new(i)]
    BY <1>4 DEF Send
  <2> HIDE DEF n, sent, old
  <2>2. \A i \in 1..n + 1 : new(i) \in Calls
    BY <1>2 DEF Calls
  <2>3. \A i \in 1..n + 1 : new(i) = [old(i) EXCEPT !.alone = IF cs = <<>> THEN @ ELSE FALSE]
    BY <1>4
  <2> HIDE DEF new
  <2>4. n + 1 \in Nat
    BY <1>1
  <2>5. sent \in Seq(Calls) /\ Len(sent) = n + 1 /\ DOMAIN sent = 1..n + 1
    BY <2>1, <2>2, <2>4
  <2>6. \A i \in 1..n + 1 : sent[i] = new(i)
    BY <2>1
  <2> QED BY <2>3, <2>5, <2>6 DEF n, sent, old
<1> QED BY <1>3, <1>4

\* A request more keeps the others as they are.
LEMMA SentFits ==
    ASSUME NEW cs, NEW b, NEW names, NEW more, CallsFit(cs, b, names),
           names \subseteq more, NEW c, CallFits(c), c.state = "sent",
           c.op = "add" => c.id.file \in more \ names
    PROVE  /\ CallsFit(Send(cs, c), b, more) /\ Len(Send(cs, c)) = Len(cs) + 1
           /\ Served(cs) \/ (c.op = "fetch" /\ c.mine) => Served(Send(cs, c))
           /\ cs = <<>> => Send(cs, c) = <<c>>
<1> DEFINE n == Len(cs)
           s == Send(cs, c)
           old(i) == IF i > n THEN c ELSE cs[i]
<1>1. cs \in Seq(Calls) /\ c \in Calls
  BY DEF CallsFit, CallFits
<1>2. n \in Nat /\ DOMAIN cs = 1..n
  BY <1>1
<1>3. /\ s \in Seq(Calls) /\ Len(s) = n + 1 /\ DOMAIN s = 1..n + 1
      /\ \A i \in DOMAIN s :
            s[i] = [old(i) EXCEPT !.alone = IF cs = <<>> THEN @ ELSE FALSE]
  BY <1>1, SentAlone
<1>4. cs = <<>> => s = <<c>> /\ n = 0
  BY DEF Send
<1>5. n = 0 => cs = <<>>
  BY <1>1
<1> HIDE DEF n, s
<1>6. \A i \in 1..n + 1 : i = n + 1 \/ i \in 1..n
  BY <1>2
<1>7. old(n + 1) = c /\ \A i \in 1..n : old(i) = cs[i] /\ i \in 1..n + 1
  BY <1>2
<1>8. n + 1 \in 1..n + 1
  BY <1>2
<1>9. \A i \in 1..n : cs[i] \in Calls /\ CallFits(cs[i])
  BY <1>1, <1>2 DEF CallsFit, CallFits
<1>10. \A i \in 1..n + 1 : old(i) \in Calls /\ CallFits(old(i))
  BY <1>1, <1>6, <1>7, <1>9
<1> HIDE DEF old
<1>11. \A i \in 1..n + 1 : /\ s[i] \in Calls
                           /\ s[i].op = old(i).op /\ s[i].id = old(i).id
                           /\ s[i].arg = old(i).arg /\ s[i].then = old(i).then
                           /\ s[i].todo = old(i).todo /\ s[i].mine = old(i).mine
                           /\ s[i].state = old(i).state /\ s[i].seen = old(i).seen
                           /\ (cs # <<>> => ~s[i].alone)
  <2> TAKE i \in 1..n + 1
  <2> DEFINE y == old(i)  v == IF cs = <<>> THEN y.alone ELSE FALSE
  <2>1. s[i] = [y EXCEPT !.alone = v] /\ y \in Calls
    BY <1>3, <1>10
  <2>2. v \in BOOLEAN /\ (cs # <<>> => ~v)
    BY <2>1 DEF Calls
  <2> HIDE DEF y, v
  <2> QED BY <2>1, <2>2 DEF Calls, y
<1>12. \A i \in 1..n + 1 : CallFits(s[i])
  <2> TAKE i \in 1..n + 1
  <2> DEFINE x == s[i]  y == old(i)
  <2>1. /\ x \in Calls /\ CallFits(y)
        /\ x.op = y.op /\ x.id = y.id /\ x.then = y.then /\ x.todo = y.todo /\ x.seen = y.seen
    BY <1>10, <1>11
  <2> HIDE DEF x, y
  <2>2. CallFits(x)
    BY <2>1 DEF CallFits
  <2> QED BY <2>2 DEF x
<1>13. NamesAreNew(s, b, more)
  <2>1. Range(b.sequence) \subseteq more
    BY DEF CallsFit, NamesAreNew
  <2>2. \A i \in 1..n : cs[i].op = "add" =>
           /\ cs[i].id.file \in names
           /\ cs[i].state = "sent" => cs[i].id.file \notin Range(b.sequence)
    BY <1>2 DEF CallsFit, NamesAreNew
  <2>3. \A i, j \in 1..n :
           cs[i].op = "add" /\ cs[j].op = "add" /\ cs[i].id.file = cs[j].id.file => i = j
    BY <1>2 DEF CallsFit, NamesAreNew
  <2>4. Range(b.sequence) \subseteq names
    BY DEF CallsFit, NamesAreNew
  <2>5. \A i \in 1..n + 1 : s[i].op = "add" =>
           /\ s[i].id.file \in more
           /\ s[i].state = "sent" => s[i].id.file \notin Range(b.sequence)
    BY <1>6, <1>7, <1>11, <2>2, <2>4
  <2>6. \A i, j \in 1..n + 1 :
           s[i].op = "add" /\ s[j].op = "add" /\ s[i].id.file = s[j].id.file => i = j
    BY <1>6, <1>7, <1>11, <2>2, <2>3
  <2> QED BY <1>3, <2>1, <2>5, <2>6 DEF NamesAreNew
<1>14. AloneIsCurrent(s, b)
  <2>1. CASE cs = <<>>
    <3>1. n = 0 /\ s = <<c>>
      BY <1>4, <2>1
    <3>2. Len(s) = 1 /\ DOMAIN s = 1..1
      BY <1>3, <3>1
    <3>3. \A i \in 1..1 : s[i] = c
      BY <3>1
    <3> QED BY <3>2, <3>3 DEF AloneIsCurrent
  <2>2. CASE cs # <<>>
    BY <1>3, <1>11, <2>2 DEF AloneIsCurrent
  <2> QED BY <2>1, <2>2
<1>15. CallsFit(s, b, more)
  BY <1>3, <1>12, <1>13, <1>14 DEF CallsFit
<1>16. Served(cs) \/ (c.op = "fetch" /\ c.mine) => Served(s)
  <2>1. ASSUME NEW i \in DOMAIN cs, cs[i].op = "fetch", cs[i].mine PROVE Served(s)
    BY <1>2, <1>3, <1>7, <1>11, <2>1 DEF Served
  <2>2. ASSUME c.op = "fetch", c.mine PROVE Served(s)
    BY <1>3, <1>7, <1>8, <1>11, <2>2 DEF Served
  <2> QED BY <2>1, <2>2 DEF Served
<1> QED BY <1>3, <1>4, <1>15, <1>16 DEF s, n

\* One request less.
LEMMA DroppedFits ==
    ASSUME NEW cs, NEW b, NEW names, CallsFit(cs, b, names), NEW i \in DOMAIN cs
    PROVE  /\ CallsFit(RemoveAt(cs, i), b, names)
           /\ Len(RemoveAt(cs, i)) = Len(cs) - 1
           /\ Len(cs) <= 1 => RemoveAt(cs, i) = <<>> /\ i = 1 /\ cs # <<>>
           /\ Served(cs) /\ ~(cs[i].op = "fetch" /\ cs[i].mine) => Served(RemoveAt(cs, i))
<1> DEFINE r == RemoveAt(cs, i)
           n == Len(cs)
           old(k) == OldAt(i, k)
<1>1. cs \in Seq(Calls)
  BY DEF CallsFit
<1>2. n \in Nat /\ DOMAIN cs = 1..n
  BY <1>1
<1>3. /\ r \in Seq(Calls) /\ Len(r) = n - 1 /\ DOMAIN r = 1..n - 1
      /\ \A k \in DOMAIN r : r[k] = cs[old(k)] /\ old(k) \in DOMAIN cs /\ old(k) # i
      /\ \A k, m \in DOMAIN r : old(k) = old(m) => k = m
      /\ \A j \in DOMAIN cs : j # i => \E k \in DOMAIN r : old(k) = j
  BY <1>1, RemovedPlaces
<1> HIDE DEF r, n, old
<1>4. \A k \in DOMAIN r : CallFits(r[k])
  BY <1>3 DEF CallsFit
<1>5. NamesAreNew(r, b, names)
  <2>1. \A k \in DOMAIN r : r[k].op = "add" =>
           /\ r[k].id.file \in names
           /\ r[k].state = "sent" => r[k].id.file \notin Range(b.sequence)
    BY <1>3 DEF CallsFit, NamesAreNew
  <2>2. \A k, m \in DOMAIN r :
           r[k].op = "add" /\ r[m].op = "add" /\ r[k].id.file = r[m].id.file => old(k) = old(m)
    BY <1>3 DEF CallsFit, NamesAreNew
  <2>3. Range(b.sequence) \subseteq names
    BY DEF CallsFit, NamesAreNew
  <2> QED BY <1>3, <2>1, <2>2, <2>3 DEF NamesAreNew
<1>6. AloneIsCurrent(r, b)
  <2>1. ASSUME NEW k \in DOMAIN r, r[k].alone PROVE FALSE
    <3>1. cs[old(k)].alone /\ old(k) \in DOMAIN cs
      BY <1>3, <2>1
    <3>2. n = 1
      BY <3>1 DEF CallsFit, AloneIsCurrent, n
    <3> QED BY <1>3, <3>2
  <2> QED BY <2>1 DEF AloneIsCurrent
<1>7. n <= 1 => r = <<>> /\ i = 1 /\ cs # <<>>
  <2>1. n <= 1 => i = 1 /\ n = 1
    BY <1>2
  <2>2. n = 1 => Len(r) = 0
    BY <1>3
  <2> QED BY <1>1, <1>3, <2>1, <2>2 DEF n
<1>8. Served(cs) /\ ~(cs[i].op = "fetch" /\ cs[i].mine) => Served(r)
  <2>1. ASSUME NEW j \in DOMAIN cs, cs[j].op = "fetch", cs[j].mine, j # i
        PROVE  Served(r)
    <3>1. PICK k \in DOMAIN r : old(k) = j
      BY <1>3, <2>1
    <3> QED BY <1>3, <2>1, <3>1 DEF Served
  <2> QED BY <2>1 DEF Served
<1>9. CallsFit(r, b, names)
  BY <1>3, <1>4, <1>5, <1>6 DEF CallsFit
<1> QED BY <1>3, <1>7, <1>8, <1>9 DEF r, n

\* Requests that are as before but for what is remembered about them.
LEMMA AlikeFits ==
    ASSUME NEW cs, NEW b, NEW names, CallsFit(cs, b, names),
           NEW ds \in Seq(Calls), DOMAIN ds = DOMAIN cs,
           \A i \in DOMAIN cs :
              /\ ds[i].op = cs[i].op /\ ds[i].id = cs[i].id /\ ds[i].then = cs[i].then
              /\ ds[i].todo = cs[i].todo /\ ds[i].state = cs[i].state
              /\ ds[i].seen = cs[i].seen /\ (ds[i].alone => cs[i].alone)
    PROVE  CallsFit(ds, b, names) /\ Len(ds) = Len(cs)
<1>1. cs \in Seq(Calls) /\ Len(ds) = Len(cs)
  <2>1. cs \in Seq(Calls)
    BY DEF CallsFit
  <2>2. DOMAIN cs = 1..Len(cs) /\ DOMAIN ds = 1..Len(ds) /\ Len(cs) \in Nat /\ Len(ds) \in Nat
    BY <2>1
  <2> QED BY <2>1, <2>2
<1>2. \A i \in DOMAIN ds : ds[i] \in Calls
  OBVIOUS
<1>3. \A i \in DOMAIN ds : CallFits(ds[i])
  <2> TAKE i \in DOMAIN ds
  <2> DEFINE x == ds[i]  y == cs[i]
  <2>1. /\ x \in Calls /\ CallFits(y)
        /\ x.op = y.op /\ x.id = y.id /\ x.then = y.then /\ x.todo = y.todo /\ x.seen = y.seen
    BY <1>2 DEF CallsFit
  <2> HIDE DEF x, y
  <2>2. CallFits(x)
    BY <2>1 DEF CallFits
  <2> QED BY <2>2 DEF x
<1>4. NamesAreNew(ds, b, names)
  BY DEF CallsFit, NamesAreNew
<1>5. AloneIsCurrent(ds, b)
  BY <1>1 DEF CallsFit, AloneIsCurrent
<1> QED BY <1>1, <1>3, <1>4, <1>5 DEF CallsFit

\* Requests remounting the grid, or closing the viewer, disowns.
LEMMA DisownedFits ==
    ASSUME NEW cs, NEW b, NEW names, CallsFit(cs, b, names), NEW m \in [DOMAIN cs -> BOOLEAN]
    PROVE  LET ds == [i \in DOMAIN cs |-> [cs[i] EXCEPT !.mine = m[i]]] IN
           /\ CallsFit(ds, b, names) /\ Len(ds) = Len(cs) /\ DOMAIN ds = DOMAIN cs
           /\ \A i \in DOMAIN cs :
                 /\ ds[i].op = cs[i].op /\ ds[i].id = cs[i].id /\ ds[i].then = cs[i].then
                 /\ ds[i].state = cs[i].state /\ ds[i].ok = cs[i].ok
                 /\ ds[i].mine = m[i]
<1> DEFINE d(i) == [cs[i] EXCEPT !.mine = m[i]]
           ds == [i \in DOMAIN cs |-> d(i)]
<1>1. cs \in Seq(Calls)
  BY DEF CallsFit
<1>2. DOMAIN cs = 1..Len(cs) /\ Len(cs) \in Nat /\ \A i \in DOMAIN cs : cs[i] \in Calls
  BY <1>1
<1>3. \A i \in DOMAIN cs :
         /\ d(i) \in Calls
         /\ d(i).op = cs[i].op /\ d(i).id = cs[i].id /\ d(i).then = cs[i].then
         /\ d(i).todo = cs[i].todo /\ d(i).state = cs[i].state /\ d(i).seen = cs[i].seen
         /\ d(i).ok = cs[i].ok /\ d(i).alone = cs[i].alone /\ d(i).mine = m[i]
  <2> TAKE i \in DOMAIN cs
  <2> DEFINE x == cs[i]  v == m[i]
  <2>1. x \in Calls /\ v \in BOOLEAN
    BY <1>2
  <2> HIDE DEF x, v
  <2>2. LET y == [x EXCEPT !.mine = v] IN
        /\ y \in Calls
        /\ y.op = x.op /\ y.id = x.id /\ y.then = x.then
        /\ y.todo = x.todo /\ y.state = x.state /\ y.seen = x.seen
        /\ y.ok = x.ok /\ y.alone = x.alone /\ y.mine = v
    BY <2>1 DEF Calls
  <2> QED BY <2>2 DEF x, v
<1> HIDE DEF d
<1>4. ds \in Seq(Calls) /\ DOMAIN ds = DOMAIN cs /\ \A i \in DOMAIN cs : ds[i] = d(i)
  BY <1>2, <1>3
<1> HIDE DEF ds
<1>5. CallsFit(ds, b, names) /\ Len(ds) = Len(cs)
  BY <1>3, <1>4, AlikeFits
<1> QED BY <1>3, <1>4, <1>5 DEF ds, d

\* An image added by somebody else.
LEMMA OtherFits ==
    ASSUME CallsFit(calls, bucket, known), bucket \in Buckets,
           NEW f \in Files \ known
    PROVE  LET ds == [i \in DOMAIN calls |-> [calls[i] EXCEPT !.alone = FALSE]] IN
           /\ CallsFit(ds, Appended(bucket, f), known \cup {f})
           /\ Served(calls) => Served(ds)
<1> DEFINE d(i) == [calls[i] EXCEPT !.alone = FALSE]
           ds == [i \in DOMAIN calls |-> d(i)]
           b  == Appended(bucket, f)
<1>1. calls \in Seq(Calls)
  BY DEF CallsFit
<1>2. DOMAIN calls = 1..Len(calls) /\ Len(calls) \in Nat /\ \A i \in DOMAIN calls : calls[i] \in Calls
  BY <1>1
<1>3. \A i \in DOMAIN calls :
         /\ d(i) \in Calls
         /\ d(i).op = calls[i].op /\ d(i).id = calls[i].id /\ d(i).then = calls[i].then
         /\ d(i).todo = calls[i].todo /\ d(i).state = calls[i].state
         /\ d(i).seen = calls[i].seen /\ d(i).mine = calls[i].mine /\ ~d(i).alone
  <2> TAKE i \in DOMAIN calls
  <2> DEFINE x == calls[i]
  <2>1. x \in Calls
    BY <1>2
  <2> HIDE DEF x
  <2>2. LET y == [x EXCEPT !.alone = FALSE] IN
        /\ y \in Calls
        /\ y.op = x.op /\ y.id = x.id /\ y.then = x.then
        /\ y.todo = x.todo /\ y.state = x.state
        /\ y.seen = x.seen /\ y.mine = x.mine /\ ~y.alone
    BY <2>1 DEF Calls
  <2> QED BY <2>2 DEF x
<1> HIDE DEF d
<1>4. ds \in Seq(Calls) /\ DOMAIN ds = DOMAIN calls /\ \A i \in DOMAIN calls : ds[i] = d(i)
  BY <1>2, <1>3
<1> HIDE DEF ds
<1>5. CallsFit(ds, bucket, known)
  BY <1>3, <1>4, AlikeFits
<1>6. Range(b.sequence) = Range(bucket.sequence) \cup {f}
  BY NameAdded
<1> HIDE DEF b
<1>7. NamesAreNew(ds, b, known \cup {f})
  <2>1. NamesAreNew(ds, bucket, known)
    BY <1>5 DEF CallsFit
  <2>2. Range(b.sequence) \subseteq known \cup {f}
    BY <1>6, <2>1 DEF NamesAreNew
  <2>3. \A i \in DOMAIN ds : ds[i].op = "add" =>
           /\ ds[i].id.file \in known \cup {f}
           /\ ds[i].state = "sent" => ds[i].id.file \notin Range(b.sequence)
    BY <1>6, <2>1 DEF NamesAreNew
  <2>4. \A i, j \in DOMAIN ds :
           ds[i].op = "add" /\ ds[j].op = "add" /\ ds[i].id.file = ds[j].id.file => i = j
    BY <2>1 DEF NamesAreNew
  <2> QED BY <2>2, <2>3, <2>4 DEF NamesAreNew
<1>8. AloneIsCurrent(ds, b)
  BY <1>3, <1>4 DEF AloneIsCurrent
<1>9. CallsFit(ds, b, known \cup {f})
  BY <1>5, <1>7, <1>8 DEF CallsFit
<1>10. Served(calls) => Served(ds)
  BY <1>3, <1>4 DEF Served
<1> QED BY <1>9, <1>10 DEF ds, d, b

\* What serving a request does to the bucket.
LEMMA EffectFits ==
    ASSUME bucket \in Buckets, IsInjective(bucket.sequence),
           NEW c, CallFits(c), Accepted(c),
           c.op = "add" => c.id.file \notin Range(bucket.sequence)
    PROVE  /\ Effect(c) \in Buckets /\ IsInjective(Effect(c).sequence)
           /\ Range(Effect(c).sequence) \subseteq
                 Range(bucket.sequence) \cup {f \in {c.id.file} : c.op = "add"}
           /\ c.op = "fetch" => Effect(c) = bucket
           /\ c.op \in {"favorite", "delete", "moveAway", "move", "publish", "copy"}
                 => c.id.file \in Range(bucket.sequence)
<1> DEFINE f == c.id.file
<1>1. c.id \in Ids \cup {NoId} /\ c.op \in Ops
  BY DEF CallFits, Calls
<1>2. bucket.sequence \in Seq(Files) /\ Range(bucket.sequence) \subseteq Files
  <2>1. bucket.sequence \in Seq(Files)
    BY DEF Buckets
  <2>2. \A i \in DOMAIN bucket.sequence : bucket.sequence[i] \in Files
    BY <2>1
  <2> QED BY <2>1, <2>2 DEF Range
<1>3. \A g : InBucket(bucket, g) <=> g \in Range(bucket.sequence)
  <2>1. DOMAIN bucket.sequence = 1..Len(bucket.sequence)
    BY <1>2
  <2> QED BY <2>1 DEF InBucket, Contains, Range
<1>4. c.op \in {"favorite", "delete", "moveAway", "move", "publish", "copy"}
         => f \in Range(bucket.sequence)
  BY <1>3 DEF Accepted, Found
<1>5. CASE c.op = "favorite"
  <2>1. f \in Files /\ Effect(c) = Favorited(bucket, f)
    BY <1>2, <1>4, <1>5 DEF Effect
  <2> QED BY <1>4, <1>5, <2>1, NameAdded
<1>6. CASE c.op = "unfavorite"
  <2>1. CASE c.id.dup
    <3>1. Effect(c) = bucket
      BY <1>6, <2>1 DEF Effect
    <3> QED BY <1>6, <3>1
  <2>2. CASE ~c.id.dup
    <3>1. Effect(c) = Unfavorited(bucket, f)
      BY <1>6, <2>2 DEF Effect
    <3>2. /\ Unfavorited(bucket, f) \in Buckets
          /\ Unfavorited(bucket, f).sequence = bucket.sequence
      BY StarTaken
    <3> QED BY <1>6, <3>1, <3>2
  <2> QED BY <2>1, <2>2
<1>7. CASE c.op \in {"delete", "moveAway"}
  <2>1. Effect(c) = Deleted(bucket, f)
    BY <1>7 DEF Effect
  <2> QED BY <1>4, <1>7, <2>1, DeletedFile
<1>8. CASE c.op = "move"
  <2>1. f \in Files /\ f \in Range(bucket.sequence) /\ Effect(c) = MovedAfter(bucket, f, c.arg)
    BY <1>2, <1>4, <1>8 DEF Effect
  <2> QED BY <1>8, <2>1, MovedName
<1>9. CASE c.op = "purge"
  <2>1. Effect(c) = Purged(bucket)
    BY <1>9 DEF Effect
  <2> QED BY <1>9, <2>1, PurgedBucket
<1>10. CASE c.op = "add"
  <2>1. f \in Files /\ Effect(c) = Appended(bucket, f)
    BY <1>1, <1>10 DEF Effect, CallFits, Fits, Ids
  <2>2. f \notin Range(bucket.sequence)
    BY <1>10
  <2> HIDE DEF f
  <2>3. /\ Appended(bucket, f) \in Buckets /\ IsInjective(Appended(bucket, f).sequence)
        /\ Range(Appended(bucket, f).sequence) = Range(bucket.sequence) \cup {f}
    BY <2>1, <2>2, NameAdded
  <2>4. {g \in {c.id.file} : c.op = "add"} = {f}
    BY <1>10 DEF f
  <2> QED BY <1>10, <2>1, <2>3, <2>4
<1>11. CASE c.op = "publish"
  <2>1. f \in Files /\ Effect(c) = [bucket EXCEPT !.published = f]
    BY <1>2, <1>4, <1>11 DEF Effect
  <2>2. Effect(c) \in Buckets /\ Effect(c).sequence = bucket.sequence
    BY <2>1 DEF Buckets
  <2> QED BY <1>4, <1>11, <2>2
<1>12. CASE c.op \in {"fetch", "copy"}
  <2>1. Effect(c) = bucket
    BY <1>12 DEF Effect
  <2> QED BY <1>4, <1>12, <2>1
<1> QED BY <1>1, <1>5, <1>6, <1>7, <1>8, <1>9, <1>10, <1>11, <1>12 DEF Ops

LEMMA ServedFits ==
    ASSUME CallsFit(calls, bucket, known), bucket \in Buckets,
           IsInjective(bucket.sequence), NEW i \in DOMAIN calls,
           NEW b, b = bucket \/ (Accepted(calls[i]) /\ b = Effect(calls[i])),
           calls[i].state = "sent",
           NEW ds \in Seq(Calls), DOMAIN ds = DOMAIN calls, Len(ds) = Len(calls),
           \A j \in DOMAIN calls : j # i => ds[j] = calls[j],
           ds[i].op = calls[i].op, ds[i].id = calls[i].id, ds[i].then = calls[i].then,
           ds[i].todo = calls[i].todo, ds[i].mine = calls[i].mine,
           ds[i].alone = calls[i].alone, ds[i].state = "served",
           ds[i].seen = IF calls[i].op = "fetch" THEN bucket ELSE calls[i].seen
    PROVE  /\ CallsFit(ds, b, known) /\ (Served(calls) => Served(ds))
           /\ b \in Buckets /\ IsInjective(b.sequence)
<1> DEFINE c == calls[i]
           seen == IF c.op = "fetch" THEN bucket ELSE c.seen
           d == ds[i]
<1>1. calls \in Seq(Calls) /\ c \in Calls /\ CallFits(c)
  BY DEF CallsFit
<1>2. DOMAIN calls = 1..Len(calls) /\ Len(calls) \in Nat
  BY <1>1
<1>4. /\ d \in Calls /\ d.op = c.op /\ d.id = c.id /\ d.then = c.then /\ d.todo = c.todo
      /\ d.mine = c.mine /\ d.alone = c.alone /\ d.state = "served"
      /\ d.seen = seen
  BY ElementOfSeq
<1>5. /\ b \in Buckets /\ IsInjective(b.sequence)
      /\ Range(b.sequence) \subseteq
            Range(bucket.sequence) \cup {f \in {c.id.file} : c.op = "add"}
      /\ c.op = "fetch" => b = bucket
  <2>1. c.op = "add" => c.id.file \notin Range(bucket.sequence)
    BY DEF CallsFit, NamesAreNew
  <2>2. CASE b = bucket
    BY <2>2
  <2>3. CASE Accepted(c) /\ b = Effect(c)
    <3> HIDE DEF c
    <3> QED BY <1>1, <2>1, <2>3, EffectFits
  <2> QED BY <2>2, <2>3
<1>6. /\ ds \in Seq(Calls) /\ Len(ds) = Len(calls) /\ DOMAIN ds = DOMAIN calls /\ ds[i] = d
      /\ \A j \in DOMAIN calls : j # i => ds[j] = calls[j]
  OBVIOUS
<1> HIDE DEF d
<1>7. \A j \in DOMAIN ds : CallFits(ds[j])
  <2>1. CallFits(d)
    <3>1. IsInjective(seen.sequence)
      BY <1>1 DEF CallFits
    <3> HIDE DEF c, seen
    <3> QED BY <1>1, <1>4, <3>1 DEF CallFits
  <2>2. \A j \in DOMAIN calls : CallFits(calls[j])
    BY DEF CallsFit
  <2> QED BY <1>6, <2>1, <2>2
<1>8. NamesAreNew(ds, b, known)
  <2>1. NamesAreNew(calls, bucket, known)
    BY DEF CallsFit
  <2>2. Range(b.sequence) \subseteq known
    BY <1>5, <2>1 DEF NamesAreNew
  <2>3. ASSUME NEW j \in DOMAIN ds, ds[j].op = "add"
        PROVE  /\ ds[j].id.file \in known
               /\ ds[j].state = "sent" => ds[j].id.file \notin Range(b.sequence)
    <3>1. CASE j = i
      BY <1>4, <1>6, <2>1, <2>3, <3>1 DEF NamesAreNew
    <3>2. CASE j # i
      <4>1. ds[j] = calls[j] /\ j \in DOMAIN calls
        BY <1>6, <3>2
      <4>2. c.op = "add" => calls[j].id.file # c.id.file
        BY <2>1, <2>3, <3>2, <4>1 DEF NamesAreNew
      <4> QED BY <1>5, <2>1, <2>3, <4>1, <4>2 DEF NamesAreNew
    <3> QED BY <3>1, <3>2
  <2>4. \A j \in DOMAIN ds : ds[j].op = calls[j].op /\ ds[j].id = calls[j].id
    BY <1>4, <1>6
  <2>5. \A j, k \in DOMAIN ds :
           ds[j].op = "add" /\ ds[k].op = "add" /\ ds[j].id.file = ds[k].id.file => j = k
    BY <1>6, <2>1, <2>4 DEF NamesAreNew
  <2> QED BY <2>2, <2>3, <2>5 DEF NamesAreNew
<1>9. AloneIsCurrent(ds, b)
  <2>1. ASSUME NEW j \in DOMAIN ds, ds[j].alone
        PROVE  /\ Len(ds) = 1
               /\ ds[j].op = "fetch" /\ ds[j].state = "served" => ds[j].seen = b
    <3>1. calls[j].alone /\ j \in DOMAIN calls
      BY <1>4, <1>6, <2>1
    <3>2. Len(calls) = 1
      BY <3>1 DEF CallsFit, AloneIsCurrent
    <3>3. j = i
      BY <1>2, <3>1, <3>2
    <3> QED BY <1>4, <1>5, <1>6, <3>2, <3>3
  <2> QED BY <2>1 DEF AloneIsCurrent
<1>10. CallsFit(ds, b, known)
  BY <1>6, <1>7, <1>8, <1>9 DEF CallsFit
<1>11. Served(calls) => Served(ds)
  BY <1>4, <1>6 DEF Served
<1> QED BY <1>5, <1>10, <1>11

-----------------------------------------------------------------------------
(* The requests the actions send                                           *)

LEMMA PlainFits ==
    ASSUME NEW op \in Ops, NEW id \in Ids \cup {NoId}, NEW arg \in Files \cup {Nothing},
           NEW then \in Thens, Fits(op, id, then, <<>>)
    PROVE  LET c == Call(op, id, arg, then) IN
           /\ CallFits(c) /\ c.state = "sent" /\ c.mine
           /\ c.op = op /\ c.id = id /\ c.then = then
<1> DEFINE c == Call(op, id, arg, then)
<1>1. /\ c \in Calls /\ IsInjective(c.seen.sequence)
      /\ c.op = op /\ c.id = id /\ c.then = then /\ c.todo = <<>>
      /\ c.mine /\ c.state = "sent"
  <2>1. IsNew(c, op, id, arg, then)
    BY NewCall
  <2> QED BY <2>1 DEF IsNew
<1> HIDE DEF c
<1>2. CallFits(c)
  BY <1>1 DEF CallFits
<1> QED BY <1>1, <1>2 DEF c

LEMMA ListedFits ==
    ASSUME NEW d \in Calls, IsInjective(d.seen.sequence), d.state = "sent",
           NEW todo \in Seq(Files) \cup Seq(Nat), Fits(d.op, d.id, d.then, todo)
    PROVE  LET c == [d EXCEPT !.todo = todo] IN
           /\ CallFits(c) /\ c.state = "sent" /\ c.mine = d.mine
           /\ c.op = d.op /\ c.id = d.id /\ c.then = d.then
<1> DEFINE c == [d EXCEPT !.todo = todo]
<1>1. /\ c \in Calls /\ c.op = d.op /\ c.id = d.id /\ c.then = d.then /\ c.todo = todo
      /\ c.mine = d.mine /\ c.state = d.state /\ c.seen = d.seen
  BY TodoSet
<1> HIDE DEF c
<1>2. CallFits(c)
  BY <1>1 DEF CallFits
<1> QED BY <1>1, <1>2 DEF c

LEMMA SpliceFits ==
    ASSUME NEW id \in Ids \cup {NoId}, NEW arg \in Files \cup {Nothing},
           NEW mine \in BOOLEAN
    PROVE  LET c == [Call("move", id, arg, "splice") EXCEPT !.mine = mine] IN
           /\ CallFits(c) /\ c.state = "sent" /\ c.mine = mine
           /\ c.op = "move" /\ c.then = "splice"
<1> DEFINE d == Call("move", id, arg, "splice")
<1>0. "move" \in Ops /\ "splice" \in Thens /\ Fits("move", id, "splice", <<>>)
  BY DEF Ops, Thens, Fits
<1>1. /\ d \in Calls /\ IsInjective(d.seen.sequence)
      /\ d.op = "move" /\ d.id = id /\ d.then = "splice" /\ d.todo = <<>>
      /\ d.mine /\ d.state = "sent"
  <2>1. IsNew(d, "move", id, arg, "splice")
    BY <1>0, NewCall
  <2> QED BY <2>1 DEF IsNew
<1> HIDE DEF d
<1> DEFINE c == [d EXCEPT !.mine = mine]
<1>2. /\ c \in Calls /\ c.op = d.op /\ c.id = d.id /\ c.then = d.then /\ c.todo = d.todo
      /\ c.mine = mine /\ c.state = d.state /\ c.seen = d.seen
  BY <1>1, MineSet
<1> HIDE DEF c
<1>3. CallFits(c)
  BY <1>0, <1>1, <1>2 DEF CallFits
<1> QED BY <1>1, <1>2, <1>3 DEF c, d

-----------------------------------------------------------------------------
(* The shapes of a step                                                    *)

\* A request is sent, with the requests cs still under way.
LEMMA SendStep ==
    ASSUME bucket \in Buckets, IsInjective(bucket.sequence),
           NEW cs, CallsFit(cs, bucket, known),
           NEW c, CallFits(c), c.state = "sent", calls' = Send(cs, c), bucket' = bucket,
           known \subseteq known', c.op = "add" => c.id.file \in known' \ known,
           images' \in Seq(Images), Distinct(images'),
           loading' => Served(cs) \/ (c.op = "fetch" /\ c.mine),
           clean' => /\ cs = <<>> /\ c.mine /\ c.then \notin {"viewer", "close"}
                     /\ ~timer' =>
                           \/ c.op = "fetch"
                           \/ /\ Agrees(bucket, images')
                              /\ c.op = "favorite" => c.id.file \notin StarredIn(images')
    PROVE  ListOK'
<1>1. /\ CallsFit(calls', bucket, known')
      /\ Served(cs) \/ (c.op = "fetch" /\ c.mine) => Served(calls')
      /\ cs = <<>> => calls' = <<c>>
  BY SentFits
<1>2. Patched(clean', timer', calls', bucket, images')
  <2>1. SUFFICES ASSUME clean'
                 PROVE  /\ Len(calls') <= 1
                        /\ calls'[1].mine /\ calls'[1].then \notin {"viewer", "close"}
                        /\ ~timer' => Awaited(calls'[1], bucket, images')
                        /\ calls' # <<>>
    BY DEF Patched
  <2>2. calls' = <<c>>
    BY <1>1, <2>1
  <2>3. Len(calls') = 1 /\ calls'[1] = c /\ calls' # <<>>
    BY <2>2
  <2>4. ~timer' => Awaited(c, bucket, images')
    BY <2>1 DEF Awaited
  <2> QED BY <2>1, <2>3, <2>4
<1> QED BY <1>1, <1>2 DEF ListOK

\* A request is answered and none is sent, or they are only disowned.
LEMMA QuietStep ==
    ASSUME bucket \in Buckets, IsInjective(bucket.sequence), bucket' = bucket,
           CallsFit(calls', bucket, known), known' = known,
           images' \in Seq(Images), Distinct(images'),
           loading' => Served(calls'),
           clean' => calls' = <<>> /\ (~timer' => Agrees(bucket, images'))
    PROVE  ListOK'
<1>1. Patched(clean', timer', calls', bucket, images')
  <2>1. Len(<<>>) <= 1
    OBVIOUS
  <2> QED BY <2>1 DEF Patched
<1> QED BY <1>1 DEF ListOK

\* Nothing happens to the list, the bucket or the requests.
LEMMA StillStep ==
    ASSUME ListOK, UNCHANGED <<bucket, images, calls, known, clean, timer, loading>>
    PROVE  ListOK'
BY DEF ListOK, CallsFit, NamesAreNew, AloneIsCurrent, Served, Patched, Agrees, Awaited

\* The grid is mounted anew.
LEMMA RemountStep ==
    ASSUME bucket \in Buckets, IsInjective(bucket.sequence),
           NEW cs, CallsFit(cs, bucket, known), Remounted(cs), UNCHANGED <<bucket, known>>
    PROVE  ListOK'
<1> DEFINE m  == [i \in DOMAIN cs |-> cs[i].mine /\ cs[i].then = "viewer"]
           ds == [i \in DOMAIN cs |-> [cs[i] EXCEPT !.mine = m[i]]]
           es == [i \in DOMAIN cs |->
                     [cs[i] EXCEPT !.mine = @ /\ cs[i].then = "viewer"]]
<1>1. m \in [DOMAIN cs -> BOOLEAN]
  OBVIOUS
<1>2. es = ds
  OBVIOUS
<1>3. calls' = Send(es, Fetch)
  BY DEF Remounted
<1> HIDE DEF m
<1>4. CallsFit(ds, bucket, known)
  BY <1>1, DisownedFits
<1> HIDE DEF es, ds
<1>5. CallFits(Fetch) /\ Fetch.op = "fetch" /\ Fetch.mine /\ Fetch.state = "sent"
  BY FetchFits
<1>6. images' \in Seq(Images) /\ Distinct(images') /\ ~clean'
  BY DEF Remounted, Distinct
<1>7. "fetch" # "add"
  OBVIOUS
<1> QED BY <1>2, <1>3, <1>4, <1>5, <1>6, <1>7, SendStep

-----------------------------------------------------------------------------
(* What the user does to the grid                                          *)

LEMMA CleanAgrees ==
    ASSUME ListOK, clean, calls = <<>>, ~timer
    PROVE  Agrees(bucket, images)
BY DEF ListOK, Patched

LEMMA AskStep ==
    ASSUME ListOK, NEW c, CallFits(c), c.state = "sent", c.mine,
           c.op = "add" => c.id.file \in known' \ known, known \subseteq known',
           c.then \notin {"viewer", "close"},
           c.op = "favorite" => c.id.file \notin StarredIn(images),
           Ask(c), bucket' = bucket, timer' = timer,
           images' \in Seq(Images), Distinct(images'),
           FilesOf(images') = FilesOf(images), StarredIn(images') = StarredIn(images),
           loading' => loading \/ c.op = "fetch"
    PROVE  ListOK'
<1>1. clean' => /\ calls = <<>>
                /\ ~timer' => /\ Agrees(bucket, images')
                              /\ c.op = "favorite" => c.id.file \notin StarredIn(images')
  <2>1. clean' => clean /\ calls = <<>>
    BY DEF Ask, StaysClean
  <2>2. Agrees(bucket, images) => Agrees(bucket, images')
    BY DEF Agrees
  <2> QED BY <2>1, <2>2, CleanAgrees
<1>2. /\ CallsFit(calls, bucket, known) /\ bucket \in Buckets /\ IsInjective(bucket.sequence)
      /\ loading => Served(calls)
  BY DEF ListOK
<1>3. calls' = Send(calls, c)
  BY DEF Ask
<1> QED BY <1>1, <1>2, <1>3, SendStep

LEMMA PlainAsk ==
    ASSUME ListOK, NEW op \in Ops, NEW id \in Ids \cup {NoId},
           NEW arg \in Files \cup {Nothing}, NEW then \in Thens,
           op \notin {"fetch", "favorite"}, then \notin {"viewer", "close"},
           Fits(op, id, then, <<>>), Ask(Call(op, id, arg, then)),
           op = "add" => id.file \in known' \ known, known \subseteq known',
           bucket' = bucket, timer' = timer, loading' = loading,
           images' \in Seq(Images), Distinct(images'),
           FilesOf(images') = FilesOf(images), StarredIn(images') = StarredIn(images)
    PROVE  ListOK'
<1> DEFINE c == Call(op, id, arg, then)
<1>1. /\ CallFits(c) /\ c.state = "sent" /\ c.mine
      /\ c.op = op /\ c.id = id /\ c.then = then
  BY PlainFits
<1>2. Ask(c)
  OBVIOUS
<1> HIDE DEF c
<1> QED BY <1>1, <1>2, AskStep

LEMMA OriginalId ==
    ASSUME NEW f \in Files
    PROVE  Original(f) \in Ids /\ Original(f).file = f /\ ~Original(f).dup
BY DEF Original, Ids

LEMMA StarAsked ==
    ASSUME ListOK, NEW f \in Files,
           NEW target \in Seq(Files), NEW then \in {"star", "place"},
           then = "place" => f \notin StarredIn(images) /\ Len(target) = 1,
           Ask(Toggle(f, then, target)), UNCHANGED <<bucket, gridVars, known>>
    PROVE  ListOK'
<1> DEFINE op == IF f \in StarredIn(images) THEN "unfavorite" ELSE "favorite"
<1>1. /\ op \in Ops /\ Original(f) \in Ids \cup {NoId} /\ then \in Thens
      /\ Nothing \in Files \cup {Nothing}
  BY OriginalId DEF Ops, Thens
<1>4. /\ op \in {"favorite", "unfavorite"}
      /\ op = "favorite" <=> f \notin StarredIn(images)
  OBVIOUS
<1> DEFINE id == Original(f)
           d  == Call(op, id, Nothing, then)
           c  == Toggle(f, then, target)
<1>3. c = [d EXCEPT !.todo = target]
  BY DEF Toggle
<1>5. Ask(c)
  OBVIOUS
<1> HIDE DEF op, id, c
<1>2. /\ d \in Calls /\ IsInjective(d.seen.sequence) /\ d.state = "sent" /\ d.mine
      /\ d.op = op /\ d.id = id /\ d.then = then /\ d.todo = <<>>
  <2>1. IsNew(d, op, id, Nothing, then)
    BY <1>1, NewCall DEF id
  <2> HIDE DEF d
  <2> QED BY <2>1 DEF IsNew
<1> HIDE DEF d
<1>6. Fits(d.op, d.id, d.then, target)
  BY <1>2, <1>4, OriginalId DEF Fits, id
<1>7. /\ CallFits(c) /\ c.state = "sent" /\ c.mine
      /\ c.op = op /\ c.id = id /\ c.then = then
  BY <1>2, <1>3, <1>6, ListedFits
<1>8. images \in Seq(Images) /\ Distinct(images)
  BY DEF ListOK
<1> QED BY <1>4, <1>5, <1>7, <1>8, OriginalId, AskStep DEF gridVars, id

LEMMA PageAsks ==
    ASSUME PageOK, NEW c, Ask(c), Act, UNCHANGED <<gridVars, deleting, loope, known>>,
           drag' \in {drag, Nothing}, menu' \in {menu, Nothing}
    PROVE  PageOK'
<1>1. clean' \in BOOLEAN
  BY DEF PageOK, Ask, StaysClean
<1>2. acts' \in 0..MaxActs
  BY BucketAssumption DEF PageOK, Act
<1> QED BY <1>1, <1>2 DEF PageOK, gridVars

LEMMA CardsStep ==
    ASSUME IInv, NEW id \in Ids, OnCard(id)
    PROVE  IInv'
<1> USE DEF IInv
<1>0. /\ id.file \in Files /\ images \in Seq(Images) /\ Distinct(images)
      /\ Original(id.file) \in Ids \cup {NoId} /\ Nothing \in Files \cup {Nothing}
  BY OriginalId DEF ListOK, Ids
<1>1. CASE ToggleFavorite(id)
  <2> USE <1>1 DEF ToggleFavorite
  <2>1. <<>> \in Seq(Files)
    OBVIOUS
  <2>2. ListOK'
    BY <1>0, <2>1, StarAsked
  <2> QED BY <2>2, PageAsks DEF uiVars
<1>2. CASE DeleteImage(id)
  <2> USE <1>2 DEF DeleteImage
  <2>1. "delete" \in Ops /\ "remove" \in Thens
        /\ Fits("delete", Original(id.file), "remove", <<>>)
    BY DEF Ops, Thens, Fits
  <2>2. ListOK'
    BY <1>0, <2>1, PlainAsk DEF gridVars
  <2> QED BY <2>2, PageAsks DEF uiVars
<1>3. CASE CardCopy(id)
  <2> USE <1>3 DEF CardCopy
  <2>1. "copy" \in Ops /\ "reload" \in Thens
        /\ Fits("copy", Original(id.file), "reload", <<>>)
    BY DEF Ops, Thens, Fits
  <2>2. ListOK'
    BY <1>0, <2>1, PlainAsk DEF gridVars
  <2> QED BY <2>2, PageAsks DEF uiVars
<1>4. CASE DragStart(id)
  <2>1. ListOK'
    BY <1>4, StillStep DEF DragStart, gridVars
  <2>2. PageOK'
    BY <1>4 DEF DragStart, PageOK, gridVars
  <2> QED BY <2>1, <2>2
<1>5. ASSUME NEW here \in BOOLEAN, CardPublish(id, here) PROVE IInv'
  <2> DEFINE op == IF here THEN "publish" ELSE "copy"
  <2>1. op \in Ops \ {"fetch", "favorite"} /\ "fetch" \in Thens
        /\ Fits(op, Original(id.file), "fetch", <<>>) /\ op # "add"
    BY DEF Ops, Thens, Fits
  <2>2. Ask(Call(op, Original(id.file), Nothing, "fetch"))
    BY <1>5 DEF CardPublish, Publish
  <2> HIDE DEF op
  <2>3. Act /\ UNCHANGED <<bucket, gridVars, uiVars, loope, known>>
    BY <1>5 DEF CardPublish
  <2>4. ListOK'
    BY <1>0, <2>1, <2>2, <2>3, PlainAsk DEF gridVars
  <2> QED BY <2>2, <2>3, <2>4, PageAsks DEF uiVars
<1> QED BY <1>1, <1>2, <1>3, <1>4, <1>5 DEF OnCard

LEMMA HeaderStep ==
    ASSUME IInv, Purge \/ (\E s \in Labels : DeleteSection(s)) \/ CancelDelete
    PROVE  IInv'
<1> USE DEF IInv
<1>0. /\ images \in Seq(Images) /\ Distinct(images)
      /\ NoId \in Ids \cup {NoId} /\ Nothing \in Files \cup {Nothing}
  BY DEF ListOK
<1>1. CASE Purge
  <2> USE <1>1 DEF Purge
  <2>1. "purge" \in Ops /\ "reload" \in Thens /\ Fits("purge", NoId, "reload", <<>>)
    BY DEF Ops, Thens, Fits
  <2>2. ListOK'
    BY <1>0, <2>1, PlainAsk DEF gridVars
  <2> QED BY <2>2, PageAsks DEF uiVars
<1>2. ASSUME NEW s \in Labels, DeleteSection(s) PROVE IInv'
  <2>1. ListOK'
    BY <1>2, StillStep DEF DeleteSection, gridVars
  <2>2. PageOK'
    <3>1. acts' \in 0..MaxActs
      BY <1>2, BucketAssumption DEF PageOK, DeleteSection, Act
    <3> QED BY <1>2, <3>1 DEF DeleteSection, PageOK, gridVars
  <2> QED BY <2>1, <2>2
<1>3. CASE CancelDelete
  <2>1. ListOK'
    BY <1>3, StillStep DEF CancelDelete, gridVars
  <2>2. PageOK'
    BY <1>3 DEF CancelDelete, PageOK, gridVars
  <2> QED BY <2>1, <2>2
<1> QED BY <1>1, <1>2, <1>3

LEMMA DoomedNames ==
    ASSUME images \in Seq(Images), NEW section
    PROVE  Doomed(section) \in Seq(Files)
<1> DEFINE k == SectionItems(section)
           P == {i \in DOMAIN k : ~k[i].favorite}
           r == Unstarred(k)
<1>1. k \in Seq(Items)
  BY SectionShown
<1>2. r = Kept(k, P) /\ P \in SUBSET (DOMAIN k)
  BY DEF Unstarred
<1>3. Doomed(section) = [i \in DOMAIN r |-> r[i].file]
  BY DEF Doomed
<1> HIDE DEF k, P, r
<1>4. r \in Seq(Items)
  BY <1>1, <1>2, KeptMembers
<1>5. Len(r) \in Nat /\ DOMAIN r = 1..Len(r) /\ \A i \in 1..Len(r) : r[i] \in Items
  BY <1>4, ElementOfSeq
<1>6. \A i \in 1..Len(r) : r[i].file \in Files
  BY <1>5 DEF Items
<1> QED BY <1>3, <1>5, <1>6

LEMMA ConfirmStep ==
    ASSUME IInv, ConfirmDelete
    PROVE  IInv'
<1> USE DEF IInv
<1> DEFINE todo == IF deleting \in Sections THEN Doomed(deleting) ELSE <<>>
           d == Call("delete", Original(todo[1]), Nothing, "next")
           c == [d EXCEPT !.todo = Tail(todo)]
<1>0. /\ images \in Seq(Images) /\ Distinct(images)
      /\ UNCHANGED <<bucket, images, shown, loaded, timer, drag, menu, loope, known, acts>>
      /\ deleting' = Nothing
  BY DEF ListOK, ConfirmDelete
<1>1. todo \in Seq(Files)
  BY <1>0, DoomedNames
<1>2. /\ todo # <<>> => Ask(c) /\ loading' = loading
      /\ todo = <<>> => \/ Ask(Fetch)
                        \/ UNCHANGED <<calls, clean, loading>>
  <2>1. todo # <<>> => deleting \in Sections /\ Doomed(deleting) # <<>>
    OBVIOUS
  <2>2. todo # <<>> => Ask(c)
    BY DEF ConfirmDelete
  <2>3. loading' = (loading \/ (deleting \in Sections /\ Doomed(deleting) = <<>>))
    BY DEF ConfirmDelete
  <2>4. loading \in BOOLEAN
    BY DEF PageOK
  <2>5. todo = <<>> => Ask(Fetch) \/ (deleting \notin Sections /\ UNCHANGED <<calls, clean>>)
    BY DEF ConfirmDelete
  <2>6. todo # <<>> => loading' = loading
    BY <2>1, <2>3, <2>4
  <2>7. deleting \notin Sections => loading' = loading
    BY <2>3, <2>4
  <2> QED BY <2>2, <2>5, <2>6, <2>7
<1> HIDE DEF todo
<1>3. PageOK'
  <2>1. clean' \in BOOLEAN
    BY <1>2 DEF PageOK, Ask, StaysClean
  <2>2. loading' \in BOOLEAN
    BY DEF ConfirmDelete
  <2> QED BY <1>0, <2>1, <2>2 DEF PageOK
<1>4. CASE todo # <<>>
  <2>1. todo[1] \in Files /\ Tail(todo) \in Seq(Files)
    BY <1>1, <1>4
  <2>2. Ask(c) /\ loading' = loading
    BY <1>2, <1>4
  <2> DEFINE rest == Tail(todo)
             id == Original(todo[1])
  <2>3. /\ "delete" \in Ops /\ id \in Ids \cup {NoId} /\ Nothing \in Files \cup {Nothing}
        /\ "next" \in Thens
    BY <2>1, OriginalId DEF Ops, Thens
  <2>10. IsNew(d, "delete", id, Nothing, "next")
    BY <2>3, NewCall
  <2> HIDE DEF d, id
  <2>4. /\ d \in Calls /\ IsInjective(d.seen.sequence)
        /\ d.op = "delete" /\ d.then = "next" /\ d.mine /\ d.state = "sent"
    BY <2>10 DEF IsNew
  <2> HIDE DEF rest
  <2>5. Fits(d.op, d.id, d.then, rest)
    BY <2>1, <2>4 DEF Fits, rest
  <2>6. rest \in Seq(Files) \cup Seq(Nat)
    BY <2>1 DEF rest
  <2> DEFINE e == [d EXCEPT !.todo = rest]
  <2>7. c = e
    BY DEF rest
  <2>8. /\ CallFits(e) /\ e.state = "sent" /\ e.mine /\ e.op = "delete" /\ e.then = "next"
    BY <2>4, <2>5, <2>6, ListedFits
  <2> HIDE DEF e, c
  <2>9. ListOK'
    BY <1>0, <2>2, <2>7, <2>8, AskStep
  <2> QED BY <1>3, <2>9
<1>5. CASE todo = <<>>
  <2>1. CASE Ask(Fetch)
    <3>1. /\ CallFits(Fetch) /\ Fetch.op = "fetch" /\ Fetch.mine
          /\ Fetch.state = "sent" /\ Fetch.then = "show"
      BY FetchFits
    <3>2. ListOK'
      BY <1>0, <2>1, <3>1, AskStep
    <3> QED BY <1>3, <3>2
  <2>2. CASE UNCHANGED <<calls, clean, loading>>
    <3>1. ListOK'
      BY <1>0, <2>2, StillStep
    <3> QED BY <1>3, <3>1
  <2> QED BY <1>2, <1>5, <2>1, <2>2
<1> QED BY <1>4, <1>5

LEMMA AddStep ==
    ASSUME IInv, NEW f \in Files, Upload(f) \/ GenerateAgain(f) \/ OtherAdds(f)
    PROVE  IInv'
<1> USE DEF IInv
<1>1. ASSUME NEW then \in {"fetchIfOk", "remount"}, Add(f, then) PROVE IInv'
  <2>1. "add" \in Ops /\ then \in Thens /\ Fits("add", Original(f), then, <<>>)
        /\ Nothing \in Files \cup {Nothing} /\ Original(f) \in Ids \cup {NoId}
    BY OriginalId DEF Ops, Thens, Fits
  <2>2. /\ f \in known' \ known /\ known \subseteq known' /\ known' \subseteq Files
        /\ UNCHANGED <<bucket, gridVars, uiVars, loope>>
        /\ Act /\ Ask(Call("add", Original(f), Nothing, then))
    BY <1>1 DEF Add, PageOK
  <2>3. ListOK'
    <3>1. images \in Seq(Images) /\ Distinct(images)
      BY DEF ListOK
    <3> QED BY <2>1, <2>2, <3>1, PlainAsk, OriginalId DEF gridVars
  <2>4. clean' \in BOOLEAN
    BY <2>2 DEF PageOK, Ask, StaysClean
  <2>5. acts' \in 0..MaxActs
    BY <2>2, BucketAssumption DEF PageOK, Act
  <2>6. PageOK'
    BY <2>2, <2>4, <2>5 DEF PageOK, gridVars, uiVars
  <2> QED BY <2>3, <2>6
<1>2. CASE OtherAdds(f)
  <2>1. /\ f \in Files \ known /\ known' = known \cup {f}
        /\ UNCHANGED <<gridVars, uiVars, loope>> /\ Act /\ clean' = FALSE
    BY <1>2 DEF OtherAdds
  <2>2. PageOK'
    <3>1. acts' \in 0..MaxActs
      BY <2>1, BucketAssumption DEF PageOK, Act
    <3>2. known' \subseteq Files
      BY <2>1 DEF PageOK
    <3> QED BY <2>1, <3>1, <3>2 DEF PageOK, gridVars, uiVars
  <2>3. ListOK'
    <3> DEFINE ds == [i \in DOMAIN calls |-> [calls[i] EXCEPT !.alone = FALSE]]
    <3>1. /\ CallsFit(calls, bucket, known) /\ bucket \in Buckets
          /\ IsInjective(bucket.sequence) /\ Range(bucket.sequence) \subseteq known
      BY DEF ListOK, CallsFit, NamesAreNew
    <3>2. /\ CallsFit(ds, Appended(bucket, f), known \cup {f})
          /\ Served(calls) => Served(ds)
      BY <2>1, <3>1, OtherFits
    <3>3. bucket' = Appended(bucket, f) /\ calls' = ds
      BY <1>2 DEF OtherAdds
    <3> HIDE DEF ds
    <3>4. Appended(bucket, f) \in Buckets /\ IsInjective(Appended(bucket, f).sequence)
      BY <2>1, <3>1, NameAdded
    <3>5. Patched(clean', timer', calls', bucket', images')
      BY <2>1 DEF Patched
    <3> QED BY <2>1, <3>2, <3>3, <3>4, <3>5 DEF ListOK, gridVars
  <2> QED BY <2>2, <2>3
<1> QED BY <1>1, <1>2 DEF Upload, GenerateAgain

LEMMA LoadStep ==
    ASSUME IInv, TimerFires \/ Refresh
    PROVE  IInv'
<1> USE DEF IInv
<1>0. /\ images \in Seq(Images) /\ Distinct(images) /\ bucket \in Buckets
      /\ IsInjective(bucket.sequence) /\ CallsFit(calls, bucket, known)
  BY DEF ListOK
<1>1. CASE TimerFires
  <2> USE <1>1 DEF TimerFires
  <2>1. PageOK'
    BY DEF PageOK, uiVars, StaysClean
  <2>2. /\ CallFits(Fetch) /\ Fetch.op = "fetch" /\ Fetch.mine
        /\ Fetch.state = "sent" /\ Fetch.then = "show"
    BY FetchFits
  <2>3. ListOK'
    BY <1>0, <2>2, SendStep DEF StaysClean
  <2> QED BY <2>1, <2>3
<1>2. CASE Refresh
  <2>1. /\ Act /\ UNCHANGED <<bucket, menu, loope, known>>
        /\ Remounted(Send(calls, [Fetch EXCEPT !.mine = FALSE]))
    BY <1>2 DEF Refresh
  <2>2. PageOK'
    <3>1. acts' \in 0..MaxActs
      BY <2>1, BucketAssumption DEF PageOK, Act
    <3> QED BY <2>1, <3>1 DEF PageOK, Remounted
  <2> DEFINE x == [Fetch EXCEPT !.mine = FALSE]
  <2>3. CallFits(x) /\ x.op = "fetch" /\ x.state = "sent"
    <3>1. FALSE \in BOOLEAN
      OBVIOUS
    <3> QED BY <3>1, FetchFits
  <2> HIDE DEF x
  <2>4. CallsFit(Send(calls, x), bucket, known)
    BY <1>0, <2>3, SentFits
  <2>5. ListOK'
    BY <1>0, <2>1, <2>4, RemountStep DEF x
  <2> QED BY <2>2, <2>5
<1> QED BY <1>1, <1>2

-----------------------------------------------------------------------------
(* Drops                                                                   *)

LEMMA DropStep ==
    ASSUME IInv, NEW over \in Ids, Drop(over)
    PROVE  IInv'
<1> USE DEF IInv
<1>0. /\ images \in Seq(Images) /\ Distinct(images) /\ over.file \in Files
      /\ Nothing \in Files \cup {Nothing}
  BY DEF ListOK, Ids
<1>1. drag \in Ids /\ drag.file \in Files /\ drag' = Nothing /\ Act /\ ~loading
      /\ Original(drag.file) \in Ids \cup {NoId}
  <2>1. drag # Nothing /\ drag' = Nothing /\ Act /\ ~loading
    BY DEF Drop, DropOutOfFavourites, DropIntoFavourites, DropAmongFavourites,
           OverGrid, Dropped
  <2>2. drag \in Ids
    BY <2>1 DEF PageOK
  <2> QED BY <2>1, <2>2, OriginalId DEF Ids
<1>2. CASE DropOutOfFavourites(over)
  <2> USE <1>2 DEF DropOutOfFavourites
  <2>1. <<>> \in Seq(Files)
    OBVIOUS
  <2>2. ListOK'
    BY <1>1, <2>1, StarAsked
  <2> QED BY <1>1, <2>2, PageAsks
<1>3. CASE DropIntoFavourites(over)
  <2> USE <1>3 DEF DropIntoFavourites
  <2>1. <<over.file>> \in Seq(Files) /\ Len(<<over.file>>) = 1
    BY <1>0
  <2>2. drag.file \notin StarredIn(images)
    BY DEF IsFavourite
  <2>3. ListOK'
    BY <1>1, <2>1, <2>2, StarAsked
  <2> QED BY <1>1, <2>3, PageAsks
<1>4. CASE DropAmongFavourites(over)
  <2> DEFINE after == AfterWhich(drag, over)
  <2>1. /\ images' = Reordered(drag, over) /\ IsFavourite(over)
        /\ Ask(Call("move", Original(drag.file), after, "reorder"))
        /\ UNCHANGED <<bucket, shown, loading, loaded, timer, deleting, menu, loope, known>>
    BY <1>4 DEF DropAmongFavourites
  <2>2. /\ images' \in Seq(Images) /\ Distinct(images')
        /\ FilesOf(images') = FilesOf(images) /\ StarredIn(images') = StarredIn(images)
    BY <1>0, <1>1, <2>1, ReorderedList
  <2>3. after \in Files \cup {Nothing}
    BY <1>0, <1>1, <2>1, AfterWhichIsThere
  <2> HIDE DEF after
  <2>4. "move" \in Ops /\ "reorder" \in Thens
        /\ Fits("move", Original(drag.file), "reorder", <<>>)
    BY DEF Ops, Thens, Fits
  <2>5. ListOK'
    BY <1>1, <2>1, <2>2, <2>3, <2>4, PlainAsk
  <2>6. PageOK'
    <3>1. clean' \in BOOLEAN
      BY <2>1 DEF PageOK, Ask, StaysClean
    <3>2. acts' \in 0..MaxActs
      BY <1>1, BucketAssumption DEF PageOK, Act
    <3> QED BY <1>1, <2>1, <3>1, <3>2 DEF PageOK
  <2> QED BY <2>5, <2>6
<1> QED BY <1>2, <1>3, <1>4 DEF Drop

LEMMA ElsewhereStep ==
    ASSUME IInv,
           \/ \E s \in Labels \cup {"favourites"} : DropOnSection(s)
           \/ DropNowhere \/ DropOnPublished
           \/ DropOnOwnTab \/ DropOnOtherTab \/ CloseMenu
           \/ \E op \in {"copy", "moveAway"} : MenuAction(op)
    PROVE  IInv'
<1> USE DEF IInv
<1>0. /\ images \in Seq(Images) /\ Distinct(images)
      /\ Nothing \in Files \cup {Nothing}
  BY DEF ListOK
<1>1. drag # Nothing => /\ drag \in Ids /\ drag.file \in Files
                        /\ Original(drag.file) \in Ids \cup {NoId}
  BY OriginalId DEF PageOK, Ids
<1>2. ASSUME NEW s, DropOnSection(s) PROVE IInv'
  <2> USE <1>2 DEF DropOnSection, OverGrid, Dropped
  <2>1. <<>> \in Seq(Files)
    OBVIOUS
  <2>2. ListOK'
    BY <1>1, <2>1, StarAsked
  <2> QED BY <1>1, <2>2, PageAsks
<1>3. CASE DropNowhere
  <2>1. ListOK'
    BY <1>3, StillStep DEF DropNowhere, gridVars
  <2>2. PageOK'
    BY <1>3 DEF DropNowhere, PageOK, gridVars
  <2> QED BY <2>1, <2>2
<1>4. CASE DropOnPublished
  <2>1. /\ drag # Nothing /\ drag' = Nothing /\ Act
        /\ UNCHANGED <<bucket, gridVars, deleting, menu, loope, known>>
        /\ Ask(Call("publish", Original(drag.file), Nothing, "fetch"))
    BY <1>4 DEF DropOnPublished, Dropped, Publish
  <2>2. "publish" \in Ops /\ "fetch" \in Thens
        /\ Fits("publish", Original(drag.file), "fetch", <<>>)
    BY DEF Ops, Thens, Fits
  <2>3. ListOK'
    BY <1>0, <1>1, <2>1, <2>2, PlainAsk DEF gridVars
  <2> QED BY <2>1, <2>3, PageAsks
<1>5. CASE DropOnOwnTab
  <2>1. /\ drag # Nothing /\ drag' = Nothing /\ Act
        /\ UNCHANGED <<bucket, gridVars, deleting, menu, loope, known>>
        /\ Ask(Call("publish", drag, Nothing, "remountAnyway"))
    BY <1>5 DEF DropOnOwnTab, Dropped
  <2>2. "publish" \in Ops /\ "remountAnyway" \in Thens
        /\ Fits("publish", drag, "remountAnyway", <<>>) /\ drag \in Ids \cup {NoId}
    BY <1>1, <2>1 DEF Ops, Thens, Fits
  <2>3. ListOK'
    BY <1>0, <2>1, <2>2, PlainAsk DEF gridVars
  <2> QED BY <2>1, <2>3, PageAsks
<1>6. CASE DropOnOtherTab
  <2>1. ListOK'
    BY <1>6, StillStep DEF DropOnOtherTab, gridVars
  <2>2. PageOK'
    BY <1>6 DEF DropOnOtherTab, PageOK, gridVars
  <2> QED BY <2>1, <2>2
<1>7. CASE CloseMenu
  <2>1. ListOK'
    BY <1>7, StillStep DEF CloseMenu, gridVars
  <2>2. PageOK'
    BY <1>7 DEF CloseMenu, PageOK, gridVars
  <2> QED BY <2>1, <2>2
<1>8. ASSUME NEW op \in {"copy", "moveAway"}, MenuAction(op) PROVE IInv'
  <2> DEFINE then == IF op = "moveAway" THEN "remount" ELSE "message"
  <2>1. /\ menu # Nothing /\ menu' = Nothing /\ Act
        /\ UNCHANGED <<bucket, gridVars, deleting, drag, loope, known>>
        /\ Ask(Call(op, menu, Nothing, then))
    BY <1>8 DEF MenuAction
  <2>2. menu \in Ids
    BY <2>1 DEF PageOK
  <2>3. op \in Ops /\ then \in Thens /\ Fits(op, menu, then, <<>>)
        /\ op \notin {"fetch", "favorite", "add"} /\ then \notin {"viewer", "close"}
    BY DEF Ops, Thens, Fits
  <2> HIDE DEF then
  <2>4. menu \in Ids \cup {NoId}
    BY <2>2
  <2>5. ListOK'
    BY <1>0, <2>1, <2>3, <2>4, PlainAsk DEF gridVars
  <2> QED BY <2>1, <2>5, PageAsks
<1> QED BY <1>2, <1>3, <1>4, <1>5, <1>6, <1>7, <1>8

-----------------------------------------------------------------------------
(* The viewer                                                              *)

LEMMA ViewerListFits ==
    ASSUME NEW cs, NEW b, NEW names, CallsFit(cs, b, names)
    PROVE  /\ CallsFit(WithoutViewer(cs), b, names)
           /\ Len(WithoutViewer(cs)) = Len(cs)
           /\ Served(cs) => Served(WithoutViewer(cs))
           /\ cs = <<>> => WithoutViewer(cs) = <<>>
           /\ \A s : Patched(clean, timer, cs, b, s)
                        => Patched(clean, timer, WithoutViewer(cs), b, s)
<1> DEFINE m  == [i \in DOMAIN cs |-> cs[i].mine /\ cs[i].then # "viewer"]
           ds == [i \in DOMAIN cs |-> [cs[i] EXCEPT !.mine = m[i]]]
<1>1. m \in [DOMAIN cs -> BOOLEAN]
  OBVIOUS
<1>2. WithoutViewer(cs) = ds
  BY DEF WithoutViewer
<1>3. \A i \in DOMAIN cs : m[i] <=> cs[i].mine /\ cs[i].then # "viewer"
  OBVIOUS
<1> HIDE DEF m
<1>4. /\ CallsFit(ds, b, names) /\ Len(ds) = Len(cs) /\ DOMAIN ds = DOMAIN cs
      /\ \A i \in DOMAIN cs :
            /\ ds[i].op = cs[i].op /\ ds[i].id = cs[i].id /\ ds[i].then = cs[i].then
            /\ ds[i].state = cs[i].state /\ ds[i].ok = cs[i].ok
            /\ ds[i].mine = m[i]
  BY <1>1, DisownedFits
<1> HIDE DEF ds
<1>5. cs \in Seq(Calls) /\ ds \in Seq(Calls)
  BY <1>4 DEF CallsFit
<1>6. Served(cs) => Served(ds)
  <2>1. ASSUME NEW i \in DOMAIN cs, cs[i].op = "fetch", cs[i].mine PROVE Served(ds)
    <3>1. cs[i].then = "show"
      BY <2>1 DEF CallsFit, CallFits, Fits
    <3>2. ds[i].mine /\ ds[i].op = "fetch"
      BY <1>3, <1>4, <2>1, <3>1
    <3> QED BY <1>4, <3>2 DEF Served
  <2> QED BY <2>1 DEF Served
<1>7. cs = <<>> <=> ds = <<>>
  BY <1>4, <1>5
<1>8. ASSUME NEW s, Patched(clean, timer, cs, b, s) PROVE Patched(clean, timer, ds, b, s)
  <2>1. CASE clean /\ cs # <<>>
    <3>1. 1 \in DOMAIN cs
      BY <1>5, <2>1
    <3>2. /\ Len(cs) <= 1 /\ cs[1].mine /\ cs[1].then \notin {"viewer", "close"}
          /\ ~timer => Awaited(cs[1], b, s)
      BY <1>8, <2>1 DEF Patched
    <3>3. ds[1].mine /\ ds[1].then \notin {"viewer", "close"}
      BY <1>3, <1>4, <3>1, <3>2
    <3>4. Awaited(cs[1], b, s) => Awaited(ds[1], b, s)
      BY <1>4, <3>1 DEF Awaited
    <3> QED BY <1>4, <1>7, <2>1, <3>2, <3>3, <3>4 DEF Patched
  <2>2. CASE clean /\ cs = <<>>
    BY <1>4, <1>7, <1>8, <2>2 DEF Patched
  <2>3. CASE ~clean
    BY <2>3 DEF Patched
  <2> QED BY <2>1, <2>2, <2>3
<1> QED BY <1>2, <1>4, <1>6, <1>7, <1>8

LEMMA TurnIsOnItem ==
    ASSUME NEW n \in Nat \ {0}, NEW at \in 1..n, NEW step \in Nat
    PROVE  ((at - 1 + step) % n) + 1 \in 1..n
OBVIOUS

LEMMA LooksStep ==
    ASSUME IInv,
           \/ Close \/ ZoomIn \/ ZoomOut \/ Turn(1) \/ Turn(Len(loope.items) - 1)
           \/ \E s \in Labels \cup {"favourites"} :
                 \E at \in 1..Len(SectionItems(s)) : Open(s, at)
    PROVE  IInv'
<1> USE DEF IInv
<1>1. CASE Close
  <2>1. /\ calls' = WithoutViewer(calls) /\ loope' = Closed
        /\ UNCHANGED <<bucket, gridVars, uiVars, clean, known, acts>>
    BY <1>1 DEF Close
  <2>2. ListOK'
    BY <2>1, ViewerListFits DEF ListOK, gridVars
  <2>3. PageOK'
    <3>1. <<>> \in Seq(Items) /\ 1 \in Nat \ {0}
      OBVIOUS
    <3> QED BY <2>1, <3>1 DEF PageOK, gridVars, uiVars, Closed
  <2> QED BY <2>2, <2>3
<1>2. ASSUME NEW step \in Nat, Turn(step) PROVE IInv'
  <2>1. /\ loope.open
        /\ loope' = [loope EXCEPT !.at = ((@ - 1 + step) % Len(loope.items)) + 1]
        /\ UNCHANGED <<bucket, gridVars, calls, uiVars, clean, known, acts>>
    BY <1>2 DEF Turn
  <2>2. ListOK'
    BY <2>1, StillStep DEF gridVars
  <2>3. PageOK'
    <3> DEFINE n  == Len(loope.items)
               at == ((loope.at - 1 + step) % n) + 1
    <3>1. /\ loope \in [open : BOOLEAN, items : Seq(Items), at : Nat \ {0}, zoomed : BOOLEAN]
          /\ loope.at \in DOMAIN loope.items
      BY <2>1 DEF PageOK
    <3>2. n \in Nat \ {0} /\ loope.at \in 1..n /\ DOMAIN loope.items = 1..n
      BY <3>1
    <3>3. loope' = [loope EXCEPT !.at = at]
      BY <2>1
    <3> HIDE DEF n
    <3>4. at \in 1..n
      BY <3>2, TurnIsOnItem
    <3>5. at \in Nat \ {0}
      BY <3>2, <3>4
    <3> HIDE DEF at
    <3>6. /\ loope' \in [open : BOOLEAN, items : Seq(Items), at : Nat \ {0}, zoomed : BOOLEAN]
          /\ loope'.at = at /\ loope'.items = loope.items
      BY <3>1, <3>3, <3>5
    <3> QED BY <2>1, <3>2, <3>4, <3>6 DEF PageOK, gridVars, uiVars
  <2> QED BY <2>2, <2>3
<1>3. CASE Turn(Len(loope.items) - 1)
  <2>1. Len(loope.items) - 1 \in Nat
    <3>1. /\ loope \in [open : BOOLEAN, items : Seq(Items), at : Nat \ {0}, zoomed : BOOLEAN]
          /\ loope.at \in DOMAIN loope.items
      BY <1>3 DEF PageOK, Turn
    <3>2. loope.items \in Seq(Items)
      BY <3>1
    <3> QED BY <3>1, <3>2
  <2> QED BY <1>2, <1>3, <2>1
<1>4. CASE ZoomIn \/ ZoomOut
  <2>1. /\ \E z \in BOOLEAN : loope' = [loope EXCEPT !.zoomed = z]
        /\ UNCHANGED <<bucket, gridVars, calls, uiVars, clean, known, acts>>
    BY <1>4 DEF ZoomIn, ZoomOut
  <2>2. ListOK'
    BY <2>1, StillStep DEF gridVars
  <2>3. PageOK'
    BY <2>1 DEF PageOK, gridVars, uiVars
  <2> QED BY <2>2, <2>3
<1>5. ASSUME NEW s, NEW at \in 1..Len(SectionItems(s)), Open(s, at) PROVE IInv'
  <2>1. UNCHANGED <<bucket, gridVars, calls, uiVars, clean, known, acts>>
    BY <1>5 DEF Open
  <2>2. ListOK'
    BY <2>1, StillStep DEF gridVars
  <2> DEFINE k == SectionItems(s)
  <2>3. k \in Seq(Items) /\ Len(k) \in Nat /\ DOMAIN k = 1..Len(k)
    BY SectionShown DEF ListOK
  <2>4. loope' = [open |-> TRUE, items |-> k, at |-> at, zoomed |-> FALSE]
    BY <1>5 DEF Open
  <2>5. at \in DOMAIN k
    BY <2>3
  <2> HIDE DEF k
  <2>6. at \in Nat \ {0}
    BY <2>3, <2>5
  <2>7. /\ loope' \in [open : BOOLEAN, items : Seq(Items), at : Nat \ {0}, zoomed : BOOLEAN]
        /\ loope'.at \in DOMAIN loope'.items
    BY <2>3, <2>4, <2>5, <2>6
  <2> QED BY <2>1, <2>2, <2>7 DEF PageOK, gridVars, uiVars
<1> QED BY <1>1, <1>2, <1>3, <1>4, <1>5

LEMMA ViewerCallFits ==
    ASSUME NEW op \in Ops, NEW id \in Ids \cup {NoId}, NEW arg \in Files \cup {Nothing},
           NEW then \in Thens, NEW at \in Nat,
           Fits(op, id, then, <<at>>)
    PROVE  LET c == [Call(op, id, arg, then) EXCEPT !.todo = <<at>>] IN
           CallFits(c) /\ c.state = "sent" /\ c.op = op
<1> DEFINE d == Call(op, id, arg, then)
<1>1. /\ d \in Calls /\ IsInjective(d.seen.sequence)
      /\ d.op = op /\ d.id = id /\ d.then = then /\ d.todo = <<>>
      /\ d.mine /\ d.state = "sent"
  <2>1. IsNew(d, op, id, arg, then)
    BY NewCall
  <2> HIDE DEF d
  <2> QED BY <2>1 DEF IsNew
<1> HIDE DEF d
<1> DEFINE todo == <<at>>
           c == [d EXCEPT !.todo = todo]
<1>2. todo \in Seq(Files) \cup Seq(Nat)
  OBVIOUS
<1> HIDE DEF todo
<1>3. Fits(d.op, d.id, d.then, todo)
  BY <1>1 DEF todo
<1>4. CallFits(c) /\ c.state = "sent" /\ c.op = op
  BY <1>1, <1>2, <1>3, ListedFits
<1> QED BY <1>4 DEF d, todo

LEMMA ViewerStep ==
    ASSUME IInv,
           \/ ViewerToggle \/ ViewerDelete \/ ViewerMove \/ ViewerCopy \/ ViewerPublish
    PROVE  IInv'
<1> USE DEF IInv
<1>1. ASSUME NEW op \in Ops, NEW then \in Thens, ViewerAsks(op, then),
             op \in {"favorite", "unfavorite", "delete", "moveAway", "copy", "publish"},
             then \in {"viewer", "close", "message"},
             op \in {"favorite", "unfavorite"} <=> then = "viewer",
             then = "message" => op \in {"copy", "publish"}
      PROVE  IInv'
  <2> DEFINE id == IdOf(Current)
             c == [Call(op, id, Nothing, then) EXCEPT !.todo = <<loope.at>>]
  <2>1. /\ loope.open /\ Act /\ calls' = Send(calls, c) /\ clean' = FALSE
        /\ UNCHANGED <<bucket, gridVars, uiVars, loope, known>>
    BY <1>1 DEF ViewerAsks
  <2> HIDE DEF c
  <2>2. /\ loope \in [open : BOOLEAN, items : Seq(Items), at : Nat \ {0}, zoomed : BOOLEAN]
        /\ loope.at \in DOMAIN loope.items
    BY <2>1 DEF PageOK
  <2>3. id \in Ids /\ loope.at \in Nat
    <3>1. Current \in Items
      BY <2>2, ElementOfSeq DEF Current
    <3>2. id \in Ids
      BY <3>1 DEF IdOf, Items, Ids
    <3> QED BY <2>2, <3>2
  <2> HIDE DEF id
  <2>8. CallFits(c) /\ c.state = "sent" /\ c.op # "add"
    <3>1. id \in Ids \cup {NoId} /\ Nothing \in Files \cup {Nothing}
      BY <2>3
    <3>2. Fits(op, id, then, <<loope.at>>)
      BY <1>1, <2>3 DEF Fits
    <3>3. CallFits(c) /\ c.state = "sent" /\ c.op = op
      BY <1>1, <2>3, <3>1, <3>2, ViewerCallFits DEF c
    <3> QED BY <1>1, <3>3
  <2>9. ListOK'
    <3>1. /\ CallsFit(calls, bucket, known) /\ bucket \in Buckets /\ IsInjective(bucket.sequence)
          /\ (loading => Served(calls)) /\ images \in Seq(Images) /\ Distinct(images)
      BY DEF ListOK
    <3> QED BY <2>1, <2>8, <3>1, SendStep DEF gridVars
  <2>10. PageOK'
    <3>1. acts' \in 0..MaxActs
      BY <2>1, BucketAssumption DEF PageOK, Act
    <3> QED BY <2>1, <3>1 DEF PageOK, gridVars, uiVars
  <2> QED BY <2>9, <2>10
<1>2. CASE ViewerToggle
  BY <1>1, <1>2 DEF ViewerToggle, Ops, Thens
<1>3. CASE ViewerDelete
  BY <1>1, <1>3 DEF ViewerDelete, Ops, Thens
<1>4. CASE ViewerMove
  BY <1>1, <1>4 DEF ViewerMove, Ops, Thens
<1>5. CASE ViewerCopy
  BY <1>1, <1>5 DEF ViewerCopy, Ops, Thens
<1>6. CASE ViewerPublish
  BY <1>1, <1>6 DEF ViewerPublish, Ops, Thens
<1> QED BY <1>2, <1>3, <1>4, <1>5, <1>6

-----------------------------------------------------------------------------
(* The server answers                                                      *)

\* What the answer will do to the list is what serving did to the bucket.
LEMMA PatchFits ==
    ASSUME bucket \in Buckets, IsInjective(bucket.sequence),
           images \in Seq(Images), Distinct(images), Agrees(bucket, images),
           NEW c, CallFits(c), Accepted(c),
           c.op = "add" => c.id.file \notin Range(bucket.sequence),
           c.op = "favorite" => c.id.file \notin StarredIn(images)
    PROVE  /\ c.then \in {"star", "place"} =>
                 Agrees(Effect(c), WithStar(images, c.id.file, c.op = "favorite"))
           /\ c.then = "remove" => Agrees(Effect(c), Without(images, c.id.file))
           /\ c.then \in {"splice", "reorder", "message"} => Agrees(Effect(c), images)
<1> DEFINE f == c.id.file
           star == (c.op = "favorite")
<1>1. c.op \in {"favorite", "delete", "moveAway", "move", "publish", "copy"}
         => f \in Range(bucket.sequence)
  BY EffectFits
<1>2. Range(bucket.sequence) \subseteq Files
  <2>1. bucket.sequence \in Seq(Files)
    BY DEF Buckets
  <2> QED BY <2>1, ElementOfSeq DEF Range
<1>3. /\ FilesOf(images) = Range(bucket.sequence)
      /\ StarredIn(images) = Range(bucket.favorites) \cap Range(bucket.sequence)
      /\ IsInjective(bucket.favorites)
  BY DEF Agrees
<1>4. ASSUME c.then \in {"star", "place"}
      PROVE  Agrees(Effect(c), WithStar(images, f, star))
  <2>1. c.op \in {"favorite", "unfavorite"} /\ ~c.id.dup
    BY <1>4 DEF CallFits, Fits
  <2>2. /\ FilesOf(WithStar(images, f, star)) = FilesOf(images)
        /\ StarredIn(WithStar(images, f, star)) =
              (StarredIn(images) \ {f}) \cup {g \in FilesOf(images) : g = f /\ star}
    <3>1. star \in BOOLEAN
      OBVIOUS
    <3> HIDE DEF star
    <3> QED BY <3>1, StarChanged
  <2>3. CASE c.op = "favorite"
    <3>1. Effect(c) = Favorited(bucket, f) /\ f \in Files /\ f \in Range(bucket.sequence)
      BY <1>1, <1>2, <2>3 DEF Effect
    <3>2. /\ Favorited(bucket, f).sequence = bucket.sequence
          /\ Range(Favorited(bucket, f).favorites) = Range(bucket.favorites) \cup {f}
          /\ f \notin Range(bucket.favorites) => IsInjective(Favorited(bucket, f).favorites)
      BY <1>3, <3>1, NameAdded
    <3>3. f \notin Range(bucket.favorites)
      BY <1>3, <2>3, <3>1
    <3>4. StarredIn(WithStar(images, f, star)) = StarredIn(images) \cup {f}
      BY <1>3, <2>2, <2>3, <3>1
    <3> HIDE DEF f, star
    <3> QED BY <1>3, <2>2, <3>1, <3>2, <3>3, <3>4 DEF Agrees
  <2>4. CASE c.op = "unfavorite"
    <3>1. Effect(c) = Unfavorited(bucket, f)
      BY <2>1, <2>4 DEF Effect
    <3>2. /\ Unfavorited(bucket, f).sequence = bucket.sequence
          /\ IsInjective(Unfavorited(bucket, f).favorites)
          /\ Range(Unfavorited(bucket, f).favorites) = Range(bucket.favorites) \ {f}
      BY <1>3, StarTaken
    <3>3. StarredIn(WithStar(images, f, star)) = StarredIn(images) \ {f}
      BY <2>2, <2>4
    <3> HIDE DEF f, star
    <3> QED BY <1>3, <2>2, <3>1, <3>2, <3>3 DEF Agrees
  <2> QED BY <2>1, <2>3, <2>4
<1>5. ASSUME c.then = "remove" PROVE Agrees(Effect(c), Without(images, f))
  <2>1. Effect(c) = Deleted(bucket, f)
    BY <1>5 DEF CallFits, Fits, Effect
  <2>2. /\ Range(Deleted(bucket, f).sequence) = Range(bucket.sequence) \ {f}
        /\ IsInjective(Deleted(bucket, f).favorites)
        /\ Range(Deleted(bucket, f).favorites) = Range(bucket.favorites) \ {f}
    BY <1>3, DeletedFile
  <2>3. /\ FilesOf(Without(images, f)) = FilesOf(images) \ {f}
        /\ StarredIn(Without(images, f)) = StarredIn(images) \ {f}
    BY WithoutImage
  <2> HIDE DEF f
  <2> QED BY <1>3, <2>1, <2>2, <2>3 DEF Agrees
<1>6. ASSUME c.then \in {"splice", "reorder", "message"} PROVE Agrees(Effect(c), images)
  <2>1. c.op \in {"move", "publish", "copy"}
    BY <1>6 DEF CallFits, Fits
  <2>2. CASE c.op = "move"
    <3>1. Effect(c) = MovedAfter(bucket, f, c.arg) /\ f \in Files /\ f \in Range(bucket.sequence)
      BY <1>1, <1>2, <2>2 DEF Effect
    <3>2. /\ Range(MovedAfter(bucket, f, c.arg).sequence) = Range(bucket.sequence)
          /\ MovedAfter(bucket, f, c.arg).favorites = bucket.favorites
      BY <3>1, MovedName
    <3> HIDE DEF f
    <3> QED BY <1>3, <3>1, <3>2 DEF Agrees
  <2>3. CASE c.op = "publish"
    <3>1. Effect(c) = [bucket EXCEPT !.published = f]
      BY <2>3 DEF Effect
    <3>2. Effect(c).sequence = bucket.sequence /\ Effect(c).favorites = bucket.favorites
      BY <3>1 DEF Buckets
    <3> QED BY <1>3, <3>2 DEF Agrees
  <2>4. CASE c.op = "copy"
    <3>1. Effect(c) = bucket
      BY <2>4 DEF Effect
    <3> QED BY <3>1 DEF Agrees
  <2> QED BY <2>1, <2>2, <2>3, <2>4
<1> QED BY <1>4, <1>5, <1>6

LEMMA ServeStep ==
    ASSUME IInv, NEW i \in DOMAIN calls, Serve(i)
    PROVE  IInv'
<1> USE DEF IInv
<1> DEFINE c == calls[i]
<1>1. /\ c.state = "sent"
      /\ UNCHANGED <<gridVars, uiVars, loope, known, acts>>
  BY DEF Serve
<1>2. PICK reached \in BOOLEAN, answered \in BOOLEAN :
         LET done == reached /\ Accepted(c) IN
         /\ bucket' = IF done THEN Effect(c) ELSE bucket
         /\ calls' = [calls EXCEPT ![i].state = "served",
                                   ![i].ok = done /\ answered,
                                   ![i].seen = IF calls[i].op = "fetch"
                                               THEN bucket ELSE @]
         /\ clean' = (clean /\ (answered \/ bucket' = bucket))
  BY DEF Serve
<1> DEFINE done == reached /\ Accepted(c)
           ok   == done /\ answered
<1>3. /\ CallsFit(calls, bucket, known) /\ bucket \in Buckets /\ IsInjective(bucket.sequence)
      /\ images \in Seq(Images) /\ Distinct(images) /\ (loading => Served(calls))
      /\ Patched(clean, timer, calls, bucket, images)
  BY DEF ListOK
<1>4. /\ CallsFit(calls', bucket', known) /\ Len(calls') = Len(calls)
      /\ Served(calls) => Served(calls')
      /\ bucket' \in Buckets /\ IsInjective(bucket'.sequence)
      /\ calls'[i].op = c.op /\ calls'[i].then = c.then
      /\ calls'[i].id = c.id /\ calls'[i].mine = c.mine
      /\ calls'[i].ok = ok /\ calls'[i].state = "served"
  <2> DEFINE seen == IF c.op = "fetch" THEN bucket ELSE c.seen
             d  == [[[c EXCEPT !.state = "served"] EXCEPT !.ok = ok] EXCEPT !.seen = seen]
             ds == [calls EXCEPT ![i] = d]
  <2>1. bucket' = bucket \/ (Accepted(c) /\ bucket' = Effect(c))
    BY <1>2
  <2>2. calls \in Seq(Calls) /\ c \in Calls
    BY <1>3 DEF CallsFit
  <2>3. calls' = ds
    BY <1>2, <2>2
  <2>4. /\ d \in Calls /\ d.op = c.op /\ d.id = c.id /\ d.then = c.then /\ d.todo = c.todo
        /\ d.mine = c.mine /\ d.alone = c.alone /\ d.ok = ok /\ d.state = "served"
        /\ d.seen = seen
    <3>1. seen \in Buckets /\ ok \in BOOLEAN
      BY <1>3, <2>2 DEF Calls
    <3> HIDE DEF c, seen, ok
    <3> QED BY <2>2, <3>1 DEF Calls
  <2> HIDE DEF d
  <2>5. /\ ds \in Seq(Calls) /\ Len(ds) = Len(calls) /\ DOMAIN ds = DOMAIN calls /\ ds[i] = d
        /\ \A j \in DOMAIN calls : j # i => ds[j] = calls[j]
    BY <2>2, <2>4
  <2> HIDE DEF ds, ok
  <2>6. /\ CallsFit(ds, bucket', known) /\ (Served(calls) => Served(ds))
        /\ bucket' \in Buckets /\ IsInjective(bucket'.sequence)
    BY <1>1, <1>3, <2>1, <2>4, <2>5, ServedFits
  <2> HIDE DEF c
  <2> QED BY <2>3, <2>4, <2>5, <2>6
<1>5. ASSUME clean' PROVE Patched(clean', timer', calls', bucket', images')
  <2>1. clean /\ (answered \/ bucket' = bucket)
    BY <1>2, <1>5
  <2>2. /\ CallFits(c) /\ c \in Calls /\ calls \in Seq(Calls)
        /\ c.op = "add" => c.id.file \notin Range(bucket.sequence)
    BY <1>1, <1>3 DEF CallsFit, CallFits, NamesAreNew
  <2>3. i = 1 /\ Len(calls) = 1 /\ calls # <<>>
    <3> DEFINE n == Len(calls)
    <3>1. n <= 1 /\ i \in 1..n /\ n \in Nat /\ (calls = <<>> => n = 0)
      BY <1>3, <2>1, <2>2 DEF Patched
    <3> HIDE DEF n
    <3>2. n = 1 /\ i = 1
      BY <3>1
    <3> QED BY <3>1, <3>2 DEF n
  <2>4. /\ c.mine /\ c.then \notin {"viewer", "close"}
        /\ ~timer => Awaited(c, bucket, images)
    BY <1>3, <2>1, <2>3 DEF Patched
  <2>5. calls' # <<>>
    BY <1>4, <2>3
  <2>6. ASSUME ~timer PROVE Awaited(calls'[1], bucket', images)
    <3>1. CASE c.op = "fetch"
      BY <1>4, <2>3, <3>1 DEF Awaited
    <3>2. CASE c.op # "fetch"
      <4>1. /\ Agrees(bucket, images)
            /\ c.op = "favorite" => c.id.file \notin StarredIn(images)
        BY <1>1, <2>4, <2>6, <3>2 DEF Awaited
      <4>2. CASE ~ok
        <5>1. bucket' = bucket
          BY <1>2, <2>1, <4>2
        <5> HIDE DEF ok
        <5>2. ~calls'[1].ok
          BY <1>4, <2>3, <4>2
        <5>3. calls'[1].state # "sent"
          BY <1>4, <2>3
        <5> QED BY <4>1, <5>1, <5>2, <5>3 DEF Awaited
      <4>3. CASE ok
        <5>1. bucket' = Effect(c) /\ Accepted(c)
          BY <1>2, <4>3
        <5>2. /\ c.then \in {"star", "place"} =>
                    Agrees(bucket', WithStar(images, c.id.file, c.op = "favorite"))
              /\ c.then = "remove" => Agrees(bucket', Without(images, c.id.file))
              /\ c.then \in {"splice", "reorder", "message"} => Agrees(bucket', images)
          <6> HIDE DEF c
          <6> QED BY <1>3, <2>2, <4>1, <5>1, PatchFits
        <5> HIDE DEF ok
        <5>3. /\ calls'[1].ok /\ calls'[1].state = "served" /\ calls'[1].then = c.then
              /\ calls'[1].id = c.id /\ calls'[1].op = c.op
          BY <1>4, <2>3, <4>3
        <5> HIDE DEF c
        <5> QED BY <5>2, <5>3 DEF Awaited
      <4> QED BY <4>2, <4>3
    <3> QED BY <3>1, <3>2
  <2>7. calls'[1].mine /\ calls'[1].then \notin {"viewer", "close"} /\ Len(calls') <= 1
    <3>1. c.mine /\ c.then \notin {"viewer", "close"} /\ i = 1 /\ Len(calls) = 1
      BY <2>3, <2>4
    <3>2. calls'[i].mine = c.mine /\ calls'[i].then = c.then /\ Len(calls') = Len(calls)
      BY <1>4
    <3> HIDE DEF c, ok
    <3> QED BY <3>1, <3>2
  <2> QED BY <1>1, <2>5, <2>6, <2>7 DEF Patched, gridVars
<1>6. Patched(clean', timer', calls', bucket', images')
  BY <1>5 DEF Patched
<1>7. ListOK'
  BY <1>1, <1>3, <1>4, <1>6 DEF ListOK, gridVars
<1>8. PageOK'
  <2>1. clean' \in BOOLEAN
    BY <1>2
  <2> QED BY <1>1, <2>1 DEF PageOK, gridVars, uiVars
<1> QED BY <1>7, <1>8

-----------------------------------------------------------------------------
(* The grid and the viewer take their answers                              *)

LEMMA AnsweredCall ==
    ASSUME ListOK, NEW i \in DOMAIN calls
    PROVE  LET c == calls[i]  rest == RemoveAt(calls, i) IN
           /\ c \in Calls /\ CallFits(c) /\ CallsFit(rest, bucket, known)
           /\ clean => /\ rest = <<>> /\ c.mine /\ c.then \notin {"viewer", "close"}
                       /\ ~timer => Awaited(c, bucket, images)
           /\ loading => Served(rest) \/ (c.op = "fetch" /\ c.mine)
           /\ c.alone => rest = <<>>
           /\ c.alone /\ c.op = "fetch" /\ c.state = "served" => c.seen = bucket
<1> DEFINE c == calls[i]
           rest == RemoveAt(calls, i)
<1>1. /\ CallsFit(calls, bucket, known) /\ (loading => Served(calls))
      /\ Patched(clean, timer, calls, bucket, images)
  BY DEF ListOK
<1>2. /\ CallsFit(rest, bucket, known)
      /\ Len(calls) <= 1 => rest = <<>> /\ i = 1 /\ calls # <<>>
      /\ Served(calls) /\ ~(c.op = "fetch" /\ c.mine) => Served(rest)
  BY <1>1, DroppedFits
<1>3. c \in Calls /\ CallFits(c)
  BY <1>1 DEF CallsFit, CallFits
<1> HIDE DEF rest
<1>4. clean => /\ rest = <<>> /\ c.mine /\ c.then \notin {"viewer", "close"}
               /\ ~timer => Awaited(c, bucket, images)
  BY <1>1, <1>2 DEF Patched
<1>5. /\ c.alone => Len(calls) = 1
      /\ c.alone /\ c.op = "fetch" /\ c.state = "served" => c.seen = bucket
  BY <1>1 DEF CallsFit, AloneIsCurrent
<1>6. c.alone => rest = <<>>
  <2> DEFINE n == Len(calls)
  <2>1. n = 1 => n <= 1
    OBVIOUS
  <2> HIDE DEF n
  <2>2. c.alone => n = 1
    BY <1>5 DEF n
  <2>3. n <= 1 => rest = <<>>
    BY <1>2 DEF n
  <2> QED BY <2>1, <2>2, <2>3
<1> QED BY <1>1, <1>2, <1>3, <1>4, <1>5, <1>6 DEF rest

LEMMA ListTaken ==
    ASSUME IInv, NEW i \in DOMAIN calls, FetchAnswered(i)
    PROVE  IInv'
<1> USE DEF IInv
<1> DEFINE c == calls[i]
           rest == RemoveAt(calls, i)
<1>1. /\ c.state = "served" /\ c.op = "fetch" /\ calls' = rest
      /\ UNCHANGED <<bucket, timer, uiVars, loope, known, acts>>
  BY DEF FetchAnswered
<1>2. /\ c \in Calls /\ CallFits(c) /\ CallsFit(rest, bucket, known)
      /\ clean => rest = <<>> /\ c.mine
      /\ loading => Served(rest) \/ c.mine
      /\ c.alone => rest = <<>>
      /\ c.alone => c.seen = bucket
  BY <1>1, AnsweredCall
<1>3. /\ bucket \in Buckets /\ IsInjective(bucket.sequence)
      /\ images \in Seq(Images) /\ Distinct(images)
      /\ c.seen \in Buckets /\ IsInjective(c.seen.sequence)
  BY <1>2 DEF ListOK, CallFits, Calls
<1>4. /\ c.mine => /\ loading' = FALSE /\ loaded' = (loaded \/ c.ok)
                   /\ c.ok => /\ images' = Seen(c.seen)
                              /\ shown' = IF c.seen.published = Nothing THEN shown
                                          ELSE c.seen.published
                              /\ clean' = (c.alone /\ IsInjective(c.seen.favorites))
                   /\ ~c.ok => clean' = FALSE /\ UNCHANGED <<images, shown>>
      /\ ~c.mine => UNCHANGED <<images, shown, loading, loaded, clean>>
  BY DEF FetchAnswered
<1> HIDE DEF c, rest
<1>5. /\ Seen(c.seen) \in Seq(Images) /\ Distinct(Seen(c.seen))
      /\ FilesOf(Seen(c.seen)) = Range(c.seen.sequence)
      /\ StarredIn(Seen(c.seen)) = Range(c.seen.favorites) \cap Range(c.seen.sequence)
  BY <1>3, SeenAgrees
<1>6. images' \in Seq(Images) /\ Distinct(images')
  BY <1>3, <1>4, <1>5
<1>7. loading' => Served(rest)
  BY <1>2, <1>4
<1>8. clean' => rest = <<>> /\ Agrees(bucket, images')
  BY <1>2, <1>4, <1>5 DEF Agrees
<1>9. ListOK'
  BY <1>1, <1>2, <1>3, <1>6, <1>7, <1>8, QuietStep
<1>10. PageOK'
  <2>1. c.seen.published \in Files \cup {Nothing} /\ c.ok \in BOOLEAN /\ c.alone \in BOOLEAN
    BY <1>2, <1>3 DEF Calls, Buckets
  <2>2. shown' \in Files \cup {Nothing}
    BY <1>4, <2>1 DEF PageOK
  <2>3. loading' \in BOOLEAN /\ loaded' \in BOOLEAN /\ clean' \in BOOLEAN
    <3>1. loaded \in BOOLEAN /\ loading \in BOOLEAN /\ clean \in BOOLEAN
      BY DEF PageOK
    <3>2. CASE c.mine
      <4>1. loaded' \in BOOLEAN /\ loading' \in BOOLEAN
        BY <1>4, <3>2
      <4>2. clean' \in BOOLEAN
        BY <1>4, <3>2 DEF IsInjective
      <4> QED BY <4>1, <4>2
    <3>3. CASE ~c.mine
      BY <1>4, <3>1, <3>3
    <3> QED BY <3>2, <3>3
  <2> QED BY <1>1, <2>2, <2>3 DEF PageOK, uiVars
<1> QED BY <1>9, <1>10

LEMMA ListPatched ==
    ASSUME IInv, NEW i \in DOMAIN calls,
           ToggleAnswered(i) \/ DeleteAnswered(i) \/ MoveAnswered(i)
    PROVE  IInv'
<1> USE DEF IInv
<1> DEFINE c == calls[i]
           rest == RemoveAt(calls, i)
<1>1. /\ c \in Calls /\ CallFits(c) /\ CallsFit(rest, bucket, known)
      /\ clean => /\ rest = <<>> /\ c.mine /\ c.then \notin {"viewer", "close"}
                  /\ ~timer => Awaited(c, bucket, images)
      /\ loading => Served(rest) \/ (c.op = "fetch" /\ c.mine)
  BY AnsweredCall
<1>2. /\ bucket \in Buckets /\ IsInjective(bucket.sequence)
      /\ images \in Seq(Images) /\ Distinct(images)
  BY DEF ListOK
<1>3. c.mine \in BOOLEAN /\ c.ok \in BOOLEAN /\ c.id \in Ids \cup {NoId}
  BY <1>1 DEF Calls
<1>4. CASE ToggleAnswered(i)
  <2> DEFINE star == (c.op = "favorite")
             d == [Call("move", c.id, c.todo[1], "splice") EXCEPT !.mine = c.mine]
  <2>1. /\ c.state = "served" /\ c.op \in {"favorite", "unfavorite"} /\ c.then # "viewer"
        /\ images' = IF c.ok /\ c.mine THEN WithStar(images, c.id.file, star) ELSE images
        /\ c.then = "place" => calls' = Send(rest, d) /\ clean' = StaysClean(rest)
        /\ c.then # "place" => calls' = rest /\ UNCHANGED clean
        /\ UNCHANGED <<bucket, shown, loading, loaded, timer, uiVars, loope, known, acts>>
    BY <1>4 DEF ToggleAnswered
  <2>2. star \in BOOLEAN /\ c.then \in {"star", "place"}
    BY <1>1, <2>1 DEF CallFits, Fits
  <2> HIDE DEF rest, d
  <2>3. images' \in Seq(Images) /\ Distinct(images')
    <3> HIDE DEF star, c
    <3> QED BY <1>2, <2>1, <2>2, StarChanged
  <2>4. ASSUME clean, ~timer PROVE Agrees(bucket, images')
    <3>1. Awaited(c, bucket, images) /\ c.mine
      BY <1>1, <2>4
    <3> HIDE DEF c
    <3>2. CASE c.ok
      <4>1. images' = WithStar(images, c.id.file, star)
        BY <2>1, <3>1, <3>2
      <4> QED BY <2>1, <2>2, <3>1, <3>2, <4>1 DEF Awaited
    <3>3. CASE ~c.ok
      <4>1. images' = images
        BY <2>1, <3>3
      <4> QED BY <2>1, <3>1, <3>3, <4>1 DEF Awaited
    <3> QED BY <3>2, <3>3
  <2>5. loading' => Served(rest)
    BY <1>1, <2>1
  <2>6. CASE c.then = "place"
    <3>1. c.id \in Ids \cup {NoId} /\ c.todo[1] \in Files \cup {Nothing}
      <4>1. c.todo \in Seq(Files) /\ Len(c.todo) = 1
        BY <1>1, <2>6 DEF CallFits, Fits
      <4>2. c.todo[1] \in Files
        BY <4>1
      <4> QED BY <1>3, <4>2
    <3>2. CallFits(d) /\ d.state = "sent" /\ d.mine = c.mine /\ d.op = "move" /\ d.then = "splice"
      <4> HIDE DEF c
      <4> QED BY <1>3, <3>1, SpliceFits DEF d
    <3>3. ListOK'
      <4>1. clean' => /\ rest = <<>> /\ d.mine /\ d.then \notin {"viewer", "close"}
                      /\ ~timer' => Agrees(bucket, images')
        BY <1>1, <2>1, <2>4, <2>6, <3>2 DEF StaysClean
      <4> HIDE DEF c
      <4> QED BY <1>1, <1>2, <2>1, <2>3, <2>5, <2>6, <3>2, <4>1, SendStep
    <3>4. PageOK'
      BY <2>1, <2>6 DEF PageOK, uiVars, StaysClean
    <3> QED BY <3>3, <3>4
  <2>7. CASE c.then # "place"
    <3>1. ListOK'
      BY <1>1, <1>2, <2>1, <2>3, <2>4, <2>5, <2>7, QuietStep
    <3>2. PageOK'
      BY <2>1, <2>7 DEF PageOK, uiVars
    <3> QED BY <3>1, <3>2
  <2> QED BY <2>6, <2>7
<1>5. CASE DeleteAnswered(i)
  <2>1. /\ c.state = "served" /\ c.op = "delete" /\ c.then = "remove" /\ calls' = rest
        /\ images' = IF c.ok /\ c.mine THEN Without(images, c.id.file) ELSE images
        /\ UNCHANGED <<bucket, shown, loading, loaded, timer, uiVars, loope, clean, known, acts>>
    BY <1>5 DEF DeleteAnswered
  <2> HIDE DEF rest, c
  <2>2. images' \in Seq(Images) /\ Distinct(images')
    BY <1>2, <2>1, WithoutImage
  <2>3. ASSUME clean, ~timer PROVE Agrees(bucket, images')
    <3>1. Awaited(c, bucket, images) /\ c.mine
      BY <1>1, <2>3
    <3> QED BY <2>1, <3>1 DEF Awaited
  <2>4. ListOK'
    BY <1>1, <1>2, <2>1, <2>2, <2>3, QuietStep
  <2>5. PageOK'
    BY <2>1 DEF PageOK, uiVars
  <2> QED BY <2>4, <2>5
<1>6. CASE MoveAnswered(i)
  <2>1. /\ c.state = "served" /\ c.op = "move"
        /\ images' = IF /\ c.then = "splice" /\ c.mine
                        /\ {c.id.file, c.arg} \subseteq FilesOf(images)
                     THEN Spliced(c.id.file, c.arg) ELSE images
        /\ \/ /\ calls' = Send(rest, [Fetch EXCEPT !.mine = c.mine])
              /\ loading' = (loading \/ c.mine) /\ clean' = FALSE
           \/ calls' = rest /\ UNCHANGED <<loading, clean>>
        /\ UNCHANGED <<bucket, shown, loaded, timer, uiVars, loope, known, acts>>
    BY <1>6 DEF MoveAnswered
  <2> HIDE DEF rest, c
  <2>2. /\ images' \in Seq(Images) /\ Distinct(images')
        /\ FilesOf(images') = FilesOf(images) /\ StarredIn(images') = StarredIn(images)
    BY <1>2, <2>1, SplicedList
  <2>3. ASSUME clean, ~timer PROVE Agrees(bucket, images')
    <3>1. Awaited(c, bucket, images) /\ c.then \in {"splice", "reorder"}
      BY <1>1, <2>1, <2>3 DEF CallFits, Fits
    <3>2. Agrees(bucket, images)
      BY <2>1, <3>1 DEF Awaited
    <3> QED BY <2>2, <3>2 DEF Agrees
  <2>4. CASE calls' = rest /\ UNCHANGED <<loading, clean>>
    <3>1. ListOK'
      BY <1>1, <1>2, <2>1, <2>2, <2>3, <2>4, QuietStep
    <3>2. PageOK'
      BY <2>1, <2>4 DEF PageOK, uiVars
    <3> QED BY <3>1, <3>2
  <2>5. CASE /\ calls' = Send(rest, [Fetch EXCEPT !.mine = c.mine])
             /\ loading' = (loading \/ c.mine) /\ clean' = FALSE
    <3> DEFINE x == [Fetch EXCEPT !.mine = c.mine]
    <3>1. CallFits(x) /\ x.op = "fetch" /\ x.mine = c.mine /\ x.state = "sent"
      BY <1>3, FetchFits
    <3>2. calls' = Send(rest, x) /\ (loading' => loading \/ c.mine) /\ ~clean'
      BY <2>5
    <3> HIDE DEF x
    <3>3. ListOK'
      BY <1>1, <1>2, <2>1, <2>2, <3>1, <3>2, SendStep
    <3>4. PageOK'
      BY <2>1, <2>5 DEF PageOK, uiVars
    <3> QED BY <3>3, <3>4
  <2> QED BY <2>1, <2>4, <2>5
<1> QED BY <1>4, <1>5, <1>6

LEMMA ListAskedAgain ==
    ASSUME IInv, NEW i \in DOMAIN calls, DeleteNext(i) \/ ThenFetch(i) \/ ThenRemount(i)
    PROVE  IInv'
<1> USE DEF IInv
<1> DEFINE c == calls[i]
           rest == RemoveAt(calls, i)
           x == [Fetch EXCEPT !.mine = c.mine]
<1>1. /\ c \in Calls /\ CallFits(c) /\ CallsFit(rest, bucket, known)
      /\ clean => /\ rest = <<>> /\ c.mine /\ c.then \notin {"viewer", "close"}
                  /\ ~timer => Awaited(c, bucket, images)
      /\ loading => Served(rest) \/ (c.op = "fetch" /\ c.mine)
  BY AnsweredCall
<1>2. /\ bucket \in Buckets /\ IsInjective(bucket.sequence)
      /\ images \in Seq(Images) /\ Distinct(images)
  BY DEF ListOK
<1>3. c.mine \in BOOLEAN /\ c.ok \in BOOLEAN /\ (c.op = "fetch" <=> c.then = "show")
  BY <1>1 DEF Calls, CallFits, Fits
<1>4. CallFits(x) /\ x.op = "fetch" /\ x.mine = c.mine /\ x.state = "sent"
  BY <1>3, FetchFits
<1> HIDE DEF rest, x
<1>5. ASSUME c.then \in {"fetch", "fetchIfOk", "remount", "remountAnyway"}, c.state = "served",
             c.then \in {"fetchIfOk", "remount"} /\ ~c.ok, calls' = rest,
             UNCHANGED <<bucket, gridVars, clean, known>>
      PROVE  ListOK'
  <2>1. ASSUME clean, ~timer PROVE Agrees(bucket, images)
    <3>1. Awaited(c, bucket, images) /\ c.op # "fetch"
      BY <1>1, <1>3, <1>5, <2>1
    <3> HIDE DEF c
    <3> QED BY <1>5, <3>1 DEF Awaited
  <2>2. loading => Served(rest)
    BY <1>1, <1>3, <1>5
  <2> HIDE DEF c
  <2> QED BY <1>1, <1>2, <1>5, <2>1, <2>2, QuietStep DEF gridVars
<1>6. CASE DeleteNext(i)
  <2> DEFINE d == Call("delete", Original(c.todo[1]), Nothing, "next")
             e == [d EXCEPT !.todo = Tail(c.todo), !.mine = c.mine]
  <2>1. /\ c.then = "next" /\ c.op = "delete"
        /\ calls' = Send(rest, IF c.todo # <<>> THEN e ELSE x)
        /\ loading' = (loading \/ (c.todo = <<>> /\ c.mine)) /\ clean' = FALSE
        /\ UNCHANGED <<bucket, images, shown, loaded, timer, uiVars, loope, known, acts>>
    BY <1>6 DEF DeleteNext, x, rest
  <2>2. PageOK'
    BY <2>1 DEF PageOK, uiVars
  <2>3. CASE c.todo = <<>>
    <3>1. calls' = Send(rest, x) /\ (loading' => loading \/ c.mine)
      BY <2>1, <2>3
    <3>2. ListOK'
      <4> HIDE DEF c
      <4> QED BY <1>1, <1>2, <1>4, <2>1, <3>1, SendStep
    <3> QED BY <2>2, <3>2
  <2>4. CASE c.todo # <<>>
    <3>1. c.todo \in Seq(Files)
      BY <1>1, <2>1 DEF CallFits, Fits
    <3>2. c.todo[1] \in Files /\ Tail(c.todo) \in Seq(Files)
      BY <2>4, <3>1
    <3> DEFINE id == Original(c.todo[1])
               first == Call("delete", id, Nothing, "next")
               tail == Tail(c.todo)
               m == c.mine
               y == [first EXCEPT !.todo = tail, !.mine = m]
    <3>3. calls' = Send(rest, y) /\ (loading' => loading)
      BY <2>1, <2>4
    <3>4. /\ "delete" \in Ops /\ id \in Ids \cup {NoId} /\ Nothing \in Files \cup {Nothing}
          /\ "next" \in Thens
      BY <3>2 DEF Original, Ids, Ops, Thens
    <3>5. tail \in Seq(Files) /\ m \in BOOLEAN
      BY <1>3, <3>2
    <3>6. IsNew(first, "delete", id, Nothing, "next")
      BY <3>4, NewCall
    <3> HIDE DEF first, id, tail, m
    <3>7. /\ y \in Calls /\ y.op = "delete" /\ y.then = "next" /\ y.todo = tail
          /\ y.state = "sent" /\ IsInjective(y.seen.sequence)
      <4>1. /\ first \in Calls /\ IsInjective(first.seen.sequence)
            /\ first.op = "delete" /\ first.then = "next" /\ first.state = "sent"
        BY <3>6 DEF IsNew
      <4> QED BY <3>5, <4>1 DEF Calls
    <3> HIDE DEF y
    <3>8. CallFits(y)
      BY <3>5, <3>7 DEF CallFits, Fits
    <3>9. loading => Served(rest)
      BY <1>1, <2>1
    <3> HIDE DEF c
    <3>10. ListOK'
      BY <1>1, <1>2, <2>1, <3>3, <3>7, <3>8, <3>9, SendStep
    <3> QED BY <2>2, <3>10
  <2> QED BY <2>3, <2>4
<1>7. CASE ThenFetch(i)
  <2>1. /\ c.state = "served" /\ c.then \in {"fetch", "fetchIfOk"}
        /\ \/ calls' = Send(rest, x) /\ loading' = (loading \/ c.mine) /\ clean' = FALSE
           \/ /\ c.then = "fetchIfOk" /\ ~c.ok
              /\ calls' = rest /\ UNCHANGED <<loading, clean>>
        /\ UNCHANGED <<bucket, images, shown, loaded, timer, uiVars, loope, known, acts>>
    BY <1>7 DEF ThenFetch, x, rest
  <2>2. CASE calls' = Send(rest, x) /\ loading' = (loading \/ c.mine) /\ clean' = FALSE
    <3>1. ListOK'
      <4> HIDE DEF c
      <4> QED BY <1>1, <1>2, <1>4, <2>1, <2>2, SendStep
    <3>2. PageOK'
      BY <2>1, <2>2 DEF PageOK, uiVars
    <3> QED BY <3>1, <3>2
  <2>3. CASE c.then = "fetchIfOk" /\ ~c.ok /\ calls' = rest /\ UNCHANGED <<loading, clean>>
    <3>1. ListOK'
      BY <1>5, <2>1, <2>3 DEF gridVars
    <3>2. PageOK'
      BY <2>1, <2>3 DEF PageOK, uiVars
    <3> QED BY <3>1, <3>2
  <2> QED BY <2>1, <2>2, <2>3
<1>8. CASE ThenRemount(i)
  <2>1. /\ c.state = "served" /\ c.then \in {"remount", "remountAnyway"}
        /\ \/ Remounted(rest)
           \/ /\ c.then = "remount" /\ ~c.ok /\ calls' = rest
              /\ UNCHANGED <<gridVars, deleting, drag, clean>>
        /\ UNCHANGED <<bucket, menu, loope, known, acts>>
    BY <1>8 DEF ThenRemount, rest
  <2>2. CASE Remounted(rest)
    <3>1. ListOK'
      BY <1>1, <1>2, <2>1, <2>2, RemountStep
    <3>2. PageOK'
      BY <2>1, <2>2 DEF PageOK, Remounted
    <3> QED BY <3>1, <3>2
  <2>3. CASE c.then = "remount" /\ ~c.ok /\ calls' = rest
             /\ UNCHANGED <<gridVars, deleting, drag, clean>>
    <3>1. ListOK'
      BY <1>5, <2>1, <2>3 DEF gridVars
    <3>2. PageOK'
      BY <2>1, <2>3 DEF PageOK, gridVars
    <3> QED BY <3>1, <3>2
  <2> QED BY <2>1, <2>2, <2>3
<1> QED BY <1>6, <1>7, <1>8

LEMMA OthersAnswered ==
    ASSUME IInv, NEW i \in DOMAIN calls, ThenReload(i) \/ ThenNothing(i)
    PROVE  IInv'
<1> USE DEF IInv
<1> DEFINE c == calls[i]
           rest == RemoveAt(calls, i)
<1>1. /\ c \in Calls /\ CallFits(c) /\ CallsFit(rest, bucket, known)
      /\ clean => /\ rest = <<>> /\ c.mine /\ (~timer => Awaited(c, bucket, images))
      /\ loading => Served(rest) \/ (c.op = "fetch" /\ c.mine)
  BY AnsweredCall
<1>2. /\ bucket \in Buckets /\ IsInjective(bucket.sequence)
      /\ images \in Seq(Images) /\ Distinct(images)
  BY DEF ListOK
<1>3. /\ c.then \in {"reload", "message"} /\ calls' = rest
      /\ c.then = "reload" => timer' = (timer \/ (c.ok /\ c.mine))
      /\ c.then = "message" => timer' = timer
      /\ UNCHANGED <<bucket, images, shown, loading, loaded, uiVars, loope, clean,
                     known, acts>>
  BY DEF ThenReload, ThenNothing, gridVars
<1>4. c.op # "fetch" /\ c.mine \in BOOLEAN /\ c.ok \in BOOLEAN
  BY <1>1, <1>3 DEF Calls, CallFits, Fits
<1> HIDE DEF c, rest
<1>5. ASSUME clean, ~timer' PROVE Agrees(bucket, images)
  <2>1. ~timer /\ (c.then = "reload" => ~(c.ok /\ c.mine))
    <3>1. CASE c.then = "reload"
      BY <1>3, <1>4, <1>5, <3>1
    <3>2. CASE c.then = "message"
      BY <1>3, <1>5, <3>2
    <3> QED BY <1>3, <3>1, <3>2
  <2>2. Awaited(c, bucket, images) /\ (c.then = "reload" => ~c.ok)
    BY <1>1, <1>5, <2>1
  <2> QED BY <1>3, <1>4, <2>2 DEF Awaited
<1>6. loading => Served(rest)
  BY <1>1, <1>4
<1>7. ListOK'
  BY <1>1, <1>2, <1>3, <1>5, <1>6, QuietStep
<1>8. PageOK'
  <2>1. timer \in BOOLEAN
    BY DEF PageOK
  <2>2. timer' \in BOOLEAN
    BY <1>3, <1>4, <2>1
  <2> QED BY <1>3, <2>2 DEF PageOK, uiVars
<1> QED BY <1>7, <1>8

\* A star set in the list of the viewer leaves its items in their places.
LEMMA StarredItem ==
    ASSUME NEW items \in Seq(Items), NEW k, NEW star \in BOOLEAN
    PROVE  LET r == [items EXCEPT ![k].favorite = star] IN
           r \in Seq(Items) /\ DOMAIN r = DOMAIN items
<1> DEFINE n == Len(items)
           r == [items EXCEPT ![k].favorite = star]
<1>1. n \in Nat /\ DOMAIN items = 1..n /\ \A j \in 1..n : items[j] \in Items
  OBVIOUS
<1>2. \A x \in Items : [x EXCEPT !.favorite = star] \in Items
  BY DEF Items
<1>3. DOMAIN r = 1..n /\ \A j \in 1..n : r[j] \in Items
  BY <1>1, <1>2
<1>4. r = [j \in 1..n |-> r[j]]
  BY <1>1
<1> HIDE DEF r, n
<1>5. r \in [1..n -> Items]
  BY <1>3, <1>4
<1>6. r \in Seq(Items)
  BY <1>1, <1>5, SeqDef
<1> QED BY <1>1, <1>3, <1>6 DEF r

LEMMA ViewerAnswered ==
    ASSUME IInv, NEW i \in DOMAIN calls, ViewerToggled(i) \/ ViewerCloses(i)
    PROVE  IInv'
<1> USE DEF IInv
<1> DEFINE c == calls[i]
           rest == RemoveAt(calls, i)
<1>1. /\ c \in Calls /\ CallFits(c) /\ CallsFit(rest, bucket, known)
      /\ clean => c.then \notin {"viewer", "close"}
      /\ loading => Served(rest) \/ (c.op = "fetch" /\ c.mine)
  BY AnsweredCall
<1>2. /\ bucket \in Buckets /\ IsInjective(bucket.sequence)
      /\ images \in Seq(Images) /\ Distinct(images)
  BY DEF ListOK
<1>3. /\ c.then \in {"viewer", "close"} /\ (calls' = rest \/ calls' = WithoutViewer(rest))
      /\ UNCHANGED <<bucket, gridVars, uiVars, clean, known, acts>>
  BY DEF ViewerToggled, ViewerCloses
<1>4. c.op # "fetch" /\ c.ok \in BOOLEAN
  BY <1>1, <1>3 DEF Calls, CallFits, Fits
<1>5. loope' \in [open : BOOLEAN, items : Seq(Items), at : Nat \ {0}, zoomed : BOOLEAN]
      /\ (loope'.open => loope'.at \in DOMAIN loope'.items)
  <2>1. loope \in [open : BOOLEAN, items : Seq(Items), at : Nat \ {0}, zoomed : BOOLEAN]
        /\ (loope.open => loope.at \in DOMAIN loope.items)
    BY DEF PageOK
  <2>2. CASE loope' = loope
    BY <2>1, <2>2
  <2>3. CASE loope' = Closed
    <3>1. <<>> \in Seq(Items) /\ 1 \in Nat \ {0}
      OBVIOUS
    <3> QED BY <2>3, <3>1 DEF Closed
  <2>4. CASE loope' = [loope EXCEPT !.items[c.todo[1]].favorite = (c.op = "favorite")]
    <3> DEFINE k == c.todo[1]
               star == (c.op = "favorite")
               items == [loope.items EXCEPT ![k].favorite = star]
    <3>1. loope' = [loope EXCEPT !.items = items]
      BY <2>4
    <3>2. loope.items \in Seq(Items) /\ star \in BOOLEAN
      BY <2>1
    <3> HIDE DEF k, star
    <3>3. items \in Seq(Items) /\ DOMAIN items = DOMAIN loope.items
      BY <3>2, StarredItem
    <3> HIDE DEF items
    <3> QED BY <2>1, <3>1, <3>3
  <2> QED BY <2>2, <2>3, <2>4 DEF ViewerToggled, ViewerCloses
<1> HIDE DEF c, rest
<1>6. /\ CallsFit(WithoutViewer(rest), bucket, known)
      /\ Served(rest) => Served(WithoutViewer(rest))
  BY <1>1, ViewerListFits
<1>7. ~clean /\ ~clean'
  BY <1>1, <1>3
<1>8. CallsFit(calls', bucket, known) /\ (loading => Served(calls'))
  BY <1>1, <1>3, <1>4, <1>6
<1>9. ListOK'
  BY <1>2, <1>3, <1>7, <1>8, QuietStep DEF gridVars
<1>10. PageOK'
  BY <1>3, <1>5 DEF PageOK, gridVars, uiVars
<1> QED BY <1>9, <1>10

-----------------------------------------------------------------------------
(* The invariant                                                           *)

LEMMA InitIsSound == Init => IInv
<1> SUFFICES ASSUME Init PROVE IInv
  OBVIOUS
<1>1. /\ Initial \in Seq(Files) /\ IsInjective(Initial) /\ MaxActs \in Nat
  BY BucketAssumption
<1>2. PICK starred \in SUBSET (DOMAIN Initial) :
         bucket = [sequence |-> Initial, favorites |-> Kept(Initial, starred),
                   published |-> Nothing]
  BY DEF Init
<1> DEFINE stars == Kept(Initial, starred)
<1>3. stars \in Seq(Files)
  BY <1>1, KeptRange
<1>4. bucket = [sequence |-> Initial, favorites |-> stars, published |-> Nothing]
  BY <1>2
<1> HIDE DEF stars
<1>5. bucket \in Buckets /\ bucket.sequence = Initial
  BY <1>1, <1>3, <1>4 DEF Buckets
<1>6. /\ images = <<>> /\ shown = Nothing /\ timer = FALSE /\ loading = TRUE /\ loaded = FALSE
      /\ calls = <<Fetch>> /\ deleting = Nothing /\ drag = Nothing /\ menu = Nothing
      /\ loope = [open |-> FALSE, items |-> <<>>, at |-> 1, zoomed |-> FALSE]
      /\ clean = FALSE /\ known = {Initial[i] : i \in DOMAIN Initial} /\ acts = 0
  BY DEF Init
<1>7. Range(Initial) = known /\ known \subseteq Files
  BY <1>1, <1>6 DEF Range
<1>8. /\ CallFits(Fetch) /\ Fetch.op = "fetch" /\ Fetch.mine /\ Fetch.state = "sent"
  <2>1. TRUE \in BOOLEAN
    OBVIOUS
  <2> QED BY <2>1, FetchFits
<1>9. CallsFit(calls, bucket, known) /\ Served(calls)
  <2>1. Fetch \in Calls
    BY <1>8 DEF CallFits
  <2>2. calls \in Seq(Calls) /\ Len(calls) = 1 /\ DOMAIN calls = {1} /\ calls[1] = Fetch
    BY <1>6, <2>1
  <2>3. NamesAreNew(calls, bucket, known)
    BY <1>5, <1>7, <1>8, <2>2 DEF NamesAreNew
  <2>4. AloneIsCurrent(calls, bucket)
    BY <1>8, <2>2 DEF AloneIsCurrent
  <2> QED BY <1>8, <2>2, <2>3, <2>4 DEF CallsFit, Served
<1>10. images \in Seq(Images) /\ Distinct(images)
  <2>1. DOMAIN <<>> = {}
    OBVIOUS
  <2>2. images \in Seq(Images)
    BY <1>6
  <2> QED BY <1>6, <2>1, <2>2 DEF Distinct
<1>11. ListOK
  BY <1>1, <1>5, <1>6, <1>9, <1>10 DEF ListOK, Patched
<1>12. PageOK
  <2>1. <<>> \in Seq(Items) /\ 1 \in Nat \ {0} /\ 0 \in 0..MaxActs
    BY <1>1
  <2> QED BY <1>6, <1>7, <2>1 DEF PageOK
<1> QED BY <1>11, <1>12 DEF IInv

LEMMA AnswerStep ==
    ASSUME IInv, NEW i \in DOMAIN calls, Answered(i)
    PROVE  IInv'
BY ListTaken, ListPatched, ListAskedAgain, OthersAnswered, ViewerAnswered DEF Answered

LEMMA StepKeepsIInv == IInv /\ [Next]_vars => IInv'
<1> SUFFICES ASSUME IInv, [Next]_vars PROVE IInv'
  OBVIOUS
<1>1. ASSUME NEW i \in DOMAIN calls, Serve(i) \/ Answered(i) PROVE IInv'
  BY <1>1, ServeStep, AnswerStep
<1>2. CASE TimerFires \/ Refresh
  BY <1>2, LoadStep
<1>3. CASE CancelDelete \/ Purge \/ \E s \in Labels : DeleteSection(s)
  BY <1>3, HeaderStep
<1>4. CASE ConfirmDelete
  BY <1>4, ConfirmStep
<1>5. ASSUME NEW id \in Ids, OnCard(id) \/ Drop(id) PROVE IInv'
  BY <1>5, CardsStep, DropStep
<1>6. ASSUME NEW f \in Files, Upload(f) \/ GenerateAgain(f) \/ OtherAdds(f) PROVE IInv'
  BY <1>6, AddStep
<1>7. CASE \/ \E s \in Labels \cup {"favourites"} : DropOnSection(s)
           \/ DropNowhere \/ DropOnPublished
           \/ DropOnOwnTab \/ DropOnOtherTab \/ CloseMenu
           \/ \E op \in {"copy", "moveAway"} : MenuAction(op)
  BY <1>7, ElsewhereStep
<1>8. CASE InViewer
  BY <1>8, LooksStep, ViewerStep DEF InViewer
<1>9. CASE UNCHANGED vars
  <2>1. ListOK'
    BY <1>9, StillStep DEF IInv, vars, gridVars
  <2>2. PageOK'
    BY <1>9 DEF IInv, PageOK, vars
  <2> QED BY <2>1, <2>2 DEF IInv
<1> QED BY <1>1, <1>2, <1>3, <1>4, <1>5, <1>6, <1>7, <1>8, <1>9 DEF Next

\* The list, the page and the requests are always as the invariant says.
THEOREM InvariantHolds == Spec => []IInv
<1>1. Init => IInv
  BY InitIsSound
<1>2. IInv /\ [Next]_vars => IInv'
  BY StepKeepsIInv
<1> QED BY <1>1, <1>2, PTL DEF Spec

\* The bucket grid is sound: every variable is of its type and the viewer is
\* open on an item; no two cards of the page have the same id, however many
\* lists were loaded, patched, spliced and reordered, so that a drop finds the
\* image that was dragged; and while there is a spinner a listing is under
\* way that takes it away.
THEOREM GridIsSound == Spec => []GridHolds
<1>1. IInv => GridHolds
  <2> SUFFICES ASSUME IInv PROVE GridHolds
    OBVIOUS
  <2>1. PageOK /\ ListOK
    BY DEF IInv
  <2>2. calls \in Seq(Calls) /\ images \in Seq(Images) /\ Distinct(images)
    BY <2>1 DEF ListOK, CallsFit
  <2>3. TypeOK
    BY <2>1, <2>2 DEF PageOK, ListOK, TypeOK
  <2>4. DraggableIdsAreUnique
    BY <2>2, CardsAreUnique
  <2>5. SpinnerIsServed
    BY <2>1 DEF ListOK, Served, SpinnerIsServed
  <2> QED BY <2>3, <2>4, <2>5 DEF GridHolds
<1> QED BY <1>1, InvariantHolds, PTL

\* The list the grid has only patched is the server's: as long as each request
\* was answered before the next was sent, nobody else changed the bucket and
\* no favourite is listed twice, the grid shows the files of the bucket with
\* their stars, whatever was added to its list, starred, moved and deleted.
THEOREM PatchedListIsTrue == Spec => []PatchedListAgrees
<1>1. IInv => PatchedListAgrees
  BY CleanAgrees DEF IInv, Agrees, PatchedListAgrees
<1> QED BY <1>1, InvariantHolds, PTL

=============================================================================
