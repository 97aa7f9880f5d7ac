--------------------------- MODULE RecentViewProofs ---------------------------
(***************************************************************************)
(* Proofs about RecentView, for any batches and any bounds on generations, *)
(* on the images each asks for and on what the user does: the tab's two    *)
(* lists of batches stay one, every index of a panel is one of its images, *)
(* what was picked is shown, and no placeholder outlives what is owed.     *)
(***************************************************************************)
EXTENDS RecentView, FiniteSetTheorems, SequenceTheorems, WellFoundedInduction, TLAPS

-----------------------------------------------------------------------------
(* The inductive invariant                                                 *)

\* No two images of a list have the same id.
UniqueIds(s) == \A i, j \in DOMAIN s : s[i].id = s[j].id => i = j

Collapsed  == [Batches -> {"open", "shut", "unset"}]
Selections == [Batches -> Ids \cup {None}]
PanelState == [sel : Ids \cup {None}, at : Nat, shut : BOOLEAN]

CallRecords == [batch : Batches, kind : {"wait", "again"}, asked : 1..MaxAsked,
                made : SUBSET Ids, came : Nat,
                state : {"asked", "made", "done", "failed"}]
ListingRecords  == [sel : Selections, seen : Seq(Images), answered : BOOLEAN]
DeletionRecords == [todo : SUBSET Ids, all : SUBSET Ids, batch : Batches,
                    whole : BOOLEAN, alone : BOOLEAN, sel : Selections,
                    mine : BOOLEAN, failed : BOOLEAN]

\* What the server has, or had when it was listed: images made so far.
Settled(s, n) ==
    /\ s \in Seq(Images) /\ UniqueIds(s)
    /\ \A x \in ToSet(s) : x.id <= n /\ ~IsPlaceholder(x)

\* A generation has made no more than it was asked for, and its answer has
\* brought all of it.
CallFits(c) ==
    /\ c \in CallRecords
    /\ Cardinality(c.made) <= c.asked
    /\ c.state = "asked" => c.made = {}
    /\ c.came = IF c.state = "done" THEN Cardinality(c.made) ELSE 0

\* The generations the server has begun.
Begun(cs) == {i \in DOMAIN cs : cs[i].state # "asked"}

\* Each generation takes numbers for its placeholders, and once for images.
Numbered ==
    /\ last \in Nat /\ old \in 0..last
    /\ last <= Len(Initial) + MaxAsked * (Len(calls) + Cardinality(Begun(calls)))

CallsOK ==
    /\ calls \in Seq(CallRecords) /\ Len(calls) <= MaxCalls
    /\ \A i \in DOMAIN calls :
          CallFits(calls[i]) /\ \A id \in calls[i].made : id <= last

GeneratedOK ==
    /\ generated \subseteq [id : Ids, batch : Batches,
                            status : {"generating", "completed", "error"}]
    /\ waiting \subseteq [id : Ids, batch : Batches]
    /\ \A w \in waiting : w.id <= last

RequestsOK ==
    /\ listings \in Seq(ListingRecords)
    /\ \A i \in DOMAIN listings : Settled(listings[i].seen, last)
    /\ deletions \in Seq(DeletionRecords)

Pipeline ==
    /\ Numbered /\ CallsOK /\ GeneratedOK /\ GeneratingIsServed
    /\ Settled(store, last) /\ RequestsOK

\* The tab's images have an id each, and none of Generate Again has that of a
\* placeholder of a submitted prompt: so a listing keeps no placeholder.  None
\* is left behind by a tab that is closed.
ListsOK ==
    /\ images \in Seq(Images) /\ UniqueIds(images)
    /\ \A x \in ToSet(images) : x.id <= last
    /\ \A x \in ToSet(images) : x.kind = "again" => \A w \in waiting : w.id # x.id
    /\ open \/ \A x \in ToSet(images) : ~IsPlaceholder(x)
    /\ order \in Seq(Batches) /\ shown \in Seq(Batches)
    /\ OrderIsShown
    /\ collapsed \in Collapsed /\ tracked \subseteq Ids

\* A panel has selected one of its images, and its index is one of them.
PanelsOK ==
    /\ open \in BOOLEAN /\ view \in [loading : BOOLEAN, error : BOOLEAN]
    /\ picks \in Selections /\ stored \in Selections /\ forced \in Selections
    /\ panel \in [Batches -> PanelState]
    /\ Ready => \A b \in ToSet(shown) : /\ panel[b].sel \in IdsIn(images, b)
                                        /\ panel[b].at \in DOMAIN Group(images, b)
    /\ PickIsKept

IInv == Pipeline /\ ListsOK /\ PanelsOK /\ PlaceholdersAreOwed

-----------------------------------------------------------------------------
(* Sequences                                                               *)

\* Every non-empty set of naturals has a least member.
LEMMA LeastMember ==
    ASSUME NEW T \in SUBSET Nat, T # {}
    PROVE  \E x \in T : \A y \in T : x <= y
<1>1. OpToRel(<, Nat) = {ss \in Nat \X Nat : ss[1] < ss[2]}
  BY Zenon DEF OpToRel
<1>2. \E x \in T : \A y \in T :
        ~(<<y, x>> \in {ss \in Nat \X Nat : ss[1] < ss[2]})
  BY NatLessThanWellFounded, WFMin, <1>1, ZenonT(30)
<1>3. \A x, y \in Nat :
        x < y => <<x, y>> \in {ss \in Nat \X Nat : ss[1] < ss[2]}
  OBVIOUS
<1>4. PICK x \in T : \A y \in T : ~(y < x)
  BY <1>2, <1>3
<1> QED BY <1>4

\* Nth counts the members of a finite set of numbers through, each once.
LEMMA NthCountsThrough ==
    ASSUME NEW P \in SUBSET Nat, IsFiniteSet(P)
    PROVE  /\ Cardinality(P) \in Nat
           /\ \A n \in 1..Cardinality(P) : Nth(P, n) \in P
           /\ \A m, n \in 1..Cardinality(P) : Nth(P, m) = Nth(P, n) => m = n
           /\ \A i \in P : \E n \in 1..Cardinality(P) : Nth(P, n) = i
<1> DEFINE UpTo(i) == {j \in P : j <= i}
           rank == [i \in P |-> Cardinality(UpTo(i))]
<1>1. Cardinality(P) \in Nat
  BY FS_CardinalityType
<1>2. \A i \in P : IsFiniteSet(UpTo(i)) /\ Cardinality(UpTo(i)) \in 1..Cardinality(P)
  <2> TAKE i \in P
  <2>1. UpTo(i) \in SUBSET P /\ UpTo(i) # {}
    OBVIOUS
  <2>2. /\ IsFiniteSet(UpTo(i)) /\ Cardinality(UpTo(i)) <= Cardinality(P)
        /\ Cardinality(UpTo(i)) \in Nat /\ Cardinality(UpTo(i)) # 0
    BY <2>1, FS_Subset, FS_CardinalityType, FS_EmptySet
  <2> QED BY <1>1, <2>2
<1>3. rank \in Injection(P, 1..Cardinality(P))
  <2>1. ASSUME NEW i \in P, NEW k \in P, i < k PROVE rank[i] # rank[k]
    <3>1. \A j \in UpTo(i) : j \in UpTo(k)
      <4> TAKE j \in UpTo(i)
      <4>1. j \in P /\ j <= i /\ j \in Nat /\ i \in Nat /\ k \in Nat
        OBVIOUS
      <4>2. j <= k
        BY <4>1, <2>1
      <4> QED BY <4>1, <4>2
    <3>2. k \in UpTo(k) /\ k \notin UpTo(i)
      <4>1. i \in Nat /\ k \in Nat
        OBVIOUS
      <4> QED BY <4>1, <2>1
    <3>3. UpTo(i) \in SUBSET UpTo(k) /\ UpTo(i) # UpTo(k)
      BY <3>1, <3>2
    <3> QED BY <1>2, <3>3, FS_Subset
  <2>2. rank \in [P -> 1..Cardinality(P)]
    BY <1>2
  <2>3. ASSUME NEW i \in P, NEW k \in P, rank[i] = rank[k] PROVE i = k
    <3>1. i \in Nat /\ k \in Nat /\ ~(i < k) /\ ~(k < i)
      BY <2>1, <2>3
    <3> QED BY <3>1
  <2> HIDE DEF rank
  <2> QED BY <2>2, <2>3 DEF Injection, IsInjective
<1>4. \A n \in 1..Cardinality(P) : \E i \in P : Cardinality(UpTo(i)) = n
  <2>1. IsFiniteSet(1..Cardinality(P)) /\ Cardinality(1..Cardinality(P)) = Cardinality(P)
    BY <1>1, FS_Interval
  <2>2. rank \in Surjection(P, 1..Cardinality(P))
    <3> HIDE DEF rank
    <3> QED BY <1>3, <2>1, FS_Injection
  <2>3. \A n \in 1..Cardinality(P) : \E i \in P : rank[i] = n
    <3> HIDE DEF rank
    <3> QED BY <2>2 DEF Surjection
  <2> QED BY <2>3
<1>5. \A n \in 1..Cardinality(P) : Nth(P, n) \in P /\ Cardinality(UpTo(Nth(P, n))) = n
  BY <1>4 DEF Nth
<1>6. \A i, k \in P : Cardinality(UpTo(i)) = Cardinality(UpTo(k)) => i = k
  <2>1. \A i, k \in P : rank[i] = rank[k] => i = k
    <3> HIDE DEF rank
    <3> QED BY <1>3 DEF Injection, IsInjective
  <2> QED BY <2>1
<1>7. \A i \in P : \E n \in 1..Cardinality(P) : Nth(P, n) = i
  <2> TAKE i \in P
  <2>1. Cardinality(UpTo(i)) \in 1..Cardinality(P)
    BY <1>2
  <2> HIDE DEF UpTo
  <2> WITNESS Cardinality(UpTo(i)) \in 1..Cardinality(P)
  <2> QED BY <1>5, <1>6, <2>1
<1>8. \A m, n \in 1..Cardinality(P) : Nth(P, m) = Nth(P, n) => m = n
  BY <1>5
<1> HIDE DEF UpTo, rank
<1> QED BY <1>1, <1>5, <1>7, <1>8

\* What Kept returns has the members of the sequence at the positions, once.
LEMMA KeptMembers ==
    ASSUME NEW S, NEW s \in Seq(S), NEW P \in SUBSET (DOMAIN s)
    PROVE  /\ Kept(s, P) \in Seq(S)
           /\ Len(Kept(s, P)) = Cardinality(P)
           /\ DOMAIN Kept(s, P) = 1..Cardinality(P)
           /\ \A n \in DOMAIN Kept(s, P) : /\ Nth(P, n) \in P
                                           /\ Kept(s, P)[n] = s[Nth(P, n)]
           /\ \A m, n \in DOMAIN Kept(s, P) : Nth(P, m) = Nth(P, n) => m = n
           /\ \A i \in P : \E n \in DOMAIN Kept(s, P) : Nth(P, n) = i
<1>1. Len(s) \in Nat /\ DOMAIN s = 1..Len(s) /\ \A i \in 1..Len(s) : s[i] \in S
  OBVIOUS
<1>2. IsFiniteSet(1..Len(s))
  BY <1>1, FS_Interval
<1>3. P \in SUBSET Nat /\ P \in SUBSET (1..Len(s))
  BY <1>1
<1>4. IsFiniteSet(P)
  BY <1>2, <1>3, FS_Subset
<1>5. /\ Cardinality(P) \in Nat
      /\ \A n \in 1..Cardinality(P) : Nth(P, n) \in P
      /\ \A m, n \in 1..Cardinality(P) : Nth(P, m) = Nth(P, n) => m = n
      /\ \A i \in P : \E n \in 1..Cardinality(P) : Nth(P, n) = i
  BY <1>3, <1>4, NthCountsThrough
<1>6. \A n \in 1..Cardinality(P) : s[Nth(P, n)] \in S
  BY <1>1, <1>3, <1>5
<1>7. Kept(s, P) = [n \in 1..Cardinality(P) |-> s[Nth(P, n)]]
  BY DEF Kept
<1>8. Kept(s, P) \in Seq(S) /\ Len(Kept(s, P)) = Cardinality(P)
  BY <1>5, <1>6, <1>7
<1>9. DOMAIN Kept(s, P) = 1..Cardinality(P)
  BY <1>7
<1> QED BY <1>5, <1>7, <1>8, <1>9

LEMMA KeptRange ==
    ASSUME NEW S, NEW s \in Seq(S), NEW P \in SUBSET (DOMAIN s)
    PROVE  /\ Kept(s, P) \in Seq(S)
           /\ ToSet(Kept(s, P)) = {s[i] : i \in P}
           /\ IsInjective(s) => IsInjective(Kept(s, P))
<1> DEFINE k == Kept(s, P)
<1>1. /\ k \in Seq(S)
      /\ \A n \in DOMAIN k : Nth(P, n) \in P /\ k[n] = s[Nth(P, n)]
      /\ \A m, n \in DOMAIN k : Nth(P, m) = Nth(P, n) => m = n
      /\ \A i \in P : \E n \in DOMAIN k : Nth(P, n) = i
  BY KeptMembers
<1> HIDE DEF k
<1>2. \A x \in ToSet(k) : x \in {s[i] : i \in P}
  BY <1>1 DEF ToSet
<1>3. \A i \in P : s[i] \in ToSet(k)
  BY <1>1 DEF ToSet
<1>4. IsInjective(s) => IsInjective(k)
  BY <1>1 DEF IsInjective
<1>5. ToSet(k) = {s[i] : i \in P}
  BY <1>2, <1>3
<1> QED BY <1>1, <1>4, <1>5 DEF k

\* Where the members of a sequence are once one is taken out or put in.
LEMMA RemoveAtMembers ==
    ASSUME NEW S, NEW s \in Seq(S), NEW i \in DOMAIN s
    PROVE  /\ RemoveAt(s, i) \in Seq(S)
           /\ Len(RemoveAt(s, i)) = Len(s) - 1
           /\ DOMAIN RemoveAt(s, i) = 1..Len(s) - 1
           /\ \A k \in 1..Len(s) - 1 :
                 RemoveAt(s, i)[k] = s[IF k < i THEN k ELSE k + 1]
<1> DEFINE a == SubSeq(s, 1, i - 1)
           b == SubSeq(s, i + 1, Len(s))
<1>0. Len(s) \in Nat /\ i \in 1..Len(s) /\ \A k \in 1..Len(s) : s[k] \in S
  OBVIOUS
<1>1. /\ a \in Seq(S) /\ Len(a) = i - 1 /\ \A k \in 1..i - 1 : a[k] = s[k]
  BY <1>0
<1>2. /\ b \in Seq(S) /\ Len(b) = Len(s) - i /\ \A k \in 1..Len(s) - i : b[k] = s[i + k]
  BY <1>0
<1> HIDE DEF a, b
<1>3. /\ a \o b \in Seq(S) /\ Len(a \o b) = Len(a) + Len(b)
      /\ \A k \in 1..Len(a) + Len(b) : (a \o b)[k] = IF k <= Len(a) THEN a[k] ELSE b[k - Len(a)]
  BY <1>1, <1>2, ConcatProperties
<1>4. Len(a) + Len(b) = Len(s) - 1
  BY <1>0, <1>1, <1>2
<1>5. ASSUME NEW k \in 1..Len(s) - 1
      PROVE  (a \o b)[k] = s[IF k < i THEN k ELSE k + 1]
  <2>1. (a \o b)[k] = IF k <= i - 1 THEN a[k] ELSE b[k - (i - 1)]
    BY <1>1, <1>3, <1>4
  <2>2. CASE k < i
    <3>1. k <= i - 1 /\ k \in 1..i - 1
      BY <1>0, <2>2
    <3> QED BY <1>1, <2>1, <2>2, <3>1
  <2>3. CASE ~(k < i)
    <3>1. /\ ~(k <= i - 1) /\ k - (i - 1) \in 1..Len(s) - i
          /\ i + (k - (i - 1)) = k + 1
      BY <1>0, <2>3
    <3>2. b[k - (i - 1)] = s[i + (k - (i - 1))]
      BY <1>2, <3>1
    <3> QED BY <2>1, <2>3, <3>1, <3>2
  <2> QED BY <2>2, <2>3
<1>6. DOMAIN (a \o b) = 1..Len(s) - 1
  BY <1>3, <1>4
<1>7. RemoveAt(s, i) = a \o b
  BY DEF RemoveAt, a, b
<1> QED BY <1>3, <1>4, <1>5, <1>6, <1>7

LEMMA InsertAtMembers ==
    ASSUME NEW S, NEW s \in Seq(S), NEW i \in 1..Len(s) + 1, NEW e \in S
    PROVE  /\ InsertAt(s, i, e) \in Seq(S)
           /\ DOMAIN InsertAt(s, i, e) = 1..Len(s) + 1
           /\ InsertAt(s, i, e)[i] = e
           /\ \A k \in 1..Len(s) + 1 : k < i => InsertAt(s, i, e)[k] = s[k]
           /\ \A k \in 1..Len(s) + 1 : k > i => InsertAt(s, i, e)[k] = s[k - 1]
<1> DEFINE a == SubSeq(s, 1, i - 1)
           b == SubSeq(s, i, Len(s))
           ae == a \o <<e>>
<1>0. Len(s) \in Nat /\ i \in 1..Len(s) + 1 /\ \A k \in 1..Len(s) : s[k] \in S
  OBVIOUS
<1>1. a \in Seq(S) /\ Len(a) = i - 1 /\ \A k \in 1..i - 1 : a[k] = s[k]
  BY <1>0
<1>2. /\ b \in Seq(S) /\ Len(b) = Len(s) - i + 1
      /\ \A k \in 1..Len(s) - i + 1 : b[k] = s[i + k - 1]
  BY <1>0
<1>3. <<e>> \in Seq(S) /\ Len(<<e>>) = 1 /\ <<e>>[1] = e
  OBVIOUS
<1> HIDE DEF a, b
<1>4. /\ ae \in Seq(S) /\ Len(ae) = i
      /\ \A k \in 1..i : ae[k] = IF k = i THEN e ELSE s[k]
  <2>1. /\ ae \in Seq(S) /\ Len(ae) = Len(a) + 1
        /\ \A k \in 1..Len(a) + 1 : ae[k] = IF k <= Len(a) THEN a[k] ELSE <<e>>[k - Len(a)]
    BY <1>1, <1>3, ConcatProperties
  <2>2. Len(a) + 1 = i
    BY <1>0, <1>1
  <2>3. ASSUME NEW k \in 1..i PROVE ae[k] = IF k = i THEN e ELSE s[k]
    <3>1. CASE k = i
      <4>1. ~(k <= Len(a)) /\ k - Len(a) = 1
        BY <1>0, <1>1, <3>1
      <4> QED BY <1>3, <2>1, <2>2, <3>1, <4>1
    <3>2. CASE k # i
      <4>1. k <= Len(a) /\ k \in 1..i - 1
        BY <1>0, <1>1, <3>2
      <4> QED BY <1>1, <2>1, <2>2, <3>2, <4>1
    <3> QED BY <3>1, <3>2
  <2> QED BY <2>1, <2>2, <2>3
<1> HIDE DEF ae
<1>5. /\ ae \o b \in Seq(S) /\ Len(ae \o b) = Len(ae) + Len(b)
      /\ \A k \in 1..Len(ae) + Len(b) : (ae \o b)[k] = IF k <= Len(ae) THEN ae[k] ELSE b[k - Len(ae)]
  BY <1>2, <1>4, ConcatProperties
<1>6. Len(ae) + Len(b) = Len(s) + 1
  BY <1>0, <1>2, <1>4
<1>7. ASSUME NEW k \in 1..Len(s) + 1
      PROVE  (ae \o b)[k] = IF k < i THEN s[k] ELSE IF k = i THEN e ELSE s[k - 1]
  <2>1. (ae \o b)[k] = IF k <= i THEN ae[k] ELSE b[k - i]
    BY <1>4, <1>5, <1>6
  <2>2. CASE k <= i
    <3>1. k \in 1..i
      BY <1>0, <2>2
    <3> QED BY <1>0, <1>4, <2>1, <2>2, <3>1
  <2>3. CASE ~(k <= i)
    <3>1. k - i \in 1..Len(s) - i + 1 /\ i + (k - i) - 1 = k - 1 /\ ~(k < i) /\ k # i
      BY <1>0, <2>3
    <3> QED BY <1>2, <2>1, <2>3, <3>1
  <2> QED BY <2>2, <2>3
<1>8. DOMAIN (ae \o b) = 1..Len(s) + 1
  BY <1>5, <1>6
<1>9. /\ (ae \o b)[i] = e
      /\ \A k \in 1..Len(s) + 1 : k < i => (ae \o b)[k] = s[k]
      /\ \A k \in 1..Len(s) + 1 : k > i => (ae \o b)[k] = s[k - 1]
  <2> DEFINE r == ae \o b
  <2>1. \A k \in 1..Len(s) + 1 : r[k] = IF k < i THEN s[k] ELSE IF k = i THEN e ELSE s[k - 1]
    BY <1>7
  <2> HIDE DEF r
  <2>2. /\ r[i] = e
        /\ \A k \in 1..Len(s) + 1 : k < i => r[k] = s[k]
        /\ \A k \in 1..Len(s) + 1 : k > i => r[k] = s[k - 1]
    BY <1>0, <2>1
  <2> QED BY <2>2 DEF r
<1>10. InsertAt(s, i, e) = ae \o b
  BY DEF InsertAt, ae, a, b
<1> QED BY <1>5, <1>8, <1>9, <1>10

\* Where the members of a list stood before one of them was taken out.
OldAt(i, k) == IF k < i THEN k ELSE k + 1

LEMMA RemovedPlaces ==
    ASSUME NEW S, NEW s \in Seq(S), NEW i \in DOMAIN s
    PROVE  LET r == RemoveAt(s, i) IN
           /\ r \in Seq(S) /\ Len(r) = Len(s) - 1 /\ DOMAIN r = 1..Len(s) - 1
           /\ \A k \in DOMAIN r : /\ r[k] = s[OldAt(i, k)]
                                 /\ OldAt(i, k) \in DOMAIN s /\ OldAt(i, k) # i
           /\ \A k, m \in DOMAIN r : OldAt(i, k) = OldAt(i, m) => k = m
           /\ \A j \in DOMAIN s : j # i => \E k \in DOMAIN r : OldAt(i, k) = j
<1> DEFINE r == RemoveAt(s, i)
           was(k) == OldAt(i, k)
<1>1. /\ r \in Seq(S) /\ Len(r) = Len(s) - 1 /\ DOMAIN r = 1..Len(s) - 1
      /\ \A k \in 1..Len(s) - 1 : r[k] = s[was(k)]
  BY RemoveAtMembers DEF OldAt
<1>2. Len(s) \in Nat /\ DOMAIN s = 1..Len(s) /\ i \in 1..Len(s)
  OBVIOUS
<1>3. /\ \A k \in 1..Len(s) - 1 : was(k) \in DOMAIN s /\ was(k) # i
      /\ \A k, m \in 1..Len(s) - 1 : was(k) = was(m) => k = m
      /\ \A j \in DOMAIN s : j # i => \E k \in 1..Len(s) - 1 : was(k) = j
  <2>1. \A k \in 1..Len(s) - 1 : was(k) \in DOMAIN s /\ was(k) # i
    BY <1>2 DEF OldAt
  <2>2. \A k, m \in 1..Len(s) - 1 : was(k) = was(m) => k = m
    BY <1>2 DEF OldAt
  <2>3. ASSUME NEW j \in DOMAIN s, j # i PROVE \E k \in 1..Len(s) - 1 : was(k) = j
    <3>1. CASE j < i
      <4>1. j \in 1..Len(s) - 1 /\ was(j) = j
        BY <1>2, <3>1 DEF OldAt
      <4> QED BY <4>1
    <3>2. CASE ~(j < i)
      <4>1. j - 1 \in 1..Len(s) - 1 /\ was(j - 1) = j
        BY <1>2, <2>3, <3>2 DEF OldAt
      <4> QED BY <4>1
    <3> QED BY <3>1, <3>2
  <2> QED BY <2>1, <2>2, <2>3
<1>4. /\ \A k \in DOMAIN r : r[k] = s[was(k)] /\ was(k) \in DOMAIN s /\ was(k) # i
      /\ \A k, m \in DOMAIN r : was(k) = was(m) => k = m
      /\ \A j \in DOMAIN s : j # i => \E k \in DOMAIN r : was(k) = j
  <2> HIDE DEF r, was
  <2> QED BY <1>1, <1>3
<1> QED BY <1>1, <1>4

\* Where they stood before one was put in.
OldBefore(i, k) == IF k < i THEN k ELSE k - 1

LEMMA InsertedPlaces ==
    ASSUME NEW S, NEW s \in Seq(S), NEW i \in 1..Len(s) + 1, NEW e \in S
    PROVE  LET r == InsertAt(s, i, e) IN
           /\ r \in Seq(S) /\ DOMAIN r = 1..Len(s) + 1
           /\ i \in DOMAIN r /\ r[i] = e
           /\ \A k \in DOMAIN r : k # i => /\ r[k] = s[OldBefore(i, k)]
                                         /\ OldBefore(i, k) \in DOMAIN s
           /\ \A k, m \in DOMAIN r :
                 k # i /\ m # i /\ OldBefore(i, k) = OldBefore(i, m) => k = m
           /\ \A j \in DOMAIN s : \E k \in DOMAIN r : k # i /\ OldBefore(i, k) = j
<1> DEFINE r == InsertAt(s, i, e)
           was(k) == IF k < i THEN k ELSE k - 1
<1>1. /\ r \in Seq(S) /\ DOMAIN r = 1..Len(s) + 1
      /\ \A k \in 1..Len(s) + 1 : r[k] = IF k = i THEN e ELSE s[was(k)]
  <2>1. /\ r \in Seq(S) /\ DOMAIN r = 1..Len(s) + 1 /\ r[i] = e
        /\ \A k \in 1..Len(s) + 1 : k < i => r[k] = s[k]
        /\ \A k \in 1..Len(s) + 1 : k > i => r[k] = s[k - 1]
    BY InsertAtMembers
  <2>2. \A k \in 1..Len(s) + 1 : k < i \/ k = i \/ k > i
    BY i \in Nat, Len(s) \in Nat
  <2>3. \A k \in 1..Len(s) + 1 : k > i => ~(k < i)
    BY i \in Nat, Len(s) \in Nat
  <2> HIDE DEF r
  <2> QED BY <2>1, <2>2, <2>3
<1>2. Len(s) \in Nat /\ DOMAIN s = 1..Len(s) /\ i \in 1..Len(s) + 1
  OBVIOUS
<1>3. /\ \A k \in 1..Len(s) + 1 : k # i => was(k) \in DOMAIN s
      /\ \A k, m \in 1..Len(s) + 1 : k # i /\ m # i /\ was(k) = was(m) => k = m
      /\ \A j \in DOMAIN s : \E k \in 1..Len(s) + 1 : k # i /\ was(k) = j
  <2>1. \A k \in 1..Len(s) + 1 : k # i => was(k) \in DOMAIN s
    BY <1>2
  <2>2. \A k, m \in 1..Len(s) + 1 : k # i /\ m # i /\ was(k) = was(m) => k = m
    BY <1>2
  <2>3. ASSUME NEW j \in DOMAIN s
        PROVE  \E k \in 1..Len(s) + 1 : k # i /\ was(k) = j
    <3>1. CASE j < i
      <4>1. j \in 1..Len(s) + 1 /\ j # i /\ was(j) = j
        BY <1>2, <3>1
      <4> QED BY <4>1
    <3>2. CASE ~(j < i)
      <4>1. j + 1 \in 1..Len(s) + 1 /\ j + 1 # i
        BY <1>2, <3>2
      <4>2. was(j + 1) = j
        BY <1>2, <3>2
      <4> QED BY <4>1, <4>2
    <3> QED BY <3>1, <3>2
  <2> QED BY <2>1, <2>2, <2>3
<1>4. i \in DOMAIN r /\ r[i] = e
  BY <1>1, <1>2
<1> HIDE DEF r, was
<1>5. \A k : OldBefore(i, k) = was(k)
  BY DEF OldBefore, was
<1> QED BY <1>1, <1>3, <1>4, <1>5, SMTT(30) DEF r


\* The first place of what is looked for.
LEMMA PlaceOfName ==
    ASSUME NEW S, NEW s \in Seq(S), NEW f
    PROVE  /\ IndexOf(s, f) \in 0..Len(s)
           /\ f \in ToSet(s) => /\ IndexOf(s, f) \in DOMAIN s
                                /\ s[IndexOf(s, f)] = f
<1> DEFINE I == {i \in 1..Len(s) : s[i] = f}
           at == IndexOf(s, f)
<1>1. Len(s) \in Nat /\ DOMAIN s = 1..Len(s) /\ I \in SUBSET Nat
  OBVIOUS
<1>2. at = IF I # {} THEN Min(I) ELSE 0
  BY DEF IndexOf, SelectInSeq
<1>3. f \in ToSet(s) => I # {}
  BY <1>1 DEF ToSet
<1>4. I # {} => Min(I) \in I
  <2>1. I # {} => \E x \in I : \A y \in I : x <= y
    BY <1>1, LeastMember
  <2> HIDE DEF I
  <2> QED BY <2>1 DEF Min
<1>5. \A i \in I : i \in 1..Len(s) /\ s[i] = f
  OBVIOUS
<1> HIDE DEF I, at
<1>6. /\ at \in 0..Len(s)
      /\ f \in ToSet(s) => at \in DOMAIN s /\ s[at] = f
  <2>1. CASE I # {}
    <3>1. at \in I
      BY <1>2, <1>4, <2>1
    <3> QED BY <1>1, <1>3, <1>5, <2>1, <3>1
  <2>2. CASE I = {}
    <3>1. at = 0
      BY <1>2, <2>2
    <3> QED BY <1>1, <1>3, <2>2, <3>1
  <2> QED BY <2>1, <2>2
<1> QED BY <1>6 DEF at

\* What two lists one after the other have.
LEMMA JoinedMembers ==
    ASSUME NEW S, NEW a \in Seq(S), NEW b \in Seq(S)
    PROVE  LET c == a \o b IN
           /\ c \in Seq(S)
           /\ \A k \in DOMAIN a : k \in DOMAIN c /\ c[k] = a[k]
           /\ \A k \in DOMAIN b : Len(a) + k \in DOMAIN c /\ c[Len(a) + k] = b[k]
           /\ \A k \in DOMAIN c : \/ k \in DOMAIN a
                                  \/ \E m \in DOMAIN b : k = Len(a) + m
<1> DEFINE c == a \o b
<1>1. /\ Len(a) \in Nat /\ DOMAIN a = 1..Len(a)
      /\ Len(b) \in Nat /\ DOMAIN b = 1..Len(b)
  OBVIOUS
<1>2. /\ c \in Seq(S) /\ Len(c) = Len(a) + Len(b)
      /\ \A k \in 1..Len(a) + Len(b) : c[k] = IF k <= Len(a) THEN a[k] ELSE b[k - Len(a)]
  BY ConcatProperties
<1>3. DOMAIN c = 1..Len(a) + Len(b)
  BY <1>1, <1>2
<1> HIDE DEF c
<1>4. \A k \in DOMAIN a : k \in DOMAIN c /\ c[k] = a[k]
  BY <1>1, <1>2, <1>3
<1>5. ASSUME NEW k \in DOMAIN b PROVE Len(a) + k \in DOMAIN c /\ c[Len(a) + k] = b[k]
  <2>1. /\ Len(a) + k \in 1..Len(a) + Len(b) /\ ~(Len(a) + k <= Len(a))
        /\ (Len(a) + k) - Len(a) = k
    BY <1>1
  <2> QED BY <1>2, <1>3, <2>1
<1>6. ASSUME NEW k \in DOMAIN c, k \notin DOMAIN a PROVE \E m \in DOMAIN b : k = Len(a) + m
  <2>1. k - Len(a) \in 1..Len(b) /\ k = Len(a) + (k - Len(a))
    BY <1>1, <1>3, <1>6
  <2> QED BY <1>1, <2>1
<1> QED BY <1>2, <1>4, <1>5, <1>6 DEF c

LEMMA JoinedSets ==
    ASSUME NEW S, NEW a \in Seq(S), NEW b \in Seq(S)
    PROVE  /\ a \o b \in Seq(S)
           /\ ToSet(a \o b) = ToSet(a) \cup ToSet(b)
           /\ IsInjective(a) /\ IsInjective(b) /\ ToSet(a) \cap ToSet(b) = {}
                 => IsInjective(a \o b)
<1> DEFINE c == a \o b
<1>1. /\ c \in Seq(S)
      /\ \A k \in DOMAIN a : k \in DOMAIN c /\ c[k] = a[k]
      /\ \A k \in DOMAIN b : Len(a) + k \in DOMAIN c /\ c[Len(a) + k] = b[k]
      /\ \A k \in DOMAIN c : \/ k \in DOMAIN a
                             \/ \E m \in DOMAIN b : k = Len(a) + m
  BY JoinedMembers
<1> HIDE DEF c
<1>2. \A k \in DOMAIN c : c[k] \in ToSet(a) \cup ToSet(b)
  BY <1>1 DEF ToSet
<1>3. ToSet(a) \subseteq ToSet(c) /\ ToSet(b) \subseteq ToSet(c)
  BY <1>1 DEF ToSet
<1>4. ToSet(c) = ToSet(a) \cup ToSet(b)
  BY <1>2, <1>3 DEF ToSet
<1>5. ASSUME IsInjective(a), IsInjective(b), ToSet(a) \cap ToSet(b) = {}
      PROVE  IsInjective(c)
  <2>1. \A k \in DOMAIN a : \A m \in DOMAIN b : a[k] # b[m]
    BY <1>5 DEF ToSet
  <2>2. \A k, m \in DOMAIN a : a[k] = a[m] => k = m
    BY <1>5 DEF IsInjective
  <2>3. \A k, m \in DOMAIN b : b[k] = b[m] => k = m
    BY <1>5 DEF IsInjective
  <2> SUFFICES ASSUME NEW k \in DOMAIN c, NEW m \in DOMAIN c, c[k] = c[m]
               PROVE  k = m
    BY DEF IsInjective
  <2>4. CASE k \in DOMAIN a /\ m \in DOMAIN a
    BY <1>1, <2>2, <2>4
  <2>5. CASE k \in DOMAIN a /\ m \notin DOMAIN a
    BY <1>1, <2>1, <2>5
  <2>6. CASE k \notin DOMAIN a /\ m \in DOMAIN a
    BY <1>1, <2>1, <2>6
  <2>7. CASE k \notin DOMAIN a /\ m \notin DOMAIN a
    <3>1. PICK k2 \in DOMAIN b : k = Len(a) + k2
      BY <1>1, <2>7
    <3>2. PICK m2 \in DOMAIN b : m = Len(a) + m2
      BY <1>1, <2>7
    <3>3. b[k2] = b[m2]
      BY <1>1, <3>1, <3>2
    <3> QED BY <2>3, <3>1, <3>2, <3>3
  <2> QED BY <2>4, <2>5, <2>6, <2>7
<1> QED BY <1>1, <1>4, <1>5 DEF c

-----------------------------------------------------------------------------
(* Images                                                                  *)

LEMMA IdsAreFinite ==
    /\ MaxId \in Nat /\ Ids \subseteq Nat \ {0} /\ IsFiniteSet(Ids)
    /\ \A S \in SUBSET Ids : S \in SUBSET Nat /\ IsFiniteSet(S) /\ Cardinality(S) \in Nat
    /\ None \notin Ids
<1>1. Len(Initial) \in Nat /\ MaxAsked \in Nat /\ MaxCalls \in Nat
  BY RecentAssumption
<1>2. MaxId \in Nat
  BY <1>1 DEF MaxId
<1>3. IsFiniteSet(Ids)
  BY <1>2, FS_Interval DEF Ids
<1>4. \A S \in SUBSET Ids : IsFiniteSet(S) /\ Cardinality(S) \in Nat
  BY <1>3, FS_Subset, FS_CardinalityType
<1> QED BY <1>2, <1>3, <1>4 DEF Ids, None

LEMMA SetsOfImages ==
    ASSUME NEW s
    PROVE  /\ IdsOf(s) = {x.id : x \in ToSet(s)}
           /\ BatchesOf(s) = {x.batch : x \in ToSet(s)}
           /\ \A b : IdsIn(s, b) = {x.id : x \in {y \in ToSet(s) : y.batch = b}}
<1>1. IdsOf(s) = {x.id : x \in ToSet(s)}
  BY DEF IdsOf, ToSet
<1>2. BatchesOf(s) = {x.batch : x \in ToSet(s)}
  BY DEF BatchesOf, ToSet
<1>3. ASSUME NEW b PROVE IdsIn(s, b) = {x.id : x \in {y \in ToSet(s) : y.batch = b}}
  <2>1. \A n \in IdsIn(s, b) : \E x \in ToSet(s) : x.batch = b /\ n = x.id
    BY DEF IdsIn, ToSet
  <2>2. \A x \in ToSet(s) : x.batch = b => x.id \in IdsIn(s, b)
    BY DEF IdsIn, ToSet
  <2> QED BY <2>1, <2>2
<1> QED BY <1>1, <1>2, <1>3

LEMMA UniqueImages ==
    ASSUME NEW s, UniqueIds(s)
    PROVE  /\ IsInjective(s)
           /\ \A x, y \in ToSet(s) : x.id = y.id => x = y
<1>1. IsInjective(s)
  BY DEF UniqueIds, IsInjective
<1>2. \A x, y \in ToSet(s) : x.id = y.id => x = y
  BY DEF UniqueIds, ToSet
<1> QED BY <1>1, <1>2

LEMMA UniqueFromSet ==
    ASSUME NEW s, IsInjective(s), \A x, y \in ToSet(s) : x.id = y.id => x = y
    PROVE  UniqueIds(s)
<1>1. \A i \in DOMAIN s : s[i] \in ToSet(s)
  BY DEF ToSet
<1>2. ASSUME NEW i \in DOMAIN s, NEW j \in DOMAIN s, s[i].id = s[j].id
      PROVE  i = j
  <2>1. s[i] = s[j]
    BY <1>1, <1>2
  <2> QED BY <2>1 DEF IsInjective
<1> QED BY <1>2 DEF UniqueIds

LEMMA JoinedImages ==
    ASSUME NEW a \in Seq(Images), NEW b \in Seq(Images),
           UniqueIds(a), UniqueIds(b), IdsOf(a) \cap IdsOf(b) = {}
    PROVE  /\ a \o b \in Seq(Images) /\ UniqueIds(a \o b)
           /\ ToSet(a \o b) = ToSet(a) \cup ToSet(b)
<1> DEFINE c == a \o b
<1>1. \A x \in ToSet(a) : \A y \in ToSet(b) : x.id # y.id
  BY SetsOfImages
<1>2. /\ IsInjective(a) /\ \A x, y \in ToSet(a) : x.id = y.id => x = y
      /\ IsInjective(b) /\ \A x, y \in ToSet(b) : x.id = y.id => x = y
  BY UniqueImages
<1>3. ToSet(a) \cap ToSet(b) = {}
  BY <1>1
<1>4. c \in Seq(Images) /\ ToSet(c) = ToSet(a) \cup ToSet(b) /\ IsInjective(c)
  BY <1>2, <1>3, JoinedSets
<1> HIDE DEF c
<1>5. \A x, y \in ToSet(c) : x.id = y.id => x = y
  BY <1>1, <1>2, <1>4
<1>6. UniqueIds(c)
  BY <1>4, <1>5, UniqueFromSet
<1> QED BY <1>4, <1>6 DEF c

LEMMA KeptImages ==
    ASSUME NEW s \in Seq(Images), NEW P \in SUBSET (DOMAIN s)
    PROVE  /\ Kept(s, P) \in Seq(Images)
           /\ ToSet(Kept(s, P)) = {s[i] : i \in P}
           /\ ToSet(Kept(s, P)) \subseteq ToSet(s)
           /\ UniqueIds(s) => UniqueIds(Kept(s, P))
<1> DEFINE k == Kept(s, P)
<1>1. /\ k \in Seq(Images)
      /\ ToSet(k) = {s[i] : i \in P}
      /\ IsInjective(s) => IsInjective(k)
  BY KeptRange
<1> HIDE DEF k
<1>2. ToSet(k) \subseteq ToSet(s)
  BY <1>1 DEF ToSet
<1>3. ASSUME UniqueIds(s) PROVE UniqueIds(k)
  <2>1. IsInjective(s) /\ \A x, y \in ToSet(s) : x.id = y.id => x = y
    BY <1>3, UniqueImages
  <2>2. \A x, y \in ToSet(k) : x.id = y.id => x = y
    BY <1>2, <2>1
  <2> QED BY <1>1, <2>1, <2>2, UniqueFromSet
<1> QED BY <1>1, <1>2, <1>3 DEF k

LEMMA WithoutImages ==
    ASSUME NEW s \in Seq(Images), NEW S
    PROVE  /\ Without(s, S) \in Seq(Images)
           /\ ToSet(Without(s, S)) = {x \in ToSet(s) : x.id \notin S}
           /\ UniqueIds(s) => UniqueIds(Without(s, S))
<1> DEFINE P == {i \in DOMAIN s : s[i].id \notin S}
<1>1. Without(s, S) = Kept(s, P) /\ P \in SUBSET (DOMAIN s)
  BY DEF Without
<1>2. {s[i] : i \in P} = {x \in ToSet(s) : x.id \notin S}
  BY DEF ToSet
<1> HIDE DEF P
<1> QED BY <1>1, <1>2, KeptImages

\* Images made anew are one for each id.
LEMMA MadeImages ==
    ASSUME NEW ids \in SUBSET Ids, NEW b \in Batches, NEW kind \in Kinds
    PROVE  /\ Make(ids, b, kind) \in Seq(Images)
           /\ UniqueIds(Make(ids, b, kind))
           /\ ToSet(Make(ids, b, kind)) = {[id |-> id, batch |-> b, kind |-> kind] : id \in ids}
           /\ IdsOf(Make(ids, b, kind)) = ids
           /\ Len(Make(ids, b, kind)) = Cardinality(ids)
<1> DEFINE m == Make(ids, b, kind)
           n == Cardinality(ids)
           image(id) == [id |-> id, batch |-> b, kind |-> kind]
<1>1. ids \in SUBSET Nat /\ IsFiniteSet(ids) /\ n \in Nat
  BY IdsAreFinite
<1>2. /\ \A i \in 1..n : Nth(ids, i) \in ids
      /\ \A i, j \in 1..n : Nth(ids, i) = Nth(ids, j) => i = j
      /\ \A id \in ids : \E i \in 1..n : Nth(ids, i) = id
  BY <1>1, NthCountsThrough
<1>3. m = [i \in 1..n |-> image(Nth(ids, i))]
  BY DEF Make
<1>4. \A id \in ids : image(id) \in Images
  BY DEF Images
<1>5. \A id \in ids : image(id).id = id
  OBVIOUS
<1> HIDE DEF m, n, image
<1>6. m \in Seq(Images) /\ Len(m) = n /\ DOMAIN m = 1..n
  <2>1. \A i \in 1..n : image(Nth(ids, i)) \in Images
    BY <1>2, <1>4
  <2>2. m \in [1..n -> Images]
    BY <1>3, <2>1
  <2> QED BY <1>1, <2>2
<1>7. \A i \in 1..n : m[i] = image(Nth(ids, i))
  BY <1>3
<1>8. ToSet(m) = {image(id) : id \in ids}
  <2>1. \A i \in DOMAIN m : m[i] \in {image(id) : id \in ids}
    BY <1>2, <1>6, <1>7
  <2>2. \A id \in ids : image(id) \in ToSet(m)
    BY <1>2, <1>6, <1>7 DEF ToSet
  <2> QED BY <2>1, <2>2 DEF ToSet
<1>9. UniqueIds(m)
  BY <1>2, <1>5, <1>6, <1>7 DEF UniqueIds
<1>10. IdsOf(m) = ids
  <2>1. IdsOf(m) = {x.id : x \in ToSet(m)}
    BY SetsOfImages
  <2> QED BY <1>5, <1>8, <2>1
<1> QED BY <1>6, <1>8, <1>9, <1>10 DEF m, n, image

\* Groups of images
LEMMA MinIsMember ==
    ASSUME NEW T \in SUBSET Nat, T # {}
    PROVE  Min(T) \in T
<1>1. \E x \in T : \A y \in T : x <= y
  BY LeastMember
<1> QED BY <1>1 DEF Min

LEMMA BatchIds ==
    ASSUME NEW s \in Seq(Images), NEW b
    PROVE  /\ IdsIn(s, b) \in SUBSET Ids
           /\ IdsIn(s, b) # {} <=> b \in BatchesOf(s)
           /\ BatchesOf(s) \subseteq Batches
           /\ b \in BatchesOf(s) => Min(IdsIn(s, b)) \in IdsIn(s, b)
<1>1. \A x \in ToSet(s) : x \in Images
  BY DEF ToSet
<1>2. IdsIn(s, b) \in SUBSET Ids
  BY <1>1, SetsOfImages DEF Images
<1>3. IdsIn(s, b) # {} <=> b \in BatchesOf(s)
  <2>1. ASSUME NEW i \in DOMAIN s, s[i].batch = b PROVE s[i].id \in IdsIn(s, b)
    BY <2>1 DEF IdsIn
  <2>2. b \in BatchesOf(s) => \E i \in DOMAIN s : s[i].batch = b
    BY DEF BatchesOf
  <2>3. IdsIn(s, b) # {} => \E i \in DOMAIN s : s[i].batch = b
    BY DEF IdsIn
  <2>4. (\E i \in DOMAIN s : s[i].batch = b) => b \in BatchesOf(s)
    BY DEF BatchesOf
  <2> QED BY <2>1, <2>2, <2>3, <2>4
<1>4. BatchesOf(s) \subseteq Batches
  BY <1>1, SetsOfImages DEF Images
<1>5. IdsIn(s, b) \in SUBSET Nat
  BY <1>2, IdsAreFinite
<1>6. b \in BatchesOf(s) => Min(IdsIn(s, b)) \in IdsIn(s, b)
  BY <1>3, <1>5, MinIsMember
<1> QED BY <1>2, <1>3, <1>4, <1>6

\* The n-th smallest for every n, as a sequence.
LEMMA GroupMembers ==
    ASSUME NEW s \in Seq(Images), NEW b
    PROVE  /\ Group(s, b) \in Seq(Ids)
           /\ DOMAIN Group(s, b) = 1..Cardinality(IdsIn(s, b))
           /\ Len(Group(s, b)) = Cardinality(IdsIn(s, b))
           /\ Cardinality(IdsIn(s, b)) \in Nat
           /\ ToSet(Group(s, b)) = IdsIn(s, b)
           /\ \A id \in IdsIn(s, b) : IndexOf(Group(s, b), id) \in DOMAIN Group(s, b)
<1> DEFINE ids == IdsIn(s, b)
           n   == Cardinality(ids)
           g   == Group(s, b)
<1>1. ids \in SUBSET Ids
  BY BatchIds
<1>2. ids \in SUBSET Nat /\ IsFiniteSet(ids) /\ n \in Nat
  BY <1>1, IdsAreFinite
<1>3. /\ \A i \in 1..n : Nth(ids, i) \in ids
      /\ \A id \in ids : \E i \in 1..n : Nth(ids, i) = id
  BY <1>2, NthCountsThrough
<1>4. g = [i \in 1..n |-> Nth(ids, i)]
  BY DEF Group
<1> HIDE DEF ids, n, g
<1>5. g \in Seq(Ids) /\ Len(g) = n /\ DOMAIN g = 1..n
  <2>1. g \in [1..n -> Ids]
    BY <1>1, <1>3, <1>4
  <2> QED BY <1>2, <2>1
<1>6. ToSet(g) = ids
  <2>1. \A i \in DOMAIN g : g[i] \in ids
    BY <1>3, <1>4, <1>5
  <2>2. \A id \in ids : id \in ToSet(g)
    BY <1>3, <1>4, <1>5 DEF ToSet
  <2> QED BY <2>1, <2>2 DEF ToSet
<1>7. \A id \in ids : IndexOf(g, id) \in DOMAIN g
  BY <1>5, <1>6, PlaceOfName
<1> QED BY <1>2, <1>5, <1>6, <1>7 DEF ids, n, g

LEMMA ImageOfId ==
    ASSUME NEW s, UniqueIds(s), NEW x \in ToSet(s)
    PROVE  Image(s, x.id) = x
<1>1. \A y \in ToSet(s) : y.id = x.id => y = x
  BY UniqueImages
<1> QED BY <1>1 DEF Image

\* The groups of a list are its batches, each once.
LEMMA NewestBatches ==
    ASSUME NEW s \in Seq(Images), UniqueIds(s)
    PROVE  /\ NewestFirst(s) \in Seq(Batches)
           /\ IsInjective(NewestFirst(s))
           /\ ToSet(NewestFirst(s)) = BatchesOf(s)
<1> DEFINE head(b) == Min(IdsIn(s, b))
           heads == {head(b) : b \in BatchesOf(s)}
           n == Cardinality(heads)
           batch(id) == Image(s, id).batch
           q == NewestFirst(s)
<1>1. \A b \in BatchesOf(s) : /\ b \in Batches /\ head(b) \in IdsIn(s, b)
                              /\ head(b) \in Ids
  BY BatchIds
<1>2. \A b \in BatchesOf(s) : batch(head(b)) = b
  <2> TAKE b \in BatchesOf(s)
  <2>1. head(b) \in {x.id : x \in {y \in ToSet(s) : y.batch = b}}
    BY <1>1, SetsOfImages
  <2> HIDE DEF head
  <2>2. PICK x \in ToSet(s) : x.batch = b /\ x.id = head(b)
    BY <2>1
  <2>3. Image(s, head(b)) = x
    BY <2>2, ImageOfId
  <2> QED BY <2>2, <2>3
<1> HIDE DEF head, batch
<1>3. heads \in SUBSET Ids
  BY <1>1
<1>4. heads \in SUBSET Nat /\ IsFiniteSet(heads) /\ n \in Nat
  BY <1>3, IdsAreFinite
<1>5. \A h \in heads : h = head(batch(h)) /\ batch(h) \in BatchesOf(s)
  BY <1>2
<1>6. \A b \in BatchesOf(s) : head(b) \in heads
  OBVIOUS
<1>7. q = [i \in 1..n |-> batch(Nth(heads, n + 1 - i))]
  BY DEF NewestFirst, head, batch
<1> HIDE DEF heads
<1>8. /\ \A i \in 1..n : Nth(heads, i) \in heads
      /\ \A i, j \in 1..n : Nth(heads, i) = Nth(heads, j) => i = j
      /\ \A h \in heads : \E i \in 1..n : Nth(heads, i) = h
  BY <1>4, NthCountsThrough
<1> HIDE DEF n, q
<1> DEFINE back(i) == n + 1 - i
<1>9. /\ \A i \in 1..n : back(i) \in 1..n
      /\ \A i, j \in 1..n : back(i) = back(j) => i = j
      /\ \A i \in 1..n : back(back(i)) = i
  BY <1>4
<1>10. \A i \in 1..n : q[i] = batch(Nth(heads, back(i)))
  BY <1>7
<1> HIDE DEF back
<1>11. \A i \in 1..n : q[i] \in BatchesOf(s) /\ head(q[i]) = Nth(heads, back(i))
  BY <1>5, <1>8, <1>9, <1>10
<1>12. q \in Seq(Batches) /\ DOMAIN q = 1..n
  <2>1. DOMAIN q = 1..n
    BY <1>7
  <2>2. q \in [1..n -> Batches]
    BY <1>1, <1>7, <1>11, <2>1
  <2> QED BY <1>4, <2>1, <2>2
<1>13. IsInjective(q)
  <2> SUFFICES ASSUME NEW i \in 1..n, NEW j \in 1..n, q[i] = q[j]
               PROVE  i = j
    BY <1>12 DEF IsInjective
  <2>1. Nth(heads, back(i)) = Nth(heads, back(j))
    BY <1>11
  <2>2. back(i) = back(j)
    BY <1>8, <1>9, <2>1
  <2> QED BY <1>9, <2>2
<1>14. ToSet(q) = BatchesOf(s)
  <2>1. \A i \in DOMAIN q : q[i] \in BatchesOf(s)
    BY <1>11, <1>12
  <2>2. ASSUME NEW b \in BatchesOf(s) PROVE b \in ToSet(q)
    <3>1. PICK j \in 1..n : Nth(heads, j) = head(b)
      BY <1>6, <1>8
    <3>2. back(j) \in 1..n /\ q[back(j)] = batch(Nth(heads, j))
      BY <1>9, <1>10
    <3>3. q[back(j)] = b
      BY <1>2, <3>1, <3>2
    <3> QED BY <1>12, <3>2, <3>3 DEF ToSet
  <2> QED BY <2>1, <2>2 DEF ToSet
<1> QED BY <1>12, <1>13, <1>14 DEF q

\* Whatever order there was: the new one has the batches of the images, once.
LEMMA OrderOfBatches ==
    ASSUME NEW s \in Seq(Images), UniqueIds(s),
           NEW ord \in Seq(Batches), IsInjective(ord)
    PROVE  /\ OrderFor(s, ord) \in Seq(Batches)
           /\ IsInjective(OrderFor(s, ord))
           /\ ToSet(OrderFor(s, ord)) = BatchesOf(s)
<1> DEFINE q == NewestFirst(s)
           P == {i \in DOMAIN q : q[i] \notin ToSet(ord)}
           R == {i \in DOMAIN ord : ord[i] \in BatchesOf(s)}
           a == Kept(q, P)
           b == Kept(ord, R)
<1>1. q \in Seq(Batches) /\ IsInjective(q) /\ ToSet(q) = BatchesOf(s)
  BY NewestBatches
<1>2. OrderFor(s, ord) = a \o b
  BY DEF OrderFor
<1> HIDE DEF q
<1>3. P \in SUBSET (DOMAIN q) /\ {q[i] : i \in P} = BatchesOf(s) \ ToSet(ord)
  BY <1>1 DEF ToSet
<1>4. R \in SUBSET (DOMAIN ord) /\ {ord[i] : i \in R} = ToSet(ord) \cap BatchesOf(s)
  BY DEF ToSet
<1> HIDE DEF P, R
<1>5. a \in Seq(Batches) /\ ToSet(a) = BatchesOf(s) \ ToSet(ord) /\ IsInjective(a)
  BY <1>1, <1>3, KeptRange
<1>6. b \in Seq(Batches) /\ ToSet(b) = ToSet(ord) \cap BatchesOf(s) /\ IsInjective(b)
  BY <1>4, KeptRange
<1> HIDE DEF a, b
<1>7. ToSet(a) \cap ToSet(b) = {} /\ ToSet(a) \cup ToSet(b) = BatchesOf(s)
  BY <1>5, <1>6
<1>8. /\ a \o b \in Seq(Batches) /\ IsInjective(a \o b)
      /\ ToSet(a \o b) = ToSet(a) \cup ToSet(b)
  BY <1>5, <1>6, <1>7, JoinedSets
<1> QED BY <1>2, <1>7, <1>8

LEMMA OrderWithout ==
    ASSUME NEW ord \in Seq(Batches), IsInjective(ord), NEW b
    PROVE  /\ NotIn(ord, b) \in Seq(Batches) /\ IsInjective(NotIn(ord, b))
           /\ b \notin ToSet(NotIn(ord, b))
<1> DEFINE P == {i \in DOMAIN ord : ord[i] # b}
<1>1. P \in SUBSET (DOMAIN ord) /\ NotIn(ord, b) = Kept(ord, P)
  BY DEF NotIn
<1>2. b \notin {ord[i] : i \in P}
  OBVIOUS
<1> HIDE DEF P
<1> QED BY <1>1, <1>2, KeptRange

LEMMA BroughtToTop ==
    ASSUME NEW ord \in Seq(Batches), IsInjective(ord), NEW b \in Batches
    PROVE  ToTop(ord, b) \in Seq(Batches) /\ IsInjective(ToTop(ord, b))
<1> DEFINE r == NotIn(ord, b)
           one == <<b>>
<1>1. r \in Seq(Batches) /\ IsInjective(r) /\ b \notin ToSet(r)
  BY OrderWithout
<1>2. one \in Seq(Batches) /\ IsInjective(one) /\ ToSet(one) = {b}
  BY DEF IsInjective, ToSet
<1>3. ToTop(ord, b) = one \o r
  BY DEF ToTop
<1> HIDE DEF r, one
<1> QED BY <1>1, <1>2, <1>3, JoinedSets

\* A drag moves a batch to another place.
LEMMA MovedBatch ==
    ASSUME NEW s \in Seq(Batches), IsInjective(s), NEW i \in DOMAIN s, NEW j \in DOMAIN s
    PROVE  /\ Moved(s, i, j) \in Seq(Batches) /\ IsInjective(Moved(s, i, j))
           /\ ToSet(Moved(s, i, j)) = ToSet(s)
<1> DEFINE r == RemoveAt(s, i)
           e == s[i]
           m == InsertAt(r, j, e)
<1>1. /\ r \in Seq(Batches) /\ Len(r) = Len(s) - 1
      /\ \A k \in DOMAIN r : r[k] = s[OldAt(i, k)] /\ OldAt(i, k) \in DOMAIN s /\ OldAt(i, k) # i
      /\ \A k, l \in DOMAIN r : OldAt(i, k) = OldAt(i, l) => k = l
      /\ \A k \in DOMAIN s : k # i => \E l \in DOMAIN r : OldAt(i, l) = k
  BY RemovedPlaces
<1>2. Len(s) \in Nat /\ DOMAIN s = 1..Len(s) /\ e \in Batches
  OBVIOUS
<1>3. Moved(s, i, j) = m
  BY DEF Moved
<1> HIDE DEF r, e
<1>4. IsInjective(r) /\ ToSet(r) = ToSet(s) \ {e}
  <2>0. e = s[i]
    BY DEF e
  <2>1. IsInjective(r)
    BY <1>1 DEF IsInjective
  <2>2. \A k \in DOMAIN r : r[k] \in ToSet(s) \ {e}
    BY <1>1, <2>0 DEF IsInjective, ToSet
  <2>3. \A k \in DOMAIN s : s[k] # e => s[k] \in ToSet(r)
    BY <1>1, <2>0 DEF ToSet
  <2> QED BY <2>1, <2>2, <2>3 DEF ToSet
<1>5. j \in 1..Len(r) + 1
  BY <1>1, <1>2
<1>6. /\ m \in Seq(Batches) /\ j \in DOMAIN m /\ m[j] = e
      /\ \A k \in DOMAIN m : k # j => m[k] = r[OldBefore(j, k)] /\ OldBefore(j, k) \in DOMAIN r
      /\ \A k, l \in DOMAIN m : k # j /\ l # j /\ OldBefore(j, k) = OldBefore(j, l) => k = l
      /\ \A l \in DOMAIN r : \E k \in DOMAIN m : k # j /\ OldBefore(j, k) = l
  <2>1. r \in Seq(Batches) /\ e \in Batches
    BY <1>1, <1>2
  <2> QED BY <1>5, <2>1, InsertedPlaces
<1> HIDE DEF m
<1>7. \A k \in DOMAIN m : k # j => m[k] \in ToSet(r)
  BY <1>6 DEF ToSet
<1>8. IsInjective(m)
  <2>1. \A k, l \in DOMAIN m : k # j /\ l # j /\ m[k] = m[l] => k = l
    BY <1>4, <1>6 DEF IsInjective
  <2>2. \A k \in DOMAIN m : k # j => m[k] # m[j]
    BY <1>4, <1>6, <1>7
  <2> QED BY <2>1, <2>2 DEF IsInjective
<1>9. ToSet(m) = ToSet(s)
  <2>1. e \in ToSet(s)
    BY DEF ToSet, e
  <2>2. \A k \in DOMAIN m : m[k] \in ToSet(s)
    BY <1>4, <1>6, <1>7, <2>1
  <2>3. \A l \in DOMAIN r : r[l] \in ToSet(m)
    BY <1>6 DEF ToSet
  <2>4. e \in ToSet(m)
    BY <1>6 DEF ToSet
  <2>5. \A x \in ToSet(s) : x = e \/ x \in ToSet(r)
    BY <1>4
  <2>6. \A x \in ToSet(r) : x \in ToSet(m)
    BY <2>3 DEF ToSet
  <2> QED BY <2>2, <2>4, <2>5, <2>6 DEF ToSet
<1> QED BY <1>3, <1>6, <1>8, <1>9

\* A set whose members are counted through by another, each once.
LEMMA CountedThrough ==
    ASSUME NEW S, IsFiniteSet(S), NEW T, NEW f \in [S -> T],
           \A x, y \in S : f[x] = f[y] => x = y,
           \A t \in T : \E x \in S : f[x] = t
    PROVE  IsFiniteSet(T) /\ Cardinality(T) = Cardinality(S)
<1>1. f \in Injection(S, T)
  BY DEF Injection, IsInjective
<1>2. f \in Surjection(S, T)
  BY DEF Surjection
<1> QED BY <1>1, <1>2, FS_Surjection

\* The ids of the placeholders of a batch.
Waits(s, b) == {x.id : x \in {y \in ToSet(s) : y.batch = b /\ IsPlaceholder(y)}}

LEMMA WaitsAreFinite ==
    ASSUME NEW s \in Seq(Images), NEW b
    PROVE  /\ Waits(s, b) \in SUBSET Ids
           /\ IsFiniteSet(Waits(s, b)) /\ Cardinality(Waits(s, b)) \in Nat
<1>1. \A x \in ToSet(s) : x \in Images
  BY DEF ToSet
<1>2. Waits(s, b) \in SUBSET Ids
  BY <1>1 DEF Waits, Images
<1> QED BY <1>2, IdsAreFinite

\* There are as many as there are places for them.
LEMMA PlacesAndIds ==
    ASSUME NEW s \in Seq(Images), UniqueIds(s), NEW b
    PROVE  LET places == {i \in DOMAIN s : s[i].batch = b /\ IsPlaceholder(s[i])} IN
           /\ places \in SUBSET Nat /\ places \subseteq DOMAIN s
           /\ IsFiniteSet(places) /\ Cardinality(places) = Cardinality(Waits(s, b))
           /\ Waits(s, b) = {s[i].id : i \in places}
<1> DEFINE places == {i \in DOMAIN s : s[i].batch = b /\ IsPlaceholder(s[i])}
           w == Waits(s, b)
           f == [i \in places |-> s[i].id]
<1>1. Len(s) \in Nat /\ DOMAIN s = 1..Len(s)
  OBVIOUS
<1>2. places \in SUBSET (1..Len(s)) /\ places \in SUBSET Nat /\ IsFiniteSet(1..Len(s))
  BY <1>1, FS_Interval
<1>3. IsFiniteSet(places)
  BY <1>2, FS_Subset
<1>4. w = {s[i].id : i \in places}
  <2>1. \A i \in places : s[i].id \in w
    BY DEF Waits, ToSet
  <2>2. ASSUME NEW n \in w PROVE \E i \in places : n = s[i].id
    <3>1. PICK x \in ToSet(s) : x.batch = b /\ IsPlaceholder(x) /\ n = x.id
      BY DEF Waits
    <3>2. PICK i \in DOMAIN s : s[i] = x
      BY DEF ToSet
    <3> QED BY <3>1, <3>2
  <2> QED BY <2>1, <2>2
<1>5. \A i, j \in places : f[i] = f[j] => i = j
  BY DEF UniqueIds
<1>6. places \subseteq DOMAIN s
  OBVIOUS
<1> HIDE DEF places, w
<1>7. f \in [places -> w] /\ \A n \in w : \E i \in places : f[i] = n
  BY <1>4
<1> HIDE DEF f
<1>8. Cardinality(w) = Cardinality(places)
  BY <1>3, <1>5, <1>7, CountedThrough
<1> QED BY <1>2, <1>3, <1>4, <1>6, <1>8 DEF places, w

\* Arrived images: the list stays one of images with an id each, and one
\* placeholder of the batch goes for each image, as long as there is one.
LEMMA ArrivedImages ==
    ASSUME NEW s \in Seq(Images), UniqueIds(s), NEW b,
           NEW new \in Seq(Images), UniqueIds(new)
    PROVE  /\ Arrived(s, b, new) \in Seq(Images)
           /\ UniqueIds(Arrived(s, b, new))
           /\ ToSet(Arrived(s, b, new)) \subseteq ToSet(s) \cup ToSet(new)
           /\ (\A x \in ToSet(new) : ~IsPlaceholder(x)) =>
                 /\ \A c : Waits(Arrived(s, b, new), c) \subseteq Waits(s, c)
                 /\ \/ Cardinality(Waits(Arrived(s, b, new), b)) = 0
                    \/ Cardinality(Waits(Arrived(s, b, new), b)) + Len(new)
                          <= Cardinality(Waits(s, b))
<1> DEFINE places == {i \in DOMAIN s : s[i].batch = b /\ IsPlaceholder(s[i])}
           p      == Cardinality(places)
           m      == Min({p, Len(new)})
           taken  == {s[Nth(places, n)].id : n \in 1..m}
           rest   == Without(s, taken)
           more   == Without(new, IdsOf(rest))
           r      == Arrived(s, b, new)
<1>1. r = rest \o more
  BY DEF Arrived
<1>2. /\ rest \in Seq(Images) /\ UniqueIds(rest)
      /\ ToSet(rest) = {x \in ToSet(s) : x.id \notin taken}
  BY WithoutImages
<1>3. /\ more \in Seq(Images) /\ UniqueIds(more)
      /\ ToSet(more) = {x \in ToSet(new) : x.id \notin IdsOf(rest)}
  BY WithoutImages
<1>4. /\ places \in SUBSET Nat /\ places \subseteq DOMAIN s /\ IsFiniteSet(places)
      /\ p = Cardinality(Waits(s, b)) /\ Waits(s, b) = {s[i].id : i \in places}
  BY PlacesAndIds
<1>5. p \in Nat /\ Len(new) \in Nat
  BY <1>4, FS_CardinalityType
<1> HIDE DEF places, p
<1>6. m \in Nat /\ m <= p /\ (m = p \/ m = Len(new))
  <2>1. {p, Len(new)} \in SUBSET Nat /\ {p, Len(new)} # {}
    BY <1>5
  <2>2. \E x \in {p, Len(new)} : \A y \in {p, Len(new)} : x =< y
    BY <2>1, LeastMember
  <2>3. m \in {p, Len(new)} /\ \A y \in {p, Len(new)} : m =< y
    BY <2>2 DEF Min
  <2> HIDE DEF m
  <2> QED BY <1>5, <2>3
<1> HIDE DEF m
<1>7. /\ \A n \in 1..p : Nth(places, n) \in places
      /\ \A n, k \in 1..p : Nth(places, n) = Nth(places, k) => n = k
  BY <1>4, NthCountsThrough DEF p
<1>8. 1..m \subseteq 1..p
  BY <1>5, <1>6
<1>9. taken \subseteq Waits(s, b) /\ IsFiniteSet(taken) /\ Cardinality(taken) = m
  <2> DEFINE f == [n \in 1..m |-> s[Nth(places, n)].id]
  <2>1. taken \subseteq Waits(s, b)
    BY <1>4, <1>7, <1>8
  <2>2. IsFiniteSet(1..m) /\ Cardinality(1..m) = m
    BY <1>6, FS_Interval
  <2>3. \A n, k \in 1..m : f[n] = f[k] => n = k
    <3> TAKE n, k \in 1..m
    <3>1. /\ Nth(places, n) \in DOMAIN s /\ Nth(places, k) \in DOMAIN s
          /\ Nth(places, n) = Nth(places, k) => n = k
      BY <1>4, <1>7, <1>8
    <3>2. s[Nth(places, n)].id = s[Nth(places, k)].id => Nth(places, n) = Nth(places, k)
      BY <3>1 DEF UniqueIds
    <3>3. f[n] = s[Nth(places, n)].id /\ f[k] = s[Nth(places, k)].id
      OBVIOUS
    <3> QED BY <3>1, <3>2, <3>3
  <2>4. f \in [1..m -> taken] /\ \A t \in taken : \E n \in 1..m : f[n] = t
    OBVIOUS
  <2> HIDE DEF taken, f
  <2>5. IsFiniteSet(taken) /\ Cardinality(taken) = Cardinality(1..m)
    BY <2>2, <2>3, <2>4, CountedThrough
  <2> QED BY <2>1, <2>2, <2>5
<1> HIDE DEF taken, rest, more, r
<1>10. IdsOf(rest) \cap IdsOf(more) = {}
  BY <1>3, SetsOfImages
<1>11. r \in Seq(Images) /\ UniqueIds(r) /\ ToSet(r) = ToSet(rest) \cup ToSet(more)
  BY <1>1, <1>2, <1>3, <1>10, JoinedImages
<1>12. ToSet(r) \subseteq ToSet(s) \cup ToSet(new)
  BY <1>2, <1>3, <1>11
<1>13. ASSUME \A x \in ToSet(new) : ~IsPlaceholder(x)
       PROVE  /\ \A c : Waits(r, c) \subseteq Waits(s, c)
              /\ \/ Cardinality(Waits(r, b)) = 0
                 \/ Cardinality(Waits(r, b)) + Len(new) <= Cardinality(Waits(s, b))
  <2>1. \A x \in ToSet(r) : IsPlaceholder(x) => x \in ToSet(s) /\ x.id \notin taken
    BY <1>2, <1>3, <1>11, <1>13
  <2>2. ASSUME NEW c PROVE Waits(r, c) \subseteq Waits(s, c)
    BY <2>1 DEF Waits
  <2>3. Waits(r, b) \subseteq Waits(s, b) \ taken
    BY <2>1 DEF Waits
  <2>4. IsFiniteSet(Waits(s, b)) /\ Cardinality(Waits(s, b)) = p
    BY <1>4, WaitsAreFinite
  <2>5. Waits(s, b) \cap taken = taken
    BY <1>9
  <2>6. /\ IsFiniteSet(Waits(s, b) \ taken)
        /\ Cardinality(Waits(s, b) \ taken) = p - m
    <3>1. /\ IsFiniteSet(Waits(s, b) \ taken)
          /\ Cardinality(Waits(s, b) \ taken)
               = Cardinality(Waits(s, b)) - Cardinality(Waits(s, b) \cap taken)
      BY <2>4, FS_Difference
    <3> QED BY <1>9, <2>4, <2>5, <3>1
  <2>7. Cardinality(Waits(r, b)) <= p - m
    BY <2>3, <2>6, FS_Subset
  <2>8. Cardinality(Waits(r, b)) \in Nat
    BY <1>11, WaitsAreFinite
  <2>9. \/ Cardinality(Waits(r, b)) = 0
        \/ Cardinality(Waits(r, b)) + Len(new) <= Cardinality(Waits(s, b))
    <3>1. CASE m = p
      BY <1>5, <2>7, <2>8, <3>1
    <3>2. CASE m = Len(new)
      BY <1>5, <1>6, <2>4, <2>7, <2>8, <3>2
    <3> QED BY <1>6, <3>1, <3>2
  <2> QED BY <2>2, <2>9
<1> QED BY <1>11, <1>12, <1>13 DEF r

-----------------------------------------------------------------------------
(* The effect on the images, and a rendering                               *)

LEMMA RegroupStep ==
    ASSUME NEW s \in Seq(Images), UniqueIds(s),
           NEW ord \in Seq(Batches), IsInjective(ord),
           NEW shut \in Collapsed, Regroup(s, ord, shut)
    PROVE  /\ images' = s
           /\ order' \in Seq(Batches) /\ shown' \in Seq(Batches)
           /\ OrderIsShown' /\ collapsed' \in Collapsed
<1>1. /\ OrderFor(s, ord) \in Seq(Batches) /\ IsInjective(OrderFor(s, ord))
      /\ ToSet(OrderFor(s, ord)) = BatchesOf(s)
  BY OrderOfBatches
<1>2. images' = s /\ order' = OrderFor(s, ord) /\ shown' = OrderFor(s, ord)
  BY DEF Regroup
<1>3. OrderIsShown'
  BY <1>1, <1>2 DEF OrderIsShown
<1>4. collapsed' \in Collapsed
  BY DEF Regroup, Collapsed
<1> QED BY <1>1, <1>2, <1>3, <1>4

\* A rendering makes every panel anew, and each shows what was picked in it.
LEMMA RenderStep ==
    ASSUME open' \in BOOLEAN, view' \in [loading : BOOLEAN, error : BOOLEAN],
           images' \in Seq(Images), shown' \in Seq(Batches), OrderIsShown',
           picks' \in Selections, forced' \in Selections,
           NEW kept \in Selections, Render(kept)
    PROVE  PanelsOK'
<1> DEFINE ids(b) == IdsIn(images', b)
           group(b) == Group(images', b)
           pref(b) == IF forced'[b] \in ids(b) THEN forced'[b]
                      ELSE IF stored'[b] \in ids(b) THEN stored'[b] ELSE Min(ids(b))
<1>1. \A b \in ToSet(shown') : b \in Batches /\ b \in BatchesOf(images')
  BY BatchIds DEF OrderIsShown
<1>2. ASSUME NEW b \in ToSet(shown')
      PROVE  /\ ids(b) \in SUBSET Ids /\ Min(ids(b)) \in ids(b)
             /\ ToSet(group(b)) = ids(b)
             /\ \A id \in ids(b) : IndexOf(group(b), id) \in DOMAIN group(b)
             /\ DOMAIN group(b) \subseteq Nat
  <2>1. ids(b) \in SUBSET Ids /\ Min(ids(b)) \in ids(b)
    BY <1>1, <1>2, BatchIds
  <2>2. /\ ToSet(group(b)) = ids(b)
        /\ \A id \in ids(b) : IndexOf(group(b), id) \in DOMAIN group(b)
        /\ DOMAIN group(b) = 1..Cardinality(ids(b))
    BY GroupMembers
  <2> QED BY <2>1, <2>2
<1>3. stored' = [b \in Batches |->
                   IF Ready' /\ b \in ToSet(shown') /\ forced'[b] \notin ids(b)
                             /\ kept[b] \notin ids(b)
                   THEN Min(ids(b)) ELSE kept[b]]
  BY DEF Render
<1>4. panel' = [b \in Batches |->
                  IF Ready' /\ b \in ToSet(shown')
                  THEN [sel |-> pref(b), at |-> IndexOf(group(b), pref(b)),
                        shut |-> collapsed'[b] = "shut"]
                  ELSE NoPanel]
  BY DEF Render, Mounted, Preferred
<1> HIDE DEF ids, group
<1>5. stored' \in Selections
  BY <1>2, <1>3 DEF Selections
<1>6. ASSUME NEW b \in ToSet(shown') PROVE pref(b) \in ids(b)
  BY <1>2
<1>7. forced' \in [Batches -> Ids \cup {None}] /\ NoPanel \in PanelState
  BY DEF Selections, NoPanel, PanelState
<1> HIDE DEF pref
<1>8. panel' \in [Batches -> PanelState]
  <2>1. ASSUME NEW b \in ToSet(shown')
        PROVE  [sel |-> pref(b), at |-> IndexOf(group(b), pref(b)),
                shut |-> collapsed'[b] = "shut"] \in PanelState
    <3>1. pref(b) \in Ids /\ IndexOf(group(b), pref(b)) \in Nat
      BY <1>2, <1>6, <2>1
    <3>2. (collapsed'[b] = "shut") \in BOOLEAN
      OBVIOUS
    <3> QED BY <3>1, <3>2 DEF PanelState
  <2> QED BY <1>4, <1>7, <2>1
<1>9. ASSUME Ready', NEW b \in ToSet(shown')
      PROVE  /\ panel'[b].sel = pref(b) /\ panel'[b].at = IndexOf(group(b), pref(b))
             /\ panel'[b].at \in DOMAIN group(b)
  <2>1. b \in Batches
    BY <1>1, <1>9
  <2>2. panel'[b] = [sel |-> pref(b), at |-> IndexOf(group(b), pref(b)),
                     shut |-> collapsed'[b] = "shut"]
    BY <1>4, <1>9, <2>1
  <2> QED BY <1>2, <1>6, <1>9, <2>2
<1>10. ASSUME Ready', NEW b \in ToSet(shown'), forced'[b] \notin ids(b), stored'[b] \in ids(b)
       PROVE  Displayed(b)' = stored'[b]
  <2>1. pref(b) = stored'[b]
    BY <1>10 DEF pref
  <2>2. panel'[b].sel = stored'[b]
    BY <1>9, <1>10, <2>1
  <2>3. panel'[b].sel \in ToSet(Group(images', b))
    BY <1>2, <1>10, <2>2 DEF group
  <2> QED BY <2>2, <2>3 DEF Displayed
<1>11. PickIsKept'
  BY <1>10 DEF PickIsKept, ids
<1>12. (Ready => \A b \in ToSet(shown) : /\ panel[b].sel \in IdsIn(images, b)
                                         /\ panel[b].at \in DOMAIN Group(images, b))'
  BY <1>6, <1>9 DEF group, ids
<1> QED BY <1>5, <1>8, <1>11, <1>12 DEF PanelsOK

-----------------------------------------------------------------------------
(* The numbers taken so far                                                *)

LEMMA BegunCalls ==
    ASSUME NEW cs \in Seq(CallRecords)
    PROVE  /\ IsFiniteSet(DOMAIN cs) /\ Cardinality(DOMAIN cs) = Len(cs)
           /\ IsFiniteSet(Begun(cs)) /\ Cardinality(Begun(cs)) \in Nat
           /\ Cardinality(Begun(cs)) <= Len(cs)
           /\ \A i \in DOMAIN cs :
                 cs[i].state = "asked" => Cardinality(Begun(cs)) + 1 <= Len(cs)
<1>1. Len(cs) \in Nat /\ DOMAIN cs = 1..Len(cs)
  OBVIOUS
<1>2. IsFiniteSet(DOMAIN cs) /\ Cardinality(DOMAIN cs) = Len(cs)
  BY <1>1, FS_Interval
<1>3. /\ IsFiniteSet(Begun(cs)) /\ Cardinality(Begun(cs)) <= Len(cs)
  BY <1>2, FS_Subset DEF Begun
<1>4. Cardinality(Begun(cs)) \in Nat
  BY <1>3, FS_CardinalityType
<1>5. ASSUME NEW i \in DOMAIN cs, cs[i].state = "asked"
      PROVE  Cardinality(Begun(cs)) + 1 <= Len(cs)
  <2>1. i \notin Begun(cs) /\ Begun(cs) \cup {i} \subseteq DOMAIN cs
    BY <1>5 DEF Begun
  <2>2. Cardinality(Begun(cs) \cup {i}) = Cardinality(Begun(cs)) + 1
    BY <1>3, <2>1, FS_AddElement
  <2>3. Cardinality(Begun(cs) \cup {i}) <= Cardinality(DOMAIN cs)
    BY <1>2, <2>1, FS_Subset
  <2> QED BY <1>2, <2>2, <2>3
<1> QED BY <1>2, <1>3, <1>4, <1>5

LEMMA Times ==
    ASSUME NEW a \in Nat, NEW m \in Nat, NEW k \in Nat, m <= k
    PROVE  /\ a * m \in Nat /\ a * m <= a * k
           /\ a * (m + 1) = a * m + a
<1>1. k - m \in Nat /\ a * (k - m) \in Nat /\ a * m \in Nat
  BY SMT
<1>2. a * k = a * m + a * (k - m)
  BY SMT
<1>3. a * (m + 1) = a * m + a
  BY SMT
<1> QED BY <1>1, <1>2, <1>3

\* There are numbers left for what may still be asked for or made.
LEMMA Budget ==
    ASSUME Numbered, CallsOK, NEW n \in 0..MaxAsked,
           \/ Len(calls) < MaxCalls
           \/ \E i \in DOMAIN calls : calls[i].state = "asked"
    PROVE  last + n \in Nat /\ last + n <= MaxId
<1> DEFINE m == Len(calls) + Cardinality(Begun(calls))
<1>1. /\ Len(calls) \in Nat /\ Len(calls) <= MaxCalls
      /\ Cardinality(Begun(calls)) \in Nat /\ Cardinality(Begun(calls)) <= Len(calls)
      /\ (\E i \in DOMAIN calls : calls[i].state = "asked")
            => Cardinality(Begun(calls)) + 1 <= Len(calls)
  BY BegunCalls DEF CallsOK
<1>2. /\ MaxAsked \in Nat /\ MaxCalls \in Nat /\ Len(Initial) \in Nat
  BY RecentAssumption
<1>3. m \in Nat /\ m + 1 <= MaxCalls + MaxCalls
  BY <1>1, <1>2
<1>4. last \in Nat /\ last <= Len(Initial) + MaxAsked * m
  BY DEF Numbered
<1> HIDE DEF m
<1>5. /\ MaxAsked * (m + 1) = MaxAsked * m + MaxAsked
      /\ MaxAsked * (m + 1) <= MaxAsked * (MaxCalls + MaxCalls)
      /\ MaxAsked * m \in Nat
  <2>1. m + 1 \in Nat /\ MaxCalls + MaxCalls \in Nat /\ m <= m + 1
    BY <1>2, <1>3
  <2> QED BY <1>2, <1>3, <2>1, Times
<1>6. 2 * MaxAsked * MaxCalls = MaxAsked * (MaxCalls + MaxCalls)
  BY <1>2
<1> DEFINE p == MaxAsked * m
           q == MaxAsked * (m + 1)
           r == MaxAsked * (MaxCalls + MaxCalls)
<1>7. MaxId = Len(Initial) + r
  BY <1>6 DEF MaxId
<1>8. p \in Nat /\ q = p + MaxAsked /\ q <= r /\ r \in Nat
  <2>1. r \in Nat
    BY <1>2
  <2> QED BY <1>5, <2>1
<1>9. last <= Len(Initial) + p
  BY <1>4
<1> HIDE DEF p, q, r
<1> QED BY <1>2, <1>4, <1>7, <1>8, <1>9

\* The number taken last is within the bound the constants give.
LEMMA LastIsBound ==
    ASSUME Numbered, CallsOK
    PROVE  last <= MaxId
<1> DEFINE m == Len(calls) + Cardinality(Begun(calls))
<1>1. /\ MaxAsked \in Nat /\ MaxCalls \in Nat /\ Len(Initial) \in Nat
  BY RecentAssumption
<1>2. m \in Nat /\ m <= MaxCalls + MaxCalls
  <2>1. /\ Len(calls) \in Nat /\ Len(calls) <= MaxCalls
        /\ Cardinality(Begun(calls)) \in Nat /\ Cardinality(Begun(calls)) <= Len(calls)
    BY BegunCalls DEF CallsOK
  <2> QED BY <1>1, <2>1
<1>3. last \in Nat /\ last <= Len(Initial) + MaxAsked * m
  BY DEF Numbered
<1> HIDE DEF m
<1> DEFINE p == MaxAsked * m
           r == MaxAsked * (MaxCalls + MaxCalls)
<1>4. p \in Nat /\ r \in Nat /\ p <= r
  <2>1. MaxCalls + MaxCalls \in Nat
    BY <1>1
  <2> QED BY <1>1, <1>2, <2>1, Times
<1>5. MaxId = Len(Initial) + r
  BY <1>1 DEF MaxId
<1>6. last <= Len(Initial) + p
  BY <1>3
<1> HIDE DEF p, r
<1> QED BY <1>1, <1>3, <1>4, <1>5, <1>6

LEMMA NewIds ==
    ASSUME Numbered, NEW n \in Nat, last + n <= MaxId
    PROVE  /\ last + 1..last + n \in SUBSET Ids
           /\ \A id \in last + 1..last + n : id \in Nat /\ id > last /\ id <= last + n
           /\ IsFiniteSet(last + 1..last + n) /\ Cardinality(last + 1..last + n) = n
<1>1. last \in Nat /\ MaxId \in Nat
  BY IdsAreFinite DEF Numbered
<1>2. /\ last + 1..last + n \in SUBSET Ids
      /\ \A id \in last + 1..last + n : id \in Nat /\ id > last /\ id <= last + n
  BY <1>1 DEF Ids
<1>3. IsFiniteSet(last + 1..last + n) /\ Cardinality(last + 1..last + n) = n
  <2>1. /\ IsFiniteSet(last + 1..last + n)
        /\ Cardinality(last + 1..last + n)
             = IF last + 1 > last + n THEN 0 ELSE (last + n) - (last + 1) + 1
    BY <1>1, FS_Interval
  <2> QED BY <1>1, <2>1
<1> QED BY <1>2, <1>3

\* Another count of what was asked for or made, with the numbers it needs.
LEMMA NumberedOn ==
    ASSUME Numbered, CallsOK, NEW n \in 0..MaxAsked, NEW m \in Nat,
           last' = last + n, old' = old,
           m = Len(calls) + Cardinality(Begun(calls)),
           Len(calls') + Cardinality(Begun(calls')) = m + 1
    PROVE  Numbered'
<1>1. /\ MaxAsked \in Nat /\ Len(Initial) \in Nat
  BY RecentAssumption
<1>2. last \in Nat /\ last <= Len(Initial) + MaxAsked * m /\ old \in 0..last
  BY DEF Numbered
<1>3. MaxAsked * (m + 1) = MaxAsked * m + MaxAsked /\ MaxAsked * m \in Nat
  <2>1. m <= m
    OBVIOUS
  <2> QED BY <1>1, <2>1, Times
<1> DEFINE p == MaxAsked * m
           q == MaxAsked * (m + 1)
<1>4. p \in Nat /\ q = p + MaxAsked /\ last <= Len(Initial) + p
  BY <1>2, <1>3
<1>5. q = MaxAsked * (Len(calls') + Cardinality(Begun(calls')))
  OBVIOUS
<1> HIDE DEF p, q
<1>6. last' \in Nat /\ old' \in 0..last' /\ last' <= Len(Initial) + q
  BY <1>1, <1>2, <1>4
<1> QED BY <1>5, <1>6 DEF Numbered

\* A call is added: it takes numbers for its placeholders.
LEMMA CallAdded ==
    ASSUME Numbered, CallsOK, NEW b \in Batches, NEW kind \in {"wait", "again"},
           NEW n \in 1..MaxAsked, Len(calls) < MaxCalls, last' = last + n, old' = old,
           calls' = Append(calls, Call(b, kind, n))
    PROVE  /\ Numbered' /\ CallsOK' /\ DOMAIN calls' = 1..Len(calls) + 1
           /\ \A i \in DOMAIN calls : i \in DOMAIN calls' /\ calls'[i] = calls[i]
           /\ calls'[Len(calls) + 1] = Call(b, kind, n)
           /\ last + n <= MaxId
<1> DEFINE c == Call(b, kind, n)
<1>0. MaxAsked \in Nat /\ MaxCalls \in Nat
  BY RecentAssumption
<1>1. calls \in Seq(CallRecords) /\ Len(calls) \in Nat /\ DOMAIN calls = 1..Len(calls)
  BY DEF CallsOK
<1>2. c \in CallRecords
  BY DEF Call, CallRecords
<1>3. CallFits(c)
  <2>1. Cardinality({}) = 0
    BY FS_EmptySet
  <2>2. c.made = {} /\ c.came = 0 /\ c.state = "asked" /\ c.asked = n
    BY DEF Call
  <2>3. Cardinality(c.made) <= c.asked
    BY <2>1, <2>2
  <2> HIDE DEF c
  <2> QED BY <1>2, <2>2, <2>3 DEF CallFits
<1>4. c.made = {} /\ c.state = "asked"
  BY DEF Call
<1>5. calls' = Append(calls, c)
  OBVIOUS
<1> HIDE DEF c
<1>6. /\ calls' \in Seq(CallRecords) /\ Len(calls') = Len(calls) + 1
      /\ DOMAIN calls' = 1..Len(calls) + 1
      /\ \A i \in DOMAIN calls : i \in DOMAIN calls' /\ calls'[i] = calls[i]
      /\ calls'[Len(calls) + 1] = c
  BY <1>1, <1>2, <1>5
<1>7. Begun(calls') = Begun(calls)
  <2>1. \A i \in DOMAIN calls' : i \in DOMAIN calls \/ i = Len(calls) + 1
    BY <1>1, <1>6
  <2> QED BY <1>4, <1>6, <2>1 DEF Begun
<1>8. CallsOK'
  <2>1. \A i \in DOMAIN calls' : i \in DOMAIN calls \/ i = Len(calls) + 1
    BY <1>1, <1>6
  <2>2. ASSUME NEW i \in DOMAIN calls'
        PROVE  CallFits(calls'[i]) /\ \A id \in calls'[i].made : id <= last'
    <3>1. CASE i \in DOMAIN calls
      <4>1. calls'[i] = calls[i] /\ CallFits(calls[i]) /\ \A id \in calls[i].made : id <= last
        BY <1>6, <3>1 DEF CallsOK
      <4>2. calls[i].made \in SUBSET Nat
        BY <4>1, IdsAreFinite DEF CallFits, CallRecords
      <4>3. \A id \in calls[i].made : id <= last + n
        BY <1>0, <4>1, <4>2 DEF Numbered
      <4> QED BY <4>1, <4>3
    <3>2. CASE i = Len(calls) + 1
      BY <1>3, <1>4, <1>6, <3>2
    <3> QED BY <2>1, <3>1, <3>2
  <2>3. Len(calls') <= MaxCalls
    BY <1>0, <1>1, <1>6
  <2> QED BY <1>6, <2>2, <2>3 DEF CallsOK
<1>9. Numbered'
  <2>1. Cardinality(Begun(calls)) \in Nat
    BY <1>1, BegunCalls
  <2>2. n \in 0..MaxAsked
    BY <1>0
  <2> QED BY <1>1, <1>6, <1>7, <2>1, <2>2, NumberedOn
<1>10. last + n <= MaxId
  <2>1. n \in 0..MaxAsked
    BY <1>0
  <2> QED BY <2>1, Budget
<1> QED BY <1>6, <1>8, <1>9, <1>10 DEF c

\* A call moves on: the images it has made by then take numbers.
LEMMA CallMoved ==
    ASSUME Numbered, CallsOK, NEW i \in DOMAIN calls, NEW n \in 0..MaxAsked,
           calls[i].state = "asked" \/ n = 0, last' = last + n, old' = old,
           NEW c, CallFits(c), c.state # "asked", \A id \in c.made : id <= last + n,
           calls' = [calls EXCEPT ![i] = c]
    PROVE  /\ Numbered' /\ CallsOK' /\ DOMAIN calls' = DOMAIN calls
           /\ calls'[i] = c
           /\ \A j \in DOMAIN calls : j # i => calls'[j] = calls[j]
<1>0. MaxAsked \in Nat /\ n \in Nat
  BY RecentAssumption
<1>1. /\ calls \in Seq(CallRecords) /\ Len(calls) \in Nat /\ DOMAIN calls = 1..Len(calls)
      /\ Len(calls) <= MaxCalls
  BY DEF CallsOK
<1>2. c \in CallRecords
  BY DEF CallFits
<1>3. /\ calls' \in Seq(CallRecords) /\ Len(calls') = Len(calls)
      /\ DOMAIN calls' = DOMAIN calls /\ calls'[i] = c
      /\ \A j \in DOMAIN calls : j # i => calls'[j] = calls[j]
  BY <1>1, <1>2
<1>4. last \in Nat
  BY DEF Numbered
<1>5. CallsOK'
  <2>1. ASSUME NEW j \in DOMAIN calls'
        PROVE  CallFits(calls'[j]) /\ \A id \in calls'[j].made : id <= last'
    <3>1. CASE j # i
      <4>1. j \in DOMAIN calls /\ calls'[j] = calls[j]
        BY <1>3, <3>1
      <4>2. CallFits(calls[j]) /\ \A id \in calls[j].made : id <= last
        BY <4>1 DEF CallsOK
      <4>3. calls[j].made \in SUBSET Nat
        BY <4>2, IdsAreFinite DEF CallFits, CallRecords
      <4>4. \A id \in calls[j].made : id <= last + n
        BY <1>0, <1>4, <4>2, <4>3
      <4> QED BY <4>1, <4>2, <4>4
    <3>2. CASE j = i
      BY <1>3, <3>2
    <3> QED BY <3>1, <3>2
  <2> QED BY <1>1, <1>3, <2>1 DEF CallsOK
<1>6. /\ IsFiniteSet(Begun(calls)) /\ Cardinality(Begun(calls)) \in Nat
  BY <1>1, BegunCalls
<1>7. Begun(calls') = Begun(calls) \cup {i}
  BY <1>3 DEF Begun
<1>8. CASE calls[i].state = "asked"
  <2>1. i \notin Begun(calls)
    BY <1>8 DEF Begun
  <2>2. Cardinality(Begun(calls')) = Cardinality(Begun(calls)) + 1
    BY <1>6, <1>7, <2>1, FS_AddElement
  <2> DEFINE m == Len(calls) + Cardinality(Begun(calls))
  <2>3. m \in Nat /\ Len(calls') + Cardinality(Begun(calls')) = m + 1
    <3>1. Len(calls') = Len(calls) /\ Len(calls) \in Nat
      BY <1>1, <1>3
    <3>2. Cardinality(Begun(calls)) \in Nat
      BY <1>6
    <3> QED BY <2>2, <3>1, <3>2
  <2>4. Numbered'
    BY <2>3, NumberedOn
  <2> QED BY <1>3, <1>5, <2>4
<1>9. CASE calls[i].state # "asked"
  <2>1. i \in Begun(calls)
    BY <1>9 DEF Begun
  <2>2. Begun(calls') = Begun(calls)
    BY <1>7, <2>1
  <2>4. last' = last
    BY <1>4, <1>9
  <2>3. Numbered'
    BY <1>3, <2>2, <2>4 DEF Numbered
  <2> QED BY <1>3, <1>5, <2>3
<1> QED BY <1>8, <1>9

\* Nothing is asked for and nothing made.
LEMMA NumbersStay ==
    ASSUME Numbered, CallsOK, last' = last, old' = old, calls' = calls
    PROVE  Numbered' /\ CallsOK'
BY DEF Numbered, CallsOK

LEMMA SettledLater ==
    ASSUME NEW s, NEW n \in Nat, NEW m \in Nat, Settled(s, n), n <= m
    PROVE  Settled(s, m)
<1>1. \A x \in ToSet(s) : x \in Images
  BY DEF ToSet, Settled
<1>2. \A x \in ToSet(s) : x.id \in Nat
  BY <1>1, IdsAreFinite DEF Images
<1> QED BY <1>2 DEF Settled

LEMMA RequestsLater ==
    ASSUME Numbered, RequestsOK, last' \in Nat, last <= last',
           listings' = listings, deletions' = deletions
    PROVE  RequestsOK'
<1>1. last \in Nat
  BY DEF Numbered
<1>2. \A i \in DOMAIN listings : Settled(listings[i].seen, last')
  BY <1>1, SettledLater DEF RequestsOK
<1> QED BY <1>2 DEF RequestsOK

-----------------------------------------------------------------------------
(* What the generations owe                                                *)

LEMMA OwedAreFinite ==
    ASSUME CallsOK, NEW b
    PROVE  IsFiniteSet(OwedTo(b)) /\ Cardinality(OwedTo(b)) \in Nat
<1>1. calls \in Seq(CallRecords) /\ MaxAsked \in Nat
  BY RecentAssumption DEF CallsOK
<1>2. IsFiniteSet(DOMAIN calls) /\ IsFiniteSet(1..MaxAsked)
  BY <1>1, BegunCalls, FS_Interval
<1>3. IsFiniteSet((DOMAIN calls) \X (1..MaxAsked))
  BY <1>2, FS_Product
<1>4. OwedTo(b) \subseteq (DOMAIN calls) \X (1..MaxAsked)
  BY DEF OwedTo
<1>5. IsFiniteSet(OwedTo(b))
  BY <1>3, <1>4, FS_Subset
<1> QED BY <1>5, FS_CardinalityType

LEMMA PairsOfOne ==
    ASSUME NEW i, NEW m \in Nat, NEW n \in Nat, m <= n
    PROVE  /\ IsFiniteSet({i} \X (m + 1..n))
           /\ Cardinality({i} \X (m + 1..n)) = n - m
<1> DEFINE f == [k \in m + 1..n |-> <<i, k>>]
           P == {i} \X (m + 1..n)
<1>1. IsFiniteSet(m + 1..n) /\ Cardinality(m + 1..n) = n - m
  <2>1. /\ IsFiniteSet(m + 1..n)
        /\ Cardinality(m + 1..n) = IF m + 1 > n THEN 0 ELSE n - (m + 1) + 1
    BY FS_Interval
  <2> QED BY <2>1
<1>2. f \in [m + 1..n -> P]
  OBVIOUS
<1>3. \A x, y \in m + 1..n : f[x] = f[y] => x = y
  OBVIOUS
<1>4. \A p \in P : \E x \in m + 1..n : f[x] = p
  <2> TAKE p \in P
  <2>1. PICK x \in m + 1..n : p = <<i, x>>
    OBVIOUS
  <2> QED BY <2>1
<1> HIDE DEF f, P
<1>5. IsFiniteSet(P) /\ Cardinality(P) = Cardinality(m + 1..n)
  BY <1>1, <1>2, <1>3, <1>4, CountedThrough
<1> QED BY <1>1, <1>5 DEF P

\* A call owes all it asks for.
LEMMA OwedByCall ==
    ASSUME CallsOK, CallsOK', NEW b \in Batches, NEW kind, NEW n \in 1..MaxAsked,
           DOMAIN calls' = 1..Len(calls) + 1,
           \A i \in DOMAIN calls : i \in DOMAIN calls' /\ calls'[i] = calls[i],
           calls'[Len(calls) + 1] = Call(b, kind, n)
    PROVE  /\ Cardinality(OwedTo(b)') = Cardinality(OwedTo(b)) + n
           /\ \A c : c # b => OwedTo(c)' = OwedTo(c)
<1> DEFINE l == Len(calls) + 1
           new == {l} \X (0 + 1..n)
<1>0. MaxAsked \in Nat /\ n \in Nat
  BY RecentAssumption
<1>1. /\ Len(calls) \in Nat /\ DOMAIN calls = 1..Len(calls)
      /\ DOMAIN calls' = DOMAIN calls \cup {l} /\ l \notin DOMAIN calls
  BY DEF CallsOK
<1>2. calls'[l].batch = b /\ calls'[l].came = 0 /\ calls'[l].asked = n
  BY DEF Call
<1> HIDE DEF l
<1>3. ASSUME NEW c
      PROVE  OwedTo(c)' = OwedTo(c) \cup IF c = b THEN new ELSE {}
  <2>1. ASSUME NEW i \in DOMAIN calls', NEW k \in 1..MaxAsked
        PROVE  <<i, k>> \in OwedTo(c)' <=>
                  <<i, k>> \in OwedTo(c) \cup IF c = b THEN new ELSE {}
    <3>1. <<i, k>> \in OwedTo(c)' <=> calls'[i].batch = c /\ calls'[i].came + k <= calls'[i].asked
      BY <2>1 DEF OwedTo
    <3>2. CASE i = l
      <4>1. <<i, k>> \notin OwedTo(c)
        BY <1>1, <3>2 DEF OwedTo
      <4>2. <<i, k>> \in new <=> k <= n
        BY <1>0, <3>2
      <4> QED BY <1>0, <1>2, <3>1, <3>2, <4>1, <4>2
    <3>3. CASE i \in DOMAIN calls
      <4>1. <<i, k>> \notin new
        BY <1>1, <3>3
      <4>2. <<i, k>> \in OwedTo(c) <=> calls[i].batch = c /\ calls[i].came + k <= calls[i].asked
        BY <3>3 DEF OwedTo
      <4> QED BY <3>1, <3>3, <4>1, <4>2
    <3> QED BY <1>1, <3>2, <3>3
  <2>2. OwedTo(c)' \subseteq (DOMAIN calls') \X (1..MaxAsked)
    BY DEF OwedTo
  <2>3. OwedTo(c) \cup (IF c = b THEN new ELSE {}) \subseteq (DOMAIN calls') \X (1..MaxAsked)
    <3>1. OwedTo(c) \subseteq (DOMAIN calls') \X (1..MaxAsked)
      BY <1>1 DEF OwedTo
    <3>2. new \subseteq (DOMAIN calls') \X (1..MaxAsked)
      BY <1>0, <1>1
    <3> QED BY <3>1, <3>2
  <2> HIDE DEF new
  <2> QED BY <2>1, <2>2, <2>3
<1>4. IsFiniteSet(new) /\ Cardinality(new) = n
  <2>1. 0 <= n /\ n - 0 = n
    BY <1>0
  <2> QED BY <1>0, <2>1, PairsOfOne
<1>5. OwedTo(b) \cap new = {}
  BY <1>1 DEF OwedTo
<1> HIDE DEF new
<1>6. OwedTo(b)' = OwedTo(b) \cup new
  BY <1>3
<1>7. IsFiniteSet(OwedTo(b)) /\ Cardinality(OwedTo(b)) \in Nat
  BY OwedAreFinite
<1>8. Cardinality(OwedTo(b) \cup new)
        = Cardinality(OwedTo(b)) + Cardinality(new) - Cardinality(OwedTo(b) \cap new)
  BY <1>4, <1>7, FS_Union
<1>9. Cardinality(OwedTo(b)') = Cardinality(OwedTo(b)) + n
  <2>1. Cardinality(OwedTo(b) \cap new) = 0
    BY <1>5, FS_EmptySet
  <2> QED BY <1>0, <1>4, <1>6, <1>7, <1>8, <2>1
<1>10. \A c : c # b => OwedTo(c)' = OwedTo(c)
  BY <1>3
<1> QED BY <1>9, <1>10

\* A call that moves on owes as much as before, less what its answer brings.
LEMMA OwedAfter ==
    ASSUME CallsOK, CallsOK', NEW i \in DOMAIN calls, DOMAIN calls' = DOMAIN calls,
           \A j \in DOMAIN calls : j # i => calls'[j] = calls[j],
           calls'[i].batch = calls[i].batch, calls'[i].asked = calls[i].asked,
           calls[i].came = 0, calls'[i].came <= calls[i].asked
    PROVE  \A b : /\ b = calls[i].batch => Cardinality(OwedTo(b)')
                                              = Cardinality(OwedTo(b)) - calls'[i].came
                  /\ b # calls[i].batch => OwedTo(b)' = OwedTo(b)
<1>0. PICK b : b = calls[i].batch
  OBVIOUS
<1> DEFINE n == calls[i].asked
           k == calls'[i].came
           gone == {i} \X ((n - k) + 1..n)
<1>1. n \in 1..MaxAsked /\ n \in Nat /\ k \in Nat /\ k <= n /\ MaxAsked \in Nat
  <2>1. calls[i] \in CallRecords /\ calls'[i] \in CallRecords
    BY DEF CallsOK, CallFits
  <2> QED BY <2>1, RecentAssumption DEF CallRecords
<1>2. calls'[i].batch = b /\ calls'[i].asked = n
  BY <1>0
<1> HIDE DEF n, k
<1>3. ASSUME NEW c
      PROVE  OwedTo(c)' = OwedTo(c) \ IF c = b THEN gone ELSE {}
  <2>1. ASSUME NEW j \in DOMAIN calls, NEW x \in 1..MaxAsked
        PROVE  <<j, x>> \in OwedTo(c)' <=>
                  <<j, x>> \in OwedTo(c) \ IF c = b THEN gone ELSE {}
    <3>1. <<j, x>> \in OwedTo(c)' <=> calls'[j].batch = c /\ calls'[j].came + x <= calls'[j].asked
      BY <2>1 DEF OwedTo
    <3>2. <<j, x>> \in OwedTo(c) <=> calls[j].batch = c /\ calls[j].came + x <= calls[j].asked
      BY <2>1 DEF OwedTo
    <3>3. CASE j = i
      <4>1. <<j, x>> \in gone <=> x > n - k /\ x <= n
        BY <1>1, <3>3
      <4>2. <<j, x>> \in OwedTo(c) <=> b = c /\ x <= n
        BY <1>0, <1>1, <3>2, <3>3 DEF n
      <4>3. <<j, x>> \in OwedTo(c)' <=> b = c /\ k + x <= n
        BY <1>2, <3>1, <3>3 DEF k
      <4> QED BY <1>1, <4>1, <4>2, <4>3
    <3>4. CASE j # i
      BY <3>1, <3>2, <3>4
    <3> QED BY <3>3, <3>4
  <2>2. /\ OwedTo(c)' \subseteq (DOMAIN calls) \X (1..MaxAsked)
        /\ OwedTo(c) \subseteq (DOMAIN calls) \X (1..MaxAsked)
    BY DEF OwedTo
  <2> HIDE DEF gone
  <2> QED BY <2>1, <2>2
<1>4. IsFiniteSet(gone) /\ Cardinality(gone) = k
  <2> DEFINE m == n - k
  <2>1. m \in Nat /\ m <= n /\ n - m = k
    BY <1>1
  <2>2. gone = {i} \X (m + 1..n)
    OBVIOUS
  <2> HIDE DEF m, gone
  <2>3. IsFiniteSet({i} \X (m + 1..n)) /\ Cardinality({i} \X (m + 1..n)) = n - m
    BY <1>1, <2>1, PairsOfOne
  <2>4. IsFiniteSet(gone) /\ Cardinality(gone) = n - m
    BY <2>2, <2>3, Zenon
  <2>5. n - m = k
    BY <2>1
  <2> QED BY <2>4, <2>5, Zenon
<1>5. gone \subseteq OwedTo(b)
  <2>1. \A x \in (n - k) + 1..n : x \in 1..MaxAsked /\ x <= n
    BY <1>1
  <2>2. calls[i].came = 0 /\ calls[i].batch = b /\ calls[i].asked = n
    BY <1>0 DEF n
  <2> QED BY <1>1, <2>1, <2>2 DEF OwedTo
<1> HIDE DEF gone
<1>6. OwedTo(b)' = OwedTo(b) \ gone
  BY <1>3
<1>11. OwedTo(b) \cap gone = gone
  BY <1>5
<1>7. IsFiniteSet(OwedTo(b))
  BY OwedAreFinite
<1>8. Cardinality(OwedTo(b) \ gone)
        = Cardinality(OwedTo(b)) - Cardinality(OwedTo(b) \cap gone)
  BY <1>7, FS_Difference
<1>9. Cardinality(OwedTo(b)') = Cardinality(OwedTo(b)) - k
  BY <1>4, <1>6, <1>8, <1>11
<1>10. \A c : c # b => OwedTo(c)' = OwedTo(c)
  BY <1>3
<1> QED BY <1>0, <1>9, <1>10 DEF k

-----------------------------------------------------------------------------
(* What an action leaves alone                                             *)

LEMMA OwedNow ==
    ASSUME images \in Seq(Images), UniqueIds(images)
    PROVE  PlaceholdersAreOwed <=>
             \A b \in Batches : Cardinality(Waits(images, b)) <= Cardinality(OwedTo(b))
<1>1. \A b : Cardinality(PlaceholdersOf(b)) = Cardinality(Waits(images, b))
  BY PlacesAndIds DEF PlaceholdersOf
<1> QED BY <1>1 DEF PlaceholdersAreOwed

LEMMA OwedNext ==
    ASSUME images' \in Seq(Images), UniqueIds(images'),
           \A b \in Batches : Cardinality(Waits(images', b)) <= Cardinality(OwedTo(b)')
    PROVE  PlaceholdersAreOwed'
<1>1. \A b : Cardinality(PlaceholdersOf(b)') = Cardinality(Waits(images', b))
  BY PlacesAndIds DEF PlaceholdersOf
<1> QED BY <1>1 DEF PlaceholdersAreOwed

\* The placeholders grow by no more than what is owed.
LEMMA OwedStays ==
    ASSUME ListsOK, PlaceholdersAreOwed, images' = images, calls' = calls
    PROVE  PlaceholdersAreOwed'
BY DEF PlaceholdersAreOwed, PlaceholdersOf, OwedTo

LEMMA FewerWait ==
    ASSUME ListsOK, CallsOK, PlaceholdersAreOwed, calls' = calls,
           images' \in Seq(Images), UniqueIds(images'),
           \A b : Waits(images', b) \subseteq Waits(images, b)
    PROVE  PlaceholdersAreOwed'
<1>1. ASSUME NEW b \in Batches
      PROVE  Cardinality(Waits(images', b)) <= Cardinality(OwedTo(b)')
  <2>1. images \in Seq(Images) /\ UniqueIds(images)
    BY DEF ListsOK
  <2>2. IsFiniteSet(Waits(images, b)) /\ Cardinality(Waits(images, b)) \in Nat
    BY <2>1, WaitsAreFinite
  <2>3. Cardinality(Waits(images', b)) <= Cardinality(Waits(images, b))
    BY <2>2, FS_Subset
  <2>4. Cardinality(Waits(images, b)) <= Cardinality(OwedTo(b))
    BY <2>1, OwedNow
  <2>5. OwedTo(b)' = OwedTo(b)
    BY DEF OwedTo
  <2>6. Cardinality(Waits(images', b)) \in Nat /\ Cardinality(OwedTo(b)) \in Nat
    BY WaitsAreFinite, OwedAreFinite
  <2> QED BY <2>2, <2>3, <2>4, <2>5, <2>6
<1> QED BY <1>1, OwedNext

LEMMA OwedAreFiniteNext ==
    ASSUME CallsOK', NEW b
    PROVE  Cardinality(OwedTo(b)') \in Nat
<1>1. calls' \in Seq(CallRecords) /\ MaxAsked \in Nat
  BY RecentAssumption DEF CallsOK
<1>2. IsFiniteSet(DOMAIN calls') /\ IsFiniteSet(1..MaxAsked)
  BY <1>1, BegunCalls, FS_Interval
<1>3. IsFiniteSet((DOMAIN calls') \X (1..MaxAsked))
  BY <1>2, FS_Product
<1>4. OwedTo(b)' \subseteq (DOMAIN calls') \X (1..MaxAsked)
  BY DEF OwedTo
<1> QED BY <1>3, <1>4, FS_Subset, FS_CardinalityType

LEMMA NoneWaits ==
    ASSUME CallsOK', images' \in Seq(Images), UniqueIds(images'),
           \A x \in ToSet(images') : ~IsPlaceholder(x)
    PROVE  PlaceholdersAreOwed'
<1>1. ASSUME NEW b \in Batches
      PROVE  Cardinality(Waits(images', b)) <= Cardinality(OwedTo(b)')
  <2>1. Waits(images', b) = {}
    BY DEF Waits
  <2>2. Cardinality(Waits(images', b)) = 0
    BY <2>1, FS_EmptySet
  <2>3. Cardinality(OwedTo(b)') \in Nat
    BY OwedAreFiniteNext
  <2> QED BY <2>2, <2>3
<1> QED BY <1>1, OwedNext

\* The generations, when no call starts or is answered.
LEMMA PipelineKept ==
    ASSUME Pipeline, UNCHANGED <<store, last, old, calls, generated>>,
           waiting' \subseteq waiting, RequestsOK'
    PROVE  Pipeline'
<1>1. Numbered' /\ CallsOK'
  BY NumbersStay DEF Pipeline
<1>2. GeneratedOK' /\ GeneratingIsServed'
  BY DEF Pipeline, GeneratedOK, GeneratingIsServed
<1>3. Settled(store, last)'
  BY DEF Pipeline
<1> QED BY <1>1, <1>2, <1>3 DEF Pipeline

LEMMA RequestsKept ==
    ASSUME RequestsOK, last' = last, listings' = listings,
           deletions' \in Seq(DeletionRecords)
    PROVE  RequestsOK'
BY DEF RequestsOK

\* The tab's lists.
LEMMA ListsKept ==
    ASSUME Pipeline, ListsOK, UNCHANGED <<open, images, order, shown, tracked>>,
           collapsed' \in Collapsed, last' \in Nat, last <= last',
           waiting' \subseteq waiting
    PROVE  ListsOK'
<1>1. images \in Seq(Images) /\ last \in Nat
  BY DEF ListsOK, Pipeline, Numbered
<1>2. \A x \in ToSet(images) : x.id \in Nat
  <2>1. \A x \in ToSet(images) : x \in Images
    BY <1>1 DEF ToSet
  <2> QED BY <2>1, IdsAreFinite DEF Images
<1>3. \A x \in ToSet(images) : x.id <= last'
  BY <1>1, <1>2 DEF ListsOK
<1>4. OrderIsShown'
  BY DEF ListsOK, OrderIsShown
<1> QED BY <1>3, <1>4 DEF ListsOK

LEMMA ListsRegrouped ==
    ASSUME NEW s \in Seq(Images), UniqueIds(s),
           NEW ord \in Seq(Batches), IsInjective(ord),
           NEW shut \in Collapsed, Regroup(s, ord, shut), tracked' \subseteq Ids,
           \A x \in ToSet(s) : x.id <= last',
           \A x \in ToSet(s) : x.kind = "again" => \A w \in waiting' : w.id # x.id,
           open' \/ \A x \in ToSet(s) : ~IsPlaceholder(x)
    PROVE  ListsOK' /\ images' = s
<1>1. /\ images' = s
      /\ order' \in Seq(Batches) /\ shown' \in Seq(Batches)
      /\ OrderIsShown' /\ collapsed' \in Collapsed
  BY RegroupStep
<1> QED BY <1>1 DEF ListsOK

\* The panels, rendered or left alone.
LEMMA PanelsRendered ==
    ASSUME ListsOK', open' \in BOOLEAN, view' \in [loading : BOOLEAN, error : BOOLEAN],
           picks' \in Selections, forced' \in Selections,
           NEW kept \in Selections, Render(kept)
    PROVE  PanelsOK'
<1>1. images' \in Seq(Images) /\ shown' \in Seq(Batches) /\ OrderIsShown'
  BY DEF ListsOK
<1> QED BY <1>1, RenderStep

LEMMA PanelsKept ==
    ASSUME PanelsOK, UNCHANGED <<open, view, images, shown, forced, picks, stored, panel>>
    PROVE  PanelsOK'
BY DEF PanelsOK, Ready, PickIsKept, Displayed

LEMMA TabKept ==
    ASSUME IInv, UNCHANGED <<tab, storage>>, calls' = calls,
           last' \in Nat, last <= last', waiting' \subseteq waiting
    PROVE  ListsOK' /\ PanelsOK' /\ PlaceholdersAreOwed'
<1>1. /\ UNCHANGED <<open, view, images, order, shown, collapsed, forced, tracked, panel>>
      /\ UNCHANGED <<picks, stored>>
  BY DEF tab, lists, storage
<1>2. ListsOK'
  <2>1. collapsed' \in Collapsed
    BY <1>1 DEF IInv, ListsOK
  <2> QED BY <1>1, <2>1, ListsKept DEF IInv
<1>3. PanelsOK'
  BY <1>1, PanelsKept DEF IInv
<1>4. PlaceholdersAreOwed'
  BY <1>1, OwedStays DEF IInv
<1> QED BY <1>2, <1>3, <1>4

\* What a tab that shows no images has.
LEMMA PanelsOfNone ==
    ASSUME open' \in BOOLEAN, view' \in [loading : BOOLEAN, error : BOOLEAN],
           picks' \in Selections, stored' \in Selections, forced' \in Selections,
           panel' \in [Batches -> PanelState], ~Ready'
    PROVE  PanelsOK'
BY DEF PanelsOK, PickIsKept

-----------------------------------------------------------------------------
(* The first state, and opening and leaving the tab                        *)

LEMMA NoBatches ==
    /\ <<>> \in Seq(Batches) /\ <<>> \in Seq(Images)
    /\ ToSet(<<>>) = {} /\ BatchesOf(<<>>) = {}
    /\ IsInjective(<<>>) /\ UniqueIds(<<>>)
    /\ NoBatch \in Selections
    /\ [b \in Batches |-> NoPanel] \in [Batches -> PanelState]
<1>1. DOMAIN <<>> = {}
  OBVIOUS
<1>2. <<>> \in Seq(Batches) /\ <<>> \in Seq(Images)
  OBVIOUS
<1>3. ToSet(<<>>) = {} /\ BatchesOf(<<>>) = {} /\ IsInjective(<<>>) /\ UniqueIds(<<>>)
  BY <1>1, Zenon DEF ToSet, BatchesOf, IsInjective, UniqueIds
<1>4. NoBatch \in Selections
  BY DEF NoBatch, Selections
<1>5. NoPanel \in PanelState
  BY DEF NoPanel, PanelState
<1> QED BY <1>2, <1>3, <1>4, <1>5

LEMMA NewListing ==
    ASSUME NEW sel \in Selections, NEW n
    PROVE  Listing(sel) \in ListingRecords /\ Settled(Listing(sel).seen, n)
<1>1. Listing(sel).seen = <<>>
  BY DEF Listing
<1>2. <<>> \in Seq(Images) /\ UniqueIds(<<>>) /\ ToSet(<<>>) = {}
  BY NoBatches
<1>3. Listing(sel) \in ListingRecords
  BY <1>2 DEF Listing, ListingRecords
<1>4. Settled(<<>>, n)
  BY <1>2 DEF Settled
<1> QED BY <1>1, <1>3, <1>4

LEMMA InitHolds == Init => IInv
<1> SUFFICES ASSUME Init PROVE IInv
  OBVIOUS
<1> USE DEF Init
<1> DEFINE n == Len(Initial)
<1>1. Initial \in Seq(Batches) /\ n \in Nat /\ DOMAIN Initial = 1..n
      /\ MaxAsked \in Nat /\ MaxCalls \in Nat
  BY RecentAssumption
<1>2. n <= MaxId /\ MaxId \in Nat
  <2>2. MaxId \in Nat
    BY IdsAreFinite
  <2> DEFINE p == 2 * MaxAsked * MaxCalls
  <2>3. p \in Nat
    BY <1>1
  <2>4. MaxId = n + p
    BY DEF MaxId
  <2> HIDE DEF p, n, Init
  <2> QED BY <1>1, <2>2, <2>3, <2>4
<1>3. Numbered
  <2>1. calls = <<>> /\ Len(calls) = 0 /\ DOMAIN calls = {}
    OBVIOUS
  <2>2. Begun(calls) = {}
    BY <2>1 DEF Begun
  <2>3. Len(calls) + Cardinality(Begun(calls)) = 0
    <3>1. Cardinality(Begun(calls)) = 0
      BY <2>2, FS_EmptySet
    <3> HIDE DEF Init
    <3> QED BY <2>1, <3>1
  <2>4. MaxAsked * 0 = 0
    BY <1>1
  <2> QED BY <1>1, <2>3, <2>4 DEF Numbered
<1>4. CallsOK
  <2>1. calls = <<>> /\ calls \in Seq(CallRecords) /\ Len(calls) = 0 /\ DOMAIN calls = {}
    OBVIOUS
  <2> QED BY <1>1, <2>1 DEF CallsOK
<1>5. GeneratedOK /\ GeneratingIsServed
  BY DEF GeneratedOK, GeneratingIsServed
<1>6. Settled(store, last)
  <2>1. \A i \in DOMAIN Initial : i \in Ids /\ Initial[i] \in Batches
    BY <1>1, <1>2 DEF Ids
  <2>2. \A i \in DOMAIN Initial :
           [id |-> i, batch |-> Initial[i], kind |-> "image"] \in Images
    BY <2>1 DEF Images, Kinds
  <2>3. /\ DOMAIN store = 1..n
        /\ \A i \in 1..n : store[i] = [id |-> i, batch |-> Initial[i], kind |-> "image"]
    BY <1>1
  <2>4. store \in Seq(Images)
    <3>1. store \in [1..n -> Images]
      BY <1>1, <2>2, <2>3
    <3> QED BY <1>1, <3>1
  <2>5. UniqueIds(store)
    BY <2>3 DEF UniqueIds
  <2>6. \A x \in ToSet(store) : x.id <= last /\ ~IsPlaceholder(x)
    BY <1>1, <2>3 DEF ToSet, IsPlaceholder
  <2> QED BY <2>4, <2>5, <2>6 DEF Settled
<1>7. RequestsOK
  <2>1. Listing(NoBatch) \in ListingRecords /\ Settled(Listing(NoBatch).seen, last)
    BY NoBatches, NewListing
  <2>2. listings = <<Listing(NoBatch)>> /\ deletions = <<>>
    OBVIOUS
  <2> HIDE DEF Init
  <2>3. listings \in Seq(ListingRecords) /\ \A i \in DOMAIN listings : listings[i] = Listing(NoBatch)
    BY <2>1, <2>2
  <2>4. deletions \in Seq(DeletionRecords)
    BY <2>2
  <2> QED BY <2>1, <2>3, <2>4 DEF RequestsOK
<1>8. ListsOK
  <2>1. images = <<>> /\ order = <<>> /\ shown = <<>> /\ tracked = {}
    OBVIOUS
  <2>2. collapsed \in Collapsed
    BY DEF Collapsed
  <2> HIDE DEF Init
  <2> QED BY <2>1, <2>2, NoBatches DEF ListsOK, OrderIsShown
<1>9. PanelsOK
  <2>1. view \in [loading : BOOLEAN, error : BOOLEAN] /\ open \in BOOLEAN /\ ~Ready
    BY DEF Ready
  <2>2. picks = NoBatch /\ stored = NoBatch /\ forced = NoBatch
        /\ panel = [b \in Batches |-> NoPanel]
    OBVIOUS
  <2> HIDE DEF Init
  <2> QED BY <2>1, <2>2, NoBatches DEF PanelsOK, PickIsKept
<1>10. PlaceholdersAreOwed
  <2>1. images = <<>>
    OBVIOUS
  <2> HIDE DEF Init
  <2>2. ASSUME NEW b \in Batches
        PROVE  Cardinality(Waits(images, b)) <= Cardinality(OwedTo(b))
    <3>1. Waits(images, b) = {}
      BY <2>1, NoBatches DEF Waits
    <3>2. Cardinality(Waits(images, b)) = 0
      BY <3>1, FS_EmptySet
    <3> QED BY <1>4, <3>2, OwedAreFinite
  <2>3. images \in Seq(Images) /\ UniqueIds(images)
    BY <2>1, NoBatches
  <2> QED BY <2>2, <2>3, OwedNow
<1> QED BY <1>3, <1>4, <1>5, <1>6, <1>7, <1>8, <1>9, <1>10 DEF IInv, Pipeline

\* A listing is added, or is no longer awaited.
LEMMA ListingAdded ==
    ASSUME RequestsOK, last' = last, NEW sel \in Selections,
           listings' = Append(listings, Listing(sel)),
           deletions' \in Seq(DeletionRecords)
    PROVE  RequestsOK'
<1> DEFINE new == Listing(sel)
<1>1. listings \in Seq(ListingRecords) /\ \A i \in DOMAIN listings : Settled(listings[i].seen, last)
  BY DEF RequestsOK
<1>2. new \in ListingRecords /\ Settled(new.seen, last)
  BY NewListing
<1>3. listings' = Append(listings, new)
  OBVIOUS
<1> HIDE DEF new
<1>4. listings' \in Seq(ListingRecords)
  BY <1>1, <1>2, <1>3
<1>5. \A i \in DOMAIN listings' : \/ listings'[i] = new
                                  \/ i \in DOMAIN listings /\ listings'[i] = listings[i]
  BY <1>1, <1>2, <1>3
<1>6. \A i \in DOMAIN listings' : Settled(listings'[i].seen, last')
  BY <1>1, <1>2, <1>5
<1> QED BY <1>4, <1>6 DEF RequestsOK

LEMMA ListingGone ==
    ASSUME RequestsOK, last' = last, NEW i \in DOMAIN listings,
           listings' = RemoveAt(listings, i), deletions' = deletions
    PROVE  RequestsOK'
<1>1. listings \in Seq(ListingRecords) /\ \A j \in DOMAIN listings : Settled(listings[j].seen, last)
  BY DEF RequestsOK
<1>2. /\ listings' \in Seq(ListingRecords)
      /\ \A k \in DOMAIN listings' : /\ listings'[k] = listings[OldAt(i, k)]
                                     /\ OldAt(i, k) \in DOMAIN listings
  BY <1>1, RemovedPlaces
<1>3. \A k \in DOMAIN listings' : Settled(listings'[k].seen, last')
  BY <1>1, <1>2
<1> QED BY <1>2, <1>3 DEF RequestsOK

LEMMA MountKeeps == IInv /\ Mount => IInv'
<1> SUFFICES ASSUME IInv, Mount PROVE IInv'
  OBVIOUS
<1>1. /\ open' = TRUE /\ view' = [loading |-> TRUE, error |-> FALSE]
      /\ images' = <<>> /\ order' = <<>> /\ shown' = <<>>
      /\ forced' = picks /\ tracked' = {}
      /\ waiting' \subseteq waiting
      /\ listings' = Append(listings, Listing(NoBatch))
      /\ UNCHANGED <<store, last, old, calls, generated, picks, stored, collapsed,
                     panel, deletions>>
  BY DEF Mount, server
<1>2. RequestsOK'
  <2>1. RequestsOK /\ deletions' \in Seq(DeletionRecords)
    BY <1>1 DEF IInv, Pipeline, RequestsOK
  <2> QED BY <1>1, <2>1, NoBatches, ListingAdded
<1>3. Pipeline'
  BY <1>1, <1>2, PipelineKept DEF IInv
<1>4. ListsOK'
  <2>1. collapsed' \in Collapsed
    BY <1>1 DEF IInv, ListsOK
  <2> QED BY <1>1, <2>1, NoBatches DEF ListsOK, OrderIsShown
<1>5. PanelsOK'
  <2>1. view' \in [loading : BOOLEAN, error : BOOLEAN] /\ ~Ready'
    BY <1>1 DEF Ready
  <2>2. /\ picks' \in Selections /\ stored' \in Selections /\ forced' \in Selections
        /\ panel' \in [Batches -> PanelState]
    BY <1>1 DEF IInv, PanelsOK
  <2> QED BY <1>1, <2>1, <2>2, PanelsOfNone
<1>6. PlaceholdersAreOwed'
  BY <1>1, <1>3, NoBatches, NoneWaits DEF Pipeline
<1> QED BY <1>3, <1>4, <1>5, <1>6 DEF IInv

LEMMA UnmountKeeps == IInv /\ Unmount => IInv'
<1> SUFFICES ASSUME IInv, Unmount PROVE IInv'
  OBVIOUS
<1>1. /\ open' = FALSE /\ view' = [loading |-> FALSE, error |-> FALSE]
      /\ images' = <<>> /\ order' = <<>> /\ shown' = <<>>
      /\ forced' = NoBatch /\ tracked' = {}
      /\ panel' = [b \in Batches |-> NoPanel]
      /\ listings' = <<>>
      /\ deletions' = [i \in DOMAIN deletions |-> [deletions[i] EXCEPT !.mine = FALSE]]
      /\ UNCHANGED <<store, last, old, calls, generated, waiting, picks, stored, collapsed>>
  BY DEF Unmount, server, pipeline, storage
<1>2. RequestsOK'
  <2>1. deletions \in Seq(DeletionRecords)
    BY DEF IInv, Pipeline, RequestsOK
  <2>2. Len(deletions) \in Nat /\ DOMAIN deletions = 1..Len(deletions)
    BY <2>1
  <2>3. ASSUME NEW i \in DOMAIN deletions
        PROVE  [deletions[i] EXCEPT !.mine = FALSE] \in DeletionRecords
    <3>1. deletions[i] \in DeletionRecords
      BY <2>1
    <3> QED BY <3>1 DEF DeletionRecords
  <2>4. deletions' \in [1..Len(deletions) -> DeletionRecords]
    BY <1>1, <2>2, <2>3
  <2>5. deletions' \in Seq(DeletionRecords)
    BY <2>2, <2>4
  <2> QED BY <1>1, <2>5 DEF RequestsOK
<1>3. Pipeline'
  BY <1>1, <1>2, PipelineKept DEF IInv
<1>4. ListsOK'
  <2>1. collapsed' \in Collapsed
    BY <1>1 DEF IInv, ListsOK
  <2> QED BY <1>1, <2>1, NoBatches DEF ListsOK, OrderIsShown
<1>5. PanelsOK'
  <2>1. view' \in [loading : BOOLEAN, error : BOOLEAN] /\ ~Ready'
    BY <1>1 DEF Ready
  <2>2. /\ picks' \in Selections /\ stored' \in Selections /\ forced' \in Selections
        /\ panel' \in [Batches -> PanelState]
    BY <1>1, NoBatches DEF IInv, PanelsOK
  <2> QED BY <1>1, <2>1, <2>2, PanelsOfNone
<1>6. PlaceholdersAreOwed'
  BY <1>1, <1>3, NoBatches, NoneWaits DEF Pipeline
<1> QED BY <1>3, <1>4, <1>5, <1>6 DEF IInv

LEMMA TimeKeeps == IInv /\ TimePasses => IInv'
<1> SUFFICES ASSUME IInv, TimePasses PROVE IInv'
  OBVIOUS
<1>1. old' = last /\ UNCHANGED <<server, pipeline, storage, tab, requests>>
  BY DEF TimePasses
<1>2. UNCHANGED <<store, last, calls, generated, waiting, listings, deletions>>
  BY <1>1 DEF server, pipeline, requests
<1>3. last \in Nat
  BY DEF IInv, Pipeline, Numbered
<1>4. ListsOK' /\ PanelsOK' /\ PlaceholdersAreOwed'
  BY <1>1, <1>2, <1>3, TabKept
<1>5. Numbered'
  BY <1>1, <1>2 DEF IInv, Pipeline, Numbered
<1>6. CallsOK' /\ GeneratedOK' /\ GeneratingIsServed' /\ Settled(store, last)' /\ RequestsOK'
  BY <1>2 DEF IInv, Pipeline, CallsOK, GeneratedOK, GeneratingIsServed, RequestsOK
<1> QED BY <1>4, <1>5, <1>6 DEF IInv, Pipeline

-----------------------------------------------------------------------------
(* Listings                                                                *)

LEMMA ListAnsweredKeeps ==
    ASSUME IInv, NEW i \in DOMAIN listings, ListAnswered(i) PROVE IInv'
<1>1. /\ listings' = [listings EXCEPT ![i].seen = store, ![i].answered = TRUE]
      /\ UNCHANGED <<server, old, pipeline, storage, tab, deletions>>
  BY DEF ListAnswered
<1>2. UNCHANGED <<store, last, old, calls, generated, waiting>>
  BY <1>1 DEF server, pipeline
<1>3. /\ listings \in Seq(ListingRecords) /\ Settled(store, last)
      /\ \A j \in DOMAIN listings : Settled(listings[j].seen, last)
      /\ deletions \in Seq(DeletionRecords)
  BY DEF IInv, Pipeline, RequestsOK
<1> DEFINE new == [listings[i] EXCEPT !.seen = store, !.answered = TRUE]
<1>4. new \in ListingRecords /\ new.seen = store
  <2>1. listings[i] \in ListingRecords /\ store \in Seq(Images)
    BY <1>3 DEF Settled
  <2> QED BY <2>1 DEF ListingRecords
<1>5. listings' = [listings EXCEPT ![i] = new]
  BY <1>1
<1> HIDE DEF new
<1>6. listings' \in Seq(ListingRecords)
  BY <1>3, <1>4, <1>5
<1>7. \A j \in DOMAIN listings' : Settled(listings'[j].seen, last')
  <2> TAKE j \in DOMAIN listings'
  <2>1. j \in DOMAIN listings
    BY <1>5
  <2>2. j = i => listings'[j] = new
    BY <1>5
  <2>3. j # i => listings'[j] = listings[j]
    BY <1>5, <2>1
  <2> QED BY <1>2, <1>3, <1>4, <2>1, <2>2, <2>3
<1>8. RequestsOK'
  BY <1>1, <1>3, <1>6, <1>7 DEF RequestsOK
<1>9. Pipeline'
  BY <1>2, <1>8, PipelineKept DEF IInv
<1>10. ListsOK' /\ PanelsOK' /\ PlaceholdersAreOwed'
  <2>1. last \in Nat
    BY DEF IInv, Pipeline, Numbered
  <2> QED BY <1>1, <1>2, <2>1, TabKept
<1> QED BY <1>9, <1>10 DEF IInv

\* A placeholder is kept by a listing only when it has the name of another:
\* none is.
LEMMA NoneSurvives ==
    ASSUME ListsOK
    PROVE  Survivors = <<>>
<1> DEFINE P == {i \in DOMAIN images :
                   images[i].kind = "again" /\ \E w \in waiting : w.id = images[i].id}
<1>1. P = {}
  BY DEF ListsOK, ToSet
<1>2. Survivors = Kept(images, {})
  BY <1>1 DEF Survivors
<1>3. /\ images \in Seq(Images) /\ {} \in SUBSET (DOMAIN images) /\ Cardinality({}) = 0
  BY FS_EmptySet DEF ListsOK
<1>4. Kept(images, {}) \in Seq(Images) /\ Len(Kept(images, {})) = 0
  BY <1>3, KeptMembers
<1> QED BY <1>2, <1>4

LEMMA ListLandsKeeps ==
    ASSUME IInv, NEW i \in DOMAIN listings, ListLands(i) PROVE IInv'
<1> DEFINE seen == listings[i].seen
           sel  == listings[i].sel
           kept == [b \in Batches |-> IF b \in BatchesOf(seen) THEN sel[b] ELSE None]
<1>1. /\ Regroup(Survivors \o seen, order, collapsed)
      /\ forced' = kept \/ forced' = forced
      /\ view' = [view EXCEPT !.loading = FALSE]
      /\ listings' = RemoveAt(listings, i)
      /\ open' = open /\ Render(stored)
      /\ UNCHANGED <<server, old, pipeline, picks, tracked, deletions>>
  BY DEF ListLands
<1>2. UNCHANGED <<store, last, old, calls, generated, waiting>>
  BY <1>1 DEF server, pipeline
<1>3. RequestsOK'
  BY <1>1, <1>2, ListingGone DEF IInv, Pipeline
<1>4. Pipeline'
  BY <1>2, <1>3, PipelineKept DEF IInv
<1>5. /\ seen \in Seq(Images) /\ UniqueIds(seen)
      /\ \A x \in ToSet(seen) : x.id <= last /\ ~IsPlaceholder(x)
      /\ sel \in Selections
  <2>1. listings[i] \in ListingRecords /\ Settled(seen, last)
    BY DEF IInv, Pipeline, RequestsOK
  <2> QED BY <2>1 DEF Settled, ListingRecords
<1>6. kept \in Selections
  BY <1>5 DEF Selections
<1> HIDE DEF kept, seen, sel
<1>7. Survivors \o seen = seen
  <2>1. Survivors = <<>>
    BY NoneSurvives DEF IInv
  <2>2. <<>> \o seen = seen
    BY <1>5
  <2> QED BY <2>1, <2>2
<1>8. ListsOK' /\ images' = seen
  <2>1. order \in Seq(Batches) /\ IsInjective(order) /\ collapsed \in Collapsed
        /\ tracked \subseteq Ids
    BY DEF IInv, ListsOK, OrderIsShown
  <2>2. Regroup(seen, order, collapsed)
    BY <1>1, <1>7
  <2>3. \A x \in ToSet(seen) : x.kind # "again"
    BY <1>5 DEF IsPlaceholder
  <2> QED BY <1>1, <1>2, <1>5, <2>1, <2>2, <2>3, ListsRegrouped
<1>9. PanelsOK'
  <2>1. /\ open' \in BOOLEAN /\ view \in [loading : BOOLEAN, error : BOOLEAN]
        /\ picks' \in Selections /\ forced' \in Selections /\ stored \in Selections
    BY <1>1, <1>6 DEF IInv, PanelsOK
  <2>2. view' \in [loading : BOOLEAN, error : BOOLEAN]
    BY <1>1, <2>1
  <2> QED BY <1>1, <1>8, <2>1, <2>2, PanelsRendered
<1>10. PlaceholdersAreOwed'
  BY <1>4, <1>5, <1>8, NoneWaits DEF Pipeline
<1> QED BY <1>4, <1>8, <1>9, <1>10 DEF IInv

\* A rendering of a tab whose lists stay: whatever its state and selections.
LEMMA RenderedAgain ==
    ASSUME IInv, Pipeline', UNCHANGED <<open, images, order, shown, forced, picks, tracked>>,
           UNCHANGED <<last, calls, waiting>>, collapsed' \in Collapsed,
           view' \in [loading : BOOLEAN, error : BOOLEAN],
           NEW kept \in Selections, Render(kept)
    PROVE  IInv'
<1>1. last \in Nat
  BY DEF IInv, Pipeline, Numbered
<1>2. ListsOK'
  BY <1>1, ListsKept DEF IInv
<1>3. PanelsOK'
  <2>1. open' \in BOOLEAN /\ picks' \in Selections /\ forced' \in Selections
    BY DEF IInv, PanelsOK
  <2> QED BY <1>2, <2>1, PanelsRendered
<1>4. PlaceholdersAreOwed'
  BY OwedStays DEF IInv
<1> QED BY <1>2, <1>3, <1>4 DEF IInv

LEMMA ListFailsKeeps ==
    ASSUME IInv, NEW i \in DOMAIN listings, ListFails(i) PROVE IInv'
<1>1. /\ view' = [loading |-> FALSE, error |-> TRUE]
      /\ listings' = RemoveAt(listings, i)
      /\ UNCHANGED <<open, lists, forced>> /\ Render(stored)
      /\ UNCHANGED <<server, old, pipeline, picks, tracked, deletions>>
  BY DEF ListFails
<1>2. UNCHANGED <<store, last, old, calls, generated, waiting, images, order, shown, collapsed>>
  BY <1>1 DEF server, pipeline, lists
<1>3. RequestsOK'
  BY <1>1, <1>2, ListingGone DEF IInv, Pipeline
<1>4. Pipeline'
  BY <1>2, <1>3, PipelineKept DEF IInv
<1>5. collapsed' \in Collapsed /\ stored \in Selections
  BY <1>2 DEF IInv, ListsOK, PanelsOK
<1>6. view' \in [loading : BOOLEAN, error : BOOLEAN]
  BY <1>1
<1> QED BY <1>1, <1>2, <1>4, <1>5, <1>6, RenderedAgain

-----------------------------------------------------------------------------
(* Deletions                                                               *)

\* A step that changes what is under way of the deletions alone.
LEMMA DeletionsMove ==
    ASSUME IInv, deletions' \in Seq(DeletionRecords),
           UNCHANGED <<last, old, pipeline, storage, tab, listings>>, Settled(store, last)'
    PROVE  IInv'
<1>1. UNCHANGED <<calls, generated, waiting>>
  BY DEF pipeline
<1>2. RequestsOK'
  BY RequestsKept DEF IInv, Pipeline
<1>3. Pipeline'
  <2>1. Numbered' /\ CallsOK'
    BY <1>1, NumbersStay DEF IInv, Pipeline
  <2>2. GeneratedOK' /\ GeneratingIsServed'
    BY <1>1 DEF IInv, Pipeline, GeneratedOK, GeneratingIsServed
  <2> QED BY <1>2, <2>1, <2>2 DEF Pipeline
<1>4. ListsOK' /\ PanelsOK' /\ PlaceholdersAreOwed'
  <2>1. last \in Nat
    BY DEF IInv, Pipeline, Numbered
  <2> QED BY <1>1, <2>1, TabKept
<1> QED BY <1>3, <1>4 DEF IInv

LEMMA OneDeletion ==
    ASSUME IInv, NEW i \in DOMAIN deletions
    PROVE  /\ deletions \in Seq(DeletionRecords) /\ deletions[i] \in DeletionRecords
           /\ \A d \in DeletionRecords : [deletions EXCEPT ![i] = d] \in Seq(DeletionRecords)
           /\ RemoveAt(deletions, i) \in Seq(DeletionRecords)
<1>1. deletions \in Seq(DeletionRecords)
  BY DEF IInv, Pipeline, RequestsOK
<1>2. RemoveAt(deletions, i) \in Seq(DeletionRecords)
  BY <1>1, RemoveAtMembers
<1> QED BY <1>1, <1>2

LEMMA ServerDeletesKeeps ==
    ASSUME IInv, NEW i \in DOMAIN deletions, NEW id, ServerDeletes(i, id) PROVE IInv'
<1> DEFINE d == deletions[i]
           new == [d EXCEPT !.todo = @ \ {id}, !.failed = @ \/ id \notin IdsOf(store)]
<1>1. /\ store' = Without(store, {id})
      /\ deletions' = [deletions EXCEPT ![i].todo = @ \ {id},
                         ![i].failed = @ \/ id \notin IdsOf(store)]
      /\ UNCHANGED <<last, old, pipeline, storage, tab, listings>>
  BY DEF ServerDeletes
<1>2. d \in DeletionRecords
  BY OneDeletion
<1>3. new \in DeletionRecords
  BY <1>2 DEF DeletionRecords
<1>4. deletions' = [deletions EXCEPT ![i] = new]
  BY <1>1
<1> HIDE DEF new, d
<1>5. deletions' \in Seq(DeletionRecords)
  BY <1>3, <1>4, OneDeletion
<1>6. Settled(store, last)'
  <2>1. store \in Seq(Images) /\ UniqueIds(store)
        /\ \A x \in ToSet(store) : x.id <= last /\ ~IsPlaceholder(x)
    BY DEF IInv, Pipeline, Settled
  <2>2. /\ store' \in Seq(Images) /\ UniqueIds(store')
        /\ ToSet(store') = {x \in ToSet(store) : x.id \notin {id}}
    BY <1>1, <2>1, WithoutImages
  <2> QED BY <1>1, <2>1, <2>2 DEF Settled
<1> QED BY <1>1, <1>5, <1>6, DeletionsMove

LEMMA StoreStays ==
    ASSUME IInv, UNCHANGED server
    PROVE  Settled(store, last)' /\ last' = last
BY DEF IInv, Pipeline, server

LEMMA ServerRefusesKeeps ==
    ASSUME IInv, NEW i \in DOMAIN deletions, NEW id, ServerRefuses(i, id) PROVE IInv'
<1> DEFINE d == deletions[i]
           new == [d EXCEPT !.todo = @ \ {id}, !.failed = TRUE]
<1>1. /\ deletions' = [deletions EXCEPT ![i].todo = @ \ {id}, ![i].failed = TRUE]
      /\ UNCHANGED <<server, old, pipeline, storage, tab, listings>>
  BY DEF ServerRefuses
<1>2. d \in DeletionRecords
  BY OneDeletion
<1>3. new \in DeletionRecords
  BY <1>2 DEF DeletionRecords
<1>4. deletions' = [deletions EXCEPT ![i] = new]
  BY <1>1
<1> HIDE DEF new, d
<1>5. deletions' \in Seq(DeletionRecords)
  BY <1>3, <1>4, OneDeletion
<1> QED BY <1>1, <1>5, StoreStays, DeletionsMove

LEMMA DeleteEndsKeeps ==
    ASSUME IInv, NEW i \in DOMAIN deletions, DeleteEnds(i) PROVE IInv'
<1>1. /\ deletions' = RemoveAt(deletions, i)
      /\ UNCHANGED <<server, old, pipeline, storage, tab, listings>>
  BY DEF DeleteEnds
<1>2. deletions' \in Seq(DeletionRecords)
  BY <1>1, OneDeletion
<1> QED BY <1>1, <1>2, StoreStays, DeletionsMove

\* What is left is part of what was shown.
LEMMA LeftImages ==
    ASSUME ListsOK, NEW d
    PROVE  /\ Left(d) \in Seq(Images) /\ UniqueIds(Left(d))
           /\ ToSet(Left(d)) \subseteq ToSet(images)
<1>1. images \in Seq(Images) /\ UniqueIds(images)
  BY DEF ListsOK
<1> QED BY <1>1, KeptImages DEF Left

LEMMA DeleteDoneKeeps ==
    ASSUME IInv, NEW i \in DOMAIN deletions, DeleteDone(i) PROVE IInv'
<1> DEFINE d == deletions[i]
           ord == IF d.alone THEN NotIn(order, d.batch) ELSE order
<1>1. /\ Regroup(Left(d), ord, collapsed)
      /\ deletions' = RemoveAt(deletions, i)
      /\ UNCHANGED <<open, view, forced>> /\ Render(stored)
      /\ UNCHANGED <<server, old, pipeline, picks, tracked, listings>>
  BY DEF DeleteDone
<1> HIDE DEF d
<1>2. UNCHANGED <<store, last, old, calls, generated, waiting>>
  BY <1>1 DEF server, pipeline
<1>3. RequestsOK'
  <2>1. deletions' \in Seq(DeletionRecords)
    BY <1>1, OneDeletion
  <2> QED BY <1>1, <1>2, <2>1, RequestsKept DEF IInv, Pipeline
<1>4. Pipeline'
  BY <1>2, <1>3, PipelineKept DEF IInv
<1>5. ord \in Seq(Batches) /\ IsInjective(ord)
  <2>1. order \in Seq(Batches) /\ IsInjective(order)
    BY DEF IInv, ListsOK, OrderIsShown
  <2> QED BY <2>1, OrderWithout
<1> HIDE DEF ord
<1>6. /\ Left(d) \in Seq(Images) /\ UniqueIds(Left(d))
      /\ ToSet(Left(d)) \subseteq ToSet(images)
  BY LeftImages DEF IInv
<1>7. ListsOK' /\ images' = Left(d)
  <2>1. collapsed \in Collapsed /\ tracked' \subseteq Ids
    BY <1>1 DEF IInv, ListsOK
  <2>2. /\ \A x \in ToSet(Left(d)) : x.id <= last'
        /\ \A x \in ToSet(Left(d)) : x.kind = "again" => \A w \in waiting' : w.id # x.id
        /\ open' \/ \A x \in ToSet(Left(d)) : ~IsPlaceholder(x)
    BY <1>1, <1>2, <1>6 DEF IInv, ListsOK
  <2> QED BY <1>1, <1>5, <1>6, <2>1, <2>2, ListsRegrouped
<1>8. PanelsOK'
  <2>1. /\ open' \in BOOLEAN /\ view' \in [loading : BOOLEAN, error : BOOLEAN]
        /\ picks' \in Selections /\ forced' \in Selections /\ stored \in Selections
    BY <1>1 DEF IInv, PanelsOK
  <2> QED BY <1>1, <1>7, <2>1, PanelsRendered
<1>9. PlaceholdersAreOwed'
  <2>1. \A b : Waits(images', b) \subseteq Waits(images, b)
    BY <1>6, <1>7 DEF Waits
  <2> QED BY <1>2, <1>6, <1>7, <2>1, FewerWait DEF IInv, Pipeline
<1> QED BY <1>4, <1>7, <1>8, <1>9 DEF IInv

LEMMA DeleteFailsKeeps ==
    ASSUME IInv, NEW i \in DOMAIN deletions, DeleteFails(i) PROVE IInv'
<1> DEFINE d == deletions[i]
           new == [d EXCEPT !.mine = FALSE]
<1>1. /\ deletions' = [deletions EXCEPT ![i].mine = FALSE]
      /\ listings' = Append(listings, Listing(d.sel))
      /\ view' = [loading |-> TRUE, error |-> FALSE]
      /\ UNCHANGED <<open, lists, forced>> /\ Render(stored)
      /\ UNCHANGED <<server, old, pipeline, picks, tracked>>
  BY DEF DeleteFails
<1>2. d \in DeletionRecords
  BY OneDeletion
<1>3. new \in DeletionRecords /\ d.sel \in Selections
  BY <1>2 DEF DeletionRecords
<1>4. deletions' = [deletions EXCEPT ![i] = new]
  BY <1>1
<1> HIDE DEF new, d
<1>5. deletions' \in Seq(DeletionRecords)
  BY <1>3, <1>4, OneDeletion
<1>6. UNCHANGED <<store, last, old, calls, generated, waiting, images, order, shown, collapsed>>
  BY <1>1 DEF server, pipeline, lists
<1>7. RequestsOK'
  BY <1>1, <1>3, <1>5, <1>6, ListingAdded DEF IInv, Pipeline
<1>8. Pipeline'
  BY <1>6, <1>7, PipelineKept DEF IInv
<1>9. collapsed' \in Collapsed /\ stored \in Selections
  BY <1>6 DEF IInv, ListsOK, PanelsOK
<1>10. view' \in [loading : BOOLEAN, error : BOOLEAN]
  BY <1>1
<1> QED BY <1>1, <1>6, <1>8, <1>9, <1>10, RenderedAgain

\* A deletion is asked for.
LEMMA DeletionAdded ==
    ASSUME IInv, NEW ids \in SUBSET Ids, NEW b \in Batches, NEW whole \in BOOLEAN,
           NEW alone \in BOOLEAN, Delete(ids, b, whole, alone)
    PROVE  deletions' \in Seq(DeletionRecords)
<1> DEFINE new == [todo |-> ids, all |-> ids, batch |-> b, whole |-> whole,
                   alone |-> alone, sel |-> forced, mine |-> TRUE, failed |-> FALSE]
<1>1. new \in DeletionRecords
  <2>1. forced \in Selections
    BY DEF IInv, PanelsOK
  <2> QED BY <2>1 DEF DeletionRecords
<1>2. deletions' = Append(deletions, new)
  BY DEF Delete
<1> HIDE DEF new
<1>3. deletions \in Seq(DeletionRecords)
  BY DEF IInv, Pipeline, RequestsOK
<1> QED BY <1>1, <1>2, <1>3

LEMMA DeleteBatchKeeps ==
    ASSUME IInv, NEW b \in Batches, DeleteBatch(b) PROVE IInv'
<1>1. /\ Delete(IdsIn(images, b), b, TRUE, TRUE)
      /\ UNCHANGED <<server, old, pipeline, storage, tab, listings>>
  BY DEF DeleteBatch
<1>2. IdsIn(images, b) \in SUBSET Ids
  <2>1. images \in Seq(Images)
    BY DEF IInv, ListsOK
  <2> QED BY <2>1, BatchIds
<1>3. deletions' \in Seq(DeletionRecords)
  BY <1>1, <1>2, DeletionAdded
<1> QED BY <1>1, <1>3, StoreStays, DeletionsMove

-----------------------------------------------------------------------------
(* Panels that change alone                                                *)

\* A panel shows what it has selected.
LEMMA SelectedIsDisplayed ==
    ASSUME IInv, Ready, NEW b \in ToSet(shown)
    PROVE  /\ b \in Batches /\ panel[b] \in PanelState
           /\ panel[b].sel \in IdsIn(images, b)
           /\ panel[b].at \in DOMAIN Group(images, b)
           /\ Displayed(b) = panel[b].sel
<1>1. images \in Seq(Images) /\ ToSet(shown) = BatchesOf(images)
  BY DEF IInv, ListsOK, OrderIsShown
<1>2. b \in Batches
  BY <1>1, BatchIds
<1>3. /\ panel[b] \in PanelState /\ panel[b].sel \in IdsIn(images, b)
      /\ panel[b].at \in DOMAIN Group(images, b)
  BY <1>2 DEF IInv, PanelsOK
<1>4. ToSet(Group(images, b)) = IdsIn(images, b)
  BY <1>1, GroupMembers
<1>5. Displayed(b) = panel[b].sel
  BY <1>3, <1>4 DEF Displayed
<1> QED BY <1>2, <1>3, <1>5

\* Panels move their index, or show what is picked in them.
LEMMA PanelsMove ==
    ASSUME IInv, Ready, UNCHANGED <<open, view, images, shown, forced>>,
           picks' \in Selections, stored' \in Selections,
           panel' \in [Batches -> PanelState],
           \A b \in ToSet(shown) :
              /\ panel'[b].sel \in IdsIn(images, b)
              /\ panel'[b].at \in DOMAIN Group(images, b)
              /\ \/ panel'[b].sel = panel[b].sel /\ stored'[b] = stored[b]
                 \/ panel'[b].sel = stored'[b]
    PROVE  PanelsOK'
<1>1. images \in Seq(Images)
  BY DEF IInv, ListsOK
<1>2. ASSUME NEW b \in ToSet(shown)
      PROVE  Displayed(b)' = panel'[b].sel
  <2>1. ToSet(Group(images, b)) = IdsIn(images, b)
    BY <1>1, GroupMembers
  <2> QED BY <2>1 DEF Displayed
<1>3. PickIsKept'
  <2> SUFFICES ASSUME NEW b \in ToSet(shown), forced[b] \notin IdsIn(images, b),
                      stored'[b] \in IdsIn(images, b)
               PROVE  panel'[b].sel = stored'[b]
    BY <1>2 DEF PickIsKept
  <2>1. CASE panel'[b].sel = panel[b].sel /\ stored'[b] = stored[b]
    <3>1. Displayed(b) = stored[b]
      BY <2>1 DEF IInv, PanelsOK, PickIsKept
    <3>2. Displayed(b) = panel[b].sel
      BY SelectedIsDisplayed
    <3> QED BY <2>1, <3>1, <3>2
  <2>2. CASE panel'[b].sel = stored'[b]
    BY <2>2
  <2> QED BY <2>1, <2>2
<1>4. /\ open' \in BOOLEAN /\ view' \in [loading : BOOLEAN, error : BOOLEAN]
      /\ forced' \in Selections
  BY DEF IInv, PanelsOK
<1>5. (Ready => \A b \in ToSet(shown) : /\ panel[b].sel \in IdsIn(images, b)
                                        /\ panel[b].at \in DOMAIN Group(images, b))'
  OBVIOUS
<1> QED BY <1>3, <1>4, <1>5 DEF PanelsOK

LEMMA DeleteImageKeeps ==
    ASSUME IInv, NEW b \in Batches, NEW id, NEW t \in BOOLEAN, DeleteImage(b, id, t)
    PROVE  IInv'
<1> DEFINE group == Group(images, b)
           moved == [panel EXCEPT ![b].at = IndexAfter(@, Len(group))]
<1>1. /\ Ready /\ b \in ToSet(shown) /\ id \in IdsIn(images, b)
      /\ Delete({id}, b, FALSE, ~IsPlaceholder(Image(images, id)) /\ Len(group) <= 1)
      /\ panel' = panel \/ panel' = moved
      /\ UNCHANGED <<server, old, pipeline, storage, open, view, lists, forced,
                     tracked, listings>>
  BY DEF DeleteImage
<1>2. /\ UNCHANGED <<store, last, calls, generated, waiting, images, order, shown,
                     collapsed, picks, stored>>
  BY <1>1 DEF server, pipeline, lists, storage
<1>3. images \in Seq(Images)
  BY DEF IInv, ListsOK
<1>4. deletions' \in Seq(DeletionRecords)
  <2>1. {id} \in SUBSET Ids
    BY <1>1, <1>3, BatchIds
  <2> QED BY <1>1, <2>1, DeletionAdded
<1>5. Pipeline'
  <2>1. RequestsOK'
    BY <1>1, <1>2, <1>4, RequestsKept DEF IInv, Pipeline
  <2> QED BY <1>1, <1>2, <2>1, PipelineKept DEF IInv
<1>6. ListsOK'
  <2>1. last \in Nat
    BY DEF IInv, Pipeline, Numbered
  <2>2. collapsed \in Collapsed
    BY DEF IInv, ListsOK
  <2> QED BY <1>1, <1>2, <2>1, <2>2, ListsKept DEF IInv
<1>7. PanelsOK'
  <2>1. CASE panel' = panel
    BY <1>1, <1>2, <2>1, PanelsKept DEF IInv
  <2>2. CASE panel' = moved
    <3> DEFINE n == Len(group)
               at == IndexAfter(panel[b].at, n)
    <3>1. /\ panel[b] \in PanelState /\ panel[b].sel \in IdsIn(images, b)
          /\ panel[b].at \in DOMAIN group
      BY <1>1, SelectedIsDisplayed
    <3>2. n \in Nat /\ DOMAIN group = 1..n
      BY <1>3, GroupMembers
    <3>3. at \in DOMAIN group /\ at \in Nat
      <4>1. panel[b].at \in 1..n /\ n >= 1
        BY <3>1, <3>2
      <4>2. \A x, y \in Nat : Max({x, y}) \in {x, y} /\ Max({x, y}) >= x
        <5> TAKE x, y \in Nat
        <5>1. \E m \in {x, y} : \A k \in {x, y} : m >= k
          OBVIOUS
        <5>2. Max({x, y}) \in {x, y} /\ \A k \in {x, y} : Max({x, y}) >= k
          BY <5>1 DEF Max
        <5> QED BY <5>2
      <4>3. Max({1, n - 1}) \in 1..n
        <5>1. n - 1 \in Nat /\ 1 \in Nat
          BY <3>2, <4>1
        <5>2. Max({1, n - 1}) \in {1, n - 1} /\ Max({1, n - 1}) >= 1
          BY <4>2, <5>1
        <5> QED BY <3>2, <4>1, <5>1, <5>2
      <4> HIDE DEF n, group
      <4> QED BY <3>2, <4>1, <4>3 DEF IndexAfter
    <3>4. panel' = [panel EXCEPT ![b].at = at]
      BY <2>2
    <3> HIDE DEF at, n, group
    <3>5. panel \in [Batches -> PanelState]
      BY DEF IInv, PanelsOK
    <3>6. /\ panel' \in [Batches -> PanelState]
          /\ panel'[b].sel = panel[b].sel /\ panel'[b].at = at
          /\ \A c \in Batches : c # b => panel'[c] = panel[c]
      BY <3>3, <3>4, <3>5 DEF PanelState
    <3>7. ASSUME NEW c \in ToSet(shown)
          PROVE  /\ panel'[c].sel \in IdsIn(images, c)
                 /\ panel'[c].at \in DOMAIN Group(images, c)
                 /\ panel'[c].sel = panel[c].sel /\ stored'[c] = stored[c]
      <4>1. /\ c \in Batches /\ panel[c].sel \in IdsIn(images, c)
            /\ panel[c].at \in DOMAIN Group(images, c)
        BY <1>1, SelectedIsDisplayed
      <4>2. CASE c = b
        BY <1>2, <3>3, <3>6, <4>1, <4>2 DEF group
      <4>3. CASE c # b
        BY <1>2, <3>6, <4>1, <4>3
      <4> QED BY <4>2, <4>3
    <3>8. picks' \in Selections /\ stored' \in Selections
      BY <1>2 DEF IInv, PanelsOK
    <3> QED BY <1>1, <1>2, <3>6, <3>7, <3>8, PanelsMove
  <2> QED BY <1>1, <2>1, <2>2
<1>8. PlaceholdersAreOwed'
  BY <1>2, OwedStays DEF IInv
<1> QED BY <1>5, <1>6, <1>7, <1>8 DEF IInv

LEMMA ToggleKeeps ==
    ASSUME IInv, NEW b \in Batches, Toggle(b) PROVE IInv'
<1>1. /\ \/ collapsed' = [collapsed EXCEPT ![b] = "shut"]
         \/ collapsed' = [collapsed EXCEPT ![b] = "open"]
      /\ UNCHANGED <<open, view, images, order, shown, forced>> /\ Render(stored)
      /\ UNCHANGED <<server, old, pipeline, picks, tracked, requests>>
  BY DEF Toggle
<1>2. UNCHANGED <<store, last, calls, generated, waiting, listings, deletions>>
  BY <1>1 DEF server, pipeline, requests
<1>3. Pipeline'
  <2>1. RequestsOK'
    BY <1>2 DEF IInv, Pipeline, RequestsOK
  <2> QED BY <1>1, <1>2, <2>1, PipelineKept DEF IInv
<1>4. collapsed' \in Collapsed
  <2>1. collapsed \in Collapsed
    BY DEF IInv, ListsOK
  <2> QED BY <1>1, <2>1 DEF Collapsed
<1>5. stored \in Selections /\ view' \in [loading : BOOLEAN, error : BOOLEAN]
  BY <1>1 DEF IInv, PanelsOK
<1> QED BY <1>1, <1>2, <1>3, <1>4, <1>5, RenderedAgain

LEMMA RerenderKeeps ==
    ASSUME IInv, Rerender PROVE IInv'
<1>1. /\ UNCHANGED <<open, view, lists, forced>> /\ Render(stored)
      /\ UNCHANGED <<server, old, pipeline, picks, tracked, requests>>
  BY DEF Rerender
<1>2. UNCHANGED <<store, last, calls, generated, waiting, listings, deletions,
                  images, order, shown, collapsed>>
  BY <1>1 DEF server, pipeline, requests, lists
<1>3. Pipeline'
  <2>1. RequestsOK'
    BY <1>2 DEF IInv, Pipeline, RequestsOK
  <2> QED BY <1>1, <1>2, <2>1, PipelineKept DEF IInv
<1>4. collapsed' \in Collapsed
  BY <1>2 DEF IInv, ListsOK
<1>5. stored \in Selections /\ view' \in [loading : BOOLEAN, error : BOOLEAN]
  BY <1>1 DEF IInv, PanelsOK
<1> QED BY <1>1, <1>2, <1>3, <1>4, <1>5, RenderedAgain

\* A panel that shows another image.
LEMMA PanelChosen ==
    ASSUME IInv, Ready, NEW b \in ToSet(shown), NEW id \in IdsIn(images, b),
           UNCHANGED <<open, view, images, shown, forced>>,
           panel' = [panel EXCEPT ![b] = Chosen(b, id)],
           picks' = [picks EXCEPT ![b] = id], stored' = [stored EXCEPT ![b] = id]
    PROVE  PanelsOK'
<1> DEFINE p == Chosen(b, id)
<1>1. images \in Seq(Images)
  BY DEF IInv, ListsOK
<1>2. b \in Batches /\ panel[b] \in PanelState
  BY SelectedIsDisplayed
<1>3. id \in Ids
  BY <1>1, BatchIds
<1>4. /\ IndexOf(Group(images, b), id) \in DOMAIN Group(images, b)
      /\ DOMAIN Group(images, b) \subseteq Nat
  BY <1>1, GroupMembers
<1>5. /\ p.sel = id /\ p.at \in DOMAIN Group(images, b) /\ p \in PanelState
  <2>1. IndexOf(Group(images, b), id) \in Nat
    BY <1>4
  <2> QED BY <1>2, <1>3, <1>4, <2>1 DEF Chosen, PanelState
<1>6. panel' = [panel EXCEPT ![b] = p]
  OBVIOUS
<1> HIDE DEF p
<1>7. panel \in [Batches -> PanelState] /\ picks \in Selections /\ stored \in Selections
  BY DEF IInv, PanelsOK
<1>8. panel' \in [Batches -> PanelState] /\ picks' \in Selections /\ stored' \in Selections
  BY <1>2, <1>3, <1>5, <1>6, <1>7 DEF Selections
<1>9. ASSUME NEW c \in ToSet(shown)
      PROVE  /\ panel'[c].sel \in IdsIn(images, c)
             /\ panel'[c].at \in DOMAIN Group(images, c)
             /\ \/ panel'[c].sel = panel[c].sel /\ stored'[c] = stored[c]
                \/ panel'[c].sel = stored'[c]
  <2>1. /\ c \in Batches /\ panel[c].sel \in IdsIn(images, c)
        /\ panel[c].at \in DOMAIN Group(images, c)
    BY SelectedIsDisplayed
  <2>2. CASE c = b
    <3>1. panel'[c] = p /\ stored'[c] = id
      BY <1>2, <1>6, <1>7, <2>2 DEF Selections
    <3> QED BY <1>5, <2>2, <3>1
  <2>3. CASE c # b
    <3>1. panel'[c] = panel[c] /\ stored'[c] = stored[c]
      BY <1>6, <1>7, <2>1, <2>3 DEF Selections
    <3> QED BY <2>1, <3>1
  <2> QED BY <2>2, <2>3
<1> QED BY <1>8, <1>9, PanelsMove

\* An image is picked in the panel, or reached by the arrows.
LEMMA ChosenKeeps ==
    ASSUME IInv, Ready, NEW b \in ToSet(shown), NEW id \in IdsIn(images, b),
           UNCHANGED <<server, old, pipeline, open, view, lists, forced, tracked, requests>>,
           panel' = [panel EXCEPT ![b] = Chosen(b, id)],
           picks' = [picks EXCEPT ![b] = id], stored' = [stored EXCEPT ![b] = id]
    PROVE  IInv'
<1>1. UNCHANGED <<store, last, calls, generated, waiting, listings, deletions,
                  images, order, shown, collapsed>>
  BY DEF server, pipeline, requests, lists
<1>2. Pipeline'
  <2>1. RequestsOK'
    BY <1>1 DEF IInv, Pipeline, RequestsOK
  <2> QED BY <1>1, <2>1, PipelineKept DEF IInv
<1>3. ListsOK'
  <2>1. last \in Nat /\ collapsed \in Collapsed
    BY DEF IInv, ListsOK, Pipeline, Numbered
  <2> QED BY <1>1, <2>1, ListsKept DEF IInv
<1>4. PanelsOK'
  BY <1>1, PanelChosen
<1>5. PlaceholdersAreOwed'
  BY <1>1, OwedStays DEF IInv
<1> QED BY <1>2, <1>3, <1>4, <1>5 DEF IInv

LEMMA PickKeeps ==
    ASSUME IInv, NEW b \in Batches, NEW id, Pick(b, id) PROVE IInv'
<1>1. /\ Ready /\ b \in ToSet(shown) /\ id \in IdsIn(images, b)
      /\ UNCHANGED <<server, old, pipeline, order, tracked, requests>>
  BY DEF Pick
<1>2. images \in Seq(Images) /\ id \in Ids
  <2>1. images \in Seq(Images)
    BY DEF IInv, ListsOK
  <2> QED BY <1>1, <2>1, BatchIds
<1>3. UNCHANGED <<store, last, calls, generated, waiting, listings, deletions>>
  BY <1>1 DEF server, pipeline, requests
<1>4. Pipeline'
  <2>1. RequestsOK'
    BY <1>3 DEF IInv, Pipeline, RequestsOK
  <2> QED BY <1>1, <1>3, <2>1, PipelineKept DEF IInv
<1>5. CASE id = panel[b].sel
  <2>1. /\ panel' = [panel EXCEPT ![b].shut = FALSE]
        /\ UNCHANGED <<picks, stored, open, view, images, shown, collapsed, forced>>
    BY <1>5 DEF Pick, storage
  <2>2. ListsOK'
    <3>1. last \in Nat /\ collapsed \in Collapsed
      BY DEF IInv, ListsOK, Pipeline, Numbered
    <3> QED BY <1>1, <1>3, <2>1, <3>1, ListsKept DEF IInv
  <2>3. PanelsOK'
    <3>1. panel \in [Batches -> PanelState] /\ picks' \in Selections /\ stored' \in Selections
      BY <2>1 DEF IInv, PanelsOK
    <3>2. /\ panel' \in [Batches -> PanelState]
          /\ \A c \in Batches : panel'[c].sel = panel[c].sel /\ panel'[c].at = panel[c].at
      BY <2>1, <3>1 DEF PanelState
    <3>3. \A c \in ToSet(shown) : /\ c \in Batches /\ panel[c].sel \in IdsIn(images, c)
                                  /\ panel[c].at \in DOMAIN Group(images, c)
      BY <1>1, SelectedIsDisplayed
    <3> QED BY <1>1, <2>1, <3>1, <3>2, <3>3, PanelsMove
  <2>4. PlaceholdersAreOwed'
    BY <1>3, <2>1, OwedStays DEF IInv
  <2> QED BY <1>4, <2>2, <2>3, <2>4 DEF IInv
<1>6. CASE id # panel[b].sel /\ ~panel[b].shut
  <2>1. /\ panel' = [panel EXCEPT ![b] = Chosen(b, id)]
        /\ picks' = [picks EXCEPT ![b] = id] /\ stored' = [stored EXCEPT ![b] = id]
        /\ UNCHANGED <<open, view, images, shown, collapsed, forced>>
    BY <1>6 DEF Pick
  <2>2. UNCHANGED lists
    BY <1>1, <2>1 DEF lists
  <2> QED BY <1>1, <2>1, <2>2, ChosenKeeps
<1>7. CASE id # panel[b].sel /\ panel[b].shut
  <2>1. /\ collapsed' = [collapsed EXCEPT ![b] = "open"]
        /\ picks' = [picks EXCEPT ![b] = id]
        /\ UNCHANGED <<open, view, images, shown, forced>>
        /\ Render([stored EXCEPT ![b] = id])
    BY <1>7 DEF Pick
  <2>2. /\ collapsed \in Collapsed /\ picks \in Selections /\ stored \in Selections
        /\ open \in BOOLEAN /\ forced \in Selections
        /\ view' \in [loading : BOOLEAN, error : BOOLEAN]
    BY <2>1 DEF IInv, ListsOK, PanelsOK
  <2>3. /\ collapsed' \in Collapsed /\ picks' \in Selections
        /\ [stored EXCEPT ![b] = id] \in Selections
    BY <1>2, <2>1, <2>2 DEF Collapsed, Selections
  <2>4. ListsOK'
    <3>1. last \in Nat
      BY DEF IInv, Pipeline, Numbered
    <3> QED BY <1>1, <1>3, <2>1, <2>3, <3>1, ListsKept DEF IInv
  <2>5. PanelsOK'
    BY <2>1, <2>2, <2>3, <2>4, PanelsRendered
  <2>6. PlaceholdersAreOwed'
    BY <1>3, <2>1, OwedStays DEF IInv
  <2> QED BY <1>4, <2>4, <2>5, <2>6 DEF IInv
<1> QED BY <1>5, <1>6, <1>7

LEMMA StepKeeps ==
    ASSUME IInv, NEW b \in Batches, NEW at, Step(b, at) PROVE IInv'
<1> DEFINE id == Group(images, b)[at]
<1>1. /\ Ready /\ b \in ToSet(shown) /\ at \in DOMAIN Group(images, b)
      /\ panel' = [panel EXCEPT ![b] = Chosen(b, id)]
      /\ picks' = [picks EXCEPT ![b] = id] /\ stored' = [stored EXCEPT ![b] = id]
      /\ UNCHANGED <<server, old, pipeline, open, view, lists, forced, tracked, requests>>
  BY DEF Step
<1>2. id \in IdsIn(images, b)
  <2>1. images \in Seq(Images)
    BY DEF IInv, ListsOK
  <2>2. ToSet(Group(images, b)) = IdsIn(images, b)
    BY <2>1, GroupMembers
  <2>3. id \in ToSet(Group(images, b))
    BY <1>1 DEF ToSet
  <2> QED BY <2>2, <2>3
<1> HIDE DEF id
<1> QED BY <1>1, <1>2, ChosenKeeps

LEMMA DragPanelKeeps ==
    ASSUME IInv, NEW i, NEW j, DragPanel(i, j) PROVE IInv'
<1>1. /\ i \in DOMAIN shown /\ j \in DOMAIN shown
      /\ order' = Moved(order, IndexOf(order, shown[i]), IndexOf(order, shown[j]))
      /\ shown' = Moved(shown, i, j)
      /\ UNCHANGED <<open, view, images, collapsed, forced>> /\ Render(stored)
      /\ UNCHANGED <<server, old, pipeline, picks, tracked, requests>>
  BY DEF DragPanel
<1>2. UNCHANGED <<store, last, calls, generated, waiting, listings, deletions>>
  BY <1>1 DEF server, pipeline, requests
<1>3. Pipeline'
  <2>1. RequestsOK'
    BY <1>2 DEF IInv, Pipeline, RequestsOK
  <2> QED BY <1>1, <1>2, <2>1, PipelineKept DEF IInv
<1>4. /\ order \in Seq(Batches) /\ IsInjective(order) /\ order = shown
      /\ ToSet(order) = BatchesOf(images)
  BY DEF IInv, ListsOK, OrderIsShown
<1>5. order' = Moved(order, i, j) /\ shown' = Moved(order, i, j)
  <2>1. \A k \in DOMAIN order : IndexOf(order, order[k]) = k
    <3> TAKE k \in DOMAIN order
    <3>1. order[k] \in ToSet(order)
      BY DEF ToSet
    <3>2. /\ IndexOf(order, order[k]) \in DOMAIN order
          /\ order[IndexOf(order, order[k])] = order[k]
      BY <1>4, <3>1, PlaceOfName
    <3> QED BY <1>4, <3>2 DEF IsInjective
  <2>2. IndexOf(order, shown[i]) = i /\ IndexOf(order, shown[j]) = j
    BY <1>1, <1>4, <2>1
  <2> QED BY <1>1, <1>4, <2>2
<1>6. /\ Moved(order, i, j) \in Seq(Batches) /\ IsInjective(Moved(order, i, j))
      /\ ToSet(Moved(order, i, j)) = ToSet(order)
  BY <1>1, <1>4, MovedBatch
<1>7. ListsOK'
  <2>1. OrderIsShown' /\ order' \in Seq(Batches) /\ shown' \in Seq(Batches)
    BY <1>1, <1>4, <1>5, <1>6 DEF OrderIsShown
  <2>2. collapsed' \in Collapsed
    BY <1>1 DEF IInv, ListsOK
  <2> QED BY <1>1, <1>2, <2>1, <2>2 DEF IInv, ListsOK
<1>8. PanelsOK'
  <2>1. /\ open' \in BOOLEAN /\ view' \in [loading : BOOLEAN, error : BOOLEAN]
        /\ picks' \in Selections /\ forced' \in Selections /\ stored \in Selections
    BY <1>1 DEF IInv, PanelsOK
  <2> QED BY <1>1, <1>7, <2>1, PanelsRendered
<1>9. PlaceholdersAreOwed'
  BY <1>1, <1>2, OwedStays DEF IInv
<1> QED BY <1>3, <1>7, <1>8, <1>9 DEF IInv

-----------------------------------------------------------------------------
(* Generations                                                             *)

\* Placeholders that come with a new call, before the images there are.
LEMMA NewPlaceholders ==
    ASSUME IInv, NEW n \in Nat, last + n <= MaxId, NEW b \in Batches,
           NEW kind \in {"wait", "again"}
    PROVE  LET ids == last + 1..last + n
               s   == Make(ids, b, kind) \o images
           IN  /\ s \in Seq(Images) /\ UniqueIds(s)
               /\ \A x \in ToSet(s) : \/ x \in ToSet(images)
                                      \/ x.kind = kind /\ x.id \in ids
               /\ \A c : c # b => Waits(s, c) \subseteq Waits(images, c)
               /\ Waits(s, b) \subseteq Waits(images, b) \cup ids
<1> DEFINE ids == last + 1..last + n
           new == Make(ids, b, kind)
           s   == new \o images
<1>1. ids \in SUBSET Ids /\ \A id \in ids : id \in Nat /\ id > last
  BY NewIds DEF IInv, Pipeline
<1>2. /\ images \in Seq(Images) /\ UniqueIds(images)
      /\ \A x \in ToSet(images) : x.id <= last /\ x \in Images
  BY DEF IInv, ListsOK, ToSet
<1>3. last \in Nat
  BY DEF IInv, Pipeline, Numbered
<1> HIDE DEF ids
<1>4. /\ new \in Seq(Images) /\ UniqueIds(new) /\ IdsOf(new) = ids
      /\ ToSet(new) = {[id |-> id, batch |-> b, kind |-> kind] : id \in ids}
  <2>1. kind \in Kinds
    BY DEF Kinds
  <2> QED BY <1>1, <2>1, MadeImages
<1>5. IdsOf(new) \cap IdsOf(images) = {}
  <2>1. \A x \in ToSet(images) : x.id \notin ids
    <3> TAKE x \in ToSet(images)
    <3>1. x.id <= last /\ x.id \in Nat
      BY <1>2, IdsAreFinite DEF Images
    <3> QED BY <1>1, <1>3, <3>1
  <2>2. IdsOf(images) = {x.id : x \in ToSet(images)}
    BY SetsOfImages
  <2> QED BY <1>4, <2>1, <2>2
<1> HIDE DEF new
<1>6. s \in Seq(Images) /\ UniqueIds(s) /\ ToSet(s) = ToSet(new) \cup ToSet(images)
  BY <1>2, <1>4, <1>5, JoinedImages
<1> HIDE DEF s
<1>7. \A x \in ToSet(s) : \/ x \in ToSet(images)
                          \/ x.kind = kind /\ x.id \in ids /\ x.batch = b
  BY <1>4, <1>6
<1>8. \A c : c # b => Waits(s, c) \subseteq Waits(images, c)
  BY <1>7 DEF Waits
<1>9. Waits(s, b) \subseteq Waits(images, b) \cup ids
  BY <1>7 DEF Waits
<1> QED BY <1>6, <1>7, <1>8, <1>9 DEF s, new, ids

\* Placeholders that are tracked: some of them have expired.
LEMMA Tracked ==
    ASSUME ListsOK, NEW ids \in SUBSET Ids, NEW s \in Seq(Images), UniqueIds(s),
           NEW ord, NEW shut, Track(ids, s, ord, shut)
    PROVE  /\ tracked' \subseteq Ids
           /\ \E r \in Seq(Images) : /\ UniqueIds(r) /\ ToSet(r) \subseteq ToSet(s)
                                     /\ \A c : Waits(r, c) \subseteq Waits(s, c)
                                     /\ Regroup(r, ord, shut)
<1> DEFINE all == tracked \cup ids
           expired == {id \in all : id <= old}
           r == Without(s, expired)
<1>1. Regroup(r, ord, shut) /\ tracked' = all \ expired
  BY DEF Track
<1>2. tracked' \subseteq Ids
  BY <1>1 DEF ListsOK
<1>3. r \in Seq(Images) /\ UniqueIds(r) /\ ToSet(r) \subseteq ToSet(s)
  <2> HIDE DEF expired
  <2>1. /\ r \in Seq(Images) /\ UniqueIds(r)
        /\ ToSet(r) = {x \in ToSet(s) : x.id \notin expired}
    BY WithoutImages
  <2> QED BY <2>1
<1> HIDE DEF r
<1>4. \A c : Waits(r, c) \subseteq Waits(s, c)
  BY <1>3 DEF Waits
<1> QED BY <1>1, <1>2, <1>3, <1>4

\* A call owes what its placeholders wait for.
LEMMA OwedMore ==
    ASSUME IInv, CallsOK', NEW n \in 1..MaxAsked, last + n <= MaxId, NEW b \in Batches,
           images' \in Seq(Images), UniqueIds(images'),
           \A c : c # b => Waits(images', c) \subseteq Waits(images, c),
           Waits(images', b) \subseteq Waits(images, b) \cup (last + 1..last + n),
           Cardinality(OwedTo(b)') = Cardinality(OwedTo(b)) + n,
           \A c : c # b => OwedTo(c)' = OwedTo(c)
    PROVE  PlaceholdersAreOwed'
<1>0. n \in Nat
  BY RecentAssumption
<1>1. images \in Seq(Images) /\ UniqueIds(images) /\ CallsOK
  BY DEF IInv, ListsOK, Pipeline
<1>2. ASSUME NEW c \in Batches
      PROVE  Cardinality(Waits(images', c)) <= Cardinality(OwedTo(c)')
  <2>1. /\ IsFiniteSet(Waits(images, c)) /\ Cardinality(Waits(images, c)) \in Nat
        /\ Cardinality(Waits(images', c)) \in Nat /\ Cardinality(OwedTo(c)) \in Nat
        /\ Cardinality(Waits(images, c)) <= Cardinality(OwedTo(c))
    BY <1>1, WaitsAreFinite, OwedAreFinite, OwedNow DEF IInv
  <2>2. CASE c # b
    <3>1. Cardinality(Waits(images', c)) <= Cardinality(Waits(images, c))
      BY <2>1, <2>2, FS_Subset
    <3> QED BY <2>1, <2>2, <3>1
  <2>3. CASE c = b
    <3> DEFINE ids == last + 1..last + n
    <3>1. IsFiniteSet(ids) /\ Cardinality(ids) = n
      BY <1>0, NewIds DEF IInv, Pipeline
    <3>2. Waits(images', b) \subseteq Waits(images, b) \cup ids
      OBVIOUS
    <3> HIDE DEF ids
    <3>3. IsFiniteSet(Waits(images, b)) /\ IsFiniteSet(Waits(images, b) \cup ids)
      BY <2>1, <2>3, <3>1, FS_Union
    <3>4. Cardinality(Waits(images, b) \cup ids)
            = Cardinality(Waits(images, b)) + n - Cardinality(Waits(images, b) \cap ids)
      BY <3>1, <3>3, FS_Union
    <3>5. Cardinality(Waits(images, b) \cap ids) \in Nat
      BY <3>1, <3>3, FS_Intersection, FS_CardinalityType
    <3>6. Cardinality(Waits(images', b)) <= Cardinality(Waits(images, b) \cup ids)
      BY <3>2, <3>3, FS_Subset
    <3>7. /\ Cardinality(Waits(images, b)) \in Nat /\ Cardinality(Waits(images', b)) \in Nat
          /\ Cardinality(OwedTo(b)) \in Nat
          /\ Cardinality(Waits(images, b)) <= Cardinality(OwedTo(b))
      BY <2>1, <2>3
    <3> QED BY <1>0, <2>3, <3>4, <3>5, <3>6, <3>7
  <2> QED BY <2>2, <2>3
<1> QED BY <1>2, OwedNext

\* What a new call leaves to the generations.
LEMMA PipelineGrows ==
    ASSUME IInv, Numbered', CallsOK', last' \in Nat, last <= last',
           DOMAIN calls' = 1..Len(calls) + 1,
           \A i \in DOMAIN calls : i \in DOMAIN calls' /\ calls'[i] = calls[i],
           UNCHANGED <<store, requests>>,
           generated' \subseteq [id : Ids, batch : Batches,
                                 status : {"generating", "completed", "error"}],
           waiting' \subseteq [id : Ids, batch : Batches],
           \A w \in waiting' : w.id <= last',
           \A g \in generated' \ generated : /\ calls'[Len(calls) + 1].batch = g.batch
                                             /\ calls'[Len(calls) + 1].kind = "wait"
                                             /\ calls'[Len(calls) + 1].state = "asked",
           \A w \in waiting' \ waiting : /\ calls'[Len(calls) + 1].batch = w.batch
                                         /\ calls'[Len(calls) + 1].kind = "wait"
                                         /\ calls'[Len(calls) + 1].state = "asked"
    PROVE  Pipeline'
<1>1. last \in Nat /\ Len(calls) \in Nat
  BY DEF IInv, Pipeline, Numbered, CallsOK
<1>2. Settled(store, last)'
  <2>1. Settled(store, last')
    BY <1>1, SettledLater DEF IInv, Pipeline
  <2> QED BY <2>1
<1>3. RequestsOK'
  BY RequestsLater DEF IInv, Pipeline, requests
<1>4. GeneratedOK'
  BY DEF GeneratedOK
<1>5. Len(calls) + 1 \in DOMAIN calls'
  BY <1>1
<1>6. \A g \in generated' : g.status = "generating" =>
         \E i \in DOMAIN calls' : /\ calls'[i].batch = g.batch
                                  /\ calls'[i].kind = "wait"
                                  /\ calls'[i].state \in {"asked", "made"}
  <2> SUFFICES ASSUME NEW g \in generated', g.status = "generating"
               PROVE  \E i \in DOMAIN calls' : /\ calls'[i].batch = g.batch
                                               /\ calls'[i].kind = "wait"
                                               /\ calls'[i].state \in {"asked", "made"}
    OBVIOUS
  <2>1. CASE g \in generated
    BY <2>1 DEF IInv, Pipeline, GeneratingIsServed
  <2>2. CASE g \notin generated
    BY <1>5, <2>2
  <2> QED BY <2>1, <2>2
<1>7. \A w \in waiting' : \E i \in DOMAIN calls' : /\ calls'[i].batch = w.batch
                                                   /\ calls'[i].kind = "wait"
                                                   /\ calls'[i].state # "done"
  <2> TAKE w \in waiting'
  <2>1. CASE w \in waiting
    BY <2>1 DEF IInv, Pipeline, GeneratingIsServed
  <2>2. CASE w \notin waiting
    BY <1>5, <2>2
  <2> QED BY <2>1, <2>2
<1>8. GeneratingIsServed'
  BY <1>6, <1>7 DEF GeneratingIsServed
<1> QED BY <1>2, <1>3, <1>4, <1>8 DEF Pipeline

LEMMA SubmitKeeps ==
    ASSUME IInv, NEW b \in Batches, NEW n \in 1..MaxAsked, Submit(b, n) PROVE IInv'
<1> DEFINE ids == last + 1..last + n
           s   == Make(ids, b, "wait") \o images
<1>1. /\ Len(calls) < MaxCalls /\ last' = last + n
      /\ calls' = Append(calls, Call(b, "wait", n))
      /\ generated' = generated
           \cup {[id |-> id, batch |-> b, status |-> "generating"] : id \in ids}
      /\ BatchPlaceholders(ids, b)
      /\ waiting' = StillWaiting \cup {[id |-> id, batch |-> b] : id \in ids}
      /\ UNCHANGED <<open, view, forced>> /\ Render(stored)
      /\ UNCHANGED <<store, old, picks, requests>>
  BY DEF Submit
<1>2. /\ n \in Nat /\ last \in Nat /\ last' \in Nat /\ last <= last'
  BY <1>1, RecentAssumption DEF IInv, Pipeline, Numbered
<1>3. /\ Numbered' /\ CallsOK' /\ DOMAIN calls' = 1..Len(calls) + 1
      /\ \A i \in DOMAIN calls : i \in DOMAIN calls' /\ calls'[i] = calls[i]
      /\ calls'[Len(calls) + 1] = Call(b, "wait", n)
      /\ last + n <= MaxId
  BY <1>1, CallAdded DEF IInv, Pipeline
<1>4. /\ ids \in SUBSET Ids
      /\ \A id \in ids : id \in Nat /\ id > last /\ id <= last + n
  BY <1>2, <1>3, NewIds DEF IInv, Pipeline
<1> HIDE DEF ids
<1>5. StillWaiting \subseteq waiting
  BY DEF StillWaiting
<1>6. \A w \in waiting' : w \in waiting \/ w \in {[id |-> id, batch |-> b] : id \in ids}
  BY <1>1, <1>5
<1>7. Pipeline'
  <2>1. /\ waiting \subseteq [id : Ids, batch : Batches] /\ \A w \in waiting : w.id <= last
        /\ generated \subseteq [id : Ids, batch : Batches,
                                status : {"generating", "completed", "error"}]
    BY DEF IInv, Pipeline, GeneratedOK
  <2>2. waiting' \subseteq [id : Ids, batch : Batches]
    BY <1>4, <1>6, <2>1
  <2>3. \A w \in waiting' : w.id <= last'
    <3> TAKE w \in waiting'
    <3>1. CASE w \in waiting
      <4>1. w.id <= last /\ w.id \in Nat
        BY <2>1, <3>1, IdsAreFinite
      <4> QED BY <1>2, <4>1
    <3>2. CASE w \in {[id |-> id, batch |-> b] : id \in ids}
      BY <1>1, <1>4, <3>2
    <3> QED BY <1>6, <3>1, <3>2
  <2>4. generated' \subseteq [id : Ids, batch : Batches,
                              status : {"generating", "completed", "error"}]
    BY <1>1, <1>4, <2>1
  <2>5. /\ calls'[Len(calls) + 1].batch = b /\ calls'[Len(calls) + 1].kind = "wait"
        /\ calls'[Len(calls) + 1].state = "asked"
    BY <1>3 DEF Call
  <2>6. \A g \in generated' \ generated : g.batch = b
    BY <1>1
  <2>7. \A w \in waiting' \ waiting : w.batch = b
    BY <1>6
  <2> QED BY <1>1, <1>2, <1>3, <2>2, <2>3, <2>4, <2>5, <2>6, <2>7, PipelineGrows
<1>8. /\ images \in Seq(Images) /\ UniqueIds(images)
      /\ \A x \in ToSet(images) : x.id <= last /\ x.id \in Nat
      /\ \A x \in ToSet(images) : x.kind = "again" => \A w \in waiting : w.id # x.id
  <2>1. \A x \in ToSet(images) : x \in Images
    BY DEF IInv, ListsOK, ToSet
  <2>2. \A x \in ToSet(images) : x.id \in Nat
    BY <2>1, IdsAreFinite DEF Images
  <2> QED BY <2>2 DEF IInv, ListsOK
<1>9. \A x \in ToSet(images) : /\ x.id <= last'
                               /\ x.kind = "again" => \A w \in waiting' : w.id # x.id
  <2> TAKE x \in ToSet(images)
  <2>1. x.id <= last'
    BY <1>2, <1>8
  <2>2. ASSUME x.kind = "again", NEW w \in waiting' PROVE w.id # x.id
    <3>1. CASE w \in waiting
      BY <1>8, <2>2, <3>1
    <3>2. CASE w \in {[id |-> id, batch |-> b] : id \in ids}
      <4>1. w.id \in Nat /\ w.id > last
        BY <1>4, <3>2
      <4>2. x.id <= last /\ x.id \in Nat
        BY <1>8
      <4> QED BY <1>2, <4>1, <4>2
    <3> QED BY <1>6, <3>1, <3>2
  <2> QED BY <2>1, <2>2
<1>10. /\ ListsOK'
       /\ \A c : c # b => Waits(images', c) \subseteq Waits(images, c)
       /\ Waits(images', b) \subseteq Waits(images, b) \cup ids
  <2>1. CASE open
    <3>1. Track(ids, s, ToTop(order, b), [collapsed EXCEPT ![b] = "shut"])
      BY <1>1, <2>1 DEF BatchPlaceholders
    <3>2. /\ s \in Seq(Images) /\ UniqueIds(s)
          /\ \A x \in ToSet(s) : \/ x \in ToSet(images)
                                 \/ x.kind = "wait" /\ x.id \in ids
          /\ \A c : c # b => Waits(s, c) \subseteq Waits(images, c)
          /\ Waits(s, b) \subseteq Waits(images, b) \cup ids
      BY <1>2, <1>3, NewPlaceholders DEF ids
    <3> HIDE DEF s
    <3>3. ToTop(order, b) \in Seq(Batches) /\ IsInjective(ToTop(order, b))
      BY BroughtToTop DEF IInv, ListsOK, OrderIsShown
    <3>4. [collapsed EXCEPT ![b] = "shut"] \in Collapsed
      BY DEF IInv, ListsOK, Collapsed
    <3>5. /\ tracked' \subseteq Ids
          /\ \E r \in Seq(Images) :
                /\ UniqueIds(r) /\ ToSet(r) \subseteq ToSet(s)
                /\ \A c : Waits(r, c) \subseteq Waits(s, c)
                /\ Regroup(r, ToTop(order, b), [collapsed EXCEPT ![b] = "shut"])
      BY <1>4, <3>1, <3>2, Tracked DEF IInv
    <3>6. PICK r \in Seq(Images) :
                /\ UniqueIds(r) /\ ToSet(r) \subseteq ToSet(s)
                /\ \A c : Waits(r, c) \subseteq Waits(s, c)
                /\ Regroup(r, ToTop(order, b), [collapsed EXCEPT ![b] = "shut"])
      BY <3>5
    <3>7. /\ \A x \in ToSet(r) : x.id <= last'
          /\ \A x \in ToSet(r) : x.kind = "again" => \A w \in waiting' : w.id # x.id
      BY <1>1, <1>4, <1>9, <3>2, <3>6
    <3>8. ListsOK' /\ images' = r
      BY <1>1, <2>1, <3>3, <3>4, <3>5, <3>6, <3>7, ListsRegrouped
    <3> QED BY <3>2, <3>6, <3>8
  <2>2. CASE ~open
    <3>1. UNCHANGED <<images, order, shown, collapsed, tracked>>
      BY <1>1, <2>2 DEF BatchPlaceholders, lists
    <3>2. ListsOK'
      BY <1>1, <1>9, <3>1 DEF IInv, ListsOK, OrderIsShown
    <3> QED BY <3>1, <3>2
  <2> QED BY <2>1, <2>2
<1>11. PanelsOK'
  <2>1. /\ open' \in BOOLEAN /\ view' \in [loading : BOOLEAN, error : BOOLEAN]
        /\ picks' \in Selections /\ forced' \in Selections /\ stored \in Selections
    BY <1>1 DEF IInv, PanelsOK
  <2> QED BY <1>1, <1>10, <2>1, PanelsRendered
<1>12. PlaceholdersAreOwed'
  <2>1. /\ Cardinality(OwedTo(b)') = Cardinality(OwedTo(b)) + n
        /\ \A c : c # b => OwedTo(c)' = OwedTo(c)
    <3>1. CallsOK
      BY DEF IInv, Pipeline
    <3> QED BY <1>3, <3>1, OwedByCall
  <2>2. images' \in Seq(Images) /\ UniqueIds(images')
    BY <1>10 DEF ListsOK
  <2> QED BY <1>3, <1>10, <2>1, <2>2, OwedMore DEF ids
<1> QED BY <1>7, <1>10, <1>11, <1>12 DEF IInv

LEMMA GenerateAgainKeeps ==
    ASSUME IInv, NEW b \in Batches, GenerateAgain(b) PROVE IInv'
<1> DEFINE id == last + 1
           s  == Make({id}, b, "again") \o images
<1>1. /\ Ready /\ Len(calls) < MaxCalls /\ last' = id
      /\ calls' = Append(calls, Call(b, "again", 1))
      /\ Track({id}, s, order, collapsed)
      /\ waiting' = StillWaiting
      /\ UNCHANGED <<open, view, forced>> /\ Render(stored)
      /\ UNCHANGED <<store, old, generated, picks, requests>>
  BY DEF GenerateAgain
<1>2. /\ 1 \in 1..MaxAsked /\ last \in Nat /\ last' \in Nat /\ last <= last'
  BY <1>1, RecentAssumption DEF IInv, Pipeline, Numbered
<1>3. /\ Numbered' /\ CallsOK' /\ DOMAIN calls' = 1..Len(calls) + 1
      /\ \A i \in DOMAIN calls : i \in DOMAIN calls' /\ calls'[i] = calls[i]
      /\ calls'[Len(calls) + 1] = Call(b, "again", 1)
      /\ last + 1 <= MaxId
  BY <1>1, <1>2, CallAdded DEF IInv, Pipeline
<1>4. last + 1..last + 1 = {id} /\ {id} \in SUBSET Ids /\ id > last
  <2>1. last + 1..last + 1 = {id}
    BY <1>2
  <2>2. last + 1..last + 1 \in SUBSET Ids
    BY <1>3, NewIds DEF IInv, Pipeline
  <2> QED BY <1>2, <2>1, <2>2
<1>5. waiting' \subseteq waiting
  BY <1>1 DEF StillWaiting
<1>6. Pipeline'
  <2>1. /\ waiting \subseteq [id : Ids, batch : Batches] /\ \A w \in waiting : w.id <= last
        /\ generated \subseteq [id : Ids, batch : Batches,
                                status : {"generating", "completed", "error"}]
    BY DEF IInv, Pipeline, GeneratedOK
  <2>2. \A w \in waiting' : w.id <= last'
    <3> TAKE w \in waiting'
    <3>1. w \in waiting /\ w \in [id : Ids, batch : Batches]
      BY <1>5, <2>1
    <3>2. w.id \in Nat
      BY <3>1, IdsAreFinite
    <3> QED BY <1>2, <2>1, <3>1, <3>2
  <2>3. generated' \ generated = {} /\ waiting' \ waiting = {}
    BY <1>1, <1>5
  <2>4. /\ waiting' \subseteq [id : Ids, batch : Batches]
        /\ generated' \subseteq [id : Ids, batch : Batches,
                                 status : {"generating", "completed", "error"}]
    BY <1>1, <1>5, <2>1
  <2> QED BY <1>1, <1>2, <1>3, <2>2, <2>3, <2>4, PipelineGrows
<1>7. /\ images \in Seq(Images) /\ UniqueIds(images)
      /\ \A x \in ToSet(images) : x.id <= last /\ x.id \in Nat
      /\ \A x \in ToSet(images) : x.kind = "again" => \A w \in waiting : w.id # x.id
  <2>1. \A x \in ToSet(images) : x \in Images
    BY DEF IInv, ListsOK, ToSet
  <2>2. \A x \in ToSet(images) : x.id \in Nat
    BY <2>1, IdsAreFinite DEF Images
  <2> QED BY <2>2 DEF IInv, ListsOK
<1>8. /\ s \in Seq(Images) /\ UniqueIds(s)
      /\ \A x \in ToSet(s) : \/ x \in ToSet(images)
                             \/ x.kind = "again" /\ x.id \in {id}
      /\ \A c : c # b => Waits(s, c) \subseteq Waits(images, c)
      /\ Waits(s, b) \subseteq Waits(images, b) \cup {id}
  <2>1. LET ids == last + 1..last + 1
            r   == Make(ids, b, "again") \o images
        IN  /\ r \in Seq(Images) /\ UniqueIds(r)
            /\ \A x \in ToSet(r) : \/ x \in ToSet(images)
                                   \/ x.kind = "again" /\ x.id \in ids
            /\ \A c : c # b => Waits(r, c) \subseteq Waits(images, c)
            /\ Waits(r, b) \subseteq Waits(images, b) \cup ids
    BY <1>3, NewPlaceholders
  <2> QED BY <1>4, <2>1
<1> HIDE DEF s, id
<1>9. \A x \in ToSet(s) : /\ x.id <= last'
                          /\ x.kind = "again" => \A w \in waiting' : w.id # x.id
  <2> TAKE x \in ToSet(s)
  <2>1. CASE x \in ToSet(images)
    BY <1>2, <1>5, <1>7, <2>1
  <2>2. CASE x.id = id
    <3>1. \A w \in waiting : w.id <= last /\ w.id \in Nat
      BY IdsAreFinite DEF IInv, Pipeline, GeneratedOK
    <3> QED BY <1>1, <1>2, <1>4, <1>5, <2>2, <3>1
  <2> QED BY <1>8, <2>1, <2>2
<1>10. /\ ListsOK'
       /\ \A c : c # b => Waits(images', c) \subseteq Waits(images, c)
       /\ Waits(images', b) \subseteq Waits(images, b) \cup {id}
  <2>1. /\ tracked' \subseteq Ids
        /\ \E r \in Seq(Images) : /\ UniqueIds(r) /\ ToSet(r) \subseteq ToSet(s)
                                  /\ \A c : Waits(r, c) \subseteq Waits(s, c)
                                  /\ Regroup(r, order, collapsed)
    BY <1>1, <1>4, <1>8, Tracked DEF IInv
  <2>2. PICK r \in Seq(Images) : /\ UniqueIds(r) /\ ToSet(r) \subseteq ToSet(s)
                                 /\ \A c : Waits(r, c) \subseteq Waits(s, c)
                                 /\ Regroup(r, order, collapsed)
    BY <2>1
  <2>3. /\ order \in Seq(Batches) /\ IsInjective(order) /\ collapsed \in Collapsed
    BY DEF IInv, ListsOK, OrderIsShown
  <2>4. /\ \A x \in ToSet(r) : x.id <= last'
        /\ \A x \in ToSet(r) : x.kind = "again" => \A w \in waiting' : w.id # x.id
    BY <1>9, <2>2
  <2>5. open'
    BY <1>1 DEF Ready
  <2>6. ListsOK' /\ images' = r
    BY <2>1, <2>2, <2>3, <2>4, <2>5, ListsRegrouped
  <2> QED BY <1>8, <2>2, <2>6
<1>11. PanelsOK'
  <2>1. /\ open' \in BOOLEAN /\ view' \in [loading : BOOLEAN, error : BOOLEAN]
        /\ picks' \in Selections /\ forced' \in Selections /\ stored \in Selections
    BY <1>1 DEF IInv, PanelsOK
  <2> QED BY <1>1, <1>10, <2>1, PanelsRendered
<1>12. PlaceholdersAreOwed'
  <2>1. /\ Cardinality(OwedTo(b)') = Cardinality(OwedTo(b)) + 1
        /\ \A c : c # b => OwedTo(c)' = OwedTo(c)
    <3>1. CallsOK
      BY DEF IInv, Pipeline
    <3> QED BY <1>2, <1>3, <3>1, OwedByCall
  <2>2. images' \in Seq(Images) /\ UniqueIds(images')
    BY <1>10 DEF ListsOK
  <2>3. Waits(images', b) \subseteq Waits(images, b) \cup (last + 1..last + 1)
    BY <1>4, <1>10
  <2> QED BY <1>2, <1>3, <1>10, <2>1, <2>2, <2>3, OwedMore
<1> QED BY <1>6, <1>10, <1>11, <1>12 DEF IInv

LEMMA SameOwed ==
    ASSUME ListsOK, PlaceholdersAreOwed, images' = images, DOMAIN calls' = DOMAIN calls,
           \A j \in DOMAIN calls : /\ calls'[j].batch = calls[j].batch
                                   /\ calls'[j].came = calls[j].came
                                   /\ calls'[j].asked = calls[j].asked
    PROVE  PlaceholdersAreOwed'
<1>1. \A b : PlaceholdersOf(b)' = PlaceholdersOf(b)
  BY DEF PlaceholdersOf
<1>2. \A b : OwedTo(b)' = OwedTo(b)
  <2> TAKE b
  <2>1. \A p \in (DOMAIN calls) \X (1..MaxAsked) : p[1] \in DOMAIN calls
    OBVIOUS
  <2>2. \A p \in (DOMAIN calls) \X (1..MaxAsked) :
           (calls'[p[1]].batch = b /\ calls'[p[1]].came + p[2] <= calls'[p[1]].asked)
             <=> (calls[p[1]].batch = b /\ calls[p[1]].came + p[2] <= calls[p[1]].asked)
    BY <2>1
  <2> QED BY <2>2 DEF OwedTo
<1> QED BY <1>1, <1>2 DEF PlaceholdersAreOwed

\* A call, as the invariant has it.
LEMMA OneCall ==
    ASSUME IInv, NEW i \in DOMAIN calls
    PROVE  /\ calls[i] \in CallRecords /\ CallFits(calls[i])
           /\ \A id \in calls[i].made : id <= last
           /\ calls[i].made \in SUBSET Ids /\ IsFiniteSet(calls[i].made)
           /\ Cardinality(calls[i].made) \in Nat
           /\ calls[i].batch \in Batches /\ calls[i].asked \in 1..MaxAsked
           /\ calls[i].came \in Nat
<1>1. CallFits(calls[i]) /\ \A id \in calls[i].made : id <= last
  BY DEF IInv, Pipeline, CallsOK
<1>2. calls[i] \in CallRecords
  BY <1>1 DEF CallFits
<1>3. calls[i].made \in SUBSET Ids
  BY <1>2 DEF CallRecords
<1>4. IsFiniteSet(calls[i].made) /\ Cardinality(calls[i].made) \in Nat
  BY <1>3, IdsAreFinite
<1>5. /\ calls[i].batch \in Batches /\ calls[i].asked \in 1..MaxAsked
      /\ calls[i].came \in Nat
  BY <1>2 DEF CallRecords
<1> QED BY <1>1, <1>2, <1>3, <1>4, <1>5

LEMMA ServerMakesKeeps ==
    ASSUME IInv, NEW i \in DOMAIN calls, NEW k \in 0..MaxAsked, ServerMakes(i, k)
    PROVE  IInv'
<1> DEFINE ids == last + 1..last + k
           c   == [calls[i] EXCEPT !.made = ids, !.state = "made"]
           new == Make(ids, calls[i].batch, "image")
<1>1. /\ calls[i].state = "asked" /\ k <= calls[i].asked /\ last' = last + k
      /\ store' = store \o new
      /\ calls' = [calls EXCEPT ![i].made = ids, ![i].state = "made"]
      /\ UNCHANGED <<old, generated, waiting, storage, tab, requests>>
  BY DEF ServerMakes
<1>2. k \in Nat /\ last \in Nat /\ last' \in Nat /\ last <= last'
  BY <1>1, RecentAssumption DEF IInv, Pipeline, Numbered
<1>3. last + k <= MaxId
  BY <1>1, Budget DEF IInv, Pipeline
<1>4. /\ ids \in SUBSET Ids /\ IsFiniteSet(ids) /\ Cardinality(ids) = k
      /\ \A id \in ids : id \in Nat /\ id > last /\ id <= last + k
  BY <1>2, <1>3, NewIds DEF IInv, Pipeline
<1> HIDE DEF ids
<1>5. /\ calls[i] \in CallRecords /\ CallFits(calls[i]) /\ calls[i].batch \in Batches
  BY OneCall
<1>6. /\ c \in CallRecords /\ c.made = ids /\ c.state = "made" /\ c.asked = calls[i].asked
      /\ c.came = calls[i].came /\ c.batch = calls[i].batch /\ c.kind = calls[i].kind
  BY <1>4, <1>5 DEF CallRecords
<1>7. calls' = [calls EXCEPT ![i] = c]
  BY <1>1
<1> HIDE DEF c
<1>8. CallFits(c)
  BY <1>1, <1>4, <1>5, <1>6 DEF CallFits
<1>9. /\ Numbered' /\ CallsOK' /\ DOMAIN calls' = DOMAIN calls
      /\ calls'[i] = c /\ \A j \in DOMAIN calls : j # i => calls'[j] = calls[j]
  BY <1>1, <1>4, <1>6, <1>7, <1>8, CallMoved DEF IInv, Pipeline
<1>10. \A j \in DOMAIN calls : /\ calls'[j].batch = calls[j].batch
                               /\ calls'[j].kind = calls[j].kind
                               /\ calls'[j].came = calls[j].came
                               /\ calls'[j].asked = calls[j].asked
                               /\ calls[j].state # "done" => calls'[j].state # "done"
                               /\ calls[j].state \in {"asked", "made"}
                                    => calls'[j].state \in {"asked", "made"}
  <2> TAKE j \in DOMAIN calls
  <2>1. CASE j = i
    BY <1>6, <1>9, <2>1
  <2>2. CASE j # i
    BY <1>9, <2>2
  <2> QED BY <2>1, <2>2
<1>11. Settled(store, last)'
  <2>1. /\ store \in Seq(Images) /\ UniqueIds(store)
        /\ \A x \in ToSet(store) : x.id <= last /\ ~IsPlaceholder(x)
    BY DEF IInv, Pipeline, Settled
  <2>2. /\ new \in Seq(Images) /\ UniqueIds(new) /\ IdsOf(new) = ids
        /\ ToSet(new) = {[id |-> id, batch |-> calls[i].batch, kind |-> "image"] : id \in ids}
    BY <1>4, <1>5, MadeImages DEF Kinds
  <2> HIDE DEF new
  <2>3. \A x \in ToSet(store) : x.id \in Nat
    <3>1. \A x \in ToSet(store) : x \in Images
      BY <2>1 DEF ToSet
    <3> QED BY <3>1, IdsAreFinite DEF Images
  <2>4. IdsOf(store) \cap IdsOf(new) = {}
    <3>1. IdsOf(store) = {x.id : x \in ToSet(store)}
      BY SetsOfImages
    <3>2. \A x \in ToSet(store) : x.id \notin ids
      <4> TAKE x \in ToSet(store)
      <4>1. x.id <= last /\ x.id \in Nat
        BY <2>1, <2>3
      <4> QED BY <1>2, <1>4, <4>1
    <3> QED BY <2>2, <3>1, <3>2
  <2>5. /\ store' \in Seq(Images) /\ UniqueIds(store')
        /\ ToSet(store') = ToSet(store) \cup ToSet(new)
    BY <1>1, <2>1, <2>2, <2>4, JoinedImages
  <2>6. \A x \in ToSet(store) : x.id <= last'
    <3> TAKE x \in ToSet(store)
    <3>1. x.id <= last /\ x.id \in Nat
      BY <2>1, <2>3
    <3> QED BY <1>2, <3>1
  <2>7. \A x \in ToSet(new) : x.id <= last' /\ ~IsPlaceholder(x)
    BY <1>1, <1>4, <2>2 DEF IsPlaceholder
  <2> QED BY <2>1, <2>5, <2>6, <2>7 DEF Settled
<1>12. GeneratedOK'
  <2>1. \A w \in waiting : w.id <= last /\ w.id \in Nat
    BY IdsAreFinite DEF IInv, Pipeline, GeneratedOK
  <2>2. \A w \in waiting : w.id <= last'
    <3> TAKE w \in waiting
    <3>1. w.id <= last /\ w.id \in Nat
      BY <2>1
    <3> QED BY <1>2, <3>1
  <2> QED BY <1>1, <2>2 DEF IInv, Pipeline, GeneratedOK
<1>13. GeneratingIsServed'
  <2>1. \A g \in generated : g.status = "generating" =>
           \E j \in DOMAIN calls : /\ calls'[j].batch = g.batch
                                   /\ calls'[j].kind = "wait"
                                   /\ calls'[j].state \in {"asked", "made"}
    BY <1>10 DEF IInv, Pipeline, GeneratingIsServed
  <2>2. \A w \in waiting : \E j \in DOMAIN calls : /\ calls'[j].batch = w.batch
                                                   /\ calls'[j].kind = "wait"
                                                   /\ calls'[j].state # "done"
    BY <1>10 DEF IInv, Pipeline, GeneratingIsServed
  <2> QED BY <1>1, <1>9, <2>1, <2>2 DEF GeneratingIsServed
<1>14. RequestsOK'
  BY <1>1, <1>2, RequestsLater DEF IInv, Pipeline, requests
<1>15. UNCHANGED <<open, view, images, order, shown, collapsed, forced, tracked, panel,
                   picks, stored>>
  BY <1>1 DEF tab, lists, storage
<1>16. ListsOK'
  <2>1. collapsed' \in Collapsed
    BY <1>15 DEF IInv, ListsOK
  <2> QED BY <1>1, <1>2, <1>15, <2>1, ListsKept DEF IInv
<1>17. PanelsOK'
  BY <1>15, PanelsKept DEF IInv
<1>18. PlaceholdersAreOwed'
  BY <1>9, <1>10, <1>15, SameOwed DEF IInv
<1> QED BY <1>9, <1>11, <1>12, <1>13, <1>14, <1>16, <1>17, <1>18 DEF IInv, Pipeline

\* Once a batch is answered nothing of it is generating.
LEMMA ResultsOfBatch ==
    ASSUME GeneratedOK, NEW b, NEW k
    PROVE  /\ Results(b, k) \subseteq [id : Ids, batch : Batches,
                                       status : {"generating", "completed", "error"}]
           /\ \A g \in Results(b, k) :
                 g.status = "generating" => g \in generated /\ g.batch # b
<1> DEFINE mine == {g \in generated : g.batch = b /\ g.status = "generating"}
           hit  == {g \in mine : Cardinality({h \in mine : h.id < g.id}) < k}
           T    == [id : Ids, batch : Batches,
                    status : {"generating", "completed", "error"}]
<1>1. generated \subseteq T /\ mine \subseteq generated /\ hit \subseteq mine
  BY DEF GeneratedOK
<1>2. Results(b, k) = (generated \ mine)
         \cup IF k = 0 THEN MarkedAsError(mine)
              ELSE {[g EXCEPT !.status = "completed"] : g \in hit}
  BY DEF Results
<1>3. \A g \in generated \ mine : g.status = "generating" => g.batch # b
  OBVIOUS
<1> HIDE DEF mine, hit
<1>4. \A g \in T : /\ [g EXCEPT !.status = "completed"] \in T
                   /\ [g EXCEPT !.status = "completed"].status = "completed"
                   /\ [g EXCEPT !.status = "error"] \in T
                   /\ [g EXCEPT !.status = "error"].status = "error"
  OBVIOUS
<1> HIDE DEF T
<1>5. \A g \in Results(b, k) : \/ g \in generated \ mine
                               \/ g \in T /\ g.status # "generating"
  BY <1>1, <1>2, <1>4 DEF MarkedAsError
<1>6. Results(b, k) \subseteq T
  BY <1>1, <1>5
<1>7. \A g \in Results(b, k) :
         g.status = "generating" => g \in generated /\ g.batch # b
  BY <1>3, <1>5
<1> QED BY <1>6, <1>7 DEF T

LEMMA AnswerFailsKeeps ==
    ASSUME IInv, NEW i \in DOMAIN calls, AnswerFails(i) PROVE IInv'
<1> DEFINE b == calls[i].batch
           c == [calls[i] EXCEPT !.state = "failed"]
<1>1. /\ calls[i].state \in {"asked", "made"}
      /\ calls' = [calls EXCEPT ![i].state = "failed"]
      /\ generated' = IF calls[i].kind = "wait" THEN Results(b, 0) ELSE generated
      /\ UNCHANGED <<server, old, waiting, storage, tab, requests>>
  BY DEF AnswerFails
<1>2. UNCHANGED <<store, last, listings, deletions>>
  BY <1>1 DEF server, requests
<1>3. /\ calls[i] \in CallRecords /\ CallFits(calls[i])
      /\ \A id \in calls[i].made : id <= last
  BY OneCall
<1>4. /\ c \in CallRecords /\ c.made = calls[i].made /\ c.state = "failed"
      /\ c.asked = calls[i].asked /\ c.came = calls[i].came /\ c.batch = calls[i].batch
      /\ c.kind = calls[i].kind
  BY <1>3 DEF CallRecords
<1>5. calls' = [calls EXCEPT ![i] = c]
  BY <1>1
<1> HIDE DEF c
<1>6. CallFits(c)
  BY <1>1, <1>3, <1>4 DEF CallFits
<1>7. last \in Nat /\ 0 \in 0..MaxAsked /\ last + 0 = last
  BY RecentAssumption DEF IInv, Pipeline, Numbered
<1>8. /\ Numbered' /\ CallsOK' /\ DOMAIN calls' = DOMAIN calls
      /\ calls'[i] = c /\ \A j \in DOMAIN calls : j # i => calls'[j] = calls[j]
  <2>1. /\ last' = last + 0 /\ \A id \in c.made : id <= last + 0
    BY <1>2, <1>3, <1>4, <1>7
  <2>2. old' = old /\ c.state # "asked" /\ Numbered /\ CallsOK
    BY <1>1, <1>4 DEF IInv, Pipeline
  <2> QED BY <1>5, <1>6, <1>7, <2>1, <2>2, CallMoved
<1>9. \A j \in DOMAIN calls : /\ calls'[j].batch = calls[j].batch
                              /\ calls'[j].kind = calls[j].kind
                              /\ calls'[j].came = calls[j].came
                              /\ calls'[j].asked = calls[j].asked
                              /\ calls[j].state # "done" => calls'[j].state # "done"
  <2> TAKE j \in DOMAIN calls
  <2>1. CASE j = i
    BY <1>4, <1>8, <2>1
  <2>2. CASE j # i
    BY <1>8, <2>2
  <2> QED BY <2>1, <2>2
<1>10. /\ generated' \subseteq [id : Ids, batch : Batches,
                                status : {"generating", "completed", "error"}]
       /\ \A g \in generated' : g.status = "generating" =>
             g \in generated /\ (calls[i].kind = "wait" => g.batch # b)
  <2>1. GeneratedOK
    BY DEF IInv, Pipeline
  <2>2. CASE calls[i].kind = "wait"
    BY <1>1, <2>1, <2>2, ResultsOfBatch
  <2>3. CASE calls[i].kind # "wait"
    BY <1>1, <2>1, <2>3 DEF GeneratedOK
  <2> QED BY <2>2, <2>3
<1>11. GeneratedOK'
  BY <1>1, <1>2, <1>10 DEF IInv, Pipeline, GeneratedOK
<1>12. GeneratingIsServed'
  <2>1. ASSUME NEW g \in generated', g.status = "generating"
        PROVE  \E j \in DOMAIN calls : /\ calls'[j].batch = g.batch
                                       /\ calls'[j].kind = "wait"
                                       /\ calls'[j].state \in {"asked", "made"}
    <3>1. g \in generated /\ (calls[i].kind = "wait" => g.batch # b)
      BY <1>10, <2>1
    <3>2. PICK j \in DOMAIN calls : /\ calls[j].batch = g.batch
                                    /\ calls[j].kind = "wait"
                                    /\ calls[j].state \in {"asked", "made"}
      BY <2>1, <3>1 DEF IInv, Pipeline, GeneratingIsServed
    <3>3. j # i
      BY <3>1, <3>2
    <3> QED BY <1>8, <3>2, <3>3
  <2>2. \A w \in waiting : \E j \in DOMAIN calls : /\ calls'[j].batch = w.batch
                                                   /\ calls'[j].kind = "wait"
                                                   /\ calls'[j].state # "done"
    BY <1>9 DEF IInv, Pipeline, GeneratingIsServed
  <2> QED BY <1>1, <1>8, <2>1, <2>2 DEF GeneratingIsServed
<1>13. Settled(store, last)' /\ RequestsOK'
  BY <1>2 DEF IInv, Pipeline, RequestsOK
<1>14. UNCHANGED <<open, view, images, order, shown, collapsed, forced, tracked, panel,
                   picks, stored>>
  BY <1>1 DEF tab, lists, storage
<1>15. ListsOK'
  <2>1. collapsed' \in Collapsed
    BY <1>14 DEF IInv, ListsOK
  <2> QED BY <1>1, <1>2, <1>7, <1>14, <2>1, ListsKept DEF IInv
<1>16. PanelsOK'
  BY <1>14, PanelsKept DEF IInv
<1>17. PlaceholdersAreOwed'
  BY <1>8, <1>9, <1>14, SameOwed DEF IInv
<1> QED BY <1>8, <1>11, <1>12, <1>13, <1>15, <1>16, <1>17 DEF IInv, Pipeline

\* The tab's lists once the images of an answer are there.
LEMMA AnswerLands ==
    ASSUME IInv, NEW i \in DOMAIN calls, open, open' = open, last' = last,
           tracked' = tracked, waiting' \subseteq waiting,
           Regroup(Arrived(images, calls[i].batch, Announced(calls[i])),
                   ToTop(order, calls[i].batch), OpenedFor(calls[i]))
    PROVE  /\ ListsOK'
           /\ \A b : Waits(images', b) \subseteq Waits(images, b)
           /\ \A b : b = calls[i].batch =>
                 \/ Cardinality(Waits(images', b)) = 0
                 \/ Cardinality(Waits(images', b)) + Cardinality(calls[i].made)
                      <= Cardinality(Waits(images, b))
<1> DEFINE new == Announced(calls[i])
           s   == Arrived(images, calls[i].batch, new)
           ord == ToTop(order, calls[i].batch)
           shut == OpenedFor(calls[i])
<1>1. /\ calls[i].made \in SUBSET Ids /\ calls[i].batch \in Batches
      /\ \A id \in calls[i].made : id <= last
  BY OneCall
<1>2. /\ new \in Seq(Images) /\ UniqueIds(new) /\ Len(new) = Cardinality(calls[i].made)
      /\ ToSet(new) = {[id |-> id, batch |-> calls[i].batch, kind |-> "image"] :
                          id \in calls[i].made}
  BY <1>1, MadeImages DEF Announced, Kinds
<1>3. \A x \in ToSet(new) : x.id <= last /\ x.kind = "image"
  BY <1>1, <1>2
<1>4. images \in Seq(Images) /\ UniqueIds(images)
  BY DEF IInv, ListsOK
<1> HIDE DEF new
<1>5. \A x \in ToSet(new) : ~IsPlaceholder(x)
  BY <1>3 DEF IsPlaceholder
<1>6. /\ s \in Seq(Images) /\ UniqueIds(s)
      /\ ToSet(s) \subseteq ToSet(images) \cup ToSet(new)
      /\ \A b : Waits(s, b) \subseteq Waits(images, b)
      /\ \/ Cardinality(Waits(s, calls[i].batch)) = 0
         \/ Cardinality(Waits(s, calls[i].batch)) + Len(new)
              <= Cardinality(Waits(images, calls[i].batch))
  BY <1>2, <1>4, <1>5, ArrivedImages
<1>7. ord \in Seq(Batches) /\ IsInjective(ord)
  BY <1>1, BroughtToTop DEF IInv, ListsOK, OrderIsShown
<1>8. shut \in Collapsed
  <2>1. collapsed \in Collapsed
    BY DEF IInv, ListsOK
  <2> QED BY <2>1 DEF OpenedFor, Collapsed
<1>9. Regroup(s, ord, shut)
  BY DEF new
<1> HIDE DEF s, ord, shut
<1>10. /\ \A x \in ToSet(s) : x.id <= last'
       /\ \A x \in ToSet(s) : x.kind = "again" => \A w \in waiting' : w.id # x.id
  <2>1. /\ \A x \in ToSet(images) : x.id <= last
        /\ \A x \in ToSet(images) : x.kind = "again" => \A w \in waiting : w.id # x.id
    BY DEF IInv, ListsOK
  <2> QED BY <1>3, <1>6, <2>1
<1>11. ListsOK' /\ images' = s
  <2>1. tracked' \subseteq Ids
    BY DEF IInv, ListsOK
  <2> QED BY <1>6, <1>7, <1>8, <1>9, <1>10, <2>1, ListsRegrouped
<1> QED BY <1>2, <1>6, <1>11

LEMMA AnswerKeeps ==
    ASSUME IInv, NEW i \in DOMAIN calls, Answer(i) PROVE IInv'
<1> DEFINE made == calls[i].made
           new  == Announced(calls[i])
           c    == [calls[i] EXCEPT !.state = "done", !.came = Cardinality(made)]
           lands == open /\ made # {}
<1>1. /\ calls[i].state = "made"
      /\ calls' = [calls EXCEPT ![i].state = "done", ![i].came = Cardinality(made)]
      /\ lands => /\ Regroup(Arrived(images, calls[i].batch, new),
                             ToTop(order, calls[i].batch), OpenedFor(calls[i]))
                  /\ forced' = [forced EXCEPT ![calls[i].batch] = new[1].id]
      /\ ~lands => UNCHANGED <<images, order, shown, collapsed, forced>>
      /\ generated' = IF calls[i].kind = "wait"
                      THEN Results(calls[i].batch, Cardinality(made)) ELSE generated
      /\ waiting' = IF calls[i].kind = "wait"
                    THEN {w \in waiting : w.batch # calls[i].batch} ELSE waiting
      /\ UNCHANGED <<open, view>> /\ Render(stored)
      /\ UNCHANGED <<server, old, picks, tracked, requests>>
  BY DEF Answer, lists
<1>2. UNCHANGED <<store, last, listings, deletions>>
  BY <1>1 DEF server, requests
<1>3. /\ calls[i] \in CallRecords /\ CallFits(calls[i]) /\ calls[i].batch \in Batches
      /\ made \in SUBSET Ids /\ Cardinality(made) \in Nat
      /\ \A id \in made : id <= last
  BY OneCall
<1>4. /\ c \in CallRecords /\ c.made = made /\ c.state = "done"
      /\ c.came = Cardinality(made) /\ c.asked = calls[i].asked
      /\ c.batch = calls[i].batch /\ c.kind = calls[i].kind
  BY <1>3 DEF CallRecords
<1>5. calls' = [calls EXCEPT ![i] = c]
  BY <1>1
<1> HIDE DEF c
<1>6. Cardinality(made) <= calls[i].asked /\ calls[i].came = 0
  BY <1>1, <1>3 DEF CallFits
<1>7. CallFits(c)
  BY <1>4, <1>6 DEF CallFits
<1>8. last \in Nat /\ 0 \in 0..MaxAsked /\ last + 0 = last
  BY RecentAssumption DEF IInv, Pipeline, Numbered
<1>9. /\ Numbered' /\ CallsOK' /\ DOMAIN calls' = DOMAIN calls
      /\ calls'[i] = c /\ \A j \in DOMAIN calls : j # i => calls'[j] = calls[j]
  <2>1. /\ last' = last + 0 /\ \A id \in c.made : id <= last + 0
    BY <1>2, <1>3, <1>4, <1>8
  <2>2. old' = old /\ c.state # "asked" /\ Numbered /\ CallsOK
    BY <1>1, <1>4 DEF IInv, Pipeline
  <2> QED BY <1>5, <1>7, <1>8, <2>1, <2>2, CallMoved
<1>10. waiting' \subseteq waiting
  BY <1>1
<1>11. /\ generated' \subseteq [id : Ids, batch : Batches,
                                status : {"generating", "completed", "error"}]
       /\ \A g \in generated' : g.status = "generating" =>
             g \in generated /\ (calls[i].kind = "wait" => g.batch # calls[i].batch)
  <2>1. GeneratedOK
    BY DEF IInv, Pipeline
  <2>2. CASE calls[i].kind = "wait"
    <3>1. generated' = Results(calls[i].batch, Cardinality(made))
      BY <1>1, <2>2
    <3> QED BY <2>1, <3>1, ResultsOfBatch
  <2>3. CASE calls[i].kind # "wait"
    BY <1>1, <2>1, <2>3 DEF GeneratedOK
  <2> QED BY <2>2, <2>3
<1>12. GeneratedOK'
  BY <1>2, <1>10, <1>11 DEF IInv, Pipeline, GeneratedOK
<1>13. GeneratingIsServed'
  <2>1. ASSUME NEW g \in generated', g.status = "generating"
        PROVE  \E j \in DOMAIN calls : /\ calls'[j].batch = g.batch
                                       /\ calls'[j].kind = "wait"
                                       /\ calls'[j].state \in {"asked", "made"}
    <3>1. g \in generated /\ (calls[i].kind = "wait" => g.batch # calls[i].batch)
      BY <1>11, <2>1
    <3>2. PICK j \in DOMAIN calls : /\ calls[j].batch = g.batch
                                    /\ calls[j].kind = "wait"
                                    /\ calls[j].state \in {"asked", "made"}
      BY <2>1, <3>1 DEF IInv, Pipeline, GeneratingIsServed
    <3>3. j # i
      BY <3>1, <3>2
    <3> QED BY <1>9, <3>2, <3>3
  <2>2. ASSUME NEW w \in waiting'
        PROVE  \E j \in DOMAIN calls : /\ calls'[j].batch = w.batch
                                       /\ calls'[j].kind = "wait"
                                       /\ calls'[j].state # "done"
    <3>1. w \in waiting /\ (calls[i].kind = "wait" => w.batch # calls[i].batch)
      BY <1>1, <2>2
    <3>2. PICK j \in DOMAIN calls : /\ calls[j].batch = w.batch
                                    /\ calls[j].kind = "wait"
                                    /\ calls[j].state # "done"
      BY <3>1 DEF IInv, Pipeline, GeneratingIsServed
    <3>3. j # i
      BY <3>1, <3>2
    <3> QED BY <1>9, <3>2, <3>3
  <2> QED BY <1>9, <2>1, <2>2 DEF GeneratingIsServed
<1>14. Settled(store, last)' /\ RequestsOK'
  BY <1>2 DEF IInv, Pipeline, RequestsOK
<1>15. lands => /\ ListsOK'
                /\ \A b : Waits(images', b) \subseteq Waits(images, b)
                /\ \A b : b = calls[i].batch =>
                      \/ Cardinality(Waits(images', b)) = 0
                      \/ Cardinality(Waits(images', b)) + Cardinality(made)
                           <= Cardinality(Waits(images, b))
  BY <1>1, <1>2, <1>10, AnswerLands
<1>16. ListsOK'
  <2>1. CASE ~lands
    <3>1. collapsed' \in Collapsed
      BY <1>1, <2>1 DEF IInv, ListsOK
    <3> QED BY <1>1, <1>2, <1>8, <1>10, <2>1, <3>1, ListsKept DEF IInv
  <2> QED BY <1>15, <2>1
<1>17. PanelsOK'
  <2>1. /\ open' \in BOOLEAN /\ view' \in [loading : BOOLEAN, error : BOOLEAN]
        /\ picks' \in Selections /\ stored \in Selections /\ forced \in Selections
    BY <1>1 DEF IInv, PanelsOK
  <2>2. forced' \in Selections
    <3>1. CASE lands
      <4>1. new \in Seq(Images) /\ Len(new) = Cardinality(made)
        BY <1>3, MadeImages DEF Announced, Kinds
      <4>2. Len(new) # 0
        <5>1. IsFiniteSet(made) /\ made # {}
          BY <1>3, <3>1, IdsAreFinite
        <5> QED BY <4>1, <5>1, FS_EmptySet
      <4> HIDE DEF new
      <4>3. new[1] \in Images
        BY <4>1, <4>2
      <4>4. new[1].id \in Ids
        BY <4>3 DEF Images
      <4>5. forced' = [forced EXCEPT ![calls[i].batch] = new[1].id]
        BY <1>1, <3>1
      <4> QED BY <1>3, <2>1, <4>4, <4>5 DEF Selections
    <3>2. CASE ~lands
      BY <1>1, <2>1, <3>2
    <3> QED BY <3>1, <3>2
  <2> QED BY <1>1, <1>16, <2>1, <2>2, PanelsRendered
<1>18. PlaceholdersAreOwed'
  <2>1. \A b : /\ b = calls[i].batch => Cardinality(OwedTo(b)')
                                          = Cardinality(OwedTo(b)) - Cardinality(made)
               /\ b # calls[i].batch => OwedTo(b)' = OwedTo(b)
    <3>1. CallsOK
      BY DEF IInv, Pipeline
    <3>2. calls'[i].batch = calls[i].batch /\ calls'[i].asked = calls[i].asked
          /\ calls'[i].came = Cardinality(made)
      BY <1>4, <1>9
    <3>3. calls'[i].came <= calls[i].asked /\ calls[i].came = 0 /\ CallsOK'
      BY <1>6, <1>9, <3>2
    <3>4. /\ DOMAIN calls' = DOMAIN calls
          /\ \A j \in DOMAIN calls : j # i => calls'[j] = calls[j]
      BY <1>9
    <3>5. \A b : /\ b = calls[i].batch => Cardinality(OwedTo(b)')
                                            = Cardinality(OwedTo(b)) - calls'[i].came
                 /\ b # calls[i].batch => OwedTo(b)' = OwedTo(b)
      BY <3>1, <3>2, <3>3, <3>4, OwedAfter
    <3> HIDE DEF made
    <3> QED BY <3>2, <3>5
  <2>2. images \in Seq(Images) /\ UniqueIds(images) /\ CallsOK
        /\ images' \in Seq(Images) /\ UniqueIds(images')
    BY <1>16 DEF IInv, ListsOK, Pipeline
  <2>3. CASE lands
    <3>1. ASSUME NEW b \in Batches
          PROVE  Cardinality(Waits(images', b)) <= Cardinality(OwedTo(b)')
      <4>1. /\ IsFiniteSet(Waits(images, b)) /\ Cardinality(Waits(images, b)) \in Nat
            /\ Cardinality(Waits(images', b)) \in Nat /\ Cardinality(OwedTo(b)) \in Nat
            /\ Cardinality(Waits(images, b)) <= Cardinality(OwedTo(b))
        BY <2>2, WaitsAreFinite, OwedAreFinite, OwedNow DEF IInv
      <4>2. Cardinality(Waits(images', b)) <= Cardinality(Waits(images, b))
        BY <1>15, <2>3, <4>1, FS_Subset
      <4>3. CASE b # calls[i].batch
        BY <2>1, <4>1, <4>2, <4>3
      <4>4. CASE b = calls[i].batch
        <5>1. Cardinality(OwedTo(b)') = Cardinality(OwedTo(b)) - Cardinality(made)
          BY <2>1, <4>4
        <5>2. \/ Cardinality(Waits(images', b)) = 0
              \/ Cardinality(Waits(images', b)) + Cardinality(made)
                   <= Cardinality(Waits(images, b))
          BY <1>15, <2>3, <4>4
        <5>3. Cardinality(OwedTo(b)') \in Nat
          BY <1>9, OwedAreFiniteNext
        <5> QED BY <1>3, <4>1, <5>1, <5>2, <5>3
      <4> QED BY <4>3, <4>4
    <3> QED BY <2>2, <3>1, OwedNext
  <2>4. CASE open /\ made = {}
    <3>1. Cardinality(made) = 0
      BY <2>4, FS_EmptySet
    <3>2. \A b : Cardinality(OwedTo(b)') = Cardinality(OwedTo(b))
      <4> TAKE b
      <4>1. Cardinality(OwedTo(b)) \in Nat
        BY <2>2, OwedAreFinite
      <4>2. CASE b = calls[i].batch
        <5>1. Cardinality(OwedTo(b)') = Cardinality(OwedTo(b)) - Cardinality(made)
          BY <2>1, <4>2
        <5> QED BY <3>1, <4>1, <5>1
      <4>3. CASE b # calls[i].batch
        BY <2>1, <4>3
      <4> QED BY <4>2, <4>3
    <3>3. images' = images
      BY <1>1, <2>4
    <3>4. \A b \in Batches : Cardinality(Waits(images, b)) <= Cardinality(OwedTo(b))
      BY <2>2, OwedNow DEF IInv
    <3> QED BY <2>2, <3>2, <3>3, <3>4, OwedNext
  <2>5. CASE ~open
    <3>1. images' = images /\ \A x \in ToSet(images) : ~IsPlaceholder(x)
      BY <1>1, <2>5 DEF IInv, ListsOK
    <3> QED BY <1>9, <2>2, <3>1, NoneWaits
  <2> QED BY <2>3, <2>4, <2>5
<1> QED BY <1>9, <1>12, <1>13, <1>14, <1>16, <1>17, <1>18 DEF IInv, Pipeline

-----------------------------------------------------------------------------
(* The steps together, and the theorems                                    *)

LEMMA StutterKeeps == IInv /\ UNCHANGED vars => IInv'
<1> SUFFICES ASSUME IInv, UNCHANGED vars PROVE IInv'
  OBVIOUS
<1>1. /\ UNCHANGED <<store, last, old, calls, generated, waiting, picks, stored, open,
                     view, images, order, shown, collapsed, forced, tracked, panel>>
      /\ UNCHANGED <<listings, deletions>>
  BY DEF vars
<1>2. last \in Nat
  BY DEF IInv, Pipeline, Numbered
<1>3. RequestsOK'
  BY <1>1 DEF IInv, Pipeline, RequestsOK
<1>4. Pipeline'
  BY <1>1, <1>3, PipelineKept DEF IInv
<1>5. ListsOK' /\ PanelsOK' /\ PlaceholdersAreOwed'
  BY <1>1, <1>2, TabKept DEF tab, lists, storage
<1> QED BY <1>4, <1>5 DEF IInv

LEMMA StepKeepsIInv == IInv /\ [Next]_vars => IInv'
<1> SUFFICES ASSUME IInv, [Next]_vars PROVE IInv'
  OBVIOUS
<1>1. ASSUME UserActs PROVE IInv'
  <2>1. CASE Mount \/ Unmount
    BY <2>1, MountKeeps, UnmountKeeps
  <2>2. ASSUME NEW b \in Batches, GenerateAgain(b) \/ DeleteBatch(b) \/ Toggle(b)
        PROVE  IInv'
    BY <2>2, GenerateAgainKeeps, DeleteBatchKeeps, ToggleKeeps
  <2>3. ASSUME NEW b \in Batches, NEW n \in 1..MaxAsked, Submit(b, n) PROVE IInv'
    BY <2>3, SubmitKeeps
  <2>4. ASSUME NEW b \in Batches, NEW id \in IdsOf(images), Pick(b, id) PROVE IInv'
    BY <2>4, PickKeeps
  <2>5. ASSUME NEW b \in Batches, NEW id \in IdsOf(images), NEW t \in BOOLEAN,
               DeleteImage(b, id, t)
        PROVE  IInv'
    BY <2>5, DeleteImageKeeps
  <2>6. ASSUME NEW b \in Batches, NEW at \in DOMAIN images, Step(b, at) PROVE IInv'
    BY <2>6, StepKeeps
  <2>7. ASSUME NEW i \in DOMAIN shown, NEW j \in DOMAIN shown, DragPanel(i, j) PROVE IInv'
    BY <2>7, DragPanelKeeps
  <2>8. CASE Rerender
    BY <2>8, RerenderKeeps
  <2> QED BY <1>1, <2>1, <2>2, <2>3, <2>4, <2>5, <2>6, <2>7, <2>8 DEF UserActs
<1>2. ASSUME Others PROVE IInv'
  <2>1. CASE TimePasses
    BY <2>1, TimeKeeps
  <2>2. ASSUME NEW i \in DOMAIN listings, ListAnswered(i) \/ ListLands(i) \/ ListFails(i)
        PROVE  IInv'
    BY <2>2, ListAnsweredKeeps, ListLandsKeeps, ListFailsKeeps
  <2>3. ASSUME NEW i \in DOMAIN calls, Answer(i) \/ AnswerFails(i) PROVE IInv'
    BY <2>3, AnswerKeeps, AnswerFailsKeeps
  <2>4. ASSUME NEW i \in DOMAIN calls, NEW k \in 0..MaxAsked, ServerMakes(i, k) PROVE IInv'
    BY <2>4, ServerMakesKeeps
  <2>5. ASSUME NEW i \in DOMAIN deletions, DeleteEnds(i) \/ DeleteDone(i) \/ DeleteFails(i)
        PROVE  IInv'
    BY <2>5, DeleteEndsKeeps, DeleteDoneKeeps, DeleteFailsKeeps
  <2>6. ASSUME NEW i \in DOMAIN deletions, NEW id,
               ServerDeletes(i, id) \/ ServerRefuses(i, id)
        PROVE  IInv'
    BY <2>6, ServerDeletesKeeps, ServerRefusesKeeps
  <2> QED BY <1>2, <2>1, <2>2, <2>3, <2>4, <2>5, <2>6 DEF Others
<1>3. CASE UNCHANGED vars
  BY <1>3, StutterKeeps
<1> QED BY <1>1, <1>2, <1>3 DEF Next

\* The invariant holds, whatever arrives, fails or is done in whatever order.
THEOREM InvariantHolds == Spec => []IInv
<1>1. Init => IInv
  BY InitHolds
<1>2. IInv /\ [Next]_vars => IInv'
  BY StepKeepsIInv
<1> QED BY <1>1, <1>2, PTL DEF Spec

LEMMA InvariantIsEnough == IInv => TabHolds /\ GenerationsAreAnswered
<1> SUFFICES ASSUME IInv PROVE TabHolds /\ GenerationsAreAnswered
  OBVIOUS
<1>1. TypeOK
  <2>1. store \in Seq(Images) /\ images \in Seq(Images)
    BY DEF IInv, Pipeline, Settled, ListsOK
  <2>2. last \in Ids \cup {0} /\ old \in 0..last
    <3>1. last \in Nat /\ old \in 0..last /\ last <= MaxId
      BY LastIsBound DEF IInv, Pipeline, Numbered
    <3> QED BY <3>1, IdsAreFinite DEF Ids
  <2>3. /\ order \in Seq(Batches) /\ shown \in Seq(Batches)
        /\ collapsed \in [Batches -> {"open", "shut", "unset"}] /\ tracked \subseteq Ids
    BY DEF IInv, ListsOK, Collapsed
  <2>4. /\ open \in BOOLEAN /\ view \in [loading : BOOLEAN, error : BOOLEAN]
        /\ {picks, stored, forced} \subseteq [Batches -> Ids \cup {None}]
        /\ panel \in [Batches -> [sel : Ids \cup {None}, at : Nat, shut : BOOLEAN]]
        /\ Ready => \A b \in ToSet(shown) : panel[b].at \in DOMAIN Group(images, b)
    BY DEF IInv, PanelsOK, Selections, PanelState
  <2>5. /\ generated \subseteq [id : Ids, batch : Batches,
                                status : {"generating", "completed", "error"}]
        /\ waiting \subseteq [id : Ids, batch : Batches]
    BY DEF IInv, Pipeline, GeneratedOK
  <2> QED BY <2>1, <2>2, <2>3, <2>4, <2>5 DEF TypeOK
<1>2. OrderIsShown /\ PickIsKept
  BY DEF IInv, ListsOK, PanelsOK
<1>3. PlaceholdersAreOwed /\ GeneratingIsServed
  BY DEF IInv, Pipeline
<1> QED BY <1>1, <1>2, <1>3 DEF TabHolds, GenerationsAreAnswered

\* The tab holds: the saved order of the batches and the list it shows are the
\* same at all times, each batch once and with an image; an index of a panel is
\* one of its images; and where nothing is forced a panel shows what was picked
\* in it last, for every number of batches, generations and images.
THEOREM TabIsSound == Spec => []TabHolds
<1>1. Spec => []IInv
  BY InvariantHolds
<1>2. IInv => TabHolds
  BY InvariantIsEnough
<1> QED BY <1>1, <1>2, PTL

\* No placeholder outlives what its generations still owe, whichever answer
\* comes first and whatever is listed or deleted meanwhile; and what the page
\* holds for generating, or keeps in localStorage, belongs to a generation that
\* has not been answered.
THEOREM PlaceholdersAreServed == Spec => []GenerationsAreAnswered
<1>1. Spec => []IInv
  BY InvariantHolds
<1>2. IInv => GenerationsAreAnswered
  BY InvariantIsEnough
<1> QED BY <1>1, <1>2, PTL
=============================================================================
