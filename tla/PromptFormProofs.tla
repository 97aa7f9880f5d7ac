--------------------------- MODULE PromptFormProofs ---------------------------
(***************************************************************************)
(* Proofs about PromptForm, for any files, URLs, texts, destinations and   *)
(* workflows, any number of submissions, images and reloads.               *)
(***************************************************************************)
EXTENDS PromptForm, FiniteSetTheorems, SequenceTheorems, TLAPS

-----------------------------------------------------------------------------
(* Sequences                                                               *)

\* The n-th smallest of finitely many numbers is one of them.
LEMMA NthIsMember ==
    ASSUME NEW S \in SUBSET Nat, IsFiniteSet(S), NEW n \in 1..Cardinality(S)
    PROVE  Nth(S, n) \in S
<1> DEFINE UpTo(i) == {j \in S : j <= i}
           rank == [i \in S |-> Cardinality(UpTo(i))]
<1>1. Cardinality(S) \in Nat
  BY FS_CardinalityType
<1>2. \A i \in S : IsFiniteSet(UpTo(i)) /\ Cardinality(UpTo(i)) \in 1..Cardinality(S)
  <2> TAKE i \in S
  <2>1. UpTo(i) \in SUBSET S /\ UpTo(i) # {}
    OBVIOUS
  <2>2. /\ IsFiniteSet(UpTo(i)) /\ Cardinality(UpTo(i)) <= Cardinality(S)
        /\ Cardinality(UpTo(i)) \in Nat /\ Cardinality(UpTo(i)) # 0
    BY <2>1, FS_Subset, FS_CardinalityType, FS_EmptySet
  <2> QED BY <1>1, <2>2
<1>3. rank \in Injection(S, 1..Cardinality(S))
  <2>1. ASSUME NEW i \in S, NEW k \in S, i < k PROVE rank[i] # rank[k]
    <3>0. /\ \A j \in UpTo(i) : j <= i /\ j \in S /\ j \in Nat
          /\ i \in Nat /\ k \in Nat
      OBVIOUS
    <3>1a. UpTo(i) \in SUBSET UpTo(k)
      <4>1. ASSUME NEW j \in UpTo(i) PROVE j \in UpTo(k)
        <5>1. j \in S /\ j <= k
          BY <3>0, <2>1
        <5> QED BY <5>1
      <4> QED BY <4>1
    <3>1b. k \in UpTo(k) /\ k \notin UpTo(i)
      BY <3>0, <2>1
    <3>1. UpTo(i) \in SUBSET UpTo(k) /\ UpTo(i) # UpTo(k)
      BY <3>1a, <3>1b
    <3>2. Cardinality(UpTo(k)) # Cardinality(UpTo(i))
      BY <1>2, <3>1, FS_Subset
    <3> QED BY <3>2
  <2>2. rank \in [S -> 1..Cardinality(S)]
    BY <1>2
  <2>3. ASSUME NEW i \in S, NEW k \in S, rank[i] = rank[k] PROVE i = k
    <3>1. i \in Nat /\ k \in Nat /\ ~(i < k) /\ ~(k < i)
      BY <2>1, <2>3
    <3> QED BY <3>1
  <2> HIDE DEF rank
  <2> QED BY <2>2, <2>3 DEF Injection, IsInjective
<1>4. rank \in Surjection(S, 1..Cardinality(S))
  <2>1. IsFiniteSet(1..Cardinality(S)) /\ Cardinality(1..Cardinality(S)) = Cardinality(S)
    BY <1>1, FS_Interval
  <2> HIDE DEF rank
  <2> QED BY <1>3, <2>1, FS_Injection
<1>5. \E i \in S : Cardinality(UpTo(i)) = n
  <2>1. \E i \in S : rank[i] = n
    <3> HIDE DEF rank
    <3> QED BY <1>4 DEF Surjection
  <2> QED BY <2>1
<1> QED BY <1>5 DEF Nth

\* What Without returns is a sequence of the same things.
LEMMA WithoutIsASeq ==
    ASSUME NEW S, NEW s \in Seq(S), NEW u
    PROVE  Without(s, u) \in Seq(S)
<1> DEFINE kept == {j \in DOMAIN s : s[j] # u}
<1>1. Len(s) \in Nat /\ DOMAIN s = 1..Len(s)
  OBVIOUS
<1>2. IsFiniteSet(1..Len(s))
  BY <1>1, FS_Interval
<1>3. kept \in SUBSET Nat /\ kept \in SUBSET (1..Len(s))
  BY <1>1
<1>4. IsFiniteSet(kept) /\ Cardinality(kept) \in Nat
  BY <1>2, <1>3, FS_Subset, FS_CardinalityType
<1>5. \A n \in 1..Cardinality(kept) : s[Nth(kept, n)] \in S
  <2> TAKE n \in 1..Cardinality(kept)
  <2> HIDE DEF kept
  <2>1. Nth(kept, n) \in 1..Len(s)
    BY <1>3, <1>4, NthIsMember
  <2> QED BY <2>1, ElementOfSeq
<1>6. Without(s, u) = [n \in 1..Cardinality(kept) |-> s[Nth(kept, n)]]
  BY DEF Without
<1> HIDE DEF kept
<1> QED BY <1>4, <1>5, <1>6

\* The members of what the form does with sequences of files.
LEMMA RangeOfAppend ==
    ASSUME NEW S, NEW s \in Seq(S), NEW x \in S
    PROVE  Append(s, x) \in Seq(S) /\ Range(Append(s, x)) = Range(s) \cup {x}
<1>1. Append(s, x) \in Seq(S) /\ DOMAIN Append(s, x) = 1..Len(s) + 1
      /\ DOMAIN s = 1..Len(s) /\ Len(s) \in Nat
  OBVIOUS
<1>2. \A i \in 1..Len(s) + 1 : Append(s, x)[i] = IF i = Len(s) + 1 THEN x ELSE s[i]
  OBVIOUS
<1> QED BY <1>1, <1>2 DEF Range

LEMMA RangeOfRemoveAt ==
    ASSUME NEW S, NEW s \in Seq(S), NEW i \in 1..Len(s)
    PROVE  /\ RemoveAt(s, i) \in Seq(S)
           /\ \A x \in Range(RemoveAt(s, i)) : \E j \in 1..Len(s) : j # i /\ s[j] = x
<1> DEFINE a == SubSeq(s, 1, i - 1)
           b == SubSeq(s, i + 1, Len(s))
<1>1. /\ a \in Seq(S) /\ Len(a) = i - 1 /\ \A k \in 1..i - 1 : a[k] = s[k]
      /\ b \in Seq(S) /\ Len(b) = Len(s) - i /\ \A k \in 1..Len(s) - i : b[k] = s[i + k]
  <2>1. Len(s) \in Nat /\ \A k \in 1..Len(s) : s[k] \in S
    OBVIOUS
  <2>2. /\ a \in Seq(S) /\ Len(a) = i - 1 /\ \A k \in 1..i - 1 : a[k] = s[k]
    BY <2>1
  <2>3. /\ b \in Seq(S) /\ Len(b) = Len(s) - i /\ \A k \in 1..Len(s) - i : b[k] = s[i + k]
    BY <2>1
  <2> QED BY <2>2, <2>3
<1> HIDE DEF a, b
<1>2. /\ a \o b \in Seq(S) /\ Len(a \o b) = Len(s) - 1
      /\ \A k \in 1..Len(s) - 1 : (a \o b)[k] = IF k <= i - 1 THEN a[k] ELSE b[k - (i - 1)]
  <2>1. /\ a \o b \in Seq(S) /\ Len(a \o b) = Len(a) + Len(b)
        /\ \A k \in 1..Len(a) + Len(b) : (a \o b)[k] = IF k <= Len(a) THEN a[k] ELSE b[k - Len(a)]
    BY <1>1, ConcatProperties
  <2>2. Len(s) \in Nat /\ i \in Nat
    OBVIOUS
  <2> QED BY <1>1, <2>1, <2>2
<1>3. Len(s) \in Nat /\ i \in 1..Len(s)
  OBVIOUS
<1>4. ASSUME NEW k \in 1..Len(s) - 1, k <= i - 1
      PROVE  k \in 1..Len(s) /\ k # i /\ s[k] = (a \o b)[k]
  <2>1. k \in 1..i - 1 /\ k \in 1..Len(s) /\ k # i
    BY <1>3, <1>4
  <2> QED BY <2>1, <1>4, <1>1, <1>2
<1>5. ASSUME NEW k \in 1..Len(s) - 1, k > i - 1
      PROVE  k + 1 \in 1..Len(s) /\ k + 1 # i /\ s[k + 1] = (a \o b)[k]
  <2>1. ~(k <= i - 1) /\ k - (i - 1) \in 1..Len(s) - i
    BY <1>3, <1>5
  <2>2. (a \o b)[k] = b[k - (i - 1)]
    BY <2>1, <1>2
  <2>3. b[k - (i - 1)] = s[i + (k - (i - 1))]
    BY <1>1, <2>1
  <2>4. i + (k - (i - 1)) = k + 1 /\ k + 1 \in 1..Len(s) /\ k + 1 # i
    BY <1>3, <1>5
  <2> QED BY <2>2, <2>3, <2>4
<1>6. RemoveAt(s, i) = a \o b
  BY DEF RemoveAt, a, b
<1>7. DOMAIN (a \o b) = 1..Len(s) - 1
  BY <1>2
<1>8. ASSUME NEW x \in Range(a \o b) PROVE \E j \in 1..Len(s) : j # i /\ s[j] = x
  <2>1. PICK k \in 1..Len(s) - 1 : x = (a \o b)[k]
    BY <1>7 DEF Range
  <2>2. k <= i - 1 \/ k > i - 1
    BY <1>3
  <2> QED BY <2>1, <2>2, <1>4, <1>5
<1> QED BY <1>2, <1>6, <1>8
-----------------------------------------------------------------------------
(* The inductive invariant.                                                *)

\* The files a submission took with it, and those of the form.
Sent(a)  == Range(attempts[a].images)
Composed == Range(files) \cup arriving

InFlight == {"upload", "publish", "clear"}
Through  == {"delete", "done"}
Empty    == {"unused", "failed", "lost"}

\* The pending cleanup knows every file of the form.
TimerSeesFiles == timer # Nothing => Range(files) \subseteq timer

\* What is composed or sent has gone through its handler.
ImagesAreTaken ==
    \A f \in Files :
        f \in Composed \/ (\E a \in Attempts : f \in Sent(a)) => camera[f] = "done"

\* The cached photo has been put, so it is not one that a handler will take.
CachedIsTaken == idb # Nothing => camera[idb] \notin {"unused", "put"}

\* One camera handler at a time, and none during a restore.
OneHandler ==
    /\ \A p, q \in Handling : p = q
    /\ Handling # {} => restore.stage = "none"

\* A handler that is about to set the flag finds its own photo in the cache,
\* or none.
FlagsOwnPhoto == \A p \in Files : camera[p] = "flag" => idb \in {p, Nothing}

\* An attempt that failed or was lost has no images.
EmptyHasNone ==
    \A a \in Attempts : attempts[a].stage \in Empty => attempts[a].images = <<>>

\* While the flag is set, the cached photo is not one that went through.
FlaggedIsUnsent ==
    session.flag =>
        \A a \in Attempts : attempts[a].stage \in Through => idb \notin Sent(a)

\* A page that has not restored yet knows nothing of the cached photo ...
CachedIsUnknown ==
    restore.stage \in {"check", "read"} =>
        /\ idb \notin Composed
        /\ \A a \in Attempts : attempts[a].stage \in InFlight => idb \notin Sent(a)

\* ... and when it reads the photo, that is one that never went through ...
ReadIsUnsent ==
    restore.stage = "read" =>
        \A a \in Attempts : attempts[a].stage \in Through => idb \notin Sent(a)

\* ... so what it restores is neither composed nor sent.
RestoredIsUnsent ==
    restore.stage = "clear" =>
        /\ restore.photo \in Files
        /\ camera[restore.photo] = "done"
        /\ restore.photo \notin Composed
        /\ \A a \in Attempts : restore.photo \notin Sent(a)

\* A direct upload has published the images before the one it is at.
PublishedSoFar ==
    \A a \in Attempts :
        attempts[a].direct /\ attempts[a].stage \in {"upload", "publish"} =>
            /\ attempts[a].next <= Len(attempts[a].images)
            /\ \A i \in 1..attempts[a].next - 1 : <<a, i>> \in published

CacheInv ==
    /\ ImagesAreTaken /\ CachedIsTaken /\ OneHandler /\ FlagsOwnPhoto
    /\ EmptyHasNone /\ FlaggedIsUnsent /\ CachedIsUnknown /\ ReadIsUnsent
    /\ RestoredIsUnsent

IInv ==
    /\ TypeOK
    /\ TimerSeesFiles /\ PreviewsAreLive
    /\ CacheInv
    /\ PublishedSoFar /\ CacheKeptUntilPublished

-----------------------------------------------------------------------------
(* Types.                                                                  *)

\* The conjuncts of TypeOK that hold a record.
AttemptType == [stage : Stages, direct : BOOLEAN, images : Seq(Images), next : Nat \ {0}]
SessionType == [flag : BOOLEAN, photoFresh : BOOLEAN,
                form : FormState \cup {Nothing}, formFresh : BOOLEAN]
RestoreType == [stage : {"none", "check", "drop", "read", "clear"},
                photo : Files \cup {Nothing}, form : FormState \cup {Nothing}]

CameraType  == {"unused", "put", "flag", "save", "done"}

FormTypeOK ==
    /\ prompt \in Texts \cup {""} /\ files \in Seq(Files) /\ refs \in Seq(Urls)
    /\ settings \in Settings /\ loading \in BOOLEAN
ShownTypeOK == live \in SUBSET Files /\ timer \in (SUBSET Files) \cup {Nothing}
CacheTypeOK == session \in SessionType /\ idb \in Files \cup {Nothing}
AsyncTypeOK ==
    /\ camera \in [Files -> CameraType] /\ arriving \in SUBSET Files
    /\ restore \in RestoreType
ServerTypeOK ==
    /\ attempts \in [Attempts -> AttemptType]
    /\ published \in SUBSET (Attempts \X (Nat \ {0}))
ReloadsOK == reloads \in 0..MaxReloads

LEMMA TypeParts ==
    /\ TypeOK => /\ FormTypeOK /\ ShownTypeOK /\ CacheTypeOK
                 /\ AsyncTypeOK /\ ServerTypeOK /\ ReloadsOK
    /\ FormTypeOK /\ ShownTypeOK /\ CacheTypeOK
       /\ AsyncTypeOK /\ ServerTypeOK /\ ReloadsOK => TypeOK
    /\ FormTypeOK' /\ ShownTypeOK' /\ CacheTypeOK'
       /\ AsyncTypeOK' /\ ServerTypeOK' /\ ReloadsOK' => TypeOK'
  BY DEF TypeOK, FormTypeOK, ShownTypeOK, CacheTypeOK, AsyncTypeOK, ServerTypeOK,
         ReloadsOK, AttemptType, SessionType, RestoreType, CameraType

\* A part none of whose variables changes keeps its types.
LEMMA SameTypes ==
    /\ FormTypeOK /\ UNCHANGED <<files, formVars, loading>> => FormTypeOK'
    /\ ShownTypeOK /\ UNCHANGED <<live, timer>> => ShownTypeOK'
    /\ CacheTypeOK /\ UNCHANGED cacheVars => CacheTypeOK'
    /\ AsyncTypeOK /\ UNCHANGED asyncVars => AsyncTypeOK'
    /\ ServerTypeOK /\ UNCHANGED serverVars => ServerTypeOK'
    /\ ReloadsOK /\ UNCHANGED reloads => ReloadsOK'
  BY DEF FormTypeOK, ShownTypeOK, CacheTypeOK, AsyncTypeOK, ServerTypeOK, ReloadsOK,
         formVars, cacheVars, asyncVars, serverVars

LEMMA EndedType ==
    /\ Unused \in AttemptType
    /\ \A stage \in Stages : Ended(stage) \in AttemptType
<1>1. Unused \in AttemptType
  <2>1. <<>> \in Seq(Images)
    BY EmptySeq
  <2> QED BY <2>1 DEF Unused, Stages, AttemptType
<1>2. \A stage \in Stages : [Unused EXCEPT !.stage = stage] \in AttemptType
  BY <1>1 DEF AttemptType
<1> QED BY <1>1, <1>2 DEF Ended

LEMMA InitType == Init => TypeOK
<1> SUFFICES ASSUME Init PROVE TypeOK
  OBVIOUS
<1>1. Unused \in AttemptType /\ Defaults \in Settings
  BY EndedType DEF Defaults, Settings
<1>2. restore \in RestoreType /\ session \in SessionType
  BY DEF Init, Idle, EmptySession, RestoreType, SessionType
<1>3. FormTypeOK /\ ShownTypeOK
  <2>1. <<>> \in Seq(Files) /\ <<>> \in Seq(Urls)
    BY EmptySeq
  <2> QED BY <1>1, <2>1 DEF Init, FormTypeOK, ShownTypeOK
<1>4. CacheTypeOK /\ AsyncTypeOK
  BY <1>2 DEF Init, CacheTypeOK, AsyncTypeOK, CameraType
<1>5. ServerTypeOK /\ ReloadsOK
  <2>1. MaxReloads \in Nat
    BY PromptFormAssumption
  <2>2. ServerTypeOK
    BY <1>1 DEF Init, ServerTypeOK
  <2>3. reloads = 0
    BY DEF Init
  <2>4. ReloadsOK
    BY <2>1, <2>3 DEF ReloadsOK
  <2> QED BY <2>2, <2>4
<1> QED BY <1>3, <1>4, <1>5, TypeParts

LEMMA ImagesType ==
    ASSUME FormTypeOK
    PROVE  /\ files \o refs \in Seq(Images)
           /\ Len(files) \in Nat /\ Len(refs) \in Nat
           /\ Len(files \o refs) = Len(files) + Len(refs)
           /\ \A i \in 1..Len(files) + Len(refs) :
                 (files \o refs)[i] = IF i <= Len(files) THEN files[i]
                                      ELSE refs[i - Len(files)]
<1>1. files \in Seq(Images) /\ refs \in Seq(Images)
  <2>1. Files \in SUBSET Images /\ Urls \in SUBSET Images
    BY DEF Images
  <2> HIDE DEF Images
  <2>2. files \in Seq(Files) /\ refs \in Seq(Urls)
    BY DEF FormTypeOK
  <2> QED BY <2>1, <2>2, SeqMonotonic
<1>2. Len(files) \in Nat /\ Len(refs) \in Nat
  BY <1>1
<1> QED BY <1>1, <1>2, ConcatProperties

\* A change of the files of the form.
LEMMA ShowFilesType ==
    ASSUME NEW fs \in Seq(Files), NEW kept \in SUBSET Files, ShowFiles(fs, kept)
    PROVE  /\ files' = fs /\ live' = kept \cup Range(fs) /\ timer' = Range(fs)
           /\ Range(fs) \in SUBSET Files
           /\ ShownTypeOK'
<1>1. Range(fs) \in SUBSET Files
  BY DEF Range
<1> QED BY <1>1 DEF ShowFiles, ShownTypeOK

LEMMA AttemptsType ==
    ASSUME ServerTypeOK, NEW a \in Attempts
    PROVE  /\ attempts[a] \in AttemptType
           /\ \A r \in AttemptType : [attempts EXCEPT ![a] = r] \in [Attempts -> AttemptType]
  BY DEF ServerTypeOK

LEMMA AttemptFields ==
    ASSUME ServerTypeOK, NEW a \in Attempts
    PROVE  /\ attempts[a].stage \in Stages /\ attempts[a].direct \in BOOLEAN
           /\ attempts[a].images \in Seq(Images) /\ attempts[a].next \in Nat \ {0}
           /\ DOMAIN attempts = Attempts
<1>1. attempts[a] \in AttemptType
  BY AttemptsType
<1> QED BY <1>1 DEF AttemptType, ServerTypeOK

\* What becomes of an attempt that moves to another stage.
LEMMA AttemptMoves ==
    ASSUME ServerTypeOK, NEW a \in Attempts, NEW stage \in Stages
    PROVE  /\ \A n \in Nat \ {0} :
                 [attempts[a] EXCEPT !.next = n, !.stage = stage] \in AttemptType
           /\ [attempts EXCEPT ![a].stage = stage] \in [Attempts -> AttemptType]
<1>1. attempts[a] \in AttemptType
  BY AttemptsType
<1>2. /\ [attempts[a] EXCEPT !.stage = stage] \in AttemptType
      /\ \A n \in Nat \ {0} :
            [attempts[a] EXCEPT !.next = n, !.stage = stage] \in AttemptType
  BY <1>1 DEF AttemptType
<1>3. [attempts EXCEPT ![a].stage = stage]
         = [attempts EXCEPT ![a] = [attempts[a] EXCEPT !.stage = stage]]
  BY DEF ServerTypeOK
<1> QED BY <1>2, <1>3, AttemptsType

LEMMA FailType ==
    ASSUME ServerTypeOK, NEW a \in Attempts, Fail(a)
    PROVE  attempts' \in [Attempts -> AttemptType] /\ loading' = FALSE
<1>1. Ended("failed") \in AttemptType
  BY EndedType DEF Stages
<1> QED BY <1>1, AttemptsType DEF Fail

LEMMA NextType == TypeOK /\ RestoredIsUnsent /\ [Next]_vars => TypeOK'
<1> SUFFICES ASSUME TypeOK, RestoredIsUnsent, [Next]_vars PROVE TypeOK'
  OBVIOUS
<1>0. /\ FormTypeOK /\ ShownTypeOK /\ CacheTypeOK
      /\ AsyncTypeOK /\ ServerTypeOK /\ ReloadsOK
  BY TypeParts
<1> USE DEF formVars, fileVars, cacheVars, asyncVars, serverVars
<1>1. CASE LoadingEffect
  <2>1. FormTypeOK' /\ ShownTypeOK'
    BY <1>0, <1>1 DEF LoadingEffect, FormTypeOK, ShownTypeOK
  <2> QED BY <1>0, <1>1, <2>1, SameTypes, TypeParts DEF LoadingEffect
<1>2. CASE TypePrompt \/ SetPromptText
  <2>1. FormTypeOK' /\ ShownTypeOK'
    BY <1>0, <1>2 DEF TypePrompt, SetPromptText, FormTypeOK, ShownTypeOK
  <2> QED BY <1>0, <1>2, <2>1, SameTypes, TypeParts DEF TypePrompt, SetPromptText
<1>4. CASE ClearPrompt
  <2>1. <<>> \in Seq(Files) /\ {} \in SUBSET Files /\ <<>> \in Seq(Urls)
    OBVIOUS
  <2>2. files' = <<>> /\ ShownTypeOK'
    BY <1>4, <2>1, ShowFilesType DEF ClearPrompt
  <2>3. FormTypeOK'
    BY <1>0, <1>4, <2>1, <2>2 DEF ClearPrompt, FormTypeOK
  <2> QED BY <1>0, <1>4, <2>2, <2>3, SameTypes, TypeParts DEF ClearPrompt
<1>5. CASE ChangeSettings
  <2>1. settings \in [workflow : Workflows \cup {"auto"}, publish : SUBSET Destinations]
    BY <1>0 DEF FormTypeOK, Settings
  <2>2. settings' \in Settings
    <3>1. ASSUME settings' \in WorkflowPicked PROVE settings' \in Settings
      BY <2>1, <3>1 DEF WorkflowPicked, Settings
    <3>2. ASSUME settings' \in PublishToggled PROVE settings' \in Settings
      BY <2>1, <3>2 DEF PublishToggled, Settings
    <3>3. ASSUME settings' \in PublishNowhere PROVE settings' \in Settings
      BY <2>1, <3>3 DEF PublishNowhere, Settings
    <3> QED BY <1>5, <3>1, <3>2, <3>3 DEF ChangeSettings
  <2>3. FormTypeOK' /\ ShownTypeOK'
    BY <1>0, <1>5, <2>2 DEF ChangeSettings, FormTypeOK, ShownTypeOK
  <2> QED BY <1>0, <1>5, <2>3, SameTypes, TypeParts DEF ChangeSettings
<1>6. CASE ProcessFiles
  <2>1. AsyncTypeOK'
    BY <1>0, <1>6 DEF ProcessFiles, AsyncTypeOK, CameraType
  <2> QED BY <1>0, <1>6, <2>1, SameTypes, TypeParts DEF ProcessFiles
<1>7. CASE UseImageAsPrompt
  <2>1. refs' \in Seq(Urls)
    <3>1. refs \in Seq(Urls)
      BY <1>0 DEF FormTypeOK
    <3>2. \A u \in Urls : Append(refs, u) \in Seq(Urls) /\ <<u>> \in Seq(Urls)
      BY <3>1, AppendProperties
    <3> QED BY <1>7, <3>2 DEF UseImageAsPrompt
  <2>2. FormTypeOK' /\ ShownTypeOK'
    BY <1>0, <1>7, <2>1 DEF UseImageAsPrompt, FormTypeOK, ShownTypeOK
  <2> QED BY <1>0, <1>7, <2>2, SameTypes, TypeParts DEF UseImageAsPrompt
<1>8. ASSUME NEW f \in Files, FileArrives(f) PROVE TypeOK'
  <2>1. Append(files, f) \in Seq(Files) /\ live \in SUBSET Files
    <3>1. files \in Seq(Files) /\ live \in SUBSET Files
      BY <1>0 DEF FormTypeOK, ShownTypeOK
    <3> QED BY <3>1, AppendProperties
  <2>2. files' \in Seq(Files) /\ ShownTypeOK'
    BY <1>8, <2>1, ShowFilesType DEF FileArrives
  <2>3. FormTypeOK' /\ AsyncTypeOK'
    BY <1>0, <1>8, <2>2 DEF FileArrives, FormTypeOK, AsyncTypeOK
  <2> QED BY <1>0, <1>8, <2>2, <2>3, SameTypes, TypeParts DEF FileArrives
<1>9. ASSUME NEW i \in 1..Len(files \o refs), RemoveImage(i) PROVE TypeOK'
  <2>1. CASE i <= Len(files)
    <3>1. i \in 1..Len(files)
      BY <1>0, <2>1, ImagesType
    <3>2. RemoveAt(files, i) \in Seq(Files)
      BY <1>0, <3>1, RangeOfRemoveAt DEF FormTypeOK
    <3>3. live \ {files[i]} \in SUBSET Files
      BY <1>0 DEF ShownTypeOK
    <3>4. files' \in Seq(Files) /\ ShownTypeOK' /\ refs' = refs
      BY <1>9, <2>1, <3>2, <3>3, ShowFilesType DEF RemoveImage
    <3>5. FormTypeOK'
      BY <1>0, <1>9, <3>4 DEF RemoveImage, FormTypeOK
    <3> QED BY <1>0, <1>9, <3>4, <3>5, SameTypes, TypeParts DEF RemoveImage
  <2>2. CASE ~(i <= Len(files))
    <3>1. refs \in Seq(Urls)
      BY <1>0 DEF FormTypeOK
    <3>2. refs' = Without(refs, refs[i - Len(files)]) /\ UNCHANGED fileVars
      BY <1>9, <2>2 DEF RemoveImage
    <3>3. refs' \in Seq(Urls)
      BY <3>1, <3>2, WithoutIsASeq
    <3>4. FormTypeOK' /\ ShownTypeOK'
      BY <1>0, <1>9, <3>2, <3>3 DEF RemoveImage, FormTypeOK, ShownTypeOK
    <3> QED BY <1>0, <1>9, <3>4, SameTypes, TypeParts DEF RemoveImage
  <2> QED BY <2>1, <2>2
<1>10. CASE CleanupFires
  <2>1. ShownTypeOK'
    BY <1>0, <1>10 DEF CleanupFires, ShownTypeOK
  <2> QED BY <1>0, <1>10, <2>1, SameTypes, TypeParts DEF CleanupFires
<1>11. ASSUME NEW p \in Files, CameraInput(p) PROVE TypeOK'
  <2>1. AsyncTypeOK'
    BY <1>0, <1>11 DEF CameraInput, AsyncTypeOK, CameraType
  <2> QED BY <1>0, <1>11, <2>1, SameTypes, TypeParts DEF CameraInput
<1>12. ASSUME NEW p \in Files, PutPhoto(p) PROVE TypeOK'
  <2>1. AsyncTypeOK' /\ CacheTypeOK'
    BY <1>0, <1>12 DEF PutPhoto, AsyncTypeOK, CacheTypeOK, CameraType
  <2> QED BY <1>0, <1>12, <2>1, SameTypes, TypeParts DEF PutPhoto
<1>13. ASSUME NEW p \in Files, SetFlag(p) PROVE TypeOK'
  <2>1. AsyncTypeOK'
    BY <1>0, <1>13 DEF SetFlag, AsyncTypeOK, CameraType
  <2>2. CacheTypeOK'
    BY <1>0, <1>13 DEF SetFlag, CacheTypeOK, SessionType
  <2> QED BY <1>0, <1>13, <2>1, <2>2, SameTypes, TypeParts DEF SetFlag
<1>14. ASSUME NEW p \in Files, SaveFormState(p) PROVE TypeOK'
  <2>1. [prompt |-> prompt, settings |-> settings, photo |-> p] \in FormState
    BY <1>0 DEF FormTypeOK, FormState
  <2>2. CacheTypeOK'
    BY <1>0, <1>14, <2>1 DEF SaveFormState, CacheTypeOK, SessionType
  <2>3. AsyncTypeOK'
    BY <1>0, <1>14 DEF SaveFormState, AsyncTypeOK, CameraType
  <2> QED BY <1>0, <1>14, <2>2, <2>3, SameTypes, TypeParts DEF SaveFormState
<1>15. CASE Expire
  <2>1. CacheTypeOK'
    BY <1>0, <1>15 DEF Expire, CacheTypeOK, SessionType
  <2> QED BY <1>0, <1>15, <2>1, SameTypes, TypeParts DEF Expire
<1>16. CASE Reload
  <2>1. [Idle EXCEPT !.stage = "check"] \in RestoreType
    BY DEF Idle, RestoreType
  <2>2. Ended("lost") \in AttemptType
    BY EndedType DEF Stages
  <2>3. ServerTypeOK'
    BY <1>0, <1>16, <2>2 DEF ServerTypeOK, Reload
  <2>4. ReloadsOK'
    <3>1. MaxReloads \in Nat
      BY PromptFormAssumption
    <3>2. reloads \in 0..MaxReloads /\ reloads < MaxReloads /\ reloads' = reloads + 1
      BY <1>0, <1>16 DEF ReloadsOK, Reload
    <3> QED BY <3>1, <3>2 DEF ReloadsOK
  <2>5. AsyncTypeOK'
    BY <1>16, <2>1 DEF Reload, AsyncTypeOK, CameraType
  <2>6. Defaults \in Settings /\ <<>> \in Seq(Files) /\ <<>> \in Seq(Urls)
    BY EmptySeq DEF Defaults, Settings
  <2>7. FormTypeOK' /\ ShownTypeOK'
    BY <1>16, <2>6 DEF Reload, FormTypeOK, ShownTypeOK
  <2> QED BY <1>0, <1>16, <2>3, <2>4, <2>5, <2>7, SameTypes, TypeParts DEF Reload
<1>17. CASE RestoreCheck
  <2>1. EmptySession \in SessionType /\ session \in SessionType
    BY <1>0 DEF EmptySession, SessionType, CacheTypeOK
  <2>2. /\ [session EXCEPT !.form = Nothing] \in SessionType
        /\ session.form \in FormState \cup {Nothing}
    BY <2>1 DEF SessionType
  <2>3. session' \in SessionType
    BY <1>17, <2>1, <2>2 DEF RestoreCheck, ClearSession
  <2>4. \A form \in FormState \cup {Nothing} :
            /\ [Idle EXCEPT !.stage = "read", !.form = form] \in RestoreType
            /\ [Idle EXCEPT !.stage = "drop"] \in RestoreType
            /\ Idle \in RestoreType
    BY DEF Idle, RestoreType
  <2>5. restore' \in RestoreType
    BY <1>17, <2>2, <2>4 DEF RestoreCheck
  <2>6. CacheTypeOK' /\ AsyncTypeOK'
    BY <1>0, <1>17, <2>3, <2>5 DEF RestoreCheck, CacheTypeOK, AsyncTypeOK
  <2> QED BY <1>0, <1>17, <2>6, SameTypes, TypeParts DEF RestoreCheck
<1>18. CASE RestoreDrop
  <2>1. CacheTypeOK' /\ AsyncTypeOK'
    BY <1>0, <1>18 DEF RestoreDrop, DeletePhoto, Idle, RestoreType, CacheTypeOK, AsyncTypeOK
  <2> QED BY <1>0, <1>18, <2>1, SameTypes, TypeParts DEF RestoreDrop
<1>19. CASE RestoreRead
  <2>1. EmptySession \in SessionType
    BY DEF EmptySession, SessionType
  <2>2. CacheTypeOK'
    BY <1>0, <1>19, <2>1 DEF RestoreRead, ClearSession, CacheTypeOK
  <2>3. \A p \in Files \cup {Nothing} :
            /\ [restore EXCEPT !.stage = "clear", !.photo = p] \in RestoreType
            /\ [Idle EXCEPT !.stage = "drop"] \in RestoreType
            /\ Idle \in RestoreType
    BY <1>0 DEF Idle, RestoreType, AsyncTypeOK
  <2>4. idb \in Files \cup {Nothing}
    BY <1>0 DEF CacheTypeOK
  <2>5. restore' \in RestoreType
    BY <1>19, <2>3, <2>4 DEF RestoreRead
  <2>6. AsyncTypeOK'
    BY <1>0, <1>19, <2>5 DEF RestoreRead, AsyncTypeOK
  <2> QED BY <1>0, <1>19, <2>2, <2>6, SameTypes, TypeParts DEF RestoreRead
<1>20. CASE RestoreForm
  <2>1. arriving' \in SUBSET Files
    BY <1>0, <1>20 DEF RestoreForm, RestoredIsUnsent, AsyncTypeOK
  <2>2. restore.form \in FormState \cup {Nothing}
    BY <1>0 DEF AsyncTypeOK, RestoreType
  <2>3. prompt' \in Texts \cup {""} /\ refs' \in Seq(Urls) /\ settings' \in Settings
    <3>1. CASE restore.form = Nothing
      BY <1>0, <1>20, <3>1 DEF FormTypeOK, RestoreForm
    <3>2. CASE restore.form # Nothing
      <4>1. restore.form.prompt \in Texts \cup {""} /\ restore.form.settings \in Settings
        BY <2>2, <3>2 DEF FormState
      <4> QED BY <1>0, <1>20, <3>2, <4>1 DEF FormTypeOK, RestoreForm
    <3> QED BY <3>1, <3>2
  <2>4. FormTypeOK' /\ ShownTypeOK'
    BY <1>0, <1>20, <2>3 DEF RestoreForm, FormTypeOK, ShownTypeOK
  <2>5. CacheTypeOK'
    BY <1>0, <1>20 DEF RestoreForm, DeletePhoto, CacheTypeOK
  <2>6. Idle \in RestoreType
    BY DEF Idle, RestoreType
  <2>7. AsyncTypeOK'
    BY <1>0, <1>20, <2>1, <2>6 DEF RestoreForm, AsyncTypeOK
  <2> QED BY <1>0, <1>20, <2>4, <2>5, <2>7, SameTypes, TypeParts DEF RestoreForm
<1>21. ASSUME NEW a \in Attempts, Submit(a) PROVE TypeOK'
  <2>1. files \o refs \in Seq(Images)
    BY <1>0, ImagesType
  <2>2. \A stage \in Stages, d \in BOOLEAN :
            [stage |-> stage, direct |-> d, images |-> files \o refs, next |-> 1] \in AttemptType
    BY <2>1 DEF AttemptType
  <2>3. "upload" \in Stages /\ "publish" \in Stages /\ "clear" \in Stages
    BY DEF Stages
  <2>4. attempts' \in [Attempts -> AttemptType]
    BY <1>0, <1>21, <2>2, <2>3, AttemptsType DEF Submit
  <2>5. FormTypeOK' /\ ShownTypeOK' /\ ServerTypeOK'
    BY <1>0, <1>21, <2>4 DEF Submit, FormTypeOK, ShownTypeOK, ServerTypeOK
  <2> QED BY <1>0, <1>21, <2>5, SameTypes, TypeParts DEF Submit
<1>22. ASSUME NEW a \in Attempts, UploadFile(a) PROVE TypeOK'
  <2>1. CASE attempts' = [attempts EXCEPT ![a].stage = "publish"] /\ loading' = loading
    <3>1. attempts' \in [Attempts -> AttemptType]
      <4>1. "publish" \in Stages
        BY DEF Stages
      <4> QED BY <1>0, <2>1, <4>1, AttemptMoves, AttemptsType
    <3>2. FormTypeOK' /\ ShownTypeOK' /\ ServerTypeOK'
      BY <1>0, <1>22, <2>1, <3>1 DEF UploadFile, FormTypeOK, ShownTypeOK, ServerTypeOK, Fail
    <3> QED BY <1>0, <1>22, <3>2, SameTypes, TypeParts DEF UploadFile
  <2>2. CASE Fail(a)
    <3>1. attempts' \in [Attempts -> AttemptType] /\ loading' = FALSE
      BY <1>0, <2>2, FailType
    <3>2. FormTypeOK' /\ ShownTypeOK' /\ ServerTypeOK'
      BY <1>0, <1>22, <3>1 DEF UploadFile, FormTypeOK, ShownTypeOK, ServerTypeOK
    <3> QED BY <1>0, <1>22, <3>2, SameTypes, TypeParts DEF UploadFile
  <2> QED BY <1>22, <2>1, <2>2 DEF UploadFile
<1>23. ASSUME NEW a \in Attempts, PublishImage(a) PROVE TypeOK'
  <2> DEFINE now  == attempts[a].next
             left == SubSeq(attempts[a].images, now + 1, Len(attempts[a].images))
             stage == IF left = <<>> THEN "clear"
                      ELSE IF Head(left) \in Files THEN "upload" ELSE "publish"
  <2>1. now \in Nat \ {0} /\ now + 1 \in Nat \ {0} /\ stage \in Stages
    BY <1>0, AttemptFields DEF Stages
  <2>2. published' \in SUBSET (Attempts \X (Nat \ {0}))
    BY <1>0, <1>23, <2>1 DEF PublishImage, ServerTypeOK
  <2>3. attempts' \in [Attempts -> AttemptType] /\ loading' \in BOOLEAN
    <3>1. CASE /\ attempts' = [attempts EXCEPT ![a] =
                                 [@ EXCEPT !.next = now + 1, !.stage = stage]]
               /\ loading' = loading
      <4>1. [attempts[a] EXCEPT !.next = now + 1, !.stage = stage] \in AttemptType
        BY <1>0, <2>1, AttemptMoves
      <4>2. attempts' = [attempts EXCEPT ![a] =
                           [attempts[a] EXCEPT !.next = now + 1, !.stage = stage]]
        BY <1>0, <3>1, AttemptFields
      <4> HIDE DEF now, left, stage
      <4> QED BY <1>0, <3>1, <4>1, <4>2, AttemptsType DEF FormTypeOK
    <3>2. CASE Fail(a)
      BY <1>0, <3>2, FailType
    <3> QED BY <1>23, <3>1, <3>2 DEF PublishImage
  <2>4. FormTypeOK' /\ ShownTypeOK' /\ ServerTypeOK'
    BY <1>0, <1>23, <2>2, <2>3 DEF PublishImage, FormTypeOK, ShownTypeOK, ServerTypeOK
  <2> QED BY <1>0, <1>23, <2>4, SameTypes, TypeParts DEF PublishImage
<1>24. ASSUME NEW a \in Attempts, ClearAfterSubmit(a) PROVE TypeOK'
  <2>1. EmptySession \in SessionType
    BY DEF EmptySession, SessionType
  <2>2. attempts' \in [Attempts -> AttemptType]
    <3>1. "delete" \in Stages
      BY DEF Stages
    <3>2. attempts' = [attempts EXCEPT ![a].stage = "delete"]
      BY <1>24 DEF ClearAfterSubmit
    <3> QED BY <1>0, <3>1, <3>2, AttemptMoves, AttemptsType
  <2>3. CacheTypeOK' /\ ServerTypeOK'
    BY <1>0, <1>24, <2>1, <2>2 DEF ClearAfterSubmit, ClearSession, CacheTypeOK, ServerTypeOK
  <2> QED BY <1>0, <1>24, <2>3, SameTypes, TypeParts DEF ClearAfterSubmit
<1>25. ASSUME NEW a \in Attempts, SubmitDone(a) PROVE TypeOK'
  <2>1. attempts' \in [Attempts -> AttemptType]
    <3>1. "done" \in Stages
      BY DEF Stages
    <3>2. attempts' = [attempts EXCEPT ![a].stage = "done"]
      BY <1>25 DEF SubmitDone
    <3> QED BY <1>0, <3>1, <3>2, AttemptMoves, AttemptsType
  <2>2. FormTypeOK' /\ ShownTypeOK' /\ CacheTypeOK' /\ ServerTypeOK'
    BY <1>0, <1>25, <2>1 DEF SubmitDone, DeletePhoto, FormTypeOK, ShownTypeOK, CacheTypeOK, ServerTypeOK
  <2> QED BY <1>0, <1>25, <2>2, SameTypes, TypeParts DEF SubmitDone
<1>26. CASE UNCHANGED vars
  BY <1>0, <1>26, SameTypes, TypeParts DEF vars
<1> QED
  BY <1>1, <1>2, <1>4, <1>5, <1>6, <1>7, <1>8, <1>9, <1>10, <1>11, <1>12, <1>13, <1>14,
     <1>15, <1>16, <1>17, <1>18, <1>19, <1>20, <1>21, <1>22, <1>23, <1>24, <1>25, <1>26
  DEF Next

-----------------------------------------------------------------------------
(* Previews.                                                               *)

LEMMA ShowFilesPreviews ==
    ASSUME NEW fs, NEW kept, ShowFiles(fs, kept)
    PROVE  TimerSeesFiles' /\ PreviewsAreLive'
  BY DEF ShowFiles, TimerSeesFiles, PreviewsAreLive

LEMMA NextPreviews ==
    TimerSeesFiles /\ PreviewsAreLive /\ [Next]_vars => TimerSeesFiles' /\ PreviewsAreLive'
<1> SUFFICES ASSUME TimerSeesFiles, PreviewsAreLive, [Next]_vars
             PROVE  TimerSeesFiles' /\ PreviewsAreLive'
  OBVIOUS
<1>1. ASSUME UNCHANGED fileVars PROVE TimerSeesFiles' /\ PreviewsAreLive'
  BY <1>1 DEF fileVars, TimerSeesFiles, PreviewsAreLive
<1>2. CASE ClearPrompt
  BY <1>2, ShowFilesPreviews DEF ClearPrompt
<1>3. ASSUME NEW f \in Files, FileArrives(f) PROVE TimerSeesFiles' /\ PreviewsAreLive'
  BY <1>3, ShowFilesPreviews DEF FileArrives
<1>4. ASSUME NEW i \in 1..Len(files \o refs), RemoveImage(i)
      PROVE  TimerSeesFiles' /\ PreviewsAreLive'
  BY <1>1, <1>4, ShowFilesPreviews DEF RemoveImage
<1>5. CASE CleanupFires
  <2>1. live' = live \cap timer /\ timer # Nothing /\ timer' = Nothing /\ files' = files
    BY <1>5 DEF CleanupFires
  <2> QED BY <2>1 DEF TimerSeesFiles, PreviewsAreLive
<1>6. CASE Reload
  <2>1. files' = <<>> /\ timer' = Nothing
    BY <1>6 DEF Reload
  <2>2. Range(<<>>) = {}
    BY DEF Range
  <2> QED BY <2>1, <2>2 DEF TimerSeesFiles, PreviewsAreLive
<1>7. CASE UNCHANGED vars
  BY <1>1, <1>7 DEF vars, fileVars
<1>8. CASE LoadingEffect \/ TypePrompt \/ SetPromptText \/ ChangeSettings \/ ProcessFiles
            \/ UseImageAsPrompt \/ Expire \/ RestoreCheck \/ RestoreDrop \/ RestoreRead
            \/ RestoreForm
  BY <1>1, <1>8 DEF LoadingEffect, TypePrompt, SetPromptText, ChangeSettings, ProcessFiles,
     UseImageAsPrompt, Expire, RestoreCheck, RestoreDrop, RestoreRead, RestoreForm
<1>9. ASSUME NEW p \in Files, CameraInput(p) \/ PutPhoto(p) \/ SetFlag(p) \/ SaveFormState(p)
      PROVE  TimerSeesFiles' /\ PreviewsAreLive'
  BY <1>1, <1>9 DEF CameraInput, PutPhoto, SetFlag, SaveFormState
<1>10. ASSUME NEW a \in Attempts, Submit(a) \/ UploadFile(a) \/ PublishImage(a)
                                  \/ ClearAfterSubmit(a) \/ SubmitDone(a)
       PROVE  TimerSeesFiles' /\ PreviewsAreLive'
  BY <1>1, <1>10 DEF Submit, UploadFile, PublishImage, ClearAfterSubmit, SubmitDone
<1> QED
  BY <1>2, <1>3, <1>4, <1>5, <1>6, <1>7, <1>8, <1>9, <1>10 DEF Next

-----------------------------------------------------------------------------
(* What a direct upload has published.                                     *)

Published == PublishedSoFar /\ CacheKeptUntilPublished

\* An attempt that a step leaves alone keeps what was published of it.
LEMMA PublishedOfOthers ==
    ASSUME Published, published \subseteq published',
           NEW a \in Attempts, attempts'[a] = attempts[a]
    PROVE  /\ attempts'[a].direct /\ attempts'[a].stage \in {"upload", "publish"} =>
                /\ attempts'[a].next <= Len(attempts'[a].images)
                /\ \A i \in 1..attempts'[a].next - 1 : <<a, i>> \in published'
           /\ attempts'[a].direct /\ attempts'[a].stage \in {"clear", "delete", "done"} =>
                \A i \in 1..Len(attempts'[a].images) : <<a, i>> \in published'
  BY DEF Published, PublishedSoFar, CacheKeptUntilPublished

\* What a step has to do to the one attempt it moves.
LEMMA PublishedMoves ==
    ASSUME Published, published \subseteq published',
           NEW a \in Attempts, \A b \in Attempts \ {a} : attempts'[b] = attempts[b],
           attempts'[a].direct /\ attempts'[a].stage \in {"upload", "publish"} =>
                /\ attempts'[a].next <= Len(attempts'[a].images)
                /\ \A i \in 1..attempts'[a].next - 1 : <<a, i>> \in published',
           attempts'[a].direct /\ attempts'[a].stage \in {"clear", "delete", "done"} =>
                \A i \in 1..Len(attempts'[a].images) : <<a, i>> \in published'
    PROVE  Published'
<1>1. \A b \in Attempts : b = a \/ attempts'[b] = attempts[b]
  OBVIOUS
<1> QED BY <1>1, PublishedOfOthers DEF Published, PublishedSoFar, CacheKeptUntilPublished

LEMMA PublishedFails ==
    ASSUME Published, published \subseteq published', ServerTypeOK, NEW a \in Attempts, Fail(a)
    PROVE  Published'
<1>1. attempts'[a] = Ended("failed") /\ \A b \in Attempts \ {a} : attempts'[b] = attempts[b]
  BY DEF Fail, ServerTypeOK
<1>2. attempts'[a].direct = FALSE
  BY <1>1 DEF Ended, Unused
<1> QED BY <1>1, <1>2, PublishedMoves

LEMMA NextPublished == TypeOK /\ Published /\ [Next]_vars => Published'
<1> SUFFICES ASSUME TypeOK, Published, [Next]_vars PROVE Published'
  OBVIOUS
<1>0. FormTypeOK /\ ServerTypeOK
  BY TypeParts
<1>1. ASSUME UNCHANGED serverVars PROVE Published'
  BY <1>1 DEF serverVars, Published, PublishedSoFar, CacheKeptUntilPublished
<1>2. CASE Reload
  <2>1. \A a \in Attempts : attempts'[a] = attempts[a] \/ attempts'[a] = Ended("lost")
    BY <1>2 DEF Reload
  <2>2. published' = published /\ Ended("lost").direct = FALSE
    BY <1>2 DEF Reload, Ended, Unused
  <2> QED BY <2>1, <2>2, PublishedOfOthers DEF Published, PublishedSoFar, CacheKeptUntilPublished
<1>3. ASSUME NEW a \in Attempts, Submit(a) PROVE Published'
  <2>1. /\ published' = published
        /\ \A b \in Attempts \ {a} : attempts'[b] = attempts[b]
    BY <1>0, <1>3 DEF Submit, ServerTypeOK
  <2>2. CASE IsDirectUpload
    <3>1. /\ attempts'[a].stage \in {"upload", "publish"}
          /\ attempts'[a].next = 1 /\ attempts'[a].images = files \o refs
      BY <1>0, <1>3, <2>2 DEF Submit, ServerTypeOK
    <3>2. Len(files \o refs) \in Nat \ {0}
      <4>1. files \o refs \in Seq(Images) /\ files \o refs # <<>>
        BY <1>0, <2>2, ImagesType DEF IsDirectUpload
      <4> QED BY <4>1, EmptySeq
    <3> QED BY <2>1, <3>1, <3>2, PublishedMoves
  <2>3. CASE ~IsDirectUpload
    <3>1. attempts'[a].direct = FALSE
      BY <1>0, <1>3, <2>3 DEF Submit, ServerTypeOK
    <3> QED BY <2>1, <3>1, PublishedMoves
  <2> QED BY <2>2, <2>3
<1>4. ASSUME NEW a \in Attempts, UploadFile(a) PROVE Published'
  <2>1. CASE attempts' = [attempts EXCEPT ![a].stage = "publish"] /\ published' = published
    <3>1. /\ attempts[a].stage = "upload" /\ attempts'[a].stage = "publish"
          /\ attempts'[a].direct = attempts[a].direct
          /\ attempts'[a].next = attempts[a].next
          /\ attempts'[a].images = attempts[a].images
          /\ \A b \in Attempts \ {a} : attempts'[b] = attempts[b]
      BY <1>0, <1>4, <2>1, AttemptFields DEF UploadFile, ServerTypeOK, AttemptType
    <3>2. attempts[a].direct => /\ attempts[a].next <= Len(attempts[a].images)
                                /\ \A i \in 1..attempts[a].next - 1 : <<a, i>> \in published
      BY <3>1 DEF Published, PublishedSoFar
    <3> QED BY <2>1, <3>1, <3>2, PublishedMoves
  <2>2. CASE Fail(a) /\ published' = published
    BY <1>0, <2>2, PublishedFails
  <2> QED BY <1>4, <2>1, <2>2 DEF UploadFile
<1>5. ASSUME NEW a \in Attempts, PublishImage(a) PROVE Published'
  <2> DEFINE now  == attempts[a].next
             left == SubSeq(attempts[a].images, now + 1, Len(attempts[a].images))
             stage == IF left = <<>> THEN "clear"
                      ELSE IF Head(left) \in Files THEN "upload" ELSE "publish"
  <2>1. CASE /\ published' = published \cup {<<a, now>>}
             /\ attempts' = [attempts EXCEPT ![a] =
                                 [@ EXCEPT !.next = now + 1, !.stage = stage]]
    <3>1. attempts[a] \in AttemptType /\ attempts[a].stage = "publish"
      BY <1>0, <1>5, AttemptsType DEF PublishImage
    <3>2. attempts' = [attempts EXCEPT ![a] =
                         [attempts[a] EXCEPT !.next = now + 1, !.stage = stage]]
      BY <1>0, <2>1, AttemptFields
    <3>3. /\ attempts'[a] = [attempts[a] EXCEPT !.next = now + 1, !.stage = stage]
          /\ \A b \in Attempts \ {a} : attempts'[b] = attempts[b]
      <4> HIDE DEF now, left, stage
      <4> QED BY <1>0, <3>2, AttemptFields
    <3>4. /\ attempts'[a].stage = stage /\ attempts'[a].next = now + 1
          /\ attempts'[a].direct = attempts[a].direct
          /\ attempts'[a].images = attempts[a].images
      <4> HIDE DEF now, left, stage
      <4> QED BY <3>1, <3>3 DEF AttemptType
    <3>5. attempts[a].direct => /\ now <= Len(attempts[a].images)
                                /\ \A i \in 1..now - 1 : <<a, i>> \in published
      BY <3>1 DEF Published, PublishedSoFar
    <3>6. now \in Nat \ {0} /\ Len(attempts[a].images) \in Nat
      BY <1>0, AttemptFields
    <3>7. left = <<>> <=> now + 1 > Len(attempts[a].images)
      <4>1. attempts[a].images \in Seq(Images)
        BY <1>0, AttemptFields
      <4>2. /\ left \in Seq(Images)
            /\ Len(left) = IF now + 1 <= Len(attempts[a].images)
                           THEN Len(attempts[a].images) - now ELSE 0
        <5>1. \A i \in now + 1..Len(attempts[a].images) : attempts[a].images[i] \in Images
          BY <4>1, <3>6
        <5>2. now + 1 \in Int /\ Len(attempts[a].images) \in Int
          BY <3>6
        <5>3. /\ left \in Seq(Images)
              /\ Len(left) = IF now + 1 <= Len(attempts[a].images)
                             THEN Len(attempts[a].images) - (now + 1) + 1 ELSE 0
          BY <5>1, <5>2, SubSeqProperties
        <5> HIDE DEF left
        <5> QED BY <3>6, <5>3
      <4>3. Len(left) = 0 <=> left = <<>>
        BY <4>2, EmptySeq
      <4> HIDE DEF left
      <4> QED BY <3>6, <4>2, <4>3
    <3>8. attempts'[a].direct /\ attempts'[a].stage \in {"upload", "publish"} =>
             /\ attempts'[a].next <= Len(attempts'[a].images)
             /\ \A i \in 1..attempts'[a].next - 1 : <<a, i>> \in published'
      <4>1. ASSUME attempts[a].direct, stage \in {"upload", "publish"}
            PROVE  /\ now + 1 <= Len(attempts[a].images)
                   /\ \A i \in 1..(now + 1) - 1 : <<a, i>> \in published'
        <5>1. left # <<>>
          BY <4>1
        <5> HIDE DEF now, left, stage
        <5> QED BY <2>1, <3>5, <3>6, <3>7, <4>1, <5>1
      <4> HIDE DEF now, left, stage
      <4> QED BY <3>4, <4>1
    <3>9. attempts'[a].direct /\ attempts'[a].stage \in {"clear", "delete", "done"} =>
             \A i \in 1..Len(attempts'[a].images) : <<a, i>> \in published'
      <4>1. ASSUME attempts[a].direct, stage \in {"clear", "delete", "done"}
            PROVE  \A i \in 1..Len(attempts[a].images) : <<a, i>> \in published'
        <5>1. left = <<>>
          BY <4>1
        <5> HIDE DEF now, left, stage
        <5> QED BY <2>1, <3>5, <3>6, <3>7, <4>1, <5>1
      <4> HIDE DEF now, left, stage
      <4> QED BY <3>4, <4>1
    <3> HIDE DEF now, left, stage
    <3> QED BY <2>1, <3>3, <3>8, <3>9, PublishedMoves
  <2>2. CASE Fail(a) /\ published' \in {published, published \cup {<<a, now>>}}
    BY <1>0, <2>2, PublishedFails
  <2> QED BY <1>5, <2>1, <2>2 DEF PublishImage
<1>6. ASSUME NEW a \in Attempts, NEW stage \in {"delete", "done"},
             attempts[a].stage \in {"clear", "delete"}, published' = published,
             attempts' = [attempts EXCEPT ![a].stage = stage]
      PROVE  Published'
  <2>1. /\ attempts'[a].stage = stage
        /\ attempts'[a].direct = attempts[a].direct
        /\ attempts'[a].images = attempts[a].images
        /\ \A b \in Attempts \ {a} : attempts'[b] = attempts[b]
    BY <1>0, <1>6 DEF ServerTypeOK, AttemptType
  <2>2. attempts[a].direct => \A i \in 1..Len(attempts[a].images) : <<a, i>> \in published
    BY <1>6 DEF Published, CacheKeptUntilPublished
  <2> QED BY <1>6, <2>1, <2>2, PublishedMoves
<1>7. ASSUME NEW a \in Attempts, ClearAfterSubmit(a) \/ SubmitDone(a) PROVE Published'
  BY <1>6, <1>7 DEF ClearAfterSubmit, SubmitDone
<1>8. CASE LoadingEffect \/ TypePrompt \/ SetPromptText \/ ClearPrompt \/ ChangeSettings
            \/ ProcessFiles \/ UseImageAsPrompt \/ CleanupFires \/ Expire \/ RestoreCheck
            \/ RestoreDrop \/ RestoreRead \/ RestoreForm
  BY <1>1, <1>8 DEF LoadingEffect, TypePrompt, SetPromptText, ClearPrompt, ChangeSettings,
     ProcessFiles, UseImageAsPrompt, CleanupFires, Expire, RestoreCheck, RestoreDrop,
     RestoreRead, RestoreForm
<1>9. ASSUME NEW p \in Files, CameraInput(p) \/ PutPhoto(p) \/ SetFlag(p) \/ SaveFormState(p)
                              \/ FileArrives(p)
      PROVE  Published'
  BY <1>1, <1>9 DEF CameraInput, PutPhoto, SetFlag, SaveFormState, FileArrives
<1>10. ASSUME NEW i \in 1..Len(files \o refs), RemoveImage(i) PROVE Published'
  BY <1>1, <1>10 DEF RemoveImage
<1>11. CASE UNCHANGED vars
  BY <1>1, <1>11 DEF vars, serverVars
<1> QED
  BY <1>2, <1>3, <1>4, <1>5, <1>7, <1>8, <1>9, <1>10, <1>11 DEF Next

-----------------------------------------------------------------------------
(* The cached photo.                                                       *)

LEMMA ImagesAreNamed == /\ Nothing \notin Images /\ Files \in SUBSET Images
                        /\ Files \cap Urls = {}
  BY PromptFormAssumption DEF Images

\* What the types say of the photo, the files and the images sent.
LEMMA CacheTypes ==
    ASSUME TypeOK
    PROVE  /\ idb \in Files \cup {Nothing} /\ Nothing \notin Files
           /\ Composed \in SUBSET Files /\ Nothing \notin Composed
           /\ \A a \in Attempts : /\ Sent(a) \in SUBSET Images
                                  /\ Nothing \notin Sent(a)
                                  /\ attempts[a].images = <<>> => Sent(a) = {}
           /\ session.flag \in BOOLEAN
           /\ camera \in [Files -> CameraType]
<1>1. FormTypeOK /\ CacheTypeOK /\ AsyncTypeOK /\ ServerTypeOK
  BY TypeParts
<1>2. idb \in Files \cup {Nothing} /\ Nothing \notin Files
  BY <1>1, ImagesAreNamed DEF CacheTypeOK
<1>3. Composed \in SUBSET Files
  <2>1. Range(files) \in SUBSET Files
    <3>1. files \in Seq(Files)
      BY <1>1 DEF FormTypeOK
    <3> QED BY <3>1 DEF Range
  <2> QED BY <1>1, <2>1 DEF Composed, AsyncTypeOK
<1>4. ASSUME NEW a \in Attempts
      PROVE  Sent(a) \in SUBSET Images /\ (attempts[a].images = <<>> => Sent(a) = {})
  <2>1. attempts[a].images \in Seq(Images)
    BY <1>1, AttemptFields
  <2> QED BY <2>1 DEF Sent, Range
<1>5. session.flag \in BOOLEAN /\ camera \in [Files -> CameraType]
  BY <1>1 DEF CacheTypeOK, SessionType, AsyncTypeOK
<1> QED BY <1>2, <1>3, <1>4, <1>5, ImagesAreNamed

\* A step that leaves the cache and the submissions alone, and composes nothing
\* that was not composed.
LEMMA CacheOfComposing ==
    ASSUME CacheInv, Composed' \subseteq Composed,
           UNCHANGED <<idb, camera, restore, attempts>>, session'.flag => session.flag
    PROVE  CacheInv'
<1>1. \A a \in Attempts : Sent(a)' = Sent(a)
  BY DEF Sent
<1>2. Handling' = Handling
  BY DEF Handling
<1>3. ImagesAreTaken' /\ CachedIsTaken' /\ OneHandler' /\ FlagsOwnPhoto' /\ EmptyHasNone'
  BY <1>1, <1>2 DEF CacheInv, ImagesAreTaken, CachedIsTaken, OneHandler, FlagsOwnPhoto, EmptyHasNone
<1>4. FlaggedIsUnsent' /\ CachedIsUnknown' /\ ReadIsUnsent' /\ RestoredIsUnsent'
  BY <1>1 DEF CacheInv, FlaggedIsUnsent, CachedIsUnknown, ReadIsUnsent, RestoredIsUnsent
<1> QED BY <1>3, <1>4 DEF CacheInv

\* A step of one submission, by the stages it goes from and to.
LEMMA CacheOfSubmitting ==
    ASSUME TypeOK, CacheInv, NEW a \in Attempts,
           \A b \in Attempts \ {a} : attempts'[b] = attempts[b],
           attempts'[a].images \in {attempts[a].images, <<>>},
           attempts'[a].stage \in Empty => attempts'[a].images = <<>>,
           attempts'[a].stage \in InFlight => attempts[a].stage \in InFlight,
           attempts'[a].stage \in Through =>
              /\ attempts[a].stage \in {"clear", "delete"}
              /\ attempts[a].stage = "clear" => session'.flag = FALSE,
           session'.flag => session.flag,
           idb' \in {idb, Nothing},
           UNCHANGED <<files, camera, arriving, restore>>
    PROVE  CacheInv'
<1>1. /\ Composed' = Composed /\ Handling' = Handling
      /\ \A b \in Attempts \ {a} : Sent(b)' = Sent(b)
      /\ Sent(a)' \in {Sent(a), {}}
  BY CacheTypes DEF Composed, Handling, Sent, Range
<1>2. \A b \in Attempts : Sent(b)' \in SUBSET Sent(b)
  BY <1>1
<1>3. ImagesAreTaken' /\ CachedIsTaken' /\ OneHandler' /\ FlagsOwnPhoto'
  BY <1>1, <1>2 DEF CacheInv, ImagesAreTaken, CachedIsTaken, OneHandler, FlagsOwnPhoto
<1>4. EmptyHasNone'
  BY DEF CacheInv, EmptyHasNone
<1>5. FlaggedIsUnsent'
  <2> SUFFICES ASSUME session'.flag, NEW b \in Attempts, attempts'[b].stage \in Through
               PROVE  idb' \notin Sent(b)'
    BY DEF FlaggedIsUnsent
  <2>1. attempts[b].stage \in Through
    <3>1. CASE b = a
      <4>1. attempts[a].stage = "delete"
        BY <3>1, CacheTypes
      <4> QED BY <3>1, <4>1 DEF Through
    <3> QED BY <3>1
  <2>2. idb \notin Sent(b) /\ Nothing \notin Sent(b)
    BY <2>1, CacheTypes DEF CacheInv, FlaggedIsUnsent
  <2> QED BY <1>2, <2>2
<1>6. CachedIsUnknown'
  <2> SUFFICES ASSUME restore.stage \in {"check", "read"}
               PROVE  /\ idb' \notin Composed
                      /\ \A b \in Attempts : attempts'[b].stage \in InFlight => idb' \notin Sent(b)'
    BY <1>1 DEF CachedIsUnknown
  <2>1. idb' \notin Composed
    BY CacheTypes DEF CacheInv, CachedIsUnknown
  <2>2. ASSUME NEW b \in Attempts, attempts'[b].stage \in InFlight PROVE idb' \notin Sent(b)'
    <3>1. attempts[b].stage \in InFlight
      BY <2>2
    <3>2. idb \notin Sent(b) /\ Nothing \notin Sent(b)
      BY <3>1, CacheTypes DEF CacheInv, CachedIsUnknown
    <3> QED BY <1>2, <3>2
  <2> QED BY <2>1, <2>2
<1>7. ReadIsUnsent'
  <2> SUFFICES ASSUME restore.stage = "read",
                      NEW b \in Attempts, attempts'[b].stage \in Through
               PROVE  idb' \notin Sent(b)'
    BY DEF ReadIsUnsent
  <2>1. attempts[b].stage \in Through \cup InFlight
    BY DEF Through, InFlight
  <2>2. idb \notin Sent(b) /\ Nothing \notin Sent(b)
    BY <2>1, CacheTypes DEF CacheInv, ReadIsUnsent, CachedIsUnknown
  <2> QED BY <1>2, <2>2
<1>8. RestoredIsUnsent'
  BY <1>1, <1>2 DEF CacheInv, RestoredIsUnsent
<1> QED BY <1>3, <1>4, <1>5, <1>6, <1>7, <1>8 DEF CacheInv

\* What a change of an attempt's stage changes.
LEMMA StageOnly ==
    ASSUME ServerTypeOK, NEW a \in Attempts, NEW stage,
           attempts' = [attempts EXCEPT ![a].stage = stage]
    PROVE  /\ attempts'[a].stage = stage /\ attempts'[a].images = attempts[a].images
           /\ \A b \in Attempts \ {a} : attempts'[b] = attempts[b]
<1>1. attempts[a] \in AttemptType /\ DOMAIN attempts = Attempts
  BY AttemptsType, AttemptFields
<1> QED BY <1>1 DEF AttemptType

\* Submit.
LEMMA SubmitCache ==
    ASSUME TypeOK, CacheInv, NEW a \in Attempts, Submit(a)
    PROVE  CacheInv'
<1>0. FormTypeOK /\ ServerTypeOK
  BY TypeParts
<1>1. /\ attempts[a].stage = "unused"
      /\ attempts'[a].stage \in InFlight /\ attempts'[a].images = files \o refs
      /\ \A b \in Attempts \ {a} : attempts'[b] = attempts[b]
      /\ UNCHANGED <<files, session, idb, camera, arriving, restore>>
  BY <1>0 DEF Submit, ServerTypeOK, InFlight, fileVars, cacheVars, asyncVars
<1>2. Sent(a)' \cap Files \in SUBSET Range(files) /\ Sent(a)' \in SUBSET Images
  <2>1. /\ files \o refs \in Seq(Images) /\ DOMAIN (files \o refs) = 1..Len(files) + Len(refs)
        /\ Len(files) \in Nat /\ Len(refs) \in Nat
        /\ \A i \in 1..Len(files) + Len(refs) :
              (files \o refs)[i] = IF i <= Len(files) THEN files[i] ELSE refs[i - Len(files)]
    BY <1>0, ImagesType
  <2>2. files \in Seq(Files) /\ refs \in Seq(Urls)
    BY <1>0 DEF FormTypeOK
  <2>3. ASSUME NEW i \in 1..Len(files) + Len(refs)
        PROVE  (files \o refs)[i] \in Range(files) \cup Urls
    <3>1. CASE i <= Len(files)
      <4>1. i \in DOMAIN files
        BY <2>1, <2>2, <3>1
      <4> QED BY <2>1, <3>1, <4>1 DEF Range
    <3>2. CASE ~(i <= Len(files))
      <4>1. i - Len(files) \in 1..Len(refs)
        BY <2>1, <3>2
      <4> QED BY <2>1, <2>2, <3>2, <4>1
    <3> QED BY <3>1, <3>2
  <2>4. Sent(a)' \in SUBSET (Range(files) \cup Urls)
    <3> HIDE DEF Images
    <3> QED BY <1>1, <2>1, <2>3 DEF Sent, Range
  <2>5. Range(files) \in SUBSET Files
    BY <2>2 DEF Range
  <2> QED BY <2>4, <2>5, ImagesAreNamed DEF Images
<1>3. /\ Composed' = Composed /\ Handling' = Handling
      /\ \A b \in Attempts \ {a} : Sent(b)' = Sent(b)
      /\ Range(files) \in SUBSET Composed
  BY <1>1 DEF Composed, Handling, Sent
<1>4. ImagesAreTaken'
  <2> SUFFICES ASSUME NEW f \in Files, f \in Composed \/ (\E b \in Attempts : f \in Sent(b)')
               PROVE  camera[f] = "done"
    BY <1>1, <1>3 DEF ImagesAreTaken
  <2>1. f \in Composed \/ (\E b \in Attempts : f \in Sent(b))
    BY <1>2, <1>3
  <2> QED BY <2>1 DEF CacheInv, ImagesAreTaken
<1>5. CachedIsTaken' /\ OneHandler' /\ FlagsOwnPhoto'
  BY <1>1, <1>3 DEF CacheInv, CachedIsTaken, OneHandler, FlagsOwnPhoto
<1>6. EmptyHasNone'
  BY <1>1 DEF CacheInv, EmptyHasNone, Empty, InFlight
<1>7. FlaggedIsUnsent' /\ ReadIsUnsent'
  BY <1>1, <1>3 DEF CacheInv, FlaggedIsUnsent, ReadIsUnsent, Through, InFlight
<1>8. CachedIsUnknown'
  <2> SUFFICES ASSUME restore.stage \in {"check", "read"}
               PROVE  /\ idb \notin Composed
                      /\ \A b \in Attempts : attempts'[b].stage \in InFlight => idb \notin Sent(b)'
    BY <1>1, <1>3 DEF CachedIsUnknown
  <2>1. idb \notin Composed /\ idb \in Files \cup {Nothing}
    BY CacheTypes DEF CacheInv, CachedIsUnknown
  <2>2. idb \notin Sent(a)'
    BY <1>2, <1>3, <2>1, ImagesAreNamed
  <2>3. \A b \in Attempts \ {a} : attempts'[b].stage \in InFlight => idb \notin Sent(b)'
    BY <1>1, <1>3 DEF CacheInv, CachedIsUnknown
  <2> QED BY <2>1, <2>2, <2>3
<1>9. RestoredIsUnsent'
  <2> SUFFICES ASSUME restore.stage = "clear"
               PROVE  /\ restore.photo \in Files /\ camera[restore.photo] = "done"
                      /\ restore.photo \notin Composed
                      /\ \A b \in Attempts : restore.photo \notin Sent(b)'
    BY <1>1, <1>3 DEF RestoredIsUnsent
  <2>1. /\ restore.photo \in Files /\ camera[restore.photo] = "done"
        /\ restore.photo \notin Composed /\ \A b \in Attempts : restore.photo \notin Sent(b)
    BY DEF CacheInv, RestoredIsUnsent
  <2> QED BY <1>2, <1>3, <2>1
<1> QED BY <1>4, <1>5, <1>6, <1>7, <1>8, <1>9 DEF CacheInv

\* A step of a camera handler, or a choice of files: it changes no submission
\* and no restore.
LEMMA CameraCache ==
    ASSUME TypeOK, CacheInv, NEW p \in Files,
           CameraInput(p) \/ PutPhoto(p) \/ SetFlag(p) \/ SaveFormState(p)
    PROVE  CacheInv'
<1>0. /\ camera \in [Files -> CameraType] /\ session \in SessionType
      /\ UNCHANGED <<files, attempts, restore>>
      /\ \A a \in Attempts : Sent(a)' = Sent(a)
  <2>1. UNCHANGED <<files, attempts, restore>>
    BY DEF CameraInput, PutPhoto, SetFlag, SaveFormState, fileVars, serverVars
  <2> QED BY <2>1, TypeParts DEF Sent, AsyncTypeOK, CacheTypeOK
<1>1. /\ camera[p] \in {"unused", "put", "flag", "save"}
      /\ p \notin Composed /\ \A a \in Attempts : p \notin Sent(a)
  <2>1. camera[p] \in {"unused", "put", "flag", "save"}
    BY DEF CameraInput, PutPhoto, SetFlag, SaveFormState
  <2>2. camera[p] # "done"
    BY <2>1
  <2> QED BY <2>1, <2>2 DEF CacheInv, ImagesAreTaken
<1>2. /\ restore.stage = "none"
      /\ \A q \in Files \ {p} : camera[q] \notin {"put", "flag", "save"}
  BY DEF CacheInv, OneHandler, Handling, CameraInput, PutPhoto, SetFlag, SaveFormState
<1>3. CachedIsUnknown' /\ ReadIsUnsent' /\ RestoredIsUnsent' /\ EmptyHasNone'
  BY <1>0, <1>2 DEF CacheInv, CachedIsUnknown, ReadIsUnsent, RestoredIsUnsent, EmptyHasNone
<1>4. \A q \in Files \ {p} : camera'[q] = camera[q]
  BY <1>0 DEF CameraInput, PutPhoto, SetFlag, SaveFormState
<1>5. OneHandler'
  <2>1. \A q \in Files \ {p} : camera'[q] \notin {"put", "flag", "save"}
    BY <1>2, <1>4
  <2> QED BY <1>0, <1>2, <2>1 DEF OneHandler, Handling
<1>6. CASE CameraInput(p)
  <2>1. /\ camera'[p] = "put" /\ UNCHANGED <<session, idb, arriving>>
    BY <1>0, <1>6 DEF CameraInput, cacheVars
  <2>2. Composed' = Composed /\ idb # p
    <3>1. Composed' = Composed
      BY <1>0, <2>1 DEF Composed
    <3>2. camera[p] = "unused" /\ p # Nothing
      BY <1>6, ImagesAreNamed DEF CameraInput
    <3> QED BY <3>1, <3>2 DEF CacheInv, CachedIsTaken
  <2>3. ImagesAreTaken'
    BY <1>0, <1>1, <1>4, <2>2 DEF CacheInv, ImagesAreTaken
  <2>4. CachedIsTaken'
    BY <1>4, <2>1, <2>2, CacheTypes DEF CacheInv, CachedIsTaken
  <2>5. FlagsOwnPhoto'
    BY <1>4, <2>1 DEF CacheInv, FlagsOwnPhoto
  <2>6. FlaggedIsUnsent'
    BY <1>0, <2>1 DEF CacheInv, FlaggedIsUnsent
  <2> QED BY <1>3, <1>5, <2>3, <2>4, <2>5, <2>6 DEF CacheInv
<1>7. CASE PutPhoto(p)
  <2>1. /\ UNCHANGED <<session, arriving>>
        /\ \/ idb' = p /\ camera'[p] = "flag"
           \/ idb' = idb /\ camera'[p] = "save"
    BY <1>0, <1>7 DEF PutPhoto
  <2>2. Composed' = Composed
    BY <1>0, <2>1 DEF Composed
  <2>3. ImagesAreTaken'
    BY <1>0, <1>1, <1>4, <2>2 DEF CacheInv, ImagesAreTaken
  <2>4. CachedIsTaken'
    <3>1. CASE idb' = p
      BY <2>1, <3>1 DEF CachedIsTaken
    <3>2. CASE idb' = idb /\ idb # p
      BY <1>4, <3>2, CacheTypes DEF CacheInv, CachedIsTaken
    <3> QED BY <2>1, <3>1, <3>2
  <2>5. FlagsOwnPhoto'
    BY <1>2, <1>4, <2>1 DEF FlagsOwnPhoto
  <2>6. FlaggedIsUnsent'
    BY <1>0, <1>1, <2>1 DEF CacheInv, FlaggedIsUnsent
  <2> QED BY <1>3, <1>5, <2>3, <2>4, <2>5, <2>6 DEF CacheInv
<1>8. CASE SetFlag(p)
  <2>1. /\ UNCHANGED <<idb, arriving>> /\ camera'[p] = "save" /\ camera[p] = "flag"
    BY <1>0, <1>8 DEF SetFlag
  <2>2. Composed' = Composed
    BY <1>0, <2>1 DEF Composed
  <2>3. ImagesAreTaken'
    BY <1>0, <1>1, <1>4, <2>2 DEF CacheInv, ImagesAreTaken
  <2>4. CachedIsTaken'
    BY <1>4, <2>1, CacheTypes DEF CacheInv, CachedIsTaken
  <2>5. FlagsOwnPhoto'
    BY <1>2, <1>4, <2>1 DEF FlagsOwnPhoto
  <2>6. FlaggedIsUnsent'
    <3>1. idb \in {p, Nothing}
      BY <2>1 DEF CacheInv, FlagsOwnPhoto
    <3>2. \A a \in Attempts : idb \notin Sent(a)
      BY <1>1, <3>1, CacheTypes
    <3> QED BY <1>0, <2>1, <3>2 DEF FlaggedIsUnsent
  <2> QED BY <1>3, <1>5, <2>3, <2>4, <2>5, <2>6 DEF CacheInv
<1>9. CASE SaveFormState(p)
  <2>1. /\ UNCHANGED idb /\ camera'[p] = "done" /\ arriving' = arriving \cup {p}
        /\ session'.flag = session.flag
    BY <1>0, <1>9 DEF SaveFormState, SessionType
  <2>2. Composed' = Composed \cup {p}
    BY <1>0, <2>1 DEF Composed
  <2>3. ImagesAreTaken'
    BY <1>0, <1>4, <2>1, <2>2 DEF CacheInv, ImagesAreTaken
  <2>4. CachedIsTaken'
    BY <1>4, <2>1, CacheTypes DEF CacheInv, CachedIsTaken
  <2>5. FlagsOwnPhoto'
    BY <1>2, <1>4, <2>1 DEF FlagsOwnPhoto
  <2>6. FlaggedIsUnsent'
    BY <1>0, <2>1 DEF CacheInv, FlaggedIsUnsent
  <2> QED BY <1>3, <1>5, <2>3, <2>4, <2>5, <2>6 DEF CacheInv
<1> QED BY <1>6, <1>7, <1>8, <1>9

LEMMA ProcessFilesCache ==
    ASSUME TypeOK, CacheInv, ProcessFiles
    PROVE  CacheInv'
<1>1. PICK g \in Files : /\ camera[g] = "unused"
                         /\ camera' = [camera EXCEPT ![g] = "done"]
                         /\ arriving' = arriving \cup {g}
  BY DEF ProcessFiles
<1>2. UNCHANGED <<files, session, idb, restore, attempts>>
  BY DEF ProcessFiles, fileVars, cacheVars, serverVars
<1>3. /\ camera'[g] = "done" /\ \A f \in Files \ {g} : camera'[f] = camera[f]
      /\ Composed' = Composed \cup {g} /\ \A a \in Attempts : Sent(a)' = Sent(a)
  BY <1>1, <1>2, CacheTypes DEF Composed, Sent
<1>4. Handling' = Handling
  <2>1. \A f \in Files : camera'[f] \in {"put", "flag", "save"}
                            <=> camera[f] \in {"put", "flag", "save"}
    BY <1>1, <1>3
  <2> QED BY <2>1 DEF Handling
<1>5. ImagesAreTaken'
  BY <1>3 DEF CacheInv, ImagesAreTaken
<1>6. CachedIsTaken' /\ idb # g
  BY <1>1, <1>2, <1>3, CacheTypes DEF CacheInv, CachedIsTaken
<1>7. OneHandler' /\ EmptyHasNone' /\ FlaggedIsUnsent' /\ ReadIsUnsent'
  BY <1>2, <1>3, <1>4 DEF CacheInv, OneHandler, EmptyHasNone, FlaggedIsUnsent, ReadIsUnsent
<1>8. FlagsOwnPhoto'
  BY <1>1, <1>2, <1>3 DEF CacheInv, FlagsOwnPhoto
<1>9. CachedIsUnknown'
  BY <1>2, <1>3, <1>6 DEF CacheInv, CachedIsUnknown
<1>10. RestoredIsUnsent'
  BY <1>1, <1>2, <1>3 DEF CacheInv, RestoredIsUnsent
<1> QED BY <1>5, <1>6, <1>7, <1>8, <1>9, <1>10 DEF CacheInv

\* A reload: the form is empty, what was under way is lost.
LEMMA ReloadCache ==
    ASSUME TypeOK, CacheInv, Reload
    PROVE  CacheInv'
<1>1. /\ files' = <<>> /\ arriving' = {} /\ restore'.stage = "check"
      /\ UNCHANGED <<session, idb>>
      /\ camera' = [p \in Files |-> IF camera[p] = "unused" THEN "unused" ELSE "done"]
  BY DEF Reload, cacheVars, Idle
<1>2. /\ Ended("lost").stage = "lost" /\ Ended("lost").images = <<>>
  BY DEF Ended, Unused
<1>3. \A a \in Attempts :
         /\ attempts'[a] = IF attempts[a].stage \in InFlight \cup {"delete"}
                           THEN Ended("lost") ELSE attempts[a]
  BY DEF Reload, InFlight
<1>4. Composed' = {} /\ Handling' = {}
  <2>1. Range(<<>>) = {}
    BY DEF Range
  <2> QED BY <1>1, <2>1 DEF Composed, Handling
<1>5. \A a \in Attempts : Sent(a)' \in SUBSET Sent(a)
  <2>1. Range(<<>>) = {}
    BY DEF Range
  <2> QED BY <1>2, <1>3, <2>1 DEF Sent
<1>6. ImagesAreTaken'
  BY <1>1, <1>4, <1>5 DEF CacheInv, ImagesAreTaken
<1>7. CachedIsTaken'
  BY <1>1, CacheTypes DEF CacheInv, CachedIsTaken
<1>8. OneHandler' /\ FlagsOwnPhoto' /\ ReadIsUnsent' /\ RestoredIsUnsent'
  BY <1>1, <1>4 DEF OneHandler, FlagsOwnPhoto, ReadIsUnsent, RestoredIsUnsent
<1>9. \A a \in Attempts : /\ attempts'[a].stage \notin InFlight \cup {"delete"}
                          /\ attempts'[a].stage \in Through => attempts[a].stage \in Through
                          /\ attempts'[a].stage \in Empty => attempts'[a].images = <<>>
  <2> TAKE a \in Attempts
  <2>1. CASE attempts[a].stage \in InFlight \cup {"delete"}
    BY <1>2, <1>3, <2>1 DEF InFlight, Through
  <2>2. CASE attempts[a].stage \notin InFlight \cup {"delete"}
    BY <1>3, <2>2 DEF CacheInv, EmptyHasNone
  <2> QED BY <2>1, <2>2
<1>10. EmptyHasNone'
  BY <1>9 DEF EmptyHasNone
<1>11. FlaggedIsUnsent'
  BY <1>1, <1>5, <1>9 DEF CacheInv, FlaggedIsUnsent
<1>12. CachedIsUnknown'
  BY <1>4, <1>9 DEF CachedIsUnknown
<1> QED BY <1>6, <1>7, <1>8, <1>10, <1>11, <1>12 DEF CacheInv

\* A step of the restore changes no handler and no submission.
LEMMA RestoreCache ==
    ASSUME TypeOK, CacheInv, RestoreCheck \/ RestoreDrop \/ RestoreRead \/ RestoreForm
    PROVE  CacheInv'
<1>1. UNCHANGED <<files, camera, attempts>> /\ restore.stage # "none"
  BY DEF RestoreCheck, RestoreDrop, RestoreRead, RestoreForm, fileVars, serverVars
<1>2. /\ Handling' = Handling /\ Handling = {}
      /\ \A a \in Attempts : Sent(a)' = Sent(a)
  BY <1>1 DEF Handling, Sent, CacheInv, OneHandler
<1>3. idb' \in {idb, Nothing} /\ (session'.flag => session.flag)
  <2>0. session \in SessionType
    BY TypeParts DEF CacheTypeOK
  <2>1. EmptySession.flag = FALSE /\ [session EXCEPT !.form = Nothing].flag = session.flag
    BY <2>0 DEF EmptySession, SessionType
  <2>2. idb' \in {idb, Nothing}
    BY DEF RestoreCheck, RestoreDrop, RestoreRead, RestoreForm, DeletePhoto
  <2>3. session' \in {session, EmptySession, [session EXCEPT !.form = Nothing]}
    BY DEF RestoreCheck, RestoreDrop, RestoreRead, RestoreForm, ClearSession
  <2> QED BY <2>1, <2>2, <2>3
<1>4. CachedIsTaken' /\ OneHandler' /\ EmptyHasNone'
  BY <1>1, <1>2, <1>3 DEF CacheInv, CachedIsTaken, OneHandler, EmptyHasNone
<1>5. FlagsOwnPhoto'
  BY <1>1, <1>2 DEF FlagsOwnPhoto, Handling
<1>6. FlaggedIsUnsent'
  BY <1>1, <1>2, <1>3, CacheTypes DEF CacheInv, FlaggedIsUnsent
<1>7. CASE RestoreCheck
  <2>1. UNCHANGED <<idb, arriving>> /\ Composed' = Composed
    BY <1>1, <1>7 DEF RestoreCheck, Composed
  <2>2. /\ restore.stage = "check" /\ restore'.stage \in {"none", "drop", "read"}
        /\ restore'.stage = "read" => session.flag
    <3>1. CASE ~session.flag
      <4>1. restore' = Idle
        BY <1>7, <3>1 DEF RestoreCheck
      <4> QED BY <1>7, <4>1 DEF RestoreCheck, Idle
    <3>2. CASE session.flag /\ ~session.photoFresh
      <4>1. restore' = [Idle EXCEPT !.stage = "drop"]
        BY <1>7, <3>2 DEF RestoreCheck
      <4> QED BY <1>7, <4>1 DEF RestoreCheck, Idle
    <3>3. CASE session.flag /\ session.photoFresh
      <4>1. \E form \in {session.form, Nothing} :
               restore' = [Idle EXCEPT !.stage = "read", !.form = form]
        BY <1>7, <3>3 DEF RestoreCheck
      <4> QED BY <1>7, <3>3, <4>1 DEF RestoreCheck, Idle
    <3> QED BY <3>1, <3>2, <3>3
  <2>3. ImagesAreTaken'
    BY <1>1, <1>2, <2>1 DEF CacheInv, ImagesAreTaken
  <2>4. CachedIsUnknown' /\ RestoredIsUnsent'
    BY <1>1, <1>2, <2>1, <2>2 DEF CacheInv, CachedIsUnknown, RestoredIsUnsent
  <2>5. ReadIsUnsent'
    BY <1>1, <1>2, <2>1, <2>2 DEF CacheInv, ReadIsUnsent, FlaggedIsUnsent
  <2> QED BY <1>4, <1>5, <1>6, <2>3, <2>4, <2>5 DEF CacheInv
<1>8. CASE RestoreDrop
  <2>1. Composed' = Composed /\ restore'.stage = "none"
    BY <1>1, <1>8 DEF RestoreDrop, Composed, Idle
  <2>2. ImagesAreTaken'
    BY <1>1, <1>2, <2>1 DEF CacheInv, ImagesAreTaken
  <2>3. CachedIsUnknown' /\ RestoredIsUnsent' /\ ReadIsUnsent'
    BY <2>1 DEF CachedIsUnknown, RestoredIsUnsent, ReadIsUnsent
  <2> QED BY <1>4, <1>5, <1>6, <2>2, <2>3 DEF CacheInv
<1>9. CASE RestoreRead
  <2>1. /\ Composed' = Composed /\ idb' = idb /\ restore.stage = "read"
        /\ restore'.stage \in {"none", "drop", "clear"}
        /\ restore'.stage = "clear" => restore'.photo = idb /\ idb # Nothing
    <3>1. Composed' = Composed /\ idb' = idb /\ restore.stage = "read"
      BY <1>1, <1>9 DEF RestoreRead, Composed
    <3>2. restore \in RestoreType
      BY TypeParts DEF AsyncTypeOK
    <3>3. CASE idb # Nothing /\ restore' = [restore EXCEPT !.stage = "clear", !.photo = idb]
      <4>1. restore'.stage = "clear" /\ restore'.photo = idb
        BY <3>2, <3>3 DEF RestoreType
      <4> QED BY <3>1, <3>3, <4>1
    <3>4. CASE restore' = Idle
      <4>1. restore'.stage = "none"
        BY <3>4 DEF Idle
      <4> QED BY <3>1, <4>1
    <3>5. CASE restore' = [Idle EXCEPT !.stage = "drop"]
      <4>1. restore'.stage = "drop"
        BY <3>5 DEF Idle
      <4> QED BY <3>1, <4>1
    <3> QED BY <1>9, <3>3, <3>4, <3>5 DEF RestoreRead
  <2>2. ImagesAreTaken'
    BY <1>1, <1>2, <2>1 DEF CacheInv, ImagesAreTaken
  <2>3. CachedIsUnknown' /\ ReadIsUnsent'
    BY <2>1 DEF CachedIsUnknown, ReadIsUnsent
  <2>4. RestoredIsUnsent'
    <3> SUFFICES ASSUME restore'.stage = "clear"
                 PROVE  /\ idb \in Files /\ camera[idb] = "done" /\ idb \notin Composed
                        /\ \A a \in Attempts : idb \notin Sent(a)
      BY <1>1, <1>2, <2>1 DEF RestoredIsUnsent
    <3>1. idb \in Files /\ camera[idb] = "done"
      <4>1. idb \in Files /\ camera[idb] \in CameraType
        BY <2>1, CacheTypes
      <4>2. camera[idb] \notin {"unused", "put", "flag", "save"}
        BY <1>2, <2>1, <4>1 DEF CacheInv, CachedIsTaken, Handling
      <4> QED BY <4>1, <4>2 DEF CameraType
    <3>2. idb \notin Composed
      BY <2>1 DEF CacheInv, CachedIsUnknown
    <3>3. ASSUME NEW a \in Attempts PROVE idb \notin Sent(a)
      <4>1. attempts[a].stage \in InFlight \cup Through \cup Empty
        <5>1. attempts[a].stage \in Stages
          BY TypeParts, AttemptFields
        <5> QED BY <5>1 DEF Stages, InFlight, Through, Empty
      <4>2. CASE attempts[a].stage \in InFlight
        BY <2>1, <4>2 DEF CacheInv, CachedIsUnknown
      <4>3. CASE attempts[a].stage \in Through
        BY <2>1, <4>3 DEF CacheInv, ReadIsUnsent
      <4>4. CASE attempts[a].stage \in Empty
        BY <4>4, CacheTypes DEF CacheInv, EmptyHasNone
      <4> QED BY <4>1, <4>2, <4>3, <4>4
    <3> QED BY <3>1, <3>2, <3>3
  <2> QED BY <1>4, <1>5, <1>6, <2>2, <2>3, <2>4 DEF CacheInv
<1>10. CASE RestoreForm
  <2>1. /\ Composed' = Composed \cup {restore.photo} /\ restore.stage = "clear"
        /\ restore'.stage = "none"
    BY <1>1, <1>10 DEF RestoreForm, Composed, Idle
  <2>2. camera[restore.photo] = "done"
    BY <2>1 DEF CacheInv, RestoredIsUnsent
  <2>3. ImagesAreTaken'
    BY <1>1, <1>2, <2>1, <2>2 DEF CacheInv, ImagesAreTaken
  <2>4. CachedIsUnknown' /\ RestoredIsUnsent' /\ ReadIsUnsent'
    BY <2>1 DEF CachedIsUnknown, RestoredIsUnsent, ReadIsUnsent
  <2> QED BY <1>4, <1>5, <1>6, <2>3, <2>4 DEF CacheInv
<1> QED BY <1>7, <1>8, <1>9, <1>10

LEMMA NextCache == TypeOK /\ CacheInv /\ [Next]_vars => CacheInv'
<1> SUFFICES ASSUME TypeOK, CacheInv, [Next]_vars PROVE CacheInv'
  OBVIOUS
<1>0. FormTypeOK /\ CacheTypeOK /\ ServerTypeOK
  BY TypeParts
<1>1. CASE LoadingEffect \/ TypePrompt \/ SetPromptText \/ ChangeSettings
            \/ UseImageAsPrompt \/ CleanupFires \/ UNCHANGED vars
  <2>1. UNCHANGED <<files, arriving, idb, camera, restore, attempts, session>>
    BY <1>1 DEF LoadingEffect, TypePrompt, SetPromptText, ChangeSettings, UseImageAsPrompt,
       CleanupFires, vars, fileVars, cacheVars, asyncVars, serverVars
  <2> QED BY <2>1, CacheOfComposing DEF Composed
<1>2. CASE ClearPrompt
  <2>1. UNCHANGED <<arriving, idb, camera, restore, attempts, session>> /\ files' = <<>>
    BY <1>2 DEF ClearPrompt, ShowFiles, cacheVars, asyncVars, serverVars
  <2>2. Range(<<>>) = {}
    BY DEF Range
  <2> QED BY <2>1, <2>2, CacheOfComposing DEF Composed
<1>3. ASSUME NEW f \in Files, FileArrives(f) PROVE CacheInv'
  <2>1. /\ UNCHANGED <<idb, camera, restore, attempts, session>>
        /\ files' = Append(files, f) /\ f \in arriving /\ arriving' = arriving \ {f}
    BY <1>3 DEF FileArrives, ShowFiles, cacheVars, serverVars
  <2>2. Range(Append(files, f)) = Range(files) \cup {f}
    <3>1. files \in Seq(Files)
      BY <1>0 DEF FormTypeOK
    <3> QED BY <3>1, RangeOfAppend
  <2> QED BY <2>1, <2>2, CacheOfComposing DEF Composed
<1>4. ASSUME NEW i \in 1..Len(files \o refs), RemoveImage(i) PROVE CacheInv'
  <2>1. UNCHANGED <<arriving, idb, camera, restore, attempts, session>>
    BY <1>4 DEF RemoveImage, cacheVars, asyncVars, serverVars
  <2>2. Range(files') \in SUBSET Range(files)
    <3>1. CASE i <= Len(files)
      <4>1. i \in 1..Len(files) /\ files \in Seq(Files)
        <5>1. files \in Seq(Files)
          BY <1>0 DEF FormTypeOK
        <5>2. /\ Len(files) \in Nat /\ Len(refs) \in Nat
              /\ Len(files \o refs) = Len(files) + Len(refs)
          BY <1>0, ImagesType
        <5> QED BY <3>1, <5>1, <5>2
      <4>2. files' = RemoveAt(files, i)
        BY <1>4, <3>1 DEF RemoveImage, ShowFiles
      <4>3. \A x \in Range(RemoveAt(files, i)) : \E j \in 1..Len(files) : files[j] = x
        BY <4>1, RangeOfRemoveAt
      <4> QED BY <4>1, <4>2, <4>3 DEF Range
    <3>2. CASE ~(i <= Len(files))
      BY <1>4, <3>2 DEF RemoveImage, fileVars
    <3> QED BY <3>1, <3>2
  <2> QED BY <2>1, <2>2, CacheOfComposing DEF Composed
<1>5. CASE Expire
  <2>1. /\ UNCHANGED <<files, arriving, idb, camera, restore, attempts>>
        /\ session'.flag = session.flag
    BY <1>0, <1>5 DEF Expire, CacheTypeOK, SessionType, fileVars, asyncVars, serverVars
  <2> QED BY <2>1, CacheOfComposing DEF Composed
<1>6. ASSUME NEW a \in Attempts, UploadFile(a) \/ PublishImage(a) PROVE CacheInv'
  <2>1. /\ UNCHANGED <<files, session, idb, camera, arriving, restore>>
        /\ attempts[a].stage \in InFlight
    BY <1>6 DEF UploadFile, PublishImage, fileVars, cacheVars, asyncVars, InFlight
  <2>2. CASE Fail(a)
    <3>1. /\ attempts'[a].stage = "failed" /\ attempts'[a].images = <<>>
          /\ \A b \in Attempts \ {a} : attempts'[b] = attempts[b]
      BY <1>0, <2>2 DEF Fail, Ended, Unused, ServerTypeOK
    <3> QED BY <2>1, <3>1, CacheOfSubmitting DEF InFlight, Through
  <2>3. CASE ~Fail(a)
    <3>1. attempts[a] \in AttemptType /\ DOMAIN attempts = Attempts
      BY <1>0, AttemptsType
    <3>2. /\ attempts'[a].stage \in InFlight /\ attempts'[a].images = attempts[a].images
          /\ \A b \in Attempts \ {a} : attempts'[b] = attempts[b]
      <4>1. CASE UploadFile(a)
        <5>1. attempts' = [attempts EXCEPT ![a].stage = "publish"]
          BY <2>3, <4>1 DEF UploadFile
        <5> QED BY <1>0, <5>1, StageOnly DEF InFlight
      <4>2. CASE PublishImage(a)
        <5> DEFINE now  == attempts[a].next
                   left == SubSeq(attempts[a].images, now + 1, Len(attempts[a].images))
                   then == IF left = <<>> THEN "clear"
                           ELSE IF Head(left) \in Files THEN "upload" ELSE "publish"
        <5>1. attempts' = [attempts EXCEPT ![a] = [@ EXCEPT !.next = now + 1, !.stage = then]]
          BY <2>3, <4>2 DEF PublishImage
        <5>2. then \in InFlight
          BY DEF InFlight
        <5> HIDE DEF then
        <5> QED BY <3>1, <5>1, <5>2 DEF AttemptType
      <4> QED BY <1>6, <4>1, <4>2
    <3> QED BY <2>1, <3>2, CacheOfSubmitting DEF InFlight, Through, Empty
  <2> QED BY <2>2, <2>3
<1>7. ASSUME NEW a \in Attempts, ClearAfterSubmit(a) PROVE CacheInv'
  <2>1. /\ UNCHANGED <<files, idb, camera, arriving, restore>>
        /\ session'.flag = FALSE /\ attempts[a].stage = "clear"
        /\ attempts' = [attempts EXCEPT ![a].stage = "delete"]
    BY <1>7 DEF ClearAfterSubmit, ClearSession, EmptySession, fileVars, asyncVars
  <2>2. /\ attempts'[a].stage = "delete" /\ attempts'[a].images = attempts[a].images
        /\ \A b \in Attempts \ {a} : attempts'[b] = attempts[b]
    BY <1>0, <2>1, StageOnly
  <2> QED BY <2>1, <2>2, CacheOfSubmitting DEF InFlight, Through, Empty
<1>8. ASSUME NEW a \in Attempts, SubmitDone(a) PROVE CacheInv'
  <2>1. /\ UNCHANGED <<files, session, camera, arriving, restore>>
        /\ idb' \in {idb, Nothing} /\ attempts[a].stage = "delete"
        /\ attempts' = [attempts EXCEPT ![a].stage = "done"]
    BY <1>8 DEF SubmitDone, DeletePhoto, fileVars, asyncVars
  <2>2. /\ attempts'[a].stage = "done" /\ attempts'[a].images = attempts[a].images
        /\ \A b \in Attempts \ {a} : attempts'[b] = attempts[b]
    BY <1>0, <2>1, StageOnly
  <2> QED BY <2>1, <2>2, CacheOfSubmitting DEF InFlight, Through, Empty
<1> QED
  BY <1>1, <1>2, <1>3, <1>4, <1>5, <1>6, <1>7, <1>8, CameraCache, ProcessFilesCache,
     ReloadCache, RestoreCache, SubmitCache
  DEF Next

-----------------------------------------------------------------------------
(* The invariant holds.                                                    *)

LEMMA InitInv == Init => IInv
<1> SUFFICES ASSUME Init PROVE IInv
  OBVIOUS
<1>1. TypeOK
  BY InitType
<1>2. /\ files = <<>> /\ arriving = {} /\ timer = Nothing /\ idb = Nothing
      /\ session.flag = FALSE /\ restore.stage = "check"
      /\ camera = [p \in Files |-> "unused"]
      /\ \A a \in Attempts : attempts[a] = Unused
  BY DEF Init, EmptySession, Idle
<1>3. Range(<<>>) = {}
  BY DEF Range
<1>4. \A a \in Attempts : /\ attempts[a].stage = "unused" /\ attempts[a].images = <<>>
                          /\ Sent(a) = {}
  BY <1>2, <1>3 DEF Unused, Sent
<1>5. Composed = {} /\ Handling = {}
  BY <1>2, <1>3 DEF Composed, Handling
<1>6. TimerSeesFiles /\ PreviewsAreLive
  BY <1>2, <1>3 DEF TimerSeesFiles, PreviewsAreLive
<1>7. ImagesAreTaken /\ CachedIsTaken /\ OneHandler /\ FlagsOwnPhoto /\ EmptyHasNone
  BY <1>2, <1>4, <1>5
  DEF ImagesAreTaken, CachedIsTaken, OneHandler, FlagsOwnPhoto, EmptyHasNone
<1>8. FlaggedIsUnsent /\ CachedIsUnknown /\ ReadIsUnsent /\ RestoredIsUnsent
  BY <1>2, <1>4, <1>5 DEF FlaggedIsUnsent, CachedIsUnknown, ReadIsUnsent, RestoredIsUnsent
<1>9. PublishedSoFar /\ CacheKeptUntilPublished
  BY <1>4 DEF PublishedSoFar, CacheKeptUntilPublished
<1> QED BY <1>1, <1>6, <1>7, <1>8, <1>9 DEF IInv, CacheInv

LEMMA NextInv == IInv /\ [Next]_vars => IInv'
<1> SUFFICES ASSUME IInv, [Next]_vars PROVE IInv'
  OBVIOUS
<1>1. TypeOK'
  BY NextType DEF IInv, CacheInv
<1>2. TimerSeesFiles' /\ PreviewsAreLive'
  BY NextPreviews DEF IInv
<1>3. CacheInv'
  BY NextCache DEF IInv
<1>4. PublishedSoFar' /\ CacheKeptUntilPublished'
  BY NextPublished DEF IInv, Published
<1> QED BY <1>1, <1>2, <1>3, <1>4 DEF IInv

\* What is restored was never sent, so it was not sent to the end.
LEMMA InvIsEnough == IInv => FormHolds /\ CacheFollowsSubmission
  BY DEF IInv, CacheInv, RestoredIsUnsent, Sent, FormHolds, CacheFollowsSubmission,
         SubmittedPhotoStaysGone

\* The state of the form has its types, and the delayed cleanup of the object
\* URLs (useFileUrls' timer) never revokes the URL of a file that the form still
\* shows: whatever was added, removed or cleared since its closure was made.
THEOREM FormIsSound == Spec => []FormHolds
<1>1. Spec => []IInv
  BY InitInv, NextInv, PTL DEF Spec
<1> QED BY <1>1, InvIsEnough, PTL

\* The photo cache keeps step with handleSubmit: a photo whose submission came
\* to its end is not restored by a later page load, and a direct upload gives
\* the cached photo up only after every one of its images was published.
THEOREM CacheFollows == Spec => []CacheFollowsSubmission
<1>1. Spec => []IInv
  BY InitInv, NextInv, PTL DEF Spec
<1> QED BY <1>1, InvIsEnough, PTL
=============================================================================
