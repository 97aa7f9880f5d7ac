-------------------------- MODULE EventStoreProofs --------------------------
(***************************************************************************)
(* Proofs about the event store, for any keys, times and number of events, *)
(* loads and restarts.                                                     *)
(***************************************************************************)
EXTENDS EventStore, TLAPS

(* Only events that were thrown are held anywhere, and no other was ended. *)
HeldAreThrown ==
  /\ disk.active \subseteq 1 .. Len(events)
  /\ pop.take \union pop.expired \subseteq 1 .. Len(events)
  /\ \A e \in EventId : e > Len(events) => ended[e] = 0

(* What a pop has chosen was not ended since the last load, even if it is  *)
(* cleared before the pop removes it.                                      *)
ChosenAreFresh ==
  \A e \in pop.take \union pop.expired : ended[e] <= loads

(* What a pop is to return has no older event of its key in the queue that *)
(* was active before it and still is.  Both passes of the scan give this.  *)
ChosenIsFirst ==
  \A f \in pop.take : \A e \in active :
    /\ e < f
    /\ events[e].key = events[f].key
    /\ events[e].from <= events[f].from
    => events[e].expires <= now

IInv ==
  /\ TypeOK
  /\ HeldAreThrown
  /\ ChosenAreFresh
  /\ ChosenIsFirst
  /\ SavedIsKept
  /\ EndsOncePerLoad

-----------------------------------------------------------------------------

LEMMA InitInvariant == Init => IInv
<1>. SUFFICES ASSUME Init PROVE IInv
  OBVIOUS
<1>. USE BoundsAssumption DEF Init, None
<1>1. TypeOK
  BY DEF TypeOK, Disk, Pop, EventId
<1>2. HeldAreThrown /\ ChosenAreFresh /\ ChosenIsFirst
  BY DEF HeldAreThrown, ChosenAreFresh, ChosenIsFirst
<1>3. SavedIsKept /\ EndsOncePerLoad
  BY DEF SavedIsKept, EndsOncePerLoad, EventId
<1>. QED
  BY <1>1, <1>2, <1>3 DEF IInv

LEMMA EventFields ==
  ASSUME TypeOK, NEW e \in 1 .. Len(events)
  PROVE  /\ e \in Nat /\ events[e].key \in Keys
         /\ events[e].from \in Nat /\ events[e].expires \in Nat
<1>1. events \in Seq(Event)
  BY DEF TypeOK
<1>2. Len(events) \in Nat /\ events[e] \in Event
  BY <1>1
<1>3. e \in Nat
  BY <1>2
<1>. QED
  BY <1>2, <1>3 DEF Event

(* A throw changes nothing about the events thrown before.                 *)
LEMMA ThrowAppends ==
  ASSUME TypeOK,
         NEW k \in Keys, NEW delay \in Delays, NEW ttl \in Ttls,
         NEW single \in Consumers, Throw(k, delay, ttl, single)
  PROVE  /\ events' \in Seq(Event)
         /\ Len(events') = Len(events) + 1
         /\ Len(events') <= MaxEvents
         /\ \A e \in 1 .. Len(events) : events'[e] = events[e]
<1>1. events \in Seq(Event) /\ now \in Nat
  BY BoundsAssumption DEF TypeOK
<1>2. [key |-> k, from |-> now + delay, expires |-> now + delay + ttl,
       single |-> single] \in Event
  BY <1>1, DelaysAssumption, TtlsAssumption, ConsumersAssumption DEF Event
<1>. QED
  BY <1>1, <1>2, BoundsAssumption DEF Throw

LEMMA ThrowKeepsInvariant ==
  ASSUME IInv,
         NEW k \in Keys, NEW delay \in Delays, NEW ttl \in Ttls,
         NEW single \in Consumers, Throw(k, delay, ttl, single)
  PROVE  IInv'
<1>. DEFINE n == Len(events)
<1>0. n \in Nat /\ n < MaxEvents /\ Len(events') = n + 1
  BY ThrowAppends DEF IInv, TypeOK, Throw
<1>. HIDE DEF n
<1>1. active' = active \union {n + 1} /\ n + 1 \in EventId
  BY <1>0, BoundsAssumption DEF Throw, EventId, n
<1>2. UNCHANGED <<now, disk, pop, loads, ended, settled>> /\ pop = None
  BY DEF Throw, Unlocked
<1>3. TypeOK'
  <2>1. events' \in Seq(Event) /\ Len(events') <= MaxEvents
    BY ThrowAppends DEF IInv
  <2>2. active' \subseteq 1 .. Len(events') /\ settled' \subseteq 1 .. Len(events')
    <3>1. active \subseteq 1 .. n /\ settled \subseteq 1 .. n
      BY DEF IInv, TypeOK, n
    <3>2. 1 .. n \subseteq 1 .. n + 1 /\ n + 1 \in 1 .. n + 1
      BY <1>0
    <3>. QED
      BY <1>0, <1>1, <1>2, <3>1, <3>2
  <2>3. keys' \subseteq Keys
    BY DEF IInv, TypeOK, Throw
  <2>. QED
    BY <1>2, <2>1, <2>2, <2>3 DEF IInv, TypeOK, Disk, Pop, EventId, None
<1>4. HeldAreThrown'
  BY <1>0, <1>2, BoundsAssumption DEF IInv, HeldAreThrown, EventId, n
<1>5. ChosenAreFresh' /\ ChosenIsFirst'
  BY <1>2 DEF ChosenAreFresh, ChosenIsFirst, None
<1>6. SavedIsKept'
  BY <1>1, <1>2 DEF IInv, SavedIsKept
<1>7. EndsOncePerLoad'
  <2>1. loads \in Nat /\ ended[n + 1] = 0
    BY <1>0, <1>1, BoundsAssumption DEF IInv, TypeOK, HeldAreThrown, EventId, n
  <2>2. \A e \in EventId : e # n + 1 => (e \in active' <=> e \in active)
    BY <1>1
  <2>. QED
    BY <1>1, <1>2, <2>1, <2>2 DEF IInv, EndsOncePerLoad
<1>. QED
  BY <1>3, <1>4, <1>5, <1>6, <1>7 DEF IInv

-----------------------------------------------------------------------------
(* pop_next_event *)

(* What the scan of a pop chooses is in the queue, and by neither pass does *)
(* it choose an event over an older one that is ready.                     *)
LEMMA ScanChooses ==
  ASSUME NEW k, NEW at, PopScan(k, at)
  PROVE  /\ pop'.take \subseteq Queue(k)
         /\ pop'.expired \subseteq Queue(k)
         /\ pop'.take # {} =>
              \/ pop'.take = Oldest(Ready(k, at))
              \/ Ready(k, at) = {} /\ pop'.take \subseteq AtExpiry(k, at)
<1>1. CASE Ready(k, at) # {}
  <2>1. pop' = [take |-> Oldest(Ready(k, at)), expired |-> {}]
    BY <1>1 DEF PopScan
  <2>2. Oldest(Ready(k, at)) \subseteq Queue(k)
    BY DEF Oldest, Ready
  <2>. QED
    BY <2>1, <2>2
<1>2. CASE Ready(k, at) = {}
  <2>1. pop' = [take |-> Oldest(AtExpiry(k, at)), expired |-> Overdue(k, at)]
    BY <1>2 DEF PopScan
  <2>2. Oldest(AtExpiry(k, at)) \subseteq AtExpiry(k, at)
    BY DEF Oldest
  <2>3. AtExpiry(k, at) \subseteq Queue(k) /\ Overdue(k, at) \subseteq Queue(k)
    BY DEF AtExpiry, Overdue
  <2>. QED
    BY <1>2, <2>1, <2>2, <2>3
<1>. QED
  BY <1>1, <1>2

LEMMA PopScanKeepsInvariant ==
  ASSUME IInv, NEW k \in Keys, NEW lag \in 0 .. MaxLag, lag <= now,
         PopScan(k, now - lag)
  PROVE  IInv'
<1>. DEFINE at == now - lag
<1>1. UNCHANGED <<now, events, active, keys, disk, loads, ended, settled>>
  BY DEF PopScan
<1>2. at \in Nat /\ now \in Nat /\ at <= now
  BY BoundsAssumption DEF IInv, TypeOK
<1>3. pop'.take \subseteq active /\ pop'.expired \subseteq active
  BY ScanChooses DEF Queue
<1>4. pop' \in Pop
  <2>1. active \subseteq EventId
    BY BoundsAssumption DEF IInv, TypeOK, EventId
  <2>2. pop' = [take |-> pop'.take, expired |-> pop'.expired]
    BY DEF PopScan
  <2>. QED
    BY <1>3, <2>1, <2>2 DEF Pop
<1>5. TypeOK'
  BY <1>1, <1>4 DEF IInv, TypeOK
<1>6. HeldAreThrown'
  BY <1>1, <1>3 DEF IInv, TypeOK, HeldAreThrown
<1>7. ChosenAreFresh'
  <2>1. active \subseteq EventId
    BY BoundsAssumption DEF IInv, TypeOK, EventId
  <2>. QED
    BY <1>1, <1>3, <2>1 DEF IInv, EndsOncePerLoad, ChosenAreFresh
<1>8. ChosenIsFirst'
  <2>. SUFFICES ASSUME NEW f \in pop'.take, NEW e \in active,
                       e < f, events[e].key = events[f].key,
                       events[e].from <= events[f].from
                PROVE  events[e].expires <= now
    BY <1>1 DEF ChosenIsFirst
  <2>0. e \in 1 .. Len(events) /\ f \in 1 .. Len(events)
    BY <1>3 DEF IInv, TypeOK
  <2>1. /\ events[e].from \in Nat /\ events[f].from \in Nat
        /\ events[e].expires \in Nat
    BY <2>0, EventFields DEF IInv
  <2>2. e \in Nat /\ f \in Nat
    BY <2>0, EventFields DEF IInv
  <2>3. f \in Queue(k) /\ e \in Queue(k)
    BY ScanChooses DEF Queue
  <2>4. events[f].from <= at
    BY ScanChooses DEF Oldest, Ready, AtExpiry
  <2>5. events[e].from <= at
    BY <1>2, <2>1, <2>4
  <2>6. e \in Ready(k, at) => events[e].expires <= now
    BY <2>2, ScanChooses DEF Oldest
  <2>7. e \notin Ready(k, at) => events[e].expires <= now
    BY <1>2, <2>1, <2>3, <2>5 DEF Ready
  <2>. QED
    BY <2>6, <2>7
<1>9. SavedIsKept' /\ EndsOncePerLoad'
  BY <1>1 DEF IInv, SavedIsKept, EndsOncePerLoad
<1>. QED
  BY <1>5, <1>6, <1>7, <1>8, <1>9 DEF IInv

(* Counting the end of events that had fewer ends than loads allow.        *)
LEMMA CountKeepsEnds ==
  ASSUME IInv, NEW S \in SUBSET (1 .. Len(events)),
         \A e \in S : ended[e] <= loads,
         ended' = CountEnd(S), active' = active \ S,
         UNCHANGED <<events, loads>>
  PROVE  /\ ended' \in [EventId -> Nat]
         /\ \A e \in EventId : e > Len(events') => ended'[e] = 0
         /\ EndsOncePerLoad'
<1>1. ended \in [EventId -> Nat] /\ loads \in Nat /\ Len(events) \in Nat
  BY BoundsAssumption DEF IInv, TypeOK
<1>2. ended' \in [EventId -> Nat]
  BY <1>1 DEF CountEnd
<1>3. \A e \in EventId : ended'[e] = IF e \in S THEN ended[e] + 1 ELSE ended[e]
  BY DEF CountEnd
<1>4. \A e \in EventId : e > Len(events) => ended'[e] = 0
  BY <1>1, <1>3 DEF IInv, HeldAreThrown, EventId
<1>5. EndsOncePerLoad'
  <2>. SUFFICES ASSUME NEW e \in EventId
                PROVE  ended'[e] <= IF e \in active' THEN loads ELSE loads + 1
    BY DEF EndsOncePerLoad
  <2>1. CASE e \in S
    BY <1>1, <1>3, <2>1
  <2>2. CASE e \notin S
    <3>1. ended'[e] = ended[e] /\ (e \in active' <=> e \in active)
      BY <1>3, <2>2
    <3>. QED
      BY <3>1 DEF IInv, EndsOncePerLoad
  <2>. QED
    BY <2>1, <2>2
<1>. QED
  BY <1>2, <1>4, <1>5

LEMMA PopTakeKeepsInvariant == IInv /\ PopTake => IInv'
<1>. SUFFICES ASSUME IInv, PopTake PROVE IInv'
  OBVIOUS
<1>. DEFINE S == pop.take \union pop.expired
<1>1. S \subseteq 1 .. Len(events) /\ \A e \in S : ended[e] <= loads
  BY DEF IInv, HeldAreThrown, ChosenAreFresh
<1>2. /\ active' = active \ S
      /\ ended' = CountEnd(S)
      /\ settled' = settled \union S
      /\ pop' = None
      /\ UNCHANGED <<now, events, keys, disk, loads>>
  BY DEF PopTake, Remaining
<1>. HIDE DEF S
<1>3. /\ ended' \in [EventId -> Nat]
      /\ \A e \in EventId : e > Len(events') => ended'[e] = 0
      /\ EndsOncePerLoad'
  BY <1>1, <1>2, CountKeepsEnds
<1>4. TypeOK'
  BY <1>1, <1>2, <1>3 DEF IInv, TypeOK, Pop, None
<1>5. HeldAreThrown' /\ ChosenAreFresh' /\ ChosenIsFirst'
  BY <1>2, <1>3 DEF IInv, HeldAreThrown, ChosenAreFresh, ChosenIsFirst, None
<1>6. SavedIsKept'
  BY <1>2 DEF IInv, SavedIsKept
<1>. QED
  BY <1>3, <1>4, <1>5, <1>6 DEF IInv

-----------------------------------------------------------------------------
(* The state file, clearing and the clock *)

LEMMA ExpireAllKeepsInvariant == IInv /\ ExpireAll => IInv'
<1>. SUFFICES ASSUME IInv, ExpireAll PROVE IInv'
  OBVIOUS
<1>1. /\ active' = active \ Expired
      /\ ended' = CountEnd(Expired)
      /\ settled' = settled \union Expired
      /\ pop = None /\ pop' = None
      /\ UNCHANGED <<now, events, loads>>
      /\ keys' = {events[e].key : e \in active \ Expired}
      /\ disk' = disk \/ disk' = Snapshot(active', keys')
  BY DEF ExpireAll, Unlocked
<1>2. Expired \subseteq active /\ active \subseteq 1 .. Len(events)
  BY DEF Expired, IInv, TypeOK
<1>3. \A e \in Expired : ended[e] <= loads
  <2>1. active \subseteq EventId
    BY BoundsAssumption DEF IInv, TypeOK, EventId
  <2>. QED
    BY <1>2, <2>1 DEF IInv, EndsOncePerLoad
<1>4. /\ ended' \in [EventId -> Nat]
      /\ \A e \in EventId : e > Len(events') => ended'[e] = 0
      /\ EndsOncePerLoad'
  <2>1. Expired \in SUBSET (1 .. Len(events))
    BY <1>2
  <2>. QED
    BY <1>1, <1>3, <2>1, CountKeepsEnds
<1>5. keys' \subseteq Keys
  <2>1. \A e \in 1 .. Len(events) : events[e].key \in Keys
    BY EventFields DEF IInv
  <2>. QED
    BY <1>1, <1>2, <2>1
<1>6. disk' \in Disk /\ disk'.active \subseteq 1 .. Len(events)
  <2>1. active' \subseteq EventId /\ active' \subseteq 1 .. Len(events)
    BY <1>1, <1>2, BoundsAssumption DEF IInv, TypeOK, EventId
  <2>2. CASE disk' = disk
    BY <2>2 DEF IInv, TypeOK, HeldAreThrown
  <2>3. CASE disk' = Snapshot(active', keys')
    BY <1>5, <2>1, <2>3 DEF Snapshot, Disk
  <2>. QED
    BY <1>1, <2>2, <2>3
<1>7. TypeOK'
  BY <1>1, <1>2, <1>4, <1>5, <1>6 DEF IInv, TypeOK
<1>8. HeldAreThrown' /\ ChosenAreFresh' /\ ChosenIsFirst'
  BY <1>1, <1>4, <1>6 DEF HeldAreThrown, ChosenAreFresh, ChosenIsFirst, None
<1>9. SavedIsKept'
  BY <1>1 DEF IInv, SavedIsKept, Snapshot
<1>. QED
  BY <1>4, <1>7, <1>8, <1>9 DEF IInv

(* Save, Load and restarts end no event; they move events between memory   *)
(* and the file.  The more loads, the more ends are allowed.               *)
LEMMA TransferKeepsInvariant ==
  ASSUME IInv, UNCHANGED <<now, events, ended, settled>>, pop' = None,
         keys' \subseteq Keys, disk' \in Disk,
         active' \subseteq active \union disk.active,
         disk'.active \subseteq active' \union settled,
         loads' \in 0 .. MaxLoads,
         \/ loads' = loads + 1
         \/ loads' = loads /\ active' \subseteq active
  PROVE  IInv'
<1>1. loads \in Nat /\ ended \in [EventId -> Nat]
  BY BoundsAssumption DEF IInv, TypeOK
<1>2. active' \subseteq 1 .. Len(events)
  BY DEF IInv, TypeOK, HeldAreThrown
<1>3. TypeOK'
  BY <1>2 DEF IInv, TypeOK, Pop, None
<1>4. HeldAreThrown' /\ ChosenAreFresh' /\ ChosenIsFirst'
  BY <1>2 DEF IInv, TypeOK, HeldAreThrown, ChosenAreFresh, ChosenIsFirst, None
<1>5. SavedIsKept'
  BY DEF SavedIsKept
<1>6. EndsOncePerLoad'
  <2>. SUFFICES ASSUME NEW e \in EventId
                PROVE  ended[e] <= IF e \in active' THEN loads' ELSE loads' + 1
    BY DEF EndsOncePerLoad
  <2>1. ended[e] <= IF e \in active THEN loads ELSE loads + 1
    BY DEF IInv, EndsOncePerLoad
  <2>2. ended[e] \in Nat
    BY <1>1
  <2>3. CASE loads' = loads + 1
    BY <1>1, <2>1, <2>2, <2>3
  <2>4. CASE loads' = loads /\ active' \subseteq active
    BY <1>1, <2>1, <2>2, <2>4
  <2>. QED
    BY <2>3, <2>4
<1>. QED
  BY <1>3, <1>4, <1>5, <1>6 DEF IInv

LEMMA SnapshotIsADisk ==
  ASSUME TypeOK
  PROVE  Snapshot(active, keys) \in Disk /\ Snapshot(active, keys).active = active
<1>1. active \subseteq EventId
  BY BoundsAssumption DEF TypeOK, EventId
<1>. QED
  BY <1>1 DEF TypeOK, Snapshot, Disk

LEMMA SaveKeepsInvariant == IInv /\ Save => IInv'
<1>. SUFFICES ASSUME IInv, Save PROVE IInv'
  OBVIOUS
<1>1. /\ disk' = Snapshot(active, keys) /\ pop' = None
      /\ UNCHANGED <<now, events, active, keys, loads, ended, settled>>
  BY DEF Save, Unlocked
<1>2. disk' \in Disk /\ disk'.active = active /\ keys \subseteq Keys /\ loads \in 0 .. MaxLoads
  BY <1>1, SnapshotIsADisk DEF IInv, TypeOK
<1>. QED
  BY <1>1, <1>2, TransferKeepsInvariant

LEMMA LoadKeepsInvariant == IInv /\ Load => IInv'
<1>. SUFFICES ASSUME IInv, Load PROVE IInv'
  OBVIOUS
<1>1. /\ pop' = None /\ loads < MaxLoads /\ loads' = loads + 1
      /\ UNCHANGED <<now, events, ended, settled>>
  BY DEF Load, Unlocked
<1>2. loads' \in 0 .. MaxLoads
  BY <1>1, BoundsAssumption DEF IInv, TypeOK
<1>3. CASE disk.file
  <2>1. active' = Restored /\ keys' = keys \union disk.keys /\ disk' = disk
    BY <1>3 DEF Load
  <2>2. keys' \subseteq Keys /\ disk' \in Disk
    BY <2>1 DEF IInv, TypeOK, Disk
  <2>3. disk.active \subseteq Restored /\ Restored \subseteq active \union disk.active
    BY DEF Restored
  <2>. QED
    BY <1>1, <1>2, <2>1, <2>2, <2>3, TransferKeepsInvariant
<1>4. CASE ~disk.file
  <2>1. disk' = Snapshot(active, keys) /\ active' = active /\ keys' = keys
    BY <1>4 DEF Load
  <2>2. disk' \in Disk /\ disk'.active = active /\ keys \subseteq Keys
    BY <2>1, SnapshotIsADisk DEF IInv, TypeOK
  <2>. QED
    BY <1>1, <1>2, <2>1, <2>2, TransferKeepsInvariant
<1>. QED
  BY <1>3, <1>4

LEMMA RestartKeepsInvariant == IInv /\ CrashAndRestart => IInv'
<1>. SUFFICES ASSUME IInv, CrashAndRestart PROVE IInv'
  OBVIOUS
<1>1. /\ pop' = None /\ loads < MaxLoads /\ loads' = loads + 1
      /\ active' = disk.active /\ keys' = disk.keys
      /\ UNCHANGED <<now, events, disk, ended, settled>>
  BY DEF CrashAndRestart
<1>2. loads' \in 0 .. MaxLoads
  BY <1>1, BoundsAssumption DEF IInv, TypeOK
<1>3. disk' \in Disk /\ keys' \subseteq Keys
  BY <1>1 DEF IInv, TypeOK, Disk
<1>. QED
  BY <1>1, <1>2, <1>3, TransferKeepsInvariant

LEMMA ClearsAreClears ==
  ASSUME ClearEvents
  PROVE  \E S \in SUBSET active : Clear(S)
BY DEF ClearEvents, Queue

LEMMA ClearKeepsInvariant ==
  ASSUME IInv, NEW S \in SUBSET active, Clear(S)
  PROVE  IInv'
<1>1. /\ active' = active \ S /\ settled' = settled \union S
      /\ UNCHANGED <<now, events, keys, disk, pop, loads, ended>>
  BY DEF Clear
<1>2. active \subseteq 1 .. Len(events) /\ loads \in Nat /\ ended \in [EventId -> Nat]
  BY BoundsAssumption DEF IInv, TypeOK
<1>3. TypeOK'
  BY <1>1, <1>2 DEF IInv, TypeOK
<1>4. HeldAreThrown' /\ ChosenAreFresh' /\ ChosenIsFirst'
  BY <1>1 DEF IInv, HeldAreThrown, ChosenAreFresh, ChosenIsFirst
<1>5. SavedIsKept'
  BY <1>1 DEF IInv, SavedIsKept
<1>6. EndsOncePerLoad'
  BY <1>1, <1>2 DEF IInv, EndsOncePerLoad
<1>. QED
  BY <1>3, <1>4, <1>5, <1>6 DEF IInv

LEMMA TickKeepsInvariant == IInv /\ Tick => IInv'
<1>. SUFFICES ASSUME IInv, Tick PROVE IInv'
  OBVIOUS
<1>1. /\ now \in Nat /\ now' = now + 1 /\ now' \in 0 .. MaxTime
      /\ UNCHANGED <<events, active, keys, disk, pop, loads, ended, settled>>
  BY BoundsAssumption DEF Tick, IInv, TypeOK
<1>2. TypeOK' /\ HeldAreThrown' /\ ChosenAreFresh' /\ SavedIsKept' /\ EndsOncePerLoad'
  BY <1>1 DEF IInv, TypeOK, HeldAreThrown, ChosenAreFresh, SavedIsKept, EndsOncePerLoad
<1>3. ChosenIsFirst'
  <2>1. \A e \in active : events[e].expires \in Nat
    BY EventFields DEF IInv, TypeOK
  <2>2. \A e \in active : events[e].expires <= now => events[e].expires <= now'
    BY <1>1, <2>1
  <2>. QED
    BY <1>1, <2>2 DEF IInv, ChosenIsFirst
<1>. QED
  BY <1>2, <1>3 DEF IInv

-----------------------------------------------------------------------------

LEMMA NextInvariant == IInv /\ [Next]_vars => IInv'
<1>. SUFFICES ASSUME IInv, [Next]_vars PROVE IInv'
  OBVIOUS
<1>1. ASSUME NEW k \in Keys, NEW delay \in Delays, NEW ttl \in Ttls,
             NEW single \in Consumers, Throw(k, delay, ttl, single)
      PROVE  IInv'
  BY <1>1, ThrowKeepsInvariant
<1>2. ASSUME NEW k \in Keys, NEW lag \in 0 .. MaxLag, lag <= now, PopScan(k, now - lag)
      PROVE  IInv'
  BY <1>2, PopScanKeepsInvariant
<1>3. CASE PopTake
  BY <1>3, PopTakeKeepsInvariant
<1>4. CASE Save
  BY <1>4, SaveKeepsInvariant
<1>5. CASE ExpireAll
  BY <1>5, ExpireAllKeepsInvariant
<1>6. CASE Load
  BY <1>6, LoadKeepsInvariant
<1>7. CASE CrashAndRestart
  BY <1>7, RestartKeepsInvariant
<1>8. CASE ClearEvents
  BY <1>8, ClearsAreClears, ClearKeepsInvariant
<1>9. CASE Tick
  BY <1>9, TickKeepsInvariant
<1>10. CASE UNCHANGED vars
  BY <1>10 DEF vars, IInv, TypeOK, HeldAreThrown, ChosenAreFresh, ChosenIsFirst,
               SavedIsKept, EndsOncePerLoad
<1>. QED
  BY <1>1, <1>2, <1>3, <1>4, <1>5, <1>6, <1>7, <1>8, <1>9, <1>10 DEF Next

LEMMA Invariance == Spec => []IInv
<1>1. Init => IInv
  BY InitInvariant
<1>2. IInv /\ [Next]_vars => IInv'
  BY NextInvariant
<1>. QED
  BY <1>1, <1>2, PTL DEF Spec

(* Every reachable state of the store is well-formed.                      *)
THEOREM TypeCorrect == Spec => []TypeOK
<1>1. IInv => TypeOK
  BY DEF IInv
<1>. QED
  BY <1>1, Invariance, PTL

(* What was saved and has not ended is in memory: no load, crash or        *)
(* clean-up of keys loses an event behind the back of the state file.      *)
THEOREM SavedEventsAreKept == Spec => []SavedIsKept
<1>1. IInv => SavedIsKept
  BY DEF IInv
<1>. QED
  BY <1>1, Invariance, PTL

(* No event is returned or expired more than once between two loads of the *)
(* state file, however pops, clears and expiry checks interleave.          *)
THEOREM EventsEndOncePerLoad == Spec => []EndsOncePerLoad
<1>1. IInv => EndsOncePerLoad
  BY DEF IInv
<1>. QED
  BY <1>1, Invariance, PTL

-----------------------------------------------------------------------------
(* What a step may do *)

LEMMA StepKeepsGone ==
  ASSUME IInv, IInv', [Next]_vars, NEW e \in Gone
  PROVE  e \in Gone' /\ ended'[e] = ended[e]
<1>0. /\ e \in 1 .. Len(events) /\ e \in EventId
      /\ e \notin active /\ e \notin disk.active
      /\ e \notin pop.take /\ e \notin pop.expired
  BY BoundsAssumption DEF Gone, IInv, TypeOK, EventId
<1>1. ASSUME NEW k \in Keys, NEW delay \in Delays, NEW ttl \in Ttls,
             NEW single \in Consumers, Throw(k, delay, ttl, single)
      PROVE  e \in Gone' /\ ended'[e] = ended[e]
  <2>1. Len(events) \in Nat /\ Len(events') = Len(events) + 1
    BY <1>1, ThrowAppends DEF IInv, TypeOK
  <2>2. e \in 1 .. Len(events') /\ e # Len(events) + 1
    BY <1>0, <2>1
  <2>. QED
    BY <1>0, <1>1, <2>2 DEF Throw, Gone
<1>2. ASSUME NEW k \in Keys, NEW lag \in 0 .. MaxLag, PopScan(k, now - lag)
      PROVE  e \in Gone' /\ ended'[e] = ended[e]
  <2>1. e \notin pop'.take /\ e \notin pop'.expired
    BY <1>0, <1>2, ScanChooses DEF Queue
  <2>. QED
    BY <1>0, <1>2, <2>1 DEF PopScan, Gone
<1>3. CASE PopTake
  BY <1>0, <1>3 DEF PopTake, Remaining, CountEnd, Gone, None
<1>4. CASE Save
  BY <1>0, <1>4 DEF Save, Snapshot, Gone
<1>5. CASE ExpireAll
  <2>1. e \notin Expired
    BY <1>0 DEF Expired
  <2>. QED
    BY <1>0, <1>5, <2>1 DEF ExpireAll, CountEnd, Snapshot, Gone
<1>6. CASE Load
  BY <1>0, <1>6 DEF Load, Restored, Snapshot, Gone
<1>7. CASE CrashAndRestart
  BY <1>0, <1>7 DEF CrashAndRestart, Gone, None
<1>8. CASE ClearEvents
  <2>1. PICK S \in SUBSET active : Clear(S)
    BY <1>8, ClearsAreClears
  <2>. QED
    BY <1>0, <2>1 DEF Clear, Gone
<1>9. CASE Tick
  BY <1>0, <1>9 DEF Tick, Gone
<1>10. CASE UNCHANGED vars
  BY <1>0, <1>10 DEF vars, Gone
<1>. QED
  BY <1>1, <1>2, <1>3, <1>4, <1>5, <1>6, <1>7, <1>8, <1>9, <1>10 DEF Next

(* An event that memory, state file and pop have let go of never comes     *)
(* back: it is not returned, expired or restored again.                    *)
THEOREM GoneEventsStayGone == Spec => GoneStaysGone
<1>1. IInv /\ IInv' /\ [Next]_vars => [\A e \in Gone : e \in Gone' /\ ended'[e] = ended[e]]_vars
  BY StepKeepsGone
<1>. QED
  BY <1>1, Invariance, PTL DEF Spec, GoneStaysGone

(* Events of one key are returned in the order of their throws.            *)
THEOREM EventsAreServedInOrder == Spec => FirstComeFirstServed
<1>. DEFINE InOrder ==
       \A e, f \in active :
         /\ e < f
         /\ events[e].key = events[f].key
         /\ events[e].from <= events[f].from
         /\ events[e].expires > now
         /\ PopTake
         => f \notin pop.take
<1>1. IInv /\ [Next]_vars => [InOrder]_vars
  <2>. SUFFICES ASSUME IInv, NEW e \in active, NEW f \in active, f \in pop.take,
                       e < f, events[e].key = events[f].key,
                       events[e].from <= events[f].from, events[e].expires > now
                PROVE  FALSE
    OBVIOUS
  <2>1. events[e].expires <= now
    BY DEF IInv, ChosenIsFirst
  <2>2. events[e].expires \in Nat /\ now \in Nat
    BY EventFields, BoundsAssumption DEF IInv, TypeOK
  <2>. QED
    BY <2>1, <2>2
<1>. QED
  BY <1>1, Invariance, PTL DEF Spec, FirstComeFirstServed

-----------------------------------------------------------------------------
(* Refinement *)

LEMMA StepsAreAbstractSteps ==
  ASSUME IInv, [Next]_vars
  PROVE  [Abstract!WNext]_(Abstract!wvars)
<1>. USE DEF Abstract!WNext, Abstract!wvars, Abstract!Add, Abstract!Remove,
             Abstract!RemoveAndWriteBack, Abstract!Restore
<1>1. ASSUME NEW k \in Keys, NEW delay \in Delays, NEW ttl \in Ttls,
             NEW single \in Consumers, Throw(k, delay, ttl, single)
      PROVE  Abstract!WNext
  <2>1. Len(events') = Len(events) + 1
    BY <1>1, ThrowAppends DEF IInv
  <2>. QED
    BY <1>1, <2>1 DEF Throw
<1>2. ASSUME NEW k \in Keys, NEW lag \in 0 .. MaxLag, PopScan(k, now - lag)
      PROVE  UNCHANGED Abstract!wvars
  BY <1>2 DEF PopScan
<1>3. CASE PopTake
  BY <1>3 DEF PopTake, Remaining
<1>4. CASE Save
  BY <1>4 DEF Save, Snapshot
<1>5. CASE ExpireAll
  BY <1>5 DEF ExpireAll, Snapshot
<1>6. CASE Load
  BY <1>6 DEF Load, Restored, Snapshot
<1>7. CASE CrashAndRestart
  BY <1>7 DEF CrashAndRestart
<1>8. CASE ClearEvents
  BY <1>8, ClearsAreClears DEF Clear
<1>9. CASE Tick
  BY <1>9 DEF Tick
<1>10. CASE UNCHANGED vars
  BY <1>10 DEF vars
<1>. QED
  BY <1>1, <1>2, <1>3, <1>4, <1>5, <1>6, <1>7, <1>8, <1>9, <1>10 DEF Next

(* The event store is a set with write-back: whatever the queues, times,   *)
(* threads and restarts do is one of the four steps of that set.           *)
THEOREM StoreIsAWriteBackSet == Spec => ImplementsWriteBackSet
<1>1. Init => Abstract!WInit
  BY DEF Init, Abstract!WInit
<1>2. IInv /\ [Next]_vars => [Abstract!WNext]_(Abstract!wvars)
  BY StepsAreAbstractSteps
<1>. QED
  BY <1>1, <1>2, Invariance, PTL DEF Spec, ImplementsWriteBackSet, Abstract!WSpec

=============================================================================
