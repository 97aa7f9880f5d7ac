----------------------------- MODULE EventStore -----------------------------
(***************************************************************************)
(* The events of one destination (routes/scheduler_utils.py): the queues   *)
(* of active_events, their expiry, and what of them is in the state file   *)
(* of the destination.                                                     *)
(*                                                                         *)
(* Threads meet here.  throw_event is called by request handlers, by       *)
(* generation workers and by the scheduler loops; pop_next_event by the    *)
(* loop of the destination; check_all_expired_events by the loop of any    *)
(* destination; save_scheduler_state and load_scheduler_state by all of    *)
(* them.  These hold _state_lock.  clear_events_for_destination, called by *)
(* request handlers, does not, so it can run between the scan of           *)
(* pop_next_event and its removal: pop is two steps here.                  *)
(*                                                                         *)
(* An event is named by its place in the order of throws.  A queue of      *)
(* active_events is appended to by throws and is otherwise only cut down,  *)
(* so it is the set of its events, in that order; a load restores it as it *)
(* was saved.                                                              *)
(***************************************************************************)
EXTENDS Integers, FiniteSets, Sequences

CONSTANTS
  Keys,       \* event names
  Delays,     \* delays (from now to active_from) of the events thrown
  Ttls,       \* lifetimes (from active_from to expires)
  Consumers,  \* values of single_consumer of the events thrown
  MaxLag,     \* bound: how old the time is that a caller of pop_next_event passes
  MaxEvents,  \* bound: events thrown in a behaviour
  MaxTime,    \* bound: the clock, and every expiry before its end
  MaxLoads    \* bound: loads of the state file, restarts included

ASSUME DelaysAssumption == Delays \subseteq Nat
ASSUME TtlsAssumption == Ttls \subseteq Nat
ASSUME ConsumersAssumption == Consumers \subseteq BOOLEAN
ASSUME BoundsAssumption ==
  MaxLag \in Nat /\ MaxEvents \in Nat /\ MaxTime \in Nat /\ MaxLoads \in Nat

VARIABLES
  now,     \* datetime.now(), in ticks
  events,  \* the events thrown so far, with what no one changes about them
  active,  \* the events in the queues of active_events
  keys,    \* the keys of active_events
  disk,    \* the state file; it has a file flag, and what a load reads
  pop,     \* the pop_next_event in progress, between scan and removal
  loads,   \* loads so far, restarts included
  ended,   \* history: how often each event was returned or expired
  settled  \* history: the events returned, expired or cleared so far

vars == <<now, events, active, keys, disk, pop, loads, ended, settled>>

EventId == 1 .. MaxEvents
Event == [key : Keys, from : Nat, expires : Nat, single : BOOLEAN]
None == [take |-> {}, expired |-> {}]

Disk == [file : BOOLEAN, keys : SUBSET Keys, active : SUBSET EventId]
Pop == [take : SUBSET EventId, expired : SUBSET EventId]

TypeOK ==
  /\ now \in 0 .. MaxTime
  /\ events \in Seq(Event) /\ Len(events) <= MaxEvents
  /\ active \subseteq 1 .. Len(events)
  /\ keys \subseteq Keys
  /\ disk \in Disk
  /\ pop \in Pop
  /\ loads \in 0 .. MaxLoads
  /\ ended \in [EventId -> Nat]
  /\ settled \subseteq 1 .. Len(events)

-----------------------------------------------------------------------------

Init ==
  /\ now = 0
  /\ events = <<>>
  /\ active = {}
  /\ keys = {}
  /\ disk = [file |-> FALSE, keys |-> {}, active |-> {}]
  /\ pop = None
  /\ loads = 0
  /\ ended = [e \in EventId |-> 0]
  /\ settled = {}

(* Whether _state_lock is free. *)
Unlocked == pop = None

(* throw_event, for this destination among those of the scope. *)
Throw(k, delay, ttl, single) ==
  /\ Unlocked
  /\ Len(events) < MaxEvents
  /\ now + delay + ttl < MaxTime
  /\ events' = Append(events, [key |-> k, from |-> now + delay,
                               expires |-> now + delay + ttl, single |-> single])
  /\ active' = active \union {Len(events) + 1}
  /\ keys' = keys \union {k}
  /\ UNCHANGED <<now, disk, pop, loads, ended, settled>>

-----------------------------------------------------------------------------
(* pop_next_event and _pop_event_from_queue, as their callers use them,    *)
(* with event_trigger_mode=True                                            *)

Queue(k) == {e \in active : events[e].key = k}

(* The first pass: what can be consumed outright. *)
Ready(k, at) == {e \in Queue(k) : events[e].from <= at /\ events[e].expires > at}

(* The second pass, made when the first finds nothing: what is past its    *)
(* time is expired, and an event in the very instant of its expiry is      *)
(* still handed out.                                                       *)
Overdue(k, at) ==
  {e \in Queue(k) : events[e].from <= at /\ events[e].expires < at}

AtExpiry(k, at) ==
  {e \in Queue(k) : events[e].from <= at /\ events[e].expires = at}

(* Deviation: the last one thrown. *)
Newest(S) == {e \in S : \A f \in S : e >= f}

Oldest(S) == {e \in S : \A f \in S : e <= f}

(* at is the time the caller read when its tick began. *)
PopScan(k, at) ==
  /\ Unlocked
  /\ pop' = IF Ready(k, at) # {}
            THEN [take |-> Oldest(Ready(k, at)), expired |-> {}]
            ELSE [take |-> Oldest(AtExpiry(k, at)), expired |-> Overdue(k, at)]
  /\ UNCHANGED <<now, events, active, keys, disk, loads, ended, settled>>

CountEnd(S) == [e \in EventId |-> IF e \in S THEN ended[e] + 1 ELSE ended[e]]

(* Deviation: what is not expired stays for the next pop. *)
RemainingMulti == active \ pop.expired

Remaining == active \ (pop.take \union pop.expired)

(* Removal and return, with the lock held since the scan.  An event that   *)
(* clear_events_for_destination took in between is returned all the same.  *)
PopTake ==
  /\ pop # None
  /\ active' = Remaining
  /\ ended' = CountEnd(pop.take \union pop.expired)
  /\ settled' = settled \union pop.take \union pop.expired
  /\ pop' = None
  /\ UNCHANGED <<now, events, keys, disk, loads>>

-----------------------------------------------------------------------------
(* The state file *)

(* Deviations: the file lacks a part; what it held before stays in it. *)
SnapshotPartial(mem, names) == [file |-> TRUE, keys |-> names]

SnapshotMerged(mem, names) ==
  [file |-> TRUE, keys |-> names, active |-> disk.active \union mem]

Snapshot(mem, names) == [file |-> TRUE, keys |-> names, active |-> mem]

(* save_scheduler_state.  It swallows every error and then leaves the old  *)
(* file: a failed save is a save that does not happen.                     *)
Save ==
  /\ Unlocked
  /\ disk' = Snapshot(active, keys)
  /\ UNCHANGED <<now, events, active, keys, pop, loads, ended, settled>>

(* Deviation: the wrong time is compared. *)
ExpiredNever == {e \in active : events[e].expires < events[e].from}

(* check_all_expired_events.  Keys without events are dropped, and what    *)
(* expired is saved.                                                       *)
Expired == {e \in active : events[e].expires < now}

ExpireAll ==
  /\ Unlocked
  /\ active' = active \ Expired
  /\ keys' = {events[e].key : e \in active \ Expired}
  /\ settled' = settled \union Expired
  /\ disk' = IF Expired = {} THEN disk ELSE Snapshot(active', keys')
  /\ ended' = CountEnd(Expired)
  /\ UNCHANGED <<now, events, pop, loads>>

(* Deviations: the queues of the file are emptied, not filled; events of   *)
(* the history are put back too.                                           *)
RestoredEmpty == {e \in active : events[e].key \notin disk.keys}

RestoredHistory ==
  {e \in active : events[e].key \notin disk.keys} \union disk.active \union settled

Restored ==
  {e \in active : events[e].key \notin disk.keys} \union disk.active

(* load_scheduler_state in a live process: the queues in the file replace  *)
(* those of the same keys and the others stay.  Without a file the state   *)
(* in memory is saved.                                                     *)
Load ==
  /\ Unlocked
  /\ loads < MaxLoads
  /\ loads' = loads + 1
  /\ IF disk.file
     THEN /\ active' = Restored
          /\ keys' = keys \union disk.keys
          /\ UNCHANGED disk
     ELSE /\ disk' = Snapshot(active, keys)
          /\ UNCHANGED <<active, keys>>
  /\ UNCHANGED <<now, events, pop, ended, settled>>

(* A crash and the load that initialize_schedulers_from_disk makes of every *)
(* state file.                                                             *)
CrashAndRestart ==
  /\ loads < MaxLoads
  /\ loads' = loads + 1
  /\ active' = disk.active
  /\ keys' = disk.keys
  /\ pop' = None
  /\ UNCHANGED <<now, events, disk, ended, settled>>

-----------------------------------------------------------------------------
(* clear_events_for_destination, which takes no lock *)

Clear(S) ==
  /\ S # {}
  /\ active' = active \ S
  /\ settled' = settled \union S
  /\ UNCHANGED <<now, events, keys, disk, pop, loads, ended>>

(* By key, by id, or everything. *)
ClearEvents ==
  \/ \E k \in Keys : Clear(Queue(k))
  \/ \E e \in active : Clear({e})
  \/ Clear(active)

Tick ==
  /\ now < MaxTime
  /\ now' = now + 1
  /\ UNCHANGED <<events, active, keys, disk, pop, loads, ended, settled>>

Next ==
  \/ \E k \in Keys, delay \in Delays, ttl \in Ttls, single \in Consumers :
       Throw(k, delay, ttl, single)
  \/ \E k \in Keys, lag \in 0 .. MaxLag : lag <= now /\ PopScan(k, now - lag)
  \/ PopTake
  \/ Save
  \/ ExpireAll
  \/ Load
  \/ CrashAndRestart
  \/ ClearEvents
  \/ Tick

Spec == Init /\ [][Next]_vars

(* Time passes, a pop that holds the lock gives it back, and a loop makes  *)
(* the expiry check every 30 seconds.                                      *)
LiveSpec ==
  /\ Spec
  /\ WF_vars(Tick)
  /\ WF_vars(PopTake)
  /\ WF_vars(ExpireAll)

-----------------------------------------------------------------------------
(* Properties *)

(* The state file is behind memory only by events whose end it has not     *)
(* seen: an event that was saved can leave memory by being returned, by    *)
(* expiring and by being cleared, and by no load, crash or key clean-up.   *)
SavedIsKept == disk.active \ settled \subseteq active

(* Each incarnation of the process, and each load of the file, gives an    *)
(* event at most one end: it is not returned twice, expired twice, or      *)
(* returned after it expired.                                              *)
EndsOncePerLoad ==
  \A e \in EventId : ended[e] <= IF e \in active THEN loads ELSE loads + 1

(* An event that is neither in memory nor in the file, nor in the hands of *)
(* a pop, never comes back, whatever is loaded later.                      *)
Gone == {e \in 1 .. Len(events) : 
           e \notin active \union disk.active \union pop.take \union pop.expired}

GoneStaysGone == [][\A e \in Gone : e \in Gone' /\ ended'[e] = ended[e]]_vars

(* Events of one key are returned in the order they were thrown: none is   *)
(* returned while an older one, active no later and not yet at its expiry, *)
(* is in the queue.                                                        *)
FirstComeFirstServed ==
  [][\A e, f \in active :
       /\ e < f
       /\ events[e].key = events[f].key
       /\ events[e].from <= events[f].from
       /\ events[e].expires > now
       /\ PopTake
       => f \notin pop.take]_vars

(* Every event leaves the queue. *)
Drained == \A e \in EventId : e \in active ~> e \notin active

(* The store is a set with write-back. *)
Abstract == INSTANCE WriteBackSet WITH
  born <- Len(events), memory <- active, durable <- disk.active

ImplementsWriteBackSet == Abstract!WSpec

=============================================================================
