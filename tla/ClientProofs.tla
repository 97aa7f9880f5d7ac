---------------------------- MODULE ClientProofs ----------------------------
(***************************************************************************)
(* Proofs about the events panel, and about the smaller parts of the pages *)
(* that PageParts names.                                                   *)
(***************************************************************************)
EXTENDS EventsPanel, PageParts, FiniteSetTheorems, SequenceTheorems, TLAPS

-----------------------------------------------------------------------------
(* The events panel: its inductive invariant.                              *)

\* The destinations a listing has read, or left out.
Seen(x) == {DestOrder[i] : i \in 1..x.read}

\* What a listing has got: events of the destinations it has read, none of
\* them in both lists.
Apart(got) == got["queue"] \cap got["history"] = {}
Gets(x, events) ==
    /\ Apart(x.got)
    /\ \A t \in Tables : \A e \in x.got[t] :
          e \in DOMAIN events /\ events[e].dest \in Seen(x)

\* A deletion is of an event the user deleted, and a throw has a key.
Asked(x, deleted) == /\ x.kind = "delete" => x.event \in deleted
                     /\ x.kind = "throw" => x.key \in Keys

Thrown   == Seq([dest : Dests, key : Keys])
ServerOK == /\ thrown \in Thrown /\ Len(thrown) <= MaxEvents
            /\ queued \subseteq DOMAIN thrown /\ expired \subseteq DOMAIN thrown
PagesType == [Tables -> [page : Nat, size : PageSizes]]
PanelOK  == /\ form \in Form /\ offered \subseteq SUBSET Dests /\ listing \in BOOLEAN
            /\ pages \in PagesType
CallsOK  == calls \in [Requests -> Calls]
ShownOK  == shown \in Lists
RestOK   == /\ clicked \subseteq Ids /\ cleared \subseteq Ids
            /\ fails \in 0..MaxFails /\ acts \in 0..MaxActs
AllGet   == \A r \in Requests : Gets(calls[r], thrown)
AllAsked == \A r \in Requests : Asked(calls[r], clicked)

PanelInv == /\ ServerOK /\ PanelOK /\ CallsOK /\ ShownOK /\ RestOK
            /\ AllGet /\ AllAsked /\ ListedOnce /\ DeleteSparesOthers

-----------------------------------------------------------------------------
(* Calls.                                                                  *)

LEMMA DestsFinite == IsFiniteSet(Dests) /\ DestOrder \in Seq(Dests) /\ Len(DestOrder) \in Nat
<1> DEFINE Places == 1..Len(DestOrder)
<1>1. DestOrder \in Seq(Dests) /\ Len(DestOrder) \in Nat /\ DOMAIN DestOrder = Places
  BY EventsPanelAssumption, LenProperties
<1>2. IsFiniteSet(Places) /\ DestOrder \in [Places -> Dests]
  BY <1>1, FS_Interval
<1>3. \A d \in Dests : \E i \in Places : DestOrder[i] = d
  BY <1>1 DEF Dests, ToSet
<1> HIDE DEF Places
<1>4. DestOrder \in Surjection(Places, Dests)
  BY <1>2, <1>3 DEF Surjection
<1> QED BY <1>1, <1>2, <1>4, FS_Surjection

LEMMA EmptyType == /\ Empty \in Lists /\ Apart(Empty)
                   /\ \A t \in Tables : Empty[t] = {}
  BY DEF Empty, Lists, Tables, Apart

LEMMA IdleType ==
    /\ Idle \in Calls /\ Idle.kind = "idle" /\ Idle.got = Empty /\ Idle.read = 0
    /\ Poll \in Calls /\ Poll.kind = "poll" /\ Poll.got = Empty /\ Poll.read = 0
<1>1. 0 \in 0..Len(DestOrder) /\ Dests \in SUBSET Dests
  BY DestsFinite
<1>2. Idle \in Calls
  BY <1>1, EmptyType DEF Idle, Calls, Global
<1>3. Idle.kind = "idle" /\ Idle.got = Empty /\ Idle.read = 0
  BY DEF Idle
<1>4. Poll \in Calls /\ Poll.kind = "poll" /\ Poll.got = Idle.got /\ Poll.read = Idle.read
  BY <1>2 DEF Poll, Calls
<1> QED BY <1>2, <1>3, <1>4

\* Nothing got is got rightly.
LEMMA GetsNothing ==
    ASSUME NEW x, NEW events, x.got = Empty
    PROVE  Gets(x, events)
  BY EmptyType DEF Gets

\* What a listing has got stays, however many events are thrown.
LEMMA GetsStays ==
    ASSUME NEW x, NEW events, NEW more, Gets(x, events), DOMAIN events \subseteq DOMAIN more,
           \A e \in DOMAIN events : more[e] = events[e]
    PROVE  Gets(x, more)
  BY DEF Gets

LEMMA CallFields ==
    ASSUME NEW x \in Calls
    PROVE  /\ x.event \in Ids \cup {0} /\ x.read \in 0..Len(DestOrder) /\ x.got \in Lists
           /\ x.scope \in SUBSET Dests /\ x.key \in Keys \cup {Nothing}
  BY DEF Calls

\* One call changes.
LEMMA OneCall ==
    ASSUME PanelInv, NEW r \in Requests, NEW x \in Calls, calls' = [calls EXCEPT ![r] = x],
           Gets(x, thrown), Asked(x, clicked'),
           thrown' = thrown, clicked \subseteq clicked'
    PROVE  CallsOK' /\ AllGet' /\ AllAsked'
<1>1. calls \in [Requests -> Calls]
  BY DEF PanelInv, CallsOK
<1>2. \A q \in Requests : calls'[q] = IF q = r THEN x ELSE calls[q]
  BY <1>1
<1>3. CallsOK'
  BY <1>1 DEF CallsOK
<1>4. AllGet'
  BY <1>2 DEF PanelInv, AllGet
<1>5. AllAsked'
  BY <1>2 DEF PanelInv, AllAsked, Asked
<1> QED BY <1>3, <1>4, <1>5

\* A call that has got nothing.
LEMMA CallBegins ==
    ASSUME PanelInv, NEW r \in Requests, NEW x \in Calls, calls' = [calls EXCEPT ![r] = x],
           x.got = Empty, Asked(x, clicked'),
           thrown' = thrown, clicked \subseteq clicked'
    PROVE  CallsOK' /\ AllGet' /\ AllAsked'
  BY GetsNothing, OneCall

LEMMA CallEnds ==
    ASSUME PanelInv, NEW r \in Requests, calls' = [calls EXCEPT ![r] = Idle],
           thrown' = thrown, clicked' = clicked
    PROVE  CallsOK' /\ AllGet' /\ AllAsked'
  BY IdleType, CallBegins DEF Asked

\* What a step leaves alone.
LEMMA Same ==
    ASSUME PanelInv
    PROVE  /\ UNCHANGED server => ServerOK'
           /\ UNCHANGED <<form, offered, listing, pages>> => PanelOK'
           /\ UNCHANGED <<calls, thrown, clicked>> => CallsOK' /\ AllGet' /\ AllAsked'
           /\ UNCHANGED shown => ShownOK' /\ ListedOnce'
           /\ UNCHANGED <<clicked, cleared>> => DeleteSparesOthers'
<1>1. UNCHANGED server => ServerOK'
  BY DEF PanelInv, ServerOK, server
<1>2. UNCHANGED <<form, offered, listing, pages>> => PanelOK'
  BY DEF PanelInv, PanelOK
<1>3. UNCHANGED <<calls, thrown, clicked>> => CallsOK' /\ AllGet' /\ AllAsked'
  BY DEF PanelInv, CallsOK, AllGet, AllAsked, Asked
<1>4. UNCHANGED shown => ShownOK' /\ ListedOnce'
  BY DEF PanelInv, ShownOK, ListedOnce
<1>5. UNCHANGED <<clicked, cleared>> => DeleteSparesOthers'
  BY DEF PanelInv, DeleteSparesOthers
<1> QED BY <1>1, <1>2, <1>3, <1>4, <1>5

LEMMA RestType ==
    ASSUME PanelInv, UNCHANGED <<clicked, cleared>>,
           Act \/ UNCHANGED acts,
           UNCHANGED fails \/ (fails < MaxFails /\ fails' = fails + 1)
    PROVE  RestOK'
<1>1. acts' \in 0..MaxActs
  BY EventsPanelAssumption DEF PanelInv, RestOK, Act
<1>2. fails' \in 0..MaxFails
  BY EventsPanelAssumption DEF PanelInv, RestOK
<1> QED BY <1>1, <1>2 DEF PanelInv, RestOK

-----------------------------------------------------------------------------
(* The server.                                                             *)

LEMMA ScopesType == Scopes \in SUBSET (SUBSET Dests)
  BY EventsPanelAssumption DEF Scopes, Global

LEMMA FunctionIsSeq ==
    ASSUME NEW S, NEW m \in Nat, NEW f \in [1..m -> S]
    PROVE  f \in Seq(S)
  BY SeqDef

\* Events are only added, and a place in the order of throws stays taken.
LEMMA ThrowType ==
    ASSUME ServerOK, NEW scope \in SUBSET Dests, NEW key \in Keys, Throw(scope, key)
    PROVE  /\ ServerOK' /\ DOMAIN thrown \subseteq DOMAIN thrown'
           /\ \A e \in DOMAIN thrown : thrown'[e] = thrown[e]
<1> DEFINE n == Cardinality(scope)
<1>1. n \in Nat
  BY DestsFinite, FS_Subset, FS_CardinalityType
<1>2. PICK at \in Orders(scope) : thrown' = thrown \o Copies(at, key)
  BY DEF Throw
<1>3. /\ Len(thrown) + n <= MaxEvents /\ expired' = expired
      /\ queued' = queued \cup Len(thrown) + 1 .. Len(thrown) + n
  BY DEF Throw
<1>4. at \in [1..n -> scope]
  BY <1>2 DEF Orders
<1> HIDE DEF n
<1>5. Copies(at, key) \in [1..n -> [dest : Dests, key : Keys]]
  BY <1>4 DEF Copies
<1>6. Copies(at, key) \in Thrown /\ Len(Copies(at, key)) = n
  <2>1. Copies(at, key) \in Thrown
    BY <1>1, <1>5, FunctionIsSeq DEF Thrown
  <2> QED BY <1>1, <1>5, <2>1, LenProperties DEF Thrown
<1>7. thrown \in Thrown /\ Len(thrown) \in Nat /\ DOMAIN thrown = 1..Len(thrown)
  BY LenProperties DEF ServerOK, Thrown
<1>8. /\ thrown' \in Thrown /\ Len(thrown') = Len(thrown) + n
      /\ DOMAIN thrown' = 1..(Len(thrown) + n)
      /\ \A e \in 1..Len(thrown) : thrown'[e] = thrown[e]
  <2>1. thrown' \in Thrown /\ Len(thrown') = Len(thrown) + n
    BY <1>2, <1>6, <1>7, ConcatProperties DEF Thrown
  <2>2. \A e \in 1..Len(thrown) : thrown'[e] = thrown[e]
    BY <1>1, <1>2, <1>6, <1>7, ConcatProperties DEF Thrown
  <2>3. DOMAIN thrown' = 1..Len(thrown')
    BY <2>1, LenProperties DEF Thrown
  <2> QED BY <2>1, <2>2, <2>3
<1>9. DOMAIN thrown \subseteq DOMAIN thrown'
  BY <1>1, <1>7, <1>8
<1>10. queued' \subseteq DOMAIN thrown' /\ expired' \subseteq DOMAIN thrown'
  BY <1>1, <1>3, <1>7, <1>8, <1>9 DEF ServerOK
<1>11. Len(thrown') <= MaxEvents
  BY <1>3, <1>8
<1> QED BY <1>7, <1>8, <1>9, <1>10, <1>11 DEF ServerOK

\* So whatever listings have got stays right.
LEMMA ThrowGets ==
    ASSUME PanelInv, NEW scope \in SUBSET Dests, NEW key \in Keys, Throw(scope, key)
    PROVE  ServerOK' /\ \A r \in Requests : Gets(calls[r], thrown')
<1>1. /\ ServerOK' /\ DOMAIN thrown \subseteq DOMAIN thrown'
      /\ \A e \in DOMAIN thrown : thrown'[e] = thrown[e]
  BY ThrowType DEF PanelInv
<1>2. ASSUME NEW r \in Requests PROVE Gets(calls[r], thrown')
  <2>1. Gets(calls[r], thrown)
    BY DEF PanelInv, AllGet
  <2> QED BY <1>1, <2>1, GetsStays
<1> QED BY <1>1, <1>2

LEMMA ThrownElsewhereInv == PanelInv /\ ThrownElsewhere => PanelInv'
<1> SUFFICES ASSUME PanelInv, ThrownElsewhere PROVE PanelInv'
  OBVIOUS
<1>1. PICK scope \in Scopes, key \in Keys : Throw(scope, key)
  BY DEF ThrownElsewhere
<1>2. UNCHANGED <<form, offered, listing, shown, pages, calls, clicked, cleared, fails, acts>>
  BY DEF ThrownElsewhere, panel, history
<1>3. ServerOK' /\ \A r \in Requests : Gets(calls[r], thrown')
  BY <1>1, ScopesType, ThrowGets
<1>4. AllGet' /\ CallsOK' /\ AllAsked'
  BY <1>2, <1>3 DEF PanelInv, AllGet, CallsOK, AllAsked, Asked
<1>5. PanelOK' /\ ShownOK' /\ ListedOnce' /\ DeleteSparesOthers'
  BY <1>2, Same
<1>6. RestOK'
  BY <1>2, RestType
<1> QED BY <1>3, <1>4, <1>5, <1>6 DEF PanelInv

LEMMA TimeInv == PanelInv /\ (Consumed \/ Expire) => PanelInv'
<1> SUFFICES ASSUME PanelInv, Consumed \/ Expire PROVE PanelInv'
  OBVIOUS
<1>1. UNCHANGED <<thrown, form, offered, listing, shown, pages, calls, clicked, cleared,
                  fails, acts>>
  BY DEF Consumed, Expire, panel, history
<1>2. queued' \subseteq queued /\ expired' \subseteq DOMAIN thrown
  BY DEF Consumed, Expire, PanelInv, ServerOK
<1>3. ServerOK'
  BY <1>1, <1>2 DEF PanelInv, ServerOK
<1>4. /\ PanelOK' /\ ShownOK' /\ ListedOnce' /\ DeleteSparesOthers'
      /\ CallsOK' /\ AllGet' /\ AllAsked'
  BY <1>1, Same
<1>5. RestOK'
  BY <1>1, RestType
<1> QED BY <1>3, <1>4, <1>5 DEF PanelInv

-----------------------------------------------------------------------------
(* The form and the tables.                                                *)

LEMMA PageCountType ==
    ASSUME PanelInv, NEW t \in Tables
    PROVE  PageCount(t) \in Nat
<1>1. shown[t] \in SUBSET Ids /\ IsFiniteSet(Ids)
  BY EventsPanelAssumption, FS_Interval DEF PanelInv, ShownOK, Lists, Ids
<1>2. Cardinality(shown[t]) \in Nat
  BY <1>1, FS_Subset, FS_CardinalityType
<1>3. pages[t].size \in Nat \ {0}
  BY EventsPanelAssumption DEF PanelInv, PanelOK, PagesType
<1> DEFINE k == Cardinality(shown[t])
           s == pages[t].size
<1>4. k + s - 1 \in Nat
  BY <1>2, <1>3
<1> HIDE DEF k, s
<1>5. (k + s - 1) \div s \in Nat
  BY <1>3, <1>4 DEF s
<1> QED BY <1>5 DEF PageCount, k, s

LEMMA PagesTyped ==
    ASSUME PanelInv, NEW t \in Tables,
           TurnPage(t) \/ \E size \in PageSizes : ResizePage(t, size)
    PROVE  /\ pages' \in PagesType /\ Act
           /\ UNCHANGED <<server, form, offered, listing, shown, calls, clicked, cleared, fails>>
<1>1. /\ pages \in PagesType /\ pages[t].page \in Nat /\ pages[t].size \in PageSizes
  BY DEF PanelInv, PanelOK, PagesType
<1>2. CASE TurnPage(t)
  <2>1. PICK to : to \in Nat /\ GoTo(t, to)
    BY <1>1, <1>2, PageCountType DEF TurnPage
  <2>2. pages' = [pages EXCEPT ![t] = [pages[t] EXCEPT !.page = to]]
    BY <2>1 DEF GoTo
  <2>3. [pages[t] EXCEPT !.page = to] \in [page : Nat, size : PageSizes]
    BY <1>1, <2>1 DEF PagesType
  <2> QED BY <1>1, <2>1, <2>2, <2>3 DEF PagesType, GoTo, history
<1>3. CASE \E size \in PageSizes : ResizePage(t, size)
  <2>1. PICK size \in PageSizes : ResizePage(t, size)
    BY <1>3
  <2> QED BY <1>1, <2>1 DEF PagesType, ResizePage, history
<1> QED BY <1>2, <1>3

LEMMA FormInv ==
    PanelInv /\ ( \/ ScopesLand \/ ScopesFail \/ TypeForm \/ ResetForm
                  \/ \E t \in Tables : TurnPage(t) \/ \E size \in PageSizes : ResizePage(t, size) )
        => PanelInv'
<1> SUFFICES ASSUME PanelInv,
                    \/ ScopesLand \/ ScopesFail \/ TypeForm \/ ResetForm
                    \/ \E t \in Tables : TurnPage(t) \/ \E size \in PageSizes : ResizePage(t, size)
             PROVE  PanelInv'
  OBVIOUS
<1>1. /\ UNCHANGED <<server, shown, calls, clicked, cleared>>
      /\ Act \/ UNCHANGED acts
      /\ UNCHANGED fails \/ (fails < MaxFails /\ fails' = fails + 1)
      /\ PanelOK'
  <2>1. CASE ScopesLand
    BY <2>1, ScopesType DEF ScopesLand, PanelInv, PanelOK, history
  <2>2. CASE ScopesFail
    BY <2>2, EventsPanelAssumption DEF ScopesFail, PanelInv, PanelOK, history
  <2>3. CASE TypeForm \/ ResetForm
    BY <2>3 DEF TypeForm, ResetForm, PanelInv, PanelOK, Form, history
  <2>4. CASE \E t \in Tables : TurnPage(t) \/ \E size \in PageSizes : ResizePage(t, size)
    <3>1. PICK t \in Tables : TurnPage(t) \/ \E size \in PageSizes : ResizePage(t, size)
      BY <2>4
    <3> QED BY <3>1, PagesTyped DEF PanelInv, PanelOK
  <2> QED BY <2>1, <2>2, <2>3, <2>4
<1>2. ServerOK' /\ ShownOK' /\ ListedOnce' /\ DeleteSparesOthers'
  BY <1>1, Same
<1>3. CallsOK' /\ AllGet' /\ AllAsked'
  BY <1>1, Same DEF server
<1>4. RestOK'
  BY <1>1, RestType
<1> QED BY <1>1, <1>2, <1>3, <1>4 DEF PanelInv

-----------------------------------------------------------------------------
(* Throws, deletions and listings.                                         *)

\* The panel is mounted anew: its listings are dropped, the other calls are
\* answered to nobody.
LEMMA RemountInv == ASSUME PanelInv, NEW r \in Requests, Remount(r) PROVE PanelInv'
<1>1. /\ Act /\ UNCHANGED <<server, clicked, cleared, fails>>
      /\ calls' = [q \in Requests |->
                     IF q = r THEN Poll
                     ELSE IF calls[q].kind # "idle" /\ calls[q].at = "sent"
                     THEN [calls[q] EXCEPT !.own = FALSE] ELSE Idle]
      /\ form' = "blank" /\ offered' = {Global} /\ listing' = TRUE /\ shown' = Empty
      /\ pages' = [t \in Tables |-> FirstPage]
  BY DEF Remount, history, Act
<1>2. ASSUME NEW q \in Requests
      PROVE  /\ calls'[q] \in Calls /\ Gets(calls'[q], thrown) /\ Asked(calls'[q], clicked)
  <2> DEFINE x == [calls[q] EXCEPT !.own = FALSE]
  <2>1. calls'[q] \in {Poll, Idle, x}
    BY <1>1
  <2>2. /\ x \in Calls /\ x.got = calls[q].got /\ x.read = calls[q].read
        /\ x.kind = calls[q].kind /\ x.event = calls[q].event /\ x.key = calls[q].key
    BY DEF PanelInv, CallsOK, Calls
  <2> HIDE DEF x
  <2>3. Gets(x, thrown) /\ Asked(x, clicked)
    BY <2>2 DEF PanelInv, AllGet, AllAsked, Gets, Seen, Asked
  <2>4. ASSUME NEW y \in {Poll, Idle}
        PROVE  y \in Calls /\ Gets(y, thrown) /\ Asked(y, clicked)
    BY IdleType, GetsNothing DEF Asked
  <2> QED BY <2>1, <2>2, <2>3, <2>4
<1>3. CallsOK'
  BY <1>1, <1>2 DEF CallsOK
<1>4. AllGet' /\ AllAsked'
  BY <1>1, <1>2 DEF AllGet, AllAsked, Asked, server
<1>5. PanelOK'
  <2>1. FirstPage \in [page : Nat, size : PageSizes]
    BY EventsPanelAssumption DEF FirstPage
  <2> QED BY <1>1, <2>1 DEF PanelOK, PagesType, Form, Global
<1>6. ShownOK' /\ ListedOnce'
  BY <1>1, EmptyType DEF ShownOK, ListedOnce, Apart
<1>7. ServerOK' /\ DeleteSparesOthers'
  BY <1>1, Same
<1>8. RestOK'
  BY <1>1, RestType
<1> QED BY <1>3, <1>4, <1>5, <1>6, <1>7, <1>8 DEF PanelInv

LEMMA SubmitInv == ASSUME PanelInv, NEW r \in Requests, Submit(r) PROVE PanelInv'
<1>1. Act /\ UNCHANGED <<server, panel, clicked, cleared, fails>>
  BY DEF Submit, history
<1>2. PICK key \in Keys, scope \in offered :
        calls' = [calls EXCEPT ![r] = [Idle EXCEPT !.kind = "throw", !.key = key,
                                                  !.scope = scope]]
  BY DEF Submit
<1> DEFINE x == [Idle EXCEPT !.kind = "throw", !.key = key, !.scope = scope]
<1>3. x \in Calls /\ x.got = Empty /\ Asked(x, clicked')
  BY IdleType DEF PanelInv, PanelOK, Calls, Asked
<1> HIDE DEF x
<1>4. CallsOK' /\ AllGet' /\ AllAsked'
  BY <1>1, <1>2, <1>3, CallBegins DEF x, server
<1>5. ServerOK' /\ PanelOK' /\ ShownOK' /\ ListedOnce' /\ DeleteSparesOthers'
  BY <1>1, Same DEF panel
<1>6. RestOK'
  BY <1>1, RestType
<1> QED BY <1>4, <1>5, <1>6 DEF PanelInv

\* The row is one of the queue that is shown.
LEMMA DeleteEventInv == ASSUME PanelInv, NEW r \in Requests, DeleteEvent(r) PROVE PanelInv'
<1>1. Act /\ UNCHANGED <<server, panel, cleared, fails>>
  BY DEF DeleteEvent
<1>2. PICK e \in Rows("queue") :
        /\ calls' = [calls EXCEPT ![r] = [Idle EXCEPT !.kind = "delete", !.event = e]]
        /\ clicked' = clicked \cup {e}
  BY DEF DeleteEvent
<1>3. e \in Ids
  BY DEF Rows, PanelInv, ShownOK, Lists, Tables
<1> DEFINE x == [Idle EXCEPT !.kind = "delete", !.event = e]
<1>4. x \in Calls /\ x.got = Empty /\ x.event = e /\ x.kind = "delete"
  BY <1>3, IdleType DEF Calls
<1> HIDE DEF x
<1>5. CallsOK' /\ AllGet' /\ AllAsked'
  <2>1. thrown' = thrown /\ Asked(x, clicked') /\ clicked \subseteq clicked'
    BY <1>1, <1>2, <1>4 DEF server, Asked
  <2> QED BY <1>2, <1>4, <2>1, CallBegins DEF x
<1>6. ServerOK' /\ PanelOK' /\ ShownOK' /\ ListedOnce'
  BY <1>1, Same DEF panel
<1>7. DeleteSparesOthers'
  BY <1>1, <1>2 DEF PanelInv, DeleteSparesOthers
<1>8. RestOK'
  BY <1>1, <1>2, <1>3, EventsPanelAssumption DEF PanelInv, RestOK, Act
<1> QED BY <1>5, <1>6, <1>7, <1>8 DEF PanelInv

\* An answer that only moves the call on, or ends it.
LEMMA ServedType ==
    ASSUME PanelInv, NEW r \in Requests, Served(r)
    PROVE  \E x \in Calls : /\ calls' = [calls EXCEPT ![r] = x]
                            /\ \A events : Gets(calls[r], events) => Gets(x, events)
                            /\ Asked(x, clicked)
<1> DEFINE y == [calls[r] EXCEPT !.at = "reading"]
<1>1. PICK x \in {y, Idle} : calls' = [calls EXCEPT ![r] = x]
  BY DEF Served
<1>2. /\ y \in Calls /\ y.got = calls[r].got /\ y.read = calls[r].read
      /\ y.kind = calls[r].kind /\ y.event = calls[r].event /\ y.key = calls[r].key
  BY DEF PanelInv, CallsOK, Calls
<1> HIDE DEF y
<1>3. \A events : Gets(calls[r], events) => Gets(y, events)
  BY <1>2 DEF Gets, Seen
<1>4. Asked(y, clicked)
  BY <1>2 DEF PanelInv, AllAsked, Asked
<1>5. Asked(Idle, clicked)
  BY IdleType DEF Asked
<1> QED BY <1>1, <1>2, <1>3, <1>4, <1>5, IdleType, GetsNothing

LEMMA ThrowServedInv == ASSUME PanelInv, NEW r \in Requests, ThrowServed(r) PROVE PanelInv'
<1>1. /\ Throw(calls[r].scope, calls[r].key) /\ Served(r) /\ calls[r].kind = "throw"
      /\ UNCHANGED <<panel, clicked, cleared, fails, acts>>
  BY DEF ThrowServed, history
<1>2. ServerOK' /\ \A q \in Requests : Gets(calls[q], thrown')
  <2>1. calls[r].scope \in SUBSET Dests /\ calls[r].key \in Keys
    BY <1>1, CallFields DEF PanelInv, CallsOK, AllAsked, Asked
  <2> QED BY <1>1, <2>1, ThrowGets
<1>3. PICK x \in Calls : /\ calls' = [calls EXCEPT ![r] = x]
                         /\ \A events : Gets(calls[r], events) => Gets(x, events)
                         /\ Asked(x, clicked)
  BY <1>1, ServedType
<1>4. \A q \in Requests : calls'[q] = IF q = r THEN x ELSE calls[q]
  BY <1>3 DEF PanelInv, CallsOK
<1>5. CallsOK'
  BY <1>3 DEF PanelInv, CallsOK
<1>6. AllGet' /\ AllAsked'
  BY <1>1, <1>2, <1>3, <1>4 DEF PanelInv, AllGet, AllAsked, Asked
<1>7. PanelOK' /\ ShownOK' /\ ListedOnce' /\ DeleteSparesOthers'
  BY <1>1, Same DEF panel
<1>8. RestOK'
  BY <1>1, RestType
<1> QED BY <1>2, <1>5, <1>6, <1>7, <1>8 DEF PanelInv

\* A deletion takes the event it is for, which the user deleted.
LEMMA DeleteServedInv == ASSUME PanelInv, NEW r \in Requests, DeleteServed(r) PROVE PanelInv'
<1>1. /\ calls[r].kind = "delete" /\ Served(r)
      /\ queued' = queued \ Clears(calls[r].event)
      /\ cleared' = cleared \cup Clears(calls[r].event)
      /\ UNCHANGED <<thrown, expired, panel, clicked, fails, acts>>
  BY DEF DeleteServed
<1>2. PICK x \in Calls : /\ calls' = [calls EXCEPT ![r] = x]
                         /\ \A events : Gets(calls[r], events) => Gets(x, events)
                         /\ Asked(x, clicked)
  BY <1>1, ServedType
<1>3. CallsOK' /\ AllGet' /\ AllAsked'
  <2>1. Gets(x, thrown)
    BY <1>2 DEF PanelInv, AllGet
  <2> QED BY <1>1, <1>2, <2>1, OneCall
<1>4. ServerOK'
  BY <1>1 DEF PanelInv, ServerOK
<1>5. PanelOK' /\ ShownOK' /\ ListedOnce'
  BY <1>1, Same DEF panel
<1>6. Clears(calls[r].event) \subseteq clicked
  BY <1>1 DEF PanelInv, AllAsked, Asked, Clears
<1>7. DeleteSparesOthers' /\ RestOK'
  BY <1>1, <1>6 DEF PanelInv, DeleteSparesOthers, RestOK
<1> QED BY <1>3, <1>4, <1>5, <1>7 DEF PanelInv

LEMMA CallFailsInv ==
    ASSUME PanelInv, NEW r \in Requests, CallFails(r) \/ ListFails(r) PROVE PanelInv'
<1>1. /\ calls' = [calls EXCEPT ![r] = Idle]
      /\ UNCHANGED fails \/ (fails < MaxFails /\ fails' = fails + 1)
      /\ UNCHANGED <<server, offered, listing, shown, pages, clicked, cleared, acts>>
      /\ form' \in {form, "blank"}
  BY DEF CallFails, ListFails, panel, history
<1>2. CallsOK' /\ AllGet' /\ AllAsked'
  BY <1>1, CallEnds DEF server
<1>3. ServerOK' /\ ShownOK' /\ ListedOnce' /\ DeleteSparesOthers'
  BY <1>1, Same
<1>4. PanelOK'
  BY <1>1 DEF PanelInv, PanelOK, Form
<1>5. RestOK'
  BY <1>1, RestType
<1> QED BY <1>2, <1>3, <1>4, <1>5 DEF PanelInv

LEMMA PollStartsInv == ASSUME PanelInv, NEW r \in Requests, PollStarts(r) PROVE PanelInv'
<1>1. /\ calls' = [calls EXCEPT ![r] = Poll]
      /\ UNCHANGED <<server, panel, clicked, cleared, fails, acts>>
  BY DEF PollStarts, history
<1>2. CallsOK' /\ AllGet' /\ AllAsked'
  BY <1>1, IdleType, CallBegins DEF Asked, server
<1>3. ServerOK' /\ PanelOK' /\ ShownOK' /\ ListedOnce' /\ DeleteSparesOthers'
  BY <1>1, Same DEF panel
<1>4. RestOK'
  BY <1>1, RestType
<1> QED BY <1>2, <1>3, <1>4 DEF PanelInv

\* At one moment an event is in one list of its destination at most.
LEMMA EventsApart ==
    ASSUME ServerOK, NEW d
    PROVE  /\ Events("queue", d) \cap Events("history", d) = {}
           /\ \A t \in Tables : /\ Events(t, d) \subseteq DOMAIN thrown
                                /\ \A e \in Events(t, d) : thrown[e].dest = d
<1>1. Events("queue", d) = Queue(d) /\ Events("history", d) = History(d)
  BY DEF Events
<1>2. Queue(d) \cap History(d) = {}
  BY DEF Queue, History
<1>3. Queue(d) \subseteq DOMAIN thrown /\ \A e \in Queue(d) : thrown[e].dest = d
  BY DEF Queue, ServerOK
<1>4. History(d) \subseteq DOMAIN thrown /\ \A e \in History(d) : thrown[e].dest = d
  BY DEF History
<1>5. \A t \in Tables : Events(t, d) \in {Queue(d), History(d)}
  BY DEF Events
<1> QED BY <1>1, <1>2, <1>3, <1>4, <1>5

\* The next destination is none of those that were read, so its events are in
\* neither list yet, though the lists were read at other moments.
LEMMA ReadDestInv == ASSUME PanelInv, NEW r \in Requests, ReadDest(r) PROVE PanelInv'
<1> DEFINE d == NextDest(r)
           got == [t \in Tables |-> calls[r].got[t] \cup Events(t, d)]
           x == [calls[r] EXCEPT !.read = calls[r].read + 1, !.got = got]
<1>1. /\ calls' = [calls EXCEPT ![r] = x]
      /\ Reading(r) /\ UNCHANGED <<server, panel, clicked, cleared, fails, acts>>
  BY DEF ReadDest, history
<1>2. /\ calls[r] \in Calls /\ calls[r].got \in Lists /\ calls[r].read \in Nat
      /\ calls[r].read < Len(DestOrder) /\ Len(DestOrder) \in Nat
  BY <1>1, CallFields, DestsFinite DEF PanelInv, CallsOK, Reading
<1>3. Gets(calls[r], thrown) /\ Asked(calls[r], clicked) /\ ServerOK
  BY DEF PanelInv, AllGet, AllAsked
<1>4. d \notin Seen(calls[r])
  <2>1. DOMAIN DestOrder = 1..Len(DestOrder) /\ IsInjective(DestOrder)
    BY EventsPanelAssumption, LenProperties
  <2> QED BY <1>2, <2>1 DEF Seen, NextDest, IsInjective
<1> HIDE DEF d
<1>5. DOMAIN thrown \subseteq Ids
  BY <1>3, LenProperties, EventsPanelAssumption DEF ServerOK, Thrown, Ids
<1>6. got \in Lists
  BY <1>2, <1>3, <1>5, EventsApart DEF Lists
<1>7. \A t \in Tables : got[t] = calls[r].got[t] \cup Events(t, d)
  OBVIOUS
<1>8. Apart(got)
  <2>1. calls[r].got["queue"] \cap calls[r].got["history"] = {}
    BY <1>3 DEF Gets, Apart
  <2>2. Events("queue", d) \cap Events("history", d) = {}
    BY <1>3, EventsApart
  <2>3. ASSUME NEW s \in Tables, NEW t \in Tables
        PROVE  calls[r].got[s] \cap Events(t, d) = {}
    <3> SUFFICES ASSUME NEW e \in calls[r].got[s], e \in Events(t, d) PROVE FALSE
      OBVIOUS
    <3>1. thrown[e].dest \in Seen(calls[r])
      BY <1>3 DEF Gets
    <3>2. thrown[e].dest = d
      BY <1>3, EventsApart
    <3> QED BY <1>4, <3>1, <3>2
  <2>4. "queue" \in Tables /\ "history" \in Tables
    BY DEF Tables
  <2> HIDE DEF got
  <2> QED BY <1>7, <2>1, <2>2, <2>3, <2>4 DEF Apart
<1> HIDE DEF got
<1>9. /\ x \in Calls /\ x.got = got /\ x.read = calls[r].read + 1
      /\ x.kind = calls[r].kind /\ x.event = calls[r].event /\ x.key = calls[r].key
  <2>1. calls[r].read + 1 \in 0..Len(DestOrder)
    BY <1>2
  <2> QED BY <1>2, <1>6, <2>1 DEF Calls
<1> HIDE DEF x
<1>10. Seen(calls[r]) \subseteq Seen(x) /\ d \in Seen(x)
  BY <1>2, <1>9 DEF Seen, d, NextDest
<1>11. Gets(x, thrown)
  <2>1. ASSUME NEW t \in Tables, NEW e \in got[t]
        PROVE  e \in DOMAIN thrown /\ thrown[e].dest \in Seen(x)
    <3>1. CASE e \in calls[r].got[t]
      BY <1>3, <1>10, <3>1 DEF Gets
    <3>2. CASE e \in Events(t, d)
      BY <1>3, <1>10, <3>2, EventsApart
    <3> QED BY <1>7, <3>1, <3>2
  <2> QED BY <1>8, <1>9, <2>1 DEF Gets
<1>12. CallsOK' /\ AllGet' /\ AllAsked'
  BY <1>1, <1>3, <1>9, <1>11, OneCall DEF Asked, server
<1>13. ServerOK' /\ PanelOK' /\ ShownOK' /\ ListedOnce' /\ DeleteSparesOthers'
  BY <1>1, Same DEF panel
<1>14. RestOK'
  BY <1>1, RestType
<1> QED BY <1>12, <1>13, <1>14 DEF PanelInv

LEMMA DestFailsInv == ASSUME PanelInv, NEW r \in Requests, DestFails(r) PROVE PanelInv'
<1> DEFINE x == [calls[r] EXCEPT !.read = calls[r].read + 1]
<1>1. /\ calls' = [calls EXCEPT ![r] = x]
      /\ Reading(r) /\ UNCHANGED <<server, panel, clicked, cleared, acts>>
      /\ fails < MaxFails /\ fails' = fails + 1
  BY DEF DestFails, history
<1>2. /\ calls[r] \in Calls /\ calls[r].read \in Nat
      /\ calls[r].read < Len(DestOrder) /\ Len(DestOrder) \in Nat
  BY <1>1, CallFields, DestsFinite DEF PanelInv, CallsOK, Reading
<1>3. /\ x \in Calls /\ x.got = calls[r].got /\ x.read = calls[r].read + 1
      /\ x.kind = calls[r].kind /\ x.event = calls[r].event /\ x.key = calls[r].key
  BY <1>2 DEF Calls
<1> HIDE DEF x
<1>4. Seen(calls[r]) \subseteq Seen(x)
  BY <1>2, <1>3 DEF Seen
<1>5. Gets(x, thrown)
  BY <1>3, <1>4 DEF PanelInv, AllGet, Gets
<1>6. Asked(x, clicked)
  BY <1>3 DEF PanelInv, AllAsked, Asked
<1>7. CallsOK' /\ AllGet' /\ AllAsked'
  BY <1>1, <1>3, <1>5, <1>6, OneCall DEF server
<1>8. ServerOK' /\ PanelOK' /\ ShownOK' /\ ListedOnce' /\ DeleteSparesOthers'
  BY <1>1, Same DEF panel
<1>9. RestOK'
  BY <1>1, RestType
<1> QED BY <1>7, <1>8, <1>9 DEF PanelInv

LEMMA LandInv == ASSUME PanelInv, NEW r \in Requests, Land(r) PROVE PanelInv'
<1>1. /\ shown' = calls[r].got /\ form' \in {form, "blank"}
      /\ calls' = [calls EXCEPT ![r] = Idle]
      /\ UNCHANGED <<server, offered, listing, pages, clicked, cleared, fails, acts>>
  BY DEF Land, history
<1>2. ShownOK' /\ ListedOnce'
  <2>1. calls[r].got \in Lists /\ Apart(calls[r].got)
    BY CallFields DEF PanelInv, CallsOK, AllGet, Gets
  <2> QED BY <1>1, <2>1 DEF ShownOK, ListedOnce, Apart
<1>3. CallsOK' /\ AllGet' /\ AllAsked'
  BY <1>1, CallEnds DEF server
<1>4. ServerOK' /\ DeleteSparesOthers'
  BY <1>1, Same
<1>5. PanelOK'
  BY <1>1 DEF PanelInv, PanelOK, Form
<1>6. RestOK'
  BY <1>1, RestType
<1> QED BY <1>2, <1>3, <1>4, <1>5, <1>6 DEF PanelInv

-----------------------------------------------------------------------------
(* The panel's theorem.                                                    *)

LEMMA InitPanel == Init => PanelInv
<1> SUFFICES ASSUME Init PROVE PanelInv
  OBVIOUS
<1>1. PICK r \in Requests : calls = [q \in Requests |-> IF q = r THEN Poll ELSE Idle]
  BY DEF Init
<1>2. ServerOK
  BY EventsPanelAssumption, EmptySeq DEF Init, ServerOK, Thrown
<1>3. PanelOK
  <2>1. FirstPage \in [page : Nat, size : PageSizes]
    BY EventsPanelAssumption DEF FirstPage
  <2> QED BY <2>1 DEF Init, PanelOK, PagesType, Form, Global
<1>4. CallsOK
  BY <1>1, IdleType DEF CallsOK
<1>5. AllGet
  <2>1. \A q \in Requests : calls[q].got = Empty
    BY <1>1, IdleType
  <2> QED BY <2>1, GetsNothing DEF AllGet
<1>6. AllAsked
  BY <1>1, IdleType DEF AllAsked, Asked
<1>7. ShownOK /\ ListedOnce
  BY EmptyType DEF Init, ShownOK, ListedOnce, Apart
<1>8. DeleteSparesOthers /\ RestOK
  BY EventsPanelAssumption DEF Init, DeleteSparesOthers, RestOK
<1> QED BY <1>2, <1>3, <1>4, <1>5, <1>6, <1>7, <1>8 DEF PanelInv

LEMMA NextPanel == PanelInv /\ [Next]_vars => PanelInv'
<1>1. PanelInv /\ UNCHANGED vars => PanelInv'
  <2> SUFFICES ASSUME PanelInv, UNCHANGED vars PROVE PanelInv'
    OBVIOUS
  <2>1. UNCHANGED <<server, form, offered, listing, shown, pages, calls, clicked, cleared,
                    thrown, fails, acts>>
    BY DEF vars, server
  <2>2. /\ ServerOK' /\ PanelOK' /\ ShownOK' /\ ListedOnce' /\ DeleteSparesOthers'
        /\ CallsOK' /\ AllGet' /\ AllAsked'
    BY <2>1, Same
  <2>3. RestOK'
    BY <2>1, RestType
  <2> QED BY <2>2, <2>3 DEF PanelInv
<1>2. PanelInv /\ Next => PanelInv'
  BY ThrownElsewhereInv, TimeInv, FormInv, RemountInv, SubmitInv, DeleteEventInv,
     PollStartsInv, ThrowServedInv, DeleteServedInv, CallFailsInv, ReadDestInv,
     DestFailsInv, LandInv DEF Next
<1> QED BY <1>1, <1>2

(* The panel that lists the events of all destinations (fetchEvents and    *)
(* getAllEvents, which reads them one destination after the other): for    *)
(* any number of destinations, events and requests under way, no event is  *)
(* listed as waiting and as past at once though it is consumed or expires  *)
(* between the reads, and a deletion takes only events whose row the user  *)
(* deleted, however old the table was.                                     *)
THEOREM PanelIsSound == Spec => []PanelHolds
<1>1. PanelInv => PanelHolds
  <2> SUFFICES ASSUME PanelInv PROVE PanelHolds
    OBVIOUS
  <2>1. TypeOK
    BY DEF PanelInv, ServerOK, PanelOK, CallsOK, ShownOK, RestOK, Thrown, PagesType, TypeOK
  <2> QED BY <2>1 DEF PanelInv, PanelHolds
<1> QED BY <1>1, InitPanel, NextPanel, PTL DEF Spec

-----------------------------------------------------------------------------
(* The URL that asks for a run: a timer is only set while the URL says run, *)
(* and the submission that answers it takes run out of the URL.            *)

UrlTypes == /\ url \in Url!Urls /\ runTimer \in Url!Closures \cup {None}
            /\ currentPrompt \in Prompts \cup {None} /\ currentWorkflow \in Workflows
            /\ submitted \in Seq(Url!Submits)
UrlInv == /\ UrlTypes
          /\ (runTimer # None => url.run)
          /\ (url.run => Url!ByUrl = {})
          /\ Url!RunsOnce

LEMMA UrlSubmits ==
    ASSUME UrlTypes, NEW by \in {"user", "url"}, NEW p \in Prompts \cup {None},
           NEW w \in Workflows \cup {None}, Url!Submit(by, p, w)
    PROVE  /\ submitted' \in Seq(Url!Submits)
           /\ Url!ByUrl' = IF by = "url" THEN Url!ByUrl \cup {Len(submitted) + 1} ELSE Url!ByUrl
<1> DEFINE s == [by |-> by, prompt |-> p, workflow |-> Url!Or(w, currentWorkflow)]
<1>1. s \in Url!Submits /\ s.by = by
  BY DEF UrlTypes, Url!Or, Url!Submits
<1>2. submitted' = Append(submitted, s)
  BY DEF Url!Submit
<1> HIDE DEF s
<1>3. submitted \in Seq(Url!Submits) /\ Len(submitted) \in Nat /\ DOMAIN submitted = 1..Len(submitted)
  BY LenProperties DEF UrlTypes
<1>4. /\ submitted' \in Seq(Url!Submits)
      /\ DOMAIN submitted' = 1..(Len(submitted) + 1)
      /\ \A i \in 1..Len(submitted) : submitted'[i] = submitted[i]
      /\ submitted'[Len(submitted) + 1] = s
  BY <1>1, <1>2, <1>3, AppendProperties
<1> QED BY <1>1, <1>3, <1>4 DEF Url!ByUrl

LEMMA UrlNext == UrlInv /\ [Url!Next]_(Url!vars) => UrlInv'
<1> SUFFICES ASSUME UrlInv, [Url!Next]_(Url!vars) PROVE UrlInv'
  OBVIOUS
<1>1. CASE UNCHANGED Url!vars
  BY <1>1 DEF UrlInv, UrlTypes, Url!vars, Url!ByUrl, Url!RunsOnce
<1>2. CASE Url!ApplyUrl
  <2>1. url' = url /\ submitted' = submitted /\ Url!ByUrl' = Url!ByUrl
    BY <1>2 DEF Url!ApplyUrl, Url!ByUrl
  <2>2. Url!Closure \in Url!Closures
    BY DEF UrlInv, UrlTypes, Url!Closure, Url!Closures, Url!Or, Url!Urls
  <2>3. currentPrompt' \in Prompts \cup {None} /\ currentWorkflow' \in Workflows
    BY <1>2 DEF Url!ApplyUrl, UrlInv, UrlTypes, Url!Or, Url!Urls
  <2> QED BY <1>2, <2>1, <2>2, <2>3 DEF Url!ApplyUrl, UrlInv, UrlTypes, Url!RunsOnce
<1>3. CASE Url!RunTimerFires
  <2>1. /\ runTimer # None /\ runTimer \in Url!Closures /\ runTimer' = None
        /\ UNCHANGED <<currentPrompt, currentWorkflow>> /\ url.run /\ Url!ByUrl = {}
    BY <1>3 DEF Url!RunTimerFires, UrlInv, UrlTypes
  <2>2. CASE UNCHANGED <<url, submitted>>
    BY <2>1, <2>2 DEF UrlInv, UrlTypes, Url!ByUrl, Url!RunsOnce
  <2>3. CASE /\ Url!Submit("url", runTimer.prompt, runTimer.workflow)
             /\ url' = Url!AfterRun(url)
    <3>1. url' \in Url!Urls /\ ~url'.run
      BY <2>3 DEF UrlInv, UrlTypes, Url!AfterRun, Url!Urls
    <3>2. runTimer.prompt \in Prompts \cup {None} /\ runTimer.workflow \in Workflows \cup {None}
      BY <2>1 DEF Url!Closures
    <3>3. submitted' \in Seq(Url!Submits) /\ Url!ByUrl' = {Len(submitted) + 1}
      BY <2>1, <2>3, <3>2, UrlSubmits DEF UrlInv
    <3> QED BY <2>1, <3>1, <3>3 DEF UrlInv, UrlTypes, Url!RunsOnce
  <2> QED BY <1>3, <2>2, <2>3 DEF Url!RunTimerFires
<1>4. CASE \E p \in Prompts, w \in Workflows \cup {None} : Url!UserSubmits(p, w)
  <2>1. PICK p \in Prompts, w \in Workflows \cup {None} : Url!UserSubmits(p, w)
    BY <1>4
  <2>2. submitted' \in Seq(Url!Submits) /\ Url!ByUrl' = Url!ByUrl
    BY <2>1, UrlSubmits DEF UrlInv, Url!UserSubmits
  <2> QED BY <2>1, <2>2 DEF UrlInv, UrlTypes, Url!UserSubmits, Url!Or, Url!RunsOnce
<1>5. CASE \E w \in Workflows : Url!PickWorkflow(w)
  BY <1>5 DEF UrlInv, UrlTypes, Url!PickWorkflow, Url!ByUrl, Url!RunsOnce
<1> QED BY <1>1, <1>2, <1>3, <1>4, <1>5 DEF Url!Next

LEMMA UrlInit == Url!Init => UrlInv /\ Url!TypeOK
<1> SUFFICES ASSUME Url!Init PROVE UrlInv /\ Url!TypeOK
  OBVIOUS
<1>1. MaxUrlActs \in Nat /\ FirstWorkflow \in Workflows
  BY PagePartsAssumption DEF Url!UrlRunAssumption
<1>2. UrlTypes /\ submitted = <<>> /\ loaded = url
  BY <1>1, EmptySeq DEF Url!Init, UrlTypes
<1>3. Url!ByUrl = {} /\ runTimer = None
  BY <1>2, EmptySeq DEF Url!ByUrl, Url!Init
<1> QED BY <1>1, <1>2, <1>3 DEF UrlInv, UrlTypes, Url!RunsOnce, Url!Init, Url!TypeOK

LEMMA UrlTyped ==
    UrlInv /\ Url!TypeOK /\ [Url!Next]_(Url!vars) => Url!TypeOK'
<1> SUFFICES ASSUME UrlInv, Url!TypeOK, [Url!Next]_(Url!vars) PROVE Url!TypeOK'
  OBVIOUS
<1>1. UrlTypes'
  BY UrlNext DEF UrlInv
<1>2. loaded' = loaded
  BY DEF Url!Next, Url!vars, Url!ApplyUrl, Url!RunTimerFires, Url!UserSubmits, Url!PickWorkflow
<1>3. changed' \in BOOLEAN
  <2>1. CASE Url!ApplyUrl
    BY <2>1 DEF Url!ApplyUrl, Url!Changes, Url!TypeOK, Url!Urls
  <2>2. CASE Url!RunTimerFires
    BY <2>2 DEF Url!RunTimerFires, Url!TypeOK
  <2> QED BY <2>1, <2>2 DEF Url!Next, Url!vars, Url!UserSubmits, Url!PickWorkflow, Url!TypeOK
<1>4. urlActs' \in 0..MaxUrlActs
  <2>1. MaxUrlActs \in Nat
    BY PagePartsAssumption DEF Url!UrlRunAssumption
  <2>2. urlActs' = urlActs \/ (urlActs < MaxUrlActs /\ urlActs' = urlActs + 1)
    BY DEF Url!Next, Url!vars, Url!ApplyUrl, Url!RunTimerFires, Url!UserSubmits, Url!PickWorkflow
  <2> QED BY <2>1, <2>2 DEF Url!TypeOK
<1> QED BY <1>1, <1>2, <1>3, <1>4 DEF UrlTypes, Url!TypeOK

(* The page opened with run in its URL (the effect on searchParams): for    *)
(* any prompts, workflows and number of changes, it submits by itself at    *)
(* most once, however often the effect runs again and sets its timer anew.  *)
THEOREM UrlRunsOnce == ASSUME Url!UrlRunAssumption PROVE Url!Spec => []RunsOnce
<1>1. Url!Init => UrlInv
  BY UrlInit
<1>2. UrlInv => RunsOnce
  BY DEF UrlInv, RunsOnce
<1> QED BY <1>1, <1>2, UrlNext, PTL DEF Url!Spec

-----------------------------------------------------------------------------
(* The curves of the light sensors: every curve under way, stored, loaded,  *)
(* edited or saved, was made from its own sensor's.                         *)

OwnSettings == {all \in Light!Settings : \A s \in Sensors : all[s].of = s}
LightCounts == changes \in 0..MaxChanges /\ saved \in 0..MaxSaves
LightCurves ==
    /\ stored \in OwnSettings /\ settings \in OwnSettings \cup {None}
    /\ selectedSensor \in Sensors \cup {None}
    /\ (selectedSensor # None => settings # None)
    /\ (selectedSensor = None => points = None)
    /\ (selectedSensor # None => points \in Light!Curves /\ points.of = selectedSensor)
OwnLoads == \A l \in loads : l \in Light!Loads /\ l.got \in OwnSettings \cup {None}
OwnSaves == \A a \in saves : a \in Light!Saves /\ a.points.of = a.sensor
LightInv == LightCounts /\ LightCurves /\ OwnLoads /\ OwnSaves

LEMMA LightNext ==
    ASSUME Light!LightSenseAssumption, LightInv, [Light!Next]_(Light!vars)
    PROVE  LightInv'
<1> USE DEF LightInv
<1>1. CASE UNCHANGED Light!vars
  BY <1>1 DEF Light!vars, LightCounts, LightCurves, OwnLoads, OwnSaves
<1>2. CASE \E s \in Sensors : Light!SelectSensor(s)
  <2>1. PICK s \in Sensors : Light!SelectSensor(s)
    BY <1>2
  <2>2. UNCHANGED <<stored, settings, loads, saves, changes, saved>>
    BY <2>1 DEF Light!SelectSensor, Light!counts
  <2>3. selectedSensor' = s /\ points' = (IF s = None THEN None ELSE settings[s])
    BY <2>1 DEF Light!SelectSensor, Light!Shown
  <2>4. settings \in OwnSettings
    BY <2>1 DEF Light!SelectSensor, LightCurves
  <2>5. settings[s] \in Light!Curves /\ settings[s].of = s
    BY <2>4 DEF OwnSettings, Light!Settings
  <2>6. LightCurves'
    BY <2>1, <2>2, <2>3, <2>5 DEF LightCurves, Light!SelectSensor
  <2> QED BY <2>2, <2>6 DEF LightCounts, OwnLoads, OwnSaves
<1>3. CASE Light!ChangePoints
  <2>1. /\ points # None /\ changes < MaxChanges /\ changes' = changes + 1
        /\ points' = [points EXCEPT !.rev = changes + 1]
        /\ UNCHANGED <<stored, settings, selectedSensor, loads, saves, saved>>
    BY <1>3 DEF Light!ChangePoints
  <2>2. changes + 1 \in 0..MaxChanges
    BY <2>1 DEF LightCounts, Light!LightSenseAssumption
  <2>3. selectedSensor # None /\ points \in Light!Curves /\ points.of = selectedSensor
    BY <2>1 DEF LightCurves
  <2>4. points' \in Light!Curves /\ points'.of = selectedSensor
    BY <2>1, <2>2, <2>3 DEF Light!Curves
  <2> QED BY <2>1, <2>2, <2>3, <2>4 DEF LightCounts, LightCurves, OwnLoads, OwnSaves
<1>4. CASE Light!ToggleEditing \/ Light!LoadSensorData
  BY <1>4 DEF Light!ToggleEditing, Light!LoadSensorData, Light!counts,
              LightCounts, LightCurves, OwnLoads, OwnSaves
<1>5. CASE Light!HandleSave
  <2> DEFINE a == [id |-> saved + 1, sensor |-> selectedSensor, points |-> points, st |-> "put"]
  <2>1. /\ selectedSensor # None /\ saved < MaxSaves /\ saved' = saved + 1
        /\ saves' = saves \cup {a}
        /\ UNCHANGED <<stored, settings, selectedSensor, points, loads, changes>>
    BY <1>5 DEF Light!HandleSave
  <2>2. saved + 1 \in 1..MaxSaves /\ saved + 1 \in 0..MaxSaves
    BY <2>1 DEF LightCounts, Light!LightSenseAssumption
  <2>3. a \in Light!Saves /\ a.points.of = a.sensor
    BY <2>1, <2>2 DEF LightCurves, Light!Saves
  <2> HIDE DEF a
  <2> QED BY <2>1, <2>2, <2>3 DEF LightCounts, LightCurves, OwnLoads, OwnSaves
<1>6. ASSUME NEW a \in saves, NEW st \in {"stored", "reloading"}, Light!Becomes(a, st)
      PROVE  OwnSaves'
  <2> DEFINE b == [a EXCEPT !.st = st]
  <2>1. saves' = (saves \ {a}) \cup {b}
    BY <1>6 DEF Light!Becomes
  <2>2. b \in Light!Saves /\ b.points = a.points /\ b.sensor = a.sensor
    BY DEF OwnSaves, Light!Saves
  <2> HIDE DEF b
  <2> QED BY <2>1, <2>2 DEF OwnSaves
<1>7. CASE \E a \in saves : Light!Stored(a) \/ Light!SaveFails(a) \/ Light!Reloads(a)
  <2>1. PICK a \in saves : Light!Stored(a) \/ Light!SaveFails(a) \/ Light!Reloads(a)
    BY <1>7
  <2>2. a \in Light!Saves /\ a.points.of = a.sensor
    BY DEF OwnSaves
  <2>3. UNCHANGED <<settings, selectedSensor, points, changes, saved>>
    BY <2>1 DEF Light!Stored, Light!SaveFails, Light!Reloads, Light!counts
  <2>4. OwnSaves'
    BY <1>6, <2>1 DEF Light!Stored, Light!SaveFails, Light!Reloads, OwnSaves
  <2>5. stored' \in OwnSettings
    <3>1. CASE Light!Stored(a)
      <4>1. stored' = [stored EXCEPT ![a.sensor] = a.points]
        BY <3>1 DEF Light!Stored
      <4>2. a.sensor \in Sensors /\ a.points \in Light!Curves
        BY <2>2 DEF Light!Saves
      <4> QED BY <2>2, <4>1, <4>2 DEF LightCurves, OwnSettings, Light!Settings
    <3> QED BY <2>1, <3>1 DEF Light!SaveFails, Light!Reloads, LightCurves
  <2>6. OwnLoads'
    <3>1. CASE Light!Reloads(a)
      <4> DEFINE l == [id |-> a.id, got |-> None]
      <4>1. loads' = loads \cup {l}
        BY <3>1 DEF Light!Reloads
      <4>2. a.id \in 0..MaxSaves
        BY <2>2 DEF Light!Saves
      <4>3. l \in Light!Loads /\ l.got = None
        BY <4>2 DEF Light!Loads
      <4> HIDE DEF l
      <4> QED BY <4>1, <4>3 DEF OwnLoads
    <3> QED BY <2>1, <3>1 DEF Light!Stored, Light!SaveFails, OwnLoads
  <2> QED BY <2>3, <2>4, <2>5, <2>6 DEF LightCounts, LightCurves
<1>8. CASE \E l \in loads : Light!LoadServed(l) \/ Light!LoadLands(l) \/ Light!LoadFails(l)
  <2>1. PICK l \in loads : Light!LoadServed(l) \/ Light!LoadLands(l) \/ Light!LoadFails(l)
    BY <1>8
  <2>2. l \in Light!Loads /\ l.got \in OwnSettings \cup {None}
    BY DEF OwnLoads
  <2>3. UNCHANGED <<stored, selectedSensor, changes, saved>> /\ saves' \subseteq saves
    BY <2>1 DEF Light!LoadServed, Light!LoadLands, Light!LoadFails, Light!counts
  <2>4. OwnLoads'
    <3>1. CASE Light!LoadServed(l)
      <4> DEFINE m == [l EXCEPT !.got = stored]
      <4>1. loads' = (loads \ {l}) \cup {m}
        BY <3>1 DEF Light!LoadServed
      <4>2. m \in Light!Loads /\ m.got \in OwnSettings
        BY <2>2 DEF LightCurves, OwnSettings, Light!Loads
      <4> HIDE DEF m
      <4> QED BY <4>1, <4>2 DEF OwnLoads
    <3> QED BY <2>1, <3>1 DEF Light!LoadLands, Light!LoadFails, OwnLoads
  <2>5. LightCurves'
    <3>1. CASE Light!LoadLands(l)
      <4>1. /\ settings' = l.got /\ l.got \in OwnSettings /\ l.got # None
            /\ points' = (IF selectedSensor = None THEN None ELSE l.got[selectedSensor])
        BY <2>2, <3>1 DEF Light!LoadLands, Light!Shown
      <4>2. \A s \in Sensors : l.got[s] \in Light!Curves /\ l.got[s].of = s
        BY <4>1 DEF OwnSettings, Light!Settings
      <4> QED BY <2>3, <4>1, <4>2 DEF LightCurves
    <3> QED BY <2>1, <2>3, <3>1 DEF Light!LoadServed, Light!LoadFails, LightCurves
  <2> QED BY <2>3, <2>4, <2>5 DEF LightCounts, OwnSaves
<1> QED BY <1>1, <1>2, <1>3, <1>4, <1>5, <1>7, <1>8 DEF Light!Next

LEMMA LightInit == Light!Init => LightInv /\ Light!TypeOK
<1> SUFFICES ASSUME Light!Init PROVE LightInv /\ Light!TypeOK
  OBVIOUS
<1>1. 0 \in 0..MaxChanges /\ 0 \in 0..MaxSaves /\ 0 \in 0..MaxRefusals
  BY PagePartsAssumption DEF Light!LightSenseAssumption
<1>2. stored \in OwnSettings /\ stored \in Light!Settings
  BY <1>1 DEF Light!Init, OwnSettings, Light!Settings, Light!Curves
<1>3. loads \subseteq Light!Loads
  BY <1>1 DEF Light!Init, Light!Loads
<1>4. OwnLoads /\ OwnSaves
  BY <1>3 DEF Light!Init, OwnLoads, OwnSaves
<1> QED BY <1>1, <1>2, <1>3, <1>4 DEF Light!Init, Light!TypeOK, LightInv, LightCounts, LightCurves

LEMMA LightTyped ==
    LightInv /\ Light!TypeOK /\ [Light!Next]_(Light!vars) => Light!TypeOK'
<1> SUFFICES ASSUME LightInv, Light!TypeOK, [Light!Next]_(Light!vars) PROVE Light!TypeOK'
  OBVIOUS
<1>1. LightInv'
  BY LightNext, PagePartsAssumption
<1>2. MaxRefusals \in Nat /\ None' = None
  BY PagePartsAssumption DEF Light!LightSenseAssumption
<1>4. /\ isEditing' \in BOOLEAN /\ sensorData' \in {"known", None}
      /\ refusals' \in 0..MaxRefusals
  <2>1. CASE \/ \E s \in Sensors : Light!SelectSensor(s)
             \/ Light!ChangePoints \/ Light!ToggleEditing \/ Light!HandleSave
             \/ Light!LoadSensorData
    BY <2>1 DEF Light!SelectSensor, Light!ChangePoints, Light!ToggleEditing, Light!HandleSave,
                Light!LoadSensorData, Light!counts, Light!TypeOK
  <2>2. ASSUME NEW a \in saves, Light!Stored(a) \/ Light!SaveFails(a) \/ Light!Reloads(a)
        PROVE  /\ UNCHANGED <<isEditing, sensorData>>
               /\ refusals' = refusals \/ (refusals < MaxRefusals /\ refusals' = refusals + 1)
    BY <2>2 DEF Light!Stored, Light!SaveFails, Light!Reloads, Light!counts
  <2>3. ASSUME NEW l \in loads, Light!LoadServed(l) \/ Light!LoadLands(l) \/ Light!LoadFails(l)
        PROVE  /\ isEditing' \in BOOLEAN /\ UNCHANGED sensorData
               /\ refusals' = refusals \/ (refusals < MaxRefusals /\ refusals' = refusals + 1)
    BY <2>3 DEF Light!LoadServed, Light!LoadLands, Light!LoadFails, Light!counts, Light!TypeOK
  <2> QED BY <1>2, <2>1, <2>2, <2>3 DEF Light!Next, Light!vars, Light!TypeOK
<1>5. stored' \in Light!Settings /\ settings' \in Light!Settings \cup {None}
  BY <1>1 DEF LightInv, LightCurves, OwnSettings
<1>6. points' \in Light!Curves \cup {None} /\ (points' = None) = (selectedSensor' = None)
  BY <1>1, PagePartsAssumption DEF LightInv, LightCurves, Light!LightSenseAssumption
<1>7. loads' \subseteq Light!Loads /\ saves' \subseteq Light!Saves
  BY <1>1 DEF LightInv, OwnLoads, OwnSaves
<1> QED BY <1>1, <1>4, <1>5, <1>6, <1>7 DEF Light!TypeOK, LightInv, LightCounts, LightCurves

(* The page of the light curves (handleSave, loadSettings and the effect on *)
(* the selected sensor): for any sensors, changes and requests, the points  *)
(* stored for a sensor were made from that sensor's, and so were those in   *)
(* the editor, however selecting, saving and loading overlap.               *)
THEOREM PointsAreKeptApart ==
    ASSUME Light!LightSenseAssumption
    PROVE  Light!Spec => []PointsAreOwn
<1>1. Light!Init => LightInv
  BY LightInit
<1>2. LightInv => PointsAreOwn
  BY DEF LightInv, LightCurves, OwnSettings, PointsAreOwn, Light!PointsAreOwn
<1> QED BY <1>1, <1>2, LightNext, PTL DEF Light!Spec

-----------------------------------------------------------------------------
(* The zoom of the picture viewer.                                          *)

ZoomInv == tapped \in [viewer : BOOLEAN, zoomed : BOOLEAN] /\ Zoom!ViewIsOwn

LEMMA ZoomNext == ZoomInv /\ [Zoom!Next]_(Zoom!vars) => ZoomInv'
<1> SUFFICES ASSUME ZoomInv, [Zoom!Next]_(Zoom!vars) PROVE ZoomInv'
  OBVIOUS
<1> USE DEF ZoomInv, Zoom!ViewIsOwn
<1>1. CASE UNCHANGED <<zoom, one, tapped>>
  BY <1>1
<1>2. CASE Zoom!ZoomEnds
  BY <1>2 DEF Zoom!ZoomEnds
<1>3. CASE Zoom!ActionAnswered
  BY <1>1, <1>2, <1>3 DEF Zoom!ActionAnswered
<1>4. CASE Zoom!ZoomIn \/ Zoom!HandleTap
  <2>1. zoom = None /\ one' = one
    BY <1>4 DEF Zoom!ZoomIn, Zoom!HandleTap, Zoom!InView
  <2>2. tapped' \in [viewer : BOOLEAN, zoomed : BOOLEAN] /\ tapped'.zoomed = tapped.zoomed
    BY <1>4 DEF Zoom!ZoomIn, Zoom!HandleTap, Zoom!gesture
  <2> QED BY <2>1, <2>2
<1>5. CASE Zoom!FrameRuns
  BY <1>5 DEF Zoom!FrameRuns
<1>6. CASE Zoom!FingerUp \/ Zoom!DoubleClick
  BY <1>6 DEF Zoom!FingerUp, Zoom!DoubleClick, Zoom!InZoom, Zoom!gesture
<1>7. CASE Zoom!TimePasses \/ Zoom!Resize
  <2>1. one' = one /\ zoom' = zoom
    BY <1>7 DEF Zoom!TimePasses, Zoom!Resize
  <2>2. tapped' \in [viewer : BOOLEAN, zoomed : BOOLEAN] /\ tapped'.zoomed = FALSE
    <3>1. CASE Zoom!TimePasses
      BY <3>1 DEF Zoom!TimePasses
    <3>2. CASE Zoom!Resize
      BY <3>2 DEF Zoom!Resize
    <3> QED BY <1>7, <3>1, <3>2
  <2> QED BY <2>1, <2>2
<1> QED BY <1>1, <1>2, <1>3, <1>4, <1>5, <1>6, <1>7
    DEF Zoom!Next, Zoom!vars, Zoom!gesture, Zoom!Open, Zoom!Turn, Zoom!Flip, Zoom!AskAction,
        Zoom!PinchMoves, Zoom!FingerDown, Zoom!PinchesOut, Zoom!CloseViewer, Zoom!CloseZoom,
        Zoom!TimerCloses

LEMMA ZoomInit == Zoom!Init => ZoomInv /\ Zoom!TypeOK
<1> SUFFICES ASSUME Zoom!Init PROVE ZoomInv /\ Zoom!TypeOK
  OBVIOUS
<1>1. 0 \in 0..MaxTouches
  BY PagePartsAssumption DEF Zoom!LoopeZoomAssumption
<1>2. tapped \in [viewer : BOOLEAN, zoomed : BOOLEAN] /\ ~tapped.zoomed
  BY DEF Zoom!Init
<1>3. fingers \in [down : 0..2, pinch : BOOLEAN]
  BY DEF Zoom!Init, Zoom!Up
<1>4. {flipped, one, mobile, closing, asked} \subseteq BOOLEAN /\ ~one
  BY DEF Zoom!Init
<1> QED BY <1>1, <1>2, <1>3, <1>4 DEF Zoom!Init, Zoom!TypeOK, ZoomInv, Zoom!ViewIsOwn

LEMMA ZoomTyped ==
    ZoomInv /\ Zoom!TypeOK /\ [Zoom!Next]_(Zoom!vars) => Zoom!TypeOK'
<1> SUFFICES ASSUME ZoomInv, Zoom!TypeOK, [Zoom!Next]_(Zoom!vars) PROVE Zoom!TypeOK'
  OBVIOUS
<1>1. tapped' \in [viewer : BOOLEAN, zoomed : BOOLEAN]
  BY ZoomNext DEF ZoomInv
<1>2. {viewed', zoom', frame'} \subseteq Pictures \cup {None}
  <2>1. CASE \E p \in Pictures : Zoom!Open(p) \/ Zoom!Turn(p)
    BY <2>1 DEF Zoom!Open, Zoom!Turn, Zoom!later, Zoom!TypeOK
  <2>2. CASE Zoom!CloseViewer \/ Zoom!ActionAnswered \/ Zoom!CloseZoom \/ Zoom!TimerCloses
    BY <2>2 DEF Zoom!CloseViewer, Zoom!ActionAnswered, Zoom!CloseZoom, Zoom!TimerCloses,
                Zoom!ZoomEnds, Zoom!later, Zoom!TypeOK
  <2>3. CASE Zoom!ZoomIn \/ Zoom!HandleTap \/ Zoom!PinchMoves \/ Zoom!FrameRuns
    BY <2>3 DEF Zoom!ZoomIn, Zoom!HandleTap, Zoom!PinchMoves, Zoom!FrameRuns, Zoom!later,
                Zoom!TypeOK
  <2> QED BY <2>1, <2>2, <2>3 DEF Zoom!Next, Zoom!vars, Zoom!Flip, Zoom!AskAction,
             Zoom!FingerDown, Zoom!PinchesOut, Zoom!FingerUp, Zoom!DoubleClick, Zoom!TimePasses,
             Zoom!Resize, Zoom!later, Zoom!TypeOK
<1>3. {flipped', one', mobile', closing', asked'} \subseteq BOOLEAN
  <2>1. CASE \/ Zoom!CloseViewer \/ Zoom!Flip \/ Zoom!AskAction \/ Zoom!ActionAnswered
             \/ Zoom!CloseZoom \/ Zoom!TimerCloses
    BY <2>1 DEF Zoom!CloseViewer, Zoom!Flip, Zoom!AskAction, Zoom!ActionAnswered, Zoom!CloseZoom,
                Zoom!TimerCloses, Zoom!ZoomEnds, Zoom!later, Zoom!TypeOK
  <2>2. CASE \/ Zoom!FingerDown \/ Zoom!PinchesOut \/ Zoom!FingerUp \/ Zoom!DoubleClick
             \/ Zoom!TimePasses \/ Zoom!Resize
    BY <2>2 DEF Zoom!FingerDown, Zoom!PinchesOut, Zoom!FingerUp, Zoom!DoubleClick,
                Zoom!TimePasses, Zoom!Resize, Zoom!later, Zoom!TypeOK
  <2> QED BY <2>1, <2>2 DEF Zoom!Next, Zoom!vars, Zoom!Open, Zoom!Turn, Zoom!ZoomIn,
             Zoom!HandleTap, Zoom!PinchMoves, Zoom!FrameRuns, Zoom!later, Zoom!TypeOK
<1>4. fingers' \in [down : 0..2, pinch : BOOLEAN] /\ zoomTouches' \in 0..MaxTouches
  <2>1. MaxTouches \in Nat /\ Zoom!Up \in [down : 0..2, pinch : BOOLEAN]
    BY PagePartsAssumption DEF Zoom!LoopeZoomAssumption, Zoom!Up
  <2>2. CASE Zoom!CloseViewer \/ Zoom!ActionAnswered \/ Zoom!CloseZoom \/ Zoom!TimerCloses
    BY <2>1, <2>2 DEF Zoom!CloseViewer, Zoom!ActionAnswered, Zoom!CloseZoom, Zoom!TimerCloses,
                      Zoom!ZoomEnds, Zoom!TypeOK
  <2>3. CASE Zoom!FingerDown
    BY <2>1, <2>3 DEF Zoom!FingerDown, Zoom!TypeOK
  <2>4. CASE Zoom!FingerUp
    BY <2>1, <2>4 DEF Zoom!FingerUp, Zoom!TypeOK
  <2> QED BY <2>2, <2>3, <2>4 DEF Zoom!Next, Zoom!vars, Zoom!Open, Zoom!Turn, Zoom!Flip,
             Zoom!AskAction, Zoom!ZoomIn, Zoom!HandleTap, Zoom!PinchMoves, Zoom!FrameRuns,
             Zoom!PinchesOut, Zoom!DoubleClick, Zoom!TimePasses, Zoom!Resize, Zoom!gesture,
             Zoom!TypeOK
<1> QED BY <1>1, <1>2, <1>3, <1>4 DEF Zoom!TypeOK

(* The picture viewer (LoopeModal): for any pictures and gestures, no way   *)
(* out of a zoom, its closing timer and the late answer to a deletion       *)
(* included, leaves the 1:1 view or half a double tap to the next zoom.     *)
THEOREM ZoomStartsAfresh == Zoom!Spec => []ViewIsOwn
<1>1. Zoom!Init => ZoomInv
  BY ZoomInit
<1>2. ZoomInv => ViewIsOwn
  BY DEF ZoomInv, ViewIsOwn
<1> QED BY <1>1, <1>2, ZoomNext, PTL DEF Zoom!Spec

-----------------------------------------------------------------------------
(* The job messages of the main page: every timer pending is known to the   *)
(* list, so every change of the list clears them all.                       *)

StatusesInv ==
    /\ received \in Nat /\ series \in Jobs \cup {None}
    /\ jobs \in [Jobs -> Statuses!Statuses \cup {None}]
    /\ hideTimers \subseteq Jobs \X Statuses!Messages
    /\ \A t \in hideTimers : /\ jobs[t[1]] \in Statuses!Statuses /\ jobs[t[1]].visible
                             /\ jobs[t[1]].msg = t[2] /\ jobs[t[1]].timer = t[2]

LEMMA AllAreCleared ==
    ASSUME Statuses!JobStatusesAssumption, StatusesInv
    PROVE  Statuses!Cleared(hideTimers) = {}
<1>1. ASSUME NEW t \in hideTimers PROVE t \in Statuses!Known(jobs)
  <2>1. t \in Jobs \X Statuses!Messages /\ jobs[t[1]] # None /\ jobs[t[1]].timer = t[2]
    BY DEF StatusesInv, Statuses!JobStatusesAssumption
  <2> QED BY <2>1 DEF Statuses!Known
<1> QED BY <1>1 DEF Statuses!Cleared

LEMMA MessageInv ==
    ASSUME Statuses!JobStatusesAssumption, StatusesInv, NEW j \in Jobs,
           NEW text \in Statuses!Texts, Statuses!Message(j, text), series' \in Jobs \cup {None}
    PROVE  StatusesInv'
<1> DEFINE s == Statuses!Status(received + 1, text)
<1>1. /\ received < MaxMessages /\ received' = received + 1
      /\ jobs' = [jobs EXCEPT ![j] = s] /\ hideTimers' = {<<j, received + 1>>}
  BY AllAreCleared DEF Statuses!Message
<1>2. received + 1 \in Statuses!Messages /\ received' \in Nat
  BY <1>1 DEF StatusesInv, Statuses!JobStatusesAssumption, Statuses!Messages
<1>3. s \in Statuses!Statuses /\ s.visible /\ s.msg = received + 1 /\ s.timer = received + 1
  BY <1>2 DEF Statuses!Status, Statuses!Statuses
<1> HIDE DEF s
<1>4. jobs' \in [Jobs -> Statuses!Statuses \cup {None}] /\ jobs'[j] = s
  BY <1>1, <1>3 DEF StatusesInv
<1> QED BY <1>1, <1>2, <1>3, <1>4 DEF StatusesInv

LEMMA StatusesNext ==
    ASSUME Statuses!JobStatusesAssumption, StatusesInv, [Statuses!Next]_(Statuses!vars)
    PROVE  StatusesInv'
<1>1. CASE UNCHANGED <<jobs, hideTimers, received, series>>
  BY <1>1 DEF StatusesInv
<1>2. ASSUME NEW j \in Jobs, Statuses!Receive(j) PROVE StatusesInv'
  BY <1>2, MessageInv DEF Statuses!Receive, StatusesInv
<1>3. ASSUME NEW j \in Jobs, Statuses!SimulateMessage(j) \/ Statuses!TestIndicator(j)
      PROVE  StatusesInv'
  <2>1. "text" \in Statuses!Texts /\ "stages" \in Statuses!Texts
    BY DEF Statuses!Texts
  <2> QED BY <1>3, <2>1, MessageInv DEF Statuses!SimulateMessage, Statuses!TestIndicator, StatusesInv
<1>4. CASE Statuses!SeriesTick
  <2>1. "text" \in Statuses!Texts /\ series \in Jobs /\ series' \in Jobs \cup {None}
    BY <1>4 DEF Statuses!Texts, Statuses!SeriesTick, StatusesInv
  <2> QED BY <1>4, <2>1, MessageInv DEF Statuses!SeriesTick
<1>5. ASSUME NEW j \in Jobs, Statuses!SimulateProgress(j) PROVE StatusesInv'
  BY <1>5 DEF Statuses!SimulateProgress, StatusesInv
<1>6. ASSUME NEW j \in Jobs, NEW m \in Statuses!Messages, Statuses!HideJob(j, m)
      PROVE  StatusesInv'
  <2>1. jobs' = [jobs EXCEPT ![j] = None] /\ hideTimers' = {} /\ UNCHANGED <<received, series>>
    BY <1>6, AllAreCleared DEF Statuses!HideJob
  <2> QED BY <2>1 DEF StatusesInv
<1>7. ASSUME NEW j \in Jobs, Statuses!CloseJob(j) PROVE StatusesInv'
  <2> DEFINE s == [jobs[j] EXCEPT !.visible = FALSE, !.timer = None]
  <2>1. jobs[j] \in Statuses!Statuses /\ hideTimers' = {} /\ UNCHANGED <<received, series>>
    BY <1>7, AllAreCleared DEF Statuses!CloseJob, Statuses!Shown, StatusesInv
  <2>2. s \in Statuses!Statuses
    BY <2>1 DEF Statuses!Statuses
  <2>3. jobs' = [jobs EXCEPT ![j] = s]
    BY <1>7, <2>1 DEF Statuses!CloseJob, StatusesInv
  <2> HIDE DEF s
  <2> QED BY <2>1, <2>2, <2>3 DEF StatusesInv
<1> QED BY <1>1, <1>2, <1>3, <1>4, <1>5, <1>6, <1>7
    DEF Statuses!Next, Statuses!vars, Statuses!ToggleStatusPanel, Statuses!Open, Statuses!Drop,
        Statuses!Retry

LEMMA StatusesInit == Statuses!Init => StatusesInv /\ Statuses!TypeOK
<1> SUFFICES ASSUME Statuses!Init PROVE StatusesInv /\ Statuses!TypeOK
  OBVIOUS
<1>1. 0 \in 0..MaxMessages /\ 0 \in 0..MaxDrops
  BY PagePartsAssumption DEF Statuses!JobStatusesAssumption
<1>2. jobs \in [Jobs -> Statuses!Statuses \cup {None}]
  BY DEF Statuses!Init
<1>3. StatusesInv
  BY <1>2 DEF Statuses!Init, StatusesInv
<1> QED BY <1>1, <1>2, <1>3 DEF Statuses!Init, Statuses!TypeOK

LEMMA StatusesTyped ==
    StatusesInv /\ Statuses!TypeOK /\ [Statuses!Next]_(Statuses!vars) => Statuses!TypeOK'
<1> SUFFICES ASSUME StatusesInv, Statuses!TypeOK, [Statuses!Next]_(Statuses!vars)
             PROVE  Statuses!TypeOK'
  OBVIOUS
<1>1. StatusesInv' /\ MaxMessages \in Nat /\ MaxDrops \in Nat
  BY StatusesNext, PagePartsAssumption DEF Statuses!JobStatusesAssumption
<1>2. received' = received \/ (received < MaxMessages /\ received' = received + 1)
  BY DEF Statuses!Next, Statuses!vars, Statuses!Receive, Statuses!CloseJob,
         Statuses!SimulateMessage, Statuses!TestIndicator, Statuses!SimulateProgress,
         Statuses!HideJob, Statuses!ToggleStatusPanel, Statuses!SeriesTick, Statuses!Open,
         Statuses!Drop, Statuses!Retry, Statuses!Message
<1>3. expanded' \in BOOLEAN
  BY DEF Statuses!Next, Statuses!vars, Statuses!Receive, Statuses!CloseJob,
         Statuses!SimulateMessage, Statuses!TestIndicator, Statuses!SimulateProgress,
         Statuses!HideJob, Statuses!ToggleStatusPanel, Statuses!SeriesTick, Statuses!Open,
         Statuses!Drop, Statuses!Retry, Statuses!TypeOK
<1>4. /\ socket' \in {"connecting", "open", "closed"} /\ drops' \in 0..MaxDrops
      /\ retryNoted' \in BOOLEAN /\ retryDue' \in BOOLEAN /\ (retryDue' => retryNoted')
  <2>1. CASE Statuses!Open
    BY <2>1 DEF Statuses!Open, Statuses!TypeOK
  <2>2. CASE Statuses!Retry
    BY <2>2 DEF Statuses!Retry, Statuses!TypeOK
  <2>3. CASE Statuses!Drop
    <3>1. socket' = "closed" /\ drops' \in 0..MaxDrops
      BY <1>1, <2>3 DEF Statuses!Drop, Statuses!TypeOK
    <3>2. CASE retryNoted
      BY <2>3, <3>1, <3>2 DEF Statuses!Drop, Statuses!TypeOK
    <3>3. CASE ~retryNoted
      BY <2>3, <3>1, <3>3 DEF Statuses!Drop
    <3> QED BY <3>2, <3>3
  <2>4. CASE UNCHANGED Statuses!connection
    BY <2>4 DEF Statuses!connection, Statuses!TypeOK
  <2> QED BY <2>1, <2>2, <2>3, <2>4 DEF Statuses!Next, Statuses!vars, Statuses!Receive,
             Statuses!CloseJob, Statuses!SimulateMessage, Statuses!TestIndicator,
             Statuses!SimulateProgress, Statuses!HideJob, Statuses!ToggleStatusPanel,
             Statuses!SeriesTick, Statuses!connection
<1> QED BY <1>1, <1>2, <1>3, <1>4 DEF StatusesInv, Statuses!TypeOK

(* The job messages of the main page (handleJobStatusMessage and the        *)
(* cleanup of its effect): for any jobs and messages, a timer that is       *)
(* pending belongs to the message its job shows, never to one that was      *)
(* replaced or closed.                                                      *)
THEOREM JobTimersAreCurrent ==
    ASSUME Statuses!JobStatusesAssumption
    PROVE  Statuses!Spec => []TimersAreCurrent
<1>1. Statuses!Init => StatusesInv
  BY StatusesInit
<1>2. StatusesInv => TimersAreCurrent
  BY DEF StatusesInv, TimersAreCurrent, Statuses!TimersAreCurrent, Statuses!Shown, Statuses!JobStatusesAssumption
<1> QED BY <1>1, <1>2, StatusesNext, PTL DEF Statuses!Spec

-----------------------------------------------------------------------------
(* The media of a screen, whatever types T are published and whatever checks *)
(* Q are under way together.                                                 *)

LEMMA NewestType ==
    ASSUME NEW T, NEW Q, Media(T, Q)!DisplayMediaAssumption,
           NEW got \in [T -> Media(T, Q)!Times]
    PROVE  Media(T, Q)!Newest(got) \in Media(T, Q)!Times
<1> DEFINE v(ty) == IF ty \in T THEN got[ty] ELSE 0 - 1
<1>1. \A ty \in T : got[ty] \in Nat
  BY DEF Media!Times
<1>2. \E t \in Media(T, Q)!Times : /\ \E ty \in T : got[ty] = t
                             /\ \A ty \in T : got[ty] <= t
  <2>1. v("jpg") \in Int /\ v("JPG") \in Int /\ v("mp4") \in Int
    BY <1>1
  <2> HIDE DEF v
  <2>2. PICK top \in {"jpg", "JPG", "mp4"} : \A ty \in {"jpg", "JPG", "mp4"} : v(ty) <= v(top)
    <3> DEFINE a == v("jpg")
               b == v("JPG")
               c == v("mp4")
    <3>1. (a <= c /\ b <= c) \/ (a <= b /\ c <= b) \/ (b <= a /\ c <= a)
      BY <2>1
    <3>2. a <= a /\ b <= b /\ c <= c
      BY <2>1
    <3> QED BY <3>1, <3>2
  <2>3. T \subseteq {"jpg", "JPG", "mp4"} /\ T # {}
    BY DEF Media!DisplayMediaAssumption
  <2>4. top \in T
    <3>1. PICK ty \in T : ty \in {"jpg", "JPG", "mp4"}
      BY <2>3
    <3>2. v(ty) <= v(top) /\ v(ty) = got[ty] /\ got[ty] \in Nat
      BY <1>1, <2>2, <3>1 DEF v
    <3>3. top \notin T => v(top) = 0 - 1
      BY DEF v
    <3> HIDE DEF v
    <3> QED BY <3>2, <3>3
  <2>5. \A ty \in T : got[ty] <= got[top]
    BY <2>2, <2>3, <2>4 DEF v
  <2> QED BY <2>4, <2>5
<1> QED BY <1>2 DEF Media!Newest

LEMMA SrcOfType ==
    ASSUME NEW T, NEW Q, Media(T, Q)!DisplayMediaAssumption,
           NEW got \in [T -> Media(T, Q)!Times]
    PROVE  Media(T, Q)!SrcOf(got) \in Media(T, Q)!Srcs
<1>1. Media(T, Q)!Newest(got) \in Media(T, Q)!Times
  BY NewestType
<1>2. Media(T, Q)!LatestType(got) \in {"jpg", "JPG", "mp4"}
  BY DEF Media!LatestType
<1> QED BY <1>1, <1>2 DEF Media!SrcOf, Media!Srcs

LEMMA LoadType ==
    ASSUME NEW T, NEW Q, Media(T, Q)!DisplayMediaAssumption, Media(T, Q)!TypeOK,
           NEW src \in Media(T, Q)!Srcs
    PROVE  Media(T, Q)!Load(src) \in [src : Media(T, Q)!Srcs, version : 0..MaxVersions]
<1>1. 0 \in 0..MaxVersions
  BY DEF Media!DisplayMediaAssumption
<1>2. src.type \in T => files[src.type].version \in 0..MaxVersions
  BY DEF Media!TypeOK
<1> QED BY <1>1, <1>2 DEF Media!Load

LEMMA ArriveType ==
    ASSUME NEW T, NEW Q, Media(T, Q)!DisplayMediaAssumption, Media(T, Q)!TypeOK,
           NEW src \in Media(T, Q)!Srcs, Media(T, Q)!Arrive(src, visible, fading)
    PROVE  /\ pending' \in Media(T, Q)!Srcs \cup {None}
           /\ visible' \in [src : Media(T, Q)!Srcs, version : 0..MaxVersions] \cup {None}
           /\ pending' = None \/ timer' = "fade"
           /\ fading' = (timer' # "none") /\ timer' \in {"none", "fade", "swap"}
           /\ shouldPlay' \in BOOLEAN
<1> DEFINE Looks == [src : Media(T, Q)!Srcs, version : 0..MaxVersions] \cup {None}
<1>1. Media(T, Q)!Load(src) \in Looks
  BY LoadType
<1>2. CASE visible = None
  <2>1. /\ visible' = Media(T, Q)!Load(src) /\ shouldPlay' = TRUE
        /\ pending' = pending /\ timer' = timer /\ fading' = fading
    BY <1>2 DEF Media!Arrive
  <2> QED BY <1>1, <2>1 DEF Media!TypeOK
<1>3. CASE visible # None /\ pending' = src
  <2>1. \/ /\ fading' = TRUE /\ timer' = "fade" /\ visible' = visible
           /\ shouldPlay' = shouldPlay
        \/ /\ visible' = visible /\ fading' = fading /\ pending' = pending /\ timer' = timer
           /\ shouldPlay' = shouldPlay
    BY <1>3 DEF Media!Arrive
  <2> QED BY <1>3, <2>1 DEF Media!TypeOK
<1>4. CASE visible # None /\ pending' # src
  <2>1. /\ visible' = visible /\ fading' = fading /\ pending' = pending /\ timer' = timer
        /\ shouldPlay' = shouldPlay
    BY <1>4 DEF Media!Arrive
  <2> QED BY <2>1 DEF Media!TypeOK
<1> QED BY <1>2, <1>3, <1>4

LEMMA AnswerType ==
    ASSUME NEW T, NEW Q, NEW c \in Media(T, Q)!Checks, NEW ty \in T,
           NEW t \in Media(T, Q)!Times
    PROVE  Media(T, Q)!Answer(c, ty, t) \in Media(T, Q)!Checks
  BY DEF Media!Answer, Media!Checks

LEMMA AskType ==
    ASSUME NEW T, NEW Q, Media(T, Q)!DisplayMediaAssumption
    PROVE  /\ Media(T, Q)!Ask \in Media(T, Q)!Checks /\ Media(T, Q)!Ask.open = "open"
           /\ Media(T, Q)!Idle \in Media(T, Q)!Checks
           /\ 0 \in Media(T, Q)!Times /\ 0 \in 0..MaxVersions /\ 0 \in 0..MaxUpsets
<1>1. 0 \in Media(T, Q)!Times /\ 0 \in 0..MaxVersions /\ 0 \in 0..MaxUpsets
  BY DEF Media!DisplayMediaAssumption, Media!Times
<1> QED BY <1>1 DEF Media!Ask, Media!Idle, Media!NoTimes, Media!Checks

LEMMA MediaInit ==
    ASSUME NEW T, NEW Q, Media(T, Q)!DisplayMediaAssumption, Media(T, Q)!Init
    PROVE  Media(T, Q)!TypeOK
<1>1. 1 \in Media(T, Q)!Times
  BY DEF Media!DisplayMediaAssumption, Media!Times
<1>2. files \in [T -> [version : 0..MaxVersions, t : Media(T, Q)!Times]]
  BY AskType DEF Media!Init
<1>3. mediaPolls \in [Q -> Media(T, Q)!Checks]
  BY AskType DEF Media!Init, Media!Fresh
<1> QED BY <1>1, <1>2, <1>3, AskType DEF Media!Init, Media!Fresh, Media!TypeOK

LEMMA MediaNext ==
    ASSUME NEW T, NEW Q, Media(T, Q)!DisplayMediaAssumption, Media(T, Q)!TypeOK,
           [Media(T, Q)!Next]_(Media(T, Q)!vars)
    PROVE  /\ Media(T, Q)!TypeOK'
           /\ Media(T, Q)!StaysNew
<1> USE DEF Media!StaysNew
<1>1. \A t \in Media(T, Q)!Times : t \in Nat /\ t >= t
  BY DEF Media!Times
<1>2. known >= known
  BY <1>1 DEF Media!TypeOK
<1>3. /\ MaxVersions \in Nat /\ MaxUpsets \in Nat /\ MaxClock \in Nat
  BY DEF Media!DisplayMediaAssumption
<1>4. ASSUME UNCHANGED Media(T, Q)!vars PROVE Media(T, Q)!TypeOK' /\ known' >= known
  BY <1>2, <1>4 DEF Media!vars, Media!TypeOK
<1>5. ASSUME Media(T, Q)!Reload PROVE Media(T, Q)!TypeOK' /\ initial'.open # "idle"
  <2>1. mediaUpsets' \in 0..MaxUpsets
    BY <1>3, <1>5 DEF Media!Reload, Media!TypeOK
  <2>2. mediaPolls' \in [Q -> Media(T, Q)!Checks]
    BY <1>5, AskType DEF Media!Reload
  <2> QED BY <1>5, <2>1, <2>2, AskType DEF Media!Reload, Media!server, Media!TypeOK
<1>6. ASSUME Media(T, Q)!Tick PROVE Media(T, Q)!TypeOK' /\ known' = known
  <2>1. clock' \in Media(T, Q)!Times
    BY <1>3, <1>6 DEF Media!Tick, Media!Times, Media!TypeOK
  <2> QED BY <1>6, <2>1 DEF Media!Tick, Media!media, Media!TypeOK
<1>7. ASSUME NEW ty \in T, NEW old \in Media(T, Q)!Times, Media(T, Q)!Copy(ty, old)
      PROVE  Media(T, Q)!TypeOK' /\ known' = known
  <2>1. published' \in 0..MaxVersions /\ published' = published + 1
    BY <1>3, <1>7 DEF Media!Copy, Media!TypeOK
  <2>2. files' \in [T -> [version : 0..MaxVersions, t : Media(T, Q)!Times]]
    BY <1>7, <2>1 DEF Media!Copy, Media!TypeOK
  <2> QED BY <1>7, <2>1, <2>2 DEF Media!Copy, Media!media, Media!TypeOK
<1>8. ASSUME Media(T, Q)!Touch PROVE Media(T, Q)!TypeOK' /\ known' = known
  <2>1. files' \in [T -> [version : 0..MaxVersions, t : Media(T, Q)!Times]]
    BY <1>8 DEF Media!Touch, Media!TypeOK
  <2>2. touched' \in Media(T, Q)!Times /\ clash' \in BOOLEAN
    BY <1>8 DEF Media!Touch, Media!TypeOK
  <2> QED BY <1>8, <2>1, <2>2 DEF Media!Touch, Media!media, Media!TypeOK
<1>9. ASSUME NEW ty \in T, NEW t \in Media(T, Q)!Times, Media(T, Q)!Answered(ty, t),
             Media(T, Q)!Count(t, ty)
      PROVE  mediaUpsets' \in 0..MaxUpsets
  BY <1>3, <1>9 DEF Media!Answered, Media!Count, Media!TypeOK
<1>10. ASSUME NEW ty \in T, Media(T, Q)!InitialAnswer(ty)
       PROVE  Media(T, Q)!TypeOK' /\ known' = known
  <2>1. initial' \in Media(T, Q)!Checks /\ mediaUpsets' \in 0..MaxUpsets
    BY <1>9, <1>10, AnswerType DEF Media!InitialAnswer, Media!TypeOK
  <2> QED BY <1>10, <2>1 DEF Media!InitialAnswer, Media!server, Media!media, Media!TypeOK
<1>11. ASSUME Media(T, Q)!InitialLands PROVE Media(T, Q)!TypeOK' /\ initial.open # "idle"
  <2>1. initial.got \in [T -> Media(T, Q)!Times]
    BY DEF Media!TypeOK, Media!Checks
  <2>2. known' \in Media(T, Q)!Times /\ current' \in Media(T, Q)!Srcs
    BY <1>11, <2>1, NewestType, SrcOfType DEF Media!InitialLands
  <2>3. /\ pending' \in Media(T, Q)!Srcs \cup {None}
        /\ visible' \in [src : Media(T, Q)!Srcs, version : 0..MaxVersions] \cup {None}
        /\ pending' = None \/ timer' = "fade"
        /\ fading' = (timer' # "none") /\ timer' \in {"none", "fade", "swap"}
        /\ shouldPlay' \in BOOLEAN
    BY <1>11, <2>1, SrcOfType, ArriveType DEF Media!InitialLands
  <2> QED BY <1>11, <2>2, <2>3, AskType DEF Media!InitialLands, Media!server, Media!TypeOK
<1>12. ASSUME NEW p \in Q, Media(T, Q)!PollStarts(p)
       PROVE  Media(T, Q)!TypeOK' /\ known' = known
  <2>1. mediaPolls' \in [Q -> Media(T, Q)!Checks]
    BY <1>12, AskType DEF Media!PollStarts, Media!TypeOK
  <2> QED BY <1>12, <2>1 DEF Media!PollStarts, Media!server, Media!media, Media!TypeOK
<1>13. ASSUME NEW p \in Q, NEW ty \in T, Media(T, Q)!PollAnswer(p, ty)
       PROVE  Media(T, Q)!TypeOK' /\ known' = known
  <2>1. PICK t \in Media(T, Q)!Times :
          /\ Media(T, Q)!Answered(ty, t) /\ Media(T, Q)!Count(t, ty)
          /\ mediaPolls' = [mediaPolls EXCEPT ![p] = Media(T, Q)!Answer(mediaPolls[p], ty, t)]
    BY <1>13 DEF Media!PollAnswer, Media!TypeOK
  <2>2. mediaPolls' \in [Q -> Media(T, Q)!Checks]
    BY <2>1, AnswerType DEF Media!TypeOK
  <2>3. mediaUpsets' \in 0..MaxUpsets
    BY <1>9, <2>1
  <2> QED BY <1>13, <2>2, <2>3 DEF Media!PollAnswer, Media!server, Media!media, Media!TypeOK
<1>14. ASSUME NEW p \in Q, Media(T, Q)!PollLands(p)
       PROVE  Media(T, Q)!TypeOK' /\ known' >= known
  <2>1. mediaPolls' \in [Q -> Media(T, Q)!Checks]
    BY <1>14, AskType DEF Media!PollLands, Media!TypeOK
  <2>2. CASE Media(T, Q)!IsNewer(mediaPolls[p].got)
    <3>1. mediaPolls[p].got \in [T -> Media(T, Q)!Times]
      BY DEF Media!TypeOK, Media!Checks
    <3>2. known' \in Media(T, Q)!Times /\ current' \in Media(T, Q)!Srcs
      BY <1>14, <2>2, <3>1, NewestType, SrcOfType DEF Media!PollLands
    <3>3. known' > known /\ known \in Nat /\ known' \in Nat
      BY <1>1, <1>14, <2>2, <3>2 DEF Media!PollLands, Media!IsNewer, Media!TypeOK
    <3>4. /\ pending' \in Media(T, Q)!Srcs \cup {None}
          /\ visible' \in [src : Media(T, Q)!Srcs, version : 0..MaxVersions] \cup {None}
          /\ pending' = None \/ timer' = "fade"
          /\ fading' = (timer' # "none") /\ timer' \in {"none", "fade", "swap"}
          /\ shouldPlay' \in BOOLEAN
      BY <1>14, <2>2, <3>1, SrcOfType, ArriveType DEF Media!PollLands
    <3>5. known' >= known
      BY <3>3
    <3> QED BY <1>14, <2>1, <3>2, <3>4, <3>5 DEF Media!PollLands, Media!server, Media!TypeOK
  <2>3. CASE ~Media(T, Q)!IsNewer(mediaPolls[p].got)
    BY <1>2, <1>14, <2>1, <2>3 DEF Media!PollLands, Media!server, Media!media, Media!TypeOK
  <2> QED BY <2>2, <2>3
<1>15. ASSUME Media(T, Q)!FadeEnds PROVE Media(T, Q)!TypeOK' /\ known' = known
  <2>1. visible' \in [src : Media(T, Q)!Srcs, version : 0..MaxVersions] \cup {None}
    <3>1. CASE pending = None
      BY <1>15, <3>1 DEF Media!FadeEnds, Media!TypeOK
    <3>2. CASE pending # None
      <4>1. pending \in Media(T, Q)!Srcs
        BY <3>2 DEF Media!TypeOK
      <4> QED BY <1>15, <3>2, <4>1, LoadType DEF Media!FadeEnds
    <3> QED BY <3>1, <3>2
  <2> QED BY <1>15, <2>1 DEF Media!FadeEnds, Media!server, Media!TypeOK
<1>16. ASSUME Media(T, Q)!SwapEnds PROVE Media(T, Q)!TypeOK' /\ known' = known
  <2>1. CASE current # visible.src
    BY <1>16, <2>1 DEF Media!SwapEnds, Media!server, Media!TypeOK
  <2>2. CASE current = visible.src
    BY <1>16, <2>2 DEF Media!SwapEnds, Media!server, Media!TypeOK
  <2> QED BY <2>1, <2>2
<1> QED BY <1>2, <1>4, <1>5, <1>6, <1>7, <1>8, <1>10, <1>11, <1>12, <1>13, <1>14, <1>15, <1>16
    DEF Media!Next

(* A screen's page (useFilePolling): for any number of checks that overlap  *)
(* and any types published, what lands late never takes the page back to    *)
(* older media, once the first listing has landed.                          *)
THEOREM ScreensNeverGoBack ==
    ASSUME Media(Types, PollIds)!DisplayMediaAssumption
    PROVE  Media(Types, PollIds)!Spec => NeverGoesBack
<1> DEFINE Typed == Media(Types, PollIds)!TypeOK
           M == Media(Types, PollIds)!Next
           v == Media(Types, PollIds)!vars
<1>1. Media(Types, PollIds)!Init => Typed
  BY MediaInit
<1>2. Typed /\ [M]_v => Typed' /\ Media(Types, PollIds)!StaysNew
  BY MediaNext
<1>3. v = mediaVars
  BY DEF Media!vars, mediaVars
<1> HIDE DEF Typed
<1> QED BY <1>1, <1>2, <1>3, PTL DEF Media!Spec, NeverGoesBack

-----------------------------------------------------------------------------
(* The types of the other parts.                                            *)

LEMMA NotesInit == Notes!Init => Notes!TypeOK
  BY PagePartsAssumption DEF Notes!Init, Notes!TypeOK, Notes!ToastsAssumption

LEMMA NotesTyped == Notes!TypeOK /\ [Notes!Next]_(Notes!vars) => Notes!TypeOK'
<1> SUFFICES ASSUME Notes!TypeOK, [Notes!Next]_(Notes!vars) PROVE Notes!TypeOK'
  OBVIOUS
<1>1. MaxToasts \in Nat
  BY PagePartsAssumption DEF Notes!ToastsAssumption
<1>2. CASE Notes!AddToast
  BY <1>1, <1>2 DEF Notes!AddToast, Notes!TypeOK, Notes!Entries, Notes!Ids
<1>3. ASSUME NEW id \in Notes!Ids, Notes!DismissToast(id) PROVE Notes!TypeOK'
  <2>1. /\ id \in 1..count /\ UNCHANGED count /\ toastTimeouts' = toastTimeouts \cup {id}
        /\ toasts' = toasts \/ /\ toasts # None
                               /\ toasts' = [toasts EXCEPT !.open = FALSE]
    BY <1>1, <1>3 DEF Notes!DismissToast, Notes!AddToRemoveQueue, Notes!Closed, Notes!TypeOK, Notes!Ids
  <2>2. toasts # None => /\ [toasts EXCEPT !.open = FALSE] \in Notes!Entries
                         /\ [toasts EXCEPT !.open = FALSE].id = toasts.id
    BY DEF Notes!TypeOK, Notes!Entries
  <2> QED BY <1>1, <2>1, <2>2 DEF Notes!TypeOK
<1>4. CASE Notes!DismissAll \/ Notes!TimeOver
  <2>1. toasts # None /\ toasts.id \in Notes!Ids
    BY <1>4 DEF Notes!DismissAll, Notes!TimeOver, Notes!TypeOK, Notes!Entries
  <2>2. Notes!DismissToast(toasts.id)
    BY <1>4, <2>1 DEF Notes!DismissAll, Notes!TimeOver, Notes!DismissToast, Notes!TypeOK
  <2> QED BY <1>3, <2>1, <2>2
<1>5. ASSUME NEW id \in Notes!Ids, Notes!RemoveToast(id) PROVE Notes!TypeOK'
  BY <1>5 DEF Notes!RemoveToast, Notes!TypeOK
<1>6. CASE UNCHANGED Notes!vars
  BY <1>6 DEF Notes!vars, Notes!TypeOK
<1> QED BY <1>2, <1>3, <1>4, <1>5, <1>6 DEF Notes!Next

-----------------------------------------------------------------------------
LEMMA SliderInit == Slider!Init => Slider!TypeOK
  BY PagePartsAssumption
     DEF Slider!Init, Slider!TypeOK, Slider!AdminLightAssumption, Slider!Asking, Slider!Idle,
         Slider!Asked

LEMMA SliderTyped == Slider!TypeOK /\ [Slider!Next]_(Slider!vars) => Slider!TypeOK'
<1> SUFFICES ASSUME Slider!TypeOK, [Slider!Next]_(Slider!vars) PROVE Slider!TypeOK'
  OBVIOUS
<1>1. {Bright, MaxSlides, MaxBreaks} \subseteq Nat
  BY PagePartsAssumption DEF Slider!AdminLightAssumption
<1>2. Slider!Idle \in Slider!Asking /\ Slider!Asked \in Slider!Asking
  BY DEF Slider!Idle, Slider!Asked, Slider!Asking
<1>3. ASSUME NEW f \in LightAsks, Slider!AskLight(f) PROVE asks' \in [LightAsks -> Slider!Asking]
  BY <1>2, <1>3 DEF Slider!AskLight, Slider!TypeOK
<1>4. ASSUME NEW f \in LightAsks,
             Slider!LightPolls(f) \/ Slider!LightServed(f) \/ Slider!LightBreaks(f)
      PROVE  Slider!TypeOK'
  <2>1. CASE Slider!LightPolls(f)
    BY <1>3, <2>1 DEF Slider!LightPolls, Slider!TypeOK
  <2>2. CASE Slider!LightServed(f)
    <3>1. [st |-> "served", got |-> override] \in Slider!Asking
      BY DEF Slider!Asking, Slider!TypeOK
    <3> QED BY <2>2, <3>1 DEF Slider!LightServed, Slider!TypeOK
  <2>3. CASE Slider!LightBreaks(f)
    BY <1>1, <1>2, <2>3 DEF Slider!LightBreaks, Slider!TypeOK
  <2> QED BY <1>4, <2>1, <2>2, <2>3
<1>5. ASSUME NEW f \in LightAsks, Slider!LightLands(f) PROVE Slider!TypeOK'
  <2>1. asks[f] \in Slider!Asking /\ asks[f].st = "served"
    BY <1>5 DEF Slider!LightLands, Slider!TypeOK
  <2>2. asks[f].got \in Slider!Lights
    BY <2>1 DEF Slider!Asking
  <2> QED BY <1>2, <1>5, <2>2 DEF Slider!LightLands, Slider!Taken, Slider!TypeOK
<1>6. ASSUME NEW b \in Slider!Lights, Slider!Posts(b)
      PROVE  slides' \in 0..MaxSlides /\ posts' \subseteq (1..MaxSlides) \X Slider!Lights
  BY <1>1, <1>6 DEF Slider!Posts, Slider!TypeOK
<1>7. CASE Slider!BackToAuto \/ \E b \in 0..Bright : Slider!Slide(b)
  BY <1>6, <1>7 DEF Slider!BackToAuto, Slider!Slide, Slider!Lights, Slider!TypeOK
<1>8. ASSUME NEW p \in posts, Slider!PostServed(p) \/ Slider!PostBreaks(p)
      PROVE  Slider!TypeOK'
  <2>1. p[2] \in Slider!Lights /\ posts \ {p} \subseteq (1..MaxSlides) \X Slider!Lights
    BY DEF Slider!TypeOK
  <2>2. CASE Slider!PostServed(p)
    BY <1>3, <2>1, <2>2 DEF Slider!PostServed, Slider!TypeOK
  <2>3. CASE Slider!PostBreaks(p)
    BY <1>1, <2>1, <2>3 DEF Slider!PostBreaks, Slider!TypeOK
  <2> QED BY <1>8, <2>2, <2>3
<1>9. CASE UNCHANGED Slider!vars
  BY <1>9 DEF Slider!vars, Slider!TypeOK
<1> QED BY <1>4, <1>5, <1>7, <1>8, <1>9 DEF Slider!Next

-----------------------------------------------------------------------------
\* A tab is mounted anew once for each action that came back: the bound on the
\* actions is one on the flags.
FlagsCount == \A d \in Destinations :
                flags[d] + (IF controlCall # None THEN 1 ELSE 0) <= controlsDone
TabsInv == Tabs!TypeOK /\ FlagsCount

LEMMA TabsInit == Tabs!Init => TabsInv
<1> SUFFICES ASSUME Tabs!Init PROVE TabsInv
  OBVIOUS
<1>1. 0 \in 0..MaxControls /\ 0 \in 0..MaxLosses
  BY PagePartsAssumption DEF Tabs!SchedulerTabsAssumption
<1>2. Tabs!NoAnswers \in Tabs!Answers
  BY DEF Tabs!NoAnswers, Tabs!Answers
<1>3. Tabs!Quiet \in Tabs!Polling
  BY <1>2 DEF Tabs!Quiet, Tabs!Polling
<1>4. Tabs!TypeOK
  BY <1>1, <1>2, <1>3, Zenon DEF Tabs!Init, Tabs!TypeOK
<1> QED BY <1>4 DEF TabsInv, FlagsCount, Tabs!Init

\* Where no action lands.
LEMMA FlagsKept ==
  ASSUME TabsInv, Tabs!TypeOK', flags' = flags, controlsDone' >= controlsDone,
         controlCall' # None => controlCall # None \/ controlsDone' = controlsDone + 1
  PROVE  TabsInv'
  BY DEF TabsInv, FlagsCount, Tabs!TypeOK

LEMMA TabsTyped == TabsInv /\ [Tabs!Next]_(Tabs!vars) => TabsInv'
<1> SUFFICES ASSUME Tabs!TypeOK, FlagsCount, [Tabs!Next]_(Tabs!vars) PROVE TabsInv'
  BY DEF TabsInv
<1>1. {MaxControls, MaxLosses} \subseteq Nat
  BY PagePartsAssumption DEF Tabs!SchedulerTabsAssumption
<1>2. Tabs!Quiet \in Tabs!Polling /\ [Tabs!Quiet EXCEPT !.open = TRUE] \in Tabs!Polling
  BY DEF Tabs!Quiet, Tabs!Polling, Tabs!NoAnswers, Tabs!Answers
<1>3. Tabs!Loses => losses' \in 0..MaxLosses
  BY <1>1 DEF Tabs!Loses, Tabs!TypeOK
<1>4. ASSUME Tabs!DestinationsLand PROVE Tabs!TypeOK'
  <2>1. losses' \in 0..MaxLosses
    BY <1>1, <1>4 DEF Tabs!DestinationsLand, Tabs!TypeOK
  <2>2. rounds' \in [Rounds -> Tabs!Polling]
    BY <1>4 DEF Tabs!DestinationsLand, Tabs!TypeOK, Tabs!Polling
  <2> QED BY <1>4, <2>1, <2>2 DEF Tabs!DestinationsLand, Tabs!TypeOK
<1>5. ASSUME NEW r \in Rounds, Tabs!PollStarts(r) \/ Tabs!PollFails(r) \/ Tabs!PollLands(r)
      PROVE  Tabs!TypeOK'
  <2>1. CASE Tabs!PollStarts(r)
    BY <1>2, <2>1 DEF Tabs!PollStarts, Tabs!tabs, Tabs!TypeOK
  <2>2. CASE Tabs!PollFails(r)
    BY <1>2, <1>3, <2>2 DEF Tabs!PollFails, Tabs!tabs, Tabs!TypeOK
  <2>3. CASE Tabs!PollLands(r)
    <3>1. rounds[r].got \in Tabs!Answers
      BY DEF Tabs!TypeOK, Tabs!Polling
    <3> QED BY <1>2, <2>3, <3>1 DEF Tabs!PollLands, Tabs!Taken, Tabs!tabs, Tabs!TypeOK
  <2> QED BY <1>5, <2>1, <2>2, <2>3
<1>6. ASSUME NEW r \in Rounds, NEW d \in Destinations, Tabs!PollAnswered(r, d)
      PROVE  Tabs!TypeOK'
  <2> DEFINE a == [rounds[r] EXCEPT !.got[d] = running[d]]
  <2>1. a \in Tabs!Polling
    BY DEF Tabs!TypeOK, Tabs!Polling, Tabs!Answers
  <2>2. rounds' = [rounds EXCEPT ![r] = a]
    BY <1>6 DEF Tabs!PollAnswered, Tabs!TypeOK
  <2> HIDE DEF a
  <2> QED BY <1>6, <2>1, <2>2 DEF Tabs!PollAnswered, Tabs!tabs, Tabs!TypeOK
<1>7. ASSUME NEW t \in Destinations \cup {"recent"}, Tabs!HandleTabClick(t) PROVE Tabs!TypeOK'
  BY <1>7 DEF Tabs!HandleTabClick, Tabs!TypeOK
<1>8. ASSUME NEW act \in Tabs!Actions, Tabs!HandleAction(act) PROVE Tabs!TypeOK'
  <2>1. controlCall' \in Tabs!Calls
    BY <1>8 DEF Tabs!HandleAction, Tabs!Calls
  <2> QED BY <1>1, <1>8, <2>1 DEF Tabs!HandleAction, Tabs!tabs, Tabs!TypeOK
<1>9. ASSUME Tabs!ActionServed PROVE Tabs!TypeOK'
  <2>1. controlCall \in Tabs!Calls /\ running[controlCall.dest] \in Tabs!States
    BY <1>9 DEF Tabs!ActionServed, Tabs!TypeOK, Tabs!Calls
  <2>2. PICK st \in Tabs!Effects(controlCall.act, running[controlCall.dest]) :
          /\ running' = IF st = None THEN running
                                     ELSE [running EXCEPT ![controlCall.dest] = st]
          /\ controlCall' = [controlCall EXCEPT !.st = IF st = None THEN "failed" ELSE "served"]
    BY <1>9 DEF Tabs!ActionServed
  <2>3. st \in Tabs!States \cup {None}
    BY <2>1, <2>2 DEF Tabs!Effects, Tabs!States
  <2>4. controlCall' \in Tabs!Calls
    BY <2>1, <2>2 DEF Tabs!Calls
  <2>5. running' \in [Destinations -> Tabs!States]
    BY <2>2, <2>3 DEF Tabs!TypeOK
  <2> QED BY <1>9, <2>4, <2>5 DEF Tabs!ActionServed, Tabs!tabs, Tabs!TypeOK
<1>11. ASSUME Tabs!ActionLands PROVE TabsInv'
  <2>1. controlCall \in Tabs!Calls /\ controlCall.dest \in Destinations
    BY <1>11 DEF Tabs!ActionLands, Tabs!TypeOK, Tabs!Calls
  <2>2. flags[controlCall.dest] + 1 <= controlsDone /\ controlsDone <= MaxControls
    BY <1>1, <1>11, <2>1 DEF Tabs!ActionLands, Tabs!TypeOK, TabsInv, FlagsCount
  <2>3. /\ flags' \in [Destinations -> 0..MaxControls]
        /\ \A d \in Destinations : flags'[d] <= controlsDone
    BY <1>1, <1>11, <2>1, <2>2 DEF Tabs!ActionLands, Tabs!TypeOK, TabsInv, FlagsCount
  <2>4. refreshes' \subseteq Destinations \X (Tabs!States \cup {None})
    BY <1>11, <2>1 DEF Tabs!ActionLands, Tabs!TypeOK
  <2>5. Tabs!TypeOK'
    BY <1>11, <2>3, <2>4 DEF Tabs!ActionLands, Tabs!TypeOK
  <2> QED BY <1>11, <2>3, <2>5 DEF Tabs!ActionLands, Tabs!TypeOK, TabsInv, FlagsCount
<1>12. ASSUME NEW d \in Destinations, Tabs!RefreshServed(d) \/ Tabs!RefreshFails(d)
       PROVE  Tabs!TypeOK'
  BY <1>3, <1>12 DEF Tabs!RefreshServed, Tabs!RefreshFails, Tabs!tabs, Tabs!TypeOK
<1>13. ASSUME NEW d \in Destinations, Tabs!ChangesElsewhere(d) PROVE Tabs!TypeOK'
  BY <1>1, <1>13 DEF Tabs!ChangesElsewhere, Tabs!tabs, Tabs!TypeOK
<1>14. ASSUME NEW d \in Destinations, NEW st \in Tabs!States, Tabs!RefreshLands(d, st)
       PROVE  Tabs!TypeOK'
  BY <1>14 DEF Tabs!RefreshLands, Tabs!tabs, Tabs!TypeOK, Tabs!Answers
<1>15. ASSUME UNCHANGED Tabs!vars PROVE Tabs!TypeOK'
  BY <1>15 DEF Tabs!vars, Tabs!TypeOK
<1>16. Tabs!TypeOK'
  BY <1>4, <1>5, <1>6, <1>7, <1>8, <1>9, <1>11, <1>12, <1>13, <1>14, <1>15
     DEF Tabs!Next, TabsInv
<1>17. ASSUME ~Tabs!ActionLands
       PROVE  /\ flags' = flags /\ controlsDone' >= controlsDone
              /\ controlCall' # None => controlCall # None \/ controlsDone' = controlsDone + 1
  <2>1. controlsDone \in Nat /\ MaxControls \in Nat
    BY <1>1 DEF Tabs!TypeOK
  <2>2. controlsDone + 1 >= controlsDone /\ controlsDone >= controlsDone
    BY <2>1
  <2>3. CASE Tabs!ActionServed \/ \E act \in Tabs!Actions : Tabs!HandleAction(act)
    BY <2>2, <2>3 DEF Tabs!ActionServed, Tabs!HandleAction, Tabs!tabs
  <2> QED BY <1>17, <2>2, <2>3, Zenon
          DEF Tabs!Next, Tabs!vars, Tabs!tabs, Tabs!DestinationsLand, Tabs!PollStarts,
              Tabs!PollFails, Tabs!PollLands, Tabs!PollAnswered, Tabs!HandleTabClick,
              Tabs!RefreshServed, Tabs!RefreshFails,
              Tabs!RefreshLands, Tabs!ChangesElsewhere
<1> QED BY <1>11, <1>16, <1>17, FlagsKept DEF TabsInv

-----------------------------------------------------------------------------
LEMMA CardInit == Card!Init => Card!TypeOK
<1> SUFFICES ASSUME Card!Init PROVE Card!TypeOK
  OBVIOUS
<1>1. 0 \in Card!Versions /\ 0 \in 0..MaxCardLosses /\ 0 \in 0..MaxLists
  BY PagePartsAssumption DEF Card!SchedulerCardAssumption, Card!Versions
<1> QED BY <1>1 DEF Card!Init, Card!TypeOK, Card!Fresh

LEMMA CardTyped == Card!TypeOK /\ [Card!Next]_(Card!vars) => Card!TypeOK'
<1> SUFFICES ASSUME Card!TypeOK, [Card!Next]_(Card!vars) PROVE Card!TypeOK'
  OBVIOUS
<1> DEFINE Shown == [open : BOOLEAN, selected : BOOLEAN, paused : BOOLEAN]
<1>1. MaxCardChanges \in Nat /\ MaxCardLosses \in Nat /\ MaxLists \in Nat
  BY PagePartsAssumption DEF Card!SchedulerCardAssumption
<1>2. Card!Fresh \in Shown
  BY DEF Card!Fresh
<1>3. ASSUME NEW k \in Card!Kinds PROVE Card!Served(k) \in Card!Answer
  BY DEF Card!Served, Card!Answer, Card!TypeOK
<1>4. ASSUME NEW k \in Card!Kinds, Card!Taken(k)
      PROVE  /\ answers[k] \in Card!Answer
             /\ answers' \in [Card!Kinds -> Card!Answer \cup {None}]
  BY <1>4 DEF Card!Taken, Card!TypeOK
<1>5. \A a \in Card!Answer : a.running \in BOOLEAN /\ a.at \in Card!Versions \cup {None}
  BY DEF Card!Answer
<1>6. card # None => card \in Shown
  BY DEF Card!TypeOK
<1>7. ASSUME NEW r \in BOOLEAN, Card!ServerChanges(r) PROVE Card!TypeOK'
  BY <1>1, <1>7 DEF Card!ServerChanges, Card!shows, Card!Versions, Card!TypeOK
<1>8. ASSUME NEW k \in Card!Kinds, Card!Poll(k) PROVE Card!TypeOK'
  <2>1. answers' \in [Card!Kinds -> Card!Answer \cup {None}]
    BY <1>3, <1>8 DEF Card!Poll, Card!TypeOK
  <2> QED BY <1>8, <2>1 DEF Card!Poll, Card!shows, Card!TypeOK
<1>9. ASSUME Card!FetchAction PROVE Card!TypeOK'
  <2> DEFINE a == [answers["status"] EXCEPT !.at = scheduler.at]
  <2>1. answers["status"] \in Card!Answer
    BY <1>9 DEF Card!FetchAction, Card!TypeOK, Card!Kinds
  <2>2. a \in Card!Answer
    BY <2>1 DEF Card!Answer, Card!TypeOK
  <2>3. answers' = [answers EXCEPT !["status"] = a]
    BY <1>9 DEF Card!FetchAction
  <2> HIDE DEF a
  <2>4. answers' \in [Card!Kinds -> Card!Answer \cup {None}]
    BY <2>2, <2>3 DEF Card!TypeOK
  <2> QED BY <1>9, <2>4 DEF Card!FetchAction, Card!shows, Card!TypeOK
<1>10. ASSUME Card!AllLands \/ Card!StatusLands \/ Card!QueueLands PROVE Card!TypeOK'
  <2>1. CASE Card!AllLands
    BY <1>4, <1>5, <2>1 DEF Card!AllLands, Card!TypeOK, Card!Kinds
  <2>2. CASE Card!StatusLands
    BY <1>4, <1>5, <2>2 DEF Card!StatusLands, Card!TypeOK, Card!Kinds
  <2>3. CASE Card!QueueLands
    BY <1>4, <1>5, <2>3 DEF Card!QueueLands, Card!TypeOK, Card!Kinds
  <2> QED BY <1>10, <2>1, <2>2, <2>3
<1>11. ASSUME NEW k \in Card!Kinds, Card!Fails(k) PROVE Card!TypeOK'
  <2>1. answers' \in [Card!Kinds -> Card!Answer \cup {None}]
    BY <1>4, <1>11 DEF Card!Fails
  <2>2. cardLosses' \in 0..MaxCardLosses /\ next' \in Card!Versions \cup {None}
    BY <1>1, <1>11 DEF Card!Fails, Card!TypeOK
  <2>3. card' \in Shown \cup {None} /\ logs' \in Card!Versions \cup {None}
    BY <1>2, <1>11 DEF Card!Fails, Card!TypeOK
  <2> QED BY <1>11, <2>1, <2>2, <2>3 DEF Card!Fails, Card!TypeOK
<1>12. ASSUME Card!LogsLand PROVE Card!TypeOK'
  <2>1. /\ card \in Shown /\ answers["logs"] \in Card!Answer
        /\ answers' \in [Card!Kinds -> Card!Answer \cup {None}]
    BY <1>4, <1>6, <1>12 DEF Card!LogsLand, Card!Kinds
  <2>2. answers["logs"].at \in Card!Versions \cup {None}
    BY <1>5, <2>1
  <2>3. \A b \in BOOLEAN : [card EXCEPT !.paused = b] \in Shown
    BY <2>1
  <2>4. card' \in Shown /\ logs' \in Card!Versions \cup {None}
    BY <1>12, <2>1, <2>2, <2>3 DEF Card!LogsLand, Card!AfterLogs, Card!TypeOK
  <2> QED BY <1>12, <2>1, <2>4 DEF Card!LogsLand, Card!TypeOK
<1>13. ASSUME Card!FetchDestinations PROVE Card!TypeOK'
  <2>1. answers' \in [Card!Kinds -> Card!Answer \cup {None}]
    BY <1>3, <1>13 DEF Card!FetchDestinations, Card!TypeOK, Card!Kinds
  <2> QED BY <1>1, <1>13, <2>1 DEF Card!FetchDestinations, Card!shows, Card!TypeOK
<1>14. ASSUME Card!ListingLands PROVE Card!TypeOK'
  <2>1. /\ answers["listing"].running \in BOOLEAN
        /\ answers["listing"].at \in Card!Versions \cup {None}
        /\ answers' \in [Card!Kinds -> Card!Answer \cup {None}]
    BY <1>4, <1>5, <1>14 DEF Card!ListingLands, Card!Kinds
  <2>2. logs' \in Card!Versions \cup {None}
    BY <1>14, <2>1 DEF Card!ListingLands
  <2> QED BY <1>2, <1>14, <2>1, <2>2 DEF Card!ListingLands, Card!TypeOK
<1>15. ASSUME Card!ToggleLogs \/ Card!Unselect \/ \E s \in BOOLEAN : Card!Select(s)
       PROVE  Card!TypeOK'
  <2>1. card' \in Shown
    BY <1>6, <1>15 DEF Card!ToggleLogs, Card!Unselect, Card!Select
  <2> QED BY <1>15, <2>1
          DEF Card!ToggleLogs, Card!Unselect, Card!Select, Card!shows, Card!TypeOK
<1>16. ASSUME UNCHANGED Card!vars PROVE Card!TypeOK'
  BY <1>16 DEF Card!vars, Card!TypeOK
<1> QED BY <1>7, <1>8, <1>9, <1>10, <1>11, <1>12, <1>13, <1>14, <1>15, <1>16
        DEF Card!Next, Card!Lands

-----------------------------------------------------------------------------
\* Each action that came back leaves one refresh of the status due.
RefreshesCount == refreshDue + (IF action # None THEN 1 ELSE 0) <= doings
AdminInv == Admin!TypeOK /\ RefreshesCount

LEMMA AdminInit == Admin!Init => AdminInv
<1> SUFFICES ASSUME Admin!Init PROVE AdminInv
  OBVIOUS
<1>1. 0 \in 0..MaxDoings /\ 0 \in 0..MaxAdminUpsets
  BY PagePartsAssumption DEF Admin!AdminPanelAssumption
<1>2. Admin!Asked \in Admin!Fetching /\ Admin!Idle \in Admin!Fetching
  BY DEF Admin!Asked, Admin!Idle, Admin!Fetching
<1>3. statusFetches \in [StatusFetches -> Admin!Fetching]
  BY <1>2 DEF Admin!Init
<1>4. Admin!TypeOK
  BY <1>1, <1>3, Zenon DEF Admin!Init, Admin!TypeOK
<1>5. RefreshesCount
  BY DEF Admin!Init, RefreshesCount
<1> QED BY <1>4, <1>5 DEF AdminInv

LEMMA AdminTyped == AdminInv /\ [Admin!Next]_(Admin!vars) => AdminInv'
<1> SUFFICES ASSUME Admin!TypeOK, RefreshesCount, [Admin!Next]_(Admin!vars) PROVE AdminInv'
  BY DEF AdminInv
<1> USE DEF AdminInv
<1> DEFINE Doing == [st : {"asked", "served", "refused", "broken"}, url : KioskUrls \cup {None}]
<1>1. /\ MaxDoings \in Nat /\ MaxAdminUpsets \in Nat
      /\ doings \in Nat /\ refreshDue \in Nat /\ upsets \in Nat
  BY PagePartsAssumption DEF Admin!AdminPanelAssumption, Admin!TypeOK
<1>2. Admin!Asked \in Admin!Fetching /\ Admin!Idle \in Admin!Fetching
  BY DEF Admin!Asked, Admin!Idle, Admin!Fetching
<1>3. action # None => action \in Doing
  BY DEF Admin!TypeOK
<1>4. Admin!Upset => upsets' \in 0..MaxAdminUpsets
  BY <1>1 DEF Admin!Upset
<1>5. ASSUME NEW f \in StatusFetches, Admin!AskStatus(f)
      PROVE  statusFetches' \in [StatusFetches -> Admin!Fetching]
  BY <1>2, <1>5 DEF Admin!AskStatus, Admin!TypeOK
<1>6. ASSUME NEW f \in StatusFetches, Admin!StatusPolls(f) \/ Admin!StatusServed(f)
                                      \/ Admin!StatusBreaks(f)
      PROVE  AdminInv'
  <2>1. statusFetches' \in [StatusFetches -> Admin!Fetching]
    <3>1. \A st \in {"refused", "unwell", "broken"} : [st |-> st, got |-> None] \in Admin!Fetching
      BY DEF Admin!Fetching
    <3>2. [st |-> "served", got |-> screen] \in Admin!Fetching
      BY DEF Admin!Fetching, Admin!TypeOK
    <3> QED BY <1>5, <1>6, <3>1, <3>2
            DEF Admin!StatusPolls, Admin!StatusServed, Admin!StatusBreaks, Admin!TypeOK
  <2>2. upsets' \in 0..MaxAdminUpsets
    BY <1>4, <1>6 DEF Admin!StatusPolls, Admin!StatusServed, Admin!StatusBreaks, Admin!TypeOK
  <2> QED BY <1>6, <2>1, <2>2
          DEF Admin!StatusPolls, Admin!StatusServed, Admin!StatusBreaks, Admin!page,
              Admin!TypeOK, RefreshesCount
<1>7. ASSUME NEW f \in StatusFetches, Admin!StatusRefreshes(f) PROVE AdminInv'
  <2>1. refreshDue' \in 0..MaxDoings /\ refreshDue' <= refreshDue
    BY <1>1, <1>7 DEF Admin!StatusRefreshes, Admin!TypeOK
  <2>2. RefreshesCount'
    BY <1>1, <1>7, <2>1 DEF Admin!StatusRefreshes, RefreshesCount
  <2> QED BY <1>5, <1>7, <2>1, <2>2 DEF Admin!StatusRefreshes, Admin!page, Admin!TypeOK
<1>8. ASSUME NEW f \in StatusFetches, Admin!StatusLands(f) PROVE AdminInv'
  <2>1. statusFetches[f] \in Admin!Fetching
    BY DEF Admin!TypeOK
  <2>2. statusFetches[f].st = "served" => statusFetches[f].got \in KioskUrls
    BY <2>1 DEF Admin!Fetching
  <2>3. status' \in KioskUrls \cup {None} /\ field' \in KioskUrls \cup {None}
    BY <1>8, <2>2 DEF Admin!StatusLands, Admin!TypeOK
  <2>4. authRequired' \in BOOLEAN /\ statusOk' \in BOOLEAN \cup {None}
    <3>1. Admin!Needs(statusFetches[f].st) \subseteq BOOLEAN
      BY DEF Admin!Needs, Admin!TypeOK
    <3> QED BY <1>8, <3>1 DEF Admin!StatusLands
  <2>5. statusFetches' \in [StatusFetches -> Admin!Fetching]
    BY <1>2, <1>8 DEF Admin!StatusLands, Admin!TypeOK
  <2> QED BY <1>8, <2>3, <2>4, <2>5 DEF Admin!StatusLands, Admin!TypeOK, RefreshesCount
<1>9. Admin!Does => /\ doings' \in 0..MaxDoings /\ doings' = doings + 1
  BY <1>1 DEF Admin!Does
<1>10. ASSUME NEW f \in StatusFetches, Admin!SaveToken(f) PROVE AdminInv'
  <2>1. RefreshesCount'
    BY <1>1, <1>9, <1>10 DEF Admin!SaveToken, RefreshesCount
  <2> QED BY <1>5, <1>9, <1>10, <2>1 DEF Admin!SaveToken, Admin!page, Admin!TypeOK
<1>11. ASSUME NEW u \in KioskUrls \cup {None}, Admin!TypeUrl(u) PROVE AdminInv'
  BY <1>11 DEF Admin!TypeUrl, Admin!TypeOK, RefreshesCount
<1>12. ASSUME NEW u \in KioskUrls \cup {None}, Admin!DoAction(u), refreshDue' = refreshDue
       PROVE  action' \in Doing /\ doings' \in 0..MaxDoings /\ RefreshesCount'
  BY <1>1, <1>9, <1>12 DEF Admin!DoAction, RefreshesCount
<1>13. ASSUME Admin!SetUrl \/ Admin!RestartKiosk \/ \E u \in KioskUrls : Admin!ResetUrl(u)
       PROVE  AdminInv'
  <2>1. CASE Admin!SetUrl
    <3>1. field \in KioskUrls \cup {None} /\ Admin!DoAction(field) /\ refreshDue' = refreshDue
      BY <2>1 DEF Admin!SetUrl, Admin!TypeOK
    <3>2. action' \in Doing /\ doings' \in 0..MaxDoings /\ RefreshesCount'
      BY <1>12, <3>1
    <3> QED BY <2>1, <3>2 DEF Admin!SetUrl, Admin!page, Admin!TypeOK
  <2>2. CASE Admin!RestartKiosk
    <3>2. action' \in Doing /\ doings' \in 0..MaxDoings /\ RefreshesCount'
      BY <1>12, <2>2 DEF Admin!RestartKiosk
    <3> QED BY <2>2, <3>2 DEF Admin!RestartKiosk, Admin!page, Admin!TypeOK
  <2>3. ASSUME NEW u \in KioskUrls, Admin!ResetUrl(u) PROVE AdminInv'
    <3>2. action' \in Doing /\ doings' \in 0..MaxDoings /\ RefreshesCount'
      BY <1>12, <2>3 DEF Admin!ResetUrl
    <3> QED BY <2>3, <3>2 DEF Admin!ResetUrl, Admin!TypeOK
  <2> QED BY <1>13, <2>1, <2>2, <2>3
<1>14. ASSUME Admin!ActionServed PROVE AdminInv'
  <2>1. action \in Doing /\ action.url \in KioskUrls \cup {None}
    BY <1>3, <1>14 DEF Admin!ActionServed
  <2>2. action' \in Doing /\ screen' \in KioskUrls
    BY <1>14, <2>1 DEF Admin!ActionServed, Admin!TypeOK
  <2>3. RefreshesCount'
    BY <1>1, <1>14 DEF Admin!ActionServed, RefreshesCount
  <2> QED BY <1>14, <2>2, <2>3 DEF Admin!ActionServed, Admin!page, Admin!TypeOK
<1>15. ASSUME Admin!ActionBreaks PROVE AdminInv'
  <2>1. action' \in Doing
    BY <1>3, <1>15 DEF Admin!ActionBreaks
  <2>3. RefreshesCount'
    BY <1>1, <1>15 DEF Admin!ActionBreaks, RefreshesCount
  <2> QED BY <1>4, <1>15, <2>1, <2>3 DEF Admin!ActionBreaks, Admin!page, Admin!TypeOK
<1>16. ASSUME Admin!ActionLands PROVE AdminInv'
  <2>1. refreshDue' \in 0..MaxDoings /\ refreshDue' <= doings
    BY <1>1, <1>16 DEF Admin!ActionLands, RefreshesCount, Admin!TypeOK
  <2>2. RefreshesCount'
    BY <1>1, <1>16, <2>1 DEF Admin!ActionLands, RefreshesCount
  <2>3. authRequired' \in BOOLEAN
    BY <1>16 DEF Admin!ActionLands
  <2> QED BY <1>16, <2>1, <2>2, <2>3 DEF Admin!ActionLands, Admin!TypeOK
<1>17. ASSUME Admin!ServerChanges PROVE AdminInv'
  BY <1>4, <1>17 DEF Admin!ServerChanges, Admin!page, Admin!TypeOK, RefreshesCount
<1>18. ASSUME UNCHANGED Admin!vars PROVE AdminInv'
  BY <1>18 DEF Admin!vars, Admin!TypeOK, RefreshesCount
<1> QED BY <1>6, <1>7, <1>8, <1>10, <1>11, <1>13, <1>14, <1>15, <1>16, <1>17, <1>18
        DEF Admin!Next

-----------------------------------------------------------------------------
LEMMA VarsInit == Vars!Init => Vars!TypeOK
<1> SUFFICES ASSUME Vars!Init PROVE Vars!TypeOK
  OBVIOUS
<1>1. 0 \in 0..MaxEdits
  BY PagePartsAssumption DEF Vars!VarsRegistryAssumption
<1>2. Vars!Asked \in Vars!FetchesUnder /\ Vars!IdleFetch \in Vars!FetchesUnder
  BY DEF Vars!Asked, Vars!IdleFetch, Vars!FetchesUnder
<1>3. fetches \in [VarFetches -> Vars!FetchesUnder]
  BY <1>2 DEF Vars!Init
<1> QED BY <1>1, <1>3, Zenon DEF Vars!Init, Vars!TypeOK

LEMMA VarsTyped == Vars!TypeOK /\ [Vars!Next]_(Vars!vars) => Vars!TypeOK'
<1> SUFFICES ASSUME Vars!TypeOK, [Vars!Next]_(Vars!vars) PROVE Vars!TypeOK'
  OBVIOUS
<1> DEFINE Editing == [key : Names, value : Values \cup {None}]
<1>1. MaxEdits \in Nat /\ edits \in Nat /\ None \notin Editing
  BY PagePartsAssumption DEF Vars!VarsRegistryAssumption, Vars!TypeOK
<1>2. Vars!Counts => edits' \in 0..MaxEdits
  BY <1>1 DEF Vars!Counts
<1>3. Vars!Asked \in Vars!FetchesUnder /\ Vars!IdleFetch \in Vars!FetchesUnder
  BY DEF Vars!Asked, Vars!IdleFetch, Vars!FetchesUnder
<1>4. ASSUME NEW k \in Vars!Scopes \X Names, NEW v \in Values \cup {None}
      PROVE  [registry EXCEPT ![k] = v] \in Vars!Registries
  BY DEF Vars!TypeOK, Vars!Registries
<1>5. call # None => call \in Vars!Calls
  BY DEF Vars!TypeOK
<1>6. ASSUME NEW s \in Vars!Scopes, NEW n \in Names, Vars!SchedulerChanges(s, n)
      PROVE  Vars!TypeOK'
  <2>1. registry' \in Vars!Registries
    <3>1. <<s, n>> \in Vars!Scopes \X Names
      OBVIOUS
    <3>2. PICK v \in Values \cup {None} : registry' = [registry EXCEPT ![<<s, n>>] = v]
      BY <1>6 DEF Vars!SchedulerChanges
    <3> QED BY <1>4, <3>1, <3>2
  <2> QED BY <1>2, <1>6, <2>1 DEF Vars!SchedulerChanges, Vars!card, Vars!TypeOK
<1>7. ASSUME Vars!CallServed PROVE Vars!TypeOK'
  <2>1. call \in Vars!Calls /\ call.key \in Names /\ call.value \in Values \cup {None}
    BY <1>5, <1>7 DEF Vars!CallServed, Vars!Calls
  <2>2. <<Vars!Resolved(call.key), call.key>> \in Vars!Scopes \X Names
    BY <2>1 DEF Vars!Resolved, Vars!Scopes
  <2>3. registry' \in Vars!Registries
    BY <1>4, <1>7, <2>1, <2>2 DEF Vars!CallServed, Vars!TypeOK
  <2>4. call' \in Vars!Calls
    BY <1>7, <2>1 DEF Vars!CallServed, Vars!Calls
  <2> QED BY <1>7, <2>3, <2>4 DEF Vars!CallServed, Vars!card, Vars!TypeOK
<1>8. ASSUME Vars!CallBreaks PROVE Vars!TypeOK'
  <2>1. call' \in Vars!Calls
    BY <1>5, <1>8 DEF Vars!CallBreaks, Vars!Calls
  <2> QED BY <1>2, <1>8, <2>1 DEF Vars!CallBreaks, Vars!card, Vars!TypeOK
<1>9. ASSUME NEW f \in VarFetches, Vars!Starts(f)
      PROVE  fetches' \in [VarFetches -> Vars!FetchesUnder] /\ loading' \in BOOLEAN
  BY <1>3, <1>9 DEF Vars!Starts, Vars!TypeOK
<1>10. ASSUME NEW f \in VarFetches,
              Vars!FetchStarts(f) \/ Vars!FetchServed(f) \/ Vars!FetchBreaks(f)
       PROVE  Vars!TypeOK'
  <2>1. CASE Vars!FetchStarts(f)
    BY <1>9, <2>1 DEF Vars!FetchStarts, Vars!card, Vars!TypeOK
  <2>2. CASE Vars!FetchServed(f)
    <3>1. [st |-> "served", got |-> registry] \in Vars!FetchesUnder
      BY DEF Vars!FetchesUnder, Vars!TypeOK
    <3> QED BY <2>2, <3>1 DEF Vars!FetchServed, Vars!card, Vars!TypeOK
  <2>3. CASE Vars!FetchBreaks(f)
    <3>1. [st |-> "failed", got |-> None] \in Vars!FetchesUnder
      BY DEF Vars!FetchesUnder
    <3> QED BY <1>2, <2>3, <3>1 DEF Vars!FetchBreaks, Vars!card, Vars!TypeOK
  <2> QED BY <1>10, <2>1, <2>2, <2>3
<1>11. ASSUME NEW f \in VarFetches, Vars!FetchLands(f) PROVE Vars!TypeOK'
  <2>1. fetches[f] \in Vars!FetchesUnder
    BY DEF Vars!TypeOK
  <2>2. data' \in Vars!Registries \cup {None}
    BY <1>11, <2>1 DEF Vars!FetchLands, Vars!Taken, Vars!FetchesUnder, Vars!TypeOK
  <2>3. fetches' \in [VarFetches -> Vars!FetchesUnder]
    BY <1>3, <1>11 DEF Vars!FetchLands, Vars!TypeOK
  <2> QED BY <1>11, <2>2, <2>3 DEF Vars!FetchLands, Vars!card, Vars!TypeOK
<1>12. ASSUME NEW s \in Vars!Scopes, NEW n \in Names, Vars!EditVar(s, n) PROVE Vars!TypeOK'
  <2>1. data[<<s, n>>] \in Values \cup {None}
    BY <1>12 DEF Vars!EditVar, Vars!Listed, Vars!Row, Vars!TypeOK, Vars!Registries
  <2>2. editingVar' \in Editing
    BY <1>12, <2>1 DEF Vars!EditVar
  <2>3. editingVar' # None
    BY <1>1, <2>2
  <2> QED BY <1>12, <2>2, <2>3 DEF Vars!EditVar, Vars!TypeOK
<1>13. ASSUME NEW v \in Values, Vars!TypeValue(v) PROVE Vars!TypeOK'
  <2>1. editingVar' \in Editing
    BY <1>13 DEF Vars!TypeValue, Vars!TypeOK
  <2>2. editingVar' # None
    BY <1>1, <2>1
  <2> QED BY <1>13, <2>1, <2>2 DEF Vars!TypeValue, Vars!TypeOK
<1>14. ASSUME Vars!CancelEdit \/ Vars!CallFails PROVE Vars!TypeOK'
  <2>1. CASE Vars!CancelEdit
    BY <2>1 DEF Vars!CancelEdit, Vars!TypeOK
  <2>2. CASE Vars!CallFails
    BY <2>2 DEF Vars!CallFails, Vars!card, Vars!TypeOK
  <2> QED BY <1>14, <2>1, <2>2
<1>15. ASSUME NEW n \in Names, NEW v \in Values \cup {None}, Vars!Calling(n, v)
       PROVE  call' \in Vars!Calls /\ edits' \in 0..MaxEdits
  BY <1>2, <1>15 DEF Vars!Calling, Vars!Calls
<1>16. ASSUME Vars!HandleSaveEdit \/ \E n \in Names : Vars!HandleDeleteVar(n)
       PROVE  Vars!TypeOK'
  <2>1. call' \in Vars!Calls /\ edits' \in 0..MaxEdits
    <3>1. CASE Vars!HandleSaveEdit
      <4>1. editingVar.key \in Names /\ editingVar.value \in Values \cup {None}
        BY <3>1 DEF Vars!HandleSaveEdit, Vars!TypeOK
      <4> QED BY <1>15, <3>1, <4>1 DEF Vars!HandleSaveEdit
    <3>2. CASE \E n \in Names : Vars!HandleDeleteVar(n)
      BY <1>15, <3>2 DEF Vars!HandleDeleteVar
    <3> QED BY <1>16, <3>1, <3>2
  <2> QED BY <1>16, <2>1 DEF Vars!HandleSaveEdit, Vars!HandleDeleteVar, Vars!card, Vars!TypeOK
<1>17. ASSUME NEW f \in VarFetches, Vars!CallLands(f) PROVE Vars!TypeOK'
  BY <1>9, <1>17 DEF Vars!CallLands, Vars!TypeOK
<1>18. ASSUME UNCHANGED Vars!vars PROVE Vars!TypeOK'
  BY <1>18 DEF Vars!vars, Vars!TypeOK
<1> QED BY <1>6, <1>7, <1>8, <1>10, <1>11, <1>12, <1>13, <1>14, <1>16, <1>17, <1>18
        DEF Vars!Next

-----------------------------------------------------------------------------
\* There is no build beyond those that clicks and failures leave room for.
RecordInv == Record!TypeOK /\ apk <= gridActs

LEMMA MountedType ==
  ASSUME NEW m \in {"closed", "install", "update"}, Record!Mounted(m)
  PROVE  /\ isTranscribing' \in Record!Sides /\ maskEnabled' \in Record!Sides
         /\ modal' \in {"closed", "install", "update"}
         /\ polls' \in [RecordPolls -> Record!Request] /\ load' \in Record!Request
         /\ post' = None /\ check' = None /\ storing' \in BOOLEAN
  BY DEF Record!Mounted, Record!Sides, Record!Request

LEMMA RecordInit == Record!Init => RecordInv
<1> SUFFICES ASSUME Record!Init PROVE RecordInv
  OBVIOUS
<1>1. 0 \in 0..MaxGridActs
  BY PagePartsAssumption DEF Record!RecordingAssumption
<1>2. polls \in [RecordPolls -> Record!Request] /\ load \in Record!Request
  BY DEF Record!Init, Record!Request
<1>3. Record!TypeOK
  BY <1>1, <1>2 DEF Record!Init, Record!TypeOK, Record!Sides, Record!Builds
<1> QED BY <1>3 DEF RecordInv, Record!Init

LEMMA RecordTyped == RecordInv /\ [Record!Next]_(Record!vars) => RecordInv'
<1> SUFFICES ASSUME Record!TypeOK, apk <= gridActs, [Record!Next]_(Record!vars)
             PROVE  RecordInv'
  BY DEF RecordInv
<1> USE DEF RecordInv
<1> DEFINE Posts == [st : {"asked", "served", "failed"}, to : Record!Sides]
<1>1. /\ MaxGridActs \in Nat /\ gridActs \in Nat /\ gridActs <= MaxGridActs
      /\ apk \in Nat /\ None \notin Record!Sides
  BY PagePartsAssumption
     DEF Record!RecordingAssumption, Record!TypeOK, Record!Builds, Record!Sides
<1>2. Record!Acts => gridActs' = gridActs + 1 /\ gridActs' \in 0..MaxGridActs
  BY <1>1 DEF Record!Acts
<1>3. Record!Sides \subseteq Record!Request /\ {"idle", "asked", "failed"} \subseteq Record!Request
  BY DEF Record!Request
<1>4. \A s : Record!Other(s) \in Record!Sides
  BY DEF Record!Other, Record!Sides
<1>5. post # None => post \in Posts
  BY DEF Record!TypeOK
<1>6. ASSUME NEW p \in RecordPolls, NEW from, NEW to \in Record!Request,
             Record!Polled(p, from, to)
      PROVE  polls' \in [RecordPolls -> Record!Request]
  BY <1>6 DEF Record!Polled, Record!TypeOK
<1>7. ASSUME NEW p \in RecordPolls,
             Record!PollStarts(p) \/ Record!PollServed(p) \/ Record!PollBreaks(p)
             \/ Record!PollLands(p)
      PROVE  RecordInv'
  <2>1. recording \in Record!Request
    BY <1>3 DEF Record!TypeOK
  <2>2. polls' \in [RecordPolls -> Record!Request]
    BY <1>3, <1>6, <1>7, <2>1
       DEF Record!PollStarts, Record!PollServed, Record!PollBreaks, Record!PollLands
  <2>3. isTranscribing' \in Record!Sides
    BY <1>7 DEF Record!PollStarts, Record!PollServed, Record!PollBreaks, Record!PollLands,
                Record!Taken, Record!TypeOK
  <2>4. gridActs' \in 0..MaxGridActs /\ gridActs' >= gridActs
    BY <1>1, <1>2, <1>7
       DEF Record!PollStarts, Record!PollServed, Record!PollBreaks, Record!PollLands
  <2> QED BY <1>1, <1>7, <2>2, <2>3, <2>4
          DEF Record!PollStarts, Record!PollServed, Record!PollBreaks, Record!PollLands,
              Record!server, Record!phone, Record!masks, Record!asks, Record!TypeOK
<1>8. ASSUME NEW s \in Record!Sides, Record!AppActs(s) \/ Record!MaskSet(s)
      PROVE  RecordInv'
  <2>1. gridActs' \in 0..MaxGridActs /\ gridActs' >= gridActs
    BY <1>1, <1>2, <1>8 DEF Record!AppActs, Record!MaskSet
  <2> QED BY <1>1, <1>8, <2>1
          DEF Record!AppActs, Record!MaskSet, Record!phone, Record!masks, Record!asks,
              Record!TypeOK
<1>9. ASSUME Record!LoadServed \/ Record!LoadBreaks \/ Record!LoadLands PROVE RecordInv'
  <2>1. load' \in Record!Request /\ maskEnabled' \in Record!Sides
    BY <1>3, <1>9 DEF Record!LoadServed, Record!LoadBreaks, Record!LoadLands, Record!TypeOK,
                      Record!Sides
  <2>2. gridActs' \in 0..MaxGridActs /\ gridActs' >= gridActs
    BY <1>1, <1>2, <1>9 DEF Record!LoadServed, Record!LoadBreaks, Record!LoadLands
  <2> QED BY <1>1, <1>9, <2>1, <2>2
          DEF Record!LoadServed, Record!LoadBreaks, Record!LoadLands, Record!server,
              Record!phone, Record!asks, Record!TypeOK
<1>10. ASSUME \/ Record!HandleMaskToggle \/ Record!PostServed \/ Record!PostBreaks
              \/ Record!PostLands
       PROVE  RecordInv'
  <2>1. post' \in Posts \cup {None}
    BY <1>4, <1>5, <1>10
       DEF Record!HandleMaskToggle, Record!PostServed, Record!PostBreaks, Record!PostLands
  <2>2. mask' \in Record!Sides /\ maskEnabled' \in Record!Sides
    BY <1>5, <1>10
       DEF Record!HandleMaskToggle, Record!PostServed, Record!PostBreaks, Record!PostLands,
           Record!server, Record!TypeOK
  <2>3. gridActs' \in 0..MaxGridActs /\ gridActs' >= gridActs
    BY <1>1, <1>2, <1>10
       DEF Record!HandleMaskToggle, Record!PostServed, Record!PostBreaks, Record!PostLands
  <2> QED BY <1>1, <1>10, <2>1, <2>2, <2>3
          DEF Record!HandleMaskToggle, Record!PostServed, Record!PostBreaks, Record!PostLands,
              Record!server, Record!phone, Record!asks, Record!TypeOK
<1>11. ASSUME Record!HandleRecordClick PROVE RecordInv'
  <2>1. /\ check' \in Record!Sides \cup {None}
        /\ check' # None => storedBuild # None
        /\ modal' \in {"closed", "install", "update"}
    BY <1>4, <1>11 DEF Record!HandleRecordClick, Record!TypeOK
  <2>2. UNCHANGED <<recording, mask, apk, installed, appLink, storedBuild, isTranscribing,
                    maskEnabled, load, post, polls, storing>>
    BY <1>11 DEF Record!HandleRecordClick, Record!server, Record!phone, Record!masks
  <2>3. gridActs' \in 0..MaxGridActs /\ gridActs' >= gridActs
    BY <1>1, <1>2, <1>11 DEF Record!HandleRecordClick
  <2> QED BY <1>1, <2>1, <2>2, <2>3 DEF Record!TypeOK
<1>12. ASSUME Record!CheckAnswered PROVE RecordInv'
  <2>1. /\ isTranscribing' \in Record!Sides /\ maskEnabled' \in Record!Sides
        /\ modal' \in {"closed", "install", "update"}
        /\ polls' \in [RecordPolls -> Record!Request] /\ load' \in Record!Request
        /\ post' \in Posts \cup {None} /\ check' = None /\ storing' \in BOOLEAN
        /\ appLink' \in Record!Sides \cup {None}
    <3>1. CASE storedBuild < apk
      BY <1>12, <3>1 DEF Record!CheckAnswered, Record!masks, Record!TypeOK
    <3>2. CASE ~(storedBuild < apk) /\ installed
      BY <1>12, <3>2 DEF Record!CheckAnswered, Record!Opens, Record!masks, Record!TypeOK
    <3>3. CASE ~(storedBuild < apk) /\ ~installed
      BY <1>12, <3>3, MountedType DEF Record!CheckAnswered, Record!Opens, Record!TypeOK
    <3> QED BY <3>1, <3>2, <3>3
  <2> QED BY <1>12, <2>1 DEF Record!CheckAnswered, Record!server, Record!TypeOK
<1>13. ASSUME Record!CheckBreaks \/ Record!Download \/ Record!Install \/ Record!NewBuild
       PROVE  RecordInv'
  <2>1. gridActs' = gridActs + 1 /\ gridActs' \in 0..MaxGridActs
    BY <1>2, <1>13 DEF Record!CheckBreaks, Record!Download, Record!Install, Record!NewBuild
  <2>2. /\ apk' \in {apk, apk + 1} /\ installed' \in BOOLEAN /\ storing' \in BOOLEAN
        /\ modal' \in {"closed", "install", "update"} /\ check' \in {check, None}
    BY <1>13 DEF Record!CheckBreaks, Record!Download, Record!Install, Record!NewBuild,
                 Record!server, Record!phone, Record!asks, Record!TypeOK
  <2>3. UNCHANGED <<recording, mask, appLink, storedBuild, isTranscribing, maskEnabled,
                    load, post, polls>>
    BY <1>13 DEF Record!CheckBreaks, Record!Download, Record!Install, Record!NewBuild,
                 Record!server, Record!phone, Record!masks
  <2>4. apk' \in Record!Builds /\ apk' <= gridActs'
    BY <1>1, <2>1, <2>2 DEF Record!Builds
  <2> QED BY <2>1, <2>2, <2>3, <2>4 DEF Record!TypeOK
<1>14. ASSUME Record!StoreVersionInfo PROVE RecordInv'
  <2>1. storedBuild' \in {storedBuild, apk} /\ apk # None
    BY <1>14, PagePartsAssumption
       DEF Record!StoreVersionInfo, Record!TypeOK, Record!Builds, Record!RecordingAssumption
  <2> QED BY <1>14, <2>1 DEF Record!StoreVersionInfo, Record!server, Record!masks, Record!TypeOK
<1>15. ASSUME Record!ContinueWithCurrent \/ Record!CloseModal PROVE RecordInv'
  <2>1. appLink' \in Record!Sides \cup {None} /\ modal' = "closed"
    BY <1>4, <1>15 DEF Record!ContinueWithCurrent, Record!CloseModal, Record!phone, Record!TypeOK
  <2> QED BY <1>15, <2>1
          DEF Record!ContinueWithCurrent, Record!CloseModal, Record!server, Record!phone,
              Record!masks, Record!asks, Record!TypeOK
<1>16. ASSUME UNCHANGED Record!vars PROVE RecordInv'
  BY <1>16 DEF Record!vars, Record!server, Record!phone, Record!masks, Record!asks, Record!TypeOK
<1> QED BY <1>7, <1>8, <1>9, <1>10, <1>11, <1>12, <1>13, <1>14, <1>15, <1>16 DEF Record!Next

-----------------------------------------------------------------------------
\* The controls show after a touch, and each time the effects that ask for what
\* they show have a number of their own; the mask polls while it is on.
ControlsInv ==
    /\ Controls!TypeOK
    /\ opening <= touches /\ (showControls => opening >= 1)
    /\ ~noMask => own \in Chains

LEMMA ControlsInit == Controls!Init => ControlsInv
<1> SUFFICES ASSUME Controls!Init PROVE ControlsInv
  OBVIOUS
<1>1. /\ 0 \in 0..MaxScreenTouches /\ 0 \in 0..MaxLevels /\ 0 \in 0..MaxFailures
      /\ 0 \in Controls!Levels /\ Full \in Controls!Levels
  BY PagePartsAssumption DEF Controls!DisplayControlsAssumption, Controls!Levels
<1>2. chains \in [Chains -> Controls!Answers \cup {Controls!Idle, Controls!Asking, Controls!Waiting}]
  BY DEF Controls!Init
<1>3. info \in [ControlAsks -> {"known", None}] /\ own \in Chains
  BY DEF Controls!Init
<1>4. Controls!TypeOK
  BY <1>1, <1>2, <1>3 DEF Controls!Init, Controls!TypeOK
<1>5. opening <= touches
  BY DEF Controls!Init
<1> QED BY <1>3, <1>4, <1>5 DEF ControlsInv, Controls!Init

LEMMA ControlsTyped == ControlsInv /\ [Controls!Next]_(Controls!vars) => ControlsInv'
<1> SUFFICES ASSUME ControlsInv, [Controls!Next]_(Controls!vars) PROVE ControlsInv'
  OBVIOUS
<1> USE DEF ControlsInv
<1> DEFINE Chain == Controls!Answers \cup {Controls!Idle, Controls!Asking, Controls!Waiting}
<1>1. /\ Full \in Nat /\ MaxScreenTouches \in Nat /\ MaxLevels \in Nat /\ MaxFailures \in Nat
      /\ opening \in Nat /\ touches \in Nat
  BY PagePartsAssumption DEF Controls!DisplayControlsAssumption, Controls!TypeOK
<1>2. Controls!Fails => failures' \in 0..MaxFailures
  BY <1>1 DEF Controls!Fails, Controls!TypeOK
<1>3. ASSUME Controls!Touch PROVE ControlsInv'
  <2>1. touches' \in 0..MaxScreenTouches /\ touches' = touches + 1
    BY <1>1, <1>3 DEF Controls!Touch
  <2>2. /\ opening' \in 0..MaxScreenTouches /\ opening' <= touches' /\ opening' >= 1
        /\ opening' = opening \/ opening' = opening + 1
    BY <1>1, <1>3, <2>1 DEF Controls!Touch, Controls!TypeOK
  <2>3. asking' \subseteq ControlAsks \X (1..MaxScreenTouches)
    <3>1. CASE showControls
      BY <1>3, <3>1 DEF Controls!Touch, Controls!TypeOK
    <3>2. CASE ~showControls
      <4>1. opening + 1 \in 1..MaxScreenTouches
        BY <1>1, <1>3, <2>2, <3>2 DEF Controls!Touch
      <4> QED BY <1>3, <3>2, <4>1 DEF Controls!Touch, Controls!TypeOK
    <3> QED BY <3>1, <3>2
  <2> QED BY <1>3, <2>1, <2>2, <2>3
          DEF Controls!Touch, Controls!Rearm, Controls!mask, Controls!TypeOK
<1>4. ASSUME Controls!ControlsHide PROVE ControlsInv'
  BY <1>4 DEF Controls!ControlsHide, Controls!mask, Controls!TypeOK
<1>5. ASSUME NEW a \in ControlAsks, Controls!AskAgain(a) PROVE ControlsInv'
  <2>1. opening \in 1..MaxScreenTouches
    BY <1>1, <1>5 DEF Controls!AskAgain, Controls!TypeOK
  <2> QED BY <1>5, <2>1 DEF Controls!AskAgain, Controls!mask, Controls!TypeOK
<1>6. ASSUME NEW a \in ControlAsks, NEW k \in 1..MaxScreenTouches,
             Controls!Answered(a, k) \/ Controls!Refused(a, k)
      PROVE  ControlsInv'
  <2>1. info' \in [ControlAsks -> {"known", None}]
    BY <1>6 DEF Controls!Answered, Controls!Refused, Controls!Learn, Controls!TypeOK
  <2>2. failures' \in 0..MaxFailures
    BY <1>2, <1>6 DEF Controls!Answered, Controls!Refused, Controls!TypeOK
  <2> QED BY <1>6, <2>1, <2>2
          DEF Controls!Answered, Controls!Refused, Controls!Learn, Controls!mask, Controls!TypeOK
<1>7. ASSUME Controls!BaseNameLands PROVE ControlsInv'
  BY <1>2, <1>7 DEF Controls!BaseNameLands, Controls!controls, Controls!mask, Controls!TypeOK
<1>8. ASSUME Controls!ToggleNoMask PROVE ControlsInv'
  <2>1. chains' \in [Chains -> Chain]
    <3>1. CASE noMask
      BY <1>8, <3>1 DEF Controls!ToggleNoMask, Controls!TypeOK
    <3>2. CASE ~noMask
      <4>1. Controls!Ended(own) \in Chain
        BY <3>2 DEF Controls!Ended, Controls!TypeOK
      <4> QED BY <1>8, <3>2, <4>1 DEF Controls!ToggleNoMask, Controls!TypeOK
    <3> QED BY <3>1, <3>2
  <2>2. noMask' \in BOOLEAN /\ own' \in Chains \cup {None} /\ (~noMask' => own' \in Chains)
    BY <1>8 DEF Controls!ToggleNoMask, Controls!TypeOK
  <2> QED BY <1>8, <2>1, <2>2 DEF Controls!ToggleNoMask, Controls!controls, Controls!TypeOK
<1>9. ASSUME Controls!Dims PROVE ControlsInv'
  <2>1. levels' \in 0..MaxLevels /\ level' \in Controls!Levels
    BY <1>1, <1>9 DEF Controls!Dims, Controls!TypeOK
  <2> QED BY <1>9, <2>1 DEF Controls!Dims, Controls!controls, Controls!TypeOK
<1>10. ASSUME NEW c \in Chains,
              Controls!MaskServed(c) \/ Controls!MaskLands(c) \/ Controls!MaskPolls(c)
       PROVE  ControlsInv'
  <2>1. \A b \in Controls!Levels \cup {None} : [st |-> "answered", b |-> b] \in Chain
    BY DEF Controls!Answers
  <2>2. chains' \in [Chains -> Chain]
    BY <1>10, <2>1 DEF Controls!MaskServed, Controls!MaskLands, Controls!MaskPolls,
                       Controls!Then, Controls!TypeOK
  <2>3. brightness' \in Controls!Levels /\ failed' \in BOOLEAN
    <3>1. chains[c].st = "answered" => chains[c].b \in Controls!Levels \cup {None}
      BY DEF Controls!TypeOK, Controls!Answers, Controls!Idle, Controls!Asking, Controls!Waiting
    <3>2. 0 \in Controls!Levels
      BY <1>1 DEF Controls!Levels
    <3> QED BY <1>10, <3>1, <3>2 DEF Controls!MaskServed, Controls!MaskLands,
                                     Controls!MaskPolls, Controls!TypeOK
  <2>4. failures' \in 0..MaxFailures
    BY <1>2, <1>10 DEF Controls!MaskServed, Controls!MaskLands, Controls!MaskPolls,
                       Controls!TypeOK
  <2> QED BY <1>10, <2>2, <2>3, <2>4
          DEF Controls!MaskServed, Controls!MaskLands, Controls!MaskPolls,
              Controls!controls, Controls!TypeOK
<1>11. ASSUME UNCHANGED Controls!vars PROVE ControlsInv'
  BY <1>11 DEF Controls!vars, Controls!TypeOK
<1> QED BY <1>3, <1>4, <1>5, <1>6, <1>7, <1>8, <1>9, <1>10, <1>11 DEF Controls!Next

-----------------------------------------------------------------------------
\* An attempt to connect again follows a connection that was lost.
ScreenInv == Screen!TypeOK /\ attempts <= linkDrops

LEMMA ScreenInit == Screen!Init => ScreenInv
<1> SUFFICES ASSUME Screen!Init PROVE ScreenInv
  OBVIOUS
<1>1. 0 \in 0..MaxLinkDrops
  BY PagePartsAssumption DEF Screen!DisplayOverlaysAssumption
<1> QED BY <1>1 DEF Screen!Init, ScreenInv, Screen!TypeOK

LEMMA ScreenTyped == ScreenInv /\ [Screen!Next]_(Screen!vars) => ScreenInv'
<1> SUFFICES ASSUME ScreenInv, [Screen!Next]_(Screen!vars) PROVE ScreenInv'
  OBVIOUS
<1> USE DEF ScreenInv
<1> DEFINE Looks == {"visible", "hidden", None}
<1>1. /\ MaxLinkDrops \in Nat /\ MaxBackoff \in Nat /\ attempts \in Nat /\ linkDrops \in Nat
  BY PagePartsAssumption DEF Screen!DisplayOverlaysAssumption, Screen!TypeOK
<1>2. ASSUME NEW o \in Overlays, NEW clear \in BOOLEAN, NEW fadein \in BOOLEAN,
             Screen!OverlayMessage(o, clear, fadein)
      PROVE  ScreenInv'
  <2>1. Screen!Base(clear) \in [Overlays -> Looks]
    BY DEF Screen!Base, Screen!TypeOK
  <2>2. overlays' \in [Overlays -> Looks]
    BY <1>2, <2>1 DEF Screen!OverlayMessage
  <2>3. Screen!TimersOf(o, fadein) \subseteq Overlays \X Screen!Steps
    BY DEF Screen!TimersOf, Screen!Steps
  <2> QED BY <1>2, <2>2, <2>3 DEF Screen!OverlayMessage, Screen!linkVars, Screen!TypeOK
<1>3. ASSUME NEW o \in Overlays, Screen!FadeIn(o) \/ Screen!Hide(o) \/ Screen!Remove(o)
      PROVE  ScreenInv'
  <2>1. overlays' \in [Overlays -> Looks]
    BY <1>3 DEF Screen!FadeIn, Screen!Hide, Screen!Remove, Screen!Changed, Screen!TypeOK
  <2>2. timers' \subseteq Overlays \X Screen!Steps
    BY <1>3 DEF Screen!FadeIn, Screen!Hide, Screen!Remove, Screen!AfterHide, Screen!Steps,
                Screen!TypeOK
  <2> QED BY <1>3, <2>1, <2>2
          DEF Screen!FadeIn, Screen!Hide, Screen!Remove, Screen!linkVars, Screen!TypeOK
<1>4. ASSUME Screen!LinkOpens \/ Screen!Reconnect PROVE ScreenInv'
  BY <1>1, <1>4 DEF Screen!LinkOpens, Screen!Reconnect, Screen!TypeOK
<1>5. ASSUME Screen!LinkCloses PROVE ScreenInv'
  <2>1. linkDrops' \in 0..MaxLinkDrops /\ attempts' \in 0..MaxLinkDrops /\ attempts' <= linkDrops'
    BY <1>1, <1>5 DEF Screen!LinkCloses
  <2>2. retry' \in Screen!Delays
    BY <1>1, <1>5 DEF Screen!LinkCloses, Screen!RetryAfter, Screen!Delay, Screen!Delays
  <2> QED BY <1>5, <2>1, <2>2 DEF Screen!LinkCloses, Screen!TypeOK
<1>6. ASSUME UNCHANGED Screen!vars PROVE ScreenInv'
  BY <1>6 DEF Screen!vars, Screen!TypeOK
<1> QED BY <1>2, <1>3, <1>4, <1>5, <1>6 DEF Screen!Next

-----------------------------------------------------------------------------
\* What is shown only fades out for media that are to come.
VideoInv == Video!TypeOK /\ (phase = "fade" => media < MaxMedia)

LEMMA VideoInit == Video!Init => VideoInv
<1> SUFFICES ASSUME Video!Init PROVE VideoInv
  OBVIOUS
<1>1. 1 \in Video!Media
  BY PagePartsAssumption DEF Video!MediaPlaybackAssumption, Video!Media
<1>2. PICK kind \in Video!Kinds :
        /\ kinds = [k \in Video!Media |-> IF k = 1 THEN kind ELSE None]
        /\ fadeChains = [k \in Video!Media |-> IF k = 1 THEN Video!Started(1, kind) ELSE None]
        /\ extracting = Video!Extracts(1, kind)
  BY DEF Video!Init
<1>3. Video!Started(1, kind) \in Video!Stages \cup {None}
  BY DEF Video!Started, Video!Stages
<1>4. /\ fadeChains \in [Video!Media -> Video!Stages \cup {None}]
      /\ \A k \in Video!Media : fadeChains[k] # None => kinds[k] = "video" /\ k <= 1
  BY <1>1, <1>2, <1>3 DEF Video!Started
<1>5. kinds \in [Video!Media -> Video!Kinds \cup {None}] /\ extracting \subseteq Video!Media
  BY <1>1, <1>2 DEF Video!Extracts
<1>6. /\ media = 1 /\ phase = "play" /\ easeOutTimeout = None /\ firstFrame = None
      /\ showFirstFrame = FALSE
  BY DEF Video!Init
<1> QED BY <1>1, <1>4, <1>5, <1>6 DEF VideoInv, Video!TypeOK

LEMMA CancelledChains ==
  ASSUME NEW list \in [Video!Media -> Video!Stages \cup {None}],
         NEW f \in Video!Cancelled(list)
  PROVE  /\ f \in [Video!Media -> Video!Stages \cup {None}]
         /\ \A k \in Video!Media : f[k] # None => f[k] = list[k]
  BY DEF Video!Cancelled

LEMMA VideoTyped == VideoInv /\ [Video!Next]_(Video!vars) => VideoInv'
<1> SUFFICES ASSUME VideoInv, [Video!Next]_(Video!vars) PROVE VideoInv'
  OBVIOUS
<1> USE DEF VideoInv
<1> DEFINE Staged == [Video!Media -> Video!Stages \cup {None}]
<1>1. MaxMedia \in Nat /\ media \in Nat /\ Video!Media \subseteq Nat
  BY PagePartsAssumption DEF Video!MediaPlaybackAssumption, Video!TypeOK, Video!Media
<1>2. fadeChains \in Staged
  BY DEF Video!TypeOK
<1>3. ASSUME Video!FadeOut PROVE VideoInv'
  <2>1. /\ fadeChains' \in Staged
        /\ \A k \in Video!Media : fadeChains'[k] # None => fadeChains'[k] = fadeChains[k]
    BY <1>2, <1>3, CancelledChains DEF Video!FadeOut
  <2> QED BY <1>3, <2>1 DEF Video!FadeOut, Video!TypeOK
<1>4. ASSUME NEW kind \in Video!Kinds, Video!Swap(kind) PROVE VideoInv'
  <2>1. Video!Unloaded(fadeChains) \in Staged
    BY <1>2 DEF Video!Unloaded
  <2>2. \A k \in Video!Media : Video!Unloaded(fadeChains)[k] # None
                               => Video!Unloaded(fadeChains)[k] = fadeChains[k]
    BY DEF Video!Unloaded
  <2>3. /\ fadeChains' \in Staged
        /\ \A k \in Video!Media : fadeChains'[k] # None => fadeChains[k] # None
    BY <1>4, <2>1, <2>2, CancelledChains DEF Video!Swap
  <2>4. media' \in Video!Media /\ media' = media + 1
    BY <1>1, <1>4 DEF Video!Swap, Video!Media, Video!TypeOK
  <2>5. /\ kinds' \in [Video!Media -> Video!Kinds \cup {None}]
        /\ \A k \in Video!Media : k <= media => kinds'[k] = kinds[k]
    BY <1>1, <1>4, <2>4 DEF Video!Swap, Video!TypeOK
  <2>6. \A k \in Video!Media : fadeChains'[k] # None => kinds'[k] = "video" /\ k <= media'
    BY <1>1, <2>3, <2>4, <2>5 DEF Video!TypeOK
  <2>7. extracting' \subseteq Video!Media
    BY <1>4, <2>4 DEF Video!Swap, Video!Extracts, Video!TypeOK
  <2> QED BY <1>4, <2>3, <2>4, <2>5, <2>6, <2>7 DEF Video!Swap, Video!TypeOK
<1>5. ASSUME Video!Resume PROVE VideoInv'
  <2>1. Video!Started(media, kinds[media]) \in Video!Stages \cup {None}
    BY DEF Video!Started, Video!Stages
  <2>2. fadeChains' \in Staged
    BY <1>2, <1>5, <2>1 DEF Video!Resume
  <2>3. \A k \in Video!Media : fadeChains'[k] # None => kinds[k] = "video" /\ k <= media
    BY <1>1, <1>5 DEF Video!Resume, Video!Started, Video!TypeOK
  <2> QED BY <1>5, <2>2, <2>3 DEF Video!Resume, Video!TypeOK
<1>6. ASSUME NEW k \in Video!Media, Video!ChainStep(k) PROVE VideoInv'
  <2>1. Video!After(fadeChains[k]) \in Video!Stages \cup {None}
    BY DEF Video!After, Video!Stages, Video!Easing
  <2>2. fadeChains' \in Staged
    BY <1>2, <1>6, <2>1 DEF Video!ChainStep
  <2>3. showFirstFrame' \in BOOLEAN
    BY <1>6 DEF Video!ChainStep, Video!TypeOK
  <2>4. easeOutTimeout' \in Video!Media \cup {None}
    BY <1>6 DEF Video!ChainStep, Video!TypeOK
  <2>5. \A j \in Video!Media : fadeChains'[j] # None => kinds[j] = "video" /\ j <= media
    BY <1>2, <1>6 DEF Video!ChainStep, Video!TypeOK
  <2> QED BY <1>6, <2>2, <2>3, <2>4, <2>5 DEF Video!ChainStep, Video!TypeOK
<1>7. ASSUME NEW k \in Video!Media, Video!ChainDies(k) PROVE VideoInv'
  BY <1>7 DEF Video!ChainDies, Video!TypeOK
<1>8. ASSUME NEW k \in Video!Media, Video!Extracted(k) PROVE VideoInv'
  BY <1>8 DEF Video!Extracted, Video!TypeOK
<1>9. ASSUME UNCHANGED Video!vars PROVE VideoInv'
  BY <1>9 DEF Video!vars, Video!TypeOK
<1> QED BY <1>3, <1>4, <1>5, <1>6, <1>7, <1>8, <1>9 DEF Video!Next

-----------------------------------------------------------------------------
LEMMA OptionsInit == Options!Init => Options!TypeOK
<1> SUFFICES ASSUME Options!Init PROVE Options!TypeOK
  OBVIOUS
<1>1. Options!Initial \in Options!Settings /\ 0 \in 0..MaxOptionEdits
  BY PagePartsAssumption
     DEF Options!OptionsSyncAssumption, Options!Initial, Options!Settings, Options!NoParams,
         Options!NoExtras
<1> QED BY <1>1 DEF Options!Init, Options!TypeOK

LEMMA OptionsTyped == Options!TypeOK /\ [Options!Next]_(Options!vars) => Options!TypeOK'
<1> SUFFICES ASSUME Options!TypeOK, [Options!Next]_(Options!vars) PROVE Options!TypeOK'
  OBVIOUS
<1>1. MaxOptionEdits \in Nat /\ OptionValues \subseteq OptionValues \cup {None}
      /\ Default \in OptionValues
  BY PagePartsAssumption DEF Options!OptionsSyncAssumption
<1>2. ASSUME Options!Edit
      PROVE  optionEdits' \in 0..MaxOptionEdits /\ rendered' \in BOOLEAN
  <2>1. optionEdits \in 0..MaxOptionEdits
    BY DEF Options!TypeOK
  <2>2. optionEdits' = optionEdits + 1 /\ optionEdits < MaxOptionEdits /\ rendered' = FALSE
    BY <1>2 DEF Options!Edit
  <2>3. optionEdits' \in 0..MaxOptionEdits
    BY <1>1, <2>1, <2>2
  <2> QED BY <2>2, <2>3
<1>3. page \in Options!Settings /\ formOptions \in Options!Settings
  BY DEF Options!TypeOK
<1>4. ASSUME Options!RunEffects PROVE Options!TypeOK'
  <2>1. Options!Synced(formOptions) \in Options!Settings
    BY <1>3 DEF Options!Synced, Options!Settings
  <2>2. Options!WithDefaults(page) \in Options!Settings
    BY <1>1, <1>3 DEF Options!WithDefaults, Options!Settings
  <2> QED BY <1>4, <2>1, <2>2 DEF Options!RunEffects, Options!TypeOK
<1>5. ASSUME NEW w \in Workflows \cup {AutoPick} 
      PROVE  /\ [page EXCEPT !.workflow = w] \in Options!Settings
             /\ [formOptions EXCEPT !.workflow = w, !.params = Options!NoParams] \in Options!Settings
  BY <1>3 DEF Options!Settings, Options!NoParams
<1>6. ASSUME NEW r \in Refiners \cup {AutoPick}
      PROVE  /\ [page EXCEPT !.refiner = r] \in Options!Settings
             /\ [formOptions EXCEPT !.refiner = r, !.extras = Options!NoExtras] \in Options!Settings
  BY <1>3 DEF Options!Settings, Options!NoExtras
<1>7. ASSUME NEW w \in Workflows \cup {AutoPick}, Options!PickWorkflow(w) PROVE Options!TypeOK'
  BY <1>2, <1>5, <1>7 DEF Options!PickWorkflow, Options!TypeOK
<1>8. ASSUME NEW r \in Refiners \cup {AutoPick}, Options!PickRefiner(r) PROVE Options!TypeOK'
  BY <1>2, <1>6, <1>8 DEF Options!PickRefiner, Options!TypeOK
<1>9. ASSUME Options!ToggleSheet \/ Options!CloseSheet \/ Options!SheetCloses
      PROVE  Options!TypeOK'
  <2>1. sheet' \in [open : BOOLEAN, closing : BOOLEAN]
    <3>1. \A b \in BOOLEAN : /\ [sheet EXCEPT !.open = b] \in [open : BOOLEAN, closing : BOOLEAN]
                             /\ [sheet EXCEPT !.closing = b] \in [open : BOOLEAN, closing : BOOLEAN]
      BY DEF Options!TypeOK
    <3>2. sheet' \in {[sheet EXCEPT !.open = TRUE], [sheet EXCEPT !.closing = TRUE],
                     [open |-> FALSE, closing |-> FALSE]}
      BY <1>9 DEF Options!ToggleSheet, Options!CloseSheet, Options!SheetCloses
    <3>3. [open |-> FALSE, closing |-> FALSE] \in [open : BOOLEAN, closing : BOOLEAN]
      OBVIOUS
    <3> QED BY <3>1, <3>2, <3>3
  <2> QED BY <1>9, <2>1
          DEF Options!ToggleSheet, Options!CloseSheet, Options!SheetCloses, Options!TypeOK
<1>10. ASSUME NEW w \in Workflows, NEW r \in Refiners, Options!SheetPicks(w, r)
       PROVE  Options!TypeOK'
  <2>1. page' \in Options!Settings
    BY <1>5, <1>6, <1>10 DEF Options!SheetPicks
  <2> QED BY <1>2, <1>10, <2>1 DEF Options!SheetPicks, Options!TypeOK
<1>11. ASSUME NEW v \in OptionValues,
              \/ \E p \in Options!Params : Options!ChangeParam(p, v)
              \/ \E e \in Options!Extras : Options!ChangeExtra(e, v)
       PROVE  Options!TypeOK'
  <2>1. page' \in Options!Settings
    BY <1>3, <1>11 DEF Options!ChangeParam, Options!ChangeExtra, Options!Settings
  <2> QED BY <1>2, <1>11, <2>1 DEF Options!ChangeParam, Options!ChangeExtra, Options!TypeOK
<1>12. ASSUME Options!Submit PROVE Options!TypeOK'
  BY <1>2, <1>3, <1>12 DEF Options!Submit, Options!TypeOK
<1>13. ASSUME UNCHANGED Options!vars PROVE Options!TypeOK'
  BY <1>13 DEF Options!vars, Options!TypeOK
<1> QED BY <1>4, <1>7, <1>8, <1>9, <1>10, <1>11, <1>12, <1>13 DEF Options!Next

-----------------------------------------------------------------------------
(* The parts together, one of which moves.                                  *)

PagesInv ==
    /\ side = "statuses" => StatusesInv /\ Statuses!TypeOK
    /\ side = "url" => UrlInv /\ Url!TypeOK
    /\ side = "overlays" => ScreenInv
    /\ side = "controls" => ControlsInv
    /\ side = "video" => VideoInv
    /\ side = "vars" => Vars!TypeOK
    /\ side = "light" => LightInv /\ Light!TypeOK
    /\ side = "admin" => AdminInv
    /\ side = "slider" => Slider!TypeOK
    /\ side = "notes" => Notes!TypeOK
    /\ side = "tabs" => TabsInv
    /\ side = "options" => Options!TypeOK
    /\ side = "zoom" => ZoomInv /\ Zoom!TypeOK
    /\ side = "card" => Card!TypeOK
    /\ side = "media" => Media(Types, PollIds)!TypeOK
    /\ side = "overlap" => Media(OverlapTypes, OverlapPolls)!TypeOK
    /\ side = "record" => RecordInv

(* Each part keeps the types of its variables, in whichever of its initial  *)
(* states it starts.                                                        *)
LEMMA PagesStart == PagesInit => PagesInv
<1> SUFFICES ASSUME PagesInit PROVE PagesInv
  OBVIOUS
<1>1. side = "media" => Media(Types, PollIds)!TypeOK
  BY MediaInit, PagePartsAssumption DEF PagesInit
<1>2. side = "overlap" => Media(OverlapTypes, OverlapPolls)!TypeOK
  BY MediaInit, PagePartsAssumption DEF PagesInit
<1> QED
  BY <1>1, <1>2, StatusesInit, UrlInit, ScreenInit, ControlsInit, VideoInit, VarsInit, LightInit,
     AdminInit, SliderInit, NotesInit, TabsInit, OptionsInit, ZoomInit, CardInit, RecordInit
  DEF PagesInit, PagesInv

LEMMA PagesKeep == PagesInv /\ [PagesNext]_pagesVars => PagesInv'
<1> SUFFICES ASSUME PagesInv, [PagesNext]_pagesVars PROVE PagesInv'
  OBVIOUS
<1>0. side' = side
  BY DEF PagesNext, pagesVars
<1>1. ASSUME side = "statuses" PROVE StatusesInv' /\ Statuses!TypeOK'
  <2>1. [Statuses!Next]_(Statuses!vars)
    BY <1>1 DEF PagesNext, pagesVars, statusesVars, Statuses!vars
  <2> QED BY <1>1, <2>1, StatusesNext, StatusesTyped, PagePartsAssumption DEF PagesInv
<1>2. ASSUME side = "url" PROVE UrlInv' /\ Url!TypeOK'
  <2>1. [Url!Next]_(Url!vars)
    BY <1>2 DEF PagesNext, pagesVars, urlVars, Url!vars
  <2> QED BY <1>2, <2>1, UrlNext, UrlTyped DEF PagesInv
<1>3. ASSUME side = "overlays" PROVE ScreenInv'
  <2>1. [Screen!Next]_(Screen!vars)
    BY <1>3 DEF PagesNext, pagesVars, overlaysVars, Screen!vars
  <2> QED BY <1>3, <2>1, ScreenTyped DEF PagesInv
<1>4. ASSUME side = "controls" PROVE ControlsInv'
  <2>1. [Controls!Next]_(Controls!vars)
    BY <1>4 DEF PagesNext, pagesVars, controlsVars, Controls!vars
  <2> QED BY <1>4, <2>1, ControlsTyped DEF PagesInv
<1>5. ASSUME side = "video" PROVE VideoInv'
  <2>1. [Video!Next]_(Video!vars)
    BY <1>5 DEF PagesNext, pagesVars, videoVars, Video!vars
  <2> QED BY <1>5, <2>1, VideoTyped DEF PagesInv
<1>6. ASSUME side = "vars" PROVE Vars!TypeOK'
  <2>1. [Vars!Next]_(Vars!vars)
    BY <1>6 DEF PagesNext, pagesVars, varsVars, Vars!vars
  <2> QED BY <1>6, <2>1, VarsTyped DEF PagesInv
<1>7. ASSUME side = "light" PROVE LightInv' /\ Light!TypeOK'
  <2>1. [Light!Next]_(Light!vars)
    BY <1>7 DEF PagesNext, pagesVars, lightVars, Light!vars
  <2> QED BY <1>7, <2>1, LightNext, LightTyped, PagePartsAssumption DEF PagesInv
<1>8. ASSUME side = "admin" PROVE AdminInv'
  <2>1. [Admin!Next]_(Admin!vars)
    BY <1>8 DEF PagesNext, pagesVars, adminVars, Admin!vars
  <2> QED BY <1>8, <2>1, AdminTyped DEF PagesInv
<1>9. ASSUME side = "slider" PROVE Slider!TypeOK'
  <2>1. [Slider!Next]_(Slider!vars)
    BY <1>9 DEF PagesNext, pagesVars, sliderVars, Slider!vars
  <2> QED BY <1>9, <2>1, SliderTyped DEF PagesInv
<1>10. ASSUME side = "notes" PROVE Notes!TypeOK'
  <2>1. [Notes!Next]_(Notes!vars)
    BY <1>10 DEF PagesNext, pagesVars, notesVars, Notes!vars
  <2> QED BY <1>10, <2>1, NotesTyped DEF PagesInv
<1>11. ASSUME side = "tabs" PROVE TabsInv'
  <2>1. [Tabs!Next]_(Tabs!vars)
    BY <1>11 DEF PagesNext, pagesVars, tabsVars, Tabs!vars
  <2> QED BY <1>11, <2>1, TabsTyped DEF PagesInv
<1>12. ASSUME side = "options" PROVE Options!TypeOK'
  <2>1. [Options!Next]_(Options!vars)
    BY <1>12 DEF PagesNext, pagesVars, optionsVars, Options!vars
  <2> QED BY <1>12, <2>1, OptionsTyped DEF PagesInv
<1>13. ASSUME side = "zoom" PROVE ZoomInv' /\ Zoom!TypeOK'
  <2>1. [Zoom!Next]_(Zoom!vars)
    BY <1>13 DEF PagesNext, pagesVars, zoomVars, Zoom!vars
  <2> QED BY <1>13, <2>1, ZoomNext, ZoomTyped DEF PagesInv
<1>14. ASSUME side = "card" PROVE Card!TypeOK'
  <2>1. [Card!Next]_(Card!vars)
    BY <1>14 DEF PagesNext, pagesVars, cardVars, Card!vars
  <2> QED BY <1>14, <2>1, CardTyped DEF PagesInv
<1>15. ASSUME side = "media" PROVE Media(Types, PollIds)!TypeOK'
  <2>1. [Media(Types, PollIds)!Next]_(Media(Types, PollIds)!vars)
    BY <1>15 DEF PagesNext, pagesVars, mediaVars, Media!vars
  <2> QED BY <1>15, <2>1, MediaNext, PagePartsAssumption DEF PagesInv
<1>16. ASSUME side = "overlap" PROVE Media(OverlapTypes, OverlapPolls)!TypeOK'
  <2>1. [Media(OverlapTypes, OverlapPolls)!Next]_(Media(OverlapTypes, OverlapPolls)!vars)
    BY <1>16 DEF PagesNext, pagesVars, mediaVars, Media!vars
  <2> QED BY <1>16, <2>1, MediaNext, PagePartsAssumption DEF PagesInv
<1>17. ASSUME side = "record" PROVE RecordInv'
  <2>1. [Record!Next]_(Record!vars)
    BY <1>17 DEF PagesNext, pagesVars, recordVars, Record!vars, Record!server, Record!phone,
           Record!masks, Record!asks
  <2> QED BY <1>17, <2>1, RecordTyped DEF PagesInv
<1> QED
  BY <1>0, <1>1, <1>2, <1>3, <1>4, <1>5, <1>6, <1>7, <1>8, <1>9,
     <1>10, <1>11, <1>12, <1>13, <1>14, <1>15, <1>16, <1>17
  DEF PagesInv

(* The small parts of the pages: for any constants and whichever part       *)
(* moves, its variables keep their types.  Some of these are bounds that    *)
(* nothing checks in the code: the retries of a screen's socket, the        *)
(* refreshes due on the administration page, the media faded in, the builds *)
(* of the app that records.                                                 *)
THEOREM PagesAreTyped == PagesSpec => []PagesTypeOK
<1>1. PagesInv => PagesTypeOK
  BY DEF PagesInv, PagesTypeOK, ScreenInv, ControlsInv, VideoInv, AdminInv, TabsInv, RecordInv
<1> QED BY <1>1, PagesStart, PagesKeep, PTL DEF PagesSpec

=============================================================================
