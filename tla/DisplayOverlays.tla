--------------------------- MODULE DisplayOverlays ---------------------------
(***************************************************************************)
(* A screen's overlays: messages of a web socket, laid over the media.     *)
(*                                                                         *)
(* A message adds an overlay, after taking all others away when it says    *)
(* clear.  Three timers belong to it and none is ever cancelled: fifty     *)
(* milliseconds on it fades in, after its duration it fades out, and five  *)
(* seconds after that it is removed.  A socket that closes, or does not    *)
(* open, is opened again after a delay that grows.                         *)
(***************************************************************************)
EXTENDS Naturals

CONSTANTS Overlays,  \* the ids generateId gives
          Gone,
          MaxDrops,  \* bound on connections that close or fail
          MaxBackoff \* where the delay stops growing

DisplayOverlaysAssumption == {MaxDrops, MaxBackoff} \subseteq Nat

VARIABLES overlays, \* the list: each overlay's visibility, or Gone
          used,     \* history: the ids given
          timers,   \* the timeouts pending, of which overlay and for what
          link,     \* the web socket
          retry,    \* reconnectTimeout: the delay it waits, or Gone
          attempts, \* reconnectAttempts
          linkDrops

vars == <<overlays, used, timers, link, retry, attempts, linkDrops>>
linkVars == <<link, retry, attempts, linkDrops>>

-----------------------------------------------------------------------------
Steps == {"fadeIn", "hide", "remove"}
Delays == 0..MaxBackoff

TypeOK ==
    /\ overlays \in [Overlays -> {"visible", "hidden", Gone}]
    /\ used \subseteq Overlays
    /\ timers \subseteq Overlays \X Steps
    /\ link \in {"connecting", "open", "closed"}
    /\ retry \in Delays \cup {Gone}
    /\ attempts \in 0..MaxDrops /\ linkDrops \in 0..MaxDrops

Init ==
    /\ overlays = [o \in Overlays |-> Gone] /\ used = {} /\ timers = {}
    /\ link = "connecting" /\ retry = Gone /\ attempts = 0 /\ linkDrops = 0

-----------------------------------------------------------------------------
\* A message with fadein 0 is visible at once.
Base(clear) == IF clear THEN [o \in Overlays |-> Gone] ELSE overlays
TimersOf(o, fadein) == {<<o, "hide">>} \cup (IF fadein THEN {<<o, "fadeIn">>} ELSE {})

OverlayMessage(o, clear, fadein) ==
    /\ link = "open" /\ o \notin used /\ used' = used \cup {o}
    /\ overlays' = [Base(clear) EXCEPT ![o] = IF fadein THEN "hidden" ELSE "visible"]
    /\ timers' = timers \cup TimersOf(o, fadein)
    /\ UNCHANGED linkVars

Changed(o, to) == IF overlays[o] = Gone THEN overlays
                                        ELSE [overlays EXCEPT ![o] = to]

FadeIn(o) ==
    /\ <<o, "fadeIn">> \in timers /\ timers' = timers \ {<<o, "fadeIn">>}
    /\ overlays' = Changed(o, "visible")
    /\ UNCHANGED <<used, linkVars>>
\* Mutant: the removal is only set for an overlay that is still listed visible.
AfterHideOfVisible(o) == IF overlays[o] = "visible" THEN {<<o, "remove">>} ELSE {}
AfterHide(o) == {<<o, "remove">>}
\* The duration is over, before the fade in when it is that short.
Hide(o) ==
    /\ <<o, "hide">> \in timers
    /\ timers' = (timers \ {<<o, "hide">>}) \cup AfterHide(o)
    /\ overlays' = Changed(o, "hidden")
    /\ UNCHANGED <<used, linkVars>>
\* Five seconds later, the fade in is long over.
Remove(o) ==
    /\ <<o, "remove">> \in timers /\ <<o, "fadeIn">> \notin timers
    /\ timers' = timers \ {<<o, "remove">>}
    /\ overlays' = [overlays EXCEPT ![o] = Gone]
    /\ UNCHANGED <<used, linkVars>>

-----------------------------------------------------------------------------
(* The web socket                                                          *)

LinkOpens ==
    /\ link = "connecting" /\ link' = "open" /\ attempts' = 0
    /\ UNCHANGED <<overlays, used, timers, retry, linkDrops>>
Delay(n) == IF n < MaxBackoff THEN n ELSE MaxBackoff
\* Mutant: an attempt that does not open is not followed by another.
RetryOnce(n) == IF link = "open" THEN Delay(n) ELSE Gone
RetryAfter(n) == Delay(n)
\* onclose, also of a connection that did not open: onerror closes it.
LinkCloses ==
    /\ link # "closed" /\ linkDrops < MaxDrops /\ linkDrops' = linkDrops + 1
    /\ link' = "closed" /\ attempts' = attempts + 1
    /\ retry' = RetryAfter(attempts + 1)
    /\ UNCHANGED <<overlays, used, timers>>
Reconnect ==
    /\ retry # Gone /\ retry' = Gone /\ link' = "connecting"
    /\ UNCHANGED <<overlays, used, timers, attempts, linkDrops>>

-----------------------------------------------------------------------------
Next == \/ \E o \in Overlays, clear, fadein \in BOOLEAN : OverlayMessage(o, clear, fadein)
        \/ \E o \in Overlays : FadeIn(o) \/ Hide(o) \/ Remove(o)
        \/ LinkOpens \/ LinkCloses \/ Reconnect

OverlayTimers == \E o \in Overlays : FadeIn(o) \/ Hide(o) \/ Remove(o)
Links == LinkOpens \/ Reconnect

Spec == Init /\ [][Next]_vars /\ WF_vars(OverlayTimers) /\ WF_vars(Links)

-----------------------------------------------------------------------------
\* Every overlay goes away, whatever its duration and its fade in, and
\* whatever other messages clear meanwhile.
NoOverlays == \A o \in Overlays : overlays[o] = Gone
OverlaysGo == <>[]NoOverlays

\* The screen is connected again after every failure, failed attempts too.
LinkReturns == <>[](link = "open")
=============================================================================
