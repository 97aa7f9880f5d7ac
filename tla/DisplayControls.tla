--------------------------- MODULE DisplayControls ---------------------------
(***************************************************************************)
(* A screen's brightness layer, and the controls a touch brings up.        *)
(*                                                                         *)
(* The layer's brightness is asked for every three seconds: an answer or a *)
(* failure sets the next timer.  Turning the mask off and on ends the      *)
(* effect that polls: it clears its timer, which does not stop a request   *)
(* under way from setting another.  The controls hide four seconds after   *)
(* the last touch; while they show, three requests are repeated, and what  *)
(* an effect that has ended asked for is dropped.                          *)
(***************************************************************************)
EXTENDS Naturals

CONSTANTS Chains,     \* effects of useMask that poll
          Asked,      \* what the controls ask for: status, triggers, next event
          Gone,
          Full,       \* the brightest level
          MaxTouches, \* bound on touches
          MaxLevels,  \* bound on changes of the brightness
          MaxFailures \* bound on requests that fail

DisplayControlsAssumption ==
    {Full, MaxTouches, MaxLevels, MaxFailures} \subseteq Nat

VARIABLES showControls, controlsTimer,
          touches,
          asking,     \* the controls' requests under way, of which opening
          opening,    \* the effects' number: one for each time the controls show
          info,       \* what the controls show
          baseName,   \* useBaseFileName
          noMask,
          own,        \* the effect of useMask that is mounted
          chains,     \* each effect: its request under way or its timer
          level,      \* the server's brightness
          brightness, \* state.brightness
          failed,     \* error
          levels, failures

controls == <<showControls, controlsTimer, touches, asking, opening, info>>
mask     == <<own, chains, level, brightness, failed, levels>>
vars == <<showControls, controlsTimer, touches, asking, opening, info, baseName,
          noMask, own, chains, level, brightness, failed, levels, failures>>

-----------------------------------------------------------------------------
Levels  == 0..Full
Answers == [st : {"answered"}, b : Levels \cup {Gone}]
Idle    == [st |-> "idle", b |-> Gone]
Asking  == [st |-> "asking", b |-> Gone]
Waiting == [st |-> "waiting", b |-> Gone]

TypeOK ==
    /\ showControls \in BOOLEAN /\ controlsTimer \in BOOLEAN
    /\ touches \in 0..MaxTouches /\ opening \in 0..MaxTouches
    /\ asking \subseteq Asked \X (1..MaxTouches)
    /\ info \in [Asked -> {"known", Gone}]
    /\ baseName \in {"asked", "file", "screen"}
    /\ noMask \in BOOLEAN /\ own \in Chains \cup {Gone}
    /\ chains \in [Chains -> Answers \cup {Idle, Asking, Waiting}]
    /\ level \in Levels /\ brightness \in Levels /\ failed \in BOOLEAN
    /\ levels \in 0..MaxLevels /\ failures \in 0..MaxFailures

\* The polling starts with the first request, and the screen black.
Init ==
    /\ showControls = FALSE /\ controlsTimer = FALSE /\ touches = 0
    /\ asking = {} /\ opening = 0 /\ info = [a \in Asked |-> Gone]
    /\ baseName = "asked" /\ noMask = FALSE
    /\ own \in Chains /\ chains = [c \in Chains |-> IF c = own THEN Asking ELSE Idle]
    /\ level = Full /\ brightness = 0 /\ failed = FALSE
    /\ levels = 0 /\ failures = 0

Fails == failures < MaxFailures /\ failures' = failures + 1

-----------------------------------------------------------------------------
(* The controls                                                            *)

\* Mutant: a touch while the controls show clears the timer and sets none.
RearmOnce == ~showControls
Rearm == TRUE
Touch ==
    /\ touches < MaxTouches /\ touches' = touches + 1
    /\ showControls' = TRUE /\ controlsTimer' = Rearm
    /\ opening' = IF showControls THEN opening ELSE opening + 1
    /\ asking' = IF showControls THEN asking ELSE asking \cup {<<a, opening + 1>> : a \in Asked}
    /\ UNCHANGED <<info, baseName, noMask, mask, failures>>
ControlsHide ==
    /\ controlsTimer /\ controlsTimer' = FALSE /\ showControls' = FALSE
    /\ UNCHANGED <<touches, asking, opening, info, baseName, noMask, mask, failures>>
\* The interval of an effect that is mounted.
AskAgain(a) ==
    /\ showControls /\ <<a, opening>> \notin asking
    /\ asking' = asking \cup {<<a, opening>>}
    /\ UNCHANGED <<showControls, controlsTimer, touches, opening, info, baseName,
                   noMask, mask, failures>>
\* isMounted: the answer of an effect that has ended is dropped.
Learn(a, k, what) ==
    /\ <<a, k>> \in asking /\ asking' = asking \ {<<a, k>>}
    /\ info' = IF showControls /\ k = opening THEN [info EXCEPT ![a] = what] ELSE info
    /\ UNCHANGED <<showControls, controlsTimer, touches, opening, baseName, noMask, mask>>
Answered(a, k) == Learn(a, k, "known") /\ UNCHANGED failures
Refused(a, k)  == Learn(a, k, Gone) /\ Fails

\* useBaseFileName: the destination's file, or the screen's name.
BaseNameLands ==
    /\ baseName = "asked"
    /\ \/ baseName' \in {"file", "screen"} /\ UNCHANGED failures
       \/ baseName' = "screen" /\ Fails
    /\ UNCHANGED <<controls, noMask, mask>>

-----------------------------------------------------------------------------
(* The mask                                                                *)

\* Its cleanup clears the timer: a request under way sets it again.
Ended(c) == IF chains[c] = Waiting THEN Idle ELSE chains[c]
\* toggleNoMask: the effect on disabled ends, or one starts.
ToggleNoMask ==
    /\ showControls /\ noMask' = ~noMask
    /\ IF noMask
       THEN \E c \in Chains : chains[c] = Idle /\ own' = c
                              /\ chains' = [chains EXCEPT ![c] = Asking]
       ELSE own' = Gone /\ chains' = [chains EXCEPT ![own] = Ended(own)]
    /\ UNCHANGED <<controls, baseName, level, brightness, failed, levels, failures>>

Dims ==
    /\ levels < MaxLevels /\ levels' = levels + 1
    /\ level' \in Levels \ {level}
    /\ UNCHANGED <<controls, baseName, noMask, own, chains, brightness, failed, failures>>

MaskServed(c) ==
    /\ chains[c] = Asking
    /\ \/ chains' = [chains EXCEPT ![c] = [st |-> "answered", b |-> level]]
          /\ UNCHANGED failures
       \/ chains' = [chains EXCEPT ![c] = [st |-> "answered", b |-> Gone]] /\ Fails
    /\ UNCHANGED <<controls, baseName, noMask, own, level, brightness, failed, levels>>
\* Mutant: only an answer sets the next timer.
ThenOnSuccess(b) == IF b = Gone THEN Idle ELSE Waiting
Then(b) == Waiting
MaskLands(c) ==
    /\ chains[c].st = "answered"
    /\ brightness' = IF chains[c].b = Gone THEN 0 ELSE chains[c].b
    /\ failed' = (chains[c].b = Gone)
    /\ chains' = [chains EXCEPT ![c] = Then(chains[c].b)]
    /\ UNCHANGED <<controls, baseName, noMask, own, level, levels, failures>>
MaskPolls(c) ==
    /\ chains[c] = Waiting /\ chains' = [chains EXCEPT ![c] = Asking]
    /\ UNCHANGED <<controls, baseName, noMask, own, level, brightness, failed,
                   levels, failures>>

\* How black the layer is: rgba.
Opacity == IF noMask THEN 0 ELSE Full - brightness

-----------------------------------------------------------------------------
Next == \/ Touch \/ ControlsHide \/ BaseNameLands \/ ToggleNoMask \/ Dims
        \/ \E a \in Asked : AskAgain(a)
        \/ \E a \in Asked, k \in 1..MaxTouches : Answered(a, k) \/ Refused(a, k)
        \/ \E c \in Chains : MaskServed(c) \/ MaskLands(c) \/ MaskPolls(c)

MaskRuns(c) == MaskServed(c) \/ MaskLands(c) \/ MaskPolls(c)
Spec == Init /\ [][Next]_vars
        /\ WF_vars(ControlsHide) /\ \A c \in Chains : WF_vars(MaskRuns(c))

-----------------------------------------------------------------------------
\* The controls go away after the last touch.
ControlsGo == <>[]~showControls

\* Once the brightness and the requests settle, the layer comes to the
\* brightness the server gives and stays there, whatever polls under way the
\* toggling has left behind.
CaughtUp == Opacity = IF noMask THEN 0 ELSE Full - level
MaskCatchesUp == <>[]CaughtUp
=============================================================================
