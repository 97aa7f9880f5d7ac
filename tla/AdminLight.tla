------------------------------ MODULE AdminLight ------------------------------
(***************************************************************************)
(* The brightness of a screen on the admin page.                           *)
(*                                                                         *)
(* The page asks for the light when it opens and every two minutes.  The   *)
(* slider shows its value at once and posts it; a post that fails is not   *)
(* noticed, and posts arrive in any order.  auto deletes the override and  *)
(* asks for the light.                                                     *)
(***************************************************************************)
EXTENDS Naturals

CONSTANTS Asks,      \* fetchLight that may be under way
          Auto,      \* no override: the sensor's brightness
          None,      \* nothing under way, nothing known
          Bright,    \* the brightest level
          MaxSlides, \* bound on slides and returns to auto
          MaxBreaks  \* bound on requests that fail

AdminLightAssumption == {Bright, MaxSlides, MaxBreaks} \subseteq Nat

VARIABLES override,  \* the server's
          overrides, \* the page's, with what maskData shows
          asks,      \* fetchLight under way
          posts,     \* brightness-override requests under way
          slides, breaks

vars == <<override, overrides, asks, posts, slides, breaks>>

-----------------------------------------------------------------------------
Lights == 0..Bright \cup {Auto}
Idle   == [st |-> "idle", got |-> None]
Asked  == [st |-> "asked", got |-> None]
Asking == [st : {"idle", "asked"}, got : {None}] \cup [st : {"served"}, got : Lights]

TypeOK ==
    /\ override \in Lights /\ overrides \in Lights \cup {None}
    /\ asks \in [Asks -> Asking]
    /\ posts \subseteq (1..MaxSlides) \X Lights
    /\ slides \in 0..MaxSlides /\ breaks \in 0..MaxBreaks

Init ==
    /\ override \in Lights /\ overrides = None
    /\ \E f \in Asks : asks = [g \in Asks |-> IF g = f THEN Asked ELSE Idle]
    /\ posts = {} /\ slides = 0 /\ breaks = 0

-----------------------------------------------------------------------------
AskLight(f) == asks[f] = Idle /\ asks' = [asks EXCEPT ![f] = Asked]
LightPolls(f) == AskLight(f) /\ UNCHANGED <<override, overrides, posts, slides, breaks>>
LightServed(f) ==
    /\ asks[f] = Asked
    /\ asks' = [asks EXCEPT ![f] = [st |-> "served", got |-> override]]
    /\ UNCHANGED <<override, overrides, posts, slides, breaks>>
\* One of the five requests fails: the override is not taken.
LightBreaks(f) ==
    /\ asks[f] = Asked /\ asks' = [asks EXCEPT ![f] = Idle]
    /\ breaks < MaxBreaks /\ breaks' = breaks + 1
    /\ UNCHANGED <<override, overrides, posts, slides>>
\* Mutant: an override that the slider set is kept.
TakenUnlessSet(got) == IF overrides \in 0..Bright THEN overrides ELSE got
Taken(got) == got
LightLands(f) ==
    /\ asks[f].st = "served" /\ asks' = [asks EXCEPT ![f] = Idle]
    /\ overrides' = Taken(asks[f].got)
    /\ UNCHANGED <<override, posts, slides, breaks>>

Posts(b) == /\ slides < MaxSlides /\ slides' = slides + 1
            /\ posts' = posts \cup {<<slides + 1, b>>}
Slide(b) ==
    /\ Posts(b) /\ overrides' = b
    /\ UNCHANGED <<override, asks, breaks>>
BackToAuto ==
    /\ overrides \in 0..Bright /\ Posts(Auto)
    /\ UNCHANGED <<override, overrides, asks, breaks>>
PostServed(p) ==
    /\ p \in posts /\ posts' = posts \ {p} /\ override' = p[2]
    /\ IF p[2] = Auto THEN \E f \in Asks : AskLight(f) ELSE UNCHANGED asks
    /\ UNCHANGED <<overrides, slides, breaks>>
PostBreaks(p) ==
    /\ p \in posts /\ posts' = posts \ {p}
    /\ breaks < MaxBreaks /\ breaks' = breaks + 1
    /\ UNCHANGED <<override, overrides, asks, slides>>

-----------------------------------------------------------------------------
Next == \/ \E f \in Asks : LightPolls(f) \/ LightServed(f) \/ LightBreaks(f) \/ LightLands(f)
        \/ (\E b \in 0..Bright : Slide(b)) \/ BackToAuto
        \/ \E p \in posts : PostServed(p) \/ PostBreaks(p)

LightGoes(f) == LightPolls(f) \/ LightServed(f) \/ LightLands(f)
Spec == Init /\ [][Next]_vars /\ \A f \in Asks : WF_vars(LightGoes(f))

-----------------------------------------------------------------------------
\* The page comes to show the override the server has, also when a post of the
\* slider failed or overtook another.
CaughtUp == overrides = override
LightCatchesUp == <>[]CaughtUp
=============================================================================
