------------------------------ MODULE LoopeZoom ------------------------------
(***************************************************************************)
(* The gestures of the picture viewer: what opens its zoom, what toggles   *)
(* the 1:1 view inside it, and what closes it.  Three of them are not over *)
(* when their event is: a pinch zooms in the next frame, a pinch outwards  *)
(* closes the zoom from a timer, and a tap is half of a double tap for a   *)
(* while.  The transform component and the time between taps are external. *)
(***************************************************************************)
EXTENDS Naturals

CONSTANTS Pictures, None,
          MaxTouches  \* bound on the fingers put on the zoomed picture

LoopeZoomAssumption == None \notin Pictures /\ MaxTouches \in Nat

VARIABLES shown,   \* the viewer's picture, or None when it is closed
          flipped, \* the metadata is shown; kept when the viewer closes
          zoom,    \* zoomSrc
          one,     \* isOneToOne
          mobile,  \* narrow window
          tapped,  \* the last tap was less than 300 ms ago: in the viewer, in the zoom
          fingers, \* fingers on the zoomed picture; whether there have been two
          frame,   \* the picture the next frame will zoom
          closing, \* the timer that closes the zoom
          asked,   \* a delete or a move is on its way and will close the viewer
          touches

vars == <<shown, flipped, zoom, one, mobile, tapped, fingers, frame, closing, asked, touches>>
gesture == <<tapped, fingers, touches>>
later == <<frame, closing, asked>>

TypeOK ==
    /\ {shown, zoom, frame} \subseteq Pictures \cup {None}
    /\ {flipped, one, mobile, closing, asked} \subseteq BOOLEAN
    /\ tapped \in [viewer : BOOLEAN, zoomed : BOOLEAN]
    /\ fingers \in [down : 0..2, pinch : BOOLEAN] /\ touches \in 0..MaxTouches

Up == [down |-> 0, pinch |-> FALSE]
Init == /\ shown = None /\ flipped = FALSE /\ zoom = None /\ one = FALSE
        /\ mobile \in BOOLEAN /\ tapped = [viewer |-> FALSE, zoomed |-> FALSE]
        /\ fingers = Up /\ frame = None /\ closing = FALSE /\ asked = FALSE
        /\ touches = 0

-----------------------------------------------------------------------------
(* The viewer                                                              *)

\* Mutant: leaving the zoom does not leave the 1:1 view.
ZoomEndsOnly ==
    /\ zoom' = None /\ one' = one
    /\ tapped' = [tapped EXCEPT !.zoomed = FALSE] /\ fingers' = Up
\* The zoom ends: with it the 1:1 view, and the listener with its last tap.
ZoomEnds ==
    /\ zoom' = None /\ one' = FALSE
    /\ tapped' = [tapped EXCEPT !.zoomed = FALSE] /\ fingers' = Up

Open(p) ==
    /\ shown = None /\ shown' = p
    /\ UNCHANGED <<flipped, zoom, one, mobile, gesture, later>>
InView == shown # None /\ zoom = None
\* Its buttons, the Escape key, and the two actions that hand the picture to
\* the prompt form.
CloseViewer ==
    /\ InView /\ shown' = None /\ ZoomEnds
    /\ UNCHANGED <<flipped, mobile, touches, later>>
Turn(p) ==
    /\ InView /\ shown' = p
    /\ UNCHANGED <<flipped, zoom, one, mobile, gesture, later>>
\* A swipe up or down, or a key.
Flip == /\ InView /\ flipped' = ~flipped
        /\ UNCHANGED <<shown, zoom, one, mobile, gesture, later>>

AskAction ==
    /\ InView /\ asked' = TRUE
    /\ UNCHANGED <<shown, flipped, zoom, one, mobile, gesture, frame, closing>>
\* Its answer comes whatever the viewer shows by then, and closes that.
ActionAnswered ==
    /\ asked /\ asked' = FALSE
    /\ \/ shown # None /\ shown' = None /\ ZoomEnds
       \/ UNCHANGED <<shown, zoom, one, tapped, fingers>>
    /\ UNCHANGED <<flipped, mobile, touches, frame, closing>>

-----------------------------------------------------------------------------
(* Into the zoom                                                           *)

\* A double click, the wheel, or two fingers on the picture.
ZoomIn == /\ InView /\ zoom' = shown
          /\ UNCHANGED <<shown, flipped, one, mobile, gesture, later>>
\* The second tap zooms, and counts as the first of the next.
HandleTap ==
    /\ InView /\ tapped' = [tapped EXCEPT !.viewer = TRUE]
    /\ zoom' = IF tapped.viewer THEN shown ELSE None
    /\ UNCHANGED <<shown, flipped, one, mobile, fingers, touches, later>>
\* preventBrowserZoom, of two fingers of which one is beside the picture.
PinchMoves ==
    /\ InView /\ frame' = shown
    /\ UNCHANGED <<shown, flipped, zoom, one, mobile, gesture, closing, asked>>
FrameRuns ==
    /\ frame # None /\ zoom' = frame /\ frame' = None
    /\ tapped' = [tapped EXCEPT !.zoomed = tapped.zoomed /\ zoom = frame]
    /\ UNCHANGED <<shown, flipped, one, mobile, fingers, touches, closing, asked>>

-----------------------------------------------------------------------------
(* In the zoom                                                             *)

InZoom == shown # None /\ zoom # None

FingerDown ==
    /\ InZoom /\ fingers.down < 2 /\ touches < MaxTouches /\ touches' = touches + 1
    /\ fingers' = [down |-> fingers.down + 1, pinch |-> fingers.pinch \/ fingers.down = 1]
    /\ UNCHANGED <<shown, flipped, zoom, one, mobile, tapped, later>>
\* onZoom: the scale falls below the threshold.
PinchesOut ==
    /\ InZoom /\ (mobile => fingers.down = 2) /\ closing' = TRUE
    /\ UNCHANGED <<shown, flipped, zoom, one, mobile, gesture, frame, asked>>
\* The touchend listener of the narrow layout; a finger of a pinch is a tap
\* to it.  Toggling renews the listener, which has seen no tap then.
FingerUp ==
    /\ InZoom /\ fingers.down > 0
    /\ fingers' = IF fingers.down = 1 THEN Up ELSE [fingers EXCEPT !.down = 1]
    /\ tapped' = [tapped EXCEPT !.zoomed = mobile /\ ~tapped.zoomed]
    /\ one' = IF mobile /\ tapped.zoomed THEN ~one ELSE one
    /\ UNCHANGED <<shown, flipped, zoom, mobile, touches, later>>
DoubleClick ==
    /\ InZoom /\ ~mobile /\ one' = ~one
    /\ UNCHANGED <<shown, flipped, zoom, mobile, gesture, later>>
CloseZoom ==
    /\ InZoom /\ ZoomEnds /\ UNCHANGED <<shown, flipped, mobile, touches, later>>
TimerCloses ==
    /\ closing /\ closing' = FALSE /\ ZoomEnds
    /\ UNCHANGED <<shown, flipped, mobile, touches, frame, asked>>

TimePasses ==
    /\ tapped.viewer \/ tapped.zoomed
    /\ tapped' = [viewer |-> FALSE, zoomed |-> FALSE]
    /\ UNCHANGED <<shown, flipped, zoom, one, mobile, fingers, touches, later>>
Resize ==
    /\ fingers = Up /\ mobile' = ~mobile /\ tapped' = [tapped EXCEPT !.zoomed = FALSE]
    /\ UNCHANGED <<shown, flipped, zoom, one, fingers, touches, later>>

-----------------------------------------------------------------------------
Next == \/ CloseViewer \/ Flip \/ AskAction \/ ActionAnswered
        \/ ZoomIn \/ HandleTap \/ PinchMoves \/ FrameRuns
        \/ FingerDown \/ PinchesOut \/ FingerUp \/ DoubleClick \/ CloseZoom \/ TimerCloses
        \/ TimePasses \/ Resize
        \/ \E p \in Pictures : Open(p) \/ Turn(p)

Spec == Init /\ [][Next]_vars

-----------------------------------------------------------------------------
\* The 1:1 view and half a double tap belong to the zoom they were made in:
\* none of the ways out of a zoom, timers and late answers included, leaves
\* them to the next one.
ViewIsOwn == zoom = None => ~one /\ ~tapped.zoomed
=============================================================================
