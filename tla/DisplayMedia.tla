---------------------------- MODULE DisplayMedia ----------------------------
(***************************************************************************)
(* A screen's display page: how a published file comes to be shown.        *)
(*                                                                         *)
(* The publisher copies a file to <base>.<type>, where it keeps the time   *)
(* of its source, and then touches it.  The page polls every second: it    *)
(* asks for the time of each type, in requests of their own, takes the     *)
(* newest, and when that is newer than what it knows, it has new media.    *)
(* New media fades the screen to black, replaces what is shown, and fades  *)
(* in; what arrives meanwhile waits.  The image is read when it is put on  *)
(* the screen.  A time is a whole second, as Last-Modified gives it.       *)
(***************************************************************************)
EXTENDS Naturals, FiniteSets

CONSTANTS Types,       \* the types published: among "jpg", "JPG" and "mp4"
          Polls,       \* checks under way together
          None,        \* no media
          MaxVersions, \* bound on what is published
          MaxClock,    \* bound on the clock
          MaxUpsets    \* bound on failed requests and reloads of the page

DisplayMediaAssumption ==
    /\ Types \subseteq {"jpg", "JPG", "mp4"} /\ Types # {}
    /\ {MaxVersions, MaxUpsets} \subseteq Nat /\ MaxClock \in Nat \ {0}

VARIABLES
    clock,     \* seconds
    files,     \* each type's file: what it holds and its time
    published, \* the last version published
    untouched, \* the type that is copied and not yet touched
    touched,   \* history: the second of the last touch
    clash,     \* history: two versions were published in one second
    initial,   \* detectInitialFile: a check under way, or done
    polls,     \* the checks of checkForChange under way
    known,     \* lastModifiedRef
    current,   \* currentSrc
    visible,   \* visibleSrc, and what was read from it
    pending,   \* pendingSrc
    fading,    \* fadingOut
    timer,     \* what runs next: the end of the fade, the end of the swap
    shouldPlay,
    upsets

server == <<clock, files, published, untouched, touched, clash>>
media  == <<visible, pending, fading, timer, shouldPlay>>
vars   == <<clock, files, published, untouched, touched, clash, initial, polls,
            known, current, visible, pending, fading, timer, shouldPlay, upsets>>

-----------------------------------------------------------------------------
Times == 0..MaxClock
Srcs  == [type : {"jpg", "JPG", "mp4"}, t : Times]
NoTimes == [ty \in Types |-> 0]

\* A check: the types it has no answer for yet, and the times it got.
Checks == [open : {"idle", "open"}, left : SUBSET Types, got : [Types -> Times]]
Idle == [open |-> "idle", left |-> {}, got |-> NoTimes]
Ask  == [open |-> "open", left |-> Types, got |-> NoTimes]

Time(got, ty) == IF ty \in Types THEN got[ty] ELSE 0
Newest(got) == CHOOSE t \in Times : (\E ty \in Types : got[ty] = t)
                                    /\ \A ty \in Types : got[ty] <= t
\* An image has to be newer than the video, and "jpg" newer than "JPG".
LatestType(got) ==
    IF Newest(got) > Time(got, "mp4")
    THEN IF Time(got, "jpg") > Time(got, "JPG") THEN "jpg" ELSE "JPG"
    ELSE "mp4"
SrcOf(got) == [type |-> LatestType(got), t |-> Newest(got)]

Load(src) == [src |-> src, version |-> IF src.type \in Types
                                       THEN files[src.type].version ELSE 0]

-----------------------------------------------------------------------------
Fresh ==
    /\ initial = Ask /\ polls = [p \in Polls |-> Idle]
    /\ known = 0 /\ current = None /\ visible = None /\ pending = None
    /\ fading = FALSE /\ timer = "none" /\ shouldPlay = FALSE

Init ==
    /\ clock = 1
    /\ files = [ty \in Types |-> [version |-> 0, t |-> 0]]
    /\ published = 0 /\ untouched = None /\ touched = 0 /\ clash = FALSE
    /\ Fresh
    /\ upsets = 0

\* scheduleNextHardReload: the page starts anew.
Reload ==
    /\ upsets < MaxUpsets /\ upsets' = upsets + 1
    /\ initial' = Ask /\ polls' = [p \in Polls |-> Idle]
    /\ known' = 0 /\ current' = None /\ visible' = None /\ pending' = None
    /\ fading' = FALSE /\ timer' = "none" /\ shouldPlay' = FALSE
    /\ UNCHANGED server

-----------------------------------------------------------------------------
(* The publisher                                                           *)

Tick ==
    /\ clock < MaxClock /\ clock' = clock + 1
    /\ UNCHANGED <<files, published, untouched, touched, clash, initial, polls,
                   known, current, media, upsets>>
\* shutil.copy2: the source's time comes along.
Copy(ty, old) ==
    /\ untouched = None /\ published < MaxVersions
    /\ old < clock
    /\ published' = published + 1
    /\ files' = [files EXCEPT ![ty] = [version |-> published + 1, t |-> old]]
    /\ untouched' = ty
    /\ UNCHANGED <<clock, touched, clash, initial, polls, known, current, media, upsets>>
Touch ==
    /\ untouched # None /\ untouched' = None
    /\ files' = [files EXCEPT ![untouched].t = clock]
    /\ touched' = clock /\ clash' = (clash \/ touched = clock)
    /\ UNCHANGED <<clock, published, initial, polls, known, current, media, upsets>>

-----------------------------------------------------------------------------
(* useFilePolling                                                          *)

Answer(check, ty, t) == [check EXCEPT !.left = @ \ {ty}, !.got[ty] = t]

\* The effect on new media: it is shown at once when nothing is, and otherwise
\* fades out what is shown, unless that is under way.
Arrive(src, seen, faded) ==
    IF seen = None
    THEN /\ visible' = Load(src) /\ shouldPlay' = TRUE
         /\ UNCHANGED <<pending, timer>> /\ fading' = faded
    ELSE IF src # pending /\ src # seen.src /\ ~faded
    THEN /\ pending' = src /\ fading' = TRUE /\ timer' = "fade"
         /\ visible' = seen /\ UNCHANGED shouldPlay
    ELSE /\ visible' = seen /\ fading' = faded
         /\ UNCHANGED <<pending, timer, shouldPlay>>

\* A request of a check is answered, or fails and counts as no time.
Answered(ty, t) == t = files[ty].t \/ (t = 0 /\ upsets < MaxUpsets)
Count(t, ty) == upsets' = IF t = files[ty].t THEN upsets ELSE upsets + 1

InitialAnswer(ty) ==
    /\ initial.open = "open" /\ ty \in initial.left
    /\ \E t \in Times : Answered(ty, t) /\ Count(t, ty)
                        /\ initial' = Answer(initial, ty, t)
    /\ UNCHANGED <<server, polls, known, current, media>>
InitialLands ==
    /\ initial.open = "open" /\ initial.left = {}
    /\ initial' = Idle
    /\ known' = Newest(initial.got) /\ current' = SrcOf(initial.got)
    /\ Arrive(SrcOf(initial.got), visible, fading)
    /\ UNCHANGED <<server, polls, upsets>>

PollStarts(p) ==
    /\ polls[p] = Idle
    /\ polls' = [polls EXCEPT ![p] = Ask]
    /\ UNCHANGED <<server, initial, known, current, media, upsets>>
PollAnswer(p, ty) ==
    /\ polls[p].open = "open" /\ ty \in polls[p].left
    /\ \E t \in Times : Answered(ty, t) /\ Count(t, ty)
                        /\ polls' = [polls EXCEPT ![p] = Answer(@, ty, t)]
    /\ UNCHANGED <<server, initial, known, current, media>>
\* Mutant: what differs is taken for newer.
Different(got) == Newest(got) # known
IsNewer(got) == Newest(got) > known
PollLands(p) ==
    /\ polls[p].open = "open" /\ polls[p].left = {}
    /\ polls' = [polls EXCEPT ![p] = Idle]
    /\ IF IsNewer(polls[p].got)
       THEN /\ known' = Newest(polls[p].got) /\ current' = SrcOf(polls[p].got)
            /\ Arrive(SrcOf(polls[p].got), visible, fading)
       ELSE UNCHANGED <<known, current, media>>
    /\ UNCHANGED <<server, initial, upsets>>

-----------------------------------------------------------------------------
(* MediaDisplay and onFadeOutComplete                                      *)

\* Mutant: the end of the swap is not scheduled.
FadeEndsAtOnce ==
    /\ timer = "fade" /\ timer' = "none"
    /\ visible' = IF pending # None THEN Load(pending) ELSE visible
    /\ pending' = None
    /\ shouldPlay' = FALSE
    /\ UNCHANGED <<server, initial, polls, known, current, fading, upsets>>
FadeEnds ==
    /\ timer = "fade" /\ timer' = "swap"
    /\ visible' = IF pending # None THEN Load(pending) ELSE visible
    /\ pending' = None
    /\ shouldPlay' = FALSE
    /\ UNCHANGED <<server, initial, polls, known, current, fading, upsets>>
\* Mutant: what arrived during the fade is not looked at again.
SwapForgets ==
    /\ timer = "swap" /\ timer' = "none"
    /\ fading' = FALSE /\ shouldPlay' = TRUE
    /\ UNCHANGED <<server, initial, polls, known, current, visible, pending, upsets>>
\* A second later the screen fades in; what arrived meanwhile fades it out again.
SwapEnds ==
    /\ timer = "swap"
    /\ shouldPlay' = TRUE
    /\ IF current # visible.src
       THEN pending' = current /\ fading' = TRUE /\ timer' = "fade"
       ELSE pending' = pending /\ fading' = FALSE /\ timer' = "none"
    /\ UNCHANGED <<server, initial, polls, known, current, visible, upsets>>

-----------------------------------------------------------------------------
Next ==
    \/ Tick \/ Touch \/ (\E ty \in Types, old \in Times : Copy(ty, old))
    \/ (\E ty \in Types : InitialAnswer(ty)) \/ InitialLands
    \/ \E p \in Polls : \/ PollStarts(p) \/ PollLands(p)
                        \/ \E ty \in Types : PollAnswer(p, ty)
    \/ FadeEnds \/ SwapEnds \/ Reload

Fading == FadeEnds \/ SwapEnds
InitialGoes == InitialLands \/ \E ty \in Types : InitialAnswer(ty)
PollGoes(p) == PollStarts(p) \/ PollLands(p) \/ \E ty \in Types : PollAnswer(p, ty)
Fairness ==
    /\ WF_vars(Touch) /\ WF_vars(Fading) /\ WF_vars(InitialGoes)
    /\ \A p \in Polls : WF_vars(PollGoes(p))

Spec == Init /\ [][Next]_vars /\ Fairness

-----------------------------------------------------------------------------
TypeOK ==
    /\ clock \in Times /\ files \in [Types -> [version : 0..MaxVersions, t : Times]]
    /\ published \in 0..MaxVersions /\ untouched \in Types \cup {None}
    /\ touched \in Times /\ clash \in BOOLEAN
    /\ initial \in Checks /\ polls \in [Polls -> Checks]
    /\ known \in Times
    /\ {current, pending} \subseteq Srcs \cup {None}
    /\ visible \in [src : Srcs, version : 0..MaxVersions] \cup {None}
    /\ pending = None \/ timer = "fade"
    /\ fading = (timer # "none") /\ timer \in {"none", "fade", "swap"}
    /\ shouldPlay \in BOOLEAN
    /\ upsets \in 0..MaxUpsets

\* While the page polls, checks that overlap and land out of order never take it
\* back to older media: only the first listing may, when it lands late.
StaysNew == initial.open = "idle" /\ initial'.open = "idle" => known' >= known
NeverGoesBack == [][StaysNew]_vars

\* What was published last ends up on the screen, read whole, however polls, fades
\* and a reload fall -- unless two files got their times in the same second.
CaughtUp == clash \/ published = 0 \/ (visible # None /\ visible.version = published)
PublishedIsShown == <>[]CaughtUp

=============================================================================
