---------------------------- MODULE MediaPlayback ----------------------------
(***************************************************************************)
(* How a screen plays a video: over and over, through a chain of callbacks.*)
(*                                                                         *)
(* The effect on shouldPlay starts a chain on the video element of the     *)
(* time: load, seek, primer, ease in, play, ease out, hold, a crossfade to *)
(* the first frame, and again.  When other media arrive the effects cancel *)
(* the animation frame and the timeout that two refs hold, and no other    *)
(* timer: a chain between those goes on, on an element that has left the   *)
(* page, and shows and hides the first frame of the media that are on it.  *)
(***************************************************************************)
EXTENDS Naturals

CONSTANTS MaxMedia, \* bound on the media that follow each other
          Gone

MediaPlaybackAssumption == MaxMedia \in Nat \ {0}

VARIABLES media,          \* the number of src: the media on the screen
          kinds,          \* history: what each of them is
          phase,          \* fadingOut and shouldPlay
          chains,         \* where the chain of each media is
          easeOutTimeout, \* the chain that set the ref last
          firstFrame,     \* the media it was taken from
          showFirstFrame,
          extracting      \* extractFirstFrame under way

vars == <<media, kinds, phase, chains, easeOutTimeout, firstFrame,
          showFirstFrame, extracting>>

-----------------------------------------------------------------------------
Media  == 1..MaxMedia
Kinds  == {"video", "image"}
Easing == {"easeIn", "easeOut"}
Stages == {"loading", "seeking", "primer", "playing", "hold", "crossfade",
           "restart"} \cup Easing

TypeOK ==
    /\ media \in Media /\ kinds \in [Media -> Kinds \cup {Gone}]
    /\ phase \in {"play", "fade", "swap"}
    /\ chains \in [Media -> Stages \cup {Gone}]
    /\ easeOutTimeout \in Media \cup {Gone}
    /\ firstFrame \in Media \cup {Gone} /\ showFirstFrame \in BOOLEAN
    /\ extracting \subseteq Media
    /\ \A k \in Media : chains[k] # Gone => kinds[k] = "video" /\ k <= media

Started(k, kind) == IF kind = "video" THEN "loading" ELSE Gone
Extracts(k, kind) == IF kind = "video" THEN {k} ELSE {}

Init ==
    /\ media = 1 /\ phase = "play"
    /\ \E kind \in Kinds :
         /\ kinds = [k \in Media |-> IF k = 1 THEN kind ELSE Gone]
         /\ chains = [k \in Media |-> IF k = 1 THEN Started(1, kind) ELSE Gone]
         /\ extracting = Extracts(1, kind)
    /\ easeOutTimeout = Gone /\ firstFrame = Gone /\ showFirstFrame = FALSE

-----------------------------------------------------------------------------
\* The timeout of easeOutTimeout, and the frame that was requested last, which
\* is that of one of the chains that ease: they are gone.
Cancelled(list) ==
    LET held == {k \in Media : list[k] = "playing" /\ k = easeOutTimeout}
        ease == {k \in Media : list[k] \in Easing}
    IN  {[k \in Media |-> IF k \in held \cup e THEN Gone ELSE list[k]] :
           e \in IF ease = {} THEN {{}} ELSE {{k} : k \in ease}}

\* New media: what is shown fades out.
FadeOut ==
    /\ phase = "play" /\ media < MaxMedia
    /\ phase' = "fade"
    /\ chains' \in Cancelled(chains)
    /\ showFirstFrame' = FALSE
    /\ UNCHANGED <<media, kinds, easeOutTimeout, firstFrame, extracting>>

\* The listener on loadedmetadata is removed.
Unloaded(list) == [k \in Media |-> IF list[k] = "loading" THEN Gone ELSE list[k]]
\* The fade is over: the element has the new src, and the effect on src runs,
\* and the cleanup of the effect on shouldPlay.
Swap(kind) ==
    /\ phase = "fade" /\ phase' = "swap"
    /\ media' = media + 1 /\ kinds' = [kinds EXCEPT ![media + 1] = kind]
    /\ chains' \in Cancelled(Unloaded(chains))
    /\ firstFrame' = Gone /\ showFirstFrame' = FALSE
    /\ extracting' = extracting \cup Extracts(media + 1, kind)
    /\ UNCHANGED easeOutTimeout
\* A second later, with a new key and so a new element.
Resume ==
    /\ phase = "swap" /\ phase' = "play"
    /\ chains' = [chains EXCEPT ![media] = Started(media, kinds[media])]
    /\ UNCHANGED <<media, kinds, easeOutTimeout, firstFrame, showFirstFrame, extracting>>

-----------------------------------------------------------------------------
(* A chain's callbacks                                                     *)

\* Mutant: after the crossfade the video plays and no cycle begins.
AfterOnce(stage) == CASE stage = "loading" -> "seeking" [] stage = "seeking" -> "primer"
                      [] stage = "primer" -> "easeIn"   [] stage = "easeIn" -> "playing"
                      [] stage = "playing" -> "easeOut" [] stage = "easeOut" -> "hold"
                      [] stage = "hold" -> "crossfade"  [] stage = "crossfade" -> "restart"
                      [] OTHER -> Gone
After(stage) == CASE stage = "loading" -> "seeking" [] stage = "seeking" -> "primer"
                  [] stage = "primer" -> "easeIn"   [] stage = "easeIn" -> "playing"
                  [] stage = "playing" -> "easeOut" [] stage = "easeOut" -> "hold"
                  [] stage = "hold" -> "crossfade"  [] stage = "crossfade" -> "restart"
                  [] stage = "restart" -> "seeking" [] OTHER -> Gone

\* The first frame is shown when the hold ends, and hidden before the restart.
ChainStep(k) ==
    /\ chains[k] # Gone
    /\ chains' = [chains EXCEPT ![k] = After(chains[k])]
    /\ easeOutTimeout' = IF chains[k] = "easeIn" THEN k ELSE easeOutTimeout
    /\ showFirstFrame' = CASE chains[k] = "hold" -> TRUE [] chains[k] = "restart" -> FALSE
                           [] OTHER -> showFirstFrame
    /\ UNCHANGED <<media, kinds, phase, firstFrame, extracting>>
\* The element of media that have gone may play no more: play is refused.
ChainDies(k) ==
    /\ k < media /\ chains[k] \in {"seeking", "restart"}
    /\ chains' = [chains EXCEPT ![k] = Gone]
    /\ showFirstFrame' = IF chains[k] = "restart" THEN FALSE ELSE showFirstFrame
    /\ UNCHANGED <<media, kinds, phase, easeOutTimeout, firstFrame, extracting>>

\* extractFirstFrame, whatever is on the screen by then.
Extracted(k) ==
    /\ k \in extracting /\ extracting' = extracting \ {k}
    /\ firstFrame' \in {k, firstFrame}
    /\ UNCHANGED <<media, kinds, phase, chains, easeOutTimeout, showFirstFrame>>

-----------------------------------------------------------------------------
Next == \/ FadeOut \/ Resume \/ (\E kind \in Kinds : Swap(kind))
        \/ \E k \in Media : ChainStep(k) \/ ChainDies(k) \/ Extracted(k)

Fades == Resume \/ \E kind \in Kinds : Swap(kind)
Spec == Init /\ [][Next]_vars /\ WF_vars(Fades) /\ \A k \in Media : WF_vars(ChainStep(k))

-----------------------------------------------------------------------------
\* A video that stays on the screen is played again and again, whatever the
\* chains of the media before it go on doing.
VideoPlays == <>[](phase = "play" /\ kinds[media] = "video")
              => []<>(chains[media] = "playing")
=============================================================================
