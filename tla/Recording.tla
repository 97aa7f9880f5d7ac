------------------------------ MODULE Recording ------------------------------
(***************************************************************************)
(* The mask button and the record button of a destination's grid.          *)
(*                                                                         *)
(* What the buttons show is read from the server: the mask once, the       *)
(* recording every ten seconds, by polls that overlap.  Recording itself   *)
(* is done by an app of the phone, which a link opens: a click looks first *)
(* whether the version that was last downloaded is older than the one the  *)
(* server has, and shows a dialog instead of the link if it may be.        *)
(***************************************************************************)
EXTENDS Naturals

CONSTANTS Polls,   \* polls that may be under way
          None,    \* no version stored, no link, no request
          MaxActs  \* bound on clicks, changes from outside and failures

RecordingAssumption == MaxActs \in Nat /\ None \notin Nat \cup {"on", "off"}

VARIABLES recording, mask, apk, \* the server: whether it records and masks, its build
          installed, link,      \* the phone: the app, and what it was opened for
          stored,               \* localStorage: the build last downloaded
          isTranscribing, maskEnabled,
          modal,                \* showAppDownloadModal and isNewVersion
          polls, load, post,    \* pollTranscriptionStatus, getMaskState, en/disableMask
          check, storing,       \* the requests for the build's date
          acts

server == <<recording, mask, apk>>
phone  == <<installed, link, stored>>
asks   == <<check, storing>>
masks  == <<maskEnabled, load, post>>
vars   == <<server, phone, isTranscribing, masks, modal, polls, asks, acts>>

-----------------------------------------------------------------------------
Sides   == {"on", "off"}
Request == {"idle", "asked", "failed"} \cup Sides  \* a side is the answer
Builds  == 0..MaxActs
\* What a click of the shown state asks of the app.
Other(s) == IF s = "on" THEN "off" ELSE "on"

TypeOK ==
    /\ {recording, mask, isTranscribing, maskEnabled} \subseteq Sides /\ apk \in Builds
    /\ installed \in BOOLEAN /\ link \in Sides \cup {None} /\ stored \in Builds \cup {None}
    /\ modal \in {"closed", "install", "update"}
    /\ polls \in [Polls -> Request] /\ load \in Request
    /\ post \in [st : {"asked", "served", "failed"}, to : Sides] \cup {None}
    /\ check \in Sides \cup {None} /\ (check # None => stored # None)
    /\ storing \in BOOLEAN /\ acts \in 0..MaxActs

\* The grid as it is mounted, its first poll and the mask's request sent.
Mounted(m) ==
    /\ isTranscribing' = "off" /\ maskEnabled' = "on" /\ modal' = m
    /\ \E f \in Polls : polls' = [p \in Polls |-> IF p = f THEN "asked" ELSE "idle"]
    /\ load' = "asked" /\ post' = None /\ check' = None /\ storing' = FALSE

Init ==
    /\ recording \in Sides /\ mask \in Sides /\ apk = 0
    /\ installed \in BOOLEAN /\ link = None /\ stored \in {0, None}
    /\ isTranscribing = "off" /\ maskEnabled = "on" /\ modal = "closed"
    /\ \E f \in Polls : polls = [p \in Polls |-> IF p = f THEN "asked" ELSE "idle"]
    /\ load = "asked" /\ post = None /\ check = None /\ storing = FALSE /\ acts = 0

Acts == acts < MaxActs /\ acts' = acts + 1

-----------------------------------------------------------------------------
(* Polling the recording                                                   *)

Polled(p, from, to) == polls[p] \in from /\ polls' = [polls EXCEPT ![p] = to]
\* The initial poll, and the interval.
PollStarts(p) == /\ Polled(p, {"idle"}, "asked")
                 /\ UNCHANGED <<server, phone, isTranscribing, masks, modal, asks, acts>>
PollServed(p) == /\ Polled(p, {"asked"}, recording)
                 /\ UNCHANGED <<server, phone, isTranscribing, masks, modal, asks, acts>>
PollBreaks(p) == /\ Acts /\ Polled(p, {"asked"}, "failed")
                 /\ UNCHANGED <<server, phone, isTranscribing, masks, modal, asks>>
\* Mutant: an answer only ever switches the button on.
TakenWhenOn(p) == IF polls[p] = "on" THEN polls[p] ELSE isTranscribing
Taken(p) == IF polls[p] \in Sides THEN polls[p] ELSE isTranscribing
PollLands(p) == /\ isTranscribing' = Taken(p) /\ Polled(p, Sides \cup {"failed"}, "idle")
                /\ UNCHANGED <<server, phone, masks, modal, asks, acts>>

\* The app starts or stops, as it was asked to or by itself.
AppActs(s) ==
    /\ installed /\ (link = s \/ Acts) /\ (link = s => acts' = acts)
    /\ recording' = s /\ link' = None
    /\ UNCHANGED <<mask, apk, installed, stored, isTranscribing, masks, modal, polls, asks>>

-----------------------------------------------------------------------------
(* The mask                                                                *)

\* Another page, or another grid.
MaskSet(s) == /\ Acts /\ mask' = s
              /\ UNCHANGED <<recording, apk, phone, isTranscribing, masks, modal, polls, asks>>
LoadServed == /\ load = "asked" /\ load' = mask
              /\ UNCHANGED <<server, phone, isTranscribing, maskEnabled, post, modal, polls, asks, acts>>
LoadBreaks == /\ Acts /\ load = "asked" /\ load' = "failed"
              /\ UNCHANGED <<server, phone, isTranscribing, maskEnabled, post, modal, polls, asks>>
\* Read once; a failure shows the mask as on, and a toggle meanwhile is undone.
LoadLands == /\ load \in Sides \cup {"failed"} /\ load' = "idle"
             /\ maskEnabled' = IF load \in Sides THEN load ELSE "on"
             /\ UNCHANGED <<server, phone, isTranscribing, post, modal, polls, asks, acts>>
HandleMaskToggle ==
    /\ modal = "closed" /\ Acts /\ post = None
    /\ post' = [st |-> "asked", to |-> Other(maskEnabled)]
    /\ UNCHANGED <<server, phone, isTranscribing, maskEnabled, load, modal, polls, asks>>
PostServed == /\ post # None /\ post.st = "asked" /\ post' = [post EXCEPT !.st = "served"]
              /\ mask' = post.to
              /\ UNCHANGED <<recording, apk, phone, isTranscribing, maskEnabled, load, modal,
                             polls, asks, acts>>
PostBreaks == /\ post # None /\ post.st = "asked" /\ post' = [post EXCEPT !.st = "failed"]
              /\ Acts
              /\ UNCHANGED <<server, phone, isTranscribing, maskEnabled, load, modal, polls, asks>>
PostLands == /\ post # None /\ post.st # "asked" /\ post' = None
             /\ maskEnabled' = IF post.st = "served" THEN post.to ELSE maskEnabled
             /\ UNCHANGED <<server, phone, isTranscribing, load, modal, polls, asks, acts>>

-----------------------------------------------------------------------------
(* The record button and its dialog                                        *)

\* The app opens; without it the browser comes back, with the dialog.
Opens(s) == IF installed
            THEN link' = s /\ modal' = "closed" /\ UNCHANGED <<isTranscribing, masks, polls, storing>>
            ELSE link' = link /\ Mounted("install")
\* Not on iOS.  The request for the build's date only follows a stored version.
HandleRecordClick ==
    /\ modal = "closed" /\ check = None /\ Acts
    /\ IF stored = None THEN modal' = "install" /\ check' = None
                        ELSE modal' = modal /\ check' = Other(isTranscribing)
    /\ UNCHANGED <<server, phone, isTranscribing, masks, polls, storing>>
CheckAnswered ==
    /\ check # None /\ check' = None
    /\ IF stored < apk
       THEN modal' = "update" /\ UNCHANGED <<link, isTranscribing, masks, polls, storing>>
       ELSE Opens(check)
    /\ UNCHANGED <<server, installed, stored, acts>>
CheckBreaks ==
    /\ check # None /\ check' = None /\ Acts /\ modal' = "install"
    /\ UNCHANGED <<server, phone, isTranscribing, masks, polls, storing>>

\* The version counts as the downloaded one whatever comes of the download.
Download ==
    /\ modal # "closed" /\ Acts /\ storing' = TRUE
    /\ UNCHANGED <<server, phone, isTranscribing, masks, modal, polls, check>>
StoreVersionInfo ==
    /\ storing /\ storing' = FALSE
    /\ (stored' = apk \/ stored' = stored)  \* the latter when the request fails
    /\ UNCHANGED <<server, installed, link, isTranscribing, masks, modal, polls, check, acts>>
Install == /\ ~installed /\ Acts /\ installed' = TRUE
           /\ UNCHANGED <<server, link, stored, isTranscribing, masks, modal, polls, asks>>
\* Without the app this leaves the grid for the app's own page.
ContinueWithCurrent ==
    /\ modal = "update" /\ installed /\ link' = Other(isTranscribing) /\ modal' = "closed"
    /\ UNCHANGED <<server, installed, stored, isTranscribing, masks, polls, asks, acts>>
CloseModal == /\ modal # "closed" /\ modal' = "closed"
              /\ UNCHANGED <<server, phone, isTranscribing, masks, polls, asks, acts>>
NewBuild == /\ Acts /\ apk' = apk + 1
            /\ UNCHANGED <<recording, mask, phone, isTranscribing, masks, modal, polls, asks>>

-----------------------------------------------------------------------------
Next ==
    \/ \E p \in Polls : PollStarts(p) \/ PollServed(p) \/ PollBreaks(p) \/ PollLands(p)
    \/ \E s \in Sides : AppActs(s) \/ MaskSet(s)
    \/ LoadServed \/ LoadBreaks \/ LoadLands
    \/ HandleMaskToggle \/ PostServed \/ PostBreaks \/ PostLands
    \/ HandleRecordClick \/ CheckAnswered \/ CheckBreaks
    \/ Download \/ StoreVersionInfo \/ Install \/ ContinueWithCurrent \/ CloseModal \/ NewBuild

\* The interval goes on, and answers come.
Polling(p) == PollStarts(p) \/ PollServed(p) \/ PollLands(p)
Spec == Init /\ [][Next]_vars /\ \A p \in Polls : WF_vars(Polling(p))

-----------------------------------------------------------------------------
\* The button comes to say what the server records and stays with it, however
\* polls overlap and whatever failed, the page that came back included.
CaughtUp == isTranscribing = recording
RecordingCatchesUp == <>[]CaughtUp
=============================================================================
