------------------------------- MODULE MCPages -------------------------------
(***************************************************************************)
(* The small parts of the pages, checked together, with the fairness each  *)
(* module states and what comes of it.                                     *)
(***************************************************************************)
EXTENDS PageParts, TLC

MCHas      == ("auto" :> {"p1"}) @@ ("w" :> {"p2"})
MCHasExtra == ("r1" :> {"e1"}) @@ ("r2" :> {"e2"})

\* The fairness of each part, as its module states it.
Fairness ==
    /\ WF_statusesVars(side = "statuses" /\ Statuses!Goes)
    /\ WF_statusesVars(side = "statuses" /\ Statuses!Connects)
    /\ WF_urlVars(side = "url" /\ Url!Runs)
    /\ WF_overlaysVars(side = "overlays" /\ Screen!OverlayTimers)
    /\ WF_overlaysVars(side = "overlays" /\ Screen!Links)
    /\ WF_controlsVars(side = "controls" /\ Controls!ControlsHide)
    /\ \A c \in Chains : WF_controlsVars(side = "controls" /\ Controls!MaskRuns(c))
    /\ WF_videoVars(side = "video" /\ Video!Fades)
    /\ \A k \in Video!Media : WF_videoVars(side = "video" /\ Video!ChainStep(k))
    /\ \A f \in {"f1", "f2"} :
         /\ WF_varsVars(side = "vars" /\ Vars!Polls(f))
         /\ WF_adminVars(side = "admin" /\ Admin!StatusGoes(f))
         /\ WF_sliderVars(side = "slider" /\ Slider!LightGoes(f))
         /\ WF_recordVars(side = "record" /\ Record!Polling(f))
    /\ WF_notesVars(side = "notes" /\ Notes!TimeOver)
    /\ \A id \in Notes!Ids : WF_notesVars(side = "notes" /\ Notes!ToastTimers(id))
    /\ WF_tabsVars(side = "tabs" /\ Tabs!Serves)
    /\ WF_tabsVars(side = "tabs" /\ Tabs!RefreshGoes)
    /\ WF_tabsVars(side = "tabs" /\ Tabs!PollGoes("r1"))
    /\ WF_optionsVars(side = "options" /\ Options!Settles)
    /\ WF_mediaVars(side = "media" /\ Media(Types, PollIds)!Touch)
    /\ WF_mediaVars(side = "media" /\ Media(Types, PollIds)!Fading)
    /\ WF_mediaVars(side = "media" /\ Media(Types, PollIds)!InitialGoes)
    /\ WF_mediaVars(side = "media" /\ Media(Types, PollIds)!PollGoes("f1"))
    /\ WF_mediaVars(side = "overlap" /\ Media(OverlapTypes, OverlapPolls)!Touch)
    /\ WF_mediaVars(side = "overlap" /\ Media(OverlapTypes, OverlapPolls)!Fading)
    /\ WF_mediaVars(side = "overlap" /\ Media(OverlapTypes, OverlapPolls)!InitialGoes)
    /\ \A p \in {"f1", "f2"} :
         WF_mediaVars(side = "overlap" /\ Media(OverlapTypes, OverlapPolls)!PollGoes(p))
    /\ \A k \in Card!Kinds : /\ WF_cardVars(side = "card" /\ Card!Polls(k))
                            /\ WF_cardVars(side = "card" /\ Card!Answers(k))
Spec == PagesSpec /\ Fairness

-----------------------------------------------------------------------------
\* After the last change and the last failure each part comes to rest as it should
\* be: the registry's card, the admin page and its light, the brightness of the
\* mask, the tabs' states, the scheduler's card and the record button show what
\* the server has; a screen shows the media published last, unless two were in
\* one second, and is connected; the editors of the options agree; a URL that
\* asks for it has been run.  A video that stays on the screen is played again
\* and again.
PartsCatchUp ==
    /\ side = "vars" => Vars!CaughtUp
    /\ side = "admin" => Admin!CaughtUp
    /\ side = "slider" => Slider!CaughtUp
    /\ side = "controls" => Controls!CaughtUp
    /\ side = "tabs" => Tabs!CaughtUp
    /\ side = "card" => Card!QueueIsShown
    /\ side = "record" => Record!CaughtUp
    /\ side \in {"media", "overlap"} => Media(Types, PollIds)!CaughtUp
    /\ side = "overlays" => link = "open"
    /\ side = "options" => Options!Settled
    /\ side = "url" => Url!HasRun
PagesCatchUp ==
    /\ <>[]PartsCatchUp
    /\ []<>(side = "card" => Card!NextIsShown)
    /\ []<>(side = "card" => Card!LogsAreShown)
    /\ Video!VideoPlays

\* What is shown for a while goes away: overlays, controls, toasts.
ThingsGoAway == <>[](Screen!NoOverlays /\ ~showControls /\ toasts = None)
=============================================================================
