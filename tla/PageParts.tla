------------------------------ MODULE PageParts ------------------------------
(***************************************************************************)
(* The small parts of the pages, which keep state of their own and share   *)
(* none: a behaviour is one of them, "side", while the others stand still  *)
(* in one of their initial states.  A part keeps the names of its          *)
(* constants and variables, unless another part, or the events panel, has  *)
(* the name.                                                               *)
(***************************************************************************)
EXTENDS Naturals

CONSTANTS
    None, AutoPick,                                   \* of several parts
    Jobs, MaxMessages, MaxDrops, Lovable,             \* JobStatuses
    Prompts, Workflows, FirstWorkflow, MaxUrlActs,    \* UrlRun
    Overlays, MaxLinkDrops, MaxBackoff,               \* DisplayOverlays
    Chains, ControlAsks, Full, MaxScreenTouches, MaxLevels, MaxFailures,  \* DisplayControls
    MaxMedia,                                         \* MediaPlayback
    Names, Values, VarFetches, MaxEdits,              \* VarsRegistry
    Sensors, MaxChanges, MaxSaves, MaxRefusals,       \* LightSense
    KioskUrls, StatusFetches, MaxDoings, MaxAdminUpsets,  \* AdminPanel
    LightAsks, Bright, MaxSlides, MaxBreaks,          \* AdminLight
    MaxToasts,                                        \* Toasts
    Destinations, Rounds, MaxControls, MaxLosses,     \* SchedulerTabs
    Refiners, Has, HasExtra, OptionValues, Default, MaxOptionEdits,  \* OptionsSync
    Pictures, MaxTouches,                             \* LoopeZoom
    MaxCardChanges, MaxCardLosses, MaxLists,          \* SchedulerCard
    Types, PollIds, MaxVersions, MaxClock, MaxUpsets, \* DisplayMedia
    OverlapTypes, OverlapPolls,                       \* DisplayMedia, once more
    RecordPolls, MaxGridActs                          \* Recording

VARIABLES
    side,
    jobs, hideTimers, received, expanded, series, socket, retryNoted, retryDue, drops,
    url, loaded, currentPrompt, currentWorkflow, changed, runTimer, submitted, urlActs,
    overlays, used, timers, link, retry, attempts, linkDrops,
    showControls, controlsTimer, touches, asking, opening, info, baseName, noMask,
    own, chains, level, brightness, failed, levels, failures,
    media, kinds, phase, fadeChains, easeOutTimeout, firstFrame, showFirstFrame,
    extracting,
    registry, data, loading, fetches, editingVar, editDialogOpen, call, edits,
    stored, settings, selectedSensor, points, isEditing, loads, saves, sensorData,
    changes, saved, refusals,
    screen, accepts, status, statusOk, authRequired, field, statusFetches, action,
    refreshDue, doings, upsets,
    override, overrides, asks, posts, slides, breaks,
    count, toasts, toastTimeouts,
    running, listed, selectedTab, flags, statuses, rounds, refreshes, controlCall,
    controlsDone, losses,
    page, formOptions, sheet, rendered, sent, optionEdits,
    viewed, flipped, zoom, one, mobile, tapped, fingers, frame, closing, asked,
    zoomTouches,
    scheduler, destination, next, queue, logs, card, answers, cardLosses, lists,
    clock, files, published, untouched, touched, clash, initial, mediaPolls, known,
    current, visible, pending, fading, timer, shouldPlay, mediaUpsets,
    recording, mask, apk, installed, appLink, storedBuild, isTranscribing,
    maskEnabled, modal, polls, load, post, check, storing, gridActs

statusesVars == <<jobs, hideTimers, received, expanded, series, socket, retryNoted, retryDue, drops>>
urlVars == <<url, loaded, currentPrompt, currentWorkflow, changed, runTimer, submitted, urlActs>>
overlaysVars == <<overlays, used, timers, link, retry, attempts, linkDrops>>
controlsVars == <<showControls, controlsTimer, touches, asking, opening, info, baseName, noMask,
    own, chains, level, brightness, failed, levels, failures>>
videoVars == <<media, kinds, phase, fadeChains, easeOutTimeout, firstFrame, showFirstFrame,
    extracting>>
varsVars == <<registry, data, loading, fetches, editingVar, editDialogOpen, call, edits>>
lightVars == <<stored, settings, selectedSensor, points, isEditing, loads, saves, sensorData,
    changes, saved, refusals>>
adminVars == <<screen, accepts, status, statusOk, authRequired, field, statusFetches, action,
    refreshDue, doings, upsets>>
sliderVars == <<override, overrides, asks, posts, slides, breaks>>
notesVars == <<count, toasts, toastTimeouts>>
tabsVars == <<running, listed, selectedTab, flags, statuses, rounds, refreshes, controlCall,
    controlsDone, losses>>
optionsVars == <<page, formOptions, sheet, rendered, sent, optionEdits>>
zoomVars == <<viewed, flipped, zoom, one, mobile, tapped, fingers, frame, closing, asked,
    zoomTouches>>
cardVars == <<scheduler, destination, next, queue, logs, card, answers, cardLosses, lists>>
mediaVars == <<clock, files, published, untouched, touched, clash, initial, mediaPolls,
    known, current, visible, pending, fading, timer, shouldPlay, mediaUpsets>>
recordVars == <<recording, mask, apk, installed, appLink, storedBuild, isTranscribing,
    maskEnabled, modal, polls, load, post, check, storing, gridActs>>
pagesVars == <<side, statusesVars, urlVars, overlaysVars, controlsVars, videoVars,
               varsVars, lightVars, adminVars, sliderVars, notesVars, tabsVars,
               optionsVars, zoomVars, cardVars, mediaVars, recordVars>>

-----------------------------------------------------------------------------
Statuses == INSTANCE JobStatuses WITH Gone <- None
Url      == INSTANCE UrlRun WITH
    Auto <- FirstWorkflow, acts <- urlActs, MaxActs <- MaxUrlActs
Screen   == INSTANCE DisplayOverlays WITH Gone <- None, MaxDrops <- MaxLinkDrops
Controls == INSTANCE DisplayControls WITH
    Gone <- None, Asked <- ControlAsks, MaxTouches <- MaxScreenTouches
Video    == INSTANCE MediaPlayback WITH Gone <- None, chains <- fadeChains
Vars     == INSTANCE VarsRegistry WITH Vars <- Names, Fetches <- VarFetches
Light    == INSTANCE LightSense
Admin    == INSTANCE AdminPanel WITH
    Urls <- KioskUrls, Fetches <- StatusFetches, MaxUpsets <- MaxAdminUpsets,
    server <- screen
Slider   == INSTANCE AdminLight WITH Asks <- LightAsks, Auto <- AutoPick
Notes    == INSTANCE Toasts WITH Gone <- None
Tabs     == INSTANCE SchedulerTabs
Options  == INSTANCE OptionsSync WITH
    First <- FirstWorkflow, Auto <- AutoPick, Values <- OptionValues, MaxEdits <- MaxOptionEdits,
    form <- formOptions, edits <- optionEdits
Zoom     == INSTANCE LoopeZoom WITH shown <- viewed, touches <- zoomTouches
Card     == INSTANCE SchedulerCard WITH
    MaxChanges <- MaxCardChanges, MaxLosses <- MaxCardLosses, server <- scheduler,
    losses <- cardLosses
\* A screen's media twice: in a run one has files of two types, and the other
\* polls that overlap.
Media(types, checks) == INSTANCE DisplayMedia WITH
    Types <- types, Polls <- checks, polls <- mediaPolls, upsets <- mediaUpsets
Record   == INSTANCE Recording WITH
    Polls <- RecordPolls, MaxActs <- MaxGridActs, link <- appLink,
    stored <- storedBuild, acts <- gridActs

ASSUME PagePartsAssumption ==
    /\ Statuses!JobStatusesAssumption /\ Url!UrlRunAssumption
    /\ Screen!DisplayOverlaysAssumption /\ Controls!DisplayControlsAssumption
    /\ Video!MediaPlaybackAssumption /\ Vars!VarsRegistryAssumption
    /\ Light!LightSenseAssumption /\ Admin!AdminPanelAssumption
    /\ Slider!AdminLightAssumption /\ Notes!ToastsAssumption
    /\ Tabs!SchedulerTabsAssumption /\ Options!OptionsSyncAssumption
    /\ Zoom!LoopeZoomAssumption /\ Card!SchedulerCardAssumption
    /\ Media(Types, PollIds)!DisplayMediaAssumption
    /\ Media(OverlapTypes, OverlapPolls)!DisplayMediaAssumption
    /\ Record!RecordingAssumption

-----------------------------------------------------------------------------
\* Where a part has several initial states, all are taken on its own side only.
PagesInit ==
    /\ side \in {"statuses", "url", "overlays", "controls", "video", "vars", "light",
                 "admin", "slider", "notes", "tabs", "options", "zoom", "card", "media",
                 "overlap", "record"}
    /\ Statuses!Init /\ Screen!Init /\ Light!Init /\ Notes!Init /\ Options!Init
    /\ Url!Init /\ (side = "url" \/ url = CHOOSE u \in Url!Urls : ~u.run)
    /\ Controls!Init /\ (side = "controls" \/ own = CHOOSE c \in Chains : TRUE)
    /\ Video!Init /\ (side = "video" \/ kinds[1] = "image")
    /\ Vars!Init
    /\ (side = "vars" \/ (/\ fetches[CHOOSE f \in VarFetches : TRUE] = Vars!Asked
                          /\ registry = CHOOSE r \in Vars!Registries : TRUE))
    /\ Admin!Init
    /\ (side = "admin" \/ (/\ screen = CHOOSE u \in KioskUrls : TRUE
                           /\ statusFetches[CHOOSE f \in StatusFetches : TRUE] = Admin!Asked
                           /\ accepts))
    /\ Slider!Init
    /\ (side = "slider" \/ (override = 0 /\ asks[CHOOSE f \in LightAsks : TRUE] = Slider!Asked))
    /\ Tabs!Init /\ (side = "tabs" \/ \A d \in Destinations : running[d] = "stopped")
    /\ Zoom!Init /\ (side = "zoom" \/ ~mobile)
    /\ Card!Init /\ (side = "card" \/ ~scheduler.running)
    /\ IF side = "overlap" THEN Media(OverlapTypes, OverlapPolls)!Init
                           ELSE Media(Types, PollIds)!Init
    /\ Record!Init
    /\ (side = "record" \/ (/\ recording = "off" /\ mask = "on" /\ installed
                            /\ storedBuild = 0
                            /\ polls[CHOOSE p \in RecordPolls : TRUE] = "asked"))

PagesNext ==
    /\ UNCHANGED side
    /\ IF side = "statuses" THEN Statuses!Next ELSE UNCHANGED statusesVars
    /\ IF side = "url" THEN Url!Next ELSE UNCHANGED urlVars
    /\ IF side = "overlays" THEN Screen!Next ELSE UNCHANGED overlaysVars
    /\ IF side = "controls" THEN Controls!Next ELSE UNCHANGED controlsVars
    /\ IF side = "video" THEN Video!Next ELSE UNCHANGED videoVars
    /\ IF side = "vars" THEN Vars!Next ELSE UNCHANGED varsVars
    /\ IF side = "light" THEN Light!Next ELSE UNCHANGED lightVars
    /\ IF side = "admin" THEN Admin!Next ELSE UNCHANGED adminVars
    /\ IF side = "slider" THEN Slider!Next ELSE UNCHANGED sliderVars
    /\ IF side = "notes" THEN Notes!Next ELSE UNCHANGED notesVars
    /\ IF side = "tabs" THEN Tabs!Next ELSE UNCHANGED tabsVars
    /\ IF side = "options" THEN Options!Next ELSE UNCHANGED optionsVars
    /\ IF side = "zoom" THEN Zoom!Next ELSE UNCHANGED zoomVars
    /\ IF side = "card" THEN Card!Next ELSE UNCHANGED cardVars
    /\ CASE side = "media" -> Media(Types, PollIds)!Next
         [] side = "overlap" -> Media(OverlapTypes, OverlapPolls)!Next
         [] OTHER -> UNCHANGED mediaVars
    /\ IF side = "record" THEN Record!Next ELSE UNCHANGED recordVars

PagesSpec == PagesInit /\ [][PagesNext]_pagesVars

-----------------------------------------------------------------------------
\* The variables of the part that moves have their types.
PagesTypeOK ==
    /\ side = "statuses" => Statuses!TypeOK
    /\ side = "url" => Url!TypeOK
    /\ side = "overlays" => Screen!TypeOK
    /\ side = "controls" => Controls!TypeOK
    /\ side = "video" => Video!TypeOK
    /\ side = "vars" => Vars!TypeOK
    /\ side = "light" => Light!TypeOK
    /\ side = "admin" => Admin!TypeOK
    /\ side = "slider" => Slider!TypeOK
    /\ side = "notes" => Notes!TypeOK
    /\ side = "tabs" => Tabs!TypeOK
    /\ side = "options" => Options!TypeOK
    /\ side = "zoom" => Zoom!TypeOK
    /\ side = "card" => Card!TypeOK
    /\ side = "media" => Media(Types, PollIds)!TypeOK
    /\ side = "overlap" => Media(OverlapTypes, OverlapPolls)!TypeOK
    /\ side = "record" => Record!TypeOK

\* The index page: a job's timer is that of the message it shows, not of an
\* earlier one, which would take the job off the list early.
TimersAreCurrent == Statuses!TimersAreCurrent

\* A URL with run submits by itself at most once.
RunsOnce == Url!RunsOnce

\* The light page: the points edited and stored are never another sensor's.
PointsAreOwn == Light!PointsAreOwn

\* The picture viewer: no zoom starts with the 1:1 view or the half double tap
\* of an earlier one.
ViewIsOwn == Zoom!ViewIsOwn

\* Polls that overlap do not take a screen back to older media.
NeverGoesBack == [][Media(Types, PollIds)!StaysNew]_mediaVars
=============================================================================
