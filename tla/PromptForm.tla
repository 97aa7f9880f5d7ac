------------------------------ MODULE PromptForm ------------------------------
(***************************************************************************)
(* The prompt form of the home page: what the user is composing (a text,   *)
(* files, reference URLs, a workflow and a destination), the submission of *)
(* it, and the camera cache that is to survive the reload a phone may      *)
(* inflict on the tab while its camera application is in front.            *)
(*                                                                         *)
(* A file is a model value; a render with the effects it starts is one     *)
(* step with the handler that caused it; every await is a step boundary.   *)
(***************************************************************************)
EXTENDS Naturals, Sequences, FiniteSets, SequencesExt

CONSTANTS Files,         \* files, each given to the form once: taken with
                         \* the camera, or picked, or dropped
          Urls,          \* reference image URLs
          Texts,         \* non-empty prompts
          Destinations,  \* publish destinations
          Workflows,     \* workflows other than "auto"
          Attempts,      \* identities of submissions (a bound on their number)
          MaxImages,     \* bound on the images composed
          MaxReloads,    \* bound on reloads of the tab
          Nothing        \* no photo, no saved form, no timer

Images == Files \cup Urls

ASSUME PromptFormAssumption ==
    /\ Files \cap Urls = {}
    /\ Nothing \notin Images \cup Texts \cup {""}
    /\ MaxImages \in Nat /\ MaxReloads \in Nat

VARIABLES
    prompt, files, refs,     \* PromptForm state and the references context
    settings,                \* the selected workflow and destination
    loading,                 \* localLoading
    live,                    \* files with an object URL that is not revoked
    timer,                   \* the pending cleanup: the files its closure saw
    session,                 \* sessionStorage: photo flag and saved form
    idb,                     \* the photo in IndexedDB
    camera,                  \* progress of handleCameraInput for each file
    arriving,                \* files in handleImageUpload's delay
    restore,                 \* restoreFromCache of this page load
    attempts,                \* handleSubmit, one record per submission
    published,               \* what the server has published: <<attempt, i>>
    reloads

formVars   == <<prompt, refs, settings>>
fileVars   == <<files, live, timer>>
cacheVars  == <<session, idb>>
asyncVars  == <<camera, arriving, restore>>
serverVars == <<attempts, published>>
vars == <<prompt, files, refs, settings, loading, live, timer, session, idb,
          camera, arriving, restore, attempts, published, reloads>>

Settings  == [workflow : Workflows \cup {"auto"},
              publish  : SUBSET Destinations]
Defaults  == [workflow |-> "auto", publish |-> {}]

\* What PromptFormToolbar hands to the uploader: no reference URL is in it.
FormState == [prompt : Texts \cup {""}, settings : Settings, photo : Files]

EmptySession == [flag |-> FALSE, photoFresh |-> FALSE,
                 form |-> Nothing, formFresh |-> FALSE]

Idle    == [stage |-> "none", photo |-> Nothing, form |-> Nothing]
Unused  == [stage |-> "unused", direct |-> FALSE, images |-> <<>>, next |-> 1]
Ended(stage) == [Unused EXCEPT !.stage = stage]

Init ==
    /\ prompt = "" /\ files = <<>> /\ refs = <<>>
    /\ settings = Defaults
    /\ loading = FALSE
    /\ live = {} /\ timer = Nothing
    /\ session = EmptySession /\ idb = Nothing
    /\ camera = [p \in Files |-> "unused"]
    /\ arriving = {}
    /\ restore = [Idle EXCEPT !.stage = "check"]
    /\ attempts = [a \in Attempts |-> Unused]
    /\ published = {}
    /\ reloads = 0

-----------------------------------------------------------------------------
(* Rendering and the object URLs of the previews.                          *)

\* A change of imageFiles: the memo gives every file an object URL, and the
\* effect on scheduleCleanup replaces the pending cleanup by one that knows
\* the files of this render.
\* Mutant: a pending cleanup is left to its old closure.
ShowFilesOnce(fs, kept) ==
    /\ files' = fs
    /\ live' = kept \cup Range(fs)
    /\ timer' = IF timer = Nothing THEN Range(fs) ELSE timer
ShowFiles(fs, kept) ==
    /\ files' = fs
    /\ live' = kept \cup Range(fs)
    /\ timer' = Range(fs)

\* The cleanup timer: revoke what its closure did not see.
CleanupFires ==
    /\ timer # Nothing
    /\ live' = live \cap timer
    /\ timer' = Nothing
    /\ UNCHANGED <<files, formVars, loading, cacheVars, asyncVars, serverVars, reloads>>

HasContent == prompt # "" \/ refs # <<>> \/ files # <<>>

\* The effect that is to end the loading state "when external loading
\* completes": nothing ever sets the external one, so it ends it at once.
LoadingEffect ==
    /\ loading
    /\ loading' = FALSE
    /\ UNCHANGED <<formVars, fileVars, cacheVars, asyncVars, serverVars, reloads>>

-----------------------------------------------------------------------------
(* Composing.                                                              *)

\* The uploader's inputs, its drop target, and the text area are disabled
\* while the form is loading.
CanUpload == ~loading
CanType   == ~loading

\* Typing, an example, or a style added to the text.
TypePrompt ==
    /\ CanType
    /\ \E t \in Texts : t # prompt /\ prompt' = t
    /\ UNCHANGED <<refs, settings, fileVars, loading, cacheVars, asyncVars,
                   serverVars, reloads>>

\* The setPromptText event of an image's menu asks nobody.
SetPromptText ==
    /\ \E t \in Texts \cup {""} : t # prompt /\ prompt' = t
    /\ UNCHANGED <<refs, settings, fileVars, loading, cacheVars, asyncVars,
                   serverVars, reloads>>

ClearPrompt ==
    /\ HasContent
    /\ prompt' = "" /\ refs' = <<>>
    /\ ShowFiles(<<>>, {})
    /\ UNCHANGED <<settings, loading, cacheVars, asyncVars, serverVars, reloads>>

\* A workflow is picked, a destination is added to or taken from the list, or
\* all of them are.
WorkflowPicked  == {[settings EXCEPT !.workflow = w] : w \in Workflows \cup {"auto"}}
PublishToggled  ==
    {[settings EXCEPT !.publish = IF d \in @ THEN @ \ {d} ELSE @ \cup {d}] :
       d \in Destinations}
PublishNowhere  == {[settings EXCEPT !.publish = {}]}

ChangeSettings ==
    /\ settings' \in WorkflowPicked \cup PublishToggled \cup PublishNowhere
    /\ UNCHANGED <<prompt, refs, fileVars, loading, cacheVars, asyncVars,
                   serverVars, reloads>>

\* Files picked, dropped or fetched from a dropped URL.
ProcessFiles ==
    /\ CanUpload
    /\ Len(files \o refs) + Cardinality(arriving) < MaxImages
    /\ \E g \in Files :
         /\ camera[g] = "unused"
         /\ camera' = [camera EXCEPT ![g] = "done"]
         /\ arriving' = arriving \cup {g}
    /\ UNCHANGED <<formVars, fileVars, loading, cacheVars, restore, serverVars,
                   reloads>>

\* handleImageUpload after its delay.
FileArrives(f) ==
    /\ f \in arriving
    /\ arriving' = arriving \ {f}
    /\ ShowFiles(Append(files, f), live)
    /\ UNCHANGED <<formVars, loading, cacheVars, camera, restore, serverVars, reloads>>

\* The useImageAsPrompt event: append to the references, or replace them.
UseImageAsPrompt ==
    /\ \E u \in Urls, append \in BOOLEAN :
         /\ refs' = IF append THEN Append(refs, u) ELSE <<u>>
         /\ Len(files \o refs') + Cardinality(arriving) <= MaxImages
    /\ UNCHANGED <<prompt, settings, fileVars, loading, cacheVars, asyncVars,
                   serverVars, reloads>>

\* A sequence of URLs without one of them, written over positions, which the
\* provers can work with.
Nth(S, n) == CHOOSE i \in S : Cardinality({j \in S : j <= i}) = n
Without(s, u) == LET kept == {j \in DOMAIN s : s[j] # u}
                 IN  [n \in 1..Cardinality(kept) |-> s[Nth(kept, n)]]

\* The cross on the i-th preview: a file by its place, a URL by its value, so
\* all its occurrences go.
RemoveImage(i) ==
    /\ IF i <= Len(files)
       THEN /\ ShowFiles(RemoveAt(files, i), live \ {files[i]})
            /\ UNCHANGED refs
       ELSE /\ refs' = Without(refs, refs[i - Len(files)])
            /\ UNCHANGED fileVars
    /\ UNCHANGED <<prompt, settings, loading, cacheVars, asyncVars, serverVars, reloads>>

-----------------------------------------------------------------------------
(* The camera.  The photo is cached, then the form is saved, then the      *)
(* photo goes into the form; the saved form is the one rendered when the   *)
(* camera answered.                                                        *)

Handling == {p \in Files : camera[p] \in {"put", "flag", "save"}}

\* The camera answers; it keeps the user away from the tab for much longer
\* than the restore of a page load takes, and than another handler runs.
CameraInput(p) ==
    /\ camera[p] = "unused" /\ CanUpload
    /\ restore.stage = "none" /\ Handling = {}
    /\ Len(files \o refs) + Cardinality(arriving) < MaxImages
    /\ camera' = [camera EXCEPT ![p] = "put"]
    /\ UNCHANGED <<formVars, fileVars, loading, cacheVars, arriving, restore,
                   serverVars, reloads>>

\* putPhoto: the blob first; a failure is swallowed and sets no flag.
PutPhoto(p) ==
    /\ camera[p] = "put"
    /\ \/ idb' = p /\ camera' = [camera EXCEPT ![p] = "flag"]
       \/ UNCHANGED idb /\ camera' = [camera EXCEPT ![p] = "save"]
    /\ UNCHANGED <<formVars, fileVars, loading, session, arriving, restore,
                   serverVars, reloads>>

SetFlag(p) ==
    /\ camera[p] = "flag"
    /\ session' = [session EXCEPT !.flag = TRUE, !.photoFresh = TRUE]
    /\ camera' = [camera EXCEPT ![p] = "save"]
    /\ UNCHANGED <<formVars, fileVars, loading, idb, arriving, restore,
                   serverVars, reloads>>

SaveFormState(p) ==
    /\ camera[p] = "save"
    /\ session' = [session EXCEPT
                     !.form = [prompt |-> prompt, settings |-> settings, photo |-> p],
                     !.formFresh = TRUE]
    /\ camera' = [camera EXCEPT ![p] = "done"]
    /\ arriving' = arriving \cup {p}
    /\ UNCHANGED <<formVars, fileVars, loading, idb, restore, serverVars, reloads>>

\* A minute passes since the photo, or since the form, was stored.
Expire ==
    /\ \/ /\ session.photoFresh
          /\ session' = [session EXCEPT !.photoFresh = FALSE]
       \/ /\ session.formFresh
          /\ session.photoFresh => session.form.photo # idb
          /\ session' = [session EXCEPT !.formFresh = FALSE]
    /\ UNCHANGED <<formVars, fileVars, loading, idb, asyncVars, serverVars, reloads>>

\* clearAll: sessionStorage at once, IndexedDB after an await, errors ignored.
\* Mutant: the form is forgotten, the photo's flag is not.
ClearSessionForm == session' = [session EXCEPT !.form = Nothing, !.formFresh = FALSE]
ClearSession == session' = EmptySession
DeletePhoto  == idb' \in {Nothing, idb}

-----------------------------------------------------------------------------
(* A page load: restoreFromCache.                                          *)

\* The saved form is read, and dropped when it is too old; then the flag is
\* looked at, and an old photo is dropped with everything else.
RestoreCheck ==
    /\ restore.stage = "check"
    /\ LET form == IF session.formFresh THEN session.form ELSE Nothing
           kept == IF session.formFresh THEN session
                   ELSE [session EXCEPT !.form = Nothing]
       IN IF ~session.flag
          THEN restore' = Idle /\ session' = kept
          ELSE IF ~session.photoFresh
               THEN /\ restore' = [Idle EXCEPT !.stage = "drop"]
                    /\ ClearSession
               ELSE /\ restore' = [Idle EXCEPT !.stage = "read", !.form = form]
                    /\ session' = kept
    /\ UNCHANGED <<formVars, fileVars, loading, idb, camera, arriving, serverVars, reloads>>

RestoreDrop ==
    /\ restore.stage = "drop"
    /\ DeletePhoto
    /\ restore' = Idle
    /\ UNCHANGED <<formVars, fileVars, loading, session, camera, arriving, serverVars, reloads>>

\* The blob is read; a failure clears the cache, an absent blob does not.
RestoreRead ==
    /\ restore.stage = "read"
    /\ \/ /\ idb # Nothing
          /\ restore' = [restore EXCEPT !.stage = "clear", !.photo = idb]
          /\ ClearSession
       \/ /\ idb = Nothing
          /\ restore' = Idle
          /\ UNCHANGED session
       \/ /\ restore' = [Idle EXCEPT !.stage = "drop"]
          /\ ClearSession
    /\ UNCHANGED <<formVars, fileVars, loading, idb, camera, arriving, serverVars, reloads>>

\* The cache is cleared; the photo is uploaded into the form, after the delay,
\* and the saved form replaces what is in the form now.  The workflow's
\* parameters follow the page's and are not part of it.
RestoreForm ==
    /\ restore.stage = "clear"
    /\ DeletePhoto
    /\ arriving' = arriving \cup {restore.photo}
    /\ IF restore.form = Nothing
       THEN UNCHANGED formVars
       ELSE /\ prompt' = IF restore.form.prompt = "" THEN prompt ELSE restore.form.prompt
            /\ settings' = restore.form.settings
            /\ UNCHANGED refs
    /\ restore' = Idle
    /\ UNCHANGED <<fileVars, loading, session, camera, serverVars, reloads>>

\* The tab is reloaded: memory is lost, storage is not.
Reload ==
    /\ reloads < MaxReloads
    /\ reloads' = reloads + 1
    /\ prompt' = "" /\ files' = <<>> /\ refs' = <<>>
    /\ settings' = Defaults
    /\ loading' = FALSE /\ live' = {} /\ timer' = Nothing
    /\ camera' = [p \in Files |-> IF camera[p] = "unused" THEN "unused" ELSE "done"]
    /\ arriving' = {}
    /\ restore' = [Idle EXCEPT !.stage = "check"]
    /\ attempts' = [a \in Attempts |->
                      IF attempts[a].stage \in {"upload", "publish", "clear", "delete"}
                      THEN Ended("lost") ELSE attempts[a]]
    /\ UNCHANGED <<cacheVars, published>>

-----------------------------------------------------------------------------
(* Submitting.                                                             *)

\* No text, images, everything automatic and a destination: the images are
\* uploaded and published as they are.
IsDirectUpload ==
    /\ prompt = "" /\ files \o refs # <<>>
    /\ settings.workflow = "auto" /\ settings.publish # {}

\* The Enter key needs a text, the button any content.
EnterSubmits  == ~loading /\ prompt # ""
ButtonEnabled == ~loading /\ HasContent

\* A generation is handed over to the page and not awaited.
Submit(a) ==
    /\ attempts[a].stage = "unused"
    /\ EnterSubmits \/ ButtonEnabled
    /\ ~loading /\ HasContent
    /\ loading' = TRUE
    /\ attempts' = [attempts EXCEPT ![a] =
         IF IsDirectUpload
         THEN [stage  |-> IF Head(files \o refs) \in Files THEN "upload" ELSE "publish",
               direct |-> TRUE, images |-> files \o refs, next |-> 1]
         ELSE [stage |-> "clear", direct |-> FALSE, images |-> files \o refs, next |-> 1]]
    /\ UNCHANGED <<formVars, fileVars, cacheVars, asyncVars, published, reloads>>

\* An error ends the attempt; its images are no longer needed.
\* Mutant: the cache is cleared whether or not the images went through.
FailClears(a) ==
    /\ attempts' = [attempts EXCEPT ![a].stage = "clear"]
    /\ loading' = FALSE
Fail(a) ==
    /\ attempts' = [attempts EXCEPT ![a] = Ended("failed")]
    /\ loading' = FALSE

\* A file is first put into the destination's bucket ...
UploadFile(a) ==
    /\ attempts[a].stage = "upload"
    /\ \/ /\ attempts' = [attempts EXCEPT ![a].stage = "publish"]
          /\ UNCHANGED <<loading, published>>
       \/ Fail(a) /\ UNCHANGED published
    /\ UNCHANGED <<formVars, fileVars, cacheVars, asyncVars, reloads>>

\* ... and published; a URL is published as it is.  Then the next image, and a
\* failure ends the attempt (its answer may be lost after it took effect).
PublishImage(a) ==
    /\ attempts[a].stage = "publish"
    /\ LET now  == attempts[a].next
           left == SubSeq(attempts[a].images, now + 1, Len(attempts[a].images))
       IN \/ /\ published' = published \cup {<<a, now>>}
             /\ attempts' = [attempts EXCEPT ![a] =
                  [@ EXCEPT !.next = now + 1,
                            !.stage = IF left = <<>> THEN "clear"
                                      ELSE IF Head(left) \in Files THEN "upload"
                                      ELSE "publish"]]
             /\ UNCHANGED loading
          \/ /\ published' \in {published, published \cup {<<a, now>>}}
             /\ Fail(a)
    /\ UNCHANGED <<formVars, fileVars, cacheVars, asyncVars, reloads>>

\* The photo cache is cleared once the images are through.
ClearAfterSubmit(a) ==
    /\ attempts[a].stage = "clear"
    /\ attempts' = [attempts EXCEPT ![a].stage = "delete"]
    /\ ClearSession
    /\ UNCHANGED <<formVars, fileVars, loading, idb, asyncVars, published, reloads>>

SubmitDone(a) ==
    /\ attempts[a].stage = "delete"
    /\ attempts' = [attempts EXCEPT ![a].stage = "done"]
    /\ DeletePhoto
    /\ loading' = FALSE
    /\ UNCHANGED <<formVars, fileVars, session, asyncVars, published, reloads>>

\* A click's state change is rendered, and the effects of that render run,
\* before anything else happens.
Next ==
    \/ LoadingEffect
    \/ /\ ~loading
       /\ \/ TypePrompt \/ SetPromptText \/ ClearPrompt
          \/ ChangeSettings
          \/ ProcessFiles \/ UseImageAsPrompt
          \/ \E f \in Files : FileArrives(f)
          \/ \E i \in 1..Len(files \o refs) : RemoveImage(i)
          \/ CleanupFires
          \/ \E p \in Files : \/ CameraInput(p) \/ PutPhoto(p)
                               \/ SetFlag(p) \/ SaveFormState(p)
          \/ Expire \/ Reload
          \/ RestoreCheck \/ RestoreDrop \/ RestoreRead \/ RestoreForm
          \/ \E a \in Attempts : \/ Submit(a) \/ UploadFile(a) \/ PublishImage(a)
                                 \/ ClearAfterSubmit(a) \/ SubmitDone(a)

Spec == Init /\ [][Next]_vars

-----------------------------------------------------------------------------
(* Properties.                                                             *)

Stages == {"unused", "upload", "publish", "clear", "delete", "done", "failed", "lost"}

\* The types of the form, of the storage that survives a reload, and of the
\* handlers under way.
TypeOK ==
    /\ prompt \in Texts \cup {""} /\ files \in Seq(Files) /\ refs \in Seq(Urls)
    /\ settings \in Settings /\ loading \in BOOLEAN
    /\ live \subseteq Files /\ timer \in (SUBSET Files) \cup {Nothing}
    /\ session \in [flag : BOOLEAN, photoFresh : BOOLEAN,
                    form : FormState \cup {Nothing}, formFresh : BOOLEAN]
    /\ idb \in Files \cup {Nothing}
    /\ camera \in [Files -> {"unused", "put", "flag", "save", "done"}]
    /\ arriving \subseteq Files
    /\ restore \in [stage : {"none", "check", "drop", "read", "clear"},
                    photo : Files \cup {Nothing}, form : FormState \cup {Nothing}]
    /\ attempts \in [Attempts -> [stage : Stages, direct : BOOLEAN,
                                  images : Seq(Images), next : Nat \ {0}]]
    /\ published \subseteq Attempts \X (Nat \ {0})
    /\ reloads \in 0..MaxReloads

\* Every file shown in the form has an object URL that was not revoked: the
\* delayed cleanup, whose closure may be older than the files, never takes the
\* preview of a file that is still there.
PreviewsAreLive == Range(files) \subseteq live

\* A photo whose submission came to its end is not put into the form again by
\* the restore of a later page load, whatever of the cache's two halves could
\* not be cleared.
SubmittedPhotoStaysGone ==
    \A a \in Attempts :
        attempts[a].stage = "done" /\ restore.stage = "clear" =>
            restore.photo \notin Range(attempts[a].images)

\* A direct upload gives up the cached photo only when the destination has
\* published each of its images: when one fails, what was not sent can still
\* be restored.
CacheKeptUntilPublished ==
    \A a \in Attempts :
        attempts[a].direct /\ attempts[a].stage \in {"clear", "delete", "done"} =>
            \A i \in 1..Len(attempts[a].images) : <<a, i>> \in published

\* The form's state: its types, and no file of it without its preview.
FormHolds == TypeOK /\ PreviewsAreLive

\* The cached photo is there until it was sent, and not used after that.
CacheFollowsSubmission == SubmittedPhotoStaysGone /\ CacheKeptUntilPublished
=============================================================================
