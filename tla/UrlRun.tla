------------------------------- MODULE UrlRun -------------------------------
(***************************************************************************)
(* The main page's settings as its URL gives them, and the run it asks for.*)
(*                                                                         *)
(* An effect applies the URL's prompt, workflow and other parameters after *)
(* every change of what it depends on, the settings themselves among it.   *)
(* When the URL says run, the effect sets a timer of half a second, which  *)
(* the next run of the effect clears, and the timer submits and takes run  *)
(* out of the URL.  The objects other parameters are put in are new each   *)
(* time, which is a change.                                                *)
(***************************************************************************)
EXTENDS Naturals, Sequences

CONSTANTS Prompts, Workflows,
          Auto,       \* the workflow the page starts with
          None,       \* no prompt, no parameter, no timer
          MaxActs     \* bound on what the user submits and changes

UrlRunAssumption == MaxActs \in Nat /\ Auto \in Workflows

VARIABLES url,             \* searchParams
          loaded,          \* history: the URL the page was opened with
          currentPrompt, currentWorkflow,
          changed,         \* a dependency of the effect has changed
          runTimer,        \* the timeout pending, with what its closure holds
          submitted,       \* history: what handleSubmitPrompt was called with
          acts

vars == <<url, loaded, currentPrompt, currentWorkflow, changed, runTimer,
          submitted, acts>>

-----------------------------------------------------------------------------
Urls == [prompt : Prompts \cup {None}, workflow : Workflows \cup {None},
         other : BOOLEAN, run : BOOLEAN]
Closures == [prompt : Prompts \cup {None}, workflow : Workflows]
Submits  == [by : {"user", "url"}, prompt : Prompts \cup {None}, workflow : Workflows]

TypeOK ==
    /\ url \in Urls /\ loaded \in Urls
    /\ currentPrompt \in Prompts \cup {None} /\ currentWorkflow \in Workflows
    /\ changed \in BOOLEAN
    /\ runTimer \in Closures \cup {None}
    /\ submitted \in Seq(Submits) /\ acts \in 0..MaxActs

Init ==
    /\ url \in Urls /\ loaded = url
    /\ currentPrompt = None
    /\ currentWorkflow = Auto
    /\ changed = TRUE /\ runTimer = None /\ submitted = <<>> /\ acts = 0

-----------------------------------------------------------------------------
Or(param, current) == IF param # None THEN param ELSE current

\* Mutant: the settings are put in a new object every time.
ChangesAlways(p, w) == <<p, w>> # <<>>
\* Setting a value to what it is changes nothing, a new object always does.
Changes(p, w) == p # currentPrompt \/ w # currentWorkflow \/ url.other

\* What the effect's closure holds of the URL, and for the rest of the page.
Closure == [prompt   |-> Or(url.prompt, currentPrompt),
            workflow |-> Or(url.workflow, currentWorkflow)]

ApplyUrl ==
    /\ changed
    /\ currentPrompt' = Or(url.prompt, currentPrompt)
    /\ currentWorkflow' = Or(url.workflow, currentWorkflow)
    /\ changed' = Changes(Or(url.prompt, currentPrompt), Or(url.workflow, currentWorkflow))
    /\ runTimer' = IF url.run THEN Closure ELSE None
    /\ UNCHANGED <<url, loaded, submitted, acts>>

\* usePromptSubmission: the workflow given, or the page's.
Submit(by, p, w) ==
    /\ Len(submitted) <= MaxActs + 1
    /\ submitted' = Append(submitted, [by |-> by, prompt |-> p,
                                       workflow |-> Or(w, currentWorkflow)])

\* Mutant: run stays in the URL.
RunStays(u) == u
AfterRun(u) == [u EXCEPT !.run = FALSE]

\* The timer submits and navigates, in one batch.  With no prompt and no
\* parameter it says so, and run stays in the URL.
RunTimerFires ==
    /\ runTimer # None /\ ~changed
    /\ runTimer' = None
    /\ IF runTimer.prompt # None \/ url.other
       THEN /\ Submit("url", runTimer.prompt, runTimer.workflow)
            /\ url' = AfterRun(url) /\ changed' = TRUE
       ELSE UNCHANGED <<url, changed, submitted>>
    /\ UNCHANGED <<loaded, currentPrompt, currentWorkflow, acts>>

-----------------------------------------------------------------------------
\* handlePromptSubmit: the form's settings become the page's, its parameters
\* in a new object.
UserSubmits(p, w) ==
    /\ acts < MaxActs /\ acts' = acts + 1
    /\ Submit("user", p, w)
    /\ currentPrompt' = p /\ currentWorkflow' = Or(w, currentWorkflow)
    /\ changed' = TRUE
    /\ UNCHANGED <<url, loaded, runTimer>>

\* The form and the panel of advanced options change the workflow.
PickWorkflow(w) ==
    /\ acts < MaxActs /\ acts' = acts + 1
    /\ w # currentWorkflow /\ currentWorkflow' = w
    /\ changed' = TRUE
    /\ UNCHANGED <<url, loaded, currentPrompt, runTimer, submitted>>

-----------------------------------------------------------------------------
Next == \/ ApplyUrl \/ RunTimerFires
        \/ \E p \in Prompts, w \in Workflows \cup {None} : UserSubmits(p, w)
        \/ \E w \in Workflows : PickWorkflow(w)

Runs == ApplyUrl \/ RunTimerFires
Spec == Init /\ [][Next]_vars /\ WF_vars(Runs)

-----------------------------------------------------------------------------
ByUrl == {i \in DOMAIN submitted : submitted[i].by = "url"}

\* A page opened with run submits by itself at most once, whatever the user
\* submits and changes meanwhile and however often the effect runs again.
RunsOnce == \A i, k \in ByUrl : i = k

\* A page opened with run and a prompt does submit that prompt, with the
\* workflow the URL names.  With other parameters it never does: the effect
\* keeps changing what it depends on.
HasRun ==
    loaded.run /\ loaded.prompt # None /\ ~loaded.other
    => \E i \in ByUrl : /\ submitted[i].prompt = loaded.prompt
                       /\ loaded.workflow # None => submitted[i].workflow = loaded.workflow
AutoRuns == <>[]HasRun
=============================================================================
