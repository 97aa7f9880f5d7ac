---------------------------- MODULE SchedulerPage ----------------------------
(***************************************************************************)
(* The page that controls the schedulers, for one destination: its card    *)
(* with the buttons, the editor of schedules and the dialog that sets a    *)
(* variable, with the requests they send and the server's side of each.    *)
(*                                                                         *)
(* A command is a request, its answer, and then a refresh of the whole     *)
(* page, of several requests.  While a refresh is under way the page shows *)
(* nothing but a message: cards, editor and dialog are unmounted, and the  *)
(* editor, when it was open, starts anew after it.  Commands and refreshes *)
(* overlap, and any of them may fail.                                      *)
(***************************************************************************)
EXTENDS Naturals, Sequences, FiniteSets, SequencesExt

CONSTANTS Versions,   \* contents of a schedule the editor finds valid
          Protected,  \* those with prevent_unload
          Values,     \* values of the context variable
          Requests,   \* commands and refreshes that may be under way together
          Empty,      \* the empty schedule {}, also the shown text of it
          Broken,     \* a text that does not parse
          Nothing,    \* no value
          MaxLayers,  \* bound on the stack of schedules
          MaxActs     \* bound on what the user does

ASSUME SchedulerPageAssumption ==
    /\ Protected \subseteq Versions
    /\ Empty \notin Versions /\ Broken \notin Versions \cup {Empty}
    /\ Nothing \notin Versions \cup Values \cup {Empty, Broken}
    /\ MaxLayers \in Nat \ {0} /\ MaxActs \in Nat

VARIABLES
    state,      \* server: scheduler_states
    live,       \* server: the destination is in running_schedulers
    stack,      \* server: the schedules, the one that runs last
    contexts,   \* server: the variable's value in each context
    loading,    \* the page shows "Loading schedulers..."
    shown,      \* the destination as the page got it
    calls,      \* the commands and refreshes under way
    editor,     \* the schedule editor
    dialog,     \* the dialog that sets the variable
    toast,      \* what the last command said
    missed,     \* history: a refused command changed what the page shows
    overlapped, \* history: two commands or refreshes were under way together
    acts

server == <<state, live, stack, contexts>>
page   == <<loading, shown, editor, dialog>>
history == <<missed, overlapped>>
vars   == <<state, live, stack, contexts, loading, shown, calls, editor, dialog,
            toast, missed, overlapped, acts>>

-----------------------------------------------------------------------------
States == {"stopped", "running", "paused"}
\* What the page shows: "unknown" before it has listed the destination.
Views  == [state : States \cup {"unknown"}, stack : Seq(Versions),
           var : Values \cup {Nothing}]
Blank  == [state |-> "unknown", stack |-> <<>>, var |-> Nothing]

Top(s) == IF s = <<>> THEN Nothing ELSE Last(s)

\* What a refresh reads, when nothing changes while it does.
View == [state |-> state, stack |-> stack, var |-> Top(contexts)]

Commands == {"none", "refresh", "resume", "pause", "start", "autostart", "stop",
             "unload", "create", "edit", "save", "set", "delete"}

\* The steps of a command: "sent", at the server; "done" or "refused", answered;
\* "reread", the dialog reads the context again.  The steps of its refresh:
\* "list", "details", "landing", by what is read next; "saved", the pause after it.
Steps == {"idle", "sent", "done", "refused", "reread", "list", "details",
          "landing", "saved"}

Calls == [cmd : Commands, at : Steps, layer : Nat,
          put : Versions \cup Values \cup {Empty, Nothing}, got : Views]
Idle  == [cmd |-> "none", at |-> "idle", layer |-> 0, put |-> Nothing,
          got |-> Blank]
Call(cmd, layer, put) == [Idle EXCEPT !.cmd = cmd, !.at = "sent",
                                      !.layer = layer, !.put = put]
Refresh == [Idle EXCEPT !.cmd = "refresh", !.at = "list"]

Under  == {c \in Requests : calls[c] # Idle}
Quiet  == Under = {}
At(c, step) == calls[c].at = step
To(c, step) == calls' = [calls EXCEPT ![c].at = step]
End(c)      == calls' = [calls EXCEPT ![c] = Idle]

-----------------------------------------------------------------------------
(* The editor.  Layer 0 is a new schedule, layer i the i-th of the stack.  *)

Texts == Versions \cup {Empty, Broken}
Forms == Versions \cup {Empty}
IsValid(x) == x \in Versions

Closed == [open |-> FALSE, layer |-> 0, initial |-> Empty, form |-> Empty,
           raw |-> Empty, tab |-> 0, switched |-> FALSE, valid |-> TRUE,
           timer |-> FALSE]
Editors == [open : BOOLEAN, layer : Nat, initial : Forms, form : Forms,
            raw : Texts, tab : 0..2, switched : BOOLEAN, valid : BOOLEAN,
            timer : BOOLEAN]

\* Mounted: form and text are the initial data, the form is in front, and the
\* effect of the tab has run once.
Mounted(layer, initial) ==
    [Closed EXCEPT !.open = TRUE, !.layer = layer, !.initial = initial,
                   !.form = initial, !.raw = initial, !.switched = TRUE]

\* The timer that parses the text is set whenever the text, the tab or the
\* mark of a switch changes, in the text's tab and when the mark is off.
Rearm(e) == [e EXCEPT !.timer = (e.tab = 1 /\ ~e.switched)]

\* The effect of a tab: it does nothing but take the mark off when it is on.
Switch(e, t) ==
    IF e.switched THEN Rearm([e EXCEPT !.tab = t, !.switched = FALSE])
    ELSE Rearm([e EXCEPT !.tab = t, !.switched = TRUE,
                         !.raw = IF t = 1 THEN e.form ELSE e.raw])

\* Opened again it takes the new data and comes to the front, in place.
Opened(e, layer, initial) ==
    IF e.open /\ ~loading
    THEN LET next == [e EXCEPT !.layer = layer, !.initial = initial,
                               !.form = initial, !.raw = initial]
         IN  IF e.tab = 0 THEN next ELSE Switch(next, 0)
    ELSE Mounted(layer, initial)

\* Mutant: the effect does not depend on the text.
RetextQuiet(e, text) == [e EXCEPT !.raw = text]
Retext(e, text) == LET next == [e EXCEPT !.raw = text]
                   IN  IF text = e.raw THEN next ELSE Rearm(next)

-----------------------------------------------------------------------------
NoDialog == [open |-> FALSE, value |-> Nothing, busy |-> Nothing]
Dialogs  == [open : BOOLEAN, value : Values \cup {Broken, Nothing},
             busy : Requests \cup {Nothing}]

Toasts == {"", "error", "paused", "resumed", "started", "stopped", "unloaded",
           "set", "saved", "saved and started"}

Init ==
    /\ \/ state = "stopped" /\ live = FALSE /\ stack = <<>> /\ contexts = <<>>
       \/ /\ \/ state = "stopped" /\ live = FALSE
             \/ state = "running" /\ live = TRUE
             \/ state = "paused" /\ live \in BOOLEAN
          /\ \E v \in Versions, x \in Values : stack = <<v>> /\ contexts = <<x>>
    /\ loading = TRUE
    /\ shown = Blank
    /\ \E c \in Requests : calls = [r \in Requests |-> IF r = c THEN Refresh ELSE Idle]
    /\ editor = Closed
    /\ dialog = NoDialog
    /\ toast = ""
    /\ missed = FALSE
    /\ overlapped = FALSE
    /\ acts = 0

-----------------------------------------------------------------------------
(* What the user does.  The page must be there; the editor and the dialog  *)
(* cover it when they are open.                                            *)

Act  == ~loading /\ acts < MaxActs /\ acts' = acts + 1
Free == ~editor.open /\ ~dialog.open

\* A command has a request of its own, while others may be under way.
Send(call) ==
    /\ \E c \in Requests \ Under : calls' = [calls EXCEPT ![c] = call]
    /\ overlapped' = (overlapped \/ ~Quiet)

\* What a card, the editor and the dialog lose when a refresh hides the page.
Remounted == IF editor.open THEN Mounted(editor.layer, editor.initial) ELSE editor
Hide == loading' = TRUE /\ editor' = Remounted /\ dialog' = NoDialog

\* The button of the page, or of the card on a small screen.
RefreshPage ==
    /\ Act /\ Free
    /\ Send(Refresh)
    /\ Hide
    /\ UNCHANGED <<server, shown, toast, missed>>

\* A click on the card.
Click(call) ==
    /\ Act /\ Free
    /\ shown.state # "unknown"
    /\ Send(call)
    /\ UNCHANGED <<server, page, toast, missed>>

\* Resume when the card shows paused, Pause when it shows running.
ToggleSchedule ==
    \/ shown.state = "paused" /\ Click(Call("resume", 0, Nothing))
    \/ shown.state = "running" /\ Click(Call("pause", 0, Nothing))

StartScheduler  == shown.state = "stopped" /\ Click(Call("start", 0, Nothing))
StopScheduler   == shown.state \in {"running", "paused"} /\ Click(Call("stop", 0, Nothing))
UnloadSchedule  == shown.stack # <<>> /\ Click(Call("unload", 0, Nothing))
CreateSchedule  == Click(Call("create", 0, Empty))
EditSchedule    == \E i \in 1..Len(shown.stack) : Click(Call("edit", i, Nothing))

\* The variables are shown at the first layer.  A value typed before stays.
OpenVars ==
    /\ Act /\ Free
    /\ shown.stack # <<>> /\ shown.var # Nothing
    /\ dialog' = [dialog EXCEPT !.open = TRUE,
                     !.value = IF dialog.value = Nothing THEN shown.var ELSE dialog.value]
    /\ UNCHANGED <<server, loading, shown, editor, calls, toast, history>>

TypeValue ==
    /\ Act
    /\ dialog.open
    /\ \E x \in Values \cup {Broken} : dialog' = [dialog EXCEPT !.value = x]
    /\ UNCHANGED <<server, loading, shown, editor, calls, toast, history>>

\* A text that does not parse is reported, and null is sent for it.
ParseValue == IF dialog.value = Broken THEN Nothing ELSE dialog.value

\* Save and Delete, one at a time.
SetVar ==
    /\ Act
    /\ dialog.open /\ dialog.busy = Nothing
    /\ \E c \in Requests \ Under :
          /\ \/ calls' = [calls EXCEPT ![c] = Call("set", 1, ParseValue)]
             \/ calls' = [calls EXCEPT ![c] = Call("delete", 1, Nothing)]
          /\ dialog' = [dialog EXCEPT !.busy = c]
    /\ overlapped' = (overlapped \/ ~Quiet)
    /\ UNCHANGED <<server, loading, shown, editor, toast, missed>>

CloseVars ==
    /\ dialog.open /\ ~loading
    /\ dialog' = [dialog EXCEPT !.open = FALSE]
    /\ UNCHANGED <<server, loading, shown, editor, calls, toast, history, acts>>

-----------------------------------------------------------------------------
(* The editor.                                                             *)

InEditor(next) ==
    /\ editor.open
    /\ editor' = next
    /\ UNCHANGED <<server, loading, shown, dialog, calls, toast, history>>

SwitchTab == Act /\ \E t \in 0..2 \ {editor.tab} : InEditor(Switch(editor, t))

\* A form edit goes to the text at once.
FormChange ==
    /\ Act
    /\ editor.tab = 0
    /\ \E v \in Forms \ {editor.form} :
          InEditor(Retext([editor EXCEPT !.form = v], v))

RawTextChange ==
    /\ Act
    /\ editor.tab = 1
    /\ \E text \in Texts \ {editor.raw} : InEditor(Retext(editor, text))

\* Mutant: what does not parse goes to the form too.
ParseRawAnyway ==
    /\ ~loading
    /\ editor.timer
    /\ InEditor([editor EXCEPT !.timer = FALSE, !.form = editor.raw,
                    !.valid = IsValid(editor.raw)])
    /\ UNCHANGED acts

\* The text is parsed half a second after it, or the tab, last changed.
ParseRaw ==
    /\ ~loading
    /\ editor.timer
    /\ InEditor([editor EXCEPT !.timer = FALSE,
                    !.form = IF editor.raw = Broken THEN editor.form ELSE editor.raw,
                    !.valid = IsValid(editor.raw)])
    /\ UNCHANGED acts

LoadScript ==
    /\ Act
    /\ \E v \in Versions : InEditor(Retext([editor EXCEPT !.form = v], v))

\* The form is validated; in the text's tab the text is sent.  The buttons
\* stay as they are until the answer.
SaveSchedule ==
    /\ Act
    /\ editor.open /\ editor.valid
    /\ IsValid(editor.form)
    /\ editor.tab = 1 => editor.raw # Broken
    /\ Len(stack) + Cardinality({c \in Under : calls[c].cmd = "save"}) < MaxLayers
    /\ Send(Call("save", editor.layer, IF editor.tab = 1 THEN editor.raw ELSE editor.form))
    /\ UNCHANGED <<server, page, toast, missed>>

CancelEdit ==
    /\ editor.open /\ ~loading
    /\ editor' = Closed
    /\ UNCHANGED <<server, loading, shown, dialog, calls, toast, history, acts>>

-----------------------------------------------------------------------------
(* The server.                                                             *)

Sent(c, cmds) == At(c, "sent") /\ calls[c].cmd \in cmds
Served(c) == To(c, "done") /\ UNCHANGED missed
Refused(c, changed) == To(c, "refused") /\ missed' = (missed \/ changed)
ServerOnly == UNCHANGED <<page, toast, overlapped, acts>>

\* start_scheduler: it fails, and calls it stopped, when the loop is there.
Start(c) ==
    IF live
    THEN state' = "stopped" /\ Refused(c, TRUE) /\ UNCHANGED <<live, contexts>>
    ELSE /\ state' = "running" /\ live' = TRUE
         /\ contexts' = IF contexts = <<>> THEN <<Nothing>> ELSE contexts
         /\ Served(c)

\* An empty schedule stands for the one on top; without one it is refused.
ServeStart(c) ==
    /\ Sent(c, {"start", "autostart"})
    /\ IF stack = <<>> THEN Refused(c, FALSE) /\ UNCHANGED <<state, live, contexts>>
                       ELSE Start(c)
    /\ UNCHANGED stack
    /\ ServerOnly

StoppedState == IF state = "paused" THEN "paused" ELSE "stopped"

ServeStop(c) ==
    /\ Sent(c, {"stop"})
    /\ live' = FALSE /\ state' = StoppedState
    /\ Served(c)
    /\ UNCHANGED <<stack, contexts>>
    /\ ServerOnly

\* Pausing what is paused unpauses it; unpausing starts no loop.
ServeToggle(c) ==
    /\ Sent(c, {"pause", "resume"})
    /\ state' = IF calls[c].cmd = "pause" /\ state # "paused" THEN "paused" ELSE "running"
    /\ Served(c)
    /\ UNCHANGED <<live, stack, contexts>>
    /\ ServerOnly

\* When the last schedule is unloaded the scheduler is stopped.
ServeUnload(c) ==
    /\ Sent(c, {"unload"})
    /\ IF stack = <<>> \/ Top(stack) \in Protected
       THEN Refused(c, FALSE) /\ UNCHANGED server
       ELSE /\ stack' = Front(stack)
            /\ contexts' = IF contexts = <<>> THEN <<>> ELSE Front(contexts)
            /\ live' = (live /\ Len(stack) > 1)
            /\ state' = IF Len(stack) > 1 THEN state ELSE StoppedState
            /\ Served(c)
    /\ ServerOnly

\* A new schedule is pushed and, unless the loop runs, started.
ServeLoad(c) ==
    /\ Sent(c, {"save"}) /\ calls[c].layer = 0
    /\ IF calls[c].put = Empty
       THEN Refused(c, FALSE) /\ UNCHANGED server
       ELSE /\ stack' = Append(stack, calls[c].put)
            /\ contexts' = Append(contexts, Top(contexts))
            /\ IF live /\ state # "running"
               THEN state' = "stopped" /\ Refused(c, TRUE) /\ UNCHANGED live
               ELSE state' = "running" /\ live' = TRUE /\ Served(c)
    /\ ServerOnly

ServeUpdate(c) ==
    /\ Sent(c, {"save"}) /\ calls[c].layer > 0
    /\ IF calls[c].put = Empty \/ calls[c].layer > Len(stack)
       THEN Refused(c, FALSE) /\ UNCHANGED stack
       ELSE stack' = [stack EXCEPT ![calls[c].layer] = calls[c].put] /\ Served(c)
    /\ UNCHANGED <<state, live, contexts>>
    /\ ServerOnly

\* The variable of the top context; there is one after it.
ServeSet(c) ==
    /\ Sent(c, {"set", "delete"})
    /\ contexts' = IF contexts = <<>> THEN <<calls[c].put>>
                   ELSE [contexts EXCEPT ![Len(contexts)] = calls[c].put]
    /\ Served(c)
    /\ UNCHANGED <<state, live, stack>>
    /\ ServerOnly

\* The stack is read for the editor, which takes the layer's schedule.
ServeEdit(c) ==
    /\ Sent(c, {"create", "edit"})
    /\ IF calls[c].layer > Len(stack) THEN Refused(c, FALSE)
       ELSE /\ calls' = [calls EXCEPT ![c].at = "done",
                 ![c].put = IF calls[c].layer = 0 THEN Empty ELSE stack[calls[c].layer]]
            /\ UNCHANGED missed
    /\ UNCHANGED server
    /\ ServerOnly

\* A request is lost on its way, or its answer is.
Lost(c) ==
    /\ \/ At(c, "sent") /\ Refused(c, FALSE)
       \/ At(c, "done") /\ Refused(c, TRUE)
    /\ UNCHANGED server
    /\ ServerOnly

-----------------------------------------------------------------------------
(* The answers.                                                            *)

Refetch(c) ==
    /\ To(c, "list")
    /\ loading' = TRUE /\ dialog' = NoDialog

\* Mutant: an unload leaves the page as it is.
CommandDoneQuietly(c) ==
    /\ At(c, "done")
    /\ calls[c].cmd \in {"resume", "pause", "start", "autostart", "stop", "unload"}
    /\ IF calls[c].cmd = "unload"
       THEN End(c) /\ UNCHANGED <<loading, dialog, editor>>
       ELSE Refetch(c) /\ editor' = Remounted
    /\ UNCHANGED <<server, shown, toast, history, acts>>

\* Every command that changed the scheduler refreshes the page.
CommandDone(c) ==
    /\ At(c, "done")
    /\ calls[c].cmd \in {"resume", "pause", "start", "autostart", "stop", "unload"}
    /\ Refetch(c)
    /\ editor' = Remounted
    /\ UNCHANGED <<server, shown, toast, history, acts>>

\* The editor opens, and the card refreshes the page after an edit.
EditorOpens(c) ==
    /\ At(c, "done") /\ calls[c].cmd \in {"create", "edit"}
    /\ IF calls[c].cmd = "edit"
       THEN Refetch(c) /\ editor' = Mounted(calls[c].layer, calls[c].put)
       ELSE /\ editor' = Opened(editor, calls[c].layer, calls[c].put)
            /\ End(c)
            /\ UNCHANGED <<loading, dialog>>
    /\ UNCHANGED <<server, shown, toast, history, acts>>

\* Half a second after the answer the refresh starts and the editor closes.
SaveDone(c) ==
    /\ At(c, "done") /\ calls[c].cmd = "save"
    /\ Refetch(c)
    /\ editor' = Closed
    /\ UNCHANGED <<server, shown, toast, history, acts>>

\* Mutant: the buttons come back after a success only.
AnsweredWhenDone(c) ==
    IF At(c, "refused") \/ dialog.busy # c THEN dialog
    ELSE [dialog EXCEPT !.busy = Nothing]

\* A deletion leaves nothing to choose, and closes the dialog.
Answered(c) ==
    IF dialog.busy # c THEN dialog
    ELSE IF calls[c].cmd = "delete" /\ At(c, "done") THEN NoDialog
    ELSE [dialog EXCEPT !.busy = Nothing]

SetDone(c) ==
    /\ At(c, "done") /\ calls[c].cmd \in {"set", "delete"}
    /\ To(c, "reread")
    /\ dialog' = Answered(c)
    /\ UNCHANGED <<server, loading, shown, editor, toast, history, acts>>

\* The context is read again and put into the card, if that is still there.
SetReread(c) ==
    /\ At(c, "reread")
    /\ contexts # <<>>
    /\ Refetch(c)
    /\ shown' = IF calls[c].layer = 0 THEN shown
                ELSE [shown EXCEPT !.var = Top(contexts)]
    /\ editor' = Remounted
    /\ toast' = "set"
    /\ UNCHANGED <<server, history, acts>>

SetRereadFails(c) ==
    /\ At(c, "reread")
    /\ End(c)
    /\ missed' = TRUE
    /\ toast' = "error"
    /\ UNCHANGED <<server, page, overlapped, acts>>

\* A refused command says so and refreshes nothing, but for an edit.  When the
\* start after a save is refused the page says both.
CommandRefused(c) ==
    /\ At(c, "refused")
    /\ IF calls[c].cmd = "edit"
       THEN Refetch(c) /\ editor' = Remounted
       ELSE /\ End(c)
            /\ dialog' = Answered(c)
            /\ UNCHANGED <<loading, editor>>
    /\ toast' = IF calls[c].cmd = "autostart" THEN "saved and started" ELSE "error"
    /\ UNCHANGED <<server, shown, history, acts>>

-----------------------------------------------------------------------------
(* A refresh.                                                              *)

\* The statuses, after the running schedulers and the destinations.
ReadStatuses(c) ==
    /\ At(c, "list")
    /\ calls' = [calls EXCEPT ![c].at = "details",
                             ![c].got = [Blank EXCEPT !.state = state]]
    /\ UNCHANGED <<server, page, toast, history, acts>>

ReadStack(c) ==
    /\ At(c, "details")
    /\ calls' = [calls EXCEPT ![c].at = "landing", ![c].got.stack = stack]
    /\ UNCHANGED <<server, page, toast, history, acts>>

\* What the command says when its refresh is over, whatever became of it.
Said(c) == CASE calls[c].cmd = "resume" -> "resumed"
             [] calls[c].cmd = "pause"  -> "paused"
             [] calls[c].cmd = "start"  -> "started"
             [] calls[c].cmd = "stop"   -> "stopped"
             [] calls[c].cmd = "unload" -> "unloaded"
             [] calls[c].cmd = "autostart" -> "saved and started"
             [] calls[c].cmd = "save" /\ calls[c].layer > 0 -> "saved"
             [] OTHER -> toast

After(c) == IF calls[c].cmd = "save" /\ calls[c].layer = 0
            THEN [Idle EXCEPT !.cmd = "save", !.at = "saved"] ELSE Idle

\* A new list has new cards: the dialogs of the old ones are gone.
Orphan(d) == IF calls[d].cmd \in {"set", "delete"}
             THEN [calls[d] EXCEPT !.layer = 0] ELSE calls[d]

\* The context is read last, and then all is shown at once.
Land(c) ==
    /\ At(c, "landing")
    /\ shown' = [calls[c].got EXCEPT !.var = Top(contexts)]
    /\ loading' = FALSE
    /\ missed' = FALSE
    /\ calls' = [d \in Requests |-> IF d = c THEN After(c) ELSE Orphan(d)]
    /\ toast' = Said(c)
    /\ UNCHANGED <<server, editor, dialog, overlapped, acts>>

\* Mutant: without the finally.
RefreshFailsHidden(c) ==
    /\ At(c, "list")
    /\ missed' = TRUE
    /\ calls' = [calls EXCEPT ![c] = After(c)]
    /\ toast' = Said(c)
    /\ UNCHANGED <<server, page, overlapped, acts>>

\* When one of the first three requests fails the page keeps what it has.
RefreshFails(c) ==
    /\ At(c, "list")
    /\ loading' = FALSE
    /\ missed' = TRUE
    /\ calls' = [calls EXCEPT ![c] = After(c)]
    /\ toast' = Said(c)
    /\ UNCHANGED <<server, shown, editor, dialog, overlapped, acts>>

\* A second after the refresh of a new schedule the page starts the scheduler.
AutoStart(c) ==
    /\ At(c, "saved")
    /\ calls' = [calls EXCEPT ![c] = Call("autostart", 0, Nothing)]
    /\ UNCHANGED <<server, page, toast, history, acts>>

-----------------------------------------------------------------------------
User ==
    \/ RefreshPage \/ ToggleSchedule \/ StartScheduler \/ StopScheduler
    \/ UnloadSchedule \/ CreateSchedule \/ EditSchedule
    \/ OpenVars \/ TypeValue \/ SetVar \/ CloseVars
    \/ SwitchTab \/ FormChange \/ RawTextChange \/ ParseRaw \/ LoadScript
    \/ SaveSchedule \/ CancelEdit

Serve(c) ==
    \/ ServeStart(c) \/ ServeStop(c) \/ ServeToggle(c) \/ ServeUnload(c)
    \/ ServeLoad(c) \/ ServeUpdate(c) \/ ServeSet(c) \/ ServeEdit(c) \/ Lost(c)

Answer(c) ==
    \/ CommandDone(c) \/ EditorOpens(c) \/ SaveDone(c) \/ SetDone(c)
    \/ SetReread(c) \/ SetRereadFails(c) \/ CommandRefused(c)
    \/ ReadStatuses(c) \/ ReadStack(c) \/ Land(c) \/ RefreshFails(c)
    \/ AutoStart(c)

Next == User \/ \E c \in Requests : Serve(c) \/ Answer(c)
Spec == Init /\ [][Next]_vars

-----------------------------------------------------------------------------
(* Every variable has its type.  Of the editor: form and text are an       *)
(* object and a text, whatever tab, timer or file wrote them last.         *)
TypeOK ==
    /\ state \in States /\ live \in BOOLEAN
    /\ stack \in Seq(Versions) /\ contexts \in Seq(Values \cup {Nothing})
    /\ loading \in BOOLEAN /\ shown \in Views
    /\ calls \in [Requests -> Calls]
    /\ editor \in Editors /\ dialog \in Dialogs /\ toast \in Toasts
    /\ missed \in BOOLEAN /\ overlapped \in BOOLEAN
    /\ acts \in 0..MaxActs

(* The page is hidden only while a refresh is under way that will show it  *)
(* again: setLoading(true) and the finally of fetchDestinations pair up,   *)
(* whatever refreshes overlap.                                             *)
Refreshing(c) == calls[c].at \in {"list", "details", "landing"}
LoadingIsServed == loading => \E c \in Requests : Refreshing(c)

(* A dialog that waits for its request waits for one that is under way:    *)
(* Save and Delete come back (setSaving, setDeleting and their finally).   *)
DialogIsServed ==
    dialog.busy # Nothing => calls[dialog.busy].cmd \in {"set", "delete"}

(* In the text's tab, once the text was parsed, form and text are the same *)
(* schedule and the check mark is right (the effect on rawText).           *)
ParsedOnceQuiet ==
    editor.open /\ editor.tab = 1 /\ ~editor.switched /\ ~editor.timer =>
        /\ editor.raw # Broken => editor.form = editor.raw
        /\ editor.valid = IsValid(editor.raw)

(* A user who waits for each command sees the scheduler as it is: state,   *)
(* schedules and variable, unless a request was lost or refused midway.    *)
PageAgrees == Quiet /\ ~missed /\ ~overlapped => shown = View

(* The page's state: its types, nothing hidden or waiting that is not      *)
(* served, and form and text of the editor the same schedule.              *)
PageHolds == TypeOK /\ LoadingIsServed /\ DialogIsServed /\ ParsedOnceQuiet
=============================================================================
