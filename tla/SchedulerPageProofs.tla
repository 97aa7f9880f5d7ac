------------------------- MODULE SchedulerPageProofs -------------------------
(***************************************************************************)
(* Proofs about SchedulerPage: the page is never hidden for good, a dialog *)
(* never waits for an answer that came, the editor's form and text agree,  *)
(* and who waits for each command sees the scheduler as it is.             *)
(***************************************************************************)
EXTENDS SchedulerPage, SequenceTheorems, TLAPS

-----------------------------------------------------------------------------
(* The inductive invariant.                                                *)

\* A command under way carries what its handler takes it for: a save a
\* schedule or the empty one, a change of the variable a value, and the answer
\* to an edit what the editor is to show.
Carries(x) ==
    /\ x.at = "sent" /\ x.cmd = "save" => x.put \in Forms
    /\ x.at = "sent" /\ x.cmd \in {"set", "delete"} => x.put \in Values \cup {Nothing}
    /\ x.at = "done" /\ x.cmd \in {"create", "edit"} => x.put \in Forms
GoodCalls == {x \in Calls : Carries(x)}

\* ParsedOnceQuiet, of an editor.
Parsed(e) ==
    e.open /\ e.tab = 1 /\ ~e.switched /\ ~e.timer =>
        /\ e.raw # Broken => e.form = e.raw
        /\ e.valid = IsValid(e.raw)
GoodEditors == {e \in Editors : Parsed(e)}

ServerOK ==
    /\ state \in States /\ live \in BOOLEAN
    /\ stack \in Seq(Versions) /\ contexts \in Seq(Values \cup {Nothing})
CallsOK  == calls \in [Requests -> GoodCalls]
ShownOK  == shown \in Views
EditorOK == editor \in GoodEditors
DialogOK == dialog \in Dialogs
FlagsOK  == /\ loading \in BOOLEAN /\ toast \in Toasts
            /\ missed \in BOOLEAN /\ overlapped \in BOOLEAN /\ acts \in 0..MaxActs

\* The request a dialog waits for was not answered yet.
DialogWaits ==
    dialog.busy # Nothing => /\ calls[dialog.busy].cmd \in {"set", "delete"}
                             /\ calls[dialog.busy].at \in {"sent", "done", "refused"}

\* The steps of a call after which no refresh follows: what the page shows is
\* then to be right already.
Settled(x) == \/ x.at \in {"idle", "sent", "refused", "saved"}
              \/ x.at = "done" /\ x.cmd = "create"

\* As long as commands do not overlap, one call is under way at most; between
\* the reads of a refresh the server changes nothing, and the page is right
\* whenever no refresh is to come.
Alone  == \A c, d \in Under : c = d
Reads  == \A c \in Requests :
              /\ At(c, "details") => calls[c].got.state = state
              /\ At(c, "landing") => calls[c].got.state = state /\ calls[c].got.stack = stack
Agrees == ~missed /\ (\A c \in Requests : Settled(calls[c])) => shown = View
InTurn == ~overlapped => Alone /\ Reads /\ Agrees

IInv ==
    /\ ServerOK /\ CallsOK /\ ShownOK /\ EditorOK /\ DialogOK /\ FlagsOK
    /\ LoadingIsServed /\ DialogWaits /\ InTurn

-----------------------------------------------------------------------------
(* Calls.                                                                  *)

LEMMA BlankType == Blank \in Views
<1>1. <<>> \in Seq(Versions)
  BY EmptySeq
<1> QED BY <1>1 DEF Blank, Views

LEMMA IdleType ==
    /\ Idle \in GoodCalls /\ Idle.cmd = "none" /\ Idle.at = "idle"
    /\ Refresh \in GoodCalls /\ Refresh.cmd = "refresh" /\ Refresh.at = "list"
  BY BlankType DEF Idle, Refresh, GoodCalls, Calls, Carries, Commands, Steps

\* What is sent with a call that carries what it should.
LEMMA CallType ==
    ASSUME NEW cmd \in Commands, NEW layer \in Nat,
           NEW put \in Versions \cup Values \cup {Empty, Nothing},
           cmd = "save" => put \in Forms,
           cmd \in {"set", "delete"} => put \in Values \cup {Nothing}
    PROVE  /\ Call(cmd, layer, put) \in GoodCalls
           /\ Call(cmd, layer, put).cmd = cmd /\ Call(cmd, layer, put).at = "sent"
  BY BlankType DEF Call, Idle, GoodCalls, Calls, Carries, Steps

LEMMA CallFields ==
    ASSUME NEW x \in GoodCalls
    PROVE  /\ x.cmd \in Commands /\ x.at \in Steps /\ x.layer \in Nat
           /\ x.put \in Versions \cup Values \cup {Empty, Nothing} /\ x.got \in Views
           /\ Carries(x)
  BY DEF GoodCalls, Calls

\* A call goes on to a step at which it need not carry anything.
LEMMA StepType ==
    ASSUME NEW x \in GoodCalls, NEW step \in Steps, step # "sent",
           step = "done" => x.cmd \notin {"create", "edit"}
    PROVE  /\ [x EXCEPT !.at = step] \in GoodCalls
           /\ [x EXCEPT !.at = step].at = step /\ [x EXCEPT !.at = step].cmd = x.cmd
           /\ [x EXCEPT !.at = step].got = x.got
  BY DEF GoodCalls, Calls, Carries

\* One call changes.
LEMMA OneCall ==
    ASSUME CallsOK, NEW c \in Requests, NEW x \in GoodCalls,
           calls' = [calls EXCEPT ![c] = x]
    PROVE  /\ CallsOK' /\ calls'[c] = x
           /\ \A d \in Requests \ {c} : calls'[d] = calls[d]
  BY DEF CallsOK

LEMMA Goes ==
    ASSUME CallsOK, NEW c \in Requests, NEW step \in Steps, To(c, step), step # "sent",
           step = "done" => calls[c].cmd \notin {"create", "edit"}
    PROVE  /\ CallsOK' /\ calls'[c].at = step /\ calls'[c].cmd = calls[c].cmd
           /\ calls'[c].got = calls[c].got
           /\ \A d \in Requests \ {c} : calls'[d] = calls[d]
<1>1. calls[c] \in GoodCalls
  BY DEF CallsOK
<1>2. calls' = [calls EXCEPT ![c] = [calls[c] EXCEPT !.at = step]]
  BY DEF To
<1>3. [calls[c] EXCEPT !.at = step] \in GoodCalls
  BY <1>1, StepType
<1>4. /\ CallsOK' /\ calls'[c] = [calls[c] EXCEPT !.at = step]
      /\ \A d \in Requests \ {c} : calls'[d] = calls[d]
  BY <1>2, <1>3, OneCall
<1> QED BY <1>1, <1>4, StepType

LEMMA Ends ==
    ASSUME CallsOK, NEW c \in Requests, End(c)
    PROVE  /\ CallsOK' /\ calls'[c] = Idle
           /\ \A d \in Requests \ {c} : calls'[d] = calls[d]
  BY IdleType, OneCall DEF End

-----------------------------------------------------------------------------
(* The editor and the dialog.                                              *)

LEMMA EditorFields ==
    ASSUME NEW e \in Editors
    PROVE  /\ e.layer \in Nat /\ e.initial \in Forms /\ e.form \in Forms
           /\ e.raw \in Texts /\ e.tab \in 0..2 /\ e.timer \in BOOLEAN
           /\ e.open \in BOOLEAN /\ e.switched \in BOOLEAN /\ e.valid \in BOOLEAN
  BY DEF Editors

LEMMA FormsAreTexts == Forms \in SUBSET Texts /\ Versions \in SUBSET Forms /\ Empty \in Forms
  BY DEF Forms, Texts

\* In front of another tab, or with the timer set, there is nothing to agree.
LEMMA Unparsed ==
    ASSUME NEW e \in Editors, e.tab # 1 \/ e.switched \/ e.timer
    PROVE  e \in GoodEditors
  BY DEF GoodEditors, Parsed

LEMMA MountedType ==
    /\ Closed \in GoodEditors
    /\ \A layer \in Nat, initial \in Forms : Mounted(layer, initial) \in GoodEditors
<1>1. Closed \in Editors /\ Closed.tab = 0
  BY FormsAreTexts DEF Closed, Editors
<1>2. ASSUME NEW layer \in Nat, NEW initial \in Forms
      PROVE  Mounted(layer, initial) \in Editors /\ Mounted(layer, initial).tab = 0
  <2>1. initial \in Texts
    BY FormsAreTexts
  <2> QED BY <1>1, <2>1 DEF Mounted, Editors
<1> QED BY <1>1, <1>2, Unparsed

\* After a change that sets the timer the text is still to be parsed, or it is
\* not the text's tab.
LEMMA RearmType ==
    ASSUME NEW e \in Editors
    PROVE  Rearm(e) \in GoodEditors
<1>1. Rearm(e) \in Editors
  BY EditorFields DEF Rearm, Editors
<1>2. Rearm(e).tab = e.tab /\ Rearm(e).switched = e.switched
      /\ Rearm(e).timer = (e.tab = 1 /\ ~e.switched)
  BY DEF Rearm, Editors
<1> QED BY <1>1, <1>2, Unparsed

LEMMA SwitchType ==
    ASSUME NEW e \in Editors, NEW t \in 0..2
    PROVE  Switch(e, t) \in GoodEditors
<1>1. [e EXCEPT !.tab = t, !.switched = FALSE] \in Editors
  BY DEF Editors
<1>2. [e EXCEPT !.tab = t, !.switched = TRUE,
                !.raw = IF t = 1 THEN e.form ELSE e.raw] \in Editors
  BY FormsAreTexts DEF Editors
<1> QED BY <1>1, <1>2, RearmType DEF Switch

LEMMA OpenedType ==
    ASSUME NEW e \in Editors, NEW layer \in Nat, NEW initial \in Forms
    PROVE  Opened(e, layer, initial) \in GoodEditors
<1> DEFINE next == [e EXCEPT !.layer = layer, !.initial = initial,
                             !.form = initial, !.raw = initial]
<1>1. next \in Editors /\ next.tab = e.tab
  BY FormsAreTexts DEF Editors
<1>2. next.tab = 0 => next \in GoodEditors
  <2> HIDE DEF next
  <2> QED BY <1>1, Unparsed
<1>3. Switch(next, 0) \in GoodEditors
  BY <1>1, SwitchType
<1>4. Opened(e, layer, initial) \in {next, Switch(next, 0), Mounted(layer, initial)}
      /\ (Opened(e, layer, initial) = next => e.tab = 0 \/ next \in GoodEditors)
  <2>1. CASE e.open /\ ~loading /\ e.tab = 0
    BY <2>1 DEF Opened
  <2>2. CASE e.open /\ ~loading /\ e.tab # 0
    BY <1>3, <2>2 DEF Opened
  <2>3. CASE ~(e.open /\ ~loading)
    BY <2>3, MountedType DEF Opened
  <2> QED BY <2>1, <2>2, <2>3
<1> HIDE DEF next
<1> QED BY <1>1, <1>2, <1>3, <1>4, MountedType

\* The text changes; it is parsed later, unless it did not change.
LEMMA RetextType ==
    ASSUME NEW e \in Editors, NEW text \in Texts,
           text = e.raw => [e EXCEPT !.raw = text] \in GoodEditors
    PROVE  Retext(e, text) \in GoodEditors
<1>1. [e EXCEPT !.raw = text] \in Editors
  BY DEF Editors
<1> QED BY <1>1, RearmType DEF Retext

LEMMA RemountedType == EditorOK => Remounted \in GoodEditors
<1> SUFFICES ASSUME EditorOK PROVE Remounted \in GoodEditors
  OBVIOUS
<1>1. editor \in Editors /\ editor \in GoodEditors
  BY DEF EditorOK, GoodEditors
<1> QED BY <1>1, EditorFields, MountedType DEF Remounted

LEMMA DialogTypes ==
    /\ NoDialog \in Dialogs /\ NoDialog.busy = Nothing
    /\ \A d \in Dialogs : /\ d.busy \in Requests \cup {Nothing}
                          /\ d.value \in Values \cup {Broken, Nothing}
                          /\ [d EXCEPT !.busy = Nothing] \in Dialogs
                          /\ [d EXCEPT !.busy = Nothing].busy = Nothing
  BY DEF NoDialog, Dialogs

LEMMA AnsweredType ==
    ASSUME DialogOK, NEW c \in Requests
    PROVE  /\ Answered(c) \in Dialogs /\ Answered(c).busy \in {dialog.busy, Nothing}
           /\ Answered(c).busy = c => c = Nothing
<1>1. dialog \in Dialogs
  BY DEF DialogOK
<1>2. CASE dialog.busy # c
  BY <1>1, <1>2 DEF Answered
<1>3. CASE dialog.busy = c
  <2>1. Answered(c) \in {NoDialog, [dialog EXCEPT !.busy = Nothing]}
    BY <1>3 DEF Answered
  <2> QED BY <1>1, <2>1, DialogTypes
<1> QED BY <1>2, <1>3

-----------------------------------------------------------------------------
(* The parts of the invariant that a step leaves alone.                    *)

LEMMA SameParts ==
    /\ ServerOK /\ UNCHANGED server => ServerOK'
    /\ CallsOK /\ UNCHANGED calls => CallsOK'
    /\ ShownOK /\ UNCHANGED shown => ShownOK'
    /\ EditorOK /\ UNCHANGED editor => EditorOK'
    /\ DialogOK /\ UNCHANGED dialog => DialogOK'
  BY DEF ServerOK, server, CallsOK, ShownOK, EditorOK, DialogOK

\* A step that changes no call, nothing at the server and nothing of the page
\* but editor and dialog.
LEMMA SameCalls ==
    ASSUME IInv, UNCHANGED <<calls, server, shown, missed, overlapped>>,
           EditorOK', DialogOK', FlagsOK', loading' => loading,
           dialog'.busy \in {dialog.busy, Nothing}
    PROVE  IInv'
<1>1. ServerOK' /\ CallsOK' /\ ShownOK'
  BY SameParts DEF IInv
<1>2. LoadingIsServed'
  BY DEF IInv, LoadingIsServed, Refreshing
<1>3. DialogWaits'
  BY DEF IInv, DialogWaits
<1>4. InTurn'
  <2>1. View' = View /\ Under' = Under /\ \A c \in Requests, s \in Steps : At(c, s)' = At(c, s)
    BY DEF View, Under, At, server
  <2>2. Alone' = Alone /\ Agrees' = Agrees
    BY <2>1 DEF Alone, Agrees
  <2>3. Reads' = Reads
    BY DEF Reads, At, server
  <2> QED BY <2>2, <2>3 DEF IInv, InTurn
<1> QED BY <1>1, <1>2, <1>3, <1>4 DEF IInv

\* A new call: a command, or a refresh.
LEMMA Begins ==
    ASSUME IInv, NEW c \in Requests \ Under, NEW x \in GoodCalls,
           calls' = [calls EXCEPT ![c] = x], x.at \in {"sent", "list"},
           overlapped' = (overlapped \/ ~Quiet), UNCHANGED <<server, shown, missed>>,
           EditorOK', DialogOK', FlagsOK', loading' => loading \/ x.at = "list",
           dialog'.busy \in {dialog.busy, Nothing, c},
           dialog'.busy = c /\ dialog.busy # c /\ c # Nothing =>
              x.cmd \in {"set", "delete"} /\ x.at = "sent"
    PROVE  IInv'
<1>1. /\ CallsOK' /\ calls'[c] = x
      /\ \A d \in Requests \ {c} : calls'[d] = calls[d]
  BY OneCall DEF IInv
<1>2. ServerOK' /\ ShownOK'
  BY SameParts DEF IInv
<1>3. calls[c] = Idle /\ calls[c].at = "idle" /\ calls[c].cmd = "none"
  BY IdleType DEF Under
<1>4. LoadingIsServed'
  <2>1. CASE loading
    BY <1>1, <1>3, <2>1 DEF IInv, LoadingIsServed, Refreshing
  <2>2. CASE x.at = "list"
    BY <1>1, <2>2 DEF LoadingIsServed, Refreshing
  <2>3. CASE ~loading'
    BY <2>3 DEF LoadingIsServed
  <2> QED BY <2>1, <2>2, <2>3
<1>5. DialogWaits'
  <2> SUFFICES ASSUME dialog'.busy # Nothing
               PROVE  /\ calls'[dialog'.busy].cmd \in {"set", "delete"}
                      /\ calls'[dialog'.busy].at \in {"sent", "done", "refused"}
    BY DEF DialogWaits
  <2>1. CASE dialog'.busy = c
    <3>1. dialog.busy # c
      BY <1>3, <2>1 DEF IInv, DialogWaits
    <3> QED BY <1>1, <2>1, <3>1
  <2>2. CASE dialog'.busy # c
    <3>1. dialog'.busy = dialog.busy
      BY <2>2
    <3>2. dialog.busy \in Requests
      BY <3>1, DialogTypes DEF IInv, DialogOK
    <3> QED BY <1>1, <2>2, <3>1, <3>2 DEF IInv, DialogWaits
  <2> QED BY <2>1, <2>2
<1>6. InTurn'
  <2> SUFFICES ASSUME ~overlapped' PROVE Alone' /\ Reads' /\ Agrees'
    BY DEF InTurn
  <2>1. ~overlapped /\ \A d \in Requests : calls[d] = Idle
    BY DEF Quiet, Under
  <2>2. \A d \in Requests \ {c} : calls'[d] = Idle
    BY <1>1, <2>1
  <2>3. Alone'
    BY <2>2 DEF Alone, Under
  <2>4. Reads'
    BY <1>1, <2>2, IdleType DEF Reads, At
  <2>5. Agrees'
    <3>1. \A d \in Requests : Settled(calls[d])
      BY <2>1, IdleType DEF Settled
    <3>2. View' = View
      BY DEF View, server
    <3> QED BY <2>1, <3>1, <3>2 DEF IInv, InTurn, Agrees
  <2> QED BY <2>3, <2>4, <2>5
<1> QED BY <1>1, <1>2, <1>4, <1>5, <1>6 DEF IInv

\* A step of one call under way.
LEMMA Steps1 ==
    ASSUME IInv, NEW c \in Requests, calls[c].at # "idle",
           CallsOK', \A d \in Requests \ {c} : calls'[d] = calls[d],
           ServerOK', ShownOK', EditorOK', DialogOK', FlagsOK',
           UNCHANGED overlapped,
           loading' => \/ Refreshing(c)'
                       \/ loading /\ ~Refreshing(c),
           dialog'.busy \in {dialog.busy, Nothing},
           dialog'.busy = c /\ c # Nothing =>
              calls'[c].cmd \in {"set", "delete"} /\ calls'[c].at \in {"sent", "done", "refused"},
           ~overlapped =>
              /\ calls'[c].at = "details" => calls'[c].got.state = state'
              /\ calls'[c].at = "landing" => /\ calls'[c].got.state = state'
                                             /\ calls'[c].got.stack = stack'
              /\ ~missed' /\ Settled(calls'[c]) =>
                    \/ shown' = View'
                    \/ Settled(calls[c]) /\ ~missed /\ UNCHANGED <<server, shown>>
    PROVE  IInv'
<1>1. LoadingIsServed'
  BY DEF IInv, LoadingIsServed, Refreshing
<1>2. DialogWaits'
  <2> SUFFICES ASSUME dialog'.busy # Nothing
               PROVE  /\ calls'[dialog'.busy].cmd \in {"set", "delete"}
                      /\ calls'[dialog'.busy].at \in {"sent", "done", "refused"}
    BY DEF DialogWaits
  <2>1. dialog'.busy = dialog.busy /\ dialog.busy \in Requests
    BY DialogTypes DEF IInv, DialogOK
  <2> QED BY <2>1 DEF IInv, DialogWaits
<1>3. InTurn'
  <2> SUFFICES ASSUME ~overlapped PROVE Alone' /\ Reads' /\ Agrees'
    BY DEF InTurn
  <2>1. \A d \in Requests \ {c} : calls[d] = Idle /\ calls'[d] = Idle
    <3>1. c \in Under
      BY IdleType DEF Under
    <3> QED BY <3>1 DEF IInv, InTurn, Alone, Under
  <2>2. Alone'
    BY <2>1 DEF Alone, Under
  <2>3. Reads'
    BY <2>1, IdleType DEF Reads, At
  <2>4. Agrees'
    <3> SUFFICES ASSUME ~missed', Settled(calls'[c]) PROVE shown' = View'
      BY DEF Agrees
    <3>1. CASE Settled(calls[c]) /\ ~missed /\ UNCHANGED <<server, shown>>
      <4>1. \A d \in Requests : Settled(calls[d])
        BY <2>1, <3>1, IdleType DEF Settled
      <4>2. View' = View
        BY <3>1 DEF View, server
      <4> QED BY <3>1, <4>1, <4>2 DEF IInv, InTurn, Agrees
    <3> QED BY <3>1
  <2> QED BY <2>2, <2>3, <2>4
<1> QED BY <1>1, <1>2, <1>3 DEF IInv


-----------------------------------------------------------------------------
(* The initial states and what the user does.                              *)

LEMMA InitInv == Init => IInv
<1> SUFFICES ASSUME Init PROVE IInv
  OBVIOUS
<1>1. PICK c \in Requests : calls = [r \in Requests |-> IF r = c THEN Refresh ELSE Idle]
  BY DEF Init
<1>2. ServerOK
  <2>1. stack \in Seq(Versions) /\ contexts \in Seq(Values \cup {Nothing})
    <3>1. CASE stack = <<>> /\ contexts = <<>>
      BY <3>1, EmptySeq
    <3>2. CASE \E v \in Versions, x \in Values : stack = <<v>> /\ contexts = <<x>>
      BY <3>2
    <3> QED BY <3>1, <3>2 DEF Init
  <2>2. state \in States /\ live \in BOOLEAN
    BY DEF Init, States
  <2> QED BY <2>1, <2>2 DEF ServerOK
<1>3. CallsOK
  BY <1>1, IdleType DEF CallsOK
<1>4. ShownOK /\ EditorOK /\ DialogOK
  BY BlankType, MountedType, DialogTypes DEF Init, ShownOK, EditorOK, DialogOK
<1>5. FlagsOK
  <2>1. /\ loading = TRUE /\ toast = "" /\ missed = FALSE /\ overlapped = FALSE /\ acts = 0
    BY DEF Init
  <2>2. 0 \in 0..MaxActs /\ "" \in Toasts
    BY SchedulerPageAssumption DEF Toasts
  <2> QED BY <2>1, <2>2 DEF FlagsOK
<1>6. LoadingIsServed
  BY <1>1, IdleType DEF LoadingIsServed, Refreshing
<1>7. DialogWaits
  BY DialogTypes DEF Init, DialogWaits
<1>8. InTurn
  <2>1. Alone
    BY <1>1 DEF Alone, Under
  <2>2. Reads
    BY <1>1, IdleType DEF Reads, At
  <2>3. ~Settled(calls[c])
    BY <1>1, IdleType DEF Settled
  <2> QED BY <2>1, <2>2, <2>3 DEF InTurn, Agrees
<1> QED BY <1>2, <1>3, <1>4, <1>5, <1>6, <1>7, <1>8 DEF IInv

LEMMA ActFlags ==
    ASSUME FlagsOK, Act \/ UNCHANGED acts, UNCHANGED <<toast, missed>>,
           loading' \in BOOLEAN, overlapped' \in BOOLEAN
    PROVE  FlagsOK'
<1>1. acts' \in 0..MaxActs
  BY SchedulerPageAssumption DEF FlagsOK, Act
<1> QED BY <1>1 DEF FlagsOK

\* A step within the editor.
LEMMA EditorInv ==
    ASSUME IInv, NEW next \in GoodEditors, InEditor(next), Act \/ UNCHANGED acts
    PROVE  IInv'
<1>1. EditorOK' /\ UNCHANGED <<calls, server, shown, missed, overlapped, loading, dialog, toast>>
  BY DEF InEditor, EditorOK, history
<1>2. DialogOK'
  BY <1>1, SameParts DEF IInv
<1>3. FlagsOK'
  <2>1. loading' \in BOOLEAN /\ overlapped' \in BOOLEAN
    BY <1>1 DEF IInv, FlagsOK
  <2> QED BY <1>1, <2>1, ActFlags DEF IInv
<1> QED BY <1>1, <1>2, <1>3, SameCalls

\* A command or a refresh begins; of the dialog's request see SetVar.
LEMMA SendInv ==
    ASSUME IInv, NEW x \in GoodCalls, x.at \in {"sent", "list"}, Send(x),
           UNCHANGED <<server, shown, missed>>,
           EditorOK', DialogOK', FlagsOK', loading' => loading \/ x.at = "list",
           dialog'.busy \in {dialog.busy, Nothing}
    PROVE  IInv'
<1>1. PICK c \in Requests \ Under : calls' = [calls EXCEPT ![c] = x]
  BY DEF Send
<1>2. overlapped' = (overlapped \/ ~Quiet)
  BY DEF Send
<1> QED BY <1>1, <1>2, Begins

LEMMA SendFlags ==
    ASSUME FlagsOK, Act, overlapped' = (overlapped \/ ~Quiet), UNCHANGED <<toast, missed>>,
           loading' \in BOOLEAN
    PROVE  FlagsOK'
<1>1. overlapped' \in BOOLEAN
  BY DEF FlagsOK, Quiet
<1> QED BY <1>1, ActFlags

LEMMA ClickInv ==
    ASSUME IInv, NEW x \in GoodCalls, x.at = "sent", Click(x)
    PROVE  IInv'
<1>1. Act /\ Send(x) /\ UNCHANGED <<server, loading, shown, editor, dialog, toast, missed>>
  BY DEF Click, page
<1>2. EditorOK' /\ DialogOK'
  BY <1>1, SameParts DEF IInv
<1>3. FlagsOK'
  <2>1. loading' \in BOOLEAN /\ overlapped' = (overlapped \/ ~Quiet)
    BY <1>1 DEF IInv, FlagsOK, Send
  <2> QED BY <1>1, <2>1, SendFlags DEF IInv
<1> QED BY <1>1, <1>2, <1>3, SendInv

LEMMA ClicksInv ==
    IInv /\ ( \/ ToggleSchedule \/ StartScheduler \/ StopScheduler \/ UnloadSchedule
              \/ CreateSchedule \/ EditSchedule ) => IInv'
<1> SUFFICES ASSUME IInv,
                    \/ ToggleSchedule \/ StartScheduler \/ StopScheduler \/ UnloadSchedule
                    \/ CreateSchedule \/ EditSchedule
             PROVE  IInv'
  OBVIOUS
<1>1. ASSUME NEW cmd \in {"resume", "pause", "start", "stop", "unload"},
             Click(Call(cmd, 0, Nothing))
      PROVE  IInv'
  <2>1. cmd \in Commands
    BY DEF Commands
  <2>2. Call(cmd, 0, Nothing) \in GoodCalls /\ Call(cmd, 0, Nothing).at = "sent"
    BY <2>1, CallType
  <2> QED BY <1>1, <2>2, ClickInv
<1>2. ASSUME Click(Call("create", 0, Empty)) PROVE IInv'
  <2>1. Call("create", 0, Empty) \in GoodCalls /\ Call("create", 0, Empty).at = "sent"
    BY CallType DEF Commands
  <2> QED BY <1>2, <2>1, ClickInv
<1>3. ASSUME NEW i \in 1..Len(shown.stack), Click(Call("edit", i, Nothing)) PROVE IInv'
  <2>1. Call("edit", i, Nothing) \in GoodCalls /\ Call("edit", i, Nothing).at = "sent"
    BY CallType DEF Commands
  <2> QED BY <1>3, <2>1, ClickInv
<1> QED BY <1>1, <1>2, <1>3 DEF ToggleSchedule, StartScheduler, StopScheduler,
                                UnloadSchedule, CreateSchedule, EditSchedule

LEMMA RefreshPageInv == IInv /\ RefreshPage => IInv'
<1> SUFFICES ASSUME IInv, RefreshPage PROVE IInv'
  OBVIOUS
<1>1. Act /\ Send(Refresh) /\ Hide /\ UNCHANGED <<server, shown, toast, missed>>
  BY DEF RefreshPage
<1>2. EditorOK' /\ DialogOK' /\ dialog'.busy = Nothing
  BY <1>1, RemountedType, DialogTypes DEF Hide, IInv, EditorOK, DialogOK
<1>3. FlagsOK'
  <2>1. loading' \in BOOLEAN /\ overlapped' = (overlapped \/ ~Quiet)
    BY <1>1 DEF Hide, Send
  <2> QED BY <1>1, <2>1, SendFlags DEF IInv
<1> QED BY <1>1, <1>2, <1>3, IdleType, SendInv

LEMMA DialogInv ==
    IInv /\ (OpenVars \/ TypeValue \/ CloseVars) => IInv'
<1> SUFFICES ASSUME IInv, OpenVars \/ TypeValue \/ CloseVars PROVE IInv'
  OBVIOUS
<1>1. /\ UNCHANGED <<calls, server, shown, missed, overlapped, loading, editor, toast>>
      /\ Act \/ UNCHANGED acts
  BY DEF OpenVars, TypeValue, CloseVars, history
<1>2. dialog \in Dialogs /\ shown.var \in Values \cup {Nothing}
  BY DEF IInv, DialogOK, ShownOK, Views
<1>3. DialogOK' /\ dialog'.busy = dialog.busy
  <2>1. CASE OpenVars
    BY <1>2, <2>1 DEF OpenVars, Dialogs, DialogOK
  <2>2. CASE TypeValue
    BY <1>2, <2>2 DEF TypeValue, Dialogs, DialogOK
  <2>3. CASE CloseVars
    BY <1>2, <2>3 DEF CloseVars, Dialogs, DialogOK
  <2> QED BY <2>1, <2>2, <2>3
<1>4. EditorOK'
  BY <1>1, SameParts DEF IInv
<1>5. FlagsOK'
  <2>1. loading' \in BOOLEAN /\ overlapped' \in BOOLEAN
    BY <1>1 DEF IInv, FlagsOK
  <2> QED BY <1>1, <2>1, ActFlags DEF IInv
<1> QED BY <1>1, <1>3, <1>4, <1>5, SameCalls

LEMMA SetVarInv == IInv /\ SetVar => IInv'
<1> SUFFICES ASSUME IInv, SetVar PROVE IInv'
  OBVIOUS
<1>1. /\ Act /\ overlapped' = (overlapped \/ ~Quiet)
      /\ UNCHANGED <<server, loading, shown, editor, toast, missed>>
  BY DEF SetVar
<1>2. PICK c \in Requests \ Under :
        /\ \/ calls' = [calls EXCEPT ![c] = Call("set", 1, ParseValue)]
           \/ calls' = [calls EXCEPT ![c] = Call("delete", 1, Nothing)]
        /\ dialog' = [dialog EXCEPT !.busy = c]
  BY DEF SetVar
<1>3. dialog \in Dialogs
  BY DEF IInv, DialogOK
<1>4. ParseValue \in Values \cup {Nothing}
  BY <1>3, DialogTypes DEF ParseValue
<1>5. PICK x \in GoodCalls : /\ x.cmd \in {"set", "delete"} /\ x.at = "sent"
                             /\ calls' = [calls EXCEPT ![c] = x]
  <2>1. /\ Call("set", 1, ParseValue) \in GoodCalls
        /\ Call("set", 1, ParseValue).cmd = "set" /\ Call("set", 1, ParseValue).at = "sent"
    BY <1>4, CallType DEF Commands
  <2>2. /\ Call("delete", 1, Nothing) \in GoodCalls
        /\ Call("delete", 1, Nothing).cmd = "delete" /\ Call("delete", 1, Nothing).at = "sent"
    BY CallType DEF Commands
  <2> QED BY <1>2, <2>1, <2>2
<1>6. DialogOK' /\ dialog'.busy = c
  BY <1>2, <1>3 DEF DialogOK, Dialogs
<1>7. EditorOK'
  BY <1>1, SameParts DEF IInv
<1>8. FlagsOK'
  <2>1. loading' \in BOOLEAN
    BY <1>1 DEF IInv, FlagsOK
  <2> QED BY <1>1, <2>1, SendFlags DEF IInv
<1> QED BY <1>1, <1>5, <1>6, <1>7, <1>8, Begins

LEMMA EditorStepsInv ==
    IInv /\ (SwitchTab \/ FormChange \/ RawTextChange \/ ParseRaw \/ LoadScript) => IInv'
<1> SUFFICES ASSUME IInv,
                    SwitchTab \/ FormChange \/ RawTextChange \/ ParseRaw \/ LoadScript
             PROVE  IInv'
  OBVIOUS
<1>1. editor \in Editors /\ Parsed(editor)
  BY DEF IInv, EditorOK, GoodEditors
<1>2. ASSUME NEW v \in Forms
      PROVE  /\ [editor EXCEPT !.form = v] \in Editors
             /\ [editor EXCEPT !.form = v].raw = editor.raw
             /\ [editor EXCEPT !.form = v].tab = editor.tab
  BY <1>1 DEF Editors
<1>3. CASE SwitchTab
  <2>1. PICK t \in 0..2 : Act /\ InEditor(Switch(editor, t))
    BY <1>3 DEF SwitchTab
  <2> QED BY <1>1, <2>1, SwitchType, EditorInv
<1>4. CASE FormChange
  <2>1. Act /\ editor.tab = 0
    BY <1>4 DEF FormChange
  <2>2. PICK v \in Forms : InEditor(Retext([editor EXCEPT !.form = v], v))
    BY <1>4 DEF FormChange
  <2> DEFINE e == [editor EXCEPT !.form = v]
  <2>3. [e EXCEPT !.raw = v] \in Editors /\ [e EXCEPT !.raw = v].tab = 0
    BY <1>1, <2>1, FormsAreTexts DEF Editors
  <2>4. [e EXCEPT !.raw = v] \in GoodEditors
    <3> DEFINE f == [e EXCEPT !.raw = v]
    <3>1. f \in Editors /\ f.tab = 0
      BY <2>3
    <3> HIDE DEF f
    <3>2. f \in GoodEditors
      BY <3>1, Unparsed
    <3> QED BY <3>2 DEF f
  <2>5. e \in Editors /\ v \in Texts
    BY <1>2, FormsAreTexts
  <2>6. Retext(e, v) \in GoodEditors
    <3> HIDE DEF e
    <3> QED BY <2>4, <2>5, RetextType
  <2> QED BY <2>1, <2>2, <2>6, EditorInv
<1>5. CASE RawTextChange
  <2>1. PICK text \in Texts \ {editor.raw} : Act /\ InEditor(Retext(editor, text))
    BY <1>5 DEF RawTextChange
  <2>2. Retext(editor, text) \in GoodEditors
    BY <1>1, RetextType
  <2> QED BY <2>1, <2>2, EditorInv
<1>6. CASE ParseRaw
  <2> DEFINE next == [editor EXCEPT !.timer = FALSE,
                        !.form = IF editor.raw = Broken THEN editor.form ELSE editor.raw,
                        !.valid = IsValid(editor.raw)]
  <2>1. InEditor(next) /\ UNCHANGED acts
    BY <1>6 DEF ParseRaw
  <2>2. (IF editor.raw = Broken THEN editor.form ELSE editor.raw) \in Forms
    BY <1>1 DEF Editors, Texts, Forms
  <2>3. next \in Editors
    <3>1. IsValid(editor.raw) \in BOOLEAN
      BY DEF IsValid
    <3> QED BY <1>1, <2>2, <3>1 DEF Editors
  <2>4. next.raw # Broken => next.form = next.raw
    BY <1>1 DEF Editors
  <2>5. next.valid = IsValid(next.raw)
    BY <1>1 DEF Editors
  <2>6. next \in GoodEditors
    <3> HIDE DEF next
    <3> QED BY <2>3, <2>4, <2>5 DEF GoodEditors, Parsed
  <2> HIDE DEF next
  <2> QED BY <2>1, <2>6, EditorInv
<1>7. CASE LoadScript
  <2>1. PICK v \in Versions : Act /\ InEditor(Retext([editor EXCEPT !.form = v], v))
    BY <1>7 DEF LoadScript
  <2>2. v \in Forms /\ v \in Texts
    BY FormsAreTexts
  <2> DEFINE e == [editor EXCEPT !.form = v]
  <2>3. ASSUME v = e.raw PROVE [e EXCEPT !.raw = v] \in GoodEditors
    <3> DEFINE f == [e EXCEPT !.raw = v]
    <3>1. f \in Editors
      BY <1>1, <2>2 DEF Editors
    <3>2. /\ f.raw = v /\ f.form = v /\ editor.raw = v
          /\ f.open = editor.open /\ f.tab = editor.tab /\ f.switched = editor.switched
          /\ f.timer = editor.timer /\ f.valid = editor.valid
      BY <1>1, <2>3 DEF Editors
    <3> HIDE DEF f
    <3>3. f \in GoodEditors
      BY <1>1, <3>1, <3>2 DEF GoodEditors, Parsed
    <3> QED BY <3>3 DEF f
  <2>4. e \in Editors
    BY <1>2, <2>2
  <2>5. Retext(e, v) \in GoodEditors
    <3> HIDE DEF e
    <3> QED BY <2>2, <2>3, <2>4, RetextType
  <2> QED BY <2>1, <2>5, EditorInv
<1> QED BY <1>3, <1>4, <1>5, <1>6, <1>7

LEMMA SaveScheduleInv == IInv /\ SaveSchedule => IInv'
<1> SUFFICES ASSUME IInv, SaveSchedule PROVE IInv'
  OBVIOUS
<1> DEFINE put == IF editor.tab = 1 THEN editor.raw ELSE editor.form
<1>1. /\ Act /\ Send(Call("save", editor.layer, put))
      /\ UNCHANGED <<server, loading, shown, editor, dialog, toast, missed>>
      /\ editor.tab = 1 => editor.raw # Broken
  BY DEF SaveSchedule, page
<1>2. put \in Forms /\ editor.layer \in Nat
  <2>1. editor \in Editors
    BY DEF IInv, EditorOK, GoodEditors
  <2> QED BY <1>1, <2>1, EditorFields DEF Texts, Forms
<1> HIDE DEF put
<1>3. Call("save", editor.layer, put) \in GoodCalls /\ Call("save", editor.layer, put).at = "sent"
  <2>1. put \in Versions \cup Values \cup {Empty, Nothing}
    BY <1>2 DEF Forms
  <2> QED BY <1>2, <2>1, CallType DEF Commands
<1>4. EditorOK' /\ DialogOK'
  BY <1>1, SameParts DEF IInv
<1>5. FlagsOK'
  <2>1. loading' \in BOOLEAN /\ overlapped' = (overlapped \/ ~Quiet)
    BY <1>1 DEF IInv, FlagsOK, Send
  <2> QED BY <1>1, <2>1, SendFlags DEF IInv
<1> QED BY <1>1, <1>3, <1>4, <1>5, SendInv

LEMMA CancelEditInv == IInv /\ CancelEdit => IInv'
<1> SUFFICES ASSUME IInv, CancelEdit PROVE IInv'
  OBVIOUS
<1>1. /\ editor' = Closed
      /\ UNCHANGED <<server, loading, shown, dialog, calls, toast, missed, overlapped, acts>>
  BY DEF CancelEdit, history
<1>2. EditorOK' /\ DialogOK'
  BY <1>1, MountedType, SameParts DEF EditorOK, IInv
<1>3. FlagsOK'
  BY <1>1 DEF IInv, FlagsOK
<1> QED BY <1>1, <1>2, <1>3, SameCalls

LEMMA UserInv == IInv /\ User => IInv'
  BY RefreshPageInv, ClicksInv, DialogInv, SetVarInv, EditorStepsInv, SaveScheduleInv,
     CancelEditInv DEF User

-----------------------------------------------------------------------------
(* The server.                                                             *)

LEMMA LastAndFront ==
    ASSUME NEW S, NEW s \in Seq(S), s # <<>>
    PROVE  Last(s) \in S /\ Front(s) \in Seq(S) /\ Len(s) \in 1..Len(s)
  BY DEF Last, Front

LEMMA TopType == ServerOK => Top(contexts) \in Values \cup {Nothing}
  BY LastAndFront DEF Top, ServerOK

LEMMA ViewType == ServerOK => View \in Views
<1> SUFFICES ASSUME ServerOK PROVE View \in Views
  OBVIOUS
<1>1. state \in States \cup {"unknown"} /\ stack \in Seq(Versions)
  BY DEF ServerOK
<1> QED BY <1>1, TopType DEF View, Views

\* A command that was served changed the server, and one that was refused did
\* not, unless what the page shows was missed.
LEMMA ServeInv ==
    ASSUME IInv, NEW c \in Requests, calls[c].at \in {"sent", "done"},
           CallsOK', \A d \in Requests \ {c} : calls'[d] = calls[d],
           calls'[c].cmd = calls[c].cmd, calls'[c].at \in {"done", "refused"},
           ServerOK', ServerOnly, missed' \in BOOLEAN,
           \/ missed'
           \/ calls[c].at = "sent" /\ UNCHANGED <<server, missed>>
           \/ calls'[c].at = "done" /\ calls[c].cmd # "create"
    PROVE  IInv'
<1>1. UNCHANGED <<loading, shown, editor, dialog, toast, overlapped, acts>>
  BY DEF ServerOnly, page
<1>2. ShownOK' /\ EditorOK' /\ DialogOK'
  BY <1>1, SameParts DEF IInv
<1>3. FlagsOK'
  BY <1>1 DEF IInv, FlagsOK
<1>4. ~Refreshing(c) /\ calls[c].at # "idle"
  BY DEF Refreshing
<1>5. dialog'.busy = c /\ c # Nothing =>
         calls'[c].cmd \in {"set", "delete"} /\ calls'[c].at \in {"sent", "done", "refused"}
  BY <1>1 DEF IInv, DialogWaits
<1>6. calls'[c].at # "details" /\ calls'[c].at # "landing"
  OBVIOUS
<1>7. ~missed' /\ Settled(calls'[c]) =>
         Settled(calls[c]) /\ ~missed /\ UNCHANGED <<server, shown>>
  BY <1>1 DEF Settled
<1> QED BY <1>1, <1>2, <1>3, <1>4, <1>5, <1>6, <1>7, Steps1

\* The three ways a command ends at the server; for the fourth see ServeEdit.
LEMMA OutcomeInv ==
    ASSUME IInv, NEW c \in Requests, ServerOK', ServerOnly,
           \/ At(c, "sent") /\ Refused(c, FALSE) /\ UNCHANGED server
           \/ (At(c, "sent") \/ At(c, "done")) /\ Refused(c, TRUE)
           \/ At(c, "sent") /\ Served(c) /\ calls[c].cmd \notin {"create", "edit"}
    PROVE  IInv'
<1>1. calls[c].at \in {"sent", "done"} /\ CallsOK /\ missed \in BOOLEAN
  BY DEF At, IInv, FlagsOK
<1>2. CASE Refused(c, FALSE) \/ Refused(c, TRUE)
  <2>1. To(c, "refused") /\ missed' \in BOOLEAN
    BY <1>1, <1>2 DEF Refused
  <2>2. /\ CallsOK' /\ calls'[c].at = "refused" /\ calls'[c].cmd = calls[c].cmd
        /\ \A d \in Requests \ {c} : calls'[d] = calls[d]
    BY <1>1, <2>1, Goes DEF Steps
  <2>3. CASE At(c, "sent") /\ Refused(c, FALSE) /\ UNCHANGED server
    <3>1. UNCHANGED missed /\ calls[c].at = "sent"
      BY <1>1, <2>3 DEF Refused, At
    <3> QED BY <1>1, <2>1, <2>2, <2>3, <3>1, ServeInv
  <2>4. CASE Refused(c, TRUE)
    <3>1. missed'
      BY <2>4 DEF Refused
    <3> QED BY <1>1, <2>1, <2>2, <3>1, ServeInv
  <2>5. CASE At(c, "sent") /\ Served(c) /\ calls[c].cmd \notin {"create", "edit"}
    <3>1. To(c, "done")
      BY <2>5 DEF Served
    <3>2. calls'[c].at = "done"
      BY <1>1, <2>5, <3>1, Goes DEF Steps
    <3> QED BY <2>2, <3>2
  <2> QED BY <2>3, <2>4, <2>5
<1>3. CASE At(c, "sent") /\ Served(c) /\ calls[c].cmd \notin {"create", "edit"}
  <2>1. To(c, "done") /\ UNCHANGED missed
    BY <1>3 DEF Served
  <2>2. /\ CallsOK' /\ calls'[c].at = "done" /\ calls'[c].cmd = calls[c].cmd
        /\ \A d \in Requests \ {c} : calls'[d] = calls[d]
    BY <1>1, <1>3, <2>1, Goes DEF Steps
  <2> QED BY <1>1, <1>3, <2>1, <2>2, ServeInv
<1> QED BY <1>2, <1>3

LEMMA ServeStartInv == ASSUME IInv, NEW c \in Requests, ServeStart(c) PROVE IInv'
<1>1. /\ Sent(c, {"start", "autostart"}) /\ UNCHANGED stack /\ ServerOnly
      /\ At(c, "sent") /\ calls[c].cmd \notin {"create", "edit"}
  BY DEF ServeStart, Sent
<1>2. CASE stack = <<>>
  <2>1. Refused(c, FALSE) /\ UNCHANGED server
    BY <1>1, <1>2 DEF ServeStart, server
  <2>2. ServerOK'
    BY <2>1, SameParts DEF IInv
  <2> QED BY <1>1, <2>1, <2>2, OutcomeInv
<1>3. CASE stack # <<>> /\ live
  <2>1. state' = "stopped" /\ Refused(c, TRUE) /\ UNCHANGED <<live, contexts, stack>>
    BY <1>1, <1>3 DEF ServeStart, Start
  <2>2. ServerOK'
    BY <2>1 DEF IInv, ServerOK, States
  <2> QED BY <1>1, <2>1, <2>2, OutcomeInv
<1>4. CASE stack # <<>> /\ ~live
  <2>1. /\ state' = "running" /\ live' = TRUE /\ UNCHANGED stack /\ Served(c)
        /\ contexts' = IF contexts = <<>> THEN <<Nothing>> ELSE contexts
    BY <1>1, <1>4 DEF ServeStart, Start
  <2>2. contexts' \in Seq(Values \cup {Nothing})
    <3>1. <<Nothing>> \in Seq(Values \cup {Nothing})
      OBVIOUS
    <3> QED BY <2>1, <3>1 DEF IInv, ServerOK
  <2>3. ServerOK'
    BY <2>1, <2>2 DEF IInv, ServerOK, States
  <2> QED BY <1>1, <2>1, <2>3, OutcomeInv
<1> QED BY <1>2, <1>3, <1>4

LEMMA StoppedStateType == ServerOK => StoppedState \in States
  BY DEF StoppedState, States

LEMMA ServeStopInv == ASSUME IInv, NEW c \in Requests, ServeStop(c) PROVE IInv'
<1>1. /\ At(c, "sent") /\ calls[c].cmd \notin {"create", "edit"} /\ Served(c) /\ ServerOnly
      /\ live' = FALSE /\ state' = StoppedState /\ UNCHANGED <<stack, contexts>>
  BY DEF ServeStop, Sent
<1>2. ServerOK'
  BY <1>1, StoppedStateType DEF IInv, ServerOK
<1> QED BY <1>1, <1>2, OutcomeInv

LEMMA ServeToggleInv == ASSUME IInv, NEW c \in Requests, ServeToggle(c) PROVE IInv'
<1>1. /\ At(c, "sent") /\ calls[c].cmd \notin {"create", "edit"} /\ Served(c) /\ ServerOnly
      /\ state' \in {"paused", "running"} /\ UNCHANGED <<live, stack, contexts>>
  BY DEF ServeToggle, Sent
<1>2. ServerOK'
  BY <1>1 DEF IInv, ServerOK, States
<1> QED BY <1>1, <1>2, OutcomeInv

LEMMA ServeUnloadInv == ASSUME IInv, NEW c \in Requests, ServeUnload(c) PROVE IInv'
<1>1. At(c, "sent") /\ calls[c].cmd \notin {"create", "edit"} /\ ServerOnly
  BY DEF ServeUnload, Sent
<1>2. CASE stack = <<>> \/ Top(stack) \in Protected
  <2>1. Refused(c, FALSE) /\ UNCHANGED server
    BY <1>2 DEF ServeUnload
  <2>2. ServerOK'
    BY <2>1, SameParts DEF IInv
  <2> QED BY <1>1, <2>1, <2>2, OutcomeInv
<1>3. CASE ~(stack = <<>> \/ Top(stack) \in Protected)
  <2>1. /\ stack' = Front(stack)
        /\ contexts' = IF contexts = <<>> THEN <<>> ELSE Front(contexts)
        /\ live' = (live /\ Len(stack) > 1)
        /\ state' = IF Len(stack) > 1 THEN state ELSE StoppedState
        /\ Served(c)
    BY <1>3 DEF ServeUnload
  <2>2. stack' \in Seq(Versions)
    BY <1>3, <2>1, LastAndFront DEF IInv, ServerOK
  <2>3. contexts' \in Seq(Values \cup {Nothing})
    BY <2>1, LastAndFront, EmptySeq DEF IInv, ServerOK
  <2>4. state' \in States /\ live' \in BOOLEAN
    BY <2>1, StoppedStateType DEF IInv, ServerOK
  <2>5. ServerOK'
    BY <2>2, <2>3, <2>4 DEF ServerOK
  <2> QED BY <1>1, <2>1, <2>5, OutcomeInv
<1> QED BY <1>2, <1>3

\* What is saved is a schedule, or empty.
LEMMA ServeLoadInv == ASSUME IInv, NEW c \in Requests, ServeLoad(c) PROVE IInv'
<1>1. At(c, "sent") /\ calls[c].cmd = "save" /\ ServerOnly
  BY DEF ServeLoad, Sent
<1>2. CASE calls[c].put = Empty
  <2>1. Refused(c, FALSE) /\ UNCHANGED server
    BY <1>2 DEF ServeLoad
  <2>2. ServerOK'
    BY <2>1, SameParts DEF IInv
  <2> QED BY <1>1, <2>1, <2>2, OutcomeInv
<1>3. CASE calls[c].put # Empty
  <2>1. /\ stack' = Append(stack, calls[c].put)
        /\ contexts' = Append(contexts, Top(contexts))
        /\ \/ state' = "stopped" /\ Refused(c, TRUE) /\ UNCHANGED live
           \/ state' = "running" /\ live' = TRUE /\ Served(c)
    BY <1>3 DEF ServeLoad
  <2>2. calls[c].put \in Versions
    BY <1>1, <1>3 DEF At, IInv, CallsOK, GoodCalls, Carries, Forms
  <2>3. stack' \in Seq(Versions)
    BY <2>1, <2>2, AppendProperties DEF IInv, ServerOK
  <2>4. contexts' \in Seq(Values \cup {Nothing})
    BY <2>1, TopType, AppendProperties DEF IInv, ServerOK
  <2>5. state' \in States /\ live' \in BOOLEAN
    BY <2>1 DEF IInv, ServerOK, States
  <2>6. ServerOK'
    BY <2>3, <2>4, <2>5 DEF ServerOK
  <2> QED BY <1>1, <2>1, <2>6, OutcomeInv
<1> QED BY <1>2, <1>3

LEMMA ServeUpdateInv == ASSUME IInv, NEW c \in Requests, ServeUpdate(c) PROVE IInv'
<1>1. /\ At(c, "sent") /\ calls[c].cmd = "save" /\ calls[c].layer > 0 /\ ServerOnly
      /\ UNCHANGED <<state, live, contexts>>
  BY DEF ServeUpdate, Sent
<1>2. CASE calls[c].put = Empty \/ calls[c].layer > Len(stack)
  <2>1. Refused(c, FALSE) /\ UNCHANGED server
    BY <1>1, <1>2 DEF ServeUpdate, server
  <2>2. ServerOK'
    BY <2>1, SameParts DEF IInv
  <2> QED BY <1>1, <2>1, <2>2, OutcomeInv
<1>3. CASE ~(calls[c].put = Empty \/ calls[c].layer > Len(stack))
  <2>1. stack' = [stack EXCEPT ![calls[c].layer] = calls[c].put] /\ Served(c)
    BY <1>3 DEF ServeUpdate
  <2>2. calls[c].put \in Versions
    BY <1>1, <1>3 DEF At, IInv, CallsOK, GoodCalls, Carries, Forms
  <2>3. calls[c].layer \in 1..Len(stack)
    BY <1>1, <1>3, CallFields DEF IInv, CallsOK, ServerOK
  <2>4. stack' \in Seq(Versions)
    BY <2>1, <2>2, <2>3, ExceptSeq DEF IInv, ServerOK
  <2>5. ServerOK'
    BY <1>1, <2>4 DEF IInv, ServerOK
  <2> QED BY <1>1, <2>1, <2>5, OutcomeInv
<1> QED BY <1>2, <1>3

LEMMA ServeSetInv == ASSUME IInv, NEW c \in Requests, ServeSet(c) PROVE IInv'
<1>1. /\ At(c, "sent") /\ calls[c].cmd \in {"set", "delete"} /\ ServerOnly /\ Served(c)
      /\ UNCHANGED <<state, live, stack>>
      /\ contexts' = IF contexts = <<>> THEN <<calls[c].put>>
                     ELSE [contexts EXCEPT ![Len(contexts)] = calls[c].put]
  BY DEF ServeSet, Sent
<1>2. calls[c].put \in Values \cup {Nothing}
  BY <1>1 DEF At, IInv, CallsOK, GoodCalls, Carries
<1>3. contexts' \in Seq(Values \cup {Nothing})
  <2>1. CASE contexts = <<>>
    BY <1>1, <1>2, <2>1
  <2>2. CASE contexts # <<>>
    <3>1. contexts \in Seq(Values \cup {Nothing})
      BY DEF IInv, ServerOK
    <3>2. Len(contexts) \in 1..Len(contexts)
      BY <2>2, <3>1, LastAndFront
    <3> QED BY <1>1, <1>2, <2>2, <3>1, <3>2, ExceptSeq
  <2> QED BY <2>1, <2>2
<1>4. ServerOK'
  BY <1>1, <1>3 DEF IInv, ServerOK
<1> QED BY <1>1, <1>4, OutcomeInv

LEMMA ServeEditInv == ASSUME IInv, NEW c \in Requests, ServeEdit(c) PROVE IInv'
<1>1. /\ At(c, "sent") /\ calls[c].cmd \in {"create", "edit"} /\ ServerOnly
      /\ UNCHANGED server
  BY DEF ServeEdit, Sent
<1>2. ServerOK'
  BY <1>1, SameParts DEF IInv
<1>3. CASE calls[c].layer > Len(stack)
  <2>1. Refused(c, FALSE)
    BY <1>3 DEF ServeEdit
  <2> QED BY <1>1, <1>2, <2>1, OutcomeInv
<1>4. CASE ~(calls[c].layer > Len(stack))
  <2> DEFINE put == IF calls[c].layer = 0 THEN Empty ELSE stack[calls[c].layer]
  <2> DEFINE x == [calls[c] EXCEPT !.at = "done", !.put = put]
  <2>1. calls' = [calls EXCEPT ![c] = x] /\ UNCHANGED missed
    BY <1>4 DEF ServeEdit
  <2>2. calls[c] \in Calls /\ stack \in Seq(Versions)
    BY DEF IInv, CallsOK, GoodCalls, ServerOK
  <2>3. put \in Forms
    <3>1. CASE calls[c].layer = 0
      BY <3>1 DEF Forms
    <3>2. CASE calls[c].layer # 0
      <4>1. calls[c].layer \in 1..Len(stack)
        BY <1>4, <2>2, <3>2 DEF Calls
      <4> QED BY <2>2, <3>2, <4>1, ElementOfSeq DEF Forms
    <3> QED BY <3>1, <3>2
  <2> HIDE DEF put
  <2>4. x \in Calls /\ x.at = "done" /\ x.cmd = calls[c].cmd /\ x.put = put
    BY <2>2, <2>3 DEF Calls, Steps, Forms
  <2> HIDE DEF x
  <2>5. x \in GoodCalls
    BY <2>3, <2>4 DEF GoodCalls, Carries
  <2>6. /\ CallsOK' /\ calls'[c] = x
        /\ \A d \in Requests \ {c} : calls'[d] = calls[d]
    BY <2>1, <2>5, OneCall DEF IInv
  <2>7. calls[c].at = "sent" /\ missed' \in BOOLEAN
    BY <1>1, <2>1 DEF At, IInv, FlagsOK
  <2> QED BY <1>1, <1>2, <2>1, <2>4, <2>6, <2>7, ServeInv
<1> QED BY <1>3, <1>4

LEMMA LostInv == ASSUME IInv, NEW c \in Requests, Lost(c) PROVE IInv'
<1>1. /\ \/ At(c, "sent") /\ Refused(c, FALSE)
         \/ At(c, "done") /\ Refused(c, TRUE)
      /\ UNCHANGED server /\ ServerOnly
  BY DEF Lost
<1>2. ServerOK'
  BY <1>1, SameParts DEF IInv
<1> QED BY <1>1, <1>2, OutcomeInv

LEMMA AllServeInv == ASSUME IInv, NEW c \in Requests, Serve(c) PROVE IInv'
  BY ServeStartInv, ServeStopInv, ServeToggleInv, ServeUnloadInv, ServeLoadInv,
     ServeUpdateInv, ServeSetInv, ServeEditInv, LostInv DEF Serve

-----------------------------------------------------------------------------
(* The answers and the refresh.                                            *)

\* The request of a dialog is at none of these steps.
LEMMA NoneWaits ==
    ASSUME IInv, NEW c \in Requests,
           \/ calls[c].at \notin {"sent", "done", "refused"}
           \/ calls[c].cmd \notin {"set", "delete"}
    PROVE  dialog.busy = c => c = Nothing
  BY DEF IInv, DialogWaits

\* The page is hidden, and everything is read again.
LEMMA RefetchInv ==
    ASSUME IInv, NEW c \in Requests, calls[c].at \in {"done", "refused", "reread"},
           Refetch(c), EditorOK', ShownOK', toast' \in Toasts,
           UNCHANGED <<server, missed, overlapped, acts>>
    PROVE  IInv'
<1>1. To(c, "list") /\ loading' = TRUE /\ dialog' = NoDialog
  BY DEF Refetch
<1>2. /\ CallsOK' /\ calls'[c].at = "list"
      /\ \A d \in Requests \ {c} : calls'[d] = calls[d]
  BY <1>1, Goes DEF IInv, Steps
<1>3. ServerOK' /\ DialogOK' /\ dialog'.busy = Nothing
  BY <1>1, SameParts, DialogTypes DEF IInv, DialogOK
<1>4. FlagsOK'
  BY <1>1 DEF IInv, FlagsOK
<1>5. Refreshing(c)' /\ ~Settled(calls'[c])
  BY <1>2 DEF Refreshing, Settled
<1> QED BY <1>2, <1>3, <1>4, <1>5, Steps1

\* A command is over, and no refresh follows.
LEMMA EndInv ==
    ASSUME IInv, NEW c \in Requests, End(c), calls[c].at # "idle", ~Refreshing(c),
           EditorOK', DialogOK', FlagsOK', UNCHANGED <<server, shown, overlapped, loading>>,
           dialog'.busy \in {dialog.busy, Nothing}, dialog'.busy = c => c = Nothing,
           missed' \/ (Settled(calls[c]) /\ UNCHANGED missed)
    PROVE  IInv'
<1>1. /\ CallsOK' /\ calls'[c] = Idle
      /\ \A d \in Requests \ {c} : calls'[d] = calls[d]
  BY Ends DEF IInv
<1>2. calls'[c].at = "idle"
  BY <1>1, IdleType
<1>3. ServerOK' /\ ShownOK'
  BY SameParts DEF IInv
<1> QED BY <1>1, <1>2, <1>3, Steps1

LEMMA CommandDoneInv == ASSUME IInv, NEW c \in Requests, CommandDone(c) PROVE IInv'
<1>1. /\ calls[c].at = "done" /\ Refetch(c) /\ editor' = Remounted
      /\ UNCHANGED <<server, shown, toast, missed, overlapped, acts>>
  BY DEF CommandDone, At, history
<1>2. EditorOK' /\ ShownOK' /\ toast' \in Toasts
  BY <1>1, RemountedType, SameParts DEF IInv, EditorOK, FlagsOK
<1> QED BY <1>1, <1>2, RefetchInv

LEMMA EditorOpensInv == ASSUME IInv, NEW c \in Requests, EditorOpens(c) PROVE IInv'
<1>1. /\ At(c, "done") /\ calls[c].at = "done" /\ calls[c].cmd \in {"create", "edit"}
      /\ UNCHANGED <<server, shown, toast, missed, overlapped, acts>>
  BY DEF EditorOpens, At, history
<1>2. calls[c].put \in Forms /\ calls[c].layer \in Nat
  BY <1>1, CallFields DEF IInv, CallsOK, Carries
<1>3. ShownOK' /\ toast' \in Toasts
  BY <1>1, SameParts DEF IInv, FlagsOK
<1>4. CASE calls[c].cmd = "edit"
  <2>1. Refetch(c) /\ editor' = Mounted(calls[c].layer, calls[c].put)
    BY <1>4 DEF EditorOpens
  <2>2. EditorOK'
    BY <1>2, <2>1, MountedType DEF EditorOK
  <2> QED BY <1>1, <1>3, <2>1, <2>2, RefetchInv
<1>5. CASE calls[c].cmd = "create"
  <2>1. /\ editor' = Opened(editor, calls[c].layer, calls[c].put) /\ End(c)
        /\ UNCHANGED <<loading, dialog>>
    BY <1>5 DEF EditorOpens
  <2>2. editor \in Editors
    BY DEF IInv, EditorOK, GoodEditors
  <2>3. EditorOK' /\ DialogOK'
    BY <1>2, <2>1, <2>2, OpenedType, SameParts DEF IInv, EditorOK
  <2>4. FlagsOK'
    BY <1>1, <2>1 DEF IInv, FlagsOK
  <2>5. ~Refreshing(c) /\ Settled(calls[c])
    BY <1>1, <1>5 DEF Refreshing, Settled
  <2>6. dialog'.busy = c => c = Nothing
    BY <1>5, <2>1, NoneWaits
  <2> QED BY <1>1, <2>1, <2>3, <2>4, <2>5, <2>6, EndInv
<1> QED BY <1>1, <1>4, <1>5

LEMMA SaveDoneInv == ASSUME IInv, NEW c \in Requests, SaveDone(c) PROVE IInv'
<1>1. /\ calls[c].at = "done" /\ Refetch(c) /\ editor' = Closed
      /\ UNCHANGED <<server, shown, toast, missed, overlapped, acts>>
  BY DEF SaveDone, At, history
<1>2. EditorOK' /\ ShownOK' /\ toast' \in Toasts
  BY <1>1, MountedType, SameParts DEF IInv, EditorOK, FlagsOK
<1> QED BY <1>1, <1>2, RefetchInv

LEMMA SetDoneInv == ASSUME IInv, NEW c \in Requests, SetDone(c) PROVE IInv'
<1>1. /\ calls[c].at = "done" /\ To(c, "reread") /\ dialog' = Answered(c)
      /\ UNCHANGED <<server, loading, shown, editor, toast, missed, overlapped, acts>>
  BY DEF SetDone, At, history
<1>2. /\ CallsOK' /\ calls'[c].at = "reread"
      /\ \A d \in Requests \ {c} : calls'[d] = calls[d]
  BY <1>1, Goes DEF IInv, Steps
<1>3. /\ DialogOK' /\ dialog'.busy \in {dialog.busy, Nothing}
      /\ dialog'.busy = c => c = Nothing
  BY <1>1, AnsweredType DEF IInv, DialogOK
<1>4. ServerOK' /\ ShownOK' /\ EditorOK'
  BY <1>1, SameParts DEF IInv
<1>5. FlagsOK'
  BY <1>1 DEF IInv, FlagsOK
<1>6. ~Refreshing(c) /\ ~Settled(calls'[c])
  BY <1>1, <1>2 DEF Refreshing, Settled
<1> QED BY <1>1, <1>2, <1>3, <1>4, <1>5, <1>6, Steps1

LEMMA SetRereadInv == ASSUME IInv, NEW c \in Requests, SetReread(c) PROVE IInv'
<1>1. /\ calls[c].at = "reread" /\ Refetch(c) /\ editor' = Remounted /\ toast' = "set"
      /\ shown' = IF calls[c].layer = 0 THEN shown ELSE [shown EXCEPT !.var = Top(contexts)]
      /\ UNCHANGED <<server, missed, overlapped, acts>>
  BY DEF SetReread, At, history
<1>2. EditorOK' /\ toast' \in Toasts
  BY <1>1, RemountedType DEF IInv, EditorOK, Toasts
<1>3. ShownOK'
  BY <1>1, TopType DEF IInv, ShownOK, Views
<1> QED BY <1>1, <1>2, <1>3, RefetchInv

LEMMA SetRereadFailsInv == ASSUME IInv, NEW c \in Requests, SetRereadFails(c) PROVE IInv'
<1>1. /\ calls[c].at = "reread" /\ End(c) /\ missed' = TRUE /\ toast' = "error"
      /\ UNCHANGED <<server, loading, shown, editor, dialog, overlapped, acts>>
  BY DEF SetRereadFails, At, page
<1>2. EditorOK' /\ DialogOK'
  BY <1>1, SameParts DEF IInv
<1>3. FlagsOK'
  BY <1>1 DEF IInv, FlagsOK, Toasts
<1>4. ~Refreshing(c) /\ (dialog'.busy = c => c = Nothing)
  BY <1>1, NoneWaits DEF Refreshing
<1>5. /\ End(c) /\ calls[c].at # "idle" /\ dialog'.busy \in {dialog.busy, Nothing}
      /\ missed' \/ (Settled(calls[c]) /\ UNCHANGED missed)
  BY <1>1
<1>6. UNCHANGED <<server, shown, overlapped, loading>>
  BY <1>1
<1> QED BY <1>2, <1>3, <1>4, <1>5, <1>6, EndInv

LEMMA CommandRefusedInv == ASSUME IInv, NEW c \in Requests, CommandRefused(c) PROVE IInv'
<1>1. /\ calls[c].at = "refused" /\ toast' \in {"saved and started", "error"}
      /\ UNCHANGED <<server, shown, missed, overlapped, acts>>
  BY DEF CommandRefused, At, history
<1>2. ShownOK' /\ toast' \in Toasts
  BY <1>1, SameParts DEF IInv, Toasts
<1>3. CASE calls[c].cmd = "edit"
  <2>1. Refetch(c) /\ editor' = Remounted
    BY <1>3 DEF CommandRefused
  <2>2. EditorOK'
    BY <2>1, RemountedType DEF IInv, EditorOK
  <2> QED BY <1>1, <1>2, <2>1, <2>2, RefetchInv
<1>4. CASE calls[c].cmd # "edit"
  <2>1. End(c) /\ dialog' = Answered(c) /\ UNCHANGED <<loading, editor>>
    BY <1>4 DEF CommandRefused
  <2>2. /\ DialogOK' /\ dialog'.busy \in {dialog.busy, Nothing}
        /\ dialog'.busy = c => c = Nothing
    BY <2>1, AnsweredType DEF IInv, DialogOK
  <2>3. EditorOK'
    BY <2>1, SameParts DEF IInv
  <2>4. FlagsOK'
    BY <1>1, <1>2, <2>1 DEF IInv, FlagsOK
  <2>5. ~Refreshing(c) /\ Settled(calls[c])
    BY <1>1 DEF Refreshing, Settled
  <2> QED BY <1>1, <2>1, <2>2, <2>3, <2>4, <2>5, EndInv
<1> QED BY <1>3, <1>4

\* The reads of a refresh: what was read is what is there, as long as nothing
\* else is under way.
LEMMA ReadInv ==
    ASSUME IInv, NEW c \in Requests, NEW x \in GoodCalls, calls' = [calls EXCEPT ![c] = x],
           Refreshing(c), x.at \in {"details", "landing"},
           ~overlapped => x.got.state = state /\ (x.at = "landing" => x.got.stack = stack),
           UNCHANGED <<server, page, toast, history, acts>>
    PROVE  IInv'
<1>1. UNCHANGED <<loading, shown, editor, dialog, missed, overlapped, state, stack>>
  BY DEF page, history, server
<1>2. /\ CallsOK' /\ calls'[c] = x
      /\ \A d \in Requests \ {c} : calls'[d] = calls[d]
  BY OneCall DEF IInv
<1>3. ServerOK' /\ ShownOK' /\ EditorOK' /\ DialogOK'
  BY <1>1, SameParts DEF IInv
<1>4. FlagsOK'
  BY <1>1 DEF IInv, FlagsOK
<1>5. calls[c].at # "idle" /\ (dialog'.busy = c => c = Nothing)
  BY <1>1, NoneWaits DEF Refreshing
<1>6. Refreshing(c)' /\ ~Settled(calls'[c])
  BY <1>2 DEF Refreshing, Settled
<1> QED BY <1>1, <1>2, <1>3, <1>4, <1>5, <1>6, Steps1

LEMMA ReadStatusesInv == ASSUME IInv, NEW c \in Requests, ReadStatuses(c) PROVE IInv'
<1> DEFINE got == [Blank EXCEPT !.state = state]
<1> DEFINE x == [calls[c] EXCEPT !.at = "details", !.got = got]
<1>1. /\ calls[c].at = "list" /\ UNCHANGED <<server, page, toast, history, acts>>
      /\ calls' = [calls EXCEPT ![c] = x]
  BY DEF ReadStatuses, At
<1>2. got \in Views /\ got.state = state
  BY BlankType DEF IInv, ServerOK, Views
<1> HIDE DEF got
<1>3. x \in Calls /\ x.at = "details" /\ x.got = got
  BY <1>2 DEF IInv, CallsOK, GoodCalls, Calls, Steps
<1> HIDE DEF x
<1>4. x \in GoodCalls
  BY <1>3 DEF GoodCalls, Carries
<1>5. Refreshing(c)
  BY <1>1 DEF Refreshing
<1> QED BY <1>1, <1>2, <1>3, <1>4, <1>5, ReadInv

LEMMA ReadStackInv == ASSUME IInv, NEW c \in Requests, ReadStack(c) PROVE IInv'
<1> DEFINE got == [calls[c].got EXCEPT !.stack = stack]
<1> DEFINE x == [calls[c] EXCEPT !.at = "landing", !.got = got]
<1>1. /\ At(c, "details") /\ calls[c].at = "details"
      /\ UNCHANGED <<server, page, toast, history, acts>>
  BY DEF ReadStack, At
<1>2. calls[c] \in Calls /\ calls[c].got \in Views
  BY DEF IInv, CallsOK, GoodCalls, Calls
<1>3. got \in Views /\ got.state = calls[c].got.state /\ got.stack = stack
  BY <1>2 DEF IInv, ServerOK, Views
<1>4. calls' = [calls EXCEPT ![c] = x]
  BY <1>2 DEF ReadStack, Calls
<1> HIDE DEF got
<1>5. x \in Calls /\ x.at = "landing" /\ x.got = got
  BY <1>2, <1>3 DEF Calls, Steps
<1> HIDE DEF x
<1>6. x \in GoodCalls
  BY <1>5 DEF GoodCalls, Carries
<1>7. ~overlapped => x.got.state = state
  BY <1>1, <1>3, <1>5 DEF IInv, InTurn, Reads
<1>8. Refreshing(c)
  BY <1>1 DEF Refreshing
<1> QED BY <1>1, <1>3, <1>4, <1>5, <1>6, <1>7, <1>8, ReadInv

LEMMA AfterType ==
    ASSUME NEW c \in Requests
    PROVE  After(c) \in GoodCalls /\ After(c).at \in {"idle", "saved"}
<1> DEFINE saved == [Idle EXCEPT !.cmd = "save", !.at = "saved"]
<1>1. saved \in Calls /\ saved.at = "saved"
  BY IdleType DEF GoodCalls, Calls, Commands, Steps
<1> HIDE DEF saved
<1>2. saved \in GoodCalls
  BY <1>1 DEF GoodCalls, Carries
<1>3. After(c) \in {saved, Idle}
  BY DEF After, saved
<1> QED BY <1>1, <1>2, <1>3, IdleType

LEMMA SaidType == ASSUME FlagsOK, NEW c \in Requests PROVE Said(c) \in Toasts
<1>1. toast \in Toasts
  BY DEF FlagsOK
<1> QED BY <1>1 DEF Said, Toasts

LEMMA RefreshFailsInv == ASSUME IInv, NEW c \in Requests, RefreshFails(c) PROVE IInv'
<1>1. /\ calls[c].at = "list" /\ loading' = FALSE /\ missed' = TRUE
      /\ calls' = [calls EXCEPT ![c] = After(c)] /\ toast' = Said(c)
      /\ UNCHANGED <<server, shown, editor, dialog, overlapped, acts>>
  BY DEF RefreshFails, At
<1>2. /\ CallsOK' /\ calls'[c] = After(c)
      /\ \A d \in Requests \ {c} : calls'[d] = calls[d]
  BY <1>1, AfterType, OneCall DEF IInv
<1>3. ServerOK' /\ ShownOK' /\ EditorOK' /\ DialogOK'
  BY <1>1, SameParts DEF IInv
<1>4. FlagsOK'
  BY <1>1, SaidType DEF IInv, FlagsOK
<1>5. calls'[c].at \in {"idle", "saved"} /\ (dialog'.busy = c => c = Nothing)
  BY <1>1, <1>2, AfterType, NoneWaits
<1> QED BY <1>1, <1>2, <1>3, <1>4, <1>5, Steps1

LEMMA AutoStartInv == ASSUME IInv, NEW c \in Requests, AutoStart(c) PROVE IInv'
<1> DEFINE x == Call("autostart", 0, Nothing)
<1>1. /\ calls[c].at = "saved" /\ calls' = [calls EXCEPT ![c] = x]
      /\ UNCHANGED <<server, page, toast, history, acts>>
  BY DEF AutoStart, At
<1>2. x \in GoodCalls /\ x.at = "sent"
  BY CallType DEF Commands
<1> HIDE DEF x
<1>3. UNCHANGED <<loading, shown, editor, dialog, missed, overlapped>>
  BY <1>1 DEF page, history
<1>4. /\ CallsOK' /\ calls'[c] = x
      /\ \A d \in Requests \ {c} : calls'[d] = calls[d]
  BY <1>1, <1>2, OneCall DEF IInv
<1>5. ServerOK' /\ ShownOK' /\ EditorOK' /\ DialogOK'
  BY <1>1, <1>3, SameParts DEF IInv
<1>6. FlagsOK'
  BY <1>1, <1>3 DEF IInv, FlagsOK
<1>7. ~Refreshing(c) /\ Settled(calls[c]) /\ (dialog'.busy = c => c = Nothing)
  BY <1>1, <1>3, NoneWaits DEF Refreshing, Settled
<1> QED BY <1>1, <1>2, <1>3, <1>4, <1>5, <1>6, <1>7, Steps1

LEMMA OrphanType ==
    ASSUME CallsOK, NEW d \in Requests
    PROVE  /\ Orphan(d) \in GoodCalls /\ Orphan(d).cmd = calls[d].cmd
           /\ Orphan(d).at = calls[d].at /\ (calls[d] = Idle => Orphan(d) = Idle)
<1>1. calls[d] \in Calls /\ Carries(calls[d])
  BY DEF CallsOK, GoodCalls
<1> DEFINE x == [calls[d] EXCEPT !.layer = 0]
<1>2. x \in Calls /\ x.cmd = calls[d].cmd /\ x.at = calls[d].at /\ x.put = calls[d].put
  BY <1>1 DEF Calls
<1>3. Orphan(d) \in {calls[d], x} /\ (calls[d] = Idle => Orphan(d) = calls[d])
  BY IdleType DEF Orphan
<1> HIDE DEF x
<1>4. x \in GoodCalls
  BY <1>1, <1>2 DEF GoodCalls, Carries
<1> QED BY <1>1, <1>2, <1>3, <1>4 DEF GoodCalls

\* All is shown at once: the context as it is, the rest as it was read.
LEMMA LandInv == ASSUME IInv, NEW c \in Requests, Land(c) PROVE IInv'
<1>1. /\ At(c, "landing") /\ calls[c].at = "landing"
      /\ shown' = [calls[c].got EXCEPT !.var = Top(contexts)]
      /\ loading' = FALSE /\ missed' = FALSE /\ toast' = Said(c)
      /\ calls' = [d \in Requests |-> IF d = c THEN After(c) ELSE Orphan(d)]
      /\ UNCHANGED <<server, editor, dialog, overlapped, acts>>
  BY DEF Land, At
<1>2. CallsOK'
  BY <1>1, AfterType, OrphanType DEF IInv, CallsOK
<1>3. calls'[c] = After(c) /\ \A d \in Requests \ {c} : calls'[d] = Orphan(d)
  BY <1>1
<1>4. ServerOK' /\ EditorOK' /\ DialogOK'
  BY <1>1, SameParts DEF IInv
<1>5. calls[c].got \in Views
  BY CallFields DEF IInv, CallsOK
<1>6. ShownOK'
  BY <1>1, <1>5, TopType DEF IInv, ShownOK, Views
<1>7. FlagsOK'
  BY <1>1, SaidType DEF IInv, FlagsOK
<1>8. LoadingIsServed'
  BY <1>1 DEF LoadingIsServed
<1>9. DialogWaits'
  <2> SUFFICES ASSUME dialog.busy # Nothing
               PROVE  /\ calls'[dialog.busy].cmd \in {"set", "delete"}
                      /\ calls'[dialog.busy].at \in {"sent", "done", "refused"}
    BY <1>1 DEF DialogWaits
  <2>1. dialog.busy \in Requests \ {c}
    BY <1>1, DialogTypes DEF IInv, DialogOK, DialogWaits
  <2> QED BY <1>3, <2>1, OrphanType DEF IInv, DialogWaits
<1>10. InTurn'
  <2> SUFFICES ASSUME ~overlapped PROVE Alone' /\ Reads' /\ Agrees'
    BY <1>1 DEF InTurn
  <2>1. \A d \in Requests \ {c} : calls'[d] = Idle
    <3>1. \A d \in Requests \ {c} : calls[d] = Idle
      BY <1>1, IdleType DEF IInv, InTurn, Alone, Under
    <3> QED BY <1>3, <3>1, OrphanType DEF IInv
  <2>2. Alone'
    BY <2>1 DEF Alone, Under
  <2>3. Reads'
    BY <1>3, <2>1, IdleType, AfterType DEF Reads, At
  <2>4. shown' = View'
    <3>1. calls[c].got.state = state /\ calls[c].got.stack = stack
      BY <1>1 DEF IInv, InTurn, Reads
    <3>2. [calls[c].got EXCEPT !.var = Top(contexts)] = View
      BY <1>5, <3>1 DEF View, Views
    <3>3. View' = View
      BY <1>1 DEF View, server
    <3> QED BY <1>1, <3>2, <3>3
  <2> QED BY <2>2, <2>3, <2>4 DEF Agrees
<1> QED BY <1>2, <1>4, <1>6, <1>7, <1>8, <1>9, <1>10 DEF IInv

LEMMA AnswerInv == ASSUME IInv, NEW c \in Requests, Answer(c) PROVE IInv'
  BY CommandDoneInv, EditorOpensInv, SaveDoneInv, SetDoneInv, SetRereadInv,
     SetRereadFailsInv, CommandRefusedInv, ReadStatusesInv, ReadStackInv, LandInv,
     RefreshFailsInv, AutoStartInv DEF Answer

-----------------------------------------------------------------------------
(* The theorems.                                                           *)

LEMMA StutterInv == IInv /\ UNCHANGED vars => IInv'
<1> SUFFICES ASSUME IInv, UNCHANGED vars PROVE IInv'
  OBVIOUS
<1>1. /\ UNCHANGED <<calls, server, shown, missed, overlapped>>
      /\ UNCHANGED <<loading, editor, dialog, toast, acts>>
  BY DEF vars, server
<1>2. EditorOK' /\ DialogOK'
  BY <1>1, SameParts DEF IInv
<1>3. FlagsOK'
  BY <1>1 DEF IInv, FlagsOK
<1> QED BY <1>1, <1>2, <1>3, SameCalls

LEMMA NextInv == IInv /\ [Next]_vars => IInv'
  BY UserInv, AllServeInv, AnswerInv, StutterInv DEF Next

LEMMA SpecInv == Spec => []IInv
  BY InitInv, NextInv, PTL DEF Spec

LEMMA InvHolds == IInv => PageHolds
<1> SUFFICES ASSUME IInv PROVE PageHolds
  OBVIOUS
<1>1. TypeOK
  BY DEF IInv, ServerOK, CallsOK, ShownOK, EditorOK, DialogOK, FlagsOK,
         GoodCalls, GoodEditors, TypeOK
<1>2. DialogIsServed
  BY DEF IInv, DialogWaits, DialogIsServed
<1>3. ParsedOnceQuiet
  BY DEF IInv, EditorOK, GoodEditors, Parsed, ParsedOnceQuiet
<1> QED BY <1>1, <1>2, <1>3 DEF IInv, PageHolds

(* The page that controls the schedulers (fetchDestinations and the        *)
(* handlers of scheduler.tsx, the editor and the dialog of a variable):    *)
(* whatever commands and refreshes overlap, and whichever of them fail, it *)
(* is hidden only while a refresh that will show it is under way, a dialog *)
(* waits only for a request that is under way, and in the editor form,     *)
(* text and check mark agree once the text was parsed.                     *)
THEOREM PageIsSound == Spec => []PageHolds
  BY SpecInv, InvHolds, PTL

(* As long as the user waits for each command before the next, the page    *)
(* shows the scheduler as the server has it whenever nothing is under way, *)
(* unless a request was lost or a command refused midway: each handler     *)
(* that changes the server ends in a refresh that reads all of it.         *)
THEOREM PageIsRight == Spec => []PageAgrees
<1>1. IInv => PageAgrees
  <2> SUFFICES ASSUME IInv, Quiet, ~missed, ~overlapped PROVE shown = View
    BY DEF PageAgrees
  <2>1. \A c \in Requests : Settled(calls[c])
    BY IdleType DEF Quiet, Under, Settled
  <2> QED BY <2>1 DEF IInv, InTurn, Agrees
<1> QED BY <1>1, SpecInv, PTL
=============================================================================
