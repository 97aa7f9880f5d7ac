----------------------------- MODULE OptionsSync -----------------------------
(***************************************************************************)
(* The main page's settings and their two editors: the prompt form, which  *)
(* keeps a copy of its own, and the sheet of advanced options, which edits *)
(* the page's.  The form changes its copy and the page's together, and the *)
(* effects of the next render take the page's into the copy again and put  *)
(* the refiner's defaults where no parameter is set.                       *)
(***************************************************************************)
EXTENDS Naturals

CONSTANTS Workflows, Refiners,
          First,      \* the first of the workflows, which the sheet shows for Auto
          Auto,       \* neither a workflow nor a refiner of the lists: the server picks
          Has,        \* the parameters of each workflow
          HasExtra,   \* the parameters of each refiner
          Values,
          Default,    \* the value a refiner's parameter has at first
          None,       \* not set
          MaxEdits    \* bound on what the user changes

OptionsSyncAssumption ==
    /\ First \in Workflows /\ Auto \notin Workflows \cup Refiners
    /\ Default \in Values /\ None \notin Values /\ MaxEdits \in Nat

VARIABLES page,     \* Index: the settings
          form,     \* usePromptForm: the copy that is submitted
          sheet,    \* the sheet is open; a close is delayed
          rendered, \* the effects of the last change have run
          sent,     \* history: the settings last submitted
          edits

vars == <<page, form, sheet, rendered, sent, edits>>

-----------------------------------------------------------------------------
Params == UNION {Has[w] : w \in Workflows}
Extras == UNION {HasExtra[r] : r \in Refiners}
Settings == [workflow : Workflows \cup {Auto}, params : [Params -> Values \cup {None}],
             refiner : Refiners \cup {Auto}, extras : [Extras -> Values \cup {None}]]
NoParams == [p \in Params |-> None]
NoExtras == [e \in Extras |-> None]
Initial == [workflow |-> Auto, params |-> NoParams, refiner |-> Auto, extras |-> NoExtras]

TypeOK ==
    /\ page \in Settings /\ form \in Settings /\ sent \in Settings \cup {None}
    /\ sheet \in [open : BOOLEAN, closing : BOOLEAN]
    /\ rendered \in BOOLEAN /\ edits \in 0..MaxEdits

Init == /\ page = Initial /\ form = Initial /\ sent = None
        /\ sheet = [open |-> FALSE, closing |-> FALSE]
        /\ rendered = FALSE /\ edits = 0

\* The sheet's parameters, which are the first workflow's when there is none.
ShownParams == Has[IF page.workflow \in Workflows THEN page.workflow ELSE First]
ShownExtras == IF page.refiner \in Refiners THEN HasExtra[page.refiner] ELSE {}

-----------------------------------------------------------------------------
(* The effects                                                             *)

\* The sheet's effect, also while it is closed.
WithDefaults(s) ==
    [s EXCEPT !.extras = [e \in Extras |-> IF e \in ShownExtras /\ s.extras[e] = None
                                           THEN Default ELSE s.extras[e]]]
\* Mutant: the page's parameters are taken on mount only.
SyncedOnMount(f) == [f EXCEPT !.workflow = page.workflow, !.refiner = page.refiner]
\* The form's effects: the page's settings replace its own.
Synced(f) == [f EXCEPT !.workflow = page.workflow, !.refiner = page.refiner,
                       !.params = page.params, !.extras = page.extras]
RunEffects ==
    /\ ~rendered
    /\ form' = Synced(form) /\ page' = WithDefaults(page)
    /\ rendered' = (form' = form /\ page' = page)
    /\ UNCHANGED <<sheet, sent, edits>>

-----------------------------------------------------------------------------
(* The user; the effects of one event have run before the next.            *)

Edit == rendered /\ rendered' = FALSE /\ edits < MaxEdits /\ edits' = edits + 1

\* The form resets the parameters in its copy, and in that alone.
PickWorkflow(w) ==
    /\ Edit
    /\ form' = [form EXCEPT !.workflow = w, !.params = NoParams]
    /\ page' = [page EXCEPT !.workflow = w]
    /\ UNCHANGED <<sheet, sent>>
PickRefiner(r) ==
    /\ Edit
    /\ form' = [form EXCEPT !.refiner = r, !.extras = NoExtras]
    /\ page' = [page EXCEPT !.refiner = r]
    /\ UNCHANGED <<sheet, sent>>

ToggleSheet ==
    /\ rendered /\ ~sheet.open /\ sheet' = [sheet EXCEPT !.open = TRUE]
    /\ UNCHANGED <<page, form, rendered, sent, edits>>
CloseSheet ==
    /\ sheet.open /\ sheet' = [sheet EXCEPT !.closing = TRUE]
    /\ UNCHANGED <<page, form, rendered, sent, edits>>
SheetCloses ==
    /\ sheet.closing /\ sheet' = [open |-> FALSE, closing |-> FALSE]
    /\ UNCHANGED <<page, form, rendered, sent, edits>>

SheetPicks(w, r) ==
    /\ sheet.open /\ Edit
    /\ page' \in {[page EXCEPT !.workflow = w], [page EXCEPT !.refiner = r]}
    /\ UNCHANGED <<form, sheet, sent>>
ChangeParam(p, v) ==
    /\ sheet.open /\ Edit /\ p \in ShownParams
    /\ page' = [page EXCEPT !.params[p] = v]
    /\ UNCHANGED <<form, sheet, sent>>
ChangeExtra(e, v) ==
    /\ sheet.open /\ Edit /\ e \in ShownExtras
    /\ page' = [page EXCEPT !.extras[e] = v]
    /\ UNCHANGED <<form, sheet, sent>>

\* handlePromptSubmit: what is sent becomes the page's.
Submit ==
    /\ ~sheet.open /\ Edit
    /\ sent' = form /\ page' = form
    /\ UNCHANGED <<form, sheet>>

-----------------------------------------------------------------------------
Next == \/ RunEffects \/ ToggleSheet \/ CloseSheet \/ SheetCloses \/ Submit
        \/ \E w \in Workflows \cup {Auto} : PickWorkflow(w)
        \/ \E r \in Refiners \cup {Auto} : PickRefiner(r)
        \/ \E w \in Workflows, r \in Refiners : SheetPicks(w, r)
        \/ \E v \in Values : \/ \E p \in Params : ChangeParam(p, v)
                             \/ \E e \in Extras : ChangeExtra(e, v)

Settles == RunEffects \/ SheetCloses
Spec == Init /\ [][Next]_vars /\ WF_vars(Settles)

-----------------------------------------------------------------------------
\* The two editors come to agree after every change, with the refiner's
\* parameters set, and the effects come to rest instead of causing each other
\* forever.
Settled == rendered /\ form = page /\ WithDefaults(page) = page
SettingsSettle == <>[]Settled
=============================================================================
