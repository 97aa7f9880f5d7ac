------------------------------ MODULE AdminPanel ------------------------------
(***************************************************************************)
(* The media server's admin page.                                          *)
(*                                                                         *)
(* The status is asked for when the page opens, every two minutes, and     *)
(* after what the user does; answers land in any order.  A status that     *)
(* lands puts the screens' URLs in the fields, over what is being typed.   *)
(* One action is under way at a time.  Without a token that is accepted    *)
(* there is no status, and no action.                                      *)
(***************************************************************************)
EXTENDS Naturals

CONSTANTS Urls,    \* URLs a screen may show
          None,    \* nothing known, typed or under way
          Fetches, \* requests that may be under way
          MaxDoings, \* bound on actions and tokens
          MaxUpsets  \* bound on what happens to the server and on failures

AdminPanelAssumption == {MaxDoings, MaxUpsets} \subseteq Nat

VARIABLES server,       \* the URL the screen shows
          accepts,      \* the token is accepted
          status, statusOk, authRequired,
          field,        \* northUrl
          statusFetches,
          action,       \* doAction under way: what the server is asked to show
          refreshDue,   \* the timeouts that fetch the status after an action
          doings, upsets

page == <<status, statusOk, authRequired, field>>
vars == <<server, accepts, status, statusOk, authRequired, field, statusFetches,
          action, refreshDue, doings, upsets>>

-----------------------------------------------------------------------------
\* An answer: a URL, that the token was refused, that the screens do not answer,
\* or an exception.
Fetching == [st : {"idle", "asked", "refused", "unwell", "broken"}, got : {None}]
            \cup [st : {"served"}, got : Urls]
Idle  == [st |-> "idle", got |-> None]
Asked == [st |-> "asked", got |-> None]

TypeOK ==
    /\ server \in Urls /\ accepts \in BOOLEAN
    /\ status \in Urls \cup {None} /\ statusOk \in BOOLEAN \cup {None}
    /\ authRequired \in BOOLEAN /\ field \in Urls \cup {None}
    /\ statusFetches \in [Fetches -> Fetching]
    /\ action \in [st : {"asked", "served", "refused", "broken"},
                url : Urls \cup {None}] \cup {None}
    /\ refreshDue \in 0..MaxDoings
    /\ doings \in 0..MaxDoings /\ upsets \in 0..MaxUpsets

Init ==
    /\ server \in Urls /\ accepts \in BOOLEAN
    /\ status = None /\ statusOk = None /\ authRequired = FALSE /\ field = None
    /\ \E f \in Fetches :
         statusFetches = [g \in Fetches |-> IF g = f THEN Asked ELSE Idle]
    /\ action = None /\ refreshDue = 0
    /\ doings = 0 /\ upsets = 0

Upset == upsets < MaxUpsets /\ upsets' = upsets + 1
Does  == doings < MaxDoings /\ doings' = doings + 1

-----------------------------------------------------------------------------
(* fetchStatus                                                             *)

AskStatus(f) == statusFetches[f] = Idle
                /\ statusFetches' = [statusFetches EXCEPT ![f] = Asked]
\* The interval, and Refresh Now.
StatusPolls(f) ==
    /\ AskStatus(f)
    /\ UNCHANGED <<server, accepts, page, action, refreshDue, doings, upsets>>
\* The timeout of an action that is done.
StatusRefreshes(f) ==
    /\ refreshDue > 0 /\ refreshDue' = refreshDue - 1 /\ AskStatus(f)
    /\ UNCHANGED <<server, accepts, page, action, doings, upsets>>
StatusServed(f) ==
    /\ statusFetches[f] = Asked
    /\ statusFetches' = [statusFetches EXCEPT ![f] =
           IF accepts THEN [st |-> "served", got |-> server]
                      ELSE [st |-> "refused", got |-> None]]
    /\ UNCHANGED <<server, accepts, page, action, refreshDue, doings, upsets>>
StatusBreaks(f) ==
    /\ statusFetches[f] = Asked /\ Upset
    /\ \E st \in {"unwell", "broken"} :
         statusFetches' = [statusFetches EXCEPT ![f] = [st |-> st, got |-> None]]
    /\ UNCHANGED <<server, accepts, page, action, refreshDue, doings>>

\* Mutant: an answer does not take back that the token is required.
NeedsOnce(answer) == {authRequired \/ answer = "refused"}
\* An exception comes before the answer or in reading it.
Needs(answer) == CASE answer = "refused" -> {TRUE}
                   [] answer = "broken"  -> {authRequired, FALSE}
                   [] OTHER              -> {FALSE}
\* The URL that is typed is replaced.  An exception leaves the last status.
StatusLands(f) ==
    /\ statusFetches[f].st \notin {"idle", "asked"}
    /\ statusFetches' = [statusFetches EXCEPT ![f] = Idle]
    /\ authRequired' \in Needs(statusFetches[f].st)
    /\ statusOk' \in IF statusFetches[f].st = "served" THEN BOOLEAN ELSE {FALSE}
    /\ status' = CASE statusFetches[f].st = "served" -> statusFetches[f].got
                   [] statusFetches[f].st = "broken" -> status
                   [] OTHER                          -> None
    /\ field' = IF statusFetches[f].st = "served" THEN statusFetches[f].got ELSE field
    /\ UNCHANGED <<server, accepts, action, refreshDue, doings, upsets>>

\* Save token.
SaveToken(f) ==
    /\ authRequired /\ Does /\ accepts' \in BOOLEAN /\ AskStatus(f)
    /\ UNCHANGED <<server, page, action, refreshDue, upsets>>

-----------------------------------------------------------------------------
(* doAction                                                                *)

TypeUrl(u) ==
    /\ field' = u
    /\ UNCHANGED <<server, accepts, status, statusOk, authRequired, statusFetches,
                   action, refreshDue, doings, upsets>>
\* Buttons are disabled while an action is under way.
DoAction(u) == action = None /\ Does /\ action' = [st |-> "asked", url |-> u]
\* Set, when the URL differs from the status.
SetUrl ==
    /\ field # None /\ field # status /\ DoAction(field)
    /\ UNCHANGED <<server, accepts, page, statusFetches, refreshDue, upsets>>
ResetUrl(u) ==
    /\ DoAction(u) /\ field' = u
    /\ UNCHANGED <<server, accepts, status, statusOk, authRequired, statusFetches,
                   refreshDue, upsets>>
\* A restart, of the kiosk or the server, leaves the URL.
RestartKiosk ==
    /\ DoAction(None)
    /\ UNCHANGED <<server, accepts, page, statusFetches, refreshDue, upsets>>
ActionServed ==
    /\ action # None /\ action.st = "asked"
    /\ IF accepts THEN /\ server' = IF action.url = None THEN server ELSE action.url
                       /\ action' = [action EXCEPT !.st = "served"]
                  ELSE server' = server /\ action' = [action EXCEPT !.st = "refused"]
    /\ UNCHANGED <<accepts, page, statusFetches, refreshDue, doings, upsets>>
ActionBreaks ==
    /\ action # None /\ action.st = "asked" /\ Upset
    /\ action' = [action EXCEPT !.st = "broken"]
    /\ UNCHANGED <<server, accepts, page, statusFetches, refreshDue, doings>>
\* loading is cleared; when the token was refused the status stays and is not
\* fetched again.
ActionLands ==
    /\ action # None /\ action.st # "asked" /\ action' = None
    /\ authRequired' = (authRequired \/ action.st = "refused")
    /\ statusOk' = statusOk
    /\ refreshDue' = IF action.st = "refused" THEN refreshDue ELSE refreshDue + 1
    /\ UNCHANGED <<server, accepts, status, field, statusFetches, doings, upsets>>

\* The server's URL is changed from elsewhere, or its token.
ServerChanges ==
    /\ Upset
    /\ \/ \E u \in Urls : server' = u /\ UNCHANGED accepts
       \/ accepts' = ~accepts /\ UNCHANGED server
    /\ UNCHANGED <<page, statusFetches, action, refreshDue, doings>>

-----------------------------------------------------------------------------
Next == \/ \E f \in Fetches : \/ StatusPolls(f) \/ StatusRefreshes(f) \/ StatusServed(f)
                              \/ StatusBreaks(f) \/ StatusLands(f) \/ SaveToken(f)
        \/ (\E u \in Urls \cup {None} : TypeUrl(u)) \/ (\E u \in Urls : ResetUrl(u))
        \/ SetUrl \/ RestartKiosk
        \/ ActionServed \/ ActionBreaks \/ ActionLands \/ ServerChanges

StatusGoes(f) == StatusPolls(f) \/ StatusServed(f) \/ StatusLands(f)
Spec == Init /\ [][Next]_vars /\ \A f \in Fetches : WF_vars(StatusGoes(f))

-----------------------------------------------------------------------------
\* The page comes to show what the server does, or that the token is required,
\* and not that when it is accepted, whatever answers came late.
CaughtUp == IF accepts THEN status = server /\ ~authRequired ELSE authRequired
AdminCatchesUp == <>[]CaughtUp
=============================================================================
