----------------------------- MODULE RecentView -----------------------------
(***************************************************************************)
(* The Recent tab and the generations that feed it.  A generation puts     *)
(* placeholders into the tab by an event, calls the server, and its answer *)
(* replaces placeholders by images, by another event; the tab lists the    *)
(* bucket "_recent" only when it is opened and when a deletion failed.     *)
(* Events reach the tab only while it is open.                             *)
(*                                                                         *)
(* An image, or a placeholder, is a number: the later it was made the      *)
(* larger, as its created_at.  A batch is a model value.  Generations,     *)
(* deletions and listings are answered in any order, or fail.              *)
(***************************************************************************)
EXTENDS Naturals, Sequences, FiniteSets, FiniteSetsExt, SequencesExt

CONSTANTS Batches,   \* batch identifiers
          Initial,   \* the batch of each image in the bucket at first, a sequence
          MaxAsked,  \* bound on the images asked for by a generation
          MaxCalls,  \* bound on generations
          MaxActs    \* bound on what the user does in the tab

ASSUME RecentAssumption ==
    /\ Initial \in Seq(Batches)
    /\ MaxAsked \in Nat \ {0} /\ MaxCalls \in Nat /\ MaxActs \in Nat

VARIABLES
    store,      \* the server: the images of the bucket
    last,       \* the image or placeholder made last
    old,        \* what was made up to this one is more than 10 minutes old
    calls,      \* generations, in the order of their start
    generated,  \* generatedImages: what the page knows of its generations
    waiting,    \* localStorage: the placeholders of generations under way
    picks,      \* localStorage: the image picked in each batch, for the tab
    stored,     \* localStorage: the same, for the panel
    open,       \* the tab is mounted
    view,       \* loading and error
    images,     \* bucketImages
    order,      \* batchOrder
    shown,      \* the batches of batchGroups
    collapsed,  \* collapsedPanels, as localStorage keeps them too
    forced,     \* selectedImageByBatch
    tracked,    \* placeholders that are to expire
    panel,      \* the state of each batch's panel
    listings,   \* listings of the bucket under way
    deletions,  \* deletions under way
    acts

server   == <<store, last>>
pipeline == <<calls, generated, waiting>>
storage  == <<picks, stored>>
requests == <<listings, deletions>>
lists    == <<images, order, shown, collapsed>>
tab      == <<open, view, lists, forced, tracked, panel>>
vars     == <<store, last, old, calls, generated, waiting, picks, stored, open,
              view, images, order, shown, collapsed, forced, tracked, panel,
              listings, deletions, acts>>

-----------------------------------------------------------------------------
(* Images, and the groups the tab shows.                                   *)

None == 0
MaxId == Len(Initial) + 2 * MaxAsked * MaxCalls
Ids  == 1..MaxId

\* The n-th smallest number of a set, and the members of a sequence that stand
\* at the positions P, in their order: written by counting, which the provers
\* can work with.
Nth(P, n)  == CHOOSE i \in P : Cardinality({j \in P : j <= i}) = n
Kept(s, P) == [n \in 1..Cardinality(P) |-> s[Nth(P, n)]]

\* "wait": a placeholder of a submitted prompt; "again": of Generate Again.
Kinds  == {"image", "wait", "again"}
Images == [id : Ids, batch : Batches, kind : Kinds]
Make(ids, b, kind) == [i \in 1..Cardinality(ids) |->
    [id |-> Nth(ids, i), batch |-> b, kind |-> kind]]

IsPlaceholder(x) == x.kind # "image"
BatchesOf(s)  == {s[i].batch : i \in DOMAIN s}
IdsOf(s)      == {s[i].id : i \in DOMAIN s}
IdsIn(s, b)   == {s[i].id : i \in {j \in DOMAIN s : s[j].batch = b}}
Image(s, id)  == CHOOSE x \in ToSet(s) : x.id = id
Group(s, b)   == [n \in 1..Cardinality(IdsIn(s, b)) |-> Nth(IdsIn(s, b), n)]
Without(s, S) == Kept(s, {i \in DOMAIN s : s[i].id \notin S})

\* Groups are sorted by their first image, the newest first.
NewestFirst(s) ==
    LET heads == {Min(IdsIn(s, b)) : b \in BatchesOf(s)}
        n     == Cardinality(heads)
    IN  [i \in 1..n |-> Image(s, Nth(heads, n + 1 - i)).batch]

\* Batches in the order keep their place, the others come first.
OrderFor(s, ord) ==
    LET newest == NewestFirst(s) IN
    Kept(newest, {i \in DOMAIN newest : newest[i] \notin ToSet(ord)})
        \o Kept(ord, {i \in DOMAIN ord : ord[i] \in BatchesOf(s)})

\* Mutant: the batch also stays where it was.
ToTopTwice(ord, b) == <<b>> \o ord
NotIn(ord, b) == Kept(ord, {i \in DOMAIN ord : ord[i] # b})
ToTop(ord, b) == <<b>> \o NotIn(ord, b)

\* The effect on the images: with no order yet, all panels are shut.
Regroup(s, ord, shut) ==
    /\ images' = s
    /\ order' = OrderFor(s, ord)
    /\ shown' = OrderFor(s, ord)
    /\ collapsed' = IF ord = <<>> /\ s # <<>>
                    THEN [b \in Batches |-> IF b \in BatchesOf(s) THEN "shut"
                                            ELSE "unset"]
                    ELSE shut

-----------------------------------------------------------------------------
(* The panels.  The component that wraps a panel is made anew by every     *)
(* rendering of the tab, so each rendering of the tab mounts every panel   *)
(* again; only what changes in a panel alone leaves it mounted.            *)

NoPanel == [sel |-> None, at |-> 0, shut |-> FALSE]
Ready   == open /\ ~view.loading /\ ~view.error

IndexOf(s, x) == SelectInSeq(s, LAMBDA y : y = x)

\* Mutant: what was picked is not looked up.
PreferredFirst(b) ==
    LET ids == IdsIn(images, b) IN IF forced[b] \in ids THEN forced[b] ELSE Min(ids)

\* The image the tab forces, else the one picked last here, else the first.
Preferred(b) ==
    LET ids == IdsIn(images, b) IN
    IF forced[b] \in ids THEN forced[b]
    ELSE IF stored[b] \in ids THEN stored[b] ELSE Min(ids)

Mounted(b) ==
    IF Ready /\ b \in ToSet(shown)
    THEN [sel  |-> Preferred(b), at |-> IndexOf(Group(images, b), Preferred(b)),
          shut |-> collapsed[b] = "shut"]
    ELSE NoPanel

\* Rendering the tab: "kept" is what the panels have stored so far.
Render(kept) ==
    LET Before == [b \in Batches |->
                     IF /\ Ready' /\ b \in ToSet(shown')
                        /\ forced'[b] \notin IdsIn(images', b)
                        /\ kept[b] \notin IdsIn(images', b)
                     THEN Min(IdsIn(images', b)) ELSE kept[b]]
    IN  /\ stored' = Before
        /\ panel' = [b \in Batches |-> Mounted(b)']

\* The image a panel shows.
Displayed(b) ==
    LET group == Group(images, b) IN
    CASE panel[b].sel \in ToSet(group)   -> panel[b].sel
      [] panel[b].sel \notin ToSet(group) /\ panel[b].at \in DOMAIN group
                                          -> group[panel[b].at]
      [] OTHER -> group[1]

-----------------------------------------------------------------------------
(* Opening and leaving the tab.                                            *)

NoBatch == [b \in Batches |-> None]
Listing(sel) == [sel |-> sel, seen |-> <<>>, answered |-> FALSE]

Init ==
    /\ store = [i \in DOMAIN Initial |->
                  [id |-> i, batch |-> Initial[i], kind |-> "image"]]
    /\ last = Len(Initial) /\ old = Len(Initial)
    /\ calls = <<>> /\ generated = {} /\ waiting = {}
    /\ picks = NoBatch /\ stored = NoBatch
    /\ open = TRUE /\ view = [loading |-> TRUE, error |-> FALSE]
    /\ images = <<>> /\ order = <<>> /\ shown = <<>>
    /\ collapsed = [b \in Batches |-> "unset"]
    /\ forced = NoBatch /\ tracked = {}
    /\ panel = [b \in Batches |-> NoPanel]
    /\ listings = <<Listing(NoBatch)>> /\ deletions = <<>> /\ acts = 0

\* The user acts in the tab.
Acts == acts < MaxActs /\ acts' = acts + 1

\* The saved order is read and, as the first grouping has no image and
\* no order, emptied at once; the saved collapse state is kept.
Mount ==
    /\ ~open
    /\ open' = TRUE
    /\ view' = [loading |-> TRUE, error |-> FALSE]
    /\ images' = <<>> /\ order' = <<>> /\ shown' = <<>>
    /\ forced' = picks /\ tracked' = {}
    /\ waiting' = {w \in waiting : w.id > old}
    /\ listings' = Append(listings, Listing(NoBatch))
    /\ UNCHANGED <<server, old, calls, generated, picks, stored, collapsed,
                   panel, deletions, acts>>

\* What was asked for goes on, but nobody is there for the answers.
Unmount ==
    /\ open /\ Acts
    /\ open' = FALSE
    /\ view' = [loading |-> FALSE, error |-> FALSE]
    /\ images' = <<>> /\ order' = <<>> /\ shown' = <<>>
    /\ forced' = NoBatch /\ tracked' = {}
    /\ panel' = [b \in Batches |-> NoPanel]
    /\ listings' = <<>>
    /\ deletions' = [i \in DOMAIN deletions |->
                       [deletions[i] EXCEPT !.mine = FALSE]]
    /\ UNCHANGED <<server, old, pipeline, storage, collapsed>>

\* More than the 5 minutes of a tracked placeholder and the 10 minutes of
\* one in localStorage.  Bound: once, and after a generation failed.
TimePasses ==
    /\ old = Len(Initial)
    /\ \E i \in DOMAIN calls : calls[i].state = "failed"
    /\ \E id \in tracked \cup {w.id : w \in waiting} : id > old
    /\ old' = last
    /\ UNCHANGED <<server, pipeline, storage, tab, requests, acts>>

-----------------------------------------------------------------------------
(* Listings.                                                               *)

ListAnswered(i) ==
    /\ ~listings[i].answered
    /\ listings' = [listings EXCEPT ![i].seen = store, ![i].answered = TRUE]
    /\ UNCHANGED <<server, old, pipeline, storage, tab, deletions, acts>>

\* Of the placeholders only those are kept that have the name of one of
\* Generate Again and are among those of submitted prompts: none.
Survivors == Kept(images, {i \in DOMAIN images :
    images[i].kind = "again" /\ \E w \in waiting : w.id = images[i].id})

\* The forced selections are those of the time of the request, for the
\* batches that are listed, when that makes their number another.
Picked(f)  == {b \in Batches : f[b] # None}
ListLands(i) ==
    LET seen == listings[i].seen
        kept == [b \in Batches |-> IF b \in BatchesOf(seen)
                                   THEN listings[i].sel[b] ELSE None]
    IN  /\ listings[i].answered
        /\ Regroup(Survivors \o seen, order, collapsed)
        /\ forced' = IF Cardinality(Picked(kept)) # Cardinality(Picked(listings[i].sel))
                     THEN kept ELSE forced
        /\ view' = [view EXCEPT !.loading = FALSE]
        /\ listings' = RemoveAt(listings, i)
        /\ UNCHANGED open /\ Render(stored)
        /\ UNCHANGED <<server, old, pipeline, picks, tracked, deletions, acts>>

ListFails(i) ==
    /\ view' = [loading |-> FALSE, error |-> TRUE]
    /\ listings' = RemoveAt(listings, i)
    /\ UNCHANGED <<open, lists, forced>> /\ Render(stored)
    /\ UNCHANGED <<server, old, pipeline, picks, tracked, deletions, acts>>

-----------------------------------------------------------------------------
(* Generations.                                                            *)

Call(b, kind, asked) == [batch |-> b, kind |-> kind, asked |-> asked, made |-> {},
                         came |-> 0, state |-> "asked"]

\* Placeholders that are more than 5 minutes old go when another is tracked.
Track(ids, s, ord, shut) ==
    LET all     == tracked \cup ids
        expired == {id \in all : id <= old}
    IN  /\ Regroup(Without(s, expired), ord, shut)
        /\ tracked' = all \ expired

\* The event recent:batch-placeholders.
BatchPlaceholders(ids, b) ==
    IF open
    THEN Track(ids, Make(ids, b, "wait") \o images, ToTop(order, b),
               [collapsed EXCEPT ![b] = "shut"])
    ELSE UNCHANGED <<lists, tracked>>

\* In localStorage they expire with those of the tab.
StillWaiting == IF open THEN {w \in waiting : w.id \notin tracked \/ w.id > old}
                ELSE waiting

\* A prompt is submitted: placeholders, and their event.
Submit(b, n) ==
    LET ids == last + 1..last + n IN
        /\ Len(calls) < MaxCalls
        /\ b \notin BatchesOf(store) \cup BatchesOf(images) \cup BatchesOf(calls)
        /\ last' = last + n
        /\ calls' = Append(calls, Call(b, "wait", n))
        /\ generated' = generated
             \cup {[id |-> id, batch |-> b, status |-> "generating"] : id \in ids}
        /\ BatchPlaceholders(ids, b)
        /\ waiting' = StillWaiting \cup {[id |-> id, batch |-> b] : id \in ids}
        /\ UNCHANGED <<open, view, forced>> /\ Render(stored)
        /\ UNCHANGED <<store, old, picks, requests, acts>>

\* The server has made images: all that were asked for, or fewer.
ServerMakes(i, k) ==
    LET ids == last + 1..last + k IN
    /\ calls[i].state = "asked"
    /\ k <= calls[i].asked
    /\ last' = last + k
    /\ store' = store \o Make(ids, calls[i].batch, "image")
    /\ calls' = [calls EXCEPT ![i].made = ids, ![i].state = "made"]
    /\ UNCHANGED <<old, generated, waiting, storage, tab, requests, acts>>

\* Mutant: only the placeholders of submitted prompts are found.
ArrivedForPrompt(s, b, new) ==
    LET places == {i \in DOMAIN s : s[i].batch = b /\ s[i].kind = "wait"}
        taken  == {s[Nth(places, n)].id : n \in 1..Min({Cardinality(places), Len(new)})}
        rest   == Without(s, taken)
    IN  rest \o Without(new, IdsOf(rest))

\* One placeholder of the batch goes for each image.
Arrived(s, b, new) ==
    LET places == {i \in DOMAIN s : s[i].batch = b /\ IsPlaceholder(s[i])}
        taken  == {s[Nth(places, n)].id : n \in 1..Min({Cardinality(places), Len(new)})}
        rest   == Without(s, taken)
    IN  rest \o Without(new, IdsOf(rest))

\* Mutant: an answer without images is taken for one that is still to come.
ResultsPatient(b, k) ==
    LET mine == {g \in generated : g.batch = b /\ g.status = "generating"} IN
    IF k = 0 THEN generated
    ELSE (generated \ mine) \cup {[g EXCEPT !.status = "completed"] : g \in mine}

\* markBatchAsError
MarkedAsError(S) == {[g EXCEPT !.status = "error"] : g \in S}

\* The images of the batch in generatedImages once the answer is there: the
\* placeholders are filled in turn, those left over go.
Results(b, k) ==
    LET mine == {g \in generated : g.batch = b /\ g.status = "generating"}
        hit  == {g \in mine : Cardinality({h \in mine : h.id < g.id}) < k}
    IN  (generated \ mine)
          \cup IF k = 0 THEN MarkedAsError(mine)
               ELSE {[g EXCEPT !.status = "completed"] : g \in hit}

\* The event recent:add opens the panel of the batch; after a prompt
\* recent:generation-complete shuts the others.
OpenedFor(c) == [b \in Batches |->
    CASE b = c.batch -> "open"
      [] b # c.batch /\ c.kind = "wait" /\ collapsed[b] # "unset" -> "shut"
      [] OTHER -> collapsed[b]]

\* The images the answer brings, as the event recent:add names them.
Announced(c) == Make(c.made, c.batch, "image")

Answer(i) ==
    LET c   == calls[i]
        new == Announced(c)
    IN  /\ c.state = "made"
        /\ calls' = [calls EXCEPT ![i].state = "done",
                                  ![i].came = Cardinality(c.made)]
        /\ IF open /\ c.made # {}
           THEN /\ Regroup(Arrived(images, c.batch, new),
                           ToTop(order, c.batch), OpenedFor(c))
                /\ forced' = [forced EXCEPT ![c.batch] = new[1].id]
           ELSE UNCHANGED <<lists, forced>>
        /\ generated' = IF c.kind = "wait" THEN Results(c.batch, Cardinality(c.made))
                        ELSE generated
        /\ waiting' = IF c.kind = "wait"
                      THEN {w \in waiting : w.batch # c.batch} ELSE waiting
        /\ UNCHANGED <<open, view>> /\ Render(stored)
        /\ UNCHANGED <<server, old, picks, tracked, requests, acts>>

\* The call fails, or its answer is lost after the images were made.  The
\* placeholders in the tab and in localStorage stay.
AnswerFails(i) ==
    LET c == calls[i] IN
    /\ c.state \in {"asked", "made"}
    /\ calls' = [calls EXCEPT ![i].state = "failed"]
    /\ generated' = IF c.kind = "wait" THEN Results(c.batch, 0) ELSE generated
    /\ UNCHANGED <<server, old, waiting, storage, tab, requests, acts>>

GenerateAgain(b) ==
    LET id == last + 1 IN
    /\ Ready /\ b \in ToSet(shown)
    /\ Len(calls) < MaxCalls
    /\ last' = id
    /\ calls' = Append(calls, Call(b, "again", 1))
    /\ Track({id}, Make({id}, b, "again") \o images, order, collapsed)
    /\ waiting' = StillWaiting
    /\ UNCHANGED <<open, view, forced>> /\ Render(stored)
    /\ UNCHANGED <<store, old, generated, picks, requests, acts>>

-----------------------------------------------------------------------------
(* Deletions.  "mine": the tab the user deleted from is still there;       *)
(* "alone": the batch then had no other image.                             *)

Delete(ids, b, whole, alone) ==
    deletions' = Append(deletions,
        [todo |-> ids, all |-> ids, batch |-> b, whole |-> whole, alone |-> alone,
         sel |-> forced, mine |-> TRUE, failed |-> FALSE])

\* Mutant: the index may run out of the list.
IndexAfterBare(at, n) == IF at >= n THEN n - 1 ELSE at
IndexAfter(at, n) == IF at >= n THEN Max({1, n - 1}) ELSE at

\* From the thumbnail's menu the panel also moves its index.
DeleteImage(b, id, thumbnail) ==
    LET x     == Image(images, id)
        group == Group(images, b)
    IN  /\ Ready /\ b \in ToSet(shown) /\ id \in IdsIn(images, b) /\ Acts
        /\ ~panel[b].shut
        /\ IF thumbnail THEN ~IsPlaceholder(x) ELSE id = Displayed(b)
        /\ Delete({id}, b, FALSE, ~IsPlaceholder(x) /\ Len(group) <= 1)
        /\ panel' = IF thumbnail /\ id = Displayed(b)
                    THEN [panel EXCEPT ![b].at = IndexAfter(@, Len(group))]
                    ELSE panel
        /\ UNCHANGED <<server, old, pipeline, storage, open, view, lists, forced,
                       tracked, listings>>

DeleteBatch(b) ==
    /\ Ready /\ b \in ToSet(shown) /\ Acts
    /\ Delete(IdsIn(images, b), b, TRUE, TRUE)
    /\ UNCHANGED <<server, old, pipeline, storage, tab, listings>>

\* The server deletes an image of a request; one it has not makes it fail.
ServerDeletes(i, id) ==
    /\ id \in deletions[i].todo
    /\ store' = Without(store, {id})
    /\ deletions' = [deletions EXCEPT ![i].todo = @ \ {id},
                       ![i].failed = @ \/ id \notin IdsOf(store)]
    /\ UNCHANGED <<last, old, pipeline, storage, tab, listings, acts>>

ServerRefuses(i, id) ==
    /\ id \in deletions[i].todo
    /\ deletions' = [deletions EXCEPT ![i].todo = @ \ {id}, ![i].failed = TRUE]
    /\ UNCHANGED <<server, old, pipeline, storage, tab, listings, acts>>

\* What nobody waits for any more ends by itself.
DeleteEnds(i) ==
    /\ deletions[i].todo = {} /\ ~deletions[i].mine
    /\ deletions' = RemoveAt(deletions, i)
    /\ UNCHANGED <<server, old, pipeline, storage, tab, listings, acts>>

\* With a batch go all the images it has by now.
Left(d) == Kept(images, {i \in DOMAIN images :
    IF d.whole THEN images[i].batch # d.batch \/ IsPlaceholder(images[i])
               ELSE images[i].id \notin d.all})

DeleteDone(i) ==
    LET d == deletions[i] IN
    /\ d.todo = {} /\ d.mine /\ ~d.failed
    /\ Regroup(Left(d),
               IF d.alone THEN NotIn(order, d.batch) ELSE order, collapsed)
    /\ deletions' = RemoveAt(deletions, i)
    /\ UNCHANGED <<open, view, forced>> /\ Render(stored)
    /\ UNCHANGED <<server, old, pipeline, picks, tracked, listings, acts>>

\* The first failure ends the wait, whatever is still under way, and the
\* bucket is listed again.
DeleteFails(i) ==
    LET d == deletions[i] IN
    /\ d.mine /\ d.failed
    /\ deletions' = [deletions EXCEPT ![i].mine = FALSE]
    /\ listings' = Append(listings, Listing(d.sel))
    /\ view' = [loading |-> TRUE, error |-> FALSE]
    /\ UNCHANGED <<open, lists, forced>> /\ Render(stored)
    /\ UNCHANGED <<server, old, pipeline, picks, tracked, acts>>

-----------------------------------------------------------------------------
(* Panels.                                                                 *)

Toggle(b) ==
    LET shut == ~panel[b].shut IN
    /\ Ready /\ b \in ToSet(shown) /\ Acts
    /\ collapsed' = [collapsed EXCEPT ![b] = IF shut THEN "shut" ELSE "open"]
    /\ UNCHANGED <<open, view, images, order, shown, forced>> /\ Render(stored)
    /\ UNCHANGED <<server, old, pipeline, picks, tracked, requests>>

Chosen(b, id) == [panel[b] EXCEPT !.sel = id, !.at = IndexOf(Group(images, b), id)]

\* A thumbnail is clicked.  In a shut panel that opens it: the tab hears of
\* it, is rendered, and makes the panel anew, unless the image was selected.
Pick(b, id) ==
    LET was == panel[b] IN
        /\ Ready /\ b \in ToSet(shown) /\ id \in IdsIn(images, b) /\ Acts
        /\ was.shut \/ ~IsPlaceholder(Image(images, id))
        /\ CASE id = was.sel ->
                  /\ panel' = [panel EXCEPT ![b].shut = FALSE]
                  /\ UNCHANGED <<storage, open, view, images, shown, collapsed,
                                 forced>>
             [] id # was.sel /\ ~was.shut ->
                  /\ panel' = [panel EXCEPT ![b] = Chosen(b, id)]
                  /\ picks' = [picks EXCEPT ![b] = id]
                  /\ stored' = [stored EXCEPT ![b] = id]
                  /\ UNCHANGED <<open, view, images, shown, collapsed, forced>>
             [] id # was.sel /\ was.shut ->
                  /\ collapsed' = [collapsed EXCEPT ![b] = "open"]
                  /\ picks' = [picks EXCEPT ![b] = id]
                  /\ UNCHANGED <<open, view, images, shown, forced>>
                  /\ Render([stored EXCEPT ![b] = id])
        /\ UNCHANGED <<server, old, pipeline, order, tracked, requests>>

\* The arrows, and swipes: by the index.
Step(b, at) ==
    LET id == Group(images, b)[at] IN
    /\ Ready /\ b \in ToSet(shown) /\ ~panel[b].shut /\ Acts
    /\ at \in DOMAIN Group(images, b)
    /\ at = panel[b].at + 1 \/ at = panel[b].at - 1
    /\ panel' = [panel EXCEPT ![b] = Chosen(b, id)]
    /\ picks' = [picks EXCEPT ![b] = id]
    /\ stored' = [stored EXCEPT ![b] = id]
    /\ UNCHANGED <<server, old, pipeline, open, view, lists, forced, tracked,
                   requests>>

\* A panel is dragged to the place of another.
Moved(s, i, j) == InsertAt(RemoveAt(s, i), j, s[i])
DragPanel(i, j) ==
    /\ Ready /\ Acts
    /\ {i, j} \subseteq DOMAIN shown /\ i # j
    /\ shown[i] \in ToSet(order) /\ shown[j] \in ToSet(order)
    /\ order' = Moved(order, IndexOf(order, shown[i]), IndexOf(order, shown[j]))
    /\ shown' = Moved(shown, i, j)
    /\ UNCHANGED <<open, view, images, collapsed, forced>> /\ Render(stored)
    /\ UNCHANGED <<server, old, pipeline, picks, tracked, requests>>

\* An image is dragged, or the viewer opened over the tab or closed: both
\* render the tab.
Rerender ==
    /\ Ready
    /\ UNCHANGED <<open, view, lists, forced>> /\ Render(stored)
    /\ UNCHANGED <<server, old, pipeline, picks, tracked, requests, acts>>

-----------------------------------------------------------------------------
UserActs ==
    \/ Mount \/ Unmount
    \/ \E b \in Batches : GenerateAgain(b) \/ DeleteBatch(b) \/ Toggle(b)
    \/ \E b \in Batches, n \in 1..MaxAsked : Submit(b, n)
    \/ \E b \in Batches, id \in IdsOf(images) :
          Pick(b, id) \/ \E t \in BOOLEAN : DeleteImage(b, id, t)
    \/ \E b \in Batches, at \in DOMAIN images : Step(b, at)
    \/ \E i, j \in DOMAIN shown : DragPanel(i, j)
    \/ Rerender

Others ==
    \/ TimePasses
    \/ \E i \in DOMAIN listings : ListAnswered(i) \/ ListLands(i) \/ ListFails(i)
    \/ \E i \in DOMAIN calls :
          Answer(i) \/ AnswerFails(i) \/ \E k \in 0..MaxAsked : ServerMakes(i, k)
    \/ \E i \in DOMAIN deletions :
          \/ DeleteEnds(i) \/ DeleteDone(i) \/ DeleteFails(i)
          \/ \E id \in deletions[i].todo : ServerDeletes(i, id) \/ ServerRefuses(i, id)

Next == UserActs \/ Others
Spec == Init /\ [][Next]_vars

-----------------------------------------------------------------------------
(* Properties.                                                             *)

\* Every variable has its type, and a panel's index is one of its images.
TypeOK ==
    /\ store \in Seq(Images) /\ images \in Seq(Images)
    /\ last \in Ids \cup {0} /\ old \in 0..last
    /\ order \in Seq(Batches) /\ shown \in Seq(Batches)
    /\ collapsed \in [Batches -> {"open", "shut", "unset"}]
    /\ open \in BOOLEAN /\ view \in [loading : BOOLEAN, error : BOOLEAN]
    /\ {picks, stored, forced} \subseteq [Batches -> Ids \cup {None}]
    /\ tracked \subseteq Ids
    /\ generated \subseteq [id : Ids, batch : Batches,
                            status : {"generating", "completed", "error"}]
    /\ waiting \subseteq [id : Ids, batch : Batches]
    /\ panel \in [Batches -> [sel : Ids \cup {None}, at : Nat, shut : BOOLEAN]]
    /\ Ready => \A b \in ToSet(shown) : panel[b].at \in DOMAIN Group(images, b)

\* RecentView keeps the order of the batches twice, as the saved order and
\* as the list it shows, and four events and three answers change one, the
\* other or both: they always list the same batches in the same order, each
\* once and each with at least one image.
OrderIsShown ==
    /\ order = shown
    /\ IsInjective(order)
    /\ ToSet(order) = BatchesOf(images)

\* There are never more placeholders of a batch in the tab than images that
\* its generations still owe: a placeholder goes with its image, whichever
\* of two generations of the batch is answered first.
PlaceholdersOf(b) ==
    {i \in DOMAIN images : images[i].batch = b /\ IsPlaceholder(images[i])}
OwedTo(b) ==
    {owed \in (DOMAIN calls) \X (1..MaxAsked) :
        /\ calls[owed[1]].batch = b
        /\ calls[owed[1]].came + owed[2] <= calls[owed[1]].asked}
PlaceholdersAreOwed ==
    \A b \in Batches : Cardinality(PlaceholdersOf(b)) <= Cardinality(OwedTo(b))

\* An image the page holds for "generating" is one of a generation that was
\* not answered, and a placeholder in localStorage one of a generation that
\* was not answered or that failed.
GeneratingIsServed ==
    /\ \A g \in generated : g.status = "generating" =>
          \E i \in DOMAIN calls : /\ calls[i].batch = g.batch
                                  /\ calls[i].kind = "wait"
                                  /\ calls[i].state \in {"asked", "made"}
    /\ \A w \in waiting : \E i \in DOMAIN calls :
          /\ calls[i].batch = w.batch /\ calls[i].kind = "wait"
          /\ calls[i].state # "done"

\* Every rendering of the tab makes the panels anew; where the tab forces no
\* selection the image picked last in a panel is the one it shows, whatever
\* arrived, went or was rendered since.
PickIsKept == Ready => \A b \in ToSet(shown) :
    (forced[b] \notin IdsIn(images, b) /\ stored[b] \in IdsIn(images, b))
        => Displayed(b) = stored[b]

\* The tab's state: its types, its two lists of the batches the same, and the
\* image picked in a batch still the one shown.
TabHolds == TypeOK /\ OrderIsShown /\ PickIsKept

\* Placeholders, and what the page holds for generating, belong to generations
\* that still owe something.
GenerationsAreAnswered == PlaceholdersAreOwed /\ GeneratingIsServed
=============================================================================
