----------------------------- MODULE BucketGrid -----------------------------
(***************************************************************************)
(* One bucket of the gallery: the list of images the server keeps for a    *)
(* destination, the grid that shows it (BucketGridView), the tab bar it    *)
(* can be dragged to (ImageDisplay) and the full-screen viewer opened over *)
(* it (LoopeModal).  The grid changes its own list when an answer comes    *)
(* and seldom asks the server again: what can go wrong is that the list    *)
(* the user acts on is no longer the list the server has.                  *)
(*                                                                         *)
(* A request is sent, then served, then answered; requests overtake each   *)
(* other in both steps, and an answer may be lost.  A file is a model      *)
(* value; a file on the disk and its entry in the sequence are one.        *)
(***************************************************************************)
EXTENDS Naturals, Sequences, FiniteSets, SequencesExt

CONSTANTS Files,     \* names of images
          Initial,   \* those in the bucket at first, as a sequence
          Labels,    \* the date sections
          LabelOf,   \* the date section of each image
          MaxCalls,  \* bound on requests under way when the user acts
          MaxActs,   \* bound on what the user and other clients do
          Nothing    \* no image

ASSUME BucketAssumption ==
    /\ Initial \in Seq(Files) /\ IsInjective(Initial)
    /\ LabelOf \in [Files -> Labels]
    /\ Nothing \notin Files
    /\ MaxCalls \in Nat /\ MaxActs \in Nat

VARIABLES
    bucket,     \* the server: the bucket's metadata file
    images,     \* bucketImages, the grid's list
    shown,      \* currentPublishedImage
    loading,    \* the grid shows a spinner
    loaded,     \* bucketDetails is there, and with it the header
    timer,      \* the refresh timer is running
    calls,      \* requests under way, oldest first
    deleting,   \* the section the confirmation dialog is about
    drag,       \* the image being dragged
    menu,       \* the image dropped on the tab of another bucket
    loope,      \* the viewer: its items and the current one
    clean,      \* history: nothing made the list and the bucket part, and
                \* no favourite was listed twice
    known,      \* history: names that were ever in use
    acts

gridVars == <<images, shown, loading, loaded, timer>>
uiVars   == <<deleting, drag, menu>>
vars     == <<bucket, images, shown, loading, loaded, timer, calls, deleting,
              drag, menu, loope, clean, known, acts>>

\* A favourite is also listed under its date, as a clone with the id "x#dup".
Ids    == [file : Files, dup : BOOLEAN]
Images == [file : Files, favorite : BOOLEAN]
Items  == [file : Files, dup : BOOLEAN, favorite : BOOLEAN]

Original(f)   == [file |-> f, dup |-> FALSE]
Position(s, f) == SelectInSeq(s, LAMBDA x : x.file = f)
IndexOf(s, f) == SelectInSeq(s, LAMBDA x : x = f)
FilesOf(s)    == {s[i].file : i \in DOMAIN s}
StarredIn(s)  == {s[i].file : i \in {j \in DOMAIN s : s[j].favorite}}

\* The members of a sequence that stand at the positions P, in their order;
\* written over positions, which the provers can work with.
Nth(P, n)  == CHOOSE i \in P : Cardinality({j \in P : j <= i}) = n
Kept(s, P) == [n \in 1..Cardinality(P) |-> s[Nth(P, n)]]

Without(s, f)     == Kept(s, {i \in DOMAIN s : s[i].file # f})
WithoutName(s, f) == Kept(s, {i \in DOMAIN s : s[i] # f})

-----------------------------------------------------------------------------
(* The server.                                                             *)

InBucket(b, f) == Contains(b.sequence, f)

\* A favourite added twice is listed twice, and removed once.
Favorited(b, f)   == [b EXCEPT !.favorites = Append(@, f)]
Unfavorited(b, f) == [b EXCEPT !.favorites = RemoveFirst(@, f)]
Deleted(b, f) == [b EXCEPT !.sequence  = WithoutName(@, f),
                           !.favorites = RemoveFirst(@, f)]

\* The place is counted in the list that still has the image at its old
\* place: an image moved towards the end lands one place too far.
MovedAfter(b, f, after) ==
    LET rest  == WithoutName(b.sequence, f)
        index == IF after = Nothing THEN 0
                 ELSE IndexOf(b.sequence, after)
        place == IF index > Len(rest) THEN Len(rest) ELSE index
    IN  [b EXCEPT !.sequence = InsertAt(rest, place + 1, f)]

Purged(b) == [b EXCEPT !.sequence =
    Kept(@, {i \in DOMAIN b.sequence : Contains(b.favorites, b.sequence[i])})]
Appended(b, f) == [b EXCEPT !.sequence = Append(@, f)]

\* The name "x#dup" is in no bucket; in the address of a DELETE the part
\* from "#" on is not sent.
Found(c) == InBucket(bucket, c.id.file) /\ (~c.id.dup \/ c.op = "delete")

Accepted(c) ==
    CASE c.op \in {"fetch", "unfavorite", "purge", "add"} -> TRUE
      [] c.op = "move" -> Found(c) /\ (c.arg = Nothing \/ InBucket(bucket, c.arg))
      [] OTHER -> Found(c)

Effect(c) ==
    LET f == c.id.file IN
    CASE c.op = "favorite"   -> Favorited(bucket, f)
      [] c.op = "unfavorite" -> IF c.id.dup THEN bucket
                                ELSE Unfavorited(bucket, f)
      [] c.op \in {"delete", "moveAway"} -> Deleted(bucket, f)
      [] c.op = "move"       -> MovedAfter(bucket, f, c.arg)
      [] c.op = "purge"      -> Purged(bucket)
      [] c.op = "add"        -> Appended(bucket, f)
      [] c.op = "publish"    -> [bucket EXCEPT !.published = f]
      [] OTHER -> bucket     \* fetch, and what concerns another bucket: copy

\* The request reaches the server or not, and the answer the client or not.
Serve(i) ==
    /\ calls[i].state = "sent"
    /\ \E reached, answered \in BOOLEAN :
          LET done == reached /\ Accepted(calls[i]) IN
          /\ bucket' = IF done THEN Effect(calls[i]) ELSE bucket
          /\ calls' = [calls EXCEPT ![i].state = "served",
                                    ![i].ok = done /\ answered,
                                    ![i].seen = IF calls[i].op = "fetch"
                                                THEN bucket ELSE @]
          /\ clean' = (clean /\ (answered \/ bucket' = bucket))
    /\ UNCHANGED <<gridVars, uiVars, loope, known, acts>>

-----------------------------------------------------------------------------
(* Requests.  "then" names the continuation; "mine" says that the grid (or *)
(* the list of the viewer) the request was sent from is still there;       *)
(* "alone" that no other request was under way at the same time.           *)

Empty == [sequence |-> <<>>, favorites |-> <<>>, published |-> Nothing]

Call(op, id, arg, then) ==
    [op |-> op, id |-> id, arg |-> arg, then |-> then, todo |-> <<>>,
     mine |-> TRUE, alone |-> TRUE, state |-> "sent", ok |-> FALSE,
     seen |-> Empty]

NoId  == [file |-> Nothing, dup |-> FALSE]
Fetch == Call("fetch", NoId, Nothing, "show")

Send(cs, c) ==
    IF cs = <<>> THEN <<c>>
    ELSE [i \in 1..Len(cs) + 1 |->
            [(IF i > Len(cs) THEN c ELSE cs[i]) EXCEPT !.alone = FALSE]]

StaysClean(cs) == clean /\ cs = <<>>

\* The user sends one request.
Ask(c) ==
    /\ Len(calls) < MaxCalls
    /\ calls' = Send(calls, c)
    /\ clean' = StaysClean(calls)

Act == acts < MaxActs /\ acts' = acts + 1

\* refreshBucket gives the grid a new key: it is mounted anew and loads.
Remounted(cs) ==
    /\ images' = <<>> /\ shown' = Nothing /\ timer' = FALSE
    /\ loading' = TRUE /\ loaded' = FALSE
    /\ calls' = Send([i \in DOMAIN cs |->
                        [cs[i] EXCEPT !.mine = @ /\ cs[i].then = "viewer"]],
                     Fetch)
    /\ deleting' = Nothing /\ drag' = Nothing
    /\ clean' = FALSE

Init ==
    /\ \E starred \in SUBSET (DOMAIN Initial) :
          bucket = [sequence  |-> Initial,
                    favorites |-> Kept(Initial, starred),
                    published |-> Nothing]
    /\ images = <<>> /\ shown = Nothing /\ timer = FALSE
    /\ loading = TRUE /\ loaded = FALSE
    /\ calls = <<Fetch>>
    /\ deleting = Nothing /\ drag = Nothing /\ menu = Nothing
    /\ loope = [open |-> FALSE, items |-> <<>>, at |-> 1, zoomed |-> FALSE]
    /\ clean = FALSE
    /\ known = {Initial[i] : i \in DOMAIN Initial}
    /\ acts = 0
-----------------------------------------------------------------------------
(* What the grid shows.                                                    *)

\* A refresh puts the favourites first and keeps the order otherwise.
Starred(s)   == Kept(s, {i \in DOMAIN s : s[i].favorite})
Unstarred(s) == Kept(s, {i \in DOMAIN s : ~s[i].favorite})
FavouritesFirst(s) == Starred(s) \o Unstarred(s)

Seen(b) == LET present == b.sequence IN
    FavouritesFirst([i \in DOMAIN present |->
        [file |-> present[i], favorite |-> Contains(b.favorites, present[i])]])

Favourites == Starred(images)
Dated(label) ==
    Kept(images, {i \in DOMAIN images : LabelOf[images[i].file] = label})

\* Mutant: the listing under the date keeps the id.
ItemOfBare(x, dated) == [file |-> x.file, dup |-> FALSE,
                         favorite |-> x.favorite]

ItemOf(x, dated) == [file |-> x.file, dup |-> dated /\ x.favorite,
                     favorite |-> x.favorite]
SectionItems(section) ==
    LET shownIn == IF section = "favourites" THEN Favourites ELSE Dated(section)
    IN  [i \in DOMAIN shownIn |-> ItemOf(shownIn[i], section # "favourites")]

Sections == {s \in Labels \cup {"favourites"} : SectionItems(s) # <<>>}
IdOf(item) == [file |-> item.file, dup |-> item.dup]
IdsIn(section) == {IdOf(item) : item \in Range(SectionItems(section))}

\* While it loads the grid is replaced by a spinner, below its header; the
\* viewer and the dialog cover both.
Header == loaded /\ ~loope.open /\ deleting = Nothing /\ drag = Nothing
Free == Header /\ ~loading
OnScreen(id) == Free /\ \E s \in Sections : id \in IdsIn(s)

\* findImageByAnyId: a clone stands for its original.
Held(id) == id.file \in FilesOf(images)
IsFavourite(id) == id.file \in StarredIn(images)

WithStar(s, f, star) ==
    [i \in DOMAIN s |-> IF s[i].file = f THEN [s[i] EXCEPT !.favorite = star]
                        ELSE s[i]]

-----------------------------------------------------------------------------
(* Loading the grid.                                                       *)

\* Mutant: the spinner is taken away where the list is shown, not "finally".
FetchAnsweredOrStays(i) ==
    LET c == calls[i] IN
    /\ c.state = "served" /\ c.op = "fetch"
    /\ calls' = RemoveAt(calls, i)
    /\ IF c.mine /\ c.ok
       THEN /\ loading' = FALSE /\ loaded' = TRUE
            /\ images' = Seen(c.seen) /\ shown' = shown
            /\ clean' = (c.alone /\ IsInjective(c.seen.favorites))
       ELSE UNCHANGED <<images, shown, loading, loaded, clean>>
    /\ UNCHANGED <<bucket, timer, uiVars, loope, known, acts>>

\* An answer replaces the list whatever happened since it was written.  What
\* was a favourite twice in it stays one when its star is taken away.
FetchAnswered(i) ==
    LET c == calls[i] IN
    /\ c.state = "served" /\ c.op = "fetch"
    /\ calls' = RemoveAt(calls, i)
    /\ IF c.mine
       THEN /\ loading' = FALSE
            /\ loaded' = (loaded \/ c.ok)
            /\ IF c.ok
               THEN /\ images' = Seen(c.seen)
                    /\ shown' = IF c.seen.published = Nothing THEN shown
                                ELSE c.seen.published
                    /\ clean' = (c.alone /\ IsInjective(c.seen.favorites))
               ELSE clean' = FALSE /\ UNCHANGED <<images, shown>>
       ELSE UNCHANGED <<images, shown, loading, loaded, clean>>
    /\ UNCHANGED <<bucket, timer, uiVars, loope, known, acts>>

\* The debounced refresh.
TimerFires ==
    /\ timer
    /\ timer' = FALSE /\ loading' = TRUE
    /\ calls' = Send(calls, Fetch)
    /\ clean' = StaysClean(calls)
    /\ UNCHANGED <<bucket, images, shown, loaded, uiVars, loope, known, acts>>

\* handleRefresh fetches and has the grid mounted anew, which fetches too.
Refresh ==
    /\ Act /\ Free
    /\ Remounted(Send(calls, [Fetch EXCEPT !.mine = FALSE]))
    /\ UNCHANGED <<bucket, menu, loope, known>>

-----------------------------------------------------------------------------
(* Stars and deletions.                                                    *)

\* The request says what the star is to be, from the list on the screen.
Toggle(f, then, target) ==
    [Call(IF f \in StarredIn(images) THEN "unfavorite" ELSE "favorite",
          Original(f), Nothing, then) EXCEPT !.todo = target]

\* The cards of the favourites' own section have no star to click.
ToggleFavorite(id) ==
    /\ Act /\ Free /\ \E s \in Labels : id \in IdsIn(s)
    /\ Ask(Toggle(id.file, "star", <<>>))
    /\ UNCHANGED <<bucket, gridVars, uiVars, loope, known>>

\* The handler swallows an error, so that its caller goes on in any case.
ToggleAnswered(i) ==
    LET c == calls[i]  rest == RemoveAt(calls, i) IN
    /\ c.state = "served" /\ c.op \in {"favorite", "unfavorite"}
    /\ c.then # "viewer"
    /\ images' = IF c.ok /\ c.mine
                 THEN WithStar(images, c.id.file, c.op = "favorite")
                 ELSE images
    /\ IF c.then = "place"
       THEN /\ calls' = Send(rest, [Call("move", c.id, c.todo[1], "splice")
                                      EXCEPT !.mine = c.mine])
            /\ clean' = StaysClean(rest)
       ELSE calls' = rest /\ UNCHANGED clean
    /\ UNCHANGED <<bucket, shown, loading, loaded, timer, uiVars, loope, known,
                   acts>>

DeleteImage(id) ==
    /\ Act /\ OnScreen(id)
    /\ Ask(Call("delete", Original(id.file), Nothing, "remove"))
    /\ UNCHANGED <<bucket, gridVars, uiVars, loope, known>>

\* Mutant: the image leaves the list although the request failed.
DeleteAnsweredAnyway(i) ==
    LET c == calls[i] IN
    /\ c.state = "served" /\ c.op = "delete" /\ c.then = "remove"
    /\ calls' = RemoveAt(calls, i)
    /\ images' = IF c.mine THEN Without(images, c.id.file) ELSE images
    /\ UNCHANGED <<bucket, shown, loading, loaded, timer, uiVars, loope, clean,
                   known, acts>>

DeleteAnswered(i) ==
    LET c == calls[i] IN
    /\ c.state = "served" /\ c.op = "delete" /\ c.then = "remove"
    /\ calls' = RemoveAt(calls, i)
    /\ images' = IF c.ok /\ c.mine THEN Without(images, c.id.file) ELSE images
    /\ UNCHANGED <<bucket, shown, loading, loaded, timer, uiVars, loope, clean,
                   known, acts>>

\* "Delete all [except favorites]", in the menu of a date section.
Doomed(section) ==
    LET rest == Unstarred(SectionItems(section))
    IN  [i \in DOMAIN rest |-> rest[i].file]

DeleteSection(section) ==
    /\ Act /\ Free /\ section \in Sections \cap Labels
    /\ Doomed(section) # <<>>
    /\ deleting' = section
    /\ UNCHANGED <<bucket, gridVars, calls, drag, menu, loope, clean, known>>

CancelDelete ==
    /\ deleting # Nothing /\ deleting' = Nothing
    /\ UNCHANGED <<bucket, gridVars, calls, drag, menu, loope, clean, known,
                   acts>>

\* The images are those of the section at the moment of the confirmation;
\* they are deleted one after the other.
ConfirmDelete ==
    /\ deleting # Nothing /\ deleting' = Nothing
    /\ LET todo == IF deleting \in Sections THEN Doomed(deleting) ELSE <<>> IN
       IF todo # <<>>
       THEN Ask([Call("delete", Original(todo[1]), Nothing, "next")
                   EXCEPT !.todo = Tail(todo)])
       ELSE IF deleting \in Sections
       THEN Ask(Fetch)
       ELSE UNCHANGED <<calls, clean>>
    /\ loading' = (loading \/ (deleting \in Sections
                               /\ Doomed(deleting) = <<>>))
    /\ UNCHANGED <<bucket, images, shown, loaded, timer, drag, menu, loope,
                   known, acts>>

DeleteNext(i) ==
    LET c == calls[i]  rest == RemoveAt(calls, i) IN
    /\ c.state = "served" /\ c.op = "delete" /\ c.then = "next"
    /\ calls' = Send(rest,
         IF c.todo # <<>>
         THEN [Call("delete", Original(c.todo[1]), Nothing, "next")
                 EXCEPT !.todo = Tail(c.todo), !.mine = c.mine]
         ELSE [Fetch EXCEPT !.mine = c.mine])
    /\ loading' = (loading \/ (c.todo = <<>> /\ c.mine))
    /\ clean' = FALSE
    /\ UNCHANGED <<bucket, images, shown, loaded, timer, uiVars, loope, known,
                   acts>>

-----------------------------------------------------------------------------
(* Buttons of the header and of the cards.                                 *)

\* Publish, from a card or by a drop on the published image.
Publish(f, here) ==
    Ask(Call(IF here THEN "publish" ELSE "copy", Original(f), Nothing, "fetch"))

CardPublish(id, here) ==
    /\ Act /\ OnScreen(id) /\ Publish(id.file, here)
    /\ UNCHANGED <<bucket, gridVars, uiVars, loope, known>>

CardCopy(id) ==
    /\ Act /\ OnScreen(id)
    /\ Ask(Call("copy", Original(id.file), Nothing, "reload"))
    /\ UNCHANGED <<bucket, gridVars, uiVars, loope, known>>

Purge ==
    /\ Act /\ Header
    /\ Ask(Call("purge", NoId, Nothing, "reload"))
    /\ UNCHANGED <<bucket, gridVars, uiVars, loope, known>>

\* An upload, or "Generate again": a new image.
Add(f, then) ==
    /\ Act /\ Header /\ f \in Files \ known /\ known' = known \cup {f}
    /\ Ask(Call("add", Original(f), Nothing, then))
    /\ UNCHANGED <<bucket, gridVars, uiVars, loope>>
Upload(f)        == Add(f, "fetchIfOk")
GenerateAgain(f) == Add(f, "remount")

\* A schedule, another page.
OtherAdds(f) ==
    /\ Act /\ f \in Files \ known /\ known' = known \cup {f}
    /\ bucket' = Appended(bucket, f) /\ clean' = FALSE
    /\ calls' = [i \in DOMAIN calls |-> [calls[i] EXCEPT !.alone = FALSE]]
    /\ UNCHANGED <<gridVars, uiVars, loope>>

\* What is done with the answers of these requests.  A failed publication
\* is an answer like another: an object, which the grid takes for success.
ThenReload(i) ==
    LET c == calls[i] IN
    /\ c.state = "served" /\ c.then = "reload"
    /\ calls' = RemoveAt(calls, i)
    /\ timer' = (timer \/ (c.ok /\ c.mine))
    /\ UNCHANGED <<bucket, images, shown, loading, loaded, uiVars, loope, clean,
                   known, acts>>

ThenFetch(i) ==
    LET c == calls[i]  rest == RemoveAt(calls, i) IN
    /\ c.state = "served"
    /\ c.then \in {"fetch", "fetchIfOk"}
    /\ IF c.then = "fetch" \/ c.ok
       THEN /\ calls' = Send(rest, [Fetch EXCEPT !.mine = c.mine])
            /\ loading' = (loading \/ c.mine)
            /\ clean' = FALSE
       ELSE calls' = rest /\ UNCHANGED <<loading, clean>>
    /\ UNCHANGED <<bucket, images, shown, loaded, timer, uiVars, loope, known,
                   acts>>

ThenRemount(i) ==
    LET c == calls[i]  rest == RemoveAt(calls, i) IN
    /\ c.state = "served" /\ c.then \in {"remount", "remountAnyway"}
    /\ IF c.then = "remountAnyway" \/ c.ok
       THEN Remounted(rest)
       ELSE calls' = rest
            /\ UNCHANGED <<gridVars, deleting, drag, clean>>
    /\ UNCHANGED <<bucket, menu, loope, known, acts>>

\* Copies and publications the user only gets a message about.
ThenNothing(i) ==
    /\ calls[i].state = "served" /\ calls[i].then = "message"
    /\ calls' = RemoveAt(calls, i)
    /\ UNCHANGED <<bucket, gridVars, uiVars, loope, clean, known, acts>>

-----------------------------------------------------------------------------
(* Dragging.  What a drop does depends on the list at the time of the drop.*)

DragStart(id) ==
    /\ acts < MaxActs /\ OnScreen(id) /\ drag' = id
    /\ UNCHANGED <<bucket, gridVars, calls, deleting, menu, loope, clean,
                   known, acts>>

Dropped  == drag # Nothing /\ drag' = Nothing /\ Act
OverGrid == Dropped /\ ~loading

\* Outside of every zone, on the prompt, or of an image no longer listed.
DropNowhere ==
    /\ drag # Nothing /\ drag' = Nothing
    /\ UNCHANGED <<bucket, gridVars, calls, deleting, menu, loope, clean,
                   known, acts>>

DropOnPublished ==
    /\ Dropped /\ shown # Nothing /\ Held(drag) /\ Publish(drag.file, TRUE)
    /\ UNCHANGED <<bucket, gridVars, deleting, menu, loope, known>>

\* The zones of the sections are not named as the drop handler expects: they
\* pass for an image that is not there, on which a favourite loses its star.
DropOnSection(section) ==
    /\ OverGrid /\ section \in Sections /\ IsFavourite(drag)
    /\ Ask(Toggle(drag.file, "star", <<>>))
    /\ UNCHANGED <<bucket, gridVars, deleting, menu, loope, known>>

DropOutOfFavourites(over) ==
    /\ OverGrid /\ IsFavourite(drag) /\ Held(over) /\ ~IsFavourite(over)
    /\ Ask(Toggle(drag.file, "star", <<>>))
    /\ UNCHANGED <<bucket, gridVars, deleting, menu, loope, known>>

DropIntoFavourites(over) ==
    /\ OverGrid /\ Held(drag) /\ ~IsFavourite(drag) /\ IsFavourite(over)
    /\ Ask(Toggle(drag.file, "place", <<over.file>>))
    /\ UNCHANGED <<bucket, gridVars, deleting, menu, loope, known>>

\* Clones are not found by their id, and count as place 0.
PlaceOf(s, id) == IF id.dup THEN 0 ELSE Position(s, id.file)
Sorted == FavouritesFirst(images)

Reordered(id, over) ==
    LET at     == PlaceOf(images, id)
        rest   == RemoveAt(images, at)
        target == PlaceOf(rest, over)
        after  == PlaceOf(Sorted, id) < PlaceOf(Sorted, over)
    IN  IF at = 0 \/ target = 0 THEN images
        ELSE InsertAt(rest, IF after THEN target + 1 ELSE target, images[at])

AfterWhich(id, over) ==
    LET target == Position(Sorted, over.file) IN
    IF PlaceOf(Sorted, over) > PlaceOf(Sorted, id) THEN over.file
    ELSE IF target = 1 THEN Nothing ELSE Sorted[target - 1].file

DropAmongFavourites(over) ==
    /\ OverGrid /\ IsFavourite(drag) /\ IsFavourite(over) /\ over # drag
    /\ images' = Reordered(drag, over)
    /\ Ask(Call("move", Original(drag.file), AfterWhich(drag, over), "reorder"))
    /\ UNCHANGED <<bucket, shown, loading, loaded, timer, deleting, menu, loope,
                   known>>

\* The new favourite goes behind the target, whose place is taken before it
\* is removed, and whether the server moved it or not.
Spliced(f, after) ==
    LET rest  == Without(images, f)
        place == Position(images, after)
    IN  InsertAt(rest, IF place > Len(rest) THEN place ELSE place + 1,
                 images[Position(images, f)])

MoveAnswered(i) ==
    LET c == calls[i]  rest == RemoveAt(calls, i) IN
    /\ c.state = "served" /\ c.op = "move"
    /\ images' = IF /\ c.then = "splice" /\ c.mine
                    /\ {c.id.file, c.arg} \subseteq FilesOf(images)
                 THEN Spliced(c.id.file, c.arg) ELSE images
    /\ IF c.then = "reorder" /\ ~c.ok
       THEN /\ calls' = Send(rest, [Fetch EXCEPT !.mine = c.mine])
            /\ loading' = (loading \/ c.mine)
            /\ clean' = FALSE
       ELSE calls' = rest /\ UNCHANGED <<loading, clean>>
    /\ UNCHANGED <<bucket, shown, loaded, timer, uiVars, loope, known, acts>>

\* The tab bar takes the id as it is, also that of a clone.
DropOnOwnTab ==
    /\ Dropped
    /\ Ask(Call("publish", drag, Nothing, "remountAnyway"))
    /\ UNCHANGED <<bucket, gridVars, deleting, menu, loope, known>>

DropOnOtherTab ==
    /\ drag # Nothing /\ drag' = Nothing /\ menu' = drag
    /\ UNCHANGED <<bucket, gridVars, calls, deleting, loope, clean, known, acts>>

\* Its menu: copy, publish, move to the other bucket.
MenuAction(op) ==
    /\ menu # Nothing /\ menu' = Nothing /\ Act
    /\ Ask(Call(op, menu, Nothing,
                IF op = "moveAway" THEN "remount" ELSE "message"))
    /\ UNCHANGED <<bucket, gridVars, deleting, drag, loope, known>>

CloseMenu ==
    /\ menu # Nothing /\ menu' = Nothing
    /\ UNCHANGED <<bucket, gridVars, calls, deleting, drag, loope, clean, known,
                   acts>>

-----------------------------------------------------------------------------
(* The viewer shows the items of one section as they were when it opened.  *)

Open(section, at) ==
    /\ Free /\ menu = Nothing /\ acts < MaxActs
    /\ section \in Sections /\ at \in DOMAIN SectionItems(section)
    /\ loope' = [open |-> TRUE, items |-> SectionItems(section), at |-> at,
                 zoomed |-> FALSE]
    /\ UNCHANGED <<bucket, gridVars, calls, uiVars, clean, known, acts>>

Closed == [open |-> FALSE, items |-> <<>>, at |-> 1, zoomed |-> FALSE]

\* The list of the viewer is gone, and with it what its answers would mark.
WithoutViewer(cs) ==
    [i \in DOMAIN cs |-> [cs[i] EXCEPT !.mine = @ /\ cs[i].then # "viewer"]]

Close ==
    /\ loope.open /\ ~loope.zoomed /\ loope' = Closed
    /\ calls' = WithoutViewer(calls)
    /\ UNCHANGED <<bucket, gridVars, uiVars, clean, known, acts>>

\* Mutant: it does not.
TurnOnly(step) ==
    /\ loope.open /\ ~loope.zoomed
    /\ loope' = [loope EXCEPT !.at = @ + step]
    /\ UNCHANGED <<bucket, gridVars, calls, uiVars, clean, known, acts>>

\* The carousel turns round.
Turn(step) ==
    /\ loope.open /\ ~loope.zoomed
    /\ loope' = [loope EXCEPT !.at = ((@ - 1 + step) % Len(loope.items)) + 1]
    /\ UNCHANGED <<bucket, gridVars, calls, uiVars, clean, known, acts>>

\* A double click, a pinch or the wheel; while it is zoomed the image covers
\* the buttons and the keys only leave the zoom.
ZoomIn ==
    /\ loope.open /\ ~loope.zoomed
    /\ loope' = [loope EXCEPT !.zoomed = TRUE]
    /\ UNCHANGED <<bucket, gridVars, calls, uiVars, clean, known, acts>>

ZoomOut ==
    /\ loope.open /\ loope.zoomed
    /\ loope' = [loope EXCEPT !.zoomed = FALSE]
    /\ UNCHANGED <<bucket, gridVars, calls, uiVars, clean, known, acts>>

Current == loope.items[loope.at]

\* Nothing the viewer does is told to the grid.
ViewerAsks(op, then) ==
    /\ loope.open /\ ~loope.zoomed /\ Act
    /\ Len(calls) < MaxCalls
    /\ calls' = Send(calls, [Call(op, IdOf(Current), Nothing, then)
                               EXCEPT !.todo = <<loope.at>>])
    /\ clean' = FALSE
    /\ UNCHANGED <<bucket, gridVars, uiVars, loope, known>>

ViewerToggle  == ViewerAsks(IF Current.favorite THEN "unfavorite"
                            ELSE "favorite", "viewer")
ViewerDelete  == ViewerAsks("delete", "close")
ViewerMove    == ViewerAsks("moveAway", "close")
ViewerCopy    == ViewerAsks("copy", "message")
ViewerPublish == ViewerAsks("publish", "message")

ViewerToggled(i) ==
    LET c == calls[i] IN
    /\ c.state = "served" /\ c.then = "viewer"
    /\ calls' = RemoveAt(calls, i)
    /\ loope' = IF c.ok /\ c.mine
                THEN [loope EXCEPT !.items[c.todo[1]].favorite =
                                      (c.op = "favorite")]
                ELSE loope
    /\ UNCHANGED <<bucket, gridVars, uiVars, clean, known, acts>>

\* The answer closes the viewer, also one opened since.
ViewerCloses(i) ==
    LET c == calls[i]  rest == RemoveAt(calls, i) IN
    /\ c.state = "served" /\ c.then = "close"
    /\ calls' = IF c.ok THEN WithoutViewer(rest) ELSE rest
    /\ loope' = IF c.ok THEN Closed ELSE loope
    /\ UNCHANGED <<bucket, gridVars, uiVars, clean, known, acts>>

-----------------------------------------------------------------------------
OnCard(id) ==
    \/ ToggleFavorite(id) \/ DeleteImage(id) \/ CardCopy(id) \/ DragStart(id)
    \/ \E here \in BOOLEAN : CardPublish(id, here)

Drop(over) ==
    \/ DropOutOfFavourites(over) \/ DropIntoFavourites(over)
    \/ DropAmongFavourites(over)

InViewer ==
    \/ Close \/ ZoomIn \/ ZoomOut \/ Turn(1) \/ Turn(Len(loope.items) - 1)
    \/ ViewerToggle \/ ViewerDelete \/ ViewerMove \/ ViewerCopy \/ ViewerPublish
    \/ \E s \in Labels \cup {"favourites"} :
          \E at \in 1..Len(SectionItems(s)) : Open(s, at)

Answered(i) ==
    \/ FetchAnswered(i) \/ ToggleAnswered(i) \/ DeleteAnswered(i)
    \/ DeleteNext(i) \/ MoveAnswered(i) \/ ThenReload(i) \/ ThenFetch(i)
    \/ ThenRemount(i) \/ ThenNothing(i) \/ ViewerToggled(i) \/ ViewerCloses(i)

Next ==
    \/ \E i \in DOMAIN calls : Serve(i) \/ Answered(i)
    \/ TimerFires \/ Refresh \/ CancelDelete \/ ConfirmDelete \/ Purge
    \/ \E id \in Ids : OnCard(id) \/ Drop(id)
    \/ \E s \in Labels : DeleteSection(s)
    \/ \E f \in Files : Upload(f) \/ GenerateAgain(f) \/ OtherAdds(f)
    \/ \E s \in Labels \cup {"favourites"} : DropOnSection(s)
    \/ DropNowhere \/ DropOnPublished
    \/ DropOnOwnTab \/ DropOnOtherTab \/ CloseMenu
    \/ \E op \in {"copy", "moveAway"} : MenuAction(op)
    \/ InViewer

Spec == Init /\ [][Next]_vars

-----------------------------------------------------------------------------
(* Properties.                                                             *)

Ops   == {"fetch", "favorite", "unfavorite", "delete", "move", "moveAway",
          "purge", "add", "publish", "copy"}
Thens == {"show", "star", "place", "remove", "next", "splice",
          "reorder", "fetch", "fetchIfOk", "reload", "remount",
          "remountAnyway", "message", "viewer", "close"}

Buckets == [sequence : Seq(Files), favorites : Seq(Files),
            published : Files \cup {Nothing}]
Calls == [op : Ops, id : Ids \cup {NoId}, arg : Files \cup {Nothing},
          then : Thens, todo : Seq(Files) \cup Seq(Nat),
          mine : BOOLEAN, alone : BOOLEAN, state : {"sent", "served"},
          ok : BOOLEAN, seen : Buckets]

\* Every variable is of its type; the viewer is open on an item.
TypeOK ==
    /\ bucket \in Buckets /\ images \in Seq(Images)
    /\ shown \in Files \cup {Nothing}
    /\ loading \in BOOLEAN /\ loaded \in BOOLEAN
    /\ timer \in BOOLEAN /\ calls \in Seq(Calls)
    /\ deleting \in Labels \cup {Nothing}
    /\ drag \in Ids \cup {Nothing} /\ menu \in Ids \cup {Nothing}
    /\ loope \in [open : BOOLEAN, items : Seq(Items), at : Nat \ {0},
                  zoomed : BOOLEAN]
    /\ loope.open => loope.at \in DOMAIN loope.items
    /\ clean \in BOOLEAN /\ known \subseteq Files /\ acts \in 0..MaxActs

\* No two cards of the page have the same id, whatever lists were loaded,
\* spliced and reordered: the drag library needs it, and a drop finds its
\* image by it ("requires every draggable item id to be unique").
DraggableIdsAreUnique ==
    \A s \in Labels \cup {"favourites"} :
        /\ Cardinality(IdsIn(s)) = Len(SectionItems(s))
        /\ \A r \in (Labels \cup {"favourites"}) \ {s} : IdsIn(s) \cap IdsIn(r) = {}

\* The spinner goes: while the grid shows it, a request is under way whose
\* answer, good or bad, takes it away.
SpinnerIsServed ==
    loading => \E i \in DOMAIN calls :
                   calls[i].op = "fetch" /\ calls[i].mine

\* The grid patches its list instead of loading it again.  As long as each
\* request was answered before the next was sent, nobody else changed the
\* bucket, and it lists no favourite twice, the list has the files of the
\* bucket and their stars.  (A favourite listed twice when its file was
\* deleted stays behind once.)
PatchedListAgrees ==
    clean /\ calls = <<>> /\ ~timer =>
        /\ FilesOf(images) = Range(bucket.sequence)
        /\ StarredIn(images) = Range(bucket.favorites) \cap Range(bucket.sequence)

\* The grid's state: its types, no two cards with the same id, and no spinner
\* that stays.
GridHolds == TypeOK /\ DraggableIdsAreUnique /\ SpinnerIsServed
=============================================================================
