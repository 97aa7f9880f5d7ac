# Screen machine: TLA+ models and proofs

The program drives the screens of a house. A Flask server (`src/app.py`, `src/routes/`)
runs one *scheduler loop* per screen ("destination"); the loop turns triggers of JSON
schedules (times, days, events) into instructions that generate, animate, publish and
show images. A React client (`src/src/`) is the other half: a home page on which images
are asked for, recent and stored images are arranged and sent to screens, a page that
controls the schedulers, and the page each screen shows. Around them stand an overlay
websocket server, an alert dispatcher, a watchdog on another machine and device drivers.

What can go wrong and is hard to test lies in two places. In the scheduler: event handling
by many threads, an instruction queue with preemption, waits, terminations that act by
throwing events, schedules that are loaded, unloaded, paused and resumed while the loop
runs, and state files that are behind memory. In the client: requests that overlap and are
answered in any order or not at all, timers that outlive what they were set for, lists that
are patched here and replaced there, and reloads in the middle of a protocol of several steps.

## 1. Inventory

| Component | Code | State | Operations | Met by | What makes it correct |
|---|---|---|---|---|---|
| Instruction queue | `routes/scheduler_queue.py` | a deque of instructions with `important`/`urgent` | `push_block`, `pop_next`, `peek_next_urgent`, `remove_non_important`, `clear` | the loop of the destination, stop and unload | blocks stay whole and in order; urgent first; important ones survive |
| Event store | `routes/scheduler_utils.py` 20-60, 524-1049 | `active_events`: per destination and key a deque of events with a start and an expiry; `_state_lock` | `throw_event`, `pop_next_event`, `check_all_expired_events`, `clear_events_for_destination` | request threads, workers, every loop | an event is handed out once, in order, or expires; none is lost or comes back |
| State files | `scheduler_utils.py` 1083-1475 | one JSON file per destination: state, stacks, events | `load_`, `save_`, `update_scheduler_state` | everyone | the file is behind memory, but only so far |
| Scheduler loop | `routes/scheduler.py` 1005-1400, `resolve_schedule`, `run_instruction` | the wait, `_event` of the context, the time of the last tick | a tick every 2 s, an instruction every 0.1 s | all of the above | waits hold, urgent events act at once, instructions find their event data, nothing starves |
| Control-flow instructions | `routes/scheduler_handlers.py` 513-698, 854-1075, 1556-1618 | (that of the loop) | `wait`, `unload`, `terminate` (normal, immediate, block), `throw_event` | the loop | each ends what it says and no more |
| Schedule lifecycle | `scheduler.py` 596-1003, 1402-1486; `scheduler_utils.py` 3116-3438; `scheduler_api.py` | stacks of schedules and contexts, `scheduler_states`, `running_schedulers`, an event loop thread per destination | start, stop, pause, unpause, load, unload, resume, restart | request threads against the loop | at most one loop, and a stop finds it |
| Prompt form | `components/prompt-form/`, `utils/photoCache.ts` | images with previews, a cached photo in two places, submissions under way | choose, photograph, remove, submit, reload | uploads and publications of the server | no shown image loses its preview; a photo is neither lost nor sent twice |
| Recent tab, generations | `components/recent/`, `hooks/image-generation/` | batches and their order, placeholders, calls under way | generate, answer, list, delete, render | window events between generator and tab | the two lists agree; placeholders belong to what is owed |
| Bucket grid | `components/image-display/BucketGridView.tsx` | the list of images, patched after each action | fetch, favourite, move, remove, drag | the bucket of the server | the patched list is the server's; ids are unique; the spinner is served |
| Schedulers page | `pages/scheduler.tsx`, `SchemaEditModal`, `SetVarsModal` | what was listed, the editor (form and text), the dialog | commands, save, refresh | the scheduler's API | the page is not hidden for good; form and text agree; what is shown is so |
| Events panel | `SchedulerEventsPanel.tsx`, `utils/api.ts` | two tables of all destinations, listings under way | poll, throw, delete | the event store | an event is listed once; a deletion takes what was picked |
| Screen page | `pages/DisplayPage/` | media and fade, phases of a video, overlays and their socket, mask and controls | poll, fade, play, message, touch | publisher, overlay server | the newest file is shown; what is shown for a while goes |
| Small parts of the pages | `pages/Index.tsx`, `LoopeModal`, `LightSense`, `AdminPanel`, `SchedulerCard`, ... | see section 2 | | their routes | see section 2 |
| Time triggers | `scheduler_utils.py` 1595-1790, 2163-2276 | record of the last executions, per trigger id | match of date, day of week, time and repeat | the loop | once per slot; none missed while the loop is up |
| Variables registry | `scheduler_utils.py` 99-377, 2278-2660 | a JSON file of exported and imported variables | register, set, remove, propagate | handlers, requests | imports follow exports; no lost update |
| Alert dispatcher | `utils/alerts/` | a bounded queue, one worker; per-key counters, retry queue, storm window | submit, process, retry, remind, roll up | every thread | an alert is sent, counted or reminded of |
| Dead man's switch | `media-server/remote-scripts/deadman.py` | misses, active issues and last mails, in a file | one run per timer tick | the health endpoint | an outage is announced once per interval, and so is its end |
| Overlay server | `overlay_ws_server.py`, `connection_registry.py` | sets of sockets, one audio producer per target | connect, first message, broadcast, close | browsers, sensors | at most one producer; dead sockets go |
| Bucketer, publisher | `routes/bucketer.py`, `publisher.py`, ... | image files and their metadata | append, favourite, move, purge, publish | requests, handlers | metadata and files agree |
| Generation, devices, assistants, light sensor, web server, kiosk scripts | `routes/generate*.py`, `samsung_utils.py`, `alexa.py`, `lightsensor.py`, `app.py`, `media-server/` | files and remote devices | input and output | | |

Interactions. On the server all shared state is module-level dictionaries. Flask handles each
request on a thread of its own; every destination has an event-loop thread on which its loop is
a coroutine; generation runs on workers. `_state_lock` (reentrant) is held by the functions
decorated with `thread_safe` and by nothing else: reads of the dictionaries, the clearing of
events and all of the queue are outside it. Handlers that want the loop to act at once throw
events under reserved keys (`__terminate__`, `__terminate_immediate__`, `__exit_block__`),
which the loop looks for at the end of each tick. The client is one thread: a handler, or a
render with its effects, is never interrupted, but every `await`, timer, frame, socket message
and window event is a point at which something else may come first.

The hazards, each at its line and with the properties that watch it, are in `PROJECT.json`.

## 2. Modules

| Module | What it is |
|---|---|
| `InstructionQueue` | the methods of the queue as operators on a sequence |
| `InstructionQueueSpec` | the queue as a state machine under every order of calls |
| `WriteBackSet` | abstract: a set in memory that is written back as a whole |
| `EventStore` | events of one destination, their expiry, the lock, the state file, crashes; implements `WriteBackSet` |
| `SchedulerLoop` | the loop of one destination with one schedule; uses `InstructionQueue` |
| `ScheduleLifecycle` | the schedules of one destination: requests, coroutines, `running_schedulers`, stacks, state file, restarts |
| `PromptForm` | the form, its previews, the photo cache, submissions, reloads |
| `RecentView` | the Recent tab and the generations that feed it |
| `BucketGrid` | one bucket: the server's list and the grid that patches its own |
| `SchedulerPage` | the schedulers page with editor and dialog, and the server's side of its commands |
| `EventsPanel` | the events panel and the server's side of its requests |
| `PageParts`, `MCPages` | sixteen small parts of the pages beside each other; in `MCPages` their fairness and liveness |
| `MC...` | instances for TLC |
| `...Proofs` | theorems on the module named, `SchedulerLoopProofs` on the queue too, `ClientProofs` on the events panel and the small parts |

Definitions are named after the function they model where it has a name; `PROJECT.json`
gives the lines of every one. Definitions whose comment says *Deviation* or *Mutant* are faulty
variants of the definition that follows them; they are not part of any specification and serve
to show that the properties notice such a fault.

### InstructionQueue, InstructionQueueSpec

An entry is an instruction with two flags; the queue never looks into the instruction, so
the state machine names it by its block, its place and the length of the block. `PushBlock`,
`RemoveNonImportant`, `PopUrgent` are `push_block`, `remove_non_important` and
`pop_next(urgent_only=True)`. `remove_non_important` is a list comprehension in the code; it
is written over positions (the *n*-th important position) because the provers cannot
reason by induction, and `RemoveNonImportantIsAFilter`, evaluated by TLC, compares it with
the community modules' meaning of the comprehension on every queue of up to five entries.
The history variable `done` counts what was popped of each block. The variables and actions of
`InstructionQueueSpec` (`held`, `QueuePush`, ...) are named apart from the loop's, so that one
module can reason about both.

### EventStore

Time is a counter of ticks, and a pop may carry an older time (`MaxLag`), as the loop passes
the time at which its tick began. Events are named by the order of throws, and a queue is
the set of its events: the code only appends to queues and removes from them, and the file
keeps their order. `thread_safe` functions are single steps, save for `pop_next_event`, which
is two, `PopScan` and `PopTake`: `clear_events_for_destination` takes no lock and can come in
between. The two passes of `_pop_event_from_queue` are `Ready` and `Overdue`/`AtExpiry`.

`disk` is the file of the destination. `Load` is `load_scheduler_state` in a live process
(the pause handler calls it to verify what it saved, the end of a loop to look at the state):
it replaces the queues of the keys in the file and keeps the others. `CrashAndRestart` is
the loss of memory and the load that follows. A save that fails, which the code swallows, is
a save that does not happen.

`throw_event` also appends to a history that only the user interface reads. It is left out
here (`EventsPanel` has it), as are payloads and names.

### SchedulerLoop

`pc` follows one iteration of the `while` of `run_scheduler_loop`:

    top -> scan (one step per trigger) -> push (one step per block) -> urgent -> exec -> top
    top -> exec                          (less than SCHEDULER_TICK_INTERVAL since the last tick)

Other threads throw events between any two steps. The three pops of `check_urgent_events`
are one step: the only thing that can come between them is a throw, an activation or an
expiry; one that concerns a key already looked at might as well come after the step, and
one that concerns a key still to come might as well come before it.

Time is abstract here: time triggers fire at any tick (`MaxFirings` of them), delayed events
become active and events expire at any moment, a wait is over at any look at it. `EventStore`
has the clock. `wait` says whether `wait_until` is in the context, and if so whether its time
has come; the code reads the time once per iteration, hence `WaitElapses` at `top`.

Instructions are *wait*, *unload*, *terminate* in its three modes and *other*. A terminate
whose test is false does nothing to the loop and is *other*; so is `throw_event`, whose event
is one of another thread as far as the loop can see. An instruction carries the event that
brought it (`owner`), which the code does not keep: it is what the properties compare
`_event` with.

`Run` has one disjunct per kind of instruction. The handlers' returned values are followed
to what the loop does with them: `EXIT_BLOCK` drops the non-important rest, `True` clears the
queue and ends the loop if the stack is empty, `False` goes on. `EndLoop` is the way out by
`unload` of the only schedule or by `stop_scheduler`.

Left out here: the stack of schedules (one schedule), pause, initial actions, exceptions of
instructions (they end as `False`, like *other*).

### ScheduleLifecycle

Request threads and coroutines work on one destination; what an instruction does to the loop
is `SchedulerLoop`'s, here only those matter that touch the stacks or the entry.

| Model | Code |
|---|---|
| `schedules`, `contexts`, `state` | the two stacks of `scheduler_schedule_stacks` and `scheduler_contexts_stacks`, and `scheduler_states`; a context goes by the schedule it was made for |
| `disk` | the file `save_scheduler_state` writes and `load_scheduler_state` reads back over memory |
| `entry` | the entry of `running_schedulers`: none, the placeholder of `start_scheduler`, or the future of a coroutine |
| `pc`, `inHand`, `after` | the statement a thread or coroutine is at, the schedule, context or coroutine it holds in a local variable, and where it goes on when the instruction it runs is over |
| `cancelled` | futures on which `cancel()` was called; the coroutine learns of it at its next await |
| `abandoned` | coroutines of an event loop that `stop_event_loop` stopped: they are never resumed, or lose their thread where they are |
| `BeginLoad` ... `CheckRunning` | `api_load_schedule`, `load_schedule_on_stack`, `push_schedule` |
| `StartCheck` ... `Register` | `start_scheduler`, statement by statement where another thread can come between |
| `PopSchedule` ... `StopSave` | `pop_schedule` and the stop of the scheduler on an empty stack; `stop_scheduler` |
| `RunScheduler` ... `FinallySave` | `run_scheduler`, the head and the foot of the iteration of `run_scheduler_loop`, its `finally` |
| `Restart` | the process dies between any two steps; `initialize_schedulers_from_disk` |

A coroutine that is over gives its name back, so few names stand for any number of starts.
Coroutines of one event loop take turns at their awaits (`HasTheThread`); one whose event
loop was stopped has a thread of its own beside that of the successor. A save is one step
with the statement it follows. `stop_scheduler` writes back the context stack it read at its
beginning; the model takes the current one, which differs only if a push or pop comes between.
A terminate in immediate mode of a schedule that may be unloaded unloads nothing by itself and
is an instruction like another; one of a protected schedule stops the scheduler.
`Init` is a destination with no schedule and no coroutine, `Restart` comes at any time.

Left out here: `api_set_scheduler_context`, the variables in contexts, more than one initial or
final action, a file that is missing or cannot be written, waits.

### PromptForm

A file is a model value that is given to the form once. A render, and the effects it starts, is
one step with the handler that caused it; every `await` is a boundary. `restore` is the load of
the cached photo after a reload, `attempts` the submissions with the place each is at: upload,
publication, clearing of the cache. The cache is the code's two places, `idb` for the database
and `session` for the flag, changed in two steps with a `Reload` possible in between. `live` is
the set of object URLs not yet revoked; the timer that revokes them carries the list its closure
saw (`timer`).

### RecentView

A generation puts placeholders into the tab by an event, calls the server, and its answer
replaces placeholders by images by another event; the tab hears events only while it is open.
An image is a number, larger the later it was made, as `created_at`. The batches and their
order are two states, as in the code. A batch's panel is a component defined within the render,
so a render mounts it anew (`Render`).

### BucketGrid

The server's list, the grid's, and the requests between: sent, served, answered, in any order,
or lost. Each action patches the grid's list when its answer comes and seldom asks again.
`PatchedListAgrees` therefore speaks of histories in which each request was answered before the
next was sent and nobody else changed the bucket (`clean`), and in which the server's list of
favourites names no file twice: the server appends a favourite without looking whether it
already is one, so a second click on a star before the first is answered lists the file twice,
and removing it once, or deleting the file, leaves the other (`bucket_api.py:311`). Lists are
filtered by position (`Kept`), not by `SelectSeq`, so that the provers can reason about them;
so are those of `RecentView`.

### SchedulerPage

One destination. A command is a request, its answer, and then a refresh of the whole page, of
several requests, during which cards, editor and dialog are unmounted. Two history variables
say what `PageAgrees` excepts: `missed`, a request that was lost or refused midway, and
`overlapped`, two commands or refreshes under way together.

### EventsPanel

A listing reads the destinations and then each one's events in turn, so it is no snapshot, and
several of them overlap and land in any order. An event is its place in the order of throws; a
group's event has a copy at each destination. `Orders` and `Copies` are the order in which the
server throws to a group's members, which is that of a set and therefore any.

### The small parts

`PageParts` composes them: one part, `side`, moves while the others stand still in an initial
state. `MCPages` adds the fairness each module states and what comes of it. `DisplayMedia` is
instantiated for a set of types and a set of checks, which the run takes twice.

| Part | Code | Property |
|---|---|---|
| `JobStatuses` | messages of generation jobs, their timers, the socket (`Index.tsx`) | `TimersAreCurrent` |
| `UrlRun` | the `run` parameter of the URL (`Index.tsx`) | `RunsOnce`, `PagesCatchUp` |
| `OptionsSync` | the copies of the options in page, form and sheet | `PagesCatchUp` |
| `LightSense` | curves of the light sensors | `PointsAreOwn` |
| `LoopeZoom` | gestures of the picture viewer | `ViewIsOwn` |
| `DisplayMedia` | poll of the published files, cross-fade; once with two types of file, once with two polls | `NeverGoesBack`, `PagesCatchUp` |
| `MediaPlayback` | phases of a video | `PagesCatchUp` |
| `DisplayOverlays` | overlays and their socket | `ThingsGoAway`, `PagesCatchUp` |
| `DisplayControls` | touch controls, brightness mask | `ThingsGoAway`, `PagesCatchUp` |
| `SchedulerTabs`, `SchedulerCard` | states on the tabs; a card's polls | `PagesCatchUp` |
| `VarsRegistry`, `AdminPanel`, `AdminLight`, `Recording` | cards and buttons that poll and post | `PagesCatchUp` |
| `Toasts` | the list of toasts | `ThingsGoAway` |

They share no state that the properties speak of; in one instance they are checked in a
run together and the product of their states is not built.

## 3. Runs

| Run | States | Shows |
|---|---|---|
| `queue` | 70 thousand | `NonImportantFirst`, `UrgentFirst`, `BlocksKeepTheirOrder`, `ImportantSurvives` |
| `event_store` | 176 thousand | `SavedIsKept`, `EndsOncePerLoad`, `GoneStaysGone`, `FirstComeFirstServed`, refinement of `WriteBackSet`, `Drained` |
| `loop` | 122 thousand | `EventDataIsThere`, `UrgentEventsActAtOnce`, `WaitHolds`, `ImportantLeaves`, `EventsAreHeard` |
| `lifecycle` | 473 thousand | `OneLoop`, `StopFindsTheLoop` |
| `lifecycle_live` | 894 thousand | `StopEndsAll` |
| `prompt_form` | 1.74 million | `FormHolds` (types, previews), `CacheFollowsSubmission` |
| `recent` | 337 thousand | `TabHolds`, `GenerationsAreAnswered` |
| `bucket` | 910 thousand | `GridHolds`, `PatchedListAgrees` |
| `scheduler_page` | 1.03 million | `PageHolds`, `PageAgrees` |
| `events_panel` | 932 thousand | `PanelHolds`, `PanelCatchesUp` |
| `pages` | 437 thousand | the properties of the small parts |
| `event_is_own` | | a counterexample, see below |

Bounds, and why they are enough.

- `queue`: four blocks of up to three instructions. The properties relate at most three
  blocks (one being run, one that preempts it, one important one at the end) and two
  neighbours in a block.
- `event_store`: three events over two keys give an older and a newer event of a key and one
  of another, with delays of 0 or 1 and a lifetime of 1, so that events are in each of
  the relations to a pop's time (not yet active, ready, in the instant of expiry, overdue);
  clock up to 2, an outdated time of up to one tick, one load or crash.
- `loop`: a time trigger and three event triggers: normal, important and urgent, whose blocks
  contain a wait, a terminate in block mode and one in normal mode, and an unload; final actions
  that wait; the `__terminate__` and `__terminate_immediate__` events from outside; two throws,
  which are enough for one event to meet what another left, and two firings.
- `lifecycle`: one thread of requests and three coroutines, of which one may go on, one be
  cancelled and one sit in an abandoned event loop; two schedules, one protected, which have
  triggers and neither unload nor terminate themselves; a load while one is on the stack adds
  another. The restriction is what the code needs and does not enforce. Beyond it TLC finds
  counterexamples:
  - two requests: both starts pass the check of `running_schedulers` before either makes its
    entry, and two coroutines go on;
  - a schedule that stops itself while the entry is still the placeholder: the stop finds no
    future to cancel, `start_scheduler` finds the entry gone and registers nothing, and the
    coroutine goes on without one, beside whichever the next start makes;
  - a schedule without triggers: its coroutine drops whatever entry is there when it ends, also
    that of a successor;
  - a schedule unloaded between `start_scheduler` and the first step of its coroutine comes
    back, with a context but not in the file, and `finally` reads the file over a start or a
    push that is under way. Stacks of equal height, and a file that agrees with memory once
    all is quiet, are therefore no invariants, and are not claimed.

  The hazards list these races at their lines.
- `lifecycle_live` has what `lifecycle` leaves out, a schedule without triggers that unloads
  itself: `StopEndsAll` holds in spite of the races, since it speaks of coroutines without
  an entry, too.
- `prompt_form`: two files, a URL, two images in the form, one submission and one reload: an
  older and a newer file for the timer that revokes previews, and a photo on either side of the
  reload. With one submission the cached photo meets every step of it.
- `recent`: two images at first in two batches, a third batch free, one image asked for at a
  time, two calls under way, one act of the user. Two calls suffice for one to overtake another.
- `bucket`: two images at first and a third that a generation adds, in two sections; two calls
  under way and two acts, so that an action meets a listing or another action.
- `scheduler_page`: two schedules, one protected, a stack of up to two, two requests under way,
  four acts: a load, an edit, a save and a command that overtakes them.
- `events_panel`: one destination, two events, two requests under way, one failure, two acts. A
  second destination multiplies the states by more than ten; that a listing reads several one after
  another is what the theorem `PanelIsSound` covers.
- `pages`: two of everything that can be mistaken for another (sensors, pictures, jobs, prompts,
  polls), three messages or four touches where a leftover of the first has to meet the third.
- Deadlock is not checked where the bound on throws, acts or versions, or the end of the loop,
  leaves nothing to do; the queue never stops.

Fairness. `EventStore`: time passes; a thread that holds the lock gives it back; the expiry
check is made again and again, every 30 s by every loop. With these, and nothing assumed of
pops, every event leaves (`Drained`). `SchedulerLoop`: a coroutine that is not suspended goes
on (weak fairness of its steps, a tick's steps taken together); it makes a tick whenever two
seconds have passed, however many iterations without one come between (strong fairness of
`StartTick`, which `SkipTick` disables again and again); every wait is finite and looked at in
every iteration (strong fairness of `WaitElapses`). Nothing is assumed of throws, firings,
activations and expiry. `ScheduleLifecycle`: the steps of a coroutine go on as long as its
event loop runs, for which `run_forever` of its thread stands; one in a stopped event loop is owed
nothing, and neither is a request. Restarts need no bound: `StopEndsAll` is about what follows
when the entry is gone for good. The client's modules: a request under way is answered or fails
(the browser's fetch does one or the other), an interval goes on polling as long as its page is
mounted, a timer that was set fires. Nothing is assumed of the user, of the server's changes, or
that a request succeeds; the number of failures is bounded, so "after the last failure" exists.

### A counterexample: where the code does other than the text says

`EventIsOwn`: `docs/scheduler_event_context.md` promises each instruction the data of its own
event. `_event` is one slot, overwritten by the next match. What does hold, and is proved, is
`EventDataIsThere`: there is always *some* event's data.

### Observations made while modelling

The model has these behaviours because the code does; no property denies them.

- A match removes an event whether it is `single_consumer` or not, though
  `docs/scheduler-events.md` ties the removal to `single_consumer=true`.
- A terminate in block mode also throws `__exit_block__`, and the next tick drops whatever other
  block was queued meanwhile.
- A trigger skipped in a wait is logged as to be checked again afterwards; its event was
  consumed by the match.
- `pop_schedule` restores the context below; at the end of the instruction that unloaded,
  `run_instruction` stores the popped context over it.
- A URL with `run` and parameters other than prompt and workflow does not run by itself: the
  objects the parameters are put in are new at each render, so the effect clears its own timer.
- Picking a workflow in the form resets the parameters in the form's copy, and the next
  effect takes the page's again: parameters of another workflow can be submitted.
- A finger of a pinch that is lifted counts as a tap, so a pinch can toggle the 1:1 view.
- Two files published within one second can leave a screen on the first of them.
- A chain of timers of a video that was replaced shows and hides the first frame of its successor.
- The form's effect that ends its loading state "when external loading completes" ends it at
  once, since nothing sets the external one: the form can be submitted again while the first
  submission is under way.
- Two clicks on a star before the first is answered list the file twice among the bucket's
  favourites, and one removal leaves the other.
- A scheduler's next action is written by two requests, so it comes and goes; it is shown again
  and again, not for good (`PagesCatchUp`).

## 4. Proofs

All are for every value of the constants: any sets of keys, delays, block lengths, files,
destinations, requests under way, any schedule, any bound. The assumptions are the named
`ASSUME`s of the modules, evaluated by TLC in the runs, or for the small parts, the assumption
their module names, which `PagePartsAssumption` has TLC evaluate. They give the types of the
constants and say that a value standing for "none" is not one of the things; for the loop, also
that the schedule has a trigger (one without is not run in the loop), that event triggers use
no reserved key, and that final actions contain no terminate; for the events panel, that a
destination is listed once.

- `SchedulerLoopProofs`, first half: the five properties of the `queue` run. `NonImportantFirst`,
  `UrgentFirst` and `BlocksKeepTheirOrder` are inductive only together: that
  `remove_non_important` cuts a front off the queue needs `NonImportantFirst`, that the cut
  falls between two blocks needs `BlocksKeepTheirOrder`, and that an urgent pop takes the
  head needs `UrgentFirst`. `BlocksAreFresh` adds that nothing of a block is queued or
  popped before it is pushed. The lemmas before say what the queue's operators return, among it
  that the kept entries are the important ones in order (`RemoveNonImportant` is defined by
  cardinalities, so this rests on the library's theorems on finite sets).
- `EventStoreProofs`: the safety properties of the `event_store` run and the refinement. The
  invariant joins the types, `SavedIsKept` and `EndsOncePerLoad` with what is known of a pop
  between its scan and its removal: it holds thrown events only (`HeldAreThrown`), none that
  ended since the last load even if cleared meanwhile (`ChosenAreFresh`), and no older event
  of its key that was active before and still is stands in the queue (`ChosenIsFirst`, which
  both passes of the scan must give). The refinement maps each step to one of `WriteBackSet` or
  a stutter; `CrashAndRestart` and `Load` are its `Restore`.
- `SchedulerLoopProofs`, second half: the types and the three safety properties of the `loop` run. The invariant adds
  that non-important entries stand first (`ImportantLast`), that urgent ones lead
  (`UrgentLead`), that trigger data exist only between scan and push (`MatchedDuringTick`) and
  hold no instruction of an urgent event (`MatchedArePlain`). The lemma `HeadIsTaken` says that
  the entry the loop takes, urgent or not, is the head of the queue, which is why the
  instruction of an urgent event is the next to run; `LoopRunsTheHead` states it of every
  step. `LoopCallsTheQueue` links the two halves: a step of the loop changes its queue by a
  push of a block, a pop, a clear, or by a pop and `remove_non_important` together, which are
  actions of `InstructionQueueSpec`. That specification numbers the instructions, which the
  code does not, and takes the two calls of the last kind in two steps; so it is shown to have
  every sequence of calls the loop makes, and not as a refinement mapping.
- `ScheduleLifecycleProofs`: `TypeCorrect` for any threads, coroutines and schedules, whatever
  they contain. A schedule pushed comes from a local variable, so the invariant says what every
  thread holds at every place (`Hands`, `Registering`) and when a request is inside an
  instruction (`Pushing`); `MovesTyped` says once what any single thread's step has to keep.
  `OneLoop` and `StopFindsTheLoop` are proved under `Gentle`, the restriction of the
  `lifecycle` run: one request at a time, triggers, no unload or terminate of its own. The
  invariant (`LoopInv`) is that a coroutine that goes on has the entry or is about to be
  registered (`Registered`), that the placeholder stands until then (`Announced`), and that
  a start past its check, and a stop past its cancellation, is alone (`Alone`). It needs
  neither the event loops nor the order of the coroutines' last steps.
- `PromptFormProofs`: `FormHolds` and `CacheFollowsSubmission`. For the first, the list a
  pending timer saw is always that of the files shown (`TimerSeesFiles`). For the second, the
  invariant follows the cached photo through a reload: while the flag is set it is not one that
  went through (`FlaggedIsUnsent`), a page that has not restored yet does not know it
  (`CachedIsUnknown`), so what is read (`ReadIsUnsent`) and restored (`RestoredIsUnsent`) was
  never sent; camera handlers come one at a time and flag their own photo (`OneHandler`,
  `FlagsOwnPhoto`), and a direct upload has published what is before its place
  (`PublishedSoFar`). `Without` is defined by cardinalities (`NthIsMember`, `WithoutIsASeq`) so
  that what filtering a list returns needs no induction.
- `SchedulerPageProofs`: `PageHolds` and `PageAgrees`. The invariant says what each command
  carries (`Carries`), that a dialog waits for a request that was not yet answered
  (`DialogWaits`), that the editor's form and text agree when no switch or timer is pending
  (`Parsed`), and, as long as no two commands overlapped (`InTurn`): one call at most is under
  way (`Alone`), what a refresh has read still is so (`Reads`), and the page is right when no
  refresh is to come (`Agrees`). `PageAgrees` is the last of these where nothing is under way;
  it is not inductive without the reads in between.
- `BucketGridProofs`: `GridHolds` and `PatchedListAgrees`. The grid lists each file once
  (`Distinct`) as the server's sequence does, which takes that the name a file on its way into
  the bucket will have is new and nobody else's (`NamesAreNew`); what a request's answer does
  fits what it asked (`Fits`). A spinner has its listing (`Served`). For the second property:
  a lone request's answer is of what the server still has (`AloneIsCurrent`), so the list
  agrees already (`Agrees`), will once the answer under way has patched it (`Awaited`,
  `Patched`), or will be listed again. Most of the proof is what a patch, by positions, does to
  a list that agreed.
- `RecentViewProofs`: `TabHolds` and `GenerationsAreAnswered`, over the largest invariant of
  the project, in three parts. `Pipeline`: ids are given out in order and never past what the
  generations begun can use (`Numbered`), a generation has
  made no more than it was asked for, and brings all of it (`CallFits`), and what the server
  has, or had when it was listed, are images made so far (`Settled`). `ListsOK`: an image
  stands once in the list; an image of "generate again" never has the id of a waiting
  placeholder, without which a listing could bring back a placeholder that was served; a
  closed tab has no placeholder left. `PanelsOK`: the image and index a panel shows are of its
  batch through every rendering. `PlaceholdersAreOwed` compares two cardinalities, and each step
  that takes placeholders away or adds them is counted on both sides: an answer takes from the
  batch as many placeholders as it brings images, or all there are, whichever generation they
  were made for.
- `ClientProofs`: the events panel, one safety property of each of five small parts, and the
  types of all sixteen.
  `PanelIsSound`: what a listing got belongs to destinations it has read and no event is in both
  of its tables (`Gets`), which a consumption between two reads would break but for the fact that
  both tables of a destination are read together and an event has one destination; a deletion
  under way is of an event whose row was deleted (`Asked`). `UrlRunsOnce`: a timer is pending
  only while the URL says `run`, and a submission of the URL's takes it out. `PointsAreKeptApart`:
  every curve stored, loaded, edited or being saved is its own sensor's. `JobTimersAreCurrent`:
  every timer pending is in the list that the next effect clears. `ZoomStartsAfresh`: with
  the types, the property is inductive; every way out of a zoom has to reset it.
  `ScreensNeverGoBack` is an action property, proved from the types of the checks
  (`NewestType`: the newest of the answers is a time). `PagesAreTyped`: the types of six
  parts are not inductive as they stand. A tab has been mounted anew no more often than
  actions came back (`FlagsCount`), the refreshes due and the action under way are among the
  user's doings (`RefreshesCount`), a socket has been opened again no more often than it dropped
  (`ScreenInv`), a fade has a next medium to fade to (`VideoInv`), the touch controls have
  opened no more often than they were touched (`ControlsInv`), and a new build is one of the
  things done from outside (`RecordInv`).

Only model-checked:

- all liveness properties (`Drained`, `ImportantLeaves`, `EventsAreHeard`, `StopEndsAll`,
  `PanelCatchesUp`, `PagesCatchUp`, `ThingsGoAway`): the prover has no rule for fairness or
  `ENABLED`;
- the agreement of `RemoveNonImportant` with the filter of the code: what a filter returns for
  every sequence needs induction over data with an operator as a parameter, which none of the
  provers can instantiate.

## 5. Not modelled, and why

- Time triggers: the loop takes the firing of a time trigger as a choice, which covers what can
  follow from it; the minute arithmetic is not checked. The variables registry of the server is
  one cell in `VarsRegistry`. The alert dispatcher and the dead man's switch read the
  scheduler's state and change none of it. The overlay server is modelled as its client sees
  it: messages arrive, connections break.
- Metadata of the bucketer, thumbnails, purging by age; generation on the server, which meets
  the rest only by events thrown and answers given at any time.
- Devices and assistants (input and output without protocol state), the light sensor
  (floating-point smoothing), kiosk scripts, the vendored television library, pages no route
  reaches.
- Within the modelled parts, what each module's component in `PROJECT.json` says is left out.

## 6. Running

    tlc -config MCSchedulerLoop.cfg MCSchedulerLoop
    tlapm SchedulerLoopProofs.tla
