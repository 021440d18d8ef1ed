# Motion in TLA+

Motion is a desktop shell for Wayland: bars, notifications, lock screen, idle handling, widgets and plugins in one
process. This directory models the parts of it whose correctness depends on the order of events, checks the models
with TLC and proves the main results with TLAPS.

`PROJECT.json` is the index: components, runs, mutants, the source lines each definition models (`map`), findings,
hazards and theorems. `tlc -config X.cfg M` runs a configuration, `tlapm M.tla` a proof module.

## 1. The system

One main thread runs everything the user sees. `MainLoop::run()` (src/app/main_loop.cpp) repeats: run the deferred
closures, collect the fds and timeouts of some thirty poll sources, `poll()`, dispatch Wayland events, dispatch the
sources that are ready, draw. Handlers run to completion; they never block except in a PAM or script shutdown path.
So most races are not between threads but between *events*: what a handler starts (a timer, a request to the
compositor, a D-Bus call, a thread) is answered by a later handler, and anything may have happened in between.
Worker threads (PAM, scripts, DDC, decoding) give results back only through `DeferredCall::callLater()`.

| component | state | operations | talks to | what is hard | correct when |
|---|---|---|---|---|---|
| Main loop, `app/main_loop.cpp` | phase, source list, deadlines | one iteration | everything, as poll sources | sources freed between `poll()` and dispatch; deadlines that slide with the clock; a signal handled on another thread | no closure or wakeup lost, no sleep past a request, no source starved |
| Deferred calls, `core/deferred_call.cpp` | queue, wake pipe | `callLater`, `takePending` | any thread to the main loop | two locks, so the loop runs between push and wake; two places take the queue | closures run once, in order, promptly |
| Timers, `core/timer_manager.cpp` | table, ids in flight, cancel marks | `start`, `stop`, move, destroy, `tick` | callbacks re-enter the manager | a callback cancels, restarts or moves timers of the batch that is running, itself included | a stopped timer never rings, a due one does |
| Session lock, `shell/lockscreen/` | lock object, surfaces, waiting suspend, authentication generation | lock, unlock, suspend-after-lock, hot-plug, PAM and fingerprint results | compositor, logind, PAM threads, session actions | both directions of the Wayland socket are in flight; results of an earlier lock arrive during the next | only a valid ground ends a lock; no request to lock is lost; every output is covered; suspend happens, and after the lock |
| Idle behaviors, `idle/` | phase per behavior, fade list, generation, inhibit count | idled, resumed, fade, inhibit, reload | compositor, screensaver D-Bus service, overlay, lock | one fade for several behaviors; notifications that fire once; inhibits and reloads in the middle | return is always noticed, an action runs only after its fade, dimming ends |
| Notification store, `notification/` | displayed, history, deferred closes, suppressed ids, file | Notify, close, invoke, remove, clear, save, load | D-Bus clients, toasts, history tab, bar | who tells the client, and when, that a notification is over; eviction; filters asked twice; crash | every id is closed once, history is saved, a saved id is not used again |
| Notification toasts, `shell/notification/` | popups with one placement for all outputs, cards per output, hover, queue of closures | add, replace, remove, hover, collapse, reveal, rebuild | store (stops and resumes its expiry), pointer | placement, hover and expiry are three things that every path out of a popup has to bring into step | popups never overlap, wait only for room, stay under the pointer; the expiry runs exactly while a popup can be seen and is not hovered |
| Script runtimes, `scripting/script_runtime.cpp` | event queue, generation, update flags, health, machine | enqueue, drain, reload, settings, stop | worker pool, main loop, state store, commands | a worker in the machine while the main thread reloads or blocks in `stop()`; answers to what an older machine asked; coalescing | one worker at a time, nothing left behind, no effect of an old script, stop and reload take place |
| Calendar, `calendar/` | accounts still to answer, chain per account, snapshot, cache file, connect flow | refresh, reload, connect, poll, save, load | HTTP client, secret store, configuration | chains of requests with retries per account, partial failure, configuration changes and several connect flows in flight | every account is counted once, every wish for a refresh is served, cached events survive failures |
| Authenticators, `auth/` | fprintd device, claim, retries | start, stop, sleep | fprintd, PAM | asynchronous replies after stop | planned (their results are in LockScreen) |
| HTTP client, `net/` | transfers by destination | download, post, request | curl, poll source | shared transfers, one callback each | planned |
| Brightness, `system/brightness_service.cpp` | displays with generation and epoch, queues of detections, writes and readings, results, failures with cool-down | set, refresh, detect, reload | worker thread and ddcutil, an eventfd | results of before a wish or an enumeration arrive after it; a write that failed may have reached the monitor; two steps to post a result, two to take it | what is shown is the last wish, and afterwards the real brightness; every wish is settled |
| Everything else | mirrors of remote state, parsers, rendering, widgets | | | | not modelled, see 7 |

## 2. Modules

| module | models | lines of the model that matter most |
|---|---|---|
| `MainLoop` | deferred calls and the main loop together: they share the wake pipe, and every property is about both | `Push`/`WakeMainLoop` are two steps of a worker thread; `phase` says where the main thread is; `Deadline`, `Dispatch`, `DrainWakeFd` |
| `Alarms` | the abstract promise of `Timer`: what is stopped never rings, nothing rings early or twice | five actions, no ids in flight, no marks |
| `TimerManager` | the manager itself, one callback of a tick per step | `Cancel`, `CallbackBegins`, `CallbackEnds`; `Promise` is the refinement mapping to `Alarms` |
| `LockScreen` | the lock, both ends of its Wayland socket, hot-plug, logind, PAM threads, fingerprint verdicts, the suspend that waits | one action per dispatched event; `requests` and `events` are the socket; `server` the compositor's view |
| `IdleManager` | idle behaviors with notification objects, fade, overlay, fallback timer, inhibit counter, reload, lock request | `SendIdled`/`SendResumed` put events on `wire`, handlers take them off |
| `NotificationManager` | the notification store with history file, restart and its D-Bus signals | helpers map one value of the store to the next, as the C++ helpers call each other |
| `ScriptRuntime` | one runtime: queue, workers, machine, subscribers' results, command answers, settings, `stop()` | `Admit`/`NewGeneration`/`Supersede` are the branches of `enqueue()`; a worker has a program counter (`Pop`, `Load`, `CallHost`, `Post`, `Exit`), because `drain()` lets go of the lock between them |
| `NotificationToast` | popups, cards, hover, pointer, and the part of the store they steer | helpers take and return the whole state as a record, as the C++ functions call each other; an action is one such composition |
| `Calendar` | refreshes, chains of requests, cache, configuration, connect flows, restarts | `fetch` says what each account's chain waits for; `AccountDone` ends it; `starts` and `polls` are the flow's outstanding requests |
| `BrightnessService` | monitors controlled over DDC: wishes, readings, detections, the worker thread, and how its results come back | a brightness is the number of the wish it comes from; `task` is what the worker does; `Post`/`Signal` and `Drain`/`Collect` are the two halves of posting and of taking results |
| `MCNotificationManager`, `MCScriptRuntime`, `MCNotificationToast`, `MCCalendar` | instances for TLC: symmetry, the sets of filters, scripts, contents and configurations | |
| `*Proofs` | theorems about the module of the same name; `EventLoopProofs` is about `TimerManager` and `MainLoop` | |

How the modules are composed: `MainLoop` is the justification for what the others take as given. It shows that deferred
closures run in order, that sources whose deadline is over are dispatched, and that handlers do not interleave;
the other modules therefore have one action per handler, a FIFO of closures, and weak fairness on timers and closures
where they need it. `TimerManager` shows that a due timer rings and a stopped one does not;
the other modules model a timer as "armed, may fire". They are not composed by INSTANCE into one state machine: the
product would have no property that the parts do not have, except between the lock and the idle actions, where
`IdleManager` carries the part of the lock it sees (requested, pending, locked).

Conventions. A variable is commented with the C++ member it stands for; variables under a `history` heading exist in no
program and only remember. Bounds are constants named `Max...`, used in guards of the actions that would count further;
the places where a model ends are therefore visible in the action. A definition whose name has the form `Action_Word`
and a comment beginning `Mutant:` is a faulty version of `Action` that no run uses; `PROJECT.json` says which property
catches it.

## 3. Runs

| run | instance | states | what it shows |
|---|---|---|---|
| MainLoop | 2 threads, 2 sources (one sliding), 2 closures, delays of 1, times relative to now | @ML | order, no lost wakeup, no oversleeping, no postponed deadline; closures run, every source that asks for a wake is dispatched however busy the loop is, shutdown is honoured once anything wakes the loop |
| TimerManager | 2 timers, 4 ids, delays 0 and 1, 2 ticks | @TM | table, batch and marks agree; `Alarms` is implemented; due timers ring |
| LockScreen | 2 outputs, 2 lock objects, 1 suspend, 2 passwords, 1 stray signal | @LS | the lock is one coherent thing, what may end it and what may end the request for it, when a suspend may leave, that a pending one resolves |
| IdleManager | 2 behaviors (one locks), 2 clients with 2 cookies between them, reloads at any time, 2 idles | @IM | fade bookkeeping, nobody misses the user's return or the next idle period, inhibit counting, fades take their time and end, dimming ends and every action has its resume action |
| NotificationManager | 3 ids, history of 2, 4 kinds of filter, 1 restart | @NM | one fate per id, deferred signals keep their entry and its actions, no id from before a save is used again, no change of the history goes unsaved |
| ScriptRuntime | 2 workers, queue of 2, 2 reloads, 3 accepted events, 1 change of settings | @SR | queue, flags and workers agree, no effect of an old script, results in order, stop and reload take place |
| NotificationToast | 2 symmetric notifications of different height, with and without timeout, 2 outputs of height 2 and 3, 1 replacement (told to the toasts or not), 1 rebuilt scene, 1 closure in flight | @NT | layout, expiry and hover agree |
| Calendar | a CalDAV and a Google account, 4 configurations, 2 connect flows, 1 calendar each | @CA | accounts are counted once, a wish for a refresh waits for no interval unless it is put off (see 4), wishes and connect flows are served, removed accounts go |
| BrightnessService | 1 monitor, 3 wishes, 3 enumerations, 2 results in flight, 2 failures to the cool-down | @BS | what is shown is true, the queues agree with the displays, every wish and detection is settled |

Three more runs end in a counterexample on purpose, each checking a sentence of the repository about itself:

| run | property | the disagreement |
|---|---|---|
| LockScreenDestroy | LockedNeverDestroyed | `unlock()` uses `destroy` while the compositor's `locked` event is unread; the comment at lock_screen.cpp:707 says `unlock_and_destroy` is required then. The protocol makes it a fatal error. |
| LockScreenSuspend | SuspendAfterLock | `handleFinished()` leaves the 3 s fallback timer of a finished lock running, and it dispatches the suspend that waits for the next lock while that is only pending; lock_screen.h:71 says the function runs "after the session reaches interactive lock". |
| CalendarLastGood | LastKnownGood | one request of several fails and the account's refresh still counts as a success, which replaces the events it had, in the snapshot and in the cache; calendar_service.h:22 promises last-known-good data across network failures. |

What the bounds leave in. Two outputs are the least with a covered and an uncovered one, two lock objects the least with
a result of an earlier lock, two passwords the least with a stale and a current one. Two sources are needed for one to
be freed by the other's dispatch; one slides because a source that always asks for "in d ms" is what starves. Four timer
ids allow a callback to restart both timers while a batch runs. Two behaviors are needed to share a fade, and a second
idle period to meet the late completion of the first fade. Two history entries and three ids are the least in which an eviction hits
an entry other than the one being written. In the run of `MainLoop` time is relative (a deadline is what is left until it), so
that the clock needs no bound and a source can be starved for ever if the loop lets it be: every source asks for a delay of one tick,
the sliding one again at every iteration, while closures, events and frames keep the loop busy. `LockScreen` has one request for suspend; two were run while the model was
built and showed nothing else. Two workers are enough for two drains to meet, a queue of two (64 in the code) for a full one,
three accepted events for one that runs, one that waits and one that reloads. Two popups of heights 1 and 2 on
outputs of 2 and 3 fit together on the taller output only, so that queueing, absence from one output and collapse all happen.
Two connect flows are the least with a superseded one, and two accounts the least with one that ends while another is
outstanding; the counterexample needs two calendars. Three wishes for one monitor are one being written, one that overtakes
it and one made after a result; three enumerations have results of two older ones in flight. Two monitors with two wishes and
two enumerations (4 M states) were run while the model was built and pass the invariants, which are proved for any number. `Calendar.cfg` gives each account one: two calendars with one connect
flow were run while the model was built and pass as well, and `RefreshAlwaysCoherent` holds for any number of calendars and flows.

Deadlock checking is off where a model really can stop: at a bound, or after the shell has exited or been
disconnected. `TimerManager` and `Calendar` never stop and are checked.

## 4. Properties that are not obvious

- *UnlockIsAuthorised* is an action property over everything that can clear `m_locked`. It asks for a reason according to what the
  handler took: a closure must be the successful answer to the newest attempt of this very lock, an event this lock's `finished`, a
  reload must have switched the lock screen off; only a handler that took none of them may act for logind's Unlock or for a finger.
  So a stale PAM result does not pass because the reader happens to be armed.
- *LockRequestKept* is the other side: what may end a lock that is pending, or one deferred for want of an output.
- *SuspendFollowsLock* allows one overtaking, the one the code has: the fallback timer of an *earlier* lock while the new one is
  pending. The sentence without the exception is `SuspendAfterLock`, which `LockScreenSuspend` refutes.
- *CompositorAgrees* compares two machines only when both directions of the socket are empty; that is the strongest form
  that an asynchronous protocol allows.
- *LoopWakes* contains `QueuedWorkWakesTheLoop`, which has two exceptions, a thread between push and wake and the drained phase of the loop. They are
  why the pipe is emptied before the queue is taken; the other order loses a wakeup.
- *DeadlinesNotPostponed* is what `m_sourceDeadlines` is for: without it `HttpClient::timeoutMs()`, which always answers
  relative to now, would be put off by every iteration. *SourcesServed* (in `EverythingServed`) says what follows: such a source is
  dispatched even when closures, events and frames never let the loop come to rest.
- *IdlePeriodsAreHeard* covers the one-shot nature of idle notifications: an idled event that is suppressed, cancelled or
  consumed by an inhibit must lead to a new notification object.
- *IdlingIsUndone* excuses the overlay of a lock that was given up before it was granted (`forsaken`); see below.
- *ClientsAreAnswered* counts: per id, displayed + deferred + suppressed + signalled = 1, over every way to end. Whether the user can
  still bring a deferred signal about is a second question; the answer is yes but for those in `unlisted`, see below.
- *RestartSafe* is about ids handed out before a save (`durable`), by whichever shell. What was handed out since may come back.
- *QueueCoherent* says that `scheduled` is a lock without a mutex: one drain exists exactly while it is set, whoever tests it
  and lets go of the queue's lock. `ControlTakesEffect` says that neither a full queue nor a script that is slow keeps a
  reload or `stop()` from taking place.
- *PopupAndNoteAgree* is the contract between toasts and store: the expiry runs exactly while the popup is placed and the
  pointer is elsewhere, and the pointer is counted on the popup it is on. A notification that a replacement has taken out of
  step is left out until it goes (`strayed`); see below.
- *WishesAreServed* distinguishes a wish for a refresh (`asked`): it waits for no interval (`WishAtOnce`), and one that the end of a
  refresh under way has put off ("overtaken") is followed by a refresh at some time (`EveryWishRefreshes`).
- *RefreshCoherent* is why a refresh ends: whichever of a dozen callbacks ends an account's chain, it does so once.
- *ShownIsTrue* relates the display to the hardware through everything in flight: it asks for the last wish while that is
  queued, being written or its result is on its way, and for the real brightness afterwards. A failed or timed-out write
  may have reached the monitor; then it says nothing until a command succeeds.
- *WishesSettle* is where the eventfd matters: it is silenced before the queue is taken, and all of the queue is taken. A wish
  that a rebuild of the list of displays drops counts as settled.
- *ControlTakesEffect* speaks of reloads that were accepted; one refused by a full queue is outside it (see below).
- Properties that are a conjunction of named parts are one question asked of the same handlers; the parts are stated one by
  one, and proved one by one where they are.

### Observed, without a run of its own

The models contain these behaviors; a reader of the code should know of them. No passing property forbids them.

- Lock: an output may be announced before it is usable. A deferred lock is then tried and fails for want of a surface, and
  `resetLockState()` clears the deferral, so that the output locks nothing when it becomes usable; `LockRequestKept` allows it. That
  attempt leaves its new lock object by `unlock_and_destroy` before the compositor has locked, the other way
  to a protocol error. A suspend asked for in a held lock whose outputs are gone (lock_screen.cpp:399) neither runs nor arms the timer.
- Idle: an inhibit that begins during a fade does not stop its action (idle_manager.h:42: "Suppresses idle actions while >
  0."). A reload, or the end of an inhibit that suppressed something (idle_manager.cpp:80-83), cancels a fade as if the user had
  not returned: the overlay of a fade to lock stays although no lock follows (idle_manager.cpp:145), and an idled
  behavior starts again as waiting without its resume action. `IdlingIsUndone` therefore speaks of the time before
  notifications are made anew (`renewed`). A lock that is given up while it is pending, by logind's Unlock or by the compositor, does not take the overlay down: the unlocked hook is
  fired only for a lock that was held (lock_screen.cpp:189). A behavior that
  locks fades even when the lock screen is disabled, and then nothing takes the overlay away (application_ipc.cpp:719);
  `DimEnds` speaks of an enabled lock screen for that reason. The run keeps it enabled (`LockSettings` is {TRUE}) only for its
  size: with both settings it has 0.9 M states and passes as well, and the theorems hold for any.
- Store: a filter that matches on text and says `save_history = false` is asked again without the text when the notification
  expires, and the notification enters the history after all; an expired notification with actions that has no history
  entry, being transient or filtered, keeps its signal until its client closes it or the shell quits, because no entry is there to
  invoke or dismiss (`unlisted`); a suppressed or a transient notification saves nothing, so that a shell that crashes hands its id
  out again after the restart (notification_manager.cpp:677-682), while a client may still hold it; `clearHistory()` empties the
  history before it marks it as seen.
- Scripts: a reload clears the queue with a change of settings in it (script_runtime.cpp:358) that the host counts as delivered
  (plugin_service_host.cpp:185); a reload in front of a full queue is refused, although it would have emptied it; a state
  watch result of an old machine may reach another callback of the same number; one failing call of the old machine is
  charged to the new one.
- Toasts: a popup that was hovered while another left is packed when the hover ends, but its cards on shorter outputs are not looked
  at again (notification_toast.cpp:1287 against 949-951). A replacement of a queued popup starts its expiry before it has been
  shown, and one that a filter keeps from the toasts (notification_manager.cpp:285) starts it without telling them. The turn of each
  output in `onNotificationUpdated` resets the hover and then lets the pointer find the new card (notification_toast.cpp:678, 770-774):
  with the pointer on a card of the first output, the turn of the second takes back the hover which the first one's motion began: the
  store's expiry stays stopped while the second card's countdown runs and closes the notification under the pointer. A replacement of
  a hovered popup stops the expiry for good, and a card rebuilt by it has no hover handlers; a card that is not rebuilt keeps the
  old duration. An output that goes away under the pointer does the same.
  `evictOverlappingEntries()` has no caller.
- Calendar: a refresh that is under way when the calendar is switched off fills the snapshot again; "Re-sync soon after any
  account/config change." (calendar_service.cpp:102) and "Schedule an immediate sync" (calendar_service.h:43) are taken back by the end of
  a refresh already under way: `accountDone()` sets the next refresh an interval ahead, whatever was wished for meanwhile; the answers of
  an older connect flow change the current one; removing the last account leaves its events shown until a refresh that does
  not come; a late token refresh overwrites the tokens of a new connection.
- Brightness: `brightness-up` and `brightness-down` for all displays step once per display when `sync_all_monitors` is on
  (each reads the common value that the one before has changed). The worker copies the list of ignored monitors under
  its mutex (brightness_service.cpp:1162) while `reload()` assigns the configuration without it (brightness_service.cpp:781):
  a data race; the copied list shows only in which monitors a detection finds, which is any set here.

## 5. Fairness

- `MainLoop`: weak fairness of the main thread's own steps (handlers return, `poll()` returns when something is ready or
  its time is over), of the clock, and of the wake that follows a push. None for compositor events, other posts,
  or signals.
- `TimerManager`: weak fairness of `tick()` when something is due and of its callbacks. `MainLoop!EverythingServed` is the
  reason: the timer poll source is dispatched at its deadline.
- `LockScreen`: events, the timer and closures are dispatched, surfaces of present outputs draw, and the compositor answers.
  The user does nothing by fairness. `FirstFrame` is fair per output, but `PendingSuspendResolves` does not rest on
  it: an output may go away instead, and the fallback timer covers the rest.
- `IdleManager`: fairness of the fallback timer and of closures only, so that *EveryFadeEnds* holds with a compositor that is silent.
- `NotificationManager` and `NotificationToast` have no liveness property: who closes a notification is a client or a user, and
  the pointer may rest on a popup for ever.
- `ScriptRuntime`: each step of a worker. The pool's threads wait for nothing but tasks, the queue's lock is held for a few lines,
  and a call of a script has a time budget, after which it is interrupted. Nothing is assumed of the main thread's
  requests, of commands or of state changes.
- `Calendar`: every HTTP request is answered (curl has a time limit per request and calls back in either case), `tick()` runs when
  `pollTimeoutMs()` is over (`MainLoop!EverythingServed`), and time passes. Nobody must change the configuration, connect or restart.
- `BrightnessService`: the worker's steps, because every ddcutil command has a time limit after which it is killed, and the main
  loop's, which polls the eventfd. Nobody must make a wish, read, or change the outputs.

## 6. Proofs

Every theorem holds for all values of the constants under the named assumption of its module (finite or not: outputs,
threads, sources, timers and behaviors are arbitrary sets; only `IdleManager` assumes finite sets of behaviors and clients,
and `Calendar` of accounts).

| module | inductive invariant | theorems |
|---|---|---|
| `LockScreenProofs` | `IndInv` = types, consistency of flags, lock object and surfaces, coverage, hooks, and `DeferredHasNoOutput`: a deferred lock means no usable output, without which coverage is not inductive across hot-plug. `AuthInv` adds that generations in flight are never newer than the current one and that the current one occurs once. `WireInv` is about both directions of the socket: a lock object the shell has given up is gone or has its leave on the wire, behind its lock; the one it holds has none; what the compositor decided about that one is known or on the wire. `TimerInv`: the fallback timer is the held lock's, or an earlier lock's while none is held | `TypeCorrect`, `LockStateAlwaysConsistent`, `OutputsAlwaysCovered`, `HooksAlwaysFollowLock`, `AuthAlwaysBelongsToLock`, their conjunction `LockAlwaysCoherent`, `UnlockAlwaysAuthorised`, `LockRequestAlwaysKept`, `CompositorAlwaysAgrees`, `SuspendNeverOvertakes` |
| `EventLoopProofs`, of `TimerManager` | types, `BookkeepingConsistent`, and that ids are fresh (`TMInv`) | `TimersTypeCorrect`, `BookkeepingAlwaysConsistent`, `PromiseAlwaysKept` (refinement of `Alarms`: one lemma per action that it maps to a step or a stutter) |
| `EventLoopProofs`, of `MainLoop` | types, order, wakeups, sleeping, and `BatchRunsWhereTaken`: a batch is non-empty only in the phases that run it, so that taking the queue never overwrites one | `TypeCorrect`, `ClosuresAlwaysRunInOrder`, `NoWakeupIsLost`, `PollNeverOversleeps`, both as `LoopAlwaysWakes`, `DeadlinesNeverPostponed` |
| `IdleManagerProofs` | types, `GraceIsFading`, and `EventInv`: if a resumed event is not on the wire for a behavior that is busy, the compositor still owes one, also behind every prefix of the wire, and only registered behaviors have events. `Timed` says a queued completion names a generation whose time is over. `IdleInv`: a waiting behavior whose notification fired has its idled event on the wire, behind every resumed one (`ReturnsComeFirst`). `CookiesCounted`: the inhibit count is the number of cookies held, so that dropping a vanished client's never passes below zero. `OwedAreIdled`: until notifications are made anew, the behaviors owed a resume action are those in phase Idled. `Once`: a fade is shown once; while its "show" is queued no other closure has its number, and the overlay does not await its end. `Dimmed`: a dimmed screen has a fade, a lock or a queued "hide" to answer for it, unless the lock that had was given up while pending, and a queued "show" is the current fade's or has a "hide" behind it | `TypeCorrect`, `GraceAlwaysFading`, `ReturnAlwaysHeard`, both as `FadeAlwaysCoherent`, `FadesRunTheirTime`, `IdlePeriodsAlwaysHeard`, `IdlingAlwaysUndone` |
| `NotificationManagerProofs` | `IInv` = types, `Sound` (no id twice on display or in the history, the history within its limit, display and history in agreement on actions, a deferred signal's entry offers them), `Fates` (each id handed out has one, each other none), `Filed` (what is not due to be saved is on disk), that every id in use or handed out before a save is below the next one, and that a deferred signal is actionable or `unlisted`. The helpers of the store are functions from records to records: `Keeps` is what each of them preserves, `SoundBut` what holds while one id is between two places | `TypeCorrect`, `SafeAfterRestart`, `EveryClientAnswered`, `NoSignalOrphaned` |
| `ScriptRuntimeProofs` | `Rest`, in parts: `Drain` (posted and running drains against `scheduled`), `Control` (a stop alone in the queue), `Updates` and `Fresh`, `Stamps` (results, the event under way and the queue in one order of stamps), `Hosts` (what waits is of the newest generation, and the machine is too unless a reload waits or runs), `Faults` (a counter exceeds the script's own faults by one at most, and not before the one call of the predecessor has ended), `Values`. The queue needs its own lemmas (`AdmitIs`, `OldIs`, `SupersedeIs`): what `enqueue()` drops keeps the order of the rest | `TypesHold`, `QueueAlwaysCoherent`, `EffectsAlwaysBelong` |
| `NotificationToastProofs` | `IInv` is said of a state as a record, because the handlers are functions from states to states, made of a dozen helpers that call one another in the middle of their work. `Good(S, X, Y, W)` is what holds between two helpers: `Lives` (who has a popup, or will be given one: W), `CallsKnown` (what a closure names has a popup or is over), `Layout`, `CardsAt` (but for the popups in X, whose cards are being replaced), `Hovers` (a hovered popup has a card, and the pointer or the end of its hover), `Expiries` and `Clocked` (expiry, and the durations that popup, cards and closures have copied, but for the strayed in Y). `Settled` holds between handlers only: nobody waits in front of a gap unless a popup is leaving, and the pointer is on a card that is there and, unless a replacement strayed it, counted | `TypeCorrect`, `StackAlwaysLaidOut`, `PopupAndNoteAlwaysAgree`, `HoveredAlwaysStaysPut` |
| `CalendarProofs` | the types of the chains and credentials, with `RefreshCoherent`: a step starts, ends or goes on with one chain, so that the number of busy accounts changes as `pending` does (`AccountDoneCounts`, `GoesOnCounts`, `StartRefreshCounts`, cited by every answer). `TInv` adds the types: a chain that waits, waits for at least one answer (`LeftOK`), and `RequestsCounted`: the /start requests, the polls and the right to send the next poll are together at most one per flow, which alone bounds the polls, because the answer of an older flow may free the current one to send another | `RefreshAlwaysCoherent`, `TypeCorrect`, `WishesWaitForNoInterval` |
| `BrightnessServiceProofs` | `TypeOK` and `ShownIsTrue` with `Flow`: what each result (`AnswerOK`), each pair of results (`OrderOK`) and the task (`TaskOK`) may be worth. A detection of this enumeration is alone; a result of the last epoch agrees with wish and monitor; no reading is in front of the write it belongs to; a write that was overtaken has a newer one behind it | `QueuesAlwaysCoherent`, `ShownIsAlwaysTrue` |

Each proof has the three usual parts (initial states, one step per action or group of actions with the same frame, conclusion by PTL).
Invariants that a step leaves alone are handled by one frame lemma.

Two properties needed care to state. `IdlingIsUndone` failed as an invariant over all settings: a locking fade with the lock
screen disabled leaves its overlay, which the code does (see 4), so `DimEnds` has the setting as a hypothesis. The bound of the polls
(`TypeOK` of `Calendar`) is not inductive by itself: it needs the count over starts, polls and the free slot together.

`NotificationToastProofs` goes by helpers. Each has a lemma that says what of `Good` it keeps and what it changes: `Restacked`
(places only: collapse, reveal), `Retimed` (one expiry and its countdowns), `Pointed` (the pointer), `Redrawn` (the cards of one popup), `Turning` (what holds between the turns of a replacement,
one per output: the popup counts as hovered there only if it has strayed),
and `Onward`, which a whole handler leaves of the popups it is not about. `CollapseKeeps` is the heart of the layout:
while the cursor of `collapseStack` passes over the stack, it stays behind the end of every entry it has packed or left under the pointer
(`CursorPasses`), so that packing never lays one popup over another although some of them do not move. `GapsAre` says that the
positions `findPlacementY` tries, the edge and the ends of the cards, are enough: if a card fits anywhere, it fits at one of them. The loops over
entries and closures are runs of steps, and the positions of the cursor are numbers; both inductions are on the set of counts at which
the claim holds (`Inducts`, from the well-foundedness of the numbers), not on an operator. `HoveredAlwaysStaysPut` is `Steady`, which
every action has in addition, except the replacement, which the property leaves out.

Model-checked only: every liveness property (`PendingSuspendResolves` of `SuspendFollowsLock`, `DueTimerRings`, `EverythingServed`, `EveryFadeEnds`,
`ControlTakesEffect`, `WishesAreServed` but for `WishAtOnce`, `WishesSettle`). Liveness under fairness and ENABLED are out of the prover's reach.

## 7. Abstractions, and what is not modelled

- Data: colours, texts, passwords, images, geometry. A password is right or wrong, a notification's text is a model value.
- `LockScreen`: `blurred_desktop` is off, as by default; with it on, lock() waits for a capture inside Wayland dispatch.
  The destructor and the lock screen's widgets are not modelled, nor is a surface that fails to initialize (lock_screen.cpp:683-686):
  its causes are that memory runs out or that the connection is lost.
- `MainLoop`: the order of the source list is abstracted to any order; time to ticks. The code cuts what is left of a
  deadline to whole milliseconds (main_loop.cpp:426), so `poll()` may give up to 1 ms early, find nothing due and poll again; in the
  model it ends at the tick of the deadline, and it may end early for any other reason. Error returns of `poll()` end the loop in the code and are
  left out.
- `TimerManager`: callbacks are opaque and do not tick the manager; entries that are due together ring in any order.
- `IdleManager`: the fallback timer (0.3 s after the fade) is assumed to fire after the closure that shows the overlay has
  run; lock() may succeed, be refused, or stay pending. `m_liveIdleSeconds`, which only feeds the settings page, is left out.
- `NotificationManager`: expiry may happen at any time, so pausing by toasts adds nothing; a duplicate within a second may
  or may not be one. Seen marks and the unread dot, do-not-disturb, sounds, internal notifications, the KDE client
  mode with adopted ids, a daemon that is switched off while signals are deferred, and failing writes are left out. A filter
  is what it answers: toast, history, and `later`, its answer at the close.
- `ScriptRuntime`: a script is what it does with each kind of event; the virtual machine, its bindings and time limits, the replay
  of a state to a late subscriber (every caller subscribes before it starts), and the IPC router are left out.
- `NotificationToast`: positions are at the top of the output (the stack grows down); the shift of a stack at the bottom when a
  scene is rebuilt, outputs that come and go, a reload of the configuration, and the focus of an inline reply are left out. The
  motion that the input dispatcher synthesizes after a scene has changed is the last step of the action that changed it, and of
  each output's turn in a replacement, where the code asks for it.
- `Calendar`: an event is the account it belongs to, and whether some are missing; discovery of collections is one exchange; settings
  of an account other than its id, parsing of iCalendar (a pure function with unit tests) and notifications of a failed flow are left out.
- `BrightnessService`: backlights (a synchronous D-Bus call, watched by inotify), which output has which backend, the IPC verbs
  with targets and steps, and the parsing of ddcutil's output are left out. Which displays a detection finds is any set.
- Components with no module, with the reasons, are in `PROJECT.json`: mirrors of remote services, compositor backends,
  configuration, rendering, widgets, audio, launcher, themes, and files.

## 8. Plan

Done in this order, most important behaviour first: LockScreen, TimerManager with Alarms, MainLoop, IdleManager,
NotificationManager, ScriptRuntime, NotificationToast, Calendar, BrightnessService. Next:

1. `FingerprintAuthenticator`, INSTANCEd for the verdicts of `LockScreen`: claim, verify, sleep, retries, loss of the device.
2. `HttpClient`: one callback per request, transfers shared by destination; its fairness assumption in `Calendar` as a theorem of runs.
3. `NotificationToast` over `NotificationManager` as one system: now the toasts carry the part of the store they steer; the
   unread dot; outputs that come and go.
4. Proofs: every safety property of the passing runs is a theorem. Next are abstract specifications to
   be refined as `TimerManager` refines `Alarms`: a lock that the shell and the compositor share, and a queue of closures.
