------------------------------ MODULE IdleManager ------------------------------
(***************************************************************************)
(* What the shell does when the user is away (idle/idle_manager.cpp), with *)
(* the dimming overlay (idle/idle_grace_overlay.cpp), their wiring in      *)
(* app/application_ui.cpp and the inhibit counter of                       *)
(* dbus/idle/screensaver_service.cpp.                                      *)
(*                                                                         *)
(* Each behavior has a notification object in the compositor, which sends  *)
(* "idled" and "resumed" on the Wayland connection. A behavior that idles  *)
(* runs its action, after a fade that input cancels when the configuration *)
(* asks for one; when the user is back it runs its resume action. What the *)
(* compositor does and the outcome of lock() are nondeterministic; the     *)
(* lock screen is a module of its own and only its two hooks are here.     *)
(***************************************************************************)
EXTENDS Naturals, Sequences, FiniteSets

CONSTANTS
  Behaviors,     \* the behaviors a configuration may list
  Locks,         \* those whose action is "lock"
  Clients,       \* D-Bus clients that may inhibit idling, logind's "idle" block included
  LockSettings,  \* values of lockscreen.enabled
  FadeSettings,  \* whether pre_action_fade_seconds is above zero
  MaxIdles,      \* bound: "idled" events sent
  MaxHeld,       \* bound: inhibit cookies of a client
  MaxCookies     \* bound: inhibit cookies altogether

ASSUME IdleManagerAssumption ==
  /\ Locks \subseteq Behaviors
  /\ IsFiniteSet(Behaviors) /\ IsFiniteSet(Clients)
  /\ LockSettings \subseteq BOOLEAN /\ FadeSettings \subseteq BOOLEAN
  /\ MaxIdles \in Nat /\ MaxHeld \in Nat /\ MaxCookies \in Nat

VARIABLES
  \* the compositor and the user
  user,          \* the user is at the machine
  notification,  \* per behavior: "none", or what the compositor last reported
  wire,          \* events sent and not dispatched, and whether their object still exists
  idles,         \* "idled" events sent
  \* ScreenSaverService
  held,          \* cookies each client holds
  locks,         \* m_inhibitLocks and m_screenSaverInhibitLocks
  \* IdleManager
  phase,         \* BehaviorState::phase
  grace,         \* m_graceBehaviors
  willLock,      \* m_activeGraceWillLock
  generation,    \* m_graceGeneration
  fallback,      \* the generation m_graceFallbackTimer was started with, 0 when stopped
  suppressed,    \* m_idledWhileScreenSaverInhibited
  \* the configuration
  fading,        \* preActionFadeSeconds > 0.0005
  lockEnabled,   \* isLockScreenEnabled()
  \* IdleGraceOverlay
  dim,           \* its surfaces: "none", "fading" or "full"
  onFadeDone,    \* generation of m_onAllFadesComplete, 0 when empty
  \* elsewhere
  closures,      \* DeferredCall's queue
  lock,          \* the session lock: "none", "requested", "pending", "locked"
  \* history
  owed,          \* behaviors whose action ran and whose resume action has not
  elapsed,       \* generations whose fade ran its time
  renewed,       \* a reload or the end of an inhibition has made the notifications anew
  forsaken       \* the lock that was to take the overlay down was given up while pending

userVars    == <<user, notification, wire, idles>>
inhibitVars == <<held, locks>>
graceVars   == <<grace, willLock, generation, fallback>>
configVars  == <<fading, lockEnabled, renewed>>
overlayVars == <<dim, onFadeDone, forsaken>>
vars == <<userVars, inhibitVars, phase, graceVars, suppressed, configVars,
          overlayVars, closures, lock, owed, elapsed>>

Registered == {b \in Behaviors : notification[b] # "none"}
Event == [type : {"idled", "resumed"}, behavior : Behaviors, live : BOOLEAN]

\* "hide" is the closure of the grace-end callback, "show" that of the grace-begin
\* callback, "done" the completion of a show() without surfaces, "check" the closure that
\* completes a fade. "flush" marks the point where the loop has gone round once and a lock
\* request that was made before it has left for the compositor.
Closure == [kind : {"show", "done", "check"}, generation : Nat] \union [kind : {"hide", "flush"}]

Idled(b)   == [type |-> "idled", behavior |-> b, live |-> TRUE]
Resumed(b) == [type |-> "resumed", behavior |-> b, live |-> TRUE]

Show(g)  == [kind |-> "show", generation |-> g]
Done(g)  == [kind |-> "done", generation |-> g]
Check(g) == [kind |-> "check", generation |-> g]
Hide     == [kind |-> "hide"]
Flush    == [kind |-> "flush"]

-----------------------------------------------------------------------------
\* A new notification object: the compositor counts from now, and libwayland discards the
\* events of the old one when their turn comes.
WireWithout(bs) ==
  [i \in 1..Len(wire) |->
     [wire[i] EXCEPT !.live = @ /\ wire[i].behavior \notin bs]]
Recreate(bs) ==
  /\ notification' = [b \in Behaviors |-> IF b \in bs THEN "active" ELSE notification[b]]
  /\ wire' = WireWithout(bs)

\* The closure the grace-end callback posts, when it has an effect on the overlay.
\* Mutant: only a cancelled fade takes the overlay down.
GraceEnd_CancelledOnly(userCancelled, lockSession) ==
  IF userCancelled THEN <<Hide>> ELSE <<>>

GraceEnd(userCancelled, lockSession) ==
  IF userCancelled \/ ~lockSession THEN <<Hide>> ELSE <<>>

\* cancelActiveGrace().
PhaseWithoutGrace == [b \in Behaviors |-> IF b \in grace THEN "Waiting" ELSE phase[b]]

CancelGrace(userCancelled) ==
  IF grace = {} THEN UNCHANGED <<graceVars, closures>>
  ELSE /\ grace' = {}
       /\ willLock' = FALSE
       /\ fallback' = 0
       /\ generation' = generation + 1
       /\ closures' = closures \o GraceEnd(userCancelled, willLock)

\* Application::runIdleAction() for each of bs: which calls may succeed, and what they do.
\* lock() succeeds when the session is already being locked, and with the lock screen
\* disabled the action counts as done.
Outcomes(bs) ==
  {ok \in [bs -> BOOLEAN] : \A b \in bs \cap Locks : ok[b] \/ (lockEnabled /\ lock = "none")}
LocksNow(bs, ok) == lockEnabled /\ lock = "none" /\ \E b \in bs \cap Locks : ok[b]
RunActions(bs, ok) ==
  /\ lock' = IF LocksNow(bs, ok) THEN "requested" ELSE lock
  /\ owed' = owed \union bs
FlushAfter(bs, ok) == IF LocksNow(bs, ok) THEN <<Flush>> ELSE <<>>

\* graceFadeComplete(), from the closures left in the queue.
GraceFadeComplete(queue) ==
  IF grace = {} THEN /\ closures' = queue
                     /\ UNCHANGED <<phase, graceVars, lock, owed>>
  ELSE \E ok \in Outcomes(grace) :
         /\ phase' = [b \in Behaviors |-> IF b \in grace THEN "Idled" ELSE phase[b]]
         /\ RunActions(grace, ok)
         /\ closures' = queue \o FlushAfter(grace, ok)
                              \o GraceEnd(FALSE, \E b \in grace \cap Locks : ok[b])
         /\ grace' = {}
         /\ willLock' = FALSE
         /\ fallback' = 0
         /\ UNCHANGED generation

-----------------------------------------------------------------------------
Init ==
  /\ user = TRUE
  /\ notification = [b \in Behaviors |-> "active"]
  /\ wire = <<>>
  /\ idles = 0
  /\ held = [c \in Clients |-> 0]
  /\ locks = 0
  /\ phase = [b \in Behaviors |-> "Waiting"]
  /\ grace = {}
  /\ willLock = FALSE
  /\ generation = 0
  /\ fallback = 0
  /\ suppressed = FALSE
  /\ fading \in FadeSettings
  /\ lockEnabled \in LockSettings
  /\ dim = "none"
  /\ onFadeDone = 0
  /\ closures = <<>>
  /\ lock = "none"
  /\ owed = {}
  /\ elapsed = {}
  /\ renewed = FALSE
  /\ forsaken = FALSE

\* The compositor. A user who is back is reported to every idle notification before
\* anything can be idle again.
CompositorIdled(b) ==
  /\ notification[b] = "active"
  /\ user => \A other \in Behaviors : notification[other] # "idle"
  /\ idles < MaxIdles
  /\ user' = FALSE
  /\ notification' = [notification EXCEPT ![b] = "idle"]
  /\ wire' = Append(wire, Idled(b))
  /\ idles' = idles + 1
  /\ UNCHANGED <<inhibitVars, phase, graceVars, suppressed, configVars, overlayVars,
                 closures, lock, owed, elapsed>>

UserInput ==
  /\ ~user
  /\ user' = TRUE
  /\ UNCHANGED <<notification, wire, idles, inhibitVars, phase, graceVars, suppressed,
                 configVars, overlayVars, closures, lock, owed, elapsed>>

CompositorResumed(b) ==
  /\ user
  /\ notification[b] = "idle"
  /\ notification' = [notification EXCEPT ![b] = "active"]
  /\ wire' = Append(wire, Resumed(b))
  /\ UNCHANGED <<user, idles, inhibitVars, phase, graceVars, suppressed, configVars,
                 overlayVars, closures, lock, owed, elapsed>>

-----------------------------------------------------------------------------
\* handleIdled() and handleResumed(), one action for each way through them.
Receives(event) == wire # <<>> /\ Head(wire) = event

\* Mutant: the suppressed behavior keeps the notification that has already fired.
SuppressIdled_KeepNotification(b) ==
  /\ Receives(Idled(b))
  /\ phase[b] = "Waiting"
  /\ locks > 0
  /\ suppressed' = TRUE
  /\ wire' = Tail(wire)
  /\ UNCHANGED <<user, notification, idles, inhibitVars, phase, graceVars, configVars,
                 overlayVars, closures, lock, owed, elapsed>>

SuppressIdled(b) ==
  /\ Receives(Idled(b))
  /\ phase[b] = "Waiting"
  /\ locks > 0
  /\ suppressed' = TRUE
  /\ notification' = [notification EXCEPT ![b] = "active"]
  /\ wire' = Tail(WireWithout({b}))
  /\ UNCHANGED <<user, idles, inhibitVars, phase, graceVars, configVars, overlayVars,
                 closures, lock, owed, elapsed>>

JoinGrace(b) ==
  /\ grace' = grace \union {b}
  /\ willLock' = (willLock \/ b \in Locks)
  /\ phase' = [phase EXCEPT ![b] = "Fading"]

JoinFade(b) ==
  /\ Receives(Idled(b))
  /\ phase[b] = "Waiting"
  /\ locks = 0 /\ fading
  /\ grace # {}
  /\ wire' = Tail(wire)
  /\ JoinGrace(b)
  /\ UNCHANGED <<user, notification, idles, inhibitVars, generation, fallback, suppressed,
                 configVars, overlayVars, closures, lock, owed, elapsed>>

\* Mutant: no fallback timer, the overlay alone ends the fade.
BeginFade_NoFallback(b) ==
  /\ Receives(Idled(b))
  /\ phase[b] = "Waiting"
  /\ locks = 0 /\ fading
  /\ grace = {}
  /\ wire' = Tail(wire)
  /\ JoinGrace(b)
  /\ generation' = generation + 1
  /\ closures' = Append(closures, Show(generation'))
  /\ UNCHANGED <<user, notification, idles, inhibitVars, fallback, suppressed, configVars,
                 overlayVars, lock, owed, elapsed>>

BeginFade(b) ==
  /\ Receives(Idled(b))
  /\ phase[b] = "Waiting"
  /\ locks = 0 /\ fading
  /\ grace = {}
  /\ wire' = Tail(wire)
  /\ JoinGrace(b)
  /\ generation' = generation + 1
  /\ fallback' = generation'
  /\ closures' = Append(closures, Show(generation'))
  /\ UNCHANGED <<user, notification, idles, inhibitVars, suppressed, configVars, overlayVars,
                 lock, owed, elapsed>>

IdleAtOnce(b) ==
  /\ Receives(Idled(b))
  /\ phase[b] = "Waiting"
  /\ locks = 0 /\ ~fading
  /\ wire' = Tail(wire)
  /\ phase' = [phase EXCEPT ![b] = "Idled"]
  /\ \E ok \in Outcomes({b}) :
       /\ RunActions({b}, ok)
       /\ closures' = closures \o FlushAfter({b}, ok)
  /\ UNCHANGED <<user, notification, idles, inhibitVars, graceVars, suppressed, configVars,
                 overlayVars, elapsed>>

CancelFade(b) ==
  /\ Receives(Resumed(b))
  /\ phase[b] = "Fading"
  /\ wire' = Tail(wire)
  /\ phase' = PhaseWithoutGrace
  /\ CancelGrace(TRUE)
  /\ UNCHANGED <<user, notification, idles, inhibitVars, suppressed, configVars, overlayVars,
                 lock, owed, elapsed>>

Resume(b) ==
  /\ Receives(Resumed(b))
  /\ phase[b] = "Idled"
  /\ wire' = Tail(wire)
  /\ phase' = [phase EXCEPT ![b] = "Waiting"]
  /\ owed' = owed \ {b}
  /\ UNCHANGED <<user, notification, idles, inhibitVars, graceVars, suppressed, configVars,
                 overlayVars, closures, lock, elapsed>>

\* The early returns of both handlers.
IgnoreEvent(b) ==
  /\ wire # <<>> /\ Head(wire) \in {Idled(b), Resumed(b)}
  /\ (Head(wire).type = "resumed") = (phase[b] = "Waiting")
  /\ wire' = Tail(wire)
  /\ UNCHANGED <<user, notification, idles, inhibitVars, phase, graceVars, suppressed,
                 configVars, overlayVars, closures, lock, owed, elapsed>>

\* libwayland: the object of the event has been destroyed.
DiscardEvent ==
  /\ wire # <<>> /\ ~Head(wire).live
  /\ wire' = Tail(wire)
  /\ UNCHANGED <<user, notification, idles, inhibitVars, phase, graceVars, suppressed,
                 configVars, overlayVars, closures, lock, owed, elapsed>>

-----------------------------------------------------------------------------
\* The fade: the overlay and the two ways it ends.
HideOverlay == dim' = "none" /\ onFadeDone' = 0 /\ forsaken' = FALSE

\* The closures, in the order they were posted.
FrontClosure(c) == closures # <<>> /\ Head(closures) = c

\* IdleGraceOverlay::show(): surfaces that exist are used again when they are those of the
\* outputs there are now.
ShowOverlay(g) ==
  /\ FrontClosure(Show(g))
  /\ closures' = Tail(closures)
  /\ dim' = "fading"
  /\ onFadeDone' = g
  /\ forsaken' = FALSE
  /\ UNCHANGED <<userVars, inhibitVars, phase, graceVars, suppressed, configVars, lock, owed,
                 elapsed>>

\* Otherwise they are destroyed, and the completion just stored with them, before new ones
\* are made on the outputs that can have one.
ShowOnOtherOutputs(g) ==
  /\ FrontClosure(Show(g))
  /\ dim # "none"
  /\ closures' = Tail(closures)
  /\ dim' \in {"fading", "none"}
  /\ onFadeDone' = 0
  /\ forsaken' = FALSE
  /\ UNCHANGED <<userVars, inhibitVars, phase, graceVars, suppressed, configVars, lock, owed,
                 elapsed>>

ShowWithoutSurfaces(g) ==
  /\ FrontClosure(Show(g))
  /\ dim = "none"
  /\ closures' = Append(Tail(closures), Done(g))
  /\ onFadeDone' = 0
  /\ elapsed' = elapsed \union {g}
  /\ UNCHANGED <<userVars, inhibitVars, phase, graceVars, suppressed, configVars, dim, forsaken,
                 lock, owed>>

RunHide ==
  /\ FrontClosure(Hide)
  /\ closures' = Tail(closures)
  /\ HideOverlay
  /\ UNCHANGED <<userVars, inhibitVars, phase, graceVars, suppressed, configVars, lock, owed,
                 elapsed>>

RunDone(g) ==
  /\ FrontClosure(Done(g))
  /\ closures' = Append(Tail(closures), Check(g))
  /\ UNCHANGED <<userVars, inhibitVars, phase, graceVars, suppressed, configVars, overlayVars,
                 lock, owed, elapsed>>

\* Mutant: the closure completes whatever fade is running.
RunCheck_AnyGeneration(g) ==
  /\ FrontClosure(Check(g))
  /\ GraceFadeComplete(Tail(closures))
  /\ UNCHANGED <<userVars, inhibitVars, suppressed, configVars, overlayVars, elapsed>>

RunCheck(g) ==
  /\ FrontClosure(Check(g))
  /\ IF generation = g THEN GraceFadeComplete(Tail(closures))
     ELSE /\ closures' = Tail(closures)
          /\ UNCHANGED <<phase, graceVars, lock, owed>>
  /\ UNCHANGED <<userVars, inhibitVars, suppressed, configVars, overlayVars, elapsed>>

\* Not a closure of the code: see Closure.
LockRequestSent ==
  /\ FrontClosure(Flush)
  /\ closures' = Tail(closures)
  /\ lock' = IF lock = "requested" THEN "pending" ELSE lock
  /\ UNCHANGED <<userVars, inhibitVars, phase, graceVars, suppressed, configVars, overlayVars,
                 owed, elapsed>>

\* Every surface has finished its animation: onFadeInstanceComplete().
FadeFinishes ==
  /\ dim = "fading"
  /\ dim' = "full"
  /\ onFadeDone' = 0
  /\ closures' = IF onFadeDone = 0 THEN closures ELSE Append(closures, Check(onFadeDone))
  /\ elapsed' = IF onFadeDone = 0 THEN elapsed ELSE elapsed \union {onFadeDone}
  /\ UNCHANGED <<userVars, inhibitVars, phase, graceVars, suppressed, configVars, forsaken,
                 lock, owed>>

\* At least 251 ms after the fade began, when the closure that shows the overlay has run.
FallbackFires ==
  /\ fallback # 0
  /\ \A i \in 1..Len(closures) : closures[i] # Show(fallback)
  /\ elapsed' = elapsed \union {fallback}
  /\ IF generation = fallback /\ grace # {} THEN GraceFadeComplete(closures)
     ELSE /\ fallback' = 0
          /\ UNCHANGED <<phase, grace, willLock, generation, closures, lock, owed>>
  /\ UNCHANGED <<userVars, inhibitVars, suppressed, configVars, overlayVars>>

\* onOutputChange() with another set of outputs: the surfaces and the completion go.
OutputsChange ==
  /\ dim # "none"
  /\ HideOverlay
  /\ UNCHANGED <<userVars, inhibitVars, phase, graceVars, suppressed, configVars, closures,
                 lock, owed, elapsed>>

-----------------------------------------------------------------------------
\* reload(), with any of the behaviors enabled. Every notification is a new one.
Reload ==
  /\ renewed' = TRUE
  /\ \E enabled \in SUBSET Behaviors :
       notification' = [b \in Behaviors |-> IF b \in enabled THEN "active" ELSE "none"]
  /\ wire' = WireWithout(Behaviors)
  /\ phase' = [b \in Behaviors |-> "Waiting"]
  /\ CancelGrace(FALSE)
  /\ fading' \in FadeSettings
  /\ lockEnabled' \in LockSettings
  /\ UNCHANGED <<user, idles, inhibitVars, suppressed, overlayVars, lock, owed, elapsed>>

\* setScreenSaverInhibitLocks(), as far as the behaviors are concerned.
\* Mutant: the behaviors keep their phases when their notifications are made anew.
SetInhibitLocks_KeepPhases(n) ==
  /\ locks' = n
  /\ IF locks > 0 /\ n = 0 /\ suppressed
     THEN /\ suppressed' = FALSE /\ renewed' = TRUE
          /\ Recreate(Registered)
          /\ phase' = PhaseWithoutGrace
          /\ CancelGrace(FALSE)
     ELSE UNCHANGED <<suppressed, renewed, notification, wire, phase, graceVars, closures>>

SetInhibitLocks(n) ==
  /\ locks' = n
  /\ IF locks > 0 /\ n = 0 /\ suppressed
     THEN /\ suppressed' = FALSE /\ renewed' = TRUE
          /\ Recreate(Registered)
          /\ phase' = [b \in Behaviors |-> IF b \in Registered THEN "Waiting" ELSE phase[b]]
          /\ CancelGrace(FALSE)
     ELSE UNCHANGED <<suppressed, renewed, notification, wire, phase, graceVars, closures>>

\* onInhibitDelta() never goes below zero.
LocksLess(n) == IF locks > n THEN locks - n ELSE 0

Inhibit(c) ==
  /\ held[c] < MaxHeld /\ locks < MaxCookies
  /\ held' = [held EXCEPT ![c] = @ + 1]
  /\ SetInhibitLocks(locks + 1)
  /\ UNCHANGED <<user, idles, fading, lockEnabled, overlayVars, lock, owed, elapsed>>

\* Mutant: an unknown cookie is released all the same.
Uninhibit_Unknown(c) ==
  /\ held' = [held EXCEPT ![c] = @ - 1]
  /\ SetInhibitLocks(LocksLess(1))
  /\ UNCHANGED <<user, idles, fading, lockEnabled, overlayVars, lock, owed, elapsed>>

Uninhibit(c) ==
  /\ held[c] > 0
  /\ held' = [held EXCEPT ![c] = @ - 1]
  /\ SetInhibitLocks(LocksLess(1))
  /\ UNCHANGED <<user, idles, fading, lockEnabled, overlayVars, lock, owed, elapsed>>

\* unregisterOwnerCookies(): one decrement for each cookie, of which only the last can end
\* the inhibition.
ClientLeaves(c) ==
  /\ held[c] > 0
  /\ held' = [held EXCEPT ![c] = 0]
  /\ SetInhibitLocks(LocksLess(held[c]))
  /\ UNCHANGED <<user, idles, fading, lockEnabled, overlayVars, lock, owed, elapsed>>

-----------------------------------------------------------------------------
\* The lock screen's session hooks, which take the overlay down.
SessionLocked ==
  /\ lock = "pending"
  /\ lock' = "locked"
  /\ HideOverlay
  /\ UNCHANGED <<userVars, inhibitVars, phase, graceVars, suppressed, configVars, closures,
                 owed, elapsed>>

\* A lock that is undone, or that the compositor ends, granted or not: both fire the hook.
SessionUnlocked ==
  /\ lock \in {"pending", "locked"}
  /\ lock' = "none"
  /\ HideOverlay
  /\ UNCHANGED <<userVars, inhibitVars, phase, graceVars, suppressed, configVars, closures,
                 owed, elapsed>>

\* logind's Unlock while the compositor has not granted the lock: unlock() fires no hook
\* and the overlay stays.
PendingUnlocked ==
  /\ lock \in {"requested", "pending"}
  /\ lock' = "none"
  /\ forsaken' = (dim # "none")
  /\ UNCHANGED <<userVars, inhibitVars, phase, graceVars, suppressed, configVars, dim,
                 onFadeDone, closures, owed, elapsed>>

-----------------------------------------------------------------------------
\* Each "idled" begins at most one fade, and a fade that is cancelled takes a number more.
Generations == 1..(2 * MaxIdles)

Next ==
  \/ \E b \in Behaviors : CompositorIdled(b)
  \/ UserInput
  \/ \E b \in Behaviors : CompositorResumed(b)
  \/ \E b \in Behaviors : SuppressIdled(b)
  \/ \E b \in Behaviors : JoinFade(b)
  \/ \E b \in Behaviors : BeginFade(b)
  \/ \E b \in Behaviors : IdleAtOnce(b)
  \/ \E b \in Behaviors : CancelFade(b)
  \/ \E b \in Behaviors : Resume(b)
  \/ \E b \in Behaviors : IgnoreEvent(b)
  \/ DiscardEvent
  \/ \E g \in Generations : ShowOverlay(g)
  \/ \E g \in Generations : ShowOnOtherOutputs(g)
  \/ \E g \in Generations : ShowWithoutSurfaces(g)
  \/ RunHide
  \/ \E g \in Generations : RunDone(g)
  \/ \E g \in Generations : RunCheck(g)
  \/ LockRequestSent
  \/ FadeFinishes
  \/ FallbackFires
  \/ OutputsChange
  \/ Reload
  \/ \E c \in Clients : Inhibit(c)
  \/ \E c \in Clients : Uninhibit(c)
  \/ \E c \in Clients : ClientLeaves(c)
  \/ SessionLocked
  \/ SessionUnlocked
  \/ PendingUnlocked

Spec == Init /\ [][Next]_vars

\* Timers fire and closures run while the loop lives (TimerManager, MainLoop). Neither the
\* compositor nor the overlay need do anything for a fade to end.
RunClosure ==
  \/ \E g \in Generations : \/ ShowOverlay(g) \/ ShowOnOtherOutputs(g)
                            \/ ShowWithoutSurfaces(g) \/ RunDone(g) \/ RunCheck(g)
  \/ RunHide
  \/ LockRequestSent

FairSpec == Spec /\ WF_vars(FallbackFires) /\ WF_vars(RunClosure)

-----------------------------------------------------------------------------
TypeOK ==
  /\ user \in BOOLEAN
  /\ notification \in [Behaviors -> {"none", "active", "idle"}]
  /\ wire \in Seq(Event)
  /\ idles \in 0..MaxIdles
  /\ held \in [Clients -> 0..MaxHeld]
  /\ locks \in Nat
  /\ phase \in [Behaviors -> {"Waiting", "Fading", "Idled"}]
  /\ grace \subseteq Behaviors
  /\ willLock \in BOOLEAN
  /\ generation \in Nat
  /\ fallback \in Nat
  /\ suppressed \in BOOLEAN
  /\ fading \in FadeSettings /\ lockEnabled \in LockSettings
  /\ renewed \in BOOLEAN /\ forsaken \in BOOLEAN
  /\ dim \in {"none", "fading", "full"}
  /\ onFadeDone \in Nat
  /\ closures \in Seq(Closure)
  /\ lock \in {"none", "requested", "pending", "locked"}
  /\ owed \subseteq Behaviors
  /\ elapsed \subseteq Nat

\* The fade's list, its timer and the phases say the same: the behaviors in the list are
\* those in phase Fading, the fallback timer runs for the current generation exactly while
\* there is a fade, and the fade counts as one to the lock when a locking behavior is in it.
GraceIsFading ==
  /\ grace = {b \in Behaviors : phase[b] = "Fading"}
  /\ fallback = IF grace = {} THEN 0 ELSE generation
  /\ willLock = (grace \cap Locks # {})

Pending(event) == \E i \in 1..Len(wire) : wire[i] = event

\* A behavior that fades or has idled always hears of the user's return: its notification
\* is still idle in the compositor, or "resumed" is on its way. Otherwise the fade could not
\* be cancelled and the resume action would never run.
ReturnIsHeard ==
  \A b \in Behaviors :
    phase[b] # "Waiting" => notification[b] = "idle" \/ Pending(Resumed(b))

\* A waiting behavior always hears of the next idle period: its notification is not one
\* that has fired without the behavior taking notice, through an inhibit, a cancelled fade
\* or a reload, unless the user is back and "resumed" is about to be sent.
IdleIsHeard ==
  \A b \in Registered :
    phase[b] = "Waiting" /\ ~Pending(Idled(b)) /\ ~Pending(Resumed(b))
      => notification[b] = "active" \/ user

\* The counter that suppresses idling is zero exactly when no client holds a cookie, also
\* after a client that held several has left the bus.
InhibitsAreHeld == locks = 0 <=> \A c \in Clients : held[c] = 0

\* The action of a fade never runs before the time of that very fade has passed, on the
\* overlay or on the fallback timer: the late completion of a cancelled fade does not cut
\* the next one short.
FadeRunsItsTime ==
  [][\A b \in Behaviors : phase[b] = "Fading" /\ phase'[b] = "Idled"
       => generation \in elapsed']_vars

\* What a resume or a completion relies on: the fade is the one its list, timer and phases
\* tell of, and whoever is in it, or beyond it, will hear of the user's return.
FadeCoherent == GraceIsFading /\ ReturnIsHeard

\* No idle period is missed and none is suppressed for a client that is gone.
IdlePeriodsAreHeard == IdleIsHeard /\ InhibitsAreHeld

\* Once no fade runs, no closure is queued and the session is not being locked, the screen
\* is not dimmed, but for the overlay whose lock was given up before it was granted: that
\* one stays, until another fade takes it over. Recreated notifications (a reload, the end
\* of an inhibit) leave the overlay of a locking fade too, and so does a locking fade with
\* the lock screen disabled.
DimEnds ==
  lockEnabled /\ grace = {} /\ closures = <<>> /\ lock = "none" /\ ~forsaken => dim = "none"

\* "resume pairing" (assets/translations/en.json:1939): once the user is back and every
\* event has been handled, each action that ran, alone, after a fade or in a fade it joined,
\* has had its resume action. Recreated notifications break it too: an idled behavior
\* starts again as waiting.
ResumePaired ==
  user /\ wire = <<>> /\ (\A b \in Behaviors : notification[b] # "idle") => owed = {}

\* What idling did to the session, the dimming and the actions, is undone whichever way the
\* idle period goes: cancelled, joined, completed, or locked by a lock that is granted.
IdlingIsUndone == ~renewed => DimEnds /\ ResumePaired

\* Every fade ends, cancelled or completed, also when the outputs change and the overlay
\* drops its completion callback.
EveryFadeEnds == grace # {} ~> grace = {}
===============================================================================
