------------------------------ MODULE LockScreen ------------------------------
(***************************************************************************)
(* The session lock of the shell (shell/lockscreen/lock_screen.cpp): the   *)
(* LockScreen object on the main thread, the detached PAM threads, the     *)
(* deferred-call queue that brings results back, the suspend that waits    *)
(* for the lock, and the environment it races with: outputs that come and  *)
(* go, the compositor's side of ext-session-lock-v1, logind's signals.     *)
(*                                                                         *)
(* One action is one main-loop dispatch: a Wayland event, a timer, one     *)
(* deferred callback, a D-Bus signal or a user request runs to completion. *)
(* Both directions of the Wayland socket are queues, so what the client    *)
(* believes and what the compositor has decided can differ.                *)
(*                                                                         *)
(* The modelled configuration has blurred_desktop off (its default), so    *)
(* lock() never re-enters Wayland dispatch. The Wayland requests that make *)
(* an object (lock, surface, lock surface) succeed: they fail only when    *)
(* the client library is out of memory.                                    *)
(***************************************************************************)
EXTENDS Naturals, Sequences, FiniteSets

CONSTANTS
  Outputs,              \* the monitors that may be connected
  FingerprintEnabled,   \* lockscreen.fingerprint and a reader are present
  MaxLocks,             \* bound: lock objects created
  MaxRequests,          \* bound: lock_and_suspend requests
  MaxAuth,              \* bound: PAM attempts
  MaxSignals            \* bound: signals in logind's queue when a foreign one is sent

ASSUME LockScreenAssumption ==
  /\ FingerprintEnabled \in BOOLEAN
  /\ MaxLocks \in Nat
  /\ MaxRequests \in Nat
  /\ MaxAuth \in Nat
  /\ MaxSignals \in Nat

VARIABLES
  enabled,         \* ConfigService::isLockScreenEnabled()
  output,          \* WaylandConnection::outputs(): absent, bound or ready
  created,         \* number of lock objects created so far
  lock,            \* m_lock: serial of the lock object, None when null
  lockPending,     \* m_lockPending
  locked,          \* m_locked
  lockDeferred,    \* m_lockDeferred
  instances,       \* outputs with a LockSurface (m_instances)
  framed,          \* those whose firstFrameRendered() is true
  pendingAfter,    \* m_pendingAfterLocked: number of the request, None when empty
  requested,       \* number of lock_and_suspend requests so far
  suspendTimer,    \* m_suspendTimeoutTimer: the lock that armed it, None when idle
  authGeneration,  \* m_authGeneration
  authenticating,  \* m_authenticating
  attempts,        \* number of PAM attempts so far
  pam,             \* PAM threads still running
  fingerprint,     \* the FingerprintAuthenticator is active
  deferred,        \* closures in the DeferredCall queue
  hook,            \* last session hook fired
  logind,          \* logind Lock/Unlock signals not yet dispatched
  requests,        \* client -> compositor
  events,          \* compositor -> client
  server,          \* the compositor's state of each lock object
  protocolError    \* fatal error the compositor raised, or "none"

envVars  == <<enabled, output>>
lockVars == <<created, lock, lockPending, locked, lockDeferred, instances, framed>>
waitVars == <<pendingAfter, suspendTimer>>
authVars == <<authGeneration, authenticating, attempts, pam, fingerprint>>
wireVars == <<requests, events, server, protocolError>>
vars     == <<envVars, lockVars, waitVars, requested, authVars, deferred, hook,
              logind, wireVars>>

None  == 0
Locks == 1..MaxLocks

Attempt == [generation : Nat, lock : Locks]
\* "lock" is a history field: the lock the attempt was started under.
AuthClosure == [kind : {"auth"}, generation : Nat, lock : Locks, success : BOOLEAN]
SuspendClosure == [kind : {"suspend"}, request : 1..MaxRequests]
Closure == AuthClosure \union SuspendClosure
Request == [op : {"lock", "destroy", "unlock_and_destroy"}, lock : Locks]
Event   == [kind : {"locked", "finished"}, lock : Locks]

IsActive == lockPending \/ locked

\* outputs() is a list of every bound wl_output; only those that are done and
\* have a usable geometry get a lock surface.
Connected(outs) == {o \in Outputs : outs[o] # "absent"}
Usable(outs)    == {o \in Outputs : outs[o] = "ready"}

\* allSurfacesReady()
AllSurfacesReady(insts, drawn) == insts # {} /\ insts \subseteq drawn

\* Mutant: the closure is built from the function after it was moved out.
Suspend_Moved(fn) == [kind |-> "suspend", request |-> None]

Suspend(fn) == [kind |-> "suspend", request |-> fn]

\* Mutant: the flush forgets to ask whether the surfaces have drawn.
Flushable_AnySurface(fn, isLocked, insts, drawn) == isLocked /\ fn # None

\* tryFlushPendingAfterLocked() dispatches fn.
Flushable(fn, isLocked, insts, drawn) ==
  isLocked /\ fn # None /\ AllSurfacesReady(insts, drawn)

\* Mutant: the generation is left alone.
InvalidatePendingAuthentication_SameGeneration ==
  /\ authenticating' = FALSE
  /\ UNCHANGED authGeneration

\* invalidatePendingAuthentication(): no result of an earlier attempt counts.
InvalidatePendingAuthentication ==
  /\ authGeneration' = authGeneration + 1
  /\ authenticating' = FALSE

StartFingerprint == fingerprint' = FingerprintEnabled

StopFingerprint == fingerprint' = FALSE

\* Mutant: the pointer is dropped without a request.
DestroyLockObject_Leaked == lock' = None /\ UNCHANGED requests

\* The lock object leaves by the request its m_locked calls for.
DestroyLockObject ==
  /\ requests' = Append(requests,
                        [op |-> IF locked THEN "unlock_and_destroy" ELSE "destroy",
                         lock |-> lock])
  /\ lock' = None

\* unlock() fires the unlocked hook only for a lock the user saw.
UnlockHook == IF locked THEN "unlocked" ELSE hook

\* syncInstances(): surfaces of vanished outputs go, new outputs get one. Not
\* modelled: createInstance() leaves out an output whose wl_surface or lock
\* surface could not be allocated.
SyncInstances(outs) ==
  /\ instances' = Usable(outs)
  /\ framed' = framed \intersect Usable(outs)

\* Mutant: the fallback is not armed.
ArmSuspendTimer_Never == UNCHANGED suspendTimer

\* The 3 s fallback of handleLocked(); it remembers no lock, the model does.
ArmSuspendTimer == suspendTimer' = lock

\* A protocol error ends the process: MainLoop::run() throws.
Running == protocolError = "none"

-----------------------------------------------------------------------------
Init ==
  /\ enabled \in BOOLEAN
  /\ output \in [Outputs -> {"absent", "ready"}]
  /\ created = 0
  /\ lock = None
  /\ lockPending = FALSE
  /\ locked = FALSE
  /\ lockDeferred = FALSE
  /\ instances = {}
  /\ framed = {}
  /\ pendingAfter = None
  /\ requested = 0
  /\ suspendTimer = None
  /\ authGeneration = 0
  /\ authenticating = FALSE
  /\ attempts = 0
  /\ pam = {}
  /\ fingerprint = FALSE
  /\ deferred = <<>>
  /\ hook = "unlocked"
  /\ logind = <<>>
  /\ requests = <<>>
  /\ events = <<>>
  /\ server = [k \in Locks |-> "unknown"]
  /\ protocolError = "none"

-----------------------------------------------------------------------------
(* lock() past its early returns. At the call outputs() is outs,            *)
(* m_pendingAfterLocked is fn, m_lockDeferred is wasDeferred and logind's  *)
(* queue is signals.                                                       *)

\* No output at all: remember the request and run what waits for it now.
DeferLock(outs, fn, signals) ==
  /\ Connected(outs) = {}
  /\ lockDeferred' = TRUE
  /\ pendingAfter' = None
  /\ IF fn = None
     THEN UNCHANGED <<suspendTimer, deferred>>
     ELSE /\ suspendTimer' = None
          /\ deferred' = Append(deferred, Suspend(fn))
  /\ logind' = signals
  /\ UNCHANGED <<created, lock, lockPending, locked, instances, framed, requests>>

\* Outputs are bound but none is ready: the lock object is created and
\* resetLockState() gives it up at once.
AbandonLock(outs, signals) ==
  /\ Connected(outs) # {}
  /\ Usable(outs) = {}
  /\ created < MaxLocks
  /\ created' = created + 1
  /\ requests' = requests \o << [op |-> "lock", lock |-> created + 1],
                                [op |-> "unlock_and_destroy", lock |-> created + 1] >>
  /\ pendingAfter' = None
  /\ suspendTimer' = None
  /\ lockDeferred' = FALSE
  /\ logind' = signals
  /\ UNCHANGED <<lock, lockPending, locked, instances, framed, deferred>>

\* A lock object with one surface per usable output. The lock-engaged callback
\* makes logind emit Lock, which comes back to this process as a signal.
RequestLock(outs, fn, wasDeferred, signals) ==
  /\ Usable(outs) # {}
  /\ created < MaxLocks
  /\ created' = created + 1
  /\ lock' = created + 1
  /\ lockPending' = TRUE
  /\ locked' = FALSE
  /\ lockDeferred' = wasDeferred
  /\ instances' = Usable(outs)
  /\ framed' = {}
  /\ pendingAfter' = fn
  /\ requests' = Append(requests, [op |-> "lock", lock |-> created + 1])
  /\ logind' = Append(signals, "Lock")
  /\ UNCHANGED <<suspendTimer, deferred>>

Lock(outs, fn, wasDeferred, signals) ==
  /\ enabled
  /\ ~IsActive
  /\ \/ DeferLock(outs, fn, signals)
     \/ AbandonLock(outs, signals)
     \/ RequestLock(outs, fn, wasDeferred, signals)

(* unlock() of an active lock; every caller has established isActive().    *)
(* signals is logind's queue at the call and heard says whether the        *)
(* logind integration is on.                                               *)
Unlock(signals, heard) ==
  /\ lockDeferred' = FALSE
  /\ pendingAfter' = None
  /\ suspendTimer' = None
  /\ InvalidatePendingAuthentication
  /\ StopFingerprint
  /\ DestroyLockObject
  /\ lockPending' = FALSE
  /\ locked' = FALSE
  /\ instances' = {}
  /\ framed' = {}
  /\ hook' = UnlockHook
  /\ logind' = IF locked /\ heard THEN Append(signals, "Unlock") ELSE signals
  /\ UNCHANGED <<created, attempts, pam>>

-----------------------------------------------------------------------------
(* Requests of the user, of idle behaviours and of IPC clients.            *)

LockRequested ==
  /\ Running
  /\ Lock(output, pendingAfter, lockDeferred, logind)
  /\ UNCHANGED <<envVars, requested, authVars, hook, events, server, protocolError>>

\* runAfterSessionLocked(suspend)
RunAfterSessionLocked ==
  /\ Running
  /\ requested < MaxRequests
  /\ requested' = requested + 1
  /\ \/ /\ Flushable(requested + 1, locked, instances, framed)
        /\ pendingAfter' = None
        /\ suspendTimer' = None
        /\ deferred' = Append(deferred, Suspend(requested + 1))
        /\ UNCHANGED <<lockVars, logind, requests>>
     \/ /\ IsActive /\ ~Flushable(requested + 1, locked, instances, framed)
        /\ pendingAfter' = requested + 1
        /\ UNCHANGED <<lockVars, suspendTimer, deferred, logind, requests>>
     \/ Lock(output, requested + 1, lockDeferred, logind)
     \/ /\ ~IsActive /\ ~enabled
        /\ pendingAfter' = None
        /\ UNCHANGED <<lockVars, suspendTimer, deferred, logind, requests>>
  /\ UNCHANGED <<envVars, authVars, hook, events, server, protocolError>>

\* A configuration reload that turns the lock screen off or on. Turning it off
\* drops the logind proxy before onConfigChanged() unlocks.
ConfigReloaded ==
  /\ Running
  /\ enabled' = ~enabled
  /\ \/ /\ enabled /\ IsActive
        /\ Unlock(<<>>, FALSE)
     \/ /\ ~(enabled /\ IsActive)
        /\ logind' = IF enabled THEN <<>> ELSE logind
        /\ UNCHANGED <<lockVars, waitVars, authVars, hook, requests>>
  /\ UNCHANGED <<output, requested, deferred, events, server, protocolError>>

\* logind's Lock and Unlock signals: foreign ones and the echo of our own.
ForeignSignal(signal) ==
  /\ Running
  /\ enabled
  /\ Len(logind) < MaxSignals
  /\ logind' = Append(logind, signal)
  /\ UNCHANGED <<envVars, lockVars, waitVars, requested, authVars, deferred, hook, wireVars>>

LogindUnlock ==
  /\ Running
  /\ logind # <<>> /\ Head(logind) = "Unlock"
  /\ \/ /\ IsActive
        /\ Unlock(Tail(logind), TRUE)
     \/ /\ ~IsActive
        /\ logind' = Tail(logind)
        /\ UNCHANGED <<lockVars, waitVars, authVars, hook, requests>>
  /\ UNCHANGED <<envVars, requested, deferred, events, server, protocolError>>

\* The lock callback calls lock() when not active.
LogindLock ==
  /\ Running
  /\ logind # <<>> /\ Head(logind) = "Lock"
  /\ \/ /\ IsActive
        /\ logind' = Tail(logind)
        /\ UNCHANGED <<lockVars, waitVars, deferred, requests>>
     \/ Lock(output, pendingAfter, lockDeferred, Tail(logind))
  /\ UNCHANGED <<envVars, requested, authVars, hook, events, server, protocolError>>

-----------------------------------------------------------------------------
(* Outputs. A wl_output is bound when its global appears and ready once    *)
(* its events are in. onOutputChange() is called for the events of an      *)
(* output, ready or not, and for a removal, not for the global itself.     *)

\* Mutant: the flag is cleared without a new lock().
ResumeDeferredLock_FlagOnly(outs) ==
  /\ lockDeferred' = FALSE
  /\ UNCHANGED <<created, lock, lockPending, locked, instances, framed,
                 waitVars, deferred, logind, requests>>

\* A deferred lock is taken up again; lock() may still return early, or find no
\* usable output and forget the deferral.
ResumeDeferredLock(outs) ==
  \/ Lock(outs, pendingAfter, FALSE, logind)
  \/ /\ ~(enabled /\ ~IsActive)
     /\ lockDeferred' = FALSE
     /\ UNCHANGED <<created, lock, lockPending, locked, instances, framed,
                    waitVars, deferred, logind, requests>>

OnOutputChange(outs) ==
  \/ /\ lockDeferred /\ Connected(outs) # {}
     /\ ResumeDeferredLock(outs)
  \/ /\ ~lockDeferred /\ IsActive
     /\ SyncInstances(outs)
     /\ UNCHANGED <<created, lock, lockPending, locked, lockDeferred,
                    waitVars, deferred, logind, requests>>
  \/ /\ IF lockDeferred THEN Connected(outs) = {} ELSE ~IsActive
     /\ UNCHANGED <<lockVars, waitVars, deferred, logind, requests>>

OutputBound(o) ==
  /\ Running
  /\ output[o] = "absent"
  /\ output' = [output EXCEPT ![o] = "bound"]
  /\ UNCHANGED <<enabled, lockVars, waitVars, requested, authVars, deferred, hook,
                 logind, wireVars>>

\* xdg_output.done, or wl_output.done without a usable geometry.
OutputAnnounced(o) ==
  /\ Running
  /\ output[o] = "bound"
  /\ OnOutputChange(output)
  /\ UNCHANGED <<envVars, requested, authVars, hook, events, server, protocolError>>

OutputReady(o) ==
  /\ Running
  /\ output[o] = "bound"
  /\ output' = [output EXCEPT ![o] = "ready"]
  /\ OnOutputChange(output')
  /\ UNCHANGED <<enabled, requested, authVars, hook, events, server, protocolError>>

OutputRemoved(o) ==
  /\ Running
  /\ output[o] # "absent"
  /\ output' = [output EXCEPT ![o] = "absent"]
  /\ OnOutputChange(output')
  /\ UNCHANGED <<enabled, requested, authVars, hook, events, server, protocolError>>

-----------------------------------------------------------------------------
(* Lock surfaces and what waits for them.                                  *)

\* LockSurface::render() of a first frame, and its render callback
\* tryFlushPendingAfterLocked().
FirstFrame(o) ==
  /\ Running
  /\ o \in instances \ framed
  /\ framed' = framed \union {o}
  /\ IF Flushable(pendingAfter, locked, instances, framed')
     THEN /\ pendingAfter' = None
          /\ suspendTimer' = None
          /\ deferred' = Append(deferred, Suspend(pendingAfter))
     ELSE UNCHANGED <<waitVars, deferred>>
  /\ UNCHANGED <<envVars, created, lock, lockPending, locked, lockDeferred, instances,
                 requested, authVars, hook, logind, wireVars>>

\* A configure event with another size.
SurfaceResized(o) ==
  /\ Running
  /\ o \in framed
  /\ framed' = framed \ {o}
  /\ UNCHANGED <<envVars, created, lock, lockPending, locked, lockDeferred, instances,
                 waitVars, requested, authVars, deferred, hook, logind, wireVars>>

\* m_suspendTimeoutTimer runs out.
SuspendTimeout ==
  /\ Running
  /\ suspendTimer # None
  /\ suspendTimer' = None
  /\ pendingAfter' = None
  /\ deferred' = IF pendingAfter = None THEN deferred
                 ELSE Append(deferred, Suspend(pendingAfter))
  /\ UNCHANGED <<envVars, lockVars, requested, authVars, hook, logind, wireVars>>

-----------------------------------------------------------------------------
(* Authentication.                                                         *)

TryAuthenticate ==
  /\ Running
  /\ locked /\ ~authenticating
  /\ attempts < MaxAuth
  /\ attempts' = attempts + 1
  /\ StopFingerprint
  /\ authGeneration' = authGeneration + 1
  /\ authenticating' = TRUE
  /\ pam' = pam \union {[generation |-> authGeneration + 1, lock |-> lock]}
  /\ UNCHANGED <<envVars, lockVars, waitVars, requested, deferred, hook, logind, wireVars>>

\* The detached thread hands its result to the main thread.
PamAnswers(attempt, success) ==
  /\ Running
  /\ attempt \in pam
  /\ pam' = pam \ {attempt}
  /\ deferred' = Append(deferred, [kind |-> "auth", generation |-> attempt.generation,
                                   lock |-> attempt.lock, success |-> success])
  /\ UNCHANGED <<envVars, lockVars, waitVars, requested, authGeneration, authenticating,
                 attempts, fingerprint, hook, logind, wireVars>>

\* Mutant: the generation of the result is not compared.
AuthCurrent_AnyGeneration(closure) == locked

\* handleAuthResult() drops the results of earlier generations.
AuthCurrent(closure) == closure.generation = authGeneration /\ locked

AuthResult ==
  /\ Running
  /\ deferred # <<>> /\ Head(deferred).kind = "auth"
  /\ deferred' = Tail(deferred)
  /\ \/ /\ ~AuthCurrent(Head(deferred))
        /\ UNCHANGED <<lockVars, waitVars, authVars, hook, logind, requests>>
     \/ /\ AuthCurrent(Head(deferred)) /\ Head(deferred).success
        /\ Unlock(logind, enabled)
     \/ /\ AuthCurrent(Head(deferred)) /\ ~Head(deferred).success
        /\ authenticating' = FALSE
        /\ StartFingerprint
        /\ UNCHANGED <<lockVars, waitVars, authGeneration, attempts, pam, hook, logind, requests>>
  /\ UNCHANGED <<envVars, requested, events, server, protocolError>>

FingerprintMatched ==
  /\ Running
  /\ fingerprint
  /\ Unlock(logind, enabled)
  /\ UNCHANGED <<envVars, requested, deferred, events, server, protocolError>>

\* The deferred suspend runs whatever has become of the lock.
SuspendRuns ==
  /\ Running
  /\ deferred # <<>> /\ Head(deferred).kind = "suspend"
  /\ deferred' = Tail(deferred)
  /\ UNCHANGED <<envVars, lockVars, waitVars, requested, authVars, hook, logind, wireVars>>

-----------------------------------------------------------------------------
(* Events of the lock object.                                              *)

HandleLocked ==
  /\ Running
  /\ events # <<>> /\ Head(events) = [kind |-> "locked", lock |-> lock]
  /\ lock # None /\ lockPending
  /\ events' = Tail(events)
  /\ lockPending' = FALSE
  /\ locked' = TRUE
  /\ StartFingerprint
  /\ hook' = "locked"
  /\ IF Flushable(pendingAfter, TRUE, instances, framed)
     THEN /\ pendingAfter' = None
          /\ suspendTimer' = None
          /\ deferred' = Append(deferred, Suspend(pendingAfter))
     ELSE /\ ArmSuspendTimer
          /\ UNCHANGED <<pendingAfter, deferred>>
  /\ UNCHANGED <<envVars, created, lock, lockDeferred, instances, framed, requested,
                 authGeneration, authenticating, attempts, pam, logind,
                 requests, server, protocolError>>

HandleFinished ==
  /\ Running
  /\ events # <<>> /\ Head(events) = [kind |-> "finished", lock |-> lock]
  /\ lock # None
  /\ events' = Tail(events)
  /\ pendingAfter' = None
  /\ InvalidatePendingAuthentication
  /\ StopFingerprint
  /\ DestroyLockObject
  /\ lockPending' = FALSE
  /\ locked' = FALSE
  /\ instances' = {}
  /\ framed' = {}
  /\ hook' = "unlocked"
  /\ logind' = IF enabled THEN Append(logind, "Unlock") ELSE logind
  /\ UNCHANGED <<envVars, created, lockDeferred, suspendTimer, requested, attempts, pam,
                 deferred, server, protocolError>>

\* libwayland discards the events of an object the client has destroyed.
DiscardEvent ==
  /\ Running
  /\ events # <<>> /\ Head(events).lock # lock
  /\ events' = Tail(events)
  /\ UNCHANGED <<envVars, lockVars, waitVars, requested, authVars, deferred, hook, logind,
                 requests, server, protocolError>>

-----------------------------------------------------------------------------
(* The compositor's side of ext-session-lock-v1: every lock object is      *)
(* answered by locked or finished, a locked one may be finished later; an  *)
(* object that was told locked must leave by unlock_and_destroy, any other *)
(* by destroy, or the client is disconnected.                              *)

SessionLocked == \E k \in Locks : server[k] = "locked"

ServerHandlesRequest ==
  /\ Running
  /\ requests # <<>>
  /\ requests' = Tail(requests)
  /\ LET k    == Head(requests).lock
         told == server[k] \in {"locked", "revoked"}
     IN \/ /\ Head(requests).op = "lock"
           /\ server' = [server EXCEPT ![k] = "asked"]
           /\ UNCHANGED protocolError
        \/ /\ Head(requests).op = "destroy"
           /\ server' = IF told THEN server ELSE [server EXCEPT ![k] = "gone"]
           /\ protocolError' = IF told THEN "invalid_destroy" ELSE "none"
        \/ /\ Head(requests).op = "unlock_and_destroy"
           /\ server' = IF told THEN [server EXCEPT ![k] = "gone"] ELSE server
           /\ protocolError' = IF told THEN "none" ELSE "invalid_unlock"
  /\ UNCHANGED <<envVars, lockVars, waitVars, requested, authVars, deferred, hook, logind,
                 events>>

ServerLocks(k) ==
  /\ Running
  /\ server[k] = "asked" /\ ~SessionLocked
  /\ server' = [server EXCEPT ![k] = "locked"]
  /\ events' = Append(events, [kind |-> "locked", lock |-> k])
  /\ UNCHANGED <<envVars, lockVars, waitVars, requested, authVars, deferred, hook, logind,
                 requests, protocolError>>

ServerRefuses(k) ==
  /\ Running
  /\ server[k] = "asked"
  /\ server' = [server EXCEPT ![k] = "denied"]
  /\ events' = Append(events, [kind |-> "finished", lock |-> k])
  /\ UNCHANGED <<envVars, lockVars, waitVars, requested, authVars, deferred, hook, logind,
                 requests, protocolError>>

\* The compositor withdraws a lock it had granted.
ServerRevokes(k) ==
  /\ Running
  /\ server[k] = "locked"
  /\ server' = [server EXCEPT ![k] = "revoked"]
  /\ events' = Append(events, [kind |-> "finished", lock |-> k])
  /\ UNCHANGED <<envVars, lockVars, waitVars, requested, authVars, deferred, hook, logind,
                 requests, protocolError>>

-----------------------------------------------------------------------------
User ==
  \/ LockRequested \/ RunAfterSessionLocked \/ ConfigReloaded \/ TryAuthenticate
  \/ \E signal \in {"Lock", "Unlock"} : ForeignSignal(signal)

Shell ==
  \/ LogindLock \/ LogindUnlock
  \/ \E o \in Outputs : FirstFrame(o) \/ SurfaceResized(o)
  \/ SuspendTimeout \/ AuthResult \/ FingerprintMatched \/ SuspendRuns
  \/ HandleLocked \/ HandleFinished \/ DiscardEvent

Environment ==
  \/ \E o \in Outputs :
       OutputBound(o) \/ OutputAnnounced(o) \/ OutputReady(o) \/ OutputRemoved(o)
  \/ \E attempt \in pam, success \in BOOLEAN : PamAnswers(attempt, success)
  \/ ServerHandlesRequest
  \/ \E k \in Locks : ServerLocks(k) \/ ServerRefuses(k) \/ ServerRevokes(k)

Next == User \/ Shell \/ Environment

\* The main loop keeps dispatching Wayland events, timers, deferred closures and
\* D-Bus signals, and the compositor answers every lock.
Fairness ==
  /\ WF_vars(HandleLocked \/ HandleFinished \/ DiscardEvent)
  /\ WF_vars(SuspendTimeout)
  /\ WF_vars(AuthResult \/ SuspendRuns)
  /\ \A o \in Outputs : WF_vars(FirstFrame(o))
  /\ WF_vars(ServerHandlesRequest)
  /\ \A k \in Locks : WF_vars(ServerLocks(k) \/ ServerRefuses(k))

Spec     == Init /\ [][Next]_vars
FairSpec == Spec /\ Fairness
-----------------------------------------------------------------------------
(* Properties.                                                             *)

\* Every variable keeps its type.
TypeOK ==
  /\ enabled \in BOOLEAN
  /\ output \in [Outputs -> {"absent", "bound", "ready"}]
  /\ created \in 0..MaxLocks
  /\ lock \in Locks \union {None}
  /\ lockPending \in BOOLEAN /\ locked \in BOOLEAN /\ lockDeferred \in BOOLEAN
  /\ instances \subseteq Outputs /\ framed \subseteq Outputs
  /\ pendingAfter \in 0..MaxRequests /\ requested \in 0..MaxRequests
  /\ suspendTimer \in Locks \union {None}
  /\ authGeneration \in Nat /\ authenticating \in BOOLEAN /\ attempts \in 0..MaxAuth
  /\ pam \subseteq Attempt
  /\ fingerprint \in BOOLEAN
  /\ deferred \in Seq(Closure)
  /\ hook \in {"unlocked", "locked"}
  /\ logind \in Seq({"Lock", "Unlock"})
  /\ requests \in Seq(Request)
  /\ events \in Seq(Event)
  /\ server \in [Locks -> {"unknown", "asked", "locked", "denied", "revoked", "gone"}]
  /\ protocolError \in {"none", "invalid_destroy", "invalid_unlock"}

\* The flags, the lock object, the surfaces and the authentication agree on every
\* path out of lock(), unlock(), handleFinished() and resetLockState(): a lock
\* object exists exactly while a lock is pending or held, a deferred lock is never
\* active, and authentication runs only in a held lock, password and reader never
\* together.
LockStateConsistent ==
  /\ (lock # None) <=> IsActive
  /\ ~(lockPending /\ locked)
  /\ lockDeferred => ~IsActive
  /\ authenticating \/ fingerprint => locked
  /\ ~(authenticating /\ fingerprint)
  /\ pendingAfter # None => IsActive
  /\ framed \subseteq instances

\* While a lock is pending or held every usable output has a lock surface, through
\* hot-plug and through a deferred lock (syncInstances(), onOutputChange()).
EveryOutputCovered == IsActive => instances = Usable(output)

\* A password result that handleAuthResult() would act on comes from an attempt
\* started under the lock now held, and it is the only attempt of its generation.
AuthBelongsToLock ==
  /\ \A a \in pam : a.generation = authGeneration /\ locked => a.lock = lock
  /\ \A i \in 1..Len(deferred) :
       deferred[i].kind = "auth" /\ deferred[i].generation = authGeneration /\ locked
         => /\ deferred[i].lock = lock
            /\ \A a \in pam : a.generation # authGeneration
            /\ \A j \in 1..Len(deferred) :
                 deferred[j].kind = "auth" /\ deferred[j].generation = authGeneration
                   => i = j

\* With nothing in flight on the Wayland socket the shell and the compositor agree
\* on which lock, if any, holds the session.
CompositorAgrees ==
  protocolError = "none" /\ requests = <<>> /\ events = <<>>
    => \A k \in Locks : server[k] = "locked" <=> (locked /\ lock = k)

\* The session hooks alternate with the lock: the hook fired last tells whether
\* the session is locked, whichever way it was left.
HooksFollowLock == hook = "locked" <=> locked

\* What a handler of LockScreen may rely on whenever it starts, whichever handlers
\* ran before it: flags, lock object, surfaces, session hook and authentication
\* describe one and the same lock.
LockCoherent ==
  LockStateConsistent /\ EveryOutputCovered /\ HooksFollowLock /\ AuthBelongsToLock

\* A lock the user sees ends only for a reason its handler was given: a handler that took a
\* closure took the successful answer to the newest attempt of that very lock; one that took an
\* event took this lock's finished; a reload turned the lock screen off; any other was called for
\* logind's Unlock or for a finger while the reader was armed and no password was being checked.
\* A reason that merely happens to be there does not excuse a handler that acted on another.
UnlockIsAuthorised ==
  [][locked /\ ~locked' =>
       /\ deferred' # deferred =>
            Head(deferred) = [kind |-> "auth", generation |-> authGeneration,
                              lock |-> lock, success |-> TRUE]
       /\ events' # events => Head(events) = [kind |-> "finished", lock |-> lock]
       /\ enabled' => enabled
       /\ UNCHANGED <<deferred, events, enabled>> =>
            \/ fingerprint /\ ~authenticating
            \/ logind # <<>> /\ Head(logind) = "Unlock"]_vars

\* The step dispatches the suspend that waited for the lock.
SuspendLeaves == Len(deferred') > Len(deferred) /\ deferred'[Len(deferred')].kind = "suspend"

\* A suspend leaves runAfterSessionLocked() in a held lock once every surface has drawn a frame
\* or that lock's own 3 s have run out, or when no output could show a surface. The one way to
\* overtake the lock is a timer that an earlier lock left running, and then the new lock is
\* still pending: handleLocked() arms the timer anew (SuspendAfterLock is the claim itself).
SuspendWaitsForSurfaces ==
  [][SuspendLeaves =>
       \/ locked' /\ AllSurfacesReady(instances', framed')
       \/ locked' /\ suspendTimer = lock
       \/ Connected(output') = {}
       \/ lockPending /\ suspendTimer \in 1..(lock - 1)]_vars

\* Claim of lock_screen.h ("Runs `fn` after the session reaches interactive lock (`m_locked`), or
\* immediately if already locked"): no suspend is dispatched before the lock it waits for is
\* held, but for the case lock() documents, an empty list of outputs.
SuspendAfterLock == [][SuspendLeaves => locked' \/ Connected(output') = {}]_vars

\* A request to lock is not lost on the way. A pending lock is given up only for this lock's
\* finished, logind's Unlock or a reload that disables it; no password, finger, timer or output
\* ends it. A deferred lock is given up only for a requested one, with the lock screen disabled,
\* or to an output that was announced before it was usable: lock() has nothing to show there and
\* resetLockState() forgets the deferral.
LockRequestKept ==
  [][/\ lockPending /\ ~IsActive' =>
          /\ deferred' = deferred
          /\ events' # events => Head(events) = [kind |-> "finished", lock |-> lock]
          /\ enabled' => enabled
          /\ UNCHANGED <<events, enabled>> => logind # <<>> /\ Head(logind) = "Unlock"
     /\ lockDeferred /\ ~lockDeferred' =>
          \/ lockPending'
          \/ ~enabled'
          \/ Connected(output') # {} /\ Usable(output') = {}]_vars

\* A suspend that waits for a pending lock is dispatched or dropped in the end,
\* even when a surface never draws (the fallback timer of handleLocked()).
PendingSuspendResolves ==
  lockPending /\ pendingAfter # None ~> pendingAfter = None \/ protocolError # "none"

\* A suspend that was asked for with the lock follows it, but for the stale timer: it neither
\* overtakes the lock nor is it lost.
SuspendFollowsLock == SuspendWaitsForSurfaces /\ PendingSuspendResolves

\* Claim of resetLockState() ("unlock_and_destroy is required once the compositor
\* may have entered the locked state (including while m_lockPending is still true
\* locally)"): a lock object the compositor has locked never leaves by destroy.
LockedNeverDestroyed == protocolError # "invalid_destroy"
===============================================================================
