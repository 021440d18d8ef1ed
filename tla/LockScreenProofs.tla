--------------------------- MODULE LockScreenProofs ---------------------------
(***************************************************************************)
(* Theorems about LockScreen for every set of outputs and every bound.     *)
(* The state of the lock (flags, lock object, surfaces, hooks) is one      *)
(* inductive invariant, IndInv; the authentication generations are a       *)
(* second one, AuthInv, and what shell and compositor have in flight to    *)
(* each other a third, WireInv, both relative to the first.                *)
(***************************************************************************)
EXTENDS LockScreen, TLAPS

\* A lock waits for an output only while none is usable.
DeferredHasNoOutput == lockDeferred => Usable(output) = {}

\* What every step keeps of the lock's state.
LockInv == LockStateConsistent /\ DeferredHasNoOutput /\ EveryOutputCovered /\ HooksFollowLock

\* The inductive invariant behind type correctness and the lock's state.
IndInv == TypeOK /\ LockInv

LEMMA InitIndInv == Init => IndInv
<1> SUFFICES ASSUME Init PROVE IndInv
  OBVIOUS
<1> USE DEF Init
<1>1. output \in [Outputs -> {"absent", "bound", "ready"}]
  OBVIOUS
<1>2. /\ deferred \in Seq(Closure) /\ logind \in Seq({"Lock", "Unlock"})
      /\ requests \in Seq(Request) /\ events \in Seq(Event)
  OBVIOUS
<1>3. server \in [Locks -> {"unknown", "asked", "locked", "denied", "revoked", "gone"}]
  OBVIOUS
<1>4. /\ enabled \in BOOLEAN /\ instances \subseteq Outputs /\ framed \subseteq Outputs
      /\ pam \subseteq Attempt
  OBVIOUS
<1>5. /\ created \in 0..MaxLocks /\ attempts \in 0..MaxAuth /\ authGeneration \in Nat
      /\ pendingAfter \in 0..MaxRequests /\ requested \in 0..MaxRequests
  BY LockScreenAssumption DEF None
<1>6. /\ lock \in Locks \union {None} /\ suspendTimer \in Locks \union {None}
      /\ lockPending \in BOOLEAN /\ locked \in BOOLEAN /\ lockDeferred \in BOOLEAN
      /\ authenticating \in BOOLEAN /\ fingerprint \in BOOLEAN
      /\ hook \in {"unlocked", "locked"}
      /\ protocolError \in {"none", "invalid_destroy", "invalid_unlock"}
  OBVIOUS
<1>7. TypeOK
  BY <1>1, <1>2, <1>3, <1>4, <1>5, <1>6 DEF TypeOK
<1>8. LockInv
  BY DEF LockInv, LockStateConsistent, DeferredHasNoOutput, EveryOutputCovered, HooksFollowLock,
         IsActive, None
<1>9. QED BY <1>7, <1>8 DEF IndInv

\* What lock() may change, wherever it is called from: the parts of the type
\* invariant it touches.
LEMMA LockType ==
  ASSUME TypeOK, NEW outs, NEW fn \in 0..MaxRequests, NEW wasDeferred \in BOOLEAN,
         NEW signals \in Seq({"Lock", "Unlock"}),
         Lock(outs, fn, wasDeferred, signals)
  PROVE  /\ created' \in 0..MaxLocks
         /\ lock' \in Locks \union {None}
         /\ lockPending' \in BOOLEAN /\ locked' \in BOOLEAN /\ lockDeferred' \in BOOLEAN
         /\ instances' \subseteq Outputs /\ framed' \subseteq Outputs
         /\ pendingAfter' \in 0..MaxRequests
         /\ suspendTimer' \in Locks \union {None}
         /\ deferred' \in Seq(Closure)
         /\ logind' \in Seq({"Lock", "Unlock"})
         /\ requests' \in Seq(Request)
<1>1. CASE DeferLock(outs, fn, signals)
  <2>1. deferred' \in Seq(Closure)
    <3>1. CASE fn = None
      BY <1>1, <3>1 DEF DeferLock, TypeOK
    <3>2. CASE fn # None
      <4>1. Suspend(fn) \in Closure
        BY <3>2, LockScreenAssumption DEF Suspend, Closure, SuspendClosure, None
      <4>2. deferred' = Append(deferred, Suspend(fn))
        BY <1>1, <3>2 DEF DeferLock
      <4>3. QED BY <4>1, <4>2 DEF TypeOK
    <3>3. QED BY <3>1, <3>2
  <2>2. /\ pendingAfter' \in 0..MaxRequests
        /\ suspendTimer' \in Locks \union {None}
    BY <1>1, LockScreenAssumption DEF DeferLock, TypeOK, None
  <2>3. QED BY <1>1, <2>1, <2>2 DEF DeferLock, TypeOK
<1>2. CASE AbandonLock(outs, signals)
  <2>1. created + 1 \in Locks
    BY <1>2, LockScreenAssumption DEF AbandonLock, TypeOK, Locks
  <2>2. /\ [op |-> "lock", lock |-> created + 1] \in Request
        /\ [op |-> "unlock_and_destroy", lock |-> created + 1] \in Request
    BY <2>1 DEF Request
  <2>3. requests' \in Seq(Request)
    BY <1>2, <2>2 DEF AbandonLock, TypeOK
  <2>4. created' \in 0..MaxLocks /\ pendingAfter' \in 0..MaxRequests
    BY <1>2, LockScreenAssumption DEF AbandonLock, TypeOK, None
  <2>5. QED BY <1>2, <2>3, <2>4 DEF AbandonLock, TypeOK
<1>3. CASE RequestLock(outs, fn, wasDeferred, signals)
  <2>1. created + 1 \in Locks
    BY <1>3, LockScreenAssumption DEF RequestLock, TypeOK, Locks
  <2>2. requests' \in Seq(Request) /\ logind' \in Seq({"Lock", "Unlock"})
    BY <1>3, <2>1 DEF RequestLock, TypeOK, Request
  <2>3. Usable(outs) \subseteq Outputs
    BY DEF Usable
  <2>4. created' \in 0..MaxLocks
    BY <1>3, LockScreenAssumption DEF RequestLock, TypeOK
  <2>5. QED BY <1>3, <2>1, <2>2, <2>3, <2>4 DEF RequestLock, TypeOK
<1>4. QED BY <1>1, <1>2, <1>3 DEF Lock

\* lock() leaves a consistent state, wherever it is called from.
LEMMA LockKeeps ==
  ASSUME IndInv, NEW fn, NEW wasDeferred \in BOOLEAN, NEW signals,
         Lock(output', fn, wasDeferred, signals),
         wasDeferred => Usable(output') = {},
         UNCHANGED <<authenticating, fingerprint, hook>>
  PROVE  LockInv'
<1> USE DEF IndInv, LockInv, LockStateConsistent, DeferredHasNoOutput, EveryOutputCovered,
            HooksFollowLock, IsActive
<1>1. ~lockPending /\ ~locked
  BY DEF Lock
<1>2. CASE DeferLock(output', fn, signals)
  <2>1. Usable(output') = {}
    BY <1>2 DEF DeferLock, Connected, Usable
  <2>2. QED BY <1>1, <1>2, <2>1 DEF DeferLock
<1>3. CASE AbandonLock(output', signals)
  BY <1>1, <1>3 DEF AbandonLock
<1>4. CASE RequestLock(output', fn, wasDeferred, signals)
  <2>1. lock' # None
    BY <1>4, LockScreenAssumption DEF RequestLock, None, TypeOK
  <2>2. ~wasDeferred
    BY <1>4 DEF RequestLock
  <2>3. QED BY <1>1, <1>4, <2>1, <2>2 DEF RequestLock
<1>5. QED BY <1>2, <1>3, <1>4 DEF Lock

\* unlock() of an active lock: types and consistency.
LEMMA UnlockType ==
  ASSUME TypeOK, LockStateConsistent, IsActive,
         NEW signals \in Seq({"Lock", "Unlock"}), NEW heard \in BOOLEAN,
         Unlock(signals, heard)
  PROVE  /\ created' \in 0..MaxLocks
         /\ lock' \in Locks \union {None}
         /\ lockPending' \in BOOLEAN /\ locked' \in BOOLEAN /\ lockDeferred' \in BOOLEAN
         /\ instances' \subseteq Outputs /\ framed' \subseteq Outputs
         /\ pendingAfter' \in 0..MaxRequests
         /\ suspendTimer' \in Locks \union {None}
         /\ authGeneration' \in Nat /\ authenticating' \in BOOLEAN
         /\ attempts' \in 0..MaxAuth /\ pam' \subseteq Attempt
         /\ fingerprint' \in BOOLEAN
         /\ hook' \in {"unlocked", "locked"}
         /\ logind' \in Seq({"Lock", "Unlock"})
         /\ requests' \in Seq(Request)
<1>1. lock \in Locks
  BY DEF TypeOK, LockStateConsistent
<1>2. requests' \in Seq(Request)
  BY <1>1 DEF Unlock, DestroyLockObject, Request, TypeOK
<1>3. logind' \in Seq({"Lock", "Unlock"})
  BY DEF Unlock
<1>4. hook' \in {"unlocked", "locked"}
  BY DEF Unlock, UnlockHook, TypeOK
<1>5. pendingAfter' \in 0..MaxRequests /\ authGeneration' \in Nat
  BY LockScreenAssumption DEF Unlock, InvalidatePendingAuthentication, TypeOK, None
<1>6. /\ created' \in 0..MaxLocks /\ attempts' \in 0..MaxAuth /\ pam' \subseteq Attempt
      /\ instances' \subseteq Outputs /\ framed' \subseteq Outputs
  BY DEF Unlock, TypeOK
<1>7. /\ lock' \in Locks \union {None} /\ suspendTimer' \in Locks \union {None}
      /\ lockPending' \in BOOLEAN /\ locked' \in BOOLEAN /\ lockDeferred' \in BOOLEAN
      /\ authenticating' \in BOOLEAN /\ fingerprint' \in BOOLEAN
  BY DEF Unlock, DestroyLockObject, InvalidatePendingAuthentication, StopFingerprint
<1>8. QED BY <1>2, <1>3, <1>4, <1>5, <1>6, <1>7

LEMMA UnlockKeeps ==
  ASSUME IndInv, IsActive, NEW signals, NEW heard, Unlock(signals, heard)
  PROVE  LockInv'
BY DEF IndInv, LockInv, TypeOK, LockStateConsistent, DeferredHasNoOutput, EveryOutputCovered,
       HooksFollowLock, IsActive, Unlock, DestroyLockObject, StopFingerprint,
       InvalidatePendingAuthentication, UnlockHook

LEMMA AppendSuspend ==
  ASSUME TypeOK, NEW fn \in 0..MaxRequests, fn # None
  PROVE  Append(deferred, Suspend(fn)) \in Seq(Closure)
<1>1. Suspend(fn) \in Closure
  BY LockScreenAssumption DEF Suspend, Closure, SuspendClosure, None
<1>2. QED BY <1>1 DEF TypeOK

\* Every step keeps the types.
LEMMA NextTypeOK == IndInv /\ Next => TypeOK'
<1> SUFFICES ASSUME IndInv, Next PROVE TypeOK'
  OBVIOUS
<1> USE DEF envVars, lockVars, waitVars, authVars, wireVars
<1>0. TypeOK /\ LockStateConsistent
  BY DEF IndInv, LockInv
<1>1. CASE LockRequested
  BY <1>0, <1>1, LockType DEF LockRequested, TypeOK
<1>2. CASE RunAfterSessionLocked
  <2>1. /\ requested' \in 0..MaxRequests /\ requested + 1 # None
        /\ requested' = requested + 1 /\ None \in 0..MaxRequests
    BY <1>0, <1>2, LockScreenAssumption DEF RunAfterSessionLocked, TypeOK, None
  <2>2. UNCHANGED <<envVars, authVars, hook, events, server, protocolError>>
    BY <1>2 DEF RunAfterSessionLocked
  <2>3. CASE /\ pendingAfter' = None /\ suspendTimer' = None
             /\ deferred' = Append(deferred, Suspend(requested + 1))
             /\ UNCHANGED <<lockVars, logind, requests>>
    <3>1. deferred' \in Seq(Closure)
      BY <1>0, <2>1, <2>3, AppendSuspend
    <3>2. QED BY <1>0, <2>1, <2>2, <2>3, <3>1 DEF TypeOK
  <2>4. CASE Lock(output, requested + 1, lockDeferred, logind)
    BY <1>0, <2>1, <2>2, <2>4, LockType DEF TypeOK
  <2>5. CASE /\ pendingAfter' \in {None, requested + 1}
             /\ UNCHANGED <<lockVars, suspendTimer, deferred, logind, requests>>
    BY <1>0, <2>1, <2>2, <2>5 DEF TypeOK
  <2>6. QED BY <1>2, <2>3, <2>4, <2>5 DEF RunAfterSessionLocked
<1>3. CASE ConfigReloaded
  <2>1. /\ enabled' \in BOOLEAN
        /\ UNCHANGED <<output, requested, deferred, events, server, protocolError>>
    BY <1>3 DEF ConfigReloaded
  <2>2. CASE IsActive /\ Unlock(<<>>, FALSE)
    <3>1. <<>> \in Seq({"Lock", "Unlock"})
      OBVIOUS
    <3>2. QED BY <1>0, <2>1, <2>2, <3>1, UnlockType DEF TypeOK
  <2>3. CASE /\ logind' = IF enabled THEN <<>> ELSE logind
             /\ UNCHANGED <<lockVars, waitVars, authVars, hook, requests>>
    BY <1>0, <2>1, <2>3 DEF TypeOK
  <2>4. QED BY <1>3, <2>2, <2>3 DEF ConfigReloaded
<1>4. CASE TryAuthenticate
  <2>1. lock \in Locks
    BY <1>0, <1>4 DEF TryAuthenticate, TypeOK, LockStateConsistent, IsActive
  <2>2. authGeneration' \in Nat /\ attempts' \in 0..MaxAuth
    BY <1>0, <1>4, LockScreenAssumption DEF TryAuthenticate, TypeOK
  <2>3. pam' \subseteq Attempt
    BY <1>0, <1>4, <2>1 DEF TryAuthenticate, TypeOK, Attempt
  <2>4. QED BY <1>0, <1>4, <2>2, <2>3 DEF TryAuthenticate, TypeOK, StopFingerprint
<1>5. ASSUME NEW signal \in {"Lock", "Unlock"}, ForeignSignal(signal) PROVE TypeOK'
  BY <1>0, <1>5 DEF ForeignSignal, TypeOK
<1>6. CASE LogindLock
  <2>1. logind # <<>> /\ Tail(logind) \in Seq({"Lock", "Unlock"})
    BY <1>0, <1>6 DEF LogindLock, TypeOK
  <2>2. CASE Lock(output, pendingAfter, lockDeferred, Tail(logind))
    <3>1. ASSUME NEW signals \in Seq({"Lock", "Unlock"}),
                 Lock(output, pendingAfter, lockDeferred, signals),
                 UNCHANGED <<envVars, requested, authVars, hook, events, server, protocolError>>
          PROVE  TypeOK'
      BY SMTT(30), <1>0, <3>1, LockType DEF TypeOK
    <3>2. QED BY <1>6, <2>1, <2>2, <3>1 DEF LogindLock
  <2>3. CASE logind' = Tail(logind) /\ UNCHANGED <<lockVars, waitVars, deferred, requests>>
    BY <1>0, <1>6, <2>1, <2>3 DEF LogindLock, TypeOK
  <2>4. QED BY <1>6, <2>2, <2>3 DEF LogindLock
<1>7. CASE LogindUnlock
  <2>1. logind # <<>> /\ Tail(logind) \in Seq({"Lock", "Unlock"})
    BY <1>0, <1>7 DEF LogindUnlock, TypeOK
  <2>2. CASE IsActive /\ Unlock(Tail(logind), TRUE)
    BY <1>0, <1>7, <2>1, <2>2, UnlockType DEF LogindUnlock, TypeOK
  <2>3. CASE logind' = Tail(logind) /\ UNCHANGED <<lockVars, waitVars, authVars, hook, requests>>
    BY <1>0, <1>7, <2>1, <2>3 DEF LogindUnlock, TypeOK
  <2>4. QED BY <1>7, <2>2, <2>3 DEF LogindUnlock
<1>8. ASSUME NEW o \in Outputs, FirstFrame(o) PROVE TypeOK'
  <2>1. CASE Flushable(pendingAfter, locked, instances, framed')
    <3>1. Append(deferred, Suspend(pendingAfter)) \in Seq(Closure)
      BY <1>0, <2>1, AppendSuspend DEF Flushable, TypeOK
    <3>2. pendingAfter' \in 0..MaxRequests /\ suspendTimer' \in Locks \union {None}
      BY <1>8, <2>1, LockScreenAssumption DEF FirstFrame, None
    <3>3. QED BY ZenonT(60), <1>0, <1>8, <2>1, <3>1, <3>2 DEF FirstFrame, TypeOK
  <2>2. CASE ~Flushable(pendingAfter, locked, instances, framed')
    BY <1>0, <1>8, <2>2 DEF FirstFrame, TypeOK
  <2>3. QED BY <2>1, <2>2
<1>9. ASSUME NEW o \in Outputs, SurfaceResized(o) PROVE TypeOK'
  BY <1>0, <1>9 DEF SurfaceResized, TypeOK
<1>10. CASE SuspendTimeout
  <2>1. deferred' \in Seq(Closure)
    BY <1>0, <1>10, AppendSuspend DEF SuspendTimeout, TypeOK
  <2>2. QED BY <1>0, <1>10, <2>1, LockScreenAssumption DEF SuspendTimeout, TypeOK, None
<1>11. CASE AuthResult
  <2>1. deferred' \in Seq(Closure)
    BY <1>0, <1>11 DEF AuthResult, TypeOK
  <2>2. CASE locked /\ Unlock(logind, enabled)
    BY <1>0, <1>11, <2>1, <2>2, UnlockType DEF AuthResult, TypeOK, IsActive
  <2>3. CASE UNCHANGED <<lockVars, waitVars, authVars, hook, logind, requests>>
    BY <1>0, <1>11, <2>1, <2>3 DEF AuthResult, TypeOK
  <2>4. CASE /\ authenticating' = FALSE /\ StartFingerprint
             /\ UNCHANGED <<lockVars, waitVars, authGeneration, attempts, pam, hook, logind, requests>>
    BY ZenonT(60), <1>0, <1>11, <2>1, <2>4, LockScreenAssumption DEF AuthResult, TypeOK, StartFingerprint
  <2>5. QED BY <1>11, <2>2, <2>3, <2>4 DEF AuthResult, AuthCurrent
<1>12. CASE FingerprintMatched
  BY <1>0, <1>12, UnlockType DEF FingerprintMatched, TypeOK, LockStateConsistent, IsActive
<1>13. CASE SuspendRuns
  BY <1>0, <1>13 DEF SuspendRuns, TypeOK
<1>14. CASE HandleLocked
  <2>1. events' \in Seq(Event)
    BY <1>0, <1>14 DEF HandleLocked, TypeOK
  <2>2. CASE Flushable(pendingAfter, TRUE, instances, framed)
    <3>1. Append(deferred, Suspend(pendingAfter)) \in Seq(Closure)
      BY <1>0, <2>2, AppendSuspend DEF Flushable, TypeOK
    <3>2. pendingAfter' \in 0..MaxRequests /\ suspendTimer' \in Locks \union {None}
      BY <1>14, <2>2, LockScreenAssumption DEF HandleLocked, None
    <3>3. QED BY <1>0, <1>14, <2>1, <2>2, <3>1, <3>2, LockScreenAssumption
              DEF HandleLocked, TypeOK, StartFingerprint
  <2>3. CASE ~Flushable(pendingAfter, TRUE, instances, framed)
    BY <1>0, <1>14, <2>1, <2>3, LockScreenAssumption
    DEF HandleLocked, TypeOK, StartFingerprint, ArmSuspendTimer
  <2>4. QED BY <2>2, <2>3
<1>15. CASE HandleFinished
  <2>1. events' \in Seq(Event)
    BY <1>0, <1>15 DEF HandleFinished, TypeOK
  <2>2. requests' \in Seq(Request)
    BY <1>0, <1>15 DEF HandleFinished, DestroyLockObject, Request, TypeOK, None
  <2>3. logind' \in Seq({"Lock", "Unlock"})
    BY <1>0, <1>15 DEF HandleFinished, TypeOK
  <2>4. pendingAfter' \in 0..MaxRequests /\ authGeneration' \in Nat
    BY <1>0, <1>15, LockScreenAssumption
    DEF HandleFinished, InvalidatePendingAuthentication, TypeOK, None
  <2>5. QED BY <1>0, <1>15, <2>1, <2>2, <2>3, <2>4
            DEF HandleFinished, DestroyLockObject, InvalidatePendingAuthentication, StopFingerprint, TypeOK
<1>16. CASE DiscardEvent
  BY <1>0, <1>16 DEF DiscardEvent, TypeOK
<1>17. ASSUME NEW outs \in [Outputs -> {"absent", "bound", "ready"}], OnOutputChange(outs),
              output' = outs,
              UNCHANGED <<enabled, requested, authVars, hook, events, server, protocolError>>
       PROVE TypeOK'
  <2>1. CASE \E b \in BOOLEAN : Lock(outs, pendingAfter, b, logind)
    BY <1>0, <1>17, <2>1, LockType DEF TypeOK
  <2>2. CASE /\ lockDeferred' = FALSE
             /\ UNCHANGED <<created, lock, lockPending, locked, instances, framed,
                            waitVars, deferred, logind, requests>>
    BY ZenonT(60), <1>0, <1>17, <2>2 DEF TypeOK
  <2>3. CASE /\ SyncInstances(outs)
             /\ UNCHANGED <<created, lock, lockPending, locked, lockDeferred,
                            waitVars, deferred, logind, requests>>
    BY <1>0, <1>17, <2>3 DEF TypeOK, SyncInstances, Usable
  <2>4. CASE UNCHANGED <<lockVars, waitVars, deferred, logind, requests>>
    BY <1>0, <1>17, <2>4 DEF TypeOK
  <2>5. QED BY <1>17, <2>1, <2>2, <2>3, <2>4 DEF OnOutputChange, ResumeDeferredLock
<1>18. ASSUME NEW o \in Outputs, OutputBound(o) PROVE TypeOK'
  BY <1>0, <1>18 DEF OutputBound, TypeOK
<1>19. ASSUME NEW o \in Outputs, OutputAnnounced(o) PROVE TypeOK'
  BY <1>0, <1>17, <1>19 DEF OutputAnnounced, TypeOK
<1>20. ASSUME NEW o \in Outputs, OutputReady(o) \/ OutputRemoved(o) PROVE TypeOK'
  <2>1. output' \in [Outputs -> {"absent", "bound", "ready"}]
    BY <1>0, <1>20 DEF OutputReady, OutputRemoved, TypeOK
  <2>2. QED BY <1>17, <1>20, <2>1 DEF OutputReady, OutputRemoved
<1>21. ASSUME NEW attempt \in pam, NEW success \in BOOLEAN, PamAnswers(attempt, success)
       PROVE TypeOK'
  <2>1. deferred' \in Seq(Closure)
    BY <1>0, <1>21 DEF PamAnswers, TypeOK, Closure, AuthClosure, Attempt
  <2>2. QED BY <1>0, <1>21, <2>1 DEF PamAnswers, TypeOK
<1>22. CASE ServerHandlesRequest
  <2>1. requests' \in Seq(Request)
    BY <1>0, <1>22 DEF ServerHandlesRequest, TypeOK
  <2>2. /\ server' \in [Locks -> {"unknown", "asked", "locked", "denied", "revoked", "gone"}]
        /\ protocolError' \in {"none", "invalid_destroy", "invalid_unlock"}
    BY <1>0, <1>22 DEF ServerHandlesRequest, TypeOK
  <2>3. QED BY <1>0, <1>22, <2>1, <2>2 DEF ServerHandlesRequest, TypeOK
<1>23. ASSUME NEW k \in Locks, ServerLocks(k) \/ ServerRefuses(k) \/ ServerRevokes(k) PROVE TypeOK'
  <2>1. /\ [kind |-> "locked", lock |-> k] \in Event
        /\ [kind |-> "finished", lock |-> k] \in Event
    BY DEF Event
  <2>2. events' \in Seq(Event)
    <3>1. \E e \in Event : events' = Append(events, e)
      BY <1>23, <2>1 DEF ServerLocks, ServerRefuses, ServerRevokes
    <3>2. QED BY <1>0, <3>1 DEF TypeOK
  <2>3. /\ server' \in [Locks -> {"unknown", "asked", "locked", "denied", "revoked", "gone"}]
        /\ UNCHANGED <<envVars, lockVars, waitVars, requested, authVars, deferred, hook, logind,
                       requests, protocolError>>
    BY <1>0, <1>23 DEF ServerLocks, ServerRefuses, ServerRevokes, TypeOK
  <2>4. QED BY <1>0, <2>2, <2>3 DEF TypeOK
<1>24. QED
  BY <1>1, <1>2, <1>3, <1>4, <1>5, <1>6, <1>7, <1>8, <1>9, <1>10, <1>11, <1>12, <1>13, <1>14,
     <1>15, <1>16, <1>18, <1>19, <1>20, <1>21, <1>22, <1>23
  DEF Next, User, Shell, Environment

\* Every step keeps the lock's state consistent.
LEMMA NextLockInv == IndInv /\ Next => LockInv'
<1> SUFFICES ASSUME IndInv, Next PROVE LockInv'
  OBVIOUS
<1> USE DEF envVars, lockVars, waitVars, authVars, wireVars
<1>0. TypeOK /\ LockInv
  BY DEF IndInv
\* Steps that leave the lock's state alone.
<1>1. ASSUME UNCHANGED <<output, lockVars, pendingAfter, authenticating, fingerprint, hook>>
      PROVE  LockInv'
  BY <1>0, <1>1 DEF LockInv, LockStateConsistent, DeferredHasNoOutput, EveryOutputCovered,
     HooksFollowLock, IsActive, Usable
\* lock() with the outputs the shell now sees.
<1>2. ASSUME NEW fn, NEW wasDeferred \in BOOLEAN, NEW signals,
             Lock(output', fn, wasDeferred, signals),
             wasDeferred => Usable(output') = {},
             UNCHANGED <<authVars, hook>>
      PROVE  LockInv'
  BY <1>2, LockKeeps
<1>3. ASSUME UNCHANGED output PROVE Usable(output') = Usable(output) /\ (lockDeferred => Usable(output') = {})
  BY <1>0, <1>3 DEF LockInv, DeferredHasNoOutput, Usable
<1>4. lockDeferred \in BOOLEAN
  BY <1>0 DEF TypeOK
<1>5. CASE LockRequested
  BY <1>2, <1>3, <1>4, <1>5 DEF LockRequested
<1>6. CASE RunAfterSessionLocked
  <2>1. UNCHANGED <<envVars, authVars, hook>>
    BY <1>6 DEF RunAfterSessionLocked
  <2>2. CASE Lock(output, requested + 1, lockDeferred, logind)
    BY <1>2, <1>3, <1>4, <2>1, <2>2
  <2>3. CASE (pendingAfter' = None \/ IsActive) /\ UNCHANGED lockVars
    BY <1>0, <2>1, <2>3 DEF LockInv, LockStateConsistent, DeferredHasNoOutput,
       EveryOutputCovered, HooksFollowLock, IsActive, Usable
  <2>4. QED BY <1>6, <2>2, <2>3 DEF RunAfterSessionLocked
<1>7. CASE ConfigReloaded
  <2>1. CASE IsActive /\ Unlock(<<>>, FALSE)
    BY <2>1, UnlockKeeps
  <2>2. CASE UNCHANGED <<lockVars, waitVars, authVars, hook>>
    BY <1>1, <1>7, <2>2 DEF ConfigReloaded
  <2>3. QED BY <1>7, <2>1, <2>2 DEF ConfigReloaded
<1>8. CASE TryAuthenticate
  BY <1>0, <1>8 DEF TryAuthenticate, StopFingerprint, LockInv, LockStateConsistent,
     DeferredHasNoOutput, EveryOutputCovered, HooksFollowLock, IsActive, Usable
<1>9. CASE LogindLock
  <2>1. CASE Lock(output, pendingAfter, lockDeferred, Tail(logind))
    BY <1>2, <1>3, <1>4, <1>9, <2>1 DEF LogindLock
  <2>2. CASE UNCHANGED <<lockVars, waitVars>>
    BY <1>1, <1>9, <2>2 DEF LogindLock
  <2>3. QED BY <1>9, <2>1, <2>2 DEF LogindLock
<1>10. CASE LogindUnlock
  <2>1. CASE IsActive /\ Unlock(Tail(logind), TRUE)
    BY <2>1, UnlockKeeps
  <2>2. CASE UNCHANGED <<lockVars, waitVars, authVars, hook>>
    BY <1>1, <1>10, <2>2 DEF LogindUnlock
  <2>3. QED BY <1>10, <2>1, <2>2 DEF LogindUnlock
<1>11. ASSUME NEW o \in Outputs, FirstFrame(o) \/ SurfaceResized(o) PROVE LockInv'
  <2>1. /\ framed' \subseteq instances /\ pendingAfter' \in {None, pendingAfter}
        /\ UNCHANGED <<output, created, lock, lockPending, locked, lockDeferred, instances,
                       authVars, hook>>
    BY <1>0, <1>11 DEF FirstFrame, SurfaceResized, LockInv, LockStateConsistent
  <2>2. QED
    BY <1>0, <2>1 DEF LockInv, LockStateConsistent, DeferredHasNoOutput, EveryOutputCovered,
       HooksFollowLock, IsActive, Usable
<1>12. CASE SuspendTimeout
  BY <1>0, <1>12 DEF SuspendTimeout, LockInv, LockStateConsistent, DeferredHasNoOutput,
     EveryOutputCovered, HooksFollowLock, IsActive, Usable
<1>13. CASE AuthResult
  <2>1. CASE locked /\ Unlock(logind, enabled)
    BY <2>1, UnlockKeeps DEF IsActive
  <2>2. CASE UNCHANGED <<lockVars, waitVars, authVars, hook>>
    BY <1>1, <1>13, <2>2 DEF AuthResult
  <2>3. CASE /\ locked /\ authenticating' = FALSE
             /\ UNCHANGED <<output, lockVars, waitVars, hook>>
    BY <1>0, <2>3 DEF LockInv, LockStateConsistent, DeferredHasNoOutput, EveryOutputCovered,
       HooksFollowLock, IsActive, Usable
  <2>4. QED BY <1>13, <2>1, <2>2, <2>3 DEF AuthResult, AuthCurrent
<1>14. CASE FingerprintMatched
  BY <1>0, <1>14, UnlockKeeps DEF FingerprintMatched, LockInv, LockStateConsistent, IsActive
<1>15. CASE HandleLocked
  <2>1. /\ pendingAfter' \in {None, pendingAfter} /\ lock # None /\ lockPending
        /\ lockPending' = FALSE /\ locked' = TRUE /\ hook' = "locked"
        /\ UNCHANGED <<output, lock, lockDeferred, instances, framed, authenticating>>
    BY <1>15 DEF HandleLocked
  <2>2. QED
    BY <1>0, <2>1 DEF LockInv, LockStateConsistent, DeferredHasNoOutput, EveryOutputCovered,
       HooksFollowLock, IsActive, Usable
<1>16. CASE HandleFinished
  BY <1>0, <1>16 DEF HandleFinished, InvalidatePendingAuthentication, StopFingerprint,
     DestroyLockObject, LockInv, LockStateConsistent, DeferredHasNoOutput,
     EveryOutputCovered, HooksFollowLock, IsActive, Usable
\* onOutputChange() with the outputs the shell now sees.
<1>17. ASSUME OnOutputChange(output'), UNCHANGED <<authVars, hook>>,
              lockDeferred /\ Connected(output') = {} => Usable(output') = {}
       PROVE  LockInv'
  <2>1. CASE Lock(output', pendingAfter, FALSE, logind)
    BY <1>2, <1>17, <2>1
  <2>2. CASE /\ lockDeferred /\ lockDeferred' = FALSE
             /\ UNCHANGED <<created, lock, lockPending, locked, instances, framed, waitVars>>
    BY <1>0, <1>17, <2>2 DEF LockInv, LockStateConsistent, DeferredHasNoOutput,
       EveryOutputCovered, HooksFollowLock, IsActive
  <2>3. CASE /\ IsActive /\ SyncInstances(output')
             /\ UNCHANGED <<created, lock, lockPending, locked, lockDeferred, waitVars>>
    BY <1>0, <1>17, <2>3 DEF SyncInstances, LockInv, LockStateConsistent,
       DeferredHasNoOutput, EveryOutputCovered, HooksFollowLock, IsActive
  <2>4. CASE /\ IF lockDeferred THEN Connected(output') = {} ELSE ~IsActive
             /\ UNCHANGED <<lockVars, waitVars>>
    BY <1>0, <1>17, <2>4 DEF LockInv, LockStateConsistent, DeferredHasNoOutput,
       EveryOutputCovered, HooksFollowLock, IsActive
  <2>5. QED BY <1>17, <2>1, <2>2, <2>3, <2>4 DEF OnOutputChange, ResumeDeferredLock
<1>18. Connected(output') = {} => Usable(output') = {}
  BY DEF Connected, Usable
<1>19. ASSUME NEW o \in Outputs, OutputBound(o) PROVE LockInv'
  <2>1. Usable(output') = Usable(output)
    BY <1>0, <1>19 DEF OutputBound, Usable, TypeOK
  <2>2. QED
    BY <1>0, <1>19, <2>1 DEF OutputBound, LockInv, LockStateConsistent, DeferredHasNoOutput,
       EveryOutputCovered, HooksFollowLock, IsActive
<1>20. ASSUME NEW o \in Outputs, OutputAnnounced(o) \/ OutputReady(o) \/ OutputRemoved(o)
       PROVE  LockInv'
  <2>1. CASE OutputAnnounced(o)
    BY <1>17, <1>18, <2>1 DEF OutputAnnounced
  <2>2. CASE OutputReady(o) \/ OutputRemoved(o)
    BY <1>17, <1>18, <2>2 DEF OutputReady, OutputRemoved
  <2>3. QED BY <1>20, <2>1, <2>2
<1>21. ASSUME \/ \E signal \in {"Lock", "Unlock"} : ForeignSignal(signal)
              \/ SuspendRuns \/ DiscardEvent \/ ServerHandlesRequest
              \/ \E attempt \in pam, success \in BOOLEAN : PamAnswers(attempt, success)
              \/ \E k \in Locks : ServerLocks(k) \/ ServerRefuses(k) \/ ServerRevokes(k)
       PROVE  LockInv'
  BY <1>1, <1>21 DEF ForeignSignal, SuspendRuns, DiscardEvent, ServerHandlesRequest,
     PamAnswers, ServerLocks, ServerRefuses, ServerRevokes
<1>22. QED
  BY <1>5, <1>6, <1>7, <1>8, <1>9, <1>10, <1>11, <1>12, <1>13, <1>14, <1>15, <1>16, <1>19,
     <1>20, <1>21
  DEF Next, User, Shell, Environment

LEMMA StutterIndInv == IndInv /\ UNCHANGED vars => IndInv'
BY DEF IndInv, TypeOK, LockInv, LockStateConsistent, DeferredHasNoOutput, EveryOutputCovered,
       HooksFollowLock, IsActive, Usable, vars, envVars, lockVars, waitVars, authVars, wireVars

LEMMA SpecIndInv == Spec => []IndInv
<1>1. IndInv /\ [Next]_vars => IndInv'
  BY NextTypeOK, NextLockInv, StutterIndInv DEF IndInv
<1>2. QED BY InitIndInv, <1>1, PTL DEF Spec

\* Every variable keeps its type, for any number of outputs, locks and requests.
THEOREM TypeCorrect == Spec => []TypeOK
BY SpecIndInv, PTL DEF IndInv

\* The flags, the lock object, the surfaces and the authentication of LockScreen
\* agree after every handler.
THEOREM LockStateAlwaysConsistent == Spec => []LockStateConsistent
BY SpecIndInv, PTL DEF IndInv, LockInv

\* No output is left without a lock surface while a lock is pending or held.
THEOREM OutputsAlwaysCovered == Spec => []EveryOutputCovered
BY SpecIndInv, PTL DEF IndInv, LockInv

\* The session hooks alternate with the lock.
THEOREM HooksAlwaysFollowLock == Spec => []HooksFollowLock
BY SpecIndInv, PTL DEF IndInv, LockInv

-----------------------------------------------------------------------------
(* Authentication. A result counts while its generation is the current     *)
(* one, so AuthInv says of the current generation what AuthBelongsToLock   *)
(* says of results that count, and bounds every other generation by it.    *)

\* i is the place in the deferred queue of a password result of generation g.
ResultAt(i, g) ==
  i \in 1..Len(deferred) /\ deferred[i].kind = "auth" /\ deferred[i].generation = g

AuthInv ==
  /\ \A a \in pam : a.generation <= authGeneration
  /\ \A a \in pam : a.generation = authGeneration => locked /\ a.lock = lock
  /\ \A a, b \in pam :
       a.generation = authGeneration /\ b.generation = authGeneration => a = b
  /\ \A i \in 1..Len(deferred) :
       deferred[i].kind = "auth" => deferred[i].generation <= authGeneration
  /\ \A i : ResultAt(i, authGeneration) => locked /\ deferred[i].lock = lock
  /\ \A i : ResultAt(i, authGeneration) => \A a \in pam : a.generation # authGeneration
  /\ \A i, j : ResultAt(i, authGeneration) /\ ResultAt(j, authGeneration) => i = j

LEMMA AuthInvImplies == TypeOK /\ AuthInv => AuthBelongsToLock
BY DEF AuthInv, AuthBelongsToLock, ResultAt

LEMMA InitAuthInv == Init => AuthInv
BY DEF Init, AuthInv, ResultAt

\* Once the generation moves on, nothing in flight counts.
LEMMA NewGeneration ==
  ASSUME TypeOK, AuthInv, authGeneration' = authGeneration + 1, UNCHANGED pam,
         \/ UNCHANGED deferred
         \/ deferred # <<>> /\ deferred' = Tail(deferred)
  PROVE  AuthInv'
<1>1. \A a \in pam : a.generation \in Nat /\ a.generation < authGeneration'
  BY DEF TypeOK, AuthInv, Attempt
<1>2. \A i \in 1..Len(deferred') :
        deferred'[i].kind = "auth" =>
          deferred'[i].generation \in Nat /\ deferred'[i].generation < authGeneration'
  <2>1. \A i \in 1..Len(deferred) :
          deferred[i].kind = "auth" =>
            deferred[i].generation \in Nat /\ deferred[i].generation < authGeneration'
    BY DEF TypeOK, AuthInv, Closure, AuthClosure, SuspendClosure
  <2>2. \A i \in 1..Len(deferred') : \E j \in 1..Len(deferred) : deferred'[i] = deferred[j]
    <3>1. CASE deferred' = deferred
      BY <3>1
    <3>2. CASE deferred # <<>> /\ deferred' = Tail(deferred)
      <4>1. \A i \in 1..Len(deferred') : i + 1 \in 1..Len(deferred) /\ deferred'[i] = deferred[i + 1]
        BY <3>2 DEF TypeOK
      <4>2. QED BY <4>1
    <3>3. QED BY <3>1, <3>2
  <2>3. QED BY <2>1, <2>2
<1>3. authGeneration' \in Nat
  BY DEF TypeOK
<1>4. QED BY <1>1, <1>2, <1>3 DEF AuthInv, ResultAt

\* Steps that start no attempt, answer none and keep a held lock.
LEMMA SameGeneration ==
  ASSUME TypeOK, AuthInv, UNCHANGED <<authGeneration, pam>>,
         locked => locked' /\ lock' = lock,
         \/ deferred' = deferred
         \/ deferred # <<>> /\ deferred' = Tail(deferred)
         \/ \E fn : deferred' = Append(deferred, Suspend(fn))
  PROVE  AuthInv'
<1>1. CASE deferred' = deferred
  BY <1>1 DEF AuthInv, ResultAt
<1>2. CASE deferred # <<>> /\ deferred' = Tail(deferred)
  <2>1. \A i \in 1..Len(deferred') : i + 1 \in 1..Len(deferred) /\ deferred'[i] = deferred[i + 1]
    BY <1>2 DEF TypeOK
  <2>2. \A i : ResultAt(i, authGeneration)' => i \in Nat /\ ResultAt(i + 1, authGeneration)
    BY <2>1 DEF ResultAt, TypeOK
  <2>3. \A i \in 1..Len(deferred') :
          deferred'[i].kind = "auth" => deferred'[i].generation <= authGeneration'
    BY <2>1 DEF AuthInv
  <2>4. \A i : ResultAt(i, authGeneration)' => deferred'[i] = deferred[i + 1]
    BY <2>1 DEF ResultAt
  <2>5. QED BY <2>2, <2>3, <2>4 DEF AuthInv
<1>3. CASE \E fn : deferred' = Append(deferred, Suspend(fn))
  <2>1. /\ \A i \in 1..Len(deferred) : deferred'[i] = deferred[i]
        /\ Len(deferred') = Len(deferred) + 1
        /\ deferred'[Len(deferred')].kind = "suspend"
    BY <1>3 DEF TypeOK, Suspend
  <2>2. \A i \in 1..Len(deferred') :
          deferred'[i].kind = "auth" => i \in 1..Len(deferred) /\ deferred'[i] = deferred[i]
    <3>1. Len(deferred) \in Nat
      BY DEF TypeOK
    <3>2. QED BY <2>1, <3>1
  <2>3. \A i : ResultAt(i, authGeneration)' => ResultAt(i, authGeneration) /\ deferred'[i] = deferred[i]
    BY <2>2 DEF ResultAt
  <2>4. \A i \in 1..Len(deferred') :
          deferred'[i].kind = "auth" => deferred'[i].generation <= authGeneration'
    BY <2>2 DEF AuthInv
  <2>5. QED BY <2>3, <2>4 DEF AuthInv
<1>4. QED BY <1>1, <1>2, <1>3

LEMMA LockSameGeneration ==
  ASSUME TypeOK, AuthInv, UNCHANGED <<authGeneration, pam>>,
         NEW outs, NEW fn, NEW wasDeferred, NEW signals,
         Lock(outs, fn, wasDeferred, signals)
  PROVE  AuthInv'
<1>1. ~locked
  BY DEF Lock, IsActive
<1>2. deferred' = deferred \/ deferred' = Append(deferred, Suspend(fn))
  BY DEF Lock, DeferLock, AbandonLock, RequestLock
<1>3. QED BY <1>1, <1>2, SameGeneration

LEMMA NextAuthInv == IndInv /\ AuthInv /\ Next => AuthInv'
<1> SUFFICES ASSUME IndInv, AuthInv, Next PROVE AuthInv'
  OBVIOUS
<1> USE DEF envVars, lockVars, waitVars, authVars, wireVars
<1>0. TypeOK /\ LockStateConsistent
  BY DEF IndInv, LockInv
\* Unlocking, on whatever ground.
<1>1. ASSUME NEW signals, NEW heard, Unlock(signals, heard)
      PROVE  authGeneration' = authGeneration + 1 /\ pam' = pam
  BY <1>1 DEF Unlock, InvalidatePendingAuthentication
\* Steps that leave the lock and the attempts alone and queue at most a suspend.
<1>2. ASSUME UNCHANGED <<authGeneration, pam, lock, locked>>,
             \/ deferred' = deferred
             \/ deferred # <<>> /\ deferred' = Tail(deferred)
             \/ \E fn : deferred' = Append(deferred, Suspend(fn))
      PROVE  AuthInv'
  BY <1>0, <1>2, SameGeneration
<1>3. CASE LockRequested
  BY <1>0, <1>3, LockSameGeneration DEF LockRequested
<1>4. CASE RunAfterSessionLocked
  <2>1. UNCHANGED <<authGeneration, pam>>
    BY <1>4 DEF RunAfterSessionLocked
  <2>2. CASE Lock(output, requested + 1, lockDeferred, logind)
    BY <1>0, <2>1, <2>2, LockSameGeneration
  <2>3. CASE /\ UNCHANGED lockVars
             /\ deferred' = deferred \/ deferred' = Append(deferred, Suspend(requested + 1))
    BY <1>2, <2>1, <2>3
  <2>4. QED BY <1>4, <2>2, <2>3 DEF RunAfterSessionLocked
<1>5. CASE ConfigReloaded
  <2>1. CASE Unlock(<<>>, FALSE)
    <3>1. deferred' = deferred
      BY <1>5 DEF ConfigReloaded
    <3>2. authGeneration' = authGeneration + 1 /\ pam' = pam
      BY <1>1, <2>1
    <3>3. QED BY <1>0, <3>1, <3>2, NewGeneration
  <2>2. CASE UNCHANGED <<lockVars, authVars>>
    BY <1>2, <1>5, <2>2 DEF ConfigReloaded
  <2>3. QED BY <1>5, <2>1, <2>2 DEF ConfigReloaded
<1>6. CASE TryAuthenticate
  <2>1. \A a \in pam : a.generation \in Nat /\ a.generation < authGeneration'
    BY <1>0, <1>6 DEF TryAuthenticate, TypeOK, AuthInv, Attempt
  <2>2. \A i \in 1..Len(deferred) :
          deferred[i].kind = "auth" =>
            deferred[i].generation \in Nat /\ deferred[i].generation < authGeneration'
    BY <1>0, <1>6 DEF TryAuthenticate, TypeOK, AuthInv, Closure, AuthClosure, SuspendClosure
  <2>3. /\ pam' = pam \union {[generation |-> authGeneration', lock |-> lock]}
        /\ authGeneration' \in Nat /\ locked' /\ lock' = lock /\ deferred' = deferred
    BY <1>0, <1>6 DEF TryAuthenticate, TypeOK
  <2>4. \A i : ~ResultAt(i, authGeneration)'
    BY <2>2, <2>3 DEF ResultAt
  <2>5. \A a \in pam' : a.generation = authGeneration' =>
                         a = [generation |-> authGeneration', lock |-> lock]
    BY <2>1, <2>3
  <2>6. \A a \in pam' : a.generation <= authGeneration'
    BY <2>1, <2>3
  <2>7. QED BY <2>2, <2>3, <2>4, <2>5, <2>6 DEF AuthInv
<1>7. CASE LogindLock
  <2>1. CASE Lock(output, pendingAfter, lockDeferred, Tail(logind))
    BY <1>0, <1>7, <2>1, LockSameGeneration DEF LogindLock
  <2>2. CASE UNCHANGED <<lockVars, deferred>>
    BY <1>2, <1>7, <2>2 DEF LogindLock
  <2>3. QED BY <1>7, <2>1, <2>2 DEF LogindLock
<1>8. CASE LogindUnlock
  <2>1. CASE Unlock(Tail(logind), TRUE)
    <3>1. deferred' = deferred
      BY <1>8 DEF LogindUnlock
    <3>2. authGeneration' = authGeneration + 1 /\ pam' = pam
      BY <1>1, <2>1
    <3>3. QED BY <1>0, <3>1, <3>2, NewGeneration
  <2>2. CASE UNCHANGED <<lockVars, authVars>>
    BY <1>2, <1>8, <2>2 DEF LogindUnlock
  <2>3. QED BY <1>8, <2>1, <2>2 DEF LogindUnlock
<1>9. ASSUME NEW o \in Outputs, FirstFrame(o) \/ SurfaceResized(o) PROVE AuthInv'
  BY <1>2, <1>9 DEF FirstFrame, SurfaceResized
<1>10. CASE SuspendTimeout
  BY <1>2, <1>10 DEF SuspendTimeout
<1>11. CASE AuthResult
  <2>1. deferred # <<>> /\ deferred' = Tail(deferred)
    BY <1>11 DEF AuthResult
  <2>2. CASE Unlock(logind, enabled)
    <3>1. authGeneration' = authGeneration + 1 /\ pam' = pam
      BY <1>1, <2>2
    <3>2. QED BY <1>0, <2>1, <3>1, NewGeneration
  <2>3. CASE UNCHANGED <<lockVars, authGeneration, pam>>
    BY <1>2, <2>1, <2>3
  <2>4. QED BY <1>11, <2>2, <2>3 DEF AuthResult
<1>12. CASE FingerprintMatched
  <2>1. deferred' = deferred
    BY <1>12 DEF FingerprintMatched
  <2>2. authGeneration' = authGeneration + 1 /\ pam' = pam
    BY <1>1, <1>12 DEF FingerprintMatched
  <2>3. QED BY <1>0, <2>1, <2>2, NewGeneration
<1>13. CASE SuspendRuns
  BY <1>2, <1>13 DEF SuspendRuns
<1>14. CASE HandleLocked
  <2>1. ~locked /\ UNCHANGED <<authGeneration, pam>>
    BY <1>0, <1>14 DEF HandleLocked, LockStateConsistent
  <2>2. deferred' = deferred \/ deferred' = Append(deferred, Suspend(pendingAfter))
    BY <1>14 DEF HandleLocked
  <2>3. QED BY <1>0, <2>1, <2>2, SameGeneration
<1>15. CASE HandleFinished
  <2>1. authGeneration' = authGeneration + 1 /\ pam' = pam /\ deferred' = deferred
    BY <1>15 DEF HandleFinished, InvalidatePendingAuthentication
  <2>2. QED BY <1>0, <2>1, NewGeneration
<1>16. ASSUME NEW outs, OnOutputChange(outs), UNCHANGED authVars PROVE AuthInv'
  <2>1. CASE Lock(outs, pendingAfter, FALSE, logind)
    BY <1>0, <1>16, <2>1, LockSameGeneration
  <2>2. CASE UNCHANGED <<lock, locked, deferred>>
    BY <1>2, <1>16, <2>2
  <2>3. QED BY <1>16, <2>1, <2>2 DEF OnOutputChange, ResumeDeferredLock
<1>17. ASSUME NEW o \in Outputs, OutputAnnounced(o) \/ OutputReady(o) \/ OutputRemoved(o)
       PROVE  AuthInv'
  BY <1>16, <1>17 DEF OutputAnnounced, OutputReady, OutputRemoved
<1>18. ASSUME NEW attempt \in pam, NEW success \in BOOLEAN, PamAnswers(attempt, success)
       PROVE  AuthInv'
  <2>1. /\ pam' = pam \ {attempt}
        /\ UNCHANGED <<authGeneration, lock, locked>>
    BY <1>18 DEF PamAnswers
  <2>2. /\ Len(deferred') = Len(deferred) + 1
        /\ \A i \in 1..Len(deferred) : deferred'[i] = deferred[i]
        /\ deferred'[Len(deferred')].generation = attempt.generation
        /\ deferred'[Len(deferred')].lock = attempt.lock
    BY <1>0, <1>18 DEF PamAnswers, TypeOK
  <2>3. \A i \in 1..Len(deferred') : i \in 1..Len(deferred) \/ i = Len(deferred')
    BY <1>0, <2>2 DEF TypeOK
  <2>4. \A i : ResultAt(i, authGeneration)' =>
               \/ ResultAt(i, authGeneration) /\ deferred'[i] = deferred[i]
               \/ i = Len(deferred') /\ attempt.generation = authGeneration
    BY <2>1, <2>2, <2>3 DEF ResultAt
  <2>5. \A i \in 1..Len(deferred') :
          deferred'[i].kind = "auth" => deferred'[i].generation <= authGeneration'
    BY <2>1, <2>2, <2>3 DEF AuthInv
  <2>6. \A i : ResultAt(i, authGeneration)' => locked' /\ deferred'[i].lock = lock'
    BY <2>1, <2>2, <2>4 DEF AuthInv
  <2>7. \A i : ResultAt(i, authGeneration)' => \A a \in pam' : a.generation # authGeneration'
    BY <2>1, <2>4 DEF AuthInv
  <2>8. \A i, j : ResultAt(i, authGeneration)' /\ ResultAt(j, authGeneration)' => i = j
    BY <2>4 DEF AuthInv
  <2>9. QED BY <2>1, <2>5, <2>6, <2>7, <2>8 DEF AuthInv
<1>19. ASSUME \/ \E signal \in {"Lock", "Unlock"} : ForeignSignal(signal)
              \/ \E o \in Outputs : OutputBound(o)
              \/ DiscardEvent \/ ServerHandlesRequest
              \/ \E k \in Locks : ServerLocks(k) \/ ServerRefuses(k) \/ ServerRevokes(k)
       PROVE  AuthInv'
  BY <1>2, <1>19 DEF ForeignSignal, OutputBound, DiscardEvent, ServerHandlesRequest,
     ServerLocks, ServerRefuses, ServerRevokes
<1>20. QED
  BY <1>3, <1>4, <1>5, <1>6, <1>7, <1>8, <1>9, <1>10, <1>11, <1>12, <1>13, <1>14, <1>15,
     <1>17, <1>18, <1>19
  DEF Next, User, Shell, Environment

LEMMA SpecAuthInv == Spec => [](IndInv /\ AuthInv)
<1>1. IndInv /\ AuthInv /\ UNCHANGED vars => AuthInv'
  BY DEF AuthInv, ResultAt, vars, envVars, lockVars, waitVars, authVars, wireVars
<1>2. IndInv /\ AuthInv /\ [Next]_vars => AuthInv'
  BY <1>1, NextAuthInv
<1>3. QED BY InitAuthInv, SpecIndInv, <1>2, PTL DEF Spec

\* A password result that counts was given for the lock now held.
THEOREM AuthAlwaysBelongsToLock == Spec => []AuthBelongsToLock
BY SpecAuthInv, AuthInvImplies, PTL DEF IndInv

\* The lock that the flags, the surfaces, the hook and the authentication describe
\* is one and the same in every reachable state.
THEOREM LockAlwaysCoherent == Spec => []LockCoherent
BY LockStateAlwaysConsistent, OutputsAlwaysCovered, HooksAlwaysFollowLock,
   AuthAlwaysBelongsToLock, PTL DEF LockCoherent

-----------------------------------------------------------------------------
(* Action properties.                                                      *)

\* What a step that ends a lock the user sees must show: the action of UnlockIsAuthorised.
Authorised ==
  /\ deferred' # deferred =>
       Head(deferred) = [kind |-> "auth", generation |-> authGeneration,
                         lock |-> lock, success |-> TRUE]
  /\ events' # events => Head(events) = [kind |-> "finished", lock |-> lock]
  /\ enabled' => enabled
  /\ UNCHANGED <<deferred, events, enabled>> =>
       \/ fingerprint /\ ~authenticating
       \/ logind # <<>> /\ Head(logind) = "Unlock"

\* The handlers that may end a lock, pending or held.
LEMMA WhatEndsALock ==
  ASSUME IndInv, Next, IsActive, ~IsActive'
  PROVE  ConfigReloaded \/ LogindUnlock \/ FingerprintMatched \/ HandleFinished \/ AuthResult
<1> USE DEF envVars, lockVars, waitVars, authVars, wireVars
\* lock() does nothing in an active lock.
<1>1. ~\E outs, fn, wasDeferred, signals : Lock(outs, fn, wasDeferred, signals)
  BY DEF Lock, IsActive
<1>2. CASE OnOutputChange(output') \/ OnOutputChange(output)
  BY <1>1, <1>2 DEF OnOutputChange, ResumeDeferredLock, IsActive
<1>3. CASE \E o \in Outputs : OutputBound(o) \/ OutputAnnounced(o) \/ OutputReady(o) \/ OutputRemoved(o)
  BY <1>2, <1>3 DEF OutputBound, OutputAnnounced, OutputReady, OutputRemoved, IsActive
<1>4. CASE LockRequested \/ RunAfterSessionLocked \/ LogindLock
  BY <1>1, <1>4 DEF LockRequested, RunAfterSessionLocked, LogindLock, IsActive
<1>5. CASE \/ TryAuthenticate \/ SuspendTimeout \/ SuspendRuns \/ HandleLocked \/ DiscardEvent
           \/ ServerHandlesRequest
           \/ \E signal \in {"Lock", "Unlock"} : ForeignSignal(signal)
           \/ \E o \in Outputs : FirstFrame(o) \/ SurfaceResized(o)
           \/ \E attempt \in pam, success \in BOOLEAN : PamAnswers(attempt, success)
           \/ \E k \in Locks : ServerLocks(k) \/ ServerRefuses(k) \/ ServerRevokes(k)
  BY <1>5 DEF TryAuthenticate, SuspendTimeout, SuspendRuns, HandleLocked, DiscardEvent,
     ServerHandlesRequest, ForeignSignal, FirstFrame, SurfaceResized, PamAnswers,
     ServerLocks, ServerRefuses, ServerRevokes, IsActive
<1>6. QED
  BY <1>3, <1>4, <1>5 DEF Next, User, Shell, Environment

\* A reload that ends a lock turns the lock screen off and takes nothing from the queues.
LEMMA ReloadEnds ==
  ASSUME TypeOK, ConfigReloaded, IsActive, ~IsActive'
  PROVE  enabled /\ ~enabled' /\ UNCHANGED <<deferred, events>>
<1>1. /\ UNCHANGED <<deferred, events>> /\ enabled' = ~enabled
      /\ enabled \/ UNCHANGED <<lockPending, locked>>
  BY DEF ConfigReloaded, lockVars
<1>2. enabled
  BY <1>1 DEF IsActive
<1>3. QED BY <1>1, <1>2

LEMMA StepAuthorised ==
  IndInv /\ AuthInv /\ Next /\ locked /\ ~locked' => Authorised
<1> SUFFICES ASSUME IndInv, AuthInv, Next, locked, ~locked' PROVE Authorised
  OBVIOUS
<1> USE DEF envVars, lockVars, waitVars, authVars, wireVars
<1>0. TypeOK /\ LockStateConsistent /\ LockStateConsistent' /\ IsActive
  BY NextLockInv DEF IndInv, LockInv, IsActive
<1>1. ~IsActive'
  <2>1. ASSUME lockPending' PROVE FALSE
    <3>1. ~\E outs, fn, wasDeferred, signals : Lock(outs, fn, wasDeferred, signals)
      BY <1>0 DEF Lock
    <3>2. ~lockPending
      BY <1>0 DEF LockStateConsistent
    <3>3. ASSUME NEW outs, OnOutputChange(outs) PROVE FALSE
      BY <2>1, <3>1, <3>2, <3>3 DEF OnOutputChange, ResumeDeferredLock
    <3>4. ASSUME NEW signals, NEW heard, Unlock(signals, heard) PROVE FALSE
      BY <2>1, <3>4 DEF Unlock
    <3>5. CASE User
      BY <2>1, <3>1, <3>2, <3>4, <3>5 DEF User, LockRequested, RunAfterSessionLocked,
         ConfigReloaded, TryAuthenticate, ForeignSignal
    <3>6. CASE Shell
      BY <2>1, <3>1, <3>2, <3>4, <3>6 DEF Shell, LogindLock, LogindUnlock, FirstFrame,
         SurfaceResized, SuspendTimeout, AuthResult, FingerprintMatched, SuspendRuns,
         HandleLocked, HandleFinished, DiscardEvent
    <3>7. CASE Environment
      BY <2>1, <3>2, <3>3, <3>7 DEF Environment, OutputBound, OutputAnnounced, OutputReady,
         OutputRemoved, PamAnswers, ServerHandlesRequest, ServerLocks, ServerRefuses,
         ServerRevokes
    <3>8. QED BY <3>5, <3>6, <3>7 DEF Next
  <2>2. QED BY <2>1 DEF IsActive
<1>2. CASE ConfigReloaded
  BY <1>0, <1>1, <1>2, ReloadEnds DEF Authorised
<1>3. CASE LogindUnlock
  BY <1>3 DEF LogindUnlock, Authorised
<1>4. CASE FingerprintMatched
  BY <1>0, <1>4 DEF FingerprintMatched, Authorised, LockStateConsistent
<1>5. CASE HandleFinished
  <2>1. events' # events
    BY <1>0, <1>5 DEF HandleFinished, TypeOK
  <2>2. QED BY <1>5, <2>1 DEF HandleFinished, Authorised
<1>6. CASE AuthResult
  <2>1. /\ deferred # <<>> /\ Head(deferred).kind = "auth"
        /\ Head(deferred).generation = authGeneration /\ Head(deferred).success
        /\ deferred' = Tail(deferred) /\ UNCHANGED <<enabled, events>>
    BY <1>6 DEF AuthResult, AuthCurrent
  <2>2. 1 \in 1..Len(deferred) /\ Head(deferred) = deferred[1] /\ deferred' # deferred
    BY <1>0, <2>1 DEF TypeOK
  <2>3. Head(deferred).lock = lock
    BY <2>1, <2>2 DEF AuthInv, ResultAt
  <2>4. Head(deferred) \in AuthClosure
    BY <1>0, <2>1, <2>2 DEF TypeOK, Closure, SuspendClosure, AuthClosure
  <2>5. Head(deferred) = [kind |-> "auth", generation |-> authGeneration,
                          lock |-> lock, success |-> TRUE]
    BY <2>1, <2>3, <2>4 DEF AuthClosure
  <2>6. QED BY <2>1, <2>2, <2>5 DEF Authorised
<1>7. QED BY <1>0, <1>1, <1>2, <1>3, <1>4, <1>5, <1>6, WhatEndsALock

\* The lock a user sees ends only for the reason its handler was given: the answer to a password
\* of that very lock, a finger, logind, the configuration or the compositor.
THEOREM UnlockAlwaysAuthorised == Spec => UnlockIsAuthorised
<1>1. IndInv /\ AuthInv /\ [Next]_vars => [locked /\ ~locked' => Authorised]_vars
  BY StepAuthorised
<1>2. QED BY SpecAuthInv, <1>1, PTL DEF Spec, UnlockIsAuthorised, Authorised

\* What a step that gives up a pending lock must show, and one that forgets a deferred lock.
PendingGivenUp ==
  /\ deferred' = deferred
  /\ events' # events => Head(events) = [kind |-> "finished", lock |-> lock]
  /\ enabled' => enabled
  /\ UNCHANGED <<events, enabled>> => logind # <<>> /\ Head(logind) = "Unlock"

DeferralGivenUp ==
  \/ lockPending'
  \/ ~enabled'
  \/ Connected(output') # {} /\ Usable(output') = {}

LEMMA StepKeepsPending ==
  ASSUME IndInv, Next, lockPending, ~IsActive'
  PROVE  PendingGivenUp
<1> USE DEF envVars, lockVars, waitVars, authVars, wireVars
<1>0. TypeOK /\ LockStateConsistent /\ IsActive /\ ~locked
  BY DEF IndInv, LockInv, IsActive, LockStateConsistent
<1>1. CASE ConfigReloaded
  BY <1>0, <1>1, ReloadEnds DEF PendingGivenUp
<1>2. CASE LogindUnlock
  BY <1>2 DEF LogindUnlock, PendingGivenUp
<1>3. CASE FingerprintMatched
  BY <1>0, <1>3 DEF FingerprintMatched, LockStateConsistent
<1>4. CASE AuthResult
  BY <1>0, <1>4 DEF AuthResult, AuthCurrent, IsActive
<1>5. CASE HandleFinished
  <2>1. events' # events
    BY <1>0, <1>5 DEF HandleFinished, TypeOK
  <2>2. QED BY <1>5, <2>1 DEF HandleFinished, PendingGivenUp
<1>6. QED BY <1>0, <1>1, <1>2, <1>3, <1>4, <1>5, WhatEndsALock

LEMMA StepKeepsDeferral ==
  ASSUME IndInv, Next, lockDeferred, ~lockDeferred'
  PROVE  DeferralGivenUp
<1> USE DEF envVars, lockVars, waitVars, authVars, wireVars
<1>0. TypeOK /\ ~IsActive /\ ~locked
  BY DEF IndInv, LockInv, LockStateConsistent, IsActive
<1>1. ASSUME NEW outs, NEW fn, NEW wasDeferred, NEW signals, Lock(outs, fn, wasDeferred, signals)
      PROVE  lockPending' \/ (Connected(outs) # {} /\ Usable(outs) = {})
  BY <1>1 DEF Lock, DeferLock, AbandonLock, RequestLock
<1>2. ASSUME NEW outs, OnOutputChange(outs), ~lockPending', enabled
      PROVE  Connected(outs) # {} /\ Usable(outs) = {}
  <2>1. ResumeDeferredLock(outs)
    BY <1>2 DEF OnOutputChange
  <2>2. QED BY <1>0, <1>1, <1>2, <2>1 DEF ResumeDeferredLock
<1>3. ASSUME NEW o \in Outputs, OutputAnnounced(o) \/ OutputReady(o) \/ OutputRemoved(o)
      PROVE  DeferralGivenUp
  BY <1>2, <1>3 DEF OutputAnnounced, OutputReady, OutputRemoved, DeferralGivenUp
<1>4. CASE LockRequested \/ RunAfterSessionLocked \/ LogindLock
  BY <1>1, <1>4 DEF LockRequested, RunAfterSessionLocked, LogindLock, DeferralGivenUp
<1>5. CASE \/ ConfigReloaded \/ LogindUnlock \/ AuthResult \/ FingerprintMatched
           \/ HandleLocked \/ HandleFinished
  <2>1. ~fingerprint /\ lock = None /\ ~lockPending
    BY <1>0 DEF IndInv, LockInv, LockStateConsistent, IsActive
  <2>2. QED BY <1>0, <1>5, <2>1 DEF ConfigReloaded, LogindUnlock, AuthResult, AuthCurrent,
               FingerprintMatched, HandleLocked, HandleFinished
<1>6. CASE \/ TryAuthenticate \/ SuspendTimeout \/ SuspendRuns \/ DiscardEvent
           \/ ServerHandlesRequest
           \/ \E signal \in {"Lock", "Unlock"} : ForeignSignal(signal)
           \/ \E o \in Outputs : FirstFrame(o) \/ SurfaceResized(o) \/ OutputBound(o)
           \/ \E attempt \in pam, success \in BOOLEAN : PamAnswers(attempt, success)
           \/ \E k \in Locks : ServerLocks(k) \/ ServerRefuses(k) \/ ServerRevokes(k)
  BY <1>6 DEF TryAuthenticate, SuspendTimeout, SuspendRuns, DiscardEvent,
     ServerHandlesRequest, ForeignSignal, FirstFrame, SurfaceResized, OutputBound, PamAnswers,
     ServerLocks, ServerRefuses, ServerRevokes
<1>7. QED
  BY <1>3, <1>4, <1>5, <1>6 DEF Next, User, Shell, Environment

\* A request to lock, pending or deferred, is given up only for one of the reasons the code names,
\* whichever handler comes in between; in no step that leaves a usable output is a deferral just forgotten.
THEOREM LockRequestAlwaysKept == Spec => LockRequestKept
<1>1. IndInv /\ [Next]_vars =>
        [/\ lockPending /\ ~IsActive' => PendingGivenUp
         /\ lockDeferred /\ ~lockDeferred' => DeferralGivenUp]_vars
  BY StepKeepsPending, StepKeepsDeferral
<1>2. QED BY SpecIndInv, <1>1, PTL DEF Spec, LockRequestKept, PendingGivenUp, DeferralGivenUp

-----------------------------------------------------------------------------
(* The shell and the compositor.                                           *)

\* The two queues and what each side believes of the lock objects. A lock object the shell
\* has given up is gone or has its leave on the wire, after its lock; the one it holds has
\* none; what the compositor decided about that one is known or on the wire.
Wire ==
  /\ lock <= created /\ \A k \in Locks : created < k => server[k] = "unknown"
  /\ \A i \in 1..Len(requests) :
       /\ requests[i].lock <= created
       /\ requests[i].op = "lock" => server[requests[i].lock] = "unknown"
       /\ requests[i].op # "lock" => requests[i].lock # lock
  /\ \A i, j \in 1..Len(requests) :
       requests[i].op = "lock" /\ requests[j].lock = requests[i].lock => i <= j
  /\ \A k \in Locks : k <= created /\ k # lock /\ server[k] # "gone" =>
       \E i \in 1..Len(requests) : requests[i].lock = k /\ requests[i].op # "lock"
  /\ \A i \in 1..Len(events) :
       /\ events[i].lock <= created
       /\ events[i].kind = "locked" /\ events[i].lock = lock
            => server[lock] \in {"locked", "revoked"}
  /\ lockPending /\ server[lock] = "locked" =>
       \E i \in 1..Len(events) : events[i].kind = "locked" /\ events[i].lock = lock
  /\ locked => server[lock] \in {"locked", "revoked"}
  /\ lock # None /\ server[lock] \in {"denied", "revoked"} =>
       \E i \in 1..Len(events) : events[i].kind = "finished" /\ events[i].lock = lock

\* A protocol error ends the process, and the agreement with it.
WireInv == Running => Wire

LEMMA WireTypes ==
  ASSUME TypeOK
  PROVE  /\ Len(requests) \in Nat /\ Len(events) \in Nat /\ created \in Nat /\ lock \in Nat
         /\ \A i \in 1..Len(requests) : requests[i] \in Request /\ requests[i].lock \in Locks
         /\ \A i \in 1..Len(events) : events[i] \in Event /\ events[i].lock \in Locks
         /\ Locks \subseteq Nat \ {0}
         /\ server \in [Locks -> {"unknown", "asked", "locked", "denied", "revoked", "gone"}]
<1>1. /\ requests \in Seq(Request) /\ events \in Seq(Event) /\ created \in 0..MaxLocks
      /\ lock \in Locks \union {None}
      /\ server \in [Locks -> {"unknown", "asked", "locked", "denied", "revoked", "gone"}]
  BY DEF TypeOK
<1>2. Locks \subseteq Nat \ {0} /\ None = 0
  BY LockScreenAssumption DEF Locks, None
<1>3. \A i \in 1..Len(requests) : requests[i] \in Request
  BY <1>1
<1>4. \A i \in 1..Len(events) : events[i] \in Event
  BY <1>1
<1>5. created \in Nat /\ lock \in Nat
  BY <1>1, <1>2, LockScreenAssumption
<1>6. /\ \A i \in 1..Len(requests) : requests[i].lock \in Locks
      /\ \A i \in 1..Len(events) : events[i].lock \in Locks
  BY <1>3, <1>4 DEF Request, Event
<1>7. Len(requests) \in Nat /\ Len(events) \in Nat
  BY <1>1
<1>8. QED BY <1>1, <1>2, <1>3, <1>4, <1>5, <1>6, <1>7

LEMMA InitWire == Init => WireInv
<1> SUFFICES ASSUME Init PROVE Wire
  BY DEF WireInv
<1>1. /\ created = 0 /\ lock = 0 /\ ~lockPending /\ ~locked
      /\ requests = <<>> /\ events = <<>> /\ server = [k \in Locks |-> "unknown"]
  BY DEF Init, None
<1>2. \A k \in Locks : k \in Nat /\ k # 0
  BY LockScreenAssumption DEF Locks
<1>3. QED BY <1>1, <1>2 DEF Wire, None

\* A queue grows at its end.
LEMMA QueueGrows ==
  ASSUME NEW T, NEW q \in Seq(T), NEW e
  PROVE  /\ Len(Append(q, e)) = Len(q) + 1 /\ Len(q) \in Nat
         /\ \A i \in 1..Len(q) : i \in 1..Len(Append(q, e)) /\ Append(q, e)[i] = q[i]
         /\ Len(q) + 1 \in 1..Len(Append(q, e)) /\ Append(q, e)[Len(q) + 1] = e
         /\ \A i \in 1..Len(Append(q, e)) : i \in 1..Len(q) \/ i = Len(q) + 1
OBVIOUS

\* And is read at its head.
LEMMA QueueShrinks ==
  ASSUME NEW T, NEW q \in Seq(T), q # <<>>
  PROVE  /\ Len(Tail(q)) = Len(q) - 1 /\ 1 \in 1..Len(q) /\ Head(q) = q[1] /\ Len(q) \in Nat
         /\ \A i \in 1..Len(Tail(q)) : i + 1 \in 1..Len(q) /\ Tail(q)[i] = q[i + 1]
         /\ \A j \in 1..Len(q) : j # 1 => j - 1 \in 1..Len(Tail(q)) /\ Tail(q)[j - 1] = q[j]
<1>1. Len(q) \in Nat /\ Len(q) # 0 /\ Len(Tail(q)) = Len(q) - 1 /\ Head(q) = q[1]
  OBVIOUS
<1>2. \A i \in 1..Len(Tail(q)) : i + 1 \in 1..Len(q) /\ Tail(q)[i] = q[i + 1]
  OBVIOUS
<1>3. ASSUME NEW j \in 1..Len(q), j # 1
      PROVE  j - 1 \in 1..Len(Tail(q)) /\ Tail(q)[j - 1] = q[j]
  <2>1. j - 1 \in 1..Len(Tail(q)) /\ (j - 1) + 1 = j
    BY <1>1, <1>3
  <2>2. QED BY <1>2, <2>1
<1>4. QED BY <1>1, <1>2, <1>3

\* The lock object leaves by a request of its own.
LEMMA WireLeaves ==
  ASSUME TypeOK, Wire, lock # None, NEW r, r.lock = lock, r.op # "lock",
         requests' = Append(requests, r), lock' = None, ~lockPending', ~locked',
         UNCHANGED <<created, server>>,
         events' = events \/ (events # <<>> /\ events' = Tail(events))
  PROVE  Wire'
<1> USE WireTypes
<1>1. /\ Len(requests') = Len(requests) + 1
      /\ \A i \in 1..Len(requests) : i \in 1..Len(requests') /\ requests'[i] = requests[i]
      /\ Len(requests) + 1 \in 1..Len(requests') /\ requests'[Len(requests) + 1] = r
      /\ \A i \in 1..Len(requests') : i \in 1..Len(requests) \/ i = Len(requests) + 1
  BY QueueGrows DEF TypeOK
<1>2. lock <= created /\ \A k \in Locks : created < k => server[k] = "unknown"
  BY DEF Wire
<1>3. lock' <= created'
  BY DEF None
<1>4. ASSUME NEW i \in 1..Len(requests')
      PROVE  /\ requests'[i].lock <= created'
             /\ requests'[i].op = "lock" => server'[requests'[i].lock] = "unknown"
             /\ requests'[i].op # "lock" => requests'[i].lock # lock'
  BY <1>1, <1>2 DEF Wire, None
<1>5. ASSUME NEW i \in 1..Len(requests'), NEW j \in 1..Len(requests'),
             requests'[i].op = "lock", requests'[j].lock = requests'[i].lock
      PROVE  i <= j
  <2>1. i \in 1..Len(requests) /\ requests[i] = requests'[i]
    BY <1>1, <1>5
  <2>2. CASE j \in 1..Len(requests)
    BY <1>1, <1>5, <2>1, <2>2 DEF Wire
  <2>3. CASE j = Len(requests) + 1
    BY <2>1, <2>3
  <2>4. QED BY <1>1, <2>2, <2>3
<1>6. ASSUME NEW k \in Locks, k <= created', k # lock', server'[k] # "gone"
      PROVE  \E i \in 1..Len(requests') : requests'[i].lock = k /\ requests'[i].op # "lock"
  <2>1. CASE k = lock
    BY <1>1, <2>1
  <2>2. CASE k # lock
    <3>1. PICK i \in 1..Len(requests) : requests[i].lock = k /\ requests[i].op # "lock"
      BY <1>6, <2>2 DEF Wire
    <3>2. QED BY <1>1, <3>1
  <2>3. QED BY <2>1, <2>2
<1>7. ASSUME NEW i \in 1..Len(events')
      PROVE  events'[i].lock <= created' /\ events'[i].lock # lock'
  <2>1. CASE events' = events
    BY <2>1 DEF Wire, None
  <2>2. CASE events # <<>> /\ events' = Tail(events)
    <3>1. i + 1 \in 1..Len(events) /\ events'[i] = events[i + 1]
      BY <2>2, QueueShrinks DEF TypeOK
    <3>2. QED BY <3>1 DEF Wire, None
  <2>3. QED BY <2>1, <2>2
<1>8. QED BY <1>2, <1>3, <1>4, <1>5, <1>6, <1>7 DEF Wire

\* lock() asks for a new lock object, and may give it up at once.
LEMMA WireLocks ==
  ASSUME TypeOK, LockStateConsistent, Wire, NEW outs, NEW fn, NEW wasDeferred, NEW signals,
         Lock(outs, fn, wasDeferred, signals), UNCHANGED <<events, server>>
  PROVE  Wire'
<1> USE WireTypes
<1>0. ~lockPending /\ ~locked /\ lock = None
  BY DEF Lock, IsActive, LockStateConsistent
<1>1. CASE DeferLock(outs, fn, signals)
  BY <1>1 DEF DeferLock, Wire
<1> DEFINE asked == [op |-> "lock", lock |-> created + 1]
           left  == [op |-> "unlock_and_destroy", lock |-> created + 1]
           grown == Append(requests, asked)
\* What the lock object asked for leaves to be shown.
<1>2. ASSUME created < MaxLocks, created' = created + 1
      PROVE  /\ created + 1 \in Locks /\ server[created + 1] = "unknown"
             /\ \A i \in 1..Len(requests) : requests[i].lock # created + 1
             /\ \A i \in 1..Len(events) : events[i].lock # created + 1 /\ events[i].lock <= created'
             /\ \A k \in Locks : k <= created' => k <= created \/ k = created + 1
             /\ \A k \in Locks : created' < k => server'[k] = "unknown"
  <2>1. created + 1 \in Locks
    BY <1>2, LockScreenAssumption DEF Locks
  <2>2. QED BY <1>2, <2>1 DEF Wire
<1>3. /\ Len(grown) = Len(requests) + 1
      /\ \A i \in 1..Len(requests) : i \in 1..Len(grown) /\ grown[i] = requests[i]
      /\ Len(requests) + 1 \in 1..Len(grown) /\ grown[Len(requests) + 1] = asked
      /\ \A i \in 1..Len(grown) : i \in 1..Len(requests) \/ i = Len(requests) + 1
  BY QueueGrows DEF TypeOK
<1>4. CASE RequestLock(outs, fn, wasDeferred, signals)
  <2>1. /\ created < MaxLocks /\ created' = created + 1 /\ lock' = created + 1
        /\ lockPending' /\ ~locked' /\ requests' = grown
    BY <1>4 DEF RequestLock
  <2> HIDE DEF grown
  <2>2. ASSUME NEW i \in 1..Len(requests')
        PROVE  /\ requests'[i].lock <= created'
               /\ requests'[i].op = "lock" => server'[requests'[i].lock] = "unknown"
               /\ requests'[i].op # "lock" => requests'[i].lock # lock'
    <3>1. CASE i \in 1..Len(requests)
      <4>1. requests'[i] = requests[i] /\ requests[i].lock \in Nat
        BY <1>3, <2>1, <3>1
      <4>2. /\ requests[i].lock <= created /\ requests[i].lock # lock'
            /\ requests[i].op = "lock" => server[requests[i].lock] = "unknown"
        BY <1>2, <2>1, <3>1 DEF Wire
      <4>3. requests[i].lock <= created'
        BY <2>1, <4>1, <4>2
      <4>4. QED BY <4>1, <4>2, <4>3
    <3>2. CASE i = Len(requests) + 1
      BY <1>2, <1>3, <2>1, <3>2
    <3>3. QED BY <1>3, <2>1, <3>1, <3>2
  <2>3. ASSUME NEW i \in 1..Len(requests'), NEW j \in 1..Len(requests'),
               requests'[i].op = "lock", requests'[j].lock = requests'[i].lock
        PROVE  i <= j
    <3>1. CASE i \in 1..Len(requests) /\ j \in 1..Len(requests)
      BY <1>3, <2>1, <2>3, <3>1 DEF Wire
    <3>2. CASE i = Len(requests) + 1 \/ j = Len(requests) + 1
      BY <1>2, <1>3, <2>1, <2>3, <3>2
    <3>3. QED BY <1>3, <2>1, <3>1, <3>2
  <2>4. ASSUME NEW k \in Locks, k <= created', k # lock', server'[k] # "gone"
        PROVE  \E i \in 1..Len(requests') : requests'[i].lock = k /\ requests'[i].op # "lock"
    <3>1. k <= created /\ k # lock
      BY <1>0, <1>2, <2>1, <2>4 DEF None
    <3>2. PICK i \in 1..Len(requests) : requests[i].lock = k /\ requests[i].op # "lock"
      BY <2>4, <3>1 DEF Wire
    <3>3. QED BY <1>3, <2>1, <3>2
  <2>5. server'[lock'] = "unknown" /\ lock' <= created'
    BY <1>2, <2>1
  <2>6. QED BY <1>2, <2>1, <2>2, <2>3, <2>4, <2>5 DEF Wire
<1>5. CASE AbandonLock(outs, signals)
  <2> DEFINE longer == Append(grown, left)
  <2>1. /\ created < MaxLocks /\ created' = created + 1 /\ lock' = lock
        /\ ~lockPending' /\ ~locked' /\ requests' = requests \o <<asked, left>>
    BY <1>0, <1>5 DEF AbandonLock
  <2>2. requests' = longer
    BY <2>1 DEF TypeOK
  <2>3. grown \in Seq(Request \union {asked})
    BY DEF TypeOK
  <2> HIDE DEF grown
  <2>4. /\ Len(longer) = Len(grown) + 1
        /\ \A i \in 1..Len(grown) : i \in 1..Len(longer) /\ longer[i] = grown[i]
        /\ Len(grown) + 1 \in 1..Len(longer) /\ longer[Len(grown) + 1] = left
        /\ \A i \in 1..Len(longer) : i \in 1..Len(grown) \/ i = Len(grown) + 1
    BY <2>3, QueueGrows
  <2> HIDE DEF longer
  <2>5. \A i \in 1..Len(requests') :
          \/ i \in 1..Len(requests) /\ requests'[i] = requests[i]
          \/ i = Len(requests) + 1 /\ requests'[i] = asked
          \/ i = Len(requests) + 2 /\ requests'[i] = left
    BY <1>3, <2>2, <2>4
  <2>6. /\ \A i \in 1..Len(requests) : i \in 1..Len(requests') /\ requests'[i] = requests[i]
        /\ Len(requests) + 2 \in 1..Len(requests') /\ requests'[Len(requests) + 2] = left
    BY <1>3, <2>2, <2>4
  <2>7. ASSUME NEW i \in 1..Len(requests')
        PROVE  /\ requests'[i].lock <= created'
               /\ requests'[i].op = "lock" => server'[requests'[i].lock] = "unknown"
               /\ requests'[i].op # "lock" => requests'[i].lock # lock'
    <3>1. CASE i \in 1..Len(requests) /\ requests'[i] = requests[i]
      BY <1>2, <2>1, <3>1 DEF Wire
    <3>2. CASE requests'[i] = asked
      BY <1>2, <2>1, <3>2
    <3>3. CASE requests'[i] = left
      <4>1. requests'[i].lock = created + 1 /\ requests'[i].op = "unlock_and_destroy"
        BY <3>3
      <4>2. created + 1 # lock' /\ created + 1 <= created'
        BY <1>0, <2>1 DEF None
      <4>3. QED BY <4>1, <4>2
    <3>4. QED BY <2>5, <3>1, <3>2, <3>3
  <2>8. ASSUME NEW i \in 1..Len(requests'), NEW j \in 1..Len(requests'),
               requests'[i].op = "lock", requests'[j].lock = requests'[i].lock
        PROVE  i <= j
    <3>1. CASE i \in 1..Len(requests) /\ requests'[i] = requests[i]
      <4>1. requests'[i].lock # created + 1
        BY <1>2, <2>1, <3>1
      <4>2. j \in 1..Len(requests) /\ requests'[j] = requests[j]
        BY <2>5, <2>8, <4>1
      <4>3. QED BY <2>8, <3>1, <4>2 DEF Wire
    <3>2. CASE i = Len(requests) + 1 /\ requests'[i] = asked
      <4>1. j \notin 1..Len(requests)
        BY <1>2, <2>1, <2>6, <2>8, <3>2
      <4>2. QED BY <2>5, <3>2, <4>1
    <3>3. QED BY <2>5, <2>8, <3>1, <3>2
  <2>9. ASSUME NEW k \in Locks, k <= created', k # lock', server'[k] # "gone"
        PROVE  \E i \in 1..Len(requests') : requests'[i].lock = k /\ requests'[i].op # "lock"
    <3>1. CASE k = created + 1
      BY <2>6, <3>1
    <3>2. CASE k # created + 1
      <4>1. k <= created
        BY <1>2, <2>1, <2>9, <3>2
      <4>2. PICK i \in 1..Len(requests) : requests[i].lock = k /\ requests[i].op # "lock"
        BY <2>1, <2>9, <4>1 DEF Wire
      <4>3. QED BY <2>6, <4>2
    <3>3. QED BY <3>1, <3>2
  <2>10. lock' <= created' /\ lock' = None
    BY <1>0, <2>1 DEF None
  <2>11. \A i \in 1..Len(events') : events'[i].lock # lock'
    BY <2>10 DEF None
  <2>12. QED BY <1>2, <2>1, <2>7, <2>8, <2>9, <2>10, <2>11 DEF Wire
<1>6. QED BY <1>1, <1>4, <1>5 DEF Lock

\* The compositor reads a request.
LEMMA WireHandlesRequest ==
  ASSUME TypeOK, LockStateConsistent, Wire, ServerHandlesRequest, protocolError' = "none"
  PROVE  Wire'
<1> USE WireTypes
<1> DEFINE k == requests[1].lock
<1>1. /\ UNCHANGED <<created, lock, lockPending, locked, events>>
      /\ requests # <<>> /\ requests' = Tail(requests)
  BY DEF ServerHandlesRequest, lockVars
<1>2. /\ Len(requests') = Len(requests) - 1 /\ 1 \in 1..Len(requests)
      /\ \A i \in 1..Len(requests') :
           i + 1 \in 1..Len(requests) /\ requests'[i] = requests[i + 1]
      /\ \A j \in 1..Len(requests) :
           j # 1 => j - 1 \in 1..Len(requests') /\ requests'[j - 1] = requests[j]
      /\ Head(requests) = requests[1]
  BY <1>1, QueueShrinks DEF TypeOK
<1>3. k \in Locks
  BY <1>2
<1>4. \/ requests[1].op = "lock" /\ server' = [server EXCEPT ![k] = "asked"]
      \/ requests[1].op # "lock" /\ server' = [server EXCEPT ![k] = "gone"]
  BY <1>2 DEF ServerHandlesRequest
<1>5. k <= created /\ (requests[1].op = "lock" => server[k] = "unknown")
      /\ (requests[1].op # "lock" => k # lock)
  BY <1>2 DEF Wire
<1>6. \A x \in Locks : x # k => server'[x] = server[x]
  BY <1>3, <1>4
<1>7. ASSUME NEW i \in 1..Len(requests')
      PROVE  /\ requests'[i].lock <= created'
             /\ requests'[i].op = "lock" => server'[requests'[i].lock] = "unknown"
             /\ requests'[i].op # "lock" => requests'[i].lock # lock'
  <2> DEFINE j == i + 1
  <2>1. j \in 1..Len(requests) /\ requests'[i] = requests[j] /\ ~(j <= 1) /\ j \in Nat
    BY <1>2
  <2> HIDE DEF j
  <2>2. /\ requests[j].lock <= created /\ (requests[j].op # "lock" => requests[j].lock # lock)
        /\ requests[j].op = "lock" => server[requests[j].lock] = "unknown"
    BY <2>1 DEF Wire
  <2>3. requests[j].op = "lock" => requests[j].lock # k
    BY <1>2, <2>1 DEF Wire
  <2>4. QED BY <1>1, <1>6, <2>1, <2>2, <2>3
<1>8. ASSUME NEW i \in 1..Len(requests'), NEW j \in 1..Len(requests'),
             requests'[i].op = "lock", requests'[j].lock = requests'[i].lock
      PROVE  i <= j
  <2> DEFINE a == i + 1
             b == j + 1
  <2>1. /\ a \in 1..Len(requests) /\ requests'[i] = requests[a] /\ a = i + 1
        /\ b \in 1..Len(requests) /\ requests'[j] = requests[b] /\ b = j + 1
    BY <1>2
  <2> HIDE DEF a, b
  <2>2. a <= b
    BY <1>8, <2>1 DEF Wire
  <2>3. QED BY <2>1, <2>2
<1>9. ASSUME NEW x \in Locks, x <= created', x # lock', server'[x] # "gone"
      PROVE  \E i \in 1..Len(requests') : requests'[i].lock = x /\ requests'[i].op # "lock"
  <2>1. server[x] # "gone" /\ (x = k => requests[1].op = "lock")
    BY <1>3, <1>4, <1>5, <1>6, <1>9
  <2>2. PICK j \in 1..Len(requests) : requests[j].lock = x /\ requests[j].op # "lock"
    BY <1>1, <1>9, <2>1 DEF Wire
  <2>3. j # 1
    BY <2>1, <2>2
  <2>4. QED BY <1>2, <2>2, <2>3
<1>10. \A x \in Locks : created' < x => server'[x] = "unknown"
  BY <1>1, <1>5, <1>6 DEF Wire
<1>11. CASE lock \in Locks /\ lock = k
  <2>1. server[lock] = "unknown" /\ server'[lock] = "asked"
    BY <1>3, <1>4, <1>5, <1>11
  <2>2. QED BY <1>1, <1>7, <1>8, <1>9, <1>10, <2>1 DEF Wire
<1>12. CASE lock \in Locks /\ lock # k
  <2>1. server'[lock] = server[lock]
    BY <1>6, <1>12
  <2>2. QED BY <1>1, <1>7, <1>8, <1>9, <1>10, <2>1 DEF Wire
<1>13. CASE lock = None
  <2>1. ~lockPending /\ ~locked /\ \A i \in 1..Len(events) : events[i].lock # lock
    BY <1>13 DEF None, LockStateConsistent, IsActive
  <2>2. QED BY <1>1, <1>7, <1>8, <1>9, <1>10, <1>13, <2>1 DEF Wire
<1>14. QED BY <1>11, <1>12, <1>13 DEF TypeOK

\* The compositor decides about a lock object and says so.
LEMMA WireDecides ==
  ASSUME TypeOK, LockStateConsistent, Wire, NEW k \in Locks, NEW kind, NEW state,
         \/ server[k] = "asked" /\ state = "locked" /\ kind = "locked"
         \/ server[k] = "asked" /\ state = "denied" /\ kind = "finished"
         \/ server[k] = "locked" /\ state = "revoked" /\ kind = "finished",
         server' = [server EXCEPT ![k] = state],
         events' = Append(events, [kind |-> kind, lock |-> k]),
         UNCHANGED <<created, lock, lockPending, locked, requests>>
  PROVE  Wire'
<1> USE WireTypes
<1> DEFINE e == [kind |-> kind, lock |-> k]
<1>1. /\ Len(events') = Len(events) + 1
      /\ \A i \in 1..Len(events) : i \in 1..Len(events') /\ events'[i] = events[i]
      /\ Len(events) + 1 \in 1..Len(events') /\ events'[Len(events) + 1] = e
      /\ \A i \in 1..Len(events') : i \in 1..Len(events) \/ i = Len(events) + 1
  BY QueueGrows DEF TypeOK
<1>2. k <= created
  BY DEF Wire
<1>3. server'[k] = state /\ \A x \in Locks : x # k => server'[x] = server[x]
  OBVIOUS
<1>4. \A x \in Locks : created' < x => server'[x] = "unknown"
  BY <1>2, <1>3 DEF Wire
<1>5. ASSUME NEW i \in 1..Len(requests')
      PROVE  /\ requests'[i].lock <= created'
             /\ requests'[i].op = "lock" => server'[requests'[i].lock] = "unknown"
             /\ requests'[i].op # "lock" => requests'[i].lock # lock'
  <2>1. requests[i].op = "lock" => requests[i].lock # k
    BY DEF Wire
  <2>2. QED BY <1>3, <2>1 DEF Wire
<1>6. ASSUME NEW x \in Locks, x <= created', x # lock', server'[x] # "gone"
      PROVE  \E i \in 1..Len(requests') : requests'[i].lock = x /\ requests'[i].op # "lock"
  <2>1. server[x] # "gone"
    BY <1>3, <1>6
  <2>2. QED BY <1>6, <2>1 DEF Wire
<1>7. ASSUME NEW i \in 1..Len(events') PROVE events'[i].lock <= created'
  <2>1. CASE i \in 1..Len(events)
    BY <1>1, <2>1 DEF Wire
  <2>2. CASE i = Len(events) + 1
    BY <1>1, <1>2, <2>2
  <2>3. QED BY <1>1, <2>1, <2>2
<1>8. \A i, j \in 1..Len(requests') :
        requests'[i].op = "lock" /\ requests'[j].lock = requests'[i].lock => i <= j
  BY DEF Wire
<1>9. CASE lock = k
  <2>1. server'[lock'] = state /\ (locked => state = "revoked")
    BY <1>3, <1>9 DEF Wire
  <2>2. ASSUME NEW i \in 1..Len(events'), events'[i].kind = "locked", events'[i].lock = lock'
        PROVE  server'[lock'] \in {"locked", "revoked"}
    <3>1. CASE i \in 1..Len(events)
      <4>1. server[lock] \in {"locked", "revoked"}
        BY <1>1, <2>2, <3>1 DEF Wire
      <4>2. QED BY <1>9, <2>1, <4>1
    <3>2. CASE i = Len(events) + 1
      BY <1>1, <2>1, <2>2, <3>2
    <3>3. QED BY <1>1, <3>1, <3>2
  <2>3. state = "locked" =>
          \E i \in 1..Len(events') : events'[i].kind = "locked" /\ events'[i].lock = lock'
    BY <1>1, <1>9
  <2>4. state \in {"denied", "revoked"} =>
          \E i \in 1..Len(events') : events'[i].kind = "finished" /\ events'[i].lock = lock'
    BY <1>1, <1>9
  <2>5. lock' <= created'
    BY DEF Wire
  <2>6. QED BY <1>4, <1>5, <1>6, <1>7, <1>8, <2>1, <2>2, <2>3, <2>4, <2>5 DEF Wire
<1>10. CASE lock \in Locks /\ lock # k
  <2>1. server'[lock'] = server[lock]
    BY <1>3, <1>10
  <2>2. ASSUME NEW i \in 1..Len(events'), events'[i].kind = "locked", events'[i].lock = lock'
        PROVE  server'[lock'] \in {"locked", "revoked"}
    <3>1. i \in 1..Len(events) /\ events'[i] = events[i]
      BY <1>1, <1>10, <2>2
    <3>2. QED BY <2>1, <2>2, <3>1 DEF Wire
  <2>3. ASSUME NEW x, \E i \in 1..Len(events) : events[i].kind = x /\ events[i].lock = lock
        PROVE  \E i \in 1..Len(events') : events'[i].kind = x /\ events'[i].lock = lock'
    BY <1>1, <2>3
  <2>4. /\ lock' <= created' /\ (locked' => server'[lock'] \in {"locked", "revoked"})
        /\ lockPending' /\ server'[lock'] = "locked" =>
             \E i \in 1..Len(events') : events'[i].kind = "locked" /\ events'[i].lock = lock'
        /\ lock' # None /\ server'[lock'] \in {"denied", "revoked"} =>
             \E i \in 1..Len(events') : events'[i].kind = "finished" /\ events'[i].lock = lock'
    BY <2>1, <2>3 DEF Wire
  <2>5. QED BY <1>4, <1>5, <1>6, <1>7, <1>8, <2>2, <2>4 DEF Wire
<1>11. CASE lock = None
  <2>1. ~lockPending' /\ ~locked' /\ lock' = None /\ lock' <= created'
    BY <1>11 DEF None, LockStateConsistent, IsActive
  <2>2. \A i \in 1..Len(events') : events'[i].lock # lock'
    BY <1>1, <1>11 DEF None
  <2>3. QED BY <1>4, <1>5, <1>6, <1>7, <1>8, <2>1, <2>2 DEF Wire
<1>12. QED BY <1>9, <1>10, <1>11 DEF TypeOK

\* The shell reads an event that leaves it its lock object: the compositor's locked, or one
\* of an object it has given up.
LEMMA WireReads ==
  ASSUME TypeOK, Wire, events # <<>>, events' = Tail(events),
         UNCHANGED <<created, lock, requests, server>>,
         \/ /\ Head(events).kind = "locked" /\ Head(events).lock = lock
            /\ locked' /\ ~lockPending'
         \/ Head(events).lock # lock /\ locked' = locked /\ lockPending' = lockPending
  PROVE  Wire'
<1> USE WireTypes
<1>1. /\ 1 \in 1..Len(events) /\ Head(events) = events[1]
      /\ \A i \in 1..Len(events') : i + 1 \in 1..Len(events) /\ events'[i] = events[i + 1]
      /\ \A j \in 1..Len(events) :
           j # 1 => j - 1 \in 1..Len(events') /\ events'[j - 1] = events[j]
  BY QueueShrinks DEF TypeOK
<1>2. ASSUME NEW i \in 1..Len(events')
      PROVE  /\ events'[i].lock <= created'
             /\ events'[i].kind = "locked" /\ events'[i].lock = lock'
                  => server'[lock'] \in {"locked", "revoked"}
  BY <1>1 DEF Wire
<1>3. locked' => server'[lock'] \in {"locked", "revoked"}
  BY <1>1 DEF Wire
<1>4. ASSUME NEW kind, kind = "finished" \/ Head(events).lock # lock,
             \E i \in 1..Len(events) : events[i].kind = kind /\ events[i].lock = lock
      PROVE  \E i \in 1..Len(events') : events'[i].kind = kind /\ events'[i].lock = lock'
  <2>1. PICK j \in 1..Len(events) : events[j].kind = kind /\ events[j].lock = lock
    BY <1>4
  <2>2. j # 1
    BY <1>1, <1>4, <2>1
  <2>3. QED BY <1>1, <2>1, <2>2
<1>5. lockPending' /\ server'[lock'] = "locked" =>
        \E i \in 1..Len(events') : events'[i].kind = "locked" /\ events'[i].lock = lock'
  BY <1>4 DEF Wire
<1>6. lock' # None /\ server'[lock'] \in {"denied", "revoked"} =>
        \E i \in 1..Len(events') : events'[i].kind = "finished" /\ events'[i].lock = lock'
  BY <1>4 DEF Wire
<1>7. QED BY <1>2, <1>3, <1>5, <1>6 DEF Wire

LEMMA NextWire == IndInv /\ WireInv /\ Next => WireInv'
<1> SUFFICES ASSUME IndInv, WireInv, Next, Running' PROVE Wire'
  BY DEF WireInv
<1> USE DEF envVars, lockVars, waitVars, authVars, wireVars
<1>0. TypeOK /\ LockStateConsistent
  BY DEF IndInv, LockInv
<1>1. Wire
  BY DEF WireInv, Running, Next, User, Shell, Environment, LockRequested, RunAfterSessionLocked,
     ConfigReloaded, TryAuthenticate, ForeignSignal, LogindLock, LogindUnlock, FirstFrame,
     SurfaceResized, SuspendTimeout, AuthResult, FingerprintMatched, SuspendRuns, HandleLocked,
     HandleFinished, DiscardEvent, OutputBound, OutputAnnounced, OutputReady, OutputRemoved,
     PamAnswers, ServerHandlesRequest, ServerLocks, ServerRefuses, ServerRevokes
\* Steps of the shell that leave the lock object and the wire alone.
<1>2. ASSUME UNCHANGED <<created, lock, lockPending, locked, requests, events, server>>
      PROVE  Wire'
  BY <1>1, <1>2 DEF Wire
\* unlock(), on whatever ground.
<1>3. ASSUME NEW signals, NEW heard, IsActive, Unlock(signals, heard),
             UNCHANGED <<events, server>>
      PROVE  Wire'
  <2> DEFINE r == [op |-> IF locked THEN "unlock_and_destroy" ELSE "destroy", lock |-> lock]
  <2>1. /\ requests' = Append(requests, r) /\ lock' = None /\ ~lockPending' /\ ~locked'
        /\ created' = created
    BY <1>3 DEF Unlock, DestroyLockObject
  <2>2. r.lock = lock /\ r.op # "lock" /\ lock # None
    BY <1>0, <1>3 DEF LockStateConsistent
  <2> HIDE DEF r
  <2>3. QED BY <1>0, <1>1, <1>3, <2>1, <2>2, WireLeaves
<1>4. CASE LockRequested
  BY <1>0, <1>1, <1>4, WireLocks DEF LockRequested
<1>5. CASE RunAfterSessionLocked
  <2>1. UNCHANGED <<events, server>>
    BY <1>5 DEF RunAfterSessionLocked
  <2>2. CASE Lock(output, requested + 1, lockDeferred, logind)
    BY <1>0, <1>1, <2>1, <2>2, WireLocks
  <2>3. CASE UNCHANGED <<lockVars, requests>>
    BY <1>2, <2>1, <2>3
  <2>4. QED BY <1>5, <2>2, <2>3 DEF RunAfterSessionLocked
<1>6. CASE ConfigReloaded
  <2>1. UNCHANGED <<events, server>>
    BY <1>6 DEF ConfigReloaded
  <2>2. CASE IsActive /\ Unlock(<<>>, FALSE)
    BY <1>3, <2>1, <2>2
  <2>3. CASE UNCHANGED <<lockVars, requests>>
    BY <1>2, <2>1, <2>3
  <2>4. QED BY <1>6, <2>2, <2>3 DEF ConfigReloaded
<1>7. CASE LogindUnlock
  <2>1. UNCHANGED <<events, server>>
    BY <1>7 DEF LogindUnlock
  <2>2. CASE IsActive /\ Unlock(Tail(logind), TRUE)
    BY <1>3, <2>1, <2>2
  <2>3. CASE UNCHANGED <<lockVars, requests>>
    BY <1>2, <2>1, <2>3
  <2>4. QED BY <1>7, <2>2, <2>3 DEF LogindUnlock
<1>8. CASE LogindLock
  <2>1. UNCHANGED <<events, server>>
    BY <1>8 DEF LogindLock
  <2>2. CASE Lock(output, pendingAfter, lockDeferred, Tail(logind))
    BY <1>0, <1>1, <2>1, <2>2, WireLocks
  <2>3. CASE UNCHANGED <<lockVars, requests>>
    BY <1>2, <2>1, <2>3
  <2>4. QED BY <1>8, <2>2, <2>3 DEF LogindLock
<1>9. CASE AuthResult
  <2>1. UNCHANGED <<events, server>>
    BY <1>9 DEF AuthResult
  <2>2. CASE AuthCurrent(Head(deferred)) /\ Unlock(logind, enabled)
    BY <1>3, <2>1, <2>2 DEF AuthCurrent, IsActive
  <2>3. CASE UNCHANGED <<lockVars, requests>>
    BY <1>2, <2>1, <2>3
  <2>4. QED BY <1>9, <2>2, <2>3 DEF AuthResult
<1>10. CASE FingerprintMatched
  <2>1. IsActive
    BY <1>0, <1>10 DEF FingerprintMatched, LockStateConsistent, IsActive
  <2>2. QED BY <1>3, <1>10, <2>1 DEF FingerprintMatched
<1>11. ASSUME NEW outs, OnOutputChange(outs), UNCHANGED <<events, server>> PROVE Wire'
  <2>1. CASE Lock(outs, pendingAfter, FALSE, logind)
    BY <1>0, <1>1, <1>11, <2>1, WireLocks
  <2>2. CASE UNCHANGED <<created, lock, lockPending, locked, requests>>
    BY <1>2, <1>11, <2>2
  <2>3. QED BY <1>11, <2>1, <2>2 DEF OnOutputChange, ResumeDeferredLock
<1>12. ASSUME NEW o \in Outputs, OutputAnnounced(o) \/ OutputReady(o) \/ OutputRemoved(o)
       PROVE  Wire'
  BY <1>11, <1>12 DEF OutputAnnounced, OutputReady, OutputRemoved
<1>13. CASE HandleLocked
  <2>1. /\ events # <<>> /\ events' = Tail(events) /\ locked' /\ ~lockPending'
        /\ Head(events) = [kind |-> "locked", lock |-> lock]
        /\ UNCHANGED <<created, lock, requests, server>>
    BY <1>13 DEF HandleLocked
  <2>2. Head(events).kind = "locked" /\ Head(events).lock = lock
    BY <2>1
  <2>3. QED BY <1>0, <1>1, <2>1, <2>2, WireReads
<1>14. CASE HandleFinished
  <2> DEFINE r == [op |-> IF locked THEN "unlock_and_destroy" ELSE "destroy", lock |-> lock]
  <2>1. /\ requests' = Append(requests, r) /\ lock' = None /\ ~lockPending' /\ ~locked'
        /\ lock # None /\ events # <<>> /\ events' = Tail(events)
        /\ UNCHANGED <<created, server>>
    BY <1>14 DEF HandleFinished, DestroyLockObject
  <2>2. r.lock = lock /\ r.op # "lock"
    OBVIOUS
  <2> HIDE DEF r
  <2>3. QED BY <1>0, <1>1, <2>1, <2>2, WireLeaves
<1>15. CASE DiscardEvent
  BY <1>0, <1>1, <1>15, WireReads DEF DiscardEvent
<1>16. CASE ServerHandlesRequest
  BY <1>0, <1>1, <1>16, WireHandlesRequest DEF Running
<1>17. ASSUME NEW k \in Locks, ServerLocks(k) \/ ServerRefuses(k) \/ ServerRevokes(k)
       PROVE  Wire'
  <2>1. UNCHANGED <<created, lock, lockPending, locked, requests>>
    BY <1>17 DEF ServerLocks, ServerRefuses, ServerRevokes
  <2>2. CASE ServerLocks(k)
    BY <1>0, <1>1, <2>1, <2>2, WireDecides DEF ServerLocks
  <2>3. CASE ServerRefuses(k)
    BY <1>0, <1>1, <2>1, <2>3, WireDecides DEF ServerRefuses
  <2>4. CASE ServerRevokes(k)
    BY <1>0, <1>1, <2>1, <2>4, WireDecides DEF ServerRevokes
  <2>5. QED BY <1>17, <2>2, <2>3, <2>4
<1>18. CASE \/ TryAuthenticate \/ SuspendTimeout \/ SuspendRuns
            \/ \E signal \in {"Lock", "Unlock"} : ForeignSignal(signal)
            \/ \E o \in Outputs : FirstFrame(o) \/ SurfaceResized(o) \/ OutputBound(o)
            \/ \E attempt \in pam, success \in BOOLEAN : PamAnswers(attempt, success)
  BY <1>2, <1>18 DEF TryAuthenticate, SuspendTimeout, SuspendRuns, ForeignSignal, FirstFrame,
     SurfaceResized, OutputBound, PamAnswers
<1>19. QED
  BY <1>4, <1>5, <1>6, <1>7, <1>8, <1>9, <1>10, <1>12, <1>13, <1>14, <1>15, <1>16, <1>17, <1>18
  DEF Next, User, Shell, Environment

LEMMA WireImplies == IndInv /\ WireInv => CompositorAgrees
<1> SUFFICES ASSUME IndInv, WireInv, protocolError = "none", requests = <<>>, events = <<>>,
                    NEW k \in Locks
             PROVE  server[k] = "locked" <=> (locked /\ lock = k)
  BY DEF CompositorAgrees
<1>1. Wire /\ TypeOK /\ LockStateConsistent
  BY DEF WireInv, Running, IndInv, LockInv
<1>2. /\ \A i \in 1..Len(requests) : FALSE
      /\ \A i \in 1..Len(events) : FALSE
  OBVIOUS
<1>3. ASSUME server[k] = "locked" PROVE locked /\ lock = k
  <2>1. k <= created
    <3>1. k \in Nat /\ created \in Nat
      BY <1>1, WireTypes
    <3>2. QED BY <1>1, <1>3, <3>1 DEF Wire
  <2>2. k = lock
    BY <1>1, <1>2, <1>3, <2>1 DEF Wire
  <2>3. ~lockPending
    BY <1>1, <1>2, <1>3, <2>2 DEF Wire
  <2>4. lock # None
    BY <1>1, <2>2, WireTypes DEF None
  <2>5. QED BY <1>1, <2>2, <2>3, <2>4 DEF LockStateConsistent, IsActive
<1>4. ASSUME locked, lock = k PROVE server[k] = "locked"
  <2>1. server[k] \in {"locked", "revoked"}
    BY <1>1, <1>4 DEF Wire
  <2>2. lock # None
    BY <1>1, <1>4, WireTypes DEF None
  <2>3. QED BY <1>1, <1>2, <1>4, <2>1, <2>2 DEF Wire
<1>5. QED BY <1>3, <1>4

\* With nothing in flight the shell and the compositor agree on which lock holds the session.
THEOREM CompositorAlwaysAgrees == Spec => []CompositorAgrees
<1>1. WireInv /\ UNCHANGED vars => WireInv'
  BY DEF WireInv, Wire, Running, vars, lockVars, wireVars
<1>2. IndInv /\ WireInv /\ [Next]_vars => WireInv'
  BY <1>1, NextWire
<1>3. QED BY InitWire, SpecIndInv, <1>2, WireImplies, PTL DEF Spec

\* The fallback timer is the held lock's, or an earlier lock left it running and a new one is not
\* held yet.
TimerInv ==
  /\ suspendTimer <= created
  /\ lock # None => lock = created
  /\ suspendTimer # None => IF locked THEN suspendTimer = lock ELSE suspendTimer # lock

LEMMA InitTimer == Init => TimerInv
BY DEF Init, TimerInv, None

LEMMA NextTimer == IndInv /\ TimerInv /\ Next => TimerInv'
<1> SUFFICES ASSUME IndInv, TimerInv, Next PROVE TimerInv'
  OBVIOUS
<1> USE DEF envVars, lockVars, waitVars, authVars, wireVars
<1>0. TypeOK /\ LockStateConsistent
  BY DEF IndInv, LockInv
<1>1. /\ suspendTimer \in Nat /\ created \in Nat /\ lock \in Nat /\ lock <= created
      /\ IsActive <=> lock # None
  BY <1>0, LockScreenAssumption DEF TypeOK, Locks, None, TimerInv, LockStateConsistent
<1>2. ASSUME UNCHANGED <<created, lock, locked>>, suspendTimer' \in {None, suspendTimer}
      PROVE  TimerInv'
  BY <1>1, <1>2 DEF TimerInv, None
<1>3. ASSUME UNCHANGED created, lock' = None, suspendTimer' = None PROVE TimerInv'
  BY <1>1, <1>3 DEF TimerInv, None
<1>4. ASSUME NEW outs, NEW fn, NEW wasDeferred, NEW signals, Lock(outs, fn, wasDeferred, signals)
      PROVE  TimerInv'
  <2>1. CASE DeferLock(outs, fn, signals)
    BY <1>2, <2>1 DEF DeferLock
  <2>2. CASE AbandonLock(outs, signals)
    <3>1. lock = None /\ ~locked
      BY <1>1, <1>4 DEF Lock, IsActive
    <3>2. UNCHANGED <<lock, locked>> /\ suspendTimer' = None /\ created' = created + 1
      BY <2>2 DEF AbandonLock
    <3>3. QED BY <1>1, <3>1, <3>2 DEF TimerInv, None
  <2>3. CASE RequestLock(outs, fn, wasDeferred, signals)
    BY <1>1, <2>3 DEF RequestLock, TimerInv
  <2>4. QED BY <1>4, <2>1, <2>2, <2>3 DEF Lock
<1>5. ASSUME NEW signals, NEW heard, Unlock(signals, heard) PROVE TimerInv'
  BY <1>3, <1>5 DEF Unlock, DestroyLockObject
<1>6. ASSUME NEW outs, OnOutputChange(outs) PROVE TimerInv'
  BY <1>2, <1>4, <1>6 DEF OnOutputChange, ResumeDeferredLock
<1>7. CASE HandleFinished
  BY <1>1, <1>7 DEF HandleFinished, DestroyLockObject, TimerInv
<1>8. CASE HandleLocked
  <2>1. /\ UNCHANGED <<created, lock>> /\ locked' = TRUE
        /\ suspendTimer' \in {None, lock} /\ lock # None
    BY <1>8 DEF HandleLocked, ArmSuspendTimer
  <2>2. QED BY <1>1, <2>1 DEF TimerInv, None
<1>9. CASE User
  BY <1>2, <1>4, <1>5, <1>9 DEF User, LockRequested, RunAfterSessionLocked, ConfigReloaded,
     TryAuthenticate, ForeignSignal
<1>10. CASE Environment
  BY <1>2, <1>6, <1>10 DEF Environment, OutputBound, OutputAnnounced, OutputReady,
     OutputRemoved, PamAnswers, ServerHandlesRequest, ServerLocks, ServerRefuses, ServerRevokes
<1>11. CASE LogindLock \/ LogindUnlock \/ AuthResult \/ FingerprintMatched
  BY <1>2, <1>4, <1>5, <1>11 DEF LogindLock, LogindUnlock, AuthResult, FingerprintMatched
<1>12. CASE SuspendTimeout \/ SuspendRuns \/ DiscardEvent
            \/ \E o \in Outputs : FirstFrame(o) \/ SurfaceResized(o)
  BY <1>2, <1>12 DEF SuspendTimeout, SuspendRuns, DiscardEvent, FirstFrame, SurfaceResized
<1>13. QED BY <1>7, <1>8, <1>9, <1>10, <1>11, <1>12 DEF Next, Shell

\* A step queues a suspend only under a lock that every surface shows or whose own 3 s are over,
\* without any output, or by the timer an earlier lock left behind.
SuspendGround ==
  \/ locked' /\ AllSurfacesReady(instances', framed')
  \/ locked' /\ suspendTimer = lock
  \/ Connected(output') = {}
  \/ lockPending /\ suspendTimer \in 1..(lock - 1)

LEMMA StepSuspends ==
  ASSUME IndInv, TimerInv, Next, Len(deferred') > Len(deferred),
         deferred'[Len(deferred')].kind = "suspend"
  PROVE  SuspendGround
<1> USE DEF envVars, lockVars, waitVars, authVars, wireVars
<1>0. TypeOK /\ Len(deferred) \in Nat /\ deferred' # deferred
  BY DEF IndInv, TypeOK
\* lock() queues one only without an output.
<1>1. ASSUME NEW outs, NEW fn, NEW wasDeferred, NEW signals,
             Lock(outs, fn, wasDeferred, signals)
      PROVE  Connected(outs) = {}
  BY <1>0, <1>1 DEF Lock, DeferLock, AbandonLock, RequestLock
<1>2. CASE LockRequested
  BY <1>1, <1>2 DEF LockRequested, SuspendGround
<1>3. CASE RunAfterSessionLocked
  <2>1. CASE /\ Flushable(requested + 1, locked, instances, framed)
             /\ UNCHANGED <<lockVars, logind, requests>>
    BY <2>1 DEF Flushable, SuspendGround
  <2>2. CASE Lock(output, requested + 1, lockDeferred, logind)
    BY <1>1, <1>3, <2>2 DEF RunAfterSessionLocked, SuspendGround
  <2>3. QED BY <1>0, <1>3, <2>1, <2>2 DEF RunAfterSessionLocked
<1>4. CASE LogindLock
  BY <1>0, <1>1, <1>4 DEF LogindLock, SuspendGround
<1>5. ASSUME NEW outs, OnOutputChange(outs) PROVE Connected(outs) = {}
  BY <1>0, <1>1, <1>5 DEF OnOutputChange, ResumeDeferredLock
<1>6. ASSUME NEW o \in Outputs, OutputAnnounced(o) \/ OutputReady(o) \/ OutputRemoved(o)
      PROVE  SuspendGround
  BY <1>5, <1>6 DEF OutputAnnounced, OutputReady, OutputRemoved, SuspendGround
<1>7. ASSUME NEW o \in Outputs, FirstFrame(o) PROVE SuspendGround
  BY <1>0, <1>7 DEF FirstFrame, Flushable, SuspendGround
<1>8. CASE SuspendTimeout
  <2>1. pendingAfter # None /\ suspendTimer # None /\ UNCHANGED locked
    BY <1>0, <1>8 DEF SuspendTimeout
  <2>2. IsActive /\ lock # None
    BY <2>1 DEF IndInv, LockInv, LockStateConsistent
  <2>3. CASE locked
    BY <2>1, <2>3 DEF TimerInv, SuspendGround
  <2>4. CASE ~locked
    <3>1. /\ suspendTimer \in Nat /\ created \in Nat /\ lock \in Nat
          /\ suspendTimer <= created /\ suspendTimer # lock /\ lock = created
      BY <1>0, <2>1, <2>2, <2>4, LockScreenAssumption DEF TypeOK, Locks, None, TimerInv
    <3>2. QED BY <2>1, <2>2, <2>4, <3>1 DEF SuspendGround, IsActive, None
  <2>5. QED BY <2>3, <2>4
<1>9. CASE HandleLocked
  BY <1>0, <1>9 DEF HandleLocked, Flushable, SuspendGround
<1>10. ASSUME NEW attempt \in pam, NEW success \in BOOLEAN, PamAnswers(attempt, success)
       PROVE  FALSE
  <2> DEFINE answer == [kind |-> "auth", generation |-> attempt.generation,
                        lock |-> attempt.lock, success |-> success]
  <2>1. deferred' = Append(deferred, answer)
    BY <1>10 DEF PamAnswers
  <2>2. deferred'[Len(deferred')] = answer
    BY <1>0, <2>1 DEF TypeOK
  <2>3. QED BY <2>2
<1>11. CASE AuthResult \/ SuspendRuns
  <2>1. deferred # <<>> /\ deferred' = Tail(deferred)
    BY <1>11 DEF AuthResult, SuspendRuns
  <2>2. Len(deferred') = Len(deferred) - 1
    BY <1>0, <2>1 DEF TypeOK
  <2>3. QED BY <1>0, <2>2
<1>12. CASE \/ ConfigReloaded \/ TryAuthenticate \/ LogindUnlock \/ FingerprintMatched
            \/ HandleFinished \/ DiscardEvent \/ ServerHandlesRequest
            \/ \E signal \in {"Lock", "Unlock"} : ForeignSignal(signal)
            \/ \E o \in Outputs : SurfaceResized(o) \/ OutputBound(o)
            \/ \E k \in Locks : ServerLocks(k) \/ ServerRefuses(k) \/ ServerRevokes(k)
  BY <1>0, <1>12 DEF ConfigReloaded, TryAuthenticate, LogindUnlock, FingerprintMatched,
     HandleFinished, DiscardEvent, ServerHandlesRequest, ForeignSignal, SurfaceResized,
     OutputBound, ServerLocks, ServerRefuses, ServerRevokes
<1>13. QED
  BY <1>2, <1>3, <1>4, <1>6, <1>7, <1>8, <1>9, <1>10, <1>11, <1>12
  DEF Next, User, Shell, Environment

\* A suspend asked for with the lock overtakes it in one case only: an earlier lock's fallback
\* timer still runs and the new lock is not held yet.
THEOREM SuspendNeverOvertakes == Spec => SuspendWaitsForSurfaces
<1>1. TimerInv /\ UNCHANGED vars => TimerInv'
  BY DEF TimerInv, vars, lockVars, waitVars
<1>2. IndInv /\ TimerInv /\ [Next]_vars => TimerInv'
  BY <1>1, NextTimer
<1>3. IndInv /\ TimerInv /\ [Next]_vars => [SuspendLeaves => SuspendGround]_vars
  BY StepSuspends DEF SuspendLeaves
<1>4. QED BY InitTimer, SpecIndInv, <1>2, <1>3, PTL DEF Spec, SuspendWaitsForSurfaces, SuspendGround
===============================================================================
