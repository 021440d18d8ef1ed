--------------------------- MODULE IdleManagerProofs ---------------------------
(***************************************************************************)
(* Theorems about IdleManager for every set of behaviors and clients and   *)
(* every bound: the fade's list, timer and phases agree, a behavior that   *)
(* fades or has idled hears of the user's return, no fade is cut short by  *)
(* the completion of an earlier one, no behavior misses an idle period,    *)
(* the cookies are counted, and what idling did is undone.                 *)
(***************************************************************************)
EXTENDS IdleManager, FiniteSetTheorems, TLAPS

\* The typed parts of the state: the two queues, and everything else.
QueuesOK == wire \in Seq(Event) /\ closures \in Seq(Closure)

FadeOK ==
  /\ phase \in [Behaviors -> {"Waiting", "Fading", "Idled"}]
  /\ grace \subseteq Behaviors
  /\ willLock \in BOOLEAN
  /\ generation \in Nat
  /\ fallback \in Nat

RestOK ==
  /\ user \in BOOLEAN
  /\ notification \in [Behaviors -> {"none", "active", "idle"}]
  /\ idles \in 0..MaxIdles
  /\ suppressed \in BOOLEAN
  /\ fading \in FadeSettings /\ lockEnabled \in LockSettings
  /\ renewed \in BOOLEAN
  /\ dim \in {"none", "fading", "full"}
  /\ onFadeDone \in Nat /\ forsaken \in BOOLEAN
  /\ lock \in {"none", "requested", "pending", "locked"}
  /\ owed \subseteq Behaviors
  /\ elapsed \subseteq Nat

InhibitOK == held \in [Clients -> 0..MaxHeld] /\ locks \in Nat

LEMMA TypeParts == TypeOK <=> QueuesOK /\ FadeOK /\ RestOK /\ InhibitOK
BY DEF TypeOK, QueuesOK, FadeOK, RestOK, InhibitOK

-----------------------------------------------------------------------------
(* The two queues.                                                         *)

\* The events of destroyed objects stay in their places.
LEMMA WireWithoutIs ==
  ASSUME wire \in Seq(Event), NEW bs
  PROVE  /\ WireWithout(bs) \in Seq(Event)
         /\ Len(WireWithout(bs)) = Len(wire)
         /\ \A i \in 1..Len(wire) :
              /\ WireWithout(bs)[i].type = wire[i].type
              /\ WireWithout(bs)[i].behavior = wire[i].behavior
              /\ WireWithout(bs)[i].live <=> wire[i].live /\ wire[i].behavior \notin bs
              /\ WireWithout(bs)[i] \in Event
<1> DEFINE w == WireWithout(bs)
<1>1. \A i \in 1..Len(wire) : wire[i] \in Event
  OBVIOUS
<1>2. \A i \in 1..Len(wire) :
        [wire[i] EXCEPT !.live = @ /\ wire[i].behavior \notin bs] \in Event
  BY <1>1 DEF Event
<1>3. w \in [1..Len(wire) -> Event]
  BY <1>2 DEF WireWithout
<1>4. w \in Seq(Event) /\ Len(w) = Len(wire)
  BY <1>3, Len(wire) \in Nat
<1>5. \A i \in 1..Len(wire) :
        /\ w[i].type = wire[i].type
        /\ w[i].behavior = wire[i].behavior
        /\ w[i].live <=> wire[i].live /\ wire[i].behavior \notin bs
  BY <1>1 DEF WireWithout, Event
<1>6. QED BY <1>3, <1>4, <1>5

LEMMA EventTypes ==
  ASSUME NEW b \in Behaviors PROVE Idled(b) \in Event /\ Resumed(b) \in Event
BY DEF Idled, Resumed, Event

LEMMA ClosureTypes ==
  /\ \A g \in Nat : Show(g) \in Closure /\ Done(g) \in Closure /\ Check(g) \in Closure
  /\ Hide \in Closure /\ Flush \in Closure
BY DEF Show, Done, Check, Hide, Flush, Closure

LEMMA GraceEndIs ==
  ASSUME NEW u, NEW l PROVE GraceEnd(u, l) \in Seq(Closure) /\ GraceEnd(u, l) \in {<<Hide>>, <<>>}
BY ClosureTypes DEF GraceEnd

LEMMA FlushAfterIs ==
  ASSUME NEW bs, NEW ok
  PROVE  FlushAfter(bs, ok) \in Seq(Closure) /\ FlushAfter(bs, ok) \in {<<Flush>>, <<>>}
BY ClosureTypes DEF FlushAfter

LEMMA CancelGraceIs ==
  ASSUME QueuesOK, FadeOK, NEW u \in BOOLEAN, CancelGrace(u)
  PROVE  /\ closures' \in Seq(Closure)
         /\ grace' = {} /\ willLock' \in BOOLEAN
         /\ generation' \in Nat /\ fallback' \in Nat
<1>1. CASE grace = {}
  BY <1>1 DEF CancelGrace, QueuesOK, FadeOK, graceVars
<1>2. CASE grace # {}
  <2>1. GraceEnd(u, willLock) \in Seq(Closure)
    BY GraceEndIs
  <2>2. /\ closures' = closures \o GraceEnd(u, willLock)
        /\ grace' = {} /\ willLock' = FALSE /\ generation' = generation + 1 /\ fallback' = 0
    BY <1>2 DEF CancelGrace
  <2>3. closures' \in Seq(Closure)
    BY <2>1, <2>2 DEF QueuesOK
  <2>4. generation' \in Nat /\ fallback' \in Nat
    BY <2>2 DEF FadeOK
  <2>5. willLock' \in BOOLEAN
    BY <2>2
  <2>6. QED BY <2>2, <2>3, <2>4, <2>5
<1>3. QED BY <1>1, <1>2

LEMMA RunActionsIs ==
  ASSUME RestOK, NEW bs \in SUBSET Behaviors, NEW ok, RunActions(bs, ok)
  PROVE  lock' \in {"none", "requested", "pending", "locked"} /\ owed' \subseteq Behaviors
BY DEF RunActions, RestOK

LEMMA CompleteIs ==
  ASSUME FadeOK, RestOK, NEW queue \in Seq(Closure), GraceFadeComplete(queue)
  PROVE  /\ FadeOK'
         /\ closures' \in Seq(Closure)
         /\ lock' \in {"none", "requested", "pending", "locked"} /\ owed' \subseteq Behaviors
<1>1. CASE grace = {}
  BY <1>1 DEF GraceFadeComplete, FadeOK, RestOK, graceVars
<1>2. CASE grace # {}
  <2>1. PICK ok \in Outcomes(grace) :
          /\ phase' = [b \in Behaviors |-> IF b \in grace THEN "Idled" ELSE phase[b]]
          /\ RunActions(grace, ok)
          /\ closures' = queue \o FlushAfter(grace, ok)
                               \o GraceEnd(FALSE, \E b \in grace \cap Locks : ok[b])
          /\ grace' = {} /\ willLock' = FALSE /\ fallback' = 0 /\ UNCHANGED generation
    BY <1>2 DEF GraceFadeComplete
  <2>2. closures' \in Seq(Closure)
    <3> DEFINE f == FlushAfter(grace, ok)
               e == GraceEnd(FALSE, \E b \in grace \cap Locks : ok[b])
    <3>1. f \in Seq(Closure)
      BY FlushAfterIs
    <3>2. e \in Seq(Closure)
      BY GraceEndIs
    <3>3. closures' = queue \o f \o e
      BY <2>1
    <3> HIDE DEF f, e
    <3>4. QED BY <3>1, <3>2, <3>3
  <2>3. FadeOK'
    BY <2>1 DEF FadeOK
  <2>4. QED BY <2>1, <2>2, <2>3, RunActionsIs DEF FadeOK
<1>3. QED BY <1>1, <1>2

-----------------------------------------------------------------------------
(* The types.                                                              *)

LEMMA InitType == Init => TypeOK
<1> SUFFICES ASSUME Init PROVE QueuesOK /\ FadeOK /\ RestOK /\ InhibitOK
  BY TypeParts
<1>1. QueuesOK
  BY DEF Init, QueuesOK
<1>2. FadeOK
  BY DEF Init, FadeOK
<1>3. RestOK
  <2>1. idles \in 0..MaxIdles /\ onFadeDone \in Nat
    BY IdleManagerAssumption DEF Init
  <2>2. /\ user \in BOOLEAN /\ suppressed \in BOOLEAN /\ renewed \in BOOLEAN
        /\ forsaken \in BOOLEAN /\ fading \in FadeSettings /\ lockEnabled \in LockSettings
    BY DEF Init
  <2>3. /\ notification \in [Behaviors -> {"none", "active", "idle"}]
        /\ dim \in {"none", "fading", "full"}
        /\ lock \in {"none", "requested", "pending", "locked"}
        /\ owed \subseteq Behaviors /\ elapsed \subseteq Nat
    BY DEF Init
  <2>4. QED BY <2>1, <2>2, <2>3 DEF RestOK
<1>4. InhibitOK
  BY IdleManagerAssumption DEF Init, InhibitOK
<1>5. QED BY <1>1, <1>2, <1>3, <1>4

LEMMA SetInhibitLocksIs ==
  ASSUME QueuesOK, FadeOK, RestOK, NEW n \in Nat, SetInhibitLocks(n)
  PROVE  /\ QueuesOK' /\ FadeOK' /\ locks' \in Nat
         /\ suppressed' \in BOOLEAN /\ renewed' \in BOOLEAN
         /\ notification' \in [Behaviors -> {"none", "active", "idle"}]
<1>1. CASE locks > 0 /\ n = 0 /\ suppressed
  <2>1. /\ suppressed' = FALSE /\ renewed' = TRUE /\ Recreate(Registered) /\ CancelGrace(FALSE)
        /\ phase' = [b \in Behaviors |-> IF b \in Registered THEN "Waiting" ELSE phase[b]]
        /\ locks' = n
    BY <1>1 DEF SetInhibitLocks
  <2>2. FadeOK' /\ closures' \in Seq(Closure)
    BY <2>1, CancelGraceIs DEF FadeOK
  <2>3. wire' \in Seq(Event) /\ notification' \in [Behaviors -> {"none", "active", "idle"}]
    BY <2>1, WireWithoutIs DEF Recreate, QueuesOK, RestOK
  <2>4. QueuesOK'
    BY <2>2, <2>3 DEF QueuesOK
  <2>5. QED BY <2>1, <2>2, <2>3, <2>4
<1>2. CASE ~(locks > 0 /\ n = 0 /\ suppressed)
  <2>1. locks' = n /\ suppressed' = suppressed /\ renewed' = renewed /\ notification' = notification
    BY <1>2 DEF SetInhibitLocks
  <2>2. QueuesOK' /\ FadeOK'
    BY <1>2 DEF SetInhibitLocks, QueuesOK, FadeOK, graceVars
  <2>3. QED BY <2>1, <2>2 DEF RestOK
<1>3. QED BY <1>1, <1>2

LEMMA NextType == TypeOK /\ [Next]_vars => TypeOK'
<1> SUFFICES ASSUME QueuesOK, FadeOK, RestOK, InhibitOK, [Next]_vars
             PROVE  QueuesOK' /\ FadeOK' /\ RestOK' /\ InhibitOK'
  BY DEF TypeOK, QueuesOK, FadeOK, RestOK, InhibitOK
<1> USE DEF userVars, inhibitVars, graceVars, configVars, overlayVars
<1>1. ASSUME NEW b \in Behaviors, CompositorIdled(b) PROVE QueuesOK' /\ FadeOK' /\ RestOK' /\ InhibitOK'
  <2>1. QueuesOK'
    BY <1>1, EventTypes DEF CompositorIdled, QueuesOK
  <2>2. FadeOK'
    BY <1>1 DEF CompositorIdled, FadeOK
  <2>3. RestOK'
    <3>1. idles' \in 0..MaxIdles
      BY <1>1, IdleManagerAssumption DEF CompositorIdled, RestOK
    <3>2. user' \in BOOLEAN /\ notification' \in [Behaviors -> {"none", "active", "idle"}]
      BY <1>1 DEF CompositorIdled, RestOK
    <3>3. UNCHANGED <<suppressed, fading, lockEnabled, renewed, dim, onFadeDone, forsaken, lock, owed,
                    elapsed>>
      BY <1>1 DEF CompositorIdled
    <3>4. QED BY <3>1, <3>2, <3>3 DEF RestOK
  <2>4. InhibitOK'
    BY <1>1 DEF CompositorIdled, InhibitOK
  <2>5. QED BY <2>1, <2>2, <2>3, <2>4
<1>2. CASE UserInput
  <2>1. QueuesOK'
    BY <1>2 DEF UserInput, QueuesOK
  <2>2. FadeOK'
    BY <1>2 DEF UserInput, FadeOK
  <2>3. RestOK'
    BY <1>2 DEF UserInput, RestOK
  <2>4. InhibitOK'
    BY <1>2 DEF UserInput, InhibitOK
  <2>5. QED BY <2>1, <2>2, <2>3, <2>4
<1>3. ASSUME NEW b \in Behaviors, CompositorResumed(b) PROVE QueuesOK' /\ FadeOK' /\ RestOK' /\ InhibitOK'
  <2>1. QueuesOK'
    BY <1>3, EventTypes DEF CompositorResumed, QueuesOK
  <2>2. FadeOK'
    BY <1>3 DEF CompositorResumed, FadeOK
  <2>3. RestOK'
    BY <1>3 DEF CompositorResumed, RestOK
  <2>4. InhibitOK'
    BY <1>3 DEF CompositorResumed, InhibitOK
  <2>5. QED BY <2>1, <2>2, <2>3, <2>4
<1>4. ASSUME NEW b \in Behaviors, SuppressIdled(b) PROVE QueuesOK' /\ FadeOK' /\ RestOK' /\ InhibitOK'
  <2>1. QueuesOK'
    BY <1>4, WireWithoutIs DEF SuppressIdled, Receives, QueuesOK
  <2>2. FadeOK'
    BY <1>4 DEF SuppressIdled, FadeOK
  <2>3. RestOK'
    BY <1>4 DEF SuppressIdled, RestOK
  <2>4. InhibitOK'
    BY <1>4 DEF SuppressIdled, InhibitOK
  <2>5. QED BY <2>1, <2>2, <2>3, <2>4
<1>5. ASSUME NEW b \in Behaviors, JoinFade(b) PROVE QueuesOK' /\ FadeOK' /\ RestOK' /\ InhibitOK'
  <2>1. QueuesOK'
    BY <1>5 DEF JoinFade, Receives, QueuesOK
  <2>2. FadeOK'
    BY <1>5 DEF JoinFade, JoinGrace, FadeOK
  <2>3. RestOK'
    BY <1>5 DEF JoinFade, RestOK
  <2>4. InhibitOK'
    BY <1>5 DEF JoinFade, InhibitOK
  <2>5. QED BY <2>1, <2>2, <2>3, <2>4
<1>6. ASSUME NEW b \in Behaviors, BeginFade(b) PROVE QueuesOK' /\ FadeOK' /\ RestOK' /\ InhibitOK'
  <2>1. QueuesOK'
    BY <1>6, ClosureTypes DEF BeginFade, Receives, QueuesOK, FadeOK
  <2>2. FadeOK'
    BY <1>6 DEF BeginFade, JoinGrace, FadeOK
  <2>3. RestOK'
    BY <1>6 DEF BeginFade, RestOK
  <2>4. InhibitOK'
    BY <1>6 DEF BeginFade, InhibitOK
  <2>5. QED BY <2>1, <2>2, <2>3, <2>4
<1>7. ASSUME NEW b \in Behaviors, IdleAtOnce(b) PROVE QueuesOK' /\ FadeOK' /\ RestOK' /\ InhibitOK'
  <2>1. QueuesOK'
    BY <1>7, FlushAfterIs DEF IdleAtOnce, Receives, QueuesOK
  <2>2. FadeOK'
    BY <1>7 DEF IdleAtOnce, FadeOK
  <2>3. RestOK'
    BY <1>7, RunActionsIs DEF IdleAtOnce, RestOK
  <2>4. InhibitOK'
    BY <1>7 DEF IdleAtOnce, InhibitOK
  <2>5. QED BY <2>1, <2>2, <2>3, <2>4
<1>8. ASSUME NEW b \in Behaviors, CancelFade(b) PROVE QueuesOK' /\ FadeOK' /\ RestOK' /\ InhibitOK'
  <2>1. QueuesOK'
    <3>1. closures' \in Seq(Closure)
      BY <1>8, CancelGraceIs DEF CancelFade
    <3>2. QED BY <1>8, <3>1 DEF CancelFade, Receives, QueuesOK
  <2>2. FadeOK'
    BY <1>8, CancelGraceIs DEF CancelFade, PhaseWithoutGrace, FadeOK
  <2>3. RestOK'
    BY <1>8 DEF CancelFade, RestOK
  <2>4. InhibitOK'
    BY <1>8 DEF CancelFade, InhibitOK
  <2>5. QED BY <2>1, <2>2, <2>3, <2>4
<1>9. ASSUME NEW b \in Behaviors, Resume(b) PROVE QueuesOK' /\ FadeOK' /\ RestOK' /\ InhibitOK'
  <2>1. QueuesOK'
    BY <1>9 DEF Resume, Receives, QueuesOK
  <2>2. FadeOK'
    BY <1>9 DEF Resume, FadeOK
  <2>3. RestOK'
    BY <1>9 DEF Resume, RestOK
  <2>4. InhibitOK'
    BY <1>9 DEF Resume, InhibitOK
  <2>5. QED BY <2>1, <2>2, <2>3, <2>4
<1>10. ASSUME NEW b \in Behaviors, IgnoreEvent(b) PROVE QueuesOK' /\ FadeOK' /\ RestOK' /\ InhibitOK'
  <2>1. QueuesOK'
    BY <1>10 DEF IgnoreEvent, QueuesOK
  <2>2. FadeOK'
    BY <1>10 DEF IgnoreEvent, FadeOK
  <2>3. RestOK'
    BY <1>10 DEF IgnoreEvent, RestOK
  <2>4. InhibitOK'
    BY <1>10 DEF IgnoreEvent, InhibitOK
  <2>5. QED BY <2>1, <2>2, <2>3, <2>4
<1>11. CASE DiscardEvent
  <2>1. QueuesOK'
    BY <1>11 DEF DiscardEvent, QueuesOK
  <2>2. FadeOK'
    BY <1>11 DEF DiscardEvent, FadeOK
  <2>3. RestOK'
    BY <1>11 DEF DiscardEvent, RestOK
  <2>4. InhibitOK'
    BY <1>11 DEF DiscardEvent, InhibitOK
  <2>5. QED BY <2>1, <2>2, <2>3, <2>4
<1>12. ASSUME NEW g \in Generations, ShowOverlay(g) PROVE QueuesOK' /\ FadeOK' /\ RestOK' /\ InhibitOK'
  <2>1. QueuesOK'
    BY <1>12 DEF ShowOverlay, FrontClosure, QueuesOK
  <2>2. FadeOK'
    BY <1>12 DEF ShowOverlay, FadeOK
  <2>3. RestOK'
    <3>1. dim' = "fading" /\ onFadeDone' = g /\ forsaken' = FALSE
      BY <1>12 DEF ShowOverlay
    <3>2. UNCHANGED <<user, notification, idles, suppressed, fading, lockEnabled, renewed, lock,
                      owed, elapsed>>
      BY <1>12 DEF ShowOverlay
    <3>3. g \in Nat
      BY IdleManagerAssumption DEF Generations
    <3>4. QED BY <3>1, <3>2, <3>3 DEF RestOK
  <2>4. InhibitOK'
    BY <1>12 DEF ShowOverlay, InhibitOK
  <2>5. QED BY <2>1, <2>2, <2>3, <2>4
<1>13. ASSUME NEW g \in Generations, ShowWithoutSurfaces(g) PROVE QueuesOK' /\ FadeOK' /\ RestOK' /\ InhibitOK'
  <2>1. QueuesOK'
    BY <1>13, ClosureTypes DEF ShowWithoutSurfaces, FrontClosure, QueuesOK, Generations
  <2>2. FadeOK'
    BY <1>13 DEF ShowWithoutSurfaces, FadeOK
  <2>3. RestOK'
    BY <1>13, IdleManagerAssumption DEF ShowWithoutSurfaces, RestOK, Generations
  <2>4. InhibitOK'
    BY <1>13 DEF ShowWithoutSurfaces, InhibitOK
  <2>5. QED BY <2>1, <2>2, <2>3, <2>4
<1>14. CASE RunHide
  <2>1. QueuesOK'
    BY <1>14 DEF RunHide, FrontClosure, QueuesOK
  <2>2. FadeOK'
    BY <1>14 DEF RunHide, FadeOK
  <2>3. RestOK'
    BY <1>14 DEF RunHide, HideOverlay, RestOK
  <2>4. InhibitOK'
    BY <1>14 DEF RunHide, InhibitOK
  <2>5. QED BY <2>1, <2>2, <2>3, <2>4
<1>15. ASSUME NEW g \in Generations, RunDone(g) PROVE QueuesOK' /\ FadeOK' /\ RestOK' /\ InhibitOK'
  <2>1. QueuesOK'
    BY <1>15, ClosureTypes DEF RunDone, FrontClosure, QueuesOK, Generations
  <2>2. FadeOK'
    BY <1>15 DEF RunDone, FadeOK
  <2>3. RestOK'
    BY <1>15 DEF RunDone, RestOK
  <2>4. InhibitOK'
    BY <1>15 DEF RunDone, InhibitOK
  <2>5. QED BY <2>1, <2>2, <2>3, <2>4
<1>16. CASE LockRequestSent
  <2>1. QueuesOK'
    BY <1>16 DEF LockRequestSent, FrontClosure, QueuesOK
  <2>2. FadeOK'
    BY <1>16 DEF LockRequestSent, FadeOK
  <2>3. RestOK'
    BY <1>16 DEF LockRequestSent, RestOK
  <2>4. InhibitOK'
    BY <1>16 DEF LockRequestSent, InhibitOK
  <2>5. QED BY <2>1, <2>2, <2>3, <2>4
<1>17. CASE FadeFinishes
  <2>1. QueuesOK'
    BY <1>17, ClosureTypes DEF FadeFinishes, QueuesOK, RestOK
  <2>2. FadeOK'
    BY <1>17 DEF FadeFinishes, FadeOK
  <2>3. RestOK'
    BY <1>17 DEF FadeFinishes, RestOK
  <2>4. InhibitOK'
    BY <1>17 DEF FadeFinishes, InhibitOK
  <2>5. QED BY <2>1, <2>2, <2>3, <2>4
<1>18. CASE OutputsChange
  <2>1. QueuesOK'
    BY <1>18 DEF OutputsChange, QueuesOK
  <2>2. FadeOK'
    BY <1>18 DEF OutputsChange, FadeOK
  <2>3. RestOK'
    BY <1>18 DEF OutputsChange, HideOverlay, RestOK
  <2>4. InhibitOK'
    BY <1>18 DEF OutputsChange, InhibitOK
  <2>5. QED BY <2>1, <2>2, <2>3, <2>4
<1>19. CASE Reload
  <2>1. QueuesOK'
    BY <1>19, WireWithoutIs, CancelGraceIs DEF Reload, QueuesOK
  <2>2. FadeOK'
    BY <1>19, CancelGraceIs DEF Reload, FadeOK
  <2>3. RestOK'
    BY <1>19, IdleManagerAssumption DEF Reload, RestOK
  <2>4. InhibitOK'
    BY <1>19 DEF Reload, InhibitOK
  <2>5. QED BY <2>1, <2>2, <2>3, <2>4
<1>20. ASSUME NEW c \in Clients, Inhibit(c) PROVE QueuesOK' /\ FadeOK' /\ RestOK' /\ InhibitOK'
  <2>1. locks + 1 \in Nat
    BY DEF LocksLess, InhibitOK
  <2>2. SetInhibitLocks(locks + 1)
    BY <1>20 DEF Inhibit
  <2>3. /\ QueuesOK' /\ FadeOK' /\ locks' \in Nat
        /\ suppressed' \in BOOLEAN /\ renewed' \in BOOLEAN
        /\ notification' \in [Behaviors -> {"none", "active", "idle"}]
    BY <2>1, <2>2, SetInhibitLocksIs
  <2>4. RestOK'
    BY <1>20, <2>3 DEF Inhibit, RestOK
  <2>5. held' \in [Clients -> 0..MaxHeld]
    BY <1>20, IdleManagerAssumption DEF Inhibit, InhibitOK
  <2>6. QED BY <2>3, <2>4, <2>5 DEF InhibitOK
<1>21. ASSUME NEW c \in Clients, Uninhibit(c) PROVE QueuesOK' /\ FadeOK' /\ RestOK' /\ InhibitOK'
  <2>1. LocksLess(1) \in Nat
    BY DEF LocksLess, InhibitOK
  <2>2. SetInhibitLocks(LocksLess(1))
    BY <1>21 DEF Uninhibit
  <2>3. /\ QueuesOK' /\ FadeOK' /\ locks' \in Nat
        /\ suppressed' \in BOOLEAN /\ renewed' \in BOOLEAN
        /\ notification' \in [Behaviors -> {"none", "active", "idle"}]
    BY <2>1, <2>2, SetInhibitLocksIs
  <2>4. RestOK'
    BY <1>21, <2>3 DEF Uninhibit, RestOK
  <2>5. held' \in [Clients -> 0..MaxHeld]
    BY <1>21, IdleManagerAssumption DEF Uninhibit, InhibitOK
  <2>6. QED BY <2>3, <2>4, <2>5 DEF InhibitOK
<1>22. ASSUME NEW c \in Clients, ClientLeaves(c) PROVE QueuesOK' /\ FadeOK' /\ RestOK' /\ InhibitOK'
  <2>1. LocksLess(held[c]) \in Nat
    BY DEF LocksLess, InhibitOK
  <2>2. SetInhibitLocks(LocksLess(held[c]))
    BY <1>22 DEF ClientLeaves
  <2>3. /\ QueuesOK' /\ FadeOK' /\ locks' \in Nat
        /\ suppressed' \in BOOLEAN /\ renewed' \in BOOLEAN
        /\ notification' \in [Behaviors -> {"none", "active", "idle"}]
    BY <2>1, <2>2, SetInhibitLocksIs
  <2>4. RestOK'
    BY <1>22, <2>3 DEF ClientLeaves, RestOK
  <2>5. held' \in [Clients -> 0..MaxHeld]
    BY <1>22, IdleManagerAssumption DEF ClientLeaves, InhibitOK
  <2>6. QED BY <2>3, <2>4, <2>5 DEF InhibitOK
<1>23. CASE SessionLocked
  <2>1. QueuesOK'
    BY <1>23 DEF SessionLocked, QueuesOK
  <2>2. FadeOK'
    BY <1>23 DEF SessionLocked, FadeOK
  <2>3. RestOK'
    BY <1>23 DEF SessionLocked, HideOverlay, RestOK
  <2>4. InhibitOK'
    BY <1>23 DEF SessionLocked, InhibitOK
  <2>5. QED BY <2>1, <2>2, <2>3, <2>4
<1>24. CASE SessionUnlocked
  <2>1. QueuesOK'
    BY <1>24 DEF SessionUnlocked, QueuesOK
  <2>2. FadeOK'
    BY <1>24 DEF SessionUnlocked, FadeOK
  <2>3. RestOK'
    BY <1>24 DEF SessionUnlocked, HideOverlay, RestOK
  <2>4. InhibitOK'
    BY <1>24 DEF SessionUnlocked, InhibitOK
  <2>5. QED BY <2>1, <2>2, <2>3, <2>4
<1>28. CASE PendingUnlocked
  <2>1. QueuesOK' /\ FadeOK' /\ InhibitOK'
    BY <1>28 DEF PendingUnlocked, QueuesOK, FadeOK, InhibitOK
  <2>2. RestOK'
    BY <1>28 DEF PendingUnlocked, RestOK
  <2>3. QED BY <2>1, <2>2
<1>29. ASSUME NEW g \in Generations, ShowOnOtherOutputs(g)
       PROVE  QueuesOK' /\ FadeOK' /\ RestOK' /\ InhibitOK'
  <2>1. QueuesOK' /\ FadeOK' /\ InhibitOK'
    BY <1>29 DEF ShowOnOtherOutputs, FrontClosure, QueuesOK, FadeOK, InhibitOK
  <2>2. RestOK'
    BY <1>29 DEF ShowOnOtherOutputs, RestOK
  <2>3. QED BY <2>1, <2>2
<1>25. ASSUME NEW g \in Generations, RunCheck(g) PROVE QueuesOK' /\ FadeOK' /\ RestOK' /\ InhibitOK'
  <2>1. closures # <<>> /\ Tail(closures) \in Seq(Closure)
    BY <1>25 DEF RunCheck, FrontClosure, QueuesOK
  <2>2. /\ FadeOK' /\ closures' \in Seq(Closure)
        /\ lock' \in {"none", "requested", "pending", "locked"} /\ owed' \subseteq Behaviors
    <3>1. CASE generation = g
      BY <1>25, <2>1, <3>1, CompleteIs DEF RunCheck
    <3>2. CASE generation # g
      BY <1>25, <2>1, <3>2 DEF RunCheck, FadeOK, RestOK
    <3>3. QED BY <3>1, <3>2
  <2>3. QueuesOK' /\ RestOK' /\ InhibitOK'
    BY <1>25, <2>2 DEF RunCheck, QueuesOK, RestOK, InhibitOK
  <2>4. QED BY <2>2, <2>3
<1>26. CASE FallbackFires
  <2>1. /\ FadeOK' /\ closures' \in Seq(Closure)
        /\ lock' \in {"none", "requested", "pending", "locked"} /\ owed' \subseteq Behaviors
    <3>1. CASE generation = fallback /\ grace # {}
      BY <1>26, <3>1, CompleteIs DEF FallbackFires, QueuesOK
    <3>2. CASE ~(generation = fallback /\ grace # {})
      BY <1>26, <3>2 DEF FallbackFires, FadeOK, RestOK, QueuesOK
    <3>3. QED BY <3>1, <3>2
  <2>2. elapsed' \subseteq Nat
    BY <1>26 DEF FallbackFires, RestOK, FadeOK
  <2>3. QueuesOK' /\ RestOK' /\ InhibitOK'
    BY <1>26, <2>1, <2>2 DEF FallbackFires, QueuesOK, RestOK, InhibitOK
  <2>4. QED BY <2>1, <2>3
<1>27. CASE UNCHANGED vars
  BY <1>27 DEF vars, QueuesOK, FadeOK, RestOK, InhibitOK
<1> QED
  BY <1>1, <1>2, <1>3, <1>4, <1>5, <1>6, <1>7, <1>8, <1>9, <1>10, <1>11, <1>12, <1>13, <1>14, <1>15, <1>16, <1>17, <1>18, <1>19, <1>20, <1>21, <1>22, <1>23, <1>24, <1>25, <1>26, <1>27, <1>28, <1>29 DEF Next

\* The state is well typed for every set of behaviors and clients.
THEOREM TypeCorrect == Spec => []TypeOK
BY InitType, NextType, PTL DEF Spec


-----------------------------------------------------------------------------
(* The user's return.                                                      *)

\* Return(b, i): the user's return is still to be reported to b after the i-th event.
Return(b, i) ==
  notification[b] = "idle" \/ \E j \in 1..Len(wire) : j > i /\ wire[j] = Resumed(b)

\* What makes ReturnIsHeard inductive: "resumed" follows each "idled" that is on its way,
\* and a behavior without a notification waits and has no events.
ReturnFollows ==
  \A b \in Behaviors, i \in 1..Len(wire) : wire[i] = Idled(b) => Return(b, i)

OnlyRegistered ==
  \A b \in Behaviors : notification[b] = "none" =>
    /\ phase[b] = "Waiting"
    /\ \A i \in 1..Len(wire) : wire[i] \notin {Idled(b), Resumed(b)}

EventInv == ReturnIsHeard /\ ReturnFollows /\ OnlyRegistered

LEMMA ReturnIsHeardIs ==
  ReturnIsHeard <=> \A b \in Behaviors : phase[b] # "Waiting" => Return(b, 0)
BY DEF ReturnIsHeard, Pending, Return

LEMMA EventsDiffer ==
  ASSUME NEW b \in Behaviors, NEW c \in Behaviors
  PROVE  /\ Idled(b) # Resumed(c)
         /\ Idled(b) = Idled(c) => b = c
         /\ Resumed(b) = Resumed(c) => b = c
<1>1. Idled(b).type # Resumed(c).type
  BY DEF Idled, Resumed
<1>2. Idled(b).behavior = b /\ Idled(c).behavior = c
      /\ Resumed(b).behavior = b /\ Resumed(c).behavior = c
  BY DEF Idled, Resumed
<1>3. QED BY <1>1, <1>2

\* Destroying the objects of bs removes their events and no others.
LEMMA WireWithoutEvents ==
  ASSUME wire \in Seq(Event), NEW bs, NEW b \in Behaviors, NEW i \in 1..Len(wire)
  PROVE  /\ b \in bs => WireWithout(bs)[i] \notin {Idled(b), Resumed(b)}
         /\ b \notin bs => /\ WireWithout(bs)[i] = Idled(b) <=> wire[i] = Idled(b)
                           /\ WireWithout(bs)[i] = Resumed(b) <=> wire[i] = Resumed(b)
<1> DEFINE w == WireWithout(bs)
<1>1. /\ w[i].type = wire[i].type /\ w[i].behavior = wire[i].behavior
      /\ w[i].live <=> wire[i].live /\ wire[i].behavior \notin bs
      /\ w[i] \in Event /\ wire[i] \in Event
  BY WireWithoutIs
<1>2. \A e \in Event : /\ e = Idled(b) <=> e.type = "idled" /\ e.behavior = b /\ e.live
                       /\ e = Resumed(b) <=> e.type = "resumed" /\ e.behavior = b /\ e.live
  BY DEF Event, Idled, Resumed
<1> HIDE DEF w
<1>3. /\ w[i] = Idled(b) <=> w[i].type = "idled" /\ w[i].behavior = b /\ w[i].live
      /\ w[i] = Resumed(b) <=> w[i].type = "resumed" /\ w[i].behavior = b /\ w[i].live
      /\ wire[i] = Idled(b) <=> wire[i].type = "idled" /\ wire[i].behavior = b /\ wire[i].live
      /\ wire[i] = Resumed(b) <=> wire[i].type = "resumed" /\ wire[i].behavior = b /\ wire[i].live
  BY <1>1, <1>2
<1>4. QED BY <1>1, <1>3 DEF w

\* The front event leaves the wire.
LEMMA TailKeepsReturns ==
  ASSUME QueuesOK, wire # <<>>, wire' = Tail(wire), UNCHANGED notification
  PROVE  /\ \A b \in Behaviors, i \in 0..Len(wire') : Return(b, i + 1) => Return(b, i)'
         /\ \A b \in Behaviors : Head(wire) # Resumed(b) /\ Return(b, 0) => Return(b, 0)'
         /\ \A i \in 1..Len(wire') : wire'[i] = wire[i + 1] /\ i + 1 \in 1..Len(wire)
<1>1. /\ Len(wire) \in Nat \ {0} /\ Len(wire') = Len(wire) - 1 /\ Head(wire) = wire[1]
      /\ \A i \in 1..Len(wire') : wire'[i] = wire[i + 1] /\ i + 1 \in 1..Len(wire)
  BY DEF QueuesOK
<1>2. ASSUME NEW b \in Behaviors, NEW i \in 0..Len(wire'), Return(b, i + 1)
      PROVE  Return(b, i)'
  <2>1. CASE notification[b] = "idle"
    BY <2>1 DEF Return
  <2>2. ASSUME NEW j \in 1..Len(wire), j > i + 1, wire[j] = Resumed(b)
        PROVE  Return(b, i)'
    <3>1. j - 1 \in 1..Len(wire') /\ j - 1 > i /\ wire'[j - 1] = wire[j]
      BY <1>1, <2>2
    <3>2. Resumed(b)' = Resumed(b)
      BY DEF Resumed
    <3>3. QED BY <2>2, <3>1, <3>2 DEF Return
  <2>3. QED BY <1>2, <2>1, <2>2 DEF Return
<1>3. ASSUME NEW b \in Behaviors, Head(wire) # Resumed(b), Return(b, 0)
      PROVE  Return(b, 0)'
  <2>1. Return(b, 0 + 1)
    <3>1. \A j \in 1..Len(wire) : j > 0 /\ wire[j] = Resumed(b) => j > 0 + 1
      BY <1>1, <1>3
    <3>2. QED BY <1>3, <3>1 DEF Return
  <2>2. 0 \in 0..Len(wire')
    BY <1>1
  <2>3. QED BY <1>2, <2>1, <2>2
<1>4. QED BY <1>1, <1>2, <1>3

\* An event is handled or ignored. It is the front one; phase may change for its behavior.
LEMMA TailStep ==
  ASSUME TypeOK, EventInv, wire # <<>>, wire' = Tail(wire), UNCHANGED notification,
         \A b \in Behaviors : phase'[b] # "Waiting" =>
            \/ phase[b] # "Waiting" /\ Head(wire) # Resumed(b)
            \/ Head(wire) = Idled(b)
  PROVE  EventInv'
<1> USE TypeParts
<1>1. ReturnFollows'
  <2> SUFFICES ASSUME NEW b \in Behaviors, NEW i \in 1..Len(wire'), wire'[i] = Idled(b)
               PROVE  Return(b, i)'
    BY DEF ReturnFollows, Idled
  <2>1. wire[i + 1] = Idled(b) /\ i + 1 \in 1..Len(wire) /\ i \in 0..Len(wire')
    BY TailKeepsReturns
  <2>2. Return(b, i + 1)
    BY <2>1 DEF EventInv, ReturnFollows
  <2>3. QED BY <2>1, <2>2, TailKeepsReturns
<1>2. ReturnIsHeard'
  <2>1. ASSUME NEW b \in Behaviors, phase'[b] # "Waiting"
        PROVE  Return(b, 0)'
    <3>1. CASE phase[b] # "Waiting" /\ Head(wire) # Resumed(b)
      BY <3>1, TailKeepsReturns, ReturnIsHeardIs DEF EventInv
    <3>2. CASE Head(wire) = Idled(b)
      <4>1. 1 \in 1..Len(wire) /\ wire[1] = Idled(b)
        BY <3>2 DEF QueuesOK
      <4>2. Head(wire) # Resumed(b) /\ Return(b, 1)
        BY <3>2, <4>1, EventsDiffer DEF EventInv, ReturnFollows
      <4>3. Return(b, 0)
        BY <4>2 DEF Return
      <4>4. QED BY <4>2, <4>3, TailKeepsReturns
    <3>3. QED BY <2>1, <3>1, <3>2
  <2>2. QED BY <2>1 DEF ReturnIsHeard, Pending, Return
<1>3. OnlyRegistered'
  <2> SUFFICES ASSUME NEW b \in Behaviors, notification[b] = "none"
               PROVE  /\ phase'[b] = "Waiting"
                      /\ \A i \in 1..Len(wire') : wire'[i] \notin {Idled(b), Resumed(b)}
    BY DEF OnlyRegistered, Idled, Resumed
  <2>1. \A i \in 1..Len(wire') : wire'[i] \notin {Idled(b), Resumed(b)}
    BY TailKeepsReturns DEF EventInv, OnlyRegistered
  <2>2. Head(wire) # Idled(b)
    BY DEF EventInv, OnlyRegistered, QueuesOK
  <2>3. QED BY <2>1, <2>2 DEF EventInv, OnlyRegistered
<1>4. QED BY <1>1, <1>2, <1>3 DEF EventInv


LEMMA EventFrame ==
  ASSUME EventInv, UNCHANGED <<wire, notification, phase>>
  PROVE  EventInv'
BY DEF EventInv, ReturnIsHeard, Pending, ReturnFollows, OnlyRegistered, Return, Idled, Resumed

LEMMA SendIdledStep ==
  ASSUME TypeOK, EventInv, NEW c \in Behaviors, CompositorIdled(c)
  PROVE  EventInv'
<1>1. /\ notification[c] = "active"
      /\ notification' = [notification EXCEPT ![c] = "idle"]
      /\ wire' = Append(wire, Idled(c)) /\ phase' = phase
  BY DEF CompositorIdled
<1>2. /\ Len(wire) \in Nat /\ Len(wire') = Len(wire) + 1
      /\ \A i \in 1..Len(wire) : wire'[i] = wire[i]
      /\ wire'[Len(wire) + 1] = Idled(c)
  BY <1>1, EventTypes DEF TypeOK
<1>3. notification'[c] = "idle" /\ \A b \in Behaviors \ {c} : notification'[b] = notification[b]
  BY <1>1 DEF TypeOK
<1>4. \A b \in Behaviors, i \in Nat : Return(b, i) => Return(b, i)'
  <2> SUFFICES ASSUME NEW b \in Behaviors, NEW i \in Nat, Return(b, i) PROVE Return(b, i)'
    OBVIOUS
  <2>1. CASE notification[b] = "idle"
    BY <2>1, <1>3 DEF Return
  <2>2. ASSUME NEW j \in 1..Len(wire), j > i, wire[j] = Resumed(b) PROVE Return(b, i)'
    <3>1. j \in 1..Len(wire') /\ wire'[j] = Resumed(b)
      BY <2>2, <1>2
    <3>2. QED BY <2>2, <3>1 DEF Return, Resumed
  <2>3. QED BY <2>1, <2>2 DEF Return
<1>5. ReturnIsHeard'
  BY <1>1, <1>4, ReturnIsHeardIs DEF EventInv, ReturnIsHeard, Pending, Return
<1>6. ReturnFollows'
  <2> SUFFICES ASSUME NEW b \in Behaviors, NEW i \in 1..Len(wire'), wire'[i] = Idled(b)
               PROVE  Return(b, i)'
    BY DEF ReturnFollows, Idled
  <2>1. CASE i \in 1..Len(wire)
    BY <2>1, <1>2, <1>4 DEF EventInv, ReturnFollows
  <2>2. CASE i = Len(wire) + 1
    BY <2>2, <1>2, <1>3, EventsDiffer DEF Return
  <2>3. QED BY <2>1, <2>2, <1>2
<1>7. OnlyRegistered'
  <2> SUFFICES ASSUME NEW b \in Behaviors, notification'[b] = "none"
               PROVE  /\ phase'[b] = "Waiting"
                      /\ \A i \in 1..Len(wire') : wire'[i] \notin {Idled(b), Resumed(b)}
    BY DEF OnlyRegistered, Idled, Resumed
  <2>1. b # c /\ notification[b] = "none"
    BY <1>3
  <2>2. Idled(c) \notin {Idled(b), Resumed(b)}
    BY <2>1, EventsDiffer
  <2>3. QED BY <1>1, <1>2, <2>1, <2>2 DEF EventInv, OnlyRegistered
<1>8. QED BY <1>5, <1>6, <1>7 DEF EventInv

LEMMA SendResumedStep ==
  ASSUME TypeOK, EventInv, NEW c \in Behaviors, CompositorResumed(c)
  PROVE  EventInv'
<1>1. /\ notification[c] = "idle"
      /\ notification' = [notification EXCEPT ![c] = "active"]
      /\ wire' = Append(wire, Resumed(c)) /\ phase' = phase
  BY DEF CompositorResumed
<1>2. /\ Len(wire) \in Nat /\ Len(wire') = Len(wire) + 1
      /\ \A i \in 1..Len(wire) : wire'[i] = wire[i]
      /\ wire'[Len(wire) + 1] = Resumed(c)
  BY <1>1, EventTypes DEF TypeOK
<1>3. notification'[c] = "active" /\ \A b \in Behaviors \ {c} : notification'[b] = notification[b]
  BY <1>1 DEF TypeOK
<1>4. \A b \in Behaviors, i \in 0..Len(wire) : Return(b, i) => Return(b, i)'
  <2> SUFFICES ASSUME NEW b \in Behaviors, NEW i \in 0..Len(wire), Return(b, i)
               PROVE  Return(b, i)'
    OBVIOUS
  <2>1. CASE b = c
    BY <2>1, <1>2 DEF Return, Resumed
  <2>2. CASE b # c /\ notification[b] = "idle"
    BY <2>2, <1>3 DEF Return
  <2>3. ASSUME NEW j \in 1..Len(wire), j > i, wire[j] = Resumed(b) PROVE Return(b, i)'
    <3>1. j \in 1..Len(wire') /\ wire'[j] = Resumed(b)
      BY <2>3, <1>2
    <3>2. QED BY <2>3, <3>1 DEF Return, Resumed
  <2>4. QED BY <2>1, <2>2, <2>3 DEF Return
<1>5. ReturnIsHeard'
  BY <1>1, <1>2, <1>4, ReturnIsHeardIs DEF EventInv, ReturnIsHeard, Pending, Return
<1>6. ReturnFollows'
  <2> SUFFICES ASSUME NEW b \in Behaviors, NEW i \in 1..Len(wire'), wire'[i] = Idled(b)
               PROVE  Return(b, i)'
    BY DEF ReturnFollows, Idled
  <2>1. i # Len(wire) + 1
    BY <1>2, EventsDiffer
  <2>2. i \in 1..Len(wire) /\ wire[i] = Idled(b)
    BY <2>1, <1>2
  <2>3. QED BY <2>2, <1>4 DEF EventInv, ReturnFollows
<1>7. OnlyRegistered'
  <2> SUFFICES ASSUME NEW b \in Behaviors, notification'[b] = "none"
               PROVE  /\ phase'[b] = "Waiting"
                      /\ \A i \in 1..Len(wire') : wire'[i] \notin {Idled(b), Resumed(b)}
    BY DEF OnlyRegistered, Idled, Resumed
  <2>1. b # c /\ notification[b] = "none"
    BY <1>3
  <2>2. Resumed(c) \notin {Idled(b), Resumed(b)}
    BY <2>1, EventsDiffer
  <2>3. QED BY <1>1, <1>2, <2>1, <2>2 DEF EventInv, OnlyRegistered
<1>8. QED BY <1>5, <1>6, <1>7 DEF EventInv

\* The objects of bs are destroyed, their behaviors wait, and some may be made anew.
LEMMA DestroyStep ==
  ASSUME TypeOK, EventInv, NEW bs \in SUBSET Behaviors, wire' = WireWithout(bs),
         \A b \in bs : phase'[b] = "Waiting",
         \A b \in Behaviors \ bs :
           /\ notification'[b] = notification[b]
           /\ phase'[b] = phase[b] \/ phase'[b] = "Waiting"
  PROVE  EventInv'
<1>1. /\ Len(wire') = Len(wire)
      /\ \A b \in Behaviors, i \in 1..Len(wire) :
           /\ b \in bs => wire'[i] \notin {Idled(b), Resumed(b)}
           /\ b \notin bs => /\ wire'[i] = Idled(b) <=> wire[i] = Idled(b)
                             /\ wire'[i] = Resumed(b) <=> wire[i] = Resumed(b)
  BY WireWithoutEvents, WireWithoutIs DEF TypeOK
<1>2. \A b \in Behaviors \ bs, i \in Nat : Return(b, i) => Return(b, i)'
  BY <1>1 DEF Return, Resumed
<1>3. ReturnIsHeard'
  <2>1. \A b \in Behaviors : phase'[b] # "Waiting" => Return(b, 0)'
    BY <1>2, ReturnIsHeardIs DEF EventInv
  <2>2. QED BY <2>1 DEF ReturnIsHeard, Pending, Return
<1>4. ReturnFollows'
  <2> SUFFICES ASSUME NEW b \in Behaviors, NEW i \in 1..Len(wire'), wire'[i] = Idled(b)
               PROVE  Return(b, i)'
    BY DEF ReturnFollows, Idled
  <2>1. b \notin bs /\ i \in 1..Len(wire) /\ wire[i] = Idled(b)
    BY <1>1
  <2>2. QED BY <1>2, <2>1 DEF EventInv, ReturnFollows
<1>5. OnlyRegistered'
  <2> SUFFICES ASSUME NEW b \in Behaviors, notification'[b] = "none"
               PROVE  /\ phase'[b] = "Waiting"
                      /\ \A i \in 1..Len(wire') : wire'[i] \notin {Idled(b), Resumed(b)}
    BY DEF OnlyRegistered, Idled, Resumed
  <2>1. CASE b \in bs
    BY <2>1, <1>1
  <2>2. CASE b \notin bs
    BY <2>2, <1>1 DEF EventInv, OnlyRegistered
  <2>3. QED BY <2>1, <2>2
<1>6. QED BY <1>3, <1>4, <1>5 DEF EventInv


LEMMA SuppressStep ==
  ASSUME TypeOK, EventInv, NEW c \in Behaviors, SuppressIdled(c)
  PROVE  EventInv'
<1> DEFINE w == WireWithout({c})
<1>1. /\ wire # <<>> /\ Head(wire) = Idled(c) /\ wire' = Tail(w) /\ phase' = phase
      /\ phase[c] = "Waiting"
      /\ notification' = [notification EXCEPT ![c] = "active"]
  BY DEF SuppressIdled, Receives
<1>2. /\ Len(wire) \in Nat \ {0} /\ w \in Seq(Event) /\ Len(w) = Len(wire)
      /\ wire[1] = Idled(c)
  BY <1>1, WireWithoutIs DEF TypeOK
<1>3. \A b \in Behaviors, i \in 1..Len(wire) :
        /\ b = c => w[i] \notin {Idled(b), Resumed(b)}
        /\ b # c => /\ w[i] = Idled(b) <=> wire[i] = Idled(b)
                    /\ w[i] = Resumed(b) <=> wire[i] = Resumed(b)
  <2> SUFFICES ASSUME NEW b \in Behaviors, NEW i \in 1..Len(wire)
               PROVE  /\ b = c => w[i] \notin {Idled(b), Resumed(b)}
                      /\ b # c => /\ w[i] = Idled(b) <=> wire[i] = Idled(b)
                                  /\ w[i] = Resumed(b) <=> wire[i] = Resumed(b)
    OBVIOUS
  <2>1. wire \in Seq(Event)
    BY DEF TypeOK
  <2>2. /\ b \in {c} => w[i] \notin {Idled(b), Resumed(b)}
        /\ b \notin {c} => /\ w[i] = Idled(b) <=> wire[i] = Idled(b)
                           /\ w[i] = Resumed(b) <=> wire[i] = Resumed(b)
    BY <2>1, WireWithoutEvents
  <2>3. QED BY <2>2
<1> HIDE DEF w
<1>4. /\ Len(wire') = Len(wire) - 1
      /\ \A i \in 1..Len(wire') : wire'[i] = w[i + 1] /\ i + 1 \in 1..Len(wire)
  BY <1>1, <1>2
<1>5. notification'[c] = "active" /\ \A b \in Behaviors \ {c} : notification'[b] = notification[b]
  BY <1>1 DEF TypeOK
<1>6. \A b \in Behaviors \ {c}, i \in Nat : Return(b, i + 1) => Return(b, i)'
  <2> SUFFICES ASSUME NEW b \in Behaviors \ {c}, NEW i \in Nat, Return(b, i + 1)
               PROVE  Return(b, i)'
    OBVIOUS
  <2>1. CASE notification[b] = "idle"
    BY <2>1, <1>5 DEF Return
  <2>2. ASSUME NEW j \in 1..Len(wire), j > i + 1, wire[j] = Resumed(b) PROVE Return(b, i)'
    <3>1. j - 1 \in 1..Len(wire') /\ j - 1 > i /\ wire'[j - 1] = w[j]
      BY <2>2, <1>2, <1>4
    <3>2. w[j] = Resumed(b)
      BY <2>2, <1>3
    <3>3. QED BY <3>1, <3>2 DEF Return, Resumed
  <2>3. QED BY <2>1, <2>2 DEF Return
<1>7. ReturnIsHeard'
  <2>1. ASSUME NEW b \in Behaviors, phase'[b] # "Waiting" PROVE Return(b, 0)'
    <3>1. b # c /\ Return(b, 0)
      BY <2>1, <1>1, ReturnIsHeardIs DEF EventInv
    <3>2. wire[1] # Resumed(b)
      BY <1>2, EventsDiffer
    <3>3. \A j \in 1..Len(wire) : j > 0 /\ wire[j] = Resumed(b) => j > 0 + 1
      BY <3>2
    <3>4. Return(b, 0 + 1)
      BY <3>1, <3>3 DEF Return
    <3>5. QED BY <3>1, <3>4, <1>6
  <2>2. QED BY <2>1 DEF ReturnIsHeard, Pending, Return
<1>8. ReturnFollows'
  <2> SUFFICES ASSUME NEW b \in Behaviors, NEW i \in 1..Len(wire'), wire'[i] = Idled(b)
               PROVE  Return(b, i)'
    BY DEF ReturnFollows, Idled
  <2>1. w[i + 1] = Idled(b) /\ i + 1 \in 1..Len(wire)
    BY <1>4
  <2>2. b # c /\ wire[i + 1] = Idled(b)
    BY <2>1, <1>3
  <2>3. QED BY <2>1, <2>2, <1>6 DEF EventInv, ReturnFollows
<1>9. OnlyRegistered'
  <2> SUFFICES ASSUME NEW b \in Behaviors, notification'[b] = "none"
               PROVE  /\ phase'[b] = "Waiting"
                      /\ \A i \in 1..Len(wire') : wire'[i] \notin {Idled(b), Resumed(b)}
    BY DEF OnlyRegistered, Idled, Resumed
  <2>1. b # c /\ notification[b] = "none"
    BY <1>5
  <2>2. QED BY <1>1, <1>3, <1>4, <2>1 DEF EventInv, OnlyRegistered
<1>10. QED BY <1>7, <1>8, <1>9 DEF EventInv

LEMMA InitEvents == Init => EventInv
BY DEF Init, EventInv, ReturnIsHeard, ReturnFollows, OnlyRegistered

\* The phases of a fade that completes were not "Waiting" before.
LEMMA CompletePhases ==
  ASSUME GraceIsFading, NEW queue, GraceFadeComplete(queue)
  PROVE  \A b \in Behaviors : phase'[b] # "Waiting" => phase[b] # "Waiting"
<1>1. CASE grace = {}
  BY <1>1 DEF GraceFadeComplete
<1>2. CASE grace # {}
  <2>1. phase' = [b \in Behaviors |-> IF b \in grace THEN "Idled" ELSE phase[b]]
    BY <1>2 DEF GraceFadeComplete
  <2>2. QED BY <2>1 DEF GraceIsFading
<1>3. QED BY <1>1, <1>2

\* Completing a fade leaves the events alone.
LEMMA CompleteStep ==
  ASSUME EventInv, GraceIsFading, NEW queue, GraceFadeComplete(queue),
         UNCHANGED <<wire, notification>>
  PROVE  EventInv'
<1>1. \A b \in Behaviors : phase'[b] # "Waiting" => phase[b] # "Waiting"
  BY CompletePhases
<1>2. \A b \in Behaviors, i \in Nat : Return(b, i)' <=> Return(b, i)
  BY DEF Return, Resumed
<1>3. ReturnIsHeard'
  BY <1>1 DEF EventInv, ReturnIsHeard, Pending, Resumed
<1>4. ReturnFollows'
  BY <1>2 DEF EventInv, ReturnFollows, Idled
<1>5. OnlyRegistered'
  BY <1>1 DEF EventInv, OnlyRegistered, Idled, Resumed
<1>6. QED BY <1>3, <1>4, <1>5 DEF EventInv

LEMMA InhibitStep ==
  ASSUME TypeOK, EventInv, NEW n \in Nat, SetInhibitLocks(n)
  PROVE  EventInv'
<1>1. CASE locks > 0 /\ n = 0 /\ suppressed
  <2>1. /\ Recreate(Registered)
        /\ phase' = [b \in Behaviors |-> IF b \in Registered THEN "Waiting" ELSE phase[b]]
    BY <1>1 DEF SetInhibitLocks
  <2>2. /\ wire' = WireWithout(Registered) /\ Registered \in SUBSET Behaviors
        /\ \A b \in Registered : phase'[b] = "Waiting"
        /\ \A b \in Behaviors \ Registered :
             notification'[b] = notification[b] /\ phase'[b] = phase[b]
    BY <2>1 DEF Recreate, Registered
  <2>3. QED BY <2>2, DestroyStep
<1>2. CASE ~(locks > 0 /\ n = 0 /\ suppressed)
  BY <1>2, EventFrame DEF SetInhibitLocks
<1>3. QED BY <1>1, <1>2

LEMMA NextEvents == TypeOK /\ GraceIsFading /\ EventInv /\ [Next]_vars => EventInv'
<1> SUFFICES ASSUME TypeOK, GraceIsFading, EventInv, [Next]_vars PROVE EventInv'
  OBVIOUS
<1>1. ASSUME NEW b \in Behaviors,
             \/ JoinFade(b) \/ BeginFade(b) \/ IdleAtOnce(b) \/ CancelFade(b) \/ Resume(b)
             \/ IgnoreEvent(b) \/ DiscardEvent
      PROVE  EventInv'
  <2>1. wire # <<>> /\ wire' = Tail(wire) /\ UNCHANGED notification
    BY <1>1 DEF JoinFade, BeginFade, IdleAtOnce, CancelFade, Resume, IgnoreEvent, DiscardEvent,
                Receives
  <2>2. ASSUME NEW d \in Behaviors, phase'[d] # "Waiting"
        PROVE  \/ phase[d] # "Waiting" /\ Head(wire) # Resumed(d)
               \/ Head(wire) = Idled(d)
    <3>1. CASE JoinFade(b) \/ BeginFade(b) \/ IdleAtOnce(b)
      <4>1. Head(wire) = Idled(b) /\ (phase' = [phase EXCEPT ![b] = "Fading"]
                                      \/ phase' = [phase EXCEPT ![b] = "Idled"])
        BY <3>1 DEF JoinFade, BeginFade, IdleAtOnce, JoinGrace, Receives
      <4>2. b # d => phase[d] # "Waiting"
        BY <2>2, <4>1 DEF TypeOK
      <4>3. QED BY <4>1, <4>2, EventsDiffer
    <3>2. CASE CancelFade(b)
      <4>1. Head(wire) = Resumed(b) /\ phase[b] = "Fading" /\ phase' = PhaseWithoutGrace
        BY <3>2 DEF CancelFade, Receives
      <4>2. b \in grace
        BY <4>1 DEF GraceIsFading
      <4>3. d # b /\ phase[d] # "Waiting"
        BY <2>2, <4>1, <4>2 DEF PhaseWithoutGrace
      <4>4. QED BY <4>1, <4>3, EventsDiffer
    <3>3. CASE Resume(b)
      <4>1. Head(wire) = Resumed(b) /\ phase' = [phase EXCEPT ![b] = "Waiting"]
        BY <3>3 DEF Resume, Receives
      <4>2. d # b /\ phase[d] # "Waiting"
        BY <2>2, <4>1 DEF TypeOK
      <4>3. QED BY <4>1, <4>2, EventsDiffer
    <3>4. CASE IgnoreEvent(b)
      <4>1. /\ Head(wire) \in {Idled(b), Resumed(b)} /\ phase' = phase
            /\ (Head(wire).type = "resumed") = (phase[b] = "Waiting")
        BY <3>4 DEF IgnoreEvent
      <4>2. Head(wire) = Resumed(d) => d = b /\ phase[b] = "Waiting"
        <5>1. Resumed(d).type = "resumed"
          BY DEF Resumed
        <5>2. QED BY <4>1, <5>1, EventsDiffer
      <4>3. QED BY <2>2, <4>1, <4>2
    <3>5. CASE DiscardEvent
      <4>1. ~Head(wire).live /\ phase' = phase
        BY <3>5 DEF DiscardEvent
      <4>2. Resumed(d).live
        BY DEF Resumed
      <4>3. QED BY <2>2, <4>1, <4>2
    <3>6. QED BY <1>1, <3>1, <3>2, <3>3, <3>4, <3>5
  <2>3. QED BY <2>1, <2>2, TailStep
<1>2. ASSUME NEW b \in Behaviors, CompositorIdled(b) \/ CompositorResumed(b) \/ SuppressIdled(b)
      PROVE  EventInv'
  BY <1>2, SendIdledStep, SendResumedStep, SuppressStep
<1>3. ASSUME NEW g \in Generations, RunCheck(g)
      PROVE  EventInv'
  <2>1. UNCHANGED <<wire, notification>>
    BY <1>3 DEF RunCheck, userVars
  <2>2. CASE generation = g
    BY <1>3, <2>1, <2>2, CompleteStep DEF RunCheck
  <2>3. CASE generation # g
    BY <1>3, <2>1, <2>3, EventFrame DEF RunCheck
  <2>4. QED BY <2>2, <2>3
<1>4. CASE FallbackFires
  <2>1. UNCHANGED <<wire, notification>>
    BY <1>4 DEF FallbackFires, userVars
  <2>2. CASE generation = fallback /\ grace # {}
    BY <1>4, <2>1, <2>2, CompleteStep DEF FallbackFires
  <2>3. CASE ~(generation = fallback /\ grace # {})
    BY <1>4, <2>1, <2>3, EventFrame DEF FallbackFires
  <2>4. QED BY <2>2, <2>3
<1>5. CASE Reload
  <2>1. wire' = WireWithout(Behaviors) /\ \A b \in Behaviors : phase'[b] = "Waiting"
    BY <1>5 DEF Reload
  <2>2. QED BY <2>1, DestroyStep
<1>6. ASSUME NEW c \in Clients, Inhibit(c) \/ Uninhibit(c) \/ ClientLeaves(c)
      PROVE  EventInv'
  <2>1. PICK n : SetInhibitLocks(n) /\ n \in {locks + 1, LocksLess(1), LocksLess(held[c])}
    BY <1>6 DEF Inhibit, Uninhibit, ClientLeaves
  <2>2. locks \in Nat /\ held[c] \in Nat
    BY IdleManagerAssumption DEF TypeOK
  <2>3. n \in Nat
    BY <2>1, <2>2 DEF LocksLess
  <2>4. QED BY <2>1, <2>3, InhibitStep
<1>7. ASSUME NEW g \in Generations,
             ShowOverlay(g) \/ ShowOnOtherOutputs(g) \/ ShowWithoutSurfaces(g) \/ RunDone(g)
      PROVE  EventInv'
  <2>1. UNCHANGED <<wire, notification, phase>>
    BY <1>7 DEF ShowOverlay, ShowOnOtherOutputs, ShowWithoutSurfaces, RunDone, userVars
  <2>2. QED BY <2>1, EventFrame
<1>8. CASE \/ UserInput \/ RunHide \/ LockRequestSent \/ FadeFinishes \/ OutputsChange
           \/ SessionLocked \/ SessionUnlocked \/ PendingUnlocked \/ UNCHANGED vars
  <2>1. UNCHANGED <<wire, notification, phase>>
    BY <1>8 DEF UserInput, RunHide, LockRequestSent, FadeFinishes, OutputsChange, SessionLocked,
                SessionUnlocked, PendingUnlocked, vars, userVars
  <2>2. QED BY <2>1, EventFrame
<1>9. CASE DiscardEvent
  <2>1. Head(wire) \in Event
    BY <1>9 DEF DiscardEvent, TypeOK
  <2>2. Head(wire).behavior \in Behaviors
    BY <2>1 DEF Event
  <2>3. QED BY <1>1, <1>9, <2>2
<1>10. QED
  BY <1>1, <1>2, <1>3, <1>4, <1>5, <1>6, <1>7, <1>8, <1>9 DEF Next


-----------------------------------------------------------------------------
(* The fade's list, timer and phases.                                      *)

LEMMA InitGrace == Init => GraceIsFading
BY DEF Init, GraceIsFading

LEMMA GraceFrame ==
  ASSUME GraceIsFading, UNCHANGED <<phase, graceVars>> PROVE GraceIsFading'
BY DEF GraceIsFading, graceVars

\* A fade that is cancelled while every behavior in it goes back to waiting.
LEMMA CancelKeepsGrace ==
  ASSUME GraceIsFading, NEW u, CancelGrace(u),
         \A b \in Behaviors : phase'[b] # "Fading"
  PROVE  GraceIsFading'
<1>1. grace' = {}
  BY DEF CancelGrace, graceVars
<1>2. fallback' = 0
  BY DEF CancelGrace, graceVars, GraceIsFading
<1>3. willLock' = FALSE
  BY DEF CancelGrace, graceVars, GraceIsFading
<1>4. QED BY <1>1, <1>2, <1>3 DEF GraceIsFading

LEMMA CompleteKeepsGrace ==
  ASSUME TypeOK, GraceIsFading, NEW queue, GraceFadeComplete(queue) PROVE GraceIsFading'
<1>1. CASE grace = {}
  BY <1>1, GraceFrame DEF GraceFadeComplete
<1>2. CASE grace # {}
  <2>1. /\ phase' = [b \in Behaviors |-> IF b \in grace THEN "Idled" ELSE phase[b]]
        /\ grace' = {} /\ willLock' = FALSE /\ fallback' = 0
    BY <1>2 DEF GraceFadeComplete
  <2>2. \A b \in Behaviors : phase'[b] # "Fading"
    BY <2>1 DEF GraceIsFading
  <2>3. QED BY <2>1, <2>2 DEF GraceIsFading
<1>3. QED BY <1>1, <1>2

LEMMA InhibitKeepsGrace ==
  ASSUME TypeOK, EventInv, GraceIsFading, NEW n, SetInhibitLocks(n) PROVE GraceIsFading'
<1>1. CASE locks > 0 /\ n = 0 /\ suppressed
  <2>1. /\ CancelGrace(FALSE)
        /\ phase' = [b \in Behaviors |-> IF b \in Registered THEN "Waiting" ELSE phase[b]]
    BY <1>1 DEF SetInhibitLocks
  <2>2. \A b \in Behaviors : phase'[b] # "Fading"
    BY <2>1 DEF Registered, EventInv, OnlyRegistered
  <2>3. QED BY <2>1, <2>2, CancelKeepsGrace
<1>2. CASE ~(locks > 0 /\ n = 0 /\ suppressed)
  BY <1>2, GraceFrame DEF SetInhibitLocks
<1>3. QED BY <1>1, <1>2

LEMMA NextGrace == TypeOK /\ EventInv /\ GraceIsFading /\ [Next]_vars => GraceIsFading'
<1> SUFFICES ASSUME TypeOK, EventInv, GraceIsFading, [Next]_vars PROVE GraceIsFading'
  OBVIOUS
<1>1. ASSUME NEW b \in Behaviors, JoinFade(b) \/ BeginFade(b) PROVE GraceIsFading'
  <2>1. /\ grace' = grace \union {b} /\ willLock' = (willLock \/ b \in Locks)
        /\ phase' = [phase EXCEPT ![b] = "Fading"]
    BY <1>1 DEF JoinFade, BeginFade, JoinGrace
  <2>2. grace' = {c \in Behaviors : phase'[c] = "Fading"}
    BY <2>1 DEF GraceIsFading, TypeOK
  <2>3. fallback' = generation' /\ grace' # {}
    <3>1. CASE JoinFade(b)
      BY <2>1, <3>1 DEF JoinFade, GraceIsFading
    <3>2. CASE BeginFade(b)
      BY <2>1, <3>2 DEF BeginFade
    <3>3. QED BY <1>1, <3>1, <3>2
  <2>4. willLock' = (grace' \cap Locks # {})
    BY <2>1 DEF GraceIsFading
  <2>5. QED BY <2>2, <2>3, <2>4 DEF GraceIsFading
<1>2. ASSUME NEW b \in Behaviors, IdleAtOnce(b) \/ Resume(b) PROVE GraceIsFading'
  <2>1. /\ phase[b] # "Fading" /\ UNCHANGED graceVars
        /\ phase' = [phase EXCEPT ![b] = "Idled"] \/ phase' = [phase EXCEPT ![b] = "Waiting"]
    BY <1>2 DEF IdleAtOnce, Resume
  <2>2. \A c \in Behaviors : phase'[c] = "Fading" <=> phase[c] = "Fading"
    BY <2>1 DEF TypeOK
  <2>3. QED BY <2>1, <2>2 DEF GraceIsFading, graceVars
<1>3. ASSUME NEW b \in Behaviors, CancelFade(b) PROVE GraceIsFading'
  <2>1. CancelGrace(TRUE) /\ phase' = PhaseWithoutGrace
    BY <1>3 DEF CancelFade
  <2>2. \A c \in Behaviors : phase'[c] # "Fading"
    BY <2>1 DEF PhaseWithoutGrace, GraceIsFading
  <2>3. QED BY <2>1, <2>2, CancelKeepsGrace
<1>4. ASSUME NEW g \in Generations, RunCheck(g) PROVE GraceIsFading'
  <2>1. CASE generation = g
    BY <1>4, <2>1, CompleteKeepsGrace DEF RunCheck
  <2>2. CASE generation # g
    BY <1>4, <2>2, GraceFrame DEF RunCheck
  <2>3. QED BY <2>1, <2>2
<1>5. CASE FallbackFires
  <2>1. generation = fallback /\ grace # {}
    BY <1>5 DEF FallbackFires, GraceIsFading
  <2>2. QED BY <1>5, <2>1, CompleteKeepsGrace DEF FallbackFires
<1>6. CASE Reload
  BY <1>6, CancelKeepsGrace DEF Reload
<1>7. ASSUME NEW c \in Clients, Inhibit(c) \/ Uninhibit(c) \/ ClientLeaves(c)
      PROVE  GraceIsFading'
  BY <1>7, InhibitKeepsGrace DEF Inhibit, Uninhibit, ClientLeaves
<1>8. ASSUME NEW b \in Behaviors,
             CompositorIdled(b) \/ CompositorResumed(b) \/ SuppressIdled(b) \/ IgnoreEvent(b)
      PROVE  GraceIsFading'
  BY <1>8, GraceFrame DEF CompositorIdled, CompositorResumed, SuppressIdled, IgnoreEvent
<1>9. ASSUME NEW g \in Generations,
             ShowOverlay(g) \/ ShowOnOtherOutputs(g) \/ ShowWithoutSurfaces(g) \/ RunDone(g)
      PROVE  GraceIsFading'
  BY <1>9, GraceFrame DEF ShowOverlay, ShowOnOtherOutputs, ShowWithoutSurfaces, RunDone
<1>10. CASE \/ UserInput \/ DiscardEvent \/ RunHide \/ LockRequestSent \/ FadeFinishes
            \/ OutputsChange \/ SessionLocked \/ SessionUnlocked \/ PendingUnlocked \/ UNCHANGED vars
  BY <1>10, GraceFrame DEF UserInput, DiscardEvent, RunHide, LockRequestSent, FadeFinishes,
     OutputsChange, SessionLocked, SessionUnlocked, PendingUnlocked, vars
<1>11. QED
  BY <1>1, <1>2, <1>3, <1>4, <1>5, <1>6, <1>7, <1>8, <1>9, <1>10 DEF Next

\* The inductive invariant of the two theorems that follow.
IInv == TypeOK /\ GraceIsFading /\ EventInv

LEMMA IInvHolds == Spec => []IInv
<1>1. Init => IInv
  BY InitType, InitGrace, InitEvents DEF IInv
<1>2. IInv /\ [Next]_vars => IInv'
  BY NextType, NextGrace, NextEvents DEF IInv
<1>3. QED BY <1>1, <1>2, PTL DEF Spec

\* Through every order of events, inhibits, reloads, closures and timers, the behaviors of
\* the fade are those that fade, and its fallback timer runs for the current generation.
THEOREM GraceAlwaysFading == Spec => []GraceIsFading
BY IInvHolds, PTL DEF IInv

\* Whatever notifications are destroyed and made anew, a behavior that fades or has idled
\* hears of the user's return.
THEOREM ReturnAlwaysHeard == Spec => []ReturnIsHeard
BY IInvHolds, PTL DEF IInv, EventInv

\* The fade is always the one its list, timer and phases tell of, and can be cancelled.
THEOREM FadeAlwaysCoherent == Spec => []FadeCoherent
BY GraceAlwaysFading, ReturnAlwaysHeard, PTL DEF FadeCoherent


-----------------------------------------------------------------------------
(* A fade takes its time.                                                  *)

\* The closures that complete a fade are posted when its time has run.
Timed(queue) ==
  \A i \in 1..Len(queue) :
    queue[i].kind \in {"done", "check"} => queue[i].generation \in elapsed

LEMMA OthersAreNotTimed ==
  /\ \A g : Show(g).kind = "show"
  /\ Hide.kind = "hide" /\ Flush.kind = "flush"
BY DEF Show, Hide, Flush

\* Closures that are not timed are put at the end, and the front may go.
LEMMA TimedTail ==
  ASSUME NEW queue \in Seq(Closure), queue # <<>>, Timed(queue) PROVE Timed(Tail(queue))
<1>1. /\ Len(Tail(queue)) = Len(queue) - 1
      /\ \A i \in 1..Len(Tail(queue)) : Tail(queue)[i] = queue[i + 1] /\ i + 1 \in 1..Len(queue)
  OBVIOUS
<1>2. QED BY <1>1 DEF Timed

LEMMA TimedAppend ==
  ASSUME NEW queue \in Seq(Closure), Timed(queue), NEW c \in Closure,
         c.kind \in {"done", "check"} => c.generation \in elapsed
  PROVE  Timed(Append(queue, c))
<1>1. /\ Len(Append(queue, c)) = Len(queue) + 1
      /\ \A i \in 1..Len(queue) : Append(queue, c)[i] = queue[i]
      /\ Append(queue, c)[Len(queue) + 1] = c
  OBVIOUS
<1>2. QED BY <1>1 DEF Timed

LEMMA TimedMore ==
  ASSUME NEW queue \in Seq(Closure), Timed(queue), NEW s \in {<<Hide>>, <<Flush>>, <<>>}
  PROVE  Timed(queue \o s) /\ queue \o s \in Seq(Closure)
<1>1. CASE s = <<>>
  BY <1>1, queue \o <<>> = queue
<1>2. ASSUME NEW c \in {Hide, Flush}, s = <<c>> PROVE Timed(queue \o s) /\ queue \o s \in Seq(Closure)
  <2>1. c \in Closure /\ c.kind \notin {"done", "check"}
    BY ClosureTypes, OthersAreNotTimed
  <2>2. queue \o s = Append(queue, c)
    BY <1>2, <2>1
  <2>3. QED BY <2>1, <2>2, TimedAppend
<1>3. QED BY <1>1, <1>2

LEMMA CancelKeepsTimed ==
  ASSUME QueuesOK, Timed(closures), NEW u, CancelGrace(u), elapsed' = elapsed
  PROVE  Timed(closures)'
<1>1. CASE grace = {}
  BY <1>1 DEF CancelGrace, Timed
<1>2. CASE grace # {}
  <2>1. closures' = closures \o GraceEnd(u, willLock)
    BY <1>2 DEF CancelGrace
  <2>2. Timed(closures \o GraceEnd(u, willLock))
    BY GraceEndIs, TimedMore DEF QueuesOK
  <2>3. QED BY <2>1, <2>2 DEF Timed
<1>3. QED BY <1>1, <1>2

LEMMA CompleteKeepsTimed ==
  ASSUME NEW queue \in Seq(Closure), Timed(queue), GraceFadeComplete(queue),
         elapsed \subseteq elapsed'
  PROVE  Timed(closures)'
<1>1. CASE grace = {}
  BY <1>1 DEF GraceFadeComplete, Timed
<1>2. CASE grace # {}
  <2>1. PICK ok \in Outcomes(grace) :
          closures' = queue \o FlushAfter(grace, ok)
                            \o GraceEnd(FALSE, \E b \in grace \cap Locks : ok[b])
    BY <1>2 DEF GraceFadeComplete
  <2> DEFINE f == FlushAfter(grace, ok)
             e == GraceEnd(FALSE, \E b \in grace \cap Locks : ok[b])
  <2>2. f \in {<<Hide>>, <<Flush>>, <<>>}
    BY FlushAfterIs
  <2>3. e \in {<<Hide>>, <<Flush>>, <<>>}
    BY GraceEndIs
  <2>4. closures' = (queue \o f) \o e
    BY <2>1
  <2> HIDE DEF f, e
  <2>5. Timed(queue \o f) /\ queue \o f \in Seq(Closure)
    BY <2>2, TimedMore
  <2>6. Timed((queue \o f) \o e)
    BY <2>3, <2>5, TimedMore
  <2>7. QED BY <2>4, <2>6 DEF Timed
<1>3. QED BY <1>1, <1>2

LEMMA NextTimed == TypeOK /\ GraceIsFading /\ Timed(closures) /\ [Next]_vars => Timed(closures)'
<1> SUFFICES ASSUME QueuesOK, FadeOK, RestOK, InhibitOK, GraceIsFading, Timed(closures), [Next]_vars
             PROVE  Timed(closures)'
  BY TypeParts
<1>1. ASSUME closures' = closures, elapsed' = elapsed PROVE Timed(closures)'
  BY <1>1 DEF Timed
<1>2. ASSUME closures # <<>>, closures' = Tail(closures), elapsed \subseteq elapsed'
      PROVE  Timed(closures)'
  <2>1. Timed(Tail(closures))
    BY <1>2, TimedTail DEF QueuesOK
  <2>2. QED BY <1>2, <2>1 DEF Timed
<1>3. ASSUME NEW b \in Behaviors, BeginFade(b) PROVE Timed(closures)'
  <2>1. closures' = Append(closures, Show(generation')) /\ generation' \in Nat /\ elapsed' = elapsed
    BY <1>3 DEF BeginFade, FadeOK
  <2>2. Timed(Append(closures, Show(generation')))
    BY <2>1, TimedAppend, ClosureTypes, OthersAreNotTimed DEF QueuesOK
  <2>3. QED BY <2>1, <2>2 DEF Timed
<1>4. ASSUME NEW b \in Behaviors, IdleAtOnce(b) PROVE Timed(closures)'
  <2>1. PICK ok \in Outcomes({b}) : closures' = closures \o FlushAfter({b}, ok)
    BY <1>4 DEF IdleAtOnce
  <2>2. Timed(closures \o FlushAfter({b}, ok))
    BY FlushAfterIs, TimedMore DEF QueuesOK
  <2>3. QED BY <1>4, <2>1, <2>2 DEF IdleAtOnce, Timed
<1>5. ASSUME NEW b \in Behaviors, CancelFade(b) PROVE Timed(closures)'
  BY <1>5, CancelKeepsTimed DEF CancelFade
<1>6. CASE Reload
  BY <1>6, CancelKeepsTimed DEF Reload
<1>7. ASSUME NEW c \in Clients, Inhibit(c) \/ Uninhibit(c) \/ ClientLeaves(c)
      PROVE  Timed(closures)'
  <2>1. CancelGrace(FALSE) \/ closures' = closures
    BY <1>7 DEF Inhibit, Uninhibit, ClientLeaves, SetInhibitLocks
  <2>2. elapsed' = elapsed
    BY <1>7 DEF Inhibit, Uninhibit, ClientLeaves
  <2>3. QED BY <1>1, <2>1, <2>2, CancelKeepsTimed
<1>8. ASSUME NEW g \in Generations, ShowOverlay(g) PROVE Timed(closures)'
  BY <1>2, <1>8 DEF ShowOverlay, FrontClosure
<1>9. ASSUME NEW g \in Generations, ShowWithoutSurfaces(g) PROVE Timed(closures)'
  <2>1. /\ closures # <<>> /\ closures' = Append(Tail(closures), Done(g))
        /\ elapsed' = elapsed \union {g} /\ Tail(closures) \in Seq(Closure)
    BY <1>9 DEF ShowWithoutSurfaces, FrontClosure, QueuesOK
  <2>2. Timed(Tail(closures))
    BY <2>1, TimedTail DEF QueuesOK
  <2>3. /\ Len(closures') = Len(Tail(closures)) + 1
        /\ \A i \in 1..Len(Tail(closures)) : closures'[i] = Tail(closures)[i]
        /\ closures'[Len(Tail(closures)) + 1] = Done(g) /\ Done(g).generation = g
    BY <2>1, ClosureTypes DEF Generations, Done
  <2>4. QED BY <2>1, <2>2, <2>3 DEF Timed
<1>10. ASSUME NEW g \in Generations, RunDone(g) PROVE Timed(closures)'
  <2>1. /\ closures # <<>> /\ Head(closures) = Done(g)
        /\ closures' = Append(Tail(closures), Check(g))
        /\ elapsed' = elapsed /\ Tail(closures) \in Seq(Closure)
    BY <1>10 DEF RunDone, FrontClosure, QueuesOK
  <2>2. g \in elapsed
    <3>1. 1 \in 1..Len(closures) /\ closures[1] = Done(g)
      BY <2>1 DEF QueuesOK
    <3>2. Done(g).kind = "done" /\ Done(g).generation = g
      BY DEF Done
    <3>3. QED BY <3>1, <3>2 DEF Timed
  <2>3. Check(g).generation = g /\ Check(g) \in Closure
    BY ClosureTypes DEF Check, Generations
  <2>4. Timed(Append(Tail(closures), Check(g)))
    BY <2>1, <2>2, <2>3, TimedTail, TimedAppend DEF QueuesOK
  <2>5. QED BY <2>1, <2>4 DEF Timed
<1>11. ASSUME NEW g \in Generations, RunCheck(g) PROVE Timed(closures)'
  <2>1. closures # <<>> /\ Tail(closures) \in Seq(Closure) /\ elapsed' = elapsed
    BY <1>11 DEF RunCheck, FrontClosure, QueuesOK
  <2>2. Timed(Tail(closures))
    BY <2>1, TimedTail DEF QueuesOK
  <2>3. CASE generation = g
    BY <1>11, <2>1, <2>2, <2>3, CompleteKeepsTimed DEF RunCheck
  <2>4. CASE generation # g
    BY <1>2, <1>11, <2>1, <2>4 DEF RunCheck
  <2>5. QED BY <2>3, <2>4
<1>12. CASE RunHide \/ LockRequestSent
  BY <1>2, <1>12 DEF RunHide, LockRequestSent, FrontClosure
<1>13. CASE FadeFinishes
  <2>1. CASE onFadeDone = 0
    BY <1>1, <1>13, <2>1 DEF FadeFinishes
  <2>2. CASE onFadeDone # 0
    <3>1. closures' = Append(closures, Check(onFadeDone)) /\ elapsed' = elapsed \union {onFadeDone}
      BY <1>13, <2>2 DEF FadeFinishes
    <3>2. /\ Len(closures') = Len(closures) + 1
          /\ \A i \in 1..Len(closures) : closures'[i] = closures[i]
          /\ closures'[Len(closures) + 1] = Check(onFadeDone)
          /\ Check(onFadeDone).generation = onFadeDone
      BY <3>1, ClosureTypes DEF QueuesOK, RestOK, Check
    <3>3. QED BY <3>1, <3>2 DEF Timed, QueuesOK
  <2>3. QED BY <2>1, <2>2
<1>14. CASE FallbackFires
  <2>1. generation = fallback /\ grace # {}
    BY <1>14 DEF FallbackFires, GraceIsFading
  <2>2. QED BY <1>14, <2>1, CompleteKeepsTimed DEF FallbackFires, QueuesOK
<1>15. ASSUME NEW b \in Behaviors,
              \/ CompositorIdled(b) \/ CompositorResumed(b) \/ SuppressIdled(b) \/ JoinFade(b)
              \/ Resume(b) \/ IgnoreEvent(b)
       PROVE  Timed(closures)'
  BY <1>1, <1>15 DEF CompositorIdled, CompositorResumed, SuppressIdled, JoinFade, Resume, IgnoreEvent
<1>16. CASE \/ UserInput \/ DiscardEvent \/ OutputsChange \/ SessionLocked \/ SessionUnlocked
            \/ PendingUnlocked \/ UNCHANGED vars
  BY <1>1, <1>16 DEF UserInput, DiscardEvent, OutputsChange, SessionLocked, SessionUnlocked,
     PendingUnlocked, vars
<1>17. ASSUME NEW g \in Generations, ShowOnOtherOutputs(g) PROVE Timed(closures)'
  BY <1>2, <1>17 DEF ShowOnOtherOutputs, FrontClosure
<1>18. QED
  BY <1>3, <1>4, <1>5, <1>6, <1>7, <1>8, <1>9, <1>10, <1>11, <1>12, <1>13, <1>14, <1>15, <1>16, <1>17
  DEF Next

\* Only the completion of a fade makes a fading behavior idle.
LEMMA FadeStep ==
  ASSUME TypeOK, GraceIsFading, Timed(closures), [Next]_vars,
         NEW b \in Behaviors, phase[b] = "Fading", phase'[b] = "Idled"
  PROVE  generation \in elapsed'
<1> USE DEF graceVars
<1>1. ASSUME NEW g \in Generations, RunCheck(g) PROVE generation \in elapsed'
  <2>1. generation = g
    BY <1>1 DEF RunCheck
  <2>2. 1 \in 1..Len(closures) /\ closures[1] = Check(g)
    BY <1>1 DEF RunCheck, FrontClosure, TypeOK
  <2>3. Check(g).kind = "check" /\ Check(g).generation = g
    BY DEF Check
  <2>4. g \in elapsed /\ elapsed' = elapsed
    BY <1>1, <2>2, <2>3 DEF Timed, RunCheck
  <2>5. QED BY <2>1, <2>4
<1>2. CASE FallbackFires
  BY <1>2 DEF FallbackFires
<1>3. ASSUME NEW c \in Behaviors,
             \/ CompositorIdled(c) \/ CompositorResumed(c) \/ SuppressIdled(c) \/ IgnoreEvent(c)
      PROVE  FALSE
  BY <1>3 DEF CompositorIdled, CompositorResumed, SuppressIdled, IgnoreEvent
<1>4. ASSUME NEW c \in Behaviors,
             JoinFade(c) \/ BeginFade(c) \/ IdleAtOnce(c) \/ CancelFade(c) \/ Resume(c)
      PROVE  FALSE
  BY <1>4 DEF JoinFade, BeginFade, JoinGrace, IdleAtOnce, CancelFade, PhaseWithoutGrace, Resume,
     TypeOK
<1>5. ASSUME NEW g \in Generations,
             ShowOverlay(g) \/ ShowOnOtherOutputs(g) \/ ShowWithoutSurfaces(g) \/ RunDone(g)
      PROVE  FALSE
  BY <1>5 DEF ShowOverlay, ShowOnOtherOutputs, ShowWithoutSurfaces, RunDone
<1>6. ASSUME NEW c \in Clients, Inhibit(c) \/ Uninhibit(c) \/ ClientLeaves(c)
      PROVE  FALSE
  BY <1>6 DEF Inhibit, Uninhibit, ClientLeaves, SetInhibitLocks
<1>7. CASE \/ UserInput \/ DiscardEvent \/ RunHide \/ LockRequestSent \/ FadeFinishes
           \/ OutputsChange \/ Reload \/ SessionLocked \/ SessionUnlocked \/ PendingUnlocked
           \/ UNCHANGED vars
  BY <1>7 DEF UserInput, DiscardEvent, RunHide, LockRequestSent, FadeFinishes, OutputsChange,
     Reload, SessionLocked, SessionUnlocked, PendingUnlocked, vars
<1>8. QED BY <1>1, <1>2, <1>3, <1>4, <1>5, <1>6, <1>7 DEF Next

\* However late the completion of a cancelled fade runs, no fade's action runs before the
\* time of that very fade has passed.
THEOREM FadesRunTheirTime == Spec => FadeRunsItsTime
<1>1. Init => Timed(closures)
  BY DEF Init, Timed
<1>2. IInv /\ Timed(closures) /\ [Next]_vars => Timed(closures)'
  BY NextTimed DEF IInv
<1>3. Spec => [](IInv /\ Timed(closures))
  BY <1>1, <1>2, IInvHolds, PTL DEF Spec
<1>4. IInv /\ Timed(closures) /\ [Next]_vars =>
        [\A b \in Behaviors : phase[b] = "Fading" /\ phase'[b] = "Idled"
           => generation \in elapsed']_vars
  BY FadeStep DEF IInv
<1>5. QED BY <1>3, <1>4, PTL DEF Spec, FadeRunsItsTime


-----------------------------------------------------------------------------
(* No idle period is missed.                                               *)

\* What makes IdleIsHeard inductive: a waiting behavior whose notification has fired has
\* its "idled" on the way while the user is away, and such an "idled" is behind every
\* "resumed" on the wire, because the compositor reports a return to all before it reports
\* the next idle period to anyone.
IdleIsSent ==
  \A b \in Behaviors :
    notification[b] = "idle" /\ phase[b] = "Waiting" /\ ~user => Pending(Idled(b))

Sent(b, i) == \E j \in 1..Len(wire) : j > i /\ wire[j] = Idled(b)

ReturnsComeFirst ==
  \A b \in Behaviors, c \in Behaviors, i \in 1..Len(wire) :
    wire[i] = Resumed(c) /\ notification[b] = "idle" /\ ~user => Sent(b, i)

IdleInv == IdleIsSent /\ ReturnsComeFirst

LEMMA IdleFrame ==
  ASSUME IdleInv, UNCHANGED <<wire, notification, user>>,
         \A b \in Behaviors :
           phase'[b] = "Waiting" => phase[b] = "Waiting" \/ notification[b] # "idle"
  PROVE  IdleInv'
<1>1. IdleIsSent'
  BY DEF IdleInv, IdleIsSent, Pending, Idled
<1>2. ReturnsComeFirst'
  BY DEF IdleInv, ReturnsComeFirst, Sent, Idled, Resumed
<1>3. QED BY <1>1, <1>2 DEF IdleInv

\* While the user is there, nothing has to be on the way.
LEMMA IdleUserBack ==
  ASSUME user' = TRUE PROVE IdleInv'
BY DEF IdleInv, IdleIsSent, ReturnsComeFirst

LEMMA IdleSend ==
  ASSUME TypeOK, IdleInv, NEW c \in Behaviors, CompositorIdled(c) PROVE IdleInv'
<1>1. /\ notification' = [notification EXCEPT ![c] = "idle"]
      /\ wire' = Append(wire, Idled(c)) /\ phase' = phase
      /\ user => \A b \in Behaviors : notification[b] # "idle"
  BY DEF CompositorIdled
<1>2. /\ Len(wire) \in Nat /\ Len(wire') = Len(wire) + 1
      /\ \A i \in 1..Len(wire) : wire'[i] = wire[i]
      /\ wire'[Len(wire) + 1] = Idled(c)
  BY <1>1, EventTypes DEF TypeOK
<1>3. ASSUME NEW b \in Behaviors, notification'[b] = "idle", b # c
      PROVE  notification[b] = "idle" /\ ~user
  BY <1>1, <1>3 DEF TypeOK
<1>4. IdleIsSent'
  <2> SUFFICES ASSUME NEW b \in Behaviors, notification'[b] = "idle", phase'[b] = "Waiting"
               PROVE  \E i \in 1..Len(wire') : wire'[i] = Idled(b)
    BY DEF IdleIsSent, Pending, Idled
  <2>1. CASE b = c
    BY <2>1, <1>2
  <2>2. CASE b # c
    BY <2>2, <1>1, <1>2, <1>3 DEF IdleInv, IdleIsSent, Pending
  <2>3. QED BY <2>1, <2>2
<1>5. ReturnsComeFirst'
  <2> SUFFICES ASSUME NEW b \in Behaviors, NEW d \in Behaviors, NEW i \in 1..Len(wire'),
                      wire'[i] = Resumed(d), notification'[b] = "idle"
               PROVE  \E j \in 1..Len(wire') : j > i /\ wire'[j] = Idled(b)
    BY DEF ReturnsComeFirst, Sent, Idled, Resumed
  <2>1. i \in 1..Len(wire) /\ wire[i] = Resumed(d)
    BY <1>2, EventsDiffer
  <2>2. CASE b = c
    BY <2>1, <2>2, <1>2
  <2>3. CASE b # c
    BY <2>1, <2>3, <1>2, <1>3 DEF IdleInv, ReturnsComeFirst, Sent
  <2>4. QED BY <2>2, <2>3
<1>6. QED BY <1>4, <1>5 DEF IdleInv

\* The front event leaves the wire. A behavior starts to wait only on the return of some
\* behavior's user, and one that waits already has not let its own "idled" pass.
LEMMA IdleTail ==
  ASSUME QueuesOK, IdleInv, wire # <<>>, wire' = Tail(wire), UNCHANGED <<notification, user>>,
         \A b \in Behaviors : phase'[b] = "Waiting" =>
           \/ phase[b] = "Waiting" /\ Head(wire) # Idled(b)
           \/ \E c \in Behaviors : Head(wire) = Resumed(c)
  PROVE  IdleInv'
<1>1. /\ Len(wire) \in Nat \ {0} /\ Len(wire') = Len(wire) - 1 /\ Head(wire) = wire[1]
      /\ \A i \in 1..Len(wire') : wire'[i] = wire[i + 1] /\ i + 1 \in 1..Len(wire)
      /\ \A i \in 1..Len(wire) : i > 1 => i - 1 \in 1..Len(wire') /\ wire'[i - 1] = wire[i]
  BY DEF QueuesOK
<1>2. IdleIsSent'
  <2> SUFFICES ASSUME NEW b \in Behaviors, notification[b] = "idle", phase'[b] = "Waiting", ~user
               PROVE  \E i \in 1..Len(wire') : wire'[i] = Idled(b)
    BY DEF IdleIsSent, Pending, Idled
  <2>1. CASE phase[b] = "Waiting" /\ Head(wire) # Idled(b)
    <3>1. PICK i \in 1..Len(wire) : wire[i] = Idled(b)
      BY <2>1 DEF IdleInv, IdleIsSent, Pending
    <3>2. i > 1
      BY <1>1, <2>1, <3>1
    <3>3. QED BY <1>1, <3>1, <3>2
  <2>2. ASSUME NEW c \in Behaviors, Head(wire) = Resumed(c)
        PROVE  \E i \in 1..Len(wire') : wire'[i] = Idled(b)
    <3>1. 1 \in 1..Len(wire) /\ wire[1] = Resumed(c)
      BY <1>1, <2>2
    <3>2. Sent(b, 1)
      BY <3>1 DEF IdleInv, ReturnsComeFirst
    <3>3. PICK i \in 1..Len(wire) : i > 1 /\ wire[i] = Idled(b)
      BY <3>2 DEF Sent
    <3>4. QED BY <1>1, <3>3
  <2>3. QED BY <2>1, <2>2
<1>3. ReturnsComeFirst'
  <2> SUFFICES ASSUME NEW b \in Behaviors, NEW d \in Behaviors, NEW i \in 1..Len(wire'),
                      wire'[i] = Resumed(d), notification[b] = "idle", ~user
               PROVE  \E j \in 1..Len(wire') : j > i /\ wire'[j] = Idled(b)
    BY DEF ReturnsComeFirst, Sent, Idled, Resumed
  <2> DEFINE k == i + 1
  <2>1. k \in 1..Len(wire) /\ wire[k] = Resumed(d) /\ k = i + 1
    BY <1>1
  <2> HIDE DEF k
  <2>2. PICK j \in 1..Len(wire) : j > k /\ wire[j] = Idled(b)
    BY <2>1 DEF IdleInv, ReturnsComeFirst, Sent
  <2>3. j - 1 \in 1..Len(wire') /\ j - 1 > i /\ wire'[j - 1] = Idled(b)
    BY <1>1, <2>1, <2>2
  <2>4. QED BY <2>3
<1>4. QED BY <1>2, <1>3 DEF IdleInv

\* The objects of bs are destroyed, and some are made anew.
LEMMA IdleDestroy ==
  ASSUME QueuesOK, IdleInv, NEW bs \in SUBSET Behaviors, wire' = WireWithout(bs), user' = user,
         \A b \in bs : notification'[b] # "idle",
         \A b \in Behaviors \ bs :
           /\ notification'[b] = notification[b]
           /\ phase'[b] = "Waiting" => phase[b] = "Waiting" \/ notification[b] # "idle"
  PROVE  IdleInv'
<1>1. /\ Len(wire') = Len(wire)
      /\ \A b \in Behaviors, i \in 1..Len(wire) :
           /\ wire'[i] = Resumed(b) => wire[i] = Resumed(b)
           /\ b \notin bs /\ wire[i] = Idled(b) => wire'[i] = Idled(b)
  BY WireWithoutEvents, WireWithoutIs DEF QueuesOK
<1>2. IdleIsSent'
  <2> SUFFICES ASSUME NEW b \in Behaviors, notification'[b] = "idle", phase'[b] = "Waiting", ~user
               PROVE  \E i \in 1..Len(wire') : wire'[i] = Idled(b)
    BY DEF IdleIsSent, Pending, Idled
  <2>1. b \notin bs /\ notification[b] = "idle" /\ phase[b] = "Waiting"
    OBVIOUS
  <2>2. PICK i \in 1..Len(wire) : wire[i] = Idled(b)
    BY <2>1 DEF IdleInv, IdleIsSent, Pending
  <2>3. QED BY <1>1, <2>1, <2>2
<1>3. ReturnsComeFirst'
  <2> SUFFICES ASSUME NEW b \in Behaviors, NEW d \in Behaviors, NEW i \in 1..Len(wire'),
                      wire'[i] = Resumed(d), notification'[b] = "idle", ~user
               PROVE  \E j \in 1..Len(wire') : j > i /\ wire'[j] = Idled(b)
    BY DEF ReturnsComeFirst, Sent, Idled, Resumed
  <2>1. b \notin bs /\ notification[b] = "idle"
    OBVIOUS
  <2>2. i \in 1..Len(wire) /\ wire[i] = Resumed(d)
    BY <1>1
  <2>3. PICK j \in 1..Len(wire) : j > i /\ wire[j] = Idled(b)
    BY <2>1, <2>2 DEF IdleInv, ReturnsComeFirst, Sent
  <2>4. QED BY <1>1, <2>1, <2>3
<1>4. QED BY <1>2, <1>3 DEF IdleInv

\* A suppressed behavior starts again with a notification that has not fired.
LEMMA IdleSuppress ==
  ASSUME QueuesOK, TypeOK, IdleInv, NEW c \in Behaviors, SuppressIdled(c) PROVE IdleInv'
<1> DEFINE w == WireWithout({c})
<1>1. /\ wire # <<>> /\ Head(wire) = Idled(c) /\ wire' = Tail(w) /\ phase' = phase
      /\ notification' = [notification EXCEPT ![c] = "active"] /\ user' = user
  BY DEF SuppressIdled, Receives
<1>2. /\ Len(wire) \in Nat \ {0} /\ w \in Seq(Event) /\ Len(w) = Len(wire)
      /\ wire[1] = Idled(c)
  BY <1>1, WireWithoutIs DEF TypeOK
<1>3. \A b \in Behaviors, i \in 1..Len(wire) :
        /\ w[i] = Resumed(b) => wire[i] = Resumed(b)
        /\ b # c /\ wire[i] = Idled(b) => w[i] = Idled(b)
  <2> SUFFICES ASSUME NEW b \in Behaviors, NEW i \in 1..Len(wire)
               PROVE  /\ w[i] = Resumed(b) => wire[i] = Resumed(b)
                      /\ b # c /\ wire[i] = Idled(b) => w[i] = Idled(b)
    OBVIOUS
  <2>1. /\ b \in {c} => w[i] \notin {Idled(b), Resumed(b)}
        /\ b \notin {c} => /\ w[i] = Idled(b) <=> wire[i] = Idled(b)
                           /\ w[i] = Resumed(b) <=> wire[i] = Resumed(b)
    BY WireWithoutEvents DEF QueuesOK
  <2>2. QED BY <2>1
<1> HIDE DEF w
<1>4. /\ Len(wire') = Len(wire) - 1
      /\ \A i \in 1..Len(wire') : wire'[i] = w[i + 1] /\ i + 1 \in 1..Len(wire)
      /\ \A i \in 1..Len(wire) : i > 1 => i - 1 \in 1..Len(wire') /\ wire'[i - 1] = w[i]
  BY <1>1, <1>2
<1>5. \A b \in Behaviors : notification'[b] = "idle" => b # c /\ notification[b] = "idle"
  BY <1>1 DEF TypeOK
<1>6. IdleIsSent'
  <2> SUFFICES ASSUME NEW b \in Behaviors, notification'[b] = "idle", phase[b] = "Waiting", ~user
               PROVE  \E i \in 1..Len(wire') : wire'[i] = Idled(b)
    BY <1>1 DEF IdleIsSent, Pending, Idled
  <2>1. PICK i \in 1..Len(wire) : wire[i] = Idled(b)
    BY <1>5 DEF IdleInv, IdleIsSent, Pending
  <2>2. i > 1
    BY <1>2, <1>5, <2>1, EventsDiffer
  <2>3. QED BY <1>3, <1>4, <1>5, <2>1, <2>2
<1>7. ReturnsComeFirst'
  <2> SUFFICES ASSUME NEW b \in Behaviors, NEW d \in Behaviors, NEW i \in 1..Len(wire'),
                      wire'[i] = Resumed(d), notification'[b] = "idle", ~user
               PROVE  \E j \in 1..Len(wire') : j > i /\ wire'[j] = Idled(b)
    BY <1>1 DEF ReturnsComeFirst, Sent, Idled, Resumed
  <2> DEFINE k == i + 1
  <2>1. k \in 1..Len(wire) /\ wire[k] = Resumed(d) /\ k = i + 1
    BY <1>3, <1>4
  <2> HIDE DEF k
  <2>2. PICK j \in 1..Len(wire) : j > k /\ wire[j] = Idled(b)
    BY <1>5, <2>1 DEF IdleInv, ReturnsComeFirst, Sent
  <2>3. w[j] = Idled(b)
    BY <1>3, <1>5, <2>2
  <2>4. j - 1 \in 1..Len(wire') /\ j - 1 > i /\ wire'[j - 1] = Idled(b)
    BY <1>2, <1>4, <2>1, <2>2, <2>3
  <2>5. QED BY <2>4
<1>8. QED BY <1>6, <1>7 DEF IdleInv

LEMMA InitIdle == Init => IdleInv
BY DEF Init, IdleInv, IdleIsSent, ReturnsComeFirst

LEMMA InhibitIdle ==
  ASSUME QueuesOK, IdleInv, NEW n, SetInhibitLocks(n), user' = user PROVE IdleInv'
<1>1. CASE locks > 0 /\ n = 0 /\ suppressed
  <2>1. /\ wire' = WireWithout(Registered) /\ Registered \in SUBSET Behaviors
        /\ notification' =
             [b \in Behaviors |-> IF b \in Registered THEN "active" ELSE notification[b]]
        /\ phase' = [b \in Behaviors |-> IF b \in Registered THEN "Waiting" ELSE phase[b]]
    BY <1>1 DEF SetInhibitLocks, Recreate, Registered
  <2>2. /\ \A b \in Registered : notification'[b] # "idle"
        /\ \A b \in Behaviors \ Registered :
             notification'[b] = notification[b] /\ phase'[b] = phase[b]
    BY <2>1
  <2>3. QED BY <2>1, <2>2, IdleDestroy
<1>2. CASE ~(locks > 0 /\ n = 0 /\ suppressed)
  BY <1>2, IdleFrame DEF SetInhibitLocks
<1>3. QED BY <1>1, <1>2

LEMMA NextIdle == TypeOK /\ IdleInv /\ [Next]_vars => IdleInv'
<1> SUFFICES ASSUME TypeOK, QueuesOK, IdleInv, [Next]_vars PROVE IdleInv'
  BY TypeParts
<1> USE DEF userVars
<1>1. ASSUME NEW b \in Behaviors, CompositorIdled(b) \/ CompositorResumed(b) \/ SuppressIdled(b)
      PROVE  IdleInv'
  <2>1. CASE CompositorIdled(b)
    BY <2>1, IdleSend
  <2>2. CASE CompositorResumed(b)
    BY <2>2, IdleUserBack DEF CompositorResumed, TypeOK
  <2>3. CASE SuppressIdled(b)
    BY <2>3, IdleSuppress
  <2>4. QED BY <1>1, <2>1, <2>2, <2>3
<1>2. CASE UserInput
  BY <1>2, IdleUserBack DEF UserInput
<1>3. ASSUME NEW b \in Behaviors, JoinFade(b) \/ BeginFade(b) \/ IdleAtOnce(b)
      PROVE  IdleInv'
  <2>1. /\ wire # <<>> /\ Head(wire) = Idled(b) /\ wire' = Tail(wire)
        /\ UNCHANGED <<notification, user>>
        /\ phase' = [phase EXCEPT ![b] = "Fading"] \/ phase' = [phase EXCEPT ![b] = "Idled"]
    BY <1>3 DEF JoinFade, BeginFade, IdleAtOnce, JoinGrace, Receives
  <2>2. \A d \in Behaviors : phase'[d] = "Waiting" => phase[d] = "Waiting" /\ d # b
    BY <2>1 DEF TypeOK
  <2>3. \A d \in Behaviors : d # b => Head(wire) # Idled(d)
    BY <2>1, EventsDiffer
  <2>4. QED BY <2>1, <2>2, <2>3, IdleTail
<1>4. ASSUME NEW b \in Behaviors, CancelFade(b) \/ Resume(b)
      PROVE  IdleInv'
  <2>1. /\ wire # <<>> /\ Head(wire) = Resumed(b) /\ wire' = Tail(wire)
        /\ UNCHANGED <<notification, user>>
    BY <1>4 DEF CancelFade, Resume, Receives
  <2>2. QED BY <2>1, IdleTail
<1>5. ASSUME NEW b \in Behaviors, IgnoreEvent(b)
      PROVE  IdleInv'
  <2>1. /\ wire # <<>> /\ Head(wire) \in {Idled(b), Resumed(b)} /\ wire' = Tail(wire)
        /\ UNCHANGED <<notification, user>> /\ phase' = phase
        /\ (Head(wire).type = "resumed") = (phase[b] = "Waiting")
    BY <1>5 DEF IgnoreEvent
  <2>2. CASE Head(wire) = Resumed(b)
    BY <2>1, <2>2, IdleTail
  <2>3. CASE Head(wire) = Idled(b)
    <3>1. Idled(b).type = "idled"
      BY DEF Idled
    <3>2. phase[b] # "Waiting"
      BY <2>1, <2>3, <3>1
    <3>3. \A d \in Behaviors : d # b => Head(wire) # Idled(d)
      BY <2>3, EventsDiffer
    <3>4. QED BY <2>1, <3>2, <3>3, IdleTail
  <2>4. QED BY <2>1, <2>2, <2>3
<1>6. CASE DiscardEvent
  <2>1. /\ wire # <<>> /\ ~Head(wire).live /\ wire' = Tail(wire)
        /\ UNCHANGED <<notification, user>> /\ phase' = phase
    BY <1>6 DEF DiscardEvent
  <2>2. \A d \in Behaviors : Head(wire) # Idled(d)
    BY <2>1 DEF Idled
  <2>3. QED BY <2>1, <2>2, IdleTail
<1>7. ASSUME NEW queue, GraceFadeComplete(queue), UNCHANGED userVars
      PROVE  IdleInv'
  <2>1. \A b \in Behaviors : phase'[b] = "Waiting" => phase[b] = "Waiting"
    BY <1>7 DEF GraceFadeComplete
  <2>2. QED BY <1>7, <2>1, IdleFrame
<1>8. ASSUME NEW g \in Generations, RunCheck(g) PROVE IdleInv'
  <2>1. CASE generation = g
    BY <1>7, <1>8, <2>1 DEF RunCheck
  <2>2. CASE generation # g
    BY <1>8, <2>2, IdleFrame DEF RunCheck
  <2>3. QED BY <2>1, <2>2
<1>9. CASE FallbackFires
  <2>1. CASE generation = fallback /\ grace # {}
    BY <1>7, <1>9, <2>1 DEF FallbackFires
  <2>2. CASE ~(generation = fallback /\ grace # {})
    BY <1>9, <2>2, IdleFrame DEF FallbackFires
  <2>3. QED BY <2>1, <2>2
<1>10. CASE Reload
  <2>1. PICK enabled \in SUBSET Behaviors :
          notification' = [b \in Behaviors |-> IF b \in enabled THEN "active" ELSE "none"]
    BY <1>10 DEF Reload
  <2>2. \A b \in Behaviors : notification'[b] # "idle"
    BY <2>1
  <2>3. QED BY <2>2 DEF IdleInv, IdleIsSent, ReturnsComeFirst
<1>11. ASSUME NEW c \in Clients, Inhibit(c) \/ Uninhibit(c) \/ ClientLeaves(c)
       PROVE  IdleInv'
  BY <1>11, InhibitIdle DEF Inhibit, Uninhibit, ClientLeaves
<1>12. ASSUME NEW g \in Generations,
              ShowOverlay(g) \/ ShowOnOtherOutputs(g) \/ ShowWithoutSurfaces(g) \/ RunDone(g)
       PROVE  IdleInv'
  BY <1>12, IdleFrame DEF ShowOverlay, ShowOnOtherOutputs, ShowWithoutSurfaces, RunDone
<1>13. CASE \/ RunHide \/ LockRequestSent \/ FadeFinishes \/ OutputsChange
            \/ SessionLocked \/ SessionUnlocked \/ PendingUnlocked \/ UNCHANGED vars
  BY <1>13, IdleFrame DEF RunHide, LockRequestSent, FadeFinishes, OutputsChange, SessionLocked,
     SessionUnlocked, PendingUnlocked, vars
<1>14. QED
  BY <1>1, <1>2, <1>3, <1>4, <1>5, <1>6, <1>8, <1>9, <1>10, <1>11, <1>12, <1>13 DEF Next

LEMMA IdleInvHolds == Spec => []IdleInv
<1>1. IInv /\ IdleInv /\ [Next]_vars => IdleInv'
  BY NextIdle DEF IInv
<1>2. QED BY <1>1, InitIdle, IInvHolds, PTL DEF Spec

LEMMA IdleImplies == IdleInv /\ TypeOK => IdleIsHeard
<1> SUFFICES ASSUME IdleInv, TypeOK, NEW b \in Registered, phase[b] = "Waiting",
                    ~Pending(Idled(b)), ~(notification[b] = "active"), ~user
             PROVE  FALSE
  BY DEF IdleIsHeard
<1>1. b \in Behaviors /\ notification[b] = "idle"
  BY DEF Registered, TypeOK
<1>2. QED BY <1>1 DEF IdleInv, IdleIsSent


-----------------------------------------------------------------------------
(* The cookies.                                                            *)

\* The cookies the clients hold, of which the counter is the number. It tells why no
\* decrement finds the counter at zero.
Cookies == {cookie \in Clients \X (1..MaxHeld) : cookie[2] <= held[cookie[1]]}
CookiesOf(c) == {c} \X (1..held[c])

CookiesCounted == locks = Cardinality(Cookies)

LEMMA CookiesFinite == IsFiniteSet(Cookies) /\ Cardinality(Cookies) \in Nat
<1>1. IsFiniteSet(Clients) /\ IsFiniteSet(1..MaxHeld)
  BY IdleManagerAssumption, FS_Interval
<1>2. IsFiniteSet(Clients \X (1..MaxHeld))
  BY <1>1, FS_Product
<1>3. Cookies \in SUBSET (Clients \X (1..MaxHeld))
  BY DEF Cookies
<1>4. IsFiniteSet(Cookies)
  BY <1>2, <1>3, FS_Subset
<1>5. QED BY <1>4, FS_CardinalityType

\* No client holds more cookies than are counted.
LEMMA CookiesOfIs ==
  ASSUME InhibitOK, NEW c \in Clients
  PROVE  /\ CookiesOf(c) \subseteq Cookies
         /\ IsFiniteSet(CookiesOf(c))
         /\ Cardinality(CookiesOf(c)) = held[c]
         /\ held[c] <= Cardinality(Cookies)
<1>1. held[c] \in 0..MaxHeld /\ MaxHeld \in Nat /\ held[c] \in Nat
  BY IdleManagerAssumption DEF InhibitOK
<1>2. CookiesOf(c) \subseteq Cookies
  BY <1>1 DEF CookiesOf, Cookies
<1>3. IsFiniteSet({c}) /\ Cardinality({c}) = 1
  BY FS_Singleton
<1>4. IsFiniteSet(1..held[c]) /\ Cardinality(1..held[c]) = held[c]
  <2> DEFINE n == held[c]
  <2>1. n \in Nat
    BY <1>1
  <2> HIDE DEF n
  <2>2. 1 \in Int /\ n \in Int
    BY <2>1
  <2>3. IsFiniteSet(1..n) /\ Cardinality(1..n) = IF 1 > n THEN 0 ELSE n - 1 + 1
    BY ONLY <2>2, FS_Interval
  <2>4. IsFiniteSet(1..n) /\ Cardinality(1..n) = n
    BY <2>1, <2>3
  <2>5. QED BY <2>4 DEF n
<1>5. /\ IsFiniteSet(CookiesOf(c))
      /\ Cardinality(CookiesOf(c)) = Cardinality({c}) * Cardinality(1..held[c])
  BY ONLY <1>3, <1>4, FS_Product, Zenon DEF CookiesOf
<1>6. Cardinality(CookiesOf(c)) = held[c]
  <2>1. Cardinality(CookiesOf(c)) = 1 * held[c]
    BY ONLY <1>3, <1>4, <1>5, Zenon
  <2>2. 1 * held[c] = held[c]
    BY ONLY <1>1
  <2>3. QED BY ONLY <2>1, <2>2
<1>7. Cardinality(CookiesOf(c)) <= Cardinality(Cookies)
  BY <1>2, CookiesFinite, FS_Subset
<1>8. QED BY <1>2, <1>5, <1>6, <1>7

LEMMA InitCookies == Init => CookiesCounted
<1> SUFFICES ASSUME Init PROVE CookiesCounted
  OBVIOUS
<1>1. Cookies = {}
  BY IdleManagerAssumption DEF Init, Cookies
<1>2. QED BY <1>1, FS_EmptySet DEF Init, CookiesCounted

LEMMA InhibitCounts ==
  ASSUME InhibitOK, CookiesCounted, NEW c \in Clients, Inhibit(c) PROVE CookiesCounted'
<1>1. held[c] < MaxHeld /\ held' = [held EXCEPT ![c] = @ + 1] /\ locks' = locks + 1
  BY DEF Inhibit, SetInhibitLocks
<1>2. held[c] \in Nat /\ MaxHeld \in Nat /\ held[c] + 1 \in 1..MaxHeld
  BY <1>1, IdleManagerAssumption DEF InhibitOK
<1> DEFINE new == <<c, held[c] + 1>>
<1>3. new \notin Cookies
  BY <1>2 DEF Cookies
<1>4. Cookies' = Cookies \union {new}
  <2>1. ASSUME NEW d \in Clients, NEW k \in 1..MaxHeld
        PROVE  k <= held'[d] <=> k <= held[d] \/ (d = c /\ k = held[c] + 1)
    BY <1>1, <1>2 DEF InhibitOK
  <2>2. QED BY <1>2, <2>1 DEF Cookies
<1> HIDE DEF new
<1>5. Cardinality(Cookies \union {new}) = Cardinality(Cookies) + 1
  BY <1>3, CookiesFinite, FS_AddElement
<1>6. QED BY <1>1, <1>4, <1>5 DEF CookiesCounted

LEMMA UninhibitCounts ==
  ASSUME InhibitOK, CookiesCounted, NEW c \in Clients, Uninhibit(c) PROVE CookiesCounted'
<1>1. held[c] > 0 /\ held' = [held EXCEPT ![c] = @ - 1] /\ locks' = LocksLess(1)
  BY DEF Uninhibit, SetInhibitLocks
<1>2. held[c] \in Nat /\ MaxHeld \in Nat /\ held[c] \in 1..MaxHeld
  BY <1>1, IdleManagerAssumption DEF InhibitOK
<1> DEFINE old == <<c, held[c]>>
<1>3. old \in Cookies
  BY <1>2 DEF Cookies
<1>4. Cookies' = Cookies \ {old}
  <2>1. ASSUME NEW d \in Clients, NEW k \in 1..MaxHeld
        PROVE  k <= held'[d] <=> k <= held[d] /\ ~(d = c /\ k = held[c])
    BY <1>1, <1>2 DEF InhibitOK
  <2>2. QED BY <1>2, <2>1 DEF Cookies
<1> HIDE DEF old
<1>5. Cardinality(Cookies \ {old}) = Cardinality(Cookies) - 1
  BY <1>3, CookiesFinite, FS_RemoveElement
<1>6. locks' = locks - 1
  BY <1>1, <1>2, CookiesOfIs, CookiesFinite DEF LocksLess, CookiesCounted
<1>7. QED BY <1>4, <1>5, <1>6 DEF CookiesCounted

LEMMA LeavingCounts ==
  ASSUME InhibitOK, CookiesCounted, NEW c \in Clients, ClientLeaves(c) PROVE CookiesCounted'
<1>1. held' = [held EXCEPT ![c] = 0] /\ locks' = LocksLess(held[c])
  BY DEF ClientLeaves, SetInhibitLocks
<1>2. held[c] \in Nat /\ MaxHeld \in Nat
  BY IdleManagerAssumption DEF InhibitOK
<1>3. Cookies' = Cookies \ CookiesOf(c)
  <2>1. ASSUME NEW d \in Clients, NEW k \in 1..MaxHeld
        PROVE  k <= held'[d] <=> k <= held[d] /\ ~(d = c /\ k \in 1..held[c])
    BY <1>1, <1>2 DEF InhibitOK
  <2>2. QED BY <2>1 DEF Cookies, CookiesOf
<1>4. Cookies \intersect CookiesOf(c) = CookiesOf(c)
  BY CookiesOfIs
<1>5. Cardinality(Cookies \ CookiesOf(c)) = Cardinality(Cookies) - held[c]
  <2>1. Cardinality(Cookies \ CookiesOf(c))
          = Cardinality(Cookies) - Cardinality(Cookies \intersect CookiesOf(c))
    BY CookiesFinite, FS_Difference
  <2>2. QED BY <1>4, <2>1, CookiesOfIs
<1>6. locks' = locks - held[c]
  BY <1>1, <1>2, CookiesOfIs, CookiesFinite DEF LocksLess, CookiesCounted
<1>7. QED BY <1>3, <1>5, <1>6 DEF CookiesCounted

LEMMA NextCookies == TypeOK /\ CookiesCounted /\ [Next]_vars => CookiesCounted'
<1> SUFFICES ASSUME InhibitOK, CookiesCounted, [Next]_vars PROVE CookiesCounted'
  BY TypeParts
<1>1. ASSUME UNCHANGED inhibitVars PROVE CookiesCounted'
  BY <1>1 DEF CookiesCounted, Cookies, inhibitVars
<1>2. ASSUME NEW c \in Clients, Inhibit(c) \/ Uninhibit(c) \/ ClientLeaves(c)
      PROVE  CookiesCounted'
  BY <1>2, InhibitCounts, UninhibitCounts, LeavingCounts
<1>3. ASSUME NEW b \in Behaviors,
             \/ CompositorIdled(b) \/ CompositorResumed(b) \/ SuppressIdled(b) \/ JoinFade(b)
             \/ BeginFade(b) \/ IdleAtOnce(b) \/ CancelFade(b) \/ Resume(b) \/ IgnoreEvent(b)
      PROVE  CookiesCounted'
  BY <1>1, <1>3 DEF CompositorIdled, CompositorResumed, SuppressIdled, JoinFade, BeginFade,
     IdleAtOnce, CancelFade, Resume, IgnoreEvent
<1>4. ASSUME NEW g \in Generations,
             \/ ShowOverlay(g) \/ ShowOnOtherOutputs(g) \/ ShowWithoutSurfaces(g)
             \/ RunDone(g) \/ RunCheck(g)
      PROVE  CookiesCounted'
  BY <1>1, <1>4 DEF ShowOverlay, ShowOnOtherOutputs, ShowWithoutSurfaces, RunDone, RunCheck
<1>5. CASE \/ UserInput \/ DiscardEvent \/ RunHide \/ LockRequestSent \/ FadeFinishes
           \/ FallbackFires \/ OutputsChange \/ Reload \/ SessionLocked \/ SessionUnlocked
           \/ PendingUnlocked \/ UNCHANGED vars
  BY <1>1, <1>5 DEF UserInput, DiscardEvent, RunHide, LockRequestSent, FadeFinishes,
     FallbackFires, OutputsChange, Reload, SessionLocked, SessionUnlocked, PendingUnlocked, vars
<1>6. QED BY <1>2, <1>3, <1>4, <1>5 DEF Next

LEMMA CookiesImply == TypeOK /\ CookiesCounted => InhibitsAreHeld
<1> SUFFICES ASSUME InhibitOK, CookiesCounted
             PROVE  locks = 0 <=> \A c \in Clients : held[c] = 0
  BY TypeParts DEF InhibitsAreHeld
<1>1. ASSUME locks = 0, NEW c \in Clients PROVE held[c] = 0
  <2>1. held[c] \in Nat /\ held[c] <= 0
    BY <1>1, CookiesOfIs, IdleManagerAssumption DEF CookiesCounted, InhibitOK
  <2>2. QED BY <2>1
<1>2. ASSUME \A c \in Clients : held[c] = 0 PROVE locks = 0
  <2>1. Cookies = {}
    BY <1>2 DEF Cookies
  <2>2. QED BY <2>1, FS_EmptySet DEF CookiesCounted
<1>3. QED BY <1>1, <1>2

\* However events, returns, inhibits and reloads mix, a waiting behavior hears of the next
\* idle period, and nobody's cookie is counted after it was given back or its owner left.
THEOREM IdlePeriodsAlwaysHeard == Spec => []IdlePeriodsAreHeard
<1>1. TypeOK /\ CookiesCounted /\ [Next]_vars => CookiesCounted'
  BY NextCookies
<1>2. Spec => []CookiesCounted
  BY <1>1, InitCookies, TypeCorrect, PTL DEF Spec
<1>3. TypeOK /\ IdleInv /\ CookiesCounted => IdlePeriodsAreHeard
  BY IdleImplies, CookiesImply DEF IdlePeriodsAreHeard
<1>4. QED BY <1>2, <1>3, TypeCorrect, IdleInvHolds, PTL


-----------------------------------------------------------------------------
(* The resume actions.                                                     *)

\* Until notifications are made anew, the behaviors that wait for their resume action are
\* those in phase Idled.
OwedAreIdled == ~renewed => owed = {b \in Behaviors : phase[b] = "Idled"}

LEMMA InitOwed == Init => OwedAreIdled
BY DEF Init, OwedAreIdled

LEMMA OwedFrame ==
  ASSUME OwedAreIdled, UNCHANGED <<owed, phase, renewed>> PROVE OwedAreIdled'
BY DEF OwedAreIdled

LEMMA CompleteOwes ==
  ASSUME TypeOK, GraceIsFading, OwedAreIdled, NEW queue, GraceFadeComplete(queue),
         renewed' = renewed
  PROVE  OwedAreIdled'
<1>1. CASE grace = {}
  BY <1>1, OwedFrame DEF GraceFadeComplete
<1>2. CASE grace # {}
  <2>1. /\ owed' = owed \union grace /\ grace \subseteq Behaviors
        /\ phase' = [b \in Behaviors |-> IF b \in grace THEN "Idled" ELSE phase[b]]
    BY <1>2 DEF GraceFadeComplete, RunActions, TypeOK
  <2>2. \A b \in Behaviors : phase'[b] = "Idled" <=> phase[b] = "Idled" \/ b \in grace
    BY <2>1
  <2>3. QED BY <2>1, <2>2 DEF OwedAreIdled
<1>3. QED BY <1>1, <1>2

LEMMA NextOwed == TypeOK /\ GraceIsFading /\ OwedAreIdled /\ [Next]_vars => OwedAreIdled'
<1> SUFFICES ASSUME TypeOK, GraceIsFading, OwedAreIdled, [Next]_vars PROVE OwedAreIdled'
  OBVIOUS
<1> USE DEF configVars
<1>1. ASSUME NEW b \in Behaviors, IdleAtOnce(b) PROVE OwedAreIdled'
  <2>1. owed' = owed \union {b} /\ phase' = [phase EXCEPT ![b] = "Idled"] /\ renewed' = renewed
    BY <1>1 DEF IdleAtOnce, RunActions
  <2>2. \A d \in Behaviors : phase'[d] = "Idled" <=> phase[d] = "Idled" \/ d = b
    BY <2>1 DEF TypeOK
  <2>3. QED BY <2>1, <2>2 DEF OwedAreIdled
<1>2. ASSUME NEW b \in Behaviors, Resume(b) PROVE OwedAreIdled'
  <2>1. owed' = owed \ {b} /\ phase' = [phase EXCEPT ![b] = "Waiting"] /\ renewed' = renewed
    BY <1>2 DEF Resume
  <2>2. \A d \in Behaviors : phase'[d] = "Idled" <=> phase[d] = "Idled" /\ d # b
    BY <2>1 DEF TypeOK
  <2>3. QED BY <2>1, <2>2 DEF OwedAreIdled
<1>3. ASSUME NEW b \in Behaviors, JoinFade(b) \/ BeginFade(b) PROVE OwedAreIdled'
  <2>1. /\ owed' = owed /\ phase' = [phase EXCEPT ![b] = "Fading"] /\ renewed' = renewed
        /\ phase[b] = "Waiting"
    BY <1>3 DEF JoinFade, BeginFade, JoinGrace
  <2>2. \A d \in Behaviors : phase'[d] = "Idled" <=> phase[d] = "Idled"
    BY <2>1 DEF TypeOK
  <2>3. QED BY <2>1, <2>2 DEF OwedAreIdled
<1>4. ASSUME NEW b \in Behaviors, CancelFade(b) PROVE OwedAreIdled'
  <2>1. owed' = owed /\ phase' = PhaseWithoutGrace /\ renewed' = renewed
    BY <1>4 DEF CancelFade
  <2>2. \A d \in Behaviors : phase'[d] = "Idled" <=> phase[d] = "Idled"
    BY <2>1 DEF PhaseWithoutGrace, GraceIsFading
  <2>3. QED BY <2>1, <2>2 DEF OwedAreIdled
<1>5. ASSUME NEW g \in Generations, RunCheck(g) PROVE OwedAreIdled'
  <2>1. CASE generation = g
    BY <1>5, <2>1, CompleteOwes DEF RunCheck
  <2>2. CASE generation # g
    BY <1>5, <2>2, OwedFrame DEF RunCheck
  <2>3. QED BY <2>1, <2>2
<1>6. CASE FallbackFires
  <2>1. generation = fallback /\ grace # {}
    BY <1>6 DEF FallbackFires, GraceIsFading
  <2>2. QED BY <1>6, <2>1, CompleteOwes DEF FallbackFires
<1>7. CASE Reload
  BY <1>7 DEF Reload, OwedAreIdled
<1>8. ASSUME NEW c \in Clients, Inhibit(c) \/ Uninhibit(c) \/ ClientLeaves(c)
      PROVE  OwedAreIdled'
  <2>1. renewed' = TRUE \/ UNCHANGED <<owed, phase, renewed>>
    BY <1>8 DEF Inhibit, Uninhibit, ClientLeaves, SetInhibitLocks
  <2>2. QED BY <2>1, OwedFrame DEF OwedAreIdled
<1>9. ASSUME NEW b \in Behaviors,
             CompositorIdled(b) \/ CompositorResumed(b) \/ SuppressIdled(b) \/ IgnoreEvent(b)
      PROVE  OwedAreIdled'
  BY <1>9, OwedFrame DEF CompositorIdled, CompositorResumed, SuppressIdled, IgnoreEvent
<1>10. ASSUME NEW g \in Generations,
              ShowOverlay(g) \/ ShowOnOtherOutputs(g) \/ ShowWithoutSurfaces(g) \/ RunDone(g)
       PROVE  OwedAreIdled'
  BY <1>10, OwedFrame DEF ShowOverlay, ShowOnOtherOutputs, ShowWithoutSurfaces, RunDone
<1>11. CASE \/ UserInput \/ DiscardEvent \/ RunHide \/ LockRequestSent \/ FadeFinishes
            \/ OutputsChange \/ SessionLocked \/ SessionUnlocked \/ PendingUnlocked \/ UNCHANGED vars
  BY <1>11, OwedFrame DEF UserInput, DiscardEvent, RunHide, LockRequestSent, FadeFinishes,
     OutputsChange, SessionLocked, SessionUnlocked, PendingUnlocked, vars
<1>12. QED
  BY <1>1, <1>2, <1>3, <1>4, <1>5, <1>6, <1>7, <1>8, <1>9, <1>10, <1>11 DEF Next

LEMMA OwedImplies == EventInv /\ OwedAreIdled => (~renewed => ResumePaired)
<1> SUFFICES ASSUME ReturnIsHeard, OwedAreIdled, ~renewed, wire = <<>>,
                    \A b \in Behaviors : notification[b] # "idle"
             PROVE  owed = {}
  BY DEF EventInv, ResumePaired
<1>1. \A b \in Behaviors : ~Pending(Resumed(b))
  BY DEF Pending
<1>2. \A b \in Behaviors : phase[b] = "Waiting"
  BY <1>1 DEF ReturnIsHeard
<1>3. QED BY <1>2 DEF OwedAreIdled


-----------------------------------------------------------------------------
(* A fade is shown once.                                                   *)

\* A fade is shown once: while its "show" is queued, nothing else of its number is, and the
\* overlay does not await its end. Numbers are given in order, from one.
Numbered(c) == c.kind \in {"show", "done", "check"}
NoShow(queue, g) ==
  \A i \in 1..Len(queue) : queue[i].kind = "show" => queue[i].generation # g

ShownOnce(queue, awaited, last) ==
  /\ awaited <= last
  /\ NoShow(queue, awaited) /\ NoShow(queue, 0)
  /\ \A i \in 1..Len(queue) : Numbered(queue[i]) => queue[i].generation <= last
  /\ \A i, j \in 1..Len(queue) :
       queue[i].kind = "show" /\ Numbered(queue[j]) /\ i # j
         => queue[j].generation # queue[i].generation

LEMMA TailIs ==
  ASSUME NEW queue \in Seq(Closure), queue # <<>>
  PROVE  /\ Len(queue) \in Nat \ {0} /\ 1 \in 1..Len(queue) /\ Head(queue) = queue[1]
         /\ Tail(queue) \in Seq(Closure) /\ Len(Tail(queue)) = Len(queue) - 1
         /\ \A i \in 1..Len(Tail(queue)) :
              Tail(queue)[i] = queue[i + 1] /\ i + 1 \in 1..Len(queue) /\ i + 1 > 1
         /\ \A i \in 1..Len(queue) :
              i > 1 => i - 1 \in 1..Len(Tail(queue)) /\ Tail(queue)[i - 1] = queue[i]
OBVIOUS

LEMMA AppendIs ==
  ASSUME NEW queue \in Seq(Closure), NEW c \in Closure
  PROVE  /\ Len(queue) \in Nat
         /\ Append(queue, c) \in Seq(Closure) /\ Len(Append(queue, c)) = Len(queue) + 1
         /\ \A i \in 1..Len(queue) : Append(queue, c)[i] = queue[i]
         /\ Append(queue, c)[Len(queue) + 1] = c
OBVIOUS

LEMMA KindsAre ==
  /\ \A g : /\ Show(g).kind = "show" /\ Show(g).generation = g
            /\ Done(g).kind = "done" /\ Done(g).generation = g
            /\ Check(g).kind = "check" /\ Check(g).generation = g
  /\ Hide.kind = "hide" /\ Flush.kind = "flush"
  /\ \A c \in Closure : /\ c.kind = "show" => c = Show(c.generation)
                        /\ Numbered(c) => c.generation \in Nat
BY DEF Show, Done, Check, Hide, Flush, Closure, Numbered

LEMMA OnceTail ==
  ASSUME NEW queue \in Seq(Closure), queue # <<>>, NEW awaited, NEW last,
         ShownOnce(queue, awaited, last)
  PROVE  /\ ShownOnce(Tail(queue), awaited, last)
         /\ Numbered(Head(queue)) =>
              /\ NoShow(Tail(queue), Head(queue).generation)
              /\ Head(queue).generation <= last
<1> DEFINE t == Tail(queue)
<1>1. /\ t \in Seq(Closure) /\ 1 \in 1..Len(queue) /\ Head(queue) = queue[1]
      /\ \A i \in 1..Len(t) : t[i] = queue[i + 1] /\ i + 1 \in 1..Len(queue) /\ i + 1 > 1
  BY TailIs
<1> HIDE DEF t
<1>2. NoShow(t, awaited) /\ NoShow(t, 0)
  BY <1>1 DEF ShownOnce, NoShow
<1>3. \A i \in 1..Len(t) : Numbered(t[i]) => t[i].generation <= last
  BY <1>1 DEF ShownOnce
<1>4. ASSUME NEW i \in 1..Len(t), NEW j \in 1..Len(t), t[i].kind = "show", Numbered(t[j]), i # j
      PROVE  t[j].generation # t[i].generation
  <2> DEFINE k == i + 1
             l == j + 1
  <2>1. /\ k \in 1..Len(queue) /\ queue[k] = t[i]
        /\ l \in 1..Len(queue) /\ queue[l] = t[j] /\ k # l
    BY <1>1, <1>4
  <2> HIDE DEF k, l
  <2>2. QED BY <2>1, <1>4 DEF ShownOnce
<1>5. ASSUME Numbered(Head(queue)) PROVE NoShow(t, Head(queue).generation)
  <2> SUFFICES ASSUME NEW i \in 1..Len(t), t[i].kind = "show"
               PROVE  t[i].generation # Head(queue).generation
    BY DEF NoShow
  <2> DEFINE k == i + 1
  <2>1. k \in 1..Len(queue) /\ queue[k] = t[i] /\ k # 1
    BY <1>1
  <2> HIDE DEF k
  <2>2. QED BY <2>1, <1>1, <1>5 DEF ShownOnce
<1>6. QED BY <1>1, <1>2, <1>3, <1>4, <1>5 DEF ShownOnce, t

\* What is put behind: a closure without a number, the end of a fade that has been shown, or
\* the fade that begins.
LEMMA OnceAppend ==
  ASSUME NEW queue \in Seq(Closure), NEW awaited \in Nat, NEW last \in Nat,
         ShownOnce(queue, awaited, last), NEW c \in Closure, c.kind # "show",
         Numbered(c) => c.generation <= last /\ NoShow(queue, c.generation)
  PROVE  ShownOnce(Append(queue, c), awaited, last)
<1> DEFINE a == Append(queue, c)
<1>1. /\ Len(queue) \in Nat /\ Len(a) = Len(queue) + 1 /\ a[Len(queue) + 1] = c
      /\ \A i \in 1..Len(queue) : a[i] = queue[i]
  BY AppendIs
<1> HIDE DEF a
<1>2. \A i \in 1..Len(a) : \/ i \in 1..Len(queue) /\ a[i] = queue[i]
                           \/ i = Len(queue) + 1 /\ a[i] = c
  BY <1>1
<1>3. NoShow(a, awaited) /\ NoShow(a, 0)
  BY <1>2 DEF ShownOnce, NoShow
<1>4. \A i \in 1..Len(a) : Numbered(a[i]) => a[i].generation <= last
  BY <1>2 DEF ShownOnce
<1>5. ASSUME NEW i \in 1..Len(a), NEW j \in 1..Len(a), a[i].kind = "show", Numbered(a[j]), i # j
      PROVE  a[j].generation # a[i].generation
  <2>1. i \in 1..Len(queue) /\ a[i] = queue[i]
    BY <1>2, <1>5
  <2>2. CASE j \in 1..Len(queue) /\ a[j] = queue[j]
    BY <2>1, <2>2, <1>5 DEF ShownOnce
  <2>3. CASE a[j] = c
    BY <2>1, <2>3, <1>5 DEF NoShow
  <2>4. QED BY <1>2, <2>2, <2>3
<1>6. QED BY <1>3, <1>4, <1>5 DEF ShownOnce, a

LEMMA OnceBegin ==
  ASSUME NEW queue \in Seq(Closure), NEW awaited \in Nat, NEW last \in Nat,
         ShownOnce(queue, awaited, last)
  PROVE  ShownOnce(Append(queue, Show(last + 1)), awaited, last + 1)
<1> DEFINE c == Show(last + 1)
           a == Append(queue, c)
<1>1. c \in Closure /\ c.kind = "show" /\ c.generation = last + 1
  BY ClosureTypes, KindsAre
<1>2. /\ Len(queue) \in Nat /\ Len(a) = Len(queue) + 1 /\ a[Len(queue) + 1] = c
      /\ \A i \in 1..Len(queue) : a[i] = queue[i]
  BY <1>1, AppendIs
<1> HIDE DEF a, c
<1>3. \A i \in 1..Len(a) : \/ i \in 1..Len(queue) /\ a[i] = queue[i]
                           \/ i = Len(queue) + 1 /\ a[i] = c
  BY <1>2
<1>4. \A i \in 1..Len(queue) : Numbered(queue[i]) =>
        queue[i].generation \in Nat /\ queue[i].generation <= last
  BY KindsAre DEF ShownOnce
<1>5. NoShow(a, awaited) /\ NoShow(a, 0)
  BY <1>1, <1>3 DEF ShownOnce, NoShow
<1>6. \A i \in 1..Len(a) : Numbered(a[i]) => a[i].generation <= last + 1
  BY <1>1, <1>3, <1>4
<1>7. ASSUME NEW i \in 1..Len(a), NEW j \in 1..Len(a), a[i].kind = "show", Numbered(a[j]), i # j
      PROVE  a[j].generation # a[i].generation
  <2>1. Numbered(a[i])
    BY <1>7 DEF Numbered
  <2>2. CASE i \in 1..Len(queue) /\ j \in 1..Len(queue)
    BY <2>2, <1>2, <1>7 DEF ShownOnce
  <2>3. CASE i \in 1..Len(queue) /\ j = Len(queue) + 1
    BY <2>1, <2>3, <1>1, <1>2, <1>4
  <2>4. CASE i = Len(queue) + 1 /\ j \in 1..Len(queue)
    BY <2>4, <1>1, <1>2, <1>4, <1>7
  <2>5. QED BY <1>2, <1>3, <1>7, <2>2, <2>3, <2>4
<1>8. awaited <= last + 1
  BY DEF ShownOnce
<1>9. QED BY <1>5, <1>6, <1>7, <1>8 DEF ShownOnce, a, c

LEMMA OnceMore ==
  ASSUME NEW queue \in Seq(Closure), NEW awaited \in Nat, NEW last \in Nat,
         ShownOnce(queue, awaited, last), NEW s \in {<<Hide>>, <<Flush>>, <<>>}
  PROVE  ShownOnce(queue \o s, awaited, last) /\ queue \o s \in Seq(Closure)
<1>1. CASE s = <<>>
  BY <1>1, queue \o <<>> = queue
<1>2. ASSUME NEW c \in {Hide, Flush}, s = <<c>>
      PROVE  ShownOnce(queue \o s, awaited, last) /\ queue \o s \in Seq(Closure)
  <2>1. c \in Closure /\ c.kind # "show" /\ ~Numbered(c)
    BY ClosureTypes, KindsAre DEF Numbered
  <2>2. queue \o s = Append(queue, c)
    BY <1>2, <2>1
  <2>3. QED BY <2>1, <2>2, OnceAppend, AppendIs
<1>3. QED BY <1>1, <1>2

\* Later numbers may be given, and the overlay may await another fade or none.
LEMMA OnceLater ==
  ASSUME NEW queue \in Seq(Closure), NEW awaited \in Nat, NEW last \in Nat,
         ShownOnce(queue, awaited, last)
  PROVE  ShownOnce(queue, awaited, last + 1)
<1>1. \A i \in 1..Len(queue) : Numbered(queue[i]) => queue[i].generation <= last + 1
  BY KindsAre DEF ShownOnce
<1>2. QED BY <1>1 DEF ShownOnce

LEMMA OnceAwait ==
  ASSUME NEW queue, NEW awaited, NEW last \in Nat, ShownOnce(queue, awaited, last)
  PROVE  /\ ShownOnce(queue, 0, last)
         /\ \A g : g <= last /\ NoShow(queue, g) => ShownOnce(queue, g, last)
BY DEF ShownOnce

Once == ShownOnce(closures, onFadeDone, generation)

LEMMA CancelKeepsOnce ==
  ASSUME QueuesOK, FadeOK, RestOK, Once, NEW u, CancelGrace(u), onFadeDone' = onFadeDone
  PROVE  Once'
<1>1. CASE grace = {}
  BY <1>1 DEF CancelGrace, graceVars, Once, ShownOnce, NoShow, Numbered
<1>2. CASE grace # {}
  <2>1. closures' = closures \o GraceEnd(u, willLock) /\ generation' = generation + 1
    BY <1>2 DEF CancelGrace
  <2>2. ShownOnce(closures \o GraceEnd(u, willLock), onFadeDone, generation)
        /\ closures \o GraceEnd(u, willLock) \in Seq(Closure)
    BY GraceEndIs, OnceMore DEF QueuesOK, FadeOK, RestOK, Once
  <2>3. ShownOnce(closures \o GraceEnd(u, willLock), onFadeDone, generation + 1)
    BY <2>2, OnceLater DEF FadeOK, RestOK
  <2>4. QED BY <2>1, <2>3 DEF Once, ShownOnce, NoShow, Numbered
<1>3. QED BY <1>1, <1>2

LEMMA CompleteKeepsOnce ==
  ASSUME FadeOK, RestOK, NEW queue \in Seq(Closure), ShownOnce(queue, onFadeDone, generation),
         GraceFadeComplete(queue), onFadeDone' = onFadeDone
  PROVE  Once'
<1>1. CASE grace = {}
  BY <1>1 DEF GraceFadeComplete, graceVars, Once, ShownOnce, NoShow, Numbered
<1>2. CASE grace # {}
  <2>1. PICK ok \in Outcomes(grace) :
          /\ closures' = queue \o FlushAfter(grace, ok)
                               \o GraceEnd(FALSE, \E b \in grace \cap Locks : ok[b])
          /\ generation' = generation
    BY <1>2 DEF GraceFadeComplete
  <2> DEFINE f == FlushAfter(grace, ok)
             e == GraceEnd(FALSE, \E b \in grace \cap Locks : ok[b])
  <2>2. f \in {<<Hide>>, <<Flush>>, <<>>} /\ e \in {<<Hide>>, <<Flush>>, <<>>}
    BY FlushAfterIs, GraceEndIs
  <2>3. closures' = (queue \o f) \o e
    BY <2>1
  <2> HIDE DEF f, e
  <2>4. ShownOnce(queue \o f, onFadeDone, generation) /\ queue \o f \in Seq(Closure)
    BY <2>2, OnceMore DEF FadeOK, RestOK
  <2>5. ShownOnce((queue \o f) \o e, onFadeDone, generation)
    BY <2>2, <2>4, OnceMore DEF FadeOK, RestOK
  <2>6. QED BY <2>1, <2>3, <2>5 DEF Once, ShownOnce, NoShow, Numbered
<1>3. QED BY <1>1, <1>2

LEMMA InitOnce == Init => Once
BY DEF Init, Once, ShownOnce, NoShow

LEMMA OnceNext ==
  ASSUME NEW queue, NEW awaited, NEW last, ShownOnce(queue, awaited, last),
         closures' = queue, onFadeDone' = awaited, generation' = last
  PROVE  Once'
BY DEF Once, ShownOnce, NoShow, Numbered

LEMMA NextOnce == TypeOK /\ GraceIsFading /\ Once /\ [Next]_vars => Once'
<1> SUFFICES ASSUME QueuesOK, FadeOK, RestOK, InhibitOK, GraceIsFading, Once, [Next]_vars
             PROVE  Once'
  BY TypeParts
<1> USE DEF graceVars, overlayVars
<1>1. closures \in Seq(Closure) /\ onFadeDone \in Nat /\ generation \in Nat
      /\ ShownOnce(closures, onFadeDone, generation)
  BY DEF QueuesOK, RestOK, FadeOK, Once
<1>2. ASSUME UNCHANGED <<closures, onFadeDone, generation>> PROVE Once'
  BY <1>1, <1>2, OnceNext
<1>3. ASSUME closures # <<>>
      PROVE  /\ ShownOnce(Tail(closures), onFadeDone, generation)
             /\ Tail(closures) \in Seq(Closure)
  BY <1>1, <1>3, OnceTail, TailIs
<1>4. ASSUME NEW b \in Behaviors, BeginFade(b) PROVE Once'
  <2>1. /\ closures' = Append(closures, Show(generation + 1)) /\ generation' = generation + 1
        /\ onFadeDone' = onFadeDone
    BY <1>4 DEF BeginFade
  <2>2. QED BY <1>1, <2>1, OnceBegin, OnceNext
<1>5. ASSUME NEW b \in Behaviors, IdleAtOnce(b) PROVE Once'
  <2>1. PICK ok \in Outcomes({b}) : closures' = closures \o FlushAfter({b}, ok)
    BY <1>5 DEF IdleAtOnce
  <2>2. ShownOnce(closures \o FlushAfter({b}, ok), onFadeDone, generation)
    BY <1>1, FlushAfterIs, OnceMore
  <2>3. onFadeDone' = onFadeDone /\ generation' = generation
    BY <1>5 DEF IdleAtOnce
  <2>4. QED BY <2>1, <2>2, <2>3, OnceNext
<1>6. ASSUME NEW b \in Behaviors, CancelFade(b) PROVE Once'
  BY <1>6, CancelKeepsOnce DEF CancelFade
<1>7. CASE Reload
  BY <1>7, CancelKeepsOnce DEF Reload
<1>8. ASSUME NEW c \in Clients, Inhibit(c) \/ Uninhibit(c) \/ ClientLeaves(c)
      PROVE  Once'
  <2>1. CancelGrace(FALSE) \/ UNCHANGED <<closures, generation>>
    BY <1>8 DEF Inhibit, Uninhibit, ClientLeaves, SetInhibitLocks
  <2>2. onFadeDone' = onFadeDone
    BY <1>8 DEF Inhibit, Uninhibit, ClientLeaves
  <2>3. QED BY <1>2, <2>1, <2>2, CancelKeepsOnce
<1>9. ASSUME NEW g \in Generations, ShowOverlay(g) PROVE Once'
  <2>1. closures # <<>> /\ Head(closures) = Show(g) /\ closures' = Tail(closures)
        /\ onFadeDone' = g /\ generation' = generation
    BY <1>9 DEF ShowOverlay, FrontClosure
  <2>2. Numbered(Show(g)) /\ Show(g).generation = g
    BY KindsAre DEF Numbered
  <2>3. g <= generation /\ NoShow(Tail(closures), g)
    BY <1>1, <2>1, <2>2, OnceTail
  <2>4. ShownOnce(Tail(closures), g, generation)
    BY <1>1, <1>3, <2>1, <2>3, OnceAwait
  <2>5. QED BY <2>1, <2>4, OnceNext
<1>10. ASSUME NEW g \in Generations, ShowWithoutSurfaces(g) PROVE Once'
  <2>1. closures # <<>> /\ Head(closures) = Show(g) /\ closures' = Append(Tail(closures), Done(g))
        /\ onFadeDone' = 0 /\ generation' = generation
    BY <1>10 DEF ShowWithoutSurfaces, FrontClosure
  <2>2. /\ Numbered(Show(g)) /\ Show(g).generation = g
        /\ Done(g) \in Closure /\ Done(g).kind # "show" /\ Done(g).generation = g
    BY KindsAre, ClosureTypes, IdleManagerAssumption DEF Numbered, Generations
  <2>3. g <= generation /\ NoShow(Tail(closures), g)
    BY <1>1, <2>1, <2>2, OnceTail
  <2>4. ShownOnce(Tail(closures), 0, generation)
    BY <1>1, <1>3, <2>1, OnceAwait
  <2>5. ShownOnce(Append(Tail(closures), Done(g)), 0, generation)
    BY <1>1, <1>3, <2>1, <2>2, <2>3, <2>4, OnceAppend
  <2>6. QED BY <2>1, <2>5, OnceNext
<1>11. ASSUME NEW g \in Generations, RunDone(g) PROVE Once'
  <2>1. closures # <<>> /\ Head(closures) = Done(g) /\ closures' = Append(Tail(closures), Check(g))
        /\ onFadeDone' = onFadeDone /\ generation' = generation
    BY <1>11 DEF RunDone, FrontClosure
  <2>2. /\ Numbered(Done(g)) /\ Done(g).generation = g
        /\ Check(g) \in Closure /\ Check(g).kind # "show" /\ Check(g).generation = g
    BY KindsAre, ClosureTypes, IdleManagerAssumption DEF Numbered, Generations
  <2>3. g <= generation /\ NoShow(Tail(closures), g)
    BY <1>1, <2>1, <2>2, OnceTail
  <2>4. ShownOnce(Append(Tail(closures), Check(g)), onFadeDone, generation)
    BY <1>1, <1>3, <2>1, <2>2, <2>3, OnceAppend
  <2>5. QED BY <2>1, <2>4, OnceNext
<1>12. ASSUME NEW g \in Generations, RunCheck(g) PROVE Once'
  <2>1. closures # <<>> /\ onFadeDone' = onFadeDone
    BY <1>12 DEF RunCheck, FrontClosure
  <2>2. CASE generation = g
    BY <1>3, <1>12, <2>1, <2>2, CompleteKeepsOnce DEF RunCheck
  <2>3. CASE generation # g
    BY <1>3, <1>12, <2>1, <2>3, OnceNext DEF RunCheck
  <2>4. QED BY <2>2, <2>3
<1>13. CASE LockRequestSent
  BY <1>3, <1>13, OnceNext DEF LockRequestSent, FrontClosure
<1>14. CASE RunHide
  <2>1. closures # <<>> /\ closures' = Tail(closures) /\ onFadeDone' = 0 /\ generation' = generation
    BY <1>14 DEF RunHide, FrontClosure, HideOverlay
  <2>2. ShownOnce(Tail(closures), 0, generation)
    BY <1>1, <1>3, <2>1, OnceAwait
  <2>3. QED BY <2>1, <2>2, OnceNext
<1>15. CASE OutputsChange \/ SessionLocked \/ SessionUnlocked
  <2>1. closures' = closures /\ onFadeDone' = 0 /\ generation' = generation
    BY <1>15 DEF OutputsChange, SessionLocked, SessionUnlocked, HideOverlay
  <2>2. ShownOnce(closures, 0, generation)
    BY <1>1, OnceAwait
  <2>3. QED BY <2>1, <2>2, OnceNext
<1>16. CASE FadeFinishes
  <2>1. onFadeDone' = 0 /\ generation' = generation
    BY <1>16 DEF FadeFinishes
  <2>2. CASE onFadeDone = 0
    BY <1>2, <1>16, <2>1, <2>2 DEF FadeFinishes
  <2>3. CASE onFadeDone # 0
    <3>1. closures' = Append(closures, Check(onFadeDone))
      BY <1>16, <2>3 DEF FadeFinishes
    <3>2. /\ Check(onFadeDone) \in Closure /\ Check(onFadeDone).kind # "show"
          /\ Check(onFadeDone).generation = onFadeDone
      BY <1>1, KindsAre, ClosureTypes
    <3>3. onFadeDone <= generation /\ NoShow(closures, onFadeDone)
      BY <1>1 DEF ShownOnce
    <3>4. ShownOnce(Append(closures, Check(onFadeDone)), onFadeDone, generation)
      BY <1>1, <3>2, <3>3, OnceAppend
    <3>5. ShownOnce(Append(closures, Check(onFadeDone)), 0, generation)
      BY <1>1, <3>4, OnceAwait
    <3>6. QED BY <2>1, <3>1, <3>5, OnceNext
  <2>4. QED BY <2>2, <2>3
<1>17. CASE FallbackFires
  <2>1. generation = fallback /\ grace # {}
    BY <1>17 DEF FallbackFires, GraceIsFading
  <2>2. QED BY <1>1, <1>17, <2>1, CompleteKeepsOnce DEF FallbackFires
<1>18. ASSUME NEW b \in Behaviors,
              \/ CompositorIdled(b) \/ CompositorResumed(b) \/ SuppressIdled(b) \/ JoinFade(b)
              \/ Resume(b) \/ IgnoreEvent(b)
       PROVE  Once'
  BY <1>2, <1>18 DEF CompositorIdled, CompositorResumed, SuppressIdled, JoinFade, Resume,
     IgnoreEvent
<1>19. CASE UserInput \/ DiscardEvent \/ PendingUnlocked \/ UNCHANGED vars
  BY <1>2, <1>19 DEF UserInput, DiscardEvent, PendingUnlocked, vars
<1>20. ASSUME NEW g \in Generations, ShowOnOtherOutputs(g) PROVE Once'
  <2>1. closures # <<>> /\ closures' = Tail(closures) /\ onFadeDone' = 0 /\ generation' = generation
    BY <1>20 DEF ShowOnOtherOutputs, FrontClosure
  <2>2. ShownOnce(Tail(closures), 0, generation)
    BY <1>1, <1>3, <2>1, OnceAwait
  <2>3. QED BY <2>1, <2>2, OnceNext
<1>21. QED
  BY <1>4, <1>5, <1>6, <1>7, <1>8, <1>9, <1>10, <1>11, <1>12, <1>13, <1>14, <1>15, <1>16,
     <1>17, <1>18, <1>19, <1>20 DEF Next


-----------------------------------------------------------------------------
(* The dimmed screen.                                                      *)

\* What makes DimEnds inductive: a dimmed screen has a fade, a lock or a queued "hide" to
\* answer for it, and a queued "show" is the one of the fade or has a "hide" behind it.
Followed(queue, i) == \E j \in 1..Len(queue) : j > i /\ queue[j] = Hide

Answered(queue, fade, last, screen, session) ==
  /\ screen # "none" => fade # {} \/ session # "none" \/ Followed(queue, 0)
  /\ \A i \in 1..Len(queue) : queue[i].kind = "show" =>
       Followed(queue, i) \/ (fade # {} /\ queue[i].generation = last)

LEMMA AnsweredTail ==
  ASSUME NEW queue \in Seq(Closure), queue # <<>>, NEW fade, NEW last, NEW screen, NEW session,
         Answered(queue, fade, last, screen, session)
  PROVE  /\ Answered(Tail(queue), fade, last, "none", session)
         /\ Head(queue) # Hide => Answered(Tail(queue), fade, last, screen, session)
         /\ Head(queue).kind = "show" =>
              \A next : Answered(Tail(queue), fade, last, next, session)
<1> DEFINE t == Tail(queue)
<1>1. /\ Len(queue) \in Nat \ {0} /\ 1 \in 1..Len(queue) /\ Head(queue) = queue[1]
      /\ \A i \in 1..Len(t) : t[i] = queue[i + 1] /\ i + 1 \in 1..Len(queue) /\ i + 1 > 1
      /\ \A i \in 1..Len(queue) : i > 1 => i - 1 \in 1..Len(t) /\ t[i - 1] = queue[i]
  BY TailIs
<1> HIDE DEF t
<1>2. ASSUME NEW i \in 1..Len(queue), Followed(queue, i) PROVE Followed(t, i - 1)
  <2>1. PICK j \in 1..Len(queue) : j > i /\ queue[j] = Hide
    BY <1>2 DEF Followed
  <2>2. j - 1 \in 1..Len(t) /\ t[j - 1] = Hide /\ j - 1 > i - 1
    BY <1>1, <2>1
  <2>3. QED BY <2>2 DEF Followed
<1>3. ASSUME NEW i \in 1..Len(t), t[i].kind = "show"
      PROVE  Followed(t, i) \/ (fade # {} /\ t[i].generation = last)
  <2> DEFINE k == i + 1
  <2>1. k \in 1..Len(queue) /\ queue[k] = t[i] /\ i = k - 1
    BY <1>1
  <2> HIDE DEF k
  <2>2. Followed(queue, k) \/ (fade # {} /\ queue[k].generation = last)
    BY <2>1, <1>3 DEF Answered
  <2>3. QED BY <1>2, <2>1, <2>2
<1>4. ASSUME Head(queue) # Hide, Followed(queue, 0) PROVE Followed(t, 0)
  <2>1. PICK j \in 1..Len(queue) : queue[j] = Hide
    BY <1>4 DEF Followed
  <2>2. j > 1
    BY <1>1, <1>4, <2>1
  <2>3. j - 1 \in 1..Len(t) /\ t[j - 1] = Hide /\ j - 1 > 0
    BY <1>1, <2>1, <2>2
  <2>4. QED BY <2>3 DEF Followed
<1>5. ASSUME Head(queue).kind = "show" PROVE fade # {} \/ Followed(t, 0)
  <2>1. Followed(queue, 1) \/ fade # {}
    BY <1>1, <1>5 DEF Answered
  <2>2. Followed(queue, 1) => Followed(t, 1 - 1)
    BY <1>1, <1>2
  <2>3. QED BY <2>1, <2>2
<1>6. QED BY <1>3, <1>4, <1>5 DEF Answered, t

\* What is put behind: anything but a "show".
LEMMA AnsweredAppend ==
  ASSUME NEW queue \in Seq(Closure), NEW fade, NEW last, NEW screen, NEW session,
         Answered(queue, fade, last, screen, session), NEW c \in Closure, c.kind # "show"
  PROVE  Answered(Append(queue, c), fade, last, screen, session)
<1> DEFINE a == Append(queue, c)
<1>1. /\ Len(queue) \in Nat /\ Len(a) = Len(queue) + 1 /\ a[Len(queue) + 1] = c
      /\ \A i \in 1..Len(queue) : a[i] = queue[i]
  BY AppendIs
<1> HIDE DEF a
<1>2. ASSUME NEW i \in Nat, Followed(queue, i) PROVE Followed(a, i)
  BY <1>1, <1>2 DEF Followed
<1>3. ASSUME NEW i \in 1..Len(a), a[i].kind = "show"
      PROVE  Followed(a, i) \/ (fade # {} /\ a[i].generation = last)
  <2>1. i \in 1..Len(queue) /\ a[i] = queue[i]
    BY <1>1, <1>3
  <2>2. Followed(queue, i) \/ (fade # {} /\ queue[i].generation = last)
    BY <1>3, <2>1 DEF Answered
  <2>3. QED BY <1>2, <2>1, <2>2
<1>4. Followed(queue, 0) => Followed(a, 0)
  BY <1>2
<1>5. QED BY <1>3, <1>4 DEF Answered, a

LEMMA AnsweredMore ==
  ASSUME NEW queue \in Seq(Closure), NEW fade, NEW last, NEW screen, NEW session,
         Answered(queue, fade, last, screen, session), NEW s \in {<<Hide>>, <<Flush>>, <<>>}
  PROVE  Answered(queue \o s, fade, last, screen, session)
<1>1. CASE s = <<>>
  BY <1>1, queue \o <<>> = queue
<1>2. ASSUME NEW c \in {Hide, Flush}, s = <<c>>
      PROVE  Answered(queue \o s, fade, last, screen, session)
  <2>1. c \in Closure /\ c.kind # "show"
    BY ClosureTypes, KindsAre
  <2>2. queue \o s = Append(queue, c)
    BY <1>2, <2>1
  <2>3. QED BY <2>1, <2>2, AnsweredAppend
<1>3. QED BY <1>1, <1>2

\* A "hide" behind the queue answers for everything.
LEMMA AnsweredByHide ==
  ASSUME NEW queue \in Seq(Closure), NEW fade, NEW last, NEW screen, NEW session
  PROVE  Answered(queue \o <<Hide>>, fade, last, screen, session)
<1> DEFINE a == Append(queue, Hide)
<1>1. queue \o <<Hide>> = a
  BY ClosureTypes
<1>2. Len(queue) \in Nat /\ Len(a) = Len(queue) + 1 /\ a[Len(queue) + 1] = Hide
  BY ClosureTypes, AppendIs
<1> HIDE DEF a
<1>3. \A i \in 0..Len(queue) : Followed(a, i)
  BY <1>2 DEF Followed
<1>4. \A i \in 1..Len(a) : a[i].kind = "show" => i \in 0..Len(queue)
  <2> SUFFICES ASSUME NEW i \in 1..Len(a), a[i].kind = "show" PROVE i \in 0..Len(queue)
    OBVIOUS
  <2>1. i # Len(queue) + 1
    BY <1>2, KindsAre
  <2>2. QED BY <1>2, <2>1
<1>5. 0 \in 0..Len(queue)
  BY <1>2
<1>6. QED BY <1>1, <1>3, <1>4, <1>5 DEF Answered

\* The fade that begins answers for its own "show" and for the screen.
LEMMA AnsweredBegin ==
  ASSUME NEW queue \in Seq(Closure), NEW last \in Nat, NEW screen, NEW session,
         Answered(queue, {}, last, screen, session), NEW fade, fade # {}
  PROVE  Answered(Append(queue, Show(last + 1)), fade, last + 1, screen, session)
<1> DEFINE c == Show(last + 1)
           a == Append(queue, c)
<1>1. c \in Closure /\ c.generation = last + 1
  BY ClosureTypes, KindsAre
<1>2. /\ Len(queue) \in Nat /\ Len(a) = Len(queue) + 1 /\ a[Len(queue) + 1] = c
      /\ \A i \in 1..Len(queue) : a[i] = queue[i]
  BY <1>1, AppendIs
<1> HIDE DEF a, c
<1>3. ASSUME NEW i \in 1..Len(a), a[i].kind = "show"
      PROVE  Followed(a, i) \/ (fade # {} /\ a[i].generation = last + 1)
  <2>1. CASE i \in 1..Len(queue)
    <3>1. Followed(queue, i)
      BY <1>2, <1>3, <2>1 DEF Answered
    <3>2. QED BY <1>2, <3>1 DEF Followed
  <2>2. CASE i = Len(queue) + 1
    BY <1>1, <1>2, <2>2
  <2>3. QED BY <1>2, <2>1, <2>2
<1>4. QED BY <1>3 DEF Answered, a, c

\* A fade that ends with the session being locked leaves its screen to the lock. No "show"
\* of its own is left in the queue.
LEMMA AnsweredByLock ==
  ASSUME NEW queue, NEW fade, NEW last, NEW screen, NEW session,
         Answered(queue, fade, last, screen, session), NoShow(queue, last),
         NEW next, next # "none"
  PROVE  Answered(queue, {}, last, screen, next)
BY DEF Answered, NoShow

\* The screen something has to answer for: not the overlay that a lock left behind.
Screen == IF forsaken THEN "none" ELSE dim

Dimmed == ~renewed /\ lockEnabled => Answered(closures, grace, generation, Screen, lock)

LEMMA InitDimmed == Init => Dimmed
BY DEF Init, Dimmed, Answered, Screen

LEMMA DimmedNext ==
  ASSUME NEW queue, NEW fade, NEW last, NEW screen, NEW session,
         Answered(queue, fade, last, screen, session),
         closures' = queue, grace' = fade, generation' = last, Screen' = screen, lock' = session
  PROVE  Dimmed'
BY DEF Dimmed, Answered, Followed, Hide

\* cancelActiveGrace() for a user who is back, and graceFadeComplete().
LEMMA CancelDims ==
  ASSUME QueuesOK, Answered(closures, grace, generation, Screen, lock), CancelGrace(TRUE),
         Screen' = Screen, lock' = lock
  PROVE  Dimmed'
<1>1. CASE grace = {}
  BY <1>1, DimmedNext DEF CancelGrace, graceVars
<1>2. CASE grace # {}
  <2>1. closures' = closures \o <<Hide>>
    BY <1>2 DEF CancelGrace, GraceEnd
  <2>2. Answered(closures \o <<Hide>>, grace', generation', Screen, lock)
    BY AnsweredByHide DEF QueuesOK
  <2>3. QED BY <2>1, <2>2, DimmedNext
<1>3. QED BY <1>1, <1>2

LEMMA CompleteDims ==
  ASSUME NEW queue \in Seq(Closure), lockEnabled, Answered(queue, grace, generation, Screen, lock),
         NoShow(queue, generation), GraceFadeComplete(queue), Screen' = Screen
  PROVE  Dimmed'
<1>1. CASE grace = {}
  BY <1>1, DimmedNext DEF GraceFadeComplete, graceVars
<1>2. CASE grace # {}
  <2>1. PICK ok \in Outcomes(grace) :
          /\ RunActions(grace, ok)
          /\ closures' = queue \o FlushAfter(grace, ok)
                               \o GraceEnd(FALSE, \E b \in grace \cap Locks : ok[b])
          /\ grace' = {} /\ generation' = generation
    BY <1>2 DEF GraceFadeComplete
  <2> DEFINE f == FlushAfter(grace, ok)
             locking == \E b \in grace \cap Locks : ok[b]
  <2>2. f \in {<<Hide>>, <<Flush>>, <<>>} /\ f \in Seq(Closure)
    BY FlushAfterIs
  <2>3. CASE locking
    <3>1. lock' # "none"
      BY <2>1, <2>3 DEF RunActions, LocksNow
    <3>2. closures' = queue \o f
      <4>1. GraceEnd(FALSE, locking) = <<>>
        BY <2>3 DEF GraceEnd
      <4>2. closures' = (queue \o f) \o <<>>
        BY <2>1, <4>1
      <4> HIDE DEF f, locking
      <4>3. QED BY <2>2, <4>2
    <3> HIDE DEF f, locking
    <3>3. Answered(queue, {}, generation, Screen, lock')
      BY <3>1, AnsweredByLock
    <3>4. Answered(queue \o f, {}, generation, Screen, lock')
      BY <2>2, <3>3, AnsweredMore
    <3>5. QED BY <2>1, <3>2, <3>4, DimmedNext
  <2>4. CASE ~locking
    <3>1. closures' = (queue \o f) \o <<Hide>>
      <4>1. GraceEnd(FALSE, locking) = <<Hide>>
        BY <2>4 DEF GraceEnd
      <4>2. QED BY <2>1, <4>1
    <3> HIDE DEF f, locking
    <3>2. queue \o f \in Seq(Closure)
      BY <2>2
    <3>3. Answered((queue \o f) \o <<Hide>>, {}, generation, Screen, lock')
      BY <3>2, AnsweredByHide
    <3>4. QED BY <2>1, <3>1, <3>3, DimmedNext
  <2>5. QED BY <2>3, <2>4
<1>3. QED BY <1>1, <1>2

LEMMA NextDimmed == TypeOK /\ GraceIsFading /\ Once /\ Dimmed /\ [Next]_vars => Dimmed'
<1> SUFFICES ASSUME QueuesOK, FadeOK, RestOK, InhibitOK, GraceIsFading, Once, Dimmed,
                    [Next]_vars, ~renewed', lockEnabled'
             PROVE  Dimmed'
  BY TypeParts DEF Dimmed
<1> USE DEF graceVars, overlayVars, configVars
\* Neither a reload nor the end of an inhibit has made the notifications anew.
<1>1. CASE Reload
  BY <1>1 DEF Reload
<1>2. ASSUME UNCHANGED <<renewed, lockEnabled>>
      PROVE  /\ Answered(closures, grace, generation, Screen, lock) /\ lockEnabled
             /\ closures \in Seq(Closure) /\ generation \in Nat
             /\ ShownOnce(closures, onFadeDone, generation)
  BY <1>2 DEF Dimmed, QueuesOK, FadeOK, Once
<1>3. ASSUME UNCHANGED <<renewed, lockEnabled, closures, grace, generation, Screen, lock>>
      PROVE  Dimmed'
  BY <1>2, <1>3, DimmedNext
<1>4. ASSUME NEW b \in Behaviors, BeginFade(b) PROVE Dimmed'
  <2>1. /\ closures' = Append(closures, Show(generation + 1)) /\ generation' = generation + 1
        /\ UNCHANGED <<renewed, lockEnabled, Screen, lock>> /\ grace = {} /\ grace' # {}
    BY <1>4 DEF BeginFade, JoinGrace, Screen
  <2>2. Answered(closures, {}, generation, Screen, lock) /\ closures \in Seq(Closure)
    BY <1>2, <2>1
  <2>3. Answered(Append(closures, Show(generation + 1)), grace', generation + 1, Screen, lock)
    BY <2>1, <2>2, AnsweredBegin DEF FadeOK
  <2>4. QED BY <2>1, <2>3, DimmedNext
<1>5. ASSUME NEW b \in Behaviors, JoinFade(b) PROVE Dimmed'
  <2>1. /\ grace # {} /\ grace' = grace \union {b} /\ grace' # {}
        /\ UNCHANGED <<renewed, lockEnabled, closures, generation, Screen, lock>>
    BY <1>5 DEF JoinFade, JoinGrace, Screen
  <2>2. Answered(closures, grace', generation, Screen, lock)
    BY <1>2, <2>1 DEF Answered
  <2>3. QED BY <2>1, <2>2, DimmedNext
<1>6. ASSUME NEW b \in Behaviors, IdleAtOnce(b) PROVE Dimmed'
  <2>1. PICK ok \in Outcomes({b}) :
          RunActions({b}, ok) /\ closures' = closures \o FlushAfter({b}, ok)
    BY <1>6 DEF IdleAtOnce
  <2>2. UNCHANGED <<renewed, lockEnabled, grace, generation, Screen>>
    BY <1>6 DEF IdleAtOnce, Screen
  <2>3. lock # "none" => lock' # "none"
    BY <2>1 DEF RunActions
  <2>4. Answered(closures, grace, generation, Screen, lock')
    BY <1>2, <2>2, <2>3 DEF Answered
  <2>5. Answered(closures \o FlushAfter({b}, ok), grace, generation, Screen, lock')
    BY <2>4, FlushAfterIs, AnsweredMore DEF QueuesOK
  <2>6. QED BY <2>1, <2>2, <2>5, DimmedNext
<1>7. ASSUME NEW b \in Behaviors, CancelFade(b) PROVE Dimmed'
  BY <1>2, <1>7, CancelDims DEF CancelFade, Screen
<1>8. ASSUME NEW c \in Clients, Inhibit(c) \/ Uninhibit(c) \/ ClientLeaves(c)
      PROVE  Dimmed'
  <2>1. UNCHANGED <<renewed, closures, grace, generation>>
    BY <1>8 DEF Inhibit, Uninhibit, ClientLeaves, SetInhibitLocks
  <2>2. UNCHANGED <<lockEnabled, Screen, lock>>
    <3>1. UNCHANGED <<lockEnabled, dim, forsaken, lock>>
      BY <1>8 DEF Inhibit, Uninhibit, ClientLeaves
    <3>2. QED BY <3>1 DEF Screen
  <2>3. QED BY <1>3, <2>1, <2>2
<1>9. ASSUME NEW g \in Generations, ShowOverlay(g) PROVE Dimmed'
  <2>1. /\ closures # <<>> /\ Head(closures) = Show(g) /\ closures' = Tail(closures)
        /\ UNCHANGED <<renewed, lockEnabled, grace, generation, lock>>
    BY <1>9 DEF ShowOverlay, FrontClosure
  <2>2. Answered(Tail(closures), grace, generation, Screen', lock)
    BY <1>2, <2>1, KindsAre, AnsweredTail
  <2>3. QED BY <2>1, <2>2, DimmedNext
<1>10. ASSUME NEW g \in Generations, NEW c \in Closure, c.kind # "show",
              closures # <<>>, Head(closures) # Hide, closures' = Append(Tail(closures), c),
              UNCHANGED <<renewed, lockEnabled, grace, generation, Screen, lock>>
       PROVE  Dimmed'
  <2>1. Answered(Tail(closures), grace, generation, Screen, lock) /\ Tail(closures) \in Seq(Closure)
    BY <1>2, <1>10, AnsweredTail, TailIs
  <2>2. Answered(Append(Tail(closures), c), grace, generation, Screen, lock)
    BY <2>1, <1>10, AnsweredAppend
  <2>3. QED BY <1>10, <2>2, DimmedNext
<1>11. ASSUME NEW g \in Generations, ShowWithoutSurfaces(g) PROVE Dimmed'
  <2>1. /\ closures # <<>> /\ Head(closures) = Show(g) /\ closures' = Append(Tail(closures), Done(g))
        /\ UNCHANGED <<renewed, lockEnabled, grace, generation, Screen, lock>>
    BY <1>11 DEF ShowWithoutSurfaces, FrontClosure, Screen
  <2>2. Done(g) \in Closure /\ Done(g).kind # "show" /\ Show(g) # Hide
    BY KindsAre, ClosureTypes, IdleManagerAssumption DEF Generations
  <2>3. QED BY <1>10, <2>1, <2>2
<1>12. ASSUME NEW g \in Generations, RunDone(g) PROVE Dimmed'
  <2>1. /\ closures # <<>> /\ Head(closures) = Done(g) /\ closures' = Append(Tail(closures), Check(g))
        /\ UNCHANGED <<renewed, lockEnabled, grace, generation, Screen, lock>>
    BY <1>12 DEF RunDone, FrontClosure, Screen
  <2>2. Check(g) \in Closure /\ Check(g).kind # "show" /\ Done(g) # Hide
    BY KindsAre, ClosureTypes, IdleManagerAssumption DEF Generations
  <2>3. QED BY <1>10, <2>1, <2>2
<1>13. ASSUME NEW g \in Generations, RunCheck(g) PROVE Dimmed'
  <2>1. /\ closures # <<>> /\ Head(closures) = Check(g)
        /\ UNCHANGED <<renewed, lockEnabled, Screen>>
    BY <1>13 DEF RunCheck, FrontClosure, Screen
  <2>2. /\ Answered(Tail(closures), grace, generation, Screen, lock)
        /\ Tail(closures) \in Seq(Closure) /\ lockEnabled
    BY <1>2, <2>1, KindsAre, AnsweredTail, TailIs
  <2>3. CASE generation = g
    <3>1. NoShow(Tail(closures), generation)
      BY <1>2, <2>1, <2>3, KindsAre, OnceTail DEF Numbered
    <3>2. QED BY <1>13, <2>1, <2>2, <2>3, <3>1, CompleteDims DEF RunCheck
  <2>4. CASE generation # g
    BY <1>13, <2>1, <2>2, <2>4, DimmedNext DEF RunCheck
  <2>5. QED BY <2>3, <2>4
<1>14. CASE FallbackFires
  <2>1. generation = fallback /\ grace # {} /\ UNCHANGED <<renewed, lockEnabled, Screen>>
    BY <1>14 DEF FallbackFires, GraceIsFading, Screen
  <2>2. NoShow(closures, generation)
    <3>1. \A i \in 1..Len(closures) : closures[i] # Show(generation) /\ closures[i] \in Closure
      <4>1. \A i \in 1..Len(closures) : closures[i] # Show(fallback)
        BY <1>14 DEF FallbackFires
      <4>2. \A i \in 1..Len(closures) : closures[i] \in Closure
        BY DEF QueuesOK
      <4>3. Show(fallback) = Show(generation)
        BY <2>1 DEF Show
      <4>4. QED BY <4>1, <4>2, <4>3
    <3>2. ASSUME NEW c \in Closure, c.kind = "show", c.generation = generation
          PROVE  c = Show(generation)
      <4>1. c = Show(c.generation)
        BY <3>2, KindsAre
      <4>2. QED BY <3>2, <4>1 DEF Show
    <3>3. QED BY <3>1, <3>2 DEF NoShow
  <2>3. QED BY <1>2, <1>14, <2>1, <2>2, CompleteDims DEF FallbackFires
<1>15. CASE RunHide
  <2>1. /\ closures # <<>> /\ closures' = Tail(closures) /\ Screen' = "none"
        /\ UNCHANGED <<renewed, lockEnabled, grace, generation, lock>>
    BY <1>15 DEF RunHide, FrontClosure, HideOverlay, Screen
  <2>2. Answered(Tail(closures), grace, generation, "none", lock)
    BY <1>2, <2>1, AnsweredTail
  <2>3. QED BY <2>1, <2>2, DimmedNext
<1>16. CASE LockRequestSent
  <2>1. /\ closures # <<>> /\ Head(closures) = Flush /\ closures' = Tail(closures)
        /\ UNCHANGED <<renewed, lockEnabled, grace, generation, Screen>>
        /\ lock # "none" => lock' # "none"
    BY <1>16 DEF LockRequestSent, FrontClosure, Screen
  <2>2. Answered(Tail(closures), grace, generation, Screen, lock)
    BY <1>2, <2>1, KindsAre, AnsweredTail
  <2>3. Answered(Tail(closures), grace, generation, Screen, lock')
    BY <2>1, <2>2 DEF Answered
  <2>4. QED BY <2>1, <2>3, DimmedNext
<1>17. CASE OutputsChange \/ SessionLocked \/ SessionUnlocked
  <2>1. Screen' = "none" /\ UNCHANGED <<renewed, lockEnabled, closures, grace, generation>>
    BY <1>17 DEF OutputsChange, SessionLocked, SessionUnlocked, HideOverlay, Screen
  <2>2. Answered(closures, grace, generation, "none", lock')
    BY <1>2, <2>1 DEF Answered
  <2>3. QED BY <2>1, <2>2, DimmedNext
<1>18. CASE FadeFinishes
  <2>1. /\ Screen' # "none" => Screen # "none"
        /\ UNCHANGED <<renewed, lockEnabled, grace, generation, lock>>
    BY <1>18 DEF FadeFinishes, Screen
  <2>2. Answered(closures, grace, generation, Screen', lock)
    BY <1>2, <2>1 DEF Answered
  <2>3. CASE onFadeDone = 0
    BY <1>18, <2>1, <2>2, <2>3, DimmedNext DEF FadeFinishes
  <2>4. CASE onFadeDone # 0
    <3>1. closures' = Append(closures, Check(onFadeDone))
      BY <1>18, <2>4 DEF FadeFinishes
    <3>2. Check(onFadeDone) \in Closure /\ Check(onFadeDone).kind # "show"
      BY KindsAre, ClosureTypes DEF RestOK
    <3>3. Answered(Append(closures, Check(onFadeDone)), grace, generation, Screen', lock)
      BY <2>2, <3>2, AnsweredAppend DEF QueuesOK
    <3>4. QED BY <2>1, <3>1, <3>3, DimmedNext
  <2>5. QED BY <2>3, <2>4
<1>19. ASSUME NEW b \in Behaviors,
              \/ CompositorIdled(b) \/ CompositorResumed(b) \/ SuppressIdled(b)
              \/ Resume(b) \/ IgnoreEvent(b)
       PROVE  Dimmed'
  <2>1. UNCHANGED <<renewed, lockEnabled, closures, grace, generation, dim, forsaken, lock>>
    BY <1>19 DEF CompositorIdled, CompositorResumed, SuppressIdled, Resume, IgnoreEvent
  <2>2. QED BY <1>3, <2>1 DEF Screen
<1>20. CASE UserInput \/ DiscardEvent \/ UNCHANGED vars
  <2>1. UNCHANGED <<renewed, lockEnabled, closures, grace, generation, dim, forsaken, lock>>
    BY <1>20 DEF UserInput, DiscardEvent, vars
  <2>2. QED BY <1>3, <2>1 DEF Screen
<1>21. ASSUME NEW g \in Generations, ShowOnOtherOutputs(g) PROVE Dimmed'
  <2>1. /\ closures # <<>> /\ Head(closures) = Show(g) /\ closures' = Tail(closures)
        /\ UNCHANGED <<renewed, lockEnabled, grace, generation, lock>>
    BY <1>21 DEF ShowOnOtherOutputs, FrontClosure
  <2>2. Answered(Tail(closures), grace, generation, Screen', lock)
    BY <1>2, <2>1, KindsAre, AnsweredTail
  <2>3. QED BY <2>1, <2>2, DimmedNext
\* The lock no longer answers for the screen, and nothing does.
<1>22. CASE PendingUnlocked
  <2>1. Screen' = "none" /\ UNCHANGED <<renewed, lockEnabled, closures, grace, generation>>
    BY <1>22 DEF PendingUnlocked, Screen
  <2>2. Answered(closures, grace, generation, "none", lock')
    BY <1>2, <2>1 DEF Answered
  <2>3. QED BY <2>1, <2>2, DimmedNext
<1>23. QED
  BY <1>1, <1>4, <1>5, <1>6, <1>7, <1>8, <1>9, <1>11, <1>12, <1>13, <1>14, <1>15, <1>16,
     <1>17, <1>18, <1>19, <1>20, <1>21, <1>22 DEF Next

LEMMA DimmedImplies == Dimmed => (~renewed => DimEnds)
<1> SUFFICES ASSUME Dimmed, ~renewed, lockEnabled, grace = {}, closures = <<>>, lock = "none",
                    ~forsaken
             PROVE  dim = "none"
  BY DEF DimEnds
<1>1. ~Followed(closures, 0)
  BY DEF Followed
<1>2. QED BY <1>1 DEF Dimmed, Answered, Screen

\* Whichever way an idle period goes, cancelled, joined, locked or completed, on the overlay
\* or on the fallback timer, the dimming ends and each action that ran is resumed.
THEOREM IdlingAlwaysUndone == Spec => []IdlingIsUndone
<1>1. TypeOK /\ GraceIsFading /\ Once /\ [Next]_vars => Once'
  BY NextOnce
<1>2. Spec => []Once
  BY <1>1, InitOnce, IInvHolds, PTL DEF Spec, IInv
<1>3. TypeOK /\ GraceIsFading /\ Once /\ Dimmed /\ [Next]_vars => Dimmed'
  BY NextDimmed
<1>4. Spec => []Dimmed
  BY <1>2, <1>3, InitDimmed, IInvHolds, PTL DEF Spec, IInv
<1>5. TypeOK /\ GraceIsFading /\ OwedAreIdled /\ [Next]_vars => OwedAreIdled'
  BY NextOwed
<1>6. Spec => []OwedAreIdled
  BY <1>5, InitOwed, IInvHolds, PTL DEF Spec, IInv
<1>7. IInv /\ Dimmed /\ OwedAreIdled => IdlingIsUndone
  BY DimmedImplies, OwedImplies DEF IInv, IdlingIsUndone
<1>8. QED BY <1>4, <1>6, <1>7, IInvHolds, PTL
===============================================================================
