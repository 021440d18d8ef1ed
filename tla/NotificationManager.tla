-------------------------- MODULE NotificationManager --------------------------
(***************************************************************************)
(* The notification store (notification/notification_manager.cpp) between  *)
(* its D-Bus clients (dbus/notification/notification_service.cpp), the     *)
(* toasts and the history tab, with the history file                       *)
(* (notification/notification_history_store.cpp).                          *)
(*                                                                         *)
(* A client is told once, by NotificationClosed, that a notification is    *)
(* over. An expired notification with actions stays in the history, where  *)
(* the user can still invoke them, and its signal is deferred until then.  *)
(* Time is abstract: a notification on display may expire at any moment.   *)
(* A closure that loops over notifications is one step per notification.   *)
(***************************************************************************)
EXTENDS Naturals, Sequences

CONSTANTS
  Contents,     \* what notifications say and who sends them
  Filters,      \* what the configured filters may answer: [toast, history, later: BOOLEAN]
  MaxHistory,   \* kMaxHistoryEntries
  MaxId,        \* bound: ids handed out
  MaxRestarts   \* bound: restarts of the shell

ASSUME NotificationAssumption ==
  /\ Filters \subseteq [toast : BOOLEAN, history : BOOLEAN, later : BOOLEAN]
  /\ MaxHistory \in Nat \ {0}
  /\ MaxId \in Nat /\ MaxRestarts \in Nat

VARIABLES
  live,         \* m_notifications, the oldest first
  history,      \* m_history, the oldest first
  pending,      \* m_pendingDBusClose
  suppressed,   \* m_suppressedIds
  nextId,       \* m_nextId
  persist,      \* m_persistScheduled
  disk,         \* notification_history.json
  restarts,     \* restarts so far
  \* history
  durable,      \* ids handed out, by this shell or an earlier one, before its last save
  \* history of this run of the shell
  given,        \* ids handed out
  silenced,     \* suppressed ids that were closed or taken over
  unlisted,     \* ids that expired and that the history does not have
  signals       \* NotificationClosed signals per id

storeVars   == <<live, history, pending, signals, persist>>
environment == <<disk, restarts, durable>>
ids         == <<suppressed, nextId, given, silenced, unlisted>>
vars        == <<storeVars, environment, ids>>

Ids          == 1..MaxId

\* A notification of low urgency is treated like a transient one.
Notification == [id : Ids, content : Contents, transient : BOOLEAN, actions : BOOLEAN]
HistoryEntry == [id : Ids, actions : BOOLEAN]

IdsOf(seq) == {seq[i].id : i \in DOMAIN seq}

\* The entry of an id, found by the index, and the sequence with that entry erased.
Position(seq, id) == CHOOSE i \in DOMAIN seq : seq[i].id = id
Entry(seq, id)    == seq[Position(seq, id)]
Without(seq, id) ==
  IF id \notin IdsOf(seq) THEN seq
  ELSE [i \in 1..(Len(seq) - 1) |-> IF i < Position(seq, id) THEN seq[i] ELSE seq[i + 1]]

-----------------------------------------------------------------------------
(* The store's helpers, from one value of its fields to the next.          *)
Store == [live |-> live, history |-> history, pending |-> pending, signals |-> signals,
          persist |-> persist]

Becomes(s) ==
  /\ live' = s.live /\ history' = s.history /\ pending' = s.pending
  /\ signals' = s.signals /\ persist' = s.persist

\* emitPendingDBusClose().
EmitPending(s, id) ==
  IF id \in s.pending
  THEN [s EXCEPT !.pending = @ \ {id}, !.signals[id] = @ + 1] ELSE s

\* Mutant: the old entry of the notification stays.
Upserted_KeepsOld(s, n) == Append(s.history, [id |-> n.id, actions |-> n.actions])

\* The entries with that of a notification new or moved to the end.
Upserted(s, n) == Append(Without(s.history, n.id), [id |-> n.id, actions |-> n.actions])

\* Mutant: off by one at the limit.
UpsertHistory_OneMore(s, n) ==
  LET grown == Upserted(s, n)
  IN IF Len(grown) > MaxHistory + 1
     THEN [EmitPending(s, grown[1].id) EXCEPT !.history = Tail(grown), !.persist = TRUE]
     ELSE [s EXCEPT !.history = grown, !.persist = TRUE]

\* Mutant: an evicted entry takes its deferred signal with it.
UpsertHistory_EvictsSilently(s, n) ==
  LET grown == Upserted(s, n)
  IN [s EXCEPT !.history = IF Len(grown) > MaxHistory THEN Tail(grown) ELSE grown,
               !.persist = TRUE]

\* upsertHistory(): the oldest entry makes room, and with it its deferred signal.
UpsertHistory(s, n) ==
  LET grown == Upserted(s, n)
  IN IF Len(grown) > MaxHistory
     THEN [EmitPending(s, grown[1].id) EXCEPT !.history = Tail(grown), !.persist = TRUE]
     ELSE [s EXCEPT !.history = grown, !.persist = TRUE]

\* removeHistoryEntry().
RemoveHistoryEntry(s, id) ==
  IF id \notin IdsOf(s.history) THEN s
  ELSE [EmitPending(s, id) EXCEPT !.history = Without(@, id), !.persist = TRUE]

\* evaluateExternalDispatch(): what a filter makes of a notification that arrives.
SavesHistory(filter, transient)    == filter.history /\ ~transient
FullySuppressed(filter, transient) == ~filter.toast /\ ~SavesHistory(filter, transient)

\* shouldSaveNotificationToHistory(): the filters are asked again at its close, without its
\* text and urgency, so another rule may match.
SavesWhenClosed(later, n) == later /\ ~n.transient

\* Mutant: the deferred signal is sent as well.
CloseLive_SignalsAndDefers(s, id, reason, later) ==
  LET n       == Entry(s.live, id)
      kept    == CASE SavesWhenClosed(later, n) /\ reason = "dismissed" ->
                        RemoveHistoryEntry(s, id)
                   [] SavesWhenClosed(later, n) /\ reason # "dismissed" -> UpsertHistory(s, n)
                   [] OTHER -> s
      defer   == reason = "expired" /\ n.actions
  IN [kept EXCEPT !.live = Without(@, id), !.signals[id] = @ + 1,
                  !.pending = IF defer THEN @ \union {id} ELSE @]

\* Mutant: the close of a notification stores no entry.
CloseLive_StoresNothing(s, id, reason, later) ==
  LET n       == Entry(s.live, id)
      kept    == IF SavesWhenClosed(later, n) /\ reason = "dismissed"
                 THEN RemoveHistoryEntry(s, id) ELSE s
      closed  == [kept EXCEPT !.live = Without(@, id)]
  IN IF reason = "expired" /\ n.actions
     THEN [closed EXCEPT !.pending = @ \union {id}]
     ELSE [closed EXCEPT !.signals[id] = @ + 1]

\* close() of a notification on display.
CloseLive(s, id, reason, later) ==
  LET n       == Entry(s.live, id)
      kept    == CASE SavesWhenClosed(later, n) /\ reason = "dismissed" ->
                        RemoveHistoryEntry(s, id)
                   [] SavesWhenClosed(later, n) /\ reason # "dismissed" -> UpsertHistory(s, n)
                   [] OTHER -> s
      closed  == [kept EXCEPT !.live = Without(@, id)]
  IN IF reason = "expired" /\ n.actions
     THEN [closed EXCEPT !.pending = @ \union {id}]
     ELSE [closed EXCEPT !.signals[id] = @ + 1]

-----------------------------------------------------------------------------
Init ==
  /\ live = <<>> /\ history = <<>> /\ pending = {} /\ suppressed = {}
  /\ nextId = 1
  /\ persist = FALSE
  /\ disk = [history |-> <<>>, nextId |-> 1]
  /\ restarts = 0
  /\ durable = {} /\ given = {} /\ silenced = {} /\ unlisted = {}
  /\ signals = [id \in Ids |-> 0]

-----------------------------------------------------------------------------
(* Notify, by its outcome in addOrReplace(). A replaced id is one on       *)
(* display, a suppressed one, or one the store does not know.              *)

\* The id is on display: it is changed in place, also by a suppressing filter.
ReplaceLive(n, filter) ==
  /\ n.id \in IdsOf(live)
  /\ LET placed == [i \in DOMAIN live |-> IF live[i].id = n.id THEN n ELSE live[i]]
         s      == [Store EXCEPT !.live = placed]
     IN Becomes(IF SavesHistory(filter, n.transient) THEN UpsertHistory(s, n)
                ELSE RemoveHistoryEntry(s, n.id))
  /\ UNCHANGED <<environment, ids>>

\* suppressExternal().
SuppressNew(filter, transient) ==
  /\ FullySuppressed(filter, transient)
  /\ nextId <= MaxId
  /\ nextId' = nextId + 1
  /\ suppressed' = suppressed \union {nextId}
  /\ given' = given \union {nextId}
  /\ UNCHANGED <<storeVars, environment, silenced, unlisted>>

\* The id was suppressed and this notification is not: the id is forgotten.
ForgetSuppressed(replaced) ==
  /\ suppressed' = suppressed \ {replaced}
  /\ silenced' = silenced \union ({replaced} \intersect suppressed)

\* A notification on display says the same and is younger than a second.
IgnoreDuplicate(content, transient, replaced, filter) ==
  /\ ~FullySuppressed(filter, transient)
  /\ \E i \in DOMAIN live : live[i].content = content
  /\ ForgetSuppressed(replaced)
  /\ UNCHANGED <<storeVars, environment, nextId, given, unlisted>>

AddNew(content, transient, actions, replaced, filter) ==
  /\ ~FullySuppressed(filter, transient)
  /\ nextId <= MaxId
  /\ nextId' = nextId + 1
  /\ given' = given \union {nextId}
  /\ ForgetSuppressed(replaced)
  /\ LET n == [id |-> nextId, content |-> content, transient |-> transient,
               actions |-> actions]
         s == [Store EXCEPT !.live = Append(@, n)]
     IN Becomes(IF SavesHistory(filter, transient) THEN UpsertHistory(s, n) ELSE s)
  /\ UNCHANGED <<environment, unlisted>>

-----------------------------------------------------------------------------
(* The ends of a notification.                                             *)

\* The history has no entry for it, and its close makes none.
NeverListed(id, later) ==
  id \notin IdsOf(history) /\ ~SavesWhenClosed(later, Entry(live, id))

\* It expires, the user dismisses it (also by an action), or its client calls
\* CloseNotification.
CloseDisplayed(id, reason, later) ==
  /\ id \in IdsOf(live)
  /\ Becomes(CloseLive(Store, id, reason, later))
  /\ unlisted' = IF reason = "expired" /\ NeverListed(id, later)
                 THEN unlisted \union {id} ELSE unlisted
  /\ UNCHANGED <<environment, suppressed, nextId, given, silenced>>

\* CloseNotification of a suppressed id.
CloseSuppressed(id) ==
  /\ id \in suppressed
  /\ ForgetSuppressed(id)
  /\ UNCHANGED <<storeVars, environment, nextId, given, unlisted>>

\* CloseNotification of an expired one.
ClosePending(id) ==
  /\ id \in pending
  /\ Becomes(RemoveHistoryEntry(EmitPending(Store, id), id))
  /\ UNCHANGED <<environment, ids>>

\* invokeAction() on an entry of the history; on display it ends in close().
InvokeFromHistory(id) ==
  /\ id \in IdsOf(history) \intersect pending
  /\ Entry(history, id).actions
  /\ LET Used(e) == IF e.id = id THEN [e EXCEPT !.actions = FALSE] ELSE e
         s       == EmitPending(Store, id)
     IN Becomes([s EXCEPT !.history = [i \in DOMAIN @ |-> Used(@[i])], !.persist = TRUE])
  /\ UNCHANGED <<environment, ids>>

\* NotificationsTab::removeNotificationEntry().
RemoveFromTab(id, later) ==
  /\ id \in IdsOf(history)
  /\ LET s == IF id \in IdsOf(live) THEN CloseLive(Store, id, "dismissed", later) ELSE Store
     IN Becomes(RemoveHistoryEntry(s, id))
  /\ UNCHANGED <<environment, ids>>

\* clearHistory().
ClearHistory ==
  /\ history # <<>>
  /\ LET over == pending \intersect IdsOf(history)
     IN /\ pending' = pending \ over
        /\ signals' = [id \in Ids |-> IF id \in over THEN signals[id] + 1 ELSE signals[id]]
  /\ history' = <<>>
  /\ persist' = TRUE
  /\ UNCHANGED <<live, environment, ids>>

-----------------------------------------------------------------------------
(* The history file.                                                       *)

\* The deferred closure of schedulePersistHistory().
PersistHistory ==
  /\ persist
  /\ persist' = FALSE
  /\ disk' = [history |-> history, nextId |-> nextId]
  /\ durable' = durable \union given
  /\ UNCHANGED <<live, history, pending, signals, restarts, ids>>

\* Mutant: the next id is taken from the entries alone.
Restart_FromEntries(saved) ==
  /\ restarts < MaxRestarts
  /\ restarts' = restarts + 1
  /\ disk' = saved
  /\ history' = saved.history
  /\ nextId' \in {1} \union {id + 1 : id \in IdsOf(saved.history)}
  /\ \A id \in IdsOf(saved.history) : id < nextId'
  /\ live' = <<>> /\ pending' = {} /\ suppressed' = {}
  /\ persist' = FALSE
  /\ given' = {} /\ silenced' = {} /\ unlisted' = {} /\ signals' = [id \in Ids |-> 0]

\* loadPersistedHistory() of the next shell, which finds what was saved.
Restart(saved) ==
  /\ restarts < MaxRestarts
  /\ restarts' = restarts + 1
  /\ disk' = saved
  /\ history' = saved.history
  /\ nextId' \in {saved.nextId} \union {id + 1 : id \in IdsOf(saved.history)}
  /\ saved.nextId <= nextId' /\ \A id \in IdsOf(saved.history) : id < nextId'
  /\ live' = <<>> /\ pending' = {} /\ suppressed' = {}
  /\ persist' = FALSE
  /\ given' = {} /\ silenced' = {} /\ unlisted' = {} /\ signals' = [id \in Ids |-> 0]

\* Without flushPersistedHistory(), and with it; the signals it emits are this run's last.
Crash == Restart(disk) /\ UNCHANGED durable
Quit ==
  /\ Restart([history |-> history, nextId |-> nextId])
  /\ durable' = durable \union given

Next ==
  \/ \E filter \in Filters :
       \/ \E n \in Notification : ReplaceLive(n, filter)
       \/ \E transient \in BOOLEAN :
            \/ SuppressNew(filter, transient)
            \/ \E content \in Contents, replaced \in suppressed \union {0} :
                 \/ IgnoreDuplicate(content, transient, replaced, filter)
                 \/ \E actions \in BOOLEAN :
                      AddNew(content, transient, actions, replaced, filter)
  \/ \E id \in Ids, later \in {filter.later : filter \in Filters} :
       \/ \E reason \in {"expired", "dismissed", "called"} : CloseDisplayed(id, reason, later)
       \/ RemoveFromTab(id, later)
  \/ \E id \in Ids : CloseSuppressed(id) \/ ClosePending(id) \/ InvokeFromHistory(id)
  \/ ClearHistory
  \/ PersistHistory
  \/ Crash \/ Quit

Spec == Init /\ [][Next]_vars

-----------------------------------------------------------------------------
(* Properties.                                                             *)

Saved == [history : Seq(HistoryEntry), nextId : 1..(MaxId + 1)]

TypeOK ==
  /\ live \in Seq(Notification)
  /\ history \in Seq(HistoryEntry) /\ Len(history) <= MaxHistory
  /\ pending \subseteq Ids /\ suppressed \subseteq Ids
  /\ nextId \in 1..(MaxId + 1)
  /\ persist \in BOOLEAN
  /\ disk \in Saved
  /\ restarts \in 0..MaxRestarts
  /\ durable \subseteq Ids /\ given \subseteq Ids
  /\ silenced \subseteq Ids /\ unlisted \subseteq Ids
  /\ signals \in [Ids -> Nat]

Distinct(seq) == \A i, j \in DOMAIN seq : seq[i].id = seq[j].id => i = j

\* The store never confuses two notifications: an id is at most once on display and once in
\* the history, and the next id is above every id in use, deferred, suppressed or remembered, and
\* above every id handed out before the last save, by this shell or by one that is dead.
\* An id handed out since then by a shell that crashed is handed out again: a suppressed or
\* a transient notification saves nothing.
IdsNeverReused ==
  /\ Distinct(live) /\ Distinct(history)
  /\ \A id \in IdsOf(live) \union IdsOf(history) \union pending \union suppressed \union durable :
       id < nextId
  /\ \A id \in IdsOf(disk.history) : id < disk.nextId

\* Every id handed to a client has exactly one fate: it is on display, its signal is
\* deferred, its end was told, once, whatever closed, replaced, evicted or cleared it, or a
\* filter has suppressed it, and then nothing is ever told of it.
OneFate ==
  LET Holds(p) == IF p THEN 1 ELSE 0
  IN \A id \in given :
       signals[id] + Holds(id \in IdsOf(live)) + Holds(id \in pending)
         + Holds(id \in suppressed \union silenced) = 1

\* A deferred signal has an entry in the history that still offers the actions it is
\* deferred for, unless the notification expired without an entry and without one made then,
\* transient or filtered. Such a signal waits for its client to call CloseNotification, or
\* for the end of the shell.
DeferredIsActionable ==
  \A id \in pending \ unlisted :
    \E i \in DOMAIN history : history[i].id = id /\ history[i].actions

\* What a client is owed: one fate for each of its ids, and a deferred one that the user can
\* still bring about when the history took the notification.
ClientsAreAnswered == OneFate /\ DeferredIsActionable

\* A deferred signal does not outlive the entry it waits for, whether that is dismissed,
\* cleared, or evicted by another notification.
DeferredNotOrphaned ==
  [][\A id \in IdsOf(history) \ IdsOf(history') : id \notin pending']_vars

\* Whatever changes the history schedules a save: without one the file has it all.
HistorySaved == persist \/ disk.history = history

\* What the store relies on after a crash or a quit: no id that was handed out before a save
\* comes back, and no change of the history waits without a save under way.
RestartSafe == IdsNeverReused /\ HistorySaved
===============================================================================
