--------------------------- MODULE NotificationToast ---------------------------
(***************************************************************************)
(* The notification toasts (shell/notification/notification_toast.cpp): a  *)
(* stack of popups drawn on every output, and the expiry that the store    *)
(* (notification/notification_manager.cpp) keeps for each notification,    *)
(* which the toasts stop while a popup waits for room or lies under the    *)
(* pointer.                                                                *)
(*                                                                         *)
(* All popups share one placement, measured on the tallest output; each    *)
(* output has its own cards. Positions are counted from the edge where the *)
(* stack begins, and a height includes the gap below the card, so that the *)
(* module is about the positions at the top: at the bottom, a rebuilt      *)
(* scene also moves the whole stack to the edge. A handler is a function   *)
(* from states to states. The motion that a handler synthesizes for the    *)
(* pointer, when cards came or went under it, is the handler's last step,  *)
(* except where a replacement builds the cards of its popup anew: there    *)
(* each output's turn ends with its own motion, before the next output's.  *)
(***************************************************************************)
EXTENDS Integers, Sequences, SequencesExt

CONSTANTS
  Ids, NoId,    \* notifications; no notification
  Contents,     \* what a notification is: whether it has a timeout, the height of its cards with the gap
  Surfaces,     \* the heights of the outputs' surfaces, in the order of m_instances
  Collapse,     \* collapse_on_dismiss
  MaxUpdates,   \* bound: notifications that are replaced
  MaxDeferred,  \* bound: closures waiting when an animation ends or a scene is rebuilt
  MaxRebuilds   \* bound: scenes built again

Instances == DOMAIN Surfaces
Tallest   == Max({Surfaces[i] : i \in Instances})

ASSUME ToastAssumption ==
  /\ NoId \notin Ids
  /\ Surfaces \in Seq(Nat \ {0}) /\ Surfaces # <<>>
  /\ Contents \subseteq [timed : BOOLEAN, height : 1..Tallest]
  /\ Collapse \in BOOLEAN
  /\ {MaxUpdates, MaxDeferred, MaxRebuilds} \subseteq Nat

VARIABLES
  notes,      \* the store: each notification, what the toasts were told of it, whether its expiry runs
  pending,    \* m_pendingAdds
  order,      \* m_entries, the oldest first: ids
  popups,     \* what an entry says of its id
  scenes,     \* instances that have a surface with a scene
  cards,      \* of each instance: the card of an id and the animation that matters
  pointer,    \* where the pointer is: the instance, the card and its part
  deferred,   \* closures handed to DeferredCall::callLater
  updates,    \* number of replacements
  rebuilds,   \* number of scenes built again
  strayed     \* for the properties: ids replaced in a way the toasts do not follow

vars == <<notes, pending, order, popups, scenes, cards, pointer, deferred, updates, rebuilds,
          strayed>>

Queued == -1    \* kQueuedY

Note  == [life : {"new", "quiet", "live", "closed"}, timed : BOOLEAN, height : 0..Tallest, expiring : BOOLEAN]
\* finite: displayDurationMs is not -1. hovered, owners: hovered and hoverOwners.
Popup == [at : Queued .. Tallest, exiting : BOOLEAN, hovered : BOOLEAN, owners : Nat, finite : BOOLEAN]
\* hooked: the body of the card follows the pointer. finite: what its handlers captured.
\* moves: its countdown, if its end closes the popup, or its exit animation.
Card   == [hooked : BOOLEAN, finite : BOOLEAN, moves : {"no", "countdown", "exit"}]
NoCard == [hooked |-> FALSE, finite |-> FALSE, moves |-> "none"]
NoArea == [id |-> NoId, follows |-> FALSE]

NoNote == [life |-> "new", timed |-> FALSE, height |-> 0, expiring |-> FALSE]
Blank == [at |-> Queued, exiting |-> FALSE, hovered |-> FALSE, owners |-> 0, finite |-> FALSE]
Away  == [on |-> 0, area |-> NoArea]

\* The handlers read and change these as one.
State ==
  [notes |-> notes, pending |-> pending, order |-> order, popups |-> popups, scenes |-> scenes,
   cards |-> cards, pointer |-> pointer, deferred |-> deferred]

\* What a loop over ids makes of a state.
Each(Step(_, _), S, ids) ==
  LET run[k \in 0..Len(ids)] == IF k = 0 THEN S ELSE Step(run[k - 1], ids[k])
  IN run[Len(ids)]

\* The elements of a sequence that are in a set.
Those(seq, set) ==
  LET kept[k \in 0..Len(seq)] ==
        IF k = 0 THEN <<>> ELSE IF seq[k] \in set THEN Append(kept[k - 1], seq[k]) ELSE kept[k - 1]
  IN kept[Len(seq)]

(***************************** The placement *****************************)

In(S, id)    == id \in ToSet(S.order)
Placed(S)    == {id \in ToSet(S.order) : ~S.popups[id].exiting /\ S.popups[id].at # Queued}
Below(S, id) == S.popups[id].at + S.notes[id].height
Apart(S, a, b) == Below(S, a) <= S.popups[b].at \/ Below(S, b) <= S.popups[a].at

Gaps(S, h) ==
  {y \in {0} \cup {Below(S, p) : p \in Placed(S)} :
     /\ y + h <= Tallest
     /\ \A p \in Placed(S) : y + h <= S.popups[p].at \/ Below(S, p) <= y}

FindPlacement(S, h) == IF Gaps(S, h) = {} THEN Queued ELSE Min(Gaps(S, h))

CanKeepPlacement(S, id) ==
  Below(S, id) <= Tallest /\ \A p \in Placed(S) \ {id} : Apart(S, p, id)

Shows(S, i, id) == id \in Placed(S) /\ Below(S, id) <= Surfaces[i]
HasCard(S, id)  == \E i \in Instances : S.cards[i][id] # NoCard

(****************************** The expiry ******************************)

Pause(S, id)  == [S EXCEPT !.notes[id].expiring = FALSE]
Resume(S, id) == [S EXCEPT !.notes[id].expiring = S.notes[id].life = "live"]

\* The cards of one id, each changed on its own instance.
WithCards(S, id, New(_)) ==
  [S EXCEPT !.cards = [i \in Instances |-> [S.cards[i] EXCEPT ![id] = New(i)]]]

Stilled(c) == IF c # NoCard /\ c.moves = "countdown" THEN [c EXCEPT !.moves = "no"] ELSE c

PauseTimeout(S, id) ==
  Pause(WithCards(S, id, LAMBDA i : Stilled(S.cards[i][id])), id)

\* Of the countdowns only the first instance's has an end that closes the popup.
ResumeTimeout(S, id, finite) ==
  IF ~finite THEN S
  ELSE Resume(
    IF ~S.popups[id].finite THEN S
    ELSE WithCards(S, id, LAMBDA i :
           LET c == S.cards[i][id]
           IN IF c = NoCard \/ c.moves = "exit" THEN c
              ELSE [c EXCEPT !.moves = IF i = 1 THEN "countdown" ELSE "no"]), id)

(*********************** The stack: collapse, reveal ***********************)

NewCard(S, id) ==
  [hooked |-> TRUE, finite |-> S.popups[id].finite,
   moves |-> IF S.popups[id].finite /\ ~S.popups[id].hovered THEN "countdown" ELSE "no"]

\* What addCardToInstance and removeCardFromInstance leave of an entry's cards.
ShowCards(S, id) ==
  WithCards(S, id, LAMBDA i :
    IF i \in S.scenes /\ Shows(S, i, id)
    THEN IF S.cards[i][id] = NoCard THEN NewCard(S, id) ELSE S.cards[i][id]
    ELSE NoCard)

\* Mutant: every placed entry moves up.
Stays_Never(S, id) == FALSE

\* When the stack is packed, the entry under the pointer keeps its place.
Stays(S, id) == S.popups[id].hovered

\* Where the cursor of collapseStack stands when it has passed the entries in front of a position.
Cursor(S) ==
  LET cursor[y \in 0..Tallest] ==
        IF y = 0 THEN 0
        ELSE IF \A id \in Placed(S) : S.popups[id].at # y - 1 THEN cursor[y - 1]
        ELSE LET id == CHOOSE id \in Placed(S) : S.popups[id].at = y - 1
             IN IF Stays(S, id) THEN Max({cursor[y - 1], Below(S, id)})
                ELSE cursor[y - 1] + S.notes[id].height
  IN cursor

\* Packs the placed entries towards the edge.
CollapseStack(S) ==
  LET cursor == Cursor(S)
      moved  == {id \in Placed(S) : ~Stays(S, id)}
      packed == [id \in Ids |-> IF id \in moved THEN [S.popups[id] EXCEPT !.at = cursor[S.popups[id].at]]
                                                ELSE S.popups[id]]
  IN IF ~Collapse \/ packed = S.popups THEN S ELSE [S EXCEPT !.popups = packed]

Reveal(S, id) ==
  LET y == FindPlacement(S, S.notes[id].height)
      T == [S EXCEPT !.popups[id].at = y]
  IN IF S.popups[id].exiting \/ id \in Placed(S) \/ y = Queued THEN S
     ELSE ShowCards(IF S.notes[id].timed THEN Resume(T, id) ELSE T, id)

RevealQueuedEntries(S) == Each(Reveal, S, S.order)

\* hoverResetToken: an end of a hover that was superseded does nothing.
Unasked(S, id) == Those(S.deferred, {c \in ToSet(S.deferred) : c.call = "reset" => c.id # id})

ResetPopupHover(S, id, resume, finite) ==
  LET T == [S EXCEPT !.popups[id].hovered = FALSE, !.popups[id].owners = 0, !.deferred = Unasked(S, id)]
  IN RevealQueuedEntries(CollapseStack(IF resume THEN ResumeTimeout(T, id, finite) ELSE T))

SyncEntryVisibility(S, id) ==
  IF S.popups[id].exiting THEN S
  ELSE IF \E i \in Instances : S.cards[i][id] # NoCard /\ ~Shows(S, i, id)
       THEN ShowCards(ResetPopupHover(S, id, FALSE, FALSE), id)
       ELSE ShowCards(S, id)

SyncAll(S) == Each(SyncEntryVisibility, S, S.order)

(****************************** The pointer ******************************)

\* Mutant: the end of an earlier hover stays on its way.
BeginHover_KeepsReset(S, id) ==
  LET T == [S EXCEPT !.popups[id].owners = @ + 1]
  IN IF T.popups[id].owners = 1 /\ ~T.popups[id].hovered
     THEN PauseTimeout([T EXCEPT !.popups[id].hovered = TRUE], id) ELSE T

BeginHover(S, id) ==
  LET T == [S EXCEPT !.deferred = Unasked(S, id), !.popups[id].owners = @ + 1]
  IN IF T.popups[id].owners = 1 /\ ~T.popups[id].hovered
     THEN PauseTimeout([T EXCEPT !.popups[id].hovered = TRUE], id) ELSE T

\* Mutant: hoverOwners goes below zero.
EndHover_NoFloor(S, id, finite) ==
  LET T == [S EXCEPT !.popups[id].owners = @ - 1]
  IN IF T.popups[id].owners > 0 THEN T
     ELSE [T EXCEPT !.deferred = Append(Unasked(S, id), [call |-> "reset", id |-> id, finite |-> finite])]

\* The hover ends in a deferred call, unless the pointer is back by then.
EndHover(S, id, finite) ==
  LET T == [S EXCEPT !.popups[id].owners = Max({0, @ - 1})]
  IN IF T.popups[id].owners > 0 THEN T
     ELSE [T EXCEPT !.deferred = Append(Unasked(S, id), [call |-> "reset", id |-> id, finite |-> finite])]

\* The end of a hover on an instance that the pointer leaves.
Unhover(S, id) ==
  IF S.cards[S.pointer.on][id] # NoCard /\ (S.popups[id].hovered \/ S.popups[id].owners > 0)
  THEN ResetPopupHover(S, id, TRUE, S.popups[id].finite) ELSE S

\* The buttons of a card follow the pointer, and the rest of it if the card is hooked.
Areas(S, i) ==
  {NoArea} \cup {a \in [id : Ids, follows : BOOLEAN] :
                    S.cards[i][a.id] # NoCard /\ (S.cards[i][a.id].hooked => a.follows)}

Leave(S) ==
  LET p == S.pointer
      T == [S EXCEPT !.pointer.area = NoArea]
  IN IF p.area.follows THEN EndHover(T, p.area.id, S.cards[p.on][p.area.id].finite) ELSE T

PointAt(S, i, area) ==
  LET T == [Leave(S) EXCEPT !.pointer = [on |-> i, area |-> area]]
  IN IF area = S.pointer.area THEN S
     ELSE IF area.follows THEN BeginHover(T, area.id) ELSE T

\* What the motion synthesized at the end of a handler, from S to T, may find; the nodes of
\* the cards "rebuilt" are not those the pointer knew.
Motion(S, T, rebuilt) ==
  LET i    == T.pointer.on
      gone == rebuilt \cup {id \in Ids : S.cards[i][id] # NoCard /\ T.cards[i][id] = NoCard}
      came == {id \in Ids : S.cards[i][id] = NoCard /\ T.cards[i][id] # NoCard}
      U    == IF T.pointer.area.id \in gone THEN [T EXCEPT !.pointer.area = NoArea] ELSE T
  IN IF i = 0 THEN {T} ELSE IF gone \cup came = {} THEN {T}
     ELSE {PointAt(U, i, area) : area \in Areas(T, i)}

(*********************** Popups that come and go ***********************)

AddPopup(S, id) ==
  LET note == S.notes[id]
      y    == FindPlacement(S, note.height)
      T    == [S EXCEPT !.order = Append(@, id), !.popups[id] = [Blank EXCEPT !.at = y, !.finite = note.timed]]
  IN IF In(S, id) THEN S
     ELSE RevealQueuedEntries(SyncEntryVisibility(IF y = Queued THEN Pause(T, id) ELSE T, id))

\* Mutant: the queue is not looked at when a popup has gone.
FinishRemoval_NoReveal(S, id) ==
  LET T == [S EXCEPT !.order = Those(@, Ids \ {id}), !.popups[id] = Blank,
                     !.cards = [i \in Instances |-> [S.cards[i] EXCEPT ![id] = NoCard]]]
  IN IF ~In(S, id) THEN S
     ELSE IF T.order = <<>> THEN [T EXCEPT !.scenes = {}, !.pointer = Away]
     ELSE SyncAll(CollapseStack(T))

FinishRemoval(S, id) ==
  LET T == [S EXCEPT !.order = Those(@, Ids \ {id}), !.popups[id] = Blank,
                     !.cards = [i \in Instances |-> [S.cards[i] EXCEPT ![id] = NoCard]]]
  IN IF ~In(S, id) THEN S
     ELSE IF T.order = <<>> THEN [T EXCEPT !.scenes = {}, !.pointer = Away]
     ELSE SyncAll(RevealQueuedEntries(CollapseStack(T)))

Orphan(S, id) == IF In(S, id) /\ S.popups[id].exiting /\ ~HasCard(S, id) THEN FinishRemoval(S, id) ELSE S

DismissPopup(S, id) ==
  LET T == [S EXCEPT !.popups[id].exiting = TRUE]
  IN IF ~HasCard(S, id) THEN FinishRemoval(T, id)
     ELSE WithCards(T, id, LAMBDA i :
            IF S.cards[i][id] = NoCard THEN NoCard ELSE [S.cards[i][id] EXCEPT !.moves = "exit"])

RemovePopup(S, id) == IF In(S, id) /\ ~S.popups[id].exiting THEN DismissPopup(S, id) ELSE S

\* NotificationManager::close and the event it sends.
CloseNote(S, id) ==
  RemovePopup([S EXCEPT !.notes[id] = [NoNote EXCEPT !.life = "closed"],
                        !.pending = Those(@, Ids \ {id})], id)

RequestClose(S, id) == IF S.notes[id].life = "live" THEN CloseNote(S, id) ELSE RemovePopup(S, id)

\* The pointer is on no card that has gone.
Seen(S) ==
  IF S.pointer.on # 0 /\ S.pointer.area \notin Areas(S, S.pointer.on)
  THEN [S EXCEPT !.pointer.area = NoArea] ELSE S

\* One instance's turn in an update. "layout": its card is built anew, which starts with the end of
\* the hover and ends with a motion of the pointer, to "area" if that is there.
UpdateCard(S, id, i, layout, was, area) ==
  LET R     == IF layout THEN ResetPopupHover(S, id, FALSE, FALSE) ELSE S
      timed == S.notes[id].timed
      \* A new card is built before the entry has its new duration.
      card  == IF layout THEN [hooked |-> FALSE, finite |-> R.popups[id].finite, moves |-> "no"] ELSE R.cards[i][id]
      T == [R EXCEPT !.cards[i][id] = [card EXCEPT !.moves = IF timed /\ ~was.hovered THEN "countdown" ELSE "no"],
                     !.popups[id].finite = timed]
      U == Seen(IF T.pointer.area.id = id THEN [T EXCEPT !.pointer.area = NoArea] ELSE T)
  IN IF S.cards[i][id] = NoCard THEN S
     ELSE IF ~layout THEN T
     ELSE IF T.pointer.on # i THEN Seen(T)
     ELSE PointAt(U, i, IF area \in Areas(U, i) THEN area ELSE NoArea)

\* A popup with new contents, from the state the store has reached, up to the end of the loop over
\* the instances.
Redone(S, id, layout, area) ==
  LET was == S.popups[id]
      S1 == IF id \in Placed(S) /\ ~CanKeepPlacement(S, id)
            THEN Pause([S EXCEPT !.popups[id].at = Queued], id) ELSE S
      S2 == Each(LAMBDA T, i : UpdateCard(T, id, i, layout, was, area), S1, [i \in Instances |-> i])
  IN IF was.hovered THEN Pause(S2, id) ELSE S2

\* What an update of S may leave when the loop over the instances has made P of it; "resized" when
\* the height of the popup is another.
Updated(S, P, id, resized) ==
  LET Q    == SyncEntryVisibility(P, id)
      i    == P.pointer.on
      gone == i # 0 /\ P.cards[i][id] # NoCard /\ Q.cards[i][id] # P.cards[i][id]
  IN IF id \in Placed(P) /\ ~resized THEN Motion(S, P, {})
     ELSE Motion(S, RevealQueuedEntries(Q), IF gone THEN {id} ELSE {})

(******************************** Actions ********************************)

Init ==
  /\ notes = [id \in Ids |-> NoNote]
  /\ pending = <<>> /\ order = <<>> /\ deferred = <<>>
  /\ popups = [id \in Ids |-> Blank]
  /\ scenes = {}
  /\ cards = [i \in Instances |-> [id \in Ids |-> NoCard]]
  /\ pointer = Away
  /\ updates = 0 /\ rebuilds = 0 /\ strayed = {}

Becomes(S) ==
  /\ notes' = S.notes /\ pending' = S.pending /\ order' = S.order /\ popups' = S.popups
  /\ scenes' = S.scenes /\ cards' = S.cards /\ pointer' = S.pointer /\ deferred' = S.deferred

Reaches(S) ==
  /\ Becomes(S) /\ UNCHANGED <<updates, rebuilds>>
  /\ strayed' = {id \in strayed : S.notes[id].life = "live" \/ In(S, id)}
Handles(S) == \E T \in Motion(State, S, {}) : Reaches(T)
HasRoom     == Len(deferred) < MaxDeferred

\* A notification arrives; with do-not-disturb on the toasts ignore it for good.
Notify(id) ==
  /\ notes[id].life = "new"
  /\ \/ Reaches([State EXCEPT !.notes[id].life = "quiet"])
     \/ \E c \in Contents :
          LET note == [life |-> "live", timed |-> c.timed, height |-> c.height, expiring |-> c.timed]
              scheduled == \E k \in DOMAIN deferred : deferred[k].call = "flush"
          IN Reaches([State EXCEPT !.notes[id] = note, !.pending = Append(@, id),
                                   !.deferred = IF scheduled THEN @ ELSE Append(@, [call |-> "flush"])])

\* Its client replaces it: the store starts its expiry anew, and tells the toasts only of a change,
\* and only if its filters show the toasts. "area" is where the pointer is on the output it is on,
\* should the update build the cards anew.
Replace(id) ==
  /\ notes[id].life = "live" /\ updates < MaxUpdates
  /\ \E c \in Contents, text, shown \in BOOLEAN, area \in {NoArea} \cup [id : Ids, follows : BOOLEAN] :
       LET resized == c.height # notes[id].height
           retimed == c.timed # notes[id].timed
           told == shown /\ (text \/ retimed)
           S == IF told
                THEN [State EXCEPT !.notes[id] = [life |-> "live", timed |-> c.timed, height |-> c.height,
                                                  expiring |-> c.timed]]
                ELSE [State EXCEPT !.notes[id].expiring = c.timed]
           popup == In(S, id) /\ id \notin ToSet(pending)
           P == Redone(S, id, text, area)
       IN /\ resized => text
          /\ IF told /\ popup THEN \E T \in Updated(S, P, id, resized) : Becomes(T) ELSE Becomes(S)
          /\ updates' = updates + 1
          /\ strayed' = strayed \cup
               IF \/ popup /\ (popups[id].at = Queued \/ popups[id].hovered \/ retimed)
                  \/ popup /\ shown /\ text /\ area = [id |-> id, follows |-> TRUE]
                  \/ ~told /\ retimed
               THEN {id} ELSE {}
          /\ UNCHANGED rebuilds

\* The store's expiry; a click, an action or the client itself.
Expire(id) == notes[id].expiring /\ Handles(CloseNote(State, id))
Close(id)  == notes[id].life = "live" /\ Handles(CloseNote(State, id))

CountdownEnds(i, id) ==
  /\ cards[i][id].moves = "countdown" /\ HasRoom
  /\ Reaches([State EXCEPT !.cards[i][id].moves = "no", !.deferred = Append(@, [call |-> "close", id |-> id])])

ExitEnds(i, id) ==
  /\ cards[i][id].moves = "exit" /\ HasRoom
  /\ Reaches([State EXCEPT !.cards[i][id].moves = "no", !.deferred = Append(@, [call |-> "remove", id |-> id])])

\* exitFallbackTimer: an exit animation whose frames do not come.
Fallback(id) == In(State, id) /\ popups[id].exiting /\ Handles(FinishRemoval(State, id))

\* The first frame of a surface builds its scene; requestLayout has it built again.
Build(i) ==
  /\ order # <<>> /\ HasRoom
  /\ i \in scenes => rebuilds < MaxRebuilds
  /\ rebuilds' = IF i \in scenes THEN rebuilds + 1 ELSE rebuilds
  /\ LET exiting == {id \in ToSet(order) : popups[id].exiting}
         S == IF pointer.on = i THEN Leave(State) ELSE State
         T == [S EXCEPT !.scenes = @ \cup {i},
                        !.cards[i] = [id \in Ids |-> IF Shows(S, i, id) THEN NewCard(S, id) ELSE NoCard]]
         U == IF exiting = {} THEN T ELSE [T EXCEPT !.deferred = Append(@, [call |-> "orphans", ids |-> exiting])]
     IN /\ \E V \in Motion(S, U, IF pointer.on = i THEN Ids ELSE {}) : Becomes(V)
        /\ UNCHANGED <<updates, strayed>>

\* The pointer moves over a surface, onto another card or off it.
Point(i) ==
  /\ i \in scenes /\ pointer.on \in {0, i}
  /\ \E area \in Areas(State, i) : Reaches(PointAt(State, i, area))

Depart ==
  /\ pointer.on # 0
  /\ Reaches([Leave(Each(Unhover, State, order)) EXCEPT !.pointer = Away])

\* DeferredCall: the closures run in the order they were handed over.
RunDeferred ==
  /\ deferred # <<>>
  /\ LET c == Head(deferred)
         S == [State EXCEPT !.deferred = Tail(@)]
     IN CASE c.call = "flush"   -> Handles(Each(AddPopup, [S EXCEPT !.pending = <<>>], pending))
          [] c.call = "close"   -> Handles(RequestClose(S, c.id))
          [] c.call = "remove"  -> Handles(FinishRemoval(S, c.id))
          [] c.call = "reset"   -> Handles(IF In(S, c.id) THEN ResetPopupHover(S, c.id, TRUE, c.finite) ELSE S)
          [] c.call = "orphans" -> Handles(Each(Orphan, S, Those(order, c.ids)))

Next ==
  \/ \E id \in Ids : Notify(id) \/ Replace(id) \/ Expire(id) \/ Close(id) \/ Fallback(id)
  \/ \E i \in Instances : Build(i) \/ Point(i) \/ \E id \in Ids : CountdownEnds(i, id) \/ ExitEnds(i, id)
  \/ Depart \/ RunDeferred

Spec == Init /\ [][Next]_vars

(****************************** Properties ******************************)

TypeOK ==
  /\ notes \in [Ids -> Note] /\ popups \in [Ids -> Popup]
  /\ pending \in Seq(Ids) /\ order \in Seq(Ids) /\ scenes \subseteq Instances
  /\ cards \in [Instances -> [Ids -> Card \cup {NoCard}]]
  /\ pointer.on \in {0} \cup scenes /\ (pointer.on # 0 => pointer.area \in Areas(State, pointer.on))
  /\ updates \in 0..MaxUpdates /\ rebuilds \in 0..MaxRebuilds /\ strayed \subseteq Ids

Entries == ToSet(order)
Shown   == {id \in Entries : ~popups[id].exiting}

\* No two popups share a place, and none reaches past the tallest output, whatever collapses, is
\* replaced or stays where it is because the pointer is on it.
NoOverlap ==
  /\ \A a, b \in Placed(State) : a # b => Apart(State, a, b)
  /\ \A a \in Placed(State) : Below(State, a) <= Tallest

\* A notification that is open has its popup, or will be given it, and one that is closed has none.
PopupIffLive ==
  \A id \in Ids : (notes[id].life = "live") <=> (id \in ToSet(pending) \cup Shown)

\* A hover has an end: the pointer is on the popup or its end is on its way. The pointer is counted
\* once, on the popup it is on and on no other; a popup that it is on is counted, unless a replacement
\* strayed it: the turn of a later output takes back the hover that an earlier one's motion began.
HoverEnds ==
  /\ \A id \in Shown : popups[id].hovered =>
       popups[id].owners > 0 \/ \E k \in DOMAIN deferred : deferred[k].call = "reset" /\ deferred[k].id = id
  /\ \A id \in Entries : popups[id].owners > 0 =>
       popups[id].owners = 1 /\ pointer.area.id = id
  /\ pointer.area.follows /\ pointer.area.id \notin strayed => popups[pointer.area.id].owners = 1

\* The store's expiry of a popup runs exactly while the popup is placed and not under the pointer
\* ("doesn't expire silently before a slot opens up"), unless it was replaced while it was not.
ExpiryMatches ==
  \A id \in Shown \ strayed :
    notes[id].expiring <=> notes[id].timed /\ id \in Placed(State) /\ ~popups[id].hovered

\* No countdown closes a notification without a timeout, though hovers, rebuilt scenes and moves start
\* those of its neighbours anew.
PersistentStays ==
  \A id \in Shown \ strayed : ~notes[id].timed =>
    /\ \A i \in Instances : cards[i][id].moves # "countdown"
    /\ \A k \in DOMAIN deferred : deferred[k].call = "close" => deferred[k].id # id

\* A popup waits only while it has no room, or while one that leaves will make it look again.
SlotsAreUsed ==
  \A id \in Shown : popups[id].at = Queued /\ FindPlacement(State, notes[id].height) # Queued =>
    \E d \in Entries : popups[d].exiting

\* A placed popup is on the tallest outputs, and no card is left where its popup is not.
CardsShow ==
  \A id \in Ids, i \in scenes :
    /\ id \in Placed(State) /\ Surfaces[i] = Tallest => cards[i][id] # NoCard
    /\ cards[i][id] # NoCard => id \in Entries /\ (popups[id].exiting \/ Shows(State, i, id))

\* The stack is a layout of every output: no two popups on one place, none left waiting in front of
\* a gap, and the cards where the placement says.
StackIsLaidOut == NoOverlap /\ SlotsAreUsed /\ CardsShow

\* A popup follows its notification, and the store's expiry follows the popup, through hovers,
\* queueing, replacement and exit.
PopupAndNoteAgree == PopupIffLive /\ HoverEnds /\ ExpiryMatches /\ PersistentStays

\* A popup that counts the pointer, before and after a step, has not moved away from under it, unless
\* the step replaced a notification.
HoveredStaysPut ==
  [][\A id \in Placed(State) : popups[id].owners > 0 /\ popups[id]'.owners > 0 /\ notes[id].life = notes[id]'.life
       /\ updates' = updates => popups[id]'.at = popups[id].at]_vars
=============================================================================
