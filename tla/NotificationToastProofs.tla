------------------------ MODULE NotificationToastProofs ------------------------
(***************************************************************************)
(* Theorems about NotificationToast for any notifications, contents and    *)
(* outputs. Every handler is a function from states to states, made of a   *)
(* dozen helpers; the invariant is therefore stated of a state S, and each *)
(* helper has a lemma that says what of it the helper keeps.               *)
(***************************************************************************)
EXTENDS NotificationToast, SequenceTheorems, WellFoundedInduction, TLAPS

Closure ==
  [call : {"flush"}] \cup [call : {"close", "remove"}, id : Ids]
  \cup [call : {"reset"}, id : Ids, finite : BOOLEAN] \cup [call : {"orphans"}, ids : SUBSET Ids]

Space ==
  [notes : [Ids -> Note], pending : Seq(Ids), order : Seq(Ids), popups : [Ids -> Popup],
   scenes : SUBSET Instances, cards : [Instances -> [Ids -> Card \cup {NoCard}]],
   pointer : [on : {0} \cup Instances, area : [id : Ids \cup {NoId}, follows : BOOLEAN]],
   deferred : Seq(Closure)]

Entered(S) == ToSet(S.order)
Open(S)    == {id \in Entered(S) : ~S.popups[id].exiting}
Calls(S)   == ToSet(S.deferred)

\* The end of a hover is on its way.
Asked(S, id) == \E c \in Calls(S) : c.call = "reset" /\ c.id = id

\* Popups and notifications, when those in W will be given a popup.
Lives(S, W) ==
  /\ \A id \in Ids : S.notes[id].life = "live" <=> id \in W \cup Open(S)
  /\ \A id \in Ids : S.notes[id].life = "live" => S.notes[id].height # 0
  /\ \A id \in Entered(S) \ Open(S) : S.notes[id].life = "closed"
  /\ \A id \in Ids \ Entered(S) : S.popups[id] = Blank

\* What the closures name has a popup or is over.
CallsKnown(S) ==
  \A c \in Calls(S) :
    /\ c.call \in {"close", "reset"} => S.notes[c.id].life = "closed" \/ c.id \in Entered(S)
    /\ c.call = "remove" => S.notes[c.id].life = "closed"
    /\ c.call = "orphans" => \A id \in c.ids : S.notes[id].life = "closed"

Layout(S) ==
  /\ \A a, b \in Placed(S) : a # b => Apart(S, a, b)
  /\ \A a \in Placed(S) : Below(S, a) <= Tallest

\* The cards, but for those of the popups in X, which are being replaced.
CardsAt(S, X) ==
  /\ \A i \in Instances, id \in Ids : S.cards[i][id] # NoCard =>
       /\ i \in S.scenes /\ id \in Entered(S)
       /\ S.cards[i][id].moves = "exit" => S.popups[id].exiting
       /\ id \in X \/ S.popups[id].exiting \/ Shows(S, i, id)
  /\ \A i \in S.scenes, id \in Placed(S) \ X : Surfaces[i] = Tallest => S.cards[i][id] # NoCard

Hovers(S, X) ==
  /\ \A id \in Ids : S.popups[id].owners > 0 =>
       /\ S.popups[id].owners = 1 /\ S.popups[id].hovered
       /\ S.pointer.area = [id |-> id, follows |-> TRUE]
  /\ \A id \in Ids : Asked(S, id) => S.popups[id].owners = 0
  /\ \A id \in Open(S) : S.popups[id].hovered => S.popups[id].owners > 0 \/ Asked(S, id)
  /\ \A id \in Open(S) : S.popups[id].hovered \/ Asked(S, id) => HasCard(S, id)
  /\ \A id \in X : id \in Open(S) /\ ~S.popups[id].hovered /\ ~Asked(S, id)

\* The durations that a popup, its cards and its closures have taken from its notification.
Clocked(S, id) ==
  /\ S.popups[id].hovered => id \in Placed(S)
  /\ S.popups[id].finite = S.notes[id].timed
  /\ \A i \in Instances : S.cards[i][id] # NoCard =>
       /\ S.cards[i][id].finite = S.notes[id].timed
       /\ S.cards[i][id].moves = "countdown" => S.notes[id].timed
  /\ \A c \in Calls(S) :
       /\ c.call = "reset" /\ c.id = id => c.finite = S.notes[id].timed
       /\ c.call = "close" /\ c.id = id => S.notes[id].timed

\* The expiry and the durations, but for those of the popups in Y, which have strayed.
Expiries(S, Y) ==
  /\ \A id \in Open(S) \ Y :
       /\ S.notes[id].expiring <=> S.notes[id].timed /\ id \in Placed(S) /\ ~S.popups[id].hovered
       /\ Clocked(S, id)
  /\ \A id \in Ids \ (Entered(S) \cup Y) : S.notes[id].life = "live" => S.notes[id].expiring = S.notes[id].timed

Good(S, X, Y, W) ==
  /\ S \in Space /\ Lives(S, W) /\ CallsKnown(S) /\ Layout(S)
  /\ CardsAt(S, X) /\ Hovers(S, X) /\ Expiries(S, Y)

\* The same, where the popups in X are being replaced and may count as hovered.
Whole(S, X, Y, W) ==
  /\ S \in Space /\ Lives(S, W) /\ CallsKnown(S) /\ Layout(S)
  /\ CardsAt(S, X) /\ Hovers(S, {}) /\ Expiries(S, Y)

\* The same, where other popups, those in Z, neither are hovered nor will be.
Mostly(S, X, Z, Y, W) ==
  /\ S \in Space /\ Lives(S, W) /\ CallsKnown(S) /\ Layout(S)
  /\ CardsAt(S, X) /\ Hovers(S, Z) /\ Expiries(S, Y)

\* No popup waits in front of a gap.
Roomless(S) == \A id \in Open(S) : S.popups[id].at = Queued => FindPlacement(S, S.notes[id].height) = Queued

\* The pointer is on a card that is there, and a popup that follows it is counted once, but for those
\* in Y, which have strayed.
PointerFits(S, Y) ==
  /\ S.pointer.on \in {0} \cup S.scenes
  /\ IF S.pointer.on = 0 THEN S.pointer = Away ELSE S.pointer.area \in Areas(S, S.pointer.on)
  /\ S.pointer.area.follows /\ S.pointer.area.id \notin Y => S.popups[S.pointer.area.id].owners = 1

\* What holds between the handlers only.
Settled(S, Y) ==
  /\ ToSet(S.pending) \cap Entered(S) = {}
  /\ Roomless(S) \/ Entered(S) # Open(S)
  /\ PointerFits(S, Y)

\* The inductive invariant.
IInv ==
  /\ Good(State, {}, strayed, ToSet(pending)) /\ Settled(State, strayed)
  /\ updates \in 0..MaxUpdates /\ rebuilds \in 0..MaxRebuilds /\ strayed \subseteq Ids

(*************************** Numbers, sequences ***************************)

\* A set of numbers has a least one.
LEMMA HasLeast ==
  ASSUME NEW M \in SUBSET Nat, M # {}
  PROVE  \E i \in M : \A j \in M : i <= j
<1>1. PICK i \in M : \A j \in M : <<j, i>> \notin OpToRel(<, Nat)
  BY WFMin, NatLessThanWellFounded, Zenon
<1>2. \A j \in M : ~(j < i)
  BY <1>1, Zenon DEF OpToRel
<1>3. \A j \in M : i <= j
  BY <1>2
<1>4. QED BY <1>3

\* The least of a set of numbers is one of them.
LEMMA MinIs ==
  ASSUME NEW M \in SUBSET Nat, M # {}
  PROVE  Min(M) \in M /\ \A j \in M : Min(M) <= j
BY HasLeast DEF Min

\* The greater of two numbers.
LEMMA MaxIs ==
  ASSUME NEW a \in Int, NEW b \in Int
  PROVE  Max({a, b}) = IF a >= b THEN a ELSE b
BY DEF Max

\* A set of numbers with 0 and with the successor of each of its numbers is Nat.
LEMMA Inducts ==
  ASSUME NEW M \in SUBSET Nat, 0 \in M, \A k \in M : k + 1 \in M
  PROVE  M = Nat
<1> SUFFICES ASSUME Nat \ M # {} PROVE FALSE
  OBVIOUS
<1>1. PICK i \in Nat \ M : \A j \in Nat \ M : i <= j
  BY HasLeast
<1>2. i # 0 /\ i - 1 \in Nat
  BY <1>1
<1>3. i - 1 \in M
  BY <1>1, <1>2
<1>4. (i - 1) + 1 = i
  BY <1>1
<1>5. QED BY <1>1, <1>3, <1>4

\* A loop of n steps can be run, and stays where each of its steps stays.
LEMMA RunExists ==
  ASSUME NEW D, NEW S \in D, NEW n \in Nat, NEW F \in [1..n -> [D -> D]]
  PROVE  \E run \in [0..n -> D] :
           run[0] = S /\ \A k \in 1..n : run[k] = F[k][run[k - 1]]
<1> DEFINE Runs(m, run) == run[0] = S /\ \A k \in 1..m : run[k] = F[k][run[k - 1]]
           Has(m) == \E run \in [0..m -> D] : Runs(m, run)
           M == {m \in Nat : m <= n => Has(m)}
<1>1. 0 \in M
  <2> DEFINE still == [k \in 0..0 |-> S]
  <2>1. still \in [0..0 -> D] /\ Runs(0, still)
    OBVIOUS
  <2> HIDE DEF Runs, still
  <2>2. Has(0)
    BY <2>1
  <2> HIDE DEF Has
  <2>3. QED BY <2>2
<1>2. ASSUME NEW m \in M PROVE m + 1 \in M
  <2> HIDE DEF Has
  <2> SUFFICES ASSUME m + 1 <= n PROVE Has(m + 1)
    OBVIOUS
  <2>0. Has(m)
    OBVIOUS
  <2> USE DEF Has
  <2>1. PICK run \in [0..m -> D] : Runs(m, run)
    BY <2>0
  <2> DEFINE next == [k \in 0..(m + 1) |-> IF k <= m THEN run[k] ELSE F[k][run[m]]]
  <2>2. m + 1 \in 1..n /\ run[m] \in D /\ F[m + 1] \in [D -> D]
    BY <2>1
  <2>3. next \in [0..(m + 1) -> D]
    <3> SUFFICES ASSUME NEW k \in 0..(m + 1) PROVE (IF k <= m THEN run[k] ELSE F[k][run[m]]) \in D
      OBVIOUS
    <3>1. CASE k <= m
      BY <2>1, <3>1
    <3>2. CASE ~(k <= m)
      <4>1. k = m + 1
        BY <3>2
      <4>2. QED BY <2>2, <3>2, <4>1
    <3>3. QED BY <3>1, <3>2
  <2>4. next[0] = S
    BY <2>1
  <2>5. ASSUME NEW k \in 1..(m + 1) PROVE next[k] = F[k][next[k - 1]]
    <3>1. k - 1 \in 0..m /\ next[k - 1] = run[k - 1]
      OBVIOUS
    <3>2. CASE k <= m
      BY <2>1, <3>1, <3>2
    <3>3. CASE ~(k <= m)
      <4>1. k = m + 1 /\ k - 1 = m
        BY <3>3
      <4>2. QED BY <3>1, <3>3, <4>1
    <3>4. QED BY <3>2, <3>3
  <2>6. Runs(m + 1, next)
    BY <2>4, <2>5
  <2> HIDE DEF Runs, next
  <2>7. QED BY <2>3, <2>6
<1>3. M = Nat
  <2> HIDE DEF M
  <2>1. M \subseteq Nat
    BY DEF M
  <2>2. QED BY <1>1, <1>2, <2>1, Inducts
<1>4. n \in M
  BY <1>3
<1>5. QED BY <1>4

\* A run of steps does not leave a set that no step leaves.
LEMMA RunStays ==
  ASSUME NEW D, NEW n \in Nat, NEW run, run[0] \in D,
         \A k \in 1..n : run[k - 1] \in D => run[k] \in D
  PROVE  \A k \in 0..n : run[k] \in D
<1> DEFINE M == {k \in Nat : k <= n => run[k] \in D}
<1>1. 0 \in M
  OBVIOUS
<1>2. ASSUME NEW k \in M PROVE k + 1 \in M
  <2> SUFFICES ASSUME k + 1 <= n PROVE run[k + 1] \in D
    OBVIOUS
  <2>1. k + 1 \in 1..n /\ (k + 1) - 1 = k /\ run[k] \in D
    OBVIOUS
  <2>2. QED BY <2>1
<1>3. M = Nat
  <2> HIDE DEF M
  <2>1. M \subseteq Nat
    BY DEF M
  <2>2. QED BY <1>1, <1>2, <2>1, Inducts
<1>4. QED BY <1>3

\* The elements of a sequence, by their positions.
LEMMA ToSetIs ==
  ASSUME NEW T, NEW s \in Seq(T)
  PROVE  /\ Len(s) \in Nat /\ DOMAIN s = 1..Len(s) /\ \A k \in 1..Len(s) : s[k] \in T
         /\ ToSet(s) = {s[k] : k \in 1..Len(s)} /\ ToSet(s) \subseteq T
         /\ s = <<>> <=> ToSet(s) = {}
<1>1. Len(s) \in Nat /\ DOMAIN s = 1..Len(s) /\ \A k \in 1..Len(s) : s[k] \in T
  BY LenProperties, ElementOfSeq
<1>2. ToSet(s) = {s[k] : k \in 1..Len(s)}
  BY <1>1 DEF ToSet
<1>3. ToSet(s) \subseteq T
  BY <1>1, <1>2
<1>4. s = <<>> => ToSet(s) = {}
  BY <1>2
<1>5. s # <<>> => ToSet(s) # {}
  <2> SUFFICES ASSUME s # <<>> PROVE ToSet(s) # {}
    OBVIOUS
  <2>1. 1 \in 1..Len(s)
    BY <1>1, EmptySeq
  <2>2. QED BY <1>2, <2>1
<1>6. QED BY <1>1, <1>2, <1>3, <1>4, <1>5

\* An element more.
LEMMA AppendIs ==
  ASSUME NEW T, NEW s \in Seq(T), NEW x \in T
  PROVE  Append(s, x) \in Seq(T) /\ ToSet(Append(s, x)) = ToSet(s) \cup {x}
<1> DEFINE t == Append(s, x)
<1>1. /\ t \in Seq(T) /\ Len(t) = Len(s) + 1 /\ t[Len(s) + 1] = x
      /\ \A k \in 1..Len(s) : t[k] = s[k]
  BY AppendProperties
<1> HIDE DEF t
<1>2. Len(s) \in Nat /\ ToSet(s) = {s[k] : k \in 1..Len(s)} /\ ToSet(t) = {t[k] : k \in 1..(Len(s) + 1)}
  BY <1>1, ToSetIs
<1>3. ASSUME NEW y \in ToSet(t) PROVE y \in ToSet(s) \cup {x}
  <2>1. PICK k \in 1..(Len(s) + 1) : t[k] = y
    BY <1>2
  <2>2. k \in 1..Len(s) \/ k = Len(s) + 1
    BY <1>2
  <2>3. QED BY <1>1, <1>2, <2>1, <2>2
<1>4. x \in ToSet(t)
  <2>1. Len(s) + 1 \in 1..(Len(s) + 1)
    BY <1>2
  <2>2. QED BY <1>1, <1>2, <2>1
<1>5. ASSUME NEW y \in ToSet(s) PROVE y \in ToSet(t)
  <2>1. PICK k \in 1..Len(s) : s[k] = y
    BY <1>2
  <2>2. k \in 1..(Len(s) + 1)
    BY <1>2
  <2>3. QED BY <1>1, <1>2, <2>1, <2>2
<1>6. QED BY <1>1, <1>3, <1>4, <1>5 DEF t

\* An element less.
LEMMA HeadIs ==
  ASSUME NEW T, NEW s \in Seq(T), s # <<>>
  PROVE  Head(s) \in T /\ Tail(s) \in Seq(T) /\ ToSet(s) = ToSet(Tail(s)) \cup {Head(s)}
<1> DEFINE t == Tail(s)
<1>1. /\ Head(s) = s[1] /\ t \in Seq(T) /\ Len(t) = Len(s) - 1
      /\ \A k \in 1..Len(t) : t[k] = s[k + 1]
  BY HeadTailProperties
<1> HIDE DEF t
<1>2. Len(s) \in Nat /\ Len(s) # 0
  BY EmptySeq, ToSetIs
<1>3. /\ ToSet(s) = {s[k] : k \in 1..Len(s)} /\ ToSet(t) = {t[k] : k \in 1..(Len(s) - 1)}
      /\ \A k \in 1..Len(s) : s[k] \in T
  BY <1>1, ToSetIs
<1>4. ASSUME NEW y \in ToSet(s), y # s[1] PROVE y \in ToSet(t)
  <2>1. PICK k \in 1..Len(s) : s[k] = y
    BY <1>3
  <2>2. k - 1 \in 1..(Len(s) - 1) /\ (k - 1) + 1 = k
    BY <1>2, <1>4, <2>1
  <2>3. t[k - 1] = y
    BY <1>1, <2>1, <2>2
  <2>4. QED BY <1>3, <2>2, <2>3
<1>5. ASSUME NEW y \in ToSet(t) PROVE y \in ToSet(s)
  <2>1. PICK k \in 1..(Len(s) - 1) : t[k] = y
    BY <1>3
  <2>2. k + 1 \in 1..Len(s)
    BY <1>2
  <2>3. QED BY <1>1, <1>3, <2>1, <2>2
<1>6. s[1] \in ToSet(s) /\ s[1] \in T
  <2>1. 1 \in 1..Len(s)
    BY <1>2
  <2>2. QED BY <1>3, <2>1
<1>7. QED BY <1>1, <1>4, <1>5, <1>6 DEF t

\* Those keeps the elements that are in the set, and no other.
LEMMA ThoseIs ==
  ASSUME NEW T, NEW s \in Seq(T), NEW K
  PROVE  Those(s, K) \in Seq(T) /\ ToSet(Those(s, K)) = ToSet(s) \cap K
<1> DEFINE n == Len(s)
           F == [k \in 1..n |-> [q \in Seq(T) |-> IF s[k] \in K THEN Append(q, s[k]) ELSE q]]
           Eq(f) == f = [k \in 0..n |-> IF k = 0 THEN <<>> ELSE IF s[k] \in K THEN Append(f[k - 1], s[k]) ELSE f[k - 1]]
           kept == CHOOSE f : Eq(f)
<1>1. n \in Nat /\ \A k \in 1..n : s[k] \in T
  BY ToSetIs
<1>2. Those(s, K) = kept[n]
  BY DEF Those
<1>3. F \in [1..n -> [Seq(T) -> Seq(T)]]
  <2>1. \A k \in 1..n, q \in Seq(T) : Append(q, s[k]) \in Seq(T)
    BY <1>1, AppendIs
  <2>2. QED BY <2>1
<1>4. <<>> \in Seq(T)
  BY EmptySeq
<1>5. PICK g \in [0..n -> Seq(T)] : g[0] = <<>> /\ \A k \in 1..n : g[k] = F[k][g[k - 1]]
  <2> DEFINE D == Seq(T)
             none == <<>>
  <2> HIDE DEF F, n
  <2>1. none \in D /\ F \in [1..n -> [D -> D]] /\ n \in Nat
    BY <1>1, <1>3, <1>4
  <2> HIDE DEF D, none
  <2>2. \E g \in [0..n -> D] : g[0] = none /\ \A k \in 1..n : g[k] = F[k][g[k - 1]]
    BY <2>1, RunExists
  <2>3. QED BY <2>2 DEF D, none
<1>6. Eq(g)
  <2>1. \A k \in 1..n : k - 1 \in 0..n /\ g[k - 1] \in Seq(T)
    BY <1>1, <1>5
  <2>2. \A k \in 1..n : g[k] = IF s[k] \in K THEN Append(g[k - 1], s[k]) ELSE g[k - 1]
    BY <1>5, <2>1
  <2>3. \A k \in 0..n : g[k] = IF k = 0 THEN <<>> ELSE IF s[k] \in K THEN Append(g[k - 1], s[k]) ELSE g[k - 1]
    <3> HIDE DEF n
    <3>1. \A k \in 0..n : k = 0 \/ k \in 1..n
      BY <1>1
    <3>2. QED BY <1>5, <2>2, <3>1
  <2> HIDE DEF n
  <2>4. QED BY <1>5, <2>3
<1>7. Eq(kept)
  <2> HIDE DEF Eq
  <2>1. QED BY <1>6
<1>8. /\ kept[0] = <<>>
      /\ \A k \in 1..n : kept[k] = IF s[k] \in K THEN Append(kept[k - 1], s[k]) ELSE kept[k - 1]
  <2> HIDE DEF kept
  <2>1. /\ \A k \in 0..n : kept[k] = IF k = 0 THEN <<>> ELSE IF s[k] \in K THEN Append(kept[k - 1], s[k]) ELSE kept[k - 1]
    BY <1>1, <1>7
  <2> HIDE DEF Eq, n
  <2>2. 0 \in 0..n /\ \A k \in 1..n : k \in 0..n /\ k # 0
    BY <1>1
  <2>3. QED BY <2>1, <2>2
<1> HIDE DEF kept, F, Eq
<1> DEFINE Upto(k) == {s[j] : j \in 1..k} \cap K
           M == {k \in Nat : k <= n => kept[k] \in Seq(T) /\ ToSet(kept[k]) = Upto(k)}
<1>9. 0 \in M
  <2>1. ToSet(<<>>) = {} /\ Upto(0) = {}
    BY <1>4, ToSetIs
  <2>2. QED BY <1>4, <1>8, <2>1
<1>10. ASSUME NEW k \in M PROVE k + 1 \in M
  <2> SUFFICES ASSUME k + 1 <= n
               PROVE  kept[k + 1] \in Seq(T) /\ ToSet(kept[k + 1]) = Upto(k + 1)
    OBVIOUS
  <2>1. /\ k + 1 \in 1..n /\ (k + 1) - 1 = k /\ s[k + 1] \in T
        /\ kept[k] \in Seq(T) /\ ToSet(kept[k]) = Upto(k)
    BY <1>1
  <2>2. Upto(k + 1) = IF s[k + 1] \in K THEN Upto(k) \cup {s[k + 1]} ELSE Upto(k)
    <3>1. 1..(k + 1) = (1..k) \cup {k + 1}
      OBVIOUS
    <3>2. {s[j] : j \in 1..(k + 1)} = {s[j] : j \in 1..k} \cup {s[k + 1]}
      BY <3>1
    <3>3. QED BY <3>2
  <2> HIDE DEF Upto
  <2>3. CASE s[k + 1] \in K
    <3>1. kept[k + 1] = Append(kept[k], s[k + 1])
      BY <1>8, <2>1, <2>3
    <3>2. Append(kept[k], s[k + 1]) \in Seq(T) /\ ToSet(Append(kept[k], s[k + 1])) = ToSet(kept[k]) \cup {s[k + 1]}
      BY <2>1, AppendIs
    <3>3. QED BY <2>1, <2>2, <2>3, <3>1, <3>2
  <2>4. CASE s[k + 1] \notin K
    <3>1. kept[k + 1] = kept[k]
      BY <1>8, <2>1, <2>4
    <3>2. QED BY <2>1, <2>2, <2>4, <3>1
  <2>5. QED BY <2>3, <2>4
<1>11. M = Nat
  <2> HIDE DEF M
  <2>1. M \subseteq Nat
    BY DEF M
  <2>2. QED BY <1>9, <1>10, <2>1, Inducts
<1>12. kept[n] \in Seq(T) /\ ToSet(kept[n]) = Upto(n)
  <2> HIDE DEF Upto, n
  <2>1. n \in M
    BY <1>1, <1>11
  <2>2. QED BY <1>1, <2>1
<1>13. ToSet(s) = {s[j] : j \in 1..n}
  BY ToSetIs
<1>14. QED BY <1>2, <1>12, <1>13
(***************************** The placement *****************************)

\* There are instances, and each has a surface.
LEMMA SurfacesAre ==
  /\ Instances = 1..Len(Surfaces) /\ Len(Surfaces) \in Nat /\ Len(Surfaces) # 0
  /\ \A i \in Instances : Surfaces[i] \in Nat \ {0}
<1>1. Surfaces \in Seq(Nat \ {0}) /\ Surfaces # <<>>
  BY ToastAssumption
<1>2. /\ Len(Surfaces) \in Nat /\ DOMAIN Surfaces = 1..Len(Surfaces)
      /\ \A i \in 1..Len(Surfaces) : Surfaces[i] \in Nat \ {0}
  BY <1>1, ToSetIs
<1>3. Len(Surfaces) # 0
  BY <1>1, EmptySeq
<1>4. QED BY <1>2, <1>3 DEF Instances

\* The tallest surface is one of them.
LEMMA TallestIs == Tallest \in Nat \ {0} /\ \A i \in Instances : Surfaces[i] <= Tallest
<1> DEFINE Top(n) == \E i \in 1..(n + 1) : \A j \in 1..(n + 1) : Surfaces[j] <= Surfaces[i]
           M == {n \in Nat : n + 1 <= Len(Surfaces) => Top(n)}
<1>1. 0 \in M
  <2>1. Len(Surfaces) # 0 => Surfaces[1] \in Nat
    BY SurfacesAre
  <2>2. 1 \in 1..(0 + 1) /\ \A j \in 1..(0 + 1) : j = 1
    OBVIOUS
  <2>3. 0 + 1 <= Len(Surfaces) => Top(0)
    BY <2>1, <2>2, SurfacesAre
  <2>4. QED BY <2>3
<1>2. ASSUME NEW n \in M PROVE n + 1 \in M
  <2> HIDE DEF Top
  <2> SUFFICES ASSUME (n + 1) + 1 <= Len(Surfaces) PROVE Top(n + 1)
    OBVIOUS
  <2>1. Top(n)
    BY SurfacesAre
  <2> USE DEF Top
  <2>2. PICK i \in 1..(n + 1) : \A j \in 1..(n + 1) : Surfaces[j] <= Surfaces[i]
    BY <2>1
  <2>3. \A j \in 1..((n + 1) + 1) : Surfaces[j] \in Nat
    BY SurfacesAre
  <2>4. CASE Surfaces[n + 2] <= Surfaces[i]
    <3>1. \A j \in 1..((n + 1) + 1) : Surfaces[j] <= Surfaces[i]
      <4>1. \A j \in 1..((n + 1) + 1) : j \in 1..(n + 1) \/ j = n + 2
        OBVIOUS
      <4>2. QED BY <2>2, <2>4, <4>1
    <3>2. i \in 1..((n + 1) + 1)
      OBVIOUS
    <3>3. QED BY <3>1, <3>2
  <2>5. CASE ~(Surfaces[n + 2] <= Surfaces[i])
    <3>1. n + 2 \in 1..((n + 1) + 1) /\ i \in 1..((n + 1) + 1)
      OBVIOUS
    <3>2. \A j \in 1..((n + 1) + 1) : Surfaces[j] <= Surfaces[n + 2]
      <4>1. \A j \in 1..((n + 1) + 1) : j \in 1..(n + 1) \/ j = n + 2
        OBVIOUS
      <4>2. QED BY <2>2, <2>3, <2>5, <3>1, <4>1
    <3>3. QED BY <3>1, <3>2
  <2>6. QED BY <2>4, <2>5
<1>3. M = Nat
  <2> HIDE DEF M
  <2>1. M \subseteq Nat
    BY DEF M
  <2>2. QED BY <1>1, <1>2, <2>1, Inducts
<1>4. PICK i \in Instances : \A j \in Instances : Surfaces[j] <= Surfaces[i]
  <2> HIDE DEF Top, M
  <2>1. Len(Surfaces) - 1 \in Nat /\ (Len(Surfaces) - 1) + 1 = Len(Surfaces)
    BY SurfacesAre
  <2>2. Len(Surfaces) - 1 \in M
    BY <1>3, <2>1
  <2>3. Top(Len(Surfaces) - 1)
    BY <2>1, <2>2 DEF M
  <2>4. QED BY <2>1, <2>3, SurfacesAre DEF Top
<1>5. /\ Tallest \in {Surfaces[j] : j \in Instances}
      /\ \A h \in {Surfaces[j] : j \in Instances} : Tallest >= h
  <2> DEFINE H == {Surfaces[j] : j \in Instances}
  <2>1. Surfaces[i] \in H /\ \A h \in H : Surfaces[i] >= h
    BY <1>4, SurfacesAre
  <2>2. Tallest = CHOOSE h \in H : \A k \in H : h >= k
    BY Zenon DEF Tallest, Max
  <2> HIDE DEF H
  <2>3. Tallest \in H /\ \A h \in H : Tallest >= h
    BY <2>1, <2>2
  <2>4. QED BY <2>3 DEF H
<1>6. QED BY <1>5, SurfacesAre

\* The fields of a state.
LEMMA SpaceIs ==
  ASSUME NEW S \in Space
  PROVE  /\ S.notes \in [Ids -> Note] /\ S.pending \in Seq(Ids) /\ S.order \in Seq(Ids)
         /\ S.popups \in [Ids -> Popup] /\ S.scenes \subseteq Instances
         /\ S.cards \in [Instances -> [Ids -> Card \cup {NoCard}]] /\ S.deferred \in Seq(Closure)
         /\ S.pointer \in [on : {0} \cup Instances, area : [id : Ids \cup {NoId}, follows : BOOLEAN]]
         /\ Entered(S) \subseteq Ids /\ Placed(S) \subseteq Open(S) /\ Open(S) \subseteq Entered(S)
<1>1. /\ S.notes \in [Ids -> Note] /\ S.pending \in Seq(Ids) /\ S.order \in Seq(Ids)
      /\ S.popups \in [Ids -> Popup] /\ S.scenes \subseteq Instances
      /\ S.cards \in [Instances -> [Ids -> Card \cup {NoCard}]] /\ S.deferred \in Seq(Closure)
      /\ S.pointer \in [on : {0} \cup Instances, area : [id : Ids \cup {NoId}, follows : BOOLEAN]]
  BY DEF Space
<1>2. Entered(S) \subseteq Ids
  BY <1>1, ToSetIs DEF Entered
<1>3. QED BY <1>1, <1>2 DEF Open, Placed, Entered

\* What a popup and its notification are made of.
LEMMA PopupIs ==
  ASSUME NEW S \in Space, NEW id \in Ids
  PROVE  /\ S.popups[id].at \in Int /\ -1 <= S.popups[id].at /\ S.popups[id].at <= Tallest
         /\ S.popups[id].at # Queued => S.popups[id].at \in Nat
         /\ S.popups[id].exiting \in BOOLEAN /\ S.popups[id].hovered \in BOOLEAN
         /\ S.popups[id].finite \in BOOLEAN /\ S.popups[id].owners \in Nat
         /\ S.notes[id].height \in Nat /\ S.notes[id].height <= Tallest
         /\ S.notes[id].timed \in BOOLEAN /\ S.notes[id].expiring \in BOOLEAN
         /\ S.notes[id].life \in {"new", "quiet", "live", "closed"}
         /\ Below(S, id) = S.popups[id].at + S.notes[id].height /\ Below(S, id) \in Int
<1>1. S.popups[id] \in Popup /\ S.notes[id] \in Note /\ Tallest \in Nat
  BY SpaceIs, TallestIs
<1>2. QED BY <1>1 DEF Popup, Note, Below, Queued

\* What is placed has a place.
LEMMA PlacedIs ==
  ASSUME NEW S \in Space, NEW id \in Placed(S)
  PROVE  /\ id \in Ids /\ S.popups[id].at \in Nat /\ S.popups[id].at \in 0..Tallest
         /\ S.notes[id].height \in Nat /\ Below(S, id) \in Nat
         /\ Below(S, id) = S.popups[id].at + S.notes[id].height
BY SpaceIs, PopupIs, TallestIs DEF Placed

\* A card of height h may begin at y.
Fits(S, h, y) ==
  y + h <= Tallest /\ \A p \in Placed(S) : y + h <= S.popups[p].at \/ Below(S, p) <= y

\* Only the edge and the ends of the cards are tried, and that is enough: the first position where
\* a card fits is one of them.
LEMMA GapsAre ==
  ASSUME NEW S \in Space, NEW h \in Nat
  PROVE  /\ Gaps(S, h) \subseteq Nat /\ \A y \in Gaps(S, h) : Fits(S, h, y)
         /\ Gaps(S, h) = {} => \A y \in Nat : ~Fits(S, h, y)
<1>1. Gaps(S, h) \subseteq Nat /\ \A y \in Gaps(S, h) : Fits(S, h, y)
  BY PlacedIs DEF Gaps, Fits
<1>2. ASSUME NEW y \in Nat, Fits(S, h, y) PROVE Gaps(S, h) # {}
  <2> DEFINE M == {z \in Nat : Fits(S, h, z)}
  <2>1. PICK z \in M : \A j \in M : z <= j
    <3>1. M \subseteq Nat /\ M # {}
      BY <1>2
    <3> HIDE DEF M
    <3>2. QED BY <3>1, HasLeast
  <2>2. CASE z = 0 \/ \E p \in Placed(S) : Below(S, p) = z
    BY <2>1, <2>2 DEF Gaps, Fits
  <2>3. CASE z # 0 /\ \A p \in Placed(S) : Below(S, p) # z
    <3>1. z \in Nat /\ z - 1 \in Nat /\ ~(z <= z - 1)
      BY <2>3
    <3>2. Fits(S, h, z - 1)
      <4>1. (z - 1) + h <= Tallest
        BY <2>1, <3>1, TallestIs DEF Fits
      <4>2. ASSUME NEW p \in Placed(S)
            PROVE  (z - 1) + h <= S.popups[p].at \/ Below(S, p) <= z - 1
        <5>1. z + h <= S.popups[p].at \/ Below(S, p) <= z
          BY <2>1 DEF Fits
        <5>2. S.popups[p].at \in Nat /\ Below(S, p) \in Nat /\ Below(S, p) # z
          BY <2>3, PlacedIs
        <5> HIDE DEF M
        <5>3. QED BY <3>1, <5>1, <5>2
      <4>3. QED BY <4>1, <4>2 DEF Fits
    <3>3. QED BY <2>1, <3>1, <3>2
  <2>4. QED BY <2>2, <2>3
<1>3. QED BY <1>1, <1>2

\* findPlacementY answers "queued" only if a card of that height fits nowhere, and else a place
\* where it fits.
LEMMA PlacementIs ==
  ASSUME NEW S \in Space, NEW h \in Nat
  PROVE  LET y == FindPlacement(S, h)
         IN /\ y = Queued <=> \A z \in Nat : ~Fits(S, h, z)
            /\ y # Queued => y \in 0..Tallest /\ Fits(S, h, y)
<1> DEFINE y == FindPlacement(S, h)
<1>1. CASE Gaps(S, h) = {}
  BY <1>1, GapsAre DEF FindPlacement
<1>2. CASE Gaps(S, h) # {}
  <2>1. y = Min(Gaps(S, h)) /\ Gaps(S, h) \subseteq Nat
    BY <1>2, GapsAre DEF FindPlacement
  <2>2. Min(Gaps(S, h)) \in Gaps(S, h)
    <3> DEFINE G == Gaps(S, h)
    <3> HIDE DEF G
    <3>1. G \in SUBSET Nat /\ G # {}
      BY <1>2, <2>1 DEF G
    <3>2. Min(G) \in G
      BY <3>1, MinIs
    <3>3. QED BY <3>2 DEF G
  <2>3. y \in Nat /\ Fits(S, h, y)
    BY <2>1, <2>2, GapsAre
  <2> HIDE DEF y
  <2>4. y <= Tallest /\ y # Queued
    BY <2>3, TallestIs DEF Fits, Queued
  <2>5. QED BY <2>3, <2>4, TallestIs DEF y
<1>3. QED BY <1>1, <1>2

(***************************** The collapse *****************************)

\* The cursor of collapseStack advances position by position.
LEMMA CursorIs ==
  ASSUME NEW S \in Space
  PROVE  /\ Cursor(S) \in [0..Tallest -> Nat] /\ Cursor(S)[0] = 0
         /\ \A y \in 1..Tallest :
              \/ Cursor(S)[y] = Cursor(S)[y - 1] /\ \A p \in Placed(S) : S.popups[p].at # y - 1
              \/ \E p \in Placed(S) :
                   /\ S.popups[p].at = y - 1
                   /\ Cursor(S)[y] = IF S.popups[p].hovered THEN Max({Cursor(S)[y - 1], Below(S, p)})
                                     ELSE Cursor(S)[y - 1] + S.notes[p].height
<1> DEFINE n == Tallest
           Empty(y) == \A id \in Placed(S) : S.popups[id].at # y - 1
           At(y) == CHOOSE id \in Placed(S) : S.popups[id].at = y - 1
           Past(y, c) == IF Stays(S, At(y)) THEN Max({c, Below(S, At(y))}) ELSE c + S.notes[At(y)].height
           F == [y \in 1..n |-> [c \in Nat |-> IF Empty(y) THEN c ELSE Past(y, c)]]
           Eq(f) == f = [y \in 0..n |-> IF y = 0 THEN 0 ELSE IF Empty(y) THEN f[y - 1] ELSE Past(y, f[y - 1])]
           cursor == CHOOSE f : Eq(f)
<1>1. n \in Nat
  BY TallestIs
<1>2. Cursor(S) = cursor
  BY DEF Cursor
<1>3. ASSUME NEW y \in 1..n, ~Empty(y)
      PROVE  At(y) \in Placed(S) /\ S.popups[At(y)].at = y - 1
  BY <1>3
<1>4. F \in [1..n -> [Nat -> Nat]]
  <2>1. ASSUME NEW y \in 1..n, NEW c \in Nat, ~Empty(y) PROVE Past(y, c) \in Nat
    <3> DEFINE p == At(y)
    <3>1. p \in Placed(S)
      BY <1>3, <2>1
    <3> HIDE DEF p
    <3>2. Below(S, p) \in Nat /\ S.notes[p].height \in Nat
      BY <3>1, PlacedIs
    <3>3. (IF Stays(S, p) THEN Max({c, Below(S, p)}) ELSE c + S.notes[p].height) \in Nat
      BY <3>2, MaxIs
    <3>4. QED BY <3>3 DEF p
  <2> HIDE DEF Empty, Past
  <2>2. QED BY <2>1
<1>5. PICK g \in [0..n -> Nat] : g[0] = 0 /\ \A y \in 1..n : g[y] = F[y][g[y - 1]]
  <2> DEFINE D == Nat
  <2> HIDE DEF F, n
  <2>1. 0 \in D /\ F \in [1..n -> [D -> D]] /\ n \in Nat
    BY <1>1, <1>4
  <2> HIDE DEF D
  <2>2. \E g \in [0..n -> D] : g[0] = 0 /\ \A y \in 1..n : g[y] = F[y][g[y - 1]]
    BY <2>1, RunExists
  <2>3. QED BY <2>2 DEF D
<1>6. Eq(g)
  <2> HIDE DEF Empty, Past
  <2>1. \A y \in 1..n : y - 1 \in 0..n /\ g[y - 1] \in Nat
    BY <1>1, <1>5
  <2>2. \A y \in 1..n : g[y] = IF Empty(y) THEN g[y - 1] ELSE Past(y, g[y - 1])
    BY <1>5, <2>1
  <2> HIDE DEF n, F
  <2>3. \A y \in 0..n : y = 0 \/ y \in 1..n
    BY <1>1
  <2>4. \A y \in 0..n : g[y] = IF y = 0 THEN 0 ELSE IF Empty(y) THEN g[y - 1] ELSE Past(y, g[y - 1])
    BY <1>5, <2>2, <2>3
  <2>5. QED BY <1>5, <2>4
<1>7. Eq(cursor)
  <2> HIDE DEF Eq
  <2>1. QED BY <1>6
<1> HIDE DEF cursor
<1>8. /\ cursor[0] = 0
      /\ \A y \in 1..n : cursor[y] = IF Empty(y) THEN cursor[y - 1] ELSE Past(y, cursor[y - 1])
  <2> HIDE DEF Empty, Past
  <2>1. cursor = [y \in 0..n |-> IF y = 0 THEN 0 ELSE IF Empty(y) THEN cursor[y - 1] ELSE Past(y, cursor[y - 1])]
    BY <1>7
  <2>2. \A y \in 0..n : cursor[y] = IF y = 0 THEN 0 ELSE IF Empty(y) THEN cursor[y - 1] ELSE Past(y, cursor[y - 1])
    BY <2>1
  <2> HIDE DEF Eq, n
  <2>3. 0 \in 0..n /\ \A y \in 1..n : y \in 0..n /\ y # 0
    BY <1>1
  <2>4. QED BY <2>2, <2>3
<1>9. \A y \in 0..n : cursor[y] \in Nat
  <2> HIDE DEF Empty, Past
  <2>1. \A y \in 1..n : cursor[y - 1] \in Nat => cursor[y] = F[y][cursor[y - 1]]
    BY <1>8
  <2> HIDE DEF F, n
  <2>2. \A y \in 1..n : cursor[y - 1] \in Nat => cursor[y] \in Nat
    <3>1. \A y \in 1..n : F[y] \in [Nat -> Nat]
      BY <1>4
    <3>2. \A y \in 1..n, c \in Nat : F[y][c] \in Nat
      BY <3>1
    <3>3. QED BY <2>1, <3>2
  <2>3. cursor[0] \in Nat
    BY <1>8
  <2>4. QED BY <1>1, <2>2, <2>3, RunStays
<1>10. cursor \in [0..n -> Nat]
  <2>1. cursor = [y \in 0..n |-> cursor[y]]
    <3> HIDE DEF Empty, Past
    <3>1. QED BY <1>7
  <2> HIDE DEF n
  <2>2. QED BY <1>9, <2>1
<1>11. ASSUME NEW y \in 1..n
       PROVE \/ cursor[y] = cursor[y - 1] /\ Empty(y)
             \/ \E p \in Placed(S) :
                  /\ S.popups[p].at = y - 1
                  /\ cursor[y] = IF S.popups[p].hovered THEN Max({cursor[y - 1], Below(S, p)})
                                 ELSE cursor[y - 1] + S.notes[p].height
  <2>1. CASE Empty(y)
    <3> HIDE DEF Empty, Past
    <3>1. QED BY <1>8, <2>1
  <2>2. CASE ~Empty(y)
    <3> DEFINE p == At(y)
    <3>1. p \in Placed(S) /\ S.popups[p].at = y - 1
      BY <1>3, <2>2
    <3>2. cursor[y] = Past(y, cursor[y - 1])
      <4> HIDE DEF Empty, Past
      <4>1. QED BY <1>8, <2>2
    <3>3. cursor[y] = IF Stays(S, p) THEN Max({cursor[y - 1], Below(S, p)}) ELSE cursor[y - 1] + S.notes[p].height
      BY <3>2
    <3> HIDE DEF p
    <3>4. QED BY <3>1, <3>3 DEF Stays
  <2>3. QED BY <2>1, <2>2
<1>12. QED BY <1>2, <1>8, <1>10, <1>11

\* Where collapseStack puts a placed popup.
Packed(S, id) == IF S.popups[id].hovered THEN S.popups[id].at ELSE Cursor(S)[S.popups[id].at]

\* The cursor is never past the popup it reaches, and it is past every popup in front of it.
LEMMA CursorPasses ==
  ASSUME NEW S \in Space, Layout(S), \A p \in Placed(S) : S.notes[p].height # 0
  PROVE  /\ \A p \in Placed(S) : Packed(S, p) \in Nat /\ Packed(S, p) <= S.popups[p].at
         /\ \A p, q \in Placed(S) : S.popups[p].at < S.popups[q].at =>
              Packed(S, p) + S.notes[p].height <= Packed(S, q)
<1> DEFINE c == Cursor(S)
           at(p) == S.popups[p].at
           h(p) == S.notes[p].height
           n == Tallest
<1>1. /\ n \in Nat /\ c \in [0..n -> Nat] /\ c[0] = 0
      /\ \A y \in 1..n :
           \/ c[y] = c[y - 1] /\ \A p \in Placed(S) : at(p) # y - 1
           \/ \E p \in Placed(S) :
                /\ at(p) = y - 1
                /\ c[y] = IF S.popups[p].hovered THEN Max({c[y - 1], Below(S, p)}) ELSE c[y - 1] + h(p)
  BY CursorIs, TallestIs
<1>2. \A p \in Placed(S) :
        /\ at(p) \in Nat /\ h(p) \in Nat /\ h(p) # 0 /\ Below(S, p) \in Nat /\ Below(S, p) = at(p) + h(p)
        /\ Below(S, p) <= n
  BY PlacedIs DEF Layout
<1>3. \A p, q \in Placed(S) : p # q => Below(S, p) <= at(q) \/ Below(S, q) <= at(p)
  BY DEF Layout, Apart
<1> HIDE DEF c, at, h, n
<1>4. ASSUME NEW p \in Placed(S)
      PROVE  /\ at(p) + 1 \in 1..n
             /\ c[at(p) + 1] = IF S.popups[p].hovered THEN Max({c[at(p)], Below(S, p)}) ELSE c[at(p)] + h(p)
  <2>1. at(p) + 1 \in 1..n /\ (at(p) + 1) - 1 = at(p)
    BY <1>1, <1>2
  <2>2. PICK q \in Placed(S) :
          /\ at(q) = at(p)
          /\ c[at(p) + 1] = IF S.popups[q].hovered THEN Max({c[at(p)], Below(S, q)}) ELSE c[at(p)] + h(q)
    BY <1>1, <2>1
  <2>3. q = p
    BY <1>2, <1>3, <2>2
  <2>4. QED BY <2>1, <2>2, <2>3
<1>5. \A y \in 1..n : y \in 0..n /\ y - 1 \in 0..n /\ c[y] \in Nat /\ c[y - 1] \in Nat
  BY <1>1
<1>6. ASSUME NEW y \in 0..n
      PROVE  c[y] = 0 \/ \E q \in Placed(S) : at(q) < y /\ c[y] <= Below(S, q)
  <2> DEFINE P(z) == c[z] = 0 \/ \E q \in Placed(S) : at(q) < z /\ c[z] <= Below(S, q)
             M == {z \in Nat : z <= n => P(z)}
  <2>1. 0 \in M
    BY <1>1
  <2>2. ASSUME NEW z \in M PROVE z + 1 \in M
    <3> HIDE DEF P
    <3> SUFFICES ASSUME z + 1 <= n PROVE P(z + 1)
      OBVIOUS
    <3>1. z \in Nat /\ z + 1 \in 1..n /\ (z + 1) - 1 = z /\ P(z) /\ c[z] \in Nat
      BY <1>1, <1>5
    <3>2. CASE c[z + 1] = c[z]
      BY <1>2, <3>1, <3>2 DEF P
    <3>3. CASE c[z + 1] # c[z]
      <4>1. PICK p \in Placed(S) :
              /\ at(p) = z
              /\ c[z + 1] = IF S.popups[p].hovered THEN Max({c[z], Below(S, p)}) ELSE c[z] + h(p)
        BY <1>1, <3>1, <3>3
      <4>2. c[z] <= z
        <5>1. CASE c[z] = 0
          BY <3>1, <5>1
        <5>2. CASE c[z] # 0
          <6>1. PICK q \in Placed(S) : at(q) < z /\ c[z] <= Below(S, q)
            BY <3>1, <5>2 DEF P
          <6>2. Below(S, q) <= at(p)
            BY <1>2, <1>3, <4>1, <6>1
          <6>3. QED BY <1>2, <3>1, <4>1, <6>1, <6>2
        <5>3. QED BY <5>1, <5>2
      <4>3. c[z + 1] <= Below(S, p) /\ at(p) < z + 1
        BY <1>2, <3>1, <4>1, <4>2, MaxIs
      <4>4. QED BY <4>3 DEF P
    <3>4. QED BY <3>2, <3>3
  <2>3. M = Nat
    <3> HIDE DEF M
    <3>1. M \subseteq Nat
      BY DEF M
    <3>2. QED BY <2>1, <2>2, <3>1, Inducts
  <2> HIDE DEF P
  <2>4. y \in M /\ y <= n
    BY <1>1, <2>3
  <2>5. QED BY <2>4 DEF P
<1>7. ASSUME NEW p \in Placed(S)
      PROVE  at(p) \in 0..n /\ c[at(p)] \in Nat /\ c[at(p)] <= at(p)
  <2>1. at(p) \in 0..n /\ c[at(p)] \in Nat
    BY <1>1, <1>2
  <2>2. CASE c[at(p)] = 0
    BY <1>2, <2>1, <2>2
  <2>3. CASE c[at(p)] # 0
    <3>1. PICK q \in Placed(S) : at(q) < at(p) /\ c[at(p)] <= Below(S, q)
      BY <1>6, <2>1, <2>3
    <3>2. Below(S, q) <= at(p)
      BY <1>2, <1>3, <3>1
    <3>3. QED BY <1>2, <2>1, <3>1, <3>2
  <2>4. QED BY <2>1, <2>2, <2>3
<1>8. ASSUME NEW p \in Placed(S)
      PROVE  Packed(S, p) \in Nat /\ Packed(S, p) <= at(p) /\ c[at(p) + 1] >= Packed(S, p) + h(p)
  <2>1. Packed(S, p) = IF S.popups[p].hovered THEN at(p) ELSE c[at(p)]
    BY DEF Packed, c, at
  <2>2. c[at(p)] \in Nat /\ c[at(p)] <= at(p)
    BY <1>7
  <2>3. at(p) \in Nat /\ h(p) \in Nat /\ Below(S, p) \in Nat /\ Below(S, p) = at(p) + h(p)
    BY <1>2
  <2>4. c[at(p) + 1] = IF S.popups[p].hovered THEN Max({c[at(p)], Below(S, p)}) ELSE c[at(p)] + h(p)
    BY <1>4
  <2>5. Max({c[at(p)], Below(S, p)}) \in Nat /\ Max({c[at(p)], Below(S, p)}) >= Below(S, p)
    <3>1. Max({c[at(p)], Below(S, p)}) = IF c[at(p)] >= Below(S, p) THEN c[at(p)] ELSE Below(S, p)
      BY <2>2, <2>3, MaxIs
    <3>2. QED BY <2>2, <2>3, <3>1
  <2>6. CASE S.popups[p].hovered
    BY <2>1, <2>2, <2>3, <2>4, <2>5, <2>6
  <2>7. CASE ~S.popups[p].hovered
    BY <2>1, <2>2, <2>3, <2>4, <2>7
  <2>8. QED BY <2>6, <2>7
<1>9. ASSUME NEW y \in 1..n PROVE c[y - 1] <= c[y]
  <2>1. c[y] \in Nat /\ c[y - 1] \in Nat
    BY <1>5
  <2>2. CASE c[y] = c[y - 1]
    BY <2>1, <2>2
  <2>3. CASE c[y] # c[y - 1]
    <3>1. PICK p \in Placed(S) :
            c[y] = IF S.popups[p].hovered THEN Max({c[y - 1], Below(S, p)}) ELSE c[y - 1] + h(p)
      BY <1>1, <2>3
    <3>2. QED BY <1>2, <2>1, <3>1, MaxIs
  <2>4. QED BY <2>2, <2>3
<1>10. ASSUME NEW y \in 0..n, NEW z \in 0..n, y <= z PROVE c[y] <= c[z]
  <2> DEFINE M == {d \in Nat : y + d <= n => c[y] <= c[y + d]}
  <2>1. 0 \in M
    BY <1>1
  <2>2. ASSUME NEW d \in M PROVE d + 1 \in M
    <3> SUFFICES ASSUME y + (d + 1) <= n PROVE c[y] <= c[y + (d + 1)]
      OBVIOUS
    <3>1. y + d \in 0..n /\ y + (d + 1) \in 1..n /\ (y + (d + 1)) - 1 = y + d /\ c[y] <= c[y + d]
      BY <1>1
    <3>2. c[y + d] <= c[y + (d + 1)] /\ c[y + d] \in Nat /\ c[y + (d + 1)] \in Nat /\ c[y] \in Nat
      BY <1>1, <1>5, <1>9, <3>1
    <3>3. QED BY <3>1, <3>2
  <2>3. M = Nat
    <3> HIDE DEF M
    <3>1. M \subseteq Nat
      BY DEF M
    <3>2. QED BY <2>1, <2>2, <3>1, Inducts
  <2>4. z - y \in M /\ y + (z - y) = z
    <3>1. z - y \in Nat /\ y + (z - y) = z
      BY <1>1, <1>10
    <3> HIDE DEF M
    <3>2. QED BY <2>3, <3>1
  <2>5. QED BY <1>1, <2>4
<1>11. ASSUME NEW p \in Placed(S), NEW q \in Placed(S), at(p) < at(q)
       PROVE  Packed(S, p) + h(p) <= Packed(S, q)
  <2>1. at(p) + 1 \in 0..n /\ at(q) \in 0..n /\ at(p) + 1 <= at(q)
    BY <1>1, <1>2, <1>4, <1>7, <1>11
  <2>2. c[at(p) + 1] <= c[at(q)]
    BY <1>10, <2>1
  <2>3. c[at(q)] <= Packed(S, q)
    <3>1. Packed(S, q) = IF S.popups[q].hovered THEN at(q) ELSE c[at(q)]
      BY DEF Packed, c, at
    <3>2. QED BY <1>1, <1>7, <3>1
  <2>4. c[at(p) + 1] \in Nat /\ c[at(q)] \in Nat /\ Packed(S, q) \in Nat /\ Packed(S, p) + h(p) \in Nat
    <3>1. \A y \in 0..n : c[y] \in Nat
      BY <1>1
    <3>2. Packed(S, p) \in Nat /\ Packed(S, q) \in Nat /\ h(p) \in Nat
      BY <1>2, <1>8
    <3>3. QED BY <2>1, <3>1, <3>2
  <2>5. c[at(p) + 1] >= Packed(S, p) + h(p)
    BY <1>8
  <2>6. QED BY <2>2, <2>3, <2>4, <2>5
<1>12. QED BY <1>8, <1>11 DEF at, h

\* What packing the stack, revealing what waits and drawing again change: positions, the expiry of
\* what has a popup, and cards, though they take away none but those of the popups in X.
Restacked(S, T, X) ==
  /\ T \in Space
  /\ T.order = S.order /\ T.pending = S.pending /\ T.scenes = S.scenes
  /\ T.pointer = S.pointer /\ T.deferred = S.deferred
  /\ \A x \in Ids :
       /\ T.notes[x].life = S.notes[x].life /\ T.notes[x].timed = S.notes[x].timed
       /\ T.notes[x].height = S.notes[x].height
       /\ T.popups[x].exiting = S.popups[x].exiting /\ T.popups[x].hovered = S.popups[x].hovered
       /\ T.popups[x].owners = S.popups[x].owners /\ T.popups[x].finite = S.popups[x].finite
       /\ x \notin Entered(S) => T.notes[x] = S.notes[x] /\ T.popups[x] = S.popups[x]
       /\ x \in Placed(S) => x \in Placed(T)
       /\ x \in Placed(S) /\ S.popups[x].hovered => T.popups[x].at = S.popups[x].at
  /\ \A i \in Instances, x \in Ids \ X : S.cards[i][x] # NoCard =>
       T.cards[i][x] # NoCard /\ T.cards[i][x].hooked = S.cards[i][x].hooked

\* Nothing has moved.
LEMMA RestackedSelf == ASSUME NEW S \in Space, NEW X PROVE Restacked(S, S, X)
BY DEF Restacked

\* The same, with more popups left aside.
LEMMA RestackedMore ==
  ASSUME NEW S, NEW T, NEW X, NEW Z, Restacked(S, T, X), X \subseteq Z PROVE Restacked(S, T, Z)
BY DEF Restacked

\* One step after another.
LEMMA RestackedTwice ==
  ASSUME NEW S \in Space, NEW T, NEW U, NEW X, Restacked(S, T, X), Restacked(T, U, X)
  PROVE  Restacked(S, U, X)
<1>1. /\ U \in Space
      /\ U.order = S.order /\ U.pending = S.pending /\ U.scenes = S.scenes
      /\ U.pointer = S.pointer /\ U.deferred = S.deferred /\ Entered(T) = Entered(S)
  BY DEF Restacked, Entered
<1>2. ASSUME NEW x \in Ids
      PROVE  /\ U.notes[x].life = S.notes[x].life /\ U.notes[x].timed = S.notes[x].timed
             /\ U.notes[x].height = S.notes[x].height
             /\ U.popups[x].exiting = S.popups[x].exiting /\ U.popups[x].hovered = S.popups[x].hovered
             /\ U.popups[x].owners = S.popups[x].owners /\ U.popups[x].finite = S.popups[x].finite
             /\ x \notin Entered(S) => U.notes[x] = S.notes[x] /\ U.popups[x] = S.popups[x]
             /\ x \in Placed(S) => x \in Placed(U)
             /\ x \in Placed(S) /\ S.popups[x].hovered => U.popups[x].at = S.popups[x].at
  BY <1>1 DEF Restacked
<1>3. ASSUME NEW i \in Instances, NEW x \in Ids \ X, S.cards[i][x] # NoCard
      PROVE  U.cards[i][x] # NoCard /\ U.cards[i][x].hooked = S.cards[i][x].hooked
  BY <1>3 DEF Restacked
<1>4. QED BY <1>1, <1>2, <1>3 DEF Restacked

\* A popup that moves keeps its notification, its hover and the closures that name it.
LEMMA RestackedKeeps ==
  ASSUME NEW S \in Space, NEW T, NEW X, NEW W, NEW Z, Restacked(S, T, Z), Z \cap Ids \subseteq X
  PROVE  /\ Entered(T) = Entered(S) /\ Open(T) = Open(S) /\ Calls(T) = Calls(S)
         /\ \A id \in Ids : Asked(T, id) = Asked(S, id)
         /\ Lives(S, W) => Lives(T, W)
         /\ CallsKnown(S) => CallsKnown(T)
         /\ Hovers(S, X) => Hovers(T, X)
<1>1. Entered(T) = Entered(S) /\ Calls(T) = Calls(S) /\ Entered(S) \subseteq Ids
  BY SpaceIs DEF Restacked, Entered, Calls
<1>2. Open(T) = Open(S) /\ Open(S) \subseteq Ids
  BY <1>1 DEF Restacked, Open
<1>3. \A id : Asked(T, id) = Asked(S, id)
  BY <1>1 DEF Asked
<1>4. Lives(S, W) => Lives(T, W)
  BY <1>1, <1>2 DEF Lives, Restacked
<1>5. CallsKnown(S) => CallsKnown(T)
  <2>1. \A c \in Calls(S) : /\ c.call \in {"close", "reset", "remove"} => c.id \in Ids
                            /\ c.call = "orphans" => c.ids \subseteq Ids
    <3>1. Calls(S) \subseteq Closure
      BY SpaceIs, ToSetIs DEF Calls
    <3>2. QED BY <3>1 DEF Closure
  <2> SUFFICES ASSUME CallsKnown(S) PROVE CallsKnown(T)
    OBVIOUS
  <2>2. ASSUME NEW c \in Calls(S)
        PROVE  /\ c.call \in {"close", "reset"} => T.notes[c.id].life = "closed" \/ c.id \in Entered(T)
               /\ c.call = "remove" => T.notes[c.id].life = "closed"
               /\ c.call = "orphans" => \A id \in c.ids : T.notes[id].life = "closed"
    <3>1. /\ c.call \in {"close", "reset"} => S.notes[c.id].life = "closed" \/ c.id \in Entered(S)
          /\ c.call = "remove" => S.notes[c.id].life = "closed"
          /\ c.call = "orphans" => \A id \in c.ids : S.notes[id].life = "closed"
      BY DEF CallsKnown
    <3>2. \A id \in Ids : T.notes[id].life = S.notes[id].life
      BY DEF Restacked
    <3>3. QED BY <1>1, <2>1, <3>1, <3>2
  <2>3. QED BY <1>1, <2>2 DEF CallsKnown
<1>6. Hovers(S, X) => Hovers(T, X)
  <2> SUFFICES ASSUME Hovers(S, X) PROVE Hovers(T, X)
    OBVIOUS
  <2>1. \A id \in Ids : T.popups[id].owners = S.popups[id].owners /\ T.popups[id].hovered = S.popups[id].hovered
    BY DEF Restacked
  <2>2. T.pointer = S.pointer
    BY DEF Restacked
  <2>3. ASSUME NEW id \in Open(S), S.popups[id].hovered \/ Asked(S, id) PROVE HasCard(T, id)
    <3>1. HasCard(S, id) /\ id \in Ids \ Z
      BY <1>2, <2>3 DEF Hovers
    <3>2. QED BY <3>1 DEF Restacked, HasCard
  <2>4. QED BY <1>2, <1>3, <2>1, <2>2, <2>3 DEF Hovers
<1>7. QED BY <1>1, <1>2, <1>3, <1>4, <1>5, <1>6

\* The parts of a good state.
LEMMA GoodIs ==
  ASSUME NEW S, NEW X, NEW Y, NEW W, Good(S, X, Y, W)
  PROVE  /\ S \in Space /\ Lives(S, W) /\ CallsKnown(S) /\ Layout(S)
         /\ CardsAt(S, X) /\ Hovers(S, X) /\ Expiries(S, Y)
BY DEF Good

\* A good state is whole.
LEMMA WholeIs ==
  ASSUME NEW S, NEW Y, NEW W
  PROVE  /\ Good(S, {}, Y, W) <=> Whole(S, {}, Y, W)
         /\ \A X : Good(S, X, Y, W) => Whole(S, X, Y, W)
BY DEF Good, Whole, Hovers

\* An open popup is that of a live notification, and takes room.
LEMMA OpenIs ==
  ASSUME NEW S \in Space, NEW W, Lives(S, W), NEW id \in Open(S)
  PROVE  id \in Ids /\ id \in Entered(S) /\ S.notes[id].life = "live" /\ S.notes[id].height # 0
BY SpaceIs DEF Lives

\* Packing the stack keeps it a layout: nothing overlaps, although hovered popups stay where they
\* are.
LEMMA CollapseKeeps ==
  ASSUME NEW S, NEW X, NEW Y, NEW W, Good(S, X, Y, W)
  PROVE  LET T == CollapseStack(S) IN Good(T, X, Y, W) /\ Restacked(S, T, {})
<1> DEFINE moved == {id \in Placed(S) : ~Stays(S, id)}
           packed == [id \in Ids |->
             IF id \in moved THEN [S.popups[id] EXCEPT !.at = Cursor(S)[S.popups[id].at]] ELSE S.popups[id]]
           U == [S EXCEPT !.popups = packed]
<1>1. CollapseStack(S) = S \/ CollapseStack(S) = U
  BY DEF CollapseStack
<1>2. S \in Space /\ Lives(S, W) /\ CallsKnown(S) /\ Layout(S) /\ CardsAt(S, X) /\ Hovers(S, X) /\ Expiries(S, Y)
  BY GoodIs
<1>3. CASE CollapseStack(S) = S
  BY <1>2, <1>3, RestackedSelf
<1>4. CASE CollapseStack(S) = U
  <2>1. \A p \in Placed(S) : S.notes[p].height # 0
    BY <1>2, SpaceIs, OpenIs
  <2>2. /\ \A p \in Placed(S) : Packed(S, p) \in Nat /\ Packed(S, p) <= S.popups[p].at
        /\ \A p, q \in Placed(S) : S.popups[p].at < S.popups[q].at =>
             Packed(S, p) + S.notes[p].height <= Packed(S, q)
    BY <1>2, <2>1, CursorPasses
  <2>3. \A x \in Ids : /\ x \in Placed(S) => x \in Ids /\ S.popups[x].at \in Nat /\ S.popups[x].at <= Tallest
                       /\ S.popups[x] \in Popup /\ Tallest \in Nat
    BY <1>2, SpaceIs, PlacedIs, TallestIs
  <2>4. ASSUME NEW x \in Ids
        PROVE  /\ packed[x] \in Popup
               /\ packed[x].exiting = S.popups[x].exiting /\ packed[x].hovered = S.popups[x].hovered
               /\ packed[x].owners = S.popups[x].owners /\ packed[x].finite = S.popups[x].finite
               /\ packed[x].at = IF x \in Placed(S) THEN Packed(S, x) ELSE S.popups[x].at
               /\ x \notin Placed(S) => packed[x] = S.popups[x]
    <3>1. CASE x \in moved
      <4>1. packed[x] = [S.popups[x] EXCEPT !.at = Packed(S, x)]
        BY <3>1 DEF Packed, Stays
      <4>2. Packed(S, x) \in Nat /\ Packed(S, x) <= Tallest /\ x \in Placed(S)
        BY <2>2, <2>3, <3>1
      <4>3. Packed(S, x) \in Queued..Tallest
        BY <4>2, TallestIs DEF Queued
      <4> HIDE DEF packed
      <4>4. QED BY <2>3, <4>1, <4>2, <4>3 DEF Popup
    <3>2. CASE x \notin moved
      <4>1. packed[x] = S.popups[x]
        BY <3>2
      <4>2. x \in Placed(S) => Packed(S, x) = S.popups[x].at
        BY <3>2 DEF Packed, Stays
      <4> HIDE DEF packed
      <4>3. QED BY <2>3, <4>1, <4>2
    <3>3. QED BY <3>1, <3>2
  <2>5. packed \in [Ids -> Popup]
    BY <2>4
  <2> HIDE DEF packed
  <2>6. /\ U.popups = packed /\ U.notes = S.notes /\ U.order = S.order /\ U.pending = S.pending
        /\ U.scenes = S.scenes /\ U.pointer = S.pointer /\ U.deferred = S.deferred /\ U.cards = S.cards
        /\ U \in Space
    BY <1>2, <2>5 DEF Space
  <2> HIDE DEF U
  <2>7. Placed(U) = Placed(S)
    <3>1. \A x \in Ids : x \in Placed(S) => packed[x].at # Queued
      BY <2>2, <2>4 DEF Queued
    <3>2. Entered(S) \subseteq Ids /\ Entered(S) = ToSet(S.order) /\ Entered(S) = ToSet(U.order)
      BY <1>2, <2>6, SpaceIs DEF Entered
    <3>3. QED BY <2>4, <2>6, <3>1, <3>2 DEF Placed
  <2>8. Restacked(S, U, {})
    <3>1. \A x \in Ids : x \in Placed(S) => x \in Entered(S)
      BY <1>2, SpaceIs
    <3>2. \A x \in Ids : x \in Placed(S) /\ S.popups[x].hovered => packed[x].at = S.popups[x].at
      BY <2>4 DEF Packed
    <3>3. QED BY <2>4, <2>6, <2>7, <3>1, <3>2 DEF Restacked
  <2>9. Lives(U, W) /\ CallsKnown(U) /\ Hovers(U, X) /\ Open(U) = Open(S) /\ Entered(U) = Entered(S)
        /\ Calls(U) = Calls(S)
    BY <1>2, <2>8, RestackedKeeps
  <2>10. \A p \in Placed(S) : /\ p \in Ids /\ U.popups[p].at = Packed(S, p) /\ Packed(S, p) \in Nat
                              /\ Packed(S, p) <= S.popups[p].at /\ S.popups[p].at \in Nat
                              /\ S.notes[p].height \in Nat
                              /\ Below(U, p) = Packed(S, p) + S.notes[p].height
                              /\ Below(S, p) = S.popups[p].at + S.notes[p].height
                              /\ Below(U, p) \in Nat /\ Below(S, p) \in Nat /\ Below(U, p) <= Below(S, p)
    BY <1>2, <2>2, <2>4, <2>6, PlacedIs DEF Below
  <2>11. Layout(U)
    <3>1. ASSUME NEW a \in Placed(U), NEW b \in Placed(U), a # b PROVE Apart(U, a, b)
      <4>1. a \in Placed(S) /\ b \in Placed(S) /\ S.notes[a].height # 0 /\ S.notes[b].height # 0
        BY <2>1, <2>7
      <4>2. Apart(S, a, b)
        BY <1>2, <3>1, <4>1 DEF Layout
      <4>3. S.popups[a].at < S.popups[b].at \/ S.popups[b].at < S.popups[a].at
        BY <2>10, <4>1, <4>2 DEF Apart
      <4>4. CASE S.popups[a].at < S.popups[b].at
        BY <2>2, <2>10, <4>1, <4>4 DEF Apart
      <4>5. CASE S.popups[b].at < S.popups[a].at
        BY <2>2, <2>10, <4>1, <4>5 DEF Apart
      <4>6. QED BY <4>3, <4>4, <4>5
    <3>2. ASSUME NEW a \in Placed(U) PROVE Below(U, a) <= Tallest
      <4>1. Below(S, a) <= Tallest /\ a \in Placed(S)
        BY <1>2, <2>7 DEF Layout
      <4>2. QED BY <2>10, <4>1, TallestIs
    <3>3. QED BY <3>1, <3>2 DEF Layout
  <2>12. CardsAt(U, X)
    <3>1. ASSUME NEW i \in Instances, NEW id \in Ids, Shows(S, i, id) PROVE Shows(U, i, id)
      BY <2>7, <2>10, <3>1, SurfacesAre DEF Shows
    <3>2. \A id \in Ids : U.popups[id].exiting = S.popups[id].exiting
      BY <2>4, <2>6
    <3>3. QED BY <1>2, <2>6, <2>7, <2>9, <3>1, <3>2 DEF CardsAt
  <2>13. Expiries(U, Y)
    <3>1. \A id \in Ids : U.popups[id].hovered = S.popups[id].hovered /\ U.popups[id].finite = S.popups[id].finite
      BY <2>4, <2>6
    <3>2. Open(S) \subseteq Ids
      BY <1>2, SpaceIs
    <3>3. QED BY <1>2, <2>6, <2>7, <2>9, <3>1, <3>2 DEF Expiries, Clocked
  <2>14. Good(U, X, Y, W)
    BY <2>6, <2>9, <2>11, <2>12, <2>13 DEF Good
  <2>15. QED BY <1>4, <2>8, <2>14
<1>5. QED BY <1>1, <1>3, <1>4

(****************************** The cards ******************************)

\* A card is there or is not.
LEMMA CardIs ==
  ASSUME NEW S \in Space, NEW i \in Instances, NEW id \in Ids
  PROVE  /\ S.cards[i] \in [Ids -> Card \cup {NoCard}] /\ S.cards[i][id] \in Card \cup {NoCard}
         /\ S.cards[i][id] # NoCard => S.cards[i][id] \in Card
BY SpaceIs

\* No card is none of the cards.
LEMMA NoCardIs == NoCard \notin Card /\ NoCard.moves = "none" /\ \A c \in Card : c.moves \in {"no", "countdown", "exit"}
BY DEF NoCard, Card

\* A new card takes the duration of its popup.
LEMMA NewCardIs ==
  ASSUME NEW S \in Space, NEW id \in Ids
  PROVE  /\ NewCard(S, id) \in Card /\ NewCard(S, id) # NoCard /\ NewCard(S, id).hooked
         /\ NewCard(S, id).finite = S.popups[id].finite /\ NewCard(S, id).moves # "exit"
         /\ NewCard(S, id).moves = "countdown" => S.popups[id].finite
<1>1. S.popups[id].finite \in BOOLEAN
  BY PopupIs
<1>2. NewCard(S, id) \in Card
  BY <1>1 DEF NewCard, Card
<1>3. QED BY <1>2, NoCardIs DEF NewCard

\* The cards of one popup are replaced by others.
LEMMA CardsFrom ==
  ASSUME NEW S \in Space, NEW id \in Ids, NEW new \in [Instances -> Card \cup {NoCard}]
  PROVE  LET T == [S EXCEPT !.cards = [i \in Instances |-> [S.cards[i] EXCEPT ![id] = new[i]]]]
         IN /\ T \in Space
            /\ T.notes = S.notes /\ T.pending = S.pending /\ T.order = S.order /\ T.popups = S.popups
            /\ T.scenes = S.scenes /\ T.pointer = S.pointer /\ T.deferred = S.deferred
            /\ \A i \in Instances : /\ T.cards[i][id] = new[i]
                                    /\ \A x \in Ids : x # id => T.cards[i][x] = S.cards[i][x]
<1> DEFINE c == [i \in Instances |-> [S.cards[i] EXCEPT ![id] = new[i]]]
           T == [S EXCEPT !.cards = c]
<1>1. \A i \in Instances : S.cards[i] \in [Ids -> Card \cup {NoCard}]
  BY SpaceIs
<1>2. c \in [Instances -> [Ids -> Card \cup {NoCard}]]
  BY <1>1
<1>3. \A i \in Instances : c[i][id] = new[i] /\ \A x \in Ids : x # id => c[i][x] = S.cards[i][x]
  BY <1>1
<1> HIDE DEF c
<1>4. /\ T \in Space /\ T.cards = c
      /\ T.notes = S.notes /\ T.pending = S.pending /\ T.order = S.order /\ T.popups = S.popups
      /\ T.scenes = S.scenes /\ T.pointer = S.pointer /\ T.deferred = S.deferred
  BY <1>2 DEF Space
<1>5. QED BY <1>3, <1>4 DEF c

\* What ShowCards makes of the cards of one popup.
LEMMA ShowCardsIs ==
  ASSUME NEW S \in Space, NEW id \in Ids
  PROVE  LET T == ShowCards(S, id)
         IN /\ T \in Space
            /\ T.notes = S.notes /\ T.pending = S.pending /\ T.order = S.order /\ T.popups = S.popups
            /\ T.scenes = S.scenes /\ T.pointer = S.pointer /\ T.deferred = S.deferred
            /\ \A i \in Instances :
                 /\ T.cards[i][id] = IF i \in S.scenes /\ Shows(S, i, id)
                                     THEN IF S.cards[i][id] = NoCard THEN NewCard(S, id) ELSE S.cards[i][id]
                                     ELSE NoCard
                 /\ \A x \in Ids : x # id => T.cards[i][x] = S.cards[i][x]
<1> DEFINE new == [i \in Instances |->
             IF i \in S.scenes /\ Shows(S, i, id)
             THEN IF S.cards[i][id] = NoCard THEN NewCard(S, id) ELSE S.cards[i][id]
             ELSE NoCard]
<1>1. new \in [Instances -> Card \cup {NoCard}]
  BY CardIs, NewCardIs
<1>2. ShowCards(S, id) = [S EXCEPT !.cards = [i \in Instances |-> [S.cards[i] EXCEPT ![id] = new[i]]]]
  BY DEF ShowCards, WithCards
<1>3. \A i \in Instances :
        new[i] = IF i \in S.scenes /\ Shows(S, i, id)
                 THEN IF S.cards[i][id] = NoCard THEN NewCard(S, id) ELSE S.cards[i][id]
                 ELSE NoCard
  OBVIOUS
<1> HIDE DEF new
<1>4. QED BY <1>1, <1>2, <1>3, CardsFrom

\* The cards of a popup are where its place is, unless it is one of Z.
Sits(S, Z, id) == id \in Z \/ \A i \in Instances : S.cards[i][id] # NoCard => Shows(S, i, id)

\* ShowCards puts the cards of a popup where its placement says, and takes away none that is there
\* already, but for those of the popups in Z.
LEMMA ShowCardsFrom ==
  ASSUME NEW S, NEW X, NEW Y, NEW Z, NEW W, NEW id \in Open(S), Mostly(S, X, Z, Y, W), Sits(S, Z, id)
  PROVE  LET T == ShowCards(S, id)
         IN /\ Mostly(T, X, Z, Y, W) /\ CardsAt(T, X \ {id}) /\ Restacked(S, T, Z) /\ T.popups = S.popups
            /\ \A i \in Instances : S.cards[i][id] # NoCard /\ Shows(S, i, id) => T.cards[i][id] = S.cards[i][id]
<1> DEFINE T == ShowCards(S, id)
<1>1. S \in Space /\ Lives(S, W) /\ CallsKnown(S) /\ Layout(S) /\ CardsAt(S, X) /\ Hovers(S, Z) /\ Expiries(S, Y)
  BY DEF Mostly
<1>2. id \in Ids /\ id \in Entered(S) /\ ~S.popups[id].exiting /\ Entered(S) \subseteq Ids /\ Open(S) \subseteq Ids
  BY <1>1, SpaceIs DEF Open
<1>3. /\ T \in Space
      /\ T.notes = S.notes /\ T.pending = S.pending /\ T.order = S.order /\ T.popups = S.popups
      /\ T.scenes = S.scenes /\ T.pointer = S.pointer /\ T.deferred = S.deferred
      /\ \A i \in Instances :
           /\ T.cards[i][id] = IF i \in S.scenes /\ Shows(S, i, id)
                               THEN IF S.cards[i][id] = NoCard THEN NewCard(S, id) ELSE S.cards[i][id]
                               ELSE NoCard
           /\ \A x \in Ids : x # id => T.cards[i][x] = S.cards[i][x]
  BY <1>1, <1>2, ShowCardsIs
<1>4. /\ NewCard(S, id) # NoCard /\ NewCard(S, id).finite = S.popups[id].finite
      /\ NewCard(S, id).moves # "exit" /\ (NewCard(S, id).moves = "countdown" => S.popups[id].finite)
  BY <1>1, <1>2, NewCardIs
<1> HIDE DEF T
<1>5. Placed(T) = Placed(S) /\ Entered(T) = Entered(S) /\ Open(T) = Open(S) /\ Calls(T) = Calls(S)
  BY <1>3 DEF Placed, Entered, Open, Calls
<1>6. \A i, x : Shows(T, i, x) = Shows(S, i, x)
  BY <1>3, <1>5 DEF Shows, Below
<1>7. Restacked(S, T, Z)
  <2>1. ASSUME NEW i \in Instances, NEW x \in Ids \ Z, S.cards[i][x] # NoCard
        PROVE  T.cards[i][x] # NoCard /\ T.cards[i][x].hooked = S.cards[i][x].hooked
    <3>1. i \in S.scenes /\ (x = id => Shows(S, i, x))
      BY <1>1, <2>1 DEF CardsAt, Sits
    <3>2. QED BY <1>2, <1>3, <2>1, <3>1
  <2>2. QED BY <1>3, <1>5, <2>1 DEF Restacked
<1>8. Lives(T, W) /\ CallsKnown(T)
  BY <1>1, <1>7, RestackedKeeps
<1>9. Hovers(T, Z)
  <2>1. Z \cap Ids \subseteq Z
    OBVIOUS
  <2>2. QED BY <1>1, <1>7, <2>1, RestackedKeeps
<1>10. Layout(T)
  BY <1>1, <1>3, <1>5 DEF Layout, Apart, Below
<1>11. \A i \in Instances : Surfaces[i] = Tallest /\ id \in Placed(S) => Shows(S, i, id)
  BY <1>1 DEF Layout, Shows
<1>12. CardsAt(T, X \ {id})
  <2>1. ASSUME NEW i \in Instances, NEW x \in Ids, T.cards[i][x] # NoCard
        PROVE  /\ i \in S.scenes /\ x \in Entered(S)
               /\ T.cards[i][x].moves = "exit" => S.popups[x].exiting
               /\ x \in X \ {id} \/ S.popups[x].exiting \/ Shows(S, i, x)
    <3>1. CASE x = id
      <4>1. i \in S.scenes /\ Shows(S, i, id)
        BY <1>3, <2>1, <3>1
      <4>2. S.cards[i][id] # NoCard => (S.cards[i][id].moves = "exit" => S.popups[id].exiting)
        BY <1>1, <1>2 DEF CardsAt
      <4>3. QED BY <1>2, <1>3, <1>4, <3>1, <4>1, <4>2
    <3>2. CASE x # id
      BY <1>1, <1>3, <2>1, <3>2 DEF CardsAt
    <3>3. QED BY <3>1, <3>2
  <2>2. ASSUME NEW i \in S.scenes, NEW x \in Placed(S) \ (X \ {id}), Surfaces[i] = Tallest
        PROVE  T.cards[i][x] # NoCard
    <3>1. i \in Instances /\ x \in Ids
      BY <1>1, SpaceIs
    <3>2. CASE x = id
      BY <1>3, <1>4, <1>11, <2>2, <3>1, <3>2
    <3>3. CASE x # id
      BY <1>1, <1>3, <2>2, <3>1, <3>3 DEF CardsAt
    <3>4. QED BY <3>2, <3>3
  <2>3. QED BY <1>3, <1>5, <1>6, <2>1, <2>2 DEF CardsAt
<1>13. CardsAt(T, X)
  BY <1>12 DEF CardsAt
<1>14. Expiries(T, Y)
  <2>1. ASSUME NEW x \in Open(S) \ Y, NEW i \in Instances, T.cards[i][x] # NoCard
        PROVE  /\ T.cards[i][x].finite = S.notes[x].timed
               /\ T.cards[i][x].moves = "countdown" => S.notes[x].timed
    <3>1. /\ S.popups[x].finite = S.notes[x].timed
          /\ S.cards[i][x] # NoCard => /\ S.cards[i][x].finite = S.notes[x].timed
                                       /\ S.cards[i][x].moves = "countdown" => S.notes[x].timed
      BY <1>1 DEF Expiries, Clocked
    <3>2. QED BY <1>2, <1>3, <1>4, <2>1, <3>1
  <2>2. QED BY <1>1, <1>3, <1>5, <2>1 DEF Expiries, Clocked
<1>16. \A i \in Instances : S.cards[i][id] # NoCard /\ Shows(S, i, id) => T.cards[i][id] = S.cards[i][id]
  BY <1>1, <1>2, <1>3 DEF CardsAt
<1>15. QED BY <1>3, <1>7, <1>8, <1>9, <1>10, <1>12, <1>13, <1>14, <1>16 DEF T, Mostly

\* The same, of a good state.
LEMMA ShowCardsKeeps ==
  ASSUME NEW S, NEW X, NEW Y, NEW W, Good(S, X, Y, W), NEW id \in Open(S)
  PROVE  LET T == ShowCards(S, id)
         IN Good(T, X, Y, W) /\ CardsAt(T, X \ {id}) /\ Restacked(S, T, X) /\ T.popups = S.popups
<1>1. Mostly(S, X, X, Y, W) /\ S \in Space /\ CardsAt(S, X)
  BY DEF Good, Mostly
<1>2. Sits(S, X, id)
  BY <1>1, SpaceIs DEF CardsAt, Open, Sits
<1> DEFINE T == ShowCards(S, id)
<1>3. Mostly(T, X, X, Y, W) /\ CardsAt(T, X \ {id}) /\ Restacked(S, T, X) /\ T.popups = S.popups
  <2> DEFINE Z == X
  <2>1. Mostly(S, X, Z, Y, W)
    BY <1>1
  <2>2. Sits(S, Z, id)
    BY <1>2
  <2>3. T = ShowCards(S, id)
    OBVIOUS
  <2> HIDE DEF T, Z
  <2>4. Mostly(T, X, Z, Y, W) /\ CardsAt(T, X \ {id}) /\ Restacked(S, T, Z)
    BY <2>1, <2>2, <2>3, ShowCardsFrom
  <2>5. T.popups = S.popups
    BY <1>1, <2>3, ShowCardsIs, SpaceIs
  <2>6. QED BY <2>4, <2>5 DEF Z
<1> HIDE DEF T
<1>4. Good(T, X, Y, W) /\ CardsAt(T, X \ {id}) /\ Restacked(S, T, X) /\ T.popups = S.popups
  BY <1>3 DEF Good, Mostly
<1>5. QED BY <1>4 DEF T

(****************************** The reveal ******************************)

\* A popup that waits is not under the pointer, and no end of a hover is on its way to it.
LEMMA WaitingIs ==
  ASSUME NEW S, NEW X, NEW Y, NEW W, Good(S, X, Y, W), NEW id \in Open(S), S.popups[id].at = Queued
  PROVE  ~S.popups[id].hovered /\ ~Asked(S, id)
<1>1. S \in Space /\ CardsAt(S, X) /\ Hovers(S, X) /\ id \in Ids /\ ~S.popups[id].exiting
  BY GoodIs, SpaceIs DEF Open
<1>2. CASE id \in X
  BY <1>1, <1>2 DEF Hovers
<1>3. CASE id \notin X
  <2>1. ~HasCard(S, id)
    BY <1>1, <1>3 DEF HasCard, CardsAt, Shows, Placed
  <2>2. QED BY <1>1, <2>1 DEF Hovers
<1>4. QED BY <1>2, <1>3

\* A popup that waits is given a place where it fits.
Place(S, id, y) ==
  LET T == [S EXCEPT !.popups[id].at = y]
  IN IF S.notes[id].timed THEN Resume(T, id) ELSE T

\* What Place changes.
LEMMA PlaceIs ==
  ASSUME NEW S \in Space, NEW id \in Ids, NEW y \in 0..Tallest
  PROVE  LET T == Place(S, id, y)
         IN /\ T \in Space
            /\ T.pending = S.pending /\ T.order = S.order /\ T.cards = S.cards
            /\ T.scenes = S.scenes /\ T.pointer = S.pointer /\ T.deferred = S.deferred
            /\ \A x \in Ids : x # id => T.notes[x] = S.notes[x] /\ T.popups[x] = S.popups[x]
            /\ T.popups[id].at = y /\ T.popups[id].exiting = S.popups[id].exiting
            /\ T.popups[id].hovered = S.popups[id].hovered /\ T.popups[id].owners = S.popups[id].owners
            /\ T.popups[id].finite = S.popups[id].finite
            /\ T.notes[id].life = S.notes[id].life /\ T.notes[id].timed = S.notes[id].timed
            /\ T.notes[id].height = S.notes[id].height
            /\ S.notes[id].timed /\ S.notes[id].life = "live" => T.notes[id].expiring = TRUE
            /\ ~S.notes[id].timed => T.notes[id] = S.notes[id]
<1> DEFINE p == [S.popups EXCEPT ![id] = [S.popups[id] EXCEPT !.at = y]]
           n == [S.notes EXCEPT ![id] = [S.notes[id] EXCEPT !.expiring = S.notes[id].life = "live"]]
           T == [S EXCEPT !.popups = p]
           U == [T EXCEPT !.notes = n]
<1>1. S.popups \in [Ids -> Popup] /\ S.notes \in [Ids -> Note] /\ y \in Queued..Tallest
  BY SpaceIs, TallestIs DEF Queued
<1>2. S.popups[id] \in Popup /\ S.notes[id] \in Note
  BY <1>1
<1>3. [S.popups[id] EXCEPT !.at = y] \in Popup
  BY <1>1, <1>2 DEF Popup
<1>4. [S.notes[id] EXCEPT !.expiring = S.notes[id].life = "live"] \in Note
  BY <1>2 DEF Note
<1>5. /\ p \in [Ids -> Popup] /\ \A x \in Ids : x # id => p[x] = S.popups[x]
      /\ p[id].at = y /\ p[id].exiting = S.popups[id].exiting /\ p[id].hovered = S.popups[id].hovered
      /\ p[id].owners = S.popups[id].owners /\ p[id].finite = S.popups[id].finite
  <2>1. p \in [Ids -> Popup] /\ p[id] = [S.popups[id] EXCEPT !.at = y] /\ \A x \in Ids : x # id => p[x] = S.popups[x]
    BY <1>1, <1>3
  <2> HIDE DEF p
  <2>2. QED BY <1>2, <2>1 DEF Popup
<1>6. /\ n \in [Ids -> Note] /\ \A x \in Ids : x # id => n[x] = S.notes[x]
      /\ n[id].life = S.notes[id].life /\ n[id].timed = S.notes[id].timed /\ n[id].height = S.notes[id].height
      /\ S.notes[id].life = "live" => n[id].expiring = TRUE
  <2>1. /\ n \in [Ids -> Note] /\ n[id] = [S.notes[id] EXCEPT !.expiring = S.notes[id].life = "live"]
        /\ \A x \in Ids : x # id => n[x] = S.notes[x]
    BY <1>1, <1>4
  <2> HIDE DEF n
  <2>2. QED BY <1>2, <2>1 DEF Note
<1>7. Place(S, id, y) = IF S.notes[id].timed THEN U ELSE T
  <2>1. T.notes = S.notes
    BY DEF Space
  <2>2. QED BY <2>1 DEF Place, Resume
<1> HIDE DEF p, n
<1>8. /\ T \in Space /\ T.popups = p /\ T.notes = S.notes
      /\ T.pending = S.pending /\ T.order = S.order /\ T.cards = S.cards
      /\ T.scenes = S.scenes /\ T.pointer = S.pointer /\ T.deferred = S.deferred
  BY <1>5 DEF Space
<1>9. /\ U \in Space /\ U.popups = p /\ U.notes = n
      /\ U.pending = S.pending /\ U.order = S.order /\ U.cards = S.cards
      /\ U.scenes = S.scenes /\ U.pointer = S.pointer /\ U.deferred = S.deferred
  BY <1>5, <1>6 DEF Space
<1> HIDE DEF T, U
<1>10. CASE S.notes[id].timed
  BY <1>5, <1>6, <1>7, <1>9, <1>10
<1>11. CASE ~S.notes[id].timed
  BY <1>5, <1>7, <1>8, <1>11
<1>12. QED BY <1>10, <1>11

\* A popup placed where it fits leaves the state good, its cards aside.
LEMMA PlaceKeeps ==
  ASSUME NEW S, NEW X, NEW Y, NEW W, Good(S, X, Y, W), NEW id \in Open(S), S.popups[id].at = Queued,
         NEW y \in 0..Tallest, Fits(S, S.notes[id].height, y)
  PROVE  LET T == Place(S, id, y)
         IN /\ Good(T, X \cup {id}, Y, W) /\ Restacked(S, T, {}) /\ id \in Placed(T)
            /\ \A x \in Ids : x # id => T.popups[x] = S.popups[x]
<1> DEFINE T == Place(S, id, y)
<1>1. S \in Space /\ Lives(S, W) /\ CallsKnown(S) /\ Layout(S) /\ CardsAt(S, X) /\ Hovers(S, X) /\ Expiries(S, Y)
  BY GoodIs
<1>2. id \in Ids /\ id \in Entered(S) /\ ~S.popups[id].exiting /\ Entered(S) \subseteq Ids /\ Open(S) \subseteq Ids
      /\ S.notes[id].life = "live" /\ y # Queued
  BY <1>1, SpaceIs, OpenIs, TallestIs DEF Open, Queued
<1>3. /\ T \in Space
      /\ T.pending = S.pending /\ T.order = S.order /\ T.cards = S.cards
      /\ T.scenes = S.scenes /\ T.pointer = S.pointer /\ T.deferred = S.deferred
      /\ \A x \in Ids : x # id => T.notes[x] = S.notes[x] /\ T.popups[x] = S.popups[x]
      /\ T.popups[id].at = y /\ T.popups[id].exiting = S.popups[id].exiting
      /\ T.popups[id].hovered = S.popups[id].hovered /\ T.popups[id].owners = S.popups[id].owners
      /\ T.popups[id].finite = S.popups[id].finite
      /\ T.notes[id].life = S.notes[id].life /\ T.notes[id].timed = S.notes[id].timed
      /\ T.notes[id].height = S.notes[id].height
      /\ S.notes[id].timed /\ S.notes[id].life = "live" => T.notes[id].expiring = TRUE
      /\ ~S.notes[id].timed => T.notes[id] = S.notes[id]
  BY <1>1, <1>2, PlaceIs
<1> HIDE DEF T
<1>4. ~S.popups[id].hovered /\ ~Asked(S, id)
  BY WaitingIs
<1>5. Placed(T) = Placed(S) \cup {id} /\ id \notin Placed(S) /\ Placed(S) \subseteq Ids
  <2>1. Entered(T) = Entered(S)
    BY <1>3 DEF Entered
  <2>2. Placed(S) = {x \in Entered(S) : ~S.popups[x].exiting /\ S.popups[x].at # Queued}
    BY DEF Placed, Entered
  <2>3. Placed(T) = {x \in Entered(T) : ~T.popups[x].exiting /\ T.popups[x].at # Queued}
    BY DEF Placed, Entered
  <2>4. QED BY <1>2, <1>3, <2>1, <2>2, <2>3
<1>6. Restacked(S, T, {})
  BY <1>2, <1>3, <1>5 DEF Restacked
<1>7. Lives(T, W) /\ CallsKnown(T) /\ Hovers(T, X) /\ Open(T) = Open(S) /\ Entered(T) = Entered(S)
      /\ Calls(T) = Calls(S) /\ \A x \in Ids : Asked(T, x) = Asked(S, x)
  BY <1>1, <1>6, RestackedKeeps
<1>8. Hovers(T, X \cup {id})
  BY <1>2, <1>3, <1>4, <1>7 DEF Hovers
<1>9. \A x \in Placed(S) : Below(T, x) = Below(S, x) /\ T.popups[x].at = S.popups[x].at
  BY <1>3, <1>5 DEF Below
<1>10. /\ Below(T, id) = y + S.notes[id].height /\ y + S.notes[id].height <= Tallest
       /\ \A p \in Placed(S) : y + S.notes[id].height <= S.popups[p].at \/ Below(S, p) <= y
  BY <1>3 DEF Below, Fits
<1>11. Layout(T)
  <2>1. ASSUME NEW a \in Placed(T), NEW b \in Placed(T), a # b PROVE Apart(T, a, b)
    <3>1. CASE a # id /\ b # id
      BY <1>1, <1>5, <1>9, <2>1, <3>1 DEF Layout, Apart
    <3>2. CASE a = id
      BY <1>3, <1>5, <1>9, <1>10, <2>1, <3>2 DEF Apart
    <3>3. CASE b = id
      BY <1>3, <1>5, <1>9, <1>10, <2>1, <3>3 DEF Apart
    <3>4. QED BY <3>1, <3>2, <3>3
  <2>2. \A a \in Placed(T) : Below(T, a) <= Tallest
    BY <1>1, <1>5, <1>9, <1>10 DEF Layout
  <2>3. QED BY <2>1, <2>2 DEF Layout
<1>12. CardsAt(T, X \cup {id})
  <2>1. ASSUME NEW i \in Instances, NEW x \in Ids, Shows(S, i, x) PROVE Shows(T, i, x)
    BY <1>5, <1>9, <2>1 DEF Shows
  <2>2. \A x \in Ids : T.popups[x].exiting = S.popups[x].exiting
    BY <1>3
  <2>3. \A x \in Placed(T) \ (X \cup {id}) : x \in Placed(S) \ X
    BY <1>5
  <2>4. QED BY <1>1, <1>3, <1>7, <2>1, <2>2, <2>3 DEF CardsAt
<1>13. Expiries(T, Y)
  <2>1. ASSUME NEW x \in Open(S) \ Y
        PROVE  /\ T.notes[x].expiring <=> T.notes[x].timed /\ x \in Placed(T) /\ ~T.popups[x].hovered
               /\ T.popups[x].hovered => x \in Placed(T)
               /\ T.popups[x].finite = T.notes[x].timed
               /\ T.notes[x].timed = S.notes[x].timed
    <3>1. /\ x \in Ids
          /\ S.notes[x].expiring <=> S.notes[x].timed /\ x \in Placed(S) /\ ~S.popups[x].hovered
          /\ S.popups[x].hovered => x \in Placed(S)
          /\ S.popups[x].finite = S.notes[x].timed
      BY <1>1, <1>2 DEF Expiries, Clocked
    <3>2. CASE x = id
      BY <1>2, <1>3, <1>4, <1>5, <3>1, <3>2
    <3>3. CASE x # id
      BY <1>3, <1>5, <3>1, <3>3
    <3>4. QED BY <3>2, <3>3
  <2>2. QED BY <1>1, <1>2, <1>3, <1>7, <2>1 DEF Expiries, Clocked
<1>14. QED BY <1>3, <1>5, <1>6, <1>7, <1>8, <1>11, <1>12, <1>13 DEF Good, T

\* A popup that looks for a place takes one if there is one, and disturbs no other.
LEMMA RevealKeeps ==
  ASSUME NEW S, NEW X, NEW Y, NEW W, Good(S, X, Y, W), NEW id \in Entered(S)
  PROVE  LET T == Reveal(S, id)
         IN /\ Good(T, X, Y, W) /\ Restacked(S, T, X)
            /\ \A x \in Ids : x \in Placed(S) \/ x # id => T.popups[x] = S.popups[x]
            /\ id \in Open(T) /\ T.popups[id].at = Queued => FindPlacement(T, T.notes[id].height) = Queued
<1> DEFINE y == FindPlacement(S, S.notes[id].height)
           P == Place(S, id, y)
<1>1. S \in Space /\ id \in Ids /\ S.notes[id].height \in Nat
  BY GoodIs, SpaceIs, PopupIs
<1>2. Reveal(S, id) = IF S.popups[id].exiting \/ id \in Placed(S) \/ y = Queued THEN S ELSE ShowCards(P, id)
  BY DEF Reveal, Place
<1>3. CASE S.popups[id].exiting \/ id \in Placed(S) \/ y = Queued
  <2>1. Reveal(S, id) = S
    BY <1>2, <1>3
  <2>2. id \in Open(S) /\ S.popups[id].at = Queued => y = Queued
    BY <1>3 DEF Open, Placed
  <2>3. QED BY <1>1, <2>1, <2>2, RestackedSelf
<1>4. CASE ~S.popups[id].exiting /\ id \notin Placed(S) /\ y # Queued
  <2>1. id \in Open(S) /\ S.popups[id].at = Queued
    BY <1>4 DEF Open, Placed, Entered
  <2>2. y \in 0..Tallest /\ Fits(S, S.notes[id].height, y)
    BY <1>1, <1>4, PlacementIs
  <2> HIDE DEF y
  <2>3. /\ Good(P, X \cup {id}, Y, W) /\ Restacked(S, P, {}) /\ id \in Placed(P)
        /\ \A x \in Ids : x # id => P.popups[x] = S.popups[x]
    BY <2>1, <2>2, PlaceKeeps
  <2>4. \A x \in Ids : x # id => P.popups[x] = S.popups[x]
    BY <2>3
  <2> HIDE DEF P
  <2> DEFINE V == ShowCards(P, id)
             Z == X \cup {id}
  <2>5. P \in Space /\ id \in Open(P)
    BY <2>3, GoodIs, SpaceIs
  <2>6. Good(V, Z, Y, W) /\ CardsAt(V, Z \ {id}) /\ Restacked(P, V, Z) /\ V.popups = P.popups
    BY <2>3, <2>5, ShowCardsKeeps
  <2>7. Reveal(S, id) = V
    BY <1>2, <1>4
  <2> HIDE DEF V
  <2>8. Good(V, X, Y, W)
    <3>1. CardsAt(V, X)
      BY <2>6 DEF CardsAt
    <3>2. Hovers(V, X)
      BY <2>6 DEF Good, Hovers
    <3>3. QED BY <2>6, <3>1, <3>2 DEF Good
  <2>9. id \in Placed(V)
    <3>1. V.popups = P.popups /\ V.order = P.order
      BY <2>6 DEF Restacked
    <3>2. QED BY <2>3, <3>1 DEF Placed
  <2>10. V.popups[id].at # Queued
    BY <2>9 DEF Placed
  <2>11. Restacked(S, V, X)
    <3>1. Restacked(S, V, Z)
      <4>1. Restacked(S, P, Z)
        BY <2>3 DEF Restacked
      <4>2. QED BY <1>1, <2>6, <4>1, RestackedTwice
    <3>2. ASSUME id \notin X, NEW i \in Instances, S.cards[i][id] # NoCard PROVE FALSE
      BY <1>1, <2>1, <3>2, GoodIs DEF CardsAt, Shows, Placed, Open
    <3>3. QED BY <3>1, <3>2 DEF Restacked
  <2>12. QED BY <1>4, <2>4, <2>6, <2>7, <2>8, <2>10, <2>11
<1>5. QED BY <1>3, <1>4

\* What has no place in a stack has none in one with more popups.
LEMMA NoRoomStays ==
  ASSUME NEW S \in Space, NEW T \in Space, NEW h \in Nat, FindPlacement(S, h) = Queued,
         \A p \in Placed(S) : /\ p \in Placed(T) /\ T.popups[p].at = S.popups[p].at
                              /\ T.notes[p].height = S.notes[p].height
  PROVE  FindPlacement(T, h) = Queued
<1>1. \A z \in Nat : ~Fits(S, h, z)
  BY PlacementIs
<1>2. \A p \in Placed(S) : Below(T, p) = Below(S, p)
  BY DEF Below
<1>3. \A z \in Nat : Fits(T, h, z) => Fits(S, h, z)
  BY <1>2 DEF Fits
<1>4. QED BY <1>1, <1>3, PlacementIs

\* The loop of revealQueuedEntries, as a run of steps.
LEMMA RevealLoop ==
  ASSUME NEW D, NEW S \in D, NEW ids \in Seq(Ids),
         \A k \in 1..Len(ids), T \in D : Reveal(T, ids[k]) \in D
  PROVE  LET n == Len(ids)
         IN \E run \in [0..n -> D] :
              /\ run[0] = S /\ \A k \in 1..n : run[k] = Reveal(run[k - 1], ids[k])
              /\ run[n] = Each(Reveal, S, ids)
<1> DEFINE n == Len(ids)
           F == [k \in 1..n |-> [T \in D |-> Reveal(T, ids[k])]]
           Eq(f) == f = [k \in 0..n |-> IF k = 0 THEN S ELSE Reveal(f[k - 1], ids[k])]
           run == CHOOSE f : Eq(f)
<1>1. n \in Nat
  BY ToSetIs
<1>2. Each(Reveal, S, ids) = run[n]
  BY DEF Each
<1>3. F \in [1..n -> [D -> D]]
  OBVIOUS
<1>4. PICK g \in [0..n -> D] : g[0] = S /\ \A k \in 1..n : g[k] = F[k][g[k - 1]]
  <2> HIDE DEF F, n, Eq
  <2>1. S \in D /\ F \in [1..n -> [D -> D]] /\ n \in Nat
    BY <1>1, <1>3
  <2>2. QED BY ONLY <2>1, RunExists
<1>5. Eq(g)
  <2>1. \A k \in 1..n : k - 1 \in 0..n /\ g[k - 1] \in D
    <3> HIDE DEF F, n
    <3>1. QED BY <1>1, <1>4
  <2>2. \A k \in 1..n : g[k] = Reveal(g[k - 1], ids[k])
    BY <1>4, <2>1
  <2>3. \A k \in 0..n : k = 0 \/ k \in 1..n
    BY <1>1
  <2> HIDE DEF F, n
  <2>4. \A k \in 0..n : g[k] = IF k = 0 THEN S ELSE Reveal(g[k - 1], ids[k])
    BY <1>4, <2>2, <2>3
  <2>5. QED BY <1>4, <2>4
<1>6. Eq(run)
  <2> HIDE DEF Eq
  <2>1. QED BY <1>5
<1> HIDE DEF run, F, n
<1>7. run = [k \in 0..n |-> IF k = 0 THEN S ELSE Reveal(run[k - 1], ids[k])]
  BY <1>6
<1>8. run[0] = S /\ \A k \in 1..n : run[k] = Reveal(run[k - 1], ids[k])
  <2>1. \A k \in 0..n : run[k] = IF k = 0 THEN S ELSE Reveal(run[k - 1], ids[k])
    BY <1>7
  <2> HIDE DEF Eq
  <2>2. 0 \in 0..n /\ \A k \in 1..n : k \in 0..n /\ k # 0
    BY <1>1
  <2>3. QED BY <2>1, <2>2
<1> HIDE DEF Eq
<1>9. \A k \in 0..n : run[k] \in D
  <2>1. \A k \in 1..n : run[k - 1] \in D => run[k] \in D
    BY <1>8 DEF n
  <2>2. QED BY <1>1, <1>8, <2>1, RunStays
<1>10. run \in [0..n -> D]
  BY <1>7, <1>9
<1>11. QED BY <1>2, <1>8, <1>10 DEF n

\* revealQueuedEntries leaves no gap in front of what waits.
LEMMA RevealAllKeeps ==
  ASSUME NEW S, NEW X, NEW Y, NEW W, Good(S, X, Y, W)
  PROVE  LET T == RevealQueuedEntries(S)
         IN /\ Good(T, X, Y, W) /\ Restacked(S, T, X) /\ Roomless(T)
            /\ \A x \in Placed(S) : T.popups[x] = S.popups[x]
<1> DEFINE ids == S.order
           n == Len(ids)
           In2(T) == Good(T, X, Y, W) /\ Restacked(S, T, X) /\ \A x \in Placed(S) : T.popups[x] = S.popups[x]
           D == {T \in Space : In2(T)}
<1>1. S \in Space /\ n \in Nat /\ Entered(S) = {ids[k] : k \in 1..n} /\ Placed(S) \subseteq Ids /\ Entered(S) \subseteq Ids
  BY GoodIs, SpaceIs, ToSetIs DEF Entered
<1>2. S \in D
  BY <1>1, RestackedSelf
<1>3. ASSUME NEW k \in 1..n, NEW T \in D PROVE Reveal(T, ids[k]) \in D
  <2> DEFINE id == ids[k]
             U == Reveal(T, id)
  <2>1. T \in Space /\ Good(T, X, Y, W) /\ Restacked(S, T, X) /\ \A x \in Placed(S) : T.popups[x] = S.popups[x]
    OBVIOUS
  <2>2. id \in Entered(T)
    BY <1>1, <2>1 DEF Restacked, Entered
  <2> HIDE DEF id
  <2>3. /\ Good(U, X, Y, W) /\ Restacked(T, U, X)
        /\ \A x \in Ids : x \in Placed(T) \/ x # id => U.popups[x] = T.popups[x]
    BY <2>1, <2>2, RevealKeeps
  <2> HIDE DEF U
  <2>4. Restacked(S, U, X) /\ U \in Space
    BY <1>1, <2>1, <2>3, RestackedTwice, GoodIs
  <2>5. \A x \in Placed(S) : U.popups[x] = S.popups[x]
    BY <1>1, <2>1, <2>3 DEF Restacked
  <2>6. QED BY <2>3, <2>4, <2>5 DEF U, id
<1>4. PICK run \in [0..n -> D] :
        /\ run[0] = S /\ \A k \in 1..n : run[k] = Reveal(run[k - 1], ids[k])
        /\ run[n] = Each(Reveal, S, ids)
  <2>1. ids \in Seq(Ids)
    BY <1>1, SpaceIs
  <2> HIDE DEF D, ids
  <2>2. S \in D /\ \A k \in 1..n, T \in D : Reveal(T, ids[k]) \in D
    BY <1>2, <1>3
  <2>3. QED BY <2>1, <2>2, RevealLoop
<1>5. RevealQueuedEntries(S) = run[n]
  BY <1>4 DEF RevealQueuedEntries
<1> HIDE DEF D, n, ids
<1>6. \A k \in 1..n : run[k] = Reveal(run[k - 1], ids[k])
  BY <1>4
<1>7. \A k \in 0..n : run[k] \in D
  BY <1>4
<1>8. \A T \in D : T \in Space /\ In2(T)
  BY DEF D
<1>9. \A k \in 1..n : ids[k] \in Entered(S) /\ ids[k] \in Ids
  BY <1>1
<1> DEFINE NoRoom(T, id) == id \in Open(S) /\ T.popups[id].at = Queued => FindPlacement(T, T.notes[id].height) = Queued
<1>10. ASSUME NEW k \in 0..n PROVE \A j \in 1..k : NoRoom(run[k], ids[j])
  <2> DEFINE M == {m \in Nat : m <= n => \A j \in 1..m : NoRoom(run[m], ids[j])}
  <2>1. 0 \in M
    OBVIOUS
  <2>2. ASSUME NEW m \in M PROVE m + 1 \in M
    <3> HIDE DEF NoRoom, In2
    <3> SUFFICES ASSUME m + 1 <= n, NEW j \in 1..(m + 1) PROVE NoRoom(run[m + 1], ids[j])
      OBVIOUS
    <3> DEFINE T == run[m]
               U == run[m + 1]
               id == ids[m + 1]
    <3>1. m \in 0..n /\ m + 1 \in 1..n /\ (m + 1) - 1 = m /\ m + 1 \in 0..n /\ j \in 1..n
      BY <1>1
    <3>2. T \in D /\ U \in D /\ U = Reveal(T, id)
      BY <1>6, <1>7, <3>1
    <3>3. \A i \in 1..m : NoRoom(T, ids[i])
      BY <1>1
    <3>4. ids[j] \in Ids /\ id \in Ids /\ id \in Entered(S)
      BY <1>9, <3>1
    <3> HIDE DEF T, U, id
    <3>5. T \in Space /\ U \in Space /\ In2(T) /\ In2(U)
      BY <1>8, <3>2
    <3>6. Entered(T) = Entered(S) /\ Open(T) = Open(S) /\ Open(U) = Open(S)
      BY <3>5, <1>1, SpaceIs DEF In2, Restacked, Entered, Open
    <3>7. /\ Restacked(T, U, X)
          /\ \A x \in Ids : x \in Placed(T) \/ x # id => U.popups[x] = T.popups[x]
          /\ id \in Open(U) /\ U.popups[id].at = Queued => FindPlacement(U, U.notes[id].height) = Queued
      BY <3>2, <3>4, <3>5, <3>6, RevealKeeps DEF In2
    <3>8. CASE ids[j] = id
      <4>1. NoRoom(U, id)
        BY <3>6, <3>7 DEF NoRoom
      <4>2. QED BY <3>8, <4>1 DEF U
    <3>9. CASE ids[j] # id
      <4>1. j \in 1..m
        <5>1. j = m + 1 \/ j \in 1..m
          BY <1>1
        <5>2. QED BY <3>9, <5>1 DEF id
      <4> DEFINE x == ids[j]
      <4>2. U.popups[x] = T.popups[x] /\ NoRoom(T, x) /\ x \in Ids /\ U.notes[x].height = T.notes[x].height
        BY <3>3, <3>4, <3>7, <3>9, <4>1 DEF Restacked
      <4> HIDE DEF x
      <4>3. T.notes[x].height \in Nat
        BY <3>5, <4>2, PopupIs
      <4>4. \A p \in Placed(T) : /\ p \in Placed(U) /\ U.popups[p].at = T.popups[p].at
                                 /\ U.notes[p].height = T.notes[p].height
        BY <3>5, <3>7, SpaceIs DEF Restacked
      <4>5. FindPlacement(T, T.notes[x].height) = Queued => FindPlacement(U, T.notes[x].height) = Queued
        BY <3>5, <4>3, <4>4, NoRoomStays
      <4>6. NoRoom(U, x)
        BY <4>2, <4>5 DEF NoRoom
      <4>7. QED BY <4>6 DEF x, U
    <3>10. QED BY <3>8, <3>9 DEF U
  <2>3. M = Nat
    <3> HIDE DEF M
    <3>1. M \subseteq Nat
      BY DEF M
    <3>2. QED BY <2>1, <2>2, <3>1, Inducts
  <2> HIDE DEF NoRoom
  <2>4. k \in Nat /\ k <= n
    BY <1>1
  <2>5. QED BY <2>3, <2>4
<1>11. run[n] \in Space /\ In2(run[n]) /\ n \in 0..n
  BY <1>1, <1>7, <1>8
<1>12. Roomless(run[n])
  <2>1. \A j \in 1..n : NoRoom(run[n], ids[j])
    BY <1>10, <1>11
  <2> HIDE DEF NoRoom
  <2>2. Open(run[n]) = Open(S) /\ Open(S) \subseteq Entered(S)
    BY <1>1, <1>11, SpaceIs DEF Restacked, Entered, Open
  <2>3. QED BY <1>1, <2>1, <2>2 DEF Roomless, NoRoom
<1>13. QED BY <1>5, <1>11, <1>12

(******************************* The hover *******************************)

\* The ends of one hover are taken out of the closures, and nothing else.
LEMMA UnaskedIs ==
  ASSUME NEW S \in Space, NEW id
  PROVE  /\ Unasked(S, id) \in Seq(Closure)
         /\ ToSet(Unasked(S, id)) = {c \in Calls(S) : c.call = "reset" => c.id # id}
<1> DEFINE K == {c \in ToSet(S.deferred) : c.call = "reset" => c.id # id}
<1>1. S.deferred \in Seq(Closure)
  BY SpaceIs
<1>2. Those(S.deferred, K) \in Seq(Closure) /\ ToSet(Those(S.deferred, K)) = ToSet(S.deferred) \cap K
  <2> HIDE DEF K
  <2>1. QED BY <1>1, ThoseIs
<1>3. Unasked(S, id) = Those(S.deferred, K)
  BY DEF Unasked
<1>4. QED BY <1>2, <1>3 DEF Calls

\* The expiry and the animations of one notification are started or stopped.
Retimed(S, T, id) ==
  /\ T \in Space
  /\ T.pending = S.pending /\ T.order = S.order /\ T.popups = S.popups
  /\ T.scenes = S.scenes /\ T.pointer = S.pointer /\ T.deferred = S.deferred
  /\ \A x \in Ids : x # id => T.notes[x] = S.notes[x]
  /\ T.notes[id].life = S.notes[id].life /\ T.notes[id].timed = S.notes[id].timed
  /\ T.notes[id].height = S.notes[id].height
  /\ \A i \in Instances, x \in Ids :
       /\ x # id => T.cards[i][x] = S.cards[i][x]
       /\ T.cards[i][x] = NoCard <=> S.cards[i][x] = NoCard
       /\ S.cards[i][x] # NoCard =>
            /\ T.cards[i][x].hooked = S.cards[i][x].hooked /\ T.cards[i][x].finite = S.cards[i][x].finite
            /\ T.cards[i][x].moves = "exit" <=> S.cards[i][x].moves = "exit"
            /\ T.cards[i][x].moves = "countdown" => S.popups[x].finite \/ S.cards[i][x].moves = "countdown"

\* Nothing is started or stopped.
LEMMA RetimedSelf == ASSUME NEW S \in Space, NEW id PROVE Retimed(S, S, id)
BY DEF Retimed

\* The store's expiry of one notification.
LEMMA ExpiringIs ==
  ASSUME NEW S \in Space, NEW id \in Ids, NEW b \in BOOLEAN
  PROVE  LET T == [S EXCEPT !.notes[id].expiring = b]
         IN /\ T \in Space /\ T.notes[id].expiring = b /\ T.cards = S.cards
            /\ T.pending = S.pending /\ T.order = S.order /\ T.popups = S.popups
            /\ T.scenes = S.scenes /\ T.pointer = S.pointer /\ T.deferred = S.deferred
            /\ \A x \in Ids : x # id => T.notes[x] = S.notes[x]
            /\ T.notes[id].life = S.notes[id].life /\ T.notes[id].timed = S.notes[id].timed
            /\ T.notes[id].height = S.notes[id].height
<1> DEFINE n == [S.notes EXCEPT ![id] = [S.notes[id] EXCEPT !.expiring = b]]
           T == [S EXCEPT !.notes = n]
<1>1. S.notes \in [Ids -> Note] /\ S.notes[id] \in Note
  BY SpaceIs
<1>2. [S.notes[id] EXCEPT !.expiring = b] \in Note
  BY <1>1 DEF Note
<1>3. /\ n \in [Ids -> Note] /\ \A x \in Ids : x # id => n[x] = S.notes[x]
      /\ n[id].life = S.notes[id].life /\ n[id].timed = S.notes[id].timed /\ n[id].height = S.notes[id].height
      /\ n[id].expiring = b
  <2>1. /\ n \in [Ids -> Note] /\ n[id] = [S.notes[id] EXCEPT !.expiring = b]
        /\ \A x \in Ids : x # id => n[x] = S.notes[x]
    BY <1>1, <1>2
  <2> HIDE DEF n
  <2>2. QED BY <1>1, <2>1 DEF Note
<1> HIDE DEF n
<1>4. /\ T \in Space /\ T.notes = n /\ T.cards = S.cards
      /\ T.pending = S.pending /\ T.order = S.order /\ T.popups = S.popups
      /\ T.scenes = S.scenes /\ T.pointer = S.pointer /\ T.deferred = S.deferred
  BY <1>3 DEF Space
<1> HIDE DEF T
<1>5. QED BY <1>3, <1>4 DEF T, n

\* The store's expiry is stopped.
LEMMA PauseIs ==
  ASSUME NEW S \in Space, NEW id \in Ids
  PROVE  Retimed(S, Pause(S, id), id) /\ Pause(S, id).notes[id].expiring = FALSE /\ Pause(S, id).cards = S.cards
<1> DEFINE b == FALSE
<1>1. b \in BOOLEAN /\ Pause(S, id) = [S EXCEPT !.notes[id].expiring = b]
  BY DEF Pause
<1> HIDE DEF b
<1>2. Retimed(S, Pause(S, id), id) /\ Pause(S, id).notes[id].expiring = b /\ Pause(S, id).cards = S.cards
  BY <1>1, ExpiringIs DEF Retimed
<1>3. QED BY <1>2 DEF b

\* The store's expiry is started.
LEMMA ResumeIs ==
  ASSUME NEW S \in Space, NEW id \in Ids
  PROVE  /\ Retimed(S, Resume(S, id), id) /\ Resume(S, id).cards = S.cards
         /\ S.notes[id].life = "live" => Resume(S, id).notes[id].expiring = TRUE
<1> DEFINE b == S.notes[id].life = "live"
<1>1. b \in BOOLEAN /\ Resume(S, id) = [S EXCEPT !.notes[id].expiring = b]
  BY DEF Resume
<1>2. b => b = TRUE
  OBVIOUS
<1> HIDE DEF b
<1>3. Resume(S, id).notes[id].expiring = b /\ Retimed(S, Resume(S, id), id) /\ Resume(S, id).cards = S.cards
  BY <1>1, ExpiringIs DEF Retimed
<1>4. QED BY <1>2, <1>3 DEF b

\* One step after another.
LEMMA RetimedTwice ==
  ASSUME NEW S \in Space, NEW T, NEW U, NEW id \in Ids, Retimed(S, T, id), Retimed(T, U, id)
  PROVE  Retimed(S, U, id)
<1>1. ASSUME NEW i \in Instances, NEW x \in Ids
      PROVE  /\ x # id => U.cards[i][x] = S.cards[i][x]
             /\ U.cards[i][x] = NoCard <=> S.cards[i][x] = NoCard
             /\ S.cards[i][x] # NoCard =>
                  /\ U.cards[i][x].hooked = S.cards[i][x].hooked /\ U.cards[i][x].finite = S.cards[i][x].finite
                  /\ U.cards[i][x].moves = "exit" <=> S.cards[i][x].moves = "exit"
                  /\ U.cards[i][x].moves = "countdown" => S.popups[x].finite \/ S.cards[i][x].moves = "countdown"
  BY DEF Retimed
<1>2. QED BY <1>1 DEF Retimed

\* The expiry and the countdowns of a popup are stopped.
LEMMA PauseTimeoutIs ==
  ASSUME NEW S \in Space, NEW id \in Ids
  PROVE  Retimed(S, PauseTimeout(S, id), id) /\ PauseTimeout(S, id).notes[id].expiring = FALSE
<1> DEFINE new == [i \in Instances |-> Stilled(S.cards[i][id])]
           T == [S EXCEPT !.cards = [i \in Instances |-> [S.cards[i] EXCEPT ![id] = new[i]]]]
<1>1. ASSUME NEW c \in Card
      PROVE  /\ Stilled(c) \in Card /\ Stilled(c).hooked = c.hooked /\ Stilled(c).finite = c.finite
             /\ Stilled(c).moves = "exit" <=> c.moves = "exit"
             /\ Stilled(c).moves # "countdown"
  BY NoCardIs DEF Stilled, Card
<1>2. Stilled(NoCard) = NoCard
  BY DEF Stilled
<1>3. \A i \in Instances : S.cards[i][id] \in Card \/ S.cards[i][id] = NoCard
  BY CardIs
<1>4. new \in [Instances -> Card \cup {NoCard}] /\ \A i \in Instances : new[i] = Stilled(S.cards[i][id])
  BY <1>1, <1>2, <1>3
<1>5. PauseTimeout(S, id) = Pause(T, id)
  BY DEF PauseTimeout, WithCards
<1> HIDE DEF new
<1>6. /\ T \in Space
      /\ T.notes = S.notes /\ T.pending = S.pending /\ T.order = S.order /\ T.popups = S.popups
      /\ T.scenes = S.scenes /\ T.pointer = S.pointer /\ T.deferred = S.deferred
      /\ \A i \in Instances : /\ T.cards[i][id] = new[i]
                              /\ \A x \in Ids : x # id => T.cards[i][x] = S.cards[i][x]
  BY <1>4, CardsFrom
<1> HIDE DEF T
<1>7. Retimed(S, T, id)
  <2>1. ASSUME NEW i \in Instances, NEW x \in Ids
        PROVE  /\ x # id => T.cards[i][x] = S.cards[i][x]
               /\ T.cards[i][x] = NoCard <=> S.cards[i][x] = NoCard
               /\ S.cards[i][x] # NoCard =>
                    /\ T.cards[i][x].hooked = S.cards[i][x].hooked /\ T.cards[i][x].finite = S.cards[i][x].finite
                    /\ T.cards[i][x].moves = "exit" <=> S.cards[i][x].moves = "exit"
                    /\ T.cards[i][x].moves = "countdown" => S.popups[x].finite \/ S.cards[i][x].moves = "countdown"
    <3>1. CASE x # id
      BY <1>6, <3>1
    <3>2. CASE x = id /\ S.cards[i][x] = NoCard
      BY <1>2, <1>4, <1>6, <3>2
    <3>3. CASE x = id /\ S.cards[i][x] \in Card
      BY <1>1, <1>4, <1>6, <3>3, NoCardIs
    <3>4. QED BY <1>3, <3>1, <3>2, <3>3
  <2>2. QED BY <1>6, <2>1 DEF Retimed
<1>8. Retimed(T, Pause(T, id), id) /\ Pause(T, id).notes[id].expiring = FALSE
  BY <1>6, PauseIs
<1>9. QED BY <1>5, <1>7, <1>8, RetimedTwice

\* The expiry and the countdowns of a popup are started, if it has a duration.
LEMMA ResumeTimeoutIs ==
  ASSUME NEW S \in Space, NEW id \in Ids, NEW finite \in BOOLEAN
  PROVE  LET T == ResumeTimeout(S, id, finite)
         IN /\ Retimed(S, T, id)
            /\ ~finite => T = S
            /\ finite /\ S.notes[id].life = "live" => T.notes[id].expiring = TRUE
<1> DEFINE c(i) == S.cards[i][id]
           new == [i \in Instances |->
             IF c(i) = NoCard \/ c(i).moves = "exit" THEN c(i)
             ELSE [c(i) EXCEPT !.moves = IF i = 1 THEN "countdown" ELSE "no"]]
           T == [S EXCEPT !.cards = [i \in Instances |-> [S.cards[i] EXCEPT ![id] = new[i]]]]
<1>1. CASE ~finite
  <2>1. ResumeTimeout(S, id, finite) = S
    BY <1>1 DEF ResumeTimeout
  <2>2. QED BY <1>1, <2>1, RetimedSelf
<1>2. CASE finite /\ ~S.popups[id].finite
  <2>1. ResumeTimeout(S, id, finite) = Resume(S, id)
    BY <1>2 DEF ResumeTimeout
  <2>2. /\ Retimed(S, Resume(S, id), id)
        /\ S.notes[id].life = "live" => Resume(S, id).notes[id].expiring = TRUE
    BY ResumeIs
  <2>3. QED BY <1>2, <2>1, <2>2
<1>3. CASE finite /\ S.popups[id].finite
  <2>1. ResumeTimeout(S, id, finite) = Resume(T, id)
    BY <1>3 DEF ResumeTimeout, WithCards
  <2>2. \A i \in Instances : c(i) \in Card \/ c(i) = NoCard
    BY CardIs
  <2>3. ASSUME NEW i \in Instances
        PROVE  /\ new[i] \in Card \cup {NoCard}
               /\ new[i] = NoCard <=> c(i) = NoCard
               /\ c(i) # NoCard => /\ new[i].hooked = c(i).hooked /\ new[i].finite = c(i).finite
                                   /\ new[i].moves = "exit" <=> c(i).moves = "exit"
    <3> DEFINE d == c(i)
               e == new[i]
    <3>1. e = IF d = NoCard \/ d.moves = "exit" THEN d ELSE [d EXCEPT !.moves = IF i = 1 THEN "countdown" ELSE "no"]
      OBVIOUS
    <3>2. d \in Card \/ d = NoCard
      BY <2>2
    <3> HIDE DEF d, e, new, c
    <3>3. CASE d = NoCard \/ d.moves = "exit"
      BY <3>1, <3>2, <3>3 DEF d, e
    <3>4. CASE ~(d = NoCard \/ d.moves = "exit")
      <4>1. d \in Card
        BY <3>2, <3>4
      <4>2. CASE i = 1
        <5>1. e = [d EXCEPT !.moves = "countdown"]
          BY <3>1, <3>4, <4>2
        <5>2. e \in Card /\ e.hooked = d.hooked /\ e.finite = d.finite /\ e.moves = "countdown"
          BY <4>1, <5>1 DEF Card
        <5>3. QED BY <3>4, <4>1, <5>2, NoCardIs DEF d, e
      <4>3. CASE i # 1
        <5>1. e = [d EXCEPT !.moves = "no"]
          BY <3>1, <3>4, <4>3
        <5>2. e \in Card /\ e.hooked = d.hooked /\ e.finite = d.finite /\ e.moves = "no"
          BY <4>1, <5>1 DEF Card
        <5>3. QED BY <3>4, <4>1, <5>2, NoCardIs DEF d, e
      <4>4. QED BY <4>2, <4>3
    <3>5. QED BY <3>3, <3>4
  <2>4. new = [i \in Instances |-> new[i]]
    OBVIOUS
  <2> HIDE DEF new
  <2>5. new \in [Instances -> Card \cup {NoCard}]
    BY <2>3, <2>4
  <2>6. /\ T \in Space
        /\ T.notes = S.notes /\ T.pending = S.pending /\ T.order = S.order /\ T.popups = S.popups
        /\ T.scenes = S.scenes /\ T.pointer = S.pointer /\ T.deferred = S.deferred
        /\ \A i \in Instances : /\ T.cards[i][id] = new[i]
                                /\ \A x \in Ids : x # id => T.cards[i][x] = S.cards[i][x]
    BY <2>5, CardsFrom
  <2> HIDE DEF T
  <2>7. Retimed(S, T, id)
    BY <1>3, <2>3, <2>6 DEF Retimed
  <2>8. /\ Retimed(T, Resume(T, id), id)
        /\ T.notes[id].life = "live" => Resume(T, id).notes[id].expiring = TRUE
    BY <2>6, ResumeIs
  <2>9. Retimed(S, Resume(T, id), id)
    BY <2>7, <2>8, RetimedTwice
  <2>10. QED BY <1>3, <2>1, <2>6, <2>8, <2>9
<1>4. QED BY <1>1, <1>2, <1>3

\* Starting and stopping touches neither the places nor the hovers.
LEMMA RetimedKeeps ==
  ASSUME NEW S \in Space, NEW T, NEW id \in Entered(S), NEW X, NEW W, Retimed(S, T, id)
  PROVE  /\ Restacked(S, T, {}) /\ Entered(T) = Entered(S) /\ Open(T) = Open(S) /\ Placed(T) = Placed(S)
         /\ Calls(T) = Calls(S)
         /\ Lives(S, W) => Lives(T, W)
         /\ CallsKnown(S) => CallsKnown(T)
         /\ Layout(S) => Layout(T)
         /\ CardsAt(S, X) => CardsAt(T, X)
         /\ Hovers(S, X) => Hovers(T, X)
<1>1. id \in Ids
  BY SpaceIs
<1>2. Entered(T) = Entered(S) /\ Open(T) = Open(S) /\ Placed(T) = Placed(S) /\ Calls(T) = Calls(S)
  BY DEF Retimed, Entered, Open, Placed, Calls
<1>3. Restacked(S, T, {})
  BY <1>1, <1>2 DEF Retimed, Restacked
<1>4. \A x \in Ids : T.notes[x].height = S.notes[x].height /\ Below(T, x) = Below(S, x)
  BY DEF Retimed, Below
<1>5. Placed(S) \subseteq Ids /\ Entered(S) \subseteq Ids
  BY SpaceIs
<1>6. Layout(S) => Layout(T)
  <2>1. T.popups = S.popups
    BY DEF Retimed
  <2>2. QED BY <1>2, <1>4, <1>5, <2>1 DEF Layout, Apart
<1>7. \A i \in Instances, x \in Ids : Shows(T, i, x) <=> Shows(S, i, x)
  BY <1>2, <1>4 DEF Shows
<1>8. CardsAt(S, X) => CardsAt(T, X)
  <2>1. T.popups = S.popups /\ T.scenes = S.scenes /\ S.scenes \subseteq Instances
    BY SpaceIs DEF Retimed
  <2>2. \A i \in Instances, x \in Ids :
          /\ T.cards[i][x] = NoCard <=> S.cards[i][x] = NoCard
          /\ S.cards[i][x] # NoCard => (T.cards[i][x].moves = "exit" <=> S.cards[i][x].moves = "exit")
    BY DEF Retimed
  <2>3. QED BY <1>2, <1>5, <1>7, <2>1, <2>2 DEF CardsAt
<1>9. QED BY <1>2, <1>3, <1>6, <1>8, RestackedKeeps

\* When the expiry of a popup has been put right, nothing else of the clocks is wrong.
LEMMA RetimedExpiries ==
  ASSUME NEW S \in Space, NEW T, NEW id \in Entered(S), NEW Y, Retimed(S, T, id), Expiries(S, Y \cup {id}),
         id \in Open(S) \ Y =>
           /\ Clocked(S, id)
           /\ T.notes[id].expiring <=> S.notes[id].timed /\ id \in Placed(S) /\ ~S.popups[id].hovered
  PROVE  Expiries(T, Y)
<1>1. id \in Ids /\ Entered(S) \subseteq Ids /\ Open(S) \subseteq Ids
  BY SpaceIs
<1>2. Entered(T) = Entered(S) /\ Open(T) = Open(S) /\ Placed(T) = Placed(S) /\ Calls(T) = Calls(S)
      /\ T.popups = S.popups
  BY DEF Retimed, Entered, Open, Placed, Calls
<1>3. ASSUME NEW x \in Open(S) \ Y
      PROVE  /\ T.notes[x].expiring <=> T.notes[x].timed /\ x \in Placed(T) /\ ~T.popups[x].hovered
             /\ Clocked(T, x)
  <2>1. x \in Ids /\ T.notes[x].timed = S.notes[x].timed
    BY <1>1 DEF Retimed
  <2>2. Clocked(S, x)
    BY DEF Expiries
  <2>3. T.notes[x].expiring <=> T.notes[x].timed /\ x \in Placed(T) /\ ~T.popups[x].hovered
    <3>1. CASE x = id
      BY <1>2, <2>1, <3>1
    <3>2. CASE x # id
      <4>1. T.notes[x] = S.notes[x]
        BY <2>1, <3>2 DEF Retimed
      <4>2. S.notes[x].expiring <=> S.notes[x].timed /\ x \in Placed(S) /\ ~S.popups[x].hovered
        BY <3>2 DEF Expiries
      <4>3. QED BY <1>2, <4>1, <4>2
    <3>3. QED BY <3>1, <3>2
  <2>4. \A i \in Instances : T.cards[i][x] # NoCard =>
          /\ T.cards[i][x].finite = S.notes[x].timed
          /\ T.cards[i][x].moves = "countdown" => S.notes[x].timed
    BY <2>1, <2>2 DEF Retimed, Clocked
  <2>5. QED BY <1>2, <2>1, <2>2, <2>3, <2>4 DEF Clocked
<1>4. \A x \in Ids \ Entered(S) : T.notes[x] = S.notes[x]
  BY DEF Retimed
<1>5. QED BY <1>2, <1>3, <1>4 DEF Expiries

\* A state whose closures are others.
LEMMA DeferredIs ==
  ASSUME NEW S \in Space, NEW q \in Seq(Closure)
  PROVE  LET T == [S EXCEPT !.deferred = q]
         IN /\ T \in Space /\ T.deferred = q /\ T.notes = S.notes /\ T.cards = S.cards
            /\ T.pending = S.pending /\ T.order = S.order /\ T.popups = S.popups
            /\ T.scenes = S.scenes /\ T.pointer = S.pointer
BY DEF Space

\* The hover of a popup is taken away, with its end that is on its way.
Unhovered(S, id) ==
  [S EXCEPT !.popups[id].hovered = FALSE, !.popups[id].owners = 0, !.deferred = Unasked(S, id)]

\* What Unhovered changes.
LEMMA UnhoveredIs ==
  ASSUME NEW S \in Space, NEW id \in Ids
  PROVE  LET T == Unhovered(S, id)
         IN /\ T \in Space /\ T.notes = S.notes /\ T.cards = S.cards
            /\ T.pending = S.pending /\ T.order = S.order /\ T.scenes = S.scenes /\ T.pointer = S.pointer
            /\ Calls(T) = {c \in Calls(S) : c.call = "reset" => c.id # id}
            /\ \A x \in Ids : x # id => T.popups[x] = S.popups[x]
            /\ T.popups[id].hovered = FALSE /\ T.popups[id].owners = 0
            /\ T.popups[id].at = S.popups[id].at /\ T.popups[id].exiting = S.popups[id].exiting
            /\ T.popups[id].finite = S.popups[id].finite
<1> DEFINE q == Unasked(S, id)
           p == [S.popups EXCEPT ![id] = [S.popups[id] EXCEPT !.hovered = FALSE, !.owners = 0]]
           T == [S EXCEPT !.popups = p, !.deferred = q]
<1>1. S.popups \in [Ids -> Popup] /\ S.popups[id] \in Popup
  BY SpaceIs
<1>2. [S.popups[id] EXCEPT !.hovered = FALSE, !.owners = 0] \in Popup
  BY <1>1 DEF Popup
<1>3. /\ p \in [Ids -> Popup] /\ \A x \in Ids : x # id => p[x] = S.popups[x]
      /\ p[id].hovered = FALSE /\ p[id].owners = 0
      /\ p[id].at = S.popups[id].at /\ p[id].exiting = S.popups[id].exiting /\ p[id].finite = S.popups[id].finite
  <2>1. /\ p \in [Ids -> Popup] /\ p[id] = [S.popups[id] EXCEPT !.hovered = FALSE, !.owners = 0]
        /\ \A x \in Ids : x # id => p[x] = S.popups[x]
    BY <1>1, <1>2
  <2> HIDE DEF p
  <2>2. QED BY <1>1, <2>1 DEF Popup
<1>4. q \in Seq(Closure) /\ ToSet(q) = {c \in Calls(S) : c.call = "reset" => c.id # id}
  BY UnaskedIs
<1>5. Unhovered(S, id) = T
  <2>1. S.popups \in [Ids -> Popup]
    BY <1>1
  <2>2. QED BY <1>1 DEF Unhovered, Space, Popup
<1> HIDE DEF p, q
<1>6. /\ T \in Space /\ T.popups = p /\ T.deferred = q /\ T.notes = S.notes /\ T.cards = S.cards
      /\ T.pending = S.pending /\ T.order = S.order /\ T.scenes = S.scenes /\ T.pointer = S.pointer
  BY <1>3, <1>4 DEF Space
<1> HIDE DEF T
<1>7. QED BY <1>3, <1>4, <1>5, <1>6 DEF Calls

\* The hovers of a state, but for that of a popup which is about to be taken away.
HoversBut(S, X, id) ==
  /\ \A x \in Ids \ {id} : S.popups[x].owners > 0 =>
       /\ S.popups[x].owners = 1 /\ S.popups[x].hovered
       /\ S.pointer.area = [id |-> x, follows |-> TRUE]
  /\ \A x \in Ids \ {id} : Asked(S, x) => S.popups[x].owners = 0
  /\ \A x \in Open(S) \ {id} : S.popups[x].hovered => S.popups[x].owners > 0 \/ Asked(S, x)
  /\ \A x \in Open(S) \ {id} : S.popups[x].hovered \/ Asked(S, x) => HasCard(S, x)
  /\ \A x \in X \ {id} : x \in Open(S) /\ ~S.popups[x].hovered /\ ~Asked(S, x)
  /\ id \in X => id \in Open(S)

\* A popup without its hover is in order, whatever was amiss with the hover; its expiry is yet to
\* start.
LEMMA UnhoveredKeeps ==
  ASSUME NEW S \in Space, NEW X, NEW Y, NEW W, NEW id \in Entered(S), Lives(S, W), CallsKnown(S), Layout(S),
         CardsAt(S, X), HoversBut(S, X, id), Expiries(S, Y)
  PROVE  LET T == Unhovered(S, id)
         IN /\ T \in Space /\ Lives(T, W) /\ CallsKnown(T) /\ Layout(T) /\ CardsAt(T, X) /\ Hovers(T, X)
            /\ Expiries(T, Y \cup {id}) /\ (id \in Open(S) \ Y => Clocked(T, id))
            /\ Entered(T) = Entered(S) /\ Open(T) = Open(S) /\ Placed(T) = Placed(S)
<1> DEFINE T == Unhovered(S, id)
<1>1. S \in Space /\ Lives(S, W) /\ CallsKnown(S) /\ Layout(S) /\ CardsAt(S, X) /\ HoversBut(S, X, id) /\ Expiries(S, Y)
  OBVIOUS
<1>2. id \in Ids /\ Entered(S) \subseteq Ids /\ Open(S) \subseteq Ids /\ Placed(S) \subseteq Ids
      /\ Open(S) \subseteq Entered(S) /\ S.scenes \subseteq Instances
  BY <1>1, SpaceIs
<1>3. /\ T \in Space /\ T.notes = S.notes /\ T.cards = S.cards
      /\ T.pending = S.pending /\ T.order = S.order /\ T.scenes = S.scenes /\ T.pointer = S.pointer
      /\ Calls(T) = {c \in Calls(S) : c.call = "reset" => c.id # id}
      /\ \A x \in Ids : x # id => T.popups[x] = S.popups[x]
      /\ T.popups[id].hovered = FALSE /\ T.popups[id].owners = 0
      /\ T.popups[id].at = S.popups[id].at /\ T.popups[id].exiting = S.popups[id].exiting
      /\ T.popups[id].finite = S.popups[id].finite
  BY <1>1, <1>2, UnhoveredIs
<1> HIDE DEF T
<1>4. /\ \A x \in Ids : /\ T.popups[x].at = S.popups[x].at /\ T.popups[x].exiting = S.popups[x].exiting
                        /\ T.popups[x].finite = S.popups[x].finite
                        /\ T.popups[x].hovered => x # id /\ S.popups[x].hovered
                        /\ T.popups[x].owners > 0 => x # id
  BY <1>3
<1>5. Entered(T) = Entered(S)
  BY <1>3 DEF Entered
<1>6. Open(T) = Open(S) /\ Placed(T) = Placed(S)
  BY <1>2, <1>4, <1>5 DEF Open, Placed, Entered
<1>7. \A x : Asked(T, x) <=> Asked(S, x) /\ x # id
  BY <1>3 DEF Asked
<1>8. Lives(T, W)
  <2>1. \A x \in Ids \ Entered(S) : T.popups[x] = S.popups[x]
    BY <1>3
  <2>2. QED BY <1>1, <1>3, <1>5, <1>6, <2>1 DEF Lives
<1>9. CallsKnown(T)
  BY <1>1, <1>3, <1>5 DEF CallsKnown
<1>10. \A x \in Ids : Below(T, x) = Below(S, x)
  BY <1>3, <1>4 DEF Below
<1>11. Layout(T)
  BY <1>1, <1>2, <1>4, <1>6, <1>10 DEF Layout, Apart
<1>12. \A i, x : x \in Ids => (Shows(T, i, x) <=> Shows(S, i, x))
  BY <1>6, <1>10 DEF Shows
<1>13. CardsAt(T, X)
  BY <1>1, <1>3, <1>4, <1>5, <1>6, <1>12 DEF CardsAt
<1>14. Hovers(T, X)
  <2>1. \A x \in Ids : T.popups[x].owners > 0 =>
          /\ T.popups[x].owners = 1 /\ T.popups[x].hovered
          /\ T.pointer.area = [id |-> x, follows |-> TRUE]
    BY <1>1, <1>3, <1>4 DEF HoversBut
  <2>2. \A x \in Ids : Asked(T, x) => T.popups[x].owners = 0
    BY <1>1, <1>3, <1>7 DEF HoversBut
  <2>3. \A x \in Open(T) : T.popups[x].hovered => T.popups[x].owners > 0 \/ Asked(T, x)
    BY <1>1, <1>2, <1>3, <1>4, <1>6, <1>7 DEF HoversBut
  <2>4. \A x \in Open(T) : T.popups[x].hovered \/ Asked(T, x) => HasCard(T, x)
    BY <1>1, <1>2, <1>3, <1>4, <1>6, <1>7 DEF HoversBut, HasCard
  <2>5. \A x \in X : x \in Open(T) /\ ~T.popups[x].hovered /\ ~Asked(T, x)
    BY <1>1, <1>2, <1>3, <1>4, <1>6, <1>7 DEF HoversBut
  <2>6. QED BY <2>1, <2>2, <2>3, <2>4, <2>5 DEF Hovers
<1>15. ASSUME NEW x \in Open(S) \ Y PROVE Clocked(T, x)
  <2>1. Clocked(S, x) /\ x \in Ids
    BY <1>1, <1>2 DEF Expiries
  <2>2. \A c \in Calls(T) : c \in Calls(S)
    BY <1>3
  <2>3. QED BY <1>3, <1>4, <1>6, <2>1, <2>2 DEF Clocked
<1>16. Expiries(T, Y \cup {id})
  <2>1. \A x \in Open(S) \ (Y \cup {id}) : x \in Ids /\ x # id /\ T.popups[x] = S.popups[x]
    BY <1>2, <1>3
  <2>2. QED BY <1>1, <1>3, <1>5, <1>6, <1>15, <2>1 DEF Expiries
<1>17. QED BY <1>3, <1>5, <1>6, <1>8, <1>9, <1>11, <1>13, <1>14, <1>15, <1>16 DEF T

\* How a handler leaves the popups that it is not about: those in Z have lost their hover or more,
\* and those in G their cards as well.
Onward(S, T, Z, G) ==
  /\ T.pending = S.pending
  /\ (T.pointer = S.pointer /\ T.scenes = S.scenes) \/ T.pointer = Away
  /\ \A x \in Ids : /\ T.notes[x].life = S.notes[x].life /\ T.notes[x].timed = S.notes[x].timed
                    /\ T.notes[x].height = S.notes[x].height
  /\ Entered(S) \ G \subseteq Entered(T)
  /\ \A x \in Ids \ Z :
       /\ T.popups[x].owners = S.popups[x].owners /\ T.popups[x].hovered = S.popups[x].hovered
       /\ x \in Placed(S) /\ S.popups[x].hovered => x \in Placed(T) /\ T.popups[x].at = S.popups[x].at
  /\ \A i \in Instances, x \in Ids \ G : S.cards[i][x] # NoCard =>
       T.cards[i][x] # NoCard /\ T.cards[i][x].hooked = S.cards[i][x].hooked

\* Nothing has changed.
LEMMA OnwardSelf == ASSUME NEW S, NEW Z, NEW G PROVE Onward(S, S, Z, G)
BY DEF Onward

\* The same, with more popups left aside.
LEMMA OnwardMore ==
  ASSUME NEW S, NEW T, NEW Z, NEW G, NEW Z2, NEW G2, Onward(S, T, Z, G), Z \subseteq Z2, G \subseteq G2
  PROVE  Onward(S, T, Z2, G2)
BY DEF Onward

\* One step after another.
LEMMA OnwardTwice ==
  ASSUME NEW S, NEW T, NEW U, NEW Z, NEW G, Onward(S, T, Z, G), Onward(T, U, Z, G)
  PROVE  Onward(S, U, Z, G)
<1>1. /\ U.pending = S.pending
      /\ (U.pointer = S.pointer /\ U.scenes = S.scenes) \/ U.pointer = Away
      /\ Entered(S) \ G \subseteq Entered(U)
  BY DEF Onward
<1>2. \A x \in Ids : /\ U.notes[x].life = S.notes[x].life /\ U.notes[x].timed = S.notes[x].timed
                     /\ U.notes[x].height = S.notes[x].height
  BY DEF Onward
<1>3. ASSUME NEW x \in Ids \ Z
      PROVE  /\ U.popups[x].owners = S.popups[x].owners /\ U.popups[x].hovered = S.popups[x].hovered
             /\ x \in Placed(S) /\ S.popups[x].hovered => x \in Placed(U) /\ U.popups[x].at = S.popups[x].at
  BY DEF Onward
<1>4. ASSUME NEW i \in Instances, NEW x \in Ids \ G, S.cards[i][x] # NoCard
      PROVE  U.cards[i][x] # NoCard /\ U.cards[i][x].hooked = S.cards[i][x].hooked
  BY <1>4 DEF Onward
<1>5. QED BY <1>1, <1>2, <1>3, <1>4 DEF Onward

\* Moving in the stack leaves hovers and cards alone.
LEMMA RestackedOnward ==
  ASSUME NEW S \in Space, NEW T, NEW X, Restacked(S, T, X) PROVE Onward(S, T, {}, X)
<1>1. Entered(T) = Entered(S)
  BY DEF Restacked, Entered
<1>2. QED BY <1>1 DEF Restacked, Onward

\* A hover that is taken away is one popup's.
LEMMA UnhoveredOnward ==
  ASSUME NEW S \in Space, NEW id \in Ids PROVE Onward(S, Unhovered(S, id), {id}, {})
<1> DEFINE T == Unhovered(S, id)
<1>1. /\ T.notes = S.notes /\ T.cards = S.cards
      /\ T.pending = S.pending /\ T.order = S.order /\ T.scenes = S.scenes /\ T.pointer = S.pointer
      /\ \A x \in Ids : x # id => T.popups[x] = S.popups[x]
  BY UnhoveredIs
<1> HIDE DEF T
<1>2. \A x \in Ids \ {id} : x \in Placed(S) => x \in Placed(T)
  BY <1>1 DEF Placed
<1>3. Entered(T) = Entered(S)
  BY <1>1 DEF Entered
<1>4. Onward(S, T, {id}, {})
  BY <1>1, <1>2, <1>3 DEF Onward
<1>5. QED BY <1>4 DEF T

\* What the call of a reset knows of the popup whose hover ends.
MayReset(S, Y, id, resume, finite) ==
  id \in Open(S) \ Y =>
    IF resume THEN id \in Placed(S) /\ finite = S.notes[id].timed ELSE ~S.popups[id].hovered

\* What the end of a hover leaves alone, and what it ends.
HoverEnded(S, T, id) ==
  /\ T.order = S.order /\ T.scenes = S.scenes /\ T.pointer = S.pointer
  /\ T.popups[id].exiting = S.popups[id].exiting
  /\ T.popups[id].owners = 0 /\ T.popups[id].hovered = FALSE

\* The end of a hover, of which only the other popups' hovers need be in order.
LEMMA ResetFrom ==
  ASSUME NEW S \in Space, NEW X, NEW Y, NEW W, NEW id \in Entered(S), Lives(S, W), CallsKnown(S), Layout(S),
         CardsAt(S, X), HoversBut(S, X, id), Expiries(S, Y),
         NEW resume \in BOOLEAN, NEW finite \in BOOLEAN, MayReset(S, Y, id, resume, finite)
  PROVE  LET T == ResetPopupHover(S, id, resume, finite)
         IN /\ Good(T, X, Y, W) /\ Roomless(T) /\ Onward(S, T, {id}, X) /\ HoverEnded(S, T, id)
<1> DEFINE U == Unhovered(S, id)
           V == IF resume THEN ResumeTimeout(U, id, finite) ELSE U
           C == CollapseStack(V)
           T == RevealQueuedEntries(C)
<1>1. ResetPopupHover(S, id, resume, finite) = T
  BY DEF ResetPopupHover, Unhovered
<1>2. S \in Space /\ Expiries(S, Y)
      /\ (id \in Open(S) \ Y =>
            IF resume THEN id \in Placed(S) /\ finite = S.notes[id].timed ELSE ~S.popups[id].hovered)
  BY DEF MayReset
<1>3. id \in Ids
  BY <1>2, SpaceIs
<1>4. /\ U \in Space /\ Lives(U, W) /\ CallsKnown(U) /\ Layout(U) /\ CardsAt(U, X) /\ Hovers(U, X)
      /\ Expiries(U, Y \cup {id}) /\ (id \in Open(S) \ Y => Clocked(U, id))
      /\ Entered(U) = Entered(S) /\ Open(U) = Open(S) /\ Placed(U) = Placed(S)
  BY UnhoveredKeeps
<1>5. /\ U.notes = S.notes /\ U.popups[id].hovered = FALSE /\ U.popups[id].owners = 0
      /\ U.order = S.order /\ U.pointer = S.pointer /\ U.scenes = S.scenes
      /\ U.popups[id].exiting = S.popups[id].exiting
  BY <1>2, <1>3, UnhoveredIs
<1>6. Onward(S, U, {id}, X)
  <2>1. Onward(S, U, {id}, {})
    BY <1>2, <1>3, UnhoveredOnward
  <2> HIDE DEF U
  <2>2. QED BY <2>1, OnwardMore
<1> HIDE DEF U
<1>7. /\ Retimed(U, V, id)
      /\ id \in Open(U) \ Y =>
           (V.notes[id].expiring <=> U.notes[id].timed /\ id \in Placed(U) /\ ~U.popups[id].hovered)
  <2>1. id \in Open(S) \ Y => (S.notes[id].expiring <=> S.notes[id].timed /\ id \in Placed(S) /\ ~S.popups[id].hovered)
    BY <1>2 DEF Expiries
  <2>2. CASE ~resume
    <3>1. V = U
      BY <2>2
    <3> HIDE DEF V
    <3>2. Retimed(U, V, id)
      BY <1>4, <3>1, RetimedSelf
    <3>3. QED BY <1>2, <1>4, <1>5, <2>1, <2>2, <3>1, <3>2
  <2>3. CASE resume
    <3>1. V = ResumeTimeout(U, id, finite)
      BY <2>3
    <3> HIDE DEF V
    <3>2. /\ Retimed(U, V, id)
          /\ ~finite => V = U
          /\ finite /\ U.notes[id].life = "live" => V.notes[id].expiring = TRUE
      BY <1>3, <1>4, <3>1, ResumeTimeoutIs
    <3>3. id \in Open(U) => U.notes[id].life = "live"
      BY <1>4, OpenIs
    <3>4. CASE finite
      BY <1>2, <1>4, <1>5, <2>3, <3>2, <3>3, <3>4
    <3>5. CASE ~finite
      BY <1>2, <1>4, <1>5, <2>1, <2>3, <3>2, <3>5
    <3>6. QED BY <3>4, <3>5
  <2>4. QED BY <2>2, <2>3
<1> HIDE DEF V
<1>8. /\ Restacked(U, V, {}) /\ Lives(V, W) /\ CallsKnown(V) /\ Layout(V) /\ CardsAt(V, X) /\ Hovers(V, X)
  BY <1>4, <1>7, RetimedKeeps
<1>9. Expiries(V, Y)
  BY <1>4, <1>7, RetimedExpiries
<1>10. Good(V, X, Y, W) /\ V \in Space
  BY <1>7, <1>8, <1>9 DEF Good, Retimed
<1>11. Good(C, X, Y, W) /\ Restacked(V, C, {})
  BY <1>10, CollapseKeeps
<1> HIDE DEF C
<1>12. Good(T, X, Y, W) /\ Restacked(C, T, X) /\ Roomless(T) /\ C \in Space
  BY <1>11, RevealAllKeeps, GoodIs
<1> HIDE DEF T
<1>13. Onward(S, T, {id}, X)
  <2>1. Onward(U, V, {id}, X) /\ Onward(V, C, {id}, X) /\ Onward(C, T, {id}, X)
    <3>1. Onward(U, V, {}, {}) /\ Onward(V, C, {}, {}) /\ Onward(C, T, {}, X)
      BY <1>4, <1>8, <1>10, <1>11, <1>12, RestackedOnward
    <3>2. QED BY <3>1, OnwardMore
  <2>2. QED BY <1>6, <2>1, OnwardTwice
<1>14. T.order = S.order /\ T.pointer = S.pointer /\ T.popups[id].owners = 0 /\ T.popups[id].hovered = FALSE
       /\ T.popups[id].exiting = S.popups[id].exiting /\ T.scenes = S.scenes
  BY <1>3, <1>5, <1>8, <1>11, <1>12 DEF Restacked
<1>15. HoverEnded(S, T, id)
  BY <1>14 DEF HoverEnded
<1>16. QED BY <1>1, <1>12, <1>13, <1>15

\* resetPopupHover, from a state between two helpers.
LEMMA ResetKeeps ==
  ASSUME NEW S, NEW X, NEW Y, NEW W, Good(S, X, Y, W), NEW id \in Entered(S),
         NEW resume \in BOOLEAN, NEW finite \in BOOLEAN, MayReset(S, Y, id, resume, finite)
  PROVE  LET T == ResetPopupHover(S, id, resume, finite)
         IN /\ Good(T, X, Y, W) /\ Roomless(T) /\ Onward(S, T, {id}, X) /\ HoverEnded(S, T, id)
<1>1. S \in Space /\ Lives(S, W) /\ CallsKnown(S) /\ Layout(S) /\ CardsAt(S, X) /\ Hovers(S, X) /\ Expiries(S, Y)
  BY GoodIs
<1>2. Open(S) \subseteq Ids
  BY <1>1, SpaceIs
<1>3. HoversBut(S, X, id)
  BY <1>1, <1>2 DEF Hovers, HoversBut
<1>4. QED BY <1>1, <1>3, ResetFrom

(**************************** The visibility ****************************)

\* syncEntryVisibility brings the cards of a popup to its place, those of a popup that is being
\* replaced included.
LEMMA SyncKeeps ==
  ASSUME NEW S, NEW X, NEW Y, NEW W, NEW id \in Entered(S), X = {} \/ X = {id}, Good(S, X, Y, W)
  PROVE  LET T == SyncEntryVisibility(S, id)
         IN /\ Good(T, {}, Y, W) /\ Onward(S, T, {}, X) /\ T.order = S.order
            /\ X = {} => Restacked(S, T, {}) /\ T.popups = S.popups
<1> DEFINE lost == \E i \in Instances : S.cards[i][id] # NoCard /\ ~Shows(S, i, id)
           R == ResetPopupHover(S, id, FALSE, FALSE)
           T == SyncEntryVisibility(S, id)
<1>1. S \in Space /\ CardsAt(S, X) /\ Hovers(S, X) /\ Lives(S, W)
  BY GoodIs
<1>2. id \in Ids
  BY <1>1, SpaceIs
<1>3. T = IF S.popups[id].exiting THEN S ELSE IF lost THEN ShowCards(R, id) ELSE ShowCards(S, id)
  BY DEF SyncEntryVisibility
<1>4. CASE S.popups[id].exiting
  <2>1. T = S
    BY <1>3, <1>4
  <2>2. X = {}
    BY <1>1, <1>4 DEF Hovers, Open
  <2> HIDE DEF T
  <2>3. Good(T, {}, Y, W) /\ Restacked(S, T, {}) /\ Onward(S, T, {}, X) /\ T.order = S.order /\ T.popups = S.popups
    BY <1>1, <2>1, <2>2, RestackedSelf, OnwardSelf
  <2>4. QED BY <2>3 DEF T
<1>5. CASE ~S.popups[id].exiting /\ X = {}
  <2>1. ~lost
    BY <1>1, <1>2, <1>5 DEF CardsAt
  <2>2. T = ShowCards(S, id) /\ id \in Open(S)
    BY <1>3, <1>5, <2>1 DEF Open
  <2> HIDE DEF T
  <2>3. Good(T, {}, Y, W) /\ Restacked(S, T, {}) /\ T.popups = S.popups
    BY <1>5, <2>2, ShowCardsKeeps
  <2>4. Onward(S, T, {}, X) /\ T.order = S.order
    BY <1>1, <1>5, <2>3, RestackedOnward DEF Restacked
  <2>5. QED BY <2>3, <2>4 DEF T
<1>6. CASE ~S.popups[id].exiting /\ X = {id}
  <2>1. id \in Open(S) /\ ~S.popups[id].hovered
    BY <1>1, <1>6 DEF Hovers
  <2>2. S.popups[id].owners = 0 /\ S.popups[id].hovered = FALSE
    <3>1. S.popups[id].owners \in Nat /\ S.popups[id].hovered \in BOOLEAN
      BY <1>1, <1>2, PopupIs
    <3>2. S.popups[id].owners > 0 => S.popups[id].hovered
      BY <1>1, <1>2 DEF Hovers
    <3>3. S.popups[id].hovered = FALSE
      BY <2>1, <3>1
    <3>4. QED BY <3>1, <3>2, <3>3
  <2>3. CASE lost
    <3>1. T = ShowCards(R, id)
      BY <1>3, <1>6, <2>3
    <3>2. /\ Good(R, X, Y, W) /\ Onward(S, R, {id}, X)
          /\ R.order = S.order /\ R.popups[id].exiting = S.popups[id].exiting
          /\ R.popups[id].owners = 0 /\ R.popups[id].hovered = FALSE
      BY <2>1, ResetKeeps DEF MayReset, HoverEnded
    <3> HIDE DEF R, T
    <3>3. Onward(S, R, {}, X)
      <4>1. \A x \in Ids \ {} : x = id \/ x \in Ids \ {id}
        OBVIOUS
      <4>2. QED BY <2>2, <3>2, <4>1 DEF Onward
    <3>4. id \in Open(R)
      BY <1>6, <3>2 DEF Open, Entered
    <3>5. Good(T, X, Y, W) /\ CardsAt(T, X \ {id}) /\ Restacked(R, T, X)
      BY <3>1, <3>2, <3>4, ShowCardsKeeps
    <3>6. Good(T, {}, Y, W)
      <4>1. CardsAt(T, {})
        <5>1. X \ {id} = {}
          BY <1>6
        <5>2. QED BY <3>5, <5>1
      <4>2. Hovers(T, {})
        BY <3>5 DEF Good, Hovers
      <4>3. QED BY <3>5, <4>1, <4>2 DEF Good
    <3>7. Onward(R, T, {}, X)
      BY <3>2, <3>5, RestackedOnward, GoodIs
    <3>8. Onward(S, T, {}, X)
      BY <3>3, <3>7, OnwardTwice
    <3>9. T.order = S.order
      BY <3>2, <3>5 DEF Restacked
    <3>10. QED BY <1>6, <3>6, <3>8, <3>9 DEF T
  <2>4. CASE ~lost
    <3>1. T = ShowCards(S, id)
      BY <1>3, <1>6, <2>4
    <3> HIDE DEF T
    <3>2. Good(T, X, Y, W) /\ CardsAt(T, X \ {id}) /\ Restacked(S, T, X)
      BY <2>1, <3>1, ShowCardsKeeps
    <3>3. Good(T, {}, Y, W)
      <4>1. CardsAt(T, {})
        <5>1. X \ {id} = {}
          BY <1>6
        <5>2. QED BY <3>2, <5>1
      <4>2. Hovers(T, {})
        BY <3>2 DEF Good, Hovers
      <4>3. QED BY <3>2, <4>1, <4>2 DEF Good
    <3>4. Onward(S, T, {}, X) /\ T.order = S.order
      BY <1>1, <3>2, RestackedOnward DEF Restacked
    <3>5. QED BY <1>6, <3>3, <3>4 DEF T
  <2>5. QED BY <2>3, <2>4
<1>7. QED BY <1>4, <1>5, <1>6

\* A popup with new cards, which may be hovered: if one of them is not where its place is, or is not
\* kept, the hover is over.
LEMMA SyncNew ==
  ASSUME NEW S, NEW Y, NEW W, NEW id \in Open(S), Whole(S, {id}, Y, W), id \notin Y => ~S.popups[id].hovered
  PROVE  LET T == SyncEntryVisibility(S, id)
         IN /\ Good(T, {}, Y, W) /\ Onward(S, T, {id}, {id})
            /\ T.order = S.order /\ T.scenes = S.scenes /\ T.pointer = S.pointer
            /\ \A i \in Instances :
                 S.cards[i][id] # NoCard /\ T.cards[i][id] # S.cards[i][id] => T.popups[id].owners = 0
<1> DEFINE X == {id}
           none == {}
           lost == \E i \in Instances : S.cards[i][id] # NoCard /\ ~Shows(S, i, id)
           R == ResetPopupHover(S, id, FALSE, FALSE)
           T == SyncEntryVisibility(S, id)
<1>1. /\ S \in Space /\ Lives(S, W) /\ CallsKnown(S) /\ Layout(S)
      /\ CardsAt(S, X) /\ Hovers(S, none) /\ Expiries(S, Y)
  BY DEF Whole
<1>2. id \in Ids /\ id \in Entered(S) /\ Open(S) \subseteq Ids /\ ~S.popups[id].exiting
      /\ X \ {id} = none /\ id \in X /\ X \subseteq {id}
  BY <1>1, SpaceIs DEF Open
<1>3. T = IF lost THEN ShowCards(R, id) ELSE ShowCards(S, id)
  BY <1>2 DEF SyncEntryVisibility
<1>4. CASE lost
  <2>1. T = ShowCards(R, id)
    BY <1>3, <1>4
  <2>2. HoversBut(S, X, id)
    BY <1>1, <1>2 DEF Hovers, HoversBut
  <2>3. MayReset(S, Y, id, FALSE, FALSE)
    BY DEF MayReset
  <2> HIDE DEF X
  <2>4. Good(R, X, Y, W) /\ Onward(S, R, {id}, X) /\ HoverEnded(S, R, id)
    BY <1>1, <1>2, <2>2, <2>3, ResetFrom
  <2> HIDE DEF R, T, none, lost
  <2>5. id \in Open(R) /\ R \in Space
    BY <1>2, <2>4, GoodIs DEF HoverEnded, Open, Entered
  <2>6. Good(T, X, Y, W) /\ CardsAt(T, none) /\ Restacked(R, T, X)
    BY <1>2, <2>1, <2>4, <2>5, ShowCardsKeeps
  <2>7. Good(T, {}, Y, W)
    BY <2>6 DEF Good, Hovers, none
  <2>8. Onward(S, T, {id}, X)
    <3>1. Onward(R, T, {id}, X)
      <4>1. Onward(R, T, {}, X)
        BY <2>5, <2>6, RestackedOnward
      <4>2. QED BY <4>1, OnwardMore
    <3>2. QED BY <2>4, <3>1, OnwardTwice
  <2>9. /\ T.order = S.order /\ T.scenes = S.scenes /\ T.pointer = S.pointer /\ T.popups[id].owners = 0
    BY <1>2, <2>4, <2>6 DEF HoverEnded, Restacked
  <2>10. QED BY <2>7, <2>8, <2>9 DEF T, X
<1>5. CASE ~lost
  <2>1. T = ShowCards(S, id)
    BY <1>3, <1>5
  <2>2. \A i \in Instances : S.cards[i][id] # NoCard => Shows(S, i, id)
    BY <1>5
  <2> HIDE DEF T, X, none, lost
  <2>3. /\ T \in Space /\ Lives(T, W) /\ CallsKnown(T) /\ Layout(T) /\ CardsAt(T, X \ {id})
        /\ Hovers(T, none) /\ Expiries(T, Y) /\ Restacked(S, T, none)
        /\ \A i \in Instances : S.cards[i][id] # NoCard /\ Shows(S, i, id) => T.cards[i][id] = S.cards[i][id]
    <3>1. Sits(S, none, id)
      BY <2>2 DEF Sits
    <3>2. Mostly(S, X, none, Y, W)
      BY <1>1 DEF Mostly
    <3>3. /\ Mostly(T, X, none, Y, W) /\ CardsAt(T, X \ {id}) /\ Restacked(S, T, none)
          /\ \A i \in Instances : S.cards[i][id] # NoCard /\ Shows(S, i, id) => T.cards[i][id] = S.cards[i][id]
      <4>1. LET U == ShowCards(S, id)
            IN /\ Mostly(U, X, none, Y, W) /\ CardsAt(U, X \ {id}) /\ Restacked(S, U, none) /\ U.popups = S.popups
               /\ \A i \in Instances : S.cards[i][id] # NoCard /\ Shows(S, i, id) => U.cards[i][id] = S.cards[i][id]
        <5> HIDE <1>5, <2>1, <2>2
        <5>1. QED BY <3>1, <3>2, ShowCardsFrom, Z3
      <4>2. QED BY <2>1, <4>1
    <3>4. QED BY <3>3 DEF Mostly
  <2>4. Good(T, {}, Y, W)
    BY <1>2, <2>3 DEF Good, none
  <2>5. Onward(S, T, {id}, X)
    <3>1. Onward(S, T, {}, none)
      BY <1>1, <2>3, RestackedOnward
    <3>2. none \subseteq X
      BY DEF none
    <3>3. QED BY <3>1, <3>2, OnwardMore
  <2>6. T.order = S.order /\ T.scenes = S.scenes /\ T.pointer = S.pointer
    BY <2>3 DEF Restacked
  <2>7. QED BY <2>2, <2>3, <2>4, <2>5, <2>6 DEF T, X
<1>6. QED BY <1>4, <1>5

\* The loop over the entries, as a run of steps.
LEMMA SyncLoop ==
  ASSUME NEW D, NEW S \in D, NEW ids \in Seq(Ids),
         \A k \in 1..Len(ids), T \in D : SyncEntryVisibility(T, ids[k]) \in D
  PROVE  LET n == Len(ids)
         IN \E run \in [0..n -> D] :
              /\ run[0] = S /\ \A k \in 1..n : run[k] = SyncEntryVisibility(run[k - 1], ids[k])
              /\ run[n] = Each(SyncEntryVisibility, S, ids)
<1> DEFINE n == Len(ids)
           F == [k \in 1..n |-> [T \in D |-> SyncEntryVisibility(T, ids[k])]]
           Eq(f) == f = [k \in 0..n |-> IF k = 0 THEN S ELSE SyncEntryVisibility(f[k - 1], ids[k])]
           run == CHOOSE f : Eq(f)
<1>1. n \in Nat
  BY ToSetIs
<1>2. Each(SyncEntryVisibility, S, ids) = run[n]
  BY DEF Each
<1>3. F \in [1..n -> [D -> D]]
  OBVIOUS
<1>4. PICK g \in [0..n -> D] : g[0] = S /\ \A k \in 1..n : g[k] = F[k][g[k - 1]]
  <2> HIDE DEF F, n, Eq
  <2>1. S \in D /\ F \in [1..n -> [D -> D]] /\ n \in Nat
    BY <1>1, <1>3
  <2>2. QED BY ONLY <2>1, RunExists
<1>5. Eq(g)
  <2>1. \A k \in 1..n : k - 1 \in 0..n /\ g[k - 1] \in D
    <3> HIDE DEF F, n
    <3>1. QED BY <1>1, <1>4
  <2>2. \A k \in 1..n : g[k] = SyncEntryVisibility(g[k - 1], ids[k])
    BY <1>4, <2>1
  <2>3. \A k \in 0..n : k = 0 \/ k \in 1..n
    BY <1>1
  <2> HIDE DEF F, n
  <2>4. \A k \in 0..n : g[k] = IF k = 0 THEN S ELSE SyncEntryVisibility(g[k - 1], ids[k])
    BY <1>4, <2>2, <2>3
  <2>5. QED BY <1>4, <2>4
<1>6. Eq(run)
  <2> HIDE DEF Eq
  <2>1. QED BY <1>5
<1> HIDE DEF run, F, n
<1>7. run = [k \in 0..n |-> IF k = 0 THEN S ELSE SyncEntryVisibility(run[k - 1], ids[k])]
  BY <1>6
<1>8. run[0] = S /\ \A k \in 1..n : run[k] = SyncEntryVisibility(run[k - 1], ids[k])
  <2>1. \A k \in 0..n : run[k] = IF k = 0 THEN S ELSE SyncEntryVisibility(run[k - 1], ids[k])
    BY <1>7
  <2> HIDE DEF Eq
  <2>2. 0 \in 0..n /\ \A k \in 1..n : k \in 0..n /\ k # 0
    BY <1>1
  <2>3. QED BY <2>1, <2>2
<1> HIDE DEF Eq
<1>9. \A k \in 0..n : run[k] \in D
  <2>1. \A k \in 1..n : run[k - 1] \in D => run[k] \in D
    BY <1>8 DEF n
  <2>2. QED BY <1>1, <1>8, <2>1, RunStays
<1>10. run \in [0..n -> D]
  BY <1>7, <1>9
<1>11. QED BY <1>2, <1>8, <1>10 DEF n

\* Every popup's cards are brought to its place.
LEMMA SyncAllKeeps ==
  ASSUME NEW S, NEW Y, NEW W, Good(S, {}, Y, W)
  PROVE  LET T == SyncAll(S) IN Good(T, {}, Y, W) /\ Restacked(S, T, {}) /\ T.popups = S.popups
<1> DEFINE ids == S.order
           D == {T \in Space : Good(T, {}, Y, W) /\ Restacked(S, T, {}) /\ T.popups = S.popups}
<1>1. S \in Space /\ ids \in Seq(Ids) /\ \A k \in 1..Len(ids) : ids[k] \in Entered(S)
  BY GoodIs, SpaceIs, ToSetIs DEF Entered
<1>2. S \in D
  BY <1>1, RestackedSelf
<1>3. ASSUME NEW k \in 1..Len(ids), NEW T \in D PROVE SyncEntryVisibility(T, ids[k]) \in D
  <2> DEFINE id == ids[k]
             U == SyncEntryVisibility(T, id)
  <2>1. T \in Space /\ Good(T, {}, Y, W) /\ Restacked(S, T, {}) /\ T.popups = S.popups
    OBVIOUS
  <2>2. id \in Entered(T)
    BY <1>1, <2>1 DEF Restacked, Entered
  <2> HIDE DEF id
  <2>3. Good(U, {}, Y, W) /\ Restacked(T, U, {}) /\ U.popups = T.popups
    BY <2>1, <2>2, SyncKeeps
  <2> HIDE DEF U
  <2>4. Restacked(S, U, {}) /\ U \in Space
    BY <1>1, <2>1, <2>3, RestackedTwice, GoodIs
  <2>5. QED BY <2>1, <2>3, <2>4 DEF U, id
<1> DEFINE n == Len(ids)
<1>4. PICK run \in [0..n -> D] :
        /\ run[0] = S /\ \A k \in 1..n : run[k] = SyncEntryVisibility(run[k - 1], ids[k])
        /\ run[n] = Each(SyncEntryVisibility, S, ids)
  <2> HIDE DEF D, ids
  <2>1. ids \in Seq(Ids) /\ S \in D /\ \A k \in 1..n, T \in D : SyncEntryVisibility(T, ids[k]) \in D
    BY <1>1, <1>2, <1>3
  <2>2. QED BY <2>1, SyncLoop
<1>5. SyncAll(S) \in D
  <2>1. n \in 0..n
    BY <1>1, ToSetIs
  <2> HIDE DEF D
  <2>2. QED BY <1>4, <2>1 DEF SyncAll
<1>6. QED BY <1>5

\* Nothing that waits has a place while the popups stay as they are.
LEMMA RoomlessStays ==
  ASSUME NEW S \in Space, NEW T, NEW X, Restacked(S, T, X), T.popups = S.popups, Roomless(S)
  PROVE  Roomless(T)
<1>1. T \in Space /\ Open(T) = Open(S) /\ Open(S) \subseteq Ids /\ Placed(S) \subseteq Ids
  BY SpaceIs DEF Restacked, Open, Entered
<1>2. ASSUME NEW id \in Open(T), T.popups[id].at = Queued
      PROVE  FindPlacement(T, T.notes[id].height) = Queued
  <2>1. T.notes[id].height = S.notes[id].height /\ S.notes[id].height \in Nat
    BY <1>1, PopupIs DEF Restacked
  <2>2. FindPlacement(S, S.notes[id].height) = Queued
    BY <1>1, <1>2 DEF Roomless
  <2>3. \A p \in Placed(S) : /\ p \in Placed(T) /\ T.popups[p].at = S.popups[p].at
                             /\ T.notes[p].height = S.notes[p].height
    BY <1>1 DEF Restacked
  <2>4. QED BY <1>1, <2>1, <2>2, <2>3, NoRoomStays
<1>3. QED BY <1>2 DEF Roomless

(****************************** The pointer ******************************)

\* What the pointer changes: hovers, their ends, and the expiry of what it is on.
Pointed(S, T) ==
  /\ T \in Space /\ T.pending = S.pending /\ T.order = S.order /\ T.scenes = S.scenes
  /\ \A x \in Ids :
       /\ T.notes[x].life = S.notes[x].life /\ T.notes[x].timed = S.notes[x].timed
       /\ T.notes[x].height = S.notes[x].height
       /\ T.popups[x].at = S.popups[x].at /\ T.popups[x].exiting = S.popups[x].exiting
  /\ \A i \in Instances, x \in Ids :
       /\ T.cards[i][x] = NoCard <=> S.cards[i][x] = NoCard
       /\ S.cards[i][x] # NoCard => T.cards[i][x].hooked = S.cards[i][x].hooked

\* One step after another.
LEMMA PointedTwice ==
  ASSUME NEW S, NEW T, NEW U, Pointed(S, T), Pointed(T, U) PROVE Pointed(S, U)
<1>1. ASSUME NEW i \in Instances, NEW x \in Ids
      PROVE  /\ U.cards[i][x] = NoCard <=> S.cards[i][x] = NoCard
             /\ S.cards[i][x] # NoCard => U.cards[i][x].hooked = S.cards[i][x].hooked
  BY DEF Pointed
<1>2. QED BY <1>1 DEF Pointed

\* The pointer moves no popup, so what waits has no more room than before.
LEMMA PointedKeeps ==
  ASSUME NEW S \in Space, NEW T, Pointed(S, T)
  PROVE  /\ Entered(T) = Entered(S) /\ Open(T) = Open(S) /\ Placed(T) = Placed(S)
         /\ \A x \in Ids : Below(T, x) = Below(S, x)
         /\ Roomless(S) => Roomless(T)
         /\ \A i \in Instances : Areas(T, i) = Areas(S, i)
<1>1. Entered(T) = Entered(S) /\ Entered(S) \subseteq Ids
  BY SpaceIs DEF Pointed, Entered
<1>2. Open(T) = Open(S) /\ Placed(T) = Placed(S)
  BY <1>1 DEF Pointed, Open, Placed, Entered
<1>3. \A x \in Ids : Below(T, x) = Below(S, x)
  BY DEF Pointed, Below
<1>4. Roomless(S) => Roomless(T)
  <2> SUFFICES ASSUME Roomless(S), NEW id \in Open(T), T.popups[id].at = Queued
               PROVE  FindPlacement(T, T.notes[id].height) = Queued
    BY DEF Roomless
  <2>1. id \in Ids /\ id \in Open(S) /\ S.popups[id].at = Queued /\ T.notes[id].height = S.notes[id].height
    BY <1>1, <1>2, SpaceIs DEF Pointed
  <2>2. S.notes[id].height \in Nat /\ FindPlacement(S, S.notes[id].height) = Queued
    BY <2>1, PopupIs DEF Roomless
  <2>3. \A p \in Placed(S) : /\ p \in Placed(T) /\ T.popups[p].at = S.popups[p].at
                             /\ T.notes[p].height = S.notes[p].height
    BY <1>2, SpaceIs DEF Pointed
  <2>4. T \in Space
    BY DEF Pointed
  <2>5. QED BY <2>1, <2>2, <2>3, <2>4, NoRoomStays
<1>5. ASSUME NEW i \in Instances PROVE Areas(T, i) = Areas(S, i)
  <2>1. \A a \in [id : Ids, follows : BOOLEAN] :
          (T.cards[i][a.id] # NoCard /\ (T.cards[i][a.id].hooked => a.follows))
          <=> (S.cards[i][a.id] # NoCard /\ (S.cards[i][a.id].hooked => a.follows))
    BY DEF Pointed
  <2>2. QED BY <2>1 DEF Areas
<1>6. QED BY <1>1, <1>2, <1>3, <1>4, <1>5

\* Where Pointed and the clocks are the same, so is all that does not speak of hovers.
LEMMA PointedGood ==
  ASSUME NEW S \in Space, NEW T, NEW W, Pointed(S, T),
         \A x \in Ids \ Entered(S) : T.popups[x] = S.popups[x],
         \A i \in Instances, x \in Ids : S.cards[i][x] # NoCard =>
           (T.cards[i][x].moves = "exit" <=> S.cards[i][x].moves = "exit")
  PROVE  /\ Lives(S, W) => Lives(T, W)
         /\ Layout(S) => Layout(T)
         /\ \A X : CardsAt(S, X) => CardsAt(T, X)
<1>1. /\ Entered(T) = Entered(S) /\ Open(T) = Open(S) /\ Placed(T) = Placed(S)
      /\ \A x \in Ids : Below(T, x) = Below(S, x)
      /\ Entered(S) \subseteq Ids /\ Placed(S) \subseteq Ids /\ S.scenes \subseteq Instances /\ T.scenes = S.scenes
      /\ \A x \in Ids : T.popups[x].at = S.popups[x].at /\ T.popups[x].exiting = S.popups[x].exiting
  BY PointedKeeps, SpaceIs DEF Pointed
<1>2. Lives(S, W) => Lives(T, W)
  BY <1>1 DEF Lives, Pointed
<1>3. Layout(S) => Layout(T)
  BY <1>1 DEF Layout, Apart
<1>4. \A i \in Instances, x \in Ids : Shows(T, i, x) <=> Shows(S, i, x)
  BY <1>1 DEF Shows
<1>5. ASSUME NEW X, CardsAt(S, X) PROVE CardsAt(T, X)
  BY <1>1, <1>4, <1>5 DEF CardsAt, Pointed
<1>6. QED BY <1>2, <1>3, <1>5

\* The pointer is on no card, or on one that is there.
OnCard(S) ==
  S.pointer.area.follows =>
    /\ S.pointer.on \in Instances /\ S.pointer.area.id \in Ids
    /\ S.cards[S.pointer.on][S.pointer.area.id] # NoCard

\* The pointer is put elsewhere.
LEMMA PointerIs ==
  ASSUME NEW S \in Space
  PROVE  /\ S.pointer.on \in {0} \cup Instances
         /\ S.pointer.area \in [id : Ids \cup {NoId}, follows : BOOLEAN]
         /\ S.pointer.area.id \in Ids \cup {NoId} /\ S.pointer.area.follows \in BOOLEAN
         /\ S.pointer.area = [id |-> S.pointer.area.id, follows |-> S.pointer.area.follows]
<1>1. S.pointer \in [on : {0} \cup Instances, area : [id : Ids \cup {NoId}, follows : BOOLEAN]]
  BY SpaceIs
<1>2. QED BY <1>1

\* What the pointer is made of.
LEMMA PointerOf ==
  ASSUME NEW S \in Space, NEW p \in [on : {0} \cup Instances, area : [id : Ids \cup {NoId}, follows : BOOLEAN]]
  PROVE  LET T == [S EXCEPT !.pointer = p]
         IN /\ T \in Space /\ T.pointer = p /\ T.notes = S.notes /\ T.cards = S.cards
            /\ T.pending = S.pending /\ T.order = S.order /\ T.popups = S.popups
            /\ T.scenes = S.scenes /\ T.deferred = S.deferred
BY DEF Space

\* A pointer that follows a card is on that of a popup in the stack.
LEMMA OnCardKnown ==
  ASSUME NEW S \in Space, NEW X, CardsAt(S, X), OnCard(S), S.pointer.area.follows
  PROVE  /\ S.pointer.on \in Instances /\ S.pointer.area.id \in Entered(S) /\ S.pointer.area.id \in Ids
         /\ HasCard(S, S.pointer.area.id)
BY DEF CardsAt, OnCard, HasCard

\* What a pointer that leaves a card changes.
LEMMA LeaveIs ==
  ASSUME NEW S \in Space, OnCard(S), \A x \in Ids : S.popups[x].owners <= 1
  PROVE  LET T  == Leave(S)
             id == S.pointer.area.id
         IN /\ T \in Space /\ T.pointer = [on |-> S.pointer.on, area |-> NoArea]
            /\ T.notes = S.notes /\ T.cards = S.cards
            /\ T.pending = S.pending /\ T.order = S.order /\ T.scenes = S.scenes
            /\ ~S.pointer.area.follows => T.popups = S.popups /\ T.deferred = S.deferred
            /\ S.pointer.area.follows =>
                 /\ \A x \in Ids : x # id => T.popups[x] = S.popups[x]
                 /\ T.popups[id].owners = 0 /\ T.popups[id].hovered = S.popups[id].hovered
                 /\ T.popups[id].at = S.popups[id].at /\ T.popups[id].exiting = S.popups[id].exiting
                 /\ T.popups[id].finite = S.popups[id].finite
                 /\ Calls(T) = {c \in Calls(S) : c.call = "reset" => c.id # id}
                      \cup {[call |-> "reset", id |-> id, finite |-> S.cards[S.pointer.on][id].finite]}
<1> DEFINE id == S.pointer.area.id
           away == [on |-> S.pointer.on, area |-> NoArea]
           f == S.cards[S.pointer.on][id].finite
           U == [S EXCEPT !.pointer = away]
           p == [U.popups EXCEPT ![id] = [U.popups[id] EXCEPT !.owners = 0]]
           V == [U EXCEPT !.popups = p]
           call == [call |-> "reset", id |-> id, finite |-> f]
           q == Append(Unasked(U, id), call)
           T == [V EXCEPT !.deferred = q]
<1>1. away \in [on : {0} \cup Instances, area : [id : Ids \cup {NoId}, follows : BOOLEAN]]
  BY PointerIs DEF NoArea
<1>2. [S EXCEPT !.pointer.area = NoArea] = U
  <2>1. S.pointer \in [on : {0} \cup Instances, area : [id : Ids \cup {NoId}, follows : BOOLEAN]]
    BY SpaceIs
  <2>2. [S.pointer EXCEPT !.area = NoArea] = away
    BY <2>1
  <2>3. QED BY <2>2
<1>3. Leave(S) = IF S.pointer.area.follows THEN EndHover(U, id, f) ELSE U
  BY <1>2 DEF Leave
<1> HIDE DEF away
<1>4. /\ U \in Space /\ U.pointer = away /\ U.notes = S.notes /\ U.cards = S.cards
      /\ U.pending = S.pending /\ U.order = S.order /\ U.popups = S.popups
      /\ U.scenes = S.scenes /\ U.deferred = S.deferred
  BY <1>1, PointerOf
<1> HIDE DEF U
<1>5. CASE ~S.pointer.area.follows
  BY <1>3, <1>4, <1>5 DEF away
<1>6. CASE S.pointer.area.follows
  <2>1. id \in Ids /\ S.pointer.on \in Instances /\ S.cards[S.pointer.on][id] # NoCard
    BY <1>6 DEF OnCard
  <2>2. f \in BOOLEAN
    <3>1. S.cards[S.pointer.on][id] \in Card
      BY <2>1, CardIs
    <3>2. QED BY <3>1 DEF Card
  <2>3. U.popups \in [Ids -> Popup] /\ U.popups[id] \in Popup /\ U.popups[id].owners \in {0, 1}
    <3>1. U.popups \in [Ids -> Popup]
      BY <1>4, SpaceIs
    <3>2. U.popups[id].owners \in Nat /\ U.popups[id].owners <= 1
      BY <1>4, <2>1, PopupIs
    <3>3. QED BY <2>1, <3>1, <3>2
  <2>4. Max({0, U.popups[id].owners - 1}) = 0
    BY <2>3, MaxIs
  <2>5. [U EXCEPT !.popups[id].owners = Max({0, @ - 1})] = V
    BY <2>4
  <2>6. [U.popups[id] EXCEPT !.owners = 0] \in Popup
    BY <2>3 DEF Popup
  <2>7. /\ p \in [Ids -> Popup] /\ \A x \in Ids : x # id => p[x] = U.popups[x]
        /\ p[id].owners = 0 /\ p[id].hovered = U.popups[id].hovered
        /\ p[id].at = U.popups[id].at /\ p[id].exiting = U.popups[id].exiting
        /\ p[id].finite = U.popups[id].finite
    <3>1. /\ p \in [Ids -> Popup] /\ p[id] = [U.popups[id] EXCEPT !.owners = 0]
          /\ \A x \in Ids : x # id => p[x] = U.popups[x]
      BY <2>1, <2>3, <2>6
    <3> HIDE DEF p
    <3>2. QED BY <2>3, <3>1 DEF Popup
  <2>8. V.popups = p
    BY <1>4 DEF Space
  <2>9. EndHover(U, id, f) = T
    <3> HIDE DEF V, p
    <3>1. ~(V.popups[id].owners > 0)
      BY <2>7, <2>8
    <3>2. Unasked(V, id) = Unasked(U, id)
      <4>1. V.deferred = U.deferred
        BY <1>4 DEF V, Space
      <4>2. QED BY <4>1 DEF Unasked
    <3>3. QED BY <2>5, <3>1, <3>2 DEF EndHover
  <2>10. call \in Closure
    BY <2>1, <2>2 DEF Closure
  <2>11. Unasked(U, id) \in Seq(Closure) /\ ToSet(Unasked(U, id)) = {c \in Calls(U) : c.call = "reset" => c.id # id}
    BY <1>4, UnaskedIs
  <2> HIDE DEF call
  <2>12. q \in Seq(Closure) /\ ToSet(q) = {c \in Calls(U) : c.call = "reset" => c.id # id} \cup {call}
    BY <2>10, <2>11, AppendIs
  <2> HIDE DEF p, q
  <2>13. /\ V \in Space /\ V.pointer = away /\ V.notes = S.notes /\ V.cards = S.cards
         /\ V.pending = S.pending /\ V.order = S.order /\ V.popups = p /\ V.scenes = S.scenes
    BY <1>4, <2>7 DEF Space
  <2> HIDE DEF V
  <2>14. /\ T \in Space /\ T.pointer = away /\ T.notes = S.notes /\ T.cards = S.cards
         /\ T.pending = S.pending /\ T.order = S.order /\ T.popups = p /\ T.scenes = S.scenes
         /\ T.deferred = q
    BY <2>12, <2>13, DeferredIs
  <2>15. Calls(T) = {c \in Calls(S) : c.call = "reset" => c.id # id} \cup {call}
    BY <1>4, <2>12, <2>14 DEF Calls
  <2> HIDE DEF T
  <2>16. QED BY <1>3, <1>4, <1>6, <2>7, <2>9, <2>14, <2>15 DEF away, call
<1>7. QED BY <1>5, <1>6

\* The pointer leaves a popup, whose hover then has its end on its way.
LEMMA LeaveFrom ==
  ASSUME NEW S, NEW X, NEW Y, NEW W, Whole(S, X, Y, W), OnCard(S)
  PROVE  LET T == Leave(S)
         IN /\ Whole(T, X, Y, W) /\ Pointed(S, T) /\ T.cards = S.cards
            /\ T.pointer = [on |-> S.pointer.on, area |-> NoArea]
            /\ \A x \in Ids : T.popups[x].owners = 0 /\ T.popups[x].hovered = S.popups[x].hovered
<1> DEFINE T == Leave(S)
           id == S.pointer.area.id
           f == S.cards[S.pointer.on][id].finite
           follows == S.pointer.area.follows
           call == [call |-> "reset", id |-> id, finite |-> f]
<1>1. S \in Space /\ Lives(S, W) /\ CallsKnown(S) /\ Layout(S) /\ CardsAt(S, X) /\ Hovers(S, {}) /\ Expiries(S, Y)
  BY DEF Whole
<1>2. Entered(S) \subseteq Ids /\ Open(S) \subseteq Entered(S)
  BY <1>1, SpaceIs
<1>3. \A x \in Ids : S.popups[x].owners \in Nat
  BY <1>1, PopupIs
<1>4. \A x \in Ids : S.popups[x].owners <= 1
  <2> SUFFICES ASSUME NEW x \in Ids PROVE S.popups[x].owners <= 1
    OBVIOUS
  <2>1. S.popups[x].owners > 0 => S.popups[x].owners = 1
    BY <1>1 DEF Hovers
  <2>2. S.popups[x].owners \in Nat
    BY <1>3
  <2>3. QED BY <2>1, <2>2
<1>5. /\ T \in Space /\ T.pointer = [on |-> S.pointer.on, area |-> NoArea]
      /\ T.notes = S.notes /\ T.cards = S.cards
      /\ T.pending = S.pending /\ T.order = S.order /\ T.scenes = S.scenes
      /\ ~follows => T.popups = S.popups /\ T.deferred = S.deferred
      /\ follows =>
           /\ \A x \in Ids : x # id => T.popups[x] = S.popups[x]
           /\ T.popups[id].owners = 0 /\ T.popups[id].hovered = S.popups[id].hovered
           /\ T.popups[id].at = S.popups[id].at /\ T.popups[id].exiting = S.popups[id].exiting
           /\ T.popups[id].finite = S.popups[id].finite
           /\ Calls(T) = {c \in Calls(S) : c.call = "reset" => c.id # id} \cup {call}
  BY <1>1, <1>4, LeaveIs
<1>6. /\ call.call = "reset" /\ call.id = id /\ call.finite = f
  OBVIOUS
<1>7. follows => id \in Entered(S) /\ id \in Ids /\ HasCard(S, id) /\ S.pointer.on \in Instances
                 /\ S.cards[S.pointer.on][id] # NoCard
  BY <1>1, OnCardKnown DEF OnCard
<1>8. \A x \in Ids : S.popups[x].owners > 0 => follows /\ x = id
  <2> SUFFICES ASSUME NEW x \in Ids, S.popups[x].owners > 0 PROVE follows /\ x = id
    OBVIOUS
  <2>1. S.pointer.area = [id |-> x, follows |-> TRUE]
    BY <1>1 DEF Hovers
  <2>2. QED BY <2>1
<1> HIDE DEF T, call, id, f, follows
<1>9. /\ \A x \in Ids : /\ T.popups[x].hovered = S.popups[x].hovered /\ T.popups[x].owners = 0
                        /\ T.popups[x].at = S.popups[x].at /\ T.popups[x].exiting = S.popups[x].exiting
                        /\ T.popups[x].finite = S.popups[x].finite
  <2>1. CASE ~follows
    BY <1>3, <1>5, <1>8, <2>1
  <2>2. CASE follows
    BY <1>3, <1>5, <1>8, <2>2
  <2>3. QED BY <2>1, <2>2
<1>10. Pointed(S, T)
  BY <1>5, <1>9 DEF Pointed
<1>11. Entered(T) = Entered(S) /\ Open(T) = Open(S) /\ Placed(T) = Placed(S)
  BY <1>1, <1>10, PointedKeeps
<1>12. Lives(T, W) /\ Layout(T) /\ CardsAt(T, X)
  <2>1. \A x \in Ids \ Entered(S) : T.popups[x] = S.popups[x]
    BY <1>5, <1>7
  <2>2. \A i \in Instances, x \in Ids : T.cards[i][x] = S.cards[i][x]
    BY <1>5
  <2>3. QED BY <1>1, <1>10, <2>1, <2>2, PointedGood
<1>13. ~follows => Calls(T) = Calls(S)
  BY <1>5 DEF Calls
<1>14. \A c \in Calls(T) : c \in Calls(S) \/ (follows /\ c = call)
  <2>1. CASE follows
    BY <1>5, <2>1
  <2>2. CASE ~follows
    BY <1>13, <2>2
  <2>3. QED BY <2>1, <2>2
<1>15. CallsKnown(T)
  <2>1. ASSUME NEW c \in Calls(T)
        PROVE  /\ c.call \in {"close", "reset"} => T.notes[c.id].life = "closed" \/ c.id \in Entered(T)
               /\ c.call = "remove" => T.notes[c.id].life = "closed"
               /\ c.call = "orphans" => \A x \in c.ids : T.notes[x].life = "closed"
    <3>1. CASE c \in Calls(S)
      BY <1>1, <1>5, <1>11, <3>1 DEF CallsKnown
    <3>2. CASE follows /\ c = call
      BY <1>6, <1>7, <1>11, <3>2
    <3>3. QED BY <1>14, <3>1, <3>2
  <2>2. QED BY <2>1 DEF CallsKnown
<1>16. \A x \in Ids : /\ Asked(S, x) => Asked(T, x)
                      /\ Asked(T, x) => Asked(S, x) \/ (follows /\ x = id)
                      /\ follows => Asked(T, id)
  <2>1. follows => call \in Calls(T)
    BY <1>5
  <2>2. follows => Asked(T, id)
    BY <1>6, <2>1 DEF Asked
  <2>3. ASSUME NEW x \in Ids, Asked(S, x) PROVE Asked(T, x)
    <3>1. CASE follows /\ x = id
      BY <2>2, <3>1
    <3>2. CASE ~(follows /\ x = id)
      BY <1>5, <1>13, <2>3, <3>2 DEF Asked
    <3>3. QED BY <3>1, <3>2
  <2>4. ASSUME NEW x \in Ids, Asked(T, x) PROVE Asked(S, x) \/ (follows /\ x = id)
    BY <1>6, <1>14, <2>4 DEF Asked
  <2>5. QED BY <2>2, <2>3, <2>4
<1>17. Hovers(T, {})
  <2>1. \A x \in Open(T) : T.popups[x].hovered => Asked(T, x)
    BY <1>1, <1>2, <1>8, <1>9, <1>11, <1>16 DEF Hovers
  <2>2. \A x \in Open(T) : T.popups[x].hovered \/ Asked(T, x) => HasCard(T, x)
    BY <1>1, <1>2, <1>5, <1>7, <1>9, <1>11, <1>16 DEF Hovers, HasCard
  <2>3. QED BY <1>9, <2>1, <2>2 DEF Hovers
<1>18. Expiries(T, Y)
  <2>1. ASSUME NEW x \in Open(T) \ Y
        PROVE  /\ T.notes[x].expiring <=> T.notes[x].timed /\ x \in Placed(T) /\ ~T.popups[x].hovered
               /\ Clocked(T, x)
    <3>1. /\ x \in Ids /\ Clocked(S, x)
          /\ S.notes[x].expiring <=> S.notes[x].timed /\ x \in Placed(S) /\ ~S.popups[x].hovered
      BY <1>1, <1>2, <1>11 DEF Expiries
    <3>2. \A c \in Calls(T) :
            /\ c.call = "reset" /\ c.id = x => c.finite = S.notes[x].timed
            /\ c.call = "close" /\ c.id = x => S.notes[x].timed
      <4> SUFFICES ASSUME NEW c \in Calls(T)
                   PROVE  /\ c.call = "reset" /\ c.id = x => c.finite = S.notes[x].timed
                          /\ c.call = "close" /\ c.id = x => S.notes[x].timed
        OBVIOUS
      <4>1. CASE c \in Calls(S)
        BY <3>1, <4>1 DEF Clocked
      <4>2. CASE follows /\ c = call
        <5>1. c.call = "reset" /\ c.id = id /\ c.finite = f
          BY <1>6, <4>2
        <5>2. x = id => f = S.notes[x].timed
          BY <1>7, <3>1, <4>2 DEF Clocked, f, id
        <5>3. QED BY <5>1, <5>2
      <4>3. QED BY <1>14, <4>1, <4>2
    <3>3. Clocked(T, x)
      BY <1>5, <1>9, <1>11, <3>1, <3>2 DEF Clocked
    <3>4. QED BY <1>5, <1>9, <1>11, <3>1, <3>3
  <2>2. QED BY <1>1, <1>5, <1>11, <2>1 DEF Expiries
<1>19. QED BY <1>5, <1>9, <1>10, <1>12, <1>15, <1>17, <1>18 DEF Whole, T

\* The same, of a good state.
LEMMA LeaveKeeps ==
  ASSUME NEW S, NEW Y, NEW W, Good(S, {}, Y, W), OnCard(S)
  PROVE  LET T == Leave(S)
         IN /\ Good(T, {}, Y, W) /\ Pointed(S, T) /\ T.cards = S.cards
            /\ T.pointer = [on |-> S.pointer.on, area |-> NoArea]
            /\ \A x \in Ids : T.popups[x].owners = 0
<1> DEFINE none == {}
<1>1. Whole(S, none, Y, W)
  BY WholeIs
<1> HIDE DEF none
<1>2. /\ Whole(Leave(S), none, Y, W) /\ Pointed(S, Leave(S)) /\ Leave(S).cards = S.cards
      /\ Leave(S).pointer = [on |-> S.pointer.on, area |-> NoArea]
      /\ \A x \in Ids : Leave(S).popups[x].owners = 0
  BY <1>1, LeaveFrom
<1>3. QED BY <1>2, WholeIs DEF none

\* A popup is counted as hovered, and the end of an earlier hover is forgotten.
Hovered(S, id) ==
  [S EXCEPT !.popups[id].hovered = TRUE, !.popups[id].owners = 1, !.deferred = Unasked(S, id)]

\* What Hovered changes.
LEMMA HoveredIs ==
  ASSUME NEW S \in Space, NEW id \in Ids
  PROVE  LET T == Hovered(S, id)
         IN /\ T \in Space /\ T.notes = S.notes /\ T.cards = S.cards
            /\ T.pending = S.pending /\ T.order = S.order /\ T.scenes = S.scenes /\ T.pointer = S.pointer
            /\ Calls(T) = {c \in Calls(S) : c.call = "reset" => c.id # id}
            /\ \A x \in Ids : x # id => T.popups[x] = S.popups[x]
            /\ T.popups[id].hovered = TRUE /\ T.popups[id].owners = 1
            /\ T.popups[id].at = S.popups[id].at /\ T.popups[id].exiting = S.popups[id].exiting
            /\ T.popups[id].finite = S.popups[id].finite
<1> DEFINE q == Unasked(S, id)
           p == [S.popups EXCEPT ![id] = [S.popups[id] EXCEPT !.hovered = TRUE, !.owners = 1]]
           T == [S EXCEPT !.popups = p, !.deferred = q]
<1>1. S.popups \in [Ids -> Popup] /\ S.popups[id] \in Popup
  BY SpaceIs
<1>2. [S.popups[id] EXCEPT !.hovered = TRUE, !.owners = 1] \in Popup
  BY <1>1 DEF Popup
<1>3. /\ p \in [Ids -> Popup] /\ \A x \in Ids : x # id => p[x] = S.popups[x]
      /\ p[id].hovered = TRUE /\ p[id].owners = 1
      /\ p[id].at = S.popups[id].at /\ p[id].exiting = S.popups[id].exiting /\ p[id].finite = S.popups[id].finite
  <2>1. /\ p \in [Ids -> Popup] /\ p[id] = [S.popups[id] EXCEPT !.hovered = TRUE, !.owners = 1]
        /\ \A x \in Ids : x # id => p[x] = S.popups[x]
    BY <1>1, <1>2
  <2> HIDE DEF p
  <2>2. QED BY <1>1, <2>1 DEF Popup
<1>4. q \in Seq(Closure) /\ ToSet(q) = {c \in Calls(S) : c.call = "reset" => c.id # id}
  BY UnaskedIs
<1>5. Hovered(S, id) = T
  BY <1>1 DEF Hovered, Space, Popup
<1> HIDE DEF p, q
<1>6. /\ T \in Space /\ T.popups = p /\ T.deferred = q /\ T.notes = S.notes /\ T.cards = S.cards
      /\ T.pending = S.pending /\ T.order = S.order /\ T.scenes = S.scenes /\ T.pointer = S.pointer
  BY <1>3, <1>4 DEF Space
<1> HIDE DEF T
<1>7. QED BY <1>3, <1>4, <1>5, <1>6 DEF Calls

\* What beginPopupHover changes: an end on its way is taken back.
LEMMA BeginHoverIs ==
  ASSUME NEW S \in Space, NEW id \in Ids, S.popups[id].owners = 0
  PROVE  BeginHover(S, id) = IF S.popups[id].hovered THEN Hovered(S, id) ELSE PauseTimeout(Hovered(S, id), id)
<1> DEFINE q == Unasked(S, id)
           old == S.popups[id]
           one == [old EXCEPT !.owners = 1]
           new == [old EXCEPT !.hovered = TRUE, !.owners = 1]
           p == [S.popups EXCEPT ![id] = one]
           T == [S EXCEPT !.deferred = q, !.popups = p]
           H == Hovered(S, id)
<1>1. S.popups \in [Ids -> Popup] /\ old \in Popup /\ old.owners = 0
  BY SpaceIs
<1>2. T = [S EXCEPT !.deferred = Unasked(S, id), !.popups[id].owners = @ + 1]
  <2>1. old.owners + 1 = 1
    BY <1>1
  <2>2. QED BY <2>1
<1>3. H = [S EXCEPT !.popups = [S.popups EXCEPT ![id] = new], !.deferred = q]
  BY <1>1 DEF Hovered, Space, Popup
<1>4. one \in Popup /\ one.owners = 1 /\ one.hovered = old.hovered
  <2> HIDE DEF old
  <2>1. QED BY <1>1 DEF Popup
<1>5. p \in [Ids -> Popup] /\ p[id] = one
  <2> HIDE DEF one
  <2>1. QED BY <1>1, <1>4
<1>6. T.popups = p
  BY DEF Space
<1>7. BeginHover(S, id) = IF T.popups[id].owners = 1 /\ ~T.popups[id].hovered
                          THEN PauseTimeout([T EXCEPT !.popups[id].hovered = TRUE], id) ELSE T
  BY <1>2 DEF BeginHover
<1>8. T.popups[id].owners = 1 /\ T.popups[id].hovered = old.hovered
  <2> HIDE DEF T, p, one, old
  <2>1. QED BY <1>4, <1>5, <1>6
<1>9. [one EXCEPT !.hovered = TRUE] = new
  <2> HIDE DEF old
  <2>1. QED BY <1>1 DEF Popup
<1>10. [T EXCEPT !.popups[id].hovered = TRUE] = H
  <2>1. [p EXCEPT ![id] = [p[id] EXCEPT !.hovered = TRUE]] = [S.popups EXCEPT ![id] = new]
    <3> HIDE DEF one, new
    <3>1. QED BY <1>1, <1>5, <1>9
  <2> HIDE DEF p, new, q
  <2>2. QED BY <1>3, <1>6, <2>1 DEF Space
<1>11. old.hovered => T = H
  <2> SUFFICES ASSUME old.hovered PROVE T = H
    OBVIOUS
  <2>1. one = new
    <3>1. old.hovered = TRUE
      BY <1>1 DEF Popup
    <3> HIDE DEF old
    <3>2. QED BY <1>1, <3>1 DEF Popup
  <2> HIDE DEF one, new, q
  <2>2. QED BY <1>3, <2>1 DEF Space
<1> HIDE DEF T, H
<1>12. QED BY <1>7, <1>8, <1>10, <1>11 DEF H, old

\* The pointer comes onto a card, and onto no other.
LEMMA BeginHoverFrom ==
  ASSUME NEW S, NEW X, NEW Y, NEW W, Whole(S, X, Y, W), NEW id \in Ids, HasCard(S, id), id \in X => id \in Y,
         S.pointer.area = [id |-> id, follows |-> TRUE], \A x \in Ids : S.popups[x].owners = 0
  PROVE  LET T == BeginHover(S, id)
         IN /\ Whole(T, X, Y, W) /\ Pointed(S, T) /\ T.pointer = S.pointer /\ T.popups[id].owners = 1
            /\ \A x \in Ids : T.popups[x].hovered => x = id \/ S.popups[x].hovered
<1> DEFINE H == Hovered(S, id)
           T == BeginHover(S, id)
           was == S.popups[id].hovered
<1>1. S \in Space /\ Lives(S, W) /\ CallsKnown(S) /\ Layout(S) /\ CardsAt(S, X) /\ Hovers(S, {}) /\ Expiries(S, Y)
  BY DEF Whole
<1>2. Entered(S) \subseteq Ids /\ Open(S) \subseteq Entered(S) /\ id \in Entered(S)
  BY <1>1, SpaceIs DEF CardsAt, HasCard
<1>3. T = IF was THEN H ELSE PauseTimeout(H, id)
  BY <1>1, BeginHoverIs
<1>4. /\ H \in Space /\ H.notes = S.notes /\ H.cards = S.cards
      /\ H.pending = S.pending /\ H.order = S.order /\ H.scenes = S.scenes /\ H.pointer = S.pointer
      /\ Calls(H) = {c \in Calls(S) : c.call = "reset" => c.id # id}
      /\ \A x \in Ids : x # id => H.popups[x] = S.popups[x]
      /\ H.popups[id].hovered = TRUE /\ H.popups[id].owners = 1
      /\ H.popups[id].at = S.popups[id].at /\ H.popups[id].exiting = S.popups[id].exiting
      /\ H.popups[id].finite = S.popups[id].finite
  BY <1>1, HoveredIs
<1> HIDE DEF H
<1>5. Pointed(S, H)
  BY <1>4 DEF Pointed
<1>6. Entered(H) = Entered(S) /\ Open(H) = Open(S) /\ Placed(H) = Placed(S)
  BY <1>1, <1>5, PointedKeeps
<1>7. Lives(H, W) /\ Layout(H) /\ CardsAt(H, X)
  <2>1. \A x \in Ids \ Entered(S) : H.popups[x] = S.popups[x]
    BY <1>2, <1>4
  <2>2. \A i \in Instances, x \in Ids : H.cards[i][x] = S.cards[i][x]
    BY <1>4
  <2>3. QED BY <1>1, <1>5, <2>1, <2>2, PointedGood
<1>8. CallsKnown(H)
  BY <1>1, <1>4, <1>6 DEF CallsKnown
<1>9. \A x : Asked(H, x) <=> Asked(S, x) /\ x # id
  BY <1>4 DEF Asked
<1>10. Hovers(H, {})
  <2>1. \A x \in Ids : H.popups[x].owners > 0 =>
          /\ H.popups[x].owners = 1 /\ H.popups[x].hovered
          /\ H.pointer.area = [id |-> x, follows |-> TRUE]
    <3> SUFFICES ASSUME NEW x \in Ids, H.popups[x].owners > 0
                 PROVE  /\ H.popups[x].owners = 1 /\ H.popups[x].hovered
                        /\ H.pointer.area = [id |-> x, follows |-> TRUE]
      OBVIOUS
    <3>1. x = id
      <4> SUFFICES ASSUME x # id PROVE FALSE
        OBVIOUS
      <4>1. H.popups[x].owners = 0
        BY <1>4
      <4>2. QED BY <4>1
    <3>2. QED BY <1>4, <3>1
  <2>2. \A x \in Ids : Asked(H, x) => H.popups[x].owners = 0
    BY <1>4, <1>9
  <2>3. \A x \in Open(H) : H.popups[x].hovered => H.popups[x].owners > 0 \/ Asked(H, x)
    BY <1>1, <1>2, <1>4, <1>6, <1>9 DEF Hovers
  <2>4. \A x \in Open(H) : H.popups[x].hovered \/ Asked(H, x) => HasCard(H, x)
    BY <1>1, <1>2, <1>4, <1>6, <1>9 DEF Hovers, HasCard
  <2>5. QED BY <2>1, <2>2, <2>3, <2>4 DEF Hovers
<1>11. id \in Open(S) \ X => id \in Placed(S)
  BY <1>1 DEF HasCard, CardsAt, Shows, Open
<1>12. ASSUME NEW x \in Open(S) \ Y PROVE Clocked(H, x)
  <2>1. Clocked(S, x) /\ x \in Ids
    BY <1>1, <1>2 DEF Expiries
  <2>2. H.popups[x].finite = S.popups[x].finite /\ (H.popups[x].hovered => x \in Placed(H))
    BY <1>4, <1>6, <1>11, <2>1 DEF Clocked
  <2>3. \A c \in Calls(H) : c \in Calls(S)
    BY <1>4
  <2>4. QED BY <1>4, <2>1, <2>2, <2>3 DEF Clocked
<1>13. Expiries(H, Y \cup {id})
  <2>1. \A x \in Open(S) \ (Y \cup {id}) : x \in Ids /\ x # id /\ H.popups[x] = S.popups[x]
    BY <1>2, <1>4
  <2>2. QED BY <1>1, <1>4, <1>6, <1>12, <2>1 DEF Expiries
<1>14. /\ Retimed(H, T, id)
       /\ id \in Open(H) \ Y =>
            (T.notes[id].expiring <=> H.notes[id].timed /\ id \in Placed(H) /\ ~H.popups[id].hovered)
  <2>1. CASE was
    <3>1. T = H
      BY <1>3, <2>1
    <3>2. id \in Open(H) \ Y => ~S.notes[id].expiring
      BY <1>1, <1>6, <2>1 DEF Expiries
    <3> HIDE DEF T
    <3>3. QED BY <1>4, <3>1, <3>2, RetimedSelf
  <2>2. CASE ~was
    <3>1. T = PauseTimeout(H, id)
      BY <1>3, <2>2
    <3> HIDE DEF T
    <3>2. Retimed(H, T, id) /\ T.notes[id].expiring = FALSE
      BY <1>4, <3>1, PauseTimeoutIs
    <3>3. QED BY <1>4, <3>2
  <2>3. QED BY <2>1, <2>2
<1> HIDE DEF T
<1>15. /\ Lives(T, W) /\ CallsKnown(T) /\ Layout(T) /\ CardsAt(T, X) /\ Hovers(T, {})
  BY <1>2, <1>4, <1>6, <1>7, <1>8, <1>10, <1>14, RetimedKeeps
<1>16. Expiries(T, Y)
  BY <1>2, <1>4, <1>6, <1>12, <1>13, <1>14, RetimedExpiries
<1>17. Pointed(H, T) /\ T.popups = H.popups /\ T.pointer = H.pointer /\ T \in Space
  BY <1>14 DEF Retimed, Pointed
<1>18. Pointed(S, T)
  BY <1>5, <1>17, PointedTwice
<1>20. \A x \in Ids : T.popups[x].hovered => x = id \/ S.popups[x].hovered
  BY <1>4, <1>17
<1>19. QED BY <1>4, <1>15, <1>16, <1>17, <1>18, <1>20 DEF Whole, T

\* While nothing counts as hovered the pointer may be anywhere.
LEMMA MovesFrom ==
  ASSUME NEW S, NEW X, NEW Y, NEW W, Whole(S, X, Y, W), \A x \in Ids : S.popups[x].owners = 0,
         NEW p \in [on : {0} \cup Instances, area : [id : Ids \cup {NoId}, follows : BOOLEAN]]
  PROVE  LET T == [S EXCEPT !.pointer = p]
         IN Whole(T, X, Y, W) /\ Pointed(S, T) /\ T.pointer = p /\ T.popups = S.popups /\ T.cards = S.cards
<1> DEFINE T == [S EXCEPT !.pointer = p]
<1>1. S \in Space /\ Lives(S, W) /\ CallsKnown(S) /\ Layout(S) /\ CardsAt(S, X) /\ Hovers(S, {}) /\ Expiries(S, Y)
  BY DEF Whole
<1>2. /\ T \in Space /\ T.pointer = p /\ T.notes = S.notes /\ T.cards = S.cards
      /\ T.pending = S.pending /\ T.order = S.order /\ T.popups = S.popups
      /\ T.scenes = S.scenes /\ T.deferred = S.deferred
  BY <1>1, PointerOf
<1> HIDE DEF T
<1>3. Pointed(S, T)
  BY <1>2 DEF Pointed
<1>4. /\ Entered(T) = Entered(S) /\ Open(T) = Open(S) /\ Placed(T) = Placed(S) /\ Calls(T) = Calls(S)
  BY <1>1, <1>2, <1>3, PointedKeeps DEF Calls
<1>5. Lives(T, W) /\ Layout(T) /\ CardsAt(T, X)
  <2>1. /\ \A x \in Ids \ Entered(S) : T.popups[x] = S.popups[x]
        /\ \A i \in Instances, x \in Ids : T.cards[i][x] = S.cards[i][x]
    BY <1>2
  <2>2. QED BY <1>1, <1>3, <2>1, PointedGood
<1>6. CallsKnown(T)
  BY <1>1, <1>2, <1>4 DEF CallsKnown
<1>7. Hovers(T, {})
  <2>1. \A x : Asked(T, x) <=> Asked(S, x)
    BY <1>4 DEF Asked
  <2>2. \A x : HasCard(T, x) <=> HasCard(S, x)
    BY <1>2 DEF HasCard
  <2>3. QED BY <1>1, <1>2, <1>4, <2>1, <2>2 DEF Hovers
<1>8. Expiries(T, Y)
  BY <1>1, <1>2, <1>4 DEF Expiries, Clocked
<1>9. QED BY <1>2, <1>3, <1>5, <1>6, <1>7, <1>8 DEF Whole, T

\* The same, of a good state.
LEMMA MovesKeeps ==
  ASSUME NEW S, NEW Y, NEW W, Good(S, {}, Y, W), \A x \in Ids : S.popups[x].owners = 0,
         NEW p \in [on : {0} \cup Instances, area : [id : Ids \cup {NoId}, follows : BOOLEAN]]
  PROVE  LET T == [S EXCEPT !.pointer = p]
         IN Good(T, {}, Y, W) /\ Pointed(S, T) /\ T.pointer = p /\ T.popups = S.popups /\ T.cards = S.cards
<1> DEFINE none == {}
           T == [S EXCEPT !.pointer = p]
<1>1. Whole(S, none, Y, W)
  BY WholeIs
<1> HIDE DEF none
<1>2. Whole(T, none, Y, W) /\ Pointed(S, T) /\ T.pointer = p /\ T.popups = S.popups /\ T.cards = S.cards
  BY <1>1, MovesFrom
<1> HIDE DEF T
<1>3. QED BY <1>2, WholeIs DEF none, T

\* What the pointer may be on belongs to a card that is there.
LEMMA AreaIs ==
  ASSUME NEW S \in Space, NEW i, NEW a \in Areas(S, i)
  PROVE  /\ a \in [id : Ids \cup {NoId}, follows : BOOLEAN]
         /\ a = [id |-> a.id, follows |-> a.follows] /\ a.follows \in BOOLEAN
         /\ a = NoArea \/ (a.id \in Ids /\ S.cards[i][a.id] # NoCard /\ (S.cards[i][a.id].hooked => a.follows))
         /\ a.follows => a.id \in Ids /\ S.cards[i][a.id] # NoCard
<1>1. CASE a = NoArea
  BY <1>1 DEF NoArea
<1>2. CASE a # NoArea
  <2>1. a \in [id : Ids, follows : BOOLEAN] /\ S.cards[i][a.id] # NoCard /\ (S.cards[i][a.id].hooked => a.follows)
    BY <1>2 DEF Areas
  <2>2. QED BY <2>1
<1>3. QED BY <1>1, <1>2

\* The pointer goes from one card to another: the first hover ends, the second begins.
LEMMA PointAtFrom ==
  ASSUME NEW S, NEW X, NEW Y, NEW W, Whole(S, X, Y, W), OnCard(S), NEW i \in Instances, NEW area \in Areas(S, i),
         area.follows /\ area.id \in X => area.id \in Y
  PROVE  LET T == PointAt(S, i, area)
         IN /\ Whole(T, X, Y, W) /\ Pointed(S, T)
            /\ \A x \in Ids : T.popups[x].hovered => S.popups[x].hovered \/ (area.follows /\ area.id = x)
            /\ area = S.pointer.area => T = S
            /\ area # S.pointer.area =>
                 /\ T.pointer = [on |-> i, area |-> area]
                 /\ area.follows => T.popups[area.id].owners = 1
<1> DEFINE p == [on |-> i, area |-> area]
           L == Leave(S)
           U == [L EXCEPT !.pointer = p]
           B == BeginHover(U, area.id)
           T == PointAt(S, i, area)
<1>1. S \in Space
  BY DEF Whole
<1>2. T = IF area = S.pointer.area THEN S ELSE IF area.follows THEN B ELSE U
  BY DEF PointAt
<1>3. CASE area = S.pointer.area
  <2>1. T = S
    BY <1>2, <1>3
  <2> HIDE DEF T
  <2>2. Whole(T, X, Y, W) /\ Pointed(S, T)
    BY <1>1, <2>1 DEF Pointed
  <2>3. QED BY <1>3, <2>1, <2>2 DEF T
<1>4. CASE area # S.pointer.area
  <2>1. /\ area \in [id : Ids \cup {NoId}, follows : BOOLEAN]
        /\ area = [id |-> area.id, follows |-> area.follows] /\ area.follows \in BOOLEAN
        /\ area.follows => area.id \in Ids /\ S.cards[i][area.id] # NoCard
    BY <1>1, AreaIs
  <2>2. p \in [on : {0} \cup Instances, area : [id : Ids \cup {NoId}, follows : BOOLEAN]]
    BY <2>1
  <2>3. Whole(L, X, Y, W) /\ Pointed(S, L) /\ L.cards = S.cards
        /\ \A x \in Ids : L.popups[x].owners = 0 /\ L.popups[x].hovered = S.popups[x].hovered
    BY LeaveFrom
  <2> HIDE DEF L
  <2>4. Whole(U, X, Y, W) /\ Pointed(L, U) /\ U.pointer = p /\ U.popups = L.popups /\ U.cards = L.cards
    <3> HIDE DEF p
    <3>1. QED BY <2>2, <2>3, MovesFrom
  <2> HIDE DEF U
  <2>5. Pointed(S, U)
    BY <2>3, <2>4, PointedTwice
  <2>6. CASE ~area.follows
    <3>1. T = U
      BY <1>2, <1>4, <2>6
    <3> HIDE DEF T
    <3>2. Whole(T, X, Y, W) /\ Pointed(S, T) /\ T.pointer = [on |-> i, area |-> area]
          /\ \A x \in Ids : T.popups[x].hovered => S.popups[x].hovered
      BY <2>3, <2>4, <2>5, <3>1
    <3>3. QED BY <1>4, <2>6, <3>2 DEF T
  <2>7. CASE area.follows
    <3>1. T = B
      BY <1>2, <1>4, <2>7
    <3>2. HasCard(U, area.id) /\ area.id \in Ids
      BY <2>1, <2>3, <2>4, <2>7 DEF HasCard
    <3>3. U.pointer.area = [id |-> area.id, follows |-> TRUE]
      BY <2>1, <2>4, <2>7
    <3>4. Whole(B, X, Y, W) /\ Pointed(U, B) /\ B.pointer = U.pointer /\ B.popups[area.id].owners = 1
          /\ \A x \in Ids : B.popups[x].hovered => x = area.id \/ U.popups[x].hovered
      BY <2>3, <2>4, <3>2, <3>3, BeginHoverFrom
    <3> HIDE DEF B, T
    <3>5. Whole(T, X, Y, W) /\ Pointed(S, T) /\ T.pointer = [on |-> i, area |-> area]
          /\ T.popups[area.id].owners = 1
          /\ \A x \in Ids : T.popups[x].hovered => x = area.id \/ S.popups[x].hovered
      BY <2>3, <2>4, <2>5, <3>1, <3>4, PointedTwice
    <3>6. QED BY <1>4, <2>7, <3>5 DEF T
  <2>8. QED BY <2>1, <2>6, <2>7
<1>5. QED BY <1>3, <1>4

\* The same, of a good state.
LEMMA PointAtKeeps ==
  ASSUME NEW S, NEW Y, NEW W, Good(S, {}, Y, W), OnCard(S), NEW i \in Instances, NEW area \in Areas(S, i)
  PROVE  LET T == PointAt(S, i, area)
         IN /\ Good(T, {}, Y, W) /\ Pointed(S, T)
            /\ area = S.pointer.area => T = S
            /\ area # S.pointer.area =>
                 /\ T.pointer = [on |-> i, area |-> area]
                 /\ area.follows => T.popups[area.id].owners = 1
<1> DEFINE none == {}
           T == PointAt(S, i, area)
<1>1. Whole(S, none, Y, W) /\ area.id \notin none
  BY WholeIs
<1> HIDE DEF none
<1>2. /\ Whole(T, none, Y, W) /\ Pointed(S, T)
      /\ area = S.pointer.area => T = S
      /\ area # S.pointer.area =>
           /\ T.pointer = [on |-> i, area |-> area]
           /\ area.follows => T.popups[area.id].owners = 1
  BY <1>1, PointAtFrom
<1> HIDE DEF T
<1>3. QED BY <1>2, WholeIs DEF none, T

\* The cards of the pointer's output that a handler has taken away or built anew, and those it has
\* added.
Vanished(S, T, rebuilt) ==
  rebuilt \cup {id \in Ids : S.cards[T.pointer.on][id] # NoCard /\ T.cards[T.pointer.on][id] = NoCard}

Arrived(S, T) == {id \in Ids : S.cards[T.pointer.on][id] = NoCard /\ T.cards[T.pointer.on][id] # NoCard}

\* What a handler that is over has made of the card under the pointer: the card is gone and nothing
\* counts it as hovered, or it is as the pointer left it.
Movable(S, T, rebuilt, Y) ==
  /\ T.pointer.on \in {0} \cup T.scenes /\ rebuilt \subseteq Ids
  /\ T.pointer.on = 0 => T.pointer = Away
  /\ T.pointer.on # 0 =>
       LET a == T.pointer.area
       IN IF a.id \in Vanished(S, T, rebuilt) THEN T.popups[a.id].owners = 0
          ELSE a \in Areas(T, T.pointer.on) /\ (a.follows /\ a.id \notin Y => T.popups[a.id].owners = 1)

\* The motion after a handler puts the pointer on what is there, and ends the hover it leaves.
LEMMA MotionKeeps ==
  ASSUME NEW S, NEW T, NEW rebuilt, NEW Y, NEW W, Good(T, {}, Y, W), Movable(S, T, rebuilt, Y),
         NEW V \in Motion(S, T, rebuilt)
  PROVE  Good(V, {}, Y, W) /\ Pointed(T, V) /\ PointerFits(V, Y)
<1> DEFINE i == T.pointer.on
           a == T.pointer.area
           gone == Vanished(S, T, rebuilt)
           came == Arrived(S, T)
           p == [on |-> i, area |-> NoArea]
           U == IF a.id \in gone THEN [T EXCEPT !.pointer.area = NoArea] ELSE T
<1>1. T \in Space /\ Hovers(T, {}) /\ T.scenes \subseteq Instances
  BY GoodIs, SpaceIs
<1>2. Pointed(T, T)
  BY <1>1 DEF Pointed
<1>3. V \in IF i = 0 THEN {T} ELSE IF gone \cup came = {} THEN {T} ELSE {PointAt(U, i, area) : area \in Areas(T, i)}
  BY DEF Motion, Vanished, Arrived
<1>4. CASE i = 0
  <2>1. V = T /\ T.pointer = Away
    BY <1>3, <1>4 DEF Movable
  <2>2. PointerFits(V, Y)
    BY <2>1 DEF PointerFits, Away, NoArea
  <2>3. QED BY <1>2, <2>1, <2>2
<1>5. CASE i # 0 /\ gone \cup came = {}
  <2>1. V = T
    BY <1>3, <1>5
  <2>2. a.id \notin Vanished(S, T, rebuilt)
    BY <1>5
  <2>3. PointerFits(V, Y)
    BY <1>5, <2>1, <2>2 DEF PointerFits, Movable
  <2>4. QED BY <1>2, <2>1, <2>3
<1>6. CASE i # 0 /\ gone \cup came # {}
  <2>1. PICK area \in Areas(T, i) : V = PointAt(U, i, area)
    BY <1>3, <1>6
  <2>2. i \in Instances /\ i \in T.scenes
    BY <1>1, <1>6 DEF Movable
  <2>3. /\ Good(U, {}, Y, W) /\ Pointed(T, U) /\ OnCard(U)
        /\ U.pointer.area \in Areas(T, i) /\ U.pointer.on = i
        /\ U.pointer.area.follows /\ U.pointer.area.id \notin Y => U.popups[U.pointer.area.id].owners = 1
    <3>1. CASE a.id \in gone
      <4>1. T.popups[a.id].owners = 0
        BY <1>6, <3>1 DEF Movable
      <4>2. ASSUME NEW x \in Ids PROVE T.popups[x].owners = 0
        <5>1. T.popups[x].owners \in Nat
          BY <1>1, PopupIs
        <5>2. T.popups[x].owners > 0 => a.id = x
          <6> SUFFICES ASSUME T.popups[x].owners > 0 PROVE a.id = x
            OBVIOUS
          <6>1. a = [id |-> x, follows |-> TRUE]
            BY <1>1 DEF Hovers
          <6>2. QED BY <6>1
        <5>3. QED BY <4>1, <5>1, <5>2
      <4>3. U = [T EXCEPT !.pointer = p]
        <5>1. T.pointer \in [on : {0} \cup Instances, area : [id : Ids \cup {NoId}, follows : BOOLEAN]]
          BY <1>1, SpaceIs
        <5>2. [T.pointer EXCEPT !.area = NoArea] = p
          BY <5>1
        <5>3. QED BY <3>1, <5>2
      <4>4. p \in [on : {0} \cup Instances, area : [id : Ids \cup {NoId}, follows : BOOLEAN]]
        BY <2>2 DEF NoArea
      <4>5. p.area = NoArea /\ p.on = i
        OBVIOUS
      <4> HIDE DEF U, p
      <4>6. Good(U, {}, Y, W) /\ Pointed(T, U) /\ U.pointer = p
        BY <4>2, <4>3, <4>4, MovesKeeps
      <4>7. NoArea \in Areas(T, i) /\ ~NoArea.follows
        BY DEF Areas, NoArea
      <4>8. U.pointer.area = NoArea /\ U.pointer.on = i
        BY <4>5, <4>6
      <4>9. OnCard(U)
        BY <4>7, <4>8 DEF OnCard
      <4> HIDE DEF i
      <4>10. QED BY <4>6, <4>7, <4>8, <4>9
    <3>2. CASE a.id \notin gone
      <4>1. U = T /\ a \in Areas(T, i) /\ (a.follows /\ a.id \notin Y => T.popups[a.id].owners = 1)
        BY <1>6, <3>2 DEF Movable
      <4>2. a.follows => a.id \in Ids /\ T.cards[i][a.id] # NoCard
        BY <1>1, <4>1, AreaIs
      <4>3. OnCard(U)
        BY <2>2, <4>1, <4>2 DEF OnCard
      <4>4. QED BY <1>2, <4>1, <4>3
    <3>3. QED BY <3>1, <3>2
  <2> HIDE DEF U
  <2>4. Areas(U, i) = Areas(T, i) /\ U \in Space
    BY <1>1, <2>2, <2>3, PointedKeeps, GoodIs
  <2>5. /\ Good(V, {}, Y, W) /\ Pointed(U, V)
        /\ area = U.pointer.area => V = U
        /\ area # U.pointer.area =>
             V.pointer = [on |-> i, area |-> area] /\ (area.follows => V.popups[area.id].owners = 1)
    <3> HIDE DEF i
    <3>1. QED BY <2>1, <2>2, <2>3, <2>4, PointAtKeeps
  <2>6. Pointed(T, V)
    BY <2>3, <2>5, PointedTwice
  <2>7. V.scenes = T.scenes /\ Areas(V, i) = Areas(T, i)
    BY <1>1, <2>2, <2>6, PointedKeeps DEF Pointed
  <2>8. /\ V.pointer.on = i /\ V.pointer.area \in Areas(T, i)
        /\ V.pointer.area.follows /\ V.pointer.area.id \notin Y => V.popups[V.pointer.area.id].owners = 1
    <3> HIDE DEF i, a
    <3>1. CASE area = U.pointer.area
      BY <2>3, <2>5, <3>1
    <3>2. CASE area # U.pointer.area
      <4>1. V.pointer = [on |-> i, area |-> area] /\ (area.follows => V.popups[area.id].owners = 1)
        BY <2>5, <3>2
      <4>2. V.pointer.on = i /\ V.pointer.area = area
        BY <4>1
      <4>3. QED BY <2>1, <4>1, <4>2
    <3>3. QED BY <3>1, <3>2
  <2>9. PointerFits(V, Y)
    <3> HIDE DEF i
    <3>1. QED BY <1>6, <2>2, <2>7, <2>8 DEF PointerFits
  <2>10. QED BY <2>5, <2>6, <2>9
<1>7. QED BY <1>4, <1>5, <1>6

\* A handler keeps the card under the pointer, builds it anew, or has taken all of the popup away.
LEMMA RebuiltMoves ==
  ASSUME NEW S \in Space, NEW T, NEW Z, NEW G, NEW Y, NEW W, NEW rebuilt \in SUBSET Ids,
         PointerFits(S, Y), Good(T, {}, Y, W), Onward(S, T, Z, G),
         \A x \in Ids \cap G : x \in rebuilt \/ x \notin Entered(T),
         \A x \in rebuilt : T.popups[x].owners = 0,
         \A x \in (Ids \cap Z) \ G : T.popups[x].owners = S.popups[x].owners
  PROVE  Movable(S, T, rebuilt, Y)
<1> DEFINE i == T.pointer.on
           a == T.pointer.area
<1>1. T \in Space /\ Lives(T, W) /\ CardsAt(T, {}) /\ T.scenes \subseteq Instances /\ S.scenes \subseteq Instances
  BY GoodIs, SpaceIs
<1>2. CASE T.pointer = Away
  BY <1>2 DEF Movable, Away
<1>3. CASE T.pointer # Away
  <2>1. T.pointer = S.pointer /\ T.scenes = S.scenes /\ i \in S.scenes /\ i \in Instances /\ a \in Areas(S, i) /\ i # 0
    BY <1>1, <1>3, SurfacesAre DEF Onward, PointerFits
  <2>2. /\ a \in [id : Ids \cup {NoId}, follows : BOOLEAN]
        /\ a = NoArea \/ (a.id \in Ids /\ S.cards[i][a.id] # NoCard /\ (S.cards[i][a.id].hooked => a.follows))
        /\ a.follows => a.id \in Ids /\ S.cards[i][a.id] # NoCard
    BY <2>1, AreaIs
  <2>3. CASE a.id \in rebuilt
    <3>1. T.popups[a.id].owners = 0 /\ a.id \in Vanished(S, T, rebuilt)
      BY <2>3 DEF Vanished
    <3>2. QED BY <2>1, <3>1 DEF Movable
  <2>4. CASE a.id \in Vanished(S, T, rebuilt) \ rebuilt
    <3>1. a.id \in Ids /\ a # NoArea
      BY <2>4, ToastAssumption DEF Vanished, NoArea
    <3>2. S.cards[i][a.id] # NoCard
      BY <2>2, <3>1
    <3>3. T.cards[i][a.id] = NoCard
      BY <2>4, <3>2 DEF Vanished
    <3>4. a.id \in G
      BY <2>1, <3>1, <3>2, <3>3 DEF Onward
    <3>5. T.popups[a.id] = Blank
      BY <1>1, <2>4, <3>1, <3>4 DEF Lives
    <3>6. T.popups[a.id].owners = 0
      BY <3>5 DEF Blank
    <3>7. QED BY <2>1, <2>4, <3>6 DEF Movable
  <2>5. CASE a.id \notin Vanished(S, T, rebuilt)
    <3>1. CASE a = NoArea
      <4>1. a \in Areas(T, i) /\ ~a.follows
        BY <3>1 DEF Areas, NoArea
      <4>2. QED BY <2>1, <2>5, <4>1 DEF Movable
    <3>2. CASE a # NoArea
      <4>1. a.id \in Ids /\ S.cards[i][a.id] # NoCard /\ (S.cards[i][a.id].hooked => a.follows)
        BY <2>2, <3>2
      <4>2. T.cards[i][a.id] # NoCard
        BY <2>5, <4>1 DEF Vanished
      <4>3. a.id \in Entered(T) /\ a.id \notin G
        BY <1>1, <2>1, <2>5, <4>1, <4>2 DEF CardsAt, Vanished
      <4>4. T.cards[i][a.id].hooked = S.cards[i][a.id].hooked
        BY <2>1, <4>1, <4>3 DEF Onward
      <4>5. a \in Areas(T, i)
        BY <2>2, <4>1, <4>2, <4>4 DEF Areas
      <4>6. a.follows /\ a.id \notin Y => T.popups[a.id].owners = 1
        <5> SUFFICES ASSUME a.follows, a.id \notin Y PROVE T.popups[a.id].owners = 1
          OBVIOUS
        <5>1. S.popups[a.id].owners = 1
          BY <2>1 DEF PointerFits
        <5>2. a.id \in Ids \ Z \/ a.id \in (Ids \cap Z) \ G
          BY <4>1, <4>3
        <5>3. QED BY <5>1, <5>2 DEF Onward
      <4>7. QED BY <2>1, <2>5, <4>5, <4>6 DEF Movable
    <3>3. QED BY <3>1, <3>2
  <2>6. QED BY <2>3, <2>4, <2>5
<1>4. QED BY <1>2, <1>3

\* Most handlers build no card anew.
LEMMA HandlerMoves ==
  ASSUME NEW S \in Space, NEW T, NEW Z, NEW G, NEW Y, NEW W, PointerFits(S, Y), Good(T, {}, Y, W),
         Onward(S, T, Z, G), \A x \in Ids \cap G : x \notin Entered(T),
         \A x \in (Ids \cap Z) \ G : T.popups[x].owners = S.popups[x].owners
  PROVE  Movable(S, T, {}, Y)
<1> DEFINE rebuilt == {}
<1>1. rebuilt \in SUBSET Ids /\ \A x \in rebuilt : T.popups[x].owners = 0
  OBVIOUS
<1> HIDE DEF rebuilt
<1>2. Movable(S, T, rebuilt, Y)
  BY <1>1, RebuiltMoves
<1>3. QED BY <1>2 DEF rebuilt

(************************* A popup that has gone *************************)

\* An entry is erased, with its cards.
Gone(S, id) ==
  [S EXCEPT !.order = Those(@, Ids \ {id}), !.popups[id] = Blank,
            !.cards = [i \in Instances |-> [S.cards[i] EXCEPT ![id] = NoCard]]]

\* What is left of an entry that is erased.
LEMMA GoneIs ==
  ASSUME NEW S \in Space, NEW id \in Ids
  PROVE  LET T == Gone(S, id)
         IN /\ T \in Space /\ T.notes = S.notes /\ T.pending = S.pending /\ T.scenes = S.scenes
            /\ T.pointer = S.pointer /\ T.deferred = S.deferred
            /\ Entered(T) = Entered(S) \ {id}
            /\ T.popups[id] = Blank /\ \A x \in Ids : x # id => T.popups[x] = S.popups[x]
            /\ \A i \in Instances : /\ T.cards[i][id] = NoCard
                                    /\ \A x \in Ids : x # id => T.cards[i][x] = S.cards[i][x]
            /\ T.order = <<>> <=> Entered(S) \subseteq {id}
<1> DEFINE o == Those(S.order, Ids \ {id})
           p == [S.popups EXCEPT ![id] = Blank]
           new == [i \in Instances |-> NoCard]
           A == [S EXCEPT !.order = o, !.popups = p]
           T == [A EXCEPT !.cards = [i \in Instances |-> [A.cards[i] EXCEPT ![id] = new[i]]]]
<1>1. /\ S.order \in Seq(Ids) /\ S.popups \in [Ids -> Popup] /\ Entered(S) \subseteq Ids
  BY SpaceIs
<1>2. o \in Seq(Ids) /\ ToSet(o) = Entered(S) \ {id}
  <2>1. o \in Seq(Ids) /\ ToSet(o) = ToSet(S.order) \cap (Ids \ {id})
    BY <1>1, ThoseIs
  <2>2. QED BY <1>1, <2>1 DEF Entered
<1>3. Blank \in Popup
  BY TallestIs DEF Blank, Popup, Queued
<1>4. p \in [Ids -> Popup] /\ p[id] = Blank /\ \A x \in Ids : x # id => p[x] = S.popups[x]
  BY <1>1, <1>3
<1>5. Gone(S, id) = T
  <2>1. A.cards = S.cards
    BY DEF Space
  <2>2. QED BY <2>1 DEF Gone, Space
<1>6. new \in [Instances -> Card \cup {NoCard}] /\ \A i \in Instances : new[i] = NoCard
  OBVIOUS
<1> HIDE DEF o, p, new
<1>7. /\ A \in Space /\ A.order = o /\ A.popups = p /\ A.notes = S.notes /\ A.pending = S.pending
      /\ A.scenes = S.scenes /\ A.cards = S.cards /\ A.pointer = S.pointer /\ A.deferred = S.deferred
  BY <1>2, <1>4 DEF Space
<1> HIDE DEF A
<1>8. /\ T \in Space
      /\ T.notes = A.notes /\ T.pending = A.pending /\ T.order = A.order /\ T.popups = A.popups
      /\ T.scenes = A.scenes /\ T.pointer = A.pointer /\ T.deferred = A.deferred
      /\ \A i \in Instances : /\ T.cards[i][id] = new[i]
                              /\ \A x \in Ids : x # id => T.cards[i][x] = A.cards[i][x]
  BY <1>6, <1>7, CardsFrom
<1> HIDE DEF T
<1>9. Entered(T) = Entered(S) \ {id}
  BY <1>2, <1>7, <1>8 DEF Entered
<1>10. T.order = <<>> <=> Entered(T) = {}
  BY <1>8, SpaceIs, ToSetIs DEF Entered
<1>11. QED BY <1>4, <1>5, <1>6, <1>7, <1>8, <1>9, <1>10

\* What is over leaves nothing behind.
LEMMA GoneKeeps ==
  ASSUME NEW S, NEW Y, NEW W, Good(S, {}, Y, W), NEW id \in Entered(S), S.popups[id].exiting
  PROVE  LET T == Gone(S, id)
         IN Good(T, {}, Y, W) /\ Onward(S, T, {id}, {id})
<1> DEFINE T == Gone(S, id)
<1>1. S \in Space /\ Lives(S, W) /\ CallsKnown(S) /\ Layout(S) /\ CardsAt(S, {}) /\ Hovers(S, {}) /\ Expiries(S, Y)
  BY GoodIs
<1>2. id \in Ids /\ Entered(S) \subseteq Ids /\ Open(S) \subseteq Entered(S) /\ Placed(S) \subseteq Open(S)
      /\ id \notin Open(S) /\ S.notes[id].life = "closed" /\ S.scenes \subseteq Instances
  BY <1>1, SpaceIs DEF Open, Lives
<1>3. /\ T \in Space /\ T.notes = S.notes /\ T.pending = S.pending /\ T.scenes = S.scenes
      /\ T.pointer = S.pointer /\ T.deferred = S.deferred
      /\ Entered(T) = Entered(S) \ {id}
      /\ T.popups[id] = Blank /\ \A x \in Ids : x # id => T.popups[x] = S.popups[x]
      /\ \A i \in Instances : /\ T.cards[i][id] = NoCard
                              /\ \A x \in Ids : x # id => T.cards[i][x] = S.cards[i][x]
  BY <1>1, <1>2, GoneIs
<1> HIDE DEF T
<1>4. Open(T) = Open(S) /\ \A x \in Open(S) : x \in Ids /\ x # id /\ T.popups[x] = S.popups[x]
  BY <1>2, <1>3 DEF Open
<1>5. Placed(T) = Placed(S)
  <2>1. /\ Placed(T) = {x \in Entered(T) : ~T.popups[x].exiting /\ T.popups[x].at # Queued}
        /\ Placed(S) = {x \in Entered(S) : ~S.popups[x].exiting /\ S.popups[x].at # Queued}
    BY DEF Placed, Entered
  <2>2. QED BY <1>2, <1>3, <1>4, <2>1 DEF Open
<1>6. \A x \in Placed(S) : x \in Ids /\ x # id /\ T.popups[x] = S.popups[x] /\ Below(T, x) = Below(S, x)
  BY <1>2, <1>3, <1>4 DEF Below
<1>7. Calls(T) = Calls(S) /\ \A x : Asked(T, x) <=> Asked(S, x)
  BY <1>3 DEF Calls, Asked
<1>8. Lives(T, W)
  BY <1>1, <1>2, <1>3, <1>4 DEF Lives
<1>9. CallsKnown(T)
  <2>1. ASSUME NEW c \in Calls(T)
        PROVE  /\ c.call \in {"close", "reset"} => T.notes[c.id].life = "closed" \/ c.id \in Entered(T)
               /\ c.call = "remove" => T.notes[c.id].life = "closed"
               /\ c.call = "orphans" => \A x \in c.ids : T.notes[x].life = "closed"
    <3>1. CASE c.call \in {"close", "reset"} /\ c.id = id
      BY <1>2, <1>3, <3>1
    <3>2. CASE ~(c.call \in {"close", "reset"} /\ c.id = id)
      BY <1>1, <1>3, <1>7, <3>2 DEF CallsKnown
    <3>3. QED BY <3>1, <3>2
  <2>2. QED BY <2>1 DEF CallsKnown
<1>10. Layout(T)
  BY <1>1, <1>5, <1>6 DEF Layout, Apart
<1>11. CardsAt(T, {})
  <2>1. \A i \in Instances, x \in Ids : Shows(S, i, x) => Shows(T, i, x)
    BY <1>5, <1>6 DEF Shows
  <2>2. \A i \in Instances, x \in Ids : T.cards[i][x] # NoCard =>
          x # id /\ T.cards[i][x] = S.cards[i][x] /\ T.popups[x] = S.popups[x]
    BY <1>3
  <2>3. QED BY <1>1, <1>2, <1>3, <1>5, <1>6, <2>1, <2>2 DEF CardsAt
<1>12. Hovers(T, {})
  <2>1. \A x \in Ids : T.popups[x].owners > 0 => x # id
    BY <1>3 DEF Blank
  <2>2. \A x \in Ids : Asked(T, x) => T.popups[x].owners = 0
    <3>1. T.popups[id].owners = 0
      BY <1>3 DEF Blank
    <3>2. QED BY <1>1, <1>3, <1>7, <3>1 DEF Hovers
  <2>3. \A x \in Open(S) : HasCard(S, x) => HasCard(T, x)
    BY <1>3, <1>4 DEF HasCard
  <2>4. QED BY <1>1, <1>3, <1>4, <1>7, <2>1, <2>2, <2>3 DEF Hovers
<1>13. Expiries(T, Y)
  <2>1. \A x \in Open(T) : \A i \in Instances : T.cards[i][x] = S.cards[i][x]
    BY <1>3, <1>4
  <2>2. \A x \in Open(T) : Clocked(S, x) => Clocked(T, x)
    BY <1>3, <1>4, <1>5, <1>7, <2>1 DEF Clocked
  <2>3. \A x \in Ids \ Entered(T) : x = id \/ x \in Ids \ Entered(S)
    BY <1>3
  <2>4. QED BY <1>1, <1>2, <1>3, <1>4, <1>5, <2>2, <2>3 DEF Expiries
<1>14. Onward(S, T, {id}, {id})
  <2>1. Entered(S) \ {id} \subseteq Entered(T)
    BY <1>3
  <2>2. QED BY <1>3, <1>5, <2>1 DEF Onward
<1>15. QED BY <1>3, <1>8, <1>9, <1>10, <1>11, <1>12, <1>13, <1>14 DEF Good, T

\* finishRemoval, of a popup that is over: the stack closes up and what waits is shown.
LEMMA FinishKeeps ==
  ASSUME NEW S, NEW Y, NEW W, Good(S, {}, Y, W), NEW id \in Ids, id \in Entered(S) => S.popups[id].exiting
  PROVE  LET T == FinishRemoval(S, id)
         IN /\ Good(T, {}, Y, W) /\ Onward(S, T, {id}, {id}) /\ Entered(T) = Entered(S) \ {id} /\ Open(T) = Open(S)
            /\ id \in Entered(S) => Roomless(T)
            /\ id \notin Entered(S) => T = S
<1> DEFINE U == Gone(S, id)
           E == [U EXCEPT !.scenes = {}, !.pointer = Away]
           C == CollapseStack(U)
           R == RevealQueuedEntries(C)
           A == SyncAll(R)
           T == FinishRemoval(S, id)
<1>1. S \in Space
  BY GoodIs
<1>2. T = IF id \notin Entered(S) THEN S ELSE IF U.order = <<>> THEN E ELSE A
  BY DEF FinishRemoval, Gone, In, Entered
<1>3. CASE id \notin Entered(S)
  <2>1. T = S
    BY <1>2, <1>3
  <2> HIDE DEF T
  <2>2. QED BY <1>3, <2>1, OnwardSelf DEF T
<1>4. CASE id \in Entered(S)
  <2>1. Good(U, {}, Y, W) /\ Onward(S, U, {id}, {id})
    BY <1>4, GoneKeeps
  <2>2. /\ U \in Space /\ Entered(U) = Entered(S) \ {id} /\ (U.order = <<>> <=> Entered(S) \subseteq {id})
        /\ \A x \in Ids : x # id => U.popups[x] = S.popups[x]
    BY <1>1, GoneIs
  <2>3. Open(U) = Open(S)
    <3>1. Entered(S) \subseteq Ids
      BY <1>1, SpaceIs
    <3> HIDE DEF U
    <3>2. QED BY <1>4, <2>2, <3>1 DEF Open
  <2> HIDE DEF U
  <2>4. CASE U.order = <<>>
    <3>1. Entered(U) = {}
      BY <2>2, <2>4
    <3>2. T = E
      BY <1>2, <1>4, <2>4
    <3>3. /\ E \in Space /\ E.notes = U.notes /\ E.pending = U.pending /\ E.order = U.order /\ E.popups = U.popups
          /\ E.cards = U.cards /\ E.deferred = U.deferred /\ E.scenes = {} /\ E.pointer = Away
      <4>1. Away \in [on : {0} \cup Instances, area : [id : Ids \cup {NoId}, follows : BOOLEAN]]
        BY DEF Away, NoArea
      <4>2. QED BY <2>2, <4>1 DEF Space
    <3> HIDE DEF E, T
    <3>4. Entered(E) = {} /\ Open(E) = {} /\ Placed(E) = {} /\ Open(U) = {} /\ Calls(E) = Calls(U)
      BY <3>1, <3>3 DEF Entered, Open, Placed, Calls
    <3>5. /\ Lives(U, W) /\ CallsKnown(U) /\ CardsAt(U, {}) /\ Hovers(U, {}) /\ Expiries(U, Y)
      BY <2>1, GoodIs
    <3>6. \A x \in Ids : U.popups[x].owners = 0
      BY <3>1, <3>5 DEF Lives, Blank
    <3>7. Lives(E, W) /\ CallsKnown(E)
      BY <3>1, <3>3, <3>4, <3>5 DEF Lives, CallsKnown
    <3>8. Layout(E) /\ CardsAt(E, {}) /\ Hovers(E, {}) /\ Roomless(E)
      BY <3>1, <3>3, <3>4, <3>5, <3>6 DEF Layout, CardsAt, Hovers, Roomless
    <3>9. Expiries(E, Y)
      BY <3>1, <3>3, <3>4, <3>5 DEF Expiries
    <3>10. Good(E, {}, Y, W)
      BY <3>3, <3>7, <3>8, <3>9 DEF Good
    <3>11. Onward(S, E, {id}, {id})
      <4>1. \A x \in Ids : /\ E.notes[x] = U.notes[x] /\ E.popups[x] = U.popups[x]
        BY <3>3
      <4>2. \A x \in Placed(U) : FALSE
        BY <3>1 DEF Placed, Entered
      <4>3. \A x \in Ids \ {id} : ~(x \in Placed(S))
        BY <2>2, <2>4 DEF Placed, Entered
      <4>4. QED BY <2>1, <3>1, <3>3, <3>4, <4>1, <4>3 DEF Onward
    <3>12. QED BY <1>4, <2>2, <2>3, <3>1, <3>2, <3>4, <3>8, <3>10, <3>11 DEF T
  <2>5. CASE U.order # <<>>
    <3>1. T = A
      BY <1>2, <1>4, <2>5
    <3>2. Good(C, {}, Y, W) /\ Restacked(U, C, {})
      BY <2>1, CollapseKeeps
    <3> HIDE DEF C
    <3>3. Good(R, {}, Y, W) /\ Restacked(C, R, {}) /\ Roomless(R) /\ C \in Space
      BY <3>2, RevealAllKeeps, GoodIs
    <3> HIDE DEF R
    <3>4. Good(A, {}, Y, W) /\ Restacked(R, A, {}) /\ A.popups = R.popups /\ R \in Space
      BY <3>3, SyncAllKeeps, GoodIs
    <3> HIDE DEF A, T
    <3>5. Roomless(A)
      BY <3>3, <3>4, RoomlessStays
    <3>6. Restacked(U, A, {})
      <4>1. Restacked(U, R, {})
        BY <2>2, <3>2, <3>3, RestackedTwice
      <4>2. QED BY <2>2, <3>4, <4>1, RestackedTwice
    <3>7. Onward(U, A, {}, {})
      BY <2>2, <3>6, RestackedOnward
    <3>8. Onward(U, A, {id}, {id})
      BY <3>7, OnwardMore
    <3>9. Onward(S, A, {id}, {id})
      BY <2>1, <3>8, OnwardTwice
    <3>10. Entered(A) = Entered(U) /\ Open(A) = Open(U)
      <4>1. Entered(A) = Entered(U) /\ Entered(U) \subseteq Ids
        BY <2>2, <3>6, SpaceIs DEF Restacked, Entered
      <4>2. QED BY <3>6, <4>1 DEF Restacked, Open
    <3>11. QED BY <1>4, <2>2, <2>3, <3>1, <3>4, <3>5, <3>9, <3>10 DEF T
  <2>6. QED BY <2>4, <2>5
<1>5. QED BY <1>3, <1>4

(************************ A notification is closed ************************)

\* What a notification that is closed is to the store, and to the queue of the toasts.
Over == [NoNote EXCEPT !.life = "closed"]

Ended(S, id) == [S EXCEPT !.notes[id] = Over, !.pending = Those(@, Ids \ {id})]

\* A notification is closed: what of the state its end changes.
LEMMA EndedIs ==
  ASSUME NEW S \in Space, NEW id \in Ids
  PROVE  LET T == Ended(S, id)
         IN /\ T \in Space /\ T.order = S.order /\ T.popups = S.popups /\ T.cards = S.cards
            /\ T.scenes = S.scenes /\ T.pointer = S.pointer /\ T.deferred = S.deferred
            /\ T.notes[id].life = "closed" /\ T.notes[id].expiring = FALSE
            /\ \A x \in Ids : x # id => T.notes[x] = S.notes[x]
            /\ ToSet(T.pending) = ToSet(S.pending) \ {id}
<1> DEFINE n == [S.notes EXCEPT ![id] = Over]
           q == Those(S.pending, Ids \ {id})
<1>1. S.notes \in [Ids -> Note] /\ S.pending \in Seq(Ids)
  BY SpaceIs
<1>2. q \in Seq(Ids) /\ ToSet(q) = ToSet(S.pending) \ {id}
  <2>1. q \in Seq(Ids) /\ ToSet(q) = ToSet(S.pending) \cap (Ids \ {id}) /\ ToSet(S.pending) \subseteq Ids
    BY <1>1, ThoseIs, ToSetIs
  <2>2. QED BY <2>1
<1>3. Over \in Note /\ Over.life = "closed" /\ Over.expiring = FALSE
  <2> DEFINE old == NoNote
  <2>1. old \in Note /\ old.expiring = FALSE
    BY TallestIs DEF NoNote, Note
  <2> HIDE DEF old
  <2>2. [old EXCEPT !.life = "closed"] \in Note /\ [old EXCEPT !.life = "closed"].life = "closed"
        /\ [old EXCEPT !.life = "closed"].expiring = FALSE
    BY <2>1 DEF Note
  <2>3. QED BY <2>2 DEF Over, old
<1>4. n \in [Ids -> Note] /\ n[id] = Over /\ \A x \in Ids : x # id => n[x] = S.notes[x]
  BY <1>1, <1>3
<1>5. Ended(S, id) = [S EXCEPT !.notes = n, !.pending = q]
  BY DEF Ended
<1> HIDE DEF n, q
<1>6. QED BY <1>2, <1>3, <1>4, <1>5 DEF Space

\* The popup of a notification that is closed is not open any more; nothing else is another.
OnlyCloses(S, T, id) ==
  /\ T \in Space /\ T.order = S.order /\ T.cards = S.cards /\ T.scenes = S.scenes /\ T.pointer = S.pointer
  /\ T.deferred = S.deferred
  /\ \A x \in Ids : x # id => T.notes[x] = S.notes[x] /\ T.popups[x] = S.popups[x]
  /\ T.notes[id].life = "closed"
  /\ T.popups[id].owners = S.popups[id].owners /\ T.popups[id].hovered = S.popups[id].hovered
  /\ id \in Open(S) => T.popups[id].exiting = TRUE
  /\ id \notin Open(S) => T.popups[id] = S.popups[id]

\* A closed notification whose popup is on its way out leaves the state good.
LEMMA ClosedGood ==
  ASSUME NEW S, NEW T, NEW Y, NEW W, Good(S, {}, Y, W), NEW id \in Ids, OnlyCloses(S, T, id)
  PROVE  /\ Good(T, {}, Y, W \ {id}) /\ Entered(T) = Entered(S) /\ Open(T) = Open(S) \ {id}
         /\ Placed(T) = Placed(S) \ {id}
<1>0. /\ T \in Space /\ T.order = S.order /\ T.cards = S.cards /\ T.scenes = S.scenes /\ T.pointer = S.pointer
      /\ T.deferred = S.deferred
      /\ \A x \in Ids : x # id => T.notes[x] = S.notes[x] /\ T.popups[x] = S.popups[x]
      /\ T.notes[id].life = "closed"
      /\ T.popups[id].owners = S.popups[id].owners /\ T.popups[id].hovered = S.popups[id].hovered
      /\ id \in Open(S) => T.popups[id].exiting = TRUE
      /\ id \notin Open(S) => T.popups[id] = S.popups[id]
  BY DEF OnlyCloses
<1> USE <1>0
<1>1. S \in Space /\ Lives(S, W) /\ CallsKnown(S) /\ Layout(S) /\ CardsAt(S, {}) /\ Hovers(S, {}) /\ Expiries(S, Y)
  BY GoodIs
<1>2. /\ Entered(S) \subseteq Ids /\ Open(S) \subseteq Entered(S) /\ Placed(S) \subseteq Open(S)
      /\ S.scenes \subseteq Instances /\ Calls(S) \subseteq Closure
  BY <1>1, SpaceIs, ToSetIs DEF Calls
<1>3. Entered(T) = Entered(S) /\ Calls(T) = Calls(S)
  BY DEF Entered, Calls
<1>4. /\ Open(T) = {x \in Entered(S) : ~T.popups[x].exiting} /\ Open(S) = {x \in Entered(S) : ~S.popups[x].exiting}
      /\ Placed(T) = {x \in Open(T) : T.popups[x].at # Queued} /\ Placed(S) = {x \in Open(S) : S.popups[x].at # Queued}
  BY <1>3 DEF Open, Placed, Entered
<1>5. Open(T) = Open(S) \ {id}
  BY <1>2, <1>4
<1>6. Placed(T) = Placed(S) \ {id}
  BY <1>2, <1>4, <1>5
<1>7. \A x \in Ids : x # id => Below(T, x) = Below(S, x)
  BY DEF Below
<1>8. Lives(T, W \ {id})
  <2>1. \A x \in Ids : T.notes[x].life = "live" <=> x \in (W \ {id}) \cup Open(T)
    BY <1>1, <1>5 DEF Lives
  <2>2. \A x \in Ids : T.notes[x].life = "live" => T.notes[x].height # 0
    BY <1>1 DEF Lives
  <2>3. \A x \in Entered(T) \ Open(T) : T.notes[x].life = "closed"
    BY <1>1, <1>2, <1>3, <1>5 DEF Lives
  <2>4. \A x \in Ids \ Entered(T) : T.popups[x] = Blank
    BY <1>1, <1>2, <1>3 DEF Lives
  <2>5. QED BY <2>1, <2>2, <2>3, <2>4 DEF Lives
<1>9. CallsKnown(T)
  <2>1. \A x \in Ids : S.notes[x].life = "closed" => T.notes[x].life = "closed"
    OBVIOUS
  <2>2. \A c \in Calls(S) : /\ c.call \in {"close", "reset", "remove"} => c.id \in Ids
                            /\ c.call = "orphans" => c.ids \subseteq Ids
    BY <1>2 DEF Closure
  <2>3. ASSUME NEW c \in Calls(S)
        PROVE  /\ c.call \in {"close", "reset"} => T.notes[c.id].life = "closed" \/ c.id \in Entered(T)
               /\ c.call = "remove" => T.notes[c.id].life = "closed"
               /\ c.call = "orphans" => \A x \in c.ids : T.notes[x].life = "closed"
    <3>1. /\ c.call \in {"close", "reset"} => S.notes[c.id].life = "closed" \/ c.id \in Entered(S)
          /\ c.call = "remove" => S.notes[c.id].life = "closed"
          /\ c.call = "orphans" => \A x \in c.ids : S.notes[x].life = "closed"
      BY <1>1 DEF CallsKnown
    <3>2. QED BY <1>3, <2>1, <2>2, <3>1
  <2>4. QED BY <1>3, <2>3 DEF CallsKnown
<1>10. Layout(T)
  <2>1. \A x \in Placed(T) : x \in Ids /\ x # id /\ x \in Placed(S)
    BY <1>2, <1>6
  <2>2. QED BY <1>1, <1>7, <2>1 DEF Layout, Apart
<1>11. CardsAt(T, {})
  <2>1. \A x \in Entered(S) : x = id => T.popups[x].exiting
    BY <1>1, <1>4 DEF Lives
  <2>2. \A i \in Instances, x \in Ids : x # id /\ Shows(S, i, x) => Shows(T, i, x)
    BY <1>6, <1>7 DEF Shows
  <2>3. \A i \in Instances, x \in Ids : S.cards[i][x] # NoCard => x \in Entered(S)
    BY <1>1 DEF CardsAt
  <2>4. QED BY <1>1, <1>2, <1>3, <1>6, <2>1, <2>2, <2>3 DEF CardsAt
<1>12. Hovers(T, {})
  <2>1. \A x \in Ids : T.popups[x].owners = S.popups[x].owners /\ T.popups[x].hovered = S.popups[x].hovered
    OBVIOUS
  <2>2. \A x : /\ Asked(T, x) <=> Asked(S, x)
               /\ HasCard(T, x) <=> HasCard(S, x)
    BY <1>3 DEF Asked, HasCard
  <2>3. QED BY <1>1, <1>2, <1>5, <2>1, <2>2 DEF Hovers
<1>13. Expiries(T, Y)
  <2>1. \A x \in Open(T) : x \in Ids /\ x # id /\ x \in Open(S) /\ T.notes[x] = S.notes[x] /\ T.popups[x] = S.popups[x]
    BY <1>2, <1>5
  <2>2. \A x \in Open(T) : Clocked(S, x) => Clocked(T, x)
    BY <1>3, <1>6, <2>1 DEF Clocked
  <2>3. QED BY <1>1, <1>3, <1>6, <2>1, <2>2 DEF Expiries
<1>14. QED BY <1>3, <1>5, <1>6, <1>8, <1>9, <1>10, <1>11, <1>12, <1>13 DEF Good

\* The cards of a popup that is over are animated away.
LEMMA ExitGood ==
  ASSUME NEW S, NEW Y, NEW W, Good(S, {}, Y, W), NEW id \in Entered(S), S.popups[id].exiting
  PROVE  LET T == WithCards(S, id, LAMBDA i :
                    IF S.cards[i][id] = NoCard THEN NoCard ELSE [S.cards[i][id] EXCEPT !.moves = "exit"])
         IN Good(T, {}, Y, W) /\ Restacked(S, T, {}) /\ Entered(T) = Entered(S) /\ Open(T) = Open(S)
<1> DEFINE new == [i \in Instances |->
             IF S.cards[i][id] = NoCard THEN NoCard ELSE [S.cards[i][id] EXCEPT !.moves = "exit"]]
           T == [S EXCEPT !.cards = [i \in Instances |-> [S.cards[i] EXCEPT ![id] = new[i]]]]
<1>1. S \in Space /\ Lives(S, W) /\ CallsKnown(S) /\ Layout(S) /\ CardsAt(S, {}) /\ Hovers(S, {}) /\ Expiries(S, Y)
  BY GoodIs
<1>2. id \in Ids /\ Entered(S) \subseteq Ids /\ Open(S) \subseteq Entered(S) /\ Placed(S) \subseteq Open(S)
      /\ id \notin Open(S) /\ S.scenes \subseteq Instances
  BY <1>1, SpaceIs DEF Open
<1>3. \A i \in Instances : S.cards[i][id] \in Card \/ S.cards[i][id] = NoCard
  BY <1>1, <1>2, CardIs
<1>4. \A c \in Card : [c EXCEPT !.moves = "exit"] \in Card /\ [c EXCEPT !.moves = "exit"].hooked = c.hooked
  BY DEF Card
<1>5. \A i \in Instances :
        /\ new[i] \in Card \cup {NoCard} /\ (new[i] = NoCard <=> S.cards[i][id] = NoCard)
        /\ S.cards[i][id] # NoCard => new[i].hooked = S.cards[i][id].hooked
  BY <1>3, <1>4, NoCardIs
<1>6. WithCards(S, id, LAMBDA i :
        IF S.cards[i][id] = NoCard THEN NoCard ELSE [S.cards[i][id] EXCEPT !.moves = "exit"]) = T
  BY DEF WithCards
<1>7. new \in [Instances -> Card \cup {NoCard}]
  BY <1>5
<1> HIDE DEF new
<1>8. /\ T \in Space
      /\ T.notes = S.notes /\ T.pending = S.pending /\ T.order = S.order /\ T.popups = S.popups
      /\ T.scenes = S.scenes /\ T.pointer = S.pointer /\ T.deferred = S.deferred
      /\ \A i \in Instances : /\ T.cards[i][id] = new[i]
                              /\ \A x \in Ids : x # id => T.cards[i][x] = S.cards[i][x]
  BY <1>1, <1>2, <1>7, CardsFrom
<1> HIDE DEF T
<1>9. Entered(T) = Entered(S) /\ Open(T) = Open(S) /\ Placed(T) = Placed(S) /\ Calls(T) = Calls(S)
  BY <1>8 DEF Entered, Open, Placed, Calls
<1>10. \A i \in Instances, x \in Ids : /\ T.cards[i][x] = NoCard <=> S.cards[i][x] = NoCard
                                       /\ S.cards[i][x] # NoCard => T.cards[i][x].hooked = S.cards[i][x].hooked
  BY <1>5, <1>8
<1>11. Restacked(S, T, {})
  BY <1>8, <1>9, <1>10 DEF Restacked
<1>12. Lives(T, W) /\ CallsKnown(T) /\ Hovers(T, {})
  BY <1>1, <1>11, RestackedKeeps
<1>13. \A x : Below(T, x) = Below(S, x)
  BY <1>8 DEF Below
<1>14. Layout(T)
  BY <1>1, <1>8, <1>9, <1>13 DEF Layout, Apart
<1>15. CardsAt(T, {})
  <2>1. \A i, x : Shows(T, i, x) <=> Shows(S, i, x)
    BY <1>9, <1>13 DEF Shows
  <2>2. \A i \in Instances, x \in Ids : x # id => T.cards[i][x] = S.cards[i][x]
    BY <1>8
  <2>3. QED BY <1>1, <1>2, <1>8, <1>9, <1>10, <2>1, <2>2 DEF CardsAt
<1>16. Expiries(T, Y)
  <2>1. \A x \in Open(T) : x # id /\ x \in Ids /\ \A i \in Instances : T.cards[i][x] = S.cards[i][x]
    BY <1>2, <1>8, <1>9
  <2>2. \A x \in Open(T) : Clocked(S, x) => Clocked(T, x)
    BY <1>8, <1>9, <2>1 DEF Clocked
  <2>3. QED BY <1>1, <1>2, <1>8, <1>9, <2>2 DEF Expiries
<1>17. QED BY <1>6, <1>8, <1>9, <1>11, <1>12, <1>14, <1>15, <1>16 DEF Good

\* Closing a notification dismisses its popup, at once if no output shows it.
LEMMA CloseKeeps ==
  ASSUME NEW S, NEW Y, NEW W, Good(S, {}, Y, W), PointerFits(S, Y), NEW id \in Ids
  PROVE  LET T == CloseNote(S, id)
         IN /\ Good(T, {}, Y, W \ {id}) /\ Movable(S, T, {}, Y) /\ Onward(Ended(S, id), T, {id}, {id})
            /\ Entered(T) \subseteq Entered(S) /\ Open(T) = Open(S) \ {id}
            /\ Roomless(S) \/ Entered(S) # Open(S) => Roomless(T) \/ Entered(T) # Open(T)
<1> DEFINE E == Ended(S, id)
           D == [E EXCEPT !.popups[id].exiting = TRUE]
           F == FinishRemoval(D, id)
           X == WithCards(D, id, LAMBDA i :
                  IF D.cards[i][id] = NoCard THEN NoCard ELSE [D.cards[i][id] EXCEPT !.moves = "exit"])
           T == CloseNote(S, id)
<1>1. S \in Space /\ Lives(S, W)
  BY GoodIs
<1>2. /\ Entered(S) \subseteq Ids /\ Open(S) \subseteq Entered(S) /\ Placed(S) \subseteq Open(S)
      /\ S.popups \in [Ids -> Popup] /\ S.popups[id] \in Popup
  BY <1>1, SpaceIs
<1>3. /\ E \in Space /\ E.order = S.order /\ E.popups = S.popups /\ E.cards = S.cards
      /\ E.scenes = S.scenes /\ E.pointer = S.pointer /\ E.deferred = S.deferred
      /\ E.notes[id].life = "closed" /\ E.notes[id].expiring = FALSE
      /\ \A x \in Ids : x # id => E.notes[x] = S.notes[x]
      /\ ToSet(E.pending) = ToSet(S.pending) \ {id}
  BY <1>1, EndedIs
<1>4. T = RemovePopup(E, id)
  BY DEF CloseNote, Ended, Over
<1> HIDE DEF E
<1>5. PointerFits(E, Y) /\ \A U : Movable(E, U, {}, Y) => Movable(S, U, {}, Y)
  <2>1. \A i : Areas(E, i) = Areas(S, i)
    BY <1>3 DEF Areas
  <2>2. PointerFits(E, Y)
    BY <1>3, <2>1 DEF PointerFits
  <2>3. \A U : Vanished(E, U, {}) = Vanished(S, U, {})
    BY <1>3 DEF Vanished
  <2>4. QED BY <2>2, <2>3 DEF Movable
<1>6. Entered(E) = Entered(S) /\ Open(E) = Open(S)
  BY <1>3 DEF Entered, Open
<1>7. In(E, id) /\ ~E.popups[id].exiting <=> id \in Open(S)
  BY <1>3, <1>6 DEF In, Open, Entered
<1>8. CASE id \notin Open(S)
  <2>1. T = E
    BY <1>4, <1>7, <1>8 DEF RemovePopup
  <2>2. /\ Good(E, {}, Y, W \ {id}) /\ Entered(E) = Entered(S) /\ Open(E) = Open(S) \ {id}
        /\ Placed(E) = Placed(S) \ {id}
    <3>1. OnlyCloses(S, E, id)
      BY <1>3, <1>8 DEF OnlyCloses
    <3>2. QED BY <3>1, ClosedGood
  <2>3. Onward(E, E, {id}, {id}) /\ Onward(E, E, {}, {})
    BY OnwardSelf
  <2>4. Movable(E, E, {}, Y)
    <3> DEFINE Z == {}
    <3>1. Onward(E, E, Z, Z) /\ \A x \in Ids \cap Z : x \notin Entered(E)
      BY <2>3
    <3>2. \A x \in (Ids \cap Z) \ Z : E.popups[x].owners = E.popups[x].owners
      OBVIOUS
    <3> HIDE DEF Z
    <3>3. QED BY <1>3, <1>5, <2>2, <3>1, <3>2, HandlerMoves
  <2>5. Roomless(S) => Roomless(E)
    <3> SUFFICES ASSUME Roomless(S), NEW x \in Open(E), E.popups[x].at = Queued
                 PROVE  FindPlacement(E, E.notes[x].height) = Queued
      BY DEF Roomless
    <3>1. x \in Ids /\ x # id /\ x \in Open(S) /\ E.notes[x] = S.notes[x] /\ S.popups[x].at = Queued
      BY <1>2, <1>3, <2>2
    <3>2. S.notes[x].height \in Nat /\ FindPlacement(S, S.notes[x].height) = Queued
      BY <1>1, <3>1, PopupIs DEF Roomless
    <3>3. \A p \in Placed(S) : /\ p \in Placed(E) /\ E.popups[p].at = S.popups[p].at
                               /\ E.notes[p].height = S.notes[p].height
      BY <1>2, <1>3, <1>8, <2>2
    <3>4. QED BY <1>1, <1>3, <3>1, <3>2, <3>3, NoRoomStays
  <2>6. Roomless(S) \/ Entered(S) # Open(S) => Roomless(E) \/ Entered(E) # Open(E)
    BY <1>6, <2>5
  <2> HIDE DEF T
  <2>7. QED BY <1>5, <2>1, <2>2, <2>3, <2>4, <2>6 DEF T, E
<1>9. CASE id \in Open(S)
  <2>1. T = DismissPopup(E, id)
    BY <1>4, <1>7, <1>9 DEF RemovePopup
  <2>2. /\ D \in Space /\ D.notes = E.notes /\ D.pending = E.pending /\ D.order = E.order /\ D.cards = E.cards
        /\ D.scenes = E.scenes /\ D.pointer = E.pointer /\ D.deferred = E.deferred
        /\ \A x \in Ids : x # id => D.popups[x] = S.popups[x]
        /\ D.popups[id].exiting = TRUE /\ D.popups[id].owners = S.popups[id].owners
        /\ D.popups[id].hovered = S.popups[id].hovered
    <3> DEFINE old == S.popups[id]
               new == [old EXCEPT !.exiting = TRUE]
               p == [S.popups EXCEPT ![id] = new]
    <3>1. D = [E EXCEPT !.popups = p]
      BY <1>3
    <3>2. new \in Popup /\ new.exiting = TRUE /\ new.owners = old.owners /\ new.hovered = old.hovered
      <4> HIDE DEF old
      <4>1. old \in Popup
        BY <1>2 DEF old
      <4>2. QED BY <4>1 DEF Popup
    <3> HIDE DEF new, old
    <3>3. p \in [Ids -> Popup] /\ p[id] = new /\ \A x \in Ids : x # id => p[x] = S.popups[x]
      BY <1>2, <3>2
    <3> HIDE DEF p, D
    <3>4. QED BY <1>3, <3>1, <3>2, <3>3 DEF Space, old
  <2>3. T = IF ~HasCard(E, id) THEN F ELSE X
    <3>1. T = IF ~HasCard(E, id) THEN FinishRemoval(D, id)
              ELSE WithCards(D, id, LAMBDA i :
                     IF E.cards[i][id] = NoCard THEN NoCard ELSE [E.cards[i][id] EXCEPT !.moves = "exit"])
      BY <2>1 DEF DismissPopup
    <3> HIDE DEF D
    <3>2. QED BY <2>2, <3>1
  <2> HIDE DEF D, T
  <2>4. /\ Good(D, {}, Y, W \ {id}) /\ Entered(D) = Entered(S) /\ Open(D) = Open(S) \ {id}
    <3>1. OnlyCloses(S, D, id)
      BY <1>3, <1>9, <2>2 DEF OnlyCloses
    <3>2. QED BY <3>1, ClosedGood
  <2>5. id \in Entered(D) /\ D.popups[id].exiting
    BY <1>2, <1>9, <2>2, <2>4
  <2>6. Onward(E, D, {id}, {})
    <3>1. \A x \in Ids \ {id} : x \in Placed(E) => x \in Placed(D)
      BY <1>3, <2>2 DEF Placed
    <3>2. QED BY <1>3, <1>6, <2>2, <2>4, <3>1 DEF Onward
  <2>7. CASE ~HasCard(E, id)
    <3>1. T = F
      BY <2>3, <2>7
    <3>2. /\ Good(F, {}, Y, W \ {id}) /\ Onward(D, F, {id}, {id})
          /\ Entered(F) = Entered(D) \ {id} /\ Open(F) = Open(D) /\ Roomless(F)
      BY <2>4, <2>5, FinishKeeps
    <3> HIDE DEF F
    <3>3. Onward(E, F, {id}, {id})
      <4>1. Onward(E, D, {id}, {id})
        BY <2>6, OnwardMore
      <4>2. QED BY <3>2, <4>1, OnwardTwice
    <3>4. Movable(E, F, {}, Y)
      <4>1. \A x \in Ids \cap {id} : x \notin Entered(F)
        BY <3>2
      <4>2. \A x \in (Ids \cap {id}) \ {id} : F.popups[x].owners = E.popups[x].owners
        OBVIOUS
      <4>3. QED BY <1>3, <1>5, <3>2, <3>3, <4>1, <4>2, HandlerMoves
    <3>5. QED BY <1>5, <2>4, <3>1, <3>2, <3>3, <3>4 DEF E, T
  <2>8. CASE HasCard(E, id)
    <3>1. T = X
      BY <2>3, <2>8
    <3>2. Good(X, {}, Y, W \ {id}) /\ Restacked(D, X, {}) /\ Entered(X) = Entered(D) /\ Open(X) = Open(D)
      BY <2>4, <2>5, ExitGood
    <3> HIDE DEF X
    <3>3. Onward(E, X, {id}, {})
      <4>1. Onward(D, X, {}, {})
        BY <2>2, <3>2, RestackedOnward
      <4>2. Onward(D, X, {id}, {})
        BY <4>1, OnwardMore
      <4>3. QED BY <2>6, <4>2, OnwardTwice
    <3>4. Onward(E, X, {id}, {id})
      BY <3>3, OnwardMore
    <3>5. Movable(E, X, {}, Y)
      <4> DEFINE G == {}
      <4>1. Onward(E, X, {id}, G) /\ \A x \in Ids \cap G : x \notin Entered(X)
        BY <3>3
      <4>2. \A x \in (Ids \cap {id}) \ G : X.popups[x].owners = E.popups[x].owners
        BY <1>3, <2>2, <3>2 DEF Restacked
      <4> HIDE DEF G
      <4>3. QED BY <1>3, <1>5, <3>2, <4>1, <4>2, HandlerMoves
    <3>6. Entered(X) # Open(X)
      BY <2>4, <2>5, <3>2
    <3>7. QED BY <1>5, <2>4, <3>1, <3>2, <3>4, <3>5, <3>6 DEF E, T
  <2>9. QED BY <2>7, <2>8
<1>10. QED BY <1>8, <1>9

(************************ A notification arrives ************************)

\* An entry for a notification, placed or waiting.
Added(S, id, y) ==
  [S EXCEPT !.order = Append(@, id), !.popups[id] = [Blank EXCEPT !.at = y, !.finite = S.notes[id].timed]]

\* What an entry more changes.
LEMMA AddedIs ==
  ASSUME NEW S \in Space, NEW id \in Ids, NEW y \in Queued..Tallest
  PROVE  LET T == Added(S, id, y)
         IN /\ T \in Space /\ T.notes = S.notes /\ T.pending = S.pending /\ T.cards = S.cards
            /\ T.scenes = S.scenes /\ T.pointer = S.pointer /\ T.deferred = S.deferred
            /\ Entered(T) = Entered(S) \cup {id}
            /\ \A x \in Ids : x # id => T.popups[x] = S.popups[x]
            /\ T.popups[id].at = y /\ T.popups[id].exiting = FALSE /\ T.popups[id].hovered = FALSE
            /\ T.popups[id].owners = 0 /\ T.popups[id].finite = S.notes[id].timed
<1> DEFINE o == Append(S.order, id)
           new == [Blank EXCEPT !.at = y, !.finite = S.notes[id].timed]
           p == [S.popups EXCEPT ![id] = new]
           T == [S EXCEPT !.order = o, !.popups = p]
<1>1. /\ S.order \in Seq(Ids) /\ S.popups \in [Ids -> Popup] /\ S.notes[id].timed \in BOOLEAN
  BY SpaceIs, PopupIs
<1>2. o \in Seq(Ids) /\ ToSet(o) = ToSet(S.order) \cup {id}
  BY <1>1, AppendIs
<1>3. /\ new \in Popup /\ new.at = y /\ new.exiting = FALSE /\ new.hovered = FALSE /\ new.owners = 0
      /\ new.finite = S.notes[id].timed
  BY <1>1, TallestIs DEF Blank, Popup, Queued
<1> HIDE DEF new
<1>4. p \in [Ids -> Popup] /\ p[id] = new /\ \A x \in Ids : x # id => p[x] = S.popups[x]
  BY <1>1, <1>3
<1>5. Added(S, id, y) = T
  BY DEF Added, new
<1> HIDE DEF o, p
<1>6. /\ T \in Space /\ T.order = o /\ T.popups = p /\ T.notes = S.notes /\ T.pending = S.pending
      /\ T.scenes = S.scenes /\ T.cards = S.cards /\ T.pointer = S.pointer /\ T.deferred = S.deferred
  BY <1>2, <1>4 DEF Space
<1> HIDE DEF T
<1>7. QED BY <1>2, <1>3, <1>4, <1>5, <1>6 DEF Entered

\* A popup more, where it fits or in the queue, leaves the state good, its cards aside.
LEMMA AddedKeeps ==
  ASSUME NEW S, NEW Y, NEW W, Good(S, {}, Y, W), NEW id \in Ids \cap W, id \notin Entered(S)
  PROVE  LET y == FindPlacement(S, S.notes[id].height)
             T == IF y = Queued THEN Pause(Added(S, id, y), id) ELSE Added(S, id, y)
         IN Good(T, {id}, Y, W) /\ Onward(S, T, {}, {}) /\ Entered(T) = Entered(S) \cup {id}
<1> DEFINE y == FindPlacement(S, S.notes[id].height)
           U == Added(S, id, y)
           T == IF y = Queued THEN Pause(U, id) ELSE U
<1>1. S \in Space /\ Lives(S, W) /\ CallsKnown(S) /\ Layout(S) /\ CardsAt(S, {}) /\ Hovers(S, {}) /\ Expiries(S, Y)
  BY GoodIs
<1>2. /\ Entered(S) \subseteq Ids /\ Open(S) \subseteq Entered(S) /\ Placed(S) \subseteq Open(S)
      /\ S.scenes \subseteq Instances /\ S.notes[id].height \in Nat
  BY <1>1, SpaceIs, PopupIs
<1>3. /\ S.notes[id].life = "live" /\ S.popups[id] = Blank
      /\ id \notin Y => S.notes[id].expiring = S.notes[id].timed
  BY <1>1 DEF Lives, Expiries
<1>4. y \in Queued..Tallest /\ (y # Queued => y \in 0..Tallest /\ Fits(S, S.notes[id].height, y))
  <2>1. y # Queued => y \in 0..Tallest /\ Fits(S, S.notes[id].height, y)
    BY <1>1, <1>2, PlacementIs
  <2> HIDE DEF y
  <2>2. QED BY <2>1, TallestIs DEF Queued
<1> HIDE DEF y
<1>5. /\ U \in Space /\ U.notes = S.notes /\ U.pending = S.pending /\ U.cards = S.cards
      /\ U.scenes = S.scenes /\ U.pointer = S.pointer /\ U.deferred = S.deferred
      /\ Entered(U) = Entered(S) \cup {id}
      /\ \A x \in Ids : x # id => U.popups[x] = S.popups[x]
      /\ U.popups[id].at = y /\ U.popups[id].exiting = FALSE /\ U.popups[id].hovered = FALSE
      /\ U.popups[id].owners = 0 /\ U.popups[id].finite = S.notes[id].timed
  BY <1>1, <1>4, AddedIs
<1> HIDE DEF U
<1>6. Retimed(U, T, id) /\ (y = Queued => T.notes[id].expiring = FALSE) /\ (y # Queued => T = U)
  BY <1>5, PauseIs, RetimedSelf
<1> HIDE DEF T
<1>7. /\ Open(U) = {x \in Entered(U) : ~U.popups[x].exiting} /\ Open(S) = {x \in Entered(S) : ~S.popups[x].exiting}
      /\ Placed(U) = {x \in Open(U) : U.popups[x].at # Queued} /\ Placed(S) = {x \in Open(S) : S.popups[x].at # Queued}
  BY DEF Open, Placed, Entered
<1>8. Open(U) = Open(S) \cup {id}
  BY <1>2, <1>5, <1>7
<1>9. Placed(U) = IF y = Queued THEN Placed(S) ELSE Placed(S) \cup {id}
  BY <1>2, <1>5, <1>7, <1>8
<1>10. \A x \in Ids : x # id => Below(U, x) = Below(S, x)
  BY <1>5 DEF Below
<1>11. Calls(U) = Calls(S) /\ (\A x : Asked(U, x) <=> Asked(S, x))
  BY <1>5 DEF Calls, Asked
<1>12. \A c \in Calls(S) : c.call \in {"close", "reset"} => c.id # id
  BY <1>1, <1>3 DEF CallsKnown
<1>13. ~Asked(S, id)
  BY <1>12 DEF Asked
<1>14. \A i \in Instances : S.cards[i][id] = NoCard
  BY <1>1 DEF CardsAt
<1>15. Lives(U, W)
  <2>1. \A x \in Entered(U) \ Open(U) : x \in Entered(S) \ Open(S)
    BY <1>2, <1>5, <1>8
  <2>2. \A x \in Ids \ Entered(U) : x \in Ids \ Entered(S) /\ x # id
    BY <1>5
  <2>3. QED BY <1>1, <1>3, <1>5, <1>8, <2>1, <2>2 DEF Lives
<1>16. CallsKnown(U)
  BY <1>1, <1>5, <1>11 DEF CallsKnown
<1>17. Layout(U)
  <2>1. CASE y = Queued
    <3>1. \A x \in Placed(S) : x \in Ids /\ x # id
      BY <1>2
    <3>2. QED BY <1>1, <1>5, <1>9, <1>10, <2>1, <3>1 DEF Layout, Apart
  <2>2. CASE y # Queued
    <3>1. \A x \in Placed(S) : x \in Ids /\ x # id /\ U.popups[x] = S.popups[x] /\ Below(U, x) = Below(S, x)
      BY <1>2, <1>5, <1>10
    <3>2. Below(U, id) = y + S.notes[id].height /\ U.popups[id].at = y
      BY <1>5 DEF Below
    <3>3. \A x \in Placed(S) : y + S.notes[id].height <= S.popups[x].at \/ Below(S, x) <= y
      BY <1>4, <2>2 DEF Fits
    <3>4. \A x \in Placed(S) : Apart(U, x, id) /\ Apart(U, id, x)
      BY <3>1, <3>2, <3>3 DEF Apart
    <3>5. \A a, b \in Placed(S) : a # b => Apart(U, a, b)
      BY <1>1, <3>1 DEF Layout, Apart
    <3>6. Below(U, id) <= Tallest
      BY <1>4, <2>2, <3>2 DEF Fits
    <3>7. QED BY <1>1, <1>9, <2>2, <3>1, <3>4, <3>5, <3>6 DEF Layout
  <2>3. QED BY <2>1, <2>2
<1>18. CardsAt(U, {id})
  <2>1. \A x \in Placed(U) \ {id} : x \in Placed(S)
    BY <1>9
  <2>2. \A i \in Instances, x \in Ids : x # id /\ Shows(S, i, x) => Shows(U, i, x)
    BY <1>9, <1>10 DEF Shows
  <2>3. QED BY <1>1, <1>2, <1>5, <1>14, <2>1, <2>2 DEF CardsAt
<1>19. Hovers(U, {id})
  <2>1. \A x : HasCard(U, x) <=> HasCard(S, x)
    BY <1>5 DEF HasCard
  <2>2. \A x \in Ids : U.popups[x].owners > 0 => x # id
    BY <1>5
  <2>3. \A x \in Ids : Asked(U, x) => U.popups[x].owners = 0
    BY <1>1, <1>5, <1>11 DEF Hovers
  <2>4. \A x \in Open(U) : x # id => x \in Open(S) /\ x \in Ids
    BY <1>2, <1>8
  <2>5. id \in Open(U) /\ ~U.popups[id].hovered /\ ~Asked(U, id)
    BY <1>5, <1>8, <1>11, <1>13
  <2>6. QED BY <1>1, <1>5, <1>11, <2>1, <2>2, <2>3, <2>4, <2>5 DEF Hovers
<1>20. Clocked(U, id)
  BY <1>5, <1>11, <1>12, <1>14 DEF Clocked
<1>21. Expiries(U, Y \cup {id})
  <2>1. \A x \in Open(U) \ (Y \cup {id}) : x \in Ids /\ x # id /\ x \in Open(S) \ Y /\ U.popups[x] = S.popups[x]
    BY <1>2, <1>5, <1>8
  <2>2. \A x \in Open(U) \ (Y \cup {id}) : x \in Placed(U) <=> x \in Placed(S)
    BY <1>9
  <2>3. \A x \in Open(U) \ (Y \cup {id}) : Clocked(S, x) => Clocked(U, x)
    BY <1>5, <1>11, <2>1, <2>2 DEF Clocked
  <2>4. QED BY <1>1, <1>5, <2>1, <2>2, <2>3 DEF Expiries
<1>22. id \notin Y => (T.notes[id].expiring <=> U.notes[id].timed /\ id \in Placed(U) /\ ~U.popups[id].hovered)
  <2>1. id \in Placed(U) <=> y # Queued
    BY <1>2, <1>9
  <2>2. S.notes[id].timed \in BOOLEAN
    BY <1>1, PopupIs
  <2>3. QED BY <1>3, <1>5, <1>6, <2>1, <2>2
<1>23. id \in Entered(U)
  BY <1>5
<1>24. /\ Restacked(U, T, {}) /\ Entered(T) = Entered(U)
       /\ Lives(T, W) /\ CallsKnown(T) /\ Layout(T) /\ CardsAt(T, {id}) /\ Hovers(T, {id})
  BY <1>5, <1>6, <1>15, <1>16, <1>17, <1>18, <1>19, <1>23, RetimedKeeps
<1>25. Expiries(T, Y)
  BY <1>5, <1>6, <1>20, <1>21, <1>22, <1>23, RetimedExpiries
<1>26. Good(T, {id}, Y, W)
  BY <1>6, <1>24, <1>25 DEF Good, Retimed
<1>27. Onward(S, U, {}, {})
  <2>1. S.popups[id].owners = 0 /\ S.popups[id].hovered = FALSE /\ id \notin Placed(S)
    BY <1>2, <1>3 DEF Blank
  <2>2. Placed(S) \subseteq Placed(U)
    BY <1>9
  <2>3. QED BY <1>5, <2>1, <2>2 DEF Onward
<1>28. Onward(U, T, {}, {})
  BY <1>5, <1>24, RestackedOnward
<1>29. Onward(S, T, {}, {})
  BY <1>27, <1>28, OnwardTwice
<1>30. QED BY <1>5, <1>24, <1>26, <1>29 DEF T, U, y

\* addPopup gives a notification its popup.
LEMMA AddKeeps ==
  ASSUME NEW S, NEW Y, NEW W, Good(S, {}, Y, W), NEW id \in Ids \cap W
  PROVE  LET T == AddPopup(S, id)
         IN /\ Good(T, {}, Y, W) /\ Onward(S, T, {}, {}) /\ Entered(T) = Entered(S) \cup {id}
            /\ id \in Entered(S) => T = S
            /\ id \notin Entered(S) => Roomless(T)
<1> DEFINE y == FindPlacement(S, S.notes[id].height)
           U == IF y = Queued THEN Pause(Added(S, id, y), id) ELSE Added(S, id, y)
           V == SyncEntryVisibility(U, id)
           R == RevealQueuedEntries(V)
           T == AddPopup(S, id)
<1>1. S \in Space /\ CardsAt(S, {})
  BY GoodIs
<1>2. T = IF id \in Entered(S) THEN S ELSE R
  BY DEF AddPopup, Added, In, Entered
<1>3. CASE id \in Entered(S)
  <2>1. T = S
    BY <1>2, <1>3
  <2> HIDE DEF T
  <2>2. QED BY <1>3, <2>1, OnwardSelf DEF T
<1>4. CASE id \notin Entered(S)
  <2>1. T = R
    BY <1>2, <1>4
  <2>2. Good(U, {id}, Y, W) /\ Onward(S, U, {}, {}) /\ Entered(U) = Entered(S) \cup {id}
    BY <1>4, AddedKeeps
  <2> HIDE DEF U
  <2>3. Good(V, {}, Y, W) /\ Onward(U, V, {}, {id}) /\ V.order = U.order
    <3> DEFINE X == {id}
    <3>1. X = {id} /\ Good(U, X, Y, W) /\ id \in Entered(U)
      BY <2>2
    <3> HIDE DEF X, V
    <3>2. Good(SyncEntryVisibility(U, id), {}, Y, W) /\ Onward(U, SyncEntryVisibility(U, id), {}, X)
          /\ SyncEntryVisibility(U, id).order = U.order
      BY <3>1, SyncKeeps
    <3>3. QED BY <3>2 DEF V, X
  <2> HIDE DEF V
  <2>4. Good(R, {}, Y, W) /\ Restacked(V, R, {}) /\ Roomless(R) /\ V \in Space
    BY <2>3, RevealAllKeeps, GoodIs
  <2> HIDE DEF R
  <2>5. Onward(S, R, {}, {id})
    <3>1. Onward(V, R, {}, {})
      BY <2>4, RestackedOnward
    <3>2. Onward(V, R, {}, {id}) /\ Onward(S, U, {}, {id})
      BY <2>2, <3>1, OnwardMore
    <3>3. QED BY <2>3, <3>2, OnwardTwice
  <2>6. Entered(R) = Entered(S) \cup {id}
    BY <2>2, <2>3, <2>4 DEF Restacked, Entered
  <2>7. \A i \in Instances : S.cards[i][id] = NoCard
    BY <1>1, <1>4 DEF CardsAt
  <2>8. Onward(S, R, {}, {})
    BY <2>5, <2>6, <2>7 DEF Onward
  <2> HIDE DEF T
  <2>9. QED BY <1>4, <2>1, <2>4, <2>6, <2>8 DEF T
<1>5. QED BY <1>3, <1>4

\* The loop over the notifications that wait, as a run of steps.
LEMMA AddLoop ==
  ASSUME NEW D, NEW S \in D, NEW ids \in Seq(Ids),
         \A k \in 1..Len(ids), T \in D : AddPopup(T, ids[k]) \in D
  PROVE  LET n == Len(ids)
         IN \E run \in [0..n -> D] :
              /\ run[0] = S /\ \A k \in 1..n : run[k] = AddPopup(run[k - 1], ids[k])
              /\ run[n] = Each(AddPopup, S, ids)
<1> DEFINE n == Len(ids)
           F == [k \in 1..n |-> [T \in D |-> AddPopup(T, ids[k])]]
           Eq(f) == f = [k \in 0..n |-> IF k = 0 THEN S ELSE AddPopup(f[k - 1], ids[k])]
           run == CHOOSE f : Eq(f)
<1>1. n \in Nat
  BY ToSetIs
<1>2. Each(AddPopup, S, ids) = run[n]
  BY DEF Each
<1>3. F \in [1..n -> [D -> D]]
  OBVIOUS
<1>4. PICK g \in [0..n -> D] : g[0] = S /\ \A k \in 1..n : g[k] = F[k][g[k - 1]]
  <2> HIDE DEF F, n, Eq
  <2>1. S \in D /\ F \in [1..n -> [D -> D]] /\ n \in Nat
    BY <1>1, <1>3
  <2>2. QED BY ONLY <2>1, RunExists
<1>5. Eq(g)
  <2>1. \A k \in 1..n : k - 1 \in 0..n /\ g[k - 1] \in D
    <3> HIDE DEF F, n
    <3>1. QED BY <1>1, <1>4
  <2>2. \A k \in 1..n : g[k] = AddPopup(g[k - 1], ids[k])
    BY <1>4, <2>1
  <2>3. \A k \in 0..n : k = 0 \/ k \in 1..n
    BY <1>1
  <2> HIDE DEF F, n
  <2>4. \A k \in 0..n : g[k] = IF k = 0 THEN S ELSE AddPopup(g[k - 1], ids[k])
    BY <1>4, <2>2, <2>3
  <2>5. QED BY <1>4, <2>4
<1>6. Eq(run)
  <2> HIDE DEF Eq
  <2>1. QED BY <1>5
<1> HIDE DEF run, F, n
<1>7. run = [k \in 0..n |-> IF k = 0 THEN S ELSE AddPopup(run[k - 1], ids[k])]
  BY <1>6
<1>8. run[0] = S /\ \A k \in 1..n : run[k] = AddPopup(run[k - 1], ids[k])
  <2>1. \A k \in 0..n : run[k] = IF k = 0 THEN S ELSE AddPopup(run[k - 1], ids[k])
    BY <1>7
  <2> HIDE DEF Eq
  <2>2. 0 \in 0..n /\ \A k \in 1..n : k \in 0..n /\ k # 0
    BY <1>1
  <2>3. QED BY <2>1, <2>2
<1> HIDE DEF Eq
<1>9. \A k \in 0..n : run[k] \in D
  <2>1. \A k \in 1..n : run[k - 1] \in D => run[k] \in D
    BY <1>8 DEF n
  <2>2. QED BY <1>1, <1>8, <2>1, RunStays
<1>10. run \in [0..n -> D]
  BY <1>7, <1>9
<1>11. QED BY <1>2, <1>8, <1>10 DEF n

\* flushPendingAdds gives every notification that waits for one its popup.
LEMMA FlushKeeps ==
  ASSUME NEW S, NEW Y, NEW ids \in Seq(Ids), Good(S, {}, Y, ToSet(ids)), Roomless(S) \/ Entered(S) # Open(S)
  PROVE  LET T == Each(AddPopup, S, ids)
         IN /\ Good(T, {}, Y, {}) /\ Onward(S, T, {}, {})
            /\ Roomless(T) \/ Entered(T) # Open(T)
<1> DEFINE W == ToSet(ids)
           n == Len(ids)
           Fine(T) == Good(T, {}, Y, W) /\ Onward(S, T, {}, {}) /\ (Roomless(T) \/ Entered(T) # Open(T))
           D == {T \in Space : Fine(T)}
<1>1. S \in Space /\ n \in Nat /\ W = {ids[k] : k \in 1..n} /\ \A k \in 1..n : ids[k] \in Ids
  BY GoodIs, ToSetIs
<1>2. \A k \in 1..n : ids[k] \in Ids \cap W
  <2> HIDE DEF W, n
  <2>1. QED BY <1>1
<1>3. Good(S, {}, Y, W)
  OBVIOUS
<1> HIDE DEF W
<1>4. S \in D
  BY <1>1, <1>3, OnwardSelf
<1>5. ASSUME NEW k \in 1..n, NEW T \in D PROVE AddPopup(T, ids[k]) \in D
  <2> DEFINE id == ids[k]
             U == AddPopup(T, id)
  <2>1. T \in Space /\ Good(T, {}, Y, W) /\ Onward(S, T, {}, {}) /\ (Roomless(T) \/ Entered(T) # Open(T))
    OBVIOUS
  <2>2. id \in Ids \cap W
    BY <1>2
  <2> HIDE DEF id
  <2>3. /\ Good(U, {}, Y, W) /\ Onward(T, U, {}, {})
        /\ id \in Entered(T) => U = T
        /\ id \notin Entered(T) => Roomless(U)
    BY <2>1, <2>2, AddKeeps
  <2> HIDE DEF U
  <2>4. U \in Space /\ Onward(S, U, {}, {}) /\ (Roomless(U) \/ Entered(U) # Open(U))
    BY <2>1, <2>3, OnwardTwice, GoodIs
  <2>5. QED BY <2>3, <2>4 DEF U, id
<1>6. PICK run \in [0..n -> D] :
        /\ run[0] = S /\ \A k \in 1..n : run[k] = AddPopup(run[k - 1], ids[k])
        /\ run[n] = Each(AddPopup, S, ids)
  <2> HIDE DEF D
  <2>1. S \in D /\ \A k \in 1..n, T \in D : AddPopup(T, ids[k]) \in D
    BY <1>4, <1>5
  <2>2. QED BY <2>1, AddLoop
<1> HIDE DEF D, n
<1>7. /\ \A k \in 1..n : run[k] = AddPopup(run[k - 1], ids[k])
      /\ \A k \in 0..n : run[k] \in D
  BY <1>6
<1>8. \A T \in D : T \in Space /\ Fine(T)
  BY DEF D
<1>9. ASSUME NEW k \in 0..n PROVE \A j \in 1..k : ids[j] \in Entered(run[k])
  <2> DEFINE M == {m \in Nat : m <= n => \A j \in 1..m : ids[j] \in Entered(run[m])}
  <2>1. 0 \in M
    OBVIOUS
  <2>2. ASSUME NEW m \in M PROVE m + 1 \in M
    <3> SUFFICES ASSUME m + 1 <= n, NEW j \in 1..(m + 1) PROVE ids[j] \in Entered(run[m + 1])
      OBVIOUS
    <3> DEFINE T == run[m]
               U == run[m + 1]
               id == ids[m + 1]
    <3>1. m \in 0..n /\ m + 1 \in 1..n /\ (m + 1) - 1 = m /\ j \in 1..n
      BY <1>1
    <3>2. T \in D /\ U = AddPopup(T, id)
      BY <1>7, <3>1
    <3>3. \A i \in 1..m : ids[i] \in Entered(T)
      BY <1>1
    <3>4. id \in Ids \cap W
      BY <1>2, <3>1
    <3>5. j \in 1..m \/ j = m + 1
      BY <1>1
    <3>6. j = m + 1 => ids[j] = id
      OBVIOUS
    <3> HIDE DEF T, U, id
    <3>7. Good(T, {}, Y, W)
      BY <1>8, <3>2
    <3> HIDE DEF Fine
    <3>8. Entered(U) = Entered(T) \cup {id}
      BY <3>2, <3>4, <3>7, AddKeeps
    <3>9. QED BY <3>3, <3>5, <3>6, <3>8 DEF U
  <2>3. M = Nat
    <3> HIDE DEF M
    <3>1. M \subseteq Nat
      BY DEF M
    <3>2. QED BY <2>1, <2>2, <3>1, Inducts
  <2>4. k \in Nat /\ k <= n
    BY <1>1
  <2>5. QED BY <2>3, <2>4
<1> DEFINE T == run[n]
<1>10. T \in Space /\ Fine(T) /\ \A j \in 1..n : ids[j] \in Entered(T)
  <2>1. n \in 0..n
    BY <1>1
  <2>2. QED BY <1>7, <1>8, <1>9, <2>1
<1>11. T = Each(AddPopup, S, ids)
  BY <1>6
<1> HIDE DEF T
<1>12. Good(T, {}, Y, {})
  <2>1. W \subseteq Entered(T)
    BY <1>1, <1>10
  <2>2. Good(T, {}, Y, W)
    BY <1>10
  <2>3. Lives(T, W)
    BY <2>2, GoodIs
  <2>4. \A x \in W : x \in Ids /\ T.notes[x].life = "live"
    BY <1>1, <2>3 DEF Lives
  <2>5. \A x \in W : x \in Open(T)
    BY <2>1, <2>3, <2>4 DEF Lives
  <2>6. Lives(T, {})
    BY <2>3, <2>5 DEF Lives
  <2>7. QED BY <2>2, <2>6 DEF Good
<1>13. QED BY <1>10, <1>11, <1>12

\* The loop over the popups whose cards went with a scene, as a run of steps.
LEMMA OrphanLoop ==
  ASSUME NEW D, NEW S \in D, NEW ids \in Seq(Ids),
         \A k \in 1..Len(ids), T \in D : Orphan(T, ids[k]) \in D
  PROVE  LET n == Len(ids)
         IN \E run \in [0..n -> D] :
              /\ run[0] = S /\ \A k \in 1..n : run[k] = Orphan(run[k - 1], ids[k])
              /\ run[n] = Each(Orphan, S, ids)
<1> DEFINE n == Len(ids)
           F == [k \in 1..n |-> [T \in D |-> Orphan(T, ids[k])]]
           Eq(f) == f = [k \in 0..n |-> IF k = 0 THEN S ELSE Orphan(f[k - 1], ids[k])]
           run == CHOOSE f : Eq(f)
<1>1. n \in Nat
  BY ToSetIs
<1>2. Each(Orphan, S, ids) = run[n]
  BY DEF Each
<1>3. F \in [1..n -> [D -> D]]
  OBVIOUS
<1>4. PICK g \in [0..n -> D] : g[0] = S /\ \A k \in 1..n : g[k] = F[k][g[k - 1]]
  <2> HIDE DEF F, n, Eq
  <2>1. S \in D /\ F \in [1..n -> [D -> D]] /\ n \in Nat
    BY <1>1, <1>3
  <2>2. QED BY ONLY <2>1, RunExists
<1>5. Eq(g)
  <2>1. \A k \in 1..n : k - 1 \in 0..n /\ g[k - 1] \in D
    <3> HIDE DEF F, n
    <3>1. QED BY <1>1, <1>4
  <2>2. \A k \in 1..n : g[k] = Orphan(g[k - 1], ids[k])
    BY <1>4, <2>1
  <2>3. \A k \in 0..n : k = 0 \/ k \in 1..n
    BY <1>1
  <2> HIDE DEF F, n
  <2>4. \A k \in 0..n : g[k] = IF k = 0 THEN S ELSE Orphan(g[k - 1], ids[k])
    BY <1>4, <2>2, <2>3
  <2>5. QED BY <1>4, <2>4
<1>6. Eq(run)
  <2> HIDE DEF Eq
  <2>1. QED BY <1>5
<1> HIDE DEF run, F, n
<1>7. run = [k \in 0..n |-> IF k = 0 THEN S ELSE Orphan(run[k - 1], ids[k])]
  BY <1>6
<1>8. run[0] = S /\ \A k \in 1..n : run[k] = Orphan(run[k - 1], ids[k])
  <2>1. \A k \in 0..n : run[k] = IF k = 0 THEN S ELSE Orphan(run[k - 1], ids[k])
    BY <1>7
  <2> HIDE DEF Eq
  <2>2. 0 \in 0..n /\ \A k \in 1..n : k \in 0..n /\ k # 0
    BY <1>1
  <2>3. QED BY <2>1, <2>2
<1> HIDE DEF Eq
<1>9. \A k \in 0..n : run[k] \in D
  <2>1. \A k \in 1..n : run[k - 1] \in D => run[k] \in D
    BY <1>8 DEF n
  <2>2. QED BY <1>1, <1>8, <2>1, RunStays
<1>10. run \in [0..n -> D]
  BY <1>7, <1>9
<1>11. QED BY <1>2, <1>8, <1>10 DEF n

\* The popups whose exit a rebuilt scene has swallowed are taken away.
LEMMA OrphansKeep ==
  ASSUME NEW S, NEW Y, NEW W, NEW ids \in Seq(Ids), Good(S, {}, Y, W), Roomless(S) \/ Entered(S) # Open(S)
  PROVE  LET T == Each(Orphan, S, ids)
         IN /\ Good(T, {}, Y, W) /\ Entered(T) \subseteq Entered(S)
            /\ \E G \in SUBSET Ids : Onward(S, T, G, G) /\ G \cap Entered(T) = {}
            /\ Roomless(T) \/ Entered(T) # Open(T)
<1> DEFINE n == Len(ids)
           Fine(T) == /\ Good(T, {}, Y, W) /\ Entered(T) \subseteq Entered(S)
                      /\ \E G \in SUBSET Ids : Onward(S, T, G, G) /\ G \cap Entered(T) = {}
                      /\ Roomless(T) \/ Entered(T) # Open(T)
           D == {T \in Space : Fine(T)}
<1>1. S \in Space /\ n \in Nat /\ \A k \in 1..n : ids[k] \in Ids
  BY GoodIs, ToSetIs
<1>2. S \in D
  <2> DEFINE G == {}
  <2>1. G \in SUBSET Ids /\ Onward(S, S, G, G) /\ G \cap Entered(S) = {}
    BY OnwardSelf
  <2> HIDE DEF G
  <2>2. QED BY <1>1, <2>1
<1>3. ASSUME NEW k \in 1..n, NEW T \in D PROVE Orphan(T, ids[k]) \in D
  <2> DEFINE id == ids[k]
             U == Orphan(T, id)
  <2>1. id \in Ids
    BY <1>1
  <2> HIDE DEF id
  <2>2. /\ T \in Space /\ Good(T, {}, Y, W) /\ Entered(T) \subseteq Entered(S)
        /\ Roomless(T) \/ Entered(T) # Open(T)
    OBVIOUS
  <2>3. PICK G \in SUBSET Ids : Onward(S, T, G, G) /\ G \cap Entered(T) = {}
    OBVIOUS
  <2> HIDE DEF Fine, D
  <2>4. CASE id \in Entered(T) /\ T.popups[id].exiting /\ ~HasCard(T, id)
    <3> DEFINE R == FinishRemoval(T, id)
    <3>1. U = R
      BY <2>4 DEF Orphan, In, Entered
    <3>2. /\ Good(R, {}, Y, W) /\ Onward(T, R, {id}, {id}) /\ Entered(R) = Entered(T) \ {id}
          /\ Roomless(R)
      BY <2>1, <2>2, <2>4, FinishKeeps
    <3> HIDE DEF R
    <3> HIDE DEF U
    <3> DEFINE H == G \cup {id}
    <3>3. H \in SUBSET Ids /\ H \cap Entered(U) = {} /\ G \subseteq H /\ {id} \subseteq H
      BY <2>1, <2>2, <2>3, <3>1, <3>2
    <3> HIDE DEF H
    <3>4. Onward(S, U, H, H)
      <4>1. Onward(S, T, H, H) /\ Onward(T, U, H, H)
        BY <2>3, <3>1, <3>2, <3>3, OnwardMore
      <4>2. QED BY <4>1, OnwardTwice
    <3>5. U \in Space
      BY <3>1, <3>2, GoodIs
    <3>6. Entered(U) \subseteq Entered(S) /\ Good(U, {}, Y, W) /\ Roomless(U)
      BY <2>2, <3>1, <3>2
    <3>7. U \in D
      BY <3>3, <3>4, <3>5, <3>6 DEF D, Fine
    <3>8. QED BY <3>7 DEF U, id
  <2>5. CASE ~(id \in Entered(T) /\ T.popups[id].exiting /\ ~HasCard(T, id))
    <3>1. U = T
      BY <2>5 DEF Orphan, In, Entered
    <3>2. QED BY <3>1 DEF id
  <2>6. QED BY <2>4, <2>5
<1>4. PICK run \in [0..n -> D] :
        /\ run[0] = S /\ \A k \in 1..n : run[k] = Orphan(run[k - 1], ids[k])
        /\ run[n] = Each(Orphan, S, ids)
  <2> HIDE DEF D
  <2>1. S \in D /\ \A k \in 1..n, T \in D : Orphan(T, ids[k]) \in D
    BY <1>2, <1>3
  <2>2. QED BY <2>1, OrphanLoop
<1>5. Each(Orphan, S, ids) \in D
  <2>1. n \in 0..n
    BY <1>1
  <2> HIDE DEF D, n
  <2>2. QED BY <1>4, <2>1
<1>6. QED BY <1>5

\* The hover of a popup that has a card ends, when the output that shows it loses the pointer.
LEMMA ResetPlaced ==
  ASSUME NEW S, NEW Y, NEW W, Good(S, {}, Y, W), NEW id \in Entered(S), id \in Open(S) => id \in Placed(S)
  PROVE  LET T == ResetPopupHover(S, id, TRUE, S.popups[id].finite)
         IN /\ Good(T, {}, Y, W) /\ Roomless(T) /\ Onward(S, T, {id}, {})
            /\ T.order = S.order /\ T.pointer = S.pointer
<1> DEFINE X == {}
           finite == S.popups[id].finite
<1>1. Good(S, X, Y, W)
  OBVIOUS
<1>2. S \in Space /\ id \in Ids /\ Expiries(S, Y)
  BY GoodIs, SpaceIs
<1>3. finite \in BOOLEAN
  BY <1>2, PopupIs
<1>4. MayReset(S, Y, id, TRUE, finite)
  BY <1>2 DEF MayReset, Expiries, Clocked
<1> HIDE DEF X, finite
<1> DEFINE T == ResetPopupHover(S, id, TRUE, finite)
<1>5. Good(T, X, Y, W) /\ Roomless(T) /\ Onward(S, T, {id}, X) /\ HoverEnded(S, T, id)
  BY <1>1, <1>3, <1>4, ResetKeeps
<1> HIDE DEF T
<1>6. Good(T, {}, Y, W) /\ Roomless(T) /\ Onward(S, T, {id}, {}) /\ T.order = S.order /\ T.pointer = S.pointer
  BY <1>5 DEF X, HoverEnded
<1>7. QED BY <1>6 DEF T, finite

\* The loop over the popups of an instance that the pointer leaves, as a run of steps.
LEMMA UnhoverLoop ==
  ASSUME NEW D, NEW S \in D, NEW ids \in Seq(Ids),
         \A k \in 1..Len(ids), T \in D : Unhover(T, ids[k]) \in D
  PROVE  LET n == Len(ids)
         IN \E run \in [0..n -> D] :
              /\ run[0] = S /\ \A k \in 1..n : run[k] = Unhover(run[k - 1], ids[k])
              /\ run[n] = Each(Unhover, S, ids)
<1> DEFINE n == Len(ids)
           F == [k \in 1..n |-> [T \in D |-> Unhover(T, ids[k])]]
           Eq(f) == f = [k \in 0..n |-> IF k = 0 THEN S ELSE Unhover(f[k - 1], ids[k])]
           run == CHOOSE f : Eq(f)
<1>1. n \in Nat
  BY ToSetIs
<1>2. Each(Unhover, S, ids) = run[n]
  BY DEF Each
<1>3. F \in [1..n -> [D -> D]]
  OBVIOUS
<1>4. PICK g \in [0..n -> D] : g[0] = S /\ \A k \in 1..n : g[k] = F[k][g[k - 1]]
  <2> HIDE DEF F, n, Eq
  <2>1. S \in D /\ F \in [1..n -> [D -> D]] /\ n \in Nat
    BY <1>1, <1>3
  <2>2. QED BY ONLY <2>1, RunExists
<1>5. Eq(g)
  <2>1. \A k \in 1..n : k - 1 \in 0..n /\ g[k - 1] \in D
    <3> HIDE DEF F, n
    <3>1. QED BY <1>1, <1>4
  <2>2. \A k \in 1..n : g[k] = Unhover(g[k - 1], ids[k])
    BY <1>4, <2>1
  <2>3. \A k \in 0..n : k = 0 \/ k \in 1..n
    BY <1>1
  <2> HIDE DEF F, n
  <2>4. \A k \in 0..n : g[k] = IF k = 0 THEN S ELSE Unhover(g[k - 1], ids[k])
    BY <1>4, <2>2, <2>3
  <2>5. QED BY <1>4, <2>4
<1>6. Eq(run)
  <2> HIDE DEF Eq
  <2>1. QED BY <1>5
<1> HIDE DEF run, F, n
<1>7. run = [k \in 0..n |-> IF k = 0 THEN S ELSE Unhover(run[k - 1], ids[k])]
  BY <1>6
<1>8. run[0] = S /\ \A k \in 1..n : run[k] = Unhover(run[k - 1], ids[k])
  <2>1. \A k \in 0..n : run[k] = IF k = 0 THEN S ELSE Unhover(run[k - 1], ids[k])
    BY <1>7
  <2> HIDE DEF Eq
  <2>2. 0 \in 0..n /\ \A k \in 1..n : k \in 0..n /\ k # 0
    BY <1>1
  <2>3. QED BY <2>1, <2>2
<1> HIDE DEF Eq
<1>9. \A k \in 0..n : run[k] \in D
  <2>1. \A k \in 1..n : run[k - 1] \in D => run[k] \in D
    BY <1>8 DEF n
  <2>2. QED BY <1>1, <1>8, <2>1, RunStays
<1>10. run \in [0..n -> D]
  BY <1>7, <1>9
<1>11. QED BY <1>2, <1>8, <1>10 DEF n

\* The pointer leaves an output: the hovers on its cards end at once.
LEMMA DepartKeeps ==
  ASSUME NEW S, NEW Y, NEW W, Good(S, {}, Y, W), PointerFits(S, Y), S.pointer.on # 0, Roomless(S) \/ Entered(S) # Open(S)
  PROVE  LET T == [Leave(Each(Unhover, S, S.order)) EXCEPT !.pointer = Away]
         IN /\ Good(T, {}, Y, W) /\ PointerFits(T, Y) /\ T.pending = S.pending /\ T.order = S.order
            /\ Roomless(T) \/ Entered(T) # Open(T)
            /\ \A x \in Ids : T.popups[x].owners = 0 /\ T.notes[x].life = S.notes[x].life
<1> DEFINE ids == S.order
           n == Len(ids)
           Fine(T) == /\ Good(T, {}, Y, W) /\ Onward(S, T, Ids, {})
                      /\ T.order = S.order /\ T.pointer = S.pointer
                      /\ Roomless(T) \/ Entered(T) # Open(T)
           D == {T \in Space : Fine(T)}
<1>1. S \in Space /\ ids \in Seq(Ids) /\ n \in Nat /\ \A k \in 1..n : ids[k] \in Ids
  BY GoodIs, SpaceIs, ToSetIs
<1>2. S.pointer.on \in Instances /\ S.pointer.area \in Areas(S, S.pointer.on)
  BY <1>1, SpaceIs DEF PointerFits
<1>3. S \in D
  BY <1>1, OnwardSelf
<1>4. ASSUME NEW k \in 1..n, NEW T \in D PROVE Unhover(T, ids[k]) \in D
  <2> DEFINE id == ids[k]
             U == Unhover(T, id)
             there == T.cards[T.pointer.on][id] # NoCard /\ (T.popups[id].hovered \/ T.popups[id].owners > 0)
  <2>1. id \in Ids
    BY <1>1
  <2> HIDE DEF id, ids, n
  <2>2. /\ T \in Space /\ Good(T, {}, Y, W) /\ Onward(S, T, Ids, {}) /\ T.order = S.order
        /\ T.pointer = S.pointer
    OBVIOUS
  <2> HIDE DEF D, Fine
  <2>3. CASE ~there
    <3>1. U = T
      BY <2>3 DEF Unhover
    <3>2. QED BY <3>1 DEF id
  <2>4. CASE there
    <3> DEFINE R == ResetPopupHover(T, id, TRUE, T.popups[id].finite)
    <3>1. U = R
      BY <2>4 DEF Unhover
    <3>2. CardsAt(T, {})
      BY <2>2, GoodIs
    <3>3. id \in Entered(T)
      BY <1>2, <2>1, <2>2, <2>4, <3>2 DEF CardsAt
    <3>4. id \in Open(T) => id \in Placed(T)
      BY <1>2, <2>1, <2>2, <2>4, <3>2 DEF CardsAt, Shows, Open
    <3>5. Good(R, {}, Y, W) /\ Roomless(R) /\ Onward(T, R, {id}, {}) /\ R.order = T.order /\ R.pointer = T.pointer
      BY ONLY <2>2, <3>3, <3>4, ResetPlaced
    <3> HIDE DEF R
    <3>6. Good(U, {}, Y, W) /\ Roomless(U) /\ Onward(T, U, {id}, {}) /\ U.order = T.order /\ U.pointer = T.pointer
      BY <3>1, <3>5
    <3> HIDE DEF U
    <3>7. Onward(S, U, Ids, {})
      <4>1. Onward(T, U, Ids, {})
        BY <2>1, <3>6, OnwardMore
      <4>2. QED BY <2>2, <4>1, OnwardTwice
    <3>8. U \in Space
      BY <3>6, GoodIs
    <3>9. U \in D
      BY <2>2, <3>6, <3>7, <3>8 DEF D, Fine
    <3>10. QED BY <3>9 DEF U, id
  <2>5. QED BY <2>3, <2>4
<1>5. PICK run \in [0..n -> D] :
        /\ run[0] = S /\ \A k \in 1..n : run[k] = Unhover(run[k - 1], ids[k])
        /\ run[n] = Each(Unhover, S, ids)
  <2> HIDE DEF D, ids
  <2>1. ids \in Seq(Ids) /\ S \in D /\ \A k \in 1..Len(ids), T \in D : Unhover(T, ids[k]) \in D
    BY <1>1, <1>3, <1>4
  <2>2. QED BY ONLY <2>1, UnhoverLoop
<1> DEFINE U == Each(Unhover, S, ids)
           V == Leave(U)
           T == [V EXCEPT !.pointer = Away]
<1>6. U \in D
  <2>1. n \in 0..n
    BY <1>1
  <2> HIDE DEF D, n
  <2>2. QED BY <1>5, <2>1
<1>7. /\ U \in Space /\ Good(U, {}, Y, W) /\ Onward(S, U, Ids, {}) /\ U.order = S.order
      /\ U.pointer = S.pointer /\ (Roomless(U) \/ Entered(U) # Open(U))
  BY <1>6
<1> HIDE DEF U
<1>8. OnCard(U)
  <2>1. S.pointer.area.follows => S.pointer.area.id \in Ids /\ S.cards[S.pointer.on][S.pointer.area.id] # NoCard
    BY <1>1, <1>2, AreaIs
  <2>2. QED BY <1>2, <1>7, <2>1 DEF OnCard, Onward
<1>9. Good(V, {}, Y, W) /\ Pointed(U, V) /\ \A x \in Ids : V.popups[x].owners = 0
  BY <1>7, <1>8, LeaveKeeps
<1> HIDE DEF V
<1>10. Good(T, {}, Y, W) /\ Pointed(V, T) /\ T.pointer = Away /\ T.popups = V.popups
  <2> DEFINE p == Away
  <2>1. p \in [on : {0} \cup Instances, area : [id : Ids \cup {NoId}, follows : BOOLEAN]]
    BY DEF Away, NoArea
  <2>2. p = Away
    OBVIOUS
  <2> HIDE DEF p
  <2>3. QED BY <1>9, <2>1, <2>2, MovesKeeps
<1> HIDE DEF T
<1>11. PointerFits(T, Y)
  BY <1>10 DEF PointerFits, Away, NoArea
<1>12. Pointed(U, T)
  BY <1>9, <1>10, PointedTwice
<1>13. /\ Entered(T) = Entered(U) /\ Open(T) = Open(U) /\ (Roomless(U) => Roomless(T))
  BY <1>7, <1>12, PointedKeeps
<1>14. T.pending = S.pending /\ T.order = S.order /\ \A x \in Ids : T.notes[x].life = S.notes[x].life
  BY <1>7, <1>12 DEF Pointed, Onward
<1>15. T = [Leave(Each(Unhover, S, S.order)) EXCEPT !.pointer = Away]
  BY DEF T, V, U
<1>16. QED BY <1>7, <1>9, <1>10, <1>11, <1>13, <1>14, <1>15

(**************************** The closures ****************************)

\* A closure that may be handed over: it ends no hover, and what it names is over or on a clock.
Grants(S, Y, c) ==
  /\ c.call # "reset"
  /\ c.call = "close" => c.id \in Entered(S) /\ (c.id \in Open(S) \ Y => S.notes[c.id].timed)
  /\ c.call = "remove" => S.notes[c.id].life = "closed"
  /\ c.call = "orphans" => \A x \in c.ids : S.notes[x].life = "closed"

Granted(S, Y, q) == \A c \in ToSet(q) : c \in Calls(S) \/ Grants(S, Y, c)

\* The ends of the hovers, but for one, are still on their way.
ResetsBut(S, q, id) == \A c \in Calls(S) : c.call = "reset" /\ c.id # id => c \in ToSet(q)
Resets(S, q)        == \A c \in Calls(S) : c.call = "reset" => c \in ToSet(q)

\* The closures that wait are others: some have run, others have been handed over.
LEMMA CallsAre ==
  ASSUME NEW S, NEW Y, NEW W, Good(S, {}, Y, W), NEW q \in Seq(Closure), Granted(S, Y, q)
  PROVE  LET T == [S EXCEPT !.deferred = q]
         IN /\ T \in Space /\ Lives(T, W) /\ CallsKnown(T) /\ Layout(T) /\ CardsAt(T, {}) /\ Expiries(T, Y)
            /\ T.deferred = q /\ T.notes = S.notes /\ T.cards = S.cards
            /\ T.pending = S.pending /\ T.order = S.order /\ T.popups = S.popups
            /\ T.scenes = S.scenes /\ T.pointer = S.pointer
            /\ Entered(T) = Entered(S) /\ Open(T) = Open(S) /\ (Roomless(S) => Roomless(T))
            /\ \A id \in Ids : ResetsBut(S, q, id) => HoversBut(T, {}, id)
            /\ Resets(S, q) => Good(T, {}, Y, W)
<1> DEFINE T == [S EXCEPT !.deferred = q]
<1>1. S \in Space /\ Lives(S, W) /\ CallsKnown(S) /\ Layout(S) /\ CardsAt(S, {}) /\ Hovers(S, {}) /\ Expiries(S, Y)
  BY GoodIs
<1>2. /\ T \in Space /\ T.deferred = q /\ T.notes = S.notes /\ T.cards = S.cards
      /\ T.pending = S.pending /\ T.order = S.order /\ T.popups = S.popups
      /\ T.scenes = S.scenes /\ T.pointer = S.pointer
  BY <1>1, DeferredIs
<1> HIDE DEF T
<1>3. Pointed(S, T)
  BY <1>2 DEF Pointed
<1>4. /\ Entered(T) = Entered(S) /\ Open(T) = Open(S) /\ Placed(T) = Placed(S)
      /\ Roomless(S) => Roomless(T)
      /\ Calls(T) = ToSet(q) /\ Open(S) \subseteq Ids
  BY <1>1, <1>2, <1>3, PointedKeeps, SpaceIs DEF Calls
<1>5. Lives(T, W) /\ Layout(T) /\ CardsAt(T, {})
  <2>1. /\ \A x \in Ids \ Entered(S) : T.popups[x] = S.popups[x]
        /\ \A i \in Instances, x \in Ids : T.cards[i][x] = S.cards[i][x]
    BY <1>2
  <2>2. QED BY <1>1, <1>3, <2>1, PointedGood
<1>6. CallsKnown(T)
  <2>1. ASSUME NEW c \in Calls(T)
        PROVE  /\ c.call \in {"close", "reset"} => T.notes[c.id].life = "closed" \/ c.id \in Entered(T)
               /\ c.call = "remove" => T.notes[c.id].life = "closed"
               /\ c.call = "orphans" => \A x \in c.ids : T.notes[x].life = "closed"
    <3>1. CASE c \in Calls(S)
      BY <1>1, <1>2, <1>4, <3>1 DEF CallsKnown
    <3>2. CASE Grants(S, Y, c)
      BY <1>2, <1>4, <3>2 DEF Grants
    <3>3. QED BY <1>4, <3>1, <3>2 DEF Granted
  <2>2. QED BY <2>1 DEF CallsKnown
<1>7. \A x : /\ Asked(T, x) => Asked(S, x)
             /\ HasCard(T, x) <=> HasCard(S, x)
  <2>1. \A c \in Calls(T) : c.call = "reset" => c \in Calls(S)
    BY <1>4 DEF Granted, Grants
  <2>2. QED BY <1>2, <2>1 DEF Asked, HasCard
<1>8. ASSUME NEW id \in Ids, ResetsBut(S, q, id)
      PROVE  HoversBut(T, {}, id)
  <2>1. \A x \in Ids \ {id} : Asked(S, x) => Asked(T, x)
    BY <1>4, <1>8 DEF Asked, ResetsBut
  <2>2. QED BY <1>1, <1>2, <1>4, <1>7, <2>1 DEF Hovers, HoversBut
<1>9. ASSUME Resets(S, q) PROVE Hovers(T, {})
  <2>1. \A x : Asked(S, x) => Asked(T, x)
    BY <1>4, <1>9 DEF Asked, Resets
  <2>2. QED BY <1>1, <1>2, <1>4, <1>7, <2>1 DEF Hovers
<1>10. Expiries(T, Y)
  <2>1. ASSUME NEW x \in Open(T) \ Y PROVE Clocked(T, x)
    <3>1. Clocked(S, x) /\ x \in Ids
      BY <1>1, <1>4 DEF Expiries
    <3>2. \A c \in Calls(T) : /\ c.call = "reset" /\ c.id = x => c.finite = S.notes[x].timed
                              /\ c.call = "close" /\ c.id = x => S.notes[x].timed
      BY <1>4, <3>1 DEF Clocked, Granted, Grants
    <3>3. QED BY <1>2, <1>4, <3>1, <3>2 DEF Clocked
  <2>2. QED BY <1>1, <1>2, <1>4, <2>1 DEF Expiries
<1>11. QED BY <1>2, <1>4, <1>5, <1>6, <1>8, <1>9, <1>10 DEF Good, T

\* The cards of one popup are drawn again: their animations and what they take of its duration. One
\* may be drawn that was not there, if the popup is being replaced.
Redrawn(S, T, X, Y, id) ==
  /\ T \in Space /\ T.pending = S.pending /\ T.order = S.order /\ T.scenes = S.scenes
  /\ T.pointer = S.pointer /\ T.deferred = S.deferred
  /\ \A x \in Ids : x # id => T.popups[x] = S.popups[x] /\ T.notes[x] = S.notes[x]
  /\ T.notes[id].life = S.notes[id].life /\ T.notes[id].timed = S.notes[id].timed
  /\ T.notes[id].height = S.notes[id].height
  /\ T.popups[id].at = S.popups[id].at /\ T.popups[id].exiting = S.popups[id].exiting
  /\ T.popups[id].hovered = S.popups[id].hovered /\ T.popups[id].owners = S.popups[id].owners
  /\ \A i \in Instances, x \in Ids :
       /\ S.cards[i][x] # NoCard => T.cards[i][x] # NoCard
       /\ T.cards[i][x] # NoCard => S.cards[i][x] # NoCard \/ (x = id /\ x \in X /\ i \in S.scenes)
       /\ x # id => T.cards[i][x] = S.cards[i][x]
       /\ T.cards[i][x].moves = "exit" => S.popups[x].exiting
  /\ id \in Open(S) \ Y =>
       /\ T.notes[id] = S.notes[id] /\ T.popups[id].finite = S.notes[id].timed
       /\ \A i \in Instances : T.cards[i][id] # NoCard =>
            /\ T.cards[i][id].finite = S.notes[id].timed
            /\ T.cards[i][id].moves = "countdown" => S.notes[id].timed

\* New cards leave the state good, if they take the duration that their popup has.
LEMMA RedrawnKeeps ==
  ASSUME NEW S, NEW T, NEW X, NEW Y, NEW W, NEW id \in Entered(S), Good(S, X, Y, W), Redrawn(S, T, X, Y, id)
  PROVE  /\ Good(T, X, Y, W) /\ Entered(T) = Entered(S) /\ Open(T) = Open(S) /\ Placed(T) = Placed(S)
         /\ Roomless(S) => Roomless(T)
<1>1. S \in Space /\ Lives(S, W) /\ CallsKnown(S) /\ Layout(S) /\ CardsAt(S, X) /\ Hovers(S, X) /\ Expiries(S, Y)
  BY GoodIs
<1>2. /\ id \in Ids /\ Entered(S) \subseteq Ids /\ Open(S) \subseteq Entered(S) /\ Placed(S) \subseteq Open(S)
      /\ S.scenes \subseteq Instances
  BY <1>1, SpaceIs
<1>3. /\ T \in Space /\ T.order = S.order /\ T.scenes = S.scenes /\ T.pointer = S.pointer /\ T.deferred = S.deferred
      /\ \A x \in Ids :
           /\ T.notes[x].life = S.notes[x].life /\ T.notes[x].timed = S.notes[x].timed
           /\ T.notes[x].height = S.notes[x].height
           /\ T.popups[x].at = S.popups[x].at /\ T.popups[x].exiting = S.popups[x].exiting
           /\ T.popups[x].hovered = S.popups[x].hovered /\ T.popups[x].owners = S.popups[x].owners
           /\ x # id => T.popups[x] = S.popups[x] /\ T.notes[x] = S.notes[x]
      /\ \A i \in Instances, x \in Ids :
           /\ S.cards[i][x] # NoCard => T.cards[i][x] # NoCard
           /\ T.cards[i][x] # NoCard => S.cards[i][x] # NoCard \/ (x = id /\ x \in X /\ i \in S.scenes)
           /\ x # id => T.cards[i][x] = S.cards[i][x]
           /\ T.cards[i][x].moves = "exit" => S.popups[x].exiting
  BY <1>2 DEF Redrawn
<1>4. Entered(T) = Entered(S) /\ Calls(T) = Calls(S)
  BY <1>3 DEF Entered, Calls
<1>5. Open(T) = Open(S) /\ Placed(T) = Placed(S)
  BY <1>2, <1>3, <1>4 DEF Open, Placed, Entered
<1>6. \A x \in Ids : Below(T, x) = Below(S, x)
  BY <1>3 DEF Below
<1>7. \A x \in Ids : HasCard(S, x) => HasCard(T, x)
  BY <1>3 DEF HasCard
<1>8. \A x : Asked(T, x) <=> Asked(S, x)
  BY <1>4 DEF Asked
<1>9. Lives(T, W)
  BY <1>1, <1>2, <1>3, <1>4, <1>5 DEF Lives
<1>10. CallsKnown(T)
  <2>1. \A c \in Calls(S) : /\ c.call \in {"close", "reset", "remove"} => c.id \in Ids
                            /\ c.call = "orphans" => c.ids \subseteq Ids
    <3>1. Calls(S) \subseteq Closure
      BY <1>1, SpaceIs, ToSetIs DEF Calls
    <3>2. QED BY <3>1 DEF Closure
  <2>2. ASSUME NEW c \in Calls(S)
        PROVE  /\ c.call \in {"close", "reset"} => T.notes[c.id].life = "closed" \/ c.id \in Entered(T)
               /\ c.call = "remove" => T.notes[c.id].life = "closed"
               /\ c.call = "orphans" => \A x \in c.ids : T.notes[x].life = "closed"
    <3>1. /\ c.call \in {"close", "reset"} => S.notes[c.id].life = "closed" \/ c.id \in Entered(S)
          /\ c.call = "remove" => S.notes[c.id].life = "closed"
          /\ c.call = "orphans" => \A x \in c.ids : S.notes[x].life = "closed"
      BY <1>1 DEF CallsKnown
    <3>2. QED BY <1>3, <1>4, <2>1, <3>1
  <2>3. QED BY <1>4, <2>2 DEF CallsKnown
<1>11. Layout(T)
  BY <1>1, <1>2, <1>3, <1>5, <1>6 DEF Layout, Apart
<1>12. CardsAt(T, X)
  <2>1. \A i, x : x \in Ids => (Shows(T, i, x) <=> Shows(S, i, x))
    BY <1>5, <1>6 DEF Shows
  <2>2. QED BY <1>1, <1>2, <1>3, <1>4, <1>5, <2>1 DEF CardsAt
<1>13. Hovers(T, X)
  BY <1>1, <1>2, <1>3, <1>5, <1>7, <1>8 DEF Hovers
<1>14. Expiries(T, Y)
  <2>1. ASSUME NEW x \in Open(T) \ Y
        PROVE  /\ T.notes[x].expiring <=> T.notes[x].timed /\ x \in Placed(T) /\ ~T.popups[x].hovered
               /\ Clocked(T, x)
    <3>1. /\ S.notes[x].expiring <=> S.notes[x].timed /\ x \in Placed(S) /\ ~S.popups[x].hovered
          /\ Clocked(S, x) /\ x \in Ids
      BY <1>1, <1>2, <1>5 DEF Expiries
    <3>2. T.notes[x] = S.notes[x] /\ T.popups[x].finite = S.notes[x].timed
      <4>1. CASE x = id
        BY <1>5, <2>1, <4>1 DEF Redrawn
      <4>2. CASE x # id
        BY <1>3, <3>1, <4>2 DEF Clocked
      <4>3. QED BY <4>1, <4>2
    <3>3. \A i \in Instances : T.cards[i][x] # NoCard =>
            /\ T.cards[i][x].finite = S.notes[x].timed
            /\ T.cards[i][x].moves = "countdown" => S.notes[x].timed
      <4>1. CASE x = id
        BY <1>5, <2>1, <4>1 DEF Redrawn
      <4>2. CASE x # id
        BY <1>3, <3>1, <4>2 DEF Clocked
      <4>3. QED BY <4>1, <4>2
    <3>4. Clocked(T, x)
      BY <1>3, <1>4, <1>5, <3>1, <3>2, <3>3 DEF Clocked
    <3>5. QED BY <1>3, <1>5, <3>1, <3>2, <3>4
  <2>2. \A x \in Ids \ Entered(S) : T.notes[x] = S.notes[x]
    BY <1>3
  <2>3. QED BY <1>1, <1>4, <2>1, <2>2 DEF Expiries
<1>15. Roomless(S) => Roomless(T)
  <2> SUFFICES ASSUME Roomless(S), NEW x \in Open(T), T.popups[x].at = Queued
               PROVE  FindPlacement(T, T.notes[x].height) = Queued
    BY DEF Roomless
  <2>1. x \in Ids /\ x \in Open(S) /\ S.popups[x].at = Queued /\ T.notes[x].height = S.notes[x].height
    BY <1>2, <1>3, <1>5
  <2>2. S.notes[x].height \in Nat /\ FindPlacement(S, S.notes[x].height) = Queued
    BY <1>1, <2>1, PopupIs DEF Roomless
  <2>3. \A p \in Placed(S) : /\ p \in Placed(T) /\ T.popups[p].at = S.popups[p].at
                             /\ T.notes[p].height = S.notes[p].height
    BY <1>2, <1>3, <1>5
  <2>4. QED BY <1>1, <1>3, <2>1, <2>2, <2>3, NoRoomStays
<1>16. QED BY <1>3, <1>4, <1>5, <1>9, <1>10, <1>11, <1>12, <1>13, <1>14, <1>15 DEF Good

\* A popup that counts as hovered, before and after, has not moved, unless its notification has become another.
Steady(S, T) ==
  \A id \in Placed(S) :
    S.popups[id].owners > 0 /\ T.popups[id].owners > 0 /\ S.notes[id].life = T.notes[id].life =>
      T.popups[id].at = S.popups[id].at

\* A handler that leaves the hovered popups alone does not move them.
LEMMA OnwardSteady ==
  ASSUME NEW S \in Space, NEW T, NEW V, NEW Z, NEW G, Hovers(S, {}), Onward(S, T, Z, G), Pointed(T, V),
         \A x \in Placed(S) \cap Z :
           S.popups[x].owners = 0 \/ V.popups[x].owners = 0 \/ V.notes[x].life # S.notes[x].life
  PROVE  Steady(S, V)
<1> SUFFICES ASSUME NEW id \in Placed(S), S.popups[id].owners > 0, V.popups[id].owners > 0,
                    S.notes[id].life = V.notes[id].life
             PROVE  V.popups[id].at = S.popups[id].at
  BY DEF Steady
<1>1. id \in Ids
  BY SpaceIs
<1>2. id \notin Z
  BY <1>1, PopupIs
<1>3. S.popups[id].hovered
  BY <1>1 DEF Hovers
<1>4. T.popups[id].at = S.popups[id].at
  BY <1>1, <1>2, <1>3 DEF Onward
<1>5. QED BY <1>1, <1>4 DEF Pointed

\* The pointer moves no popup.
LEMMA PointedSteady ==
  ASSUME NEW S \in Space, NEW T, Pointed(S, T)
  PROVE  Steady(S, T)
<1>1. Placed(S) \subseteq Ids
  BY SpaceIs
<1>2. QED BY <1>1 DEF Steady, Pointed

\* What has strayed does so until its notification is over and its popup has gone.
StillAstray(S, Y) == {id \in Y : S.notes[id].life = "live" \/ In(S, id)}

LEMMA StrayedEnds ==
  ASSUME NEW S, NEW Y, NEW W, Good(S, {}, Y, W), Settled(S, Y)
  PROVE  Good(S, {}, StillAstray(S, Y), W) /\ Settled(S, StillAstray(S, Y))
<1> DEFINE Y2 == StillAstray(S, Y)
<1>1. S \in Space /\ CardsAt(S, {}) /\ Expiries(S, Y) /\ PointerFits(S, Y) /\ S.scenes \subseteq Instances
  BY GoodIs, SpaceIs DEF Settled
<1>2. \A id \in Y : id \in Entered(S) \/ S.notes[id].life = "live" => id \in Y2
  BY DEF StillAstray, Entered, In
<1> HIDE DEF Y2
<1>3. Expiries(S, Y2)
  <2>1. Open(S) \ Y2 \subseteq Open(S) \ Y
    BY <1>2 DEF Open
  <2>2. \A id \in Ids \ (Entered(S) \cup Y2) : S.notes[id].life = "live" => id \in Ids \ (Entered(S) \cup Y)
    BY <1>2
  <2>3. QED BY <1>1, <2>1, <2>2 DEF Expiries
<1>4. PointerFits(S, Y2)
  <2> SUFFICES ASSUME S.pointer.area.follows, S.pointer.area.id \notin Y2
               PROVE  S.popups[S.pointer.area.id].owners = 1
    BY <1>1 DEF PointerFits
  <2>1. S.pointer # Away
    BY DEF Away, NoArea
  <2>2. S.pointer.on \in Instances /\ S.pointer.area \in Areas(S, S.pointer.on)
    BY <1>1, <2>1 DEF PointerFits
  <2>3. S.pointer.area.id \in Ids /\ S.cards[S.pointer.on][S.pointer.area.id] # NoCard
    BY <1>1, <2>2, AreaIs
  <2>4. S.pointer.area.id \in Entered(S)
    BY <1>1, <2>2, <2>3 DEF CardsAt
  <2>5. QED BY <1>1, <1>2, <2>4 DEF PointerFits
<1>5. QED BY <1>3, <1>4 DEF Good, Settled, Y2

\* The fields of the state are the variables.
LEMMA StateIs ==
  /\ State.notes = notes /\ State.pending = pending /\ State.order = order /\ State.popups = popups
  /\ State.scenes = scenes /\ State.cards = cards /\ State.pointer = pointer /\ State.deferred = deferred
BY DEF State

\* The parts of the invariant.
LEMMA IInvIs ==
  ASSUME IInv
  PROVE  /\ Good(State, {}, strayed, ToSet(State.pending)) /\ Settled(State, strayed)
         /\ State \in Space /\ Lives(State, ToSet(State.pending)) /\ CallsKnown(State) /\ Layout(State)
         /\ CardsAt(State, {}) /\ Hovers(State, {}) /\ Expiries(State, strayed)
         /\ ToSet(State.pending) \cap Entered(State) = {} /\ PointerFits(State, strayed)
         /\ Roomless(State) \/ Entered(State) # Open(State)
         /\ updates \in 0..MaxUpdates /\ rebuilds \in 0..MaxRebuilds /\ strayed \subseteq Ids
BY StateIs DEF IInv, Good, Settled

\* The state that an action reaches.
LEMMA BecomesKeeps ==
  ASSUME NEW V, NEW Y, Becomes(V), Good(V, {}, Y, ToSet(V.pending)), Settled(V, Y), strayed' = Y, Y \subseteq Ids,
         updates' \in 0..MaxUpdates, rebuilds' \in 0..MaxRebuilds
  PROVE  IInv' /\ State' = V
<1>1. State' = V
  BY DEF Becomes, State, Good, Space
<1>2. pending' = V.pending
  BY DEF Becomes
<1>3. QED BY <1>1, <1>2 DEF IInv

\* The state that an action reaches which replaces and rebuilds nothing.
LEMMA ReachesKeeps ==
  ASSUME IInv, NEW V, Reaches(V), Good(V, {}, strayed, ToSet(V.pending)), Settled(V, strayed)
  PROVE  IInv' /\ State' = V
<1>1. Becomes(V) /\ updates' = updates /\ rebuilds' = rebuilds
      /\ strayed' = StillAstray(V, strayed)
  BY DEF Reaches, StillAstray
<1>2. Good(V, {}, strayed', ToSet(V.pending)) /\ Settled(V, strayed')
  BY <1>1, StrayedEnds
<1>3. strayed' \subseteq Ids /\ updates' \in 0..MaxUpdates /\ rebuilds' \in 0..MaxRebuilds
  BY <1>1, IInvIs DEF StillAstray
<1>4. QED BY <1>1, <1>2, <1>3, BecomesKeeps

\* The motion that a handler synthesizes leaves the pointer on what is there.
LEMMA MotionEnds ==
  ASSUME NEW S, NEW T, NEW V, NEW Y, NEW rebuilt, Good(T, {}, Y, ToSet(T.pending)), Movable(S, T, rebuilt, Y),
         V \in Motion(S, T, rebuilt), ToSet(T.pending) \cap Entered(T) = {}, Roomless(T) \/ Entered(T) # Open(T)
  PROVE  Good(V, {}, Y, ToSet(V.pending)) /\ Settled(V, Y) /\ Pointed(T, V)
<1>1. Good(V, {}, Y, ToSet(T.pending)) /\ Pointed(T, V) /\ PointerFits(V, Y)
  BY MotionKeeps
<1>2. T \in Space
  BY GoodIs
<1>3. V.pending = T.pending
  BY <1>1 DEF Pointed
<1>4. Entered(V) = Entered(T) /\ Open(V) = Open(T) /\ (Roomless(T) => Roomless(V))
  BY <1>1, <1>2, PointedKeeps
<1>5. Settled(V, Y)
  BY <1>1, <1>3, <1>4 DEF Settled
<1>6. QED BY <1>1, <1>3, <1>5

\* An action that is a handler and its motion.
LEMMA HandlesKeeps ==
  ASSUME IInv, NEW T, Handles(T), Good(T, {}, strayed, ToSet(T.pending)), Movable(State, T, {}, strayed),
         ToSet(T.pending) \cap Entered(T) = {}, Roomless(T) \/ Entered(T) # Open(T),
         \A V : Good(V, {}, strayed, ToSet(V.pending)) /\ Pointed(T, V) => Steady(State, V)
  PROVE  IInv' /\ Steady(State, State')
<1>1. PICK V \in Motion(State, T, {}) : Reaches(V)
  BY DEF Handles
<1>2. Good(V, {}, strayed, ToSet(V.pending)) /\ Settled(V, strayed) /\ Pointed(T, V)
  BY MotionEnds
<1>3. IInv' /\ State' = V
  BY <1>1, <1>2, ReachesKeeps
<1>4. QED BY <1>2, <1>3

\* A popup that has gone, or was not placed, is nobody's.
LEMMA GoneSteady ==
  ASSUME NEW S \in Space, NEW T, NEW V, NEW Y, NEW W, NEW G \in SUBSET Ids, Hovers(S, {}), Onward(S, T, G, G),
         G \cap Entered(T) = {}, Good(V, {}, Y, W), Pointed(T, V), T \in Space
  PROVE  Steady(S, V)
<1>1. Entered(V) = Entered(T)
  BY PointedKeeps
<1>2. \A x \in G : V.popups[x] = Blank
  BY <1>1, GoodIs DEF Lives
<1>3. \A x \in G : V.popups[x].owners = 0
  BY <1>2 DEF Blank
<1>4. QED BY <1>3, OnwardSteady

\* The timer of an exit animation whose frames did not come.
LEMMA FallbackKeeps ==
  ASSUME IInv, NEW id \in Ids, Fallback(id)
  PROVE  IInv' /\ Steady(State, State')
<1> DEFINE T == FinishRemoval(State, id)
           W == ToSet(State.pending)
<1>1. Handles(T) /\ id \in Entered(State) /\ State.popups[id].exiting
  BY StateIs DEF Fallback, In, Entered
<1>2. /\ Good(T, {}, strayed, W) /\ Onward(State, T, {id}, {id}) /\ Entered(T) = Entered(State) \ {id}
      /\ Roomless(T)
  BY <1>1, IInvIs, FinishKeeps
<1> HIDE DEF T
<1>3. T.pending = State.pending /\ T \in Space
  BY <1>2, GoodIs DEF Onward
<1>4. Movable(State, T, {}, strayed)
  BY <1>2, IInvIs, HandlerMoves
<1>5. ToSet(T.pending) \cap Entered(T) = {}
  BY <1>2, <1>3, IInvIs
<1>6. ASSUME NEW V, Good(V, {}, strayed, ToSet(V.pending)), Pointed(T, V) PROVE Steady(State, V)
  <2>1. {id} \cap Entered(T) = {}
    BY <1>2
  <2>2. QED BY <1>2, <1>3, <1>6, <2>1, IInvIs, GoneSteady
<1>7. QED BY <1>1, <1>2, <1>3, <1>4, <1>5, <1>6, HandlesKeeps

\* The popups that are not closed stay under the pointer.
LEMMA ClosedSteady ==
  ASSUME NEW S, NEW T, NEW V, NEW Y, NEW W, NEW id \in Ids, Good(S, {}, Y, W),
         Onward(Ended(S, id), T, {id}, {id}), Pointed(T, V)
  PROVE  Steady(S, V)
<1> DEFINE D == Ended(S, id)
<1>1. S \in Space /\ Hovers(S, {}) /\ Lives(S, W) /\ Onward(D, T, {id}, {id})
  BY GoodIs
<1>2. /\ D \in Space /\ D.order = S.order /\ D.popups = S.popups /\ D.notes[id].life = "closed"
      /\ \A x \in Ids : x # id => D.notes[x] = S.notes[x]
  BY <1>1, EndedIs
<1> HIDE DEF D
<1>3. Placed(D) = Placed(S)
  BY <1>2 DEF Placed
<1>4. V.notes[id].life = "closed"
  BY <1>1, <1>2 DEF Onward, Pointed
<1> SUFFICES ASSUME NEW x \in Placed(S), S.popups[x].owners > 0, S.notes[x].life = V.notes[x].life
             PROVE  V.popups[x].at = S.popups[x].at
  BY DEF Steady
<1>5. x \in Ids /\ x # id
  <2>1. x \in Open(S)
    BY <1>1, SpaceIs
  <2>2. x \in Ids /\ S.notes[x].life = "live"
    BY <1>1, <2>1, OpenIs
  <2>3. QED BY <1>4, <2>2
<1>6. S.popups[x].hovered
  BY <1>1, <1>5 DEF Hovers
<1>7. T.popups[x].at = D.popups[x].at
  BY <1>1, <1>2, <1>3, <1>5, <1>6 DEF Onward
<1>8. QED BY <1>2, <1>5, <1>7 DEF Pointed

\* A notification is closed, by its expiry, by its client or by a click, with the popup it may have.
LEMMA NoteClosedKeeps ==
  ASSUME IInv, NEW id \in Ids, Handles(CloseNote(State, id))
  PROVE  IInv' /\ Steady(State, State')
<1> DEFINE T == CloseNote(State, id)
           D == Ended(State, id)
           W == ToSet(State.pending)
<1>1. /\ Good(T, {}, strayed, W \ {id}) /\ Movable(State, T, {}, strayed) /\ Onward(D, T, {id}, {id})
      /\ Entered(T) \subseteq Entered(State) /\ (Roomless(T) \/ Entered(T) # Open(T))
  BY IInvIs, CloseKeeps
<1>2. ToSet(D.pending) = ToSet(State.pending) \ {id}
  BY IInvIs, EndedIs
<1> HIDE DEF T
<1>3. T.pending = D.pending
  BY <1>1 DEF Onward
<1>4. ToSet(T.pending) \cap Entered(T) = {} /\ ToSet(T.pending) = W \ {id}
  BY <1>1, <1>2, <1>3, IInvIs
<1>5. ASSUME NEW V, Pointed(T, V) PROVE Steady(State, V)
  <2>1. Good(State, {}, strayed, W)
    BY IInvIs
  <2>2. QED BY <1>1, <1>5, <2>1, ClosedSteady
<1>6. QED BY <1>1, <1>4, <1>5, HandlesKeeps DEF T

\* The expiry of the store.
LEMMA ExpireKeeps ==
  ASSUME IInv, NEW id \in Ids, Expire(id)
  PROVE  IInv' /\ Steady(State, State')
<1>1. Handles(CloseNote(State, id))
  BY DEF Expire
<1>2. QED BY <1>1, NoteClosedKeeps

\* A click, an action or the client itself.
LEMMA CloseActionKeeps ==
  ASSUME IInv, NEW id \in Ids, Close(id)
  PROVE  IInv' /\ Steady(State, State')
<1>1. Handles(CloseNote(State, id))
  BY DEF Close
<1>2. QED BY <1>1, NoteClosedKeeps

\* The pointer is where it was, on cards that are still there.
LEMMA PointerStays ==
  ASSUME NEW S \in Space, NEW T, NEW Y, PointerFits(S, Y), T.pointer = S.pointer, T.scenes = S.scenes,
         \A x \in Ids : T.popups[x].owners = S.popups[x].owners,
         \A i \in Instances, x \in Ids :
           /\ T.cards[i][x] = NoCard <=> S.cards[i][x] = NoCard
           /\ S.cards[i][x] # NoCard => T.cards[i][x].hooked = S.cards[i][x].hooked
  PROVE  PointerFits(T, Y)
<1>1. S.pointer.on \in {0} \cup Instances
  BY PointerIs
<1>2. ASSUME NEW i \in Instances PROVE Areas(T, i) = Areas(S, i)
  <2>1. \A a \in [id : Ids, follows : BOOLEAN] :
          (T.cards[i][a.id] # NoCard /\ (T.cards[i][a.id].hooked => a.follows))
          <=> (S.cards[i][a.id] # NoCard /\ (S.cards[i][a.id].hooked => a.follows))
    OBVIOUS
  <2>2. QED BY <2>1 DEF Areas
<1>3. S.pointer.area.follows => S.pointer.area.id \in Ids
  <2> SUFFICES ASSUME S.pointer.area.follows PROVE S.pointer.area.id \in Ids
    OBVIOUS
  <2>1. CASE S.pointer.on = 0
    <3>1. S.pointer = Away
      BY <2>1 DEF PointerFits
    <3>2. QED BY <3>1 DEF Away, NoArea
  <2>2. CASE S.pointer.on # 0
    <3>1. S.pointer.area \in Areas(S, S.pointer.on)
      BY <2>2 DEF PointerFits
    <3>2. QED BY <3>1, AreaIs
  <2>3. QED BY <2>1, <2>2
<1>4. QED BY <1>1, <1>2, <1>3 DEF PointerFits

\* An animation ends, and hands over a closure that says so.
LEMMA AnimationEnds ==
  ASSUME IInv, NEW i \in Instances, NEW id \in Ids, NEW c \in Closure, State.cards[i][id] # NoCard,
         c.call \in {"close", "remove"},
         c.call = "close" => c.id \in Entered(State) /\ (c.id \in Open(State) \ strayed => State.notes[c.id].timed),
         c.call = "remove" => State.notes[c.id].life = "closed",
         Reaches([State EXCEPT !.cards[i][id].moves = "no", !.deferred = Append(@, c)])
  PROVE  IInv' /\ Steady(State, State')
<1> DEFINE d == [State.cards EXCEPT ![i] = [State.cards[i] EXCEPT ![id] = [State.cards[i][id] EXCEPT !.moves = "no"]]]
           q == Append(State.deferred, c)
           U == [State EXCEPT !.cards = d]
           T == [U EXCEPT !.deferred = q]
           W == ToSet(State.pending)
<1>1. State \in Space /\ CardsAt(State, {}) /\ State.cards \in [Instances -> [Ids -> Card \cup {NoCard}]]
      /\ State.cards[i] \in [Ids -> Card \cup {NoCard}] /\ State.cards[i][id] \in Card
  BY IInvIs, SpaceIs, CardIs
<1>2. [State EXCEPT !.cards[i][id].moves = "no", !.deferred = Append(@, c)] = T
  BY <1>1 DEF Space
<1>3. [State.cards[i][id] EXCEPT !.moves = "no"] \in Card
  BY <1>1 DEF Card
<1>4. /\ d \in [Instances -> [Ids -> Card \cup {NoCard}]]
      /\ d[i][id] = [State.cards[i][id] EXCEPT !.moves = "no"]
      /\ \A k \in Instances, x \in Ids : k # i \/ x # id => d[k][x] = State.cards[k][x]
  BY <1>1, <1>3
<1> HIDE DEF d
<1>5. d[i][id] # NoCard /\ d[i][id].moves = "no" /\ d[i][id].hooked = State.cards[i][id].hooked
      /\ d[i][id].finite = State.cards[i][id].finite
  BY <1>1, <1>3, <1>4, NoCardIs DEF Card
<1> DEFINE e == State.cards
<1>0. ASSUME NEW k \in Instances, NEW x \in Ids
      PROVE  /\ d[k][x] = NoCard <=> e[k][x] = NoCard
             /\ d[k][x].hooked = e[k][x].hooked /\ d[k][x].finite = e[k][x].finite
             /\ x # id => d[k][x] = e[k][x]
             /\ d[k][x].moves \in {"no", e[k][x].moves}
  <2>1. CASE k = i /\ x = id
    BY <1>5, <2>1
  <2>2. CASE ~(k = i /\ x = id)
    BY <1>4, <2>2
  <2>3. QED BY <2>1, <2>2
<1> HIDE DEF e
<1>6. q \in Seq(Closure) /\ ToSet(q) = Calls(State) \cup {c}
  BY <1>1, SpaceIs, AppendIs DEF Calls
<1> HIDE DEF q
<1>7. /\ U \in Space /\ U.cards = d /\ U.pending = State.pending /\ U.order = State.order
      /\ U.scenes = State.scenes /\ U.pointer = State.pointer /\ U.deferred = State.deferred
      /\ U.popups = State.popups /\ U.notes = State.notes
  BY <1>1, <1>4 DEF Space
<1> HIDE DEF U
<1>8. id \in Entered(State)
  BY <1>1 DEF CardsAt
<1>9. \A k \in Instances, x \in Ids : State.cards[k][x].moves = "exit" => State.popups[x].exiting
  <2>1. NoCard.moves # "exit"
    BY NoCardIs
  <2>2. QED BY <1>1, <2>1 DEF CardsAt
<1>10. id \in Open(State) \ strayed => Clocked(State, id)
  BY IInvIs DEF Expiries
<1>11. Redrawn(State, U, {}, strayed, id)
  <2>1. \A k \in Instances, x \in Ids :
          /\ d[k][x] = NoCard <=> State.cards[k][x] = NoCard
          /\ x # id => d[k][x] = State.cards[k][x]
          /\ d[k][x].moves = "exit" => State.popups[x].exiting
    BY <1>0, <1>9 DEF e
  <2>2. ASSUME id \in Open(State) \ strayed
        PROVE  /\ State.popups[id].finite = State.notes[id].timed
               /\ \A k \in Instances : d[k][id] # NoCard =>
                    /\ d[k][id].finite = State.notes[id].timed
                    /\ d[k][id].moves = "countdown" => State.notes[id].timed
    BY <1>0, <1>10, <2>2 DEF Clocked, e
  <2>3. QED BY <1>7, <2>1, <2>2 DEF Redrawn
<1>12. Good(State, {}, strayed, W)
  BY IInvIs
<1>13. /\ Good(U, {}, strayed, W) /\ Entered(U) = Entered(State) /\ Open(U) = Open(State)
       /\ Roomless(State) => Roomless(U)
  BY <1>8, <1>11, <1>12, RedrawnKeeps
<1>14. Calls(U) = Calls(State)
  BY <1>7 DEF Calls
<1>15. /\ Good(T, {}, strayed, W) /\ T.notes = U.notes /\ T.cards = U.cards
       /\ T.pending = U.pending /\ T.order = U.order /\ T.popups = U.popups
       /\ T.scenes = U.scenes /\ T.pointer = U.pointer
       /\ Entered(T) = Entered(U) /\ Open(T) = Open(U) /\ (Roomless(U) => Roomless(T))
  <2>1. Granted(U, strayed, q)
    <3>1. Grants(U, strayed, c)
      BY <1>7, <1>13 DEF Grants
    <3>2. QED BY <1>6, <1>14, <3>1 DEF Granted
  <2>2. Resets(U, q)
    BY <1>6, <1>14 DEF Resets
  <2>3. QED BY <1>6, <1>13, <2>1, <2>2, CallsAre
<1> HIDE DEF T
<1>16. PointerFits(T, strayed)
  <2>1. T.pointer = State.pointer /\ T.scenes = State.scenes /\ T.popups = State.popups
    BY <1>7, <1>15
  <2>2. \A k \in Instances, x \in Ids :
          /\ T.cards[k][x] = NoCard <=> State.cards[k][x] = NoCard
          /\ State.cards[k][x] # NoCard => T.cards[k][x].hooked = State.cards[k][x].hooked
    BY <1>0, <1>7, <1>15 DEF e
  <2>3. QED BY <1>1, <2>1, <2>2, IInvIs, PointerStays
<1>17. Settled(T, strayed)
  BY <1>7, <1>13, <1>15, <1>16, IInvIs DEF Settled
<1>18. IInv' /\ State' = T
  <2>1. T.pending = State.pending /\ Reaches(T)
    BY <1>2, <1>7, <1>15
  <2>2. QED BY <1>15, <1>17, <2>1, ReachesKeeps
<1>19. Steady(State, T)
  BY <1>7, <1>15 DEF Steady
<1>20. QED BY <1>18, <1>19

\* A countdown is over: the closure that closes the popup is handed over.
LEMMA CountdownEndsKeeps ==
  ASSUME IInv, NEW i \in Instances, NEW id \in Ids, CountdownEnds(i, id)
  PROVE  IInv' /\ Steady(State, State')
<1> DEFINE c == [call |-> "close", id |-> id]
<1>1. c \in Closure /\ c.call = "close" /\ c.id = id
  BY DEF Closure
<1> HIDE DEF c
<1>2. State.cards[i][id].moves = "countdown"
      /\ Reaches([State EXCEPT !.cards[i][id].moves = "no", !.deferred = Append(@, c)])
  BY StateIs DEF CountdownEnds, c
<1>3. State.cards[i][id] # NoCard
  BY <1>2, NoCardIs
<1>4. id \in Entered(State)
  BY <1>3, IInvIs DEF CardsAt
<1>5. id \in Open(State) \ strayed => State.notes[id].timed
  BY <1>2, <1>3, IInvIs DEF Expiries, Clocked
<1>6. QED BY <1>1, <1>2, <1>3, <1>4, <1>5, AnimationEnds

\* An exit animation is over: the closure that removes the popup is handed over.
LEMMA ExitEndsKeeps ==
  ASSUME IInv, NEW i \in Instances, NEW id \in Ids, ExitEnds(i, id)
  PROVE  IInv' /\ Steady(State, State')
<1> DEFINE c == [call |-> "remove", id |-> id]
<1>1. c \in Closure /\ c.call = "remove" /\ c.id = id
  BY DEF Closure
<1> HIDE DEF c
<1>2. State.cards[i][id].moves = "exit"
      /\ Reaches([State EXCEPT !.cards[i][id].moves = "no", !.deferred = Append(@, c)])
  BY StateIs DEF ExitEnds, c
<1>3. State.cards[i][id] # NoCard
  BY <1>2, NoCardIs
<1>4. id \in Entered(State) /\ State.popups[id].exiting
  BY <1>2, <1>3, IInvIs DEF CardsAt
<1>5. State.notes[id].life = "closed"
  BY <1>4, IInvIs DEF Lives, Open
<1>6. QED BY <1>1, <1>2, <1>3, <1>5, AnimationEnds

\* The pointer follows a card that is there.
LEMMA PointerOnCard ==
  ASSUME NEW S \in Space, NEW Y, PointerFits(S, Y)
  PROVE  OnCard(S)
<1> SUFFICES ASSUME S.pointer.area.follows
             PROVE  /\ S.pointer.on \in Instances /\ S.pointer.area.id \in Ids
                    /\ S.cards[S.pointer.on][S.pointer.area.id] # NoCard
  BY DEF OnCard
<1>1. S.pointer.on \in {0} \cup Instances
  BY PointerIs
<1>2. S.pointer.on # 0
  <2> SUFFICES ASSUME S.pointer.on = 0 PROVE FALSE
    OBVIOUS
  <2>1. S.pointer = Away
    BY DEF PointerFits
  <2>2. QED BY <2>1 DEF Away, NoArea
<1>3. S.pointer.area \in Areas(S, S.pointer.on)
  BY <1>2 DEF PointerFits
<1>4. QED BY <1>1, <1>2, <1>3, AreaIs

\* The pointer moves over a surface.
LEMMA PointKeeps ==
  ASSUME IInv, NEW i \in Instances, Point(i)
  PROVE  IInv' /\ Steady(State, State')
<1>1. PICK area \in Areas(State, i) : Reaches(PointAt(State, i, area))
  BY DEF Point
<1> DEFINE V == PointAt(State, i, area)
           W == ToSet(State.pending)
<1>2. i \in State.scenes /\ State \in Space
  BY StateIs, IInvIs DEF Point
<1>3. /\ Good(V, {}, strayed, W) /\ Pointed(State, V)
      /\ area = State.pointer.area => V = State
      /\ area # State.pointer.area =>
           /\ V.pointer = [on |-> i, area |-> area]
           /\ area.follows => V.popups[area.id].owners = 1
  BY <1>2, IInvIs, PointerOnCard, PointAtKeeps
<1>4. Reaches(V)
  BY <1>1
<1> HIDE DEF V
<1>5. /\ V.pending = State.pending /\ Entered(V) = Entered(State) /\ Open(V) = Open(State)
      /\ (Roomless(State) => Roomless(V)) /\ Areas(V, i) = Areas(State, i) /\ V.scenes = State.scenes
  BY <1>2, <1>3, PointedKeeps DEF Pointed
<1>6. PointerFits(V, strayed)
  <2>1. CASE area = State.pointer.area
    BY <1>3, <2>1, IInvIs
  <2>2. CASE area # State.pointer.area
    <3>1. V.pointer.on = i /\ V.pointer.area = area /\ i # 0
      BY <1>3, <2>2, SurfacesAre
    <3>2. QED BY <1>2, <1>3, <1>5, <2>2, <3>1 DEF PointerFits
  <2>3. QED BY <2>1, <2>2
<1>7. Settled(V, strayed)
  BY <1>5, <1>6, IInvIs DEF Settled
<1>8. Good(V, {}, strayed, ToSet(V.pending))
  BY <1>3, <1>5
<1>9. IInv' /\ State' = V
  BY <1>4, <1>7, <1>8, ReachesKeeps
<1>10. QED BY <1>2, <1>3, <1>9, PointedSteady

\* The pointer leaves a surface.
LEMMA DepartActionKeeps ==
  ASSUME IInv, Depart
  PROVE  IInv' /\ Steady(State, State')
<1> DEFINE V == [Leave(Each(Unhover, State, State.order)) EXCEPT !.pointer = Away]
           W == ToSet(State.pending)
<1>1. State.pointer.on # 0 /\ Reaches(V)
  BY StateIs DEF Depart
<1>2. /\ Good(V, {}, strayed, W) /\ PointerFits(V, strayed) /\ V.pending = State.pending /\ V.order = State.order
      /\ Roomless(V) \/ Entered(V) # Open(V)
      /\ \A x \in Ids : V.popups[x].owners = 0 /\ V.notes[x].life = State.notes[x].life
  BY <1>1, IInvIs, DepartKeeps
<1> HIDE DEF V
<1>3. Entered(V) = Entered(State)
  BY <1>2 DEF Entered
<1>4. Settled(V, strayed)
  BY <1>2, <1>3, IInvIs DEF Settled
<1>5. IInv' /\ State' = V
  BY <1>1, <1>2, <1>4, ReachesKeeps
<1>6. Steady(State, V)
  <2>1. Placed(State) \subseteq Ids
    BY IInvIs, SpaceIs
  <2>2. QED BY <1>2, <2>1 DEF Steady
<1>7. QED BY <1>5, <1>6

\* The store changes one notification.
Noted(S, id, v, q) == [S EXCEPT !.notes[id] = v, !.pending = q]

Renoted(S, T, id) ==
  /\ T \in Space /\ T.order = S.order /\ T.popups = S.popups /\ T.cards = S.cards
  /\ T.scenes = S.scenes /\ T.pointer = S.pointer /\ T.deferred = S.deferred
  /\ \A x \in Ids : x # id => T.notes[x] = S.notes[x]

\* What Noted changes.
LEMMA NotedIs ==
  ASSUME NEW S \in Space, NEW id \in Ids, NEW v \in Note, NEW q \in Seq(Ids)
  PROVE  LET T == Noted(S, id, v, q)
         IN Renoted(S, T, id) /\ T.notes[id] = v /\ T.pending = q
<1> DEFINE n == [S.notes EXCEPT ![id] = v]
           T == [S EXCEPT !.notes = n, !.pending = q]
<1>1. S.notes \in [Ids -> Note]
  BY SpaceIs
<1>2. n \in [Ids -> Note] /\ n[id] = v /\ \A x \in Ids : x # id => n[x] = S.notes[x]
  BY <1>1
<1> HIDE DEF n
<1>3. /\ T \in Space /\ T.pending = q /\ T.order = S.order /\ T.popups = S.popups /\ T.cards = S.cards
      /\ T.scenes = S.scenes /\ T.pointer = S.pointer /\ T.deferred = S.deferred /\ T.notes = n
  BY <1>2 DEF Space
<1>4. Noted(S, id, v, q) = T
  BY DEF Space, n, Noted
<1> HIDE DEF T
<1>5. QED BY <1>2, <1>3, <1>4 DEF Renoted

\* A notification without a popup that changes leaves the state good.
LEMMA NoteKeeps ==
  ASSUME NEW S, NEW T, NEW Y, NEW W, NEW W2, Good(S, {}, Y, W), NEW id \in Ids, id \notin Entered(S),
         S.notes[id].life # "closed", Renoted(S, T, id), W2 \ {id} = W \ {id},
         T.notes[id].life = "live" <=> id \in W2,
         T.notes[id].life = "live" => T.notes[id].height # 0 /\ (id \in Y \/ T.notes[id].expiring = T.notes[id].timed)
  PROVE  /\ Good(T, {}, Y, W2) /\ Entered(T) = Entered(S) /\ Open(T) = Open(S)
         /\ Roomless(S) => Roomless(T)
         /\ PointerFits(S, Y) => PointerFits(T, Y)
<1>0. /\ T \in Space /\ T.order = S.order /\ T.popups = S.popups /\ T.cards = S.cards
      /\ T.scenes = S.scenes /\ T.pointer = S.pointer /\ T.deferred = S.deferred
      /\ \A x \in Ids : x # id => T.notes[x] = S.notes[x] /\ (x \in W2 <=> x \in W)
  BY DEF Renoted
<1>1. S \in Space /\ Lives(S, W) /\ CallsKnown(S) /\ Layout(S) /\ CardsAt(S, {}) /\ Hovers(S, {}) /\ Expiries(S, Y)
  BY GoodIs
<1>2. /\ Entered(T) = Entered(S) /\ Open(T) = Open(S) /\ Placed(T) = Placed(S) /\ Calls(T) = Calls(S)
      /\ Entered(S) \subseteq Ids /\ Open(S) \subseteq Entered(S) /\ Placed(S) \subseteq Open(S)
      /\ S.scenes \subseteq Instances
  BY <1>0, <1>1, SpaceIs DEF Entered, Open, Placed, Calls
<1>3. \A x \in Entered(S) : x # id /\ T.notes[x] = S.notes[x] /\ Below(T, x) = Below(S, x)
  BY <1>0, <1>2 DEF Below
<1>4. Lives(T, W2)
  BY <1>0, <1>1, <1>2 DEF Lives
<1>5. CallsKnown(T)
  <2>1. ASSUME NEW c \in Calls(S)
        PROVE  /\ c.call \in {"close", "reset"} => T.notes[c.id].life = "closed" \/ c.id \in Entered(S)
               /\ c.call = "remove" => T.notes[c.id].life = "closed"
               /\ c.call = "orphans" => \A x \in c.ids : T.notes[x].life = "closed"
    <3>1. c \in Closure
      BY <1>0, <1>1, SpaceIs, ToSetIs DEF Calls
    <3>2. c.call \in {"close", "reset", "remove"} => c.id \in Ids
      BY <3>1 DEF Closure
    <3>3. c.call = "orphans" => c.ids \subseteq Ids
      BY <3>1 DEF Closure
    <3>4. /\ c.call \in {"close", "reset"} => S.notes[c.id].life = "closed" \/ c.id \in Entered(S)
          /\ c.call = "remove" => S.notes[c.id].life = "closed"
          /\ c.call = "orphans" => \A x \in c.ids : S.notes[x].life = "closed"
      BY <1>1 DEF CallsKnown
    <3>5. QED BY <1>0, <3>2, <3>3, <3>4
  <2>2. QED BY <1>0, <1>2, <2>1 DEF CallsKnown
<1>6. Layout(T)
  BY <1>0, <1>1, <1>2, <1>3 DEF Layout, Apart
<1>7. \A i : \A x \in Entered(S) : Shows(T, i, x) <=> Shows(S, i, x)
  BY <1>0, <1>2, <1>3 DEF Shows
<1>8. CardsAt(T, {})
  BY <1>0, <1>1, <1>2, <1>7 DEF CardsAt
<1>9. Hovers(T, {})
  <2>1. \A x : (Asked(T, x) <=> Asked(S, x)) /\ (HasCard(T, x) <=> HasCard(S, x))
    BY <1>0, <1>2 DEF Asked, HasCard
  <2>2. QED BY <1>0, <1>1, <1>2, <2>1 DEF Hovers
<1>10. Expiries(T, Y)
  <2>1. \A x \in Open(S) : x \in Entered(S) /\ T.notes[x] = S.notes[x] /\ (Clocked(S, x) => Clocked(T, x))
    BY <1>0, <1>2, <1>3 DEF Clocked
  <2>2. ASSUME NEW x \in Open(S) \ Y
        PROVE  /\ T.notes[x].expiring <=> T.notes[x].timed /\ x \in Placed(T) /\ ~T.popups[x].hovered
               /\ Clocked(T, x)
    BY <1>0, <1>1, <1>2, <2>1 DEF Expiries
  <2>3. \A x \in Ids \ (Entered(T) \cup Y) :
          T.notes[x].life = "live" => T.notes[x].expiring = T.notes[x].timed
    BY <1>0, <1>1, <1>2 DEF Expiries
  <2>4. QED BY <1>0, <1>2, <2>2, <2>3 DEF Expiries
<1>11. ASSUME Roomless(S) PROVE Roomless(T)
  <2> SUFFICES ASSUME NEW x \in Open(T), T.popups[x].at = Queued
               PROVE  FindPlacement(T, T.notes[x].height) = Queued
    BY DEF Roomless
  <2>1. FindPlacement(S, S.notes[x].height) = Queued /\ T.notes[x] = S.notes[x] /\ x \in Ids
    BY <1>0, <1>2, <1>3, <1>11 DEF Roomless
  <2>2. \A p \in Placed(S) : /\ p \in Placed(T) /\ T.popups[p].at = S.popups[p].at
                             /\ T.notes[p].height = S.notes[p].height
    BY <1>0, <1>2, <1>3
  <2>3. S.notes[x].height \in Nat
    BY <1>0, <1>1, <2>1, PopupIs
  <2>4. QED BY <1>0, <1>1, <2>1, <2>2, <2>3, NoRoomStays
<1>12. PointerFits(S, Y) => PointerFits(T, Y)
  BY <1>0, <1>1, PointerStays
<1>13. QED BY <1>0, <1>2, <1>4, <1>5, <1>6, <1>8, <1>9, <1>10, <1>11, <1>12 DEF Good

\* What a notification says of itself.
LEMMA ContentsAre ==
  \A c \in Contents : c.timed \in BOOLEAN /\ c.height \in 0..Tallest /\ c.height # 0
BY ToastAssumption, TallestIs

\* What has no popup is told of, or kept quiet.
LEMMA NotedKeeps ==
  ASSUME IInv, NEW id \in Ids, NEW v \in Note, NEW p \in Seq(Ids), NEW q \in Seq(Closure),
         id \notin Entered(State), State.notes[id].life # "closed",
         ToSet(p) \ {id} = ToSet(State.pending) \ {id},
         v.life = "live" <=> id \in ToSet(p),
         v.life = "live" => v.height # 0 /\ v.expiring = v.timed,
         Granted(Noted(State, id, v, p), strayed, q), Resets(State, q)
  PROVE  LET T == [Noted(State, id, v, p) EXCEPT !.deferred = q]
         IN /\ Good(T, {}, strayed, ToSet(T.pending)) /\ Settled(T, strayed) /\ Steady(State, T)
            /\ T.notes[id] = v /\ \A x \in Ids : x # id => T.notes[x] = State.notes[x]
<1> DEFINE U == Noted(State, id, v, p)
           T == [U EXCEPT !.deferred = q]
           W == ToSet(State.pending)
           W2 == ToSet(p)
<1>1. Renoted(State, U, id) /\ U.notes[id] = v /\ U.pending = p
  BY IInvIs, NotedIs
<1>2. Good(State, {}, strayed, W)
  BY IInvIs
<1>3. Granted(U, strayed, q)
  OBVIOUS
<1> HIDE DEF U
<1>4. Calls(U) = Calls(State)
  BY <1>1 DEF Calls, Renoted
<1>5. Resets(U, q)
  BY <1>4 DEF Resets
<1>6. W2 \ {id} = W \ {id} /\ (U.notes[id].life = "live" <=> id \in W2)
  BY <1>1
<1> HIDE DEF W, W2
<1>7. /\ Good(U, {}, strayed, W2) /\ Entered(U) = Entered(State) /\ Open(U) = Open(State)
      /\ Roomless(State) => Roomless(U)
      /\ PointerFits(State, strayed) => PointerFits(U, strayed)
  BY <1>1, <1>2, <1>6, NoteKeeps
<1>8. /\ Good(T, {}, strayed, W2) /\ T.notes = U.notes /\ T.cards = U.cards
      /\ T.pending = U.pending /\ T.order = U.order /\ T.popups = U.popups
      /\ T.scenes = U.scenes /\ T.pointer = U.pointer
      /\ Entered(T) = Entered(U) /\ Open(T) = Open(U) /\ (Roomless(U) => Roomless(T))
  BY <1>3, <1>5, <1>7, CallsAre
<1> HIDE DEF T
<1>9. PointerFits(T, strayed)
  <2>1. U \in Space /\ PointerFits(U, strayed)
    BY <1>1, <1>7, IInvIs DEF Renoted
  <2>2. QED BY <1>8, <2>1, PointerStays
<1>10. ToSet(T.pending) \cap Entered(T) = {}
  <2>1. ToSet(T.pending) \cap Entered(T) = W2 \cap Entered(State)
    BY <1>1, <1>7, <1>8 DEF W2
  <2>2. \A x \in Entered(State) : x \notin W
    BY IInvIs DEF W
  <2>3. QED BY <1>6, <2>1, <2>2
<1>11. Settled(T, strayed)
  BY <1>7, <1>8, <1>9, <1>10, IInvIs DEF Settled
<1>12. Steady(State, T)
  BY <1>1, <1>8 DEF Steady, Renoted
<1>13. Good(T, {}, strayed, ToSet(T.pending))
  BY <1>1, <1>8 DEF W2
<1>14. QED BY <1>1, <1>8, <1>11, <1>12, <1>13 DEF T, U, Renoted

\* A notification arrives.
LEMMA NotifyKeeps ==
  ASSUME IInv, NEW id \in Ids, Notify(id)
  PROVE  IInv' /\ Steady(State, State')
<1>1. State.notes[id].life = "new" /\ State \in Space /\ State.notes \in [Ids -> Note] /\ State.notes[id] \in Note
      /\ State.pending \in Seq(Ids) /\ State.deferred \in Seq(Closure)
  BY StateIs, IInvIs, SpaceIs DEF Notify
<1>2. id \notin Entered(State) /\ id \notin ToSet(State.pending)
  BY <1>1, IInvIs DEF Lives
<1>3. CASE Reaches([State EXCEPT !.notes[id].life = "quiet"])
  <2> DEFINE v == [State.notes[id] EXCEPT !.life = "quiet"]
             p == State.pending
             q == State.deferred
             U == Noted(State, id, v, p)
             T == [U EXCEPT !.deferred = q]
  <2>1. v \in Note /\ v.life = "quiet"
    BY <1>1 DEF Note
  <2>2. T = [State EXCEPT !.notes[id].life = "quiet"]
    BY <1>1 DEF Space, Noted
  <2>3. Reaches(T)
    BY <1>3, <2>2
  <2>4. Granted(U, strayed, q) /\ Resets(State, q)
    <3>1. U.deferred = State.deferred
      BY <1>1, <2>1, NotedIs DEF Renoted
    <3>2. QED BY <3>1 DEF Granted, Resets, Calls
  <2> HIDE DEF v
  <2>5. Good(T, {}, strayed, ToSet(T.pending)) /\ Settled(T, strayed) /\ Steady(State, T)
    <3>1. p \in Seq(Ids) /\ q \in Seq(Closure) /\ ToSet(p) \ {id} = ToSet(State.pending) \ {id}
          /\ (v.life = "live" <=> id \in ToSet(p)) /\ v.life # "live"
      BY <1>1, <1>2, <2>1
    <3> HIDE DEF p, q
    <3>2. QED BY <1>1, <1>2, <2>1, <2>4, <3>1, NotedKeeps
  <2> HIDE DEF T
  <2>6. QED BY <2>3, <2>5, ReachesKeeps
<1>4. ASSUME NEW c \in Contents, NEW scheduled \in BOOLEAN,
             Reaches([State EXCEPT !.notes[id] = [life |-> "live", timed |-> c.timed, height |-> c.height, expiring |-> c.timed],
                                   !.pending = Append(@, id),
                                   !.deferred = IF scheduled THEN @ ELSE Append(@, [call |-> "flush"])])
      PROVE  IInv' /\ Steady(State, State')
  <2> DEFINE v == [life |-> "live", timed |-> c.timed, height |-> c.height, expiring |-> c.timed]
             p == Append(State.pending, id)
             f == [call |-> "flush"]
             q == IF scheduled THEN State.deferred ELSE Append(State.deferred, f)
             U == Noted(State, id, v, p)
             T == [U EXCEPT !.deferred = q]
  <2>1. v \in Note /\ v.life = "live" /\ v.height # 0 /\ v.expiring = v.timed
    BY ContentsAre DEF Note
  <2>2. p \in Seq(Ids) /\ ToSet(p) = ToSet(State.pending) \cup {id}
    BY <1>1, AppendIs
  <2>3. f \in Closure /\ f.call = "flush"
    BY DEF Closure
  <2>4. [State EXCEPT !.notes[id] = v, !.pending = Append(@, id),
                      !.deferred = IF scheduled THEN @ ELSE Append(@, [call |-> "flush"])] = T
    BY <1>1 DEF Space, Noted
  <2>5. Reaches(T)
    BY <1>4, <2>4
  <2> HIDE DEF v, p, f
  <2>6. q \in Seq(Closure) /\ \/ ToSet(q) = Calls(State)
                              \/ ToSet(q) = Calls(State) \cup {f}
    <3>1. CASE scheduled
      BY <1>1, <3>1 DEF Calls
    <3>2. CASE ~scheduled
      BY <1>1, <2>3, <3>2, AppendIs DEF Calls
    <3>3. QED BY <3>1, <3>2
  <2> HIDE DEF q
  <2>7. Granted(U, strayed, q) /\ Resets(State, q)
    <3>1. U.deferred = State.deferred
      BY <1>1, <2>1, <2>2, NotedIs DEF Renoted
    <3>2. QED BY <2>3, <2>6, <3>1 DEF Granted, Grants, Resets, Calls
  <2>9. Good(T, {}, strayed, ToSet(T.pending)) /\ Settled(T, strayed) /\ Steady(State, T)
    <3>1. ToSet(p) \ {id} = ToSet(State.pending) \ {id}
          /\ (v.life = "live" <=> id \in ToSet(p)) /\ v.life # "closed"
      BY <2>1, <2>2
    <3>2. QED BY <1>1, <1>2, <2>1, <2>2, <2>6, <2>7, <3>1, NotedKeeps
  <2> HIDE DEF T
  <2>10. QED BY <2>5, <2>9, ReachesKeeps
<1>5. QED BY <1>3, <1>4 DEF Notify

(*********************** The deferred calls run ***********************)

\* What a handler makes of a state that differs from this one in what waits only.
LEMMA RunsKeeps ==
  ASSUME IInv, NEW S, NEW T, Handles(T), S.order = State.order, S.popups = State.popups, S.notes = State.notes,
         S.cards = State.cards, Good(T, {}, strayed, ToSet(T.pending)), Movable(S, T, {}, strayed),
         ToSet(T.pending) \cap Entered(T) = {}, Roomless(T) \/ Entered(T) # Open(T),
         \A V : Good(V, {}, strayed, ToSet(V.pending)) /\ Pointed(T, V) => Steady(S, V)
  PROVE  IInv' /\ Steady(State, State')
<1>1. Movable(State, T, {}, strayed)
  BY DEF Movable, Vanished
<1>2. Placed(S) = Placed(State)
  BY DEF Placed
<1>3. ASSUME NEW V, Good(V, {}, strayed, ToSet(V.pending)), Pointed(T, V) PROVE Steady(State, V)
  <2>1. Steady(S, V)
    BY <1>3
  <2>2. QED BY <1>2, <2>1 DEF Steady
<1>4. QED BY <1>1, <1>3, HandlesKeeps

\* The closure at the head has been taken from those that wait.
Run(q) == [State EXCEPT !.deferred = q]

\* The closures that are left when the first is taken.
LEMMA TailIs ==
  ASSUME IInv, State.deferred # <<>>
  PROVE  LET c == Head(State.deferred)
             S == Run(Tail(State.deferred))
             W == ToSet(State.pending)
         IN /\ c \in Closure /\ c \in Calls(State)
            /\ S \in Space /\ Lives(S, W) /\ CallsKnown(S) /\ Layout(S) /\ CardsAt(S, {}) /\ Expiries(S, strayed)
            /\ S.notes = State.notes /\ S.cards = State.cards
            /\ S.pending = State.pending /\ S.order = State.order /\ S.popups = State.popups
            /\ S.scenes = State.scenes /\ S.pointer = State.pointer
            /\ Entered(S) = Entered(State) /\ Open(S) = Open(State) /\ Placed(S) = Placed(State)
            /\ Roomless(S) \/ Entered(S) # Open(S)
            /\ PointerFits(S, strayed)
            /\ c.call = "reset" => HoversBut(S, {}, c.id)
            /\ c.call # "reset" => Good(S, {}, strayed, W)
<1> DEFINE c == Head(State.deferred)
           q == Tail(State.deferred)
           S == Run(q)
           W == ToSet(State.pending)
<1>1. State \in Space /\ Good(State, {}, strayed, W) /\ PointerFits(State, strayed)
      /\ (Roomless(State) \/ Entered(State) # Open(State))
  BY IInvIs
<1>2. c \in Closure /\ q \in Seq(Closure) /\ Calls(State) = ToSet(q) \cup {c}
  BY <1>1, SpaceIs, HeadIs DEF Calls
<1>3. S = [State EXCEPT !.deferred = q]
  BY DEF Run
<1> HIDE DEF c, q, S, W
<1> DEFINE R == [State EXCEPT !.deferred = q]
<1>4. Granted(State, strayed, q)
  BY <1>2 DEF Granted
<1>11. /\ R \in Space /\ Lives(R, W) /\ CallsKnown(R) /\ Layout(R) /\ CardsAt(R, {}) /\ Expiries(R, strayed)
       /\ R.notes = State.notes /\ R.cards = State.cards
       /\ R.pending = State.pending /\ R.order = State.order /\ R.popups = State.popups
       /\ R.scenes = State.scenes /\ R.pointer = State.pointer
       /\ Entered(R) = Entered(State) /\ Open(R) = Open(State) /\ (Roomless(State) => Roomless(R))
  <2>1. Good(State, {}, strayed, W) /\ q \in Seq(Closure)
    BY <1>1, <1>2
  <2>2. R \in Space /\ Lives(R, W) /\ CallsKnown(R) /\ Layout(R) /\ CardsAt(R, {}) /\ Expiries(R, strayed)
    BY <1>4, <2>1, CallsAre
  <2>3. /\ R.notes = State.notes /\ R.cards = State.cards
        /\ R.pending = State.pending /\ R.order = State.order /\ R.popups = State.popups
        /\ R.scenes = State.scenes /\ R.pointer = State.pointer
    BY <1>1, <2>1, DeferredIs
  <2>4. Entered(R) = Entered(State)
    BY <1>4, <2>1, CallsAre
  <2>5. Open(R) = Open(State)
    BY <1>4, <2>1, CallsAre
  <2>6. Roomless(State) => Roomless(R)
    BY <1>4, <2>1, CallsAre
  <2>7. QED BY <2>2, <2>3, <2>4, <2>5, <2>6
<1>12. ASSUME NEW id \in Ids, ResetsBut(State, q, id) PROVE HoversBut(R, {}, id)
  BY <1>1, <1>2, <1>4, <1>12, CallsAre
<1>13. ASSUME Resets(State, q) PROVE Good(R, {}, strayed, W)
  BY <1>1, <1>2, <1>4, <1>13, CallsAre
<1> HIDE DEF R
<1>5. /\ S \in Space /\ Lives(S, W) /\ CallsKnown(S) /\ Layout(S) /\ CardsAt(S, {}) /\ Expiries(S, strayed)
      /\ S.notes = State.notes /\ S.cards = State.cards
      /\ S.pending = State.pending /\ S.order = State.order /\ S.popups = State.popups
      /\ S.scenes = State.scenes /\ S.pointer = State.pointer
      /\ Entered(S) = Entered(State) /\ Open(S) = Open(State) /\ (Roomless(State) => Roomless(S))
      /\ \A id \in Ids : ResetsBut(State, q, id) => HoversBut(S, {}, id)
      /\ Resets(State, q) => Good(S, {}, strayed, W)
  BY <1>3, <1>11, <1>12, <1>13 DEF R
<1>6. Placed(S) = Placed(State)
  BY <1>5 DEF Placed
<1>7. PointerFits(S, strayed)
  <2>1. \A i \in Instances, x \in Ids : S.cards[i][x] = State.cards[i][x]
    BY <1>5
  <2>2. QED BY <1>1, <1>5, <2>1, PointerStays
<1>8. c.call = "reset" => HoversBut(S, {}, c.id)
  <2> SUFFICES ASSUME c.call = "reset" PROVE HoversBut(S, {}, c.id)
    OBVIOUS
  <2>1. c.id \in Ids
    BY <1>2 DEF Closure
  <2>2. ResetsBut(State, q, c.id)
    BY <1>2 DEF ResetsBut
  <2>3. QED BY <1>5, <2>1, <2>2
<1>9. c.call # "reset" => Good(S, {}, strayed, W)
  <2>1. c.call # "reset" => Resets(State, q)
    BY <1>2 DEF Resets
  <2>2. QED BY <1>5, <2>1
<1>10. QED BY <1>1, <1>2, <1>5, <1>6, <1>7, <1>8, <1>9 DEF c, q, S, W

\* The popups of the notifications that wait are added, each where there is room.
LEMMA FlushRuns ==
  ASSUME IInv, NEW S, S.notes = State.notes, S.cards = State.cards, S.pending = State.pending,
         S.order = State.order, S.popups = State.popups, Good(S, {}, strayed, ToSet(State.pending)),
         PointerFits(S, strayed), Roomless(S) \/ Entered(S) # Open(S),
         Handles(Each(AddPopup, [S EXCEPT !.pending = <<>>], State.pending))
  PROVE  IInv' /\ Steady(State, State')
<1> DEFINE none == <<>>
           R == [S EXCEPT !.pending = none]
           ids == State.pending
           T == Each(AddPopup, R, ids)
<1>1. ids \in Seq(Ids) /\ S \in Space
  BY IInvIs, SpaceIs, GoodIs
<1>11. none \in Seq(Ids)
  OBVIOUS
<1> HIDE DEF none
<1>2. /\ R \in Space /\ R.pending = none /\ R.notes = S.notes /\ R.cards = S.cards /\ R.order = S.order
      /\ R.popups = S.popups /\ R.scenes = S.scenes /\ R.pointer = S.pointer /\ R.deferred = S.deferred
  BY <1>1, <1>11 DEF Space
<1>3. Handles(T)
  BY DEF none
<1> HIDE DEF R, ids
<1>4. Entered(R) = Entered(S) /\ Open(R) = Open(S) /\ Placed(R) = Placed(S) /\ Calls(R) = Calls(S)
  BY <1>2 DEF Entered, Open, Placed, Calls
<1>5. Good(R, {}, strayed, ToSet(ids)) /\ PointerFits(R, strayed) /\ (Roomless(R) \/ Entered(R) # Open(R))
  <2>1. /\ S \in Space /\ Lives(S, ToSet(ids)) /\ CallsKnown(S) /\ Layout(S)
        /\ CardsAt(S, {}) /\ Hovers(S, {}) /\ Expiries(S, strayed)
    BY GoodIs DEF ids
  <2>2. Lives(R, ToSet(ids)) /\ CallsKnown(R)
    BY <1>2, <1>4, <2>1 DEF Lives, CallsKnown
  <2>3. \A x : Below(R, x) = Below(S, x)
    BY <1>2 DEF Below
  <2>4. Layout(R)
    BY <1>2, <1>4, <2>1, <2>3 DEF Layout, Apart
  <2>5. CardsAt(R, {})
    BY <1>2, <1>4, <2>1, <2>3 DEF CardsAt, Shows
  <2>6. Hovers(R, {})
    BY <1>2, <1>4, <2>1 DEF Hovers, Asked, HasCard
  <2>7. Expiries(R, strayed)
    BY <1>2, <1>4, <2>1 DEF Expiries, Clocked
  <2>8. Roomless(S) => Roomless(R)
    <3> SUFFICES ASSUME Roomless(S), NEW x \in Open(R), R.popups[x].at = Queued
                 PROVE  FindPlacement(R, R.notes[x].height) = Queued
      BY DEF Roomless
    <3>1. x \in Ids /\ x \in Open(S) /\ S.popups[x].at = Queued /\ R.notes[x].height = S.notes[x].height
      BY <1>1, <1>2, <1>4, SpaceIs
    <3>2. S.notes[x].height \in Nat /\ FindPlacement(S, S.notes[x].height) = Queued
      BY <1>1, <3>1, PopupIs DEF Roomless
    <3>3. \A p \in Placed(S) : /\ p \in Placed(R) /\ R.popups[p].at = S.popups[p].at
                               /\ R.notes[p].height = S.notes[p].height
      BY <1>2, <1>4
    <3>4. QED BY <1>1, <1>2, <3>1, <3>2, <3>3, NoRoomStays
  <2>9. PointerFits(R, strayed)
    <3>1. \A i \in Instances, x \in Ids : R.cards[i][x] = S.cards[i][x]
      BY <1>2
    <3>2. QED BY <1>1, <1>2, <3>1, PointerStays
  <2>10. QED BY <1>2, <1>4, <2>2, <2>4, <2>5, <2>6, <2>7, <2>8, <2>9 DEF Good
<1>6. Good(T, {}, strayed, {}) /\ Onward(R, T, {}, {}) /\ (Roomless(T) \/ Entered(T) # Open(T))
  BY <1>1, <1>5, FlushKeeps
<1> HIDE DEF T
<1>7. T.pending = <<>> /\ ToSet(T.pending) = {} /\ T \in Space
  <2>1. T.pending = <<>>
    BY <1>2, <1>6 DEF Onward, none
  <2>2. \A x : x \notin ToSet(<<>>)
    BY DEF ToSet
  <2>3. QED BY <1>6, <2>1, <2>2, GoodIs
<1>8. Movable(R, T, {}, strayed)
  <2> DEFINE G == {}
  <2>1. Onward(R, T, G, G) /\ \A x \in Ids \cap G : x \notin Entered(T)
    BY <1>6
  <2>2. \A x \in (Ids \cap G) \ G : T.popups[x].owners = R.popups[x].owners
    OBVIOUS
  <2> HIDE DEF G
  <2>3. QED BY <1>2, <1>5, <1>6, <2>1, <2>2, HandlerMoves
<1>9. ASSUME NEW V, Good(V, {}, strayed, ToSet(V.pending)), Pointed(T, V) PROVE Steady(R, V)
  <2> DEFINE G == {}
  <2>1. Onward(R, T, G, G) /\ G \cap Entered(T) = {} /\ G \in SUBSET Ids
    BY <1>6
  <2> HIDE DEF G
  <2>2. Hovers(R, {})
    BY <1>5, GoodIs
  <2>3. QED BY <1>2, <1>7, <1>9, <2>1, <2>2, GoneSteady
<1>10. QED BY <1>2, <1>3, <1>6, <1>7, <1>8, <1>9, RunsKeeps

\* The end of a countdown closes the notification, unless it is closed already.
LEMMA CloseRuns ==
  ASSUME IInv, NEW S, NEW id \in Ids, S.notes = State.notes, S.cards = State.cards, S.pending = State.pending,
         S.order = State.order, S.popups = State.popups, Good(S, {}, strayed, ToSet(State.pending)),
         PointerFits(S, strayed), Roomless(S) \/ Entered(S) # Open(S), Handles(RequestClose(S, id))
  PROVE  IInv' /\ Steady(State, State')
<1> DEFINE W == ToSet(State.pending)
           T == RequestClose(S, id)
           C == CloseNote(S, id)
           D == Ended(S, id)
<1>1. S \in Space /\ Lives(S, W) /\ Good(S, {}, strayed, W) /\ W = ToSet(S.pending) /\ Handles(T)
  BY GoodIs
<1>2. W \cap Entered(S) = {}
  BY IInvIs DEF Entered
<1> HIDE DEF W
<1>3. CASE S.notes[id].life = "live"
  <2>1. T = C
    BY <1>3 DEF RequestClose
  <2>2. /\ Good(C, {}, strayed, W \ {id}) /\ Movable(S, C, {}, strayed) /\ Onward(D, C, {id}, {id})
        /\ Entered(C) \subseteq Entered(S) /\ (Roomless(C) \/ Entered(C) # Open(C))
    BY <1>1, CloseKeeps
  <2>3. ToSet(D.pending) = W \ {id}
    BY <1>1, EndedIs
  <2> HIDE DEF C, T
  <2>4. C.pending = D.pending
    BY <2>2 DEF Onward
  <2>5. ToSet(C.pending) \cap Entered(C) = {} /\ ToSet(C.pending) = W \ {id}
    BY <1>2, <2>2, <2>3, <2>4
  <2>6. ASSUME NEW V, Pointed(C, V) PROVE Steady(S, V)
    BY <1>1, <2>2, <2>6, ClosedSteady
  <2>7. Handles(C)
    BY <1>1, <2>1
  <2>8. QED BY <2>2, <2>5, <2>6, <2>7, RunsKeeps
<1>4. CASE S.notes[id].life # "live"
  <2>1. id \notin Open(S)
    BY <1>1, <1>4, OpenIs
  <2>2. T = S
    BY <1>4, <2>1 DEF RequestClose, RemovePopup, In, Open, Entered
  <2> HIDE DEF T
  <2>3. Handles(S)
    BY <1>1, <2>2
  <2>4. Movable(S, S, {}, strayed)
    <3> DEFINE G == {}
    <3>1. Onward(S, S, G, G)
      BY OnwardSelf
    <3>2. (\A x \in Ids \cap G : x \notin Entered(S)) /\ \A x \in (Ids \cap G) \ G : S.popups[x].owners = S.popups[x].owners
      OBVIOUS
    <3> HIDE DEF G
    <3>3. QED BY <1>1, <3>1, <3>2, HandlerMoves
  <2>5. ASSUME NEW V, Pointed(S, V) PROVE Steady(S, V)
    BY <1>1, <2>5, PointedSteady
  <2>6. QED BY <1>1, <1>2, <2>3, <2>4, <2>5, RunsKeeps
<1>5. QED BY <1>3, <1>4

\* What a handler has taken away leaves the rest where it was.
LEMMA GoneRuns ==
  ASSUME IInv, NEW S, NEW T, NEW G \in SUBSET Ids, S.notes = State.notes, S.cards = State.cards,
         S.pending = State.pending, S.order = State.order, S.popups = State.popups,
         Good(S, {}, strayed, ToSet(State.pending)), PointerFits(S, strayed), Good(T, {}, strayed, ToSet(State.pending)),
         Onward(S, T, G, G), G \cap Entered(T) = {}, Entered(T) \subseteq Entered(S),
         Roomless(T) \/ Entered(T) # Open(T), Handles(T)
  PROVE  IInv' /\ Steady(State, State')
<1>1. S \in Space /\ T \in Space /\ Hovers(S, {})
  BY GoodIs
<1>2. T.pending = State.pending
  BY DEF Onward
<1>3. ToSet(T.pending) \cap Entered(T) = {}
  BY <1>2, IInvIs DEF Entered
<1>4. Movable(S, T, {}, strayed)
  <2>1. (\A x \in Ids \cap G : x \notin Entered(T)) /\ \A x \in (Ids \cap G) \ G : T.popups[x].owners = S.popups[x].owners
    OBVIOUS
  <2>2. QED BY <1>1, <2>1, HandlerMoves
<1>5. ASSUME NEW V, Good(V, {}, strayed, ToSet(V.pending)), Pointed(T, V) PROVE Steady(S, V)
  BY <1>1, <1>5, GoneSteady
<1>6. Good(T, {}, strayed, ToSet(T.pending))
  BY <1>2
<1>7. QED BY <1>3, <1>4, <1>5, <1>6, RunsKeeps

\* A closure may ask for the popup of a closed notification, which is gone or on its way out.
LEMMA RemoveRuns ==
  ASSUME IInv, NEW S, NEW id \in Ids, S.notes = State.notes, S.cards = State.cards, S.pending = State.pending,
         S.order = State.order, S.popups = State.popups, Good(S, {}, strayed, ToSet(State.pending)),
         PointerFits(S, strayed), Roomless(S) \/ Entered(S) # Open(S), Handles(FinishRemoval(S, id)),
         S.notes[id].life = "closed"
  PROVE  IInv' /\ Steady(State, State')
<1> DEFINE W == ToSet(State.pending)
           T == FinishRemoval(S, id)
           G == {id}
<1>1. S \in Space /\ Lives(S, W) /\ Good(S, {}, strayed, W) /\ Handles(T)
  BY GoodIs
<1>2. id \in Entered(S) => S.popups[id].exiting
  <2>1. id \notin Open(S)
    BY <1>1, OpenIs
  <2>2. QED BY <2>1 DEF Open
<1> HIDE DEF W
<1>3. /\ Good(T, {}, strayed, W) /\ Onward(S, T, {id}, {id}) /\ Entered(T) = Entered(S) \ {id}
      /\ id \in Entered(S) => Roomless(T)
      /\ id \notin Entered(S) => T = S
  BY <1>1, <1>2, FinishKeeps
<1> HIDE DEF T
<1>4. Roomless(T) \/ Entered(T) # Open(T)
  BY <1>3
<1>5. Onward(S, T, G, G) /\ G \cap Entered(T) = {} /\ Entered(T) \subseteq Entered(S) /\ G \in SUBSET Ids
  BY <1>3
<1> HIDE DEF G
<1>6. QED BY <1>1, <1>3, <1>4, <1>5, GoneRuns DEF W

\* The end of a hover runs, for a popup that no pointer came back to.
LEMMA ResetRuns ==
  ASSUME IInv, NEW S, NEW id \in Ids, NEW finite \in BOOLEAN, S \in Space,
         S.notes = State.notes, S.cards = State.cards, S.pending = State.pending,
         S.order = State.order, S.popups = State.popups, S.scenes = State.scenes, S.pointer = State.pointer,
         Lives(S, ToSet(State.pending)), CallsKnown(S), Layout(S), CardsAt(S, {}), Expiries(S, strayed),
         HoversBut(S, {}, id), PointerFits(S, strayed), Roomless(S) \/ Entered(S) # Open(S),
         Asked(State, id), id \in Open(State) \ strayed => finite = State.notes[id].timed,
         Handles(IF In(S, id) THEN ResetPopupHover(S, id, TRUE, finite) ELSE S)
  PROVE  IInv' /\ Steady(State, State')
<1> DEFINE W == ToSet(State.pending)
           R == ResetPopupHover(S, id, TRUE, finite)
<1>1. Entered(S) = Entered(State) /\ Open(S) = Open(State) /\ Placed(S) = Placed(State)
  BY DEF Entered, Open, Placed
<1>2. /\ State \in Space /\ CardsAt(State, {}) /\ Hovers(State, {}) /\ PointerFits(State, strayed)
      /\ W \cap Entered(State) = {}
  BY IInvIs
<1>3. State.popups[id].owners = 0
  BY <1>2 DEF Hovers
<1> HIDE DEF W
<1>4. CASE id \in Entered(S)
  <2> DEFINE X == {}
  <2>1. Handles(R)
    BY <1>4 DEF In, Entered
  <2>2. MayReset(S, strayed, id, TRUE, finite)
    <3> SUFFICES ASSUME id \in Open(S) \ strayed PROVE id \in Placed(S) /\ finite = S.notes[id].timed
      BY DEF MayReset
    <3>1. HasCard(State, id) /\ id \in Open(State)
      BY <1>1, <1>2 DEF Hovers
    <3>2. id \in Placed(State)
      BY <1>2, <3>1 DEF CardsAt, HasCard, Shows, Open
    <3>3. QED BY <1>1, <3>1, <3>2
  <2>3. /\ Lives(S, W) /\ CallsKnown(S) /\ Layout(S) /\ CardsAt(S, X) /\ Expiries(S, strayed)
        /\ HoversBut(S, X, id)
    BY DEF W
  <2> HIDE DEF X
  <2>4. Good(R, X, strayed, W) /\ Roomless(R) /\ Onward(S, R, {id}, X) /\ HoverEnded(S, R, id)
    BY <1>4, <2>2, <2>3, ResetFrom
  <2> HIDE DEF R
  <2>5. Onward(State, R, {id}, X)
    BY <1>1, <2>4 DEF Onward
  <2>6. Good(R, {}, strayed, W) /\ R \in Space /\ X \cap Ids = {}
    BY <2>4, GoodIs DEF X
  <2>7. R.pending = State.pending /\ Entered(R) = Entered(State)
    BY <1>1, <2>4, <2>5 DEF Onward, HoverEnded, Entered
  <2>8. R.popups[id].owners = 0
    BY <2>4 DEF HoverEnded
  <2>9. Movable(State, R, {}, strayed)
    <3> DEFINE Z == {id}
    <3>1. \A x \in Ids \cap X : x \notin Entered(R)
      BY <2>6
    <3>2. \A x \in (Ids \cap Z) \ X : R.popups[x].owners = State.popups[x].owners
      BY <1>3, <2>8
    <3>3. Onward(State, R, Z, X)
      BY <2>5
    <3> HIDE DEF Z
    <3>4. QED BY <1>2, <2>6, <3>1, <3>2, <3>3, HandlerMoves
  <2>10. ASSUME NEW V, Pointed(R, V) PROVE Steady(State, V)
    <3> DEFINE Z == {id}
    <3>1. \A x \in Placed(State) \cap Z :
            State.popups[x].owners = 0 \/ V.popups[x].owners = 0 \/ V.notes[x].life # State.notes[x].life
      BY <1>3
    <3>2. Onward(State, R, Z, X)
      BY <2>5
    <3> HIDE DEF Z
    <3>3. QED BY <1>2, <2>10, <3>1, <3>2, OnwardSteady
  <2>11. Good(R, {}, strayed, ToSet(R.pending)) /\ ToSet(R.pending) \cap Entered(R) = {}
    BY <1>2, <2>6, <2>7 DEF W
  <2>12. QED BY <2>1, <2>4, <2>9, <2>10, <2>11, HandlesKeeps
<1>5. CASE id \notin Entered(S)
  <2>1. Handles(S)
    BY <1>5 DEF In, Entered
  <2>2. S.popups[id] = Blank
    BY <1>5 DEF Lives
  <2>3. S.popups[id].owners = 0
    BY <2>2 DEF Blank
  <2>4. \A x \in Ids : S.popups[x].owners > 0 => x # id
    BY <2>3
  <2>5. \A x \in Open(S) : x # id
    BY <1>5 DEF Open
  <2>6. Hovers(S, {})
    BY <2>3, <2>4, <2>5 DEF Hovers, HoversBut
  <2>7. Good(S, {}, strayed, ToSet(State.pending))
    BY <2>6 DEF Good
  <2> DEFINE G == {}
  <2>8. Onward(S, S, G, G) /\ G \cap Entered(S) = {} /\ G \in SUBSET Ids
    BY OnwardSelf
  <2> HIDE DEF G
  <2>9. QED BY <2>1, <2>7, <2>8, GoneRuns
<1>6. QED BY <1>4, <1>5

\* What a rebuilt scene has lost of the popups on their way out.
LEMMA OrphansRun ==
  ASSUME IInv, NEW S, NEW ids \in Seq(Ids), S.notes = State.notes, S.cards = State.cards, S.pending = State.pending,
         S.order = State.order, S.popups = State.popups, Good(S, {}, strayed, ToSet(State.pending)),
         PointerFits(S, strayed), Roomless(S) \/ Entered(S) # Open(S), Handles(Each(Orphan, S, ids))
  PROVE  IInv' /\ Steady(State, State')
<1> DEFINE T == Each(Orphan, S, ids)
           W == ToSet(State.pending)
<1>1. Good(S, {}, strayed, W) /\ Handles(T)
  OBVIOUS
<1> HIDE DEF W
<1>2. /\ Good(T, {}, strayed, W) /\ Entered(T) \subseteq Entered(S)
      /\ \E G \in SUBSET Ids : Onward(S, T, G, G) /\ G \cap Entered(T) = {}
      /\ Roomless(T) \/ Entered(T) # Open(T)
  BY <1>1, OrphansKeep
<1> HIDE DEF T
<1>3. PICK G \in SUBSET Ids : Onward(S, T, G, G) /\ G \cap Entered(T) = {}
  BY <1>2
<1>4. QED BY <1>1, <1>2, <1>3, GoneRuns DEF W

\* DeferredCall: each of the closures.
LEMMA RunDeferredKeeps ==
  ASSUME IInv, RunDeferred
  PROVE  IInv' /\ Steady(State, State')
<1> DEFINE c == Head(State.deferred)
           S == Run(Tail(State.deferred))
           W == ToSet(State.pending)
<1>1. State.deferred # <<>>
  BY StateIs DEF RunDeferred
<1>2. (CASE c.call = "flush"   -> Handles(Each(AddPopup, [S EXCEPT !.pending = <<>>], State.pending))
        [] c.call = "close"   -> Handles(RequestClose(S, c.id))
        [] c.call = "remove"  -> Handles(FinishRemoval(S, c.id))
        [] c.call = "reset"   -> Handles(IF In(S, c.id) THEN ResetPopupHover(S, c.id, TRUE, c.finite) ELSE S)
        [] c.call = "orphans" -> Handles(Each(Orphan, S, Those(State.order, c.ids))))
  BY StateIs DEF RunDeferred, Run
<1>3. /\ c \in Closure /\ c \in Calls(State)
      /\ S \in Space /\ Lives(S, W) /\ CallsKnown(S) /\ Layout(S) /\ CardsAt(S, {}) /\ Expiries(S, strayed)
      /\ S.notes = State.notes /\ S.cards = State.cards
      /\ S.pending = State.pending /\ S.order = State.order /\ S.popups = State.popups
      /\ S.scenes = State.scenes /\ S.pointer = State.pointer
      /\ Roomless(S) \/ Entered(S) # Open(S)
      /\ PointerFits(S, strayed)
      /\ c.call = "reset" => HoversBut(S, {}, c.id)
      /\ c.call # "reset" => Good(S, {}, strayed, W)
  BY <1>1, TailIs
<1> HIDE DEF c, S
<1>4. /\ c.call \in {"flush", "close", "remove", "reset", "orphans"}
      /\ c.call \in {"close", "remove", "reset"} => c.id \in Ids
      /\ c.call = "reset" => c.finite \in BOOLEAN
  BY <1>3 DEF Closure
<1>5. CASE c.call = "flush"
  <2>1. Handles(Each(AddPopup, [S EXCEPT !.pending = <<>>], State.pending))
    BY <1>2, <1>5
  <2>2. Good(S, {}, strayed, ToSet(State.pending))
    BY <1>3, <1>5
  <2>3. QED BY <1>3, <2>1, <2>2, FlushRuns
<1>6. CASE c.call = "close"
  <2>1. Handles(RequestClose(S, c.id))
    BY <1>2, <1>6
  <2>2. Good(S, {}, strayed, ToSet(State.pending))
    BY <1>3, <1>6
  <2>3. QED BY <1>3, <1>4, <1>6, <2>1, <2>2, CloseRuns
<1>7. CASE c.call = "remove"
  <2>1. Handles(FinishRemoval(S, c.id))
    BY <1>2, <1>7
  <2>2. Good(S, {}, strayed, ToSet(State.pending))
    BY <1>3, <1>7
  <2>3. S.notes[c.id].life = "closed"
    BY <1>3, <1>7, IInvIs DEF CallsKnown
  <2>4. QED BY <1>3, <1>4, <1>7, <2>1, <2>2, <2>3, RemoveRuns
<1>8. CASE c.call = "reset"
  <2> DEFINE id == c.id
             finite == c.finite
  <2>1. Handles(IF In(S, id) THEN ResetPopupHover(S, id, TRUE, finite) ELSE S)
    BY <1>2, <1>8
  <2>2. Asked(State, id)
    BY <1>3, <1>8 DEF Asked
  <2>3. id \in Open(State) \ strayed => finite = State.notes[id].timed
    BY <1>3, <1>8, IInvIs DEF Expiries, Clocked
  <2>4. id \in Ids /\ finite \in BOOLEAN /\ HoversBut(S, {}, id)
    BY <1>3, <1>4, <1>8
  <2> HIDE DEF id, finite
  <2>5. QED BY <1>3, <2>1, <2>2, <2>3, <2>4, ResetRuns
<1>9. CASE c.call = "orphans"
  <2> DEFINE ids == Those(State.order, c.ids)
  <2>1. Handles(Each(Orphan, S, ids))
    BY <1>2, <1>9
  <2>2. Good(S, {}, strayed, ToSet(State.pending))
    BY <1>3, <1>9
  <2>3. ids \in Seq(Ids)
    BY IInvIs, SpaceIs, ThoseIs
  <2> HIDE DEF ids
  <2>4. QED BY <1>3, <2>1, <2>2, <2>3, OrphansRun
<1>10. QED BY <1>4, <1>5, <1>6, <1>7, <1>8, <1>9

(*********************** A scene is built again ***********************)

\* Popups that keep their places have no more room than before.
LEMMA RoomlessAs ==
  ASSUME NEW S \in Space, NEW T \in Space, T.order = S.order, T.popups = S.popups, T.notes = S.notes, Roomless(S)
  PROVE  Roomless(T)
<1>1. Entered(T) = Entered(S) /\ Open(T) = Open(S) /\ Placed(T) = Placed(S)
  BY DEF Entered, Open, Placed
<1> SUFFICES ASSUME NEW x \in Open(T), T.popups[x].at = Queued
             PROVE  FindPlacement(T, T.notes[x].height) = Queued
  BY DEF Roomless
<1>2. x \in Ids /\ x \in Open(S) /\ S.popups[x].at = Queued /\ T.notes[x].height = S.notes[x].height
  BY <1>1, SpaceIs
<1>3. S.notes[x].height \in Nat /\ FindPlacement(S, S.notes[x].height) = Queued
  BY <1>2, PopupIs DEF Roomless
<1>4. \A p \in Placed(S) : /\ p \in Placed(T) /\ T.popups[p].at = S.popups[p].at
                           /\ T.notes[p].height = S.notes[p].height
  BY <1>1
<1>5. QED BY <1>2, <1>3, <1>4, NoRoomStays

Scened(S, i) ==
  [S EXCEPT !.scenes = @ \cup {i},
            !.cards[i] = [id \in Ids |-> IF Shows(S, i, id) THEN NewCard(S, id) ELSE NoCard]]

\* What a scene built anew changes.
LEMMA ScenedIs ==
  ASSUME NEW S \in Space, NEW i \in Instances
  PROVE  LET T == Scened(S, i)
         IN /\ T \in Space /\ T.notes = S.notes /\ T.pending = S.pending /\ T.order = S.order
            /\ T.popups = S.popups /\ T.pointer = S.pointer /\ T.deferred = S.deferred
            /\ T.scenes = S.scenes \cup {i}
            /\ \A id \in Ids :
                 /\ T.cards[i][id] = IF Shows(S, i, id) THEN NewCard(S, id) ELSE NoCard
                 /\ \A k \in Instances : k # i => T.cards[k][id] = S.cards[k][id]
<1> DEFINE f == [id \in Ids |-> IF Shows(S, i, id) THEN NewCard(S, id) ELSE NoCard]
           d == [S.cards EXCEPT ![i] = f]
           c == S.scenes \cup {i}
           T == Scened(S, i)
<1>1. S.cards \in [Instances -> [Ids -> Card \cup {NoCard}]] /\ S.scenes \in SUBSET Instances
  BY SpaceIs
<1>2. f \in [Ids -> Card \cup {NoCard}]
  <2>1. \A id \in Ids : NewCard(S, id) \in Card
    BY NewCardIs
  <2>2. QED BY <2>1
<1>3. \A id \in Ids : f[id] = IF Shows(S, i, id) THEN NewCard(S, id) ELSE NoCard
  OBVIOUS
<1>4. c \in SUBSET Instances
  BY <1>1
<1> HIDE DEF f
<1>5. /\ d \in [Instances -> [Ids -> Card \cup {NoCard}]] /\ d[i] = f
      /\ \A k \in Instances : k # i => d[k] = S.cards[k]
  BY <1>1, <1>2
<1>6. T = [S EXCEPT !.scenes = c, !.cards = d]
  BY DEF Scened, f, Space
<1> HIDE DEF T, c, d
<1>7. /\ T \in Space /\ T.notes = S.notes /\ T.pending = S.pending /\ T.order = S.order
      /\ T.popups = S.popups /\ T.pointer = S.pointer /\ T.deferred = S.deferred
      /\ T.scenes = c /\ T.cards = d
  BY <1>4, <1>5, <1>6 DEF Space
<1>8. QED BY <1>3, <1>5, <1>7 DEF T, c

\* The cards of a new scene are those of the popups that it has room for.
LEMMA ScenedKeeps ==
  ASSUME NEW S, NEW Y, NEW W, Good(S, {}, Y, W), NEW i \in Instances
  PROVE  LET T == Scened(S, i)
         IN Good(T, {}, Y, W) /\ (Roomless(S) => Roomless(T)) /\ Entered(T) = Entered(S) /\ Open(T) = Open(S)
<1> DEFINE T == Scened(S, i)
<1>1. S \in Space /\ Lives(S, W) /\ CallsKnown(S) /\ Layout(S) /\ CardsAt(S, {}) /\ Hovers(S, {}) /\ Expiries(S, Y)
  BY GoodIs
<1>2. /\ T \in Space /\ T.notes = S.notes /\ T.pending = S.pending /\ T.order = S.order
      /\ T.popups = S.popups /\ T.pointer = S.pointer /\ T.deferred = S.deferred
      /\ T.scenes = S.scenes \cup {i}
      /\ \A id \in Ids :
           /\ T.cards[i][id] = IF Shows(S, i, id) THEN NewCard(S, id) ELSE NoCard
           /\ \A k \in Instances : k # i => T.cards[k][id] = S.cards[k][id]
  BY <1>1, ScenedIs
<1> HIDE DEF T
<1>3. /\ Entered(T) = Entered(S) /\ Open(T) = Open(S) /\ Placed(T) = Placed(S) /\ Calls(T) = Calls(S)
      /\ Entered(S) \subseteq Ids /\ Placed(S) \subseteq Open(S) /\ Open(S) \subseteq Entered(S)
      /\ S.scenes \subseteq Instances
  BY <1>1, <1>2, SpaceIs DEF Entered, Open, Placed, Calls
<1>4. Lives(T, W) /\ CallsKnown(T)
  BY <1>1, <1>2, <1>3 DEF Lives, CallsKnown
<1>5. \A x : Below(T, x) = Below(S, x)
  BY <1>2 DEF Below
<1>6. Layout(T)
  BY <1>1, <1>2, <1>3, <1>5 DEF Layout, Apart
<1>7. \A k, x : Shows(T, k, x) <=> Shows(S, k, x)
  BY <1>3, <1>5 DEF Shows
<1>8. ASSUME NEW k \in Instances, NEW id \in Ids, T.cards[k][id] # NoCard
      PROVE  /\ k \in T.scenes /\ id \in Entered(T)
             /\ T.cards[k][id].moves = "exit" => T.popups[id].exiting
             /\ T.popups[id].exiting \/ Shows(T, k, id)
  <2>1. CASE k = i
    <3>1. Shows(S, i, id) /\ T.cards[i][id] = NewCard(S, id)
      BY <1>2, <1>8, <2>1
    <3>2. T.cards[i][id].moves # "exit"
      BY <1>1, <3>1, NewCardIs
    <3>3. id \in Entered(S)
      BY <1>3, <3>1 DEF Shows
    <3>4. QED BY <1>2, <1>3, <1>7, <2>1, <3>1, <3>2, <3>3
  <2>2. CASE k # i
    <3>1. T.cards[k][id] = S.cards[k][id]
      BY <1>2, <2>2
    <3>2. QED BY <1>1, <1>2, <1>3, <1>7, <1>8, <3>1 DEF CardsAt
  <2>3. QED BY <2>1, <2>2
<1>9. ASSUME NEW k \in T.scenes, NEW id \in Placed(T), Surfaces[k] = Tallest
      PROVE  T.cards[k][id] # NoCard
  <2>1. id \in Ids /\ Below(S, id) <= Tallest /\ id \in Placed(S)
    BY <1>1, <1>3 DEF Layout
  <2>2. CASE k = i
    <3>1. Shows(S, i, id)
      BY <1>9, <2>1, <2>2 DEF Shows
    <3>2. QED BY <1>1, <1>2, <2>1, <2>2, <3>1, NewCardIs
  <2>3. CASE k # i
    BY <1>1, <1>2, <1>3, <1>9, <2>1, <2>3 DEF CardsAt
  <2>4. QED BY <2>2, <2>3
<1>10. CardsAt(T, {})
  BY <1>8, <1>9 DEF CardsAt
<1>11. ASSUME NEW id \in Open(S), HasCard(S, id) PROVE HasCard(T, id)
  <2>1. PICK k \in Instances : S.cards[k][id] # NoCard
    BY <1>11 DEF HasCard
  <2>2. id \in Ids /\ Shows(S, k, id)
    BY <1>1, <1>3, <2>1 DEF CardsAt, Open
  <2>3. T.cards[k][id] # NoCard
    <3>1. NewCard(S, id) # NoCard
      BY <1>1, <2>2, NewCardIs
    <3>2. QED BY <1>2, <2>1, <2>2, <3>1
  <2>4. QED BY <2>3 DEF HasCard
<1>12. Hovers(T, {})
  <2>1. \A x : Asked(T, x) <=> Asked(S, x)
    BY <1>3 DEF Asked
  <2>2. QED BY <1>1, <1>2, <1>3, <1>11, <2>1 DEF Hovers
<1>13. ASSUME NEW id \in Open(S) \ Y PROVE Clocked(T, id)
  <2>1. Clocked(S, id) /\ id \in Ids
    BY <1>1, <1>3 DEF Expiries
  <2>2. ASSUME NEW k \in Instances, T.cards[k][id] # NoCard
        PROVE  /\ T.cards[k][id].finite = S.notes[id].timed
               /\ T.cards[k][id].moves = "countdown" => S.notes[id].timed
    <3>1. CASE k = i
      <4>1. T.cards[k][id] = NewCard(S, id)
        BY <1>2, <2>1, <2>2, <3>1
      <4>2. S.popups[id].finite = S.notes[id].timed
        BY <2>1 DEF Clocked
      <4>3. QED BY <1>1, <2>1, <4>1, <4>2, NewCardIs
    <3>2. CASE k # i
      <4>1. T.cards[k][id] = S.cards[k][id]
        BY <1>2, <2>1, <3>2
      <4>2. QED BY <2>1, <2>2, <4>1 DEF Clocked
    <3>3. QED BY <3>1, <3>2
  <2>3. QED BY <1>2, <1>3, <2>1, <2>2 DEF Clocked
<1>14. Expiries(T, Y)
  BY <1>1, <1>2, <1>3, <1>13 DEF Expiries
<1>15. Roomless(S) => Roomless(T)
  BY <1>1, <1>2, RoomlessAs
<1>16. Good(T, {}, Y, W)
  BY <1>2, <1>4, <1>6, <1>10, <1>12, <1>14 DEF Good
<1>17. QED BY <1>3, <1>15, <1>16 DEF T

\* The pointer is off every card of an output whose cards are built anew, and on the same of another.
LEMMA ScenedMoves ==
  ASSUME NEW S \in Space, NEW U, NEW rebuilt, NEW i \in Instances, U.pointer = S.pointer, U.popups = S.popups,
         S.scenes \subseteq U.scenes,
         \A k \in Instances, id \in Ids : k # i => U.cards[k][id] = S.cards[k][id],
         IF S.pointer.on = i THEN rebuilt = Ids /\ i \in U.scenes /\ S.pointer.area = NoArea
                             ELSE rebuilt = {} /\ PointerFits(S, strayed)
  PROVE  Movable(S, U, rebuilt, strayed)
<1> DEFINE on == S.pointer.on
           a == S.pointer.area
<1>1. on \in {0} \cup Instances /\ 0 \notin Instances
  <2>1. on \in {0} \cup Instances
    BY PointerIs
  <2>2. 0 \notin Instances
    BY SurfacesAre
  <2>3. QED BY <2>1, <2>2
<1>2. CASE on = i
  <2>1. Vanished(S, U, rebuilt) = Ids /\ rebuilt \subseteq Ids
    BY <1>2 DEF Vanished
  <2>2. a = NoArea /\ a.id \notin Ids /\ ~a.follows /\ a \in Areas(U, on)
    BY <1>2, ToastAssumption DEF NoArea, Areas
  <2>3. QED BY <1>1, <1>2, <2>1, <2>2 DEF Movable
<1>3. CASE on # i
  <2>1. CASE on = 0
    BY <1>3, <2>1 DEF Movable, PointerFits
  <2>2. CASE on # 0
    <3>1. on \in Instances /\ on # i /\ \A id \in Ids : U.cards[on][id] = S.cards[on][id]
      BY <1>1, <1>3, <2>2
    <3>2. a.id \notin Vanished(S, U, rebuilt)
      BY <1>3, <3>1 DEF Vanished
    <3>3. Areas(U, on) = Areas(S, on)
      BY <3>1 DEF Areas
    <3>4. /\ rebuilt \subseteq Ids /\ on \in U.scenes /\ a \in Areas(S, on)
          /\ a.follows /\ a.id \notin strayed => S.popups[a.id].owners = 1
      BY <1>3, <2>2 DEF PointerFits
    <3>5. QED BY <2>2, <3>2, <3>3, <3>4 DEF Movable
  <2>3. QED BY <2>1, <2>2
<1>4. QED BY <1>2, <1>3

\* An output's scene is built, with the cards of the popups that it shows.
LEMMA BuildKeeps ==
  ASSUME IInv, NEW i \in Instances, Build(i)
  PROVE  IInv' /\ Steady(State, State')
<1> DEFINE W == ToSet(State.pending)
           S == IF State.pointer.on = i THEN Leave(State) ELSE State
           T == Scened(S, i)
           exiting == {id \in Entered(State) : State.popups[id].exiting}
           call == [call |-> "orphans", ids |-> exiting]
           q == Append(T.deferred, call)
           D == [T EXCEPT !.deferred = q]
           U == IF exiting = {} THEN T ELSE D
           rebuilt == IF State.pointer.on = i THEN Ids ELSE {}
<1>1. /\ \E V \in Motion(S, U, rebuilt) : Becomes(V)
      /\ updates' = updates /\ strayed' = strayed
      /\ rebuilds' = IF i \in State.scenes THEN rebuilds + 1 ELSE rebuilds
      /\ i \in State.scenes => rebuilds < MaxRebuilds
  BY StateIs DEF Build, Entered, Scened
<1>2. /\ Good(State, {}, strayed, W) /\ PointerFits(State, strayed) /\ State \in Space
      /\ W \cap Entered(State) = {} /\ (Roomless(State) \/ Entered(State) # Open(State))
      /\ Lives(State, W) /\ Entered(State) \subseteq Ids
      /\ updates \in 0..MaxUpdates /\ rebuilds \in 0..MaxRebuilds /\ strayed \subseteq Ids
  BY IInvIs, SpaceIs
<1>3. PICK V \in Motion(S, U, rebuilt) : Becomes(V)
  BY <1>1
<1> HIDE DEF W
<1>4. /\ Good(S, {}, strayed, W) /\ Pointed(State, S)
      /\ S.pointer.on = State.pointer.on
      /\ IF State.pointer.on = i THEN S.pointer.area = NoArea ELSE S = State
  <2>1. CASE State.pointer.on = i
    <3> DEFINE L == Leave(State)
    <3>1. Good(L, {}, strayed, W) /\ Pointed(State, L) /\ L.pointer = [on |-> State.pointer.on, area |-> NoArea]
      BY <1>2, PointerOnCard, LeaveKeeps
    <3>2. S = L
      BY <2>1
    <3> HIDE DEF L, S
    <3>3. QED BY <2>1, <3>1, <3>2
  <2>2. CASE State.pointer.on # i
    <3>1. S = State
      BY <2>2
    <3>2. Pointed(State, State)
      BY <1>2 DEF Pointed
    <3>3. QED BY <1>2, <2>2, <3>1, <3>2
  <2>3. QED BY <2>1, <2>2
<1> HIDE DEF S
<1>5. /\ S \in Space /\ Entered(S) = Entered(State) /\ Open(S) = Open(State)
      /\ (Roomless(State) => Roomless(S)) /\ S.pending = State.pending
      /\ \A x \in Ids : /\ S.popups[x].at = State.popups[x].at /\ S.popups[x].exiting = State.popups[x].exiting
                        /\ S.notes[x].life = State.notes[x].life
  BY <1>2, <1>4, PointedKeeps, GoodIs DEF Pointed
<1>6. /\ T \in Space /\ T.notes = S.notes /\ T.pending = S.pending /\ T.order = S.order
      /\ T.popups = S.popups /\ T.pointer = S.pointer /\ T.deferred = S.deferred
      /\ T.scenes = S.scenes \cup {i}
      /\ \A id \in Ids, k \in Instances : k # i => T.cards[k][id] = S.cards[k][id]
  BY <1>5, ScenedIs
<1>7. Good(T, {}, strayed, W) /\ (Roomless(S) => Roomless(T)) /\ Entered(T) = Entered(S) /\ Open(T) = Open(S)
  BY <1>4, ScenedKeeps
<1> HIDE DEF T
<1>8. /\ Good(U, {}, strayed, W) /\ (Roomless(T) => Roomless(U)) /\ Entered(U) = Entered(T) /\ Open(U) = Open(T)
      /\ U.notes = T.notes /\ U.pending = T.pending /\ U.popups = T.popups
      /\ U.pointer = T.pointer /\ U.scenes = T.scenes /\ U.cards = T.cards
  <2>1. CASE exiting = {}
    <3>1. U = T
      BY <2>1
    <3>2. QED BY <1>7, <3>1
  <2>2. CASE exiting # {}
    <3>1. U = D
      BY <2>2
    <3>2. call \in Closure /\ call.call = "orphans" /\ call.ids = exiting
      BY <1>2 DEF Closure
    <3>3. \A x \in exiting : T.notes[x].life = "closed"
      BY <1>2, <1>5, <1>6 DEF Lives, Open
    <3> HIDE DEF call, exiting, U
    <3>4. Grants(T, strayed, call)
      BY <3>2, <3>3 DEF Grants
    <3>5. q \in Seq(Closure) /\ ToSet(q) = Calls(T) \cup {call}
      BY <1>6, <3>2, SpaceIs, AppendIs DEF Calls
    <3> HIDE DEF q
    <3>6. Granted(T, strayed, q) /\ Resets(T, q)
      BY <3>4, <3>5 DEF Granted, Resets
    <3>7. Good(D, {}, strayed, W)
      BY <1>7, <3>5, <3>6, CallsAre
    <3>8. /\ D \in Space /\ D.notes = T.notes /\ D.cards = T.cards
          /\ D.pending = T.pending /\ D.order = T.order /\ D.popups = T.popups
          /\ D.scenes = T.scenes /\ D.pointer = T.pointer
      BY <1>6, <3>5, DeferredIs
    <3> HIDE DEF D
    <3>9. Entered(D) = Entered(T) /\ Open(D) = Open(T)
      BY <3>8 DEF Entered, Open
    <3>10. Roomless(T) => Roomless(D)
      BY <1>6, <3>8, RoomlessAs
    <3>11. QED BY <3>1, <3>7, <3>8, <3>9, <3>10
  <2>3. QED BY <2>1, <2>2
<1> HIDE DEF U, exiting
<1>9. Movable(S, U, rebuilt, strayed)
  <2>1. \A k \in Instances, id \in Ids : k # i => U.cards[k][id] = S.cards[k][id]
    BY <1>6, <1>8
  <2>2. S.scenes \subseteq U.scenes /\ i \in U.scenes /\ U.pointer = S.pointer /\ U.popups = S.popups
    BY <1>6, <1>8
  <2>3. IF S.pointer.on = i THEN rebuilt = Ids /\ i \in U.scenes /\ S.pointer.area = NoArea
                            ELSE rebuilt = {} /\ PointerFits(S, strayed)
    BY <1>2, <1>4, <2>2
  <2> HIDE DEF rebuilt
  <2>4. QED BY <1>5, <2>1, <2>2, <2>3, ScenedMoves
<1> HIDE DEF rebuilt
<1>10. Good(V, {}, strayed, ToSet(V.pending)) /\ Settled(V, strayed) /\ Pointed(U, V)
  <2>1. U.pending = State.pending
    BY <1>5, <1>6, <1>8
  <2>2. Good(U, {}, strayed, ToSet(U.pending))
    BY <1>8, <2>1 DEF W
  <2>3. ToSet(U.pending) \cap Entered(U) = {}
    BY <1>2, <1>5, <1>7, <1>8, <2>1 DEF W
  <2>4. Roomless(U) \/ Entered(U) # Open(U)
    BY <1>2, <1>5, <1>7, <1>8
  <2>5. QED BY <1>3, <1>9, <2>2, <2>3, <2>4, MotionEnds
<1>11. IInv' /\ State' = V
  <2>1. rebuilds' \in 0..MaxRebuilds
    <3>1. rebuilds \in 0..MaxRebuilds /\ MaxRebuilds \in Nat
      BY <1>2, ToastAssumption
    <3>2. QED BY <1>1, <3>1
  <2>2. updates' \in 0..MaxUpdates /\ strayed' = strayed
    BY <1>1, <1>2
  <2>3. QED BY <1>2, <1>3, <1>10, <2>1, <2>2, BecomesKeeps
<1>12. Steady(State, V)
  <2>1. Placed(State) \subseteq Ids
    BY <1>2, SpaceIs
  <2>2. \A x \in Ids : V.popups[x].at = State.popups[x].at
    BY <1>5, <1>6, <1>8, <1>10 DEF Pointed
  <2>3. QED BY <2>1, <2>2 DEF Steady
<1>13. QED BY <1>11, <1>12

(******************** A notification is replaced ********************)

\* What is said of the popups but one, where the contents of that one have changed.
LayoutBut(S, id) ==
  /\ \A a, b \in Placed(S) \ {id} : a # b => Apart(S, a, b)
  /\ \A a \in Placed(S) \ {id} : Below(S, a) <= Tallest

\* What a replacement lets stray: a popup that waits, is hovered, or whose duration is another.
Follows(S, T, Y, id) ==
  id \notin Y =>
    /\ T.notes[id].timed = S.notes[id].timed /\ T.notes[id].expiring = T.notes[id].timed
    /\ S.popups[id].at # Queued /\ S.popups[id].hovered = FALSE

\* What new contents leave in order, before the popup is told.
ContentsLeave(S, T, Y, W, id) ==
  /\ T \in Space /\ Lives(T, W) /\ CallsKnown(T) /\ Hovers(T, {}) /\ Expiries(T, Y)
  /\ LayoutBut(T, id) /\ CardsAt(T, {id})
  /\ Entered(T) = Entered(S) /\ Open(T) = Open(S) /\ Placed(T) = Placed(S)
  /\ \A Z : PointerFits(S, Z) => PointerFits(T, Z)
  /\ T.notes[id].height = S.notes[id].height =>
       Layout(T) /\ CardsAt(T, {}) /\ (Roomless(S) => Roomless(T))

\* New contents leave everything in order but the place and the cards of the one popup.
LEMMA ReplacedKeeps ==
  ASSUME NEW S, NEW T, NEW Y, NEW Y2, NEW W, Good(S, {}, Y, W), NEW id \in Open(S), Renoted(S, T, id),
         T.pending = S.pending, T.notes[id].life = "live", T.notes[id].height # 0, Y \subseteq Y2, Follows(S, T, Y2, id)
  PROVE  ContentsLeave(S, T, Y2, W, id)
<1>1. S \in Space /\ Lives(S, W) /\ CallsKnown(S) /\ Layout(S) /\ CardsAt(S, {}) /\ Hovers(S, {}) /\ Expiries(S, Y)
  BY GoodIs
<1>2. /\ T \in Space /\ T.order = S.order /\ T.popups = S.popups /\ T.cards = S.cards
      /\ T.scenes = S.scenes /\ T.pointer = S.pointer /\ T.deferred = S.deferred
      /\ \A x \in Ids : x # id => T.notes[x] = S.notes[x]
  BY DEF Renoted
<1>3. /\ Entered(T) = Entered(S) /\ Open(T) = Open(S) /\ Placed(T) = Placed(S) /\ Calls(T) = Calls(S)
      /\ Entered(S) \subseteq Ids /\ Open(S) \subseteq Entered(S) /\ Placed(S) \subseteq Open(S)
      /\ S.scenes \subseteq Instances /\ id \in Ids
  BY <1>1, <1>2, SpaceIs DEF Entered, Open, Placed, Calls
<1>4. S.notes[id].life = "live"
  BY <1>1, OpenIs
<1>5. \A x \in Ids : T.notes[x].life = S.notes[x].life
  BY <1>2, <1>4
<1>6. Lives(T, W)
  BY <1>1, <1>2, <1>3, <1>5 DEF Lives
<1>7. CallsKnown(T)
  <2>1. ASSUME NEW c \in Calls(S)
        PROVE  /\ c.call \in {"close", "reset"} => T.notes[c.id].life = "closed" \/ c.id \in Entered(S)
               /\ c.call = "remove" => T.notes[c.id].life = "closed"
               /\ c.call = "orphans" => \A x \in c.ids : T.notes[x].life = "closed"
    <3>1. c \in Closure
      BY <1>1, SpaceIs, ToSetIs DEF Calls
    <3>2. c.call \in {"close", "reset", "remove"} => c.id \in Ids
      BY <3>1 DEF Closure
    <3>3. c.call = "orphans" => c.ids \subseteq Ids
      BY <3>1 DEF Closure
    <3>4. /\ c.call \in {"close", "reset"} => S.notes[c.id].life = "closed" \/ c.id \in Entered(S)
          /\ c.call = "remove" => S.notes[c.id].life = "closed"
          /\ c.call = "orphans" => \A x \in c.ids : S.notes[x].life = "closed"
      BY <1>1 DEF CallsKnown
    <3>5. QED BY <1>5, <3>2, <3>3, <3>4
  <2>2. QED BY <1>3, <2>1 DEF CallsKnown
<1>8. Hovers(T, {})
  <2>1. \A x : (Asked(T, x) <=> Asked(S, x)) /\ (HasCard(T, x) <=> HasCard(S, x))
    BY <1>2, <1>3 DEF Asked, HasCard
  <2>2. QED BY <1>1, <1>2, <1>3, <2>1 DEF Hovers
<1>9. Expiries(T, Y2)
  <2>1. ASSUME NEW x \in Open(S) \ Y2
        PROVE  /\ T.notes[x].expiring <=> T.notes[x].timed /\ x \in Placed(T) /\ ~T.popups[x].hovered
               /\ Clocked(T, x)
    <3>1. /\ S.notes[x].expiring <=> S.notes[x].timed /\ x \in Placed(S) /\ ~S.popups[x].hovered
          /\ Clocked(S, x) /\ x \in Ids
      BY <1>1, <1>3 DEF Expiries
    <3>2. T.notes[x].timed = S.notes[x].timed
      BY <1>2, <2>1, <3>1 DEF Follows
    <3>3. Clocked(T, x)
      BY <1>2, <1>3, <3>1, <3>2 DEF Clocked
    <3>4. CASE x = id
      <4>1. /\ T.notes[x].expiring = T.notes[x].timed /\ S.popups[x].at # Queued /\ S.popups[x].hovered = FALSE
        BY <2>1, <3>4 DEF Follows
      <4>2. x \in Placed(T)
        BY <1>3, <2>1, <4>1 DEF Open, Placed, Entered
      <4>3. QED BY <1>2, <3>3, <4>1, <4>2
    <3>5. CASE x # id
      <4>1. T.notes[x] = S.notes[x]
        BY <1>2, <3>1, <3>5
      <4>2. QED BY <1>2, <1>3, <3>1, <3>3, <4>1
    <3>6. QED BY <3>4, <3>5
  <2>2. \A x \in Ids \ Entered(S) : x # id /\ T.notes[x] = S.notes[x]
    BY <1>2, <1>3
  <2>3. QED BY <1>1, <1>3, <2>1, <2>2 DEF Expiries
<1>10. \A x \in Ids : x # id \/ T.notes[id].height = S.notes[id].height => Below(T, x) = Below(S, x)
  BY <1>2 DEF Below
<1>11. LayoutBut(T, id)
  BY <1>1, <1>2, <1>3, <1>10 DEF Layout, LayoutBut, Apart
<1>12. \A i, x : x \in Ids /\ (x # id \/ T.notes[id].height = S.notes[id].height) => (Shows(T, i, x) <=> Shows(S, i, x))
  BY <1>3, <1>10 DEF Shows
<1>13. CardsAt(T, {id})
  BY <1>1, <1>2, <1>3, <1>12 DEF CardsAt
<1>14. ASSUME NEW Z, PointerFits(S, Z) PROVE PointerFits(T, Z)
  BY <1>1, <1>2, <1>14, PointerStays
<1>15. ASSUME T.notes[id].height = S.notes[id].height
       PROVE  Layout(T) /\ CardsAt(T, {}) /\ (Roomless(S) => Roomless(T))
  <2>1. Layout(T)
    BY <1>1, <1>2, <1>3, <1>10, <1>15 DEF Layout, Apart
  <2>2. CardsAt(T, {})
    BY <1>1, <1>2, <1>3, <1>12, <1>15 DEF CardsAt
  <2>3. ASSUME Roomless(S) PROVE Roomless(T)
    <3> SUFFICES ASSUME NEW x \in Open(T), T.popups[x].at = Queued
                 PROVE  FindPlacement(T, T.notes[x].height) = Queued
      BY DEF Roomless
    <3>1. \A y \in Ids : T.notes[y].height = S.notes[y].height
      BY <1>2, <1>15
    <3>2. FindPlacement(S, S.notes[x].height) = Queued /\ T.notes[x].height = S.notes[x].height /\ x \in Ids
      BY <1>2, <1>3, <2>3, <3>1 DEF Roomless
    <3>3. \A p \in Placed(S) : /\ p \in Placed(T) /\ T.popups[p].at = S.popups[p].at
                               /\ T.notes[p].height = S.notes[p].height
      BY <1>2, <1>3, <3>1
    <3>4. S.notes[x].height \in Nat
      BY <1>1, <3>2, PopupIs
    <3>5. QED BY <1>1, <1>2, <3>2, <3>3, <3>4, NoRoomStays
  <2>4. QED BY <2>1, <2>2, <2>3
<1>16. QED BY <1>2, <1>3, <1>6, <1>7, <1>8, <1>9, <1>11, <1>13, <1>14, <1>15 DEF ContentsLeave

\* A popup that no longer fits where it is waits for room, and the store's expiry with it.
Fitted(S, id) ==
  IF id \in Placed(S) /\ ~CanKeepPlacement(S, id) THEN Pause([S EXCEPT !.popups[id].at = Queued], id) ELSE S

\* A popup that no longer fits and waits leaves the layout in order.
LEMMA FittedKeeps ==
  ASSUME NEW S \in Space, NEW Y, NEW W, NEW id \in Open(S), Lives(S, W), CallsKnown(S), LayoutBut(S, id),
         CardsAt(S, {id}), Hovers(S, {}), Expiries(S, Y), id \notin Y => S.popups[id].hovered = FALSE
  PROVE  LET T == Fitted(S, id)
         IN /\ T \in Space /\ Lives(T, W) /\ CallsKnown(T) /\ Layout(T) /\ CardsAt(T, {id})
            /\ HoversBut(T, {id}, id) /\ Expiries(T, Y) /\ Onward(S, T, {id}, {id})
            /\ T.order = S.order /\ T.cards = S.cards /\ T.pointer = S.pointer /\ T.deferred = S.deferred
            /\ T.scenes = S.scenes /\ T.pending = S.pending /\ Hovers(T, {})
            /\ \A x \in Ids : T.notes[x].life = S.notes[x].life /\ T.popups[x].owners = S.popups[x].owners
            /\ T.popups[id].exiting = S.popups[id].exiting /\ T.popups[id].hovered = S.popups[id].hovered
            /\ T.popups[id].owners = S.popups[id].owners /\ T.popups[id].finite = S.popups[id].finite
<1> DEFINE T == Fitted(S, id)
           p == [S.popups EXCEPT ![id] = [S.popups[id] EXCEPT !.at = Queued]]
           U == [S EXCEPT !.popups = p]
           D == Pause(U, id)
<1>0. S \in Space
  OBVIOUS
<1>1. /\ id \in Ids /\ Entered(S) \subseteq Ids /\ Open(S) \subseteq Entered(S) /\ Placed(S) \subseteq Open(S)
      /\ S.scenes \subseteq Instances /\ S.popups \in [Ids -> Popup]
  BY SpaceIs
<1>2. CASE ~(id \in Placed(S) /\ ~CanKeepPlacement(S, id))
  <2>1. T = S
    BY <1>2 DEF Fitted
  <2>2. Layout(S)
    <3>1. id \in Placed(S) => Below(S, id) <= Tallest /\ \A b \in Placed(S) \ {id} : Apart(S, b, id) /\ Apart(S, id, b)
      BY <1>2 DEF CanKeepPlacement, Apart
    <3>2. QED BY <3>1 DEF Layout, LayoutBut
  <2>3. HoversBut(S, {id}, id)
    BY <1>1 DEF Hovers, HoversBut
  <2>4. Onward(S, S, {id}, {id})
    BY OnwardSelf
  <2> HIDE DEF T
  <2>5. QED BY <2>1, <2>2, <2>3, <2>4 DEF T
<1>3. CASE id \in Placed(S) /\ ~CanKeepPlacement(S, id)
  <2>1. /\ U \in Space /\ U.notes = S.notes /\ U.pending = S.pending /\ U.order = S.order /\ U.cards = S.cards
        /\ U.scenes = S.scenes /\ U.pointer = S.pointer /\ U.deferred = S.deferred /\ U.popups = p
    <3>1. p \in [Ids -> Popup]
      <4>1. [S.popups[id] EXCEPT !.at = Queued] \in Popup
        BY <1>1, TallestIs DEF Popup, Queued
      <4>2. QED BY <1>1, <4>1
    <3> HIDE DEF p
    <3>2. QED BY <3>1 DEF Space
  <2>2. /\ \A x \in Ids : x # id => p[x] = S.popups[x]
        /\ p[id].at = Queued /\ p[id].exiting = S.popups[id].exiting /\ p[id].hovered = S.popups[id].hovered
        /\ p[id].owners = S.popups[id].owners /\ p[id].finite = S.popups[id].finite
    <3>1. S.popups[id] \in Popup /\ p[id] = [S.popups[id] EXCEPT !.at = Queued]
          /\ \A x \in Ids : x # id => p[x] = S.popups[x]
      BY <1>1
    <3> HIDE DEF p
    <3>2. QED BY <3>1 DEF Popup
  <2>3. T = D
    BY <1>3 DEF Fitted
  <2> HIDE DEF U, p
  <2>4. Retimed(U, D, id) /\ D.notes[id].expiring = FALSE /\ D.cards = U.cards
    BY <1>1, <2>1, PauseIs
  <2> HIDE DEF D, T
  <2>5. /\ T \in Space /\ T.order = S.order /\ T.cards = S.cards /\ T.scenes = S.scenes /\ T.pending = S.pending
        /\ T.pointer = S.pointer /\ T.deferred = S.deferred /\ T.popups = p
        /\ \A x \in Ids : x # id => T.notes[x] = S.notes[x]
        /\ T.notes[id].life = S.notes[id].life /\ T.notes[id].timed = S.notes[id].timed
        /\ T.notes[id].height = S.notes[id].height /\ T.notes[id].expiring = FALSE
    BY <2>1, <2>3, <2>4 DEF Retimed
  <2>6. \A x \in Ids : /\ T.notes[x].life = S.notes[x].life /\ T.notes[x].timed = S.notes[x].timed
                       /\ T.notes[x].height = S.notes[x].height
                       /\ T.popups[x].exiting = S.popups[x].exiting /\ T.popups[x].hovered = S.popups[x].hovered
                       /\ T.popups[x].owners = S.popups[x].owners /\ T.popups[x].finite = S.popups[x].finite
                       /\ x # id => T.popups[x] = S.popups[x]
    BY <2>2, <2>5
  <2>7. Entered(T) = Entered(S) /\ Calls(T) = Calls(S)
    BY <2>5 DEF Entered, Calls
  <2>8. Open(T) = Open(S)
    BY <1>1, <2>6, <2>7 DEF Open
  <2>9. Placed(T) = Placed(S) \ {id}
    BY <1>1, <2>2, <2>5, <2>6, <2>7 DEF Placed, Entered
  <2>10. Lives(T, W)
    BY <1>1, <2>6, <2>7, <2>8 DEF Lives
  <2>11. CallsKnown(T)
    <3>1. ASSUME NEW c \in Calls(S)
          PROVE  /\ c.call \in {"close", "reset"} => T.notes[c.id].life = "closed" \/ c.id \in Entered(S)
                 /\ c.call = "remove" => T.notes[c.id].life = "closed"
                 /\ c.call = "orphans" => \A x \in c.ids : T.notes[x].life = "closed"
      <4>1. c \in Closure
        BY <1>0, SpaceIs, ToSetIs DEF Calls
      <4>2. c.call \in {"close", "reset", "remove"} => c.id \in Ids
        BY <4>1 DEF Closure
      <4>3. c.call = "orphans" => c.ids \subseteq Ids
        BY <4>1 DEF Closure
      <4>4. /\ c.call \in {"close", "reset"} => S.notes[c.id].life = "closed" \/ c.id \in Entered(S)
            /\ c.call = "remove" => S.notes[c.id].life = "closed"
            /\ c.call = "orphans" => \A x \in c.ids : S.notes[x].life = "closed"
        BY DEF CallsKnown
      <4>5. QED BY <2>6, <4>2, <4>3, <4>4
    <3>2. QED BY <2>7, <3>1 DEF CallsKnown
  <2>12. \A x \in Ids \ {id} : Below(T, x) = Below(S, x)
    BY <2>6 DEF Below
  <2>13. Layout(T)
    BY <1>1, <2>6, <2>9, <2>12 DEF Layout, LayoutBut, Apart
  <2>14. CardsAt(T, {id})
    <3>1. \A i, x : x \in Ids \ {id} => (Shows(T, i, x) <=> Shows(S, i, x))
      BY <2>9, <2>12 DEF Shows
    <3>2. QED BY <1>1, <2>5, <2>6, <2>7, <2>9, <3>1 DEF CardsAt
  <2>15. HoversBut(T, {id}, id)
    <3>1. \A x : (Asked(T, x) <=> Asked(S, x)) /\ (HasCard(T, x) <=> HasCard(S, x))
      BY <2>5, <2>7 DEF Asked, HasCard
    <3>2. QED BY <1>1, <2>5, <2>6, <2>8, <3>1 DEF Hovers, HoversBut
  <2>19. Hovers(T, {})
    <3>1. \A x : (Asked(T, x) <=> Asked(S, x)) /\ (HasCard(T, x) <=> HasCard(S, x))
      BY <2>5, <2>7 DEF Asked, HasCard
    <3>2. QED BY <1>1, <2>5, <2>6, <2>8, <3>1 DEF Hovers
  <2>16. Expiries(T, Y)
    <3>1. ASSUME NEW x \in Open(S) \ Y
          PROVE  /\ T.notes[x].expiring <=> T.notes[x].timed /\ x \in Placed(T) /\ ~T.popups[x].hovered
                 /\ Clocked(T, x)
      <4>1. /\ S.notes[x].expiring <=> S.notes[x].timed /\ x \in Placed(S) /\ ~S.popups[x].hovered
            /\ Clocked(S, x) /\ x \in Ids
        BY <1>1 DEF Expiries
      <4>2. T.popups[x].hovered => x \in Placed(T)
        BY <2>6, <2>9, <3>1, <4>1 DEF Clocked
      <4>3. Clocked(T, x)
        BY <2>5, <2>6, <2>7, <4>1, <4>2 DEF Clocked
      <4>4. CASE x = id
        BY <2>5, <2>9, <4>3, <4>4
      <4>5. CASE x # id
        <5>1. T.notes[x] = S.notes[x] /\ T.popups[x] = S.popups[x] /\ (x \in Placed(T) <=> x \in Placed(S))
          BY <2>5, <2>6, <2>9, <4>1, <4>5
        <5>2. QED BY <4>1, <4>3, <5>1
      <4>6. QED BY <4>4, <4>5
    <3>2. \A x \in Ids \ Entered(S) : x # id /\ T.notes[x] = S.notes[x]
      BY <1>1, <2>5
    <3>3. QED BY <2>7, <2>8, <3>1, <3>2 DEF Expiries
  <2>17. Onward(S, T, {id}, {id})
    <3>1. \A x \in Ids \ {id} : x \in Placed(S) => x \in Placed(T)
      BY <2>9
    <3>2. QED BY <2>5, <2>6, <2>7, <3>1 DEF Onward
  <2>18. QED BY <1>1, <2>5, <2>6, <2>10, <2>11, <2>13, <2>14, <2>15, <2>16, <2>17, <2>19 DEF T
<1>4. QED BY <1>2, <1>3

\* One card of a popup is drawn, and the popup takes its new duration.
Drawn(S, id, i, c, m, timed) ==
  [S EXCEPT !.cards[i][id] = [c EXCEPT !.moves = m], !.popups[id].finite = timed]

\* What the card leaves alone.
DrawnAs(S, T, id, i, c, m, timed) ==
  /\ T \in Space /\ T.notes = S.notes /\ T.pending = S.pending /\ T.order = S.order
  /\ T.scenes = S.scenes /\ T.pointer = S.pointer /\ T.deferred = S.deferred
  /\ \A x \in Ids : x # id => T.popups[x] = S.popups[x]
  /\ T.popups[id].at = S.popups[id].at /\ T.popups[id].exiting = S.popups[id].exiting
  /\ T.popups[id].hovered = S.popups[id].hovered /\ T.popups[id].owners = S.popups[id].owners
  /\ T.popups[id].finite = timed
  /\ \A j \in Instances, x \in Ids : j # i \/ x # id => T.cards[j][x] = S.cards[j][x]
  /\ T.cards[i][id] # NoCard /\ T.cards[i][id].hooked = c.hooked /\ T.cards[i][id].finite = c.finite
  /\ T.cards[i][id].moves = m

\* What the card leaves alone.
LEMMA DrawnIs ==
  ASSUME NEW S \in Space, NEW id \in Ids, NEW i \in Instances, NEW c \in Card, NEW m \in {"no", "countdown"},
         NEW timed \in BOOLEAN
  PROVE  DrawnAs(S, Drawn(S, id, i, c, m, timed), id, i, c, m, timed)
<1> DEFINE d == [c EXCEPT !.moves = m]
           p == [S.popups EXCEPT ![id] = [S.popups[id] EXCEPT !.finite = timed]]
           k == [S.cards EXCEPT ![i] = [S.cards[i] EXCEPT ![id] = d]]
           T == [S EXCEPT !.cards = k, !.popups = p]
<1>1. /\ S.popups \in [Ids -> Popup] /\ S.popups[id] \in Popup
      /\ S.cards \in [Instances -> [Ids -> Card \cup {NoCard}]] /\ S.cards[i] \in [Ids -> Card \cup {NoCard}]
  BY SpaceIs
<1>2. d \in Card /\ d # NoCard /\ d.hooked = c.hooked /\ d.finite = c.finite /\ d.moves = m
  <2>1. d \in Card /\ d.hooked = c.hooked /\ d.finite = c.finite /\ d.moves = m
    BY DEF Card
  <2> HIDE DEF d
  <2>2. QED BY <2>1, NoCardIs
<1> HIDE DEF d
<1>3. [S.popups[id] EXCEPT !.finite = timed] \in Popup
  BY <1>1 DEF Popup
<1>4. /\ p \in [Ids -> Popup] /\ p[id] = [S.popups[id] EXCEPT !.finite = timed]
      /\ \A x \in Ids : x # id => p[x] = S.popups[x]
  BY <1>1, <1>3
<1>5. /\ p[id].at = S.popups[id].at /\ p[id].exiting = S.popups[id].exiting
      /\ p[id].hovered = S.popups[id].hovered /\ p[id].owners = S.popups[id].owners /\ p[id].finite = timed
  <2> HIDE DEF p
  <2>1. QED BY <1>1, <1>4 DEF Popup
<1>6. [S.cards[i] EXCEPT ![id] = d] \in [Ids -> Card \cup {NoCard}]
  BY <1>1, <1>2
<1>7. /\ k \in [Instances -> [Ids -> Card \cup {NoCard}]] /\ k[i][id] = d
      /\ \A j \in Instances, x \in Ids : j # i \/ x # id => k[j][x] = S.cards[j][x]
  BY <1>1, <1>6
<1>8. Drawn(S, id, i, c, m, timed) = T
  BY DEF Drawn, d
<1> HIDE DEF p, k
<1>9. /\ T \in Space /\ T.notes = S.notes /\ T.pending = S.pending /\ T.order = S.order
      /\ T.scenes = S.scenes /\ T.pointer = S.pointer /\ T.deferred = S.deferred /\ T.popups = p /\ T.cards = k
  BY <1>4, <1>7 DEF Space
<1> HIDE DEF T
<1>10. \A j \in Instances, x \in Ids : j # i \/ x # id => T.cards[j][x] = S.cards[j][x]
  BY <1>7, <1>9
<1>11. DrawnAs(S, T, id, i, c, m, timed)
  BY <1>2, <1>4, <1>5, <1>7, <1>9, <1>10 DEF DrawnAs
<1>12. QED BY <1>8, <1>11

\* What one card that is drawn leaves in order.
DrawnLeaves(S, T, X, Y, W, id, i) ==
  /\ Good(T, X, Y, W) /\ (Roomless(S) => Roomless(T)) /\ T.notes = S.notes
  /\ T.pending = S.pending /\ T.order = S.order /\ T.scenes = S.scenes /\ T.pointer = S.pointer
  /\ \A x \in Ids : T.popups[x].owners = S.popups[x].owners /\ T.popups[x].hovered = S.popups[x].hovered
  /\ \A j \in Instances, x \in Ids : j # i \/ x # id => T.cards[j][x] = S.cards[j][x]
  /\ Open(T) = Open(S) /\ T.cards[i][id] # NoCard

\* A card that is drawn in place of one, or for a popup that is being replaced, leaves all in order.
LEMMA DrawnKeeps ==
  ASSUME NEW S, NEW X, NEW Y, NEW W, Good(S, X, Y, W), NEW id \in Open(S), NEW i \in S.scenes,
         S.cards[i][id] # NoCard \/ id \in X, NEW c \in Card, NEW m \in {"no", "countdown"}, NEW timed \in BOOLEAN,
         timed = S.notes[id].timed, m = "countdown" => timed, id \notin Y => c.finite = timed
  PROVE  LET T == Drawn(S, id, i, c, m, timed)
         IN DrawnLeaves(S, T, X, Y, W, id, i) /\ T.cards[i][id].hooked = c.hooked
<1> DEFINE T == Drawn(S, id, i, c, m, timed)
<1>1. S \in Space /\ CardsAt(S, X)
  BY GoodIs
<1>2. id \in Ids /\ i \in Instances /\ id \in Entered(S) /\ S.popups[id].exiting = FALSE
  BY <1>1, SpaceIs, PopupIs DEF Open
<1>3. /\ T \in Space /\ T.notes = S.notes /\ T.pending = S.pending /\ T.order = S.order
      /\ T.scenes = S.scenes /\ T.pointer = S.pointer /\ T.deferred = S.deferred
      /\ \A x \in Ids : x # id => T.popups[x] = S.popups[x]
      /\ T.popups[id].at = S.popups[id].at /\ T.popups[id].exiting = S.popups[id].exiting
      /\ T.popups[id].hovered = S.popups[id].hovered /\ T.popups[id].owners = S.popups[id].owners
      /\ T.popups[id].finite = timed
      /\ \A j \in Instances, x \in Ids : j # i \/ x # id => T.cards[j][x] = S.cards[j][x]
      /\ T.cards[i][id] # NoCard /\ T.cards[i][id].hooked = c.hooked /\ T.cards[i][id].finite = c.finite
      /\ T.cards[i][id].moves = m
  <2>1. DrawnAs(S, T, id, i, c, m, timed)
    BY <1>1, <1>2, DrawnIs
  <2> HIDE DEF T
  <2>2. QED BY <2>1 DEF DrawnAs
<1> HIDE DEF T
<1>4. ASSUME NEW j \in Instances, NEW x \in Ids
      PROVE  /\ S.cards[j][x] # NoCard => T.cards[j][x] # NoCard
             /\ T.cards[j][x] # NoCard => S.cards[j][x] # NoCard \/ (x = id /\ x \in X /\ j \in S.scenes)
             /\ x # id => T.cards[j][x] = S.cards[j][x]
             /\ T.cards[j][x].moves = "exit" => S.popups[x].exiting
  <2>1. S.cards[j][x].moves = "exit" => S.popups[x].exiting
    BY <1>1, NoCardIs DEF CardsAt
  <2>2. CASE j = i /\ x = id
    BY <1>3, <2>2
  <2>3. CASE j # i \/ x # id
    BY <1>3, <2>1, <2>3
  <2>4. QED BY <2>2, <2>3
<1>5. ASSUME id \in Open(S) \ Y, NEW j \in Instances, T.cards[j][id] # NoCard
      PROVE  /\ T.cards[j][id].finite = S.notes[id].timed
             /\ T.cards[j][id].moves = "countdown" => S.notes[id].timed
  <2>1. CASE j = i
    BY <1>3, <1>5, <2>1
  <2>2. CASE j # i
    <3>1. Clocked(S, id)
      BY <1>5, GoodIs DEF Expiries
    <3>2. T.cards[j][id] = S.cards[j][id]
      BY <1>2, <1>3, <2>2
    <3>3. QED BY <1>5, <3>1, <3>2 DEF Clocked
  <2>3. QED BY <2>1, <2>2
<1>6. Redrawn(S, T, X, Y, id)
  BY <1>3, <1>4, <1>5 DEF Redrawn
<1>7. /\ Good(T, X, Y, W) /\ Entered(T) = Entered(S) /\ Open(T) = Open(S)
      /\ Roomless(S) => Roomless(T)
  BY <1>2, <1>6, RedrawnKeeps
<1>8. DrawnLeaves(S, T, X, Y, W, id, i) /\ T.cards[i][id].hooked = c.hooked
  BY <1>3, <1>7 DEF DrawnLeaves
<1>9. QED BY <1>8 DEF T

\* What is known of the pointer when a popup's cards are built anew: that popup is not hovered, and a
\* pointer that is not on it is where it fits.
Foreseen(S, Y, id) ==
  /\ S.pointer.on \in {0} \cup S.scenes
  /\ S.pointer.on = 0 => S.pointer = Away
  /\ S.pointer.on # 0 /\ S.pointer.area.id # id => S.pointer.area \in Areas(S, S.pointer.on)
  /\ S.pointer.area.follows /\ S.pointer.area.id \notin Y =>
       S.pointer.area.id # id /\ S.popups[S.pointer.area.id].owners = 1
  /\ S.popups[id].owners = 0

\* The pointer on no card.
Off(S) == [S EXCEPT !.pointer.area = NoArea]

\* What a pointer that is taken off a card that has gone leaves in order.
SeenLeaves(S, T, X, Y, W) ==
  /\ Whole(T, X, Y, W) /\ PointerFits(T, Y) /\ Pointed(S, T)
  /\ T.popups = S.popups /\ T.pointer.on = S.pointer.on

\* The pointer is taken off the popup.
LEMMA OffKeeps ==
  ASSUME NEW S, NEW X, NEW Y, NEW W, NEW id \in Ids, Whole(S, X, Y, W), Foreseen(S, Y, id), S.pointer.area.id = id
  PROVE  SeenLeaves(S, Off(S), X, Y, W) /\ Off(S).pointer.area = NoArea
<1> DEFINE p == [on |-> S.pointer.on, area |-> NoArea]
           T == [S EXCEPT !.pointer = p]
<1>1. S \in Space /\ Hovers(S, {}) /\ S.pointer.on \in {0} \cup Instances
      /\ S.pointer \in [on : {0} \cup Instances, area : [id : Ids \cup {NoId}, follows : BOOLEAN]]
  BY PointerIs, SpaceIs DEF Whole
<1>2. Off(S) = T
  <2>1. [S.pointer EXCEPT !.area = NoArea] = p
    BY <1>1
  <2>2. QED BY <2>1 DEF Off
<1>3. p \in [on : {0} \cup Instances, area : [id : Ids \cup {NoId}, follows : BOOLEAN]]
  BY <1>1 DEF NoArea
<1>4. ASSUME NEW x \in Ids PROVE S.popups[x].owners = 0
  <2>1. S.popups[x].owners \in Nat
    BY <1>1, PopupIs
  <2>2. S.popups[x].owners > 0 => x = id
    <3> SUFFICES ASSUME S.popups[x].owners > 0 PROVE x = id
      OBVIOUS
    <3>1. S.pointer.area = [id |-> x, follows |-> TRUE]
      BY <1>1 DEF Hovers
    <3>2. QED BY <3>1
  <2>3. QED BY <2>1, <2>2 DEF Foreseen
<1>5. p.on = S.pointer.on /\ p.area = NoArea /\ (S.pointer.on = 0 => p = Away)
  BY DEF Away
<1> HIDE DEF p, T
<1>6. Whole(T, X, Y, W) /\ Pointed(S, T) /\ T.pointer = p /\ T.popups = S.popups /\ T.cards = S.cards
  BY <1>3, <1>4, MovesFrom DEF T
<1>7. PointerFits(T, Y)
  <2>1. T.pointer.on \in {0} \cup T.scenes /\ (T.pointer.on = 0 => T.pointer = Away)
    BY <1>5, <1>6 DEF Foreseen, Pointed
  <2>2. T.pointer.area \in Areas(T, T.pointer.on) /\ ~T.pointer.area.follows
    BY <1>5, <1>6 DEF Areas, NoArea
  <2>3. QED BY <2>1, <2>2 DEF PointerFits
<1>8. QED BY <1>2, <1>5, <1>6, <1>7 DEF SeenLeaves

\* The pointer is on no card that has gone.
LEMMA SeenKeeps ==
  ASSUME NEW S, NEW X, NEW Y, NEW W, NEW id \in Ids, Whole(S, X, Y, W), Foreseen(S, Y, id)
  PROVE  SeenLeaves(S, Seen(S), X, Y, W)
<1>1. Seen(S) = IF S.pointer.on # 0 /\ S.pointer.area \notin Areas(S, S.pointer.on) THEN Off(S) ELSE S
  BY DEF Seen, Off
<1>2. CASE S.pointer.on # 0 /\ S.pointer.area \notin Areas(S, S.pointer.on)
  <2>1. S.pointer.area.id = id
    BY <1>2 DEF Foreseen
  <2>2. QED BY <1>1, <1>2, <2>1, OffKeeps
<1>3. CASE ~(S.pointer.on # 0 /\ S.pointer.area \notin Areas(S, S.pointer.on))
  <2>1. Seen(S) = S
    BY <1>1, <1>3
  <2>2. PointerFits(S, Y)
    BY <1>3 DEF PointerFits, Foreseen
  <2>3. Pointed(S, S)
    BY DEF Whole, Pointed
  <2>4. QED BY <2>1, <2>2, <2>3 DEF SeenLeaves
<1>4. QED BY <1>2, <1>3

\* The pointer is off the popup, and on no card that has gone.
LEMMA SeenOffKeeps ==
  ASSUME NEW S, NEW X, NEW Y, NEW W, NEW id \in Ids, Whole(S, X, Y, W), Foreseen(S, Y, id)
  PROVE  LET T == Seen(IF S.pointer.area.id = id THEN [S EXCEPT !.pointer.area = NoArea] ELSE S)
         IN SeenLeaves(S, T, X, Y, W)
<1>1. CASE S.pointer.area.id = id
  <2>1. SeenLeaves(S, Off(S), X, Y, W) /\ Off(S).pointer.area = NoArea
    BY <1>1, OffKeeps
  <2>2. NoArea \in Areas(Off(S), Off(S).pointer.on)
    BY DEF Areas
  <2>3. Seen(Off(S)) = Off(S)
    BY <2>1, <2>2 DEF Seen
  <2>4. QED BY <1>1, <2>1, <2>3 DEF Off
<1>2. CASE S.pointer.area.id # id
  BY <1>2, SeenKeeps
<1>3. QED BY <1>1, <1>2

\* What holds between the turns of an update, from F on: the popup may count as hovered only if it has
\* strayed.
Turning(F, S, X, Y, W, id) ==
  /\ Whole(S, X, Y, W) /\ PointerFits(S, Y) /\ id \in Open(S) /\ (id \notin Y => ~S.popups[id].hovered)
  /\ S.pending = F.pending /\ S.order = F.order /\ S.scenes = F.scenes /\ S.pointer.on = F.pointer.on
  /\ \A x \in Ids : S.notes[x].life = F.notes[x].life
  /\ Roomless(F) => Roomless(S)

\* What an update may make of one popup: X is its own when its height is another.
Turnable(X, Y, id, layout, area) ==
  /\ layout \in BOOLEAN /\ (X = {} \/ X = {id}) /\ (layout = FALSE => X = {})
  /\ layout = TRUE /\ area = [id |-> id, follows |-> TRUE] => id \in Y

\* The turn of an output where only the countdown starts anew.
LEMMA PlainTurnKeeps ==
  ASSUME NEW F, NEW S, NEW Y, NEW W, NEW id, Turning(F, S, {}, Y, W, id), NEW i \in Instances,
         S.cards[i][id] # NoCard, NEW was, NEW area
  PROVE  Turning(F, UpdateCard(S, id, i, FALSE, was, area), {}, Y, W, id)
<1> DEFINE none == {}
           timed == S.notes[id].timed
           m == IF timed /\ ~was.hovered THEN "countdown" ELSE "no"
           c == S.cards[i][id]
           T == Drawn(S, id, i, c, m, timed)
<1>1. /\ Good(S, none, Y, W) /\ PointerFits(S, Y) /\ id \in Open(S) /\ (id \notin Y => ~S.popups[id].hovered)
      /\ S.pending = F.pending /\ S.order = F.order /\ S.scenes = F.scenes /\ S.pointer.on = F.pointer.on
      /\ \A x \in Ids : S.notes[x].life = F.notes[x].life
      /\ Roomless(F) => Roomless(S)
  BY WholeIs DEF Turning
<1>2. S \in Space /\ id \in Ids /\ CardsAt(S, none) /\ Expiries(S, Y)
  BY <1>1, GoodIs, SpaceIs
<1>3. i \in S.scenes /\ c \in Card /\ timed \in BOOLEAN /\ m \in {"no", "countdown"} /\ (m = "countdown" => timed)
  BY <1>2, CardIs, PopupIs DEF CardsAt
<1>4. id \notin Y => c.finite = timed
  BY <1>1, <1>2 DEF Expiries, Clocked
<1>5. UpdateCard(S, id, i, FALSE, was, area) = T
  BY DEF UpdateCard, Drawn
<1>6. timed = S.notes[id].timed /\ c = S.cards[i][id]
  OBVIOUS
<1> HIDE DEF T, c, m, timed, none
<1>7. DrawnLeaves(S, T, none, Y, W, id, i) /\ T.cards[i][id].hooked = c.hooked
  BY <1>1, <1>3, <1>4, <1>6, DrawnKeeps DEF T
<1>8. /\ Good(T, none, Y, W) /\ (Roomless(S) => Roomless(T)) /\ T.notes = S.notes
      /\ T.pending = S.pending /\ T.order = S.order /\ T.scenes = S.scenes /\ T.pointer = S.pointer
      /\ \A x \in Ids : T.popups[x].owners = S.popups[x].owners /\ T.popups[x].hovered = S.popups[x].hovered
      /\ \A j \in Instances, x \in Ids : j # i \/ x # id => T.cards[j][x] = S.cards[j][x]
      /\ Open(T) = Open(S) /\ T.cards[i][id] # NoCard
  BY <1>7 DEF DrawnLeaves
<1>9. \A j \in Instances, x \in Ids : /\ T.cards[j][x] = NoCard <=> S.cards[j][x] = NoCard
                                      /\ S.cards[j][x] # NoCard => T.cards[j][x].hooked = S.cards[j][x].hooked
  BY <1>6, <1>7, <1>8
<1>10. PointerFits(T, Y)
  BY <1>1, <1>2, <1>8, <1>9, PointerStays
<1>11. Whole(T, {}, Y, W)
  BY <1>8, WholeIs DEF none
<1>12. Turning(F, T, {}, Y, W, id)
  BY <1>1, <1>2, <1>8, <1>10, <1>11 DEF Turning
<1>13. QED BY <1>5, <1>12

\* What the end of the hover and the new card leave of the pointer.
LEMMA BuiltForeseen ==
  ASSUME NEW S \in Space, NEW R, NEW T, NEW X, NEW Y, NEW Z, NEW W, NEW id \in Open(S), NEW i \in Instances,
         X = {} \/ X = {id}, PointerFits(S, Y), Hovers(S, {}), id \notin Y => ~S.popups[id].hovered,
         R \in Space, Onward(S, R, {id}, X), HoverEnded(S, R, id), DrawnLeaves(R, T, X, Z, W, id, i)
  PROVE  Foreseen(T, Y, id)
<1>1. id \in Ids /\ S.pointer.on \in {0} \cup Instances /\ S.scenes \subseteq Instances
  BY SpaceIs, PointerIs
<1>2. /\ T.pointer = S.pointer /\ T.scenes = S.scenes /\ T.popups[id].owners = 0
      /\ \A x \in Ids : x # id => T.popups[x].owners = S.popups[x].owners
      /\ \A j \in Instances, x \in Ids : x # id /\ S.cards[j][x] # NoCard =>
           T.cards[j][x] # NoCard /\ T.cards[j][x].hooked = S.cards[j][x].hooked
  BY <1>1 DEF Onward, HoverEnded, DrawnLeaves
<1>3. ASSUME S.pointer.on # 0, S.pointer.area.id # id PROVE S.pointer.area \in Areas(T, S.pointer.on)
  <2> DEFINE j == S.pointer.on
             a == S.pointer.area
  <2>1. a \in Areas(S, j) /\ j \in Instances
    BY <1>1, <1>3 DEF PointerFits
  <2>2. CASE a = NoArea
    BY <2>2 DEF Areas
  <2>3. CASE a # NoArea
    <3>1. a \in [id : Ids, follows : BOOLEAN] /\ S.cards[j][a.id] # NoCard /\ (S.cards[j][a.id].hooked => a.follows)
      BY <2>1, <2>3 DEF Areas
    <3>2. T.cards[j][a.id] # NoCard /\ T.cards[j][a.id].hooked = S.cards[j][a.id].hooked
      BY <1>2, <1>3, <2>1, <3>1
    <3>3. QED BY <3>1, <3>2 DEF Areas
  <2>4. QED BY <2>2, <2>3
<1>4. ASSUME S.pointer.area.follows, S.pointer.area.id \notin Y
      PROVE  S.pointer.area.id # id /\ T.popups[S.pointer.area.id].owners = 1
  <2>1. S.popups[S.pointer.area.id].owners = 1
    BY <1>4 DEF PointerFits
  <2>2. S.pointer.area.id # id
    <3> SUFFICES ASSUME S.pointer.area.id = id PROVE FALSE
      OBVIOUS
    <3>1. id \notin Y /\ S.popups[id].owners = 1
      BY <1>4, <2>1
    <3>2. ~S.popups[id].hovered
      BY <3>1
    <3>3. S.popups[id].owners > 0 => S.popups[id].hovered
      BY <1>1 DEF Hovers
    <3>4. QED BY <3>1, <3>2, <3>3
  <2>3. S.pointer.area.id \in Ids
    BY <1>4, PointerOnCard DEF OnCard
  <2>4. QED BY <1>2, <2>1, <2>2, <2>3
<1>5. S.pointer.on \in {0} \cup S.scenes /\ (S.pointer.on = 0 => S.pointer = Away)
  BY DEF PointerFits
<1>6. QED BY <1>2, <1>3, <1>4, <1>5 DEF Foreseen

\* The turn of an output where the card is built anew, and the pointer moves over it.
LEMMA BuiltTurnKeeps ==
  ASSUME NEW F, NEW S, NEW X, NEW Y, NEW W, NEW id, Turning(F, S, X, Y, W, id), NEW i \in Instances,
         S.cards[i][id] # NoCard, NEW was, NEW area, Turnable(X, Y, id, TRUE, area)
  PROVE  Turning(F, UpdateCard(S, id, i, TRUE, was, area), X, Y, W, id)
<1> DEFINE R == ResetPopupHover(S, id, FALSE, FALSE)
           timed == S.notes[id].timed
           m == IF timed /\ ~was.hovered THEN "countdown" ELSE "no"
           c == [hooked |-> FALSE, finite |-> R.popups[id].finite, moves |-> "no"]
           D == Drawn(R, id, i, c, m, timed)
           U == Seen(IF D.pointer.area.id = id THEN [D EXCEPT !.pointer.area = NoArea] ELSE D)
           ar == IF area \in Areas(U, i) THEN area ELSE NoArea
           V == PointAt(U, i, ar)
           T == UpdateCard(S, id, i, TRUE, was, area)
<1>1. /\ Whole(S, X, Y, W) /\ PointerFits(S, Y) /\ id \in Open(S) /\ (id \notin Y => ~S.popups[id].hovered)
      /\ S.pending = F.pending /\ S.order = F.order /\ S.scenes = F.scenes /\ S.pointer.on = F.pointer.on
      /\ \A x \in Ids : S.notes[x].life = F.notes[x].life
      /\ Roomless(F) => Roomless(S)
  BY DEF Turning
<1>2. /\ S \in Space /\ Lives(S, W) /\ CallsKnown(S) /\ Layout(S) /\ CardsAt(S, X) /\ Hovers(S, {}) /\ Expiries(S, Y)
      /\ id \in Ids /\ id \in Entered(S) /\ i \in S.scenes
  BY <1>1, SpaceIs DEF Whole, CardsAt
<1>3. T = IF D.pointer.on # i THEN Seen(D) ELSE V
  BY DEF UpdateCard, Drawn
<1>4. (X = {} \/ X = {id}) /\ (area = [id |-> id, follows |-> TRUE] => id \in Y)
  BY DEF Turnable
<1>5. Good(R, X, Y, W) /\ Roomless(R) /\ Onward(S, R, {id}, X) /\ HoverEnded(S, R, id)
  <2>1. HoversBut(S, X, id)
    BY <1>1, <1>2, <1>4, SpaceIs DEF Hovers, HoversBut
  <2>2. MayReset(S, Y, id, FALSE, FALSE)
    BY <1>1 DEF MayReset
  <2> HIDE DEF R
  <2>3. QED BY <1>2, <2>1, <2>2, ResetFrom DEF R
<1>6. m \in {"no", "countdown"} /\ (m = "countdown" => timed) /\ c.finite = R.popups[id].finite
  OBVIOUS
<1>7. timed = S.notes[id].timed /\ (R.popups[id].finite \in BOOLEAN => c \in Card)
  BY DEF Card
<1> HIDE DEF R, timed, m, c
<1>8. R \in Space /\ i \in R.scenes /\ R.notes[id].timed = timed /\ timed \in BOOLEAN /\ id \in Open(R)
      /\ R.popups[id].finite \in BOOLEAN
  <2>1. R \in Space
    BY <1>5, GoodIs
  <2>2. id \in Open(R)
    BY <1>1, <1>5 DEF HoverEnded, Open, Entered
  <2>3. QED BY <1>2, <1>5, <1>7, <2>1, <2>2, PopupIs DEF HoverEnded, Onward
<1>9. (R.cards[i][id] # NoCard \/ id \in X) /\ (id \notin Y => c.finite = timed)
  <2>1. R.cards[i][id] # NoCard \/ id \in X
    BY <1>2, <1>5 DEF Onward
  <2>2. id \notin Y => R.popups[id].finite = timed
    BY <1>5, <1>8, GoodIs DEF Expiries, Clocked
  <2>3. QED BY <1>6, <2>1, <2>2
<1>10. DrawnLeaves(R, D, X, Y, W, id, i)
  BY <1>5, <1>6, <1>7, <1>8, <1>9, DrawnKeeps
<1> HIDE DEF D
<1>11. Foreseen(D, Y, id)
  BY <1>1, <1>2, <1>4, <1>5, <1>8, <1>10, BuiltForeseen
<1>12. /\ Good(D, X, Y, W) /\ Whole(D, X, Y, W) /\ Roomless(D) /\ D \in Space /\ id \in Open(D)
       /\ D.pending = F.pending /\ D.order = F.order /\ D.scenes = F.scenes /\ D.pointer.on = F.pointer.on
       /\ \A x \in Ids : D.notes[x].life = F.notes[x].life
       /\ D.popups[id].hovered = FALSE
  <2>1. Good(D, X, Y, W) /\ Roomless(D) /\ D.notes = R.notes /\ Open(D) = Open(R)
        /\ D.pending = R.pending /\ D.order = R.order /\ D.scenes = R.scenes /\ D.pointer = R.pointer
        /\ D.popups[id].hovered = FALSE
    BY <1>2, <1>5, <1>10 DEF DrawnLeaves, HoverEnded
  <2>2. Whole(D, X, Y, W) /\ D \in Space
    BY <2>1, WholeIs, GoodIs
  <2>3. R.pending = S.pending /\ R.order = S.order /\ R.scenes = S.scenes /\ R.pointer = S.pointer
        /\ \A x \in Ids : R.notes[x].life = S.notes[x].life
    BY <1>5 DEF HoverEnded, Onward
  <2>4. QED BY <1>1, <1>8, <2>1, <2>2, <2>3
<1>13. ASSUME NEW Q, SeenLeaves(D, Q, X, Y, W) PROVE Turning(F, Q, X, Y, W, id)
  <2>1. Whole(Q, X, Y, W) /\ PointerFits(Q, Y) /\ Pointed(D, Q) /\ Q.popups = D.popups /\ Q.pointer.on = D.pointer.on
    BY <1>13 DEF SeenLeaves
  <2>2. Open(Q) = Open(D) /\ Roomless(Q)
    BY <1>12, <2>1, PointedKeeps
  <2>3. QED BY <1>12, <2>1, <2>2 DEF Turning, Pointed
<1>14. CASE D.pointer.on # i
  <2>1. SeenLeaves(D, Seen(D), X, Y, W)
    BY <1>2, <1>11, <1>12, SeenKeeps
  <2>2. QED BY <1>3, <1>13, <1>14, <2>1
<1>15. CASE D.pointer.on = i
  <2>1. SeenLeaves(D, U, X, Y, W)
    BY <1>2, <1>11, <1>12, SeenOffKeeps
  <2>2. ar \in Areas(U, i) /\ (ar.follows => ar = area)
    BY DEF Areas, NoArea
  <2> HIDE DEF U
  <2>3. Turning(F, U, X, Y, W, id)
    BY <1>13, <2>1
  <2>4. /\ Whole(U, X, Y, W) /\ PointerFits(U, Y) /\ U \in Space /\ id \in Open(U) /\ U.popups[id].hovered = FALSE
        /\ U.pointer.on = i
    BY <1>12, <1>15, <2>1, <2>3 DEF SeenLeaves, Turning, Whole
  <2>5. OnCard(U)
    BY <2>4, PointerOnCard
  <2>6. ar.follows /\ ar.id = id => id \in Y
    <3> SUFFICES ASSUME ar.follows, ar.id = id PROVE id \in Y
      OBVIOUS
    <3>1. ar = [id |-> ar.id, follows |-> ar.follows] /\ ar.follows \in BOOLEAN
      BY <2>2, <2>4, AreaIs
    <3>2. area = [id |-> id, follows |-> TRUE]
      BY <2>2, <3>1
    <3>3. QED BY <1>4, <3>2
  <2> HIDE DEF ar
  <2>7. ar.follows /\ ar.id \in X => ar.id \in Y
    BY <1>4, <2>6
  <2>8. /\ Whole(V, X, Y, W) /\ Pointed(U, V)
        /\ \A x \in Ids : V.popups[x].hovered => U.popups[x].hovered \/ (ar.follows /\ ar.id = x)
        /\ ar = U.pointer.area => V = U
        /\ ar # U.pointer.area =>
             /\ V.pointer = [on |-> i, area |-> ar]
             /\ ar.follows => V.popups[ar.id].owners = 1
    BY <2>2, <2>4, <2>5, <2>7, PointAtFrom
  <2> HIDE DEF V
  <2>9. /\ Open(V) = Open(U) /\ (Roomless(U) => Roomless(V)) /\ Areas(V, i) = Areas(U, i) /\ V.scenes = U.scenes
    BY <2>4, <2>8, PointedKeeps DEF Pointed
  <2>10. PointerFits(V, Y) /\ V.pointer.on = i
    <3>1. CASE ar = U.pointer.area
      BY <2>4, <2>8, <3>1
    <3>2. CASE ar # U.pointer.area
      <4>1. V.pointer.on = i /\ V.pointer.area = ar /\ i # 0 /\ (ar.follows => V.popups[ar.id].owners = 1)
        BY <2>8, <3>2, SurfacesAre
      <4>2. i \in V.scenes
        BY <1>1, <1>2, <2>3, <2>9 DEF Turning
      <4>3. QED BY <2>2, <2>9, <4>1, <4>2 DEF PointerFits
    <3>3. QED BY <3>1, <3>2
  <2>11. id \notin Y => ~V.popups[id].hovered
    BY <1>2, <2>4, <2>6, <2>8
  <2>12. Turning(F, V, X, Y, W, id)
    <3>1. V.pointer.on = U.pointer.on
      BY <2>4, <2>10
    <3>2. V.pending = U.pending /\ V.order = U.order /\ \A x \in Ids : V.notes[x].life = U.notes[x].life
      BY <2>8 DEF Pointed
    <3>3. QED BY <2>3, <2>8, <2>9, <2>10, <2>11, <3>1, <3>2 DEF Turning
  <2>13. QED BY <1>3, <1>15, <2>12
<1>16. QED BY <1>14, <1>15

\* The turn of an output, whether it shows the popup or not.
LEMMA TurnKeeps ==
  ASSUME NEW F, NEW S, NEW X, NEW Y, NEW W, NEW id, Turning(F, S, X, Y, W, id), NEW i \in Instances,
         NEW layout, NEW was, NEW area, Turnable(X, Y, id, layout, area)
  PROVE  Turning(F, UpdateCard(S, id, i, layout, was, area), X, Y, W, id)
<1>1. CASE S.cards[i][id] = NoCard
  <2>1. UpdateCard(S, id, i, layout, was, area) = S
    BY <1>1 DEF UpdateCard
  <2>2. QED BY <2>1
<1>2. CASE S.cards[i][id] # NoCard /\ layout = FALSE
  <2>1. Turning(F, S, {}, Y, W, id) /\ X = {}
    BY <1>2 DEF Turnable
  <2>2. Turning(F, UpdateCard(S, id, i, FALSE, was, area), {}, Y, W, id)
    BY <1>2, <2>1, PlainTurnKeeps
  <2>3. QED BY <1>2, <2>1, <2>2
<1>3. CASE S.cards[i][id] # NoCard /\ layout = TRUE
  <2>1. Turnable(X, Y, id, TRUE, area)
    BY <1>3
  <2>2. Turning(F, UpdateCard(S, id, i, TRUE, was, area), X, Y, W, id)
    BY <1>3, <2>1, BuiltTurnKeeps
  <2>3. QED BY <1>3, <2>2
<1>4. QED BY <1>1, <1>2, <1>3 DEF Turnable

\* The loop over the outputs.
Turns(S, id, layout, was, area) ==
  Each(LAMBDA T, i : UpdateCard(T, id, i, layout, was, area), S, [i \in Instances |-> i])

\* The loop over the outputs does not leave a set that no turn leaves.
LEMMA TurnLoop ==
  ASSUME NEW D, NEW S \in D, NEW id, NEW layout, NEW was, NEW area,
         \A i \in Instances, T \in D : UpdateCard(T, id, i, layout, was, area) \in D
  PROVE  Turns(S, id, layout, was, area) \in D
<1> DEFINE Turn(T, i) == UpdateCard(T, id, i, layout, was, area)
           ids == [i \in Instances |-> i]
           n == Len(ids)
           F == [k \in 1..n |-> [T \in D |-> Turn(T, ids[k])]]
           Eq(f) == f = [k \in 0..n |-> IF k = 0 THEN S ELSE Turn(f[k - 1], ids[k])]
           run == CHOOSE f : Eq(f)
           E == Turns(S, id, layout, was, area)
<1>1. n \in Nat /\ \A k \in 1..n : ids[k] \in Instances
  <2>1. Instances = 1..Len(Surfaces) /\ Len(Surfaces) \in Nat
    BY SurfacesAre
  <2>2. ids \in Seq(Nat) /\ n = Len(Surfaces) /\ \A k \in Instances : ids[k] = k
    BY <2>1
  <2> HIDE DEF ids, n
  <2>3. QED BY <2>1, <2>2
<1>2. \A T \in D, i \in Instances : Turn(T, i) \in D
  OBVIOUS
<1>3. E = run[n]
  BY DEF Turns, Each
<1> HIDE DEF Turn, ids, E
<1>4. F \in [1..n -> [D -> D]]
  BY <1>1, <1>2
<1>5. PICK g \in [0..n -> D] : g[0] = S /\ \A k \in 1..n : g[k] = F[k][g[k - 1]]
  <2> HIDE DEF F, n, Eq
  <2>1. S \in D /\ F \in [1..n -> [D -> D]] /\ n \in Nat
    BY <1>1, <1>4
  <2>2. QED BY ONLY <2>1, RunExists
<1>6. Eq(g)
  <2>1. \A k \in 1..n : k - 1 \in 0..n /\ g[k - 1] \in D
    <3> HIDE DEF F, n
    <3>1. QED BY <1>1, <1>5
  <2>2. \A k \in 1..n : g[k] = Turn(g[k - 1], ids[k])
    BY <1>5, <2>1
  <2>3. \A k \in 0..n : k = 0 \/ k \in 1..n
    BY <1>1
  <2> HIDE DEF F, n
  <2>4. \A k \in 0..n : g[k] = IF k = 0 THEN S ELSE Turn(g[k - 1], ids[k])
    BY <1>5, <2>2, <2>3
  <2>5. QED BY <1>5, <2>4
<1>7. Eq(run)
  <2> HIDE DEF Eq
  <2>1. QED BY <1>6
<1> HIDE DEF run, F, n
<1>8. run = [k \in 0..n |-> IF k = 0 THEN S ELSE Turn(run[k - 1], ids[k])]
  BY <1>7
<1> HIDE DEF Eq
<1>9. run[0] = S /\ \A k \in 1..n : run[k] = Turn(run[k - 1], ids[k])
  <2>1. \A k \in 0..n : run[k] = IF k = 0 THEN S ELSE Turn(run[k - 1], ids[k])
    BY <1>8
  <2>2. 0 \in 0..n /\ \A k \in 1..n : k \in 0..n /\ k # 0
    BY <1>1
  <2>3. QED BY <2>1, <2>2
<1>10. \A k \in 0..n : run[k] \in D
  <2>1. \A k \in 1..n : run[k - 1] \in D => run[k] \in D
    BY <1>1, <1>2, <1>9
  <2>2. run[0] \in D
    BY <1>9
  <2>3. QED BY <1>1, <2>1, <2>2, RunStays
<1>11. E \in D
  BY <1>1, <1>3, <1>10
<1>12. QED BY <1>11 DEF E

\* The store's expiry of a popup that has strayed is stopped after the turns.
LEMMA PausedTurnKeeps ==
  ASSUME NEW F, NEW S, NEW X, NEW Y, NEW W, NEW id \in Y, Turning(F, S, X, Y, W, id)
  PROVE  Turning(F, Pause(S, id), X, Y, W, id)
<1> DEFINE none == {}
           T == Pause(S, id)
<1>1. /\ Whole(S, X, Y, W) /\ PointerFits(S, Y) /\ id \in Open(S)
      /\ S.pending = F.pending /\ S.order = F.order /\ S.scenes = F.scenes /\ S.pointer.on = F.pointer.on
      /\ \A x \in Ids : S.notes[x].life = F.notes[x].life
      /\ Roomless(F) => Roomless(S)
  BY DEF Turning
<1>2. /\ S \in Space /\ Lives(S, W) /\ CallsKnown(S) /\ Layout(S) /\ CardsAt(S, X) /\ Hovers(S, none)
      /\ Expiries(S, Y) /\ id \in Ids /\ id \in Entered(S)
  BY <1>1, SpaceIs DEF Whole
<1> HIDE DEF T, none
<1>3. Retimed(S, T, id) /\ T.cards = S.cards
  BY <1>2, PauseIs DEF T
<1>4. /\ Restacked(S, T, {}) /\ Open(T) = Open(S) /\ Lives(T, W) /\ CallsKnown(T) /\ Layout(T)
      /\ CardsAt(T, X)
  BY <1>2, <1>3, RetimedKeeps
<1>5. Hovers(T, none)
  BY <1>2, <1>3, RetimedKeeps
<1>6. Expiries(T, Y)
  <2>1. Y \cup {id} = Y
    OBVIOUS
  <2>2. Expiries(S, Y \cup {id}) /\ id \notin Open(S) \ Y
    BY <1>2, <2>1
  <2>3. QED BY <1>2, <1>3, <2>2, RetimedExpiries
<1>7. /\ T \in Space /\ T.pending = S.pending /\ T.order = S.order /\ T.scenes = S.scenes
      /\ T.pointer = S.pointer /\ T.popups = S.popups
      /\ \A x \in Ids : T.notes[x].life = S.notes[x].life
  BY <1>3 DEF Retimed
<1>8. Whole(T, X, Y, W)
  BY <1>4, <1>5, <1>6, <1>7 DEF Whole, none
<1>9. PointerFits(T, Y)
  BY <1>1, <1>2, <1>3, <1>7, PointerStays
<1>10. Roomless(S) => Roomless(T)
  BY <1>2, <1>4, <1>7, RoomlessStays
<1>11. QED BY <1>1, <1>4, <1>7, <1>8, <1>9, <1>10 DEF Turning, T

\* What is known of the popup that is replaced, when the cards of those in X are in the way.
Replaceable(S, X, Y, W, id, layout, area) ==
  /\ S \in Space /\ Lives(S, W) /\ CallsKnown(S) /\ LayoutBut(S, id) /\ CardsAt(S, {id}) /\ Hovers(S, {})
  /\ Expiries(S, Y) /\ PointerFits(S, Y) /\ (id \notin Y => S.popups[id].hovered = FALSE)
  /\ Turnable(X, Y, id, layout, area) /\ (X = {} => Layout(S) /\ CardsAt(S, {}))

\* What the loop over the outputs leaves.
RedoneLeaves(S, T, X, Y, W, id) ==
  /\ Whole(T, X, Y, W) /\ PointerFits(T, Y) /\ id \in Open(T) /\ (id \notin Y => ~T.popups[id].hovered)
  /\ T.pending = S.pending /\ T.order = S.order /\ T.scenes = S.scenes /\ T.pointer.on = S.pointer.on
  /\ \A x \in Ids : T.notes[x].life = S.notes[x].life
  /\ X = {} /\ Roomless(S) => Roomless(T)

\* A popup with new contents has found its place, or waits: the turns of the outputs can begin.
LEMMA FittedTurns ==
  ASSUME NEW S, NEW X, NEW Y, NEW W, NEW id \in Open(S), NEW layout, NEW area,
         Replaceable(S, X, Y, W, id, layout, area)
  PROVE  LET T == Fitted(S, id)
         IN Turning(T, T, X, Y, W, id) /\ RedoneLeaves(S, T, X, Y, W, id)
<1> DEFINE T == Fitted(S, id)
<1>1. /\ S \in Space /\ Lives(S, W) /\ CallsKnown(S) /\ LayoutBut(S, id) /\ CardsAt(S, {id}) /\ Hovers(S, {})
      /\ Expiries(S, Y) /\ PointerFits(S, Y) /\ (id \notin Y => S.popups[id].hovered = FALSE)
      /\ (X = {} \/ X = {id}) /\ (X = {} => Layout(S) /\ CardsAt(S, {}))
  BY DEF Replaceable, Turnable
<1>2. id \in Ids
  BY <1>1, SpaceIs
<1>3. ASSUME RedoneLeaves(S, T, X, Y, W, id) PROVE Turning(T, T, X, Y, W, id)
  <2> HIDE DEF T
  <2>1. QED BY <1>3 DEF Turning, RedoneLeaves
<1>4. CASE X = {}
  <2>1. id \in Placed(S) => CanKeepPlacement(S, id)
    BY <1>1, <1>4 DEF Layout, CanKeepPlacement
  <2>2. T = S
    BY <2>1 DEF Fitted
  <2>3. Whole(S, X, Y, W)
    BY <1>1, <1>4 DEF Whole
  <2>4. RedoneLeaves(S, S, X, Y, W, id)
    BY <1>1, <2>3 DEF RedoneLeaves
  <2>5. QED BY <1>3, <2>2, <2>4
<1>5. CASE X = {id}
  <2>1. /\ T \in Space /\ Lives(T, W) /\ CallsKnown(T) /\ Layout(T) /\ CardsAt(T, {id})
        /\ Expiries(T, Y) /\ T.order = S.order /\ T.cards = S.cards /\ T.pointer = S.pointer
        /\ T.scenes = S.scenes /\ T.pending = S.pending /\ Hovers(T, {})
        /\ \A x \in Ids : T.notes[x].life = S.notes[x].life /\ T.popups[x].owners = S.popups[x].owners
        /\ T.popups[id].exiting = S.popups[id].exiting /\ T.popups[id].hovered = S.popups[id].hovered
    BY <1>1, FittedKeeps
  <2> HIDE DEF T
  <2>2. Whole(T, X, Y, W)
    BY <1>5, <2>1 DEF Whole
  <2>3. PointerFits(T, Y)
    BY <1>1, <2>1, PointerStays
  <2>4. id \in Open(T)
    BY <2>1 DEF Open, Entered
  <2>5. X # {}
    BY <1>5
  <2>6. RedoneLeaves(S, T, X, Y, W, id)
    BY <1>1, <2>1, <2>2, <2>3, <2>4, <2>5 DEF RedoneLeaves
  <2>7. QED BY <1>3, <2>6 DEF T
<1>6. QED BY <1>1, <1>4, <1>5

\* A popup with new contents, up to the end of the loop over the outputs.
LEMMA RedoneKeeps ==
  ASSUME NEW S, NEW X, NEW Y, NEW W, NEW id \in Open(S), NEW layout, NEW area,
         Replaceable(S, X, Y, W, id, layout, area)
  PROVE  RedoneLeaves(S, Redone(S, id, layout, area), X, Y, W, id)
<1> DEFINE was == S.popups[id]
           F == Fitted(S, id)
           R == Turns(F, id, layout, was, area)
           P == IF was.hovered THEN Pause(R, id) ELSE R
           D == {T \in Space : Turning(F, T, X, Y, W, id)}
<1>1. Redone(S, id, layout, area) = P
  BY DEF Redone, Fitted, Turns
<1>2. Turning(F, F, X, Y, W, id) /\ RedoneLeaves(S, F, X, Y, W, id)
  BY FittedTurns
<1>3. Turnable(X, Y, id, layout, area) /\ (id \notin Y => was.hovered = FALSE) /\ was.hovered \in BOOLEAN
  BY SpaceIs, PopupIs DEF Replaceable
<1> HIDE DEF F, was
<1>4. \A T : Turning(F, T, X, Y, W, id) => T \in Space
  BY DEF Turning, Whole
<1>5. ASSUME NEW i \in Instances, NEW T \in D PROVE UpdateCard(T, id, i, layout, was, area) \in D
  <2>1. Turning(F, T, X, Y, W, id)
    OBVIOUS
  <2>2. Turning(F, UpdateCard(T, id, i, layout, was, area), X, Y, W, id)
    BY <1>3, <2>1, TurnKeeps
  <2>3. QED BY <1>4, <2>2
<1>6. R \in D
  <2>1. F \in D
    BY <1>2, <1>4
  <2> HIDE DEF D
  <2>2. QED BY <1>5, <2>1, TurnLoop
<1> HIDE DEF R
<1>7. Turning(F, R, X, Y, W, id)
  BY <1>6
<1>8. Turning(F, P, X, Y, W, id)
  <2>1. CASE was.hovered = FALSE
    BY <1>7, <2>1
  <2>2. CASE was.hovered = TRUE
    <3>1. id \in Y
      BY <1>3, <2>2
    <3>2. Turning(F, Pause(R, id), X, Y, W, id)
      BY <1>7, <3>1, PausedTurnKeeps
    <3>3. QED BY <2>2, <3>2
  <2>3. QED BY <1>3, <2>1, <2>2
<1> HIDE DEF P, D
<1>9. RedoneLeaves(S, P, X, Y, W, id)
  BY <1>2, <1>8 DEF RedoneLeaves, Turning
<1>10. QED BY <1>1, <1>9

\* A pointer that is on what is there stays there.
LEMMA FitsMoves ==
  ASSUME NEW S, NEW T \in Space, NEW Y, PointerFits(T, Y)
  PROVE  Movable(S, T, {}, Y)
<1> DEFINE a == T.pointer.area
           i == T.pointer.on
<1>1. /\ i \in {0} \cup T.scenes /\ (i = 0 => T.pointer = Away) /\ (i # 0 => a \in Areas(T, i))
      /\ a.follows /\ a.id \notin Y => T.popups[a.id].owners = 1
  BY DEF PointerFits
<1>2. ASSUME i # 0 PROVE a.id \notin Vanished(S, T, {})
  <2>1. a = NoArea \/ T.cards[i][a.id] # NoCard
    BY <1>1, <1>2, AreaIs
  <2>2. a.id \in Ids => a # NoArea
    BY ToastAssumption DEF NoArea
  <2>3. QED BY <2>1, <2>2 DEF Vanished
<1>3. QED BY <1>1, <1>2 DEF Movable

\* What an update leaves once its popup's cards have followed its place, and those that wait have
\* looked again.
SyncLeaves(S, T, Y, W, id, gone) ==
  /\ Good(T, {}, Y, W) /\ Roomless(T) /\ T.order = S.order /\ T.pending = S.pending
  /\ \A x \in Ids : T.notes[x].life = S.notes[x].life
  /\ \A R : Movable(R, T, IF gone THEN {id} ELSE {}, Y)

\* The cards of a popup with new contents follow its place, and those that wait look again.
LEMMA SyncTurnKeeps ==
  ASSUME NEW S, NEW Y, NEW W, NEW id \in Open(S), Whole(S, {id}, Y, W), PointerFits(S, Y),
         id \notin Y => ~S.popups[id].hovered
  PROVE  LET Q == SyncEntryVisibility(S, id)
             i == S.pointer.on
             gone == i # 0 /\ S.cards[i][id] # NoCard /\ Q.cards[i][id] # S.cards[i][id]
         IN SyncLeaves(S, RevealQueuedEntries(Q), Y, W, id, gone)
<1> DEFINE none == {}
           Q == SyncEntryVisibility(S, id)
           T == RevealQueuedEntries(Q)
           i == S.pointer.on
           a == S.pointer.area
           gone == i # 0 /\ S.cards[i][id] # NoCard /\ Q.cards[i][id] # S.cards[i][id]
           rebuilt == IF gone THEN {id} ELSE {}
<1>1. /\ S \in Space /\ id \in Ids /\ Hovers(S, {}) /\ S.scenes \subseteq Instances
      /\ i \in {0} \cup S.scenes /\ (i = 0 => S.pointer = Away) /\ (i # 0 => a \in Areas(S, i))
      /\ a.follows /\ a.id \notin Y => S.popups[a.id].owners = 1
  BY SpaceIs DEF Whole, PointerFits
<1> HIDE DEF Q, T
<1>2. /\ Good(Q, none, Y, W) /\ Onward(S, Q, {id}, {id})
      /\ Q.order = S.order /\ Q.scenes = S.scenes /\ Q.pointer = S.pointer
      /\ \A j \in Instances : S.cards[j][id] # NoCard /\ Q.cards[j][id] # S.cards[j][id] => Q.popups[id].owners = 0
  BY SyncNew DEF Q
<1> HIDE DEF none
<1>3. Good(T, none, Y, W) /\ Restacked(Q, T, none) /\ Roomless(T) /\ Q \in Space
  BY <1>2, RevealAllKeeps, GoodIs DEF T
<1>4. /\ T.order = S.order /\ T.pending = S.pending /\ T.scenes = S.scenes /\ T.pointer = S.pointer
      /\ \A x \in Ids : T.notes[x].life = S.notes[x].life
      /\ \A x \in Ids : T.popups[x].owners = Q.popups[x].owners
      /\ \A x \in Ids : x # id => T.popups[x].owners = S.popups[x].owners
  BY <1>2, <1>3 DEF Restacked, Onward
<1>5. \A j \in Instances, x \in Ids : Q.cards[j][x] # NoCard =>
        T.cards[j][x] # NoCard /\ T.cards[j][x].hooked = Q.cards[j][x].hooked
  BY <1>3 DEF Restacked, none
<1>6. \A j \in Instances, x \in Ids : x # id /\ S.cards[j][x] # NoCard =>
        Q.cards[j][x] # NoCard /\ Q.cards[j][x].hooked = S.cards[j][x].hooked
  BY <1>2 DEF Onward
<1>7. ASSUME NEW R, i # 0
      PROVE  IF a.id \in Vanished(R, T, rebuilt) THEN T.popups[a.id].owners = 0
             ELSE a \in Areas(T, i) /\ (a.follows /\ a.id \notin Y => T.popups[a.id].owners = 1)
  <2>1. i \in Instances /\ a \in Areas(S, i)
    BY <1>1, <1>7
  <2>2. a = NoArea \/ (a.id \in Ids /\ S.cards[i][a.id] # NoCard /\ (S.cards[i][a.id].hooked => a.follows)
                         /\ a \in [id : Ids, follows : BOOLEAN])
    BY <2>1 DEF Areas
  <2>3. T.pointer.on = i /\ rebuilt \subseteq {id}
    BY <1>4
  <2>4. CASE a = NoArea
    <3>1. a.id \notin Ids /\ ~a.follows
      BY <2>4, ToastAssumption DEF NoArea
    <3>2. a.id \notin Vanished(R, T, rebuilt)
      BY <1>1, <2>3, <3>1 DEF Vanished
    <3>3. a \in Areas(T, i)
      BY <2>4 DEF Areas
    <3>4. QED BY <3>1, <3>2, <3>3
  <2>5. ASSUME a # NoArea, T.cards[i][a.id] # NoCard, T.cards[i][a.id].hooked = S.cards[i][a.id].hooked
        PROVE  a \in Areas(T, i)
    BY <2>2, <2>5 DEF Areas
  <2>6. CASE a # NoArea /\ a.id # id
    <3>1. T.cards[i][a.id] # NoCard /\ T.cards[i][a.id].hooked = S.cards[i][a.id].hooked
      BY <1>5, <1>6, <2>1, <2>2, <2>6
    <3>2. a.id \notin Vanished(R, T, rebuilt)
      BY <2>3, <2>6, <3>1 DEF Vanished
    <3>3. a.follows /\ a.id \notin Y => T.popups[a.id].owners = 1
      BY <1>1, <1>4, <2>2, <2>6
    <3>4. QED BY <2>5, <2>6, <3>1, <3>2, <3>3
  <2>7. CASE a # NoArea /\ a.id = id /\ gone
    <3>1. a.id \in Vanished(R, T, rebuilt)
      BY <2>7 DEF Vanished
    <3>2. T.popups[id].owners = 0
      BY <1>1, <1>2, <1>4, <2>1, <2>7
    <3>3. QED BY <2>7, <3>1, <3>2
  <2>8. CASE a # NoArea /\ a.id = id /\ ~gone
    <3>1. Q.cards[i][id] = S.cards[i][id] /\ S.cards[i][id] # NoCard
      BY <1>7, <2>2, <2>8
    <3>2. T.cards[i][a.id] # NoCard /\ T.cards[i][a.id].hooked = S.cards[i][a.id].hooked
      BY <1>1, <1>5, <2>1, <2>8, <3>1
    <3>3. a.id \notin Vanished(R, T, rebuilt)
      BY <2>3, <2>8, <3>2 DEF Vanished
    <3>4. a.follows => a.id \in Y
      <4> SUFFICES ASSUME a.follows, a.id \notin Y PROVE FALSE
        OBVIOUS
      <4>1. S.popups[id].owners = 1
        BY <1>1, <2>8
      <4>2. S.popups[id].owners > 0 => S.popups[id].hovered
        BY <1>1 DEF Hovers
      <4>3. QED BY <2>8, <4>1, <4>2
    <3>5. QED BY <2>5, <2>8, <3>2, <3>3, <3>4
  <2>9. QED BY <2>4, <2>6, <2>7, <2>8
<1>8. rebuilt \subseteq Ids
  BY <1>1
<1> HIDE DEF rebuilt
<1>9. \A R : Movable(R, T, rebuilt, Y)
  BY <1>1, <1>4, <1>7, <1>8 DEF Movable
<1>10. SyncLeaves(S, T, Y, W, id, gone)
  BY <1>3, <1>4, <1>9 DEF SyncLeaves, none, rebuilt
<1>11. QED BY <1>10 DEF T, Q

\* A popup that is open is that of a live notification, whoever waits.
LEMMA OpenAreLive ==
  ASSUME NEW S \in Space, NEW W, Lives(S, W), W \cap Entered(S) = {}
  PROVE  Open(S) = {x \in Entered(S) : S.notes[x].life = "live"}
BY SpaceIs DEF Lives

\* What an update leaves, once the loop over the outputs is done.
LEMMA UpdatedKeeps ==
  ASSUME NEW S \in Space, NEW X, NEW Y, NEW id \in Open(S), NEW P, NEW resized \in BOOLEAN,
         X = IF resized THEN {id} ELSE {}, RedoneLeaves(S, P, X, Y, ToSet(S.pending), id),
         Lives(S, ToSet(S.pending)), ToSet(S.pending) \cap Entered(S) = {},
         ~resized => Roomless(S) \/ Entered(S) # Open(S),
         NEW V \in Updated(S, P, id, resized)
  PROVE  Good(V, {}, Y, ToSet(V.pending)) /\ Settled(V, Y)
<1> DEFINE W == ToSet(S.pending)
           Q == SyncEntryVisibility(P, id)
           T == RevealQueuedEntries(Q)
           i == P.pointer.on
           gone == i # 0 /\ P.cards[i][id] # NoCard /\ Q.cards[i][id] # P.cards[i][id]
<1>1. /\ Whole(P, X, Y, W) /\ PointerFits(P, Y) /\ id \in Open(P) /\ (id \notin Y => ~P.popups[id].hovered)
      /\ P.pending = S.pending /\ P.order = S.order
      /\ \A x \in Ids : P.notes[x].life = S.notes[x].life
      /\ X = {} /\ Roomless(S) => Roomless(P)
  BY DEF RedoneLeaves
<1>2. V \in IF id \in Placed(P) /\ ~resized THEN Motion(S, P, {}) ELSE Motion(S, T, IF gone THEN {id} ELSE {})
  BY DEF Updated
<1> HIDE DEF W, Q, T, gone
<1>3. Entered(P) = Entered(S) /\ Entered(S) \subseteq Ids /\ P \in Space /\ Lives(P, W) /\ CardsAt(P, X)
  BY <1>1, SpaceIs DEF Entered, Whole
<1>4. CASE id \in Placed(P) /\ ~resized
  <2>1. V \in Motion(S, P, {}) /\ X = {}
    BY <1>2, <1>4
  <2>2. Good(P, {}, Y, W)
    BY <1>1, <2>1, WholeIs
  <2>3. Movable(S, P, {}, Y)
    BY <1>1, <1>3, FitsMoves
  <2>4. Open(P) = Open(S)
    <3>1. Open(P) = {x \in Entered(S) : P.notes[x].life = "live"}
      BY <1>3, OpenAreLive DEF W
    <3>2. Open(S) = {x \in Entered(S) : S.notes[x].life = "live"}
      BY OpenAreLive
    <3>3. QED BY <1>1, <1>3, <3>1, <3>2
  <2>5. Roomless(P) \/ Entered(P) # Open(P)
    BY <1>1, <1>3, <1>4, <2>1, <2>4
  <2>6. Good(P, {}, Y, ToSet(P.pending)) /\ ToSet(P.pending) \cap Entered(P) = {}
    BY <1>1, <1>3, <2>2 DEF W
  <2>7. QED BY <2>1, <2>3, <2>5, <2>6, MotionEnds
<1>5. CASE ~(id \in Placed(P) /\ ~resized)
  <2> DEFINE rebuilt == IF gone THEN {id} ELSE {}
  <2>1. V \in Motion(S, T, rebuilt)
    BY <1>2, <1>5
  <2>2. Whole(P, {id}, Y, W)
    <3>1. CASE X = {id}
      BY <1>1, <3>1
    <3>2. CASE X = {}
      <4>1. CardsAt(P, {id})
        BY <1>3, <3>2 DEF CardsAt
      <4>2. QED BY <1>1, <4>1 DEF Whole
    <3>3. QED BY <3>1, <3>2
  <2>3. SyncLeaves(P, T, Y, W, id, gone)
    BY <1>1, <2>2, SyncTurnKeeps DEF T, Q, gone
  <2>4. /\ Good(T, {}, Y, W) /\ Roomless(T) /\ T.order = P.order /\ T.pending = P.pending
        /\ Movable(S, T, rebuilt, Y)
    BY <2>3 DEF SyncLeaves
  <2> HIDE DEF rebuilt
  <2>5. Good(T, {}, Y, ToSet(T.pending)) /\ ToSet(T.pending) \cap Entered(T) = {}
    BY <1>1, <2>4 DEF W, Entered
  <2>6. QED BY <2>1, <2>4, <2>5, MotionEnds
<1>6. QED BY <1>4, <1>5

\* With more popups that have strayed, less is asked.
LEMMA MoreAstray ==
  ASSUME NEW S, NEW Y, NEW Y2, NEW W, Y \subseteq Y2
  PROVE  /\ Good(S, {}, Y, W) => Good(S, {}, Y2, W)
         /\ PointerFits(S, Y) => PointerFits(S, Y2)
<1>1. Expiries(S, Y) => Expiries(S, Y2)
  BY DEF Expiries
<1>2. Good(S, {}, Y, W) => Good(S, {}, Y2, W)
  BY <1>1 DEF Good
<1>3. PointerFits(S, Y) => PointerFits(S, Y2)
  BY DEF PointerFits
<1>4. QED BY <1>2, <1>3

\* A popup is told of its new contents.
LEMMA ToldKeeps ==
  ASSUME IInv, NEW S, NEW Y, NEW id \in Open(State), NEW text \in BOOLEAN, NEW resized \in BOOLEAN, NEW area,
         resized = TRUE => text = TRUE, text = TRUE /\ area = [id |-> id, follows |-> TRUE] => id \in Y,
         Renoted(State, S, id), S.pending = State.pending,
         S.notes[id].life = "live", S.notes[id].height # 0,
         resized = FALSE => S.notes[id].height = State.notes[id].height,
         strayed \subseteq Y, Y \subseteq Ids, Follows(State, S, Y, id),
         NEW V \in Updated(S, Redone(S, id, text, area), id, resized)
  PROVE  Good(V, {}, Y, ToSet(V.pending)) /\ Settled(V, Y)
<1> DEFINE W == ToSet(State.pending)
           X == IF resized THEN {id} ELSE {}
           P == Redone(S, id, text, area)
<1>1. /\ Good(State, {}, strayed, W) /\ State \in Space /\ Lives(State, W)
      /\ W \cap Entered(State) = {} /\ PointerFits(State, strayed) /\ (Roomless(State) \/ Entered(State) # Open(State))
  BY IInvIs
<1>2. S.popups = State.popups
  BY DEF Renoted
<1> HIDE DEF W
<1>3. /\ S \in Space /\ Lives(S, W) /\ CallsKnown(S) /\ Hovers(S, {}) /\ Expiries(S, Y)
      /\ LayoutBut(S, id) /\ CardsAt(S, {id})
      /\ Entered(S) = Entered(State) /\ Open(S) = Open(State) /\ PointerFits(S, Y)
      /\ resized = FALSE => Layout(S) /\ CardsAt(S, {}) /\ (Roomless(State) => Roomless(S))
  <2>1. ContentsLeave(State, S, Y, W, id)
    BY <1>1, ReplacedKeeps
  <2>2. PointerFits(State, Y)
    BY <1>1, MoreAstray
  <2>3. QED BY <2>1, <2>2 DEF ContentsLeave
<1>4. (X = {id} /\ text = TRUE /\ resized = TRUE) \/ (X = {} /\ resized = FALSE)
  OBVIOUS
<1>5. X = IF resized THEN {id} ELSE {}
  OBVIOUS
<1> HIDE DEF X, P
<1>6. id \notin Y => S.popups[id].hovered = FALSE
  BY <1>2 DEF Follows
<1>7. Turnable(X, Y, id, text, area)
  BY <1>4 DEF Turnable
<1>8. X = {} => Layout(S) /\ CardsAt(S, {})
  BY <1>3, <1>4
<1>9. Replaceable(S, X, Y, W, id, text, area)
  BY <1>3, <1>6, <1>7, <1>8 DEF Replaceable
<1>10. RedoneLeaves(S, P, X, Y, ToSet(S.pending), id)
  <2>1. RedoneLeaves(S, P, X, Y, W, id)
    BY <1>3, <1>9, RedoneKeeps DEF P
  <2>2. QED BY <2>1 DEF W
<1>11. V \in Updated(S, P, id, resized) /\ id \in Open(S)
  BY <1>3 DEF P
<1>12. Lives(S, ToSet(S.pending)) /\ ToSet(S.pending) \cap Entered(S) = {}
  BY <1>1, <1>3 DEF W
<1>13. ~resized => Roomless(S) \/ Entered(S) # Open(S)
  BY <1>1, <1>3
<1>14. QED BY <1>3, <1>5, <1>10, <1>11, <1>12, <1>13, UpdatedKeeps

\* Its client replaces a notification.
LEMMA ReplaceKeeps ==
  ASSUME IInv, NEW id \in Ids, Replace(id)
  PROVE  IInv' /\ updates' # updates
<1>1. PICK c \in Contents, text \in BOOLEAN, shown \in BOOLEAN, area \in {NoArea} \cup [id : Ids, follows : BOOLEAN] :
        LET resized == c.height # notes[id].height
            retimed == c.timed # notes[id].timed
            told == shown /\ (text \/ retimed)
            S == IF told
                 THEN [State EXCEPT !.notes[id] = [life |-> "live", timed |-> c.timed, height |-> c.height,
                                                   expiring |-> c.timed]]
                 ELSE [State EXCEPT !.notes[id].expiring = c.timed]
            popup == In(S, id) /\ id \notin ToSet(pending)
            P == Redone(S, id, text, area)
        IN /\ resized => text
           /\ IF told /\ popup THEN \E T \in Updated(S, P, id, resized) : Becomes(T) ELSE Becomes(S)
           /\ updates' = updates + 1
           /\ strayed' = strayed \cup
                IF \/ popup /\ (popups[id].at = Queued \/ popups[id].hovered \/ retimed)
                   \/ popup /\ shown /\ text /\ area = [id |-> id, follows |-> TRUE]
                   \/ ~told /\ retimed
                THEN {id} ELSE {}
           /\ UNCHANGED rebuilds
  BY Zenon DEF Replace
<1>2. State.notes[id].life = "live" /\ updates < MaxUpdates /\ notes = State.notes /\ popups = State.popups
      /\ pending = State.pending
  BY StateIs DEF Replace
<1> DEFINE W == ToSet(State.pending)
           retimed == c.timed # State.notes[id].timed
           told == shown /\ (text \/ retimed)
           new == [life |-> "live", timed |-> c.timed, height |-> c.height, expiring |-> c.timed]
           old == [State.notes[id] EXCEPT !.expiring = c.timed]
           v == IF told THEN new ELSE old
           S == Noted(State, id, v, State.pending)
           resized == c.height # State.notes[id].height
           wandered == State.popups[id].at = Queued \/ State.popups[id].hovered \/ retimed
           found == shown /\ text /\ area = [id |-> id, follows |-> TRUE]
           popup == id \in Entered(State) /\ id \notin W
<1>3. /\ Good(State, {}, strayed, W) /\ State \in Space /\ Lives(State, W) /\ W \cap Entered(State) = {}
      /\ PointerFits(State, strayed) /\ (Roomless(State) \/ Entered(State) # Open(State))
      /\ updates \in 0..MaxUpdates /\ rebuilds \in 0..MaxRebuilds /\ strayed \subseteq Ids
  BY IInvIs
<1>4. State.notes \in [Ids -> Note] /\ State.pending \in Seq(Ids) /\ State.notes[id] \in Note
  BY <1>3, SpaceIs
<1>5. (IF told THEN [State EXCEPT !.notes[id] = new] ELSE [State EXCEPT !.notes[id].expiring = c.timed]) = S
  <2>1. [State EXCEPT !.notes[id] = new] = Noted(State, id, new, State.pending)
    BY <1>3 DEF Space, Noted
  <2>2. [State EXCEPT !.notes[id].expiring = c.timed] = Noted(State, id, old, State.pending)
    BY <1>3 DEF Space, Noted
  <2> HIDE DEF new, old, told
  <2>3. QED BY <2>1, <2>2
<1>6. /\ new \in Note /\ new.life = "live" /\ new.height # 0 /\ new.expiring = new.timed /\ new.timed = c.timed
      /\ new.height = c.height
  BY ContentsAre DEF Note
<1>7. /\ old \in Note /\ old.life = "live" /\ old.height # 0 /\ old.expiring = c.timed
      /\ old.timed = State.notes[id].timed /\ old.height = State.notes[id].height
  <2>1. State.notes[id].height # 0
    BY <1>2, <1>3 DEF Lives
  <2>2. c.timed \in BOOLEAN
    BY ContentsAre
  <2>3. QED BY <1>2, <1>4, <2>1, <2>2 DEF Note
<1>8. updates' # updates /\ updates' \in 0..MaxUpdates /\ rebuilds' \in 0..MaxRebuilds
  <2>1. updates' = updates + 1 /\ rebuilds' = rebuilds
    BY <1>1
  <2>2. QED BY <1>2, <1>3, <2>1, ToastAssumption
<1> HIDE DEF new, old, W
<1>9. /\ v \in Note /\ v.life = "live" /\ v.height # 0 /\ (told => v.height = c.height)
      /\ ~told => v.height = State.notes[id].height
      /\ (retimed /\ ~told) \/ v.expiring = v.timed
      /\ retimed \/ v.timed = State.notes[id].timed
  BY <1>6, <1>7
<1>10. Renoted(State, S, id) /\ S.notes[id] = v /\ S.pending = State.pending
  BY <1>3, <1>4, <1>9, NotedIs
<1>11. In(S, id) <=> id \in Entered(State)
  BY <1>10 DEF Renoted, In, Entered
<1>12. /\ resized => text
       /\ IF told /\ popup THEN \E T \in Updated(S, Redone(S, id, text, area), id, resized) : Becomes(T)
          ELSE Becomes(S)
       /\ strayed' = strayed \cup IF (popup /\ wandered) \/ (popup /\ found) \/ (~told /\ retimed) THEN {id} ELSE {}
  BY <1>1, <1>2, <1>5, <1>11 DEF W, new
<1> DEFINE Y == strayed'
<1>13. Y \subseteq Ids /\ strayed \subseteq Y
  BY <1>3, <1>12
<1>14. Good(State, {}, Y, W) /\ PointerFits(State, Y)
  BY <1>3, <1>13, MoreAstray
<1> HIDE DEF S, v
<1>15. CASE ~popup
  <2>1. Becomes(S) /\ id \notin Entered(State)
    BY <1>3, <1>12, <1>15
  <2>2. S.notes[id].life = "live" <=> id \in W
    BY <1>2, <1>3, <1>9, <1>10, <2>1, SpaceIs DEF Lives
  <2>3. /\ State.notes[id].life # "closed" /\ S.notes[id].height # 0
        /\ id \in Y \/ S.notes[id].expiring = S.notes[id].timed
    BY <1>2, <1>9, <1>10, <1>12
  <2> HIDE DEF Y
  <2>4. /\ Good(S, {}, Y, W) /\ Entered(S) = Entered(State) /\ Open(S) = Open(State)
        /\ Roomless(State) => Roomless(S)
        /\ PointerFits(State, Y) => PointerFits(S, Y)
    BY <1>10, <1>14, <2>1, <2>2, <2>3, NoteKeeps
  <2>5. Settled(S, Y) /\ Good(S, {}, Y, ToSet(S.pending))
    BY <1>3, <1>10, <1>14, <2>4 DEF Settled, W
  <2>6. IInv'
    BY <1>8, <1>13, <2>1, <2>5, BecomesKeeps DEF Y
  <2>7. QED BY <1>8, <2>6
<1>16. CASE popup
  <2>1. id \in Open(State) /\ id \notin W
    BY <1>2, <1>3, <1>16, OpenAreLive
  <2>2. Follows(State, S, Y, id)
    <3> SUFFICES ASSUME id \notin Y
                 PROVE  /\ S.notes[id].timed = State.notes[id].timed /\ S.notes[id].expiring = S.notes[id].timed
                        /\ State.popups[id].at # Queued /\ State.popups[id].hovered = FALSE
      BY DEF Follows
    <3>1. ~wandered
      BY <1>12, <1>16
    <3>2. State.popups[id].hovered \in BOOLEAN
      BY <1>3, PopupIs
    <3>3. QED BY <1>9, <1>10, <3>1, <3>2
  <2>3. S.notes[id].life = "live" /\ S.notes[id].height # 0
    BY <1>9, <1>10
  <2>4. CASE told
    <3> DEFINE big == resized
    <3>1. big \in BOOLEAN /\ (big = TRUE => text = TRUE) /\ (big = FALSE => S.notes[id].height = State.notes[id].height)
      BY <1>9, <1>10, <1>12, <2>4
    <3>2. \E T \in Updated(S, Redone(S, id, text, area), id, big) : Becomes(T)
      BY <1>12, <1>16, <2>4
    <3>3. text = TRUE /\ area = [id |-> id, follows |-> TRUE] => id \in Y
      BY <1>12, <1>16, <2>4
    <3> HIDE DEF big, Y
    <3>4. PICK V \in Updated(S, Redone(S, id, text, area), id, big) : Becomes(V)
      BY <3>2
    <3>5. Good(V, {}, Y, ToSet(V.pending)) /\ Settled(V, Y)
      BY <1>10, <1>13, <2>1, <2>2, <2>3, <3>1, <3>3, ToldKeeps
    <3>6. IInv'
      BY <1>8, <1>13, <3>4, <3>5, BecomesKeeps DEF Y
    <3>7. QED BY <1>8, <3>6
  <2>5. CASE ~told
    <3>1. Becomes(S)
      BY <1>12, <2>5
    <3>2. S.notes[id].height = State.notes[id].height
      BY <1>9, <1>10, <2>5
    <3> HIDE DEF Y
    <3>3. /\ S \in Space /\ Lives(S, W) /\ CallsKnown(S) /\ Hovers(S, {}) /\ Expiries(S, Y)
          /\ Entered(S) = Entered(State) /\ Open(S) = Open(State) /\ PointerFits(S, Y)
          /\ Layout(S) /\ CardsAt(S, {}) /\ (Roomless(State) => Roomless(S))
      <4>1. ContentsLeave(State, S, Y, W, id)
        BY <1>3, <1>10, <1>13, <2>1, <2>2, <2>3, ReplacedKeeps
      <4>2. QED BY <1>14, <3>2, <4>1 DEF ContentsLeave
    <3>4. Good(S, {}, Y, W)
      BY <3>3 DEF Good
    <3>5. Settled(S, Y) /\ Good(S, {}, Y, ToSet(S.pending))
      BY <1>3, <1>10, <3>3, <3>4 DEF Settled, W
    <3>6. IInv'
      BY <1>8, <1>13, <3>1, <3>5, BecomesKeeps DEF Y
    <3>7. QED BY <1>8, <3>6
  <2>6. QED BY <2>4, <2>5
<1>17. QED BY <1>15, <1>16

(***************************** The theorems *****************************)

\* Nothing has arrived yet.
LEMMA InitKeeps ==
  ASSUME Init
  PROVE  IInv
<1>1. /\ State.notes = [id \in Ids |-> NoNote] /\ State.pending = <<>> /\ State.order = <<>>
      /\ State.popups = [id \in Ids |-> Blank] /\ State.scenes = {}
      /\ State.cards = [i \in Instances |-> [id \in Ids |-> NoCard]]
      /\ State.pointer = Away /\ State.deferred = <<>>
      /\ updates = 0 /\ rebuilds = 0 /\ strayed = {}
  BY StateIs DEF Init
<1>2. NoNote \in Note /\ Blank \in Popup /\ Away \in [on : {0} \cup Instances, area : [id : Ids \cup {NoId}, follows : BOOLEAN]]
  BY TallestIs DEF NoNote, Note, Blank, Popup, Queued, Away, NoArea
<1>3. State \in Space
  BY <1>1, <1>2 DEF Space, State
<1>4. Entered(State) = {} /\ Calls(State) = {} /\ ToSet(pending) = {} /\ ToSet(State.pending) = {}
  <2>1. State.order \in Seq(Ids) /\ State.deferred \in Seq(Closure) /\ State.pending \in Seq(Ids)
    BY <1>3, SpaceIs
  <2>2. ToSet(State.order) = {} /\ ToSet(State.deferred) = {} /\ ToSet(State.pending) = {}
    BY <1>1, <2>1, ToSetIs
  <2>3. QED BY <2>2, StateIs DEF Entered, Calls
<1>5. Open(State) = {} /\ Placed(State) = {}
  BY <1>4 DEF Open, Placed, Entered
<1>6. \A id \in Ids : State.notes[id].life = "new" /\ State.popups[id] = Blank /\ State.popups[id].owners = 0
  BY <1>1 DEF NoNote, Blank
<1>7. Lives(State, ToSet(pending)) /\ CallsKnown(State) /\ Layout(State)
  BY <1>4, <1>5, <1>6 DEF Lives, CallsKnown, Layout
<1>8. CardsAt(State, {}) /\ Hovers(State, {}) /\ Expiries(State, strayed)
  BY <1>1, <1>4, <1>5, <1>6 DEF CardsAt, Hovers, Asked, Expiries
<1>9. Settled(State, strayed)
  <2>1. Roomless(State)
    BY <1>5 DEF Roomless
  <2>2. PointerFits(State, strayed)
    BY <1>1 DEF PointerFits, Away, NoArea
  <2>3. QED BY <1>4, <2>1, <2>2 DEF Settled
<1>10. MaxUpdates \in Nat /\ MaxRebuilds \in Nat
  BY ToastAssumption
<1>11. QED BY <1>1, <1>3, <1>7, <1>8, <1>9, <1>10 DEF IInv, Good

\* Every action of the toasts, of the store and of the pointer keeps the invariant, and moves no
\* popup that is hovered before and after, unless it replaces a notification.
LEMMA StepKeeps ==
  ASSUME IInv, [Next]_vars
  PROVE  IInv' /\ (Steady(State, State') \/ updates' # updates)
<1>1. ASSUME NEW id \in Ids, Notify(id) \/ Replace(id) \/ Expire(id) \/ Close(id) \/ Fallback(id)
      PROVE  IInv' /\ (Steady(State, State') \/ updates' # updates)
  BY <1>1, NotifyKeeps, ReplaceKeeps, ExpireKeeps, CloseActionKeeps, FallbackKeeps
<1>2. ASSUME NEW i \in Instances, Build(i) \/ Point(i)
      PROVE  IInv' /\ Steady(State, State')
  BY <1>2, BuildKeeps, PointKeeps
<1>3. ASSUME NEW i \in Instances, NEW id \in Ids, CountdownEnds(i, id) \/ ExitEnds(i, id)
      PROVE  IInv' /\ Steady(State, State')
  BY <1>3, CountdownEndsKeeps, ExitEndsKeeps
<1>4. CASE Depart
  BY <1>4, DepartActionKeeps
<1>5. CASE RunDeferred
  BY <1>5, RunDeferredKeeps
<1>6. CASE UNCHANGED vars
  <2>1. State' = State /\ pending' = pending /\ strayed' = strayed /\ updates' = updates /\ rebuilds' = rebuilds
    BY <1>6 DEF vars, State
  <2>2. IInv'
    BY <2>1 DEF IInv
  <2>3. Steady(State, State')
    BY <2>1 DEF Steady
  <2>4. QED BY <2>2, <2>3
<1>7. QED BY <1>1, <1>2, <1>3, <1>4, <1>5, <1>6 DEF Next

\* What the invariant says of the stack.
LEMMA LaidOutFrom ==
  ASSUME IInv
  PROVE  StackIsLaidOut
<1>1. /\ State \in Space /\ Layout(State) /\ CardsAt(State, {})
      /\ Roomless(State) \/ Entered(State) # Open(State)
  BY IInvIs
<1>2. /\ Entries = Entered(State) /\ Shown = Open(State) /\ Entered(State) \subseteq Ids
      /\ Open(State) \subseteq Entered(State) /\ scenes \subseteq Instances /\ Placed(State) \subseteq Ids
  BY <1>1, StateIs, SpaceIs DEF Entries, Shown, Entered, Open
<1>3. NoOverlap
  BY <1>1 DEF Layout, NoOverlap
<1>4. SlotsAreUsed
  <2> SUFFICES ASSUME NEW id \in Shown, popups[id].at = Queued, FindPlacement(State, notes[id].height) # Queued
               PROVE  \E d \in Entries : popups[d].exiting
    BY DEF SlotsAreUsed
  <2>1. ~Roomless(State)
    BY <1>2, StateIs DEF Roomless
  <2>2. PICK d \in Entered(State) : d \notin Open(State)
    BY <1>1, <1>2, <2>1
  <2>3. QED BY <1>2, <2>2, StateIs DEF Open
<1>5. CardsShow
  <2> SUFFICES ASSUME NEW id \in Ids, NEW i \in scenes
               PROVE  /\ id \in Placed(State) /\ Surfaces[i] = Tallest => cards[i][id] # NoCard
                      /\ cards[i][id] # NoCard => id \in Entries /\ (popups[id].exiting \/ Shows(State, i, id))
    BY DEF CardsShow
  <2>1. id \in Placed(State) /\ Surfaces[i] = Tallest => cards[i][id] # NoCard
    BY <1>1, StateIs DEF CardsAt
  <2>2. cards[i][id] # NoCard => id \in Entries /\ (popups[id].exiting \/ Shows(State, i, id))
    BY <1>1, <1>2, StateIs DEF CardsAt
  <2>3. QED BY <2>1, <2>2
<1>6. QED BY <1>3, <1>4, <1>5 DEF StackIsLaidOut

\* What the invariant says of the popups and of the store.
LEMMA AgreeFrom ==
  ASSUME IInv
  PROVE  PopupAndNoteAgree
<1>1. /\ State \in Space /\ Lives(State, ToSet(State.pending)) /\ Hovers(State, {}) /\ Expiries(State, strayed)
      /\ PointerFits(State, strayed)
  BY IInvIs
<1>2. /\ Entries = Entered(State) /\ Shown = Open(State) /\ Entered(State) \subseteq Ids
      /\ Open(State) \subseteq Entered(State) /\ Open(State) \subseteq Ids
  BY <1>1, StateIs, SpaceIs DEF Entries, Shown, Entered, Open
<1>3. \A c : c \in Calls(State) <=> \E k \in DOMAIN deferred : deferred[k] = c
  BY StateIs DEF Calls, ToSet
<1>4. PopupIffLive
  BY <1>1, <1>2, StateIs DEF PopupIffLive, Lives
<1>5. HoverEnds
  <2>1. ASSUME NEW id \in Shown, popups[id].hovered
        PROVE  popups[id].owners > 0 \/ \E k \in DOMAIN deferred : deferred[k].call = "reset" /\ deferred[k].id = id
    <3>1. popups[id].owners > 0 \/ Asked(State, id)
      BY <1>1, <1>2, <2>1, StateIs DEF Hovers
    <3>2. QED BY <1>3, <3>1 DEF Asked
  <2>2. ASSUME NEW id \in Entries, popups[id].owners > 0
        PROVE  popups[id].owners = 1 /\ pointer.area.id = id
    <3>1. State.popups[id].owners = 1 /\ State.pointer.area = [id |-> id, follows |-> TRUE]
      BY <1>1, <1>2, <2>2, StateIs DEF Hovers
    <3>2. QED BY <3>1, StateIs
  <2>3. pointer.area.follows /\ pointer.area.id \notin strayed => popups[pointer.area.id].owners = 1
    BY <1>1, StateIs DEF PointerFits
  <2>4. QED BY <2>1, <2>2, <2>3 DEF HoverEnds
<1>6. ExpiryMatches
  BY <1>1, <1>2, StateIs DEF Expiries, ExpiryMatches
<1>7. PersistentStays
  <2> SUFFICES ASSUME NEW id \in Shown \ strayed, ~notes[id].timed
               PROVE  /\ \A i \in Instances : cards[i][id].moves # "countdown"
                      /\ \A k \in DOMAIN deferred : deferred[k].call = "close" => deferred[k].id # id
    BY DEF PersistentStays
  <2>1. Clocked(State, id)
    BY <1>1, <1>2 DEF Expiries
  <2>2. ASSUME NEW i \in Instances PROVE cards[i][id].moves # "countdown"
    BY <2>1, NoCardIs, StateIs DEF Clocked
  <2>3. ASSUME NEW k \in DOMAIN deferred, deferred[k].call = "close" PROVE deferred[k].id # id
    <3>1. deferred[k] \in Calls(State)
      BY <1>3
    <3>2. QED BY <2>1, <2>3, <3>1, StateIs DEF Clocked
  <2>4. QED BY <2>2, <2>3
<1>8. QED BY <1>4, <1>5, <1>6, <1>7 DEF PopupAndNoteAgree

\* What the invariant says of the types.
LEMMA TypesFrom ==
  ASSUME IInv
  PROVE  TypeOK
<1>1. /\ State \in Space /\ PointerFits(State, strayed)
      /\ updates \in 0..MaxUpdates /\ rebuilds \in 0..MaxRebuilds /\ strayed \subseteq Ids
  BY IInvIs
<1>2. /\ notes \in [Ids -> Note] /\ popups \in [Ids -> Popup] /\ pending \in Seq(Ids) /\ order \in Seq(Ids)
      /\ scenes \subseteq Instances /\ cards \in [Instances -> [Ids -> Card \cup {NoCard}]]
  BY <1>1, StateIs, SpaceIs
<1>3. pointer.on \in {0} \cup scenes /\ (pointer.on # 0 => pointer.area \in Areas(State, pointer.on))
  BY <1>1, StateIs DEF PointerFits
<1>4. QED BY <1>1, <1>2, <1>3 DEF TypeOK

\* The invariant holds in every state of every behaviour.
LEMMA InvariantHolds == Spec => []IInv
<1>1. Init => IInv
  BY InitKeeps
<1>2. IInv /\ [Next]_vars => IInv'
  BY StepKeeps
<1>3. QED BY <1>1, <1>2, PTL DEF Spec

\* Every variable keeps its type, and the pointer is off every surface or on an area that is there.
THEOREM TypeCorrect == Spec => []TypeOK
BY InvariantHolds, TypesFrom, PTL

\* No two popups share a place and none reaches past the tallest output; a popup that waits has no
\* room, or waits for one that leaves; and the cards are where the placement says. For any number of
\* notifications and outputs, of any heights.
THEOREM StackAlwaysLaidOut == Spec => []StackIsLaidOut
BY InvariantHolds, LaidOutFrom, PTL

\* A notification that is open has its popup and one that is closed has none; a hover has an end, and
\* is counted once, of the popup that the pointer is on and of no other; the store's expiry runs exactly
\* while the popup is placed and not hovered; and no countdown closes a notification without a timeout.
\* Exempt from the expiry, from the countdown and from being counted is a popup that has strayed: replaced
\* while it waited or was hovered, with another timeout, or while the pointer came on it in the midst of
\* the replacement, which loses the hover. For any number of notifications and outputs.
THEOREM PopupAndNoteAlwaysAgree == Spec => []PopupAndNoteAgree
BY InvariantHolds, AgreeFrom, PTL

\* A popup under the pointer does not move away from it, whatever else comes, goes or collapses.
THEOREM HoveredAlwaysStaysPut == Spec => HoveredStaysPut
<1>1. ASSUME IInv, [Next]_vars
      PROVE  [\A id \in Placed(State) :
                popups[id].owners > 0 /\ popups[id]'.owners > 0 /\ notes[id].life = notes[id]'.life
                  /\ updates' = updates => popups[id]'.at = popups[id].at]_vars
  <2>1. Steady(State, State') \/ updates' # updates
    BY <1>1, StepKeeps
  <2>2. State'.popups = popups' /\ State'.notes = notes' /\ State.popups = popups /\ State.notes = notes
    BY DEF State
  <2> HIDE DEF State
  <2>3. QED BY <2>1, <2>2 DEF Steady
<1>2. QED BY <1>1, InvariantHolds, PTL DEF Spec, HoveredStaysPut
================================================================================
