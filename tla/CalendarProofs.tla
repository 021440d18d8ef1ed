---------------------------- MODULE CalendarProofs ----------------------------
(* Theorems about Calendar for any accounts, any configurations and any number *)
(* of calendars and flows: a refresh keeps its books (RefreshCoherent), and    *)
(* every variable its type, the requests of the connect flows bounded.         *)
EXTENDS Calendar, FiniteSetTheorems, TLAPS

\* What the steps rely on of the types of the chains and of the credentials.
Stages == {"none", "discover", "reports", "list", "calendars", "token"}
Chain == [stage : Stages, left : Int, good : BOOLEAN, denied : BOOLEAN,
          missed : BOOLEAN, retry : BOOLEAN, using : Tokens]
ChainsTyped ==
  fetch \in [Accounts -> Chain] /\ tokens \in [Google -> Tokens] /\ passwords \subseteq CalDav

\* The accounts with a chain.
Busy(chains) == {a \in Accounts : chains[a].stage # "none"}

\* RefreshCoherent is inductive once the chains are typed.
IInv == ChainsTyped /\ RefreshCoherent

-------------------------------------------------------------------------------
(* The chains                                                                 *)

\* The set of busy accounts is finite, so that it can be counted.
LEMMA BusyFinite == ASSUME NEW chains PROVE IsFiniteSet(Busy(chains))
BY CalendarAssumption, FS_Subset DEF Busy

\* EachAccountCounted in terms of Busy.
LEMMA CountedBusy ==
  EachAccountCounted <=> (pending = Cardinality(Busy(fetch)) /\ (refreshing <=> pending > 0))
BY DEF EachAccountCounted, Busy

LEMMA ChainBusy ==
  ASSUME NEW a \in Accounts, NEW f \in Chain, f.stage # "none", fetch \in [Accounts -> Chain],
         fetch[a].stage # "none"
  PROVE  /\ [fetch EXCEPT ![a] = f] \in [Accounts -> Chain]
         /\ Busy([fetch EXCEPT ![a] = f]) = Busy(fetch)
BY DEF Busy

LEMMA NoFetchTyped == NoFetch \in Chain /\ NoFetch.stage = "none"
BY CalendarAssumption DEF NoFetch, Chain, Stages, Tokens

\* A chain stays one when a field changes, and keeps its stage unless that does.
LEMMA StageSet ==
  ASSUME NEW f \in Chain, NEW s \in Stages
  PROVE  [f EXCEPT !.stage = s] \in Chain /\ [f EXCEPT !.stage = s].stage = s
BY DEF Chain, Stages

LEMMA LeftSet ==
  ASSUME NEW f \in Chain, NEW n \in Int
  PROVE  [f EXCEPT !.left = n] \in Chain /\ [f EXCEPT !.left = n].stage = f.stage
BY DEF Chain, Stages

LEMMA GoodSet ==
  ASSUME NEW f \in Chain, NEW b \in BOOLEAN
  PROVE  [f EXCEPT !.good = b] \in Chain /\ [f EXCEPT !.good = b].stage = f.stage
BY DEF Chain, Stages

LEMMA DeniedSet ==
  ASSUME NEW f \in Chain, NEW b \in BOOLEAN
  PROVE  [f EXCEPT !.denied = b] \in Chain /\ [f EXCEPT !.denied = b].stage = f.stage
BY DEF Chain, Stages

LEMMA MissedSet ==
  ASSUME NEW f \in Chain, NEW b \in BOOLEAN
  PROVE  [f EXCEPT !.missed = b] \in Chain /\ [f EXCEPT !.missed = b].stage = f.stage
BY DEF Chain, Stages

LEMMA RetrySet ==
  ASSUME NEW f \in Chain, NEW b \in BOOLEAN
  PROVE  [f EXCEPT !.retry = b] \in Chain /\ [f EXCEPT !.retry = b].stage = f.stage
BY DEF Chain, Stages

LEMMA TokenSet ==
  ASSUME NEW f \in Chain, NEW t \in Tokens
  PROVE  [f EXCEPT !.using = t] \in Chain /\ [f EXCEPT !.using = t].stage = f.stage
BY DEF Chain, Stages

\* A first request, with whatever count, token or retry, is a chain.
LEMMA FetchingTyped ==
  ASSUME NEW stage \in {"discover", "reports", "list", "calendars", "token"}
  PROVE  Fetching(stage) \in Chain /\ Fetching(stage).stage = stage
<1>1. NoFetch \in Chain
  BY NoFetchTyped
<1>2. Fetching(stage) = [NoFetch EXCEPT !.stage = stage, !.left = 1]
  BY DEF Fetching
<1>3. [NoFetch EXCEPT !.stage = stage] \in Chain /\ [NoFetch EXCEPT !.stage = stage].stage = stage
  <2>1. stage \in Stages
    BY DEF Stages
  <2>2. QED BY <1>1, <2>1, StageSet, Zenon
<1>4. /\ [[NoFetch EXCEPT !.stage = stage] EXCEPT !.left = 1] \in Chain
      /\ [[NoFetch EXCEPT !.stage = stage] EXCEPT !.left = 1].stage = stage
  <2>1. 1 \in Int
    OBVIOUS
  <2>2. QED BY <1>3, <2>1, LeftSet, Zenon
<1>5. QED BY <1>2, <1>4

\* accountDone() takes the account off the count, and the last one shows the result.
LEMMA AccountDoneCounts ==
  ASSUME IInv, NEW a \in Accounts, fetch[a].stage # "none",
         NEW ok \in BOOLEAN, NEW gaps \in BOOLEAN, AccountDone(a, ok, gaps)
  PROVE  fetch' \in [Accounts -> Chain] /\ RefreshCoherent'
<1>1. fetch' \in [Accounts -> Chain] /\ fetch' = [fetch EXCEPT ![a] = NoFetch]
  BY NoFetchTyped DEF IInv, ChainsTyped, AccountDone
<1>2. Busy(fetch') = Busy(fetch) \ {a} /\ a \in Busy(fetch)
  BY <1>1, NoFetchTyped DEF IInv, ChainsTyped, Busy
<1>3. IsFiniteSet(Busy(fetch)) /\ IsFiniteSet(Busy(fetch'))
  BY BusyFinite
<1>4. /\ Cardinality(Busy(fetch')) = Cardinality(Busy(fetch)) - 1
      /\ Cardinality(Busy(fetch)) \in Nat /\ Cardinality(Busy(fetch')) \in Nat
  BY <1>2, <1>3, FS_RemoveElement, FS_CardinalityType
<1>5. pending = Cardinality(Busy(fetch)) /\ (refreshing <=> pending > 0)
  BY CountedBusy DEF IInv, RefreshCoherent
<1>6. pending' = Cardinality(Busy(fetch'))
  BY <1>4, <1>5 DEF AccountDone
<1>7. CASE pending' = 0
  <2>1. ~refreshing' /\ shown' = events'
    BY <1>7 DEF AccountDone, FinishRefresh, RebuildSnapshot
  <2>2. EachAccountCounted'
    BY <2>1, <1>6, <1>7 DEF EachAccountCounted, Busy
  <2>3. QED BY <1>1, <2>1, <2>2 DEF RefreshCoherent, SnapshotCurrent
<1>8. CASE pending' # 0
  <2>1. refreshing' = refreshing
    BY <1>8 DEF AccountDone
  <2>2. pending' > 0 /\ refreshing'
    BY <2>1, <1>4, <1>5, <1>6, <1>8
  <2>3. EachAccountCounted'
    BY <2>2, <1>6 DEF EachAccountCounted, Busy
  <2>4. QED BY <1>1, <2>2, <2>3 DEF RefreshCoherent, SnapshotCurrent
<1>9. QED BY <1>7, <1>8

\* A chain that goes on is still counted.
LEMMA GoesOnCounts ==
  ASSUME IInv, NEW a \in Accounts, fetch[a].stage # "none",
         NEW f \in Chain, f.stage # "none", GoesOn(a, f)
  PROVE  fetch' \in [Accounts -> Chain] /\ RefreshCoherent'
<1>1. fetch' \in [Accounts -> Chain] /\ Busy(fetch') = Busy(fetch)
  BY ChainBusy DEF IInv, ChainsTyped, GoesOn
<1>2. UNCHANGED <<pending, refreshing, shown, events>>
  BY DEF GoesOn, cacheVars
<1>3. EachAccountCounted'
  BY <1>1, <1>2 DEF IInv, RefreshCoherent, EachAccountCounted, Busy
<1>4. QED BY <1>1, <1>2, <1>3 DEF IInv, RefreshCoherent, SnapshotCurrent

-------------------------------------------------------------------------------
(* The steps                                                                  *)

\* startRefresh() finds no chain and counts the accounts it starts one for.
LEMMA StartRefreshCounts ==
  ASSUME IInv, ~refreshing, StartRefresh
  PROVE  fetch' \in [Accounts -> Chain] /\ RefreshCoherent'
<1>1. CASE config.accounts = {}
  BY <1>1 DEF StartRefresh, cacheVars, IInv, ChainsTyped, RefreshCoherent, EachAccountCounted,
     SnapshotCurrent
<1>2. CASE config.accounts # {}
  <2>1. PICK first \in [Ready -> UNION {FirstRequests(a) : a \in Ready}] :
          /\ \A a \in Ready : first[a] \in FirstRequests(a)
          /\ fetch' = [a \in Accounts |-> IF a \in Ready THEN first[a] ELSE NoFetch]
    BY <1>2 DEF StartRefresh
  <2>2. ASSUME NEW a \in Ready, a \in Accounts
        PROVE  first[a] \in Chain /\ first[a].stage # "none"
    <3>1. CASE a \in CalDav
      BY <2>1, <3>1, FetchingTyped DEF FirstRequests
    <3>2. CASE a \notin CalDav
      <4>1. tokens[a] \in Tokens
        BY <2>2, <3>2 DEF Accounts, IInv, ChainsTyped
      <4>2. first[a] \in {[Fetching("list") EXCEPT !.retry = TRUE],
                          [Fetching("token") EXCEPT !.using = tokens[a]]}
        BY <2>1, <3>2 DEF FirstRequests
      <4>3. /\ Fetching("list") \in Chain /\ Fetching("list").stage = "list"
            /\ Fetching("token") \in Chain /\ Fetching("token").stage = "token"
        BY FetchingTyped
      <4>4. /\ [Fetching("list") EXCEPT !.retry = TRUE] \in Chain
            /\ [Fetching("list") EXCEPT !.retry = TRUE].stage = "list"
        <5>1. TRUE \in BOOLEAN
          OBVIOUS
        <5>2. QED BY <4>3, <5>1, RetrySet, Zenon
      <4>5. /\ [Fetching("token") EXCEPT !.using = tokens[a]] \in Chain
            /\ [Fetching("token") EXCEPT !.using = tokens[a]].stage = "token"
        BY <4>1, <4>3, TokenSet, Zenon
      <4>6. \/ first[a] = [Fetching("list") EXCEPT !.retry = TRUE]
            \/ first[a] = [Fetching("token") EXCEPT !.using = tokens[a]]
        BY <4>2, Zenon
      <4>7. first[a] \in Chain /\ (first[a].stage = "list" \/ first[a].stage = "token")
        BY <4>4, <4>5, <4>6, Zenon
      <4>8. QED BY <4>7
    <3>3. QED BY <3>1, <3>2
  <2>3. fetch' \in [Accounts -> Chain]
    BY <2>1, <2>2, NoFetchTyped
  <2>4. Busy(fetch') = Ready \cap Accounts
    BY <2>1, <2>2, NoFetchTyped DEF Busy
  <2>5. Busy(fetch') = Ready
    BY <2>4 DEF Ready, Accounts, IInv, ChainsTyped
  <2>6. pending' = Cardinality(Busy(fetch')) /\ Cardinality(Ready) \in Nat
    BY <1>2, <2>5, BusyFinite, FS_CardinalityType DEF StartRefresh
  <2>7. CASE Ready = {}
    <3>1. ~refreshing' /\ shown' = events'
      BY <1>2, <2>7 DEF StartRefresh, FinishRefresh, RebuildSnapshot
    <3>2. pending' = 0
      BY <2>5, <2>6, <2>7, FS_EmptySet
    <3>3. QED BY <2>3, <2>6, <3>1, <3>2 DEF RefreshCoherent, EachAccountCounted, SnapshotCurrent, Busy
  <2>8. CASE Ready # {}
    <3>1. refreshing'
      BY <1>2, <2>8 DEF StartRefresh
    <3>2. pending' > 0
      BY <2>5, <2>6, <2>8, BusyFinite, FS_EmptySet
    <3>3. QED BY <2>3, <2>6, <3>1, <3>2 DEF RefreshCoherent, EachAccountCounted, SnapshotCurrent, Busy
  <2>9. QED BY <2>7, <2>8
<1>3. QED BY <1>1, <1>2

\* Every answer either ends the chain of its account or lets it go on.
LEMMA AnsweredCounts ==
  ASSUME IInv, NEW a \in Accounts, Answered(a)
  PROVE  IInv'
<1> USE DEF Outstanding
<1>1. fetch[a] \in Chain /\ fetch[a].stage # "none"
  BY DEF IInv, ChainsTyped, Answered, CollectionsDiscovered, ReportAnswered, ListAnswered,
     CalendarAnswered, TokenAnswered
<1>2. ASSUME NEW ok \in BOOLEAN, NEW gaps \in BOOLEAN, AccountDone(a, ok, gaps)
      PROVE  fetch' \in [Accounts -> Chain] /\ RefreshCoherent'
  BY <1>1, <1>2, AccountDoneCounts
<1>3. ASSUME NEW f \in Chain, f.stage # "none", GoesOn(a, f)
      PROVE  fetch' \in [Accounts -> Chain] /\ RefreshCoherent'
  BY <1>1, <1>3, GoesOnCounts
<1>4. ASSUME a \in Google, Unauthorized(a)
      PROVE  fetch' \in [Accounts -> Chain] /\ RefreshCoherent'
  <2>1. tokens[a] \in Tokens
    BY <1>4 DEF IInv, ChainsTyped
  <2>2. /\ [Fetching("token") EXCEPT !.using = tokens[a]] \in Chain
        /\ [Fetching("token") EXCEPT !.using = tokens[a]].stage = "token"
    BY <2>1, FetchingTyped, TokenSet
  <2>3. QED BY <1>2, <1>3, <1>4, <2>2 DEF Unauthorized
<1>5. CASE a \in CalDav /\ CollectionsDiscovered(a)
  <2>1. ASSUME NEW n \in 1..MaxCalendars
        PROVE  /\ [Fetching("reports") EXCEPT !.left = n] \in Chain
               /\ [Fetching("reports") EXCEPT !.left = n].stage = "reports"
    BY CalendarAssumption, FetchingTyped, LeftSet
  <2>2. fetch' \in [Accounts -> Chain] /\ RefreshCoherent'
    BY <1>2, <1>3, <1>5, <2>1 DEF CollectionsDiscovered
  <2>3. QED BY <1>5, <2>2 DEF CollectionsDiscovered, IInv, ChainsTyped
<1>6. CASE a \in CalDav /\ ReportAnswered(a)
  <2>1. PICK ok \in BOOLEAN :
          LET f == [fetch[a] EXCEPT !.left = @ - 1, !.good = @ \/ ok, !.missed = @ \/ ~ok]
          IN IF f.left = 0 THEN AccountDone(a, f.good, f.missed) ELSE GoesOn(a, f)
    BY <1>6 DEF ReportAnswered
  <2> DEFINE f == [fetch[a] EXCEPT !.left = @ - 1, !.good = @ \/ ok, !.missed = @ \/ ~ok]
  <2>2. f \in Chain /\ f.stage = fetch[a].stage /\ f.good \in BOOLEAN /\ f.missed \in BOOLEAN
    <3>1. fetch[a].left - 1 \in Int /\ (fetch[a].good \/ ok) \in BOOLEAN
          /\ (fetch[a].missed \/ ~ok) \in BOOLEAN
      BY <1>1 DEF Chain
    <3> DEFINE g == [fetch[a] EXCEPT !.left = fetch[a].left - 1]
               h == [g EXCEPT !.good = fetch[a].good \/ ok]
    <3>2. g \in Chain /\ g.stage = fetch[a].stage /\ g.good = fetch[a].good /\ g.missed = fetch[a].missed
      BY <1>1, <3>1, LeftSet DEF Chain
    <3> HIDE DEF g
    <3>3. h \in Chain /\ h.stage = fetch[a].stage /\ h.missed = fetch[a].missed
      BY <3>1, <3>2, GoodSet DEF Chain
    <3> HIDE DEF h
    <3>4. f = [h EXCEPT !.missed = fetch[a].missed \/ ~ok]
      BY DEF g, h
    <3>5. f \in Chain /\ f.stage = fetch[a].stage
      BY <3>1, <3>3, <3>4, MissedSet
    <3>6. QED BY <3>5 DEF Chain
  <2>3. IF f.left = 0 THEN AccountDone(a, f.good, f.missed) ELSE GoesOn(a, f)
    BY <2>1
  <2> HIDE DEF f
  <2>4. fetch' \in [Accounts -> Chain] /\ RefreshCoherent'
    BY <1>1, <1>2, <1>3, <2>2, <2>3
  <2>5. QED BY <1>6, <2>4 DEF ReportAnswered, IInv, ChainsTyped
<1>7. CASE a \in Google /\ ListAnswered(a)
  <2>1. ASSUME NEW n \in 1..MaxCalendars
        PROVE  /\ [fetch[a] EXCEPT !.stage = "calendars", !.left = n] \in Chain
               /\ [fetch[a] EXCEPT !.stage = "calendars", !.left = n].stage # "none"
    <3>0. n \in Int
      BY CalendarAssumption
    <3>1. /\ [fetch[a] EXCEPT !.stage = "calendars"] \in Chain
          /\ [fetch[a] EXCEPT !.stage = "calendars"].stage = "calendars"
      BY <1>1, StageSet DEF Stages
    <3>2. /\ [[fetch[a] EXCEPT !.stage = "calendars"] EXCEPT !.left = n] \in Chain
          /\ [[fetch[a] EXCEPT !.stage = "calendars"] EXCEPT !.left = n].stage = "calendars"
      BY <3>0, <3>1, LeftSet, Zenon
    <3>3. QED BY <3>2
  <2>2. fetch' \in [Accounts -> Chain] /\ RefreshCoherent'
    BY <1>2, <1>3, <1>4, <1>7, <2>1 DEF ListAnswered
  <2>3. QED BY <1>7, <2>2 DEF ListAnswered, IInv, ChainsTyped
<1>8. CASE a \in Google /\ CalendarAnswered(a)
  <2>1. PICK outcome \in {"events", "unauthorized", "failed"} :
          LET f == [fetch[a] EXCEPT !.left = @ - 1,
                                    !.denied = @ \/ outcome = "unauthorized",
                                    !.missed = @ \/ outcome = "failed"]
          IN CASE f.left > 0 -> GoesOn(a, f)
               [] f.left = 0 /\ f.denied -> Unauthorized(a)
               [] OTHER -> AccountDone(a, TRUE, f.missed)
    BY <1>8 DEF CalendarAnswered
  <2> DEFINE f == [fetch[a] EXCEPT !.left = @ - 1,
                                   !.denied = @ \/ outcome = "unauthorized",
                                   !.missed = @ \/ outcome = "failed"]
  <2>2. f \in Chain /\ f.stage = fetch[a].stage /\ f.missed \in BOOLEAN
    <3>1. fetch[a].left - 1 \in Int /\ (fetch[a].denied \/ outcome = "unauthorized") \in BOOLEAN
          /\ (fetch[a].missed \/ outcome = "failed") \in BOOLEAN
      BY <1>1 DEF Chain
    <3> DEFINE g == [fetch[a] EXCEPT !.left = fetch[a].left - 1]
               h == [g EXCEPT !.denied = fetch[a].denied \/ outcome = "unauthorized"]
    <3>2. g \in Chain /\ g.stage = fetch[a].stage /\ g.denied = fetch[a].denied /\ g.missed = fetch[a].missed
      BY <1>1, <3>1, LeftSet DEF Chain
    <3> HIDE DEF g
    <3>3. h \in Chain /\ h.stage = fetch[a].stage /\ h.missed = fetch[a].missed
      BY <3>1, <3>2, DeniedSet DEF Chain
    <3> HIDE DEF h
    <3>4. f = [h EXCEPT !.missed = fetch[a].missed \/ outcome = "failed"]
      BY DEF g, h
    <3>5. f \in Chain /\ f.stage = fetch[a].stage
      BY <3>1, <3>3, <3>4, MissedSet
    <3>6. QED BY <3>5 DEF Chain
  <2>3. \/ f.left > 0 /\ GoesOn(a, f)
        \/ Unauthorized(a)
        \/ AccountDone(a, TRUE, f.missed)
    BY <2>1
  <2> HIDE DEF f
  <2>4. fetch' \in [Accounts -> Chain] /\ RefreshCoherent'
    BY <1>1, <1>2, <1>3, <1>4, <1>8, <2>2, <2>3
  <2>5. QED BY <1>8, <2>4 DEF CalendarAnswered, IInv, ChainsTyped
<1>9. CASE a \in Google /\ TokenAnswered(a)
  <2>1. fetch[a].using \in Tokens /\ 0 \in Tokens
    BY <1>1, CalendarAssumption DEF Chain, Tokens
  <2>2. Fetching("list") \in Chain /\ Fetching("list").stage = "list"
    BY FetchingTyped
  <2>3. fetch' \in [Accounts -> Chain] /\ RefreshCoherent'
    BY <1>2, <1>3, <1>9, <2>2 DEF TokenAnswered
  <2>4. tokens' \in [Google -> Tokens]
    BY <1>9, <2>1 DEF TokenAnswered, StoreTokens, IInv, ChainsTyped
  <2>5. QED BY <1>9, <2>3, <2>4 DEF TokenAnswered, IInv, ChainsTyped
<1>10. QED BY <1>5, <1>6, <1>7, <1>8, <1>9 DEF Answered

\* What neither starts nor ends a chain keeps the books when it shows what it caches.
LEMMA Frame ==
  ASSUME IInv, UNCHANGED <<fetch, pending, refreshing>>, shown' = events' \/ UNCHANGED <<events, shown>>,
         tokens' \in [Google -> Tokens], passwords' \subseteq CalDav
  PROVE  IInv'
BY DEF IInv, ChainsTyped, RefreshCoherent, EachAccountCounted, SnapshotCurrent

LEMMA InitIInv == Init => IInv
<1> SUFFICES ASSUME Init PROVE IInv
  OBVIOUS
<1>1. ChainsTyped
  BY NoFetchTyped, CalendarAssumption DEF Init, ChainsTyped, Tokens
<1>2. Busy(fetch) = {}
  BY NoFetchTyped DEF Init, Busy
<1>3. EachAccountCounted
  BY <1>2, CountedBusy, FS_EmptySet DEF Init
<1>4. QED BY <1>1, <1>3 DEF Init, IInv, RefreshCoherent, SnapshotCurrent

LEMMA TickCounts == ASSUME IInv, Tick PROVE IInv'
<1>1. tokens' \in [Google -> Tokens] /\ passwords' \subseteq CalDav
  BY DEF Tick, IInv, ChainsTyped
<1>2. CASE RefreshDue
  <2>1. ~refreshing /\ StartRefresh
    BY <1>2 DEF Tick, RefreshDue
  <2>2. QED BY <1>1, <2>1, StartRefreshCounts DEF IInv, ChainsTyped
<1>3. CASE ~RefreshDue
  BY <1>1, <1>3, Frame DEF Tick, cacheVars, refreshVars
<1>4. QED BY <1>2, <1>3

LEMMA RestartCounts == ASSUME IInv, Restart PROVE IInv'
<1>1. ChainsTyped'
  BY NoFetchTyped DEF IInv, ChainsTyped, Restart
<1>2. Busy(fetch') = {}
  BY NoFetchTyped DEF Restart, Busy
<1>3. EachAccountCounted'
  <2>1. Cardinality(Busy(fetch')) = 0
    BY <1>2, FS_EmptySet
  <2>2. refreshing' = FALSE /\ pending' = 0
    BY DEF Restart
  <2>3. QED BY <2>1, <2>2 DEF EachAccountCounted, Busy
<1>4. QED BY <1>1, <1>3 DEF Restart, RebuildSnapshot, IInv, RefreshCoherent, SnapshotCurrent

LEMMA ConnectAnsweredKeeps == ASSUME IInv, ConnectAnswered PROVE IInv'
<1>1. CASE \E n \in Flows : StartAnswered(n)
  BY <1>1, Frame DEF StartAnswered, cacheVars, refreshVars, IInv, ChainsTyped
<1>2. ASSUME NEW a \in Google, NEW n \in Tokens, PollAnswered(a, n)
      PROVE  IInv'
  <2>1. tokens' \in [Google -> Tokens]
    BY <1>2 DEF PollAnswered, StoreTokens, IInv, ChainsTyped
  <2>2. QED BY <1>2, <2>1, Frame DEF PollAnswered, cacheVars, IInv, ChainsTyped
<1>3. QED BY <1>1, <1>2 DEF ConnectAnswered

LEMMA StepIInv == IInv /\ [Next]_vars => IInv'
<1> SUFFICES ASSUME IInv, [Next]_vars PROVE IInv'
  OBVIOUS
<1> USE DEF cacheVars, refreshVars
<1>1. CASE \E a \in Accounts : Answered(a)
  BY <1>1, AnsweredCounts
<1>2. CASE ConnectAnswered
  BY <1>2, ConnectAnsweredKeeps
<1>3. CASE Tick
  BY <1>3, TickCounts
<1>4. CASE RefreshTimePasses \/ PollTimePasses \/ DeadlinePasses
  BY <1>4, Frame DEF RefreshTimePasses, PollTimePasses, DeadlinePasses, IInv, ChainsTyped
<1>5. CASE ConfigReload
  BY <1>5, Frame DEF ConfigReload, IInv, ChainsTyped
<1>6. CASE \E a \in CalDav : PasswordSaved(a)
  BY <1>6, Frame DEF PasswordSaved, IInv, ChainsTyped
<1>7. CASE \E a \in Google : ConnectGoogleAccount(a)
  BY <1>7, Frame DEF ConnectGoogleAccount, IInv, ChainsTyped
<1>8. CASE Restart
  BY <1>8, RestartCounts
<1>9. CASE UNCHANGED vars
  BY <1>9, Frame DEF vars, IInv, ChainsTyped
<1>10. QED BY <1>1, <1>2, <1>3, <1>4, <1>5, <1>6, <1>7, <1>8, <1>9 DEF Next

\* Whatever the answers, their order, the retries, the configuration and the restarts: every
\* account of a refresh is counted down once, so that the refresh ends with its last chain
\* and not before (accountDone()), and between refreshes the snapshot shows the cache.
THEOREM RefreshAlwaysCoherent == Spec => []RefreshCoherent
<1>1. IInv => RefreshCoherent
  BY DEF IInv
<1>2. QED BY <1>1, InitIInv, StepIInv, PTL DEF Spec

-------------------------------------------------------------------------------
(* The types                                                                  *)

CacheOK ==
  events \subseteq Accounts /\ holed \subseteq events /\ shown \subseteq Accounts
  /\ saved \subseteq Accounts

Wishes == {"no", "now", "overtaken"}

FlagsOK ==
  /\ refreshing \in BOOLEAN /\ nextRefresh \in {"due", "later"} /\ asked \in Wishes
  /\ WishAtOnce

\* A chain has something to wait for, so that its count does not pass below zero.
LeftOK ==
  \A a \in Accounts : /\ fetch[a].left \in 0..MaxCalendars
                      /\ fetch[a].stage # "none" => fetch[a].left # 0

ConfigOK == config \in [enabled : BOOLEAN, accounts : SUBSET Accounts]

\* What the answer to a request of an account, or the start of a refresh, may change.
RefreshOK == CacheOK /\ FlagsOK /\ LeftOK

LEMMA FirstLeft ==
  ASSUME NEW stage, NEW n
  PROVE  /\ NoFetch.left = 0 /\ NoFetch.stage = "none"
         /\ Fetching(stage).left = 1
         /\ [Fetching(stage) EXCEPT !.retry = TRUE].left = 1
         /\ [Fetching(stage) EXCEPT !.using = n].left = 1
         /\ [Fetching(stage) EXCEPT !.left = n].left = n
BY DEF NoFetch, Fetching

LEMMA FirstRequestsLeft ==
  ASSUME NEW a, NEW f \in FirstRequests(a) PROVE f.left = 1
<1>1. CASE a \in CalDav
  <2>1. f = Fetching("discover")
    BY <1>1 DEF FirstRequests
  <2>2. QED BY <2>1, FirstLeft
<1>2. CASE a \notin CalDav
  <2>1. \/ f = [Fetching("list") EXCEPT !.retry = TRUE]
        \/ f = [Fetching("token") EXCEPT !.using = tokens[a]]
    BY <1>2 DEF FirstRequests
  <2>2. QED BY <2>1 DEF Fetching, NoFetch
<1>3. QED BY <1>1, <1>2

LEMMA DoneTyped ==
  ASSUME IInv, CacheOK, FlagsOK, LeftOK, NEW a \in Accounts, NEW ok, NEW gaps,
         AccountDone(a, ok, gaps)
  PROVE  RefreshOK'
<1> DEFINE cached == IF ok THEN events \union {a} ELSE events
           torn == IF ~ok THEN holed ELSE IF gaps THEN holed \union {a} ELSE holed \ {a}
<1>1. cached \subseteq Accounts /\ torn \subseteq cached
  BY DEF CacheOK
<1>2. /\ fetch' = [fetch EXCEPT ![a] = NoFetch]
      /\ IF pending' = 0
         THEN /\ FinishRefresh(cached, torn)
              /\ asked' = IF asked = "now" THEN "overtaken" ELSE asked
         ELSE /\ events' = cached /\ holed' = torn
              /\ UNCHANGED <<shown, saved, refreshing, nextRefresh, asked>>
  BY DEF AccountDone
<1> HIDE DEF cached, torn
<1>3. LeftOK'
  BY <1>2, FirstLeft, CalendarAssumption DEF LeftOK, IInv, ChainsTyped
<1>4. CacheOK' /\ FlagsOK'
  <2>1. CASE pending' = 0
    <3>1. /\ events' = cached \intersect config.accounts /\ holed' = torn \intersect config.accounts
          /\ shown' = events' /\ saved' \in {saved, events'} /\ refreshing' = FALSE
          /\ nextRefresh' = "later" /\ asked' = IF asked = "now" THEN "overtaken" ELSE asked
      BY <1>2, <2>1 DEF FinishRefresh, RebuildSnapshot, SaveCache
    <3>2. asked' \in Wishes /\ asked' # "now"
      BY <3>1 DEF FlagsOK, Wishes
    <3>3. QED BY <1>1, <3>1, <3>2 DEF CacheOK, FlagsOK, WishAtOnce
  <2>2. CASE pending' # 0
    BY <1>1, <1>2, <2>2 DEF CacheOK, FlagsOK, WishAtOnce
  <2>3. QED BY <2>1, <2>2
<1>5. QED BY <1>3, <1>4 DEF RefreshOK

LEMMA OnTyped ==
  ASSUME IInv, CacheOK, FlagsOK, LeftOK, NEW a \in Accounts, NEW f,
         f.left \in 1..MaxCalendars, GoesOn(a, f)
  PROVE  RefreshOK'
<1>1. /\ fetch' = [fetch EXCEPT ![a] = f]
      /\ UNCHANGED <<cacheVars, refreshing, nextRefresh, asked>>
  BY DEF GoesOn
<1>2. LeftOK'
  BY <1>1, CalendarAssumption DEF LeftOK, IInv, ChainsTyped
<1>3. QED BY <1>1, <1>2 DEF RefreshOK, CacheOK, FlagsOK, WishAtOnce, cacheVars

LEMMA StartTyped ==
  ASSUME IInv, CacheOK, FlagsOK, LeftOK, ConfigOK, StartRefresh
  PROVE  RefreshOK'
<1>1. asked' = "no" /\ asked' \in Wishes
  BY DEF StartRefresh, Wishes
<1>2. CASE config.accounts = {}
  BY <1>1, <1>2 DEF StartRefresh, cacheVars, RefreshOK, CacheOK, FlagsOK, LeftOK, WishAtOnce
<1>3. CASE config.accounts # {}
  <2>1. PICK first \in [Ready -> UNION {FirstRequests(a) : a \in Ready}] :
          /\ \A a \in Ready : first[a] \in FirstRequests(a)
          /\ fetch' = [a \in Accounts |-> IF a \in Ready THEN first[a] ELSE NoFetch]
    BY <1>3 DEF StartRefresh
  <2>2. \A a \in Ready : first[a].left = 1
    BY <2>1, FirstRequestsLeft
  <2>3. LeftOK'
    <3>1. \A a \in Accounts : \/ fetch'[a] = NoFetch
                              \/ fetch'[a].left = 1
      BY <2>1, <2>2
    <3>2. 0 \in 0..MaxCalendars /\ 1 \in 0..MaxCalendars
      BY CalendarAssumption
    <3>3. NoFetch.left = 0 /\ NoFetch.stage = "none"
      BY FirstLeft
    <3>4. QED BY <3>1, <3>2, <3>3 DEF LeftOK
  <2>4. CacheOK' /\ refreshing' \in BOOLEAN /\ nextRefresh' \in {"due", "later"}
    <3>1. CASE Ready = {}
      <4>1. /\ events' = events \intersect config.accounts
            /\ holed' = holed \intersect config.accounts
            /\ shown' = events' /\ saved' \in {saved, events'} /\ refreshing' = FALSE
            /\ nextRefresh' = "later"
        BY <1>3, <3>1 DEF StartRefresh, FinishRefresh, RebuildSnapshot, SaveCache
      <4>2. QED BY <4>1 DEF CacheOK
    <3>2. CASE Ready # {}
      BY <1>3, <3>2 DEF StartRefresh, cacheVars, CacheOK, FlagsOK
    <3>3. QED BY <3>1, <3>2
  <2>5. QED BY <1>1, <2>3, <2>4 DEF RefreshOK, FlagsOK, WishAtOnce
<1>4. QED BY <1>2, <1>3

LEMMA AnsweredTyped ==
  ASSUME IInv, CacheOK, FlagsOK, LeftOK, NEW a \in Accounts, Answered(a)
  PROVE  RefreshOK'
<1> USE DEF Outstanding
<1>1. /\ fetch[a] \in Chain /\ fetch[a].stage # "none"
      /\ fetch[a].left \in 1..MaxCalendars /\ MaxCalendars \in Nat \ {0}
  <2>1. fetch[a] \in Chain /\ fetch[a].stage # "none"
    BY DEF IInv, ChainsTyped, Answered, CollectionsDiscovered, ReportAnswered, ListAnswered,
       CalendarAnswered, TokenAnswered
  <2>2. QED BY <2>1, CalendarAssumption DEF LeftOK
<1>2. ASSUME NEW ok, NEW gaps, AccountDone(a, ok, gaps) PROVE RefreshOK'
  BY <1>2, DoneTyped
<1>3. ASSUME NEW f, f.left \in 1..MaxCalendars, GoesOn(a, f) PROVE RefreshOK'
  BY <1>3, OnTyped
<1>4. ASSUME Unauthorized(a) PROVE RefreshOK'
  <2>1. [Fetching("token") EXCEPT !.using = tokens[a]].left \in 1..MaxCalendars
    BY <1>1, FirstLeft
  <2>2. QED BY <1>2, <1>3, <1>4, <2>1 DEF Unauthorized
<1>5. CASE CollectionsDiscovered(a)
  <2>1. ASSUME NEW n \in 1..MaxCalendars, GoesOn(a, [Fetching("reports") EXCEPT !.left = n])
        PROVE  RefreshOK'
    <3>1. [Fetching("reports") EXCEPT !.left = n].left = n
      BY FirstLeft
    <3>2. QED BY <1>3, <2>1, <3>1
  <2>2. QED BY <1>2, <1>5, <2>1 DEF CollectionsDiscovered
<1>6. CASE ReportAnswered(a)
  <2>1. PICK ok \in BOOLEAN :
          LET f == [fetch[a] EXCEPT !.left = @ - 1, !.good = @ \/ ok, !.missed = @ \/ ~ok]
          IN IF f.left = 0 THEN AccountDone(a, f.good, f.missed) ELSE GoesOn(a, f)
    BY <1>6 DEF ReportAnswered
  <2> DEFINE f == [fetch[a] EXCEPT !.left = @ - 1, !.good = @ \/ ok, !.missed = @ \/ ~ok]
  <2>2. f.left = fetch[a].left - 1
    BY <1>1 DEF Chain
  <2>3. IF f.left = 0 THEN AccountDone(a, f.good, f.missed) ELSE GoesOn(a, f)
    BY <2>1
  <2> HIDE DEF f
  <2>4. f.left = 0 \/ f.left \in 1..MaxCalendars
    BY <1>1, <2>2
  <2>5. QED BY <1>2, <1>3, <2>3, <2>4
<1>7. CASE ListAnswered(a)
  <2>1. ASSUME NEW n \in 1..MaxCalendars
        PROVE  [fetch[a] EXCEPT !.stage = "calendars", !.left = n].left \in 1..MaxCalendars
    BY <1>1 DEF Chain
  <2>2. QED BY <1>2, <1>3, <1>4, <1>7, <2>1 DEF ListAnswered
<1>8. CASE CalendarAnswered(a)
  <2>1. PICK outcome \in {"events", "unauthorized", "failed"} :
          LET f == [fetch[a] EXCEPT !.left = @ - 1,
                                    !.denied = @ \/ outcome = "unauthorized",
                                    !.missed = @ \/ outcome = "failed"]
          IN CASE f.left > 0 -> GoesOn(a, f)
               [] f.left = 0 /\ f.denied -> Unauthorized(a)
               [] OTHER -> AccountDone(a, TRUE, f.missed)
    BY <1>8 DEF CalendarAnswered
  <2> DEFINE f == [fetch[a] EXCEPT !.left = @ - 1,
                                   !.denied = @ \/ outcome = "unauthorized",
                                   !.missed = @ \/ outcome = "failed"]
  <2>2. f.left = fetch[a].left - 1
    BY <1>1 DEF Chain
  <2>3. \/ f.left > 0 /\ GoesOn(a, f)
        \/ Unauthorized(a)
        \/ AccountDone(a, TRUE, f.missed)
    BY <2>1
  <2> HIDE DEF f
  <2>4. f.left > 0 => f.left \in 1..MaxCalendars
    BY <1>1, <2>2
  <2>5. QED BY <1>2, <1>3, <1>4, <2>3, <2>4
<1>9. CASE TokenAnswered(a)
  <2>1. Fetching("list").left \in 1..MaxCalendars
    BY <1>1, FirstLeft
  <2>2. QED BY <1>2, <1>3, <1>9, <2>1 DEF TokenAnswered
<1>10. QED BY <1>5, <1>6, <1>7, <1>8, <1>9 DEF Answered

-------------------------------------------------------------------------------
(* The connect flow                                                           *)

ConnectOK ==
  /\ connect \in [state : {"idle", "pending", "success", "failed"},
                  account : Google \union {NoAccount}, inFlight : BOOLEAN, pollToken : Tokens,
                  deadline : {"ahead", "past"}, nextPoll : {"due", "later"}]
  /\ starts \subseteq Flows
  /\ flows \in 0..MaxConnects
  /\ polls \in [Google \X Tokens -> Nat]

\* The polls that are not answered yet, each told apart by a number.
Polls == {poll \in (Google \X Tokens) \X (1..MaxConnects) : poll[2] <= polls[poll[1]]}
PollsOf(p) == {p} \X (1..polls[p])

\* The flow may be polled: one more request is coming.
Free == IF connect.state = "pending" /\ ~connect.inFlight THEN 1 ELSE 0

\* A flow has one request outstanding, /start or /result, or is free to send one: an answer
\* may free a newer flow than its own, but never adds to the number. This bounds the polls.
RequestsCounted ==
  /\ \A p \in Google \X Tokens : polls[p] <= flows
  /\ Cardinality(starts) + Cardinality(Polls) + Free <= flows

ConnectInv == ConnectOK /\ RequestsCounted

LEMMA PollsFinite == IsFiniteSet(Polls) /\ Cardinality(Polls) \in Nat
<1>1. IsFiniteSet(Google)
  BY CalendarAssumption, FS_Subset DEF Accounts
<1>2. IsFiniteSet(Tokens) /\ IsFiniteSet(1..MaxConnects)
  BY CalendarAssumption, FS_Interval DEF Tokens
<1>3. IsFiniteSet((Google \X Tokens) \X (1..MaxConnects))
  BY <1>1, <1>2, FS_Product
<1>4. Polls \in SUBSET ((Google \X Tokens) \X (1..MaxConnects))
  BY DEF Polls
<1>5. IsFiniteSet(Polls)
  BY <1>3, <1>4, FS_Subset
<1>6. QED BY <1>5, FS_CardinalityType

LEMMA StartsFinite ==
  ASSUME starts \subseteq Flows PROVE IsFiniteSet(starts) /\ Cardinality(starts) \in Nat
<1>1. IsFiniteSet(Flows)
  BY CalendarAssumption, FS_Interval DEF Flows
<1>2. QED BY <1>1, FS_Subset, FS_CardinalityType

LEMMA PollsOfIs ==
  ASSUME ConnectInv, NEW p \in Google \X Tokens PROVE polls[p] <= Cardinality(Polls)
<1> DEFINE n == polls[p]
<1>1. n \in Nat /\ n <= MaxConnects /\ MaxConnects \in Nat
  BY CalendarAssumption DEF ConnectInv, ConnectOK, RequestsCounted
<1>2. PollsOf(p) \in SUBSET Polls
  BY <1>1 DEF PollsOf, Polls
<1>3. PollsOf(p) = {p} \X (1..n)
  BY DEF PollsOf
<1> HIDE DEF n
<1>4. IsFiniteSet({p}) /\ Cardinality({p}) = 1
  BY FS_Singleton
<1>5. IsFiniteSet(1..n) /\ Cardinality(1..n) = n
  <2>1. 1 \in Int /\ n \in Int
    BY <1>1
  <2>2. IsFiniteSet(1..n) /\ Cardinality(1..n) = IF 1 > n THEN 0 ELSE n - 1 + 1
    BY ONLY <2>1, FS_Interval
  <2>3. QED BY <1>1, <2>2
<1>6. Cardinality({p} \X (1..n)) = Cardinality({p}) * Cardinality(1..n)
  BY ONLY <1>4, <1>5, FS_Product, Zenon
<1>7. Cardinality(PollsOf(p)) = n
  <2>1. Cardinality(PollsOf(p)) = 1 * n
    BY ONLY <1>3, <1>4, <1>5, <1>6, Zenon
  <2>2. 1 * n = n
    BY ONLY <1>1
  <2>3. QED BY ONLY <2>1, <2>2
<1>8. Cardinality(PollsOf(p)) <= Cardinality(Polls)
  BY <1>2, PollsFinite, FS_Subset
<1>9. QED BY <1>7, <1>8 DEF n

LEMMA PollSent ==
  ASSUME ConnectOK, NEW p \in Google \X Tokens, polls[p] < MaxConnects,
         polls' = [polls EXCEPT ![p] = @ + 1]
  PROVE  Cardinality(Polls') = Cardinality(Polls) + 1
<1>1. polls[p] \in Nat /\ MaxConnects \in Nat /\ polls[p] + 1 \in 1..MaxConnects
  BY CalendarAssumption DEF ConnectOK
<1> DEFINE new == <<p, polls[p] + 1>>
<1>2. new \notin Polls
  BY <1>1 DEF Polls
<1>3. Polls' = Polls \union {new}
  <2>1. ASSUME NEW q \in Google \X Tokens, NEW k \in 1..MaxConnects
        PROVE  k <= polls'[q] <=> k <= polls[q] \/ (q = p /\ k = polls[p] + 1)
    BY <1>1 DEF ConnectOK
  <2>2. QED BY <1>1, <2>1 DEF Polls
<1> HIDE DEF new
<1>4. QED BY <1>2, <1>3, PollsFinite, FS_AddElement

LEMMA PollGone ==
  ASSUME ConnectInv, NEW p \in Google \X Tokens, polls[p] > 0,
         polls' = [polls EXCEPT ![p] = @ - 1]
  PROVE  Cardinality(Polls') = Cardinality(Polls) - 1
<1>1. polls[p] \in 1..MaxConnects /\ MaxConnects \in Nat
  BY CalendarAssumption DEF ConnectInv, ConnectOK, RequestsCounted
<1> DEFINE old == <<p, polls[p]>>
<1>2. old \in Polls
  BY <1>1 DEF Polls
<1>3. Polls' = Polls \ {old}
  <2>1. ASSUME NEW q \in Google \X Tokens, NEW k \in 1..MaxConnects
        PROVE  k <= polls'[q] <=> k <= polls[q] /\ ~(q = p /\ k = polls[p])
    BY <1>1 DEF ConnectInv, ConnectOK
  <2>2. QED BY <1>1, <2>1 DEF Polls
<1> HIDE DEF old
<1>4. QED BY <1>2, <1>3, PollsFinite, FS_RemoveElement

\* The counts of a state, as numbers.
LEMMA CountsAreNumbers ==
  ASSUME ConnectInv
  PROVE  /\ Cardinality(starts) \in Nat /\ Cardinality(Polls) \in Nat
         /\ Free \in {0, 1} /\ flows \in Nat /\ flows <= MaxConnects /\ MaxConnects \in Nat
         /\ Cardinality(starts) + Cardinality(Polls) + Free <= flows
BY PollsFinite, StartsFinite, CalendarAssumption
DEF ConnectInv, ConnectOK, RequestsCounted, Free

LEMMA InitConnect == Init => ConnectInv
<1> SUFFICES ASSUME Init PROVE ConnectInv
  OBVIOUS
<1>1. 0 \in Tokens /\ 0 \in 0..MaxConnects
  BY CalendarAssumption DEF Tokens
<1>2. ConnectOK
  BY <1>1 DEF Init, ConnectOK, NoConnect, NoPolls
<1>3. Polls = {}
  BY CalendarAssumption DEF Init, Polls, NoPolls
<1>4. starts = {} /\ flows = 0 /\ Free = 0
  BY DEF Init, NoConnect, Free
<1>5. \A p \in Google \X Tokens : polls[p] <= flows
  BY <1>4 DEF Init, NoPolls
<1>6. QED BY <1>2, <1>3, <1>4, <1>5, FS_EmptySet DEF ConnectInv, RequestsCounted

LEMMA ConnectFrame ==
  ASSUME ConnectInv, UNCHANGED <<starts, polls, flows>>, ConnectOK', Free' <= Free
  PROVE  ConnectInv'
<1>1. Polls' = Polls
  BY DEF Polls
<1>2. Free' \in {0, 1}
  BY DEF Free
<1>3. Cardinality(starts') + Cardinality(Polls') + Free' <= flows'
  BY <1>1, <1>2, CountsAreNumbers
<1>4. QED BY <1>3 DEF ConnectInv, RequestsCounted

LEMMA FlowStarts ==
  ASSUME ConnectInv, NEW a \in Google, ConnectGoogleAccount(a) PROVE ConnectInv'
<1>1. /\ flows < MaxConnects /\ flows' = flows + 1 /\ starts' = starts \union {flows + 1}
      /\ polls' = polls
      /\ connect' = [connect EXCEPT !.state = "pending", !.account = a,
                                    !.inFlight = TRUE, !.pollToken = 0]
  BY DEF ConnectGoogleAccount
<1>2. 0 \in Tokens
  BY CalendarAssumption DEF Tokens
<1>3. ConnectOK'
  <2>1. connect' \in [state : {"idle", "pending", "success", "failed"},
                      account : Google \union {NoAccount}, inFlight : BOOLEAN,
                      pollToken : Tokens,
                      deadline : {"ahead", "past"}, nextPoll : {"due", "later"}]
    BY <1>1, <1>2 DEF ConnectInv, ConnectOK
  <2>2. starts' \subseteq Flows /\ flows' \in 0..MaxConnects
    BY <1>1, CalendarAssumption DEF ConnectInv, ConnectOK, Flows
  <2>3. QED BY <1>1, <2>1, <2>2 DEF ConnectInv, ConnectOK
<1>4. Free' = 0
  BY <1>1 DEF Free, ConnectInv, ConnectOK
<1>5. Polls' = Polls
  BY <1>1 DEF Polls
<1>6. Cardinality(starts') \in Nat /\ Cardinality(starts') <= Cardinality(starts) + 1
  <2>1. IsFiniteSet(starts) /\ Cardinality(starts) \in Nat
    BY StartsFinite DEF ConnectInv, ConnectOK
  <2>2. QED BY <1>1, <2>1, FS_AddElement
<1>7. Cardinality(starts') + Cardinality(Polls') + Free' <= flows'
  BY <1>1, <1>4, <1>5, <1>6, CountsAreNumbers
<1>8. \A p \in Google \X Tokens : polls'[p] <= flows'
  BY <1>1 DEF ConnectInv, ConnectOK, RequestsCounted
<1>9. QED BY <1>3, <1>7, <1>8 DEF ConnectInv, RequestsCounted

LEMMA StartEnds ==
  ASSUME ConnectInv, NEW n \in Flows, StartAnswered(n) PROVE ConnectInv'
<1>1. /\ n \in starts /\ starts' = starts \ {n} /\ UNCHANGED <<polls, flows>>
      /\ \/ connect' = [connect EXCEPT !.inFlight = FALSE, !.state = "failed"]
         \/ connect' = [connect EXCEPT !.inFlight = FALSE, !.pollToken = n,
                                       !.deadline = "ahead", !.nextPoll = "later"]
  BY DEF StartAnswered
<1>2. n \in Tokens
  BY CalendarAssumption DEF Flows, Tokens
<1>3. ConnectOK'
  BY <1>1, <1>2 DEF ConnectInv, ConnectOK
<1>4. Free' \in {0, 1}
  BY DEF Free
<1>5. Polls' = Polls
  BY <1>1 DEF Polls
<1>6. Cardinality(starts') = Cardinality(starts) - 1
  <2>1. IsFiniteSet(starts)
    BY StartsFinite DEF ConnectInv, ConnectOK
  <2>2. QED BY <1>1, <2>1, FS_RemoveElement
<1>7. Cardinality(starts') + Cardinality(Polls') + Free' <= flows'
  BY <1>1, <1>4, <1>5, <1>6, CountsAreNumbers
<1>8. QED BY <1>1, <1>3, <1>7 DEF ConnectInv, RequestsCounted

LEMMA PollEnds ==
  ASSUME ConnectInv, NEW a \in Google, NEW n \in Tokens, PollAnswered(a, n) PROVE ConnectInv'
<1> DEFINE p == <<a, n>>
<1>1. /\ polls[p] > 0 /\ polls' = [polls EXCEPT ![p] = @ - 1] /\ UNCHANGED <<starts, flows>>
      /\ p \in Google \X Tokens
      /\ \/ connect' = [connect EXCEPT !.inFlight = FALSE,
                          !.nextPoll = IF Superseded(a) THEN @ ELSE "later"]
         \/ \E state \in {"success", "failed"} : ConnectEnds(state)
  BY DEF PollAnswered
<1> HIDE DEF p
<1>2. connect' \in [state : {"idle", "pending", "success", "failed"},
                    account : Google \union {NoAccount}, inFlight : BOOLEAN,
                    pollToken : Tokens,
                    deadline : {"ahead", "past"}, nextPoll : {"due", "later"}]
  BY <1>1 DEF ConnectInv, ConnectOK, ConnectEnds
<1>3. polls[p] \in Nat /\ polls[p] - 1 \in Nat
  BY <1>1 DEF ConnectInv, ConnectOK
<1>4. ConnectOK'
  BY <1>1, <1>2, <1>3 DEF ConnectInv, ConnectOK
<1>5. Free' \in {0, 1}
  BY DEF Free
<1>6. Cardinality(Polls') = Cardinality(Polls) - 1
  BY <1>1, PollGone
<1>7. Cardinality(starts') + Cardinality(Polls') + Free' <= flows'
  BY <1>1, <1>5, <1>6, CountsAreNumbers
<1>8. \A q \in Google \X Tokens : polls'[q] <= flows'
  BY <1>1, <1>3, CountsAreNumbers DEF ConnectInv, ConnectOK, RequestsCounted
<1>9. QED BY <1>4, <1>7, <1>8 DEF ConnectInv, RequestsCounted

LEMMA PollStarts ==
  ASSUME ConnectInv, PollDue, PollConnect, UNCHANGED <<starts, flows>> PROVE ConnectInv'
<1>1. CASE connect.deadline = "past"
  <2>1. connect' = [connect EXCEPT !.state = "failed"] /\ polls' = polls
    BY <1>1 DEF PollConnect
  <2>2. ConnectOK' /\ Free' <= Free
    BY <2>1 DEF ConnectInv, ConnectOK, Free
  <2>3. QED BY <2>1, <2>2, ConnectFrame
<1>2. CASE connect.deadline # "past"
  <2> DEFINE p == <<connect.account, connect.pollToken>>
  <2>1. /\ connect' = [connect EXCEPT !.inFlight = TRUE]
        /\ polls' = [polls EXCEPT ![p] = @ + 1]
        /\ connect.state = "pending" /\ ~connect.inFlight
    BY <1>2 DEF PollConnect, PollDue
  <2> HIDE DEF p
  <2>2. Free' = 0 /\ Free = 1
    BY <2>1 DEF ConnectInv, ConnectOK, Free
  <2>3. ConnectOK'
    <3>1. connect' \in [state : {"idle", "pending", "success", "failed"},
                        account : Google \union {NoAccount}, inFlight : BOOLEAN,
                        pollToken : Tokens,
                        deadline : {"ahead", "past"}, nextPoll : {"due", "later"}]
      BY <2>1 DEF ConnectInv, ConnectOK
    <3>2. polls \in [Google \X Tokens -> Nat] /\ \A k \in Nat : k + 1 \in Nat
      BY DEF ConnectInv, ConnectOK
    <3>3. polls' \in [Google \X Tokens -> Nat]
      BY <2>1, <3>2
    <3>4. QED BY <3>1, <3>3 DEF ConnectInv, ConnectOK
  <2>4. CASE p \notin Google \X Tokens
    <3>1. polls' = polls
      BY <2>1, <2>4 DEF ConnectInv, ConnectOK
    <3>2. QED BY <2>2, <2>3, <3>1, ConnectFrame
  <2>5. CASE p \in Google \X Tokens
    <3>1. polls[p] \in Nat /\ polls[p] <= Cardinality(Polls)
      BY <2>5, PollsOfIs DEF ConnectInv, ConnectOK
    <3>2. polls[p] + 1 <= flows /\ polls[p] < MaxConnects
      BY <2>2, <3>1, CountsAreNumbers
    <3>3. Cardinality(Polls') = Cardinality(Polls) + 1
      BY <2>1, <2>5, <3>2, PollSent DEF ConnectInv
    <3>4. Cardinality(starts') + Cardinality(Polls') + Free' <= flows'
      BY <2>2, <3>3, CountsAreNumbers
    <3>5. \A q \in Google \X Tokens : polls'[q] <= flows'
      BY <2>1, <3>2 DEF ConnectInv, ConnectOK, RequestsCounted
    <3>6. QED BY <2>3, <3>4, <3>5 DEF ConnectInv, RequestsCounted
  <2>6. QED BY <2>4, <2>5
<1>3. QED BY <1>1, <1>2

LEMMA RestartConnects ==
  ASSUME ConnectInv, Restart PROVE ConnectInv'
<1>1. connect' = NoConnect /\ starts' = {} /\ polls' = NoPolls /\ flows' = flows
  BY DEF Restart
<1>2. 0 \in Tokens
  BY CalendarAssumption DEF Tokens
<1>3. ConnectOK'
  BY <1>1, <1>2 DEF ConnectInv, ConnectOK, NoConnect, NoPolls
<1>4. Polls' = {}
  BY <1>1, CalendarAssumption DEF Polls, NoPolls
<1>5. Free' = 0
  BY <1>1 DEF Free, NoConnect
<1>6. Cardinality(starts') + Cardinality(Polls') + Free' <= flows'
  BY <1>1, <1>4, <1>5, FS_EmptySet, CountsAreNumbers
<1>7. \A p \in Google \X Tokens : polls'[p] <= flows'
  BY <1>1, CountsAreNumbers DEF NoPolls
<1>8. QED BY <1>3, <1>6, <1>7 DEF ConnectInv, RequestsCounted

-------------------------------------------------------------------------------
(* The type invariant                                                         *)

\* TypeOK is inductive with the counts: those of the chains bound m_pendingAccounts, those
\* of the flows bound the polls.
TInv == IInv /\ CacheOK /\ FlagsOK /\ LeftOK /\ ConfigOK /\ ConnectInv

LEMMA InitTInv == Init => TInv
<1> SUFFICES ASSUME Init PROVE TInv
  OBVIOUS
<1>1. CacheOK /\ FlagsOK /\ ConfigOK
  BY DEF Init, CacheOK, FlagsOK, ConfigOK, WishAtOnce, Wishes
<1>2. LeftOK
  BY FirstLeft, CalendarAssumption DEF Init, LeftOK
<1>3. QED BY <1>1, <1>2, InitIInv, InitConnect DEF TInv

\* A step that leaves the connect flow alone, or the refresh.
LEMMA ConnectStays == ASSUME ConnectInv, UNCHANGED connectVars PROVE ConnectInv'
BY ConnectFrame DEF ConnectInv, ConnectOK, Free, connectVars

LEMMA RefreshStays ==
  ASSUME CacheOK, FlagsOK, LeftOK, UNCHANGED <<cacheVars, refreshing, fetch, nextRefresh, asked>>
  PROVE  RefreshOK'
BY DEF RefreshOK, CacheOK, FlagsOK, LeftOK, WishAtOnce, cacheVars

LEMMA ConnectAnswerTyped ==
  ASSUME TInv, ConnectAnswered
  PROVE  RefreshOK' /\ ConnectInv' /\ config' = config
<1>1. CASE \E n \in Flows : StartAnswered(n)
  <2>1. ConnectInv'
    BY <1>1, StartEnds DEF TInv
  <2>2. UNCHANGED <<config, cacheVars, refreshVars>>
    BY <1>1 DEF StartAnswered
  <2>3. RefreshOK'
    BY <2>2, RefreshStays DEF TInv, refreshVars
  <2>4. QED BY <2>1, <2>2, <2>3 DEF TInv, FlagsOK
<1>2. ASSUME NEW a \in Google, NEW n \in Tokens, PollAnswered(a, n)
      PROVE  RefreshOK' /\ ConnectInv' /\ config' = config
  <2>1. ConnectInv'
    BY <1>2, PollEnds DEF TInv
  <2>2. /\ UNCHANGED <<config, cacheVars, refreshing, fetch>>
        /\ \/ nextRefresh' = "due" /\ asked' \in {asked, "now"}
           \/ nextRefresh' = nextRefresh /\ asked' = asked
    BY <1>2 DEF PollAnswered
  <2>3. FlagsOK'
    BY <2>2 DEF TInv, FlagsOK, WishAtOnce, Wishes
  <2>4. RefreshOK'
    BY <2>2, <2>3 DEF TInv, RefreshOK, CacheOK, LeftOK, cacheVars
  <2>5. QED BY <2>1, <2>2, <2>4
<1>3. QED BY <1>1, <1>2 DEF ConnectAnswered

LEMMA TickTyped ==
  ASSUME TInv, Tick
  PROVE  RefreshOK' /\ ConnectInv' /\ config' = config
<1>1. config' = config /\ UNCHANGED <<starts, flows>>
  BY DEF Tick
<1>2. ConnectInv'
  <2>1. CASE PollDue
    BY <1>1, <2>1, PollStarts DEF Tick, TInv
  <2>2. CASE ~PollDue
    BY <1>1, <2>2, ConnectStays DEF Tick, TInv, connectVars
  <2>3. QED BY <2>1, <2>2
<1>3. RefreshOK'
  <2>1. CASE RefreshDue
    BY <2>1, StartTyped DEF Tick, TInv
  <2>2. CASE ~RefreshDue
    <3>1. UNCHANGED <<cacheVars, refreshVars>>
      BY <2>2 DEF Tick
    <3>2. QED BY <3>1, RefreshStays DEF refreshVars, TInv, FlagsOK
  <2>3. QED BY <2>1, <2>2
<1>4. QED BY <1>1, <1>2, <1>3

LEMMA TimeTyped ==
  ASSUME TInv, RefreshTimePasses \/ PollTimePasses \/ DeadlinePasses
  PROVE  RefreshOK' /\ ConnectInv' /\ config' = config
<1>1. CASE RefreshTimePasses
  <2>1. UNCHANGED <<config, cacheVars, refreshing, fetch, asked, connectVars>>
        /\ nextRefresh' = "due"
    BY <1>1 DEF RefreshTimePasses
  <2>2. RefreshOK'
    BY <2>1 DEF TInv, RefreshOK, CacheOK, FlagsOK, LeftOK, WishAtOnce, cacheVars
  <2>3. QED BY <2>1, <2>2, ConnectStays DEF TInv
<1>2. CASE PollTimePasses \/ DeadlinePasses
  <2>1. /\ UNCHANGED <<config, cacheVars, refreshVars, starts, polls, flows>>
        /\ \/ connect' = [connect EXCEPT !.nextPoll = "due"]
           \/ connect' = [connect EXCEPT !.deadline = "past"]
    BY <1>2 DEF PollTimePasses, DeadlinePasses
  <2>2. ConnectOK' /\ Free' <= Free
    BY <2>1 DEF TInv, ConnectInv, ConnectOK, Free
  <2>3. ConnectInv'
    BY <2>1, <2>2, ConnectFrame DEF TInv
  <2>4. RefreshOK'
    BY <2>1, RefreshStays DEF refreshVars, TInv, FlagsOK
  <2>5. QED BY <2>1, <2>3, <2>4
<1>3. QED BY <1>1, <1>2

LEMMA ReloadTyped ==
  ASSUME TInv, ConfigReload
  PROVE  RefreshOK' /\ ConnectInv' /\ ConfigOK'
<1>1. config' \in Configs /\ UNCHANGED <<saved, refreshing, fetch, connectVars>>
  BY DEF ConfigReload
<1>2. /\ \/ UNCHANGED <<events, holed, shown>>
         \/ events' = {} /\ holed' = {} /\ shown' = {}
      /\ \/ nextRefresh' = "due" /\ asked' = "now"
         \/ nextRefresh' = nextRefresh /\ asked' = "no"
  BY DEF ConfigReload
<1>3. ConfigOK'
  BY <1>1, CalendarAssumption DEF ConfigOK
<1>4. RefreshOK'
  BY <1>1, <1>2 DEF TInv, RefreshOK, CacheOK, FlagsOK, LeftOK, WishAtOnce, Wishes
<1>5. QED BY <1>1, <1>2, <1>3, <1>4, ConnectStays DEF TInv

LEMMA SavedTyped ==
  ASSUME TInv, NEW a \in CalDav, PasswordSaved(a)
  PROVE  RefreshOK' /\ ConnectInv' /\ config' = config
<1>1. /\ UNCHANGED <<config, cacheVars, refreshing, fetch, connectVars>>
      /\ \/ nextRefresh' = "due" /\ asked' = "now"
         \/ nextRefresh' = nextRefresh /\ asked' = asked
  BY DEF PasswordSaved
<1>2. RefreshOK'
  BY <1>1 DEF TInv, RefreshOK, CacheOK, FlagsOK, LeftOK, WishAtOnce, Wishes, cacheVars
<1>3. QED BY <1>1, <1>2, ConnectStays DEF TInv

LEMMA RestartTyped ==
  ASSUME TInv, Restart
  PROVE  RefreshOK' /\ ConnectInv' /\ config' = config
<1>1. /\ events' = saved \intersect config.accounts /\ holed' = {} /\ shown' = events'
      /\ saved' = saved /\ refreshing' = FALSE /\ nextRefresh' = "due"
      /\ asked' \in {"no", "now"} /\ config' = config
      /\ fetch' = [a \in Accounts |-> NoFetch]
  BY DEF Restart, RebuildSnapshot
<1>2. LeftOK'
  BY <1>1, FirstLeft, CalendarAssumption DEF LeftOK
<1>3. CacheOK'
  BY <1>1 DEF TInv, CacheOK
<1>4. FlagsOK'
  BY <1>1 DEF FlagsOK, WishAtOnce, Wishes
<1>5. QED BY <1>1, <1>2, <1>3, <1>4, RestartConnects DEF TInv, RefreshOK

LEMMA StepTInv == TInv /\ [Next]_vars => TInv'
<1> SUFFICES ASSUME TInv, [Next]_vars PROVE TInv'
  OBVIOUS
<1>1. IInv'
  BY StepIInv DEF TInv
<1>2. RefreshOK' /\ ConnectInv' /\ (ConfigOK' \/ config' = config)
  <2>1. ASSUME NEW a \in Accounts, Answered(a)
        PROVE  RefreshOK' /\ ConnectInv' /\ config' = config
    <3>1. UNCHANGED <<config, connectVars>>
      BY <2>1 DEF Answered, CollectionsDiscovered, ReportAnswered, ListAnswered,
         CalendarAnswered, TokenAnswered
    <3>2. RefreshOK'
      BY <2>1, AnsweredTyped DEF TInv
    <3>3. QED BY <3>1, <3>2, ConnectStays DEF TInv, FlagsOK
  <2>2. ASSUME NEW a \in Google, ConnectGoogleAccount(a)
        PROVE  RefreshOK' /\ ConnectInv' /\ config' = config
    <3>1. UNCHANGED <<config, cacheVars, refreshVars>>
      BY <2>2 DEF ConnectGoogleAccount
    <3>2. RefreshOK'
      BY <3>1, RefreshStays DEF refreshVars, TInv, FlagsOK
    <3>3. QED BY <2>2, <3>1, <3>2, FlowStarts DEF TInv
  <2>3. CASE UNCHANGED vars
    <3>1. UNCHANGED <<config, cacheVars, refreshVars, connectVars>>
      BY <2>3 DEF vars
    <3>2. RefreshOK'
      BY <3>1, RefreshStays DEF refreshVars, TInv, FlagsOK
    <3>3. QED BY <3>1, <3>2, ConnectStays DEF TInv
  <2>4. QED BY <2>1, <2>2, <2>3, ConnectAnswerTyped, TickTyped, TimeTyped, ReloadTyped,
            SavedTyped, RestartTyped DEF Next
<1>3. ConfigOK'
  BY <1>2 DEF TInv, ConfigOK
<1>4. QED BY <1>1, <1>2, <1>3 DEF TInv, RefreshOK, FlagsOK

LEMMA TInvTypeOK == TInv => TypeOK
<1> SUFFICES ASSUME TInv PROVE TypeOK
  OBVIOUS
<1>1. pending \in 0..Cardinality(Accounts)
  <2>1. pending = Cardinality(Busy(fetch))
    BY CountedBusy DEF TInv, IInv, RefreshCoherent
  <2>2. Busy(fetch) \in SUBSET Accounts
    BY DEF Busy
  <2>3. IsFiniteSet(Accounts)
    BY CalendarAssumption
  <2>4. /\ Cardinality(Busy(fetch)) <= Cardinality(Accounts)
        /\ Cardinality(Busy(fetch)) \in Nat /\ Cardinality(Accounts) \in Nat
    BY <2>2, <2>3, FS_Subset, FS_CardinalityType
  <2>5. QED BY <2>1, <2>4
<1>2. fetch \in [Accounts -> [stage : Stages, left : 0..MaxCalendars, good : BOOLEAN,
                           denied : BOOLEAN, missed : BOOLEAN, retry : BOOLEAN,
                           using : Tokens]]
  <2>1. ASSUME NEW a \in Accounts
        PROVE  fetch[a] \in [stage : Stages, left : 0..MaxCalendars, good : BOOLEAN,
                             denied : BOOLEAN, missed : BOOLEAN, retry : BOOLEAN,
                             using : Tokens]
    BY DEF TInv, IInv, ChainsTyped, LeftOK, Chain
  <2>2. QED BY <2>1 DEF TInv, IInv, ChainsTyped
<1>3. DOMAIN polls = Google \X Tokens /\ \A p \in DOMAIN polls : polls[p] \in 0..flows
  BY CalendarAssumption DEF TInv, ConnectInv, ConnectOK, RequestsCounted
<1>4. /\ config \in [enabled : BOOLEAN, accounts : SUBSET Accounts]
      /\ passwords \subseteq CalDav /\ tokens \in [Google -> Tokens]
  BY DEF TInv, IInv, ChainsTyped, ConfigOK
<1>5. /\ events \subseteq Accounts /\ holed \subseteq events /\ shown \subseteq Accounts
      /\ saved \subseteq Accounts
      /\ refreshing \in BOOLEAN /\ nextRefresh \in {"due", "later"}
      /\ asked \in {"no", "now", "overtaken"}
  BY DEF TInv, CacheOK, FlagsOK, Wishes
<1>6. ConnectOK
  BY DEF TInv, ConnectInv
<1>7. QED BY <1>1, <1>2, <1>3, <1>4, <1>5, <1>6 DEF TypeOK, ConnectOK, Stages

\* The members of calendar_service.h keep their types: m_pendingAccounts never passes below
\* zero or above the accounts, nor the counter of a chain below zero (google_client.cpp), the
\* polls of the broker are bounded by the flows that were started, and what is shown, cached
\* and saved are accounts.
THEOREM TypeCorrect == Spec => []TypeOK
<1>1. QED BY InitTInv, StepTInv, TInvTypeOK, PTL DEF Spec

\* A wish for a refresh waits for no interval: as long as no refresh has started and none
\* that was under way has put it off, the next one is due.
THEOREM WishesWaitForNoInterval == Spec => []WishAtOnce
<1>1. TInv => WishAtOnce
  BY DEF TInv, FlagsOK
<1>2. QED BY <1>1, InitTInv, StepTInv, PTL DEF Spec
===============================================================================
