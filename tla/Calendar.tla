------------------------------- MODULE Calendar -------------------------------
(* The calendar service: the periodic refresh of the CalDAV and Google        *)
(* accounts, each a chain of HTTP requests whose answers come back in any      *)
(* order, the merged snapshot and its disk cache, and the Google connect flow  *)
(* that polls a broker until the user has consented.                           *)
(* calendar_service.cpp, google_client.cpp, google_oauth.cpp.                  *)
(*                                                                             *)
(* Every HTTP request gets exactly one answer, later and from the main loop    *)
(* (net/http_client.cpp: a time limit of 30 s, failures deferred). Clocks are  *)
(* told apart only by whether a moment has come ("due", "past").               *)
EXTENDS Naturals, FiniteSets

CONSTANTS
  CalDav,       \* ids of CalDAV accounts
  Google,       \* ids of Google accounts
  NoAccount,    \* no id: m_connect.accountId before the first flow
  Configs,      \* bound: the calendar sections the configuration file may hold
  MaxCalendars, \* bound: the calendars of one account
  MaxConnects   \* bound: the connect flows started

Accounts == CalDav \union Google

ASSUME CalendarAssumption ==
  /\ IsFiniteSet(Accounts) /\ CalDav \intersect Google = {}
  /\ NoAccount \notin Accounts
  /\ Configs \subseteq [enabled : BOOLEAN, accounts : SUBSET Accounts]
  /\ MaxCalendars \in Nat \ {0} /\ MaxConnects \in Nat

VARIABLES
  config,       \* m_activeConfig: [enabled, accounts]
  passwords,    \* CalDAV accounts whose password is in state.toml
  tokens,       \* Google account -> the flow its refresh token comes from, 0 for none
  events,       \* the keys of m_eventsByAccount
  holed,        \* history: of these, those fetched without the events of some calendar
  shown,        \* the accounts whose events are in m_snapshot
  saved,        \* the accounts in events.json
  refreshing,   \* m_refreshing
  pending,      \* m_pendingAccounts
  fetch,        \* account -> the outstanding requests of its refresh
  nextRefresh,  \* m_nextRefreshAt: "due" or "later"
  connect,      \* m_connect
  starts,       \* flows whose /start request is outstanding
  polls,        \* <<account, token>> -> its outstanding /result requests
  flows,        \* history: the connect flows started so far
  asked         \* history: a refresh was asked for and none has started since ("now"), and the
                \* end of one that was under way has put it off by an interval ("overtaken")

cacheVars == <<events, holed, shown, saved>>
refreshVars == <<refreshing, pending, fetch, nextRefresh, asked>>
connectVars == <<connect, starts, polls, flows>>
vars == <<config, passwords, tokens, cacheVars, refreshVars, connectVars>>

Flows == 1..MaxConnects
Tokens == 0..MaxConnects

\* What is outstanding for an account: the stage of its chain, the requests of this stage
\* not answered yet, whether any of them gave events, was refused with 401 and failed
\* otherwise, whether a 401 may still be answered with a token refresh, and the refresh
\* token that request carries.
NoFetch == [stage |-> "none", left |-> 0, good |-> FALSE, denied |-> FALSE,
            missed |-> FALSE, retry |-> FALSE, using |-> 0]
Fetching(stage) == [NoFetch EXCEPT !.stage = stage, !.left = 1]

NoConnect == [state |-> "idle", account |-> NoAccount, inFlight |-> FALSE, pollToken |-> 0,
              deadline |-> "past", nextPoll |-> "due"]
NoPolls == [p \in Google \X Tokens |-> 0]

\* A first start: nothing configured, stored or cached yet.
Init ==
  /\ config = [enabled |-> FALSE, accounts |-> {}]
  /\ passwords = {}
  /\ tokens = [g \in Google |-> 0]
  /\ events = {} /\ holed = {} /\ shown = {} /\ saved = {}
  /\ refreshing = FALSE
  /\ pending = 0
  /\ fetch = [a \in Accounts |-> NoFetch]
  /\ nextRefresh = "due"
  /\ connect = NoConnect
  /\ starts = {}
  /\ polls = NoPolls
  /\ flows = 0
  /\ asked = "no"

-------------------------------------------------------------------------------
(* The end of an account's chain                                              *)

\* saveCache() writes a temporary file and renames it: the old file or the new one.
SaveCache ==
  saved' \in {saved, events'}

\* Mutant: the accounts no longer configured stay.
RebuildSnapshot_KeepsAll(cached, torn) ==
  events' = cached /\ holed' = torn /\ shown' = cached

\* rebuildSnapshot() on the cache cached: drops the accounts no longer configured.
RebuildSnapshot(cached, torn) ==
  /\ events' = cached \intersect config.accounts
  /\ holed' = torn \intersect config.accounts
  /\ shown' = events'

\* The tail of accountDone() when m_pendingAccounts reaches 0.
FinishRefresh(cached, torn) ==
  /\ refreshing' = FALSE
  /\ RebuildSnapshot(cached, torn)
  /\ SaveCache
  /\ nextRefresh' = "later"

\* accountDone(a, ok, events); gaps: the events lack those of a calendar that failed.
AccountDone(a, ok, gaps) ==
  LET cached == IF ok THEN events \union {a} ELSE events
      torn == IF ~ok THEN holed ELSE IF gaps THEN holed \union {a} ELSE holed \ {a}
  IN /\ fetch' = [fetch EXCEPT ![a] = NoFetch]
     /\ pending' = IF pending > 0 THEN pending - 1 ELSE 0
     /\ IF pending' = 0
        THEN /\ FinishRefresh(cached, torn)
             /\ asked' = IF asked = "now" THEN "overtaken" ELSE asked
        ELSE /\ events' = cached /\ holed' = torn
             /\ UNCHANGED <<shown, saved, refreshing, nextRefresh, asked>>

\* The chain of a goes on with the requests f.
GoesOn(a, f) ==
  /\ fetch' = [fetch EXCEPT ![a] = f]
  /\ UNCHANGED <<cacheVars, refreshing, pending, nextRefresh, asked>>

-------------------------------------------------------------------------------
(* The start of a refresh                                                     *)

\* The accounts for which fetchCalDav() or fetchGoogle() sends a request; for the others
\* it calls accountDone(id, false) at once.
Ready == (passwords \union {g \in Google : tokens[g] # 0}) \intersect config.accounts

\* The first requests of an account: the discovery of its collections, the calendar list
\* with an access token that is still valid, or else a new access token.
FirstRequests(a) ==
  IF a \in CalDav
  THEN {Fetching("discover")}
  ELSE {[Fetching("list") EXCEPT !.retry = TRUE],
        [Fetching("token") EXCEPT !.using = tokens[a]]}

\* startRefresh().
StartRefresh ==
  /\ asked' = "no"
  /\ IF config.accounts = {}
     THEN /\ nextRefresh' = "later"
          /\ UNCHANGED <<cacheVars, refreshing, pending, fetch>>
     ELSE /\ \E first \in [Ready -> UNION {FirstRequests(a) : a \in Ready}] :
               /\ \A a \in Ready : first[a] \in FirstRequests(a)
               /\ fetch' = [a \in Accounts |-> IF a \in Ready THEN first[a] ELSE NoFetch]
          /\ pending' = Cardinality(Ready)
          /\ IF Ready = {}
             THEN FinishRefresh(events, holed)
             ELSE /\ refreshing' = TRUE
                  /\ UNCHANGED <<cacheVars, nextRefresh>>

-------------------------------------------------------------------------------
(* Answers to the requests of a refresh                                       *)

Outstanding(a, stage) == fetch[a].stage = stage

\* The callback of discoverCalDavCollections(): fails, finds no selected collection, or
\* sends a REPORT for each. (Discovery is a chain of requests without shared state.)
CollectionsDiscovered(a) ==
  /\ Outstanding(a, "discover")
  /\ \/ AccountDone(a, FALSE, FALSE)
     \/ \E n \in 1..MaxCalendars :
          GoesOn(a, [Fetching("reports") EXCEPT !.left = n])
  /\ UNCHANGED <<config, passwords, tokens, connectVars>>

\* The callback of fetchCalDavEvents(): the last one ends the account, with success when
\* any of them succeeded.
ReportAnswered(a) ==
  /\ Outstanding(a, "reports")
  /\ \E ok \in BOOLEAN :
       LET f == [fetch[a] EXCEPT !.left = @ - 1, !.good = @ \/ ok, !.missed = @ \/ ~ok]
       IN IF f.left = 0 THEN AccountDone(a, f.good, f.missed) ELSE GoesOn(a, f)
  /\ UNCHANGED <<config, passwords, tokens, connectVars>>

\* Mutant: allowRefreshRetry is true for the retry as well.
Unauthorized_RetriesAgain(a) ==
  IF tokens[a] # 0
  THEN GoesOn(a, [Fetching("token") EXCEPT !.using = tokens[a]])
  ELSE AccountDone(a, FALSE, FALSE)

\* Mutant: the callback goes on after it has sent the retry (no return).
Unauthorized_AlsoDone(a) ==
  IF fetch[a].retry /\ tokens[a] # 0
  THEN /\ fetch' = [fetch EXCEPT ![a] = [Fetching("token") EXCEPT !.using = tokens[a]]]
       /\ pending' = pending - 1
       /\ UNCHANGED <<cacheVars, refreshing, nextRefresh, asked>>
  ELSE AccountDone(a, FALSE, FALSE)

\* googleFetchWithToken()'s callback after a 401: one retry, with a new access token.
Unauthorized(a) ==
  IF fetch[a].retry /\ tokens[a] # 0
  THEN GoesOn(a, [Fetching("token") EXCEPT !.using = tokens[a]])
  ELSE AccountDone(a, FALSE, FALSE)

\* The answer to the calendarList request of GoogleClient::fetchEvents().
ListAnswered(a) ==
  /\ Outstanding(a, "list")
  /\ \/ Unauthorized(a)
     \/ AccountDone(a, FALSE, FALSE)
     \/ AccountDone(a, TRUE, FALSE)   \* a list without a selected calendar
     \/ \E n \in 1..MaxCalendars :
          GoesOn(a, [fetch[a] EXCEPT !.stage = "calendars", !.left = n])
  /\ UNCHANGED <<config, passwords, tokens, connectVars>>

\* The answer to the events request of one calendar. Only a 401 makes the fetch fail.
CalendarAnswered(a) ==
  /\ Outstanding(a, "calendars")
  /\ \E outcome \in {"events", "unauthorized", "failed"} :
       LET f == [fetch[a] EXCEPT !.left = @ - 1,
                                 !.denied = @ \/ outcome = "unauthorized",
                                 !.missed = @ \/ outcome = "failed"]
       IN CASE f.left > 0 -> GoesOn(a, f)
            [] f.left = 0 /\ f.denied -> Unauthorized(a)
            [] OTHER -> AccountDone(a, TRUE, f.missed)
  /\ UNCHANGED <<config, passwords, tokens, connectVars>>

\* storeGoogleTokens(): the tokens of flow n, or those it was renewed to.
StoreTokens(a, n) == tokens' = [tokens EXCEPT ![a] = n]

\* The callback of refreshGoogleToken(), with the refresh token it captured: a rejected
\* token (400) is wiped with the access token.
TokenAnswered(a) ==
  /\ Outstanding(a, "token")
  /\ \/ /\ StoreTokens(a, fetch[a].using)
        /\ GoesOn(a, Fetching("list"))
     \/ /\ StoreTokens(a, 0)
        /\ AccountDone(a, FALSE, FALSE)
     \/ /\ AccountDone(a, FALSE, FALSE)
        /\ UNCHANGED tokens
  /\ UNCHANGED <<config, passwords, connectVars>>

-------------------------------------------------------------------------------
(* Wishes for a refresh: the configuration, and credentials saved             *)

\* onConfigReload() with a configuration that differs.
ConfigReload ==
  /\ config' \in Configs \ {config}
  /\ IF config'.enabled
     THEN /\ nextRefresh' = "due" /\ asked' = "now"
          /\ UNCHANGED <<events, holed, shown>>
     ELSE /\ events' = {} /\ holed' = {} /\ shown' = {}
          /\ asked' = "no"
          /\ UNCHANGED nextRefresh
  /\ UNCHANGED <<passwords, tokens, saved, refreshing, pending, fetch, connectVars>>

\* Mutant: requestRefresh() leaves the time of the next refresh alone.
PasswordSaved_AsksLater(a) ==
  /\ a \in CalDav \intersect config.accounts
  /\ passwords' = passwords \union {a}
  /\ asked' = IF config.enabled THEN "now" ELSE asked
  /\ UNCHANGED <<config, tokens, cacheVars, refreshing, pending, fetch, nextRefresh,
                 connectVars>>

\* The settings window saves the password of a CalDAV account and calls requestRefresh().
PasswordSaved(a) ==
  /\ a \in CalDav \intersect config.accounts
  /\ passwords' = passwords \union {a}
  /\ IF config.enabled
     THEN nextRefresh' = "due" /\ asked' = "now"
     ELSE UNCHANGED <<nextRefresh, asked>>
  /\ UNCHANGED <<config, tokens, cacheVars, refreshing, pending, fetch, connectVars>>

-------------------------------------------------------------------------------
(* The Google connect flow                                                    *)

\* connectGoogleAccount(a) of an account that is configured.
ConnectGoogleAccount(a) ==
  /\ flows < MaxConnects
  /\ a \in Google \intersect config.accounts
  /\ connect' = [connect EXCEPT !.state = "pending", !.account = a,
                                !.inFlight = TRUE, !.pollToken = 0]
  /\ flows' = flows + 1
  /\ starts' = starts \union {flows'}
  /\ UNCHANGED <<config, passwords, tokens, cacheVars, refreshVars, polls>>

\* The callback of m_oauth.start() of flow n: whichever flow is current by now.
StartAnswered(n) ==
  /\ n \in starts
  /\ starts' = starts \ {n}
  /\ \/ connect' = [connect EXCEPT !.inFlight = FALSE, !.state = "failed"]
     \/ connect' = [connect EXCEPT !.inFlight = FALSE, !.pollToken = n,
                                   !.deadline = "ahead", !.nextPoll = "later"]
  /\ UNCHANGED <<config, passwords, tokens, cacheVars, refreshVars, polls, flows>>

\* Is a poll for account a one of an older flow? "a newer flow superseded this one"
\* (calendar_service.cpp:423)
Superseded(a) == connect.account # a

\* The flow is over. (Its poll is answered, so that none is in flight.)
ConnectEnds(state) == connect' = [connect EXCEPT !.inFlight = FALSE, !.state = state]

\* The callback of m_oauth.poll() for account a, sent with the poll token of flow n.
PollAnswered(a, n) ==
  /\ polls[<<a, n>>] > 0
  /\ polls' = [polls EXCEPT ![<<a, n>>] = @ - 1]
  /\ \/ /\ connect' = [connect EXCEPT !.inFlight = FALSE,
                          !.nextPoll = IF Superseded(a) THEN @ ELSE "later"]
        /\ UNCHANGED <<tokens, nextRefresh, asked>>
     \/ /\ ~Superseded(a) /\ n # 0     \* consent given
        /\ ConnectEnds("success")
        /\ StoreTokens(a, n)
        /\ nextRefresh' = "due"
        /\ asked' = IF config.enabled THEN "now" ELSE asked
     \/ /\ ~Superseded(a)              \* expired, or an error
        /\ ConnectEnds("failed")
        /\ UNCHANGED <<tokens, nextRefresh, asked>>
  /\ UNCHANGED <<config, passwords, cacheVars, refreshing, pending, fetch, starts, flows>>

-------------------------------------------------------------------------------
(* The main loop                                                              *)

PollDue == connect.state = "pending" /\ ~connect.inFlight /\ connect.nextPoll = "due"
RefreshDue == config.enabled /\ ~refreshing /\ nextRefresh = "due"

\* Mutant: a poll does not mark the flow as in flight.
PollConnect_NotInFlight ==
  IF connect.deadline = "past"
  THEN connect' = [connect EXCEPT !.state = "failed"] /\ UNCHANGED polls
  ELSE /\ polls' = [polls EXCEPT ![<<connect.account, connect.pollToken>>] = @ + 1]
       /\ UNCHANGED connect

\* The first half of tick(): a flow past its deadline fails, another is polled.
PollConnect ==
  IF connect.deadline = "past"
  THEN connect' = [connect EXCEPT !.state = "failed"] /\ UNCHANGED polls
  ELSE /\ connect' = [connect EXCEPT !.inFlight = TRUE]
       /\ polls' = [polls EXCEPT ![<<connect.account, connect.pollToken>>] = @ + 1]

\* tick(), when one of its two halves has something to do.
Tick ==
  /\ PollDue \/ RefreshDue
  /\ IF PollDue THEN PollConnect ELSE UNCHANGED <<connect, polls>>
  /\ IF RefreshDue THEN StartRefresh ELSE UNCHANGED <<cacheVars, refreshVars>>
  /\ UNCHANGED <<config, passwords, tokens, starts, flows>>

\* Time passes, up to the next moment the service waits for (pollTimeoutMs()).
RefreshTimePasses ==
  /\ config.enabled /\ nextRefresh = "later"
  /\ nextRefresh' = "due"
  /\ UNCHANGED <<config, passwords, tokens, cacheVars, refreshing, pending, fetch, asked,
                 connectVars>>
PollTimePasses ==
  /\ connect.state = "pending" /\ connect.nextPoll = "later"
  /\ connect' = [connect EXCEPT !.nextPoll = "due"]
  /\ UNCHANGED <<config, passwords, tokens, cacheVars, refreshVars, starts, polls, flows>>
DeadlinePasses ==
  /\ connect.state = "pending" /\ connect.deadline = "ahead"
  /\ connect' = [connect EXCEPT !.deadline = "past"]
  /\ UNCHANGED <<config, passwords, tokens, cacheVars, refreshVars, starts, polls, flows>>

\* The program ends or crashes and starts again: initialize() and loadCache(). The
\* configuration, the credentials and the cache file are on disk.
Restart ==
  /\ RebuildSnapshot(saved, {})
  /\ refreshing' = FALSE /\ pending' = 0
  /\ fetch' = [a \in Accounts |-> NoFetch]
  /\ nextRefresh' = "due"
  /\ asked' = IF config.enabled THEN "now" ELSE "no"
  /\ connect' = NoConnect
  /\ starts' = {}
  /\ polls' = NoPolls
  /\ UNCHANGED <<config, passwords, tokens, saved, flows>>

-------------------------------------------------------------------------------
Answered(a) ==
  \/ a \in CalDav /\ (CollectionsDiscovered(a) \/ ReportAnswered(a))
  \/ a \in Google /\ (ListAnswered(a) \/ CalendarAnswered(a) \/ TokenAnswered(a))
ConnectAnswered ==
  \/ \E n \in Flows : StartAnswered(n)
  \/ \E a \in Google, n \in Tokens : PollAnswered(a, n)

Next ==
  \/ \E a \in Accounts : Answered(a)
  \/ ConnectAnswered
  \/ Tick
  \/ RefreshTimePasses \/ PollTimePasses \/ DeadlinePasses
  \/ ConfigReload
  \/ \E a \in CalDav : PasswordSaved(a)
  \/ \E a \in Google : ConnectGoogleAccount(a)
  \/ Restart

Spec == Init /\ [][Next]_vars

\* Every request is answered, the loop calls tick() when pollTimeoutMs() is over, and time
\* passes. Nobody has to change the configuration, connect or restart.
Fairness ==
  /\ \A a \in Accounts : WF_vars(Answered(a))
  /\ WF_vars(ConnectAnswered)
  /\ WF_vars(Tick)
  /\ WF_vars(RefreshTimePasses) /\ WF_vars(PollTimePasses) /\ WF_vars(DeadlinePasses)

FairSpec == Spec /\ Fairness

-------------------------------------------------------------------------------
(* Properties                                                                 *)

\* Type invariant of calendar_service.h's members.
TypeOK ==
  /\ config \in [enabled : BOOLEAN, accounts : SUBSET Accounts]
  /\ passwords \subseteq CalDav
  /\ tokens \in [Google -> Tokens]
  /\ events \subseteq Accounts /\ holed \subseteq events /\ shown \subseteq Accounts
  /\ saved \subseteq Accounts
  /\ refreshing \in BOOLEAN
  /\ pending \in 0..Cardinality(Accounts)
  /\ fetch \in [Accounts -> [stage : {"none", "discover", "reports", "list", "calendars", "token"},
                           left : 0..MaxCalendars, good : BOOLEAN, denied : BOOLEAN,
                           missed : BOOLEAN, retry : BOOLEAN, using : Tokens]]
  /\ nextRefresh \in {"due", "later"}
  /\ connect \in [state : {"idle", "pending", "success", "failed"},
                  account : Google \union {NoAccount}, inFlight : BOOLEAN, pollToken : Tokens,
                  deadline : {"ahead", "past"}, nextPoll : {"due", "later"}]
  /\ starts \subseteq Flows
  /\ DOMAIN polls = Google \X Tokens /\ \A p \in DOMAIN polls : polls[p] \in 0..flows
  /\ flows \in 0..MaxConnects
  /\ asked \in {"no", "now", "overtaken"}

\* accountDone() runs once for every account of a refresh, whatever path its chain takes
\* (no credentials, a failed discovery, several calendars, a retry after a 401): what is
\* still to be counted down are exactly the accounts with something outstanding.
EachAccountCounted ==
  /\ pending = Cardinality({a \in Accounts : fetch[a].stage # "none"})
  /\ refreshing <=> pending > 0

\* Between refreshes the snapshot shows what is cached, all of it.
SnapshotCurrent == ~refreshing => shown = events

\* A refresh keeps its books: every account is counted once, and its end shows the result.
RefreshCoherent == EachAccountCounted /\ SnapshotCurrent

\* "Re-sync soon after any account/config change." (calendar_service.cpp:102): a wish for a
\* refresh (a changed configuration, a password saved, an account connected, a start) never
\* waits for an interval to pass, until a refresh has started. One wish does: the one made
\* while a refresh is under way, which the end of that refresh puts off.
WishAtOnce == asked = "now" => nextRefresh = "due"

\* A wish is followed by the start of a refresh, also one that was put off: no chain of
\* requests and retries goes on for ever.
EveryWishRefreshes == asked # "no" ~> asked = "no"

\* "Drop cached events for accounts no longer configured." (calendar_service.cpp:194): they
\* go from the snapshot, as long as some account is left.
RemovedGoes ==
  ~(shown \subseteq config.accounts) /\ config.accounts # {}
    ~> shown \subseteq config.accounts \/ config.accounts = {}

\* No connect flow stays pending for ever: it is answered or it times out.
ConnectResolves == connect.state = "pending" ~> connect.state # "pending"

\* Nothing the user asked for is forgotten: neither a refresh, which starts without waiting
\* for an interval unless one under way puts it off, nor a connection, nor the removal of an
\* account.
WishesAreServed == []WishAtOnce /\ EveryWishRefreshes /\ ConnectResolves /\ RemovedGoes

\* "a disk cache provides last-known-good data across restarts and network failures"
\* (calendar_service.h:22-23): events an account has are not lost to a request that failed.
LastKnownGood == [][\A a \in events \ holed : a \notin holed']_vars
===============================================================================
