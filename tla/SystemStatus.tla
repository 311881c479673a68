---------------------------- MODULE SystemStatus ----------------------------
(***************************************************************************)
(* What the program says of itself: the in-sync flag of /api and of the    *)
(* metrics (src/api/worker.go systemInfoInSync, GetSystemInfo,             *)
(* RefreshSyncMetrics), the sync state it is computed from and the age of  *)
(* the backend's tip, which survives a restart                             *)
(* (src/common/internalstate.go).                                          *)
(*                                                                         *)
(* The sync loop, the backend and the clock move on their own.  The states *)
(* kept in the database are written by StoreStatus and read back by        *)
(* Restart.  Time is counted in units the named bounds are given in.       *)
(***************************************************************************)
EXTENDS Integers, Sequences, FiniteSets, FiniteSetsExt

CONSTANTS
    ChainTypes,    \* the chain types checked
    SyncGrace,     \* systemInfoSyncStartGrace
    StaleAfter,    \* the larger of systemInfoStaleBlocks periods and systemInfoMinStale
    SyncedGap,     \* the larger of systemInfoSyncedGap and the blocks of systemInfoSyncedGapWindow
    MaxHeight,     \* bound on heights
    MaxClock,      \* bound on time
    MaxEvents      \* bound on resyncs, backend changes, requests, stores and restarts

VARIABLES
    chainType,
    clock,
    backend,    \* the backend: [height, up]
    is,         \* InternalState: [sync, best, start, last, initial, blocks, tipHeight, tipAt]; tipAt -1 is the zero time
    kept,       \* the state stored last
    loop,       \* the main goroutine and the sync loop: starting, syncing, idle
    observed,   \* ghost: the last height the backend reported that no crash has made the program forget
    api,        \* a GetSystemInfo request: none, the sync state it has read, or what it is about to answer
    events

svars == <<chainType, clock, backend, is, kept, loop, observed, api, events>>

Never == -1

\* The initial-sync flag, the start time and the backend info are not persisted.
Persisted(s) == [sync |-> s.sync, best |-> s.best, last |-> s.last, tipHeight |-> s.tipHeight, tipAt |-> s.tipAt]

Counted == events < MaxEvents /\ events' = events + 1

StatusInit ==
    /\ chainType \in ChainTypes
    /\ clock = 0
    /\ backend = [height |-> 1, up |-> TRUE]
    /\ is = [sync |-> FALSE, best |-> 0, start |-> Never, last |-> Never, initial |-> FALSE,
             blocks |-> 0, tipHeight |-> 0, tipAt |-> Never]
    /\ kept = Persisted(is)
    /\ loop = "starting"
    /\ observed = 0
    /\ api = [at |-> "none"]
    /\ events = 0

-----------------------------------------------------------------------------
(* systemInfoInSync for a state s, the backend height blocks and the time. *)

\* Mutant: within the grace period the age of the tip is not looked at.
MutSystemInfoInSync(s, initial, blocks) ==
    LET grace == ~s.sync /\ ~initial /\ s.start # Never /\ s.start + SyncGrace > clock
        isFresh == s.last # Never /\ s.last + StaleAfter >= clock
        gap == IF blocks < s.best THEN s.best - blocks ELSE blocks - s.best
    IN IF grace THEN TRUE
       ELSE IF ~s.sync /\ ~initial /\ blocks > 0 /\ gap <= SyncedGap /\ isFresh THEN TRUE
       ELSE IF s.sync /\ ~isFresh /\ chainType = "ethereum" THEN FALSE
       ELSE s.sync

systemInfoInSync(s, initial, blocks) ==
    LET grace == ~s.sync /\ ~initial /\ s.start # Never /\ s.start + SyncGrace > clock
        inSync == s.sync \/ grace
        isFresh == s.last # Never /\ s.last + StaleAfter >= clock
        gap == IF blocks < s.best THEN s.best - blocks ELSE blocks - s.best
    IN IF ~inSync /\ ~initial /\ blocks > 0 /\ gap <= SyncedGap /\ isFresh THEN TRUE
       ELSE IF inSync /\ ~isFresh /\ chainType = "ethereum" THEN FALSE
       ELSE inSync

\* SetBackendInfo: a failed query (height -1) changes nothing but the error; a height other than the stored one is an advance.
SetBackendInfo(s, height) ==
    IF height = Never THEN s
    ELSE IF s.tipAt = Never \/ height # s.tipHeight
    THEN [s EXCEPT !.tipAt = clock, !.tipHeight = height, !.blocks = height]
    ELSE [s EXCEPT !.blocks = height]

\* GetBackendTipLastAdvance seeds a time that was never set.
GetBackendTipLastAdvance(s) == IF s.tipAt = Never THEN [s EXCEPT !.tipAt = clock] ELSE s

GetChainInfo == IF backend.up THEN backend.height ELSE Never

-----------------------------------------------------------------------------
(* The sync loop. *)

\* The first resync of a process is the initial one; if it fails the process ends.
StartedSync ==
    /\ loop = "starting" \/ (loop = "idle" /\ ~is.initial)
    /\ is' = [is EXCEPT !.start = clock, !.sync = FALSE, !.initial = (loop = "starting")]
    /\ loop' = "syncing"
    /\ Counted
    /\ UNCHANGED <<chainType, clock, backend, kept, observed, api>>

\* UpdateBestHeight, called as a block is connected or disconnected.
UpdateBestHeight ==
    /\ loop = "syncing"
    /\ backend.up
    /\ \E h \in {is.best + 1, is.best - 1} :
          /\ h \in 0..MaxHeight
          /\ h > is.best => h <= backend.height
          /\ h < is.best => is.best > backend.height
          /\ is' = [is EXCEPT !.best = h, !.last = clock]
    /\ UNCHANGED <<chainType, clock, backend, kept, loop, observed, api, events>>

\* ResyncIndex ends: the backend info is taken first, then success, nothing to do, or an error is recorded.
ResyncIndex ==
    /\ loop = "syncing"
    /\ \E outcome \in {"connected", "notNeeded", "error"} :
          /\ outcome # "error" => is.best = backend.height
          /\ LET s == GetBackendTipLastAdvance(SetBackendInfo(is, GetChainInfo))
             IN is' = CASE outcome = "connected" -> [s EXCEPT !.sync = TRUE, !.last = clock]
                        [] outcome = "notNeeded" -> [s EXCEPT !.sync = TRUE]
                        [] outcome = "error" -> s
    /\ observed' = IF backend.up THEN backend.height ELSE observed
    /\ loop' = "idle"
    /\ UNCHANGED <<chainType, clock, backend, kept, api, events>>

\* The mempool is loaded after the initial resync, then SetInitialSync(false).
SetInitialSync ==
    /\ loop = "idle" /\ is.initial /\ is.sync
    /\ is' = [is EXCEPT !.initial = FALSE]
    /\ UNCHANGED <<chainType, clock, backend, kept, loop, observed, api, events>>

-----------------------------------------------------------------------------
(* Readers, the store loop and restarts. *)

\* GetSystemInfo reads the sync state,
GetSystemInfo ==
    /\ api.at = "none"
    /\ api' = [at |-> "asking", read |-> [sync |-> is.sync, best |-> is.best, last |-> is.last, start |-> is.start]]
    /\ Counted
    /\ UNCHANGED <<chainType, clock, backend, is, kept, loop, observed>>

\* judges it by the tip the backend then answers, an error meaning out of sync,
Judge ==
    /\ api.at = "asking"
    /\ api' = [at |-> "answered", height |-> GetChainInfo, since |-> clock,
               inSync |-> backend.up /\ systemInfoInSync(api.read, is.initial, GetChainInfo)]
    /\ UNCHANGED <<chainType, clock, backend, is, kept, loop, observed, events>>

\* and stores that answer, which the sync loop may have overtaken.
Answered ==
    /\ api.at = "answered"
    /\ is' = SetBackendInfo(is, api.height)
    /\ observed' = IF api.height = Never THEN observed ELSE api.height
    /\ api' = [at |-> "none"]
    /\ UNCHANGED <<chainType, clock, backend, kept, loop, events>>

\* storeInternalStateLoop.
StoreInternalState ==
    /\ loop # "starting" /\ ~is.initial /\ kept # Persisted(is)
    /\ kept' = Persisted(is)
    /\ Counted
    /\ UNCHANGED <<chainType, clock, backend, is, loop, observed, api>>

\* The process ends, after a last store or not, and starts from the state stored last.
Restart ==
    /\ loop # "starting"
    /\ \E graceful \in BOOLEAN :
          LET from == IF graceful THEN Persisted(is) ELSE kept
          IN /\ is' = [initial |-> FALSE, start |-> Never, blocks |-> 0, sync |-> from.sync, best |-> from.best,
                       last |-> from.last, tipHeight |-> from.tipHeight, tipAt |-> from.tipAt]
             /\ kept' = from
             /\ observed' = from.tipHeight
    /\ Counted
    /\ loop' = "starting"
    /\ api' = [at |-> "none"]
    /\ UNCHANGED <<chainType, clock, backend>>

-----------------------------------------------------------------------------
(* The backend and the clock. *)

BackendMoves ==
    /\ \/ \E h \in {backend.height + 1, backend.height - 1} : h \in 1..MaxHeight /\ backend' = [backend EXCEPT !.height = h]
       \/ backend' = [backend EXCEPT !.up = ~@]
    /\ Counted
    /\ UNCHANGED <<chainType, clock, is, kept, loop, observed, api>>

Tick ==
    /\ clock < MaxClock
    /\ clock' = clock + 1
    /\ UNCHANGED <<chainType, backend, is, kept, loop, observed, api, events>>

StatusNext ==
    \/ StartedSync \/ UpdateBestHeight \/ ResyncIndex \/ SetInitialSync
    \/ GetSystemInfo \/ Judge \/ Answered \/ StoreInternalState \/ Restart \/ BackendMoves \/ Tick

-----------------------------------------------------------------------------
(* Properties *)

\* The published flag is honest wherever the sync loop and the readers are.  The metrics, which use the cached tip, call
\* an index in sync when it is within the tolerance of that tip and was updated recently, however long the iteration
\* takes.  On an EVM chain neither they nor an answer of /api, whose sync state was read before the backend was asked,
\* call an index in sync that had not been updated within the window, although a failing loop renews the grace period
\* with each iteration and a restart takes over a stored flag.
StatusHonest ==
    LET recent(t) == is.last # Never /\ t - is.last <= StaleAfter
        near == is.best - is.blocks \in (-SyncedGap)..SyncedGap
    IN /\ is.blocks > 0 /\ near /\ recent(clock) /\ ~is.initial => systemInfoInSync(is, is.initial, is.blocks)
       /\ chainType = "ethereum" /\ systemInfoInSync(is, is.initial, is.blocks) => recent(clock)
       /\ chainType = "ethereum" /\ api.at = "answered" => (api.inSync => recent(api.since))

\* The age of the backend's tip restarts only when the backend's answer differs from the one before it: not when queries
\* fail and not when the process restarts (comments of SetBackendInfo and BackendTipLastAdvance).
TipAgeKept ==
    [][is'.tipAt > is.tipAt /\ is.tipAt # Never => observed' # observed]_svars

-----------------------------------------------------------------------------
(***************************************************************************)
(* Slowly changing facts that are fetched on demand and cached: the        *)
(* backend's identity, on which an EVM chain's health report rests         *)
(* (src/common/ttlvalue.go, src/bchain/coins/eth/backendidentity.go), and  *)
(* the fees of an external provider with the node's own estimate behind    *)
(* them (alternativefeeprovider.go, ethrpc.go EthereumTypeGetEip1559Fees). *)
(*                                                                         *)
(* Time is counted in the units of the named periods.  A fetch takes at    *)
(* most FetchTakes units, as its timeout sees to.                          *)
(***************************************************************************)

CONSTANTS
    IdentityTtl,     \* backendIdentityTTL
    FailureRetry,    \* ttlFailureRetry
    MaxFailing,      \* backendIdentityMaxFailing
    FetchTakes,      \* the longest fetch
    ReadEvery,       \* the longest time between two reads of the identity
    FeeFresh,        \* freshDuration, the configured period
    FeeRetry,        \* feeFetchRetryDelay
    FeeStaleSet,     \* staleSeconds as configured, 0 when unset
    FeeStaleDefault, \* defaultFeeStaleSeconds
    FeeCallers,      \* the requests for fees
    RewardRows,      \* the reward rows a fee history may have
    FactsEnd         \* bound on time

VARIABLES
    now,
    endpoint,   \* what the backend answers: right, wrong (another chain) or down
    seen,       \* ghost: when the endpoint was right last, since when it is, and when it was steadily right last
    identity,   \* the TTLValue: [known, at, fetching, attempt, since]; since is Long ago while healthy
    answered,   \* the last GetChainInfo: [at, ok]
    feeSource,  \* whether the fee provider answers
    fees,       \* the alternativeFeeProvider: [got, sync, failure, flight], the last fetch's start and the shortest gap
    feeCalls,   \* per request: idle, waiting, after, or the age of the fees it was given
    history     \* the fee history the node was asked for, <<>> before

ivars == <<endpoint, seen, identity, answered>>
pvars == <<feeSource, fees, feeCalls>>
bvars == <<now, endpoint, seen, identity, answered, feeSource, fees, feeCalls, history>>

Long == -1000

FactsInit ==
    /\ now = 0
    /\ endpoint = "right" /\ seen = [right |-> 0, from |-> 0, steady |-> 0]
    /\ identity = [known |-> FALSE, at |-> Long, fetching |-> FALSE, attempt |-> Long, since |-> Long]
    /\ answered = [at |-> 0, ok |-> TRUE]
    /\ feeSource = TRUE
    /\ fees = [got |-> Long, sync |-> Long, failure |-> Long, flight |-> FALSE, start |-> Long, gap |-> -Long]
    /\ feeCalls = [c \in FeeCallers |-> [at |-> "idle"]]
    /\ history = <<>>

-----------------------------------------------------------------------------
(* The identity: TTLValue.Get and fetchAndStore, mapped to GetChainInfo's contract. *)

\* How long a change of the endpoint takes to be noticed.
Notice == FetchTakes + FailureRetry + ReadEvery

\* Nothing cached is an error, and so are refreshes that fail for too long.
identityFromCache(c, time) == c.known /\ ~(c.since # Long /\ time - c.since > MaxFailing)

\* The fetch succeeds when the endpoint answers, and for the chain whose id was latched first.
fetchBackendIdentity == endpoint = "right"

\* Get starts a fetch unless the value is fresh, one is under way or the last attempt is too recent.  Only the caller of
\* the first fetch waits for it.
Get ==
    LET fresh == identity.known /\ now - identity.at < IdentityTtl
        retryAfter == IF identity.since # Long THEN FailureRetry ELSE IdentityTtl
        starts == ~fresh /\ ~identity.fetching /\ now - identity.attempt >= retryAfter
    IN /\ identity' = IF starts THEN [identity EXCEPT !.fetching = TRUE, !.attempt = now] ELSE identity
       /\ answered' = IF starts /\ ~identity.known THEN answered
                      ELSE [at |-> now, ok |-> fresh \/ identityFromCache(identity, now)]
       /\ UNCHANGED <<endpoint, seen>>

\* fetchAndStore records the outcome; a failure keeps the last known value.
fetchAndStore ==
    /\ identity.fetching
    /\ identity' = IF fetchBackendIdentity
                   THEN [identity EXCEPT !.known = TRUE, !.at = identity.attempt, !.fetching = FALSE, !.since = Long]
                   ELSE [identity EXCEPT !.fetching = FALSE, !.since = IF @ = Long THEN identity.attempt ELSE @]
    /\ answered' = IF identity.known THEN answered ELSE [at |-> now, ok |-> identityFromCache(identity', identity.attempt)]
    /\ UNCHANGED <<endpoint, seen>>

\* A bug: the time of the last failure is taken for the start of the outage.

\* The ghost after the endpoint is e at time t.
Seen(e, t) ==
    LET from == IF e # "right" THEN Long ELSE IF seen.from = Long THEN t ELSE seen.from
    IN [right |-> IF "right" \in {e, endpoint} THEN t ELSE seen.right, from |-> from,
        steady |-> IF from # Long /\ t - from >= Notice THEN t ELSE seen.steady]

EndpointChanges ==
    /\ \E e \in {"right", "wrong", "down"} \ {endpoint} : endpoint' = e /\ seen' = Seen(e, now)
    /\ UNCHANGED <<identity, answered>>

-----------------------------------------------------------------------------
(* The fee provider: GetEip1559Fees in three parts, refresh inside the single flight. *)

feeStaleDuration(period, stale) == Max({IF stale <= 0 THEN FeeStaleDefault ELSE stale, period})

cachedWithin(d) == fees.sync + d >= now

RetryDelay == Max({FeeFresh, FeeRetry})

Fetching == [fees EXCEPT !.flight = TRUE, !.start = now, !.gap = Min({@, now - fees.start})]

\* A fresh value is served.
GetEip1559Fees(c) ==
    /\ feeCalls[c].at = "idle"
    /\ feeCalls' = [feeCalls EXCEPT ![c] = IF cachedWithin(FeeFresh) THEN [at |-> "served", age |-> now - fees.got]
                                           ELSE [at |-> "stale"]]
    /\ UNCHANGED <<feeSource, fees>>

\* Otherwise the caller waits for the flight or leads one, which fetches unless there was a fetch meanwhile or a failure
\* lately.
DoRefresh(c) ==
    /\ feeCalls[c].at = "stale"
    /\ LET nothing == ~fees.flight /\ (now - fees.sync < FeeFresh \/ now - fees.failure < RetryDelay)
       IN /\ feeCalls' = [feeCalls EXCEPT ![c].at = IF nothing THEN "after" ELSE "waiting"]
          /\ fees' = IF nothing \/ fees.flight THEN fees ELSE Fetching
    /\ UNCHANGED feeSource

\* A bug: a caller queued behind a flight that has just ended fetches again.

\* At startup the cache is primed once.
warmUp ==
    /\ now = 0 /\ fees.start = Long
    /\ fees' = Fetching
    /\ UNCHANGED <<feeSource, feeCalls>>

\* The upstream answers or fails, and everyone who waited goes on.
refresh ==
    /\ fees.flight
    /\ fees' = IF feeSource THEN [fees EXCEPT !.flight = FALSE, !.failure = Long, !.sync = now, !.got = now]
               ELSE [fees EXCEPT !.flight = FALSE, !.failure = now]
    /\ feeCalls' = [c \in FeeCallers |-> IF feeCalls[c].at = "waiting" THEN [at |-> "after"] ELSE feeCalls[c]]
    /\ UNCHANGED feeSource

\* Fresh or stale fees, or none: the node estimates.
Coalesced(c) ==
    /\ feeCalls[c].at = "after"
    /\ feeCalls' = [feeCalls EXCEPT ![c] = IF cachedWithin(FeeFresh) \/ cachedWithin(feeStaleDuration(FeeFresh, FeeStaleSet))
                                           THEN [at |-> "served", age |-> now - fees.got] ELSE [at |-> "none"]]
    /\ UNCHANGED <<feeSource, fees>>

Served(c) == feeCalls[c].at \in {"served", "none"} /\ feeCalls' = [feeCalls EXCEPT ![c] = [at |-> "idle"]] /\ UNCHANGED <<feeSource, fees>>

FeeSourceChanges == feeSource' = ~feeSource /\ UNCHANGED <<fees, feeCalls>>

-----------------------------------------------------------------------------
(* The node's estimate: the tips of four tiers from the rewards of recent blocks. *)

\* The rows that have a tier's percentile, and their average.
Full(rows, tier) == {j \in DOMAIN rows : Len(rows[j]) >= tier}
Tip(rows, tier) ==
    IF Full(rows, tier) = {} THEN 0
    ELSE MapThenSumSet(LAMBDA j : rows[j][tier], Full(rows, tier)) \div Cardinality(Full(rows, tier))

\* A bug: the rows that are cut short are counted.

\* No fees when the history is too short, otherwise a tier per percentile.
EthereumTypeGetEip1559Fees(h) ==
    IF Len(h.baseFeePerGas) < 4 THEN <<>>
    ELSE [tier \in 1..4 |-> [maxPriorityFeePerGas |-> Tip(h.reward, tier),
                             maxFeePerGas |-> 2 * h.baseFeePerGas[4] + Tip(h.reward, tier)]]

\* The node is asked: one base fee more or less than the blocks.
AskHistory ==
    /\ history = <<>>
    /\ \E first \in RewardRows, second \in RewardRows, n \in 3..5 :
          history' = [reward |-> <<first, second>>, baseFeePerGas |-> [i \in 1..n |-> i]]

-----------------------------------------------------------------------------

\* Time passes while no fetch is overdue and the identity, once asked for, is read often enough.
FactsTick ==
    /\ now < FactsEnd
    /\ identity.fetching => now - identity.attempt < FetchTakes
    /\ fees.flight => now - fees.start < FetchTakes
    /\ identity.attempt # Long => now - answered.at < ReadEvery
    /\ now' = now + 1
    /\ seen' = Seen(endpoint, now')
    /\ UNCHANGED <<endpoint, identity, answered, feeSource, fees, feeCalls, history>>

IdentityNext == (Get \/ fetchAndStore \/ EndpointChanges) /\ UNCHANGED <<now, pvars, history>>
FeesNext ==
    /\ \/ warmUp \/ refresh \/ FeeSourceChanges
       \/ \E c \in FeeCallers : GetEip1559Fees(c) \/ DoRefresh(c) \/ Coalesced(c) \/ Served(c)
    /\ UNCHANGED <<now, ivars, history>>

-----------------------------------------------------------------------------
(* Properties *)

\* GetChainInfo tells an outage from a blip (comments of identityFromCache and backendIdentityMaxFailing).  It reports a
\* backend that has not answered for the right chain for longer than the time to live, the tolerated failures and the
\* time to notice, however reads and fetches fall; and once an identity is known it reports nothing while the endpoint
\* was steadily right within the tolerated time.
OutageReported ==
    answered.at = now =>
        /\ answered.ok => now - seen.right <= IdentityTtl + MaxFailing + Notice
        /\ ~answered.ok /\ identity.known /\ identity.at < now => now - seen.steady > MaxFailing - FetchTakes

\* Nobody is given fees older than the stale window, and the provider is contacted at most once per period, also during
\* an outage (comments of feeFetchRetryDelay and periodSeconds), whichever callers wait, lead or come late.
FeesBounded ==
    /\ \A c \in FeeCallers : feeCalls[c].at = "served" => feeCalls[c].age <= feeStaleDuration(FeeFresh, FeeStaleSet)
    /\ fees.gap >= FeeFresh

\* The node's own estimate: a higher tier never costs less than a lower one when every row is full, and a row that is cut
\* short does not lower the tip below what every full row paid (the loop of EthereumTypeGetEip1559Fees).
TiersOrdered ==
    history # <<>> =>
        LET tiers == EthereumTypeGetEip1559Fees(history)
            rows == history.reward
        IN /\ (\A j \in DOMAIN rows : Len(rows[j]) = 4) =>
                  \A t \in 1..3 : t + 1 \in DOMAIN tiers => tiers[t].maxFeePerGas <= tiers[t + 1].maxFeePerGas
           /\ \A t \in DOMAIN tiers : Full(rows, t) # {} =>
                  tiers[t].maxPriorityFeePerGas >= Min({rows[j][t] : j \in Full(rows, t)})
=============================================================================
