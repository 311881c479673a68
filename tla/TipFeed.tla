------------------------------- MODULE TipFeed -------------------------------
(***************************************************************************)
(* How an Ethereum-type coin follows the tip of its backend                *)
(* (bchain/coins/eth/ethrpc.go): the newHeads subscription and its reader, *)
(* the cached best header, the goroutine that wakes the sync loop, and the *)
(* watchdog that polls the tip and reconnects when the feed is silent.     *)
(*                                                                         *)
(* A header is a record of a height and a branch.                          *)
(***************************************************************************)
EXTENDS Naturals, Sequences

CONSTANTS
  Header,       \* [height, branch]
  NoHeader,
  Busy,         \* a live feed delivers a header that advances the tip within the threshold
  TipQueue,     \* capacity of the NewBlock channel
  TipChanges, TipDeliveries, TipErrors, TipFaults   \* bounds

VARIABLES
  backend,    \* the tip of the backend
  past,       \* the headers that were its tip: a lagging node may deliver any of them
  cached,     \* bestHeader
  queue,      \* the NewBlock channel
  reader,     \* the reader of the channel: "read" or "signal"
  notify,     \* newBlockNotifyCh holds a signal
  push,       \* the sync loop was told to look at the tip
  seen,       \* the tip the sync loop saw last
  stale,      \* the age of lastSubNotifyNs is over the threshold
  wd, polled, \* the watchdog, and the header it has fetched
  up,         \* the RPC client is usable
  sub,        \* the subscriptions of every feed
  tipLeft        \* what is left of the bounds

tipVars == <<backend, past, cached, queue, reader, notify, push, seen, stale, wd, polled, up,
          sub, tipLeft>>

Feed == {"newHeads", "newPendingTransactions"}

\* live: subscriptions that deliver; retry: goroutines of subscribe that try to
\* subscribe again; handle: the field newBlockSubscription or newTxSubscription.
Subscribed == [live |-> 1, retry |-> 0, handle |-> "live"]

\* The state InitializeMempool leaves.
TipInit ==
  /\ backend \in Header /\ past = {backend}
  /\ cached = NoHeader /\ seen = NoHeader /\ polled = NoHeader
  /\ queue = <<>> /\ reader = "read" /\ notify = FALSE /\ push = TRUE
  /\ stale = FALSE /\ wd = "tick" /\ up = TRUE
  /\ sub = [f \in Feed |-> Subscribed]
  /\ tipLeft = [changes |-> TipChanges, deliveries |-> TipDeliveries, errors |-> TipErrors,
             faults |-> TipFaults]

TipSpend(what) == tipLeft[what] > 0 /\ tipLeft' = [tipLeft EXCEPT ![what] = @ - 1]

feedVars == <<queue, reader, notify>>
wdVars == <<wd, polled, up>>

-----------------------------------------------------------------------------
\* The backend and time.

\* A new block, a reorganisation or a rollback.
TipChange ==
  /\ TipSpend("changes")
  /\ \E h \in Header \ {backend} : backend' = h /\ past' = past \cup {h}
  /\ UNCHANGED <<cached, feedVars, push, seen, stale, wdVars, sub>>

\* A node delivers a header over a live subscription, the newest or an older one.
Deliver ==
  /\ TipSpend("deliveries")
  /\ sub["newHeads"].live > 0 /\ Len(queue) < TipQueue
  /\ \E h \in past : queue' = Append(queue, h)
  /\ UNCHANGED <<backend, past, cached, reader, notify, push, seen, stale, wdVars, sub>>

\* A subscription ends with an error; its goroutine goes on to subscribe again.
SubscriptionError(f) ==
  /\ TipSpend("errors")
  /\ sub[f].live > 0
  /\ \E handle \in IF sub[f].handle # "live" THEN {sub[f].handle}
                   ELSE IF sub[f].live = 1 THEN {"dead"} ELSE {"live", "dead"} :
       sub' = [sub EXCEPT ![f] = [live |-> @.live - 1, retry |-> @.retry + 1,
                                  handle |-> handle]]
  /\ UNCHANGED <<backend, past, cached, feedVars, push, seen, stale, wdVars>>

\* The threshold passes with no header that advances the tip.
Age ==
  /\ ~stale /\ stale' = TRUE
  /\ Busy => sub["newHeads"].live = 0
  /\ UNCHANGED <<backend, past, cached, feedVars, push, seen, wdVars, sub, tipLeft>>

-----------------------------------------------------------------------------
\* The cached header after setBestHeader: it changes unless h is behind it.
setBestHeader(h, monotonic) ==
  IF cached # NoHeader /\ monotonic /\ h.height < cached.height THEN cached ELSE h

onFeedHeader ==
  LET h == setBestHeader(Head(queue), TRUE) IN
  /\ reader = "read" /\ queue # <<>>
  /\ queue' = Tail(queue) /\ cached' = h
  /\ IF h # cached THEN stale' = FALSE /\ reader' = "signal" ELSE UNCHANGED <<stale, reader>>
  /\ UNCHANGED <<backend, past, notify, push, seen, wdVars, sub, tipLeft>>

signalNewBlock ==
  /\ reader = "signal" /\ reader' = "read"
  /\ notify' = TRUE
  /\ UNCHANGED <<backend, past, cached, queue, push, seen, stale, wdVars, sub, tipLeft>>

newBlockNotifier ==
  /\ notify /\ notify' = FALSE
  /\ push' = TRUE
  /\ UNCHANGED <<backend, past, cached, queue, reader, seen, stale, wdVars, sub, tipLeft>>

\* The sync loop looks at the tip; the first look fetches it (getBestHeader).
getBestHeader ==
  /\ push /\ push' = FALSE
  /\ cached' = IF cached = NoHeader THEN backend ELSE cached
  /\ seen' = cached'
  /\ UNCHANGED <<backend, past, feedVars, stale, wdVars, sub, tipLeft>>

-----------------------------------------------------------------------------
\* The goroutine of subscribe that tries again every two seconds.

NewSubscription(s) == [s EXCEPT !.live = @ + 1, !.handle = "live"]

Resubscribe(f) ==
  /\ sub[f].retry > 0 /\ up
  /\ sub' = [sub EXCEPT ![f] = [NewSubscription(@) EXCEPT !.retry = @ - 1]]
  /\ UNCHANGED <<backend, past, cached, feedVars, push, seen, stale, wdVars, tipLeft>>

ResubscribeError(f) ==
  /\ sub[f].retry > 0
  /\ up => TipSpend("faults")
  /\ ~up => UNCHANGED tipLeft
  /\ sub' = [sub EXCEPT ![f].handle = "nil"]
  /\ UNCHANGED <<backend, past, cached, feedVars, push, seen, stale, wdVars>>

-----------------------------------------------------------------------------
\* The watchdog.

Watchdog(from, to) == wd = from /\ wd' = to

Rest == UNCHANGED <<backend, past, feedVars, seen>>

tipWatchdogTick ==
  /\ Watchdog("tick", "poll") /\ stale
  /\ Rest /\ UNCHANGED <<cached, push, stale, polled, up, sub, tipLeft>>

\* The header is fetched first and stored afterwards.
PollTip ==
  /\ Watchdog("poll", "set") /\ up
  /\ polled' = backend
  /\ Rest /\ UNCHANGED <<cached, push, stale, up, sub, tipLeft>>

PollError ==
  /\ Watchdog("poll", "close")
  /\ up => TipSpend("faults")
  /\ ~up => UNCHANGED tipLeft
  /\ Rest /\ UNCHANGED <<cached, push, stale, polled, up, sub>>

\* Mutant: the sync loop is not woken.
MutQuietTip ==
  /\ Watchdog("set", "close")
  /\ cached' = setBestHeader(polled, FALSE)
  /\ Rest /\ UNCHANGED <<push, stale, polled, up, sub, tipLeft>>

StoreTip ==
  /\ Watchdog("set", IF setBestHeader(polled, FALSE) # cached THEN "push" ELSE "close")
  /\ cached' = setBestHeader(polled, FALSE)
  /\ Rest /\ UNCHANGED <<push, stale, polled, up, sub, tipLeft>>

PushTip ==
  /\ Watchdog("push", "close")
  /\ push' = TRUE
  /\ Rest /\ UNCHANGED <<cached, stale, polled, up, sub, tipLeft>>

\* Unsubscribe ends the goroutine that waits for the error of the handle; closing
\* the client ends every subscription that is live.
Closed(s) ==
  [live |-> 0,
   retry |-> IF s.handle = "dead" THEN s.retry - 1 ELSE s.retry,
   handle |-> IF s.handle \in {"live", "dead"} THEN "closed" ELSE s.handle]

closeRPC ==
  /\ Watchdog("close", "open")
  /\ sub' = [f \in Feed |-> Closed(sub[f])] /\ up' = FALSE
  /\ Rest /\ UNCHANGED <<cached, push, stale, polled, tipLeft>>

\* Mutant: the newHeads subscription is not made again.
MutOpenRPC ==
  /\ Watchdog("open", "newPendingTransactions") /\ up' = TRUE
  /\ Rest /\ UNCHANGED <<cached, push, stale, polled, sub, tipLeft>>

OpenRPC ==
  /\ Watchdog("open", "newHeads") /\ up' = TRUE
  /\ Rest /\ UNCHANGED <<cached, push, stale, polled, sub, tipLeft>>

\* A failed step leaves the reconnect to the next tick.
ReconnectError ==
  /\ wd \in {"open"} \cup Feed /\ wd' = "tick"
  /\ TipSpend("faults")
  /\ sub' = IF wd \in Feed THEN [sub EXCEPT ![wd].handle = "nil"] ELSE sub
  /\ Rest /\ UNCHANGED <<cached, push, stale, polled, up>>

\* newHeads first, which arms lastSubNotifyNs, then newPendingTransactions.
subscribeEvents ==
  /\ \/ Watchdog("newHeads", "newPendingTransactions")
     \/ Watchdog("newPendingTransactions", "tick")
  /\ sub' = [sub EXCEPT ![wd] = NewSubscription(@)]
  /\ stale' = FALSE
  /\ Rest /\ UNCHANGED <<cached, push, polled, up, tipLeft>>

-----------------------------------------------------------------------------
Env == TipChange \/ Deliver \/ \E f \in Feed : SubscriptionError(f) \/ ResubscribeError(f)

Reader == onFeedHeader \/ signalNewBlock

WatchdogStep ==
  \/ tipWatchdogTick \/ PollTip \/ PollError \/ StoreTip \/ PushTip
  \/ closeRPC \/ OpenRPC \/ ReconnectError \/ subscribeEvents

TipNext ==
  \/ Env \/ Age \/ Reader \/ newBlockNotifier \/ getBestHeader \/ WatchdogStep
  \/ \E f \in Feed : Resubscribe(f)

\* Goroutines go on, time passes, and failures are finite.
TipFairness ==
  /\ WF_tipVars(Age) /\ WF_tipVars(Reader) /\ WF_tipVars(newBlockNotifier) /\ WF_tipVars(getBestHeader)
  /\ WF_tipVars(WatchdogStep)
  /\ \A f \in Feed : WF_tipVars(Resubscribe(f))

TipSpec == TipInit /\ [][TipNext]_tipVars /\ TipFairness

-----------------------------------------------------------------------------
\* The values the variables take.
TipTypeOK ==
  /\ backend \in Header /\ past \subseteq Header
  /\ {cached, seen, polled} \subseteq Header \cup {NoHeader}
  /\ Len(queue) <= TipQueue
  /\ wd \in {"tick", "poll", "set", "push", "close", "open"} \cup Feed
  /\ \A f \in Feed : sub[f].live \in Nat /\ sub[f].retry \in Nat

\* A tip the sync loop has not seen is on its way to it: the coalesced signal of
\* newBlockNotifyCh loses no advance, neither does the watchdog.
NoLostWakeup == cached # seen => notify \/ push \/ reader = "signal" \/ wd = "push"

\* When the backend has settled, the cached tip becomes its tip, and the sync loop
\* sees it: also after a rollback, with a feed that lags, is silent or repeats one
\* height ("a dead push channel can no longer freeze the cached tip").
TipFollows == <>[](cached = backend /\ seen = backend)

\* The newHeads feed is restored after every failure, of a subscription, of a poll
\* or of any step of a reconnect.
HeadsRestored == []<>(sub["newHeads"].live > 0)
=============================================================================
