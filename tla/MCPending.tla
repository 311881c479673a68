------------------------------ MODULE MCPending ------------------------------
(***************************************************************************)
(* The pending transactions of an EVM chain, for TLC: the mempool fed by   *)
(* the backend, and the sends through private relays with their cache.     *)
(* The parts share no state, so a behaviour exercises one of them, and the *)
(* variables of the other keep their first values.                         *)
(***************************************************************************)
EXTENDS MempoolEthereum

VARIABLES
    part,
    plan, mempoolTxs, recentSenders, acceptedSlots, sendGeneration, inFlight, mempool, send, evict, reconcile, relay,
    confirmed, altUnread, altSuperseding, stop, clock, flakes

\* Two transactions of one sender and one nonce: a transfer of tokens and the self-transfer that replaces it.
PoolTx == {"pay", "cancel"}
PoolAddr == {"s", "c", "r"}
PoolFrom == [tx \in PoolTx |-> "s"]
PoolTo == [pay |-> "c", cancel |-> "s"]
PoolLogAddr == [pay |-> "r", cancel |-> "s"]
\* The default, with a user who sends; with queryBackendOnResync; without the feed.
PoolDeployments ==
  {[adders |-> {"feed", "send"}, query |-> FALSE],
   [adders |-> {"feed", "resync"}, query |-> TRUE],
   [adders |-> {"resync"}, query |-> TRUE]}
PoolNonce == [tx \in PoolTx |-> 1]

\* Sends through one relay: a replacement that decodes or does not, the next nonce, and a send alone, each with what may
\* happen around it.
AltTx == {"t1", "t2"}
AltSends == {"s1", "s2"}
AltUrl == <<"u1">>
AltBackoff == <<<<2, 1>>, <<9, 2>>>>

Plan(nonce2, decodes2) ==
  [sends |-> AltSends, tx |-> [s \in AltSends |-> IF s = "s1" THEN "t1" ELSE "t2"],
   from |-> [t \in AltTx |-> "a"],
   nonce |-> [t \in AltTx |-> IF t = "t1" THEN 0 ELSE nonce2],
   decodes |-> [t \in AltTx |-> t = "t1" \/ decodes2],
   clock |-> 1, prompt |-> FALSE, flakes |-> 0, reads |-> FALSE, mines |-> FALSE, forgets |-> FALSE, stops |-> FALSE]

Replacement == Plan(0, TRUE)
Opaque == Plan(0, FALSE)     \* a replacement whose raw hex does not decode
NextNonce == Plan(1, TRUE)
Alone == [Plan(0, TRUE) EXCEPT !.sends = {"s1"}]

AltPlans ==
  {[Replacement EXCEPT !.mines = TRUE], [Replacement EXCEPT !.clock = 2],
   [Opaque EXCEPT !.forgets = TRUE], [Opaque EXCEPT !.flakes = 1, !.stops = TRUE],
   [NextNonce EXCEPT !.mines = TRUE],
   [Alone EXCEPT !.clock = 4, !.reads = TRUE, !.forgets = TRUE],
   [Alone EXCEPT !.clock = 2, !.mines = TRUE, !.flakes = 1, !.stops = TRUE]}

Alt == INSTANCE AltSend WITH
    Tx <- AltTx, Send <- AltSends, Sender <- {"a"}, Plans <- AltPlans, Url <- AltUrl, Backoff <- AltBackoff,
    CheckPeriod <- 1, MempoolTxsTimeout <- 2, MissingTimeout <- 1, RoutingWindow <- 1, ExposeAttempts <- 2,
    MaxRefresh <- 1, MaxExpose <- 1, unread <- altUnread, superseding <- altSuperseding

-----------------------------------------------------------------------------
altVars == <<plan, mempoolTxs, recentSenders, acceptedSlots, sendGeneration, inFlight, mempool, send, evict, reconcile,
             relay, confirmed, altUnread, altSuperseding, stop, clock, flakes>>

PendingInit ==
    /\ part \in {"mempool", "relay"}
    /\ Init /\ (part # "mempool" => deployment = CHOOSE d \in PoolDeployments : TRUE)
    /\ Alt!Init /\ (part # "relay" => plan = CHOOSE p \in AltPlans : TRUE)

PendingNext ==
    /\ \/ part = "mempool" /\ Next /\ UNCHANGED altVars
       \/ part = "relay" /\ Alt!Next /\ UNCHANGED vars
    /\ UNCHANGED part

InMempool == part = "mempool"
InRelay == part = "relay"

\* With the fairness of both modules.
PendingSpec ==
    /\ PendingInit /\ [][PendingNext]_<<part, vars, altVars>>
    /\ WF_vars(InMempool /\ Tick) /\ WF_vars(InMempool /\ ResyncStep)
    /\ WF_vars(InMempool /\ "resync" \in Adder /\ Add("resync"))
    /\ WF_altVars(InRelay /\ Alt!ReconcileStart) /\ WF_altVars(InRelay /\ Alt!markProbed)
    /\ WF_altVars(InRelay /\ Alt!ReconcileProbe) /\ WF_altVars(InRelay /\ Alt!Removal("reconcile"))

-----------------------------------------------------------------------------
\* Between sends a slot has one exposed transaction, the one accepted last, and after the drain of shutdown nothing is
\* written any more.
RelayExposesNewest == part = "relay" => Alt!ExposedOnce /\ Alt!NewestExposed /\ Alt!QuietAfterDrain

\* A transaction that is mined or gone leaves the mempool, and one that outlived its time leaves the relay cache.
PendingLeaves ==
    /\ Retired
    /\ Alt!Leaves
=============================================================================
