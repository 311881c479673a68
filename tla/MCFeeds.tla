------------------------------- MODULE MCFeeds -------------------------------
(***************************************************************************)
(* What the backend feeds Blockbook with, for TLC: the mempool of a        *)
(* Bitcoin-type coin and the tip of an Ethereum-type coin.  The parts      *)
(* share no state, so a behaviour exercises one of them, and the variables *)
(* of the other keep their first values.                                   *)
(***************************************************************************)
EXTENDS MempoolBitcoin, TipFeed, TLC

CONSTANTS t1, t2, t3, w1, w2, f1, f2

VARIABLE part

\* A transaction, one that spends its output and one that shares an address.
PoolTx == {t1, t2, t3}
PoolOutputs == t1 :> {"a"} @@ t2 :> {"b"} @@ t3 :> {"a"}
PoolInputs == t1 :> {} @@ t2 :> {"a"} @@ t3 :> {"b"}

\* Two branches over two heights: every change of the tip is possible.
Headers == [height : 1..2, branch : {"a", "b"}]

-----------------------------------------------------------------------------
InPool == part = "mempool"
InTip == part = "tip"

FeedsInit ==
    /\ part \in {"mempool", "tip"}
    /\ Init /\ (InTip => batchSize = 1 /\ pool = {})
    /\ TipInit /\ (InPool => backend = [height |-> 1, branch |-> "a"])

FeedsNext ==
    /\ \/ InPool /\ Next /\ UNCHANGED tipVars
       \/ InTip /\ TipNext /\ UNCHANGED vars
    /\ UNCHANGED part

\* With the fairness of both modules.
FeedsSpec ==
    /\ FeedsInit /\ [][FeedsNext]_<<part, vars, tipVars>>
    /\ WF_vars(InPool /\ Main)
    /\ \A w \in TxWorker : WF_vars(InPool /\ Worker(w))
    /\ \A f \in BatchWorker : WF_vars(InPool /\ Fetcher(f))
    /\ WF_tipVars(InTip /\ Age) /\ WF_tipVars(InTip /\ Reader) /\ WF_tipVars(InTip /\ newBlockNotifier)
    /\ WF_tipVars(InTip /\ getBestHeader) /\ WF_tipVars(InTip /\ WatchdogStep)
    /\ \A f \in Feed : WF_tipVars(InTip /\ Resubscribe(f))

-----------------------------------------------------------------------------
\* When the backend has settled, the mempool holds what the backend lists (Resync, its workers and batch workers), and the
\* cached tip and the one the sync loop saw are the backend's (the newHeads feed and the watchdog).  The newHeads feed is
\* restored after every failure, of a subscription, of a poll or of any step of a reconnect.
FeedsSettle ==
    /\ <>[](IF InPool THEN Stored = pool ELSE cached = backend /\ seen = backend)
    /\ HeadsRestored
=============================================================================
