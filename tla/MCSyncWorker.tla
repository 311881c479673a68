---------------------------- MODULE MCSyncWorker ----------------------------
(***************************************************************************)
(* Small instances of SyncWorker: a block tree with a fork of depth two.   *)
(* The constants of the configuration are those of a Bitcoin-type coin     *)
(* with a sequential sync; Evm is an Ethereum-type coin with bulk and      *)
(* parallel rounds, on the same variables.                                 *)
(***************************************************************************)
EXTENDS SyncWorker

CONSTANTS g0, a1, a2, a3, b2, b3

VARIABLE coin

TreeBlock == {g0, a1, a2, a3, b2, b3}

TreeParent == [b \in TreeBlock |->
  CASE b = g0 -> NoHash [] b = a1 -> g0 [] b = a2 -> a1 [] b = a3 -> a2
    [] b = b2 -> a1     [] b = b3 -> b2]

TreeChains == {<<g0, a1>>, <<g0, a1, a2>>, <<g0, a1, a2, a3>>,
               <<g0, a1, b2>>, <<g0, a1, b2, b3>>}

Evm == INSTANCE SyncWorker WITH
  EthType <- TRUE, Keep <- 1, Workers <- 2, SyncChunk <- 0, FallBehindGap <- 0,
  HasNext <- FALSE, AllowShorter <- FALSE

-----------------------------------------------------------------------------
CoinInit == coin \in {"bitcoin", "evm"} /\ Init

CoinNext ==
  \/ coin = "bitcoin" /\ Next /\ UNCHANGED coin
  \/ coin = "evm" /\ Evm!Next /\ UNCHANGED coin

\* The fairness of SyncWorker, for the coin at hand.
CoinSpec ==
  /\ CoinInit /\ [][CoinNext]_<<coin, vars>>
  /\ WF_vars(coin = "bitcoin" /\ SyncStep)
  /\ WF_vars(coin = "evm" /\ Evm!SyncStep) /\ WF_vars(coin = "evm" /\ Evm!FeedMovesTip)
=============================================================================
