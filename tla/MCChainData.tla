----------------------------- MODULE MCChainData -----------------------------
(***************************************************************************)
(* What the columns say of a chain, for TLC: the index of an EVM chain     *)
(* and the assets of Syscoin.  The parts share no state, so a behaviour    *)
(* exercises one of them, and the variables of the other keep their first  *)
(* values.                                                                 *)
(***************************************************************************)
EXTENDS EthIndex, SyscoinAssets

CONSTANTS b1, b2, f2, x1, x2, x3, x4, alice, bob, vault, pool, nft, multi

VARIABLE part

\* Two branches over one block.  x1 mints an NFT and a multi token, x2 creates the contracts vault and pool and destroys vault; on
\* one branch x3 passes the NFT on twice and destroys pool, on the other x4 creates vault again.
Call(type, from, to) == [type |-> type, from |-> from, to |-> to]
Pass(std, contract, from, to, ids) ==
  [std |-> std, contract |-> contract, from |-> from, to |-> to, ids |-> ids]
One(id, value) == <<[id |-> id, value |-> value]>>

EvmTx ==
  x1 :> [from |-> alice, to |-> nft, root |-> NoAddr, calls |-> <<>>,
         transfers |-> <<Pass("NFT", nft, ZeroAddr, alice, One(1, 1)),
                         Pass("MT", multi, ZeroAddr, alice, One(1, 3))>>]
  @@ x2 :> [from |-> alice, to |-> NoAddr, root |-> vault,
            calls |-> <<Call("CREATE", vault, pool), Call("SELFDESTRUCT", vault, alice)>>,
            transfers |-> <<Pass("MT", multi, alice, bob, One(1, 2))>>]
  @@ x3 :> [from |-> bob, to |-> vault, root |-> NoAddr,
            calls |-> <<Call("SELFDESTRUCT", pool, bob)>>,
            transfers |-> <<Pass("NFT", nft, alice, bob, One(1, 1)),
                            Pass("NFT", nft, bob, alice, One(1, 1)),
                            Pass("NFT", nft, alice, alice, One(1, 1))>>]
  @@ x4 :> [from |-> bob, to |-> bob, root |-> NoAddr,
            calls |-> <<Call("CREATE", bob, vault)>>,
            transfers |-> <<Pass("MT", multi, alice, alice, One(1, 1)),
                            Pass("FT", pool, alice, bob, <<>>)>>]

EvmBody == b1 :> <<x1, x2>> @@ b2 :> <<x3>> @@ f2 :> <<x4>>
EvmParent == b1 :> NoBlock @@ b2 :> b1 @@ f2 :> b1

\* A transaction: outputs by address, allocation of assets to outputs.
Alloc(n, g, v) == [n |-> n, guid |-> g, value |-> v]
From(id, n) == [id |-> id, n |-> n]
Mint == [id |-> "mint", version |-> 140, ins |-> <<>>, outs |-> <<"alice", "bob">>,
         alloc |-> <<Alloc(0, 7, 3), Alloc(1, 7, 1)>>]
Send == [id |-> "send", version |-> 142, ins |-> <<From("mint", 1)>>, outs |-> <<"bob", "alice">>,
         alloc |-> <<Alloc(0, 7, 2), Alloc(1, 7, 1)>>]
Burn == [id |-> "burn", version |-> 138, ins |-> <<From("send", 1)>>, outs |-> <<"bob">>, alloc |-> <<>>]
Wrap == [id |-> "wrap", version |-> 139, ins |-> <<>>, outs |-> <<"bob">>, alloc |-> <<Alloc(0, 123456, 2)>>]
Broken == [id |-> "broken", version |-> 142, ins |-> <<>>, outs |-> <<"bob">>, alloc |-> <<Alloc(1, 7, 2)>>]
AssetBlocks == {<<Mint>>, <<Mint, Send>>, <<Send, Burn>>, <<Burn, Wrap>>, <<Broken>>}

-----------------------------------------------------------------------------
assetVars == <<sptChain, assetRows, txAssetRows, holdings, assetCache, cacheLoaded, pendingBatch, reader, overwritten,
               visits, restarts>>

DataInit ==
    /\ part \in {"evm", "assets"}
    /\ Init /\ SptInit

DataNext ==
    /\ \/ part = "evm" /\ Next /\ UNCHANGED assetVars
       \/ part = "assets" /\ SptNext /\ UNCHANGED vars
    /\ UNCHANGED part

\* With the fairness of EthIndex.
DataSpec ==
    /\ DataInit /\ [][DataNext]_<<part, vars, assetVars>>
    /\ part = "evm" => Fairness

-----------------------------------------------------------------------------
\* The records of every address, the history rows and the registry of contracts are the replay of the chain, after any
\* connects, disconnects, heals and evictions.
EvmIndexIsReplay == RecordsReplay /\ HistoryReplay /\ RegistrySane

\* The asset rows are the replay of the chain, their pages partition the history of an asset, what is shown as
\* unconfirmed is what confirmation makes of it, and a search finds every asset.
AssetsRight ==
    part = "assets" => /\ AssetsReplay /\ AssetPagesPartition
                       /\ PendingAssetsAgree /\ AssetsFindable
=============================================================================
