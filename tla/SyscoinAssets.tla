---------------------------- MODULE SyscoinAssets ----------------------------
(***************************************************************************)
(* Syscoin platform tokens (SPT): the assets an allocation transaction     *)
(* attaches to its outputs, the rows the index keeps about them            *)
(* (db/rocksdb_syscointype.go with the calls of db/rocksdb.go), the cache  *)
(* of asset records that the writer and the API share, and the asset       *)
(* history the API pages through (api/worker.go).                          *)
(*                                                                         *)
(* An asset record is its number of transactions and whether its metadata  *)
(* came from the NEVM registry or is the fallback; symbols, precisions and *)
(* contracts are abstracted away.                                          *)
(***************************************************************************)
EXTENDS Integers, Sequences, FiniteSets, SequencesExt, FiniteSetsExt

CONSTANTS
    Spt,         \* asset guids
    SYSX,        \* the guid of the bridge asset, whose metadata is built in
    Holders,     \* addresses
    SptBlocks,   \* blocks that may be connected: sequences of transactions
    SptMaxChain, \* bound on the length of the chain
    SptRestarts, \* bound on restarts of the server
    SptReaders,  \* API requests that read an asset
    SptVisits,   \* bound on the number of requests
    TxsModulus   \* 2^32, the width of Asset.Transactions

VARIABLES
    sptChain,    \* connected blocks
    assetRows,   \* cfAssets
    txAssetRows, \* cfTxAssets: <<guid, height>> to a list of transactions
    holdings,    \* AssetBalances of the addresses
    assetCache,  \* AssetCache
    cacheLoaded, \* ~SetupAssetCacheFirstTime
    pendingBatch,\* the batch of the block being written
    reader,      \* the API requests
    overwritten, \* assets whose cached record a request replaced by an older one
    visits,      \* requests so far
    restarts

sptVars == <<sptChain, assetRows, txAssetRows, holdings, assetCache, cacheLoaded,
             pendingBatch, reader, overwritten, visits, restarts>>
sptDb == <<sptChain, assetRows, txAssetRows, holdings>>

-----------------------------------------------------------------------------
(* Parsing: versions 138 to 142 are asset transactions, and the allocation *)
(* of the OP_RETURN output says which outputs carry which asset.           *)

AllocationVersions == {138, 139, 141, 142}
MintVersion == 140
IsSyscoinTx(version) == version \in AllocationVersions \cup {MintVersion}
GetAssetsMaskFromVersion(version) ==
    CASE version = 140 -> 32 [] version = 141 -> 16 [] version = 138 -> 8
      [] version = 139 -> 4  [] version = 142 -> 2  [] OTHER -> 1

\* LoadAssets: the i-th output carries the last allocation that names it, and an
\* allocation of an output that is not there fails the transaction.
LoadAssets(tx) ==
    LET of(n) == SelectSeq(tx.alloc, LAMBDA v : v.n = n - 1)
    IN [ok |-> ~IsSyscoinTx(tx.version) \/ \A i \in DOMAIN tx.alloc : tx.alloc[i].n < Len(tx.outs),
        assets |-> [n \in DOMAIN tx.outs |->
                      IF IsSyscoinTx(tx.version) /\ of(n) # <<>>
                      THEN [guid |-> Last(of(n)).guid, value |-> Last(of(n)).value]
                      ELSE [guid |-> 0, value |-> 0]]]

\* A block one of whose transactions cannot be parsed is refused.
ParseBlock(b) == \A i \in DOMAIN b : LoadAssets(b[i]).ok

\* Outputs and spent outputs of a transaction that carry asset g: address and value.
Known == UNION {Range(b) : b \in SptBlocks}
ById(id) == CHOOSE tx \in Known : tx.id = id
Loaded == [tx \in Known |-> LoadAssets(tx).assets]
PaidOf == [tx \in Known, g \in Spt |->
             {[n |-> n, addr |-> tx.outs[n], value |-> Loaded[tx][n].value] :
                n \in {m \in DOMAIN tx.outs : Loaded[tx][m].guid = g}}]
SpentOf == [tx \in Known, g \in Spt |->
              LET from(i) == ById(tx.ins[i].id)
                  asset(i) == Loaded[from(i)][tx.ins[i].n]
              IN {[n |-> i, addr |-> from(i).outs[tx.ins[i].n], value |-> asset(i).value] :
                    i \in {j \in DOMAIN tx.ins : asset(j).guid = g}}]
AssetOuts(tx, g) == PaidOf[tx, g]
AssetIns(tx, g) == SpentOf[tx, g]
TouchesAsset(tx, g) == AssetOuts(tx, g) \cup AssetIns(tx, g) # {}
Sum(entries) == MapThenSumSet(LAMBDA e : e.value, entries)
OfHolder(entries, a) == {e \in entries : e.addr = a}

-----------------------------------------------------------------------------
(* What a block does to the rows.                                          *)

\* addToAssetsMap: outputs of the whole block are met before its inputs.
BlockAssetTxs(b, g) ==
    LET row(tx) == <<[id |-> tx.id, mask |-> GetAssetsMaskFromVersion(tx.version)]>>
        paid == FoldLeft(LAMBDA l, tx : IF AssetOuts(tx, g) # {} THEN l \o row(tx) ELSE l, <<>>, b)
    IN FoldLeft(LAMBDA l, tx : IF AssetOuts(tx, g) = {} /\ AssetIns(tx, g) # {} THEN l \o row(tx) ELSE l, paid, b)

\* addToAssetAddressMap: an address counts one transfer per transaction.
AssetTransfersOf(b, a, g) ==
    Cardinality({i \in DOMAIN b : OfHolder(AssetOuts(b[i], g) \cup AssetIns(b[i], g), a) # {}})
BlockOuts(b, a, g) == LET s(i) == Sum(OfHolder(AssetOuts(b[i], g), a)) IN MapThenSumSet(s, DOMAIN b)
BlockIns(b, a, g) == LET s(i) == Sum(OfHolder(AssetIns(b[i], g), a)) IN MapThenSumSet(s, DOMAIN b)

NoHolding == [balance |-> 0, sent |-> 0, transfers |-> 0]
NotNegative(v) == IF v < 0 THEN 0 ELSE v

\* ConnectAllocationOutput for every output, then ConnectAllocationInput for every input.
ConnectAllocations(h, b, a, g) ==
    [balance |-> NotNegative(h.balance + BlockOuts(b, a, g) - BlockIns(b, a, g)),
     sent |-> h.sent + BlockIns(b, a, g),
     transfers |-> h.transfers + AssetTransfersOf(b, a, g)]

\* Mutant: the outputs are taken back before the inputs.
MutDisconnectAllocations(h, b, a, g) ==
    [balance |-> NotNegative(NotNegative(h.balance - BlockOuts(b, a, g)) + BlockIns(b, a, g)),
     sent |-> NotNegative(h.sent - BlockIns(b, a, g)),
     transfers |-> h.transfers - AssetTransfersOf(b, a, g)]

\* DisconnectAllocationInput first, then DisconnectAllocationOutput.
DisconnectAllocations(h, b, a, g) ==
    [balance |-> NotNegative(h.balance + BlockIns(b, a, g) - BlockOuts(b, a, g)),
     sent |-> NotNegative(h.sent - BlockIns(b, a, g)),
     transfers |-> h.transfers - AssetTransfersOf(b, a, g)]

NoAsset == [txs |-> 0, real |-> FALSE]
Has(f, k) == k \in DOMAIN f
Put(f, k, v) == [x \in DOMAIN f \cup {k} |-> IF x = k THEN v ELSE f[x]]
WithoutRow(f, ks) == [x \in DOMAIN f \ ks |-> f[x]]

\* GetAsset as the writer calls it: cache, then row, then the registry, which may be
\* down; a fallback record is replaced whenever the registry answers.
WriterAsset(g, registry) ==
    LET known == IF Has(assetCache, g) THEN assetCache[g]
                 ELSE IF Has(assetRows, g) THEN assetRows[g] ELSE NoAsset
    IN [known EXCEPT !.real = @ \/ registry \/ g = SYSX]

\* Transactions of the asset in the block are counted once each.
CountedUp(asset, b, g) == [asset EXCEPT !.txs = (@ + Len(BlockAssetTxs(b, g))) % TxsModulus]
\* Undoing counts them down; only an output may find that the asset has vanished.
CountedDown(asset, b, g) == [asset EXCEPT !.txs = (@ - Len(BlockAssetTxs(b, g))) % TxsModulus]
OnlyPaid(b, g) == {i \in DOMAIN b : AssetOuts(b[i], g) # {} /\ AssetIns(b[i], g) = {}}
\* A record asked for again in the block after it was marked for removal, while it is
\* a fallback and the registry answers, is replaced by one without the mark.
AskedAgain(b, g) ==
    \E i \in OnlyPaid(b, g) : /\ \A j \in OnlyPaid(b, g) : j <= i
                              /\ \/ Cardinality(AssetOuts(b[i], g)) > 1
                                 \/ \E j \in DOMAIN b : j > i /\ AssetOuts(b[j], g) # {}
Vanishes(asset, b, g, again) ==
    /\ g # SYSX
    /\ asset.txs = 0
    /\ OnlyPaid(b, g) # {}
    /\ ~(AskedAgain(b, g) /\ ~asset.real /\ again)
BlockAssets(b) == {g \in Spt : \E i \in DOMAIN b : TouchesAsset(b[i], g)}

-----------------------------------------------------------------------------
(* The writer.  storeAssets fills the cache while the batch is built; the  *)
(* rows follow when the batch is committed.                                *)

SptIdle == [at |-> "idle"]
SptInit ==
    /\ sptChain = <<>> /\ assetRows = <<>> /\ txAssetRows = <<>> /\ holdings = <<>>
    /\ assetCache = <<>> /\ cacheLoaded = FALSE
    /\ pendingBatch = SptIdle
    /\ reader = [r \in SptReaders |-> SptIdle]
    /\ overwritten = {} /\ visits = 0 /\ restarts = 0

Holding(k) == IF Has(holdings, k) THEN holdings[k] ELSE NoHolding
Touched(b) == {k \in Holders \X Spt : AssetTransfersOf(b, k[1], k[2]) > 0}
MergeInto(f, g) == [x \in DOMAIN f \cup DOMAIN g |-> IF x \in DOMAIN g THEN g[x] ELSE f[x]]

storeAssets(assets, gone) ==
    assetCache' = WithoutRow(MergeInto(assetCache, assets), gone)

SptConnectBlock(b) ==
    LET height == Len(sptChain) + 1 IN
    /\ pendingBatch = SptIdle
    /\ Len(sptChain) < SptMaxChain
    /\ ParseBlock(b)
    /\ \A i \in DOMAIN sptChain : Range(sptChain[i]) \cap Range(b) = {}
    /\ \A i \in DOMAIN b : \A j \in DOMAIN b[i].ins :
          \E tx \in Range(b) \cup UNION {Range(sptChain[k]) : k \in DOMAIN sptChain} : tx.id = b[i].ins[j].id
    /\ \E registry \in BOOLEAN :
          LET assets == [g \in BlockAssets(b) |-> CountedUp(WriterAsset(g, registry), b, g)]
          IN /\ storeAssets(assets, {})
             /\ pendingBatch' = [at |-> "commit", chain |-> Append(sptChain, b),
                   rows |-> MergeInto(assetRows, assets),
                   txRows |-> MergeInto(txAssetRows, [k \in BlockAssets(b) \X {height} |-> BlockAssetTxs(b, k[1])]),
                   held |-> MergeInto(holdings,
                              [k \in Touched(b) |-> ConnectAllocations(Holding(k), b, k[1], k[2])])]
    /\ UNCHANGED <<sptDb, cacheLoaded, reader, overwritten, visits, restarts>>

\* An address with no transaction left loses its row, its asset balances with it; these
\* addresses are met only by asset outputs, so their transfers count their transactions.
disconnectBlock ==
    LET b == Last(sptChain)  height == Len(sptChain) IN
    /\ pendingBatch = SptIdle
    /\ sptChain # <<>>
    /\ \E registry, again \in BOOLEAN :
          LET assets == [g \in BlockAssets(b) |-> CountedDown(WriterAsset(g, registry), b, g)]
              gone == {g \in BlockAssets(b) : Vanishes(assets[g], b, g, again)}
              held == MergeInto(holdings, [k \in Touched(b) |-> DisconnectAllocations(Holding(k), b, k[1], k[2])])
              left == {k \in DOMAIN held : \A j \in DOMAIN held : j[1] = k[1] => held[j].transfers = 0}
          IN /\ storeAssets(assets, gone)
             /\ pendingBatch' = [at |-> "commit", chain |-> Front(sptChain),
                   rows |-> WithoutRow(MergeInto(assetRows, assets), gone),
                   txRows |-> WithoutRow(txAssetRows, BlockAssets(b) \X {height}),
                   held |-> WithoutRow(held, left)]
    /\ UNCHANGED <<sptDb, cacheLoaded, reader, overwritten, visits, restarts>>

SptWriteBatch ==
    /\ pendingBatch.at = "commit"
    /\ sptChain' = pendingBatch.chain
    /\ assetRows' = pendingBatch.rows
    /\ txAssetRows' = pendingBatch.txRows
    /\ holdings' = pendingBatch.held
    /\ pendingBatch' = SptIdle
    /\ UNCHANGED <<assetCache, cacheLoaded, reader, overwritten, visits, restarts>>

\* The process stops at any moment; the batch is atomic and the cache is lost.
SptRestart ==
    /\ restarts < SptRestarts
    /\ restarts' = restarts + 1
    /\ assetCache' = <<>> /\ cacheLoaded' = FALSE
    /\ pendingBatch' = SptIdle
    /\ reader' = [r \in SptReaders |-> SptIdle]
    /\ UNCHANGED <<sptDb, overwritten, visits>>

-----------------------------------------------------------------------------
(* API requests.  GetAsset releases the lock of the cache while it reads   *)
(* the row or asks the registry, and then writes the cache.                *)

\* What the request writes is older than what the writer has stored meanwhile.
Older(g, asset) ==
    LET rows == IF pendingBatch.at = "commit" THEN pendingBatch.rows ELSE assetRows
    IN asset.txs # (IF Has(rows, g) THEN rows[g].txs ELSE 0)

GetAsset(r, g) ==
    /\ reader[r] = SptIdle
    /\ visits < SptVisits /\ visits' = visits + 1
    /\ reader' = [reader EXCEPT ![r] =
          IF ~Has(assetCache, g) THEN [at |-> "row", guid |-> g]
          ELSE IF g # SYSX /\ ~assetCache[g].real THEN [at |-> "fetch", guid |-> g, asset |-> assetCache[g], row |-> FALSE]
          ELSE SptIdle]
    /\ UNCHANGED <<sptDb, assetCache, cacheLoaded, pendingBatch, overwritten, restarts>>

GetAssetRow(r) ==
    /\ reader[r].at = "row"
    /\ LET g == reader[r].guid
       IN reader' = [reader EXCEPT ![r] =
             IF ~Has(assetRows, g)
             THEN IF g = SYSX THEN [at |-> "cache", guid |-> g, asset |-> [txs |-> 0, real |-> TRUE]]
                  ELSE [at |-> "fetch", guid |-> g, asset |-> NoAsset, row |-> FALSE]
             ELSE IF ~assetRows[g].real THEN [at |-> "fetch", guid |-> g, asset |-> assetRows[g], row |-> TRUE]
             ELSE [at |-> "cache", guid |-> g, asset |-> assetRows[g]]]
    /\ UNCHANGED <<sptDb, assetCache, cacheLoaded, pendingBatch, overwritten, visits, restarts>>

\* The registry answers, or it does not: then a fallback record that was read from its row
\* is cached as it is, a cached one stays, and an asset that is in neither place is an error.
FetchNEVMAssetDetails(r) ==
    /\ reader[r].at = "fetch"
    /\ \E answers \in BOOLEAN :
          reader' = [reader EXCEPT ![r] =
             IF answers \/ @.row
             THEN [at |-> "cache", guid |-> @.guid, asset |-> [@.asset EXCEPT !.real = @ \/ answers]]
             ELSE SptIdle]
    /\ UNCHANGED <<sptDb, assetCache, cacheLoaded, pendingBatch, overwritten, visits, restarts>>

CacheAsset(r) ==
    /\ reader[r].at = "cache"
    /\ assetCache' = Put(assetCache, reader[r].guid, reader[r].asset)
    /\ overwritten' = overwritten \cup (IF Older(reader[r].guid, reader[r].asset) THEN {reader[r].guid} ELSE {})
    /\ reader' = [reader EXCEPT ![r] = SptIdle]
    /\ UNCHANGED <<sptDb, cacheLoaded, pendingBatch, visits, restarts>>

\* FindAssetsFromFilter loads every row into the cache the first time.
SetupAssetCache(r) ==
    /\ reader[r] = SptIdle
    /\ visits < SptVisits /\ visits' = visits + 1
    /\ ~cacheLoaded
    /\ cacheLoaded' = TRUE
    /\ assetCache' = MergeInto(assetCache, assetRows)
    /\ overwritten' = overwritten \cup {g \in DOMAIN assetRows : Older(g, assetRows[g])}
    /\ UNCHANGED <<sptDb, pendingBatch, reader, restarts>>

SptNext ==
    \/ \E b \in SptBlocks : SptConnectBlock(b)
    \/ disconnectBlock \/ SptWriteBatch \/ SptRestart
    \/ \E r \in SptReaders : \/ \E g \in Spt : GetAsset(r, g)
                             \/ GetAssetRow(r) \/ FetchNEVMAssetDetails(r) \/ CacheAsset(r) \/ SetupAssetCache(r)

-----------------------------------------------------------------------------
(* The asset history of the API.                                           *)

\* GetTxAssets: newest block first, within a block in the order stored.
GetTxAssets(g, lower, higher, wanted) ==
    LET at(h) == IF Has(txAssetRows, <<g, h>>)
                 THEN SelectSeq(txAssetRows[<<g, h>>], LAMBDA t : wanted = {} \/ t.mask \in wanted) ELSE <<>>
        top == IF higher < Len(sptChain) THEN higher ELSE Len(sptChain)
    IN FlattenSeq([i \in 1..NotNegative(top - lower + 1) |-> at(top + 1 - i)])

Ids(list) == [i \in DOMAIN list |-> list[i].id]
LastPage(count, size) == IF count = 0 THEN 0 ELSE (count - 1) \div size
ClampPage(count, page, size) == IF page * size >= count THEN LastPage(count, size) ELSE page

\* GetAsset of the worker: pending transactions come first, then confirmed ones; an
\* unfiltered listing trusts the number of transactions of the asset record.
AssetPage(g, pending, asked, size, wanted) ==
    LET total == IF wanted = {} THEN assetRows[g].txs ELSE -1
        page == IF total >= 0 THEN ClampPage(total + Len(pending), asked, size) ELSE asked
        to == NotNegative((page + 1) * size - Len(pending))
        from == NotNegative(page * size - Len(pending))
        confirmed == IF to = 0 THEN <<>> ELSE Ids(GetTxAssets(g, 0, Len(sptChain), wanted))
        cut(s, i, j) == SubSeq(s, i + 1, IF j > Len(s) THEN Len(s) ELSE j)
    IN cut(pending, page * size, (page + 1) * size) \o cut(confirmed, from, to)

\* FindAssets: the cached assets in the order of their guids, a page at a time.
FindAssetsFromFilter(found) == SetToSortSeq({g \in DOMAIN assetCache : g \in found}, <)
FindAssets(found, asked, size) ==
    LET all == FindAssetsFromFilter(found)
        page == ClampPage(Len(all), asked, size)
    IN SubSeq(all, page * size + 1, IF (page + 1) * size < Len(all) THEN (page + 1) * size ELSE Len(all))

-----------------------------------------------------------------------------
(* Unconfirmed assets of an address, from the pending transactions.        *)

addAddrVoutAssetMempool(tx, a, g) == Sum(OfHolder(AssetOuts(tx, g), a))
addAddrVinAssetMempool(tx, a, g) == 0 - Sum(OfHolder(AssetIns(tx, g), a))
\* A transaction that both spends and pays an asset of the address counts once.
addUnconfirmedTx(txs, a, g) ==
    Cardinality({i \in DOMAIN txs : OfHolder(AssetOuts(txs[i], g), a) # {} \/ OfHolder(AssetIns(txs[i], g), a) # {}})

getSyscoinAddressAssetTokens(a, txs) ==
    LET pays(g) == \E i \in DOMAIN txs : OfHolder(AssetOuts(txs[i], g) \cup AssetIns(txs[i], g), a) # {}
        delta(g) == MapThenSumSet(LAMBDA i : addAddrVoutAssetMempool(txs[i], a, g)
                                             + addAddrVinAssetMempool(txs[i], a, g), DOMAIN txs)
    IN {[guid |-> g, balance |-> Holding(<<a, g>>).balance, sent |-> Holding(<<a, g>>).sent,
         received |-> Holding(<<a, g>>).balance + Holding(<<a, g>>).sent,
         transfers |-> Holding(<<a, g>>).transfers,
         unconfirmed |-> delta(g), unconfirmedTxs |-> addUnconfirmedTx(txs, a, g)] :
           g \in {h \in Spt : Has(holdings, <<a, h>>) \/ pays(h)}}

assetMempoolValue(tx, g) == Sum(AssetOuts(tx, g)) - Sum(AssetIns(tx, g))
\* summarizeTxForAccount: assets whose value changed for the account, without the sign.
AccountAssetTransfers(tx, as) ==
    LET of(entries) == {e \in entries : e.addr \in as}
        change(g) == Sum(of(AssetOuts(tx, g))) - Sum(of(AssetIns(tx, g)))
    IN {[guid |-> g, value |-> IF change(g) < 0 THEN 0 - change(g) ELSE change(g)] :
          g \in {h \in Spt : change(h) # 0}}

-----------------------------------------------------------------------------
(* The reference: what the connected blocks say.                           *)

AssetTxsOf(g) == {i \in 1..Len(sptChain) : BlockAssetTxs(sptChain[i], g) # <<>>}
TrueTxs(g) == MapThenSumSet(LAMBDA i : Len(BlockAssetTxs(sptChain[i], g)), AssetTxsOf(g))
TrueHolding(k) ==
    LET outs(i) == BlockOuts(sptChain[i], k[1], k[2])
        ins(i) == BlockIns(sptChain[i], k[1], k[2])
        met(i) == AssetTransfersOf(sptChain[i], k[1], k[2])
    IN [balance |-> MapThenSumSet(outs, DOMAIN sptChain) - MapThenSumSet(ins, DOMAIN sptChain),
        sent |-> MapThenSumSet(ins, DOMAIN sptChain), transfers |-> MapThenSumSet(met, DOMAIN sptChain)]

(* Whatever was connected, undone, interrupted and read meanwhile, the     *)
(* asset rows are those of the connected blocks: every address holds what  *)
(* the unspent asset outputs give it, sent and transferred what its        *)
(* transactions say, and the number of transactions of an asset is right   *)
(* unless a request has put an older record in the shared cache            *)
(* (ConnectAllocation*, DisconnectAllocation*, storeAssets, GetAsset).     *)
AssetsReplay ==
    /\ \A k \in Holders \X Spt : Holding(k) = TrueHolding(k)
    /\ \A g \in Spt \ overwritten :
          (IF Has(assetRows, g) THEN assetRows[g].txs ELSE 0) = TrueTxs(g)

(* The pages of an asset's history, put one after the other, are the       *)
(* pending transactions followed by the transactions of the connected      *)
(* blocks that touch the asset, newest block first, each once, and no page *)
(* exceeds its size, for every page size and every filter of transaction   *)
(* types (GetTxAssets, getAssetTxids, Worker.GetAsset).                    *)
AssetPagesPartition ==
    \A g \in DOMAIN assetRows \ overwritten, size \in 1..2 :
       \A pending \in {<<>>, <<"m1">>}, wanted \in {{}, {2}} :
          LET all == pending \o FlattenSeq([i \in DOMAIN sptChain |->
                        Ids(SelectSeq(BlockAssetTxs(sptChain[Len(sptChain) + 1 - i], g),
                                      LAMBDA t : wanted = {} \/ t.mask \in wanted))])
              pages == [p \in 1..(LastPage(Len(all), size) + 1) |-> AssetPage(g, pending, p - 1, size, wanted)]
          IN assetRows[g].txs = TrueTxs(g) =>
                all = FlattenSeq(pages) /\ \A p \in DOMAIN pages : Len(pages[p]) <= size

(* What the API calls unconfirmed is what confirmation will make of it:    *)
(* for every block that may come next, an address's confirmed balance and  *)
(* transfers with the unconfirmed ones of its transactions are the balance *)
(* and the transfers once it is connected, the addresses' changes add up   *)
(* to the asset's, and a transfer shown for the account of one address is  *)
(* its change (getSyscoinAddressAssetTokens, assetMempoolValue,            *)
(* summarizeTxForAccount, against the rows ConnectAllocationOutput and     *)
(* ConnectAllocationInput write).                                          *)
PendingAssetsAgree ==
    pendingBatch = SptIdle =>
       \A b \in {c \in SptBlocks : ENABLED SptConnectBlock(c)}, g \in Spt :
          /\ \A a \in Holders :
                LET after == ConnectAllocations(Holding(<<a, g>>), b, a, g)
                    tokens == {t \in getSyscoinAddressAssetTokens(a, b) : t.guid = g}
                IN /\ tokens = {} => after = Holding(<<a, g>>)
                   /\ \A t \in tokens : /\ t.balance + t.unconfirmed = after.balance
                                        /\ t.transfers + t.unconfirmedTxs = after.transfers
          /\ \A i \in DOMAIN b :
                /\ assetMempoolValue(b[i], g) =
                      MapThenSumSet(LAMBDA a : addAddrVoutAssetMempool(b[i], a, g)
                                               + addAddrVinAssetMempool(b[i], a, g), Holders)
                /\ \A t \in AccountAssetTransfers(b[i], Holders) :
                      t.guid = g => t.value \in {assetMempoolValue(b[i], g), 0 - assetMempoolValue(b[i], g)}

(* Once the cache has been loaded, the pages of a search list every asset  *)
(* that has a row and matches, each once and in the order of the guids     *)
(* (SetupAssetCache, storeAssets, FindAssets).                             *)
AssetsFindable ==
    LET rows == IF pendingBatch.at = "commit" THEN pendingBatch.rows ELSE assetRows
    IN cacheLoaded =>
          \A found \in SUBSET Spt, size \in 1..2 :
             LET all == FindAssetsFromFilter(found)
             IN /\ (DOMAIN rows) \cap found \subseteq Range(all)
                /\ all = FlattenSeq([p \in 1..(LastPage(Len(all), size) + 1) |-> FindAssets(found, p - 1, size)])
=============================================================================
