---------------------------- MODULE AccountReads ----------------------------
(* The account requests of api/worker.go and api/xpub.go, read by read:      *)
(* GetAddressUtxo, GetXpubUtxo (both by getAddrDescUtxo) and GetAddress, and *)
(* the transaction cache they load transactions through (db/txcache.go).     *)
(* One request reads the backend's best chain and mempool, the indexed chain *)
(* and Blockbook's mempool one after the other, without a common lock, while *)
(* the synchronisation moves each of them.                                   *)
EXTENDS ChainQueries

CONSTANTS Genesis,      \* the block both chains start from
          MaxMoves,     \* bound on what the backend does
          Flaky,        \* whether a call of the backend may fail
          Account,      \* the address asked about
          Kinds,        \* the requests made
          MinimumCoinbaseConfirmations,
          TxsOnPage,
          CacheEnabled

VARIABLES backend,      \* the backend's best chain, a sequence of blocks
          bpool,        \* the backend's mempool, a set of txids
          chain,        \* the indexed chain
          pool,         \* Blockbook's mempool, a sequence of txids, oldest first
          cached,       \* the column of cached transactions: txid -> height
          moves,        \* what the backend has done so far
          req,          \* the request
          kept          \* what was true of the account at every moment, and at some moment, of the request

chainVars == <<backend, bpool, chain, pool, cached, moves>>

\* The mempool's outpoints of an address, newest first, reduced to their transactions.
MempoolTxids(a) == Reverse(SelectSeq(pool, LAMBDA t : Touches(a, t)))

ChainInit ==
  /\ backend = <<Genesis>>
  /\ chain = <<Genesis>>
  /\ bpool = {}
  /\ pool = <<>>
  /\ cached = <<>>
  /\ moves = 0

-----------------------------------------------------------------------------
(* The backend (external): a transaction is announced, a block is mined on   *)
(* top of the chain, and the top block is given up for another.              *)
Fee(t) == SumOver(InsOf(t)) - SumOver(OutpointsOf({t}))
Spendable(t, T) == InsOf(t) \subseteq OutpointsOf(T) \ SpentBy(T)
Broadcast(t) ==
  /\ moves < MaxMoves
  /\ t \notin bpool \cup Mined(backend)
  /\ ~Coinbase(t)
  \* it replaces what it conflicts with, if it pays more, and what spends from that
  /\ \A u \in bpool : InsOf(u) \cap InsOf(t) # {} => Fee(u) < Fee(t)
  /\ LET replaced == {u \in bpool : InsOf(u) \cap InsOf(t) # {}}
         rest == {u \in bpool \ replaced : InsOf(u) \cap OutpointsOf(replaced) = {}}
     IN  /\ Spendable(t, rest \cup Mined(backend))
         /\ bpool' = rest \cup {t}
  /\ moves' = moves + 1
  /\ UNCHANGED <<backend, chain, pool, cached>>

Valid(b) == \A i \in DOMAIN Body[b] : LET t == Body[b][i]
                                      IN  Spendable(t, Mined(backend) \cup {Body[b][j] : j \in 1..(i - 1)})
Mine(b) ==
  /\ moves < MaxMoves
  /\ b \notin ToSet(backend)
  /\ Mined(backend) \cap ToSet(Body[b]) = {}
  /\ Valid(b)
  /\ backend' = Append(backend, b)
  /\ bpool' = {t \in bpool : t \notin ToSet(Body[b]) /\ InsOf(t) \cap SpentBy(ToSet(Body[b])) = {}}
  /\ moves' = moves + 1
  /\ UNCHANGED <<chain, pool, cached>>

\* The transactions of the block given up return to the backend's mempool.
GiveUp ==
  /\ moves < MaxMoves
  /\ Len(backend) > 1
  /\ backend' = Front(backend)
  /\ bpool' = bpool \cup {t \in ToSet(Body[Last(backend)]) : ~Coinbase(t)}
  /\ moves' = moves + 1
  /\ UNCHANGED <<chain, pool, cached>>

(* The synchronisation, one block at a time (module SyncWorker), and the     *)
(* mempool's resync (module MempoolBitcoin).                                 *)
ConnectBlock ==
  /\ IsPrefix(chain, backend) /\ chain # backend
  /\ chain' = SubSeq(backend, 1, Len(chain) + 1)
  /\ UNCHANGED <<backend, bpool, pool, cached, moves>>

\* The rows of the block's transactions leave the index, the cached transactions with them.
Without(f, T) == [t \in (DOMAIN f) \ T |-> f[t]]
DisconnectBlock ==
  /\ ~IsPrefix(chain, backend)
  /\ chain' = Front(chain)
  /\ cached' = Without(cached, ToSet(Body[Last(chain)]))
  /\ UNCHANGED <<backend, bpool, pool, moves>>

Resync ==
  /\ ToSet(pool) # bpool
  /\ pool' = SelectSeq(pool, LAMBDA t : t \in bpool) \o SetToSeq(bpool \ ToSet(pool))
  /\ UNCHANGED <<backend, bpool, chain, cached, moves>>

ChainNext ==
  \/ \E t \in Txid : Broadcast(t)
  \/ \E b \in DOMAIN Body : Mine(b)
  \/ GiveUp
  \/ ConnectBlock
  \/ DisconnectBlock
  \/ Resync

-----------------------------------------------------------------------------
readVars == <<req, kept>>
accountVars == <<chainVars, readVars>>

\* The state of the request: where it is, the transactions it still has to load and those loaded with their
\* confirmations, what it has found of them, and what it lists.
Idle == [kind |-> "none", pc |-> "idle", todo |-> <<>>, loaded |-> <<>>, ba |-> Nil, best |-> 0, history |-> <<>>,
         fetch |-> Nil, list |-> <<>>, failed |-> FALSE]

\* What the account owns, and the transactions that touch it, in the index and the mempool taken together; a
\* mempool transaction the backend has dropped no longer counts.
Known == Mined(chain) \cup (ToSet(pool) \cap (bpool \cup Mined(backend)))
Owned == Unspent(Account, Known)
Touching == {t \in Known : Touches(Account, t)}
Listed == {t \in Mined(chain) \cup ToSet(pool) : Touches(Account, t)}

\* forked: the backend gave up a block, or the index, or the transaction cache, held one it had given up; behind: the index was behind the backend;
\* moved: the transactions that entered the index while it ran; stale: those the mempool still had although the
\* index had them.
Level == chain = backend
Forked == \/ ~IsPrefix(chain, backend)
          \/ \E t \in DOMAIN cached : IF t \in Mined(chain) THEN cached[t] # HeightIn(t, chain) ELSE t \notin Mined(backend)
Observe(k) == [k EXCEPT !.owned = @ \cap Owned', !.spent = @ \cap SpentBy(Known'), !.touching = @ \cap Touching',
                        !.everTouching = @ \cup Listed', !.behind = @ \/ ~Level',
                        !.forked = @ \/ Forked' \/ ~IsPrefix(backend, backend'),
                        !.stale = @ \cup (ToSet(pool') \cap Mined(chain')),
                        !.moved = @ \cup (Mined(chain') \ Mined(chain))]
Begin == [owned |-> Owned, spent |-> SpentBy(Known), touching |-> Touching, everTouching |-> Listed,
          behind |-> ~Level, forked |-> Forked, moved |-> {},
          stale |-> ToSet(pool) \cap Mined(chain)]

AccountInit == ChainInit /\ req = Idle /\ kept = Begin

Request(kind, pc) ==
  /\ req.pc = "idle"
  /\ kind \in Kinds
  /\ req' = [Idle EXCEPT !.kind = kind, !.pc = pc]
  /\ UNCHANGED <<chainVars, kept>>

\* A read of the request changes nothing else.
Read == UNCHANGED <<chainVars, kept>>

-----------------------------------------------------------------------------
(* TxCache.GetTransaction.  A cached transaction has the confirmations of    *)
(* the indexed height; another comes from the backend, and a confirmed one   *)
(* is stored with the height the index has for it, or the backend's best     *)
(* height when it is not indexed yet, in a step of its own.                  *)
CacheHit(t) == CacheEnabled /\ t \in DOMAIN cached
BackendKnows(t) == t \in bpool \cup Mined(backend)
Confirmations(h, best) == IF best < h THEN 1 ELSE (best - h) + 1
FetchHeight(t) == IF t \in Mined(chain) THEN HeightIn(t, chain) ELSE BestHeight(backend)
GetTransaction(t) ==
  \/ /\ CacheHit(t)
     /\ req' = [req EXCEPT !.todo = Tail(@), !.loaded = Append(@, [txid |-> t, conf |-> Confirmations(cached[t], BestHeight(chain))])]
     /\ Read
  \/ /\ ~CacheHit(t)
     /\ BackendKnows(t) => Flaky
     /\ req' = [req EXCEPT !.todo = Tail(@), !.failed = @ \/ BackendKnows(t)]
     /\ Read
  \/ /\ ~CacheHit(t)
     /\ t \in bpool
     /\ req' = [req EXCEPT !.todo = Tail(@), !.loaded = Append(@, [txid |-> t, conf |-> 0])]
     /\ Read
  \/ /\ ~CacheHit(t)
     /\ t \in Mined(backend)
     /\ req' = [req EXCEPT !.todo = Tail(@), !.fetch = IF CacheEnabled THEN [txid |-> t, height |-> FetchHeight(t)] ELSE Nil,
                           !.loaded = Append(@, [txid |-> t, conf |-> Confirmations(HeightIn(t, backend), BestHeight(backend))])]
     /\ Read

PutTx ==
  /\ req.fetch # Nil
  /\ cached' = [t \in (DOMAIN cached) \cup {req.fetch.txid} |-> IF t = req.fetch.txid THEN req.fetch.height ELSE cached[t]]
  /\ req' = [req EXCEPT !.fetch = Nil]
  /\ UNCHANGED <<backend, bpool, chain, pool, moves, kept>>

LoadMempoolTx ==
  /\ req.pc = "load"
  /\ req.fetch = Nil
  /\ req.todo # <<>>
  /\ GetTransaction(Head(req.todo))

\* The first read of getAddrDescUtxo and of GetAddress after the balance: the account's mempool transactions.
ReadMempool(pc) ==
  /\ req.pc = "mempool"
  /\ req' = [req EXCEPT !.pc = pc, !.todo = MempoolTxids(Account)]
  /\ Read

-----------------------------------------------------------------------------
(* getAddrDescUtxo: the outputs of the mempool transactions that no mempool  *)
(* transaction spends, then those of the index that are neither spent in the *)
(* mempool nor listed already.                                               *)
LoadedTxs == {req.loaded[i].txid : i \in DOMAIN req.loaded}
SpentInMempool == SpentBy(LoadedTxs)
MempoolUtxos ==
  LET outs(t) == SelectSeq([n \in DOMAIN Tx[t].outs |-> <<t, n>>], LAMBDA o : OutOf(o).addr = Account /\ o \notin SpentInMempool)
  IN  FlattenSeq([i \in DOMAIN req.loaded |-> outs(req.loaded[i].txid)])
IndexUtxos(inMempool) ==
  LET all == [i \in DOMAIN Reverse(req.ba.utxos) |-> Reverse(req.ba.utxos)[i].out]
  IN  SelectSeq(all, LAMBDA o : o \notin SpentInMempool /\ o \notin inMempool)

\* The balance is read here, unless GetXpubUtxo brought it.
ReadIndex ==
  /\ req.kind \in {"utxo", "xpub"} /\ req.pc = "load" /\ req.todo = <<>> /\ req.fetch = Nil
  /\ LET ba == IF req.ba = Nil /\ req.kind = "utxo" THEN GetAddrDescBalance(Account, chain) ELSE req.ba
     IN  req' = [req EXCEPT !.ba = ba, !.pc = IF ba = Nil \/ ba.utxos = <<>> THEN "assemble"
                                              ELSE IF req.kind = "xpub" THEN "coinbase" ELSE "best"]
  /\ Read

ReadBest ==
  /\ req.pc = "best"
  /\ req' = [req EXCEPT !.pc = "coinbase", !.best = BestHeight(chain)]
  /\ Read

\* The records of the young outputs are read to tell the coinbase ones; a record that has left the index
\* meanwhile is a nil pointer.
Young == {i \in DOMAIN req.ba.utxos : /\ req.ba.utxos[i].out \notin SpentInMempool
                                      /\ (req.best - req.ba.utxos[i].height) + 1 < MinimumCoinbaseConfirmations}
CheckCoinbase ==
  /\ req.pc = "coinbase"
  /\ req' = [req EXCEPT !.pc = IF \A i \in Young : req.ba.utxos[i].out[1] \in Mined(chain) THEN "assemble" ELSE "panic"]
  /\ Read

Assemble ==
  /\ req.pc = "assemble"
  /\ req.kind \in {"utxo", "xpub"}
  /\ req' = [req EXCEPT !.pc = "done",
               !.list = MempoolUtxos \o (IF req.ba = Nil THEN <<>> ELSE IndexUtxos(ToSet(MempoolUtxos)))]
  /\ Read

GetAddressUtxo == Request("utxo", "mempool")

\* GetXpubUtxo takes the balance and the best height from the account's cached data (module XpubCache),
\* before the mempool is read.
GetXpubUtxo == Request("xpub", "snapshot")
TakeXpubData ==
  /\ req.pc = "snapshot"
  /\ req' = [req EXCEPT !.pc = "mempool", !.ba = GetAddrDescBalance(Account, chain), !.best = BestHeight(chain)]
  /\ Read

-----------------------------------------------------------------------------
(* GetAddress, the first page of the history: the balance, the mempool, the  *)
(* newest indexed transactions, the best height and the transactions.        *)
GetAddress == Request("address", "balance")

ReadBalance ==
  /\ req.pc = "balance"
  /\ req' = [req EXCEPT !.pc = "mempool", !.ba = GetAddrDescBalance(Account, chain)]
  /\ Read

ReadHistory ==
  /\ req.kind = "address" /\ req.pc = "load" /\ req.todo = <<>> /\ req.fetch = Nil
  /\ req' = [req EXCEPT !.pc = "height",
               !.history = SubSeq(GetAddrDescTransactions(Account, chain, 0, BestHeight(chain)), 1,
                                  Min({TxsOnPage, Len(GetAddrDescTransactions(Account, chain, 0, BestHeight(chain)))}))]
  /\ Read

ReadHeight ==
  /\ req.pc = "height"
  /\ req' = [req EXCEPT !.pc = "page", !.best = BestHeight(chain)]
  /\ Read

\* The mempool transactions that are not confirmed, then the indexed ones with the height the index has for them
\* now; one that has left the index is asked from the backend.
Unconfirmed == SelectSeq(req.loaded, LAMBDA l : l.conf = 0)
txFromTxid(t) == [txid |-> t, conf |-> IF t \in Mined(chain) THEN (req.best - HeightIn(t, chain)) + 1
                                       ELSE IF t \in Mined(backend) THEN Confirmations(HeightIn(t, backend), BestHeight(backend)) ELSE 0]
Page == LET merged == Unconfirmed \o [i \in DOMAIN req.history |-> txFromTxid(req.history[i].txid)]
        IN  SubSeq(merged, 1, Min({TxsOnPage, Len(merged)}))
BuildPage ==
  /\ req.pc = "page"
  /\ req' = [req EXCEPT !.pc = "done", !.list = Page]
  /\ Read

\* The answer is sent, at once, and the next request may come.
Answer ==
  /\ req.pc \in {"done", "panic"}
  /\ req' = Idle
  /\ kept' = Begin
  /\ UNCHANGED chainVars

ReadStep ==
  \/ GetAddressUtxo
  \/ GetXpubUtxo
  \/ TakeXpubData
  \/ GetAddress
  \/ ReadBalance
  \/ ReadMempool("load")
  \/ LoadMempoolTx
  \/ PutTx
  \/ ReadIndex
  \/ ReadBest
  \/ CheckCoinbase
  \/ Assemble
  \/ ReadHistory
  \/ ReadHeight
  \/ BuildPage
  \/ Answer

AccountNext ==
  \/ ReadStep
  \/ req.pc \notin {"done", "panic"} /\ ChainNext /\ req' = req /\ kept' = IF req.pc = "idle" THEN Begin' ELSE Observe(kept)

-----------------------------------------------------------------------------
\* GetAddressUtxo tells the truth about the time it ran in, however the index and the mempool move: it lists no
\* output twice, it lists every output that was the account's and unspent all the time, and none that was spent
\* all the time, except one of a transaction that the mempool still had although it was indexed.
\* Blocks connected during the request do not matter; a block to be disconnected may.
UtxoTruth ==
  req.kind = "utxo" /\ req.pc \in {"done", "panic"} /\ ~kept.forked /\ ~req.failed =>
    /\ req.pc = "done"
    /\ IsInjective(req.list)
    /\ kept.owned \subseteq ToSet(req.list)
    /\ ToSet(req.list) \cap kept.spent \subseteq OutpointsOf(kept.stale)

\* "GetXpubUtxo returns unspent outputs for given xpub": it lists every output that was unspent
\* all the time of the request, and none that was spent from its beginning to its end.
XpubUtxoTruth ==
  req.kind = "xpub" /\ req.pc = "done" /\ ~kept.forked /\ ~req.failed =>
    kept.owned \subseteq ToSet(req.list) /\ ToSet(req.list) \cap kept.spent \subseteq OutpointsOf(kept.stale)

\* The first page of GetAddress holds every transaction of the account that the index or the mempool had all the
\* time, if they fit, unless the index was behind the backend (a transaction the backend has confirmed is then
\* taken for indexed); it holds no other, and lists twice only what was indexed meanwhile; and no transaction
\* is shown with no confirmations because of a stale best height.
PageTruth ==
  req.kind = "address" /\ req.pc = "done" /\ ~kept.forked /\ ~req.failed =>
    LET listed == {req.list[i].txid : i \in DOMAIN req.list}
    IN  /\ ~kept.behind /\ Len(req.list) < TxsOnPage => kept.touching \subseteq listed
        /\ listed \subseteq kept.everTouching
        /\ \A i, j \in DOMAIN req.list : i # j /\ req.list[i].txid = req.list[j].txid => req.list[i].txid \in kept.moved
        /\ \A i \in DOMAIN req.list : req.list[i].conf = 0 => req.list[i] \in ToSet(req.loaded)

\* "cache only confirmed transactions": once the index is level with the backend and no request is storing a
\* transaction, a cached one is in the chain, at the cached height.
CachedAreConfirmed ==
  Level /\ req.fetch = Nil => \A t \in DOMAIN cached : t \in Mined(chain) /\ cached[t] = HeightIn(t, chain)
=============================================================================
