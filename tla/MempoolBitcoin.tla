--------------------------- MODULE MempoolBitcoin ---------------------------
(***************************************************************************)
(* Resync of the mempool of Bitcoin-type coins                             *)
(* (bchain/mempool_bitcoin_type.go): the list of the backend is compared   *)
(* with the entries, missing transactions are fetched in batches by batch  *)
(* workers, passed to the permanent workers through chanTx, come back with *)
(* their addresses through chanAddrIndex and are stored; what the list     *)
(* does not name is removed. Both channels have room for one element.      *)
(*                                                                         *)
(* The input addresses of a transaction are looked up in one step: the     *)
(* subworkers of one transaction serve no other.                           *)
(***************************************************************************)
EXTENDS Integers, Sequences, FiniteSets, Functions

CONSTANTS
  Tx, Addr,
  Outputs, Inputs,   \* [Tx -> SUBSET Addr]
  TxWorker,          \* the workers of NewMempoolBitcoinType
  BatchWorker,       \* resyncBatchWorkers
  BatchSizes,        \* values of resyncBatchSize
  MaxChanges, MaxErrors    \* bounds

ASSUME PoolAssumption ==
  /\ IsFiniteSet(Tx) /\ IsFiniteSet(TxWorker)
  /\ Outputs \in [Tx -> SUBSET Addr] /\ Inputs \in [Tx -> SUBSET Addr]
  /\ BatchSizes \subseteq Nat \ {0}

VARIABLES
  batchSize,   \* resyncBatchSize, set once
  pool,        \* the transactions of the backend's mempool
  entries,     \* txEntries: the addresses of a transaction, {} for no entry
  index,       \* addrDescToTx: the transactions of every address
  pc,          \* where Resync is
  txs,         \* txsMap: what the backend listed
  todo,        \* the transactions dispatchResyncPayloads has not sent yet
  dispatched,  \* those it waits for
  chanTx, chanAddrIndex,
  worker,      \* the permanent workers
  jobs,        \* the batches not taken yet
  fetcher,     \* the batch workers
  results,     \* batchResults
  failed,      \* batchErr is set and the context cancelled
  left         \* what is left of the bounds

vars == <<batchSize, pool, entries, index, pc, txs, todo, dispatched, chanTx, chanAddrIndex, worker,
          jobs, fetcher, results, failed, left>>

Stored == {tx \in Tx : entries[tx] # {}}

Idle == [pc |-> "idle"]
Done == [pc |-> "done"]

Init ==
  /\ batchSize \in BatchSizes
  /\ pool \in SUBSET Tx
  /\ entries = [tx \in Tx |-> {}] /\ index = [a \in Addr |-> <<>>]
  /\ pc = "idle" /\ txs = {} /\ todo = <<>> /\ dispatched = 0
  /\ chanTx = <<>> /\ chanAddrIndex = <<>> /\ worker = [w \in TxWorker |-> Idle]
  /\ jobs = <<>> /\ fetcher = [f \in BatchWorker |-> Done] /\ results = <<>> /\ failed = FALSE
  /\ left = [changes |-> MaxChanges, errors |-> MaxErrors]

Spend(what) == left[what] > 0 /\ left' = [left EXCEPT ![what] = @ - 1]

store == <<entries, index>>
pipe == <<chanTx, chanAddrIndex, worker>>
batch == <<jobs, fetcher, results, failed>>

-----------------------------------------------------------------------------
Change ==
  /\ Spend("changes")
  /\ \E tx \in Tx : pool' = IF tx \in pool THEN pool \ {tx} ELSE pool \cup {tx}
  /\ UNCHANGED <<batchSize, store, pc, txs, todo, dispatched, pipe, batch>>

-----------------------------------------------------------------------------
\* Resync.

Batches(s) ==
  [i \in 1..((Len(s) + batchSize - 1) \div batchSize) |->
     SubSeq(s, (i - 1) * batchSize + 1, IF i * batchSize < Len(s) THEN i * batchSize ELSE Len(s))]

\* A list of them: the backend gives no order.
Listed(S) == CHOOSE s \in Bijection(1..Cardinality(S), S) : TRUE

\* The list, and the transactions that are missing: sent one by one, or in batches.
Resync ==
  /\ pc = "idle"
  /\ txs' = pool
  /\ LET missing == Listed(pool \ Stored) IN
     IF batchSize = 1 \/ missing = <<>>
     THEN pc' = "dispatch" /\ todo' = missing /\ UNCHANGED <<jobs, fetcher>>
     ELSE /\ pc' = "batches" /\ jobs' = Batches(missing) /\ UNCHANGED todo
          /\ fetcher' = [f \in BatchWorker |-> Idle]
  /\ failed' = FALSE
  /\ UNCHANGED <<batchSize, pool, store, dispatched, pipe, results, left>>

\* dispatchResyncPayloads sends when there is room and stores what comes back.
SendTx ==
  /\ pc = "dispatch" /\ todo # <<>> /\ chanTx = <<>>
  /\ chanTx' = <<Head(todo)>> /\ todo' = Tail(todo)
  /\ dispatched' = dispatched + 1
  /\ UNCHANGED <<batchSize, pool, store, pc, txs, chanAddrIndex, worker, batch, left>>

\* A transaction without addresses is not stored.
onNewEntry ==
  LET tx == chanAddrIndex[1].tx
      io == chanAddrIndex[1].io IN
  /\ pc = "dispatch" /\ chanAddrIndex # <<>> /\ dispatched > 0
  /\ chanAddrIndex' = <<>> /\ dispatched' = dispatched - 1
  /\ entries' = IF io # {} THEN [entries EXCEPT ![tx] = io] ELSE entries
  /\ index' = [a \in Addr |-> IF a \in io THEN Append(index[a], tx) ELSE index[a]]
  /\ UNCHANGED <<batchSize, pool, pc, txs, todo, chanTx, worker, batch, left>>

\* Mutant: the last results are left in the channels.
MutDispatched ==
  /\ pc = "dispatch" /\ todo = <<>>
  /\ pc' = (IF batchSize = 1 THEN "remove" ELSE "batches") /\ dispatched' = 0
  /\ UNCHANGED <<batchSize, pool, store, txs, todo, pipe, batch, left>>

Dispatched ==
  /\ pc = "dispatch" /\ todo = <<>> /\ dispatched = 0
  /\ pc' = IF batchSize = 1 THEN "remove" ELSE "batches"
  /\ UNCHANGED <<batchSize, pool, store, txs, todo, dispatched, pipe, batch, left>>

\* removeEntryFromMempool moves the outpoints of the other transactions up.
Without(outpoints, tx) ==
  LET kept[i \in 0..Len(outpoints)] ==
        IF i = 0 THEN <<>>
        ELSE IF outpoints[i] # tx THEN Append(kept[i - 1], outpoints[i]) ELSE kept[i - 1]
  IN  kept[Len(outpoints)]

\* Mutant: the outpoints stay.
MutRemoveMissing ==
  /\ pc = "remove"
  /\ \E tx \in Stored \ txs : entries' = [entries EXCEPT ![tx] = {}]
  /\ UNCHANGED <<batchSize, pool, index, pc, txs, todo, dispatched, pipe, batch, left>>

\* One removal, under the lock.
RemoveMissing ==
  /\ pc = "remove"
  /\ \E tx \in Stored \ txs :
       /\ entries' = [entries EXCEPT ![tx] = {}]
       /\ index' = [a \in Addr |-> IF a \in entries[tx] THEN Without(index[a], tx) ELSE index[a]]
  /\ UNCHANGED <<batchSize, pool, pc, txs, todo, dispatched, pipe, batch, left>>

Return ==
  /\ pc = "remove" /\ Stored \subseteq txs
  /\ pc' = "idle" /\ txs' = {}
  /\ UNCHANGED <<batchSize, pool, store, todo, dispatched, pipe, batch, left>>

-----------------------------------------------------------------------------
\* The permanent workers.

TakeTx(w) ==
  /\ worker[w].pc = "idle" /\ chanTx # <<>>
  /\ chanTx' = <<>> /\ worker' = [worker EXCEPT ![w] = [pc |-> "work", tx |-> chanTx[1]]]
  /\ UNCHANGED <<batchSize, pool, store, pc, txs, todo, dispatched, chanAddrIndex, batch, left>>

Answer(w, io) ==
  worker' = [worker EXCEPT ![w] = [pc |-> "send", tx |-> @.tx, io |-> io]]

getTxAddrs(w) ==
  /\ worker[w].pc = "work"
  /\ Answer(w, Outputs[worker[w].tx] \cup Inputs[worker[w].tx])
  /\ UNCHANGED <<batchSize, pool, store, pc, txs, todo, dispatched, chanTx, chanAddrIndex, batch, left>>

\* The transaction, or only its inputs, are not found.
getTxAddrsError(w) ==
  /\ worker[w].pc = "work"
  /\ Spend("errors")
  /\ \E io \in {{}, Outputs[worker[w].tx]} : Answer(w, io)
  /\ UNCHANGED <<batchSize, pool, store, pc, txs, todo, dispatched, chanTx, chanAddrIndex, batch>>

SendAddrs(w) ==
  /\ worker[w].pc = "send" /\ chanAddrIndex = <<>>
  /\ chanAddrIndex' = <<[tx |-> worker[w].tx, io |-> worker[w].io]>>
  /\ worker' = [worker EXCEPT ![w] = Idle]
  /\ UNCHANGED <<batchSize, pool, store, pc, txs, todo, dispatched, chanTx, batch, left>>

-----------------------------------------------------------------------------
\* resyncBatchedMissing.

rest == <<batchSize, pool, store, txs, dispatched, pipe>>

\* A worker takes a batch; it ends when there is none or the context is cancelled.
TakeBatch(f) ==
  /\ fetcher[f].pc = "idle"
  /\ \/ /\ jobs # <<>>
        /\ fetcher' = [fetcher EXCEPT ![f] = [pc |-> "fetch", batch |-> Head(jobs)]]
        /\ jobs' = Tail(jobs)
     \/ /\ jobs = <<>> \/ failed
        /\ fetcher' = [fetcher EXCEPT ![f] = Done] /\ UNCHANGED jobs
  /\ UNCHANGED <<rest, pc, todo, results, failed, left>>

Fetched(f, err) ==
  /\ fetcher[f].pc = "fetch"
  /\ fetcher' = [fetcher EXCEPT ![f] = [pc |-> "result", batch |-> @.batch, err |-> err]]

FetchBatch(f) == Fetched(f, FALSE) /\ UNCHANGED <<rest, pc, todo, jobs, results, failed, left>>

FetchError(f) ==
  /\ Fetched(f, TRUE) /\ Spend("errors")
  /\ UNCHANGED <<rest, pc, todo, jobs, results, failed>>

\* The result is sent, or dropped when the context is cancelled.
SendResult(f) ==
  /\ fetcher[f].pc = "result"
  /\ \/ /\ Len(results) < Cardinality(BatchWorker)
        /\ results' = Append(results, [batch |-> fetcher[f].batch, err |-> fetcher[f].err])
        /\ fetcher' = [fetcher EXCEPT ![f] = IF @.err THEN Done ELSE Idle]
     \/ failed /\ fetcher' = [fetcher EXCEPT ![f] = Done] /\ UNCHANGED results
  /\ UNCHANGED <<rest, pc, todo, jobs, failed, left>>

\* Mutant: after an error the results of the other batches are left in the channel
\* and Resync goes on to remove what it has not fetched.
MutTakeResult ==
  /\ pc = "batches" /\ results # <<>>
  /\ results' = Tail(results)
  /\ LET r == Head(results) IN
     IF r.err THEN pc' = "remove" /\ failed' = TRUE /\ UNCHANGED todo
     ELSE pc' = "dispatch" /\ todo' = r.batch /\ UNCHANGED failed
  /\ UNCHANGED <<rest, jobs, fetcher, left>>

\* The first error cancels the context; what comes later is dropped.
TakeResult ==
  /\ pc = "batches" /\ results # <<>>
  /\ results' = Tail(results)
  /\ LET r == Head(results) IN
     IF r.err \/ failed THEN failed' = TRUE /\ UNCHANGED <<pc, todo>>
     ELSE pc' = "dispatch" /\ todo' = r.batch /\ UNCHANGED failed
  /\ UNCHANGED <<rest, jobs, fetcher, left>>

\* batchResults is closed: an error ends Resync with nothing removed.
Batched ==
  /\ pc = "batches" /\ results = <<>> /\ \A f \in BatchWorker : fetcher[f] = Done
  /\ pc' = IF failed THEN "idle" ELSE "remove"
  /\ jobs' = <<>>
  /\ UNCHANGED <<rest, todo, fetcher, results, failed, left>>

-----------------------------------------------------------------------------
Main == Resync \/ SendTx \/ onNewEntry \/ Dispatched \/ RemoveMissing \/ Return
        \/ TakeResult \/ Batched

Worker(w) == TakeTx(w) \/ getTxAddrs(w) \/ getTxAddrsError(w) \/ SendAddrs(w)

Fetcher(f) == TakeBatch(f) \/ FetchBatch(f) \/ FetchError(f) \/ SendResult(f)

Next ==
  \/ Change \/ Main
  \/ \E w \in TxWorker : Worker(w)
  \/ \E f \in BatchWorker : Fetcher(f)

\* The mempool loop calls Resync again and again; goroutines go on.
FairSpec ==
  /\ Init /\ [][Next]_vars
  /\ WF_vars(Main)
  /\ \A w \in TxWorker : WF_vars(Worker(w))
  /\ \A f \in BatchWorker : WF_vars(Fetcher(f))

-----------------------------------------------------------------------------
\* The values the variables take; a channel holds one element at most.
TypeOK ==
  /\ pool \subseteq Tx /\ txs \subseteq Tx
  /\ entries \in [Tx -> SUBSET Addr]
  /\ dispatched \in 0..Cardinality(Tx)
  /\ Len(chanTx) <= 1 /\ Len(chanAddrIndex) <= 1
  /\ Len(results) <= Cardinality(BatchWorker)

\* What an address lists is exactly the transactions of the mempool that have it,
\* each once: also between the steps of Resync, where readers look.
IndexExact ==
  \A a \in Addr : /\ IsInjective(index[a])
                  /\ Range(index[a]) = {tx \in Tx : a \in entries[tx]}

\* Nothing of one Resync is left in the channels, workers or batch workers for the
\* next one, whose dispatched count would take it for its own.
Drained ==
  pc \in {"idle", "remove"} =>
    /\ chanTx = <<>> /\ chanAddrIndex = <<>> /\ dispatched = 0
    /\ \A w \in TxWorker : worker[w] = Idle
    /\ results = <<>> /\ \A f \in BatchWorker : fetcher[f] = Done

\* A Resync that failed removes nothing: a transaction of the mempool that the
\* backend still lists is never removed.
ListedStays ==
  [][\A tx \in Stored : entries'[tx] = {} => pc = "remove" /\ ~failed /\ tx \notin txs]_vars

\* Once the backend and the errors have settled, the mempool holds what the backend
\* lists, whatever failed or changed before: Resync, the workers and the batch workers
\* never wait for each other in a circle.
Converges == <>[](Stored = pool)
=============================================================================
