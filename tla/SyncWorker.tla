----------------------------- MODULE SyncWorker -----------------------------
(***************************************************************************)
(* The block synchronisation of Blockbook (db/sync.go): ResyncIndex brings *)
(* the local block index (the RocksDB column family "height") to the tip   *)
(* of a backend node whose best chain moves while the synchronisation      *)
(* runs.  The RPCs of a round are steps of their own, so the backend may   *)
(* mine, reorganise or roll back between any two of them.                  *)
(*                                                                         *)
(* One specification covers both chain types.  EthType = FALSE is a        *)
(* Bitcoin-type backend: tip, heights and hashes are all RPCs.             *)
(* EthType = TRUE is an EVM backend: hash, parent and height of the tip    *)
(* come from a cached header that the push feed moves (module TipFeed).    *)
(*                                                                         *)
(* A block is its hash.  Block bodies, RPC encodings, metrics and logging  *)
(* are left out; the effect of a block on balances is in BlockIndex.       *)
(***************************************************************************)
EXTENDS Integers, Sequences

CONSTANTS
  Block,          \* the blocks that exist, on any branch
  Parent,         \* Parent[b]: block.Prev, NoHash for a genesis block
  Chains,         \* the best chains the backend may have, from height 0 up
  NoHash,         \* the empty string
  MaxHeight,      \* no chain is higher than this
  EthType,        \* chain type of the parser: EVM or Bitcoin type
  BlockFrom,      \* the -blockheight flag, minStartHeight of the worker
  Keep,           \* KeepBlockAddresses: blocks with undo data (blockTxs)
  Workers,        \* syncWorkers; 1 turns bulk and parallel sync off
  SyncChunk,      \* more blocks than this missing: initial sync is bulk
  MinParallelGap, \* EVM: at least this many missing: parallel sync
  FallBehindGap,  \* EVM: the sequential producer yields beyond this gap
  ChanCap,        \* capacity of the channel bch of connectBlocks
  Threshold,      \* TipRecheckThreshold
  HasNext,        \* the backend fills block.Next
  AllowShorter,   \* the backend may move to a chain that is not higher
  MaxChanges,     \* bound: moves of the backend's best chain
  MaxFaults,      \* bound: failed or lagging RPC answers
  MaxCrashes      \* bound: crashes of the Blockbook process

Heights == 0..MaxHeight
Hash == Block \cup {NoHash}

\* What the backend is: its best chains start at height 0 and are linked, and
\* a block has the same height on every chain that holds it.
ASSUME ChainAssumption ==
  /\ NoHash \notin Block
  /\ Parent \in [Block -> Hash]
  /\ Chains \subseteq Seq(Block)
  /\ \A c \in Chains : /\ Len(c) \in 1..(MaxHeight + 1)
                       /\ Parent[c[1]] = NoHash
                       /\ \A i \in 1..(Len(c) - 1) : Parent[c[i + 1]] = c[i]
  /\ \A c, d \in Chains : \A i \in DOMAIN c, j \in DOMAIN d : c[i] = d[j] => i = j

ASSUME ParameterAssumption ==
  /\ MaxHeight \in Nat /\ BlockFrom \in Heights /\ Keep \in Nat \ {0}
  /\ EthType \in BOOLEAN /\ Workers \in Nat \ {0}
  /\ HasNext \in BOOLEAN /\ AllowShorter \in BOOLEAN
  /\ SyncChunk \in Nat /\ MinParallelGap \in Nat \ {0}
  /\ FallBehindGap \in Nat /\ ChanCap \in Nat \ {0} /\ Threshold \in Nat \ {0}
  /\ MaxChanges \in Nat /\ MaxFaults \in Nat /\ MaxCrashes \in Nat

VARIABLES
  chain,    \* the backend's best chain: the block of height h is chain[h + 1]
  tip,      \* EVM: the cached best header (EthereumRPC.bestHeader)
  spent,    \* how much of the bounds Changes, Faults and Crashes is used
  \* persistent: survives a crash of the process
  row,      \* column family height: hash of the indexed block per height
  undo,     \* column family blockTxs: the heights that can be disconnected
  dbState,  \* internal state: "open", or "inconsistent" during bulk connect
  \* the goroutine that runs ResyncIndex
  pc,       \* where resyncIndex is
  initial,  \* the parameter initialSync
  remote,   \* tip read at the start of the round (remoteBestHash, ...)
  best,     \* localBestHeight, then the block handleFork disconnects next
  walk,     \* the height handleFork compares
  linked,   \* the pushed tip is a child of the local best block
  startHeight, \* the field w.startHeight: it outlives a round
  \* the producer getBlockChain of the round and its channel
  gb,       \* its locals hash, height, prevHash, retries and how it ended
  bch,      \* blocks fetched and not yet connected, in order
  \* a bulk or parallel round: coordinator and hash queue
  par,
  \* history, read by no action
  seam,     \* heights connected without comparing the block with its parent
  held,     \* blocks on the backend's best chain ever since the round began
  floor     \* the height the last bulk round started from

backendVars == <<chain, tip, spent>>
dbVars == <<row, undo, dbState>>
localVars == <<initial, remote, best, walk, linked, startHeight>>
roundVars == <<gb, bch, par>>
history == <<seam, held, floor>>
vars == <<backendVars, dbVars, pc, localVars, roundVars, history>>

-----------------------------------------------------------------------------
\* Answers of the backend.

TipHeight(c) == Len(c) - 1
TipHash(c) == c[Len(c)]

\* A header carries its hash, its parent and its height together.
Header(c) == [hash |-> TipHash(c), parent |-> Parent[TipHash(c)],
              height |-> TipHeight(c)]

\* GetBlockHash: NoHash stands for ErrBlockNotFound.
BlockHash(h) == IF h + 1 \in DOMAIN chain THEN chain[h + 1] ELSE NoHash

OnChain(b) == \E i \in DOMAIN chain : chain[i] = b

\* EthereumTypeGetBestTip, GetBestBlockHash and GetBestBlockHeight: the
\* cached header for EVM, the node's own tip otherwise.
BestTip == IF EthType THEN tip ELSE Header(chain)

-----------------------------------------------------------------------------
\* The local index.

Rows == {h \in Heights : row[h] # NoHash}

\* GetBestBlock seeks to the last row.
IsBest(h) == h \in Rows /\ \A k \in Rows : k <= h

\* cleanupBlockTxs: from height h - Keep down, while there is data, and never
\* the data of height 0.
Cleaned(h) == {rh \in 1..(h - Keep) : \A k \in rh..(h - Keep) : k \in undo}

NoRound == [hash |-> NoHash, height |-> 0, prev |-> NoHash, retries |-> 0,
            end |-> "none"]
NoPar == [next |-> 0, high |-> 0, q |-> <<>>, bulk |-> FALSE]
NoTip == [hash |-> NoHash, parent |-> NoHash, height |-> 0]

Init ==
  /\ chain \in Chains
  /\ tip = Header(chain)
  /\ spent = [changes |-> 0, faults |-> 0, crashes |-> 0]
  /\ row = [h \in Heights |-> NoHash]
  /\ undo = {}
  /\ dbState = "open"
  /\ pc = "idle"
  /\ initial = TRUE
  /\ remote = NoTip
  /\ best = 0 /\ walk = 0 /\ linked = FALSE
  /\ startHeight = BlockFrom
  /\ gb = NoRound /\ bch = <<>> /\ par = NoPar
  /\ seam = {} /\ held = {} /\ floor = 0

-----------------------------------------------------------------------------
\* The environment.

\* The backend mines blocks, reorganises or rolls back.
BackendMoves ==
  /\ spent.changes < MaxChanges
  /\ \E c \in Chains \ {chain} :
       /\ AllowShorter \/ Len(c) > Len(chain)
       /\ chain' = c
       /\ held' = {b \in held : \E i \in DOMAIN c : c[i] = b}
  /\ spent' = [spent EXCEPT !.changes = @ + 1]
  /\ UNCHANGED <<tip, dbVars, pc, localVars, roundVars, seam, floor>>

\* The push feed (or the watchdog) moves the cached header of an EVM chain.
FeedMovesTip ==
  /\ EthType /\ tip # Header(chain)
  /\ tip' = Header(chain)
  /\ UNCHANGED <<chain, spent, dbVars, pc, localVars, roundVars, history>>

\* What a new process starts from.  It refuses a database left inconsistent
\* by an interrupted bulk connect (blockbook.go: "internalState: database is
\* in inconsistent state and cannot be used").
Restart(state) ==
  /\ pc' = IF state = "inconsistent" THEN "refused" ELSE "idle"
  /\ initial' = TRUE /\ startHeight' = BlockFrom
  /\ remote' = NoTip /\ best' = 0 /\ walk' = 0 /\ linked' = FALSE
  /\ gb' = NoRound /\ bch' = <<>> /\ par' = NoPar

Crash ==
  /\ pc # "refused"
  /\ spent.crashes < MaxCrashes
  /\ spent' = [spent EXCEPT !.crashes = @ + 1]
  /\ Restart(dbState)
  /\ UNCHANGED <<chain, tip, dbVars, history>>

\* The operator deletes the refused database, to import it from scratch.
Recreate ==
  /\ pc = "refused"
  /\ row' = [h \in Heights |-> NoHash] /\ undo' = {} /\ seam' = {}
  /\ dbState' = "open" /\ pc' = "idle"
  /\ UNCHANGED <<backendVars, localVars, roundVars, held, floor>>

-----------------------------------------------------------------------------
\* resyncIndex.

\* An error other than errFork and errResync ends the round: the initial
\* synchronisation ends the process, a later one waits for the next trigger.
Fail ==
  IF initial
  THEN Restart(dbState')
  ELSE /\ pc' = "idle"
       /\ gb' = NoRound /\ bch' = <<>> /\ par' = NoPar
       /\ UNCHANGED localVars

\* ResyncIndex ends with nil or syncNotNeeded; the first time, main goes on
\* to start the periodic loops.
Finish ==
  /\ pc' = "idle" /\ initial' = FALSE
  /\ gb' = NoRound /\ bch' = <<>> /\ par' = NoPar
  /\ UNCHANGED <<remote, best, walk, linked, startHeight>>

\* main, a notification or the periodic tick calls ResyncIndex.
StartResync ==
  /\ pc = "idle"
  /\ pc' = "resync"
  /\ held' = {b \in Block : OnChain(b)}
  /\ UNCHANGED <<backendVars, dbVars, localVars, roundVars, seam, floor>>

\* Mutant: heights compared instead of hashes.
MutSyncNotNeeded ==
  /\ pc = "resync"
  /\ \E h \in Rows : IsBest(h) /\ h = BestTip.height
  /\ Finish
  /\ UNCHANGED <<backendVars, dbVars, history>>

SyncNotNeeded ==
  /\ pc = "resync"
  /\ \E h \in Rows : IsBest(h) /\ row[h] = BestTip.hash
  /\ Finish
  /\ UNCHANGED <<backendVars, dbVars, history>>

\* The local best block is not the remote one.  An EVM tip that is a child of
\* the local best block needs no fork check.
ReadTips ==
  /\ pc = "resync"
  /\ \E h \in Rows :
       /\ IsBest(h) /\ row[h] # BestTip.hash
       /\ best' = h
       /\ linked' = (EthType /\ tip.height = h + 1 /\ tip.parent = row[h])
       /\ pc' = IF linked' THEN "plan" ELSE "forkCheck"
       /\ startHeight' = IF linked' THEN h + 1 ELSE startHeight
  /\ remote' = BestTip
  /\ UNCHANGED <<backendVars, dbVars, initial, walk, roundVars, history>>

\* "database is empty, start genesis": from the field startHeight as it is.
ReadTipsEmpty ==
  /\ pc = "resync" /\ Rows = {}
  /\ remote' = BestTip
  /\ linked' = FALSE
  /\ pc' = "plan"
  /\ UNCHANGED <<backendVars, dbVars, initial, best, walk, startHeight,
                 roundVars, history>>

\* Mutant: off by one.
MutForkCheckOk ==
  /\ pc = "forkCheck" /\ BlockHash(best) = row[best]
  /\ startHeight' = best + 2
  /\ pc' = "plan"
  /\ UNCHANGED <<backendVars, dbVars, initial, remote, best, walk, linked,
                 roundVars, history>>

ForkCheckOk ==
  /\ pc = "forkCheck" /\ BlockHash(best) = row[best]
  /\ startHeight' = best + 1
  /\ pc' = "plan"
  /\ UNCHANGED <<backendVars, dbVars, initial, remote, best, walk, linked,
                 roundVars, history>>

\* A lagging node of a load-balanced backend answers ErrBlockNotFound for a
\* height that is on the best chain.
Lags(h) ==
  /\ spent.faults < MaxFaults
  /\ spent' = [spent EXCEPT !.faults = @ + 1]
  /\ held' = held \ {row[h]}

ForkFound ==
  /\ pc = "forkCheck"
  /\ \/ BlockHash(best) # row[best] /\ UNCHANGED <<spent, held>>
     \/ Lags(best)
  /\ walk' = best - 1
  /\ pc' = "forkWalk"
  /\ UNCHANGED <<chain, tip, dbVars, initial, remote, best, linked,
                 startHeight, roundVars, seam, floor>>

\* Mutant: the walk does not compare the hashes.
MutForkWalk ==
  /\ pc = "forkWalk" /\ walk \in Rows
  /\ walk' = walk - 1
  /\ UNCHANGED <<backendVars, dbVars, pc, initial, remote, best, linked,
                 startHeight, roundVars, history>>

\* handleFork compares heights downwards.  Below height 0 the uint32 wraps to
\* a height without a row, which stops the walk like any missing row.
ForkWalk ==
  /\ pc = "forkWalk" /\ walk \in Rows
  /\ \/ BlockHash(walk) # row[walk] /\ UNCHANGED <<spent, held>>
     \/ Lags(walk)
  /\ walk' = walk - 1
  /\ UNCHANGED <<chain, tip, dbVars, pc, initial, remote, best, linked,
                 startHeight, roundVars, seam, floor>>

ForkWalkEnd ==
  /\ pc = "forkWalk"
  /\ walk \in Rows => BlockHash(walk) = row[walk]
  /\ pc' = "disconnect"
  /\ UNCHANGED <<backendVars, dbVars, localVars, roundVars, history>>

\* DisconnectBlockRange first loads the undo data of the whole range.
DisconnectRefused ==
  /\ pc = "disconnect"
  /\ \E h \in (walk + 1)..best : h \notin undo
  /\ UNCHANGED <<backendVars, dbVars, history>>
  /\ Fail

\* Mutant: the undo data of a disconnected block is kept.
MutDisconnectBlock ==
  /\ ~EthType
  /\ \/ pc = "disconnect" /\ (walk + 1)..best \subseteq undo
     \/ pc = "disconnecting"
  /\ row' = [row EXCEPT ![best] = NoHash]
  /\ seam' = seam \ {best}
  /\ IF best = 0
     THEN Restart(dbState)
     ELSE /\ pc' = IF best = walk + 1 THEN "resync" ELSE "disconnecting"
          /\ best' = best - 1
          /\ UNCHANGED <<initial, remote, walk, linked, startHeight, roundVars>>
  /\ UNCHANGED <<backendVars, undo, dbState, held, floor>>

\* Bitcoin type: one write batch per block, highest first.  The loop
\* "height >= lower" cannot end when lower is 0: the process panics after
\* block 0 is gone.
DisconnectBlock ==
  /\ ~EthType
  /\ \/ pc = "disconnect" /\ (walk + 1)..best \subseteq undo
     \/ pc = "disconnecting"
  /\ row' = [row EXCEPT ![best] = NoHash]
  /\ undo' = undo \ {best}
  /\ seam' = seam \ {best}
  /\ IF best = 0
     THEN Restart(dbState)
     ELSE /\ pc' = IF best = walk + 1 THEN "resync" ELSE "disconnecting"
          /\ best' = best - 1
          /\ UNCHANGED <<initial, remote, walk, linked, startHeight, roundVars>>
  /\ UNCHANGED <<backendVars, dbState, held, floor>>

\* EVM: one write batch for the range; with lower = 0 the panic comes before
\* the batch is written.
DisconnectRange ==
  /\ EthType /\ pc = "disconnect" /\ (walk + 1)..best \subseteq undo
  /\ IF walk + 1 = 0
     THEN Restart(dbState) /\ UNCHANGED <<row, undo, seam>>
     ELSE /\ row' = [h \in Heights |-> IF h \in (walk + 1)..best
                                       THEN NoHash ELSE row[h]]
          /\ undo' = undo \ ((walk + 1)..best)
          /\ seam' = seam \ ((walk + 1)..best)
          /\ pc' = "resync"
          /\ UNCHANGED <<localVars, roundVars>>
  /\ UNCHANGED <<backendVars, dbState, held, floor>>

-----------------------------------------------------------------------------
\* How the missing blocks are connected.

UseParallel == Workers > 1 /\ (initial \/ EthType)
RemoteHeight == IF EthType THEN remote.height ELSE TipHeight(chain)
Missing == RemoteHeight - startHeight

BulkSync == UseParallel /\ initial /\ Missing > SyncChunk
ParallelSync == UseParallel /\ ~BulkSync /\ EthType /\ Missing >= MinParallelGap

\* BulkConnectBlocks and ParallelConnectBlocks start; InitBulkConnect marks
\* the database inconsistent before anything is written.
PlanParallel ==
  /\ pc = "plan" /\ (BulkSync \/ ParallelSync)
  /\ pc' = "parallel"
  /\ par' = [next |-> startHeight, high |-> RemoteHeight, q |-> <<>>,
             bulk |-> BulkSync]
  /\ dbState' = IF BulkSync THEN "inconsistent" ELSE dbState
  /\ floor' = IF BulkSync THEN startHeight ELSE floor
  /\ UNCHANGED <<backendVars, row, undo, localVars, gb, bch, seam, held>>

PlanSequential ==
  /\ pc = "plan" /\ ~BulkSync /\ ~ParallelSync
  /\ pc' = "startHash"
  /\ UNCHANGED <<backendVars, dbVars, localVars, roundVars, history>>

\* startHashForHeight: the cached tip needs no lookup.
StartHash ==
  IF EthType /\ remote.height = startHeight
  THEN remote.hash
  ELSE BlockHash(startHeight)

StartConnect ==
  /\ pc = "startHash" /\ StartHash # NoHash
  /\ pc' = "connect"
  /\ gb' = [NoRound EXCEPT !.hash = StartHash, !.height = startHeight]
  /\ bch' = <<>>
  /\ UNCHANGED <<backendVars, dbVars, localVars, par, history>>

StartHashNotFound ==
  /\ pc = "startHash" /\ StartHash = NoHash
  /\ UNCHANGED <<backendVars, dbVars, history>>
  /\ Fail

-----------------------------------------------------------------------------
\* The producer getBlockChain.  bch holds the blocks in the channel and the
\* one in the producer's hand, so that a fetch needs room for one more.

Producing == pc = "connect" /\ gb.end = "none" /\ Len(bch) <= ChanCap

\* GetBlock by height or, when the hash is known, by hash.  A block that left
\* the best chain may still be served by its hash.
Fetched(b) == IF gb.hash = NoHash THEN b = BlockHash(gb.height) ELSE b = gb.hash

\* The block cannot be had: past the tip, or its hash left the best chain.
NotFound == IF gb.hash = NoHash THEN BlockHash(gb.height) = NoHash
                                ELSE ~OnChain(gb.hash)

\* Before the first attempt by height (EVM), or after it failed, the tip
\* height tells whether this is the end of the chain.
PastTip == gb.hash = NoHash /\ gb.retries = 0 /\ gb.height > BestTip.height

\* block.Next, where the backend fills it.
NextHash(b) == {NoHash} \cup
  IF HasNext /\ OnChain(b) THEN {BlockHash(gb.height + 1)} ELSE {}

\* Mutant: the fetched block is not compared with the one before it.
MutForkedFrom(b) == FALSE

ForkedFrom(b) == gb.prev # NoHash /\ Parent[b] # NoHash /\ Parent[b] # gb.prev

GetBlock ==
  /\ Producing /\ ~PastTip
  /\ \E b \in Block :
       /\ Fetched(b) /\ ~ForkedFrom(b)
       /\ bch' = Append(bch, [height |-> gb.height, hash |-> b])
       /\ \E next \in NextHash(b) :
            gb' = [gb EXCEPT !.hash = next, !.height = @ + 1, !.prev = b,
                             !.retries = 0]
  /\ UNCHANGED <<backendVars, dbVars, pc, localVars, par, history>>

GetBlockFork ==
  /\ Producing /\ ~PastTip
  /\ \E b \in Block : Fetched(b) /\ ForkedFrom(b)
  /\ gb' = [gb EXCEPT !.end = "fork"]
  /\ UNCHANGED <<backendVars, dbVars, pc, localVars, bch, par, history>>

GetBlockPastTip ==
  /\ Producing /\ PastTip
  /\ gb' = [gb EXCEPT !.end = "closed"]
  /\ UNCHANGED <<backendVars, dbVars, pc, localVars, bch, par, history>>

\* onRetryableMiss: at the threshold a known hash is compared with the chain.
GetBlockMiss ==
  /\ Producing /\ ~PastTip /\ NotFound
  /\ LET retries == IF gb.retries < Threshold THEN gb.retries + 1 ELSE Threshold
         restart == /\ retries = Threshold /\ gb.hash # NoHash
                    /\ BestTip.height >= gb.height
                    /\ BlockHash(gb.height) \notin {NoHash, gb.hash}
     IN  gb' = [gb EXCEPT !.retries = retries,
                          !.end = IF restart THEN "resync" ELSE @]
  /\ UNCHANGED <<backendVars, dbVars, pc, localVars, bch, par, history>>

\* MaxStallDuration passes while the block is still missing.
GetBlockStall ==
  /\ Producing /\ NotFound /\ gb.retries > 0
  /\ gb' = [gb EXCEPT !.end = "resync"]
  /\ UNCHANGED <<backendVars, dbVars, pc, localVars, bch, par, history>>

\* EVM: the sequential sync fell too far behind and yields to the parallel one.
GetBlockYield ==
  /\ Producing /\ EthType /\ Workers > 1
  /\ gb.prev # NoHash /\ BestTip.height - gb.height > FallBehindGap
  /\ gb' = [gb EXCEPT !.end = "resync"]
  /\ UNCHANGED <<backendVars, dbVars, pc, localVars, bch, par, history>>

-----------------------------------------------------------------------------
\* The consumer connectBlocks.

\* RocksDB.ConnectBlock is one write batch.  It does not look at block.Prev.
ConnectBlock ==
  /\ pc = "connect" /\ bch # <<>>
  /\ LET h == Head(bch).height
     IN  /\ row' = [row EXCEPT ![h] = Head(bch).hash]
         /\ undo' = (undo \cup {h}) \ Cleaned(h)
         /\ seam' = IF h = startHeight /\ ~linked THEN seam \cup {h}
                                                  ELSE seam \ {h}
  /\ bch' = Tail(bch)
  /\ UNCHANGED <<backendVars, dbState, pc, localVars, gb, par, held, floor>>

\* errFork and errResync start over with the chain as it is now.
ConnectRestart ==
  /\ pc = "connect" /\ bch = <<>> /\ gb.end \in {"fork", "resync"}
  /\ pc' = "resync"
  /\ gb' = NoRound
  /\ UNCHANGED <<backendVars, dbVars, localVars, bch, par, history>>

ConnectDone ==
  /\ pc = "connect" /\ bch = <<>> /\ gb.end = "closed"
  /\ Finish
  /\ UNCHANGED <<backendVars, dbVars, history>>

ConnectError ==
  /\ pc = "connect" /\ bch = <<>> /\ gb.end = "error"
  /\ UNCHANGED <<backendVars, dbVars, history>>
  /\ Fail

-----------------------------------------------------------------------------
\* A bulk or parallel round, as seen by the index: the coordinator asks for
\* one hash after the other, each block is fetched by its hash, the writer
\* connects them in order.  ParallelConnect has the goroutines and channels.

\* A hash that is not there is asked for again, without a deadline: nothing
\* changes until the backend has it.
QueueHash ==
  /\ pc = "parallel" /\ par.next <= par.high /\ Len(par.q) < 2 * Workers
  /\ BlockHash(par.next) # NoHash
  /\ par' = [par EXCEPT !.next = @ + 1,
                        !.q = Append(@, [height |-> par.next,
                                         hash |-> BlockHash(par.next)])]
  /\ UNCHANGED <<backendVars, dbVars, pc, localVars, gb, bch, history>>

\* Bulk connect keeps undo data for the last Keep blocks of the range only.
WriteBlock ==
  /\ pc = "parallel" /\ par.q # <<>>
  /\ LET h == Head(par.q).height
     IN  /\ row' = [row EXCEPT ![h] = Head(par.q).hash]
         /\ undo' = IF par.bulk /\ h + Keep <= par.high
                    THEN undo ELSE (undo \cup {h}) \ Cleaned(h)
         /\ seam' = seam \cup {h}
  /\ par' = [par EXCEPT !.q = Tail(@)]
  /\ UNCHANGED <<backendVars, dbState, pc, localVars, gb, bch, held, floor>>

\* A worker finds that a queued hash left the chain, or stalls on it: abort
\* with errResync.  The bulk writer flushes what it has, and closes.
ParallelAbort ==
  /\ pc = "parallel" /\ \E i \in DOMAIN par.q : ~OnChain(par.q[i].hash)
  /\ pc' = "resync"
  /\ par' = NoPar
  /\ dbState' = "open"
  /\ UNCHANGED <<backendVars, row, undo, localVars, gb, bch, history>>

ParallelDone ==
  /\ pc = "parallel" /\ par.next > par.high /\ par.q = <<>>
  /\ pc' = "resync"
  /\ par' = NoPar
  /\ dbState' = "open"
  /\ UNCHANGED <<backendVars, row, undo, localVars, gb, bch, history>>

-----------------------------------------------------------------------------
\* An RPC fails for good: resyncIndex, a worker or the producer gives up.
RpcError ==
  /\ spent.faults < MaxFaults
  /\ spent' = [spent EXCEPT !.faults = @ + 1]
  /\ \/ /\ pc \in {"resync", "forkCheck", "forkWalk", "startHash"}
        /\ UNCHANGED dbState /\ Fail
     \/ /\ pc = "parallel" /\ par.q # <<>>
        /\ dbState' = "open"
        /\ Fail
     \/ /\ Producing /\ gb' = [gb EXCEPT !.end = "error"]
        /\ UNCHANGED <<dbState, pc, localVars, bch, par>>
  /\ UNCHANGED <<chain, tip, row, undo, history>>

SyncStep ==
  \/ StartResync \/ SyncNotNeeded \/ ReadTips \/ ReadTipsEmpty
  \/ ForkCheckOk \/ ForkFound \/ ForkWalk \/ ForkWalkEnd
  \/ DisconnectRefused \/ DisconnectBlock \/ DisconnectRange
  \/ PlanParallel \/ PlanSequential \/ StartConnect \/ StartHashNotFound
  \/ GetBlock \/ GetBlockFork \/ GetBlockPastTip \/ GetBlockMiss
  \/ GetBlockStall \/ GetBlockYield
  \/ ConnectBlock \/ ConnectRestart \/ ConnectDone \/ ConnectError
  \/ QueueHash \/ WriteBlock \/ ParallelAbort \/ ParallelDone

Next == BackendMoves \/ FeedMovesTip \/ Crash \/ Recreate \/ RpcError \/ SyncStep

Spec == Init /\ [][Next]_vars

\* The goroutines run, the periodic tick (15 minutes at most) calls
\* ResyncIndex again, and the feed or the watchdog delivers the tip.
FairSpec == Spec /\ WF_vars(SyncStep) /\ WF_vars(FeedMovesTip)

-----------------------------------------------------------------------------
Tips == {Header(c) : c \in Chains}
Spent == [changes : 0..MaxChanges, faults : 0..MaxFaults, crashes : 0..MaxCrashes]
Entry == [height : Heights, hash : Block]
Producer == [hash : Hash, height : 0..(MaxHeight + 1), prev : Hash,
             retries : 0..Threshold,
             end : {"none", "closed", "fork", "resync", "error"}]
Coordinator == [next : 0..(MaxHeight + 1), high : Heights, q : Seq(Entry),
                bulk : BOOLEAN]

\* The values the variables take.
TypeOK ==
  /\ chain \in Chains
  /\ tip \in Tips /\ spent \in Spent
  /\ row \in [Heights -> Hash]
  /\ undo \subseteq Heights
  /\ dbState \in {"open", "inconsistent"}
  /\ pc \in {"idle", "resync", "forkCheck", "forkWalk", "disconnect",
             "disconnecting", "plan", "startHash", "connect", "parallel",
             "refused"}
  /\ initial \in BOOLEAN /\ linked \in BOOLEAN
  /\ remote \in Tips \cup {NoTip}
  /\ best \in Heights /\ walk \in -1..MaxHeight
  /\ startHeight \in 0..(MaxHeight + 1)
  /\ gb \in Producer /\ bch \in Seq(Entry) /\ par \in Coordinator
  /\ seam \subseteq Heights /\ held \subseteq Block
  /\ floor \in 0..(MaxHeight + 1)

\* Blocks connected one after the other by the sequential path of one round
\* are linked: wherever the index holds a block whose parent is not the block
\* below it, that block was the first of its round (without the linked-tip
\* shortcut) or came from a bulk or parallel round.  This is what the prevHash
\* comparison of getBlockChain (db/sync.go:1160) buys, across the channel,
\* restarts, disconnects and a backend that reorganises at any moment.
RoundLinked ==
  \A h \in Heights \ {0} :
    (row[h] # NoHash /\ row[h - 1] # NoHash /\ h \notin seam)
      => Parent[row[h]] = row[h - 1]

\* The index has no holes: GetBestBlock, handleFork and loadBlockTimes take
\* every height between the first and the last row to be there.
NoHoles ==
  \A i, j, k \in Heights :
    (i < j /\ j < k /\ row[i] # NoHash /\ row[k] # NoHash) => row[j] # NoHash

\* Undo data (blockTxs) is there for indexed blocks only, and from the start
\* of the last bulk round it covers the index from the top: if a block can be
\* disconnected so can every block above it, whatever cleanupBlockTxs, the
\* skipped undo data of bulk connect and earlier disconnects removed.
UndoFromTop ==
  /\ undo \subseteq Rows
  /\ \A h \in undo \ {0} : h >= floor => \A k \in Rows : k > h => k \in undo

\* A block that was on the best chain all the time since ResyncIndex began is
\* never disconnected by it (unless a lagging node denied it): handleFork
\* removes forked blocks and nothing below the fork.
OnlyForkedDisconnected ==
  [][\A h \in Heights :
       (row[h] # NoHash /\ row'[h] = NoHash)
         => row[h] \notin held \/ pc = "refused"]_vars

\* Once the backend settles the best indexed block is its tip, for good,
\* unless the database is refused after a crash during bulk connect.
AtTip == \E h \in Rows : IsBest(h) /\ row[h] = TipHash(chain)
Converges == <>[](pc = "refused" \/ AtTip)
=============================================================================
