----------------------------- MODULE BulkConnect -----------------------------
(***************************************************************************)
(* Bulk connect (db/bulkconnect.go) of a Bitcoin-type index: blocks are    *)
(* processed into caches that are written to the database in parts, in     *)
(* batches that do not end with a block.  DbState says that the database   *)
(* cannot be used meanwhile; a process that is stopped in between leaves   *)
(* it inconsistent, and blockbook.go refuses to start with it.             *)
(*                                                                         *)
(* Outside of bulk connect the index moves as in BlockIndex.               *)
(***************************************************************************)
EXTENDS BlockIndex

CONSTANTS
  MaxBulkTxAddresses, PartialTxAddresses,  \* maxBulkTxAddresses, partialStoreAddresses
  MaxBulkBalances, PartialBalances,        \* maxBulkBalances, partialStoreBalances
  MaxBulkAddresses,                        \* maxBulkAddresses
  MaxRounds, MaxCrashes, MaxWriteErrors,   \* bounds
  MaxDamagedTips,                          \* bound: single blocks after a failed Close
  RoundsAfterError                         \* the process goes on with bulk rounds after one

VARIABLES
  phase,        \* "down", "idle", "bulk" or "closing"
  dbState,      \* DbState as stored
  higher,       \* the last height of the bulk range
  cache,        \* txAddressesMap and balances
  pending,      \* bulkAddresses: the blocks whose rows are not written yet
  todo,         \* the writes of this block, or of Close, still to be done
  failed,       \* Close met an error
  spent         \* how much of the bounds is used

bulkVars == <<phase, dbState, higher, cache, pending, todo, failed, spent>>

NoCache == [txa |-> Empty, bal |-> Empty]

\* The chain with the blocks that only the caches know.
FullChain == chain \o [i \in DOMAIN pending |-> pending[i].block]

BulkInit ==
  /\ Init
  /\ phase = "idle" /\ dbState = "open" /\ higher = 0
  /\ cache = NoCache /\ pending = <<>> /\ todo = {} /\ failed = FALSE
  /\ spent = [rounds |-> 0, crashes |-> 0, errors |-> 0, tips |-> 0]

-----------------------------------------------------------------------------
\* Blocks connected and disconnected one by one.
Tip ==
  /\ phase = "idle" /\ Next
  /\ IF failed
     THEN spent.tips < MaxDamagedTips /\ spent' = [spent EXCEPT !.tips = @ + 1]
     ELSE UNCHANGED spent
  /\ UNCHANGED <<phase, dbState, higher, cache, pending, todo, failed>>

InitBulkConnect ==
  /\ phase = "idle" /\ spent.rounds < MaxRounds
  /\ failed => RoundsAfterError
  /\ \E n \in (Len(chain) + 1)..MaxHeight : higher' = n
  /\ dbState' = "inconsistent" /\ phase' = "bulk"
  /\ cache' = NoCache /\ pending' = <<>> /\ failed' = FALSE
  /\ spent' = [spent EXCEPT !.rounds = @ + 1]
  /\ UNCHANGED <<vars, todo>>

PendingAddresses(p) == MapThenSumSet(LAMBDA i : Cardinality(DOMAIN p[i].rows), DOMAIN p)

\* Which writes the block makes necessary.
Writes(c, p, height) ==
  LET nt == Cardinality(DOMAIN c.txa)
      nb == Cardinality(DOMAIN c.bal)
      sa == nt > MaxBulkTxAddresses \/ nb > MaxBulkBalances
  IN {k \in {"txa", "bal", "rows", "undo"} :
        CASE k = "txa" -> sa /\ nt + PartialTxAddresses > MaxBulkTxAddresses
          [] k = "bal" -> sa /\ nb + PartialBalances > MaxBulkBalances
          [] k = "rows" -> sa \/ PendingAddresses(p) > MaxBulkAddresses
          [] k = "undo" -> height + Keep > higher}

BulkConnectBlock(block) ==
  LET height == Len(FullChain) + 1
      work == [Work EXCEPT !.txa = cache.txa, !.bal = cache.bal]
      w == processAddressesBitcoinType(db, work, block, height)
  IN /\ phase = "bulk" /\ todo = {}
     /\ height <= higher /\ ValidOn(FullChain, block)
     /\ cache' = [txa |-> w.txa, bal |-> w.bal]
     /\ pending' = Append(pending, [block |-> block, rows |-> w.rows])
     /\ todo' = Writes(cache', pending', height)
     /\ lost' = (lost \/ w.lost) /\ negative' = (negative \/ w.negative)
     /\ UNCHANGED <<chain, txa, bal, rows, undo, phase, dbState, higher, failed, spent>>

-----------------------------------------------------------------------------
\* The writes: two goroutines and the caller, in any order.

\* A part of S with n members, all of S when it is smaller.
Part(S, n) == kSubset(IF Cardinality(S) < n THEN Cardinality(S) ELSE n, S)

\* The transactions that are completely spent, and others if they are few.
TxPart ==
  LET full == {t \in DOMAIN cache.txa : \A o \in DOMAIN cache.txa[t].outs : cache.txa[t].outs[o].spent}
      n == Cardinality(full)
  IN IF n >= PartialTxAddresses THEN {full}
     ELSE {full \cup x : x \in Part(DOMAIN cache.txa \ full, PartialTxAddresses - n)}

parallelStoreTxAddresses(k, parts) ==
  /\ k \in todo
  /\ \E p \in parts :
       /\ txa' = Over(Restrict(cache.txa, p), txa)
       /\ cache' = [cache EXCEPT !.txa = Without(@, p)]
  /\ todo' = todo \ {k}
  /\ UNCHANGED <<chain, bal, rows, undo, lost, negative, phase, dbState, higher, pending,
                 failed, spent>>

\* Mutant: the part leaves the cache and is not written.
MutStorePart(k, parts) ==
  /\ k \in todo
  /\ \E p \in parts : cache' = [cache EXCEPT !.bal = Without(@, p)]
  /\ todo' = todo \ {k}
  /\ UNCHANGED <<chain, txa, bal, rows, undo, lost, negative, phase, dbState, higher, pending,
                 failed, spent>>

parallelStoreBalances(k, parts) ==
  /\ k \in todo
  /\ \E p \in parts :
       /\ bal' = storeBalances(bal, Restrict(cache.bal, p))
       /\ cache' = [cache EXCEPT !.bal = Without(@, p)]
  /\ todo' = todo \ {k}
  /\ UNCHANGED <<chain, txa, rows, undo, lost, negative, phase, dbState, higher, pending,
                 failed, spent>>

PendingRows == FoldLeftDomain(
  LAMBDA r, i : storeAddresses(r, pending[i].rows, Len(chain) + i), rows, pending)

\* The batch of the caller: address rows, heights, and the undo data of the block.
WriteRows(ks) ==
  /\ todo \cap ks # {}
  /\ IF todo \cap {"rows", "rowsAll"} # {}
     THEN rows' = PendingRows /\ chain' = FullChain /\ pending' = <<>>
     ELSE UNCHANGED <<rows, chain, pending>>
  /\ undo' = IF "undo" \in todo
             THEN LET height == Len(FullChain) IN Cleaned(undo, height) \cup {height}
             ELSE undo
  /\ todo' = todo \ ks
  /\ UNCHANGED <<txa, bal, lost, negative, phase, dbState, higher, cache, failed, spent>>

Write ==
  \/ parallelStoreTxAddresses("txa", TxPart)
  \/ parallelStoreTxAddresses("txaAll", {DOMAIN cache.txa})
  \/ parallelStoreBalances("bal", Part(DOMAIN cache.bal, PartialBalances))
  \/ parallelStoreBalances("balAll", {DOMAIN cache.bal})
  \/ WriteRows({"rows", "undo"})
  \/ WriteRows({"rowsAll"})

-----------------------------------------------------------------------------
\* Close flushes the caches; it comes at the end of the range or of the round.
BulkClose ==
  /\ phase = "bulk" /\ todo = {}
  /\ phase' = "closing" /\ todo' = {"txaAll", "balAll", "rowsAll"}
  /\ UNCHANGED <<vars, dbState, higher, cache, pending, failed, spent>>

\* One of the writes of Close fails: its cache was emptied before it was written.
CloseWriteError ==
  /\ phase = "closing" /\ spent.errors < MaxWriteErrors
  /\ \E k \in todo :
       /\ todo' = todo \ {k}
       /\ cache' = [txa |-> IF k = "txaAll" THEN Empty ELSE cache.txa,
                    bal |-> IF k = "balAll" THEN Empty ELSE cache.bal]
       /\ pending' = IF k = "rowsAll" THEN <<>> ELSE pending
  /\ failed' = TRUE
  /\ spent' = [spent EXCEPT !.errors = @ + 1]
  /\ UNCHANGED <<vars, phase, dbState, higher>>

\* SetInconsistentState(false) when every write is done; an error is only logged
\* by BulkConnectBlocks.
BulkClosed ==
  /\ phase = "closing" /\ todo = {}
  /\ phase' = "idle"
  /\ dbState' = IF failed THEN dbState ELSE "open"
  /\ UNCHANGED <<vars, todo, higher, cache, pending, failed, spent>>

-----------------------------------------------------------------------------
\* The life of the process.

Down ==
  /\ phase' = "down" /\ cache' = NoCache /\ pending' = <<>> /\ todo' = {} /\ failed' = FALSE
  /\ UNCHANGED <<vars, higher>>

Crash ==
  /\ phase # "down" /\ spent.crashes < MaxCrashes
  /\ Down
  /\ spent' = [spent EXCEPT !.crashes = @ + 1]
  /\ UNCHANGED dbState

\* RocksDB.Close: the state becomes closed only when it is open.
Shutdown ==
  /\ phase = "idle"
  /\ Down
  /\ dbState' = IF dbState = "open" THEN "closed" ELSE dbState
  /\ UNCHANGED spent

Start ==
  /\ phase = "down" /\ dbState # "inconsistent"
  /\ phase' = "idle" /\ dbState' = "open"
  /\ UNCHANGED <<vars, higher, cache, pending, todo, failed, spent>>

\* The operator deletes a database that blockbook refuses.
Recreate ==
  /\ phase = "down" /\ dbState = "inconsistent"
  /\ dbState' = "closed"
  /\ chain' = <<>> /\ txa' = Empty /\ bal' = Empty /\ rows' = Empty /\ undo' = {}
  /\ UNCHANGED <<lost, negative, phase, higher, cache, pending, todo, failed, spent>>

BulkNext ==
  \/ Tip \/ InitBulkConnect \/ Write \/ BulkClose \/ CloseWriteError \/ BulkClosed
  \/ Crash \/ Shutdown \/ Start \/ Recreate
  \/ \E block \in Blocks : BulkConnectBlock(block)

BulkSpec == BulkInit /\ [][BulkNext]_<<vars, bulkVars>>

-----------------------------------------------------------------------------
WholeFor(c, t, b, r) ==
  /\ BalancesReplay(c, b)
  /\ HistoryReplay(c, r)
  /\ TxsReplay(c, t, LAMBDA o : o.addr # NoAddr)

\* A database that is not marked inconsistent is the replay of its chain: a crash
\* between two of the batches of bulk connect is never mistaken for an ungraceful
\* stop (SetInconsistentState, DbState in blockbook.go).
OpenIsWhole == dbState # "inconsistent" => WholeFor(chain, txa, bal, rows)

\* Between two blocks, the caches over the database are the replay of all blocks:
\* writing random parts of the caches and reading them back loses nothing.
BulkIsWhole ==
  phase = "bulk" /\ todo = {} =>
    WholeFor(FullChain, Over(cache.txa, txa), storeBalances(bal, cache.bal), PendingRows)

\* No spent output is missed by markUtxoAsSpent and no balance falls below zero, also
\* in a cached balance, whose spent utxos stay in the list that utxosMap indexes.
BulkUtxoFound == ~lost /\ ~negative
=============================================================================
