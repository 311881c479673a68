------------------------------ MODULE MCStorage ------------------------------
(***************************************************************************)
(* How blocks come into the database and stay there, for TLC: a parallel   *)
(* round, the index of a Bitcoin-type chain, bulk connect, the block times *)
(* in memory and the start of the program on a database.  The parts share  *)
(* no state, so a behaviour exercises one of them, and the variables of    *)
(* the others keep their first values.                                     *)
(***************************************************************************)
EXTENDS ParallelConnect, BlockTimes, DbOpen

CONSTANTS
    Parts,                                           \* the parts to exercise
    c1, c2, c3, c4, s1, s2, s3, s4, alice, bob,      \* transactions and addresses
    NoTx, NoAddr,
    MaxDamagedTips, RoundsAfterError                 \* of BulkConnect

VARIABLES
    part,
    chain, txa, bal, rows, undo, lost, negative,
    phase, dbState, higher, cache, pending, todo, failed, bulkSpent

\* Four coinbases and transactions that spend several outputs of one tx, outputs of their own block, and the same output
\* as another one.  c3 has an output without an address.
Out(addr, value) == [addr |-> addr, value |-> value]
Minted == <<<<NoTx, 0>>>>
IndexIns ==
    c1 :> Minted @@ c2 :> Minted @@ c3 :> Minted @@ c4 :> Minted
    @@ s1 :> << <<c1, 2>>, <<c1, 1>> >>
    @@ s2 :> << <<s1, 1>> >>
    @@ s3 :> << <<c1, 2>> >>
    @@ s4 :> << <<c2, 1>>, <<s1, 2>>, <<c1, 3>> >>
IndexOuts ==
    c1 :> <<Out(alice, 1), Out(alice, 2), Out(alice, 3)>>
    @@ c2 :> <<Out(alice, 1), Out(bob, 2)>>
    @@ c3 :> <<Out(bob, 5), Out(NoAddr, 0)>>
    @@ c4 :> <<Out(alice, 1)>>
    @@ s1 :> <<Out(bob, 1), Out(alice, 2)>>
    @@ s2 :> <<Out(alice, 1), Out(bob, 0)>>
    @@ s3 :> <<Out(bob, 2)>>
    @@ s4 :> <<Out(alice, 4), Out(alice, 2)>>
Index == INSTANCE BlockIndex WITH
    Tx <- {c1, c2, c3, c4, s1, s2, s3, s4}, Ins <- IndexIns, Outs <- IndexOuts, Addr <- {alice, bob}, UtxosMapMin <- 3,
    Keep <- 2, MaxHeight <- 4, MaxBlockTxs <- 3

\* Five transactions of two addresses: caches of two transactions and one balance overflow with every other block.
BulkIns ==
    c1 :> Minted @@ c2 :> Minted @@ c3 :> Minted
    @@ s1 :> << <<c1, 2>>, <<c1, 1>> >>
    @@ s2 :> << <<s1, 1>>, <<c2, 1>> >>
BulkOuts ==
    c1 :> <<Out(alice, 1), Out(alice, 2)>>
    @@ c2 :> <<Out(alice, 1), Out(bob, 2)>>
    @@ c3 :> <<Out(bob, 5)>>
    @@ s1 :> <<Out(alice, 1), Out(alice, 2)>>
    @@ s2 :> <<Out(bob, 1)>>
Bulk == INSTANCE BulkConnect WITH
    Tx <- {c1, c2, c3, s1, s2}, Ins <- BulkIns, Outs <- BulkOuts, Addr <- {alice, bob}, UtxosMapMin <- 3,
    Keep <- 1, MaxHeight <- 3, MaxBlockTxs <- 2, MaxBulkTxAddresses <- 2, PartialTxAddresses <- 1, MaxBulkBalances <- 1,
    PartialBalances <- 1, MaxBulkAddresses <- 2, MaxRounds <- 2, MaxCrashes <- 1, MaxWriteErrors <- 1, spent <- bulkSpent

Utxo(tx, vout, value, isSpent) == [tx |-> tx, vout |-> vout, value |-> value, spent |-> isSpent]
Outputs == [a |-> <<Utxo("t1", 0, 2, TRUE), Utxo("t1", 1, 0, FALSE), Utxo("t2", 0, 3, FALSE), Utxo("t2", 1, 1, FALSE)>>,
            b |-> <<Utxo("t1", 2, 5, FALSE)>>]
Balance(a, balance, utxos) == [addr |-> a, balance |-> balance, utxos |-> utxos]
ContractRow(format, sorted) == [format |-> format, kept |-> TRUE, sorted |-> sorted]
StoredState(state, version, checked, sorted) ==
    [dbState |-> state, coin |-> "this", version |-> version, utxoChecked |-> checked, sorted |-> sorted]
Db(state, contracts, balances) == [state |-> state, contracts |-> contracts, balances |-> balances]
Healthy == Db(StoredState("closed", 7, TRUE, TRUE), <<ContractRow(7, TRUE)>>,
              <<Balance("a", 4, Tail(Outputs["a"])), Balance("b", 5, Outputs["b"])>>)
Databases == {
    Healthy,
    \* a new database, and one of another coin
    Db([none |-> TRUE], <<>>, <<>>),
    Db([StoredState("closed", 7, TRUE, TRUE) EXCEPT !.coin = "other"], <<>>, <<>>),
    \* a database of the previous format, its contract lists not yet sorted
    Db(StoredState("closed", 6, TRUE, FALSE), <<ContractRow(6, FALSE), ContractRow(6, TRUE), ContractRow(6, FALSE)>>, <<>>),
    \* unspent outputs never checked: one list out of order, one with a wrong entry
    Db(StoredState("closed", 7, FALSE, TRUE), <<>>,
       <<Balance("a", 4, <<Utxo("t1", 1, 0, FALSE), Utxo("t2", 1, 1, FALSE), Utxo("t2", 0, 3, FALSE)>>),
         Balance("b", 5, <<Utxo("t1", 2, 5, FALSE), Utxo("t1", 2, 5, FALSE)>>)>>),
    Db(StoredState("open", 7, FALSE, TRUE), <<>>,
       <<Balance("a", 4, <<Utxo("t1", 0, 2, FALSE), Utxo("t2", 1, 1, FALSE)>>), Balance("b", 6, <<>>)>>) }

-----------------------------------------------------------------------------
indexVars == <<chain, txa, bal, rows, undo, lost, negative>>
bulkVars == <<phase, dbState, higher, cache, pending, todo, failed, bulkSpent>>

StorageInit ==
    /\ part \in Parts
    /\ Init /\ Bulk!BulkInit
    /\ DbInit /\ (part # "open" => storedState = Healthy.state)
    /\ TimesInit /\ (part # "times" => heights = <<>> /\ loader[CHOOSE l \in Loader : TRUE] = Started)

StorageNext ==
    /\ \/ part = "round" /\ Next /\ UNCHANGED <<indexVars, bulkVars, timesVars, dbVars>>
       \/ part = "index" /\ Index!Next /\ UNCHANGED <<vars, bulkVars, timesVars, dbVars>>
       \/ part = "bulk" /\ Bulk!BulkNext /\ UNCHANGED <<vars, timesVars, dbVars>>
       \/ part = "times" /\ TimesNext /\ UNCHANGED <<vars, indexVars, bulkVars, dbVars>>
       \/ part = "open" /\ DbNext /\ UNCHANGED <<vars, indexVars, bulkVars, timesVars>>
    /\ UNCHANGED part

\* The fairness of ParallelConnect.
StorageSpec ==
    /\ StorageInit /\ [][StorageNext]_<<part, vars, indexVars, bulkVars, timesVars, dbVars>>
    /\ WF_vars(part = "round" /\ Coordinator) /\ WF_vars(part = "round" /\ WriterDone)
    /\ \A i \in Worker : /\ WF_vars(part = "round" /\ WorkerStep(i))
                          /\ SF_vars(part = "round" /\ Overdue(i))

-----------------------------------------------------------------------------
(* Properties, each stated with its part. *)

\* A parallel round returns, and so does one that is asked to stop while heights are left to queue.
RoundEnds == part = "round" => Returns /\ StopEndsRound

\* The columns are the replay of the chain, after any connects and disconnects; no output is missed by the search through
\* utxosMap, no amount is reset to zero, and the order that search relies on holds.  A start that checks the unspent
\* outputs of the addresses leaves them as the transactions say.
IndexIsReplay ==
    /\ part = "index" => Index!IndexIsReplay /\ Index!NothingLost /\ Index!UtxoOrder
    /\ UtxosRepaired

\* A database that is not marked inconsistent is the replay of its chain.
OpenIsWhole == part = "bulk" => Bulk!OpenIsWhole

\* So are the caches over the database between two blocks of bulk connect, and no spent output is missed in them.
BulkIsWhole == part = "bulk" => Bulk!OpenIsWhole /\ Bulk!BulkIsWhole /\ Bulk!BulkUtxoFound
=============================================================================
