------------------------------- MODULE DbOpen -------------------------------
(***************************************************************************)
(* The life of a database between two processes: the internal state that   *)
(* is stored with it, the checks and migrations of a start (blockbook.go,  *)
(* LoadInternalState, checkColumns), the passes that repair or sort rows   *)
(* (FixUtxos, SortAddressContracts), a bulk import, closing, dying, and    *)
(* the -repair mode (db/rocksdb.go).                                       *)
(*                                                                         *)
(* A row of addressContracts is its format, whether its content is what    *)
(* the index wrote, and whether its lists are sorted.  A row of            *)
(* addressBalance is its balance and its list of unspent outputs.          *)
(***************************************************************************)
EXTENDS Integers, Sequences, FiniteSetsExt, TLC

CONSTANTS
    DbVersion,     \* the data format of this program
    RefreshRows,   \* refreshIterator, rows migrated in one batch
    AddrOutputs,   \* address to its outputs, oldest first: [tx, vout, value, spent]
    FirstDbs,      \* databases to begin with
    MaxStarts      \* bound on the number of starts

NoState == [none |-> TRUE]
State == [dbState : {"open", "closed", "inconsistent"}, coin : {"this", "other"}, version : Int,
          utxoChecked : BOOLEAN, sorted : BOOLEAN]
Contract == [format : Int, kept : BOOLEAN, sorted : BOOLEAN]

\* What an internal state says of the contract rows of its database is so.
Describes(is, rows) ==
    /\ is.version = DbVersion => \A i \in DOMAIN rows : rows[i].format = DbVersion
    /\ is.sorted => \A i \in DOMAIN rows : rows[i].sorted

\* The program finds a new database, or one that a process has left with its import whole.
ASSUME DbAssumption ==
    /\ DbVersion \in Int /\ RefreshRows \in Nat \ {0}
    /\ \A first \in FirstDbs :
          /\ first.contracts \in Seq(Contract)
          /\ \/ first.state = NoState /\ first.contracts = <<>>
             \/ first.state \in State /\ Describes(first.state, first.contracts)

VARIABLES
    storedState,   \* the internal state in the default column
    contractRows,  \* addressContracts, in the order of the keys
    balanceRows,   \* addressBalance, in the order of the keys
    imported,      \* every block below the best height is in the index
    process,       \* the running program
    starts,
    forced         \* -forcerepair has reset an interrupted import

dbVars == <<storedState, contractRows, balanceRows, imported, process, starts, forced>>
dbData == <<contractRows, balanceRows, imported>>

Off == [at |-> "off"]
Modes == {"serve", "fixutxo", "columnstats"}

-----------------------------------------------------------------------------
(* FixUtxos: one address.                                                  *)

UtxoSum(list) == MapThenSumSet(LAMBDA i : list[i].value, DOMAIN list)
\* The run of entries of one transaction that holds entry i.
RunFrom(list, i) == Min({j \in 1..i : \A k \in j..i : list[k].tx = list[i].tx})
RunTo(list, i) == Max({j \in i..Len(list) : \A k \in i..j : list[k].tx = list[i].tx})
reorderUtxo(list, i) ==
    SubSeq(list, 1, RunFrom(list, i) - 1)
      \o SortSeq(SubSeq(list, RunFrom(list, i), RunTo(list, i)), LAMBDA a, b : a.vout < b.vout)
      \o SubSeq(list, RunTo(list, i) + 1, Len(list))
OutOfOrder(list, i) == list[i - 1].tx = list[i].tx /\ list[i - 1].vout > list[i].vout
Reordered(list) ==
    LET upto[i \in 0..Len(list)] ==
          IF i < 2 THEN list
          ELSE IF OutOfOrder(upto[i - 1], i) THEN reorderUtxo(upto[i - 1], i) ELSE upto[i - 1]
    IN upto[Len(list)]

\* Unspent outputs of the address's transactions, taken from the newest on up to the one
\* that makes the balance, and listed from the oldest on.
Unspent(a) == SelectSeq(AddrOutputs[a], LAMBDA o : ~o.spent)
FromTransactions(a, balance) ==
    LET outs == Unspent(a)
        got[n \in 0..Len(outs)] ==
          IF n = 0 THEN <<>>
          ELSE IF got[n - 1] # <<>> /\ UtxoSum(got[n - 1]) = balance THEN got[n - 1]
          ELSE <<outs[Len(outs) + 1 - n]>> \o got[n - 1]
    IN got[Len(outs)]

fixUtxo(row) ==
    LET list == Reordered(row.utxos)
        found == FromTransactions(row.addr, row.balance)
    IN IF UtxoSum(list) # row.balance
       THEN IF UtxoSum(found) = row.balance THEN [row EXCEPT !.utxos = found] ELSE row
       ELSE [row EXCEPT !.utxos = list]

-----------------------------------------------------------------------------
(* Starting.                                                               *)

Fresh == [dbState |-> "closed", coin |-> "this", version |-> DbVersion, utxoChecked |-> TRUE, sorted |-> TRUE]

DbInit ==
    /\ \E first \in FirstDbs : /\ storedState = first.state
                               /\ contractRows = first.contracts
                               /\ balanceRows = first.balances
    /\ imported = TRUE /\ process = Off /\ starts = 0 /\ forced = FALSE

NewRocksDB(mode) ==
    /\ process = Off
    /\ starts < MaxStarts
    /\ starts' = starts + 1
    /\ process' = [at |-> "open", mode |-> mode, is |-> NoState, row |-> 0,
                 initialSync |-> TRUE, whole |-> TRUE]
    /\ UNCHANGED <<storedState, dbData, forced>>

\* storeState
Store(is) == storedState' = is
\* RocksDB.Close: only a state that is open in memory is stored, as closed.
Close ==
    /\ IF process.is # NoState /\ process.is.dbState = "open"
       THEN Store([process.is EXCEPT !.dbState = "closed"]) ELSE UNCHANGED storedState
    /\ process' = Off

\* A database of another coin or other index settings, or of another format that cannot be
\* migrated, is refused.
checkColumns(is) == is.version \in {DbVersion, DbVersion - 1}
LoadInternalState ==
    /\ process.at = "open"
    /\ LET is == IF storedState = NoState THEN Fresh ELSE storedState
       IN IF ~(is.coin = "this" /\ checkColumns(is)) THEN Close
          ELSE /\ process' = IF is.version = DbVersion THEN [process EXCEPT !.at = "loaded", !.is = is]
                             ELSE [process EXCEPT !.at = "migrate", !.row = 0]
               /\ UNCHANGED storedState
    /\ UNCHANGED <<dbData, starts, forced>>

\* A row of the previous format is repacked; one that already has this format cannot be
\* read as the previous one, and an unreadable row becomes an empty record.
Repacked(row) == [row EXCEPT !.format = DbVersion, !.kept = @ /\ row.format = DbVersion - 1]
migrateAddrContracts ==
    /\ process.at = "migrate"
    /\ LET from == process.row + 1
           upto == Min({process.row + RefreshRows, Len(contractRows)})
       IN /\ contractRows' = [i \in DOMAIN contractRows |->
                                IF i \in from..upto THEN Repacked(contractRows[i]) ELSE contractRows[i]]
          /\ process' = IF upto < Len(contractRows) THEN [process EXCEPT !.row = upto]
                        ELSE [process EXCEPT !.at = "loaded", !.row = 0,
                                             !.is = [storedState EXCEPT !.version = DbVersion]]
    /\ UNCHANGED <<storedState, balanceRows, imported, starts, forced>>

\* FixUtxos, a row at a time; a signal interrupts it.
FixUtxos ==
    /\ process.at = "loaded"
    /\ process.mode = "fixutxo" \/ ~process.is.utxoChecked
    /\ process.row < Len(balanceRows)
    /\ balanceRows' = [balanceRows EXCEPT ![process.row + 1] = fixUtxo(@)]
    /\ process' = [process EXCEPT !.row = @ + 1]
    /\ UNCHANGED <<storedState, contractRows, imported, starts, forced>>
FixedUtxos ==
    /\ process.at = "loaded"
    /\ (process.mode = "fixutxo" \/ ~process.is.utxoChecked) => process.row = Len(balanceRows)
    /\ process' = [process EXCEPT !.at = "fixed", !.row = 0, !.is.utxoChecked = TRUE]
    /\ UNCHANGED <<storedState, dbData, starts, forced>>

SortAddressContracts ==
    /\ process.at = "fixed"
    /\ ~process.is.sorted
    /\ process.row < Len(contractRows)
    /\ contractRows' = [contractRows EXCEPT ![process.row + 1].sorted = TRUE]
    /\ process' = [process EXCEPT !.row = @ + 1]
    /\ UNCHANGED <<storedState, balanceRows, imported, starts, forced>>

\* Mutant: the flag is set without waiting for the last row.
MutSortedAddressContracts ==
    /\ process.at = "fixed"
    /\ process' = [process EXCEPT !.at = "checked", !.is.sorted = TRUE]
    /\ UNCHANGED <<storedState, dbData, starts, forced>>

SortedAddressContracts ==
    /\ process.at = "fixed"
    /\ process.is.sorted \/ process.row = Len(contractRows)
    /\ process' = [process EXCEPT !.at = "checked", !.is.sorted = TRUE]
    /\ UNCHANGED <<storedState, dbData, starts, forced>>

\* -fixutxo stores the state and ends.
FixUtxoEnds ==
    /\ process.at = "checked" /\ process.mode = "fixutxo"
    /\ Store(process.is)
    /\ process' = [process EXCEPT !.at = "ending"]
    /\ UNCHANGED <<dbData, starts, forced>>

\* An inconsistent database ends the program; -computedbstats marks the state open.
CheckDbState ==
    /\ process.at = "checked" /\ process.mode # "fixutxo"
    /\ process' = CASE process.is.dbState = "inconsistent" -> [process EXCEPT !.at = "ending"]
                    [] process.mode = "columnstats" /\ process.is.dbState # "inconsistent" ->
                          [process EXCEPT !.at = "stats", !.is.dbState = "open"]
                    [] OTHER -> [process EXCEPT !.at = "workers"]
    /\ UNCHANGED <<storedState, dbData, starts, forced>>

\* The state is stored as open once the workers are made; then the index follows the chain.
Serve ==
    /\ process.at = "workers"
    /\ Store([process.is EXCEPT !.dbState = "open"])
    /\ process' = [process EXCEPT !.at = "serving", !.is.dbState = "open"]
    /\ UNCHANGED <<dbData, starts, forced>>

\* The initial synchronization may be a bulk import; gaps that were there before it stay.
InitBulkConnect ==
    /\ process.at = "serving"
    /\ process.initialSync
    /\ imported' = FALSE
    /\ Store([process.is EXCEPT !.dbState = "inconsistent"])
    /\ process' = [process EXCEPT !.at = "bulk", !.is.dbState = "inconsistent", !.whole = imported]
    /\ UNCHANGED <<contractRows, balanceRows, starts, forced>>
BulkConnectClose ==
    /\ process.at = "bulk"
    /\ imported' = process.whole
    /\ Store([process.is EXCEPT !.dbState = "open"])
    /\ process' = [process EXCEPT !.at = "serving", !.is.dbState = "open", !.initialSync = FALSE]
    /\ UNCHANGED <<contractRows, balanceRows, starts, forced>>

\* The process ends: at the end of its mode, by a signal, or after an error.
Ends ==
    /\ process.at \in {"migrate", "loaded", "fixed", "ending", "stats", "workers", "serving", "bulk"}
    /\ Close
    /\ UNCHANGED <<dbData, starts, forced>>

\* The process dies: nothing more is written.
Dies ==
    /\ process # Off
    /\ process' = Off
    /\ UNCHANGED <<storedState, dbData, starts, forced>>

\* -repair: the column families are rebuilt as they are; an interrupted import is refused
\* unless forced, and any other state is left alone.
checkAndResetStateAfterRepair(force) == storedState.dbState = "inconsistent" /\ force
RepairRocksDB(force) ==
    /\ process = Off
    /\ starts < MaxStarts
    /\ storedState # NoState
    /\ checkAndResetStateAfterRepair(force)
    /\ starts' = starts + 1
    /\ Store([storedState EXCEPT !.dbState = "open"])
    /\ forced' = force
    /\ UNCHANGED <<dbData, process>>

DbNext ==
    \/ \E mode \in Modes : NewRocksDB(mode)
    \/ LoadInternalState \/ migrateAddrContracts \/ FixUtxos \/ FixedUtxos
    \/ SortAddressContracts \/ SortedAddressContracts \/ FixUtxoEnds \/ CheckDbState \/ Serve
    \/ InitBulkConnect \/ BulkConnectClose \/ Ends \/ Dies
    \/ \E force \in BOOLEAN : RepairRocksDB(force)

DbSpec == DbInit /\ [][DbNext]_dbVars

-----------------------------------------------------------------------------
(* A bulk import that did not finish is never served: neither a restart,   *)
(* nor -fixutxo, -computedbstats or -repair, nor any sequence of them with *)
(* deaths in between makes the program run on such a database, except      *)
(* -forcerepair (CheckDbState of blockbook.go, Close, RepairRocksDB).      *)
InterruptedImportRefused ==
    process.at \in {"stats", "workers", "serving"} => imported \/ forced

(* Nor is a database served that is not ready: it is of this program's     *)
(* coin and format and every list of its contract rows is sorted, although *)
(* any start before may have been interrupted anywhere (LoadInternalState, *)
(* migrateAddrContracts, SortAddressContracts).                            *)
ServedIsReady ==
    /\ InterruptedImportRefused
    /\ process.at = "serving" =>
          /\ process.is.coin = "this"
          /\ \A i \in DOMAIN contractRows : contractRows[i].format = DbVersion /\ contractRows[i].sorted

(* Every address of a served database whose balance is that of its unspent *)
(* outputs lists exactly those outputs, save ones of value zero, those of  *)
(* one transaction in the order of their numbers (FixUtxos).               *)
UtxosRepaired ==
    process.at = "serving" =>
       \A i \in DOMAIN balanceRows :
          LET row == balanceRows[i]
              worth(list) == SelectSeq(list, LAMBDA o : o.value > 0)
          IN row.balance = UtxoSum(Unspent(row.addr)) => worth(row.utxos) = worth(Unspent(row.addr))

(* "Blockbook is checking on startup these values and does not allow to    *)
(* run against wrong coin, data format version and in inconsistent state"  *)
(* (docs/rocksdb.md): what is served has been read in the format it was    *)
(* written in.                                                             *)
NoRowMisread ==
    process.at = "serving" => \A i \in DOMAIN contractRows : contractRows[i].kept
=============================================================================
