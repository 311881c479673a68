--------------------------- MODULE MempoolEthereum ---------------------------
(***************************************************************************)
(* The mempool of Ethereum-type coins (bchain/mempool_ethereum_type.go and *)
(* bchain/basemempool.go) with the goroutines that change it: the reader   *)
(* of newPendingTransactions, the mempool loop that calls Resync, a user   *)
(* whose transaction is sent through the alternative provider, and the     *)
(* sync worker that reads blocks (bchain/coins/eth/ethrpc.go).             *)
(*                                                                         *)
(* An add checks for the entry under the lock, fetches the transaction     *)
(* with the lock released and inserts it under the lock again.             *)
(***************************************************************************)
EXTENDS Integers

CONSTANTS
  Tx, Addr,
  From, To,       \* [Tx -> Addr]
  LogAddr,        \* [Tx -> Addr]: the receiver of a token transfer, known from the receipt
  Nonce,          \* [Tx -> Nat]
  Deployments,    \* [adders, query]: the goroutines that add, queryBackendOnResync
  TimeoutAge,     \* mempoolTimeoutTime, in ticks
  MaxSends        \* bound

ASSUME PoolAssumption ==
  /\ From \in [Tx -> Addr] /\ To \in [Tx -> Addr] /\ LogAddr \in [Tx -> Addr] /\ Nonce \in [Tx -> Nat]
  /\ \A d \in Deployments : d.adders \subseteq {"feed", "send", "resync"} /\ (d.query => "resync" \in d.adders)
  /\ TimeoutAge \in Nat /\ MaxSends \in Nat

VARIABLES
  deployment,  \* one of Deployments, for good
  status,      \* what the backend knows of a transaction: unknown, pending, mined, gone
  announced,   \* the NewTx channel
  unread,      \* mined transactions of blocks GetBlock has not read yet
  superseding, \* the transaction of the block whose nonce is retired next, or {}
  entries,     \* txEntries: [age, io], or NoEntry; io is a set of pairs of an address and a position
  index,       \* addrDescToTx: how often an address lists an outpoint, a pair of a transaction and a position
  add,         \* where the add of every adder is
  resync,      \* where Resync is, its snapshot, the age of it, what is left to add
  due,         \* nextTimeoutRun has passed
  sends

vars == <<deployment, status, announced, unread, superseding, entries, index, add, resync, due, sends>>

Adder == deployment.adders

Outpoint == Tx \X {-1, 0, 1}

NoEntry == [age |-> 0, io |-> {}]
NoAdd == [pc |-> "idle"]

Init ==
  /\ deployment \in Deployments
  /\ status = [tx \in Tx |-> "unknown"]
  /\ announced = {} /\ unread = {} /\ superseding = {}
  /\ entries = [tx \in Tx |-> NoEntry] /\ index = [a \in Addr |-> [o \in Outpoint |-> 0]]
  /\ add = [p \in Adder |-> NoAdd]
  /\ resync = [pc |-> "idle", list |-> {}, age |-> 0, todo |-> {}]
  /\ due = FALSE /\ sends = 0

Exists(tx) == entries[tx] # NoEntry

\* Ages stop at the first one over the timeout.
Older(age) == IF age > TimeoutAge THEN age ELSE age + 1

-----------------------------------------------------------------------------
\* The backend and time.

backendVars == <<deployment, status, announced, unread>>

NewPending(tx) ==
  /\ status[tx] = "unknown"
  /\ status' = [status EXCEPT ![tx] = "pending"]
  /\ announced' = announced \cup {tx}
  /\ UNCHANGED <<deployment, unread, superseding, entries, index, add, resync, due, sends>>

\* A mined transaction ends the others of its sender at or below its nonce.
Mine(tx) ==
  /\ status[tx] = "pending"
  /\ status' = [t \in Tx |->
       IF t = tx THEN "mined"
       ELSE IF From[t] = From[tx] /\ Nonce[t] <= Nonce[tx] /\ status[t] # "mined" THEN "gone"
       ELSE status[t]]
  /\ unread' = unread \cup {tx}
  /\ UNCHANGED <<deployment, announced, superseding, entries, index, add, resync, due, sends>>

Tick ==
  /\ entries' = [tx \in Tx |-> IF Exists(tx) THEN [entries[tx] EXCEPT !.age = Older(@)]
                               ELSE NoEntry]
  /\ add' = [p \in Adder |-> IF add[p] = NoAdd THEN NoAdd
                             ELSE [add[p] EXCEPT !.age = Older(@)]]
  /\ resync' = [resync EXCEPT !.age = IF resync.pc = "idle" THEN 0 ELSE Older(@)]
  /\ due' = TRUE
  /\ UNCHANGED <<backendVars, superseding, index, sends>>

-----------------------------------------------------------------------------
Touched(io) == {ai[1] : ai \in io}

\* Mutant: only the first address of an entry is cleaned.
MutWithoutFirst(S) ==
  [a \in Addr |-> [o \in Outpoint |-> IF o[1] \in S /\ a = To[o[1]] THEN 0 ELSE index[a][o]]]

\* The index without the outpoints of S, under the addresses of their entries.
Without(S) ==
  [a \in Addr |-> [o \in Outpoint |-> IF o[1] \in S /\ a \in Touched(entries[o[1]].io) THEN 0 ELSE index[a][o]]]

removeEntries(S) ==
  /\ entries' = [tx \in Tx |-> IF tx \in S THEN NoEntry ELSE entries[tx]]
  /\ index' = Without(S)

RemoveTransactionFromMempool(tx) == removeEntries({tx} \cap {t \in Tx : Exists(t)})

-----------------------------------------------------------------------------
\* AddTransactionToMempool by p, in three steps.

\* The time of the entry is taken before the transaction is fetched.
StartAdd(p, tx) ==
  add' = IF Exists(tx) THEN add
         ELSE [add EXCEPT ![p] = [pc |-> "fetch", tx |-> tx, age |-> 0, io |-> {}]]

\* The addresses of a transaction; a mined one comes with the logs of its receipt.
addrIndexes(tx) ==
  {<<To[tx], 0>>, <<From[tx], -1>>} \cup (IF status[tx] = "mined" THEN {<<LogAddr[tx], 1>>} ELSE {})

\* GetTransaction of a mined transaction removes its entry.
createTxEntry(p) ==
  LET tx == add[p].tx IN
  /\ add[p].pc = "fetch"
  /\ add' = [add EXCEPT ![p] = IF status[tx] \in {"pending", "mined"}
                               THEN [@ EXCEPT !.pc = "insert", !.io = addrIndexes(tx)]
                               ELSE NoAdd]
  /\ IF status[tx] = "mined" THEN RemoveTransactionFromMempool(tx)
     ELSE UNCHANGED <<entries, index>>
  /\ UNCHANGED <<backendVars, superseding, resync, due, sends>>

insertEntry(p) ==
  LET tx == add[p].tx IN
  /\ add[p].pc = "insert"
  /\ entries' = [entries EXCEPT ![tx] = [age |-> add[p].age, io |-> add[p].io]]
  /\ index' = [a \in Addr |-> [o \in Outpoint |->
                 index[a][o] + IF o[1] = tx /\ <<a, o[2]>> \in add[p].io THEN 1 ELSE 0]]
  /\ add' = [add EXCEPT ![p] = NoAdd]
  /\ UNCHANGED <<backendVars, superseding, resync, due, sends>>

-----------------------------------------------------------------------------
\* The callers.

\* The reader of the NewTx channel.
FeedAdd ==
  /\ "feed" \in Adder /\ add["feed"] = NoAdd
  /\ \E tx \in announced : announced' = announced \ {tx} /\ StartAdd("feed", tx)
  /\ UNCHANGED <<deployment, status, unread, superseding, entries, index, resync, due, sends>>

\* A transaction sent through the alternative provider is added, or its time renewed.
AddOrRefresh ==
  /\ "send" \in Adder /\ add["send"] = NoAdd
  /\ sends < MaxSends /\ sends' = sends + 1
  /\ \E tx \in Tx :
       /\ StartAdd("send", tx)
       /\ entries' = IF Exists(tx) THEN [entries EXCEPT ![tx].age = 0] ELSE entries
  /\ UNCHANGED <<backendVars, superseding, index, resync, due>>

\* Mutant: the transactions of the backend are not added.
MutResync ==
  /\ resync.pc = "idle"
  /\ resync' = IF deployment.query
               THEN LET list == {tx \in Tx : status[tx] = "pending"} IN
                    [pc |-> "add", list |-> list, age |-> 0, todo |-> {}]
               ELSE [resync EXCEPT !.pc = "timeout"]
  /\ UNCHANGED <<backendVars, superseding, entries, index, add, due, sends>>

Resync ==
  /\ resync.pc = "idle"
  /\ resync' = IF deployment.query
               THEN LET list == {tx \in Tx : status[tx] = "pending"} IN
                    [pc |-> "add", list |-> list, age |-> 0, todo |-> list]
               ELSE [resync EXCEPT !.pc = "timeout"]
  /\ UNCHANGED <<backendVars, superseding, entries, index, add, due, sends>>

\* Mutant: a transaction that has an entry already is passed over and stays on the list.
MutResyncAdd ==
  /\ resync.pc = "add" /\ add["resync"] = NoAdd
  /\ \E tx \in resync.todo :
       /\ resync' = [resync EXCEPT !.todo = IF Exists(tx) THEN @ ELSE @ \ {tx}]
       /\ StartAdd("resync", tx)
  /\ UNCHANGED <<backendVars, superseding, entries, index, due, sends>>

ResyncAdd ==
  /\ resync.pc = "add" /\ add["resync"] = NoAdd
  /\ \E tx \in resync.todo :
       /\ resync' = [resync EXCEPT !.todo = @ \ {tx}]
       /\ StartAdd("resync", tx)
  /\ UNCHANGED <<backendVars, superseding, entries, index, due, sends>>

removeTransactionsMissingFromBackend ==
  /\ resync.pc = "add" /\ resync.todo = {} /\ add["resync"] = NoAdd
  /\ resync' = [resync EXCEPT !.pc = "timeout"]
  /\ removeEntries({tx \in Tx \ resync.list : Exists(tx) /\ entries[tx].age > resync.age})
  /\ UNCHANGED <<backendVars, superseding, add, due, sends>>

\* The entries over the timeout are removed once a period.
Timeout ==
  /\ resync.pc = "timeout"
  /\ resync' = [pc |-> "idle", list |-> {}, age |-> 0, todo |-> {}]
  /\ due' = FALSE
  /\ removeEntries({tx \in Tx : due /\ Exists(tx) /\ entries[tx].age > TimeoutAge})
  /\ UNCHANGED <<backendVars, superseding, add, sends>>

\* GetBlock: the mined transaction leaves first, then what its nonce supersedes.
GetBlock ==
  /\ superseding = {}
  /\ \E tx \in unread :
       /\ unread' = unread \ {tx} /\ superseding' = {tx}
       /\ RemoveTransactionFromMempool(tx)
  /\ UNCHANGED <<deployment, status, announced, add, resync, due, sends>>

RemoveSenderTransactionsUpToNonce ==
  \E tx \in superseding :
    /\ superseding' = {}
    /\ removeEntries({t \in Tx :
         /\ \E o \in Outpoint : o[1] = t /\ index[From[tx]][o] > 0
         /\ Exists(t) /\ From[t] = From[tx] /\ Nonce[t] <= Nonce[tx]})
    /\ UNCHANGED <<backendVars, add, resync, due, sends>>

-----------------------------------------------------------------------------
Add(p) == createTxEntry(p) \/ insertEntry(p)

ResyncStep == Resync \/ ResyncAdd \/ removeTransactionsMissingFromBackend \/ Timeout

Next ==
  \/ \E tx \in Tx : NewPending(tx) \/ Mine(tx)
  \/ Tick \/ FeedAdd \/ AddOrRefresh \/ ResyncStep
  \/ GetBlock \/ RemoveSenderTransactionsUpToNonce
  \/ \E p \in Adder : Add(p)

\* The mempool loop calls Resync again and again and its adds go on; nothing is assumed
\* of the feed, of the sends and of block sync, any of which may hang.
Fairness == WF_vars(Tick) /\ WF_vars(ResyncStep) /\ WF_vars("resync" \in Adder /\ Add("resync"))

FairSpec == Init /\ [][Next]_vars /\ Fairness

-----------------------------------------------------------------------------
\* The values the variables take: an entry has the addresses of its transaction.
TypeOK ==
  /\ status \in [Tx -> {"unknown", "pending", "mined", "gone"}]
  /\ {announced, unread, superseding, resync.list, resync.todo} \subseteq SUBSET Tx
  /\ \A tx \in Tx : Exists(tx) => entries[tx].age \in 0..(TimeoutAge + 1)
                                  /\ {From[tx], To[tx]} \subseteq Touched(entries[tx].io)

\* A transaction of the mempool is found under each of its addresses, whatever was
\* added or removed at the same time (GetAddrDescTransactions).
EntriesIndexed ==
  \A tx \in Tx : \A ai \in entries[tx].io : index[ai[1]][<<tx, ai[2]>>] > 0

\* With one adding goroutine the address index is exact: an outpoint is listed once
\* and none is left of a transaction that was removed (removeEntryFromMempool cleans
\* every address of the entry).  Concurrent adds of one transaction break both.
SoleAdderExact ==
  (\A p, q \in Adder : p = q) =>
    \A a \in Addr : \A o \in Outpoint : index[a][o] > 0 => index[a][o] = 1 /\ Exists(o[1])

\* Both: what an address lists is right whatever the deployment promises of the adders.
MempoolExact == EntriesIndexed /\ SoleAdderExact

\* A transaction that stays pending in the backend is in the mempool again and
\* again, whatever timed out or was taken as missing: Resync adds it.
PendingListed ==
  \A tx \in Tx : []<>(deployment.query /\ status[tx] = "pending" => Exists(tx))

\* Mined and superseded transactions leave for good, also one that is inserted after
\* the block that retires it was read ("mined nonces and the timeout retire entries").
Retired == <>[](\A tx \in Tx : status[tx] \in {"mined", "gone"} => ~Exists(tx))
=============================================================================
