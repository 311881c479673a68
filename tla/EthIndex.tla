------------------------------ MODULE EthIndex ------------------------------
(***************************************************************************)
(* The index of Ethereum-type coins (db/rocksdb_ethereumtype.go):          *)
(* ConnectBlock, DisconnectBlockRangeEthereumType and the healing of       *)
(* internal data, with the columns height, addressContracts, addresses,    *)
(* internalData, blockInternalDataErrors, contracts and blockTxs, the      *)
(* cache of large addressContracts records in front of them, crashes and   *)
(* failed writes.                                                          *)
(*                                                                         *)
(* A transaction has a sender, a receiver (NoAddr when it creates a        *)
(* contract), the internal data of its trace (the contract its root frame  *)
(* creates and the nested calls) and the token transfers of its logs.  A   *)
(* transfer moves <<id, value>> pairs; ERC20 values are not aggregated.    *)
(*                                                                         *)
(* w is the work on one block or range: acs is the column addressContracts *)
(* (written at once by a flush of the cache), cache and bytes the cache of *)
(* large records, map the records the block touches, rows the rows of the  *)
(* column addresses it writes, old the rows the block already has, seen    *)
(* the transactions already taken from an address, flushed the records     *)
(* that left the cache for the column while the block was in work.         *)
(*                                                                         *)
(* A write holds connectBlockMux and is a job: the movements of one        *)
(* transaction after the other, then one WriteBatch.  A flush of the cache *)
(* in between reaches the column even when the batch does not.  The        *)
(* healing goroutine fetches without the mutex; what it gets does not      *)
(* depend on the index, so the fetch is taken together with the write that *)
(* follows it, while the queue entry it works for may be older than any    *)
(* number of blocks.                                                       *)
(***************************************************************************)
EXTENDS Integers, Sequences, FiniteSets, FiniteSetsExt, Functions, TLC

CONSTANTS
  NoAddr, ZeroAddr,
  Tx,          \* [id -> [from, to, root, calls, transfers]]
  MinSize,     \* addrContractsCacheMinSize, in contracts
  MaxBytes,    \* addrContractsCacheMaxBytes, in contracts
  UintRange,    \* bound: 2^64 in the code, where TotalTxs-- wraps
  Body,         \* [block -> Seq(tx)]
  Parent,       \* [block -> block below it, or NoBlock]
  NoBlock,
  Keep,         \* KeepBlockAddresses
  MaxRetries,   \* the counter of failures is a byte, it stops at 255
  MaxShift,     \* maxHealBackoffShift
  Watched,      \* the blocks whose healing is watched
  MaxFaults     \* bound: failed traces; a crash or a failed write uses it up, as
                \* only behaviours without failed traces have one

\* A branch is a set of blocks with the parents of its members and no two children of
\* one block; a transaction is in one block of a branch.
Branch(B) ==
  /\ \A b \in B : Parent[b] \in B \cup {NoBlock}
  /\ \A b, c \in B : Parent[b] = Parent[c] => b = c

ASSUME BlocksAssumption ==
  /\ NoBlock \notin DOMAIN Body
  /\ \A b \in DOMAIN Body : Body[b] \in Seq(DOMAIN Tx)
  /\ \A B \in SUBSET DOMAIN Body : Branch(B) =>
       \A b, c \in B : b # c => Range(Body[b]) \cap Range(Body[c]) = {}

-----------------------------------------------------------------------------
(* What connecting, disconnecting and healing compute from a block and the *)
(* rows of the database.                                                   *)

\* Sequences, with as little of the library as the proofs need.
Fold(op(_, _), base, seq) ==
  LET f[i \in 0..Len(seq)] == IF i = 0 THEN base ELSE op(f[i - 1], seq[i]) IN f[Len(seq)]
Flatten(seqs) == Fold(\o, <<>>, seqs)
Backwards(seq) == [i \in DOMAIN seq |-> seq[Len(seq) + 1 - i]]
Ascending(S) == CHOOSE seq \in [1..Cardinality(S) -> S] : \A i, j \in DOMAIN seq : i < j => seq[i] < seq[j]
Position(seq, Test(_)) ==
  LET at == {i \in DOMAIN seq : Test(seq[i])} IN IF at = {} THEN 0 ELSE Min(at)

Empty == <<>>
Over(g, f) == g @@ f
Queued(f, x, y) == [z \in DOMAIN f \cup {x} |-> IF z = x THEN y ELSE f[z]]
Without(f, S) == Restrict(f, DOMAIN f \ S)
At(f, x, default) == IF x \in DOMAIN f THEN f[x] ELSE default

EmptyRecord == [total |-> 0, non |-> 0, int |-> 0, cs |-> <<>>]
Size(rec) == Len(rec.cs)

\* What the API sees in a record without transactions and contracts is no record.
NoTxs(rec) == rec.non = 0 /\ rec.int = 0 /\ rec.cs = <<>>

-----------------------------------------------------------------------------
\* One direction of a transfer applied to the holdings of an address: the sorted
\* Ids of an NFT (insert, remove) and the MultiTokenValues (upsert, which never
\* goes below 0 and drops what reaches it).
Holdings(held, t, to) ==
  LET step(h, e) ==
        LET left == At(h, e.id, 0) - e.value IN
        IF to THEN Over(e.id :> (IF t.std = "NFT" THEN 1 ELSE At(h, e.id, 0) + e.value), h)
        ELSE IF e.id \notin DOMAIN h THEN h
        ELSE IF t.std = "NFT" \/ left <= 0 THEN Without(h, {e.id})
        ELSE [h EXCEPT ![e.id] = left]
  IN IF t.std = "FT" THEN held ELSE Fold(step, held, t.ids)

isNFTSelfTransfer(t) == t.std = "NFT" /\ t.from = t.to

addToContract(c, t, to, addTxCount, mutateHoldings) ==
  [c EXCEPT !.txs = IF addTxCount THEN @ + 1 ELSE @,
            !.held = IF mutateHoldings THEN Holdings(@, t, to) ELSE @]

findContractInAddressContracts(cs, contract) ==
  Position(cs, LAMBDA c : c.contract = contract)

-----------------------------------------------------------------------------
\* The cache of large records.  A record in it is the object the block changes.

flushAddrContractsCache(w) ==
  [w EXCEPT !.acs = Over(w.cache, @), !.cache = Empty, !.bytes = 0,
            !.flushed = @ \cup DOMAIN w.cache]

\* The record of the address into map: from the cache, or from the column, when a
\* large one enters the cache and may flush it over the cap.
getUnpackedAddrDescContracts(w, a) ==
  LET rec == w.acs[a]
      loaded == [w EXCEPT !.map = Over(a :> rec, @)]
      cached == [loaded EXCEPT !.cache = Over(a :> rec, @), !.bytes = @ + Size(rec)]
  IN IF a \in DOMAIN w.map THEN w
     ELSE IF a \in DOMAIN w.cache THEN [w EXCEPT !.map = Over(a :> w.cache[a], @)]
     ELSE IF a \notin DOMAIN w.acs THEN w
     ELSE IF Size(rec) <= MinSize THEN loaded
     ELSE IF cached.bytes > MaxBytes THEN flushAddrContractsCache(cached)
     ELSE cached

\* The record of the block, and the cached one when it is the same object.
Update(w, a, rec) ==
  [w EXCEPT !.map = Over(a :> rec, @),
            !.cache = IF a \in DOMAIN @ THEN [@ EXCEPT ![a] = rec] ELSE @]

\* Records without transactions are deleted, those in the cache are left to it.
storeUnpackedAddressContracts(w) ==
  LET gone == {a \in DOMAIN w.map : NoTxs(w.map[a])}
      kept == DOMAIN w.map \ (gone \cup DOMAIN w.cache)
  IN Over(Restrict(w.map, kept), Without(w.acs, gone))

-----------------------------------------------------------------------------
\* Connecting.  An index n stands for a receiver, ^n = -1 - n for a sender.
Index(n, to) == IF to THEN n ELSE -1 - n

Add(x, a, kind, to, t, count, mutate) ==
  [tx |-> x, addr |-> a, kind |-> kind, to |-> to, t |-> t,
   count |-> count, mutate |-> mutate]

\* A movement has two ends, the receiver first; the sender counts the transaction
\* only when it is another address.  A missing address is left out.
Ends(x, kind, from, to, t, mutate) ==
  (IF to = NoAddr THEN <<>> ELSE <<Add(x, to, kind, TRUE, t, TRUE, mutate)>>)
    \o (IF from = NoAddr THEN <<>>
        ELSE <<Add(x, from, kind, FALSE, t, from # to, mutate)>>)

processBaseTxData(x) == Ends(x, "base", Tx[x].from, Tx[x].to, NoAddr, TRUE)

processInternalData(x) ==
  (IF Tx[x].root = NoAddr THEN <<>>
   ELSE <<Add(x, Tx[x].root, "internal", TRUE, NoAddr, TRUE, TRUE)>>)
    \o Flatten([i \in DOMAIN Tx[x].calls |->
         Ends(x, "internal", Tx[x].calls[i].from, Tx[x].calls[i].to, NoAddr, TRUE)])

processContractTransfers(x) ==
  Flatten([i \in DOMAIN Tx[x].transfers |->
    LET t == Tx[x].transfers[i] IN
    Ends(x, "token", t.from, t.to, t, ~isNFTSelfTransfer(t))])

RowOf(w, a) == At(w.rows, a, At(w.old, a, Empty))

addToAddressesMapEthereumType(w, a, x, index) ==
  [w EXCEPT !.rows =
     Over(a :> Over(x :> (At(RowOf(w, a), x, {}) \cup {index}), RowOf(w, a)), @)]

\* The zero address holds no contracts.
addToAddressesAndContractsEthereumType(w, x) ==
  LET v == getUnpackedAddrDescContracts(w, x.addr)
      rec == At(v.map, x.addr, EmptyRecord)
      token == x.kind = "token" /\ x.addr # ZeroAddr
      at == findContractInAddressContracts(rec.cs, x.t.contract)
      i == IF at = 0 THEN Len(rec.cs) + 1 ELSE at
      cs == IF at = 0
            THEN Append(rec.cs, [contract |-> x.t.contract, txs |-> 0, held |-> Empty])
            ELSE rec.cs
      index == Index(IF token THEN i + 1 ELSE IF x.kind = "internal" THEN 1 ELSE 0, x.to)
      counted == x.tx \in DOMAIN RowOf(v, x.addr)
      new == [total |-> IF counted THEN rec.total ELSE rec.total + 1,
              non |-> IF x.kind = "base" /\ x.count THEN rec.non + 1 ELSE rec.non,
              int |-> IF x.kind = "internal" /\ x.count THEN rec.int + 1 ELSE rec.int,
              cs |-> IF token
                     THEN [cs EXCEPT ![i] = addToContract(@, x.t, x.to, x.count, x.mutate)]
                     ELSE rec.cs]
  IN addToAddressesMapEthereumType(Update(v, x.addr, new), x.addr, x.tx, index)

\* The movements of every transaction, and those of a block; traced are the
\* transactions that have internal data.
Base == [x \in DOMAIN Tx |-> processBaseTxData(x)]
Internal == [x \in DOMAIN Tx |-> processInternalData(x)]
Tokens == [x \in DOMAIN Tx |-> processContractTransfers(x)]

processAddressesEthereumType(block, traced) ==
  [n \in DOMAIN block |->
    Base[block[n]] \o (IF block[n] \in traced THEN Internal[block[n]] ELSE <<>>)
      \o Tokens[block[n]]]

-----------------------------------------------------------------------------
\* Disconnecting.  An address that was missing was packed as the zero address.
Packed(a) == IF a = NoAddr THEN ZeroAddr ELSE a

Undo(x, a, kind, t) == [tx |-> x, addr |-> Packed(a), kind |-> kind, t |-> t]

UndoEnds(x, kind, from, to, t) ==
  <<Undo(x, from, kind, t)>> \o (IF from = to THEN <<>> ELSE <<Undo(x, to, kind, t)>>)

\* The holdings of an address after the transfer is reversed.
ReverseTransfer(c, a, t) ==
  IF isNFTSelfTransfer(t) THEN c
  ELSE IF t.from = t.to
       THEN addToContract(addToContract(c, t, TRUE, FALSE, TRUE), t, FALSE, FALSE, TRUE)
  ELSE addToContract(c, t, a # t.to, FALSE, TRUE)

undoContract(cs, a, t) ==
  LET i == findContractInAddressContracts(cs, t.contract) IN
  IF i = 0 \/ cs[i].txs = 0 THEN cs
  ELSE IF cs[i].txs = 1 THEN SubSeq(cs, 1, i - 1) \o SubSeq(cs, i + 1, Len(cs))
  ELSE [cs EXCEPT ![i] = ReverseTransfer([@ EXCEPT !.txs = @ - 1], a, t)]

disconnectAddress(w, u) ==
  LET v == getUnpackedAddrDescContracts([w EXCEPT !.seen = @ \cup {<<u.addr, u.tx>>}], u.addr)
      rec == v.map[u.addr]
      new == [total |-> IF <<u.addr, u.tx>> \in w.seen THEN rec.total
                        ELSE (rec.total - 1) % UintRange,
              non |-> IF u.kind = "base" /\ rec.non > 0 THEN rec.non - 1 ELSE rec.non,
              int |-> IF u.kind = "internal" /\ rec.int > 0 THEN rec.int - 1 ELSE rec.int,
              cs |-> IF u.kind = "token" THEN undoContract(rec.cs, u.addr, u.t) ELSE rec.cs]
  IN IF u.addr \in DOMAIN v.map THEN Update(v, u.addr, new) ELSE v

disconnectInternalData(x) ==
  (IF Tx[x].root = NoAddr THEN <<>> ELSE <<Undo(x, Tx[x].root, "internal", NoAddr)>>)
    \o Flatten([i \in DOMAIN Tx[x].calls |->
         UndoEnds(x, "internal", Tx[x].calls[i].from, Tx[x].calls[i].to, NoAddr)])

UndoTransfers(x) ==
  Flatten(Backwards([i \in DOMAIN Tx[x].transfers |->
    LET t == Tx[x].transfers[i] IN UndoEnds(x, "token", t.from, t.to, t)]))

BaseUndo == [x \in DOMAIN Tx |-> UndoEnds(x, "base", Tx[x].from, Tx[x].to, NoAddr)]
InternalUndo == [x \in DOMAIN Tx |-> disconnectInternalData(x)]
TokenUndo == [x \in DOMAIN Tx |-> UndoTransfers(x)]

\* Mutant: token holdings are undone in the order in which they were made.
MutDisconnectBlockTxsEthereumType(block, traced) ==
  [n \in DOMAIN block |->
    BaseUndo[block[n]] \o (IF block[n] \in traced THEN InternalUndo[block[n]] ELSE <<>>)]
  \o [n \in DOMAIN block |-> Backwards(TokenUndo[block[n]])]

\* Ether and internal movements forward, token holdings in reverse.
disconnectBlockTxsEthereumType(block, traced) ==
  [n \in DOMAIN block |->
    BaseUndo[block[n]] \o (IF block[n] \in traced THEN InternalUndo[block[n]] ELSE <<>>)]
  \o Backwards([n \in DOMAIN block |-> TokenUndo[block[n]]])

-----------------------------------------------------------------------------
\* The registry of contracts (db/rocksdb_contracts.go): when a contract was created
\* and destroyed, 0 for never.

\* The events of a trace, in its order (processCallTrace, getInternalDataForBlock).
Events(x) ==
  (IF Tx[x].root = NoAddr THEN <<>> ELSE <<[made |-> TRUE, contract |-> Tx[x].root]>>)
    \o Flatten([i \in DOMAIN Tx[x].calls |->
         LET c == Tx[x].calls[i] IN
         CASE c.type = "CREATE" -> <<[made |-> TRUE, contract |-> c.to]>>
           [] c.type = "SELFDESTRUCT" -> <<[made |-> FALSE, contract |-> c.from]>>
           [] OTHER -> <<>>])

EventsOf(block, traced) ==
  Flatten([n \in DOMAIN block |-> IF block[n] \in traced THEN Events(block[n]) ELSE <<>>])

\* A creation overwrites the row, a destruction needs one, of the batch or stored.
storeContractInfo(reg, events, height) ==
  LET step(r, e) ==
        IF e.made THEN Over(e.contract :> [created |-> height, destructed |-> 0], r)
        ELSE IF e.contract \in DOMAIN r THEN [r EXCEPT ![e.contract].destructed = height]
        ELSE r
  IN Fold(step, reg, events)

applyHealedCreation(ci, height) ==
  IF height < ci.created THEN ci
  ELSE [created |-> height,
        destructed |-> IF ci.destructed <= height THEN 0 ELSE ci.destructed]

applyHealedDestruction(ci, height) ==
  IF height < ci.created \/ height <= ci.destructed THEN ci
  ELSE [ci EXCEPT !.destructed = height]

\* The events of a healed block laid over the stored row, or over a stub; an
\* unchanged row is not written.
storeHealedContractInfos(reg, events, height) ==
  LET stub == [created |-> 0, destructed |-> 0]
      step(r, e) ==
        LET ci == At(r, e.contract, stub)
            new == IF e.made THEN applyHealedCreation(ci, height)
                   ELSE applyHealedDestruction(ci, height)
        IN IF new = ci THEN r ELSE Over(e.contract :> new, r)
  IN Fold(step, reg, events)

\* One event of a disconnected block: rows are the rows of the column, without the
\* ones to delete, destroyedAt the height whose destruction was rolled back.
rollbackContractRegistryRow(r, e, height) ==
  LET ci == r.rows[e.contract] IN
  IF e.contract \notin DOMAIN r.rows THEN r
  ELSE IF ~e.made
       THEN [rows |-> IF ci.destructed = height
                      THEN [r.rows EXCEPT ![e.contract].destructed = 0] ELSE r.rows,
             destroyedAt |-> Over(e.contract :> height, r.destroyedAt)]
  ELSE IF ci.created = height /\ At(r.destroyedAt, e.contract, 0) # height
       THEN [r EXCEPT !.rows = Without(@, {e.contract})]
  ELSE r

rollbackEvents(r, block, traced, height) ==
  Fold(LAMBDA q, e : rollbackContractRegistryRow(q, e, height), r, EventsOf(block, traced))

-----------------------------------------------------------------------------
(* The jobs.                                                               *)

VARIABLES
  chain,      \* column height: the block at every height
  w,          \* column addressContracts, its cache, and the work of the job
  rows,       \* column addresses: [<<addr, height>> -> [tx -> indexes]]
  internal,   \* column internalData: the transactions that have a row
  queue,      \* column blockInternalDataErrors
  reg,        \* column contracts
  undo,       \* column blockTxs
  job,        \* what the holder of connectBlockMux does
  heal,       \* what HealInternalData has left to do of its snapshot of the queue
  pass,       \* its pass, of which healDue uses the lowest MaxShift bits
  faults,     \* how much of MaxFaults is used
  suspect     \* the addresses whose records a fault has made wrong

columns == <<chain, rows, internal, queue, reg, undo>>
healing == <<heal, pass>>
vars == <<chain, w, rows, internal, queue, reg, undo, job, heal, pass, faults, suspect>>

Free == [op |-> "none", height |-> 0, block |-> NoBlock, txs |-> {}, todo |-> <<>>]
Tip == IF chain = <<>> THEN NoBlock ELSE chain[Len(chain)]

Init ==
  /\ chain = <<>> /\ rows = Empty /\ internal = {} /\ queue = Empty /\ reg = Empty
  /\ undo = {} /\ job = Free /\ heal = <<>> /\ pass = 0 /\ faults = 0 /\ suspect = {}
  /\ w = [acs |-> Empty, cache |-> Empty, bytes |-> 0, map |-> Empty, rows |-> Empty,
          old |-> Empty, seen |-> {}, flushed |-> {}]

\* The mutex taken for a write with the given movements, and the work thrown away.
Begin(op, height, block, txs, todo, old) ==
  /\ job = Free
  /\ job' = [op |-> op, height |-> height, block |-> block, txs |-> txs, todo |-> todo]
  /\ w' = [w EXCEPT !.old = old]

NoWork(v) == [v EXCEPT !.map = Empty, !.rows = Empty, !.old = Empty, !.seen = {}, !.flushed = {}]

End(op) == job.op = op /\ job.todo = <<>> /\ job' = Free

HasInternal(x) == Tx[x].root # NoAddr \/ Tx[x].calls # <<>>

\* What GetBlock returns: the trace of the first n transactions of the block, all of
\* them unless the trace fails; transactions without internal calls have no data.
Traced(b, n) == {x \in Range(SubSeq(Body[b], 1, n)) : HasInternal(x)}

\* The movements of one transaction of the job.
ProcessTx ==
  /\ job.todo # <<>>
  /\ w' = IF job.op = "disconnect" THEN Fold(disconnectAddress, w, Head(job.todo))
          ELSE Fold(addToAddressesAndContractsEthereumType, w, Head(job.todo))
  /\ job' = [job EXCEPT !.todo = Tail(@)]
  /\ UNCHANGED <<columns, healing, faults, suspect>>

-----------------------------------------------------------------------------
StoreRows(height) ==
  Over([k \in {<<a, height>> : a \in DOMAIN w.rows} |-> w.rows[k[1]]], rows)

cleanupBlockTxs(heights, height) ==
  heights \ {n \in 1..(height - Keep) : n..(height - Keep) \subseteq heights}

ConnectBlock(b, n) ==
  /\ Parent[b] = Tip
  /\ n = Len(Body[b]) \/ faults < MaxFaults
  /\ Begin("connect", Len(chain) + 1, b, Traced(b, n),
           processAddressesEthereumType(Body[b], Traced(b, n)), Empty)
  /\ UNCHANGED <<columns, healing, faults, suspect>>

\* The batch of a block whose trace failed after n transactions, or never; when the
\* timer is due the records of the cache are written too and stay in it
\* (storeAddrContractsCache).
ConnectBlockWrite(failed, due) ==
  LET stored == storeUnpackedAddressContracts(w) IN
  /\ End("connect")
  /\ IF failed THEN faults < MaxFaults
     ELSE job.txs = Traced(job.block, Len(Body[job.block]))
  /\ chain' = Append(chain, job.block)
  /\ w' = NoWork([w EXCEPT !.acs = IF due THEN Over(w.cache, stored) ELSE stored])
  /\ rows' = StoreRows(job.height)
  /\ internal' = internal \cup job.txs
  /\ queue' = IF failed THEN Queued(queue, job.height, [block |-> job.block, retries |-> 0])
              ELSE queue
  /\ reg' = storeContractInfo(reg, EventsOf(Body[job.block], job.txs), job.height)
  /\ undo' = cleanupBlockTxs(undo, job.height) \cup {job.height}
  /\ faults' = IF failed THEN faults + 1 ELSE faults
  /\ UNCHANGED <<healing, suspect>>

\* Blocks lower..higher in one batch, from the highest.
DisconnectBlockRangeEthereumType(lower) ==
  LET range == Backwards([n \in 1..(Len(chain) - lower + 1) |-> lower + n - 1]) IN
  /\ lower..Len(chain) \subseteq undo
  /\ Begin("disconnect", lower, NoBlock, {},
           Flatten([n \in DOMAIN range |->
             disconnectBlockTxsEthereumType(Body[chain[range[n]]], internal)]), Empty)
  /\ UNCHANGED <<columns, healing, faults, suspect>>

DisconnectBlockRangeWrite ==
  LET heights == job.height..Len(chain)
      height(x) == CHOOSE h \in heights : x \in Range(Body[chain[h]])
      step(r, h) == rollbackEvents(r, Body[chain[h]], internal, h)
      rolledBack == Fold(step, [rows |-> reg, destroyedAt |-> Empty],
                             Backwards(Ascending(heights)))
  IN /\ End("disconnect")
     /\ chain' = SubSeq(chain, 1, job.height - 1)
     /\ w' = NoWork([w EXCEPT !.acs = storeUnpackedAddressContracts(w)])
     /\ rows' = Without(rows, {<<s[1], height(s[2])>> : s \in w.seen})
     /\ internal' = internal \ UNION {Range(Body[chain[h]]) : h \in heights}
     /\ queue' = Without(queue, heights)
     /\ reg' = rolledBack.rows
     /\ undo' = undo \ heights
     /\ UNCHANGED <<healing, faults, suspect>>

-----------------------------------------------------------------------------
\* HealInternalData: a snapshot of the queue, then a fetch and a write per block.

healDue(retries) == pass % 2^Min({retries, MaxShift}) = 0

HealStart ==
  LET due == {h \in DOMAIN queue : healDue(queue[h].retries)}
      order == Ascending(due)
  IN /\ job = Free /\ heal = <<>> /\ queue # Empty
     /\ heal' = [i \in DOMAIN order |->
                  [height |-> order[i], block |-> queue[order[i]].block,
                   retries |-> queue[order[i]].retries]]
     /\ pass' = (pass + 1) % 2^MaxShift
     /\ UNCHANGED <<columns, w, job, faults, suspect>>

\* The entry whose block fetchBlockForHealing has asked the backend for.
Healing(e) == job = Free /\ heal # <<>> /\ e = Head(heal) /\ heal' = Tail(heal)

\* The backend fails: the entry stays as it is.
HealSkipped ==
  /\ \E e \in Range(heal) : Healing(e)
  /\ UNCHANGED <<columns, w, job, pass, faults, suspect>>

\* The rows the addresses have at a height.
RowsAt(height) ==
  [a \in {k[1] : k \in {k \in DOMAIN rows : k[2] = height}} |-> rows[<<a, height>>]]

InternalOf(b, missing) ==
  [n \in DOMAIN Body[b] |-> IF Body[b][n] \in missing THEN Internal[Body[b][n]] ELSE <<>>]

\* The internal data of the transactions that have none yet, over the rows that the
\* block has; a block that was replaced meanwhile is left alone.
ReconnectInternalDataToBlockEthereumType(e) ==
  LET missing == Traced(e.block, Len(Body[e.block])) \ internal IN
  /\ Healing(e)
  /\ IF e.height \in DOMAIN chain /\ chain[e.height] = e.block
     THEN Begin("heal", e.height, e.block, missing, InternalOf(e.block, missing),
                RowsAt(e.height))
     ELSE UNCHANGED <<w, job>>
  /\ UNCHANGED <<columns, pass, faults, suspect>>

\* Mutant: the queue keeps the healed block.
MutReconnectInternalDataWrite ==
  /\ End("heal")
  /\ w' = NoWork([w EXCEPT !.acs = storeUnpackedAddressContracts(w)])
  /\ rows' = StoreRows(job.height)
  /\ internal' = internal \cup job.txs
  /\ reg' = storeHealedContractInfos(reg,
              EventsOf(Body[job.block], Range(Body[job.block])), job.height)
  /\ UNCHANGED <<chain, queue, undo, healing, faults, suspect>>

ReconnectInternalDataWrite ==
  /\ End("heal")
  /\ w' = NoWork([w EXCEPT !.acs = storeUnpackedAddressContracts(w)])
  /\ rows' = StoreRows(job.height)
  /\ internal' = internal \cup job.txs
  /\ reg' = storeHealedContractInfos(reg,
              EventsOf(Body[job.block], Range(Body[job.block])), job.height)
  /\ queue' = Without(queue, {job.height})
  /\ UNCHANGED <<chain, undo, healing, faults, suspect>>

\* Mutant: the failure is written whatever the queue holds now.
MutUpdateBlockInternalDataErrorEthereumType(e) ==
  /\ Healing(e)
  /\ queue' = Over(e.height :> [block |-> e.block,
                                retries |-> Min({e.retries + 1, MaxRetries})], queue)
  /\ UNCHANGED <<chain, w, rows, internal, reg, undo, job, pass, faults, suspect>>

\* The trace fails again, or the backend does not have the block: a failure is charged
\* to the entry while the queue still holds that block.
UpdateBlockInternalDataErrorEthereumType(e) ==
  LET held == e.height \in DOMAIN queue /\ queue[e.height].block = e.block
  IN /\ Healing(e)
     /\ queue' = IF held
                 THEN [queue EXCEPT ![e.height].retries = Min({e.retries + 1, MaxRetries})]
                 ELSE queue
     /\ UNCHANGED <<chain, w, rows, internal, reg, undo, job, pass, faults, suspect>>

-----------------------------------------------------------------------------
\* The write fails: its batch is dropped, the cache keeps what it changed.
JobFails ==
  /\ job # Free /\ faults = 0
  /\ faults' = MaxFaults
  /\ suspect' = suspect \cup (DOMAIN w.map \cap (DOMAIN w.cache \cup w.flushed))
  /\ w' = NoWork(w) /\ job' = Free
  /\ UNCHANGED <<columns, healing>>

\* Close writes the cache; both end the healing pass.
Close ==
  /\ job = Free /\ w.cache # Empty
  /\ w' = [w EXCEPT !.acs = Over(w.cache, @), !.cache = Empty, !.bytes = 0]
  /\ heal' = <<>> /\ pass' = 0
  /\ UNCHANGED <<columns, job, faults, suspect>>

\* A crash loses the cache and the job.
Crash ==
  /\ faults = 0 /\ faults' = MaxFaults
  /\ suspect' = suspect \cup DOMAIN w.cache \cup (DOMAIN w.map \cap w.flushed)
  /\ w' = NoWork([w EXCEPT !.cache = Empty, !.bytes = 0])
  /\ job' = Free /\ heal' = <<>> /\ pass' = 0
  /\ UNCHANGED columns

Next ==
  \/ \E b \in DOMAIN Body : \E n \in 0..Len(Body[b]) : ConnectBlock(b, n)
  \/ \E failed, due \in BOOLEAN : ConnectBlockWrite(failed, due)
  \/ \E lower \in DOMAIN chain : DisconnectBlockRangeEthereumType(lower)
  \/ DisconnectBlockRangeWrite
  \/ ProcessTx
  \/ HealStart \/ HealSkipped \/ ReconnectInternalDataWrite
  \/ \E e \in Range(heal) : \/ ReconnectInternalDataToBlockEthereumType(e)
                           \/ UpdateBlockInternalDataErrorEthereumType(e)
  \/ JobFails \/ Close \/ Crash

\* The healing loop keeps running, the writes are finished, and a backend that is
\* asked again and again for a block that it has traces it in the end.
Fairness ==
  /\ WF_job(job.todo # <<>> /\ job' = [job EXCEPT !.todo = Tail(@)])
  /\ WF_job(job # Free /\ job.todo = <<>> /\ job' = Free)
  /\ SF_vars(HealStart) /\ SF_vars(HealSkipped)
  /\ \A b \in DOMAIN Body :
       SF_vars(\E e \in Range(heal) : e.block = b /\ ReconnectInternalDataToBlockEthereumType(e))

Spec == Init /\ [][Next]_vars /\ Fairness

-----------------------------------------------------------------------------
\* What the rows mean, from the blocks of the chain and from nothing else.

OnChain == Flatten([h \in DOMAIN chain |-> Body[chain[h]]])
Touches(t, a) == a \in {t.from, t.to}

CallsOf(x) == IF x \in internal THEN Tx[x].calls ELSE <<>>
RootOf(x) == IF x \in internal THEN Tx[x].root ELSE NoAddr

Involved(x, a) ==
  \/ Touches(Tx[x], a) \/ RootOf(x) = a
  \/ \E i \in DOMAIN CallsOf(x) : Touches(CallsOf(x)[i], a)
  \/ \E i \in DOMAIN Tx[x].transfers : Touches(Tx[x].transfers[i], a)

\* The token transfers of the address, in chain order, and its contracts in the order
\* in which it met them.
TransfersOf(a) ==
  SelectSeq(Flatten([n \in DOMAIN OnChain |-> Tx[OnChain[n]].transfers]),
            LAMBDA t : Touches(t, a))

ContractsOf(a) ==
  LET ts == TransfersOf(a)
      first(i) == \A j \in 1..(i - 1) : ts[j].contract # ts[i].contract
      at == Ascending({i \in DOMAIN ts : first(i)})
  IN [i \in DOMAIN at |-> ts[at[i]].contract]

\* How much of a token an address holds: an NFT is with whom it came to last, a
\* multi token is what came in less what went out.
Holds(ts, a, id) ==
  LET moves == {i \in DOMAIN ts : ts[i].from # ts[i].to /\ \E e \in Range(ts[i].ids) : e.id = id}
      value(i) == SumSet({e.value : e \in {e \in Range(ts[i].ids) : e.id = id}})
      sum(S) == MapThenSumSet(value, S)
  IN IF moves = {} THEN 0
     ELSE IF ts[1].std = "NFT" THEN IF ts[Max(moves)].to = a THEN 1 ELSE 0
     ELSE sum({i \in moves : ts[i].to = a}) - sum({i \in moves : ts[i].from = a})

ReplayContract(a, c) ==
  LET ts == SelectSeq(TransfersOf(a), LAMBDA t : t.contract = c)
      ids == UNION {{e.id : e \in Range(ts[i].ids)} : i \in DOMAIN ts}
      owned == {id \in ids : Holds(ts, a, id) > 0}
  IN [contract |-> c, txs |-> Len(ts),
      held |-> IF ts[1].std = "FT" THEN Empty ELSE [id \in owned |-> Holds(ts, a, id)]]

Replay(a) ==
  LET X == Range(OnChain)
      calls(x) == Cardinality({i \in DOMAIN CallsOf(x) : Touches(CallsOf(x)[i], a)})
                    + (IF RootOf(x) = a THEN 1 ELSE 0)
      cs == ContractsOf(a)
  IN [total |-> Cardinality({x \in X : Involved(x, a)}),
      non |-> Cardinality({x \in X : Touches(Tx[x], a)}),
      int |-> MapThenSumSet(calls, X),
      cs |-> [i \in DOMAIN cs |-> ReplayContract(a, cs[i])]]

Addresses ==
  UNION {{Tx[x].from, Tx[x].to, Tx[x].root}
           \cup UNION {{c.from, c.to} : c \in Range(Tx[x].calls)}
           \cup UNION {{t.from, t.to} : t \in Range(Tx[x].transfers)} : x \in DOMAIN Tx}
    \ {NoAddr, ZeroAddr}

View(a) == At(w.cache, a, At(w.acs, a, EmptyRecord))

\* Whatever was connected, disconnected and healed, and whenever the cache was flushed
\* over its cap or by its timer, the counters, the contracts and the token holdings of
\* an address are those of the blocks on the chain; a crash or a failed write can only
\* hurt records that were in the cache (addToAddressesAndContractsEthereumType,
\* disconnectAddress, getUnpackedAddrDescContracts, storeUnpackedAddressContracts).
RecordsReplay == job = Free => \A a \in Addresses \ suspect : View(a) = Replay(a)

\* The index a transfer gets in the history of an address names the position of its
\* contract in the record, although disconnects remove contracts (addToContract,
\* disconnectAddress).
ReplayIndexes(a, x) ==
  LET ends(t, n) == (IF t.to = a THEN {Index(n, TRUE)} ELSE {})
                      \cup (IF t.from = a THEN {Index(n, FALSE)} ELSE {})
      position(t) == Position(ContractsOf(a), LAMBDA c : c = t.contract)
  IN ends(Tx[x], 0)
       \cup (IF RootOf(x) = a THEN {1} ELSE {})
       \cup UNION {ends(c, 1) : c \in Range(CallsOf(x))}
       \cup UNION {ends(t, position(t) + 1) : t \in Range(Tx[x].transfers)}

\* The history of an address lists, at every height, exactly the transactions of the
\* block that involve it, each with all its roles (storeAddresses, the deletions of
\* disconnectBlockTxsEthereumType, and the merge of ReconnectInternalData...).
HistoryReplay ==
  job = Free => \A a \in Addresses \ suspect : \A h \in DOMAIN chain \cup {k[2] : k \in DOMAIN rows} :
    At(rows, <<a, h>>, Empty) =
      IF h \in DOMAIN chain
      THEN [x \in {x \in Range(Body[chain[h]]) : Involved(x, a)} |-> ReplayIndexes(a, x)]
      ELSE Empty

\* No internal data is lost for good: a transaction of the chain that has some is
\* stored, or its block stands in the queue of HealInternalData under its own hash;
\* the queue holds no block that was disconnected, and nothing of one is stored.
NoInternalDataLost ==
  /\ \A h \in DOMAIN chain : \A x \in Range(Body[chain[h]]) :
       HasInternal(x) => x \in internal \/ h \in DOMAIN queue
  /\ \A h \in DOMAIN queue : h \in DOMAIN chain /\ queue[h].block = chain[h]
  /\ \A x \in internal : \E h \in DOMAIN chain : x \in Range(Body[chain[h]])

\* "states no sync can produce" (storeHealedContractInfos): healing out of block order
\* never leaves a contract destroyed before it was created, and no row speaks of an
\* event that is not on the chain.
RegistrySane ==
  \A c \in DOMAIN reg :
    LET events(h) == EventsOf(Body[chain[h]], internal) IN
    /\ reg[c].destructed = 0 \/ reg[c].created <= reg[c].destructed
    /\ reg[c].created # 0 =>
         /\ reg[c].created \in DOMAIN chain
         /\ [made |-> TRUE, contract |-> c] \in Range(events(reg[c].created))
    /\ reg[c].destructed # 0 =>
         /\ reg[c].destructed \in DOMAIN chain
         /\ [made |-> FALSE, contract |-> c] \in Range(events(reg[c].destructed))

\* "the result is what a sequential sync would have left behind"
\* (storeHealedContractInfos): once the queue is empty the registry is what connecting
\* the blocks of the chain with all their traces makes it.
HealedLikeSync ==
  LET sync[h \in 0..Len(chain)] ==
        IF h = 0 THEN Empty
        ELSE storeContractInfo(sync[h - 1], EventsOf(Body[chain[h]], Range(Body[chain[h]])), h)
  IN queue = Empty /\ job = Free => reg = sync[Len(chain)]

\* A block with an internal data error is healed in the end, however often it fails,
\* unless it is disconnected ("slowed down but never abandoned").
Healed ==
  \A b \in Watched :
    LET waits == \E h \in DOMAIN queue : queue[h].block = b IN waits ~> ~waits
=============================================================================
