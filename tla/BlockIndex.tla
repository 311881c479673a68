----------------------------- MODULE BlockIndex -----------------------------
(***************************************************************************)
(* The address index of Bitcoin-type coins (db/rocksdb.go): first what     *)
(* ConnectBlock and disconnectBlock compute from a block and the rows of   *)
(* the database, and the meaning those rows should have; then ConnectBlock *)
(* and DisconnectBlockRangeBitcoinType themselves, over the columns        *)
(* height, addresses, txAddresses, addressBalance and blockTxs.  Each      *)
(* block is one WriteBatch, so one step.                                   *)
(*                                                                         *)
(* A transaction has a sequence of outpoints it spends and a sequence of   *)
(* outputs.  An outpoint <<NoTx, 0>> is an input without a txid (coinbase),*)
(* an output to NoAddr has no address descriptor.  Output and input        *)
(* positions count from 1; the index of input i in an address row is -i.   *)
(***************************************************************************)
EXTENDS Integers, Sequences, FiniteSets, SequencesExt, FiniteSetsExt, Functions, TLC

CONSTANTS
  Tx, NoTx, Addr, NoAddr,
  Ins,          \* [Tx -> Seq(outpoint)]
  Outs,         \* [Tx -> Seq([addr, value])]
  UtxosMapMin   \* how many utxos make utxosMap worth its memory, 16 in the code

Empty == <<>>

\* f with g laid over it.
Over(g, f) == g @@ f

Without(f, S) == Restrict(f, DOMAIN f \ S)

-----------------------------------------------------------------------------
\* AddrBalance.  umap is utxosMap: the position of the first utxo of a tx.

EmptyBalance == [txs |-> 0, sent |-> 0, balance |-> 0, utxos |-> <<>>, umap |-> Empty]

FirstOf(utxos, t) == SelectInSeq(utxos, LAMBDA u : u.tx = t)

manageUtxoMap(b, u) ==
  LET l == Len(b.utxos) IN
  IF l < UtxosMapMin THEN b
  ELSE IF b.umap = Empty
       THEN [b EXCEPT !.umap = [t \in {b.utxos[i].tx : i \in 1..l} |-> FirstOf(b.utxos, t)]]
       ELSE [b EXCEPT !.umap = Over(b.umap, u.tx :> l)]

addUtxo(b, u) ==
  LET a == [b EXCEPT !.utxos = Append(@, u)] IN manageUtxoMap(a, u)

\* Where the run of utxos of the tx is searched for.
Position(b, t) ==
  IF b.umap # Empty
  THEN IF t \in DOMAIN b.umap THEN b.umap[t] ELSE 0
  ELSE FirstOf(b.utxos, t)

\* A restored utxo is inserted in front of the first one that has a greater
\* vout or another tx.
addUtxoInDisconnect(b, u) ==
  LET from == Position(b, u.tx)
      at == SelectInSubSeq(b.utxos, from, Len(b.utxos),
                           LAMBDA x : x.vout > u.vout \/ x.tx # u.tx)
  IN IF from > 0 /\ at > 0
     THEN [b EXCEPT !.utxos = InsertAt(@, at, u), !.umap = Empty]
     ELSE addUtxo(b, u)

\* The position of the utxo to mark, 0 when it is not found.  With utxosMap the
\* first utxo with that vout decides, whatever its tx is.
Marked(b, t, v) ==
  IF b.umap = Empty
  THEN SelectInSeq(b.utxos, LAMBDA u : u.vout = v /\ u.tx = t)
  ELSE LET i == SelectInSubSeq(b.utxos, Position(b, t), Len(b.utxos), LAMBDA u : u.vout = v)
       IN IF Position(b, t) > 0 /\ i > 0 /\ b.utxos[i].tx = t THEN i ELSE 0

markUtxoAsSpent(b, t, v) ==
  LET i == Marked(b, t, v) IN IF i = 0 THEN b ELSE [b EXCEPT !.utxos[i].vout = -1]

\* What is stored: utxos marked as spent are dropped, utxosMap is not kept.
packAddrBalance(b) ==
  [b EXCEPT !.utxos = SelectSeq(@, LAMBDA u : u.vout > 0), !.umap = Empty]

unpackAddrBalance(b) == FoldLeft(addUtxo, [b EXCEPT !.utxos = <<>>], b.utxos)

-----------------------------------------------------------------------------
\* Connecting a block.  d holds the rows of the database, w what is cached while
\* the block is processed: the rows read or made so far, the address rows of this
\* block, and whether a utxo was not found or an amount became negative.

Work == [txa |-> Empty, bal |-> Empty, rows |-> Empty, lost |-> FALSE, negative |-> FALSE]

HasTxa(d, w, t) == t \in DOMAIN w.txa \cup DOMAIN d.txa
TxaOf(d, w, t) == IF t \in DOMAIN w.txa THEN w.txa[t] ELSE d.txa[t]

HasBalance(d, w, a) == a \in DOMAIN w.bal \cup DOMAIN d.bal
BalanceOf(d, w, a) ==
  IF a \in DOMAIN w.bal THEN w.bal[a]
  ELSE IF a \in DOMAIN d.bal THEN unpackAddrBalance(d.bal[a])
  ELSE EmptyBalance

RowOf(w, a) == IF a \in DOMAIN w.rows THEN w.rows[a] ELSE {}

\* addToAddressesMap: the row of the address with the index added.
addToAddressesMap(w, a, t, index) == (a :> RowOf(w, a) \cup {<<t, index>>}) @@ w.rows

\* The tx counts once for the address, however many of its ends touch it.
NewTx(w, a, t) == IF \E x \in RowOf(w, a) : x[1] = t THEN 0 ELSE 1

NoNegative(n) == IF n < 0 THEN 0 ELSE n

newTxAddresses(t, height) ==
  [height |-> height,
   ins |-> [i \in DOMAIN Ins[t] |-> [addr |-> NoAddr, value |-> 0]],
   outs |-> [o \in DOMAIN Outs[t] |->
               [addr |-> Outs[t][o].addr, value |-> Outs[t][o].value, spent |-> FALSE]]]

\* The outputs or the inputs of txs in order, each with its tx.
Ends(txs, of) ==
  FlattenSeq([k \in DOMAIN txs |-> [n \in DOMAIN of[txs[k]] |-> <<txs[k], n>>]])

connectOutput(d, w, t, o, height) ==
  LET a == Outs[t][o].addr
      b == BalanceOf(d, w, a)
      n == [b EXCEPT !.balance = @ + Outs[t][o].value, !.txs = @ + NewTx(w, a, t)]
  IN [w EXCEPT !.bal = (a :> addUtxo(n, [tx |-> t, vout |-> o, height |-> height])) @@ @,
               !.rows = addToAddressesMap(w, a, t, o)]

\* Input i of t spends the output p[2] of p[1].
connectInput(d, w, t, i) ==
  LET p == Ins[t][i]
      out == TxaOf(d, w, p[1]).outs[p[2]]
      a == out.addr
      ita == [TxaOf(d, w, p[1]) EXCEPT !.outs[p[2]].spent = TRUE]
      v == [w EXCEPT !.txa = (p[1] :> ita) @@ @]
      s == [v EXCEPT !.txa[t].ins[i] = [addr |-> a, value |-> out.value]]
      b == BalanceOf(d, s, a)
      n == [b EXCEPT !.balance = NoNegative(@ - out.value), !.sent = @ + out.value,
                     !.txs = @ + NewTx(s, a, t)]
  IN IF a = NoAddr THEN s
     ELSE [s EXCEPT !.bal = (a :> markUtxoAsSpent(n, p[1], p[2])) @@ @,
                    !.rows = addToAddressesMap(s, a, t, -i),
                    !.lost = @ \/ Marked(b, p[1], p[2]) = 0,
                    !.negative = @ \/ b.balance < out.value]

\* All outputs are processed first, so that inputs can refer to txs of the block.
\* An output without an address is only stored; an input of an unknown tx, as that
\* of a coinbase, is left without one.
connectTxs(d, w, txs, height) ==
  LET new == [w EXCEPT !.txa = [t \in Range(txs) |-> newTxAddresses(t, height)] @@ @]
      to == SelectSeq(Ends(txs, Outs), LAMBDA p : Outs[p[1]][p[2]].addr # NoAddr)
      outs == FoldLeft(LAMBDA x, p : connectOutput(d, x, p[1], p[2], height), new, to)
      from == SelectSeq(Ends(txs, Ins), LAMBDA p : HasTxa(d, outs, Ins[p[1]][p[2]][1]))
  IN FoldLeft(LAMBDA x, p : connectInput(d, x, p[1], p[2]), outs, from)

processAddressesBitcoinType(d, w, block, height) == connectTxs(d, w, block, height)

-----------------------------------------------------------------------------
\* Storing the cached rows.

\* A balance with no transaction is removed.
storeBalances(bal, cached) ==
  LET gone == {a \in DOMAIN cached : cached[a].txs <= 0}
  IN [a \in DOMAIN cached \ gone |-> packAddrBalance(cached[a])] @@ Without(bal, gone)

storeAddresses(rows, new, height) ==
  LET at == {<<a, height>> : a \in DOMAIN new}
  IN [x \in at |-> new[x[1]]] @@ rows

-----------------------------------------------------------------------------
\* Disconnecting a block: inputs are reversed first.  w.touched is
\* blockAddressesTxs, the addresses met so far with the tx they were met in.

UndoWork == [txa |-> Empty, bal |-> Empty, touched |-> {}, lost |-> FALSE, negative |-> FALSE]

\* addressFoundInTx, as the number the tx count goes down by.
FirstMet(w, a, t) == IF <<a, t>> \in w.touched THEN 0 ELSE 1

\* Input i of t gives its output back.  The input is what the row of t says.
disconnectTxAddressesInput(d, w, t, i) ==
  LET in == d.txa[t].ins[i]
      p == Ins[t][i]
      a == in.addr
      known == HasTxa(d, w, p[1])
      sa == TxaOf(d, w, p[1])
      height == IF known THEN sa.height ELSE 0
      v == [w EXCEPT !.touched = @ \cup {<<a, t>>},
                     !.txa = IF known
                             THEN (p[1] :> [sa EXCEPT !.outs[p[2]].spent = FALSE]) @@ @
                             ELSE @]
      b == BalanceOf(d, w, a)
      n == [b EXCEPT !.txs = @ - FirstMet(w, a, t), !.sent = NoNegative(@ - in.value),
                     !.balance = @ + in.value]
  IN IF ~HasBalance(d, w, a) THEN v
     ELSE [v EXCEPT !.bal = (a :> addUtxoInDisconnect(n,
                               [tx |-> p[1], vout |-> p[2], height |-> height])) @@ @,
                    !.negative = @ \/ b.sent < in.value]

disconnectTxAddressesOutput(d, w, t, o) ==
  LET out == d.txa[t].outs[o]
      a == out.addr
      v == [w EXCEPT !.touched = @ \cup {<<a, t>>}]
      b == BalanceOf(d, w, a)
      n == [b EXCEPT !.txs = @ - FirstMet(w, a, t), !.balance = NoNegative(@ - out.value)]
  IN IF ~HasBalance(d, w, a) THEN v
     ELSE [v EXCEPT !.bal = (a :> markUtxoAsSpent(n, t, o)) @@ @,
                    !.lost = @ \/ Marked(b, t, o) = 0,
                    !.negative = @ \/ b.balance < out.value]

\* A tx whose row is missing is skipped, and so are inputs and outputs without an
\* address.
UndoBlock(d, block) ==
  LET found == SelectSeq(block, LAMBDA t : t \in DOMAIN d.txa)
      from == SelectSeq(Ends(found, Ins), LAMBDA p : d.txa[p[1]].ins[p[2]].addr # NoAddr)
      to == SelectSeq(Ends(found, Outs), LAMBDA p : d.txa[p[1]].outs[p[2]].addr # NoAddr)
      ins == FoldLeft(LAMBDA x, p : disconnectTxAddressesInput(d, x, p[1], p[2]),
                      UndoWork, from)
  IN FoldLeft(LAMBDA x, p : disconnectTxAddressesOutput(d, x, p[1], p[2]), ins, to)

\* The stable sort by height of storeBalancesDisconnect.
SortByHeight(utxos) ==
  LET heights == SetToSortSeq({utxos[i].height : i \in DOMAIN utxos}, <)
  IN FlattenSeq([k \in DOMAIN heights |->
                   SelectSeq(utxos, LAMBDA u : u.height = heights[k])])

\* Mutant: the utxos are not sorted again.
MutStoreBalancesDisconnect(bal, cached) == storeBalances(bal, cached)

storeBalancesDisconnect(bal, cached) ==
  storeBalances(bal, [a \in DOMAIN cached |->
    [cached[a] EXCEPT !.utxos = SortByHeight(SelectSeq(@, LAMBDA u : u.vout > 0))]])

-----------------------------------------------------------------------------
\* What the rows should say of a chain, a sequence of blocks.

Txs(chain) == UNION {Range(chain[n]) : n \in DOMAIN chain}

HeightOf(chain, t) == CHOOSE n \in DOMAIN chain : t \in Range(chain[n])

Spent(T) == UNION {Range(Ins[t]) : t \in T}

OutputsOf(T, a) == {p \in UNION {{t} \X DOMAIN Outs[t] : t \in T} : Outs[p[1]][p[2]].addr = a}

ValueOf(p) == Outs[p[1]][p[2]].value

\* The indexes of t that touch a.
Touching(t, a) ==
  {o \in DOMAIN Outs[t] : Outs[t][o].addr = a}
    \cup {-i : i \in {k \in DOMAIN Ins[t] : Ins[t][k][1] # NoTx
                                         /\ Outs[Ins[t][k][1]][Ins[t][k][2]].addr = a}}

TouchedBy(T, a) == {t \in T : Touching(t, a) # {}}

\* The balances of every address are those the chain implies.
BalancesReplay(chain, bal) ==
  LET T == Txs(chain) IN
  /\ DOMAIN bal = {a \in Addr : TouchedBy(T, a) # {}}
  /\ \A a \in DOMAIN bal :
       LET unspent == OutputsOf(T, a) \ Spent(T)
           spent == OutputsOf(T, a) \cap Spent(T)
           utxos == bal[a].utxos
       IN /\ bal[a].txs = Cardinality(TouchedBy(T, a))
          /\ bal[a].balance = MapThenSumSet(ValueOf, unspent)
          /\ bal[a].sent = MapThenSumSet(ValueOf, spent)
          /\ Len(utxos) = Cardinality(unspent)
          /\ \A i \in DOMAIN utxos :
               /\ <<utxos[i].tx, utxos[i].vout>> \in unspent
               /\ utxos[i].height = HeightOf(chain, utxos[i].tx)
          /\ Cardinality(Range(utxos)) = Len(utxos)

\* The history of every address is what the chain implies.
HistoryReplay(chain, rows) ==
  LET At(n, a) == UNION {{t} \X Touching(t, a) : t \in Range(chain[n])}
      keys == {x \in Addr \X DOMAIN chain : At(x[2], x[1]) # {}}
  IN rows = [x \in keys |-> At(x[2], x[1])]

\* The row of every tx is what the chain implies; Counts says which spent flags count.
TxsReplay(chain, txa, Counts(_)) ==
  LET T == Txs(chain) IN
  /\ DOMAIN txa = T
  /\ \A t \in T :
       /\ txa[t].height = HeightOf(chain, t)
       /\ \A o \in DOMAIN Outs[t] :
            /\ txa[t].outs[o].addr = Outs[t][o].addr
            /\ Counts(Outs[t][o]) => txa[t].outs[o].spent = (<<t, o>> \in Spent(T))
       /\ \A i \in DOMAIN Ins[t] :
            Ins[t][i][1] # NoTx =>
              txa[t].ins[i].addr = Outs[Ins[t][i][1]][Ins[t][i][2]].addr

-----------------------------------------------------------------------------
CONSTANTS
  Keep,         \* KeepBlockAddresses
  MaxHeight,    \* bound: blocks in the chain
  MaxBlockTxs   \* bound: transactions in a block

VARIABLES
  chain,     \* column height: the block at every height
  txa,       \* column txAddresses
  bal,       \* column addressBalance
  rows,      \* column addresses
  undo,      \* column blockTxs: the heights that can be disconnected
  lost,      \* "Utxo ... not found" was logged
  negative   \* an amount was reset to 0

vars == <<chain, txa, bal, rows, undo, lost, negative>>

db == [txa |-> txa, bal |-> bal]

Coinbase == {t \in Tx : Ins[t] = <<<<NoTx, 0>>>>}

\* The blocks that can be made of the transactions: a coinbase and others.
Blocks ==
  {<<c>> \o s : c \in Coinbase,
                s \in {q \in SeqOf(Tx \ Coinbase, MaxBlockTxs - 1) : IsInjective(q)}}

\* The backend delivers blocks that spend each output once and only outputs that
\* exist, in this block or below.
ValidOn(c, block) ==
  LET T == Txs(c)
      B == Range(block)
      points == UNION {{t} \X DOMAIN Ins[t] : t \in B \ Coinbase}
  IN /\ B \cap T = {}
     /\ \A x \in points :
          LET p == Ins[x[1]][x[2]] IN
          /\ p[1] \in T \cup B /\ p \notin Spent(T)
          /\ \A y \in points : Ins[y[1]][y[2]] = p => x = y

Init ==
  /\ chain = <<>> /\ undo = {}
  /\ txa = Empty /\ bal = Empty /\ rows = Empty
  /\ lost = FALSE /\ negative = FALSE

\* cleanupBlockTxs: down from height - Keep while there are rows.
Cleaned(heights, height) ==
  heights \ {n \in 1..(height - Keep) : n..(height - Keep) \subseteq heights}

ConnectBlock(block) ==
  LET height == Len(chain) + 1
      w == processAddressesBitcoinType(db, Work, block, height)
  IN /\ height <= MaxHeight /\ ValidOn(chain, block)
     /\ chain' = Append(chain, block)
     /\ txa' = Over(w.txa, txa)
     /\ bal' = storeBalances(bal, w.bal)
     /\ rows' = storeAddresses(rows, w.rows, height)
     /\ undo' = Cleaned(undo, height) \cup {height}
     /\ lost' = (lost \/ w.lost) /\ negative' = (negative \/ w.negative)

\* disconnectBlock of the highest block, when its undo data is there.
DisconnectBlock ==
  LET height == Len(chain)
      w == UndoBlock(db, chain[height])
  IN /\ height > 0 /\ height \in undo
     /\ chain' = Front(chain)
     /\ txa' = Without(Over(w.txa, txa), Range(chain[height]))
     /\ bal' = storeBalancesDisconnect(bal, w.bal)
     /\ rows' = Without(rows, {<<x[1], height>> : x \in w.touched})
     /\ undo' = undo \ {height}
     /\ lost' = (lost \/ w.lost) /\ negative' = (negative \/ w.negative)

Next == DisconnectBlock \/ \E block \in Blocks : ConnectBlock(block)

Spec == Init /\ [][Next]_vars

-----------------------------------------------------------------------------
\* The columns hold rows of their kind, and the undo data belongs to the chain.
TypeOK ==
  /\ chain \in Seq(Blocks) /\ undo \subseteq DOMAIN chain
  /\ DOMAIN txa \subseteq Tx /\ DOMAIN bal \subseteq Addr
  /\ \A a \in DOMAIN bal :
       bal[a].txs \in Nat \ {0} /\ bal[a].sent \in Nat /\ bal[a].balance \in Nat
  /\ lost \in BOOLEAN /\ negative \in BOOLEAN

\* Whatever was connected and disconnected before, the columns are those of the
\* transactions on the chain: balances, sent amounts, tx counts and utxos, the address
\* history, the rows of the transactions and the spent flags of the outputs that have
\* an address (processAddressesBitcoinType, disconnectBlock).
IndexIsReplay ==
  /\ BalancesReplay(chain, bal)
  /\ HistoryReplay(chain, rows)
  /\ TxsReplay(chain, txa, LAMBDA o : o.addr # NoAddr)

\* No spent or disconnected output is missing from the utxos of its address
\* (glog.Errorf "Utxo ... not found" in markUtxoAsSpent), although the search goes
\* through utxosMap, and no amount is reset from a negative value to 0.
NothingLost == ~lost /\ ~negative

\* The order the search through utxosMap relies on: the utxos of a tx stand
\* together, by vout, and the list is ordered by height.
UtxoOrder ==
  \A a \in DOMAIN bal :
    LET u == bal[a].utxos IN
    \A i, j \in DOMAIN u : i < j =>
      /\ u[i].height <= u[j].height
      /\ u[i].tx = u[j].tx => u[i].vout < u[j].vout
                              /\ \A k \in i..j : u[k].tx = u[i].tx
=============================================================================
