---------------------------- MODULE ChainQueries ----------------------------
(* The queries of db/rocksdb.go that the API requests are made of, as        *)
(* operators on the indexed chain: the index is a function of it (module     *)
(* BlockIndex checks that it is).                                            *)
EXTENDS Integers, Sequences, FiniteSets, SequencesExt, FiniteSetsExt

CONSTANTS Tx,        \* txid -> [ins |-> sequence of <<txid, n>>, outs |-> sequence of [addr, val]]
          Body       \* block -> sequence of txids

Txid == DOMAIN Tx
TxsOf(c) == FlattenSeq([h \in DOMAIN c |-> Body[c[h]]])
Mined(c) == ToSet(TxsOf(c))
InsOf(t) == ToSet(Tx[t].ins)
OutpointsOf(T) == UNION {{<<t, n>> : n \in DOMAIN Tx[t].outs} : t \in T}
SpentBy(T) == UNION {InsOf(t) : t \in T}
OutOf(o) == Tx[o[1]].outs[o[2]]
Coinbase(t) == Tx[t].ins = <<>>
InputAddr(t, i) == OutOf(Tx[t].ins[i]).addr

\* Heights count from 0.
Height(i) == i - 1
BestHeight(c) == Height(Len(c))
HeightIn(t, c) == Height(CHOOSE i \in DOMAIN c : t \in ToSet(Body[c[i]]))

\* The transactions of an address in a range of heights, newest first.
Touches(a, t) == \/ \E i \in DOMAIN Tx[t].ins : InputAddr(t, i) = a
                 \/ \E n \in DOMAIN Tx[t].outs : Tx[t].outs[n].addr = a
GetAddrDescTransactions(a, c, lower, higher) ==
  LET at(i) == IF Height(i) \in lower..higher THEN SelectSeq(Body[c[i]], LAMBDA t : Touches(a, t)) ELSE <<>>
  IN  Reverse(FlattenSeq([i \in DOMAIN c |-> [j \in DOMAIN at(i) |-> [txid |-> at(i)[j], height |-> Height(i)]]]))

\* The balance record of an address, Nil for an address the index does not know: the number of its
\* transactions, what it received and spent, and its unspent outputs, oldest first.
Nil == <<>>
Unspent(a, T) == {o \in OutpointsOf(T) \ SpentBy(T) : OutOf(o).addr = a}
SumOver(S) == MapThenSumSet(LAMBDA o : OutOf(o).val, S)
GetAddrDescBalance(a, c) ==
  LET txs == SelectSeq(TxsOf(c), LAMBDA t : Touches(a, t))
      received == {o \in OutpointsOf(Mined(c)) : OutOf(o).addr = a}
      outs(t) == SelectSeq([n \in DOMAIN Tx[t].outs |-> <<t, n>>], LAMBDA o : o \in Unspent(a, Mined(c)))
  IN  IF txs = <<>> THEN Nil
      ELSE [txs |-> Len(txs), received |-> SumOver(received), sent |-> SumOver(received \cap SpentBy(Mined(c))),
            utxos |-> [i \in DOMAIN FlattenSeq([j \in DOMAIN txs |-> outs(txs[j])]) |->
                         LET o == FlattenSeq([j \in DOMAIN txs |-> outs(txs[j])])[i]
                         IN  [out |-> o, height |-> HeightIn(o[1], c)]]]
=============================================================================
