--------------------------- MODULE AccountAnswers ---------------------------
(* What the account requests of api/worker.go and api/xpub.go answer when    *)
(* nothing moves: the pages of a history, the balance history, the balance   *)
(* with the mempool, the spender of an output and the expected confirmation. *)
(* One question is asked in every state.                                     *)
EXTENDS ChainQueries

CONSTANTS MaxSafeInt,                         \* the product at which a page number is cut off
          MaxFilteredAddressScanNonMatching,  \* entries a filtered walk may skip
          EtaNear, EtaFar                     \* blocks of the two ranges of the confirmation estimate
VARIABLE ask

Infinite == 1000

-----------------------------------------------------------------------------
(* Paging.                                                                   *)
safeMultiply(a, b) == IF a <= 0 \/ b <= 0 THEN 0 ELSE IF a > MaxSafeInt \div b THEN MaxSafeInt ELSE a * b
computePaging(count, p, items) ==
  LET last == IF count <= 0 THEN 0 ELSE (count - 1) \div items
      page == IF safeMultiply(p, items) >= count THEN last ELSE p
  IN  [page |-> page, totalPages |-> last + 1, from |-> safeMultiply(page, items),
       to |-> Min({safeMultiply(page + 1, items), count})]

\* A window of the merged sequence limited to one of its parts, as the elements from + 1 .. to.
clampRange(from, to, length) ==
  LET low == Min({Max({from, 0}), length}) IN [from |-> low, to |-> Min({Max({to, low}), length})]
Window(s, w) == SubSeq(s, w.from + 1, w.to)
computeAccountPaging(mempoolCount, confirmedCount, page, items) ==
  LET pg == computePaging(mempoolCount + confirmedCount, page, items)
  IN  [pg |-> pg, mempool |-> clampRange(pg.from, pg.to, mempoolCount),
       confirmed |-> clampRange(pg.from - mempoolCount, pg.to - mempoolCount, confirmedCount)]

-----------------------------------------------------------------------------
(* The indexed transactions of an address that match a filter, newest first, *)
(* until enough are found; a walk that skips too many is refused.            *)
NoFilter == [vout |-> "off", from |-> 0, to |-> 0]
\* The indexes of an address in a transaction: inputs, and outputs (counted from 0).
InputIndexes(a, t) == {i - 1 : i \in {i \in DOMAIN Tx[t].ins : InputAddr(t, i) = a}}
OutputIndexes(a, t) == {n - 1 : n \in {n \in DOMAIN Tx[t].outs : Tx[t].outs[n].addr = a}}
VoutMatches(a, t, vout) ==
  \/ vout = "off"
  \/ vout = "inputs" /\ InputIndexes(a, t) # {}
  \/ vout = "outputs" /\ OutputIndexes(a, t) # {}
  \/ \E n \in InputIndexes(a, t) \cup OutputIndexes(a, t) : vout = ToString(n)
getAddressTxids(a, c, filter, maxResults) ==
  LET all == GetAddrDescTransactions(a, c, filter.from, IF filter.to = 0 THEN Infinite ELSE filter.to)
      matches(k) == SelectSeq(SubSeq(all, 1, k), LAMBDA r : VoutMatches(a, r.txid, filter.vout))
      walked == Min({k \in 0..Len(all) : Len(matches(k)) >= maxResults} \cup {Len(all)})
      txids == matches(walked)
  IN  [ok |-> walked - Len(txids) <= MaxFilteredAddressScanNonMatching, txids |-> [i \in DOMAIN txids |-> txids[i].txid]]

(* GetAddress: a page of the mempool's transactions followed by the indexed  *)
(* ones.  Only the mempool transactions the page can reach are kept, and the *)
(* number of pages is unknown when a filtered walk may have been cut short.  *)
Keep(s, k) == SubSeq(s, 1, Min({Len(s), k}))
UnfilteredHistory(filter) == filter.vout = "off" /\ filter.from = 0 /\ filter.to = 0
GetAddressPage(a, c, mempool, page, items, filter) ==
  LET ba == GetAddrDescBalance(a, c)
      totalResults == IF ba = Nil THEN 0 ELSE IF UnfilteredHistory(filter) THEN ba.txs ELSE -1
      pending == IF filter.to # 0 THEN <<>> ELSE SelectSeq(mempool, LAMBDA t : Touches(a, t) /\ VoutMatches(a, t, filter.vout))
      mempoolTxs == Keep(pending, (page + 1) * items)
      txc == getAddressTxids(a, c, filter, (page + 1) * items)
      w == computeAccountPaging(Len(pending), Len(txc.txids), page, items)
      total == IF Len(txc.txids) < items THEN w.pg.totalPages
               ELSE IF totalResults < 0 THEN -1
               ELSE computePaging(totalResults + Len(pending), w.pg.page, items).totalPages
  IN  IF txc.ok THEN [ok |-> TRUE, page |-> w.pg.page, totalPages |-> total,
                      list |-> Window(mempoolTxs, w.mempool) \o Window(txc.txids, w.confirmed)]
      ELSE [ok |-> FALSE, page |-> page, totalPages |-> 0, list |-> <<>>]
(* GetXpubAddress: the derived addresses' transactions, each once, by height *)
(* (newest first) and within a block those that spend before those that pay. *)
XpubRecords(addrs, c) ==
  FlattenSeq([k \in DOMAIN addrs |->
    LET all == GetAddrDescTransactions(addrs[k], c, 0, Infinite)
    IN  [i \in DOMAIN all |-> [txid |-> all[i].txid, height |-> all[i].height,
                               inp |-> InputIndexes(addrs[k], all[i].txid) # {}, out |-> OutputIndexes(addrs[k], all[i].txid) # {}]]])
FirstOfTxid(s) == SelectSeq([i \in DOMAIN s |-> [rec |-> s[i], first |-> \A j \in 1..(i - 1) : s[j].txid # s[i].txid]], LAMBDA x : x.first)
SortXpubTxids(s) == SortSeq(s, LAMBDA x, y : x.height > y.height \/ (x.height = y.height /\ x.inp /\ ~y.inp))
mergeXpubTxids(addrs, c) ==
  LET once == FirstOfTxid(XpubRecords(addrs, c)) IN SortXpubTxids([i \in DOMAIN once |-> once[i].rec])
InputOutputMatches(r, filter) == (filter.vout = "inputs" => r.inp) /\ (filter.vout = "outputs" => r.out)
\* A filtered history keeps a transaction as soon as the record of one address passes the filter.
txidFilter(r, filter) ==
  /\ r.height >= filter.from
  /\ filter.to # 0 => r.height <= filter.to
  /\ InputOutputMatches(r, filter)
FilteredXpubTxids(addrs, c, filter) ==
  LET once == FirstOfTxid(SelectSeq(XpubRecords(addrs, c), LAMBDA r : txidFilter(r, filter)))
  IN  SortXpubTxids([i \in DOMAIN once |-> once[i].rec])
GetXpubPage(addrs, c, mempool, page, items, filter) ==
  LET recs == IF UnfilteredHistory(filter) THEN mergeXpubTxids(addrs, c) ELSE FilteredXpubTxids(addrs, c, filter)
      txc == [i \in DOMAIN recs |-> recs[i].txid]
      pending == IF filter.to # 0 \/ filter.from # 0 THEN <<>>
                 ELSE SelectSeq(mempool, LAMBDA t : \E k \in DOMAIN addrs :
                        /\ Touches(addrs[k], t)
                        /\ InputOutputMatches([inp |-> InputIndexes(addrs[k], t) # {}, out |-> OutputIndexes(addrs[k], t) # {}], filter))
      w == computeAccountPaging(Len(pending), Len(txc), page, items)
  IN  [ok |-> TRUE, page |-> w.pg.page,
       totalPages |-> IF ~UnfilteredHistory(filter) /\ Len(txc) >= items THEN -1 ELSE w.pg.totalPages,
       list |-> Window(pending, w.mempool) \o Window(txc, w.confirmed)]

-----------------------------------------------------------------------------
(* The lists that are paged the same way: blocks, mempool, block filters.    *)
GetBlocks(c, page, items) ==
  LET pg == computePaging(BestHeight(c) + 1, page, items)
  IN  [page |-> pg.page, totalPages |-> pg.totalPages, ok |-> TRUE, list |-> Window(Reverse(c), pg)]
GetMempool(mempool, page, items) ==
  LET pg == computePaging(Len(mempool), page, items)
  IN  [page |-> pg.page, totalPages |-> pg.totalPages, ok |-> TRUE, list |-> Window(mempool, pg)]
\* The blocks after the best one known to the caller, at most a page of them.
GetBlockFiltersBatch(c, known, pageSize) ==
  LET from == known + 1
      to == Min({BestHeight(c) + 1, from + pageSize})
  IN  [i \in 1..(IF from >= BestHeight(c) + 1 THEN 0 ELSE to - from) |-> from + i - 1]

-----------------------------------------------------------------------------
(* The balance history.  The times of the blocks (a sequence, from height 0) *)
(* need not be in order; a time is turned into a height by a binary search   *)
(* and a look at the blocks just below what it found.                        *)
Search(n, Below) ==
  LET RECURSIVE S(_, _)
      S(i, j) == IF i >= j THEN i ELSE LET h == (i + j) \div 2 IN IF Below[h] THEN S(h + 1, j) ELSE S(i, h)
  IN  S(0, n)
LookBelow == 20
GetBlockHeightOfTime(times, t) ==
  LET n == Len(times)
      h == Search(n, [i \in 0..(n - 1) |-> times[i + 1] < t])
  IN  IF h = n THEN Infinite ELSE Min({i \in Max({0, h - LookBelow})..h : times[i + 1] >= t \/ i = h})
balanceHistoryHeightsFromTo(times, from, to) ==
  [fromUnix |-> from, fromHeight |-> IF from = 0 THEN 0 ELSE GetBlockHeightOfTime(times, from),
   toUnix |-> IF to = 0 THEN Infinite ELSE to, toHeight |-> IF to = 0 THEN Infinite ELSE GetBlockHeightOfTime(times, to)]

\* Mutant: what was sent to oneself is counted with every input.
MutProcessBitcoinTypeBalanceHistory(a, t, self) ==
  LET ins == {i \in DOMAIN Tx[t].ins : InputAddr(t, i) = a}
      outs(A) == {o \in OutpointsOf({t}) : OutOf(o).addr \in A}
  IN  [received |-> SumOver(outs({a})), sent |-> SumOver({Tx[t].ins[i] : i \in ins}),
       toSelf |-> IF ins # {} THEN SumOver(outs(self)) ELSE 0]

\* What a transaction moves for one address of the account (self): what was sent to oneself is counted with the
\* address of the first input that is the account's.
processBitcoinTypeBalanceHistory(a, t, self) ==
  LET ins == {i \in DOMAIN Tx[t].ins : InputAddr(t, i) = a}
      own == {i \in DOMAIN Tx[t].ins : InputAddr(t, i) \in self}
      outs(A) == {o \in OutpointsOf({t}) : OutOf(o).addr \in A}
  IN  [received |-> SumOver(outs({a})), sent |-> SumOver({Tx[t].ins[i] : i \in ins}),
       toSelf |-> IF own # {} /\ Min(own) \in ins THEN SumOver(outs(self)) ELSE 0]
balanceHistoryForTxid(a, t, c, times, w, self) ==
  LET time == times[HeightIn(t, c) + 1]
  IN  IF time < w.fromUnix \/ time >= w.toUnix THEN Nil
      ELSE [time |-> time, txid |-> t] @@ processBitcoinTypeBalanceHistory(a, t, self)

\* The points are summed by groups of time; a transaction of several addresses is one transaction.  A first group
\* of time 0 is taken for no group and lost when another follows.
SortAndAggregate(points, groupBy) ==
  LET group(p) == p.time - (p.time % groupBy)
      sum(g, field(_)) == FoldSeq(LAMBDA p, s : IF group(p) = g THEN s + field(p) ELSE s, 0, points)
      groups == SetToSortSeq({group(points[i]) : i \in DOMAIN points}, <)
      times == IF Len(groups) > 1 /\ groups[1] = 0 THEN Tail(groups) ELSE groups
  IN  [k \in DOMAIN times |->
        [time |-> times[k], txs |-> Cardinality({points[i].txid : i \in {i \in DOMAIN points : group(points[i]) = times[k]}}),
         received |-> sum(times[k], LAMBDA p : p.received), sent |-> sum(times[k], LAMBDA p : p.sent),
         toSelf |-> sum(times[k], LAMBDA p : p.toSelf)]]

\* GetBalanceHistory is the case of an account of one address.  The addresses are asked in turn for what is left
\* of one more transaction than the cap; a history above the cap is refused, never cut.
LoadTxids(addrs, c, w, maxTxs) ==
  LET filter == [vout |-> "off", from |-> w.fromHeight, to |-> w.toHeight]
      Take(k, acc) == IF maxTxs # 0 /\ acc.left <= 0 THEN acc
                      ELSE LET t == getAddressTxids(addrs[k], c, filter, acc.left).txids
                           IN  [left |-> acc.left - Len(t), got |-> acc.got \o [i \in DOMAIN t |-> <<addrs[k], t[i]>>]]
  IN  FoldLeft(LAMBDA acc, k : Take(k, acc), [left |-> IF maxTxs = 0 THEN Infinite ELSE maxTxs + 1, got |-> <<>>],
               [k \in DOMAIN addrs |-> k]).got
GetXpubBalanceHistory(addrs, c, times, from, to, groupBy, maxTxs) ==
  LET w == balanceHistoryHeightsFromTo(times, from, to)
      loaded == LoadTxids(addrs, c, w, maxTxs)
      points == [i \in DOMAIN loaded |-> balanceHistoryForTxid(loaded[i][1], loaded[i][2], c, times, w, ToSet(addrs))]
  IN  IF w.fromHeight >= w.toHeight THEN [ok |-> TRUE, points |-> <<>>]
      ELSE IF maxTxs # 0 /\ Len(loaded) > maxTxs THEN [ok |-> FALSE, points |-> <<>>]
      ELSE [ok |-> TRUE, points |-> SortAndAggregate(SelectSeq(points, LAMBDA p : p # Nil), groupBy)]

-----------------------------------------------------------------------------
(* The rest of an answer: the pending balance, the spender, the estimate.    *)
getAddrVoutValue(a, t) == SumOver({o \in OutpointsOf({t}) : OutOf(o).addr = a})
getAddrVinValue(a, t) == SumOver({o \in InsOf(t) : OutOf(o).addr = a})
UnconfirmedBalance(a, mempool) ==
  LET txs == SelectSeq(mempool, LAMBDA t : Touches(a, t))
  IN  FoldSeq(LAMBDA t, s : s + getAddrVoutValue(a, t) - getAddrVinValue(a, t), 0, txs)

\* There is no index of spenders: the address's transactions from the output's height on are searched, newest
\* first, for an input of the same value whose outpoint is the output.
setSpendingTxToVout(o, c) ==
  LET all == GetAddrDescTransactions(OutOf(o).addr, c, HeightIn(o[1], c), Infinite)
      spends(t) == \E i \in DOMAIN Tx[t].ins : /\ InputAddr(t, i) = OutOf(o).addr
                                             /\ OutOf(Tx[t].ins[i]).val = OutOf(o).val
                                             /\ Tx[t].ins[i] = o
      hits == SelectSeq(all, LAMBDA r : spends(r.txid))
  IN  IF hits = <<>> THEN "" ELSE hits[1].txid
GetSpendingTxid(o, c) == IF o \in SpentBy(Mined(c)) THEN setSpendingTxToVout(o, c) ELSE ""

\* The estimate of the blocks to confirmation: fees is what the backend asks for 1, 2, ... blocks.
getConfirmationETA(fee, fees) ==
  IF fees[EtaNear] <= fee
  THEN Search(EtaNear, [i \in 0..(EtaNear - 1) |-> fees[i + 1] > fee]) + 1
  ELSE Search(EtaFar, [i \in 0..(EtaFar - 1) |-> fees[i + EtaNear] > fee]) + EtaNear

-----------------------------------------------------------------------------
(* The questions.                                                            *)
AskInit == ask = [kind |-> "none"]
Ask(questions) == ask.kind = "none" /\ ask' \in questions

\* The merged sequence a history is paged over, by its definition: the pending transactions, then the indexed ones
\* from the newest to the oldest.
Merged(q) ==
  LET mine(t) == Touches(q.addrs[1], t) /\ VoutMatches(q.addrs[1], t, q.filter.vout)
      indexed == SelectSeq(TxsOf(q.chain), LAMBDA t : /\ mine(t)
                                                      /\ HeightIn(t, q.chain) >= q.filter.from
                                                      /\ q.filter.to # 0 => HeightIn(t, q.chain) <= q.filter.to)
  IN  (IF q.filter.to # 0 THEN <<>> ELSE SelectSeq(q.mempool, LAMBDA t : mine(t))) \o Reverse(indexed)
PageCount(count, items) == IF count = 0 THEN 1 ELSE ((count - 1) \div items) + 1
PageOf(s, p, items) == SubSeq(s, (p * items) + 1, Min({(p + 1) * items, Len(s)}))

\* The pages of an address cut the merged sequence of its pending and indexed transactions into pieces, in order,
\* so that no transaction is on two pages or on none; a page beyond the end is the last page; and the number of
\* pages is right or said to be unknown, which it may be only under a filter.
AddressPagesPartition(q) ==
  LET k == PageCount(Len(Merged(q)), q.items)
  IN  \A p \in 0..(k + 1) :
        LET answer == GetAddressPage(q.addrs[1], q.chain, q.mempool, p, q.items, q.filter)
            at == Min({p, k - 1})
        IN  answer.ok => /\ answer.page = at
                         /\ answer.list = PageOf(Merged(q), at, q.items)
                         /\ answer.totalPages = k \/ (answer.totalPages = -1 /\ ~UnfilteredHistory(q.filter))

\* The pages of an xpub do the same for the transactions of all its addresses, newest first, with no order
\* promised inside a block.
XpubPagesPartition(q) ==
  LET first == GetXpubPage(q.addrs, q.chain, q.mempool, 0, 100, q.filter).list
      k == PageCount(Len(first), q.items)
      passes(t) == \E i \in DOMAIN q.addrs : Touches(q.addrs[i], t) /\ (q.filter.vout \in {"inputs", "outputs"} => VoutMatches(q.addrs[i], t, q.filter.vout))
      pending == IF q.filter.to # 0 \/ q.filter.from # 0 THEN {} ELSE {t \in ToSet(q.mempool) : passes(t)}
      indexed == {t \in Mined(q.chain) : passes(t) /\ HeightIn(t, q.chain) \in q.filter.from..(IF q.filter.to = 0 THEN Infinite ELSE q.filter.to)}
  IN  /\ IsInjective(first) /\ ToSet(first) = pending \cup indexed
      /\ \A i, j \in DOMAIN first : i < j /\ first[i] \in indexed => /\ first[j] \in indexed
                                                                  /\ HeightIn(first[i], q.chain) >= HeightIn(first[j], q.chain)
      /\ \A p \in 0..(k - 1) : LET answer == GetXpubPage(q.addrs, q.chain, q.mempool, p, q.items, q.filter)
                              IN  /\ answer.list = PageOf(first, p, q.items)
                                  /\ answer.totalPages = k \/ (answer.totalPages = -1 /\ ~UnfilteredHistory(q.filter))

\* The other paged lists of the API: the blocks from the tip down and the mempool are cut into pieces the same way,
\* and a caller who asks for the block filters after the last block it got, again and again, gets every block once.
ListsPartition(q) ==
  /\ \A p \in 0..(PageCount(Len(q.chain), q.items) - 1) : GetBlocks(q.chain, p, q.items).list = PageOf(Reverse(q.chain), p, q.items)
  /\ \A p \in 0..(PageCount(Len(q.mempool), q.items) - 1) : GetMempool(q.mempool, p, q.items).list = PageOf(q.mempool, p, q.items)
  /\ \A known \in 0..BestHeight(q.chain) :
       GetBlockFiltersBatch(q.chain, known, q.items) =
         [i \in 1..Min({q.items, BestHeight(q.chain) - known}) |-> known + i]

PagesPart(q) == q.kind = "pages" => AddressPagesPartition(q) /\ XpubPagesPartition(q) /\ ListsPartition(q)

\* No transaction, block or filter falls between two pages of an answer or appears on two of them (comment of
\* computeAccountPaging), for every page size, filter and mixture of pending and indexed transactions.
PagesPartition == [][PagesPart(ask')]_ask

\* The transactions on the wrong side of the height a time is turned into, and those of the blocks that are out of
\* order around the time.
Early(q) == {x \in Mined(q.chain) : q.times[HeightIn(x, q.chain) + 1] < q.at}
Late(q) == Mined(q.chain) \ Early(q)
Overtaken(q) == {x \in Early(q) : HeightIn(x, q.chain) > GetBlockHeightOfTime(q.times, q.at)}
                \cup {x \in Late(q) : HeightIn(x, q.chain) < GetBlockHeightOfTime(q.times, q.at)}
OutOfOrder(q) == {x \in Mined(q.chain) : \E y \in Mined(q.chain) :
                   \/ x \in Early(q) /\ y \in Late(q) /\ HeightIn(y, q.chain) < HeightIn(x, q.chain)
                   \/ x \in Late(q) /\ y \in Early(q) /\ HeightIn(x, q.chain) < HeightIn(y, q.chain)}
Total(points, field(_)) == FoldSeq(LAMBDA p, s : s + field(p), 0, points)
ReceivedBy(A, T) == SumOver({o \in OutpointsOf(T) : OutOf(o).addr \in A})
SentFrom(A, T) == SumOver({o \in SpentBy(T) : OutOf(o).addr \in A})
SentToSelf(A, T) == ReceivedBy(A, {t \in T : \E i \in DOMAIN Tx[t].ins : InputAddr(t, i) \in A})

HistoryRight(q) ==
  q.kind = "history" =>
    LET A == ToSet(q.addrs)
        H(from, to, cap) == GetXpubBalanceHistory(q.addrs, q.chain, q.times, from, to, q.groupBy, cap)
        covers(points, T) == /\ Total(points, LAMBDA p : p.received) = ReceivedBy(A, T)
                             /\ Total(points, LAMBDA p : p.sent) = SentFrom(A, T)
                             /\ Total(points, LAMBDA p : p.toSelf) = SentToSelf(A, T)
                             /\ Total(points, LAMBDA p : p.txs) = Cardinality({t \in T : \E a \in A : Touches(a, t)})
    IN  /\ covers(H(0, 0, 0).points, Mined(q.chain))
        /\ covers(H(0, q.at, 0).points, Early(q) \ Overtaken(q))
        /\ covers(H(q.at, 0, 0).points, Late(q) \ Overtaken(q))
        /\ Overtaken(q) \subseteq OutOfOrder(q)
        /\ \A cap \in 1..4 : H(0, q.at, cap).ok => H(0, q.at, cap) = H(0, q.at, 0)

\* A balance history adds up: over the whole time it has exactly what the account received, sent and sent to itself,
\* however many of its addresses a transaction touches, and each transaction once; two histories that meet at a time
\* share nothing and leave out only the transactions of a block whose time is out of order there; and a capped
\* history is either refused or the same.
HistoryAddsUp == [][HistoryRight(ask')]_ask

AnswerTrue(q) ==
  /\ q.kind = "pages" => \A i \in DOMAIN q.addrs :
       LET a == q.addrs[i]
           ba == GetAddrDescBalance(a, q.chain)
       IN  (IF ba = Nil THEN 0 ELSE ba.received - ba.sent) + UnconfirmedBalance(a, q.mempool)
             = SumOver(Unspent(a, Mined(q.chain) \cup ToSet(q.mempool)))
  /\ q.kind = "pages" => \A o \in OutpointsOf(Mined(q.chain)) :
       GetSpendingTxid(o, q.chain) = IF o \in SpentBy(Mined(q.chain)) THEN CHOOSE t \in Mined(q.chain) : o \in InsOf(t) ELSE ""
  /\ q.kind = "eta" =>
       getConfirmationETA(q.fee, q.fees) = Min({b \in 1..(EtaNear + EtaFar) : b = EtaNear + EtaFar \/ q.fees[b] <= q.fee})

\* What an answer says beside the history is true: the balance with the pending change is the value of the outputs
\* unspent in the index and the mempool together; the spender found by searching the address's transactions is the
\* one that spends the output, even among outputs of one address and one value; the estimate is the least number of
\* blocks whose fee the transaction pays.
AnswersTrue == [][AnswerTrue(ask')]_ask
=============================================================================
