------------------------------- MODULE TxView -------------------------------
(***************************************************************************)
(* What the API computes from one indexed transaction, block or EVM        *)
(* account (src/api/worker.go, worker_balance_history_tron.go): the three  *)
(* views of a Bitcoin-type transaction, the tokens and the paging total of *)
(* an EVM account, the balance history of EVM and Tron transactions, and   *)
(* the fee statistics of a block.                                          *)
(*                                                                         *)
(* Each is a function of what the index and the backend answer; a question *)
(* is posed and the answer compared with a definition that does not follow *)
(* the code.  Amounts are small integers, addresses model values; texts,   *)
(* aliases, fiat values, logging and metrics are left out.                 *)
(***************************************************************************)
EXTENDS Integers, Sequences, FiniteSets, FiniteSetsExt, SequencesExt, TLC

CONSTANTS
    TxQuestions,     \* [ins, outs, confirmed]
    TokenQuestions,  \* [contracts, batchFails, singleFails, details, filter, total]
    LedgerQuestions, \* sequences of EVM transactions [chain, from, to, value, ok, fee, internal, op, ...]
    FeeQuestions     \* sequences of [ins, outs, size]

VARIABLE posed

tvars == posed

Nobody == [kind |-> "none"]

SumOfSeq(s, f(_)) == MapThenSumSet(LAMBDA i : f(s[i]), DOMAIN s)

-----------------------------------------------------------------------------
(* Three views of a Bitcoin-type transaction.  An input is [value, at]: at *)
(* is "coinbase", "index" (its output is in TxAddresses), "backend" or     *)
(* "unknown" (the backend does not know the transaction it spends).        *)

FeesOf(in, out) == IF in < out THEN 0 ELSE in - out

ViewOf(ins, outs, seen) ==
    LET in == SumOfSeq(ins, LAMBDA i : IF i.at \in seen THEN i.value ELSE 0)
        out == SumOfSeq(outs, LAMBDA o : o.value)
    IN [valueIn |-> in, valueOut |-> out, fees |-> FeesOf(in, out)]

\* GetTransactionFromBchainTx: inputs from the index, else from the backend; an unknown one counts nothing.
\* A confirmed transaction takes the spent flags from its own TxAddresses.
GetTransactionFromBchainTx(q) ==
    ViewOf(q.ins, q.outs, {"index", "backend"})
    @@ [rbf |-> ~q.confirmed /\ \E i \in DOMAIN q.ins : q.ins[i].replaceable,
        spent |-> [i \in DOMAIN q.outs |-> q.confirmed /\ q.outs[i].spent]]

\* GetTransactionFromMempoolTx: the values the mempool resolved when the transaction arrived.
GetTransactionFromMempoolTx(q) ==
    ViewOf(q.ins, q.outs, {"index", "backend"})
    @@ [rbf |-> \E i \in DOMAIN q.ins : q.ins[i].replaceable, spent |-> [i \in DOMAIN q.outs |-> FALSE]]

\* txFromTxAddress: the record ConnectBlock stored, with the values of all inputs but a coinbase's.
txFromTxAddress(q) ==
    ViewOf(q.ins, q.outs, {"index", "backend", "unknown"})
    @@ [rbf |-> FALSE, spent |-> [i \in DOMAIN q.outs |-> q.outs[i].spent]]

-----------------------------------------------------------------------------
(* Tokens of an EVM account.  A contract of the index is [id, fungible,    *)
(* ignored, txs, valid, held]: valid as the backend describes it, held its *)
(* balance (or number of ids), Nothing when there is none to show.         *)

Nothing == -1
Basic == 0
WithTokens == 1
WithBalances == 2
ContractIndexOffset == 2
VoutOff == -1
QueryNotNecessary == -4

\* The contracts whose balances are read in one batch.
Batched(q) ==
    LET eligible == {i \in DOMAIN q.contracts :
                        /\ q.contracts[i].fungible /\ ~q.contracts[i].ignored
                        /\ q.filter = "" \/ q.filter = q.contracts[i].id}
    IN IF q.details >= WithBalances /\ Len(q.contracts) > 1 /\ Cardinality(eligible) > 1 /\ ~q.batchFails
       THEN eligible ELSE {}

\* getEthereumContractBalance: a batched answer, even nil, is not asked for again.
getEthereumContractBalance(q, i) ==
    LET c == q.contracts[i]
        single == IF q.singleFails THEN Nothing ELSE c.held
        asked == IF ~c.fungible THEN (IF c.held > 0 THEN c.held ELSE Nothing) ELSE IF i \in Batched(q) THEN c.held ELSE single
    IN [contract |-> c.id, index |-> i - 1 + ContractIndexOffset, transfers |-> c.txs,
        held |-> IF q.details >= WithBalances /\ c.valid THEN asked ELSE Nothing]

\* The positions shown: ignored contracts and those the filter leaves out are skipped, not removed.
Shown(q) ==
    {i \in DOMAIN q.contracts :
        /\ ~q.contracts[i].ignored
        /\ q.filter = "" \/ q.filter = q.contracts[i].id
        /\ q.details >= WithBalances => getEthereumContractBalance(q, i).held # Nothing}

\* The contract the filter selects the transactions of; 0 when the index has none.
FilterAt(q) ==
    LET hit == {i \in DOMAIN q.contracts : ~q.contracts[i].ignored /\ q.filter = q.contracts[i].id}
    IN IF q.details > Basic /\ q.filter # "" /\ hit # {} THEN CHOOSE i \in hit : TRUE ELSE 0

\* The read of a filtered contract the list has nothing of: what the backend says, and no transactions.
getEthereumContractBalanceFromBlockchain(q) ==
    [contract |-> q.filter, index |-> 0, transfers |-> 0, held |-> Nothing]

getEthereumTypeAddressBalances(q) ==
    LET tokens == IF q.details > Basic THEN {getEthereumContractBalance(q, i) : i \in Shown(q)} ELSE {}
        vout == IF FilterAt(q) = 0 THEN VoutOff ELSE FilterAt(q) - 1 + ContractIndexOffset
        total == IF vout = VoutOff THEN q.total ELSE q.contracts[vout + 1 - ContractIndexOffset].txs
    IN IF tokens = {} /\ q.filter # "" /\ q.details >= WithTokens
       THEN [tokens |-> {getEthereumContractBalanceFromBlockchain(q)}, vout |-> QueryNotNecessary, total |-> -1]
       ELSE [tokens |-> tokens, vout |-> vout, total |-> total]

-----------------------------------------------------------------------------
(* Balance history.  A transaction is [tron, from, to, value, status, fee, *)
(* internal, op, amount, matured]: internal a sequence of [from, to,       *)
(* value], op the Tron operation, amount what it states (Nothing when it   *)
(* does not), matured the unstake it returned.                             *)

Zero == [received |-> 0, sent |-> 0, self |-> 0]
Moves(tx) == tx.status \in {"ok", "unknown"}

processPrimaryVout(addr, tx, bh) == [bh EXCEPT !.received = @ + IF tx.to = addr THEN tx.value ELSE 0]

processInternalTransactions(addr, tx, bh) ==
    LET over(test(_)) == SumOfSeq(tx.internal, LAMBDA t : IF test(t) THEN t.value ELSE 0)
    IN [received |-> bh.received + over(LAMBDA t : t.to = addr),
        sent |-> bh.sent + over(LAMBDA t : t.from = addr),
        self |-> bh.self + over(LAMBDA t : t.from = addr /\ t.to = addr)]

processEthereumLikeBalanceHistory(addr, tx) ==
    LET b == IF Moves(tx) THEN processInternalTransactions(addr, tx, processPrimaryVout(addr, tx, Zero)) ELSE Zero
    IN IF tx.from # addr THEN b
       ELSE [b EXCEPT !.sent = @ + tx.fee + (IF Moves(tx) THEN tx.value ELSE 0),
                      !.self = @ + IF Moves(tx) /\ tx.to = addr THEN tx.value ELSE 0]

\* tronBalanceHistoryOverrideFromExtraDataParsed: the direction of an operation's own principal.
tronOverride(tx) ==
    LET amount == IF tx.amount = Nothing THEN tx.value ELSE tx.amount IN
    CASE tx.op = "freeze" -> [dir |-> "out", amount |-> amount]
      [] tx.op \in {"withdraw", "cancelUnfreeze", "unfreeze2"} -> [dir |-> "none", amount |-> 0]
      [] tx.op \in {"voteRewardAmount", "unfreeze1"} -> [dir |-> "in", amount |-> amount]
      [] OTHER -> [dir |-> "generic", amount |-> 0]

processTronBalanceHistory(addr, tx) ==
    LET o == tronOverride(tx)
        generic == o.dir = "generic"
        p == IF Moves(tx) /\ generic THEN processPrimaryVout(addr, tx, Zero) ELSE Zero
        b == IF Moves(tx) THEN processInternalTransactions(addr, tx, p) ELSE Zero
    IN IF tx.from # addr THEN b
       ELSE IF ~Moves(tx) THEN [b EXCEPT !.sent = @ + tx.fee]
       ELSE [received |-> b.received + tx.matured + (IF o.dir = "in" THEN o.amount ELSE 0),
             sent |-> b.sent + tx.fee + (IF o.dir = "out" THEN o.amount ELSE IF generic THEN tx.value ELSE 0),
             self |-> b.self + IF generic /\ tx.to = addr THEN tx.value ELSE 0]

processEthereumTypeBalanceHistory(addr, tx) ==
    IF tx.tron THEN processTronBalanceHistory(addr, tx) ELSE processEthereumLikeBalanceHistory(addr, tx)

-----------------------------------------------------------------------------
(* Fee statistics of a block. *)

feePerKb(t) == ((SumOfSeq(t.ins, LAMBDA v : v) - SumOfSeq(t.outs, LAMBDA v : v)) * 1000) \div t.size

Paying(b) == SelectSeq(b, LAMBDA t : SumOfSeq(t.ins, LAMBDA v : v) # 0)

\* The deciles: floor(0.5 + k(n+1)/10) - 1, kept within the sorted fees.
GetFeeStats(b) ==
    LET fees == SortSeq([i \in DOMAIN Paying(b) |-> feePerKb(Paying(b)[i])], LAMBDA x, y : x < y)
        n == Len(fees)
        at(k) == LET i == (5 + k * (n + 1)) \div 10 IN IF i < 1 THEN 1 ELSE IF i > n THEN n ELSE i
    IN [count |-> n, average |-> IF n = 0 THEN 0 ELSE SumOfSeq(fees, LAMBDA v : v) \div n,
        total |-> SumOfSeq(Paying(b), LAMBDA t : SumOfSeq(t.ins, LAMBDA v : v) - SumOfSeq(t.outs, LAMBDA v : v)),
        deciles |-> [k \in 0..10 |-> IF n = 0 THEN 0 ELSE fees[at(k)]]]

-----------------------------------------------------------------------------
ViewInit == posed = Nobody

PoseTx == \E q \in TxQuestions : posed' = [kind |-> "tx", q |-> q]
PoseTokens == \E q \in TokenQuestions : posed' = [kind |-> "tokens", q |-> q]
PoseLedger == \E q \in LedgerQuestions : posed' = [kind |-> "ledger", q |-> q]
PoseFees == \E q \in FeeQuestions : posed' = [kind |-> "fees", q |-> q]

ViewNext == posed = Nobody /\ (PoseTx \/ PoseTokens \/ PoseLedger \/ PoseFees)

-----------------------------------------------------------------------------
(* Properties *)

Money(v) == <<v.valueIn, v.valueOut, v.fees>>

\* A transaction reads the same whichever way it is read: from the backend, from the mempool entry and from the index
\* (GetTransactionFromBchainTx, GetTransactionFromMempoolTx, txFromTxAddress) it moved the same amounts and paid the
\* same fee as long as its inputs are known; an input nobody knows never makes the fee look larger.
ViewsAgree ==
    posed.kind = "tx" =>
        LET q == posed.q known == \A i \in DOMAIN q.ins : q.ins[i].at # "unknown"
            paid == txFromTxAddress(q).fees
        IN /\ known => Money(GetTransactionFromBchainTx(q)) = Money(txFromTxAddress(q))
           /\ Money(GetTransactionFromMempoolTx(q)) = Money(GetTransactionFromBchainTx(q))
           /\ GetTransactionFromBchainTx(q).fees <= paid
           /\ q.confirmed => GetTransactionFromBchainTx(q).spent = txFromTxAddress(q).spent

\* The account shows each of its contracts that is not ignored, at the index its transactions are filed under, with
\* what the address holds, and counts the transactions of the filter (getEthereumTypeAddressBalances).
TokensExact ==
    posed.kind = "tokens" =>
        LET q == posed.q a == getEthereumTypeAddressBalances(q)
            lost == q.singleFails /\ Batched(q) = {}
            mine(c) == ~c.ignored /\ (q.filter = "" \/ q.filter = c.id)
            shows(c) == mine(c) /\ (q.details >= WithBalances => c.valid /\ (IF c.fungible THEN c.held # Nothing /\ ~lost ELSE c.held > 0))
        IN a.vout # QueryNotNecessary =>
           /\ q.details > Basic => {t.contract : t \in a.tokens} = {q.contracts[i].id : i \in {j \in DOMAIN q.contracts : shows(q.contracts[j])}}
           /\ \A t \in a.tokens : /\ q.contracts[t.index + 1 - ContractIndexOffset].id = t.contract
                                  /\ t.transfers = q.contracts[t.index + 1 - ContractIndexOffset].txs
                                  /\ q.details >= WithBalances => t.held = q.contracts[t.index + 1 - ContractIndexOffset].held
           /\ q.filter = "" => a.total = q.total
           /\ a.vout >= ContractIndexOffset => q.contracts[a.vout + 1 - ContractIndexOffset].id = q.filter /\ a.total = q.contracts[a.vout + 1 - ContractIndexOffset].txs

\* The query for transactions is switched off only for a contract the address has no transactions with
\* (AddressFilterVoutQueryNotNecessary).
FilteredHistoryKept ==
    posed.kind = "tokens" =>
        (getEthereumTypeAddressBalances(posed.q).vout = QueryNotNecessary
            => \A i \in DOMAIN posed.q.contracts : posed.q.contracts[i].id = posed.q.filter => posed.q.contracts[i].txs = 0)

\* What a transaction does to the spendable balance of an address: value, internal transfers and the Tron stake moves
\* of a transaction that did not fail, and the sender's fee in any case.
Effect(addr, tx) ==
    LET sender == tx.from = addr
        staked == tx.tron /\ tx.op # "none"
        primary == IF staked THEN 0 ELSE (IF tx.to = addr THEN tx.value ELSE 0) - (IF sender THEN tx.value ELSE 0)
        stated == IF tx.amount = Nothing THEN tx.value ELSE tx.amount
        stake == IF ~staked \/ ~sender THEN 0
                 ELSE CASE tx.op = "freeze" -> -stated
                        [] tx.op \in {"unfreeze1", "voteRewardAmount"} -> stated
                        [] OTHER -> 0
        matured == IF tx.tron /\ sender THEN tx.matured ELSE 0
        inner == SumOfSeq(tx.internal, LAMBDA t : (IF t.to = addr THEN t.value ELSE 0) - (IF t.from = addr THEN t.value ELSE 0))
    IN (IF Moves(tx) THEN primary + stake + matured + inner ELSE 0) - (IF sender THEN tx.fee ELSE 0)

\* The balance history of an EVM or Tron address adds up to what the transactions did to its balance: received less
\* sent is the change of the spendable balance, unstaked principal is credited once and only when it is spendable, a
\* failed transaction costs its fee and moves nothing, and what was sent to oneself was both sent and received.
EvmHistoryAddsUp ==
    posed.kind = "ledger" =>
        LET txs == posed.q
            of(addr) == [i \in DOMAIN txs |-> processEthereumTypeBalanceHistory(addr, txs[i])]
            addrs == UNION {{txs[i].from, txs[i].to} : i \in DOMAIN txs}
        IN \A a \in addrs :
              /\ SumOfSeq(of(a), LAMBDA b : b.received - b.sent) = SumOfSeq(txs, LAMBDA t : Effect(a, t))
              /\ \A i \in DOMAIN txs : of(a)[i].self <= of(a)[i].sent /\ of(a)[i].self <= of(a)[i].received

\* The deciles of a block's fees are fees of the block in ascending order from the smallest to the largest, no more
\* than k tenths of them are below the k-th, and a coinbase counts for nothing (GetFeeStats).
DecilesOrdered ==
    posed.kind = "fees" =>
        LET s == GetFeeStats(posed.q) fees == {feePerKb(Paying(posed.q)[i]) : i \in DOMAIN Paying(posed.q)}
            below(v) == Cardinality({i \in DOMAIN Paying(posed.q) : feePerKb(Paying(posed.q)[i]) < v})
            upto(v) == Cardinality({i \in DOMAIN Paying(posed.q) : feePerKb(Paying(posed.q)[i]) <= v})
        IN s.count > 0 =>
           /\ s.deciles[0] = Min(fees) /\ s.deciles[10] = Max(fees)
           /\ \A k \in 0..10 : s.deciles[k] \in fees
           /\ \A k \in 0..9 : s.deciles[k] <= s.deciles[k + 1]
           /\ \A k \in 1..9 : 10 * below(s.deciles[k]) <= k * (s.count + 1) /\ 10 * upto(s.deciles[k]) + 5 >= Min({k * (s.count + 1), 10 * s.count})
           /\ s.average \in Min(fees)..Max(fees)
=============================================================================
