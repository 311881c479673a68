------------------------------ MODULE MCAnswers ------------------------------
(***************************************************************************)
(* What the API answers, for TLC: account requests that race the sync, the *)
(* xpub cache, the pages and sums of a settled chain, the views of single  *)
(* transactions and accounts, and the fiat rates of a time.  The parts     *)
(* share no state, so a behaviour exercises one of them, and the variables *)
(* of the others keep their first values.                                  *)
(***************************************************************************)
EXTENDS AccountReads, XpubCache, TxView, FiatLookup

CONSTANTS Parts, me, you, ad1, ad2, other, rd1, rd2, usd, eur, tok

VARIABLES part, ask

Pay(a, v) == [addr |-> a, val |-> v]

-----------------------------------------------------------------------------
\* AccountReads: c1 pays the account; t1 spends it and pays back a part, t2 spends the part; r replaces t1.

RaceTx == [c1 |-> [ins |-> <<>>, outs |-> <<Pay(me, 3)>>],
           c2 |-> [ins |-> <<>>, outs |-> <<Pay(you, 3)>>],
           t1 |-> [ins |-> <<<<"c1", 1>>>>, outs |-> <<Pay(you, 1), Pay(me, 2)>>],
           t2 |-> [ins |-> <<<<"t1", 2>>>>, outs |-> <<Pay(me, 2)>>],
           r  |-> [ins |-> <<<<"c1", 1>>>>, outs |-> <<Pay(you, 2)>>]]
RaceBody == [b1 |-> <<"c1">>, b2 |-> <<"c2", "t1">>, b3 |-> <<"t2">>, b4 |-> <<"r">>]

-----------------------------------------------------------------------------
\* AccountAnswers: two coinbases of one value; t1 splits the first over the account's addresses, t2 joins the parts
\* and pays out, t3 moves the second to the same address, t4 pays it out.

PageTx == [c1 |-> [ins |-> <<>>, outs |-> <<Pay(ad1, 4)>>],
           c2 |-> [ins |-> <<>>, outs |-> <<Pay(ad1, 4), Pay(ad2, 1)>>],
           t1 |-> [ins |-> <<<<"c1", 1>>>>, outs |-> <<Pay(ad2, 2), Pay(ad1, 2)>>],
           t2 |-> [ins |-> <<<<"t1", 1>>, <<"t1", 2>>>>, outs |-> <<Pay(other, 1), Pay(ad2, 2), Pay(ad1, 1)>>],
           t3 |-> [ins |-> <<<<"c2", 1>>>>, outs |-> <<Pay(ad1, 4)>>],
           t4 |-> [ins |-> <<<<"t3", 1>>>>, outs |-> <<Pay(other, 3)>>]]
PageBody == [b0 |-> <<"c1">>, b1 |-> <<"c2", "t1">>, b2 |-> <<"t2", "t3">>, b3 |-> <<"t4">>]

Paged == INSTANCE AccountAnswers WITH
  Tx <- PageTx, Body <- PageBody, MaxSafeInt <- 20, MaxFilteredAddressScanNonMatching <- 2, EtaNear <- 3, EtaFar <- 4

Whole == <<"b0", "b1", "b2", "b3">>
\* What is not in the chain may be pending, in the order of the dependencies, the newest first.
PendingOn(c) ==
  LET later == SelectSeq(Paged!TxsOf(SubSeq(Whole, Len(c) + 1, 4)), LAMBDA t : ~Paged!Coinbase(t) /\ (Len(c) = 1 => t \in {"t1", "t2"}))
  IN  {Reverse(SubSeq(later, 1, k)) : k \in 0..Len(later)}
Filters == [vout : {"off", "inputs", "outputs", "1"}, from : {0, 1}, to : {0, 2}]
Accounts == {<<ad1>>, <<ad2, ad1>>, <<ad1, ad2>>}

PageQuestions ==
  UNION {[kind : {"pages"}, addrs : Accounts, chain : {c}, mempool : PendingOn(c), items : {1, 2, 3}, filter : Filters] :
         c \in {SubSeq(Whole, 1, k) : k \in 1..4}}
HistoryQuestions ==
  [kind : {"history"}, addrs : Accounts, chain : {Whole}, times : [1..4 -> 4..6], groupBy : {1, 3}, at : {5, 6}]
FeeEstimates == [kind : {"eta"}, fee : 1..4, fees : {f \in [1..7 -> 1..4] : \A i \in 1..6 : f[i] >= f[i + 1]}]

-----------------------------------------------------------------------------
\* XpubCache: x has addresses on the receiving and the change chain; y is a small account that competes for the cache.

XpubPays == [t1 |-> {<<"x", 0, 0>>}, t2 |-> {<<"x", 0, 2>>, <<"y", 0, 0>>}, t3 |-> {<<"x", 0, 0>>, <<"x", 1, 1>>}, t4 |-> {<<"x", 0, 1>>}]
XpubBlocks == [g |-> <<>>, h |-> <<>>, b1 |-> <<"t1", "t4">>, b2 |-> <<"t3">>, f1 |-> <<"t1", "t2">>]
XpubFirst == <<"g", "h", "b1">>
XpubChains == <<0, 1>>
Wants(d, gap, history, filtered) == [desc |-> d, gap |-> gap, history |-> history, filtered |-> filtered]
Plan(a, b) == rd1 :> a @@ rd2 :> b
XpubScenarios ==
  {Plan(<<Wants("x", 2, TRUE, FALSE)>>, <<Wants("x", 2, FALSE, FALSE)>>),
   Plan(<<Wants("x", 2, TRUE, TRUE), Wants("y", 2, FALSE, FALSE), Wants("x", 3, FALSE, FALSE)>>, <<>>),
   Plan(<<Wants("x", 2, TRUE, FALSE), Wants("x", 2, TRUE, FALSE), Wants("x", 4, TRUE, FALSE)>>, <<>>)}

-----------------------------------------------------------------------------
\* TxView: questions over two or three inputs, contracts, transactions and fees.

Ins == [value : {3, 5}, at : {"index", "backend", "unknown"}, replaceable : BOOLEAN]
Mint == [value |-> 0, at |-> "coinbase", replaceable |-> FALSE]
Outs == [value : {0, 4}, spent : BOOLEAN]
ViewedTxs == [ins : {<<i>> : i \in Ins \union {Mint}} \union {<<i, j>> : i, j \in Ins}, outs : {<<>>} \union {<<o, p>> : o, p \in Outs}, confirmed : BOOLEAN]

Fungible(id) == {[id |-> id, fungible |-> TRUE, ignored |-> g, txs |-> 2, valid |-> v, held |-> h] :
                    g \in BOOLEAN, v \in BOOLEAN, h \in {Nothing, 0, 7}}
Collectible(id) == {[id |-> id, fungible |-> FALSE, ignored |-> FALSE, txs |-> 3, valid |-> TRUE, held |-> h] : h \in {0, 1}}
Holders == {<<>>} \union {<<a, b, c>> : a \in Fungible("A"), b \in Collectible("B"), c \in Fungible("C")}
TokenAccounts == [contracts : Holders, batchFails : BOOLEAN, singleFails : BOOLEAN, details : {Basic, WithTokens, WithBalances},
                  filter : {"", "A", "B", "D"}, total : {6}]

Inner == {<<>>, <<[from |-> "a", to |-> "b", value |-> 2], [from |-> "b", to |-> "b", value |-> 3]>>}
EvmTxs == [tron : {FALSE}, from : {"a", "b"}, to : {"a", "b"}, value : {0, 4}, status : {"ok", "failed", "unknown"}, fee : {1},
           internal : Inner, op : {"none"}, amount : {Nothing}, matured : {0}]
TronTxs == [tron : {TRUE}, from : {"a", "b"}, to : {"a"}, value : {4}, status : {"ok", "failed"}, fee : {1}, internal : {<<>>},
            op : {"none", "freeze", "withdraw", "cancelUnfreeze", "unfreeze1", "unfreeze2", "voteRewardAmount"},
            amount : {Nothing, 6}, matured : {0, 5}]
Ledgers == {<<t>> : t \in EvmTxs \union TronTxs} \union {<<s, t>> : s \in {x \in EvmTxs : x.internal = <<>>}, t \in EvmTxs}

FeeBlocks == UNION {[1..n -> {[ins |-> <<9>>, outs |-> <<9 - v>>, size |-> 10] : v \in 0..2} \union {[ins |-> <<>>, outs |-> <<5>>, size |-> 9]}] : n \in 1..4}
    \union {[i \in 1..n |-> [ins |-> <<90>>, outs |-> <<90 - i>>, size |-> 10]] : n \in 5..25}

-----------------------------------------------------------------------------
\* FiatLookup: days of eight ticks.

Ticker(at, rates, tokens) == [at |-> at, rates |-> rates, tokens |-> tokens]
DailyTickers == {
  <<>>,
  <<Ticker(8, {usd, eur}, {}), Ticker(16, {eur}, {tok}), Ticker(32, {usd, eur}, {tok})>>,
  <<Ticker(8, {usd}, {tok}), Ticker(24, {usd}, {}), Ticker(32, {eur}, {tok})>>}
Fine(times) == [i \in DOMAIN times |-> Ticker(times[i], {usd}, {})]
FinerTickers == {[hourly |-> <<>>, five |-> <<>>], [hourly |-> Fine(<<19, 20, 28>>), five |-> Fine(<<26, 27, 31>>)]}

FiatQuestions ==
  {[daily |-> d, hourly |-> f.hourly, five |-> f.five, current |-> c, times |-> t, currencies |-> cs, token |-> k] :
     d \in DailyTickers, f \in FinerTickers, c \in {NoTicker, Ticker(34, {usd, eur}, {tok})},
     t \in UNION {[1 .. n -> {7, 13, 16, 21, 26, 30, 35}] : n \in {1, 3}}, cs \in {<<>>, <<eur>>}, k \in {None, tok}}

-----------------------------------------------------------------------------
AnswersInit ==
  /\ part \in Parts
  /\ AccountInit /\ Paged!AskInit /\ ViewInit /\ FiatQueryInit
  /\ XpubInit /\ (part # "xpub" => xreaders[rd2].plan # <<>>)

AnswersNext ==
  /\ \/ part = "account" /\ AccountNext /\ UNCHANGED <<ask, xpubVars, posed, fiatQuery>>
     \/ /\ part = "pages" /\ (Paged!Ask(PageQuestions) \/ Paged!Ask(HistoryQuestions) \/ Paged!Ask(FeeEstimates))
        /\ UNCHANGED <<accountVars, xpubVars, posed, fiatQuery>>
     \/ part = "xpub" /\ XpubNext /\ UNCHANGED <<accountVars, ask, posed, fiatQuery>>
     \/ part = "views" /\ ViewNext /\ UNCHANGED <<accountVars, ask, xpubVars, fiatQuery>>
     \/ part = "rates" /\ AskFiat /\ UNCHANGED <<accountVars, ask, xpubVars, posed>>
  /\ UNCHANGED part

AnswersSpec == AnswersInit /\ [][AnswersNext]_<<part, accountVars, ask, xpubVars, posed, fiatQuery>>

-----------------------------------------------------------------------------
\* An account request answers with what was true while it ran, however the index and the mempools moved
\* (getAddrDescUtxo, GetAddress), and the xpub cache hands out the state of one block (getXpubData).
AccountsTrue == UtxoTruth /\ PageTruth /\ SnapshotOfOneBlock /\ PublishedStaysFixed

\* Every page, sum, view and rate is the one its definition says: pages partition a history, balances add up, the
\* views of a transaction agree and the rate of a time is the nearest one (api/worker.go, api/xpub.go, fiat_rates.go).
AnswersExact ==
  /\ Paged!PagesPartition /\ Paged!HistoryAddsUp /\ Paged!AnswersTrue
  /\ [](ViewsAgree /\ TokensExact /\ EvmHistoryAddsUp /\ DecilesOrdered)
  /\ LookupExact /\ OfferedIsAnswered
=============================================================================
