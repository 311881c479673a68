------------------------------ MODULE MCBackend ------------------------------
(***************************************************************************)
(* What Blockbook keeps of a backend's data, for TLC: the rows it packs,   *)
(* the forms of EVM data, block filters, batched calls, the caches of      *)
(* contracts, the facts about the backend and the status it reports.  The  *)
(* parts share no state, so a behaviour exercises one of them, and the     *)
(* variables of the others keep their first values.                        *)
(***************************************************************************)
EXTENDS Codecs, EthForms, EthCalls, ContractCaches, SystemStatus

VARIABLE part

-----------------------------------------------------------------------------
\* Codecs: rows with the values at which a layout changes its shape, lengths and numbers around one and two groups
\* of seven bits, numbers around a word.

T1 == <<1, 129, 3>>
T2 == <<2, 0, 0>>
A1 == <<7, 200>>
A2 == <<0, 0>>
Lengthy == [i \in 1..130 |-> i]
Small == {0, 127, 128}
Numbers == {<<>>, <<200>>, [i \in 1..9 |-> i]}
Amounts == {<<>>, <<1, 0>>}
UpTo(n, S) == UNION {[1..k -> S] : k \in 0..n}
Modes == [ext : BOOLEAN, assets : BOOLEAN, legacy : {FALSE}]
Assets(d) == IF d.assets THEN {Nil, [guid |-> 300, value |-> <<5>>]} ELSE {Nil}

Inputs(d) ==
    [addr : {Nil, A1}, value : Amounts, txid : {Nil}, vout : {0}, asset : Assets(d)]
    \cup IF d.ext THEN [addr : {A1, Lengthy}, value : {<<9>>}, txid : {T1}, vout : {0, 128}, asset : Assets(d)]
         ELSE {}
Outputs(d) ==
    [addr : {Nil, Lengthy}, value : Amounts, spent : IF d.ext THEN {FALSE} ELSE BOOLEAN, txid : {Nil},
     index : {0}, height : {0}, asset : Assets(d)]
    \cup IF d.ext THEN [addr : {A1}, value : {<<3>>}, spent : {TRUE}, txid : {T2}, index : {1},
                        height : {127, 128}, asset : Assets(d)]
         ELSE {}
Txs == UNION {[kind : {"tx"}, d : {d},
               v : [version : IF d.assets THEN {142} ELSE {0}, height : {128},
                    vsize : IF d.ext THEN {200} ELSE {0}, inputs : UpTo(1, Inputs(d)),
                    outputs : UpTo(2, Outputs(d)),
                    memo : IF d.assets THEN {Nil, <<1>>} ELSE {Nil}]] : d \in Modes}

Utxos(d) == [txid : {T1}, vout : {-1, 0, 128}, height : {5, 300}, value : {<<>>, <<4>>}, asset : Assets(d)]
Balances == UNION {[kind : {"balance"}, d : {d},
                    v : [txs : {1, 200}, sent : Amounts, balance : {<<1>>},
                         assets : IF d.assets THEN UpTo(1, [guid : {7, 300}, balance : Amounts,
                                                            sent : {<<2>>}, transfers : {1}])
                                  ELSE {<<>>},
                         utxos : {<<>>} \cup {<<u>> : u \in Utxos(d)}
                                 \cup {<<u, w>> : u \in Utxos(d), w \in {x \in Utxos(d) : x.height = 5}}]]
                   : d \in {m \in Modes : ~m.ext}}

Indexes == {<<0>>, <<-1, 63>>, <<64, -64, -65>>}
IndexRows == [kind : {"indexes"}, d : {Legacy},
              v : UpTo(2, [txid : {T1, T2}, indexes : Indexes, type : {1, 128}, assets : {<<>>, <<300, 1>>}])]

Outpoints == [txid : {Nil, T1}, index : {0, 64}]
Undo == [kind : {"undo"}, v : UpTo(2, [txid : {T1, T2}, vin : UpTo(2, Outpoints)])]
Blocks == [kind : {"block"}, v : [hash : {T1, <<1>>, <<1, 2, 3, 4>>}, time : {0, 255, 16777216, 1700000000},
                                  txs : Small, size : Small \cup {20000}]]

Acs == [contract : {A1}, standard : {0}, txs : {1, 32}, value : Numbers, ids : {<<>>}, multi : {<<>>}]
       \cup [contract : {A2}, standard : {1}, txs : {31}, value : {Nil}, ids : UpTo(2, Numbers), multi : {<<>>}]
       \cup [contract : {A1}, standard : {2}, txs : {1}, value : {Nil}, ids : {<<>>},
             multi : UpTo(1, [id : Numbers, value : Amounts])]
ContractRows == [kind : {"contracts"}, v : [total : {2, 200}, plain : {0}, internal : {1, 128},
                                            contracts : UpTo(2, Acs)]]

Transfers == [from : {A1}, to : {A2}, contract : {A2}, standard : {0, 1}, multi : {<<>>}, value : Amounts]
             \cup [from : {A1}, to : {A1}, contract : {A2}, standard : {2}, value : {Nil},
                   multi : UpTo(2, [id : Amounts, value : {<<3>>}])]
EthUndo == [kind : {"ethundo"}, v : UpTo(1, [txid : {T1}, from : {A1, Nil}, to : {A1, Nil},
                                             contracts : UpTo(2, Transfers)])]
InternalTransfers == [type : {0, 2}, from : {A1}, to : {A2}, value : Amounts]
Internal == UNION {[kind : {"internal"}, v : [type : {t}, contract : {IF t = 1 THEN A1 ELSE Nil},
                                              transfers : UpTo(2, InternalTransfers),
                                              error : {<<>>, <<301>>, <<65, 66>>}]] : t \in {0, 1}}
Queued == [kind : {"queued"}, v : [hash : {T1}, retries : {0, 255}, message : {<<65>>, <<65, 66>>}]]
Signatures == [kind : {"signature"}, v : [name : {<<65>>, Lengthy}, parameters : UpTo(2, {<<>>, <<66>>, Lengthy})]]
Names == {<<>>, <<65, 66>>, <<65, 195, 169, 66>>, <<65, 66, 67, 195, 169>>, <<65, 66, 67, 68, 69>>}
ContractInfos == [kind : {"contract"}, v : [name : Names, symbol : {<<65>>}, standard : {<<>>, <<70>>},
                                            decimals : {0, 128}, created : {0, 300}, destructed : Small]]
Protocols == [kind : {"protocol"}, v : [height : {1, 127, 128, 20000}, asset : {<<>>, <<65>>, Lengthy}]]
Rate(n) == <<64, 72, 245, n>>
Tickers == [kind : {"ticker"}, tokens : {{<<97>>, <<65>>, <<98>>, <<99>>}},
            v : [rates : UpTo(1, [key : {<<97>>, <<98>>}, rate : {Rate(1)}]),
                 tokens : {<<>>} \cup {<<[key |-> <<97>>, rate |-> r]>> : r \in {Rate(1), Rate(195)}}
                          \cup {<<[key |-> p[1], rate |-> Rate(1)], [key |-> p[2], rate |-> Rate(2)]>> :
                                p \in {<<<<97>>, <<98>>>>, <<<<98>>, <<97>>>>, <<<<66>>, <<97>>>>}}]]
AssetRows == [kind : {"asset"}, v : [asset : [transactions : Small, meta : {<<>>, <<9>>}, obj : {<<1, 2>>}],
                                     txs : UpTo(2, [type : {1, 64}, txid : {T1, T2}])]]

\* Descriptors of which one is the beginning of another, continued by bytes
\* that look like a complemented height.
Prefixed == {<<5>>, <<5, 255>>, <<5, 255, 255>>, <<6>>}
KeySets(S, hs, n) == {s \in SUBSET [of : S, height : hs] : Cardinality(s) \in 1..n}
AddressKeys == [kind : {"addresskeys"}, lower : {0, 1}, higher : {1, 256}, v : KeySets(Prefixed, {0, 1, 256}, 3)]
AssetKeys == [kind : {"assetkeys"}, lower : {0, 1}, higher : {1, 256},
              v : KeySets({5, 127, 128, 16384}, {0, 1, 256}, 3)]
ProtocolKeys == [kind : {"protocolkeys"}, lower : {1, 2}, higher : {2, 255},
                 v : {s \in KeySets({<<0>>, <<255>>, <<255, 1>>}, {1, 2, 255, 256}, 3) :
                      \A x, y \in s : x.of = y.of => x = y}]
FourByteKeys == [kind : {"fourbytekeys"}, v : KeySets({0, 1, 256}, {0, 1, 300}, 3)]

\* One row, or one set of keys, of any column.
LookAtRow ==
    \/ Look(Txs) \/ Look(Balances) \/ Look(IndexRows) \/ Look(Undo) \/ Look(Blocks)
    \/ Look(ContractRows) \/ Look(EthUndo) \/ Look(Internal) \/ Look(Queued) \/ Look(Signatures)
    \/ Look(ContractInfos) \/ Look(Protocols) \/ Look(Tickers) \/ Look(AssetRows)
    \/ Look(AddressKeys) \/ Look(AssetKeys) \/ Look(ProtocolKeys) \/ Look(FourByteKeys)

-----------------------------------------------------------------------------
\* EthForms: well-formed and malformed logs of every kind in lists of two, the calls and results of one or two
\* aggregate3 slots with every single garbled cell, and input data of the parameter types the parser supports.
\* Addresses are the numbers 1 to 3 (the third is an ignored contract), token ids and amounts 4 to 9.
Word(n) == <<0, n>>
Means(standard, contract, values) == [standard |-> standard, contract |-> contract, from |-> 1, to |-> 2, values |-> values]
Good ==
    LET ids == <<Word(4), Word(5)>>
        values == <<Word(6), <<7, 0>>>>
        log(event, address, topics, data, means) ==
            [event |-> event, address |-> address, topics |-> topics, data |-> data, means |-> <<means>>]
    IN {log("Transfer", c, <<Word(1), <<9, 2>>>>, Word(6), Means("ERC20", c, <<<<6>>>>)) : c \in {2, 3}}
       \cup {log("Transfer", 1, <<Word(1), Word(2), Word(4)>>, <<>>, Means("ERC721", 1, <<<<4>>>>)),
             log("TransferSingle", 1, <<Word(9), Word(1), Word(2)>>, Word(4) \o Word(6),
                 Means("ERC1155", 1, <<<<<<4>>, <<6>>>>>>)),
             log("TransferBatch", 1, <<Word(9), Word(1), Word(2)>>, BatchData(ids, values),
                 Means("ERC1155", 1, <<<<<<4>>, <<6>>>>, <<<<5>>, <<7, 0>>>>>>)),
             log("TransferBatch", 1, <<Word(9), Word(1), Word(2)>>, BatchData(<<>>, <<>>), Means("ERC1155", 1, <<>>)),
             \* both offsets name the one array
             log("TransferBatch", 1, <<Word(9), Word(1), Word(2)>>, Word(4) \o Word(4) \o Word(1) \o Word(5),
                 Means("ERC1155", 1, <<<<<<5>>, <<5>>>>>>))}
Malformed ==
    LET batch(data) == [event |-> "TransferBatch", address |-> 1, topics |-> <<Word(9), Word(1), Word(2)>>, data |-> data,
                        means |-> <<>>]
    IN {batch(d) : d \in
            {<<>>, Word(4), Word(4) \o <<0>>, BatchData(<<Word(4)>>, <<>>), Word(4) \o Word(6) \o Word(3) \o Word(3),
             Word(2) \o Word(2) \o Word(0), Word(5) \o Word(5) \o Word(0) \o Word(0), Word(4) \o Word(4) \o Word(60),
             Word(90) \o Word(90) \o Word(0), <<1, 4>> \o Word(4) \o Word(0), Word(4) \o <<0, BadCell>> \o Word(0),
             Word(4) \o Word(4) \o Word(1) \o <<BadCell, 1>>}}
       \cup {[event |-> "TransferSingle", address |-> 1, topics |-> <<Word(9), Word(1), Word(2)>>, data |-> Word(4),
              means |-> <<>>],
             [event |-> "Transfer", address |-> 1, topics |-> <<Word(1)>>, data |-> Word(4), means |-> <<>>],
             [event |-> "Transfer", address |-> 1, topics |-> <<Word(1), <<0, BadCell>>>>, data |-> Word(4), means |-> <<>>],
             [event |-> "Transfer", address |-> 1, topics |-> <<Word(1), Word(2)>>, data |-> <<>>, means |-> <<>>],
             [event |-> "Approval", address |-> 1, topics |-> <<Word(1), Word(2)>>, data |-> Word(4), means |-> <<>>]}
SampleLogLists == {<<a, b>> : a \in Good \cup Malformed, b \in Good \cup Malformed}

SamplePayloads ==
    LET tx(method, to, data, means) == [method |-> method, from |-> 1, to |-> to, data |-> data, means |-> means]
    IN {tx("transfer", c, Word(2) \o Word(6), <<Means("ERC20", c, <<<<6>>>>)>>) : c \in {2, 3}}
       \cup {tx("transfer", 2, Word(2), <<>>),
             tx("safeTransferFrom", 2, Word(1) \o Word(2) \o Word(4) \o Word(5), <<Means("ERC721", 2, <<<<4>>>>)>>),
             tx("transferFrom", 2, Word(1) \o Word(2) \o Word(4), <<>>)}

Chunks == {<<>>, <<7>>, <<7, 8>>, <<7, 8, 9>>}
SampleCallLists ==
    LET calls == [target : {1, 2}, allowFailure : BOOLEAN, payload : Chunks] IN {<<a>> : a \in calls} \cup {<<a, b>> : a, b \in calls}
SampleResultLists == LET results == [success : BOOLEAN, data : Chunks] IN {<<a>> : a \in results} \cup {<<a, b>> : a, b \in results}

Types ==
    LET basic == {Basic(t) : t \in {"int", "bool", "address", "fixed", "string", "bytes", "tuple"}}
    IN basic \cup {[t |-> "array", size |-> 2, elem |-> Basic("address")], [t |-> "slice", elem |-> Basic("int")],
                   [t |-> "slice", elem |-> Basic("string")]}
ValuesOf(type) ==
    CASE type.t = "int" -> {Word(4), <<5, 0>>}
      [] type.t = "bool" -> {Word(0), Word(1)}
      [] type.t = "address" -> {Word(2)}
      [] type.t = "fixed" -> {<<8, 0>>}
      [] type.t \in {"string", "bytes"} -> {<<>>, <<7>>, <<7, 8, 9>>}
      [] type.t = "array" -> {<<Word(1), Word(2)>>}
      [] type.t = "slice" /\ type.elem.t = "int" -> {<<>>, <<Word(4), Word(5)>>}
      [] type.t = "slice" /\ type.elem.t = "string" -> {<<>>, <<<<7>>, <<7, 8, 9>>>>}
      [] OTHER -> {}
SampleArguments(types) ==
    IF Len(types) = 1 THEN {<<v>> : v \in ValuesOf(types[1])}
    ELSE {<<v, w>> : v \in ValuesOf(types[1]), w \in ValuesOf(types[2])}
\* One signature with up to two parameters, or a signature that is tried after another of the same four bytes.
SampleSignatureLists ==
    {<<<<t>>>> : t \in Types} \cup {<<<<t, u>>>> : t, u \in Types} \cup {<<<<Basic("string")>>, <<t>>>> : t \in Types}

-----------------------------------------------------------------------------
\* EthForms and the filter of a block: transactions with every combination of fields left out, zero, one and the value of
\* the status byte, and blocks of up to two transactions that spend each other or an older output.

FormTx(value, to, fee, receipt, internal) ==
    [numbers |-> [f \in TxNumbers |-> IF f = "value" THEN value ELSE 2],
     optional |-> [f \in TxOptional |-> IF f = "maxFeePerGas" THEN 3 ELSE fee],
     from |-> "a", to |-> to, payload |-> "0x", receipt |-> receipt, extra |-> "", internal |-> internal]
SampleReceipts ==
    {<<>>} \cup {<<[gasUsed |-> g, status |-> s, logs |-> l, l1FeeScalar |-> "1.5",
                   optional |-> [f \in ReceiptOptional |-> IF f = "l1Fee" THEN x ELSE p]]>> :
        g \in {NoNumber, 4}, s \in {NoNumber, 0, 1}, l \in {<<>>, <<[address |-> "a", data |-> "0x"]>>, <<[address |-> "a", data |-> ""]>>},
        x \in {NoNumber, 0, 5}, p \in {NoNumber, 0, 6}}
SampleBackendTxs ==
    {FormTx(v, to, fee, receipt, internal) :
        v \in {NoNumber, 0, 1}, to \in {"", "b"}, fee \in {NoNumber, 0, 1}, receipt \in SampleReceipts,
        internal \in {<<>>, <<[type |-> "CALL", transfers |-> <<>>, error |-> ""]>>}}

FilterTx(txid, outputs, spends, ordinal) == [txid |-> txid, outputs |-> outputs, spends |-> spends, ordinal |-> ordinal]
SampleFilterBlocks ==
    LET outputs == {<<d>> : d \in {"t1", "t2", "s1"}} \cup {<<"t1", "s1">>}
        older == {<<[txid |-> "old", desc |-> d]>> : d \in {"t3", "s2"}}
        firsts == {FilterTx("x", o, s, m) : o \in outputs, s \in older, m \in BOOLEAN}
        seconds(x) == {FilterTx("y", o, s, m) :
                          o \in outputs, s \in older \cup {<<[txid |-> "x", desc |-> x.outputs[1]]>>}, m \in BOOLEAN}
    IN UNION {{<<x, y>>, <<y, x>>} : <<x, y>> \in UNION {{<<x, y>> : y \in seconds(x)} : x \in firsts}}

-----------------------------------------------------------------------------
\* EthCalls: two concurrent requests, one for balances or metadata of up to four contracts, one for a transaction or
\* another list.

SampleChains == {[maxCalls |-> 3, code |-> TRUE], [maxCalls |-> 7, code |-> TRUE], [maxCalls |-> 7, code |-> FALSE]}
SampleCallers == {"c1", "c2"}
SampleData == [
    usd   |-> [valid |-> TRUE, name |-> Yields("usd"), symbol |-> Yields("USD"), decimals |-> Yields(6), balance |-> Yields(5)],
    dai   |-> [valid |-> TRUE, name |-> Yields("dai"), symbol |-> Unparsed, decimals |-> Bare, balance |-> Yields(7)],
    dead  |-> [valid |-> TRUE, name |-> Bare, symbol |-> Bare, decimals |-> Bare, balance |-> Bare],
    vault |-> [valid |-> TRUE, name |-> Yields(""), symbol |-> Reason, decimals |-> Unparsed, balance |-> Reason],
    bad   |-> [valid |-> FALSE]]

SampleLists == {<<"usd", "dead", "dai", "usd">>, <<"dai", "bad", "usd">>, <<"vault", "usd", "dead">>}
TxAsks == {[hash |-> h, receipt |-> m, position |-> p, body |-> m] :
             h \in {FALSE}, m \in BOOLEAN, p \in {"tx", "other", "none"}}
         \union {[hash |-> TRUE, receipt |-> TRUE, position |-> "tx", body |-> TRUE]}
SampleAsks ==
    {[c1 |-> [what |-> w, list |-> l], c2 |-> [what |-> "balances", list |-> <<"usd">>]] :
         w \in {"balances", "infos"}, l \in SampleLists}
    \union {[c1 |-> [what |-> "infos", list |-> <<"dead", "usd">>], c2 |-> [what |-> "tx", tx |-> t]] : t \in TxAsks}

-----------------------------------------------------------------------------
\* ContractCaches: two branches, two vaults.

Ask(kind, contracts, raw) == [kind |-> kind, contracts |-> contracts, raw |-> raw]
SampleFirstChain == <<"a">>
SampleUpgrades == {<<"v", "a", 1>>, <<"v", "b", 2>>, <<"w", "b", 1>>}
SampleCreations == {<<"v", "a", 1>>, <<"v", "b", 1>>}
VaultPlans == {[r1 |-> Ask("tokens", <<"v">>, FALSE), r2 |-> Ask("info", <<"v">>, FALSE)],
            [r1 |-> Ask("info", <<"v">>, FALSE), r2 |-> Ask("info", <<"v">>, FALSE)],
            [r1 |-> Ask("info", <<"v">>, FALSE), r2 |-> Ask("purge", <<"v">>, FALSE)],
            [r1 |-> Ask("tokens", <<"v", "w">>, TRUE), r2 |-> Ask("none", <<"v">>, FALSE)]}

-----------------------------------------------------------------------------
\* SystemStatus: rewards of a fee history.

FeeHistories == {<<>>, <<2>>, <<2, 3>>, <<1, 2, 4, 6>>, <<2, 2, 3, 7>>}

-----------------------------------------------------------------------------
BackendInit ==
    /\ part \in {"rows", "abi", "forms", "filter", "calls", "caches", "identity", "fees", "node", "status"}
    /\ CodecInit /\ AbiInit /\ TxFormsInit
    /\ FilterInit /\ (part # "filter" => gf.scripts = "")
    /\ CallsInit /\ (part # "calls" => chain.maxCalls = 7 /\ chain.code /\ wants.c1.what = "balances" /\ Len(wants.c1.list) = 4)
    /\ VaultInit /\ (part # "caches" => request["r2"].kind = "purge")
    /\ FactsInit
    /\ StatusInit /\ (part # "status" => chainType = "bitcoin")

\* The identity, the fee provider and the node's estimate share only the clock.
FactsStep ==
    \/ part \in {"identity", "fees", "node"} /\ FactsTick
    \/ part = "identity" /\ IdentityNext
    \/ part = "fees" /\ FeesNext
    \/ part = "node" /\ AskHistory /\ UNCHANGED <<now, ivars, pvars>>

BackendNext ==
    /\ \/ part = "rows" /\ LookAtRow /\ UNCHANGED <<avars, storedTx, fvars, evars, vaultVars, bvars, svars>>
       \/ part = "abi" /\ AbiNext /\ UNCHANGED <<row, storedTx, fvars, evars, vaultVars, bvars, svars>>
       \/ part = "forms" /\ StoreAndRead /\ UNCHANGED <<row, avars, fvars, evars, vaultVars, bvars, svars>>
       \/ part = "filter" /\ FilterNext /\ UNCHANGED <<row, avars, storedTx, evars, vaultVars, bvars, svars>>
       \/ part = "calls" /\ CallsNext /\ UNCHANGED <<row, avars, storedTx, fvars, vaultVars, bvars, svars>>
       \/ part = "caches" /\ VaultNext /\ UNCHANGED <<row, avars, storedTx, fvars, evars, bvars, svars>>
       \/ FactsStep /\ UNCHANGED <<row, avars, storedTx, fvars, evars, vaultVars, svars>>
       \/ part = "status" /\ StatusNext /\ UNCHANGED <<row, avars, storedTx, fvars, evars, vaultVars, bvars>>
    /\ UNCHANGED part

BackendSpec == BackendInit /\ [][BackendNext]_<<part, row, avars, storedTx, fvars, evars, vaultVars, bvars, svars>>

-----------------------------------------------------------------------------
\* What is packed is what is read back, every shortcut into a row agrees with the whole row, and a scan of keys
\* finds exactly the rows asked for (the packing functions of src/db).
RowsExact == RowsReadBack /\ ShortcutsAgree /\ ScansExact

\* The other forms say what the data say: token transfers of logs and payloads, aggregate3 calls and input data
\* (src/bchain/coins/eth), cached transactions (PackTx), and the scripts of a block filter (golomb.go).
FormsExact == TransfersExact /\ AbiReadsBack /\ CachedTxSame /\ FilterExact

\* What is cached or batched is what asking the backend alone, and now, would give: contract records and verdicts
\* about vaults (contract_info.go, erc4626.go), batched calls (contract.go, multicall.go).
CachesExact == CachedRecordsCurrent /\ VerdictsOfThisChain /\ BatchedLikeSingle

\* What is reported about the backend is honest: an outage, its fees and the state of the sync (systeminfo.go,
\* ttlvalue.go, alternativefeeprovider.go).
ReportsHonest == [](OutageReported /\ FeesBounded /\ TiersOrdered /\ StatusHonest) /\ TipAgeKept
=============================================================================
