------------------------------ MODULE EthForms ------------------------------
(***************************************************************************)
(* What the program reads from and writes to ABI-encoded bytes: token      *)
(* transfers from the logs of a receipt or from a payload (src/bchain/     *)
(* coins/eth/contract.go), the calls and results of aggregate3             *)
(* (multicall.go), and the parameters of a transaction's input data, tried *)
(* against the signatures of a cache the requests share (dataparser.go).   *)
(*                                                                         *)
(* A 32-byte word is two cells, a number right-aligned in them; lengths    *)
(* and offsets count cells.  BadCell stands for characters that are not    *)
(* hexadecimal.  Integers wrap above AbiMaxInt.                            *)
(***************************************************************************)
EXTENDS Integers, Sequences, FiniteSets, SequencesExt

CONSTANTS
    LogLists,       \* the receipts' logs asked about
    IgnoredContracts,
    Payloads,       \* the pending payloads asked about
    CallLists,      \* the lists of aggregate3 calls asked about
    ResultLists,    \* the lists of aggregate3 results asked about
    SignatureLists, \* the lists of signatures of the same four bytes asked about, each a list of types
    Arguments(_),   \* the arguments asked about for a list of types
    InputRequests,  \* the requests that parse the same input data
    AbiMaxInt       \* the largest int

VARIABLES
    asked,       \* the question that is answered
    parsedTypes, \* the cached signatures: [named, types] for each, as ParseInputData prepares them
    parsing      \* per request: [at, sig, result]

avars == <<asked, parsedTypes, parsing>>

BadCell == -1
WordCells == 2

Cells(n) == <<0, n>>
Bytes(data, from, to) == SubSeq(data, from + 1, to)
HasBad(cells) == \E i \in DOMAIN cells : cells[i] = BadCell
Stripped(cells) ==
    LET significant == {i \in DOMAIN cells : cells[i] # 0}
    IN IF significant = {} THEN <<>> ELSE SubSeq(cells, CHOOSE i \in significant : \A j \in significant : i <= j, Len(cells))

-----------------------------------------------------------------------------
(* contract.go: token transfers from logs and payloads. A failed parse or a recovered panic yields no transfer. *)

setBigFromHexWord(cells) == IF cells = <<>> \/ HasBad(cells) THEN <<>> ELSE <<Stripped(cells)>>

\* The padding in front of an address is not validated.
addressFromPaddedHex(word) == IF word[WordCells] = BadCell THEN <<>> ELSE <<word[WordCells]>>

Transfer(standard, log, from, to, values) ==
    IF from = <<>> \/ to = <<>> \/ values = <<>> THEN <<>>
    ELSE <<[standard |-> standard, contract |-> log.address, from |-> from[1], to |-> to[1], values |-> values]>>

processTransferEvent(log) ==
    LET fungible == Transfer("ERC20", log, addressFromPaddedHex(log.topics[1]), addressFromPaddedHex(log.topics[2]),
                             setBigFromHexWord(log.data))
        token == Transfer("ERC721", log, addressFromPaddedHex(log.topics[1]), addressFromPaddedHex(log.topics[2]),
                          setBigFromHexWord(log.topics[3]))
    IN CASE Len(log.topics) = 2 -> fungible
         [] Len(log.topics) = 3 -> token
         [] OTHER -> <<>>

processERC1155TransferSingleEvent(log) ==
    IF Len(log.topics) # 3 \/ Len(log.data) < 2 * WordCells THEN <<>>
    ELSE LET id == setBigFromHexWord(Bytes(log.data, 0, WordCells))
             value == setBigFromHexWord(Bytes(log.data, WordCells, 2 * WordCells))
         IN IF id = <<>> \/ value = <<>> THEN <<>>
            ELSE Transfer("ERC1155", log, addressFromPaddedHex(log.topics[2]), addressFromPaddedHex(log.topics[3]),
                          <<<<id[1], value[1]>>>>)

\* A word that must be a number below 2^64; <<>> is the error.
parseEVMLogWordUint64(data, offset) ==
    IF offset < 0 \/ Len(data) - offset < WordCells THEN <<>>
    ELSE LET word == Bytes(data, offset, offset + WordCells)
         IN IF HasBad(word) \/ word[1] # 0 THEN <<>> ELSE <<word[2]>>

erc1155BatchOffsetHex(offset) ==
    IF offset = <<>> \/ offset[1] < 2 * WordCells \/ offset[1] % WordCells # 0 \/ offset[1] > AbiMaxInt \div 2
    THEN <<>> ELSE offset

erc1155BatchArrayEnd(offset, count) ==
    LET base == offset + WordCells
    IN IF base > AbiMaxInt \/ count > (AbiMaxInt - base) \div WordCells THEN <<>> ELSE <<base + count * WordCells>>

\* The array whose count word is at offset: <<>> unless it lies within the data.
BatchArray(data, offset) ==
    LET count == IF offset = <<>> THEN <<>> ELSE parseEVMLogWordUint64(data, offset[1])
        end == IF count = <<>> THEN <<>> ELSE erc1155BatchArrayEnd(offset[1], count[1])
    IN IF end = <<>> \/ (end # <<>> /\ end[1] > Len(data)) THEN <<>>
       ELSE <<[i \in 1..count[1] |-> Bytes(data, offset[1] + i * WordCells, offset[1] + (i + 1) * WordCells)]>>

processERC1155TransferBatchEvent(log) ==
    IF Len(log.topics) < 3 \/ Len(log.data) < 2 * WordCells \/ Len(log.data) % WordCells # 0 THEN <<>>
    ELSE LET ids == BatchArray(log.data, erc1155BatchOffsetHex(parseEVMLogWordUint64(log.data, 0)))
             values == BatchArray(log.data, erc1155BatchOffsetHex(parseEVMLogWordUint64(log.data, WordCells)))
             from == addressFromPaddedHex(log.topics[2])
             to == addressFromPaddedHex(log.topics[3])
         IN IF ids = <<>> \/ values = <<>> \/ from = <<>> \/ to = <<>> THEN <<>>
            ELSE IF Len(ids[1]) # Len(values[1]) \/ \E i \in DOMAIN ids[1] : HasBad(ids[1][i]) \/ HasBad(values[1][i])
            THEN <<>>
            ELSE <<[standard |-> "ERC1155", contract |-> log.address, from |-> from[1], to |-> to[1],
                    values |-> [i \in DOMAIN ids[1] |-> <<Stripped(ids[1][i]), Stripped(values[1][i])>>]]>>

isIgnoredContract(address) == address \in IgnoredContracts

TransfersOfLog(log) ==
    IF isIgnoredContract(log.address) THEN <<>>
    ELSE CASE log.event = "Transfer" -> processTransferEvent(log)
           [] log.event = "TransferSingle" -> processERC1155TransferSingleEvent(log)
           [] log.event = "TransferBatch" -> processERC1155TransferBatchEvent(log)
           [] OTHER -> <<>>

\* An unparseable log is skipped.
contractGetTransfersFromLog(logs) == FlattenSeq([i \in DOMAIN logs |-> TransfersOfLog(logs[i])])

\* A bug: the first log without a transfer ends the list.

\* A transfer read from the payload of a transaction without a receipt.
contractGetTransfersFromTx(tx) ==
    LET word(i) == Bytes(tx.data, i * WordCells, (i + 1) * WordCells)
        log == [address |-> tx.to]
    IN CASE tx.method = "transfer" /\ Len(tx.data) = 2 * WordCells ->
              Transfer("ERC20", log, <<tx.from>>, addressFromPaddedHex(word(0)), setBigFromHexWord(word(1)))
         [] tx.method = "safeTransferFrom" /\ Len(tx.data) >= 3 * WordCells ->
              Transfer("ERC721", log, addressFromPaddedHex(word(0)), addressFromPaddedHex(word(1)),
                       setBigFromHexWord(word(2)))
         [] OTHER -> <<>>

EthereumTypeGetTokenTransfersFromTx(tx) == IF isIgnoredContract(tx.to) THEN <<>> ELSE contractGetTransfersFromTx(tx)

-----------------------------------------------------------------------------
(* multicall.go: the calldata and the results of aggregate3. *)

paddedLen(n) == ((n + WordCells - 1) \div WordCells) * WordCells

Padded(cells) == cells \o [i \in 1..(paddedLen(Len(cells)) - Len(cells)) |-> 0]

RECURSIVE HeadOffsets(_, _)
HeadOffsets(sizes, cursor) ==
    IF sizes = <<>> THEN <<>> ELSE Cells(cursor) \o HeadOffsets(Tail(sizes), cursor + sizes[1])

encodeAggregate3(calls) ==
    LET sizes == [i \in DOMAIN calls |-> 4 * WordCells + paddedLen(Len(calls[i].payload))]
        tuple(c) == Cells(c.target) \o Cells(IF c.allowFailure THEN 1 ELSE 0) \o Cells(3 * WordCells)
                    \o Cells(Len(c.payload)) \o Padded(c.payload)
    IN Cells(WordCells) \o Cells(Len(calls)) \o HeadOffsets(sizes, Len(calls) * WordCells)
       \o FlattenSeq([i \in DOMAIN calls |-> tuple(calls[i])])

\* A word that indexes the buffer, or <<>>.
wordAsIndex(raw, offset) ==
    LET word == Bytes(raw, offset, offset + WordCells)
    IN IF word[1] # 0 \/ word[2] > Len(raw) THEN <<>> ELSE <<word[2]>>

\* One (bool, bytes) tuple of a response, or <<>> when it does not lie within it.
TupleAt(raw, head) ==
    LET offset == wordAsIndex(raw, head)
        start == 2 * WordCells + offset[1]
        bytesOffset == wordAsIndex(raw, start + WordCells)
        pos == start + bytesOffset[1]
        length == wordAsIndex(raw, pos)
    IN IF offset = <<>> THEN <<>>
       ELSE IF Len(raw) < start + 3 * WordCells THEN <<>>
       ELSE IF bytesOffset = <<>> THEN <<>>
       ELSE IF Len(raw) < pos + WordCells THEN <<>>
       ELSE IF length = <<>> THEN <<>>
       ELSE IF Len(raw) < pos + WordCells + length[1] THEN <<>>
       ELSE <<[success |-> raw[start + WordCells] = 1, data |-> Bytes(raw, pos + WordCells, pos + WordCells + length[1])]>>

\* Mutant: the number of results is not compared with the number of calls.
MutDecodeAggregate3Result(raw, expectedCalls) ==
    LET tuples == [i \in 1..expectedCalls |-> TupleAt(raw, (i + 1) * WordCells)]
    IN IF Len(raw) < (2 + expectedCalls) * WordCells THEN <<>>
       ELSE IF wordAsIndex(raw, 0) # <<WordCells>> THEN <<>>
       ELSE IF \E i \in 1..expectedCalls : tuples[i] = <<>> THEN <<>>
       ELSE <<[i \in 1..expectedCalls |-> tuples[i][1]]>>

\* <<>> is the error.
decodeAggregate3Result(raw, expectedCalls) ==
    LET tuples == [i \in 1..expectedCalls |-> TupleAt(raw, (i + 1) * WordCells)]
        decoded == FlattenSeq([i \in 1..expectedCalls |-> tuples[i][1].data])
    IN IF Len(raw) < 2 * WordCells THEN <<>>
       ELSE IF wordAsIndex(raw, 0) # <<WordCells>> \/ wordAsIndex(raw, WordCells) # <<expectedCalls>> THEN <<>>
       ELSE IF Len(raw) < (2 + expectedCalls) * WordCells THEN <<>>
       ELSE IF \E i \in 1..expectedCalls : tuples[i] = <<>> THEN <<>>
       ELSE IF Len(decoded) > Len(raw) THEN <<>>
       ELSE <<[i \in 1..expectedCalls |-> tuples[i][1]]>>

-----------------------------------------------------------------------------
(* dataparser.go: the parameters of input data. *)

\* strconv.ParseInt of a word: <<>> above the largest int.
ParseInt(word) == IF HasBad(word) \/ word[1] # 0 \/ word[2] > AbiMaxInt THEN <<>> ELSE <<word[2]>>

\* A length in bytes doubled to count hexadecimal digits, counted in cells again: it wraps below zero.
Doubled(n) == IF n > AbiMaxInt \div 2 THEN n - (AbiMaxInt + 1) ELSE n

Failed == [ok |-> FALSE, values |-> <<>>, index |-> 0, processed |-> {}]

Basic(t) == [t |-> t]

Static(type, block) ==
    CASE type.t = "int" -> <<"number", Stripped(block)>>
      [] type.t = "bool" -> <<"bool", IF Stripped(block) # <<>> THEN <<1>> ELSE <<>>>>
      [] type.t = "address" -> <<"address", <<block[WordCells]>>>>
      [] type.t = "fixed" -> <<"bytes", <<block[1]>>>>

\* The value of one parameter at word index, the index after it and the words it has used; Times parameters in a row.
RECURSIVE processParam(_, _, _, _, _)
RECURSIVE ElementsAt(_, _, _, _, _, _)
processParam(data, index, dataOffset, type, processed) ==
    LET d == index * WordCells
        block == Bytes(data, d, d + WordCells)
        offset == ParseInt(block)
        at == Doubled(offset[1]) + dataOffset
        count == ParseInt(Bytes(data, at, at + WordCells))
        dynIndex == at \div WordCells + 1
        end == at + WordCells + Doubled(count[1])
        words == paddedLen(count[1]) \div WordCells
        elements == ElementsAt(count[1], data, dynIndex, dataOffset + dynIndex * WordCells, type.elem,
                          processed \cup {index, dynIndex - 1})
    IN IF d + WordCells > Len(data) THEN Failed
       ELSE CASE type.t \in {"int", "bool", "address", "fixed"} ->
              IF HasBad(block) THEN Failed
              ELSE [ok |-> TRUE, values |-> <<Static(type, block)>>, index |-> index + 1,
                    processed |-> processed \cup {index}]
         [] type.t = "array" -> ElementsAt(type.size, data, index, dataOffset, type.elem, processed)
         [] type.t \in {"string", "bytes", "slice"} ->
              IF offset = <<>> THEN Failed
              ELSE IF at < 0 \/ at + WordCells > Len(data) THEN Failed
              ELSE IF count = <<>> THEN Failed
              ELSE IF type.t = "slice"
              THEN [elements EXCEPT !.index = index + 1]
              ELSE IF end > Len(data) \/ end < at + WordCells \/ dynIndex + words > Len(data) \div WordCells THEN Failed
              ELSE [ok |-> TRUE, values |-> <<<<type.t, Bytes(data, at + WordCells, end)>>>>, index |-> index + 1,
                    processed |-> processed \cup {index} \cup (dynIndex - 1)..(dynIndex + words - 1)]
         [] OTHER -> Failed

ElementsAt(n, data, index, dataOffset, type, processed) ==
    IF n = 0 THEN [ok |-> TRUE, values |-> <<>>, index |-> index, processed |-> processed]
    ELSE LET first == processParam(data, index, dataOffset, type, processed)
             rest == ElementsAt(n - 1, data, first.index, dataOffset, type, first.processed)
         IN IF ~first.ok \/ (first.ok /\ ~rest.ok) THEN Failed
            ELSE [rest EXCEPT !.values = first.values \o @]

RECURSIVE Params(_, _, _, _)
Params(data, types, index, processed) ==
    IF types = <<>> THEN [ok |-> TRUE, values |-> <<>>, processed |-> processed]
    ELSE LET first == processParam(data, index, 0, types[1], processed)
             rest == Params(data, Tail(types), first.index, first.processed)
         IN IF ~first.ok \/ (first.ok /\ ~rest.ok) THEN [ok |-> FALSE, values |-> <<>>, processed |-> {}]
            ELSE [rest EXCEPT !.values = <<first.values>> \o @]

\* All the data must be used, otherwise it is the wrong signature: <<>>.
tryParseParams(data, types) ==
    LET read == Params(data, types, 0, {})
    IN IF read.ok /\ read.processed = 0..(Len(data) \div WordCells - 1) THEN <<read.values>> ELSE <<>>

-----------------------------------------------------------------------------
(* The encoding the ABI prescribes, which the calls and the answers of contracts follow. *)

IsDynamic(type) == type.t \in {"string", "bytes", "slice"}
HeadWords(type) == IF type.t = "array" THEN type.size ELSE 1

RECURSIVE EncodeList(_, _)
RECURSIVE EncodeTail(_, _)
\* The words of a static value: a word, or the words of an array.
EncodeStatic(type, value) == IF type.t = "array" THEN FlattenSeq(value) ELSE value
EncodeTail(type, value) ==
    IF type.t = "slice" THEN Cells(Len(value)) \o EncodeList([i \in DOMAIN value |-> type.elem], value)
    ELSE Cells(Len(value)) \o Padded(value)
EncodeList(types, values) ==
    LET tails == [i \in DOMAIN types |-> IF IsDynamic(types[i]) THEN EncodeTail(types[i], values[i]) ELSE <<>>]
        headCells == WordCells * FoldLeft(LAMBDA n, t : n + HeadWords(t), 0, types)
        offset(i) == headCells + Len(FlattenSeq(SubSeq(tails, 1, i - 1)))
    IN FlattenSeq([i \in DOMAIN types |->
            IF IsDynamic(types[i]) THEN Cells(offset(i)) ELSE EncodeStatic(types[i], values[i])])
       \o FlattenSeq(tails)

RECURSIVE Rendered(_, _)
\* What a reader of the transaction is to be shown for a value.
Rendered(type, value) ==
    CASE type.t \in {"string", "bytes"} -> <<<<type.t, value>>>>
      [] type.t \in {"array", "slice"} -> FlattenSeq([i \in DOMAIN value |-> Rendered(type.elem, value[i])])
      [] OTHER -> <<Static(type, value)>>

\* The two arrays of a TransferBatch, and the response of aggregate3.
BatchData(ids, values) == EncodeList(<<[t |-> "slice", elem |-> Basic("int")], [t |-> "slice", elem |-> Basic("int")]>>,
                                     <<ids, values>>)
EncodeResults(results) ==
    LET sizes == [i \in DOMAIN results |-> 3 * WordCells + paddedLen(Len(results[i].data))]
        tuple(r) == Cells(IF r.success THEN 1 ELSE 0) \o Cells(2 * WordCells) \o Cells(Len(r.data)) \o Padded(r.data)
    IN Cells(WordCells) \o Cells(Len(results)) \o HeadOffsets(sizes, Len(results) * WordCells)
       \o FlattenSeq([i \in DOMAIN results |-> tuple(results[i])])

\* The calls the contract reads from calldata by following its offsets.
CallsRead(data) ==
    LET heads == 2 * WordCells
        call(i) == LET start == heads + data[heads + i * WordCells]
                       bytes == start + data[start + 3 * WordCells]
                   IN [target |-> data[start + WordCells], allowFailure |-> data[start + 2 * WordCells] = 1,
                       payload |-> Bytes(data, bytes + WordCells, bytes + WordCells + data[bytes + WordCells])]
    IN [i \in 1..data[heads] |-> call(i)]

-----------------------------------------------------------------------------
(* The questions, and the requests that parse input data with the signatures of one cache entry. *)

AbiInit ==
    /\ asked = [kind |-> "none"]
    /\ parsedTypes = <<>>
    /\ parsing = [q \in InputRequests |-> [at |-> "idle", sig |-> 0, result |-> <<>>]]

AskLogs ==
    /\ asked.kind = "none"
    /\ \E logs \in LogLists : asked' = [kind |-> "logs", logs |-> logs]
    /\ UNCHANGED <<parsedTypes, parsing>>

AskPayload ==
    /\ asked.kind = "none"
    /\ \E tx \in Payloads : asked' = [kind |-> "payload", tx |-> tx]
    /\ UNCHANGED <<parsedTypes, parsing>>

\* The calls of an aggregate3, or its response, one cell of which the backend may have garbled, read for a number of calls.
AskAggregate ==
    /\ asked.kind = "none"
    /\ \/ \E calls \in CallLists : asked' = [kind |-> "calls", calls |-> calls]
       \/ \E results \in ResultLists :
             LET raw == EncodeResults(results)
             IN \E at \in 0..Len(raw), cell \in 0..Len(raw) + 1, expected \in 1..Len(results) + 1 :
                   asked' = [kind |-> "results", results |-> results, expected |-> expected,
                             raw |-> IF at = 0 THEN raw ELSE [raw EXCEPT ![at] = cell]]
    /\ UNCHANGED <<parsedTypes, parsing>>

\* Input data for the last of some signatures, which GetFourByteSignatures has put into the cache, unprepared.
AskInput ==
    /\ asked.kind = "none"
    /\ \E signatures \in SignatureLists :
          /\ LET types == signatures[Len(signatures)]
             IN \E values \in Arguments(types) :
                   asked' = [kind |-> "input", signatures |-> signatures, values |-> values,
                             data |-> EncodeList(types, values)]
          /\ parsedTypes' = [i \in DOMAIN signatures |-> [named |-> FALSE, types |-> <<>>]]
    /\ parsing' = [q \in InputRequests |-> [at |-> "look", sig |-> 1, result |-> <<>>]]

Signature(q) == asked.signatures[parsing[q].sig]

Goes(q, at) == parsing' = [parsing EXCEPT ![q].at = at]

\* A signature without a DecamelName gets one, then its types.
Prepare(q) ==
    LET i == parsing[q].sig
    IN \/ /\ parsing[q].at = "look" /\ parsedTypes[i].named
          /\ Goes(q, "try")
          /\ UNCHANGED parsedTypes
       \/ /\ parsing[q].at = "look" /\ ~parsedTypes[i].named
          /\ parsedTypes' = [parsedTypes EXCEPT ![i].named = TRUE]
          /\ Goes(q, "make")
       \/ /\ parsing[q].at = "make"
          /\ parsedTypes' = [parsedTypes EXCEPT ![i].types = [j \in DOMAIN Signature(q) |-> Basic("int")]]
          /\ Goes(q, "fill")
       \/ /\ parsing[q].at = "fill"
          /\ parsedTypes' = [parsedTypes EXCEPT ![i].types = Signature(q)]
          /\ Goes(q, "try")

\* tryParseParams of a signature; a panic over types not yet made is recovered and nothing is shown.
ParseInputData(q) ==
    LET i == parsing[q].sig
        types == parsedTypes[i].types
        shown == tryParseParams(asked.data, types)
    IN /\ parsing[q].at = "try"
       /\ parsing' = [parsing EXCEPT ![q] =
            IF Len(types) < Len(Signature(q)) THEN [@ EXCEPT !.at = "done"]
            ELSE IF shown # <<>> THEN [@ EXCEPT !.at = "done", !.result = <<i, shown[1]>>]
            ELSE IF i < Len(asked.signatures) THEN [@ EXCEPT !.at = "look", !.sig = i + 1]
            ELSE [@ EXCEPT !.at = "done"]]
       /\ UNCHANGED parsedTypes

AbiNext ==
    \/ AskLogs \/ AskPayload \/ AskAggregate \/ AskInput
    \/ asked.kind = "input" /\ UNCHANGED asked /\ \E q \in InputRequests : Prepare(q) \/ ParseInputData(q)

-----------------------------------------------------------------------------
(* Properties *)

\* A transfer is reported exactly as the contract emitted it, in the order of the logs, whatever malformed logs of other
\* contracts stand between them (comment of contractGetTransfersFromLog), and the payload of a transaction that has no
\* receipt yet shows the transfer it calls for.
TransfersExact ==
    /\ asked.kind = "logs" =>
         contractGetTransfersFromLog(asked.logs) =
             FlattenSeq([i \in DOMAIN asked.logs |->
                 IF asked.logs[i].address \in IgnoredContracts THEN <<>> ELSE asked.logs[i].means])
    /\ asked.kind = "payload" =>
         EthereumTypeGetTokenTransfersFromTx(asked.tx) =
             IF asked.tx.to \in IgnoredContracts THEN <<>> ELSE asked.tx.means

\* The contract reads from the calldata the calls that were meant; a response read for the right number of calls gives
\* its results back, and one with a garbled cell gives an error or results that are not larger than the response
\* (comment in decodeAggregate3Result); input data that follows the ABI is shown with the values it carries.
AbiReadsBack ==
    /\ asked.kind = "calls" => CallsRead(encodeAggregate3(asked.calls)) = asked.calls
    /\ asked.kind = "results" =>
         LET read == decodeAggregate3Result(asked.raw, asked.expected)
         IN /\ asked.raw = EncodeResults(asked.results) =>
                  read = IF asked.expected = Len(asked.results) THEN <<asked.results>> ELSE <<>>
            /\ read # <<>> =>
                  /\ Len(read[1]) = asked.expected
                  /\ Len(FlattenSeq([i \in DOMAIN read[1] |-> read[1][i].data])) <= Len(asked.raw)
    /\ asked.kind = "input" =>
         LET types == asked.signatures[Len(asked.signatures)]
         IN tryParseParams(asked.data, types) = <<[i \in DOMAIN types |-> Rendered(types[i], asked.values[i])]>>

\* Every request shows the first of the known signatures that the input data match, with the values it carries (comment
\* of ParseInputData), also while another request prepares the signatures of the same cache entry.
ShownIsSent ==
    \A q \in InputRequests :
        parsing[q].at = "done" =>
            LET first == CHOOSE i \in DOMAIN asked.signatures :
                             /\ tryParseParams(asked.data, asked.signatures[i]) # <<>>
                             /\ \A j \in 1..(i - 1) : tryParseParams(asked.data, asked.signatures[j]) = <<>>
            IN parsing[q].result = <<first, tryParseParams(asked.data, asked.signatures[first])[1]>>

-----------------------------------------------------------------------------
(***************************************************************************)
(* An EVM transaction as the backend gives it, as the transaction cache    *)
(* stores it and as it is read back (src/bchain/coins/eth/ethparser.go     *)
(* PackTx, UnpackTx, EthTxToTx), and the data and fee shown for it         *)
(* (GetEthereumTxDataFromSpecificData, src/api/worker.go).                 *)
(*                                                                         *)
(* A number is what its hexadecimal string says, NoNumber an empty string; *)
(* packed it is its bytes, none for zero.  Addresses and payloads are      *)
(* opaque, NoAddress being the empty string, "0x" what no bytes encode to. *)
(***************************************************************************)

CONSTANTS BackendTxs     \* the transactions asked about

VARIABLE storedTx        \* the transaction that is packed and read back

NoNumber == -1
NoAddress == ""
StatusUnknownByte == 85  \* 'U'

\* Amounts and numbers a transaction must have, and those a chain or a type of transaction may leave out.
TxNumbers == {"nonce", "blockNumber", "gasLimit", "gasPrice", "transactionIndex", "value"}
TxOptional == {"maxPriorityFeePerGas", "maxFeePerGas", "baseFeePerGas"}
ReceiptOptional == {"l1Fee", "l1GasPrice", "l1GasUsed", "effectiveGasPrice"}

hexDecodeBig(n) == IF n = 0 THEN <<>> ELSE <<n>>
hexEncodeBig(bytes) == IF bytes = <<>> THEN 0 ELSE bytes[1]

\* A string that is empty decodes to no bytes, which an address function turns into "0x".
hexDecode(s) == IF s \in {"", "0x"} THEN <<>> ELSE <<s>>
FromDesc(bytes) == IF bytes = <<>> THEN "0x" ELSE bytes[1]

Optional(n) == IF n = NoNumber THEN <<>> ELSE hexDecodeBig(n)
Restored(bytes) == IF bytes = <<>> THEN NoNumber ELSE hexEncodeBig(bytes)

\* A log of a receipt must have an address and data; <<>> is the error of PackTx.
PackTx(tx) ==
    LET r == tx.receipt[1]
        receipt == [gasUsed |-> hexDecodeBig(r.gasUsed),
                    status |-> IF r.status = NoNumber THEN <<StatusUnknownByte>> ELSE hexDecodeBig(r.status),
                    logs |-> r.logs, l1FeeScalar |-> r.l1FeeScalar,
                    optional |-> [f \in ReceiptOptional |-> Optional(r.optional[f])]]
    IN IF \/ \E f \in TxNumbers : tx.numbers[f] = NoNumber
          \/ tx.receipt # <<>> /\ (r.gasUsed = NoNumber \/ \E i \in DOMAIN r.logs : r.logs[i].data = "")
       THEN <<>>
       ELSE <<[numbers |-> [f \in TxNumbers |-> hexDecodeBig(tx.numbers[f])],
               optional |-> [f \in TxOptional |-> Optional(tx.optional[f])],
               from |-> hexDecode(tx.from), to |-> hexDecode(tx.to), payload |-> hexDecode(tx.payload),
               receipt |-> IF tx.receipt = <<>> THEN <<>> ELSE <<receipt>>, extra |-> tx.extra]>>

UnpackTx(pt) ==
    LET r == pt.receipt[1]
        receipt == [gasUsed |-> hexEncodeBig(r.gasUsed),
                    status |-> IF r.status = <<StatusUnknownByte>> THEN NoNumber ELSE hexEncodeBig(r.status),
                    logs |-> r.logs, l1FeeScalar |-> r.l1FeeScalar,
                    optional |-> [f \in ReceiptOptional |-> Restored(r.optional[f])]]
    IN [numbers |-> [f \in TxNumbers |-> hexEncodeBig(pt.numbers[f])],
        optional |-> [f \in TxOptional |-> Restored(pt.optional[f])],
        from |-> FromDesc(pt.from), to |-> FromDesc(pt.to), payload |-> FromDesc(pt.payload),
        receipt |-> IF pt.receipt = <<>> THEN <<>> ELSE <<receipt>>, extra |-> pt.extra, internal |-> <<>>]

\* A bug: the byte of an unknown status is read back as a number.

\* The inputs and outputs of the common transaction; internal data without a transfer or an error are left out.
EthTxToTx(tx) ==
    LET addresses(s) == IF s \in {"", "0x"} THEN <<>> ELSE <<s>>
        empty == tx.internal # <<>> /\ tx.internal[1] = [type |-> "CALL", transfers |-> <<>>, error |-> ""]
    IN [vin |-> addresses(tx.from), vout |-> addresses(tx.to), valueSat |-> tx.numbers.value,
        internal |-> IF empty THEN <<>> ELSE tx.internal]

GetEthereumTxDataFromSpecificData(tx) ==
    LET r == tx.receipt[1]
    IN [nonce |-> tx.numbers.nonce, gasLimit |-> tx.numbers.gasLimit, gasPrice |-> tx.numbers.gasPrice,
        fees |-> tx.optional,
        status |-> IF tx.receipt = <<>> THEN "pending"
                   ELSE CASE r.status = 1 -> "ok" [] r.status = NoNumber -> "unknown" [] OTHER -> "failure",
        gasUsed |-> IF tx.receipt = <<>> THEN NoNumber ELSE r.gasUsed,
        receiptFees |-> IF tx.receipt = <<>> THEN [f \in ReceiptOptional |-> NoNumber] ELSE r.optional,
        l1FeeScalar |-> IF tx.receipt = <<>> THEN "" ELSE r.l1FeeScalar]

\* The effective price is what was charged, where the chain reports one; a rollup's data fee comes on top.
getEthereumFeesSat(data) ==
    LET price == IF data.receiptFees.effectiveGasPrice > 0 THEN data.receiptFees.effectiveGasPrice ELSE data.gasPrice
    IN IF data.gasUsed = NoNumber THEN 0
       ELSE price * data.gasUsed + (IF data.receiptFees.l1Fee = NoNumber THEN 0 ELSE data.receiptFees.l1Fee)

TxFormsInit == storedTx = <<>>

StoreAndRead == storedTx = <<>> /\ \E tx \in BackendTxs : storedTx' = <<tx>>

-----------------------------------------------------------------------------
(* Property *)

\* A transaction that was put into the cache is shown as one the backend has just returned: the same parties, value,
\* status, logs, fee and amounts, whichever fields the chain leaves out; only an optional amount of zero is missing.
\* Internal data are not packed: they come from a table of their own (comment of PackTx).
CachedTxSame ==
    storedTx # <<>> =>
        LET tx == storedTx[1]
            packed == PackTx(tx)
            read == UnpackTx(packed[1])
            was == GetEthereumTxDataFromSpecificData(tx)
            is == GetEthereumTxDataFromSpecificData(read)
            same(a, b) == DOMAIN a = DOMAIN b /\ \A f \in DOMAIN a : b[f] = IF a[f] = 0 THEN NoNumber ELSE a[f]
        IN packed # <<>> =>
             /\ [EthTxToTx(tx) EXCEPT !.internal = <<>>] = EthTxToTx(read)
             /\ read.numbers = tx.numbers /\ read.extra = tx.extra
             /\ tx.receipt # <<>> => read.receipt[1].logs = tx.receipt[1].logs
             /\ [was EXCEPT !.fees = 0, !.receiptFees = 0] = [is EXCEPT !.fees = 0, !.receiptFees = 0]
             /\ same(was.fees, is.fees) /\ same(was.receiptFees, is.receiptFees)
             /\ getEthereumFeesSat(was) = getEthereumFeesSat(is)
=============================================================================
