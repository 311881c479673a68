------------------------------ MODULE EthCalls ------------------------------
(***************************************************************************)
(* The batched reads of an EVM backend: ERC-20 balances and contract       *)
(* metadata of many contracts in one request (src/bchain/coins/eth/        *)
(* contract.go), the gate that finds out whether the chain has Multicall3  *)
(* (multicall.go) and the recovery of a mined transaction the backend no   *)
(* longer finds by its hash (ethrpc.go).                                   *)
(*                                                                         *)
(* A contract is described by what its calls yield; every request to the   *)
(* backend may fail, at most CallFaults times in a behaviour.  An          *)
(* aggregate3 call may run out of gas: from some slot on every sub-call    *)
(* then fails with no data.  Metrics and logging are left out.             *)
(***************************************************************************)
EXTENDS Integers, Sequences, FiniteSets, SequencesExt

CONSTANTS
    Callers,        \* concurrent requests
    Asks,           \* the sets of requests made: [Callers -> requests]
    ContractData,   \* contract -> [valid, name, symbol, decimals, balance]
    Chains,         \* configurations: [maxCalls (multicall3MaxCalls), code (Multicall3 is deployed)]
    BatchSize,      \* erc20BatchSize
    ProbeFailures,  \* multicall3MaxProbeFailures
    CallFaults,     \* bound on failed backend requests
    Again           \* bound on repeated requests of a caller

VARIABLES
    chain,    \* the configuration
    wants,    \* what each caller asks for
    gate,     \* multicall3: [state, failures, suspended, flight]; flight: callers in the singleflight
    caller,   \* progress of each request
    callFaults

evars == <<chain, wants, gate, caller, callFaults>>

\* What a call yields: a value, data that does not parse, a revert with a reason or one without.
Bare == [fails |-> TRUE, empty |-> TRUE]
Reason == [fails |-> TRUE, empty |-> FALSE]
Unparsed == [fails |-> FALSE, value |-> <<>>]
Yields(v) == [fails |-> FALSE, value |-> <<v>>]
None == <<>>

DefaultDecimals == 18

Size(r) == Len(wants[r].list)
DataOf(r, i) == ContractData[wants[r].list[i]]
ValidOnes(r) == SelectSeq([i \in 1..Size(r) |-> i], LAMBDA i : DataOf(r, i).valid)

\* An independent eth_call on a contract; a malformed address is refused by the backend for good.
Single(r, i, field) == IF DataOf(r, i).valid THEN DataOf(r, i)[field] ELSE Reason

\* parseSimpleNumericProperty and parseSimpleStringProperty of a successful call.
parsed(c) == IF c.fails THEN None ELSE c.value

emptyAggregate3Failure(c) == c.fails /\ c.empty

Idle == [at |-> "idle", from |-> 1, found |-> <<>>, holes |-> <<>>, gaveUp |-> {}, asked |-> 0]

CallsInit ==
    /\ chain \in Chains
    /\ wants \in Asks
    /\ gate = [state |-> "unprobed", failures |-> 0, suspended |-> FALSE, flight |-> {}]
    /\ caller = [r \in Callers |-> Idle]
    /\ callFaults = 0

Fault == callFaults < CallFaults /\ callFaults' = callFaults + 1
Fine == UNCHANGED callFaults

-----------------------------------------------------------------------------
(* The gate. *)

\* What a request does once it knows whether Multicall3 may be used.
AfterProbe(r, deployed) ==
    LET k == caller[r] IN
    IF deployed THEN
        [k EXCEPT !.at = "aggregate",
                  !.holes = IF wants[r].what = "infos"
                            THEN SelectSeq([i \in 1..Size(r) |-> i], LAMBDA i : ~DataOf(r, i).valid)
                            ELSE <<>>]
    ELSE [k EXCEPT !.at = "independent", !.holes = [i \in 1..Size(r) |-> i]]

\* probeMulticall3 up to the singleflight: a settled state or a suspended gate answers at once, others join.
probeMulticall3(r) ==
    /\ caller[r].at = "asked"
    /\ wants[r].what # "tx"
    /\ IF gate.state # "unprobed" \/ gate.suspended
       THEN /\ caller' = [caller EXCEPT ![r] = AfterProbe(r, gate.state = "deployed")]
            /\ UNCHANGED gate
       ELSE /\ gate' = [gate EXCEPT !.flight = @ \union {r}]
            /\ caller' = [caller EXCEPT ![r].at = "probing"]
    /\ Fine

\* A probe that fails is counted; the last of ProbeFailures suspends probing and forgets the count.
ProbeFailed(g) ==
    IF g.failures + 1 >= ProbeFailures
    THEN [g EXCEPT !.failures = 0, !.suspended = TRUE, !.flight = {}]
    ELSE [g EXCEPT !.failures = @ + 1, !.flight = {}]

\* The single eth_getCode in flight ends and answers everyone who waits for it.
ProbeEnds ==
    /\ gate.flight # {}
    /\ \/ /\ Fault
          /\ gate' = ProbeFailed(gate)
       \/ /\ Fine
          /\ gate' = [gate EXCEPT !.state = IF chain.code THEN "deployed" ELSE "notDeployed", !.flight = {}]
    /\ caller' = [r \in Callers |->
                     IF r \in gate.flight THEN AfterProbe(r, gate'.state = "deployed") ELSE caller[r]]

\* multicall3ProbeSuspendInterval passes.
SuspensionEnds ==
    /\ gate.suspended
    /\ gate' = [gate EXCEPT !.suspended = FALSE]
    /\ UNCHANGED <<caller, callFaults>>

-----------------------------------------------------------------------------
(* aggregate3. *)

\* Slot n of a chunk that runs out of gas at slot k.
Slot(n, k, c) == IF n >= k THEN Bare ELSE c

ChunkOf(r, size) ==
    LET v == ValidOnes(r) from == caller[r].from
        to == IF from + size - 1 > Len(v) THEN Len(v) ELSE from + size - 1
    IN SubSeq(v, from, to)

Rest(r) == LET v == ValidOnes(r) IN SubSeq(v, caller[r].from, Len(v))

\* The holes are settled next; with none the request is done.
Holes(k, more) ==
    LET holes == k.holes \o more
    IN [k EXCEPT !.holes = holes, !.from = 1, !.at = IF holes = <<>> THEN "done" ELSE "independent"]

\* Progress after a chunk: the next one, or the holes.
NextChunk(r, k, chunk, more) ==
    IF k.from + Len(chunk) <= Len(ValidOnes(r))
    THEN [k EXCEPT !.from = @ + Len(chunk), !.holes = @ \o more]
    ELSE Holes(k, more)

\* What one chunk of balances leaves: once its last slot failed without data, so may the earlier ones have.
erc20BalancesMulticall3(r, k, chunk, gas) ==
    LET slot(j) == Slot(j, gas, Single(r, chunk[j], "balance"))
        tailStarved == emptyAggregate3Failure(slot(Len(chunk)))
        hole(j) == tailStarved /\ emptyAggregate3Failure(slot(j))
        starved == SelectSeq([j \in 1..Len(chunk) |-> j], hole)
    IN NextChunk(r, [k EXCEPT !.found = [i \in 1..Size(r) |->
                        IF \E j \in 1..Len(chunk) : chunk[j] = i
                        THEN parsed(slot(CHOOSE j \in 1..Len(chunk) : chunk[j] = i)) ELSE @[i]]],
                 chunk, [n \in 1..Len(starved) |-> chunk[starved[n]]])

\* contractInfoFromAggregate3: no name or no symbol is no token; decimals are optional.
contractInfoFromAggregate3(name, symbol, decimals) ==
    IF parsed(name) \in {None, <<"">>} \/ symbol.fails THEN None
    ELSE <<[name |-> parsed(name)[1], symbol |-> parsed(symbol),
            decimals |-> IF parsed(decimals) = None THEN DefaultDecimals ELSE parsed(decimals)[1]]>>

\* One chunk of metadata: three slots a contract and the canary; a starved chunk leaves its empty failures open.
contractInfosMulticall3(r, k, chunk, gas) ==
    LET slot(j, n, field) == Slot(3 * (j - 1) + n, gas, Single(r, chunk[j], field))
        gasStarved == 3 * Len(chunk) + 1 >= gas
        hole(j) == gasStarved /\ (emptyAggregate3Failure(slot(j, 1, "name")) \/ emptyAggregate3Failure(slot(j, 2, "symbol")))
        info(j) == contractInfoFromAggregate3(slot(j, 1, "name"), slot(j, 2, "symbol"), slot(j, 3, "decimals"))
        starved == SelectSeq([j \in 1..Len(chunk) |-> j], hole)
    IN NextChunk(r, [k EXCEPT !.found = [i \in 1..Size(r) |->
                        IF \E j \in 1..Len(chunk) : chunk[j] = i /\ ~hole(j)
                        THEN info(CHOOSE j \in 1..Len(chunk) : chunk[j] = i) ELSE @[i]]],
                 chunk, [n \in 1..Len(starved) |-> chunk[starved[n]]])

\* The canary takes a slot of its own.
perChunk == IF (chain.maxCalls - 1) \div 3 < 1 THEN 1 ELSE (chain.maxCalls - 1) \div 3

\* One aggregate3 call, run to its end or out of gas; a failed one leaves the rest to independent calls.
Aggregate(r) ==
    /\ caller[r].at = "aggregate"
    /\ LET k == caller[r] infos == wants[r].what = "infos"
           chunk == ChunkOf(r, IF infos THEN perChunk ELSE chain.maxCalls)
           slots == IF infos THEN 3 * Len(chunk) + 1 ELSE Len(chunk)
       IN IF chunk = <<>> THEN caller' = [caller EXCEPT ![r] = Holes(k, <<>>)] /\ Fine
          ELSE \/ Fault /\ caller' = [caller EXCEPT ![r] = Holes(k, Rest(r))]
               \/ /\ Fine
                  /\ \E gas \in 1..(slots + 1) :
                        caller' = [caller EXCEPT ![r] = IF infos THEN contractInfosMulticall3(r, k, chunk, gas)
                                                        ELSE erc20BalancesMulticall3(r, k, chunk, gas)]
    /\ UNCHANGED gate

-----------------------------------------------------------------------------
(* Independent calls. *)

BatchOf(k) == SubSeq(k.holes, k.from, IF k.from + BatchSize - 1 > Len(k.holes) THEN Len(k.holes) ELSE k.from + BatchSize - 1)

\* Every hole of the batch but the ones in lost is answered by its own call.
Settle(r, k, batch, lost, answer(_)) ==
    LET n == k.from + Len(batch)
        done(i) == \E j \in 1..Len(batch) : batch[j] = i
    IN [k EXCEPT !.found = [i \in 1..Size(r) |-> IF ~done(i) THEN @[i] ELSE IF i \in lost THEN None ELSE answer(i)],
                 !.gaveUp = @ \union lost, !.from = n, !.at = IF n > Len(k.holes) THEN "done" ELSE @]

\* erc20BalancesBatchAtBlock: reverted elements stay nil, the others that failed - all of them when the batch
\* itself did - are called once more on their own; lost are those whose second call fails too.
erc20BalancesBatchAtBlock(r) ==
    /\ caller[r].at = "independent"
    /\ wants[r].what = "balances"
    /\ LET k == caller[r] batch == BatchOf(k)
           answer(i) == parsed(Single(r, i, "balance"))
       IN \/ Fine /\ caller' = [caller EXCEPT ![r] = Settle(r, k, batch, {}, answer)]
          \/ /\ Fault
             /\ \E lost \in SUBSET ToSet(batch) :
                   /\ callFaults + Cardinality(lost) < CallFaults
                   /\ caller' = [caller EXCEPT ![r] = Settle(r, k, batch, lost, answer)]
    /\ UNCHANGED gate

\* fetchContractInfo: name() and symbol() settle the verdict, a call that fails for another reason than a
\* revert is an error of the contract; an unreadable decimals() is the default.
fetchContractInfo(r, i) ==
    contractInfoFromAggregate3(Single(r, i, "name"), Single(r, i, "symbol"), Single(r, i, "decimals"))

\* contractInfoSequential for the next hole.
contractInfoSequential(r) ==
    /\ caller[r].at = "independent"
    /\ wants[r].what = "infos"
    /\ LET k == caller[r] i == k.holes[k.from]
           answer(j) == fetchContractInfo(r, j)
       IN \/ Fine /\ caller' = [caller EXCEPT ![r] = Settle(r, k, <<i>>, {}, answer)]
          \/ Fault /\ caller' = [caller EXCEPT ![r] = Settle(r, k, <<i>>, {i}, answer)]
    /\ UNCHANGED gate

-----------------------------------------------------------------------------
(* GetTransaction of a transaction the backend may have pruned from its    *)
(* index of hashes.  wants[r].tx says what the backend still serves:       *)
(* hash, receipt, position (its lookup by block and index finds the        *)
(* transaction) and body.                                                  *)

Known(r) == wants[r].tx
TxIs(r, v) == caller' = [caller EXCEPT ![r].at = "done", ![r].found = v]

\* eth_getTransactionByHash: an error ends the request, null starts the recovery.
GetTransaction(r) ==
    /\ caller[r].at = "asked"
    /\ wants[r].what = "tx"
    /\ \/ Fault /\ caller' = [caller EXCEPT ![r].at = "done", ![r].gaveUp = {"hash"}]
       \/ /\ Fine
          /\ IF Known(r).hash THEN TxIs(r, <<"tx">>) ELSE caller' = [caller EXCEPT ![r].at = "receipt"]
    /\ UNCHANGED gate

\* recoverMinedTransaction: no receipt is a transaction nobody mined.
recoverReceipt(r) ==
    /\ caller[r].at = "receipt"
    /\ \/ Fault /\ caller' = [caller EXCEPT ![r].at = "done", ![r].gaveUp = {"receipt"}]
       \/ Fine /\ IF Known(r).receipt THEN caller' = [caller EXCEPT ![r].at = "position"] ELSE TxIs(r, None)
    /\ UNCHANGED gate

\* The lookup by position: an error, nothing or another transaction leads to the block body.
recoverPosition(r) ==
    /\ caller[r].at = "position"
    /\ \/ Fault /\ caller' = [caller EXCEPT ![r].at = "body"]
       \/ Fine /\ IF Known(r).position = "tx" THEN TxIs(r, <<"tx">>) ELSE caller' = [caller EXCEPT ![r].at = "body"]
    /\ UNCHANGED gate

txFromBlockBody(r) ==
    /\ caller[r].at = "body"
    /\ \/ Fault /\ caller' = [caller EXCEPT ![r].at = "done", ![r].gaveUp = {"body"}]
       \/ Fine /\ TxIs(r, IF Known(r).body THEN <<"tx">> ELSE None)
    /\ UNCHANGED gate

-----------------------------------------------------------------------------
\* A request arrives, or is repeated after its answer.
CallBegins(r) ==
    /\ caller[r].at \in {"idle", "done"}
    /\ caller[r].asked <= Again
    /\ caller' = [caller EXCEPT ![r] = [Idle EXCEPT !.at = "asked", !.asked = caller[r].asked + 1,
                     !.found = IF wants[r].what = "tx" THEN None ELSE [i \in 1..Size(r) |-> None]]]
    /\ UNCHANGED <<gate, callFaults>>

CallStep(r) ==
    \/ probeMulticall3(r) \/ Aggregate(r) \/ erc20BalancesBatchAtBlock(r) \/ contractInfoSequential(r)
    \/ GetTransaction(r) \/ recoverReceipt(r) \/ recoverPosition(r) \/ txFromBlockBody(r)

CallsNext ==
    /\ (\E r \in Callers : CallBegins(r) \/ CallStep(r)) \/ ProbeEnds \/ SuspensionEnds
    /\ UNCHANGED <<chain, wants>>

-----------------------------------------------------------------------------
(* Properties *)

\* A metadata verdict without its decimals, which a starved chunk may have defaulted.
Verdict(v) == IF v = None THEN None ELSE <<v[1].name, v[1].symbol>>

\* Each entry of a batched answer is, in input order, what a single call on that contract would have yielded,
\* whatever the chunking, an aggregate that failed or ran out of gas, and the retries: nil stands for no balance
\* and no token, and for a failed request only where the contract's own last call failed (callers of
\* EthereumTypeGetErc20ContractBalancesAtBlock treat nil as authoritative, those of EthereumTypeGetContractInfos
\* go on to cache the verdict). A mined transaction is found unless the last lookup left failed.
BatchedLikeSingle ==
    \A r \in Callers : caller[r].at = "done" =>
        CASE wants[r].what = "balances" ->
                 \A i \in 1..Size(r) :
                     caller[r].found[i] = IF i \in caller[r].gaveUp THEN None ELSE parsed(Single(r, i, "balance"))
          [] wants[r].what = "infos" ->
                 \A i \in 1..Size(r) :
                     Verdict(caller[r].found[i]) =
                         IF i \in caller[r].gaveUp THEN None ELSE Verdict(fetchContractInfo(r, i))
          [] wants[r].what = "tx" ->
                 caller[r].found = IF caller[r].gaveUp = {} /\ (Known(r).hash \/ (Known(r).receipt /\ Known(r).body))
                                   THEN <<"tx">> ELSE None
=============================================================================
