--------------------------- MODULE ContractCaches ---------------------------
(***************************************************************************)
(* What the server remembers about token contracts, and how long.          *)
(*                                                                         *)
(* A contract is an ERC-4626 vault when asset() and totalAssets() answer   *)
(* at a given block.  The answer is persisted in cfErcProtocols anchored   *)
(* to the block it was observed at (db/rocksdb_protocols.go), merged into  *)
(* the contract record that db/contract_info_cache.go keeps in memory, and *)
(* kept negatively and live in api/probe_cache.go and                      *)
(* api/erc4626_live_cache.go.  Requests of the API race with each other,   *)
(* with the writer that connects and disconnects blocks, and with a        *)
(* backend that changes branch before the index does.                      *)
(*                                                                         *)
(* Metadata (name, symbol, decimals) is abstracted away: a contract row is *)
(* there or not, a record says vault or not, and whether a stored record   *)
(* asks for a refresh from the chain is a choice.                          *)
(***************************************************************************)
EXTENDS Naturals, Sequences, FiniteSets, TLC

CONSTANTS
    VaultContracts,     \* contracts requests ask about
    VaultRequests, \* concurrent API requests
    Branches,      \* branches of the chain, one model value each
    Upgrades,      \* <<contract, branch, height>>: becomes a vault there
    Creations,     \* <<contract, branch, height>>: sync stores the contract
    MaxNodeHeight,     \* bound on the height of the backend
    ProbeTTL,      \* negativeProbeTTLBlocks
    CachedMax,     \* cachedContractsLRUMaxSize
    FirstChain,    \* the chain both sides hold at the start
    Plans          \* what each request asks for, and whether the records it meets
                   \* were stored unfinished

VARIABLES
    node,          \* the backend's chain: branch of each block
    abandoned,     \* branches the backend has left
    indexed,       \* the index's chain (cfHeight)
    contractRows,  \* cfContracts
    vaultRows,     \* cfErcProtocols by contract: the height of each row
    heightRows,    \* cfErcProtocols by height
    gens,          \* reorgGen and protocolGen
    cached,        \* cachedContracts
    negatives,     \* erc4626NegativeProbeCache
    live,          \* erc4626LiveCache
    noTokens,      \* contractProbeCache
    blockMux,      \* holder of connectBlockMux
    writer,        \* progress of the sync writer
    request        \* the API requests

vaultVars == <<node, abandoned, indexed, contractRows, vaultRows, heightRows,
               gens, cached, negatives, live, noTokens, blockMux, writer, request>>
chainVars == <<node, abandoned>>
dbVars == <<indexed, contractRows, vaultRows, heightRows>>
apiCaches == <<negatives, live, noTokens>>

Nobody == "nobody"
Writer == "writer"

\* asset() and totalAssets() answer on this chain at this height.
Vault(c, chain, h) == \E i \in 1..h : <<c, chain[i], i>> \in Upgrades

-----------------------------------------------------------------------------
(* The LRU lists, newest entry first.                                      *)

LruHas(l, k) == \E i \in DOMAIN l : l[i].key = k
LruValue(l, k) == l[CHOOSE i \in DOMAIN l : l[i].key = k].value
LruRemove(l, k) == SelectSeq(l, LAMBDA e : e.key # k)
LruAdd(l, k, v, capacity) ==
    LET n == <<[key |-> k, value |-> v]>> \o LruRemove(l, k)
    IN SubSeq(n, 1, IF Len(n) > capacity THEN capacity ELSE Len(n))
LruTouch(l, k) == <<[key |-> k, value |-> LruValue(l, k)]>> \o LruRemove(l, k)

\* contractInfoLRU.get hits only under the generations of the caller.
contractGet(k, g) == LruHas(cached, k) /\ LruValue(cached, k).gens = g
\* negativeProbeCache.contains hits at a known height, in the same generation and
\* before the entry expires.
contains(l, k, h, g) ==
    /\ h # 0
    /\ LruHas(l, k)
    /\ LruValue(l, k).reorg = g
    /\ h <= LruValue(l, k).expireAt
\* contains drops the entry that no longer holds.
Consulted(l, k, h, g) ==
    IF h = 0 \/ ~LruHas(l, k) THEN l
    ELSE IF contains(l, k, h, g) THEN LruTouch(l, k) ELSE LruRemove(l, k)
addNegative(l, k, h, g) ==
    IF h = 0 \/ ProbeTTL = 0 THEN l
    ELSE LruAdd(l, k, [expireAt |-> h + ProbeTTL, reorg |-> g], CachedMax)

-----------------------------------------------------------------------------
(* The backend.  A branch it has left never comes back.                    *)

ChainTip(chain) == IF chain = <<>> THEN Nobody ELSE chain[Len(chain)]

NodeMines ==
    /\ Len(node) < MaxNodeHeight
    /\ \E b \in Branches \ abandoned :
          /\ node # <<>> => b = ChainTip(node)
          /\ node' = Append(node, b)
    /\ UNCHANGED <<abandoned, dbVars, gens, cached, apiCaches, blockMux, writer, request>>

\* Blocks from height h on are replaced by as many of another branch.
NodeReorganises ==
    /\ \E h \in 1..Len(node), b \in Branches \ (abandoned \cup {ChainTip(node)}) :
          /\ node' = [i \in DOMAIN node |-> IF i < h THEN node[i] ELSE b]
          /\ abandoned' = abandoned \cup {node[i] : i \in h..Len(node)}
    /\ UNCHANGED <<dbVars, gens, cached, apiCaches, blockMux, writer, request>>

-----------------------------------------------------------------------------
(* The sync writer, under connectBlockMux.                                 *)

Agrees(h) == h <= Len(node) /\ SubSeq(indexed, 1, h) = SubSeq(node, 1, h)
ForkPoint == CHOOSE h \in 0..Len(indexed) :
                Agrees(h) /\ \A k \in 0..Len(indexed) : Agrees(k) => k <= h

\* storeContractInfo for the contracts of the block: rows go to the batch, the cache
\* entries are dropped at once.
ConnectBlock ==
    /\ writer = [at |-> "idle"]
    /\ blockMux = Nobody
    /\ Agrees(Len(indexed)) /\ Len(indexed) < Len(node)
    /\ LET h == Len(indexed) + 1
           made == {c \in VaultContracts : <<c, node[h], h>> \in Creations}
       IN /\ writer' = [at |-> "connect", block |-> node[h], made |-> made]
          /\ cached' = SelectSeq(cached, LAMBDA e : e.key \notin made)
    /\ blockMux' = Writer
    /\ UNCHANGED <<chainVars, dbVars, gens, apiCaches, request>>

ConnectCommit ==
    /\ writer.at = "connect"
    /\ indexed' = Append(indexed, writer.block)
    /\ contractRows' = contractRows \cup writer.made
    /\ writer' = [at |-> "idle"]
    /\ blockMux' = Nobody
    /\ UNCHANGED <<chainVars, vaultRows, heightRows, gens, cached, apiCaches, request>>

\* Mutant: the lowest height of the range is left out.
MutdisconnectErcProtocols(lower, higher) == {r \in heightRows : r[1] \in (lower + 1)..higher}

\* The protocol rows whose height is in the disconnected range.
disconnectErcProtocols(lower, higher) == {r \in heightRows : r[1] \in lower..higher}

\* The batch is prepared: protocol rows found by height, their cache entries dropped.
DisconnectBlockRangeEthereumType ==
    /\ writer = [at |-> "idle"]
    /\ blockMux = Nobody
    /\ ~Agrees(Len(indexed))
    /\ LET gone == disconnectErcProtocols(ForkPoint + 1, Len(indexed))
       IN /\ writer' = [at |-> "disconnect", to |-> ForkPoint, gone |-> gone]
          /\ cached' = SelectSeq(cached, LAMBDA e : \A r \in gone : r[2] # e.key)
    /\ blockMux' = Writer
    /\ UNCHANGED <<chainVars, dbVars, gens, apiCaches, request>>

DisconnectCommit ==
    /\ writer.at = "disconnect"
    /\ LET rolledBack == {c \in VaultContracts :
               \E h \in (writer.to + 1)..Len(indexed) : <<c, indexed[h], h>> \in Creations}
           gone == {r[2] : r \in writer.gone}
       IN /\ contractRows' = contractRows \ rolledBack
          /\ vaultRows' = [c \in (DOMAIN vaultRows) \ gone |-> vaultRows[c]]
    /\ heightRows' = heightRows \ writer.gone
    /\ indexed' = SubSeq(indexed, 1, writer.to)
    /\ writer' = [at |-> "bump"]
    /\ UNCHANGED <<chainVars, gens, cached, apiCaches, blockMux, request>>

DisconnectBump ==
    /\ writer.at = "bump"
    /\ gens' = [gens EXCEPT !.reorg = @ + 1]
    /\ writer' = [at |-> "idle"]
    /\ blockMux' = Nobody
    /\ UNCHANGED <<chainVars, dbVars, cached, apiCaches, request>>

SyncWriter == \/ ConnectBlock \/ ConnectCommit
              \/ DisconnectBlockRangeEthereumType \/ DisconnectCommit \/ DisconnectBump

-----------------------------------------------------------------------------
(* API requests.  A request reads the records of its contracts one by one. *)

NoRequest == [kind |-> "none", at |-> "done", left |-> <<>>, c |-> Nobody, best |-> 0,
              hash |-> Nobody, reorg |-> 0, sampled |-> [reorg |-> 0, protocol |-> 0],
              raw |-> FALSE, vault |-> FALSE, known |-> FALSE, cands |-> {}, verdict |-> {}]

\* enrichTokenProtocols reads the best block first; GetContractInfoData the record.
Opened(plan) ==
    [NoRequest EXCEPT !.kind = plan.kind, !.c = Head(plan.contracts), !.left = Tail(plan.contracts),
                      !.raw = plan.raw, !.at = [tokens |-> "best", info |-> "sample", purge |-> "purge",
                                                none |-> "done"][plan.kind]]

VaultInit ==
    /\ node = FirstChain /\ abandoned = {} /\ indexed = FirstChain
    /\ contractRows = {c \in VaultContracts : \E h \in DOMAIN FirstChain : <<c, FirstChain[h], h>> \in Creations}
    /\ vaultRows = <<>> /\ heightRows = {}
    /\ gens = [reorg |-> 0, protocol |-> 0]
    /\ cached = <<>> /\ negatives = <<>> /\ live = <<>> /\ noTokens = <<>>
    /\ blockMux = Nobody /\ writer = [at |-> "idle"]
    /\ \E p \in Plans : request = [r \in VaultRequests |-> Opened(p[r])]

Proceeds(r, fields) == request' = [request EXCEPT ![r] = fields @@ @]
At(r, place) == request[r].at = place

GetBestBlock(r) ==
    /\ At(r, "best")
    /\ Proceeds(r, [at |-> "gen", best |-> Len(indexed), hash |-> ChainTip(indexed)])
    /\ UNCHANGED <<chainVars, dbVars, gens, cached, apiCaches, blockMux, writer>>

ReorgGeneration(r) ==
    /\ At(r, "gen")
    /\ Proceeds(r, [at |-> IF request[r].kind = "tokens" THEN "sample" ELSE "lookup", reorg |-> gens.reorg])
    /\ UNCHANGED <<chainVars, dbVars, gens, cached, apiCaches, blockMux, writer>>

\* A record stored unhandled or with zeroed strings is refreshed from the chain and
\* stored again.
Refreshed(r) == IF request[r].raw THEN "store" ELSE "have"

\* GetContractInfo of the database: both generations are sampled before any read.
GetContractInfo(r) ==
    LET c == request[r].c IN
    /\ At(r, "sample")
    /\ IF contractGet(c, gens)
       THEN /\ Proceeds(r, [at |-> Refreshed(r), vault |-> LruValue(cached, c).vault, known |-> TRUE])
            /\ cached' = LruTouch(cached, c)
       ELSE /\ Proceeds(r, [at |-> "row", sampled |-> gens])
            /\ cached' = LruRemove(cached, c)
    /\ UNCHANGED <<chainVars, dbVars, gens, apiCaches, blockMux, writer>>

\* A stored record of unknown standard may be promoted by a direct put.
ReadRow(r) ==
    /\ At(r, "row")
    /\ IF request[r].c \in contractRows
       THEN Proceeds(r, [at |-> IF request[r].raw THEN "promote" ELSE "merge"])
       ELSE Proceeds(r, [at |-> "unknown"])
    /\ UNCHANGED <<chainVars, dbVars, gens, cached, apiCaches, blockMux, writer>>

PromoteStandard(r) ==
    /\ At(r, "promote")
    /\ contractRows' = contractRows \cup {request[r].c}
    /\ Proceeds(r, [at |-> "merge"])
    /\ UNCHANGED <<chainVars, indexed, vaultRows, heightRows, gens, cached, apiCaches, blockMux, writer>>

GetContractInfoErc4626Vault(r) ==
    /\ At(r, "merge")
    /\ Proceeds(r, [at |-> "add", vault |-> request[r].c \in DOMAIN vaultRows, known |-> TRUE])
    /\ UNCHANGED <<chainVars, dbVars, gens, cached, apiCaches, blockMux, writer>>

AddCached(r) ==
    /\ At(r, "add")
    /\ cached' = LruAdd(cached, request[r].c,
                        [vault |-> request[r].vault, gens |-> request[r].sampled], CachedMax)
    /\ Proceeds(r, [at |-> Refreshed(r)])
    /\ UNCHANGED <<chainVars, dbVars, gens, apiCaches, blockMux, writer>>

\* getProbedContractDescriptorInfo: the index has no record.
ProbeUnknown(r) ==
    LET c == request[r].c  h == Len(indexed) IN
    /\ At(r, "unknown")
    /\ noTokens' = Consulted(noTokens, c, h, gens.reorg)
    /\ IF contains(noTokens, c, h, gens.reorg)
       THEN Proceeds(r, [at |-> "have", vault |-> FALSE, known |-> FALSE])
       ELSE Proceeds(r, [at |-> "resolve", sampled |-> [height |-> h, reorg |-> gens.reorg]])
    /\ UNCHANGED <<chainVars, dbVars, gens, cached, negatives, live, blockMux, writer>>

\* The chain is asked; a failed read says nothing and is not remembered.
ResolveContractInfo(r) ==
    LET c == request[r].c
        exists == \/ \A x \in Creations : x[1] # c
                  \/ \E h \in DOMAIN node : <<c, node[h], h>> \in Creations
        unknown == [at |-> "have", vault |-> FALSE, known |-> FALSE]
    IN /\ At(r, "resolve")
       /\ \/ Proceeds(r, unknown) /\ UNCHANGED noTokens
          \/ /\ ~exists
             /\ Proceeds(r, unknown)
             /\ noTokens' = addNegative(noTokens, c, request[r].sampled.height, request[r].sampled.reorg)
          \/ /\ exists
             /\ Proceeds(r, [at |-> "store", vault |-> FALSE, known |-> TRUE])
             /\ UNCHANGED noTokens
       /\ UNCHANGED <<chainVars, dbVars, gens, cached, negatives, live, blockMux, writer>>

\* StoreContractInfo drops the cache entry while it fills the batch, then commits.
StoreContractInfo(r) ==
    /\ At(r, "store")
    /\ cached' = LruRemove(cached, request[r].c)
    /\ Proceeds(r, [at |-> "commit"])
    /\ UNCHANGED <<chainVars, dbVars, gens, apiCaches, blockMux, writer>>

StoreCommit(r) ==
    /\ At(r, "commit")
    /\ contractRows' = contractRows \cup {request[r].c}
    /\ Proceeds(r, [at |-> "have"])
    /\ UNCHANGED <<chainVars, indexed, vaultRows, heightRows, gens, cached, apiCaches, blockMux, writer>>

-----------------------------------------------------------------------------
(* The list of tokens of an account: candidates are probed in one call.    *)

EnrichToken(r) ==
    LET q == request[r]
        c == q.c
        skip == q.vault \/ contains(negatives, c, q.best, q.reorg)
        cands == IF skip THEN q.cands ELSE q.cands \cup {c}
    IN /\ At(r, "have") /\ q.kind = "tokens"
       /\ negatives' = IF q.vault THEN LruRemove(negatives, c)
                       ELSE Consulted(negatives, c, q.best, q.reorg)
       /\ IF q.left # <<>>
          THEN Proceeds(r, [at |-> "sample", c |-> Head(q.left), left |-> Tail(q.left), cands |-> cands])
          ELSE Proceeds(r, [at |-> IF cands = {} THEN "done" ELSE "probe", cands |-> cands])
       /\ UNCHANGED <<chainVars, dbVars, gens, cached, live, noTokens, blockMux, writer>>

\* The height a multicall is pinned to; 0 means the latest block.
Pinned(r) == IF request[r].best = 0 THEN Len(node) ELSE request[r].best

\* A transport failure skips the probe; the next request retries.
ProbeTokens(r) ==
    /\ At(r, "probe")
    /\ \/ Proceeds(r, [at |-> "done"])
       \/ /\ Pinned(r) <= Len(node)
          /\ Proceeds(r, [at |-> "apply",
                      verdict |-> {c \in request[r].cands : Vault(c, node, Pinned(r))}])
    /\ UNCHANGED <<chainVars, dbVars, gens, cached, apiCaches, blockMux, writer>>

ApplyVerdict(r) ==
    LET q == request[r] IN
    /\ At(r, "apply")
    /\ IF q.cands = {}
       THEN Proceeds(r, [at |-> "done"]) /\ UNCHANGED negatives
       ELSE LET c == CHOOSE c \in q.cands : TRUE IN
            IF c \in q.verdict
            THEN Proceeds(r, [at |-> "persist", c |-> c]) /\ UNCHANGED negatives
            ELSE /\ Proceeds(r, [cands |-> q.cands \ {c}])
                 /\ negatives' = addNegative(negatives, c, q.best, q.reorg)
    /\ UNCHANGED <<chainVars, dbVars, gens, cached, live, noTokens, blockMux, writer>>

-----------------------------------------------------------------------------
(* SetErcProtocol                                                          *)

\* Nothing moved since the request sampled the generation and the block.
StillCanonical(r) ==
    LET q == request[r] IN
    /\ gens.reorg = q.reorg
    /\ q.best <= Len(indexed)
    /\ indexed[q.best] = q.hash

SetErcProtocol(r) ==
    LET q == request[r]  c == q.c IN
    /\ At(r, "persist")
    /\ q.best # 0 => blockMux = Nobody
    /\ IF q.best = 0 \/ ~StillCanonical(r)
       THEN Proceeds(r, [at |-> "saved"]) /\ UNCHANGED <<vaultRows, heightRows, cached, blockMux>>
       ELSE IF c \in DOMAIN vaultRows
       THEN /\ cached' = LruRemove(cached, c)
            /\ Proceeds(r, [at |-> "saved"])
            /\ UNCHANGED <<vaultRows, heightRows, blockMux>>
       ELSE /\ vaultRows' = (c :> q.best) @@ vaultRows
            /\ heightRows' = heightRows \cup {<<q.best, c>>}
            /\ blockMux' = r
            /\ Proceeds(r, [at |-> "bump"])
            /\ UNCHANGED cached
    /\ UNCHANGED <<chainVars, indexed, contractRows, gens, apiCaches, writer>>

ProtocolBump(r) ==
    /\ At(r, "bump")
    /\ gens' = [gens EXCEPT !.protocol = @ + 1]
    /\ Proceeds(r, [at |-> "drop"])
    /\ UNCHANGED <<chainVars, dbVars, cached, apiCaches, blockMux, writer>>

ProtocolDrop(r) ==
    /\ At(r, "drop")
    /\ cached' = LruRemove(cached, request[r].c)
    /\ blockMux' = Nobody
    /\ Proceeds(r, [at |-> "saved"])
    /\ UNCHANGED <<chainVars, dbVars, gens, apiCaches, writer>>

\* The token is flagged whether or not the row was written; its denial is forgotten.
Saved(r) ==
    LET q == request[r] IN
    /\ At(r, "saved")
    /\ IF q.kind = "tokens"
       THEN /\ negatives' = LruRemove(negatives, q.c)
            /\ Proceeds(r, [at |-> "apply", cands |-> q.cands \ {q.c}])
       ELSE /\ Proceeds(r, [at |-> "asset"])
            /\ UNCHANGED negatives
    /\ UNCHANGED <<chainVars, dbVars, gens, cached, live, noTokens, blockMux, writer>>

-----------------------------------------------------------------------------
(* GetContractInfoData with the vault snapshot of one contract.            *)

\* An invalid contract is refused; a valid one is answered at the best block.
DescribeContract(r) ==
    /\ At(r, "have") /\ request[r].kind = "info"
    /\ Proceeds(r, [at |-> IF request[r].known THEN "best" ELSE "done"])
    /\ UNCHANGED <<chainVars, dbVars, gens, cached, apiCaches, blockMux, writer>>

erc4626CacheKey(r) == <<request[r].c, request[r].best, request[r].reorg>>
Building(k) == {r \in VaultRequests : /\ request[r].kind = "info"
                                      /\ request[r].at \in {"build", "persist", "bump", "drop", "saved", "asset"}
                                      /\ request[r].best # 0
                                      /\ erc4626CacheKey(r) = k}

\* A remembered token answers at once, a build in flight is shared.
erc4626CacheLookupOrBuild(r) ==
    LET k == erc4626CacheKey(r)  noHeight == request[r].best = 0 IN
    /\ At(r, "lookup")
    /\ IF ~noHeight /\ LruHas(live, k)
       THEN Proceeds(r, [at |-> "done"]) /\ live' = LruTouch(live, k)
       ELSE /\ Proceeds(r, [at |-> IF ~noHeight /\ Building(k) # {} THEN "await" ELSE "build"])
            /\ UNCHANGED live
    /\ UNCHANGED <<chainVars, dbVars, gens, cached, negatives, noTokens, blockMux, writer>>

\* The build ends: its token is remembered unless an upstream call failed, and every
\* request that waits for the same key is answered.
Built(r, vault, transient) ==
    LET k == erc4626CacheKey(r) IN
    /\ live' = IF transient \/ request[r].best = 0 THEN live
               ELSE LruAdd(live, k, [vault |-> vault, warm |-> request[r].vault], CachedMax)
    /\ request' = [q \in VaultRequests |->
          IF q = r \/ (request[q].at = "await" /\ erc4626CacheKey(q) = k)
          THEN [request[q] EXCEPT !.at = "done"] ELSE request[q]]

\* Detection and first enrichment: no answer, not a vault, or a vault to persist.
buildErc4626TokenCold(r) ==
    /\ At(r, "build") /\ ~request[r].vault
    /\ \/ Built(r, FALSE, TRUE)
       \/ /\ Pinned(r) <= Len(node)
          /\ IF Vault(request[r].c, node, Pinned(r))
             THEN Proceeds(r, [at |-> "persist"]) /\ UNCHANGED live
             ELSE Built(r, FALSE, FALSE)
    /\ UNCHANGED <<chainVars, dbVars, gens, cached, negatives, noTokens, blockMux, writer>>

\* The asset's metadata and the asset-side conversions may fail on their own.
DescribeAsset(r) ==
    /\ At(r, "asset")
    /\ \E transient \in BOOLEAN : Built(r, TRUE, transient)
    /\ UNCHANGED <<chainVars, dbVars, gens, cached, negatives, noTokens, blockMux, writer>>

\* A vault known from the index is read in one call and always described.
buildErc4626TokenWarm(r) ==
    /\ At(r, "build") /\ request[r].vault
    /\ \E transient \in BOOLEAN : Built(r, TRUE, transient)
    /\ UNCHANGED <<chainVars, dbVars, gens, cached, negatives, noTokens, blockMux, writer>>

-----------------------------------------------------------------------------
(* DeleteContractInfoForAddress, from the internal server                  *)

DeleteContractInfoForAddress(r) ==
    LET c == request[r].c IN
    /\ At(r, "purge")
    /\ contractRows' = contractRows \ {c}
    /\ Proceeds(r, [at |-> IF c \in contractRows THEN "purged" ELSE "done"])
    /\ UNCHANGED <<chainVars, indexed, vaultRows, heightRows, gens, cached, apiCaches, blockMux, writer>>

PurgeBump(r) ==
    /\ At(r, "purged")
    /\ gens' = [gens EXCEPT !.protocol = @ + 1]
    /\ Proceeds(r, [at |-> "forget"])
    /\ UNCHANGED <<chainVars, dbVars, cached, apiCaches, blockMux, writer>>

PurgeForget(r) ==
    /\ At(r, "forget")
    /\ cached' = LruRemove(cached, request[r].c)
    /\ Proceeds(r, [at |-> "done"])
    /\ UNCHANGED <<chainVars, dbVars, gens, apiCaches, blockMux, writer>>

-----------------------------------------------------------------------------
Serve(r) ==
    \/ GetBestBlock(r) \/ ReorgGeneration(r)
    \/ GetContractInfo(r) \/ ReadRow(r) \/ PromoteStandard(r) \/ GetContractInfoErc4626Vault(r) \/ AddCached(r)
    \/ ProbeUnknown(r) \/ ResolveContractInfo(r) \/ StoreContractInfo(r) \/ StoreCommit(r)
    \/ EnrichToken(r) \/ ProbeTokens(r) \/ ApplyVerdict(r)
    \/ SetErcProtocol(r) \/ ProtocolBump(r) \/ ProtocolDrop(r) \/ Saved(r)
    \/ DescribeContract(r) \/ erc4626CacheLookupOrBuild(r)
    \/ buildErc4626TokenCold(r) \/ DescribeAsset(r) \/ buildErc4626TokenWarm(r)
    \/ DeleteContractInfoForAddress(r) \/ PurgeBump(r) \/ PurgeForget(r)

VaultNext == NodeMines \/ NodeReorganises \/ SyncWriter \/ \E r \in VaultRequests : Serve(r)

VaultSpec == VaultInit /\ [][VaultNext]_vaultVars /\ WF_vaultVars(SyncWriter)
                       /\ \A r \in VaultRequests : WF_vaultVars(Serve(r))

-----------------------------------------------------------------------------
Quiet == blockMux = Nobody /\ \A r \in VaultRequests : request[r].at # "purged"

(* A record that the cache would serve now says what the database says:    *)
(* its contract has a row, and it is flagged a vault exactly when a        *)
(* protocol row exists.  A reader that fills the cache with what it read   *)
(* before a block was disconnected, a vault persisted or a record purged   *)
(* must never be believed afterwards (GetContractInfo, SetErcProtocol,     *)
(* DeleteContractInfoForAddress).                                          *)
CachedRecordsCurrent ==
    Quiet => \A i \in DOMAIN cached :
                contractGet(cached[i].key, gens) =>
                   /\ cached[i].key \in contractRows
                   /\ cached[i].value.vault = (cached[i].key \in DOMAIN vaultRows)

(* Verdicts about vaults belong to the chain that is indexed.  Once the    *)
(* index follows the branch of the backend, every persisted vault is one   *)
(* at the height its row is anchored to, both keys of the row exist, and   *)
(* no denial or memoised detection that would still be served contradicts  *)
(* the chain: a reorganization that runs while a probe is in flight leaves *)
(* nothing behind (SetErcProtocol, disconnectErcProtocols, contains,       *)
(* erc4626CacheKey).                                                       *)
VerdictsOfThisChain ==
    (blockMux = Nobody /\ Agrees(Len(indexed))) =>
       /\ heightRows = {<<vaultRows[c], c>> : c \in DOMAIN vaultRows}
       /\ \A c \in DOMAIN vaultRows :
             vaultRows[c] <= Len(indexed) /\ Vault(c, indexed, vaultRows[c])
       /\ \A i \in DOMAIN negatives :
             LET e == negatives[i]  h == e.value.expireAt - ProbeTTL
             IN (e.value.reorg = gens.reorg /\ h <= Len(indexed)) => ~Vault(e.key, indexed, h)
       /\ \A i \in DOMAIN live :
             LET k == live[i].key
             IN (k[3] = gens.reorg /\ k[2] <= Len(indexed) /\ ~live[i].value.warm)
                   => live[i].value.vault = Vault(k[1], indexed, k[2])
=============================================================================
