------------------------------- MODULE AltSend -------------------------------
(***************************************************************************)
(* The alternative send provider of EVM coins                              *)
(* (bchain/coins/eth/alternativesendtx.go): private transactions sent to   *)
(* relays, the cache that exposes them as pending until they are mined,    *)
(* and its agreement with the wrapped mempool.                             *)
(*                                                                         *)
(* Goroutines: one per send, continued by its background fetch-back; the   *)
(* reconcile loop; a reader; block sync. Every lock section is a step.     *)
(* An eviction (removeMempoolTx) is four of them: the cache, the routing   *)
(* entry, the wrapped mempool, and the cache again through the delegate.   *)
(***************************************************************************)
EXTENDS Integers, Sequences, FiniteSets, FiniteSetsExt, SequencesExt

CONSTANTS
  Tx, Send, Sender,
  Plans,            \* what is sent, [sends, tx, from, nonce, decodes], the last one of the raw hex;
                    \* and what may happen around it, [clock, prompt, flakes, reads, mines, forgets, stops]
  Url,              \* a sequence: p.urls
  CheckPeriod, MempoolTxsTimeout, MissingTimeout, RoutingWindow,   \* in ticks
  Backoff,          \* probeInterval's table: <<below, every>>, the last one for the rest
  ExposeAttempts,   \* exposeFetchBackAttempts
  MaxRefresh, MaxExpose    \* maxBackgroundFetchBacks, maxExposeFetchBacks

VARIABLES
  plan,
  mempoolTxs,    \* storedTx of a txid: [time, gen, lastProbe, missingSince], or None
  recentSenders, \* [time, url, gen] of a sender, or None
  acceptedSlots, \* [gen, time] of a (sender, nonce), or None
  sendGeneration,
  inFlight,      \* backgroundCount and exposeCount
  mempool,       \* the wrapped mempool's transactions
  send,          \* where every send is: [pc, gen, ask, url]
  evict,         \* the removals under way of every goroutine: [todo, at, gen]
  reconcile,     \* [todo, now, confirmed, last]: the snapshot being walked
  relay,         \* what the relays know: none, pending, hidden, again, mined
  confirmed,     \* the account nonces on chain
  unread,        \* mined transactions of blocks GetBlock has not read yet
  superseding,   \* the transaction of the block being read whose nonce is retired next, or {}
  stop,          \* running, stopping, drained, abandoned
  clock, flakes

cacheVars == <<mempoolTxs, recentSenders, acceptedSlots, mempool>>
chainVars == <<relay, confirmed, unread, superseding>>
vars == <<plan, mempoolTxs, recentSenders, acceptedSlots, sendGeneration, inFlight, mempool, send,
          evict, reconcile, relay, confirmed, unread, superseding, stop, clock, flakes>>

None == [none |-> TRUE]
Proc == Send \cup {"reconcile", "reader", "sync"}
Slot == Sender \X (0 .. Cardinality(Send))

slot(t) == <<plan.from[t], plan.nonce[t]>>
Cached(t) == mempoolTxs[t] # None
NoEvict == [todo |-> <<>>, at |-> "delete", gen |-> 0]
NoCycle == [todo |-> {}, now |-> None, confirmed |-> [a \in Sender |-> -1], last |-> 0]

Init ==
  /\ plan \in Plans
  /\ mempoolTxs = [t \in Tx |-> None]
  /\ recentSenders = [a \in Sender |-> None] /\ acceptedSlots = [s \in Slot |-> None]
  /\ sendGeneration = 0 /\ inFlight = [refresh |-> 0, expose |-> 0]
  /\ mempool = {}
  /\ send = [s \in Send |-> [pc |-> "idle", gen |-> 0, ask |-> 1, url |-> 0]]
  /\ evict = [p \in Proc |-> NoEvict]
  /\ reconcile = NoCycle
  /\ relay = [t \in Tx |-> "none"] /\ confirmed = [a \in Sender |-> 0] /\ unread = {} /\ superseding = {}
  /\ stop = "running" /\ clock = 1 /\ flakes = 0

(***************************************************************************)
(* Helpers of the provider                                                 *)
(***************************************************************************)

probeInterval(age) ==
  LET fits == {i \in 1 .. Len(Backoff) - 1 : age < Backoff[i][1]}
  IN  Backoff[IF fits = {} THEN Len(Backoff) ELSE Min(fits)][2]

timedOut(e) == clock - e.time > MempoolTxsTimeout

routingTimeout == IF MempoolTxsTimeout < RoutingWindow THEN MempoolTxsTimeout ELSE RoutingWindow

\* Both maps are swept, each over its own horizon.
sweptSenders ==
  [a \in Sender |-> IF recentSenders[a] # None /\ clock - recentSenders[a].time > routingTimeout
                    THEN None ELSE recentSenders[a]]
sweptSlots ==
  [x \in Slot |-> IF acceptedSlots[x] # None /\ clock - acceptedSlots[x].time > MempoolTxsTimeout
                  THEN None ELSE acceptedSlots[x]]

\* The sender's routing is released unless a newer send holds it.
releaseRecentSender(a, gen) ==
  IF recentSenders[a] # None /\ recentSenders[a].gen <= gen
  THEN [recentSenders EXCEPT ![a] = None] ELSE recentSenders

senderSettled(t) == \A u \in Tx \ {t} : Cached(u) => plan.from[u] # plan.from[t]

\* Mutant: the generation is not compared.
MutEvictReplacedByNonce(t, gen) == {u \in Tx \ {t} : Cached(u) /\ slot(u) = slot(t)}

\* The cached transactions of t's slot that a send of t with this generation retires.
evictReplacedByNonce(t, gen) ==
  {u \in Tx \ {t} : Cached(u) /\ slot(u) = slot(t) /\ mempoolTxs[u].gen <= gen}

cachedNoncesFor(a) == {plan.nonce[t] : t \in {u \in Tx : Cached(u) /\ plan.from[u] = a}}

\* The backend's pending nonce, moved over the contiguous run of nonces in flight.
raiseToPendingFloor(a, pending, declared) ==
  LET nonces == cachedNoncesFor(a) \cup declared
      run    == {n \in pending .. pending + Cardinality(nonces) : \A k \in pending .. n - 1 : k \in nonces}
  IN  Max(run)

\* The pending count of the relays: the nonces of what they know, on top of the chain's.
RelayPending(a) ==
  LET known == {plan.nonce[t] : t \in {u \in Tx : plan.from[u] = a /\ relay[u] \in {"pending", "again"}}}
  IN  Max({n \in confirmed[a] .. confirmed[a] + Cardinality(known) : \A k \in confirmed[a] .. n - 1 : k \in known})

\* The pending nonces EthereumTypeGetNonces may answer: routed senders ask the relay and fall back to
\* the primary backend, which knows of no private transaction.
EthereumTypeGetNonces(a, declared) ==
  {raiseToPendingFloor(a, n, declared) :
     n \in {confirmed[a]} \cup (IF declared # {} \/ sweptSenders[a] # None THEN {RelayPending(a)} ELSE {})}

\* What eth_getTransactionByHash of the relays may answer; an error is a fault.
Answers(t) ==
  {CASE relay[t] = "mined" -> "mined"
     [] relay[t] \in {"pending", "again"} -> "pending"
     [] OTHER -> "null"} \cup (IF flakes < plan.flakes THEN {"error"} ELSE {})

Flake(ans) == flakes' = IF ans = "error" THEN flakes + 1 ELSE flakes

(***************************************************************************)
(* SendRawTransaction                                                      *)
(***************************************************************************)

Goto(s, pc) == send' = [send EXCEPT ![s].pc = pc]
Free(s) == evict[s].todo = <<>>
Evicting(s, txs) == evict' = [evict EXCEPT ![s] = [NoEvict EXCEPT !.todo = SetToSeq(txs)]]

\* The fan-out: the first URL in order that accepted counts as the accepting one. A call that
\* failed may still have reached its relay.
Broadcast(s) ==
  LET t == plan.tx[s] IN
  /\ s \in plan.sends /\ send[s].pc = "idle"
  /\ \E ok \in SUBSET (1 .. Len(Url)) :
       IF ok = {}
       THEN /\ Goto(s, "rejected")
            /\ relay' \in {relay, [relay EXCEPT ![t] = IF @ = "none" THEN "hidden" ELSE @]}
       ELSE /\ send' = [send EXCEPT ![s].pc = "accepted", ![s].url = Min(ok)]
            /\ relay' = [relay EXCEPT ![t] = IF @ = "none" THEN "pending" ELSE @]
  /\ UNCHANGED <<plan, cacheVars, sendGeneration, inFlight, evict, reconcile, confirmed, unread, superseding, stop, clock, flakes>>

\* The generation is taken whether or not the raw hex decodes.
nextSendGeneration(s) ==
  /\ send[s].pc = "accepted"
  /\ sendGeneration' = sendGeneration + 1
  /\ recentSenders' = sweptSenders /\ acceptedSlots' = sweptSlots
  /\ send' = [send EXCEPT ![s].gen = sendGeneration',
                          ![s].pc = IF plan.decodes[plan.tx[s]] THEN "register" ELSE "handoff"]
  /\ UNCHANGED <<plan, mempoolTxs, mempool, inFlight, evict, reconcile, chainVars, stop, clock, flakes>>

registerSuccessfulSend(s) ==
  LET t == plan.tx[s]
      a == plan.from[t]
      g == send[s].gen IN
  /\ send[s].pc = "register"
  /\ recentSenders' = IF recentSenders[a] = None \/ g > recentSenders[a].gen
                      THEN [recentSenders EXCEPT ![a] = [time |-> clock, url |-> send[s].url, gen |-> g]]
                      ELSE recentSenders
  /\ acceptedSlots' = IF acceptedSlots[slot(t)] = None \/ g > acceptedSlots[slot(t)].gen
                      THEN [acceptedSlots EXCEPT ![slot(t)] = [gen |-> g, time |-> clock]]
                      ELSE acceptedSlots
  /\ Goto(s, "retire")
  /\ UNCHANGED <<plan, mempoolTxs, mempool, sendGeneration, inFlight, evict, reconcile, chainVars, stop, clock, flakes>>

\* The predecessors of the slot are collected under the lock and removed after it.
RetirePredecessors(s) ==
  /\ send[s].pc \in {"retire", "retireagain"} /\ Free(s)
  /\ Evicting(s, evictReplacedByNonce(plan.tx[s], send[s].gen))
  /\ Goto(s, IF send[s].pc = "retire" THEN "cache" ELSE "fetch")
  /\ UNCHANGED <<plan, cacheVars, sendGeneration, inFlight, reconcile, chainVars, stop, clock, flakes>>

\* Where a send goes once its transaction is cached, or is not to be.
Rest(s) == IF plan.decodes[plan.tx[s]] THEN "spawn" ELSE "finish"

\* cacheMempoolTransaction starts by asking whether a newer send was accepted for the slot.
slotSupersededBy(s) ==
  LET x == slot(plan.tx[s])
      a == sweptSlots[x] IN
  /\ send[s].pc = "cache" /\ Free(s)
  /\ acceptedSlots' = [acceptedSlots EXCEPT ![x] = a]
  /\ Goto(s, IF a # None /\ a.gen > send[s].gen THEN Rest(s) ELSE "insert")
  /\ UNCHANGED <<plan, mempoolTxs, mempool, recentSenders, sendGeneration, inFlight, evict, reconcile, chainVars, stop, clock, flakes>>

\* A strictly newer send of the slot in the cache makes this insert stale.
newerCached(t, gen) == \E u \in Tx \ {t} : Cached(u) /\ slot(u) = slot(t) /\ mempoolTxs[u].gen > gen

insertMempoolTx(s) ==
  LET t == plan.tx[s] IN
  /\ send[s].pc = "insert"
  /\ IF newerCached(t, send[s].gen)
     THEN Goto(s, Rest(s)) /\ UNCHANGED mempoolTxs
     ELSE /\ mempoolTxs' = [mempoolTxs EXCEPT ![t] =
                              [time |-> clock, gen |-> send[s].gen, lastProbe |-> 0, missingSince |-> 0]]
          /\ Goto(s, "retireagain")
  /\ UNCHANGED <<plan, mempool, recentSenders, acceptedSlots, sendGeneration, inFlight, evict, reconcile, chainVars, stop, clock, flakes>>

\* AddOrRefreshTransactionInMempool restamps an entry; for a new one it fetches the transaction,
\* from the cache or, once mined, from the primary backend.
AddFetch(s) ==
  LET t == plan.tx[s]
      expired == t \notin mempool /\ Cached(t) /\ timedOut(mempoolTxs[t]) IN
  /\ send[s].pc = "fetch" /\ Free(s)
  /\ Goto(s, IF t \notin mempool /\ ~expired /\ (Cached(t) \/ relay[t] = "mined") THEN "add" ELSE "check")
  /\ IF expired THEN Evicting(s, {t}) ELSE UNCHANGED evict
  /\ UNCHANGED <<plan, cacheVars, sendGeneration, inFlight, reconcile, chainVars, stop, clock, flakes>>

Add(s) ==
  /\ send[s].pc = "add"
  /\ mempool' = mempool \cup {plan.tx[s]}
  /\ Goto(s, "check")
  /\ UNCHANGED <<plan, mempoolTxs, recentSenders, acceptedSlots, sendGeneration, inFlight, evict, reconcile, chainVars, stop, clock, flakes>>

\* A send evicted during the add must not stay in the wrapped mempool alone.
StillCached(s) ==
  /\ send[s].pc = "check" /\ Free(s)
  /\ Goto(s, IF Cached(plan.tx[s]) THEN Rest(s) ELSE "unlist")
  /\ UNCHANGED <<plan, cacheVars, sendGeneration, inFlight, evict, reconcile, chainVars, stop, clock, flakes>>

Unlist(s) ==
  /\ send[s].pc = "unlist"
  /\ mempool' = mempool \ {plan.tx[s]}
  /\ Goto(s, Rest(s))
  /\ UNCHANGED <<plan, mempoolTxs, recentSenders, acceptedSlots, sendGeneration, inFlight, evict, reconcile, chainVars, stop, clock, flakes>>

(***************************************************************************)
(* The background fetch-backs                                              *)
(***************************************************************************)

\* startBackground: no work once stopped, none beyond the allowance of the kind.
startBackground(kind) ==
  stop = "running" /\ inFlight[kind] < (IF kind = "expose" THEN MaxExpose ELSE MaxRefresh)

\* The decoded send is cached: the fetch-back only probes, and may be refused.
SpawnProbe(s) ==
  /\ send[s].pc = "spawn"
  /\ IF startBackground("refresh")
     THEN inFlight' = [inFlight EXCEPT !.refresh = @ + 1] /\ Goto(s, "probe")
     ELSE Goto(s, "done") /\ UNCHANGED inFlight
  /\ UNCHANGED <<plan, cacheVars, sendGeneration, evict, reconcile, chainVars, stop, clock, flakes>>

\* The probe writes nothing, whatever the relay answers.
probeSentTransaction(s) ==
  /\ send[s].pc = "probe"
  /\ inFlight' = [inFlight EXCEPT !.refresh = @ - 1]
  /\ Goto(s, "done")
  /\ UNCHANGED <<plan, cacheVars, sendGeneration, evict, reconcile, chainVars, stop, clock, flakes>>

\* The send that did not decode has only its fetch-back to be exposed by.
SpawnExpose(s) ==
  /\ send[s].pc = "handoff"
  /\ IF startBackground("expose")
     THEN inFlight' = [inFlight EXCEPT !.expose = @ + 1] /\ Goto(s, "ask")
     ELSE Goto(s, "dropped") /\ UNCHANGED inFlight
  /\ UNCHANGED <<plan, cacheVars, sendGeneration, evict, reconcile, chainVars, stop, clock, flakes>>

\* exposeAcceptedSend with handleMempoolTransaction: an error or a null is asked again, a mined
\* transaction is left to block sync, a pending one is cached with the generation of its send.
exposeAcceptedSend(s) ==
  /\ send[s].pc = "ask"
  /\ \/ /\ send[s].ask > 1 /\ stop # "running"   \* stopped between two asks
        /\ Goto(s, "unsurfaced") /\ UNCHANGED flakes
     \/ \E ans \in Answers(plan.tx[s]) :
          /\ Flake(ans)
          /\ send' = CASE ans = "pending" -> [send EXCEPT ![s].pc = "cache"]
                       [] ans = "mined"   -> [send EXCEPT ![s].pc = "finish"]
                       [] OTHER -> IF send[s].ask < ExposeAttempts /\ stop = "running"
                                   THEN [send EXCEPT ![s].ask = @ + 1]
                                   ELSE [send EXCEPT ![s].pc = "unsurfaced"]
  /\ UNCHANGED <<plan, cacheVars, sendGeneration, inFlight, evict, reconcile, chainVars, stop, clock>>

finishBackground(s) ==
  /\ send[s].pc \in {"finish", "unsurfaced"}
  /\ inFlight' = [inFlight EXCEPT !.expose = @ - 1]
  /\ Goto(s, IF send[s].pc = "finish" THEN "done" ELSE "dropped")
  /\ UNCHANGED <<plan, cacheVars, sendGeneration, evict, reconcile, chainVars, stop, clock, flakes>>

(***************************************************************************)
(* removeMempoolTx, and removeTransactionFromMempool of the RPC            *)
(***************************************************************************)

NextVictim(p) ==
  evict' = [evict EXCEPT ![p] = [NoEvict EXCEPT !.todo = Tail(evict[p].todo),
                                                !.at = IF p = "sync" THEN "unlist" ELSE "delete"]]

\* removeTransaction: the cache delete decides which of several evictions of a txid goes on.
removeTransaction(p) ==
  /\ evict[p].todo # <<>> /\ evict[p].at \in {"delete", "again"}
  /\ LET t == Head(evict[p].todo)
         first == evict[p].at = "delete" IN
     /\ mempoolTxs' = [mempoolTxs EXCEPT ![t] = None]
     /\ IF Cached(t) /\ (first \/ senderSettled(t))
        THEN evict' = [evict EXCEPT ![p].gen = mempoolTxs[t].gen,
                                    ![p].at = CASE ~senderSettled(t) -> "unlist"
                                                [] first -> "release"
                                                [] OTHER -> "releaseagain"]
        ELSE NextVictim(p)
  /\ UNCHANGED <<plan, mempool, recentSenders, acceptedSlots, sendGeneration, inFlight, send, reconcile, chainVars, stop, clock, flakes>>

ReleaseRouting(p) ==
  /\ evict[p].todo # <<>> /\ evict[p].at \in {"release", "releaseagain"}
  /\ recentSenders' = releaseRecentSender(plan.from[Head(evict[p].todo)], evict[p].gen)
  /\ IF evict[p].at = "release" THEN evict' = [evict EXCEPT ![p].at = "unlist"] ELSE NextVictim(p)
  /\ UNCHANGED <<plan, mempoolTxs, mempool, acceptedSlots, sendGeneration, inFlight, send, reconcile, chainVars, stop, clock, flakes>>

\* removeTransactionFromMempool: the wrapped mempool first, then the cache.
removeTransactionFromMempool(p) ==
  /\ evict[p].todo # <<>> /\ evict[p].at = "unlist"
  /\ mempool' = mempool \ {Head(evict[p].todo)}
  /\ evict' = [evict EXCEPT ![p].at = "again"]
  /\ UNCHANGED <<plan, mempoolTxs, recentSenders, acceptedSlots, sendGeneration, inFlight, send, reconcile, chainVars, stop, clock, flakes>>

(***************************************************************************)
(* reconcileMempoolTxs                                                     *)
(***************************************************************************)

\* A cycle per tick sweeps the send maps and snapshots the cache.
ReconcileStart ==
  /\ stop = "running" /\ reconcile.todo = {} /\ reconcile.now = None /\ Free("reconcile")
  /\ reconcile.last < clock
  /\ recentSenders' = sweptSenders /\ acceptedSlots' = sweptSlots
  /\ reconcile' = [NoCycle EXCEPT !.todo = {[txid |-> t, tx |-> mempoolTxs[t]] : t \in {u \in Tx : Cached(u)}},
                                  !.last = clock]
  /\ UNCHANGED <<plan, mempoolTxs, mempool, sendGeneration, inFlight, send, evict, chainVars, stop, clock, flakes>>

\* The entry is still the one of the snapshot.
Same(e) == Cached(e.txid) /\ mempoolTxs[e.txid].gen = e.tx.gen /\ mempoolTxs[e.txid].time = e.tx.time

skipped(e) ==
  LET age == clock - e.tx.time IN
  \/ age < CheckPeriod
  \/ ~timedOut(e.tx) /\ e.tx.lastProbe # 0 /\ clock - e.tx.lastProbe < probeInterval(age)

\* A fresh entry and one backed off are passed over, the others are stamped and asked about.
markProbed ==
  /\ reconcile.now = None /\ Free("reconcile")
  /\ \E e \in reconcile.todo :
       /\ reconcile' = [reconcile EXCEPT !.todo = @ \ {e}, !.now = IF skipped(e) THEN None ELSE e]
       /\ mempoolTxs' = IF ~skipped(e) /\ Same(e)
                        THEN [mempoolTxs EXCEPT ![e.txid].lastProbe = clock] ELSE mempoolTxs
  /\ UNCHANGED <<plan, mempool, recentSenders, acceptedSlots, sendGeneration, inFlight, send, evict, chainVars, stop, clock, flakes>>

\* The lowest confirmed nonce the relays name, looked up once per sender and cycle; -2 is a failure.
ConfirmedNonces(a) ==
  IF reconcile.confirmed[a] # -1 THEN {reconcile.confirmed[a]}
  ELSE {confirmed[a]} \cup (IF flakes < plan.flakes THEN {-2} ELSE {})

EvictAs(t) == Evicting("reconcile", {t}) /\ UNCHANGED mempoolTxs
Keep == UNCHANGED <<evict, mempoolTxs>>

\* A null answer opens a missing run, or ends in an eviction once the run is long enough.
markMissing(e) ==
  LET since == IF ~Same(e) THEN 0
               ELSE IF mempoolTxs[e.txid].missingSince = 0 THEN clock ELSE mempoolTxs[e.txid].missingSince IN
  /\ mempoolTxs' = IF since = 0 THEN mempoolTxs ELSE [mempoolTxs EXCEPT ![e.txid].missingSince = since]
  /\ IF since # 0 /\ clock - since >= MissingTimeout THEN Evicting("reconcile", {e.txid}) ELSE UNCHANGED evict

clearMissing(e) ==
  mempoolTxs' = IF Same(e) THEN [mempoolTxs EXCEPT ![e.txid].missingSince = 0] ELSE mempoolTxs

\* The answer of the relay about one entry, and what becomes of the entry.
ReconcileProbe ==
  LET e == reconcile.now
      t == e.txid
      a == plan.from[t] IN
  /\ e # None
  /\ \E ans \in Answers(t) : \E n \in ConfirmedNonces(a) :
       /\ flakes' = flakes + (IF ans = "error" \/ (ans # "mined" /\ n = -2 /\ reconcile.confirmed[a] = -1) THEN 1 ELSE 0)
       /\ reconcile' = [reconcile EXCEPT !.now = None,
                          !.confirmed[a] = IF ans \in {"error", "mined"} THEN @ ELSE n]
       /\ CASE ans = "error" -> IF timedOut(e.tx) THEN EvictAs(t) ELSE Keep
            [] ans = "mined" -> EvictAs(t)
            [] plan.nonce[t] < n -> EvictAs(t)
            [] ans = "null" -> IF timedOut(e.tx) THEN EvictAs(t) ELSE markMissing(e)
            [] OTHER -> /\ clearMissing(e)
                        /\ IF timedOut(e.tx) THEN Evicting("reconcile", {t}) ELSE UNCHANGED evict
  /\ UNCHANGED <<plan, mempool, recentSenders, acceptedSlots, sendGeneration, inFlight, send, chainVars, stop, clock>>

(***************************************************************************)
(* Readers, block sync, shutdown, and what happens outside                 *)
(***************************************************************************)

\* A read that meets an expired entry evicts it.
GetTransaction(t) ==
  /\ plan.reads /\ Free("reader") /\ Cached(t) /\ timedOut(mempoolTxs[t])
  /\ Evicting("reader", {t})
  /\ UNCHANGED <<plan, cacheVars, sendGeneration, inFlight, send, reconcile, chainVars, stop, clock, flakes>>

\* The nonce lookup that meets an expired routing entry drops it.
useForNonces(a) ==
  /\ plan.reads /\ recentSenders[a] # sweptSenders[a]
  /\ recentSenders' = [recentSenders EXCEPT ![a] = None]
  /\ UNCHANGED <<plan, mempoolTxs, mempool, acceptedSlots, sendGeneration, inFlight, send, evict, reconcile, chainVars, stop, clock, flakes>>

\* A block takes the sender's next nonce; another transaction of the slot, or one sent elsewhere.
Mine(a) ==
  /\ plan.mines /\ confirmed[a] < 1
  /\ confirmed' = [confirmed EXCEPT ![a] = @ + 1]
  /\ \E mined \in {{}} \cup {{t} : t \in {u \in Tx : relay[u] \in {"pending", "hidden", "again"} /\ slot(u) = <<a, confirmed[a]>>}} :
       /\ relay' = [t \in Tx |-> IF t \in mined THEN "mined" ELSE relay[t]]
       /\ unread' = unread \cup mined
  /\ UNCHANGED <<plan, cacheVars, sendGeneration, inFlight, send, evict, reconcile, superseding, stop, clock, flakes>>

\* GetBlock removes every transaction of the block, then what its nonce supersedes.
GetBlock(t) ==
  /\ t \in unread /\ Free("sync") /\ superseding = {}
  /\ unread' = unread \ {t} /\ superseding' = {t}
  /\ evict' = [evict EXCEPT !["sync"] = [todo |-> <<t>>, at |-> "unlist", gen |-> 0]]
  /\ UNCHANGED <<plan, cacheVars, sendGeneration, inFlight, send, reconcile, relay, confirmed, stop, clock, flakes>>

removeSupersededFromMempool(t) ==
  LET old == {u \in mempool : plan.from[u] = plan.from[t] /\ plan.nonce[u] <= plan.nonce[t]} IN
  /\ t \in superseding /\ Free("sync")
  /\ superseding' = {}
  /\ mempool' = mempool \ old
  /\ evict' = [evict EXCEPT !["sync"] = [todo |-> SetToSeq(old), at |-> "unlist", gen |-> 0]]
  /\ UNCHANGED <<plan, mempoolTxs, recentSenders, acceptedSlots, sendGeneration, inFlight, send, reconcile, relay, confirmed, unread, stop, clock, flakes>>

\* A relay stops surfacing what it accepted, or surfaces it again.
RelayForgets(t) ==
  /\ plan.forgets
  /\ \/ relay[t] = "pending" /\ relay' = [relay EXCEPT ![t] = "hidden"]
     \/ relay[t] = "hidden" /\ relay' = [relay EXCEPT ![t] = "again"]
  /\ UNCHANGED <<plan, cacheVars, sendGeneration, inFlight, send, evict, reconcile, confirmed, unread, superseding, stop, clock, flakes>>

\* A tick is of the order of minutes: where the plan says so, none passes during a send.
Tick ==
  /\ plan.prompt => \A s \in Send : send[s].pc \in {"idle", "rejected", "probe", "done", "dropped"}
  /\ clock < plan.clock /\ clock' = clock + 1
  /\ UNCHANGED <<plan, cacheVars, sendGeneration, inFlight, send, evict, reconcile, chainVars, stop, flakes>>

Shutdown ==
  /\ plan.stops /\ stop = "running" /\ stop' = "stopping"
  /\ UNCHANGED <<plan, cacheVars, sendGeneration, inFlight, send, evict, reconcile, chainVars, clock, flakes>>

\* The drain ends when nothing is in flight, or at its deadline.
drainBackground ==
  /\ stop = "stopping"
  /\ stop' = IF inFlight.refresh + inFlight.expose = 0 THEN "drained" ELSE "abandoned"
  /\ UNCHANGED <<plan, cacheVars, sendGeneration, inFlight, send, evict, reconcile, chainVars, clock, flakes>>

Next ==
  \/ \E s \in Send :
       \/ Broadcast(s) \/ nextSendGeneration(s) \/ registerSuccessfulSend(s) \/ RetirePredecessors(s)
       \/ slotSupersededBy(s) \/ insertMempoolTx(s) \/ AddFetch(s) \/ Add(s) \/ StillCached(s) \/ Unlist(s)
       \/ SpawnProbe(s) \/ probeSentTransaction(s) \/ SpawnExpose(s) \/ exposeAcceptedSend(s) \/ finishBackground(s)
  \/ \E p \in Proc : removeTransaction(p) \/ ReleaseRouting(p) \/ removeTransactionFromMempool(p)
  \/ ReconcileStart \/ markProbed \/ ReconcileProbe
  \/ \E t \in Tx : GetTransaction(t) \/ GetBlock(t) \/ removeSupersededFromMempool(t) \/ RelayForgets(t)
  \/ \E a \in Sender : useForNonces(a) \/ Mine(a)
  \/ Tick \/ Shutdown \/ drainBackground

Spec == Init /\ [][Next]_vars

Removal(p) == removeTransaction(p) \/ ReleaseRouting(p) \/ removeTransactionFromMempool(p)

\* The reconcile loop runs and its evictions go on; nothing is assumed of the sends.
Fairness ==
  /\ WF_vars(ReconcileStart) /\ WF_vars(markProbed) /\ WF_vars(ReconcileProbe)
  /\ WF_vars(Removal("reconcile"))

FairSpec == Spec /\ Fairness

(***************************************************************************)
(* Properties                                                              *)
(***************************************************************************)

AtRest ==
  /\ \A s \in Send : send[s].pc \in {"idle", "rejected", "probe", "done", "dropped"}
  /\ \A p \in Proc : Free(p)
  /\ superseding = {}

\* Between sends, the cache holds at most one transaction of a (sender, nonce), every cached
\* transaction is in the wrapped mempool, and the wrapped mempool holds no transaction the cache has
\* given up, whichever sends, evictions and reads were interleaved (cacheMempoolTransaction,
\* evictReplacedByNonce and removeMempoolTx).
ExposedOnce ==
  AtRest =>
    /\ \A t, u \in Tx : Cached(t) /\ Cached(u) /\ slot(t) = slot(u) => t = u
    /\ \A t \in Tx : Cached(t) => t \in mempool
    /\ \A t \in mempool : Cached(t)

Accepted(s) == send[s].gen > 0
Newest(s) == \A r \in Send : Accepted(r) /\ slot(plan.tx[r]) = slot(plan.tx[s]) => send[r].gen <= send[s].gen

LastOf(a, s) == \A r \in Send : plan.from[plan.tx[r]] = a => send[r].gen <= send[s].gen

\* A reason for an accepted send not to be exposed any more: the relay stopped surfacing it, its
\* nonce is spent, or its slot is older than the retention.
Excused(t) ==
  \/ relay[t] # "pending"
  \/ confirmed[plan.from[t]] > plan.nonce[t]
  \/ acceptedSlots[slot(t)] = None
  \/ clock - acceptedSlots[slot(t)].time > MempoolTxsTimeout

\* Between sends, the send accepted last for a slot is exposed: it is cached, the pending nonce
\* answered for its sender is past it when nothing below it is missing, and if it is the sender's last
\* send its lookups go to the relay for the routing window. No predecessor of the slot is exposed beside or instead
\* of it (SendRawTransaction, slotSupersededBy, insertMempoolTx, releaseRecentSender).
NewestExposed ==
  AtRest => \A s \in Send :
    LET t == plan.tx[s]
        a == plan.from[t] IN
    Accepted(s) /\ plan.decodes[t] /\ Newest(s) /\ ~Excused(t) =>
      /\ Cached(t) /\ mempoolTxs[t].gen = send[s].gen
      /\ (\A n \in confirmed[a] .. plan.nonce[t] : n \in cachedNoncesFor(a)) =>
            \A n \in EthereumTypeGetNonces(a, {}) : n > plan.nonce[t]
      /\ LastOf(a, s) /\ clock - acceptedSlots[slot(t)].time <= routingTimeout => recentSenders[a] # None

\* Once the drain of shutdown has seen no fetch-back in flight, none ever writes to the cache or to
\* the wrapped mempool again: startBackground refuses under the mutex (drainBackground).
QuietAfterDrain ==
  stop = "drained" => \A s \in Send :
    ~plan.decodes[plan.tx[s]] => send[s].pc \notin {"ask", "cache", "insert", "retireagain", "fetch", "add", "check", "unlist", "finish"}

\* Unless the provider is shut down, an entry that has outlived the retention leaves the cache, again and again when it
\* comes back (reconcileMempoolTxs).
Leaves ==
  []<>(stop = "running" => \A t \in Tx : ~(Cached(t) /\ timedOut(mempoolTxs[t])))
\* The comment in SendRawTransaction: an accepted send must never end up exposed nowhere. With a
\* transaction sent again while its older entry is being evicted, it does: evictMempoolTx and the
\* delegate of removeMempoolTx remove the entry of the new send too.
NeverNowhere ==
  AtRest => \A s \in Send :
    Accepted(s) /\ plan.decodes[plan.tx[s]] /\ Newest(s) /\ ~Excused(plan.tx[s]) => Cached(plan.tx[s])

=============================================================================
