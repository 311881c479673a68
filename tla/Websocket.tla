------------------------------ MODULE Websocket ------------------------------
(***************************************************************************)
(* The websocket server (server/websocket.go): connections and their two   *)
(* loops, requests run concurrently under three kinds of slots,            *)
(* subscriptions and the notifications they cause, the limits of a client  *)
(* (ClientLimits) and the graceful shutdown before RocksDB is closed.      *)
(*                                                                         *)
(* Goroutines: per connection an input and an output loop; one per         *)
(* request; the callbacks of block, mempool and fiat rates sync and the    *)
(* publishers they spawn; Shutdown. Every lock section is a step, so the   *)
(* cleanup after a close (onDisconnect) is one step per subscription lock. *)
(***************************************************************************)
EXTENDS ClientLimits

CONSTANTS
  Conn,
  WsPlans,          \* what the clients send and what happens around them: [conns : SUBSET Conn, script : [Conn -> Seq(Message)],
                    \* ip : [Conn -> key], white : SUBSET Conn, blocks, txs, tickers, drops, stops, clock]
  OutChannelSize, WsPendingRequestsLimit, MempoolFiltersResponses, WsActiveRequests, GetAccountInfoLimit,
  MessageRateLimit, IpBlockDuration

VARIABLES
  wsPlan,
  conn,                          \* the state of every connection, see NewConn
  work,                          \* tracked goroutines: requests and publishers, see Goroutine
  async,                         \* onNewBlockAsync goroutines still to run
  newBlockSubscriptions, newTransactionSubscriptions,
  addressSubscriptions,          \* [desc, c, nbt]
  newBlockTxsSubscriptionCount,
  fiatRatesSubscriptions,        \* [currency, c]
  fiatRatesTokenSubscriptions,
  activeChannels, activeRequests,
  shutdown,                      \* [at : running, closing, waiting, returned, closed; todo : SUBSET Conn]
  wsLimiter, wsBlockedIPs, wsClock

subVars == <<newBlockSubscriptions, newTransactionSubscriptions, addressSubscriptions,
             newBlockTxsSubscriptionCount, fiatRatesSubscriptions, fiatRatesTokenSubscriptions>>
limitVars == <<wsLimiter, wsBlockedIPs>>
wsVars == <<wsPlan, conn, work, async, subVars, activeChannels, activeRequests, shutdown, limitVars, wsClock>>

\* pc: where ServeHTTP is; open: the socket; closing: the next step of onDisconnect, 0 before it, Closed after.
NewConn == [pc |-> "new", script |-> <<>>, alive |-> FALSE, open |-> FALSE, out |-> <<>>, reading |-> FALSE,
            writing |-> <<>>, pending |-> 0, filterSlots |-> 0, addrDescs |-> {}, descriptors |-> {},
            rate |-> newConnMessageRate, closing |-> 0, by |-> "loop"]
Closed == 7

WsInit ==
  /\ wsPlan \in WsPlans
  /\ conn = [c \in Conn |-> [NewConn EXCEPT !.script = wsPlan.script[c]]]
  /\ work = {} /\ async = 0
  /\ newBlockSubscriptions = {} /\ newTransactionSubscriptions = {} /\ addressSubscriptions = {}
  /\ newBlockTxsSubscriptionCount = 0 /\ fiatRatesSubscriptions = {} /\ fiatRatesTokenSubscriptions = {}
  /\ activeChannels = {} /\ activeRequests = 0
  /\ shutdown = [at |-> "running", todo |-> {}]
  /\ wsLimiter = newWebsocketConnectionLimiter /\ wsBlockedIPs = <<>> /\ wsClock = 0

shuttingDown == shutdown.at # "running"

(***************************************************************************)
(* A channel's queue and slots                                             *)
(***************************************************************************)

\* A response that holds a getMempoolFilters slot gives it back.
finalize(ch, m) == IF m.holds THEN [ch EXCEPT !.filterSlots = @ - 1] ELSE ch

DataOut(ch, m) ==
  IF ch.alive /\ Len(ch.out) < OutChannelSize - 1 THEN [ch EXCEPT !.out = Append(@, m)]
  ELSE finalize(IF ch.alive THEN [ch EXCEPT !.open = FALSE] ELSE ch, m)

\* Closes the queue and drains it; the winner goes on to onDisconnect.
CloseOut(ch) ==
  [ch EXCEPT !.alive = FALSE, !.out = <<>>,
             !.filterSlots = @ - Len(SelectSeq(ch.out, LAMBDA m : m.holds))]

closeChannel(ch, who) ==
  IF ch.alive THEN [CloseOut(ch) EXCEPT !.open = FALSE, !.closing = 1, !.by = who] ELSE ch

\* The input loop returns after closing the channel.
Hangup(ch) == [closeChannel(ch, "loop") EXCEPT !.reading = FALSE]

\* Mutant: the shutdown is not looked at.
MutTrackWork == activeRequests < WsActiveRequests

trackWork == ~shuttingDown /\ activeRequests < WsActiveRequests

Reply(kind) == [kind |-> kind, holds |-> FALSE]

(***************************************************************************)
(* Connecting                                                              *)
(***************************************************************************)

Refused(c) == conn' = [conn EXCEPT ![c].pc = "refused"]

\* The method and the first, unlocked from the rest, look at shuttingDown.
ServeHTTP(c) ==
  /\ conn[c].pc = "new" /\ c \in wsPlan.conns
  /\ IF shuttingDown THEN Refused(c) ELSE conn' = [conn EXCEPT ![c].pc = "checked"]
  /\ UNCHANGED <<wsPlan, work, async, subVars, activeChannels, activeRequests, shutdown, limitVars, wsClock>>

ipBlockEnabled == MessageRateLimit > 0 /\ IpBlockDuration > 0

ConnectionAccept(c) ==
  LET ip == wsPlan.ip[c]
      white == c \in wsPlan.white
      answer == accept(wsLimiter, ip, wsClock)
  IN  /\ conn[c].pc = "checked"
      /\ IF ipBlockEnabled /\ ~white /\ IsWsIPBlocked(wsBlockedIPs, ip, wsClock)
         THEN Refused(c) /\ UNCHANGED wsLimiter
         ELSE IF white THEN conn' = [conn EXCEPT ![c].pc = "accepted"] /\ UNCHANGED wsLimiter
         ELSE /\ wsLimiter' = answer.limiter
              /\ IF answer.ok THEN conn' = [conn EXCEPT ![c].pc = "accepted"] ELSE Refused(c)
      /\ UNCHANGED <<wsPlan, work, async, subVars, activeChannels, activeRequests, shutdown, wsBlockedIPs, wsClock>>

Released(c) == IF c \in wsPlan.white THEN wsLimiter ELSE release(wsLimiter, wsPlan.ip[c], wsClock)

UpgradeFails(c) ==
  /\ conn[c].pc = "accepted" /\ wsPlan.drops
  /\ Refused(c) /\ wsLimiter' = Released(c)
  /\ UNCHANGED <<wsPlan, work, async, subVars, activeChannels, activeRequests, shutdown, wsBlockedIPs, wsClock>>

registerChannel(c) ==
  /\ conn[c].pc = "accepted"
  /\ IF shuttingDown
     THEN Refused(c) /\ wsLimiter' = Released(c) /\ UNCHANGED activeChannels
     ELSE /\ conn' = [conn EXCEPT ![c] = [@ EXCEPT !.pc = "open", !.alive = TRUE, !.open = TRUE, !.reading = TRUE]]
          /\ activeChannels' = activeChannels \cup {c}
          /\ UNCHANGED wsLimiter
  /\ UNCHANGED <<wsPlan, work, async, subVars, activeRequests, shutdown, wsBlockedIPs, wsClock>>

(***************************************************************************)
(* The two loops of a connection                                           *)
(***************************************************************************)

\* A request goroutine; script lengths number the requests of a connection.
Request(c, m) == [g |-> "request", id |-> <<c, Len(conn[c].script)>>, c |-> c, m |-> m, pc |-> "run", holds |-> FALSE]

\* The channel after it has read message m, as long as it goes on to be a request.
Observed(c) == LET ch == [conn[c] EXCEPT !.script = Tail(@)]
               IN  IF MessageRateLimit = 0 \/ c \in wsPlan.white THEN ch
                   ELSE [ch EXCEPT !.rate = observe(@, wsClock)]
Breach(ch) == MessageRateLimit > 0 /\ ch.rate.total > MessageRateLimit
acquireRequestSlot(ch) == WsPendingRequestsLimit = 0 \/ ch.pending < WsPendingRequestsLimit

\* A text message that parses.
ReadRequest(c, m) ==
  LET ch == Observed(c)
      slotted == [ch EXCEPT !.pending = @ + 1]
  IN  CASE Breach(ch) ->
             /\ conn' = [conn EXCEPT ![c] = Hangup(ch)]
             /\ wsBlockedIPs' = IF ipBlockEnabled
                                THEN BlockWsIP(wsBlockedIPs, wsPlan.ip[c], wsClock + IpBlockDuration, wsClock)
                                ELSE wsBlockedIPs
             /\ UNCHANGED <<work, activeRequests>>
        [] ~Breach(ch) /\ ~acquireRequestSlot(ch) ->
             conn' = [conn EXCEPT ![c] = Hangup(ch)] /\ UNCHANGED <<work, activeRequests, wsBlockedIPs>>
        [] ~Breach(ch) /\ acquireRequestSlot(ch) /\ ~trackWork ->
             /\ conn' = [conn EXCEPT ![c] = IF shuttingDown THEN Hangup(ch) ELSE DataOut(ch, Reply("work_limit"))]
             /\ UNCHANGED <<work, activeRequests, wsBlockedIPs>>
        [] OTHER ->
             /\ conn' = [conn EXCEPT ![c] = slotted]
             /\ work' = work \cup {Request(c, m)} /\ activeRequests' = activeRequests + 1
             /\ UNCHANGED wsBlockedIPs

\* Ping and pong frames only count.
ReadControl(c) ==
  LET ch == Observed(c)
  IN  /\ conn' = [conn EXCEPT ![c] = IF Breach(ch) THEN Hangup(ch) ELSE ch]
      /\ wsBlockedIPs' = IF Breach(ch) /\ ipBlockEnabled
                         THEN BlockWsIP(wsBlockedIPs, wsPlan.ip[c], wsClock + IpBlockDuration, wsClock)
                         ELSE wsBlockedIPs
      /\ UNCHANGED <<work, activeRequests>>

inputLoop(c) ==
  LET ch == conn[c]
  IN  /\ ch.reading
      /\ \/ /\ ~ch.open
            /\ conn' = [conn EXCEPT ![c] = Hangup(ch)]
            /\ UNCHANGED <<work, activeRequests, wsBlockedIPs>>
         \/ /\ ch.open /\ ch.script # <<>>
            /\ LET m == Head(ch.script)
               IN  CASE m.kind \in {"tooLarge", "garbled", "binary"} ->
                          /\ conn' = [conn EXCEPT ![c] = Hangup([ch EXCEPT !.script = Tail(@)])]
                          /\ UNCHANGED <<work, activeRequests, wsBlockedIPs>>
                     [] m.kind = "ping" -> ReadControl(c)
                     [] OTHER -> ReadRequest(c, m)
      /\ UNCHANGED <<wsPlan, async, subVars, activeChannels, shutdown, wsLimiter, wsClock>>

\* Takes the next response; a drained queue ends the loop.
OutputTake(c) ==
  /\ conn[c].writing = <<>> /\ conn[c].out # <<>>
  /\ conn' = [conn EXCEPT ![c].writing = <<Head(conn[c].out)>>, ![c].out = Tail(@)]
  /\ UNCHANGED <<wsPlan, work, async, subVars, activeChannels, activeRequests, shutdown, limitVars, wsClock>>

\* Writes it, or fails to (a peer that is gone or does not read within the deadline).
outputLoop(c) ==
  LET done == [finalize(conn[c], conn[c].writing[1]) EXCEPT !.writing = <<>>]
  IN  /\ conn[c].writing # <<>>
      /\ \/ conn[c].open /\ conn' = [conn EXCEPT ![c] = done]
         \/ (wsPlan.drops \/ ~conn[c].open) /\ conn' = [conn EXCEPT ![c] = closeChannel(done, "loop")]
      /\ UNCHANGED <<wsPlan, work, async, subVars, activeChannels, activeRequests, shutdown, limitVars, wsClock>>

PeerCloses(c) ==
  /\ conn[c].open /\ wsPlan.drops
  /\ conn' = [conn EXCEPT ![c].open = FALSE]
  /\ UNCHANGED <<wsPlan, work, async, subVars, activeChannels, activeRequests, shutdown, limitVars, wsClock>>

(***************************************************************************)
(* Subscriptions                                                           *)
(***************************************************************************)

OptedIn(subs) == {s \in subs : s.nbt}
Subs(c) == {s \in addressSubscriptions : s.c = c /\ s.desc \in conn[c].addrDescs}

doUnsubscribeAddresses(c) ==
  /\ addressSubscriptions' = addressSubscriptions \ Subs(c)
  /\ newBlockTxsSubscriptionCount' = newBlockTxsSubscriptionCount - Cardinality(OptedIn(Subs(c)))

\* Replaces the channel's earlier subscriptions.
subscribeAddresses(c, m) ==
  LET mine == [desc : m.descs, c : {c}, nbt : {m.nbt}]
  IN  /\ addressSubscriptions' = (addressSubscriptions \ Subs(c)) \cup mine
      /\ newBlockTxsSubscriptionCount' =
           newBlockTxsSubscriptionCount - Cardinality(OptedIn(Subs(c))) + Cardinality(OptedIn(mine))

doUnsubscribeFiatRates(c) ==
  /\ fiatRatesSubscriptions' = {s \in fiatRatesSubscriptions : s.c # c}
  /\ fiatRatesTokenSubscriptions' = fiatRatesTokenSubscriptions \ {c}

subscribeFiatRates(c, m) ==
  /\ fiatRatesSubscriptions' = {s \in fiatRatesSubscriptions : s.c # c} \cup {[currency |-> m.currency, c |-> c]}
  /\ fiatRatesTokenSubscriptions' = IF m.tokens THEN fiatRatesTokenSubscriptions \cup {c}
                                    ELSE fiatRatesTokenSubscriptions \ {c}

blockSubVars == <<newBlockSubscriptions>>
txSubVars == <<newTransactionSubscriptions>>
addrSubVars == <<addressSubscriptions, newBlockTxsSubscriptionCount>>
fiatSubVars == <<fiatRatesSubscriptions, fiatRatesTokenSubscriptions>>

\* The steps of onDisconnect, in order.
onDisconnect(c) ==
  /\ conn[c].closing \in 1 .. Closed - 1
  /\ conn' = [conn EXCEPT ![c].closing = @ + 1, ![c].addrDescs = IF conn[c].closing = 3 THEN {} ELSE @]
  /\ IF conn[c].closing = 1 THEN newBlockSubscriptions' = newBlockSubscriptions \ {c} ELSE UNCHANGED blockSubVars
  /\ IF conn[c].closing = 2 THEN newTransactionSubscriptions' = newTransactionSubscriptions \ {c} ELSE UNCHANGED txSubVars
  /\ IF conn[c].closing = 3 THEN doUnsubscribeAddresses(c) ELSE UNCHANGED addrSubVars
  /\ IF conn[c].closing = 4 THEN doUnsubscribeFiatRates(c) ELSE UNCHANGED fiatSubVars
  /\ wsLimiter' = IF conn[c].closing = 5 THEN Released(c) ELSE wsLimiter
  /\ activeChannels' = IF conn[c].closing = 6 THEN activeChannels \ {c} ELSE activeChannels
  /\ UNCHANGED <<wsPlan, work, async, activeRequests, shutdown, wsBlockedIPs, wsClock>>

(***************************************************************************)
(* Requests                                                                *)
(***************************************************************************)

Become(g, h) == work' = (work \ {g}) \cup {h}

\* The goroutine has its answer, or none to give.
Answer(g) == Become(g, [g EXCEPT !.pc = "respond"])

\* getAccountInfo counts the descriptors of a connection and drops a client past the limit.
getAccountInfo(g) ==
  LET c == g.c
      ch == [conn[c] EXCEPT !.descriptors = @ \cup {g.m.desc}]
      over == GetAccountInfoLimit > 0 /\ Cardinality(ch.descriptors) > GetAccountInfoLimit
  IN  /\ conn' = [conn EXCEPT ![c] = IF over THEN closeChannel(ch, "request") ELSE ch]
      /\ Become(g, [g EXCEPT !.pc = IF ~over THEN "respond" ELSE IF ch.alive THEN "closing" ELSE "finish"])
      /\ UNCHANGED subVars

\* The endpoint's own cap, taken before the answer is computed.
getMempoolFilters(g) ==
  LET free == conn[g.c].filterSlots < MempoolFiltersResponses
  IN  /\ conn' = [conn EXCEPT ![g.c].filterSlots = IF free THEN @ + 1 ELSE @]
      /\ Become(g, [g EXCEPT !.pc = "respond", !.holds = free])
      /\ UNCHANGED subVars

Subscribe(g) ==
  LET c == g.c
      kind == g.m.kind
  IN  /\ conn' = [conn EXCEPT ![c].addrDescs = CASE kind = "subscribeAddresses" -> g.m.descs
                                                 [] kind = "unsubscribeAddresses" -> {} [] OTHER -> @]
      /\ newBlockSubscriptions' = CASE kind = "subscribeNewBlock" -> newBlockSubscriptions \cup {c}
                                    [] kind = "unsubscribeNewBlock" -> newBlockSubscriptions \ {c}
                                    [] OTHER -> newBlockSubscriptions
      /\ newTransactionSubscriptions' = CASE kind = "subscribeNewTransaction" -> newTransactionSubscriptions \cup {c}
                                          [] kind = "unsubscribeNewTransaction" -> newTransactionSubscriptions \ {c}
                                          [] OTHER -> newTransactionSubscriptions
      /\ CASE kind = "subscribeAddresses" -> subscribeAddresses(c, g.m)
           [] kind = "unsubscribeAddresses" -> doUnsubscribeAddresses(c)
           [] OTHER -> UNCHANGED addrSubVars
      /\ CASE kind = "subscribeFiatRates" -> subscribeFiatRates(c, g.m)
           [] kind = "unsubscribeFiatRates" -> doUnsubscribeFiatRates(c)
           [] OTHER -> UNCHANGED fiatSubVars
      /\ Answer(g)

\* The handler of a request; "read" stands for the handlers that only read.
requestHandlers(g) ==
  /\ g.g = "request" /\ g.pc = "run"
  /\ CASE g.m.kind = "getAccountInfo" -> getAccountInfo(g)
       [] g.m.kind = "getMempoolFilters" -> getMempoolFilters(g)
       [] g.m.kind = "read" -> Answer(g) /\ UNCHANGED <<conn, subVars>>
       [] g.m.kind = "unknown" -> Become(g, [g EXCEPT !.pc = "finish"]) /\ UNCHANGED <<conn, subVars>>
       [] OTHER -> Subscribe(g)
  /\ UNCHANGED <<wsPlan, async, activeChannels, activeRequests, shutdown, limitVars, wsClock>>

\* The deferred answer: the response owns the endpoint slot from here on.
onRequest(g) ==
  /\ g.g = "request" /\ g.pc = "respond"
  /\ conn' = [conn EXCEPT ![g.c] = DataOut(@, [kind |-> g.m.kind, holds |-> g.holds])]
  /\ Become(g, [g EXCEPT !.pc = "finish", !.holds = FALSE])
  /\ UNCHANGED <<wsPlan, async, subVars, activeChannels, activeRequests, shutdown, limitVars, wsClock>>

\* A request that closed its channel goes on when onDisconnect is through.
RequestClosed(g) ==
  /\ g.g = "request" /\ g.pc = "closing" /\ conn[g.c].closing = Closed
  /\ Become(g, [g EXCEPT !.pc = "finish"])
  /\ UNCHANGED <<wsPlan, conn, async, subVars, activeChannels, activeRequests, shutdown, limitVars, wsClock>>

\* releaseRequestSlot, and workDone for every tracked goroutine.
workDone(g) ==
  /\ g.pc = "finish"
  /\ work' = work \ {g} /\ activeRequests' = activeRequests - 1
  /\ conn' = IF g.g = "request" THEN [conn EXCEPT ![g.c].pending = @ - 1] ELSE conn
  /\ UNCHANGED <<wsPlan, async, subVars, activeChannels, shutdown, limitVars, wsClock>>

(***************************************************************************)
(* Notifications. A transaction is the set of descriptors it touches;      *)
(* descriptors of inputs that cannot be resolved are missed.               *)
(***************************************************************************)

Broadcast(chans, kind) == conn' = [c \in Conn |-> IF c \in chans THEN DataOut(conn[c], Reply(kind)) ELSE conn[c]]

\* getNewTxSubscriptions: the touched descriptors somebody wants to hear of.
getNewTxSubscriptions(touched, newBlockTxsOnly) ==
  {d \in touched : \E s \in addressSubscriptions : s.desc = d /\ (newBlockTxsOnly => s.nbt)}

Spawn(g) == work' = work \cup {g} /\ activeRequests' = activeRequests + 1

OnNewBlock ==
  /\ wsPlan.blocks # <<>>
  /\ wsPlan' = [wsPlan EXCEPT !.blocks = Tail(@)]
  /\ async' = async + 1
  /\ IF newBlockTxsSubscriptionCount > 0 /\ trackWork
     THEN Spawn([g |-> "block", id |-> Len(wsPlan.blocks), txs |-> Head(wsPlan.blocks), pc |-> "match"])
     ELSE UNCHANGED <<work, activeRequests>>
  /\ UNCHANGED <<conn, subVars, activeChannels, shutdown, limitVars, wsClock>>

onNewBlockAsync ==
  /\ async > 0
  /\ async' = async - 1 /\ Broadcast(newBlockSubscriptions, "block")
  /\ UNCHANGED <<wsPlan, work, subVars, activeChannels, activeRequests, shutdown, limitVars, wsClock>>

\* The next transaction of a connected block; its inputs' descriptors are found
\* through the transaction cache, best effort.
publishNewBlockTxsByAddr(g) ==
  LET next == [g EXCEPT !.txs = Tail(@)]
      Finish == Become(g, [g EXCEPT !.pc = "finish"]) /\ UNCHANGED activeRequests
      Match(subscribed) ==
        IF subscribed = {} THEN Become(g, next) /\ UNCHANGED activeRequests
        ELSE IF ~trackWork THEN Finish
        ELSE /\ work' = (work \ {g}) \cup {next, [g |-> "tx", id |-> <<g.id, Len(g.txs)>>, todo |-> subscribed,
                                                  nbt |-> TRUE, pc |-> "convert"]}
             /\ activeRequests' = activeRequests + 1
  IN  /\ g.g = "block" /\ g.pc = "match"
      /\ IF g.txs = <<>> THEN Finish
         ELSE \E found \in SUBSET g.txs[1].ins : Match(getNewTxSubscriptions(g.txs[1].outs \cup found, TRUE))
      /\ UNCHANGED <<wsPlan, conn, async, subVars, activeChannels, shutdown, limitVars, wsClock>>

OnNewTx ==
  /\ wsPlan.txs # <<>>
  /\ wsPlan' = [wsPlan EXCEPT !.txs = Tail(@)]
  /\ LET subscribed == getNewTxSubscriptions(Head(wsPlan.txs), FALSE)
     IN  IF (newTransactionSubscriptions # {} \/ subscribed # {}) /\ trackWork
         THEN Spawn([g |-> "tx", id |-> <<"mempool", Len(wsPlan.txs)>>, todo |-> subscribed, nbt |-> FALSE, pc |-> "convert"])
         ELSE UNCHANGED <<work, activeRequests>>
  /\ UNCHANGED <<conn, async, subVars, activeChannels, shutdown, limitVars, wsClock>>

\* Conversion to the api form may fail, which ends the notification; a mempool
\* transaction then goes to the subscribers of all transactions.
onNewTxAsync(g) ==
  /\ g.g = "tx" /\ g.pc = "convert"
  /\ \/ /\ Become(g, [g EXCEPT !.pc = "finish"])
        /\ UNCHANGED conn
     \/ /\ Become(g, [g EXCEPT !.pc = IF g.todo = {} THEN "finish" ELSE "send"])
        /\ IF g.nbt THEN UNCHANGED conn ELSE Broadcast(newTransactionSubscriptions, "tx")
  /\ UNCHANGED <<wsPlan, async, subVars, activeChannels, activeRequests, shutdown, limitVars, wsClock>>

\* To the subscribers the descriptor has now.
sendOnNewTxAddr(g) ==
  /\ g.g = "tx" /\ g.pc = "send"
  /\ \E d \in g.todo :
       /\ Broadcast({s.c : s \in {x \in addressSubscriptions : x.desc = d /\ (g.nbt => x.nbt)}}, "addr")
       /\ Become(g, [g EXCEPT !.todo = @ \ {d}, !.pc = IF g.todo = {d} THEN "finish" ELSE "send"])
  /\ UNCHANGED <<wsPlan, async, subVars, activeChannels, activeRequests, shutdown, limitVars, wsClock>>

\* To the subscribers of a quoted currency, and of all currencies.
OnNewFiatRatesTicker ==
  /\ wsPlan.tickers # <<>>
  /\ wsPlan' = [wsPlan EXCEPT !.tickers = Tail(@)]
  /\ Broadcast({s.c : s \in {x \in fiatRatesSubscriptions : x.currency \in Head(wsPlan.tickers) \cup {"!ALL!"}}}, "rates")
  /\ UNCHANGED <<work, async, subVars, activeChannels, activeRequests, shutdown, limitVars, wsClock>>

(***************************************************************************)
(* Shutdown, and the clock                                                 *)
(***************************************************************************)

Shutdown ==
  /\ shutdown.at = "running" /\ wsPlan.stops
  /\ shutdown' = [at |-> "closing", todo |-> activeChannels]
  /\ UNCHANGED <<wsPlan, conn, work, async, subVars, activeChannels, activeRequests, limitVars, wsClock>>

\* Closes one channel after the other, each with its onDisconnect.
ShutdownChannel(c) ==
  /\ shutdown.at = "closing" /\ c \in shutdown.todo
  /\ \A d \in Conn : conn[d].by = "shutdown" => conn[d].closing = Closed
  /\ conn' = [conn EXCEPT ![c] = closeChannel(@, "shutdown")]
  /\ shutdown' = [shutdown EXCEPT !.todo = @ \ {c}]
  /\ UNCHANGED <<wsPlan, work, async, subVars, activeChannels, activeRequests, limitVars, wsClock>>

\* Waits for requestWg, past the deadline of its context too; RocksDB is closed after it.
ShutdownWait ==
  /\ shutdown.at = "closing" /\ shutdown.todo = {}
  /\ \A d \in Conn : conn[d].by = "shutdown" => conn[d].closing = Closed
  /\ activeRequests = 0
  /\ shutdown' = [shutdown EXCEPT !.at = "closed"]
  /\ UNCHANGED <<wsPlan, conn, work, async, subVars, activeChannels, activeRequests, limitVars, wsClock>>

\* The maintenance ticker of the limiter and the blocklist.
runWebsocketLimiterMaintenance ==
  /\ wsClock < wsPlan.clock
  /\ wsClock' = wsClock + 1
  /\ \/ UNCHANGED limitVars
     \/ /\ wsLimiter' = sweepLocked(wsLimiter, wsClock + 1)
        /\ wsBlockedIPs' = IF ipBlockEnabled THEN SweepWsBlockedIPs(wsBlockedIPs, wsClock + 1) ELSE wsBlockedIPs
  /\ UNCHANGED <<wsPlan, conn, work, async, subVars, activeChannels, activeRequests, shutdown>>

WsConn(c) ==
  \/ ServeHTTP(c) \/ ConnectionAccept(c) \/ UpgradeFails(c) \/ registerChannel(c)
  \/ inputLoop(c) \/ OutputTake(c) \/ outputLoop(c) \/ PeerCloses(c) \/ onDisconnect(c) \/ ShutdownChannel(c)

WsWork(g) ==
  \/ requestHandlers(g) \/ onRequest(g) \/ RequestClosed(g) \/ workDone(g)
  \/ publishNewBlockTxsByAddr(g) \/ onNewTxAsync(g) \/ sendOnNewTxAddr(g)

WsNext ==
  \/ \E c \in Conn : WsConn(c)
  \/ \E g \in work : WsWork(g)
  \/ OnNewBlock \/ onNewBlockAsync \/ OnNewTx \/ OnNewFiatRatesTicker
  \/ Shutdown \/ ShutdownWait \/ runWebsocketLimiterMaintenance

\* The server's own goroutines run on; clients, callbacks, the clock and the signal need not.
WsOwn(c) == registerChannel(c) \/ inputLoop(c) \/ OutputTake(c) \/ outputLoop(c) \/ onDisconnect(c) \/ ShutdownChannel(c)
WsFairness ==
  /\ \A c \in Conn : WF_wsVars(WsOwn(c))
  /\ WF_wsVars(\E g \in work : WsWork(g))
  /\ WF_wsVars(ShutdownWait)

(***************************************************************************)
(* Properties                                                              *)
(***************************************************************************)

\* Every slot a connection counts as taken is held by somebody: a pending slot by
\* a request goroutine, a getMempoolFilters slot by a request, a queued response or
\* the one being written. A slot lost on an overflow, on a close while a response is
\* computed or in the drained queue would starve the client for good; one released
\* twice would block finalize on an empty semaphore.
SlotsHeld ==
  \A c \in Conn :
    LET mine == {g \in work : g.g = "request" /\ g.c = c}
    IN  /\ conn[c].pending = Cardinality(mine)
        /\ conn[c].filterSlots = Cardinality({g \in mine : g.holds})
                                 + Len(SelectSeq(conn[c].out \o conn[c].writing, LAMBDA m : m.holds))
        /\ ~conn[c].alive => conn[c].out = <<>>

\* The shared books agree with the connections: the limiter's active count of a
\* client is the number of its connections between accept and release, whatever
\* sweep ran in between; newBlockTxsSubscriptionCount is the number of opted-in
\* address subscriptions, although subscribe replaces and disconnect races it.
BooksBalance ==
  /\ \A ip \in {wsPlan.ip[c] : c \in Conn} :
       LET held == {c \in Conn \ wsPlan.white : /\ wsPlan.ip[c] = ip
                                              /\ conn[c].pc \in {"accepted", "open"} /\ conn[c].closing <= 5}
       IN  Cardinality(held) = IF ip \in DOMAIN wsLimiter.clients THEN wsLimiter.clients[ip].active ELSE 0
  /\ newBlockTxsSubscriptionCount = Cardinality(OptedIn(addressSubscriptions))

\* RocksDB is closed only after the last goroutine that may read it: once Shutdown
\* has returned no request and no publisher runs, and none starts.
NoReadAfterClose == shutdown.at = "closed" => work = {}

\* Whatever ends a connection (a peer, a limit, an overflow that only closes the
\* socket, a write error), it is taken off every book in the end; and Shutdown
\* returns although requests were running and channels being closed when it began.
Settles ==
  /\ \A c \in Conn : []<>(conn[c].pc = "open" /\ ~conn[c].open => conn[c].closing = Closed /\ c \notin activeChannels)
  /\ []<>(shutdown.at \in {"running", "closed"})

\* "Skip per-tx address matching when nobody opted into newBlockTxs" (OnNewBlock):
\* when all requests of a closed connection are through, the count that guards the
\* matching is made up of connections that still exist.
NobodyOptedIn ==
  newBlockTxsSubscriptionCount > 0 =>
    \/ \E c \in Conn : conn[c].closing < Closed /\ conn[c].pc = "open"
    \/ \E g \in work : g.g = "request"
=============================================================================
