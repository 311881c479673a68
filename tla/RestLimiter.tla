----------------------------- MODULE RestLimiter -----------------------------
(***************************************************************************)
(* The limiter of the public REST and explorer routes                      *)
(* (server/rest_rate_limiter.go): a token bucket and a concurrency cap per *)
(* client, a temporary block after repeated breaches, idle entries swept,  *)
(* the table itself capped. Tokens are counted in 1/RestRateWindow.        *)
(***************************************************************************)
EXTENDS ClientLimits

CONSTANTS
  RestPlans,             \* the requests ([route, peer, cf, cf6, real], route is limited or not) of a scenario, how many may run at once, and until when
  TrustedProxies, CloudflareNets, TrustPseudoIPv6, RestWhitelist,
  RestRateLimit, RestRateWindow, RestBurst, RestMaxConcurrent, RestStateTTL, RestBlockDuration,
  RestCleanupInterval, BreachWindow, BreachBlockThreshold, BreachMinSpacing, MaxTrackedClients

ASSUME RestAssumption == RestBlockDuration \in Int

VARIABLES
  restPlan,
  restClients,       \* a function from the keys tracked
  restLastCleanup,
  restInFlight,      \* a sequence of [r, tracked], the requests being served
  restGranted,       \* the times a tracked request of a key was admitted (history, in plans that count)
  restClock

restVars == <<restPlan, restClients, restLastCleanup, restInFlight, restGranted, restClock>>

NewClient == [active |-> 0, tokens |-> 0, lastRefill |-> NoTime, breaches |-> <<>>, blockedUntil |-> NoTime, lastSeen |-> NoTime]

RestInit ==
  /\ restPlan \in RestPlans
  /\ restClients = <<>> /\ restLastCleanup = NoTime
  /\ restInFlight = <<>> /\ restGranted = <<>> /\ restClock = 0

At(f, k) == IF k \in DOMAIN f THEN f[k] ELSE NewClient
Put(f, k, v) == [x \in DOMAIN f \cup {k} |-> IF x = k THEN v ELSE f[x]]

\* Mutant: a block that has not run out does not keep the client.
MutRestSweepLocked(clients, now) ==
  Restrict(clients, {k \in DOMAIN clients : clients[k].active # 0 \/ now - clients[k].lastSeen <= RestStateTTL})

restSweepLocked(clients, now) ==
  LET trimmed == [k \in DOMAIN clients |-> [clients[k] EXCEPT !.breaches = trimTimes(@, now - BreachWindow)]]
  IN  Restrict(trimmed, {k \in DOMAIN clients : \/ clients[k].active # 0
                                                \/ clients[k].blockedUntil > now
                                                \/ now - clients[k].lastSeen <= RestStateTTL})

restCleanupDue(now) == restLastCleanup = NoTime \/ now - restLastCleanup >= RestCleanupInterval

\* The bucket of client c after a request: [ok, client].
allow(c, now) ==
  LET fresh == c.lastRefill = NoTime
      from == IF fresh THEN now ELSE c.lastRefill
      at == IF now < from THEN from ELSE now
      full == RestBurst * RestRateWindow
      have == (IF fresh THEN full ELSE c.tokens) + (at - from) * RestRateLimit
      tokens == IF have > full THEN full ELSE have
      ok == tokens >= RestRateWindow
  IN  [ok |-> ok, client |-> [c EXCEPT !.tokens = IF ok THEN tokens - RestRateWindow ELSE tokens, !.lastRefill = at]]

recordBreachLocked(clients, key, blockable, now) ==
  LET c == [At(clients, key) EXCEPT !.lastSeen = now, !.breaches = trimTimes(@, now - BreachWindow)]
      again == c.breaches # <<>> /\ now - c.breaches[Len(c.breaches)] < BreachMinSpacing
      all == Append(c.breaches, now)
  IN  IF RestBlockDuration <= 0 \/ ~blockable \/ (key \notin DOMAIN clients /\ Cardinality(DOMAIN clients) >= MaxTrackedClients)
      THEN clients
      ELSE Put(clients, key,
               IF again THEN c
               ELSE IF Len(all) >= BreachBlockThreshold
                    THEN [c EXCEPT !.blockedUntil = now + RestBlockDuration, !.breaches = <<>>]
                    ELSE [c EXCEPT !.breaches = all])

\* The limiter's answer to a request: [accepted, tracked, sweeps, clients].
restAccept(clients0, ipKey, bKey, blockable, now) ==
  LET clients == IF restCleanupDue(now) THEN restSweepLocked(clients0, now) ELSE clients0
      blocked == bKey \in DOMAIN clients /\ clients[bKey].blockedUntil > now
      full == ipKey \notin DOMAIN clients /\ Cardinality(DOMAIN clients) >= MaxTrackedClients
      swept == IF full THEN restSweepLocked(clients, now) ELSE clients
      untracked == ipKey \notin DOMAIN swept /\ Cardinality(DOMAIN swept) >= MaxTrackedClients
      client == [At(swept, ipKey) EXCEPT !.lastSeen = now]
      seen == Put(swept, ipKey, client)
      bucket == IF RestRateLimit > 0 THEN allow(client, now) ELSE [ok |-> TRUE, client |-> client]
      sweeps == restCleanupDue(now) \/ (full /\ ~blocked)
      Reject(cs) == [accepted |-> FALSE, tracked |-> FALSE, sweeps |-> sweeps, clients |-> cs]
  IN  CASE blocked -> Reject([clients EXCEPT ![bKey].lastSeen = now])
        [] ~blocked /\ untracked -> [accepted |-> TRUE, tracked |-> FALSE, sweeps |-> sweeps, clients |-> swept]
        [] ~blocked /\ ~untracked /\ RestMaxConcurrent > 0 /\ client.active >= RestMaxConcurrent ->
             Reject(recordBreachLocked(seen, bKey, blockable, now))
        [] ~blocked /\ ~untracked /\ ~(RestMaxConcurrent > 0 /\ client.active >= RestMaxConcurrent) /\ ~bucket.ok ->
             Reject(recordBreachLocked(Put(seen, ipKey, bucket.client), bKey, blockable, now))
        [] OTHER -> [accepted |-> TRUE, tracked |-> TRUE, sweeps |-> sweeps,
                     clients |-> Put(seen, ipKey, [bucket.client EXCEPT !.active = @ + 1])]

restRelease(clients, ipKey, now) ==
  LET freed == [clients EXCEPT ![ipKey].active = IF @ > 0 THEN @ - 1 ELSE @, ![ipKey].lastSeen = now]
  IN  IF ipKey \notin DOMAIN clients THEN clients
      ELSE IF restCleanupDue(now) THEN restSweepLocked(freed, now) ELSE freed

(***************************************************************************)
(* wrapPublic                                                              *)
(***************************************************************************)

clientOf(r) == resolveClientIP(r, TrustedProxies, CloudflareNets, TrustPseudoIPv6)

\* Requests that reach the limiter: a limited route, a client that is told apart, not a whitelisted one.
isRateLimited(r) ==
  LET who == clientOf(r)
  IN  /\ r.route = "limited"
      /\ ~(~who.fromHeader /\ isLocalOrTrustedProxyIP(who.ip, TrustedProxies))
      /\ ~isWhitelistedIP(who.ip, RestWhitelist)

Blockable(r) == clientOf(r).blockSafe /\ isBlockableKey(clientOf(r).ip, TrustedProxies, CloudflareNets)
ipKeyOf(r) == rateLimitKey(clientOf(r).ip)
bKeyOf(r) == IF RestBlockDuration > 0 THEN blockKey(clientOf(r).ip) ELSE <<"none">>

wrapPublic(r) ==
  LET d == restAccept(restClients, ipKeyOf(r), bKeyOf(r), RestBlockDuration > 0 /\ Blockable(r), restClock)
      k == ipKeyOf(r)
  IN  /\ Len(restInFlight) < restPlan.atOnce
      /\ isRateLimited(r)
      /\ restClients' = d.clients
      /\ restLastCleanup' = IF d.sweeps THEN restClock ELSE restLastCleanup
      /\ restInFlight' = IF d.accepted THEN Append(restInFlight, [r |-> r, tracked |-> d.tracked]) ELSE restInFlight
      /\ restGranted' = IF d.tracked /\ restPlan.counted
                        THEN [x \in DOMAIN restGranted \cup {k} |->
                                (IF x \in DOMAIN restGranted THEN restGranted[x] ELSE <<>>) \o (IF x = k THEN <<restClock>> ELSE <<>>)]
                        ELSE restGranted
      /\ UNCHANGED <<restPlan, restClock>>

\* The handler returns; only a tracked request is released.
RequestDone(i) ==
  /\ i \in DOMAIN restInFlight
  /\ LET tracked == restInFlight[i].tracked
         k == ipKeyOf(restInFlight[i].r)
     IN  /\ restClients' = IF tracked THEN restRelease(restClients, k, restClock) ELSE restClients
         /\ restLastCleanup' = IF tracked /\ k \in DOMAIN restClients /\ restCleanupDue(restClock) THEN restClock ELSE restLastCleanup
  /\ restInFlight' = SubSeq(restInFlight, 1, i - 1) \o SubSeq(restInFlight, i + 1, Len(restInFlight))
  /\ UNCHANGED <<restPlan, restGranted, restClock>>

\* Time passes, with or without a tick of the maintenance goroutine.
runMaintenance ==
  /\ restClock < restPlan.until
  /\ restClock' = restClock + 1
  /\ \/ UNCHANGED <<restClients, restLastCleanup>>
     \/ restClients' = restSweepLocked(restClients, restClock + 1) /\ restLastCleanup' = restClock + 1
  /\ UNCHANGED <<restPlan, restInFlight, restGranted>>

RestNext ==
  \/ \E r \in restPlan.requests : wrapPublic(r)
  \/ \E i \in DOMAIN restInFlight : RequestDone(i)
  \/ runMaintenance

RestSpec == RestInit /\ [][RestNext]_restVars

(***************************************************************************)
(* Properties                                                              *)
(***************************************************************************)

\* A client's active count is the number of its tracked requests being served,
\* whatever was swept, blocked or admitted untracked (fail open) in between.
RestActiveExact ==
  \A k \in {ipKeyOf(r) : r \in restPlan.requests} :
    At(restClients, k).active = Len(SelectSeq(restInFlight, LAMBDA x : x.tracked /\ ipKeyOf(x.r) = k))

\* The token bucket's promise over every interval: a tracked client gets at most a
\* burst and what refilled meanwhile, although its entry may be swept and begun anew.
RateBounded ==
  \A k \in DOMAIN restGranted : \A i \in DOMAIN restGranted[k] :
    (Len(restGranted[k]) - i + 1) * RestRateWindow
      <= RestBurst * RestRateWindow + (restGranted[k][Len(restGranted[k])] - restGranted[k][i]) * RestRateLimit

\* A block lasts its whole duration: no sweep, no later request and no cap of the
\* table takes it back, although the blocked key is seen no more.
BlockHolds ==
  [][\A k \in DOMAIN restClients : restClients[k].blockedUntil > restClock' =>
       k \in DOMAIN restClients' /\ restClients'[k].blockedUntil >= restClients[k].blockedUntil]_restVars

\* Attribution (resolveClientIP with isBlockableKey): with Cloudflare verification on,
\* a peer that is neither infrastructure nor an edge is always counted as itself,
\* whatever headers it sends; and an address of the deployment's own proxies or of
\* the edge is never blocked.
AttributionSound ==
  \A r \in restPlan.requests :
    /\ (CloudflareNets # {} /\ parseAddr(r.peer) /\ r.peer.net \notin {"private"} \cup TrustedProxies \cup CloudflareNets)
         => clientOf(r).ip = r.peer
    /\ Blockable(r) => clientOf(r).ip.net \notin {"private"} \cup TrustedProxies \cup CloudflareNets
==============================================================================
