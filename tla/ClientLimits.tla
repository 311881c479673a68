---------------------------- MODULE ClientLimits ----------------------------
(***************************************************************************)
(* Who a client is and how much of the server it may take: the address a   *)
(* request is attributed to (server/client_ip.go), the websocket           *)
(* connection limiter and message counter                                  *)
(* (server/websocket_rate_limiter.go) and the websocket blocklist          *)
(* (common/internalstate.go). Pure functions of the tables they keep; the  *)
(* modules Websocket and RestLimiter hold the tables.                      *)
(***************************************************************************)
EXTENDS Integers, Sequences, FiniteSetsExt, Functions

CONSTANTS
  MaxConnections, MaxAttempts,           \* 0 switches a limit off
  AttemptWindow, LimiterTTL, CleanupInterval,   \* in ticks
  RateBuckets                            \* messageRateWindowBuckets, one tick each

NoTime == -1

(***************************************************************************)
(* Addresses. An address is [net, host]: net is its /64 (its own for       *)
(* IPv4), class what netip says of it. Prefix lists are sets of nets.      *)
(***************************************************************************)

Address == [v6 : BOOLEAN, net : {"private", "linklocal", "edge", "proxy", "office", "home"}, host : 1 .. 2]
NoHeader == [v6 |-> FALSE, net |-> "none", host |-> 0]
Garbled == [v6 |-> FALSE, net |-> "garbled", host |-> 0]

parseAddr(value) == value \notin {NoHeader, Garbled}

isTrustedProxy(addr, extras) == addr.net = "private" \/ addr.net \in extras

\* The client of request r: [peer, cf, cf6, real], the TCP peer and the headers.
resolveClientIP(r, trusted, cloudflare, pseudo) ==
  LET cfTrusted == /\ trusted = {}
                   /\ cloudflare = {} \/ (parseAddr(r.peer) /\ isTrustedProxy(r.peer, cloudflare))
      fromCF6 == cfTrusted /\ pseudo /\ parseAddr(r.cf6)
      fromCF == cfTrusted /\ ~fromCF6 /\ parseAddr(r.cf)
      fromReal == /\ ~fromCF6 /\ ~fromCF
                  /\ parseAddr(r.peer) /\ isTrustedProxy(r.peer, trusted) /\ parseAddr(r.real)
  IN  [ip |-> CASE fromCF6 -> r.cf6 [] fromCF -> r.cf [] fromReal -> r.real [] OTHER -> r.peer,
       blockSafe |-> CASE fromCF6 \/ fromCF -> cloudflare # {} [] fromReal -> TRUE
                       [] OTHER -> r.cf = NoHeader /\ r.cf6 = NoHeader,
       fromHeader |-> fromCF6 \/ fromCF \/ fromReal]

rateLimitKey(ip) == IF ip.v6 THEN <<"/64", ip.net>> ELSE <<ip.net, ip.host>>
blockKey(ip) == IF ip.v6 THEN <<"/128", ip.net, ip.host>> ELSE <<ip.net, ip.host>>

isBlockableKey(ip, trusted, cloudflare) ==
  parseAddr(ip) /\ ip.net \notin {"private", "linklocal"} \cup trusted \cup cloudflare

isLocalOrTrustedProxyIP(ip, trusted) == parseAddr(ip) /\ isTrustedProxy(ip, trusted)
isWhitelistedIP(addr, prefixes) == parseAddr(addr) /\ addr.net \in prefixes

(***************************************************************************)
(* The connection limiter: [clients, lastCleanup], a client is             *)
(* [active, attempts, lastSeen].                                           *)
(***************************************************************************)

newWebsocketConnectionLimiter == [clients |-> <<>>, lastCleanup |-> NoTime]

trimTimes(times, cutoff) == SelectSeq(times, LAMBDA t : t >= cutoff)
trimAttempts(client, now) == [client EXCEPT !.attempts = trimTimes(@, now - AttemptWindow)]

sweepLocked(l, now) ==
  LET kept == {ip \in DOMAIN l.clients : l.clients[ip].active # 0 \/ now - l.clients[ip].lastSeen <= LimiterTTL}
  IN  [clients |-> [ip \in kept |-> trimAttempts(l.clients[ip], now)], lastCleanup |-> now]

cleanupLocked(l, now) ==
  IF l.lastCleanup # NoTime /\ now - l.lastCleanup < CleanupInterval THEN l ELSE sweepLocked(l, now)

\* What accept answers a new connection of ip, and the limiter after it.
accept(l0, ip, now) ==
  LET l == cleanupLocked(l0, now)
      old == IF ip \in DOMAIN l.clients THEN l.clients[ip] ELSE [active |-> 0, attempts |-> <<>>, lastSeen |-> now]
      client == trimAttempts([old EXCEPT !.lastSeen = now], now)
      Put(c) == [l EXCEPT !.clients = [k \in DOMAIN @ \cup {ip} |-> IF k = ip THEN c ELSE @[k]]]
  IN  IF \/ MaxConnections > 0 /\ client.active >= MaxConnections
         \/ MaxAttempts > 0 /\ Len(client.attempts) >= MaxAttempts
      THEN [ok |-> FALSE, limiter |-> Put(client)]
      ELSE [ok |-> TRUE, limiter |-> Put([client EXCEPT !.attempts = Append(@, now), !.active = @ + 1])]

release(l, ip, now) ==
  IF ip \notin DOMAIN l.clients THEN l
  ELSE cleanupLocked([l EXCEPT !.clients[ip].active = IF @ > 0 THEN @ - 1 ELSE @, !.clients[ip].lastSeen = now], now)

(***************************************************************************)
(* The message counter of a connection: a ring of buckets                  *)
(***************************************************************************)

newConnMessageRate == [counts |-> [s \in 0 .. RateBuckets - 1 |-> 0], total |-> 0, lastBucket |-> NoTime]

\* The counter after a message in bucket now; its total is what observe returns.
observe(m, now) ==
  LET last == IF m.lastBucket = NoTime THEN now ELSE m.lastBucket
      idx == IF now < last THEN last ELSE now
      stale == {(last + i) % RateBuckets : i \in 1 .. IF idx - last > RateBuckets THEN RateBuckets ELSE idx - last}
      gone == MapThenSumSet(LAMBDA s : m.counts[s], stale)
      slot == idx % RateBuckets
  IN  [counts |-> [s \in DOMAIN m.counts |-> (IF s \in stale THEN 0 ELSE m.counts[s]) + (IF s = slot THEN 1 ELSE 0)],
       total |-> m.total - gone + 1, lastBucket |-> idx]

(***************************************************************************)
(* The websocket blocklist: a function from blocked keys to                *)
(* [at, until, breaches]                                                   *)
(***************************************************************************)

BlockWsIP(blocked, key, until, now) ==
  LET live == key \in DOMAIN blocked /\ now < blocked[key].until
      e == IF live THEN blocked[key] ELSE [at |-> now, until |-> NoTime, breaches |-> 0]
      e2 == [e EXCEPT !.breaches = @ + 1, !.until = IF until > @ THEN until ELSE @]
  IN  [k \in DOMAIN blocked \cup {key} |-> IF k = key THEN e2 ELSE blocked[k]]

IsWsIPBlocked(blocked, key, now) == key \in DOMAIN blocked /\ blocked[key].at <= now /\ now < blocked[key].until

SweepWsBlockedIPs(blocked, now) == Restrict(blocked, {k \in DOMAIN blocked : now < blocked[k].until})
=============================================================================
