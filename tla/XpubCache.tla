------------------------------ MODULE XpubCache ------------------------------
(* The cache of derived accounts (api/xpub.go, api/xpub_cache.go): getXpubData *)
(* with its lock-free fast path, the loop that scans the addresses while      *)
(* blocks come and go, the copy-on-write of the published address arrays, and *)
(* the bounds of the cache.                                                   *)
EXTENDS Integers, Sequences, FiniteSets, SequencesExt, FiniteSetsExt

CONSTANTS Descriptor,             \* the xpub descriptors
          XpubReader,             \* the goroutines that serve a request
          ChangeIndexes,          \* the chains of addresses of a descriptor, e.g. <<0, 1>>
          XpubBody,               \* block -> sequence of txids
          Pays,                   \* txid -> the addresses <<descriptor, change, index>> it touches
          XpubStart,              \* the chain indexed at the start
          XpubFloor,              \* the height that is never disconnected, above 0
          XpubPlans,              \* sets of requests: reader -> sequence of [desc, gap, history, filtered]
          MaxAddressDerivations,
          MaxCacheEntries, MaxCacheBytes, MaxCacheExpiration,
          MaxXpubMoves            \* bound on the connected and disconnected blocks and the ticks of the clock

VARIABLES xchain,        \* the indexed chain; a hash stands for the chain that ends in its block
          xheap,         \* the address arrays in memory: id -> change -> sequence of addresses
          cachedXpubs,   \* descriptor -> entry
          cachedXpubsBytes,
          xreaders,      \* the goroutines
          xclock, xmoves

xpubVars == <<xchain, xheap, cachedXpubs, cachedXpubsBytes, xreaders, xclock, xmoves>>

-----------------------------------------------------------------------------
(* The index (module BlockIndex): what it answers for an address.            *)
XHeight == Len(xchain) - 1
TxidsBetween(a, c, from, to) ==
  Reverse(FlattenSeq([i \in DOMAIN c |-> IF (i - 1) \in from..to THEN SelectSeq(XpubBody[c[i]], LAMBDA t : a \in Pays[t]) ELSE <<>>]))
BalanceOf(a, c) == ToSet(TxidsBetween(a, c, 0, Len(c) - 1))  \* the transactions the balance record sums up
GetBlockHash(c, h) == IF h < Len(c) THEN SubSeq(c, 1, h + 1) ELSE <<>>

-----------------------------------------------------------------------------
(* One address of an account, and the account.                               *)
NewAddress(balance) == [balance |-> balance, txids |-> <<>>, txs |-> 0, maxHeight |-> 0, complete |-> FALSE]
Used(ad) == ad.balance # {}
Addresses(arr) == {<<c, i>> \in (DOMAIN ChangeIndexes) \X (1..10) : i \in DOMAIN arr[c]}
LoadNeeded(ad) == Used(ad) /\ (~ad.complete \/ Cardinality(ad.balance) # ad.txs)
xpubTxidLoadNeeded(arr) == \E p \in Addresses(arr) : LoadNeeded(arr[p[1]][p[2]])
\* The transactions of all the addresses, each once; the sorting is in module AccountAnswers.
NotMerged == <<>>
MergedTxids(arr) == <<UNION {ToSet(arr[p[1]][p[2]].txids) : p \in Addresses(arr)}>>
FreshData(gap) == [gap |-> gap, dataHeight |-> 0, dataHash |-> <<>>, merged |-> NotMerged, arr |-> 0, accessed |-> 0,
                   bytes |-> 0, mixed |-> FALSE, tainted |-> FALSE]
xpubDataEstimatedBytes(arr, merged) ==
  LET all == Addresses(arr)
      size(ad) == 1 + Len(ad.txids) + (IF Used(ad) THEN 1 ELSE 0)
  IN  1 + (IF merged = NotMerged THEN 0 ELSE Cardinality(merged[1])) + MapThenSumSet(LAMBDA p : size(arr[p[1]][p[2]]), all)

\* The arrays no one refers to are free.
HeapIds == DOMAIN xheap
FreeId == CHOOSE k \in HeapIds : /\ \A d \in DOMAIN cachedXpubs : cachedXpubs[d].arr # k
                                 /\ \A r \in XpubReader : xreaders[r].data.arr # k
EmptyArray == [c \in DOMAIN ChangeIndexes |-> <<>>]

\* A goroutine: where it is, the request, the data it works on, whether their arrays are its own, the tip it works
\* for, and the place in the scan.
XIdle(plan) == [pc |-> "idle", plan |-> plan, req |-> [desc |-> "", gap |-> 0, history |-> FALSE, filtered |-> FALSE],
                data |-> FreshData(0), inCache |-> FALSE, owned |-> FALSE, best |-> <<>>, processed |-> <<>>,
                fork |-> FALSE, change |-> 1, index |-> 1, lastUsed |-> 0, minIndex |-> 0, to |-> 0, changed |-> FALSE,
                seen |-> EmptyArray]

XpubInit ==
  /\ xchain = XpubStart
  /\ xheap = [k \in 0..(2 * (Cardinality(Descriptor) + Cardinality(XpubReader))) |-> EmptyArray]
  /\ cachedXpubs = <<>>
  /\ cachedXpubsBytes = 0
  /\ \E plan \in XpubPlans : xreaders = [r \in XpubReader |-> XIdle(plan[r])]
  /\ xclock = 0
  /\ xmoves = 0

-----------------------------------------------------------------------------
(* The cache.  Whoever works on it holds its mutex, so each is one step.     *)
Cache == [map |-> cachedXpubs, bytes |-> cachedXpubsBytes]
deleteCachedXpubLocked(c, d) ==
  IF d \in DOMAIN c.map THEN [map |-> [e \in (DOMAIN c.map) \ {d} |-> c.map[e]], bytes |-> c.bytes - c.map[d].bytes] ELSE c
putCachedXpubLocked(c, d, data) ==
  LET cleared == deleteCachedXpubLocked(c, d)
      size == xpubDataEstimatedBytes(xheap[data.arr], data.merged)
  IN  [map |-> [e \in (DOMAIN cleared.map) \cup {d} |-> IF e = d THEN [data EXCEPT !.bytes = size] ELSE cleared.map[e]],
       bytes |-> cleared.bytes + size]
\* The least recently used entries go, until what is left fits.
Over(c) == Cardinality(DOMAIN c.map) > MaxCacheEntries \/ (DOMAIN c.map # {} /\ c.bytes > MaxCacheBytes)
trimXpubCacheItemsLocked(c) ==
  LET before(d, e) == c.map[d].accessed < c.map[e].accessed
      lru == SetToSortSeq(DOMAIN c.map, LAMBDA d, e : before(d, e))
      without(k) == FoldSet(LAMBDA i, rest : deleteCachedXpubLocked(rest, lru[i]), c, 1..k)
  IN  without(Min({k \in 0..Len(lru) : ~Over(without(k))}))
SetCache(c) == cachedXpubs' = c.map /\ cachedXpubsBytes' = c.bytes

evictXpubCacheItems ==
  LET expired == {d \in DOMAIN cachedXpubs : cachedXpubs[d].accessed < xclock - MaxCacheExpiration}
  IN  /\ expired # {}
      /\ SetCache(trimXpubCacheItemsLocked(FoldSet(LAMBDA d, c : deleteCachedXpubLocked(c, d), Cache, expired)))
      /\ UNCHANGED <<xchain, xheap, xreaders, xclock, xmoves>>

-----------------------------------------------------------------------------
(* getXpubData.                                                              *)
Become(r, x) == xreaders' = [xreaders EXCEPT ![r] = x]
AddressAt(x, i) == <<x.req.desc, ChangeIndexes[x.change], i - 1>>
Only(r, x) == Become(r, x) /\ UNCHANGED <<xchain, xheap, cachedXpubs, cachedXpubsBytes, xclock, xmoves>>

\* A request, and the first look at the cache; a descriptor too wide for the gap is refused.
getXpubData(r) ==
  LET x == xreaders[r]
      q == Head(x.plan)
      hit == q.desc \in DOMAIN cachedXpubs /\ cachedXpubs[q.desc].gap = q.gap
  IN  /\ x.pc = "idle"
      /\ x.plan # <<>>
      /\ Only(r, IF Len(ChangeIndexes) * q.gap > MaxAddressDerivations THEN XIdle(Tail(x.plan))
                 ELSE [XIdle(Tail(x.plan)) EXCEPT !.req = q, !.pc = IF hit THEN "cached" ELSE "lock",
                                                  !.data = IF hit THEN cachedXpubs[q.desc] ELSE @])

\* The fast path: the snapshot is of the tip and nothing is to be loaded.
getXpubDataCached(r) ==
  LET x == xreaders[r]
      arr == xheap[x.data.arr]
      warm == /\ xchain = x.data.dataHash
              /\ x.req.history => /\ ~xpubTxidLoadNeeded(arr)
                                  /\ x.data.merged # NotMerged \/ x.req.filtered
  IN  /\ x.pc = "cached"
      /\ Only(r, IF warm THEN [x EXCEPT !.pc = "bump", !.best = xchain, !.seen = arr]
                 ELSE [x EXCEPT !.pc = "lock", !.data = FreshData(0)])

\* The access time is stored with whatever entry is there by now.
BumpAccessed(r) ==
  LET x == xreaders[r] IN
  /\ x.pc = "bump"
  /\ cachedXpubs' = IF x.req.desc \in DOMAIN cachedXpubs THEN [cachedXpubs EXCEPT ![x.req.desc].accessed = xclock] ELSE cachedXpubs
  /\ Become(r, [x EXCEPT !.pc = "use"])
  /\ UNCHANGED <<xchain, xheap, cachedXpubsBytes, xclock, xmoves>>

Locked == {"loop", "hash", "rescan", "derive", "load", "publish"}
xpubUpdateLock(r) ==
  LET x == xreaders[r]
      inCache == x.req.desc \in DOMAIN cachedXpubs
  IN  /\ x.pc = "lock"
      /\ \A o \in XpubReader : xreaders[o].pc \in Locked => xreaders[o].req.desc # x.req.desc
      /\ Only(r, [x EXCEPT !.pc = "loop", !.inCache = inCache, !.owned = ~inCache,
                           !.data = IF inCache THEN cachedXpubs[x.req.desc] ELSE @])

\* Each round works for the tip it finds, and the rounds end when the tip is the one just worked for.
StartRound(r) ==
  LET x == xreaders[r] IN
  /\ x.pc = "loop"
  /\ Only(r, [x EXCEPT !.best = xchain, !.pc = IF xchain = x.processed THEN "publish" ELSE "hash"])

\* Where the scan goes on once the addresses arr of its change chain are scanned up to index - 1: further known ones,
\* the rest of a batch of new ones, a new batch while there are too few unused ones at the end, the next change
\* chain (scanned at least as far as this one), or the histories.
Derived(arr, c) == MapThenSumSet(LAMBDA k : Len(arr[k]), 1..(c - 1))
Batch(x, arr) ==
  LET len == Len(arr[x.change])
      to == Max({len + x.data.gap - (len - x.lastUsed), x.minIndex})
  IN  IF Derived(arr, x.change) + to > MaxAddressDerivations THEN [x EXCEPT !.pc = "error"]
      ELSE [x EXCEPT !.pc = "derive", !.to = to]
EnterChange(x, arr) ==
  IF Derived(arr, x.change) + Len(arr[x.change]) > MaxAddressDerivations THEN [x EXCEPT !.pc = "error"]
  ELSE IF arr[x.change] # <<>> THEN [x EXCEPT !.pc = "rescan"]
  ELSE Batch(x, arr)
Continue(x, arr) ==
  LET len == Len(arr[x.change]) IN
  IF x.index <= len THEN x
  ELSE IF x.pc = "derive" /\ len < x.to THEN x
  ELSE IF len - x.lastUsed < x.data.gap THEN Batch(x, arr)
  ELSE IF x.change < Len(ChangeIndexes)
       THEN EnterChange([x EXCEPT !.change = @ + 1, !.index = 1, !.lastUsed = 0, !.minIndex = x.lastUsed], arr)
  ELSE [x EXCEPT !.pc = IF x.req.history THEN "load" ELSE "loop", !.change = 1, !.index = 1]

\* An error ends the request; what it scanned is nobody's.
Proceed(r, x, arr) ==
  /\ Become(r, IF x.pc = "error" THEN XIdle(x.plan) ELSE x)
  /\ xheap' = [xheap EXCEPT ![x.data.arr] = arr]
  /\ UNCHANGED <<xchain, cachedXpubs, cachedXpubsBytes, xclock, xmoves>>

\* The first part of a round: a cached snapshot whose block is not at its height any more is of a fork; data that
\* are going to be changed are copied unless they are the reader's own.
CheckFork(r) ==
  LET x == xreaders[r]
      fresh == ~x.inCache \/ x.data.gap # x.req.gap
      data == IF fresh THEN FreshData(x.req.gap) ELSE x.data
      fork == ~fresh /\ GetBlockHash(xchain, data.dataHeight) # data.dataHash
      rescan == data.dataHeight < Len(x.best) - 1 \/ fork
      gone == ~IsPrefix(x.best, xchain)
      mine == fresh \/ x.owned
      copy == ~mine /\ (rescan \/ (x.req.history /\ xpubTxidLoadNeeded(xheap[data.arr])))
      arr == IF fresh THEN EmptyArray ELSE xheap[data.arr]
      id == IF fresh \/ copy THEN FreeId ELSE data.arr
      header == IF rescan THEN [data EXCEPT !.arr = id, !.dataHeight = Len(x.best) - 1, !.dataHash = x.best, !.merged = NotMerged,
                                            !.mixed = gone, !.tainted = gone \/ (@ /\ ~fork)]
                ELSE [data EXCEPT !.arr = id]
      y == [x EXCEPT !.data = header, !.owned = mine \/ copy, !.processed = x.best, !.fork = fork, !.changed = FALSE,
                     !.change = 1, !.index = 1, !.lastUsed = 0, !.minIndex = 0]
  IN  /\ x.pc = "hash"
      /\ Proceed(r, IF rescan THEN EnterChange(y, arr)
                    ELSE [y EXCEPT !.pc = IF x.req.history THEN "load" ELSE "loop"], arr)

\* Mutant: after a fork the transactions that were loaded are kept.
MutRescanAddress(r) ==
  LET x == xreaders[r]
      arr == xheap[x.data.arr]
      ad == [arr[x.change][x.index] EXCEPT !.balance = BalanceOf(AddressAt(x, x.index), xchain)]
      new == [arr EXCEPT ![x.change][x.index] = ad]
  IN  /\ x.pc = "rescan"
      /\ Proceed(r, Continue([x EXCEPT !.index = @ + 1, !.lastUsed = IF Used(ad) THEN x.index - 1 ELSE @], new), new)

\* A known address is read again; after a fork its transactions are forgotten.
RescanAddress(r) ==
  LET x == xreaders[r]
      arr == xheap[x.data.arr]
      old == arr[x.change][x.index]
      ad == [(IF x.fork THEN NewAddress({}) ELSE old) EXCEPT !.balance = BalanceOf(AddressAt(x, x.index), xchain)]
      new == [arr EXCEPT ![x.change][x.index] = ad]
  IN  /\ x.pc = "rescan"
      /\ Proceed(r, Continue([x EXCEPT !.index = @ + 1, !.lastUsed = IF Used(ad) THEN x.index - 1 ELSE @], new), new)

DeriveAddress(r) ==
  LET x == xreaders[r]
      ad == NewAddress(BalanceOf(AddressAt(x, x.index), xchain))
      new == [xheap[x.data.arr] EXCEPT ![x.change] = Append(@, ad)]
  IN  /\ x.pc = "derive"
      /\ Proceed(r, Continue([x EXCEPT !.index = @ + 1, !.lastUsed = IF Used(ad) THEN x.index - 1 ELSE @], new), new)

\* The transactions of the addresses that have not all of them, address by address: those above the height reached,
\* or all.
NextToLoad(x, arr) == {p \in Addresses(arr) : /\ LoadNeeded(arr[p[1]][p[2]])
                                              /\ p[1] > x.change \/ (p[1] = x.change /\ p[2] >= x.index)}
xpubCheckAndLoadTxids(r) ==
  LET x == xreaders[r]
      arr == xheap[x.data.arr]
      p == CHOOSE p \in NextToLoad(x, arr) : \A q \in NextToLoad(x, arr) : p[1] < q[1] \/ (p[1] = q[1] /\ p[2] <= q[2])
      ad == arr[p[1]][p[2]]
      from == IF ad.complete THEN ad.maxHeight + 1 ELSE 0
      new == TxidsBetween(<<x.req.desc, ChangeIndexes[p[1]], p[2] - 1>>, xchain, from, Len(x.best) - 1)
      txids == IF ad.complete THEN new \o ad.txids ELSE new
  IN  /\ x.pc = "load"
      /\ NextToLoad(x, arr) # {}
      /\ Proceed(r, [x EXCEPT !.changed = TRUE, !.change = p[1], !.index = p[2] + 1],
                 [arr EXCEPT ![p[1]][p[2]] = [ad EXCEPT !.txids = txids, !.txs = Len(txids), !.maxHeight = Len(x.best) - 1,
                                                        !.complete = TRUE]])

EndOfRound(r) ==
  LET x == xreaders[r]
      merged == IF x.changed THEN NotMerged ELSE x.data.merged
  IN  /\ x.pc = "load"
      /\ NextToLoad(x, xheap[x.data.arr]) = {}
      /\ Only(r, [x EXCEPT !.pc = "loop", !.data.merged = IF x.req.filtered \/ merged # NotMerged THEN merged
                                                          ELSE MergedTxids(xheap[x.data.arr])])

Publish(r) ==
  LET x == xreaders[r]
      data == [x.data EXCEPT !.accessed = xclock]
  IN  /\ x.pc = "publish"
      /\ SetCache(trimXpubCacheItemsLocked(putCachedXpubLocked(Cache, x.req.desc, data)))
      /\ Become(r, [x EXCEPT !.pc = "use", !.data = data, !.seen = xheap[data.arr]])
      /\ UNCHANGED <<xchain, xheap, xclock, xmoves>>

\* The caller builds its answer from the data, with no lock.
Use(r) ==
  /\ xreaders[r].pc = "use"
  /\ Only(r, XIdle(xreaders[r].plan))

-----------------------------------------------------------------------------
(* The synchronisation, and the time.  The balances are mixed when a block   *)
(* is disconnected during a round, until the next scan; the transactions are *)
(* tainted when the chain leaves the tip the round works for, until a fork   *)
(* is seen.                                                                  *)
MoveTo(c) ==
  /\ xmoves < MaxXpubMoves
  /\ xmoves' = xmoves + 1
  /\ xchain' = c
  /\ xreaders' = [r \in XpubReader |->
       IF xreaders[r].pc \in {"rescan", "derive", "load", "loop"}
       THEN [xreaders[r] EXCEPT !.data.mixed = @ \/ Len(c) < Len(xchain), !.data.tainted = @ \/ ~IsPrefix(xreaders[r].best, c)]
       ELSE xreaders[r]]
  /\ UNCHANGED <<xheap, cachedXpubs, cachedXpubsBytes, xclock>>
XConnect(b) ==
  /\ b \notin ToSet(xchain)
  /\ \A i \in DOMAIN xchain : ToSet(XpubBody[b]) \cap ToSet(XpubBody[xchain[i]]) = {}
  /\ MoveTo(Append(xchain, b))
XDisconnect == XHeight > XpubFloor /\ MoveTo(Front(xchain))
XTick ==
  /\ xmoves < MaxXpubMoves
  /\ xmoves' = xmoves + 1
  /\ xclock' = xclock + 1
  /\ UNCHANGED <<xchain, xheap, cachedXpubs, cachedXpubsBytes, xreaders>>

XpubNext ==
  \/ \E r \in XpubReader :
       \/ getXpubData(r) \/ getXpubDataCached(r) \/ BumpAccessed(r) \/ xpubUpdateLock(r) \/ StartRound(r) \/ CheckFork(r)
       \/ RescanAddress(r) \/ DeriveAddress(r) \/ xpubCheckAndLoadTxids(r) \/ EndOfRound(r) \/ Publish(r) \/ Use(r)
  \/ evictXpubCacheItems
  \/ \E b \in DOMAIN XpubBody : XConnect(b)
  \/ XDisconnect
  \/ XTick

-----------------------------------------------------------------------------
\* The data an account request is answered from are those of one block, the one they are marked with, however the
\* chain moved while they were collected and whatever other requests did to the cache: every balance and every
\* list of transactions is the index's at that block, and enough unused addresses follow the last used one
\* (getXpubData, "do it in a loop to process a possible new block").  They may mix blocks only if the index left
\* the block and came back to it in the middle.
SnapshotOfOneBlock ==
  \A r \in XpubReader :
    LET x == xreaders[r]
        d == x.data
        arr == xheap[d.arr]
    IN  x.pc = "use" /\ ~d.mixed /\ ~d.tainted =>
          /\ d.dataHash = x.best
          /\ \A p \in Addresses(arr) :
               LET a == <<x.req.desc, ChangeIndexes[p[1]], p[2] - 1>>
                   ad == arr[p[1]][p[2]]
               IN  /\ ad.balance = BalanceOf(a, d.dataHash)
                   /\ x.req.history /\ Used(ad) => ad.txids = TxidsBetween(a, d.dataHash, 0, d.dataHeight)
          /\ x.req.history /\ ~x.req.filtered => d.merged = MergedTxids(arr)
          /\ \A c \in DOMAIN ChangeIndexes :
               Len(arr[c]) - Max({0} \cup {i - 1 : i \in {i \in DOMAIN arr[c] : Used(arr[c][i])}}) >= x.req.gap

\* A snapshot once handed out is never changed under its reader or in the cache ("a concurrent reader holding the
\* previously published snapshot never has its arrays changed underneath"), so the bytes charged for an entry stay
\* the bytes of the entry, and their sum is the total, which stays within the limits.
PublishedStaysFixed ==
  /\ \A r \in XpubReader : xreaders[r].pc = "use" => xheap[xreaders[r].data.arr] = xreaders[r].seen
  /\ \A d \in DOMAIN cachedXpubs : cachedXpubs[d].bytes = xpubDataEstimatedBytes(xheap[cachedXpubs[d].arr], cachedXpubs[d].merged)
  /\ cachedXpubsBytes = MapThenSumSet(LAMBDA d : cachedXpubs[d].bytes, DOMAIN cachedXpubs)
  /\ Cardinality(DOMAIN cachedXpubs) <= MaxCacheEntries
  /\ cachedXpubsBytes <= MaxCacheBytes
=============================================================================
