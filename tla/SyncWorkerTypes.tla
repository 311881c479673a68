-------------------------- MODULE SyncWorkerTypes ---------------------------
(***************************************************************************)
(* First layer of the inductive invariant of SyncWorker: the types, and    *)
(* Placed, that every row and every queued block is at the height it has   *)
(* on some chain of the backend.                                           *)
(***************************************************************************)
EXTENDS SyncWorker, TLAPS

\* b is the block of height h on some chain of the backend.
AtHeight(b, h) == \E c \in Chains : h + 1 \in DOMAIN c /\ c[h + 1] = b

Placed ==
  /\ \A h \in Heights : row[h] # NoHash => AtHeight(row[h], h)
  /\ \A i \in DOMAIN bch : AtHeight(bch[i].hash, bch[i].height)
  /\ \A i \in DOMAIN par.q : AtHeight(par.q[i].hash, par.q[i].height)
  /\ gb.hash # NoHash => AtHeight(gb.hash, gb.height)
  /\ \A b \in held : OnChain(b)

-----------------------------------------------------------------------------
\* What ChainAssumption says of one chain.
LEMMA ChainFacts ==
  ASSUME NEW c \in Chains
  PROVE  /\ c \in Seq(Block) /\ Len(c) \in 1..(MaxHeight + 1)
         /\ TipHeight(c) \in Heights /\ TipHash(c) \in Block
         /\ AtHeight(TipHash(c), TipHeight(c))
         /\ Header(c) \in [hash : Block, parent : Hash, height : Heights]
<1>1. c \in Seq(Block) /\ Len(c) \in 1..(MaxHeight + 1)
  BY ChainAssumption
<1>2. MaxHeight \in Nat
  BY ParameterAssumption
<1>3. TipHeight(c) \in Heights /\ TipHash(c) \in Block
  BY <1>1, <1>2 DEF TipHeight, TipHash, Heights
<1>4. AtHeight(TipHash(c), TipHeight(c))
  BY <1>1, <1>2 DEF TipHeight, TipHash, AtHeight
<1>5. Header(c) \in [hash : Block, parent : Hash, height : Heights]
  BY <1>3, ChainAssumption DEF Header
<1> QED
  BY <1>1, <1>3, <1>4, <1>5

\* A block placed at height h is a block, h is a height, and above height 0
\* it has a parent.
LEMMA PlacedFacts ==
  ASSUME NEW b, NEW h \in Int, h >= 0, AtHeight(b, h)
  PROVE  b \in Block /\ h \in Heights /\ (h > 0 => Parent[b] # NoHash)
<1>1. PICK c \in Chains : h + 1 \in DOMAIN c /\ c[h + 1] = b
  BY DEF AtHeight
<1>2. c \in Seq(Block) /\ Len(c) \in 1..(MaxHeight + 1)
  BY ChainFacts
<1>3. MaxHeight \in Nat
  BY ParameterAssumption
<1>4. b \in Block /\ h \in Heights
  BY <1>1, <1>2, <1>3 DEF Heights
<1>5. ASSUME h > 0 PROVE Parent[b] # NoHash
  <2>1. h \in 1..(Len(c) - 1)
    BY <1>1, <1>2, <1>5
  <2>2. Parent[c[h + 1]] = c[h]
    BY <2>1, ChainAssumption
  <2>3. c[h] \in Block
    BY <2>1, <1>2
  <2> QED
    BY <1>1, <2>2, <2>3, ChainAssumption
<1> QED
  BY <1>4, <1>5

\* GetBlockHash answers with a block placed at the height it was asked for.
LEMMA BlockHashFacts ==
  ASSUME chain \in Chains, NEW h \in Int, h >= 0
  PROVE  /\ BlockHash(h) \in Hash
         /\ BlockHash(h) # NoHash => h \in Heights /\ AtHeight(BlockHash(h), h)
<1>1. chain \in Seq(Block) /\ Len(chain) \in 1..(MaxHeight + 1) /\ MaxHeight \in Nat
  BY ChainFacts, ParameterAssumption
<1>2. CASE h + 1 \in DOMAIN chain
  BY <1>1, <1>2 DEF BlockHash, Hash, Heights, AtHeight
<1>3. CASE h + 1 \notin DOMAIN chain
  BY <1>3 DEF BlockHash, Hash
<1> QED
  BY <1>2, <1>3

\* The tips that are read, cached or remembered are headers of chains.
LEMMA TipFacts ==
  ASSUME TypeOK
  PROVE  /\ BestTip \in Tips
         /\ BestTip.height \in Heights /\ BestTip.hash \in Block
         /\ remote.height \in Heights /\ remote.hash \in Hash
         /\ remote.hash # NoHash => AtHeight(remote.hash, remote.height)
         /\ tip.height \in Heights /\ tip.hash \in Block
         /\ tip.parent = Parent[tip.hash]
         /\ RemoteHeight \in Heights
<1>1. BestTip \in Tips
  BY DEF TypeOK, BestTip, Tips
<1>2. BestTip.height \in Heights /\ BestTip.hash \in Block
  BY <1>1, ChainFacts DEF Tips
<1>3. tip.height \in Heights /\ tip.hash \in Block /\ tip.parent = Parent[tip.hash]
  <2>1. PICK c \in Chains : tip = Header(c)
    BY DEF TypeOK, Tips
  <2> QED
    BY <2>1, ChainFacts DEF Header
<1>4. /\ remote.height \in Heights /\ remote.hash \in Hash
      /\ remote.hash # NoHash => AtHeight(remote.hash, remote.height)
  <2>1. CASE remote = NoTip
    BY <2>1, ParameterAssumption DEF NoTip, Heights, Hash
  <2>2. ASSUME NEW c \in Chains, remote = Header(c)
        PROVE  /\ remote.height \in Heights /\ remote.hash \in Block
               /\ AtHeight(remote.hash, remote.height)
    BY <2>2, ChainFacts DEF Header
  <2> QED
    BY <2>1, <2>2 DEF TypeOK, Hash, Tips
<1>5. RemoteHeight \in Heights
  <2>1. TipHeight(chain) \in Heights
    BY ChainFacts DEF TypeOK
  <2> QED
    BY <2>1, <1>4 DEF RemoteHeight
<1> QED
  BY <1>1, <1>2, <1>3, <1>4, <1>5
-----------------------------------------------------------------------------
\* First layer: the types, and where the blocks are.

USE DEF vars, backendVars, dbVars, localVars, roundVars, history

\* The empty values have their types.
LEMMA NoValues ==
  /\ NoRound \in Producer /\ NoPar \in Coordinator
  /\ <<>> \in Seq(Entry)
  /\ NoRound.hash = NoHash /\ NoPar.q = <<>> /\ DOMAIN (<<>>) = {}
BY ParameterAssumption DEF NoRound, NoPar, Heights, Hash, Producer, Coordinator

\* A fresh index satisfies the first layer: no row, no queue, nothing held.
LEMMA InitFacts == Init => TypeOK /\ Placed
<1> SUFFICES ASSUME Init PROVE TypeOK /\ Placed
  OBVIOUS
<1>1. MaxHeight \in Nat /\ BlockFrom \in 0..MaxHeight /\ Threshold \in Nat
      /\ MaxChanges \in Nat /\ MaxFaults \in Nat /\ MaxCrashes \in Nat
  BY ParameterAssumption DEF Heights
<1>2. TypeOK
  <2>1. spent \in Spent
    BY <1>1 DEF Init, Spent
  <2>2. tip \in Tips
    BY DEF Init, Tips
  <2>3. row \in [Heights -> Hash] /\ startHeight \in 0..(MaxHeight + 1)
    BY <1>1 DEF Init, Hash
  <2>4. best \in Heights /\ walk \in -1..MaxHeight /\ floor \in 0..(MaxHeight + 1)
    BY <1>1 DEF Init, Heights
  <2> QED
    BY Zenon, <2>1, <2>2, <2>3, <2>4, NoValues DEF Init, TypeOK
<1>3. Placed
  BY DEF Init, Placed, NoRound, NoPar, Heights
<1> QED
  BY <1>2, <1>3

\* A process that restarts begins with empty queues.
LEMMA RestartFacts ==
  ASSUME NEW state, Restart(state), TypeOK, Placed
  PROVE  /\ pc' \in {"idle", "refused"} /\ initial' \in BOOLEAN
         /\ startHeight' \in 0..(MaxHeight + 1) /\ remote' = NoTip
         /\ best' \in Heights /\ walk' \in -1..MaxHeight /\ linked' \in BOOLEAN
         /\ gb' = NoRound /\ bch' = <<>> /\ par' = NoPar
<1>1. startHeight' \in 0..(MaxHeight + 1) /\ best' \in Heights /\ walk' \in -1..MaxHeight
  BY ParameterAssumption DEF Restart, Heights
<1> QED
  BY Zenon, <1>1 DEF Restart

\* A failed ResyncIndex returns to idle, or ends the process when it is the
\* initial one (blockbook.go:400), with nothing queued.
LEMMA FailFacts ==
  ASSUME Fail, TypeOK, Placed
  PROVE  /\ pc' \in {"idle", "refused"} /\ initial' \in BOOLEAN
         /\ startHeight' \in 0..(MaxHeight + 1)
         /\ remote' \in Tips \cup {NoTip}
         /\ best' \in Heights /\ walk' \in -1..MaxHeight /\ linked' \in BOOLEAN
         /\ gb' = NoRound /\ bch' = <<>> /\ par' = NoPar
<1>1. CASE initial
  BY <1>1, RestartFacts DEF Fail
<1>2. CASE ~initial
  BY <1>2 DEF Fail, TypeOK
<1> QED
  BY <1>1, <1>2

\* Using up a bound, and the ways the producer's record changes.
LEMMA SpentFacts ==
  ASSUME spent \in Spent
  PROVE  /\ spent.changes < MaxChanges => [spent EXCEPT !.changes = @ + 1] \in Spent
         /\ spent.faults < MaxFaults => [spent EXCEPT !.faults = @ + 1] \in Spent
         /\ spent.crashes < MaxCrashes => [spent EXCEPT !.crashes = @ + 1] \in Spent
BY ParameterAssumption DEF Spent

\* What an EXCEPT on the state of getBlockChain leaves of its type.
LEMMA ProducerFacts ==
  ASSUME gb \in Producer,
         NEW e \in {"none", "closed", "fork", "resync", "error"}
  PROVE  /\ [gb EXCEPT !.end = e] \in Producer
         /\ [gb EXCEPT !.end = e].hash = gb.hash
         /\ [gb EXCEPT !.end = e].height = gb.height
         /\ [gb EXCEPT !.end = e].prev = gb.prev
         /\ gb.hash \in Hash /\ gb.height \in 0..(MaxHeight + 1) /\ gb.prev \in Hash
BY DEF Producer

\* Taking the first entry off a queue, and adding one at its end.
LEMMA QueueFacts ==
  ASSUME NEW q \in Seq(Entry), q # <<>>
  PROVE  /\ Head(q) \in Entry /\ Head(q) = q[1] /\ 1 \in DOMAIN q
         /\ Head(q).height \in Heights /\ Head(q).hash \in Block
         /\ Tail(q) \in Seq(Entry) /\ Len(Tail(q)) = Len(q) - 1
         /\ \A i \in DOMAIN Tail(q) : Tail(q)[i] = q[i + 1] /\ i + 1 \in DOMAIN q
<1>1. Len(q) \in Nat /\ Len(q) > 0 /\ DOMAIN q = 1..Len(q)
  OBVIOUS
<1>2. Head(q) = q[1] /\ 1 \in DOMAIN q /\ q[1] \in Entry
  BY <1>1
<1>3. q[1].height \in Heights /\ q[1].hash \in Block
  BY <1>2 DEF Entry
<1>4. Tail(q) \in Seq(Entry) /\ Len(Tail(q)) = Len(q) - 1
  BY <1>1
<1>5. \A i \in DOMAIN Tail(q) : Tail(q)[i] = q[i + 1] /\ i + 1 \in DOMAIN q
  BY <1>1, <1>4
<1> QED
  BY <1>2, <1>3, <1>4, <1>5

\* What GetBlock does to the producer and to the channel.
LEMMA GetBlockFacts ==
  ASSUME TypeOK, Placed, GetBlock
  PROVE  \E b \in Block :
           /\ Fetched(b) /\ ~ForkedFrom(b)
           /\ gb.height \in Heights /\ AtHeight(b, gb.height)
           /\ bch' = Append(bch, [height |-> gb.height, hash |-> b])
           /\ gb' \in Producer /\ gb'.height = gb.height + 1 /\ gb'.prev = b
           /\ gb'.hash # NoHash => AtHeight(gb'.hash, gb'.height)
<1>0. MaxHeight \in Nat /\ Threshold \in Nat
  BY ParameterAssumption
<1>1. PICK b \in Block : \E next \in NextHash(b) :
        /\ Fetched(b) /\ ~ForkedFrom(b)
        /\ bch' = Append(bch, [height |-> gb.height, hash |-> b])
        /\ gb' = [gb EXCEPT !.hash = next, !.height = @ + 1, !.prev = b, !.retries = 0]
  BY Zenon DEF GetBlock
<1>2. PICK next \in NextHash(b) :
        gb' = [gb EXCEPT !.hash = next, !.height = @ + 1, !.prev = b, !.retries = 0]
  BY Zenon, <1>1
<1>3. gb \in Producer /\ gb.height \in 0..(MaxHeight + 1) /\ chain \in Chains
      /\ gb.hash \in Hash
  BY DEF TypeOK, Producer
<1>4. gb.height \in Heights /\ AtHeight(b, gb.height)
  <2>1. CASE gb.hash = NoHash
    BY <1>0, <1>1, <1>3, <2>1, BlockHashFacts, ChainAssumption DEF Fetched
  <2>2. CASE gb.hash # NoHash
    BY <1>0, <1>1, <1>3, <2>2, PlacedFacts DEF Fetched, Placed
  <2> QED
    BY <2>1, <2>2
<1>5. next \in Hash /\ (next # NoHash => AtHeight(next, gb.height + 1))
  BY <1>0, <1>2, <1>3, BlockHashFacts DEF NextHash, Hash
<1>6. gb.height + 1 \in 0..(MaxHeight + 1) /\ 0 \in 0..Threshold /\ b \in Hash
  BY <1>0, <1>4 DEF Heights, Hash
<1>7. gb' \in Producer /\ gb'.hash = next /\ gb'.height = gb.height + 1 /\ gb'.prev = b
  BY ZenonT(40), <1>2, <1>3, <1>5, <1>6 DEF Producer
<1> QED
  BY <1>1, <1>4, <1>5, <1>7

\* Every action of ResyncIndex and of the backend keeps the types and leaves
\* every row and queued block at the height it has on a chain.
LEMMA TypeStep ==
  ASSUME TypeOK, Placed, [Next]_vars
  PROVE  TypeOK' /\ Placed'
<1>0. MaxHeight \in Nat /\ Threshold \in Nat \ {0} /\ MaxChanges \in Nat
      /\ MaxFaults \in Nat /\ MaxCrashes \in Nat
  BY ParameterAssumption
<1>1. CASE BackendMoves
  <2>1. TypeOK'
    BY <1>1, SpentFacts DEF BackendMoves, TypeOK
  <2>2. Placed'
    BY <1>1 DEF BackendMoves, TypeOK, Placed, OnChain
  <2> QED
    BY <2>1, <2>2
<1>2. CASE FeedMovesTip
  <2>1. TypeOK'
    <3>1. tip' \in Tips
      BY <1>2, Zenon DEF FeedMovesTip, TypeOK, Tips
    <3> QED
      BY <1>2, <3>1 DEF FeedMovesTip, TypeOK
  <2>2. Placed'
    BY <1>2 DEF FeedMovesTip, TypeOK, Placed, OnChain
  <2> QED
    BY <2>1, <2>2
<1>3. CASE Crash
  <2>1. TypeOK'
    BY Zenon, <1>3, RestartFacts, NoValues, SpentFacts DEF Crash, TypeOK
  <2>2. Placed'
    BY <1>3, RestartFacts, NoValues DEF Crash, TypeOK, Placed, OnChain
  <2> QED
    BY <2>1, <2>2
<1>4. CASE Recreate
  <2>1. TypeOK'
    BY <1>4, <1>0, Zenon DEF Recreate, TypeOK, Hash
  <2>2. Placed'
    BY <1>4 DEF Recreate, TypeOK, Placed, OnChain
  <2> QED
    BY <2>1, <2>2
<1>5. CASE RpcError
  <2>1. TypeOK'
    <3>1. CASE Fail
      BY Zenon, <1>5, <3>1, FailFacts, NoValues, SpentFacts DEF RpcError, TypeOK
    <3>2. CASE gb' = [gb EXCEPT !.end = "error"] /\ UNCHANGED <<dbState, pc, localVars, bch, par>>
      BY <1>5, <3>2, ProducerFacts, SpentFacts DEF RpcError, TypeOK
    <3> QED
      BY <1>5, <3>1, <3>2 DEF RpcError
  <2>2. Placed'
    <3>1. CASE Fail
      BY <1>5, <3>1, FailFacts, NoValues DEF RpcError, TypeOK, Placed, OnChain
    <3>2. CASE gb' = [gb EXCEPT !.end = "error"] /\ UNCHANGED <<dbState, pc, localVars, bch, par>>
      BY <1>5, <3>2, ProducerFacts DEF RpcError, TypeOK, Placed, OnChain
    <3> QED
      BY <1>5, <3>1, <3>2 DEF RpcError
  <2> QED
    BY <2>1, <2>2
<1>6. CASE StartResync
  <2>1. TypeOK'
    BY <1>6, <1>0, Zenon DEF StartResync, TypeOK
  <2>2. Placed'
    BY <1>6 DEF StartResync, TypeOK, Placed, OnChain
  <2> QED
    BY <2>1, <2>2
<1>7. CASE SyncNotNeeded
  <2>1. TypeOK'
    BY Zenon, <1>7, <1>0, NoValues DEF SyncNotNeeded, TypeOK, Finish
  <2>2. Placed'
    BY <1>7, NoValues, Zenon DEF SyncNotNeeded, TypeOK, Placed, OnChain, Finish
  <2> QED
    BY <2>1, <2>2
<1>8. CASE ReadTips
  <2>1. TypeOK'
    <3>1. best' \in Heights /\ startHeight' \in 0..(MaxHeight + 1) /\ linked' \in BOOLEAN
      BY <1>8, <1>0 DEF ReadTips, TypeOK, Rows, Heights
    <3>2. pc' \in {"plan", "forkCheck"} /\ remote' \in Tips
      BY <1>8, TipFacts, Zenon DEF ReadTips
    <3> QED
      BY <1>8, <3>1, <3>2, Zenon DEF ReadTips, TypeOK
  <2>2. Placed'
    BY <1>8 DEF ReadTips, TypeOK, Placed, OnChain
  <2> QED
    BY <2>1, <2>2
<1>9. CASE ReadTipsEmpty
  <2>1. TypeOK'
    BY ZenonT(40), <1>9, <1>0, TipFacts DEF ReadTipsEmpty, TypeOK
  <2>2. Placed'
    BY <1>9 DEF ReadTipsEmpty, TypeOK, Placed, OnChain
  <2> QED
    BY <2>1, <2>2
<1>10. CASE ForkCheckOk
  <2>1. TypeOK'
    BY SMTT(60), <1>10, <1>0 DEF ForkCheckOk, TypeOK, Heights
  <2>2. Placed'
    BY <1>10 DEF ForkCheckOk, TypeOK, Placed, OnChain
  <2> QED
    BY <2>1, <2>2
<1>11. CASE ForkFound
  <2>1. TypeOK'
    <3>1. walk' \in -1..MaxHeight
      BY <1>11, <1>0 DEF ForkFound, TypeOK, Rows, Heights
    <3>2. spent' \in Spent /\ held' \subseteq Block
      BY <1>11, SpentFacts, ZenonT(60) DEF ForkFound, TypeOK, Lags
    <3> QED
      BY <1>11, <3>1, <3>2 DEF ForkFound, TypeOK
  <2>2. Placed'
    BY <1>11, Zenon DEF ForkFound, TypeOK, Placed, OnChain, Lags
  <2> QED
    BY <2>1, <2>2
<1>12. CASE ForkWalk
  <2>1. TypeOK'
    <3>1. walk' \in -1..MaxHeight
      BY <1>12, <1>0 DEF ForkWalk, TypeOK, Rows, Heights
    <3>2. spent' \in Spent /\ held' \subseteq Block
      BY <1>12, SpentFacts DEF ForkWalk, TypeOK, Lags
    <3> QED
      BY <1>12, <3>1, <3>2 DEF ForkWalk, TypeOK
  <2>2. Placed'
    BY <1>12, Zenon DEF ForkWalk, TypeOK, Placed, OnChain, Lags
  <2> QED
    BY <2>1, <2>2
<1>13. CASE ForkWalkEnd
  <2>1. TypeOK'
    BY <1>13, <1>0, Zenon DEF ForkWalkEnd, TypeOK
  <2>2. Placed'
    BY <1>13 DEF ForkWalkEnd, TypeOK, Placed, OnChain
  <2> QED
    BY <2>1, <2>2
<1>14. CASE DisconnectRefused
  <2>1. TypeOK'
    BY ZenonT(40), <1>14, <1>0, FailFacts, NoValues DEF DisconnectRefused, TypeOK
  <2>2. Placed'
    BY <1>14, FailFacts, NoValues DEF DisconnectRefused, TypeOK, Placed, OnChain
  <2> QED
    BY <2>1, <2>2
<1>15. CASE DisconnectBlock
  <2>1. TypeOK'
    <3>1. row' \in [Heights -> Hash] /\ undo' \subseteq Heights /\ seam' \subseteq Heights
      BY <1>15 DEF DisconnectBlock, TypeOK, Hash
    <3>2. CASE best = 0
      BY Zenon, <1>15, <3>1, <3>2, RestartFacts, NoValues DEF DisconnectBlock, TypeOK
    <3>3. CASE best # 0
      <4>1. best' \in Heights
        BY SMTT(60), <1>15, <1>0, <3>3 DEF DisconnectBlock, TypeOK, Heights
      <4> QED
        BY <1>15, <3>1, <3>3, <4>1, Zenon DEF DisconnectBlock, TypeOK
    <3> QED
      BY <3>2, <3>3
  <2>2. Placed'
    BY <1>15, RestartFacts, NoValues DEF DisconnectBlock, TypeOK, Placed, OnChain, Hash
  <2> QED
    BY <2>1, <2>2
<1>16. CASE DisconnectRange
  <2>1. TypeOK'
    BY Zenon, <1>16, <1>0, RestartFacts, NoValues DEF DisconnectRange, TypeOK, Heights, Hash
  <2>2. Placed'
    BY Zenon, <1>16, RestartFacts, NoValues DEF DisconnectRange, TypeOK, Placed, OnChain, Heights, Hash
  <2> QED
    BY <2>1, <2>2
<1>17. CASE PlanParallel
  <2>1. TypeOK'
    <3>1. par' \in Coordinator
      BY SMTT(60), <1>17, TipFacts DEF PlanParallel, TypeOK, Coordinator, BulkSync, UseParallel
    <3> QED
      BY SMTT(60), <1>17, <3>1 DEF PlanParallel, TypeOK
  <2>2. Placed'
    BY <1>17 DEF PlanParallel, TypeOK, Placed, OnChain
  <2> QED
    BY <2>1, <2>2
<1>18. CASE PlanSequential
  <2>1. TypeOK'
    BY <1>18, <1>0, Zenon DEF PlanSequential, TypeOK
  <2>2. Placed'
    BY <1>18 DEF PlanSequential, TypeOK, Placed, OnChain
  <2> QED
    BY <2>1, <2>2
<1>19. CASE StartConnect
  <2>0. /\ gb'.hash \in Hash /\ gb'.height \in 0..(MaxHeight + 1)
        /\ gb' = [hash |-> gb'.hash, height |-> gb'.height, prev |-> NoHash,
                 retries |-> 0, end |-> "none"]
        /\ gb'.hash # NoHash /\ AtHeight(gb'.hash, gb'.height)
        /\ Threshold \in Nat /\ NoHash \in Hash
    <3>1. StartHash \in Hash /\ AtHeight(StartHash, startHeight)
      BY SMTT(60), <1>19, <1>0, TipFacts, BlockHashFacts DEF StartConnect, StartHash, TypeOK, Heights
    <3> QED
      BY Zenon, <1>19, <1>0, <3>1 DEF StartConnect, NoRound, TypeOK, Hash
  <2>1. TypeOK'
    <3>1. gb' \in Producer
      BY <1>19, <2>0, NoValues DEF Producer
    <3> QED
      BY <1>19, <3>1, NoValues DEF StartConnect, TypeOK
  <2>2. Placed'
    BY <1>19, <2>0, NoValues DEF StartConnect, TypeOK, Placed, OnChain
  <2> QED
    BY <2>1, <2>2
<1>20. CASE StartHashNotFound
  <2>1. TypeOK'
    BY Zenon, <1>20, <1>0, FailFacts, NoValues DEF StartHashNotFound, TypeOK
  <2>2. Placed'
    BY <1>20, FailFacts, NoValues DEF StartHashNotFound, TypeOK, Placed, OnChain
  <2> QED
    BY <2>1, <2>2
<1>21. CASE GetBlock
  <2>0. PICK b \in Block :
          /\ gb.height \in Heights /\ AtHeight(b, gb.height)
          /\ bch' = Append(bch, [height |-> gb.height, hash |-> b])
          /\ gb' \in Producer
          /\ gb'.hash # NoHash => AtHeight(gb'.hash, gb'.height)
    BY Zenon, <1>21, GetBlockFacts
  <2>a. [height |-> gb.height, hash |-> b] \in Entry
    BY <2>0 DEF Entry
  <2>1. TypeOK'
    BY <1>21, <2>0, <2>a DEF GetBlock, TypeOK
  <2>2. Placed'
    <3>1. \A i \in DOMAIN bch' : AtHeight(bch'[i].hash, bch'[i].height)
      BY <2>0, <2>a DEF TypeOK, Placed
    <3> QED
      BY <1>21, <2>0, <3>1, Zenon DEF GetBlock, Placed, OnChain
  <2> QED
    BY <2>1, <2>2
<1>22. CASE GetBlockFork
  <2>1. TypeOK'
    BY <1>22, ProducerFacts, Zenon DEF GetBlockFork, TypeOK
  <2>2. Placed'
    BY <1>22, ProducerFacts DEF GetBlockFork, TypeOK, Placed, OnChain
  <2> QED
    BY <2>1, <2>2
<1>23. CASE GetBlockPastTip
  <2>1. TypeOK'
    BY <1>23, ProducerFacts DEF GetBlockPastTip, TypeOK
  <2>2. Placed'
    BY <1>23, ProducerFacts DEF GetBlockPastTip, TypeOK, Placed, OnChain
  <2> QED
    BY <2>1, <2>2
<1>24. CASE GetBlockMiss
  <2>1. TypeOK'
    <3> DEFINE r == IF gb.retries < Threshold THEN gb.retries + 1 ELSE Threshold
    <3>a. gb \in Producer /\ gb.retries \in 0..Threshold
      BY DEF TypeOK, Producer
    <3>b. r \in 0..Threshold
      BY <1>0, <3>a
    <3> HIDE DEF r
    <3>c. \E e \in {gb.end, "resync"} : gb' = [gb EXCEPT !.retries = r, !.end = e]
      BY Zenon, <1>24 DEF GetBlockMiss, r
    <3>1. gb' \in Producer
      BY Zenon, <3>a, <3>b, <3>c DEF Producer
    <3> QED
      BY <1>24, <3>1, Zenon DEF GetBlockMiss, TypeOK
  <2>2. Placed'
    <3>1. gb'.hash = gb.hash /\ gb'.height = gb.height
      BY <1>24 DEF GetBlockMiss, TypeOK, Producer
    <3> QED
      BY <1>24, <3>1 DEF GetBlockMiss, Placed, OnChain
  <2> QED
    BY <2>1, <2>2
<1>25. CASE GetBlockStall
  <2>1. TypeOK'
    BY <1>25, ProducerFacts DEF GetBlockStall, TypeOK
  <2>2. Placed'
    BY <1>25, ProducerFacts DEF GetBlockStall, TypeOK, Placed, OnChain
  <2> QED
    BY <2>1, <2>2
<1>26. CASE GetBlockYield
  <2>1. TypeOK'
    BY <1>26, ProducerFacts DEF GetBlockYield, TypeOK
  <2>2. Placed'
    BY <1>26, ProducerFacts, Zenon DEF GetBlockYield, TypeOK, Placed, OnChain
  <2> QED
    BY <2>1, <2>2
<1>27. CASE ConnectBlock
  <2>0. /\ Head(bch) = bch[1] /\ 1 \in DOMAIN bch
        /\ Tail(bch) \in Seq(Entry)
        /\ \A i \in DOMAIN Tail(bch) : Tail(bch)[i] = bch[i + 1] /\ i + 1 \in DOMAIN bch
        /\ Head(bch).height \in Heights /\ Head(bch).hash \in Block
    BY <1>27, QueueFacts, Zenon DEF ConnectBlock, TypeOK
  <2>1. TypeOK'
    <3>1. row' \in [Heights -> Hash] /\ undo' \subseteq Heights /\ seam' \subseteq Heights
      BY <1>27, <2>0, Zenon DEF ConnectBlock, TypeOK, Hash
    <3> QED
      BY <1>27, <2>0, <3>1, Zenon DEF ConnectBlock, TypeOK
  <2>2. Placed'
    <3>1. \A h \in Heights : row'[h] # NoHash => AtHeight(row'[h], h)
      BY <1>27, <2>0 DEF ConnectBlock, TypeOK, Placed
    <3>2. \A i \in DOMAIN bch' : AtHeight(bch'[i].hash, bch'[i].height)
      BY ZenonT(40), <1>27, <2>0 DEF ConnectBlock, Placed
    <3> QED
      BY <1>27, <3>1, <3>2, Zenon DEF ConnectBlock, Placed, OnChain
  <2> QED
    BY <2>1, <2>2
<1>28. CASE ConnectRestart
  <2>1. TypeOK'
    BY <1>28, <1>0, NoValues, Zenon DEF ConnectRestart, TypeOK
  <2>2. Placed'
    BY <1>28, NoValues DEF ConnectRestart, TypeOK, Placed, OnChain
  <2> QED
    BY <2>1, <2>2
<1>29. CASE ConnectDone
  <2>1. TypeOK'
    BY ZenonT(40), <1>29, <1>0, NoValues DEF ConnectDone, TypeOK, Finish
  <2>2. Placed'
    BY <1>29, NoValues DEF ConnectDone, TypeOK, Placed, OnChain, Finish
  <2> QED
    BY <2>1, <2>2
<1>30. CASE ConnectError
  <2>1. TypeOK'
    BY Zenon, <1>30, <1>0, FailFacts, NoValues DEF ConnectError, TypeOK
  <2>2. Placed'
    BY Zenon, <1>30, FailFacts, NoValues DEF ConnectError, TypeOK, Placed, OnChain
  <2> QED
    BY <2>1, <2>2
<1>31. CASE QueueHash
  <2>0. /\ par.next \in Heights /\ BlockHash(par.next) \in Block
        /\ AtHeight(BlockHash(par.next), par.next)
    BY <1>31, <1>0, BlockHashFacts DEF QueueHash, TypeOK, Coordinator, Hash
  <2>a. /\ [height |-> par.next, hash |-> BlockHash(par.next)] \in Entry
        /\ par' \in Coordinator
        /\ par'.q = Append(par.q, [height |-> par.next, hash |-> BlockHash(par.next)])
        /\ par.q \in Seq(Entry)
    <3>1. par.q \in Seq(Entry) /\ par \in Coordinator
      BY DEF TypeOK, Coordinator
    <3>2. [height |-> par.next, hash |-> BlockHash(par.next)] \in Entry
      BY <2>0 DEF Entry
    <3>3. par.next + 1 \in 0..(MaxHeight + 1)
      BY <1>0, <2>0 DEF Heights
    <3>4. Append(par.q, [height |-> par.next, hash |-> BlockHash(par.next)]) \in Seq(Entry)
      BY <3>1, <3>2
    <3> QED
      BY ZenonT(40), <1>31, <3>1, <3>2, <3>3, <3>4 DEF QueueHash, Coordinator
  <2>1. TypeOK'
    BY <1>31, <2>a DEF QueueHash, TypeOK
  <2>2. Placed'
    <3>1. \A i \in DOMAIN par'.q : AtHeight(par'.q[i].hash, par'.q[i].height)
      BY <2>0, <2>a DEF Placed
    <3> QED
      BY <1>31, <3>1, Zenon DEF QueueHash, Placed, OnChain
  <2> QED
    BY <2>1, <2>2
<1>32. CASE WriteBlock
  <2>0. /\ Head(par.q) = par.q[1] /\ 1 \in DOMAIN par.q
        /\ Tail(par.q) \in Seq(Entry)
        /\ \A i \in DOMAIN Tail(par.q) :
             Tail(par.q)[i] = par.q[i + 1] /\ i + 1 \in DOMAIN par.q
        /\ Head(par.q).height \in Heights /\ Head(par.q).hash \in Block
    BY <1>32, QueueFacts DEF WriteBlock, TypeOK, Coordinator
  <2>a. par' \in Coordinator /\ par'.q = Tail(par.q)
    BY ZenonT(40), <1>32, <2>0 DEF WriteBlock, TypeOK, Coordinator
  <2>1. TypeOK'
    <3>1. row' \in [Heights -> Hash] /\ undo' \subseteq Heights /\ seam' \subseteq Heights
      BY <1>32, <2>0, Zenon DEF WriteBlock, TypeOK, Hash
    <3> QED
      BY <1>32, <2>a, <3>1, Zenon DEF WriteBlock, TypeOK
  <2>2. Placed'
    <3>1. \A h \in Heights : row'[h] # NoHash => AtHeight(row'[h], h)
      BY <1>32, <2>0, Zenon DEF WriteBlock, TypeOK, Placed
    <3>2. \A i \in DOMAIN par'.q : AtHeight(par'.q[i].hash, par'.q[i].height)
      BY <2>0, <2>a, Zenon DEF Placed
    <3> QED
      BY <1>32, <3>1, <3>2, Zenon DEF WriteBlock, Placed, OnChain
  <2> QED
    BY <2>1, <2>2
<1>33. CASE ParallelAbort
  <2>1. TypeOK'
    BY <1>33, <1>0, NoValues, Zenon DEF ParallelAbort, TypeOK
  <2>2. Placed'
    BY <1>33, NoValues, Zenon DEF ParallelAbort, TypeOK, Placed, OnChain
  <2> QED
    BY <2>1, <2>2
<1>34. CASE ParallelDone
  <2>1. TypeOK'
    BY <1>34, <1>0, NoValues, Zenon DEF ParallelDone, TypeOK
  <2>2. Placed'
    BY <1>34, NoValues, Zenon DEF ParallelDone, TypeOK, Placed, OnChain
  <2> QED
    BY <2>1, <2>2
<1>35. CASE UNCHANGED vars
  BY <1>35 DEF TypeOK, Placed, OnChain
<1> QED
  BY <1>1, <1>2, <1>3, <1>4, <1>5, <1>6, <1>7, <1>8, <1>9, <1>10, <1>11, <1>12, Zenon,
     <1>13, <1>14, <1>15, <1>16, <1>17, <1>18, <1>19, <1>20, <1>21, <1>22, <1>23,
     <1>24, <1>25, <1>26, <1>27, <1>28, <1>29, <1>30, <1>31, <1>32, <1>33,
     <1>34, <1>35 DEF Next, SyncStep

=============================================================================
