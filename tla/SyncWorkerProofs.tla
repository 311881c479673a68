-------------------------- MODULE SyncWorkerProofs --------------------------
(***************************************************************************)
(* Theorems about SyncWorker, for every backend, every bound and both      *)
(* chain types.  The inductive invariant has three layers, each proved     *)
(* from the ones before it: Placed (SyncWorkerTypes), RoundInv and         *)
(* LinkInv.                                                                *)
(*                                                                         *)
(* RoundInv is where a round is: the next block to write is the one after  *)
(* the best row, queues hold consecutive heights, and the blocks a fork    *)
(* walk passed are none the backend still held.  From it, what a step may  *)
(* do to the index: keep it, cut its top, or grow it by one block, and the *)
(* invariants that follow from those three shapes.  LinkInv: the blocks of *)
(* a sequential round hang together.                                       *)
(***************************************************************************)
EXTENDS SyncWorkerTypes

\* Nothing is indexed, or the row below n is the best one.
Below(n) == Rows = {} \/ IsBest(n - 1)

\* A queue of consecutive heights that ends before height n.
Consecutive(q, n) == \A i \in DOMAIN q : q[i].height = n - Len(q) + i - 1

RoundInv ==
  /\ pc \in {"forkCheck", "forkWalk", "disconnect", "disconnecting"} => IsBest(best)
  /\ pc \in {"forkWalk", "disconnect", "disconnecting"} =>
       /\ walk < best
       /\ \A h \in Heights : walk < h /\ h <= best =>
            row[h] # NoHash /\ row[h] \notin held
  /\ pc \in {"plan", "startHash"} => Below(startHeight)
  /\ pc = "connect" =>
       /\ Consecutive(bch, gb.height) /\ Below(gb.height - Len(bch))
       /\ startHeight <= gb.height - Len(bch)
  /\ pc = "parallel" =>
       Consecutive(par.q, par.next) /\ Below(par.next - Len(par.q))

\* While bulk connect runs, what it skipped lies below what it kept.
BulkInv ==
  pc = "parallel" /\ par.bulk =>
    \A h \in undo \ {0} : h >= floor => h + Keep > par.high

\* The blocks between getBlockChain and connectBlocks.
LinkInv ==
  /\ pc = "forkCheck" => ~linked
  /\ linked /\ pc \in {"plan", "startHash"} =>
       /\ EthType /\ remote.height = startHeight /\ remote.hash # NoHash
       /\ Parent[remote.hash] = row[startHeight - 1]
  /\ pc = "connect" =>
       /\ gb.height > startHeight => gb.prev # NoHash
       /\ bch # <<>> => gb.prev = bch[Len(bch)].hash
       /\ bch = <<>> /\ gb.height > startHeight => gb.prev = row[gb.height - 1]
       /\ \A i \in DOMAIN bch : i > 1 => Parent[bch[i].hash] = bch[i - 1].hash
       /\ bch # <<>> /\ (bch[1].height > startHeight \/ linked) =>
            Parent[bch[1].hash] = row[bch[1].height - 1]
       /\ linked /\ gb.height = startHeight =>
            gb.hash # NoHash /\ Parent[gb.hash] = row[startHeight - 1]

USE DEF vars, backendVars, dbVars, localVars, roundVars, history

-----------------------------------------------------------------------------
\* Second layer: where a round is.

\* Steps that end or restart a round, and steps that leave it where it is.
Leaves == pc' \in {"idle", "resync", "refused"}

Stays ==
  /\ UNCHANGED <<pc, row, best, walk, startHeight, remote, linked, bch>>
  /\ UNCHANGED <<gb.hash, gb.height, gb.prev, par.next, par.q>>
  /\ held' \subseteq held

\* What the backend, a crash, an RPC error or the end of a path do to a round:
\* they end it or leave it where it is.
LEMMA LeavesOrStays ==
  ASSUME TypeOK, Placed,
         \/ BackendMoves \/ FeedMovesTip \/ Crash \/ Recreate \/ RpcError
         \/ StartResync \/ SyncNotNeeded \/ DisconnectRefused \/ DisconnectRange
         \/ StartHashNotFound \/ GetBlockFork \/ GetBlockPastTip \/ GetBlockMiss
         \/ GetBlockStall \/ GetBlockYield \/ ConnectRestart \/ ConnectDone
         \/ ConnectError \/ ParallelAbort \/ ParallelDone
         \/ UNCHANGED vars
  PROVE  Leaves \/ Stays
<1>1. CASE BackendMoves \/ FeedMovesTip \/ UNCHANGED vars
  BY <1>1, Zenon DEF BackendMoves, FeedMovesTip, Stays
<1>2. CASE Crash \/ DisconnectRange
  BY <1>2, RestartFacts, Zenon DEF Crash, DisconnectRange, Leaves
<1>3. CASE DisconnectRefused \/ StartHashNotFound \/ ConnectError
  BY <1>3, FailFacts, Zenon DEF DisconnectRefused, StartHashNotFound, ConnectError, Leaves
<1>4. CASE SyncNotNeeded \/ ConnectDone
  BY <1>4, Zenon DEF SyncNotNeeded, ConnectDone, Finish, Leaves
<1>5. CASE Recreate \/ StartResync \/ ConnectRestart \/ ParallelAbort \/ ParallelDone
  BY <1>5 DEF Recreate, StartResync, ConnectRestart, ParallelAbort, ParallelDone, Leaves
<1>6. CASE GetBlockFork \/ GetBlockPastTip \/ GetBlockStall \/ GetBlockYield
  <2>1. gb'.hash = gb.hash /\ gb'.height = gb.height /\ gb'.prev = gb.prev
    BY ZenonT(40), <1>6, ProducerFacts
       DEF GetBlockFork, GetBlockPastTip, GetBlockStall, GetBlockYield, TypeOK
  <2>2. UNCHANGED <<backendVars, dbVars, pc, localVars, bch, par, history>>
    BY <1>6 DEF GetBlockFork, GetBlockPastTip, GetBlockStall, GetBlockYield
  <2> QED
    BY <2>1, <2>2 DEF Stays
<1>7. CASE GetBlockMiss
  <2>1. gb'.hash = gb.hash /\ gb'.height = gb.height /\ gb'.prev = gb.prev
    BY <1>7 DEF GetBlockMiss, TypeOK, Producer
  <2> QED
    BY <1>7, <2>1, Zenon DEF GetBlockMiss, Stays
<1>8. CASE RpcError
  <2>1. CASE Fail
    BY <2>1, FailFacts, Zenon DEF Leaves
  <2>2. CASE /\ gb' = [gb EXCEPT !.end = "error"]
             /\ UNCHANGED <<dbState, pc, localVars, bch, par>>
    BY <1>8, <2>2, ProducerFacts DEF RpcError, Stays, TypeOK
  <2> QED
    BY <1>8, <2>1, <2>2 DEF RpcError
<1> QED
  BY <1>1, <1>2, <1>3, <1>4, <1>5, <1>6, <1>7, <1>8, Zenon

\* A block the backend still holds is the one it answers with at that height.
LEMMA HeldFacts ==
  ASSUME TypeOK, Placed, NEW h \in Heights, row[h] # NoHash, row[h] \in held
  PROVE  BlockHash(h) = row[h]
<1>1. PICK i \in DOMAIN chain : chain[i] = row[h]
  BY DEF Placed, OnChain
<1>2. PICK c \in Chains : h + 1 \in DOMAIN c /\ c[h + 1] = row[h]
  BY DEF Placed, AtHeight
<1>3. i = h + 1
  BY <1>1, <1>2, ChainAssumption DEF TypeOK
<1> QED
  BY <1>1, <1>3 DEF BlockHash

\* A queue stays consecutive at both ends.
LEMMA AppendConsecutive ==
  ASSUME NEW q \in Seq(Entry), NEW n \in Heights, NEW b \in Block, Consecutive(q, n)
  PROVE  /\ Consecutive(Append(q, [height |-> n, hash |-> b]), n + 1)
         /\ n + 1 - Len(Append(q, [height |-> n, hash |-> b])) = n - Len(q)
<1> DEFINE e == [height |-> n, hash |-> b]
<1> DEFINE r == Append(q, e)
<1>1. e \in Entry /\ e.height = n /\ n \in Int
  BY ParameterAssumption DEF Entry, Heights
<1> HIDE DEF e
<1>2. /\ Len(r) = Len(q) + 1 /\ DOMAIN r = 1..(Len(q) + 1)
      /\ r[Len(q) + 1] = e /\ \A i \in 1..Len(q) : r[i] = q[i]
      /\ Len(q) \in Nat /\ DOMAIN q = 1..Len(q)
  BY <1>1
<1> HIDE DEF r
<1>3. Consecutive(r, n + 1)
  BY <1>1, <1>2 DEF Consecutive
<1>4. n + 1 - Len(r) = n - Len(q)
  BY <1>1, <1>2
<1> QED
  BY <1>3, <1>4 DEF r, e

\* Taking the head of a queue of consecutive heights moves its first height up.
LEMMA TailConsecutive ==
  ASSUME NEW q \in Seq(Entry), NEW n \in Int, Consecutive(q, n), q # <<>>
  PROVE  /\ Consecutive(Tail(q), n) /\ n - Len(Tail(q)) = n - Len(q) + 1
         /\ Head(q).height = n - Len(q)
<1>1. Len(q) \in Nat /\ Len(Tail(q)) = Len(q) - 1 /\ Tail(q) \in Seq(Entry)
  BY QueueFacts
<1>2. Consecutive(Tail(q), n)
  BY <1>1, QueueFacts DEF Consecutive
<1>3. Head(q).height = n - Len(q)
  <2>1. Head(q) = q[1] /\ 1 \in DOMAIN q
    BY QueueFacts
  <2>2. q[1].height = n - Len(q) + 1 - 1
    BY <2>1, Zenon DEF Consecutive
  <2> QED BY <1>1, <2>1, <2>2
<1> QED
  BY <1>1, <1>2, <1>3

\* Writing the block above the best row makes it the best one.
LEMMA WriteAbove ==
  ASSUME NEW n \in Heights, NEW b \in Block, row \in [Heights -> Hash], Below(n),
         row' = [row EXCEPT ![n] = b]
  PROVE  IsBest(n)' /\ Below(n + 1)'
<1>1. MaxHeight \in Nat /\ b # NoHash
  BY ParameterAssumption, ChainAssumption
<1>2. \A h \in Rows : h <= n
  BY <1>1 DEF Below, IsBest, Rows, Heights
<1>3. IsBest(n)'
  BY <1>1, <1>2 DEF IsBest, Rows, Heights
<1> QED
  BY <1>1, <1>3 DEF Below, IsBest, Rows, Heights

\* Every action keeps the round where the code believes it is: fork walk, plan,
\* sequential loop and parallel coordinator.
LEMMA RoundStep ==
  ASSUME TypeOK, Placed, RoundInv, [Next]_vars, TypeOK'
  PROVE  RoundInv'
<1>0. MaxHeight \in Nat
  BY ParameterAssumption
<1>1. CASE Leaves
  BY <1>1, Zenon DEF RoundInv, Leaves
<1>2. CASE Stays
  BY <1>2, Zenon DEF RoundInv, Stays, IsBest, Rows, Below, Consecutive
<1>3. CASE ReadTips
  BY <1>3, <1>0 DEF ReadTips, RoundInv, IsBest, Rows, Below, TypeOK, Heights
<1>4. CASE ReadTipsEmpty
  BY <1>4, Zenon DEF ReadTipsEmpty, RoundInv, Rows, Below
<1>5. CASE ForkCheckOk
  BY <1>5, <1>0 DEF ForkCheckOk, RoundInv, IsBest, Rows, Below, TypeOK, Heights
<1>6. CASE ForkFound
  <2>1. row[best] \in held => BlockHash(best) = row[best]
    BY <1>6, HeldFacts DEF ForkFound, RoundInv, IsBest, Rows
  <2> QED
    BY <1>6, <1>0, <2>1, SMTT(30) DEF ForkFound, Lags, RoundInv, IsBest, Rows, TypeOK, Heights
<1>7. CASE ForkWalk
  <2>1. row[walk] \in held => BlockHash(walk) = row[walk]
    BY <1>7, HeldFacts DEF ForkWalk, Rows
  <2> QED
    BY SMTT(60), <1>7, <1>0, <2>1 DEF ForkWalk, Lags, RoundInv, IsBest, Rows, TypeOK, Heights
<1>8. CASE ForkWalkEnd
  BY <1>8, Zenon DEF ForkWalkEnd, RoundInv, IsBest, Rows
<1>9. CASE DisconnectBlock
  BY SMTT(60), <1>9, <1>0, RestartFacts DEF DisconnectBlock, RoundInv, IsBest, Rows, TypeOK, Heights
<1>10. CASE PlanParallel
  BY <1>10, <1>0 DEF PlanParallel, RoundInv, IsBest, Rows, Below, Consecutive, TypeOK
<1>11. CASE PlanSequential
  BY <1>11 DEF PlanSequential, RoundInv, IsBest, Rows, Below
<1>12. CASE StartConnect
  BY <1>12, <1>0 DEF StartConnect, RoundInv, IsBest, Rows, Below, Consecutive, NoRound, TypeOK
<1>13. CASE GetBlock
  <2>1. PICK b \in Block :
          /\ bch' = Append(bch, [height |-> gb.height, hash |-> b])
          /\ gb'.height = gb.height + 1
    BY Zenon, <1>13, GetBlockFacts
  <2>2. gb.height \in Heights
    BY SMTT(60), <1>0, <2>1 DEF TypeOK, Producer, Heights
  <2>3. /\ bch \in Seq(Entry) /\ pc = "connect" /\ pc' = "connect"
        /\ UNCHANGED <<row, startHeight>>
    BY <1>13 DEF GetBlock, Producing, TypeOK
  <2>4. /\ Consecutive(bch', gb'.height)
        /\ gb'.height - Len(bch') = gb.height - Len(bch)
    <3>1. Consecutive(bch, gb.height)
      BY <2>3, Zenon DEF RoundInv
    <3> QED
      <4>1. /\ Consecutive(Append(bch, [height |-> gb.height, hash |-> b]), gb.height + 1)
            /\ gb.height + 1 - Len(Append(bch, [height |-> gb.height, hash |-> b]))
                 = gb.height - Len(bch)
        BY <2>2, <2>3, <3>1, AppendConsecutive
      <4> QED
        <5>1. Consecutive(bch', gb'.height)
          BY <2>1, <4>1
        <5>2. gb'.height - Len(bch') = gb.height - Len(bch)
          BY <1>0, <2>1, <2>2, <4>1 DEF Heights
        <5> QED
          BY <5>1, <5>2
  <2> QED
    BY <2>3, <2>4 DEF RoundInv, Below, IsBest, Rows
<1>14. CASE ConnectBlock
  <2>1. /\ bch \in Seq(Entry) /\ bch # <<>> /\ pc = "connect" /\ pc' = "connect"
        /\ gb.height \in Int /\ startHeight \in Int /\ Len(bch) \in Nat
        /\ UNCHANGED <<gb, startHeight>> /\ bch' = Tail(bch)
    BY <1>14 DEF ConnectBlock, TypeOK, Producer
  <2>2. PICK n \in Int : n = gb.height - Len(bch)
    BY SMTT(60), <2>1
  <2>3. /\ Consecutive(bch', gb.height) /\ gb.height - Len(bch') = n + 1
        /\ Head(bch).height = n
    BY <2>1, <2>2, TailConsecutive DEF RoundInv
  <2>4. Below(n + 1)'
    <3>1. /\ n \in Heights /\ Head(bch).hash \in Block /\ row \in [Heights -> Hash]
          /\ row' = [row EXCEPT ![n] = Head(bch).hash]
      BY Zenon, <1>14, <2>1, <2>3, QueueFacts DEF ConnectBlock, TypeOK
    <3>2. Below(n)
      BY <2>1, <2>2 DEF RoundInv
    <3> QED
      BY Zenon, <3>1, <3>2, WriteAbove
  <2>5. startHeight <= n + 1
    BY <2>1, <2>2 DEF RoundInv
  <2> QED
    BY <2>1, <2>3, <2>4, <2>5, Zenon DEF RoundInv
<1>15. CASE QueueHash
  <2>1. BlockHash(par.next) \in Block /\ par.next \in Heights /\ par.q \in Seq(Entry)
        /\ pc = "parallel" /\ pc' = "parallel"
    BY <1>15, <1>0, BlockHashFacts DEF QueueHash, TypeOK, Coordinator, Hash
  <2>2. /\ par'.q = Append(par.q, [height |-> par.next, hash |-> BlockHash(par.next)])
        /\ par'.next = par.next + 1
    BY <1>15 DEF QueueHash, TypeOK, Coordinator
  <2>3. /\ Consecutive(par'.q, par'.next)
        /\ par'.next - Len(par'.q) = par.next - Len(par.q)
    <3>1. Consecutive(par.q, par.next)
      BY <2>1, Zenon DEF RoundInv
    <3> QED
      <4> DEFINE e == [height |-> par.next, hash |-> BlockHash(par.next)]
      <4>1. /\ Consecutive(Append(par.q, e), par.next + 1)
            /\ par.next + 1 - Len(Append(par.q, e)) = par.next - Len(par.q)
        BY <2>1, <3>1, AppendConsecutive
      <4> QED
        <5>1. Consecutive(par'.q, par'.next)
          BY <2>2, <4>1
        <5>2. par'.next - Len(par'.q) = par.next - Len(par.q)
          BY <1>0, <2>1, <2>2, <4>1 DEF Heights
        <5> QED
          BY <5>1, <5>2
  <2> QED
    BY <1>15, <2>1, <2>3 DEF QueueHash, RoundInv, Below, IsBest, Rows
<1>16. CASE WriteBlock
  <2>1. /\ par.q \in Seq(Entry) /\ par.q # <<>> /\ pc = "parallel" /\ pc' = "parallel"
        /\ par.next \in Int /\ Len(par.q) \in Nat
        /\ par'.q = Tail(par.q) /\ par'.next = par.next
    BY <1>16 DEF WriteBlock, TypeOK, Coordinator
  <2>2. PICK n \in Int : n = par.next - Len(par.q)
    BY <2>1
  <2>3. /\ Consecutive(par'.q, par'.next) /\ par'.next - Len(par'.q) = n + 1
        /\ Head(par.q).height = n
    BY SMTT(60), <2>1, <2>2, TailConsecutive DEF RoundInv
  <2>4. Below(n + 1)'
    <3>1. /\ n \in Heights /\ Head(par.q).hash \in Block /\ row \in [Heights -> Hash]
          /\ row' = [row EXCEPT ![n] = Head(par.q).hash]
      BY Zenon, <1>16, <2>1, <2>3, QueueFacts DEF WriteBlock, TypeOK
    <3>2. Below(n)
      BY <2>1, <2>2 DEF RoundInv
    <3> QED
      BY Zenon, <3>1, <3>2, WriteAbove
  <2> QED
    BY <2>1, <2>3, <2>4, Zenon DEF RoundInv
<1> QED
  BY <1>1, <1>2, <1>3, <1>4, <1>5, <1>6, <1>7, <1>8, <1>9, <1>10, <1>11, <1>12, Zenon,
     <1>13, <1>14, <1>15, <1>16, LeavesOrStays DEF Next, SyncStep
-----------------------------------------------------------------------------
\* The ways a step changes the index: not at all, it cuts the rows from
\* height l up, or it writes the block above the best row.

Keeps == UNCHANGED <<row, undo, seam>> /\ (floor' = floor \/ PlanParallel)

Cuts(l) ==
  /\ \A h \in Heights : row'[h] = IF h < l THEN row[h] ELSE NoHash
  /\ \A h \in undo' : h \in undo /\ h < l
  /\ \A h \in undo : h < l => h \in undo'
  /\ \A h \in Heights : h < l => (h \in seam' <=> h \in seam)
  /\ floor' = floor

Grows(n, b) ==
  /\ Below(n) /\ row' = [row EXCEPT ![n] = b]
  /\ seam \ {n} \subseteq seam' /\ floor' = floor
  /\ \/ n \in seam'
     \/ /\ pc = "connect" /\ bch # <<>> /\ (n > startHeight \/ linked)
        /\ n = bch[1].height /\ b = bch[1].hash
  /\ \/ undo' = (undo \cup {n}) \ Cleaned(n)
     \/ /\ undo' = undo
        /\ pc = "parallel" /\ par.bulk /\ n + Keep <= par.high

\* Every indexed height lies below n when the row below n is the best one.
LEMMA BelowFacts ==
  ASSUME NEW n \in Int, Below(n)
  PROVE  \A h \in Rows : h \in Int /\ h < n
<1>1. \A h \in Rows : h \in Int
  BY ParameterAssumption DEF Rows, Heights
<1>2. Rows # {} => \A h \in Rows : h <= n - 1
  BY Zenon DEF Below, IsBest
<1> QED
  BY <1>1, <1>2

\* Every step but those six keeps the index as it is.
LEMMA KeepsIndex ==
  ASSUME TypeOK, Placed, [Next]_vars, ~Recreate, ~DisconnectBlock, ~DisconnectRange,
         ~ConnectBlock, ~WriteBlock
  PROVE  Keeps
<1>1. CASE BackendMoves \/ FeedMovesTip \/ Crash \/ RpcError \/ UNCHANGED vars
  BY <1>1, Zenon DEF BackendMoves, FeedMovesTip, Crash, RpcError, Keeps
<1>2. CASE StartResync \/ SyncNotNeeded \/ ReadTips \/ ReadTipsEmpty \/ ForkCheckOk
  BY <1>2, Zenon DEF StartResync, SyncNotNeeded, ReadTips, ReadTipsEmpty, ForkCheckOk, Keeps
<1>3. CASE ForkFound \/ ForkWalk \/ ForkWalkEnd \/ DisconnectRefused
  BY <1>3 DEF ForkFound, ForkWalk, ForkWalkEnd, DisconnectRefused, Keeps
<1>4. CASE PlanParallel \/ PlanSequential \/ StartConnect \/ StartHashNotFound
  BY <1>4 DEF PlanParallel, PlanSequential, StartConnect, StartHashNotFound, Keeps
<1>5. CASE GetBlock \/ GetBlockFork \/ GetBlockPastTip \/ GetBlockMiss
           \/ GetBlockStall \/ GetBlockYield
  BY Zenon, <1>5 DEF GetBlock, GetBlockFork, GetBlockPastTip, GetBlockMiss, GetBlockStall,
              GetBlockYield, Keeps
<1>6. CASE ConnectRestart \/ ConnectDone \/ ConnectError
  BY <1>6 DEF ConnectRestart, ConnectDone, ConnectError, Keeps
<1>7. CASE QueueHash \/ ParallelAbort \/ ParallelDone
  BY <1>7, Zenon DEF QueueHash, ParallelAbort, ParallelDone, Keeps
<1> QED
  BY <1>1, <1>2, <1>3, <1>4, <1>5, <1>6, <1>7, Zenon DEF Next, SyncStep

\* What ResyncIndex does to the index is one of three things: nothing, a cut
\* from some height up, or one block on top of the best row.
LEMMA IndexStep ==
  ASSUME TypeOK, Placed, RoundInv, undo \subseteq Rows, [Next]_vars
  PROVE  \/ Keeps
         \/ \E l \in 0..MaxHeight : Cuts(l)
         \/ \E n \in Heights, b \in Block : Grows(n, b)
<1>0. MaxHeight \in Nat
  BY ParameterAssumption
<1>1. CASE Recreate
  <2>1. Cuts(0)
    <3>1. \A h \in Heights : ~(h < 0)
      BY <1>0 DEF Heights
    <3>2. \A h \in Heights : row'[h] = NoHash
      BY <1>1, Zenon DEF Recreate
    <3>3. undo' = {} /\ \A h \in undo : ~(h < 0)
      BY <1>1, <3>1, Zenon DEF Recreate, TypeOK
    <3> QED
      BY <1>1, <3>1, <3>2, <3>3 DEF Recreate, Cuts
  <2> QED
    BY <2>1, <1>0
<1>2. CASE DisconnectBlock
  <2>1. Cuts(best)
    BY <1>2, <1>0 DEF DisconnectBlock, RoundInv, IsBest, Rows, Cuts, TypeOK, Heights
  <2> QED
    BY <2>1, Zenon DEF TypeOK, Heights
<1>3. CASE DisconnectRange
  <2>1. CASE walk + 1 = 0
    BY <1>3, <2>1 DEF DisconnectRange, Keeps
  <2>2. CASE walk + 1 # 0
    <3>1. walk + 1 \in 0..MaxHeight
      BY <1>3, <1>0, <2>2 DEF DisconnectRange, RoundInv, TypeOK, Heights
    <3>2. Cuts(walk + 1)
      <4>1. \A h \in Heights : h > best => row[h] = NoHash /\ h \notin undo
        BY <1>3, <1>0 DEF DisconnectRange, RoundInv, IsBest, Rows, TypeOK, Heights
      <4>2. \A h \in Heights : h \in (walk + 1)..best <=> ~(h < walk + 1) /\ ~(h > best)
        BY <1>0 DEF TypeOK, Heights
      <4>3. \A h \in Heights : row'[h] = IF h < walk + 1 THEN row[h] ELSE NoHash
        BY <1>3, <2>2, <4>1, <4>2, Zenon DEF DisconnectRange
      <4>4. \A h \in Heights : h \in undo' <=> h \in undo /\ h < walk + 1
        BY <1>3, <2>2, <4>1, <4>2, Zenon DEF DisconnectRange
      <4>5. \A h \in Heights : h < walk + 1 => (h \in seam' <=> h \in seam)
        BY <1>3, <2>2, <4>2, Zenon DEF DisconnectRange
      <4>6. undo \subseteq Heights /\ undo' \subseteq undo /\ floor' = floor
        BY <1>3, <2>2, Zenon DEF DisconnectRange, TypeOK
      <4> QED
        BY <4>3, <4>4, <4>5, <4>6, Zenon DEF Cuts
    <3> QED
      BY <3>1, <3>2, Zenon
  <2> QED
    BY <2>1, <2>2
<1>4. CASE ConnectBlock
  <2>1. /\ Head(bch).height \in Heights /\ Head(bch).hash \in Block
        /\ Below(Head(bch).height) /\ Head(bch) = bch[1]
        /\ Head(bch).height \in Int /\ startHeight \in Int
        /\ startHeight <= Head(bch).height
    <3>1. bch \in Seq(Entry) /\ bch # <<>> /\ pc = "connect" /\ gb.height \in Int
      BY SMTT(60), <1>4 DEF ConnectBlock, TypeOK, Producer
    <3>2. /\ Consecutive(bch, gb.height) /\ Below(gb.height - Len(bch))
          /\ startHeight <= gb.height - Len(bch)
      BY <3>1, Zenon DEF RoundInv
    <3>3. Head(bch).height \in Heights /\ Head(bch).hash \in Block /\ Head(bch) = bch[1]
      BY <3>1, QueueFacts
    <3>4. Head(bch).height = gb.height - Len(bch)
      BY <3>1, <3>2, TailConsecutive, Zenon
    <3>5. Head(bch).height \in Int /\ startHeight \in Int
      BY SMTT(60), <1>0, <3>3 DEF TypeOK, Heights
    <3> QED
      BY <3>2, <3>3, <3>4, <3>5, Zenon
  <2>2. Grows(Head(bch).height, Head(bch).hash)
    <3>1. /\ pc = "connect" /\ bch # <<>> /\ floor' = floor
          /\ row' = [row EXCEPT ![Head(bch).height] = Head(bch).hash]
          /\ undo' = (undo \cup {Head(bch).height}) \ Cleaned(Head(bch).height)
          /\ seam' = IF Head(bch).height = startHeight /\ ~linked
                     THEN seam \cup {Head(bch).height} ELSE seam \ {Head(bch).height}
      BY <1>4, Zenon DEF ConnectBlock
    <3>2. seam \ {Head(bch).height} \subseteq seam'
      BY <3>1, Zenon
    <3>3. Head(bch).height \in seam' \/ Head(bch).height > startHeight \/ linked
      BY <2>1, <3>1
    <3> QED
      BY <2>1, <3>1, <3>2, <3>3, Zenon DEF Grows
  <2> QED
    BY <2>1, <2>2, Zenon
<1>5. CASE WriteBlock
  <2>1. /\ Head(par.q).height \in Heights /\ Head(par.q).hash \in Block
        /\ Below(Head(par.q).height)
    <3>1. par.q \in Seq(Entry) /\ par.q # <<>> /\ pc = "parallel" /\ par.next \in Int
      BY <1>5 DEF WriteBlock, TypeOK, Coordinator
    <3>2. Consecutive(par.q, par.next) /\ Below(par.next - Len(par.q))
      BY <3>1, Zenon DEF RoundInv
    <3> QED
      BY <3>1, <3>2, QueueFacts, TailConsecutive, Zenon
  <2>2. Grows(Head(par.q).height, Head(par.q).hash)
    BY <1>5, <2>1, Zenon DEF WriteBlock, Grows
  <2> QED
    BY <2>1, <2>2, Zenon
<1> QED
  BY <1>1, <1>2, <1>3, <1>4, <1>5, KeepsIndex

\* Cuts from the top and growth at the top make no hole.
LEMMA NoHolesStep ==
  ASSUME TypeOK, TypeOK', Placed, RoundInv, undo \subseteq Rows, NoHoles, [Next]_vars
  PROVE  NoHoles'
<1>0. MaxHeight \in Nat
  BY ParameterAssumption
<1>1. CASE Keeps
  BY <1>1, Zenon DEF Keeps, NoHoles
<1>2. ASSUME NEW l \in 0..MaxHeight, Cuts(l) PROVE NoHoles'
  BY <1>0, <1>2 DEF Cuts, NoHoles, Heights
<1>3. ASSUME NEW n \in Heights, NEW b \in Block, Grows(n, b) PROVE NoHoles'
  <2>1. \A h \in Heights : row[h] # NoHash => h < n /\ row[n - 1] # NoHash
    BY <1>0, <1>3 DEF Grows, Below, IsBest, Rows, Heights
  <2>2. b # NoHash
    BY ChainAssumption, Zenon
  <2> QED
    <3> SUFFICES ASSUME NEW i \in Heights, NEW j \in Heights, NEW k \in Heights,
                        i < j, j < k, row'[i] # NoHash, row'[k] # NoHash
                 PROVE  row'[j] # NoHash
      BY Zenon DEF NoHoles
    <3>1. /\ row'[n] = b
          /\ \A h \in Heights : h # n => row'[h] = row[h]
      BY <1>3 DEF Grows, TypeOK
    <3>2. i \in Int /\ j \in Int /\ k \in Int /\ n \in Int
      BY <1>0 DEF Heights
    <3>3. i # n /\ row[i] # NoHash /\ k <= n
      BY <2>1, <3>1, <3>2
    <3>4. CASE k = n
      <4>1. n - 1 \in Heights /\ row[n - 1] # NoHash
        BY <1>0, <2>1, <3>2, <3>3, <3>4 DEF Heights
      <4> QED
        BY <3>1, <3>2, <3>3, <3>4, <4>1 DEF NoHoles
    <3>5. CASE k # n
      BY SMTT(60), <3>1, <3>2, <3>3, <3>5 DEF NoHoles
    <3> QED
      BY <3>4, <3>5, Zenon
<1> QED
  BY <1>1, <1>2, <1>3, IndexStep, Zenon

\* cleanupBlockTxs deletes downwards without a gap, so it never leaves undo
\* data below data it deleted.
LEMMA UndoStep ==
  ASSUME TypeOK, TypeOK', Placed, RoundInv, NoHoles, UndoFromTop, BulkInv, [Next]_vars
  PROVE  UndoFromTop'
<1>0. MaxHeight \in Nat /\ Keep \in Nat \ {0} /\ undo \subseteq Rows
  BY ParameterAssumption, Zenon DEF UndoFromTop
<1>1. CASE Keeps /\ floor' = floor
  BY <1>1, Zenon DEF Keeps, UndoFromTop, Rows
<1>2. CASE Keeps /\ PlanParallel
  <2>1. undo' = undo /\ row' = row /\ (floor' = floor \/ floor' = startHeight)
    BY <1>2, Zenon DEF Keeps, PlanParallel
  <2>2. pc = "plan" /\ startHeight \in Int
    BY <1>2 DEF PlanParallel, TypeOK
  <2>3. \A h \in undo : h \in Int /\ h < startHeight
    BY <1>0, <2>2, BelowFacts, Zenon DEF RoundInv
  <2> QED
    BY SMTT(60), <1>0, <2>1, <2>2, <2>3 DEF UndoFromTop, Rows, TypeOK
<1>3. ASSUME NEW l \in 0..MaxHeight, Cuts(l) PROVE UndoFromTop'
  <2>1. \A h \in Rows' : h \in Rows /\ h < l
    BY <1>3, Zenon DEF Cuts, Rows
  <2>2. undo' \subseteq Rows'
    BY <1>0, <1>3, Zenon DEF Cuts, Rows
  <2> QED
    BY <1>3, <2>1, <2>2, Zenon DEF UndoFromTop, Cuts
<1>4. ASSUME NEW n \in Heights, NEW b \in Block, Grows(n, b) PROVE UndoFromTop'
  <2>1. /\ \A h \in Rows : h < n
        /\ Rows' = Rows \cup {n} /\ floor' = floor /\ n \in Int
    <3>1. /\ row' = [row EXCEPT ![n] = b] /\ b # NoHash /\ row \in [Heights -> Hash]
          /\ floor' = floor
      BY <1>4, ChainAssumption, Zenon DEF Grows, TypeOK
    <3>2. Rows' = Rows \cup {n}
      BY <3>1, Zenon DEF Rows
    <3>3. \A h \in Rows : h < n
      BY <1>0, <1>4 DEF Grows, Below, IsBest, Rows, Heights
    <3> QED
      BY SMTT(60), <1>0, <3>1, <3>2, <3>3 DEF Heights
  <2>2. \A h \in Rows : h \in Int
    BY <1>0 DEF Rows, Heights
  <2>3. CASE undo' = (undo \cup {n}) \ Cleaned(n)
    <3>1. undo' \subseteq Rows'
      BY <1>0, <2>1, <2>3, Zenon
    <3> SUFFICES ASSUME NEW h \in undo', h # 0, h >= floor, NEW k \in Rows', k > h
                 PROVE  k \in undo'
      BY <2>1, <3>1, Zenon DEF UndoFromTop
    <3>2. n \notin Cleaned(n)
      BY <1>0, <2>1 DEF Cleaned
    <3>3. CASE k = n
      BY <2>3, <3>2, <3>3, Zenon
    <3>4. CASE k # n
      <4>1. k \in Rows /\ h \in undo /\ h \in Rows /\ h \notin Cleaned(n)
        BY <1>0, <2>1, <2>2, <2>3, <3>1, <3>4
      <4>2. \A j \in Rows : j > h => j \in undo
        BY <4>1, Zenon DEF UndoFromTop
      <4>3. \A j \in h..k : j \in undo
        BY <1>0, <2>2, <4>1, <4>2 DEF NoHoles, Rows, Heights
      <4>4. ASSUME k \in Cleaned(n) PROVE FALSE
        <5>1. \A j \in k..(n - Keep) : j \in undo
          BY <4>4, Zenon DEF Cleaned
        <5>2. h \in 1..(n - Keep)
          BY <1>0, <2>1, <2>2, <4>1, <4>4 DEF Cleaned, Rows, Heights
        <5>3. \A j \in h..(n - Keep) : j \in undo
          BY <1>0, <2>1, <2>2, <4>1, <4>3, <5>1
        <5> QED
          BY <4>1, <5>2, <5>3, Zenon DEF Cleaned
      <4> QED
        BY <2>3, <4>1, <4>2, <4>4, Zenon
    <3> QED
      BY <3>3, <3>4, Zenon
  <2>4. CASE undo' = undo /\ pc = "parallel" /\ par.bulk /\ n + Keep <= par.high
    <3>1. \A h \in undo \ {0} : ~(h >= floor)
      <4> SUFFICES ASSUME NEW h \in undo \ {0}, h >= floor PROVE FALSE
        BY Zenon
      <4>1. h + Keep > par.high /\ h < n /\ h \in Int
        BY <1>0, <2>1, <2>2, <2>4, Zenon DEF BulkInv
      <4>2. par.high \in Int
        BY <1>0 DEF TypeOK, Coordinator, Heights
      <4> QED
        BY <1>0, <2>1, <2>4, <4>1, <4>2
    <3> QED
      BY <1>0, <2>1, <2>4, <3>1, Zenon DEF UndoFromTop
  <2> QED
    BY <1>4, <2>3, <2>4, Zenon DEF Grows
<1>5. Keeps => floor' = floor \/ PlanParallel
  BY Zenon DEF Keeps
<1> QED
  BY <1>0, <1>1, <1>2, <1>3, <1>4, <1>5, IndexStep, Zenon

\* Bulk connect stores undo data only for the last Keep heights of its range
\* (db/sync.go:946), until the range ends.
LEMMA BulkStep ==
  ASSUME TypeOK, Placed, RoundInv, undo \subseteq Rows, BulkInv, [Next]_vars
  PROVE  BulkInv'
<1>0. MaxHeight \in Nat /\ Keep \in Nat
  BY ParameterAssumption, Zenon
<1>1. CASE pc' # "parallel"
  BY <1>1, Zenon DEF BulkInv
<1>2. CASE UNCHANGED <<pc, par, undo, floor>>
  BY <1>2, Zenon DEF BulkInv
<1>3. CASE PlanParallel
  <2>1. /\ undo' = undo /\ par'.bulk = BulkSync
        /\ BulkSync => floor' = startHeight
    BY <1>3, Zenon DEF PlanParallel
  <2>2. pc = "plan" /\ startHeight \in Int
    BY <1>3 DEF PlanParallel, TypeOK
  <2>3. \A h \in undo : h \in Int /\ h < startHeight
    BY <2>2, BelowFacts DEF RoundInv
  <2> QED
    BY SMTT(60), <2>1, <2>2, <2>3 DEF BulkInv
<1>4. CASE QueueHash
  <2>1. par'.bulk = par.bulk /\ par'.high = par.high
    BY <1>4, Zenon DEF QueueHash, TypeOK, Coordinator
  <2> QED
    BY <1>4, <2>1 DEF QueueHash, BulkInv
<1>5. CASE WriteBlock
  <2>1. /\ par'.bulk = par.bulk /\ par'.high = par.high /\ par.high \in Int
        /\ par.q \in Seq(Entry)
    BY <1>5, <1>0 DEF WriteBlock, TypeOK, Coordinator, Heights
  <2>2. Head(par.q).height \in Int
    BY <1>5, <1>0, <2>1, QueueFacts DEF WriteBlock, Heights
  <2>3. \A h \in undo' : h \in undo \/ (par.bulk => h + Keep > par.high)
    BY <1>5, <1>0, <2>1, <2>2 DEF WriteBlock
  <2> QED
    BY <1>5, <2>1, <2>3, Zenon DEF WriteBlock, BulkInv
<1>6. CASE BackendMoves \/ FeedMovesTip \/ UNCHANGED vars
  BY <1>2, <1>6 DEF BackendMoves, FeedMovesTip
<1>7. CASE Crash \/ DisconnectRange
  BY <1>1, <1>7, RestartFacts, Zenon DEF Crash, DisconnectRange
<1>8. CASE DisconnectRefused \/ StartHashNotFound \/ ConnectError
  BY <1>1, <1>8, FailFacts DEF DisconnectRefused, StartHashNotFound, ConnectError
<1>9. CASE Recreate \/ StartResync \/ SyncNotNeeded \/ ConnectDone \/ ConnectRestart
           \/ ParallelAbort \/ ParallelDone
  BY ZenonT(40), <1>1, <1>9 DEF Recreate, StartResync, SyncNotNeeded, ConnectDone, ConnectRestart,
                    ParallelAbort, ParallelDone, Finish
<1>10. CASE ReadTips \/ ReadTipsEmpty \/ ForkCheckOk \/ ForkFound \/ ForkWalk
            \/ ForkWalkEnd \/ PlanSequential \/ StartConnect
  BY <1>1, <1>10, Zenon DEF ReadTips, ReadTipsEmpty, ForkCheckOk, ForkFound, ForkWalk,
                     ForkWalkEnd, PlanSequential, StartConnect
<1>11. CASE DisconnectBlock
  BY <1>1, <1>11, RestartFacts DEF DisconnectBlock
<1>12. CASE GetBlock \/ GetBlockFork \/ GetBlockPastTip \/ GetBlockMiss
            \/ GetBlockStall \/ GetBlockYield \/ ConnectBlock
  BY Zenon, <1>1, <1>12 DEF GetBlock, GetBlockFork, GetBlockPastTip, GetBlockMiss,
                     GetBlockStall, GetBlockYield, ConnectBlock, Producing
<1>13. CASE RpcError
  <2>1. CASE Fail
    BY <1>1, <2>1, FailFacts, Zenon
  <2>2. CASE Producing /\ UNCHANGED pc
    BY <1>1, <2>2, Zenon DEF Producing
  <2> QED
    BY <1>13, <2>1, <2>2, Zenon DEF RpcError
<1> QED
  BY <1>3, <1>4, <1>5, <1>6, <1>7, <1>8, <1>9, <1>10, <1>11, <1>12, <1>13, Zenon
     DEF Next, SyncStep

-----------------------------------------------------------------------------
\* Third layer: the blocks of a sequential round hang together.

\* getBlockChain fetches a block that links to the one it put into the channel before,
\* or to the row below.
LEMMA LinkGetBlock ==
  ASSUME TypeOK, TypeOK', Placed, RoundInv, LinkInv, GetBlock
  PROVE  LinkInv'
<1>z. MaxHeight \in Nat
  BY ParameterAssumption, Zenon
<1>1. PICK b \in Block :
        /\ Fetched(b) /\ ~ForkedFrom(b)
        /\ gb.height \in Heights /\ AtHeight(b, gb.height)
        /\ bch' = Append(bch, [height |-> gb.height, hash |-> b])
        /\ gb'.height = gb.height + 1 /\ gb'.prev = b
  BY Zenon, GetBlockFacts
<1>2. /\ pc = "connect" /\ pc' = "connect" /\ bch \in Seq(Entry)
      /\ UNCHANGED <<row, startHeight, linked>> /\ startHeight \in Nat
      /\ Len(bch) \in Nat /\ gb.height \in Int
  BY <1>z, <1>1 DEF GetBlock, Producing, TypeOK, Heights
<1>3. startHeight <= gb.height - Len(bch) /\ b # NoHash
  BY <1>2, ChainAssumption, Zenon DEF RoundInv
<1>4. gb.height > 0 => Parent[b] # NoHash
  BY <1>1, <1>2, <1>3, PlacedFacts
<1>5. gb.prev # NoHash /\ gb.height > 0 => Parent[b] = gb.prev
  BY <1>1, <1>4, Zenon DEF ForkedFrom
<1>6. /\ Len(bch') = Len(bch) + 1 /\ DOMAIN bch' = 1..(Len(bch) + 1)
      /\ bch'[Len(bch) + 1].height = gb.height /\ bch'[Len(bch) + 1].hash = b
      /\ \A i \in 1..Len(bch) : bch'[i] = bch[i]
      /\ DOMAIN bch = 1..Len(bch)
  BY <1>1, <1>2 DEF Entry
<1>7. bch # <<>> => /\ Len(bch) > 0 /\ gb.prev = bch[Len(bch)].hash
                    /\ gb.prev # NoHash /\ gb.height > 0
  <2> SUFFICES ASSUME bch # <<>>
               PROVE  Len(bch) > 0 /\ gb.prev = bch[Len(bch)].hash
                      /\ gb.prev # NoHash /\ gb.height > 0
    BY Zenon
  <2>1. Len(bch) > 0 /\ gb.prev = bch[Len(bch)].hash
    BY <1>2 DEF LinkInv
  <2>2. bch[Len(bch)] \in Entry
    BY <1>2, <2>1
  <2> QED
    BY <1>2, <1>3, <2>1, <2>2, ChainAssumption DEF Entry
<1>8. \A i \in DOMAIN bch' : i > 1 => Parent[bch'[i].hash] = bch'[i - 1].hash
  <2> SUFFICES ASSUME NEW i \in DOMAIN bch', i > 1
               PROVE  Parent[bch'[i].hash] = bch'[i - 1].hash
    BY Zenon
  <2>1. CASE i \in 1..Len(bch)
    BY <1>2, <1>6, <2>1 DEF LinkInv
  <2>2. CASE i = Len(bch) + 1
    BY <1>2, <1>5, <1>6, <1>7, <2>2
  <2> QED
    BY <1>2, <1>6, <2>1, <2>2
<1>9. bch'[1].height > startHeight \/ linked =>
        Parent[bch'[1].hash] = row[bch'[1].height - 1]
  <2>1. CASE bch # <<>>
    <3>1. bch'[1] = bch[1]
      BY <1>2, <1>6, <1>7, <2>1
    <3> QED
      BY <1>2, <2>1, <3>1, Zenon DEF LinkInv
  <2>2. CASE bch = <<>>
    <3>1. bch'[1].height = gb.height /\ bch'[1].hash = b
      BY <1>6, <2>2
    <3>2. CASE gb.height > startHeight
      BY <1>2, <1>5, <2>2, <3>1, <3>2 DEF LinkInv
    <3>3. CASE gb.height = startHeight /\ linked
      <4>1. gb.hash # NoHash /\ Parent[gb.hash] = row[startHeight - 1]
        BY <1>2, <3>3, Zenon DEF LinkInv
      <4> QED
        BY <1>1, <3>1, <3>3, <4>1, Zenon DEF Fetched
    <3> QED
      BY <1>2, <1>3, <2>2, <3>1, <3>2, <3>3
  <2> QED
    BY <2>1, <2>2
<1>10. gb'.height > startHeight
  BY <1>1, <1>2, <1>3
<1>11. bch' # <<>> /\ gb'.prev = bch'[Len(bch')].hash /\ gb'.prev # NoHash
  <2>1. bch' # <<>>
    BY <1>1, <1>2
  <2>2. bch'[Len(bch')].hash = b
    BY <1>6, Zenon
  <2> QED
    BY <1>1, <1>3, <2>1, <2>2, Zenon
<1> QED
  BY <1>2, <1>8, <1>9, <1>10, <1>11 DEF LinkInv

\* connectBlocks writes the first block of the channel; the next one links to it.
LEMMA LinkConnectBlock ==
  ASSUME TypeOK, TypeOK', Placed, RoundInv, LinkInv, ConnectBlock
  PROVE  LinkInv'
<1>1. /\ pc = "connect" /\ pc' = "connect" /\ bch \in Seq(Entry) /\ bch # <<>>
      /\ UNCHANGED <<gb, startHeight, linked>> /\ bch' = Tail(bch)
      /\ startHeight \in Int /\ Len(bch) \in Nat /\ gb.height \in Int
      /\ row \in [Heights -> Hash]
  BY DEF ConnectBlock, TypeOK, Producer
<1>2. PICK n \in Int : n = gb.height - Len(bch)
  BY <1>1
<1>3. /\ Head(bch).height = n /\ Head(bch) = bch[1] /\ n \in Heights
      /\ Len(bch') = Len(bch) - 1 /\ DOMAIN bch = 1..Len(bch) /\ Len(bch) > 0
      /\ \A i \in DOMAIN bch' : bch'[i] = bch[i + 1] /\ i + 1 \in DOMAIN bch
      /\ DOMAIN bch' = 1..(Len(bch) - 1)
  BY <1>1, <1>2, QueueFacts, TailConsecutive DEF RoundInv
<1>4. row'[n] = bch[1].hash /\ startHeight <= n
  BY Zenon, <1>1, <1>2, <1>3 DEF ConnectBlock, RoundInv
<1>l. PICK l \in Nat : l = Len(bch)
  BY <1>1
<1>d. /\ l > 0 /\ n = gb.height - l /\ DOMAIN bch = 1..l /\ DOMAIN bch' = 1..(l - 1)
      /\ Len(bch') = l - 1
  BY <1>2, <1>3, <1>l, Zenon
<1>a. (bch' # <<>> => l > 1) /\ (bch' = <<>> => l = 1)
  <2>1. bch' \in Seq(Entry)
    BY DEF TypeOK
  <2>2. (bch' # <<>> => Len(bch') > 0) /\ (bch' = <<>> => Len(bch') = 0)
    BY <2>1
  <2> QED
    BY <1>d, <2>2
<1>5. gb.height > startHeight /\ gb.prev # NoHash /\ gb.prev = bch[Len(bch)].hash
  <2>0. gb.height \in Int /\ startHeight \in Int
    BY <1>1, Zenon
  <2>1. gb.height > startHeight
    BY <1>d, <1>4, <2>0
  <2> QED
    BY <1>1, <2>1, Zenon DEF LinkInv
<1>6. bch' # <<>> => gb.prev = bch'[Len(bch')].hash
  <2> SUFFICES ASSUME bch' # <<>> PROVE gb.prev = bch'[Len(bch')].hash
    OBVIOUS
  <2>1. l - 1 \in DOMAIN bch' /\ (l - 1) + 1 = l
    BY <1>d, <1>a
  <2> QED
    BY <1>3, <1>5, <1>l, <1>d, <2>1, Zenon
<1>7. bch' = <<>> => gb.prev = row'[gb.height - 1]
  <2> SUFFICES ASSUME bch' = <<>> PROVE gb.prev = row'[gb.height - 1]
    OBVIOUS
  <2>1. Len(bch) = 1
    BY <1>a, <1>l
  <2>2. gb.height - 1 = n
    BY <1>1, <1>2, <2>1, Zenon
  <2> QED
    BY <1>4, <1>5, <2>1, <2>2, Zenon
<1>8. \A i \in DOMAIN bch' : i > 1 => Parent[bch'[i].hash] = bch'[i - 1].hash
  <2> SUFFICES ASSUME NEW i \in DOMAIN bch', i > 1
               PROVE  Parent[bch'[i].hash] = bch'[i - 1].hash
    BY Zenon
  <2>1. i \in Int /\ i - 1 \in DOMAIN bch' /\ i + 1 \in DOMAIN bch /\ i + 1 > 1
        /\ (i - 1) + 1 = (i + 1) - 1
    BY <1>d
  <2>2. Parent[bch[i + 1].hash] = bch[(i + 1) - 1].hash
    BY <1>1, <2>1, Zenon DEF LinkInv
  <2> QED
    BY <1>3, <2>1, <2>2, Zenon
<1>9. bch' # <<>> => Parent[bch'[1].hash] = row'[bch'[1].height - 1]
  <2> SUFFICES ASSUME bch' # <<>> PROVE Parent[bch'[1].hash] = row'[bch'[1].height - 1]
    OBVIOUS
  <2>0. 1 \in DOMAIN bch' /\ 2 \in DOMAIN bch /\ 1 + 1 = 2
    BY <1>d, <1>a
  <2>1. 1 \in DOMAIN bch' /\ 2 \in DOMAIN bch /\ bch'[1] = bch[2]
    BY <1>3, <2>0, Zenon
  <2>2. Parent[bch[2].hash] = bch[1].hash
    <3>1. 2 > 1 /\ 2 - 1 = 1
      OBVIOUS
    <3> QED
      BY <1>1, <2>1, <3>1, Zenon DEF LinkInv
  <2>3. bch[2].height - 1 = n
    <3>1. bch[2].height = gb.height - Len(bch) + 2 - 1
      BY <1>1, <2>1, Zenon DEF RoundInv, Consecutive
    <3> QED BY <1>1, <1>2, <3>1
  <2> QED
    BY <1>4, <2>1, <2>2, <2>3, Zenon
<1>10. /\ gb'.height = gb.height /\ gb'.prev = gb.prev /\ startHeight' = startHeight
       /\ ~(gb.height = startHeight)
  <2>1. gb.height # startHeight
    BY <1>1, <1>5
  <2> QED BY <1>1, <2>1, Zenon
<1> QED
  BY <1>1, <1>5, <1>6, <1>7, <1>8, <1>9, <1>10, Zenon DEF LinkInv

\* getBlockChain hands connectBlocks blocks that link to each other and, after
\* the first of the round, to the row below.
LEMMA LinkStep ==
  ASSUME TypeOK, TypeOK', Placed, RoundInv, LinkInv, [Next]_vars
  PROVE  LinkInv'
<1>0. MaxHeight \in Nat
  BY ParameterAssumption, Zenon
<1>1. CASE Leaves
  BY <1>1, Zenon DEF LinkInv, Leaves
<1>2. CASE Stays
  BY <1>2, Zenon DEF LinkInv, Stays
<1>3. CASE ReadTips
  <2>1. PICK h \in Rows :
          /\ linked' = (EthType /\ tip.height = h + 1 /\ tip.parent = row[h])
          /\ pc' = (IF linked' THEN "plan" ELSE "forkCheck")
          /\ startHeight' = (IF linked' THEN h + 1 ELSE startHeight)
    BY <1>3, Zenon DEF ReadTips
  <2>2. remote' = BestTip /\ row' = row
    BY <1>3, Zenon DEF ReadTips
  <2>3. ASSUME linked'
        PROVE  /\ EthType /\ remote'.height = startHeight' /\ remote'.hash # NoHash
               /\ Parent[remote'.hash] = row'[startHeight' - 1]
    <3>1. EthType /\ tip.height = h + 1 /\ tip.parent = row[h]
          /\ startHeight' = h + 1
      BY Zenon, <2>1, <2>3
    <3>2. remote' = tip /\ h \in Int
      BY <1>0, <2>2, <3>1 DEF BestTip, Rows, Heights
    <3>3. startHeight' - 1 = h
      BY <3>1, <3>2
    <3> QED
      BY <2>2, <3>1, <3>2, <3>3, TipFacts, ChainAssumption
  <2> QED
    BY <2>1, <2>3, Zenon DEF LinkInv
<1>4. CASE ReadTipsEmpty
  BY <1>4, Zenon DEF ReadTipsEmpty, LinkInv
<1>5. CASE ForkCheckOk \/ ForkFound \/ ForkWalk \/ ForkWalkEnd
  <2>1. CASE ForkCheckOk
    BY <2>1, Zenon DEF ForkCheckOk, LinkInv
  <2>2. CASE ForkFound
    BY <2>2, Zenon DEF ForkFound, LinkInv
  <2>3. CASE ForkWalk
    BY <2>3, Zenon DEF ForkWalk, LinkInv
  <2>4. CASE ForkWalkEnd
    BY <2>4, Zenon DEF ForkWalkEnd, LinkInv
  <2> QED BY <1>5, <2>1, <2>2, <2>3, <2>4, Zenon
<1>6. CASE DisconnectBlock
  BY <1>6, RestartFacts, Zenon DEF DisconnectBlock, LinkInv
<1>7. CASE PlanParallel \/ QueueHash \/ WriteBlock
  BY <1>7 DEF PlanParallel, QueueHash, WriteBlock, LinkInv
<1>8. CASE PlanSequential
  BY <1>8, Zenon DEF PlanSequential, LinkInv
<1>9. CASE StartConnect
  BY <1>9 DEF StartConnect, LinkInv, NoRound, TypeOK, StartHash
<1>10. CASE GetBlock
  BY <1>10, LinkGetBlock, Zenon
<1>11. CASE ConnectBlock
  BY <1>11, LinkConnectBlock, Zenon
<1> QED
  BY <1>1, <1>2, <1>3, <1>4, <1>5, <1>6, <1>7, <1>8, <1>9, <1>10, <1>11, Zenon,
     LeavesOrStays DEF Next, SyncStep

\* Cutting the index keeps what is left linked; a block written on top is
\* linked to the row below by LinkInv, or recorded in seam.
LEMMA RoundLinkedStep ==
  ASSUME TypeOK, Placed, RoundInv, LinkInv, undo \subseteq Rows, RoundLinked,
         [Next]_vars
  PROVE  RoundLinked'
<1>0. MaxHeight \in Nat
  BY ParameterAssumption, Zenon
<1>1. CASE Keeps
  BY <1>1, Zenon DEF Keeps, RoundLinked
<1>2. ASSUME NEW l \in 0..MaxHeight, Cuts(l) PROVE RoundLinked'
  <2> SUFFICES ASSUME NEW h \in Heights \ {0}, row'[h] # NoHash, row'[h - 1] # NoHash,
                      h \notin seam'
               PROVE  Parent[row'[h]] = row'[h - 1]
    BY Zenon DEF RoundLinked
  <2>1. h \in Heights /\ h - 1 \in Heights /\ h \in Int /\ l \in Int
    BY <1>0 DEF Heights
  <2>2. h < l /\ row'[h] = row[h] /\ h \notin seam
    BY <1>2, <2>1 DEF Cuts
  <2>3. row'[h - 1] = row[h - 1]
    BY <1>2, <2>1, <2>2, Zenon DEF Cuts
  <2> QED
    BY <2>2, <2>3, Zenon DEF RoundLinked
<1>3. ASSUME NEW n \in Heights, NEW b \in Block, Grows(n, b) PROVE RoundLinked'
  <2> SUFFICES ASSUME NEW h \in Heights \ {0}, row'[h] # NoHash, row'[h - 1] # NoHash,
                      h \notin seam'
               PROVE  Parent[row'[h]] = row'[h - 1]
    BY Zenon DEF RoundLinked
  <2>1. h \in Heights /\ h - 1 \in Heights /\ h \in Int /\ n \in Int /\ h - 1 # h
    BY <1>0 DEF Heights
  <2>2. row'[n] = b /\ \A i \in Heights : i # n => row'[i] = row[i]
    BY <1>3, Zenon DEF Grows, TypeOK
  <2>3. \A i \in Heights : row[i] # NoHash => i < n
    BY <1>0, <1>3 DEF Grows, Below, IsBest, Rows, Heights
  <2>4. CASE h = n
    <3>1. Parent[b] = row[n - 1]
      BY <1>3, <2>4, Zenon DEF Grows, LinkInv
    <3> QED
      BY <2>1, <2>2, <2>4, <3>1, Zenon
  <2>5. CASE h # n
    <3>1. row'[h] = row[h] /\ h < n /\ h - 1 # n
      BY <2>1, <2>2, <2>3, <2>5
    <3>2. h \notin seam
      BY <1>3, <2>5 DEF Grows
    <3> QED
      BY <2>1, <2>2, <3>1, <3>2, Zenon DEF RoundLinked
  <2> QED
    BY <2>4, <2>5, Zenon
<1> QED
  BY <1>1, <1>2, <1>3, IndexStep

-----------------------------------------------------------------------------
\* The theorems.

\* Everything the proofs carry from state to state.
IInv ==
  /\ TypeOK /\ Placed /\ RoundInv /\ LinkInv /\ BulkInv
  /\ NoHoles /\ UndoFromTop /\ RoundLinked

\* The index starts empty and the worker idle.
LEMMA InitInv == Init => IInv
<1> SUFFICES ASSUME Init PROVE IInv
  OBVIOUS
<1>1. pc = "idle" /\ undo = {} /\ \A h \in Heights : row[h] = NoHash
  BY Zenon DEF Init
<1>2. RoundInv /\ LinkInv /\ BulkInv
  BY <1>1, Zenon DEF RoundInv, LinkInv, BulkInv
<1>3. NoHoles /\ UndoFromTop /\ RoundLinked
  BY <1>1, Zenon DEF NoHoles, UndoFromTop, RoundLinked
<1> QED
  BY <1>2, <1>3, InitFacts DEF IInv

\* Every step of ResyncIndex, of the backend and every crash keeps it.
LEMMA NextInv == IInv /\ [Next]_vars => IInv'
<1> SUFFICES ASSUME IInv, [Next]_vars PROVE IInv'
  OBVIOUS
<1>1. /\ TypeOK /\ Placed /\ RoundInv /\ LinkInv /\ BulkInv
      /\ NoHoles /\ UndoFromTop /\ RoundLinked
  BY DEF IInv
<1>2. undo \subseteq Rows
  BY <1>1 DEF UndoFromTop
<1>3. TypeOK' /\ Placed'
  BY <1>1, TypeStep, Zenon
<1>4. RoundInv' /\ LinkInv' /\ BulkInv'
  BY <1>1, <1>2, <1>3, RoundStep, LinkStep, BulkStep, Zenon
<1>5. NoHoles' /\ UndoFromTop' /\ RoundLinked'
  BY <1>1, <1>2, <1>3, NoHolesStep, UndoStep, RoundLinkedStep
<1> QED
  BY <1>3, <1>4, <1>5, Zenon DEF IInv

\* The conjunction is an invariant of the specification.
LEMMA Invariance == Spec => []IInv
  BY InitInv, NextInv, PTL DEF Spec

\* ResyncIndex never leaves the types of its state, whatever the backend does.
THEOREM TypeCorrect == Spec => []TypeOK
<1>1. IInv => TypeOK
  BY DEF IInv
<1> QED
  BY <1>1, Invariance, PTL

\* No sequence of rounds, forks, aborts and crashes leaves a hole in the index.
THEOREM NoHolesCorrect == Spec => []NoHoles
<1>1. IInv => NoHoles
  BY DEF IInv
<1> QED
  BY <1>1, Invariance, PTL

\* Undo data is kept for a top segment of what was connected since the last
\* bulk round, so that handleFork can disconnect from the top.
THEOREM UndoFromTopCorrect == Spec => []UndoFromTop
<1>1. IInv => UndoFromTop
  BY DEF IInv
<1> QED
  BY <1>1, Invariance, PTL

\* The blocks of one sequential round are linked by their parents.
THEOREM RoundLinkedCorrect == Spec => []RoundLinked
<1>1. IInv => RoundLinked
  BY DEF IInv
<1> QED
  BY <1>1, Invariance, PTL

\* handleFork disconnects nothing the backend held all along.
THEOREM OnlyForkedCorrect == Spec => OnlyForkedDisconnected
<1> DEFINE Allowed == \A h \in Heights :
                        (row[h] # NoHash /\ row'[h] = NoHash)
                          => row[h] \notin held \/ pc = "refused"
<1>1. IInv /\ [Next]_vars => [Allowed]_vars
  <2> SUFFICES ASSUME IInv, [Next]_vars,
                      NEW h \in Heights, row[h] # NoHash, row'[h] = NoHash
               PROVE  row[h] \notin held \/ pc = "refused"
    BY Zenon
  <2>0. TypeOK /\ Placed /\ RoundInv /\ MaxHeight \in Nat /\ NoHash \notin Block
    BY ParameterAssumption, ChainAssumption, Zenon DEF IInv
  <2>1. CASE Recreate
    BY <2>1, Zenon DEF Recreate
  <2>2. CASE DisconnectBlock
    <3>1. /\ pc \in {"disconnect", "disconnecting"} /\ row' = [row EXCEPT ![best] = NoHash]
          /\ row \in [Heights -> Hash]
      BY <2>0, <2>2, Zenon DEF DisconnectBlock, TypeOK
    <3>2. h = best
      BY <3>1, Zenon
    <3>3. walk < h /\ h <= best
      <4>1. walk < best
        BY <2>0, <3>1, Zenon DEF RoundInv
      <4>2. best \in Int
        BY <2>0, <3>2 DEF Heights
      <4> QED BY <3>2, <4>1, <4>2
    <3> QED
      BY <2>0, <3>1, <3>3, Zenon DEF RoundInv
  <2>3. CASE DisconnectRange
    <3>1. /\ pc = "disconnect"
          /\ row' = row \/ row' = [k \in Heights |-> IF k \in (walk + 1)..best THEN NoHash ELSE row[k]]
      BY <2>3, Zenon DEF DisconnectRange
    <3>2. h \in (walk + 1)..best
      BY <3>1, Zenon
    <3>3. walk \in Int /\ best \in Int
      BY <2>0 DEF TypeOK, Heights
    <3>4. walk < h /\ h <= best
      BY <3>2, <3>3
    <3> QED
      BY <2>0, <3>1, <3>4, Zenon DEF RoundInv
  <2>4. CASE ConnectBlock
    <3>1. Head(bch).hash \in Block
      BY <2>0, <2>4, QueueFacts, Zenon DEF ConnectBlock, TypeOK
    <3>2. row' = [row EXCEPT ![Head(bch).height] = Head(bch).hash]
      BY <2>4, Zenon DEF ConnectBlock
    <3>3. row \in [Heights -> Hash]
      BY <2>0, Zenon DEF TypeOK
    <3> QED
      BY <2>0, <3>1, <3>2, <3>3, Zenon
  <2>5. CASE WriteBlock
    <3>1. Head(par.q).hash \in Block
      BY <2>0, <2>5, QueueFacts, Zenon DEF WriteBlock, TypeOK, Coordinator
    <3> QED
      BY <2>0, <2>5, <3>1, Zenon DEF WriteBlock, TypeOK
  <2> QED
    BY <2>0, <2>1, <2>2, <2>3, <2>4, <2>5, KeepsIndex, Zenon DEF Keeps
<1>2. Spec => [][Allowed]_vars
  BY <1>1, Invariance, PTL DEF Spec
<1> QED
  BY <1>2, Zenon DEF OnlyForkedDisconnected
=============================================================================
