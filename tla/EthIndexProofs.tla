--------------------------- MODULE EthIndexProofs ---------------------------
(***************************************************************************)
(* A theorem about the index of Ethereum-type coins (EthIndex): internal   *)
(* data is stored or queued for healing, through failed traces, crashes,   *)
(* failed writes, disconnects and heals of blocks that were replaced.      *)
(***************************************************************************)
EXTENDS EthIndex, TLAPS

Block == DOMAIN Body
HasData(b) == {x \in Range(Body[b]) : HasInternal(x)}

\* The blocks of the column height hang together; none is there twice.
Linked ==
  /\ chain \in Seq(Block)
  /\ \A i \in 1..Len(chain) : Parent[chain[i]] = IF i = 1 THEN NoBlock ELSE chain[i - 1]
  /\ \A i, j \in 1..Len(chain) : chain[i] = chain[j] => i = j

\* What the holder of connectBlockMux relies on until it writes.
Working ==
  /\ DOMAIN job = {"op", "height", "block", "txs", "todo"}
  /\ job.op \in {"none", "connect", "disconnect", "heal"}
  /\ job.op = "connect" =>
       /\ job.height = Len(chain) + 1 /\ job.block \in Block /\ Parent[job.block] = Tip
       /\ job.txs \subseteq HasData(job.block)
  /\ job.op = "disconnect" => job.height \in 1..Len(chain)
  /\ job.op = "heal" =>
       /\ job.height \in 1..Len(chain) /\ job.block = chain[job.height]
       /\ job.txs \subseteq HasData(job.block) /\ HasData(job.block) \subseteq internal \cup job.txs

EthInv == Linked /\ Working /\ NoInternalDataLost

-----------------------------------------------------------------------------
\* A transaction of the chain is in one of its blocks.
LEMMA OncePerChain ==
  ASSUME Linked, NEW h \in 1..Len(chain), NEW k \in 1..Len(chain), h # k
  PROVE  Range(Body[chain[h]]) \cap Range(Body[chain[k]]) = {}
<1> DEFINE B == {chain[i] : i \in 1..Len(chain)}
<1>1. Len(chain) \in Nat /\ \A i \in 1..Len(chain) : chain[i] \in Block
  BY DEF Linked
<1>2. B \in SUBSET Block
  BY <1>1, Zenon
<1>3. ASSUME NEW b \in B PROVE Parent[b] \in B \cup {NoBlock}
  <2>1. PICK i \in 1..Len(chain) : b = chain[i]
    BY Zenon
  <2>2. i = 1 \/ i - 1 \in 1..Len(chain)
    BY <1>1
  <2>3. Parent[b] = IF i = 1 THEN NoBlock ELSE chain[i - 1]
    BY <2>1, Zenon DEF Linked
  <2> QED BY <2>2, <2>3, Zenon
<1>4. ASSUME NEW b \in B, NEW c \in B, Parent[b] = Parent[c] PROVE b = c
  <2>1. PICK i \in 1..Len(chain) : b = chain[i]
    BY Zenon
  <2>2. PICK j \in 1..Len(chain) : c = chain[j]
    BY Zenon
  <2>3. /\ Parent[chain[i]] = IF i = 1 THEN NoBlock ELSE chain[i - 1]
        /\ Parent[chain[j]] = IF j = 1 THEN NoBlock ELSE chain[j - 1]
    BY Zenon DEF Linked
  <2>4. CASE i = 1 /\ j = 1
    BY <2>1, <2>2, <2>4, Zenon
  <2>5. CASE i = 1 /\ j # 1
    <3>1. j - 1 \in 1..Len(chain)
      BY <2>5, <1>1
    <3>2. chain[j - 1] \in Block
      BY <3>1, <1>1, Zenon
    <3> QED BY <3>2, <2>1, <2>2, <2>3, <2>5, <1>4, BlocksAssumption, Zenon DEF Block
  <2>6. CASE i # 1 /\ j = 1
    <3>1. i - 1 \in 1..Len(chain)
      BY <2>6, <1>1
    <3>2. chain[i - 1] \in Block
      BY <3>1, <1>1, Zenon
    <3> QED BY <3>2, <2>1, <2>2, <2>3, <2>6, <1>4, BlocksAssumption, Zenon DEF Block
  <2>7. CASE i # 1 /\ j # 1
    <3>1. i - 1 \in 1..Len(chain) /\ j - 1 \in 1..Len(chain) /\ i \in Nat /\ j \in Nat
      BY <2>7, <1>1
    <3>2. chain[i - 1] = chain[j - 1]
      BY <2>1, <2>2, <2>3, <2>7, <1>4, Zenon
    <3>3. i - 1 = j - 1
      BY <3>1, <3>2, Zenon DEF Linked
    <3>4. i = j
      BY <3>1, <3>3
    <3> QED BY <3>4, <2>1, <2>2, Zenon
  <2> QED BY <2>4, <2>5, <2>6, <2>7, Zenon
<1>5. Branch(B)
  BY <1>3, <1>4, Zenon DEF Branch
<1>6. chain[h] \in B /\ chain[k] \in B
  BY Zenon
<1>7. chain[h] # chain[k]
  BY Zenon DEF Linked
<1> HIDE DEF B
<1> QED BY <1>2, <1>5, <1>6, <1>7, BlocksAssumption, Zenon DEF Block

\* What GetBlock traces is internal data of the block, and all of it without a failure.
LEMMA TracedFacts ==
  ASSUME NEW b \in Block
  PROVE  /\ \A n \in 0..Len(Body[b]) : Traced(b, n) \subseteq HasData(b)
         /\ Traced(b, Len(Body[b])) = HasData(b)
<1>1. Body[b] \in Seq(DOMAIN Tx)
  BY BlocksAssumption, Zenon DEF Block
<1>2. SubSeq(Body[b], 1, Len(Body[b])) = Body[b]
  BY <1>1
<1>3. ASSUME NEW n \in 0..Len(Body[b]) PROVE Range(SubSeq(Body[b], 1, n)) \subseteq Range(Body[b])
  <2> DEFINE s == SubSeq(Body[b], 1, n)
  <2>1. DOMAIN s = 1..n /\ DOMAIN Body[b] = 1..Len(Body[b]) /\ \A i \in 1..n : s[i] = Body[b][i] /\ i \in 1..Len(Body[b])
    BY <1>1
  <2> HIDE DEF s
  <2> QED BY <2>1, Zenon DEF Range, s
<1> QED BY <1>2, <1>3, Zenon DEF Traced, HasData

\* The block at the top, before and after one is connected.
LEMMA TipFacts ==
  ASSUME Linked
  PROVE  /\ Len(chain) = 0 => Tip = NoBlock
         /\ Len(chain) # 0 => Tip = chain[Len(chain)]
BY DEF Tip, Linked

\* Steps that write none of the columns keep the invariant if the job stays sound.
LEMMA NothingWritten ==
  ASSUME EthInv, UNCHANGED <<chain, internal, queue>>, Working'
  PROVE  EthInv'
BY Zenon DEF EthInv, Linked, NoInternalDataLost, HasInternal

\* The same when the job is given up or not touched.
LEMMA JobLeft ==
  ASSUME EthInv, UNCHANGED <<chain, internal, queue>>, job' = Free \/ job' = job
  PROVE  EthInv'
<1>1. CASE job' = Free
  <2>1. Working'
    BY <1>1 DEF Working, Free
  <2> QED BY <2>1, NothingWritten, Zenon
<1>2. CASE job' = job
  <2>1. Working'
    BY <1>2, Zenon DEF EthInv, Working, Tip, HasData, HasInternal
  <2> QED BY <2>1, NothingWritten, Zenon
<1> QED BY <1>1, <1>2, Zenon

-----------------------------------------------------------------------------
\* Init: an empty index.
LEMMA InitEth == Init => EthInv
<1> SUFFICES ASSUME Init PROVE EthInv
  OBVIOUS
<1>1. chain = <<>> /\ internal = {} /\ queue = <<>> /\ job = Free
  BY DEF Init, Empty
<1>2. Len(chain) = 0 /\ 1..Len(chain) = {} /\ DOMAIN chain = {} /\ DOMAIN queue = {} /\ chain \in Seq(Block)
  BY <1>1
<1>3. Linked
  BY <1>2, Zenon DEF Linked
<1>4. Working
  BY <1>1 DEF Working, Free
<1>5. NoInternalDataLost
  BY <1>1, <1>2, Zenon DEF NoInternalDataLost
<1> QED BY <1>3, <1>4, <1>5 DEF EthInv

\* ConnectBlock takes the mutex for a block on top of the best one.
LEMMA ConnectEth ==
  ASSUME EthInv, NEW b \in DOMAIN Body, NEW n \in 0..Len(Body[b]), ConnectBlock(b, n)
  PROVE  EthInv'
<1>1. /\ job'.op = "connect" /\ job'.height = Len(chain) + 1 /\ job'.block = b /\ job'.txs = Traced(b, n)
      /\ DOMAIN job' = {"op", "height", "block", "txs", "todo"}
  BY DEF ConnectBlock, Begin
<1>2. UNCHANGED <<chain, internal, queue>> /\ Parent[b] = Tip
  BY Zenon DEF ConnectBlock, columns
<1>3. Traced(b, n) \subseteq HasData(b) /\ b \in Block
  BY TracedFacts, Zenon DEF Block
<1>4. Tip' = Tip /\ HasData(b)' = HasData(b)
  BY <1>2, Zenon DEF Tip, HasData, HasInternal
<1>5. Working'
  BY <1>1, <1>2, <1>3, <1>4 DEF Working, Block
<1> QED BY <1>2, <1>5, NothingWritten, Zenon

\* The movements of a transaction are no write.
LEMMA ProcessEth == ASSUME EthInv, ProcessTx PROVE EthInv'
<1>1. job' = [job EXCEPT !.todo = Tail(job.todo)] /\ UNCHANGED <<chain, internal, queue>>
  BY Zenon DEF ProcessTx, columns
<1>2. /\ DOMAIN job' = DOMAIN job
      /\ job'.op = job.op /\ job'.height = job.height /\ job'.block = job.block /\ job'.txs = job.txs
  BY <1>1, Zenon DEF EthInv, Working
<1>3. Working'
  BY <1>1, <1>2, Zenon DEF EthInv, Working, Tip, HasData, HasInternal
<1> QED BY <1>1, <1>3, NothingWritten, Zenon

\* DisconnectBlockRangeEthereumType takes the mutex for blocks of the chain.
LEMMA DisconnectEth ==
  ASSUME EthInv, NEW lower \in DOMAIN chain, DisconnectBlockRangeEthereumType(lower)
  PROVE  EthInv'
<1>1. /\ job'.op = "disconnect" /\ job'.height = lower
      /\ DOMAIN job' = {"op", "height", "block", "txs", "todo"}
  BY DEF DisconnectBlockRangeEthereumType, Begin
<1>2. UNCHANGED <<chain, internal, queue>>
  BY Zenon DEF DisconnectBlockRangeEthereumType, columns
<1>3. lower \in 1..Len(chain)
  BY DEF EthInv, Linked
<1>4. Working'
  BY <1>1, <1>2, <1>3 DEF Working
<1> QED BY <1>2, <1>4, NothingWritten, Zenon

\* ReconnectInternalData...: the entry is healed if its block is still on the chain.
LEMMA HealEth ==
  ASSUME EthInv, NEW e, ReconnectInternalDataToBlockEthereumType(e)
  PROVE  EthInv'
<1>1. UNCHANGED <<chain, internal, queue>>
  BY Zenon DEF ReconnectInternalDataToBlockEthereumType, columns
<1>2. CASE ~(e.height \in DOMAIN chain /\ chain[e.height] = e.block)
  <2>1. job' = job
    BY <1>2, Zenon DEF ReconnectInternalDataToBlockEthereumType
  <2> QED BY <1>1, <2>1, JobLeft, Zenon
<1>3. CASE e.height \in DOMAIN chain /\ chain[e.height] = e.block
  <2> DEFINE missing == Traced(e.block, Len(Body[e.block])) \ internal
  <2>1. /\ job'.op = "heal" /\ job'.height = e.height /\ job'.block = e.block /\ job'.txs = missing
        /\ DOMAIN job' = {"op", "height", "block", "txs", "todo"}
    BY <1>3 DEF ReconnectInternalDataToBlockEthereumType, Begin
  <2>2. e.height \in 1..Len(chain) /\ e.block \in Block
    BY <1>3 DEF EthInv, Linked
  <2>3. Traced(e.block, Len(Body[e.block])) = HasData(e.block)
    BY <2>2, TracedFacts, Zenon
  <2>4. missing \subseteq HasData(e.block) /\ HasData(e.block) \subseteq internal \cup missing
    BY <2>3, Zenon
  <2> HIDE DEF missing
  <2>5. HasData(e.block)' = HasData(e.block)
    BY Zenon DEF HasData, HasInternal
  <2>6. Working'
    BY <1>1, <1>3, <2>1, <2>2, <2>4, <2>5 DEF Working
  <2> QED BY <1>1, <2>6, NothingWritten, Zenon
<1> QED BY <1>2, <1>3, Zenon

-----------------------------------------------------------------------------
\* The batch of ConnectBlock: the block enters the chain and, if its trace failed, the
\* queue, with what was traced of it.
LEMMA ConnectWriteEth ==
  ASSUME EthInv, NEW failed \in BOOLEAN, NEW due \in BOOLEAN, ConnectBlockWrite(failed, due)
  PROVE  EthInv'
<1> DEFINE n == Len(chain)
           new == [block |-> job.block, retries |-> 0]
<1>1. /\ job.op = "connect" /\ job' = Free
      /\ chain' = Append(chain, job.block) /\ internal' = internal \cup job.txs
      /\ queue' = IF failed THEN Queued(queue, job.height, new) ELSE queue
      /\ ~failed => job.txs = Traced(job.block, Len(Body[job.block]))
  BY Zenon DEF ConnectBlockWrite, End
<1>2. /\ job.height = n + 1 /\ job.block \in Block /\ Parent[job.block] = Tip
      /\ job.txs \subseteq HasData(job.block)
  BY <1>1, Zenon DEF EthInv, Working
<1>3. /\ n \in Nat /\ chain \in Seq(Block) /\ DOMAIN chain = 1..n /\ \A i \in 1..n : chain[i] \in Block
  BY DEF EthInv, Linked
<1>4. /\ chain' \in Seq(Block) /\ Len(chain') = n + 1 /\ DOMAIN chain' = 1..(n + 1)
      /\ chain'[n + 1] = job.block /\ \A i \in 1..n : chain'[i] = chain[i]
  BY <1>1, <1>2, <1>3
<1>5. DOMAIN queue' = (IF failed THEN {n + 1} ELSE {}) \cup DOMAIN queue
  BY <1>1, <1>2, Zenon DEF Queued, new
<1>6. failed => queue'[n + 1].block = job.block
  BY <1>1, <1>2 DEF Queued, new
<1>7. \A h \in DOMAIN queue : h \in 1..n /\ queue[h].block = chain[h]
  BY <1>3, Zenon DEF EthInv, NoInternalDataLost
<1>8. \A h \in DOMAIN queue : queue'[h] = queue[h]
  <2>1. \A h \in DOMAIN queue : h # n + 1
    BY <1>3, <1>7
  <2> QED BY <1>1, <1>2, <2>1, Zenon DEF Queued, new
<1> HIDE DEF new
<1>9. Linked'
  <2>1. ASSUME NEW i \in 1..(n + 1) PROVE Parent[chain'[i]] = IF i = 1 THEN NoBlock ELSE chain'[i - 1]
    <3>1. CASE i = n + 1
      <4>1. CASE n = 0
        <5>1. Tip = NoBlock /\ i = 1
          BY <4>1, <3>1, TipFacts DEF EthInv
        <5> QED BY <5>1, <3>1, <1>2, <1>4, Zenon
      <4>2. CASE n # 0
        <5>1. Tip = chain[n] /\ i # 1 /\ i - 1 = n /\ n \in 1..n
          BY <4>2, <3>1, <1>3, TipFacts DEF EthInv
        <5> QED BY <5>1, <3>1, <1>2, <1>4, Zenon
      <4> QED BY <4>1, <4>2
    <3>2. CASE i \in 1..n
      <4>1. i = 1 \/ i - 1 \in 1..n
        BY <3>2, <1>3
      <4>2. Parent[chain[i]] = IF i = 1 THEN NoBlock ELSE chain[i - 1]
        BY <3>2, Zenon DEF EthInv, Linked
      <4> QED BY <3>2, <4>1, <4>2, <1>4, Zenon
    <3> QED BY <3>1, <3>2, <1>3
  <2>2. ASSUME NEW j \in 1..n PROVE chain[j] # job.block
    <3> SUFFICES ASSUME chain[j] = job.block PROVE FALSE
      OBVIOUS
    <3>1. Parent[job.block] = IF j = 1 THEN NoBlock ELSE chain[j - 1]
      BY Zenon DEF EthInv, Linked
    <3>2. Tip = chain[n] /\ n \in 1..n
      BY <1>3, TipFacts DEF EthInv
    <3>3. CASE j = 1
      <4>1. chain[n] = NoBlock
        BY <3>1, <3>2, <3>3, <1>2, Zenon
      <4> QED BY <4>1, <3>2, <1>3, BlocksAssumption, Zenon DEF Block
    <3>4. CASE j # 1
      <4>1. j - 1 \in 1..n /\ j - 1 # n
        BY <3>4, <1>3
      <4>2. chain[j - 1] = chain[n]
        BY <3>1, <3>2, <3>4, <1>2, Zenon
      <4> QED BY <4>1, <4>2, <3>2, Zenon DEF EthInv, Linked
    <3> QED BY <3>3, <3>4
  <2>3. ASSUME NEW i \in 1..(n + 1), NEW j \in 1..(n + 1), chain'[i] = chain'[j] PROVE i = j
    <3>1. (i = n + 1 \/ i \in 1..n) /\ (j = n + 1 \/ j \in 1..n)
      BY <1>3
    <3>2. CASE i \in 1..n /\ j \in 1..n
      BY <3>2, <2>3, <1>4, Zenon DEF EthInv, Linked
    <3> QED BY <3>1, <3>2, <2>2, <2>3, <1>4, Zenon
  <2> HIDE DEF n
  <2> QED BY <2>1, <2>3, <1>4, Zenon DEF Linked
<1>10. Working'
  BY <1>1 DEF Working, Free
<1>11. ASSUME NEW h \in 1..(n + 1), NEW x \in Range(Body[chain'[h]]), HasInternal(x)
       PROVE  x \in internal' \/ h \in DOMAIN queue'
  <2>1. CASE h = n + 1 /\ failed
    BY <2>1, <1>5, Zenon
  <2>2. CASE h = n + 1 /\ ~failed
    <3>1. x \in HasData(job.block)
      BY <2>2, <1>4, <1>11, Zenon DEF HasData
    <3>2. job.txs = HasData(job.block)
      BY <2>2, <1>1, <1>2, TracedFacts, Zenon
    <3> QED BY <3>1, <3>2, <1>1, Zenon
  <2>3. CASE h \in 1..n
    <3>1. x \in internal \/ h \in DOMAIN queue
      BY <2>3, <1>3, <1>4, <1>11, Zenon DEF EthInv, NoInternalDataLost
    <3> QED BY <3>1, <1>1, <1>5, Zenon
  <2> QED BY <2>1, <2>2, <2>3, <1>3
<1>12. ASSUME NEW h \in DOMAIN queue' PROVE h \in 1..(n + 1) /\ queue'[h].block = chain'[h]
  <2>1. CASE h \in DOMAIN queue
    <3>1. h \in 1..n /\ queue'[h].block = chain[h]
      BY <2>1, <1>7, <1>8, Zenon
    <3>2. h \in 1..(n + 1)
      BY <3>1, <1>3
    <3> QED BY <3>1, <3>2, <1>4, Zenon
  <2>2. CASE h = n + 1 /\ failed
    <3>1. n + 1 \in 1..(n + 1)
      BY <1>3
    <3> QED BY <2>2, <3>1, <1>4, <1>6, Zenon
  <2> QED BY <2>1, <2>2, <1>5, Zenon
<1>13. ASSUME NEW x \in internal' PROVE \E h \in 1..(n + 1) : x \in Range(Body[chain'[h]])
  <2>1. CASE x \in internal
    <3>1. PICK h \in 1..n : x \in Range(Body[chain[h]])
      BY <2>1, <1>3, Zenon DEF EthInv, NoInternalDataLost
    <3>2. h \in 1..(n + 1)
      BY <1>3
    <3> QED BY <3>1, <3>2, <1>4, Zenon
  <2>2. CASE x \in job.txs
    <3>1. n + 1 \in 1..(n + 1) /\ x \in Range(Body[job.block])
      BY <2>2, <1>2, <1>3 DEF HasData
    <3> QED BY <3>1, <1>4, Zenon
  <2> QED BY <2>1, <2>2, <1>1, Zenon
<1>14. NoInternalDataLost'
  <2> HIDE DEF n
  <2> QED BY <1>4, <1>11, <1>12, <1>13, Zenon DEF NoInternalDataLost, HasInternal
<1> QED BY <1>9, <1>10, <1>14 DEF EthInv

\* The batch of a disconnect: the transactions of the range leave the column, and no
\* other block of the chain has one of them.
LEMMA DisconnectWriteEth == ASSUME EthInv, DisconnectBlockRangeWrite PROVE EthInv'
<1> DEFINE n == Len(chain)
           heights == job.height..n
           gone == UNION {Range(Body[chain[h]]) : h \in heights}
<1>1. /\ job.op = "disconnect" /\ job' = Free
      /\ chain' = SubSeq(chain, 1, job.height - 1)
      /\ internal' = internal \ gone /\ queue' = Without(queue, heights)
  BY Zenon DEF DisconnectBlockRangeWrite, End
<1>2. /\ n \in Nat /\ chain \in Seq(Block) /\ DOMAIN chain = 1..n /\ job.height \in 1..n
      /\ \A i \in 1..n : chain[i] \in Block
  BY <1>1 DEF EthInv, Linked, Working
<1> DEFINE m == job.height - 1
<1>3. /\ chain' \in Seq(Block) /\ Len(chain') = m /\ DOMAIN chain' = 1..m /\ m \in 0..n
      /\ \A i \in 1..m : i \in 1..n /\ i \notin heights /\ chain'[i] = chain[i]
      /\ \A i \in 1..n : i \in 1..m \/ i \in heights
  BY <1>1, <1>2
<1>4. DOMAIN queue' = DOMAIN queue \ heights /\ \A h \in DOMAIN queue' : queue'[h] = queue[h]
  BY <1>1, Zenon DEF Without, Restrict
<1> HIDE DEF m, heights
<1>5. Linked'
  <2>1. ASSUME NEW i \in 1..m PROVE Parent[chain'[i]] = IF i = 1 THEN NoBlock ELSE chain'[i - 1]
    <3>1. Parent[chain[i]] = IF i = 1 THEN NoBlock ELSE chain[i - 1]
      BY <1>3, Zenon DEF EthInv, Linked
    <3>2. i = 1 \/ i - 1 \in 1..m
      BY <1>3
    <3> QED BY <3>1, <3>2, <1>3, Zenon
  <2>2. ASSUME NEW i \in 1..m, NEW j \in 1..m, chain'[i] = chain'[j] PROVE i = j
    BY <2>2, <1>3, Zenon DEF EthInv, Linked
  <2> QED BY <2>1, <2>2, <1>3, Zenon DEF Linked
<1>6. Working'
  BY <1>1 DEF Working, Free
<1>7. ASSUME NEW h \in 1..m, NEW x \in Range(Body[chain'[h]]) PROVE x \notin gone
  <2> SUFFICES ASSUME NEW k \in heights, x \in Range(Body[chain[k]]) PROVE FALSE
    BY Zenon
  <2>1. h \in 1..n /\ k \in 1..n /\ h # k
    BY <1>2, <1>3 DEF heights
  <2>2. Range(Body[chain[h]]) \cap Range(Body[chain[k]]) = {}
    BY <2>1, OncePerChain, Zenon DEF EthInv
  <2> QED BY <2>2, <1>3, <1>7, Zenon
<1>8. ASSUME NEW h \in 1..m, NEW x \in Range(Body[chain'[h]]), HasInternal(x)
      PROVE  x \in internal' \/ h \in DOMAIN queue'
  <2>1. x \in internal \/ h \in DOMAIN queue
    BY <1>2, <1>3, <1>8, Zenon DEF EthInv, NoInternalDataLost
  <2>2. x \notin gone
    BY <1>7, Zenon
  <2> HIDE DEF gone
  <2> QED BY <2>1, <2>2, <1>1, <1>3, <1>4, Zenon
<1>9. ASSUME NEW h \in DOMAIN queue' PROVE h \in 1..m /\ queue'[h].block = chain'[h]
  <2>1. h \in DOMAIN queue /\ h \notin heights /\ queue'[h] = queue[h]
    BY <1>4, Zenon
  <2>2. h \in 1..n /\ queue[h].block = chain[h]
    BY <2>1, <1>2, Zenon DEF EthInv, NoInternalDataLost
  <2> QED BY <2>1, <2>2, <1>3, Zenon
<1>10. ASSUME NEW x \in internal' PROVE \E h \in 1..m : x \in Range(Body[chain'[h]])
  <2>1. PICK h \in 1..n : x \in Range(Body[chain[h]])
    BY <1>1, <1>2, Zenon DEF EthInv, NoInternalDataLost
  <2>2. h \notin heights
    BY <2>1, <1>1, Zenon
  <2> QED BY <2>1, <2>2, <1>3, Zenon
<1>11. NoInternalDataLost'
  <2> HIDE DEF gone
  <2> QED BY <1>3, <1>8, <1>9, <1>10, Zenon DEF NoInternalDataLost, HasInternal
<1> QED BY <1>5, <1>6, <1>11 DEF EthInv

\* The batch of a heal: the block leaves the queue with all of its internal data stored.
LEMMA HealWriteEth == ASSUME EthInv, ReconnectInternalDataWrite PROVE EthInv'
<1> DEFINE n == Len(chain)
<1>1. /\ job.op = "heal" /\ job' = Free /\ chain' = chain
      /\ internal' = internal \cup job.txs /\ queue' = Without(queue, {job.height})
  BY Zenon DEF ReconnectInternalDataWrite, End
<1>2. /\ job.height \in 1..n /\ job.block = chain[job.height] /\ DOMAIN chain = 1..n
      /\ job.txs \subseteq HasData(job.block) /\ HasData(job.block) \subseteq internal \cup job.txs
  BY <1>1 DEF EthInv, Working, Linked
<1>3. DOMAIN queue' = DOMAIN queue \ {job.height} /\ \A h \in DOMAIN queue' : queue'[h] = queue[h]
  BY <1>1, Zenon DEF Without, Restrict
<1>4. Linked'
  BY <1>1, Zenon DEF EthInv, Linked
<1>5. Working'
  BY <1>1 DEF Working, Free
<1>6. ASSUME NEW h \in 1..n, NEW x \in Range(Body[chain[h]]), HasInternal(x)
      PROVE  x \in internal' \/ h \in DOMAIN queue'
  <2>1. CASE h = job.height
    BY <2>1, <1>1, <1>2, <1>6, Zenon DEF HasData
  <2>2. CASE h # job.height
    BY <2>2, <1>1, <1>2, <1>3, <1>6, Zenon DEF EthInv, NoInternalDataLost
  <2> QED BY <2>1, <2>2
<1>7. ASSUME NEW h \in DOMAIN queue' PROVE h \in 1..n /\ queue'[h].block = chain[h]
  BY <1>2, <1>3, Zenon DEF EthInv, NoInternalDataLost
<1>8. ASSUME NEW x \in internal' PROVE \E h \in 1..n : x \in Range(Body[chain[h]])
  <2>1. CASE x \in internal
    BY <2>1, <1>2, Zenon DEF EthInv, NoInternalDataLost
  <2>2. CASE x \in job.txs
    BY <2>2, <1>2, Zenon DEF HasData
  <2> QED BY <2>1, <2>2, <1>1, Zenon
<1>9. NoInternalDataLost'
  <2> HIDE DEF n
  <2> QED BY <1>1, <1>2, <1>6, <1>7, <1>8, Zenon DEF NoInternalDataLost, HasInternal
<1> QED BY <1>4, <1>5, <1>9 DEF EthInv

\* UpdateBlockInternalDataErrorEthereumType: an old entry of the pass charges a failure to
\* the block it was made for, or to none.
LEMMA ErrorEth ==
  ASSUME EthInv, NEW e, UpdateBlockInternalDataErrorEthereumType(e)
  PROVE  EthInv'
<1>1. chain' = chain /\ internal' = internal /\ job' = job
  BY Zenon DEF UpdateBlockInternalDataErrorEthereumType
<1>2. DOMAIN queue' = DOMAIN queue /\ \A h \in DOMAIN queue : queue'[h].block = queue[h].block
  <2>1. CASE e.height \in DOMAIN queue /\ queue[e.height].block = e.block
    <3>1. queue' = [queue EXCEPT ![e.height].retries = Min({e.retries + 1, MaxRetries})]
      BY <2>1, Zenon DEF UpdateBlockInternalDataErrorEthereumType
    <3> QED BY <2>1, <3>1
  <2>2. CASE ~(e.height \in DOMAIN queue /\ queue[e.height].block = e.block)
    BY <2>2, Zenon DEF UpdateBlockInternalDataErrorEthereumType
  <2> QED BY <2>1, <2>2, Zenon
<1>3. Linked' /\ Working'
  BY <1>1, Zenon DEF EthInv, Linked, Working, Tip, HasData, HasInternal
<1>4. NoInternalDataLost'
  BY <1>1, <1>2, Zenon DEF EthInv, NoInternalDataLost, HasInternal
<1> QED BY <1>3, <1>4 DEF EthInv

\* No internal data is lost for good: whatever traces fail, whichever writes fail, wherever
\* the process dies and whatever is disconnected while a healing pass holds old entries, a
\* transaction of the chain has its internal data stored or its block in the queue.
THEOREM NoInternalDataLostCorrect == Spec => []NoInternalDataLost
<1>1. EthInv /\ [Next]_vars => EthInv'
  <2> SUFFICES ASSUME EthInv, [Next]_vars PROVE EthInv'
    OBVIOUS
  <2>1. ASSUME NEW b \in DOMAIN Body, NEW n \in 0..Len(Body[b]), ConnectBlock(b, n) PROVE EthInv'
    BY <2>1, ConnectEth, Zenon
  <2>2. ASSUME NEW failed \in BOOLEAN, NEW due \in BOOLEAN, ConnectBlockWrite(failed, due) PROVE EthInv'
    BY <2>2, ConnectWriteEth, Zenon
  <2>3. ASSUME NEW lower \in DOMAIN chain, DisconnectBlockRangeEthereumType(lower) PROVE EthInv'
    BY <2>3, DisconnectEth, Zenon
  <2>4. ASSUME NEW e \in Range(heal), ReconnectInternalDataToBlockEthereumType(e) PROVE EthInv'
    BY <2>4, HealEth, Zenon
  <2>5. ASSUME NEW e \in Range(heal), UpdateBlockInternalDataErrorEthereumType(e) PROVE EthInv'
    BY <2>5, ErrorEth, Zenon
  <2>6. CASE HealStart \/ HealSkipped \/ JobFails \/ Close \/ Crash
    <3>1. UNCHANGED <<chain, internal, queue>> /\ (job' = Free \/ job' = job)
      BY <2>6, Zenon DEF HealStart, HealSkipped, JobFails, Close, Crash, columns
    <3> QED BY <3>1, JobLeft, Zenon
  <2>7. CASE UNCHANGED vars
    <3>1. UNCHANGED <<chain, internal, queue>> /\ job' = job
      BY <2>7, Zenon DEF vars
    <3> QED BY <3>1, JobLeft, Zenon
  <2> QED BY <2>1, <2>2, <2>3, <2>4, <2>5, <2>6, <2>7, DisconnectWriteEth, ProcessEth, HealWriteEth, Zenon DEF Next
<1>2. EthInv => NoInternalDataLost
  BY Zenon DEF EthInv
<1> QED BY <1>1, <1>2, InitEth, PTL DEF Spec
=============================================================================
