------------------------ MODULE MempoolBitcoinProofs ------------------------
(***************************************************************************)
(* Theorems about MempoolBitcoin, for every set of transactions, addresses *)
(* and workers and every batch size: the index holds exactly what the      *)
(* entries say, a finished Resync leaves nothing on its way, and a         *)
(* transaction leaves the mempool only when the backend no longer lists    *)
(* it.  The inductive invariant follows every transaction through the      *)
(* channels: as many are on their way as were dispatched (Counted), where  *)
(* each stage of Resync has them (Phases), each at one place only (Single) *)
(* and none of them already stored (Fresh).                                *)
(***************************************************************************)
EXTENDS MempoolBitcoin, FiniteSetTheorems, TLAPS

\* A set of naturals that is not empty has a least element: induction, in a form
\* without an operator parameter.
LEMMA Least ==
  ASSUME NEW T \in SUBSET Nat, T # {}
  PROVE  \E m \in T : \A k \in T : m <= k
<1> DEFINE R == {ss \in Nat \X Nat : ss[1] < ss[2]}
<1>1. IsWellFoundedOn(R, Nat)
  BY NatLessThanWellFounded DEF OpToRel
<1>2. PICK m \in T : \A k \in T : ~(<<k, m>> \in R)
  <2> HIDE DEF R
  <2> QED BY <1>1, WFMin, Zenon
<1>3. \A k \in T : ~(k < m)
  <2> SUFFICES ASSUME NEW k \in T, k < m PROVE FALSE
    OBVIOUS
  <2>1. <<k, m>> \in Nat \X Nat /\ <<k, m>>[1] < <<k, m>>[2]
    OBVIOUS
  <2>2. <<k, m>> \in R
    BY <2>1
  <2> QED BY <2>2, <1>2
<1> QED BY <1>3

-----------------------------------------------------------------------------
\* One round of the loop of removeEntryFromMempool.
Round(f, s, x, i) ==
  IF i = 0 THEN <<>> ELSE IF s[i] # x THEN Append(f[i - 1], s[i]) ELSE f[i - 1]

Loop(f, s, x) == f = [i \in 0..Len(s) |-> Round(f, s, x, i)]

\* The recursion of Without has a solution.
LEMMA LoopExists ==
  ASSUME NEW S, NEW s \in Seq(S), NEW x
  PROVE  \E f : Loop(f, s, x)
<1> DEFINE Upto(n, g) == g = [i \in 0..n |-> g[i]] /\ \A i \in 0..n : g[i] = Round(g, s, x, i)
           Bad == {n \in 0..Len(s) : ~\E g : Upto(n, g)}
<1>1. Len(s) \in Nat
  OBVIOUS
<1>2. Bad = {}
  <2> SUFFICES ASSUME Bad # {} PROVE FALSE
    OBVIOUS
  <2>1. PICK m \in Bad : \A k \in Bad : m <= k
    <3>1. Bad \in SUBSET Nat
      BY <1>1
    <3> HIDE DEF Bad
    <3> QED BY <3>1, Least
  <2>2. m \in 0..Len(s) /\ ~\E g : Upto(m, g)
    OBVIOUS
  <2>3. CASE m = 0
    <3>1. Upto(0, [i \in 0..0 |-> <<>>])
      BY DEF Round
    <3> HIDE DEF Upto
    <3> QED BY <3>1, <2>2, <2>3
  <2>4. CASE m # 0
    <3>1. m - 1 \in 0..Len(s) /\ m - 1 \notin Bad
      <4> HIDE DEF Bad
      <4> QED BY <2>1, <2>2, <2>4, <1>1
    <3>2. PICK g : Upto(m - 1, g)
      BY <3>1
    <3> DEFINE h == [i \in 0..m |-> IF i < m THEN g[i] ELSE Round(g, s, x, m)]
    <3>3. \A i \in 0..(m - 1) : h[i] = g[i]
      BY <2>2, <1>1
    <3>4. h[m] = Round(g, s, x, m)
      BY <2>2, <1>1
    <3>5. h = [i \in 0..m |-> h[i]]
      OBVIOUS
    <3> HIDE DEF h
    <3>6. ASSUME NEW i \in 0..m PROVE h[i] = Round(h, s, x, i)
      <4>1. i = 0 \/ i - 1 \in 0..(m - 1)
        BY <2>2, <1>1
      <4>2. Round(h, s, x, i) = Round(g, s, x, i)
        BY <4>1, <3>3 DEF Round
      <4>3. i \in 0..(m - 1) \/ i = m
        BY <2>2, <1>1
      <4> QED BY <4>2, <4>3, <3>2, <3>3, <3>4
    <3>7. Upto(m, h)
      BY <3>5, <3>6
    <3> HIDE DEF Upto
    <3> QED BY <3>7, <2>2
  <2> QED BY <2>3, <2>4
<1>3. PICK g : Upto(Len(s), g)
  BY <1>1, <1>2
<1>4. g = [i \in 0..Len(s) |-> Round(g, s, x, i)]
  BY <1>3
<1> QED BY <1>4 DEF Loop

\* removeEntryFromMempool removes the transaction from the outpoints of an address
\* and nothing else.
LEMMA WithoutFacts ==
  ASSUME NEW S, NEW s \in Seq(S), NEW x
  PROVE  /\ Without(s, x) \in Seq(S)
         /\ Range(Without(s, x)) = Range(s) \ {x}
         /\ IsInjective(s) => IsInjective(Without(s, x))
<1> DEFINE f == CHOOSE f : Loop(f, s, x)
<1>1. Without(s, x) = f[Len(s)]
  BY DEF Without, Loop, Round
<1>2. Loop(f, s, x)
  BY LoopExists
<1> HIDE DEF f
<1>3. \A i \in 0..Len(s) : f[i] = Round(f, s, x, i)
  BY <1>2 DEF Loop
<1> DEFINE Good(i) ==
      /\ f[i] \in Seq(S)
      /\ \A k \in 1..Len(f[i]) : \E j \in 1..i : f[i][k] = s[j] /\ s[j] # x
      /\ \A j \in 1..i : s[j] # x => \E k \in 1..Len(f[i]) : f[i][k] = s[j]
      /\ IsInjective(s) => \A k, l \in 1..Len(f[i]) : f[i][k] = f[i][l] => k = l
    Bad == {i \in 0..Len(s) : ~Good(i)}
<1>4. Len(s) \in Nat
  OBVIOUS
<1>5. Bad = {}
  <2> SUFFICES ASSUME Bad # {} PROVE FALSE
    OBVIOUS
  <2>1. PICK m \in Bad : \A k \in Bad : m <= k
    <3>1. Bad \in SUBSET Nat
      BY <1>4
    <3> HIDE DEF Bad
    <3> QED BY <3>1, Least
  <2>2. m \in 0..Len(s) /\ ~Good(m)
    OBVIOUS
  <2>3. CASE m = 0
    <3>1. f[0] = <<>>
      BY <1>3, <1>4 DEF Round
    <3>2. f[0] \in Seq(S) /\ Len(f[0]) = 0
      BY <3>1
    <3>3. Good(0)
      BY <3>2
    <3> QED BY <3>3, <2>2, <2>3
  <2>4. CASE m # 0
    <3>1. m - 1 \in 0..Len(s) /\ Good(m - 1)
      <4>1. m - 1 \in 0..Len(s) /\ m - 1 \notin Bad
        <5> HIDE DEF Bad
        <5> QED BY <2>1, <2>2, <2>4, <1>4
      <4> QED BY <4>1
    <3>2. f[m] = IF s[m] # x THEN Append(f[m - 1], s[m]) ELSE f[m - 1]
      BY <1>3, <2>2, <2>4 DEF Round
    <3>3. m \in 1..Len(s) /\ s[m] \in S /\ m \in Nat
      BY <2>2, <2>4, <1>4
    <3> DEFINE g == f[m - 1]
    <3>4. /\ g \in Seq(S)
          /\ \A k \in 1..Len(g) : \E j \in 1..(m - 1) : g[k] = s[j] /\ s[j] # x
          /\ \A j \in 1..(m - 1) : s[j] # x => \E k \in 1..Len(g) : g[k] = s[j]
          /\ IsInjective(s) => \A k, l \in 1..Len(g) : g[k] = g[l] => k = l
      BY <3>1
    <3>5. CASE s[m] = x
      <4>1. f[m] = g
        BY <3>2, <3>5
      <4> HIDE DEF g
      <4>2. Good(m)
        BY <4>1, <3>3, <3>4, <3>5, SMTT(30)
      <4> QED BY <4>2, <2>2, Zenon
    <3>6. CASE s[m] # x
      <4>1. f[m] = Append(g, s[m])
        BY <3>2, <3>6, Zenon
      <4> HIDE DEF g
      <4>2. /\ f[m] \in Seq(S) /\ Len(f[m]) = Len(g) + 1 /\ f[m][Len(g) + 1] = s[m]
            /\ \A k \in 1..Len(g) : f[m][k] = g[k]
        BY <4>1, <3>3, <3>4
      <4>3. ASSUME NEW k \in 1..Len(f[m])
            PROVE  \E j \in 1..m : f[m][k] = s[j] /\ s[j] # x
        <5>1. CASE k = Len(g) + 1
          BY <5>1, <4>2, <3>3, <3>6
        <5>2. CASE k \in 1..Len(g)
          BY <5>2, <4>2, <3>3, <3>4
        <5> QED BY <5>1, <5>2, <4>2, <3>4
      <4>4. ASSUME NEW j \in 1..m, s[j] # x
            PROVE  \E k \in 1..Len(f[m]) : f[m][k] = s[j]
        BY <4>2, <4>4, <3>3, <3>4, <3>6
      <4>5. ASSUME IsInjective(s), NEW k \in 1..Len(f[m]), NEW l \in 1..Len(f[m]), f[m][k] = f[m][l]
            PROVE  k = l
        <5>1. \A i \in 1..Len(g) : g[i] # s[m]
          <6> SUFFICES ASSUME NEW i \in 1..Len(g), g[i] = s[m] PROVE FALSE
            OBVIOUS
          <6>1. PICK j \in 1..(m - 1) : g[i] = s[j]
            BY <3>4
          <6>2. s[j] = s[m] /\ j # m /\ j \in DOMAIN s /\ m \in DOMAIN s
            BY <6>1, <3>3, SMTT(30)
          <6> QED BY <6>2, <4>5 DEF IsInjective
        <5>2. \A a, b \in 1..Len(g) : g[a] = g[b] => a = b
          BY <4>5, <3>4
        <5>3. k \in 1..Len(g) \/ k = Len(g) + 1
          BY <4>2, <3>4
        <5>4. l \in 1..Len(g) \/ l = Len(g) + 1
          BY <4>2, <3>4
        <5> QED BY <5>1, <5>2, <5>3, <5>4, <4>2, <4>5, Zenon
      <4>6. IsInjective(s) => \A k, l \in 1..Len(f[m]) : f[m][k] = f[m][l] => k = l
        BY <4>5, Zenon
      <4>7. Good(m)
        BY <4>2, <4>3, <4>4, <4>6, Zenon
      <4> QED BY <4>7, <2>2, Zenon
    <3> QED BY <3>5, <3>6
  <2> QED BY <2>3, <2>4
<1>6. Good(Len(s))
  <2> HIDE DEF Good
  <2> QED BY <1>4, <1>5
<1> DEFINE w == Without(s, x)
<1>w. w = f[Len(s)]
  BY <1>1
<1> HIDE DEF w
<1>7. /\ w \in Seq(S)
      /\ \A k \in 1..Len(w) : \E j \in 1..Len(s) : w[k] = s[j] /\ s[j] # x
      /\ \A j \in 1..Len(s) : s[j] # x => \E k \in 1..Len(w) : w[k] = s[j]
      /\ IsInjective(s) => \A k, l \in 1..Len(w) : w[k] = w[l] => k = l
  BY <1>w, <1>6, Zenon
<1>8. DOMAIN w = 1..Len(w) /\ DOMAIN s = 1..Len(s)
  BY <1>7
<1>9. Range(w) = Range(s) \ {x}
  <2>1. \A e : e \in Range(w) <=> \E k \in 1..Len(w) : e = w[k]
    BY <1>8 DEF Range
  <2>2. \A e : e \in Range(s) <=> \E k \in 1..Len(s) : e = s[k]
    BY <1>8 DEF Range
  <2>3. \A e \in Range(w) : e \in Range(s) \ {x}
    BY <2>1, <2>2, <1>7
  <2>4. ASSUME NEW e \in Range(s) \ {x} PROVE e \in Range(w)
    <3>1. PICK j \in 1..Len(s) : e = s[j]
      BY <2>2
    <3>2. \E k \in 1..Len(w) : w[k] = s[j]
      BY <3>1, <1>7
    <3> QED BY <3>1, <3>2, <2>1
  <2> QED BY <2>3, <2>4
<1>10. IsInjective(s) => IsInjective(w)
  BY <1>7, <1>8 DEF IsInjective
<1> QED BY <1>7, <1>9, <1>10 DEF w

-----------------------------------------------------------------------------
\* A transaction the backend lists and the mempool does not hold is fetched once.
LEMMA ListedFacts ==
  ASSUME NEW S \in SUBSET Tx
  PROVE  /\ Listed(S) \in Seq(S)
         /\ \A i, j \in 1..Len(Listed(S)) : Listed(S)[i] = Listed(S)[j] => i = j
<1>1. IsFiniteSet(S)
  BY PoolAssumption, FS_Subset
<1>2. Cardinality(S) \in Nat /\ ExistsBijection(1..Cardinality(S), S)
  BY <1>1, FS_CardinalityType
<1>3. Listed(S) \in Bijection(1..Cardinality(S), S)
  BY <1>2 DEF ExistsBijection, Listed
<1>4. Listed(S) \in [1..Cardinality(S) -> S] /\ IsInjective(Listed(S))
  BY <1>3 DEF Bijection, Injection
<1>5. Listed(S) \in Seq(S) /\ DOMAIN Listed(S) = 1..Len(Listed(S))
  BY <1>2, <1>4
<1> QED BY <1>4, <1>5 DEF IsInjective

\* The batches of resyncBatchedMissing are segments of the list of missing
\* transactions: element j of batch i is its element (i - 1) * batchSize + j.
LEMMA BatchesFacts ==
  ASSUME NEW s \in Seq(Tx), batchSize \in Nat \ {0}
  PROVE  /\ Batches(s) \in Seq(Seq(Tx))
         /\ \A i \in 1..Len(Batches(s)) : \A j \in 1..Len(Batches(s)[i]) :
              /\ j <= batchSize
              /\ (i - 1) * batchSize + j \in 1..Len(s)
              /\ Batches(s)[i][j] = s[(i - 1) * batchSize + j]
<1> DEFINE n == (Len(s) + batchSize - 1) \div batchSize
           lo(i) == (i - 1) * batchSize + 1
           hi(i) == IF i * batchSize < Len(s) THEN i * batchSize ELSE Len(s)
<1>1. n \in Nat
  OBVIOUS
<1>2. Batches(s) = [i \in 1..n |-> SubSeq(s, lo(i), hi(i))]
  BY DEF Batches
<1> HIDE DEF n
<1>3. ASSUME NEW i \in 1..n
      PROVE  /\ SubSeq(s, lo(i), hi(i)) \in Seq(Tx)
             /\ \A j \in 1..Len(SubSeq(s, lo(i), hi(i))) :
                  /\ j <= batchSize
                  /\ (i - 1) * batchSize + j \in 1..Len(s)
                  /\ SubSeq(s, lo(i), hi(i))[j] = s[(i - 1) * batchSize + j]
  <2>1. i \in Nat /\ i >= 1
    BY <1>1
  <2>2. (i - 1) * batchSize \in Nat /\ i * batchSize = (i - 1) * batchSize + batchSize
    BY <2>1
  <2> DEFINE a == (i - 1) * batchSize
  <2>3. a \in Nat /\ lo(i) = a + 1 /\ hi(i) \in Int /\ hi(i) <= a + batchSize /\ hi(i) <= Len(s)
    BY <2>2
  <2> DEFINE q == SubSeq(s, lo(i), hi(i))
  <2> HIDE DEF lo, hi
  <2>4. q \in Seq(Tx) /\ Len(q) = IF lo(i) <= hi(i) THEN hi(i) - lo(i) + 1 ELSE 0
    BY <2>3
  <2>5. \A j \in 1..Len(q) : q[j] = s[lo(i) + j - 1]
    BY <2>3, <2>4
  <2> HIDE DEF q
  <2>6. ASSUME NEW j \in 1..Len(q)
        PROVE  j <= batchSize /\ a + j \in 1..Len(s) /\ q[j] = s[a + j]
    <3>1. j \in Nat /\ j >= 1 /\ lo(i) + j - 1 <= hi(i)
      BY <2>3, <2>4
    <3> HIDE DEF a
    <3> QED BY <3>1, <2>3, <2>5
  <2> QED BY <2>4, <2>6 DEF q
<1>4. Batches(s) \in Seq(Seq(Tx)) /\ Len(Batches(s)) = n
  BY <1>1, <1>2, <1>3
<1> HIDE DEF lo, hi
<1> QED BY <1>2, <1>3, <1>4, Zenon

\* No transaction is in two batches, or twice in one.
LEMMA BatchesApart ==
  ASSUME NEW s \in Seq(Tx), batchSize \in Nat \ {0},
         \A i, j \in 1..Len(s) : s[i] = s[j] => i = j,
         NEW i \in 1..Len(Batches(s)), NEW j \in 1..Len(Batches(s)[i]),
         NEW k \in 1..Len(Batches(s)), NEW l \in 1..Len(Batches(s)[k]),
         Batches(s)[i][j] = Batches(s)[k][l]
  PROVE  i = k /\ j = l
<1> DEFINE b == Batches(s)
           at(n) == (n - 1) * batchSize
<1>0. /\ b \in Seq(Seq(Tx))
      /\ \A n \in 1..Len(b) : \A m \in 1..Len(b[n]) :
           m <= batchSize /\ at(n) + m \in 1..Len(s) /\ b[n][m] = s[at(n) + m]
  BY BatchesFacts, ZenonT(40)
<1>1. /\ i \in Nat /\ k \in Nat /\ j \in Nat /\ l \in Nat
      /\ 1 <= j /\ j <= batchSize /\ 1 <= l /\ l <= batchSize
      /\ at(i) + j \in 1..Len(s) /\ at(k) + l \in 1..Len(s)
      /\ s[at(i) + j] = s[at(k) + l]
  <2> HIDE DEF at, b
  <2>1. i \in 1..Len(b) /\ j \in 1..Len(b[i]) /\ k \in 1..Len(b) /\ l \in 1..Len(b[k]) /\ b[i][j] = b[k][l]
    BY DEF b
  <2>2. b[i] \in Seq(Tx) /\ b[k] \in Seq(Tx)
    BY <2>1, <1>0
  <2>3. Len(b) \in Nat /\ Len(b[i]) \in Nat /\ Len(b[k]) \in Nat
    <3>1. Len(b[i]) \in Nat /\ Len(b[k]) \in Nat
      BY <2>2, SMTT(30)
    <3>2. b \in Seq(Seq(Tx))
      BY <1>0
    <3>3. Len(b) \in Nat
      BY <3>2
    <3> QED BY <3>1, <3>3
  <2>4. /\ j <= batchSize /\ at(i) + j \in 1..Len(s) /\ b[i][j] = s[at(i) + j]
        /\ l <= batchSize /\ at(k) + l \in 1..Len(s) /\ b[k][l] = s[at(k) + l]
    <3>1. /\ j <= batchSize /\ at(i) + j \in 1..Len(s) /\ b[i][j] = s[at(i) + j]
      BY <2>1, <1>0, Zenon
    <3>2. /\ l <= batchSize /\ at(k) + l \in 1..Len(s) /\ b[k][l] = s[at(k) + l]
      BY <2>1, <1>0, Zenon
    <3> QED BY <3>1, <3>2
  <2>5. i \in Nat /\ k \in Nat /\ j \in Nat /\ l \in Nat /\ 1 <= j /\ 1 <= l
    BY <2>1, <2>3, SMTT(30)
  <2> QED BY <2>1, <2>4, <2>5, Zenon
<1>2. at(i) + j = at(k) + l
  <2> HIDE DEF at
  <2> QED BY <1>1, Zenon
<1>3. ASSUME NEW p \in Nat, NEW q \in Nat, p < q
      PROVE  at(q) >= at(p) + batchSize
  <2>1. (q - 1) * batchSize = (p - 1) * batchSize + batchSize + (q - 1 - p) * batchSize
    BY <1>3
  <2>2. (q - 1 - p) \in Nat
    BY <1>3
  <2>3. (q - 1 - p) * batchSize \in Nat /\ (p - 1) * batchSize \in Int
    BY <2>2
  <2> QED BY <2>1, <2>3
<1>4. at(i) \in Int /\ at(k) \in Int
  BY <1>1
<1> HIDE DEF at
<1>5. ~(i < k)
  BY <1>1, <1>2, <1>3, <1>4
<1>6. ~(k < i)
  BY <1>1, <1>2, <1>3, <1>4
<1>7. i = k
  BY <1>1, <1>5, <1>6
<1>8. j = l
  BY <1>1, <1>2, <1>4, <1>7
<1> QED BY <1>7, <1>8

-----------------------------------------------------------------------------
WorkerState ==
  {Idle} \cup [pc : {"work"}, tx : Tx] \cup [pc : {"send"}, tx : Tx, io : SUBSET Addr]

FetcherState ==
  {Idle, Done} \cup [pc : {"fetch"}, batch : Seq(Tx)] \cup [pc : {"result"}, batch : Seq(Tx), err : BOOLEAN]

Types ==
  /\ batchSize \in Nat \ {0} /\ pool \in SUBSET Tx /\ txs \in SUBSET Tx
  /\ entries \in [Tx -> SUBSET Addr] /\ index \in [Addr -> Seq(Tx)]
  /\ pc \in {"idle", "dispatch", "batches", "remove"}
  /\ todo \in Seq(Tx) /\ dispatched \in Nat
  /\ chanTx \in Seq(Tx) /\ Len(chanTx) <= 1
  /\ chanAddrIndex \in Seq([tx : Tx, io : SUBSET Addr]) /\ Len(chanAddrIndex) <= 1
  /\ worker \in [TxWorker -> WorkerState]
  /\ jobs \in Seq(Seq(Tx)) /\ fetcher \in [BatchWorker -> FetcherState]
  /\ results \in Seq([batch : Seq(Tx), err : BOOLEAN]) /\ failed \in BOOLEAN

\* dispatched is the number of transactions on their way through the workers.
BusyWorkers == {w \in TxWorker : worker[w] # Idle}
Counted == dispatched = Len(chanTx) + Cardinality(BusyWorkers) + Len(chanAddrIndex)

\* What the steps of Resync leave behind.
Phases ==
  /\ pc # "dispatch" => todo = <<>> /\ dispatched = 0
  /\ (pc \in {"idle", "remove"} \/ batchSize = 1) =>
       jobs = <<>> /\ results = <<>> /\ \A f \in BatchWorker : fetcher[f] = Done
  /\ pc \in {"dispatch", "remove"} => ~failed

\* Transaction tx is on its way at the place of kind k with the indices x and j.
Holds(tx, k, x, j) ==
  \/ k = "todo" /\ x = 0 /\ j \in 1..Len(todo) /\ todo[j] = tx
  \/ k = "chanTx" /\ x = 0 /\ j \in 1..Len(chanTx) /\ chanTx[j] = tx
  \/ k = "worker" /\ x \in TxWorker /\ j = 0 /\ worker[x] # Idle /\ worker[x].tx = tx
  \/ k = "addr" /\ x = 0 /\ j \in 1..Len(chanAddrIndex) /\ chanAddrIndex[j].tx = tx
  \/ k = "job" /\ x \in 1..Len(jobs) /\ j \in 1..Len(jobs[x]) /\ jobs[x][j] = tx
  \/ k = "fetcher" /\ x \in BatchWorker /\ fetcher[x] # Idle /\ fetcher[x] # Done
     /\ j \in 1..Len(fetcher[x].batch) /\ fetcher[x].batch[j] = tx
  \/ k = "result" /\ x \in 1..Len(results) /\ j \in 1..Len(results[x].batch) /\ results[x].batch[j] = tx

\* A transaction is on its way at one place only,
Single ==
  \A tx, k, x, j, k2, x2, j2 :
    Holds(tx, k, x, j) /\ Holds(tx, k2, x2, j2) => k = k2 /\ x = x2 /\ j = j2

\* and one on its way has no entry yet.
Fresh == \A tx, k, x, j : Holds(tx, k, x, j) => tx \in Tx /\ entries[tx] = {}

IInv == Types /\ Counted /\ Phases /\ Single /\ Fresh /\ IndexExact

\* The states of a permanent worker and of a batch worker, told apart by their pc.
LEMMA WorkerCases ==
  ASSUME NEW x \in WorkerState
  PROVE  \/ x = Idle /\ x.pc = "idle"
         \/ x # Idle /\ x.pc = "work" /\ x.tx \in Tx
         \/ x # Idle /\ x.pc = "send" /\ x.tx \in Tx /\ x.io \in SUBSET Addr
BY DEF WorkerState, Idle

LEMMA FetcherCases ==
  ASSUME NEW x \in FetcherState
  PROVE  \/ x = Idle /\ x # Done /\ x.pc = "idle"
         \/ x = Done /\ x # Idle /\ x.pc = "done"
         \/ x # Idle /\ x # Done /\ x.pc = "fetch" /\ x.batch \in Seq(Tx)
         \/ x # Idle /\ x # Done /\ x.pc = "result" /\ x.batch \in Seq(Tx) /\ x.err \in BOOLEAN
BY DEF FetcherState, Idle, Done

\* Only the channels, the workers and the queues hold transactions on their way.
LEMMA Still ==
  ASSUME IInv, UNCHANGED <<entries, todo, chanTx, chanAddrIndex, worker, jobs, fetcher, results>>
  PROVE  Single' /\ Fresh'
<1>1. \A tx, k, x, j : Holds(tx, k, x, j)' <=> Holds(tx, k, x, j)
  BY DEF Holds
<1> QED BY <1>1 DEF IInv, Single, Fresh

\* A step that only takes transactions away from their places.
LEMMA Fewer ==
  ASSUME IInv, UNCHANGED entries, \A tx, k, x, j : Holds(tx, k, x, j)' => Holds(tx, k, x, j)
  PROVE  Single' /\ Fresh'
<1>1. Single'
  <2> SUFFICES ASSUME NEW tx, NEW k, NEW x, NEW j, NEW k2, NEW x2, NEW j2,
                      Holds(tx, k, x, j)', Holds(tx, k2, x2, j2)'
               PROVE  k = k2 /\ x = x2 /\ j = j2
    BY DEF Single
  <2> QED BY DEF IInv, Single
<1>2. Fresh'
  BY DEF IInv, Fresh
<1> QED BY <1>1, <1>2

\* The busy workers are finitely many.
LEMMA BusyFinite ==
  IsFiniteSet(BusyWorkers) /\ Cardinality(BusyWorkers) \in Nat
BY PoolAssumption, FS_Subset, FS_CardinalityType DEF BusyWorkers

\* A channel with room for one element that is not empty holds one.
LEMMA OneElement ==
  ASSUME NEW S, NEW s \in Seq(S), Len(s) <= 1, s # <<>>
  PROVE  Len(s) = 1 /\ s[1] \in S
OBVIOUS

\* The first element of a channel, and the others once it is taken.
LEMMA TakeFirst ==
  ASSUME NEW S, NEW s \in Seq(S), s # <<>>
  PROVE  /\ Len(s) \in Nat /\ Len(s) >= 1 /\ Head(s) = s[1] /\ s[1] \in S
         /\ Tail(s) \in Seq(S) /\ Len(Tail(s)) = Len(s) - 1
         /\ \A i \in 1..Len(Tail(s)) : Tail(s)[i] = s[i + 1]
OBVIOUS

\* What the workers do not touch.
LEMMA SameCount ==
  ASSUME IInv, UNCHANGED <<dispatched, chanTx, chanAddrIndex, worker>>
  PROVE  Counted'
BY DEF IInv, Counted, BusyWorkers

LEMMA SameIndex ==
  ASSUME IInv, UNCHANGED <<entries, index>>
  PROVE  IndexExact'
BY DEF IInv, IndexExact

\* The lists at the start: the mempool, the channels and the batches are empty.
LEMMA InitIInv == Init => IInv
<1> SUFFICES ASSUME Init PROVE IInv
  OBVIOUS
<1>1. Types
  <2>1. batchSize \in Nat \ {0} /\ pool \in SUBSET Tx /\ txs \in SUBSET Tx
    BY PoolAssumption DEF Init
  <2>2. entries \in [Tx -> SUBSET Addr] /\ index \in [Addr -> Seq(Tx)]
    BY DEF Init
  <2>3. worker \in [TxWorker -> WorkerState] /\ fetcher \in [BatchWorker -> FetcherState]
    BY DEF Init, WorkerState, FetcherState
  <2>4. pc \in {"idle", "dispatch", "batches", "remove"} /\ dispatched \in Nat /\ failed \in BOOLEAN
    BY Zenon DEF Init
  <2>5. /\ todo \in Seq(Tx) /\ chanTx \in Seq(Tx) /\ jobs \in Seq(Seq(Tx))
        /\ chanAddrIndex \in Seq([tx : Tx, io : SUBSET Addr])
        /\ results \in Seq([batch : Seq(Tx), err : BOOLEAN])
    BY DEF Init
  <2>6. chanTx = <<>> /\ chanAddrIndex = <<>>
    BY DEF Init
  <2>7. Len(chanTx) <= 1 /\ Len(chanAddrIndex) <= 1
    BY <2>6
  <2> QED BY <2>1, <2>2, <2>3, <2>4, <2>5, <2>7, Zenon DEF Types
<1>2. Counted
  <2>1. BusyWorkers = {}
    BY DEF Init, BusyWorkers
  <2> QED BY <2>1, FS_EmptySet DEF Init, Counted
<1>3. Phases
  BY DEF Init, Phases
<1>4. \A tx, k, x, j : ~Holds(tx, k, x, j)
  BY DEF Init, Holds
<1>5. Single /\ Fresh
  BY <1>4 DEF Single, Fresh
<1>6. IndexExact
  <2> SUFFICES ASSUME NEW a \in Addr
               PROVE  IsInjective(index[a]) /\ Range(index[a]) = {tx \in Tx : a \in entries[tx]}
    BY DEF IndexExact
  <2>1. index[a] = <<>> /\ DOMAIN index[a] = {}
    BY DEF Init
  <2>2. IsInjective(index[a]) /\ Range(index[a]) = {}
    BY <2>1 DEF IsInjective, Range
  <2>3. {tx \in Tx : a \in entries[tx]} = {}
    BY DEF Init
  <2> QED BY <2>2, <2>3
<1> QED BY <1>1, <1>2, <1>3, <1>5, <1>6 DEF IInv

\* The backend's mempool changes.
LEMMA ChangeIInv == ASSUME IInv, Change PROVE IInv'
<1>1. UNCHANGED <<batchSize, entries, index, pc, txs, todo, dispatched, chanTx, chanAddrIndex, worker,
                  jobs, fetcher, results, failed>>
  BY DEF Change, store, pipe, batch
<1>2. pool' \in SUBSET Tx
  BY DEF IInv, Types, Change
<1>3. Types'
  BY <1>1, <1>2 DEF IInv, Types
<1>4. Phases'
  BY <1>1 DEF IInv, Phases
<1> QED BY <1>1, <1>3, <1>4, Still, SameCount, SameIndex, Zenon DEF IInv

\* SendTx moves the next transaction into chanTx.
LEMMA SendTxIInv == ASSUME IInv, SendTx PROVE IInv'
<1>1. /\ pc = "dispatch" /\ todo # <<>> /\ chanTx = <<>>
      /\ chanTx' = <<Head(todo)>> /\ todo' = Tail(todo) /\ dispatched' = dispatched + 1
      /\ UNCHANGED <<batchSize, pool, entries, index, pc, txs, chanAddrIndex, worker,
                     jobs, fetcher, results, failed>>
  BY DEF SendTx, store, batch
<1>2. todo \in Seq(Tx) /\ Len(todo) >= 1
  BY <1>1 DEF IInv, Types
<1>3. /\ chanTx' \in Seq(Tx) /\ Len(chanTx') = 1 /\ chanTx'[1] = todo[1]
      /\ todo' \in Seq(Tx) /\ Len(todo') = Len(todo) - 1
      /\ \A j \in 1..Len(todo') : todo'[j] = todo[j + 1]
  BY <1>1, <1>2
<1>4. Types'
  BY <1>1, <1>3 DEF IInv, Types
<1>5. Counted'
  <2>1. BusyWorkers' = BusyWorkers
    BY <1>1 DEF BusyWorkers
  <2> QED BY <2>1, <1>1, <1>3, BusyFinite DEF IInv, Types, Counted
<1>6. Phases'
  BY <1>1, Zenon DEF IInv, Phases
<1> DEFINE gk(k) == IF k = "chanTx" THEN "todo" ELSE k
           gj(k, j) == IF k = "todo" THEN j + 1 ELSE j
<1>7. ASSUME NEW tx, NEW k, NEW x, NEW j, Holds(tx, k, x, j)'
      PROVE  Holds(tx, gk(k), x, gj(k, j)) /\ (k \in {"todo", "chanTx"} => x = 0)
             /\ (k = "todo" => j \in Nat /\ j >= 1) /\ (k = "chanTx" => j = 1)
  BY <1>1, <1>2, <1>3, <1>7 DEF Holds
<1>8. Single'
  <2> SUFFICES ASSUME NEW tx, NEW k, NEW x, NEW j, NEW k2, NEW x2, NEW j2,
                      Holds(tx, k, x, j)', Holds(tx, k2, x2, j2)'
               PROVE  k = k2 /\ x = x2 /\ j = j2
    BY DEF Single
  <2>1. gk(k) = gk(k2) /\ x = x2 /\ gj(k, j) = gj(k2, j2)
    BY <1>7 DEF IInv, Single
  <2>2. /\ (k = "todo" => j \in Nat /\ j >= 1) /\ (k = "chanTx" => j = 1)
        /\ (k2 = "todo" => j2 \in Nat /\ j2 >= 1) /\ (k2 = "chanTx" => j2 = 1)
    BY <1>7
  <2> QED BY <2>1, <2>2
<1>9. Fresh'
  BY <1>1, <1>7 DEF IInv, Fresh
<1> QED BY <1>1, <1>4, <1>5, <1>6, <1>8, <1>9, SameIndex, Zenon DEF IInv

\* A permanent worker takes a transaction from chanTx: one more of them is busy.
LEMMA TakeTxIInv == ASSUME IInv, NEW w \in TxWorker, TakeTx(w) PROVE IInv'
<1>1. /\ worker[w].pc = "idle" /\ chanTx # <<>>
      /\ chanTx' = <<>> /\ worker' = [worker EXCEPT ![w] = [pc |-> "work", tx |-> chanTx[1]]]
      /\ UNCHANGED <<batchSize, pool, entries, index, pc, txs, todo, dispatched, chanAddrIndex,
                     jobs, fetcher, results, failed>>
  BY Zenon DEF TakeTx, store, batch
<1>2. /\ chanTx \in Seq(Tx) /\ Len(chanTx) = 1 /\ chanTx[1] \in Tx
      /\ worker \in [TxWorker -> WorkerState]
  BY <1>1, OneElement, Zenon DEF IInv, Types
<1>3. worker[w] = Idle
  BY <1>1, <1>2, WorkerCases, Zenon
<1>4. /\ worker'[w].tx = chanTx[1] /\ worker'[w] # Idle
      /\ \A v \in TxWorker \ {w} : worker'[v] = worker[v]
  BY <1>1, <1>2, Zenon DEF Idle
<1>5. worker' \in [TxWorker -> WorkerState]
  BY <1>1, <1>2, Zenon DEF WorkerState
<1>6. Types'
  BY <1>1, <1>5 DEF IInv, Types
<1>7. Counted'
  <2>1. BusyWorkers' = BusyWorkers \cup {w} /\ w \notin BusyWorkers
    BY <1>3, <1>4 DEF BusyWorkers
  <2>2. IsFiniteSet(BusyWorkers)
    BY PoolAssumption, FS_Subset DEF BusyWorkers
  <2>3. Cardinality(BusyWorkers') = Cardinality(BusyWorkers) + 1 /\ Cardinality(BusyWorkers) \in Nat
    BY <2>1, <2>2, FS_AddElement, FS_CardinalityType, Zenon
  <2> QED BY <2>3, <1>1, <1>2 DEF IInv, Types, Counted
<1>8. Phases'
  BY <1>1, Zenon DEF IInv, Phases
<1> DEFINE moved(k, x) == k = "worker" /\ x = w
<1>9. ASSUME NEW tx, NEW k, NEW x, NEW j, Holds(tx, k, x, j)'
      PROVE  /\ k # "chanTx"
             /\ IF moved(k, x) THEN Holds(tx, "chanTx", 0, 1) /\ j = 0 ELSE Holds(tx, k, x, j)
  BY <1>1, <1>2, <1>4, <1>9 DEF Holds
<1>10. Single'
  <2> SUFFICES ASSUME NEW tx, NEW k, NEW x, NEW j, NEW k2, NEW x2, NEW j2,
                      Holds(tx, k, x, j)', Holds(tx, k2, x2, j2)'
               PROVE  k = k2 /\ x = x2 /\ j = j2
    BY Zenon DEF Single
  <2> QED BY <1>9 DEF IInv, Single
<1>11. Fresh'
  BY <1>1, <1>9, Zenon DEF IInv, Fresh
<1> QED BY <1>1, <1>6, <1>7, <1>8, <1>10, <1>11, SameIndex, Zenon DEF IInv

\* getTxAddrs answers with addresses, also when the lookup failed; the worker keeps its transaction.
LEMMA AnswerIInv ==
  ASSUME IInv, NEW w \in TxWorker, worker[w].pc = "work", NEW io \in SUBSET Addr, Answer(w, io),
         UNCHANGED <<batchSize, pool, entries, index, pc, txs, todo, dispatched, chanTx, chanAddrIndex,
                     jobs, fetcher, results, failed>>
  PROVE  IInv'
<1>1. worker \in [TxWorker -> WorkerState]
  BY Zenon DEF IInv, Types
<1>2. worker[w] # Idle /\ worker[w].tx \in Tx
  BY <1>1, WorkerCases, Zenon DEF Idle
<1>3. /\ worker'[w] # Idle /\ worker'[w].tx = worker[w].tx
      /\ \A v \in TxWorker \ {w} : worker'[v] = worker[v]
  BY <1>1, Zenon DEF Answer, Idle
<1>4. worker' \in [TxWorker -> WorkerState]
  BY <1>1, <1>2, Zenon DEF Answer, WorkerState
<1>5. Types'
  BY <1>4, Zenon DEF IInv, Types
<1>6. Counted'
  <2>1. BusyWorkers' = BusyWorkers
    BY <1>2, <1>3, Zenon DEF BusyWorkers
  <2> QED BY <2>1, Zenon DEF IInv, Counted
<1>7. Phases'
  BY Zenon DEF IInv, Phases
<1>8. \A tx, k, x, j : Holds(tx, k, x, j)' => Holds(tx, k, x, j)
  BY <1>2, <1>3, SMTT(30) DEF Holds
<1>9. Single' /\ Fresh'
  BY <1>8, Fewer, Zenon
<1> QED BY <1>5, <1>6, <1>7, <1>9, SameIndex, Zenon DEF IInv

\* The result goes into chanAddrIndex and the worker is idle again.
LEMMA SendAddrsIInv == ASSUME IInv, NEW w \in TxWorker, SendAddrs(w) PROVE IInv'
<1>1. /\ worker[w].pc = "send" /\ chanAddrIndex = <<>>
      /\ chanAddrIndex' = <<[tx |-> worker[w].tx, io |-> worker[w].io]>>
      /\ worker' = [worker EXCEPT ![w] = Idle]
      /\ UNCHANGED <<batchSize, pool, entries, index, pc, txs, todo, dispatched, chanTx,
                     jobs, fetcher, results, failed>>
  BY DEF SendAddrs, store, batch
<1>2. worker \in [TxWorker -> WorkerState]
  BY Zenon DEF IInv, Types
<1>3. worker[w] # Idle /\ worker[w].tx \in Tx /\ worker[w].io \in SUBSET Addr
  BY <1>1, <1>2, WorkerCases, Zenon
<1>4. worker'[w] = Idle /\ \A v \in TxWorker \ {w} : worker'[v] = worker[v]
  BY <1>1, <1>2, Zenon
<1>5. /\ chanAddrIndex' \in Seq([tx : Tx, io : SUBSET Addr]) /\ Len(chanAddrIndex') = 1
      /\ chanAddrIndex'[1].tx = worker[w].tx
  BY <1>1, <1>3, SMTT(30)
<1>6. Types'
  BY <1>1, <1>2, <1>5 DEF IInv, Types, WorkerState
<1>7. Counted'
  <2>1. BusyWorkers' = BusyWorkers \ {w} /\ w \in BusyWorkers
    BY <1>3, <1>4 DEF BusyWorkers
  <2>2. IsFiniteSet(BusyWorkers)
    BY PoolAssumption, FS_Subset DEF BusyWorkers
  <2>3. Cardinality(BusyWorkers') = Cardinality(BusyWorkers) - 1 /\ Cardinality(BusyWorkers) \in Nat
    <3>1. Cardinality(BusyWorkers \ {w}) = Cardinality(BusyWorkers) - 1
      BY <2>1, <2>2, FS_RemoveElement, Zenon
    <3>2. Cardinality(BusyWorkers) \in Nat
      BY <2>2, FS_CardinalityType, Zenon
    <3> QED BY <2>1, <3>1, <3>2, Zenon
  <2> QED BY <2>3, <1>1, <1>5 DEF IInv, Types, Counted
<1>8. Phases'
  BY <1>1, Zenon DEF IInv, Phases
<1>9. ASSUME NEW tx, NEW k, NEW x, NEW j, Holds(tx, k, x, j)'
      PROVE  /\ ~(k = "worker" /\ x = w)
             /\ IF k = "addr" THEN Holds(tx, "worker", w, 0) /\ x = 0 /\ j = 1 ELSE Holds(tx, k, x, j)
  BY <1>1, <1>3, <1>4, <1>5, <1>9 DEF Holds
<1>10. Single'
  <2> SUFFICES ASSUME NEW tx, NEW k, NEW x, NEW j, NEW k2, NEW x2, NEW j2,
                      Holds(tx, k, x, j)', Holds(tx, k2, x2, j2)'
               PROVE  k = k2 /\ x = x2 /\ j = j2
    BY DEF Single
  <2> QED BY <1>9 DEF IInv, Single
<1>11. Fresh'
  BY <1>1, <1>9, Zenon DEF IInv, Fresh
<1> QED BY <1>1, <1>6, <1>7, <1>8, <1>10, <1>11, SameIndex, Zenon DEF IInv

\* Appending a transaction that an address does not list yet.
LEMMA AppendFacts ==
  ASSUME NEW s \in Seq(Tx), NEW tx \in Tx, tx \notin Range(s), IsInjective(s)
  PROVE  IsInjective(Append(s, tx)) /\ Range(Append(s, tx)) = Range(s) \cup {tx}
<1> DEFINE r == Append(s, tx)
<1>1. /\ r \in Seq(Tx) /\ Len(r) = Len(s) + 1 /\ r[Len(s) + 1] = tx /\ \A i \in 1..Len(s) : r[i] = s[i]
      /\ DOMAIN r = 1..(Len(s) + 1) /\ DOMAIN s = 1..Len(s)
  OBVIOUS
<1> HIDE DEF r
<1>2. \A i \in 1..Len(s) : s[i] # tx
  BY <1>1, Zenon DEF Range
<1>3. \A i, j \in 1..Len(s) : s[i] = s[j] => i = j
  BY <1>1, Zenon DEF IsInjective
<1>4. IsInjective(r)
  <2> SUFFICES ASSUME NEW i \in 1..(Len(s) + 1), NEW j \in 1..(Len(s) + 1), r[i] = r[j] PROVE i = j
    BY <1>1 DEF IsInjective
  <2>1. i \in 1..Len(s) \/ i = Len(s) + 1
    OBVIOUS
  <2>2. j \in 1..Len(s) \/ j = Len(s) + 1
    OBVIOUS
  <2> QED BY <2>1, <2>2, <1>1, <1>2, <1>3, Zenon
<1>5. Range(r) = Range(s) \cup {tx}
  <2>1. \A e : e \in Range(r) <=> \E i \in 1..(Len(s) + 1) : e = r[i]
    BY <1>1 DEF Range
  <2>2. \A e : e \in Range(s) <=> \E i \in 1..Len(s) : e = s[i]
    BY <1>1 DEF Range
  <2>3. \A i : i \in 1..(Len(s) + 1) <=> i \in 1..Len(s) \/ i = Len(s) + 1
    OBVIOUS
  <2> QED BY <2>1, <2>2, <2>3, <1>1
<1> QED BY <1>4, <1>5, Zenon DEF r

\* onNewEntry stores a transaction that had no entry, and lists it once under each of its addresses.
LEMMA NewEntryIInv == ASSUME IInv, onNewEntry PROVE IInv'
<1> DEFINE tx == chanAddrIndex[1].tx
           io == chanAddrIndex[1].io
<1>1. /\ pc = "dispatch" /\ chanAddrIndex # <<>> /\ dispatched > 0
      /\ chanAddrIndex' = <<>> /\ dispatched' = dispatched - 1
      /\ entries' = IF io # {} THEN [entries EXCEPT ![tx] = io] ELSE entries
      /\ index' = [a \in Addr |-> IF a \in io THEN Append(index[a], tx) ELSE index[a]]
      /\ UNCHANGED <<batchSize, pool, pc, txs, todo, chanTx, worker, jobs, fetcher, results, failed>>
  BY DEF onNewEntry, batch
<1>2. Len(chanAddrIndex) = 1 /\ tx \in Tx /\ io \in SUBSET Addr
  <2>1. chanAddrIndex \in Seq([tx : Tx, io : SUBSET Addr]) /\ Len(chanAddrIndex) <= 1
    BY DEF IInv, Types
  <2>2. Len(chanAddrIndex) = 1 /\ chanAddrIndex[1] \in [tx : Tx, io : SUBSET Addr]
    BY <2>1, <1>1, OneElement, Zenon
  <2> QED BY <2>2
<1>3. Holds(tx, "addr", 0, 1)
  BY <1>2 DEF Holds
<1> HIDE DEF tx, io
<1>4. entries \in [Tx -> SUBSET Addr] /\ index \in [Addr -> Seq(Tx)] /\ entries[tx] = {}
  BY <1>3 DEF IInv, Types, Fresh
<1>5. /\ entries' \in [Tx -> SUBSET Addr] /\ entries'[tx] = io
      /\ \A t \in Tx \ {tx} : entries'[t] = entries[t]
  BY <1>1, <1>2, <1>4, Zenon
<1>6. index' \in [Addr -> Seq(Tx)]
  BY <1>1, <1>2, <1>4
<1>7. Types'
  BY <1>1, <1>5, <1>6 DEF IInv, Types
<1>8. Counted'
  <2>1. BusyWorkers' = BusyWorkers
    BY <1>1 DEF BusyWorkers
  <2>2. Cardinality(BusyWorkers) \in Nat
    BY PoolAssumption, FS_Subset, FS_CardinalityType, Zenon DEF BusyWorkers
  <2> QED BY <2>1, <2>2, <1>1, <1>2 DEF IInv, Types, Counted
<1>9. Phases'
  BY <1>1 DEF IInv, Phases
<1>10. ASSUME NEW t, NEW k, NEW x, NEW j, Holds(t, k, x, j)'
       PROVE  Holds(t, k, x, j) /\ t # tx
  <2>1. Holds(t, k, x, j) /\ k # "addr"
    BY <1>1, <1>10 DEF Holds
  <2>2. t # tx
    BY <2>1, <1>3, SMTT(30) DEF IInv, Single
  <2> QED BY <2>1, <2>2, Zenon
<1>11. Single' /\ Fresh'
  BY <1>5, <1>10 DEF IInv, Single, Fresh
<1>12. IndexExact'
  <2> SUFFICES ASSUME NEW a \in Addr
               PROVE  IsInjective(index'[a]) /\ Range(index'[a]) = {t \in Tx : a \in entries'[t]}
    BY DEF IndexExact
  <2>1. IsInjective(index[a]) /\ Range(index[a]) = {t \in Tx : a \in entries[t]}
    BY DEF IInv, IndexExact
  <2>2. CASE a \in io
    <3>1. tx \notin Range(index[a]) /\ index'[a] = Append(index[a], tx) /\ index[a] \in Seq(Tx)
      BY <2>1, <2>2, <1>1, <1>4
    <3>2. IsInjective(index'[a]) /\ Range(index'[a]) = Range(index[a]) \cup {tx}
      BY <3>1, <2>1, <1>2, AppendFacts, Zenon
    <3> QED BY <3>2, <2>1, <2>2, <1>2, <1>5
  <2>3. CASE a \notin io
    BY <2>1, <2>3, <1>1, <1>2, <1>4, <1>5, Zenon
  <2> QED BY <2>2, <2>3
<1> QED BY <1>7, <1>8, <1>9, <1>11, <1>12, Zenon DEF IInv

\* dispatchResyncPayloads returns when nothing is on its way.
LEMMA DispatchedIInv == ASSUME IInv, Dispatched PROVE IInv'
<1>1. /\ pc = "dispatch" /\ todo = <<>> /\ dispatched = 0
      /\ pc' = (IF batchSize = 1 THEN "remove" ELSE "batches")
      /\ UNCHANGED <<batchSize, pool, entries, index, txs, todo, dispatched, chanTx, chanAddrIndex, worker,
                     jobs, fetcher, results, failed>>
  BY Zenon DEF Dispatched, store, pipe, batch
<1>2. Types'
  BY <1>1, Zenon DEF IInv, Types
<1>3. Phases'
  BY <1>1, Zenon DEF IInv, Phases
<1> QED BY <1>1, <1>2, <1>3, Still, SameCount, SameIndex, Zenon DEF IInv

\* A removal takes the entry away, and the transaction from what its addresses list.
LEMMA RemoveMissingIInv == ASSUME IInv, RemoveMissing PROVE IInv'
<1>1. PICK tx \in Stored \ txs :
        /\ entries' = [entries EXCEPT ![tx] = {}]
        /\ index' = [a \in Addr |-> IF a \in entries[tx] THEN Without(index[a], tx) ELSE index[a]]
  BY Zenon DEF RemoveMissing
<1>2. UNCHANGED <<batchSize, pool, pc, txs, todo, dispatched, chanTx, chanAddrIndex, worker,
                  jobs, fetcher, results, failed>>
  BY Zenon DEF RemoveMissing, pipe, batch
<1>3. tx \in Tx /\ entries[tx] # {} /\ entries \in [Tx -> SUBSET Addr] /\ index \in [Addr -> Seq(Tx)]
  BY DEF Stored, IInv, Types
<1>4. /\ entries' \in [Tx -> SUBSET Addr] /\ entries'[tx] = {}
      /\ \A t \in Tx \ {tx} : entries'[t] = entries[t]
  BY <1>1, <1>3
<1>5. index' \in [Addr -> Seq(Tx)]
  <2>1. \A a \in Addr : Without(index[a], tx) \in Seq(Tx)
    BY <1>3, WithoutFacts, Zenon
  <2> QED BY <2>1, <1>1, <1>3, Zenon
<1>6. Types'
  BY <1>2, <1>4, <1>5, Zenon DEF IInv, Types
<1>7. Phases'
  BY <1>2, Zenon DEF IInv, Phases
<1>8. \A t, k, x, j : Holds(t, k, x, j)' => Holds(t, k, x, j)
  BY <1>2 DEF Holds
<1>9. Single' /\ Fresh'
  <2>1. Single'
    <3> SUFFICES ASSUME NEW t, NEW k, NEW x, NEW j, NEW k2, NEW x2, NEW j2,
                        Holds(t, k, x, j)', Holds(t, k2, x2, j2)'
                 PROVE  k = k2 /\ x = x2 /\ j = j2
      BY Zenon DEF Single
    <3> QED BY <1>8 DEF IInv, Single
  <2>2. Fresh'
    <3> SUFFICES ASSUME NEW t, NEW k, NEW x, NEW j, Holds(t, k, x, j)'
                 PROVE  t \in Tx /\ entries'[t] = {}
      BY Zenon DEF Fresh
    <3>1. t \in Tx /\ entries[t] = {}
      BY <1>8, Zenon DEF IInv, Fresh
    <3> QED BY <1>4, <3>1, Zenon
  <2> QED BY <2>1, <2>2
<1>10. IndexExact'
  <2> SUFFICES ASSUME NEW a \in Addr
               PROVE  IsInjective(index'[a]) /\ Range(index'[a]) = {t \in Tx : a \in entries'[t]}
    BY Zenon DEF IndexExact
  <2>1. IsInjective(index[a]) /\ Range(index[a]) = {t \in Tx : a \in entries[t]}
    BY Zenon DEF IInv, IndexExact
  <2>2. CASE a \in entries[tx]
    <3>1. index'[a] = Without(index[a], tx) /\ index[a] \in Seq(Tx)
      BY <2>2, <1>1, <1>3, Zenon
    <3>2. IsInjective(index'[a]) /\ Range(index'[a]) = Range(index[a]) \ {tx}
      BY <3>1, <2>1, WithoutFacts
    <3> QED BY <3>2, <2>1, <1>3, <1>4, Zenon
  <2>3. CASE a \notin entries[tx]
    BY <2>1, <2>3, <1>1, <1>3, <1>4, Zenon
  <2> QED BY <2>2, <2>3, Zenon
<1> QED BY <1>2, <1>6, <1>7, <1>9, <1>10, SameCount, Zenon DEF IInv

\* Resync returns.
LEMMA ReturnIInv == ASSUME IInv, Return PROVE IInv'
<1>1. /\ pc = "remove" /\ pc' = "idle" /\ txs' = {}
      /\ UNCHANGED <<batchSize, pool, entries, index, todo, dispatched, chanTx, chanAddrIndex, worker,
                     jobs, fetcher, results, failed>>
  BY Zenon DEF Return, store, pipe, batch
<1>2. Types'
  BY <1>1 DEF IInv, Types
<1>3. Phases'
  BY <1>1 DEF IInv, Phases
<1> QED BY <1>1, <1>2, <1>3, Still, SameCount, SameIndex, Zenon DEF IInv

-----------------------------------------------------------------------------
\* What the steps of resyncBatchedMissing share: the dispatch of single transactions is not touched.
LEMMA BatchIInv ==
  ASSUME IInv, UNCHANGED <<batchSize, pool, entries, index, txs, dispatched, chanTx, chanAddrIndex, worker>>,
         Types', Phases', Single', Fresh'
  PROVE  IInv'
BY SameCount, SameIndex, Zenon DEF IInv

\* A batch worker takes the next batch, or ends.
LEMMA TakeBatchIInv == ASSUME IInv, NEW f \in BatchWorker, TakeBatch(f) PROVE IInv'
<1>1. /\ fetcher[f].pc = "idle"
      /\ UNCHANGED <<batchSize, pool, entries, index, txs, dispatched, chanTx, chanAddrIndex, worker>>
      /\ UNCHANGED <<pc, todo, results, failed>>
  BY DEF TakeBatch, rest, store, pipe
<1>2. fetcher \in [BatchWorker -> FetcherState] /\ jobs \in Seq(Seq(Tx))
  BY Zenon DEF IInv, Types
<1>3. fetcher[f] = Idle /\ fetcher[f] # Done
  BY <1>1, <1>2, FetcherCases, Zenon
<1>4. ~(pc \in {"idle", "remove"} \/ batchSize = 1)
  BY <1>3, Zenon DEF IInv, Phases
<1>5. Phases'
  BY <1>1, <1>4, Zenon DEF IInv, Phases
<1>6. CASE /\ jobs # <<>>
           /\ fetcher' = [fetcher EXCEPT ![f] = [pc |-> "fetch", batch |-> Head(jobs)]]
           /\ jobs' = Tail(jobs)
  <2>1. /\ Len(jobs) >= 1 /\ Head(jobs) = jobs[1] /\ jobs[1] \in Seq(Tx)
        /\ jobs' \in Seq(Seq(Tx)) /\ Len(jobs') = Len(jobs) - 1
        /\ \A x \in 1..Len(jobs') : jobs'[x] = jobs[x + 1]
    BY <1>2, <1>6
  <2>2. /\ fetcher'[f] # Idle /\ fetcher'[f] # Done /\ fetcher'[f].batch = jobs[1]
        /\ \A g \in BatchWorker \ {f} : fetcher'[g] = fetcher[g]
    BY <1>2, <1>6, <2>1, Zenon DEF Idle, Done
  <2>3. fetcher' \in [BatchWorker -> FetcherState]
    BY <1>2, <1>6, <2>1, Zenon DEF FetcherState
  <2>4. Types'
    BY <1>1, <2>1, <2>3, Zenon DEF IInv, Types
  <2> DEFINE moved(k, x) == k = "fetcher" /\ x = f
             gx(k, x) == IF k = "job" THEN x + 1 ELSE x
  <2>5. ASSUME NEW tx, NEW k, NEW x, NEW j, Holds(tx, k, x, j)'
        PROVE  /\ k = "job" => x \in Nat /\ x >= 1
               /\ IF moved(k, x) THEN Holds(tx, "job", 1, j) ELSE Holds(tx, k, gx(k, x), j)
    <3>1. CASE moved(k, x)
      <4>1. j \in 1..Len(fetcher'[f].batch) /\ fetcher'[f].batch[j] = tx
        BY <3>1, <2>5, Zenon DEF Holds
      <4>2. 1 \in 1..Len(jobs) /\ j \in 1..Len(jobs[1]) /\ jobs[1][j] = tx
        BY <4>1, <2>1, <2>2, <1>2
      <4>3. Holds(tx, "job", 1, j)
        BY <4>2, Zenon DEF Holds
      <4> QED BY <4>3, <3>1, Zenon
    <3>2. CASE k = "job"
      <4>1. x \in 1..Len(jobs') /\ j \in 1..Len(jobs'[x]) /\ jobs'[x][j] = tx
        BY <3>2, <2>5, Zenon DEF Holds
      <4>2. x \in Nat /\ x >= 1 /\ x + 1 \in 1..Len(jobs) /\ jobs'[x] = jobs[x + 1]
        BY <4>1, <2>1, <1>2
      <4>3. Holds(tx, "job", x + 1, j)
        BY <4>1, <4>2, SMTT(30) DEF Holds
      <4> QED BY <3>2, <4>2, <4>3, Zenon
    <3>3. CASE ~moved(k, x) /\ k # "job"
      BY <3>3, <1>1, <2>2, <2>5, ZenonT(60) DEF Holds
    <3> QED BY <3>1, <3>2, <3>3, Zenon
  <2>6. Single'
    <3> SUFFICES ASSUME NEW tx, NEW k, NEW x, NEW j, NEW k2, NEW x2, NEW j2,
                        Holds(tx, k, x, j)', Holds(tx, k2, x2, j2)'
                 PROVE  k = k2 /\ x = x2 /\ j = j2
      BY DEF Single
    <3> QED BY <2>5 DEF IInv, Single
  <2>7. Fresh'
    <3> SUFFICES ASSUME NEW tx, NEW k, NEW x, NEW j, Holds(tx, k, x, j)'
                 PROVE  tx \in Tx /\ entries[tx] = {}
      BY <1>1, Zenon DEF Fresh
    <3>1. Holds(tx, "job", 1, j) \/ Holds(tx, k, gx(k, x), j)
      BY <2>5, Zenon
    <3> QED BY <3>1, Zenon DEF IInv, Fresh
  <2> QED BY <1>1, <1>5, <2>4, <2>6, <2>7, BatchIInv, Zenon
<1>7. CASE fetcher' = [fetcher EXCEPT ![f] = Done] /\ UNCHANGED jobs
  <2>1. fetcher'[f] = Done /\ \A g \in BatchWorker \ {f} : fetcher'[g] = fetcher[g]
    BY <1>2, <1>7, Zenon
  <2>2. Types'
    BY <1>1, <1>2, <1>7, Zenon DEF IInv, Types, FetcherState
  <2>3. \A tx, k, x, j : Holds(tx, k, x, j)' => Holds(tx, k, x, j)
    BY <1>1, <1>7, <2>1 DEF Holds
  <2>4. Single' /\ Fresh'
    BY <1>1, <2>3, Fewer, Zenon
  <2> QED BY <1>1, <1>5, <2>2, <2>4, BatchIInv, Zenon
<1> QED BY <1>6, <1>7, Zenon DEF TakeBatch

\* A batch worker fetches its batch or fails to; it keeps the batch.
LEMMA FetchedIInv ==
  ASSUME IInv, NEW f \in BatchWorker, NEW err \in BOOLEAN, Fetched(f, err),
         UNCHANGED <<batchSize, pool, entries, index, txs, dispatched, chanTx, chanAddrIndex, worker,
                     pc, todo, jobs, results, failed>>
  PROVE  IInv'
<1>1. /\ fetcher[f].pc = "fetch"
      /\ fetcher' = [fetcher EXCEPT ![f] = [pc |-> "result", batch |-> fetcher[f].batch, err |-> err]]
      /\ fetcher \in [BatchWorker -> FetcherState]
  BY Zenon DEF Fetched, IInv, Types
<1>2. fetcher[f] # Idle /\ fetcher[f] # Done /\ fetcher[f].batch \in Seq(Tx)
  BY <1>1, FetcherCases, Zenon
<1>3. /\ fetcher'[f] # Idle /\ fetcher'[f] # Done /\ fetcher'[f].batch = fetcher[f].batch
      /\ \A g \in BatchWorker \ {f} : fetcher'[g] = fetcher[g]
  BY <1>1, Zenon DEF Idle, Done
<1>4. fetcher' \in [BatchWorker -> FetcherState]
  BY <1>1, <1>2, Zenon DEF FetcherState
<1>5. Types'
  BY <1>4 DEF IInv, Types
<1>6. Phases'
  BY <1>2, ZenonT(30) DEF IInv, Phases
<1>7. \A tx, k, x, j : Holds(tx, k, x, j)' => Holds(tx, k, x, j)
  BY <1>2, <1>3 DEF Holds
<1>8. Single' /\ Fresh'
  BY <1>7, Fewer, Zenon
<1> QED BY <1>5, <1>6, <1>8, BatchIInv, Zenon

\* A batch worker sends its result, or drops it when the context is cancelled.
LEMMA SendResultIInv == ASSUME IInv, NEW f \in BatchWorker, SendResult(f) PROVE IInv'
<1>1. /\ fetcher[f].pc = "result"
      /\ UNCHANGED <<batchSize, pool, entries, index, txs, dispatched, chanTx, chanAddrIndex, worker>>
      /\ UNCHANGED <<pc, todo, jobs, failed>>
  BY DEF SendResult, rest, store, pipe
<1>2. /\ fetcher \in [BatchWorker -> FetcherState]
      /\ results \in Seq([batch : Seq(Tx), err : BOOLEAN])
  BY Zenon DEF IInv, Types
<1>3. /\ fetcher[f] # Idle /\ fetcher[f] # Done
      /\ fetcher[f].batch \in Seq(Tx) /\ fetcher[f].err \in BOOLEAN
  BY <1>1, <1>2, FetcherCases, Zenon
<1>4. ~(pc \in {"idle", "remove"} \/ batchSize = 1)
  BY <1>3, Zenon DEF IInv, Phases
<1>5. Phases'
  BY <1>1, <1>4, Zenon DEF IInv, Phases
<1> DEFINE r == [batch |-> fetcher[f].batch, err |-> fetcher[f].err]
<1>6. CASE /\ results' = Append(results, r)
           /\ fetcher' = [fetcher EXCEPT ![f] = IF fetcher[f].err THEN Done ELSE Idle]
  <2>1. r \in [batch : Seq(Tx), err : BOOLEAN] /\ r.batch = fetcher[f].batch
    BY <1>3, Zenon
  <2> HIDE DEF r
  <2>2. /\ results' \in Seq([batch : Seq(Tx), err : BOOLEAN]) /\ Len(results') = Len(results) + 1
        /\ results'[Len(results) + 1] = r /\ \A x \in 1..Len(results) : results'[x] = results[x]
    BY <1>2, <1>6, <2>1
  <2>3. fetcher'[f] \in {Idle, Done} /\ \A g \in BatchWorker \ {f} : fetcher'[g] = fetcher[g]
    BY <1>2, <1>6, Zenon
  <2>4. fetcher' \in [BatchWorker -> FetcherState]
    BY <1>2, <1>6, Zenon DEF FetcherState
  <2>5. Types'
    BY <1>1, <2>2, <2>4, Zenon DEF IInv, Types
  <2> DEFINE n == Len(results) + 1
             moved(k, x) == k = "result" /\ x = n
  <2>6. ASSUME NEW tx, NEW k, NEW x, NEW j, Holds(tx, k, x, j)'
        PROVE  /\ ~(k = "fetcher" /\ x = f)
               /\ IF moved(k, x) THEN Holds(tx, "fetcher", f, j) ELSE Holds(tx, k, x, j)
    <3>1. CASE moved(k, x)
      <4>1. j \in 1..Len(results'[n].batch) /\ results'[n].batch[j] = tx
        BY <3>1, <2>6, Zenon DEF Holds
      <4>2. j \in 1..Len(fetcher[f].batch) /\ fetcher[f].batch[j] = tx
        BY <4>1, <2>1, <2>2, Zenon
      <4>3. Holds(tx, "fetcher", f, j)
        BY <4>2, <1>3, Zenon DEF Holds
      <4> QED BY <4>3, <3>1, Zenon
    <3>2. CASE k = "result" /\ x # n
      <4>1. x \in 1..Len(results') /\ j \in 1..Len(results'[x].batch) /\ results'[x].batch[j] = tx
        BY <3>2, <2>6, Zenon DEF Holds
      <4>2. x \in 1..Len(results) /\ results'[x] = results[x]
        BY <4>1, <3>2, <2>2, <1>2
      <4>3. Holds(tx, "result", x, j)
        BY <4>1, <4>2, Zenon DEF Holds
      <4> QED BY <4>3, <3>2, Zenon
    <3>3. CASE k # "result"
      BY <3>3, <1>1, <2>3, <2>6, Zenon DEF Holds
    <3> QED BY <3>1, <3>2, <3>3, Zenon
  <2>7. Single'
    <3> SUFFICES ASSUME NEW tx, NEW k, NEW x, NEW j, NEW k2, NEW x2, NEW j2,
                        Holds(tx, k, x, j)', Holds(tx, k2, x2, j2)'
                 PROVE  k = k2 /\ x = x2 /\ j = j2
      BY DEF Single
    <3> QED BY <2>6 DEF IInv, Single
  <2>8. Fresh'
    <3> SUFFICES ASSUME NEW tx, NEW k, NEW x, NEW j, Holds(tx, k, x, j)'
                 PROVE  tx \in Tx /\ entries[tx] = {}
      BY <1>1, Zenon DEF Fresh
    <3>1. Holds(tx, "fetcher", f, j) \/ Holds(tx, k, x, j)
      BY <2>6
    <3> QED BY <3>1, Zenon DEF IInv, Fresh
  <2> QED BY <1>1, <1>5, <2>5, <2>7, <2>8, BatchIInv, Zenon
<1>7. CASE fetcher' = [fetcher EXCEPT ![f] = Done] /\ UNCHANGED results
  <2>1. fetcher'[f] = Done /\ \A g \in BatchWorker \ {f} : fetcher'[g] = fetcher[g]
    BY <1>2, <1>7, SMTT(30)
  <2>2. Types'
    BY <1>1, <1>2, <1>7, ZenonT(60) DEF IInv, Types, FetcherState
  <2>3. \A tx, k, x, j : Holds(tx, k, x, j)' => Holds(tx, k, x, j)
    BY <1>1, <1>7, <2>1 DEF Holds
  <2>4. Single' /\ Fresh'
    BY <1>1, <2>3, Fewer, Zenon
  <2> QED BY <1>1, <1>5, <2>2, <2>4, BatchIInv, Zenon
<1> QED BY <1>6, <1>7, Zenon DEF SendResult

\* The batch of a result is dispatched; after an error results are dropped.
LEMMA TakeResultIInv == ASSUME IInv, TakeResult PROVE IInv'
<1> DEFINE r == Head(results)
<1>1. /\ pc = "batches" /\ results # <<>> /\ results' = Tail(results)
      /\ UNCHANGED <<batchSize, pool, entries, index, txs, dispatched, chanTx, chanAddrIndex, worker>>
      /\ UNCHANGED <<jobs, fetcher>>
      /\ IF r.err \/ failed THEN failed' = TRUE /\ UNCHANGED <<pc, todo>>
         ELSE pc' = "dispatch" /\ todo' = r.batch /\ UNCHANGED failed
  BY SMTT(30) DEF TakeResult, rest, store, pipe
<1>2. results \in Seq([batch : Seq(Tx), err : BOOLEAN]) /\ failed \in BOOLEAN /\ todo = <<>>
  BY <1>1 DEF IInv, Types, Phases
<1>3. /\ Len(results) >= 1 /\ r = results[1] /\ r \in [batch : Seq(Tx), err : BOOLEAN]
      /\ results' \in Seq([batch : Seq(Tx), err : BOOLEAN]) /\ Len(results') = Len(results) - 1
      /\ \A x \in 1..Len(results') : results'[x] = results[x + 1]
  BY <1>1, <1>2, TakeFirst, Zenon
<1> HIDE DEF r
<1>4. batchSize # 1
  BY <1>1 DEF IInv, Phases
<1>5. Types'
  BY <1>1, <1>2, <1>3, Zenon DEF IInv, Types
<1>6. Phases'
  BY <1>1, <1>2, <1>4, Zenon DEF IInv, Phases
<1> DEFINE gx(k, x) == IF k = "result" THEN x + 1 ELSE x
<1>7. ASSUME NEW tx, NEW k, NEW x, NEW j, Holds(tx, k, x, j)'
      PROVE  /\ k = "todo" => x = 0
             /\ k = "result" => x \in Nat /\ x >= 1
             /\ IF k = "todo" THEN Holds(tx, "result", 1, j) ELSE Holds(tx, k, gx(k, x), j)
  <2>1. CASE k = "todo"
    <3>1. x = 0 /\ todo' = r.batch /\ j \in 1..Len(todo') /\ todo'[j] = tx
      BY <2>1, <1>1, <1>2, <1>7 DEF Holds
    <3>2. 1 \in 1..Len(results) /\ j \in 1..Len(results[1].batch) /\ results[1].batch[j] = tx
      BY <3>1, <1>2, <1>3, SMTT(30)
    <3>3. Holds(tx, "result", 1, j)
      BY <3>2, Zenon DEF Holds
    <3> QED BY <3>1, <3>3, <2>1, Zenon
  <2>2. CASE k = "result"
    <3>1. x \in 1..Len(results') /\ j \in 1..Len(results'[x].batch) /\ results'[x].batch[j] = tx
      BY <2>2, <1>7, Zenon DEF Holds
    <3>2. x \in Nat /\ x >= 1 /\ x + 1 \in 1..Len(results) /\ results'[x] = results[x + 1]
      BY <3>1, <1>2, <1>3
    <3>3. Holds(tx, "result", x + 1, j)
      BY <3>1, <3>2 DEF Holds
    <3> QED BY <2>2, <3>2, <3>3, Zenon
  <2>3. CASE k # "todo" /\ k # "result"
    BY <2>3, <1>1, <1>7, Zenon DEF Holds
  <2> QED BY <2>1, <2>2, <2>3, Zenon
<1>8. Single'
  <2> SUFFICES ASSUME NEW tx, NEW k, NEW x, NEW j, NEW k2, NEW x2, NEW j2,
                      Holds(tx, k, x, j)', Holds(tx, k2, x2, j2)'
               PROVE  k = k2 /\ x = x2 /\ j = j2
    BY DEF Single
  <2> QED BY <1>7 DEF IInv, Single
<1>9. Fresh'
  <2> SUFFICES ASSUME NEW tx, NEW k, NEW x, NEW j, Holds(tx, k, x, j)'
               PROVE  tx \in Tx /\ entries[tx] = {}
    BY <1>1, Zenon DEF Fresh
  <2>1. Holds(tx, "result", 1, j) \/ Holds(tx, k, gx(k, x), j)
    BY <1>7, Zenon
  <2> QED BY <2>1, Zenon DEF IInv, Fresh
<1> QED BY <1>1, <1>5, <1>6, <1>8, <1>9, BatchIInv, SMTT(30)

\* batchResults is closed: every batch worker has ended, and batches not taken are given up.
LEMMA BatchedIInv == ASSUME IInv, Batched PROVE IInv'
<1>1. /\ pc = "batches" /\ results = <<>> /\ \A f \in BatchWorker : fetcher[f] = Done
      /\ pc' = (IF failed THEN "idle" ELSE "remove") /\ jobs' = <<>>
      /\ UNCHANGED <<batchSize, pool, entries, index, txs, dispatched, chanTx, chanAddrIndex, worker>>
      /\ UNCHANGED <<todo, fetcher, results, failed>>
  BY Zenon DEF Batched, rest, store, pipe
<1>2. Types'
  BY <1>1 DEF IInv, Types
<1>3. Phases'
  BY <1>1, Zenon DEF IInv, Phases
<1>4. \A tx, k, x, j : Holds(tx, k, x, j)' => Holds(tx, k, x, j)
  BY <1>1 DEF Holds
<1>5. Single' /\ Fresh'
  BY <1>1, <1>4, Fewer, Zenon
<1> QED BY <1>1, <1>2, <1>3, <1>5, BatchIInv, Zenon

\* When dispatched is 0 the channels are empty and the workers idle.
LEMMA NothingOnItsWay ==
  ASSUME IInv, dispatched = 0
  PROVE  chanTx = <<>> /\ chanAddrIndex = <<>> /\ \A w \in TxWorker : worker[w] = Idle
<1>1. IsFiniteSet(BusyWorkers)
  BY PoolAssumption, FS_Subset DEF BusyWorkers
<1>2. Cardinality(BusyWorkers) \in Nat
  BY <1>1, FS_CardinalityType, Zenon
<1>3. Len(chanTx) = 0 /\ Cardinality(BusyWorkers) = 0 /\ Len(chanAddrIndex) = 0
  BY <1>2 DEF IInv, Types, Counted
<1>4. BusyWorkers = {}
  BY <1>1, <1>3, FS_EmptySet
<1> QED BY <1>3, <1>4 DEF BusyWorkers, IInv, Types

\* A new Resync finds every place empty, and lists each missing transaction once.
LEMMA ResyncIInv == ASSUME IInv, Resync PROVE IInv'
<1> DEFINE missing == Listed(pool \ Stored)
<1>1. /\ pc = "idle" /\ txs' = pool /\ failed' = FALSE
      /\ IF batchSize = 1 \/ missing = <<>>
         THEN pc' = "dispatch" /\ todo' = missing /\ UNCHANGED <<jobs, fetcher>>
         ELSE /\ pc' = "batches" /\ jobs' = Batches(missing) /\ UNCHANGED todo
              /\ fetcher' = [f \in BatchWorker |-> Idle]
      /\ UNCHANGED <<batchSize, pool, entries, index, dispatched, chanTx, chanAddrIndex, worker, results>>
  BY Zenon DEF Resync, store, pipe
<1>2. /\ todo = <<>> /\ dispatched = 0 /\ jobs = <<>> /\ results = <<>>
      /\ \A f \in BatchWorker : fetcher[f] = Done
  BY <1>1 DEF IInv, Phases
<1>3. chanTx = <<>> /\ chanAddrIndex = <<>> /\ \A w \in TxWorker : worker[w] = Idle
  BY <1>2, NothingOnItsWay, Zenon
<1>4. pool \ Stored \in SUBSET Tx /\ \A t \in pool \ Stored : entries[t] = {}
  BY DEF IInv, Types, Stored
<1>5. /\ missing \in Seq(pool \ Stored)
      /\ \A i, j \in 1..Len(missing) : missing[i] = missing[j] => i = j
  BY <1>4, ListedFacts, Zenon
<1> HIDE DEF missing
<1>6. missing \in Seq(Tx) /\ \A i \in 1..Len(missing) : missing[i] \in Tx /\ entries[missing[i]] = {}
  <2>1. missing \in Seq(Tx)
    BY <1>4, <1>5
  <2>2. \A i \in 1..Len(missing) : missing[i] \in pool \ Stored
    BY <1>5
  <2> QED BY <1>4, <2>1, <2>2, Zenon
<1>7. batchSize \in Nat \ {0}
  BY Zenon DEF IInv, Types
<1>8. CASE batchSize = 1 \/ missing = <<>>
  <2>1. Types'
    BY <1>1, <1>6, <1>8, Zenon DEF IInv, Types
  <2>2. Phases'
    BY <1>1, <1>2, <1>8, Zenon DEF Phases
  <2>3. ASSUME NEW tx, NEW k, NEW x, NEW j, Holds(tx, k, x, j)'
        PROVE  k = "todo" /\ x = 0 /\ j \in 1..Len(missing) /\ missing[j] = tx
    BY <1>1, <1>2, <1>3, <1>8, <2>3 DEF Holds
  <2>4. Single'
    <3> SUFFICES ASSUME NEW tx, NEW k, NEW x, NEW j, NEW k2, NEW x2, NEW j2,
                        Holds(tx, k, x, j)', Holds(tx, k2, x2, j2)'
                 PROVE  k = k2 /\ x = x2 /\ j = j2
      BY DEF Single
    <3> QED BY <2>3, <1>5, SMTT(30)
  <2>5. Fresh'
    BY <1>1, <1>6, <2>3 DEF Fresh
  <2> QED BY <1>1, <2>1, <2>2, <2>4, <2>5, SameCount, SameIndex, Zenon DEF IInv
<1>9. CASE ~(batchSize = 1 \/ missing = <<>>)
  <2> DEFINE b == Batches(missing)
  <2>1. /\ b \in Seq(Seq(Tx))
        /\ \A i \in 1..Len(b) : \A j \in 1..Len(b[i]) :
             /\ (i - 1) * batchSize + j \in 1..Len(missing)
             /\ b[i][j] = missing[(i - 1) * batchSize + j]
    BY <1>6, <1>7, BatchesFacts, Zenon
  <2>2. \A i \in 1..Len(b) : \A j \in 1..Len(b[i]) : \A k \in 1..Len(b) : \A l \in 1..Len(b[k]) :
          b[i][j] = b[k][l] => i = k /\ j = l
    BY <1>5, <1>6, <1>7, BatchesApart, Zenon
  <2>3. jobs' = b
    BY <1>1, <1>9
  <2> HIDE DEF b
  <2>4. Types'
    BY <1>1, <1>9, <2>1, <2>3, Zenon DEF IInv, Types, FetcherState
  <2>5. Phases'
    BY <1>1, <1>2, <1>9, Zenon DEF Phases
  <2>6. ASSUME NEW tx, NEW k, NEW x, NEW j, Holds(tx, k, x, j)'
        PROVE  k = "job" /\ x \in 1..Len(b) /\ j \in 1..Len(b[x]) /\ b[x][j] = tx
    BY <1>1, <1>2, <1>3, <1>9, <2>3, <2>6, SMTT(30) DEF Holds
  <2>7. Single'
    <3> SUFFICES ASSUME NEW tx, NEW k, NEW x, NEW j, NEW k2, NEW x2, NEW j2,
                        Holds(tx, k, x, j)', Holds(tx, k2, x2, j2)'
                 PROVE  k = k2 /\ x = x2 /\ j = j2
      BY DEF Single
    <3>1. /\ k = "job" /\ x \in 1..Len(b) /\ j \in 1..Len(b[x]) /\ b[x][j] = tx
          /\ k2 = "job" /\ x2 \in 1..Len(b) /\ j2 \in 1..Len(b[x2]) /\ b[x2][j2] = tx
      BY <2>6
    <3> QED BY <3>1, <2>2, Zenon
  <2>8. Fresh'
    <3> SUFFICES ASSUME NEW tx, NEW k, NEW x, NEW j, Holds(tx, k, x, j)'
                 PROVE  tx \in Tx /\ entries[tx] = {}
      BY <1>1, Zenon DEF Fresh
    <3>1. x \in 1..Len(b) /\ j \in 1..Len(b[x]) /\ b[x][j] = tx
      BY <2>6, Zenon
    <3>2. (x - 1) * batchSize + j \in 1..Len(missing) /\ tx = missing[(x - 1) * batchSize + j]
      BY <3>1, <2>1, Zenon
    <3> QED BY <3>2, <1>6, Zenon
  <2> QED BY <1>1, <2>4, <2>5, <2>7, <2>8, SameCount, SameIndex DEF IInv
<1> QED BY <1>8, <1>9, Zenon

-----------------------------------------------------------------------------
\* Every step keeps the invariant.
LEMMA NextIInv == IInv /\ [Next]_vars => IInv'
<1> SUFFICES ASSUME IInv, [Next]_vars PROVE IInv'
  OBVIOUS
<1>1. CASE Change
  BY <1>1, ChangeIInv, Zenon
<1>2. CASE Main
  BY <1>2, ResyncIInv, SendTxIInv, NewEntryIInv, DispatchedIInv, RemoveMissingIInv, ReturnIInv, Zenon,
     TakeResultIInv, BatchedIInv DEF Main
<1>3. ASSUME NEW w \in TxWorker, getTxAddrs(w) \/ getTxAddrsError(w) PROVE IInv'
  <2>1. worker[w].pc = "work" /\ worker[w] \in WorkerState
    BY <1>3, Zenon DEF getTxAddrs, getTxAddrsError, IInv, Types
  <2>2. worker[w].tx \in Tx
    BY <2>1, WorkerCases, Zenon
  <2>3. Outputs[worker[w].tx] \in SUBSET Addr /\ Inputs[worker[w].tx] \in SUBSET Addr
    BY <2>2, PoolAssumption
  <2>4. \E io \in SUBSET Addr : Answer(w, io)
    <3>1. CASE getTxAddrs(w)
      BY <3>1, <2>3, Zenon DEF getTxAddrs
    <3>2. CASE getTxAddrsError(w)
      BY <3>2, <2>3, Zenon DEF getTxAddrsError
    <3> QED BY <1>3, <3>1, <3>2, Zenon
  <2>5. UNCHANGED <<batchSize, pool, entries, index, pc, txs, todo, dispatched, chanTx, chanAddrIndex,
                    jobs, fetcher, results, failed>>
    BY <1>3, Zenon DEF getTxAddrs, getTxAddrsError, store, batch
  <2> QED BY <2>1, <2>4, <2>5, AnswerIInv, Zenon
<1>4. ASSUME NEW f \in BatchWorker, FetchBatch(f) \/ FetchError(f) PROVE IInv'
  <2>1. \E err \in BOOLEAN : Fetched(f, err)
    BY <1>4, Zenon DEF FetchBatch, FetchError
  <2>2. UNCHANGED <<batchSize, pool, entries, index, txs, dispatched, chanTx, chanAddrIndex, worker,
                    pc, todo, jobs, results, failed>>
    BY <1>4, Zenon DEF FetchBatch, FetchError, rest, store, pipe
  <2> QED BY <2>1, <2>2, FetchedIInv
<1>5. ASSUME NEW w \in TxWorker, Worker(w) PROVE IInv'
  BY <1>3, <1>5, TakeTxIInv, SendAddrsIInv, Zenon DEF Worker
<1>6. ASSUME NEW f \in BatchWorker, Fetcher(f) PROVE IInv'
  BY <1>4, <1>6, TakeBatchIInv, SendResultIInv, Zenon DEF Fetcher
<1>7. CASE UNCHANGED vars
  <2>1. UNCHANGED <<batchSize, pool, entries, index, pc, txs, todo, dispatched, chanTx, chanAddrIndex, worker,
                    jobs, fetcher, results, failed>>
    BY <1>7, Zenon DEF vars
  <2>2. Types' /\ Phases'
    BY <2>1 DEF IInv, Types, Phases
  <2> QED BY <2>1, <2>2, Still, SameCount, SameIndex, Zenon DEF IInv
<1> QED BY <1>1, <1>2, <1>5, <1>6, <1>7, Zenon DEF Next

\* Readers of the mempool always find an address listing exactly the transactions that have it, each once,
\* whatever Resync, its workers and its batch workers are doing.
THEOREM IndexExactCorrect == FairSpec => []IndexExact
<1>1. IInv => IndexExact
  BY Zenon DEF IInv
<1> QED BY <1>1, InitIInv, NextIInv, PTL DEF FairSpec

\* A Resync leaves nothing in the channels, the workers and the batch workers for the next one to take for its own.
THEOREM DrainedCorrect == FairSpec => []Drained
<1>1. IInv => Drained
  BY NothingOnItsWay DEF IInv, Phases, Drained
<1> QED BY <1>1, InitIInv, NextIInv, PTL DEF FairSpec

\* An entry goes away only in the removals of a Resync that did not fail, and only if the backend did not list it.
THEOREM ListedStaysCorrect == FairSpec => ListedStays
<1>1. IInv /\ [Next]_vars =>
        [\A tx \in Stored : entries'[tx] = {} => pc = "remove" /\ ~failed /\ tx \notin txs]_vars
  <2> SUFFICES ASSUME IInv, [Next]_vars, vars' # vars,
                      NEW tx \in Stored, entries'[tx] = {}
               PROVE  pc = "remove" /\ ~failed /\ tx \notin txs
    BY Zenon DEF Stored, IInv
  <2>1. tx \in Tx /\ entries[tx] # {} /\ entries \in [Tx -> SUBSET Addr]
    BY Zenon DEF Stored, IInv, Types
  <2>2. CASE RemoveMissing
    <3>1. pc = "remove" /\ ~failed
      BY <2>2, Zenon DEF RemoveMissing, IInv, Phases
    <3>2. tx \notin txs
      BY <2>1, <2>2 DEF RemoveMissing
    <3> QED BY <3>1, <3>2, Zenon
  <2>3. CASE onNewEntry
    BY <2>1, <2>3, Zenon DEF onNewEntry
  <2>4. CASE UNCHANGED entries
    BY <2>1, <2>4
  <2>5. RemoveMissing \/ onNewEntry \/ UNCHANGED entries
    BY Zenon DEF Next, Main, Worker, Fetcher, vars, Change, Resync, SendTx, Dispatched, Return, TakeResult, Batched,
           TakeTx, getTxAddrs, getTxAddrsError, SendAddrs, TakeBatch, FetchBatch, FetchError, SendResult,
           rest, store
  <2> QED BY <2>2, <2>3, <2>4, <2>5, Zenon
<1> QED BY <1>1, InitIInv, NextIInv, PTL DEF FairSpec, ListedStays
=============================================================================
