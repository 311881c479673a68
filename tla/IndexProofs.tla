---------------------------- MODULE IndexProofs ----------------------------
(***************************************************************************)
(* Theorems about what the program keeps in memory beside the database:    *)
(* the times of the blocks (BlockTimes), provided no block is disconnected *)
(* while a loader runs, and the mempool of Ethereum-type coins with its    *)
(* concurrent adders (MempoolEthereum).                                    *)
(***************************************************************************)
EXTENDS BlockTimes, MempoolEthereum, WellFoundedInduction, TLAPS

-----------------------------------------------------------------------------
\* The times of the blocks (internalstate.go).

States == {Idle, Started} \cup {Loaded(s) : s \in Seq(Time)}

Types ==
  /\ heights \in Seq(Time) /\ times \in Seq(Time)
  /\ loader \in [Loader -> States]

\* The loader will still write the time of element i.
Covers(l, i) ==
  \/ loader[l].at = "started"
  \/ loader[l].at = "loaded" /\ i <= Len(loader[l].blockTimes)

\* What a loader holds is a prefix of the column.
Prefix ==
  \A l \in Loader : loader[l].at = "loaded" =>
    /\ Len(loader[l].blockTimes) <= Len(heights)
    /\ \A i \in 1..Len(loader[l].blockTimes) : loader[l].blockTimes[i] = heights[i]

Settled(i) == i <= Len(times) /\ times[i] = heights[i]

\* A time that is missing or wrong will be written by a loader.
Pending ==
  \A i \in 1..Len(heights) : Settled(i) \/ \E l \in Loader : Covers(l, i)

IInv == Types /\ Prefix /\ Len(times) <= Len(heights) /\ Pending

-----------------------------------------------------------------------------
\* The state of a loader is one of three, told apart by its field at.
LEMMA StateCases ==
  ASSUME NEW x \in States
  PROVE  \/ x = Idle /\ x.at = "idle"
         \/ x = Started /\ x.at = "started"
         \/ x.at = "loaded" /\ x.blockTimes \in Seq(Time) /\ x = Loaded(x.blockTimes)
BY DEF States, Idle, Started, Loaded

\* SetBlockTime of common/internalstate.go keeps a sequence of times and settles
\* element i, touching no other one that was there.
LEMMA SetBlockTimeFacts ==
  ASSUME NEW s \in Seq(Time), NEW n \in Nat, Len(s) <= n, NEW time \in Time
  PROVE  /\ SetBlockTime(s, n + 1, time) \in Seq(Time)
         /\ Len(SetBlockTime(s, n + 1, time)) = n + 1
         /\ SetBlockTime(s, n + 1, time)[n + 1] = time
         /\ \A k \in 1..Len(s) : SetBlockTime(s, n + 1, time)[k] = s[k]
<1> DEFINE ext == [k \in 1..(n + 1 - Len(s)) |-> time]
<1>1. ext \in Seq(Time) /\ Len(ext) = n + 1 - Len(s)
  OBVIOUS
<1>2. \A k \in 1..Len(ext) : ext[k] = time
  BY <1>1
<1>3. SetBlockTime(s, n + 1, time) = s \o ext
  BY DEF SetBlockTime
<1> HIDE DEF ext
<1>4. s \o ext \in Seq(Time) /\ Len(s \o ext) = n + 1
  BY <1>1
<1>5. \A k \in 1..Len(s) : (s \o ext)[k] = s[k]
  BY <1>1
<1>6. (s \o ext)[n + 1] = time
  <2>1. (s \o ext)[n + 1] = ext[n + 1 - Len(s)]
    BY <1>1
  <2>2. n + 1 - Len(s) \in 1..Len(ext)
    BY <1>1
  <2> QED BY <2>1, <2>2, <1>2
<1> QED BY <1>3, <1>4, <1>5, <1>6, Zenon

\* With no loader alive the memory is the column: the meaning of Pending.
LEMMA SettledAll ==
  ASSUME IInv, NoLoader
  PROVE  times = heights
<1>1. \A i \in 1..Len(heights) : Settled(i)
  BY DEF IInv, Pending, Covers, NoLoader, Idle
<1>2. Len(times) = Len(heights)
  <2>1. CASE Len(heights) = 0
    BY <2>1 DEF IInv, Types
  <2>2. CASE Len(heights) # 0
    <3>1. Len(heights) \in 1..Len(heights)
      BY <2>2 DEF IInv, Types
    <3> QED BY <1>1, <3>1 DEF Settled, IInv, Types
  <2> QED BY <2>1, <2>2
<1> QED BY <1>1, <1>2 DEF Settled, IInv, Types

\* A process starts with one loader and no times.
LEMMA InitIInv == TimesInit => IInv
<1> SUFFICES ASSUME TimesInit PROVE IInv
  OBVIOUS
<1>1. heights \in Seq(Time)
  BY DEF TimesInit, UpTo
<1>2. PICK l \in Loader : loader = [k \in Loader |-> IF k = l THEN Started ELSE Idle]
  BY DEF TimesInit
<1>3. Types
  BY <1>1, <1>2 DEF Types, TimesInit, States
<1>4. Prefix
  BY <1>2 DEF Prefix, Idle, Started
<1>5. Pending
  BY <1>2 DEF Pending, Covers, Started
<1> QED BY <1>1, <1>3, <1>4, <1>5 DEF IInv, TimesInit

-----------------------------------------------------------------------------
\* ConnectBlock of db/rocksdb.go: the array grows to the new height.
LEMMA ConnectIInv == ASSUME IInv, ConnectBlock PROVE IInv'
<1>1. PICK time \in Time :
        /\ heights' = Append(heights, time)
        /\ times' = SetBlockTime(times, Len(heights) + 1, time)
        /\ loader' = loader
  BY DEF ConnectBlock
<1> DEFINE n == Len(heights)
<1>2. heights \in Seq(Time) /\ times \in Seq(Time) /\ n \in Nat /\ Len(times) <= n
  BY DEF IInv, Types
<1>3. /\ times' \in Seq(Time) /\ Len(times') = n + 1 /\ times'[n + 1] = time
      /\ \A k \in 1..Len(times) : times'[k] = times[k]
  BY <1>1, <1>2, SetBlockTimeFacts
<1>4. /\ heights' \in Seq(Time) /\ Len(heights') = n + 1 /\ heights'[n + 1] = time
      /\ \A k \in 1..n : heights'[k] = heights[k]
  BY <1>1, <1>2
<1>5. Types'
  BY <1>1, <1>3, <1>4 DEF IInv, Types
<1>6. Prefix'
  <2> SUFFICES ASSUME NEW l \in Loader, loader[l].at = "loaded"
               PROVE  /\ Len(loader[l].blockTimes) <= Len(heights')
                      /\ \A i \in 1..Len(loader[l].blockTimes) :
                           loader[l].blockTimes[i] = heights'[i]
    BY <1>1 DEF Prefix
  <2>1. loader[l].blockTimes \in Seq(Time)
    BY StateCases DEF IInv, Types
  <2> QED BY <2>1, <1>2, <1>4 DEF IInv, Prefix
<1>7. Pending'
  <2> SUFFICES ASSUME NEW i \in 1..(n + 1)
               PROVE  Settled(i)' \/ \E l \in Loader : Covers(l, i)'
    BY <1>4 DEF Pending
  <2>1. CASE i = n + 1
    BY <2>1, <1>2, <1>3, <1>4 DEF Settled
  <2>2. CASE i \in 1..n /\ Settled(i)
    BY <2>2, <1>2, <1>3, <1>4 DEF Settled
  <2>3. CASE i \in 1..n /\ ~Settled(i)
    BY <2>3, <1>1 DEF IInv, Pending, Covers
  <2> QED BY <2>1, <2>2, <2>3, <1>2
<1> QED BY <1>2, <1>3, <1>4, <1>5, <1>6, <1>7 DEF IInv

\* A bulk round of db/bulkconnect.go leaves its heights to the loader of its Close.
LEMMA BulkIInv == ASSUME IInv, BulkConnect PROVE IInv'
<1>1. PICK new \in Seq(Time) : heights' = heights \o new
  <2>1. PICK new \in UpTo(Time, MaxHeight - Len(heights)) : heights' = heights \o new
    BY Zenon DEF BulkConnect
  <2>2. new \in Seq(Time)
    <3>1. PICK m \in 0..(MaxHeight - Len(heights)) : new \in [1..m -> Time]
      BY <2>1 DEF UpTo
    <3>2. m \in Nat
      BY <3>1, TimesAssumption DEF IInv, Types
    <3> QED BY <3>1, <3>2
  <2> QED BY <2>1, <2>2, Zenon
<1>2. PICK l \in Loader : loader' = [loader EXCEPT ![l] = Started]
  BY Zenon DEF BulkConnect
<1>3. times' = times
  BY DEF BulkConnect
<1>4. heights \in Seq(Time) /\ times \in Seq(Time) /\ loader \in [Loader -> States]
  BY DEF IInv, Types
<1>5. /\ heights' \in Seq(Time) /\ Len(heights') >= Len(heights)
      /\ \A k \in 1..Len(heights) : heights'[k] = heights[k]
  BY <1>1, <1>4
<1>6. Types'
  BY <1>2, <1>3, <1>4, <1>5 DEF Types, States
<1>7. Prefix'
  <2> SUFFICES ASSUME NEW k \in Loader, loader'[k].at = "loaded"
               PROVE  /\ Len(loader'[k].blockTimes) <= Len(heights')
                      /\ \A i \in 1..Len(loader'[k].blockTimes) :
                           loader'[k].blockTimes[i] = heights'[i]
    BY DEF Prefix
  <2>1. loader'[k] = loader[k]
    BY <1>2, <1>4 DEF Started
  <2>2. loader[k].blockTimes \in Seq(Time)
    BY <2>1, <1>4, StateCases
  <2> QED BY <2>1, <2>2, <1>4, <1>5 DEF IInv, Prefix
<1>8. Pending'
  <2>1. \A i : Covers(l, i)'
    BY <1>2, <1>4 DEF Covers, Started
  <2> QED BY <2>1 DEF Pending
<1>9. Len(times') <= Len(heights')
  BY <1>3, <1>4, <1>5 DEF IInv
<1> QED BY <1>6, <1>7, <1>8, <1>9 DEF IInv

\* Disconnecting blocks when no loader runs shortens two equal sequences.
LEMMA DisconnectIInv ==
  ASSUME IInv, DisconnectBlockRange, LateReorg = FALSE
  PROVE  IInv'
<1>1. NoLoader /\ loader' = loader
  BY DEF DisconnectBlockRange
<1>2. times = heights
  BY <1>1, SettledAll
<1>3. heights \in Seq(Time) /\ loader \in [Loader -> States]
  BY DEF IInv, Types
<1>4. PICK count \in 1..Len(heights) :
        /\ heights' = SubSeq(heights, 1, Len(heights) - count)
        /\ times' = RemoveLastBlockTimes(times, count)
  BY DEF DisconnectBlockRange
<1>5. times' = heights'
  BY <1>2, <1>3, <1>4 DEF RemoveLastBlockTimes
<1>6. heights' \in Seq(Time)
  BY <1>3, <1>4
<1>7. Types' /\ Len(times') <= Len(heights')
  BY <1>1, <1>3, <1>5, <1>6 DEF Types
<1>8. Prefix'
  BY <1>1 DEF Prefix, NoLoader, Idle
<1>9. Pending'
  BY <1>5, <1>6 DEF Pending, Settled
<1> QED BY <1>7, <1>8, <1>9 DEF IInv

\* The iterator of loadBlockTimes holds the whole column.
LEMMA LoadIInv == ASSUME IInv, NEW l \in Loader, loadBlockTimes(l) PROVE IInv'
<1>1. /\ loader' = [loader EXCEPT ![l] = Loaded(heights)]
      /\ heights' = heights /\ times' = times
  BY DEF loadBlockTimes
<1>2. heights \in Seq(Time) /\ times \in Seq(Time) /\ loader \in [Loader -> States]
  BY DEF IInv, Types
<1>3. /\ loader'[l].at = "loaded" /\ loader'[l].blockTimes = heights
      /\ \A k \in Loader \ {l} : loader'[k] = loader[k]
  BY <1>1, <1>2 DEF Loaded
<1>4. Types'
  BY <1>1, <1>2 DEF Types, States
<1>5. Prefix'
  BY <1>1, <1>2, <1>3 DEF IInv, Prefix
<1>6. Pending'
  <2>1. \A i \in 1..Len(heights) : Covers(l, i)'
    BY <1>2, <1>3 DEF Covers
  <2> QED BY <1>1, <2>1 DEF Pending
<1> QED BY <1>1, <1>4, <1>5, <1>6 DEF IInv

\* SetBlockTimes settles the elements the loader covers and spoils none.
LEMMA SetIInv == ASSUME IInv, NEW l \in Loader, SetBlockTimes(l) PROVE IInv'
<1> DEFINE bt == loader[l].blockTimes
<1>1. /\ loader[l].at = "loaded" /\ loader' = [loader EXCEPT ![l] = Idle]
      /\ heights' = heights
      /\ times' = IF Len(times) < Len(bt) THEN bt
                  ELSE bt \o SubSeq(times, Len(bt) + 1, Len(times))
  BY DEF SetBlockTimes
<1>2. heights \in Seq(Time) /\ times \in Seq(Time) /\ loader \in [Loader -> States]
  BY DEF IInv, Types
<1>3. bt \in Seq(Time)
  BY <1>1, <1>2, StateCases
<1>4. Len(bt) <= Len(heights) /\ \A i \in 1..Len(bt) : bt[i] = heights[i]
  BY <1>1 DEF IInv, Prefix
<1>5. Len(times) <= Len(heights)
  BY DEF IInv
<1> HIDE DEF bt
<1>6. /\ times' \in Seq(Time)
      /\ Len(times') <= Len(heights) /\ Len(times') >= Len(times) /\ Len(times') >= Len(bt)
      /\ \A i \in 1..Len(bt) : times'[i] = bt[i]
      /\ \A i \in 1..Len(times) : i > Len(bt) => times'[i] = times[i]
  <2>1. CASE Len(times) < Len(bt)
    BY <2>1, <1>1, <1>2, <1>3, <1>4, <1>5
  <2>2. CASE Len(times) >= Len(bt)
    <3> DEFINE tail == SubSeq(times, Len(bt) + 1, Len(times))
    <3>1. /\ tail \in Seq(Time) /\ Len(tail) = Len(times) - Len(bt)
          /\ \A i \in 1..Len(tail) : tail[i] = times[Len(bt) + i]
      BY <2>2, <1>2, <1>3
    <3>2. times' = bt \o tail
      BY <2>2, <1>1, <1>2, <1>3
    <3> HIDE DEF tail
    <3> QED BY <3>1, <3>2, <2>2, <1>2, <1>3, <1>5
  <2> QED BY <2>1, <2>2, <1>2, <1>3
<1>7. /\ loader'[l] = Idle
      /\ \A k \in Loader \ {l} : loader'[k] = loader[k]
  BY <1>1, <1>2
<1>8. Types'
  BY <1>1, <1>2, <1>6 DEF Types, States
<1>9. Prefix'
  BY <1>1, <1>7 DEF IInv, Prefix, Idle
<1>10. Pending'
  <2> SUFFICES ASSUME NEW i \in 1..Len(heights)
               PROVE  Settled(i)' \/ \E k \in Loader : Covers(k, i)'
    BY <1>1 DEF Pending
  <2>1. CASE i <= Len(bt)
    BY <2>1, <1>1, <1>2, <1>3, <1>4, <1>6 DEF Settled
  <2>2. CASE i > Len(bt) /\ Settled(i)
    BY <2>2, <1>1, <1>2, <1>3, <1>6 DEF Settled
  <2>3. CASE i > Len(bt) /\ ~Settled(i)
    <3>1. PICK k \in Loader : Covers(k, i)
      BY <2>3 DEF IInv, Pending
    <3>2. k # l
      BY <3>1, <2>3, <1>1, <1>3 DEF Covers, bt
    <3>3. Covers(k, i)'
      BY <3>1, <3>2, <1>7 DEF Covers
    <3> QED BY <3>3
  <2> QED BY <2>1, <2>2, <2>3, <1>2, <1>3
<1> QED BY <1>1, <1>6, <1>8, <1>9, <1>10 DEF IInv

\* Whatever interleaving of connects, bulk rounds and loaders led there, when the
\* last loader is done the times in memory are those of the height column.
THEOREM TimesSettleAlways ==
  ASSUME LateReorg = FALSE
  PROVE  TimesSpec => []TimesSettle
<1>1. TimesInit => IInv
  BY InitIInv
<1>2. IInv /\ [TimesNext]_timesVars => IInv'
  <2> SUFFICES ASSUME IInv, [TimesNext]_timesVars PROVE IInv'
    OBVIOUS
  <2>1. CASE ConnectBlock
    BY <2>1, ConnectIInv
  <2>2. CASE BulkConnect
    BY <2>2, BulkIInv
  <2>3. CASE DisconnectBlockRange
    BY <2>3, DisconnectIInv, Zenon
  <2>4. ASSUME NEW l \in Loader, loadBlockTimes(l) PROVE IInv'
    BY <2>4, LoadIInv
  <2>5. ASSUME NEW l \in Loader, SetBlockTimes(l) PROVE IInv'
    BY <2>5, SetIInv
  <2>6. CASE UNCHANGED timesVars
    BY <2>6 DEF timesVars, IInv, Types, Prefix, Pending, Settled, Covers
  <2> QED BY <2>1, <2>2, <2>3, <2>4, <2>5, <2>6 DEF TimesNext
<1>3. IInv => TimesSettle
  BY SettledAll DEF TimesSettle
<1> QED BY <1>1, <1>2, <1>3, PTL DEF TimesSpec

-----------------------------------------------------------------------------
\* GetBlockHeightOfTime (internalstate.go): what the search returns, by induction on
\* the length of the interval that is left.

\* A set of naturals that is not empty has a least element.
LEMMA Least ==
  ASSUME NEW T \in SUBSET Nat, T # {}
  PROVE  \E m \in T : \A k \in T : m <= k
<1> DEFINE R == {ss \in Nat \X Nat : ss[1] < ss[2]}
<1>1. IsWellFoundedOn(R, Nat)
  BY NatLessThanWellFounded DEF OpToRel
<1>2. PICK m \in T : \A k \in T : ~(<<k, m>> \in R)
  <2> HIDE DEF R
  <2> QED BY <1>1, WFMin, Zenon
<1>3. \A k \in T : ~(k < m)
  <2> SUFFICES ASSUME NEW k \in T, k < m PROVE FALSE
    OBVIOUS
  <2>1. <<k, m>> \in Nat \X Nat /\ <<k, m>>[1] < <<k, m>>[2]
    OBVIOUS
  <2>2. <<k, m>> \in R
    BY <2>1
  <2> QED BY <2>2, <1>2
<1> QED BY <1>3

\* The intervals Search may halve, those of at most d elements, and one round of it.
Intervals(s) == (0..Len(s)) \X (0..Len(s))
UpToLong(s, d) == {x \in Intervals(s) : x[2] - x[1] <= d}
Half(x) == (x[1] + x[2]) \div 2
Round(f, s, time, x) ==
  IF x[1] >= x[2] THEN x[1]
  ELSE IF time <= s[Half(x) + 1] THEN f[<<x[1], Half(x)>>] ELSE f[<<Half(x) + 1, x[2]>>]

Loops(f, s, time) == f = [x \in Intervals(s) |-> Round(f, s, time, x)]

\* Both halves of an interval are shorter.
LEMMA Halves ==
  ASSUME NEW s, Len(s) \in Nat, NEW x \in Intervals(s), x[1] < x[2]
  PROVE  /\ x[1] \in 0..Len(s) /\ x[2] \in 0..Len(s)
         /\ Half(x) \in Nat /\ x[1] <= Half(x) /\ Half(x) < x[2]
         /\ <<x[1], Half(x)>> \in Intervals(s) /\ <<Half(x) + 1, x[2]>> \in Intervals(s)
         /\ <<x[1], Half(x)>>[1] = x[1] /\ <<x[1], Half(x)>>[2] = Half(x)
         /\ <<Half(x) + 1, x[2]>>[1] = Half(x) + 1 /\ <<Half(x) + 1, x[2]>>[2] = x[2]
<1>1. x[1] \in 0..Len(s) /\ x[2] \in 0..Len(s)
  BY DEF Intervals
<1>2. Half(x) \in Nat /\ x[1] <= Half(x) /\ Half(x) < x[2]
  BY <1>1 DEF Half
<1> QED BY <1>1, <1>2 DEF Intervals

\* The rounds define a function: the recursion ends, since the interval shrinks.
LEMMA SearchDefined ==
  ASSUME NEW s, Len(s) \in Nat, NEW time
  PROVE  \E f : Loops(f, s, time)
<1> DEFINE Good(d) == \E f : f = [x \in UpToLong(s, d) |-> Round(f, s, time, x)]
           Bad == {d \in Nat : ~Good(d)}
<1>1. Good(0)
  <2> DEFINE f == [x \in UpToLong(s, 0) |-> x[1]]
  <2>1. ASSUME NEW x \in UpToLong(s, 0) PROVE x[1] = Round(f, s, time, x)
    <3>1. x[1] >= x[2]
      BY DEF UpToLong, Intervals
    <3> QED BY <3>1 DEF Round
  <2>2. f = [x \in UpToLong(s, 0) |-> Round(f, s, time, x)]
    <3> HIDE DEF Good
    <3> QED BY <2>1, Zenon
  <2> HIDE DEF f
  <2> QED BY <2>2, Zenon
<1>2. ASSUME NEW d \in Nat, Good(d) PROVE Good(d + 1)
  <2>1. PICK f : f = [x \in UpToLong(s, d) |-> Round(f, s, time, x)]
    BY <1>2, Zenon
  <2> DEFINE g == [x \in UpToLong(s, d + 1) |-> Round(f, s, time, x)]
  <2>2. ASSUME NEW y \in UpToLong(s, d) PROVE g[y] = f[y]
    <3>1. y \in UpToLong(s, d + 1)
      BY DEF UpToLong, Intervals
    <3>2. f[y] = Round(f, s, time, y)
      BY <2>1, Zenon
    <3> QED BY <3>1, <3>2, Zenon
  <2>3. ASSUME NEW x \in UpToLong(s, d + 1) PROVE Round(f, s, time, x) = Round(g, s, time, x)
    <3>1. CASE x[1] >= x[2]
      BY <3>1, Zenon DEF Round
    <3>2. CASE ~(x[1] >= x[2])
      <4>1. x \in Intervals(s) /\ x[2] - x[1] <= d + 1 /\ x[1] < x[2]
        BY <3>2 DEF UpToLong, Intervals
      <4>2. <<x[1], Half(x)>> \in UpToLong(s, d) /\ <<Half(x) + 1, x[2]>> \in UpToLong(s, d)
        BY <4>1, Halves DEF UpToLong
      <4>3. g[<<x[1], Half(x)>>] = f[<<x[1], Half(x)>>] /\ g[<<Half(x) + 1, x[2]>>] = f[<<Half(x) + 1, x[2]>>]
        BY <2>2, <4>2, Zenon
      <4> HIDE DEF g
      <4> QED BY <4>3, Zenon DEF Round
    <3> QED BY <3>1, <3>2
  <2>4. g = [x \in UpToLong(s, d + 1) |-> Round(g, s, time, x)]
    <3> HIDE DEF Good
    <3> QED BY <2>3, Zenon
  <2> HIDE DEF g
  <2> QED BY <2>4, Zenon
<1> HIDE DEF Good
<1>3. Bad = {}
  <2> SUFFICES ASSUME Bad # {} PROVE FALSE
    OBVIOUS
  <2>1. PICK m \in Bad : \A k \in Bad : m <= k
    <3>1. Bad \in SUBSET Nat
      OBVIOUS
    <3> HIDE DEF Bad
    <3> QED BY <3>1, Least
  <2>2. m # 0
    BY <1>1, <2>1
  <2>3. m - 1 \in Nat /\ m - 1 \notin Bad
    <3>1. m \in Nat
      OBVIOUS
    <3> HIDE DEF Bad
    <3> QED BY <3>1, <2>1, <2>2
  <2>4. Good(m - 1 + 1)
    BY <2>3, <1>2
  <2> QED BY <2>1, <2>3, <2>4
<1>4. Good(Len(s))
  BY <1>3
<1>5. UpToLong(s, Len(s)) = Intervals(s)
  BY DEF UpToLong, Intervals
<1> QED BY <1>4, <1>5, Zenon DEF Good, Loops

\* Where Search stops: at a block whose time is not before the one asked for, or behind
\* the last block, with an earlier time just below.
Boundary(s, time, r) ==
  /\ r \in 0..Len(s)
  /\ r = Len(s) \/ time <= s[r + 1]
  /\ r = 0 \/ ~(time <= s[r])

\* sort.Search of Go's library, as GetBlockHeightOfTime uses it, stops at a boundary
\* whether or not the times are sorted.
LEMMA SearchFacts ==
  ASSUME NEW s, Len(s) \in Nat, NEW time
  PROVE  Boundary(s, time, Search(s, time))
<1> DEFINE f == CHOOSE f : Loops(f, s, time)
<1>1. Search(s, time) = f[<<0, Len(s)>>]
  BY Zenon DEF Search, Loops, Intervals, Round, Half
<1>2. Loops(f, s, time)
  BY SearchDefined
<1> HIDE DEF f
<1>3. \A x \in Intervals(s) : f[x] = Round(f, s, time, x)
  BY <1>2, Zenon DEF Loops
<1> DEFINE Asked(x) == x[1] <= x[2] /\ (x[2] = Len(s) \/ time <= s[x[2] + 1]) /\ (x[1] = 0 \/ ~(time <= s[x[1]]))
           Good(d) == \A x \in UpToLong(s, d) : Asked(x) => Boundary(s, time, f[x])
           Bad == {d \in Nat : ~Good(d)}
<1>4. ASSUME NEW x \in Intervals(s), Asked(x), x[1] = x[2] PROVE Boundary(s, time, f[x])
  <2>1. x[1] \in 0..Len(s) /\ x[1] >= x[2]
    BY <1>4 DEF Intervals
  <2>2. f[x] = x[1]
    BY <1>3, <2>1, Zenon DEF Round
  <2> QED BY <1>4, <2>1, <2>2, Zenon DEF Boundary
<1>5. Good(0)
  <2> SUFFICES ASSUME NEW x \in UpToLong(s, 0), Asked(x) PROVE Boundary(s, time, f[x])
    BY Zenon
  <2>1. x \in Intervals(s) /\ x[1] = x[2]
    BY DEF UpToLong, Intervals
  <2> QED BY <2>1, <1>4, Zenon
<1>6. ASSUME NEW d \in Nat, Good(d) PROVE Good(d + 1)
  <2> SUFFICES ASSUME NEW x \in UpToLong(s, d + 1), Asked(x) PROVE Boundary(s, time, f[x])
    BY Zenon
  <2>1. x \in Intervals(s) /\ x[2] - x[1] <= d + 1 /\ x[1] \in Nat /\ x[2] \in Nat
    BY DEF UpToLong, Intervals
  <2>2. CASE x[1] = x[2]
    BY <2>1, <2>2, <1>4, Zenon
  <2>3. CASE x[1] < x[2]
    <3> DEFINE low == <<x[1], Half(x)>>
               high == <<Half(x) + 1, x[2]>>
    <3>1. /\ Half(x) \in Nat /\ x[1] <= Half(x) /\ Half(x) < x[2]
          /\ low \in Intervals(s) /\ high \in Intervals(s)
          /\ low[1] = x[1] /\ low[2] = Half(x) /\ high[1] = Half(x) + 1 /\ high[2] = x[2]
      BY <2>1, <2>3, Halves, Zenon
    <3>2. f[x] = IF time <= s[Half(x) + 1] THEN f[low] ELSE f[high]
      <4>1. ~(x[1] >= x[2])
        BY <2>1, <2>3
      <4> QED BY <4>1, <2>1, <1>3, Zenon DEF Round
    <3> HIDE DEF low, high
    <3>3. low \in UpToLong(s, d) /\ high \in UpToLong(s, d)
      BY <2>1, <3>1 DEF UpToLong
    <3>4. CASE time <= s[Half(x) + 1]
      <4>1. Asked(low)
        BY <3>1, <3>4
      <4> QED BY <4>1, <3>2, <3>3, <3>4, <1>6, Zenon
    <3>5. CASE ~(time <= s[Half(x) + 1])
      <4>1. Asked(high)
        <5>1. Half(x) + 1 <= x[2]
          BY <3>1, <2>1
        <5> QED BY <5>1, <3>1, <3>5, Zenon
      <4> QED BY <4>1, <3>2, <3>3, <3>5, <1>6, Zenon
    <3> QED BY <3>4, <3>5
  <2> QED BY <2>1, <2>2, <2>3
<1> HIDE DEF Good
<1>7. Bad = {}
  <2> SUFFICES ASSUME Bad # {} PROVE FALSE
    OBVIOUS
  <2>1. PICK m \in Bad : \A k \in Bad : m <= k
    <3>1. Bad \in SUBSET Nat
      OBVIOUS
    <3> HIDE DEF Bad
    <3> QED BY <3>1, Least
  <2>2. m # 0
    BY <1>5, <2>1
  <2>3. m - 1 \in Nat /\ m - 1 \notin Bad
    <3>1. m \in Nat
      OBVIOUS
    <3> HIDE DEF Bad
    <3> QED BY <3>1, <2>1, <2>2
  <2>4. Good(m - 1 + 1)
    BY <2>3, <1>6
  <2> QED BY <2>1, <2>3, <2>4
<1>8. Good(Len(s))
  BY <1>7
<1>9. <<0, Len(s)>> \in UpToLong(s, Len(s)) /\ Asked(<<0, Len(s)>>)
  BY DEF UpToLong, Intervals
<1> QED BY <1>1, <1>8, <1>9, Zenon DEF Good

\* A set of naturals has its least element as Min.
LEMMA MinFacts ==
  ASSUME NEW S \in SUBSET Nat, S # {}
  PROVE  Min(S) \in S /\ \A k \in S : Min(S) <= k
<1>1. \E m \in S : \A k \in S : m <= k
  BY Least
<1> QED BY <1>1, Zenon DEF Min

\* GetBlockHeightOfTime of common/internalstate.go finds the first height, if the times
\* are out of order by less than Window blocks.
LEMMA HeightOfTime ==
  ASSUME NEW s \in Seq(Time), NEW time \in Time, Ordered(s), s # <<>>, time <= s[Len(s)]
  PROVE  GetBlockHeightOfTime(s, time) = FirstHeight(s, time)
<1> DEFINE n == Len(s)
           max == Search(s, time)
           from == IF max < Window THEN 0 ELSE max - Window
           near == {h \in from..max : time <= s[h + 1]}
           all == {h \in 0..(n - 1) : time <= s[h + 1]}
<1>1. n \in Nat \ {0} /\ DOMAIN s = 1..n /\ \A i \in 1..n : s[i] \in Nat
  <2>1. n \in Nat /\ DOMAIN s = 1..n /\ n # 0
    OBVIOUS
  <2>2. \A i \in 1..n : s[i] \in Time
    OBVIOUS
  <2> QED BY <2>1, <2>2, TimesAssumption, Zenon
<1>2. max \in 0..n /\ (max = n \/ time <= s[max + 1]) /\ (max = 0 \/ ~(time <= s[max]))
  BY <1>1, SearchFacts DEF Boundary
<1>3. max # n
  BY <1>1, <1>2
<1> HIDE DEF max
<1>4. max \in 0..(n - 1) /\ time <= s[max + 1] /\ from \in Nat /\ from <= max
  <2>1. time <= s[max + 1]
    BY <1>2, <1>3, Zenon
  <2>2. Window \in Nat
    BY TimesAssumption
  <2>3. max \in 0..n /\ max # n
    BY <1>2, <1>3, Zenon
  <2> HIDE DEF n
  <2> QED BY <2>1, <2>2, <2>3, <1>1
<1>5. near \in SUBSET Nat /\ max \in near /\ near \subseteq all /\ all \in SUBSET Nat
  BY <1>1, <1>4
<1>6. ASSUME NEW h \in all PROVE h >= from
  <2> SUFFICES ASSUME h < from PROVE FALSE
    BY <1>4, <1>5
  <2>1. h \in Nat /\ max - Window > h /\ max \in 1..n /\ h + 1 \in 1..n /\ max >= h + 1 + Window
    BY <1>1, <1>4, TimesAssumption
  <2>2. s[h + 1] <= s[max]
    BY <2>1, <1>1, Zenon DEF Ordered
  <2>3. time <= s[h + 1] /\ time \in Nat /\ ~(time <= s[max])
    BY <2>1, <1>2, TimesAssumption
  <2> QED BY <2>1, <2>2, <2>3, <1>1
<1>7. Min(near) \in near /\ \A k \in near : Min(near) <= k
  <2> HIDE DEF near, all
  <2> QED BY <1>5, MinFacts
<1>8. Min(all) \in all /\ \A k \in all : Min(all) <= k
  <2> HIDE DEF near, all
  <2> QED BY <1>5, MinFacts
<1>9. Min(near) <= max
  BY <1>5, <1>7
<1>10. Min(all) \in near
  <2>1. Min(all) \in Nat /\ Min(all) <= Min(near) /\ Min(near) \in Nat
    BY <1>5, <1>7, <1>8, Zenon
  <2>2. Min(all) >= from /\ time <= s[Min(all) + 1]
    BY <1>6, <1>8
  <2> QED BY <2>1, <2>2, <1>4, <1>9
<1>11. Min(all) = Min(near)
  <2>1. Min(all) <= Min(near) /\ Min(near) <= Min(all)
    BY <1>5, <1>7, <1>8, <1>10, Zenon
  <2>2. Min(all) \in Nat /\ Min(near) \in Nat
    BY <1>5, <1>7, <1>8, Zenon
  <2> QED BY <2>1, <2>2
<1>12. GetBlockHeightOfTime(s, time) = Min(near)
  BY <1>3, Zenon DEF GetBlockHeightOfTime, max
<1>13. FirstHeight(s, time) = Min(all)
  BY <1>8, Zenon DEF FirstHeight
<1> QED BY <1>11, <1>12, <1>13

\* A time set at any height keeps the array a sequence of times.
LEMMA SetBlockTimeType ==
  ASSUME NEW s \in Seq(Time), NEW i \in Nat \ {0}, NEW time \in Time
  PROVE  SetBlockTime(s, i, time) \in Seq(Time)
<1>1. CASE i > Len(s)
  <2> DEFINE ext == [k \in 1..(i - Len(s)) |-> time]
  <2>1. i - Len(s) \in Nat
    BY <1>1
  <2>2. ext \in Seq(Time)
    BY <2>1
  <2>3. SetBlockTime(s, i, time) = s \o ext
    BY <1>1 DEF SetBlockTime
  <2> HIDE DEF ext
  <2> QED BY <2>2, <2>3
<1>2. CASE ~(i > Len(s))
  BY <1>2 DEF SetBlockTime
<1> QED BY <1>1, <1>2

\* The array and the column hold times through all steps, late reorganisations too.
LEMMA TypesKept == ASSUME Types, [TimesNext]_timesVars PROVE Types'
<1> USE DEF Types
<1>1. CASE ConnectBlock
  <2>1. PICK time \in Time :
          /\ heights' = Append(heights, time)
          /\ times' = SetBlockTime(times, Len(heights) + 1, time)
          /\ loader' = loader
    BY <1>1 DEF ConnectBlock
  <2>2. times' \in Seq(Time)
    BY <2>1, SetBlockTimeType
  <2> QED BY <2>1, <2>2
<1>2. CASE BulkConnect
  <2>1. PICK new \in UpTo(Time, MaxHeight - Len(heights)) : heights' = heights \o new
    BY <1>2, Zenon DEF BulkConnect
  <2>2. PICK m \in 0..(MaxHeight - Len(heights)) : new \in [1..m -> Time]
    BY <2>1 DEF UpTo
  <2>3. m \in Nat
    BY <2>2, TimesAssumption
  <2>4. new \in Seq(Time)
    BY <2>2, <2>3
  <2>5. times' = times /\ loader' \in [Loader -> States]
    BY <1>2 DEF BulkConnect, States
  <2> QED BY <2>1, <2>4, <2>5
<1>3. CASE DisconnectBlockRange
  <2>1. PICK count \in 1..Len(heights) :
          /\ heights' = SubSeq(heights, 1, Len(heights) - count)
          /\ times' = RemoveLastBlockTimes(times, count)
          /\ loader' = loader
    BY <1>3 DEF DisconnectBlockRange
  <2>2. times' \in Seq(Time)
    BY <2>1 DEF RemoveLastBlockTimes
  <2> QED BY <2>1, <2>2
<1>4. ASSUME NEW l \in Loader, loadBlockTimes(l) PROVE Types'
  BY <1>4 DEF loadBlockTimes, States
<1>5. ASSUME NEW l \in Loader, SetBlockTimes(l) PROVE Types'
  <2>1. loader[l].blockTimes \in Seq(Time)
    BY <1>5, StateCases DEF SetBlockTimes
  <2>2. times' \in Seq(Time)
    BY <1>5, <2>1 DEF SetBlockTimes
  <2>3. heights' = heights /\ loader' \in [Loader -> States]
    BY <1>5 DEF SetBlockTimes, States
  <2> QED BY <2>2, <2>3
<1>6. CASE UNCHANGED timesVars
  BY <1>6 DEF timesVars
<1> QED BY <1>1, <1>2, <1>3, <1>4, <1>5, <1>6 DEF TimesNext

\* A height asked for by its time is the first one with such a time, whatever the array
\* in memory holds, as long as its times are out of order by less than Window blocks
\* (GetBlockHeightOfTime).
THEOREM HeightFoundCorrect == TimesSpec => []HeightFound
<1>1. TimesInit => Types
  BY InitIInv DEF IInv
<1>2. Types /\ [TimesNext]_timesVars => Types'
  BY TypesKept
<1>3. Types => HeightFound
  BY HeightOfTime DEF Types, HeightFound
<1> QED BY <1>1, <1>2, <1>3, PTL DEF TimesSpec

-----------------------------------------------------------------------------
\* The mempool of Ethereum-type coins (mempool_ethereum_type.go): the invariant says
\* what an add that has released the lock may still rely on (Unstored).

Io == SUBSET (Addr \X {-1, 0, 1})
Entry == [age : Nat, io : Io]
AddState == [pc : {"fetch", "insert"}, tx : Tx, age : Nat, io : Io]

PoolTypes ==
  /\ deployment \in Deployments
  /\ announced \in SUBSET Tx /\ unread \in SUBSET Tx /\ superseding \in SUBSET Tx
  /\ entries \in [Tx -> Entry]
  /\ index \in [Addr -> [Outpoint -> Nat]]
  /\ add \in [Adder -> {NoAdd} \cup AddState]
  /\ resync \in [pc : {"idle", "add", "timeout"}, list : SUBSET Tx, age : Nat, todo : SUBSET Tx]

Sole == \A p, q \in Adder : p = q

\* What an address lists belongs to an entry with that address, and is listed once.
Owned ==
  Sole => \A a \in Addr : \A o \in Outpoint :
            index[a][o] > 0 => index[a][o] = 1 /\ a \in Touched(entries[o[1]].io)

\* The transaction an adder is working on has still no entry when it is inserted.
Unstored == Sole => \A p \in Adder : add[p] # NoAdd => ~Exists(add[p].tx)

PoolInv == PoolTypes /\ EntriesIndexed /\ Owned /\ Unstored

\* The index and the addresses of the entries stay: nothing is lost (a tick, a renewed time).
LEMMA SameAddresses ==
  ASSUME EntriesIndexed, Owned, UNCHANGED <<deployment, index>>,
         \A tx \in Tx : entries'[tx].io = entries[tx].io
  PROVE  EntriesIndexed' /\ Owned'
<1>1. EntriesIndexed'
  BY DEF EntriesIndexed
<1>2. \A o \in Outpoint : Touched(entries'[o[1]].io) = Touched(entries[o[1]].io)
  BY Zenon DEF Outpoint
<1>3. Owned'
  BY <1>2 DEF Owned, Sole, Adder
<1> QED
  BY <1>1, <1>3

\* removeEntryFromMempool of any entries takes what they listed and no more.
LEMMA RemoveKeeps ==
  ASSUME PoolTypes, EntriesIndexed, Owned, UNCHANGED deployment,
         NEW S \in SUBSET Tx, removeEntries(S)
  PROVE  /\ entries' \in [Tx -> Entry] /\ index' \in [Addr -> [Outpoint -> Nat]]
         /\ EntriesIndexed' /\ Owned'
         /\ \A tx \in Tx : Exists(tx)' => Exists(tx)
<1>1. NoEntry \in Entry
  BY DEF NoEntry, Entry, Io
<1>2. /\ entries' \in [Tx -> Entry]
      /\ \A tx \in Tx : entries'[tx] = IF tx \in S THEN NoEntry ELSE entries[tx]
  BY <1>1 DEF PoolTypes, removeEntries
<1>3. \A a \in Addr : \A o \in Outpoint :
        index'[a][o] = IF o[1] \in S /\ a \in Touched(entries[o[1]].io) THEN 0 ELSE index[a][o]
  BY DEF removeEntries, Without
<1>4. index' \in [Addr -> [Outpoint -> Nat]]
  BY DEF PoolTypes, removeEntries, Without
<1>5. EntriesIndexed'
  <2> SUFFICES ASSUME NEW tx \in Tx, NEW ai \in entries'[tx].io
               PROVE  index'[ai[1]][<<tx, ai[2]>>] > 0
    BY DEF EntriesIndexed
  <2>1. tx \notin S /\ ai \in entries[tx].io
    BY <1>2 DEF NoEntry
  <2>2. entries[tx].io \in Io
    BY DEF PoolTypes, Entry
  <2>3. ai[1] \in Addr /\ <<tx, ai[2]>> \in Outpoint
    BY <2>1, <2>2, ZenonT(60) DEF Io, Outpoint
  <2>4. index[ai[1]][<<tx, ai[2]>>] > 0
    BY <2>1, Zenon DEF EntriesIndexed
  <2> QED
    BY <2>1, <2>3, <2>4, <1>3, Zenon
<1>6. Owned'
  <2> SUFFICES ASSUME Sole, NEW a \in Addr, NEW o \in Outpoint, index'[a][o] > 0
               PROVE  index'[a][o] = 1 /\ a \in Touched(entries'[o[1]].io)
    BY Zenon DEF Owned, Sole, Adder
  <2>1. index'[a][o] = index[a][o] /\ ~(o[1] \in S /\ a \in Touched(entries[o[1]].io))
    BY <1>3
  <2>2. index[a][o] = 1 /\ a \in Touched(entries[o[1]].io)
    BY <2>1, Zenon DEF Owned
  <2>3. o[1] \in Tx
    BY DEF Outpoint
  <2>4. entries'[o[1]] = entries[o[1]]
    BY <2>1, <2>2, <2>3, <1>2
  <2> QED
    BY <2>1, <2>2, <2>4, ZenonT(60)
<1>7. \A tx \in Tx : Exists(tx)' => Exists(tx)
  BY <1>2 DEF Exists
<1> QED
  BY <1>2, <1>4, <1>5, <1>6, <1>7

\* An add begins only for a transaction without an entry.
LEMMA StartAddKeeps ==
  ASSUME PoolTypes, UNCHANGED deployment, NEW p, NEW tx \in Tx, StartAdd(p, tx)
  PROVE  /\ add' \in [Adder' -> {NoAdd} \cup AddState]
         /\ \A q \in Adder : add'[q] = add[q] \/ (add'[q].tx = tx /\ ~Exists(tx))
<1> DEFINE new == [pc |-> "fetch", tx |-> tx, age |-> 0, io |-> {}]
<1>1. new \in AddState
  BY DEF AddState, Io
<1>2. Adder' = Adder
  BY DEF Adder
<1>3. CASE Exists(tx)
  BY <1>2, <1>3 DEF StartAdd, PoolTypes
<1>4. CASE ~Exists(tx)
  <2>1. add' = [add EXCEPT ![p] = new]
    BY <1>4 DEF StartAdd
  <2> QED
    BY <1>1, <1>2, <1>4, <2>1, ZenonT(60) DEF PoolTypes
<1> QED
  BY <1>3, <1>4

\* Entries may go and adds may begin, go on or end: what is being added has no entry.
LEMMA UnstoredKeeps ==
  ASSUME PoolTypes, Unstored, UNCHANGED deployment,
         \A tx \in Tx : Exists(tx)' => Exists(tx),
         \A p \in Adder : \/ add'[p] = NoAdd
                          \/ add[p] # NoAdd /\ add'[p].tx = add[p].tx
                          \/ add'[p].tx \in Tx /\ ~Exists(add'[p].tx)
  PROVE  Unstored'
<1>1. \A p \in Adder : add[p] # NoAdd => add[p].tx \in Tx
  BY DEF PoolTypes, AddState
<1> QED
  BY <1>1, ZenonT(60) DEF Unstored, Sole, Adder, Exists

\* createTxEntry: the transaction of an add stays, and the entry of a mined one goes.
LEMMA FetchKeeps ==
  ASSUME PoolInv, NEW p \in Adder, createTxEntry(p)
  PROVE  PoolInv'
<1> USE DEF PoolInv
<1>0. UNCHANGED deployment /\ Adder' = Adder
  BY DEF createTxEntry, backendVars, Adder
<1>1. add[p] \in AddState
  BY DEF createTxEntry, PoolTypes, NoAdd
<1>2. addrIndexes(add[p].tx) \in Io
  BY <1>1, PoolAssumption DEF addrIndexes, Io, AddState
<1> DEFINE new == IF status[add[p].tx] \in {"pending", "mined"}
                  THEN [add[p] EXCEPT !.pc = "insert", !.io = addrIndexes(add[p].tx)]
                  ELSE NoAdd
<1>3. add' = [add EXCEPT ![p] = new]
  BY DEF createTxEntry
<1>4. new = NoAdd \/ (new \in AddState /\ new.tx = add[p].tx)
  BY <1>1, <1>2, ZenonT(60) DEF AddState
<1> HIDE DEF new
<1>5. add' \in [Adder' -> {NoAdd} \cup AddState]
  BY <1>0, <1>3, <1>4, Zenon DEF PoolTypes
<1>6. /\ entries' \in [Tx -> Entry] /\ index' \in [Addr -> [Outpoint -> Nat]]
      /\ EntriesIndexed' /\ Owned'
      /\ \A tx \in Tx : Exists(tx)' => Exists(tx)
  <2>1. CASE status[add[p].tx] = "mined"
    <3>1. removeEntries({add[p].tx} \cap {t \in Tx : Exists(t)})
      BY <2>1 DEF createTxEntry, RemoveTransactionFromMempool
    <3> QED
      BY <1>0, <3>1, RemoveKeeps
  <2>2. CASE status[add[p].tx] # "mined"
    <3>1. UNCHANGED <<entries, index>>
      BY <2>2 DEF createTxEntry
    <3> QED
      BY <1>0, <3>1, SameAddresses DEF PoolTypes, Exists
  <2> QED
    BY <2>1, <2>2
<1>7. PoolTypes'
  BY <1>0, <1>5, <1>6, Zenon DEF PoolTypes, createTxEntry, backendVars
<1>8. \A q \in Adder : \/ add'[q] = NoAdd
                       \/ add[q] # NoAdd /\ add'[q].tx = add[q].tx
  <2>1. add[p] # NoAdd
    BY <1>1 DEF NoAdd, AddState
  <2> QED
    BY <1>3, <1>4, <2>1 DEF PoolTypes
<1>9. Unstored'
  BY <1>0, <1>6, <1>8, UnstoredKeeps
<1> QED
  BY <1>6, <1>7, <1>9

\* insertEntry: an only adder finds nothing listed of its transaction.
LEMMA InsertKeeps ==
  ASSUME PoolInv, NEW p \in Adder, insertEntry(p)
  PROVE  PoolInv'
<1> USE DEF PoolInv
<1>0. UNCHANGED deployment /\ Adder' = Adder
  BY DEF insertEntry, backendVars, Adder
<1>1. add[p] \in AddState
  <2>1. add[p].pc = "insert"
    BY DEF insertEntry
  <2> QED
    BY <2>1 DEF PoolTypes, NoAdd
<1>a. PICK tx \in Tx : tx = add[p].tx
  BY <1>1 DEF AddState
<1>b. PICK io \in Io : io = add[p].io
  BY <1>1, Zenon DEF AddState
<1>2. entries' \in [Tx -> Entry] /\ entries'[tx].io = io
      /\ \A t \in Tx \ {tx} : entries'[t] = entries[t]
  BY <1>1, <1>a, <1>b DEF insertEntry, PoolTypes, Entry, AddState
<1>3. \A a \in Addr : \A o \in Outpoint :
        index'[a][o] = index[a][o] + IF o[1] = tx /\ <<a, o[2]>> \in io THEN 1 ELSE 0
  BY <1>a, <1>b, ZenonT(60) DEF insertEntry
<1>4. index' \in [Addr -> [Outpoint -> Nat]]
  <2>1. index' = [a \in Addr |-> [o \in Outpoint |->
                    index[a][o] + IF o[1] = tx /\ <<a, o[2]>> \in io THEN 1 ELSE 0]]
    BY <1>a, <1>b, ZenonT(60) DEF insertEntry
  <2>2. \A a \in Addr : \A o \in Outpoint : index[a][o] \in Nat
    BY Zenon DEF PoolTypes
  <2> QED
    BY <2>1, <2>2
<1>5. add' \in [Adder' -> {NoAdd} \cup AddState]
  BY <1>0 DEF insertEntry, PoolTypes
<1>6. PoolTypes'
  BY <1>0, <1>2, <1>4, <1>5, ZenonT(60) DEF PoolTypes, insertEntry, backendVars
<1>7. EntriesIndexed'
  <2> SUFFICES ASSUME NEW t \in Tx, NEW ai \in entries'[t].io
               PROVE  index'[ai[1]][<<t, ai[2]>>] > 0
    BY DEF EntriesIndexed
  <2>1. entries'[t].io \in Io
    BY <1>2 DEF Entry
  <2>2. ai[1] \in Addr /\ <<t, ai[2]>> \in Outpoint /\ ai = <<ai[1], ai[2]>>
    BY <2>1 DEF Io, Outpoint
  <2>3. index[ai[1]][<<t, ai[2]>>] \in Nat
    BY <2>2, Zenon DEF PoolTypes
  <2>4. CASE t = tx
    <3>1. index'[ai[1]][<<t, ai[2]>>] = index[ai[1]][<<t, ai[2]>>] + 1
      <4>1. <<t, ai[2]>>[1] = tx /\ <<ai[1], <<t, ai[2]>>[2]>> \in io
        BY <1>2, <2>2, <2>4, Zenon
      <4> QED
        BY <1>3, <2>2, <4>1, Zenon
    <3> QED
      BY <2>3, <3>1
  <2>5. CASE t # tx
    <3>1. index[ai[1]][<<t, ai[2]>>] > 0
      BY <1>2, <2>5, Zenon DEF EntriesIndexed
    <3>2. index'[ai[1]][<<t, ai[2]>>] = index[ai[1]][<<t, ai[2]>>] + 0
      <4>1. <<t, ai[2]>>[1] # tx
        BY <2>5, Zenon
      <4> QED
        BY <1>3, <2>2, <4>1, Zenon
    <3> QED
      BY <2>3, <3>1, <3>2
  <2> QED
    BY <2>4, <2>5, Zenon
<1>8. Owned'
  <2> SUFFICES ASSUME Sole, NEW a \in Addr, NEW o \in Outpoint, index'[a][o] > 0
               PROVE  index'[a][o] = 1 /\ a \in Touched(entries'[o[1]].io)
    BY <1>0, Zenon DEF Owned, Sole
  <2>1. o[1] \in Tx /\ index[a][o] \in Nat
    BY Zenon DEF Outpoint, PoolTypes
  <2>2. CASE o[1] = tx
    <3>1. entries[tx] = NoEntry
      BY <1>1, <1>a DEF Unstored, Exists, NoAdd, AddState
    <3>2. a \notin Touched(entries[tx].io)
      BY <3>1 DEF NoEntry, Touched
    <3>3. index[a][o] = 0
      <4>1. ~(index[a][o] > 0)
        BY <2>2, <3>2, ZenonT(60) DEF Owned
      <4> QED
        BY <2>1, <4>1
    <3>4. <<a, o[2]>> \in io /\ index'[a][o] = 1
      <4>1. index'[a][o] = index[a][o] + IF o[1] = tx /\ <<a, o[2]>> \in io THEN 1 ELSE 0
        BY <1>3, Zenon
      <4>2. CASE <<a, o[2]>> \in io
        <5>1. index'[a][o] = 0 + 1
          BY <2>2, <3>3, <4>1, <4>2, Zenon
        <5> QED
          BY <4>2, <5>1
      <4>3. CASE <<a, o[2]>> \notin io
        <5>1. index'[a][o] = 0 + 0
          BY <3>3, <4>1, <4>3, Zenon
        <5> QED
          BY <5>1
      <4> QED
        BY <4>2, <4>3
    <3> QED
      BY <1>2, <2>2, <3>4 DEF Touched
  <2>3. CASE o[1] # tx
    <3>0. index'[a][o] = index[a][o] + 0
      BY <1>3, <2>3, ZenonT(60)
    <3>1. index'[a][o] = index[a][o]
      BY <2>1, <3>0
    <3>2. entries'[o[1]] = entries[o[1]]
      BY <1>2, <2>1, <2>3
    <3> QED
      BY <3>1, <3>2, ZenonT(60) DEF Owned
  <2> QED
    BY <2>2, <2>3, Zenon
<1>9. Unstored'
  <2> SUFFICES ASSUME Sole, NEW q \in Adder, add'[q] # NoAdd
               PROVE  FALSE
    BY <1>0, Zenon DEF Unstored, Sole
  <2>1. q = p
    BY DEF Sole
  <2> QED
    BY <2>1, ZenonT(60) DEF insertEntry, PoolTypes
<1> QED
  BY <1>6, <1>7, <1>8, <1>9, Zenon

\* Init and every step keep the inductive invariant.
LEMMA PoolStart == Init => PoolInv
<1> SUFFICES ASSUME Init PROVE PoolInv
  OBVIOUS
<1>1. PoolTypes
  BY ZenonT(60) DEF Init, PoolTypes, Entry, Io, NoEntry
<1>2. EntriesIndexed
  BY DEF Init, EntriesIndexed, NoEntry
<1>3. Owned
  BY DEF Init, Owned
<1>4. Unstored
  BY Zenon DEF Init, Unstored
<1> QED
  BY <1>1, <1>2, <1>3, <1>4 DEF PoolInv

LEMMA PoolStep == PoolInv /\ [Next]_vars => PoolInv'
<1> SUFFICES ASSUME PoolInv, [Next]_vars PROVE PoolInv'
  OBVIOUS
<1> USE DEF PoolInv
<1>1. CASE UNCHANGED vars
  <2>1. EntriesIndexed' /\ Owned'
    BY <1>1, SameAddresses DEF vars
  <2>2. PoolTypes' /\ Unstored'
    BY <1>1, Zenon DEF vars, PoolTypes, Unstored, Sole, Adder, Exists
  <2> QED
    BY <2>1, <2>2
<1>2. ASSUME NEW tx \in Tx, NewPending(tx) \/ Mine(tx)
      PROVE  PoolInv'
  <2>0. /\ UNCHANGED <<deployment, superseding, entries, index, add, resync>>
        /\ announced' \in SUBSET Tx /\ unread' \in SUBSET Tx
    BY <1>2, ZenonT(60) DEF NewPending, Mine, PoolTypes
  <2>1. EntriesIndexed' /\ Owned'
    BY <2>0, SameAddresses, Zenon
  <2>2. PoolTypes' /\ Unstored'
    BY <2>0 DEF PoolTypes, Unstored, Sole, Adder, Exists
  <2> QED
    BY <2>1, <2>2
<1>3. CASE Tick
  <2>0. UNCHANGED <<deployment, announced, unread, superseding, index>> /\ Adder' = Adder
    BY <1>3 DEF Tick, backendVars, Adder
  <2>1. \A age \in Nat : Older(age) \in Nat
    BY PoolAssumption DEF Older
  <2>2. /\ entries' \in [Tx -> Entry]
        /\ \A tx \in Tx : entries'[tx].io = entries[tx].io /\ (Exists(tx)' => Exists(tx))
    BY <1>3, <2>1, ZenonT(60) DEF Tick, PoolTypes, Entry, Exists, NoEntry
  <2>3. /\ add' \in [Adder' -> {NoAdd} \cup AddState]
        /\ \A p \in Adder : add'[p] = NoAdd \/ (add[p] # NoAdd /\ add'[p].tx = add[p].tx)
    BY <1>3, <2>0, <2>1 DEF Tick, PoolTypes, AddState
  <2>4. resync' \in [pc : {"idle", "add", "timeout"}, list : SUBSET Tx, age : Nat, todo : SUBSET Tx]
    BY <1>3, <2>1, Zenon DEF Tick, PoolTypes
  <2>5. PoolTypes'
    BY <2>0, <2>2, <2>3, <2>4 DEF PoolTypes
  <2>6. EntriesIndexed' /\ Owned'
    BY <2>0, <2>2, SameAddresses, Zenon
  <2>7. Unstored'
    BY <2>0, <2>2, <2>3, UnstoredKeeps, ZenonT(60)
  <2> QED
    BY <2>5, <2>6, <2>7
<1>4. CASE FeedAdd
  <2>0. UNCHANGED <<deployment, unread, superseding, entries, index, resync>> /\ Adder' = Adder
    BY <1>4 DEF FeedAdd, Adder
  <2>1. PICK tx \in Tx : announced' = announced \ {tx} /\ StartAdd("feed", tx)
    BY <1>4, Zenon DEF FeedAdd, PoolTypes
  <2>2. /\ add' \in [Adder' -> {NoAdd} \cup AddState]
        /\ \A q \in Adder : add'[q] = add[q] \/ (add'[q].tx = tx /\ ~Exists(tx))
    BY <2>0, <2>1, StartAddKeeps, Zenon
  <2>3. PoolTypes'
    BY <2>0, <2>1, <2>2 DEF PoolTypes
  <2>4. EntriesIndexed' /\ Owned'
    BY <2>0, SameAddresses, Zenon
  <2>5. Unstored'
    BY <2>0, <2>2, UnstoredKeeps DEF Exists
  <2> QED
    BY <2>3, <2>4, <2>5, Zenon
<1>5. CASE AddOrRefresh
  <2>0. UNCHANGED <<deployment, announced, unread, superseding, index, resync>> /\ Adder' = Adder
    BY <1>5 DEF AddOrRefresh, backendVars, Adder
  <2>1. PICK tx \in Tx : /\ StartAdd("send", tx)
                         /\ entries' = IF Exists(tx) THEN [entries EXCEPT ![tx].age = 0] ELSE entries
    BY <1>5, ZenonT(60) DEF AddOrRefresh
  <2>2. /\ add' \in [Adder' -> {NoAdd} \cup AddState]
        /\ \A q \in Adder : add'[q] = add[q] \/ (add'[q].tx = tx /\ ~Exists(tx))
    BY <2>0, <2>1, StartAddKeeps
  <2>3. /\ entries' \in [Tx -> Entry]
        /\ \A t \in Tx : entries'[t].io = entries[t].io /\ (Exists(t)' => Exists(t))
    BY <2>1, Zenon DEF PoolTypes, Entry, Exists
  <2>4. PoolTypes'
    BY <2>0, <2>2, <2>3 DEF PoolTypes
  <2>5. EntriesIndexed' /\ Owned'
    BY <2>0, <2>3, SameAddresses, Zenon
  <2>6. Unstored'
    BY <2>0, <2>2, <2>3, UnstoredKeeps, Zenon
  <2> QED
    BY <2>4, <2>5, <2>6
<1>6. CASE Resync
  <2>0. UNCHANGED <<deployment, announced, unread, superseding, entries, index, add>>
    BY <1>6 DEF Resync, backendVars
  <2>1. resync' \in [pc : {"idle", "add", "timeout"}, list : SUBSET Tx, age : Nat, todo : SUBSET Tx]
    BY <1>6 DEF Resync, PoolTypes
  <2>2. EntriesIndexed' /\ Owned'
    BY <2>0, SameAddresses
  <2>3. PoolTypes' /\ Unstored'
    BY <2>0, <2>1, Zenon DEF PoolTypes, Unstored, Sole, Adder, Exists
  <2> QED
    BY <2>2, <2>3
<1>7. CASE ResyncAdd
  <2>0. UNCHANGED <<deployment, announced, unread, superseding, entries, index>> /\ Adder' = Adder
    BY <1>7 DEF ResyncAdd, backendVars, Adder
  <2>1. PICK tx \in Tx : resync' = [resync EXCEPT !.todo = @ \ {tx}] /\ StartAdd("resync", tx)
    BY <1>7, ZenonT(60) DEF ResyncAdd, PoolTypes
  <2>2. /\ add' \in [Adder' -> {NoAdd} \cup AddState]
        /\ \A q \in Adder : add'[q] = add[q] \/ (add'[q].tx = tx /\ ~Exists(tx))
    BY <2>0, <2>1, StartAddKeeps
  <2>3. resync' \in [pc : {"idle", "add", "timeout"}, list : SUBSET Tx, age : Nat, todo : SUBSET Tx]
    BY <2>1, Zenon DEF PoolTypes
  <2>4. PoolTypes'
    BY <2>0, <2>2, <2>3 DEF PoolTypes
  <2>5. EntriesIndexed' /\ Owned'
    BY <2>0, SameAddresses
  <2>6. Unstored'
    BY <2>0, <2>2, UnstoredKeeps, Zenon DEF Exists
  <2> QED
    BY <2>4, <2>5, <2>6
<1>8. CASE removeTransactionsMissingFromBackend \/ Timeout \/ GetBlock \/ RemoveSenderTransactionsUpToNonce
  <2>0. UNCHANGED <<deployment, announced, add>> /\ unread' \in SUBSET Tx /\ superseding' \in SUBSET Tx
    BY <1>8, ZenonT(60) DEF removeTransactionsMissingFromBackend, Timeout, GetBlock,
                RemoveSenderTransactionsUpToNonce, backendVars, PoolTypes
  <2>1. resync' \in [pc : {"idle", "add", "timeout"}, list : SUBSET Tx, age : Nat, todo : SUBSET Tx]
    <3>1. CASE removeTransactionsMissingFromBackend
      BY <3>1, Zenon DEF removeTransactionsMissingFromBackend, PoolTypes
    <3>2. CASE Timeout
      BY <3>2 DEF Timeout
    <3>3. CASE GetBlock \/ RemoveSenderTransactionsUpToNonce
      BY <3>3, Zenon DEF GetBlock, RemoveSenderTransactionsUpToNonce, PoolTypes
    <3> QED
      BY <1>8, <3>1, <3>2, <3>3
  <2>2. \E S \in SUBSET Tx : removeEntries(S)
    <3>1. CASE removeTransactionsMissingFromBackend
      BY <3>1, Zenon DEF removeTransactionsMissingFromBackend
    <3>2. CASE Timeout
      BY <3>2 DEF Timeout
    <3>3. CASE GetBlock
      BY <3>3, Zenon DEF GetBlock, RemoveTransactionFromMempool
    <3>4. CASE RemoveSenderTransactionsUpToNonce
      BY <3>4 DEF RemoveSenderTransactionsUpToNonce
    <3> QED
      BY <1>8, <3>1, <3>2, <3>3, <3>4
  <2>3. /\ entries' \in [Tx -> Entry] /\ index' \in [Addr -> [Outpoint -> Nat]]
        /\ EntriesIndexed' /\ Owned'
        /\ \A tx \in Tx : Exists(tx)' => Exists(tx)
    BY <2>0, <2>2, RemoveKeeps
  <2>4. PoolTypes'
    BY <2>0, <2>1, <2>3, ZenonT(60) DEF PoolTypes, Adder
  <2>5. Unstored'
    BY <2>0, <2>3, UnstoredKeeps
  <2> QED
    BY <2>3, <2>4, <2>5
<1> QED
  BY <1>1, <1>2, <1>3, <1>4, <1>5, <1>6, <1>7, <1>8, FetchKeeps, InsertKeeps, Zenon
  DEF Next, ResyncStep, Add

\* A transaction of the mempool is found under each of its addresses; with one adder
\* what an address lists is in the mempool, and is listed once: whatever is added,
\* mined, superseded, timed out or missing from the backend in between.
THEOREM MempoolExactCorrect == FairSpec => []MempoolExact
<1>1. PoolInv => MempoolExact
  <2> SUFFICES ASSUME PoolInv PROVE SoleAdderExact
    BY Zenon DEF PoolInv, MempoolExact
  <2>1. \A tx \in Tx : Touched(entries[tx].io) # {} => Exists(tx)
    BY DEF Exists, NoEntry, Touched
  <2>2. \A o \in Outpoint : o[1] \in Tx
    BY DEF Outpoint
  <2> QED
    BY <2>1, <2>2 DEF PoolInv, Owned, Sole, SoleAdderExact
<1> QED
  BY <1>1, PoolStart, PoolStep, PTL DEF FairSpec
=============================================================================
