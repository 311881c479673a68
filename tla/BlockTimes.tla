------------------------------ MODULE BlockTimes ------------------------------
(***************************************************************************)
(* The block times kept in memory (InternalState.BlockTimes of             *)
(* common/internalstate.go) next to the height column of the database.     *)
(* A goroutine loads them at start and after every bulk round, while       *)
(* blocks are already connected and disconnected.                          *)
(*                                                                         *)
(* Both are sequences of times: the block at height h is element h + 1.    *)
(***************************************************************************)
EXTENDS Integers, Sequences, FiniteSetsExt

CONSTANTS
  Time,         \* the times a block can have
  Loader,       \* the goroutines of setBlockTimes that may be alive at once
  Window,       \* how far GetBlockHeightOfTime looks back, 20 in the code
  LateReorg,    \* whether blocks are disconnected while a loader runs
  MaxHeight, MaxConnects   \* bounds

ASSUME TimesAssumption ==
  /\ Time \subseteq Nat \ {0} /\ Window \in Nat /\ LateReorg \in BOOLEAN
  /\ MaxHeight \in Nat /\ MaxConnects \in Nat

VARIABLES
  heights,    \* the times in column height
  times,      \* BlockTimes
  loader,     \* what every loader is at
  connects    \* how often blocks were connected

timesVars == <<heights, times, loader, connects>>

Idle == [at |-> "idle"]
Started == [at |-> "started"]
Loaded(s) == [at |-> "loaded", blockTimes |-> s]

\* Sequences of at most n elements.
UpTo(S, n) == UNION {[1..m -> S] : m \in 0..n}

NoLoader == \A l \in Loader : loader[l] = Idle

\* A database with some blocks, whose times a first goroutine is about to load.
TimesInit ==
  /\ heights \in UpTo(Time, 2)
  /\ times = <<>>
  /\ \E l \in Loader : loader = [k \in Loader |-> IF k = l THEN Started ELSE Idle]
  /\ connects = 0

-----------------------------------------------------------------------------
\* SetBlockTime, where the array is extended up to the height with the same time.
SetBlockTime(s, i, time) ==
  IF i > Len(s) THEN s \o [k \in 1..(i - Len(s)) |-> time] ELSE [s EXCEPT ![i] = time]

ConnectBlock ==
  /\ Len(heights) < MaxHeight /\ connects < MaxConnects
  /\ \E time \in Time :
       /\ heights' = Append(heights, time)
       /\ times' = SetBlockTime(times, Len(heights) + 1, time)
  /\ connects' = connects + 1
  /\ UNCHANGED loader

\* A bulk round writes heights only; its Close starts a loader.
BulkConnect ==
  /\ connects < MaxConnects
  /\ \E new \in UpTo(Time, MaxHeight - Len(heights)) \ {<<>>} : heights' = heights \o new
  /\ \E l \in Loader :
       /\ loader[l] = Idle
       /\ loader' = [loader EXCEPT ![l] = Started]
  /\ connects' = connects + 1
  /\ UNCHANGED times

\* RemoveLastBlockTimes.
RemoveLastBlockTimes(s, count) ==
  SubSeq(s, 1, Len(s) - (IF Len(s) < count THEN Len(s) ELSE count))

DisconnectBlockRange ==
  /\ LateReorg \/ NoLoader
  /\ \E count \in 1..Len(heights) :
       /\ heights' = SubSeq(heights, 1, Len(heights) - count)
       /\ times' = RemoveLastBlockTimes(times, count)
  /\ UNCHANGED <<loader, connects>>

-----------------------------------------------------------------------------
\* loadBlockTimes: an iterator sees the column as it was when it was made.
loadBlockTimes(l) ==
  /\ loader[l] = Started
  /\ loader' = [loader EXCEPT ![l] = Loaded(heights)]
  /\ UNCHANGED <<heights, times, connects>>

\* Mutant: the times that were set meanwhile are dropped.
MutSetBlockTimes(l) ==
  /\ loader[l].at = "loaded"
  /\ times' = loader[l].blockTimes
  /\ loader' = [loader EXCEPT ![l] = Idle]
  /\ UNCHANGED <<heights, connects>>

\* SetBlockTimes: the array is replaced by a longer one and else overwritten from
\* its start.
SetBlockTimes(l) ==
  LET bt == loader[l].blockTimes IN
  /\ loader[l].at = "loaded"
  /\ times' = IF Len(times) < Len(bt) THEN bt
              ELSE bt \o SubSeq(times, Len(bt) + 1, Len(times))
  /\ loader' = [loader EXCEPT ![l] = Idle]
  /\ UNCHANGED <<heights, connects>>

TimesNext ==
  \/ ConnectBlock \/ BulkConnect \/ DisconnectBlockRange
  \/ \E l \in Loader : loadBlockTimes(l) \/ SetBlockTimes(l)

TimesSpec == TimesInit /\ [][TimesNext]_timesVars

-----------------------------------------------------------------------------
\* GetBlockHeightOfTime.  NoHeight stands for the greatest uint32.

NoHeight == -1

\* sort.Search: halving looks for the smallest index in x[1]..x[2] whose time is not
\* before the one asked for, x[2] for none.
Search(s, time) ==
  LET f[x \in (0..Len(s)) \X (0..Len(s))] ==
        LET mid == (x[1] + x[2]) \div 2 IN
        IF x[1] >= x[2] THEN x[1]
        ELSE IF time <= s[mid + 1] THEN f[<<x[1], mid>>] ELSE f[<<mid + 1, x[2]>>]
  IN f[<<0, Len(s)>>]

\* Mutant: the search does not look back.
MutGetBlockHeightOfTime(s, time) ==
  LET max == Search(s, time)
  IN IF max = Len(s) THEN NoHeight ELSE max

GetBlockHeightOfTime(s, time) ==
  LET max == Search(s, time)
      from == IF max < Window THEN 0 ELSE max - Window
  IN IF max = Len(s) THEN NoHeight
     ELSE Min({h \in from..max : time <= s[h + 1]})

\* The first height with such a time.
FirstHeight(s, time) ==
  LET hs == {h \in 0..(Len(s) - 1) : time <= s[h + 1]}
  IN IF hs = {} THEN NoHeight ELSE Min(hs)

\* A block is not older than the blocks Window and more below it.
Ordered(s) == \A i, j \in DOMAIN s : j >= i + Window => s[i] <= s[j]

-----------------------------------------------------------------------------
\* The values the variables take.
TimesTypeOK ==
  /\ heights \in Seq(Time) /\ times \in Seq(Time)
  /\ Len(heights) <= MaxHeight /\ Len(times) <= MaxHeight
  /\ \A l \in Loader : loader[l] \in {Idle, Started} \/ loader[l].blockTimes \in Seq(Time)
  /\ connects \in 0..MaxConnects

\* When no loader runs, every block of the database has its time in memory and no
\* other height has one (GetBlockTime returns the time "if block found or 0").
TimesSettle == NoLoader => times = heights

\* A height is found if there is one, and it is the first, as long as the times are
\* out of order by less than Window blocks and the last block is not older than the
\* time asked for (GetBlockHeightOfTime).
HeightFound ==
  \A time \in Time :
    Ordered(times) /\ times # <<>> /\ time <= times[Len(times)] =>
      GetBlockHeightOfTime(times, time) = FirstHeight(times, time)
=============================================================================
