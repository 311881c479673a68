--------------------------- MODULE ProcessProofs ---------------------------
(***************************************************************************)
(* Theorems about the life of the process beside the sync: the shutdown    *)
(* that joins the loops before the database is closed (Lifecycle), the     *)
(* wake-ups that bring the backend's tip to the sync loop (TipFeed), and   *)
(* the start on a database that earlier processes have left (DbOpen).      *)
(***************************************************************************)
EXTENDS Lifecycle, TipFeed, DbOpen, TLAPS

-----------------------------------------------------------------------------
\* The shutdown (blockbook.go).

\* The loops are done from the moment the main goroutine has joined them, not only
\* when the database is closed; a panic of a notification may end the process before.
Joined ==
  main \in {"db", "exiting"} \/ db = "closed" => heal = "done" /\ \A c \in Loop : loop[c].pc = "done"

LifeInv ==
  /\ loop \in [Loop -> [pc : {"select", "work", "retry", "done"}, wait : BOOLEAN, window : {"none", "open", "over"}]]
  /\ Joined

\* The process starts with the database open.
LEMMA LifeInitInv == LifeInit => LifeInv
BY DEF LifeInit, LifeInv, Joined, Waiting, Loop

\* A loop takes a step only from a place where it is not done (TickAndDebounce).
LEMMA LoopStepInv ==
  ASSUME LifeInv, NEW c \in Loop, TimerStep(c) \/ Trigger(c) \/ LoopClosed(c)
  PROVE  LifeInv'
<1>1. CASE Elapse(c)
  BY <1>1, ZenonT(60) DEF Elapse, LifeInv, Joined
<1>2. CASE Expired(c)
  <2>1. PICK x \in [pc : {"select", "work", "retry", "done"}, wait : BOOLEAN, window : {"none", "open", "over"}] :
          loop' = [loop EXCEPT ![c] = x]
    <3>1. CASE inShutdown
      BY <1>2, <3>1, Zenon DEF Expired, Waiting
    <3>2. CASE ~inShutdown
      BY <1>2, <3>2 DEF Expired, LifeInv
    <3> QED
      BY <3>1, <3>2
  <2>2. loop[c].pc = "select" /\ UNCHANGED <<main, heal, db>>
    BY <1>2 DEF Expired
  <2> QED
    BY <2>1, <2>2 DEF LifeInv, Joined
<1>3. CASE Work(c)
  BY <1>3 DEF Work, LifeInv, Joined, Waiting
<1>4. CASE Trigger(c)
  <2>1. /\ loop' = [loop EXCEPT ![c].wait = loop[c].window # "over", ![c].window = IF @ = "none" THEN "open" ELSE @]
        /\ loop[c].pc = "select" /\ UNCHANGED <<main, heal, db>>
    BY <1>4 DEF Trigger
  <2>2. loop[c] \in [pc : {"select", "work", "retry", "done"}, wait : BOOLEAN, window : {"none", "open", "over"}]
    BY DEF LifeInv
  <2>3. loop' \in [Loop -> [pc : {"select", "work", "retry", "done"}, wait : BOOLEAN, window : {"none", "open", "over"}]]
    BY <2>1, <2>2, Zenon DEF LifeInv
  <2> QED
    BY <2>1, <2>3 DEF LifeInv, Joined
<1>5. CASE LoopClosed(c)
  BY <1>5 DEF LoopClosed, LifeInv, Joined
<1> QED
  BY <1>1, <1>2, <1>3, <1>4, <1>5 DEF TimerStep

\* Every other step keeps the loops joined; the database is closed only after the join.
LEMMA LifeNextInv == LifeInv /\ [LifeNext]_lifeVars => LifeInv'
<1> SUFFICES ASSUME LifeInv, [LifeNext]_lifeVars PROVE LifeInv'
  OBVIOUS
<1>1. CASE \E c \in Loop : TimerStep(c) \/ Trigger(c) \/ LoopClosed(c)
  BY <1>1, LoopStepInv
<1>2. CASE ResyncIndexError
  BY <1>2 DEF ResyncIndexError, LifeInv, Joined, Loop
<1>3. CASE Heal
  BY <1>3 DEF Heal, HealTimer, HealStop, HealInternalData, LifeInv, Joined
<1>4. CASE ComputeInternalStateColumnStats
  BY <1>4 DEF ComputeInternalStateColumnStats, LifeInv, Joined
<1>5. CASE \E c \in Pushed : PushCheck(c) \/ PushSend(c)
  BY <1>5 DEF PushCheck, PushSend, LifeInv, Joined
<1>6. CASE Signal
  BY <1>6 DEF Signal, LifeInv, Joined
<1>7. CASE waitForSignalAndShutdown \/ CloseChannels \/ JoinLoops \/ CloseDB \/ Exit
  BY <1>7 DEF waitForSignalAndShutdown, CloseChannels, JoinLoops, CloseDB, Exit, Main, Others, LifeInv, Joined
<1>8. CASE UNCHANGED lifeVars
  BY <1>8 DEF lifeVars, LifeInv, Joined
<1> QED
  BY <1>1, <1>2, <1>3, <1>4, <1>5, <1>6, <1>7, <1>8 DEF LifeNext, MainStep

\* No loop works with the database once the shutdown has closed it: the main goroutine
\* joins the three loops and the healing loop before index.Close, and none of them
\* starts again, whatever notifications, retries and panics come in between.
THEOREM LoopsJoinedCorrect == LifeSpec => []LoopsJoined
<1>1. LifeInv => LoopsJoined
  BY DEF LifeInv, Joined, LoopsJoined
<1> QED
  BY <1>1, LifeInitInv, LifeNextInv, PTL DEF LifeSpec

-----------------------------------------------------------------------------
\* The wake-ups of the sync loop (ethrpc.go).

\* A step of the reader, of the watchdog or of the sync loop hands the wake-up on, or
\* changes the cached tip and begins one.
LEMMA WakeupStep == NoLostWakeup /\ [TipNext]_tipVars => NoLostWakeup'
<1> SUFFICES ASSUME NoLostWakeup, [TipNext]_tipVars PROVE NoLostWakeup'
  OBVIOUS
<1> USE DEF NoLostWakeup
<1>1. CASE Env
  BY <1>1 DEF Env, TipChange, Deliver, SubscriptionError, ResubscribeError, feedVars, wdVars
<1>2. CASE Age
  BY <1>2 DEF Age, feedVars, wdVars
<1>3. CASE onFeedHeader
  <2>1. /\ reader = "read" /\ UNCHANGED <<notify, push, seen, wd>>
        /\ cached' # cached => reader' = "signal"
        /\ cached' = cached => reader' = reader
    BY <1>3, Zenon DEF onFeedHeader, wdVars
  <2> QED
    BY <2>1
<1>4. CASE signalNewBlock \/ newBlockNotifier
  BY <1>4 DEF signalNewBlock, newBlockNotifier, wdVars
<1>5. CASE getBestHeader
  BY <1>5 DEF getBestHeader
<1>6. CASE \E f \in Feed : Resubscribe(f)
  BY <1>6 DEF Resubscribe, feedVars, wdVars
<1>7. CASE StoreTip
  <2>1. /\ UNCHANGED <<reader, notify, push, seen>> /\ wd = "set"
        /\ wd' = (IF cached' # cached THEN "push" ELSE "close")
    BY <1>7, Zenon DEF StoreTip, Watchdog, Rest, feedVars
  <2> QED
    BY <2>1
<1>8. CASE tipWatchdogTick \/ PollTip \/ PollError \/ PushTip \/ closeRPC \/ OpenRPC \/ ReconnectError \/ subscribeEvents
  BY <1>8 DEF tipWatchdogTick, PollTip, PollError, PushTip, closeRPC, OpenRPC, ReconnectError, subscribeEvents,
              Watchdog, Rest, Feed, feedVars
<1>9. CASE UNCHANGED tipVars
  BY <1>9 DEF tipVars
<1> QED
  BY <1>1, <1>2, <1>3, <1>4, <1>5, <1>6, <1>7, <1>8, <1>9 DEF TipNext, Reader, WatchdogStep

\* No wake-up is lost, for any headers, any capacity of the channel and however the feed
\* lags, repeats itself or fails: while the sync loop has not seen the cached tip, a
\* signal is pending or about to be sent (signalNewBlock, newBlockNotifier, tipWatchdogTick).
THEOREM NoLostWakeupCorrect == TipSpec => []NoLostWakeup
<1>1. TipInit => NoLostWakeup
  BY DEF TipInit, NoLostWakeup
<1> QED
  BY <1>1, WakeupStep, PTL DEF TipSpec

-----------------------------------------------------------------------------
\* Opening a database (blockbook.go, rocksdb.go): the invariant says what the stored
\* state and the one in memory claim of the rows, at every moment a process may die.

Running ==
  [at : {"open", "migrate", "loaded", "fixed", "checked", "ending", "stats", "workers", "serving", "bulk"},
   mode : Modes, is : {NoState} \cup State, row : Nat, initialSync : BOOLEAN, whole : BOOLEAN]

\* The state the next start will go by.
Found == IF storedState = NoState THEN Fresh ELSE storedState

\* A state of this database: it describes the rows, and it says that an import was
\* interrupted unless the import is whole or the mark was removed by force.
Truthful(is, rows, whole) ==
  /\ is \in State
  /\ Describes(is, rows)
  /\ is.dbState # "inconsistent" => whole
Whole == imported \/ forced

DbTypes ==
  /\ storedState \in {NoState} \cup State
  /\ contractRows \in Seq(Contract)
  /\ imported \in BOOLEAN /\ forced \in BOOLEAN
  /\ process \in {Off} \cup Running

\* What a process has done up to the row it is at.
Progress ==
  /\ process.at = "migrate" =>
       /\ storedState \in State /\ storedState.version = DbVersion - 1 /\ storedState.coin = "this"
       /\ \A i \in DOMAIN contractRows : i <= process.row => contractRows[i].format = DbVersion
  /\ process.at = "fixed" =>
       \A i \in DOMAIN contractRows : i <= process.row => contractRows[i].sorted

\* What a process goes by once it has loaded the state.
Believed ==
  process.at \notin {"off", "open", "migrate"} =>
    /\ Truthful(process.is, contractRows, Whole)
    /\ process.is.version = DbVersion /\ process.is.coin = "this"
    /\ process.at \notin {"loaded", "fixed"} => process.is.sorted
    /\ process.at \in {"stats", "workers", "serving"} => process.is.dbState # "inconsistent"
    /\ process.at = "bulk" => process.whole \/ forced

DbInv ==
  /\ DbTypes /\ Truthful(Found, contractRows, Whole) /\ Progress /\ Believed
  /\ process.at \in {"open", "migrate"} => process.is = NoState

-----------------------------------------------------------------------------
\* A process is off, or running at one of its places.
LEMMA ProcessCases ==
  ASSUME DbTypes
  PROVE  /\ process.at = "off" => process = Off
         /\ process = Off => process.at = "off"
         /\ process.at # "off" => process \in Running
BY DEF DbTypes, Off, Running

\* The smaller of two numbers, for the end of a batch of rows.
LEMMA MinOfTwo ==
  ASSUME NEW a \in Int, NEW b \in Int
  PROVE  Min({a, b}) = IF a <= b THEN a ELSE b
<1>1. \A x \in {a, b} : (\A y \in {a, b} : x <= y) => x = IF a <= b THEN a ELSE b
  OBVIOUS
<1>2. \E x \in {a, b} : \A y \in {a, b} : x <= y
  OBVIOUS
<1>3. Min({a, b}) \in {a, b} /\ \A y \in {a, b} : Min({a, b}) <= y
  BY <1>2, Zenon DEF Min
<1> QED
  BY <1>1, <1>3

\* No state in the database is told from a stored one by its fields.
LEMMA NoStateApart == NoState \notin State
<1>1. DOMAIN NoState = {"none"}
  BY DEF NoState
<1>2. \A is \in State : "coin" \in DOMAIN is
  BY DEF State
<1> QED
  BY <1>1, <1>2

\* A new database is described by the state it is given.
LEMMA FreshState == Fresh \in State /\ Fresh.version = DbVersion /\ Fresh.sorted /\ Fresh.dbState = "closed"
BY DbAssumption DEF Fresh, State

\* The databases to begin with are described by their states.
LEMMA DbInitInv == DbInit => DbInv
<1> SUFFICES ASSUME DbInit PROVE DbInv
  OBVIOUS
<1>1. PICK first \in FirstDbs : storedState = first.state /\ contractRows = first.contracts
  BY DEF DbInit
<1>2. contractRows \in Seq(Contract)
  BY <1>1, DbAssumption
<1>3. process = Off /\ process.at = "off" /\ imported = TRUE /\ forced = FALSE
  BY DEF DbInit, Off
<1>4. CASE storedState = NoState /\ contractRows = <<>>
  <2>1. Found = Fresh
    BY <1>4 DEF Found
  <2>2. Describes(Fresh, contractRows)
    BY <1>4 DEF Describes
  <2> QED
    BY <1>2, <1>3, <1>4, <2>1, <2>2, FreshState, Zenon DEF DbInv, DbTypes, Truthful, Whole, Progress, Believed
<1>5. CASE storedState \in State /\ Describes(storedState, contractRows)
  <2>1. Found = storedState \/ (storedState = NoState /\ Found = Fresh)
    BY DEF Found
  <2>2. CASE storedState # NoState
    BY <1>2, <1>3, <1>5, <2>1, <2>2, Zenon DEF DbInv, DbTypes, Truthful, Whole, Progress, Believed
  <2>3. CASE storedState = NoState
    BY <1>5, <2>3, NoStateApart
  <2> QED
    BY <2>2, <2>3
<1> QED
  BY <1>1, <1>4, <1>5, DbAssumption

\* A start, a death and the repair of a database: the rows and the import stay.
LEMMA OutsideInv ==
  ASSUME DbInv, \/ \E mode \in Modes : NewRocksDB(mode)
                \/ Dies \/ \E force \in BOOLEAN : RepairRocksDB(force)
  PROVE  DbInv'
<1>1. CASE \E mode \in Modes : NewRocksDB(mode)
  <2>1. PICK mode \in Modes : NewRocksDB(mode)
    BY <1>1
  <2>2. process' \in Running /\ process'.at = "open" /\ process'.is = NoState
    BY <2>1 DEF NewRocksDB, Running
  <2>3. UNCHANGED <<storedState, contractRows, imported, forced>> /\ Found' = Found /\ Whole' = Whole
    BY <2>1, Zenon DEF NewRocksDB, dbData, Found, Whole
  <2> QED
    BY <2>2, <2>3 DEF DbInv, DbTypes, Progress, Believed
<1>2. CASE Dies
  <2>1. process' = Off /\ process'.at = "off"
    BY <1>2 DEF Dies, Off
  <2>2. UNCHANGED <<storedState, contractRows, imported, forced>> /\ Found' = Found /\ Whole' = Whole
    BY <1>2 DEF Dies, dbData, Found, Whole
  <2> QED
    BY <2>1, <2>2 DEF DbInv, DbTypes, Progress, Believed
<1>3. CASE \E force \in BOOLEAN : RepairRocksDB(force)
  <2>1. PICK force \in BOOLEAN : RepairRocksDB(force)
    BY <1>3
  <2>2. /\ process = Off /\ storedState # NoState /\ forced' = TRUE
        /\ storedState' = [storedState EXCEPT !.dbState = "open"]
        /\ UNCHANGED <<contractRows, imported, process>>
    BY <2>1 DEF RepairRocksDB, checkAndResetStateAfterRepair, Store, dbData
  <2>3. storedState \in State /\ Found = storedState /\ process.at = "off"
    BY <2>2 DEF DbInv, DbTypes, Found, Off
  <2>4. storedState' \in State /\ storedState'.version = storedState.version /\ storedState'.sorted = storedState.sorted
    BY <2>2, <2>3 DEF State
  <2>5. Found' = storedState'
    BY <2>4, NoStateApart DEF Found
  <2>6. Truthful(Found, contractRows, Whole)'
    BY <2>2, <2>3, <2>4, <2>5 DEF DbInv, Truthful, Describes, Whole
  <2> QED
    BY <2>2, <2>3, <2>4, <2>6 DEF DbInv, DbTypes, Progress, Believed
<1> QED
  BY <1>1, <1>2, <1>3, Zenon

\* Close stores what the process goes by, or nothing.
LEMMA CloseInv ==
  ASSUME DbInv, process.at # "off", Close, UNCHANGED <<contractRows, imported, forced>>
  PROVE  DbInv'
<1>1. process' = Off /\ process'.at = "off" /\ Whole' = Whole
  BY Zenon DEF Close, Off, Whole
<1>2. CASE UNCHANGED storedState
  BY <1>1, <1>2, Zenon DEF DbInv, DbTypes, Found, Progress, Believed
<1>3. CASE process.is # NoState /\ process.is.dbState = "open" /\ storedState' = [process.is EXCEPT !.dbState = "closed"]
  <2>1. Truthful(process.is, contractRows, Whole)
    BY <1>3 DEF DbInv, Believed
  <2>2. storedState' \in State /\ storedState'.version = process.is.version /\ storedState'.sorted = process.is.sorted
    BY <1>3, <2>1 DEF Truthful, State
  <2>3. Found' = storedState'
    BY <2>2, NoStateApart DEF Found
  <2>4. Truthful(storedState', contractRows, Whole)
    BY <1>3, <2>1, <2>2 DEF Truthful, Describes
  <2> QED
    BY <1>1, <2>2, <2>3, <2>4 DEF DbInv, DbTypes, Progress, Believed
<1> QED
  BY <1>2, <1>3 DEF Close, Store

\* The state is loaded as it is found, or the rows are to be migrated first.
LEMMA LoadInv == ASSUME DbInv, LoadInternalState PROVE DbInv'
<1>1. process.at = "open" /\ process \in Running /\ UNCHANGED <<contractRows, imported, forced>> /\ Whole' = Whole
  BY ProcessCases DEF LoadInternalState, dbData, DbInv, Whole
<1>2. CASE ~(Found.coin = "this" /\ checkColumns(Found))
  <2>1. Close
    BY <1>2, Zenon DEF LoadInternalState, Found
  <2> QED
    BY <1>1, <2>1, CloseInv
<1>3. CASE Found.coin = "this" /\ checkColumns(Found)
  <2>1. /\ process' = IF Found.version = DbVersion THEN [process EXCEPT !.at = "loaded", !.is = Found]
                       ELSE [process EXCEPT !.at = "migrate", !.row = 0]
        /\ UNCHANGED storedState
    BY <1>3, Zenon DEF LoadInternalState, Found
  <2>2. Found' = Found /\ Found \in State
    BY <2>1 DEF Found, DbInv, Truthful
  <2>3. CASE Found.version = DbVersion
    <3>1. process' \in Running /\ process'.at = "loaded" /\ process'.is = Found
      BY <1>1, <2>1, <2>2, <2>3, Zenon DEF Running
    <3> QED
      BY <1>1, <1>3, <2>1, <2>2, <2>3, <3>1 DEF DbInv, DbTypes, Progress, Believed
  <2>4. CASE Found.version # DbVersion
    <3>1. process' \in Running /\ process'.at = "migrate" /\ process'.is = NoState /\ process'.row = 0
      BY <1>1, <2>1, <2>4, Zenon DEF Running, DbInv
    <3>2. storedState \in State /\ storedState.version = DbVersion - 1 /\ storedState.coin = "this"
      BY <1>3, <2>2, <2>4, FreshState DEF Found, checkColumns
    <3>3. \A i \in DOMAIN contractRows : ~(i <= 0)
      BY DEF DbInv, DbTypes
    <3> QED
      BY <1>1, <2>1, <2>2, <3>1, <3>2, <3>3 DEF DbInv, DbTypes, Progress, Believed
  <2> QED
    BY <2>3, <2>4
<1> QED
  BY <1>2, <1>3

\* A batch of rows is repacked; the state in memory is that of the new format only when
\* the last row has been.
LEMMA MigrateInv == ASSUME DbInv, migrateAddrContracts PROVE DbInv'
<1> DEFINE upto == Min({process.row + RefreshRows, Len(contractRows)})
<1>1. /\ process.at = "migrate" /\ process \in Running /\ process.is = NoState
      /\ UNCHANGED <<storedState, imported, forced>> /\ Whole' = Whole /\ Found' = Found
  BY ProcessCases DEF migrateAddrContracts, DbInv, Whole, Found
<1>2. /\ storedState \in State /\ storedState.version = DbVersion - 1 /\ storedState.coin = "this"
      /\ \A i \in DOMAIN contractRows : i <= process.row => contractRows[i].format = DbVersion
  BY <1>1 DEF DbInv, Progress
<1>3. Found = storedState /\ Truthful(storedState, contractRows, Whole)
  BY <1>2, NoStateApart DEF Found, DbInv
<1>4. /\ contractRows' = [i \in DOMAIN contractRows |->
                          IF i \in (process.row + 1)..upto THEN Repacked(contractRows[i]) ELSE contractRows[i]]
      /\ process' = IF upto < Len(contractRows) THEN [process EXCEPT !.row = upto]
                    ELSE [process EXCEPT !.at = "loaded", !.row = 0,
                                         !.is = [storedState EXCEPT !.version = DbVersion]]
  BY Zenon DEF migrateAddrContracts
<1>5. /\ process.row \in Nat /\ Len(contractRows) \in Nat /\ contractRows \in Seq(Contract)
      /\ DOMAIN contractRows = 1..Len(contractRows)
  BY <1>1 DEF Running, DbInv, DbTypes
<1>6. upto \in Nat /\ upto <= Len(contractRows)
      /\ (upto < Len(contractRows) => upto >= process.row) /\ (~(upto < Len(contractRows)) => upto = Len(contractRows))
  BY <1>5, DbAssumption, MinOfTwo
<1> HIDE DEF upto
<1>7. \A row \in Contract : /\ Repacked(row) \in Contract /\ Repacked(row).format = DbVersion
                             /\ Repacked(row).sorted = row.sorted
  BY DbAssumption, Zenon DEF Repacked, Contract
<1>8. \A i \in DOMAIN contractRows : contractRows[i] \in Contract /\ i \in Nat
  BY DEF DbInv, DbTypes
<1>9. /\ contractRows' \in Seq(Contract) /\ DOMAIN contractRows' = DOMAIN contractRows
      /\ \A i \in DOMAIN contractRows :
           /\ contractRows'[i].sorted = contractRows[i].sorted
           /\ contractRows[i].format = DbVersion => contractRows'[i].format = DbVersion
           /\ i \in (process.row + 1)..upto => contractRows'[i].format = DbVersion
  BY <1>4, <1>5, <1>7, <1>8
<1>10. \A i \in DOMAIN contractRows : i <= upto => contractRows'[i].format = DbVersion
  <2> SUFFICES ASSUME NEW i \in DOMAIN contractRows, i <= upto PROVE contractRows'[i].format = DbVersion
    OBVIOUS
  <2>1. CASE i <= process.row
    BY <1>2, <1>9, <2>1
  <2>2. CASE ~(i <= process.row)
    <3>0. i \in Nat /\ process.row \in Nat /\ upto \in Nat
      BY <1>5, <1>6, <1>8, Zenon
    <3>1. i \in (process.row + 1)..upto
      BY <2>2, <3>0
    <3> QED
      BY <1>9, <3>1
  <2> QED
    BY <2>1, <2>2
<1>11. Truthful(storedState, contractRows', Whole)
  BY <1>2, <1>3, <1>9, DbAssumption, Zenon DEF Truthful, Describes
<1>12. CASE upto < Len(contractRows)
  <2>1. process' \in Running /\ process'.at = "migrate" /\ process'.is = NoState /\ process'.row = upto
    BY <1>1, <1>4, <1>6, <1>12, Zenon DEF Running
  <2> QED
    BY <1>1, <1>2, <1>3, <1>9, <1>10, <1>11, <2>1 DEF DbInv, DbTypes, Progress, Believed
<1>13. CASE ~(upto < Len(contractRows))
  <2> DEFINE is == [storedState EXCEPT !.version = DbVersion]
  <2>1. /\ is \in State /\ is.version = DbVersion /\ is.coin = "this" /\ is.sorted = storedState.sorted
        /\ is.dbState = storedState.dbState
    BY <1>2, DbAssumption DEF State
  <2>2. process' \in Running /\ process'.at = "loaded" /\ process'.is = is
    BY <1>1, <1>4, <1>13, <2>1, Zenon DEF Running
  <2> HIDE DEF is
  <2>3. Truthful(is, contractRows', Whole)
    BY <1>5, <1>6, <1>9, <1>10, <1>11, <1>13, <2>1 DEF Truthful, Describes
  <2> QED
    BY <1>1, <1>2, <1>3, <1>9, <1>11, <2>1, <2>2, <2>3 DEF DbInv, DbTypes, Progress, Believed
<1> QED
  BY <1>12, <1>13

\* The passes over the rows, and the flags that are set when they are through.
LEMMA PassesInv ==
  ASSUME DbInv, FixUtxos \/ FixedUtxos \/ SortAddressContracts \/ SortedAddressContracts
  PROVE  DbInv'
<1>1. process.at \in {"loaded", "fixed"} /\ process \in Running
      /\ UNCHANGED <<storedState, imported, forced>> /\ Whole' = Whole /\ Found' = Found
  BY ProcessCases DEF FixUtxos, FixedUtxos, SortAddressContracts, SortedAddressContracts, dbData, DbInv, Whole, Found
<1>2. /\ Truthful(process.is, contractRows, Whole) /\ Truthful(Found, contractRows, Whole)
      /\ process.is.version = DbVersion /\ process.is.coin = "this" /\ contractRows \in Seq(Contract)
  BY <1>1 DEF DbInv, DbTypes, Believed
<1>3. process.row \in Nat /\ process.is \in State
  BY <1>1, <1>2, Zenon DEF Running, Truthful
<1>4. CASE FixUtxos
  <2>1. process' \in Running /\ process'.at = "loaded" /\ process'.is = process.is /\ UNCHANGED contractRows
    BY <1>1, <1>3, <1>4 DEF FixUtxos, Running
  <2> QED
    BY <1>1, <1>2, <2>1 DEF DbInv, DbTypes, Progress, Believed
<1>5. CASE FixedUtxos
  <2> DEFINE is == [process.is EXCEPT !.utxoChecked = TRUE]
  <2>1. /\ is \in State /\ is.version = process.is.version /\ is.coin = process.is.coin
        /\ is.sorted = process.is.sorted /\ is.dbState = process.is.dbState
    BY <1>3, Zenon DEF State
  <2>2. process' \in Running /\ process'.at = "fixed" /\ process'.is = is /\ process'.row = 0 /\ UNCHANGED contractRows
    BY <1>1, <1>5, <2>1, Zenon DEF FixedUtxos, Running, dbData
  <2> HIDE DEF is
  <2>3. Truthful(is, contractRows, Whole) /\ \A i \in DOMAIN contractRows : ~(i <= 0)
    BY <1>2, <2>1 DEF Truthful, Describes
  <2> QED
    BY <1>1, <1>2, <2>1, <2>2, <2>3 DEF DbInv, DbTypes, Progress, Believed
<1>6. CASE SortAddressContracts
  <2> DEFINE n == process.row + 1
  <2>1. /\ process.at = "fixed" /\ n \in DOMAIN contractRows
        /\ contractRows' = [contractRows EXCEPT ![n].sorted = TRUE]
        /\ process' \in Running /\ process'.at = "fixed" /\ process'.is = process.is /\ process'.row = n
    BY <1>1, <1>2, <1>3, <1>6 DEF SortAddressContracts, Running
  <2> DEFINE new == [contractRows[n] EXCEPT !.sorted = TRUE]
  <2>a. contractRows' = [contractRows EXCEPT ![n] = new]
    BY <2>1
  <2>b. contractRows[n] \in Contract
    BY <1>2, <2>1
  <2>2. new \in Contract /\ new.sorted /\ new.format = contractRows[n].format
    BY <2>b, Zenon DEF Contract
  <2> HIDE DEF new
  <2>3. /\ contractRows' \in Seq(Contract) /\ DOMAIN contractRows' = DOMAIN contractRows
        /\ contractRows'[n].sorted /\ contractRows'[n].format = contractRows[n].format
        /\ \A i \in DOMAIN contractRows : i # n => contractRows'[i] = contractRows[i]
    BY <1>2, <2>1, <2>2, <2>a
  <2>4. \A i \in DOMAIN contractRows : i <= n => contractRows'[i].sorted
    BY <1>2, <1>3, <2>1, <2>3 DEF DbInv, Progress
  <2>5. Truthful(process.is, contractRows', Whole) /\ Truthful(Found, contractRows', Whole)
    BY <1>2, <2>3, Zenon DEF Truthful, Describes
  <2> QED
    BY <1>1, <1>2, <2>1, <2>3, <2>4, <2>5 DEF DbInv, DbTypes, Progress, Believed
<1>7. CASE SortedAddressContracts
  <2> DEFINE is == [process.is EXCEPT !.sorted = TRUE]
  <2>1. /\ is \in State /\ is.version = process.is.version /\ is.coin = process.is.coin
        /\ is.sorted /\ is.dbState = process.is.dbState
    BY <1>3, Zenon DEF State
  <2>2. process' \in Running /\ process'.at = "checked" /\ process'.is = is /\ UNCHANGED contractRows
    BY <1>1, <1>7, <2>1, ZenonT(60) DEF SortedAddressContracts, Running, dbData
  <2> HIDE DEF is
  <2>3. \A i \in DOMAIN contractRows : contractRows[i].sorted
    BY <1>2, <1>7 DEF SortedAddressContracts, DbInv, Progress, Truthful, Describes
  <2>4. Truthful(is, contractRows, Whole)
    BY <1>2, <2>1, <2>3 DEF Truthful, Describes
  <2> QED
    BY <1>1, <1>2, <2>1, <2>2, <2>4 DEF DbInv, DbTypes, Progress, Believed
<1> QED
  BY <1>4, <1>5, <1>6, <1>7

\* The checks at the end of the start, serving and the bulk import; every state that is
\* stored is the one the process goes by.
LEMMA ServingInv ==
  ASSUME DbInv, FixUtxoEnds \/ CheckDbState \/ Serve \/ InitBulkConnect \/ BulkConnectClose
  PROVE  DbInv'
<1>1. /\ process.at \in {"checked", "workers", "serving", "bulk"} /\ process \in Running
      /\ UNCHANGED <<contractRows, forced>>
  BY ProcessCases, Zenon DEF FixUtxoEnds, CheckDbState, Serve, InitBulkConnect, BulkConnectClose, dbData, DbInv
<1>2. /\ Truthful(process.is, contractRows, Whole) /\ contractRows \in Seq(Contract)
      /\ process.is.version = DbVersion /\ process.is.coin = "this" /\ process.is.sorted
  BY <1>1, Zenon DEF DbInv, DbTypes, Believed
<1>3. process.is \in State /\ imported \in BOOLEAN /\ forced \in BOOLEAN
  BY <1>2 DEF Truthful, DbInv, DbTypes
<1> DEFINE Marked(mark) == [process.is EXCEPT !.dbState = mark]
<1>4. \A mark \in {"open", "closed", "inconsistent"} :
        /\ Marked(mark) \in State /\ Marked(mark).version = process.is.version /\ Marked(mark).coin = process.is.coin
        /\ Marked(mark).sorted = process.is.sorted /\ Marked(mark).dbState = mark
  BY <1>3, Zenon DEF State
<1>5. CASE FixUtxoEnds
  <2>1. process' \in Running /\ process'.at = "ending" /\ process'.is = process.is
        /\ storedState' = process.is /\ UNCHANGED imported /\ Whole' = Whole
    BY <1>1, <1>5 DEF FixUtxoEnds, Running, dbData, Store, Whole
  <2>2. Found' = process.is
    BY <1>3, <2>1, NoStateApart DEF Found
  <2> QED
    BY <1>1, <1>2, <1>3, <2>1, <2>2 DEF DbInv, DbTypes, Progress, Believed
<1>6. CASE CheckDbState
  <2>1. UNCHANGED <<storedState, imported>> /\ Whole' = Whole /\ Found' = Found
    BY <1>1, <1>6 DEF CheckDbState, dbData, Whole, Found
  <2>2. CASE process' = [process EXCEPT !.at = "ending"]
    <3>1. process' \in Running /\ process'.at = "ending" /\ process'.is = process.is
      BY <1>1, <2>2, SMTT(30) DEF Running
    <3> QED
      BY <1>1, <1>2, <2>1, <3>1 DEF DbInv, DbTypes, Progress, Believed
  <2>3. CASE process.is.dbState # "inconsistent" /\ process' = [process EXCEPT !.at = "stats", !.is.dbState = "open"]
    <3>1. process' \in Running /\ process'.at = "stats" /\ process'.is = Marked("open")
      BY <1>1, <1>4, <2>3, Zenon DEF Running
    <3> HIDE DEF Marked
    <3>2. Truthful(Marked("open"), contractRows, Whole)
      BY <1>2, <1>4, <2>3 DEF Truthful, Describes
    <3> QED
      BY <1>1, <1>2, <1>4, <2>1, <3>1, <3>2, Zenon DEF DbInv, DbTypes, Progress, Believed
  <2>4. CASE process.is.dbState # "inconsistent" /\ process' = [process EXCEPT !.at = "workers"]
    <3>1. process' \in Running /\ process'.at = "workers" /\ process'.is = process.is
      BY <1>1, <2>4 DEF Running
    <3> QED
      BY <1>1, <1>2, <2>1, <2>4, <3>1 DEF DbInv, DbTypes, Progress, Believed
  <2> QED
    BY <1>6, <2>2, <2>3, <2>4 DEF CheckDbState
<1>7. CASE Serve
  <2>1. /\ process' \in Running /\ process'.at = "serving" /\ process'.is = Marked("open")
        /\ storedState' = Marked("open") /\ UNCHANGED imported /\ Whole' = Whole /\ process.at = "workers"
    <3>1. /\ process' = [process EXCEPT !.at = "serving", !.is.dbState = "open"] /\ process.at = "workers"
          /\ storedState' = Marked("open") /\ UNCHANGED <<imported, forced>>
      BY <1>7 DEF Serve, dbData, Store
    <3>2. process' = [process EXCEPT !.at = "serving", !.is = Marked("open")]
      BY <1>1, <3>1 DEF Running
    <3> HIDE DEF Marked
    <3>3. process' \in Running /\ process'.at = "serving" /\ process'.is = Marked("open")
      BY <1>1, <1>4, <3>2, Zenon DEF Running
    <3> QED
      BY <3>1, <3>3 DEF Whole
  <2> HIDE DEF Marked
  <2>2. Truthful(Marked("open"), contractRows, Whole)
    BY <1>2, <1>4, <2>1, Zenon DEF Truthful, Describes, DbInv, Believed
  <2>3. Found' = Marked("open")
    BY <1>4, <2>1, NoStateApart DEF Found
  <2> QED
    BY <1>1, <1>2, <1>3, <1>4, <2>1, <2>2, <2>3, Zenon DEF DbInv, DbTypes, Progress, Believed
<1>8. CASE InitBulkConnect
  <2>1. /\ process' \in Running /\ process'.at = "bulk" /\ process'.is = Marked("inconsistent")
        /\ process'.whole = imported
        /\ storedState' = Marked("inconsistent") /\ imported' = FALSE /\ process.at = "serving"
    BY <1>1, <1>3, <1>4, <1>8, Zenon DEF InitBulkConnect, Running, Store
  <2> HIDE DEF Marked
  <2>2. Truthful(Marked("inconsistent"), contractRows, Whole')
    BY <1>2, <1>4, <2>1 DEF Truthful, Describes
  <2>3. Found' = Marked("inconsistent")
    BY <1>4, <2>1, NoStateApart, Zenon DEF Found
  <2>4. imported \/ forced
    BY <1>2, <2>1, SMTT(30) DEF Truthful, DbInv, Believed, Whole
  <2> QED
    BY <1>1, <1>2, <1>3, <1>4, <2>1, <2>2, <2>3, <2>4, Zenon DEF DbInv, DbTypes, Progress, Believed
<1>9. CASE BulkConnectClose
  <2>1. /\ process' \in Running /\ process'.at = "serving" /\ process'.is = Marked("open")
        /\ storedState' = Marked("open") /\ imported' = process.whole /\ process.at = "bulk"
    BY <1>1, <1>4, <1>9, ZenonT(60) DEF BulkConnectClose, Running, Store
  <2>2. process.whole \in BOOLEAN /\ Whole'
    BY <1>1, <2>1, Zenon DEF DbInv, Believed, Whole, Running
  <2> HIDE DEF Marked
  <2>3. Truthful(Marked("open"), contractRows, Whole')
    BY <1>2, <1>4, <2>2, Zenon DEF Truthful, Describes
  <2>4. Found' = Marked("open")
    BY <1>4, <2>1, NoStateApart DEF Found
  <2> QED
    BY <1>1, <1>2, <1>3, <1>4, <2>1, <2>2, <2>3, <2>4, Zenon DEF DbInv, DbTypes, Progress, Believed
<1> QED
  BY <1>5, <1>6, <1>7, <1>8, <1>9

LEMMA DbNextInv == DbInv /\ [DbNext]_dbVars => DbInv'
<1> SUFFICES ASSUME DbInv, [DbNext]_dbVars PROVE DbInv'
  OBVIOUS
<1>1. CASE UNCHANGED dbVars
  BY <1>1 DEF dbVars, DbInv, DbTypes, Found, Whole, Progress, Believed
<1>2. CASE Ends
  <2>1. process.at # "off" /\ Close /\ UNCHANGED <<contractRows, imported, forced>>
    BY <1>2 DEF Ends, dbData
  <2> QED
    BY <2>1, CloseInv
<1> QED
  BY <1>1, <1>2, OutsideInv, LoadInv, MigrateInv, PassesInv, ServingInv, Zenon DEF DbNext

\* Whatever sequence of starts, modes, deaths, imports and repairs a database has been
\* through, a process that serves it finds its rows migrated and sorted and its import
\* whole, unless the mark of an interrupted import was removed by force (blockbook.go,
\* LoadInternalState, Close, RepairRocksDB).
THEOREM ServedIsReadyCorrect == DbSpec => []ServedIsReady
<1>1. DbInv => ServedIsReady
  BY DEF DbInv, Believed, Truthful, Describes, Whole, ServedIsReady, InterruptedImportRefused
<1> QED
  BY <1>1, DbInitInv, DbNextInv, PTL DEF DbSpec
=============================================================================
