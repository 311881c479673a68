---------------------------- MODULE FiatHistory ----------------------------
(***************************************************************************)
(* The daily fiat rates (fiat/fiat_rates.go, fiat/coingecko.go,            *)
(* fiat/bootstrap_state.go, the rows of db/fiat.go): the bootstrap of the  *)
(* full history, the daily update of every series, the repair of missing   *)
(* days at start, through provider errors, bans and restarts.              *)
(*                                                                         *)
(* A series is a currency the coin is priced in, or a token. A row (a      *)
(* ticker of a whole day) is the set of the series it has a rate of. Days  *)
(* are counted from 1; hour is 0 in the first hour of a day.               *)
(***************************************************************************)
EXTENDS Integers, Sequences, FiniteSets, FiniteSetsExt, Functions

CONSTANTS
  CurrencyList, Token,    \* series: the currencies in the provider's order, the tokens
  HistoryDaysLimit,       \* coingeckoHistoryDaysLimit, reconcileWindowDays
  MaxGapDays,             \* reconcileMaxGapDays
  MaxBootstrapAttempts,   \* maxHistoricalBootstrapAttempts
  TokenBatch,             \* tokens between two stores
  FiatPlans               \* [day, rows, complete, late, faults, flaky, until, restarts]: the database found at the first start, what
                          \* the provider serves late (a set of [s, x, from]) how it may fail, and for
                          \* which series or for the lists of series ("list"), the last day
                          \* and the number of restarts

VARIABLES
  fiatPlan, fiatDay, fiatHour,
  fiatRows,               \* the stored rows: a function from days
  bootstrapComplete,      \* the marker: "unset", "no" or "yes"
  bootstrapAttempts,
  daily,                  \* the days in the memory cache
  worker,                 \* the goroutine that downloads daily rates
  lastHistorical,         \* the day of the last finished cycle
  fiatRestarts,
  excused,                \* points an earlier request was not given, or did not ask for (history)
  overtaken               \* points still to be asked for when the repair stored a later day (history)

fiatVars == <<fiatPlan, fiatDay, fiatHour, fiatRows, bootstrapComplete, bootstrapAttempts, daily, worker,
              lastHistorical, fiatRestarts, excused, overtaken>>
clockVars == <<fiatPlan, fiatDay, fiatHour, fiatRestarts, overtaken>>
bootVars == <<bootstrapComplete, bootstrapAttempts>>

Currency == Range(CurrencyList)
Series == Currency \cup Token
Idle == [pc |-> "idle"]
RowAt(rows, x) == IF x \in DOMAIN rows THEN rows[x] ELSE {}
Outcome(s) == {"ok"} \cup (IF s \in fiatPlan.flaky THEN fiatPlan.faults ELSE {})

\* FiatRatesFindLastTicker: the last day with a rate of the series, 0 for none.
LastTicker(s) == Max({0} \cup {x \in DOMAIN fiatRows : s \in fiatRows[x]})

historicalBootstrapInProgress ==
  IF bootstrapComplete # "unset" THEN bootstrapComplete = "no" ELSE fiatRows = <<>>

FiatInit ==
  /\ fiatPlan \in FiatPlans
  /\ fiatDay = fiatPlan.day /\ fiatHour = 1
  /\ fiatRows = fiatPlan.rows /\ daily = {}
  /\ bootstrapComplete = fiatPlan.complete /\ bootstrapAttempts = 0
  /\ worker = [pc |-> "new"] /\ lastHistorical = 0 /\ fiatRestarts = 0
  /\ excused = {} /\ overtaken = {}

(***************************************************************************)
(* The provider                                                            *)
(***************************************************************************)

\* The whole days a market chart of the last n days has a rate of the series for.
DaysServed(s, n) == {x \in fiatDay - n + 1 .. fiatDay : x >= 1 /\ ~\E l \in fiatPlan.late : l.s = s /\ l.x = x /\ fiatDay < l.from}

\* fillFromMarketChart: a token is not added to a day without a row; other days are not touched.
fillFromMarketChart(batch, s, days) ==
  LET ok == {x \in days : s \in Currency \/ x \in DOMAIN fiatRows \cup DOMAIN batch}
  IN  [x \in DOMAIN batch \cup ok |->
         (IF x \in DOMAIN batch THEN batch[x] ELSE RowAt(fiatRows, x)) \cup (IF x \in ok THEN {s} ELSE {})]

\* Mutant: one day too few is asked for.
MutResolveHistoricalDays(last, allowMax) ==
  IF last = 0 THEN IF allowMax THEN fiatDay ELSE HistoryDaysLimit
  ELSE IF fiatDay - last > HistoryDaysLimit THEN HistoryDaysLimit ELSE IF fiatDay - last = 1 THEN 1 ELSE fiatDay - last - 1

\* How many days to ask for; 0 for nothing to do.
resolveHistoricalDays(last, allowMax) ==
  IF last = 0 THEN IF allowMax THEN fiatDay ELSE HistoryDaysLimit
  ELSE IF fiatDay - last > HistoryDaysLimit THEN HistoryDaysLimit ELSE fiatDay - last

\* What a request may leave out of a series: days the provider does not have, days before the
\* cap, and for a token the days without a row because a currency was not served for them.
Unserved(s) ==
  {<<x, s>> : x \in {y \in LastTicker(s) + 1 .. fiatDay :
                       \/ y \notin DaysServed(s, HistoryDaysLimit)
                       \/ s \in Token /\ \E c \in Currency : <<y, c>> \in excused}}

storeTickers(batch) == fiatRows' = [x \in DOMAIN fiatRows \cup DOMAIN batch |->
                                     IF x \in DOMAIN batch THEN batch[x] ELSE fiatRows[x]]

(***************************************************************************)
(* Start: NewFiatRates, then ReconcileHistoricalRatesAtStartup             *)
(***************************************************************************)

ensureHistoricalBootstrapState ==
  /\ worker.pc = "new"
  /\ bootstrapComplete' = IF historicalBootstrapInProgress THEN "no" ELSE "yes"
  /\ bootstrapAttempts' = IF bootstrapComplete = "unset" THEN 0 ELSE bootstrapAttempts
  /\ daily' = DOMAIN fiatRows
  /\ worker' = [pc |-> "reconcile"]
  /\ UNCHANGED <<clockVars, fiatRows, lastHistorical, excused>>

\* The days without a row from the first one in the window to the day before the tip; a history
\* that ends before the window leaves the whole window missing.
missingDayWindow ==
  LET window == fiatDay - HistoryDaysLimit
      last == fiatDay - 2
      present == {x \in DOMAIN fiatRows : window <= x /\ x <= last}
      from == IF present # {} THEN Min(present) ELSE window
  IN  IF present = {} /\ (fiatRows = <<>> \/ Max(DOMAIN fiatRows) >= window) THEN {}
      ELSE {x \in from .. last : x \notin DOMAIN fiatRows}

\* Whole days are looked for; the series are listed by two requests of which each may fail.
ReconcileScan ==
  /\ worker.pc = "reconcile"
  /\ \/ /\ historicalBootstrapInProgress \/ missingDayWindow = {} \/ Cardinality(missingDayWindow) >= MaxGapDays
        /\ worker' = Idle
     \/ /\ ~historicalBootstrapInProgress /\ missingDayWindow # {} /\ Cardinality(missingDayWindow) < MaxGapDays
        /\ \E o \in Outcome("list") :
             worker' = IF o # "ok" THEN Idle
                       ELSE [pc |-> "repair", missing |-> missingDayWindow, todo |-> Series, batch |-> <<>>, failed |-> {}]
  /\ UNCHANGED <<clockVars, fiatRows, bootVars, daily, lastHistorical, excused>>

\* A reconcileTarget; the currencies come before the tokens. A failed series is skipped, a ban, the
\* budget and a shutdown (abort) end the pass and drop what it fetched.
ReconcileFetch(s) ==
  /\ worker.pc = "repair" /\ s \in worker.todo /\ (s \in Token => worker.todo \subseteq Token)
  /\ \E o \in Outcome(s) :
       LET n == fiatDay - Min(worker.missing) + 1
           days == DaysServed(s, IF n > HistoryDaysLimit THEN HistoryDaysLimit ELSE n) \cap worker.missing
       IN  worker' = CASE o = "ok" -> [worker EXCEPT !.todo = @ \ {s}, !.batch = fillFromMarketChart(@, s, days),
                                                     !.failed = @ \cup {<<x, s>> : x \in worker.missing \ days}]
                       [] o = "fail" -> [worker EXCEPT !.todo = @ \ {s}, !.failed = @ \cup {<<x, s>> : x \in worker.missing}]
                       [] OTHER -> Idle
  /\ UNCHANGED <<clockVars, fiatRows, bootVars, daily, lastHistorical, excused>>

\* A complete pass is stored, and the cache loaded again.
ReconcileHistoricalRates ==
  /\ worker.pc = "repair" /\ worker.todo = {}
  /\ storeTickers(worker.batch)
  /\ daily' = DOMAIN fiatRows \cup DOMAIN worker.batch
  /\ excused' = excused \cup worker.failed
  /\ overtaken' = overtaken \cup {<<x, s>> \in (DOMAIN fiatRows) \X Series :
                                   x > LastTicker(s) /\ \E y \in DOMAIN worker.batch : y > x /\ s \in worker.batch[y]}
  /\ worker' = Idle
  /\ UNCHANGED <<fiatPlan, fiatDay, fiatHour, fiatRestarts, bootVars, lastHistorical>>

(***************************************************************************)
(* The daily cycle                                                         *)
(***************************************************************************)

Cycle(pc, boot) == [pc |-> pc, boot |-> boot, todo |-> {}, batch |-> <<>>, count |-> 0, hadFailures |-> FALSE]

\* runHistoricalLoop and the start of UpdateHistoricalTickers: the currencies are listed again.
CycleStart ==
  /\ worker.pc = "idle"
  /\ fiatDay # lastHistorical /\ fiatHour > 0
  /\ \E o \in Outcome("list") \ {"abort"} :
       worker' = IF o = "ok" THEN [Cycle("base", historicalBootstrapInProgress) EXCEPT !.todo = Currency]
                 ELSE Cycle("baseFailed", historicalBootstrapInProgress)
  /\ UNCHANGED <<clockVars, fiatRows, bootVars, daily, lastHistorical, excused>>

\* One series; a ban ends the pass, another error is left for the next run.
getHistoricalTicker(s, next) ==
  LET n == resolveHistoricalDays(LastTicker(s), worker.boot)
      done == [worker EXCEPT !.todo = @ \ {s}, !.count = @ + 1]
  IN  \E o \in IF n = 0 THEN {"ok"} ELSE Outcome(s) \ {"abort"} :
        /\ worker' = CASE o = "ok" -> [done EXCEPT !.batch = fillFromMarketChart(@, s, DaysServed(s, n))]
                       [] o = "fail" -> [done EXCEPT !.hadFailures = TRUE]
                       [] OTHER -> [worker EXCEPT !.pc = next, !.todo = {}]
        /\ excused' = IF o = "ok" /\ n > 0 THEN excused \cup Unserved(s) ELSE excused

UpdateHistoricalTickers(s) ==
  /\ worker.pc = "base" /\ worker.todo # {} /\ s = CurrencyList[Len(CurrencyList) - Cardinality(worker.todo) + 1]
  /\ getHistoricalTicker(s, "baseBanned")
  /\ UNCHANGED <<clockVars, fiatRows, bootVars, daily, lastHistorical>>

\* What was fetched is stored, after a ban too; then the cache is loaded.
BaseStore ==
  /\ worker.pc \in {"base", "baseBanned"} /\ worker.todo = {}
  /\ storeTickers(worker.batch)
  /\ LET failed == worker.pc = "baseBanned" \/ (worker.boot /\ worker.hadFailures)
     IN  /\ worker' = IF failed THEN Cycle("baseFailed", worker.boot)
                      ELSE Cycle(IF Token # {} THEN "tokens" ELSE "finish", worker.boot)
         /\ daily' = IF failed THEN daily ELSE DOMAIN fiatRows \cup DOMAIN worker.batch
  /\ UNCHANGED <<clockVars, bootVars, lastHistorical, excused>>

TokensStart ==
  /\ worker.pc = "tokens"
  /\ \E o \in Outcome("list") \ {"abort"} :
       worker' = IF o = "ok" THEN [worker EXCEPT !.pc = "token", !.todo = Token] ELSE [worker EXCEPT !.pc = "tokensFailed"]
  /\ UNCHANGED <<clockVars, fiatRows, bootVars, daily, lastHistorical, excused>>

UpdateHistoricalTokenTickers(s) ==
  /\ worker.pc = "token" /\ s \in worker.todo /\ (worker.count > 0 => worker.count % TokenBatch # 0)
  /\ getHistoricalTicker(s, "tokenBanned")
  /\ UNCHANGED <<clockVars, fiatRows, bootVars, daily, lastHistorical>>

\* Stored after every TokenBatch tokens and at the end.
TokenStore ==
  /\ \/ worker.pc \in {"token", "tokenBanned"} /\ worker.todo = {}
     \/ worker.pc = "token" /\ worker.count > 0 /\ worker.count % TokenBatch = 0
  /\ storeTickers(worker.batch)
  /\ worker' = IF worker.todo # {} THEN [worker EXCEPT !.batch = <<>>, !.count = 0]
               ELSE Cycle(IF worker.pc = "tokenBanned" THEN "tokensFailed" ELSE "finish", worker.boot)
  /\ UNCHANGED <<clockVars, bootVars, daily, lastHistorical, excused>>

\* Mutant: the attempts that are used up do not end the bootstrap.
MutRegisterHistoricalBootstrapAttemptFailure(done) ==
  /\ bootstrapAttempts' = (bootstrapAttempts + 1) % MaxBootstrapAttempts
  /\ UNCHANGED bootstrapComplete
  /\ lastHistorical' = IF done \/ bootstrapAttempts + 1 >= MaxBootstrapAttempts THEN fiatDay ELSE lastHistorical

\* A failed cycle of the bootstrap is counted; the last one ends it.
registerHistoricalBootstrapAttemptFailure(done) ==
  LET exhausted == bootstrapAttempts + 1 >= MaxBootstrapAttempts
  IN  /\ bootstrapAttempts' = IF exhausted THEN 0 ELSE bootstrapAttempts + 1
      /\ bootstrapComplete' = IF exhausted THEN "yes" ELSE bootstrapComplete
      /\ lastHistorical' = IF done \/ exhausted THEN fiatDay ELSE lastHistorical

\* runHistoricalCycle's end. A failed update of the tokens fails a cycle of the bootstrap only.
runHistoricalCycle ==
  /\ worker.pc \in {"baseFailed", "tokensFailed", "finish"}
  /\ CASE worker.pc = "finish" ->
            /\ bootstrapComplete' = IF worker.boot THEN "yes" ELSE bootstrapComplete
            /\ bootstrapAttempts' = IF worker.boot THEN 0 ELSE bootstrapAttempts
            /\ lastHistorical' = fiatDay
       [] worker.pc # "finish" /\ worker.boot -> registerHistoricalBootstrapAttemptFailure(FALSE)
       [] OTHER -> lastHistorical' = (IF worker.pc = "tokensFailed" THEN fiatDay ELSE lastHistorical) /\ UNCHANGED bootVars
  /\ worker' = Idle
  /\ UNCHANGED <<clockVars, fiatRows, daily, excused>>

(***************************************************************************)
(* Time and restarts                                                       *)
(***************************************************************************)

HourPasses ==
  /\ IF fiatHour = 0 THEN fiatHour' = 1 /\ UNCHANGED fiatDay
     ELSE fiatHour' = 0 /\ fiatDay' = fiatDay + 1 /\ fiatDay < fiatPlan.until
  /\ UNCHANGED <<fiatPlan, fiatRestarts, fiatRows, bootVars, daily, worker, lastHistorical, excused, overtaken>>

FiatRestart ==
  /\ fiatRestarts < fiatPlan.restarts /\ worker.pc # "new"
  /\ fiatRestarts' = fiatRestarts + 1
  /\ worker' = [pc |-> "new"] /\ lastHistorical' = 0 /\ daily' = {}
  /\ UNCHANGED <<fiatPlan, fiatDay, fiatHour, fiatRows, bootVars, excused, overtaken>>

Download ==
  \/ ensureHistoricalBootstrapState \/ ReconcileScan \/ ReconcileHistoricalRates
  \/ CycleStart \/ BaseStore \/ TokensStart \/ TokenStore \/ runHistoricalCycle
  \/ \E s \in Series : ReconcileFetch(s)
  \/ \E s \in Currency : UpdateHistoricalTickers(s)
  \/ \E s \in Token : UpdateHistoricalTokenTickers(s)

FiatNext == Download \/ HourPasses \/ FiatRestart

\* The goroutine runs on and the provider answers, with an error if need be; time passes.
FiatFairness == WF_fiatVars(Download) /\ WF_fiatVars(HourPasses)

(***************************************************************************)
(* Properties                                                              *)
(***************************************************************************)

\* Points of a stored day that no later request will ask for, because the series has a
\* later rate, though no earlier request was answered without them.
LostPoints ==
  {<<x, s>> \in (DOMAIN fiatRows) \X Series :
     s \notin fiatRows[x] /\ <<x, s>> \notin excused /\ \E y \in DOMAIN fiatRows : y > x /\ s \in fiatRows[y]}

\* No silent hole: between the first and the last rate of a series every day that has
\* a row has the series too, unless a request for it was answered without it or lay
\* beyond the cap on the history asked for. The daily update only ever asks for what
\* follows a series' last rate, and the repair only looks for days without a row, so a
\* hole left by a ban, a restart or a pass cut short would never be filled again. The
\* one exception is a day a repair has overtaken.
NoSilentHole == LostPoints \subseteq overtaken

\* The same without the exception. A failed update of a series is left for the next run
\* ("the rates will be updated next run"), and a day that misses a series "is not repaired
\* here; that is handled separately" (ReconcileHistoricalRates).
FailedPointsAskedAgain == LostPoints = {}

\* The bootstrap ends, however the provider fails (the attempts are counted in the
\* database, so that restarts do not begin anew); once over it is not begun again.
BootstrapEnds ==
  /\ []<>(bootstrapComplete # "no")
  /\ [][bootstrapComplete = "yes" => bootstrapComplete' = "yes"]_bootstrapComplete

\* "Bootstrap can be marked complete only after both base and token historical updates
\* finished successfully in this cycle" (runHistoricalCycle): a cycle that completes the
\* bootstrap has left no series without its history.
BootstrapWhole ==
  [][(worker.pc = "finish" /\ worker.boot /\ bootstrapComplete' = "yes") => \A s \in Series : LastTicker(s) > 0]_fiatVars
============================================================================
