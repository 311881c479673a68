----------------------------- MODULE FiatLookup -----------------------------
(***************************************************************************)
(* Looking fiat rates up (fiat/fiat_rates.go, db/fiat.go,                  *)
(* api/fiat_rates_api.go, api/fiat_balance_history.go): the caches built   *)
(* from the stored tickers, the lookup of many timestamps in one pass over *)
(* them and the answers made of the tickers found.                         *)
(*                                                                         *)
(* A ticker is [at, rates, tokens]: its time, the currencies and the       *)
(* tokens it has a rate of. A query fixes what is stored and what is asked *)
(* for; there is one state for each.                                       *)
(***************************************************************************)
EXTENDS Integers, Sequences, SequencesExt, FiniteSetsExt

CONSTANTS
  SecondsInDay, SecondsInHour, SecondsInFiveMinutes,
  HighGranularityVs,      \* highGranularityVsCurrency, the only currency of the hourly and 5 minute tickers
  MaxFiatRatesTimestamps,
  FiatQueries             \* [daily, hourly, five: sequences of tickers in time order; current: a ticker or
                          \* NoTicker; times: sequence; currencies: sequence; token]
VARIABLE fiatQuery

None == "none"            \* no currency, no token
NoTicker == [at |-> -1]
NoCache == [map |-> <<>>, from |-> 0, to |-> 0]

roundUnix(t, g) == LET u == t + g \div 2 IN u - (u % g)
ceilUnix(t, g) == LET u == t + g - 1 IN u - (u % g)

IsSuitableTicker(k, vs, token) == (vs # None => vs \in k.rates) /\ (token # None => token \in k.tokens)

(***************************************************************************)
(* The caches                                                              *)
(***************************************************************************)

\* One more ticker: periods without one up to it get it, further ones of the first period are dropped.
AddTicker(c, k, g) ==
  LET n == roundUnix(k.at, g)
  IN  IF c.map = <<>> THEN [map |-> [t \in {n} |-> k], from |-> n, to |-> n]
      ELSE IF n = c.from THEN c
      ELSE [c EXCEPT !.map = [t \in DOMAIN @ \cup {n} \cup {c.to + i * g : i \in 1 .. (n - c.to) \div g} |->
                                IF t > c.to \/ t = n THEN k ELSE @[t]],
                     !.to = n]

loadDailyTickers(q) ==
  FoldLeft(LAMBDA c, k : AddTicker(c, [k EXCEPT !.tokens = {}], SecondsInDay), NoCache, q.daily)

\* The other currencies follow from the daily ticker of the same day, or the current one.
tickersToMap(q, list, g) ==
  LET daily == loadDailyTickers(q)
      Base(k) == LET d == roundUnix(k.at, SecondsInDay)
                 IN  IF d \in DOMAIN daily.map THEN daily.map[d] ELSE q.current
      Crossed(k) == IF Base(k) # NoTicker /\ HighGranularityVs \in Base(k).rates /\ HighGranularityVs \in k.rates
                    THEN [k EXCEPT !.rates = @ \cup Base(k).rates] ELSE k
  IN  FoldLeft(LAMBDA c, k : AddTicker(c, Crossed(k), g), NoCache, list)

(***************************************************************************)
(* Lookups                                                                 *)
(***************************************************************************)

\* The ticker of a finer cache, for a time that is not midnight.
Finer(c, t, g, vs) ==
  IF t % SecondsInDay # 0 /\ t >= c.from /\ t <= c.to /\ ceilUnix(t, g) \in DOMAIN c.map
       /\ IsSuitableTicker(c.map[ceilUnix(t, g)], vs, None)
  THEN c.map[ceilUnix(t, g)] ELSE NoTicker

\* The first suitable daily ticker from the midnight after the time, or else the current one.
Daily(q, c, t, vs) ==
  LET days == {d \in DOMAIN c.map : d >= ceilUnix(t, SecondsInDay) /\ d <= c.to /\ IsSuitableTicker(c.map[d], vs, None)}
  IN  IF days # {} THEN c.map[Min(days)] ELSE q.current

\* The timestamps in their order; the last daily ticker found serves as long as it covers the time.
GetTickersForTimestamps(q, vs) ==
  LET five == tickersToMap(q, q.five, SecondsInFiveMinutes)
      hourly == tickersToMap(q, q.hourly, SecondsInHour)
      daily == loadDailyTickers(q)
      Step(a, t) ==
        LET f == Finer(five, t, SecondsInFiveMinutes, vs)
            h == Finer(hourly, t, SecondsInHour, vs)
        IN  IF f # NoTicker THEN [a EXCEPT !.out = Append(@, f)]
            ELSE IF h # NoTicker THEN [a EXCEPT !.out = Append(@, h)]
            ELSE IF a.prev # NoTicker /\ t >= a.prevTs /\ t <= a.prev.at THEN [a EXCEPT !.out = Append(@, a.prev)]
            ELSE LET k == Daily(q, daily, t, vs) IN [out |-> Append(a.out, k), prev |-> k, prevTs |-> t]
  IN  FoldLeft(Step, [out |-> <<>>, prev |-> NoTicker, prevTs |-> 0], q.times).out

\* From a position in the stored tickers to the next suitable one (getTickerFromIterator).
Suitable(q, i, vs, token) ==
  LET js == {j \in i .. Len(q.daily) : IsSuitableTicker(q.daily[j], vs, token)}
  IN  IF js = {} THEN Len(q.daily) + 1 ELSE Min(js)

Seek(q, t) == Cardinality({j \in DOMAIN q.daily : q.daily[j].at < t}) + 1

FiatRatesFindTicker(q, t, vs, token) ==
  LET i == Suitable(q, Seek(q, t), vs, token) IN IF i > Len(q.daily) THEN NoTicker ELSE q.daily[i]

\* One forward pass for ascending times: the iterator moves only if it is before the time.
FiatRatesFindTickers(q, times, vs, token) ==
  LET Step(a, t) ==
        LET from == IF a.at = 0 \/ (a.at <= Len(q.daily) /\ q.daily[a.at].at < t) THEN Seek(q, t) ELSE a.at
            i == Suitable(q, from, vs, token)
        IN  [at |-> i, out |-> Append(a.out, IF i > Len(q.daily) THEN NoTicker ELSE q.daily[i])]
  IN  FoldLeft(Step, [at |-> 0, out |-> <<>>], times).out

GetCurrentTicker(q, vs, token) ==
  IF q.current # NoTicker /\ IsSuitableTicker(q.current, vs, token) THEN q.current ELSE NoTicker

\* Each time once, in ascending order, then back in the order asked for.
getTokenTickersForTimestamps(q, vs) ==
  LET unique == SetToSortSeq(ToSet(q.times), <)
      found == FiatRatesFindTickers(q, unique, vs, q.token)
      Of(t) == found[CHOOSE i \in DOMAIN unique : unique[i] = t]
  IN  [i \in DOMAIN q.times |-> IF GetCurrentTicker(q, None, q.token) = NoTicker THEN NoTicker
                                ELSE IF Of(q.times[i]) = NoTicker THEN q.current ELSE Of(q.times[i])]

Tickers(q, vs) == IF q.token # None THEN getTokenTickersForTimestamps(q, vs) ELSE GetTickersForTimestamps(q, vs)

(***************************************************************************)
(* Answers: currency -> is there a rate (or else -1)                       *)
(***************************************************************************)

normalizeFiatCurrencies(list) == ToSet(list)
VsCurrency(list) == LET cs == normalizeFiatCurrencies(list) IN IF Cardinality(cs) = 1 THEN CHOOSE c \in cs : TRUE ELSE None

makeErrorRates(list) == [c \in normalizeFiatCurrencies(list) |-> FALSE]

\* A token's rate in a currency needs the token and the currency (TokenRateInCurrency).
getFiatRatesResult(q, k) ==
  LET cs == IF q.currencies = <<>> THEN k.rates ELSE normalizeFiatCurrencies(q.currencies)
  IN  [at |-> k.at, rates |-> [c \in cs |-> c \in k.rates /\ (q.token # None => q.token \in k.tokens)]]

GetCurrentFiatRates(q) ==
  LET vs == VsCurrency(q.currencies)
      k == GetCurrentTicker(q, vs, q.token)
      stored == SelectSeq(q.daily, LAMBDA d : IsSuitableTicker(d, vs, None))
  IN  IF k # NoTicker THEN getFiatRatesResult(q, k)
      ELSE IF q.token = None /\ stored # <<>> THEN getFiatRatesResult(q, Last(stored)) ELSE NoTicker

GetFiatRatesForTimestamps(q) ==
  IF q.times = <<>> \/ Len(q.times) > MaxFiatRatesTimestamps THEN <<>>
  ELSE LET ks == Tickers(q, VsCurrency(q.currencies))
       IN  [i \in DOMAIN ks |-> IF ks[i] = NoTicker THEN [at |-> q.times[i], rates |-> makeErrorRates(q.currencies)]
                                ELSE getFiatRatesResult(q, ks[i])]

GetAvailableVsCurrencies(q) ==
  LET k == Tickers([q EXCEPT !.times = <<q.times[1]>>], None)[1] IN IF k = NoTicker THEN {} ELSE k.rates

applyTickerToBalanceHistory(q, k) ==
  IF k = NoTicker THEN <<>>
  ELSE [c \in IF q.currencies = <<>> THEN k.rates ELSE normalizeFiatCurrencies(q.currencies) |-> c \in k.rates]

\* The points of a balance history get their rates from one lookup, and from one each if it fails.
setFiatRateToBalanceHistories(q, batchFails) ==
  [i \in DOMAIN q.times |->
     applyTickerToBalanceHistory(q, IF batchFails THEN GetTickersForTimestamps([q EXCEPT !.times = <<q.times[i]>>], None)[1]
                                    ELSE GetTickersForTimestamps(q, None)[i])]

NoQuery == [none |-> TRUE]
FiatQueryInit == fiatQuery = NoQuery
AskFiat == fiatQuery = NoQuery /\ fiatQuery' \in FiatQueries

(***************************************************************************)
(* Properties                                                              *)
(***************************************************************************)

\* The ticker of period g that serves time t: the stored ticker of the list nearest at or
\* after it (several in the first period: the first; in another one: the last).
ServingTicker(list, t, g) ==
  LET rounded == {roundUnix(list[i].at, g) : i \in DOMAIN list}
      n == Min({r \in rounded : r >= ceilUnix(t, g)})
      js == {j \in DOMAIN list : roundUnix(list[j].at, g) = n}
  IN  IF list = <<>> \/ ~\E r \in rounded : r >= ceilUnix(t, g) THEN {}
      ELSE {list[IF n = Min(rounded) THEN Min(js) ELSE Max(js)]}

LookupRight(q) ==
  LET vs == VsCurrency(q.currencies)
      out == Tickers(q, vs)
      day(t) == {i \in DOMAIN q.daily : q.daily[i].at >= ceilUnix(t, SecondsInDay) /\ IsSuitableTicker(q.daily[i], vs, None)}
      fine(t) == {k \in ServingTicker(q.five, t, SecondsInFiveMinutes) : t >= roundUnix(q.five[1].at, SecondsInFiveMinutes)}
      hour(t) == {k \in ServingTicker(q.hourly, t, SecondsInHour) : t >= roundUnix(q.hourly[1].at, SecondsInHour)}
      has(ks, out1) == \E k \in ks : out1.at = k.at
      token(t) == {i \in DOMAIN q.daily : q.daily[i].at >= t /\ IsSuitableTicker(q.daily[i], vs, q.token)}
  IN  /\ Len(out) = Len(q.times)
      /\ \A i \in DOMAIN q.times :
           LET t == q.times[i]
           IN  IF q.token # None
               THEN out[i] = IF GetCurrentTicker(q, None, q.token) = NoTicker THEN NoTicker
                             ELSE IF token(t) # {} THEN q.daily[Min(token(t))] ELSE q.current
               ELSE \/ t % SecondsInDay # 0 /\ (has(fine(t), out[i]) \/ has(hour(t), out[i]))
                    \/ out[i].at = IF day(t) # {} THEN q.daily[Min(day(t))].at ELSE q.current.at
      /\ q.token = None => setFiatRateToBalanceHistories(q, TRUE) = setFiatRateToBalanceHistories(q, FALSE)

\* The lookups, each of which goes once over caches whose gaps were filled and reuses
\* the last ticker found, answer every timestamp as if it were the only one, whatever
\* the order they come in: with the finest stored ticker at or after it, then the first
\* daily one that has the currency and the token, then the current one. The rates of a
\* balance history are the same when the batch fails and each point is looked up alone.
LookupExact == [][fiatQuery' # NoQuery => LookupRight(fiatQuery')]_fiatQuery

OfferAnswered(q) ==
  LET Ask(c) == GetFiatRatesForTimestamps([q EXCEPT !.currencies = <<c>>])
      vs == VsCurrency(q.currencies)
      Has(k) == vs \in k.rates /\ (q.token # None => q.token \in k.tokens)
  IN  /\ \A c \in GetAvailableVsCurrencies(q) : Ask(c)[1].rates[c]
      /\ vs # None /\ q.token = None =>
           \A i \in DOMAIN q.times :
             ~Ask(vs)[i].rates[vs] => \A k \in ToSet(q.daily) \cup ({q.current} \ {NoTicker}) : (k.at >= q.times[i] \/ k = q.current) => ~Has(k)
      /\ (vs # None /\ GetCurrentFiatRates(q) # NoTicker) => GetCurrentFiatRates(q).rates[vs]

\* What the interface offers it delivers: a currency listed as available at a time has a
\* rate when it is asked for at that time, and a single currency is answered with no
\* rate only if no stored ticker from that time on and not the current one has it.
OfferedIsAnswered == [][fiatQuery' # NoQuery => OfferAnswered(fiatQuery')]_fiatQuery
=============================================================================
