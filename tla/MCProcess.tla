------------------------------ MODULE MCProcess ------------------------------
(***************************************************************************)
(* The running process beside the sync, for TLC: its goroutines and their  *)
(* end, the websocket server, the REST limiter, the runtime settings and   *)
(* the fiat rates.  The parts share no state, so a behaviour exercises one *)
(* of them, and the variables of the others keep their first values.       *)
(***************************************************************************)
EXTENDS Lifecycle, Websocket, RestLimiter, RuntimeSettings, FiatHistory, TLC

CONSTANTS k1, k2, adm1, adm2, usd, eur, tok, tk2

VARIABLE part

-----------------------------------------------------------------------------
\* Websocket: one scenario per kind of trouble. k1 and k2 connect from one address.

Msg(kind) == [kind |-> kind]
Watch(descs, nbt) == [kind |-> "subscribeAddresses", descs |-> descs, nbt |-> nbt]
Rates(currency, tokens) == [kind |-> "subscribeFiatRates", currency |-> currency, tokens |-> tokens]
Account(d) == [kind |-> "getAccountInfo", desc |-> d]
Pay(ins, outs) == [ins |-> ins, outs |-> outs]

Quiet == [conns |-> Conn, script |-> (k1 :> <<>> @@ k2 :> <<>>), ip |-> [c \in Conn |-> "ip"], white |-> {}, blocks |-> <<>>,
          txs |-> <<>>, tickers |-> <<>>, drops |-> FALSE, stops |-> FALSE, clock |-> 0]
Say(a) == [Quiet EXCEPT !.conns = {k1}, !.script[k1] = a]
Says(a, b) == [Quiet EXCEPT !.script = (k1 :> a @@ k2 :> b)]

Leaving == [Says(<<Msg("binary")>>, <<>>) EXCEPT !.stops = TRUE]

WsScenarios == {
  \* responses that hold a slot, a full queue, a failing peer
  [Say(<<Msg("getMempoolFilters"), Msg("getMempoolFilters"), Msg("read")>>) EXCEPT !.drops = TRUE],
  [Say(<<Msg("subscribeNewTransaction"), Msg("getMempoolFilters")>>) EXCEPT !.txs = <<{}, {}>>, !.stops = TRUE],
  \* subscriptions replaced and dropped while blocks arrive
  [Say(<<Watch({"a", "b"}, TRUE), Watch({"b"}, FALSE)>>) EXCEPT !.blocks = <<<<Pay({"a"}, {"b"})>>>>],
  [Says(<<Watch({"a"}, TRUE), Msg("binary")>>, <<Watch({"a"}, FALSE)>>) EXCEPT !.blocks = <<<<Pay({}, {"a"})>>>>],
  [Say(<<Watch({"a", "b"}, TRUE), Msg("unsubscribeAddresses")>>) EXCEPT
     !.blocks = <<<<Pay({}, {"a"}), Pay({}, {"a", "b"})>>>>],
  [Say(<<Watch({"a"}, TRUE)>>) EXCEPT !.blocks = <<<<Pay({}, {"a"})>>>>, !.stops = TRUE, !.txs = <<{"a"}>>],
  [Say(<<Msg("subscribeNewBlock"), Rates("usd", TRUE), Msg("unsubscribeNewBlock")>>) EXCEPT
     !.blocks = <<<<>>>>, !.tickers = <<{"usd"}>>],
  [Say(<<Rates("!ALL!", FALSE), Msg("unsubscribeFiatRates"), Msg("unsubscribeNewTransaction")>>) EXCEPT !.tickers = <<{"usd"}>>],
  \* limits of a client
  [Say(<<Account("x"), Account("y"), Msg("unknown")>>) EXCEPT !.stops = TRUE],
  [Say(<<Msg("ping"), Msg("ping"), Msg("read"), Msg("ping"), Msg("read")>>) EXCEPT !.clock = 3],
  [Says(<<Msg("ping"), Msg("ping"), Msg("ping"), Msg("ping")>>, <<Msg("read")>>) EXCEPT !.clock = 1, !.white = {k2}],
  [Says(<<Msg("binary")>>, <<Msg("tooLarge")>>) EXCEPT !.drops = TRUE, !.clock = 2],
  Leaving}

-----------------------------------------------------------------------------
\* RestLimiter: peers and headers.

Home(h) == [v6 |-> TRUE, net |-> "home", host |-> h]
Office == [v6 |-> FALSE, net |-> "office", host |-> 1]
Edge == [v6 |-> FALSE, net |-> "edge", host |-> 1]
Local == [v6 |-> FALSE, net |-> "private", host |-> 1]
Direct(a) == [route |-> "limited", peer |-> a, cf |-> NoHeader, cf6 |-> NoHeader, real |-> NoHeader]
Via(e, a) == [Direct(e) EXCEPT !.cf = a]

\* Peers and headers of every kind, for attribution alone.
Headers ==
  LET addrs == {Home(1), Office, Edge, Local, NoHeader, Garbled}
  IN  [route : {"limited", "static"}, peer : addrs, cf : addrs, cf6 : {NoHeader, Home(2)}, real : addrs]

RestScenarios == {
  \* two hosts of one network, a burst
  [requests |-> {Direct(Home(1)), Via(Edge, Home(2))}, atOnce |-> 1, until |-> 5, counted |-> TRUE],
  \* more at once than the cap allows, three keys for a table of two
  [requests |-> {Direct(Home(1)), Direct([Office EXCEPT !.host = 2]), Via(Edge, Garbled)}, atOnce |-> 2, until |-> 3, counted |-> FALSE],
  [requests |-> Headers, atOnce |-> 0, until |-> 0, counted |-> FALSE]}

-----------------------------------------------------------------------------
\* RuntimeSettings: a blank variable, and values that parse and do not.

Environment(rpc, others) == [k \in SettingKey |-> IF k = "ALLOWED_RPC_CALL_TO" THEN rpc ELSE others]
EnvChoices == {Environment("", "two"), Environment("blank", "bad")}

-----------------------------------------------------------------------------
\* FiatHistory: two currencies, two tokens.

Currencies == <<usd, eur>>
Whole(days) == [x \in days |-> Currency \cup Token]
Fresh == [day |-> 2, rows |-> <<>>, complete |-> "unset", late |-> {}, faults |-> {"fail", "ban"},
          flaky |-> {"list", eur, tok}, until |-> 2, restarts |-> 1]
FiatScenarios == {
  Fresh,
  \* an older database, and a provider that has a day late for everybody: a hole, to be repaired at the restart
  [Fresh EXCEPT !.day = 4, !.rows = Whole({1, 2}), !.late = [s : Currency \cup Token, x : {4}, from : {6}], !.until = 6,
                !.faults = {"fail"}, !.flaky = {tok}],
  \* a repair that is cut short
  [Fresh EXCEPT !.day = 5, !.rows = Whole({2, 4}), !.complete = "yes", !.faults = {"fail", "ban", "abort"}, !.until = 5,
                !.flaky = {eur, tok}],
  \* a gap beyond the cap, and one too large to repair
  [Fresh EXCEPT !.day = 5, !.rows = Whole({1}), !.complete = "yes", !.faults = {"ban"}, !.flaky = {"list", tok}, !.until = 6]}

-----------------------------------------------------------------------------
InLife == part = "life"
InWs == part = "websocket"
InRest == part = "rest"
InSettings == part = "settings"
InFiat == part = "fiat"

ProcessInit ==
  /\ part \in {"life", "websocket", "rest", "settings", "fiat"}
  /\ LifeInit
  /\ WsInit /\ (~InWs => wsPlan = Leaving)
  /\ RestInit /\ (~InRest => restPlan.counted)
  /\ RsInit /\ (~InSettings => \A k \in SettingKey : rsEnv[k] \in {"", "two"} /\ rsStored[k] = Missing)
  /\ FiatInit /\ (~InFiat => fiatPlan = Fresh)

ProcessNext ==
  /\ \/ InLife /\ LifeNext /\ UNCHANGED <<wsVars, restVars, rsVars, fiatVars>>
     \/ InWs /\ WsNext /\ UNCHANGED <<lifeVars, restVars, rsVars, fiatVars>>
     \/ InRest /\ RestNext /\ UNCHANGED <<lifeVars, wsVars, rsVars, fiatVars>>
     \/ InSettings /\ RsNext /\ UNCHANGED <<lifeVars, wsVars, restVars, fiatVars>>
     \/ InFiat /\ FiatNext /\ UNCHANGED <<lifeVars, wsVars, restVars, rsVars>>
  /\ UNCHANGED part

\* With the fairness of each module.
ProcessSpec ==
  /\ ProcessInit /\ [][ProcessNext]_<<part, lifeVars, wsVars, restVars, rsVars, fiatVars>>
  /\ WF_lifeVars(InLife /\ MainStep) /\ WF_lifeVars(InLife /\ HealStop) /\ WF_lifeVars(InLife /\ HealInternalData)
  /\ \A c \in Loop : /\ WF_lifeVars(InLife /\ TimerStep(c))
                          /\ WF_lifeVars(InLife /\ Trigger(c)) /\ WF_lifeVars(InLife /\ LoopClosed(c))
  /\ \A c \in Conn : WF_wsVars(InWs /\ WsOwn(c))
  /\ WF_wsVars(InWs /\ \E g \in work : WsWork(g))
  /\ WF_wsVars(InWs /\ ShutdownWait)
  /\ WF_fiatVars(InFiat /\ Download) /\ WF_fiatVars(InFiat /\ HourPasses)

-----------------------------------------------------------------------------
\* What the servers count is what there is: the slots and the books of the websocket server, the requests and the
\* rate of a REST client and whom a request is counted for (websocket.go, connection_limiter.go, rest_limiter.go).
ServerBooks ==
  /\ InWs => SlotsHeld /\ BooksBalance /\ NoReadAfterClose
  /\ InRest => RestActiveExact /\ RateBounded /\ AttributionSound

\* What a client or a provider cannot hold up: every ended connection leaves the books and Shutdown returns
\* (websocket.go), and the bootstrap of the fiat rates ends (fiat_rates.go).
NothingHeldUp == Settles /\ BootstrapEnds
=============================================================================
