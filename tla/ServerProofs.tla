---------------------------- MODULE ServerProofs ----------------------------
(***************************************************************************)
(* Theorems about what the public server enforces: the runtime settings    *)
(* that outlive a restart (RuntimeSettings), and the blocks of the REST    *)
(* limiter (RestLimiter), whatever the limits, clients and requests are.   *)
(***************************************************************************)
EXTENDS RuntimeSettings, RestLimiter, TLAPS

-----------------------------------------------------------------------------
\* The runtime settings (runtime_settings.go).

\* What a snapshot has for a key whose stored override is v, and whether v, or the
\* environment when there is no override, can be parsed.
RowOf(env, k, v) ==
  IF v # Missing THEN [value |-> v, source |-> "db", set |-> parse(k, v).set]
  ELSE [value |-> env[k], source |-> IF env[k] = "" THEN "unset" ELSE "env", set |-> parse(k, env[k]).set]

Parses(env, k, v) ==
  IF v # Missing THEN parse(k, v).ok ELSE env[k] # "blank" /\ parse(k, env[k]).ok

Rows(env, stored) == [k \in SettingKey |-> RowOf(env, k, stored[k])]

\* What the entries of a list stand for.
Listed == {"unrestricted", "x", "y", "bad"}

Row == [value : RawValue, source : {"db", "env", "unset"}, set : SUBSET Listed]
Request == [pc : {"wait", "write"}, key : SettingKey, value : RawValue \cup {Missing}, set : SUBSET Listed,
            source : {"db", "env", "unset"}]

RsTypes ==
  /\ rsEnv \in [SettingKey -> RawValue]
  /\ rsStored \in [SettingKey -> RawValue \cup {Missing}]
  /\ rsLive = Nil \/ rsLive \in [SettingKey -> Row]
  /\ rsServer \in [Server -> [pc : {"check", "publish", "up", "failed"}, built : {Nil} \cup [SettingKey -> Row]]]
  /\ rsAdmin \in [Admin -> {NoRequest} \cup Request]

\* A request carries what it was validated with, and there is a snapshot it will change.
Validated ==
  \A a \in Admin : LET q == rsAdmin[a] IN
    q # NoRequest => /\ rsLive # Nil
                     /\ Parses(rsEnv, q.key, q.value)
                     /\ q.set = RowOf(rsEnv, q.key, q.value).set /\ q.source = RowOf(rsEnv, q.key, q.value).source

\* The mutex; the request that holds it has stored its value.
OneWriter ==
  /\ \A a, b \in Admin : rsAdmin[a].pc = "write" /\ rsAdmin[b].pc = "write" => a = b
  /\ \A a \in Admin : rsAdmin[a].pc = "write" => rsStored[rsAdmin[a].key] = rsAdmin[a].value

\* A server that is up has found or published a snapshot; one about to publish has built
\* it from the settings as they still are, unless the other server was first.
Starting ==
  \A s \in Server :
    /\ rsServer[s].pc = "up" => rsLive # Nil
    /\ rsServer[s].pc = "publish" /\ rsLive = Nil =>
         /\ \A k \in SettingKey : Parses(rsEnv, k, rsStored[k])
         /\ rsServer[s].built = Rows(rsEnv, rsStored)

\* The snapshot, key by key: only the key being written may differ from what is stored.
Enforced ==
  rsLive # Nil =>
    \A k \in SettingKey :
      /\ Parses(rsEnv, k, rsStored[k])
      /\ (\A a \in Admin : rsAdmin[a].pc = "write" => rsAdmin[a].key # k) => rsLive[k] = RowOf(rsEnv, k, rsStored[k])

RsInv == RsTypes /\ Validated /\ OneWriter /\ Starting /\ Enforced

\* A snapshot of the two keys is not the missing one.
LEMMA NotNil == ASSUME NEW f \in [SettingKey -> Row] PROVE f # Nil
<1>1. DOMAIN f = SettingKey /\ "ALLOWED_RPC_CALL_TO" \in SettingKey
  BY DEF SettingKey
<1>2. DOMAIN Nil = {}
  BY DEF Nil
<1> QED
  BY <1>1, <1>2

LEMMA ParseType ==
  ASSUME NEW k \in SettingKey, NEW v \in RawValue
  PROVE  parse(k, v).set \in SUBSET Listed /\ parse(k, v).ok \in BOOLEAN
<1>1. Unlisted \in SUBSET Listed /\ Entries(v) \in SUBSET Listed
  BY DEF Unlisted, Entries, Listed
<1>2. parseAllowedRpcCallTo(v).set \in SUBSET Listed /\ parseAllowedRpcCallTo(v).ok \in BOOLEAN
  BY <1>1 DEF parseAllowedRpcCallTo, Fails
<1>3. parseAllowedEvmCallMethods(v).set \in SUBSET Listed /\ parseAllowedEvmCallMethods(v).ok \in BOOLEAN
  BY <1>1 DEF parseAllowedEvmCallMethods, Fails
<1> QED
  BY <1>2, <1>3 DEF parse

LEMMA RowType ==
  ASSUME NEW env \in [SettingKey -> RawValue], NEW k \in SettingKey, NEW v \in RawValue \cup {Missing}
  PROVE  RowOf(env, k, v) \in Row
<1>1. CASE v = Missing
  <2>1. env[k] \in RawValue /\ parse(k, env[k]).set \in SUBSET Listed
    BY ParseType
  <2> QED
    BY <1>1, <2>1 DEF RowOf, Row
<1>2. CASE v # Missing
  <2>1. parse(k, v).set \in SUBSET Listed
    BY <1>2, ParseType
  <2> QED
    BY <1>2, <2>1 DEF RowOf, Row
<1> QED
  BY <1>1, <1>2

LEMMA RowsType ==
  ASSUME NEW env \in [SettingKey -> RawValue], NEW stored \in [SettingKey -> RawValue \cup {Missing}]
  PROVE  Rows(env, stored) \in [SettingKey -> Row] /\ Rows(env, stored) # Nil
<1>1. \A k \in SettingKey : RowOf(env, k, stored[k]) \in Row
  BY RowType
<1>2. Rows(env, stored) \in [SettingKey -> Row]
  BY <1>1 DEF Rows
<1> QED
  BY <1>2, NotNil

\* buildRpcCallAllowlists fails when a setting does not parse and has the row of every key otherwise.
LEMMA BuiltRows ==
  ASSUME RsTypes
  PROVE  /\ (\A k \in SettingKey : Parses(rsEnv, k, rsStored[k])) => buildRpcCallAllowlists = Rows(rsEnv, rsStored)
         /\ ~(\A k \in SettingKey : Parses(rsEnv, k, rsStored[k])) => buildRpcCallAllowlists = Nil
<1>1. \A k \in SettingKey :
        Parses(rsEnv, k, rsStored[k]) <=> resolveRuntimeSetting(k).ok /\ parse(k, resolveRuntimeSetting(k).value).ok
  BY Zenon DEF Parses, resolveRuntimeSetting, runtimeSettingEnvValue
<1>2. \A k \in SettingKey :
        RowOf(rsEnv, k, rsStored[k]) = [value |-> resolveRuntimeSetting(k).value, source |-> resolveRuntimeSetting(k).source,
                                        set |-> parse(k, resolveRuntimeSetting(k).value).set]
  BY DEF RowOf, resolveRuntimeSetting
<1> QED
  BY <1>1, <1>2 DEF buildRpcCallAllowlists, Rows

\* The places of a request.
LEMMA RequestCases ==
  ASSUME NEW q \in {NoRequest} \cup Request
  PROVE  \/ q = NoRequest /\ q.pc = "idle"
         \/ /\ q # NoRequest /\ q.pc \in {"wait", "write"} /\ q.key \in SettingKey /\ q.value \in RawValue \cup {Missing}
            /\ q.set \in SUBSET Listed /\ q.source \in {"db", "env", "unset"}
BY DEF NoRequest, Request

\* The first start, with whatever an earlier run has stored.
LEMMA RsInitInv == RsInit => RsInv
<1> SUFFICES ASSUME RsInit PROVE RsInv
  OBVIOUS
<1>1. RsTypes
  BY RsAssumption DEF RsInit, RsTypes, NewServer, RawValue
<1>2. \A a \in Admin : rsAdmin[a] = NoRequest /\ rsAdmin[a].pc = "idle"
  BY DEF RsInit, NoRequest
<1>3. \A s \in Server : rsServer[s].pc = "check"
  BY DEF RsInit, NewServer
<1>4. rsLive = Nil
  BY DEF RsInit
<1> QED
  BY <1>1, <1>2, <1>3, <1>4 DEF RsInv, Validated, OneWriter, Starting, Enforced

\* initRpcCallAllowlists takes a published snapshot or builds one from the settings.
LEMMA CheckInv == ASSUME RsInv, NEW s \in Server, initRpcCallAllowlists(s) PROVE RsInv'
<1>1. UNCHANGED <<rsEnv, rsStored, rsLive, rsAdmin>>
  BY DEF initRpcCallAllowlists
<1> DEFINE x == IF rsLive # Nil THEN [pc |-> "up", built |-> Nil]
                ELSE IF buildRpcCallAllowlists = Nil THEN [pc |-> "failed", built |-> Nil]
                ELSE [pc |-> "publish", built |-> buildRpcCallAllowlists]
<1>2. rsServer' = [rsServer EXCEPT ![s] = x]
  BY DEF initRpcCallAllowlists
<1>3. Rows(rsEnv, rsStored) \in [SettingKey -> Row]
  BY RowsType DEF RsInv, RsTypes
<1>4. \/ x = [pc |-> "up", built |-> Nil] /\ rsLive # Nil
      \/ x = [pc |-> "failed", built |-> Nil]
      \/ /\ x = [pc |-> "publish", built |-> Rows(rsEnv, rsStored)]
         /\ \A k \in SettingKey : Parses(rsEnv, k, rsStored[k])
  BY BuiltRows DEF RsInv
<1> HIDE DEF x
<1>5. x \in [pc : {"check", "publish", "up", "failed"}, built : {Nil} \cup [SettingKey -> Row]]
  BY <1>3, <1>4
<1>6. RsTypes'
  BY <1>1, <1>2, <1>5 DEF RsInv, RsTypes
<1>7. Starting'
  <2> SUFFICES ASSUME NEW t \in Server
               PROVE  /\ rsServer'[t].pc = "up" => rsLive # Nil
                      /\ rsServer'[t].pc = "publish" /\ rsLive = Nil =>
                           /\ \A k \in SettingKey : Parses(rsEnv, k, rsStored[k])
                           /\ rsServer'[t].built = Rows(rsEnv, rsStored)
    BY <1>1 DEF Starting
  <2>1. CASE t = s
    <3>1. rsServer'[t] = x
      BY <1>2, <2>1 DEF RsInv, RsTypes
    <3> QED
      BY <1>4, <3>1
  <2>2. CASE t # s
    <3>1. rsServer'[t] = rsServer[t]
      BY <1>2, <2>2, Zenon DEF RsInv, RsTypes
    <3> QED
      BY <3>1 DEF RsInv, Starting
  <2> QED
    BY <2>1, <2>2
<1>8. Validated' /\ OneWriter' /\ Enforced'
  BY <1>1 DEF RsInv, Validated, OneWriter, Enforced
<1> QED
  BY <1>6, <1>7, <1>8 DEF RsInv

\* The compare-and-swap: the first constructor publishes what is stored, the second nothing.
LEMMA PublishInv == ASSUME RsInv, NEW s \in Server, InitRpcCallAllowlists(s) PROVE RsInv'
<1>1. /\ UNCHANGED <<rsEnv, rsStored, rsAdmin>> /\ rsServer[s].pc = "publish"
      /\ rsServer' = [rsServer EXCEPT ![s] = [pc |-> "up", built |-> Nil]]
      /\ rsLive' = IF rsLive = Nil THEN rsServer[s].built ELSE rsLive
  BY DEF InitRpcCallAllowlists
<1>2. Rows(rsEnv, rsStored) \in [SettingKey -> Row] /\ Rows(rsEnv, rsStored) # Nil
  BY RowsType DEF RsInv, RsTypes
<1>3. rsLive = Nil => /\ rsServer[s].built = Rows(rsEnv, rsStored)
                      /\ \A k \in SettingKey : Parses(rsEnv, k, rsStored[k])
  BY <1>1 DEF RsInv, Starting
<1>4. rsLive' \in [SettingKey -> Row] /\ rsLive' # Nil
  BY <1>1, <1>2, <1>3 DEF RsInv, RsTypes
<1>5. RsTypes'
  BY <1>1, <1>4, Zenon DEF RsInv, RsTypes
<1>6. Validated' /\ OneWriter' /\ Starting'
  BY <1>1, <1>4 DEF RsInv, Validated, OneWriter, Starting
<1>7. Enforced'
  <2>1. CASE rsLive = Nil
    <3>1. \A k \in SettingKey : rsLive'[k] = RowOf(rsEnv, k, rsStored[k])
      BY <1>1, <1>3, <2>1, ZenonT(60) DEF Rows
    <3> QED
      BY <1>1, <1>3, <2>1, <3>1 DEF Enforced
  <2>2. CASE rsLive # Nil
    BY <1>1, <2>2 DEF RsInv, Enforced
  <2> QED
    BY <2>1, <2>2, Zenon
<1> QED
  BY <1>5, <1>6, <1>7 DEF RsInv

\* A request that waits for the mutex carries a validated value and changes nothing yet.
LEMMA WaitInv ==
  ASSUME RsInv, NEW a \in Admin, NEW k \in SettingKey, NEW v \in RawValue \cup {Missing},
         rsServer["internal"].pc = "up", rsAdmin[a] = NoRequest, Parses(rsEnv, k, v),
         Waits(a, k, v, RowOf(rsEnv, k, v).set, RowOf(rsEnv, k, v).source),
         UNCHANGED <<rsEnv, rsStored, rsLive, rsServer, rsFaults>>
  PROVE  RsInv'
<1> DEFINE q == [pc |-> "wait", key |-> k, value |-> v, set |-> RowOf(rsEnv, k, v).set,
                 source |-> RowOf(rsEnv, k, v).source]
<1>1. RowOf(rsEnv, k, v).set \in SUBSET Listed /\ RowOf(rsEnv, k, v).source \in {"db", "env", "unset"}
  BY RowType, Zenon DEF RsInv, RsTypes, Row
<1>2. q \in Request
  BY <1>1 DEF Request
<1>3. rsAdmin' = [rsAdmin EXCEPT ![a] = q]
  BY DEF Waits
<1>4. /\ rsAdmin'[a] = q /\ q.pc = "wait" /\ q.key = k /\ q.value = v
      /\ q.set = RowOf(rsEnv, k, v).set /\ q.source = RowOf(rsEnv, k, v).source
  BY <1>3 DEF RsInv, RsTypes
<1>5. \A b \in Admin : b # a => rsAdmin'[b] = rsAdmin[b]
  BY <1>3, Zenon DEF RsInv, RsTypes
<1>6. rsAdmin[a].pc = "idle"
  BY DEF NoRequest
<1>7. rsLive # Nil
  BY DEF RsInv, Starting, Server
<1> HIDE DEF q
<1>8. RsTypes'
  BY <1>2, <1>3 DEF RsInv, RsTypes
<1>9. \A b \in Admin : rsAdmin'[b].pc = "write" <=> rsAdmin[b].pc = "write"
  BY <1>4, <1>5, <1>6, ZenonT(60)
<1>10. Validated'
  BY <1>4, <1>5, <1>7 DEF RsInv, Validated
<1>11. OneWriter'
  BY <1>4, <1>5, <1>9, Zenon DEF RsInv, OneWriter
<1>12. Starting'
  BY DEF RsInv, Starting
<1>13. Enforced'
  BY <1>4, <1>5, <1>9, ZenonT(60) DEF RsInv, Enforced
<1> QED
  BY <1>8, <1>10, <1>11, <1>12, <1>13 DEF RsInv

\* updateRuntimeSetting validates the new value, deleteRuntimeSetting the one it falls back to.
LEMMA RequestInv ==
  ASSUME RsInv, NEW a \in Admin, NEW k \in SettingKey,
         DeleteRequest(a, k) \/ \E v \in Posted : UpdateRequest(a, k, v)
  PROVE  RsInv'
<1>1. CASE DeleteRequest(a, k)
  <2>1. /\ RowOf(rsEnv, k, Missing).set = parse(k, rsEnv[k]).set
        /\ RowOf(rsEnv, k, Missing).source = IF rsEnv[k] = "" THEN "unset" ELSE "env"
        /\ Parses(rsEnv, k, Missing)
    BY <1>1, ZenonT(60) DEF DeleteRequest, RowOf, Parses, runtimeSettingEnvValue
  <2>2. /\ rsServer["internal"].pc = "up" /\ rsAdmin[a] = NoRequest
        /\ Waits(a, k, Missing, RowOf(rsEnv, k, Missing).set, RowOf(rsEnv, k, Missing).source)
        /\ UNCHANGED <<rsEnv, rsStored, rsLive, rsServer, rsFaults>>
    BY <1>1, <2>1, ZenonT(60) DEF DeleteRequest
  <2> QED
    BY <2>1, <2>2, WaitInv, ZenonT(60)
<1>2. CASE \E v \in Posted : UpdateRequest(a, k, v)
  <2>1. PICK v \in Posted : UpdateRequest(a, k, v)
    BY <1>2
  <2>2. v \in RawValue /\ v # Missing
    BY RsAssumption DEF RawValue, Missing
  <2>3. RowOf(rsEnv, k, v).set = parse(k, v).set /\ RowOf(rsEnv, k, v).source = "db" /\ Parses(rsEnv, k, v)
    BY <2>1, <2>2 DEF UpdateRequest, RowOf, Parses
  <2>4. /\ rsServer["internal"].pc = "up" /\ rsAdmin[a] = NoRequest
        /\ Waits(a, k, v, RowOf(rsEnv, k, v).set, RowOf(rsEnv, k, v).source)
        /\ UNCHANGED <<rsEnv, rsStored, rsLive, rsServer, rsFaults>>
    BY <2>1, <2>3, Zenon DEF UpdateRequest
  <2> QED
    BY <2>2, <2>3, <2>4, WaitInv, Zenon
<1> QED
  BY <1>1, <1>2

\* A request that ends without the mutex leaves the others and the servers as they were.
LEMMA DroppedRequest ==
  ASSUME RsInv, UNCHANGED <<rsEnv, rsStored, rsServer>>, rsLive # Nil, rsLive' # Nil,
         \A b \in Admin : rsAdmin'[b] \in {NoRequest, rsAdmin[b]} /\ rsAdmin'[b].pc # "write"
  PROVE  Validated' /\ OneWriter' /\ Starting'
<1>1. Validated'
  <2> SUFFICES ASSUME NEW b \in Admin, rsAdmin'[b] # NoRequest
               PROVE  LET q == rsAdmin'[b] IN
                        /\ rsLive' # Nil /\ Parses(rsEnv, q.key, q.value)
                        /\ q.set = RowOf(rsEnv, q.key, q.value).set /\ q.source = RowOf(rsEnv, q.key, q.value).source
    BY DEF Validated
  <2>1. rsAdmin'[b] = rsAdmin[b]
    BY Zenon
  <2>2. LET q == rsAdmin[b] IN
          /\ Parses(rsEnv, q.key, q.value)
          /\ q.set = RowOf(rsEnv, q.key, q.value).set /\ q.source = RowOf(rsEnv, q.key, q.value).source
    BY <2>1 DEF RsInv, Validated
  <2> QED
    BY <2>1, <2>2, Zenon
<1>2. OneWriter'
  BY DEF OneWriter
<1>3. Starting'
  BY DEF Starting
<1> QED
  BY <1>1, <1>2, <1>3, Zenon

\* The write takes the mutex, and its key is the one that may differ from the snapshot; a
\* refused write leaves everything as it was.
LEMMA StoreInv == ASSUME RsInv, NEW a \in Admin, StoreRuntimeSetting(a) PROVE RsInv'
<1> DEFINE q == rsAdmin[a]
<1>1. q.pc = "wait" /\ UNCHANGED <<rsEnv, rsLive, rsServer>> /\ \A b \in Admin : rsAdmin[b].pc # "write"
  BY DEF StoreRuntimeSetting, Locked
<1>2. q # NoRequest /\ q \in Request
  BY <1>1 DEF RsInv, RsTypes, NoRequest
<1>3. /\ rsLive # Nil /\ Parses(rsEnv, q.key, q.value)
      /\ q.set = RowOf(rsEnv, q.key, q.value).set /\ q.source = RowOf(rsEnv, q.key, q.value).source
  BY <1>2 DEF RsInv, Validated
<1>4. CASE /\ rsStored' = [rsStored EXCEPT ![q.key] = q.value]
           /\ rsAdmin' = [rsAdmin EXCEPT ![a].pc = "write"]
  <2>1. q.key \in SettingKey /\ q.value \in RawValue \cup {Missing}
    BY <1>2 DEF Request
  <2>2. rsAdmin'[a] = [q EXCEPT !.pc = "write"] /\ \A b \in Admin : b # a => rsAdmin'[b] = rsAdmin[b]
    BY <1>4 DEF RsInv, RsTypes
  <2>3. /\ rsAdmin'[a] \in Request /\ rsAdmin'[a].pc = "write" /\ rsAdmin'[a].key = q.key /\ rsAdmin'[a].value = q.value
        /\ rsAdmin'[a].set = q.set /\ rsAdmin'[a].source = q.source
    BY <1>2, <2>2 DEF Request
  <2>4. rsStored'[q.key] = q.value /\ \A k \in SettingKey : k # q.key => rsStored'[k] = rsStored[k]
    BY <1>4, <2>1 DEF RsInv, RsTypes
  <2>5. RsTypes'
    <3>1. rsStored' \in [SettingKey -> RawValue \cup {Missing}]
      BY <1>4, <2>1 DEF RsInv, RsTypes
    <3>2. rsAdmin' \in [Admin -> {NoRequest} \cup Request]
      BY <1>4, <2>2, <2>3 DEF RsInv, RsTypes
    <3> QED
      BY <1>1, <3>1, <3>2 DEF RsInv, RsTypes
  <2>6. Validated'
    BY <1>1, <1>3, <2>2, <2>3, ZenonT(60) DEF RsInv, Validated
  <2>7. OneWriter'
    BY <1>1, <2>2, <2>3, <2>4, ZenonT(60) DEF OneWriter
  <2>8. Starting'
    BY <1>1, <1>3 DEF RsInv, Starting
  <2>9. Enforced'
    BY <1>1, <1>3, <2>2, <2>3, <2>4, ZenonT(60) DEF RsInv, Enforced
  <2> QED
    BY <2>5, <2>6, <2>7, <2>8, <2>9 DEF RsInv
<1>5. CASE rsAdmin' = [rsAdmin EXCEPT ![a] = NoRequest] /\ UNCHANGED rsStored
  <2>1. \A b \in Admin : rsAdmin'[b] = (IF b = a THEN NoRequest ELSE rsAdmin[b]) /\ rsAdmin'[b].pc # "write"
    BY <1>1, <1>5 DEF RsInv, RsTypes, NoRequest
  <2>2. RsTypes'
    BY <1>1, <1>5 DEF RsInv, RsTypes
  <2>3. Validated' /\ OneWriter' /\ Starting'
    BY <1>1, <1>3, <1>5, <2>1, DroppedRequest
  <2>4. Enforced'
    BY <1>1, <1>5, <2>1, ZenonT(60) DEF RsInv, Enforced
  <2> QED
    BY <2>2, <2>3, <2>4 DEF RsInv
<1> QED
  BY <1>4, <1>5 DEF StoreRuntimeSetting

\* The writer publishes the row of what it stored and gives up the mutex.
LEMMA SetInv == ASSUME RsInv, NEW a \in Admin, SetRpcCallAllowlists(a) PROVE RsInv'
<1> DEFINE q == rsAdmin[a]
           row == [value |-> IF q.value = Missing THEN rsEnv[q.key] ELSE q.value, source |-> q.source, set |-> q.set]
<1>1. /\ q.pc = "write" /\ UNCHANGED <<rsEnv, rsStored, rsServer>>
      /\ rsLive' = [rsLive EXCEPT ![q.key] = row] /\ rsAdmin' = [rsAdmin EXCEPT ![a] = NoRequest]
  BY ZenonT(60) DEF SetRpcCallAllowlists
<1>2. q # NoRequest /\ q.key \in SettingKey /\ q.value \in RawValue \cup {Missing}
  BY <1>1 DEF RsInv, RsTypes, NoRequest, Request
<1>3. /\ rsLive # Nil /\ q.set = RowOf(rsEnv, q.key, q.value).set /\ q.source = RowOf(rsEnv, q.key, q.value).source
  BY <1>2 DEF RsInv, Validated
<1>4. row = RowOf(rsEnv, q.key, q.value)
  BY <1>3, ZenonT(60) DEF RowOf
<1>5. row = RowOf(rsEnv, q.key, rsStored[q.key]) /\ row \in Row
  <2>1. rsStored[q.key] = q.value
    BY <1>1, ZenonT(60) DEF RsInv, OneWriter
  <2>2. RowOf(rsEnv, q.key, q.value) \in Row
    BY <1>2, RowType, Zenon DEF RsInv, RsTypes
  <2> QED
    BY <1>4, <2>1, <2>2
<1> HIDE DEF row
<1>6. /\ rsLive' \in [SettingKey -> Row] /\ rsLive'[q.key] = row
      /\ \A k \in SettingKey : k # q.key => rsLive'[k] = rsLive[k]
  BY <1>1, <1>2, <1>3, <1>5 DEF RsInv, RsTypes
<1>7. rsLive' # Nil
  BY <1>6, NotNil, Zenon
<1>8. \A b \in Admin : rsAdmin'[b] = (IF b = a THEN NoRequest ELSE rsAdmin[b]) /\ rsAdmin'[b].pc # "write"
  BY <1>1, Zenon DEF RsInv, RsTypes, OneWriter, NoRequest
<1>9. RsTypes'
  BY <1>1, <1>6 DEF RsInv, RsTypes
<1>10. Validated' /\ OneWriter' /\ Starting'
  BY <1>1, <1>3, <1>7, <1>8, DroppedRequest, ZenonT(60)
<1>11. Enforced'
  <2> SUFFICES ASSUME NEW k \in SettingKey
               PROVE  Parses(rsEnv, k, rsStored[k]) /\ rsLive'[k] = RowOf(rsEnv, k, rsStored[k])
    BY <1>1, ZenonT(60) DEF Enforced
  <2>1. Parses(rsEnv, k, rsStored[k])
    BY <1>3, ZenonT(60) DEF RsInv, Enforced
  <2>2. CASE k = q.key
    BY <1>5, <1>6, <2>1, <2>2, ZenonT(60)
  <2>3. CASE k # q.key
    <3>1. \A b \in Admin : rsAdmin[b].pc = "write" => rsAdmin[b].key # k
      BY <1>1, <2>3 DEF RsInv, OneWriter
    <3> QED
      BY <1>3, <1>6, <2>1, <2>3, <3>1, ZenonT(60) DEF RsInv, Enforced
  <2> QED
    BY <2>2, <2>3, Zenon
<1> QED
  BY <1>9, <1>10, <1>11 DEF RsInv

\* A restart forgets all but the database and the environment.
LEMMA RestartInv == ASSUME RsInv, Restart PROVE RsInv'
<1>1. /\ UNCHANGED <<rsEnv, rsStored>> /\ rsLive' = Nil /\ rsServer' = [s \in Server |-> NewServer]
      /\ rsAdmin' = [b \in Admin |-> NoRequest]
  BY DEF Restart
<1>2. RsTypes'
  BY <1>1 DEF RsInv, RsTypes, NewServer
<1>3. \A b \in Admin : rsAdmin'[b] = NoRequest /\ rsAdmin'[b].pc = "idle"
  BY <1>1 DEF NoRequest
<1>4. \A s \in Server : rsServer'[s].pc = "check"
  BY <1>1 DEF NewServer
<1> QED
  BY <1>1, <1>2, <1>3, <1>4, Zenon DEF RsInv, Validated, OneWriter, Starting, Enforced

LEMMA RsNextInv == RsInv /\ [RsNext]_rsVars => RsInv'
<1> SUFFICES ASSUME RsInv, [RsNext]_rsVars PROVE RsInv'
  OBVIOUS
<1>1. CASE UNCHANGED rsVars
  BY <1>1, ZenonT(60) DEF rsVars, RsInv, RsTypes, Validated, OneWriter, Starting, Enforced
<1> QED
  BY <1>1, CheckInv, PublishInv, RequestInv, StoreInv, SetInv, RestartInv DEF RsNext

\* What is enforced is what a restart would enforce, for any environment, any number of
\* admin requests and whatever they post: outside an admin write the published snapshot
\* is the one buildRpcCallAllowlists makes of the database and the environment, and no
\* sequence of updates, deletions, refused writes and restarts leaves settings on which a
\* restart fails.
THEOREM SettingsDurableCorrect == RsSpec => []SettingsDurable
<1>1. RsInv => SettingsDurable
  <2> SUFFICES ASSUME RsInv PROVE SettingsDurable
    BY Zenon
  <2>1. rsLive # Nil => /\ \A k \in SettingKey : Parses(rsEnv, k, rsStored[k])
                        /\ buildRpcCallAllowlists = Rows(rsEnv, rsStored) /\ Rows(rsEnv, rsStored) # Nil
    BY BuiltRows, RowsType DEF RsInv, RsTypes, Enforced
  <2>2. rsLive # Nil /\ ~Locked => rsLive = Rows(rsEnv, rsStored)
    <3> SUFFICES ASSUME rsLive # Nil, ~Locked PROVE rsLive = Rows(rsEnv, rsStored)
      BY Zenon
    <3>1. \A k \in SettingKey : rsLive[k] = RowOf(rsEnv, k, rsStored[k])
      BY DEF RsInv, Enforced, Locked
    <3>2. rsLive \in [SettingKey -> Row]
      BY DEF RsInv, RsTypes
    <3> QED
      BY <3>1, <3>2 DEF Rows
  <2> QED
    BY <2>1, <2>2 DEF SettingsDurable
<1> QED
  BY <1>1, RsInitInv, RsNextInv, PTL DEF RsSpec

-----------------------------------------------------------------------------
\* The REST limiter (rest_rate_limiter.go).

IsClient(c) == "blockedUntil" \in DOMAIN c /\ c.blockedUntil \in Int
IsTable(f) == \A k \in DOMAIN f : IsClient(f[k])

\* Table g has the blocks of table f that run at time t, or longer ones.
Keeps(f, g, t) ==
  \A k \in DOMAIN f : f[k].blockedUntil > t => k \in DOMAIN g /\ g[k].blockedUntil >= f[k].blockedUntil

RestInv == restClock \in Nat /\ IsTable(restClients)

\* Blocks kept by two updates of the table are kept by both together.
LEMMA KeepsTwice ==
  ASSUME NEW f, NEW g, NEW h, NEW t \in Nat, IsTable(f), IsTable(g), IsTable(h), Keeps(f, g, t), Keeps(g, h, t)
  PROVE  Keeps(f, h, t)
<1> SUFFICES ASSUME NEW k \in DOMAIN f, f[k].blockedUntil > t
             PROVE  k \in DOMAIN h /\ h[k].blockedUntil >= f[k].blockedUntil
  BY DEF Keeps
<1>1. k \in DOMAIN g /\ g[k].blockedUntil >= f[k].blockedUntil
  BY DEF Keeps
<1>2. f[k].blockedUntil \in Int /\ g[k].blockedUntil \in Int
  BY <1>1, Zenon DEF IsTable, IsClient
<1>3. k \in DOMAIN h /\ h[k].blockedUntil >= g[k].blockedUntil
  BY <1>1, <1>2 DEF Keeps
<1>4. h[k].blockedUntil \in Int
  BY <1>3 DEF IsTable, IsClient
<1> QED
  BY <1>1, <1>2, <1>3, <1>4

\* An entry that is replaced by one with the same block, or a longer one.
LEMMA PutKeeps ==
  ASSUME NEW f, NEW k, NEW v, NEW t \in Nat, IsTable(f), IsClient(v),
         k \in DOMAIN f /\ f[k].blockedUntil > t => v.blockedUntil >= f[k].blockedUntil
  PROVE  IsTable(Put(f, k, v)) /\ Keeps(f, Put(f, k, v), t)
<1> DEFINE g == Put(f, k, v)
<1>1. DOMAIN g = DOMAIN f \cup {k} /\ \A x \in DOMAIN g : g[x] = IF x = k THEN v ELSE f[x]
  BY DEF Put
<1>2. \A x \in DOMAIN f : f[x].blockedUntil \in Int
  BY DEF IsTable, IsClient
<1> HIDE DEF g
<1>3. IsTable(g)
  BY <1>1 DEF IsTable
<1>4. Keeps(f, g, t)
  BY <1>1, <1>2 DEF Keeps
<1> QED
  BY <1>3, <1>4 DEF g

\* A sweep drops idle entries and old breaches, never a block that runs.
LEMMA SweepKeeps ==
  ASSUME NEW f, NEW t \in Nat, IsTable(f)
  PROVE  /\ IsTable(restSweepLocked(f, t)) /\ Keeps(f, restSweepLocked(f, t), t)
         /\ \A k \in DOMAIN restSweepLocked(f, t) :
              k \in DOMAIN f /\ restSweepLocked(f, t)[k].blockedUntil = f[k].blockedUntil
<1> DEFINE trimmed == [k \in DOMAIN f |-> [f[k] EXCEPT !.breaches = trimTimes(@, t - BreachWindow)]]
           kept == {k \in DOMAIN f : \/ f[k].active # 0
                                     \/ f[k].blockedUntil > t
                                     \/ t - f[k].lastSeen <= RestStateTTL}
           g == Restrict(trimmed, kept)
<1>1. restSweepLocked(f, t) = g
  BY DEF restSweepLocked
<1>2. \A k \in DOMAIN f : IsClient(trimmed[k]) /\ trimmed[k].blockedUntil = f[k].blockedUntil
  BY DEF IsTable, IsClient
<1> HIDE DEF trimmed
<1>3. DOMAIN g = kept /\ \A k \in kept : g[k] = trimmed[k]
  BY DEF Restrict
<1> HIDE DEF g
<1>4. kept \subseteq DOMAIN f /\ \A k \in DOMAIN f : f[k].blockedUntil > t => k \in kept
  OBVIOUS
<1> HIDE DEF kept
<1>5. IsTable(g)
  BY <1>2, <1>3, <1>4 DEF IsTable
<1>6. Keeps(f, g, t)
  <2> SUFFICES ASSUME NEW k \in DOMAIN f, f[k].blockedUntil > t
               PROVE  k \in DOMAIN g /\ g[k].blockedUntil >= f[k].blockedUntil
    BY DEF Keeps
  <2>1. k \in DOMAIN g /\ g[k].blockedUntil = f[k].blockedUntil /\ f[k].blockedUntil \in Int
    BY <1>2, <1>3, <1>4, Zenon DEF IsTable, IsClient
  <2> QED
    BY <2>1
<1>7. \A k \in DOMAIN g : k \in DOMAIN f /\ g[k].blockedUntil = f[k].blockedUntil
  BY <1>2, <1>3, <1>4, Zenon
<1> QED
  BY <1>1, <1>5, <1>6, <1>7

\* A breach begins a new block only where none runs.
LEMMA BreachKeeps ==
  ASSUME NEW f, NEW k, NEW blockable, NEW t \in Nat, IsTable(f),
         k \in DOMAIN f => f[k].blockedUntil <= t
  PROVE  IsTable(recordBreachLocked(f, k, blockable, t)) /\ Keeps(f, recordBreachLocked(f, k, blockable, t), t)
<1> DEFINE c == [At(f, k) EXCEPT !.lastSeen = t, !.breaches = trimTimes(@, t - BreachWindow)]
           again == c.breaches # <<>> /\ t - c.breaches[Len(c.breaches)] < BreachMinSpacing
           all == Append(c.breaches, t)
           v == IF again THEN c
                ELSE IF Len(all) >= BreachBlockThreshold
                     THEN [c EXCEPT !.blockedUntil = t + RestBlockDuration, !.breaches = <<>>]
                     ELSE [c EXCEPT !.breaches = all]
<1>1. recordBreachLocked(f, k, blockable, t) \in {f, Put(f, k, v)}
  BY Zenon DEF recordBreachLocked
<1>2. IsClient(At(f, k))
  BY DEF At, NewClient, NoTime, IsTable, IsClient
<1>3. IsClient(c)
  BY <1>2 DEF IsClient
<1> HIDE DEF c
<1>4. IsClient([c EXCEPT !.blockedUntil = t + RestBlockDuration, !.breaches = <<>>]) /\ IsClient([c EXCEPT !.breaches = all])
  BY <1>3, RestAssumption DEF IsClient
<1>5. IsClient(v)
  BY <1>3, <1>4
<1> HIDE DEF v
<1>6. ~(k \in DOMAIN f /\ f[k].blockedUntil > t)
  BY DEF IsTable, IsClient
<1>7. IsTable(Put(f, k, v)) /\ Keeps(f, Put(f, k, v), t)
  BY <1>5, <1>6, PutKeeps
<1>8. Keeps(f, f, t)
  BY DEF Keeps, IsTable, IsClient
<1> QED
  BY <1>1, <1>7, <1>8

\* The limiter's answer to a request keeps every block that runs: a blocked client is
\* turned away before its breaches are looked at, and the other entries it changes
\* (the one of its /64, what is swept) keep theirs.
LEMMA AcceptKeeps ==
  ASSUME NEW f, NEW ipKey, NEW bKey, NEW blockable, NEW t \in Nat, IsTable(f)
  PROVE  LET g == restAccept(f, ipKey, bKey, blockable, t).clients
         IN  IsTable(g) /\ Keeps(f, g, t)
<1> DEFINE clients == IF restCleanupDue(t) THEN restSweepLocked(f, t) ELSE f
           blocked == bKey \in DOMAIN clients /\ clients[bKey].blockedUntil > t
           full == ipKey \notin DOMAIN clients /\ Cardinality(DOMAIN clients) >= MaxTrackedClients
           swept == IF full THEN restSweepLocked(clients, t) ELSE clients
           client == [At(swept, ipKey) EXCEPT !.lastSeen = t]
           seen == Put(swept, ipKey, client)
           bucket == IF RestRateLimit > 0 THEN allow(client, t) ELSE [ok |-> TRUE, client |-> client]
           g == restAccept(f, ipKey, bKey, blockable, t).clients
<1>1. \/ blocked /\ g = [clients EXCEPT ![bKey].lastSeen = t]
      \/ ~blocked /\ g = swept
      \/ ~blocked /\ g = recordBreachLocked(seen, bKey, blockable, t)
      \/ ~blocked /\ g = recordBreachLocked(Put(seen, ipKey, bucket.client), bKey, blockable, t)
      \/ ~blocked /\ g = Put(seen, ipKey, [bucket.client EXCEPT !.active = @ + 1])
  BY Zenon DEF restAccept
<1>2. Keeps(f, f, t)
  BY DEF Keeps, IsTable, IsClient
<1>3. IsTable(clients) /\ Keeps(f, clients, t)
  BY <1>2, SweepKeeps, Zenon
<1> HIDE DEF clients
<1>4. Keeps(clients, clients, t)
  BY <1>3 DEF Keeps, IsTable, IsClient
<1>5. /\ IsTable(swept) /\ Keeps(clients, swept, t)
      /\ \A k \in DOMAIN swept : k \in DOMAIN clients /\ swept[k].blockedUntil = clients[k].blockedUntil
  BY <1>3, <1>4, SweepKeeps
<1>6. CASE blocked /\ g = [clients EXCEPT ![bKey].lastSeen = t]
  <2>1. DOMAIN g = DOMAIN clients /\ \A k \in DOMAIN clients :
          IsClient(g[k]) /\ g[k].blockedUntil = clients[k].blockedUntil
    BY <1>3, <1>6 DEF IsTable, IsClient
  <2> HIDE DEF g
  <2>2. IsTable(g) /\ Keeps(clients, g, t)
    BY <1>3, <2>1 DEF IsTable, IsClient, Keeps
  <2> QED
    BY <1>3, <2>2, KeepsTwice DEF g
<1>7. CASE ~blocked
  <2>1. bKey \in DOMAIN swept => swept[bKey].blockedUntil <= t
    BY <1>3, <1>5, <1>7 DEF IsTable, IsClient
  <2> HIDE DEF blocked, swept
  <2>2. Keeps(f, swept, t)
    BY <1>3, <1>5, KeepsTwice, Zenon
  \* The entry of the client: its block is the one it had, or none.
  <2>3. /\ IsClient(At(swept, ipKey))
        /\ ipKey \in DOMAIN swept => At(swept, ipKey).blockedUntil = swept[ipKey].blockedUntil
        /\ ipKey \notin DOMAIN swept => At(swept, ipKey).blockedUntil <= t
    BY <1>5 DEF At, NewClient, NoTime, IsTable, IsClient
  <2>4. IsClient(client) /\ client.blockedUntil = At(swept, ipKey).blockedUntil
    BY <2>3 DEF IsClient
  <2> HIDE DEF client
  <2>5. IsClient(allow(client, t).client) /\ allow(client, t).client.blockedUntil = client.blockedUntil
    BY <2>4, ZenonT(60) DEF allow, IsClient
  <2>6. IsClient(bucket.client) /\ bucket.client.blockedUntil = client.blockedUntil
    BY <2>4, <2>5
  <2> HIDE DEF bucket
  <2>7. /\ IsClient([bucket.client EXCEPT !.active = @ + 1])
        /\ [bucket.client EXCEPT !.active = @ + 1].blockedUntil = client.blockedUntil
    BY <2>6, Zenon DEF IsClient
  \* Such an entry in its place keeps the blocks and does not block bKey.
  <2>8. ASSUME NEW v, IsClient(v), v.blockedUntil = client.blockedUntil
        PROVE  /\ IsTable(Put(seen, ipKey, v)) /\ Keeps(f, Put(seen, ipKey, v), t)
               /\ bKey \in DOMAIN Put(seen, ipKey, v) => Put(seen, ipKey, v)[bKey].blockedUntil <= t
    <3>1. Put(seen, ipKey, v) = Put(swept, ipKey, v)
      BY Zenon DEF Put
    <3>2. ipKey \in DOMAIN swept => v.blockedUntil >= swept[ipKey].blockedUntil
      BY <2>3, <2>4, <2>8 DEF IsClient
    <3>3. IsTable(Put(swept, ipKey, v)) /\ Keeps(swept, Put(swept, ipKey, v), t)
      BY <1>5, <2>8, <3>2, PutKeeps, Zenon
    <3>4. Keeps(f, Put(swept, ipKey, v), t)
      BY <1>5, <2>2, <3>3, KeepsTwice, Zenon
    <3>5. bKey \in DOMAIN Put(swept, ipKey, v) => Put(swept, ipKey, v)[bKey].blockedUntil <= t
      BY <2>1, <2>3, <2>4, <2>8 DEF Put, IsClient
    <3> QED
      BY <3>1, <3>3, <3>4, <3>5
  <2>9. seen = Put(seen, ipKey, client)
    BY DEF Put
  <2>10. CASE g = swept
    BY <1>5, <2>2, <2>10, Zenon
  <2>11. CASE g = recordBreachLocked(seen, bKey, blockable, t)
    <3>1. IsTable(seen) /\ Keeps(f, seen, t) /\ (bKey \in DOMAIN seen => seen[bKey].blockedUntil <= t)
      BY <2>4, <2>8, <2>9, Zenon
    <3> HIDE DEF seen
    <3>2. IsTable(g) /\ Keeps(seen, g, t)
      BY <2>11, <3>1, BreachKeeps, Zenon
    <3> QED
      BY <3>1, <3>2, KeepsTwice, Zenon
  <2>12. CASE g = recordBreachLocked(Put(seen, ipKey, bucket.client), bKey, blockable, t)
    <3> DEFINE h == Put(seen, ipKey, bucket.client)
    <3>1. IsTable(h) /\ Keeps(f, h, t) /\ (bKey \in DOMAIN h => h[bKey].blockedUntil <= t)
      BY <2>6, <2>8, Zenon
    <3>2. g = recordBreachLocked(h, bKey, blockable, t)
      BY <2>12, Zenon
    <3> HIDE DEF h
    <3>3. IsTable(g) /\ Keeps(h, g, t)
      BY <3>1, <3>2, BreachKeeps
    <3> QED
      BY <3>1, <3>3, KeepsTwice, Zenon
  <2>13. CASE g = Put(seen, ipKey, [bucket.client EXCEPT !.active = @ + 1])
    BY <2>7, <2>8, <2>13, Zenon
  <2> QED
    BY <1>1, <1>7, <2>10, <2>11, <2>12, <2>13, Zenon
<1> QED
  BY <1>1, <1>6, <1>7, SMTT(30)

\* The release of a request keeps the blocks, with the sweep it may do.
LEMMA ReleaseKeeps ==
  ASSUME NEW f, NEW k, NEW t \in Nat, IsTable(f)
  PROVE  IsTable(restRelease(f, k, t)) /\ Keeps(f, restRelease(f, k, t), t)
<1> DEFINE freed == [f EXCEPT ![k].active = IF @ > 0 THEN @ - 1 ELSE @, ![k].lastSeen = t]
<1>1. DOMAIN freed = DOMAIN f /\ \A x \in DOMAIN f : IsClient(freed[x]) /\ freed[x].blockedUntil = f[x].blockedUntil
  BY DEF IsTable, IsClient
<1>2. restRelease(f, k, t) \in {f, freed, restSweepLocked(freed, t)}
  BY DEF restRelease
<1> HIDE DEF freed
<1>3. IsTable(freed) /\ Keeps(f, freed, t)
  BY <1>1 DEF IsTable, IsClient, Keeps
<1>4. IsTable(restSweepLocked(freed, t)) /\ Keeps(f, restSweepLocked(freed, t), t)
  BY <1>3, SweepKeeps, KeepsTwice, Zenon
<1>5. Keeps(f, f, t)
  BY DEF Keeps, IsTable, IsClient
<1> QED
  BY <1>2, <1>3, <1>4, <1>5

\* Every step keeps the blocks that run after it.
LEMMA RestStep ==
  ASSUME RestInv, [RestNext]_restVars
  PROVE  RestInv' /\ Keeps(restClients, restClients', restClock')
<1>1. \A t \in Nat : Keeps(restClients, restClients, t)
  BY DEF Keeps, RestInv, IsTable, IsClient
<1>2. ASSUME NEW r \in restPlan.requests, wrapPublic(r)
      PROVE  RestInv' /\ Keeps(restClients, restClients', restClock')
  <2> DEFINE d == restAccept(restClients, ipKeyOf(r), bKeyOf(r), RestBlockDuration > 0 /\ Blockable(r), restClock)
  <2>1. restClients' = d.clients /\ restClock' = restClock
    BY <1>2, Zenon DEF wrapPublic
  <2>2. IsTable(d.clients) /\ Keeps(restClients, d.clients, restClock)
    BY AcceptKeeps DEF RestInv
  <2> QED
    BY <2>1, <2>2, Zenon DEF RestInv
<1>3. ASSUME NEW i \in DOMAIN restInFlight, RequestDone(i)
      PROVE  RestInv' /\ Keeps(restClients, restClients', restClock')
  <2>1. /\ restClients' \in {restClients, restRelease(restClients, ipKeyOf(restInFlight[i].r), restClock)}
        /\ restClock' = restClock
    BY <1>3 DEF RequestDone
  <2> QED
    BY <1>1, <2>1, ReleaseKeeps, Zenon DEF RestInv
<1>4. CASE runMaintenance
  <2>1. /\ restClock' = restClock + 1
        /\ restClients' \in {restClients, restSweepLocked(restClients, restClock + 1)}
    BY <1>4, Zenon DEF runMaintenance
  <2> QED
    BY <1>1, <2>1, SweepKeeps DEF RestInv
<1>5. CASE UNCHANGED restVars
  BY <1>1, <1>5 DEF restVars, RestInv
<1> QED
  BY <1>2, <1>3, <1>4, <1>5, Zenon DEF RestNext

\* A block lasts its whole duration, for every limit, table size, set of clients and
\* sequence of requests: no sweep of idle entries, no later request of the client or of
\* its /64 and no cap of the table shortens or forgets it.
THEOREM BlockHoldsCorrect == RestSpec => BlockHolds
<1>1. RestInit => RestInv
  BY DEF RestInit, RestInv, IsTable
<1>2. RestInv /\ [RestNext]_restVars => RestInv'
  BY RestStep, Zenon
<1>3. RestInv /\ [RestNext]_restVars
        => [\A k \in DOMAIN restClients : restClients[k].blockedUntil > restClock' =>
              k \in DOMAIN restClients' /\ restClients'[k].blockedUntil >= restClients[k].blockedUntil]_restVars
  BY RestStep DEF Keeps
<1> QED
  BY <1>1, <1>2, <1>3, PTL DEF RestSpec, BlockHolds
=============================================================================
