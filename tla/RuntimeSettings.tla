--------------------------- MODULE RuntimeSettings ---------------------------
(***************************************************************************)
(* Runtime settings (server/runtime_settings.go): the allowlists of the    *)
(* websocket rpcCall, from the environment unless overridden in the        *)
(* database, changed through the internal server while requests read the   *)
(* published snapshot (rpcCallAllowlists of common/internalstate.go).      *)
(*                                                                         *)
(* Goroutines: the constructors of the two servers, one per admin request. *)
(* A raw value is a member of RawValue: blank is whitespace only, commas   *)
(* has separators and no entry, bad is a malformed selector.               *)
(***************************************************************************)
EXTENDS Integers, FiniteSets

CONSTANTS
  Environments,      \* what the environment may hold: a set of functions from SettingKey to RawValue
  Admin,             \* admin requests
  Posted,            \* the values admins post
  RsFaults           \* how often the database refuses a write, and the process is restarted

SettingKey == {"ALLOWED_RPC_CALL_TO", "ALLOWED_EVM_CALL_METHODS"}
RawValue == {"", "blank", "commas", "bad", "one", "two"}
Missing == "missing"     \* no row in the database
Nil == <<>>              \* no snapshot

\* Every variable has a value, perhaps an empty one; what an admin posts is a string.
ASSUME RsAssumption ==
  /\ Environments \subseteq [SettingKey -> RawValue]
  /\ Posted \subseteq RawValue
  /\ RsFaults \in Nat

VARIABLES
  rsEnv,
  rsStored,      \* the overrides in the database
  rsLive,        \* the published snapshot: [value, source, parsed] of every key, or Nil
  rsServer,      \* the constructors of the websocket and the internal server: [pc, built]
  rsAdmin,       \* the admin requests: [pc, key, value, parsed, source]
  rsFaults

rsVars == <<rsEnv, rsStored, rsLive, rsServer, rsAdmin, rsFaults>>

Server == {"websocket", "internal"}
NewServer == [pc |-> "check", built |-> Nil]
NoRequest == [pc |-> "idle"]

(***************************************************************************)
(* Values                                                                  *)
(***************************************************************************)

Unlisted == {"unrestricted"}      \* a nil set
Fails == [ok |-> FALSE, set |-> Unlisted]
Entries(v) == IF v = "two" THEN {"x", "y"} ELSE IF v = "bad" THEN {"bad"} ELSE {"x"}

parseAllowedRpcCallTo(v) ==
  IF v = "" THEN [ok |-> TRUE, set |-> Unlisted]
  ELSE IF v \in {"blank", "commas"} THEN Fails ELSE [ok |-> TRUE, set |-> Entries(v)]

parseAllowedEvmCallMethods(v) ==
  IF v = "" THEN [ok |-> TRUE, set |-> Unlisted]
  ELSE IF v \in {"blank", "commas", "bad"} THEN Fails ELSE [ok |-> TRUE, set |-> Entries(v)]

parse(key, v) == IF key = "ALLOWED_RPC_CALL_TO" THEN parseAllowedRpcCallTo(v) ELSE parseAllowedEvmCallMethods(v)

\* The environment's value; whitespace only is an error and not unset.
runtimeSettingEnvValue(key) == [ok |-> rsEnv[key] # "blank", value |-> rsEnv[key]]

\* A stored override wins; the environment is not looked at then.
resolveRuntimeSetting(key) ==
  IF rsStored[key] # Missing THEN [ok |-> TRUE, value |-> rsStored[key], source |-> "db"]
  ELSE [ok |-> runtimeSettingEnvValue(key).ok, value |-> rsEnv[key], source |-> IF rsEnv[key] = "" THEN "unset" ELSE "env"]

\* The snapshot of the settings as they are now, or Nil when one cannot be parsed.
buildRpcCallAllowlists ==
  IF \E k \in SettingKey : ~resolveRuntimeSetting(k).ok \/ ~parse(k, resolveRuntimeSetting(k).value).ok THEN Nil
  ELSE [k \in SettingKey |-> [value |-> resolveRuntimeSetting(k).value, source |-> resolveRuntimeSetting(k).source,
                              set |-> parse(k, resolveRuntimeSetting(k).value).set]]

\* Whether snapshot a lets a call of selector m to contract t through; m is none for calldata without one.
rpcCallAllowed(a, t, m) ==
  LET to == a["ALLOWED_RPC_CALL_TO"].set
      methods == a["ALLOWED_EVM_CALL_METHODS"].set
  IN  \/ to = Unlisted /\ methods = Unlisted
      \/ to # Unlisted /\ t \in to
      \/ methods # Unlisted /\ m # "none" /\ m \in methods

(***************************************************************************)
(* Start                                                                   *)
(***************************************************************************)

RsInit ==
  /\ rsEnv \in Environments
  /\ rsStored \in [SettingKey -> {Missing, "one"}]   \* overrides of an earlier run
  /\ rsLive = Nil
  /\ rsServer = [s \in Server |-> NewServer]
  /\ rsAdmin = [a \in Admin |-> NoRequest]
  /\ rsFaults = 0

\* Looks for a published snapshot; none: builds one.
initRpcCallAllowlists(s) ==
  /\ rsServer[s].pc = "check"
  /\ rsServer' = [rsServer EXCEPT ![s] =
       IF rsLive # Nil THEN [pc |-> "up", built |-> Nil]
       ELSE IF buildRpcCallAllowlists = Nil THEN [pc |-> "failed", built |-> Nil]
       ELSE [pc |-> "publish", built |-> buildRpcCallAllowlists]]
  /\ UNCHANGED <<rsEnv, rsStored, rsLive, rsAdmin, rsFaults>>

\* The compare-and-swap leaves a snapshot that is there.
InitRpcCallAllowlists(s) ==
  /\ rsServer[s].pc = "publish"
  /\ rsLive' = IF rsLive = Nil THEN rsServer[s].built ELSE rsLive
  /\ rsServer' = [rsServer EXCEPT ![s] = [pc |-> "up", built |-> Nil]]
  /\ UNCHANGED <<rsEnv, rsStored, rsAdmin, rsFaults>>

(***************************************************************************)
(* Admin requests; runtimeSettingsMux is held while one is at "write"      *)
(***************************************************************************)

Locked == \E a \in Admin : rsAdmin[a].pc = "write"
Waits(a, key, value, set, source) ==
  rsAdmin' = [rsAdmin EXCEPT ![a] = [pc |-> "wait", key |-> key, value |-> value, set |-> set, source |-> source]]

\* The new value is validated first; an empty one unconfigures the setting.
UpdateRequest(a, key, v) ==
  /\ rsServer["internal"].pc = "up" /\ rsAdmin[a] = NoRequest
  /\ parse(key, v).ok
  /\ Waits(a, key, v, parse(key, v).set, "db")
  /\ UNCHANGED <<rsEnv, rsStored, rsLive, rsServer, rsFaults>>

\* Mutant: a fallback that does not parse is taken for an empty one.
MutDeleteRequest(a, key) ==
  /\ rsServer["internal"].pc = "up" /\ rsAdmin[a] = NoRequest
  /\ Waits(a, key, Missing, IF parse(key, rsEnv[key]).ok THEN parse(key, rsEnv[key]).set ELSE Unlisted, "env")
  /\ UNCHANGED <<rsEnv, rsStored, rsLive, rsServer, rsFaults>>

\* The fallback is validated before the override is given up.
DeleteRequest(a, key) ==
  /\ rsServer["internal"].pc = "up" /\ rsAdmin[a] = NoRequest
  /\ runtimeSettingEnvValue(key).ok /\ parse(key, rsEnv[key]).ok
  /\ Waits(a, key, Missing, parse(key, rsEnv[key]).set, IF rsEnv[key] = "" THEN "unset" ELSE "env")
  /\ UNCHANGED <<rsEnv, rsStored, rsLive, rsServer, rsFaults>>

\* StoreRuntimeSetting or DeleteRuntimeSetting; a refused write leaves everything as it was.
StoreRuntimeSetting(a) ==
  /\ rsAdmin[a].pc = "wait" /\ ~Locked
  /\ \/ /\ rsStored' = [rsStored EXCEPT ![rsAdmin[a].key] = rsAdmin[a].value]
        /\ rsAdmin' = [rsAdmin EXCEPT ![a].pc = "write"]
        /\ UNCHANGED rsFaults
     \/ /\ rsFaults < RsFaults
        /\ rsFaults' = rsFaults + 1
        /\ rsAdmin' = [rsAdmin EXCEPT ![a] = NoRequest]
        /\ UNCHANGED rsStored
  /\ UNCHANGED <<rsEnv, rsLive, rsServer>>

\* The rest of updateRuntimeSetting and deleteRuntimeSetting: a new snapshot from the old one.
SetRpcCallAllowlists(a) ==
  LET q == rsAdmin[a]
  IN  /\ q.pc = "write"
      /\ rsLive' = [rsLive EXCEPT ![q.key] = [value |-> IF q.value = Missing THEN rsEnv[q.key] ELSE q.value,
                                              source |-> q.source, set |-> q.set]]
      /\ rsAdmin' = [rsAdmin EXCEPT ![a] = NoRequest]
      /\ UNCHANGED <<rsEnv, rsStored, rsServer, rsFaults>>

\* A crash or restart at any point; the database and the environment stay.
Restart ==
  /\ rsFaults < RsFaults
  /\ rsFaults' = rsFaults + 1
  /\ rsLive' = Nil /\ rsServer' = [s \in Server |-> NewServer] /\ rsAdmin' = [a \in Admin |-> NoRequest]
  /\ UNCHANGED <<rsEnv, rsStored>>

RsNext ==
  \/ \E s \in Server : initRpcCallAllowlists(s) \/ InitRpcCallAllowlists(s)
  \/ \E a \in Admin : \/ \E k \in SettingKey : DeleteRequest(a, k) \/ \E v \in Posted : UpdateRequest(a, k, v)
                      \/ StoreRuntimeSetting(a) \/ SetRpcCallAllowlists(a)
  \/ Restart

RsSpec == RsInit /\ [][RsNext]_rsVars

(***************************************************************************)
(* Properties                                                              *)
(***************************************************************************)

\* What is enforced is what a restart would enforce: outside an admin write the
\* published snapshot is the one built from the database and the environment (and
\* lets the same calls through), whichever constructor published it, however updates
\* and failed writes interleaved; and no sequence of them leaves settings a restart fails on.
SettingsDurable ==
  /\ (rsLive # Nil /\ ~Locked) => rsLive = buildRpcCallAllowlists
  /\ (rsLive # Nil /\ ~Locked) => \A t, m \in {"x", "y", "bad", "none"} :
                                         rpcCallAllowed(rsLive, t, m) = rpcCallAllowed(buildRpcCallAllowlists, t, m)
  /\ rsLive # Nil => buildRpcCallAllowlists # Nil
==============================================================================
