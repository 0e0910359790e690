------------------------------- MODULE Config -------------------------------
(***************************************************************************)
(* What a process makes of its environment: load_config, the addresses in  *)
(* BOOTSTRAP_PEERS, the port of the Web API, and the sensors of            *)
(* SensorManager.load_from_env.                                            *)
(*                                                                         *)
(* An environment is a function from the names that are set to their       *)
(* values.  A value is an integer, a word, Junk (text that is neither a    *)
(* number nor one of the words looked for) or Blank; lists are cut at      *)
(* their separators already, and numbers are scaled to integers.           *)
(***************************************************************************)
EXTENDS Integers, Sequences, FiniteSets

CONSTANTS Junk, Blank,
          Raises   \* the exception a step of start-up ends with

ASSUME ConfigAssumption == Junk \notin Int /\ Blank \notin Int /\ Raises \notin Int

getenv(env, name, default) == IF name \in DOMAIN env THEN env[name] ELSE default

\* _require_env: set, and more than white space.
require_env(env, name) == getenv(env, name, Blank) # Blank

\* _parse_port.
parse_port(raw) == IF raw \in 1..65535 THEN raw ELSE Raises

\* _parse_peers: an item is the list of its ":"-separated parts, a host and a
\* port and nothing else.
parse_peers(items) ==
  IF \A i \in 1..Len(items) : Len(items[i]) = 2 /\ parse_port(items[i][2]) # Raises
    THEN items ELSE Raises

log_levels == {"DEBUG", "INFO", "WARNING", "ERROR", "CRITICAL"}

\* LOG_LEVEL as .upper() leaves it: its case decides nothing.
load_config(env) ==
  LET peers == parse_peers(getenv(env, "BOOTSTRAP_PEERS", <<>>))
  IN IF /\ \A name \in {"NODE_ID", "HOST", "PORT", "LOG_LEVEL", "LOG_FILE"} :
              require_env(env, name)
        /\ parse_port(env["PORT"]) # Raises
        /\ env["LOG_LEVEL"] \in log_levels
        /\ peers # Raises
       THEN [node_id |-> env["NODE_ID"], port |-> env["PORT"], bootstrap_peers |-> peers]
       ELSE Raises

\* int(os.getenv("WEB_API_PORT", config.port + 1000)).
web_api_port(env) ==
  LET raw == getenv(env, "WEB_API_PORT", env["PORT"] + 1000)
  IN IF raw \in Int THEN raw ELSE Raises

\* A TCP port the socket layer takes; 0 lets it choose one.
bindable(port) == port \in 0..65535

-----------------------------------------------------------------------------
\* The numeric parameters of each sensor type, and those without a default.
float_params ==
  [numeric |-> {"MIN", "MAX"}, boolean |-> {"P_TRUE"}, categorical |-> {},
   incremental |-> {"START", "STEP_PCT"}, trend |-> {"START", "SLOPE", "NOISE"},
   spike |-> {"BASELINE", "SPIKE_HEIGHT", "P_SPIKE"},
   wave |-> {"AMPLITUDE", "FREQUENCY"}, noise |-> {"BASE", "NOISE"}]

required_params == {"MIN", "MAX"}

\* One turn of the loop of load_from_env: the sensor of the variables s (named
\* SENSOR_i_...) is built, or something raises, its constructor's check (as of
\* numeric_sensor.py:19, incremental_sensor.py:16, noise_sensor.py:16) included.
builds(s) ==
  /\ getenv(s, "TYPE", Blank) \in DOMAIN float_params
  /\ getenv(s, "PERIOD_MS", 0) \in Int /\ getenv(s, "PERIOD_MS", 0) > 0
  /\ \A f \in float_params[s["TYPE"]] :
        IF f \in DOMAIN s THEN s[f] \in Int ELSE f \notin required_params
  /\ s["TYPE"] = "numeric" => s["MIN"] < s["MAX"]
  /\ s["TYPE"] = "categorical" => getenv(s, "VALUES", <<>>) # <<>>
  /\ s["TYPE"] = "incremental" => getenv(s, "STEP_PCT", 1) >= 0
  /\ s["TYPE"] = "noise" => getenv(s, "NOISE", 1) >= 0

\* A name is the list of its "@"-separated parts.
NamesAreLists(env) ==
  LET all == getenv(env, "SENSOR_", <<>>)
  IN /\ Len(all) \in Nat
     /\ \A i \in 1..Len(all) : "NAME" \in DOMAIN all[i] =>
           LET name == all[i]["NAME"]
           IN Len(name) \in Nat /\ name = [j \in 1..Len(name) |-> name[j]]

\* The id is the configured name.
SensorIdIsName(s, i) == getenv(s, "NAME", <<"sensor_", i>>)

\* An id is the list of its "@"-separated parts: f"{name}@{i}".  The default name
\* f"sensor_{i}" holds no "@": as two parts it is still one name for each i.
sensor_id(s, i) == Append(getenv(s, "NAME", <<"sensor_", i>>), i)

\* load_from_env: the ids of the sensors, in order, or an exception.  Variables
\* of sensors past the count are not read; a missing one has no TYPE.
load_from_env(env) ==
  LET count == getenv(env, "SENSORS", 0)
      vars(i) == LET all == getenv(env, "SENSOR_", <<>>)
                 IN IF i < Len(all) THEN all[i + 1] ELSE <<>>
  IN IF count \in Int /\ \A i \in 0..(count - 1) : builds(vars(i))
       THEN [i \in 1..count |-> sensor_id(vars(i - 1), i - 1)]
       ELSE Raises
=============================================================================
