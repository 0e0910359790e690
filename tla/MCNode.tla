------------------------------- MODULE MCNode -------------------------------
EXTENDS Node

\* A complete environment: one bootstrap address, two sensors of the same name.
Good ==
  [NODE_ID |-> "n1", HOST |-> "0.0.0.0", PORT |-> 9000, LOG_LEVEL |-> "INFO",
   LOG_FILE |-> "n1.log", BOOTSTRAP_PEERS |-> << <<"n2", 9001>> >>, SENSORS |-> 2,
   SENSOR_ |-> << [TYPE |-> "numeric", PERIOD_MS |-> 1, NAME |-> <<"t">>,
                   MIN |-> 0, MAX |-> 1],
                  [TYPE |-> "wave", PERIOD_MS |-> 1, NAME |-> <<"t">>] >>]

\* With one variable set to something else, and a WEB_API_PORT that no process
\* gets past: only Good reaches the main loop.
With(name, value) ==
  [n \in DOMAIN Good \cup {"WEB_API_PORT", name} |->
     IF n = name THEN value ELSE IF n = "WEB_API_PORT" THEN Junk ELSE Good[n]]
Sensor(s) == With("SENSOR_", <<s, s>>)

MCAddresses == {<<"n2", 9001>>}

MCEnvs ==
  <<Good, With("WEB_API_PORT", 65536), With("WEB_API_PORT", Junk),
   [Good EXCEPT !.PORT = 65535], With("PORT", 65536), With("PORT", 0), With("PORT", Junk),
   With("NODE_ID", Blank), With("LOG_LEVEL", Junk), With("BOOTSTRAP_PEERS", <<>>),
   With("BOOTSTRAP_PEERS", << <<"n2", 9001>>, <<"n2", 9001>> >>),
   With("BOOTSTRAP_PEERS", << <<"n2">> >>), With("BOOTSTRAP_PEERS", << <<"n2", Junk>> >>),
   With("SENSORS", 0), With("SENSORS", -1), With("SENSORS", 3), With("SENSORS", Junk),
   Sensor([TYPE |-> "boolean"]), Sensor([TYPE |-> "boolean", PERIOD_MS |-> 1]),
   Sensor([TYPE |-> "boolean", PERIOD_MS |-> 1, NAME |-> <<"t", 1>>]),
   Sensor([TYPE |-> Junk, PERIOD_MS |-> 1]),
   Sensor([TYPE |-> "spike", PERIOD_MS |-> 1, P_SPIKE |-> Junk]),
   Sensor([TYPE |-> "numeric", PERIOD_MS |-> 1, MIN |-> 0]),
   Sensor([TYPE |-> "numeric", PERIOD_MS |-> 1, MIN |-> 1, MAX |-> 1]),
   Sensor([TYPE |-> "categorical", PERIOD_MS |-> 1, VALUES |-> <<>>]),
   Sensor([TYPE |-> "incremental", PERIOD_MS |-> 1, STEP_PCT |-> -1]),
   Sensor([TYPE |-> "noise", PERIOD_MS |-> 1, NOISE |-> -1])>>
=============================================================================
