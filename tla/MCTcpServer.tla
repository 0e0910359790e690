---------------------------- MODULE MCTcpServer ----------------------------
EXTENDS TcpServer

Raw(json) == [length |-> 1, json |-> json]
Update == Dict([sensor_id |-> Str("t"), ts_ms |-> Scalar("int", "0")])

\* One frame for every way to be a message, no message, or too long.
MCFrames ==
  <<Raw(Dict([type |-> Str("SENSOR_UPDATE"), sender_id |-> Str("n1"), payload |-> Update])),
    Raw(Dict([type |-> Str("PING"), sender_id |-> Str("n1"), payload |-> List(<<>>)])),
    Raw(Dict([type |-> Str("PING"), sender_id |-> Str("n1"), payload |-> List(<<Null>>)])),
    Raw(Dict([type |-> Str("JOIN"), sender_id |-> Str("n1")])),
    Raw(Dict([type |-> Str("ACK")])),
    Raw(Scalar("bytes", "")),
    [length |-> 0, json |-> Scalar("bytes", "")],
    [length |-> MaxFrameSize + 1, json |-> Null]>>
=============================================================================
