------------------------------- MODULE Codec -------------------------------
(***************************************************************************)
(* Messages and their JSON: what Message validates, writes and reads, what *)
(* the dispatcher of setup_protocol does with a message of each type, and  *)
(* the messages that nodes send.                                           *)
(*                                                                         *)
(* A JSON value is its Python type, its text if it is a scalar, and what   *)
(* it contains if it is a dict (a function on names) or a list.  Bytes     *)
(* that are no JSON text have a type of their own.  json.dumps and         *)
(* json.loads are each other's inverse on these values.                    *)
(***************************************************************************)
EXTENDS Integers, Sequences

CONSTANTS
  Ids,      \* strings that are node ids, hosts and sensor ids
  Raises,   \* an exception
  Ignored   \* a handler returns and has done nothing

ASSUME CodecAssumption == "" \notin Ids

Scalar(type, text) == [type |-> type, text |-> text, fields |-> <<>>]
Null == Scalar("null", "")
Str(text) == Scalar("str", text)
Dict(f) == [type |-> "dict", text |-> "", fields |-> f]
List(seq) == [type |-> "list", text |-> "", fields |-> seq]

now == Scalar("int", "1")   \* time.time() in milliseconds, some integer

get(dict, name) == IF name \in DOMAIN dict.fields THEN dict.fields[name] ELSE Null

truthy(v) ==
  CASE v.type = "null" -> FALSE
    [] v.type = "str" -> v.text # ""
    [] v.type \in {"dict", "list"} -> DOMAIN v.fields # {}
    [] OTHER -> v.text # "0"

\* isinstance(v, int), which a bool is too.
is_int(v) == v.type \in {"int", "bool"}
is_name(v) == v.type = "str" /\ v.text # ""

MessageType ==
  {"JOIN_REQUEST", "PEER_LIST", "PING", "PONG", "SENSOR_UPDATE", "GOSSIP_STATE",
   "FULL_SYNC_REQUEST", "FULL_SYNC_RESPONSE", "ERROR", "ACK"}

\* Message(...): anything falsy is an empty payload, no timestamp is now.
new_message(msg_type, sender_id, payload, timestamp) ==
  LET m == [msg_type |-> msg_type, sender_id |-> sender_id,
            payload |-> IF truthy(payload) THEN payload ELSE Dict(<<>>),
            timestamp |-> IF timestamp.type = "null" THEN now ELSE timestamp]
  IN IF sender_id.type = "str" /\ m.payload.type = "dict" /\ is_int(m.timestamp)
       THEN m ELSE Raises

to_dict(m) ==
  Dict([type |-> Str(m.msg_type), sender_id |-> m.sender_id,
        timestamp |-> m.timestamp, payload |-> m.payload])

\* Message.decode and from_json.
from_json(raw) ==
  IF /\ raw.type = "dict"
     /\ get(raw, "type").type = "str" /\ get(raw, "type").text \in MessageType
     /\ get(raw, "sender_id").type # "null"
    THEN new_message(raw.fields.type.text, raw.fields.sender_id,
                     get(raw, "payload"), get(raw, "timestamp"))
    ELSE Raises

-----------------------------------------------------------------------------
\* The timestamp is tested for truth.
TimestampTruthy(m) ==
  LET origin == IF truthy(get(m.payload, "origin")) THEN m.payload.fields.origin
                ELSE m.sender_id
  IN IF is_name(get(m.payload, "sensor_id")) /\ is_name(origin)
          /\ truthy(get(m.payload, "ts_ms"))
       THEN [merge |-> m.payload.fields.sensor_id, value |-> get(m.payload, "value"),
             ts_ms |-> m.payload.fields.ts_ms, origin |-> origin]
       ELSE Ignored

\* handle_sensor_update, up to merge_update and with its checks.
handle_sensor_update(m) ==
  LET origin == IF truthy(get(m.payload, "origin")) THEN m.payload.fields.origin
                ELSE m.sender_id
  IN IF is_name(get(m.payload, "sensor_id")) /\ is_name(origin)
          /\ is_int(get(m.payload, "ts_ms"))
       THEN [merge |-> m.payload.fields.sensor_id, value |-> get(m.payload, "value"),
             ts_ms |-> m.payload.fields.ts_ms, origin |-> origin]
       ELSE Ignored

\* An entry both membership handlers accept on node self.
is_peer(entry, self) ==
  /\ truthy(get(entry, "node_id")) /\ truthy(get(entry, "host"))
  /\ is_int(get(entry, "port")) /\ get(entry, "node_id") # self

\* handle_join_request: the peer to add, and whom to send the list.
handle_join_request(m, self) ==
  IF is_peer(m.payload, self)
    THEN [join |-> m.payload, reply_to |-> m.sender_id] ELSE Ignored

\* handle_peer_list: the peers to add; an entry that is no dict raises and
\* leaves the rest of the list unread.
handle_peer_list(m, self) ==
  LET peers == get(m.payload, "peers")
      read == {i \in DOMAIN peers.fields : \A j \in 1..i : peers.fields[j].type = "dict"}
  IN IF peers.type # "list" THEN Ignored
     ELSE {peers.fields[i] : i \in {j \in read : is_peer(peers.fields[j], self)}}

\* dispatch, with the handlers setup_protocol registers: every type has one, and
\* seven of them are not implemented.
dispatch(m, self) ==
  CASE m.msg_type = "JOIN_REQUEST" -> handle_join_request(m, self)
    [] m.msg_type = "PEER_LIST" -> handle_peer_list(m, self)
    [] m.msg_type = "SENSOR_UPDATE" -> handle_sensor_update(m)
    [] OTHER -> Raises

-----------------------------------------------------------------------------
\* _make_join_request; peer is the dict of a node's id, host and port.
make_join_request(peer) ==
  new_message("JOIN_REQUEST", peer.fields.node_id, peer, Null)

\* The reply of handle_join_request.
peer_list_message(self, peers) ==
  new_message("PEER_LIST", self, Dict([peers |-> List(peers)]), Null)

\* The message _publish_once builds for a record of the node's own.
sensor_update_message(self, sensor_id, value, ts_ms) ==
  new_message("SENSOR_UPDATE", self,
              Dict([sensor_id |-> sensor_id, value |-> value, ts_ms |-> ts_ms,
                    origin |-> self, meta |-> Dict(<<>>)]), Null)

\* What the receiver's handler sees of a message.
received(m) == from_json(to_dict(m))

\* Messages of node a arrive at node b as they were meant: a JOIN_REQUEST adds
\* its sender and answers it, a PEER_LIST adds every entry but the receiver, and
\* a SENSOR_UPDATE merges the reading as it was made, a value of null and a time
\* of 0 included.
Understood(a, b, s) ==
  LET peer(x) == Dict([node_id |-> Str(x), host |-> Str(s), port |-> Scalar("int", "1")])
      joined == dispatch(received(make_join_request(peer(a))), Str(b))
      listed == dispatch(received(peer_list_message(Str(a), <<peer(b), peer(s)>>)), Str(b))
      merged(v, t) == dispatch(received(sensor_update_message(Str(a), Str(s), v, t)), Str(b))
  IN /\ a # b => joined = [join |-> peer(a), reply_to |-> Str(a)]
     /\ listed = {peer(s)} \ {peer(b)}
     /\ \A v \in {Null, Str(s)}, t \in {Scalar("int", "0"), now} :
           merged(v, t) = [merge |-> Str(s), value |-> v, ts_ms |-> t, origin |-> Str(a)]
=============================================================================
