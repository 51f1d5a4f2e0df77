-------------------------------- MODULE Wire --------------------------------
(***************************************************************************)
(* The packets of protocol.h on the wire.  A packet is a 16-byte transport *)
(* header and a JSON body; here it is a sequence of units: the half of the *)
(* header every packet has in common (magic, version, reserve), the half   *)
(* with the length and the checksum of the body, and the units of the      *)
(* body.  A checksum is the body it was computed from: crc32 is taken to   *)
(* tell any two bodies of the same length apart.                           *)
(***************************************************************************)
EXTENDS Integers, Sequences

\* What from_json asks for with at(), which throws if it is missing.
WorkerRegisterReq == {"node_addr", "support_models", "total_memory_mb", "weight"}
Heartbeat == {"node_id", "available_memory_mb", "online_models"}
TaskQueryReq == {"task_id"}
WorkerRemoveReq == {"node_id"}

Required(type) ==
    CASE type = "REGISTER_WORKER" -> WorkerRegisterReq
      [] type = "HEARTBEAT" -> Heartbeat
      [] type = "TASK_QUERY" -> TaskQueryReq
      [] type = "WORKER_REMOVE" -> WorkerRemoveReq
      [] OTHER -> {}

\* A packet: its base header, the fields of its body, and in how many units
\* the body comes.
AiSchedulePacket == [seq : Nat, type : STRING, fields : SUBSET STRING, size : Nat]
FromJsonSucceeds(packet) == Required(packet.type) \subseteq packet.fields

\* AiSchedulePacket::serialize and TransportHeader::serialize_to_bytes.
Magic == [part |-> "magic"]
Length(packet) == [part |-> "length", of |-> packet]
Body(packet) == [i \in 1 .. packet.size |-> [part |-> "body", of |-> packet, at |-> i]]
Serialize(packet) == <<Magic, Length(packet)>> \o Body(packet)
HeaderSize == 2

\* crc32 of the body that follows the header, against the header's checksum.
BugNoChecksum(buf) == TRUE
ChecksumMatches(buf) ==
    SubSeq(buf, HeaderSize + 1, HeaderSize + buf[2].of.size) = Body(buf[2].of)

\* AiSchedulePacket::deserialize at the front of buf: "short" if more bytes are
\* needed, "bad" if it is no packet, "packet" if it is.  A length that is not
\* one, because the bytes of two packets are mixed, may say anything.
Deserialize(buf) ==
    IF Len(buf) < HeaderSize THEN {"short"}
    ELSE IF buf[1] # Magic THEN {"bad"}
    ELSE IF buf[2].part # "length" THEN {"short", "bad"}
    ELSE IF Len(buf) < HeaderSize + buf[2].of.size THEN {"short"}
    ELSE IF ChecksumMatches(buf) THEN {"packet"} ELSE {"bad"}

\* The packet that is there: the one whose body it is, or what JSON makes of a
\* body put together of several.
Parsed(buf) ==
    IF SubSeq(buf, HeaderSize + 1, HeaderSize + buf[2].of.size) = Body(buf[2].of)
    THEN buf[2].of ELSE [buf[2].of EXCEPT !.fields = {}]
=============================================================================
