--------------------------- MODULE RegistryServer ---------------------------
(***************************************************************************)
(* RegistryServer between the connections of TcpServer and the manager of  *)
(* Registry.tla: the bytes of all connections go through one PacketParser, *)
(* although the connections live on the threads of four sub loops.         *)
(*                                                                         *)
(* Each connection here has a thread of its own.  PacketParser is not in   *)
(* the repository; it is modelled as any parser with this interface that   *)
(* cuts packets off its buffer with AiSchedulePacket::deserialize.  Its    *)
(* calls are not synchronised: where two may run at the same time anything *)
(* may come of it, and nothing is claimed from there on.                   *)
(***************************************************************************)
EXTENDS Wire, FiniteSets, SequencesExt

CONSTANTS
    Conns,  \* the connections
    Sent    \* the packets each one's peer sends

ASSUME RegistryServerAssumption == Sent \in [Conns -> Seq(AiSchedulePacket)]

Packets == UNION {{Sent[c][i] : i \in DOMAIN Sent[c]} : c \in Conns}
Stream(c) == FlattenSeq([i \in DOMAIN Sent[c] |-> Serialize(Sent[c][i])])

VARIABLES
    up,         \* the connections whose connection callback ran
    received,   \* how much of its stream each connection has read
    parser,     \* m_parser's buffer
    thread,     \* per connection: where its thread is in OnMessage, and the
                \* packets it parsed and did not handle yet
    handled,    \* per connection: the packets HandlePacket was called with
    answers,    \* per connection: what SendResponse sent to it
    undefined,  \* whether two calls of m_parser may have overlapped
    disturbed   \* history: the connections whose bytes met another's in
                \* m_parser, or were dropped by another's Reset

vars == <<up, received, parser, thread, handled, answers, undefined, disturbed>>

Init ==
    /\ up = {}
    /\ received = [c \in Conns |-> 0]
    /\ parser = <<>>
    /\ thread = [c \in Conns |-> [at |-> "idle", packets |-> <<>>]]
    /\ handled = [c \in Conns |-> <<>>]
    /\ answers = [c \in Conns |-> <<>>]
    /\ undefined = FALSE
    /\ disturbed = {}

-----------------------------------------------------------------------------
\* The connections whose bytes are in the parser.  (The common half of a
\* header is told apart by the connection the model tags it with.)
Owners == {parser[i].conn : i \in DOMAIN parser}
Units == [i \in DOMAIN parser |-> parser[i].unit]
Tagged(c, s) == [i \in DOMAIN s |-> [conn |-> c, unit |-> s[i]]]

Meets(c) == IF Owners \subseteq {c} THEN {} ELSE Owners \cup {c}

Runs(c, at) == ~undefined /\ c \in up /\ thread[c].at = at

\* OnConnection: the new connection, on its own thread, resets the parser.
\* It is called for no connection that ends.
OnConnection(c) ==
    /\ ~undefined /\ c \notin up
    /\ up' = up \cup {c}
    /\ parser' = <<>>
    /\ disturbed' = disturbed \cup Owners
    /\ UNCHANGED <<received, thread, handled, answers, undefined>>

\* OnMessage with the next n units of the stream: Feed, then all of them are
\* retrieved from the connection's buffer.
BugNotRetrieved(c, n) == received[c]
Retrieved(c, n) == received[c] + n

Feed(c, n) ==
    /\ Runs(c, "idle")
    /\ received[c] + n <= Len(Stream(c))
    /\ parser' = parser \o Tagged(c, SubSeq(Stream(c), received[c] + 1, received[c] + n))
    /\ received' = [received EXCEPT ![c] = Retrieved(c, n)]
    /\ disturbed' = disturbed \cup Meets(c)
    /\ thread' = [thread EXCEPT ![c].at = "parsing"]
    /\ UNCHANGED <<up, handled, answers, undefined>>

\* One round of ParseAll: a packet is cut off; or bytes that are none are
\* skipped, one or all of them; or more bytes are needed and ParseAll returns.
Parse(c, outcome, skip) ==
    /\ Runs(c, "parsing")
    /\ outcome \in Deserialize(Units)
    /\ CASE outcome = "packet" ->
              LET packet == Parsed(Units)
                  size == HeaderSize + packet.size
              IN  /\ thread' = [thread EXCEPT ![c].packets = Append(@, packet)]
                  /\ parser' = SubSeq(parser, size + 1, Len(parser))
         [] outcome = "bad" ->
              /\ parser' = SubSeq(parser, skip + 1, Len(parser))
              /\ UNCHANGED thread
         [] outcome = "short" ->
              /\ thread' = [thread EXCEPT ![c].at = "handling"]
              /\ UNCHANGED parser
    /\ disturbed' = disturbed \cup Meets(c)
    /\ UNCHANGED <<up, received, handled, answers, undefined>>

\* Two threads that may call the parser at the same time: a data race.
MayCallParser(c) ==
    \/ c \notin up
    \/ thread[c].at = "parsing"
    \/ thread[c].at = "idle" /\ received[c] < Len(Stream(c))

Race(c, d) ==
    /\ ~undefined
    /\ MayCallParser(c) /\ MayCallParser(d)
    /\ undefined' = TRUE
    /\ UNCHANGED <<up, received, parser, thread, handled, answers, disturbed>>

\* SendResponse: what each handler answers, with the seq of the request.
BugNoAnswer(packet) ==
    IF packet.type \in {"REGISTER_WORKER", "TASK_QUERY"} /\ FromJsonSucceeds(packet)
    THEN <<[seq |-> packet.seq, success |-> TRUE]>> ELSE <<>>
Response(packet) ==
    CASE packet.type = "REGISTER_WORKER" ->
           <<[seq |-> packet.seq, success |-> FromJsonSucceeds(packet)]>>
      [] packet.type = "TASK_QUERY" /\ FromJsonSucceeds(packet) ->
           <<[seq |-> packet.seq, success |-> TRUE]>>
      [] OTHER -> <<>>

\* HandlePacket for the next parsed packet, on the connection whose thread
\* parsed it.
HandlePacket(c) ==
    /\ Runs(c, "handling") /\ thread[c].packets # <<>>
    /\ LET packet == Head(thread[c].packets)
       IN  /\ handled' = [handled EXCEPT ![c] = Append(@, packet)]
           /\ answers' = [answers EXCEPT ![c] = @ \o Response(packet)]
    /\ thread' = [thread EXCEPT ![c].packets = Tail(@)]
    /\ UNCHANGED <<up, received, parser, undefined, disturbed>>

OnMessageReturns(c) ==
    /\ Runs(c, "handling") /\ thread[c].packets = <<>>
    /\ thread' = [thread EXCEPT ![c].at = "idle"]
    /\ UNCHANGED <<up, received, parser, handled, answers, undefined, disturbed>>

Outcomes == {"packet", "bad", "short"}

Next ==
    \/ \E c \in Conns : OnConnection(c) \/ HandlePacket(c) \/ OnMessageReturns(c)
    \/ \E c \in Conns : \E n \in 1 .. Len(Stream(c)) : Feed(c, n)
    \/ \E c \in Conns, outcome \in Outcomes, skip \in {1, Len(parser)} :
          Parse(c, outcome, skip)
    \/ \E c, d \in Conns : c # d /\ Race(c, d)

Spec == Init /\ [][Next]_vars

-----------------------------------------------------------------------------
(* Properties.                                                             *)

TypeOK ==
    /\ up \subseteq Conns /\ disturbed \subseteq Conns
    /\ \A c \in Conns : received[c] \in 0 .. Len(Stream(c))
    /\ \A i \in DOMAIN parser : parser[i].conn \in Conns
    /\ thread \in [Conns -> [at : {"idle", "parsing", "handling"}, packets : Seq(Packets)]]
    /\ handled \in [Conns -> Seq(Packets)]
    /\ undefined \in BOOLEAN

\* The first packets of c that are whole in the first n units of its stream.
Whole(c, n) ==
    LET Ends(k) == Len(FlattenSeq([i \in 1 .. k |-> Serialize(Sent[c][i])]))
        k == CHOOSE k \in 0 .. Len(Sent[c]) :
                /\ Ends(k) <= n
                /\ k < Len(Sent[c]) => Ends(k + 1) > n
    IN  SubSeq(Sent[c], 1, k)

\* A connection whose bytes never meet another's in the shared parser is served
\* as if it were alone, wherever its stream is cut into reads: every packet
\* that has arrived is handled once, in the order it was sent, and answered to
\* the connection it came from.
ServedAsAlone ==
    \A c \in up \ disturbed : ~undefined /\ thread[c].at = "idle" =>
        LET whole == Whole(c, received[c])
        IN  /\ handled[c] = whole
            /\ answers[c] = FlattenSeq([i \in DOMAIN whole |->
                   CASE whole[i].type = "REGISTER_WORKER" ->
                          <<[seq |-> whole[i].seq,
                             success |-> WorkerRegisterReq \subseteq whole[i].fields]>>
                     [] whole[i].type = "TASK_QUERY" /\ "task_id" \in whole[i].fields ->
                          <<[seq |-> whole[i].seq, success |-> TRUE]>>
                     [] OTHER -> <<>>])

\* The packets of the peers are told apart, so that they can be counted.
PacketsDistinct ==
    \A c, d \in Conns : \A i \in DOMAIN Sent[c], j \in DOMAIN Sent[d] :
        Sent[c][i] = Sent[d][j] => c = d /\ i = j

\* However the bytes of several connections are mixed, and wherever the parser
\* picks up again, every packet that is handled was sent by some peer, and by
\* none more than once: the checksum rejects what is put together of two.
NothingForged ==
    LET Calls == UNION {{<<c, i>> : i \in DOMAIN handled[c]} : c \in Conns}
        Packet(call) == handled[call[1]][call[2]]
    IN  /\ \A call \in Calls : \E d \in up : Packet(call) \in ToSet(Sent[d])
        /\ \A call, other \in Calls : call # other => Packet(call) # Packet(other)
=============================================================================
