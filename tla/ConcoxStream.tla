---------------------------- MODULE ConcoxStream ----------------------------
(***************************************************************************)
(* The Concox byte stream: a device writes frames, the network may damage a*)
(* byte and cuts the stream anywhere, and the server appends each chunk to *)
(* its buffer and parses what is complete (parseConcoxBuffer and the `data`*)
(* handler around it).  The publishing of the packets is in TcpServer.     *)
(***************************************************************************)
EXTENDS ConcoxPackets, FiniteSets

CONSTANTS
    Streams,   \* bound: the sequences of messages a device may send
    Damage,    \* bound: the values a damaged byte may take
    Chunks,    \* bound: the sizes of a chunk
    Limit      \* 10240, the bound of the buffer

(* Assumed where the constants get their values. *)
StreamAssumption ==
    /\ Damage \subseteq Byte
    /\ Chunks \subseteq Nat \ {0}
    /\ Limit \in Nat

VARIABLES
    messages,  \* what the device sends: each message with its frame
    damaged,   \* history: the message with the damaged byte, 0 without one
    wire,      \* bytes under way
    buffer,    \* the server's buffer
    packets    \* what the parser has returned

vars == <<messages, damaged, wire, buffer, packets>>

Bytes(ms) ==
    LET upTo[n \in 0..Len(ms)] == IF n = 0 THEN <<>> ELSE upTo[n - 1] \o ms[n].frame
    IN  upTo[Len(ms)]

Init ==
    /\ messages \in Streams
    /\ \/ damaged = 0 /\ wire = Bytes(messages)
       \/ \E n \in DOMAIN messages : \E i \in DOMAIN messages[n].frame, b \in Damage :
             /\ messages[n].frame[i] # b
             /\ wire = Bytes([messages EXCEPT ![n].frame[i] = b])
             /\ damaged = n
    /\ buffer = <<>>
    /\ packets = <<>>

-----------------------------------------------------------------------------
(* parseConcoxBuffer: what stands at position p of the bytes bs *)

Printable == 32..126

(* The first CRLF from p on, 0 without one. *)
Crlf(bs, p) ==
    LET at == {i \in p..(Len(bs) - 1) : bs[i] = 13 /\ bs[i + 1] = 10}
    IN  IF at = {} THEN 0 ELSE CHOOSE i \in at : \A j \in at : i <= j

StartsWith(bs, p, b) == bs[p] = b /\ bs[p + 1] = b

(* The size of the frame at p, whose length field has w bytes. *)
FrameSize(bs, p, w) == IF w = 1 THEN bs[p + 2] + 5 ELSE Word(bs, p + 2) + 10

(* The checksum covers the length field and all up to the serial number.   *)
CrcMatches(bs, p, size) ==
    crcItu(SubSeq(bs, p + 2, p + size - 5)) = Word(bs, p + size - 4)

(* Mutant: a frame that ends the buffer is left for the next chunk. *)
FrameLate(bs, p, w) ==
    LET size == FrameSize(bs, p, w)
    IN  CASE p + 1 + w > Len(bs) \/ p + size - 1 >= Len(bs) -> [kind |-> "wait"]
          [] OTHER ->
             IF ~(bs[p + size - 2] = 13 /\ bs[p + size - 1] = 10) \/ ~CrcMatches(bs, p, size)
             THEN [kind |-> "skip", next |-> p + 1]
             ELSE [kind |-> "frame", next |-> p + size,
                   packet |-> Dispatch(bs[p + 2 + w], SubSeq(bs, p + 3 + w, p + size - 7),
                                       Word(bs, p + size - 6))]

FrameAt(bs, p, w) ==
    LET size == FrameSize(bs, p, w)
    IN  CASE p + 1 + w > Len(bs) \/ p + size - 1 > Len(bs) -> [kind |-> "wait"]
          [] OTHER ->
             IF ~(bs[p + size - 2] = 13 /\ bs[p + size - 1] = 10) \/ ~CrcMatches(bs, p, size)
             THEN [kind |-> "skip", next |-> p + 1]
             ELSE [kind |-> "frame", next |-> p + size,
                   packet |-> Dispatch(bs[p + 2 + w], SubSeq(bs, p + 3 + w, p + size - 7),
                                       Word(bs, p + size - 6))]

(* A start mark is a frame.  A printable byte, an x among them, is a text  *)
(* up to the next CRLF, if there is one in the buffer; any other byte is   *)
(* skipped.                                                                *)
Item(bs, p) ==
    CASE p + 1 > Len(bs) -> [kind |-> "wait"]
      [] p + 1 <= Len(bs) /\ StartsWith(bs, p, 120) -> FrameAt(bs, p, 1)
      [] p + 1 <= Len(bs) /\ StartsWith(bs, p, 121) -> FrameAt(bs, p, 2)
      [] OTHER ->
         IF bs[p] \in Printable /\ Crlf(bs, p) # 0
         THEN [kind |-> "text", next |-> Crlf(bs, p) + 2,
               packet |-> [packetType |-> "CONCOX_ASCII_MESSAGE"]]
         ELSE [kind |-> "skip", next |-> p + 1]

(* Position by position from the end: the packets from p on, and what is   *)
(* left over for the next chunk.                                           *)
parseConcoxBuffer(bs) ==
    LET from[p \in 1..Len(bs) + 1] ==
            LET item == Item(bs, p)
            IN  IF item.kind = "wait" THEN [packets |-> <<>>, remainder |-> Rest(bs, p)]
                ELSE IF item.kind = "skip" \/ item.packet = None THEN from[item.next]
                ELSE [from[item.next] EXCEPT !.packets = <<item.packet>> \o @]
    IN  from[1]

(* Mutant: a partial frame is forgotten. *)
ReceiveWithoutRemainder(chunk) ==
    /\ buffer' = <<>>
    /\ packets' = packets \o parseConcoxBuffer(buffer \o chunk).packets

-----------------------------------------------------------------------------
Receive(chunk) ==
    LET bs == buffer \o chunk
        result == parseConcoxBuffer(bs)
    IN  IF Len(bs) > Limit THEN buffer' = <<>> /\ UNCHANGED packets
        ELSE /\ buffer' = result.remainder
             /\ packets' = packets \o result.packets

Data ==
    \E n \in Chunks :
        /\ wire # <<>>
        /\ LET size == IF n < Len(wire) THEN n ELSE Len(wire)
           IN  Receive(Cut(wire, size)) /\ wire' = Rest(wire, size + 1)
        /\ UNCHANGED <<messages, damaged>>

Next == Data

Spec == Init /\ [][Next]_vars

-----------------------------------------------------------------------------
(* With what the buffer may hold: the beginning of one frame, which is not *)
(* all there.                                                              *)
TypeOK ==
    /\ damaged \in 0..Len(messages)
    /\ wire \in Seq(Byte)
    /\ buffer \in Seq(Byte) /\ Len(buffer) <= Limit
    /\ Len(buffer) >= 2 => StartsWith(buffer, 1, 120) \/ StartsWith(buffer, 1, 121)
    /\ Len(buffer) >= 4 => Len(buffer) < FrameSize(buffer, 1, buffer[1] - 119)
    /\ \A n \in DOMAIN packets :
          packets[n].packetType \in
              {"CONCOX_LOGIN", "CONCOX_HEARTBEAT", "CONCOX_LOCATION", "CONCOX_ALARM",
               "CONCOX_INFO", "CONCOX_TIME_CHECK", "CONCOX_ASCII_MESSAGE"}

-----------------------------------------------------------------------------
Decoded == SelectSeq(packets, LAMBDA k : k.packetType # "CONCOX_ASCII_MESSAGE")

(* The messages that the packets stand for: those with the same contents.  *)
Arrived ==
    {n \in DOMAIN messages : \E k \in DOMAIN Decoded : Decoded[k] = messages[n].meaning}

Whole(n) == n # damaged
Received == Len(Bytes(messages)) - Len(wire)

(* However the stream is cut, what arrives means what the device sent, in  *)
(* the order it sent it and once; an undamaged stream loses nothing and is *)
(* parsed as soon as a frame is complete; and a damaged byte costs at most *)
(* its own frame and the next, once nothing is left waiting in the buffer. *)
IntactFramesArrive ==
    /\ \A k \in DOMAIN Decoded :
          \E n \in DOMAIN messages :
             /\ Whole(n) /\ Decoded[k] = messages[n].meaning
             /\ k > 1 => \E m \in 1..(n - 1) : Decoded[k - 1] = messages[m].meaning
    /\ damaged = 0 =>
          /\ Arrived = {n \in DOMAIN messages : Len(Bytes(Cut(messages, n))) <= Received}
          /\ packets = Decoded
    /\ wire = <<>> /\ buffer = <<>> =>
          \A n \in DOMAIN messages : Whole(n) /\ n # damaged + 1 => n \in Arrived
=============================================================================
