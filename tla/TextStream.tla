----------------------------- MODULE TextStream -----------------------------
(***************************************************************************)
(* The byte stream of a text protocol: packets that begin with a $ and end *)
(* with a delimiter, which the network cuts anywhere and may damage, up to *)
(* the parsed and validated packet (the `data` handler and the head of     *)
(* processPacket).  What the server does with that one is in TcpServer.    *)
(* The stream is a sequence of fields (see TextPackets).                   *)
(***************************************************************************)
EXTENDS TextPackets, FiniteSets

CONSTANTS
    TextStreams,  \* bound: what a device may send: the delimiter of its port, and messages
    TextDamage,   \* bound: the fields that may stand in for a damaged one
    TextChunks,   \* bound: the sizes of a chunk, in fields
    TextLimit     \* the bound of the buffer, in fields (10000 characters)

VARIABLES
    sent,     \* [delimiter, messages]; a message has its fields and its meaning
    harmed,   \* history: the message with the damaged field, 0 without one
    line,     \* fields under way
    pending,  \* the server's buffer
    results   \* the packets that were parsed and found valid

textVars == <<sent, harmed, line, pending, results>>

FieldsOf(ms) ==
    LET upTo[n \in 0..Len(ms)] == IF n = 0 THEN <<>> ELSE upTo[n - 1] \o ms[n].fields
    IN  upTo[Len(ms)]

TextInit ==
    /\ sent \in TextStreams
    /\ \/ harmed = 0 /\ line = FieldsOf(sent.messages)
       \/ \E n \in DOMAIN sent.messages :
             \E i \in DOMAIN sent.messages[n].fields, f \in TextDamage :
                /\ sent.messages[n].fields[i] # f
                /\ line = FieldsOf([sent.messages EXCEPT ![n].fields[i] = f])
                /\ harmed = n
    /\ pending = <<>>
    /\ results = <<>>

-----------------------------------------------------------------------------
(* processPacket, from the header to the verdict: nothing for a header of  *)
(* another port, a parser's throw, or an invalid packet.                   *)
Allowed(delimiter) ==
    IF delimiter = "#" THEN {"$10", "$11"} ELSE Headers \ {"$10", "$11"}

Process(p, delimiter) ==
    IF p[1].word \notin Allowed(delimiter) \/ parsePacket(p) = TextNone THEN <<>>
    ELSE IF Valid(parsePacket(p)) THEN <<parsePacket(p)>> ELSE <<>>

-----------------------------------------------------------------------------
(* The `data` handler (the first bytes are not those of a Concox frame) *)

Ends(fs, delimiter) == {i \in DOMAIN fs : fs[i] = W(delimiter)}
Dollar(f) == "word" \in DOMAIN f /\ f.word \in Dollars

(* Mutant: a packet begins at the first $ of what was received. *)
PacketFromFirst(fs) ==
    LET starts == {i \in DOMAIN fs : Dollar(fs[i])}
    IN  IF starts = {} THEN <<>>
        ELSE SubSeq(fs, CHOOSE i \in starts : \A j \in starts : j >= i, Len(fs))

(* From the last $ before the delimiter. *)
PacketIn(fs) ==
    LET starts == {i \in DOMAIN fs : Dollar(fs[i])}
    IN  IF starts = {} THEN <<>>
        ELSE SubSeq(fs, CHOOSE i \in starts : \A j \in starts : j <= i, Len(fs))

Extract(fs, delimiter) ==
    LET from[i \in 1..Len(fs) + 1] ==
            LET ends == {j \in Ends(fs, delimiter) : j >= i}
                end == CHOOSE j \in ends : \A k \in ends : j <= k
                packet == PacketIn(SubSeq(fs, i, end - 1))
            IN  IF ends = {} THEN [results |-> <<>>, pending |-> SubSeq(fs, i, Len(fs))]
                ELSE LET after == from[end + 1]
                     IN  IF packet = <<>> THEN after
                         ELSE [after EXCEPT !.results = Process(packet, delimiter) \o @]
    IN  from[1]

TextData ==
    \E n \in TextChunks :
        LET size == IF n < Len(line) THEN n ELSE Len(line)
            new == Extract(pending \o SubSeq(line, 1, size), sent.delimiter)
        IN  /\ line # <<>>
            /\ line' = SubSeq(line, size + 1, Len(line))
            /\ pending' = IF Len(new.pending) > TextLimit THEN <<>> ELSE new.pending
            /\ results' = results \o new.results
            /\ UNCHANGED <<sent, harmed>>

TextSpec == TextInit /\ [][TextData]_textVars

-----------------------------------------------------------------------------
(* With what the buffer may hold: no delimiter, hence no whole packet.     *)
TextTypeOK ==
    /\ harmed \in 0..Len(sent.messages)
    /\ Len(pending) <= TextLimit
    /\ Ends(pending, sent.delimiter) = {}
    /\ \A n \in DOMAIN results : ImeiValid(results[n]) \/ results[n].packetType \in {"$LGN", "$HLM"}

-----------------------------------------------------------------------------
Meant(n) == sent.messages[n].meaning
Sound == {n \in DOMAIN sent.messages : n # harmed /\ Meant(n) # TextNone}
InFull == {n \in Sound : Len(FieldsOf(SubSeq(sent.messages, 1, n))) <= Len(FieldsOf(sent.messages)) - Len(line)}

(* However the stream is cut, each undamaged packet that means something   *)
(* is taken for exactly that, in its turn, once it has arrived; a damaged  *)
(* field costs or changes its own packet only.                             *)
OthersUnharmed ==
    LET others == SelectSeq(results, LAMBDA r : \E n \in Sound : r = Meant(n))
        position(n) == Cardinality({m \in Sound : m <= n})
    IN  /\ \A n \in InFull : position(n) \in DOMAIN others /\ others[position(n)] = Meant(n)
        /\ Len(results) <= Len(others) + (IF harmed = 0 THEN 0 ELSE 2)
        /\ harmed = 0 => results = others
=============================================================================
