------------------------------ MODULE TcpProofs ------------------------------
(***************************************************************************)
(* The invariants of TcpServer, for every set of sockets, caps, packets    *)
(* and faults: its types, that the places under a port's cap are its open  *)
(* sockets, that no report sent after the answer to a login is discarded,  *)
(* and that the streams hold the packets that were handled, all of them    *)
(* and no others.                                                          *)
(***************************************************************************)
EXTENDS TcpServer, FiniteSetTheorems, TLAPS

States == {"new", "open", "rejected", "closed"}

PlacesInv ==
    /\ conn \in [Sockets -> States]
    /\ portSockets \in [TextPorts -> Nat]
    /\ PlacesAreSockets

LEMMA OpenFinite == \A p : IsFiniteSet(Open(p)) /\ Cardinality(Open(p)) \in Nat
<1>1. SUFFICES ASSUME NEW p PROVE IsFiniteSet(Open(p))
    BY FS_CardinalityType
<1> QED  BY FS_Subset, TcpAssumption DEF Open, TcpAssumption

LEMMA PlacesInit == Init => PlacesInv
<1> SUFFICES ASSUME Init PROVE PlacesInv
    OBVIOUS
<1>1. \A p : Open(p) = {}
    BY DEF Open, Init
<1>2. \A p \in TextPorts : portSockets[p] = 0 /\ PortCap[p] \in Nat \ {0}
    BY TcpAssumption DEF TcpAssumption, Init
<1>3. PlacesAreSockets
    BY <1>1, <1>2, FS_EmptySet DEF PlacesAreSockets
<1> QED  BY <1>3 DEF PlacesInv, Init, States

(* What leaves conn and portSockets alone leaves the places alone.         *)
LEMMA PlacesKept == PlacesInv /\ UNCHANGED <<conn, portSockets>> => PlacesInv'
BY DEF PlacesInv, PlacesAreSockets, Open

LEMMA PlacesConnect ==
    ASSUME PlacesInv, NEW s \in Sockets, Connect(s) PROVE PlacesInv'
<1> DEFINE p == Protocol[s]
<1>1. p \in TextPorts \cup {"CONCOX"} /\ "CONCOX" \notin TextPorts
    BY TcpAssumption DEF TcpAssumption
<1>2. conn[s] = "new" /\ conn \in [Sockets -> States] /\ portSockets \in [TextPorts -> Nat]
    BY DEF Connect, PlacesInv
<1>3. \A q \in TextPorts : PortCap[q] \in Nat
    BY TcpAssumption DEF TcpAssumption
<1>4. \A q \in TextPorts :
         portSockets[q] = Cardinality(Open(q)) /\ Cardinality(Open(q)) <= PortCap[q]
    BY DEF PlacesInv, PlacesAreSockets
<1>5. CASE p \in TextPorts /\ portSockets[p] < PortCap[p]
    <2>1. /\ conn' = [conn EXCEPT ![s] = "open"]
          /\ portSockets' = [portSockets EXCEPT ![p] = @ + 1]
        BY <1>5, <1>1, <1>2, <1>3 DEF Connect
    <2>2. s \notin Open(p) /\ Open(p)' = Open(p) \cup {s}
        BY <1>2, <2>1 DEF Open
    <2>3. Cardinality(Open(p)') = Cardinality(Open(p)) + 1
        BY <2>2, OpenFinite, FS_AddElement
    <2>4. \A q \in TextPorts : q # p => Open(q)' = Open(q) /\ portSockets'[q] = portSockets[q]
        BY <1>2, <2>1 DEF Open
    <2>5. portSockets'[p] = portSockets[p] + 1
        BY <1>2, <1>5, <2>1
    <2>6. PlacesAreSockets'
        <3> SUFFICES ASSUME NEW q \in TextPorts
                     PROVE /\ portSockets'[q] = Cardinality(Open(q)')
                           /\ Cardinality(Open(q)') <= PortCap[q]
            BY DEF PlacesAreSockets, Open
        <3>1. CASE q = p
            BY <3>1, <1>2, <1>3, <1>4, <1>5, <2>3, <2>5
        <3>2. CASE q # p
            BY <3>2, <1>4, <2>4
        <3> QED  BY <3>1, <3>2
    <2> QED  BY <1>2, <1>5, <2>1, <2>6 DEF PlacesInv, States
<1>6. CASE ~(p \in TextPorts /\ portSockets[p] < PortCap[p])
    <2>1. /\ \/ conn' = [conn EXCEPT ![s] = "rejected"]
             \/ p = "CONCOX" /\ conn' = [conn EXCEPT ![s] = "open"]
          /\ portSockets' = portSockets
        BY <1>6 DEF Connect
    <2>2. \A q \in TextPorts : Open(q)' = Open(q)
        BY <1>1, <1>2, <2>1 DEF Open
    <2>3. PlacesAreSockets'
        BY <1>4, <2>1, <2>2 DEF PlacesAreSockets
    <2> QED  BY <1>2, <2>1, <2>3 DEF PlacesInv, States
<1> QED  BY <1>5, <1>6

LEMMA PlacesClose ==
    ASSUME PlacesInv, NEW s \in Sockets, Close(s) PROVE PlacesInv'
<1> DEFINE p == Protocol[s]
<1>1. conn[s] = "open" /\ conn \in [Sockets -> States] /\ portSockets \in [TextPorts -> Nat]
    BY DEF Close, PlacesInv
<1>2. conn' = [conn EXCEPT ![s] = "closed"]
    BY DEF Close
<1>3. \A q \in TextPorts :
         portSockets[q] = Cardinality(Open(q)) /\ Cardinality(Open(q)) <= PortCap[q]
    BY DEF PlacesInv, PlacesAreSockets
<1>4. \A q : q # p => Open(q)' = Open(q)
    BY <1>1, <1>2 DEF Open
<1>5. \A q \in TextPorts : PortCap[q] \in Nat
    BY TcpAssumption DEF TcpAssumption
<1>6. CASE p \in TextPorts
    <2>1. s \in Open(p) /\ Open(p)' = Open(p) \ {s}
        BY <1>1, <1>2 DEF Open
    <2>2. Cardinality(Open(p)') = Cardinality(Open(p)) - 1 /\ Cardinality(Open(p)') \in Nat
        BY <2>1, OpenFinite, FS_RemoveElement, FS_CardinalityType
    <2>3. portSockets[p] > 0
        BY <1>1, <1>3, <1>6, <2>2, OpenFinite
    <2>4. portSockets' = [portSockets EXCEPT ![p] = @ - 1]
        BY <1>6, <2>3 DEF Close
    <2>5. PlacesAreSockets'
        <3> SUFFICES ASSUME NEW q \in TextPorts
                     PROVE /\ portSockets'[q] = Cardinality(Open(q)')
                           /\ Cardinality(Open(q)') <= PortCap[q]
            BY DEF PlacesAreSockets, Open
        <3>1. CASE q = p
            BY <3>1, <1>1, <1>3, <1>5, <1>6, <2>2, <2>4
        <3>2. CASE q # p
            BY <3>2, <1>1, <1>3, <1>4, <2>4
        <3> QED  BY <3>1, <3>2
    <2>6. portSockets' \in [TextPorts -> Nat]
        BY <1>1, <1>6, <2>3, <2>4
    <2>7. conn' \in [Sockets -> States]
        BY <1>1, <1>2 DEF States
    <2> QED  BY <2>5, <2>6, <2>7 DEF PlacesInv
<1>7. CASE p \notin TextPorts
    <2>1. portSockets' = portSockets
        BY <1>7 DEF Close
    <2>2. PlacesAreSockets'
        BY <1>3, <1>4, <1>7, <2>1 DEF PlacesAreSockets
    <2>3. portSockets' \in [TextPorts -> Nat] /\ conn' \in [Sockets -> States]
        BY <1>1, <1>2, <2>1 DEF States
    <2> QED  BY <2>2, <2>3 DEF PlacesInv
<1> QED  BY <1>6, <1>7

LEMMA PlacesDies == ASSUME PlacesInv, NEW n, Dies(n) PROVE PlacesInv'
<1>1. conn' \in [Sockets -> States] /\ \A p : Open(p)' = {}
    BY DEF Dies, Open, States
<1>2. \A p \in TextPorts : portSockets'[p] = 0 /\ PortCap[p] \in Nat \ {0}
    BY TcpAssumption DEF TcpAssumption, Dies
<1>3. PlacesAreSockets'
    BY <1>1, <1>2, FS_EmptySet DEF PlacesAreSockets
<1> QED  BY <1>1, <1>3 DEF PlacesInv, Dies

LEMMA PlacesNext == PlacesInv /\ [Next]_vars => PlacesInv'
<1> SUFFICES ASSUME PlacesInv, [Next]_vars PROVE PlacesInv'
    OBVIOUS
<1>1. CASE UNCHANGED vars
    BY <1>1, PlacesKept DEF vars, socketVars
<1>2. ASSUME NEW s \in Sockets, Connect(s) PROVE PlacesInv'
    BY <1>2, PlacesConnect
<1>3. ASSUME NEW s \in Sockets, Close(s) PROVE PlacesInv'
    BY <1>3, PlacesClose
<1>4. ASSUME NEW s \in Sockets, TextPacket(s) PROVE PlacesInv'
    BY <1>4, PlacesDies DEF TextPacket
<1>5. CASE Crash
    BY <1>5, PlacesDies DEF Crash
<1>6. ASSUME NEW s \in Sockets, NEW c \in Chunks, Data(s, c) PROVE PlacesInv'
    BY <1>6, PlacesKept DEF Data, socketVars
<1>7. ASSUME NEW k \in Tasks, Turn(k) PROVE PlacesInv'
    BY <1>7, PlacesKept DEF Turn, socketVars
<1>8. CASE RedisReply \/ RedisRefuses \/ Reconnect
    BY <1>8, PlacesKept DEF RedisReply, RedisRefuses, Reconnect, socketVars
<1> QED  BY <1>1, <1>2, <1>3, <1>4, <1>5, <1>6, <1>7, <1>8 DEF Next

(* A port never holds more sockets than its cap, and counts exactly those. *)
THEOREM PlacesHold == Spec => []PlacesAreSockets
<1>1. PlacesInv => PlacesAreSockets
    BY DEF PlacesInv
<1> QED  BY PlacesInit, PlacesNext, <1>1, PTL DEF Spec

-----------------------------------------------------------------------------
(* A session is set before its login is answered and kept while the        *)
(* process lives, so that the activations of later chunks find it.         *)

Chunk == [socket : Sockets, packets : Seq(Packets), answered : BOOLEAN]
Position == [packet : Nat, at : {"raw", "body", "fix", "end", "done", "gone"}]

KnownTypes ==
    /\ conn \in [Sockets -> States]
    /\ sessionImei \in [Sockets -> Imeis \cup {None}]
    /\ answered \subseteq Sockets
    /\ chunks \in Seq(Chunk)
    /\ task \in Seq(Position)
    /\ Len(task) = Len(chunks)

SocketsMade ==
    /\ \A k \in Tasks : conn[SocketOf(k)] # "new"
    /\ \A s \in answered : conn[s] # "new"

AnsweredHasSession ==
    \A s \in answered : sessionImei[s] # None \/ conn[s] = "closed"

LaterChunksKnown ==
    \A k \in Tasks : chunks[k].answered /\ Running(k) => sessionImei[SocketOf(k)] # None

DroppedEarly == \A id \in dropped : id[1] \in Tasks /\ ~chunks[id[1]].answered

KnownInv ==
    /\ KnownTypes
    /\ SocketsMade
    /\ AnsweredHasSession
    /\ LaterChunksKnown
    /\ DroppedEarly

LEMMA KnownInit == Init => KnownInv
BY DEF Init, KnownInv, KnownTypes, States, SocketsMade, AnsweredHasSession, LaterChunksKnown,
       DroppedEarly, Tasks

LEMMA ChunkOfTask ==
    ASSUME KnownTypes, NEW k \in Tasks
    PROVE  chunks[k] \in Chunk /\ task[k] \in Position /\ SocketOf(k) \in Sockets
<1>1. k \in 1..Len(chunks) /\ k \in 1..Len(task)
    BY DEF KnownTypes, Tasks
<1>2. chunks[k] \in Chunk /\ task[k] \in Position
    BY <1>1 DEF KnownTypes
<1> QED  BY <1>2 DEF SocketOf, Chunk

(* What leaves the activations and the sessions alone, and opens no        *)
(* connection that was closed, keeps it.                                   *)
LEMMA KnownSockets ==
    ASSUME KnownInv, UNCHANGED <<sessionImei, answered, taskVars>>, conn' \in [Sockets -> States],
           \A s \in Sockets : conn[s] = "closed" => conn'[s] = "closed",
           \A s \in Sockets : conn[s] # "new" => conn'[s] # "new"
    PROVE  KnownInv'
<1>1. KnownTypes'
    BY DEF KnownInv, KnownTypes, taskVars
<1>2. AnsweredHasSession'
    BY DEF KnownInv, KnownTypes, AnsweredHasSession
<1>3. LaterChunksKnown' /\ DroppedEarly'
    BY DEF KnownInv, LaterChunksKnown, DroppedEarly, taskVars, Tasks, Running, SocketOf
<1>4. \A k \in Tasks : SocketOf(k) \in Sockets
    BY ChunkOfTask DEF KnownInv
<1>5. SocketsMade'
    <2>1. \A k \in Tasks : conn'[SocketOf(k)] # "new"
        BY <1>4 DEF KnownInv, SocketsMade
    <2>2. Tasks' = Tasks /\ \A k \in Tasks : SocketOf(k)' = SocketOf(k)
        BY DEF taskVars, Tasks, SocketOf
    <2>3. \A s \in answered' : conn'[s] # "new"
        BY DEF KnownInv, KnownTypes, SocketsMade
    <2> QED  BY <2>1, <2>2, <2>3 DEF SocketsMade
<1> QED  BY <1>1, <1>2, <1>3, <1>5 DEF KnownInv

LEMMA KnownConnect == ASSUME KnownInv, NEW s \in Sockets, Connect(s) PROVE KnownInv'
<1>1. conn \in [Sockets -> States] /\ conn[s] = "new"
    BY DEF KnownInv, KnownTypes, Connect
<1>2. conn' \in {[conn EXCEPT ![s] = "open"], [conn EXCEPT ![s] = "rejected"]}
    BY DEF Connect
<1>3. conn' \in [Sockets -> States]
      /\ \A t \in Sockets : /\ conn[t] = "closed" => conn'[t] = "closed"
                           /\ conn[t] # "new" => conn'[t] # "new"
    BY <1>1, <1>2 DEF States
<1> QED  BY <1>3, KnownSockets DEF Connect, sessionVars

LEMMA KnownClose == ASSUME KnownInv, NEW s \in Sockets, Close(s) PROVE KnownInv'
<1>1. conn \in [Sockets -> States] /\ conn' = [conn EXCEPT ![s] = "closed"]
    BY DEF KnownInv, KnownTypes, Close
<1>2. conn' \in [Sockets -> States]
      /\ \A t \in Sockets : /\ conn[t] = "closed" => conn'[t] = "closed"
                           /\ conn[t] # "new" => conn'[t] # "new"
    BY <1>1 DEF States
<1> QED  BY <1>2, KnownSockets DEF Close

LEMMA GaveUp ==
    ASSUME KnownTypes
    PROVE  GiveUp \in Seq(Position) /\ Len(GiveUp) = Len(task)
           /\ \A k \in Tasks : GiveUp[k].at \in {"done", "gone"}
<1>1. Tasks = 1..Len(task) /\ Len(task) \in Nat
    BY DEF KnownTypes, Tasks
<1>2. \A k \in Tasks : task[k] \in Position
    BY <1>1 DEF KnownTypes
<1>3. \A k \in Tasks : GiveUp[k] \in Position /\ GiveUp[k].at \in {"done", "gone"}
    BY <1>2 DEF GiveUp, Position
<1> QED  BY <1>1, <1>3 DEF GiveUp

(* The death of the process: every connection that was made is closed.     *)
LEMMA KnownDies ==
    ASSUME KnownInv, NEW n, Dies(n), UNCHANGED <<answered, dropped>>,
           \/ chunks' = chunks /\ task' = GiveUp
           \/ \E c \in Chunk, q \in Position :
                 /\ ~c.answered /\ q.at = "gone" /\ conn[c.socket] = "open"
                 /\ chunks' = Append(chunks, c) /\ task' = Append(GiveUp, q)
    PROVE  KnownInv'
<1>1. GiveUp \in Seq(Position) /\ Len(GiveUp) = Len(task)
      /\ \A k \in Tasks : GiveUp[k].at \in {"done", "gone"}
    BY GaveUp DEF KnownInv
<1>2. chunks \in Seq(Chunk) /\ task \in Seq(Position) /\ Len(task) = Len(chunks)
      /\ Tasks = 1..Len(task) /\ Len(task) \in Nat
    BY DEF KnownInv, KnownTypes, Tasks
<1>3. KnownTypes'
    <2>1. chunks' \in Seq(Chunk) /\ task' \in Seq(Position) /\ Len(task') = Len(chunks')
        <3>1. CASE chunks' = chunks /\ task' = GiveUp
            BY <3>1, <1>1, <1>2
        <3>2. ASSUME NEW c \in Chunk, NEW q \in Position,
                     chunks' = Append(chunks, c), task' = Append(GiveUp, q)
              PROVE  chunks' \in Seq(Chunk) /\ task' \in Seq(Position) /\ Len(task') = Len(chunks')
            BY <3>2, <1>1, <1>2
        <3> QED  BY <3>1, <3>2
    <2>2. conn' \in [Sockets -> States] /\ sessionImei' \in [Sockets -> Imeis \cup {None}]
        BY DEF Dies, States
    <2> QED  BY <2>1, <2>2 DEF KnownTypes, KnownInv
<1>4. \A s \in Sockets : conn[s] # "new" => conn'[s] = "closed"
    BY DEF Dies
<1>5. \A s \in answered : s \in Sockets /\ conn[s] # "new"
    BY DEF KnownInv, KnownTypes, SocketsMade
<1>6. AnsweredHasSession'
    BY <1>4, <1>5 DEF AnsweredHasSession
<1>7. /\ \A k \in Tasks : k \in Tasks' /\ chunks'[k] = chunks[k]
      /\ \A k \in Tasks' : task'[k].at \in {"done", "gone"}
      /\ \A k \in Tasks' : \/ k \in Tasks
                           \/ chunks'[k] \in Chunk /\ conn[chunks'[k].socket] = "open"
    <2>1. CASE chunks' = chunks /\ task' = GiveUp
        <3>1. Tasks' = Tasks
            BY <2>1, <1>1, <1>2 DEF Tasks
        <3> QED  BY <2>1, <3>1, <1>1
    <2>2. ASSUME NEW c \in Chunk, NEW q \in Position, q.at = "gone", conn[c.socket] = "open",
                 chunks' = Append(chunks, c), task' = Append(GiveUp, q)
          PROVE  <1>7!1 /\ <1>7!2 /\ <1>7!3
        <3>1. Tasks' = 1..(Len(task) + 1)
            BY <2>2, <1>1, <1>2 DEF Tasks
        <3>2. \A k \in 1..Len(task) : task'[k] = GiveUp[k] /\ chunks'[k] = chunks[k]
            <4>1. ASSUME NEW k \in 1..Len(task) PROVE chunks'[k] = chunks[k]
                BY <4>1, <2>2, <1>2
            <4>2. ASSUME NEW k \in 1..Len(task) PROVE task'[k] = GiveUp[k]
                BY <4>2, <2>2, <1>1, <1>2
            <4> QED  BY <4>1, <4>2
        <3>3. task'[Len(task) + 1] = q /\ chunks'[Len(task) + 1] = c
            BY <2>2, <1>1, <1>2
        <3> QED  BY <3>1, <3>2, <3>3, <2>2, <1>1, <1>2
    <2> QED  BY <2>1, <2>2
<1>8. SocketsMade'
    <2>1. \A k \in Tasks : SocketOf(k) \in Sockets /\ conn[SocketOf(k)] # "new"
        BY ChunkOfTask DEF KnownInv, SocketsMade
    <2>2. \A k \in Tasks' : conn'[chunks'[k].socket] = "closed"
        BY <2>1, <1>4, <1>7 DEF SocketOf, Chunk
    <2> QED  BY <2>2, <1>4, <1>5 DEF SocketsMade, SocketOf
<1>9. LaterChunksKnown'
    BY <1>7 DEF LaterChunksKnown, Running
<1>10. DroppedEarly'
    BY <1>7 DEF KnownInv, DroppedEarly
<1> QED  BY <1>3, <1>6, <1>8, <1>9, <1>10 DEF KnownInv

(* A chunk that comes after the answer finds the session.                  *)
LEMMA KnownData ==
    ASSUME KnownInv, NEW s \in Sockets, NEW c \in Chunks, Data(s, c) PROVE KnownInv'
<1> DEFINE new == [socket |-> s, packets |-> c, answered |-> s \in answered]
           start == [packet |-> 1, at |-> "raw"]
<1>1. /\ conn[s] = "open" /\ chunks' = Append(chunks, new) /\ task' = Append(task, start)
      /\ UNCHANGED <<conn, sessionImei, answered, dropped>>
    BY DEF Data, socketVars, sessionVars
<1>2. new \in Chunk /\ start \in Position
    BY TcpAssumption DEF Chunk, Position, TcpAssumption
<1>3. chunks \in Seq(Chunk) /\ task \in Seq(Position) /\ Len(task) = Len(chunks)
      /\ Tasks = 1..Len(task) /\ Len(task) \in Nat
    BY DEF KnownInv, KnownTypes, Tasks
<1> HIDE DEF new, start
<1>4. /\ chunks' \in Seq(Chunk) /\ task' \in Seq(Position) /\ Len(task') = Len(chunks')
      /\ Tasks' = 1..(Len(task) + 1)
    BY <1>1, <1>2, <1>3 DEF Tasks
<1>5. \A k \in Tasks : k \in Tasks' /\ chunks'[k] = chunks[k] /\ task'[k] = task[k]
    BY <1>1, <1>2, <1>3, <1>4
<1>6. \A k \in Tasks' : k \in Tasks \/ chunks'[k] = new
    BY <1>1, <1>2, <1>3, <1>4
<1>7. new.socket = s /\ (new.answered <=> s \in answered)
    BY DEF new
<1>8. \A k \in Tasks' : \/ k \in Tasks /\ SocketOf(k)' = SocketOf(k)
                       \/ SocketOf(k)' = s
    BY <1>5, <1>6, <1>7 DEF SocketOf
<1>9. SocketsMade'
    <2>1. \A k \in Tasks : conn[SocketOf(k)] # "new"
        BY DEF KnownInv, SocketsMade
    <2>2. \A k \in Tasks' : conn'[SocketOf(k)'] # "new"
        BY <2>1, <1>1, <1>8
    <2>3. \A t \in answered' : conn'[t] # "new"
        BY <1>1 DEF KnownInv, SocketsMade
    <2> QED  BY <2>2, <2>3 DEF SocketsMade
<1>10. LaterChunksKnown'
    <2>1. new.answered => sessionImei[s] # None
        BY <1>1, <1>7 DEF KnownInv, AnsweredHasSession
    <2>2. ASSUME NEW k \in Tasks, chunks'[k].answered, Running(k)'
          PROVE  sessionImei'[SocketOf(k)'] # None
        <3>1. chunks[k].answered /\ Running(k) /\ SocketOf(k)' = SocketOf(k)
            BY <2>2, <1>5 DEF Running, SocketOf
        <3> QED  BY <3>1, <1>1 DEF KnownInv, LaterChunksKnown
    <2>3. ASSUME NEW k \in Tasks', chunks'[k] = new, chunks'[k].answered
          PROVE  sessionImei'[SocketOf(k)'] # None
        BY <2>1, <2>3, <1>1, <1>7 DEF SocketOf
    <2> QED  BY <2>2, <2>3, <1>6 DEF LaterChunksKnown
<1>11. DroppedEarly' /\ AnsweredHasSession' /\ KnownTypes'
    BY <1>1, <1>4, <1>5 DEF KnownInv, KnownTypes, DroppedEarly, AnsweredHasSession
<1> QED  BY <1>9, <1>10, <1>11 DEF KnownInv

(* What a turn may do to the state that KnownInv is about.                 *)
Moves(k, q) ==
    /\ Running(k)
    /\ task' = [task EXCEPT ![k] = q]
    /\ UNCHANGED <<conn, chunks>>
    /\ \/ UNCHANGED <<sessionImei, answered>>
       \/ /\ sessionImei' = [sessionImei EXCEPT ![SocketOf(k)] = Device[SocketOf(k)]]
          /\ answered' = answered \cup {SocketOf(k)}
    /\ \/ dropped' = dropped
       \/ dropped' = dropped \cup {Id(k)} /\ sessionImei[SocketOf(k)] = None

LEMMA TurnMoves ==
    ASSUME KnownTypes, NEW k \in Tasks, Turn(k) PROVE \E q \in Position : Moves(k, q)
<1>1. task[k] \in Position /\ SocketOf(k) \in Sockets
    BY ChunkOfTask
<1>2. ASSUME NEW next \in {"raw", "body", "fix", "end", "done", "gone"}, Step(k, next)
      PROVE  \E q \in Position : task' = [task EXCEPT ![k] = q]
    <2>1. [task[k] EXCEPT !.at = next] \in Position
        BY <1>1 DEF Position
    <2> QED  BY <1>2, <2>1 DEF Step
<1>3. ASSUME Finish(k) PROVE \E q \in Position : task' = [task EXCEPT ![k] = q]
    <2>1. [packet |-> task[k].packet + 1, at |-> "raw"] \in Position
        BY <1>1 DEF Position
    <2>2. [task[k] EXCEPT !.at = "done"] \in Position
        BY <1>1 DEF Position
    <2> QED  BY <1>3, <2>1, <2>2 DEF Finish
<1>4. \E q \in Position : task' = [task EXCEPT ![k] = q]
    BY <1>2, <1>3 DEF Turn, RawMessage, Login, Heartbeat, DropBeforeLogin, Location, Alarm,
       AlarmLocation, EndPacket
<1>5. Running(k) /\ UNCHANGED <<conn, chunks>>
    BY DEF Turn, Ready, Running, socketVars, RawMessage, Login, Heartbeat, DropBeforeLogin,
       Location, Alarm, AlarmLocation, EndPacket
<1>6. /\ \/ UNCHANGED <<sessionImei, answered>>
         \/ /\ sessionImei' = [sessionImei EXCEPT ![SocketOf(k)] = Device[SocketOf(k)]]
            /\ answered' = answered \cup {SocketOf(k)}
      /\ \/ dropped' = dropped
         \/ dropped' = dropped \cup {Id(k)} /\ sessionImei[SocketOf(k)] = None
    BY DEF Turn, RawMessage, Login, Heartbeat, DropBeforeLogin, Location, Alarm, AlarmLocation,
       EndPacket, sessionVars
<1> QED  BY <1>4, <1>5, <1>6 DEF Moves

LEMMA KnownMoves ==
    ASSUME KnownInv, NEW k \in Tasks, NEW q \in Position, Moves(k, q) PROVE KnownInv'
<1> DEFINE s == SocketOf(k)
<1>1. KnownTypes /\ Tasks = 1..Len(task) /\ Len(task) \in Nat
    BY DEF KnownInv, KnownTypes, Tasks
<1>2. s \in Sockets /\ Device[s] # None /\ Device[s] \in Imeis
    BY <1>1, ChunkOfTask, TcpAssumption DEF TcpAssumption
<1>3. task' \in Seq(Position) /\ Len(task') = Len(task) /\ Tasks' = Tasks
    BY <1>1 DEF Moves, KnownTypes, Tasks
<1>4. /\ UNCHANGED <<conn, chunks>>
      /\ \A j \in Tasks : SocketOf(j)' = SocketOf(j)
      /\ \A j \in Tasks : Running(j)' => Running(j)
    BY <1>1 DEF Moves, SocketOf, Running, KnownTypes
<1>5. sessionImei' \in [Sockets -> Imeis \cup {None}]
      /\ \A t \in Sockets : sessionImei[t] # None => sessionImei'[t] # None
    <2>1. CASE UNCHANGED sessionImei
        BY <2>1, <1>1 DEF KnownTypes
    <2>2. CASE sessionImei' = [sessionImei EXCEPT ![s] = Device[s]]
        BY <2>2, <1>1, <1>2 DEF KnownTypes
    <2> QED  BY <2>1, <2>2 DEF Moves
<1>6. /\ answered' \subseteq Sockets
      /\ \A t \in answered' : t \in answered \/ (t = s /\ sessionImei'[s] # None)
    <2>1. CASE answered' = answered
        BY <2>1, <1>1 DEF KnownTypes
    <2>2. CASE /\ answered' = answered \cup {s}
               /\ sessionImei' = [sessionImei EXCEPT ![s] = Device[s]]
        BY <2>2, <1>1, <1>2 DEF KnownTypes
    <2> QED  BY <2>1, <2>2 DEF Moves
<1>7. KnownTypes'
    BY <1>1, <1>3, <1>4, <1>5, <1>6 DEF KnownTypes
<1>8. SocketsMade'
    BY <1>3, <1>4, <1>6 DEF KnownInv, SocketsMade
<1>9. AnsweredHasSession'
    BY <1>1, <1>4, <1>5, <1>6 DEF KnownInv, KnownTypes, AnsweredHasSession
<1>10. LaterChunksKnown'
    <2>1. \A j \in Tasks : SocketOf(j) \in Sockets
        BY <1>1, ChunkOfTask
    <2> QED  BY <2>1, <1>3, <1>4, <1>5 DEF KnownInv, LaterChunksKnown
<1>11. DroppedEarly'
    <2>1. sessionImei[s] = None => ~chunks[k].answered
        BY DEF KnownInv, LaterChunksKnown, Moves
    <2>2. Id(k)[1] = k
        BY DEF Id
    <2>3. \A id \in dropped' : id \in dropped \/ (id[1] = k /\ sessionImei[s] = None)
        BY <2>2 DEF Moves
    <2>4. \A id \in dropped : id[1] \in Tasks /\ ~chunks[id[1]].answered
        BY DEF KnownInv, DroppedEarly
    <2> QED  BY <2>1, <2>3, <2>4, <1>3, <1>4 DEF DroppedEarly
<1> QED  BY <1>7, <1>8, <1>9, <1>10, <1>11 DEF KnownInv

LEMMA KnownNext == KnownInv /\ [Next]_vars => KnownInv'
<1> SUFFICES ASSUME KnownInv, [Next]_vars PROVE KnownInv'
    OBVIOUS
<1>0. conn \in [Sockets -> States]
    BY DEF KnownInv, KnownTypes
<1>1. CASE UNCHANGED vars
    BY <1>0, <1>1, KnownSockets DEF vars, socketVars, sessionVars
<1>2. ASSUME NEW s \in Sockets, Connect(s) PROVE KnownInv'
    BY <1>2, KnownConnect
<1>3. ASSUME NEW s \in Sockets, Close(s) PROVE KnownInv'
    BY <1>3, KnownClose
<1>4. ASSUME NEW s \in Sockets, TextPacket(s) PROVE KnownInv'
    <2> DEFINE c == [socket |-> s, answered |-> FALSE,
                     packets |-> <<[type |-> "location", fix |-> TRUE]>>]
               q == [packet |-> 1, at |-> "gone"]
    <2>1. c \in Chunk /\ q \in Position /\ ~c.answered /\ q.at = "gone"
        BY DEF Chunk, Position, Packets, PacketTypes
    <2>2. PICK n \in 0..Len(commands) : Dies(n)
        BY <1>4 DEF TextPacket
    <2>3. /\ chunks' = Append(chunks, c) /\ task' = Append(GiveUp, q)
          /\ conn[c.socket] = "open" /\ UNCHANGED <<answered, dropped>>
        BY <1>4 DEF TextPacket
    <2> QED  BY <2>1, <2>2, <2>3, KnownDies
<1>5. CASE Crash
    BY <1>5, KnownDies DEF Crash
<1>6. ASSUME NEW s \in Sockets, NEW c \in Chunks, Data(s, c) PROVE KnownInv'
    BY <1>6, KnownData
<1>7. ASSUME NEW k \in Tasks, Turn(k) PROVE KnownInv'
    BY <1>7, TurnMoves, KnownMoves DEF KnownInv
<1>8. CASE RedisReply \/ RedisRefuses \/ Reconnect
    BY <1>0, <1>8, KnownSockets
       DEF RedisReply, RedisRefuses, Reconnect, socketVars, sessionVars
<1> QED  BY <1>1, <1>2, <1>3, <1>4, <1>5, <1>6, <1>7, <1>8 DEF Next

(* A report sent after the answer to the login is not discarded for want   *)
(* of a session, whatever the handlers of earlier chunks are doing, and    *)
(* whatever happens to the connection, to Redis or to the process.         *)
THEOREM AnsweredKnown == Spec => []AnsweredIsKnown
<1>1. KnownInv => AnsweredIsKnown
    BY DEF KnownInv, DroppedEarly, AnsweredIsKnown
<1> QED  BY KnownInit, KnownNext, <1>1, PTL DEF Spec

-----------------------------------------------------------------------------
(* What Redis has executed of a stream                                     *)

InLog(id, log) == \E n \in DOMAIN log : log[n] = id
Command == [stream : Streams, id : Ids]

LEMMA LogAppended ==
    ASSUME NEW log \in Seq(Ids), NEW new \in Ids
    PROVE  /\ Append(log, new) \in Seq(Ids)
           /\ \A id : InLog(id, Append(log, new)) <=> InLog(id, log) \/ id = new
<1>1. /\ Append(log, new) \in Seq(Ids) /\ Len(log) \in Nat
      /\ DOMAIN log = 1..Len(log) /\ DOMAIN Append(log, new) = 1..(Len(log) + 1)
      /\ \A n \in 1..Len(log) : Append(log, new)[n] = log[n]
      /\ Append(log, new)[Len(log) + 1] = new
    OBVIOUS
<1> DEFINE longer == Append(log, new)
<1>2. longer = Append(log, new)
    OBVIOUS
<1> HIDE DEF longer
<1>3. ASSUME NEW id PROVE InLog(id, longer) <=> InLog(id, log) \/ id = new
    BY <1>1, <1>2 DEF InLog
<1> QED  BY <1>1, <1>2, <1>3

LEMMA LogJoined ==
    ASSUME NEW log \in Seq(Ids), NEW more \in Seq(Ids)
    PROVE  /\ log \o more \in Seq(Ids)
           /\ \A id : InLog(id, log \o more) <=> InLog(id, log) \/ InLog(id, more)
<1>1. /\ log \o more \in Seq(Ids) /\ Len(log) \in Nat /\ Len(more) \in Nat
      /\ DOMAIN log = 1..Len(log) /\ DOMAIN more = 1..Len(more)
      /\ DOMAIN (log \o more) = 1..(Len(log) + Len(more))
      /\ \A n \in 1..Len(log) : (log \o more)[n] = log[n]
      /\ \A n \in 1..Len(more) : (log \o more)[Len(log) + n] = more[n]
    OBVIOUS
<1> DEFINE both == log \o more
<1>2. both = log \o more
    OBVIOUS
<1> HIDE DEF both
<1>3. ASSUME NEW id, NEW n \in DOMAIN both, both[n] = id
      PROVE  InLog(id, log) \/ InLog(id, more)
    <2>1. CASE n <= Len(log)
        <3>1. n \in DOMAIN log /\ log[n] = id
            BY <1>1, <1>2, <1>3, <2>1
        <3> QED  BY <3>1 DEF InLog
    <2>2. CASE n > Len(log)
        <3>1. n - Len(log) \in DOMAIN more /\ n = Len(log) + (n - Len(log))
            BY <1>1, <1>2, <1>3, <2>2
        <3> QED  BY <1>1, <1>2, <1>3, <3>1 DEF InLog
    <2> QED  BY <1>1, <1>2, <1>3, <2>1, <2>2
<1>4. ASSUME NEW id, NEW n \in DOMAIN log, log[n] = id PROVE InLog(id, both)
    <2>1. n \in DOMAIN both /\ both[n] = id
        BY <1>1, <1>2, <1>4
    <2> QED  BY <2>1 DEF InLog
<1>5. ASSUME NEW id, NEW n \in DOMAIN more, more[n] = id PROVE InLog(id, both)
    <2>1. Len(log) + n \in DOMAIN both /\ both[Len(log) + n] = id
        BY <1>1, <1>2, <1>5
    <2> QED  BY <2>1 DEF InLog
<1>6. \A id : InLog(id, both) <=> InLog(id, log) \/ InLog(id, more)
    BY <1>3, <1>4, <1>5 DEF InLog
<1> QED  BY <1>1, <1>2, <1>6

(* A set of numbers has a least element: what follows is by induction.     *)
LEMMA LeastOne ==
    ASSUME NEW T \in SUBSET Nat, T # {}
    PROVE  \E m \in T : \A n \in T : m <= n
<1>1. PICK m \in T : \A n \in T : ~(<<n, m>> \in OpToRel(<, Nat))
    BY NatLessThanWellFounded, WFMin
<1>2. ASSUME NEW n \in T PROVE m <= n
    <2>1. ~(n < m)
        BY <1>1 DEF OpToRel
    <2> QED  BY <2>1
<1> QED  BY <1>2

(* The recursive function of OnStream, up to n.                            *)
Grown(log, c, name) == IF c.stream = name THEN Append(log, c.id) ELSE log
Filters(sent, name, log, n) ==
    /\ log \in [0..n -> Seq(Ids)]
    /\ log[0] = <<>>
    /\ \A i \in 1..n : log[i] = Grown(log[i - 1], sent[i], name)
    /\ \A i \in 0..n : \A id :
          InLog(id, log[i]) <=> \E j \in 1..i : sent[j].stream = name /\ sent[j].id = id

LEMMA FilterExists ==
    ASSUME NEW name, NEW sent \in Seq(Command)
    PROVE  \E log : Filters(sent, name, log, Len(sent))
<1> DEFINE T == {n \in 0..Len(sent) : ~\E log : Filters(sent, name, log, n)}
<1>1. Len(sent) \in Nat /\ T \in SUBSET Nat /\ \A i \in 1..Len(sent) : sent[i] \in Command
    OBVIOUS
<1>2. SUFFICES ASSUME T # {} PROVE FALSE
    BY <1>1
<1>3. PICK m \in T : \A n \in T : m <= n
    <2> HIDE DEF T
    <2> QED  BY <1>1, <1>2, LeastOne
<1>4. CASE m = 0
    <2> DEFINE none == [i \in 0..0 |-> <<>>]
    <2>1. none \in [0..0 -> Seq(Ids)] /\ none[0] = <<>>
        OBVIOUS
    <2>2. \A id : ~InLog(id, <<>>)
        BY DEF InLog
    <2> HIDE DEF none
    <2>3. Filters(sent, name, none, 0)
        BY <2>1, <2>2 DEF Filters
    <2> QED  BY <1>3, <1>4, <2>3
<1>5. CASE m # 0
    <2>1. m \in 1..Len(sent)
        BY <1>1, <1>5
    <2>2. m - 1 \in 0..Len(sent) /\ m - 1 \notin T
        <3> HIDE DEF T
        <3> QED  BY <1>1, <1>3, <2>1
    <2>3. PICK log : Filters(sent, name, log, m - 1)
        BY <2>2
    <2> DEFINE last == Grown(log[m - 1], sent[m], name)
               more == [i \in 0..m |-> IF i = m THEN last ELSE log[i]]
    <2>4. log[m - 1] \in Seq(Ids)
        BY <2>1, <2>3 DEF Filters
    <2>5. sent[m] \in Command /\ sent[m].id \in Ids
        BY <1>1, <2>1 DEF Command
    <2>6. /\ last \in Seq(Ids)
          /\ \A id : InLog(id, last) <=>
                 InLog(id, log[m - 1]) \/ (sent[m].stream = name /\ sent[m].id = id)
        BY <2>4, <2>5, LogAppended DEF Grown
    <2>7. last = Grown(log[m - 1], sent[m], name)
        OBVIOUS
    <2> HIDE DEF last
    <2>8. /\ more \in [0..m -> Seq(Ids)]
          /\ more[m] = last /\ \A i \in 0..(m - 1) : more[i] = log[i]
        BY <2>1, <2>3, <2>6 DEF Filters
    <2> HIDE DEF more
    <2>9. more[0] = <<>>
        BY <2>1, <2>3, <2>8 DEF Filters
    <2>10. ASSUME NEW i \in 1..m PROVE more[i] = Grown(more[i - 1], sent[i], name)
        <3>1. more[i - 1] = log[i - 1]
            BY <2>1, <2>8
        <3>2. CASE i = m
            BY <2>7, <2>8, <3>1, <3>2
        <3>3. CASE i # m
            BY <2>1, <2>3, <2>8, <3>1, <3>3 DEF Filters
        <3> QED  BY <3>2, <3>3
    <2>11. ASSUME NEW i \in 0..m, NEW id
           PROVE  InLog(id, more[i]) <=> \E j \in 1..i : sent[j].stream = name /\ sent[j].id = id
        <3>1. CASE i = m
            <4>1. InLog(id, log[m - 1]) <=> \E j \in 1..(m - 1) : sent[j].stream = name /\ sent[j].id = id
                BY SMTT(30), <2>1, <2>3 DEF Filters
            <4>2. \A j : j \in 1..m <=> j \in 1..(m - 1) \/ j = m
                BY <2>1
            <4> QED  BY <2>6, <2>8, <3>1, <4>1, <4>2
        <3>2. CASE i # m
            <4>1. i \in 0..(m - 1)
                BY <2>1, <3>2
            <4> QED  BY <2>3, <2>8, <4>1 DEF Filters
        <3> QED  BY <3>1, <3>2
    <2>12. Filters(sent, name, more, m)
        BY <2>8, <2>9, <2>10, <2>11 DEF Filters
    <2> QED  BY <1>3, <2>12
<1> QED  BY <1>4, <1>5

(* OnStream returns the entries of the commands to that stream.            *)
LEMMA OnStreamIs ==
    ASSUME NEW name, NEW sent \in Seq(Command)
    PROVE  /\ OnStream(sent, name) \in Seq(Ids)
           /\ \A id : InLog(id, OnStream(sent, name)) <=>
                  \E j \in 1..Len(sent) : sent[j].stream = name /\ sent[j].id = id
<1> DEFINE on == CHOOSE f : f = [n \in 0..Len(sent) |->
                     IF n = 0 THEN <<>>
                     ELSE IF sent[n].stream = name THEN Append(f[n - 1], sent[n].id) ELSE f[n - 1]]
<1>1. OnStream(sent, name) = on[Len(sent)]
    BY DEF OnStream
<1>2. PICK log : Filters(sent, name, log, Len(sent))
    BY FilterExists
<1>3. log = [n \in 0..Len(sent) |->
                 IF n = 0 THEN <<>>
                 ELSE IF sent[n].stream = name THEN Append(log[n - 1], sent[n].id) ELSE log[n - 1]]
    <2>1. log \in [0..Len(sent) -> Seq(Ids)]
        BY <1>2 DEF Filters
    <2>2. ASSUME NEW n \in 0..Len(sent)
          PROVE  log[n] = IF n = 0 THEN <<>>
                          ELSE IF sent[n].stream = name THEN Append(log[n - 1], sent[n].id) ELSE log[n - 1]
        <3>1. Len(sent) \in Nat /\ log[0] = <<>>
            BY <1>2 DEF Filters
        <3>2. ASSUME n # 0 PROVE n \in 1..Len(sent) /\ log[n] = Grown(log[n - 1], sent[n], name)
            BY <1>2, <3>1, <3>2 DEF Filters
        <3> QED  BY <3>1, <3>2 DEF Grown
    <2> QED  BY <2>1, <2>2
<1>4. on = [n \in 0..Len(sent) |->
                IF n = 0 THEN <<>>
                ELSE IF sent[n].stream = name THEN Append(on[n - 1], sent[n].id) ELSE on[n - 1]]
    BY <1>3
<1> HIDE DEF on
<1>5. Len(sent) \in Nat
    OBVIOUS
<1>6. \A n \in 0..Len(sent) : on[n] = log[n]
    <2> DEFINE T == {n \in 0..Len(sent) : on[n] # log[n]}
    <2>1. T \in SUBSET Nat
        BY <1>5
    <2>2. SUFFICES ASSUME T # {} PROVE FALSE
        OBVIOUS
    <2>3. PICK m \in T : \A n \in T : m <= n
        <3> HIDE DEF T
        <3> QED  BY <2>1, <2>2, LeastOne
    <2>4. CASE m = 0
        BY <1>3, <1>4, <2>3, <2>4
    <2>5. CASE m # 0
        <3>1. m - 1 \in 0..Len(sent) /\ m - 1 \notin T
            BY <1>5, <2>3, <2>5
        <3>2. on[m - 1] = log[m - 1]
            BY <3>1
        <3>3. on[m] = Grown(on[m - 1], sent[m], name) /\ log[m] = Grown(log[m - 1], sent[m], name)
            BY <1>3, <1>4, <2>3, <2>5 DEF Grown
        <3> QED  BY <2>3, <3>2, <3>3
    <2> QED  BY <2>4, <2>5
<1>7. OnStream(sent, name) = log[Len(sent)] /\ Len(sent) \in 0..Len(sent)
    BY <1>1, <1>5, <1>6
<1> QED  BY <1>2, <1>7 DEF Filters

-----------------------------------------------------------------------------
(* Types *)

(* Every socket that is open has been counted and not yet discounted.      *)
Counted ==
    /\ connections \in [Protocols -> Nat]
    /\ \A p \in Protocols : Cardinality(Open(p)) <= connections[p]

RestTypes ==
    /\ connected \in [Imeis -> Sockets \cup {None}]
    /\ \A k \in Tasks : task[k].packet \in DOMAIN chunks[k].packets
    /\ commands \in Seq(Command)
    /\ tracking \in Seq(Ids)
    /\ alerts \in Seq(Ids)
    /\ dropped \subseteq Ids
    /\ refusals \subseteq Ids
    /\ restarted \in BOOLEAN

TypeInv ==
    /\ PlacesInv
    /\ KnownInv
    /\ Counted
    /\ RestTypes

LEMMA CountedKept == Counted /\ UNCHANGED <<conn, connections>> => Counted'
BY DEF Counted, Open

LEMMA CountedConnect ==
    ASSUME PlacesInv, Counted, NEW s \in Sockets, Connect(s) PROVE Counted'
<1> DEFINE p == Protocol[s]
<1>1. p \in Protocols
    BY TcpAssumption DEF TcpAssumption, Protocols
<1>2. /\ conn \in [Sockets -> States] /\ connections \in [Protocols -> Nat] /\ conn[s] = "new"
      /\ connections' = [connections EXCEPT ![p] = @ + 1]
      /\ conn' \in {[conn EXCEPT ![s] = "open"], [conn EXCEPT ![s] = "rejected"]}
      /\ \A q \in Protocols : Cardinality(Open(q)) <= connections[q]
    BY DEF Connect, PlacesInv, Counted
<1>3. \A q \in Protocols : IsFiniteSet(Open(q)) /\ Cardinality(Open(q)) \in Nat
    BY OpenFinite
<1>4. \A q \in Protocols : q # p => Open(q)' = Open(q)
    BY <1>2 DEF Open
<1>5. s \notin Open(p) /\ (Open(p)' = Open(p) \/ Open(p)' = Open(p) \cup {s})
    BY <1>2 DEF Open
<1> HIDE DEF p
<1>6. Cardinality(Open(p)') \in Nat /\ Cardinality(Open(p)') <= Cardinality(Open(p)) + 1
    BY <1>1, <1>3, <1>5, FS_AddElement
<1>7. ASSUME NEW q \in Protocols PROVE Cardinality(Open(q)') <= connections'[q]
    <2>1. CASE q = p
        BY <1>1, <1>2, <1>3, <1>6, <2>1
    <2>2. CASE q # p
        BY <1>1, <1>2, <1>4, <2>2
    <2> QED  BY <2>1, <2>2
<1>8. connections' \in [Protocols -> Nat]
    BY <1>1, <1>2
<1> QED  BY <1>7, <1>8 DEF Counted, Open

LEMMA CountedClose ==
    ASSUME PlacesInv, Counted, NEW s \in Sockets, Close(s) PROVE Counted'
<1> DEFINE p == Protocol[s]
<1>1. p \in Protocols
    BY TcpAssumption DEF TcpAssumption, Protocols
<1>2. /\ conn \in [Sockets -> States] /\ connections \in [Protocols -> Nat] /\ conn[s] = "open"
      /\ connections' = [connections EXCEPT ![p] = @ - 1]
      /\ conn' = [conn EXCEPT ![s] = "closed"]
      /\ \A q \in Protocols : Cardinality(Open(q)) <= connections[q]
    BY DEF Close, PlacesInv, Counted
<1>3. \A q \in Protocols : IsFiniteSet(Open(q)) /\ Cardinality(Open(q)) \in Nat
    BY OpenFinite
<1>4. \A q \in Protocols : q # p => Open(q)' = Open(q)
    BY <1>2 DEF Open
<1>5. s \in Open(p) /\ Open(p)' = Open(p) \ {s}
    BY <1>2 DEF Open
<1> HIDE DEF p
<1>6. Cardinality(Open(p)') = Cardinality(Open(p)) - 1 /\ Cardinality(Open(p)') \in Nat
    BY <1>1, <1>3, <1>5, FS_RemoveElement, FS_CardinalityType
<1>7. ASSUME NEW q \in Protocols PROVE Cardinality(Open(q)') <= connections'[q] /\ connections'[q] \in Nat
    <2>1. CASE q = p
        BY <1>1, <1>2, <1>3, <1>6, <2>1
    <2>2. CASE q # p
        BY <1>1, <1>2, <1>4, <2>2
    <2> QED  BY <2>1, <2>2
<1>8. connections' \in [Protocols -> Nat]
    BY <1>1, <1>2, <1>7
<1> QED  BY <1>7, <1>8 DEF Counted, Open

LEMMA CountedDies == ASSUME NEW n, Dies(n) PROVE Counted'
<1>1. connections' = [p \in Protocols |-> 0] /\ \A p : Open(p)' = {}
    BY DEF Dies, Open
<1> QED  BY <1>1, FS_EmptySet DEF Counted

LEMMA CountedNext == PlacesInv /\ Counted /\ [Next]_vars => Counted'
<1> SUFFICES ASSUME PlacesInv, Counted, [Next]_vars PROVE Counted'
    OBVIOUS
<1>1. CASE UNCHANGED vars
    BY <1>1, CountedKept DEF vars, socketVars
<1>2. ASSUME NEW s \in Sockets, Connect(s) \/ Close(s) \/ TextPacket(s) PROVE Counted'
    BY <1>2, CountedConnect, CountedClose, CountedDies DEF TextPacket
<1>3. CASE Crash
    BY <1>3, CountedDies DEF Crash
<1>4. ASSUME NEW s \in Sockets, NEW c \in Chunks, Data(s, c) PROVE Counted'
    BY <1>4, CountedKept DEF Data, socketVars
<1>5. ASSUME NEW k \in Tasks, Turn(k) PROVE Counted'
    BY <1>5, CountedKept DEF Turn, socketVars
<1>6. CASE RedisReply \/ RedisRefuses \/ Reconnect
    BY <1>6, CountedKept DEF RedisReply, RedisRefuses, Reconnect, socketVars
<1> QED  BY <1>1, <1>2, <1>3, <1>4, <1>5, <1>6 DEF Next

-----------------------------------------------------------------------------
(* How the activations and the stream move                                 *)

(* Redis executes the first n commands. *)
Executes(n) ==
    /\ tracking' = tracking \o OnStream(Executed(n), "tracking")
    /\ alerts' = alerts \o OnStream(Executed(n), "alerts")

LEMMA ExecutedLogs ==
    ASSUME RestTypes, NEW n \in 0..Len(commands), Executes(n)
    PROVE  /\ tracking' \in Seq(Ids) /\ alerts' \in Seq(Ids)
           /\ \A id : InLog(id, tracking') <=>
                  InLog(id, tracking) \/ \E j \in 1..n : commands[j].stream = "tracking" /\ commands[j].id = id
           /\ \A id : InLog(id, alerts') <=>
                  InLog(id, alerts) \/ \E j \in 1..n : commands[j].stream = "alerts" /\ commands[j].id = id
<1> DEFINE sent == Executed(n)
<1>1. commands \in Seq(Command) /\ n \in Nat /\ n <= Len(commands)
    BY DEF RestTypes
<1>2. sent \in Seq(Command) /\ Len(sent) = n /\ \A j \in 1..n : sent[j] = commands[j]
    BY <1>1 DEF Executed
<1> HIDE DEF sent
<1>3. tracking \in Seq(Ids) /\ alerts \in Seq(Ids)
    BY DEF RestTypes
<1>4. tracking' = tracking \o OnStream(sent, "tracking") /\ alerts' = alerts \o OnStream(sent, "alerts")
    BY DEF Executes, sent
<1>5. \A name : /\ OnStream(sent, name) \in Seq(Ids)
                /\ \A id : InLog(id, OnStream(sent, name)) <=>
                       \E j \in 1..n : commands[j].stream = name /\ commands[j].id = id
    <2> SUFFICES ASSUME NEW name
                 PROVE  /\ OnStream(sent, name) \in Seq(Ids)
                        /\ \A id : InLog(id, OnStream(sent, name)) <=>
                               \E j \in 1..n : commands[j].stream = name /\ commands[j].id = id
        OBVIOUS
    <2>1. /\ OnStream(sent, name) \in Seq(Ids)
          /\ \A id : InLog(id, OnStream(sent, name)) <=>
                 \E j \in 1..Len(sent) : sent[j].stream = name /\ sent[j].id = id
        BY <1>2, OnStreamIs
    <2> QED  BY <1>2, <2>1
<1>6. /\ tracking' \in Seq(Ids)
      /\ \A id : InLog(id, tracking') <=>
             InLog(id, tracking) \/ \E j \in 1..n : commands[j].stream = "tracking" /\ commands[j].id = id
    <2> DEFINE more == OnStream(sent, "tracking")
    <2>1. /\ more \in Seq(Ids) /\ tracking' = tracking \o more
          /\ \A id : InLog(id, more) <=>
                 \E j \in 1..n : commands[j].stream = "tracking" /\ commands[j].id = id
        BY <1>4, <1>5
    <2> HIDE DEF more
    <2>2. /\ tracking \o more \in Seq(Ids)
          /\ \A id : InLog(id, tracking \o more) <=> InLog(id, tracking) \/ InLog(id, more)
        BY <1>3, <2>1, LogJoined
    <2> QED  BY <2>1, <2>2
<1>7. /\ alerts' \in Seq(Ids)
      /\ \A id : InLog(id, alerts') <=>
             InLog(id, alerts) \/ \E j \in 1..n : commands[j].stream = "alerts" /\ commands[j].id = id
    <2> DEFINE more == OnStream(sent, "alerts")
    <2>1. /\ more \in Seq(Ids) /\ alerts' = alerts \o more
          /\ \A id : InLog(id, more) <=>
                 \E j \in 1..n : commands[j].stream = "alerts" /\ commands[j].id = id
        BY <1>4, <1>5
    <2> HIDE DEF more
    <2>2. /\ alerts \o more \in Seq(Ids)
          /\ \A id : InLog(id, alerts \o more) <=> InLog(id, alerts) \/ InLog(id, more)
        BY <1>3, <2>1, LogJoined
    <2> QED  BY <2>1, <2>2
<1> QED  BY <1>6, <1>7

(* A turn sends a command and waits, or passes to the next packet.         *)
Sends(k, name, next) ==
    /\ commands' = Append(commands, [stream |-> name, id |-> Id(k)])
    /\ UNCHANGED <<tracking, alerts, refusals, dropped>>
    /\ Step(k, next)
Passes(k) == UNCHANGED redisVars /\ Finish(k)

LEMMA TurnKinds ==
    ASSUME NEW k, Turn(k)
    PROVE  /\ Running(k) /\ ~Waiting(k) /\ UNCHANGED <<chunks, restarted>>
           /\ \/ task[k].at = "raw" /\ Sends(k, "raw", "body")
              \/ task[k].at = "raw" /\ UNCHANGED <<redisVars, dropped>> /\ Step(k, "body")
              \/ /\ task[k].at = "body" /\ Passes(k) /\ dropped' = dropped
                 /\ Current(k).type = "location" => ~Current(k).fix
                 /\ Current(k).type # "alarm"
              \/ task[k].at = "body" /\ Passes(k) /\ dropped' = dropped \cup {Id(k)}
              \/ /\ task[k].at = "body" /\ Current(k).type = "location"
                 /\ Sends(k, "tracking", "end")
              \/ task[k].at = "body" /\ Current(k).type = "alarm" /\ Sends(k, "alerts", "fix")
              \/ task[k].at = "fix" /\ ~Current(k).fix /\ Passes(k) /\ dropped' = dropped
              \/ task[k].at = "fix" /\ Sends(k, "tracking", "end")
              \/ task[k].at = "end" /\ Passes(k) /\ dropped' = dropped
<1>1. Running(k) /\ ~Waiting(k) /\ UNCHANGED restarted
    BY DEF Turn, Ready
<1>2. CASE RawMessage(k)
    BY <1>1, <1>2 DEF RawMessage, Send, Sends
<1>3. CASE Login(k) \/ Heartbeat(k)
    BY <1>1, <1>3 DEF Login, Heartbeat, Passes
<1>4. CASE DropBeforeLogin(k)
    BY <1>1, <1>4 DEF DropBeforeLogin, Passes
<1>5. CASE Location(k)
    BY <1>1, <1>5 DEF Location, Passes, Send, Sends
<1>6. CASE Alarm(k)
    BY <1>1, <1>6 DEF Alarm, Send, Sends
<1>7. CASE AlarmLocation(k)
    BY <1>1, <1>7 DEF AlarmLocation, Passes, Send, Sends
<1>8. CASE EndPacket(k)
    BY <1>1, <1>8 DEF EndPacket, Passes
<1> QED  BY <1>2, <1>3, <1>4, <1>5, <1>6, <1>7, <1>8 DEF Turn

LEMMA Positions ==
    ASSUME TypeInv, NEW k \in Tasks
    PROVE  /\ task[k] \in Position /\ k \in Nat
           /\ chunks[k].packets \in Seq(Packets)
           /\ task[k].packet \in 1..Len(chunks[k].packets)
           /\ Current(k) \in Packets /\ Id(k) \in Ids
<1>1. chunks[k] \in Chunk /\ task[k] \in Position
    BY ChunkOfTask DEF TypeInv, KnownInv
<1>2. k \in Nat
    BY DEF TypeInv, KnownInv, KnownTypes, Tasks
<1>3. chunks[k].packets \in Seq(Packets) /\ task[k].packet \in 1..Len(chunks[k].packets)
    BY <1>1 DEF TypeInv, RestTypes, Chunk
<1> QED  BY <1>1, <1>2, <1>3 DEF Current, Id, Ids

LEMMA TaskMoves ==
    ASSUME TypeInv, NEW k \in Tasks
    PROVE  /\ \A next : Step(k, next) =>
                 /\ Tasks' = Tasks /\ \A j \in Tasks : j # k => task'[j] = task[j]
                 /\ task'[k].packet = task[k].packet /\ task'[k].at = next
           /\ Finish(k) =>
                 /\ Tasks' = Tasks /\ \A j \in Tasks : j # k => task'[j] = task[j]
                 /\ \/ /\ task[k].packet < Len(chunks[k].packets)
                       /\ task'[k].packet = task[k].packet + 1 /\ task'[k].at = "raw"
                    \/ /\ task[k].packet = Len(chunks[k].packets)
                       /\ task'[k].packet = task[k].packet /\ task'[k].at = "done"
<1>1. task \in Seq(Position) /\ Tasks = DOMAIN task
    BY DEF TypeInv, KnownInv, KnownTypes, Tasks
<1>2. task[k] \in Position /\ task[k].packet \in 1..Len(chunks[k].packets)
      /\ Len(chunks[k].packets) \in Nat
    BY Positions
<1>3. ASSUME NEW next, Step(k, next)
      PROVE  /\ Tasks' = Tasks /\ \A j \in Tasks : j # k => task'[j] = task[j]
             /\ task'[k].packet = task[k].packet /\ task'[k].at = next
    BY <1>1, <1>2, <1>3 DEF Step, Tasks, Position
<1>4. ASSUME Finish(k)
      PROVE  /\ Tasks' = Tasks /\ \A j \in Tasks : j # k => task'[j] = task[j]
             /\ \/ /\ task[k].packet < Len(chunks[k].packets)
                   /\ task'[k].packet = task[k].packet + 1 /\ task'[k].at = "raw"
                \/ /\ task[k].packet = Len(chunks[k].packets)
                   /\ task'[k].packet = task[k].packet /\ task'[k].at = "done"
    BY <1>1, <1>2, <1>4 DEF Finish, Tasks, Position
<1> QED  BY <1>3, <1>4

(* A data event and the end of the process: the activations that are there *)
(* keep their packet, and a new one is at its first.                       *)
Given(k) == \/ task'[k] = task[k]
            \/ task'[k].packet = task[k].packet /\ task'[k].at = "gone" /\ task[k].at # "done"
Comes ==
    /\ Tasks \subseteq Tasks'
    /\ \A k \in Tasks : chunks'[k] = chunks[k]
    /\ \A k \in Tasks' \ Tasks : task'[k].packet = 1 /\ 1 \in DOMAIN chunks'[k].packets

LEMMA DataComes ==
    ASSUME TypeInv, NEW s \in Sockets, NEW c \in Chunks, Data(s, c)
    PROVE  /\ Comes
           /\ \A k \in Tasks : task'[k] = task[k]
           /\ \A k \in Tasks' \ Tasks : task'[k].at = "raw"
<1> DEFINE new == [socket |-> s, packets |-> c, answered |-> s \in answered]
           start == [packet |-> 1, at |-> "raw"]
<1>1. chunks' = Append(chunks, new) /\ task' = Append(task, start)
    BY DEF Data
<1>2. new.packets = c /\ start.packet = 1 /\ start.at = "raw" /\ 1 \in DOMAIN c
    BY TcpAssumption DEF TcpAssumption
<1>3. new \in Chunk /\ start \in Position
    BY TcpAssumption DEF Chunk, Position, TcpAssumption
<1> HIDE DEF new, start
<1>4. chunks \in Seq(Chunk) /\ task \in Seq(Position) /\ Len(task) = Len(chunks)
      /\ Tasks = 1..Len(task) /\ Len(task) \in Nat
    BY DEF TypeInv, KnownInv, KnownTypes, Tasks
<1>5. Tasks' = 1..(Len(task) + 1) /\ \A k \in Tasks : chunks'[k] = chunks[k] /\ task'[k] = task[k]
    BY <1>1, <1>3, <1>4 DEF Tasks
<1>6. \A k \in Tasks' \ Tasks : chunks'[k] = new /\ task'[k] = start
    BY <1>1, <1>3, <1>4, <1>5
<1> QED  BY <1>2, <1>4, <1>5, <1>6 DEF Comes

LEMMA DeathComes ==
    ASSUME TypeInv, Crash \/ \E s \in Sockets : TextPacket(s)
    PROVE  /\ Comes
           /\ \A k \in Tasks : Given(k)
           /\ \A k \in Tasks' : task'[k].at \in {"done", "gone"}
           /\ \A k \in Tasks' \ Tasks : task'[k].at = "gone"
           /\ \E n \in 0..Len(commands) : Dies(n)
           /\ UNCHANGED <<dropped, refusals>>
<1>1. chunks \in Seq(Chunk) /\ task \in Seq(Position) /\ Len(task) = Len(chunks)
      /\ Tasks = 1..Len(task) /\ Len(task) \in Nat
    BY DEF TypeInv, KnownInv, KnownTypes, Tasks
<1>2. GiveUp \in Seq(Position) /\ Len(GiveUp) = Len(task)
      /\ \A k \in Tasks : GiveUp[k].at \in {"done", "gone"}
    BY GaveUp DEF TypeInv, KnownInv
<1>3. \A k \in Tasks : \/ GiveUp[k] = task[k]
                       \/ GiveUp[k].packet = task[k].packet /\ GiveUp[k].at = "gone" /\ task[k].at # "done"
    BY <1>1 DEF GiveUp, Position
<1>4. CASE Crash
    <2>1. chunks' = chunks /\ task' = GiveUp /\ UNCHANGED <<dropped, refusals>>
          /\ \E n \in 0..Len(commands) : Dies(n)
        BY <1>4 DEF Crash
    <2>2. Tasks' = Tasks
        BY <1>1, <1>2, <2>1 DEF Tasks
    <2> QED  BY <1>2, <1>3, <2>1, <2>2 DEF Comes, Given
<1>5. ASSUME NEW s \in Sockets, TextPacket(s)
      PROVE  /\ Comes
             /\ \A k \in Tasks : Given(k)
             /\ \A k \in Tasks' : task'[k].at \in {"done", "gone"}
             /\ \A k \in Tasks' \ Tasks : task'[k].at = "gone"
             /\ \E n \in 0..Len(commands) : Dies(n)
             /\ UNCHANGED <<dropped, refusals>>
    <2> DEFINE new == [socket |-> s, answered |-> FALSE,
                       packets |-> <<[type |-> "location", fix |-> TRUE]>>]
               gone == [packet |-> 1, at |-> "gone"]
    <2>1. /\ chunks' = Append(chunks, new) /\ task' = Append(GiveUp, gone)
          /\ UNCHANGED <<dropped, refusals>> /\ \E n \in 0..Len(commands) : Dies(n)
        BY <1>5 DEF TextPacket
    <2>2. /\ new \in Chunk /\ gone \in Position
          /\ 1 \in DOMAIN new.packets /\ gone.packet = 1 /\ gone.at = "gone"
        BY DEF Chunk, Position, Packets, PacketTypes
    <2> HIDE DEF new, gone
    <2>3. /\ Tasks' = 1..(Len(task) + 1)
          /\ \A k \in Tasks : chunks'[k] = chunks[k] /\ task'[k] = GiveUp[k]
        BY <1>1, <1>2, <2>1, <2>2 DEF Tasks
    <2>4. \A k \in Tasks' \ Tasks : chunks'[k] = new /\ task'[k] = gone
        BY <1>1, <1>2, <2>1, <2>2, <2>3
    <2> QED  BY <1>1, <1>2, <1>3, <2>1, <2>2, <2>3, <2>4 DEF Comes, Given
<1> QED  BY <1>4, <1>5

-----------------------------------------------------------------------------
(* Type correctness                                                        *)

LEMMA TypeInit == Init => TypeInv
<1> SUFFICES ASSUME Init PROVE TypeInv
    OBVIOUS
<1>1. PlacesInv /\ KnownInv
    BY PlacesInit, KnownInit
<1>2. Counted
    <2>1. \A p : Open(p) = {}
        BY DEF Open, Init
    <2>2. connections = [p \in Protocols |-> 0]
        BY DEF Init
    <2>3. Cardinality({}) = 0
        BY FS_EmptySet
    <2>4. \A p \in Protocols : Cardinality(Open(p)) <= connections[p]
        BY <2>1, <2>2, <2>3
    <2> QED  BY <2>2, <2>4 DEF Counted
<1>3. RestTypes
    <2>1. connected = [m \in Imeis |-> None] /\ restarted = FALSE /\ dropped = {} /\ refusals = {}
        BY DEF Init
    <2>2. commands \in Seq(Command) /\ tracking \in Seq(Ids) /\ alerts \in Seq(Ids)
        BY DEF Init
    <2>3. Tasks = {}
        BY DEF Init, Tasks
    <2>4. \A k \in Tasks : task[k].packet \in DOMAIN chunks[k].packets
        BY <2>3
    <2> QED  BY <2>1, <2>2, <2>4 DEF RestTypes
<1> QED  BY <1>1, <1>2, <1>3 DEF TypeInv

LEMMA ConnectedType ==
    ASSUME TypeInv, [Next]_vars
    PROVE  connected' \in [Imeis -> Sockets \cup {None}] /\ restarted' \in BOOLEAN
<1>1. /\ connected \in [Imeis -> Sockets \cup {None}] /\ restarted \in BOOLEAN
      /\ sessionImei \in [Sockets -> Imeis \cup {None}]
    BY DEF TypeInv, RestTypes, KnownInv, KnownTypes
<1>2. CASE UNCHANGED vars
    BY <1>1, <1>2 DEF vars, sessionVars
<1>3. ASSUME NEW s \in Sockets, Connect(s) \/ Close(s)
      PROVE  connected' \in [Imeis -> Sockets \cup {None}] /\ restarted' = restarted
    BY <1>1, <1>3 DEF Connect, Close, sessionVars
<1>4. ASSUME NEW n, Dies(n)
      PROVE  connected' \in [Imeis -> Sockets \cup {None}] /\ restarted' = TRUE
    BY <1>4 DEF Dies
<1>5. ASSUME NEW s \in Sockets, NEW c \in Chunks, Data(s, c)
      PROVE  connected' = connected /\ restarted' = restarted
    BY <1>5 DEF Data, sessionVars
<1>6. ASSUME NEW k \in Tasks, Turn(k)
      PROVE  connected' \in [Imeis -> Sockets \cup {None}] /\ restarted' = restarted
    <2>1. SocketOf(k) \in Sockets
        BY ChunkOfTask DEF TypeInv, KnownInv
    <2>2. CASE Login(k)
        BY <1>1, <2>1, <2>2, <1>6, TcpAssumption DEF Login, Turn, TcpAssumption
    <2>3. CASE Location(k)
        BY <1>1, <2>1, <2>3, <1>6 DEF Location, Turn
    <2>4. CASE ~Login(k) /\ ~Location(k)
        BY <1>1, <2>4, <1>6 DEF Turn, RawMessage, Heartbeat, DropBeforeLogin, Alarm, AlarmLocation,
           EndPacket, sessionVars
    <2> QED  BY <2>2, <2>3, <2>4
<1>7. CASE RedisReply \/ RedisRefuses \/ Reconnect
    BY <1>1, <1>7 DEF RedisReply, RedisRefuses, Reconnect, sessionVars
<1> QED  BY <1>1, <1>2, <1>3, <1>4, <1>5, <1>6, <1>7 DEF Next, Crash, TextPacket

LEMMA PositionsComes ==
    ASSUME TypeInv, Comes, \A k \in Tasks : Given(k)
    PROVE  \A k \in Tasks' : task'[k].packet \in DOMAIN chunks'[k].packets
BY DEF TypeInv, RestTypes, Comes, Given

LEMMA TurnTypes ==
    ASSUME TypeInv, NEW k \in Tasks, Turn(k)
    PROVE  /\ \A j \in Tasks' : task'[j].packet \in DOMAIN chunks'[j].packets
           /\ commands' \in Seq(Command) /\ UNCHANGED <<tracking, alerts, refusals>>
           /\ dropped' \subseteq Ids
<1>1. UNCHANGED chunks
    BY TurnKinds
<1>2. /\ Id(k) \in Ids /\ chunks[k].packets \in Seq(Packets)
      /\ task[k].packet \in 1..Len(chunks[k].packets)
    BY Positions
<1>3. /\ Tasks' = Tasks /\ \A j \in Tasks : j # k => task'[j] = task[j]
      /\ task'[k].packet \in 1..Len(chunks[k].packets)
    <2>1. (\E next : Step(k, next)) \/ Finish(k)
        BY TurnKinds DEF Sends, Passes
    <2> QED  BY <1>2, <2>1, TaskMoves
<1>4. \A j \in Tasks : task[j].packet \in DOMAIN chunks[j].packets
    BY DEF TypeInv, RestTypes
<1>5. \A j \in Tasks' : task'[j].packet \in DOMAIN chunks'[j].packets
    BY <1>1, <1>2, <1>3, <1>4
<1>6. dropped' \subseteq Ids
    BY <1>2, TurnKinds DEF TypeInv, RestTypes, Sends
<1>7. commands \in Seq(Command)
    BY DEF TypeInv, RestTypes
<1>8. CASE \E name \in Streams : \E next : Sends(k, name, next)
    <2>1. PICK name \in Streams : commands' = Append(commands, [stream |-> name, id |-> Id(k)])
        BY <1>8 DEF Sends
    <2>2. [stream |-> name, id |-> Id(k)] \in Command
        BY <1>2 DEF Command
    <2>3. commands' \in Seq(Command)
        BY <1>7, <2>1, <2>2
    <2>4. UNCHANGED <<tracking, alerts, refusals>>
        BY <1>8 DEF Sends
    <2> QED  BY <1>5, <1>6, <2>3, <2>4
<1>9. CASE UNCHANGED redisVars
    BY <1>5, <1>6, <1>7, <1>9 DEF redisVars
<1>10. (\E name \in Streams : \E next : Sends(k, name, next)) \/ UNCHANGED redisVars
    BY TurnKinds DEF Streams, Passes, redisVars
<1> QED  BY <1>8, <1>9, <1>10

LEMMA RestNext ==
    ASSUME TypeInv, [Next]_vars PROVE RestTypes'
<1>1. RestTypes
    BY DEF TypeInv
<1>2. connected' \in [Imeis -> Sockets \cup {None}] /\ restarted' \in BOOLEAN
    BY ConnectedType
<1>3. CASE UNCHANGED vars
    BY <1>1, <1>3 DEF vars, sessionVars, taskVars, redisVars, RestTypes, Tasks
<1>4. ASSUME NEW s \in Sockets, Connect(s) \/ Close(s) PROVE RestTypes'
    BY <1>1, <1>2, <1>4 DEF Connect, Close, taskVars, redisVars, RestTypes, Tasks
<1>5. CASE Crash \/ \E s \in Sockets : TextPacket(s)
    <2>1. /\ \A k \in Tasks' : task'[k].packet \in DOMAIN chunks'[k].packets
          /\ UNCHANGED <<dropped, refusals>>
        BY <1>5, DeathComes, PositionsComes
    <2>2. PICK n \in 0..Len(commands) : Dies(n)
        BY <1>5, DeathComes
    <2>3. Executes(n) /\ commands' = <<>>
        BY <2>2 DEF Dies, Executes
    <2>4. tracking' \in Seq(Ids) /\ alerts' \in Seq(Ids)
        BY <1>1, <2>3, ExecutedLogs
    <2> QED  BY <1>1, <1>2, <2>1, <2>3, <2>4 DEF RestTypes
<1>6. ASSUME NEW s \in Sockets, NEW c \in Chunks, Data(s, c) PROVE RestTypes'
    <2>1. \A k \in Tasks' : task'[k].packet \in DOMAIN chunks'[k].packets
        BY <1>6, DataComes, PositionsComes DEF Given
    <2> QED  BY <1>1, <1>2, <1>6, <2>1 DEF Data, redisVars, RestTypes
<1>7. ASSUME NEW k \in Tasks, Turn(k) PROVE RestTypes'
    BY <1>1, <1>2, <1>7, TurnTypes DEF RestTypes
<1>8. CASE RedisReply
    <2>1. commands \in Seq(Command) /\ commands # <<>>
        BY <1>1, <1>8 DEF RestTypes, RedisReply
    <2>2. 1 \in 0..Len(commands) /\ Executes(1)
        BY <1>8, <2>1 DEF RedisReply, Executes
    <2>3. tracking' \in Seq(Ids) /\ alerts' \in Seq(Ids)
        BY <1>1, <2>2, ExecutedLogs
    <2>4. commands' \in Seq(Command)
        BY <1>8, <2>1 DEF RedisReply
    <2>5. UNCHANGED <<refusals, taskVars>>
        BY <1>8 DEF RedisReply
    <2> QED  BY <1>1, <1>2, <2>3, <2>4, <2>5 DEF RestTypes, taskVars, Tasks
<1>9. CASE RedisRefuses
    <2>1. commands \in Seq(Command) /\ commands # <<>>
        BY <1>1, <1>9 DEF RestTypes, RedisRefuses
    <2>2. commands' \in Seq(Command) /\ Head(commands).id \in Ids
        <3>1. commands' = Tail(commands)
            BY <1>9 DEF RedisRefuses
        <3>2. Tail(commands) \in Seq(Command) /\ Head(commands) \in Command
            BY <2>1
        <3> QED  BY <3>1, <3>2 DEF Command
    <2>3. UNCHANGED <<tracking, alerts, taskVars>> /\ refusals' = refusals \cup {Head(commands).id}
        BY <1>9 DEF RedisRefuses
    <2> QED  BY <1>1, <1>2, <2>2, <2>3 DEF RestTypes, taskVars, Tasks
<1>10. CASE Reconnect
    <2>1. PICK n \in 1..Len(commands) : Executes(n)
        BY <1>10 DEF Reconnect, Executes
    <2>2. n \in 0..Len(commands)
        BY <1>1 DEF RestTypes
    <2>3. tracking' \in Seq(Ids) /\ alerts' \in Seq(Ids)
        BY <1>1, <2>1, <2>2, ExecutedLogs
    <2>4. UNCHANGED <<commands, refusals, taskVars>>
        BY <1>10 DEF Reconnect
    <2> QED  BY <1>1, <1>2, <2>3, <2>4 DEF RestTypes, taskVars, Tasks
<1> QED  BY <1>3, <1>4, <1>5, <1>6, <1>7, <1>8, <1>9, <1>10 DEF Next

LEMMA TypeNext == TypeInv /\ [Next]_vars => TypeInv'
BY PlacesNext, KnownNext, CountedNext, RestNext DEF TypeInv

(* Every variable has its type in every reachable state: no count of       *)
(* connections becomes negative, and no activation runs past the packets   *)
(* of its chunk.                                                           *)
THEOREM TcpTypeCorrect == Spec => []TypeOK
<1>1. TypeInv => TypeOK
    <2> SUFFICES ASSUME TypeInv PROVE TypeOK
        OBVIOUS
    <2>1. DOMAIN task = DOMAIN chunks
        BY DEF TypeInv, KnownInv, KnownTypes
    <2> QED  BY <2>1 DEF TypeInv, TypeOK, PlacesInv, KnownInv, KnownTypes, Counted, RestTypes, States,
                         Chunk, Position, Command, Tasks
<1> QED  BY TypeInit, TypeNext, <1>1, PTL DEF Spec

-----------------------------------------------------------------------------
(* What is in the streams was sent while its packet was handled            *)

Begun(id) ==
    /\ id[1] \in Tasks
    /\ \/ id[2] < task[id[1]].packet
       \/ id[2] = task[id[1]].packet /\ task[id[1]].at \in {"fix", "end", "done", "gone"}
Left(id) ==
    /\ id[1] \in Tasks
    /\ \/ id[2] < task[id[1]].packet
       \/ id[2] = task[id[1]].packet /\ task[id[1]].at \in {"done", "gone"}

Sent(id, name) == \E n \in DOMAIN commands : commands[n].stream = name /\ commands[n].id = id
AskedFor(id) ==
    \/ InLog(id, tracking) \/ InLog(id, alerts)
    \/ Sent(id, "tracking") \/ Sent(id, "alerts")

PublishInv ==
    /\ \A id \in Ids : AskedFor(id) => Begun(id) /\ id \notin dropped
    /\ \A id \in dropped : Left(id)

LEMMA PublishInit == Init => PublishInv
BY DEF Init, PublishInv, AskedFor, Sent, InLog

(* An activation does not go back. *)
LEMMA Forward ==
    ASSUME TypeInv, [Next]_vars, NEW id \in Ids
    PROVE  (Begun(id) => Begun(id)') /\ (Left(id) => Left(id)')
<1> DEFINE Goal == (Begun(id) => Begun(id)') /\ (Left(id) => Left(id)')
<1>1. ASSUME UNCHANGED <<chunks, task>> PROVE Goal
    BY <1>1 DEF Begun, Left, Tasks
<1>2. id[2] \in Nat
    BY DEF Ids
<1>3. ASSUME Comes, \A k \in Tasks : Given(k) PROVE Goal
    BY <1>3 DEF Begun, Left, Comes, Given
<1>4. ASSUME NEW k \in Tasks, Turn(k) PROVE Goal
    <2>1. task[k].packet \in Nat /\ Running(k)
        BY <1>4, TurnKinds, Positions DEF Position
    <2>2. PICK next : (Step(k, next) /\ (task[k].at \in {"fix", "end"} => next = "end")) \/ Finish(k)
        BY <1>4, TurnKinds DEF Sends, Passes
    <2>3. Tasks' = Tasks /\ \A j \in Tasks : j # k => task'[j] = task[j]
        BY <2>2, TaskMoves
    <2>4. CASE id[1] = k
        <3>1. \/ task'[k].packet = task[k].packet
                 /\ (task[k].at \in {"fix", "end"} => task'[k].at = "end")
              \/ task'[k].packet = task[k].packet + 1
              \/ task'[k].packet = task[k].packet /\ task'[k].at = "done"
            BY <2>2, TaskMoves
        <3> QED  BY <1>2, <2>1, <2>3, <2>4, <3>1 DEF Begun, Left, Running
    <2>5. CASE id[1] # k
        BY <2>3, <2>5 DEF Begun, Left
    <2> QED  BY <2>4, <2>5
<1>5. ASSUME NEW s \in Sockets, NEW c \in Chunks, Data(s, c) PROVE Goal
    BY <1>3, <1>5, DataComes DEF Given
<1>6. CASE Crash \/ \E s \in Sockets : TextPacket(s)
    BY <1>3, <1>6, DeathComes
<1>7. CASE UNCHANGED vars \/ RedisReply \/ RedisRefuses \/ Reconnect
    BY <1>1, <1>7 DEF vars, taskVars, RedisReply, RedisRefuses, Reconnect
<1>8. ASSUME NEW s \in Sockets, Connect(s) \/ Close(s) PROVE Goal
    BY <1>1, <1>8 DEF Connect, Close, taskVars
<1> QED  BY <1>4, <1>5, <1>6, <1>7, <1>8 DEF Next

(* What Redis does with what it was sent. *)
LEMMA RedisMoves ==
    ASSUME TypeInv, RedisReply \/ RedisRefuses \/ Reconnect
    PROVE  /\ UNCHANGED taskVars /\ refusals \subseteq refusals'
           /\ \A id : AskedFor(id)' => AskedFor(id)
           /\ \A id : /\ InLog(id, tracking) => InLog(id, tracking)'
                      /\ InLog(id, alerts) => InLog(id, alerts)'
           /\ \A id : /\ Sent(id, "tracking") =>
                             Sent(id, "tracking")' \/ id \in refusals' \/ InLog(id, tracking)'
                      /\ Sent(id, "alerts") =>
                             Sent(id, "alerts")' \/ id \in refusals' \/ InLog(id, alerts)'
<1>1. commands \in Seq(Command) /\ RestTypes /\ Len(commands) \in Nat
      /\ DOMAIN commands = 1..Len(commands)
    BY DEF TypeInv, RestTypes
<1>2. ASSUME commands # <<>>, commands' = Tail(commands)
      PROVE  /\ Head(commands) = commands[1] /\ 1 \in DOMAIN commands
             /\ \A id, name : Sent(id, name)' => Sent(id, name)
             /\ \A id, name : Sent(id, name) =>
                    \/ Sent(id, name)'
                    \/ commands[1].stream = name /\ commands[1].id = id
    <2>1. /\ DOMAIN commands' = 1..(Len(commands) - 1) /\ 1 \in 1..Len(commands)
          /\ \A n \in 1..(Len(commands) - 1) : commands'[n] = commands[n + 1]
        BY <1>1, <1>2
    <2>2. ASSUME NEW id, NEW name, Sent(id, name)' PROVE Sent(id, name)
        <3>1. PICK n \in 1..(Len(commands) - 1) : commands'[n].stream = name /\ commands'[n].id = id
            BY <2>1, <2>2 DEF Sent
        <3>2. n + 1 \in DOMAIN commands /\ commands[n + 1].stream = name /\ commands[n + 1].id = id
            BY <1>1, <2>1, <3>1
        <3> QED  BY <3>2 DEF Sent
    <2>3. ASSUME NEW id, NEW name, Sent(id, name),
                 ~(commands[1].stream = name /\ commands[1].id = id)
          PROVE  Sent(id, name)'
        <3>1. PICK n \in 1..Len(commands) : commands[n].stream = name /\ commands[n].id = id
            BY <1>1, <2>3 DEF Sent
        <3>2. n - 1 \in DOMAIN commands' /\ commands'[n - 1] = commands[n]
            BY <1>1, <2>1, <2>3, <3>1
        <3> QED  BY <3>1, <3>2 DEF Sent
    <2> QED  BY <1>1, <1>2, <2>1, <2>2, <2>3
<1>3. CASE RedisReply
    <2>1. commands # <<>> /\ commands' = Tail(commands) /\ Executes(1) /\ UNCHANGED <<refusals, taskVars>>
        BY <1>3 DEF RedisReply, Executes
    <2>2. 1 \in 0..Len(commands) /\ 1 \in DOMAIN commands
        BY <1>1, <1>2, <2>1
    <2>3. /\ \A id : InLog(id, tracking') <=>
                 InLog(id, tracking) \/ (commands[1].stream = "tracking" /\ commands[1].id = id)
          /\ \A id : InLog(id, alerts') <=>
                 InLog(id, alerts) \/ (commands[1].stream = "alerts" /\ commands[1].id = id)
        <3>1. \A j : j \in 1..1 <=> j = 1
            OBVIOUS
        <3>2. /\ \A id : InLog(id, tracking') <=>
                     InLog(id, tracking) \/ \E j \in 1..1 : commands[j].stream = "tracking" /\ commands[j].id = id
              /\ \A id : InLog(id, alerts') <=>
                     InLog(id, alerts) \/ \E j \in 1..1 : commands[j].stream = "alerts" /\ commands[j].id = id
            <4>1. ASSUME NEW n \in 0..Len(commands), n = 1
                  PROVE  /\ \A id : InLog(id, tracking') <=>
                                InLog(id, tracking) \/ \E j \in 1..n : commands[j].stream = "tracking" /\ commands[j].id = id
                         /\ \A id : InLog(id, alerts') <=>
                                InLog(id, alerts) \/ \E j \in 1..n : commands[j].stream = "alerts" /\ commands[j].id = id
                <5>1. Executes(n)
                    BY <2>1, <4>1
                <5> QED  BY <1>1, <5>1, ExecutedLogs
            <4> QED  BY <2>2, <4>1
        <3> QED  BY <3>1, <3>2
    <2>4. \A id, name : commands[1].stream = name /\ commands[1].id = id => Sent(id, name)
        BY <2>2 DEF Sent
    <2>5. /\ \A id, name : Sent(id, name)' => Sent(id, name)
          /\ \A id, name : Sent(id, name) =>
                 \/ Sent(id, name)'
                 \/ commands[1].stream = name /\ commands[1].id = id
        BY <1>2, <2>1
    <2>6. \A id : AskedFor(id)' => AskedFor(id)
        BY <2>3, <2>4, <2>5 DEF AskedFor
    <2>7. \A id : /\ InLog(id, tracking) => InLog(id, tracking)'
                  /\ InLog(id, alerts) => InLog(id, alerts)'
        BY <2>3
    <2>8. \A id : Sent(id, "tracking") => Sent(id, "tracking")' \/ InLog(id, tracking)'
        BY <2>3, <2>5
    <2>9. \A id : Sent(id, "alerts") => Sent(id, "alerts")' \/ InLog(id, alerts)'
        BY <2>3, <2>5
    <2> QED  BY <2>1, <2>6, <2>7, <2>8, <2>9
<1>4. CASE RedisRefuses
    <2>1. /\ commands # <<>> /\ commands' = Tail(commands) /\ UNCHANGED <<tracking, alerts, taskVars>>
          /\ refusals' = refusals \cup {Head(commands).id}
        BY <1>4 DEF RedisRefuses
    <2>2. /\ \A id, name : Sent(id, name)' => Sent(id, name)
          /\ \A id, name : Sent(id, name) => Sent(id, name)' \/ id \in refusals'
        BY <1>2, <2>1
    <2>3. \A id : AskedFor(id)' => AskedFor(id)
        BY <2>1, <2>2 DEF AskedFor
    <2> QED  BY <2>1, <2>2, <2>3
<1>5. CASE Reconnect
    <2>1. PICK n \in 1..Len(commands) : Executes(n)
        BY <1>5 DEF Reconnect, Executes
    <2>2. UNCHANGED <<commands, refusals, taskVars>>
        BY <1>5 DEF Reconnect
    <2>3. n \in 0..Len(commands) /\ \A j \in 1..n : j \in DOMAIN commands
        BY <1>1
    <2>4. /\ \A id : InLog(id, tracking') <=>
                 InLog(id, tracking) \/ \E j \in 1..n : commands[j].stream = "tracking" /\ commands[j].id = id
          /\ \A id : InLog(id, alerts') <=>
                 InLog(id, alerts) \/ \E j \in 1..n : commands[j].stream = "alerts" /\ commands[j].id = id
        BY <1>1, <2>1, <2>3, ExecutedLogs
    <2>5. \A id, name : Sent(id, name)' <=> Sent(id, name)
        BY <2>2 DEF Sent
    <2>6. \A id : AskedFor(id)' => AskedFor(id)
        BY SMTT(30), <2>3, <2>4, <2>5 DEF AskedFor, Sent
    <2> QED  BY <2>2, <2>4, <2>5, <2>6
<1> QED  BY <1>3, <1>4, <1>5

(* The end of the process: Redis has executed some of what it was sent.    *)
LEMMA DeathMoves ==
    ASSUME TypeInv, NEW n \in 0..Len(commands), Dies(n)
    PROVE  /\ \A id : AskedFor(id)' => AskedFor(id)
           /\ \A id : /\ InLog(id, tracking) => InLog(id, tracking)'
                      /\ InLog(id, alerts) => InLog(id, alerts)'
<1>1. RestTypes /\ Executes(n) /\ commands' = <<>>
    BY DEF TypeInv, Dies, Executes
<1>2. \A j \in 1..n : j \in DOMAIN commands
    BY <1>1 DEF RestTypes
<1>3. /\ \A id : InLog(id, tracking') <=>
             InLog(id, tracking) \/ \E j \in 1..n : commands[j].stream = "tracking" /\ commands[j].id = id
      /\ \A id : InLog(id, alerts') <=>
             InLog(id, alerts) \/ \E j \in 1..n : commands[j].stream = "alerts" /\ commands[j].id = id
    BY <1>1, ExecutedLogs
<1>4. \A id, name : ~Sent(id, name)'
    BY <1>1 DEF Sent
<1> QED  BY <1>2, <1>3, <1>4 DEF AskedFor, Sent

(* What a turn sends. *)
LEMMA SendMoves ==
    ASSUME TypeInv, NEW k \in Tasks, NEW name, NEW next, Sends(k, name, next)
    PROVE  /\ \A id, n : Sent(id, n)' <=> Sent(id, n) \/ (id = Id(k) /\ n = name)
           /\ UNCHANGED <<tracking, alerts, refusals, dropped>>
<1> DEFINE new == [stream |-> name, id |-> Id(k)]
<1>1. commands \in Seq(Command) /\ commands' = Append(commands, new)
      /\ UNCHANGED <<tracking, alerts, refusals, dropped>>
    BY DEF TypeInv, RestTypes, Sends
<1>2. new.stream = name /\ new.id = Id(k)
    OBVIOUS
<1> HIDE DEF new
<1>3. /\ DOMAIN commands = 1..Len(commands) /\ Len(commands) \in Nat
      /\ DOMAIN commands' = 1..(Len(commands) + 1)
      /\ commands'[Len(commands) + 1] = new
      /\ \A n \in 1..Len(commands) : commands'[n] = commands[n]
    BY <1>1
<1>4. ASSUME NEW id, NEW n PROVE Sent(id, n)' <=> Sent(id, n) \/ (id = Id(k) /\ n = name)
    BY <1>2, <1>3 DEF Sent
<1> QED  BY <1>1, <1>4

LEMMA PublishTurn ==
    ASSUME TypeInv, PublishInv, NEW k \in Tasks, Turn(k), [Next]_vars PROVE PublishInv'
<1>1. task[k] \in Position /\ Id(k) \in Ids /\ Id(k)[1] = k /\ Id(k)[2] = task[k].packet
    BY Positions DEF Id
<1>2. Running(k)
    BY TurnKinds
<1>3. ~Left(Id(k)) /\ Id(k) \notin dropped
    BY <1>1, <1>2 DEF Left, Running, Position, PublishInv
<1>4. dropped \subseteq Ids
    BY DEF TypeInv, RestTypes
<1>5. CASE \E name, next : /\ Sends(k, name, next)
                           /\ name = "raw" \/ next \in {"fix", "end"}
    <2>1. PICK name, next : Sends(k, name, next) /\ (name = "raw" \/ next \in {"fix", "end"})
        BY <1>5
    <2>2. \A id, n : Sent(id, n)' <=> Sent(id, n) \/ (id = Id(k) /\ n = name)
        BY <2>1, SendMoves
    <2>3. UNCHANGED <<tracking, alerts, dropped>>
        BY <2>1, SendMoves
    <2>4. Tasks' = Tasks /\ task'[k].packet = task[k].packet /\ task'[k].at = next
        BY <2>1, TaskMoves DEF Sends
    <2>5. name # "raw" => Begun(Id(k))'
        <3>1. ASSUME name # "raw" PROVE Begun(<<k, task[k].packet>>)'
            BY <2>1, <2>4, <3>1 DEF Begun
        <3> QED  BY <3>1, <2>4 DEF Id, Begun
    <2>6. ASSUME NEW id \in Ids, AskedFor(id)' PROVE Begun(id)' /\ id \notin dropped'
        <3>1. AskedFor(id) \/ (id = Id(k) /\ name # "raw")
            BY <2>2, <2>3, <2>6 DEF AskedFor
        <3>2. CASE AskedFor(id)
            BY <2>3, <3>2, Forward DEF PublishInv
        <3>3. CASE id = Id(k) /\ name # "raw"
            <4>1. Begun(id)'
                BY <2>1, <2>4, <3>3, <1>1 DEF Begun
            <4> QED  BY <1>3, <2>3, <3>3, <4>1
        <3> QED  BY <3>1, <3>2, <3>3
    <2>7. \A id \in dropped' : Left(id)'
        BY <1>4, <2>3, Forward DEF PublishInv
    <2> QED  BY <2>6, <2>7 DEF PublishInv
<1>6. CASE UNCHANGED <<redisVars, dropped>>
    <2>1. \A id : AskedFor(id)' <=> AskedFor(id)
        BY <1>6 DEF AskedFor, Sent, redisVars
    <2> QED  BY <1>4, <1>6, <2>1, Forward DEF PublishInv
<1>7. CASE task[k].at = "body" /\ Passes(k) /\ dropped' = dropped \cup {Id(k)}
    <2>1. \A id : AskedFor(id)' <=> AskedFor(id)
        BY <1>7 DEF Passes, AskedFor, Sent, redisVars
    <2>2. ~Begun(Id(k))
        BY <1>1, <1>7 DEF Begun, Position
    <2>3. \A id \in Ids : AskedFor(id)' => Begun(id)' /\ id \notin dropped'
        BY <1>7, <2>1, <2>2, Forward DEF PublishInv
    <2>4. ASSUME NEW id \in dropped' PROVE Left(id)'
        <3>1. CASE id \in dropped
            BY <1>4, <3>1, Forward DEF PublishInv
        <3>2. CASE id = Id(k)
            <4>1. Tasks' = Tasks /\ \/ task'[k].packet = task[k].packet + 1
                                    \/ task'[k].packet = task[k].packet /\ task'[k].at = "done"
                BY <1>7, TaskMoves DEF Passes
            <4> QED  BY <1>1, <3>2, <4>1 DEF Left, Position
        <3> QED  BY <1>7, <3>1, <3>2
    <2> QED  BY <2>3, <2>4 DEF PublishInv
<1> QED  BY <1>5, <1>6, <1>7, TurnKinds DEF Passes

LEMMA PublishNext == TypeInv /\ PublishInv /\ [Next]_vars => PublishInv'
<1> SUFFICES ASSUME TypeInv, PublishInv, [Next]_vars PROVE PublishInv'
    OBVIOUS
<1>1. dropped \subseteq Ids
    BY DEF TypeInv, RestTypes
<1>2. ASSUME dropped' = dropped, \A id : AskedFor(id)' => AskedFor(id) PROVE PublishInv'
    BY <1>1, <1>2, Forward DEF PublishInv
<1>3. ASSUME UNCHANGED <<redisVars, dropped>> PROVE PublishInv'
    <2>1. \A id : AskedFor(id)' => AskedFor(id)
        BY <1>3 DEF AskedFor, Sent, redisVars
    <2> QED  BY <1>2, <1>3, <2>1
<1>4. CASE UNCHANGED vars
    BY <1>3, <1>4 DEF vars, taskVars
<1>5. ASSUME NEW s \in Sockets, Connect(s) \/ Close(s) PROVE PublishInv'
    BY <1>3, <1>5 DEF Connect, Close, taskVars
<1>6. CASE Crash \/ \E s \in Sockets : TextPacket(s)
    <2>1. PICK n \in 0..Len(commands) : Dies(n)
        BY <1>6, DeathComes
    <2>2. dropped' = dropped
        BY <1>6, DeathComes
    <2> QED  BY <1>2, <2>1, <2>2, DeathMoves
<1>7. ASSUME NEW s \in Sockets, NEW c \in Chunks, Data(s, c) PROVE PublishInv'
    BY <1>3, <1>7 DEF Data
<1>8. ASSUME NEW k \in Tasks, Turn(k) PROVE PublishInv'
    BY <1>8, PublishTurn
<1>9. CASE RedisReply \/ RedisRefuses \/ Reconnect
    BY <1>2, <1>9, RedisMoves DEF taskVars
<1> QED  BY <1>4, <1>5, <1>6, <1>7, <1>8, <1>9 DEF Next

(* An entry of a stream comes from an activation that has reached its      *)
(* packet, and never from a packet that was discarded.                     *)
THEOREM PublishedHandled == Spec => []PublishedIsHandled
<1>1. TypeInv /\ PublishInv => PublishedIsHandled
    <2> SUFFICES ASSUME TypeInv, PublishInv,
                        NEW log \in {tracking, alerts}, NEW n \in DOMAIN log
                 PROVE  /\ log[n][1] \in Tasks
                        /\ log[n][2] <= task[log[n][1]].packet
                        /\ log[n] \notin dropped
        BY DEF PublishedIsHandled
    <2>1. log \in Seq(Ids)
        BY DEF TypeInv, RestTypes
    <2>2. log[n] \in Ids
        BY <2>1
    <2>3. AskedFor(log[n])
        BY DEF AskedFor, InLog
    <2>4. Begun(log[n]) /\ log[n] \notin dropped
        BY <2>2, <2>3 DEF PublishInv
    <2>5. log[n][1] \in Tasks /\ log[n][2] \in Nat
        BY <2>2, <2>4 DEF Begun, Ids
    <2>6. task[log[n][1]].packet \in Nat
        BY <2>5, Positions DEF Position
    <2> QED  BY <2>4, <2>5, <2>6 DEF Begun
<1> QED  BY TypeInit, TypeNext, PublishInit, PublishNext, <1>1, PTL DEF Spec

-----------------------------------------------------------------------------
(* A packet that was handled to the end is in its streams                  *)

(* An activation waits for each of its commands, so that a packet it has   *)
(* passed was executed or refused; of the one it is at, they may be under  *)
(* way.                                                                    *)
Out(id, name, log) == InLog(id, log) \/ id \in refusals \/ Sent(id, name)
UnderWay(k) ==
    /\ task[k].at = "fix" =>
          /\ Current(k).type = "alarm"
          /\ Out(Id(k), "alerts", alerts)
    /\ task[k].at = "end" =>
          /\ Out(Id(k), "tracking", tracking)
          /\ Current(k).type = "alarm" => Out(Id(k), "alerts", alerts)

Lost(id) == id \in dropped \cup refusals
Delivered(k, i) ==
    \/ Lost(<<k, i>>)
    \/ /\ chunks[k].packets[i].type \in {"location", "alarm"} /\ chunks[k].packets[i].fix =>
             InLog(<<k, i>>, tracking)
       /\ chunks[k].packets[i].type = "alarm" => InLog(<<k, i>>, alerts)

HandledInv ==
    \A k \in Tasks :
        /\ UnderWay(k)
        /\ \A i \in DOMAIN chunks[k].packets : Passed(k, i) => Delivered(k, i)

LEMMA HandledInit == Init => HandledInv
BY DEF Init, HandledInv, Tasks

(* Nothing is taken from the streams. *)
LEMMA DeliveredStays ==
    ASSUME NEW k, NEW i, chunks'[k] = chunks[k], dropped \subseteq dropped',
           refusals \subseteq refusals',
           \A id : (InLog(id, tracking) => InLog(id, tracking)')
                   /\ (InLog(id, alerts) => InLog(id, alerts)')
    PROVE  Delivered(k, i) => Delivered(k, i)'
BY DEF Delivered, Lost

(* What leaves the activations alone, and keeps what is under way.         *)
LEMMA HandledKept ==
    ASSUME HandledInv, UNCHANGED taskVars, refusals \subseteq refusals',
           \A id : (InLog(id, tracking) => InLog(id, tracking)')
                   /\ (InLog(id, alerts) => InLog(id, alerts)'),
           \A id : /\ Sent(id, "tracking") =>
                          Sent(id, "tracking")' \/ id \in refusals' \/ InLog(id, tracking)'
                   /\ Sent(id, "alerts") =>
                          Sent(id, "alerts")' \/ id \in refusals' \/ InLog(id, alerts)'
    PROVE  HandledInv'
<1>1. UNCHANGED <<chunks, task, dropped>> /\ Tasks' = Tasks
    BY DEF taskVars, Tasks
<1>2. ASSUME NEW k \in Tasks, UnderWay(k) PROVE UnderWay(k)'
    <2>1. /\ Out(Id(k), "tracking", tracking) => Out(Id(k), "tracking", tracking)'
          /\ Out(Id(k), "alerts", alerts) => Out(Id(k), "alerts", alerts)'
        <3>1. Id(k)' = Id(k)
            BY <1>1 DEF Id
        <3>2. Out(Id(k), "tracking", tracking) => Out(Id(k), "tracking", tracking)'
            BY <3>1 DEF Out, Sent, InLog
        <3>3. Out(Id(k), "alerts", alerts) => Out(Id(k), "alerts", alerts)'
            BY <3>1 DEF Out, Sent, InLog
        <3> QED  BY <3>2, <3>3
    <2>2. Current(k)' = Current(k) /\ task'[k].at = task[k].at
        BY <1>1 DEF Current
    <2> QED  BY <1>2, <2>1, <2>2 DEF UnderWay
<1>3. ASSUME NEW k \in Tasks, NEW i PROVE (Passed(k, i)' => Passed(k, i))
                                          /\ (Delivered(k, i) => Delivered(k, i)')
    BY <1>1, DeliveredStays DEF Passed
<1> QED  BY <1>1, <1>2, <1>3 DEF HandledInv

LEMMA NumbersNext ==
    ASSUME TypeInv, [Next]_vars, NEW k \in Tasks', NEW i \in DOMAIN chunks'[k].packets
    PROVE  i \in Nat \ {0}
<1>1. TypeInv'
    BY TypeNext
<1>2. chunks' \in Seq(Chunk) /\ task' \in Seq(Position) /\ Len(task') = Len(chunks')
    BY <1>1 DEF TypeInv, KnownInv, KnownTypes
<1>3. chunks'[k] \in Chunk
    BY <1>2 DEF Tasks
<1>4. chunks'[k].packets \in Seq(Packets)
    BY <1>3 DEF Chunk
<1> QED  BY <1>4

LEMMA HandledDeath ==
    ASSUME TypeInv, HandledInv, Crash \/ \E s \in Sockets : TextPacket(s) PROVE HandledInv'
<1>1. /\ Comes /\ \A k \in Tasks : Given(k)
      /\ \A k \in Tasks' : task'[k].at \in {"done", "gone"}
      /\ \A k \in Tasks' \ Tasks : task'[k].at = "gone"
      /\ UNCHANGED <<dropped, refusals>>
    BY DeathComes
<1>2. PICK n \in 0..Len(commands) : Dies(n)
    BY DeathComes
<1>3. \A id : (InLog(id, tracking) => InLog(id, tracking)') /\ (InLog(id, alerts) => InLog(id, alerts)')
    BY <1>2, DeathMoves
<1>4. \A k \in Tasks' : UnderWay(k)'
    BY <1>1 DEF UnderWay
<1>5. ASSUME NEW k \in Tasks, NEW i \in DOMAIN chunks'[k].packets, Passed(k, i)'
      PROVE  Delivered(k, i)'
    <2>1. chunks'[k] = chunks[k]
        BY <1>1 DEF Comes
    <2>2. Passed(k, i)
        BY <1>1, <1>5 DEF Passed, Given
    <2>3. Delivered(k, i)
        BY <1>5, <2>1, <2>2 DEF HandledInv
    <2> QED  BY <1>1, <1>3, <2>1, <2>3, DeliveredStays
<1>6. ASSUME NEW k \in Tasks' \ Tasks, NEW i \in DOMAIN chunks'[k].packets PROVE ~Passed(k, i)'
    <2>1. task'[k].packet = 1 /\ task'[k].at = "gone"
        BY <1>1 DEF Comes
    <2>2. [Next]_vars
        BY DEF Next
    <2>3. i \in Nat \ {0}
        BY <2>2, NumbersNext
    <2> QED  BY <2>1, <2>3 DEF Passed
<1> QED  BY <1>4, <1>5, <1>6 DEF HandledInv

LEMMA HandledData ==
    ASSUME TypeInv, HandledInv, NEW s \in Sockets, NEW c \in Chunks, Data(s, c) PROVE HandledInv'
<1>1. /\ Comes /\ \A k \in Tasks : task'[k] = task[k]
      /\ \A k \in Tasks' \ Tasks : task'[k].at = "raw"
    BY DataComes
<1>2. UNCHANGED <<dropped, redisVars>>
    BY DEF Data
<1>3. \A id, name : /\ InLog(id, tracking)' <=> InLog(id, tracking)
                    /\ InLog(id, alerts)' <=> InLog(id, alerts)
                    /\ Sent(id, name)' <=> Sent(id, name)
    BY <1>2 DEF redisVars, Sent
<1>4. ASSUME NEW k \in Tasks PROVE UnderWay(k)'
    <2>1. Id(k)' = Id(k) /\ Current(k)' = Current(k) /\ task'[k] = task[k]
        BY <1>1 DEF Comes, Id, Current
    <2>2. UnderWay(k)
        BY DEF HandledInv
    <2>3. UNCHANGED <<commands, tracking, alerts, refusals>>
        BY <1>2 DEF redisVars
    <2> QED  BY <2>1, <2>2, <2>3 DEF UnderWay, Out, Sent, InLog
<1>5. \A k \in Tasks' \ Tasks : UnderWay(k)'
    BY <1>1 DEF UnderWay
<1>6. ASSUME NEW k \in Tasks, NEW i \in DOMAIN chunks'[k].packets, Passed(k, i)'
      PROVE  Delivered(k, i)'
    <2>1. chunks'[k] = chunks[k]
        BY <1>1 DEF Comes
    <2>2. Passed(k, i)
        BY <1>1, <1>6 DEF Passed
    <2>3. Delivered(k, i)
        BY <1>6, <2>1, <2>2 DEF HandledInv
    <2>4. UNCHANGED refusals
        BY <1>2 DEF redisVars
    <2> QED  BY <1>2, <1>3, <2>1, <2>3, <2>4, DeliveredStays
<1>7. ASSUME NEW k \in Tasks' \ Tasks, NEW i \in DOMAIN chunks'[k].packets PROVE ~Passed(k, i)'
    <2>1. task'[k].packet = 1 /\ task'[k].at = "raw"
        BY <1>1 DEF Comes
    <2>2. [Next]_vars
        BY DEF Next
    <2>3. i \in Nat \ {0}
        BY <2>2, NumbersNext
    <2> QED  BY <2>1, <2>3 DEF Passed
<1> QED  BY <1>4, <1>5, <1>6, <1>7 DEF HandledInv

(* The other activations do not see a turn.                                *)
LEMMA HandledOthers ==
    ASSUME TypeInv, HandledInv, NEW k \in Tasks, Turn(k), NEW j \in Tasks, j # k,
           task'[j] = task[j], UNCHANGED <<chunks, tracking, alerts, refusals>>,
           dropped \subseteq dropped',
           \A id, name : Sent(id, name) => Sent(id, name)'
    PROVE  /\ UnderWay(j)'
           /\ \A i \in DOMAIN chunks'[j].packets : Passed(j, i)' => Delivered(j, i)'
<1>1. Id(j)' = Id(j) /\ Current(j)' = Current(j)
    BY DEF Id, Current
<1>2. \A id : (InLog(id, tracking) => InLog(id, tracking)') /\ (InLog(id, alerts) => InLog(id, alerts)')
    OBVIOUS
<1>3. /\ Out(Id(j), "tracking", tracking) => Out(Id(j), "tracking", tracking)'
      /\ Out(Id(j), "alerts", alerts) => Out(Id(j), "alerts", alerts)'
    <2>1. PICK me : me = Id(j)
        OBVIOUS
    <2>2. /\ Out(me, "tracking", tracking) => Out(me, "tracking", tracking)'
          /\ Out(me, "alerts", alerts) => Out(me, "alerts", alerts)'
        BY DEF Out
    <2>3. me = Id(j)'
        BY <1>1, <2>1
    <2> QED  BY <2>1, <2>2, <2>3 DEF Out, Sent
<1>4. UnderWay(j)'
    BY <1>1, <1>3 DEF HandledInv, UnderWay
<1>5. \A i \in DOMAIN chunks'[j].packets : Passed(j, i)' => Delivered(j, i)'
    BY <1>2, DeliveredStays DEF HandledInv, Passed
<1> QED  BY <1>4, <1>5

(* A packet is passed with no command of it left under way.                *)
LEMMA HandledPasses ==
    ASSUME TypeInv, HandledInv, NEW k \in Tasks, Turn(k), Passes(k),
           dropped \subseteq dropped',
           \/ Id(k) \in dropped'
           \/ /\ task[k].at = "body"
              /\ Current(k).type = "location" => ~Current(k).fix
              /\ Current(k).type # "alarm"
           \/ task[k].at = "fix" /\ ~Current(k).fix
           \/ task[k].at = "end"
    PROVE  HandledInv'
<1>1. Running(k) /\ ~Waiting(k) /\ UNCHANGED <<chunks, commands, tracking, alerts, refusals>>
    BY TurnKinds DEF Passes, redisVars
<1>2. /\ Tasks' = Tasks /\ \A j \in Tasks : j # k => task'[j] = task[j]
      /\ \/ task'[k].packet = task[k].packet + 1 /\ task'[k].at = "raw"
         \/ /\ task[k].packet = Len(chunks[k].packets)
            /\ task'[k].packet = task[k].packet /\ task'[k].at = "done"
    BY TaskMoves DEF Passes
<1>3. task[k].packet \in 1..Len(chunks[k].packets) /\ chunks[k].packets \in Seq(Packets)
    BY Positions
<1>4. \A name : ~Sent(Id(k), name)
    BY <1>1 DEF Sent, Waiting, Id
<1>5. UnderWay(k)
    BY DEF HandledInv
<1>6. ASSUME NEW i, i = task[k].packet PROVE Delivered(k, i)'
    <2>1. Id(k) = <<k, i>> /\ Current(k) = chunks[k].packets[i]
        BY <1>6 DEF Id, Current
    <2>2. CASE Id(k) \in dropped'
        <3>1. Lost(<<k, i>>)'
            BY <2>1, <2>2 DEF Lost
        <3> QED  BY <3>1 DEF Delivered
    <2>3. CASE Id(k) \notin dropped'
        <3>1. \/ <<k, i>> \in refusals
              \/ /\ Current(k).type \in {"location", "alarm"} /\ Current(k).fix =>
                        InLog(<<k, i>>, tracking)
                 /\ Current(k).type = "alarm" => InLog(<<k, i>>, alerts)
            BY <1>4, <1>5, <2>1, <2>3 DEF UnderWay, Out
        <3>2. Delivered(k, i)
            BY <2>1, <3>1 DEF Delivered, Lost
        <3> QED  BY <1>1, <3>2, DeliveredStays
    <2> QED  BY <2>2, <2>3
<1>7. ASSUME NEW i \in DOMAIN chunks'[k].packets, Passed(k, i)' PROVE Delivered(k, i)'
    <2>1. i \in 1..Len(chunks[k].packets) /\ Len(chunks[k].packets) \in Nat
        BY <1>1, <1>3, <1>7
    <2>2. i < task[k].packet \/ i = task[k].packet
        BY <1>2, <1>3, <1>7, <2>1 DEF Passed
    <2>3. CASE i < task[k].packet
        <3>1. Delivered(k, i)
            BY <1>1, <1>7, <2>3 DEF HandledInv, Passed
        <3> QED  BY <1>1, <3>1, DeliveredStays
    <2>4. CASE i = task[k].packet
        BY <1>6, <2>4
    <2> QED  BY <2>2, <2>3, <2>4
<1>8. UnderWay(k)'
    BY <1>2 DEF UnderWay
<1>9. \A j \in Tasks : j # k =>
          /\ UnderWay(j)'
          /\ \A i \in DOMAIN chunks'[j].packets : Passed(j, i)' => Delivered(j, i)'
    <2>1. \A id, name : Sent(id, name) => Sent(id, name)'
        BY <1>1 DEF Sent
    <2> QED  BY <1>1, <1>2, <2>1, HandledOthers
<1> QED  BY <1>2, <1>7, <1>8, <1>9 DEF HandledInv

(* A step of an activation within its packet.                              *)
LEMMA HandledSteps ==
    ASSUME TypeInv, HandledInv, NEW k \in Tasks, Turn(k), NEW next, Step(k, next),
           next # "done", UNCHANGED <<tracking, alerts, refusals, dropped>>,
           \A id, name : Sent(id, name) => Sent(id, name)',
           NEW me, me = Id(k),
           next = "fix" => Current(k).type = "alarm" /\ Sent(me, "alerts")',
           next = "end" => /\ Sent(me, "tracking")'
                           /\ Current(k).type = "alarm" => task[k].at = "fix"
    PROVE  HandledInv'
<1>1. UNCHANGED chunks
    BY TurnKinds
<1>2. /\ Tasks' = Tasks /\ \A j \in Tasks : j # k => task'[j] = task[j]
      /\ task'[k].packet = task[k].packet /\ task'[k].at = next
    BY TaskMoves
<1>3. me = Id(k)'
    BY <1>2 DEF Id
<1>4. PICK what : what = Current(k)
    OBVIOUS
<1>5. what = Current(k)'
    BY <1>1, <1>2, <1>4 DEF Current
<1>6. UnderWay(k)'
    <2>1. next = "end" /\ what.type = "alarm" => Out(me, "alerts", alerts)
        BY <1>4 DEF HandledInv, UnderWay
    <2>2. Out(me, "alerts", alerts) => Out(me, "alerts", alerts)'
        BY DEF Out
    <2>3. /\ next = "fix" => what.type = "alarm" /\ Out(me, "alerts", alerts)'
          /\ next = "end" => Out(me, "tracking", tracking)'
          /\ next = "end" /\ what.type = "alarm" => Out(me, "alerts", alerts)'
        BY <1>4, <2>1, <2>2 DEF Out
    <2>4. UnderWay(k)' <=> /\ next = "fix" => what.type = "alarm" /\ Out(me, "alerts", alerts)'
                           /\ next = "end" => Out(me, "tracking", tracking)'
                           /\ next = "end" /\ what.type = "alarm" => Out(me, "alerts", alerts)'
        BY <1>2, <1>3, <1>5 DEF UnderWay, Out, Sent, InLog
    <2> QED  BY <2>3, <2>4
<1>7. ASSUME NEW i \in DOMAIN chunks'[k].packets, Passed(k, i)' PROVE Delivered(k, i)'
    <2>1. Passed(k, i)
        BY <1>2, <1>7 DEF Passed
    <2>2. Delivered(k, i)
        BY <1>1, <1>7, <2>1 DEF HandledInv
    <2> QED  BY <1>1, <2>2, DeliveredStays
<1>8. \A j \in Tasks : j # k =>
          /\ UnderWay(j)'
          /\ \A i \in DOMAIN chunks'[j].packets : Passed(j, i)' => Delivered(j, i)'
    BY <1>1, <1>2, HandledOthers
<1> QED  BY <1>2, <1>6, <1>7, <1>8 DEF HandledInv

LEMMA HandledTurn ==
    ASSUME TypeInv, HandledInv, NEW k \in Tasks, Turn(k) PROVE HandledInv'
<1>1. ASSUME NEW name, NEW next, Sends(k, name, next),
             \/ name = "raw" /\ next = "body"
             \/ /\ name = "tracking" /\ next = "end"
                /\ task[k].at = "fix" \/ Current(k).type # "alarm"
             \/ name = "alerts" /\ next = "fix" /\ Current(k).type = "alarm"
      PROVE  HandledInv'
    <2>1. /\ UNCHANGED <<tracking, alerts, refusals, dropped>> /\ Step(k, next)
          /\ \A id, n : Sent(id, n)' <=> Sent(id, n) \/ (id = Id(k) /\ n = name)
        BY <1>1, SendMoves DEF Sends
    <2>2. PICK me : me = Id(k)
        OBVIOUS
    <2>3. next = "fix" => Current(k).type = "alarm" /\ Sent(me, "alerts")'
        BY <1>1, <2>1, <2>2
    <2>4. next = "end" => /\ Sent(me, "tracking")'
                          /\ Current(k).type = "alarm" => task[k].at = "fix"
        BY <1>1, <2>1, <2>2
    <2>5. next # "done" /\ \A id, n : Sent(id, n) => Sent(id, n)'
        BY <1>1, <2>1
    <2> QED  BY <2>1, <2>2, <2>3, <2>4, <2>5, HandledSteps
<1>2. ASSUME UNCHANGED <<redisVars, dropped>>, Step(k, "body") PROVE HandledInv'
    <2>1. UNCHANGED <<tracking, alerts, refusals, dropped>>
          /\ \A id, name : Sent(id, name) => Sent(id, name)'
        BY <1>2 DEF redisVars, Sent
    <2> QED  BY <1>2, <2>1, HandledSteps
<1> QED  BY <1>1, <1>2, TurnKinds, HandledPasses

LEMMA HandledNext == TypeInv /\ HandledInv /\ [Next]_vars => HandledInv'
<1> SUFFICES ASSUME TypeInv, HandledInv, [Next]_vars PROVE HandledInv'
    OBVIOUS
<1>1. ASSUME UNCHANGED <<taskVars, redisVars>> PROVE HandledInv'
    <2>1. UNCHANGED <<commands, tracking, alerts, refusals, taskVars>>
        BY <1>1 DEF redisVars
    <2>2. \A id, name : Sent(id, name) => Sent(id, name)'
        BY <2>1 DEF Sent
    <2> QED  BY <2>1, <2>2, HandledKept
<1>2. CASE UNCHANGED vars
    BY <1>1, <1>2 DEF vars
<1>3. ASSUME NEW s \in Sockets, Connect(s) \/ Close(s) PROVE HandledInv'
    BY <1>1, <1>3 DEF Connect, Close
<1>4. CASE Crash \/ \E s \in Sockets : TextPacket(s)
    BY <1>4, HandledDeath
<1>5. ASSUME NEW s \in Sockets, NEW c \in Chunks, Data(s, c) PROVE HandledInv'
    BY <1>5, HandledData
<1>6. ASSUME NEW k \in Tasks, Turn(k) PROVE HandledInv'
    BY <1>6, HandledTurn
<1>7. CASE RedisReply \/ RedisRefuses \/ Reconnect
    <2>1. UNCHANGED taskVars /\ refusals \subseteq refusals'
        BY <1>7, RedisMoves
    <2>2. \A id : (InLog(id, tracking) => InLog(id, tracking)')
                  /\ (InLog(id, alerts) => InLog(id, alerts)')
        BY <1>7, RedisMoves
    <2>3. \A id : /\ Sent(id, "tracking") =>
                         Sent(id, "tracking")' \/ id \in refusals' \/ InLog(id, tracking)'
                  /\ Sent(id, "alerts") =>
                         Sent(id, "alerts")' \/ id \in refusals' \/ InLog(id, alerts)'
        BY <1>7, RedisMoves
    <2> QED  BY <2>1, <2>2, <2>3, HandledKept
<1> QED  BY <1>2, <1>3, <1>4, <1>5, <1>6, <1>7 DEF Next

(* A report that was handled to the end is in the stream, and the alert of *)
(* an alarm with it, whatever activations ran in between.                  *)
THEOREM HandledPublished == Spec => []HandledIsPublished
<1>1. HandledInv => HandledIsPublished
    <2> SUFFICES ASSUME HandledInv, NEW k \in Tasks, NEW i \in DOMAIN chunks[k].packets,
                        Passed(k, i), <<k, i>> \notin dropped \cup refusals
                 PROVE  LET p == chunks[k].packets[i]
                        IN /\ p.type \in {"location", "alarm"} /\ p.fix =>
                                 \E n \in DOMAIN tracking : tracking[n] = <<k, i>>
                           /\ p.type = "alarm" => \E n \in DOMAIN alerts : alerts[n] = <<k, i>>
        BY DEF HandledIsPublished
    <2>1. Delivered(k, i)
        BY DEF HandledInv
    <2> QED  BY <2>1 DEF Delivered, Lost, InLog
<1> QED  BY TypeInit, TypeNext, HandledInit, HandledNext, <1>1, PTL DEF Spec
=============================================================================
