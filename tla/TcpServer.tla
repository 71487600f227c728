------------------------------ MODULE TcpServer ------------------------------
(***************************************************************************)
(* The TCP server (tcp-server/server.js): two ports for text protocols and *)
(* one for Concox devices, in one process with one Redis connection        *)
(* (tcp-server/publisher.js).                                              *)
(*                                                                         *)
(* On the Concox port every data event starts an activation of an async    *)
(* handler, which walks through the packets of its chunk and waits for     *)
(* Redis in between; the next chunk of the same socket does not wait for   *)
(* it.  What is between two awaits is one step.  Several promises may be   *)
(* settled by one read from Redis, so activations that are ready run in    *)
(* any order; an event of a socket comes only when none is ready.          *)
(***************************************************************************)
EXTENDS Naturals, Sequences, FiniteSets

CONSTANTS
    Sockets,      \* the connections that devices make, each of them once
    Protocol,     \* the port of each connection
    Device,       \* the IMEI of the device at its other end
    Imeis,
    None,         \* null: no session, no socket
    TextPorts,    \* the protocols of createProtocolServer
    PortCap,      \* their PORT_CAP
    Chunks,       \* the packets that one data event of a Concox socket may carry
    MaxChunks,    \* bound: data events in a behaviour
    MaxPublished, \* bound: entries that reconnections may add to the stream
    Faults        \* among "reconnect", "refused", "crash"

PacketTypes == {"login", "heartbeat", "location", "alarm"}
Packets == [type : PacketTypes, fix : BOOLEAN]

ASSUME TcpAssumption ==
    /\ IsFiniteSet(Sockets)
    /\ Protocol \in [Sockets -> TextPorts \cup {"CONCOX"}]
    /\ "CONCOX" \notin TextPorts
    /\ Device \in [Sockets -> Imeis]
    /\ None \notin Imeis \cup Sockets
    /\ PortCap \in [TextPorts -> Nat \ {0}]
    /\ Chunks \subseteq Seq(Packets) \ {<<>>}
    /\ MaxChunks \in Nat /\ MaxPublished \in Nat
    /\ Faults \subseteq {"reconnect", "refused", "crash"}

VARIABLES
    conn,         \* each connection: "new", "open", "rejected" or "closed"
    portSockets,  \* portSocketCount
    connections,  \* protocolStats[...].connections, exported as a metric
    sessionImei,  \* of each Concox socket
    connected,    \* connectedDevices: the socket behind each IMEI
    answered,     \* sockets whose login has been acknowledged
    chunks,       \* the data events so far: the socket, its packets, and whether
                  \* its login had been answered
    task,         \* the activation of each: the packet it is at, and where in it
    commands,     \* what was sent to Redis and is not answered, in order
    tracking,     \* the entries of tracking:stream, as <<chunk, packet>>
    alerts,       \* the entries of alerts:stream, likewise
    dropped,      \* packets discarded because the socket had no session
    refusals,     \* history: packets whose XADD Redis answered with an error
    restarted     \* history: the process has died at least once

socketVars == <<conn, portSockets, connections>>
sessionVars == <<sessionImei, connected, answered>>
taskVars == <<chunks, task, dropped>>
redisVars == <<commands, tracking, alerts, refusals>>
vars == <<socketVars, sessionVars, taskVars, redisVars, restarted>>

Protocols == TextPorts \cup {"CONCOX"}
Streams == {"raw", "tracking", "alerts"}
Ids == Nat \X Nat

TypeOK ==
    /\ conn \in [Sockets -> {"new", "open", "rejected", "closed"}]
    /\ portSockets \in [TextPorts -> Nat]
    /\ connections \in [Protocols -> Nat]
    /\ sessionImei \in [Sockets -> Imeis \cup {None}]
    /\ connected \in [Imeis -> Sockets \cup {None}]
    /\ answered \subseteq Sockets
    /\ chunks \in Seq([socket : Sockets, packets : Seq(Packets), answered : BOOLEAN])
    /\ task \in Seq([packet : Nat, at : {"raw", "body", "fix", "end", "done", "gone"}])
    /\ DOMAIN task = DOMAIN chunks
    /\ \A k \in DOMAIN task : task[k].packet \in DOMAIN chunks[k].packets
    /\ commands \in Seq([stream : Streams, id : Ids])
    /\ tracking \in Seq(Ids)
    /\ alerts \in Seq(Ids)
    /\ dropped \subseteq Ids
    /\ refusals \subseteq Ids
    /\ restarted \in BOOLEAN

Init ==
    /\ conn = [s \in Sockets |-> "new"]
    /\ portSockets = [p \in TextPorts |-> 0]
    /\ connections = [p \in Protocols |-> 0]
    /\ sessionImei = [s \in Sockets |-> None]
    /\ connected = [m \in Imeis |-> None]
    /\ answered = {}
    /\ chunks = <<>>
    /\ task = <<>>
    /\ commands = <<>>
    /\ tracking = <<>>
    /\ alerts = <<>>
    /\ dropped = {}
    /\ refusals = {}
    /\ restarted = FALSE

Tasks == DOMAIN task
Current(k) == chunks[k].packets[task[k].packet]
SocketOf(k) == chunks[k].socket
Id(k) == <<k, task[k].packet>>

(* Mutant: nothing is awaited. *)
NeverWaits(k) == FALSE

Waiting(k) == \E n \in DOMAIN commands : commands[n].id[1] = k
Running(k) == task[k].at \notin {"done", "gone"}
Ready(k) == Running(k) /\ ~Waiting(k)
Quiet == \A k \in Tasks : ~Ready(k)

-----------------------------------------------------------------------------
(* Connections *)

(* A new socket is counted before the cap of a text port is looked at; the *)
(* Concox port has no cap.                                                 *)
Connect(s) ==
    LET p == Protocol[s]
    IN /\ Quiet
       /\ conn[s] = "new"
       /\ connections' = [connections EXCEPT ![p] = @ + 1]
       /\ \/ /\ p \in TextPorts
             /\ portSockets[p] >= PortCap[p]
             /\ conn' = [conn EXCEPT ![s] = "rejected"]
             /\ UNCHANGED portSockets
          \/ /\ p \in TextPorts
             /\ portSockets[p] < PortCap[p]
             /\ conn' = [conn EXCEPT ![s] = "open"]
             /\ portSockets' = [portSockets EXCEPT ![p] = @ + 1]
          \/ /\ p = "CONCOX"
             /\ conn' = [conn EXCEPT ![s] = "open"]
             /\ UNCHANGED portSockets
       /\ UNCHANGED <<sessionVars, taskVars, redisVars, restarted>>

(* Mutant: the close handler of a text port does not release its place. *)
CloseUnreleased(s) ==
    /\ Quiet
    /\ conn[s] = "open"
    /\ conn' = [conn EXCEPT ![s] = "closed"]
    /\ connections' = [connections EXCEPT ![Protocol[s]] = @ - 1]
    /\ connected' = IF sessionImei[s] = None THEN connected
                    ELSE [connected EXCEPT ![sessionImei[s]] = None]
    /\ UNCHANGED <<portSockets, sessionImei, answered, taskVars, redisVars, restarted>>

(* The peer hangs up, the connection breaks, or its timer runs out.  What  *)
(* its handlers are doing goes on.                                         *)
Close(s) ==
    LET p == Protocol[s]
    IN /\ Quiet
       /\ conn[s] = "open"
       /\ conn' = [conn EXCEPT ![s] = "closed"]
       /\ connections' = [connections EXCEPT ![p] = @ - 1]
       /\ portSockets' = IF p \in TextPorts /\ portSockets[p] > 0
                         THEN [portSockets EXCEPT ![p] = @ - 1] ELSE portSockets
       /\ connected' = IF sessionImei[s] = None THEN connected
                       ELSE [connected EXCEPT ![sessionImei[s]] = None]
       /\ UNCHANGED <<sessionImei, answered, taskVars, redisVars, restarted>>

-----------------------------------------------------------------------------
(* The end of the process, and its restart by PM2 *)

Executed(n) == [i \in 1..n |-> commands[i]]
OnStream(sent, name) ==
    LET on[n \in 0..Len(sent)] ==
            IF n = 0 THEN <<>>
            ELSE IF sent[n].stream = name THEN Append(on[n - 1], sent[n].id) ELSE on[n - 1]
    IN on[Len(sent)]

(* Of what was sent, Redis may have executed the first n commands. *)
Dies(n) ==
    /\ conn' = [s \in Sockets |-> IF conn[s] = "new" THEN "new" ELSE "closed"]
    /\ portSockets' = [p \in TextPorts |-> 0]
    /\ connections' = [p \in Protocols |-> 0]
    /\ sessionImei' = [s \in Sockets |-> None]
    /\ connected' = [m \in Imeis |-> None]
    /\ commands' = <<>>
    /\ tracking' = tracking \o OnStream(Executed(n), "tracking")
    /\ alerts' = alerts \o OnStream(Executed(n), "alerts")
    /\ restarted' = TRUE

GiveUp == [k \in Tasks |-> IF task[k].at = "done" THEN task[k] ELSE [task[k] EXCEPT !.at = "gone"]]

Crash ==
    /\ "crash" \in Faults
    /\ \E n \in 0..Len(commands) : Dies(n)
    /\ task' = GiveUp
    /\ UNCHANGED <<answered, chunks, dropped, refusals>>

(* A whole packet on a text port.  processPacket has no parameter socket:  *)
(* its finally block throws a ReferenceError, whatever the try block did,  *)
(* and the rejected promise ends the process.  Before that it publishes    *)
(* nothing: an unknown header returns, and a packet with an IMEI throws at *)
(* the assignment before its first await.                                  *)
TextPacket(s) ==
    /\ Quiet
    /\ Protocol[s] \in TextPorts
    /\ conn[s] = "open"
    /\ Len(chunks) < MaxChunks
    /\ chunks' = Append(chunks, [socket |-> s, answered |-> FALSE,
                                 packets |-> <<[type |-> "location", fix |-> TRUE]>>])
    /\ task' = Append(GiveUp, [packet |-> 1, at |-> "gone"])
    /\ \E n \in 0..Len(commands) : Dies(n)
    /\ UNCHANGED <<answered, dropped, refusals>>

-----------------------------------------------------------------------------
(* The Concox port *)

LoggingIn(c) == c[1].type = "login" /\ \A i \in 2..Len(c) : c[i].type # "login"
SentLogin(s) == \E k \in Tasks : SocketOf(k) = s

(* What a device sends: its login first and only once, and the rest        *)
(* without or with waiting for the answer.                                 *)
MaySend(s, c) ==
    \/ ~SentLogin(s) /\ LoggingIn(c)
    \/ SentLogin(s) /\ \A i \in DOMAIN c : c[i].type # "login"

(* A data event.  The pause at HIGH_WATER is never reached: __track is not *)
(* defined on any socket, so __pendingPublishes stays 0.                   *)
Data(s, c) ==
    /\ Quiet
    /\ Protocol[s] = "CONCOX"
    /\ conn[s] = "open"
    /\ Len(chunks) < MaxChunks
    /\ MaySend(s, c)
    /\ chunks' = Append(chunks, [socket |-> s, packets |-> c, answered |-> s \in answered])
    /\ task' = Append(task, [packet |-> 1, at |-> "raw"])
    /\ UNCHANGED <<socketVars, sessionVars, dropped, redisVars, restarted>>

Step(k, next) == task' = [task EXCEPT ![k].at = next]

Send(k, name) ==
    /\ commands' = Append(commands, [stream |-> name, id |-> Id(k)])
    /\ UNCHANGED <<tracking, alerts, refusals>>

(* Mutant: the loop runs one packet too far. *)
FinishPast(k) ==
    task' = IF task[k].packet <= Len(chunks[k].packets)
            THEN [task EXCEPT ![k] = [packet |-> task[k].packet + 1, at |-> "raw"]]
            ELSE [task EXCEPT ![k].at = "done"]

Finish(k) ==
    task' = IF task[k].packet < Len(chunks[k].packets)
            THEN [task EXCEPT ![k] = [packet |-> task[k].packet + 1, at |-> "raw"]]
            ELSE [task EXCEPT ![k].at = "done"]

(* publishRawMessage: sampled at random, and only for a known IMEI.  An    *)
(* await in any case, if only of a settled promise.                        *)
RawMessage(k) ==
    /\ task[k].at = "raw"
    /\ \/ /\ Current(k).type = "login" \/ sessionImei[SocketOf(k)] # None
          /\ Send(k, "raw")
       \/ UNCHANGED redisVars
    /\ Step(k, "body")
    /\ UNCHANGED <<chunks, dropped, sessionVars>>

(* Mutant: the ACK goes out, and a publish is awaited, before the IMEI is  *)
(* stored.                                                                 *)
LoginAckFirst(k) ==
    LET s == SocketOf(k)
    IN /\ Current(k).type = "login"
       /\ \/ /\ task[k].at = "body"
             /\ answered' = answered \cup {s}
             /\ Send(k, "raw")
             /\ Step(k, "end")
             /\ UNCHANGED sessionImei
          \/ /\ task[k].at = "end"
             /\ sessionImei' = [sessionImei EXCEPT ![s] = Device[s]]
             /\ Finish(k)
             /\ UNCHANGED <<answered, redisVars>>
       /\ UNCHANGED <<connected, chunks, dropped>>

Login(k) ==
    LET s == SocketOf(k)
    IN /\ task[k].at = "body"
       /\ Current(k).type = "login"
       /\ sessionImei' = [sessionImei EXCEPT ![s] = Device[s]]
       /\ connected' = [connected EXCEPT ![Device[s]] = s]
       /\ answered' = answered \cup {s}
       /\ Finish(k)
       /\ UNCHANGED <<chunks, dropped, redisVars>>

(* Packets that are answered or logged and not published. *)
Heartbeat(k) ==
    /\ task[k].at = "body"
    /\ Current(k).type = "heartbeat"
    /\ Finish(k)
    /\ UNCHANGED <<chunks, dropped, sessionVars, redisVars>>

(* Mutant: the break after it is missing. *)
DropFallsThrough(k) ==
    /\ task[k].at = "body"
    /\ Current(k).type \in {"location", "alarm"}
    /\ sessionImei[SocketOf(k)] = None
    /\ dropped' = dropped \cup {Id(k)}
    /\ Send(k, "tracking")
    /\ Step(k, "end")
    /\ UNCHANGED <<chunks, sessionVars>>

DropBeforeLogin(k) ==
    /\ task[k].at = "body"
    /\ Current(k).type \in {"location", "alarm"}
    /\ sessionImei[SocketOf(k)] = None
    /\ dropped' = dropped \cup {Id(k)}
    /\ Finish(k)
    /\ UNCHANGED <<chunks, sessionVars, redisVars>>

(* A location without a GPS fix is not published. *)
Location(k) ==
    LET s == SocketOf(k)
    IN /\ task[k].at = "body"
       /\ Current(k).type = "location"
       /\ sessionImei[s] # None
       /\ \/ /\ ~Current(k).fix
             /\ Finish(k)
             /\ UNCHANGED <<connected, redisVars>>
          \/ /\ Current(k).fix
             /\ connected' = [connected EXCEPT ![sessionImei[s]] = s]
             /\ Send(k, "tracking")
             /\ Step(k, "end")
       /\ UNCHANGED <<chunks, dropped, sessionImei, answered>>

Alarm(k) ==
    /\ task[k].at = "body"
    /\ Current(k).type = "alarm"
    /\ sessionImei[SocketOf(k)] # None
    /\ Send(k, "alerts")
    /\ Step(k, "fix")
    /\ UNCHANGED <<chunks, dropped, sessionVars>>

(* The location of an alarm follows the alert. *)
AlarmLocation(k) ==
    /\ task[k].at = "fix"
    /\ \/ ~Current(k).fix /\ Finish(k) /\ UNCHANGED redisVars
       \/ Current(k).fix /\ Send(k, "tracking") /\ Step(k, "end")
    /\ UNCHANGED <<chunks, dropped, sessionVars>>

EndPacket(k) ==
    /\ task[k].at = "end"
    /\ Finish(k)
    /\ UNCHANGED <<chunks, dropped, sessionVars, redisVars>>

Turn(k) ==
    /\ Ready(k)
    /\ \/ RawMessage(k) \/ Login(k) \/ Heartbeat(k) \/ DropBeforeLogin(k)
       \/ Location(k) \/ Alarm(k) \/ AlarmLocation(k) \/ EndPacket(k)
    /\ UNCHANGED <<socketVars, restarted>>

-----------------------------------------------------------------------------
(* Redis *)

(* Redis executes the commands of a connection in order. *)
RedisReply ==
    /\ commands # <<>>
    /\ tracking' = tracking \o OnStream(Executed(1), "tracking")
    /\ alerts' = alerts \o OnStream(Executed(1), "alerts")
    /\ commands' = Tail(commands)
    /\ UNCHANGED <<refusals, socketVars, sessionVars, taskVars, restarted>>

(* Or it answers with an error, which the publisher swallows. *)
RedisRefuses ==
    /\ "refused" \in Faults
    /\ commands # <<>>
    /\ refusals' = refusals \cup {Head(commands).id}
    /\ commands' = Tail(commands)
    /\ UNCHANGED <<tracking, alerts, socketVars, sessionVars, taskVars, restarted>>

(* The connection breaks after Redis has executed the first n commands;    *)
(* ioredis connects again and sends all of them once more.                 *)
Reconnect ==
    /\ "reconnect" \in Faults
    /\ \E n \in 1..Len(commands) :
          /\ tracking' = tracking \o OnStream(Executed(n), "tracking")
          /\ alerts' = alerts \o OnStream(Executed(n), "alerts")
    /\ Len(tracking') + Len(alerts') <= MaxPublished
    /\ UNCHANGED <<commands, refusals, socketVars, sessionVars, taskVars, restarted>>

-----------------------------------------------------------------------------
Next ==
    \/ \E s \in Sockets : Connect(s) \/ Close(s) \/ TextPacket(s)
    \/ \E s \in Sockets, c \in Chunks : Data(s, c)
    \/ \E k \in Tasks : Turn(k)
    \/ RedisReply \/ RedisRefuses \/ Reconnect \/ Crash

Spec == Init /\ [][Next]_vars

-----------------------------------------------------------------------------
(* Safety *)

Open(p) == {s \in Sockets : Protocol[s] = p /\ conn[s] = "open"}
Rejected(p) == {s \in Sockets : Protocol[s] = p /\ conn[s] = "rejected"}

(* The place that a socket takes under the cap of its port is given back   *)
(* exactly once, so that a port never holds more than its cap and is never *)
(* closed to devices by places that nobody holds (46-56, 150, 222).        *)
PlacesAreSockets ==
    \A p \in TextPorts :
        /\ portSockets[p] = Cardinality(Open(p))
        /\ Cardinality(Open(p)) <= PortCap[p]

(* A report that a device sends after the answer to its login is never     *)
(* discarded for want of a session (544 before 550).                       *)
AnsweredIsKnown == \A id \in dropped : ~chunks[id[1]].answered

(* A report that was handled to the end is in the stream, with its alert   *)
(* if it is an alarm, unless it came before the session, had no fix, or    *)
(* Redis refused it.                                                       *)
Passed(k, i) == i < task[k].packet \/ task[k].at = "done"

HandledIsPublished ==
    \A k \in Tasks : \A i \in DOMAIN chunks[k].packets :
        Passed(k, i) /\ <<k, i>> \notin dropped \cup refusals =>
            LET p == chunks[k].packets[i]
            IN /\ p.type \in {"location", "alarm"} /\ p.fix =>
                     \E n \in DOMAIN tracking : tracking[n] = <<k, i>>
               /\ p.type = "alarm" => \E n \in DOMAIN alerts : alerts[n] = <<k, i>>

(* Nothing is published that a logged-in device did not send, and a packet *)
(* is published under way, not before its turn.                            *)
PublishedIsHandled ==
    \A log \in {tracking, alerts} : \A n \in DOMAIN log :
        /\ log[n][1] \in Tasks
        /\ log[n][2] <= task[log[n][1]].packet
        /\ log[n] \notin dropped

-----------------------------------------------------------------------------
(* What the documentation says *)

(* verifyServer.js: "BSTPL packet to BSTPL port (should succeed)": when a  *)
(* text port is through with a packet, the packet is published.            *)
TextIsPublished ==
    \A k \in Tasks : Protocol[SocketOf(k)] \in TextPorts /\ ~Running(k) =>
        \E n \in DOMAIN tracking : tracking[n][1] = k
=============================================================================
