----------------------------- MODULE MCProtocols -----------------------------
(***************************************************************************)
(* The two kinds of device stream, which share no state, checked in one    *)
(* run: a behaviour is one of ConcoxStream or one of TextStream.  Each     *)
(* message is written here with what it means, from the protocol and not   *)
(* from the parser.                                                        *)
(***************************************************************************)
EXTENDS ConcoxPackets, TextPackets, TLC

CONSTANTS Damage, Chunks, Limit, TextChunks, TextLimit

VARIABLES messages, damaged, wire, buffer, packets,
          sent, harmed, line, pending, results,
          which

-----------------------------------------------------------------------------
(* Login, heartbeat whose serial number is CRLF, a location with start     *)
(* marks inside, one of a device without a fix, an alarm, a voltage.       *)
Tracker ==
    [imei |-> <<8, 6, 5, 0, 0, 6, 0, 4, 9, 2, 1, 0, 2, 2, 0>>, ignition |-> TRUE,
     date |-> <<26, 7, 31, 23, 59, 0>>, lat |-> 31222648, lng |-> -141343081,
     satellites |-> 12, speed |-> 120, heading |-> 300, fix |-> TRUE, live |-> FALSE,
     mileage |-> 120500, volts |-> 1234]

Position(d) ==
    [lat |-> d.lat, lng |-> d.lng, speed |-> d.speed, direction |-> d.heading,
     satellites |-> d.satellites, ignition |-> d.ignition,
     gpsValid |-> IF d.fix THEN "A" ELSE "V", deviceTime |-> d.date, odometer |-> 121]

Login(s) ==
    [frame |-> makeConcoxLogin([Tracker EXCEPT !.imei = @] @@ [serial |-> s]),
     meaning |-> [packetType |-> "CONCOX_LOGIN", imei |-> Tracker.imei, serialNumber |-> s]]
Heartbeat(s) ==
    [frame |-> makeConcoxHeartbeat(Tracker @@ [serial |-> s]),
     meaning |-> [packetType |-> "CONCOX_HEARTBEAT", ignition |-> TRUE, battPercent |-> 80,
                  gsmStrength |-> 75, serialNumber |-> s, rawPacketType |-> 19]]
Location(d, s) ==
    [frame |-> makeConcoxLocation(d @@ [serial |-> s]),
     meaning |-> [packetType |-> "CONCOX_LOCATION", isLive |-> d.live, battery |-> 50,
                  serialNumber |-> s, rawPacketType |-> 34] @@ Position(d)]
Alarm(d, s) ==
    [frame |-> makeConcoxAlarm(d @@ [serial |-> s], 6),
     meaning |-> [packetType |-> "CONCOX_ALARM", isLive |-> TRUE, battery |-> 80,
                  alertType |-> "overspeed", serialNumber |-> s, rawPacketType |-> 38] @@ Position(d)]
Voltage(s) ==
    [frame |-> makeConcoxVoltage(Tracker @@ [serial |-> s]),
     meaning |-> [packetType |-> "CONCOX_INFO", voltage |-> 1234, serialNumber |-> s,
                  rawPacketType |-> 148]]

(* On the equator and in the east without a fix, in the south and the east.*)
AtZero == [Tracker EXCEPT !.lat = 0, !.lng = 46988594, !.fix = FALSE, !.heading = 255, !.ignition = FALSE, !.live = TRUE]
South == [Tracker EXCEPT !.lat = -31222648, !.lng = 7895160]

MCStreams ==
    { <<Login(1), Heartbeat(3338), Location(Tracker, 2), Heartbeat(3)>>,
      <<Voltage(1), Location(AtZero, 2), Alarm(South, 3), Heartbeat(4)>> }

-----------------------------------------------------------------------------
Vehicle == [imei |-> [imei |-> 1], lat |-> 10324304, lng |-> 46988594, speed |-> 50, ignition |-> 1, fuel |-> 85]
Time == <<"day", "hour">>
Both == [date |-> "day", clock |-> "hour"]

Bstpl(d, fix, live) ==
    [fields |-> [makeBstplPacket(d) EXCEPT ![3] = W(fix), ![23] = W(live)],
     meaning |->
        IF fix # "A" \/ d.lat = 0 \/ d.lng = 0 THEN TextNone
        ELSE [packetType |-> "$10", imei |-> d.imei, gpsValid |-> W("A"), lat |-> d.lat, lng |-> d.lng,
              speed |-> d.speed, odometer |-> 54000, direction |-> 180, satellites |-> 12,
              battery |-> 90, ignition |-> d.ignition = 1, fuel |-> d.fuel, voltage |-> 12,
              isLive |-> live = "L", deviceTime |-> Time]]
BstplAlert(d, text, kind) ==
    [fields |-> <<W("$11"), d.imei, Date, Clock, toBstplDdm(d.lat), Side(d.lat, "N", "S"),
                  toBstplDdm(d.lng), Side(d.lng, "E", "W"), W(text), W("#")>>,
     meaning |-> [packetType |-> "$11", imei |-> d.imei, lat |-> d.lat, lng |-> d.lng,
                  alertText |-> W(text), alertType |-> kind, deviceTime |-> Time]]

Nrm(d) ==
    [fields |-> [makeAis140NormalPacket(d) EXCEPT ![15] = W("W")],
     meaning |-> [packetType |-> "$NRM", imei |-> d.imei, gpsValid |-> W("A"), lat |-> d.lat,
                  lng |-> -d.lng, speed |-> d.speed, odometer |-> 54012, direction |-> 180,
                  satellites |-> 12, battery |-> 80, ignition |-> d.ignition = 1, ain |-> 0,
                  voltage |-> 12, isLive |-> TRUE, deviceTime |-> Time]]
Alt(d, id, kind) ==
    [fields |-> makeAis140AlertPacket(d, id),
     meaning |-> [packetType |-> "$ALT", imei |-> d.imei, lat |-> d.lat, lng |-> d.lng,
                  alertText |-> N(id), alertType |-> kind, deviceTime |-> Time]]
Epb(d) ==
    [fields |-> <<W("$EPB"), W("EMR"), d.imei, W("NM"), Both, W("A"), N(d.lat), W("N"), N(d.lng),
                  W("E"), N(500), N(45), N(100), W("BSNL"), W("reg"), N(0), W("*")>>,
     meaning |-> [packetType |-> "$EPB", imei |-> d.imei, gpsValid |-> W("A"), lat |-> d.lat,
                  lng |-> d.lng, speed |-> 45, ignition |-> TRUE, isLive |-> TRUE,
                  alertText |-> W("EMR"), alertType |-> "sos", deviceTime |-> Time]]
Lgn(d) ==
    [fields |-> makeAis140LoginPacket(d), meaning |-> [packetType |-> "$LGN", imei |-> d.imei]]
Hlm(d) ==
    [fields |-> <<W("$HLM"), W("TNOWTN"), W("1.0.0"), d.imei, N(85), N(20), W("*")>>,
     meaning |-> [packetType |-> "$HLM", imei |-> d.imei, batteryPercent |-> 85]]

(* In the west and the south, on the equator, without a fix, in the history*)
MCTextStreams ==
    { [delimiter |-> "#",
       messages |->
         <<Bstpl([Vehicle EXCEPT !.lng = -46988594], "A", "L"), Bstpl([Vehicle EXCEPT !.lat = 0], "A", "L"),
           BstplAlert([Vehicle EXCEPT !.lat = -599999], "overspeed", "overspeed"),
           Bstpl(Vehicle, "V", "L"), Bstpl([Vehicle EXCEPT !.lat = 600000, !.lng = 1], "A", "H")>>],
      [delimiter |-> "*",
       messages |-> <<Lgn(Vehicle), Nrm(Vehicle), Alt(Vehicle, 18, "geofence"), Epb(Vehicle), Hlm(Vehicle)>>] }

(* Delimiters and starts in the wrong place, an empty field, a number. *)
MCTextDamage == {W("#"), W("*"), W("$"), W("$10"), W(""), N(9)}

-----------------------------------------------------------------------------
C == INSTANCE ConcoxStream WITH Streams <- MCStreams
T == INSTANCE TextStream WITH TextStreams <- MCTextStreams, TextDamage <- MCTextDamage

ASSUME ProtocolsAssumption == C!StreamAssumption

Init ==
    \/ /\ which = "concox" /\ C!Init
       /\ sent = [delimiter |-> "#", messages |-> <<>>]
       /\ harmed = 0 /\ line = <<>> /\ pending = <<>> /\ results = <<>>
    \/ /\ which = "text" /\ T!TextInit
       /\ damaged = 0 /\ messages = <<>> /\ wire = <<>> /\ buffer = <<>> /\ packets = <<>>

Next ==
    \/ which = "concox" /\ C!Data /\ UNCHANGED <<which, sent, harmed, line, pending, results>>
    \/ which = "text" /\ T!TextData /\ UNCHANGED <<which, messages, damaged, wire, buffer, packets>>

vars == <<which, messages, damaged, wire, buffer, packets, sent, harmed, line, pending, results>>
Spec == Init /\ [][Next]_vars

(* Both buffers keep within their bounds and hold what is not complete.    *)
TypeOK == C!TypeOK /\ T!TextTypeOK

(* parseConcoxBuffer: the frames of a Concox device arrive once, in order  *)
(* and with their meaning, but for a damaged one and the next.             *)
IntactFramesArrive == C!IntactFramesArrive

(* The text parsers: a packet is taken for what it means, whatever is      *)
(* damaged next to it.                                                     *)
OthersUnharmed == T!OthersUnharmed
=============================================================================
