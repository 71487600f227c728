----------------------------- MODULE TextPackets -----------------------------
(***************************************************************************)
(* The packets of the text protocols BSTPL-17 and AIS140: what a device    *)
(* writes (deviceSimulator.js), and what the parsers and the validators of *)
(* the server make of it.                                                  *)
(*                                                                         *)
(* A packet is a sequence of fields, each a word, a number, an IMEI, a date*)
(* or a clock time; its delimiter is a word of its own.  Coordinates count *)
(* the smallest step of the protocol, 1/10000 of a minute or 1/1000000 of a*)
(* degree.                                                                 *)
(***************************************************************************)
EXTENDS Integers, Sequences

CONSTANTS
    TextNone,     \* null
    TextNow       \* the time of parsing

W(s) == [word |-> s]
N(v) == [num |-> v]
IsNumber(f) == "num" \in DOMAIN f

(* parseInt and parseFloat with `|| 0`. *)
NumberOf(f) == IF IsNumber(f) THEN f.num ELSE 0

-----------------------------------------------------------------------------
(* The devices (deviceSimulator): a device has an identity, a position,    *)
(* speed and ignition.                                                     *)

Side(v, positive, negative) == IF v >= 0 THEN W(positive) ELSE W(negative)
Magnitude(v) == IF v < 0 THEN -v ELSE v
Date == [date |-> "day"]
Clock == [clock |-> "hour"]

toBstplDdm(v) == N((Magnitude(v) \div 600000) * 1000000 + (Magnitude(v) % 600000))

makeBstplPacket(d) ==
    <<W("$10"), d.imei, W("A"), Date, Clock, toBstplDdm(d.lat), Side(d.lat, "N", "S"),
      toBstplDdm(d.lng), Side(d.lng, "E", "W"), N(d.speed), N(54000), N(180), N(12), N(31), N(90),
      N(d.ignition), N(0), N(0), N(0), N(0), N(d.fuel), N(12), W("L"), W("#")>>

makeAis140LoginPacket(d) ==
    <<W("$LGN"), W("reg"), d.imei, W("1.0.0"), N(d.lat), W("N"), N(d.lng), W("E"), W("*")>>

(* What normal and alert packets share after their first fields. *)
AisBody(d, odometer) ==
    <<W("L"), d.imei, W("reg"), N(1), Date, Clock, N(d.lat), W("N"), N(d.lng), W("E"), N(d.speed),
      N(180), N(12), N(500), N(1), N(1), W("Airtel"), N(d.ignition), N(1), N(12), N(4), N(0), W("C"),
      N(31), N(404), N(98), W("AAAA"), W("BBBB"), N(0), N(0), N(0), N(0), N(1), odometer, W("SIM"),
      W("sum"), W("*")>>

makeAis140NormalPacket(d) == <<W("$NRM"), W("TNOWTN"), W("1.0.0"), W("NR"), N(1)>> \o AisBody(d, N(54012))

makeAis140AlertPacket(d, id) ==
    <<W("$ALT"), W("TNOWTN"), W("1.0.0"), W("EA"), N(id)>> \o AisBody([d EXCEPT !.speed = 0], N(0))

-----------------------------------------------------------------------------
(* Conversions *)

Headers == {"$10", "$11", "$NRM", "$ALT", "$EPB", "$LGN", "$HLM"}
Dollars == Headers \cup {"$"}
Signed(v, direction) == IF direction \in {W("S"), W("W")} THEN -v ELSE v

(* Mutant: the minutes are taken for decimals. *)
DdmAsDecimal(f, direction) ==
    IF NumberOf(f) = 0 THEN TextNone ELSE Signed(f.num, direction)

(* Degrees and minutes in one number; 0 is taken for a missing value. *)
ddmToDecimal(f, direction) ==
    IF NumberOf(f) = 0 THEN TextNone
    ELSE Signed((f.num \div 1000000) * 600000 + (f.num % 1000000), direction)

convertCoords(f, direction) ==
    IF NumberOf(f) = 0 THEN TextNone ELSE Signed(f.num, direction)

TimeOf(date, clock, otherwise) ==
    IF "date" \in DOMAIN date /\ "clock" \in DOMAIN clock
    THEN <<date.date, clock.clock>> ELSE otherwise

-----------------------------------------------------------------------------
(* The parsers.  A throw gives TextNone.  Positions count from 1, where    *)
(* those of the code count from 0.                                         *)

parseNormalPacket(p) ==
    IF Len(p) < 22 THEN TextNone
    ELSE [packetType |-> "$10", imei |-> p[2], gpsValid |-> p[3],
          lat |-> ddmToDecimal(p[6], p[7]), lng |-> ddmToDecimal(p[8], p[9]),
          speed |-> NumberOf(p[10]), odometer |-> NumberOf(p[11]),
          direction |-> NumberOf(p[12]), satellites |-> NumberOf(p[13]),
          battery |-> NumberOf(p[15]), ignition |-> p[16] = N(1),
          fuel |-> NumberOf(p[21]), voltage |-> NumberOf(p[22]),
          isLive |-> Len(p) < 23 \/ p[23] = W("L"),
          deviceTime |-> TimeOf(p[4], p[5], TextNone)]

categorizeAlert(text) ==
    LET kinds == <<"ignition_on", "ignition_off", "battery", "box_open", "box_close", "sos",
                   "overspeed", "geofence", "tow", "harsh_driving">>
    IN  IF \E n \in DOMAIN kinds : text = W(kinds[n]) THEN text.word ELSE "general"

parseAlertPacket(p) ==
    IF Len(p) < 9 THEN TextNone
    ELSE [packetType |-> "$11", imei |-> p[2],
          lat |-> ddmToDecimal(p[5], p[6]), lng |-> ddmToDecimal(p[7], p[8]),
          alertText |-> p[9], alertType |-> categorizeAlert(p[9]),
          deviceTime |-> TimeOf(p[3], p[4], TextNow)]

(* Odometer and analog input are counted from the end. *)
parseAis140NormalPacket(p) ==
    IF Len(p) < 32 THEN TextNone
    ELSE [packetType |-> "$NRM", imei |-> p[7],
          gpsValid |-> IF p[9] = N(1) THEN W("A") ELSE W("V"),
          lat |-> convertCoords(p[12], p[13]), lng |-> convertCoords(p[14], p[15]),
          speed |-> NumberOf(p[16]), odometer |-> NumberOf(p[Len(p) - 2]),
          direction |-> NumberOf(p[17]), satellites |-> NumberOf(p[18]),
          battery |-> IF NumberOf(p[26]) = 0 THEN 100 ELSE 20 * p[26].num,
          ignition |-> p[23] = N(1), ain |-> NumberOf(p[Len(p) - 5]),
          voltage |-> NumberOf(p[25]), isLive |-> p[6] = W("L"),
          deviceTime |-> TimeOf(p[10], p[11], TextNow)]

ALERT_MAP ==
    [sos |-> {10, 11, 16}, battery |-> 3..6, ignition_on |-> {7}, ignition_off |-> {8},
     box_open |-> {9}, harsh_driving |-> 13..15, overspeed |-> {17}, geofence |-> {18, 19}]

AlertKind(id) ==
    LET known == {k \in DOMAIN ALERT_MAP : IsNumber(id) /\ id.num \in ALERT_MAP[k]}
    IN  IF known = {} THEN "general" ELSE CHOOSE k \in known : TRUE

parseAis140AlertPacket(p) ==
    IF Len(p) < 32 THEN TextNone
    ELSE [packetType |-> "$ALT", imei |-> p[7],
          lat |-> convertCoords(p[12], p[13]), lng |-> convertCoords(p[14], p[15]),
          alertText |-> p[5], alertType |-> AlertKind(p[5]),
          deviceTime |-> TimeOf(p[10], p[11], TextNow)]

(* Date and clock time are one field here. *)
parseAis140EmergencyPacket(p) ==
    IF Len(p) < 14 THEN TextNone
    ELSE [packetType |-> "$EPB", imei |-> p[3], gpsValid |-> p[6],
          lat |-> convertCoords(p[7], p[8]), lng |-> convertCoords(p[9], p[10]),
          speed |-> NumberOf(p[12]), ignition |-> TRUE, isLive |-> p[4] = W("NM"),
          alertText |-> p[2], alertType |-> "sos",
          deviceTime |-> TimeOf(p[5], p[5], TextNow)]

parseAis140LoginPacket(p) ==
    [packetType |-> "$LGN", imei |-> IF Len(p) > 2 THEN p[3] ELSE W("unknown")]

parseAis140HealthPacket(p) ==
    [packetType |-> "$HLM", imei |-> IF Len(p) > 3 THEN p[4] ELSE W("unknown"),
     batteryPercent |-> IF Len(p) > 4 THEN NumberOf(p[5]) ELSE 100]

parsePacket(p) ==
    CASE p[1].word = "$10" -> parseNormalPacket(p)
      [] p[1].word = "$11" -> parseAlertPacket(p)
      [] p[1].word = "$NRM" -> parseAis140NormalPacket(p)
      [] p[1].word = "$ALT" -> parseAis140AlertPacket(p)
      [] p[1].word = "$EPB" -> parseAis140EmergencyPacket(p)
      [] p[1].word = "$LGN" -> parseAis140LoginPacket(p)
      [] p[1].word = "$HLM" -> parseAis140HealthPacket(p)
      [] OTHER -> TextNone

-----------------------------------------------------------------------------
(* The validators, with the degree of the packet's protocol *)

ImeiValid(k) == "imei" \in DOMAIN k.imei
Degree(k) == IF k.packetType \in {"$10", "$11"} THEN 600000 ELSE 1000000
OnTheGlobe(k) ==
    /\ k.lat # TextNone /\ k.lng # TextNone
    /\ k.lat \in -(90 * Degree(k))..(90 * Degree(k))
    /\ k.lng \in -(180 * Degree(k))..(180 * Degree(k))

validateNormalPacket(k) ==
    /\ k.gpsValid = W("A")
    /\ ImeiValid(k)
    /\ OnTheGlobe(k)
    /\ k.deviceTime # TextNone

validateAlertPacket(k) == ImeiValid(k) /\ k.alertText # W("")

validateAis140EmergencyPacket(k) == ImeiValid(k) /\ OnTheGlobe(k) /\ k.alertText # W("")

Valid(k) ==
    CASE k.packetType \in {"$10", "$NRM"} -> validateNormalPacket(k)
      [] k.packetType \in {"$11", "$ALT"} -> validateAlertPacket(k)
      [] k.packetType = "$EPB" -> validateAis140EmergencyPacket(k)
      [] OTHER -> TRUE
=============================================================================
