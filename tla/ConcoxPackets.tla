--------------------------- MODULE ConcoxPackets ---------------------------
(***************************************************************************)
(* The packets of the Concox protocol: what the device puts into a frame   *)
(* (the encoder of deviceSimulator.js) and what concoxParser.js takes out  *)
(* of it.  Bytes are numbers; positions are counted from 1.  Coordinates   *)
(* are in 1/1800000 of a degree, the unit of the wire, which toFixed(7)    *)
(* keeps apart; mileage is in metres on the wire and in kilometres after.  *)
(* Cell tower data and the wording of alarms are left out of the records.  *)
(***************************************************************************)
EXTENDS Integers, Sequences

CONSTANTS
    None,   \* null
    Now     \* the time at which a packet with an unusable date is parsed

Byte == 0..255
High(w) == (w \div 256) % 256
Low(w) == w % 256
Bit(b, n) == (b \div 2^n) % 2 = 1
IfBit(flag, n) == IF flag THEN 2^n ELSE 0
Word(bytes, i) == 256 * bytes[i] + bytes[i + 1]
Long(bytes, i) == 65536 * Word(bytes, i) + Word(bytes, i + 2)
LongBytes(v) == <<v \div 16777216, (v \div 65536) % 256, High(v), Low(v)>>
Abs(v) == IF v < 0 THEN -v ELSE v
Round(v, d) == (v + d \div 2) \div d

Cut(s, n) == SubSeq(s, 1, n)
Rest(s, n) == SubSeq(s, n, Len(s))

-----------------------------------------------------------------------------
(* The checksum of the frames, CRC-16/X-25 (concoxCrc.js): the table of the*)
(* code, and the bit by bit definition it is meant to be.                  *)

Nibble == 0..15

(* Exclusive or, of nibbles and of words. *)
NibbleXor ==
    LET bit(a, n) == (a \div 2^n) % 2
        differ(a, b, n) == IF bit(a, n) = bit(b, n) THEN 0 ELSE 2^n
    IN  [a \in Nibble, b \in Nibble |->
            differ(a, b, 0) + differ(a, b, 1) + differ(a, b, 2) + differ(a, b, 3)]

Xor(v, w) ==
    LET part(n) == 16^n * NibbleXor[(v \div 16^n) % 16, (w \div 16^n) % 16]
    IN  part(0) + part(1) + part(2) + part(3)

CRC_TABLE == <<
    \h0000, \h1189, \h2312, \h329B, \h4624, \h57AD, \h6536, \h74BF,
    \h8C48, \h9DC1, \hAF5A, \hBED3, \hCA6C, \hDBE5, \hE97E, \hF8F7,
    \h1081, \h0108, \h3393, \h221A, \h56A5, \h472C, \h75B7, \h643E,
    \h9CC9, \h8D40, \hBFDB, \hAE52, \hDAED, \hCB64, \hF9FF, \hE876,
    \h2102, \h308B, \h0210, \h1399, \h6726, \h76AF, \h4434, \h55BD,
    \hAD4A, \hBCC3, \h8E58, \h9FD1, \hEB6E, \hFAE7, \hC87C, \hD9F5,
    \h3183, \h200A, \h1291, \h0318, \h77A7, \h662E, \h54B5, \h453C,
    \hBDCB, \hAC42, \h9ED9, \h8F50, \hFBEF, \hEA66, \hD8FD, \hC974,
    \h4204, \h538D, \h6116, \h709F, \h0420, \h15A9, \h2732, \h36BB,
    \hCE4C, \hDFC5, \hED5E, \hFCD7, \h8868, \h99E1, \hAB7A, \hBAF3,
    \h5285, \h430C, \h7197, \h601E, \h14A1, \h0528, \h37B3, \h263A,
    \hDECD, \hCF44, \hFDDF, \hEC56, \h98E9, \h8960, \hBBFB, \hAA72,
    \h6306, \h728F, \h4014, \h519D, \h2522, \h34AB, \h0630, \h17B9,
    \hEF4E, \hFEC7, \hCC5C, \hDDD5, \hA96A, \hB8E3, \h8A78, \h9BF1,
    \h7387, \h620E, \h5095, \h411C, \h35A3, \h242A, \h16B1, \h0738,
    \hFFCF, \hEE46, \hDCDD, \hCD54, \hB9EB, \hA862, \h9AF9, \h8B70,
    \h8408, \h9581, \hA71A, \hB693, \hC22C, \hD3A5, \hE13E, \hF0B7,
    \h0840, \h19C9, \h2B52, \h3ADB, \h4E64, \h5FED, \h6D76, \h7CFF,
    \h9489, \h8500, \hB79B, \hA612, \hD2AD, \hC324, \hF1BF, \hE036,
    \h18C1, \h0948, \h3BD3, \h2A5A, \h5EE5, \h4F6C, \h7DF7, \h6C7E,
    \hA50A, \hB483, \h8618, \h9791, \hE32E, \hF2A7, \hC03C, \hD1B5,
    \h2942, \h38CB, \h0A50, \h1BD9, \h6F66, \h7EEF, \h4C74, \h5DFD,
    \hB58B, \hA402, \h9699, \h8710, \hF3AF, \hE226, \hD0BD, \hC134,
    \h39C3, \h284A, \h1AD1, \h0B58, \h7FE7, \h6E6E, \h5CF5, \h4D7C,
    \hC60C, \hD785, \hE51E, \hF497, \h8028, \h91A1, \hA33A, \hB2B3,
    \h4A44, \h5BCD, \h6956, \h78DF, \h0C60, \h1DE9, \h2F72, \h3EFB,
    \hD68D, \hC704, \hF59F, \hE416, \h90A9, \h8120, \hB3BB, \hA232,
    \h5AC5, \h4B4C, \h79D7, \h685E, \h1CE1, \h0D68, \h3FF3, \h2E7A,
    \hE70E, \hF687, \hC41C, \hD595, \hA12A, \hB0A3, \h8238, \h93B1,
    \h6B46, \h7ACF, \h4854, \h59DD, \h2D62, \h3CEB, \h0E70, \h1FF9,
    \hF78F, \hE606, \hD49D, \hC514, \hB1AB, \hA022, \h92B9, \h8330,
    \h7BC7, \h6A4E, \h58D5, \h495C, \h3DE3, \h2C6A, \h1EF1, \h0F78>>

(* crc >> 8 and crc & 0xFF are the high and the low byte of crc. *)
crcItu(bytes) ==
    LET crc[n \in 0..Len(bytes)] ==
            IF n = 0 THEN \hFFFF
            ELSE LET c == crc[n - 1]
                 IN  Xor(c \div 256, CRC_TABLE[Xor(c % 256, bytes[n]) + 1])
    IN  Xor(crc[Len(bytes)], \hFFFF)

-----------------------------------------------------------------------------
(* The reference: the polynomial 0x1021, reflected, one bit at a time. *)
Shifted(w) == IF w % 2 = 1 THEN Xor(w \div 2, \h8408) ELSE w \div 2

BitwiseEntry(b) ==
    LET after[n \in 0..8] == IF n = 0 THEN b ELSE Shifted(after[n - 1])
    IN  after[8]

IsX25Table(table) == \A b \in 0..255 : table[b + 1] = BitwiseEntry(b)

-----------------------------------------------------------------------------
(* The device *)

Frame(start, length, body, serial) ==
    LET covered == length \o body \o <<High(serial), Low(serial)>>
        crc == crcItu(covered)
    IN  start \o covered \o <<High(crc), Low(crc), 13, 10>>

buildConcoxFrame(protocol, info, serial) ==
    Frame(<<120, 120>>, <<Len(info) + 5>>, <<protocol>> \o info, serial)

(* The extended frame counts neither the serial number nor the checksum. *)
buildExtendedFrame(protocol, info, serial) ==
    Frame(<<121, 121>>, <<High(Len(info) + 1), Low(Len(info) + 1)>>, <<protocol>> \o info, serial)

(* An IMEI is a sequence of 15 digits, packed with a leading zero. *)
packImei(imei) ==
    LET padded == <<0>> \o imei
    IN  [n \in 1..8 |-> 16 * padded[2 * n - 1] + padded[2 * n]]

makeConcoxLogin(d) == buildConcoxFrame(1, packImei(d.imei) \o <<0, 5, 0, 0>>, d.serial)

makeConcoxHeartbeat(d) ==
    buildConcoxFrame(19, <<IF d.ignition THEN 10 ELSE 2, 5, 3, 0, 0>>, d.serial)

(* Satellites, position, speed, and the word that holds the fix, the       *)
(* hemispheres and the heading.                                            *)
GpsBlock(d) ==
    LET status == IfBit(d.fix, 6) + IfBit(d.lng < 0, 5) + IfBit(d.lat >= 0, 4)
    IN  <<192 + d.satellites>> \o LongBytes(Abs(d.lat)) \o LongBytes(Abs(d.lng))
            \o <<IF d.speed > 255 THEN 255 ELSE d.speed,
                 status + d.heading \div 256, Low(d.heading)>>

Cell == <<1, 148, 98, 170, 170, 187, 187, 187>>

makeConcoxLocation(d) ==
    buildConcoxFrame(34,
        d.date \o GpsBlock(d) \o Cell
            \o <<IF d.ignition THEN 1 ELSE 0, 0, IF d.live THEN 0 ELSE 1>>
            \o LongBytes(d.mileage),
        d.serial)

makeConcoxAlarm(d, alarmCode) ==
    buildConcoxFrame(38,
        d.date \o GpsBlock(d) \o <<8>> \o Cell
            \o <<IfBit(d.ignition, 3), 5, 3, alarmCode, 0>> \o LongBytes(d.mileage),
        d.serial)

(* External voltage, in hundredths of a volt. *)
makeConcoxVoltage(d) == buildExtendedFrame(148, <<0, High(d.volts), Low(d.volts)>>, d.serial)

-----------------------------------------------------------------------------
(* The parser.  A throw and an unknown protocol both give None. *)

CONCOX_ALARM_MAP ==
    [c \in Byte |->
        CASE c = 0 -> "normal"
          [] c = 1 -> "sos"
          [] c = 2 -> "power_cut"
          [] c = 3 -> "shock"
          [] c \in {4, 5, 10, 11, 20} -> "geofence"
          [] c = 6 -> "overspeed"
          [] c = 9 -> "tow"
          [] c \in {14, 15} -> "battery"
          [] c = 16 -> "box_open"
          [] c \in 21..23 -> "harsh_driving"
          [] c = 254 -> "ignition_on"
          [] c = 255 -> "ignition_off"
          [] OTHER -> "general"]

LevelIn(table, level) == IF level < Len(table) THEN table[level + 1] ELSE 50
BATTERY_LEVEL_MAP == <<0, 10, 25, 40, 60, 80, 100>>
GSM_SIGNAL_MAP == <<0, 25, 50, 75, 100>>

(* The digits of the IMEI, without a leading zero. *)
decodeImei(bytes) ==
    LET digits == [n \in 1..16 |-> IF n % 2 = 1 THEN bytes[(n + 1) \div 2] \div 16 ELSE bytes[n \div 2] % 16]
    IN  IF digits[1] = 0 THEN Tail(digits) ELSE digits

(* A date is its six bytes; JavaScript takes the 31st of any month.  A day  *)
(* may have the hour 24 only as its end.                                   *)
parseDateTime(info) ==
    IF /\ info[2] \in 1..12 /\ info[3] \in 1..31
       /\ info[5] < 60 /\ info[6] < 60
       /\ info[4] < 24 \/ (info[4] = 24 /\ info[5] = 0 /\ info[6] = 0)
    THEN Cut(info, 6) ELSE Now

(* Mutant: the bit of the west is taken for the south, and the other way.  *)
GpsBlockCrossed(info) ==
    LET signed(v, negative) == IF negative THEN -v ELSE v
        high == info[17]
    IN  [satellites |-> info[7] % 16,
         lat |-> signed(Long(info, 8), ~Bit(high, 5)),
         lng |-> signed(Long(info, 12), Bit(high, 4)),
         speed |-> info[16],
         heading |-> 256 * (high % 4) + info[18],
         gpsValid |-> Bit(high, 6)]

parseGpsBlock(info) ==
    LET signed(v, negative) == IF negative THEN -v ELSE v
        high == info[17]
    IN  [satellites |-> info[7] % 16,
         lat |-> signed(Long(info, 8), ~Bit(high, 4)),
         lng |-> signed(Long(info, 12), Bit(high, 5)),
         speed |-> info[16],
         heading |-> 256 * (high % 4) + info[18],
         gpsValid |-> Bit(high, 6)]

(* Clones that never set the fix bit are believed when both coordinates are*)
(* there.                                                                  *)
FinalGpsValid(gps) == IF gps.gpsValid \/ (gps.lat # 0 /\ gps.lng # 0) THEN "A" ELSE "V"

parseLogin(info, serial) ==
    IF Len(info) < 12 \/ (\E n \in DOMAIN decodeImei(info) : decodeImei(info)[n] > 9) THEN None
    ELSE [packetType |-> "CONCOX_LOGIN", imei |-> decodeImei(info), serialNumber |-> serial]

(* A heartbeat of type 0x23 has no battery byte. *)
parseHeartbeat(info, serial, protocol) ==
    LET gsm == IF protocol = 35 THEN 2 ELSE 3
    IN  IF Len(info) < gsm + 2 THEN None
        ELSE [packetType |-> "CONCOX_HEARTBEAT", ignition |-> Bit(info[1], 3),
              battPercent |-> IF protocol = 35 THEN 50 ELSE LevelIn(BATTERY_LEVEL_MAP, info[2]),
              gsmStrength |-> LevelIn(GSM_SIGNAL_MAP, info[gsm]),
              serialNumber |-> serial, rawPacketType |-> protocol]

parseLocation(info, serial, protocol) ==
    LET gps == parseGpsBlock(info)
    IN  IF Len(info) < 29 THEN None
        ELSE [packetType |-> "CONCOX_LOCATION", deviceTime |-> parseDateTime(info),
              lat |-> gps.lat, lng |-> gps.lng, speed |-> gps.speed, direction |-> gps.heading,
              satellites |-> gps.satellites, gpsValid |-> FinalGpsValid(gps),
              ignition |-> info[27] = 1, isLive |-> info[29] # 1,
              odometer |-> IF Len(info) >= 33 THEN Round(Long(info, 30), 1000) ELSE None,
              battery |-> 50, serialNumber |-> serial, rawPacketType |-> protocol]

(* A shorter alarm throws when its missing code is put into words.         *)
parseAlarm(info, serial, multi, protocol) ==
    LET gps == parseGpsBlock(info)
    IN  IF Len(info) < 31 THEN None
        ELSE [packetType |-> IF multi THEN "CONCOX_ALARM_MULTI" ELSE "CONCOX_ALARM",
              deviceTime |-> parseDateTime(info),
              lat |-> gps.lat, lng |-> gps.lng, speed |-> gps.speed, direction |-> gps.heading,
              satellites |-> gps.satellites, gpsValid |-> FinalGpsValid(gps),
              ignition |-> Bit(info[28], 3), isLive |-> TRUE,
              odometer |-> IF multi THEN (IF Len(info) > 33 THEN info[34] ELSE None)
                           ELSE IF Len(info) >= 36 THEN Round(Long(info, 33), 1000) ELSE None,
              battery |-> LevelIn(BATTERY_LEVEL_MAP, info[29]),
              alertType |-> CONCOX_ALARM_MAP[info[31]],
              serialNumber |-> serial, rawPacketType |-> protocol]

(* The blocks from the first on; one of an unknown type, or cut short, ends*)
(* them.  The fuel sensor takes all that is left.                          *)
parseInfoTransmission(info, serial) ==
    LET volts[p \in 1..Len(info) + 1] ==
            IF p > Len(info) THEN None
            ELSE CASE info[p] = 0 /\ p + 2 <= Len(info) -> Word(info, p + 1)
                   [] info[p] = 10 /\ p + 10 <= Len(info) -> volts[p + 11]
                   [] OTHER -> None
    IN  [packetType |-> "CONCOX_INFO", voltage |-> volts[1], serialNumber |-> serial,
         rawPacketType |-> 148]

Dispatch(protocol, info, serial) ==
    CASE protocol = 1 -> parseLogin(info, serial)
      [] protocol \in {19, 35} -> parseHeartbeat(info, serial, protocol)
      [] protocol \in {18, 34} -> parseLocation(info, serial, protocol)
      [] protocol \in {22, 38} -> parseAlarm(info, serial, FALSE, protocol)
      [] protocol = 39 -> parseAlarm(info, serial, TRUE, protocol)
      [] protocol = 148 -> parseInfoTransmission(info, serial)
      [] protocol \in {33, 128, 138} ->
            [packetType |-> CASE protocol = 138 -> "CONCOX_TIME_CHECK"
                              [] protocol = 33 -> "CONCOX_COMMAND_RESPONSE"
                              [] protocol = 128 -> "CONCOX_ONLINE_COMMAND",
             serialNumber |-> serial, rawPacketType |-> protocol]
      [] OTHER -> None

-----------------------------------------------------------------------------
(* The answers: login, heartbeat, alarm. *)
Ack(protocol, serial) == buildConcoxFrame(protocol, <<>>, serial)
=============================================================================
