----------------------------- MODULE MCTcpServer -----------------------------
(* Constants for checking TcpServer with TLC. *)
EXTENDS TcpServer, TLC

CONSTANTS a1, x1, x2, v1

MCTextPorts == {"BSTPL-17"}
MCPortCap == [p \in MCTextPorts |-> 1]

(* One Concox device, and two devices of a text port that has room for     *)
(* one.                                                                    *)
MCSockets == {a1, x1, x2}
MCProtocol == [s \in MCSockets |-> IF s = a1 THEN "CONCOX" ELSE "BSTPL-17"]
MCDevice == [s \in MCSockets |-> v1]

TextSymmetry == Permutations({x1, x2})

LoginP == [type |-> "login", fix |-> FALSE]
HeartbeatP == [type |-> "heartbeat", fix |-> FALSE]
LocationP == [type |-> "location", fix |-> TRUE]
NoFixP == [type |-> "location", fix |-> FALSE]
AlarmP == [type |-> "alarm", fix |-> TRUE]
BlindAlarmP == [type |-> "alarm", fix |-> FALSE]

MCChunks ==
    {<<LoginP>>, <<LoginP, LocationP>>, <<LocationP, AlarmP>>, <<NoFixP, HeartbeatP, BlindAlarmP>>}
=============================================================================
