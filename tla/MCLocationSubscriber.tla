------------------------ MODULE MCLocationSubscriber ------------------------
(* Constants for checking LocationSubscriber with TLC. *)
EXTENDS LocationSubscriber, TLC

CONSTANTS v1, u1

MCSteps == {"resolve", "previous", "point", "state", "check", "fence", "publish"}

Live(v, ignition, moving, inside) ==
    [imei |-> v, live |-> TRUE, ignition |-> ignition, moving |-> moving, inside |-> inside]

(* A vehicle that idles outside its geofence and is parked in it, a report *)
(* from a device's memory, and a device nobody registered.                 *)
MixedReports ==
    {Live(v1, TRUE, FALSE, FALSE), Live(v1, FALSE, FALSE, TRUE),
     [Live(v1, TRUE, TRUE, FALSE) EXCEPT !.live = FALSE], Live(u1, TRUE, TRUE, FALSE)}
=============================================================================
