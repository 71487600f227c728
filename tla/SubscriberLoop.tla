--------------------------- MODULE SubscriberLoop ---------------------------
(***************************************************************************)
(* What the two subscribers of the API process have in common              *)
(* (backend/subscribers/): their processBatch handles one entry after      *)
(* another, each in a try block of its own.  An entry whose handling       *)
(* throws is left out of the result and the batch goes on with the next.   *)
(* The steps of an entry are the code between two awaits; at names the one *)
(* that comes next.                                                        *)
(***************************************************************************)
EXTENDS ConsumerLoop

CONSTANT Steps  \* the steps an entry goes through, "resolve" among them

ASSUME StepsAssumption == "resolve" \in Steps

VARIABLE at

readerVars == <<streamVars, loopVars, at>>

ReaderTypeOK ==
    /\ StreamTypeOK
    /\ pc \in {"down", "starting", "batch", "idle", "ended"}
    /\ mode \in {"recovering", "reading", "stopped"}
    /\ batch \subseteq Ids
    /\ acked \subseteq Ids
    /\ at \in Steps

ReaderInit ==
    /\ LoopInit
    /\ at = "resolve"

-----------------------------------------------------------------------------
(* The loop around processBatch *)
LoopStep ==
    /\ Ensure \/ Recover \/ Poll \/ Return \/ EndLoop
    /\ UNCHANGED at

(* The loop loses a reply of Redis. *)
ReplyLost ==
    /\ PollLost
    /\ UNCHANGED at

(* SIGINT or SIGTERM: the loop is told to stop.  The process ends whenever *)
(* shutdown() has closed the rest, which is ProcessDies.                   *)
Signal ==
    /\ "crash" \in Faults
    /\ pc # "down"
    /\ mode = "reading"
    /\ StopLoop
    /\ UNCHANGED <<streamVars, at>>

ProcessDies ==
    /\ "crash" \in Faults
    /\ pc # "down"
    /\ LoopDies
    /\ at' = "resolve"
    /\ UNCHANGED streamVars

-----------------------------------------------------------------------------
(* One entry *)

(* The step here is over and the entry goes on to the next. *)
Advance(i, here, next) ==
    /\ AtEntry(i)
    /\ at = here
    /\ at' = next
    /\ UNCHANGED <<streamVars, loopVars>>

(* acked.push(entry.id) *)
Handled(i, here) ==
    /\ AtEntry(i)
    /\ at = here
    /\ acked' = acked \cup {i}
    /\ batch' = batch \ {i}
    /\ at' = "resolve"
    /\ UNCHANGED <<streamVars, pc, mode>>

(* Mutant: the catch block pushes the ID as well. *)
FailedAcked(i, here) ==
    /\ AtEntry(i)
    /\ at = here
    /\ acked' = acked \cup {i}
    /\ batch' = batch \ {i}
    /\ at' = "resolve"
    /\ UNCHANGED <<streamVars, pc, mode>>

(* The catch block: "Do NOT ACK". *)
Failed(i, here) ==
    /\ AtEntry(i)
    /\ at = here
    /\ batch' = batch \ {i}
    /\ at' = "resolve"
    /\ UNCHANGED <<streamVars, pc, mode, acked>>

-----------------------------------------------------------------------------
(* The entries in the subscriber's hands are pending under its name, and   *)
(* none is both still to be handled and about to be acknowledged.          *)
LoopHolds ==
    /\ batch \cup acked \subseteq owned
    /\ batch \cap acked = {}
    /\ pc \in {"down", "starting", "idle", "ended"} => batch = {} /\ acked = {}
    /\ batch = {} => at = "resolve"
=============================================================================
