---------------------------- MODULE ConsumerLoop ----------------------------
(***************************************************************************)
(* runConsumerLoop of backend/streams/redisStreams.js, which the writer    *)
(* process and the two subscribers of the API process share.  One action   *)
(* is the code between two awaits.  What happens to an entry of the batch  *)
(* is up to the module that extends this one; it leaves the IDs it wants   *)
(* acknowledged in acked.                                                  *)
(***************************************************************************)
EXTENDS StreamGroup

CONSTANT Faults  \* which faults the environment may inject

VARIABLES
    pc,     \* where the loop is; "batch" is inside onBatch
    mode,   \* before, in or after the loop that reads new entries
    batch,  \* entries of the current onBatch call still to be handled
    acked   \* the IDs that onBatch is going to return

loopVars == <<pc, mode, batch, acked>>

LoopInit ==
    /\ StreamInit
    /\ pc = "down"
    /\ mode = "recovering"
    /\ batch = {}
    /\ acked = {}

-----------------------------------------------------------------------------
Ensure ==
    /\ pc = "down"
    /\ EnsureGroup
    /\ pc' = "starting"
    /\ UNCHANGED <<mode, batch, acked>>

(* Mutant: the loop starts with new entries. *)
RecoverNothing ==
    /\ pc = "starting"
    /\ pc' = "idle"
    /\ mode' = "reading"
    /\ UNCHANGED <<streamVars, batch, acked>>

(* readPending, once per life; when a Redis call of it fails, or nothing   *)
(* is pending under this name, the loop just goes on to new entries.       *)
Recover ==
    /\ pc = "starting"
    /\ \/ /\ PendingEntries # {}
          /\ batch' = PendingEntries
          /\ pc' = "batch"
          /\ UNCHANGED mode
       \/ /\ PendingEntries = {} \/ "redis" \in Faults
          /\ pc' = "idle"
          /\ mode' = "reading"
          /\ UNCHANGED batch
    /\ UNCHANGED <<streamVars, acked>>

(* readNew.  pc = "idle" is the blocked XREADGROUP: entries that arrive    *)
(* after a signal are still delivered to it.                               *)
Poll ==
    /\ pc = "idle"
    /\ NewEntries # {}
    /\ Deliver(NewEntries)
    /\ batch' = NewEntries
    /\ pc' = "batch"
    /\ UNCHANGED <<mode, acked>>

(* The group delivered the entries but the reply did not arrive. *)
PollLost ==
    /\ "redis" \in Faults
    /\ pc = "idle"
    /\ NewEntries # {}
    /\ Deliver(NewEntries)
    /\ UNCHANGED loopVars

(* The entry onBatch is at: entries are handled in ID order. *)
AtEntry(i) ==
    /\ pc = "batch"
    /\ i \in batch
    /\ \A j \in batch : i <= j

(* Where the loop goes after an onBatch call, whether it returned or threw. *)
NextRead ==
    /\ pc' = IF mode = "stopped" THEN "ended" ELSE "idle"
    /\ mode' = IF mode = "recovering" THEN "reading" ELSE mode
    /\ batch' = {}
    /\ acked' = {}

(* onBatch returns and the loop XACKs what it returned.  The call fails    *)
(* when Redis does, and always once stop() has closed the connection; the  *)
(* IDs are then forgotten.                                                 *)
Return ==
    /\ pc = "batch"
    /\ batch = {}
    /\ \/ /\ mode # "stopped" \/ acked = {}
          /\ XAck(acked)
       \/ /\ mode = "stopped" \/ "xack" \in Faults
          /\ UNCHANGED streamVars
    /\ NextRead

(* stop(), which the loop installs for SIGINT and SIGTERM when it starts   *)
(* to read new entries: the loop ends after the current batch.             *)
StopLoop ==
    /\ mode' = IF mode = "reading" THEN "stopped" ELSE mode
    /\ UNCHANGED <<pc, batch, acked>>

(* After stop() the blocked read times out and the loop ends. *)
EndLoop ==
    /\ pc = "idle"
    /\ mode = "stopped"
    /\ pc' = "ended"
    /\ UNCHANGED <<streamVars, mode, batch, acked>>

(* The process is gone, and with it everything the loop held. *)
LoopDies ==
    /\ pc' = "down"
    /\ mode' = "recovering"
    /\ batch' = {}
    /\ acked' = {}
=============================================================================
