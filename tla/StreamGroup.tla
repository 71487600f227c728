---------------------------- MODULE StreamGroup ----------------------------
(***************************************************************************)
(* A Redis stream, one consumer group on it and the consumer that reads    *)
(* it, as backend/streams/redisStreams.js and tcp-server/publisher.js use  *)
(* them.  The stream is kept whole, as a log: entry i is stream[i], and    *)
(* what MAXLEN has cut off is the prefix 1..trimmed.  An entry's ID is its *)
(* position.                                                               *)
(*                                                                         *)
(* The consumer process has one life after another.  Its consumer name is  *)
(* HOSTNAME or CONSUMER_NAME when one is set (StableName = TRUE), and      *)
(* otherwise holds the process id, so that each life is a new consumer.    *)
(***************************************************************************)
EXTENDS Integers, Sequences, FiniteSets

CONSTANTS
    Payloads,      \* what an entry may carry
    MaxEntries,    \* bound: the number of XADDs in a behaviour
    MaxLen,        \* MAXLEN of the stream
    BatchSize,     \* COUNT of XREADGROUP
    PendingCount,  \* COUNT of XPENDING (1000 in the code)
    StableName     \* TRUE iff every life of the consumer has the same name

ASSUME StreamAssumption ==
    /\ MaxEntries \in Nat
    /\ MaxLen \in Nat \ {0}
    /\ BatchSize \in Nat \ {0}
    /\ PendingCount \in Nat \ {0}
    /\ StableName \in BOOLEAN

VARIABLES
    stream,         \* every entry ever added
    trimmed,        \* entries 1..trimmed have been evicted
    groupExists,    \* the consumer group has been created
    lastDelivered,  \* the group's last-delivered-id
    pel,            \* delivered and not acknowledged: the group's PEL
    owned,          \* the part of pel listed under the consumer's current name
    acknowledged    \* history: the entries XACKed so far

streamVars == <<stream, trimmed, groupExists, lastDelivered, pel, owned, acknowledged>>

Ids == 1..Len(stream)

StreamTypeOK ==
    /\ stream \in Seq(Payloads)
    /\ trimmed \in Nat
    /\ groupExists \in BOOLEAN
    /\ lastDelivered \in 0..Len(stream)
    /\ pel \subseteq 1..lastDelivered
    /\ owned \subseteq pel
    /\ acknowledged \subseteq (1..lastDelivered) \ pel

StreamInit ==
    /\ stream = <<>>
    /\ trimmed = 0
    /\ groupExists = FALSE
    /\ lastDelivered = 0
    /\ pel = {}
    /\ owned = {}
    /\ acknowledged = {}

(* The k smallest elements of a set of IDs: COUNT k. *)
Lowest(ids, k) == {i \in ids : Cardinality({j \in ids : j < i}) < k}

-----------------------------------------------------------------------------
(* XADD ... MAXLEN ~ n: the approximate form evicts nothing or anything    *)
(* that still leaves n entries.                                            *)
XAdd(p) ==
    /\ Len(stream) < MaxEntries
    /\ stream' = Append(stream, p)
    /\ \E n \in trimmed..(Len(stream) + 1) :
          /\ n = trimmed \/ n <= Len(stream) + 1 - MaxLen
          /\ trimmed' = n
    /\ UNCHANGED <<groupExists, lastDelivered, pel, owned, acknowledged>>

(* Mutant: an existing group is rewound to the start of the stream. *)
EnsureGroupRewound ==
    /\ groupExists' = TRUE
    /\ lastDelivered' = IF groupExists THEN 0 ELSE Len(stream)
    /\ owned' = IF StableName THEN owned ELSE {}
    /\ UNCHANGED <<stream, trimmed, pel, acknowledged>>

(* XGROUP CREATE ... $ MKSTREAM: a new group starts after the last entry;  *)
(* BUSYGROUP is success.  The life that begins owns the pending entries of *)
(* the lives before it only if it has their name.                          *)
EnsureGroup ==
    /\ groupExists' = TRUE
    /\ lastDelivered' = IF groupExists THEN lastDelivered ELSE Len(stream)
    /\ owned' = IF StableName THEN owned ELSE {}
    /\ UNCHANGED <<stream, trimmed, pel, acknowledged>>

(* What the next XREADGROUP with '>' returns: never a pending entry, and   *)
(* never one that was evicted before it could be delivered.                *)
NewEntries == Lowest({i \in Ids : i > lastDelivered /\ i > trimmed}, BatchSize)

Deliver(ids) ==
    /\ \E last \in ids :
          /\ \A i \in ids : i <= last
          /\ lastDelivered' = last
    /\ pel' = pel \cup ids
    /\ owned' = owned \cup ids
    /\ UNCHANGED <<stream, trimmed, groupExists, acknowledged>>

(* readPending: XPENDING for this consumer name, then the XRANGE that no   *)
(* longer finds the evicted entries.                                       *)
PendingEntries == {i \in Lowest(owned, PendingCount) : i > trimmed}

(* XACK takes an entry off the PEL whoever it was delivered to. *)
XAck(ids) ==
    /\ pel' = pel \ ids
    /\ owned' = owned \ ids
    /\ acknowledged' = acknowledged \cup (ids \cap pel)
    /\ UNCHANGED <<stream, trimmed, groupExists, lastDelivered>>

=============================================================================
