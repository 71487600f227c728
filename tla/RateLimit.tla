------------------------------ MODULE RateLimit ------------------------------
(***************************************************************************)
(* The token buckets in front of the API (rateLimit).  applyAuto is        *)
(* installed before any route has authenticated its user (server.js), so   *)
(* that a GET takes a token from the bucket of its address, and a write    *)
(* none at all: the buckets of users are never asked for.  Tokens are      *)
(* counted in parts, of which Unit make a token.                           *)
(***************************************************************************)
EXTENDS Integers, Sequences

CONSTANTS
    Addresses,
    Capacity,    \* of a bucket, in parts
    Unit,        \* the parts of a token
    Rate,        \* the parts a bucket gains in a tick
    MaxKeys,     \* RATE_LIMIT_MAX_KEYS
    IdleAfter,   \* the idle time after which a bucket is pruned
    LastTick     \* bound: the end of time

(* Assumed where the constants get their values. *)
RateAssumption ==
    /\ {Capacity, Unit, Rate, MaxKeys, IdleAfter} \subseteq Nat \ {0}
    /\ LastTick \in Nat
    /\ IdleAfter * Rate >= Capacity   \* 30 minutes at 10 a second, for 600

VARIABLES
    tick,
    buckets,    \* the map in its order: [key, tokens, lastRefill]
    answer,     \* the last answer: [key, status, retryAfter]
    earned      \* history: the tokens each address would have in a bucket of its own,
                \* filled at every tick, and anew when its bucket is dropped at the cap

limitVars == <<tick, buckets, answer, earned>>

Bucketed == {buckets[n].key : n \in DOMAIN buckets}

LimitTypeOK ==
    /\ tick \in 0..LastTick
    /\ Len(buckets) <= MaxKeys /\ \A m, n \in DOMAIN buckets : buckets[m].key = buckets[n].key => m = n
    /\ \A n \in DOMAIN buckets : buckets[n].tokens \in 0..Capacity /\ buckets[n].lastRefill <= tick
    /\ answer.status \in {200, 429}

LimitInit ==
    /\ tick = 0
    /\ buckets = <<>>
    /\ answer = [status |-> 200, short |-> FALSE]
    /\ earned = [a \in Addresses |-> Capacity]

-----------------------------------------------------------------------------
Least(a, b) == IF a < b THEN a ELSE b

(* Mutant: the time of the last refill is not stored when there was none. *)
RefillTwice(b) == [b EXCEPT !.tokens = Least(Capacity, @ + (tick - b.lastRefill) * Rate)]

(* take: the bucket is refilled for the time since the last take. *)
Refill(b) ==
    [b EXCEPT !.tokens = Least(Capacity, @ + (tick - b.lastRefill) * Rate), !.lastRefill = tick]

retryAfterSec(b) == (Unit - b.tokens + Rate - 1) \div Rate

Position(key) == CHOOSE n \in DOMAIN buckets : buckets[n].key = key

(* getBucket: at the cap the one that came first goes. *)
Evicts(key) == key \notin Bucketed /\ Len(buckets) >= MaxKeys
WithBucket(key) ==
    IF key \in Bucketed THEN buckets
    ELSE Append(IF Evicts(key) THEN Tail(buckets) ELSE buckets,
                [key |-> key, tokens |-> Capacity, lastRefill |-> tick])

(* A GET or HEAD; whatever it asks for, /health and /metrics included.     *)
Read(a) ==
    LET map == WithBucket(a)
        n == CHOOSE i \in DOMAIN map : map[i].key = a
        b == Refill(map[n])
        granted == b.tokens >= Unit
    IN  /\ buckets' = [map EXCEPT ![n] = IF granted THEN [b EXCEPT !.tokens = @ - Unit] ELSE b]
        /\ answer' =
              IF granted THEN [status |-> 200, short |-> FALSE]
              ELSE [status |-> 429, short |-> b.tokens + retryAfterSec(b) * Rate < Unit]
        /\ earned' = [o \in Addresses |->
                          IF o = a /\ granted THEN earned[a] - Unit
                          ELSE IF Evicts(a) /\ o = buckets[1].key THEN Capacity ELSE earned[o]]
        /\ UNCHANGED tick

(* A POST, PUT, PATCH or DELETE: its user is not known yet. *)
Write ==
    /\ answer' = [status |-> 200, short |-> FALSE]
    /\ UNCHANGED <<tick, buckets, earned>>

(* The timer of five minutes: the buckets that are not idle stay, in their *)
(* order.                                                                  *)
Prune ==
    LET kept == {n \in DOMAIN buckets : tick - buckets[n].lastRefill <= IdleAfter}
    IN  /\ kept # DOMAIN buckets
        /\ \E count \in 0..Len(buckets) : \E place \in [1..count -> kept] :
              /\ \A m, n \in 1..count : m < n => place[m] < place[n]
              /\ \A n \in kept : \E m \in 1..count : place[m] = n
              /\ buckets' = [m \in 1..count |-> buckets[place[m]]]
        /\ UNCHANGED <<tick, answer, earned>>

Tick ==
    /\ tick < LastTick
    /\ tick' = tick + 1
    /\ earned' = [a \in Addresses |-> Least(Capacity, earned[a] + Rate)]
    /\ UNCHANGED <<buckets, answer>>

LimitNext == (\E a \in Addresses : Read(a)) \/ Write \/ Prune \/ Tick

LimitSpec == LimitInit /\ [][LimitNext]_limitVars

-----------------------------------------------------------------------------
(* Each address is let through exactly as often as a bucket of its own     *)
(* would allow, although its bucket is refilled only when it is asked, is  *)
(* pruned when idle and shares a bounded map: only one whose bucket was    *)
(* dropped at the cap starts again with a full one.  And Retry-After is    *)
(* long enough.                                                            *)
LimitIsKept ==
    /\ \A a \in Addresses :
          earned[a] = IF a \in Bucketed THEN Refill(buckets[Position(a)]).tokens ELSE Capacity
    /\ ~answer.short
=============================================================================
