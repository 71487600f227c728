------------------------------- MODULE Geocode -------------------------------
(***************************************************************************)
(* The addresses of places: the caches and the requests under way of each  *)
(* browser (geocodeUtils, for the markers of AddressText), and behind them *)
(* the LRU of the API, its Redis cache and the calls to Nominatim          *)
(* (geocodeController).  A place is one rounded position; times are counted*)
(* in units of which Gap make the second between two calls.                *)
(***************************************************************************)
EXTENDS Naturals, Sequences, FiniteSets, SequencesExt

CONSTANTS
    Places,
    Browsers,
    Handlers,    \* bound: the requests that the API handles at once
    Gap,         \* 1 s
    Patience,    \* how long a browser waits: 6 s
    CacheMax,    \* GEOCODE_LRU_MAX, VITE_GEOCODE_CACHE_MAX
    LastTime,    \* bound: the end of time
    Calls,       \* bound: the calls to Nominatim
    None

(* Assumed where the constants get their values. *)
GeocodeAssumption ==
    /\ {Gap, Patience, CacheMax, LastTime, Calls} \subseteq Nat \ {0} /\ Gap <= LastTime
    /\ None \notin Places \cup Browsers \cup Nat

VARIABLES
    now,
    addresses,  \* each browser: addressCache, as <<place, text>> in its order
    inflight,   \* each browser: the places it waits for, each with its deadline
    lru, redis, \* of the API: its LRU; the places that Redis has
    handlers,   \* the requests at the API
    last,       \* lastNominatimCallAt
    calls,      \* history: the calls of this process, each with how many
                \* there were when its request looked at the clock
    failed      \* history: <<browser, place>> answered without an address

geoVars == <<now, addresses, inflight, lru, redis, handlers, last, calls, failed>>

Idle == [at |-> "idle"]
CachedIn(cache) == {cache[n][1] : n \in DOMAIN cache}

(* The caches are bounded.  An address is named by its place. *)
GeoTypeOK ==
    /\ now \in 0..LastTime
    /\ \A b \in Browsers : Len(addresses[b]) <= CacheMax
    /\ \A b \in Browsers, p \in Places : inflight[b][p] \in Nat \cup {None}
    /\ Len(lru) <= CacheMax
    /\ redis \subseteq Places
    /\ \A h \in Handlers : handlers[h].at \in {"idle", "redis", "sleep", "fetch", "store", "answer"}

GeoInit ==
    /\ now = Gap /\ last = 0
    /\ addresses = [b \in Browsers |-> <<>>]
    /\ inflight = [b \in Browsers |-> [p \in Places |-> None]]
    /\ lru = <<>>
    /\ redis \in SUBSET Places
    /\ handlers = [h \in Handlers |-> Idle]
    /\ calls = <<>> /\ failed = {}

-----------------------------------------------------------------------------
(* Maps that keep the order of insertion *)

Without(cache, p) == RemoveAt(cache, CHOOSE n \in DOMAIN cache : cache[n][1] = p)
Put(cache, p, text) ==
    IF p \in CachedIn(cache) THEN [n \in DOMAIN cache |-> IF cache[n][1] = p THEN <<p, text>> ELSE cache[n]]
    ELSE Append(cache, <<p, text>>)

(* cacheSet, lruSet: the oldest goes first, even when p is there already.  *)
CacheSet(cache, p, text) == Put(IF Len(cache) >= CacheMax THEN Tail(cache) ELSE cache, p, text)

(* lruGet moves the entry to the end. *)
LruGet(p) == Append(Without(lru, p), <<p, p>>)

Become(h, r) == handlers' = [handlers EXCEPT ![h] = r]
Answer(h, text) ==
    Become(h, [at |-> "answer", by |-> handlers[h].by, place |-> handlers[h].place, text |-> text])

-----------------------------------------------------------------------------
(* geocodeUtils *)

(* A marker is shown: the cache has the address, or a request is under way,*)
(* or one is sent.  The API looks into its LRU at once.                    *)
Ask(b, p, h) ==
    /\ p \notin CachedIn(addresses[b]) /\ inflight[b][p] = None
    /\ handlers[h] = Idle
    /\ inflight' = [inflight EXCEPT ![b][p] = now + Patience]
    /\ IF p \in CachedIn(lru)
       THEN lru' = LruGet(p) /\ Become(h, [at |-> "answer", by |-> b, place |-> p, text |-> p])
       ELSE UNCHANGED lru /\ Become(h, [at |-> "redis", by |-> b, place |-> p])
    /\ UNCHANGED <<now, addresses, redis, last, calls, failed>>

(* An answer without an address is cached as one, whatever the reason.     *)
AnswerArrives(h) ==
    LET b == handlers[h].by
        p == handlers[h].place
    IN  /\ handlers[h].at = "answer"
        /\ Become(h, Idle)
        /\ IF b = None
           THEN UNCHANGED <<addresses, inflight, failed>>
           ELSE /\ addresses' = [addresses EXCEPT ![b] =
                                    CacheSet(@, p, IF handlers[h].text = None
                                                   THEN "Unknown Location" ELSE handlers[h].text)]
                /\ inflight' = [inflight EXCEPT ![b][p] = None]
                /\ failed' = IF handlers[h].text = None THEN failed \cup {<<b, p>>} ELSE failed
        /\ UNCHANGED <<now, lru, redis, last, calls>>

(* The browser gives up, which it does not cache; the API goes on.         *)
GiveUp(b, p) ==
    /\ inflight[b][p] # None /\ now >= inflight[b][p]
    /\ inflight' = [inflight EXCEPT ![b][p] = None]
    /\ handlers' = [h \in Handlers |-> IF handlers[h] # Idle /\ handlers[h].by = b /\ handlers[h].place = p
                                       THEN [handlers[h] EXCEPT !.by = None] ELSE handlers[h]]
    /\ UNCHANGED <<now, addresses, lru, redis, last, calls, failed>>

-----------------------------------------------------------------------------
(* geocodeController.reverse *)

Call(h, after) ==
    /\ Len(calls) < Calls
    /\ last' = now
    /\ calls' = Append(calls, [time |-> now, after |-> after])
    /\ Become(h, [at |-> "fetch", by |-> handlers[h].by, place |-> handlers[h].place])

RedisHit(h) ==
    /\ handlers[h].at = "redis" /\ handlers[h].place \in redis
    /\ lru' = CacheSet(lru, handlers[h].place, handlers[h].place)
    /\ Answer(h, handlers[h].place)
    /\ UNCHANGED <<now, addresses, inflight, redis, last, calls, failed>>

(* Mutant: the time of the last call is not compared. *)
RedisMissAtOnce(h) ==
    /\ handlers[h].at = "redis"
    /\ Call(h, Len(calls))
    /\ UNCHANGED <<now, addresses, inflight, lru, redis, failed>>

(* Redis does not have it, or fails.  callNominatim compares the time of   *)
(* the last call with now, and waits for the rest of the second.           *)
RedisMiss(h) ==
    /\ handlers[h].at = "redis"
    /\ IF now - last < Gap
       THEN /\ Become(h, [at |-> "sleep", by |-> handlers[h].by, place |-> handlers[h].place,
                          until |-> last + Gap, after |-> Len(calls)])
            /\ UNCHANGED <<last, calls>>
       ELSE Call(h, Len(calls))
    /\ UNCHANGED <<now, addresses, inflight, lru, redis, failed>>

(* It does not compare again. *)
Wake(h) ==
    /\ handlers[h].at = "sleep" /\ now >= handlers[h].until
    /\ Call(h, handlers[h].after)
    /\ UNCHANGED <<now, addresses, inflight, lru, redis, failed>>

Fetched(h) ==
    /\ handlers[h].at = "fetch"
    /\ lru' = CacheSet(lru, handlers[h].place, handlers[h].place)
    /\ Become(h, [handlers[h] EXCEPT !.at = "store"])
    /\ UNCHANGED <<now, addresses, inflight, redis, last, calls, failed>>

(* No address, an error, or the timeout of 5 s. *)
FetchFails(h) ==
    /\ handlers[h].at = "fetch"
    /\ Answer(h, None)
    /\ UNCHANGED <<now, addresses, inflight, lru, redis, last, calls, failed>>

(* A failure of Redis is no failure of the request. *)
Store(h, stored) ==
    /\ handlers[h].at = "store"
    /\ redis' = IF stored THEN redis \cup {handlers[h].place} ELSE redis
    /\ Answer(h, handlers[h].place)
    /\ UNCHANGED <<now, addresses, inflight, lru, last, calls, failed>>

(* The API starts anew: its LRU and its requests are gone. *)
Restart ==
    /\ lru # <<>>
    /\ lru' = <<>> /\ last' = 0
    /\ handlers' = [h \in Handlers |-> Idle]
    /\ calls' = <<>>
    /\ UNCHANGED <<now, addresses, inflight, redis, failed>>

Tick ==
    /\ now < LastTime
    /\ now' = now + 1
    /\ UNCHANGED <<addresses, inflight, lru, redis, handlers, last, calls, failed>>

GeoNext ==
    \/ \E h \in Handlers :
          \/ \E b \in Browsers, p \in Places : Ask(b, p, h)
          \/ AnswerArrives(h) \/ RedisHit(h) \/ RedisMiss(h) \/ Wake(h) \/ Fetched(h) \/ FetchFails(h)
          \/ \E s \in BOOLEAN : Store(h, s)
    \/ \E b \in Browsers, p \in Places : GiveUp(b, p)
    \/ Restart \/ Tick

GeoSpec == GeoInit /\ [][GeoNext]_geoVars

-----------------------------------------------------------------------------
(* callNominatim, "Wait until at least 1s has elapsed since last call": a  *)
(* call comes a second or more after every call that there was when its    *)
(* request looked at the clock, also after those that had waited.          *)
CallsAreSpaced ==
    \A n \in DOMAIN calls : \A m \in 1..calls[n].after : calls[n].time - calls[m].time >= Gap

(* A cached address is that of its place, in the API and in every browser, *)
(* except that a browser keeps "Unknown Location" of a place whose request *)
(* was once answered without an address.                                   *)
AddressesAreTrue ==
    /\ \A n \in DOMAIN lru : lru[n][2] = lru[n][1]
    /\ \A b \in Browsers : \A n \in DOMAIN addresses[b] :
          LET e == addresses[b][n]
          IN  e[2] = e[1] \/ (e[2] = "Unknown Location" /\ <<b, e[1]>> \in failed)

(* geocodeUtils, "only ONE network request goes out": a browser waits for a*)
(* place only while the API has exactly one request of it, whose answer    *)
(* ends the waiting, or until its patience ends or the API was restarted.  *)
RequestsAreShared ==
    \A b \in Browsers, p \in Places :
        LET theirs == {h \in Handlers : handlers[h] # Idle /\ handlers[h].by = b /\ handlers[h].place = p}
        IN  /\ Cardinality(theirs) <= (IF inflight[b][p] = None THEN 0 ELSE 1)
            /\ inflight[b][p] # None => p \notin CachedIn(addresses[b])

GeocodeHolds == CallsAreSpaced /\ AddressesAreTrue /\ RequestsAreShared
=============================================================================
