----------------------------- MODULE MarketPrices -----------------------------
(***************************************************************************)
(* Prices of a coin through two caches: the client of CoinGecko            *)
(* (internal/market/coingecko.go) with its price cache (redis_cache.go)    *)
(* and the cached client in front of it (cache.go), both in Redis.  A price *)
(* is the time at which CoinGecko gave it.                                 *)
(***************************************************************************)
EXTENDS Naturals, FiniteSets

CONSTANTS
    Askers,         \* goroutines that ask for the price
    None, Failed,
    OuterTTL,       \* of the cached client
    InnerTTL,       \* of the price cache
    MaxTime, MaxAsks    \* bounds: the clock, questions asked

VARIABLES
    now,
    outer, inner,   \* the entries of the caches: a price and when it expires
    asker,          \* what each goroutine is at: "idle", "waits", or what it got
    flight,         \* the call the waiting share: nothing, fetching, or a price to be stored
    since,          \* how long the flight has been storing
    asked,          \* how many questions were asked
    lastError       \* the client's last call failed

market == <<now, outer, inner, asker, flight, since, asked, lastError>>

\* Redis takes a lifetime of zero for one without an end.
PriceAssumption ==
    /\ OuterTTL \in Nat \ {0} /\ InnerTTL \in Nat \ {0} /\ MaxTime \in Nat /\ MaxAsks \in Nat
    /\ None \notin [at : {"fetches"}, leader : Askers] \cup [at : {"stores"}, leader : Askers, price : 0 .. MaxTime]

Entry == [price : 0 .. MaxTime, expires : 1 .. MaxTime + OuterTTL + InnerTTL]

PriceTypeOK ==
    /\ now \in 0 .. MaxTime /\ outer \in Entry \cup {None} /\ inner \in Entry \cup {None}
    /\ asker \in [Askers -> [at : {"idle", "waits"}] \cup [at : {"done"}, got : {Failed} \cup 0 .. MaxTime, when : 0 .. MaxTime]]
    /\ flight \in {None} \cup [at : {"fetches"}, leader : Askers] \cup [at : {"stores"}, leader : Askers, price : 0 .. MaxTime]
    /\ since \in 0 .. 1 /\ asked \in 0 .. MaxAsks /\ lastError \in BOOLEAN

PriceInit ==
    /\ now = 0 /\ outer = None /\ inner = None /\ flight = None /\ since = 0 /\ asked = 0 /\ lastError = FALSE
    /\ asker = [a \in Askers |-> [at |-> "idle"]]

Got(x) == [at |-> "done", got |-> x, when |-> now]

\* Redis answers with an entry until it expires, and is not asked twice.
Hit(entry) == entry # None /\ now < entry.expires

\* Mutant: an entry without an end.
CacheForever(entry, new, price, ttl) == new \in {entry, [price |-> price, expires |-> MaxTime + ttl]}

\* Redis takes a price or does not; it is the price, not the entry, that is kept.
CacheSet(entry, new, price, ttl) == new \in {entry, [price |-> price, expires |-> now + ttl]}

-----------------------------------------------------------------------------
\* A price in the cache is it; else the goroutine starts a call, or waits for
\* the one another started.  A cache that cannot be read is one without it.
GetPrice(a) ==
    /\ asker[a].at = "idle" /\ asked < MaxAsks
    /\ asked' = asked + 1
    /\ \/ Hit(outer) /\ asker' = [asker EXCEPT ![a] = Got(outer.price)] /\ UNCHANGED flight
       \/ /\ asker' = [asker EXCEPT ![a] = [at |-> "waits"]]
          /\ flight' = IF flight = None THEN [at |-> "fetches", leader |-> a] ELSE flight
    /\ UNCHANGED <<now, outer, inner, since, lastError>>

\* Every goroutine that waits gets the same.
Answer(x) == asker' = [a \in Askers |-> IF asker[a].at = "waits" THEN Got(x) ELSE asker[a]]

Fetching == flight # None /\ flight.at = "fetches"
ToStore(price) == flight' = [at |-> "stores", leader |-> flight.leader, price |-> price]

\* The client asks its own cache first.
FetchFromCache ==
    /\ Fetching /\ Hit(inner) /\ ToStore(inner.price)
    /\ UNCHANGED <<now, outer, inner, asker, since, asked, lastError>>

FetchFromCoinGecko ==
    /\ Fetching /\ ToStore(now)
    /\ CacheSet(inner, inner', now, InnerTTL) /\ lastError' = FALSE
    /\ UNCHANGED <<now, outer, asker, since, asked>>

\* The tool failed, with all its retries, or the call was given up with the
\* context of the goroutine that made it: the others fail with it.
FetchFails ==
    /\ Fetching /\ flight' = None /\ Answer(Failed)
    /\ lastError' = TRUE
    /\ UNCHANGED <<now, outer, inner, since, asked>>

Fetch == FetchFromCache \/ FetchFromCoinGecko \/ FetchFails

Store ==
    /\ flight # None /\ flight.at = "stores"
    /\ CacheSet(outer, outer', flight.price, OuterTTL)
    /\ Answer(flight.price)
    /\ flight' = None /\ since' = 0
    /\ UNCHANGED <<now, inner, asked, lastError>>

Leave(a) ==
    /\ asker[a].at = "done"
    /\ asker' = [asker EXCEPT ![a] = [at |-> "idle"]]
    /\ UNCHANGED <<now, outer, inner, flight, since, asked, lastError>>

\* The entries of the cached client go, those of the client stay; a call on its
\* way stores what it has.
InvalidateCache ==
    /\ outer # None /\ outer' = None
    /\ UNCHANGED <<now, inner, asker, flight, since, asked, lastError>>

\* Clearing the price cache.
Clear ==
    /\ inner # None /\ inner' = None
    /\ UNCHANGED <<now, outer, asker, flight, since, asked, lastError>>

\* The health check asks for a price only if the last call did not fail, so
\* that after a failure another caller has to succeed first.
Health ==
    /\ ~ lastError /\ ~ Hit(inner)
    /\ \/ CacheSet(inner, inner', now, InnerTTL) /\ UNCHANGED lastError
       \/ lastError' = TRUE /\ UNCHANGED inner
    /\ UNCHANGED <<now, outer, asker, flight, since, asked>>

\* Storing in Redis is given up after two seconds, one tick.
Tick ==
    /\ now < MaxTime /\ now' = now + 1
    /\ flight # None /\ flight.at = "stores" => since = 0
    /\ since' = IF flight # None /\ flight.at = "stores" THEN 1 ELSE 0
    /\ UNCHANGED <<outer, inner, asker, flight, asked, lastError>>

PriceNext ==
    \/ \E a \in Askers : GetPrice(a) \/ Leave(a)
    \/ Fetch \/ Store \/ InvalidateCache \/ Clear \/ Health \/ Tick

\* A call under way goes on: requests and Redis have timeouts.
PriceSpec == PriceInit /\ [][PriceNext]_market /\ WF_market(Fetch \/ Store)

-----------------------------------------------------------------------------
\* A price is always younger than the lifetimes of both caches together, less than
\* one of them is not enough: each counts from when it was given the price, not
\* from when CoinGecko gave it, and storing takes a tick at most.
PricesAreFresh ==
    \A a \in Askers :
        asker[a].at = "done" /\ asker[a].got # Failed => asker[a].got + OuterTTL + InnerTTL > asker[a].when

\* Goroutines wait only for a call that is under way, made by one of them.
WaitingForACall ==
    (\E a \in Askers : asker[a].at = "waits") <=> flight # None /\ asker[flight.leader].at = "waits"

\* Whoever waits for a price gets one, or an error.
AskersAreAnswered == \A a \in Askers : asker[a].at = "waits" ~> asker[a].at = "done"
=============================================================================
