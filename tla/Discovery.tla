------------------------------- MODULE Discovery -------------------------------
(***************************************************************************)
(* Which models the hosts offer: opencode plugins share a cache file       *)
(* (discovery.ts, models-cache.ts) and keep what they found for their      *)
(* lifetime (index.ts); the pi extension probes agy when it is loaded and  *)
(* at every /reload (packages/pi-adapter/extensions/index.ts).             *)
(***************************************************************************)
EXTENDS Integers

CONSTANTS
    Opencode, Pi,    \* host processes
    Listing,         \* the listings agy may print
    Ttl,             \* MODELS_CACHE_TTL_MS in ticks
    MaxClock         \* bound: ticks of the clock

VARIABLES
    clock,
    offered,         \* what agy prints now, Silent while it gives nothing
    cache,           \* models-cache.json
    host             \* per process: where getRegistry is, and what it serves

vars == <<clock, offered, cache, host>>

Bridge == Opencode \cup Pi

\* Spawn error, exit status, timeout or output without a row: listAgyModels
\* returns an empty list.
Silent == "silent"

\* A listing with the time it is stamped with and, for the properties, the time
\* agy printed it.  Absent stands for the static list of models.
Rows(listing, stamp, printed) == [listing |-> listing, stamp |-> stamp, printed |-> printed]
Absent == Rows(Silent, -1, -1)

\* A cache file is missing, unreadable, or holds rows.
Missing == [state |-> "missing", rows |-> Absent]
Garbled == [state |-> "garbled", rows |-> Absent]
Intact(rows) == [state |-> "intact", rows |-> rows]

\* now: the clock read at the start; cached: the rows read from the file; rows: the
\* listing at hand, later the listing served.
Idle == [pc |-> "idle", now |-> 0, cached |-> Absent, rows |-> Absent]

Init ==
    /\ clock = 0
    /\ offered \in Listing \cup {Silent}
    /\ cache \in {Missing, Garbled} \cup {Intact(Rows(l, 0, 0)) : l \in Listing}
    /\ host = [p \in Bridge |-> Idle]

Goto(p, pc) == host' = [host EXCEPT ![p].pc = pc]
Serve(p, rows) == host' = [host EXCEPT ![p].pc = "serving", ![p].rows = rows]

Tick ==
    /\ clock < MaxClock
    /\ clock' = clock + 1
    /\ UNCHANGED <<offered, cache, host>>

\* agy is updated, logged out, or back.
AgyChanges ==
    /\ \E l \in (Listing \cup {Silent}) \ {offered} : offered' = l
    /\ UNCHANGED <<clock, cache, host>>

\* readModelsCache tells an intact file from anything else and leaves its age to
\* the caller.
cacheFresh(rows, now) == rows # Absent /\ now - rows.stamp < Ttl

Ask(p) ==
    /\ p \in Opencode /\ host[p].pc = "idle"
    /\ LET cached == cache.rows
       IN IF cacheFresh(cached, clock)
          THEN Serve(p, cached)
          ELSE host' = [host EXCEPT ![p] = [pc |-> "list", now |-> clock,
                                            cached |-> cached, rows |-> Absent]]
    /\ UNCHANGED <<clock, offered, cache>>

\* An empty listing falls back on the file whatever its age, then on the static
\* list.
List(p) ==
    /\ host[p].pc = "list"
    /\ IF offered = Silent
       THEN Serve(p, host[p].cached)
       ELSE host' = [host EXCEPT ![p].pc = "open",
                                 ![p].rows = Rows(offered, host[p].now, clock)]
    /\ UNCHANGED <<clock, offered, cache>>

\* writeFileSync truncates and then writes, and ignores a failure of either.
Truncate(p) ==
    /\ host[p].pc = "open"
    /\ \/ cache' = Garbled /\ Goto(p, "write")
       \/ cache' = cache /\ Goto(p, "serving")
    /\ UNCHANGED <<clock, offered>>

\* Mutant of Stamped: the time of the write stands in for the time of the call.
StampedAtWrite(p) == [host[p].rows EXCEPT !.stamp = clock]

Stamped(p) == host[p].rows

\* Over what another process has written meanwhile, the tail of a longer listing may
\* stay behind.
WriteCache(p) ==
    /\ host[p].pc = "write"
    /\ \/ cache' = Intact(Stamped(p))
       \/ cache.state = "intact" /\ cache' = Garbled
       \/ cache' = cache
    /\ Goto(p, "serving")
    /\ UNCHANGED <<clock, offered>>

\* The process ends, between the two halves of a write too.
Exit(p) ==
    /\ host[p].pc # "idle"
    /\ host' = [host EXCEPT ![p] = Idle]
    /\ UNCHANGED <<clock, offered, cache>>

\* createAgyExtension: an empty probe leaves the static list.
Load(p) ==
    /\ p \in Pi /\ host[p].pc = "idle"
    /\ Serve(p, IF offered = Silent THEN Absent ELSE Rows(offered, clock, clock))
    /\ UNCHANGED <<clock, offered, cache>>

\* Mutant of Reloaded: the registry is built from an empty probe too.
ReloadedFromAny(p) ==
    IF offered = Silent THEN Absent ELSE Rows(offered, clock, clock)

Reloaded(p) ==
    IF offered = Silent THEN host[p].rows ELSE Rows(offered, clock, clock)

\* rebuildDiscovery on session_start with reason "reload".
Reload(p) ==
    /\ p \in Pi /\ host[p].pc = "serving"
    /\ Serve(p, Reloaded(p))
    /\ UNCHANGED <<clock, offered, cache>>

Step(p) ==
    Ask(p) \/ List(p) \/ Truncate(p) \/ WriteCache(p) \/ Exit(p) \/ Load(p) \/ Reload(p)

Next == Tick \/ AgyChanges \/ \E p \in Bridge : Step(p)

Spec == Init /\ [][Next]_vars

-----------------------------------------------------------------------------
Serving(p) == host[p].pc = "serving"

\* What a host offers comes and goes for cause (discoverModels, getRegistry,
\* rebuildDiscovery): a listing older than the cache's lifetime, or the static list,
\* only when agy gives nothing; and what is offered gives way only to a later
\* listing, whatever other processes write to the cache in between.
OffersForCause ==
    [][\A p \in Bridge :
        LET old == host[p].rows
            new == host'[p].rows
        IN /\ ~Serving(p) /\ Serving(p)' =>
                 \/ new.printed >= 0 /\ clock - new.printed < Ttl
                 \/ host[p].pc # "idle" /\ new.printed >= host[p].now
                 \/ offered = Silent
           /\ Serving(p) /\ Serving(p)' /\ new # old => new.printed >= old.printed
                                                        /\ new # Absent]_vars
=============================================================================
