------------------------------ MODULE WebService ------------------------------
(***************************************************************************)
(* The web service as a whole: the store, which reports fill, and the two  *)
(* queries over it (torweb.py:30-65), whose answers SimpleCache keeps for  *)
(* a time (simplecache.py).  The queries run on the connection the         *)
(* coroutines write with, between any two of their steps.                  *)
(*                                                                         *)
(* Time is counted in ticks.  An ip is located once at most (OneLookUp and *)
(* Insertable of WebStore), so that where it is can be fixed beforehand.   *)
(* Of an answer the model keeps the groups with their numbers, not their   *)
(* order.  behind is a history variable.                                   *)
(***************************************************************************)
EXTENDS WebStore, FiniteSets

CONSTANTS Country, Region,  \* what the geolocation service says of each ip
          Asked,            \* the countries users ask the regions of
          Timeout           \* the ticks an answer is kept: 180 seconds

ASSUME ServiceAssumption == Timeout \in Nat \ {0}

VARIABLES cache,  \* _cache: an answer and the ticks that are left of its time-out
          behind  \* the ticks since the cached answer was last the query's result

serviceVars == <<vars, cache, behind>>

\* The keys of the cache; "" is the country of a row that is not located.
Key == [by : {"country"}] \cup [by : {"region"}, country : Asked]

\* `key not in self._cache`.
Missing == [missing |-> TRUE]

ServiceInit ==
  /\ Init
  /\ cache = [key \in Key |-> Missing]
  /\ behind = [key \in Key |-> 0]

-------------------------------------------------------------------------------
(* QUERY_COUNTRY_DISTRIBUTION_SQL and QUERY_REGION_DISTRIBUTION_SQL. *)

CountryOf(ip) == IF session[ip].located THEN Country[ip] ELSE ""
RegionOf(ip) == IF session[ip].located THEN Region[ip] ELSE ""

Selected(key) ==
  {ip \in Ips : /\ session[ip] # NoRow
                /\ key.by = "region" => CountryOf(ip) = key.country}

Group(key, ip) == IF key.by = "country" THEN CountryOf(ip) ELSE RegionOf(ip)

Rows(key) ==
  [g \in {Group(key, ip) : ip \in Selected(key)} |->
     Cardinality({ip \in Selected(key) : Group(key, ip) = g})]

-------------------------------------------------------------------------------
(* SimpleCache and the two handlers. *)

\* Mutant of Cached: the time-out is not looked at.
Cached_ForEver(key) == cache[key] # Missing

\* SimpleCache.get finds an answer.
Cached(key) == cache[key] # Missing /\ cache[key].left > 0

\* What a request is answered.
Shown(key) == IF Cached(key) THEN cache[key].rows ELSE Rows(key)

\* A request that asks the database.  An empty answer is not cached.
Query(key) ==
  /\ ~Cached(key)
  /\ Selected(key) # {}
  /\ cache' = [cache EXCEPT ![key] = [rows |-> Rows(key), left |-> Timeout]]
  /\ behind' = [behind EXCEPT ![key] = 0]
  /\ UNCHANGED vars

\* The clock goes on.
Tick ==
  /\ cache' = [key \in Key |->
                 IF Cached(key) THEN [cache[key] EXCEPT !.left = @ - 1] ELSE cache[key]]
  /\ behind' = [key \in Key |->
                  IF cache[key] # Missing /\ cache[key].rows # Rows(key)
                    /\ behind[key] < Timeout
                  THEN behind[key] + 1 ELSE behind[key]]
  /\ UNCHANGED vars

\* A step of the store, which may change the result of a query.
Beside ==
  /\ UNCHANGED cache
  /\ behind' = [key \in Key |->
                  IF cache[key] # Missing /\ cache[key].rows = Rows(key)'
                  THEN 0 ELSE behind[key]]

\* The cache is gone with the process.
RestartService ==
  /\ Restart
  /\ cache' = [key \in Key |-> Missing]
  /\ behind' = [key \in Key |-> 0]

-------------------------------------------------------------------------------
ServiceNext ==
  \/ Report /\ Beside
  \/ RunCallback /\ Beside
  \/ \E l \in LookUp : Answer(l) /\ Beside
  \/ RestartService
  \/ \E key \in Key : Query(key)
  \/ Tick

ServiceSpec == ServiceInit /\ [][ServiceNext]_serviceVars

\* As LiveSpec of WebStore: nothing is assumed of users and time.
LiveServiceSpec ==
  /\ ServiceSpec
  /\ WF_serviceVars(RunCallback /\ Beside)
  /\ \A l \in LookUp : WF_serviceVars(Answer(l) /\ Beside)
-------------------------------------------------------------------------------
(* Properties, beside those of WebStore *)

\* What a user is shown was the result of the query less than a time-out ago: the
\* writes since then, and the loss of rows in a restart, are not hidden for longer.
AnswerRecent ==
  \A key \in Key : Shown(key) # Rows(key) => behind[key] < Timeout
===============================================================================
