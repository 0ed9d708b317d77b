------------------------------- MODULE WebStore -------------------------------
(***************************************************************************)
(* The web service's store (web/torweb.py, web/db.py): one event loop, one *)
(* connection to the database.  A report is answered at once and its work  *)
(* put in the queue of the loop's callbacks; resolve gives way to others   *)
(* only where it awaits, and update_version nowhere.                       *)
(*                                                                         *)
(* The connection does not commit by itself: what one coroutine wrote is   *)
(* seen by all (session) and kept over a restart (committed) once any of   *)
(* them commits.  Of a row the model keeps whether it was located and      *)
(* whether it has a version.                                               *)
(*                                                                         *)
(* due is a history variable: see PostVersion.                             *)
(***************************************************************************)
EXTENDS Naturals, Sequences, Functions

CONSTANTS Ips,          \* the ip addresses
          MaxTryCount,  \* MAX_TRY_COUNT
          MaxReports,   \* bound: reports the service receives
          MaxRestarts   \* bound: restarts of the service

ASSUME StoreAssumption ==
  MaxTryCount \in Nat /\ MaxReports \in Nat /\ MaxRestarts \in Nat

VARIABLES committed,  \* the table bitcoin_address
          session,    \* the same as the connection sees it
          callbacks,  \* the loop's callbacks, in the order they were spawned
          lookUps,    \* the resolve coroutines that sleep or await the answer
          due,        \* the ips whose version must be in the table, or come
          reports, restarts

vars == <<committed, session, callbacks, lookUps, due, reports, restarts>>

Row == [located : BOOLEAN, versioned : BOOLEAN]
NoRow == [absent |-> TRUE]
Table == [Ips -> Row \cup {NoRow}]

LookUp == [ip : Ips, count : 0 .. MaxTryCount]
Callback == [fn : {"resolve"}, ip : Ips, count : 0 .. MaxTryCount]
              \cup [fn : {"update_version"}, ip : Ips]

TypeOK ==
  /\ committed \in Table
  /\ session \in Table
  /\ callbacks \in Seq(Callback)
  /\ lookUps \subseteq LookUp
  /\ due \subseteq Ips
  /\ reports \in 0 .. MaxReports
  /\ restarts \in 0 .. MaxRestarts

Init ==
  /\ committed = [ip \in Ips |-> NoRow]
  /\ session = committed
  /\ callbacks = <<>>
  /\ lookUps = {}
  /\ due = {}
  /\ reports = 0
  /\ restarts = 0

-------------------------------------------------------------------------------
(* ReportHandler.post *)

resolve(ip, count) == [fn |-> "resolve", ip |-> ip, count |-> count]
update_version(ip) == [fn |-> "update_version", ip |-> ip]

\* Mutant of Spawn: the last callback spawned is the first to run.
Spawn_LastFirst(callback) == callbacks' = <<callback>> \o callbacks

\* IOLoop.spawn_callback.
Spawn(callback) == callbacks' = Append(callbacks, callback)

PostNew(ip) ==
  /\ reports < MaxReports
  /\ reports' = reports + 1
  /\ Spawn(resolve(ip, 0))
  /\ UNCHANGED <<committed, session, lookUps, due, restarts>>

\* The version is due if its address was reported before, to this process or to
\* one that committed it; else the row may not be there to be updated.
PostVersion(ip) ==
  /\ reports < MaxReports
  /\ reports' = reports + 1
  /\ Spawn(update_version(ip))
  /\ due' = IF session[ip] # NoRow \/ resolve(ip, 0) \in Range(callbacks)
            THEN due \cup {ip} ELSE due
  /\ UNCHANGED <<committed, session, lookUps, restarts>>

-------------------------------------------------------------------------------
(* The coroutines. *)

Commit == committed' = session'

FreshRow == [located |-> FALSE, versioned |-> FALSE]

\* An UPDATE ... WHERE ip: without a row it changes nothing.
Update(ip, row) ==
  session' = IF session[ip] = NoRow THEN session ELSE [session EXCEPT ![ip] = row]

\* Mutant of Insertable: the row is replaced (REPLACE INTO).
Insertable_Always(c) == TRUE

\* The first try inserts the row; ip is unique, a duplicate raises an exception.
Insertable(c) == c.count = 0 => session[c.ip] = NoRow

\* The loop runs the callback c, which was spawned before the others.
Run(c) == callbacks # <<>> /\ c = Head(callbacks) /\ callbacks' = Tail(callbacks)

\* Mutant of StartLookUp: the row is inserted when the answer is there.
StartLookUp_InsertLater(ip, count) ==
  LET c == resolve(ip, count)
  IN /\ Run(c)
     /\ Insertable(c)
     /\ lookUps' = lookUps \cup {[ip |-> ip, count |-> count]}
     /\ UNCHANGED <<committed, session, due, reports, restarts>>

\* resolve up to its first await.  The INSERT is not committed here.
StartLookUp(ip, count) ==
  LET c == resolve(ip, count)
  IN /\ Run(c)
     /\ Insertable(c)
     /\ session' = IF count = 0 THEN [session EXCEPT ![ip] = FreshRow] ELSE session
     /\ lookUps' = lookUps \cup {[ip |-> ip, count |-> count]}
     /\ UNCHANGED <<committed, due, reports, restarts>>

\* The INSERT is outside the try: its exception ends the coroutine.
RejectDuplicate(ip, count) ==
  /\ Run(resolve(ip, count))
  /\ ~Insertable(resolve(ip, count))
  /\ UNCHANGED <<committed, session, lookUps, due, reports, restarts>>

\* The answer has code 0: UPDATE_ADDR_TABLE_GEO_SQL and a commit.
Located(l) ==
  /\ l \in lookUps
  /\ lookUps' = lookUps \ {l}
  /\ Update(l.ip, [session[l.ip] EXCEPT !.located = TRUE])
  /\ Commit
  /\ UNCHANGED <<callbacks, due, reports, restarts>>

\* The answer has another code: nothing is done, not even a retry.
NotLocated(l) ==
  /\ l \in lookUps
  /\ lookUps' = lookUps \ {l}
  /\ UNCHANGED <<committed, session, callbacks, due, reports, restarts>>

\* Mutant of Retry: the last try is repeated.
Retry_Forever(l) ==
  Spawn(resolve(l.ip, IF l.count < MaxTryCount THEN l.count + 1 ELSE l.count))

\* Mutant of Retry: one try too many.
Retry_OnceMore(l) ==
  IF l.count <= MaxTryCount THEN Spawn(resolve(l.ip, l.count + 1))
  ELSE UNCHANGED callbacks

\* Another try, until there were MAX_TRY_COUNT.
Retry(l) ==
  IF l.count < MaxTryCount THEN Spawn(resolve(l.ip, l.count + 1))
  ELSE UNCHANGED callbacks

\* Any exception: no answer, one that cannot be read, a failing UPDATE.
LookUpFails(l) ==
  /\ l \in lookUps
  /\ lookUps' = lookUps \ {l}
  /\ Retry(l)
  /\ UNCHANGED <<committed, session, due, reports, restarts>>

\* Mutant of UpdateVersion: it is left to another coroutine to commit.
UpdateVersion_NoCommit(ip) ==
  /\ Run(update_version(ip))
  /\ Update(ip, [session[ip] EXCEPT !.versioned = TRUE])
  /\ UNCHANGED <<committed, lookUps, due, reports, restarts>>

\* UPDATE_ADDR_TABLE_VERSION_SQL and a commit, of whatever is not committed.
UpdateVersion(ip) ==
  /\ Run(update_version(ip))
  /\ Update(ip, [session[ip] EXCEPT !.versioned = TRUE])
  /\ Commit
  /\ UNCHANGED <<lookUps, due, reports, restarts>>

\* The UPDATE raises an exception, for an agent of more than 128 characters or
\* services that exceed an int: nobody tries again, and it is no longer due.
RejectVersion(ip) ==
  /\ Run(update_version(ip))
  /\ due' = due \ {ip}
  /\ UNCHANGED <<committed, session, lookUps, reports, restarts>>

\* The process ends at any moment and is started again: the coroutines are gone,
\* the database rolls back.
Restart ==
  /\ restarts < MaxRestarts
  /\ restarts' = restarts + 1
  /\ session' = committed
  /\ callbacks' = <<>>
  /\ lookUps' = {}
  /\ due' = {ip \in due : committed[ip] # NoRow /\ committed[ip].versioned}
  /\ UNCHANGED <<committed, reports>>

-------------------------------------------------------------------------------
Report == \E ip \in Ips : PostNew(ip) \/ PostVersion(ip)

RunCallback ==
  \E ip \in Ips :
    \/ UpdateVersion(ip) \/ RejectVersion(ip)
    \/ \E count \in 0 .. MaxTryCount :
         StartLookUp(ip, count) \/ RejectDuplicate(ip, count)

Answer(l) == Located(l) \/ NotLocated(l) \/ LookUpFails(l)

Next == Report \/ RunCallback \/ (\E l \in LookUp : Answer(l)) \/ Restart

Spec == Init /\ [][Next]_vars

\* The loop runs its callbacks, and AsyncHTTPClient ends each request, with a
\* time-out (20 seconds by default) if there is no answer.
LiveSpec ==
  /\ Spec
  /\ WF_vars(RunCallback)
  /\ \A l \in LookUp : WF_vars(Answer(l))
-------------------------------------------------------------------------------
(* Properties *)

Running(ip) == {l \in lookUps : l.ip = ip}

\* The places in the queue of a try that is not the first.
Waiting(ip) ==
  {i \in DOMAIN callbacks : /\ callbacks[i].fn = "resolve"
                            /\ callbacks[i].ip = ip
                            /\ callbacks[i].count > 0}

Trying(ip) == Running(ip) # {} \/ Waiting(ip) # {}

\* There is one try at a time for an ip, running or waiting, however often the ip
\* is reported, and the row it is for exists: the exception of a duplicate keeps
\* others out.  (So a look-up never starts beside an equal one: lookUps can be a
\* set.)
OneLookUp ==
  \A ip \in Ips :
    /\ \A l, m \in Running(ip) : l = m
    /\ \A i, j \in Waiting(ip) : i = j
    /\ Running(ip) = {} \/ Waiting(ip) = {}
    /\ Trying(ip) => session[ip] # NoRow

\* A version reported after its address reaches the table, whatever look-up of
\* the same row goes on, and no later write undoes it.
VersionKept ==
  \A ip \in due :
    \/ update_version(ip) \in Range(callbacks)
    \/ session[ip] # NoRow /\ session[ip].versioned

\* What a restart can lose is rows that were neither located nor versioned: as
\* soon as one is, the row with its INSERT is committed.
WorkCommitted ==
  \A ip \in Ips :
    session[ip] # committed[ip] =>
      session[ip] = FreshRow /\ committed[ip] = NoRow

\* The look-ups of an ip come to an end, with all their retries.
LookUpsEnd ==
  \A ip \in Ips : Trying(ip) ~> ~Trying(ip)
===============================================================================
