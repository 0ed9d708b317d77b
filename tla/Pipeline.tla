------------------------------- MODULE Pipeline -------------------------------
(***************************************************************************)
(* The crawler's reporter and the web service together: a post of          *)
(* HttpReporter is a report of WebStore, unless the request fails          *)
(* (http_reporter.h:90 and 135 look at no result).  Either process may be  *)
(* started again on its own; the crawler then knows no address.            *)
(*                                                                         *)
(* faulty is a history variable: since the crawler was started a post was  *)
(* lost, or the web service was started again.                             *)
(***************************************************************************)
EXTENDS HttpReporter

CONSTANTS MaxTryCount, MaxReports, MaxRestarts,  \* of WebStore
          MaxCrawlerRestarts                     \* bound: restarts of the crawler

VARIABLES committed, session, callbacks, lookUps, due, reports, restarts,
          faulty, crawlerRestarts

Web == INSTANCE WebStore

webVars == <<committed, session, callbacks, lookUps, due, reports, restarts>>
faultVars == <<faulty, crawlerRestarts>>
pipelineVars == <<vars, webVars, faultVars>>

PipelineInit ==
  /\ Init
  /\ Web!Init
  /\ faulty = FALSE
  /\ crawlerRestarts = 0

-------------------------------------------------------------------------------
(* The crawler, between two posts. *)

\* Bound: what waits to be posted can still be delivered.
Room ==
  reports + Len(newAddrs \o newAddrsCopy \o vVersionAddrs \o vVersionAddrsCopy) < MaxReports

Crawl ==
  /\ \/ Room /\ \E addr \in CService : NewAddr(addr) \/ reportVersionedAddr(addr)
     \/ Drain
  /\ UNCHANGED <<webVars, faultVars>>

Exchange ==
  /\ TakeNew \/ TakeVersions \/ Sleep
  /\ UNCHANGED <<webVars, faultVars>>

-------------------------------------------------------------------------------
(* Posts. *)

\* The web service answers before its coroutine runs.
DeliverNew ==
  /\ PostNew
  /\ Web!PostNew(Head(newAddrsCopy).ip)
  /\ UNCHANGED faultVars

DeliverVersion ==
  /\ PostVersion
  /\ Web!PostVersion(Head(vVersionAddrsCopy).ip)
  /\ UNCHANGED faultVars

\* The service is not there, or the request fails on its way.
LosePost ==
  /\ PostNew \/ PostVersion
  /\ faulty' = TRUE
  /\ UNCHANGED <<webVars, crawlerRestarts>>

-------------------------------------------------------------------------------
(* The web service, and the restarts. *)

Store ==
  /\ Web!RunCallback \/ \E l \in Web!LookUp : Web!Answer(l)
  /\ UNCHANGED <<vars, faultVars>>

RestartWeb ==
  /\ Web!Restart
  /\ faulty' = TRUE
  /\ UNCHANGED <<vars, crawlerRestarts>>

\* The new process has nothing of the old one; the history begins again.
RestartCrawler ==
  /\ crawlerRestarts < MaxCrawlerRestarts
  /\ crawlerRestarts' = crawlerRestarts + 1
  /\ faulty' = FALSE
  /\ mSeenAddr' = {} /\ mSeedAddr' = <<>>
  /\ newAddrs' = <<>> /\ newAddrsCopy' = <<>>
  /\ vVersionAddrs' = <<>> /\ vVersionAddrsCopy' = <<>>
  /\ thread' = "takeNew"
  /\ newPosted' = <<>> /\ seenBefore' = {}
  /\ UNCHANGED webVars

-------------------------------------------------------------------------------
Reporting == Exchange \/ DeliverNew \/ DeliverVersion \/ LosePost

PipelineNext == Crawl \/ Reporting \/ Store \/ RestartWeb \/ RestartCrawler

PipelineSpec == PipelineInit /\ [][PipelineNext]_pipelineVars

\* The reporter's thread and the loop of the web service run.
LivePipelineSpec ==
  /\ PipelineSpec
  /\ WF_pipelineVars(Reporting)
  /\ WF_pipelineVars(Web!RunCallback /\ UNCHANGED <<vars, faultVars>>)
-------------------------------------------------------------------------------
(* Properties *)

Seen(ip) == \E addr \in mSeenAddr : addr.ip = ip

\* Every address the crawler has seen is in the table in the end, though it is
\* posted once and the service answers before it stores it, unless there is a
\* fault.  What a fault has lost the next run of the crawler makes good: it posts
\* the address again, and a row that is there already takes no harm.
SeenStored ==
  \A ip \in Ips :
    Seen(ip) /\ ~faulty ~> session[ip] # Web!NoRow \/ faulty \/ ~Seen(ip)

\* A version is lost only if it overtakes the post of its address (OneCycleLate):
\* of an address posted before, the row is there or comes first, through the
\* reporter's cycle, the loop's queue and the look-up in between.
VersionsFindRows ==
  [][PostVersion /\ Head(vVersionAddrsCopy) \in Range(newPosted) /\ ~faulty'
       => Head(vVersionAddrsCopy).ip \in due']_pipelineVars
===============================================================================
