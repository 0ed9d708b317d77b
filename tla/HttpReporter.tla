----------------------------- MODULE HttpReporter -----------------------------
(***************************************************************************)
(* The reporter (http_reporter.h) beside the engine's thread that feeds it:*)
(* CAddrSeed::addNewAddr reports an address the first time it is seen, a   *)
(* version message reports the peer it came from.  Each kind waits in a    *)
(* vector of its own, under a mutex of its own; the reporter's thread takes*)
(* the new addresses, posts them one by one, then takes the versions and   *)
(* posts those, and sleeps a second.                                       *)
(*                                                                         *)
(* A post is a single HTTP request that returns before the next one is     *)
(* made.  Its result is ignored (http_reporter.h:90 and 135): a post that  *)
(* fails is a step like any other, and is not repeated.  newPosted and     *)
(* seenBefore are history variables.                                       *)
(***************************************************************************)
EXTENDS AddrSeed, FiniteSets, Functions

CONSTANTS DrainSize,   \* DRAIN_SEED_SIZE_PER_LOOP
          MaxVersions  \* bound: version reports that wait for the thread

ASSUME ReporterAssumption == DrainSize \in Nat \ {0} /\ MaxVersions \in Nat

VARIABLES newAddrs,           \* the addresses to be reported
          vVersionAddrs,      \* the peers whose version is to be reported
          newAddrsCopy,       \* what the thread took of the first
          vVersionAddrsCopy,  \* and of the second
          thread,             \* what the thread does next
          newPosted,          \* the addresses posted as new, in order
          seenBefore          \* mSeenAddr when this cycle began

reportVars == <<newAddrs, vVersionAddrs, newAddrsCopy, vVersionAddrsCopy,
                thread, newPosted, seenBefore>>
vars == <<seedVars, reportVars>>

TypeOK ==
  /\ SeedTypeOK
  /\ newAddrs \in Seq(CService)
  /\ newAddrsCopy \in Seq(CService)
  /\ vVersionAddrs \in Seq(CService)
  /\ vVersionAddrsCopy \in Seq(CService)
  /\ thread \in {"takeNew", "postNew", "postVersions"}
  /\ newPosted \in Seq(CService)
  /\ seenBefore \subseteq CService

Init ==
  /\ SeedInit
  /\ newAddrs = <<>>
  /\ newAddrsCopy = <<>>
  /\ vVersionAddrs = <<>>
  /\ vVersionAddrsCopy = <<>>
  /\ thread = "takeNew"
  /\ newPosted = <<>>
  /\ seenBefore = {}

-------------------------------------------------------------------------------
(* The engine's thread. *)

Known(addr) == \E seen \in mSeenAddr : SameAddr(seen, addr)

\* Mutant of reportNewAddr: the port is left behind.
reportNewAddr_IpOnly(addr) ==
  newAddrs' = IF Known(addr) THEN newAddrs ELSE Append(newAddrs, [ip |-> addr.ip])

\* Mutant of reportNewAddr: called before the test for a duplicate.
reportNewAddr_Always(addr) == newAddrs' = Append(newAddrs, addr)

\* reportNewAddr, called by addNewAddr for an address that is not a duplicate.
reportNewAddr(addr) ==
  newAddrs' = IF Known(addr) THEN newAddrs ELSE Append(newAddrs, addr)

\* A result of a DNS lookup or an address of an addr message.  addNewAddr holds
\* mSeedLock while it takes newAddrsMutex; the reporter's thread takes one mutex
\* at a time and never mSeedLock.
NewAddr(addr) ==
  /\ addNewAddr(addr)
  /\ reportNewAddr(addr)
  /\ UNCHANGED <<vVersionAddrs, newAddrsCopy, vVersionAddrsCopy, thread,
                 newPosted, seenBefore>>

Drain ==
  /\ mSeedAddr # <<>>
  /\ getNewAddrs(DrainSize)
  /\ UNCHANGED reportVars

\* A version message of a peer, which may send more than one.  The address is what
\* getpeername says of the connection: as a rule one that was taken from the queue,
\* but nothing here depends on it (module Connection has one that is not).
reportVersionedAddr(addr) ==
  /\ Len(vVersionAddrs) < MaxVersions
  /\ vVersionAddrs' = Append(vVersionAddrs, addr)
  /\ UNCHANGED <<seedVars, newAddrs, newAddrsCopy, vVersionAddrsCopy, thread,
                 newPosted, seenBefore>>

-------------------------------------------------------------------------------
(* The reporter's thread. *)

\* Mutant of TakeNew: the last address, perhaps just being added, is left.
TakeNew_LeavesLast ==
  /\ thread = "takeNew"
  /\ thread' = "postNew"
  /\ newAddrsCopy' = SubSeq(newAddrs, 1, Len(newAddrs) - 1)
  /\ newAddrs' = IF newAddrs = <<>> THEN <<>> ELSE <<newAddrs[Len(newAddrs)]>>
  /\ seenBefore' = mSeenAddr
  /\ UNCHANGED <<seedVars, vVersionAddrs, vVersionAddrsCopy, newPosted>>

TakeNew ==
  /\ thread = "takeNew"
  /\ thread' = "postNew"
  /\ newAddrsCopy' = newAddrs
  /\ newAddrs' = <<>>
  /\ seenBefore' = mSeenAddr
  /\ UNCHANGED <<seedVars, vVersionAddrs, vVersionAddrsCopy, newPosted>>

PostNew ==
  /\ thread = "postNew"
  /\ newAddrsCopy # <<>>
  /\ newPosted' = Append(newPosted, Head(newAddrsCopy))
  /\ newAddrsCopy' = Tail(newAddrsCopy)
  /\ UNCHANGED <<seedVars, newAddrs, vVersionAddrs, vVersionAddrsCopy, thread,
                 seenBefore>>

TakeVersions ==
  /\ thread = "postNew"
  /\ newAddrsCopy = <<>>
  /\ thread' = "postVersions"
  /\ vVersionAddrsCopy' = vVersionAddrs
  /\ vVersionAddrs' = <<>>
  /\ UNCHANGED <<seedVars, newAddrs, newAddrsCopy, newPosted, seenBefore>>

PostVersion ==
  /\ thread = "postVersions"
  /\ vVersionAddrsCopy # <<>>
  /\ vVersionAddrsCopy' = Tail(vVersionAddrsCopy)
  /\ UNCHANGED <<seedVars, newAddrs, vVersionAddrs, newAddrsCopy, thread,
                 newPosted, seenBefore>>

\* Mutant of Sleep: the thread stops when it finds nothing to post at first.
Sleep_StopsIdle ==
  /\ thread = "postVersions"
  /\ vVersionAddrsCopy = <<>>
  /\ seenBefore # {}
  /\ thread' = "takeNew"
  /\ UNCHANGED <<seedVars, newAddrs, vVersionAddrs, newAddrsCopy,
                 vVersionAddrsCopy, newPosted, seenBefore>>

Sleep ==
  /\ thread = "postVersions"
  /\ vVersionAddrsCopy = <<>>
  /\ thread' = "takeNew"
  /\ UNCHANGED <<seedVars, newAddrs, vVersionAddrs, newAddrsCopy,
                 vVersionAddrsCopy, newPosted, seenBefore>>

-------------------------------------------------------------------------------
httpReporterThread == TakeNew \/ PostNew \/ TakeVersions \/ PostVersion \/ Sleep

Next ==
  \/ \E addr \in CService : NewAddr(addr) \/ reportVersionedAddr(addr)
  \/ Drain
  \/ httpReporterThread

Spec == Init /\ [][Next]_vars

\* The thread runs for ever, and every HTTP request ends, well or badly.
LiveSpec == Spec /\ WF_vars(httpReporterThread)
-------------------------------------------------------------------------------
(* Properties *)

\* The addresses reported so far: posted, taken or waiting.
Reported == newPosted \o newAddrsCopy \o newAddrs

\* Each ip that was seen is reported as new exactly once, with the port it was
\* first seen with, through every exchange between the two threads.
ReportedOnce ==
  /\ Range(Reported) = mSeenAddr
  /\ \A i, j \in 1 .. Len(Reported) :
       SameAddr(Reported[i], Reported[j]) => i = j

\* The web service drops a version whose address it does not know yet.  A version
\* can overtake its address, if it is found after the new addresses were taken and
\* answers before the versions are.  Only then: an address seen by the time a cycle
\* began has been posted when its versions are, and so no version of the next cycle
\* overtakes it.
OneCycleLate ==
  thread = "postVersions" => seenBefore \subseteq Range(newPosted)

\* Every address that is seen is posted in the end.
AllPosted ==
  \A addr \in CService : addr \in mSeenAddr ~> addr \in Range(newPosted)
===============================================================================
