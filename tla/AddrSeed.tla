------------------------------- MODULE AddrSeed -------------------------------
(***************************************************************************)
(* CAddrSeed (addrseed.h, addrseed.cpp): the addresses the crawler has     *)
(* seen and the queue of those it has still to try.  Both methods hold     *)
(* mSeedLock from their first to their last line, so each is one step.     *)
(*                                                                         *)
(* mSeenAddr is a std::set ordered by operator< of CNetAddr                *)
(* (protocol.h:167), which compares the 16 bytes of the ip and not the     *)
(* port: two services of one ip are one element, the first one seen.       *)
(* mSeedAddr points into that set; here it is the sequence of the services *)
(* pointed to.  addNewAddr also hands the address to the reporter, if there*)
(* is one: module HttpReporter composes the two.                           *)
(***************************************************************************)
EXTENDS Naturals, Sequences

CONSTANTS Ips,    \* the ip addresses
          Ports   \* the ports

VARIABLES mSeenAddr,  \* std::set<CService>: every address ever added
          mSeedAddr   \* std::deque<const CService *>: the ones not yet drained

seedVars == <<mSeenAddr, mSeedAddr>>

CService == [ip : Ips, port : Ports]

\* Neither address is less than the other: std::set takes them for one element.
SameAddr(a, b) == a.ip = b.ip

SeedInit ==
  /\ mSeenAddr = {}
  /\ mSeedAddr = <<>>

\* A duplicate returns before anything is changed.
addNewAddr(addr) ==
  IF \E seen \in mSeenAddr : SameAddr(seen, addr)
  THEN UNCHANGED seedVars
  ELSE /\ mSeenAddr' = mSeenAddr \cup {addr}
       /\ mSeedAddr' = Append(mSeedAddr, addr)

\* Mutant of DrainedSize: fewer seeds than asked for are left for later.
DrainedSize_FullOnly(size) == IF size <= Len(mSeedAddr) THEN size ELSE 0

\* What getNewAddrs(addrs, size, false) leaves in size: 0 when there is no seed.
DrainedSize(size) ==
  IF size <= Len(mSeedAddr) THEN size ELSE Len(mSeedAddr)

\* What it appends to addrs.
DrainedAddrs(size) == SubSeq(mSeedAddr, 1, DrainedSize(size))

\* wait is false in the only call (network.cpp:349): it never blocks.
getNewAddrs(size) ==
  /\ mSeedAddr' = SubSeq(mSeedAddr, DrainedSize(size) + 1, Len(mSeedAddr))
  /\ UNCHANGED mSeenAddr

-------------------------------------------------------------------------------
SeedTypeOK ==
  /\ mSeenAddr \subseteq CService
  /\ mSeedAddr \in Seq(CService)
===============================================================================
