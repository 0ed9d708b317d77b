-------------------------- MODULE NetworkEngineProofs --------------------------
(***************************************************************************)
(* Invariants of NetworkEngine, for every set of descriptors and addresses,*)
(* every limit on the connections, both builds and every choice of the     *)
(* calls that may fail.                                                    *)
(***************************************************************************)
EXTENDS NetworkEngine, SequenceLemmas

-------------------------------------------------------------------------------
(* What the two operations of CAddrSeed preserve. *)

LEMMA AddNewAddrType ==
  ASSUME SeedTypeOK, NEW addr \in CService, addNewAddr(addr)
  PROVE  SeedTypeOK'
<1>1. CASE UNCHANGED seedVars
  BY <1>1 DEF SeedTypeOK, seedVars
<1>2. CASE /\ mSeenAddr' = mSeenAddr \cup {addr}
           /\ mSeedAddr' = Append(mSeedAddr, addr)
  BY <1>2, AppendProperties DEF SeedTypeOK
<1>3. QED BY <1>1, <1>2 DEF addNewAddr

LEMMA DrainType ==
  ASSUME SeedTypeOK, NEW size \in Nat
  PROVE  /\ DrainedSize(size) \in 0 .. Len(mSeedAddr)
         /\ DrainedAddrs(size) \in Seq(CService)
         /\ Len(DrainedAddrs(size)) = DrainedSize(size)
         /\ getNewAddrs(size) => SeedTypeOK'
<1>1. DrainedSize(size) \in 0 .. Len(mSeedAddr)
  BY LenProperties DEF DrainedSize, SeedTypeOK
<1>2. QED BY <1>1, Split DEF DrainedAddrs, getNewAddrs, SeedTypeOK

-------------------------------------------------------------------------------
(* Type correctness. *)

LEMMA CallbackFailedType ==
  ASSUME TypeOK, NEW f \in Fds, CallbackFailed(f)
  PROVE  /\ sp' \in [Fds -> {"none", "in", "inout"}]
         /\ writeEnabled' \in [Fds -> BOOLEAN]
         /\ closeSocks' \in Seq(Fds)
BY AppendProperties DEF TypeOK, CallbackFailed, sp_del

LEMMA CallbackDoneType ==
  ASSUME TypeOK, NEW f \in Fds, NEW moreWrite \in BOOLEAN,
         CallbackDone(f, moreWrite)
  PROVE  /\ sp' \in [Fds -> {"none", "in", "inout"}]
         /\ writeEnabled' \in [Fds -> BOOLEAN]
         /\ closeSocks' \in Seq(Fds)
<1>1. writeEnabled' \in [Fds -> BOOLEAN]
  BY DEF TypeOK, CallbackDone
<1>2. sp' \in [Fds -> {"none", "in", "inout"}]
  <2>1. CASE moreWrite
    BY <2>1 DEF TypeOK, CallbackDone
  <2>2. CASE ~moreWrite
    BY <2>2 DEF TypeOK, CallbackDone
  <2>3. QED BY <2>1, <2>2
<1>3. closeSocks' \in Seq(Fds)
  BY DEF TypeOK, CallbackDone
<1>4. QED BY <1>1, <1>2, <1>3

LEMMA CloseConnectionType ==
  ASSUME TypeOK, NEW sock \in Fds, closeConnection(sock)
  PROVE  /\ status' \in [Fds -> Status \cup {"none"}]
         /\ sending' \in [Fds -> BOOLEAN]
         /\ callbacks' \subseteq Fds
         /\ fdTable' \in [Fds -> {"free", "engine", "other"}]
<1>1. CASE sock \in connections
  BY <1>1 DEF TypeOK, closeConnection
<1>2. CASE sock \notin connections
  BY <1>2 DEF TypeOK, closeConnection
<1>3. QED BY <1>1, <1>2

\* The loop over the batch enters its body with an address: Tail(addrs) is one.
InBatch == pc = "initiate" => addrs # <<>>

LEMMA NextAddrType ==
  ASSUME TypeOK, InBatch, NextAddr
  PROVE  addrs' \in Seq(CService) /\ pc' = "room" /\ Len(addrs') = Len(addrs) - 1
BY HeadTailProperties DEF TypeOK, InBatch, NextAddr

LEMMA InitType == Init => TypeOK /\ InBatch
BY EmptySeq DEF Init, SeedInit, TypeOK, SeedTypeOK, InBatch

LEMMA NextBatch == InBatch /\ [Next]_vars => InBatch'
BY DEF InBatch, Next, Engine, initEngineFails, Connect, Dispatch, OtherThread,
       AddDNSSeed, StartEngine, Drain, HaveRoom, Evict, InitiateSocketFails,
       InitiateSetupFails, InitiateAddFails, InitiateOK, sp_add, NextAddr,
       BatchDone, WaitForNothing, Wait, HandleWrite, NextEvent, ReadFails,
       BeginRead, HandleError, ReadAddr, EndRead, CloseNext, DispatchDone,
       OtherOpens, OtherCloses, vars, loopVars

LEMMA NextType == TypeOK /\ InBatch /\ [Next]_vars => TypeOK'
<1> SUFFICES ASSUME TypeOK, InBatch, [Next]_vars PROVE TypeOK'
  OBVIOUS
<1>1. ASSUME NEW addr \in CService, AddDNSSeed(addr) PROVE TypeOK'
  BY <1>1, AddNewAddrType
     DEF TypeOK, historyVars, AddDNSSeed, connVars, kernelVars, loopVars
<1>2. CASE StartEngine
  BY <1>2 DEF TypeOK, SeedTypeOK, historyVars, StartEngine, seedVars, connVars,
              kernelVars
<1>3. CASE Drain
  <2>1. DrainSize \in Nat /\ SeedTypeOK /\ Len(mSeedAddr) \in Nat
    BY SizesAssumption, LenProperties DEF TypeOK, SeedTypeOK
  <2>2. addrs' \in Seq(CService) /\ newSize' \in Nat /\ SeedTypeOK'
    BY <1>3, <2>1, DrainType DEF Drain
  <2>3. QED BY <1>3, <2>2 DEF TypeOK, Drain, connVars, kernelVars
<1>4. CASE HaveRoom
  BY <1>4 DEF TypeOK, SeedTypeOK, historyVars, HaveRoom, seedVars, connVars,
              kernelVars
<1>5. CASE Evict
  <2>1. Head(qSocks) \in Fds /\ Tail(qSocks) \in Seq(Fds)
    BY <1>5, HeadTailProperties DEF TypeOK, Evict
  <2>2. QED
    BY <1>5, <2>1, CloseConnectionType
       DEF TypeOK, SeedTypeOK, historyVars, Evict, sp_del, seedVars
<1>6. CASE InitiateSocketFails
  BY <1>6, NextAddrType
     DEF TypeOK, SeedTypeOK, historyVars, InitiateSocketFails, NextAddr, seedVars,
         connVars, kernelVars
<1>7. ASSUME NEW sock \in Fds, InitiateSetupFails(sock) PROVE TypeOK'
  BY <1>7, NextAddrType
     DEF TypeOK, SeedTypeOK, historyVars, CountMiss, InitiateSetupFails, NextAddr,
         addConnection, Status, seedVars, kernelVars
<1>8. ASSUME NEW sock \in Fds, InitiateAddFails(sock) PROVE TypeOK'
  BY <1>8, NextAddrType, AppendProperties
     DEF TypeOK, SeedTypeOK, historyVars, CountMiss, InitiateAddFails, NextAddr,
         sp_del, seedVars
<1>9. ASSUME NEW sock \in Fds, NEW s \in {"CONNECTING", "CONNECTED"},
             InitiateOK(sock, s)
      PROVE  TypeOK'
  BY <1>9, NextAddrType, AppendProperties
     DEF TypeOK, SeedTypeOK, historyVars, CountMiss, InitiateOK, sp_add, NextAddr,
         addConnection, Status, seedVars
<1>10. CASE BatchDone
  BY <1>10 DEF TypeOK, SeedTypeOK, historyVars, BatchDone, seedVars, connVars,
               kernelVars
<1>11. CASE WaitForNothing
  BY <1>11
     DEF TypeOK, SeedTypeOK, historyVars, WaitForNothing, seedVars, connVars,
         kernelVars
<1>12. ASSUME NEW E \in EventBatches, Wait(E) PROVE TypeOK'
  BY <1>12
     DEF TypeOK, SeedTypeOK, historyVars, EventBatches, Wait, seedVars, connVars,
         kernelVars
<1>13. ASSUME NEW e \in events, NEW ok \in BOOLEAN, NEW moreWrite \in BOOLEAN,
              HandleWrite(e, ok, moreWrite)
       PROVE  TypeOK'
  <2>1. e.fd \in Fds
    BY DEF TypeOK, Event
  <2>2. /\ sp' \in [Fds -> {"none", "in", "inout"}]
        /\ writeEnabled' \in [Fds -> BOOLEAN]
        /\ closeSocks' \in Seq(Fds)
    BY <1>13, <2>1, CallbackFailedType, CallbackDoneType DEF HandleWrite
  <2>3. status' \in [Fds -> Status \cup {"none"}] /\ sending' \in [Fds -> BOOLEAN]
    BY <1>13, <2>1 DEF TypeOK, HandleWrite, Status, VersionDue
  <2>4. QED
    BY <1>13, <2>2, <2>3
       DEF TypeOK, SeedTypeOK, historyVars, HandleWrite, NextEvent, seedVars
<1>14. ASSUME NEW e \in events, ReadFails(e) PROVE TypeOK'
  <2>1. e.fd \in Fds
    BY DEF TypeOK, Event
  <2>2. QED
    BY <1>14, <2>1, CallbackFailedType
       DEF TypeOK, SeedTypeOK, historyVars, ReadFails, NextEvent, seedVars,
           connVars
<1>15. ASSUME NEW e \in events, BeginRead(e) PROVE TypeOK'
  BY <1>15
     DEF TypeOK, SeedTypeOK, historyVars, BeginRead, NextEvent, Event, seedVars,
         connVars, kernelVars
<1>16. ASSUME NEW e \in events, HandleError(e) PROVE TypeOK'
  <2>1. e.fd \in Fds
    BY DEF TypeOK, Event
  <2>2. QED
    BY <1>16, <2>1, CallbackFailedType
       DEF TypeOK, SeedTypeOK, historyVars, HandleError, NextEvent, seedVars,
           connVars
<1>17. ASSUME NEW addr \in CService, ReadAddr(addr) PROVE TypeOK'
  BY <1>17, AddNewAddrType
     DEF TypeOK, historyVars, ReadAddr, connVars, kernelVars, loopVars
<1>18. ASSUME NEW ok \in BOOLEAN, NEW replied \in BOOLEAN, EndRead(ok, replied)
       PROVE  TypeOK'
  <2>1. reading \in Fds
    BY <1>18 DEF TypeOK, EndRead
  <2>2. sending' \in [Fds -> BOOLEAN] /\ sending'[reading] \in BOOLEAN
    BY <1>18, <2>1 DEF TypeOK, EndRead
  <2>3. /\ sp' \in [Fds -> {"none", "in", "inout"}]
        /\ writeEnabled' \in [Fds -> BOOLEAN]
        /\ closeSocks' \in Seq(Fds)
    BY <1>18, <2>1, <2>2, CallbackFailedType, CallbackDoneType DEF EndRead
  <2>4. QED
    BY <1>18, <2>2, <2>3 DEF TypeOK, SeedTypeOK, historyVars, EndRead, seedVars
<1>19. CASE CloseNext
  <2>1. Head(closeSocks) \in Fds /\ Tail(closeSocks) \in Seq(Fds)
    BY <1>19, HeadTailProperties DEF TypeOK, CloseNext
  <2>2. QED
    BY <1>19, <2>1, CloseConnectionType
       DEF TypeOK, SeedTypeOK, historyVars, CloseNext, sp_del, seedVars
<1>20. CASE DispatchDone
  BY <1>20
     DEF TypeOK, SeedTypeOK, historyVars, DispatchDone, seedVars, connVars,
         kernelVars
<1>21. ASSUME NEW f \in Fds, OtherOpens(f) PROVE TypeOK'
  BY <1>21
     DEF TypeOK, SeedTypeOK, historyVars, OtherOpens, seedVars, connVars, loopVars
<1>22. ASSUME NEW f \in Fds, OtherCloses(f) PROVE TypeOK'
  BY <1>22
     DEF TypeOK, SeedTypeOK, historyVars, OtherCloses, sp_del, seedVars, connVars,
         loopVars
<1>23. CASE UNCHANGED vars
  BY <1>23
     DEF TypeOK, SeedTypeOK, historyVars, vars, seedVars, connVars, kernelVars,
         loopVars
<1>24. CASE initEngineFails
  BY <1>24
     DEF TypeOK, SeedTypeOK, historyVars, initEngineFails, seedVars, connVars,
         kernelVars
<1>25. QED
  BY <1>1, <1>2, <1>3, <1>4, <1>5, <1>6, <1>7, <1>8, <1>9, <1>10, <1>11, <1>12,
     <1>13, <1>14, <1>15, <1>16, <1>17, <1>18, <1>19, <1>20, <1>21, <1>22, <1>23, <1>24
     DEF Next, Engine, Connect, Dispatch, OtherThread

\* Every variable keeps its type: in particular the descriptor a callback hands
\* back (rsock) and the head of qSocks are descriptors, never a default value.
THEOREM TypeCorrect == Spec => []TypeOK
BY InitType, NextBatch, NextType, PTL DEF Spec

-------------------------------------------------------------------------------
(* The steps that move the program counter or the addresses and leave every   *)
(* table of descriptors alone: no invariant below can be disturbed by them.   *)

Quiet ==
  \/ \E addr \in CService : AddDNSSeed(addr) \/ ReadAddr(addr)
  \/ StartEngine \/ initEngineFails \/ Drain \/ HaveRoom
  \/ InitiateSocketFails
  \/ BatchDone \/ WaitForNothing \/ DispatchDone
  \/ UNCHANGED vars

tables == <<connVars, kernelVars, writeEnabled, events, reading, closeSocks>>

LEMMA QuietFrame == Quiet => UNCHANGED tables
BY DEF Quiet, tables, vars, AddDNSSeed, ReadAddr, StartEngine, initEngineFails,
       Drain, HaveRoom,
       InitiateSocketFails, NextAddr, BatchDone, WaitForNothing, DispatchDone,
       loopVars

\* The other steps, one by one.
LEMMA StepCases ==
  ASSUME [Next]_vars
  PROVE  \/ Quiet
         \/ Evict
         \/ \E sock \in Fds : InitiateSetupFails(sock)
         \/ \E sock \in Fds : InitiateAddFails(sock)
         \/ \E sock \in Fds, s \in {"CONNECTING", "CONNECTED"} : InitiateOK(sock, s)
         \/ \E E \in EventBatches : Wait(E)
         \/ \E e \in events, ok, moreWrite \in BOOLEAN : HandleWrite(e, ok, moreWrite)
         \/ \E e \in events : ReadFails(e)
         \/ \E e \in events : BeginRead(e)
         \/ \E e \in events : HandleError(e)
         \/ \E ok, replied \in BOOLEAN : EndRead(ok, replied)
         \/ CloseNext
         \/ \E f \in Fds : OtherOpens(f)
         \/ \E f \in Fds : OtherCloses(f)
BY DEF Next, Engine, Connect, Dispatch, OtherThread, Quiet

-------------------------------------------------------------------------------
(* The tables agree. *)

\* Events, the running callback and deferred closes exist only in a dispatch.
OnlyInDispatch ==
  pc # "dispatch" => events = {} /\ reading = NoFd /\ closeSocks = <<>>

\* The kernel watches only descriptors the engine has open.
WatchedOwned == \A f \in Fds : sp[f] # "none" => fdTable[f] = "engine"

LEMMA NextOnlyInDispatch == OnlyInDispatch /\ [Next]_vars => OnlyInDispatch'
BY DEF OnlyInDispatch, Next, initEngineFails, Engine, Connect, Dispatch,
       OtherThread, AddDNSSeed, StartEngine, Drain, HaveRoom, Evict,
       InitiateSocketFails, InitiateSetupFails, InitiateAddFails, InitiateOK,
       sp_add, NextAddr, BatchDone, WaitForNothing, Wait, HandleWrite, NextEvent,
       ReadFails, BeginRead, HandleError, ReadAddr, EndRead, CloseNext,
       DispatchDone, OtherOpens, OtherCloses, vars, loopVars

\* What the two ends of a callback do to the interest set.
LEMMA CallbackEnds ==
  ASSUME TypeOK, NEW f \in Fds, NEW moreWrite \in BOOLEAN,
         CallbackFailed(f) \/ CallbackDone(f, moreWrite)
  PROVE  \A g \in Fds : sp'[g] # "none" => sp[g] # "none"
<1>1. CASE CallbackFailed(f)
  BY <1>1 DEF TypeOK, CallbackFailed, sp_del
<1>2. CASE CallbackDone(f, moreWrite) /\ sp' = sp
  BY <1>2
<1>3. CASE /\ CallbackDone(f, moreWrite)
           /\ sp[f] # "none"
           /\ sp' = [sp EXCEPT ![f] = IF moreWrite THEN "inout" ELSE "in"]
  BY <1>3 DEF TypeOK
<1>4. QED BY <1>1, <1>2, <1>3 DEF CallbackDone

Agree == TypeOK /\ OnlyInDispatch /\ CallbacksAlive /\ WatchedOwned

LEMMA InitAgree == Init => CallbacksAlive /\ WatchedOwned /\ OnlyInDispatch
BY DEF Init, CallbacksAlive, WatchedOwned, OnlyInDispatch

LEMMA NextAgree == Agree /\ [Next]_vars => CallbacksAlive' /\ WatchedOwned'
<1> SUFFICES ASSUME Agree, [Next]_vars PROVE CallbacksAlive' /\ WatchedOwned'
  OBVIOUS
<1> USE DEF Agree
<1>1. CASE Quiet
  BY <1>1, QuietFrame
     DEF CallbacksAlive, WatchedOwned, connections, tables, connVars, kernelVars
<1>2. CASE Evict
  <2>1. Head(qSocks) \in Fds /\ pc # "dispatch"
    BY <1>2, HeadTailProperties DEF TypeOK, Evict
  <2>2. events' = {} /\ reading' = NoFd
    BY <1>2, <2>1 DEF OnlyInDispatch, Evict
  <2>3. QED
    BY <1>2, <2>1, <2>2
       DEF TypeOK, CallbacksAlive, WatchedOwned, connections, Evict, sp_del,
           closeConnection
<1>3. ASSUME NEW sock \in Fds, InitiateSetupFails(sock)
      PROVE  CallbacksAlive' /\ WatchedOwned'
  BY <1>3
     DEF TypeOK, CallbacksAlive, WatchedOwned, connections, InitiateSetupFails,
         NextAddr, addConnection, kernelVars
<1>4. ASSUME NEW sock \in Fds, InitiateAddFails(sock)
      PROVE  CallbacksAlive' /\ WatchedOwned'
  <2>1. events' = {} /\ reading' = NoFd
    BY <1>4 DEF OnlyInDispatch, InitiateAddFails, NextAddr
  <2>2. QED
    BY <1>4, <2>1
       DEF TypeOK, CallbacksAlive, WatchedOwned, connections, InitiateAddFails,
           sp_del
<1>5. ASSUME NEW sock \in Fds, NEW s \in {"CONNECTING", "CONNECTED"},
             InitiateOK(sock, s)
      PROVE  CallbacksAlive' /\ WatchedOwned'
  BY <1>5
     DEF TypeOK, CallbacksAlive, WatchedOwned, connections, InitiateOK, sp_add,
         NextAddr, addConnection
<1>6. ASSUME NEW E \in EventBatches, Wait(E)
      PROVE  CallbacksAlive' /\ WatchedOwned'
  BY <1>6
     DEF TypeOK, CallbacksAlive, WatchedOwned, connections, Wait, EventBatches,
         Reportable, Event, connVars, kernelVars
<1>7. ASSUME NEW e \in events, NEW ok \in BOOLEAN, NEW moreWrite \in BOOLEAN,
             HandleWrite(e, ok, moreWrite)
      PROVE  CallbacksAlive' /\ WatchedOwned'
  <2>1. e.fd \in Fds
    BY DEF TypeOK, Event
  <2>2. \A g \in Fds : sp'[g] # "none" => sp[g] # "none"
    BY <1>7, <2>1, CallbackEnds DEF HandleWrite
  <2>3. connections \subseteq connections'
    BY <1>7, <2>1 DEF TypeOK, HandleWrite, connections
  <2>4. QED
    BY <1>7, <2>2, <2>3
       DEF TypeOK, CallbacksAlive, WatchedOwned, HandleWrite, NextEvent
<1>8. ASSUME NEW e \in events, ReadFails(e) \/ HandleError(e)
      PROVE  CallbacksAlive' /\ WatchedOwned'
  <2>1. e.fd \in Fds
    BY DEF TypeOK, Event
  <2>2. \A g \in Fds : sp'[g] # "none" => sp[g] # "none"
    BY <1>8, <2>1, CallbackEnds DEF ReadFails, HandleError
  <2>3. QED
    BY <1>8, <2>2
       DEF TypeOK, CallbacksAlive, WatchedOwned, connections, ReadFails,
           HandleError, NextEvent, connVars
<1>9. ASSUME NEW e \in events, BeginRead(e)
      PROVE  CallbacksAlive' /\ WatchedOwned'
  BY <1>9
     DEF TypeOK, CallbacksAlive, WatchedOwned, connections, BeginRead, NextEvent,
         Event, connVars, kernelVars
<1>10. ASSUME NEW ok \in BOOLEAN, NEW replied \in BOOLEAN, EndRead(ok, replied)
       PROVE  CallbacksAlive' /\ WatchedOwned'
  <2>1. reading \in Fds /\ sending'[reading] \in BOOLEAN
    BY <1>10 DEF TypeOK, EndRead
  <2>2. \A g \in Fds : sp'[g] # "none" => sp[g] # "none"
    BY <1>10, <2>1, CallbackEnds DEF EndRead
  <2>3. QED
    BY <1>10, <2>2
       DEF TypeOK, CallbacksAlive, WatchedOwned, connections, EndRead
<1>11. CASE CloseNext
  <2>1. Head(closeSocks) \in Fds
    BY <1>11, HeadTailProperties DEF TypeOK, CloseNext
  <2>2. QED
    BY <1>11, <2>1
       DEF TypeOK, CallbacksAlive, WatchedOwned, connections, CloseNext, sp_del,
           closeConnection
<1>12. ASSUME NEW f \in Fds, OtherOpens(f)
       PROVE  CallbacksAlive' /\ WatchedOwned'
  BY <1>12
     DEF TypeOK, CallbacksAlive, WatchedOwned, connections, OtherOpens,
         LowestFree, FreeFds, connVars, loopVars
<1>13. ASSUME NEW f \in Fds, OtherCloses(f)
       PROVE  CallbacksAlive' /\ WatchedOwned'
  BY <1>13
     DEF TypeOK, CallbacksAlive, WatchedOwned, connections, OtherCloses, sp_del,
         connVars, loopVars
<1>14. QED
  BY <1>1, <1>2, <1>3, <1>4, <1>5, <1>6, <1>7, <1>8, <1>9, <1>10, <1>11, <1>12,
     <1>13, StepCases

\* The callback an event points to exists when it is dispatched, whatever was
\* evicted, closed or reopened under the same descriptor before.
THEOREM CallbacksStayAlive == Spec => []CallbacksAlive
<1>1. Init => Agree /\ InBatch
  BY InitType, InitAgree DEF Agree
<1>2. Agree /\ InBatch /\ [Next]_vars => (Agree /\ InBatch)'
  BY NextType, NextBatch, NextOnlyInDispatch, NextAgree DEF Agree
<1>3. Agree => CallbacksAlive
  BY DEF Agree
<1>4. QED BY <1>1, <1>2, <1>3, PTL DEF Spec

-------------------------------------------------------------------------------
(* writeEnabled and the kernel's write interest. *)

LEMMA CallbackMirrors ==
  ASSUME TypeOK, InterestMirrored, NEW f \in Fds, NEW moreWrite \in BOOLEAN,
         CallbackFailed(f) \/ CallbackDone(f, moreWrite)
  PROVE  InterestMirrored'
<1>1. CASE CallbackFailed(f)
  BY <1>1 DEF TypeOK, InterestMirrored, CallbackFailed, sp_del
<1>2. CASE CallbackDone(f, moreWrite) /\ sp[f] = "none"
  BY <1>2 DEF TypeOK, InterestMirrored, CallbackDone
<1>3. CASE CallbackDone(f, moreWrite) /\ writeEnabled[f] = moreWrite
  <2>1. writeEnabled' = writeEnabled /\ sp' = sp
    BY <1>3 DEF TypeOK, CallbackDone
  <2>2. QED BY <2>1 DEF InterestMirrored
<1>4. CASE /\ CallbackDone(f, moreWrite)
           /\ sp[f] # "none"
           /\ writeEnabled[f] # moreWrite
  <2>1. sp' = [sp EXCEPT ![f] = IF moreWrite THEN "inout" ELSE "in"]
    BY <1>4 DEF CallbackDone
  <2>2. writeEnabled' = [writeEnabled EXCEPT ![f] = moreWrite]
    BY <1>4 DEF CallbackDone
  <2>3. CASE moreWrite
    BY <2>1, <2>2, <2>3 DEF TypeOK, InterestMirrored
  <2>4. CASE ~moreWrite
    BY <2>1, <2>2, <2>4 DEF TypeOK, InterestMirrored
  <2>5. QED BY <2>3, <2>4
<1>5. QED BY <1>1, <1>2, <1>3, <1>4

LEMMA NextMirrored ==
  TypeOK /\ InterestMirrored /\ [Next]_vars => InterestMirrored'
<1> SUFFICES ASSUME TypeOK, InterestMirrored, [Next]_vars PROVE InterestMirrored'
  OBVIOUS
<1>1. CASE Quiet
  BY <1>1, QuietFrame DEF InterestMirrored, tables, kernelVars
<1>2. CASE Evict \/ CloseNext
  <2>1. PICK f \in Fds : sp' = [sp EXCEPT ![f] = "none"]
    BY <1>2, HeadTailProperties DEF TypeOK, Evict, CloseNext, sp_del
  <2>2. QED
    BY <1>2, <2>1 DEF TypeOK, InterestMirrored, Evict, CloseNext
<1>3. ASSUME NEW sock \in Fds,
             InitiateSetupFails(sock) \/ InitiateAddFails(sock) \/ OtherCloses(sock)
      PROVE  InterestMirrored'
  <2>1. writeEnabled' = writeEnabled /\ \A g \in Fds : sp'[g] # "none" => sp'[g] = sp[g]
    BY <1>3
       DEF TypeOK, InitiateSetupFails, InitiateAddFails, OtherCloses, sp_del,
           kernelVars
  <2>2. QED BY <2>1 DEF InterestMirrored
<1>4. ASSUME NEW sock \in Fds, NEW s \in {"CONNECTING", "CONNECTED"},
             InitiateOK(sock, s)
      PROVE  InterestMirrored'
  BY <1>4 DEF TypeOK, InterestMirrored, InitiateOK, sp_add
<1>5. ASSUME NEW E \in EventBatches, Wait(E) PROVE InterestMirrored'
  BY <1>5 DEF InterestMirrored, Wait, kernelVars
<1>6. ASSUME NEW e \in events, NEW ok \in BOOLEAN, NEW moreWrite \in BOOLEAN,
             HandleWrite(e, ok, moreWrite)
      PROVE  InterestMirrored'
  <2>1. e.fd \in Fds
    BY DEF TypeOK, Event
  <2>2. QED BY <1>6, <2>1, CallbackMirrors DEF HandleWrite
<1>7. ASSUME NEW e \in events, ReadFails(e) \/ HandleError(e)
      PROVE  InterestMirrored'
  <2>1. e.fd \in Fds
    BY DEF TypeOK, Event
  <2>2. QED BY <1>7, <2>1, CallbackMirrors DEF ReadFails, HandleError
<1>8. ASSUME NEW e \in events, BeginRead(e) PROVE InterestMirrored'
  BY <1>8 DEF InterestMirrored, BeginRead, kernelVars
<1>9. ASSUME NEW ok \in BOOLEAN, NEW replied \in BOOLEAN, EndRead(ok, replied)
      PROVE  InterestMirrored'
  <2>1. reading \in Fds /\ sending'[reading] \in BOOLEAN
    BY <1>9 DEF TypeOK, EndRead
  <2>2. QED BY <1>9, <2>1, CallbackMirrors DEF EndRead
<1>10. ASSUME NEW f \in Fds, OtherOpens(f) PROVE InterestMirrored'
  BY <1>10 DEF InterestMirrored, OtherOpens
<1>11. QED
  BY <1>1, <1>2, <1>3, <1>4, <1>5, <1>6, <1>7, <1>8, <1>9, <1>10, StepCases

\* writeEnabled is never stale for a registered descriptor, although closing a
\* connection does not reset it.
THEOREM InterestStaysMirrored == Spec => []InterestMirrored
<1>1. Init => TypeOK /\ InBatch /\ InterestMirrored
  BY InitType DEF Init, InterestMirrored
<1>2. TypeOK /\ InBatch /\ InterestMirrored /\ [Next]_vars
        => (TypeOK /\ InBatch /\ InterestMirrored)'
  BY NextType, NextBatch, NextMirrored
<1>3. QED BY <1>1, <1>2, PTL DEF Spec

-------------------------------------------------------------------------------
(* Every served connection is in qSocks. *)

\* A connection that is served can be chosen by a later eviction.
Evictable == callbacks \subseteq Range(qSocks)

LEMMA NextEvictable ==
  Agree /\ Evictable /\ [Next]_vars => Evictable'
<1> SUFFICES ASSUME Agree, Evictable, [Next]_vars PROVE Evictable'
  OBVIOUS
<1> USE DEF Agree
<1>1. CASE Quiet
  BY <1>1, QuietFrame DEF Evictable, tables, connVars
<1>2. CASE Evict
  <2>1. Range(qSocks) = Range(qSocks') \cup {Head(qSocks)}
    BY <1>2, RangeTail DEF TypeOK, Evict
  <2>2. callbacks' = callbacks \ {Head(qSocks)}
    BY <1>2 DEF CallbacksAlive, Evict, closeConnection
  <2>3. QED BY <2>1, <2>2 DEF Evictable
<1>3. ASSUME NEW sock \in Fds, InitiateSetupFails(sock) PROVE Evictable'
  BY <1>3 DEF Evictable, InitiateSetupFails
<1>4. ASSUME NEW sock \in Fds, InitiateAddFails(sock) PROVE Evictable'
  <2>1. Range(qSocks') = Range(qSocks) \cup {sock}
    BY <1>4, RangeAppend DEF TypeOK, InitiateAddFails
  <2>2. QED BY <1>4, <2>1 DEF Evictable, InitiateAddFails
<1>5. ASSUME NEW sock \in Fds, NEW s \in {"CONNECTING", "CONNECTED"},
             InitiateOK(sock, s)
      PROVE  Evictable'
  <2>1. Range(qSocks') = Range(qSocks) \cup {sock}
    BY <1>5, RangeAppend DEF TypeOK, InitiateOK, sp_add
  <2>2. QED BY <1>5, <2>1 DEF Evictable, InitiateOK, sp_add
<1>6. CASE CloseNext
  BY <1>6 DEF Evictable, CloseNext, closeConnection
<1>7. ASSUME UNCHANGED <<callbacks, qSocks>> PROVE Evictable'
  BY <1>7 DEF Evictable
<1>8. QED
  BY <1>1, <1>2, <1>3, <1>4, <1>5, <1>6, <1>7, StepCases
     DEF Wait, HandleWrite, ReadFails, BeginRead, HandleError, EndRead,
         OtherOpens, OtherCloses, connVars

-------------------------------------------------------------------------------
(* nPendingEvents.  A batch is counted when it is over, so while it runs the   *)
(* addresses already tried are owed to the counter.                            *)

SlotsCovered ==
  /\ pc # "exited"
  /\ pc \in {"room", "initiate"}
       => nPendingEvents + newSize - Len(addrs) >= Len(qSocks)
  /\ pc \notin {"room", "initiate"} => nPendingEvents >= Len(qSocks)

LEMMA NextSlots ==
  ASSUME "add" \notin FailOps, TypeOK, InBatch, SlotsCovered, [Next]_vars
  PROVE  SlotsCovered'
<1>0. Len(qSocks) \in Nat /\ Len(addrs) \in Nat /\ Len(<<>>) = 0
  BY LenProperties, EmptySeq DEF TypeOK
<1>1. ASSUME UNCHANGED <<pc, qSocks, addrs, newSize, nPendingEvents>>
      PROVE  SlotsCovered'
  BY <1>1 DEF SlotsCovered
<1>2. CASE Drain
  <2>1. DrainSize \in Nat /\ SeedTypeOK
    BY SizesAssumption DEF TypeOK
  <2>2. Len(addrs') = newSize' /\ newSize' \in Nat
    BY <1>2, <2>1, DrainType, LenProperties DEF Drain, SeedTypeOK
  <2>3. QED
    BY <1>0, <1>2, <2>2 DEF TypeOK, SlotsCovered, Drain, connVars
<1>3. CASE Evict
  <2>1. Len(qSocks') = Len(qSocks) - 1
    BY <1>3, HeadTailProperties DEF TypeOK, Evict
  <2>2. QED BY <1>0, <1>3, <2>1 DEF TypeOK, SlotsCovered, Evict
<1>4. CASE InitiateSocketFails
  BY <1>0, <1>4, NextAddrType
     DEF TypeOK, SlotsCovered, InitiateSocketFails, NextAddr, connVars
<1>5. ASSUME NEW sock \in Fds, InitiateSetupFails(sock) PROVE SlotsCovered'
  BY <1>0, <1>5, NextAddrType
     DEF TypeOK, SlotsCovered, InitiateSetupFails, NextAddr
<1>6. ASSUME NEW sock \in Fds, InitiateAddFails(sock) PROVE SlotsCovered'
  BY <1>6 DEF InitiateAddFails
<1>7. ASSUME NEW sock \in Fds, NEW s \in {"CONNECTING", "CONNECTED"},
             InitiateOK(sock, s)
      PROVE  SlotsCovered'
  <2>1. Len(qSocks') = Len(qSocks) + 1
    BY <1>7, AppendProperties DEF TypeOK, InitiateOK, sp_add
  <2>2. /\ pc = "initiate" /\ pc' = "room" /\ Len(addrs') = Len(addrs) - 1
        /\ newSize' = newSize /\ nPendingEvents' = nPendingEvents
    BY <1>7, NextAddrType DEF InitiateOK, sp_add, NextAddr
  <2>3. QED BY <1>0, <2>1, <2>2 DEF TypeOK, SlotsCovered
<1>8. CASE BatchDone
  BY <1>0, <1>8 DEF TypeOK, SlotsCovered, BatchDone, connVars
<1>9. CASE StartEngine \/ initEngineFails \/ HaveRoom \/ WaitForNothing \/ DispatchDone
  BY <1>9
     DEF TypeOK, SlotsCovered, StartEngine, initEngineFails, HaveRoom,
         WaitForNothing, DispatchDone, connVars
<1>10. ASSUME NEW E \in EventBatches, Wait(E) PROVE SlotsCovered'
  BY <1>10 DEF SlotsCovered, Wait, connVars
<1>11. QED
  BY <1>1, <1>2, <1>3, <1>4, <1>5, <1>6, <1>7, <1>8, <1>9, <1>10
     DEF Next, Engine, Connect, Dispatch, OtherThread, AddDNSSeed, HandleWrite,
         NextEvent, ReadFails, BeginRead, HandleError, ReadAddr, EndRead,
         CloseNext, OtherOpens, OtherCloses, vars, loopVars, connVars

LEMMA SlotsSuffice ==
  ASSUME TypeOK, CallbacksAlive, Evictable, SlotsCovered
  PROVE  EventSlots
<1>1. registered \in SUBSET Range(qSocks)
  BY DEF registered, CallbacksAlive, Evictable
<1>2. IsFiniteSet(Range(qSocks)) /\ Cardinality(Range(qSocks)) <= Len(qSocks)
  BY RangeSize DEF TypeOK
<1>3. Cardinality(registered) <= Cardinality(Range(qSocks))
  BY <1>1, <1>2, FS_Subset
<1>4. Cardinality(registered) \in Nat /\ Cardinality(Range(qSocks)) \in Nat
  BY <1>1, <1>2, FS_Subset, FS_CardinalityType
<1>5. Len(qSocks) \in Nat
  BY LenProperties DEF TypeOK
<1>6. QED BY <1>2, <1>3, <1>4, <1>5 DEF TypeOK, SlotsCovered, EventSlots

\* Unless sp_add fails, sp_wait has room for every registered descriptor and
\* nPendingEvents never goes negative, however often qSocks is popped for
\* connections closed long before.
THEOREM EventSlotsSuffice ==
  ASSUME "add" \notin FailOps
  PROVE  Spec => []EventSlots
<1> DEFINE Inv == Agree /\ InBatch /\ Evictable /\ SlotsCovered
<1>1. Init => Inv
  BY InitType, InitAgree, EmptySeq DEF Agree, Init, Evictable, SlotsCovered
<1>2. Inv /\ [Next]_vars => Inv'
  BY NextType, NextBatch, NextOnlyInDispatch, NextAgree, NextEvictable,
     NextSlots
     DEF Agree
<1>3. Inv => EventSlots
  BY SlotsSuffice DEF Agree
<1>4. QED BY <1>1, <1>2, <1>3, PTL DEF Spec

-------------------------------------------------------------------------------
(* Descriptors and their owners. *)

LEMMA NextOwned ==
  ASSUME "setup" \notin FailOps, Agree, DescriptorsOwned, [Next]_vars
  PROVE  /\ DescriptorsOwned'
         /\ \A f \in Fds : fdTable[f] = "other" /\ f \in held' => fdTable'[f] = "other"
<1> DEFINE Kept == \A f \in Fds : fdTable[f] = "other" /\ f \in held'
                                   => fdTable'[f] = "other"
<1> SUFFICES DescriptorsOwned' /\ Kept
  OBVIOUS
<1> USE DEF Agree
<1>1. ASSUME UNCHANGED <<status, fdTable, held>> PROVE DescriptorsOwned' /\ Kept
  BY <1>1 DEF DescriptorsOwned, connections
<1>2. CASE Quiet
  BY <1>1, <1>2, QuietFrame DEF tables, connVars, kernelVars
<1>3. CASE Evict \/ CloseNext
  <2>1. PICK sock \in Fds : closeConnection(sock) /\ held' = held
    BY <1>3, HeadTailProperties DEF TypeOK, Evict, CloseNext
  <2>2. CASE sock \notin connections
    BY <1>1, <2>1, <2>2 DEF closeConnection
  <2>3. CASE sock \in connections
    <3>1. /\ fdTable' = [fdTable EXCEPT ![sock] = "free"]
          /\ status' = [status EXCEPT ![sock] = "none"]
      BY <2>1, <2>3 DEF closeConnection
    <3>2. fdTable[sock] = "engine" /\ connections' = connections \ {sock}
      BY <2>3, <3>1 DEF TypeOK, DescriptorsOwned, connections
    <3>3. QED
      BY <2>1, <3>1, <3>2 DEF TypeOK, DescriptorsOwned
  <2>4. QED BY <2>2, <2>3
<1>4. ASSUME NEW sock \in Fds, InitiateSetupFails(sock) PROVE FALSE
  BY <1>4 DEF InitiateSetupFails
<1>5. ASSUME NEW sock \in Fds, InitiateAddFails(sock)
      PROVE  DescriptorsOwned' /\ Kept
  BY <1>5
     DEF TypeOK, DescriptorsOwned, connections, InitiateAddFails, LowestFree,
         FreeFds
<1>6. ASSUME NEW sock \in Fds, NEW s \in {"CONNECTING", "CONNECTED"},
             InitiateOK(sock, s)
      PROVE  DescriptorsOwned' /\ Kept
  BY <1>6
     DEF TypeOK, DescriptorsOwned, connections, InitiateOK, sp_add, addConnection,
         LowestFree, FreeFds
<1>7. ASSUME NEW e \in events, NEW ok \in BOOLEAN, NEW moreWrite \in BOOLEAN,
             HandleWrite(e, ok, moreWrite)
      PROVE  DescriptorsOwned' /\ Kept
  BY <1>7
     DEF TypeOK, DescriptorsOwned, connections, CallbacksAlive, HandleWrite
<1>8. ASSUME NEW f \in Fds, OtherOpens(f) PROVE DescriptorsOwned' /\ Kept
  BY <1>8
     DEF TypeOK, DescriptorsOwned, connections, OtherOpens, LowestFree, FreeFds,
         connVars
<1>9. ASSUME NEW f \in Fds, OtherCloses(f) PROVE DescriptorsOwned' /\ Kept
  BY <1>9 DEF TypeOK, DescriptorsOwned, connections, OtherCloses, connVars
<1>10. QED
  BY <1>1, <1>2, <1>3, <1>4, <1>5, <1>6, <1>7, <1>8, <1>9, StepCases
     DEF Wait, ReadFails, BeginRead, HandleError, EndRead, connVars, kernelVars

\* Unless the set-up of a socket fails between addConnection and the end of
\* initiateConnection, the engine's entries are exactly its open descriptors.
THEOREM DescriptorsStayOwned ==
  ASSUME "setup" \notin FailOps
  PROVE  Spec => []DescriptorsOwned
<1> DEFINE Inv == Agree /\ InBatch /\ DescriptorsOwned
<1>1. Init => Inv
  BY InitType, InitAgree DEF Agree, Init, DescriptorsOwned, connections
<1>2. Inv /\ [Next]_vars => Inv'
  BY NextType, NextBatch, NextOnlyInDispatch, NextAgree, NextOwned DEF Agree
<1>3. QED BY <1>1, <1>2, PTL DEF Spec

\* Then no step of the engine closes a descriptor the reporter's thread holds,
\* although closeConnection is called with descriptors closed long before.
THEOREM ForeignStaysOpen ==
  ASSUME "setup" \notin FailOps
  PROVE  Spec => ForeignKept
<1> DEFINE Inv == Agree /\ InBatch /\ DescriptorsOwned
<1>1. Init => Inv
  BY InitType, InitAgree DEF Agree, Init, DescriptorsOwned, connections
<1>2. Inv /\ [Next]_vars => Inv'
  BY NextType, NextBatch, NextOnlyInDispatch, NextAgree, NextOwned DEF Agree
<1>3. Inv /\ [Next]_vars
        => [\A f \in Fds : fdTable[f] = "other" /\ f \in held'
                            => fdTable'[f] = "other"]_vars
  BY NextOwned
<1>4. QED BY <1>1, <1>2, <1>3, PTL DEF Spec, ForeignKept

-------------------------------------------------------------------------------
(* What is still to be sent is waited for.                                     *)

LiveWatched == \A f \in Served : sp[f] # "none"

\* epoll reports nothing but a write before the version message is sent.
ReadsAfterVersion ==
  /\ \A e \in events : e.kind # "write" => ~VersionDue(e.fd)
  /\ reading # NoFd => ~VersionDue(reading)

Armed ==
  /\ LiveWatched
  /\ OutputArmed
  /\ ~Kqueue => HandshakeArmed

\* A step that touches one descriptor has to care for that one only.
LEMMA ArmedElsewhere ==
  ASSUME Armed, callbacks' \subseteq Fds, NEW x \in Fds,
         \A g \in Fds \ {x} : /\ status'[g] = status[g]
                              /\ sending'[g] = sending[g]
                              /\ sp'[g] = sp[g]
                              /\ fdTable'[g] = "engine" => fdTable[g] = "engine",
         callbacks' \ {x} \subseteq callbacks,
         Range(closeSocks) \subseteq Range(closeSocks') \cup {x},
         x \in Served' => sp'[x] # "none",
         x \in Served' /\ sending'[x] => sp'[x] = "inout",
         x \in Served' /\ ~Kqueue /\ VersionDue(x)' => sp'[x] = "inout"
  PROVE  Armed'
<1>1. ASSUME NEW g \in Served', g # x
      PROVE  /\ g \in Served /\ g \in Fds
             /\ VersionDue(g)' = VersionDue(g)
             /\ sending'[g] = sending[g] /\ sp'[g] = sp[g]
  <2>1. g \in callbacks' /\ g \notin Range(closeSocks') /\ fdTable'[g] = "engine"
    BY <1>1 DEF Served
  <2>2. g \in Fds /\ g \in callbacks /\ g \notin Range(closeSocks)
    BY <1>1, <2>1
  <2>3. g \in Fds \ {x}
    BY <1>1, <2>2
  <2>4. /\ status'[g] = status[g] /\ sending'[g] = sending[g] /\ sp'[g] = sp[g]
        /\ fdTable'[g] = "engine" => fdTable[g] = "engine"
    BY <2>3
  <2>5. QED BY <2>1, <2>2, <2>4 DEF Served, VersionDue
<1>2. ASSUME NEW g \in Served'
      PROVE  /\ sp'[g] # "none"
             /\ sending'[g] => sp'[g] = "inout"
             /\ ~Kqueue /\ VersionDue(g)' => sp'[g] = "inout"
  <2>1. CASE g = x
    BY <2>1
  <2>2. CASE g # x
    <3>1. sp[g] # "none" /\ (sending[g] => sp[g] = "inout")
      BY <1>1, <2>2 DEF Armed, LiveWatched, OutputArmed, Served
    <3>2. ~Kqueue /\ VersionDue(g) => sp[g] = "inout"
      BY <1>1, <2>2 DEF Armed, HandshakeArmed, Unsent, Served
    <3>3. QED BY <1>1, <2>2, <3>1, <3>2
  <2>3. QED BY <2>1, <2>2
<1>3. QED
  BY <1>2 DEF Armed, LiveWatched, OutputArmed, HandshakeArmed, Unsent, Served

LEMMA ArmedFrame ==
  ASSUME Armed, UNCHANGED <<status, sending, callbacks, sp, fdTable, closeSocks>>
  PROVE  Armed'
BY DEF Armed, LiveWatched, OutputArmed, HandshakeArmed, Unsent, VersionDue, Served

\* After a callback that returned false, its descriptor is about to be closed.
LEMMA ArmedFailed ==
  ASSUME TypeOK, Armed, NEW f \in Fds, CallbackFailed(f),
         callbacks' = callbacks, fdTable' = fdTable,
         \A g \in Fds \ {f} : status'[g] = status[g] /\ sending'[g] = sending[g]
  PROVE  Armed'
<1>1. Range(closeSocks') = Range(closeSocks) \cup {f}
  BY RangeAppend DEF TypeOK, CallbackFailed
<1>2. \A g \in Fds \ {f} : sp'[g] = sp[g]
  BY DEF TypeOK, CallbackFailed, sp_del
<1>3. f \notin Served'
  BY <1>1 DEF Served
<1>4. callbacks' \subseteq Fds /\ Range(closeSocks) \subseteq Range(closeSocks')
  BY <1>1 DEF TypeOK
<1>5. QED BY <1>2, <1>3, <1>4, ArmedElsewhere

\* After a callback that returned true, the interest follows moreWrite.
LEMMA ArmedDone ==
  ASSUME TypeOK, Armed, InterestMirrored, NEW f \in Fds,
         NEW moreWrite \in BOOLEAN, CallbackDone(f, moreWrite),
         callbacks' = callbacks, fdTable' = fdTable,
         \A g \in Fds \ {f} : status'[g] = status[g] /\ sending'[g] = sending[g],
         sending'[f] => moreWrite,
         ~Kqueue => ~VersionDue(f)'
  PROVE  Armed'
<1>1. closeSocks' = closeSocks /\ callbacks' \subseteq Fds
  BY DEF TypeOK, CallbackDone
<1>2. \A g \in Fds \ {f} : sp'[g] = sp[g]
  BY DEF TypeOK, CallbackDone
<1>3. ASSUME sp[f] # "none"
      PROVE  sp'[f] # "none" /\ (moreWrite => sp'[f] = "inout")
  BY <1>3 DEF TypeOK, CallbackDone, InterestMirrored
<1>4. f \in Served' => sp[f] # "none"
  BY <1>1 DEF Served, Armed, LiveWatched
<1>5. QED BY <1>1, <1>2, <1>3, <1>4, ArmedElsewhere

\* Opening or closing the entry of one descriptor outside a dispatch.
LEMMA NextArmed ==
  ASSUME Agree, InterestMirrored, Armed,
         ~Kqueue => ReadsAfterVersion, [Next]_vars
  PROVE  Armed'
<1> USE DEF Agree
<1>1. CASE Quiet
  BY <1>1, QuietFrame, ArmedFrame DEF tables, connVars, kernelVars
<1>2. CASE Evict
  <2>1. PICK x \in Fds : x = Head(qSocks)
    BY <1>2, HeadTailProperties DEF TypeOK, Evict
  <2>2. callbacks' = callbacks \ {x}
    BY <1>2, <2>1 DEF CallbacksAlive, Evict, closeConnection
  <2>3. \A g \in Fds \ {x} : /\ status'[g] = status[g]
                             /\ sending'[g] = sending[g]
                             /\ sp'[g] = sp[g]
                             /\ fdTable'[g] = fdTable[g]
    BY <1>2, <2>1 DEF TypeOK, Evict, closeConnection, sp_del
  <2>4. x \notin Served' /\ closeSocks' = closeSocks /\ callbacks' \subseteq Fds
    BY <1>2, <2>2 DEF TypeOK, Served, Evict
  <2>5. QED BY <2>2, <2>3, <2>4, ArmedElsewhere
<1>3. ASSUME NEW sock \in Fds, InitiateSetupFails(sock) PROVE Armed'
  <2>1. sock \notin Served' /\ closeSocks' = closeSocks
    BY <1>3
       DEF Served, InitiateSetupFails, NextAddr, LowestFree, FreeFds, kernelVars
  <2>2. QED
    BY <1>3, <2>1, ArmedElsewhere
       DEF TypeOK, InitiateSetupFails, addConnection, kernelVars
<1>4. ASSUME NEW sock \in Fds, InitiateAddFails(sock) PROVE Armed'
  <2>1. \A g \in Fds \ {sock} : /\ status'[g] = status[g]
                                /\ sending'[g] = sending[g]
                                /\ sp'[g] = sp[g]
                                /\ fdTable'[g] = "engine" => fdTable[g] = "engine"
    BY <1>4 DEF TypeOK, InitiateAddFails, sp_del
  <2>2. sock \notin Served' /\ closeSocks' = closeSocks
    BY <1>4 DEF Served, InitiateAddFails, NextAddr
  <2>3. callbacks' \subseteq Fds /\ callbacks' \subseteq callbacks
    BY <1>4 DEF TypeOK, InitiateAddFails
  <2>4. QED BY <2>1, <2>2, <2>3, ArmedElsewhere
<1>5. ASSUME NEW sock \in Fds, NEW s \in {"CONNECTING", "CONNECTED"},
             InitiateOK(sock, s)
      PROVE  Armed'
  <2>1. \A g \in Fds \ {sock} : /\ status'[g] = status[g]
                                /\ sending'[g] = sending[g]
                                /\ sp'[g] = sp[g]
                                /\ fdTable'[g] = "engine" => fdTable[g] = "engine"
    BY <1>5 DEF TypeOK, InitiateOK, sp_add, addConnection
  <2>2. sp'[sock] = "inout" /\ closeSocks' = closeSocks
    BY <1>5 DEF TypeOK, InitiateOK, sp_add, NextAddr
  <2>3. callbacks' \subseteq Fds /\ callbacks' \ {sock} \subseteq callbacks
    BY <1>5 DEF TypeOK, InitiateOK, sp_add
  <2>4. QED BY <2>1, <2>2, <2>3, ArmedElsewhere
<1>6. ASSUME NEW E \in EventBatches, Wait(E) PROVE Armed'
  BY <1>6, ArmedFrame DEF Wait, connVars, kernelVars
<1>7. ASSUME NEW e \in events, NEW ok \in BOOLEAN, NEW moreWrite \in BOOLEAN,
             HandleWrite(e, ok, moreWrite)
      PROVE  Armed'
  <2>1. e.fd \in Fds /\ callbacks' = callbacks /\ fdTable' = fdTable
    BY <1>7 DEF TypeOK, Event, HandleWrite
  <2>2. \A g \in Fds \ {e.fd} : status'[g] = status[g] /\ sending'[g] = sending[g]
    BY <1>7 DEF TypeOK, HandleWrite
  <2>3. CASE ~ok
    BY <1>7, <2>1, <2>2, <2>3, ArmedFailed DEF HandleWrite
  <2>4. CASE ok
    <3>1. (sending'[e.fd] => moreWrite) /\ ~VersionDue(e.fd)'
      BY <1>7, <2>1, <2>4 DEF TypeOK, HandleWrite, VersionDue
    <3>2. CallbackDone(e.fd, moreWrite)
      BY <1>7, <2>4 DEF HandleWrite
    <3>3. QED BY <2>1, <2>2, <3>1, <3>2, ArmedDone
  <2>5. QED BY <2>3, <2>4
<1>8. ASSUME NEW e \in events, ReadFails(e) \/ HandleError(e) PROVE Armed'
  <2>1. e.fd \in Fds
    BY DEF TypeOK, Event
  <2>2. QED
    BY <1>8, <2>1, ArmedFailed DEF ReadFails, HandleError, connVars
<1>9. ASSUME NEW e \in events, BeginRead(e) PROVE Armed'
  BY <1>9, ArmedFrame DEF BeginRead, connVars, kernelVars
<1>10. ASSUME NEW ok \in BOOLEAN, NEW replied \in BOOLEAN, EndRead(ok, replied)
       PROVE  Armed'
  <2>1. /\ reading \in Fds /\ callbacks' = callbacks /\ status' = status
        /\ fdTable' = fdTable
        /\ sending'[reading] \in BOOLEAN
        /\ \A g \in Fds \ {reading} : sending'[g] = sending[g]
    BY <1>10 DEF TypeOK, EndRead
  <2>2. CASE ~ok
    BY <1>10, <2>1, <2>2, ArmedFailed DEF EndRead
  <2>3. CASE ok
    <3>1. ~Kqueue => ~VersionDue(reading)
      BY <1>10 DEF ReadsAfterVersion, EndRead
    <3>2. PICK f \in Fds : f = reading
      BY <2>1
    <3>3. ~Kqueue => ~VersionDue(f)'
      BY <2>1, <3>1, <3>2 DEF VersionDue
    <3>4. CallbackDone(f, sending'[f])
      BY <1>10, <2>3, <3>2 DEF EndRead
    <3>5. QED BY <2>1, <3>2, <3>3, <3>4, ArmedDone
  <2>4. QED BY <2>2, <2>3
<1>11. CASE CloseNext
  <2>1. PICK x \in Fds : x = Head(closeSocks)
    BY <1>11, HeadTailProperties DEF TypeOK, CloseNext
  <2>2. callbacks' = callbacks \ {x}
    BY <1>11, <2>1 DEF CallbacksAlive, CloseNext, closeConnection
  <2>3. \A g \in Fds \ {x} : /\ status'[g] = status[g]
                             /\ sending'[g] = sending[g]
                             /\ sp'[g] = sp[g]
                             /\ fdTable'[g] = "engine" => fdTable[g] = "engine"
    BY <1>11, <2>1 DEF TypeOK, CloseNext, closeConnection, sp_del
  <2>4. Range(closeSocks) = Range(closeSocks') \cup {x}
    BY <1>11, <2>1, RangeTail DEF TypeOK, CloseNext
  <2>5. x \notin Served' /\ callbacks' \subseteq Fds
    BY <2>2 DEF TypeOK, Served
  <2>6. QED BY <2>2, <2>3, <2>4, <2>5, ArmedElsewhere
<1>12. ASSUME NEW f \in Fds, OtherOpens(f) PROVE Armed'
  <2>1. f \notin Served' /\ closeSocks' = closeSocks /\ callbacks' \subseteq Fds
    BY <1>12 DEF TypeOK, Served, OtherOpens, connVars, loopVars
  <2>2. QED
    BY <1>12, <2>1, ArmedElsewhere DEF TypeOK, OtherOpens, connVars
<1>13. ASSUME NEW f \in Fds, OtherCloses(f) PROVE Armed'
  <2>1. f \notin Served' /\ closeSocks' = closeSocks /\ callbacks' \subseteq Fds
    BY <1>13 DEF TypeOK, Served, OtherCloses, connVars, loopVars
  <2>2. QED
    BY <1>13, <2>1, ArmedElsewhere DEF TypeOK, OtherCloses, sp_del, connVars
<1>14. QED
  BY <1>1, <1>2, <1>3, <1>4, <1>5, <1>6, <1>7, <1>8, <1>9, <1>10, <1>11, <1>12,
     <1>13, StepCases

LEMMA NextReads ==
  ASSUME Agree, Armed, ~Kqueue, ReadsAfterVersion, [Next]_vars
  PROVE  ReadsAfterVersion'
<1> USE DEF Agree
<1>1. ASSUME events' \subseteq events, reading' \in {reading, NoFd},
             \A f \in Fds : ~VersionDue(f) => ~VersionDue(f)'
      PROVE  ReadsAfterVersion'
  BY <1>1 DEF TypeOK, Event, ReadsAfterVersion
<1>2. ASSUME events' = {}, reading' = NoFd PROVE ReadsAfterVersion'
  BY <1>2 DEF ReadsAfterVersion
<1>3. ASSUME UNCHANGED <<status, events, reading>> PROVE ReadsAfterVersion'
  BY <1>3 DEF ReadsAfterVersion, VersionDue
<1>4. CASE Quiet
  BY <1>3, <1>4, QuietFrame DEF tables, connVars
<1>5. CASE Evict
  BY <1>2, <1>5 DEF OnlyInDispatch, Evict
<1>6. ASSUME NEW sock \in Fds, NEW s \in {"CONNECTING", "CONNECTED"},
             \/ InitiateSetupFails(sock)
             \/ InitiateAddFails(sock)
             \/ InitiateOK(sock, s)
      PROVE  ReadsAfterVersion'
  BY <1>2, <1>6
     DEF OnlyInDispatch, InitiateSetupFails, InitiateAddFails, InitiateOK, sp_add,
         NextAddr
<1>7. ASSUME NEW E \in EventBatches, Wait(E) PROVE ReadsAfterVersion'
  <2>1. reading' = NoFd /\ \A f \in Fds : sp[f] # "none" => f \in Served
    BY <1>7
       DEF OnlyInDispatch, CallbacksAlive, WatchedOwned, Wait, Served, Range
  <2>2. ASSUME NEW e \in E, e.kind # "write" PROVE ~VersionDue(e.fd)
    <3>1. e \in Event /\ Reportable(e)
      BY <1>7 DEF EventBatches
    <3>2. CASE sp[e.fd] = "inout"
      BY <2>2, <3>1, <3>2 DEF Reportable, VersionDue
    <3>3. CASE sp[e.fd] = "in"
      <4>1. e.fd \in Fds
        BY <3>1 DEF Event
      <4>2. QED BY <2>1, <3>3, <4>1 DEF Armed, HandshakeArmed, Unsent
    <3>4. QED BY <3>1, <3>2, <3>3 DEF TypeOK, Event, Reportable
  <2>3. QED
    BY <1>7, <2>1, <2>2 DEF ReadsAfterVersion, Wait, connVars, VersionDue
<1>8. ASSUME NEW e \in events, NEW ok \in BOOLEAN, NEW moreWrite \in BOOLEAN,
             HandleWrite(e, ok, moreWrite)
      PROVE  ReadsAfterVersion'
  <2>1. \A f \in Fds : ~VersionDue(f) => ~VersionDue(f)'
    BY <1>8 DEF TypeOK, HandleWrite, VersionDue
  <2>2. QED BY <1>1, <1>8, <2>1 DEF HandleWrite, NextEvent
<1>9. ASSUME NEW e \in events, ReadFails(e) \/ HandleError(e)
      PROVE  ReadsAfterVersion'
  BY <1>1, <1>9 DEF ReadFails, HandleError, NextEvent, VersionDue, connVars
<1>10. ASSUME NEW e \in events, BeginRead(e) PROVE ReadsAfterVersion'
  BY <1>10 DEF ReadsAfterVersion, VersionDue, BeginRead, NextEvent, connVars
<1>11. ASSUME NEW ok \in BOOLEAN, NEW replied \in BOOLEAN, EndRead(ok, replied)
       PROVE  ReadsAfterVersion'
  BY <1>1, <1>11 DEF EndRead, VersionDue
<1>12. CASE CloseNext
  BY <1>2, <1>12 DEF CloseNext
<1>13. ASSUME NEW f \in Fds, OtherOpens(f) \/ OtherCloses(f)
       PROVE  ReadsAfterVersion'
  BY <1>3, <1>13 DEF OtherOpens, OtherCloses, connVars, loopVars
<1>14. QED
  BY <1>4, <1>5, <1>6, <1>7, <1>8, <1>9, <1>10, <1>11, <1>12, <1>13, StepCases

ArmedInv ==
  /\ Agree /\ InBatch /\ InterestMirrored /\ Armed
  /\ Kqueue \/ ReadsAfterVersion

LEMMA ArmedInduction ==
  (Init => ArmedInv) /\ (ArmedInv /\ [Next]_vars => ArmedInv')
<1>1. ASSUME Init PROVE ArmedInv
  <2>1. TypeOK /\ InBatch /\ Agree
    BY <1>1, InitType, InitAgree DEF Agree
  <2>2. InterestMirrored /\ ReadsAfterVersion
    BY <1>1 DEF Init, InterestMirrored, ReadsAfterVersion
  <2>3. Armed
    BY <1>1 DEF Init, Armed, LiveWatched, OutputArmed, HandshakeArmed, Served
  <2>4. QED BY <2>1, <2>2, <2>3 DEF ArmedInv
<1>2. ASSUME ArmedInv, [Next]_vars PROVE ArmedInv'
  <2>1. (Agree /\ InBatch)'
    BY <1>2, NextType, NextBatch, NextOnlyInDispatch, NextAgree
       DEF ArmedInv, Agree
  <2>2. InterestMirrored'
    BY <1>2, NextMirrored DEF ArmedInv, Agree
  <2>3. Armed' /\ (Kqueue \/ ReadsAfterVersion')
    BY <1>2, NextArmed, NextReads DEF ArmedInv
  <2>4. QED BY <2>1, <2>2, <2>3 DEF ArmedInv
<1>3. QED BY <1>1, <1>2

\* Queued bytes are never left behind: their connection is registered for
\* writing or is about to be closed.  In both builds, whatever call fails and
\* whatever the reporter's thread opens and closes.
THEOREM OutputStaysArmed == Spec => []OutputArmed
<1>1. ArmedInv => OutputArmed
  BY DEF ArmedInv, Armed
<1>2. (Init => ArmedInv) /\ (ArmedInv /\ [Next]_vars => ArmedInv')
  BY ArmedInduction
<1>3. QED BY <1>1, <1>2, PTL DEF Spec

\* In the epoll build a connection whose version message is due is registered
\* for writing, too: no event can disarm it before the message is queued.  The
\* hypothesis is about the build alone: with kqueue a read can come first, and its
\* end drops the write interest (network.cpp:397-410).
THEOREM HandshakeStaysArmed ==
  ASSUME ~Kqueue
  PROVE  Spec => []HandshakeArmed
<1>1. ArmedInv => HandshakeArmed
  BY DEF ArmedInv, Armed
<1>2. (Init => ArmedInv) /\ (ArmedInv /\ [Next]_vars => ArmedInv')
  BY ArmedInduction
<1>3. QED BY <1>1, <1>2, PTL DEF Spec

-------------------------------------------------------------------------------
(* No descriptor is lost. *)

\* Every descriptor the engine has open belongs to a connection it serves.
EngineServed == \A f \in Fds : fdTable[f] = "engine" => f \in callbacks

LEMMA NextServed ==
  ASSUME Agree, EngineServed, [Next]_vars
  PROVE  EngineServed'
<1> USE DEF Agree
<1>1. ASSUME UNCHANGED <<callbacks, fdTable>> PROVE EngineServed'
  BY <1>1 DEF EngineServed
<1>2. CASE Quiet
  BY <1>1, <1>2, QuietFrame DEF tables, connVars, kernelVars
<1>3. CASE Evict \/ CloseNext
  <2>1. PICK sock \in Fds : closeConnection(sock)
    BY <1>3, HeadTailProperties DEF TypeOK, Evict, CloseNext
  <2>2. QED BY <2>1 DEF TypeOK, EngineServed, closeConnection
<1>4. ASSUME NEW sock \in Fds, InitiateAddFails(sock) PROVE EngineServed'
  BY <1>4 DEF EngineServed, InitiateAddFails, LowestFree, FreeFds
<1>5. ASSUME NEW sock \in Fds, NEW s \in {"CONNECTING", "CONNECTED"},
             InitiateOK(sock, s)
      PROVE  EngineServed'
  BY <1>5 DEF TypeOK, EngineServed, InitiateOK, sp_add
<1>6. ASSUME NEW f \in Fds, OtherOpens(f) \/ OtherCloses(f) PROVE EngineServed'
  BY <1>6 DEF TypeOK, EngineServed, OtherOpens, OtherCloses, connVars
<1>7. QED
  BY <1>1, <1>2, <1>3, <1>4, <1>5, <1>6, StepCases
     DEF InitiateSetupFails, Wait, HandleWrite, ReadFails, BeginRead,
         HandleError, EndRead, connVars, kernelVars

\* On no path, of success or of failure, does the engine forget a descriptor it
\* has open, and each connection it serves can be evicted: its descriptor is in
\* qSocks.
THEOREM ReclaimableAlways == Spec => []Reclaimable
<1> DEFINE Inv == Agree /\ InBatch /\ Evictable /\ EngineServed
<1>1. Init => Inv
  BY InitType, InitAgree DEF Agree, Init, Evictable, EngineServed
<1>2. Inv /\ [Next]_vars => Inv'
  BY NextType, NextBatch, NextOnlyInDispatch, NextAgree, NextEvictable, NextServed
     DEF Agree
<1>3. Inv => Reclaimable
  BY DEF Evictable, EngineServed, Reclaimable
<1>4. QED BY <1>1, <1>2, <1>3, PTL DEF Spec

-------------------------------------------------------------------------------
(* How many connections there can be.  Sockets get the lowest free descriptor, *)
(* so what lies below one is the engine's or the other thread's.  The set of   *)
(* the Limit(missed) lowest descriptors holds every connection and every       *)
(* candidate for eviction: a number evicted in vain is free, and the socket    *)
(* gets it or a lower one, or else the other thread has it, and missed grows.  *)

Limit(m) == MaxConnections + MaxHeld * (1 + m)

Below(f) == {g \in Fds : g < f}
Rank(f)  == Cardinality(Below(f))
LowFds(k) == {f \in Fds : Rank(f) < k}

engineFds  == {f \in Fds : fdTable[f] = "engine"}
foreignFds == {f \in Fds : fdTable[f] = "other"}

LEMMA LimitFacts ==
  ASSUME NEW m \in Nat
  PROVE  /\ Limit(m) \in Nat
         /\ Limit(m) >= MaxConnections + MaxHeld
         /\ Limit(m + 1) = Limit(m) + MaxHeld
<1>1. MaxConnections \in Nat /\ MaxHeld \in Nat
  BY SizesAssumption
<1>2. MaxHeld * m \in Nat
  BY <1>1
<1>3. MaxHeld * (1 + m) = MaxHeld + MaxHeld * m
  BY <1>1
<1>4. MaxHeld * (1 + (m + 1)) = MaxHeld + (MaxHeld + MaxHeld * m)
  BY <1>1
<1>5. QED BY <1>1, <1>2, <1>3, <1>4 DEF Limit

LEMMA RankFacts ==
  /\ \A f \in Fds : IsFiniteSet(Below(f)) /\ Rank(f) \in Nat
  /\ \A f, g \in Fds : f <= g => Rank(f) <= Rank(g)
  /\ \A f, g \in Fds : f < g => Rank(f) < Rank(g)
<1>1. ASSUME NEW f \in Fds PROVE IsFiniteSet(Below(f)) /\ Rank(f) \in Nat
  <2>1. Below(f) \in SUBSET Fds
    BY DEF Below
  <2>2. QED BY <2>1, FdsAssumption, FS_Subset, FS_CardinalityType DEF Rank
<1>2. ASSUME NEW f \in Fds, NEW g \in Fds, f <= g PROVE Rank(f) <= Rank(g)
  <2>1. ASSUME NEW h \in Fds, h < f PROVE h < g
    <3>1. h \in Nat /\ f \in Nat /\ g \in Nat
      BY FdsAssumption
    <3>2. QED BY <1>2, <2>1, <3>1
  <2>2. Below(f) \in SUBSET Below(g)
    BY <2>1 DEF Below
  <2>3. QED BY <1>1, <2>2, FS_Subset DEF Rank
<1>3. ASSUME NEW f \in Fds, NEW g \in Fds, f < g PROVE Rank(f) < Rank(g)
  <2>1. f \in Nat /\ g \in Nat
    BY FdsAssumption
  <2>2. f \in Below(g) /\ f \notin Below(f)
    BY <1>3, <2>1 DEF Below
  <2>3. ASSUME NEW h \in Fds, h < f PROVE h < g
    <3>1. h \in Nat
      BY FdsAssumption
    <3>2. QED BY <1>3, <2>1, <2>3, <3>1
  <2>4. Below(f) \in SUBSET Below(g)
    BY <2>3 DEF Below
  <2>5. /\ Cardinality(Below(f)) <= Cardinality(Below(g))
        /\ Cardinality(Below(g)) = Cardinality(Below(f)) => Below(g) = Below(f)
    BY <1>1, <2>4, FS_Subset
  <2>6. QED BY <1>1, <2>2, <2>5 DEF Rank
<1>4. QED BY <1>1, <1>2, <1>3

\* Ranks are injective, so there are at most k descriptors of a rank below k.
LEMMA LowFdsSize ==
  ASSUME NEW k \in Nat
  PROVE  /\ IsFiniteSet(LowFds(k))
         /\ Cardinality(LowFds(k)) \in Nat
         /\ Cardinality(LowFds(k)) <= k
<1> DEFINE rank == [f \in LowFds(k) |-> Rank(f)]
<1>1. IsFiniteSet(LowFds(k)) /\ Cardinality(LowFds(k)) \in Nat
  <2>1. LowFds(k) \in SUBSET Fds
    BY DEF LowFds
  <2>2. QED BY <2>1, FdsAssumption, FS_Subset, FS_CardinalityType
<1>2. rank \in [LowFds(k) -> 0 .. k - 1]
  BY RankFacts DEF LowFds
<1>3. ASSUME NEW f \in LowFds(k), NEW g \in LowFds(k), rank[f] = rank[g]
      PROVE  f = g
  <2>1. f \in Nat /\ g \in Nat /\ f \in Fds /\ g \in Fds
    BY FdsAssumption DEF LowFds
  <2>2. Rank(f) = Rank(g) /\ Rank(f) \in Nat
    BY <1>3, <2>1, RankFacts
  <2>3. ~(f < g) /\ ~(g < f)
    BY <2>1, <2>2, RankFacts
  <2>4. QED BY <2>1, <2>3
<1>4. rank \in Injection(LowFds(k), 0 .. k - 1)
  BY <1>2, <1>3 DEF Injection, IsInjective
<1>5. IsFiniteSet(0 .. k - 1) /\ Cardinality(0 .. k - 1) = k
  <2>1. CASE k = 0
    BY <2>1, FS_EmptySet
  <2>2. CASE k # 0
    BY <2>2, FS_Interval
  <2>3. QED BY <2>1, <2>2
<1>6. Cardinality(LowFds(k)) <= k
  BY <1>4, <1>5, FS_Injection
<1>7. QED BY <1>1, <1>6

LEMMA LowFdsGrow ==
  ASSUME NEW j \in Nat, NEW k \in Nat, j <= k
  PROVE  LowFds(j) \subseteq LowFds(k)
BY RankFacts DEF LowFds

\* The other thread owns no descriptor it does not know of.
ForeignHeld ==
  /\ foreignFds \subseteq held
  /\ Cardinality(held) <= MaxHeld

LEMMA NextForeign ==
  ASSUME TypeOK, ForeignHeld, [Next]_vars
  PROVE  ForeignHeld'
<1>1. IsFiniteSet(held) /\ Cardinality(held) \in Nat /\ MaxHeld \in Nat
  <2>1. held \in SUBSET Fds
    BY DEF TypeOK
  <2>2. QED
    BY <2>1, FdsAssumption, FS_Subset, FS_CardinalityType, SizesAssumption
<1>2. ASSUME held' = held,
             \A f \in Fds : fdTable'[f] = "other" => fdTable[f] = "other"
      PROVE  ForeignHeld'
  BY <1>2 DEF ForeignHeld, foreignFds
<1>3. CASE Quiet
  BY <1>2, <1>3, QuietFrame DEF tables, kernelVars
<1>4. CASE Evict \/ CloseNext
  BY <1>2, <1>4 DEF TypeOK, Evict, CloseNext, closeConnection
<1>5. ASSUME NEW sock \in Fds, NEW s \in {"CONNECTING", "CONNECTED"},
             InitiateOK(sock, s)
      PROVE  ForeignHeld'
  BY <1>2, <1>5 DEF TypeOK, InitiateOK, sp_add
<1>6. ASSUME NEW f \in Fds, OtherOpens(f) PROVE ForeignHeld'
  <2>1. held' = held \cup {f} /\ Cardinality(held) < MaxHeld
    BY <1>6 DEF OtherOpens
  <2>2. Cardinality(held') <= Cardinality(held) + 1
    <3>1. CASE f \in held
      <4>1. held' = held
        BY <2>1, <3>1
      <4>2. QED BY <1>1, <4>1
    <3>2. CASE f \notin held
      <4>1. Cardinality(held \cup {f}) = Cardinality(held) + 1
        BY <1>1, <3>2, FS_AddElement
      <4>2. QED BY <1>1, <2>1, <4>1
    <3>3. QED BY <3>1, <3>2
  <2>3. Cardinality(held') \in Nat
    <3>1. IsFiniteSet(held \cup {f})
      BY <1>1, FS_AddElement
    <3>2. QED BY <2>1, <3>1, FS_CardinalityType
  <2>4. Cardinality(held') <= MaxHeld
    BY <1>1, <2>1, <2>2, <2>3
  <2>5. foreignFds' \subseteq held'
    BY <1>6, <2>1 DEF TypeOK, ForeignHeld, foreignFds, OtherOpens
  <2>6. QED BY <2>4, <2>5 DEF ForeignHeld
<1>7. ASSUME NEW f \in Fds, OtherCloses(f) PROVE ForeignHeld'
  <2>1. held' = held \ {f}
    BY <1>7 DEF OtherCloses
  <2>2. held' \in SUBSET held
    BY <2>1
  <2>3. Cardinality(held') <= Cardinality(held) /\ Cardinality(held') \in Nat
    BY <1>1, <2>2, FS_Subset, FS_CardinalityType
  <2>4. Cardinality(held') <= MaxHeld
    BY <1>1, <2>3 DEF ForeignHeld
  <2>5. foreignFds' \subseteq held'
    BY <1>7, <2>1 DEF TypeOK, ForeignHeld, foreignFds, OtherCloses
  <2>6. QED BY <2>4, <2>5 DEF ForeignHeld
<1>8. QED
  BY <1>2, <1>3, <1>4, <1>5, <1>6, <1>7, StepCases
     DEF InitiateSetupFails, InitiateAddFails, Wait, HandleWrite, ReadFails,
         BeginRead, HandleError, EndRead, kernelVars

\* Where the connections, the candidates for eviction and the number just evicted
\* are; and what the room made for the next socket consists of.
LowOnly ==
  /\ connections \subseteq LowFds(Limit(missed))
  /\ Range(qSocks) \subseteq LowFds(Limit(missed))
  /\ esock # NoFd => esock \in LowFds(Limit(missed))

RoomMade ==
  /\ pc # "initiate" => esock = NoFd
  /\ pc = "initiate" /\ esock = NoFd => Cardinality(engineFds) < MaxConnections
  /\ esock # NoFd => fdTable[esock] # "engine"

Bounded ==
  Agree /\ Evictable /\ EngineServed /\ ForeignHeld /\ LowOnly /\ RoomMade

\* The engine's descriptors are among the connections, and the sizes are numbers.
LEMMA EngineFds ==
  ASSUME Agree, EngineServed
  PROVE  /\ engineFds \subseteq callbacks /\ engineFds \subseteq connections
         /\ IsFiniteSet(engineFds) /\ Cardinality(engineFds) \in Nat
         /\ Cardinality(engineFds) <= connectionCount /\ connectionCount \in Nat
<1>1. engineFds \subseteq callbacks /\ engineFds \subseteq connections
  BY DEF engineFds, EngineServed, Agree, CallbacksAlive
<1>2. connections \in SUBSET Fds /\ engineFds \in SUBSET connections
  BY <1>1 DEF connections
<1>3. IsFiniteSet(connections) /\ Cardinality(connections) \in Nat
  BY <1>2, FdsAssumption, FS_Subset, FS_CardinalityType
<1>4. QED
  BY <1>1, <1>2, <1>3, FS_Subset, FS_CardinalityType DEF connectionCount

LEMMA NextRoom ==
  ASSUME Agree, Evictable, EngineServed, RoomMade, [Next]_vars
  PROVE  RoomMade'
<1> USE DEF Agree
<1>1. ASSUME pc' # "initiate", esock' = NoFd PROVE RoomMade'
  BY <1>1 DEF RoomMade
<1>2. CASE HaveRoom
  <2>1. Cardinality(engineFds) < MaxConnections
    <3>1. CASE connectionCount < MaxConnections
      BY <3>1, EngineFds, SizesAssumption
    <3>2. CASE qSocks = <<>>
      <4>1. engineFds = {}
        BY <3>2, EngineFds DEF Evictable, Range
      <4>2. QED BY <4>1, FS_EmptySet, SizesAssumption
    <3>3. QED BY <1>2, <3>1, <3>2 DEF HaveRoom
  <2>2. esock' = esock /\ fdTable' = fdTable
    BY <1>2 DEF HaveRoom, kernelVars
  <2>3. esock = NoFd
    BY <1>2 DEF RoomMade, HaveRoom
  <2>4. QED BY <2>1, <2>2, <2>3 DEF RoomMade, engineFds
<1>3. CASE Evict
  <2>1. PICK x \in Fds : x = Head(qSocks) /\ closeConnection(x)
    BY <1>3, HeadTailProperties DEF TypeOK, Evict
  <2>2. fdTable'[x] # "engine"
    BY <2>1 DEF TypeOK, EngineServed, CallbacksAlive, closeConnection
  <2>3. pc' = "initiate" /\ esock' = x /\ x # NoFd
    BY <1>3, <2>1, FdsAssumption DEF Evict, NoFd
  <2>4. QED BY <2>2, <2>3 DEF RoomMade
<1>4. ASSUME NEW f \in Fds, OtherOpens(f) \/ OtherCloses(f) PROVE RoomMade'
  <2>1. pc' = pc /\ esock' = esock
    BY <1>4 DEF OtherOpens, OtherCloses, loopVars
  <2>2. \A g \in Fds : fdTable'[g] = "engine" => fdTable[g] = "engine"
    BY <1>4 DEF TypeOK, OtherOpens, OtherCloses
  <2>3. engineFds' \in SUBSET engineFds
    BY <2>2 DEF engineFds
  <2>4. /\ Cardinality(engineFds') <= Cardinality(engineFds)
        /\ Cardinality(engineFds') \in Nat /\ Cardinality(engineFds) \in Nat
    BY <2>3, EngineFds, FS_Subset, FS_CardinalityType
  <2>5. QED
    BY <2>1, <2>2, <2>4, SizesAssumption DEF TypeOK, RoomMade
<1>5. ASSUME UNCHANGED <<pc, esock, fdTable>> PROVE RoomMade'
  BY <1>5 DEF RoomMade, engineFds
<1>6. ASSUME pc # "initiate", pc' # "initiate", esock' = esock PROVE RoomMade'
  BY <1>1, <1>6 DEF RoomMade
<1>7. QED
  BY <1>1, <1>2, <1>3, <1>4, <1>5, <1>6
     DEF Next, initEngineFails, Engine, Connect, Dispatch, OtherThread,
         AddDNSSeed, StartEngine, Drain, InitiateSocketFails, InitiateSetupFails,
         InitiateAddFails, InitiateOK, NextAddr, BatchDone, WaitForNothing, Wait,
         HandleWrite, NextEvent, ReadFails, BeginRead, HandleError, ReadAddr,
         EndRead, CloseNext, DispatchDone, vars, loopVars, kernelVars

\* What lies below the next socket is the engine's or the other thread's.
LEMMA BelowLowest ==
  ASSUME Agree, EngineServed, ForeignHeld, NEW sock \in LowestFree
  PROVE  /\ sock \in Fds
         /\ Below(sock) \subseteq engineFds \cup held
         /\ IsFiniteSet(held) /\ Cardinality(held) \in Nat
<1>1. sock \in Fds /\ \A g \in Fds : fdTable[g] = "free" => sock <= g
  BY DEF LowestFree, FreeFds
<1>2. ASSUME NEW g \in Fds, g < sock PROVE g \in engineFds \cup held
  <2>1. fdTable[g] # "free"
    BY <1>1, <1>2, FdsAssumption
  <2>2. g \in engineFds \cup foreignFds
    BY <2>1 DEF Agree, TypeOK, engineFds, foreignFds
  <2>3. QED BY <2>2 DEF ForeignHeld
<1>3. held \in SUBSET Fds
  BY DEF Agree, TypeOK
<1>4. QED
  BY <1>1, <1>2, <1>3, FdsAssumption, FS_Subset, FS_CardinalityType DEF Below

\* So its rank is at most what the two of them have together.
LEMMA RankLowest ==
  ASSUME Agree, EngineServed, ForeignHeld, NEW sock \in LowestFree,
         NEW n \in Nat, NEW S, IsFiniteSet(S), engineFds \subseteq S \cup held,
         Cardinality(S) < n
  PROVE  Rank(sock) < n + MaxHeld
<1>1. /\ sock \in Fds /\ Below(sock) \subseteq S \cup held
      /\ IsFiniteSet(held) /\ Cardinality(held) \in Nat
  BY BelowLowest
<1>2. /\ IsFiniteSet(S \cup held)
      /\ Cardinality(S \cup held) <= Cardinality(S) + Cardinality(held)
  <2>1. /\ IsFiniteSet(S \cup held) /\ IsFiniteSet(S \cap held)
        /\ Cardinality(S \cup held)
             = Cardinality(S) + Cardinality(held) - Cardinality(S \cap held)
    BY <1>1, FS_Union, FS_Intersection
  <2>2. Cardinality(S) \in Nat /\ Cardinality(S \cap held) \in Nat
    BY <2>1, FS_CardinalityType
  <2>3. QED BY <1>1, <2>1, <2>2
<1>3. Below(sock) \in SUBSET (S \cup held)
  BY <1>1
<1>4. Rank(sock) <= Cardinality(S \cup held)
  BY <1>2, <1>3, FS_Subset DEF Rank
<1>5. /\ Cardinality(S) \in Nat /\ Cardinality(S \cup held) \in Nat
      /\ Rank(sock) \in Nat /\ MaxHeld \in Nat
  BY <1>1, <1>2, FS_CardinalityType, RankFacts, SizesAssumption
<1>6. Cardinality(held) <= MaxHeld
  BY DEF ForeignHeld
<1>7. QED BY <1>1, <1>2, <1>4, <1>5, <1>6

\* The next socket is among the lowest Limit(missed') descriptors.
LEMMA SocketLow ==
  ASSUME Bounded, pc = "initiate", NEW sock \in LowestFree, CountMiss(sock)
  PROVE  /\ sock \in LowFds(Limit(missed'))
         /\ LowFds(Limit(missed)) \subseteq LowFds(Limit(missed'))
<1> USE DEF Bounded
<1>1. /\ missed \in Nat /\ Limit(missed) \in Nat /\ MaxHeld \in Nat
      /\ Limit(missed) >= MaxConnections + MaxHeld /\ MaxConnections \in Nat
      /\ Limit(missed + 1) = Limit(missed) + MaxHeld
  BY LimitFacts, SizesAssumption DEF Agree, TypeOK
<1>2. sock \in Fds /\ Rank(sock) \in Nat
  BY RankFacts DEF LowestFree, FreeFds
<1>3. CASE esock = NoFd
  <2>1. missed' = missed
    BY <1>3 DEF CountMiss
  <2>2. IsFiniteSet(engineFds) /\ Cardinality(engineFds) < MaxConnections
    BY <1>3, EngineFds DEF RoomMade
  <2>3. Rank(sock) < MaxConnections + MaxHeld
    BY <1>1, <2>2, RankLowest
  <2>4. QED BY <1>1, <1>2, <2>1, <2>3 DEF LowFds
<1>4. CASE esock # NoFd /\ sock <= esock
  <2>1. missed' = missed
    <3>1. sock \in Nat /\ esock \in Nat
      BY <1>2, <1>4, FdsAssumption DEF Agree, TypeOK
    <3>2. ~(sock > esock)
      BY <1>4, <3>1
    <3>3. QED BY <3>2 DEF CountMiss
  <2>2. esock \in Fds /\ Rank(esock) < Limit(missed)
    BY <1>4 DEF LowOnly, LowFds
  <2>3. Rank(sock) <= Rank(esock) /\ Rank(esock) \in Nat
    BY <1>2, <1>4, <2>2, RankFacts
  <2>4. QED BY <1>1, <1>2, <2>1, <2>2, <2>3 DEF LowFds
<1>5. CASE esock # NoFd /\ ~(sock <= esock)
  <2> DEFINE L == LowFds(Limit(missed))
  <2>1. esock \in L /\ esock \in Fds
    BY <1>5 DEF LowOnly, LowFds
  <2>2. sock > esock
    BY <1>2, <1>5, <2>1, FdsAssumption
  <2>3. missed' = missed + 1
    BY <1>5, <2>2 DEF CountMiss
  <2>4. IsFiniteSet(L) /\ Cardinality(L) \in Nat /\ Cardinality(L) <= Limit(missed)
    BY <1>1, LowFdsSize
  <2>5. /\ IsFiniteSet(L \ {esock})
        /\ Cardinality(L \ {esock}) = Cardinality(L) - 1
    BY <2>1, <2>4, FS_RemoveElement
  <2>6. engineFds \subseteq L \ {esock}
    BY <1>5, EngineFds DEF LowOnly, RoomMade, engineFds
  <2>7. Cardinality(L \ {esock}) < Limit(missed)
    BY <1>1, <2>4, <2>5
  <2> HIDE DEF L
  <2>8. Rank(sock) < Limit(missed) + MaxHeld
    BY <1>1, <2>5, <2>6, <2>7, RankLowest
  <2>9. /\ sock \in LowFds(Limit(missed'))
        /\ Limit(missed') \in Nat /\ Limit(missed) <= Limit(missed')
    BY <1>1, <1>2, <2>3, <2>8 DEF LowFds
  <2>10. QED BY <1>1, <2>9, LowFdsGrow
<1>6. QED BY <1>3, <1>4, <1>5

LEMMA NextLow ==
  ASSUME Bounded, InBatch, [Next]_vars
  PROVE  LowOnly'
<1> USE DEF Bounded
<1>0. TypeOK /\ TypeOK'
  BY NextType DEF Agree
<1>1. ASSUME connections' \subseteq connections,
             Range(qSocks') \subseteq Range(qSocks),
             esock' \in {esock, NoFd}, missed' = missed
      PROVE  LowOnly'
  BY <1>1 DEF LowOnly, LowFds, Rank, Below, Limit
<1>2. CASE Evict
  <2>1. PICK x \in Fds : x = Head(qSocks) /\ closeConnection(x)
    BY <1>0, <1>2, HeadTailProperties DEF TypeOK, Evict
  <2>2. Range(qSocks) = Range(qSocks') \cup {x}
    BY <1>0, <1>2, <2>1, RangeTail DEF TypeOK, Evict
  <2>3. connections' \subseteq connections
    BY <1>0, <2>1 DEF TypeOK, closeConnection, connections
  <2>4. esock' = x /\ missed' = missed
    BY <1>2, <2>1 DEF Evict, historyVars
  <2>5. QED BY <2>2, <2>3, <2>4 DEF LowOnly, LowFds, Rank, Below, Limit
<1>3. ASSUME NEW sock \in Fds, NEW s \in {"CONNECTING", "CONNECTED"},
             \/ InitiateSetupFails(sock)
             \/ InitiateAddFails(sock)
             \/ InitiateOK(sock, s)
      PROVE  LowOnly'
  <2>1. /\ pc = "initiate" /\ sock \in LowestFree /\ CountMiss(sock)
        /\ esock' = NoFd
    BY <1>3 DEF InitiateSetupFails, InitiateAddFails, InitiateOK, NextAddr
  <2>2. /\ sock \in LowFds(Limit(missed'))
        /\ LowFds(Limit(missed)) \subseteq LowFds(Limit(missed'))
    BY <2>1, SocketLow
  <2>3. connections' \subseteq connections \cup {sock}
    BY <1>0, <1>3
       DEF TypeOK, connections, InitiateSetupFails, InitiateAddFails, InitiateOK,
           addConnection
  <2>4. Range(qSocks') \subseteq Range(qSocks) \cup {sock}
    <3>1. CASE InitiateSetupFails(sock)
      BY <3>1 DEF InitiateSetupFails
    <3>2. CASE qSocks' = Append(qSocks, sock)
      BY <1>0, <3>2, RangeAppend DEF TypeOK
    <3>3. QED BY <1>3, <3>1, <3>2 DEF InitiateAddFails, InitiateOK
  <2>5. /\ connections' \subseteq LowFds(Limit(missed'))
        /\ Range(qSocks') \subseteq LowFds(Limit(missed'))
    BY <2>2, <2>3, <2>4 DEF LowOnly
  <2>6. QED
    BY <2>1, <2>5 DEF LowOnly, LowFds, Rank, Below, Limit
<1>4. CASE CloseNext
  <2>1. PICK x \in Fds : closeConnection(x)
    BY <1>0, <1>4, HeadTailProperties DEF TypeOK, CloseNext
  <2>2. connections' \subseteq connections
    BY <1>0, <2>1 DEF TypeOK, closeConnection, connections
  <2>3. qSocks' = qSocks /\ esock' = esock /\ missed' = missed
    BY <1>4 DEF CloseNext, historyVars
  <2>4. QED BY <1>1, <2>2, <2>3
<1>5. ASSUME NEW e \in events, NEW ok \in BOOLEAN, NEW moreWrite \in BOOLEAN,
             HandleWrite(e, ok, moreWrite)
      PROVE  LowOnly'
  <2>1. connections' \subseteq connections
    BY <1>0, <1>5 DEF TypeOK, Agree, CallbacksAlive, connections, HandleWrite
  <2>2. qSocks' = qSocks /\ esock' = esock /\ missed' = missed
    BY <1>5 DEF HandleWrite, historyVars
  <2>3. QED BY <1>1, <2>1, <2>2
<1>6. ASSUME UNCHANGED <<status, qSocks, missed>>, esock' \in {esock, NoFd}
      PROVE  LowOnly'
  BY <1>1, <1>6 DEF connections
<1>7. CASE Quiet
  <2>1. missed' = missed /\ esock' \in {esock, NoFd}
    BY <1>7
       DEF Quiet, AddDNSSeed, ReadAddr, StartEngine, initEngineFails, Drain,
           HaveRoom, InitiateSocketFails, NextAddr, BatchDone, WaitForNothing,
           DispatchDone, vars, loopVars, historyVars
  <2>2. QED BY <1>6, <1>7, <2>1, QuietFrame DEF tables, connVars
<1>8. QED
  BY <1>2, <1>3, <1>4, <1>5, <1>6, <1>7, StepCases
     DEF Wait, ReadFails, BeginRead, HandleError, EndRead, NextEvent, OtherOpens,
         OtherCloses, connVars, loopVars, historyVars

\* However the reporter's thread opens and closes descriptors and whatever fails,
\* the connections exceed MaxConnections by no more than the descriptors that
\* thread may hold, once and once more for each eviction whose number it had.
\* Where it holds none (MaxHeld = 0) this is the limit itself.
THEOREM ConnectionsBounded == Spec => []ConnectionBound
<1> DEFINE Inv == Bounded /\ InBatch
<1>1. Init => Inv
  <2> SUFFICES ASSUME Init PROVE Inv
    OBVIOUS
  <2>1. Agree /\ InBatch
    BY InitType, InitAgree DEF Agree
  <2>2. Evictable /\ EngineServed /\ RoomMade
    BY DEF Init, Evictable, EngineServed, RoomMade
  <2>3. connections = {} /\ Range(qSocks) = {} /\ esock = NoFd
    BY DEF Init, connections, Range
  <2>4. foreignFds = {} /\ held = {}
    BY DEF Init, foreignFds
  <2>5. ForeignHeld
    BY <2>4, FS_EmptySet, SizesAssumption DEF ForeignHeld
  <2>6. QED BY <2>1, <2>2, <2>3, <2>5 DEF Bounded, LowOnly
<1>2. Inv /\ [Next]_vars => Inv'
  BY NextType, NextBatch, NextOnlyInDispatch, NextAgree, NextEvictable,
     NextServed, NextForeign, NextRoom, NextLow
     DEF Bounded, Agree
<1>3. Inv => ConnectionBound
  <2> SUFFICES ASSUME Inv PROVE ConnectionBound
    OBVIOUS
  <2>1. missed \in Nat /\ Limit(missed) \in Nat
    BY LimitFacts DEF Bounded, Agree, TypeOK
  <2>2. /\ IsFiniteSet(LowFds(Limit(missed)))
        /\ Cardinality(LowFds(Limit(missed))) \in Nat
        /\ Cardinality(LowFds(Limit(missed))) <= Limit(missed)
    BY <2>1, LowFdsSize
  <2>3. connections \in SUBSET LowFds(Limit(missed))
    BY DEF Bounded, LowOnly
  <2>4. connectionCount <= Cardinality(LowFds(Limit(missed))) /\ connectionCount \in Nat
    BY <2>2, <2>3, FS_Subset, FS_CardinalityType DEF connectionCount
  <2>5. connectionCount <= Limit(missed)
    BY <2>1, <2>2, <2>4
  <2>6. QED BY <2>5 DEF ConnectionBound, Limit
<1>4. QED BY <1>1, <1>2, <1>3, PTL DEF Spec

-------------------------------------------------------------------------------
(* No wait with addresses left behind: what SeedsDrained needs of the code     *)
(* before any fairness.                                                        *)

InBatchLoop == pc \in {"room", "initiate", "wait"}

\* A batch is empty only if no address is left; a connection it has made is
\* registered with its version message still to send, or closed again.
Waking ==
  /\ InBatchLoop /\ newSize = 0 => mSeedAddr = <<>>
  /\ InBatchLoop => \A f \in made : sp[f] # "none" => sp[f] = "inout" /\ VersionDue(f)
  /\ pc = "wait" => nPendingEvents >= 0

LEMMA DrainWaking ==
  ASSUME TypeOK, Waking, Drain
  PROVE  Waking'
<1>1. DrainSize \in Nat \ {0} /\ SeedTypeOK
  BY SizesAssumption DEF TypeOK
<1>2. made' = {} /\ pc' = "room"
  BY DEF Drain
<1>3. newSize' = 0 => mSeedAddr' = <<>>
  <2>1. SUFFICES ASSUME newSize' = 0 PROVE mSeedAddr' = <<>>
    OBVIOUS
  <2>2. mSeedAddr \in Seq(CService) /\ Len(mSeedAddr) \in Nat
    BY <1>1, LenProperties DEF SeedTypeOK
  <2>3. Len(mSeedAddr) = 0
    BY <1>1, <2>1, <2>2 DEF Drain, DrainedSize
  <2>4. mSeedAddr' = SubSeq(mSeedAddr, DrainedSize(DrainSize) + 1, Len(mSeedAddr))
    BY DEF Drain, getNewAddrs
  <2>5. DrainedSize(DrainSize) = 0
    BY <1>1, <2>3 DEF DrainedSize
  <2>6. QED BY <2>3, <2>4, <2>5, SubSeqEmpty
<1>4. QED BY <1>2, <1>3 DEF Waking

\* Registrations only end while the batch is worked through, but for a new one.
LEMMA WakingKept ==
  ASSUME Waking, InBatchLoop, UNCHANGED <<newSize, mSeedAddr, made>>,
         \A f \in made : sp'[f] # "none" =>
           sp'[f] = sp[f] /\ (VersionDue(f) => VersionDue(f)'),
         pc' = "wait" => nPendingEvents' >= 0
  PROVE  Waking'
BY DEF Waking, InBatchLoop

LEMMA NextWaking ==
  ASSUME TypeOK, OnlyInDispatch, Waking, [Next]_vars
  PROVE  Waking'
<1>1. CASE Drain
  BY <1>1, DrainWaking
<1>2. CASE HaveRoom \/ InitiateSocketFails
  BY <1>2, WakingKept
     DEF HaveRoom, InitiateSocketFails, NextAddr, InBatchLoop, VersionDue,
         seedVars, connVars, kernelVars, historyVars
<1>3. CASE Evict
  <2>1. PICK x \in Fds : x = Head(qSocks) /\ closeConnection(x) /\ sp_del(x)
    BY <1>3, HeadTailProperties DEF TypeOK, Evict
  <2>2. \A f \in made : sp'[f] # "none" => sp'[f] = sp[f]
    BY <2>1 DEF TypeOK, sp_del
  <2>3. \A f \in made : VersionDue(f) => VersionDue(f)'
    BY <2>1 DEF TypeOK, closeConnection, VersionDue
  <2>4. InBatchLoop /\ pc' = "initiate" /\ UNCHANGED <<newSize, mSeedAddr, made>>
    BY <1>3 DEF Evict, InBatchLoop, seedVars, historyVars
  <2>5. QED BY <2>2, <2>3, <2>4, WakingKept
<1>4. ASSUME NEW sock \in Fds, InitiateSetupFails(sock) \/ InitiateAddFails(sock)
      PROVE  Waking'
  <2>1. \A f \in made : sp'[f] # "none" => sp'[f] = sp[f]
    BY <1>4
       DEF TypeOK, InitiateSetupFails, InitiateAddFails, sp_del, kernelVars
  <2>2. \A f \in made : VersionDue(f) => VersionDue(f)'
    BY <1>4
       DEF TypeOK, InitiateSetupFails, InitiateAddFails, addConnection, VersionDue
  <2>3. InBatchLoop /\ pc' = "room" /\ UNCHANGED <<newSize, mSeedAddr, made>>
    BY <1>4
       DEF InitiateSetupFails, InitiateAddFails, NextAddr, InBatchLoop, seedVars
  <2>4. QED BY <2>1, <2>2, <2>3, WakingKept
<1>5. ASSUME NEW sock \in Fds, NEW s \in {"CONNECTING", "CONNECTED"},
             InitiateOK(sock, s)
      PROVE  Waking'
  <2>1. /\ pc = "initiate" /\ pc' = "room" /\ UNCHANGED <<newSize, mSeedAddr>>
        /\ made' = made \cup {sock}
    BY <1>5 DEF InitiateOK, NextAddr, seedVars
  <2>2. sp'[sock] = "inout" /\ status'[sock] = s
    BY <1>5 DEF TypeOK, InitiateOK, sp_add, addConnection
  <2>3. \A f \in made \ {sock} : sp'[f] = sp[f] /\ status'[f] = status[f]
    BY <1>5 DEF TypeOK, InitiateOK, sp_add, addConnection
  <2>4. QED
    BY <2>1, <2>2, <2>3 DEF Waking, InBatchLoop, VersionDue
<1>6. CASE BatchDone
  <2>1. pc' = "wait" => nPendingEvents' >= 0
    BY <1>6 DEF TypeOK, BatchDone
  <2>2. QED
    BY <1>6, <2>1, WakingKept
       DEF BatchDone, InBatchLoop, VersionDue, seedVars, connVars, kernelVars,
           historyVars
<1>7. ASSUME NEW f \in Fds, OtherOpens(f) \/ OtherCloses(f) PROVE Waking'
  <2>1. \A g \in made : sp'[g] # "none" => sp'[g] = sp[g]
    BY <1>7 DEF TypeOK, OtherOpens, OtherCloses, sp_del
  <2>2. UNCHANGED <<pc, newSize, mSeedAddr, made, status, nPendingEvents>>
    BY <1>7
       DEF OtherOpens, OtherCloses, loopVars, connVars, seedVars, historyVars
  <2>3. QED BY <2>1, <2>2 DEF Waking, InBatchLoop, VersionDue
<1>8. CASE ~InBatchLoop'
  BY <1>8 DEF Waking, InBatchLoop
<1>9. CASE UNCHANGED vars
  BY <1>9
     DEF Waking, InBatchLoop, VersionDue, vars, seedVars, connVars, kernelVars,
         loopVars, historyVars
<1>10. QED
  BY <1>1, <1>2, <1>3, <1>4, <1>5, <1>6, <1>7, <1>8, <1>9
     DEF Next, Engine, Connect, Dispatch, OtherThread, OnlyInDispatch, TypeOK,
         InBatchLoop, AddDNSSeed, initEngineFails, StartEngine, WaitForNothing, Wait,
         HandleWrite, NextEvent, ReadFails, BeginRead, HandleError, ReadAddr, EndRead,
         CloseNext, DispatchDone, loopVars

\* The write event of such a connection is one that sp_wait may return.
LEMMA FreshReported ==
  ASSUME TypeOK, NEW f \in Fds, sp[f] = "inout", VersionDue(f), nPendingEvents >= 1
  PROVE  \E E \in EventBatches : Ready(E)
<1> DEFINE e == [fd |-> f, kind |-> "write"]
           E == {e}
<1>1. e \in Event /\ e.fd = f /\ e.kind = "write"
  BY DEF Event, Kinds
<1> HIDE DEF e
<1>2. Reportable(e)
  BY <1>1 DEF Reportable
<1>3. Cardinality(E) = 1
  BY FS_Singleton
<1>4. E \in EventBatches
  BY <1>1, <1>2, <1>3 DEF EventBatches, TypeOK
<1>5. Ready(E)
  BY <1>1 DEF Ready
<1>6. QED BY <1>4, <1>5

\* Whatever fails and whatever the reporter's thread does, the loop never waits
\* with addresses in the queue and nothing to be reported, unless the batch it has
\* just gone through has left no connection (network.cpp:349-381).  In both
\* builds, for any limit, any size of a batch and any number of addresses.
THEOREM SeedsNeverStranded == Spec => []NeverStranded
<1> DEFINE Inv == Agree /\ InBatch /\ Waking
<1>1. Init => Inv
  BY InitType, InitAgree DEF Agree, Init, Waking, InBatchLoop
<1>2. Inv /\ [Next]_vars => Inv'
  BY NextType, NextBatch, NextOnlyInDispatch, NextAgree, NextWaking DEF Agree
<1>3. Inv => NeverStranded
  <2> SUFFICES ASSUME Inv, pc = "wait", mSeedAddr # <<>>, nPendingEvents # 0, ~BatchLost
               PROVE  \E E \in EventBatches : Ready(E)
    BY DEF NeverStranded
  <2>1. newSize # 0
    BY DEF Waking, InBatchLoop
  <2>2. PICK f \in made : sp[f] # "none"
    BY <2>1 DEF BatchLost
  <2>3. f \in Fds /\ sp[f] = "inout" /\ VersionDue(f)
    BY <2>2 DEF Agree, TypeOK, Waking, InBatchLoop
  <2>4. nPendingEvents >= 1
    BY DEF Agree, TypeOK, Waking
  <2>5. QED BY <2>3, <2>4, FreshReported DEF Agree
<1>4. QED BY <1>1, <1>2, <1>3, PTL DEF Spec

-------------------------------------------------------------------------------
(* When no call fails, every batch leaves a connection.                        *)

\* There is a descriptor for every socket().
DescriptorLeft == pc = "initiate" => FreeFds # {}

BatchAlive ==
  (pc = "room" /\ Len(addrs) < newSize) \/ (pc = "wait" /\ newSize # 0)
    => \E f \in made : sp[f] # "none"

LEMMA NextAlive ==
  ASSUME FailOps \cap {"socket", "setup", "add"} = {}, DescriptorLeft,
         Agree, InBatch, DescriptorsOwned, BatchAlive, [Next]_vars
  PROVE  BatchAlive'
<1> USE DEF Agree
<1>1. CASE Drain
  <2>1. DrainSize \in Nat /\ SeedTypeOK
    BY SizesAssumption DEF TypeOK
  <2>2. Len(addrs') = newSize' /\ newSize' \in Nat /\ pc' = "room"
    BY <1>1, <2>1, DrainType, LenProperties DEF Drain, SeedTypeOK
  <2>3. QED BY <2>2 DEF BatchAlive
<1>2. ASSUME NEW sock \in Fds, NEW s \in {"CONNECTING", "CONNECTED"},
             InitiateOK(sock, s)
      PROVE  BatchAlive'
  <2>1. sock \in made' /\ sp'[sock] = "inout"
    BY <1>2 DEF TypeOK, InitiateOK, sp_add
  <2>2. QED BY <2>1 DEF BatchAlive
<1>3. CASE BatchDone
  <2>1. newSize # 0 => Len(addrs) < newSize
    BY <1>3, EmptySeq DEF TypeOK, BatchDone
  <2>2. pc = "room" /\ pc' # "room" /\ UNCHANGED <<newSize, made, sp>>
    BY <1>3 DEF BatchDone, kernelVars, historyVars
  <2>3. QED BY <2>1, <2>2 DEF BatchAlive
<1>4. ASSUME NEW f \in Fds, OtherOpens(f) \/ OtherCloses(f) PROVE BatchAlive'
  <2>1. UNCHANGED <<pc, addrs, newSize, made>>
    BY <1>4 DEF OtherOpens, OtherCloses, loopVars, historyVars
  <2>2. sp' = sp
    <3>1. CASE OtherOpens(f)
      BY <3>1 DEF OtherOpens
    <3>2. CASE OtherCloses(f)
      <4>1. sp[f] = "none"
        BY <3>2 DEF WatchedOwned, DescriptorsOwned, OtherCloses
      <4>2. QED BY <3>2, <4>1 DEF TypeOK, OtherCloses, sp_del
    <3>3. QED BY <1>4, <3>1, <3>2
  <2>3. QED BY <2>1, <2>2 DEF BatchAlive
<1>5. CASE \/ InitiateSocketFails
           \/ \E sock \in Fds : InitiateSetupFails(sock) \/ InitiateAddFails(sock)
  BY <1>5
     DEF DescriptorLeft, InitiateSocketFails, InitiateSetupFails,
         InitiateAddFails, NextAddr
<1>6. CASE pc' \notin {"room", "wait"}
  BY <1>6 DEF BatchAlive
<1>7. CASE UNCHANGED vars
  BY <1>7 DEF BatchAlive, vars, loopVars, kernelVars, historyVars
<1>8. QED
  BY <1>1, <1>2, <1>3, <1>4, <1>5, <1>6, <1>7
     DEF Next, Engine, Connect, Dispatch, OtherThread, OnlyInDispatch, TypeOK,
         AddDNSSeed, initEngineFails, StartEngine, HaveRoom, Evict, WaitForNothing,
         Wait, HandleWrite, NextEvent, ReadFails, BeginRead, HandleError, ReadAddr,
         EndRead, CloseNext, DispatchDone, loopVars

\* The exception of NeverStranded needs a call that fails or a table that is full:
\* while socket() finds a descriptor and no call fails, neither the evictions within
\* a batch nor the reporter's thread ever leave the loop in sp_wait with none of
\* the connections it has just made.
THEOREM BatchesLeaveConnections ==
  ASSUME FailOps \cap {"socket", "setup", "add"} = {}
  PROVE  Spec /\ []DescriptorLeft => [](pc = "wait" => ~BatchLost)
<1> DEFINE Inv == Agree /\ InBatch /\ DescriptorsOwned /\ BatchAlive
<1>1. Init => Inv
  <2> SUFFICES ASSUME Init PROVE Inv
    OBVIOUS
  <2>1. Agree /\ InBatch
    BY InitType, InitAgree DEF Agree
  <2>2. DescriptorsOwned /\ BatchAlive
    BY DEF Init, DescriptorsOwned, connections, BatchAlive
  <2>3. QED BY <2>1, <2>2
<1>2. Inv /\ DescriptorLeft /\ [Next]_vars => Inv'
  BY NextType, NextBatch, NextOnlyInDispatch, NextAgree, NextOwned, NextAlive
     DEF Agree
<1>3. Inv => (pc = "wait" => ~BatchLost)
  BY DEF BatchAlive, BatchLost
<1>4. QED BY <1>1, <1>2, <1>3, PTL DEF Spec
===============================================================================
