-------------------------- MODULE HttpReporterProofs --------------------------
(***************************************************************************)
(* Proofs about HttpReporter, for any number of addresses and reports.     *)
(* ReportedOnce is inductive beside the type; OneCycleLate needs to know   *)
(* where the thread is: which of its two copies is empty (Phases), and that*)
(* the addresses seen before the cycle are on their way (Covered).         *)
(*                                                                         *)
(* Of Pipeline: what is posted without a fault is a row of the web service,*)
(* or its INSERT waits in the queue (PostsExpected).                       *)
(***************************************************************************)
EXTENDS Pipeline, SequenceLemmas

Phases ==
  /\ thread = "takeNew" => newAddrsCopy = <<>> /\ vVersionAddrsCopy = <<>>
  /\ thread = "postNew" => vVersionAddrsCopy = <<>>
  /\ thread = "postVersions" => newAddrsCopy = <<>>

Covered ==
  /\ thread = "postNew" =>
       seenBefore \subseteq Range(newPosted) \cup Range(newAddrsCopy)
  /\ OneCycleLate

IInv == TypeOK /\ ReportedOnce /\ Phases /\ Covered

-------------------------------------------------------------------------------
\* What was reported is what was posted, taken or is waiting.
LEMMA ReportedType ==
  ASSUME TypeOK
  PROVE  /\ Reported \in Seq(CService)
         /\ Range(Reported) =
              Range(newPosted) \cup Range(newAddrsCopy) \cup Range(newAddrs)
<1>1. /\ newPosted \in Seq(CService) /\ newAddrsCopy \in Seq(CService)
      /\ newAddrs \in Seq(CService)
  BY DEF TypeOK
<1>2. newPosted \o newAddrsCopy \in Seq(CService)
  BY <1>1, ConcatProperties
<1>3. Range(newPosted \o newAddrsCopy) = Range(newPosted) \cup Range(newAddrsCopy)
  BY <1>1, RangeConcat
<1>4. Reported = (newPosted \o newAddrsCopy) \o newAddrs
  BY DEF Reported
<1>5. Reported \in Seq(CService)
  BY <1>1, <1>2, <1>4, ConcatProperties
<1>6. Range(Reported) = Range(newPosted \o newAddrsCopy) \cup Range(newAddrs)
  <2>1. \A s, t \in Seq(CService) : Range(s \o t) = Range(s) \cup Range(t)
    BY RangeConcat
  <2>2. Range((newPosted \o newAddrsCopy) \o newAddrs)
          = Range(newPosted \o newAddrsCopy) \cup Range(newAddrs)
    BY <1>1, <1>2, <2>1
  <2>3. QED BY <1>4, <2>2
<1>7. QED BY <1>3, <1>5, <1>6

\* A report of an ip that is not yet reported keeps the reports distinct.
LEMMA AppendDistinct ==
  ASSUME NEW S, NEW s \in Seq(S), NEW x \in S,
         \A i, j \in 1 .. Len(s) : SameAddr(s[i], s[j]) => i = j,
         \A y \in Range(s) : ~SameAddr(y, x)
  PROVE  \A i, j \in 1 .. Len(Append(s, x)) :
           SameAddr(Append(s, x)[i], Append(s, x)[j]) => i = j
<1>1. /\ Len(s) \in Nat
      /\ Len(Append(s, x)) = Len(s) + 1
      /\ \A i \in 1 .. Len(s) : Append(s, x)[i] = s[i]
      /\ Append(s, x)[Len(s) + 1] = x
  BY AppendProperties, LenProperties
<1>2. \A i \in 1 .. Len(s) : s[i] \in Range(s)
  BY LenProperties DEF Range
<1>3. SUFFICES ASSUME NEW i \in 1 .. Len(s) + 1, NEW j \in 1 .. Len(s) + 1,
                      SameAddr(Append(s, x)[i], Append(s, x)[j])
               PROVE  i = j
  BY <1>1
<1>4. CASE i \in 1 .. Len(s) /\ j \in 1 .. Len(s)
  BY <1>1, <1>3, <1>4
<1>5. CASE i \in 1 .. Len(s) /\ j = Len(s) + 1
  BY <1>1, <1>2, <1>3, <1>5
<1>6. CASE i = Len(s) + 1 /\ j \in 1 .. Len(s)
  <2>1. SameAddr(x, s[j])
    BY <1>1, <1>3, <1>6
  <2>2. SameAddr(s[j], x)
    BY <2>1 DEF SameAddr
  <2>3. QED BY <1>2, <1>6, <2>2
<1>7. CASE i = Len(s) + 1 /\ j = Len(s) + 1
  BY <1>7
<1>8. QED BY <1>1, <1>4, <1>5, <1>6, <1>7

LEMMA InitIInv == Init => IInv
<1>1. SUFFICES ASSUME Init PROVE IInv
  OBVIOUS
<1>2. TypeOK
  BY <1>1, EmptySeq DEF Init, TypeOK, SeedInit, SeedTypeOK
<1>3. Reported = <<>>
  BY <1>1 DEF Init, Reported
<1>4. Range(<<>>) = {}
  BY DEF Range
<1>5. ReportedOnce
  BY <1>1, <1>3, <1>4 DEF ReportedOnce, Init, SeedInit
<1>6. Phases /\ Covered
  BY <1>1, <1>4 DEF Phases, Covered, OneCycleLate, Init, SeedInit
<1>7. QED BY <1>2, <1>5, <1>6 DEF IInv

-------------------------------------------------------------------------------
(* One lemma per action. *)

LEMMA NewAddrIInv ==
  ASSUME IInv, NEW addr \in CService, NewAddr(addr)
  PROVE  IInv'
<1>1. TypeOK /\ ReportedOnce /\ Phases /\ Covered
  BY DEF IInv
<1>2. /\ addNewAddr(addr) /\ reportNewAddr(addr)
      /\ UNCHANGED <<vVersionAddrs, newAddrsCopy, vVersionAddrsCopy, thread,
                     newPosted, seenBefore>>
  BY DEF NewAddr
<1>3. SeedTypeOK'
  <2>1. SeedTypeOK
    BY <1>1 DEF TypeOK
  <2>2. CASE UNCHANGED seedVars
    BY <2>1, <2>2 DEF SeedTypeOK, seedVars
  <2>3. CASE /\ mSeenAddr' = mSeenAddr \cup {addr}
             /\ mSeedAddr' = Append(mSeedAddr, addr)
    BY <2>1, <2>3, AppendProperties DEF SeedTypeOK
  <2>4. QED BY <1>2, <2>2, <2>3 DEF addNewAddr
<1>4. newAddrs' \in Seq(CService)
  BY <1>1, <1>2, AppendProperties DEF TypeOK, reportNewAddr
<1>5. TypeOK'
  BY <1>1, <1>2, <1>3, <1>4 DEF TypeOK
<1>6. mSeenAddr \subseteq mSeenAddr'
  BY <1>2 DEF addNewAddr, seedVars
<1>7. ReportedOnce'
  <2>1. CASE Known(addr)
    <3>1. mSeenAddr' = mSeenAddr /\ newAddrs' = newAddrs
      BY <1>2, <2>1 DEF addNewAddr, reportNewAddr, Known, seedVars
    <3>2. QED BY <1>1, <1>2, <3>1 DEF ReportedOnce, Reported
  <2>2. CASE ~Known(addr)
    <3>1. mSeenAddr' = mSeenAddr \cup {addr} /\ newAddrs' = Append(newAddrs, addr)
      BY <1>2, <2>2 DEF addNewAddr, reportNewAddr, Known
    <3>2. Reported' = Append(Reported, addr)
      <4>1. newPosted \o newAddrsCopy \in Seq(CService) /\ newAddrs \in Seq(CService)
        BY <1>1, ConcatProperties DEF TypeOK
      <4>2. QED BY <1>2, <3>1, <4>1, AppendLast DEF Reported
    <3>3. Reported \in Seq(CService)
      BY <1>1, ReportedType
    <3>4. Range(Reported') = Range(Reported) \cup {addr}
      BY <3>2, <3>3, RangeAppend
    <3>5. \A y \in Range(Reported) : ~SameAddr(y, addr)
      BY <1>1, <2>2 DEF ReportedOnce, Known
    <3>6. \A i, j \in 1 .. Len(Reported) :
            SameAddr(Reported[i], Reported[j]) => i = j
      BY <1>1 DEF ReportedOnce
    <3>7. \A i, j \in 1 .. Len(Append(Reported, addr)) :
            SameAddr(Append(Reported, addr)[i], Append(Reported, addr)[j]) => i = j
      BY <3>3, <3>5, <3>6, AppendDistinct
    <3>8. QED
      BY <1>1, <3>1, <3>2, <3>4, <3>7 DEF ReportedOnce, SameAddr
  <2>3. QED BY <2>1, <2>2
<1>8. Phases' /\ Covered'
  BY <1>1, <1>2, <1>6 DEF Phases, Covered, OneCycleLate
<1>9. QED BY <1>5, <1>7, <1>8 DEF IInv

LEMMA DrainIInv == IInv /\ Drain => IInv'
<1>1. SUFFICES ASSUME IInv, Drain PROVE IInv'
  OBVIOUS
<1>2. getNewAddrs(DrainSize) /\ UNCHANGED reportVars /\ UNCHANGED mSeenAddr
  BY <1>1 DEF Drain, getNewAddrs
<1>3. SeedTypeOK /\ DrainSize \in Nat
  BY <1>1, ReporterAssumption DEF IInv, TypeOK
<1>4. SeedTypeOK'
  <2>1. DrainedSize(DrainSize) \in 0 .. Len(mSeedAddr)
    BY <1>3, LenProperties DEF DrainedSize, SeedTypeOK
  <2>2. QED BY <1>2, <1>3, <2>1, Split DEF getNewAddrs, SeedTypeOK
<1>5. TypeOK'
  BY <1>1, <1>2, <1>4 DEF IInv, TypeOK, reportVars
<1>6. ReportedOnce'
  BY <1>1, <1>2 DEF IInv, ReportedOnce, Reported, reportVars
<1>7. Phases' /\ Covered'
  BY <1>1, <1>2 DEF IInv, Phases, Covered, OneCycleLate, reportVars
<1>8. QED BY <1>5, <1>6, <1>7 DEF IInv

LEMMA ReportVersionedIInv ==
  ASSUME IInv, NEW addr \in CService, reportVersionedAddr(addr)
  PROVE  IInv'
<1>1. TypeOK /\ ReportedOnce /\ Phases /\ Covered
  BY DEF IInv
<1>2. /\ vVersionAddrs' = Append(vVersionAddrs, addr)
      /\ UNCHANGED <<seedVars, newAddrs, newAddrsCopy, vVersionAddrsCopy,
                     thread, newPosted, seenBefore>>
  BY DEF reportVersionedAddr
<1>3. vVersionAddrs' \in Seq(CService)
  BY <1>1, <1>2, AppendProperties DEF TypeOK
<1>4. TypeOK'
  BY <1>1, <1>2, <1>3 DEF TypeOK, SeedTypeOK, seedVars
<1>5. ReportedOnce'
  BY <1>1, <1>2 DEF ReportedOnce, Reported, seedVars
<1>6. Phases' /\ Covered'
  BY <1>1, <1>2 DEF Phases, Covered, OneCycleLate
<1>7. QED BY <1>4, <1>5, <1>6 DEF IInv

LEMMA TakeNewIInv == IInv /\ TakeNew => IInv'
<1>1. SUFFICES ASSUME IInv, TakeNew PROVE IInv'
  OBVIOUS
<1>2. TypeOK /\ ReportedOnce /\ Phases /\ Covered
  BY <1>1 DEF IInv
<1>3. /\ newAddrsCopy = <<>> /\ vVersionAddrsCopy = <<>>
      /\ thread' = "postNew" /\ newAddrsCopy' = newAddrs /\ newAddrs' = <<>>
      /\ seenBefore' = mSeenAddr
      /\ UNCHANGED <<seedVars, vVersionAddrs, vVersionAddrsCopy, newPosted>>
  BY <1>1, <1>2 DEF TakeNew, Phases
<1>4. TypeOK'
  BY <1>2, <1>3, EmptySeq DEF TypeOK, SeedTypeOK, seedVars
<1>5. newPosted \in Seq(CService) /\ newAddrs \in Seq(CService)
  BY <1>2 DEF TypeOK
<1>6. Reported' = Reported
  <2>1. newPosted \o <<>> = newPosted
    BY <1>5, ConcatEmptySeq
  <2>2. newPosted \o newAddrs \in Seq(CService)
    BY <1>5, ConcatProperties
  <2>3. (newPosted \o newAddrs) \o <<>> = newPosted \o newAddrs
    BY <2>2, ConcatEmptySeq
  <2>4. QED BY <1>3, <2>1, <2>3 DEF Reported
<1>7. ReportedOnce'
  BY <1>2, <1>3, <1>6 DEF ReportedOnce, seedVars
<1>8. mSeenAddr = Range(newPosted) \cup Range(newAddrs)
  <2>1. Range(<<>>) = {}
    BY DEF Range
  <2>2. QED BY <1>2, <1>3, <2>1, ReportedType DEF ReportedOnce
<1>9. Covered'
  BY <1>2, <1>3, <1>8 DEF Covered, OneCycleLate
<1>10. Phases'
  BY <1>2, <1>3 DEF Phases, seedVars
<1>11. QED BY <1>4, <1>7, <1>9, <1>10 DEF IInv

LEMMA PostNewIInv == IInv /\ PostNew => IInv'
<1>1. SUFFICES ASSUME IInv, PostNew PROVE IInv'
  OBVIOUS
<1>2. TypeOK /\ ReportedOnce /\ Phases /\ Covered
  BY <1>1 DEF IInv
<1>3. /\ thread = "postNew" /\ newAddrsCopy # <<>>
      /\ newPosted' = Append(newPosted, Head(newAddrsCopy))
      /\ newAddrsCopy' = Tail(newAddrsCopy)
      /\ UNCHANGED <<seedVars, newAddrs, vVersionAddrs, vVersionAddrsCopy,
                     thread, seenBefore>>
  BY <1>1 DEF PostNew
<1>4. newPosted \in Seq(CService) /\ newAddrsCopy \in Seq(CService)
  BY <1>2 DEF TypeOK
<1>5. Head(newAddrsCopy) \in CService /\ Tail(newAddrsCopy) \in Seq(CService)
  BY <1>3, <1>4, HeadTailProperties
<1>6. newPosted' \in Seq(CService)
  BY <1>3, <1>4, <1>5, AppendProperties
<1>7. TypeOK'
  BY <1>2, <1>3, <1>5, <1>6 DEF TypeOK, SeedTypeOK, seedVars
<1>8. Reported' = Reported
  BY <1>3, <1>4, MoveHead DEF Reported
<1>9. ReportedOnce'
  BY <1>2, <1>3, <1>8 DEF ReportedOnce, seedVars
<1>10. Range(newPosted') \cup Range(newAddrsCopy')
         = Range(newPosted) \cup Range(newAddrsCopy)
  <2>1. Range(newPosted') = Range(newPosted) \cup {Head(newAddrsCopy)}
    BY <1>3, <1>4, <1>5, RangeAppend
  <2>2. Range(newAddrsCopy) = Range(Tail(newAddrsCopy)) \cup {Head(newAddrsCopy)}
    BY <1>3, <1>4, RangeTail
  <2>3. QED BY <1>3, <2>1, <2>2
<1>11. Covered'
  BY <1>2, <1>3, <1>10 DEF Covered, OneCycleLate
<1>12. Phases'
  BY <1>2, <1>3 DEF Phases, seedVars
<1>13. QED BY <1>7, <1>9, <1>11, <1>12 DEF IInv

LEMMA TakeVersionsIInv == IInv /\ TakeVersions => IInv'
<1>1. SUFFICES ASSUME IInv, TakeVersions PROVE IInv'
  OBVIOUS
<1>2. TypeOK /\ ReportedOnce /\ Phases /\ Covered
  BY <1>1 DEF IInv
<1>3. /\ thread = "postNew" /\ newAddrsCopy = <<>> /\ thread' = "postVersions"
      /\ vVersionAddrsCopy' = vVersionAddrs /\ vVersionAddrs' = <<>>
      /\ UNCHANGED <<seedVars, newAddrs, newAddrsCopy, newPosted,
                     seenBefore>>
  BY <1>1 DEF TakeVersions
<1>4. Range(<<>>) = {}
  BY DEF Range
<1>5. TypeOK'
  BY <1>2, <1>3, EmptySeq DEF TypeOK, SeedTypeOK, seedVars
<1>6. ReportedOnce'
  BY <1>2, <1>3 DEF ReportedOnce, Reported, seedVars
<1>7. Phases' /\ Covered'
  BY <1>2, <1>3, <1>4
  DEF Phases, Covered, OneCycleLate, seedVars
<1>8. QED BY <1>5, <1>6, <1>7 DEF IInv

LEMMA PostVersionIInv == IInv /\ PostVersion => IInv'
<1>1. SUFFICES ASSUME IInv, PostVersion PROVE IInv'
  OBVIOUS
<1>2. TypeOK /\ ReportedOnce /\ Phases /\ Covered
  BY <1>1 DEF IInv
<1>3. /\ thread = "postVersions" /\ vVersionAddrsCopy # <<>>
      /\ vVersionAddrsCopy' = Tail(vVersionAddrsCopy)
      /\ UNCHANGED <<seedVars, newAddrs, vVersionAddrs, newAddrsCopy, thread,
                     newPosted, seenBefore>>
  BY <1>1 DEF PostVersion
<1>4. vVersionAddrsCopy \in Seq(CService)
  BY <1>2 DEF TypeOK
<1>5. Tail(vVersionAddrsCopy) \in Seq(CService)
  BY <1>3, <1>4, HeadTailProperties
<1>6. TypeOK'
  BY <1>2, <1>3, <1>5 DEF TypeOK, SeedTypeOK, seedVars
<1>7. ReportedOnce'
  BY <1>2, <1>3 DEF ReportedOnce, Reported, seedVars
<1>8. Phases' /\ Covered'
  BY <1>2, <1>3 DEF Phases, Covered, OneCycleLate
<1>9. QED BY <1>6, <1>7, <1>8 DEF IInv

LEMMA SleepIInv == IInv /\ Sleep => IInv'
<1>1. SUFFICES ASSUME IInv, Sleep PROVE IInv'
  OBVIOUS
<1>2. TypeOK /\ ReportedOnce /\ Phases /\ Covered
  BY <1>1 DEF IInv
<1>3. /\ thread = "postVersions" /\ vVersionAddrsCopy = <<>>
      /\ thread' = "takeNew"
      /\ UNCHANGED <<seedVars, newAddrs, vVersionAddrs, newAddrsCopy,
                     vVersionAddrsCopy, newPosted, seenBefore>>
  BY <1>1 DEF Sleep
<1>4. TypeOK' /\ ReportedOnce'
  BY <1>2, <1>3 DEF TypeOK, SeedTypeOK, seedVars, ReportedOnce, Reported
<1>5. Phases' /\ Covered'
  BY <1>2, <1>3 DEF Phases, Covered, OneCycleLate, seedVars
<1>6. QED BY <1>4, <1>5 DEF IInv

LEMMA StutterIInv == IInv /\ UNCHANGED vars => IInv'
BY DEF IInv, TypeOK, SeedTypeOK, ReportedOnce, Reported, Phases, Covered,
       OneCycleLate, vars, seedVars, reportVars

LEMMA StepIInv == IInv /\ [Next]_vars => IInv'
<1>1. SUFFICES ASSUME IInv, [Next]_vars PROVE IInv'
  OBVIOUS
<1>2. CASE \E addr \in CService : NewAddr(addr) \/ reportVersionedAddr(addr)
  BY <1>1, <1>2, NewAddrIInv, ReportVersionedIInv
<1>3. CASE Drain
  BY <1>1, <1>3, DrainIInv
<1>4. CASE httpReporterThread
  BY <1>1, <1>4, TakeNewIInv, PostNewIInv, TakeVersionsIInv, PostVersionIInv,
     SleepIInv DEF httpReporterThread
<1>5. CASE UNCHANGED vars
  BY <1>1, <1>5, StutterIInv
<1>6. QED BY <1>1, <1>2, <1>3, <1>4, <1>5 DEF Next

LEMMA Invariance == Spec => []IInv
BY InitIInv, StepIInv, PTL DEF Spec

-------------------------------------------------------------------------------
\* The type invariant: what is reported is always an address, ip and port.
THEOREM TypeCorrect == Spec => []TypeOK
BY Invariance, PTL DEF IInv

\* Each ip seen is posted, taken or waiting exactly once (http_reporter.h:42-70).
THEOREM AddressesReportedOnce == Spec => []ReportedOnce
BY Invariance, PTL DEF IInv

\* A version that was posted before this cycle began is of an address that is
\* posted by the time the versions of this cycle are (http_reporter.h:63-98).
THEOREM VersionsOneCycleLate == Spec => []OneCycleLate
BY Invariance, PTL DEF IInv, Covered

-------------------------------------------------------------------------------
(* The pipeline: what was posted without a fault is in the web service. *)

\* The callbacks, whatever the limit of tries.
Call == [fn : {"resolve"}, ip : Ips, count : Nat]
          \cup [fn : {"update_version"}, ip : Ips]

StoreType ==
  /\ committed \in Web!Table
  /\ session \in Web!Table
  /\ callbacks \in Seq(Call)

\* The row is there, or its INSERT waits in the queue.
Expected(ip) ==
  session[ip] # Web!NoRow \/ Web!resolve(ip, 0) \in Range(callbacks)

PostsExpected == ~faulty => \A addr \in Range(newPosted) : Expected(addr.ip)

PipelineInv == IInv /\ StoreType /\ PostsExpected

LEMMA RowFacts ==
  /\ Web!NoRow \notin Web!Row
  /\ Web!FreshRow \in Web!Row
  /\ \A row \in Web!Row : /\ [row EXCEPT !.located = TRUE] \in Web!Row
                          /\ [row EXCEPT !.versioned = TRUE] \in Web!Row
BY DEF Web!Row, Web!NoRow, Web!FreshRow

LEMMA CallFacts ==
  ASSUME NEW ip \in Ips
  PROVE  /\ Web!update_version(ip) \in Call
         /\ \A count \in Nat : Web!resolve(ip, count) \in Call
         /\ \A other : Web!update_version(ip) # Web!resolve(other, 0)
BY DEF Call, Web!update_version, Web!resolve

LEMMA SpawnFacts ==
  ASSUME StoreType, NEW c \in Call, Web!Spawn(c)
  PROVE  /\ callbacks' \in Seq(Call)
         /\ Range(callbacks') = Range(callbacks) \cup {c}
BY AppendProperties, RangeAppend DEF StoreType, Web!Spawn

LEMMA RunFacts ==
  ASSUME StoreType, NEW c, Web!Run(c)
  PROVE  /\ callbacks' \in Seq(Call)
         /\ Range(callbacks) = Range(callbacks') \cup {c}
BY HeadTailProperties, RangeTail DEF StoreType, Web!Run

\* An UPDATE neither makes a row nor removes one.
LEMMA UpdateFacts ==
  ASSUME StoreType, NEW ip \in Ips, NEW row,
         session[ip] # Web!NoRow => row \in Web!Row, Web!Update(ip, row)
  PROVE  /\ session' \in Web!Table
         /\ \A other \in Ips : session[other] # Web!NoRow => session'[other] # Web!NoRow
BY RowFacts DEF StoreType, Web!Table, Web!Update

\* One coroutine runs: no row goes away, and an INSERT leaves the queue only
\* when its row is there.
LEMMA StoreStep ==
  ASSUME StoreType, Store
  PROVE  StoreType' /\ \A ip \in Ips : Expected(ip) => Expected(ip)'
<1>1. ASSUME NEW ip \in Ips, Web!UpdateVersion(ip)
      PROVE  StoreType' /\ \A other \in Ips : Expected(other) => Expected(other)'
  <2>1. /\ Web!Run(Web!update_version(ip)) /\ committed' = session'
        /\ Web!Update(ip, [session[ip] EXCEPT !.versioned = TRUE])
    BY <1>1 DEF Web!UpdateVersion, Web!Commit
  <2>2. session[ip] # Web!NoRow => [session[ip] EXCEPT !.versioned = TRUE] \in Web!Row
    BY RowFacts DEF StoreType, Web!Table
  <2>3. /\ session' \in Web!Table
        /\ \A other \in Ips : session[other] # Web!NoRow => session'[other] # Web!NoRow
    BY <2>1, <2>2, UpdateFacts
  <2>4. /\ callbacks' \in Seq(Call)
        /\ Range(callbacks) = Range(callbacks') \cup {Web!update_version(ip)}
    BY <2>1, RunFacts
  <2>5. QED BY <2>1, <2>3, <2>4, CallFacts DEF StoreType, Expected
<1>2. ASSUME NEW ip \in Ips, Web!RejectVersion(ip)
      PROVE  StoreType' /\ \A other \in Ips : Expected(other) => Expected(other)'
  <2>1. Web!Run(Web!update_version(ip)) /\ UNCHANGED <<committed, session>>
    BY <1>2 DEF Web!RejectVersion
  <2>2. /\ callbacks' \in Seq(Call)
        /\ Range(callbacks) = Range(callbacks') \cup {Web!update_version(ip)}
    BY <2>1, RunFacts
  <2>3. QED BY <2>1, <2>2, CallFacts DEF StoreType, Expected
<1>3. ASSUME NEW ip \in Ips, NEW count \in 0 .. MaxTryCount,
             Web!StartLookUp(ip, count) \/ Web!RejectDuplicate(ip, count)
      PROVE  StoreType' /\ \A other \in Ips : Expected(other) => Expected(other)'
  <2>1. Web!Run(Web!resolve(ip, count)) /\ UNCHANGED committed
    BY <1>3 DEF Web!StartLookUp, Web!RejectDuplicate
  <2>2. /\ callbacks' \in Seq(Call)
        /\ Range(callbacks) = Range(callbacks') \cup {Web!resolve(ip, count)}
    BY <2>1, RunFacts
  <2>3. Web!resolve(ip, count).ip = ip /\ Web!resolve(ip, count).count = count
    BY DEF Web!resolve
  <2>4. /\ session' \in Web!Table
        /\ count = 0 => session'[ip] # Web!NoRow
        /\ \A other \in Ips : session[other] # Web!NoRow => session'[other] # Web!NoRow
    BY <1>3, <2>3, RowFacts
    DEF StoreType, Web!Table, Web!StartLookUp, Web!RejectDuplicate, Web!Insertable
  <2>5. \A other \in Ips :
          Web!resolve(other, 0) = Web!resolve(ip, count) => other = ip /\ count = 0
    BY DEF Web!resolve
  <2>6. QED BY <2>1, <2>2, <2>4, <2>5 DEF StoreType, Expected
<1>4. ASSUME NEW l \in Web!LookUp, Web!Answer(l)
      PROVE  StoreType' /\ \A other \in Ips : Expected(other) => Expected(other)'
  <2>1. l.ip \in Ips /\ l.count \in Nat
    BY DEF Web!LookUp
  <2>2. CASE Web!Located(l)
    <3>1. /\ Web!Update(l.ip, [session[l.ip] EXCEPT !.located = TRUE])
          /\ committed' = session' /\ UNCHANGED callbacks
      BY <2>2 DEF Web!Located, Web!Commit
    <3>2. session[l.ip] # Web!NoRow =>
            [session[l.ip] EXCEPT !.located = TRUE] \in Web!Row
      BY <2>1, RowFacts DEF StoreType, Web!Table
    <3>3. /\ session' \in Web!Table
          /\ \A other \in Ips :
               session[other] # Web!NoRow => session'[other] # Web!NoRow
      BY <2>1, <3>1, <3>2, UpdateFacts
    <3>4. QED BY <3>1, <3>3 DEF StoreType, Expected
  <2>3. CASE Web!NotLocated(l)
    BY <2>3 DEF Web!NotLocated, StoreType, Expected
  <2>4. CASE Web!LookUpFails(l)
    <3>1. Web!Retry(l) /\ UNCHANGED <<committed, session>>
      BY <2>4 DEF Web!LookUpFails
    <3>2. callbacks' \in Seq(Call) /\ Range(callbacks) \subseteq Range(callbacks')
      <4>1. CASE Web!Spawn(Web!resolve(l.ip, l.count + 1))
        BY <2>1, <4>1, CallFacts, SpawnFacts
      <4>2. CASE UNCHANGED callbacks
        BY <4>2 DEF StoreType
      <4>3. QED BY <3>1, <4>1, <4>2 DEF Web!Retry
    <3>3. QED BY <3>1, <3>2 DEF StoreType, Expected
  <2>5. QED BY <1>4, <2>2, <2>3, <2>4 DEF Web!Answer
<1>5. QED BY <1>1, <1>2, <1>3, <1>4 DEF Store, Web!RunCallback

LEMMA DeliverNewInv == PipelineInv /\ DeliverNew => PipelineInv'
<1>1. SUFFICES ASSUME PipelineInv, DeliverNew PROVE PipelineInv'
  OBVIOUS
<1>2. /\ PostNew /\ Web!PostNew(Head(newAddrsCopy).ip) /\ UNCHANGED faulty
  BY <1>1 DEF DeliverNew, faultVars
<1>3. IInv /\ IInv' /\ StoreType /\ PostsExpected
  BY <1>1, <1>2, PostNewIInv DEF PipelineInv
<1>4. /\ newPosted \in Seq(CService) /\ Head(newAddrsCopy) \in CService
      /\ newPosted' = Append(newPosted, Head(newAddrsCopy))
  BY <1>2, <1>3, HeadTailProperties DEF IInv, TypeOK, PostNew
<1>5. Range(newPosted') = Range(newPosted) \cup {Head(newAddrsCopy)}
  BY <1>4, RangeAppend
<1>6. Head(newAddrsCopy).ip \in Ips
  BY <1>4 DEF CService
<1>7. /\ UNCHANGED <<committed, session>>
      /\ Web!Spawn(Web!resolve(Head(newAddrsCopy).ip, 0))
  BY <1>2 DEF Web!PostNew
<1>8. /\ callbacks' \in Seq(Call)
      /\ Range(callbacks')
           = Range(callbacks) \cup {Web!resolve(Head(newAddrsCopy).ip, 0)}
  BY <1>3, <1>6, <1>7, CallFacts, SpawnFacts
<1>9. StoreType' /\ PostsExpected'
  BY <1>2, <1>3, <1>5, <1>7, <1>8 DEF StoreType, PostsExpected, Expected
<1>10. QED BY <1>3, <1>9 DEF PipelineInv

LEMMA DeliverVersionInv == PipelineInv /\ DeliverVersion => PipelineInv'
<1>1. SUFFICES ASSUME PipelineInv, DeliverVersion PROVE PipelineInv'
  OBVIOUS
<1>2. PostVersion /\ Web!PostVersion(Head(vVersionAddrsCopy).ip) /\ UNCHANGED faulty
  BY <1>1 DEF DeliverVersion, faultVars
<1>3. IInv /\ IInv' /\ StoreType /\ PostsExpected
  BY <1>1, <1>2, PostVersionIInv DEF PipelineInv
<1>4. UNCHANGED newPosted /\ Head(vVersionAddrsCopy).ip \in Ips
  <2>1. vVersionAddrsCopy \in Seq(CService) /\ vVersionAddrsCopy # <<>>
    BY <1>2, <1>3 DEF IInv, TypeOK, PostVersion
  <2>2. Head(vVersionAddrsCopy) \in CService
    BY <2>1, HeadTailProperties
  <2>3. QED BY <1>2, <2>2 DEF PostVersion, CService
<1>5. /\ UNCHANGED <<committed, session>>
      /\ Web!Spawn(Web!update_version(Head(vVersionAddrsCopy).ip))
  BY <1>2 DEF Web!PostVersion
<1>6. callbacks' \in Seq(Call) /\ Range(callbacks) \subseteq Range(callbacks')
  BY <1>3, <1>4, <1>5, CallFacts, SpawnFacts
<1>7. StoreType' /\ PostsExpected'
  BY <1>2, <1>3, <1>4, <1>5, <1>6 DEF StoreType, PostsExpected, Expected
<1>8. QED BY <1>3, <1>7 DEF PipelineInv

\* A step of the crawler alone: nothing is posted.
LEMMA CrawlerInv ==
  ASSUME PipelineInv, [Next]_vars,
         UNCHANGED <<newPosted, committed, session, callbacks, faulty>>
  PROVE  PipelineInv'
<1>1. IInv'
  BY StepIInv DEF PipelineInv
<1>2. StoreType' /\ PostsExpected'
  BY DEF PipelineInv, StoreType, PostsExpected, Expected
<1>3. QED BY <1>1, <1>2 DEF PipelineInv

LEMMA RestartCrawlerInv == PipelineInv /\ RestartCrawler => PipelineInv'
<1>1. SUFFICES ASSUME PipelineInv, RestartCrawler PROVE PipelineInv'
  OBVIOUS
<1>2. Init'
  BY <1>1 DEF RestartCrawler, Init, SeedInit
<1>3. Init' => IInv'
  BY InitIInv, PTL
<1>4. StoreType'
  BY <1>1 DEF PipelineInv, StoreType, RestartCrawler, webVars
<1>5. newPosted' = <<>> /\ Range(<<>>) = {}
  BY <1>1 DEF RestartCrawler, Range
<1>6. QED BY <1>2, <1>3, <1>4, <1>5 DEF PipelineInv, PostsExpected

LEMMA PipelineStep == PipelineInv /\ [PipelineNext]_pipelineVars => PipelineInv'
<1>1. SUFFICES ASSUME PipelineInv, [PipelineNext]_pipelineVars PROVE PipelineInv'
  OBVIOUS
<1>2. CASE Crawl
  <2>1. [Next]_vars /\ UNCHANGED <<newPosted, committed, session, callbacks, faulty>>
    BY <1>2 DEF Crawl, Next, NewAddr, reportVersionedAddr, Drain, reportVars, webVars,
                faultVars
  <2>2. QED BY <1>1, <2>1, CrawlerInv
<1>3. CASE Exchange
  <2>1. [Next]_vars /\ UNCHANGED <<newPosted, committed, session, callbacks, faulty>>
    BY <1>3 DEF Exchange, Next, httpReporterThread, TakeNew, TakeVersions, Sleep,
                webVars, faultVars
  <2>2. QED BY <1>1, <2>1, CrawlerInv
<1>4. CASE DeliverNew
  BY <1>1, <1>4, DeliverNewInv
<1>5. CASE DeliverVersion
  BY <1>1, <1>5, DeliverVersionInv
<1>6. CASE LosePost
  <2>1. IInv'
    BY <1>1, <1>6, PostNewIInv, PostVersionIInv DEF LosePost, PipelineInv
  <2>2. StoreType' /\ PostsExpected'
    BY <1>1, <1>6 DEF LosePost, PipelineInv, StoreType, PostsExpected, webVars
  <2>3. QED BY <2>1, <2>2 DEF PipelineInv
<1>7. CASE Store
  <2>1. UNCHANGED vars /\ UNCHANGED <<newPosted, faulty>>
    BY <1>7 DEF Store, vars, reportVars, faultVars
  <2>2. IInv'
    BY <1>1, <2>1, StutterIInv DEF PipelineInv
  <2>3. StoreType' /\ \A ip \in Ips : Expected(ip) => Expected(ip)'
    BY <1>1, <1>7, StoreStep DEF PipelineInv
  <2>4. \A addr \in Range(newPosted) : addr.ip \in Ips
    <3>1. newPosted \in Seq(CService)
      BY <1>1 DEF PipelineInv, IInv, TypeOK
    <3>2. \A addr \in Range(newPosted) : addr \in CService
      BY <3>1, LenProperties DEF Range
    <3>3. QED BY <3>2 DEF CService
  <2>5. PostsExpected'
    BY <1>1, <2>1, <2>3, <2>4 DEF PipelineInv, PostsExpected
  <2>6. QED BY <2>2, <2>3, <2>5 DEF PipelineInv
<1>8. CASE RestartWeb
  <2>1. UNCHANGED vars /\ faulty' = TRUE /\ UNCHANGED committed
        /\ session' = committed /\ callbacks' = <<>>
    BY <1>8 DEF RestartWeb, Web!Restart
  <2>2. IInv'
    BY <1>1, <2>1, StutterIInv DEF PipelineInv
  <2>3. StoreType' /\ PostsExpected'
    BY <1>1, <2>1, EmptySeq DEF PipelineInv, StoreType, PostsExpected
  <2>4. QED BY <2>2, <2>3 DEF PipelineInv
<1>9. CASE RestartCrawler
  BY <1>1, <1>9, RestartCrawlerInv
<1>10. CASE UNCHANGED pipelineVars
  <2>1. [Next]_vars /\ UNCHANGED <<newPosted, committed, session, callbacks, faulty>>
    BY <1>10 DEF pipelineVars, vars, reportVars, webVars, faultVars
  <2>2. QED BY <1>1, <2>1, CrawlerInv
<1>11. QED
  BY <1>1, <1>2, <1>3, <1>4, <1>5, <1>6, <1>7, <1>8, <1>9, <1>10
  DEF PipelineNext, Reporting

LEMMA PipelineInvariance == PipelineSpec => []PipelineInv
<1>1. PipelineInit => PipelineInv
  <2>1. SUFFICES ASSUME PipelineInit PROVE PipelineInv
    OBVIOUS
  <2>2. IInv
    BY <2>1, InitIInv DEF PipelineInit
  <2>3. StoreType
    BY <2>1, EmptySeq DEF PipelineInit, Web!Init, StoreType, Web!Table
  <2>4. newPosted = <<>> /\ Range(<<>>) = {}
    BY <2>1 DEF PipelineInit, Init, Range
  <2>5. QED BY <2>2, <2>3, <2>4 DEF PipelineInv, PostsExpected
<1>2. QED BY <1>1, PipelineStep, PTL DEF PipelineSpec

\* Without a fault a version is posted to the web service, and in no other step.
LEMMA VersionPost ==
  ASSUME PipelineInv, [PipelineNext]_pipelineVars, PostVersion, ~faulty',
         Head(vVersionAddrsCopy) \in Range(newPosted)
  PROVE  Head(vVersionAddrsCopy).ip \in due'
<1>1. DeliverVersion
  <2>1. /\ thread = "postVersions" /\ thread' = thread
        /\ vVersionAddrsCopy # <<>> /\ vVersionAddrsCopy' = Tail(vVersionAddrsCopy)
    BY DEF PostVersion
  <2>2. vVersionAddrsCopy' # vVersionAddrsCopy
    <3>1. vVersionAddrsCopy \in Seq(CService)
      BY DEF PipelineInv, IInv, TypeOK
    <3>2. Len(Tail(vVersionAddrsCopy)) # Len(vVersionAddrsCopy)
      BY <2>1, <3>1, HeadTailProperties, LenProperties
    <3>3. QED BY <2>1, <3>2
  <2>3. ~Crawl
    BY <2>2 DEF Crawl, NewAddr, reportVersionedAddr, Drain, reportVars
  <2>4. ~Exchange
    BY <2>1 DEF Exchange, TakeNew, TakeVersions, Sleep
  <2>5. ~DeliverNew /\ ~LosePost
    BY <2>1 DEF DeliverNew, LosePost, PostNew
  <2>6. ~Store /\ ~RestartWeb /\ ~UNCHANGED pipelineVars
    BY <2>2 DEF Store, RestartWeb, pipelineVars, vars, reportVars
  <2>7. ~RestartCrawler
    BY <2>1 DEF RestartCrawler
  <2>8. QED BY <2>3, <2>4, <2>5, <2>6, <2>7 DEF PipelineNext, Reporting
<1>2. Web!PostVersion(Head(vVersionAddrsCopy).ip) /\ ~faulty
  BY <1>1 DEF DeliverVersion, faultVars
<1>3. \/ session[Head(vVersionAddrsCopy).ip] # Web!NoRow
      \/ Web!resolve(Head(vVersionAddrsCopy).ip, 0) \in Range(callbacks)
  BY <1>2 DEF PipelineInv, PostsExpected, Expected
<1>4. Web!Range(callbacks) = Range(callbacks)
  BY DEF Range, Web!Range
<1>5. due' = due \cup {Head(vVersionAddrsCopy).ip}
  BY <1>2, <1>3, <1>4 DEF Web!PostVersion
<1>6. QED BY <1>5

\* Unless a post is lost or the web service restarted, the version of an address
\* posted before it reaches a row (http_reporter.h:60-139, torweb.py:13-106).
THEOREM VersionsFindTheirRows == PipelineSpec => VersionsFindRows
<1>1. PipelineInv /\ [PipelineNext]_pipelineVars =>
        [PostVersion /\ Head(vVersionAddrsCopy) \in Range(newPosted) /\ ~faulty'
           => Head(vVersionAddrsCopy).ip \in due']_pipelineVars
  BY VersionPost
<1>2. QED BY <1>1, PipelineInvariance, PTL DEF PipelineSpec, VersionsFindRows

\* Whatever the crawler does, and however posts and processes fail, the web service
\* is a WebStore: what is proved of Spec there holds of it here, as that a version
\* that finds its row is stored (torweb.py:13-106).
THEOREM PipelineImplementsStore == PipelineSpec => Web!Spec
<1>1. PipelineInit => Web!Init
  BY DEF PipelineInit
<1>2. PipelineInv /\ [PipelineNext]_pipelineVars => [Web!Next]_(Web!vars)
  <2>1. SUFFICES ASSUME PipelineInv, [PipelineNext]_pipelineVars
                 PROVE  Web!Next \/ UNCHANGED webVars
    BY DEF Web!vars, webVars
  <2>2. CASE Crawl \/ Exchange \/ LosePost \/ RestartCrawler \/ UNCHANGED pipelineVars
    BY <2>2 DEF Crawl, Exchange, LosePost, RestartCrawler, pipelineVars
  <2>3. CASE DeliverNew
    <3>1. Head(newAddrsCopy).ip \in Ips
      <4>1. newAddrsCopy \in Seq(CService) /\ newAddrsCopy # <<>>
        BY <2>1, <2>3 DEF DeliverNew, PostNew, PipelineInv, IInv, TypeOK
      <4>2. Head(newAddrsCopy) \in CService
        BY <4>1, HeadTailProperties
      <4>3. QED BY <4>2 DEF CService
    <3>2. QED BY <2>3, <3>1 DEF DeliverNew, Web!Next, Web!Report
  <2>4. CASE DeliverVersion
    <3>1. Head(vVersionAddrsCopy).ip \in Ips
      <4>1. vVersionAddrsCopy \in Seq(CService) /\ vVersionAddrsCopy # <<>>
        BY <2>1, <2>4 DEF DeliverVersion, PostVersion, PipelineInv, IInv, TypeOK
      <4>2. Head(vVersionAddrsCopy) \in CService
        BY <4>1, HeadTailProperties
      <4>3. QED BY <4>2 DEF CService
    <3>2. QED BY <2>4, <3>1 DEF DeliverVersion, Web!Next, Web!Report
  <2>5. CASE Store
    BY <2>5 DEF Store, Web!Next
  <2>6. CASE RestartWeb
    BY <2>6 DEF RestartWeb, Web!Next
  <2>7. QED BY <2>1, <2>2, <2>3, <2>4, <2>5, <2>6 DEF PipelineNext, Reporting
<1>3. QED BY <1>1, <1>2, PipelineInvariance, PTL DEF PipelineSpec, Web!Spec
===============================================================================
