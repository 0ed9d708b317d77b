---------------------------- MODULE WebStoreProofs ----------------------------
(***************************************************************************)
(* Proofs about WebStore, for any number of ips, reports, tries and        *)
(* restarts, and about WebService, for any countries and time-out.         *)
(* WorkCommitted is inductive beside the type, and so is Single, which is  *)
(* OneLookUp by places.  VersionKept needs the order of the queue          *)
(* (Coming): the INSERT a due UPDATE relies on was spawned before it.      *)
(* AnswerRecent needs what an answer has left of its time-out (Aging).     *)
(***************************************************************************)
EXTENDS WebService, Integers, SequenceTheorems, TLAPS

IsTry(i, ip) ==
  callbacks[i].fn = "resolve" /\ callbacks[i].ip = ip /\ callbacks[i].count > 0

Places == 1 .. Len(callbacks)

Single ==
  /\ \A l, m \in lookUps : l.ip = m.ip => l = m
  /\ \A l \in lookUps : session[l.ip] # NoRow
  /\ \A ip \in Ips : \A i \in Places : IsTry(i, ip) =>
       /\ session[ip] # NoRow
       /\ \A l \in lookUps : l.ip # ip
       /\ \A j \in Places : IsTry(j, ip) => i = j

\* The row of ip is there, or the INSERT is in the queue before place j.
RowBefore(ip, j) ==
  session[ip] # NoRow \/ \E i \in 1 .. j - 1 : callbacks[i] = resolve(ip, 0)

Kept(ip) ==
  \/ session[ip] # NoRow /\ session[ip].versioned
  \/ \E j \in Places : callbacks[j] = update_version(ip) /\ RowBefore(ip, j)

Coming == \A ip \in due : Kept(ip)

IInv == TypeOK /\ WorkCommitted /\ Single /\ Coming

-------------------------------------------------------------------------------
(* The queue and the rows. *)

LEMMA RowFacts ==
  /\ NoRow \notin Row
  /\ FreshRow \in Row
  /\ \A row \in Row : /\ [row EXCEPT !.located = TRUE] \in Row
                      /\ [row EXCEPT !.located = TRUE].versioned = row.versioned
                      /\ [row EXCEPT !.versioned = TRUE] \in Row
                      /\ [row EXCEPT !.versioned = TRUE].versioned
BY DEF Row, NoRow, FreshRow

LEMMA Calls ==
  ASSUME NEW ip \in Ips
  PROVE  /\ update_version(ip) \in Callback
         /\ \A count \in 0 .. MaxTryCount : resolve(ip, count) \in Callback
         /\ update_version(ip).fn = "update_version"
         /\ \A count \in 0 .. MaxTryCount :
              /\ resolve(ip, count).fn = "resolve"
              /\ resolve(ip, count).ip = ip
              /\ resolve(ip, count).count = count
BY DEF Callback, update_version, resolve

LEMMA QueueRun ==
  ASSUME callbacks \in Seq(Callback), NEW c, Run(c)
  PROVE  /\ callbacks' \in Seq(Callback)
         /\ Len(callbacks) \in Nat \ {0} /\ Len(callbacks') = Len(callbacks) - 1
         /\ callbacks[1] = c
         /\ \A i \in 1 .. Len(callbacks') : callbacks'[i] = callbacks[i + 1]
BY HeadTailProperties, EmptySeq DEF Run

LEMMA QueueSpawn ==
  ASSUME callbacks \in Seq(Callback), NEW c \in Callback, Spawn(c)
  PROVE  /\ callbacks' \in Seq(Callback)
         /\ Len(callbacks) \in Nat /\ Len(callbacks') = Len(callbacks) + 1
         /\ \A i \in 1 .. Len(callbacks) : callbacks'[i] = callbacks[i]
         /\ callbacks'[Len(callbacks) + 1] = c
BY AppendProperties, LenProperties DEF Spawn

\* RowFacts only come, and keep their version.
RowsKept ==
  \A ip \in Ips : session[ip] # NoRow =>
    /\ session'[ip] # NoRow
    /\ session[ip].versioned => session'[ip].versioned

\* A callback added to the queue that is not a try.
LEMMA SpawnOther ==
  ASSUME IInv, NEW c \in Callback, Spawn(c),
         c.fn = "resolve" => c.count = 0,
         UNCHANGED <<session, lookUps>>
  PROVE  /\ Single'
         /\ \A ip \in Ips : Kept(ip) => Kept(ip)'
<1>1. callbacks \in Seq(Callback)
  BY DEF IInv, TypeOK
<1>2. /\ Len(callbacks) \in Nat /\ Len(callbacks') = Len(callbacks) + 1
      /\ \A i \in 1 .. Len(callbacks) : callbacks'[i] = callbacks[i]
      /\ callbacks'[Len(callbacks) + 1] = c
  BY <1>1, QueueSpawn
<1>3. \A ip \in Ips : \A i \in Places' : IsTry(i, ip)' => i \in Places /\ IsTry(i, ip)
  BY <1>2 DEF Places, IsTry
<1>4. Single'
  BY <1>3 DEF IInv, Single
<1>5. ASSUME NEW ip \in Ips, Kept(ip) PROVE Kept(ip)'
  <2>1. CASE session[ip] # NoRow /\ session[ip].versioned
    BY <2>1 DEF Kept
  <2>2. CASE \E j \in Places :
               callbacks[j] = update_version(ip) /\ RowBefore(ip, j)
    <3>1. PICK j \in Places : callbacks[j] = update_version(ip) /\ RowBefore(ip, j)
      BY <2>2
    <3>2. j \in Places' /\ callbacks'[j] = update_version(ip)
      BY <1>2, <3>1 DEF Places
    <3>3. RowBefore(ip, j)'
      BY <1>2, <3>1 DEF RowBefore, Places
    <3>4. QED BY <3>2, <3>3 DEF Kept
  <2>3. QED BY <1>5, <2>1, <2>2 DEF Kept
<1>6. QED BY <1>4, <1>5

\* A callback that leaves the queue without having to do with ip's version.
LEMMA RunOther ==
  ASSUME IInv, NEW c, Run(c), NEW ip \in Ips, Kept(ip), RowsKept,
         c = update_version(ip) =>
           session[ip] = NoRow \/ session'[ip].versioned,
         c = resolve(ip, 0) => session'[ip] # NoRow
  PROVE  Kept(ip)'
<1>1. callbacks \in Seq(Callback)
  BY DEF IInv, TypeOK
<1>2. /\ Len(callbacks) \in Nat \ {0} /\ Len(callbacks') = Len(callbacks) - 1
      /\ callbacks[1] = c
      /\ \A i \in 1 .. Len(callbacks') : callbacks'[i] = callbacks[i + 1]
  BY <1>1, QueueRun
<1>3. CASE session[ip] # NoRow /\ session[ip].versioned
  BY <1>3 DEF Kept, RowsKept
<1>4. CASE \E j \in Places : callbacks[j] = update_version(ip) /\ RowBefore(ip, j)
  <2>1. PICK j \in Places : callbacks[j] = update_version(ip) /\ RowBefore(ip, j)
    BY <1>4
  <2>2. CASE j = 1
    <3>1. session[ip] # NoRow
      BY <2>1, <2>2 DEF RowBefore
    <3>2. QED BY <1>2, <2>1, <2>2, <3>1 DEF Kept, RowsKept
  <2>3. CASE j # 1
    <3>1. j - 1 \in Places' /\ callbacks'[j - 1] = update_version(ip)
      BY <1>2, <2>1, <2>3 DEF Places
    <3>2. RowBefore(ip, j - 1)'
      <4>1. CASE session[ip] # NoRow
        BY <4>1 DEF RowBefore, RowsKept
      <4>2. CASE \E i \in 1 .. j - 1 : callbacks[i] = resolve(ip, 0)
        <5>1. PICK i \in 1 .. j - 1 : callbacks[i] = resolve(ip, 0)
          BY <4>2
        <5>2. CASE i = 1
          BY <1>2, <5>1, <5>2 DEF RowBefore
        <5>3. CASE i # 1
          <6>1. i - 1 \in 1 .. (j - 1) - 1 /\ callbacks'[i - 1] = callbacks[i]
            BY <1>2, <2>1, <5>1, <5>3 DEF Places
          <6>2. resolve(ip, 0)' = resolve(ip, 0)
            BY DEF resolve
          <6>3. QED BY <5>1, <6>1, <6>2 DEF RowBefore
        <5>4. QED BY <5>2, <5>3
      <4>3. QED BY <2>1, <4>1, <4>2 DEF RowBefore
    <3>3. QED BY <3>1, <3>2 DEF Kept
  <2>4. QED BY <2>2, <2>3
<1>5. QED BY <1>3, <1>4 DEF Kept

-------------------------------------------------------------------------------
LEMMA InitIInv == Init => IInv
<1>1. SUFFICES ASSUME Init PROVE IInv
  OBVIOUS
<1>2. TypeOK
  BY <1>1, StoreAssumption, EmptySeq DEF Init, TypeOK, Table
<1>3. WorkCommitted
  BY <1>1 DEF Init, WorkCommitted
<1>4. Single /\ Coming
  BY <1>1 DEF Init, Single, Coming, Places
<1>5. QED BY <1>2, <1>3, <1>4 DEF IInv

LEMMA ReportIInv ==
  ASSUME IInv, NEW ip \in Ips, PostNew(ip) \/ PostVersion(ip)
  PROVE  IInv'
<1>1. TypeOK /\ WorkCommitted /\ Single /\ Coming
  BY DEF IInv
<1>2. UNCHANGED <<committed, session, lookUps, restarts>>
      /\ reports < MaxReports /\ reports' = reports + 1
  BY DEF PostNew, PostVersion
<1>3. /\ resolve(ip, 0) \in Callback /\ update_version(ip) \in Callback
      /\ resolve(ip, 0).count = 0 /\ update_version(ip).fn # "resolve"
  BY Calls, StoreAssumption
<1>4. callbacks \in Seq(Callback)
  BY <1>1 DEF TypeOK
<1>5. callbacks' \in Seq(Callback) /\ Single'
      /\ \A other \in Ips : Kept(other) => Kept(other)'
  <2>1. CASE PostNew(ip)
    <3>1. Spawn(resolve(ip, 0))
      BY <2>1 DEF PostNew
    <3>2. QED BY <1>2, <1>3, <1>4, <3>1, QueueSpawn, SpawnOther
  <2>2. CASE PostVersion(ip)
    <3>1. Spawn(update_version(ip))
      BY <2>2 DEF PostVersion
    <3>2. QED BY <1>2, <1>3, <1>4, <3>1, QueueSpawn, SpawnOther
  <2>3. QED BY <2>1, <2>2
<1>6. TypeOK'
  <2>1. reports' \in 0 .. MaxReports
    BY <1>1, <1>2, StoreAssumption DEF TypeOK
  <2>2. due' \subseteq Ips
    BY <1>1 DEF TypeOK, PostNew, PostVersion
  <2>3. QED BY <1>1, <1>2, <1>5, <2>1, <2>2 DEF TypeOK
<1>7. WorkCommitted'
  BY <1>1, <1>2 DEF WorkCommitted
<1>8. ASSUME PostVersion(ip),
             session[ip] # NoRow \/ resolve(ip, 0) \in Range(callbacks)
      PROVE  Kept(ip)'
  <2>1. Spawn(update_version(ip))
    BY <1>8 DEF PostVersion
  <2>2. /\ Len(callbacks) \in Nat /\ Len(callbacks') = Len(callbacks) + 1
        /\ \A i \in 1 .. Len(callbacks) : callbacks'[i] = callbacks[i]
        /\ callbacks'[Len(callbacks) + 1] = update_version(ip)
    BY <1>3, <1>4, <2>1, QueueSpawn
  <2>3. PICK last \in Nat : last = Len(callbacks) + 1
    BY <2>2
  <2>4. RowBefore(ip, last)'
    <3>1. CASE session[ip] # NoRow
      BY <1>2, <3>1 DEF RowBefore
    <3>2. CASE resolve(ip, 0) \in Range(callbacks)
      <4>1. PICK i \in 1 .. Len(callbacks) : callbacks[i] = resolve(ip, 0)
        BY <1>4, <3>2, LenProperties DEF Range
      <4>2. callbacks'[i] = resolve(ip, 0) /\ i \in 1 .. last - 1
        BY <2>2, <2>3, <4>1
      <4>3. QED BY <4>2 DEF RowBefore, resolve
    <3>3. QED BY <1>8, <3>1, <3>2
  <2>5. last \in Places' /\ callbacks'[last] = update_version(ip)
    BY <2>2, <2>3 DEF Places
  <2>6. QED BY <2>4, <2>5 DEF Kept
<1>9. Coming'
  <2>1. CASE PostNew(ip)
    BY <1>1, <1>5, <2>1 DEF PostNew, Coming, TypeOK
  <2>2. CASE PostVersion(ip)
    <3>1. CASE session[ip] # NoRow \/ resolve(ip, 0) \in Range(callbacks)
      <4>1. due' = due \cup {ip} /\ Kept(ip)'
        BY <1>8, <2>2, <3>1 DEF PostVersion
      <4>2. QED BY <1>1, <1>5, <4>1 DEF Coming, TypeOK
    <3>2. CASE ~(session[ip] # NoRow \/ resolve(ip, 0) \in Range(callbacks))
      <4>1. due' = due
        BY <2>2, <3>2 DEF PostVersion
      <4>2. QED BY <1>1, <1>5, <4>1 DEF Coming, TypeOK
    <3>3. QED BY <3>1, <3>2
  <2>3. QED BY <2>1, <2>2
<1>10. QED BY <1>5, <1>6, <1>7, <1>9 DEF IInv

\* What a callback that leaves the queue leaves of the tries.
LEMMA RunTries ==
  ASSUME IInv, NEW c, Run(c)
  PROVE  \A ip \in Ips : \A i \in Places' : IsTry(i, ip)' =>
           i + 1 \in Places /\ IsTry(i + 1, ip)
BY QueueRun DEF IInv, TypeOK, Places, IsTry

LEMMA RunSingle ==
  ASSUME IInv, NEW c, Run(c), lookUps' = lookUps,
         \A ip \in Ips : session'[ip] = NoRow <=> session[ip] = NoRow
  PROVE  Single'
<1>1. TypeOK /\ Single
  BY DEF IInv
<1>2. \A ip \in Ips : \A i \in Places' : IsTry(i, ip)' =>
        i + 1 \in Places /\ IsTry(i + 1, ip)
  BY RunTries
<1>3. \A m \in lookUps' : session'[m.ip] # NoRow
  BY <1>1 DEF Single, TypeOK, LookUp
<1>4. ASSUME NEW ip \in Ips, NEW i \in Places', IsTry(i, ip)'
      PROVE  /\ session'[ip] # NoRow
             /\ \A l \in lookUps' : l.ip # ip
             /\ \A j \in Places' : IsTry(j, ip)' => i = j
  <2>1. i + 1 \in Places /\ IsTry(i + 1, ip)
    BY <1>2, <1>4
  <2>2. /\ session[ip] # NoRow
        /\ \A l \in lookUps : l.ip # ip
        /\ \A j \in Places : IsTry(j, ip) => i + 1 = j
    BY <1>1, <2>1 DEF Single
  <2>3. ASSUME NEW j \in Places', IsTry(j, ip)' PROVE i = j
    <3>1. i + 1 = j + 1
      BY <1>2, <2>2, <2>3
    <3>2. i \in Int /\ j \in Int
      BY DEF Places
    <3>3. QED BY <3>1, <3>2
  <2>4. QED BY <2>2, <2>3
<1>5. \A l, m \in lookUps' : l.ip = m.ip => l = m
  BY <1>1 DEF Single
<1>6. QED BY <1>3, <1>4, <1>5 DEF Single

LEMMA StartIInv ==
  ASSUME IInv, NEW ip \in Ips, NEW count \in 0 .. MaxTryCount,
         StartLookUp(ip, count)
  PROVE  IInv'
<1> DEFINE c == resolve(ip, count)
           l == [ip |-> ip, count |-> count]
<1>1. TypeOK /\ WorkCommitted /\ Single /\ Coming
  BY DEF IInv
<1>2. /\ Run(c) /\ Insertable(c)
      /\ session' = IF count = 0 THEN [session EXCEPT ![ip] = FreshRow] ELSE session
      /\ lookUps' = lookUps \cup {l}
      /\ UNCHANGED <<committed, due, reports, restarts>>
  BY DEF StartLookUp
<1>3. c.fn = "resolve" /\ c.ip = ip /\ c.count = count /\ l \in LookUp /\ l.ip = ip
  BY Calls DEF LookUp
<1>4. /\ callbacks' \in Seq(Callback)
      /\ Len(callbacks) \in Nat \ {0} /\ Len(callbacks') = Len(callbacks) - 1
      /\ callbacks[1] = c
      /\ \A i \in 1 .. Len(callbacks') : callbacks'[i] = callbacks[i + 1]
  BY <1>1, <1>2, QueueRun DEF TypeOK
<1>5. count = 0 => session[ip] = NoRow
  BY <1>2, <1>3 DEF Insertable
<1>6. count # 0 => 1 \in Places /\ IsTry(1, ip)
  BY <1>3, <1>4 DEF IsTry, Places
<1> HIDE DEF c, l
<1>7. TypeOK'
  BY <1>1, <1>2, <1>3, <1>4, RowFacts DEF TypeOK, Table
<1>8. RowsKept /\ session'[ip] # NoRow
  BY <1>1, <1>2, <1>5, <1>6, RowFacts DEF RowsKept, Single, TypeOK, Table
<1>9. WorkCommitted'
  BY <1>1, <1>2, <1>5, RowFacts DEF WorkCommitted, TypeOK, Table
<1>10. \A other \in Ips : \A i \in Places' : IsTry(i, other)' =>
         i + 1 \in Places /\ IsTry(i + 1, other)
  BY <1>2, RunTries
<1>11. \A m \in lookUps : m.ip \in Ips /\ m.ip # ip
  BY <1>1, <1>5, <1>6 DEF TypeOK, LookUp, Single
<1>12. \A i \in Places' : ~IsTry(i, ip)'
  <2>1. CASE count = 0
    BY <1>1, <1>5, <1>10, <2>1 DEF Single
  <2>2. CASE count # 0
    <3>1. ASSUME NEW i \in Places', IsTry(i, ip)' PROVE FALSE
      <4>1. i + 1 \in Places /\ IsTry(i + 1, ip) /\ i + 1 = 1
        BY <1>1, <1>6, <1>10, <2>2, <3>1 DEF Single
      <4>2. i \in 1 .. Len(callbacks')
        BY DEF Places
      <4>3. QED BY <4>1, <4>2
    <3>2. QED BY <3>1
  <2>3. QED BY <2>1, <2>2
<1>13. Single'
  <2>1. \A m, n \in lookUps' : m.ip = n.ip => m = n
    BY <1>1, <1>2, <1>3, <1>11 DEF Single
  <2>2. \A m \in lookUps' : session'[m.ip] # NoRow
    BY <1>1, <1>2, <1>3, <1>8, <1>11 DEF Single, RowsKept
  <2>3. ASSUME NEW other \in Ips, NEW i \in Places', IsTry(i, other)'
        PROVE  /\ session'[other] # NoRow
               /\ \A m \in lookUps' : m.ip # other
               /\ \A j \in Places' : IsTry(j, other)' => i = j
    <3>1. other # ip
      BY <1>12, <2>3
    <3>2. i + 1 \in Places /\ IsTry(i + 1, other)
      BY <1>10, <2>3
    <3>3. /\ session[other] # NoRow
          /\ \A m \in lookUps : m.ip # other
          /\ \A j \in Places : IsTry(j, other) => i + 1 = j
      BY <1>1, <3>2 DEF Single
    <3>4. ASSUME NEW j \in Places', IsTry(j, other)' PROVE i = j
      <4>1. i + 1 = j + 1
        BY <1>10, <3>3, <3>4
      <4>2. i \in Int /\ j \in Int
        BY DEF Places
      <4>3. QED BY <4>1, <4>2
    <3>5. QED BY <1>2, <1>3, <1>8, <3>1, <3>3, <3>4 DEF RowsKept
  <2>4. QED BY <2>1, <2>2, <2>3 DEF Single
<1>14. c # update_version(ip) /\ \A other \in Ips : c # update_version(other)
  BY <1>3, Calls
<1>15. \A other \in Ips : c = resolve(other, 0) => session'[other] # NoRow
  BY <1>3, <1>8, Calls, StoreAssumption
<1>16. \A other \in Ips : Kept(other) => Kept(other)'
  BY <1>2, <1>8, <1>14, <1>15, RunOther
<1>17. Coming'
  BY <1>1, <1>2, <1>16 DEF Coming, TypeOK
<1>18. QED BY <1>7, <1>9, <1>13, <1>17 DEF IInv

LEMMA RejectDuplicateIInv ==
  ASSUME IInv, NEW ip \in Ips, NEW count \in 0 .. MaxTryCount,
         RejectDuplicate(ip, count)
  PROVE  IInv'
<1> DEFINE c == resolve(ip, count)
<1>1. TypeOK /\ WorkCommitted /\ Single /\ Coming
  BY DEF IInv
<1>2. /\ Run(c) /\ ~Insertable(c)
      /\ UNCHANGED <<committed, session, lookUps, due, reports, restarts>>
  BY DEF RejectDuplicate
<1>3. c.fn = "resolve" /\ c.ip = ip /\ c.count = count
  BY Calls
<1>4. session[ip] # NoRow
  BY <1>2, <1>3 DEF Insertable
<1> HIDE DEF c
<1>5. callbacks' \in Seq(Callback)
  BY <1>1, <1>2, QueueRun DEF TypeOK
<1>6. TypeOK' /\ WorkCommitted'
  BY <1>1, <1>2, <1>5 DEF TypeOK, WorkCommitted
<1>7. Single'
  BY <1>1, <1>2, RunSingle
<1>8. RowsKept
  BY <1>2 DEF RowsKept
<1>9. /\ \A other \in Ips : c # update_version(other)
      /\ \A other \in Ips : c = resolve(other, 0) => session'[other] # NoRow
  BY <1>2, <1>3, <1>4, Calls, StoreAssumption
<1>10. \A other \in Ips : Kept(other) => Kept(other)'
  BY <1>2, <1>8, <1>9, RunOther
<1>11. Coming'
  BY <1>1, <1>2, <1>10 DEF Coming, TypeOK
<1>12. QED BY <1>6, <1>7, <1>11 DEF IInv

LEMMA VersionIInv ==
  ASSUME IInv, NEW ip \in Ips, UpdateVersion(ip) \/ RejectVersion(ip)
  PROVE  IInv'
<1> DEFINE c == update_version(ip)
<1>1. TypeOK /\ WorkCommitted /\ Single /\ Coming
  BY DEF IInv
<1>2. Run(c) /\ UNCHANGED <<lookUps, reports, restarts>>
  BY DEF UpdateVersion, RejectVersion
<1>3. c.fn = "update_version" /\ c = update_version(ip) /\ c.ip = ip
  BY Calls DEF update_version
<1>4. CASE RejectVersion(ip)
  <2>1. due' = due \ {ip} /\ UNCHANGED <<committed, session>>
    BY <1>4 DEF RejectVersion
  <2> HIDE DEF c
  <2>2. callbacks' \in Seq(Callback)
    BY <1>1, <1>2, QueueRun DEF TypeOK
  <2>3. TypeOK' /\ WorkCommitted'
    BY <1>1, <1>2, <2>1, <2>2 DEF TypeOK, WorkCommitted
  <2>4. Single'
    BY <1>1, <1>2, <2>1, RunSingle
  <2>5. RowsKept
    BY <2>1 DEF RowsKept
  <2>6. \A other \in Ips \ {ip} : c # update_version(other)
    BY <1>3 DEF update_version
  <2>7. \A other \in Ips : c # resolve(other, 0)
    BY <1>3, Calls, StoreAssumption
  <2>8. \A other \in Ips \ {ip} : Kept(other) => Kept(other)'
    BY <1>2, <2>5, <2>6, <2>7, RunOther
  <2>9. Coming'
    BY <1>1, <2>1, <2>8 DEF Coming, TypeOK
  <2>10. QED BY <2>3, <2>4, <2>9 DEF IInv
<1>5. CASE UpdateVersion(ip)
  <2>1. /\ Update(ip, [session[ip] EXCEPT !.versioned = TRUE])
        /\ committed' = session' /\ due' = due
    BY <1>5 DEF UpdateVersion, Commit
  <2> HIDE DEF c
  <2>2. callbacks' \in Seq(Callback)
    BY <1>1, <1>2, QueueRun DEF TypeOK
  <2>3. /\ session' \in Table
        /\ RowsKept
        /\ session[ip] # NoRow => session'[ip].versioned
        /\ \A other \in Ips : session'[other] = NoRow <=> session[other] = NoRow
    <3> DEFINE row == [session[ip] EXCEPT !.versioned = TRUE]
    <3>1. CASE session[ip] = NoRow
      <4>1. session' = session
        BY <2>1, <3>1 DEF Update
      <4>2. QED BY <1>1, <3>1, <4>1 DEF TypeOK, RowsKept
    <3>2. CASE session[ip] # NoRow
      <4>1. session[ip] \in Row /\ session \in Table
        BY <1>1, <3>2 DEF TypeOK, Table
      <4>2. row \in Row /\ row # NoRow /\ row.versioned
        BY <4>1, RowFacts
      <4>3. session' = [session EXCEPT ![ip] = row]
        BY <2>1, <3>2 DEF Update
      <4> HIDE DEF row
      <4>4. session' \in Table
        BY <4>1, <4>2, <4>3 DEF Table
      <4>5. \A other \in Ips :
              session'[other] = IF other = ip THEN row ELSE session[other]
        BY <4>1, <4>3 DEF Table
      <4>6. QED BY <3>2, <4>2, <4>4, <4>5 DEF RowsKept
    <3>3. QED BY <3>1, <3>2
  <2>4. TypeOK' /\ WorkCommitted'
    BY <1>1, <1>2, <2>1, <2>2, <2>3 DEF TypeOK, WorkCommitted
  <2>5. Single'
    BY <1>1, <1>2, <2>3, RunSingle
  <2>6. /\ \A other \in Ips : c = update_version(other) =>
             session[other] = NoRow \/ session'[other].versioned
        /\ \A other \in Ips : c # resolve(other, 0)
    <3>1. \A other \in Ips : c = update_version(other) => other = ip
      BY <1>3 DEF update_version
    <3>2. \A other \in Ips : c # resolve(other, 0)
      BY <1>3, Calls, StoreAssumption
    <3>3. QED BY <2>3, <3>1, <3>2
  <2>7. \A other \in Ips : Kept(other) => Kept(other)'
    BY <1>2, <2>3, <2>6, RunOther
  <2>8. Coming'
    BY <1>1, <2>1, <2>7 DEF Coming, TypeOK
  <2>9. QED BY <2>4, <2>5, <2>8 DEF IInv
<1>6. QED BY <1>4, <1>5

\* A look-up that ends, and may leave another try in the queue.
LEMMA AnswerIInv ==
  ASSUME IInv, NEW l \in LookUp, Answer(l)
  PROVE  IInv'
<1>1. TypeOK /\ WorkCommitted /\ Single /\ Coming
  BY DEF IInv
<1>2. /\ l \in lookUps /\ l.ip \in Ips /\ l.count \in 0 .. MaxTryCount
      /\ lookUps' = lookUps \ {l} /\ UNCHANGED <<due, reports, restarts>>
  BY DEF Answer, Located, NotLocated, LookUpFails, LookUp
<1>3. CASE Located(l) \/ NotLocated(l)
  <2>1. UNCHANGED callbacks
    BY <1>3 DEF Located, NotLocated
  <2>2. /\ session' \in Table
        /\ RowsKept
        /\ \A ip \in Ips : session'[ip] = NoRow <=> session[ip] = NoRow
    <3>1. CASE session' = session
      BY <1>1, <3>1 DEF TypeOK, RowsKept
    <3>2. CASE Update(l.ip, [session[l.ip] EXCEPT !.located = TRUE])
      <4> DEFINE row == [session[l.ip] EXCEPT !.located = TRUE]
      <4>1. CASE session[l.ip] = NoRow
        <5>1. session' = session
          BY <3>2, <4>1 DEF Update
        <5>2. QED BY <1>1, <5>1 DEF TypeOK, RowsKept
      <4>2. CASE session[l.ip] # NoRow
        <5>1. session[l.ip] \in Row /\ session \in Table
          BY <1>1, <1>2, <4>2 DEF TypeOK, Table
        <5>2. row \in Row /\ row # NoRow /\ row.versioned = session[l.ip].versioned
          BY <5>1, RowFacts
        <5>3. session' = [session EXCEPT ![l.ip] = row]
          BY <3>2, <4>2 DEF Update
        <5> HIDE DEF row
        <5>4. session' \in Table
          BY <5>1, <5>2, <5>3 DEF Table
        <5>5. \A ip \in Ips : session'[ip] = IF ip = l.ip THEN row ELSE session[ip]
          BY <5>1, <5>3 DEF Table
        <5>6. QED BY <4>2, <5>2, <5>4, <5>5 DEF RowsKept
      <4>3. QED BY <4>1, <4>2
    <3>3. QED BY <1>3, <3>1, <3>2 DEF Located, NotLocated
  <2>3. WorkCommitted' /\ committed' \in Table
    <3>1. CASE Located(l)
      BY <2>2, <3>1 DEF WorkCommitted, Located, Commit
    <3>2. CASE NotLocated(l)
      BY <1>1, <3>2 DEF WorkCommitted, NotLocated, TypeOK
    <3>3. QED BY <1>3, <3>1, <3>2
  <2>4. TypeOK'
    BY <1>1, <1>2, <2>1, <2>2, <2>3 DEF TypeOK
  <2>5. Single'
    BY <1>1, <1>2, <2>1, <2>2 DEF Single, Places, IsTry, TypeOK, LookUp
  <2>6. \A ip \in Ips : Kept(ip) => Kept(ip)'
    BY <2>1, <2>2 DEF Kept, RowBefore, Places, RowsKept
  <2>7. Coming'
    BY <1>1, <1>2, <2>6 DEF Coming, TypeOK
  <2>8. QED BY <2>3, <2>4, <2>5, <2>7 DEF IInv
<1>4. CASE LookUpFails(l)
  <2>1. UNCHANGED <<committed, session>> /\ Retry(l)
    BY <1>4 DEF LookUpFails
  <2>2. WorkCommitted'
    BY <1>1, <2>1 DEF WorkCommitted
  <2>3. CASE ~(l.count < MaxTryCount)
    <3>1. UNCHANGED callbacks
      BY <2>1, <2>3 DEF Retry
    <3>2. TypeOK'
      BY <1>1, <1>2, <2>1, <3>1 DEF TypeOK
    <3>3. Single'
      BY <1>1, <1>2, <2>1, <3>1 DEF Single, Places, IsTry
    <3>4. Coming'
      BY <1>1, <1>2, <2>1, <3>1 DEF Coming, Kept, RowBefore, Places
    <3>5. QED BY <2>2, <3>2, <3>3, <3>4 DEF IInv
  <2>4. CASE l.count < MaxTryCount
    <3> DEFINE c == resolve(l.ip, l.count + 1)
    <3>1. l.count + 1 \in 0 .. MaxTryCount /\ l.count + 1 > 0
      BY <1>2, <2>4, StoreAssumption
    <3>2. Spawn(c)
      BY <2>1, <2>4 DEF Retry
    <3>3. /\ c \in Callback /\ c.fn = "resolve" /\ c.ip = l.ip /\ c.count > 0
      BY <1>2, <3>1, Calls
    <3> HIDE DEF c
    <3>4. /\ callbacks' \in Seq(Callback)
          /\ Len(callbacks) \in Nat /\ Len(callbacks') = Len(callbacks) + 1
          /\ \A i \in 1 .. Len(callbacks) : callbacks'[i] = callbacks[i]
          /\ callbacks'[Len(callbacks) + 1] = c
      BY <1>1, <3>2, <3>3, QueueSpawn DEF TypeOK
    <3>5. TypeOK'
      BY <1>1, <1>2, <2>1, <3>4 DEF TypeOK
    <3>6. \A ip \in Ips : \A i \in Places' : IsTry(i, ip)' =>
            \/ i \in Places /\ IsTry(i, ip)
            \/ i = Len(callbacks) + 1 /\ ip = l.ip
      BY <3>3, <3>4 DEF Places, IsTry
    <3>7. Single'
      <4>1. /\ \A m, n \in lookUps' : m.ip = n.ip => m = n
            /\ \A m \in lookUps' : session'[m.ip] # NoRow
        BY <1>1, <1>2, <2>1 DEF Single
      <4>2. ASSUME NEW ip \in Ips, NEW i \in Places', IsTry(i, ip)'
            PROVE  /\ session'[ip] # NoRow
                   /\ \A m \in lookUps' : m.ip # ip
                   /\ \A j \in Places' : IsTry(j, ip)' => i = j
        <5>1. CASE ip = l.ip
          <6>1. \A j \in Places' : IsTry(j, ip)' => j = Len(callbacks) + 1
            BY <1>1, <1>2, <3>6, <5>1 DEF Single
          <6>2. session[ip] # NoRow /\ \A m \in lookUps' : m.ip # ip
            BY <1>1, <1>2, <5>1 DEF Single
          <6>3. QED BY <2>1, <4>2, <6>1, <6>2
        <5>2. CASE ip # l.ip
          <6>1. \A j \in Places' : IsTry(j, ip)' => j \in Places /\ IsTry(j, ip)
            BY <3>6, <5>2
          <6>2. QED BY <1>1, <1>2, <2>1, <4>2, <6>1 DEF Single
        <5>3. QED BY <5>1, <5>2
      <4>3. QED BY <4>1, <4>2 DEF Single
    <3>8. ASSUME NEW ip \in Ips, Kept(ip) PROVE Kept(ip)'
      <4>1. CASE session[ip] # NoRow /\ session[ip].versioned
        BY <2>1, <4>1 DEF Kept
      <4>2. CASE \E j \in Places :
                   callbacks[j] = update_version(ip) /\ RowBefore(ip, j)
        <5>1. PICK j \in Places : callbacks[j] = update_version(ip) /\ RowBefore(ip, j)
          BY <4>2
        <5>2. j \in Places' /\ callbacks'[j] = update_version(ip)
          BY <3>4, <5>1 DEF Places
        <5>3. RowBefore(ip, j)'
          BY <2>1, <3>4, <5>1 DEF RowBefore, Places
        <5>4. QED BY <5>2, <5>3 DEF Kept
      <4>3. QED BY <3>8, <4>1, <4>2 DEF Kept
    <3>9. Coming'
      BY <1>1, <1>2, <3>8 DEF Coming, TypeOK
    <3>10. QED BY <2>2, <3>5, <3>7, <3>9 DEF IInv
  <2>5. QED BY <2>3, <2>4
<1>5. QED BY <1>3, <1>4 DEF Answer

LEMMA RestartIInv == IInv /\ Restart => IInv'
<1>1. SUFFICES ASSUME IInv, Restart PROVE IInv'
  OBVIOUS
<1>2. /\ restarts < MaxRestarts /\ restarts' = restarts + 1
      /\ session' = committed /\ callbacks' = <<>> /\ lookUps' = {}
      /\ due' = {ip \in due : committed[ip] # NoRow /\ committed[ip].versioned}
      /\ UNCHANGED <<committed, reports>>
  BY <1>1 DEF Restart
<1>3. restarts' \in 0 .. MaxRestarts
  BY <1>1, <1>2, StoreAssumption DEF IInv, TypeOK
<1>4. TypeOK'
  BY <1>1, <1>2, <1>3, EmptySeq DEF IInv, TypeOK
<1>5. WorkCommitted'
  BY <1>2 DEF WorkCommitted
<1>6. Places' = {}
  BY <1>2 DEF Places
<1>7. Single' /\ Coming'
  BY <1>2, <1>6 DEF Single, Coming, Kept
<1>8. QED BY <1>4, <1>5, <1>7 DEF IInv

LEMMA StutterIInv == IInv /\ UNCHANGED vars => IInv'
BY DEF IInv, TypeOK, WorkCommitted, Single, Coming, Kept, RowBefore, Places,
       IsTry, vars

LEMMA Invariance == Spec => []IInv
<1>1. IInv /\ [Next]_vars => IInv'
  <2>1. SUFFICES ASSUME IInv, [Next]_vars PROVE IInv'
    OBVIOUS
  <2>2. CASE Report
    BY <2>1, <2>2, ReportIInv DEF Report
  <2>3. CASE RunCallback
    BY <2>1, <2>3, VersionIInv, StartIInv, RejectDuplicateIInv DEF RunCallback
  <2>4. CASE \E l \in LookUp : Answer(l)
    BY <2>1, <2>4, AnswerIInv
  <2>5. CASE Restart
    BY <2>1, <2>5, RestartIInv
  <2>6. CASE UNCHANGED vars
    BY <2>1, <2>6, StutterIInv
  <2>7. QED BY <2>1, <2>2, <2>3, <2>4, <2>5, <2>6 DEF Next
<1>2. QED BY InitIInv, <1>1, PTL DEF Spec

LEMMA SingleTries == IInv => OneLookUp
<1>1. SUFFICES ASSUME IInv, NEW ip \in Ips
               PROVE  /\ \A l, m \in Running(ip) : l = m
                      /\ \A i, j \in Waiting(ip) : i = j
                      /\ Running(ip) = {} \/ Waiting(ip) = {}
                      /\ Trying(ip) => session[ip] # NoRow
  BY DEF OneLookUp
<1>2. callbacks \in Seq(Callback) /\ Single
  BY <1>1 DEF IInv, TypeOK
<1>3. \A i \in Waiting(ip) : i \in Places /\ IsTry(i, ip)
  BY <1>2, LenProperties DEF Waiting, Places, IsTry
<1>4. QED BY <1>2, <1>3 DEF Single, Running, Trying

LEMMA ComingKept == IInv => VersionKept
<1>1. SUFFICES ASSUME IInv, NEW ip \in due
               PROVE  \/ update_version(ip) \in Range(callbacks)
                      \/ session[ip] # NoRow /\ session[ip].versioned
  BY DEF VersionKept
<1>2. Kept(ip) /\ callbacks \in Seq(Callback)
  BY <1>1 DEF IInv, Coming, TypeOK
<1>3. \A i \in Places : callbacks[i] \in Range(callbacks)
  BY <1>2, LenProperties DEF Range, Places
<1>4. QED BY <1>2, <1>3 DEF Kept

-------------------------------------------------------------------------------
\* The type invariant: no try beyond MAX_TRY_COUNT is ever spawned.
THEOREM TypeCorrect == Spec => []TypeOK
BY Invariance, PTL DEF IInv

\* At most one look-up runs for an ip, and its row exists (torweb.py:77-100).
THEOREM OneLookUpAlways == Spec => []OneLookUp
BY Invariance, SingleTries, PTL

\* A version reported after its address is stored or about to be, through
\* look-ups, retries and restarts (torweb.py:19-25, 103-106).
THEOREM VersionsKept == Spec => []VersionKept
BY Invariance, ComingKept, PTL

\* Only rows that are neither located nor versioned are uncommitted
\* (torweb.py:78-97, 103-106).
THEOREM WorkIsCommitted == Spec => []WorkCommitted
BY Invariance, PTL DEF IInv

-------------------------------------------------------------------------------
(* The service: every step of it is one of the store or leaves the store   *)
(* alone, and an answer ages at least as fast as it falls behind.          *)

LEMMA ServiceStep == [ServiceNext]_serviceVars => [Next]_vars
BY DEF ServiceNext, serviceVars, Next, RestartService, Query, Tick

\* The ticks an answer is behind and those it has left: no more than a time-out.
Aging(key) ==
  /\ behind[key] \in Nat
  /\ cache[key] # Missing =>
       /\ cache[key] = [rows |-> cache[key].rows, left |-> cache[key].left]
       /\ cache[key].left \in Nat
       /\ behind[key] + cache[key].left <= Timeout

CacheInv ==
  /\ cache = [key \in Key |-> cache[key]]
  /\ behind = [key \in Key |-> behind[key]]
  /\ \A key \in Key : Aging(key)

LEMMA EmptyCache ==
  ASSUME cache' = [key \in Key |-> Missing], behind' = [key \in Key |-> 0]
  PROVE  CacheInv'
BY DEF CacheInv, Aging

LEMMA QueryInv ==
  ASSUME CacheInv, NEW key \in Key, Query(key)
  PROVE  CacheInv'
<1>1. /\ cache' = [cache EXCEPT ![key] = [rows |-> Rows(key), left |-> Timeout]]
      /\ behind' = [behind EXCEPT ![key] = 0]
  BY DEF Query
<1>2. Aging(key)'
  BY <1>1, ServiceAssumption DEF CacheInv, Aging
<1>3. \A other \in Key \ {key} :
        cache'[other] = cache[other] /\ behind'[other] = behind[other]
  BY <1>1 DEF CacheInv
<1>4. \A other \in Key \ {key} : Aging(other)'
  BY <1>3 DEF CacheInv, Aging
<1>5. /\ cache' = [other \in Key |-> cache'[other]]
      /\ behind' = [other \in Key |-> behind'[other]]
  BY <1>1 DEF CacheInv
<1>6. QED BY <1>2, <1>4, <1>5 DEF CacheInv

LEMMA TickInv ==
  ASSUME CacheInv, Tick
  PROVE  CacheInv'
<1>1. /\ cache' = [key \in Key |-> IF Cached(key)
                    THEN [cache[key] EXCEPT !.left = @ - 1] ELSE cache[key]]
      /\ behind' = [key \in Key |->
                     IF cache[key] # Missing /\ cache[key].rows # Rows(key)
                       /\ behind[key] < Timeout
                     THEN behind[key] + 1 ELSE behind[key]]
  BY DEF Tick
<1>2. ASSUME NEW key \in Key
      PROVE  Aging(key)'
  <2>1. /\ behind'[key] \in {behind[key], behind[key] + 1}
        /\ behind[key] = Timeout => behind'[key] = behind[key]
        /\ cache'[key] = IF Cached(key)
             THEN [cache[key] EXCEPT !.left = @ - 1] ELSE cache[key]
    <3>1. /\ behind'[key] =
               IF cache[key] # Missing /\ cache[key].rows # Rows(key)
                 /\ behind[key] < Timeout
               THEN behind[key] + 1 ELSE behind[key]
          /\ cache'[key] = IF Cached(key)
               THEN [cache[key] EXCEPT !.left = @ - 1] ELSE cache[key]
      BY <1>1, Zenon
    <3>2. Timeout \in Nat
      BY ServiceAssumption
    <3>3. ~(Timeout < Timeout)
      BY <3>2
    <3>4. QED BY <3>1, <3>3, Zenon
  <2>2. Aging(key)
    BY DEF CacheInv
  <2>3. CASE cache[key] = Missing
    BY <2>1, <2>2, <2>3 DEF Aging, Cached
  <2>4. CASE cache[key] # Missing /\ cache[key].left > 0
    <3>1. PICK rows, left : cache[key] = [rows |-> rows, left |-> left]
      BY <2>2, <2>4 DEF Aging
    <3>2. cache'[key] = [[rows |-> rows, left |-> left] EXCEPT !.left = @ - 1]
      BY <2>1, <2>4, <3>1, Zenon DEF Cached
    <3>3. cache'[key] = [rows |-> rows, left |-> left - 1]
      BY <3>2
    <3>4. left \in Nat \ {0} /\ behind[key] \in Nat /\ behind[key] + left <= Timeout
      BY <2>2, <2>4, <3>1 DEF Aging
    <3>5. behind'[key] \in Nat /\ behind'[key] + (left - 1) <= Timeout
      BY <2>1, <3>4, ServiceAssumption
    <3>6. QED BY <3>3, <3>4, <3>5 DEF Aging
  <2>5. CASE cache[key] # Missing /\ ~(cache[key].left > 0)
    <3>1. cache'[key] = cache[key] /\ cache[key].left = 0
      BY <2>1, <2>2, <2>5 DEF Aging, Cached
    <3>2. behind[key] \in Nat /\ behind[key] <= Timeout
      BY <2>2, <2>5, <3>1 DEF Aging
    <3>3. behind'[key] \in Nat /\ behind'[key] <= Timeout
      BY <2>1, <3>2, ServiceAssumption
    <3>4. QED BY <2>2, <2>5, <3>1, <3>3 DEF Aging
  <2>6. QED BY <2>3, <2>4, <2>5
<1>3. QED BY <1>1, <1>2 DEF CacheInv

LEMMA BesideInv ==
  ASSUME CacheInv, Beside
  PROVE  CacheInv'
<1>1. /\ cache' = cache
      /\ behind' = [key \in Key |-> behind'[key]]
      /\ \A key \in Key : behind'[key] \in {0, behind[key]}
  BY DEF Beside
<1>2. ASSUME NEW key \in Key
      PROVE  Aging(key)'
  <2>1. Aging(key) /\ behind'[key] \in {0, behind[key]}
    BY <1>1 DEF CacheInv
  <2>2. QED BY <1>1, <2>1, ServiceAssumption DEF Aging
<1>3. QED BY <1>1, <1>2 DEF CacheInv

LEMMA CacheInvariance == ServiceSpec => []CacheInv
<1>1. ServiceInit => CacheInv
  BY DEF ServiceInit, CacheInv, Aging
<1>2. CacheInv /\ [ServiceNext]_serviceVars => CacheInv'
  <2>1. SUFFICES ASSUME CacheInv, [ServiceNext]_serviceVars PROVE CacheInv'
    OBVIOUS
  <2>2. CASE Beside
    BY <2>1, <2>2, BesideInv
  <2>3. CASE RestartService
    BY <2>3, EmptyCache DEF RestartService
  <2>4. CASE \E key \in Key : Query(key)
    BY <2>1, <2>4, QueryInv
  <2>5. CASE Tick
    BY <2>1, <2>5, TickInv
  <2>6. CASE UNCHANGED serviceVars
    BY <2>1, <2>6 DEF CacheInv, Aging, serviceVars
  <2>7. QED BY <2>1, <2>2, <2>3, <2>4, <2>5, <2>6 DEF ServiceNext
<1>3. QED BY <1>1, <1>2, PTL DEF ServiceSpec

LEMMA AgingRecent == CacheInv => AnswerRecent
<1>1. SUFFICES ASSUME CacheInv, NEW key \in Key, Shown(key) # Rows(key)
               PROVE  behind[key] < Timeout
  BY DEF AnswerRecent
<1>2. Cached(key) /\ Aging(key)
  BY <1>1 DEF Shown, CacheInv
<1>3. QED BY <1>2, ServiceAssumption DEF Cached, Aging

\* The service with its queries and its cache implements the store: whatever is
\* proved of Spec holds of the service (torweb.py:30-65).
THEOREM ServiceImplementsStore == ServiceSpec => Spec
<1>1. ServiceInit => Init
  BY DEF ServiceInit
<1>2. QED BY <1>1, ServiceStep, PTL DEF ServiceSpec, Spec

\* No answer is older than the time-out of the cache (simplecache.py:13-26),
\* whatever is written or lost beside it.
THEOREM AnswersRecent == ServiceSpec => []AnswerRecent
BY CacheInvariance, AgingRecent, PTL
===============================================================================
