----------------------------- MODULE NetworkEngine -----------------------------
(***************************************************************************)
(* NetworkEngine and ConnectionManager (network.h, network.cpp): the single*)
(* thread that drains addresses from CAddrSeed, opens a non-blocking socket*)
(* to each, waits on epoll or kqueue and dispatches the events to the      *)
(* connections.                                                            *)
(*                                                                         *)
(* The bookkeeping is spread over structures that must agree: connections, *)
(* callbacks (whose addresses the kernel holds as event.ud), qSocks (the   *)
(* order of eviction), nPendingEvents (how many events sp_wait may return),*)
(* writeEnabled (what the engine believes of the write interest) and, in   *)
(* the kernel, the interest set and the table of descriptors.  That table  *)
(* is the process's: the reporter's thread opens and closes descriptors in *)
(* it at any moment.                                                       *)
(*                                                                         *)
(* Abstracted: of a connection, its status and whether sendingBuffer holds *)
(* something; of a read, the addresses it adds, whether it queued a reply  *)
(* and whether the connection survives it (module MessageFraming models the*)
(* bytes); of a write, whether it failed and whether it was partial.       *)
(*                                                                         *)
(* made and missed are history variables.                                  *)
(***************************************************************************)
EXTENDS AddrSeed, Integers, FiniteSets, Functions

CONSTANTS Fds,             \* descriptors the kernel can hand out
          NoFile,          \* RLIMIT_NOFILE
          DrainSize,       \* DRAIN_SEED_SIZE_PER_LOOP
          Kqueue,          \* TRUE: the kqueue build, FALSE: the epoll build
          FailOps,         \* the calls that can fail: see AllFailOps
          MaxHeld          \* bound: descriptors the reporter's thread holds

\* "init": sp_create, fcntl or getrlimit; "socket": socket() itself; "setup":
\* fcntl, setsockopt or an immediate error of connect(), all handled after
\* addConnection; "add": sp_add.
AllFailOps == {"init", "socket", "setup", "add"}

\* maxConnections, an int.  A limit of 10 or less, or one that is no int, makes it
\* negative, and the comparison with a size_t makes a huge limit of that: then no
\* connection is ever evicted.
MaxConnections == NoFile - 10

ASSUME FdsAssumption == Fds \subseteq Nat \ {0} /\ IsFiniteSet(Fds)
ASSUME SizesAssumption ==
  /\ NoFile \in Nat
  /\ MaxConnections \in Nat \ {0}
  /\ DrainSize \in Nat \ {0}
  /\ MaxHeld \in Nat
ASSUME BuildAssumption == Kqueue \in BOOLEAN /\ FailOps \subseteq AllFailOps

VARIABLES status,          \* connections[f].status, "none" without an entry
          sending,         \* connections[f].sendingBuffer is not empty
          callbacks,       \* the keys of ConnectionManager::callbacks
          qSocks,          \* descriptors in the order they were opened
          nPendingEvents,  \* the maximum given to sp_wait
          writeEnabled,    \* what the engine believes of the write interest
          sp,              \* the kernel's interest set
          fdTable,         \* the kernel's table: who holds a descriptor
          held,            \* descriptors the reporter's thread believes its own
          pc,              \* where startEngine is
          addrs,           \* the batch being connected to
          newSize,         \* its size, added to nPendingEvents after the batch
          esock,           \* what evictSock returned for this address, or NoFd
          events,          \* events of the last sp_wait not yet dispatched
          reading,         \* the descriptor readBuffer is running for, or NoFd
          closeSocks,      \* dispatchNetworkEvents' deferred closes
          made,            \* the descriptors this batch was connected with
          missed           \* sockets made above the number evicted for them

connVars   == <<status, sending, callbacks, qSocks>>
kernelVars == <<sp, fdTable, held>>
loopVars   == <<pc, addrs, newSize, esock, events, reading, closeSocks>>
historyVars == <<made, missed>>
vars == <<seedVars, connVars, kernelVars, loopVars, nPendingEvents,
          writeEnabled, historyVars>>

NoFd == 0

Status == {"INIT", "CONNECTING", "CONNECTED", "VERSION_SENT"}
Kinds  == {"write", "read", "error"}

\* struct event: the connection its ud points at and the flag networkCallback
\* acts upon (it looks at write first, then read, then error).
Event == [fd : Fds, kind : Kinds]

connections == {f \in Fds : status[f] # "none"}
connectionCount == Cardinality(connections)

TypeOK ==
  /\ SeedTypeOK
  /\ status \in [Fds -> Status \cup {"none"}]
  /\ sending \in [Fds -> BOOLEAN]
  /\ callbacks \subseteq Fds
  /\ qSocks \in Seq(Fds)
  /\ nPendingEvents \in Int
  /\ writeEnabled \in [Fds -> BOOLEAN]
  /\ sp \in [Fds -> {"none", "in", "inout"}]
  /\ fdTable \in [Fds -> {"free", "engine", "other"}]
  /\ held \subseteq Fds
  /\ pc \in {"seed", "failed", "drain", "room", "initiate", "wait", "dispatch",
             "exited"}
  /\ addrs \in Seq(CService)
  /\ newSize \in Nat
  /\ esock \in Fds \cup {NoFd}
  /\ events \subseteq Event
  /\ reading \in Fds \cup {NoFd}
  /\ closeSocks \in Seq(Fds)
  /\ made \subseteq Fds
  /\ missed \in Nat

Init ==
  /\ SeedInit
  /\ status = [f \in Fds |-> "none"]
  /\ sending = [f \in Fds |-> FALSE]
  /\ callbacks = {}
  /\ qSocks = <<>>
  /\ nPendingEvents = 0
  /\ writeEnabled = [f \in Fds |-> FALSE]
  /\ sp = [f \in Fds |-> "none"]
  /\ fdTable = [f \in Fds |-> "free"]
  /\ held = {}
  /\ pc = "seed"
  /\ addrs = <<>>
  /\ newSize = 0
  /\ esock = NoFd
  /\ events = {}
  /\ reading = NoFd
  /\ closeSocks = <<>>
  /\ made = {}
  /\ missed = 0

-------------------------------------------------------------------------------
(* main: the DNS seeds, then initEngine, then startEngine's loop. *)

\* One result of a lookup is added (init.cpp:53).
AddDNSSeed(addr) ==
  /\ pc = "seed"
  /\ addNewAddr(addr)
  /\ UNCHANGED <<connVars, kernelVars, loopVars, nPendingEvents, writeEnabled,
                 historyVars>>

\* initEngine takes its descriptor, which is none of Fds, for good.
StartEngine ==
  /\ pc = "seed"
  /\ pc' = "drain"
  /\ UNCHANGED <<seedVars, connVars, kernelVars, addrs, newSize, events,
                 reading, closeSocks, nPendingEvents, writeEnabled, esock,
                 historyVars>>

\* initEngine fails and main returns: the reporter's thread is still joinable, so
\* that its destructor ends the process.
initEngineFails ==
  /\ pc = "seed"
  /\ "init" \in FailOps
  /\ pc' = "failed"
  /\ UNCHANGED <<seedVars, connVars, kernelVars, addrs, newSize, events,
                 reading, closeSocks, nPendingEvents, writeEnabled, esock,
                 historyVars>>

Drain ==
  /\ pc = "drain"
  /\ addrs' = DrainedAddrs(DrainSize)
  /\ newSize' = DrainedSize(DrainSize)
  /\ getNewAddrs(DrainSize)
  /\ made' = {}
  /\ pc' = "room"
  /\ UNCHANGED <<connVars, kernelVars, events, reading, closeSocks,
                 nPendingEvents, writeEnabled, esock, missed>>

-------------------------------------------------------------------------------
(* The body of the loop over the batch. *)

\* Mutant of closeConnection: the test that the descriptor has an entry is gone.
closeConnection_Unchecked(sock) ==
  /\ status' = [status EXCEPT ![sock] = "none"]
  /\ sending' = [sending EXCEPT ![sock] = FALSE]
  /\ callbacks' = callbacks \ {sock}
  /\ fdTable' = [fdTable EXCEPT ![sock] = "free"]

\* connections.erase, callbacks.erase and close(sock); a descriptor without an
\* entry is left alone.  close() frees the descriptor whoever holds it now.
closeConnection(sock) ==
  IF sock \notin connections
  THEN UNCHANGED <<status, sending, callbacks, fdTable>>
  ELSE /\ status' = [status EXCEPT ![sock] = "none"]
       /\ sending' = [sending EXCEPT ![sock] = FALSE]
       /\ callbacks' = callbacks \ {sock}
       /\ fdTable' = [fdTable EXCEPT ![sock] = "free"]

sp_del(sock) == sp' = [sp EXCEPT ![sock] = "none"]

\* Mutant of HaveRoom: the ten descriptors of other uses are not kept back.
HaveRoom_AllFiles ==
  /\ pc = "room"
  /\ addrs # <<>>
  /\ connectionCount < NoFile \/ qSocks = <<>>
  /\ pc' = "initiate"
  /\ UNCHANGED <<seedVars, connVars, kernelVars, addrs, newSize, events,
                 reading, closeSocks, nPendingEvents, writeEnabled, esock,
                 historyVars>>

HaveRoom ==
  /\ pc = "room"
  /\ addrs # <<>>
  /\ connectionCount < MaxConnections \/ qSocks = <<>>
  /\ pc' = "initiate"
  /\ UNCHANGED <<seedVars, connVars, kernelVars, addrs, newSize, events,
                 reading, closeSocks, nPendingEvents, writeEnabled, esock,
                 historyVars>>

\* The oldest descriptor of qSocks, which may have been closed since (then
\* closeConnection does nothing) or closed and reused (then a younger
\* connection goes): closing a connection leaves its descriptor in qSocks.
Evict ==
  /\ pc = "room"
  /\ addrs # <<>>
  /\ connectionCount >= MaxConnections
  /\ qSocks # <<>>
  /\ sp_del(Head(qSocks))
  /\ closeConnection(Head(qSocks))
  /\ esock' = Head(qSocks)
  /\ qSocks' = Tail(qSocks)
  /\ nPendingEvents' = nPendingEvents - 1
  /\ pc' = "initiate"
  /\ UNCHANGED <<seedVars, held, addrs, newSize, events, reading, closeSocks,
                 writeEnabled, historyVars>>

FreeFds == {f \in Fds : fdTable[f] = "free"}

\* socket() and open() return the lowest free descriptor.
LowestFree == {f \in FreeFds : \A g \in FreeFds : f <= g}

\* The end of every iteration over the batch.
NextAddr ==
  /\ pc = "initiate"
  /\ addrs' = Tail(addrs)
  /\ pc' = "room"
  /\ esock' = NoFd
  /\ UNCHANGED <<newSize, events, reading, closeSocks>>

\* The number evicted for this address is not the one it gets, nor a lower one:
\* the other thread has it.
CountMiss(sock) ==
  missed' = IF esock # NoFd /\ sock > esock THEN missed + 1 ELSE missed

\* addConnection: an entry already there is overwritten.
addConnection(sock, newStatus) ==
  /\ status' = [status EXCEPT ![sock] = newStatus]
  /\ sending' = [sending EXCEPT ![sock] = FALSE]

InitiateSocketFails ==
  /\ NextAddr
  /\ FreeFds = {} \/ "socket" \in FailOps
  /\ UNCHANGED <<seedVars, connVars, kernelVars, nPendingEvents, writeEnabled,
                 historyVars>>

\* fcntl, setsockopt or connect fails: the descriptor is closed, the entry of
\* addConnection stays, and neither callbacks nor qSocks knows of it.
InitiateSetupFails(sock) ==
  /\ NextAddr
  /\ "setup" \in FailOps
  /\ sock \in LowestFree
  /\ addConnection(sock, "INIT")
  /\ CountMiss(sock)
  /\ UNCHANGED <<seedVars, callbacks, qSocks, kernelVars, nPendingEvents,
                 writeEnabled, made>>

\* sp_add fails: the connection made by initiateConnection is closed again, but
\* its descriptor stays in qSocks and nPendingEvents is decremented for it.
InitiateAddFails(sock) ==
  /\ NextAddr
  /\ "add" \in FailOps
  /\ sock \in LowestFree
  /\ status' = [status EXCEPT ![sock] = "none"]
  /\ sending' = [sending EXCEPT ![sock] = FALSE]
  /\ callbacks' = callbacks \ {sock}
  /\ qSocks' = Append(qSocks, sock)
  /\ nPendingEvents' = nPendingEvents - 1
  /\ sp_del(sock)
  /\ CountMiss(sock)
  /\ UNCHANGED <<seedVars, fdTable, held, writeEnabled, made>>

\* Mutant of sp_add: the engine's own record is not brought up to date.
sp_add_Unrecorded(sock) ==
  /\ sp' = [sp EXCEPT ![sock] = "inout"]
  /\ UNCHANGED writeEnabled

\* Mutant of sp_add: registered for reading, as one would after accept().
sp_add_ReadOnly(sock) ==
  /\ sp' = [sp EXCEPT ![sock] = "in"]
  /\ writeEnabled' = [writeEnabled EXCEPT ![sock] = FALSE]

\* sp_add and the assignment to writeEnabled that follows it.
sp_add(sock) ==
  /\ sp' = [sp EXCEPT ![sock] = "inout"]
  /\ writeEnabled' = [writeEnabled EXCEPT ![sock] = TRUE]

\* connect() is in progress (CONNECTING) or done (CONNECTED); the descriptor is
\* registered for both reading and writing.
InitiateOK(sock, newStatus) ==
  /\ NextAddr
  /\ sock \in LowestFree
  /\ addConnection(sock, newStatus)
  /\ callbacks' = callbacks \cup {sock}
  /\ qSocks' = Append(qSocks, sock)
  /\ fdTable' = [fdTable EXCEPT ![sock] = "engine"]
  /\ sp_add(sock)
  /\ made' = made \cup {sock}
  /\ CountMiss(sock)
  /\ UNCHANGED <<seedVars, held, nPendingEvents>>

-------------------------------------------------------------------------------
(* sp_wait. *)

\* Mutant of BatchDone: the events of the older connections are forgotten.
BatchDone_NewOnly ==
  /\ pc = "room"
  /\ addrs = <<>>
  /\ nPendingEvents' = newSize
  /\ pc' = "wait"
  /\ UNCHANGED <<seedVars, connVars, kernelVars, addrs, newSize, events,
                 reading, closeSocks, writeEnabled, esock, historyVars>>

BatchDone ==
  /\ pc = "room"
  /\ addrs = <<>>
  /\ nPendingEvents' = nPendingEvents + newSize
  \* A negative int compared with events.size() is a huge size_t: resize throws.
  /\ pc' = IF nPendingEvents' < 0 THEN "exited" ELSE "wait"
  /\ UNCHANGED <<seedVars, connVars, kernelVars, addrs, newSize, events,
                 reading, closeSocks, writeEnabled, esock, historyVars>>

\* What the kernel may report.  epoll gives one event for a descriptor, with
\* every flag that is ready: before the version is sent the socket has never
\* been written to, so once it is connected, or has failed, it is writable, and
\* while write interest is on, the event carries EPOLLOUT.  kqueue gives an
\* event for each filter, in any order, and has no error events.
Reportable(e) ==
  /\ sp[e.fd] # "none"
  /\ e.kind = "write" => sp[e.fd] = "inout"
  /\ Kqueue => e.kind # "error"
  /\ ~Kqueue /\ sp[e.fd] = "inout" /\ status[e.fd] # "VERSION_SENT"
       => e.kind = "write"

EventBatches ==
  {E \in SUBSET {e \in Event : Reportable(e)} :
     /\ E # {}
     /\ Cardinality(E) <= nPendingEvents
     /\ Kqueue \/ \A d, e \in E : d.fd = e.fd => d = e}

Wait(E) ==
  /\ pc = "wait"
  /\ E \in EventBatches
  /\ events' = E
  /\ pc' = "dispatch"
  /\ UNCHANGED <<seedVars, connVars, kernelVars, addrs, newSize, reading,
                 closeSocks, nPendingEvents, writeEnabled, esock, historyVars>>

\* epoll_wait with a maximum of 0 is an error, kevent returns at once.
WaitForNothing ==
  /\ pc = "wait"
  /\ nPendingEvents = 0
  /\ pc' = "drain"
  /\ UNCHANGED <<seedVars, connVars, kernelVars, addrs, newSize, events,
                 reading, closeSocks, nPendingEvents, writeEnabled, esock,
                 historyVars>>

-------------------------------------------------------------------------------
(* dispatchNetworkEvents, with networkCallback inside it. *)

\* The next event.  The order within a batch is the kernel's: any.
NextEvent(e) ==
  /\ pc = "dispatch"
  /\ reading = NoFd
  /\ e \in events
  /\ events' = events \ {e}
  /\ UNCHANGED <<pc, addrs, newSize>>

\* Mutant of CallbackFailed: rsock, the result of the callback, is not set.
CallbackFailed_NoSock(f) ==
  /\ sp_del(f)
  /\ closeSocks' = Append(closeSocks, NoFd)
  /\ UNCHANGED writeEnabled

\* After a callback that returned false: sp_del now, close after the batch.
CallbackFailed(f) ==
  /\ sp_del(f)
  /\ closeSocks' = Append(closeSocks, f)
  /\ UNCHANGED writeEnabled

\* Mutant of CallbackDone: write interest is dropped but never taken up again.
CallbackDone_DisableOnly(f, moreWrite) ==
  /\ writeEnabled' = [writeEnabled EXCEPT ![f] = moreWrite]
  /\ sp' = IF sp[f] = "none" \/ moreWrite THEN sp ELSE [sp EXCEPT ![f] = "in"]
  /\ UNCHANGED closeSocks

\* After a callback that returned true: sp_enable_write or sp_disable_write if
\* writeEnabled differs from moreWrite; both fail for an unregistered f.
CallbackDone(f, moreWrite) ==
  /\ writeEnabled' = [writeEnabled EXCEPT ![f] = moreWrite]
  /\ sp' = IF sp[f] = "none" \/ writeEnabled[f] = moreWrite THEN sp
           ELSE [sp EXCEPT ![f] = IF moreWrite THEN "inout" ELSE "in"]
  /\ UNCHANGED closeSocks

\* event.write: the first one queues our version message; then sendBuffer
\* writes what is queued.  Any error of write() closes the connection: the test
\* of errno at network.cpp:41 is always true.  No more than what is queued can
\* be left, and with nothing queued write() is not called.
VersionDue(f) == status[f] # "VERSION_SENT"

HandleWrite(e, ok, moreWrite) ==
  LET f == e.fd
      queued == sending[f] \/ VersionDue(f)
  IN /\ NextEvent(e)
     /\ e.kind = "write"
     /\ queued \/ (ok /\ ~moreWrite)
     /\ queued /\ fdTable[f] = "free" => ~ok
     /\ status' = [status EXCEPT ![f] = "VERSION_SENT"]
     /\ sending' = [sending EXCEPT ![f] = queued /\ (~ok \/ moreWrite)]
     /\ IF ok THEN CallbackDone(f, moreWrite) ELSE CallbackFailed(f)
     /\ UNCHANGED <<seedVars, callbacks, qSocks, fdTable, held, reading,
                    nPendingEvents, esock, historyVars>>

\* event.read, and read() returns 0 or an error of any kind (network.cpp:104).
ReadFails(e) ==
  /\ NextEvent(e)
  /\ e.kind = "read"
  /\ CallbackFailed(e.fd)
  /\ UNCHANGED <<seedVars, connVars, fdTable, held, reading, nPendingEvents,
                 esock, historyVars>>

\* event.read, and read() returns bytes, which processMessage works through.
BeginRead(e) ==
  /\ NextEvent(e)
  /\ e.kind = "read"
  /\ fdTable[e.fd] # "free"
  /\ reading' = e.fd
  /\ UNCHANGED <<seedVars, connVars, kernelVars, closeSocks, nPendingEvents,
                 writeEnabled, esock, historyVars>>

\* One address of an addr message.
ReadAddr(addr) ==
  /\ reading # NoFd
  /\ addNewAddr(addr)
  /\ UNCHANGED <<connVars, kernelVars, loopVars, nPendingEvents, writeEnabled,
                 historyVars>>

\* The bytes are used up: a version or a ping among them queued a reply
\* (replied), a wrong magic closes the connection (~ok).
EndRead(ok, replied) ==
  LET f == reading
  IN /\ reading # NoFd
     /\ reading' = NoFd
     /\ sending' = [sending EXCEPT ![f] = sending[f] \/ replied]
     /\ IF ok THEN CallbackDone(f, sending'[f]) ELSE CallbackFailed(f)
     /\ UNCHANGED <<seedVars, status, callbacks, qSocks, fdTable, held, pc,
                    addrs, newSize, events, nPendingEvents, esock, historyVars>>

\* event.error alone.
HandleError(e) ==
  /\ NextEvent(e)
  /\ e.kind = "error"
  /\ CallbackFailed(e.fd)
  /\ UNCHANGED <<seedVars, connVars, fdTable, held, reading, nPendingEvents,
                 esock, historyVars>>

\* Mutant of CloseNext: the socket is closed as soon as its callback fails.
CloseNext_Eager ==
  /\ pc = "dispatch"
  /\ reading = NoFd
  /\ closeSocks # <<>>
  /\ closeConnection(Head(closeSocks))
  /\ sp_del(Head(closeSocks))
  /\ closeSocks' = Tail(closeSocks)
  /\ UNCHANGED <<seedVars, qSocks, held, pc, addrs, newSize, events, reading,
                 nPendingEvents, writeEnabled, esock, historyVars>>

\* Mutant of CloseNext: the front of qSocks goes with it, whoever it is.
CloseNext_PopsFront ==
  /\ pc = "dispatch"
  /\ reading = NoFd
  /\ events = {}
  /\ closeSocks # <<>>
  /\ closeConnection(Head(closeSocks))
  /\ sp_del(Head(closeSocks))
  /\ closeSocks' = Tail(closeSocks)
  /\ qSocks' = IF qSocks = <<>> THEN qSocks ELSE Tail(qSocks)
  /\ UNCHANGED <<seedVars, held, pc, addrs, newSize, events, reading,
                 nPendingEvents, writeEnabled, esock, historyVars>>

\* Closing a descriptor also removes it from the interest set.
CloseNext ==
  /\ pc = "dispatch"
  /\ reading = NoFd
  /\ events = {}
  /\ closeSocks # <<>>
  /\ closeConnection(Head(closeSocks))
  /\ sp_del(Head(closeSocks))
  /\ closeSocks' = Tail(closeSocks)
  /\ UNCHANGED <<seedVars, qSocks, held, pc, addrs, newSize, events, reading,
                 nPendingEvents, writeEnabled, esock, historyVars>>

DispatchDone ==
  /\ pc = "dispatch"
  /\ reading = NoFd
  /\ events = {}
  /\ closeSocks = <<>>
  /\ pc' = "drain"
  /\ UNCHANGED <<seedVars, connVars, kernelVars, addrs, newSize, events,
                 reading, closeSocks, nPendingEvents, writeEnabled, esock,
                 historyVars>>

-------------------------------------------------------------------------------
(* The reporter's thread (libcurl inside it) in the same descriptor table. *)

OtherOpens(f) ==
  /\ pc \notin {"failed", "exited"}
  /\ Cardinality(held) < MaxHeld
  /\ f \in LowestFree
  /\ held' = held \cup {f}
  /\ fdTable' = [fdTable EXCEPT ![f] = "other"]
  /\ UNCHANGED <<seedVars, connVars, sp, loopVars, nPendingEvents, writeEnabled,
                 historyVars>>

\* It closes what it believes its own, whoever holds the descriptor by now.
OtherCloses(f) ==
  /\ pc \notin {"failed", "exited"}
  /\ f \in held
  /\ held' = held \ {f}
  /\ fdTable' = [fdTable EXCEPT ![f] = "free"]
  /\ sp_del(f)
  /\ UNCHANGED <<seedVars, connVars, loopVars, nPendingEvents, writeEnabled,
                 historyVars>>

-------------------------------------------------------------------------------
Connect ==
  \/ HaveRoom \/ Evict
  \/ InitiateSocketFails
  \/ \E sock \in Fds :
       \/ InitiateSetupFails(sock) \/ InitiateAddFails(sock)
       \/ \E s \in {"CONNECTING", "CONNECTED"} : InitiateOK(sock, s)

Dispatch ==
  \/ \E e \in events :
       \/ \E ok, moreWrite \in BOOLEAN : HandleWrite(e, ok, moreWrite)
       \/ ReadFails(e) \/ BeginRead(e) \/ HandleError(e)
  \/ \E addr \in CService : ReadAddr(addr)
  \/ \E ok, replied \in BOOLEAN : EndRead(ok, replied)
  \/ CloseNext \/ DispatchDone

\* Every step of the engine's thread but the kernel's answer to sp_wait.
Engine == StartEngine \/ Drain \/ Connect \/ BatchDone \/ WaitForNothing \/ Dispatch

OtherThread == \E f \in Fds : OtherOpens(f) \/ OtherCloses(f)

Next ==
  \/ \E addr \in CService : AddDNSSeed(addr)
  \/ initEngineFails
  \/ Engine
  \/ \E E \in EventBatches : Wait(E)
  \/ OtherThread

Spec == Init /\ [][Next]_vars
-------------------------------------------------------------------------------
(* Safety *)

\* The kernel holds the address of a std::function in callbacks, and an event
\* carries it back: whatever is registered, reported or running has its entry in
\* callbacks and in connections.  (Erasing them inside the dispatch loop, with an
\* event of the same descriptor still to come, would leave the pointer dangling.)
CallbacksAlive ==
  /\ callbacks \subseteq connections
  /\ \A f \in Fds : sp[f] # "none" => f \in callbacks
  /\ \A e \in events : e.fd \in callbacks
  /\ reading # NoFd => reading \in callbacks

\* writeEnabled, which survives the descriptor's reuse and is not touched by
\* closeConnection, agrees with the kernel's interest for every registered
\* descriptor.
InterestMirrored ==
  \A f \in Fds : sp[f] # "none" => (writeEnabled[f] <=> sp[f] = "inout")

\* A connection with bytes to send, or whose version message is due, is
\* registered for writing, unless it is about to be closed: otherwise no event
\* would ever make the engine send them.  Whatever the reporter's thread opens and
\* closes, this is so as long as the engine has the socket open.
Served == {f \in callbacks \ Range(closeSocks) : fdTable[f] = "engine"}

Unsent(f) == VersionDue(f) \/ sending[f]
HandshakeArmed == \A f \in Served : Unsent(f) => sp[f] = "inout"

\* The same for queued bytes alone.
OutputArmed == \A f \in Served : sending[f] => sp[f] = "inout"

\* No descriptor is lost: on no path, of success or of failure, does the engine
\* forget one that it has open, and every connection that is served can be evicted,
\* as its descriptor is in qSocks.
Reclaimable ==
  /\ \A f \in Fds : fdTable[f] = "engine" => f \in callbacks
  /\ callbacks \subseteq Range(qSocks)

\* sp_wait is given room for an event of every registered descriptor, whatever
\* was closed or evicted since, and the count never goes negative.
registered == {f \in Fds : sp[f] # "none"}
EventSlots ==
  /\ pc # "exited"
  /\ pc = "wait" => Cardinality(registered) <= nPendingEvents

\* How far the connections can exceed maxConnections.  With the table of
\* descriptors for itself the engine never exceeds it, although qSocks is full of
\* descriptors closed long ago: a number that is evicted in vain is free, and the
\* socket gets it or a lower one.  The descriptors another thread holds push the
\* engine's up by as many; each time it has the number that was evicted the same
\* happens again, and there is no limit to that.
ConnectionBound ==
  connectionCount <= MaxConnections + MaxHeld * (1 + missed)

\* The loop does not block in sp_wait with addresses in the queue (it has no
\* timeout, and no peer need ever speak): there is a connection that sp_wait can
\* report at once, or it has no room for events and returns at once.  The only
\* exception is a batch of which no connection is left: each address of it
\* failed, or its descriptor was evicted or closed again.
Ready(E) == \E e \in E : e.kind = "write" /\ VersionDue(e.fd)
BatchLost == newSize # 0 /\ \A f \in made : sp[f] = "none"
NeverStranded ==
  pc = "wait" /\ mSeedAddr # <<>> =>
    nPendingEvents = 0 \/ BatchLost \/ \E E \in EventBatches : Ready(E)

\* The engine's entries are exactly its own open descriptors, and the reporter's
\* thread still owns all of those it holds.
DescriptorsOwned ==
  /\ connections = {f \in Fds : fdTable[f] = "engine"}
  /\ held = {f \in Fds : fdTable[f] = "other"}

\* A descriptor the reporter's thread goes on holding is not closed by the engine.
ForeignKept ==
  [][\A f \in Fds : fdTable[f] = "other" /\ f \in held' => fdTable'[f] = "other"]_vars

-------------------------------------------------------------------------------
(* Liveness *)

\* The kernel answers with an event that lets f send its version.
Writable(f) ==
  \E E \in EventBatches :
    /\ \E e \in E : e.fd = f /\ e.kind = "write" /\ VersionDue(f)
    /\ Wait(E)

\* The engine's thread is never descheduled for ever, and a connection attempt
\* succeeds or fails in the end (TCP gives up by itself): from then on the
\* socket is writable, and epoll and kqueue, both level-triggered, report it at
\* sp_wait.  Nothing obliges a peer to send anything.
LiveSpec ==
  /\ Spec
  /\ WF_vars(Engine)
  /\ \A f \in Fds : SF_vars(Writable(f))

\* Every address that is queued is taken out of the queue to be tried: although
\* sp_wait has no timeout and no peer need ever speak, the loop does not block
\* with seeds left behind.
SeedsDrained ==
  \A addr \in CService :
    addr \in Range(mSeedAddr) ~> addr \notin Range(mSeedAddr)

\* A connection that is served sends its version message or is closed.
HandshakeDone ==
  \A f \in Fds :
    f \in callbacks /\ VersionDue(f) ~> ~(f \in callbacks /\ VersionDue(f))

===============================================================================
