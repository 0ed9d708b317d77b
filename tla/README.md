# Verification of BitcoinNetwork

BitcoinNetwork is a crawler of the Bitcoin network in C++ and a small web
service in Python. The crawler starts from DNS seeds, connects to every address
it learns of, exchanges `version`/`verack`, answers `ping`, and takes the
addresses of further nodes out of `addr` messages. Each new address, and each
`version` message, is reported over HTTP to the web service, which stores it in
MySQL and looks up where the address is.

This directory holds TLA+ modules of its parts, TLC configurations that check
them on small instances, and TLAPS proofs of what holds for every instance.
Line numbers refer to the files under `src/`.

## 1. Inventory

### The parts

| part | source | state | operations |
|---|---|---|---|
| `CAddrSeed` | `addrseed.h`, `addrseed.cpp` | `mSeenAddr` (set of all addresses seen, ordered by ip alone), `mSeedAddr` (queue of those to try), `mSeedLock` | `addNewAddr`, `getNewAddrs` |
| DNS seeds, `main` | `init.cpp`, `main.cpp` | none of their own | `lookup`, `initDNSSeedAddr`, `main` |
| `NetworkEngine` | `network.h`, `network.cpp:319-417` | `events`, `nPendingEvents`, `writeEnabled`, the batch of addresses | `initEngine`, `startEngine`, `dispatchNetworkEvents` |
| `ConnectionManager` | `network.cpp:209-317` | `connections`, `callbacks`, `qSocks` | `initiateConnection`, `addConnection`, `evictSock`, `closeConnection`, `networkCallback` |
| event layer | `network.h:27-190` | the kernel's interest set | `sp_add`, `sp_del`, `sp_enable_write`, `sp_disable_write`, `sp_wait`, for epoll and for kqueue |
| `Connection`, sending | `network.cpp:28-59`, `143-208` | `status`, `youVersion`, `sendingBuffer`, `sendPos` | `sendBuffer`, `push...Command` |
| `Connection`, receiving | `network.cpp:61-141` | `vReadBuffer`, `headerValid`, `header` | `readBuffer`, `processMessage` |
| serialisation | `include/bitcoin/serialize.h`, `stream.h`, `endian.h`, `byteswap.h`, `message.h` | the cursor of a reader or a writer | `Serialize`, `Unserialize`, `ReadVarInt`, `WriteCompactSize`, `CVectorReader`, `CVectorWriter` |
| addresses | `include/bitcoin/protocol.h` | values | order, conversions, `SerializationOp` |
| `HttpReporter` | `http_reporter.h`, `reporter.h` | `newAddrs`, `vVersionAddrs` with a mutex each, the thread's copies | `reportNewAddr`, `reportVersionedAddr`, the thread |
| web service | `web/torweb.py`, `web/db.py`, `web/simplecache.py` | the table, the database connection's open transaction, the loop's callbacks, the cache | `ReportHandler.post`, `resolve`, `update_version`, two queries |
| web page, configuration | `web/static`, `web/config.py` | none | |

### How they interact

* **Calls.** `main` runs the DNS look-ups, then `startEngine` for ever: drain a
  batch of addresses, open a socket for each (evicting an old connection at the
  limit), block in `sp_wait`, dispatch the events to the callbacks.
* **Callbacks by pointer.** The kernel is given the address of a `std::function`
  in `ConnectionManager::callbacks` and hands it back with the event: it must
  still be there.
* **Threads.** The engine's thread and the reporter's thread share `newAddrs` and
  `vVersionAddrs` (under mutexes) and the process's table of descriptors (under
  nothing): libcurl opens and closes sockets in it.
* **Messages.** Peers send bytes that arrive in pieces; the reporter posts to the
  web service; the web service asks a geolocation service, with retries.

### What is hard here, and what makes each part correct

* *Engine*: four user-space tables and the kernel's must agree while descriptors
  are closed, reused by a younger connection, or reused by another thread; calls
  fail halfway; `sp_wait` has no timeout; epoll and kqueue deliver differently.
  Correct means: no event reaches an erased callback; the interest set, the
  engine's belief about it and the bytes to be sent agree; the engine closes its
  own descriptors only, and leaks none; the limit of connections holds; no
  address stays in the queue and no handshake unsent.
* *Sending*: commands are written in parts while others are queued. Correct means:
  the bytes on the wire are a version message and then one reply per request,
  whole and in order, and all of them are sent.
* *Receiving*: the stream is cut anywhere; two cursors and a header that survives
  the call. Correct means: each message is handled once, whole, in order, as soon
  as it is there.
* *addr messages*: a number in a variable-length encoding, a format that depends
  on the version, a reader that may run into the next message. Correct means: the
  addresses added are those the peer listed.
* *Reporter*: exchange of queues between threads. Correct means: each address is
  reported once; a version does not overtake its address by much; all is posted.
* *Web service*: coroutines that interleave at awaits over one transaction, and
  restarts. Correct means: one look-up per address, no version lost, bounded
  retries, and only worthless rows uncommitted.

`PROJECT.json` lists the hazards line by line, each with the properties that
would catch it, or why none does.

## 2. Modules

Each component has a module with its state and one action per operation; where
it is proved about, a module `...Proofs` beside it. Mutated forms of actions
(`Name_Mutation`) stand before the action they mutate and are used by nothing.

| module | models | extends |
|---|---|---|
| `AddrSeed` | `CAddrSeed` | |
| `NetworkEngine` | `NetworkEngine`, `ConnectionManager`, the event layer, `main` | `AddrSeed` |
| `PeerStream`, `MessageStream` | what a peer sends; the *abstract* promise of receiving | |
| `MessageFraming` | `readBuffer`, implements `MessageStream` | `PeerStream` |
| `Primitives` | byte order of integers (`byteswap.h`, `endian.h`), compact sizes | |
| `Serialization` | a message written field by field by one host and read by another | `Primitives` |
| `NetAddr` | the forms of an address (`protocol.h`) | `Primitives` |
| `Commands`, `Dialogue` | the commands; the *abstract* promise of sending | |
| `Connection` | `initiateConnection`, `initializeAddress`, handshake, `sendBuffer`, `processMessage`; implements `Dialogue` | `Commands`, `NetAddr` |
| `AddrMessage` | an `addr` message in `processMessage`, `ReadVarInt`, `CVectorReader` | |
| `HttpReporter` | the reporter's thread beside the engine's | `AddrSeed` |
| `WebStore` | the coroutines of the web service and the database | |
| `WebService` | the two queries and `SimpleCache`, over the store | `WebStore` |
| `Pipeline` | the reporter posting into the store, lost posts, restarts of either | `HttpReporter`, instance of `WebStore` |
| `MC...` | constants for TLC, where the `.cfg` cannot give them | |

`NetworkEngine` and `HttpReporter` each compose `AddrSeed`, whose operators
are the steps of the two, as every method holds `mSeedLock` throughout.
`Pipeline` synchronises a post of `HttpReporter` with a report of `WebStore`;
every other step is one side's alone.

### Correspondence with the code

**NetworkEngine.** `pc` is the place in `main` and in `startEngine`. `AddDNSSeed`
is one result of a look-up, `StartEngine` an `initEngine` that succeeds,
`initEngineFails` one that does not, after which `main` returns and the reporter's
joinable thread ends the process; `MaxConnections` is what it makes of `NoFile`
(`RLIMIT_NOFILE`). Then `Drain` (349), and for each address `HaveRoom` or `Evict` (352-359) and one of `InitiateOK`,
`InitiateSocketFails`, `InitiateSetupFails`, `InitiateAddFails` (360-374),
`BatchDone` (376-378), `Wait` (379), then one action per callback outcome
(`HandleWrite`, `ReadFails`, `BeginRead`/`ReadAddr`/`EndRead`, `HandleError`)
with the switching of write interest after it (`CallbackDone`, `CallbackFailed`,
383-413), and `CloseNext` for the deferred closes (414-416). `status`,
`sending`, `callbacks`, `qSocks`, `nPendingEvents`, `writeEnabled` are the
variables of the code, `esock` is the descriptor evicted for the address at hand;
`sp` and `fdTable` are the kernel's. `made` (what the batch was connected with) and
`missed` (sockets that got a number above the one evicted for them, as the other
thread had taken that) are history variables. Two kinds of
interleaving happen: the reporter's thread opens and closes descriptors between
any two steps, and the kernel chooses which events it reports. Abstracted: which bytes are in a buffer
(only whether any are to be sent), and what a read contains (only the addresses,
whether it queued a reply, whether it failed). `sp_enable_write` and
`sp_disable_write` fail only for a descriptor that is not registered. A batch of
events has no order: any is next.

**MessageFraming.** A byte is its number in the peer's stream, so that the buffer
shows which bytes it holds. One action for `read`, one for each way through the
loop. Sums are taken modulo `UIntMod`. The `memcpy` between overlapping ranges
(137) is undefined: with `CopiesBackward` the model also lets it copy from the
end. The run and the proofs take the forward copy, which is what builds do; the
other is a mutant, and `FramesIntact` rejects it.

**Primitives and Serialization.** An integer is the sequence of its bytes, the
lowest first, so that a host's memory, `bswap` and what a stream holds are
different things. `OnBigHost` and `OnLittleHost` are the two branches of
`WORDS_BIGENDIAN` in `endian.h`. One step writes or reads one field (`WriteField`,
`ReadField`, `ReadAgent`), by the list of fields that `SerializationOp` goes
through for the stream's version; `BeginCommand` and `MakeHeader` are the two
halves of a `push...Command`, the header written last at position 0;
`HeaderRead` finds the command and takes the version for the payload from a
reader of its own, as `network.cpp:64-66` does; `GetVersion` is the `int` that a
stream makes of the 32 bits of a version, negative from 2^31 on. `DeliverOther` replaces the size
of the agent by what another program may write there; of such a message only the
reader's own obligations hold (`TypeOK`), as it is not `genuine`. `CVectorReader::read`
yields zeros at the end of the buffer; an exception of `ReadCompactSize` is caught
nowhere, pc is then `"terminated"`. Abstracted: the hash (four bytes), the data
behind integers (byte patterns). `bzero` over a `std::string` (`message.h:83`) is
undefined; with the libraries the program is built with it leaves an empty string,
which is `Blank`.

**NetAddr and Connection.** `Target` is what `connect()` is given: for an address
that is not IPv4 `GetSockAddr` returns false, nobody looks, and the `sockaddr` is
whatever was on the stack: an IPv4 address, or `AF_UNSPEC`, which `connect()` takes
without making a connection. `initializeAddress` takes both addresses from the
socket, where a socket without a peer leaves garbage in the port. One step per
`write` and per message received. The epoll build: under kqueue a read event may
precede the write event of a fresh connection (see section 6). Lines 33-37 (an empty command) never run, as every command has a
header, and are not modelled.

**AddrMessage.** The reader goes byte by byte through the number, then address
by address. Bytes of the number have values; of the rest only the place matters.
`read` yields zeros when the buffer ends, as `CVectorReader::read` does. The
peer writes the list the way `serialize.h` writes a vector (`CompactSize`).
An exception of `ReadVarInt` is caught nowhere: pc is then `"terminated"`.

**HttpReporter.** One step per exchange of a queue and per HTTP request. A
request that fails is a step like one that succeeds, as its result is ignored. A
version may be reported of any address, as `getpeername` names it. `seenBefore` is a
history variable: the addresses seen by the time the cycle began.

**WebStore.** A coroutine runs from await to await in one step; `callbacks` is
the loop's queue, first in first out. `session` is what the connection sees,
`committed` what a restart leaves. The running look-ups are a set: that no look-up
starts beside an equal one is what `OneLookUp` says, which counts running and waiting
tries. Not modelled: errors of the database server,
and requests without an argument, which change nothing.

**WebService.** A query runs between any two steps of the coroutines, on the
connection they write with, so that it sees what is not committed. Time goes on in
ticks; `left` is what remains of an answer's time-out. An empty answer is not
cached. `behind` is a history variable: the ticks since the answer in the cache was
last the query's result.

**Pipeline.** `DeliverNew` and `DeliverVersion` are a post that arrives, answered
before its coroutine runs (`torweb.py:19-25`); `LosePost` is one that fails, which
the reporter does not notice. `RestartCrawler` forgets every address.

## 3. Runs

| run | module, cfg | what it shows |
|---|---|---|
| `engine_epoll` | `MCNetworkEngine`, `MCEngineEpoll.cfg` | epoll; `initEngine`, `socket` and set-ups fail: `InterestMirrored`, `HandshakeArmed`, `Reclaimable`, `EventSlots`, `ConnectionBound`, `NeverStranded` |
| `engine_kqueue` | `MCEngineKqueue.cfg` | kqueue, two events per descriptor, `socket` and `sp_add` fail: `CallbacksAlive`, `OutputArmed`, `DescriptorsOwned`, `ForeignKept` |
| `engine_liveness` | `MCEngineLive.cfg` | `SeedsDrained`, `HandshakeDone` |
| `framing` | `MCMessageFraming` | every stream in every cut: `FramesIntact`, `CursorsAgree`, the refinement `StreamRefined`, `AllHandled` |
| `connection` | `MCConnection` | every cut of the writes, addresses of both families: `ReportedPeer`, the refinement `DialogueKept`, `AllSent` |
| `connection_addr` | `MCConnectionAddr.cfg` | finding 1, `AddrsTimed` is violated |
| `serialization` | `MCSerialization` | every field between hosts of both orders: `WireFormat`, `RoundTrip` |
| `addr_message` | `AddrMessage` | `CountDocumented`, `AddrsSent` |
| `addr_count` | `AddrMessageGenuine.cfg` | finding 2, `AddrsGenuine` is violated |
| `reporter` | `HttpReporter` | `ReportedOnce`, `OneCycleLate`, `AllPosted` |
| `web_service` | `MCWebService` | `OneLookUp`, `VersionKept`, `WorkCommitted`, `AnswerRecent`, `LookUpsEnd` |
| `pipeline` | `Pipeline` | reporter and web service with faults on the way: `SeenStored`, `VersionsFindRows` |

Each component's `TypeOK` is checked in one of its runs. Each property has a
mutant in `PROJECT.json`: a plausible change of one definition with which TLC finds
the property violated.

### Bounds, and why they are enough

* **Engine.** In every run the reporter's thread, which always runs, may hold one
  descriptor at a time (`MaxHeld = 1`): it gets the number the engine has just closed
  or evicted, and vice versa. A limit of two connections (`NoFile = 12`) leaves a
  descriptor to be reused while two are in use, so eviction, close and reuse by a
  younger connection or by the other thread all happen. Batches of two addresses
  (`DrainSize = 2`) out of three or four are full and partial, and there are more
  addresses than connections. With its four descriptors and four addresses
  `engine_epoll` reaches the case in which the limit is exceeded (section 6).
  `engine_liveness` has a limit of one (`NoFile = 11`), three addresses and three
  descriptors, so that `socket()` always finds one. `nPendingEvents` needs no bound,
  as each address is tried once. Symmetry over ips is used for safety only.
* **Framing.** A header of 2 bytes, up to 3 frames, payloads of 0, 1 and 4 bytes,
  reads of up to 5: a read can end within a header, between header and payload,
  within a payload and at a message's end, and bring up to two and a half messages.
  `UIntMod = 10` is above the largest sum (6); the mutated, signed sum overflows at it.
* **Connection.** A version of 3 bytes, a verack of 1, a pong of 2, three requests:
  a command in parts while two others queue behind it. An IPv4 and an IPv6 address
  are tried; the leftover `sockaddr` is the address tried before, or zeros
  (`AF_UNSPEC`).
* **Serialization.** Versions on each side of 106 and of 70001; agents of 0, 1, 252,
  253, 300 and 65536 bytes, on each side of the three forms of a size; versions of
  other writers below and above 2^31; bytes that
  differ, so that each wrong order or place shows; all four pairs of hosts; a buffer
  that was used before; nothing or another message behind. Sizes of other writers:
  shorter, longer than what follows, not canonical, above `MAX_SIZE`.
* **AddrMessage.** 0, 1, 2, 127, 130 and 300 addresses: the last number that is
  one byte, the first kind the two encodings disagree on, and a number of three
  bytes. Bytes 0, 3, 127, 128, 255 lie on each side of the digit's limit.
  `CountMax = 2^21 - 1` (2^32 - 1 in the code) lets three digits overflow;
  `MaxAdded = 132` stops the loop over a misread number, after the reader has come
  to the end of a buffer with 130 addresses and has gone on with zeros.
* **Reporter.** Three ips with two ports (so duplicates by ip occur), one version
  waiting at a time, which may come between the two exchanges of a cycle.
* **Web service.** Two ips, four reports, retries up to the limit of two (three in the
  code), so that an INSERT, a first failure and a last one differ; one restart; a time-out of
  one tick, so that an answer is kept over any number of writes and one step of time.
* **Pipeline.** Two ips, three reports, one retry, one restart of either process, posts
  lost at will. `Room` counts what is on its way, so that the bound on reports cuts
  no delivery off; a post of each address and one version are the shortest
  history in which a version can pass its address.

### Fairness, and why the code justifies it

* `NetworkEngine`: weak fairness of the engine's thread (a single loop that never
  returns), and strong fairness of the kernel's reporting a connection that is
  writable. A connection attempt ends by itself in TCP, well or badly; then the
  socket is writable, and both back ends are level-triggered. No peer is assumed
  ever to speak. No fairness of DNS or of the other thread.
* `MessageFraming`: weak fairness of the loop, which does not block; none of `Read`.
* `Connection`: weak fairness of a callback that runs, strong fairness of
  `BeginWrite`: the peer goes on reading, so the socket is writable again and again.
* `HttpReporter`: weak fairness of the thread. This assumes that each HTTP request
  ends: no timeout is set, a service that accepts and never answers stops it.
* `WebService`: weak fairness of the loop and of each answer (`AsyncHTTPClient`
  ends a request after 20 seconds by default). None of users, and none of time.
* `Pipeline`: weak fairness of the reporter's thread (a post ends, well or badly) and
  of the loop; none of the crawler's reading, of look-ups, faults and restarts.

## 4. Findings

1. **An address decoded by a stale version** (`network.cpp:308`, `AddrsTimed`).
   `youVersion` is passed to `readBuffer` by value before the messages of the read
   are processed. An `addr` that arrives in one read with the `version` message is
   decoded by version 0, without `nTime`, four bytes off; `protocol.h:11` says that
   the field is there from 31402 on.
2. **The number of addresses in the wrong encoding** (`network.cpp:83`,
   `AddrsGenuine`). It is read with `ReadVarInt`, and written as a CompactSize. The
   two agree below 128 (`AddrsSent`, proved); from 128 on the number and the place
   of the first address are wrong, and what is added, tried and reported are no
   addresses of nodes, which is what `README.md:14` says the program gets.

## 5. What is proved

All theorems hold for every value of the constants that satisfies the named
assumptions of the modules. Where one needs more, it is a hypothesis of the
theorem.

**NetworkEngineProofs.** Layers, each inductive over those below it:

* `TypeCorrect`, with `InBatch`: the loop over a batch enters its body with an
  address (`Tail` of the batch is a sequence).
* `CallbacksStayAlive`. Not inductive by itself: an eviction outside the dispatch
  must not leave an event or a deferred close of the evicted descriptor behind, and
  a socket that gets a number again must not be watched already. `OnlyInDispatch`
  (events, the running callback and `closeSocks` exist only in a dispatch) and
  `WatchedOwned` (the kernel watches only what the engine has open) say that;
  `Agree` is all three with the type.
* `InterestStaysMirrored` over the type; `ReclaimableAlways` over `Agree`, in its two
  parts: `EngineServed` (every descriptor the engine has open has its callback) and
  `Evictable` (every callback has its place in `qSocks`). No further hypothesis.
* `EventSlotsSuffice`, if `sp_add` does not fail. `nPendingEvents` loses one at each
  eviction, even of a descriptor closed long ago. `SlotsCovered` counts entries of
  `qSocks` instead of connections: the counter, with the part of the running batch
  that is already tried, is at least their number, and by `Evictable` each
  registered descriptor is one of them.
* `DescriptorsStayOwned` and `ForeignStaysOpen`, if set-ups do not fail after
  `addConnection`. If they do, the entry that stays behind makes the engine close a
  descriptor that belongs to the other thread by then.
* `OutputStaysArmed` and (epoll) `HandshakeStaysArmed`, whatever the other thread does
  and whatever fails. They speak of connections whose socket the engine still has
  open; after a failed set-up the other thread may have got, and closed, a number that
  the engine's tables still hold. `ArmedInv` is `Agree`, the mirror, both properties,
  that every connection not about to be closed is registered, and in the epoll build
  that nothing but a write is reported before the version message is sent.
* `ConnectionsBounded`. With the table of descriptors for itself the engine keeps the
  limit although `qSocks` is full of stale entries: sockets get the lowest free
  number, so all connections are among the `MaxConnections` lowest, and a number
  evicted in vain is free, so that the socket gets it or a lower one. The other
  thread spoils that: it pushes the engine's numbers up by what it holds, and when it
  has the very number that was evicted, the socket gets a higher one and the table is
  one larger. `missed` counts that, and `Limit(missed)` is how many of the lowest
  numbers hold all connections and all of `qSocks` then (`LowOnly`). The theorem has no
  hypothesis; for `MaxHeld = 0` it says that the limit is kept.
* `SeedsNeverStranded`, what `SeedsDrained` needs of the code before any fairness, for
  every failure and with the other thread: in `sp_wait` with addresses in the queue
  there is an event that no peer can withhold, unless the batch left no connection
  (`BatchLost`). `Waking` says why: `getNewAddrs` returns nothing only if nothing is
  left, and what a batch has connected is watched with its version to send, or closed.
  `BatchesLeaveConnections`: `BatchLost` does not happen if no call after `socket()`
  fails and the kernel has a descriptor for each address. Section 6 says what happens
  otherwise.

**SequenceLemmas**: what the proofs need to know of data, whatever the program.
`Induction` has its hypothesis as a set, `S` with `0 \in S` and closed under `+ 1`, and
comes from the well-foundedness of `<` on `Nat`; with it, that a function defined by
recursion on numbers exists and satisfies its equation (`RecursionOnNatExists`), what
`FlattenSeq` makes of an appended part and of a concatenation, and `FlattenParts`: if
parts lie in a buffer one behind the other, each where the one before it ends, the
buffer is the parts flattened. The lemmas about queues (`RangeAppend`, `MoveHead`,
`Split` and others) are used by every component that has one.

**MessageFramingProofs.** `FramesStayIntact`, `CursorsStayAgreed` and the
refinement `FramingImplementsStream`, for every stream, header size and cut, under
`Rely`: the copy is forward, and no header size plus length wraps. The invariant
`Sound` says that the buffer holds the bytes of the stream up to the last one
that arrived with the frame at hand at `offset` in it, that a kept header is that
frame's, where the reader's cursor stands at each point of the loop, and that the
loop is left only when the frame at hand is not complete. `StartsDiffer`, that
frames do not overlap, is what makes the frames' order follow from the bytes; it
follows by induction (`StartsGrow`) from each frame beginning where the one before
it ends, which is all that is assumed of a stream.

**ConnectionProofs**: `TypeCorrect`, which contains that `sendPos` is within the
first command of the list, for all sizes and cuts; `ReportedPeerStays`, by
`Corrected` (once the connection is established its address is the peer's, and
nothing is reported before), for which the proof shows that `GetSockAddr` gives
back what `FromSockAddr` was given. `DialogueImplemented`: the connection implements
`Dialogue`. The invariant `Scripted` says that before the version is queued nothing is
asked, queued or sent, and that from then on what is on the wire, the rest of the
first command and the commands behind it are together exactly the script (`Said`):
`PendingWhole`, `PendingPart` and `PendingMore` say what a whole write, a partial one
and a push make of the queue. So whatever a write takes is the next piece of the
script, and a reply that is pushed extends the script at its end. `NothingUnsaid`, with
`Idle` (write interest is given up only with an empty queue): an open connection that
waits without write interest has answered everything.

**SerializationProofs**, for any objects, hash, leftovers and followers:

* `WireOrder` and `IntegerRoundTrip`: the double swap of a big-endian host (its
  memory, and `htole`) cancels out; `SizeRoundTrip`, over the three forms of a size.
* `MessageOnWire` and `WireFormatAlways`: the fields that `IInv` has in place, one behind
  the other from 0 to the end of the buffer, are the flattened message of the protocol
  (`MessageLaid`, then `FlattenParts`); each is what the protocol has there whatever the
  host (`WireField`), but for the checksum, which is the hash as the host's memory
  reads it (`Checksum`), so that a big-endian host sends it swapped.
* `TypeCorrect` and `RoundTripAlways`, both from `IInv`. `RoundTrip` speaks of the end
  only. `Offset` is where each field begins; `Placed(i)` says that the bytes of
  field `i` are there. `PayloadInv` and `HeaderInv` say which fields are placed while
  the payload and then the header are written, and where the writer stands:
  the header fits exactly in the room left for it, so it disturbs no field behind.
  `MessageInv` keeps all of them placed until the message is read, `ReadInv` says that
  the reader is at the start of the next field and that all before it are read
  correctly. `HeaderFieldsInv` (the command and the length in the header) is what
  makes the reader choose the same list of fields.

**AddrMessageProofs**: `TypeCorrect` (the reader stays within the buffer: the
assertion of `CVectorReader::read`; the number within its width, because of the two
tests in `ReadVarInt`), and `AddrsStaySent`, by the invariant `Aligned`: below 128
the reader is always where the next address begins. `CountAsDocumented`: the loop
shifts and increments from the first byte, the formula in the comment of
`serialize.h` sums powers of 128 from the last. `DocumentedAppend`, by induction over
the digits, turns one into the other; the invariant `Decoded` says that between two
digits the number is the sum of those read, plus one.

**HttpReporterProofs**: `TypeCorrect`; `AddressesReportedOnce`, inductive beside
the type, because an exchange of the queues does not change the concatenation of
what is posted, taken and waiting; `VersionsOneCycleLate`, by `Phases` (which of the
thread's two copies is empty where) and `Covered` (the addresses seen before the cycle
are posted or in the batch being posted). Of `Pipeline`, for any number of lost posts and restarts:
`VersionsFindTheirRows`, by `PostsExpected` (as long as there was no fault, an address
that was posted has its row or its INSERT is in the loop's queue: a callback leaves
the queue only when the row is there, and no coroutine removes a row); and
`PipelineImplementsStore`: the web service as the crawler uses it is a `WebStore`, so
that `VersionsKept` takes over where `VersionsFindTheirRows` ends.

**WebStoreProofs**: `TypeCorrect`; `WorkIsCommitted`, inductive beside the type;
`OneLookUpAlways`, by `Single` (the same by places in the queue, with the row that
each try is for); `VersionsKept`, by `Coming` (a
version that is due is in the row, or its UPDATE is in the queue behind the row or
behind the INSERT that makes it). `ServiceImplementsStore`: the queries, the cache and
the clock of `WebService` leave the store as it is, so these hold of the service too.
`AnswersRecent`, for every time-out, by `Aging`: the ticks an answer is behind and the
ticks it has left are together no more than the time-out.

### Only model-checked

* Liveness (`SeedsDrained`, `HandshakeDone`, `AllHandled`, `AllSent`, `AllPosted`,
  `LookUpsEnd`, `SeenStored`): fairness and ENABLED are out of the prover's reach.

Every invariant, refinement and action property of the passing runs is a theorem.

## 6. What is not modelled, or only in part

* Of the serialisation: what no code instantiates or calls (`CSizeComputer`,
  `WriteVarInt`, maps, sets, prevectors, `READWRITE` of them), and floating point.
* Of `protocol.h`: the text forms of an address (`ToString`), which only the log shows
  and reports carry.
* `getInstance` of `CAddrSeed` (an unlocked first test): only one thread calls it.
  `getNewAddrs` with `wait`: nobody asks for it.
* The order of events in `Connection` under kqueue. There a read event may come
  first; write interest is then dropped before the version is sent, and
  `HandshakeArmed` of `NetworkEngine` does not hold in the kqueue build.
* **The limit of connections is not kept.** Not by `maxConnections` itself, as soon as
  the reporter's thread holds a descriptor: with a limit of 2 and connections on 1 and
  2, 1 closes itself and stays in `qSocks`; libcurl takes 1; the next address gets 3,
  as there is one connection only; the next eviction takes the stale 1, which is no
  connection, and the socket is 4: three connections. Each eviction whose number the
  other thread has repeats that, so there is no bound but `ConnectionBound`'s, which
  grows with their number. No text of the repository states the limit, so this is a
  hazard and not a finding.
* `SeedsDrained` when calls fail: if every `socket()`, set-up or `sp_add` of a batch
  fails and no connection is left, the loop blocks in `sp_wait` with addresses in the
  queue (`BatchLost` of `NeverStranded`).
* `DescriptorsOwned` and `ForeignKept` when a set-up fails after `addConnection`: the
  entry that stays lets the engine close a descriptor of the other thread.
  `EventSlots` when `sp_add` fails: each failure takes a slot from `nPendingEvents`.
* A limit of 10 descriptors or fewer, or one that does not fit an `int` (unlimited):
  `maxConnections` is then a size no number of connections reaches and nothing is ever
  evicted. `SizesAssumption` excludes it.
* Big-endian hosts in `WireFormat`, and streams in which a size wraps in 32 bits in the
  run and the proofs of `MessageFraming`.
* Errors of the database server; the local clock set back, which keeps an answer in
  the cache for longer. The web page and the configuration have no state.
* The text of a report: the decimal form of 64-bit services may be longer than
  its buffer of 16 bytes (`http_reporter.h:120`).

## 7. Plan

Done, in this order, the heart of the crawler first: `AddrSeed` and
`NetworkEngine` with their proofs; `MessageFraming` with its refinement;
`HttpReporter`; `Connection` with its refinement; `WebStore`; `AddrMessage`;
`NetAddr` in `Connection`; `WebService`; `Primitives` and `Serialization` with the
round trip proved; `Pipeline`.

What could follow:

1. **kqueue in `Connection`.** With the events of `NetworkEngine`, so that one
   module has both the bytes and the interest.
2. **Proofs.** What the other liveness properties need of the code before any
   fairness, as `SeedsNeverStranded` and `NothingUnsaid` are it for `SeedsDrained` and
   `AllSent`.
