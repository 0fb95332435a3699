# TLA+ models of lab-netstack

These are TLA+ models of the user-space TCP stack in `src/`, checked with TLC.
Every definition is translated from the C++ source. `PROJECT.json` maps each definition
to the lines it models. It also lists the runs, the mutants that show each checked
property can fail, the findings, and the hazards of the code.

## The system and its parts

| Part | Source | What it does |
|---|---|---|
| RingBuffer | `base/ring_buffer.{h,cpp}` | Byte ring with `begin_`/`end_` cursors (`end_` may run up to `2*size_`). Operations: `write`, `read`, `read_offset`, `consume`. |
| SendBuffer | `tcp/send_buffer.{h,cpp}` | The sender: `sendSYN`, `sendData`, `sendFIN`, `acknowledge`, `transmit`, `retransmit`. Owns a RingBuffer, the `bytes_in_flight_` counter and a retransmission Alarm. |
| ControlBlock | `tcp/control_block.h` | Sequence variables. Comparisons are relative to `send.initial` in wrapping `uint32_t` arithmetic. |
| SocketSession | `tcp/socket_session.{h,cpp}` | The TCP state machine: `open()`, `open(seg)`, `close()`, `onSegmentArrival`. Most segment handlers are still LAB stubs. |
| Alarms, EpollServer | `base/alarm.cpp`, `base/epoll_*`, `util/mock_alarm_factory.cpp` | Timer objects and the event loop that fires them. |
| POSIX layer | `posix/*` | ProtocolStack (socket/bind/listen/connect/write/close under one mutex), SocketStruct (wait/notify), and the Listen, Segment and Reset dispatchers. |
| Segment codec, checksum | `tcp/segment*.cpp`, `base/data_*`, `base/checksum.cpp` | Wire format. |
| IP, ether | `ip/*`, `ether/*` | The IP receive path, routing (mostly stubs) and pcap devices. |
| Addresses | `tcp/socket_address.cpp`, `ip/ip_address.cpp`, `ether/mac_address.cpp` | Socket, IP and MAC address values and their conversions. |
| RandGenerator, TimeBase | `base/rand_generator.cpp`, `base/time_base.h` | The stack's Park-Miller generator (ports, ISNs) and the microsecond time type. |
| Exit hook | `eval/clean_up.c` | A destructor that closes every socket at exit and waits for the stack to drain. |

The application calls into ProtocolStack. ProtocolStack drives a SocketSession, which
sends segments through its SendBuffer. The IP layer delivers incoming segments
through the dispatcher chain back to a session. Alarms fired from the epoll loop run
`SendBuffer::retransmit`.

## Modules

- **`RingBufferOps`**: the ring as a record `[size, begin, end, slots]`. Each method is an operator:
  - `Write` is `write`;
  - `Read` is `read`;
  - `ReadOffset` is `read_offset`;
  - `Consume` and `Advance` are `consume`.

  Bytes that were never written are the model value `Blank`.
- **`RingBuffer`**: arbitrary sequences of calls on one ring. Its actions are `DoWrite`, `DoRead`, `DoConsume` and `DoReadOffset`.
  - **`ByteFifo`** is the abstract promise of spec.md 4.5, a bounded FIFO.
  - `RingBuffer` instantiates `ByteFifo` through a refinement mapping (`FifoRefinement`).
  - **`MC_RingBuffer`** sets the bounds.
- **`SendBuffer`**: the SendBuffer object together with the send half of its ControlBlock, as one record. Each public method is an operator that returns:
  - the new object;
  - the segments handed to the IP layer, in order;
  - the return value;
  - whether a `sendSegment` failed.

  `transmit`'s while loop is the recursive `TransmitLoop`. `acknowledge` is split into its four steps (`AckSYN`, `AckData`, `AckAlarm`, `AckFIN`), composed in the code's order. The arithmetic keeps its width:
  - sequence numbers wrap at `SeqSpace` (the code's `uint32_t`);
  - `bytes_in_flight_` wraps at `SizeSpace` (the code's `size_t`).
- **`TcpSender`**: one SendBuffer in its environment.
  - **Application:** open, either active or passive (a passive open records that the peer's SYN was received), then `sendData` of consecutive stream bytes and `close`.
  - **Event loop:** fires the armed retransmission alarm (`Fire`).
  - **Network:** loses segments and ACKs, bounded by `MaxLoss`, and reorders them: any of the oldest `Window` packets can arrive next.
  - **Peer:** a cumulative-ACK receiver.
  - **ACK filter:** the session handlers that would call `acknowledge` are stubs, so ACKs reach it through `AckAcceptable`, which is the precondition its DCHECKs state.
- **`SocketSession`**: the connection state machine over a SendBuffer. Its actions are:
  - `Open`, the active open;
  - `PassiveOpen`, which is `open(seg)`;
  - `SegmentArrives`, the empty `onSegmentArrival` switch;
  - `Close`, the `close()` switch without the `LOG(FATAL)` cases;
  - `Fire`, the alarm.
- **`ProtocolStack`**: the POSIX layer with its threads. Application threads (`Threads`) make socket calls on descriptors `socket()` handed out. The event-loop thread alternates between `Receive` (`runReadEvent`: a packet dispatched under `mutex_`, or a timeout) and `FireAlarms` (`runAlarmEvent`, without the mutex).
  - **Construction:** every `__wrap_*` call goes through `getInstance`. `InstanceCheck` is its test of the static pointer without `mtx`; `InstanceLock` repeats it under `mtx`, constructs the stack and starts the loop thread (`loopPc` leaves `"none"`); `InstancePublish` stores the pointer. Once published the pointer never changes, so later calls skip the test (`Enter`).
  - A call is split where the code lets another thread in: `Call` (entry through `__wrap_*`), `OwnFD` (read without the mutex), `Locked` (the mutex taken, `lookupStruct`, and the body of `_bind`, `_listen`, `_connect`, `_accept`, `_write` or `_close`).
  - `_socket` has no mutex: `SocketDup` (`dup(null_fd_)`, lowest free descriptor or -1) and `SocketInsert` (the `rand()` draw of the port, a read and write of `rng`, and the `fd_set_` write) are separate steps.
  - `_connect` holds the mutex across `Register`, the step in which the SendBuffer's alarm enters `alarm_map_` and `open()` draws the ISN from the same generator.
  - `Wake` and `Relock` are `cond_.wait` returning (notified or spuriously) and reacquiring the mutex. Nothing ever calls `signalUser`, so `message_` stays 0 and `_accept`/`_write` wait again.
  - `Dispatch` is the chain: `SegmentLookup` (first entry of `established_` whose addresses are `==`), then `ListenLookup` (port equal and the listener's IP `INADDR_ANY` or equal) and `ListenDispatch` (backlog test, new LISTEN session, `addSession`, `notify_one`), then `ResetReply`, which is the incoming segment, as the code sends it.
  - **Addresses** are the values of module `SocketAddress`: `bind` stores `SocketAddress(sockaddr*, len)` of its argument, `connect` converts the peer's `sockaddr_in`, and a new struct is bound to the default device's IP and the drawn port. The model assumes a default device with address `DefaultIP`; in this build `DeviceManager::addDevice` is a stub, so `getDefaultIP` dereferences a null device on every `socket()`.
  - **Exit:** `CleanUp` is `clean_up.c`'s destructor, run once after the last call (through `getInstance` too), `CloseAllFDs` its `closeAllFDs` loop of `_close` calls, and `CanClose` the wait for `canClose()` (`garbage_` empty). `Terminated` stutters after the exit.
  - `kfds` are the descriptors `dup` returned and nobody closed; `structs` keeps destroyed SocketStructs so a dangling reference can be seen.
- **`Alarm`**: the alarms of the program under either factory, chosen in `Init` as `driver`.
  - **Alarm state:** `deadline` (`TimeZero`, the uninitialised `TimeBase`, means unset) and `token` per alarm. `amap` is `alarm_map_`, a set of entries `[id, key, alarm]`. `Begin` orders it by key, then by insertion id, as `std::multimap` does.
  - **Alarm operations:** `Set`, `Cancel`, `Update` (with the 1 ms granularity test) and `Fire` are the `Alarm` methods. `SetImpl` and `CancelImpl` are the factories' `registerAlarm` and `unregisterAlarm`.
  - **Delegates:** `ProbeDelegate` is `IPLayer::sendProbePacket`, which calls `update(now + 3 s)`. `RetransmitDelegate` is `SendBuffer::retransmit`, which calls `set(now + 1 s)`.
  - **Alarm sources:** the IP layer's probe alarm is set in `Init`, as the `IPLayer` constructor does under the epoll factory, one probe interval after `StartClock`: the `EpollServer` constructor already ran `updateNow`, so the clock starts at `Clock(Real0)`, not 0 (the mock factory starts at 0). `NewSendBuffer` is the SendBuffer constructor's `set`. `Acknowledge` is `acknowledge`'s `update` (nothing in flight) or `cancel` (FIN acked). The model enables it although no code calls `acknowledge` yet.
  - **Mock factory:** `Elapse` is `MockAlarmFactory::elapse`, the recursive `ElapseLoop` stepping through `RunAlarmEvent`.
  - **Epoll factory:** the loop is `LoopUpdate` (`updateNow`'s `Clock` of the wall time `real`, and the `epoll_wait` timeout from `Incoming`), then `LoopWait` (`runReadEvent`, in which acknowledgements may arrive), then `LoopAlarms` (`runAlarmEvent` with the `now_` computed before the wait). `Tick` advances the wall time. The poll timeout is `EventLoopTimeout`, the 1000 ms that `ProtocolStack::startEventLoop` passes to every `runEventLoop`.
- **`RandGenerator`**: `Rand` is `RandGenerator::rand()`, the Park-Miller step computed, as the code does, from the low 15 and high 16 bits of `rand_` without a 64-bit product (TLC's integers are 32-bit, so the high product is split into bytes). `RandRange` and `PortDraw` are `rand(lower, upper)` and `_socket`'s port. The reference `LehmerStep` is the product modulo 2^31 − 1 by recursive doubling (`MulMod`).
- **`TimeBase`**: the conversions and operators of `TimeBase` and `TimeBase::Delta` the code uses. The conversions are `fromSeconds`, `fromMilliseconds`, `toMilliseconds` (truncating toward zero), `toMicroseconds`, `zero` and `isInitialized`. The operators are Delta `<`, `>` and `-`, and Time `<`, `>=`, `+ Delta` and `- Time`. `Alarm` and `MC_Alarm` use them everywhere the code does, e.g. `DeltaMin` is the `std::min` of `MockAlarmFactory::elapse`. All values are `int64_t` microseconds far below 2^63, so none of them wraps.
- **`SocketAddress`**: `IPAddress` (V4 and unspecified; no constructor makes V6), its `==` (two unspecified addresses are always equal) and `isInaddrAny`; `SocketAddress` and its `==`; and the two constructors from a `sockaddr`, whose length and family checks leave the default address (unspecified, port 0) on a bad argument.
- **`SegmentCodec`**: the wire format, byte by byte: `DataWriter`/`DataReader` (refused reads and writes leave the cursor), the Internet checksum (`Fold` of 16-bit words with the carry folded back once, the odd trailing byte, the pseudo-header), `writeSegmentTo`, `parse` (header fields, data offset, the borrowed payload view) and `copyData`. `DebugBuild` says whether `DCHECK` evaluates its argument: with `NDEBUG` it does not, and two statements of this code have their effect inside a `DCHECK`.
- **`SegmentPath`**: the path of a segment through the tests' mock IP layer. `SegmentFactory::createSegment` builds it, `SendBuffer::sendSegment` writes it into its stack buffer `frame`, and `MockIPLayer::sendPacket` parses it back, copies the payload and queues it (up to `kMaxQueueLength`); `PopSegment` is the test taking the oldest one. `sendSegment` passes `sendPacket` the SendBuffer's own `source_` and `destination_` (`BufferSource`, `BufferDestination`). Nothing calls `setSource` or `setDestination`, so both are `IPAddress()`, IP_UNSPEC, and so are the parsed segment's addresses.
- **`FrameReceive`**: the inbound path of a frame: `Device::decodeFrame` (destination filter, the peer MAC learnt from the first accepted frame, the EtherType dispatch) and `IPLayer::onReceive` (version test, header reads, `subtractTTL` decrementing the TTL in place). Frames are built from small sets of MACs, types, version bytes, TTLs and protocols with a correct header checksum. What `onReceive` does after the TTL test is a stub, so no packet reaches the dispatchers; `ProtocolStack`'s `Receive` stands for the packets a finished IP layer would deliver.

## Runs

Runs marked *violation* reproduce a disagreement between the code and what spec.md or a test says. Each one has a finding in `PROJECT.json`.

| Run | Checks | Result |
|---|---|---|
| `ring_safety` | The cursors stay in range across every wrap: `begin_ < size_` and `begin_ <= end_ <= begin_ + size_`. | pass |
| `ring_fifo` | The ring refines the bounded FIFO of spec.md 4.5. | violation: a `write` while `end_ >= size_` returns its length but does not advance `end_` (ring_buffer.cpp:44). |
| `sender_safety` | Outstanding data always has an armed alarm. `send.unack <= peer.rcvNxt <= send.next`. A sent SYN is eventually ACKed. What the ring holds is eventually acknowledged and consumed, through retransmission after a failed send or data buffered before the SYN's ACK; bytes the ring write bug reports but never stores are not in the ring, so this property does not see them (that loss is `ring_fifo`'s, and the stalled FIN it causes is a hazard). | pass: holds with losses, reordering, failed sends and retransmissions, for active and passive opens, streaming 4 bytes through a 2-byte ring. |
| `sender_cap` | `bytes_in_flight_` stays at or below `kMaxBytesInFlight`. | violation: the loop reads a full MSS after short segments. |
| `protocol_safety` | Pending queues stay within their backlog, a peer never gets two half-open sessions, and `rand()`'s 32-bit split computation equals the Park-Miller step `rand_ * 48271 mod (2^31 - 1)` on every state the generator reaches and on `RandInputs`. This is arithmetic only: the unlocked draw in `_socket` racing `open()`'s draw is what `protocol_races` shows. | pass |
| `protocol_dangling` | Every SocketStruct referred to by the ListenDispatcher or by a thread in a call exists. | violation: `_close` never removes a listener, and can run between another call's `ownFD` and `lookupStruct` or under a thread waiting on the struct's `cond_`. |
| `protocol_races` | `getInstance`'s pointer, `fd_set_`, the generator and `alarm_map_` are touched by one thread at a time (spec.md 5). | violation: the first shortest trace is `getInstance`'s unlocked test of the pointer while another thread publishes it (protocol_stack.cpp:52); `_socket` also writes `fd_set_` and `rand_` without the mutex, and `_connect` registers an alarm during `runAlarmEvent`. |
| `alarm_safety` | Under both factories, `alarm_map_` holds exactly one entry per set alarm, keyed by its deadline. `set` is never called on a set alarm. Alarms fire only when due, in deadline order, and exactly on time under `elapse`. `incomingAlarm` never sees an empty map. Under the epoll loop, an alarm that is due on the wall clock eventually fires, unless it is cancelled or moved first (`DueAlarmsFire`). | pass: 237,202 states; the liveness property needs the loop's fairness. Its mutant, a loop that polls without `updateNow`, never sees a due alarm. |
| `wire_safety` | A segment built by `createSegment`, sent through `sendSegment` and parsed back by the mock IP layer has the ports, sequence and acknowledgment numbers, flags, window and payload it was built with (its IP addresses are IP_UNSPEC, since the bytes do not carry them and the SendBuffer never sets its own), and its checksum verifies, across sequence numbers at the sign bit and odd and even payloads (debug build). | pass |
| `wire_release` | The same checksum property with `NDEBUG`. | violation: `Checksum::addIPAddress` writes the address into the pseudo-header inside `DCHECK` (checksum.cpp:38), so in a release build the pseudo-header sums zeros and the checksum the receiver computes differs. |
| `frame_safety` | A frame is dropped or dispatched as a reference reading of its destination, EtherType, version and TTL fields says (our MAC or broadcast, IPv4, version 4, TTL above 0), the learnt peer MAC is never the broadcast address, a dispatched packet's protocol and addresses are its header's, and `subtractTTL` decrements the TTL by one and changes nothing else outside the checksum. The header checksum is neither verified nor updated by the code; the property does not constrain it, and the stale checksum is a hazard. | pass |
| `session_closed` | A CLOSED session sends nothing. | violation: after `close()` from SYN_SENT, the alarm keeps resending the SYN. |

The model also reaches disagreements and hazards that have no run of their own; they are listed as hazards in `PROJECT.json`:
- the reset responder echoes the incoming segment instead of an RST;
- a failed `dup` stores descriptor -1;
- two sockets sharing an address pair get their segments delivered to the older session;
- a socket bound to `INADDR_ANY` that then connects is registered in `established_` under 0.0.0.0, so the peer's replies, addressed to the device's IP, never match `SegmentLookup` and go to the reset responder;
- `bytes_in_flight_` wraps when the FIN is acknowledged, and after the ring bug the FIN is never sent (both in `TcpSender`, reachable with the cap run's bounds);
- a passive open never answers the SYN, because `onSegmentArrival_LISTEN` is a stub.
- in a release build `Segment::parse` never reads the window, which stays 0 (it is read inside `DCHECK`, segment.cpp:57);
- `subtractTTL` decrements the TTL without updating the header checksum, and `onReceive` never verifies it.

The `Alarm` model also reproduces a cost of `updateNow`'s clock, `tv_usec / 1000 + tv_sec * 10^6`. The clock is monotonic, but within a second it advances in milliseconds added to a microsecond count. An alarm set at 10.5 s of wall time is keyed 11000500. At 11.0 s `incomingAlarm` reports 500 µs, so `epoll_wait` gets a 0 ms timeout and the loop spins until 11.5 s. Alarms still fire in order and never early against `now_`, because every delay the code uses is whole seconds. `now_` is also stale by up to one second once `epoll_wait` returns. Both points are hazards in `PROJECT.json`.

## Bounds and why they are enough

The scaled values are:

| Constant | Value | Real code |
|---|---|---|
| `SeqSpace` | 16 | 2^32 |
| `SizeSpace` | 64 | 2^64 |
| `MSS` | 2 | |
| `MaxBytesInFlight` | 4 | two segments, as in the code's 10 × MSS |
| `BufferSize` | 2–5 | |

Why these bounds are enough:
- **Sequence wrap:** the ISN is 14, so every run crosses the sequence wrap at 16. This exercises the modular comparisons.
- **Ring wrap:** `MaxStream` exceeds `BufferSize`, so the ring wraps and reaches `end_ >= size_`.
- **Cap run:** it uses `BufferSize > MaxBytesInFlight`, which is the real ratio (256 KB against 14600).
- **Reordering:** `Window` = 2 already lets an old ACK overtake a new one. Unbounded reordering adds no new orderings of two packets, but it makes the state space explode.
- **Failures:** one loss or one failed send (`MaxLoss` = 1) is enough to reach every recovery path: SYN resend, data resend and `bif` reset.

For `ProtocolStack` (`MC_ProtocolStack`):
- two application threads, which is the least that can race;
- descriptors {3, 4}, so a third `socket()` exhausts them;
- the port set is the first port the seeded generator draws (56045), and the one `bind` argument is `INADDR_ANY` at that port, so `rand()` and `bind()` collide as they do in the code, where `bind` checks nothing;
- the default device's IP is 10.0.0.1 and peers send from port 10086, so addresses are real `SocketAddress` values and the `INADDR_ANY` matching of `ListenLookup` is exercised;
- two peers, so one listener can queue two sessions;
- `listen` backlogs 0 (made 1) and 2, so both the full and non-full queue are reached;
- segments of kind SYN, the one kind whose handling differs in this layer;
- `MaxCalls` = 5 calls in total for `protocol_dangling` and `protocol_races`, enough for socket, listen and close plus two more; 4 for `protocol_safety`, which keeps it under five minutes (250,260 states);
- symmetry over threads and peers.

For `Alarm` (`MC_Alarm`):
- one probe alarm and two retransmission alarms (no symmetry: the run checks a liveness property, for which TLC's symmetry reduction is unsound);
- times in microseconds, as `TimeBase` is;
- epoll: wall time from 13.5 s to 17.5 s in 0.5 s steps; the clock starts where `EpollServer`'s constructor read it. The half seconds give keys off the whole second, and 4 s covers a probe firing and re-arming itself;
- mock: `elapse` of 1 s (the tests' step) and 3.6 s (one step that crosses several deadlines), up to 5 s;
- `MaxOps` = 4 alarm operations from SendBuffers.

For `SegmentPath` (`MC_SegmentPath`): sequence numbers 0 and 2^31 − 1 (the sign bit of the `uint32_t` field), one acknowledgement number, payloads of 0, 1 and 2 bytes (odd and even checksum tails, a 0xFF byte for the carry), a 22-byte frame buffer, a queue of 2 and one garbage byte pattern for the uninitialised stack buffer.

For `FrameReceive` (`MC_FrameReceive`): our MAC, broadcast and a third station as destinations; a peer, a third station and broadcast as sources; IPv4, ARP and IPv6 EtherTypes; version bytes 0x45 and 0x65; TTLs 0, 1 and 64 (the boundaries of `subtractTTL`); TCP and an experimental protocol. Identification and fragment words differ from every field `onReceive` reads, so a read at a wrong offset shows.

## Fairness

The event loop fires every due alarm, and the network eventually delivers the oldest packet in each direction. Both are weak fairness, written out as `<>[]P => []<><<A>>_vars` with `P` the enabling condition as a state predicate. This keeps TLC from re-evaluating the recursive handlers under ENABLED. In `Alarm`, the three steps of the epoll loop (`LoopUpdate`, `LoopWait`, `LoopAlarms`) are weakly fair, each under `LoopAt(pc)`. The loop is a thread of its own that runs `runEventLoop` in a `for(;;)`, and `epoll_wait` returns at its timeout whether or not a packet arrives, so each step is taken once the loop reaches it. Neither the tests' `elapse` nor the SendBuffer's calls are assumed.

`ProtocolStack`, `SegmentPath` and `FrameReceive` check safety only. `std::mutex` and `condition_variable` promise no fairness, and a thread in `_accept` or `_write` waits forever by design.

The application is not assumed to call anything. `Terminated` is the stuttering step once the FIN is acknowledged and the network is empty, so the runs keep deadlock checking on.

## Not modelled (yet)

These parts are not modelled:
- **Event loop details:** the epoll descriptor callbacks (`registerFD`, `cb_map_`) and the alarm destructors, which cancel only at teardown.
- **POSIX layer:** `_read` (empty) and `_getaddrinfo` (a pass-through to libc). `SocketStruct::onMessage` and `isErrorMessage`: nothing calls `signalUser`, so no message is ever posted.
- **Devices:** `DeviceManager::addDevice` is a LAB stub, so the device list is always empty. `findDevice`, `findDefaultDevice`, `setCallback`, `broadcastFrame` and `hasIpAddress` then have nothing to act on. `getDefaultIP` dereferences the `nullptr` that `findDefaultDevice` returns. `ProtocolStack` instead assumes a default device (`DefaultIP`), so that the layer above can be checked.
- **Session handlers:** `onSegmentArrival` has an empty switch, so `onSegmentArrival_LISTEN`, the one handler with code, is never called. The `SocketSession` model keeps the empty dispatch rather than modelling unreachable code.
- **Stubs with no behaviour to check:** the routing table (`DistVec`, whose `uint8_t` distances would wrap, is never filled), `IPLayer`'s send path and everything after `onReceive`'s TTL test, and the session's `send`/`receive` and segment handlers (`onSegmentArrival_LISTEN` and the others). They become worth modelling when they are implemented.
- **Out of TLC's scope:** device I/O (`fromDeviceName`, `activateDevice`, pcap capture and injection), `setns` and the evaluation programs under `eval/` other than the exit hook, and address formatting and parsing of strings.

Much of `src/` is such stubs, headers, logging and I/O, which is why the map covers only part of the implementation's lines: what is left is code with no state change to model.

The hazards in `PROJECT.json` that have no property carry a note saying why. Most are reached by the models but are violations that need a run of their own. The others sit behind stubs (the session handlers, `IPLayer`'s forwarding and protocol switch).

The map covers about 28% of the implementation's lines. The rest is LAB stubs, code that these stubs make unreachable, headers, logging, and pcap/ioctl/epoll I/O. None of it has a state change that TLC can check faithfully.
