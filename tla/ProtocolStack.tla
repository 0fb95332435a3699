---------------------------- MODULE ProtocolStack ----------------------------
(***************************************************************************)
(* The POSIX layer (src/posix/protocol_stack.cpp, socket_struct.cpp and    *)
(* the three dispatchers) with the threads that run it: application        *)
(* threads making socket calls and the event-loop thread started by        *)
(* getInstance, which polls for packets (onReceivePacket, under mutex_)     *)
(* and then fires due alarms (EpollServer::runAlarmEvent, without it).     *)
(*                                                                         *)
(*   kfds         descriptors dup()ed from null_fd_ and not closed          *)
(*   fdSet        fd_set_: descriptor -> SocketStruct id                   *)
(*   structs      every SocketStruct ever made, by id; one no longer in     *)
(*                fdSet has been destroyed                                  *)
(*   sessions     every SocketSession ever made, by id: [state, local,      *)
(*                peer]; sessions are never destroyed (garbage_ keeps them) *)
(*   established  SegmentDispatcher::established_: <<local, peer, sid>>    *)
(*   listeners    ListenDispatcher::vector_: <<address, struct id>>        *)
(*   garbage      ProtocolStack::garbage_                                  *)
(*   holder       the thread holding mutex_ across two steps, or None      *)
(*   pc, loc      each application thread's place in its call and the     *)
(*                call's arguments; loopPc the event loop's place           *)
(*   lastReset    the last segment ResetDispatcher answered and its answer *)
(*   rng          rand_generator_'s rand_, shared by _socket (no mutex) and *)
(*                the sessions' open() (under mutex_)                       *)
(*   instance,    getInstance's static pointer (set or not) and the       *)
(*   instMtx      thread holding its static mtx; loopPc is "none" until   *)
(*                the stack's constructor has started the event loop      *)
(*                                                                         *)
(* A step that takes mutex_ and releases it before the next step is one    *)
(* action enabled while no thread holds the mutex.  Addresses are the      *)
(* SocketAddress values of module SocketAddress; the layer is assumed to   *)
(* have a default device (getDefaultIP dereferences findDefaultDevice(),   *)
(* which is null while DeviceManager::addDevice is a stub), whose address  *)
(* DefaultIP segments are sent to.  SocketSession's handlers are the stubs of *)
(* socket_session.cpp: onSegmentArrival changes nothing, send() returns    *)
(* an indeterminate value (it flows off its end) and signalUser, hence     *)
(* SocketStruct::onMessage, is never called.                               *)
(***************************************************************************)
EXTENDS Integers, Sequences, FiniteSets, Functions, TLC, RandGenerator, SocketAddress

CONSTANTS
  Threads,    \* application threads
  FDs,        \* descriptors dup() may return, lowest first
  Ports,      \* local ports segments are sent to
  BindAddrs,  \* the sockaddrs bind() is given
  DefaultIP,  \* the address of the default device (getDefaultIP)
  Remotes,    \* the peers' IP addresses
  PeerPort,   \* the peers' port, which connect() is given
  Backlogs,   \* backlog arguments of listen()
  Kinds,      \* kinds of incoming segment
  MaxCalls,   \* socket calls the application threads make in total
  RandInputs, \* values of rand_ the generator is checked on
  None

VARIABLES kfds, fdSet, structs, sessions, established, listeners, garbage,
          holder, pc, loc, calls, handed, loopPc, lastReset, rng,
          instance, instMtx

\* getInstance's statics: the `instance' pointer (set or not) and the
\* thread holding `mtx'.
instVars == <<instance, instMtx>>

vars == <<kfds, fdSet, structs, sessions, established, listeners, garbage,
          holder, pc, loc, calls, handed, loopPc, lastReset, rng, instance, instMtx>>

Ops == {"socket", "bind", "listen", "connect", "accept", "write", "close"}

\* Ids of the SocketStructs that have not been destroyed.
Live == Range(fdSet)

Init ==
  /\ kfds = {} /\ fdSet = <<>> /\ structs = <<>> /\ sessions = <<>>
  /\ established = <<>> /\ listeners = <<>> /\ garbage = {}
  /\ holder = None
  /\ pc = [t \in Threads |-> "idle"]
  /\ loc = [t \in Threads |-> [op |-> None, fd |-> None, arg |-> None, st |-> None]]
  /\ calls = 0
  /\ handed = {}
  /\ loopPc = "none"
  /\ lastReset = None
  /\ rng = 19260817   \* rand_generator_(19260817)
  /\ instance = FALSE /\ instMtx = None

\* The argument a call takes besides the descriptor.
Args(op) == CASE op = "bind"    -> BindAddrs
              [] op = "listen"  -> Backlogs
              [] op = "connect" -> {SockAddrIn(r, PeerPort) : r \in Remotes}
              [] OTHER          -> {None}

\* SegmentDispatcher::addSession and ListenDispatcher::addListener append
\* to their vectors; nothing is checked for a duplicate.
AddSession(est, local, peer, sid) == Append(est, <<local, peer, sid>>)
AddListener(ls, target, id) == Append(ls, <<target, id>>)

Goto(t, label) == pc' = [pc EXCEPT ![t] = label]

\* Where a call continues once getInstance has returned the stack.
Body(op) == CASE op = "socket"   -> "dup"
              [] op = "closeall" -> "closeall"
              [] OTHER           -> "own"

\* Entry to the stack: getInstance's unlocked test of `instance'.  Once the
\* pointer is published it never changes again, so the test of a call
\* made after that is taken with the call's first step.
Enter(t, op) == Goto(t, IF instance THEN Body(op) ELSE "getinst")

\* An application thread starts a call (__wrap_*) on a descriptor socket()
\* handed out.
Call(t) ==
  /\ pc[t] = "idle" /\ calls < MaxCalls
  /\ \E op \in Ops :
       /\ Enter(t, op)
       /\ \/ op = "socket"
             /\ loc' = [loc EXCEPT ![t] = [op |-> op, fd |-> None, arg |-> None, st |-> None]]
          \/ op # "socket"
             /\ \E fd \in handed, arg \in Args(op) :
                  loc' = [loc EXCEPT ![t] = [op |-> op, fd |-> fd, arg |-> arg, st |-> None]]
  /\ calls' = calls + 1
  /\ UNCHANGED <<kfds, fdSet, structs, sessions, established, listeners, garbage,
                 holder, handed, loopPc, lastReset, rng>>

\* getInstance's first test, of the plain static pointer and without mtx:
\* a stack already published is used at once.
InstanceCheck(t) ==
  /\ pc[t] = "getinst"
  /\ Goto(t, IF instance THEN Body(loc[t].op) ELSE "gilock")
  /\ UNCHANGED <<instance, instMtx, loopPc>>

\* The test repeated under mtx; the first thread to find no instance
\* constructs the ProtocolStack (its state is Init's) and starts the
\* event-loop thread (startEventLoop: runEventLoop(1000 ms) forever).
InstanceLock(t) ==
  /\ pc[t] = "gilock" /\ instMtx = None
  /\ IF instance
     THEN Goto(t, Body(loc[t].op)) /\ UNCHANGED <<instMtx, loopPc>>
     ELSE Goto(t, "publish") /\ instMtx' = t /\ loopPc' = "poll"
  /\ UNCHANGED instance

\* instance = rv, still under mtx, and the guard releases it.
InstancePublish(t) ==
  /\ pc[t] = "publish"
  /\ instance' = TRUE /\ instMtx' = None
  /\ Goto(t, Body(loc[t].op))
  /\ UNCHANGED loopPc

\* Mutant: the descriptor counted from the highest in use, past the range.
SocketDupPastRangeMut(t) ==
  /\ pc[t] = "dup"
  /\ LET fd == IF kfds = {} THEN CHOOSE f \in FDs : \A g \in FDs : f <= g
               ELSE 1 + CHOOSE f \in kfds : \A g \in kfds : f >= g
     IN  /\ loc' = [loc EXCEPT ![t].fd = fd]
         /\ kfds' = kfds \cup {fd}
  /\ Goto(t, "insert")
  /\ UNCHANGED <<fdSet, structs, sessions, established, listeners, garbage, holder,
                 calls, handed, loopPc, lastReset, rng>>

\* _socket, first half: dup(null_fd_) returns the lowest free descriptor,
\* or -1 once the process has none left.
SocketDup(t) ==
  /\ pc[t] = "dup"
  /\ LET free == FDs \ kfds
         fd   == IF free = {} THEN -1 ELSE CHOOSE f \in free : \A g \in free : f <= g
     IN  /\ loc' = [loc EXCEPT ![t].fd = fd]
         /\ kfds' = IF fd = -1 THEN kfds ELSE kfds \cup {fd}
  /\ Goto(t, "insert")
  /\ UNCHANGED <<fdSet, structs, sessions, established, listeners, garbage, holder,
                 calls, handed, loopPc, lastReset, rng>>

\* _socket, without mutex_: rand_generator_.rand(49162, 65536) steps rand_
\* (a read and a write no lock orders against open()'s draw); then
\* fd_set_[fd] = a new SocketStruct bound to the default IP and that port.
\* The descriptor is returned even when it is -1.
SocketInsert(t) ==
  /\ pc[t] = "insert"
  /\ LET fd   == loc[t].fd
         next == Rand(rng)
     IN  /\ rng' = next
         /\ structs' = Append(structs, [type |-> "UNSPECIFIED",
                                        addr |-> SockAddr(IPv4(DefaultIP), PortDraw(next)),
                                        backlog |-> 0, pending |-> <<>>, session |-> None])
         /\ fdSet' = [f \in DOMAIN fdSet \cup {fd} |->
                        IF f = fd THEN Len(structs) + 1 ELSE fdSet[f]]
         /\ handed' = handed \cup {fd}
  /\ Goto(t, "idle")
  /\ UNCHANGED <<kfds, sessions, established, listeners, garbage, holder, loc, calls,
                 loopPc, lastReset>>

\* Where a call returns to: closeAllFDs' loop for its own _close calls.
Return(t) == IF loc[t].op = "closeall" THEN "closeall" ELSE "idle"

\* ownFD(fd), read without mutex_: a descriptor this layer does not own
\* goes to the real call, which changes nothing modelled here.
OwnFD(t) ==
  /\ pc[t] = "own"
  /\ Goto(t, IF loc[t].fd \in DOMAIN fdSet THEN "lock" ELSE Return(t))
  /\ UNCHANGED <<kfds, fdSet, structs, sessions, established, listeners, garbage,
                 holder, loc, calls, handed, loopPc, lastReset, rng>>

\* The threads blocked in waitMessage on SocketStruct id.
Waiters(id) == {t \in Threads : pc[t] = "wait" /\ loc[t].st = id}

\* The session state SocketSession::close() leaves behind, for the states
\* a session of this layer can be in (no handler ever leaves them).
SessionClose(state) ==
  IF state \in {"CLOSED", "LISTEN", "SYN_SENT"} THEN "CLOSED" ELSE state

\* _bind under mutex_: the struct's bind_address is replaced by the
\* conversion of the sockaddr, whatever it gives; bind returns 0.
BindBody(t, id) ==
  /\ structs' = [structs EXCEPT ![id].addr = FromSockAddr(loc[t].arg)]
  /\ Goto(t, "idle")
  /\ UNCHANGED <<sessions, established, listeners, garbage, fdSet, holder, loc>>

\* _listen under mutex_, with backlog <= 0 already replaced by 1.
ListenBody(t, id) ==
  /\ IF structs[id].type # "UNSPECIFIED"
     THEN UNCHANGED <<structs, listeners>>
     ELSE /\ structs' = [structs EXCEPT ![id].type = "PASSIVE",
                                        ![id].backlog = IF loc[t].arg <= 0 THEN 1 ELSE loc[t].arg]
          /\ listeners' = AddListener(listeners, structs[id].addr, id)
  /\ Goto(t, "idle")
  /\ UNCHANGED <<sessions, established, garbage, fdSet, holder, loc>>

\* _connect under mutex_, up to the SocketSession constructor, whose
\* SendBuffer registers its retransmission alarm with the EpollServer.
ConnectBody(t, id) ==
  /\ IF structs[id].type # "UNSPECIFIED"
     THEN UNCHANGED <<structs, holder, loc>> /\ Goto(t, "idle")
     ELSE /\ structs' = [structs EXCEPT ![id].type = "ACTIVE"]
          /\ holder' = t
          /\ loc' = [loc EXCEPT ![t].st = id]
          /\ Goto(t, "register")
  /\ UNCHANGED <<sessions, established, listeners, garbage, fdSet>>

\* The rest of _connect: the alarm is in alarm_map_, the session is added
\* to the SegmentDispatcher, open() draws its ISN from rand_generator_ and
\* sends the SYN (SYN_SENT), setCallback, and the guard releases mutex_.
Register(t) ==
  /\ pc[t] = "register"
  /\ LET id   == loc[t].st
         sid  == Len(sessions) + 1
         peer == FromSockAddr(loc[t].arg)   \* peer_address
     IN  /\ sessions' = Append(sessions, [state |-> "SYN_SENT", local |-> structs[id].addr,
                                          peer |-> peer, passive |-> FALSE])
         /\ structs' = [structs EXCEPT ![id].session = sid]
         /\ established' = AddSession(established, structs[id].addr, peer, sid)
  /\ rng' = Rand(rng)
  /\ holder' = None
  /\ Goto(t, "idle")
  /\ UNCHANGED <<kfds, fdSet, listeners, garbage, loc, calls, handed, loopPc, lastReset>>

\* _accept under mutex_: a passive socket waits; its loop body is empty, so
\* every wakeup waits again.
AcceptBody(t, id) ==
  /\ IF structs[id].type # "PASSIVE"
     THEN Goto(t, "idle") /\ UNCHANGED loc
     ELSE Goto(t, "wait") /\ loc' = [loc EXCEPT ![t].st = id]
  /\ UNCHANGED <<structs, sessions, established, listeners, garbage, fdSet, holder>>

\* _write under mutex_: session->send() returns whatever its missing return
\* statement leaves; a positive count returns, zero waits for a message.
WriteBody(t, id) ==
  /\ IF structs[id].type # "ACTIVE"
     THEN Goto(t, "idle") /\ UNCHANGED loc
     ELSE \E sent \in BOOLEAN :
            IF sent THEN Goto(t, "idle") /\ UNCHANGED loc
            ELSE Goto(t, "wait") /\ loc' = [loc EXCEPT ![t].st = id]
  /\ UNCHANGED <<structs, sessions, established, listeners, garbage, fdSet, holder>>

\* _close under mutex_: the sessions are closed and moved to garbage_, the
\* SocketStruct is erased from fd_set_ (destroying it); the kernel
\* descriptor is not closed.
CloseBody(t, id) ==
  /\ LET st    == structs[id]
         owned == CASE st.type = "ACTIVE"  -> {st.session}
                    [] st.type = "PASSIVE" -> Range(st.pending)
                    [] OTHER               -> {}
     IN  /\ sessions' = [s \in DOMAIN sessions |->
                           IF s \in owned THEN [sessions[s] EXCEPT !.state = SessionClose(@)]
                           ELSE sessions[s]]
         /\ garbage' = garbage \cup owned
  /\ fdSet' = Restrict(fdSet, DOMAIN fdSet \ {loc[t].fd})
  /\ Goto(t, Return(t))
  /\ UNCHANGED <<structs, established, listeners, holder, loc>>

\* A call that passed ownFD takes mutex_ and looks its descriptor up; if
\* another thread closed it meanwhile, lookupStruct returns nullptr and the
\* call dereferences it.
Locked(t) ==
  /\ pc[t] = "lock" /\ holder = None
  /\ LET fd == loc[t].fd
     IN  IF fd \notin DOMAIN fdSet
         THEN Goto(t, "fault")
              /\ UNCHANGED <<structs, sessions, established, listeners, garbage, fdSet, holder, loc>>
         ELSE LET id == fdSet[fd]
              IN  CASE loc[t].op = "bind"    -> BindBody(t, id)
                    [] loc[t].op = "listen"  -> ListenBody(t, id)
                    [] loc[t].op = "connect" -> ConnectBody(t, id)
                    [] loc[t].op = "accept"  -> AcceptBody(t, id)
                    [] loc[t].op = "write"   -> WriteBody(t, id)
                    [] loc[t].op \in {"close", "closeall"} -> CloseBody(t, id)
  /\ UNCHANGED <<kfds, calls, handed, loopPc, lastReset, rng>>

\* cond_.wait returns, notified or spuriously.
Wake(t) ==
  /\ pc[t] = "wait"
  /\ Goto(t, "relock")
  /\ UNCHANGED <<kfds, fdSet, structs, sessions, established, listeners, garbage,
                 holder, loc, calls, handed, loopPc, lastReset, rng>>

\* cond_.wait reacquires mutex_; message_ was cleared by waitMessage and
\* nothing sets it, so neither _write's WRITABLE test nor isErrorMessage
\* holds and both loops wait again.
Relock(t) ==
  /\ pc[t] = "relock" /\ holder = None
  /\ Goto(t, "wait")
  /\ UNCHANGED <<kfds, fdSet, structs, sessions, established, listeners, garbage,
                 holder, loc, calls, handed, loopPc, lastReset, rng>>

-----------------------------------------------------------------------------
\* The labels of the exiting thread.
ExitLabels == {"closeall", "canclose", "exited"}

\* clean_up.c's destructor __clean_up runs on the thread that ends the
\* program, once, after the program's last call was made (the other
\* thread may still be in one): __destory_protocol_stack, closeAllFDs.
CleanUp(t) ==
  /\ pc[t] = "idle" /\ calls = MaxCalls
  /\ \A u \in Threads : loc[u].op # "closeall"
  /\ Enter(t, "closeall")
  /\ loc' = [loc EXCEPT ![t] = [op |-> "closeall", fd |-> None, arg |-> None, st |-> None]]
  /\ UNCHANGED <<kfds, fdSet, structs, sessions, established, listeners,
                 garbage, holder, calls, handed, loopPc, lastReset, rng>>

\* closeAllFDs: while fd_set_ (read without mutex_) is not empty, _close
\* the descriptor fd_set_.begin() names, the lowest; then the wait.
CloseAllFDs(t) ==
  /\ pc[t] = "closeall"
  /\ IF DOMAIN fdSet = {}
     THEN Goto(t, "canclose") /\ UNCHANGED loc
     ELSE /\ loc' = [loc EXCEPT ![t] = [op |-> "closeall", arg |-> None, st |-> None,
                                        fd |-> CHOOSE f \in DOMAIN fdSet :
                                                 \A g \in DOMAIN fdSet : f <= g]]
          /\ Goto(t, "own")
  /\ UNCHANGED <<kfds, fdSet, structs, sessions, established, listeners,
                 garbage, holder, calls, handed, loopPc, lastReset, rng>>

\* ProtocolStack::canClose(): garbage_ is empty.
CanCloseStack == garbage = {}

\* __clean_up's loop on __can_close_protocol_stack.  While it is
\* not, __clean_up sleeps 10 s and asks again (a step that changes
\* nothing); once it is, the destructor returns and the process ends.
CanClose(t) ==
  /\ pc[t] = "canclose" /\ CanCloseStack
  /\ Goto(t, "exited")
  /\ UNCHANGED <<kfds, fdSet, structs, sessions, established, listeners,
                 garbage, holder, loc, calls, handed, loopPc, lastReset, rng>>

\* The process has ended.
Exited == \E t \in Threads : pc[t] = "exited"

-----------------------------------------------------------------------------
\* Incoming segments: Segment::parse's destination_ and source_, the IP
\* layer's addresses with the segment's ports, and the segment's kind.
\* They are sent to the default device's address.
Segments == [dst : {SockAddr(IPv4(DefaultIP), p) : p \in Ports},
             src : {SockAddr(IPv4(r), PeerPort) : r \in Remotes},
             kind : Kinds]

\* Mutant: the address pair compared the wrong way round.
SegmentLookupSwappedMut(es, to, from) ==
  LET hits == {i \in DOMAIN es : SockAddrEqual(es[i][1], from) /\ SockAddrEqual(es[i][2], to)}
  IN  IF hits = {} THEN 0 ELSE CHOOSE i \in hits : \A j \in hits : i <= j

\* Index of the first entry of SegmentDispatcher::established_ for the
\* address pair (to, from), 0 if none (lookupSession).
SegmentLookup(es, to, from) ==
  LET hits == {i \in DOMAIN es : SockAddrEqual(es[i][1], to) /\ SockAddrEqual(es[i][2], from)}
  IN  IF hits = {} THEN 0 ELSE CHOOSE i \in hits : \A j \in hits : i <= j

\* Index of the first listener on port to, 0 if none
\* (ListenDispatcher::lookupSession).
ListenLookup(ls, to) ==
  LET hits == {i \in DOMAIN ls : /\ ls[i][1].port = to.port
                                 /\ \/ IsInaddrAny(ls[i][1].host)
                                    \/ IPEqual(to.host, ls[i][1].host)}
  IN  IF hits = {} THEN 0 ELSE CHOOSE i \in hits : \A j \in hits : i <= j

\* Mutant: the backlog test as `>'.
ListenDispatchOffByOneMut(seg, id) ==
  LET st  == structs[id]
      sid == Len(sessions) + 1
  IN  IF Len(st.pending) > st.backlog
      THEN UNCHANGED <<structs, sessions, established, pc>>
      ELSE /\ sessions' = Append(sessions, [state |-> "LISTEN", local |-> seg.dst,
                                            peer |-> seg.src, passive |-> TRUE])
           /\ structs' = [structs EXCEPT ![id].pending = Append(@, sid)]
           /\ established' = AddSession(established, seg.dst, seg.src, sid)
           /\ IF Waiters(id) = {} THEN UNCHANGED pc
              ELSE \E w \in Waiters(id) : pc' = [pc EXCEPT ![w] = "relock"]

\* ListenDispatcher::onReceivePacket for a listener's struct id: a full
\* pending queue drops the segment; otherwise a new session is opened on it
\* (open(seg): LISTEN and the empty dispatch), added to the
\* SegmentDispatcher, and one thread waiting on the struct is notified.
ListenDispatch(seg, id) ==
  LET st  == structs[id]
      sid == Len(sessions) + 1
  IN  IF Len(st.pending) >= st.backlog
      THEN UNCHANGED <<structs, sessions, established, pc>>
      ELSE /\ sessions' = Append(sessions, [state |-> "LISTEN", local |-> seg.dst,
                                            peer |-> seg.src, passive |-> TRUE])
           /\ structs' = [structs EXCEPT ![id].pending = Append(@, sid)]
           /\ established' = AddSession(established, seg.dst, seg.src, sid)
           /\ IF Waiters(id) = {} THEN UNCHANGED pc
              ELSE \E w \in Waiters(id) : pc' = [pc EXCEPT ![w] = "relock"]

\* ResetDispatcher::onReceivePacket: it builds an RST `response' but
\* serialises and sends the incoming `segment' itself.
ResetReply(seg) == seg

\* ProtocolStack::onReceivePacket under mutex_: the SegmentDispatcher, then
\* the ListenDispatcher, then the ResetDispatcher.  A session's
\* onSegmentArrival changes nothing.
Dispatch(seg) ==
  LET hit == SegmentLookup(established, seg.dst, seg.src)
      lst == ListenLookup(listeners, seg.dst)
  IN  CASE hit # 0 -> UNCHANGED <<structs, sessions, established, pc, lastReset>>
        [] lst # 0 -> ListenDispatch(seg, listeners[lst][2]) /\ UNCHANGED lastReset
        [] OTHER   -> lastReset' = [in |-> seg, out |-> ResetReply(seg)]
                      /\ UNCHANGED <<structs, sessions, established, pc>>

\* ProtocolStack::onReceivePacket: the chain, run once mutex_ is free (the
\* lock_guard is released when it returns).
OnReceivePacket(seg) == holder = None /\ Dispatch(seg)

\* The event loop's runReadEvent: epoll_wait returns a packet, which is
\* dispatched, or times out.
Receive ==
  /\ loopPc = "poll"
  /\ \/ \E seg \in Segments : OnReceivePacket(seg)
     \/ UNCHANGED <<structs, sessions, established, pc, lastReset>>
  /\ loopPc' = "alarms"
  /\ UNCHANGED <<kfds, fdSet, listeners, garbage, holder, loc, calls, handed, rng>>

\* runAlarmEvent and the next incomingAlarm read alarm_map_ and fire the due
\* alarms without mutex_; a retransmission resends a SYN at most, which
\* changes nothing modelled here.
FireAlarms ==
  /\ loopPc = "alarms"
  /\ loopPc' = "poll"
  /\ UNCHANGED <<kfds, fdSet, structs, sessions, established, listeners, garbage,
                 holder, pc, loc, calls, handed, lastReset, rng>>

\* After the exit nothing runs; the stuttering step keeps the end of the
\* program from counting as a deadlock.
Terminated == Exited /\ UNCHANGED vars

Next ==
  \/ /\ ~Exited
     /\ \/ \E t \in Threads :
             \/ Call(t) \/ SocketDup(t) \/ SocketInsert(t) \/ OwnFD(t)
             \/ Locked(t) \/ Register(t) \/ Wake(t) \/ Relock(t)
             \/ CleanUp(t) \/ CloseAllFDs(t) \/ CanClose(t)
        \/ Receive \/ FireAlarms
     /\ UNCHANGED instVars
  \/ /\ ~Exited
     /\ \E t \in Threads : InstanceCheck(t) \/ InstanceLock(t) \/ InstancePublish(t)
     /\ UNCHANGED <<kfds, fdSet, structs, sessions, established, listeners, garbage,
                    holder, loc, calls, handed, lastReset, rng>>
  \/ Terminated

Spec == Init /\ [][Next]_vars

-----------------------------------------------------------------------------
Labels == {"idle", "getinst", "gilock", "publish", "dup", "insert", "own", "lock",
           "register", "wait", "relock", "fault"} \cup ExitLabels
\* The socket addresses the layer can hold: bind()'s conversions, the
\* default device's address with a rand() port, and the peers'.
BindLocals == {FromSockAddr(sa) : sa \in BindAddrs}
PeerAddrs  == {SockAddr(IPv4(r), PeerPort) : r \in Remotes}

IsAddr(a) ==
  \/ a \in BindLocals \cup PeerAddrs
  \/ a.host = IPv4(DefaultIP) /\ (a.port \in Ports \/ a.port \in 49162 .. 65535)

IsStruct(st) ==
  /\ DOMAIN st = {"type", "addr", "backlog", "pending", "session"}
  /\ st.type \in {"UNSPECIFIED", "ACTIVE", "PASSIVE"} /\ IsAddr(st.addr)
  /\ st.backlog \in Nat /\ st.pending \in Seq(Nat) /\ st.session \in Nat \cup {None}

TypeOK ==
  /\ kfds \subseteq FDs
  /\ DOMAIN fdSet \subseteq FDs \cup {-1} /\ Live \subseteq DOMAIN structs
  /\ \A id \in DOMAIN structs : IsStruct(structs[id])
  /\ \A s \in DOMAIN sessions : IsAddr(sessions[s].local) /\ IsAddr(sessions[s].peer)
  /\ \A i \in DOMAIN established :
       IsAddr(established[i][1]) /\ IsAddr(established[i][2])
       /\ established[i][3] \in DOMAIN sessions
  /\ \A i \in DOMAIN listeners :
       IsAddr(listeners[i][1]) /\ listeners[i][2] \in DOMAIN structs
  /\ rng \in 1 .. Modulus - 1
  /\ garbage \subseteq DOMAIN sessions
  /\ holder \in Threads \cup {None}
  /\ pc \in [Threads -> Labels] /\ loopPc \in {"none", "poll", "alarms"}
  /\ instance \in BOOLEAN /\ instMtx \in Threads \cup {None}
  /\ calls \in 0 .. MaxCalls

\* Every passive socket's pending queue stays within its backlog: the
\* ListenDispatcher's size test runs before every push_back, whatever
\* listen() was given and however many peers send SYNs.
PendingWithinBacklog ==
  \A id \in DOMAIN structs :
    structs[id].type = "PASSIVE" => Len(structs[id].pending) <= structs[id].backlog

\* A peer's retransmitted SYN never opens a second half-open session: the
\* SegmentDispatcher, consulted before the ListenDispatcher, finds the
\* session the first SYN created, even after its socket was closed.
HalfOpenSessionsUnique ==
  \A i, j \in DOMAIN sessions :
    (i # j /\ sessions[i].passive /\ sessions[j].passive) =>
      <<sessions[i].local, sessions[i].peer>> # <<sessions[j].local, sessions[j].peer>>

\* Every SocketStruct something still refers to exists: a struct _close
\* destroys is no longer a listener of the ListenDispatcher (or the next SYN
\* to its port writes into freed memory), a call that passed ownFD still
\* finds its descriptor once it holds mutex_, and a thread blocked in
\* waitMessage sleeps on a condition variable that has not been destroyed.
StructsAreLive ==
  /\ \A i \in DOMAIN listeners : listeners[i][2] \in Live
  /\ \A t \in Threads :
       /\ pc[t] = "lock" => loc[t].fd \in DOMAIN fdSet
       /\ pc[t] \in {"wait", "relock"} => loc[t].st \in Live

\* The shared state is only touched by one thread at a time (spec.md 5: one
\* mutex serialises socket calls, packet arrival and alarm firing):
\* fd_set_ is not read (by ownFD or closeAllFDs' loop) while _socket
\* inserts into it; rand_generator_ is not drawn from by _connect's open()
\* while _socket is between reading rand_ and writing it back; and
\* alarm_map_ does not gain _connect's retransmission alarm while
\* runAlarmEvent walks it; and getInstance's `instance' is not tested
\* without mtx while the constructing thread stores it.
SerialisedBehindMutex ==
  /\ LET writers == {t \in Threads : pc[t] = "insert"}
         readers == {t \in Threads : pc[t] \in {"own", "lock", "closeall"}}
     IN  writers = {} \/ (Cardinality(writers) = 1 /\ readers = {})
  /\ ~((\E t \in Threads : pc[t] = "insert") /\ (\E u \in Threads : pc[u] = "register"))
  /\ ~(loopPc = "alarms" /\ \E t \in Threads : pc[t] = "register")
  /\ ~((\E t \in Threads : pc[t] = "publish") /\ (\E u \in Threads : pc[u] = "getinst"))

\* rand() steps the stack's generator as Park and Miller's generator does,
\* rand_ * 48271 mod (2^31 - 1), from the state it is in and from each of
\* RandInputs: the split into 15 and 16 bits, the byte-wise high product
\* and the fold of bit 31 lose no carry.
RandIsParkMiller ==
  \A r \in RandInputs \cup {rng} : Rand(r) = LehmerStep(r)
=============================================================================
