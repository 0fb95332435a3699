-------------------------------- MODULE Alarm --------------------------------
(***************************************************************************)
(* The timer subsystem: Alarm (src/base/alarm.cpp), registered in the      *)
(* deadline-ordered std::multimap of its factory, and the two clocks that  *)
(* drive it.                                                               *)
(*                                                                         *)
(*   "epoll": EpollServer's event loop (runEventLoop: updateNow,          *)
(*            incomingAlarm, epoll_wait, runAlarmEvent), whose clock is    *)
(*            computed from gettimeofday by updateNow;                     *)
(*   "mock":  MockAlarmFactory, the virtual clock of the tests, advanced   *)
(*            by elapse().                                                 *)
(*                                                                         *)
(* The alarms are those the code creates: the IPLayer's probe alarm (made  *)
(* in the IPLayer constructor; its delegate sendProbePacket re-arms it     *)
(* with update) and SendBuffer retransmission alarms (set by the           *)
(* SendBuffer constructor, re-armed by retransmit with set, updated and    *)
(* cancelled by acknowledge).                                              *)
(*                                                                         *)
(*   now       the factory's clock (TimeBase, microseconds)                *)
(*   real      wall-clock time in microseconds (epoll only)                *)
(*   deadline  each alarm's deadline_, 0 when not set                      *)
(*   token     each alarm's token_: the id of the map entry it registered  *)
(*   amap      alarm_map_: entries [id, key, alarm]; ids grow with each    *)
(*             emplace, so among equal keys the older entry comes first    *)
(*   regs      the number of emplaces so far                               *)
(*   created   the alarms constructed so far                               *)
(*   loopPc    the event loop's place in runEventLoop; waitUntil the       *)
(*             wall-clock time its epoll_wait times out                    *)
(*   fired     the alarms fired by the last runAlarmEvent or elapse, with  *)
(*             their map key and the clock when they fired                 *)
(*   armedSet  whether set() has been called on an armed alarm             *)
(***************************************************************************)
EXTENDS Integers, Sequences, FiniteSets, TLC, TimeBase

CONSTANTS
  Alarms,       \* alarm objects
  Role,         \* Role[a] \in {"probe", "retransmit"}: whose alarm a is
  Second,       \* TimeBase::Delta::fromSeconds(1) in microseconds
  Rto,          \* SendBuffer's fixed retransmission timeout
  Probe,        \* IPLayer::probeInterval()
  Granularity,  \* update()'s default granularity, one millisecond
  Quantum,      \* the wall-clock step between states of the epoll model
  Real0,        \* the wall-clock time at which the stack starts
  MaxReal,      \* the last wall-clock time explored
  ElapseSteps,  \* the deltas the tests pass to elapse()
  MockHorizon,  \* the last virtual time explored
  MaxOps        \* calls of SendBuffer code the model makes

VARIABLES driver, now, real, deadline, token, amap, regs, created,
          loopPc, waitUntil, fired, armedSet, ops

vars == <<driver, now, real, deadline, token, amap, regs, created,
          loopPc, waitUntil, fired, armedSet, ops>>

Abs(x) == IF x < 0 THEN -x ELSE x
\* std::min of two Deltas: the second only when it is less than the first.
DeltaMin(a, b) == IF DeltaLess(b, a) THEN b ELSE a

\* The alarm state the Alarm methods act on, as one record.
St == [deadline |-> deadline, token |-> token, amap |-> amap, regs |-> regs,
       armedSet |-> armedSet]

Unpack(s) ==
  /\ deadline' = s.deadline /\ token' = s.token /\ amap' = s.amap
  /\ regs' = s.regs /\ armedSet' = s.armedSet

\* Alarm::isSet: the deadline is initialised (non-zero).
IsSet(s, a) == IsInitialized(s.deadline[a])

\* Mutant: the new entry takes the last id instead of a fresh one.
SetImplStaleIdMut(s, a) ==
  [s EXCEPT !.amap  = @ \cup {[id |-> s.regs, key |-> s.deadline[a], alarm |-> a]},
            !.token[a] = s.regs]

\* setImpl: registerAlarm emplaces (deadline, alarm) and the returned
\* iterator becomes token_.
SetImpl(s, a) ==
  [s EXCEPT !.amap  = @ \cup {[id |-> s.regs + 1, key |-> s.deadline[a], alarm |-> a]},
            !.token[a] = s.regs + 1,
            !.regs  = @ + 1]

\* cancelImpl: unregisterAlarm erases token_.
CancelImpl(s, a) == [s EXCEPT !.amap = {e \in @ : e.id # s.token[a]}]

\* Alarm::set, whose DCHECK(!isSet()) is recorded rather than enforced.
Set(s, a, t) ==
  SetImpl([s EXCEPT !.armedSet = @ \/ IsSet(s, a), !.deadline[a] = t], a)

\* Alarm::cancel.
Cancel(s, a) ==
  IF ~IsSet(s, a) THEN s ELSE CancelImpl([s EXCEPT !.deadline[a] = TimeZero], a)

\* Mutant: the old registration is not cancelled.
UpdateImplNoCancelMut(s, a) == SetImpl(s, a)

\* Alarm::updateImpl: cancel with the deadline cleared, then register the
\* new one.
UpdateImpl(s, a) ==
  LET nd == s.deadline[a]
  IN  SetImpl([CancelImpl([s EXCEPT !.deadline[a] = TimeZero], a) EXCEPT !.deadline[a] = nd], a)

\* Alarm::update: a zero deadline cancels; a change below the granularity
\* is ignored; otherwise re-register (or register, if not set).
Update(s, a, t, g) ==
  CASE ~IsInitialized(t)            -> Cancel(s, a)
    [] Abs(ToMicroseconds(TimeSub(t, s.deadline[a]))) < ToMicroseconds(g) -> s
    [] IsSet(s, a)                   -> UpdateImpl([s EXCEPT !.deadline[a] = t], a)
    [] OTHER                         -> SetImpl([s EXCEPT !.deadline[a] = t], a)

\* Mutant: the probe delegate returns without re-arming.
ProbeDelegateNoRearmMut(s, a, t) == s

\* IPLayer::sendProbePacket: the probe loop body is empty; the alarm is
\* re-armed one probe interval on.
ProbeDelegate(s, a, t) == Update(s, a, TimeAdd(t, Probe), Granularity)

\* SendBuffer::retransmit: bytes_in_flight_ = 0 and transmit (no alarm
\* effect), then set the alarm one RTO on.
RetransmitDelegate(s, a, t) == Set(s, a, TimeAdd(t, Rto))

\* delegate_->onAlarm(), by the class DEFINE_ALARM_DELEGATE made for a.
OnAlarm(s, a, t) ==
  IF Role[a] = "probe" THEN ProbeDelegate(s, a, t) ELSE RetransmitDelegate(s, a, t)

\* Mutant: the delegate runs before the deadline is cleared.
FireLateClearMut(s, a, t) ==
  IF ~IsSet(s, a) THEN s ELSE [OnAlarm(s, a, t) EXCEPT !.deadline[a] = TimeZero]

\* Alarm::fire: an alarm that is not set does nothing; otherwise the
\* deadline is cleared and then the delegate runs.
Fire(s, a, t) ==
  IF ~IsSet(s, a) THEN s ELSE OnAlarm([s EXCEPT !.deadline[a] = TimeZero], a, t)

\* alarm_map_.begin(): the least key, the oldest among equal keys.
Begin(m) == CHOOSE e \in m : \A f \in m : TimeLess(e.key, f.key) \/ (e.key = f.key /\ e.id <= f.id)

\* runAlarmEvent at clock t: while the first entry is due, fire its alarm
\* and erase that entry (the saved iterator, not the alarm's token_).
RECURSIVE RunAlarmEvent(_, _, _)
RunAlarmEvent(s, t, log) ==
  IF s.amap = {} \/ ~TimeGeq(t, Begin(s.amap).key) THEN <<s, log>>
  ELSE LET e  == Begin(s.amap)
           s1 == Fire(s, e.alarm, t)
       IN  RunAlarmEvent([s1 EXCEPT !.amap = @ \ {e}], t,
                         Append(log, [alarm |-> e.alarm, key |-> e.key, at |-> t]))

RECURSIVE ElapseLoop(_, _, _, _)

\* Mutant: elapse jumps by the whole delta before firing.
ElapseLoopWholeStepMut(s, t, delta, log) ==
  IF ~DeltaGreater(delta, DeltaZero) THEN <<s, t, log>>
  ELSE LET r == RunAlarmEvent(s, TimeAdd(t, delta), log)
       IN  ElapseLoop(r[1], TimeAdd(t, delta), DeltaZero, r[2])

\* MockAlarmFactory::elapse: advance to the next deadline or by what is
\* left of delta, whichever is sooner, and fire what is due, until delta
\* is used up.  Returns the alarm state, the clock and the fires.
ElapseLoop(s, t, delta, log) ==
  IF ~DeltaGreater(delta, DeltaZero) THEN <<s, t, log>>
  ELSE LET step == IF s.amap = {} THEN delta ELSE DeltaMin(delta, TimeSub(Begin(s.amap).key, t))
           r    == RunAlarmEvent(s, TimeAdd(t, step), log)
       IN  ElapseLoop(r[1], TimeAdd(t, step), DeltaSub(delta, step), r[2])

\* EpollServer::updateNow: tv_usec / 1000 (milliseconds) is added to
\* tv_sec * 10^6 (microseconds).
Clock(r) == (r % Second) \div 1000 + (r \div Second) * Second

\* EpollServer::incomingAlarm: the time to the first deadline, at least 0.
Incoming(m, t) == LET d == TimeSub(Begin(m).key, t) IN IF DeltaLess(d, DeltaZero) THEN DeltaZero ELSE d
-----------------------------------------------------------------------------
\* The factory's clock when the stack is built: the EpollServer constructor
\* ends with updateNow, so EpollAlarmFactory::now() is already the wall
\* clock; MockAlarmFactory's constructor sets now_(0).
StartClock(d) == IF d = "epoll" THEN Clock(Real0) ELSE TimeZero

\* The IPLayer constructor sets the probe alarm one interval after the
\* epoll clock's start.  The mock clock starts with no alarm.
Init ==
  /\ driver \in {"epoll", "mock"}
  /\ now = StartClock(driver)
  /\ real = IF driver = "epoll" THEN Real0 ELSE 0
  /\ LET probes == IF driver = "epoll" THEN {a \in Alarms : Role[a] = "probe"} ELSE {}
         ord    == CHOOSE f \in [probes -> 1 .. Cardinality(probes)] :
                     \A x, y \in probes : x # y => f[x] # f[y]
     IN  /\ created = probes
         /\ deadline = [a \in Alarms |-> IF a \in probes THEN TimeAdd(StartClock(driver), Probe) ELSE TimeZero]
         /\ token = [a \in Alarms |-> IF a \in probes THEN ord[a] ELSE 0]
         /\ amap = {[id |-> ord[a], key |-> TimeAdd(StartClock(driver), Probe), alarm |-> a] : a \in probes}
         /\ regs = Cardinality(probes)
  /\ loopPc = "update" /\ waitUntil = real
  /\ fired = <<>> /\ armedSet = FALSE /\ ops = 0

\* A SendBuffer is constructed (by _connect, or by a test) and sets its
\* alarm one RTO after the factory's now().
NewSendBuffer(a) ==
  /\ Role[a] = "retransmit" /\ a \notin created /\ ops < MaxOps
  /\ created' = created \cup {a}
  /\ Unpack(Set(St, a, TimeAdd(now, Rto)))
  /\ ops' = ops + 1
  /\ UNCHANGED <<driver, now, real, loopPc, waitUntil, fired>>

\* acknowledge finds nothing in flight and updates the alarm one RTO on.
AckIdle(s, a) == Update(s, a, TimeAdd(now, Rto), Granularity)

\* acknowledge of the FIN cancels the alarm.
AckFin(s, a) == Cancel(s, a)

\* A call of acknowledge on a constructed SendBuffer: by a test, or by a
\* segment handler while the event loop is in runReadEvent.
Acknowledge(a) ==
  /\ a \in created /\ Role[a] = "retransmit" /\ ops < MaxOps
  /\ (driver = "mock" \/ loopPc = "wait")
  /\ \/ Unpack(AckIdle(St, a))
     \/ Unpack(AckFin(St, a))
  /\ ops' = ops + 1
  /\ UNCHANGED <<driver, now, real, created, loopPc, waitUntil, fired>>

\* The test advances the virtual clock.
Elapse ==
  /\ driver = "mock"
  /\ \E d \in ElapseSteps :
       /\ now + d <= MockHorizon
       /\ LET r == ElapseLoop(St, now, d, <<>>)
          IN  Unpack(r[1]) /\ now' = r[2] /\ fired' = r[3]
  /\ UNCHANGED <<driver, real, created, loopPc, waitUntil, ops>>

\* ProtocolStack::startEventLoop: the loop thread calls runEventLoop with a
\* timeout of fromMilliseconds(1000), forever.
EventLoopTimeout == FromMilliseconds(1000)

\* Mutant: the iteration polls without updateNow, on the previous now_.
LoopUpdateNoClockMut ==
  /\ driver = "epoll" /\ loopPc = "update"
  /\ waitUntil' = real + FromMilliseconds(ToMilliseconds(DeltaMin(EventLoopTimeout, Incoming(amap, now))))
  /\ loopPc' = "wait"
  /\ UNCHANGED <<driver, now, real, deadline, token, amap, regs, created, fired, armedSet, ops>>

\* runEventLoop(1000 ms): updateNow, then epoll_wait for
\* min(1000 ms, incomingAlarm()) in whole milliseconds.
LoopUpdate ==
  /\ driver = "epoll" /\ loopPc = "update"
  /\ now' = Clock(real)
  /\ waitUntil' = real + FromMilliseconds(ToMilliseconds(DeltaMin(EventLoopTimeout, Incoming(amap, Clock(real)))))
  /\ loopPc' = "wait"
  /\ UNCHANGED <<driver, real, deadline, token, amap, regs, created, fired, armedSet, ops>>

\* epoll_wait returns at its timeout or earlier with a packet (whose
\* handler, if any, is an Acknowledge step taken while loopPc = "wait").
LoopWait ==
  /\ driver = "epoll" /\ loopPc = "wait"
  /\ loopPc' = "alarms"
  /\ UNCHANGED <<driver, now, real, deadline, token, amap, regs, created, waitUntil,
                 fired, armedSet, ops>>

\* runAlarmEvent with the now_ of this iteration's updateNow.
LoopAlarms ==
  /\ driver = "epoll" /\ loopPc = "alarms"
  /\ LET r == RunAlarmEvent(St, now, <<>>) IN Unpack(r[1]) /\ fired' = r[2]
  /\ loopPc' = "update"
  /\ UNCHANGED <<driver, now, real, created, waitUntil, ops>>

\* Wall-clock time passes; epoll_wait does not sleep past its timeout.
Tick ==
  /\ driver = "epoll" /\ real + Quantum <= MaxReal
  /\ loopPc = "wait" => real + Quantum <= waitUntil \/ real >= waitUntil
  /\ real' = real + Quantum
  /\ UNCHANGED <<driver, now, deadline, token, amap, regs, created, loopPc, waitUntil,
                 fired, armedSet, ops>>

\* The explored time is used up.
Horizon ==
  /\ \/ driver = "epoll" /\ real + Quantum > MaxReal
     \/ driver = "mock" /\ \A d \in ElapseSteps : now + d > MockHorizon
  /\ UNCHANGED vars

Next ==
  \/ \E a \in Alarms : NewSendBuffer(a) \/ Acknowledge(a)
  \/ Elapse \/ LoopUpdate \/ LoopWait \/ LoopAlarms \/ Tick \/ Horizon

\* The event loop is a thread of its own (startEventLoop: runEventLoop in a
\* for(;;)), and epoll_wait returns at its timeout at the latest, so each
\* of its steps, once enabled, is taken.  The tests' elapse() calls and the
\* application's calls are not assumed to happen.
\* Weak fairness of each loop step, written with the step's guard as the
\* enabling condition (its other conjuncts are assignments, always possible).
LoopAt(pc) == driver = "epoll" /\ loopPc = pc

Spec == Init /\ [][Next]_vars
          /\ (<>[]LoopAt("update") => []<><<LoopUpdate>>_vars)
          /\ (<>[]LoopAt("wait") => []<><<LoopWait>>_vars)
          /\ (<>[]LoopAt("alarms") => []<><<LoopAlarms>>_vars)
-----------------------------------------------------------------------------
TypeOK ==
  /\ driver \in {"epoll", "mock"}
  /\ now \in Nat /\ real \in Nat /\ waitUntil \in Nat
  /\ deadline \in [Alarms -> Nat] /\ token \in [Alarms -> 0 .. regs]
  /\ amap \subseteq [id : 1 .. regs, key : Nat, alarm : Alarms]
  /\ created \subseteq Alarms
  /\ loopPc \in {"update", "wait", "alarms"}
  /\ armedSet \in BOOLEAN /\ ops \in 0 .. MaxOps

\* alarm_map_ mirrors the alarms: a set alarm has exactly one entry, the one
\* its token_ names, keyed by its deadline_; an unset alarm has none.  This
\* is what updateImpl's cancel-then-register, fire's clearing before the
\* delegate re-arms, and runAlarmEvent's erase of the saved iterator after
\* that re-registration must preserve together.
MapMatchesAlarms ==
  \A a \in Alarms :
    {e \in amap : e.alarm = a} =
      IF deadline[a] # 0 THEN {[id |-> token[a], key |-> deadline[a], alarm |-> a]} ELSE {}

\* set() is never called on an armed alarm (spec.md 4.1 and 7: a contract
\* violation): the re-arming delegates run after fire() clears the deadline.
SetOnlyWhenUnset == ~armedSet

\* Alarms fire only when due and in deadline order (spec.md 4.1); the
\* virtual clock of the tests fires each exactly at its deadline, even
\* when one elapse() crosses several deadlines and re-armed alarms.
FiredWhenDue ==
  \A i \in DOMAIN fired :
    /\ fired[i].key <= fired[i].at
    /\ driver = "mock" => fired[i].key = fired[i].at
    /\ \A j \in DOMAIN fired : i < j => fired[i].key <= fired[j].key

\* Under the epoll loop no due alarm is starved: an alarm that is set and
\* whose deadline the wall clock, as updateNow reads it, has reached is
\* fired by some runAlarmEvent, unless it stops being due first (acknowledge
\* moves or cancels it).  updateNow's now_ goes stale while epoll_wait
\* blocks and in runReadEvent, and it runs a thousand times too slow within
\* a second, so this rests on the next iteration reading the clock again.
Due(a) == driver = "epoll" /\ IsSet(St, a) /\ TimeGeq(Clock(real), deadline[a])
DueAlarmsFire ==
  \A a \in Alarms : Due(a) ~> (~Due(a) \/ \E i \in DOMAIN fired : fired[i].alarm = a)

\* incomingAlarm dereferences alarm_map_.begin() without a test for an
\* empty map: the probe alarm, re-armed by its delegate inside
\* runAlarmEvent, must keep the map non-empty at every iteration.
MapNonEmptyAtPoll == (driver = "epoll" /\ loopPc = "update") => amap # {}
=============================================================================
