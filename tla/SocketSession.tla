---------------------------- MODULE SocketSession ----------------------------
(***************************************************************************)
(* Class SocketSession (src/tcp/socket_session.cpp) composed with its      *)
(* SendBuffer (SendBuffer.tla).  The connection state is state_; `sent'    *)
(* holds the segments the last step handed to the IP layer.                *)
(*                                                                         *)
(* onSegmentArrival switches on state_ with no case, so every segment is   *)
(* dropped whatever its kind and whatever the state; onSegmentArrival_     *)
(* LISTEN is never reached.  send() and receive() change no state (and     *)
(* return no value), and time_wait_alarm_ is never set, so enterCLOSED     *)
(* never runs.  IP-layer failures are left out: no property here depends   *)
(* on them.                                                                *)
(***************************************************************************)
EXTENDS SendBuffer

CONSTANTS
  ISNs,          \* values rand_generator_->rand() may return
  SegmentKinds   \* kinds of segment the dispatcher may deliver

ConnectionStates ==
  {"LISTEN", "SYN_SENT", "SYN_RECEIVED", "ESTABLISHED", "FIN_WAIT_1",
   "FIN_WAIT_2", "CLOSE_WAIT", "CLOSING", "LAST_ACK", "TIME_WAIT", "CLOSED"}

\* States in which close() ends in LOG(FATAL).
ClosingStates == {"FIN_WAIT_1", "FIN_WAIT_2", "CLOSING", "LAST_ACK", "TIME_WAIT"}

VARIABLES state, sb, sent

vars == <<state, sb, sent>>

Init ==
  /\ state = "CLOSED"
  /\ sb = InitSendBuffer
  /\ sent = <<>>

\* SocketSession::open(): the active open.  A second open is LOG(FATAL).
Open ==
  /\ state = "CLOSED"
  /\ \E isn \in ISNs : \E res \in {SendSYN(sb, isn, 0)} :
       sb' = res.sb /\ sent' = res.segs
  /\ state' = "SYN_SENT"

\* The empty switch of SocketSession::onSegmentArrival.
OnSegmentArrival(st, kind) == st

\* SocketSession::open(seg): the passive open on a SYN, state_ = LISTEN and
\* the segment handed to onSegmentArrival.
PassiveOpen ==
  /\ state = "CLOSED"
  /\ state' = OnSegmentArrival("LISTEN", "SYN")
  /\ sent' = <<>>
  /\ UNCHANGED sb

\* A segment dispatched to the session (SocketStruct::onSegmentArrival).
SegmentArrives ==
  /\ \E kind \in SegmentKinds : state' = OnSegmentArrival(state, kind)
  /\ sent' = <<>>
  /\ UNCHANGED sb

\* SocketSession::close(); the LOG(FATAL) cases are not called.
Close ==
  /\ state \notin ClosingStates
  /\ CASE state \in {"CLOSED", "LISTEN", "SYN_SENT"} ->
            state' = "CLOSED" /\ sent' = <<>> /\ UNCHANGED sb
       [] state \in {"SYN_RECEIVED", "ESTABLISHED", "CLOSE_WAIT"} ->
            \E res \in {SendFIN(sb, 0)} :
              /\ sb' = res.sb /\ sent' = res.segs
              /\ state' = IF state = "CLOSE_WAIT" THEN "LAST_ACK" ELSE "FIN_WAIT_1"

\* The event loop fires the send buffer's retransmission alarm.
Fire ==
  /\ sb.armed
  /\ \E res \in {Retransmit(sb, 0)} : sb' = res.sb /\ sent' = res.segs
  /\ UNCHANGED state

Next == Open \/ PassiveOpen \/ SegmentArrives \/ Close \/ Fire

Spec == Init /\ [][Next]_vars /\ WF_vars(Fire)

-----------------------------------------------------------------------------
\* close() from SYN_SENT goes to CLOSED with no wire traffic (spec.md 4.2),
\* and a CLOSED session sends nothing: no step into or within CLOSED hands a
\* segment to the IP layer.
ClosedIsSilent == [][state' = "CLOSED" => sent' = <<>>]_vars

=============================================================================
