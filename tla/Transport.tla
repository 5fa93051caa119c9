------------------------------ MODULE Transport ------------------------------
(***************************************************************************)
(* One input connection between two computers: the handshake and allowlist  *)
(* of transport/connection.rs, the framing of its critical stream, the      *)
(* latest-wins datagram queue with its pump, and the negotiation of         *)
(* session/negotiate.rs that turns it into a session.  A control frame is   *)
(* two reads, its length and its payload; another branch of the session's   *)
(* select may win in between.                                               *)
(***************************************************************************)
EXTENDS Naturals, Sequences, FiniteSets

CONSTANTS
  SessionConfigs,        \* configurations: [touch, lease, checkpoint, playout]
  MAX_CONTACTS,          \* contacts a computer with touch forwarding offers
  MAX_RECEIVER_LEASE_MS, MAX_CHECKPOINT_BOUND_MS,
  MaxTransportMessages   \* bound: messages sent on an established session, by both ends

(* SessionOptions::from_config.                                              *)
ValidConfig(c) ==
  /\ c.lease \in 1 .. MAX_RECEIVER_LEASE_MS /\ c.checkpoint \in 1 .. MAX_CHECKPOINT_BOUND_MS
  /\ c.playout * 2 < c.lease

ASSUME TransportAssumption ==
  /\ MAX_CONTACTS \in Nat \ {0}
  /\ {MAX_RECEIVER_LEASE_MS, MAX_CHECKPOINT_BOUND_MS, MaxTransportMessages} \subseteq Nat
  /\ \A c \in SessionConfigs : ValidConfig(c)

Ends == {"dialer", "listener"}
Peer(e) == CHOOSE other \in Ends : other # e

VARIABLES
  allowed,  \* InputServerConfig: the dialer's key is on the listener's allowlist
  conn,     \* the QUIC connection, and the code it closed with
  ends,     \* each computer's session actor: its configuration, stage and schema
  stream,   \* reads waiting at each end of the critical stream
  reader,   \* ControlReceiveState: the length of a frame has been read
  slots,    \* PendingDatagrams of each end
  pump,     \* the datagram pump of each end, and the permit of its Notify
  air,      \* datagrams on their way to each end
  sends     \* messages sent since an end was ready

transportVars == <<allowed, conn, ends, stream, reader, slots, pump, air, sends>>
links_ == <<stream, reader, slots, pump, air, sends>>

NoPending == [motion |-> <<>>, probe |-> <<>>]
NewPump == [at |-> "look", permit |-> FALSE]

TransportInit ==
  /\ allowed \in BOOLEAN /\ conn = [phase |-> "none", code |-> "none"]
  /\ ends \in [Ends -> {[config |-> c, stage |-> "none", schema |-> <<>>] : c \in SessionConfigs}]
  /\ stream = [e \in Ends |-> <<>>] /\ reader = [e \in Ends |-> FALSE]
  /\ slots = [e \in Ends |-> NoPending] /\ pump = [e \in Ends |-> NewPump]
  /\ air = [e \in Ends |-> {}] /\ sends = 0

Open == conn.phase = "open"

(* close_critical, close_protocol, NOT_TRUSTED, a session actor that bails,  *)
(* or a close of its own accord: the connection ends for both.               *)
Close(code) ==
  /\ conn' = [phase |-> "closed", code |-> code]
  /\ ends' = [e \in Ends |-> [ends[e] EXCEPT !.stage = "closed"]]
  /\ stream' = [e \in Ends |-> <<>>] /\ reader' = [e \in Ends |-> FALSE]
  /\ slots' = [e \in Ends |-> NoPending] /\ pump' = [e \in Ends |-> [NewPump EXCEPT !.at = "ended"]]
  /\ air' = [e \in Ends |-> {}] /\ UNCHANGED sends

-----------------------------------------------------------------------------
connect_input ==
  /\ conn.phase = "none" /\ conn' = [conn EXCEPT !.phase = "handshake"]
  /\ UNCHANGED <<allowed, ends, links_>>

(* A configuration reload replaces the allowlist.                            *)
set_server_config ==
  /\ conn.phase \in {"none", "handshake"} /\ allowed' = ~allowed
  /\ UNCHANGED <<conn, ends, links_>>

(* accept: the allowlist is read once the handshake is done.                 *)
accept ==
  /\ conn.phase = "handshake" /\ UNCHANGED allowed
  /\ \/ ~allowed /\ Close("not_trusted")
     \/ /\ allowed /\ conn' = [conn EXCEPT !.phase = "open"]
        /\ ends' = [e \in Ends |-> [ends[e] EXCEPT !.stage = "start"]]
        /\ UNCHANGED links_

(* The connection is closed by a computer, or dies of the idle timeout.      *)
closed == Open /\ Close("app") /\ UNCHANGED allowed

-----------------------------------------------------------------------------
Offer(c) ==
  [capabilities |-> {"Keyboard", "ConsumerControls", "Pointer", "Scroll"} \cup (IF c.touch THEN {"Touch"} ELSE {}),
   required |-> {"Keyboard", "Pointer", "Scroll"}, contacts |-> IF c.touch THEN MAX_CONTACTS ELSE 0,
   lease |-> c.lease, checkpoint |-> c.checkpoint]

Least(a, b) == IF a < b THEN a ELSE b

select_negotiation_Own(left, right) ==
  LET capabilities == left.capabilities \cap right.capabilities IN
  [capabilities |-> capabilities,
   contacts |-> IF "Touch" \in capabilities THEN Least(left.contacts, right.contacts) ELSE 0,
   lease |-> left.lease, checkpoint |-> Least(left.checkpoint, right.checkpoint)]

select_negotiation(left, right) ==
  LET capabilities == left.capabilities \cap right.capabilities IN
  [capabilities |-> capabilities,
   contacts |-> IF "Touch" \in capabilities THEN Least(left.contacts, right.contacts) ELSE 0,
   lease |-> Least(left.lease, right.lease),
   checkpoint |-> Least(left.checkpoint, right.checkpoint)]

validate_for(s, offer) ==
  /\ offer.required \subseteq s.capabilities /\ s.capabilities \subseteq offer.capabilities
  /\ s.contacts <= offer.contacts /\ ("Touch" \in s.capabilities) = (s.contacts # 0)
  /\ s.lease \in 1 .. Least(MAX_RECEIVER_LEASE_MS, offer.lease)
  /\ s.checkpoint \in 1 .. Least(MAX_CHECKPOINT_BOUND_MS, offer.checkpoint)

(* ControlSender::send_wire: the frame's length and payload in one write.    *)
Frame(m) == <<[half |-> "length"], [half |-> "payload", message |-> m]>>
Written(e, m) == stream' = [stream EXCEPT ![Peer(e)] = @ \o Frame(m)]

(* negotiate begins with this computer's offer.                              *)
send_negotiation_offer(e) ==
  /\ Open /\ ends[e].stage = "start" /\ ends' = [ends EXCEPT ![e].stage = "offered"]
  /\ Written(e, [family |-> "offer", value |-> Offer(ends[e].config)])
  /\ UNCHANGED <<allowed, conn, reader, slots, pump, air, sends>>

-----------------------------------------------------------------------------
(* A message of the session: which capability it needs.  send_capture leaves *)
(* touch out of a session that did not negotiate it.                         *)
Sendable_Offered(e) == {"Pointer"} \cup ({"Touch"} \cap Offer(ends[e].config).capabilities)

Sendable(e) == {"Pointer"} \cup ({"Touch"} \cap ends[e].schema[1].capabilities)

(* A branch of the session's select that wins drops the control read under   *)
(* way; the receiver keeps what it has read.                                 *)
cancelled_Dropped(read) == FALSE

cancelled(read) == read

MaySend(e) == Open /\ ends[e].stage = "ready" /\ sends < MaxTransportMessages

send_control(e) ==
  /\ MaySend(e) /\ UNCHANGED <<allowed, conn, ends, slots, pump, air>>
  /\ \E need \in Sendable(e) : Written(e, [family |-> "control", value |-> need])
  /\ reader' = [reader EXCEPT ![e] = cancelled(@)] /\ sends' = sends + 1

(* A write that takes too long may have gone out in part; closing the        *)
(* connection makes that unobservable.                                       *)
control_write_timeout(e) ==
  /\ MaySend(e) /\ stream[Peer(e)] # <<>> /\ Close("critical") /\ UNCHANGED allowed

(* LatestDatagramQueue::enqueue replaces what waits in the slot, and wakes   *)
(* the pump or leaves it a permit.                                           *)
notify_one_Waiters(p) == IF p.at = "waiting" THEN [p EXCEPT !.at = "look"] ELSE p

notify_one(p) == IF p.at = "waiting" THEN [p EXCEPT !.at = "look"] ELSE [p EXCEPT !.permit = TRUE]

enqueue(e, class) ==
  /\ MaySend(e) /\ sends' = sends + 1
  /\ \E need \in Sendable(e) : slots' = [slots EXCEPT ![e][class] = <<need>>]
  /\ pump' = [pump EXCEPT ![e] = notify_one(@)] /\ reader' = [reader EXCEPT ![e] = cancelled(@)]
  /\ UNCHANGED <<allowed, conn, ends, stream, air>>

(* pump_datagrams: motion before probes.  A datagram taken may wait for room *)
(* in Quinn's queue while its slot fills again.                              *)
take(e) ==
  LET class == IF slots[e].motion # <<>> THEN "motion" ELSE "probe" IN
  /\ pump[e].at = "look" /\ slots[e][class] # <<>>
  /\ slots' = [slots EXCEPT ![e][class] = <<>>]
  /\ pump' = [pump EXCEPT ![e].at = "sending"]
  /\ air' = [air EXCEPT ![Peer(e)] = @ \cup {[class |-> class, need |-> slots[e][class][1]]}]
  /\ UNCHANGED <<allowed, conn, ends, stream, reader, sends>>

pumped(e) ==
  /\ \/ pump[e].at = "sending" /\ pump' = [pump EXCEPT ![e].at = "look"]
     \/ pump[e].at = "look" /\ slots[e] = NoPending /\ pump' = [pump EXCEPT ![e].at = "empty"]
     \/ /\ pump[e].at = "empty"
        /\ pump' = [pump EXCEPT ![e] = IF @.permit THEN NewPump ELSE [@ EXCEPT !.at = "waiting"]]
  /\ Open /\ UNCHANGED <<allowed, conn, ends, stream, reader, slots, air, sends>>

-----------------------------------------------------------------------------
(* What the session does with a control message.                             *)
Handled(e, m, rest) ==
  LET offer == Offer(ends[e].config) IN
  CASE m.family = "offer" /\ ends[e].stage = "offered" ->
         LET s == select_negotiation(offer, m.value) IN
         IF validate_for(s, offer) /\ validate_for(s, m.value)
         THEN /\ ends' = [ends EXCEPT ![e].stage = "selected", ![e].schema = <<s>>]
              /\ stream' = [stream EXCEPT ![e] = rest, ![Peer(e)] = @ \o Frame([family |-> "selected", value |-> s])]
              /\ UNCHANGED <<conn, slots, pump, air, sends>> /\ reader' = [reader EXCEPT ![e] = FALSE]
         ELSE Close("lacks")
    [] m.family = "selected" /\ ends[e].stage = "selected" ->
         IF m.value = ends[e].schema[1]
         THEN /\ ends' = [ends EXCEPT ![e].stage = "ready"]
              /\ stream' = [stream EXCEPT ![e] = rest] /\ reader' = [reader EXCEPT ![e] = FALSE]
              /\ UNCHANGED <<conn, slots, pump, air, sends>>
         ELSE Close("refused")
    [] m.family = "control" /\ ends[e].stage = "ready" /\ m.value \in ends[e].schema[1].capabilities ->
         /\ stream' = [stream EXCEPT ![e] = rest] /\ reader' = [reader EXCEPT ![e] = FALSE]
         /\ UNCHANGED <<conn, ends, slots, pump, air, sends>>
    [] OTHER -> Close("refused")

(* ControlReceiver::receive, one read at a time.  A length where a payload   *)
(* should be, or the other way round, is no frame.                           *)
receive_control(e) ==
  /\ Open /\ stream[e] # <<>> /\ ends[e].stage \in {"offered", "selected", "ready"} /\ UNCHANGED allowed
  /\ \/ /\ ~reader[e] /\ Head(stream[e]).half = "length"
        /\ reader' = [reader EXCEPT ![e] = TRUE] /\ stream' = [stream EXCEPT ![e] = Tail(@)]
        /\ UNCHANGED <<conn, ends, slots, pump, air, sends>>
     \/ reader[e] /\ Head(stream[e]).half = "payload" /\ Handled(e, Head(stream[e]).message, Tail(stream[e]))
     \/ reader[e] # (Head(stream[e]).half = "payload") /\ Close("protocol")

(* DatagramChannel::receive and validate_negotiated_motion: before the       *)
(* maximum is negotiated, or out of the schema, a datagram ends the session. *)
receive_datagram(e, d) ==
  /\ Open /\ ends[e].stage = "ready" /\ d \in air[e] /\ UNCHANGED allowed
  /\ \/ /\ d.need \in ends[e].schema[1].capabilities /\ air' = [air EXCEPT ![e] = @ \ {d}]
        /\ reader' = [reader EXCEPT ![e] = cancelled(@)]
        /\ UNCHANGED <<conn, ends, stream, slots, pump, sends>>
     \/ d.need \notin ends[e].schema[1].capabilities /\ Close("refused")

lost(e, d) ==
  /\ d \in air[e] /\ air' = [air EXCEPT ![e] = @ \ {d}]
  /\ UNCHANGED <<allowed, conn, ends, stream, reader, slots, pump, sends>>

TransportNext ==
  \/ connect_input \/ set_server_config \/ accept \/ closed
  \/ \E e \in Ends :
       \/ send_negotiation_offer(e) \/ send_control(e) \/ control_write_timeout(e)
       \/ enqueue(e, "motion") \/ enqueue(e, "probe") \/ take(e) \/ pumped(e) \/ receive_control(e)
       \/ \E d \in air[e] : receive_datagram(e, d) \/ lost(e, d)

-----------------------------------------------------------------------------
(* Two computers that both follow the protocol never refuse each other's     *)
(* messages: no control frame is misread after a read was cancelled half     *)
(* way, none arrives at a stage that does not expect it, the schemas they    *)
(* select agree, and neither sends what the schema leaves out.               *)
NeverRefused == conn.code \notin {"protocol", "refused", "lacks"}

(* The pump never sleeps on a datagram: what enqueue leaves while the pump   *)
(* sends or looks is taken once it is done (no wake-up is lost).             *)
NothingStranded ==
  \A e \in Ends : pump[e].at = "waiting" => slots[e] = NoPending

(* Snapshot acknowledgements wait for playout, and the session's lease is    *)
(* the smaller of two configurations: the playout delay of a computer stays  *)
(* under half of the lease its sessions negotiate, as from_config asks of    *)
(* its own lease.                                                            *)
AcksBeatLease ==
  \A e \in Ends : ends[e].stage = "ready" => ends[e].config.playout * 2 < ends[e].schema[1].lease
=============================================================================
