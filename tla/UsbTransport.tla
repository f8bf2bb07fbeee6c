----------------------------- MODULE UsbTransport -----------------------------
(***************************************************************************)
(* The serving loop of floss-usb: HCI framing state and SCO link tracking   *)
(* (transport.rs), the single-threaded loop that moves actions between the  *)
(* virtual HCI device and the radio (main.rs) and the pool of asynchronous  *)
(* libusb transfers with the alternate setting of the isochronous interface *)
(* (usb.rs).                                                                *)
(*                                                                          *)
(* libusb calls the completion callback only while the thread is inside     *)
(* pump() or cancel(); between two such points the program is sequential.   *)
(* One step of this module is therefore one iteration of one of the loops   *)
(* of run(), or one completion callback.  The radio is observed only at     *)
(* those points too, so its steps are taken there.  The stop signal may     *)
(* arrive anywhere, and is looked at once per iteration of the outer loop.  *)
(***************************************************************************)
EXTENDS Integers, Sequences, FiniteSets

CONSTANTS
    Handles,      \* SCO connection handles the controller may assign
    NoHandle,     \* stands for the absent handle
    WbsAlt,       \* Endpoints.wbs_alt: 1 or 6, or 0 if mSBC is unsupported
    Transfers,    \* TRANSFERS, the size of the transfer pool
    MaxIncoming,  \* bound of the receive queue (128 buffers)
    MaxPending,   \* bound of the action queue (256 actions)
    HostBurst,    \* host packets read per loop iteration (32)
    AclCredits,   \* ACL packets the host may have outstanding (HCI flow control)
    Chatter,      \* kinds of other data the radio sends: 2 is ACL, 4 is events
    MaxWire       \* bound of the model: HCI events the radio may have unread

ASSUME HandleAssumption == NoHandle \notin Handles
ASSUME WbsAssumption == WbsAlt \in {0, 1, 6}
ASSUME SizeAssumption ==
    /\ Transfers \in Nat /\ Transfers >= 3
    /\ MaxIncoming \in Nat /\ MaxPending \in Nat
    /\ Chatter \subseteq {2, 4}
    /\ HostBurst \in Nat /\ AclCredits \in Nat /\ MaxWire \in Nat

VARIABLES
    pc,         \* where the thread is in run(), set_sco() or drop()
    incoming,   \* Incoming.queue: buffers received, not yet parsed
    overflow,   \* Incoming.overflow
    link,       \* Transport.link
    pending,    \* the action queue of run()
    reads,      \* packets read in this call of queue_host
    alt,        \* Inner.alt, the alternate setting of interface 1
    flight,     \* transfers submitted to libusb, per class of slot
    stoppingSco,\* Inner.stopping_sco
    target,     \* the mode of the set_sco() call in progress
    fatal,      \* Inner.fatal # 0
    signal,     \* STOPPING
    told,       \* history: the SCO link the host has been told of
    radio,      \* environment: the SCO link the controller has
    wire,       \* environment: events of the controller not yet received
    ghost       \* history: the link an HCI Reset ended at the controller while
                \* the transport believed in it or was yet to hear of it

queues == <<incoming, overflow, link, pending, reads>>
device == <<alt, flight, stoppingSco, target, fatal>>
world == <<signal, radio, wire, ghost>>
vars == <<pc, queues, device, told, world>>

-----------------------------------------------------------------------------
(* Packets, actions and transfers.                                          *)

\* Air modes: 2 is CVSD, 3 is transparent (mSBC), 0 is "no link".
Modes == {2, 3}
Links == [h : Handles \cup {NoHandle}, m : {0} \cup Modes]
NoLink == [h |-> NoHandle, m |-> 0]

\* A complete HCI frame: its packet type and what the transport reads of it.
Frames == [kind : 1..4, op : {"data", "conn", "disc", "reset"},
           h : Handles \cup {NoHandle}, m : {0} \cup Modes]
Frame(kind, op, h, m) == [kind |-> kind, op |-> op, h |-> h, m |-> m]
Plain(kind) == Frame(kind, "data", NoHandle, 0)
Sound(h) == Frame(3, "data", h, 0)

\* Action::Host, Action::Usb and Action::Sco.
Actions == [tag : {"host", "usb", "sco"}, mode : {0} \cup Modes, frame : Frames]
ToHost(f) == [tag |-> "host", mode |-> 0, frame |-> f]
ToUsb(f) == [tag |-> "usb", mode |-> 0, frame |-> f]
SetSco(m) == [tag |-> "sco", mode |-> m, frame |-> Plain(3)]

\* Slots with a transfer, by Slot.kind and Slot.receive.  Which slot of the
\* pool holds a transfer has no effect on anything, so slots are counted.
\* The HCI Reset command is told apart for the radio's sake only.
IsoClasses == {"scoRx", "scoTx"}
RxClasses == {"evRx", "aclRx", "scoRx"}
TxClasses == {"cmdTx", "resetTx", "aclTx", "scoTx"}
Classes == RxClasses \cup TxClasses
KindOf == [evRx |-> 4, aclRx |-> 2, scoRx |-> 3]
TxClass(f) == CASE f.kind = 3 -> "scoTx"
                [] f.kind = 2 -> "aclTx"
                [] f.kind = 1 /\ f.op = "reset" -> "resetTx"
                [] OTHER -> "cmdTx"

\* Inner::active
ActiveIso == flight["scoRx"] + flight["scoTx"]
Active == ActiveIso + flight["evRx"] + flight["aclRx"]
          + flight["cmdTx"] + flight["resetTx"] + flight["aclTx"]

\* The alternate setting set_sco() selects for an air mode.
AltOf(mode) == IF mode = 2 THEN 2 ELSE IF mode = 3 THEN WbsAlt ELSE 0

\* run() returns: the virtual HCI device is closed, the queues and the state
\* of the transport are gone with it, and Usb::drop begins.
Leave ==
    /\ pc' = "drop"
    /\ incoming' = <<>> /\ overflow' = FALSE
    /\ link' = NoLink /\ pending' = <<>> /\ reads' = 0
    /\ told' = NoLink /\ wire' = <<>>
    /\ UNCHANGED <<signal, radio, ghost>>

-----------------------------------------------------------------------------
\* Fault: a third ACL receiver is armed.
FaultyReceivers == [c \in Classes |-> CASE c = "evRx" -> 1 [] c = "aclRx" -> 3 [] OTHER -> 0]

\* start_receivers(): one interrupt and two bulk transfers.
Receivers == [c \in Classes |-> CASE c = "evRx" -> 1 [] c = "aclRx" -> 2 [] OTHER -> 0]

(* Init: run() has claimed the radio, armed the receivers, registered hci0  *)
(* and reported readiness.                                                   *)
Init ==
    /\ pc = "drain"
    /\ incoming = <<>> /\ overflow = FALSE
    /\ link = NoLink /\ pending = <<>> /\ reads = 0
    /\ alt = 0 /\ stoppingSco = FALSE /\ target = 0 /\ fatal = FALSE
    /\ flight = Receivers
    /\ told = NoLink
    /\ signal = FALSE /\ radio = NoLink /\ wire = <<>> /\ ghost = NoLink

-----------------------------------------------------------------------------
(* Transport::usb on one frame from the controller.                         *)

\* "multiple SCO connections are unsupported"
SecondLink(f) == f.kind = 4 /\ f.op = "conn" /\ link # NoLink /\ link # [h |-> f.h, m |-> f.m]
\* A frame may also announce an excessive length, a connection an unsupported
\* air mode or handle.
UsbMayRefuse(f) == f.kind = 2 \/ f.op = "conn"
Opens(f) == f.kind = 4 /\ f.op = "conn" /\ link = NoLink
Closes(f) == f.kind = 4 /\ f.op = "disc" /\ link.h = f.h
Foreign(f) == f.kind = 3 /\ link.h # f.h

\* Fault: the connection is reported before its endpoints are configured.
FaultyUsbActions(f) == CASE Opens(f) -> <<ToHost(f), SetSco(f.m)>>
                         [] Closes(f) -> <<SetSco(0), ToHost(f)>>
                         [] Foreign(f) -> <<>>
                         [] OTHER -> <<ToHost(f)>>

UsbActions(f) == CASE Opens(f) -> <<SetSco(f.m), ToHost(f)>>
                   [] Closes(f) -> <<SetSco(0), ToHost(f)>>
                   [] Foreign(f) -> <<>>
                   [] OTHER -> <<ToHost(f)>>

\* Fault: a disconnection stops the endpoints and leaves the link recorded.
FaultyUsbLink(f) == IF Opens(f) THEN [h |-> f.h, m |-> f.m] ELSE link

UsbLink(f) == CASE Opens(f) -> [h |-> f.h, m |-> f.m]
                [] Closes(f) -> NoLink
                [] OTHER -> link

(* Transport::host on one packet of the host.                               *)

Resets(p) == p.kind = 1 /\ p.op = "reset"

HostActions(p) == CASE Resets(p) -> <<SetSco(0), ToUsb(p)>>
                    [] Foreign(p) -> <<>>
                    [] OTHER -> <<ToUsb(p)>>

-----------------------------------------------------------------------------
(* First part of the loop body: drain the receive queue into actions.       *)

Drain ==
    /\ pc = "drain" /\ ~overflow /\ incoming # <<>>
    /\ LET f == Head(incoming) IN
       /\ ~SecondLink(f)
       /\ Len(pending \o UsbActions(f)) <= MaxPending
       /\ link' = UsbLink(f)
       /\ pending' = pending \o UsbActions(f)
    /\ incoming' = Tail(incoming)
    /\ UNCHANGED <<pc, overflow, reads, device, told, world>>

\* The errors of this part: the receive queue or the action queue overflows,
\* or Transport::usb refuses a frame.
DrainFails ==
    /\ pc = "drain"
    /\ \/ overflow
       \/ incoming # <<>> /\ UsbMayRefuse(Head(incoming))
       \/ incoming # <<>> /\ Len(pending \o UsbActions(Head(incoming))) > MaxPending
    /\ Leave
    /\ UNCHANGED device

DrainDone ==
    /\ pc = "drain" /\ ~overflow /\ incoming = <<>>
    /\ pc' = "process"
    /\ UNCHANGED <<queues, device, told, world>>

-----------------------------------------------------------------------------
(* Second part: perform the actions in order.                               *)

\* What the host knows of the SCO link once it has read the event f.
Hears(f) == CASE f.op = "conn" -> [h |-> f.h, m |-> f.m]
              [] f.op = "disc" /\ f.h = told.h -> NoLink
              [] OTHER -> told

Performing(tag) == pc = "process" /\ pending # <<>> /\ Head(pending).tag = tag
Action == Head(pending)

\* write_record()
WriteHost ==
    /\ Performing("host")
    /\ told' = Hears(Action.frame)
    /\ pending' = Tail(pending)
    /\ UNCHANGED <<pc, incoming, overflow, link, reads, device, world>>

\* set_sco() when the wanted alternate setting is already selected.
SetScoSame ==
    /\ Performing("sco")
    /\ Action.mode # 0 => AltOf(Action.mode) # 0
    /\ AltOf(Action.mode) = alt
    /\ pending' = Tail(pending)
    /\ UNCHANGED <<pc, incoming, overflow, link, reads, device, told, world>>

\* set_sco() up to and including the cancellation requests of cancel().
SetScoBegin ==
    /\ Performing("sco")
    /\ Action.mode # 0 => AltOf(Action.mode) # 0
    /\ AltOf(Action.mode) # alt
    /\ pc' = "cancel" /\ stoppingSco' = TRUE /\ target' = Action.mode
    /\ pending' = Tail(pending)
    /\ UNCHANGED <<incoming, overflow, link, reads, alt, flight, fatal, told, world>>

\* The rest of set_sco() once no isochronous transfer is left: back to setting
\* 0, then, for a link, its setting and two receivers.
SetScoStop ==
    /\ pc = "cancel" /\ ActiveIso = 0 /\ ~fatal /\ target = 0
    /\ alt' = 0 /\ stoppingSco' = FALSE
    /\ pc' = "process"
    /\ UNCHANGED <<queues, flight, target, fatal, told, world>>

SetScoStart ==
    /\ pc = "cancel" /\ ActiveIso = 0 /\ ~fatal /\ target # 0
    /\ Active + 2 <= Transfers
    /\ alt' = AltOf(target) /\ stoppingSco' = FALSE /\ target' = 0
    /\ flight' = [flight EXCEPT !["scoRx"] = 2]
    /\ pc' = "process"
    /\ UNCHANGED <<queues, fatal, told, world>>

\* The errors of cancel() and of the rest of set_sco(): the deadline passes
\* with a transfer still owned by libusb; an earlier failure, or one of the
\* first set_alt; of load_descriptors or the second set_alt; of arming one of
\* the two receivers, for want of a free slot too.
SetScoFails ==
    /\ pc = "cancel"
    /\ \/ UNCHANGED <<alt, stoppingSco, flight>>
       \/ /\ ActiveIso = 0 /\ ~fatal /\ target # 0
          /\ alt' = 0
          /\ UNCHANGED <<stoppingSco, flight>>
       \/ /\ ActiveIso = 0 /\ ~fatal /\ target # 0
          /\ alt' = AltOf(target) /\ stoppingSco' = FALSE
          /\ \E armed \in {0, 1} :
             /\ Active + armed <= Transfers
             /\ flight' = [flight EXCEPT !["scoRx"] = armed]
    /\ target' = 0
    /\ Leave
    /\ UNCHANGED fatal

\* send() to an endpoint that exists: the transfer is submitted, or the pool is
\* full (ENOBUFS) and the action stays at the front of the queue.
Connected == Action.frame.kind = 3 => alt # 0

SendUsb ==
    /\ Performing("usb") /\ Connected /\ Active < Transfers
    /\ flight' = [flight EXCEPT ![TxClass(Action.frame)] = @ + 1]
    /\ pending' = Tail(pending)
    /\ UNCHANGED <<pc, incoming, overflow, link, reads, alt, stoppingSco, target, fatal,
                   told, world>>

\* Fault: the blocked action goes to the back of the queue.
FaultySendBlocked ==
    /\ Performing("usb") /\ Connected /\ Active = Transfers
    /\ pending' = Append(Tail(pending), Action)
    /\ pc' = "pump"
    /\ UNCHANGED <<incoming, overflow, link, reads, device, told, world>>

\* Fault: the blocked loop does not pump.
SpinningSendBlocked ==
    /\ Performing("usb") /\ Connected /\ Active = Transfers
    /\ pc' = "drain"
    /\ UNCHANGED <<queues, device, told, world>>

SendBlocked ==
    /\ Performing("usb") /\ Connected /\ Active = Transfers
    /\ pc' = "pump"
    /\ UNCHANGED <<queues, device, told, world>>

\* The other errors of this part, all of them final: a failed or short write to
\* the host, an air mode without endpoints, and ENOTCONN, EINVAL, ENOMEM or a
\* failed submission in send().
ProcessFails ==
    /\ pc = "process" /\ pending # <<>>
    /\ Action.tag = "sco" => Action.mode # 0 /\ AltOf(Action.mode) = 0
    /\ Leave
    /\ UNCHANGED device

ProcessDone ==
    /\ pc = "process" /\ pending = <<>>
    /\ pc' = "host"
    /\ UNCHANGED <<queues, device, told, world>>

-----------------------------------------------------------------------------
(* Third part, with no action left: queue_host reads a bounded burst.       *)

\* External: the host obeys HCI flow control, so it has at most one command
\* and AclCredits ACL packets outstanding.  SCO data is not flow controlled.
Outstanding(S) == Cardinality({i \in 1..Len(pending) :
                     pending[i].tag = "usb" /\ TxClass(pending[i].frame) \in S})
HostMaySend(p) ==
    /\ p.kind = 1 => flight["cmdTx"] + flight["resetTx"] + Outstanding({"cmdTx", "resetTx"}) = 0
    /\ p.kind = 2 => flight["aclTx"] + Outstanding({"aclTx"}) < AclCredits

HostPackets == {Plain(1), Plain(2), Frame(1, "reset", NoHandle, 0)}
               \cup {Sound(h) : h \in Handles}

\* A connection event for the link l is on its way to the transport.
Coming(l) == \E q \in {incoming, wire} : \E i \in 1..Len(q) :
                q[i].op = "conn" /\ q[i].h = l.h /\ q[i].m = l.m

\* Fault: a Reset stops the endpoints and leaves the link recorded.
FaultyHostRead ==
    /\ pc = "host" /\ reads < HostBurst
    /\ \E p \in HostPackets :
       /\ HostMaySend(p)
       /\ told' = IF Resets(p) THEN NoLink ELSE told
       /\ pending' = pending \o HostActions(p)
    /\ reads' = reads + 1
    /\ UNCHANGED <<pc, incoming, overflow, link, device, world>>

HostRead ==
    /\ pc = "host" /\ reads < HostBurst
    /\ \E p \in HostPackets :
       /\ HostMaySend(p)
       /\ link' = IF Resets(p) THEN NoLink ELSE link
       /\ told' = IF Resets(p) THEN NoLink ELSE told
       /\ ghost' = IF Resets(p) /\ ~Coming(ghost) THEN NoLink ELSE ghost
       /\ pending' = pending \o HostActions(p)
    /\ reads' = reads + 1
    /\ UNCHANGED <<pc, incoming, overflow, device, signal, radio, wire>>

\* The burst is complete or the next read would block.
HostDone ==
    /\ pc = "host"
    /\ pc' = "pump" /\ reads' = 0
    /\ UNCHANGED <<incoming, overflow, link, pending, device, told, world>>

\* The virtual HCI device is closed, its read fails, or Transport::host refuses
\* the packet.
HostFails ==
    /\ pc = "host" /\ reads < HostBurst
    /\ Leave
    /\ UNCHANGED device

-----------------------------------------------------------------------------
(* Completion callbacks: completed_inner() and receive().                   *)

\* Callbacks run inside pump() and cancel().  Once a transfer has failed, pump()
\* is about to report it, and what else completes in the same call only empties
\* slots; it is left to Usb::drop, where it has that effect too.
Pumping == pc \in {"cancel", "drop"} \/ (pc = "pump" /\ ~fatal)
Statuses == {"completed", "cancelled", "lost", "failed"}   \* lost: ERROR, TIMED_OUT

\* Inner.stopping holds from the start of Usb::drop on.
Stopping(c) == pc = "drop" \/ (c \in IsoClasses /\ stoppingSco)
IsoLoss(c, status) == c \in IsoClasses /\ status = "lost"

\* What a completed transfer of class c may carry; an event is the next one
\* of the radio, and the empty sequence stands for a transfer with no data or
\* with no packet received intact.
Received(c) ==
    CASE c = "evRx" /\ wire # <<>> -> {<<Head(wire)>>}
      [] (c = "evRx" /\ wire = <<>>) \/ c = "aclRx" -> {<<Plain(k)>> : k \in {KindOf[c]} \cap Chatter}
      [] c = "scoRx" -> {<<>>} \cup {<<Sound(h)>> : h \in {radio.h} \cap Handles}
      [] OTHER -> {<<>>}

\* The receiver callback: a bounded queue that records an overflow.
Deliver(data) ==
    IF Len(incoming) >= MaxIncoming /\ data # <<>>
    THEN overflow' = TRUE /\ UNCHANGED incoming
    ELSE incoming' = incoming \o data /\ UNCHANGED overflow

\* The effect of a completion on Inner.fatal, before a receiver is rearmed.
Breaks(c, status) ==
    \/ status = "cancelled" /\ ~Stopping(c)
    \/ status \in {"lost", "failed"} /\ ~IsoLoss(c, status)

\* Fault: an isochronous receiver that lost its data is not rearmed.
FaultyRearms(c, status) ==
    c \in RxClasses /\ ~Stopping(c) /\ status = "completed"

Rearms(c, status) ==
    /\ c \in RxClasses /\ ~Stopping(c)
    /\ status = "completed" \/ IsoLoss(c, status)

\* free_slot()
Freed(c) == [flight EXCEPT ![c] = @ - 1]

\* The transport believes in the link l, or is yet to hear of it.
Unheard(l) == link = l \/ Coming(l)

\* completed_inner(): a receiver is resubmitted; or the slot is freed, after a
\* failed resubmission too; or a control or bulk write was short.
Completed(c, status) ==
    /\ Pumping /\ flight[c] > 0
    /\ IF status = "completed" /\ ~Stopping(c)
       THEN \E data \in Received(c) :
            /\ Deliver(data)
            /\ wire' = IF c = "evRx" /\ wire # <<>> THEN Tail(wire) ELSE wire
       ELSE UNCHANGED <<incoming, overflow, wire>>
    /\ \/ /\ Rearms(c, status) /\ ~fatal /\ ~Breaks(c, status)
          /\ UNCHANGED <<flight, fatal>>
       \/ /\ flight' = Freed(c)
          /\ fatal' = (fatal \/ Breaks(c, status) \/ Rearms(c, status))
       \/ /\ status = "completed" /\ ~Stopping(c) /\ c \in TxClasses \ IsoClasses
          /\ flight' = Freed(c)
          /\ fatal' = TRUE
    /\ \/ /\ c = "resetTx" /\ status = "completed"
          /\ radio' = NoLink
          /\ ghost' = IF radio # NoLink /\ Unheard(radio) THEN radio ELSE ghost
       \/ /\ ~(c = "resetTx" /\ status = "completed")
          /\ UNCHANGED <<radio, ghost>>
    /\ UNCHANGED <<pc, link, pending, reads, alt, stoppingSco, target, told, signal>>

\* Fault: the loop condition does not test STOPPING.
FaultyPumpReturn ==
    /\ pc = "pump" /\ ~fatal
    /\ pc' = "drain"
    /\ UNCHANGED <<queues, device, told, world>>

\* pump() returns and the loop goes on; or it fails, a transfer has failed, or
\* the loop condition finds STOPPING set.
PumpReturn ==
    /\ pc = "pump" /\ ~fatal /\ ~signal
    /\ pc' = "drain"
    /\ UNCHANGED <<queues, device, told, world>>

PumpEnds ==
    /\ pc = "pump"
    /\ Leave
    /\ UNCHANGED device

-----------------------------------------------------------------------------
(* Usb::drop: every transfer is cancelled; the interfaces are released and   *)
(* the callback memory is freed when none is left; after the deadline, or    *)
(* when the clock fails, _exit(1).                                           *)

Release ==
    /\ pc = "drop" /\ Active = 0
    /\ pc' = "released" /\ alt' = 0
    /\ UNCHANGED <<queues, flight, stoppingSco, target, fatal, told, world>>

ExitNow ==
    /\ pc = "drop"
    /\ pc' = "exited"
    /\ UNCHANGED <<queues, device, told, world>>

-----------------------------------------------------------------------------
(* The environment: one SCO link at a time, each change of it an event; and  *)
(* SIGTERM or SIGINT.                                                        *)

RadioConnect ==
    /\ pc \in {"pump", "cancel"} /\ Len(wire) < MaxWire /\ radio = NoLink
    /\ \E h \in Handles, m \in Modes :
       /\ radio' = [h |-> h, m |-> m]
       /\ wire' = Append(wire, Frame(4, "conn", h, m))
    /\ ghost' = NoLink
    /\ UNCHANGED <<pc, queues, device, told, signal>>

RadioDisconnect ==
    /\ pc \in {"pump", "cancel"} /\ Len(wire) < MaxWire /\ radio # NoLink
    /\ radio' = NoLink
    /\ wire' = Append(wire, Frame(4, "disc", radio.h, 0))
    /\ UNCHANGED <<pc, queues, device, told, signal, ghost>>

\* stop_signal() runs anywhere in the loop, inside set_sco() and cancel() too;
\* the flag is read only when pump() has returned to the loop.
Serving == pc \in {"drain", "process", "cancel", "host", "pump"}

Stop ==
    /\ Serving /\ ~signal
    /\ signal' = TRUE
    /\ UNCHANGED <<pc, queues, device, told, radio, wire, ghost>>

-----------------------------------------------------------------------------
Thread ==
    \/ Drain \/ DrainFails \/ DrainDone
    \/ WriteHost \/ SendUsb \/ SendBlocked \/ ProcessFails \/ ProcessDone
    \/ SetScoSame \/ SetScoBegin \/ SetScoStop \/ SetScoStart \/ SetScoFails
    \/ HostDone \/ HostFails
    \/ PumpReturn \/ PumpEnds \/ Release \/ ExitNow

Down == pc \in {"released", "exited"}
Finished == Down /\ UNCHANGED vars

Next == \/ Thread \/ HostRead
        \/ \E c \in Classes, status \in Statuses : Completed(c, status)
        \/ RadioConnect \/ RadioDisconnect \/ Stop
        \/ Finished

Spec == Init /\ [][Next]_vars

\* The thread always runs on: every wait of pump() and cancel() has a timeout.
\* A submitted outgoing transfer completes, since it has a timeout of 1000 ms;
\* callbacks run only while the thread is pumping, hence strong fairness.
FairSpec == /\ Spec
            /\ WF_vars(Thread)
            /\ \A c \in TxClasses : SF_vars(\E status \in Statuses : Completed(c, status))

-----------------------------------------------------------------------------
(* Properties.                                                              *)

\* Types, and the bounds of the queues: at most MaxIncoming buffers, and no
\* more actions than MaxPending while serving plus what one step adds.
TypeOK ==
    /\ pc \in {"drain", "process", "cancel", "host", "pump", "drop", "released", "exited"}
    /\ incoming \in Seq(Frames) /\ Len(incoming) <= MaxIncoming /\ overflow \in BOOLEAN
    /\ link \in Links /\ told \in Links /\ radio \in Links /\ ghost \in Links
    /\ pending \in Seq(Actions)
    /\ reads \in 0..HostBurst
    /\ alt \in {0, 1, 2, 6} /\ target \in {0} \cup Modes
    /\ flight \in [Classes -> Nat] /\ Active <= Transfers
    /\ stoppingSco \in BOOLEAN /\ fatal \in BOOLEAN /\ signal \in BOOLEAN
    /\ wire \in Seq(Frames)

\* A SCO packet accepted from the host is never handed to send() while the
\* isochronous interface has no endpoint: send() would return ENOTCONN, which
\* ends the service.  However the link changed after the packet was accepted,
\* the change is behind the packet in the queue.
ScoSendConnected ==
    Performing("usb") /\ Action.frame.kind = 3 => alt # 0

\* "Configure endpoints BEFORE Floss sees connection success": when a SCO
\* connection is reported to the host, the alternate setting of its air mode is
\* selected and, unless a transfer failed, both isochronous receivers are armed.
ReportedConfigured ==
    Performing("host") /\ Action.frame.op = "conn" =>
        /\ alt # 0 /\ alt = AltOf(Action.frame.m)
        /\ ~fatal => flight["scoRx"] = 2

\* SCO data reaches the host only between the events that announce and end the
\* link it belongs to, and never after a Reset that the host has sent.
AudioAnnounced ==
    Performing("host") /\ Action.frame.kind = 3 => Action.frame.h = told.h

\* Isochronous transfers exist only while an alternate setting with endpoints
\* is selected.
IsoConfigured == ActiveIso > 0 => alt # 0

\* Until a transfer fails the radio can always be heard: the event receiver and
\* both ACL receivers are armed, and both SCO receivers whenever endpoints are
\* configured and not being stopped.  completed_inner() rearms what it consumes.
ReceiversArmed ==
    Serving /\ ~fatal =>
        /\ flight["evRx"] = 1 /\ flight["aclRx"] = 2
        /\ alt # 0 /\ ~stoppingSco => flight["scoRx"] = 2

\* The alternate setting never changes under a transfer of the old setting.
AltChangesQuiet == [][alt' # alt => ActiveIso = 0]_vars

\* Once set_sco() has begun to stop a link, no audio that completes late enters
\* the receive queue: it could be taken for audio of the next link.
StoppedIsSilent ==
    [][stoppingSco /\ Len(incoming') > Len(incoming)
           => incoming'[Len(incoming')].kind # 3]_vars

Calm == /\ Serving /\ ~overflow /\ ~fatal /\ wire = <<>>
        /\ \A i \in 1..Len(incoming) : incoming[i].op \notin {"conn", "disc"}
        /\ \A i \in 1..Len(pending) : pending[i].frame.op # "reset"
        /\ flight["resetTx"] = 0

\* When every event has been parsed and no Reset is on its way, the transport's
\* link is the controller's.  The one exception is exact: a link the controller
\* dropped for a Reset that overtook its connection event is believed in until
\* the controller connects again or the host sends another Reset.
LinkAgrees == Calm => link = IF ghost = NoLink THEN radio ELSE ghost

\* The transfer pool always has room for the two receivers of a new SCO link if
\* it exceeds what the fixed receivers and flow-controlled traffic can take.
RoomForSco == pc = "cancel" /\ ActiveIso = 0 => Active + 2 <= Transfers

\* A full pool delays the queue and never wedges it: the queue is emptied or
\* the service ends.
BackpressureDrains == pending # <<>> ~> (pending = <<>> \/ Down)

\* SIGTERM always ends the service, wherever in the loop or in set_sco() it arrives.
StopEnds == signal ~> Down
=============================================================================
