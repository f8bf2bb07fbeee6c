-------------------------- MODULE UsbTransportProofs --------------------------
(* Proofs about UsbTransport, for any handles, sizes and supported settings.  *)
EXTENDS UsbTransport, FiniteSetTheorems, TLAPS

Air == {0} \cup Modes
Flights == [Classes -> Nat]

-----------------------------------------------------------------------------
(* Frames and actions.                                                      *)

LEMMA FrameTypes ==
    /\ NoLink \in Links
    /\ \A k \in 1..4 : Plain(k) \in Frames
    /\ \A h \in Handles : Sound(h) \in Frames
    /\ Frame(1, "reset", NoHandle, 0) \in Frames
    /\ \A h \in Handles, m \in Modes :
          Frame(4, "conn", h, m) \in Frames /\ [h |-> h, m |-> m] \in Links
    /\ \A h \in Handles \cup {NoHandle} : Frame(4, "disc", h, 0) \in Frames
    /\ \A f \in Frames : [h |-> f.h, m |-> f.m] \in Links
BY DEF NoLink, Links, Plain, Sound, Frame, Frames, Modes

LEMMA ActionTypes ==
    ASSUME NEW f \in Frames
    PROVE  ToHost(f) \in Actions /\ ToUsb(f) \in Actions
BY DEF ToHost, ToUsb, Actions

LEMMA ScoType ==
    ASSUME NEW m \in Air
    PROVE  SetSco(m) \in Actions
BY FrameTypes DEF SetSco, Actions, Air

LEMMA UsbTypes ==
    ASSUME link \in Links, NEW f \in Frames
    PROVE  /\ UsbActions(f) \in Seq(Actions) /\ UsbLink(f) \in Links
           /\ HostActions(f) \in Seq(Actions)
<1>1. ToHost(f) \in Actions /\ ToUsb(f) \in Actions
  BY ActionTypes
<1>2. SetSco(0) \in Actions /\ SetSco(f.m) \in Actions
  BY ScoType DEF Frames, Air
<1>3. UsbActions(f) \in Seq(Actions)
  BY <1>1, <1>2 DEF UsbActions
<1>4. HostActions(f) \in Seq(Actions)
  BY <1>1, <1>2 DEF HostActions
<1>5. UsbLink(f) \in Links
  BY FrameTypes DEF UsbLink
<1> QED BY <1>3, <1>4, <1>5

LEMMA HearsType ==
    ASSUME told \in Links, NEW f \in Frames
    PROVE  Hears(f) \in Links
BY FrameTypes DEF Hears

LEMMA HostPacketType == HostPackets \subseteq Frames
BY FrameTypes DEF HostPackets

LEMMA AltType == ASSUME NEW m PROVE AltOf(m) \in {0, 1, 2, 6}
BY WbsAssumption DEF AltOf

-----------------------------------------------------------------------------
(* The transfer pool.                                                       *)

LEMMA ClassNames ==
    /\ "evRx" \in Classes /\ "aclRx" \in Classes /\ "scoRx" \in Classes
    /\ "cmdTx" \in Classes /\ "resetTx" \in Classes /\ "aclTx" \in Classes
    /\ "scoTx" \in Classes
    /\ \A c \in Classes : c \in {"evRx", "aclRx", "scoRx", "cmdTx", "resetTx", "aclTx", "scoTx"}
BY DEF Classes, RxClasses, TxClasses

LEMMA TxClassType == \A f : TxClass(f) \in TxClasses
BY DEF TxClass, TxClasses

LEMMA Counts ==
    ASSUME flight \in Flights
    PROVE  ActiveIso \in Nat /\ Active \in Nat /\ ActiveIso <= Active
BY ClassNames DEF Flights, ActiveIso, Active

LEMMA OneMore ==
    ASSUME flight \in Flights, NEW c \in Classes, flight' = [flight EXCEPT ![c] = @ + 1]
    PROVE  /\ flight' \in Flights /\ Active' = Active + 1
           /\ (c \notin IsoClasses => ActiveIso' = ActiveIso)
<1>1. flight' \in Flights
  BY DEF Flights
<1>2. Active' = Active + 1
  BY ClassNames DEF Flights, ActiveIso, Active
<1>3. c \notin IsoClasses => ActiveIso' = ActiveIso
  BY ClassNames DEF Flights, ActiveIso, IsoClasses
<1> QED BY <1>1, <1>2, <1>3

LEMMA OneLess ==
    ASSUME flight \in Flights, NEW c \in Classes, flight[c] > 0,
           flight' = [flight EXCEPT ![c] = @ - 1]
    PROVE  flight' \in Flights /\ Active' = Active - 1 /\ ActiveIso' <= ActiveIso
BY ClassNames DEF Flights, ActiveIso, Active

LEMMA Armed ==
    ASSUME flight \in Flights, ActiveIso = 0, NEW n \in Nat,
           flight' = [flight EXCEPT !["scoRx"] = n]
    PROVE  flight' \in Flights /\ Active' = Active + n /\ ActiveIso' = n
BY ClassNames DEF Flights, ActiveIso, Active
-----------------------------------------------------------------------------
(* Type correctness.                                                        *)

Places == {"drain", "process", "cancel", "host", "pump", "drop", "released", "exited"}
Queues == /\ incoming \in Seq(Frames) /\ Len(incoming) <= MaxIncoming
          /\ link \in Links /\ told \in Links /\ radio \in Links /\ ghost \in Links
          /\ pending \in Seq(Actions) /\ wire \in Seq(Frames)
          /\ reads \in 0..HostBurst
Device == /\ alt \in {0, 1, 2, 6} /\ target \in Air
          /\ flight \in Flights /\ Active <= Transfers
Flags == /\ overflow \in BOOLEAN /\ stoppingSco \in BOOLEAN /\ fatal \in BOOLEAN
         /\ signal \in BOOLEAN

LEMMA TypeParts == TypeOK <=> pc \in Places /\ Queues /\ Device /\ Flags
BY DEF TypeOK, Places, Queues, Device, Flags, Air, Flights

LEMMA PartsNext ==
    ASSUME pc' \in Places, Queues', Device', Flags'
    PROVE  TypeOK'
BY DEF TypeOK, Places, Queues, Device, Flags, Air, Flights

LEMMA InitType == Init => TypeOK
<1> SUFFICES ASSUME Init PROVE TypeOK
  OBVIOUS
<1>1. pc \in Places
  BY DEF Init, Places
<1>2. Queues
  BY FrameTypes, SizeAssumption DEF Init, Queues
<1>3. Device
  <2>1. flight \in Flights
    BY DEF Init, Receivers, Flights
  <2>2. Active = 3
    BY ClassNames DEF Init, Receivers, Active, ActiveIso
  <2> QED BY <2>1, <2>2, SizeAssumption DEF Init, Device, Air
<1>4. Flags
  BY DEF Init, Flags
<1> QED BY <1>1, <1>2, <1>3, <1>4, TypeParts

LEMMA LeaveType ==
    ASSUME Queues, Leave
    PROVE  pc' \in Places /\ Queues'
BY FrameTypes, SizeAssumption DEF Leave, Queues, Places

LEMMA LeaveFlags == ASSUME Flags, Leave PROVE overflow' \in BOOLEAN /\ UNCHANGED signal
BY DEF Leave

\* What a completed transfer carries: nothing, or one frame, which is audio only
\* if it comes from an isochronous receiver or from the wire.
LEMMA ReceivedType ==
    ASSUME TypeOK, NEW c \in Classes, NEW data \in Received(c)
    PROVE  /\ data = <<>> \/ \E f \in Frames : data = <<f>>
           /\ data # <<>> /\ c # "scoRx" =>
                 \/ c = "evRx" /\ wire # <<>> /\ data = <<Head(wire)>>
                 \/ \E k \in {2, 4} : data = <<Plain(k)>>
<1>1. CASE c = "evRx" /\ wire # <<>>
  <2>1. wire \in Seq(Frames)
    BY DEF TypeOK
  <2>2. Head(wire) \in Frames
    BY <1>1, <2>1
  <2>3. data = <<Head(wire)>>
    BY <1>1 DEF Received
  <2> QED BY <1>1, <2>2, <2>3
<1>2. CASE (c = "evRx" /\ wire = <<>>) \/ c = "aclRx"
  <2>1. KindOf[c] \in {2, 4}
    BY <1>2 DEF KindOf
  <2>2. \E k \in {2, 4} : data = <<Plain(k)>>
    BY <1>2, <2>1 DEF Received
  <2> QED BY <1>2, <2>2, FrameTypes
<1>3. CASE c = "scoRx"
  BY <1>3, FrameTypes DEF Received
<1>4. CASE c \notin {"evRx", "aclRx", "scoRx"}
  BY <1>4 DEF Received
<1> QED BY <1>1, <1>2, <1>3, <1>4

LEMMA DeliverType ==
    ASSUME TypeOK, NEW data, data = <<>> \/ \E f \in Frames : data = <<f>>, Deliver(data)
    PROVE  incoming' \in Seq(Frames) /\ Len(incoming') <= MaxIncoming
<1>1. incoming \in Seq(Frames) /\ Len(incoming) <= MaxIncoming
  BY DEF TypeOK
<1>2. CASE data = <<>>
  BY <1>1, <1>2 DEF Deliver
<1>3. ASSUME NEW f \in Frames, data = <<f>>
      PROVE  incoming' \in Seq(Frames) /\ Len(incoming') <= MaxIncoming
  BY <1>1, <1>3, SizeAssumption DEF Deliver
<1> QED BY <1>2, <1>3
LEMMA CompletedType ==
    ASSUME TypeOK, NEW c \in Classes, NEW status \in Statuses, Completed(c, status)
    PROVE  TypeOK'
<1>1. pc' \in Places
  BY TypeParts DEF Completed
<1>2. incoming' \in Seq(Frames) /\ Len(incoming') <= MaxIncoming
  <2>1. CASE UNCHANGED incoming
    BY <2>1 DEF TypeOK
  <2>2. ASSUME NEW data \in Received(c), Deliver(data)
        PROVE  incoming' \in Seq(Frames) /\ Len(incoming') <= MaxIncoming
    BY <2>2, ReceivedType, DeliverType
  <2> QED BY <2>1, <2>2 DEF Completed
<1>3. wire' \in Seq(Frames)
  <2>1. wire \in Seq(Frames)
    BY DEF TypeOK
  <2>2. UNCHANGED wire \/ (wire # <<>> /\ wire' = Tail(wire))
    BY DEF Completed
  <2> QED BY <2>1, <2>2
<1>4. radio' \in Links /\ ghost' \in Links
  BY FrameTypes DEF Completed, TypeOK
<1>5. Queues'
  BY <1>2, <1>3, <1>4 DEF Completed, TypeOK, Queues
<1>6. flight' \in Flights /\ Active' <= Transfers
  <2>1. flight \in Flights /\ Active <= Transfers /\ Active \in Nat
    BY TypeParts, Counts DEF Device
  <2>2. CASE UNCHANGED flight
    BY <2>1, <2>2 DEF Active, ActiveIso
  <2>3. CASE flight' = Freed(c)
    <3>1. flight[c] > 0 /\ flight' = [flight EXCEPT ![c] = @ - 1]
      BY <2>3 DEF Completed, Freed
    <3>2. flight' \in Flights /\ Active' = Active - 1
      BY <2>1, <3>1, OneLess
    <3> QED BY <2>1, <3>2, SizeAssumption
  <2> QED BY <2>2, <2>3 DEF Completed
<1>7. Device'
  BY <1>6, TypeParts DEF Completed, Device
<1>8. Flags'
  <2>1. overflow' \in BOOLEAN
    BY TypeParts DEF Completed, Deliver, Flags
  <2>2. fatal' \in BOOLEAN
    BY TypeParts DEF Completed, Flags
  <2> QED BY <2>1, <2>2, TypeParts DEF Completed, Flags
<1> QED BY <1>1, <1>5, <1>7, <1>8, PartsNext

LEMMA NextType == TypeOK /\ [Next]_vars => TypeOK'
<1> SUFFICES ASSUME TypeOK, [Next]_vars PROVE TypeOK'
  OBVIOUS
<1>0. pc \in Places /\ Queues /\ Device /\ Flags
  BY TypeParts
<1>a. ASSUME pc' \in Places, Queues', UNCHANGED <<device, overflow, signal>>
      PROVE  TypeOK'
  <2>1. Device' /\ Flags'
    BY <1>0, <1>a DEF Device, Flags, device, Active, ActiveIso
  <2> QED BY <1>a, <2>1, PartsNext
<1>b. ASSUME Leave, UNCHANGED device PROVE TypeOK'
  <2>1. Device' /\ Flags'
    BY <1>0, <1>b, LeaveFlags DEF Device, Flags, device, Active, ActiveIso
  <2> QED BY <1>0, <1>b, <2>1, LeaveType, PartsNext
<1>1. CASE Drain
  <2>1. Head(incoming) \in Frames /\ Tail(incoming) \in Seq(Frames)
        /\ Len(Tail(incoming)) <= MaxIncoming
    BY <1>0, <1>1, SizeAssumption DEF Drain, Queues
  <2>2. link' \in Links /\ pending' \in Seq(Actions)
    BY <1>0, <1>1, <2>1, UsbTypes DEF Drain, Queues
  <2>3. pc' \in Places /\ Queues'
    BY <1>0, <1>1, <2>1, <2>2 DEF Drain, Queues, world
  <2> QED BY <1>1, <2>3, <1>a DEF Drain, world
<1>2. CASE DrainFails \/ ProcessFails \/ HostFails \/ PumpEnds
  BY <1>2, <1>b DEF DrainFails, ProcessFails, HostFails, PumpEnds
<1>3. CASE DrainDone \/ ProcessDone \/ SendBlocked \/ PumpReturn
  <2>1. pc' \in Places /\ Queues'
    BY <1>0, <1>3 DEF DrainDone, ProcessDone, SendBlocked, PumpReturn, Queues, queues, world, Places
  <2> QED BY <1>3, <2>1, <1>a DEF DrainDone, ProcessDone, SendBlocked, PumpReturn, queues, world
<1>4. CASE WriteHost
  <2>1. Action \in Actions /\ Tail(pending) \in Seq(Actions)
    BY <1>0, <1>4 DEF WriteHost, Performing, Action, Queues
  <2>2. told' \in Links
    BY <1>0, <1>4, <2>1, HearsType DEF WriteHost, Queues, Actions
  <2>3. pc' \in Places /\ Queues'
    BY <1>0, <1>4, <2>1, <2>2 DEF WriteHost, Queues, world
  <2> QED BY <1>4, <2>3, <1>a DEF WriteHost, world
<1>5. CASE SetScoSame
  <2>1. pc' \in Places /\ Queues'
    BY <1>0, <1>5 DEF SetScoSame, Performing, Queues, world
  <2> QED BY <1>5, <2>1, <1>a DEF SetScoSame, world
<1>6. CASE SetScoBegin
  <2>1. pc' \in Places /\ Queues'
    BY <1>0, <1>6 DEF SetScoBegin, Performing, Queues, world, Places
  <2>2. Action.mode \in Air
    <3>1. Action \in Actions
      BY <1>0, <1>6 DEF SetScoBegin, Performing, Action, Queues
    <3> QED BY <3>1 DEF Actions, Air
  <2>3. Device'
    BY <1>0, <1>6, <2>2 DEF SetScoBegin, Device, Active, ActiveIso
  <2>4. Flags'
    BY <1>0, <1>6 DEF SetScoBegin, Flags, world
  <2> QED BY <2>1, <2>3, <2>4, PartsNext
<1>7. CASE SetScoStop
  <2>1. pc' \in Places /\ Queues'
    BY <1>0, <1>7 DEF SetScoStop, Queues, queues, world, Places
  <2>2. Device'
    BY <1>0, <1>7 DEF SetScoStop, Device, Active, ActiveIso
  <2>3. Flags'
    BY <1>0, <1>7 DEF SetScoStop, Flags, queues, world
  <2> QED BY <2>1, <2>2, <2>3, PartsNext
<1>8. CASE SetScoStart
  <2>1. pc' \in Places /\ Queues'
    BY <1>0, <1>8 DEF SetScoStart, Queues, queues, world, Places
  <2>2. flight' \in Flights /\ Active' = Active + 2
    BY <1>0, <1>8, Armed DEF SetScoStart, Device
  <2>3. Device'
    BY <1>0, <1>8, <2>2, AltType DEF SetScoStart, Device, Air
  <2>4. Flags'
    BY <1>0, <1>8 DEF SetScoStart, Flags, queues, world
  <2> QED BY <2>1, <2>3, <2>4, PartsNext
<1>9. CASE SetScoFails
  <2>1. pc' \in Places /\ Queues'
    BY <1>0, <1>9, LeaveType DEF SetScoFails
  <2>2. alt' \in {0, 1, 2, 6} /\ target' \in Air
    BY <1>0, <1>9, AltType DEF SetScoFails, Device, Air
  <2>3. flight' \in Flights /\ Active' <= Transfers
    <3>1. CASE UNCHANGED flight
      BY <1>0, <3>1 DEF Device, Active, ActiveIso
    <3>2. ASSUME NEW n \in {0, 1}, ActiveIso = 0, Active + n <= Transfers,
                 flight' = [flight EXCEPT !["scoRx"] = n]
          PROVE  flight' \in Flights /\ Active' <= Transfers
      <4>1. flight' \in Flights /\ Active' = Active + n
        BY <1>0, <3>2, Armed DEF Device
      <4> QED BY <3>2, <4>1
    <3> QED BY <1>9, <3>1, <3>2 DEF SetScoFails
  <2>4. Flags'
    <3>1. stoppingSco' \in BOOLEAN
      BY <1>0, <1>9 DEF SetScoFails, Flags
    <3> QED BY <1>0, <1>9, <3>1, LeaveFlags DEF SetScoFails, Flags
  <2> QED BY <2>1, <2>2, <2>3, <2>4, PartsNext DEF Device
<1>10. CASE SendUsb
  <2>1. pc' \in Places /\ Queues'
    BY <1>0, <1>10 DEF SendUsb, Performing, Queues, world
  <2>2. TxClass(Action.frame) \in Classes
    BY TxClassType DEF Classes
  <2>3. flight' \in Flights /\ Active' = Active + 1
    BY <1>0, <1>10, <2>2, OneMore DEF SendUsb, Device
  <2>4. Device'
    BY <1>0, <1>10, <2>3, Counts, SizeAssumption DEF SendUsb, Device
  <2>5. Flags'
    BY <1>0, <1>10 DEF SendUsb, Flags, world
  <2> QED BY <2>1, <2>4, <2>5, PartsNext
<1>11. CASE HostRead
  <2>1. PICK p \in HostPackets : /\ link' = IF Resets(p) THEN NoLink ELSE link
                                 /\ told' = IF Resets(p) THEN NoLink ELSE told
                                 /\ ghost' = NoLink \/ ghost' = ghost
                                 /\ pending' = pending \o HostActions(p)
    BY <1>11 DEF HostRead
  <2>2. HostActions(p) \in Seq(Actions)
    BY <1>0, HostPacketType, UsbTypes DEF Queues
  <2>3. /\ link' \in Links /\ told' \in Links /\ ghost' \in Links
        /\ pending' \in Seq(Actions)
    BY <1>0, <2>1, <2>2, FrameTypes DEF Queues
  <2>4. reads' \in 0..HostBurst
    BY <1>0, <1>11, SizeAssumption DEF HostRead, Queues
  <2>5. pc' \in Places /\ Queues'
    BY <1>0, <1>11, <2>3, <2>4 DEF HostRead, Queues
  <2> QED BY <1>11, <2>5, <1>a DEF HostRead
<1>12. CASE HostDone
  <2>1. pc' \in Places /\ Queues'
    BY <1>0, <1>12, SizeAssumption DEF HostDone, Queues, world, Places
  <2> QED BY <1>12, <2>1, <1>a DEF HostDone, world
<1>13. CASE Release \/ ExitNow
  <2>1. pc' \in Places /\ Queues'
    BY <1>0, <1>13 DEF Release, ExitNow, Queues, queues, world, Places
  <2>2. Device'
    BY <1>0, <1>13 DEF Release, ExitNow, Device, device, Active, ActiveIso
  <2>3. Flags'
    BY <1>0, <1>13 DEF Release, ExitNow, Flags, device, queues, world
  <2> QED BY <2>1, <2>2, <2>3, PartsNext
<1>14. CASE RadioConnect
  <2>1. radio' \in Links /\ wire' \in Seq(Frames)
    BY <1>0, <1>14, FrameTypes DEF RadioConnect, Queues
  <2>2. pc' \in Places /\ Queues'
    BY <1>0, <1>14, <2>1, FrameTypes DEF RadioConnect, Queues, queues
  <2> QED BY <1>14, <2>2, <1>a DEF RadioConnect, queues
<1>15. CASE RadioDisconnect
  <2>1. radio' \in Links /\ wire' \in Seq(Frames)
    <3>1. radio.h \in Handles \cup {NoHandle}
      BY <1>0 DEF Queues, Links
    <3> QED BY <1>0, <1>15, <3>1, FrameTypes DEF RadioDisconnect, Queues
  <2>2. pc' \in Places /\ Queues'
    BY <1>0, <1>15, <2>1 DEF RadioDisconnect, Queues, queues
  <2> QED BY <1>15, <2>2, <1>a DEF RadioDisconnect, queues
<1>16. CASE Stop
  <2>1. pc' \in Places /\ Queues' /\ Device'
    BY <1>0, <1>16 DEF Stop, Queues, queues, Device, device, Active, ActiveIso
  <2>2. Flags'
    BY <1>0, <1>16 DEF Stop, Flags, queues, device
  <2> QED BY <2>1, <2>2, PartsNext
<1>17. CASE UNCHANGED vars
  <2>1. pc' \in Places /\ Queues'
    BY <1>0, <1>17 DEF vars, Queues, queues, world
  <2> QED BY <1>17, <2>1, <1>a DEF vars, queues, world
<1> QED BY <1>1, <1>2, <1>3, <1>4, <1>5, <1>6, <1>7, <1>8, <1>9, <1>10, <1>11, <1>12, <1>13,
           <1>14, <1>15, <1>16, <1>17, CompletedType DEF Next, Thread, Finished

\* Every state of the serving loop has the expected types, its receive queue and
\* its transfer pool are within their bounds.
THEOREM TypeCorrect == Spec => []TypeOK
BY InitType, NextType, PTL DEF Spec
-----------------------------------------------------------------------------
(* The endpoints: alternate setting, isochronous transfers, receivers.       *)

\* set_sco() waits only for a change to a mode that has endpoints, or to none.
TargetValid == pc = "cancel" /\ target # 0 => AltOf(target) # 0

\* The flag is set only inside set_sco(), or after it has failed.
StoppingPlace == stoppingSco => pc \in {"cancel", "drop", "released", "exited"}

\* What a step does to the pool, the setting and the flag.
Still == UNCHANGED <<alt, flight, stoppingSco, target>>

LEMMA DeviceMoves ==
    ASSUME TypeOK, [Next]_vars
    PROVE  \/ Still
           \/ SetScoBegin \/ SetScoStop \/ SetScoStart \/ SetScoFails \/ SendUsb \/ Release
           \/ \E c \in Classes, status \in Statuses : Completed(c, status)
BY DEF Next, Thread, Finished, Still, vars, device, Leave, Drain, DrainFails, DrainDone, WriteHost,
       SendBlocked, ProcessFails, ProcessDone, SetScoSame, HostDone, HostFails, PumpReturn,
       PumpEnds, ExitNow, HostRead, RadioConnect, RadioDisconnect, Stop

LEMMA CancelMoves ==
    ASSUME TypeOK, [Next]_vars, pc' = "cancel"
    PROVE  \/ pc = "cancel" /\ UNCHANGED target
           \/ SetScoBegin
BY DEF Next, Thread, Finished, vars, device, Leave, Drain, DrainFails, DrainDone, WriteHost,
       SendBlocked, SendUsb, ProcessFails, ProcessDone, SetScoSame, SetScoStop, SetScoStart,
       SetScoFails, HostDone, HostFails, PumpReturn, Performing, Completed,
       PumpEnds, Release, ExitNow, HostRead, RadioConnect, RadioDisconnect, Stop

LEMMA NextTarget == TypeOK /\ TargetValid /\ [Next]_vars => TargetValid'
<1> SUFFICES ASSUME TypeOK, TargetValid, [Next]_vars, pc' = "cancel", target' # 0
             PROVE  AltOf(target') # 0
  BY DEF TargetValid, AltOf
<1> QED BY CancelMoves DEF TargetValid, SetScoBegin

LEMMA Endpoints ==
    TypeOK /\ TargetValid /\ IsoConfigured /\ [Next]_vars
        => IsoConfigured' /\ (alt' # alt => ActiveIso = 0)
<1> SUFFICES ASSUME TypeOK, TargetValid, IsoConfigured, [Next]_vars
             PROVE  IsoConfigured' /\ (alt' # alt => ActiveIso = 0)
  OBVIOUS
<1>0. flight \in Flights /\ ActiveIso \in Nat /\ Active \in Nat /\ ActiveIso <= Active
  BY TypeParts, Counts DEF Device
<1>1. CASE UNCHANGED <<alt, flight>>
  BY <1>1 DEF IsoConfigured, ActiveIso
<1>2. CASE SetScoStop
  BY <1>2 DEF SetScoStop, IsoConfigured, ActiveIso
<1>3. CASE SetScoStart
  BY <1>3, WbsAssumption DEF SetScoStart, IsoConfigured, TargetValid
<1>4. CASE SetScoFails
  <2>1. CASE UNCHANGED <<alt, flight>>
    BY <1>1, <2>1
  <2>2. CASE ActiveIso = 0 /\ UNCHANGED flight
    BY <2>2 DEF IsoConfigured, ActiveIso
  <2>3. CASE ActiveIso = 0 /\ target # 0 /\ alt' = AltOf(target)
    BY <1>4, <2>3 DEF SetScoFails, IsoConfigured, TargetValid
  <2> QED BY <1>4, <2>1, <2>2, <2>3 DEF SetScoFails
<1>5. CASE SendUsb
  <2>1. TxClass(Action.frame) \in Classes
    BY TxClassType DEF Classes
  <2>2. CASE TxClass(Action.frame) \in IsoClasses
    <3>1. alt # 0
      BY <1>5, <2>2 DEF SendUsb, Connected, TxClass, IsoClasses
    <3> QED BY <1>5, <3>1 DEF SendUsb, IsoConfigured
  <2>3. CASE TxClass(Action.frame) \notin IsoClasses
    <3>1. ActiveIso' = ActiveIso
      BY <1>0, <1>5, <2>1, <2>3, OneMore DEF SendUsb
    <3> QED BY <1>5, <3>1 DEF SendUsb, IsoConfigured
  <2> QED BY <2>2, <2>3
<1>6. CASE Release
  <2>1. ActiveIso = 0
    BY <1>0, <1>6 DEF Release
  <2> QED BY <1>6, <2>1 DEF Release, IsoConfigured, ActiveIso
<1>7. ASSUME NEW c \in Classes, NEW status \in Statuses, Completed(c, status)
      PROVE  IsoConfigured' /\ (alt' # alt => ActiveIso = 0)
  <2>1. UNCHANGED alt /\ flight[c] > 0 /\ (UNCHANGED flight \/ flight' = Freed(c))
    BY <1>7 DEF Completed
  <2>2. CASE flight' = Freed(c)
    <3>1. flight' \in Flights /\ ActiveIso' <= ActiveIso
      BY <1>0, <2>1, <2>2, OneLess DEF Freed
    <3>2. ActiveIso' \in Nat
      BY <3>1, ClassNames DEF ActiveIso, Flights
    <3> QED BY <1>0, <2>1, <3>1, <3>2 DEF IsoConfigured
  <2> QED BY <1>1, <2>1, <2>2
<1> QED BY <1>1, <1>2, <1>3, <1>4, <1>5, <1>6, <1>7, DeviceMoves DEF Still, SetScoBegin

LEMMA InitEndpoints == Init => TargetValid /\ IsoConfigured /\ StoppingPlace
BY ClassNames DEF Init, TargetValid, IsoConfigured, StoppingPlace, ActiveIso, Receivers

\* An isochronous transfer is in flight only while its endpoint exists.
THEOREM IsoOnlyConfigured == Spec => []IsoConfigured
BY InitType, NextType, InitEndpoints, NextTarget, Endpoints, PTL DEF Spec

\* The alternate setting changes only with no isochronous transfer in flight.
THEOREM QuietChanges == Spec => AltChangesQuiet
<1>1. TypeOK /\ TargetValid /\ IsoConfigured /\ [Next]_vars => [alt' # alt => ActiveIso = 0]_vars
  BY Endpoints
<1> QED BY <1>1, InitType, NextType, InitEndpoints, NextTarget, Endpoints, PTL
        DEF Spec, AltChangesQuiet

LEMMA NextPlace == TypeOK /\ StoppingPlace /\ [Next]_vars => StoppingPlace'
BY DEF StoppingPlace, Next, Thread, Finished, vars, device, Leave, Drain, DrainFails, DrainDone,
       WriteHost, SendBlocked, SendUsb, ProcessFails, ProcessDone, SetScoSame, SetScoBegin,
       SetScoStop, SetScoStart, SetScoFails, HostDone, HostFails, PumpReturn, Performing, Completed,
       PumpEnds, Release, ExitNow, HostRead, RadioConnect, RadioDisconnect, Stop
\* A receiver whose slot is freed while the service runs leaves fatal set.
LEMMA LostReceiver ==
    ASSUME NEW c \in RxClasses, NEW status \in Statuses, Completed(c, status), ~Stopping(c),
           flight' # flight
    PROVE  fatal'
<1>1. c \notin TxClasses
  BY DEF RxClasses, TxClasses
<1>2. flight' = Freed(c) /\ fatal' = (fatal \/ Breaks(c, status) \/ Rearms(c, status))
  BY <1>1 DEF Completed
<1>3. Breaks(c, status) \/ Rearms(c, status)
  BY DEF Breaks, Rearms, Statuses, IsoLoss
<1> QED BY <1>2, <1>3

LEMMA ServingStays ==
    ASSUME TypeOK, [Next]_vars, Serving'
    PROVE  Serving
BY DEF Serving, Next, Thread, Finished, vars, device, Leave, Drain, DrainFails, DrainDone,
       WriteHost, SendBlocked, SendUsb, ProcessFails, ProcessDone, SetScoSame, SetScoBegin,
       SetScoStop, SetScoStart, SetScoFails, HostDone, HostFails, PumpReturn, Performing, Completed,
       PumpEnds, Release, ExitNow, HostRead, RadioConnect, RadioDisconnect, Stop

LEMMA FatalStays ==
    ASSUME TypeOK, [Next]_vars, fatal
    PROVE  fatal'
<1>1. ASSUME NEW c \in Classes, NEW status \in Statuses, Completed(c, status) PROVE fatal'
  BY <1>1, Zenon DEF Completed
<1>2. UNCHANGED fatal \/ \E c \in Classes, status \in Statuses : Completed(c, status)
  BY DEF Next, Thread, Finished, vars, device, Leave, Drain, DrainFails, DrainDone,
       WriteHost, SendBlocked, SendUsb, ProcessFails, ProcessDone, SetScoSame, SetScoBegin,
       SetScoStop, SetScoStart, SetScoFails, HostDone, HostFails, PumpReturn,
       PumpEnds, Release, ExitNow, HostRead, RadioConnect, RadioDisconnect, Stop
<1> QED BY <1>1, <1>2

LEMMA NextArmed ==
    TypeOK /\ StoppingPlace /\ ReceiversArmed /\ [Next]_vars => ReceiversArmed'
<1> SUFFICES ASSUME TypeOK, StoppingPlace, ReceiversArmed, [Next]_vars, Serving', ~fatal'
             PROVE  /\ flight'["evRx"] = 1 /\ flight'["aclRx"] = 2
                    /\ alt' # 0 /\ ~stoppingSco' => flight'["scoRx"] = 2
  BY DEF ReceiversArmed
<1>0. Serving /\ ~fatal
  BY ServingStays, FatalStays
<1>1. flight["evRx"] = 1 /\ flight["aclRx"] = 2 /\ (alt # 0 /\ ~stoppingSco => flight["scoRx"] = 2)
  BY <1>0 DEF ReceiversArmed
<1>2. flight \in Flights
  BY TypeParts DEF Device
<1>3. CASE Still
  BY <1>1, <1>3 DEF Still
<1>4. CASE SetScoBegin
  BY <1>1, <1>4 DEF SetScoBegin
<1>5. CASE SetScoStop
  BY <1>1, <1>5 DEF SetScoStop
<1>6. CASE SetScoStart
  BY <1>1, <1>2, <1>6, ClassNames DEF SetScoStart, Flights
<1>7. CASE SendUsb
  <2>1. TxClass(Action.frame) \notin {"evRx", "aclRx", "scoRx"}
    BY TxClassType DEF TxClasses
  <2> QED BY <1>1, <1>2, <1>7, <2>1, ClassNames DEF SendUsb, Flights
<1>8. ASSUME NEW c \in Classes, NEW status \in Statuses, Completed(c, status), flight' # flight
      PROVE  /\ flight'["evRx"] = 1 /\ flight'["aclRx"] = 2
             /\ alt' # 0 /\ ~stoppingSco' => flight'["scoRx"] = 2
  <2>1. flight' = [flight EXCEPT ![c] = @ - 1] /\ UNCHANGED <<alt, stoppingSco, pc>>
    BY <1>8 DEF Completed, Freed
  <2>2. CASE c \in RxClasses
    <3>1. Stopping(c)
      BY <1>8, <2>2, LostReceiver
    <3>2. pc # "drop"
      BY <1>0 DEF Serving
    <3>3. c = "scoRx" /\ stoppingSco
      BY <2>2, <3>1, <3>2 DEF Stopping, RxClasses, IsoClasses
    <3> QED BY <1>1, <1>2, <2>1, <3>3, ClassNames DEF Flights
  <2>3. CASE c \notin RxClasses
    <3>1. c \notin {"evRx", "aclRx", "scoRx"}
      BY <2>3 DEF RxClasses
    <3> QED BY <1>1, <1>2, <2>1, <3>1, ClassNames DEF Flights
  <2> QED BY <2>2, <2>3
<1>9. ASSUME NEW c \in Classes, NEW status \in Statuses, Completed(c, status), UNCHANGED flight
      PROVE  Still
  BY <1>9 DEF Completed, Still
<1>10. ~SetScoFails /\ ~Release
  BY DEF Serving, SetScoFails, Release, Leave
<1> QED BY <1>3, <1>4, <1>5, <1>6, <1>7, <1>8, <1>9, <1>10, DeviceMoves

\* Until a transfer fails the receivers are armed, whatever completes, is lost or
\* is cancelled meanwhile: the transport does not go deaf silently.
THEOREM AlwaysArmed == Spec => []ReceiversArmed
<1>1. Init => ReceiversArmed
  BY ClassNames DEF Init, ReceiversArmed, Receivers
<1> QED BY <1>1, InitType, NextType, InitEndpoints, NextPlace, NextArmed, PTL DEF Spec

-----------------------------------------------------------------------------
(* The frames on their way to the transport.                                *)

\* The radio writes events only, and a connection has a supported air mode.
EventFrame(f) == f.kind = 4 /\ (f.op = "conn" => f.m \in Modes)
WireEvents == \A i \in 1..Len(wire) : EventFrame(wire[i])
\* Only events open or close a connection, with a supported air mode.
Announced(f) == /\ f.op \in {"conn", "disc"} => f.kind = 4
                /\ f.op = "conn" => f.m \in Modes
QueueEvents == \A i \in 1..Len(incoming) : Announced(incoming[i])

LEMMA WireMoves ==
    ASSUME TypeOK, [Next]_vars
    PROVE  \/ UNCHANGED wire \/ wire' = <<>> \/ (wire # <<>> /\ wire' = Tail(wire))
           \/ RadioConnect \/ RadioDisconnect
BY DEF Next, Thread, Finished, vars, world, Leave, Drain, DrainFails, DrainDone,
       WriteHost, SendBlocked, SendUsb, ProcessFails, ProcessDone, SetScoSame, SetScoBegin,
       SetScoStop, SetScoStart, SetScoFails, HostDone, HostFails, PumpReturn, Completed,
       PumpEnds, Release, ExitNow, HostRead, Stop

LEMMA NextWire == TypeOK /\ WireEvents /\ [Next]_vars => WireEvents'
<1> SUFFICES ASSUME TypeOK, WireEvents, [Next]_vars PROVE WireEvents'
  OBVIOUS
<1>0. wire \in Seq(Frames)
  BY DEF TypeOK
<1>1. CASE UNCHANGED wire
  BY <1>1 DEF WireEvents, EventFrame
<1>2. CASE wire' = <<>>
  BY <1>2 DEF WireEvents
<1>3. CASE wire # <<>> /\ wire' = Tail(wire)
  BY <1>0, <1>3 DEF WireEvents, EventFrame
<1>4. ASSUME NEW f \in Frames, EventFrame(f), wire' = Append(wire, f) PROVE WireEvents'
  BY <1>0, <1>4 DEF WireEvents, EventFrame
<1>5. CASE RadioConnect
  <2>1. PICK h \in Handles, m \in Modes : wire' = Append(wire, Frame(4, "conn", h, m))
    BY <1>5 DEF RadioConnect
  <2>2. Frame(4, "conn", h, m) \in Frames /\ EventFrame(Frame(4, "conn", h, m))
    BY FrameTypes DEF EventFrame, Frame
  <2> QED BY <1>4, <2>1, <2>2
<1>6. CASE RadioDisconnect
  <2>1. radio.h \in Handles \cup {NoHandle}
    BY DEF TypeOK, Links
  <2>2. Frame(4, "disc", radio.h, 0) \in Frames /\ EventFrame(Frame(4, "disc", radio.h, 0))
    BY <2>1, FrameTypes DEF EventFrame, Frame
  <2> QED BY <1>4, <1>6, <2>2 DEF RadioDisconnect
<1> QED BY <1>1, <1>2, <1>3, <1>5, <1>6, WireMoves

LEMMA IncomingMoves ==
    ASSUME TypeOK, [Next]_vars
    PROVE  \/ UNCHANGED incoming \/ incoming' = <<>>
           \/ incoming # <<>> /\ incoming' = Tail(incoming)
           \/ \E c \in Classes, status \in Statuses : Completed(c, status)
BY DEF Next, Thread, Finished, vars, queues, Leave, Drain, DrainFails, DrainDone,
       WriteHost, SendBlocked, SendUsb, ProcessFails, ProcessDone, SetScoSame, SetScoBegin,
       SetScoStop, SetScoStart, SetScoFails, HostDone, HostFails, PumpReturn,
       PumpEnds, Release, ExitNow, HostRead, Stop, RadioConnect, RadioDisconnect

\* A completion adds at most one frame; audio only from a receiver of a link that
\* is not being stopped.
LEMMA Delivered ==
    ASSUME TypeOK, WireEvents, NEW c \in Classes, NEW status \in Statuses, Completed(c, status)
    PROVE  \/ UNCHANGED incoming
           \/ \E f \in Frames : /\ incoming' = Append(incoming, f) /\ Announced(f)
                                /\ stoppingSco => f.kind # 3
<1> SUFFICES ASSUME ~UNCHANGED incoming
             PROVE  \E f \in Frames : /\ incoming' = Append(incoming, f) /\ Announced(f)
                                      /\ stoppingSco => f.kind # 3
  OBVIOUS
<1>a. PICK data \in Received(c) : Deliver(data) /\ ~Stopping(c)
  BY DEF Completed
<1>b. incoming \in Seq(Frames) /\ (data = <<>> => incoming \o data = incoming)
  BY DEF TypeOK
<1>c. data # <<>> /\ incoming' = incoming \o data
  BY <1>a, <1>b DEF Deliver
<1>0. incoming \in Seq(Frames) /\ wire \in Seq(Frames)
  BY DEF TypeOK
<1>1. ASSUME NEW f \in Frames, data = <<f>>, Announced(f), stoppingSco => f.kind # 3
      PROVE  \E g \in Frames : /\ incoming' = Append(incoming, g) /\ Announced(g)
                               /\ stoppingSco => g.kind # 3
  BY <1>0, <1>1, <1>c
<1>2. CASE c = "scoRx"
  <2>1. ~stoppingSco
    BY <1>2, <1>a DEF Stopping, IsoClasses
  <2>2. PICK h \in Handles : data = <<Sound(h)>>
    BY <1>2, <1>c DEF Received
  <2>3. Sound(h) \in Frames /\ Announced(Sound(h))
    BY FrameTypes DEF Announced, Sound, Frame
  <2> QED BY <1>1, <2>1, <2>2, <2>3
<1>3. CASE wire # <<>> /\ data = <<Head(wire)>>
  <2>1. Head(wire) \in Frames /\ EventFrame(Head(wire))
    BY <1>0, <1>3 DEF WireEvents
  <2>2. Announced(Head(wire)) /\ Head(wire).kind # 3
    BY <2>1 DEF Announced, EventFrame
  <2> QED BY <1>1, <1>3, <2>1, <2>2
<1>4. ASSUME NEW k \in {2, 4}, data = <<Plain(k)>>
      PROVE  \E g \in Frames : /\ incoming' = Append(incoming, g) /\ Announced(g)
                               /\ stoppingSco => g.kind # 3
  <2>1. Plain(k) \in Frames /\ Announced(Plain(k)) /\ Plain(k).kind # 3
    BY FrameTypes DEF Announced, Plain, Frame
  <2> QED BY <1>1, <1>4, <2>1
<1> QED BY <1>2, <1>3, <1>4, <1>c, ReceivedType

\* Audio that completes while set_sco() is stopping a link is dropped.
THEOREM SilentStop == Spec => StoppedIsSilent
<1>1. Init => WireEvents
  BY DEF Init, WireEvents
<1>2. TypeOK /\ WireEvents /\ [Next]_vars =>
        [stoppingSco /\ Len(incoming') > Len(incoming)
            => incoming'[Len(incoming')].kind # 3]_vars
  <2> SUFFICES ASSUME TypeOK, WireEvents, [Next]_vars, stoppingSco, Len(incoming') > Len(incoming)
               PROVE  incoming'[Len(incoming')].kind # 3
    OBVIOUS
  <2>0. incoming \in Seq(Frames)
    BY DEF TypeOK
  <2>1. PICK c \in Classes, status \in Statuses : Completed(c, status)
    BY <2>0, IncomingMoves
  <2>2. PICK f \in Frames : incoming' = Append(incoming, f) /\ f.kind # 3
    BY <2>0, <2>1, Delivered
  <2> QED BY <2>0, <2>2
<1> QED BY <1>1, <1>2, InitType, NextType, NextWire, PTL DEF Spec, StoppedIsSilent

LEMMA NextQueue == TypeOK /\ WireEvents /\ QueueEvents /\ [Next]_vars => QueueEvents'
<1> SUFFICES ASSUME TypeOK, WireEvents, QueueEvents, [Next]_vars PROVE QueueEvents'
  OBVIOUS
<1>0. incoming \in Seq(Frames)
  BY DEF TypeOK
<1>1. CASE UNCHANGED incoming
  BY <1>1 DEF QueueEvents, Announced
<1>2. CASE incoming' = <<>>
  BY <1>2 DEF QueueEvents
<1>3. CASE incoming # <<>> /\ incoming' = Tail(incoming)
  BY <1>0, <1>3 DEF QueueEvents, Announced
<1>4. ASSUME NEW f \in Frames, Announced(f), incoming' = Append(incoming, f) PROVE QueueEvents'
  BY <1>0, <1>4 DEF QueueEvents, Announced
<1> QED BY <1>1, <1>2, <1>3, <1>4, IncomingMoves, Delivered

-----------------------------------------------------------------------------
(* The action queue: the air mode in effect after each action.               *)

\* An action's effect on the air mode the endpoints are configured for, and what
\* it needs of that mode: audio needs an endpoint, and a connection is reported
\* with its own mode configured.
ModeStep(a, before, after) ==
    /\ after = (IF a.tag = "sco" THEN a.mode ELSE before)
    /\ a.tag = "usb" /\ a.frame.kind = 3 => before # 0
    /\ a.tag = "host" /\ a.frame.op = "conn" => before # 0 /\ before = a.frame.m

ModeTrace(q, g) == \A i \in 1..Len(q) : ModeStep(q[i], g[i-1], g[i])

\* The queue q takes the endpoints from mode x to mode y.
Leads(q, x, y) == \E g \in [0..Len(q) -> Air] :
                     ModeTrace(q, g) /\ g[0] = x /\ g[Len(q)] = y

LEMMA LeadsEmpty == ASSUME NEW x \in Air PROVE Leads(<<>>, x, x)
<1> DEFINE g == [i \in 0..0 |-> x]
<1>1. g \in [0..Len(<<>>) -> Air] /\ ModeTrace(<<>>, g) /\ g[0] = x
  BY DEF ModeTrace
<1> QED BY <1>1 DEF Leads

LEMMA LeadsAppend ==
    ASSUME NEW q \in Seq(Actions), NEW x, NEW y, NEW z \in Air, NEW a \in Actions,
           Leads(q, x, y), ModeStep(a, y, z)
    PROVE  Leads(Append(q, a), x, z)
<1>1. PICK g \in [0..Len(q) -> Air] : ModeTrace(q, g) /\ g[0] = x /\ g[Len(q)] = y
  BY DEF Leads
<1>2. Len(q) \in Nat /\ Len(Append(q, a)) = Len(q) + 1
  OBVIOUS
<1> DEFINE r == Append(q, a)
           k == [i \in 0..Len(q) + 1 |-> IF i = Len(q) + 1 THEN z ELSE g[i]]
<1>3. k \in [0..Len(r) -> Air] /\ k[0] = x /\ k[Len(r)] = z
  BY <1>1, <1>2
<1>4. ASSUME NEW i \in 1..Len(r) PROVE ModeStep(r[i], k[i-1], k[i])
  <2>1. CASE i = Len(q) + 1
    <3>1. r[i] = a /\ k[i] = z /\ k[i-1] = y
      BY <1>1, <1>2, <2>1
    <3> QED BY <3>1
  <2>2. CASE i \in 1..Len(q)
    <3>1. r[i] = q[i] /\ k[i] = g[i] /\ k[i-1] = g[i-1]
      BY <1>2, <2>2
    <3>2. ModeStep(q[i], g[i-1], g[i])
      BY <1>1, <2>2 DEF ModeTrace
    <3> QED BY <3>1, <3>2
  <2> QED BY <1>2, <2>1, <2>2
<1>5. ModeTrace(r, k)
  BY <1>4 DEF ModeTrace
<1> HIDE DEF k, r
<1> QED BY <1>3, <1>5 DEF Leads, r

LEMMA LeadsTail ==
    ASSUME NEW q \in Seq(Actions), NEW x, NEW y, Leads(q, x, y), q # <<>>
    PROVE  \E w \in Air : ModeStep(Head(q), x, w) /\ Leads(Tail(q), w, y)
<1>1. PICK g \in [0..Len(q) -> Air] : ModeTrace(q, g) /\ g[0] = x /\ g[Len(q)] = y
  BY DEF Leads
<1>2. Len(q) \in Nat \ {0} /\ Len(Tail(q)) = Len(q) - 1 /\ Head(q) = q[1]
  OBVIOUS
<1> DEFINE r == Tail(q)
           k == [i \in 0..Len(q) - 1 |-> g[i+1]]
<1>3. k \in [0..Len(r) -> Air] /\ k[0] = g[1] /\ k[Len(r)] = y
  BY <1>1, <1>2
<1>4. ASSUME NEW i \in 1..Len(r) PROVE ModeStep(r[i], k[i-1], k[i])
  <2>1. r[i] = q[i+1] /\ k[i] = g[i+1] /\ k[i-1] = g[i] /\ i + 1 \in 1..Len(q) /\ (i + 1) - 1 = i
    BY <1>2
  <2>2. ModeStep(q[i+1], g[(i+1)-1], g[i+1])
    BY <1>1, <2>1 DEF ModeTrace
  <2> QED BY <2>1, <2>2
<1>5. ModeTrace(r, k)
  BY <1>4 DEF ModeTrace
<1>6. ModeStep(Head(q), x, g[1]) /\ g[1] \in Air
  <2>1. 1 \in 1..Len(q) /\ 1 - 1 = 0 /\ 1 \in 0..Len(q)
    BY <1>2
  <2>2. ModeStep(q[1], g[1-1], g[1])
    BY <1>1, <2>1 DEF ModeTrace
  <2> QED BY <1>1, <1>2, <2>1, <2>2
<1> HIDE DEF k, r
<1>7. Leads(r, g[1], y)
  BY <1>3, <1>5 DEF Leads
<1> QED BY <1>6, <1>7 DEF r

-----------------------------------------------------------------------------
(* The action queue: the link the host knows of after each action.           *)

Knows(known, f) == CASE f.op = "conn" -> [h |-> f.h, m |-> f.m]
                     [] f.op = "disc" /\ f.h = known.h -> NoLink
                     [] OTHER -> known

\* An action's effect on the link the host knows of, and what it needs: audio
\* belongs to that link.
HeardStep(a, before, after) ==
    /\ after = (IF a.tag = "host" THEN Knows(before, a.frame) ELSE before)
    /\ a.tag = "host" /\ a.frame.kind = 3 => a.frame.h = before.h

HeardTrace(q, g) == \A i \in 1..Len(q) : HeardStep(q[i], g[i-1], g[i])

\* The queue q takes the host from knowing the link x to knowing the link y.
Tells(q, x, y) == \E g \in [0..Len(q) -> Links] :
                     HeardTrace(q, g) /\ g[0] = x /\ g[Len(q)] = y

\* A queue without a report for the host tells it nothing.
LEMMA TellsNothing ==
    ASSUME NEW q \in Seq(Actions), NEW x \in Links, \A i \in 1..Len(q) : q[i].tag # "host"
    PROVE  Tells(q, x, x)
<1> DEFINE g == [i \in 0..Len(q) |-> x]
<1>1. g \in [0..Len(q) -> Links] /\ g[0] = x /\ g[Len(q)] = x
  OBVIOUS
<1>2. ASSUME NEW i \in 1..Len(q) PROVE HeardStep(q[i], g[i-1], g[i])
  <2>1. g[i] = x /\ g[i-1] = x
    OBVIOUS
  <2> QED BY <2>1 DEF HeardStep
<1>3. HeardTrace(q, g)
  BY <1>2 DEF HeardTrace
<1> HIDE DEF g
<1> QED BY <1>1, <1>3 DEF Tells

LEMMA TellsAppend ==
    ASSUME NEW q \in Seq(Actions), NEW x, NEW y, NEW z \in Links, NEW a \in Actions,
           Tells(q, x, y), HeardStep(a, y, z)
    PROVE  Tells(Append(q, a), x, z)
<1>1. PICK g \in [0..Len(q) -> Links] : HeardTrace(q, g) /\ g[0] = x /\ g[Len(q)] = y
  BY DEF Tells
<1>2. Len(q) \in Nat /\ Len(Append(q, a)) = Len(q) + 1
  OBVIOUS
<1> DEFINE r == Append(q, a)
           k == [i \in 0..Len(q) + 1 |-> IF i = Len(q) + 1 THEN z ELSE g[i]]
<1>3. k \in [0..Len(r) -> Links] /\ k[0] = x /\ k[Len(r)] = z
  BY <1>1, <1>2
<1>4. ASSUME NEW i \in 1..Len(r) PROVE HeardStep(r[i], k[i-1], k[i])
  <2>1. CASE i = Len(q) + 1
    <3>1. r[i] = a /\ k[i] = z /\ k[i-1] = y
      BY <1>1, <1>2, <2>1
    <3> QED BY <3>1
  <2>2. CASE i \in 1..Len(q)
    <3>1. r[i] = q[i] /\ k[i] = g[i] /\ k[i-1] = g[i-1]
      BY <1>2, <2>2
    <3>2. HeardStep(q[i], g[i-1], g[i])
      BY <1>1, <2>2 DEF HeardTrace
    <3> QED BY <3>1, <3>2
  <2> QED BY <1>2, <2>1, <2>2
<1>5. HeardTrace(r, k)
  BY <1>4 DEF HeardTrace
<1> HIDE DEF k, r
<1> QED BY <1>3, <1>5 DEF Tells, r

LEMMA TellsTail ==
    ASSUME NEW q \in Seq(Actions), NEW x, NEW y, Tells(q, x, y), q # <<>>
    PROVE  \E w \in Links : HeardStep(Head(q), x, w) /\ Tells(Tail(q), w, y)
<1>1. PICK g \in [0..Len(q) -> Links] : HeardTrace(q, g) /\ g[0] = x /\ g[Len(q)] = y
  BY DEF Tells
<1>2. Len(q) \in Nat \ {0} /\ Len(Tail(q)) = Len(q) - 1 /\ Head(q) = q[1]
  OBVIOUS
<1> DEFINE r == Tail(q)
           k == [i \in 0..Len(q) - 1 |-> g[i+1]]
<1>3. k \in [0..Len(r) -> Links] /\ k[0] = g[1] /\ k[Len(r)] = y
  BY <1>1, <1>2
<1>4. ASSUME NEW i \in 1..Len(r) PROVE HeardStep(r[i], k[i-1], k[i])
  <2>1. r[i] = q[i+1] /\ k[i] = g[i+1] /\ k[i-1] = g[i] /\ i + 1 \in 1..Len(q) /\ (i + 1) - 1 = i
    BY <1>2
  <2>2. HeardStep(q[i+1], g[(i+1)-1], g[i+1])
    BY <1>1, <2>1 DEF HeardTrace
  <2> QED BY <2>1, <2>2
<1>5. HeardTrace(r, k)
  BY <1>4 DEF HeardTrace
<1>6. HeardStep(Head(q), x, g[1]) /\ g[1] \in Links
  <2>1. 1 \in 1..Len(q) /\ 1 - 1 = 0 /\ 1 \in 0..Len(q)
    BY <1>2
  <2>2. HeardStep(q[1], g[1-1], g[1])
    BY <1>1, <2>1 DEF HeardTrace
  <2> QED BY <1>1, <1>2, <2>1, <2>2
<1> HIDE DEF k, r
<1>7. Tells(r, g[1], y)
  BY <1>3, <1>5 DEF Tells
<1> QED BY <1>6, <1>7 DEF r

-----------------------------------------------------------------------------
(* What the queue will do is what the transport believes.                    *)

\* The air mode the endpoints are configured for, or are about to be.
InEffect(x) == IF pc = "cancel" THEN x = target
               ELSE AltOf(x) = alt /\ (x # 0 => alt # 0)

LinkShape == link = NoLink \/ link.m \in Modes

\* Once the queue is performed, the endpoints are configured for the link the
\* transport has recorded.
ModeAhead == Serving => \E x \in Air : InEffect(x) /\ Leads(pending, x, link.m)

\* Once the queue is performed, the host knows of the link the transport has
\* recorded; what it sends is queued only when it has been told everything.
NoReports == \A i \in 1..Len(pending) : pending[i].tag # "host"
ToldAhead == Serving => /\ Tells(pending, told, link)
                        /\ pc = "host" => told = link /\ NoReports

\* Steps that leave the queue and the endpoints alone.
Kept == UNCHANGED <<pending, link, alt, target>> /\ (pc = "cancel" <=> pc' = "cancel")

LEMMA QueueMoves ==
    ASSUME TypeOK, [Next]_vars, Serving'
    PROVE  \/ Kept /\ UNCHANGED told
           \/ WriteHost \/ SendUsb \/ SetScoSame \/ SetScoBegin \/ SetScoStop \/ SetScoStart
           \/ Drain \/ HostRead
BY DEF Serving, Kept, Next, Thread, Finished, vars, device, queues, Leave, DrainFails, DrainDone,
       SendBlocked, ProcessFails, ProcessDone, SetScoFails, HostDone, HostFails, PumpReturn,
       Performing, Completed, PumpEnds, Release, ExitNow, RadioConnect, RadioDisconnect, Stop

\* The four kinds of frames for Transport::usb.
LEMMA UsbCases ==
    ASSUME NEW f
    PROVE  \/ /\ Opens(f)
              /\ UsbActions(f) = <<SetSco(f.m), ToHost(f)>> /\ UsbLink(f) = [h |-> f.h, m |-> f.m]
           \/ /\ Closes(f)
              /\ UsbActions(f) = <<SetSco(0), ToHost(f)>> /\ UsbLink(f) = NoLink
           \/ /\ Foreign(f)
              /\ UsbActions(f) = <<>> /\ UsbLink(f) = link
           \/ /\ ~Opens(f) /\ ~Closes(f) /\ ~Foreign(f)
              /\ UsbActions(f) = <<ToHost(f)>> /\ UsbLink(f) = link
<1>1. /\ Opens(f) => ~Closes(f) /\ ~Foreign(f)
      /\ Closes(f) => ~Opens(f) /\ ~Foreign(f)
      /\ Foreign(f) => ~Opens(f) /\ ~Closes(f)
  BY DEF Opens, Closes, Foreign
<1> QED BY <1>1 DEF UsbActions, UsbLink

\* The queue after Transport::usb, mode by mode.
LEMMA UsbLeads ==
    ASSUME TypeOK, LinkShape, NEW f \in Frames, Announced(f), ~SecondLink(f),
           NEW x \in Air, Leads(pending, x, link.m)
    PROVE  Leads(pending \o UsbActions(f), x, UsbLink(f).m)
<1>0. pending \in Seq(Actions) /\ link \in Links /\ link.m \in Air /\ f.m \in Air
  BY DEF TypeOK, Links, Air, Frames
<1>1. ToHost(f) \in Actions /\ SetSco(f.m) \in Actions /\ SetSco(0) \in Actions
  BY <1>0, ActionTypes, ScoType DEF Air
<1>2. ASSUME NEW m \in Air, f.op = "conn" => m = f.m /\ m # 0
      PROVE  Leads(pending \o <<SetSco(m), ToHost(f)>>, x, m)
  <2>1. SetSco(m) \in Actions
    BY ScoType
  <2>2. ModeStep(SetSco(m), link.m, m)
    BY DEF ModeStep, SetSco
  <2>3. Leads(Append(pending, SetSco(m)), x, m)
    BY <1>0, <2>1, <2>2, LeadsAppend
  <2>4. ModeStep(ToHost(f), m, m)
    BY <1>2 DEF ModeStep, ToHost
  <2>5. Append(pending, SetSco(m)) \in Seq(Actions)
    BY <1>0, <2>1
  <2>6. Leads(Append(Append(pending, SetSco(m)), ToHost(f)), x, m)
    BY <1>1, <2>3, <2>4, <2>5, LeadsAppend
  <2>7. Append(Append(pending, SetSco(m)), ToHost(f)) = pending \o <<SetSco(m), ToHost(f)>>
    BY <1>0, <1>1, <2>1
  <2> QED BY <2>6, <2>7
<1>3. CASE Opens(f) /\ UsbActions(f) = <<SetSco(f.m), ToHost(f)>>
                   /\ UsbLink(f) = [h |-> f.h, m |-> f.m]
  <2>1. f.op = "conn" /\ f.m # 0
    BY <1>3 DEF Opens, Announced, Modes
  <2>2. UsbActions(f) = <<SetSco(f.m), ToHost(f)>> /\ UsbLink(f).m = f.m
    BY <1>3
  <2> QED BY <1>0, <1>2, <2>1, <2>2
<1>4. CASE Closes(f) /\ UsbActions(f) = <<SetSco(0), ToHost(f)>> /\ UsbLink(f) = NoLink
  <2>1. UsbActions(f) = <<SetSco(0), ToHost(f)>> /\ UsbLink(f).m = 0
    BY <1>4 DEF NoLink
  <2>2. f.op # "conn" /\ 0 \in Air
    BY <1>4 DEF Closes, Air
  <2> QED BY <1>2, <2>1, <2>2
<1>5. CASE Foreign(f) /\ UsbActions(f) = <<>> /\ UsbLink(f) = link
  BY <1>0, <1>5
<1>6. CASE ~Opens(f) /\ UsbActions(f) = <<ToHost(f)>> /\ UsbLink(f) = link
  <2>2. f.op = "conn" => link.m = f.m /\ link.m # 0
    <3> SUFFICES ASSUME f.op = "conn" PROVE link.m = f.m /\ link.m # 0
      OBVIOUS
    <3>1. f.kind = 4 /\ f.m \in Modes
      BY DEF Announced
    <3>2. link = [h |-> f.h, m |-> f.m]
      BY <1>6, <3>1 DEF Opens, SecondLink
    <3> QED BY <3>1, <3>2 DEF Modes
  <2>3. ModeStep(ToHost(f), link.m, link.m)
    BY <2>2 DEF ModeStep, ToHost
  <2>4. Leads(Append(pending, ToHost(f)), x, link.m)
    BY <1>0, <1>1, <2>3, LeadsAppend
  <2>5. pending \o <<ToHost(f)>> = Append(pending, ToHost(f))
    BY <1>0, <1>1
  <2> QED BY <1>6, <2>4, <2>5
<1> QED BY <1>3, <1>4, <1>5, <1>6, UsbCases

\* The queue after Transport::host.
LEMMA HostCases ==
    ASSUME NEW p \in HostPackets
    PROVE  /\ Resets(p) => HostActions(p) = <<SetSco(0), ToUsb(p)>> /\ p.kind # 3
           /\ ~Resets(p) => HostActions(p) \in {<<>>, <<ToUsb(p)>>}
           /\ ~Resets(p) /\ Foreign(p) => HostActions(p) = <<>>
           /\ p.kind = 3 => p.h \in Handles
<1>1. Resets(p) => ~Foreign(p) /\ p.kind # 3
  BY DEF Resets, Foreign
<1>2. p.kind = 3 => p.h \in Handles
  BY DEF HostPackets, Plain, Sound, Frame
<1> QED BY <1>1, <1>2 DEF HostActions

LEMMA HostLeads ==
    ASSUME TypeOK, LinkShape, NEW p \in HostPackets, NEW x \in Air, Leads(pending, x, link.m)
    PROVE  Leads(pending \o HostActions(p), x, (IF Resets(p) THEN NoLink ELSE link).m)
<1>0. pending \in Seq(Actions) /\ link \in Links /\ link.m \in Air /\ 0 \in Air
  BY DEF TypeOK, Links, Air
<1>1. ToUsb(p) \in Actions /\ SetSco(0) \in Actions
  BY <1>0, ActionTypes, ScoType, HostPacketType
<1>2. CASE Resets(p)
  <2>1. ModeStep(SetSco(0), link.m, 0)
    BY DEF ModeStep, SetSco
  <2>2. Leads(Append(pending, SetSco(0)), x, 0) /\ Append(pending, SetSco(0)) \in Seq(Actions)
    BY <1>0, <1>1, <2>1, LeadsAppend
  <2>3. ModeStep(ToUsb(p), 0, 0)
    BY <1>2, HostCases DEF ModeStep, ToUsb
  <2>4. Leads(Append(Append(pending, SetSco(0)), ToUsb(p)), x, 0)
    BY <1>0, <1>1, <2>2, <2>3, LeadsAppend
  <2>5. Append(Append(pending, SetSco(0)), ToUsb(p)) = pending \o <<SetSco(0), ToUsb(p)>>
    BY <1>0, <1>1
  <2>6. HostActions(p) = <<SetSco(0), ToUsb(p)>> /\ NoLink.m = 0
    BY <1>2, HostCases DEF NoLink
  <2> QED BY <1>2, <2>4, <2>5, <2>6
<1>3. CASE ~Resets(p) /\ HostActions(p) = <<>>
  BY <1>0, <1>3
<1>4. CASE ~Resets(p) /\ HostActions(p) # <<>>
  <2>1. HostActions(p) = <<ToUsb(p)>> /\ ~Foreign(p)
    BY <1>4, HostCases
  <2>2. p.kind = 3 => link.m # 0
    <3>1. p.kind = 3 => link.h \in Handles
      BY <2>1, HostCases DEF Foreign
    <3>2. link.h \in Handles => link # NoLink
      BY HandleAssumption DEF NoLink
    <3> QED BY <3>1, <3>2 DEF LinkShape, Modes
  <2>3. ModeStep(ToUsb(p), link.m, link.m)
    BY <2>2 DEF ModeStep, ToUsb
  <2>4. Leads(Append(pending, ToUsb(p)), x, link.m)
    BY <1>0, <1>1, <2>3, LeadsAppend
  <2>5. pending \o <<ToUsb(p)>> = Append(pending, ToUsb(p))
    BY <1>0, <1>1
  <2> QED BY <1>4, <2>1, <2>4, <2>5
<1> QED BY <1>2, <1>3, <1>4

\* The frame that Drain takes.
LEMMA FirstFrame ==
    ASSUME TypeOK, QueueEvents, Drain
    PROVE  /\ Head(incoming) \in Frames /\ Announced(Head(incoming)) /\ ~SecondLink(Head(incoming))
           /\ link' = UsbLink(Head(incoming))
           /\ pending' = pending \o UsbActions(Head(incoming))
           /\ UNCHANGED <<pc, alt, target, told>>
<1>1. incoming \in Seq(Frames) /\ incoming # <<>>
  BY DEF TypeOK, Drain
<1>2. Head(incoming) = incoming[1] /\ 1 \in 1..Len(incoming) /\ Head(incoming) \in Frames
  BY <1>1
<1>3. Announced(Head(incoming))
  BY <1>2 DEF QueueEvents
<1>4. UNCHANGED <<pc, alt, target, told>>
  BY DEF Drain, device
<1> QED BY <1>2, <1>3, <1>4 DEF Drain

LEMMA LinkMoves ==
    ASSUME TypeOK, [Next]_vars
    PROVE  UNCHANGED link \/ link' = NoLink \/ Drain
BY DEF Next, Thread, Finished, vars, queues, Leave, DrainFails, DrainDone,
       WriteHost, SendBlocked, SendUsb, ProcessFails, ProcessDone, SetScoSame, SetScoBegin,
       SetScoStop, SetScoStart, SetScoFails, HostDone, HostFails, PumpReturn, Completed,
       PumpEnds, Release, ExitNow, HostRead, RadioConnect, RadioDisconnect, Stop

LEMMA NextShape == TypeOK /\ QueueEvents /\ LinkShape /\ [Next]_vars => LinkShape'
<1> SUFFICES ASSUME TypeOK, QueueEvents, LinkShape, [Next]_vars PROVE LinkShape'
  OBVIOUS
<1>1. CASE UNCHANGED link
  BY <1>1 DEF LinkShape
<1>2. CASE link' = NoLink
  BY <1>2 DEF LinkShape
<1>3. CASE Drain
  <2> DEFINE f == Head(incoming)
  <2>1. Announced(f) /\ link' = UsbLink(f)
    BY <1>3, FirstFrame
  <2>2. UsbLink(f) = link \/ UsbLink(f) = NoLink
           \/ (Opens(f) /\ UsbLink(f) = [h |-> f.h, m |-> f.m])
    BY UsbCases
  <2>3. Opens(f) => f.m \in Modes
    BY <2>1 DEF Opens, Announced
  <2> QED BY <1>1, <1>2, <2>1, <2>2, <2>3 DEF LinkShape
<1> QED BY <1>1, <1>2, <1>3, LinkMoves

LEMMA NextMode ==
    TypeOK /\ TargetValid /\ QueueEvents /\ LinkShape /\ ModeAhead /\ [Next]_vars => ModeAhead'
<1> SUFFICES ASSUME TypeOK, TargetValid, QueueEvents, LinkShape, ModeAhead, [Next]_vars, Serving'
             PROVE  \E x \in Air : InEffect(x)' /\ Leads(pending', x, link'.m)
  BY DEF ModeAhead, Leads, ModeTrace, ModeStep
<1>1. PICK x \in Air : InEffect(x) /\ Leads(pending, x, link.m)
  BY ServingStays DEF ModeAhead
<1>0. pending \in Seq(Actions) /\ link.m \in Air
  BY DEF TypeOK, Links, Air
<1>2. CASE Kept
  <2>1. InEffect(x)'
    BY <1>1, <1>2 DEF Kept, InEffect
  <2>2. Leads(pending', x, link'.m)
    BY <1>1, <1>2 DEF Kept
  <2> QED BY <2>1, <2>2
<1>3. CASE WriteHost \/ SendUsb
  <2>1. /\ pc = "process" /\ pending # <<>> /\ Head(pending).tag # "sco"
        /\ pending' = Tail(pending) /\ UNCHANGED <<pc, link, alt, target>>
    BY <1>3 DEF WriteHost, SendUsb, Performing, device
  <2>2. PICK w \in Air : ModeStep(Head(pending), x, w) /\ Leads(Tail(pending), w, link.m)
    BY <1>0, <1>1, <2>1, LeadsTail
  <2>3. w = x
    BY <2>1, <2>2 DEF ModeStep
  <2>4. InEffect(x)'
    BY <1>1, <2>1 DEF InEffect
  <2>5. Leads(pending', x, link'.m)
    BY <2>1, <2>2, <2>3
  <2> QED BY <2>4, <2>5
<1>4. CASE SetScoSame \/ SetScoBegin
  <2>1. /\ pending # <<>> /\ Head(pending).tag = "sco" /\ pending' = Tail(pending)
        /\ UNCHANGED <<link, alt>>
    BY <1>4 DEF SetScoSame, SetScoBegin, Performing, device
  <2>2. PICK w \in Air : ModeStep(Head(pending), x, w) /\ Leads(Tail(pending), w, link.m)
    BY <1>0, <1>1, <2>1, LeadsTail
  <2>3. w = Head(pending).mode
    BY <2>1, <2>2 DEF ModeStep
  <2>4. InEffect(w)'
    BY <1>4, <2>1, <2>3 DEF InEffect, SetScoSame, SetScoBegin, Performing, Action, device
  <2>5. Leads(pending', w, link'.m)
    BY <2>1, <2>2
  <2> QED BY <2>4, <2>5
<1>5. CASE SetScoStop \/ SetScoStart
  <2>1. pc = "cancel" /\ x = target
    BY <1>1, <1>5 DEF SetScoStop, SetScoStart, InEffect
  <2>2. pc' = "process" /\ alt' = AltOf(target) /\ UNCHANGED <<pending, link>>
    BY <1>5 DEF SetScoStop, SetScoStart, queues, AltOf
  <2>3. InEffect(x)'
    BY <2>1, <2>2 DEF InEffect, TargetValid
  <2>4. Leads(pending', x, link'.m)
    BY <1>1, <2>2
  <2> QED BY <2>3, <2>4
<1>6. CASE Drain
  <2> DEFINE f == Head(incoming)
  <2>1. /\ f \in Frames /\ Announced(f) /\ ~SecondLink(f)
        /\ link' = UsbLink(f) /\ pending' = pending \o UsbActions(f)
        /\ UNCHANGED <<pc, alt, target>>
    BY <1>6, FirstFrame
  <2> HIDE DEF f
  <2>2. Leads(pending \o UsbActions(f), x, UsbLink(f).m)
    BY <1>1, <2>1, UsbLeads
  <2>3. InEffect(x)'
    BY <1>1, <2>1 DEF InEffect
  <2>4. Leads(pending', x, link'.m)
    BY <2>1, <2>2
  <2> QED BY <2>3, <2>4
<1>7. CASE HostRead
  <2>1. PICK p \in HostPackets : /\ link' = (IF Resets(p) THEN NoLink ELSE link)
                                 /\ pending' = pending \o HostActions(p)
    BY <1>7 DEF HostRead
  <2>2. UNCHANGED <<pc, alt, target>>
    BY <1>7 DEF HostRead, device
  <2>3. Leads(pending \o HostActions(p), x, (IF Resets(p) THEN NoLink ELSE link).m)
    BY <1>1, HostLeads
  <2>4. InEffect(x)'
    BY <1>1, <2>2 DEF InEffect
  <2>5. Leads(pending', x, link'.m)
    BY <2>1, <2>3
  <2> QED BY <2>4, <2>5
<1> QED BY <1>2, <1>3, <1>4, <1>5, <1>6, <1>7, QueueMoves

LEMMA InitAhead == Init => QueueEvents /\ WireEvents /\ LinkShape /\ ModeAhead
<1> SUFFICES ASSUME Init PROVE QueueEvents /\ WireEvents /\ LinkShape /\ ModeAhead
  OBVIOUS
<1>1. QueueEvents /\ WireEvents /\ LinkShape
  BY DEF Init, QueueEvents, WireEvents, LinkShape
<1>2. 0 \in Air /\ Leads(<<>>, 0, 0)
  BY LeadsEmpty DEF Air
<1>3. pending = <<>> /\ link.m = 0 /\ InEffect(0)
  BY DEF Init, NoLink, InEffect, AltOf
<1> QED BY <1>1, <1>2, <1>3 DEF ModeAhead

\* What the action at the front of the queue finds.
LEMMA FrontMode ==
    ASSUME TypeOK, ModeAhead, pc = "process", pending # <<>>
    PROVE  \E x \in Air, w \in Air : /\ ModeStep(Action, x, w)
                                     /\ AltOf(x) = alt /\ (x # 0 => alt # 0)
<1>1. PICK x \in Air : InEffect(x) /\ Leads(pending, x, link.m)
  BY DEF ModeAhead, Serving
<1>2. pending \in Seq(Actions)
  BY DEF TypeOK
<1>3. PICK w \in Air : ModeStep(Head(pending), x, w)
  BY <1>1, <1>2, LeadsTail
<1> QED BY <1>1, <1>3 DEF InEffect, Action

\* Audio of the host is handed to the radio only while it has an endpoint: the
\* packet was accepted for a link, and the queue configures that link before it.
THEOREM AudioHasEndpoint == Spec => []ScoSendConnected
<1>1. TypeOK /\ ModeAhead => ScoSendConnected
  <2> SUFFICES ASSUME TypeOK, ModeAhead, Performing("usb"), Action.frame.kind = 3
               PROVE  alt # 0
    BY DEF ScoSendConnected
  <2>1. pc = "process" /\ pending # <<>> /\ Action.tag = "usb"
    BY DEF Performing, Action
  <2> QED BY <2>1, FrontMode DEF ModeStep
<1> QED BY <1>1, InitType, NextType, InitEndpoints, NextTarget, InitAhead, NextWire, NextQueue,
           NextShape, NextMode, PTL DEF Spec

\* A connection is reported to the host only with the endpoints of its air mode
\* configured and, unless a transfer has failed, both receivers armed.
THEOREM EndpointsFirst == Spec => []ReportedConfigured
<1>1. TypeOK /\ ModeAhead /\ StoppingPlace /\ ReceiversArmed => ReportedConfigured
  <2> SUFFICES ASSUME TypeOK, ModeAhead, StoppingPlace, ReceiversArmed,
                      Performing("host"), Action.frame.op = "conn"
               PROVE  /\ alt # 0 /\ alt = AltOf(Action.frame.m)
                      /\ ~fatal => flight["scoRx"] = 2
    BY DEF ReportedConfigured
  <2>1. pc = "process" /\ pending # <<>> /\ Action.tag = "host"
    BY DEF Performing, Action
  <2>2. alt # 0 /\ alt = AltOf(Action.frame.m)
    BY <2>1, FrontMode DEF ModeStep
  <2>3. Serving /\ ~stoppingSco
    BY <2>1 DEF Serving, StoppingPlace
  <2> QED BY <2>2, <2>3 DEF ReceiversArmed
<1>2. Init => ReceiversArmed
  BY ClassNames DEF Init, ReceiversArmed, Receivers
<1> QED BY <1>1, <1>2, InitType, NextType, InitEndpoints, NextTarget, NextPlace, NextArmed,
           InitAhead, NextWire, NextQueue, NextShape, NextMode, PTL DEF Spec

-----------------------------------------------------------------------------
(* The link the host knows of.                                              *)

LEMMA UsbTells ==
    ASSUME TypeOK, NEW f \in Frames, Announced(f), ~SecondLink(f), Tells(pending, told, link)
    PROVE  Tells(pending \o UsbActions(f), told, UsbLink(f))
<1>0. pending \in Seq(Actions) /\ link \in Links /\ UsbLink(f) \in Links
  BY UsbTypes DEF TypeOK
<1>1. ToHost(f) \in Actions
  BY ActionTypes
<1>2. ASSUME NEW m \in Air, HeardStep(ToHost(f), link, UsbLink(f))
      PROVE  Tells(pending \o <<SetSco(m), ToHost(f)>>, told, UsbLink(f))
  <2>1. SetSco(m) \in Actions
    BY ScoType
  <2>2. HeardStep(SetSco(m), link, link)
    BY DEF HeardStep, SetSco
  <2>3. Tells(Append(pending, SetSco(m)), told, link) /\ Append(pending, SetSco(m)) \in Seq(Actions)
    BY <1>0, <2>1, <2>2, TellsAppend
  <2>4. Tells(Append(Append(pending, SetSco(m)), ToHost(f)), told, UsbLink(f))
    BY <1>0, <1>1, <1>2, <2>3, TellsAppend
  <2>5. Append(Append(pending, SetSco(m)), ToHost(f)) = pending \o <<SetSco(m), ToHost(f)>>
    BY <1>0, <1>1, <2>1
  <2> QED BY <2>4, <2>5
<1>3. CASE Opens(f) /\ UsbActions(f) = <<SetSco(f.m), ToHost(f)>>
                   /\ UsbLink(f) = [h |-> f.h, m |-> f.m]
  <2>1. f.op = "conn" /\ f.kind = 4 /\ f.m \in Air
    BY <1>3 DEF Opens, Frames, Air
  <2>2. Knows(link, f) = UsbLink(f)
    BY <1>3, <2>1 DEF Knows
  <2>3. HeardStep(ToHost(f), link, UsbLink(f))
    BY <2>1, <2>2 DEF HeardStep, ToHost
  <2> QED BY <1>2, <1>3, <2>1, <2>3
<1>4. CASE Closes(f) /\ UsbActions(f) = <<SetSco(0), ToHost(f)>> /\ UsbLink(f) = NoLink
  <2>1. f.op = "disc" /\ f.kind = 4 /\ f.h = link.h /\ 0 \in Air
    BY <1>4 DEF Closes, Air
  <2>2. Knows(link, f) = UsbLink(f)
    BY <1>4, <2>1 DEF Knows
  <2>3. HeardStep(ToHost(f), link, UsbLink(f))
    BY <2>1, <2>2 DEF HeardStep, ToHost
  <2> QED BY <1>2, <1>4, <2>1, <2>3
<1>5. CASE Foreign(f) /\ UsbActions(f) = <<>> /\ UsbLink(f) = link
  BY <1>0, <1>5
<1>6. CASE /\ ~Opens(f) /\ ~Closes(f) /\ ~Foreign(f)
           /\ UsbActions(f) = <<ToHost(f)>> /\ UsbLink(f) = link
  <2>1. f.kind = 3 => f.h = link.h
    BY <1>6 DEF Foreign
  <2>2. f.op = "conn" => link = [h |-> f.h, m |-> f.m]
    BY <1>6 DEF Opens, SecondLink, Announced
  <2>3. ~(f.op = "disc" /\ f.h = link.h)
    BY <1>6 DEF Closes, Announced
  <2>4. Knows(link, f) = link
    BY <2>2, <2>3 DEF Knows
  <2>5. HeardStep(ToHost(f), link, link)
    BY <2>1, <2>4 DEF HeardStep, ToHost
  <2>6. Tells(Append(pending, ToHost(f)), told, link)
    BY <1>0, <1>1, <2>5, TellsAppend
  <2>7. pending \o <<ToHost(f)>> = Append(pending, ToHost(f))
    BY <1>0, <1>1
  <2> QED BY <1>6, <2>6, <2>7
<1> QED BY <1>3, <1>4, <1>5, <1>6, UsbCases

\* A packet of the host adds no report, and a Reset makes both sides forget.
LEMMA HostTells ==
    ASSUME TypeOK, NEW p \in HostPackets, told = link, NoReports
    PROVE  /\ Tells(pending \o HostActions(p), IF Resets(p) THEN NoLink ELSE told,
                                               IF Resets(p) THEN NoLink ELSE link)
           /\ \A i \in 1..Len(pending \o HostActions(p)) :
                 (pending \o HostActions(p))[i].tag # "host"
<1> DEFINE q == pending \o HostActions(p)
<1>0. pending \in Seq(Actions) /\ link \in Links /\ NoLink \in Links
  BY FrameTypes DEF TypeOK
<1>1. HostActions(p) \in Seq(Actions)
  BY <1>0, UsbTypes, HostPacketType
<1>2. HostActions(p) \in {<<>>, <<ToUsb(p)>>, <<SetSco(0), ToUsb(p)>>}
  BY HostCases
<1>3. \A i \in 1..Len(HostActions(p)) : HostActions(p)[i].tag # "host"
  BY <1>2 DEF ToUsb, SetSco
<1>4. q \in Seq(Actions) /\ \A i \in 1..Len(q) : q[i].tag # "host"
  BY <1>0, <1>1, <1>3 DEF NoReports
<1> HIDE DEF q
<1>5. Tells(q, link, link) /\ Tells(q, NoLink, NoLink)
  BY <1>0, <1>4, TellsNothing
<1> QED BY <1>4, <1>5 DEF q

LEMMA HostMoves ==
    ASSUME TypeOK, [Next]_vars, pc' = "host"
    PROVE  \/ UNCHANGED <<pc, pending, link, told>>
           \/ pending = <<>> /\ Serving /\ UNCHANGED <<pending, link, told>>
           \/ HostRead
BY DEF Serving, Next, Thread, Finished, vars, device, queues, Leave, Drain, DrainFails, DrainDone,
       WriteHost, SendBlocked, SendUsb, ProcessFails, ProcessDone, SetScoSame, SetScoBegin,
       SetScoStop, SetScoStart, SetScoFails, HostDone, HostFails, PumpReturn, Performing,
       Completed, PumpEnds, Release, ExitNow, RadioConnect, RadioDisconnect, Stop

LEMMA NextTold ==
    TypeOK /\ QueueEvents /\ ToldAhead /\ [Next]_vars => ToldAhead'
<1> SUFFICES ASSUME TypeOK, QueueEvents, ToldAhead, [Next]_vars, Serving'
             PROVE  /\ Tells(pending', told', link')
                    /\ pc' = "host" => told' = link' /\ NoReports'
  BY DEF ToldAhead, Tells, HeardTrace, HeardStep, Knows
<1>0. pending \in Seq(Actions) /\ told \in Links
  BY DEF TypeOK
<1>1. Tells(pending, told, link)
  BY ServingStays DEF ToldAhead
<1>2. ASSUME HostRead
      PROVE  /\ Tells(pending', told', link')
             /\ told' = link' /\ NoReports'
  <2>1. told = link /\ NoReports
    BY <1>2, ServingStays DEF ToldAhead, HostRead
  <2>2. PICK p \in HostPackets : /\ link' = (IF Resets(p) THEN NoLink ELSE link)
                                 /\ told' = (IF Resets(p) THEN NoLink ELSE told)
                                 /\ pending' = pending \o HostActions(p)
    BY <1>2 DEF HostRead
  <2>3. /\ Tells(pending \o HostActions(p), IF Resets(p) THEN NoLink ELSE told,
                                            IF Resets(p) THEN NoLink ELSE link)
        /\ \A i \in 1..Len(pending \o HostActions(p)) :
              (pending \o HostActions(p))[i].tag # "host"
    BY <2>1, HostTells
  <2>4. Tells(pending', told', link') /\ told' = link'
    BY <2>1, <2>2, <2>3
  <2>5. NoReports'
    BY <2>2, <2>3 DEF NoReports
  <2> QED BY <2>4, <2>5
<1>3. ASSUME pc' = "host" PROVE told' = link' /\ NoReports'
  <2>1. CASE UNCHANGED <<pc, pending, link, told>>
    BY <1>3, <2>1, ServingStays DEF ToldAhead, NoReports
  <2>2. CASE pending = <<>> /\ UNCHANGED <<pending, link, told>>
    <3>1. told = link
      BY <1>1, <2>2 DEF Tells
    <3> QED BY <2>2, <3>1 DEF NoReports
  <2> QED BY <1>2, <1>3, <2>1, <2>2, HostMoves
<1>4. Tells(pending', told', link')
  <2>1. CASE (Kept /\ UNCHANGED told) \/ SetScoStop \/ SetScoStart
    <3>1. UNCHANGED <<pending, told, link>>
      BY <2>1 DEF Kept, SetScoStop, SetScoStart, queues
    <3> QED BY <1>1, <3>1
  <2>2. CASE WriteHost \/ SendUsb \/ SetScoSame \/ SetScoBegin
    <3>1. /\ pending # <<>> /\ pending' = Tail(pending) /\ UNCHANGED link
          /\ told' = (IF Head(pending).tag = "host" THEN Knows(told, Head(pending).frame) ELSE told)
      BY <2>2 DEF WriteHost, SendUsb, SetScoSame, SetScoBegin, Performing, Action, Hears, Knows
    <3>2. PICK w \in Links : HeardStep(Head(pending), told, w) /\ Tells(Tail(pending), w, link)
      BY <1>0, <1>1, <3>1, TellsTail
    <3>3. w = told'
      BY <3>1, <3>2 DEF HeardStep
    <3> QED BY <3>1, <3>2, <3>3
  <2>3. CASE Drain
    <3> DEFINE f == Head(incoming)
    <3>1. /\ f \in Frames /\ Announced(f) /\ ~SecondLink(f)
          /\ link' = UsbLink(f) /\ pending' = pending \o UsbActions(f) /\ UNCHANGED told
      BY <2>3, FirstFrame
    <3> HIDE DEF f
    <3>2. Tells(pending \o UsbActions(f), told, UsbLink(f))
      BY <1>1, <3>1, UsbTells
    <3> QED BY <3>1, <3>2
  <2> QED BY <1>2, <2>1, <2>2, <2>3, QueueMoves
<1> QED BY <1>3, <1>4

LEMMA InitTold == Init => ToldAhead
<1> SUFFICES ASSUME Init PROVE ToldAhead
  OBVIOUS
<1>1. <<>> \in Seq(Actions) /\ \A i \in 1..Len(<<>>) : <<>>[i].tag # "host"
  OBVIOUS
<1>2. Tells(<<>>, NoLink, NoLink)
  BY <1>1, TellsNothing, FrameTypes
<1>3. pending = <<>> /\ told = NoLink /\ link = NoLink /\ pc # "host"
  BY DEF Init
<1> QED BY <1>2, <1>3 DEF ToldAhead

\* Audio reaches the host only for the link it has been told of: Transport::usb
\* drops what belongs to another handle, and the reports keep their order.
THEOREM AudioAfterReport == Spec => []AudioAnnounced
<1>1. TypeOK /\ ToldAhead => AudioAnnounced
  <2> SUFFICES ASSUME TypeOK, ToldAhead, Performing("host"), Action.frame.kind = 3
               PROVE  Action.frame.h = told.h
    BY DEF AudioAnnounced
  <2>1. pending # <<>> /\ Serving /\ Head(pending).tag = "host" /\ Head(pending).frame.kind = 3
    BY DEF Performing, Action, Serving
  <2>2. pending \in Seq(Actions) /\ Tells(pending, told, link)
    BY <2>1 DEF TypeOK, ToldAhead
  <2>3. PICK w \in Links : HeardStep(Head(pending), told, w)
    BY <2>1, <2>2, TellsTail
  <2> QED BY <2>1, <2>3 DEF HeardStep, Action
<1> QED BY <1>1, InitType, NextType, InitAhead, NextWire, NextQueue, InitTold, NextTold, PTL
        DEF Spec

-----------------------------------------------------------------------------
(* Flow control and the room in the transfer pool.                           *)

\* The actions of a queue that will be transfers of the classes S.
Sends(a, S) == a.tag = "usb" /\ TxClass(a.frame) \in S
Sent(q, S) == {i \in 1..Len(q) : Sends(q[i], S)}

LEMMA SentFinite ==
    ASSUME NEW q \in Seq(Actions), NEW S
    PROVE  IsFiniteSet(Sent(q, S)) /\ Cardinality(Sent(q, S)) \in Nat
<1>1. IsFiniteSet(1..Len(q))
  BY FS_Interval
<1>2. Sent(q, S) \in SUBSET (1..Len(q))
  BY DEF Sent
<1> QED BY <1>1, <1>2, FS_Subset, FS_CardinalityType

LEMMA SentEmpty ==
    ASSUME NEW S
    PROVE  Cardinality(Sent(<<>>, S)) = 0
<1>1. Sent(<<>>, S) = {}
  BY DEF Sent
<1> QED BY <1>1, FS_EmptySet

LEMMA SentAppend ==
    ASSUME NEW q \in Seq(Actions), NEW a \in Actions, NEW S
    PROVE  Cardinality(Sent(Append(q, a), S))
             = Cardinality(Sent(q, S)) + (IF Sends(a, S) THEN 1 ELSE 0)
<1>1. /\ Len(q) \in Nat /\ Len(Append(q, a)) = Len(q) + 1
      /\ Append(q, a)[Len(q) + 1] = a
      /\ \A i \in 1..Len(q) : Append(q, a)[i] = q[i]
  OBVIOUS
<1>2. Sent(Append(q, a), S) = Sent(q, S) \cup (IF Sends(a, S) THEN {Len(q) + 1} ELSE {})
  <2>1. 1..(Len(q) + 1) = (1..Len(q)) \cup {Len(q) + 1}
    BY <1>1
  <2>2. \A i \in 1..Len(q) : Sends(Append(q, a)[i], S) <=> Sends(q[i], S)
    BY <1>1
  <2>3. Sends(Append(q, a)[Len(q) + 1], S) <=> Sends(a, S)
    BY <1>1
  <2> HIDE DEF Sends
  <2> QED BY <1>1, <2>1, <2>2, <2>3 DEF Sent
<1>3. Len(q) + 1 \notin Sent(q, S)
  BY <1>1 DEF Sent
<1>4. CASE Sends(a, S)
  BY <1>2, <1>3, <1>4, SentFinite, FS_AddElement
<1>5. CASE ~Sends(a, S)
  BY <1>2, <1>5, SentFinite
<1> QED BY <1>4, <1>5

LEMMA SentTail ==
    ASSUME NEW q \in Seq(Actions), q # <<>>, NEW S
    PROVE  Cardinality(Sent(Tail(q), S))
             = Cardinality(Sent(q, S)) - (IF Sends(Head(q), S) THEN 1 ELSE 0)
<1> DEFINE A == Sent(Tail(q), S)
           B == Sent(q, S) \ {1}
           f == [i \in A |-> i + 1]
<1>1. /\ Len(q) \in Nat \ {0} /\ Len(Tail(q)) = Len(q) - 1 /\ Head(q) = q[1]
      /\ \A i \in 1..Len(q) - 1 : Tail(q)[i] = q[i + 1]
      /\ Tail(q) \in Seq(Actions)
  OBVIOUS
<1>2. \A i : i \in A <=> i \in 1..Len(q) - 1 /\ Sends(q[i + 1], S)
  BY <1>1 DEF Sent
<1>3. \A i : i \in B <=> i \in 2..Len(q) /\ Sends(q[i], S)
  BY <1>1 DEF Sent
<1>4. f \in Bijection(A, B)
  <2>1. f \in [A -> B]
    BY <1>1, <1>2, <1>3
  <2>2. \A i, j \in A : f[i] = f[j] => i = j
    BY <1>1, <1>2
  <2>3. \A j \in B : \E i \in A : f[i] = j
    <3> SUFFICES ASSUME NEW j \in B PROVE \E i \in A : f[i] = j
      OBVIOUS
    <3>1. j - 1 \in A /\ (j - 1) + 1 = j
      BY <1>1, <1>2, <1>3
    <3> QED BY <3>1
  <2> HIDE DEF f, A, B
  <2> QED BY <2>1, <2>2, <2>3 DEF Bijection, Injection, Surjection, IsInjective
<1>5. Cardinality(B) = Cardinality(A)
  <2>1. ExistsBijection(A, B) /\ IsFiniteSet(A)
    BY <1>1, <1>4, SentFinite DEF ExistsBijection
  <2> HIDE DEF A, B
  <2> QED BY <2>1, FS_Bijection
<1>6. 1 \in Sent(q, S) <=> Sends(Head(q), S)
  BY <1>1 DEF Sent
<1>7. Cardinality(B) = IF 1 \in Sent(q, S) THEN Cardinality(Sent(q, S)) - 1
                                           ELSE Cardinality(Sent(q, S))
  BY SentFinite, FS_RemoveElement
<1>8. Cardinality(Sent(q, S)) \in Nat
  BY SentFinite
<1> QED BY <1>5, <1>6, <1>7, <1>8

\* HCI flow control, from the queue to the radio, and the fixed receivers.
Commands == {"cmdTx", "resetTx"}
Data == {"aclTx"}
Waiting(S) == Cardinality(Sent(pending, S))
Credits ==
    /\ flight["evRx"] <= 1 /\ flight["aclRx"] <= 2
    /\ flight["cmdTx"] + flight["resetTx"] + Waiting(Commands) <= 1
    /\ flight["aclTx"] + Waiting(Data) <= AclCredits

LEMMA OutstandingIs == ASSUME NEW S PROVE Outstanding(S) = Waiting(S)
BY DEF Outstanding, Waiting, Sent, Sends

LEMMA WaitingType == ASSUME TypeOK, NEW S PROVE Waiting(S) \in Nat
BY SentFinite DEF TypeOK, Waiting

\* Sums of slots and queued actions.
LEMMA SumShrinks ==
    ASSUME NEW a \in Nat, NEW b \in Nat, NEW c \in Nat, NEW d \in Nat, NEW n \in Nat,
           a + b <= n, c <= a, d <= b
    PROVE  c + d <= n
OBVIOUS

LEMMA SumGrows ==
    ASSUME NEW a \in Nat, NEW b \in Nat, NEW d \in Nat, NEW n \in Nat,
           a + b < n, d <= b + 1
    PROVE  a + d <= n
OBVIOUS

\* Actions that are no transfers do not count.
LEMMA UsbSends ==
    ASSUME TypeOK, NEW f \in Frames, NEW S
    PROVE  Cardinality(Sent(pending \o UsbActions(f), S)) = Waiting(S)
<1>0. pending \in Seq(Actions) /\ Waiting(S) \in Nat /\ f.m \in Air /\ 0 \in Air
  BY WaitingType DEF TypeOK, Frames, Air
<1>1. ASSUME NEW q \in Seq(Actions), NEW a \in Actions, ~Sends(a, S)
      PROVE  Cardinality(Sent(Append(q, a), S)) = Cardinality(Sent(q, S))
  BY <1>1, SentAppend, SentFinite
<1>2. ToHost(f) \in Actions /\ ~Sends(ToHost(f), S)
  BY ActionTypes DEF ToHost, Sends
<1>3. \A m \in Air : SetSco(m) \in Actions /\ ~Sends(SetSco(m), S)
  BY ScoType DEF SetSco, Sends
<1>4. Cardinality(Sent(Append(pending, ToHost(f)), S)) = Waiting(S)
  BY <1>0, <1>1, <1>2 DEF Waiting
<1>5. ASSUME NEW m \in Air
      PROVE  Cardinality(Sent(Append(Append(pending, SetSco(m)), ToHost(f)), S)) = Waiting(S)
  <2>1. Append(pending, SetSco(m)) \in Seq(Actions)
    BY <1>0, <1>3
  <2>2. Cardinality(Sent(Append(pending, SetSco(m)), S)) = Waiting(S)
    BY <1>0, <1>1, <1>3 DEF Waiting
  <2> QED BY <1>1, <1>2, <2>1, <2>2
<1>6. ASSUME NEW m \in Air
      PROVE  Append(Append(pending, SetSco(m)), ToHost(f)) = pending \o <<SetSco(m), ToHost(f)>>
  BY <1>0, <1>2, <1>3
<1>7. pending \o <<ToHost(f)>> = Append(pending, ToHost(f)) /\ pending \o <<>> = pending
  BY <1>0, <1>2
<1> QED BY <1>0, <1>4, <1>5, <1>6, <1>7, UsbCases DEF Waiting

LEMMA HostSends ==
    ASSUME TypeOK, NEW p \in HostPackets, NEW S
    PROVE  Cardinality(Sent(pending \o HostActions(p), S))
             = Waiting(S) + (IF HostActions(p) # <<>> /\ TxClass(p) \in S THEN 1 ELSE 0)
<1>0. pending \in Seq(Actions) /\ Waiting(S) \in Nat /\ p \in Frames
  BY WaitingType, HostPacketType DEF TypeOK
<1>1. ToUsb(p) \in Actions /\ (Sends(ToUsb(p), S) <=> TxClass(p) \in S)
  BY <1>0, ActionTypes DEF ToUsb, Sends
<1>2. SetSco(0) \in Actions /\ ~Sends(SetSco(0), S)
  BY ScoType DEF SetSco, Sends, Air
<1>a. ASSUME NEW q \in Seq(Actions)
      PROVE  Cardinality(Sent(Append(q, ToUsb(p)), S))
               = Cardinality(Sent(q, S)) + (IF TxClass(p) \in S THEN 1 ELSE 0)
  <2>1. CASE TxClass(p) \in S
    BY <1>1, <2>1, SentAppend
  <2>2. CASE TxClass(p) \notin S
    BY <1>1, <2>2, SentAppend
  <2> QED BY <2>1, <2>2
<1>3. CASE HostActions(p) = <<>>
  BY <1>0, <1>3 DEF Waiting
<1>4. CASE HostActions(p) = <<ToUsb(p)>>
  <2>1. pending \o <<ToUsb(p)>> = Append(pending, ToUsb(p))
    BY <1>0, <1>1
  <2>2. HostActions(p) # <<>>
    BY <1>4
  <2> QED BY <1>0, <1>a, <1>4, <2>1, <2>2 DEF Waiting
<1>5. CASE HostActions(p) = <<SetSco(0), ToUsb(p)>>
  <2>1. Append(Append(pending, SetSco(0)), ToUsb(p)) = pending \o <<SetSco(0), ToUsb(p)>>
    BY <1>0, <1>1, <1>2, SMTT(30)
  <2>2. Append(pending, SetSco(0)) \in Seq(Actions)
    BY <1>0, <1>2
  <2>3. Cardinality(Sent(Append(pending, SetSco(0)), S)) = Waiting(S)
    BY <1>0, <1>2, SentAppend DEF Waiting
  <2>4. HostActions(p) # <<>>
    BY <1>5
  <2> QED BY <1>a, <1>5, <2>1, <2>2, <2>3, <2>4
<1> QED BY <1>3, <1>4, <1>5, HostCases

\* The steps that send to the radio, queue for it or hear from it.
LEMMA CreditMoves ==
    ASSUME TypeOK, [Next]_vars
    PROVE  \/ UNCHANGED <<flight, pending>>
           \/ UNCHANGED flight /\ pending' = <<>>
           \/ /\ pending # <<>> /\ pending' = Tail(pending) /\ UNCHANGED flight
           \/ SetScoStart \/ SetScoFails \/ SendUsb \/ Drain \/ HostRead
           \/ \E c \in Classes, status \in Statuses : Completed(c, status)
BY DEF Next, Thread, Finished, vars, device, queues, Leave, DrainFails, DrainDone, WriteHost,
       SendBlocked, ProcessFails, ProcessDone, SetScoSame, SetScoBegin, SetScoStop, HostDone,
       HostFails, PumpReturn, Performing, PumpEnds, Release, ExitNow, RadioConnect,
       RadioDisconnect, Stop

LEMMA NextCredits == TypeOK /\ Credits /\ [Next]_vars => Credits'
<1> SUFFICES ASSUME TypeOK, Credits, [Next]_vars PROVE Credits'
  OBVIOUS
<1>0. flight \in Flights /\ pending \in Seq(Actions) /\ AclCredits \in Nat
      /\ Waiting(Commands) \in Nat /\ Waiting(Data) \in Nat
  BY TypeParts, WaitingType, SizeAssumption DEF Device, Queues
<1>a. \A c \in Classes : flight[c] \in Nat
  BY <1>0 DEF Flights
<1>b. \A S : Waiting(S)' = Cardinality(Sent(pending', S))
  BY DEF Waiting, Sent
<1>c. ASSUME \A c \in Classes \ {"scoRx"} : flight'[c] \in Nat /\ flight'[c] <= flight[c],
             Waiting(Commands)' \in Nat /\ Waiting(Commands)' <= Waiting(Commands),
             Waiting(Data)' \in Nat /\ Waiting(Data)' <= Waiting(Data)
      PROVE  Credits'
  <2>1. /\ flight'["evRx"] <= flight["evRx"] /\ flight'["aclRx"] <= flight["aclRx"]
        /\ flight'["cmdTx"] <= flight["cmdTx"] /\ flight'["resetTx"] <= flight["resetTx"]
        /\ flight'["aclTx"] <= flight["aclTx"]
    BY <1>c, ClassNames
  <2>2. \A c \in {"evRx", "aclRx", "cmdTx", "resetTx", "aclTx"} :
           flight[c] \in Nat /\ flight'[c] \in Nat
    BY <1>a, <1>c, ClassNames
  <2>3. flight'["evRx"] <= 1 /\ flight'["aclRx"] <= 2
    BY <2>1, <2>2 DEF Credits
  <2>4. flight'["cmdTx"] + flight'["resetTx"] + Waiting(Commands)' <= 1
    BY <1>0, <1>c, <2>1, <2>2, SMTT(30) DEF Credits
  <2>5. flight'["aclTx"] + Waiting(Data)' <= AclCredits
    <3>1. flight["aclTx"] + Waiting(Data) <= AclCredits
      BY DEF Credits
    <3>2. flight["aclTx"] \in Nat /\ flight'["aclTx"] \in Nat
      BY <2>2
    <3> QED BY <1>0, <1>c, <2>1, <3>1, <3>2, SumShrinks
  <2> QED BY <2>3, <2>4, <2>5 DEF Credits
<1>d. pending' = pending => Waiting(Commands)' = Waiting(Commands)
                         /\ Waiting(Data)' = Waiting(Data)
  BY DEF Waiting, Sent
<1>1. CASE UNCHANGED <<flight, pending>>
  BY <1>0, <1>a, <1>c, <1>d, <1>1
<1>2. CASE UNCHANGED flight /\ pending' = <<>>
  <2>1. Waiting(Commands)' = 0 /\ Waiting(Data)' = 0
    BY <1>b, <1>2, SentEmpty
  <2> QED BY <1>0, <1>a, <1>c, <1>2, <2>1
<1>3. CASE pending # <<>> /\ pending' = Tail(pending) /\ UNCHANGED flight
  <2>1. \A S : Waiting(S)' = Waiting(S) - (IF Sends(Head(pending), S) THEN 1 ELSE 0)
    BY <1>0, <1>b, <1>3, SentTail DEF Waiting
  <2>2. Tail(pending) \in Seq(Actions)
    BY <1>0, <1>3
  <2>3. \A S : Waiting(S)' \in Nat
    BY <1>b, <1>3, <2>2, SentFinite
  <2> HIDE DEF Sends
  <2> QED BY <1>0, <1>a, <1>c, <1>3, <2>1, <2>3
<1>4. CASE SetScoStart
  BY <1>0, <1>a, <1>c, <1>d, <1>4 DEF SetScoStart, queues, Flights
<1>5. CASE SetScoFails
  <2>1. \A c \in Classes \ {"scoRx"} : flight'[c] = flight[c]
    BY <1>0, <1>5 DEF SetScoFails, Flights
  <2>2. Waiting(Commands)' = 0 /\ Waiting(Data)' = 0
    BY <1>b, <1>5, SentEmpty DEF SetScoFails, Leave
  <2> QED BY <1>0, <1>a, <1>c, <2>1, <2>2
<1>6. CASE SendUsb
  <2> DEFINE c == TxClass(Action.frame)
  <2>1. pending # <<>> /\ Head(pending).tag = "usb" /\ pending' = Tail(pending)
        /\ flight' = [flight EXCEPT ![c] = @ + 1]
    BY <1>6 DEF SendUsb, Performing
  <2>2. c \in TxClasses /\ c \in Classes
    BY TxClassType DEF Classes
  <2>3. \A S : Sends(Head(pending), S) <=> c \in S
    BY <2>1 DEF Sends, Action
  <2> HIDE DEF c
  <2>4. \A S : Waiting(S)' = Waiting(S) - (IF c \in S THEN 1 ELSE 0)
    BY <1>0, <1>b, <2>1, <2>3, SentTail DEF Waiting
  <2>5. \A k \in Classes : flight'[k] = IF k = c THEN flight[k] + 1 ELSE flight[k]
    BY <1>0, <2>1 DEF Flights
  <2>6. /\ flight'["evRx"] = flight["evRx"] /\ flight'["aclRx"] = flight["aclRx"]
        /\ flight'["cmdTx"] = (IF c = "cmdTx" THEN flight["cmdTx"] + 1 ELSE flight["cmdTx"])
        /\ flight'["resetTx"] = (IF c = "resetTx" THEN flight["resetTx"] + 1 ELSE flight["resetTx"])
        /\ flight'["aclTx"] = (IF c = "aclTx" THEN flight["aclTx"] + 1 ELSE flight["aclTx"])
    BY <2>2, <2>5, ClassNames DEF TxClasses
  <2>7. Waiting(Commands)' = Waiting(Commands) - (IF c \in {"cmdTx", "resetTx"} THEN 1 ELSE 0)
    BY <2>4 DEF Commands
  <2>8. Waiting(Data)' = Waiting(Data) - (IF c = "aclTx" THEN 1 ELSE 0)
    BY <2>4 DEF Data
  <2>9. flight'["cmdTx"] + flight'["resetTx"] + Waiting(Commands)' <= 1
    BY <1>0, <1>a, <2>6, <2>7, ClassNames, SMTT(30) DEF Credits
  <2>10. flight'["aclTx"] + Waiting(Data)' <= AclCredits
    <3>1. flight["aclTx"] + Waiting(Data) <= AclCredits /\ flight["aclTx"] \in Nat
      BY <1>a, ClassNames DEF Credits
    <3>2. flight'["aclTx"] + Waiting(Data)' = flight["aclTx"] + Waiting(Data)
      BY <1>0, <2>6, <2>8, <3>1
    <3> QED BY <3>1, <3>2
  <2> QED BY <2>6, <2>9, <2>10 DEF Credits
<1>7. CASE Drain
  <2>1. incoming \in Seq(Frames) /\ incoming # <<>>
    BY <1>7 DEF TypeOK, Drain
  <2>2. Head(incoming) \in Frames
    BY <2>1
  <2>3. pending' = pending \o UsbActions(Head(incoming)) /\ UNCHANGED flight
    BY <1>7 DEF Drain, device
  <2>4. Waiting(Commands)' = Waiting(Commands) /\ Waiting(Data)' = Waiting(Data)
    BY <1>b, <2>2, <2>3, UsbSends
  <2> QED BY <1>0, <1>a, <1>c, <2>3, <2>4
<1>8. CASE HostRead
  <2>1. PICK p \in HostPackets : HostMaySend(p) /\ pending' = pending \o HostActions(p)
    BY <1>8 DEF HostRead
  <2>2. UNCHANGED flight
    BY <1>8 DEF HostRead, device
  <2>3. pending' \in Seq(Actions)
    BY <1>0, <2>1, HostPacketType, UsbTypes DEF TypeOK
  <2>4. Waiting(Commands)' \in Nat /\ Waiting(Data)' \in Nat
    BY <1>b, <2>3, SentFinite
  <2>5. /\ Waiting(Commands)' <= Waiting(Commands) + (IF TxClass(p) \in Commands THEN 1 ELSE 0)
        /\ Waiting(Data)' <= Waiting(Data) + (IF TxClass(p) = "aclTx" THEN 1 ELSE 0)
    <3>1. /\ Waiting(Commands)' = Waiting(Commands)
                + (IF HostActions(p) # <<>> /\ TxClass(p) \in Commands THEN 1 ELSE 0)
          /\ Waiting(Data)' = Waiting(Data)
                + (IF HostActions(p) # <<>> /\ TxClass(p) \in Data THEN 1 ELSE 0)
      BY <1>b, <2>1, HostSends
    <3> QED BY <1>0, <3>1 DEF Data
  <2>6. /\ TxClass(p) \in Commands =>
              flight["cmdTx"] + flight["resetTx"] + Waiting(Commands) = 0
        /\ TxClass(p) = "aclTx" => flight["aclTx"] + Waiting(Data) < AclCredits
    <3>1. /\ p.kind = 1 => flight["cmdTx"] + flight["resetTx"] + Waiting(Commands) = 0
          /\ p.kind = 2 => flight["aclTx"] + Waiting(Data) < AclCredits
      BY <2>1, OutstandingIs DEF HostMaySend, Commands, Data
    <3>2. p.kind \in {1, 2, 3}
      BY DEF HostPackets, Plain, Sound, Frame
    <3>3. TxClass(p) \in Commands => p.kind = 1
      BY <3>2 DEF TxClass, Commands
    <3>4. TxClass(p) = "aclTx" => p.kind = 2
      BY DEF TxClass
    <3> QED BY <3>1, <3>3, <3>4
  <2>7. flight["cmdTx"] + flight["resetTx"] + Waiting(Commands)' <= 1
    BY <1>0, <1>a, <2>4, <2>5, <2>6, ClassNames, SMTT(30) DEF Credits
  <2>8. flight["aclTx"] + Waiting(Data)' <= AclCredits
    <3>1. flight["aclTx"] + Waiting(Data) <= AclCredits /\ flight["aclTx"] \in Nat
      BY <1>a, ClassNames DEF Credits
    <3>2. CASE TxClass(p) = "aclTx"
      BY <1>0, <2>4, <2>5, <2>6, <3>1, <3>2, SumGrows
    <3>3. CASE TxClass(p) # "aclTx"
      BY <1>0, <2>4, <2>5, <3>1, <3>3, SumShrinks
    <3> QED BY <3>2, <3>3
  <2> QED BY <2>2, <2>7, <2>8 DEF Credits
<1>9. ASSUME NEW c \in Classes, NEW status \in Statuses, Completed(c, status)
      PROVE  Credits'
  <2>1. pending' = pending /\ flight[c] > 0 /\ (flight' = flight \/ flight' = Freed(c))
    BY <1>9 DEF Completed
  <2>2. \A k \in Classes : flight'[k] \in Nat /\ flight'[k] <= flight[k]
    BY <1>0, <1>a, <2>1 DEF Freed, Flights
  <2> QED BY <1>0, <1>c, <1>d, <2>1, <2>2
<1> QED BY <1>1, <1>2, <1>3, <1>4, <1>5, <1>6, <1>7, <1>8, <1>9, CreditMoves

\* A pool with six slots beyond the ACL credits always has room for the two
\* receivers of a new SCO link: three fixed receivers, one command and the ACL
\* packets are all that can be in flight once set_sco() has waited for the
\* isochronous transfers.
THEOREM PoolHasRoom ==
    ASSUME Transfers >= 6 + AclCredits
    PROVE  Spec => []RoomForSco
<1>1. Init => Credits
  <2> SUFFICES ASSUME Init PROVE Credits
    OBVIOUS
  <2>1. Waiting(Commands) = 0 /\ Waiting(Data) = 0
    BY SentEmpty DEF Init, Waiting
  <2> QED BY <2>1, ClassNames, SizeAssumption DEF Init, Credits, Receivers
<1>2. TypeOK /\ Credits => RoomForSco
  <2> SUFFICES ASSUME TypeOK, Credits, ActiveIso = 0 PROVE Active + 2 <= Transfers
    BY DEF RoomForSco
  <2>1. flight \in Flights /\ Waiting(Commands) \in Nat /\ Waiting(Data) \in Nat
    BY TypeParts, WaitingType DEF Device
  <2> QED BY <2>1, ClassNames, SizeAssumption DEF Credits, Active, Flights
<1> QED BY <1>1, <1>2, InitType, NextType, NextCredits, PTL DEF Spec

-----------------------------------------------------------------------------
(* The events on their way: from the link of the transport to the radio's.   *)

IsEvent(f) == f.op \in {"conn", "disc"}
LinkOf(f) == [h |-> f.h, m |-> f.m]

\* The effect of a frame on the link, and what it needs: a connection is the
\* link from then on (the loop ends if another is still believed in), and a
\* disconnection ends the link it names, if there is one.
EventStep(f, before, after) ==
    /\ f.op = "conn" => after = LinkOf(f)
    /\ f.op = "disc" => after = NoLink /\ (before = NoLink \/ before.h = f.h)
    /\ ~IsEvent(f) => after = before

\* The frames of q behind the i-th taken together: without an event they leave
\* the link x; otherwise they end with no link or with one they announce.
NoEvents(q, i) == \A j \in i + 1..Len(q) : ~IsEvent(q[j])
Announces(q, i, y) == \E j \in i + 1..Len(q) : q[j].op = "conn" /\ y = LinkOf(q[j])
Ends(q, i, x, y) == \/ NoEvents(q, i) /\ y = x
                    \/ ~NoEvents(q, i) /\ (y = NoLink \/ Announces(q, i, y))

LinkTrace(q, g) == /\ \A i \in 1..Len(q) : EventStep(q[i], g[i-1], g[i])
                   /\ \A i \in 0..Len(q) : Ends(q, i, g[i], g[Len(q)])

\* The frames q take the link from x to y.
Follows(q, x, y) == \E g \in [0..Len(q) -> Links] :
                       LinkTrace(q, g) /\ g[0] = x /\ g[Len(q)] = y

LEMMA FollowsNothing ==
    ASSUME NEW q \in Seq(Frames), NEW x \in Links, NoEvents(q, 0)
    PROVE  Follows(q, x, x)
<1> DEFINE g == [i \in 0..Len(q) |-> x]
<1>1. g \in [0..Len(q) -> Links] /\ g[0] = x /\ g[Len(q)] = x
  OBVIOUS
<1>2. ASSUME NEW i \in 1..Len(q) PROVE EventStep(q[i], g[i-1], g[i])
  <2>1. g[i] = x /\ g[i-1] = x
    OBVIOUS
  <2>2. ~IsEvent(q[i])
    BY DEF NoEvents
  <2> QED BY <2>1, <2>2 DEF EventStep, IsEvent
<1>3. ASSUME NEW i \in 0..Len(q) PROVE Ends(q, i, g[i], g[Len(q)])
  <2>1. NoEvents(q, i)
    BY DEF NoEvents
  <2> QED BY <2>1 DEF Ends
<1>4. LinkTrace(q, g)
  BY <1>2, <1>3 DEF LinkTrace
<1> HIDE DEF g
<1> QED BY <1>1, <1>4 DEF Follows

LEMMA FollowsEnds ==
    ASSUME NEW q \in Seq(Frames), NEW x, NEW y, Follows(q, x, y)
    PROVE  Ends(q, 0, x, y)
<1>1. PICK g \in [0..Len(q) -> Links] : LinkTrace(q, g) /\ g[0] = x /\ g[Len(q)] = y
  BY DEF Follows
<1>2. 0 \in 0..Len(q)
  OBVIOUS
<1> QED BY <1>1, <1>2 DEF LinkTrace

LEMMA EndsAppend ==
    ASSUME NEW q \in Seq(Frames), NEW f \in Frames, NEW x, NEW y, NEW z,
           NEW i \in 0..Len(q), Ends(q, i, x, y), EventStep(f, y, z)
    PROVE  Ends(Append(q, f), i, x, z)
<1> DEFINE r == Append(q, f)
<1>1. /\ Len(q) \in Nat /\ Len(r) = Len(q) + 1 /\ r[Len(q) + 1] = f
      /\ \A j \in 1..Len(q) : r[j] = q[j]
  OBVIOUS
<1> HIDE DEF r
<1>2. i + 1..Len(r) = (i + 1..Len(q)) \cup {Len(q) + 1} /\ i + 1..Len(q) \subseteq 1..Len(q)
  BY <1>1
<1>3. CASE IsEvent(f)
  <2>1. ~NoEvents(r, i)
    BY <1>1, <1>2, <1>3 DEF NoEvents
  <2>2. CASE f.op = "conn"
    <3>1. Announces(r, i, z)
      BY <1>1, <1>2, <2>2 DEF EventStep, Announces
    <3> QED BY <2>1, <3>1 DEF Ends, r
  <2>3. CASE f.op = "disc"
    BY <2>1, <2>3 DEF EventStep, Ends, r
  <2> QED BY <1>3, <2>2, <2>3 DEF IsEvent
<1>4. CASE ~IsEvent(f)
  <2>1. z = y
    BY <1>4 DEF EventStep
  <2>2. NoEvents(r, i) <=> NoEvents(q, i)
    BY <1>1, <1>2, <1>4 DEF NoEvents
  <2>3. Announces(q, i, y) => Announces(r, i, y)
    BY <1>1, <1>2 DEF Announces
  <2> QED BY <2>1, <2>2, <2>3 DEF Ends, r
<1> QED BY <1>3, <1>4

LEMMA FollowsAppend ==
    ASSUME NEW q \in Seq(Frames), NEW x, NEW y, NEW z \in Links, NEW f \in Frames,
           Follows(q, x, y), EventStep(f, y, z)
    PROVE  Follows(Append(q, f), x, z)
<1>1. PICK g \in [0..Len(q) -> Links] : LinkTrace(q, g) /\ g[0] = x /\ g[Len(q)] = y
  BY DEF Follows
<1>2. Len(q) \in Nat /\ Len(Append(q, f)) = Len(q) + 1
  OBVIOUS
<1> DEFINE r == Append(q, f)
           k == [i \in 0..Len(q) + 1 |-> IF i = Len(q) + 1 THEN z ELSE g[i]]
<1>3. k \in [0..Len(r) -> Links] /\ k[0] = x /\ k[Len(r)] = z
  BY <1>1, <1>2
<1>4. ASSUME NEW i \in 1..Len(r) PROVE EventStep(r[i], k[i-1], k[i])
  <2>1. CASE i = Len(q) + 1
    <3>1. r[i] = f /\ k[i] = z /\ k[i-1] = y
      BY <1>1, <1>2, <2>1
    <3> QED BY <3>1
  <2>2. CASE i \in 1..Len(q)
    <3>1. r[i] = q[i] /\ k[i] = g[i] /\ k[i-1] = g[i-1]
      BY <1>2, <2>2
    <3>2. EventStep(q[i], g[i-1], g[i])
      BY <1>1, <2>2 DEF LinkTrace
    <3> QED BY <3>1, <3>2
  <2> QED BY <1>2, <2>1, <2>2
<1>5. ASSUME NEW i \in 0..Len(r) PROVE Ends(r, i, k[i], k[Len(r)])
  <2>1. CASE i = Len(q) + 1
    <3>1. NoEvents(r, i) /\ i = Len(r)
      BY <1>2, <2>1 DEF NoEvents
    <3> QED BY <3>1 DEF Ends
  <2>2. CASE i \in 0..Len(q)
    <3>1. k[i] = g[i]
      BY <1>2, <2>2
    <3>2. Ends(q, i, g[i], y)
      BY <1>1, <2>2 DEF LinkTrace
    <3>3. Ends(r, i, g[i], z)
      BY <2>2, <3>2, EndsAppend
    <3> QED BY <1>3, <3>1, <3>3
  <2> QED BY <1>2, <2>1, <2>2
<1>6. LinkTrace(r, k)
  BY <1>4, <1>5 DEF LinkTrace
<1> HIDE DEF k, r
<1> QED BY <1>3, <1>6 DEF Follows, r

LEMMA FollowsTail ==
    ASSUME NEW q \in Seq(Frames), NEW x, NEW y, Follows(q, x, y), q # <<>>
    PROVE  \E w \in Links : EventStep(Head(q), x, w) /\ Follows(Tail(q), w, y)
<1>1. PICK g \in [0..Len(q) -> Links] : LinkTrace(q, g) /\ g[0] = x /\ g[Len(q)] = y
  BY DEF Follows
<1> DEFINE r == Tail(q)
           k == [i \in 0..Len(q) - 1 |-> g[i+1]]
<1>2. /\ Len(q) \in Nat \ {0} /\ Len(r) = Len(q) - 1 /\ Head(q) = q[1]
      /\ \A j \in 1..Len(q) - 1 : r[j] = q[j + 1]
  OBVIOUS
<1>3. k \in [0..Len(r) -> Links] /\ k[0] = g[1] /\ k[Len(r)] = y
  BY <1>1, <1>2
<1>4. ASSUME NEW i \in 1..Len(r) PROVE EventStep(r[i], k[i-1], k[i])
  <2>1. r[i] = q[i+1] /\ k[i] = g[i+1] /\ k[i-1] = g[i] /\ i + 1 \in 1..Len(q) /\ (i + 1) - 1 = i
    BY <1>2
  <2>2. EventStep(q[i+1], g[(i+1)-1], g[i+1])
    BY <1>1, <2>1 DEF LinkTrace
  <2> QED BY <2>1, <2>2
<1>5. ASSUME NEW i \in 0..Len(r) PROVE Ends(r, i, k[i], k[Len(r)])
  <2>1. i + 1 \in 0..Len(q) /\ k[i] = g[i+1] /\ (i + 1) + 1..Len(q) \subseteq 1..Len(q)
    BY <1>2
  <2>2. Ends(q, i + 1, g[i+1], y)
    BY <1>1, <2>1 DEF LinkTrace
  <2>3. \A j \in i + 1..Len(r) : j + 1 \in (i + 1) + 1..Len(q) /\ r[j] = q[j+1]
    BY <1>2
  <2>4. \A j \in (i + 1) + 1..Len(q) : j - 1 \in i + 1..Len(r) /\ r[j-1] = q[j]
    BY <1>2
  <2>5. NoEvents(r, i) <=> NoEvents(q, i + 1)
    BY <2>3, <2>4 DEF NoEvents
  <2>6. Announces(q, i + 1, y) => Announces(r, i, y)
    BY <2>4 DEF Announces
  <2> HIDE DEF k, r
  <2> QED BY <1>3, <2>1, <2>2, <2>5, <2>6 DEF Ends
<1>6. LinkTrace(r, k)
  BY <1>4, <1>5 DEF LinkTrace
<1>7. EventStep(Head(q), x, g[1]) /\ g[1] \in Links
  <2>1. 1 \in 1..Len(q) /\ 1 - 1 = 0 /\ 1 \in 0..Len(q)
    BY <1>2
  <2>2. EventStep(q[1], g[1-1], g[1])
    BY <1>1, <2>1 DEF LinkTrace
  <2> QED BY <1>1, <1>2, <2>1, <2>2
<1> HIDE DEF k, r
<1>8. Follows(r, g[1], y)
  BY <1>3, <1>6 DEF Follows
<1> QED BY <1>7, <1>8 DEF r

\* The same frames on a transport that has forgotten its link: the first event
\* brings it back to what the radio says.
LEMMA FollowsForgotten ==
    ASSUME NEW q \in Seq(Frames), NEW x, NEW y, Follows(q, x, y), ~NoEvents(q, 0)
    PROVE  Follows(q, NoLink, y)
<1>1. PICK g \in [0..Len(q) -> Links] : LinkTrace(q, g) /\ g[0] = x /\ g[Len(q)] = y
  BY DEF Follows
<1> DEFINE Silent(i) == \A j \in 1..i : ~IsEvent(q[j])
           k == [i \in 0..Len(q) |-> IF Silent(i) THEN NoLink ELSE g[i]]
<1>2. Len(q) \in Nat /\ NoLink \in Links
  BY FrameTypes
<1>3. Silent(0) /\ ~Silent(Len(q))
  BY <1>2 DEF NoEvents
<1>4. k \in [0..Len(q) -> Links] /\ k[0] = NoLink /\ k[Len(q)] = y
  BY <1>1, <1>2, <1>3
<1>5. ASSUME NEW i \in 1..Len(q) PROVE EventStep(q[i], k[i-1], k[i])
  <2>0. i - 1 \in 0..Len(q) /\ i \in 0..Len(q) /\ 1..i = (1..i - 1) \cup {i}
    BY <1>2
  <2>1. EventStep(q[i], g[i-1], g[i])
    BY <1>1 DEF LinkTrace
  <2>2. CASE Silent(i)
    <3>1. Silent(i - 1) /\ ~IsEvent(q[i])
      BY <2>0, <2>2
    <3>2. k[i] = NoLink /\ k[i-1] = NoLink
      BY <2>0, <2>2, <3>1
    <3> QED BY <3>1, <3>2 DEF EventStep, IsEvent
  <2>3. CASE ~Silent(i) /\ Silent(i - 1)
    <3>1. IsEvent(q[i])
      BY <2>0, <2>3
    <3>2. k[i] = g[i] /\ k[i-1] = NoLink
      BY <2>0, <2>3
    <3> QED BY <2>1, <3>1, <3>2 DEF EventStep, IsEvent
  <2>4. CASE ~Silent(i - 1)
    <3>1. ~Silent(i)
      BY <2>0, <2>4
    <3>2. k[i] = g[i] /\ k[i-1] = g[i-1]
      BY <2>0, <2>4, <3>1
    <3> QED BY <2>1, <3>2
  <2> QED BY <2>2, <2>3, <2>4
<1>6. ASSUME NEW i \in 0..Len(q) PROVE Ends(q, i, k[i], k[Len(q)])
  <2>1. Ends(q, i, g[i], y)
    BY <1>1 DEF LinkTrace
  <2>2. CASE ~Silent(i)
    BY <1>4, <2>1, <2>2
  <2>3. CASE Silent(i)
    <3>1. ~NoEvents(q, i)
      BY <1>2, <1>3, <2>3 DEF NoEvents
    <3> QED BY <1>4, <2>1, <3>1 DEF Ends
  <2> QED BY <2>2, <2>3
<1>7. LinkTrace(q, k)
  BY <1>5, <1>6 DEF LinkTrace
<1> HIDE DEF k
<1> QED BY <1>4, <1>7 DEF Follows

-----------------------------------------------------------------------------
(* The link of the transport and the link of the radio.                      *)

\* A Reset of the host is queued or on its way to the radio.
IsReset(a) == a.tag = "usb" /\ TxClass(a.frame) = "resetTx"
ResetDue == flight["resetTx"] > 0 \/ \E i \in 1..Len(pending) : IsReset(pending[i])

\* The link the events of the controller lead to: its own, or the one it dropped
\* for a Reset that overtook the event.
Final == IF ghost = NoLink THEN radio ELSE ghost
GhostDead == ghost # NoLink => radio = NoLink

\* What is on its way leads from the link of the transport to that link; or the
\* transport has forgotten its link for a Reset and nothing is on its way.
InStep == \E mid \in Links : Follows(incoming, link, mid) /\ Follows(wire, mid, Final)
Forgotten == /\ ResetDue /\ link = NoLink /\ ghost = NoLink
             /\ NoEvents(incoming, 0) /\ NoEvents(wire, 0)
Healthy == Serving /\ ~overflow /\ ~fatal
LinkAhead == Healthy => InStep \/ Forgotten

LEMMA HealthyStays ==
    ASSUME TypeOK, [Next]_vars, Healthy'
    PROVE  Healthy
<1>0. Serving /\ ~fatal
  BY ServingStays, FatalStays DEF Healthy
<1>a. overflow \in BOOLEAN /\ ~overflow'
  BY DEF TypeOK, Healthy
<1>1. ASSUME NEW c \in Classes, NEW status \in Statuses, Completed(c, status)
      PROVE  ~overflow
  BY <1>a, <1>1 DEF Completed, Deliver
<1>2. ASSUME UNCHANGED overflow PROVE ~overflow
  BY <1>a, <1>2, Zenon
<1>3. UNCHANGED overflow \/ \E c \in Classes, status \in Statuses : Completed(c, status)
  BY DEF Healthy, Serving, Next, Thread, Finished, vars, queues, device, world, Leave, Drain,
       DrainFails, DrainDone, WriteHost, SendBlocked, SendUsb, ProcessFails, ProcessDone,
       SetScoSame, SetScoBegin, SetScoStop, SetScoStart, SetScoFails, HostDone, HostFails,
       PumpReturn, PumpEnds, Release, ExitNow, HostRead, RadioConnect, RadioDisconnect, Stop
<1> QED BY <1>0, <1>1, <1>2, <1>3 DEF Healthy

LEMMA EventMoves ==
    ASSUME TypeOK, [Next]_vars, Serving'
    PROVE  \/ UNCHANGED <<incoming, link, wire, radio, ghost, pending, flight>>
           \/ WriteHost \/ SetScoSame \/ SetScoBegin \/ SetScoStart \/ SendUsb
           \/ Drain \/ HostRead \/ RadioConnect \/ RadioDisconnect
           \/ \E c \in Classes, status \in Statuses : Completed(c, status)
BY DEF Serving, Next, Thread, Finished, vars, queues, device, world, Leave,
       DrainFails, DrainDone, SendBlocked, ProcessFails, ProcessDone,
       SetScoStop, SetScoFails, HostDone, HostFails,
       PumpReturn, PumpEnds, Release, ExitNow, Stop

LEMMA NextGhost == TypeOK /\ GhostDead /\ [Next]_vars => GhostDead'
<1> SUFFICES ASSUME TypeOK, GhostDead, [Next]_vars PROVE GhostDead'
  OBVIOUS
<1>1. \/ UNCHANGED <<radio, ghost>>
      \/ HostRead \/ RadioConnect \/ RadioDisconnect
      \/ \E c \in Classes, status \in Statuses : Completed(c, status)
  BY DEF Next, Thread, Finished, vars, world, Leave, Drain, DrainFails, DrainDone, WriteHost,
       SendBlocked, SendUsb, ProcessFails, ProcessDone, SetScoSame, SetScoBegin, SetScoStop,
       SetScoStart, SetScoFails, HostDone, HostFails, PumpReturn, PumpEnds, Release, ExitNow, Stop
<1>2. CASE HostRead
  BY <1>2 DEF HostRead, GhostDead
<1>3. CASE RadioConnect \/ RadioDisconnect
  BY <1>3 DEF RadioConnect, RadioDisconnect, GhostDead
<1>4. ASSUME NEW c \in Classes, NEW status \in Statuses, Completed(c, status) PROVE GhostDead'
  BY <1>4 DEF Completed, GhostDead
<1> QED BY <1>1, <1>2, <1>3, <1>4 DEF GhostDead

\* A queued Reset stays queued until it is at the front.
LEMMA ResetWaits ==
    ASSUME NEW q \in Seq(Actions), q # <<>>, NEW i \in 1..Len(q), IsReset(q[i]), ~IsReset(Head(q))
    PROVE  \E j \in 1..Len(Tail(q)) : IsReset(Tail(q)[j])
<1>1. i # 1
  OBVIOUS
<1>2. i - 1 \in 1..Len(Tail(q)) /\ Tail(q)[i-1] = q[i]
  BY <1>1
<1> QED BY <1>2

LEMMA ResetStays ==
    ASSUME TypeOK, [Next]_vars, ResetDue,
           \/ UNCHANGED <<pending, flight>>
           \/ WriteHost \/ SetScoSame \/ SetScoBegin \/ SetScoStart \/ SendUsb
           \/ Drain \/ HostRead
           \/ \E c \in Classes \ {"resetTx"}, status \in Statuses : Completed(c, status)
    PROVE  ResetDue'
<1>0. pending \in Seq(Actions) /\ flight \in Flights /\ flight["resetTx"] \in Nat
      /\ pending' \in Seq(Actions)
  <2>1. TypeOK'
    BY NextType
  <2> QED BY <2>1, TypeParts, ClassNames DEF Device, Queues, Flights, TypeOK
<1>a. ASSUME NEW s \in Seq(Actions), pending' = pending \o s, flight'["resetTx"] = flight["resetTx"]
      PROVE  ResetDue'
  <2>1. \A i \in 1..Len(pending) : i \in 1..Len(pending') /\ pending'[i] = pending[i]
    BY <1>0, <1>a
  <2> QED BY <1>a, <2>1 DEF ResetDue, IsReset
<1>b. ASSUME pending # <<>>, pending' = Tail(pending), flight'["resetTx"] = flight["resetTx"],
             ~IsReset(Head(pending))
      PROVE  ResetDue'
  <2>1. ASSUME NEW i \in 1..Len(pending), IsReset(pending[i])
        PROVE  \E j \in 1..Len(Tail(pending)) : IsReset(Tail(pending)[j])
    BY <1>0, <1>b, <2>1, ResetWaits
  <2> QED BY <1>b, <2>1 DEF ResetDue, IsReset
<1>1. CASE UNCHANGED <<pending, flight>>
  BY <1>1 DEF ResetDue, IsReset
<1>2. CASE WriteHost \/ SetScoSame \/ SetScoBegin
  <2>1. pending # <<>> /\ pending' = Tail(pending) /\ flight' = flight /\ Head(pending).tag # "usb"
    BY <1>2 DEF WriteHost, SetScoSame, SetScoBegin, Performing, device
  <2> QED BY <1>b, <2>1 DEF IsReset
<1>3. CASE SetScoStart
  <2>1. pending' = pending /\ flight'["resetTx"] = flight["resetTx"]
    BY <1>0, <1>3, ClassNames DEF SetScoStart, queues, Flights
  <2> QED BY <2>1 DEF ResetDue, IsReset
<1>4. CASE SendUsb
  <2> DEFINE c == TxClass(Head(pending).frame)
  <2>1. pending # <<>> /\ pending' = Tail(pending) /\ flight' = [flight EXCEPT ![c] = @ + 1]
    BY <1>4 DEF SendUsb, Performing, Action
  <2>2. CASE c = "resetTx"
    BY <1>0, <2>1, <2>2, ClassNames DEF ResetDue, Flights
  <2>3. CASE c # "resetTx"
    <3>1. flight'["resetTx"] = flight["resetTx"]
      BY <1>0, <2>1, <2>3, ClassNames DEF Flights
    <3> QED BY <1>b, <2>1, <2>3, <3>1 DEF IsReset
  <2> QED BY <2>2, <2>3
<1>5. CASE Drain
  <2>1. incoming \in Seq(Frames) /\ incoming # <<>> /\ link \in Links
    BY <1>5 DEF TypeOK, Drain
  <2>2. UsbActions(Head(incoming)) \in Seq(Actions)
    BY <2>1, UsbTypes
  <2> QED BY <1>5, <1>a, <2>2 DEF Drain, device
<1>6. CASE HostRead
  <2>1. PICK p \in HostPackets : pending' = pending \o HostActions(p)
    BY <1>6 DEF HostRead
  <2>2. HostActions(p) \in Seq(Actions)
    BY HostPacketType, UsbTypes DEF TypeOK
  <2> QED BY <1>6, <1>a, <2>1, <2>2 DEF HostRead, device
<1>7. ASSUME NEW c \in Classes, NEW status \in Statuses, Completed(c, status), c # "resetTx"
      PROVE  ResetDue'
  <2>1. pending' = pending /\ (flight' = flight \/ flight' = Freed(c))
    BY <1>7 DEF Completed
  <2>2. flight'["resetTx"] = flight["resetTx"]
    BY <1>0, <1>7, <2>1, ClassNames DEF Freed, Flights
  <2> QED BY <2>1, <2>2 DEF ResetDue, IsReset
<1> QED BY <1>1, <1>2, <1>3, <1>4, <1>5, <1>6, <1>7

\* What a completion adds to the receive queue: the next event of the radio, or
\* data that says nothing of the link.
LEMMA Heard ==
    ASSUME TypeOK, NEW c \in Classes, NEW status \in Statuses, Completed(c, status), ~overflow'
    PROVE  \/ UNCHANGED <<incoming, wire>>
           \/ /\ c # "resetTx" /\ wire # <<>>
              /\ incoming' = Append(incoming, Head(wire)) /\ wire' = Tail(wire)
           \/ /\ c # "resetTx" /\ UNCHANGED wire
              /\ \E f \in Frames : incoming' = Append(incoming, f) /\ ~IsEvent(f)
<1>0. incoming \in Seq(Frames) /\ wire \in Seq(Frames)
  BY DEF TypeOK
<1>1. CASE ~(status = "completed" /\ ~Stopping(c))
  BY <1>1 DEF Completed
<1>2. CASE status = "completed" /\ ~Stopping(c)
  <2>1. PICK data \in Received(c) : Deliver(data)
    BY <1>2 DEF Completed
  <2>2. wire' = IF c = "evRx" /\ wire # <<>> THEN Tail(wire) ELSE wire
    BY <1>2 DEF Completed
  <2>3. incoming' = incoming \o data
    BY <2>1 DEF Deliver
  <2>a. ASSUME NEW f \in Frames, data = <<f>>
        PROVE  incoming' = Append(incoming, f)
    BY <1>0, <2>3, <2>a
  <2>4. CASE c = "evRx" /\ wire # <<>>
    <3>1. data = <<Head(wire)>> /\ Head(wire) \in Frames
      BY <1>0, <2>4 DEF Received
    <3> QED BY <2>2, <2>4, <2>a, <3>1
  <2>5. CASE (c = "evRx" /\ wire = <<>>) \/ c = "aclRx"
    <3>1. KindOf[c] \in {2, 4}
      BY <2>5 DEF KindOf
    <3>2. PICK k \in {2, 4} : data = <<Plain(k)>>
      BY <2>5, <3>1 DEF Received
    <3>3. Plain(k) \in Frames /\ ~IsEvent(Plain(k))
      BY FrameTypes DEF Plain, Frame, IsEvent
    <3> QED BY <2>2, <2>5, <2>a, <3>2, <3>3
  <2>6. CASE c = "scoRx"
    <3>1. data = <<>> \/ \E h \in Handles : data = <<Sound(h)>>
      BY <2>6 DEF Received
    <3>2. \A h \in Handles : Sound(h) \in Frames /\ ~IsEvent(Sound(h))
      BY FrameTypes DEF Sound, Frame, IsEvent
    <3>3. data = <<>> => incoming' = incoming
      BY <1>0, <2>3
    <3> QED BY <2>2, <2>6, <2>a, <3>1, <3>2, <3>3
  <2>7. CASE c \notin {"evRx", "aclRx", "scoRx"}
    <3>1. data = <<>>
      BY <2>7 DEF Received
    <3> QED BY <1>0, <2>2, <2>3, <2>7, <3>1
  <2> QED BY <2>4, <2>5, <2>6, <2>7
<1> QED BY <1>1, <1>2

LEMMA NoEventsTail ==
    ASSUME NEW q \in Seq(Frames), q # <<>>, NoEvents(q, 0)
    PROVE  NoEvents(Tail(q), 0) /\ ~IsEvent(Head(q))
<1>1. \A j \in 1..Len(Tail(q)) : j + 1 \in 1..Len(q) /\ Tail(q)[j] = q[j+1]
  OBVIOUS
<1>2. 1 \in 1..Len(q) /\ Head(q) = q[1]
  OBVIOUS
<1> QED BY <1>1, <1>2 DEF NoEvents

LEMMA NoEventsAppend ==
    ASSUME NEW q \in Seq(Frames), NEW f \in Frames, NoEvents(q, 0), ~IsEvent(f)
    PROVE  NoEvents(Append(q, f), 0)
<1>1. Len(q) \in Nat /\ Len(Append(q, f)) = Len(q) + 1
  OBVIOUS
<1>2. \A j \in 1..Len(q) + 1 : Append(q, f)[j] = IF j = Len(q) + 1 THEN f ELSE q[j]
  OBVIOUS
<1>3. 0 + 1 = 1
  OBVIOUS
<1> QED BY <1>1, <1>2, <1>3 DEF NoEvents

\* Nothing on its way, and both sides agree.
LEMMA NothingAhead ==
    ASSUME NEW q \in Seq(Frames), NEW r \in Seq(Frames), NEW x \in Links,
           NoEvents(q, 0), NoEvents(r, 0)
    PROVE  \E mid \in Links : Follows(q, x, mid) /\ Follows(r, mid, x)
BY FollowsNothing

\* Transport::usb takes one step of the trace.
LEMMA UsbFollows ==
    ASSUME NEW f \in Frames, Announced(f), ~SecondLink(f), NEW y, EventStep(f, link, y)
    PROVE  UsbLink(f) = y
<1>1. CASE f.op = "conn"
  <2>1. (Opens(f) \/ link = [h |-> f.h, m |-> f.m]) /\ y = [h |-> f.h, m |-> f.m]
    BY <1>1 DEF EventStep, Opens, Announced, LinkOf, SecondLink
  <2>2. ~Closes(f)
    BY <1>1 DEF Closes
  <2> QED BY <2>1, <2>2 DEF UsbLink
<1>2. CASE f.op = "disc"
  <2>1. ~Opens(f) /\ y = NoLink
    BY <1>2 DEF EventStep, Opens
  <2>2. link.h = f.h => Closes(f)
    BY <1>2 DEF Closes, Announced
  <2>3. CASE link.h = f.h
    BY <2>1, <2>2, <2>3 DEF UsbLink
  <2>4. CASE link.h # f.h
    BY <1>2, <2>1, <2>4 DEF UsbLink, EventStep, Closes
  <2> QED BY <2>3, <2>4
<1>3. CASE ~IsEvent(f)
  BY <1>3 DEF EventStep, IsEvent, UsbLink, Opens, Closes
<1> QED BY <1>1, <1>2, <1>3 DEF IsEvent

LEMMA NextLinkAhead ==
    TypeOK /\ WireEvents /\ QueueEvents /\ GhostDead /\ LinkAhead /\ [Next]_vars => LinkAhead'
<1> SUFFICES ASSUME TypeOK, WireEvents, QueueEvents, GhostDead, LinkAhead, [Next]_vars, Healthy'
             PROVE  InStep' \/ Forgotten'
  BY DEF LinkAhead
<1>0. /\ incoming \in Seq(Frames) /\ wire \in Seq(Frames) /\ pending \in Seq(Actions)
      /\ link \in Links /\ radio \in Links /\ ghost \in Links /\ NoLink \in Links
  BY FrameTypes DEF TypeOK
<1>a. (InStep \/ Forgotten) /\ Healthy /\ Serving'
  BY HealthyStays DEF LinkAhead, Healthy
<1>b. ASSUME NEW mid \in Links, Follows(incoming', link', mid), Follows(wire', mid, Final')
      PROVE  InStep'
  BY <1>b DEF InStep
<1>1. ASSUME UNCHANGED <<incoming, link, wire, radio, ghost>>, ResetDue => ResetDue'
      PROVE  InStep' \/ Forgotten'
  <2>1. CASE InStep
    <3>1. PICK mid \in Links : Follows(incoming, link, mid) /\ Follows(wire, mid, Final)
      BY <2>1 DEF InStep
    <3>2. Final' = Final
      BY <1>1 DEF Final
    <3>3. Follows(incoming', link', mid) /\ Follows(wire', mid, Final')
      BY <1>1, <3>1, <3>2
    <3> QED BY <1>b, <3>3
  <2>2. CASE Forgotten
    BY <1>1, <2>2 DEF Forgotten, NoEvents, IsEvent
  <2> QED BY <1>a, <2>1, <2>2
<1>2. CASE \/ UNCHANGED <<incoming, link, wire, radio, ghost, pending, flight>>
           \/ WriteHost \/ SetScoSame \/ SetScoBegin \/ SetScoStart \/ SendUsb
  <2>1. UNCHANGED <<incoming, link, wire, radio, ghost>>
    BY <1>2 DEF WriteHost, SetScoSame, SetScoBegin, SetScoStart, SendUsb, queues, world
  <2>2. ResetDue => ResetDue'
    BY <1>2, ResetStays
  <2> QED BY <1>1, <2>1, <2>2
<1>3. CASE Drain
  <2> DEFINE f == Head(incoming)
  <2>1. f \in Frames /\ Announced(f) /\ ~SecondLink(f) /\ link' = UsbLink(f)
    BY <1>3, FirstFrame DEF Drain
  <2>2. /\ incoming # <<>> /\ incoming' = Tail(incoming)
        /\ UNCHANGED <<wire, ghost>> /\ Final' = Final
    BY <1>3 DEF Drain, world, Final
  <2> HIDE DEF f
  <2>3. CASE InStep
    <3>1. PICK mid \in Links : Follows(incoming, link, mid) /\ Follows(wire, mid, Final)
      BY <2>3 DEF InStep
    <3>2. PICK w \in Links : EventStep(f, link, w) /\ Follows(Tail(incoming), w, mid)
      BY <1>0, <2>2, <3>1, FollowsTail DEF f
    <3>3. link' = w
      BY <2>1, <3>2, UsbFollows
    <3>4. Follows(incoming', link', mid) /\ Follows(wire', mid, Final')
      BY <2>2, <3>1, <3>2, <3>3
    <3> QED BY <1>b, <3>4
  <2>4. CASE Forgotten
    <3>1. NoEvents(Tail(incoming), 0) /\ ~IsEvent(f)
      BY <1>0, <2>2, <2>4, NoEventsTail DEF Forgotten, f
    <3>2. link' = NoLink
      BY <2>1, <2>4, <3>1, UsbFollows DEF EventStep, IsEvent, Forgotten
    <3>3. NoEvents(incoming, 0)' /\ NoEvents(wire, 0)'
      BY <2>2, <2>4, <3>1 DEF Forgotten, NoEvents, IsEvent
    <3>4. ResetDue'
      BY <1>3, <2>4, ResetStays DEF Forgotten
    <3> QED BY <2>2, <2>4, <3>2, <3>3, <3>4 DEF Forgotten
  <2> QED BY <1>a, <2>3, <2>4
<1>4. CASE HostRead
  <2>1. PICK p \in HostPackets : /\ link' = (IF Resets(p) THEN NoLink ELSE link)
                                 /\ ghost' = (IF Resets(p) /\ ~Coming(ghost) THEN NoLink ELSE ghost)
                                 /\ pending' = pending \o HostActions(p)
    BY <1>4 DEF HostRead
  <2>2. UNCHANGED <<incoming, wire, radio, flight>> /\ pc = "host"
    BY <1>4 DEF HostRead, device
  <2>3. ResetDue => ResetDue'
    BY <1>4, ResetStays
  <2>4. CASE ~Resets(p)
    BY <1>1, <2>1, <2>2, <2>3, <2>4
  <2>5. CASE Resets(p)
    <3>1. link' = NoLink /\ ResetDue'
      <4>1. ToUsb(p) \in Actions /\ SetSco(0) \in Actions /\ IsReset(ToUsb(p))
        BY <2>5, ActionTypes, HostPacketType, ScoType
        DEF Resets, IsReset, ToUsb, TxClass, Air
      <4>2. pending' = pending \o <<SetSco(0), ToUsb(p)>>
        BY <2>1, <2>5, HostCases
      <4>3. Len(pending) + 2 \in 1..Len(pending') /\ pending'[Len(pending) + 2] = ToUsb(p)
        BY <1>0, <4>1, <4>2
      <4> QED BY <2>1, <2>5, <4>1, <4>3 DEF ResetDue, IsReset
    <3>2. CASE Forgotten
      BY <2>1, <2>2, <3>1, <3>2 DEF Forgotten, NoEvents, IsEvent
    <3>3. CASE InStep
      <4>1. PICK mid \in Links : Follows(incoming, link, mid) /\ Follows(wire, mid, Final)
        BY <3>3 DEF InStep
      <4>a. Ends(incoming, 0, link, mid) /\ Ends(wire, 0, mid, Final)
        BY <1>0, <4>1, FollowsEnds
      <4>b. ASSUME ~NoEvents(incoming, 0) \/ ~NoEvents(wire, 0) PROVE Final' = Final
        <5>1. CASE ghost = NoLink
          BY <2>1, <2>2, <5>1 DEF Final
        <5>2. CASE ghost # NoLink
          <6>1. Announces(incoming, 0, ghost) \/ Announces(wire, 0, ghost)
            BY <4>a, <4>b, <5>2 DEF Ends, Final
          <6>2. Coming(ghost)
            BY <6>1 DEF Announces, Coming, LinkOf
          <6> QED BY <2>1, <2>2, <6>2 DEF Final
        <5> QED BY <5>1, <5>2
      <4>2. CASE ~NoEvents(incoming, 0)
        <5>1. Follows(incoming, NoLink, mid)
          BY <1>0, <4>1, <4>2, FollowsForgotten
        <5>2. Follows(incoming', link', mid) /\ Follows(wire', mid, Final')
          BY <2>2, <3>1, <4>1, <4>2, <4>b, <5>1
        <5> QED BY <1>b, <5>2
      <4>3. CASE NoEvents(incoming, 0) /\ ~NoEvents(wire, 0)
        <5>1. Follows(wire, NoLink, Final)
          BY <1>0, <4>1, <4>3, FollowsForgotten
        <5>2. Follows(incoming, NoLink, NoLink)
          BY <1>0, <4>3, FollowsNothing
        <5>3. Follows(incoming', link', NoLink) /\ Follows(wire', NoLink, Final')
          BY <2>2, <3>1, <4>3, <4>b, <5>1, <5>2
        <5> QED BY <1>0, <1>b, <5>3
      <4>4. CASE NoEvents(incoming, 0) /\ NoEvents(wire, 0)
        <5>1. ~Coming(ghost)
          BY <4>4 DEF Coming, NoEvents, IsEvent
        <5> QED BY <2>1, <2>2, <2>5, <3>1, <4>4, <5>1 DEF Forgotten, NoEvents, IsEvent
      <4> QED BY <4>2, <4>3, <4>4
    <3> QED BY <1>a, <3>2, <3>3
  <2> QED BY <2>4, <2>5
<1>5. ASSUME NEW c \in Classes, NEW status \in Statuses, Completed(c, status)
      PROVE  InStep' \/ Forgotten'
  <2>0. UNCHANGED link /\ ~overflow'
    BY <1>5 DEF Completed, Healthy
  <2>1. CASE c = "resetTx"
    <3>1. status = "completed"
      <4>1. pc # "drop" /\ ~fatal'
        BY <1>a DEF Healthy, Serving
      <4>2. c \notin RxClasses /\ c \notin IsoClasses
        BY <2>1 DEF RxClasses, IsoClasses
      <4>3. ~Breaks(c, status)
        BY <1>5, <4>1, <4>2 DEF Completed, Rearms
      <4> QED BY <4>1, <4>2, <4>3 DEF Breaks, Stopping, IsoLoss, Statuses
    <3>2. UNCHANGED <<incoming, wire>>
      BY <1>5, <2>0, <2>1, Heard
    <3>3. /\ radio' = NoLink
          /\ ghost' = IF radio # NoLink /\ Unheard(radio) THEN radio ELSE ghost
      BY <1>5, <2>1, <3>1 DEF Completed
    <3>4. CASE InStep
      <4>1. PICK mid \in Links : Follows(incoming, link, mid) /\ Follows(wire, mid, Final)
        BY <3>4 DEF InStep
      <4>2. Ends(incoming, 0, link, mid) /\ Ends(wire, 0, mid, Final)
        BY <1>0, <4>1, FollowsEnds
      <4>3. ASSUME radio # NoLink PROVE Unheard(radio)
        <5>1. Final = radio
          BY <4>3 DEF Final, GhostDead
        <5>2. link = radio \/ Announces(incoming, 0, radio) \/ Announces(wire, 0, radio)
          BY <4>2, <4>3, <5>1 DEF Ends
        <5> QED BY <5>2 DEF Unheard, Coming, Announces, LinkOf
      <4>4. Final' = Final
        BY <3>3, <4>3 DEF Final, GhostDead
      <4>5. Follows(incoming', link', mid) /\ Follows(wire', mid, Final')
        BY <2>0, <3>2, <4>1, <4>4
      <4> QED BY <1>b, <4>5
    <3>5. CASE Forgotten
      <4>1. Follows(incoming, NoLink, NoLink) /\ Follows(wire, NoLink, NoLink)
        BY <1>0, <3>5, FollowsNothing DEF Forgotten
      <4>2. radio # NoLink => ~Unheard(radio)
        BY <3>5 DEF Forgotten, Unheard, Coming, NoEvents, IsEvent
      <4>3. Final' = NoLink
        BY <3>3, <3>5, <4>2 DEF Final, Forgotten
      <4>4. Follows(incoming', link', NoLink) /\ Follows(wire', NoLink, Final')
        BY <2>0, <3>2, <3>5, <4>1, <4>3 DEF Forgotten
      <4> QED BY <1>0, <1>b, <4>4
    <3> QED BY <1>a, <3>4, <3>5
  <2>2. CASE c # "resetTx"
    <3>1. UNCHANGED <<radio, ghost>> /\ Final' = Final
      BY <1>5, <2>2 DEF Completed, Final
    <3>2. ResetDue => ResetDue'
      BY <1>5, <2>2, ResetStays
    <3>3. CASE UNCHANGED <<incoming, wire>>
      BY <1>1, <2>0, <3>1, <3>2, <3>3
    <3>4. CASE wire # <<>> /\ incoming' = Append(incoming, Head(wire)) /\ wire' = Tail(wire)
      <4>0. Head(wire) \in Frames
        BY <1>0, <3>4
      <4>1. CASE InStep
        <5>1. PICK mid \in Links : Follows(incoming, link, mid) /\ Follows(wire, mid, Final)
          BY <4>1 DEF InStep
        <5>2. PICK w \in Links : EventStep(Head(wire), mid, w) /\ Follows(Tail(wire), w, Final)
          BY <1>0, <3>4, <5>1, FollowsTail
        <5>3. Follows(Append(incoming, Head(wire)), link, w)
          BY <1>0, <4>0, <5>1, <5>2, FollowsAppend
        <5>4. Follows(incoming', link', w) /\ Follows(wire', w, Final')
          BY <2>0, <3>1, <3>4, <5>2, <5>3
        <5> QED BY <1>b, <5>4
      <4>2. CASE Forgotten
        <5>1. NoEvents(Tail(wire), 0) /\ ~IsEvent(Head(wire))
          BY <1>0, <3>4, <4>2, NoEventsTail DEF Forgotten
        <5>2. NoEvents(Append(incoming, Head(wire)), 0)
          BY <1>0, <4>0, <4>2, <5>1, NoEventsAppend DEF Forgotten
        <5>3. NoEvents(incoming, 0)' /\ NoEvents(wire, 0)'
          BY <3>4, <5>1, <5>2 DEF NoEvents, IsEvent
        <5> QED BY <2>0, <3>1, <3>2, <4>2, <5>3 DEF Forgotten
      <4> QED BY <1>a, <4>1, <4>2
    <3>5. ASSUME NEW f \in Frames, incoming' = Append(incoming, f), ~IsEvent(f), UNCHANGED wire
          PROVE  InStep' \/ Forgotten'
      <4>1. CASE InStep
        <5>1. PICK mid \in Links : Follows(incoming, link, mid) /\ Follows(wire, mid, Final)
          BY <4>1 DEF InStep
        <5>2. EventStep(f, mid, mid)
          BY <3>5 DEF EventStep, IsEvent
        <5>3. Follows(Append(incoming, f), link, mid)
          BY <1>0, <5>1, <5>2, FollowsAppend
        <5>4. Follows(incoming', link', mid) /\ Follows(wire', mid, Final')
          BY <2>0, <3>1, <3>5, <5>1, <5>3
        <5> QED BY <1>b, <5>4
      <4>2. CASE Forgotten
        <5>1. NoEvents(Append(incoming, f), 0)
          BY <1>0, <3>5, <4>2, NoEventsAppend DEF Forgotten
        <5>2. NoEvents(incoming, 0)' /\ NoEvents(wire, 0)'
          BY <3>5, <4>2, <5>1 DEF Forgotten, NoEvents, IsEvent
        <5> QED BY <2>0, <3>1, <3>2, <4>2, <5>2 DEF Forgotten
      <4> QED BY <1>a, <4>1, <4>2
    <3> QED BY <1>5, <2>0, <3>3, <3>4, <3>5, Heard
  <2> QED BY <2>1, <2>2
<1>6. CASE RadioConnect \/ RadioDisconnect
  <2>1. PICK f \in Frames, l \in Links :
           /\ wire' = Append(wire, f) /\ Final' = l
           /\ EventStep(f, Final, l) /\ EventStep(f, NoLink, l)
    <3>1. CASE RadioConnect
      <4>1. PICK h \in Handles, m \in Modes : /\ radio' = [h |-> h, m |-> m]
                                              /\ wire' = Append(wire, Frame(4, "conn", h, m))
        BY <3>1 DEF RadioConnect
      <4>2. Final' = [h |-> h, m |-> m]
        BY <3>1, <4>1 DEF RadioConnect, Final
      <4>3. Frame(4, "conn", h, m) \in Frames /\ [h |-> h, m |-> m] \in Links
        BY FrameTypes
      <4>4. \A x : EventStep(Frame(4, "conn", h, m), x, [h |-> h, m |-> m])
        BY DEF EventStep, Frame, LinkOf, IsEvent
      <4> QED BY <4>1, <4>2, <4>3, <4>4
    <3>2. CASE RadioDisconnect
      <4>1. radio.h \in Handles \cup {NoHandle}
        BY <1>0 DEF Links
      <4>2. Frame(4, "disc", radio.h, 0) \in Frames /\ Frame(4, "disc", radio.h, 0).op = "disc"
        BY <4>1, FrameTypes DEF Frame
      <4>3. /\ EventStep(Frame(4, "disc", radio.h, 0), radio, NoLink)
            /\ EventStep(Frame(4, "disc", radio.h, 0), NoLink, NoLink)
        BY DEF EventStep, Frame, IsEvent
      <4>4. Final = radio /\ Final' = NoLink
        BY <3>2 DEF RadioDisconnect, Final, GhostDead
      <4> QED BY <1>0, <3>2, <4>2, <4>3, <4>4 DEF RadioDisconnect
    <3> QED BY <1>6, <3>1, <3>2
  <2>2. UNCHANGED <<incoming, link>>
    BY <1>6 DEF RadioConnect, RadioDisconnect, queues
  <2>3. ASSUME NEW mid \in Links, Follows(incoming, link, mid), NEW r, Follows(wire, mid, r),
               EventStep(f, r, l)
        PROVE  InStep'
    <3>1. Follows(Append(wire, f), mid, l)
      BY <1>0, <2>3, FollowsAppend
    <3>2. Follows(incoming', link', mid) /\ Follows(wire', mid, Final')
      BY <2>1, <2>2, <2>3, <3>1
    <3> QED BY <1>b, <3>2
  <2>4. CASE InStep
    BY <2>1, <2>3, <2>4 DEF InStep
  <2>5. CASE Forgotten
    <3>1. Follows(incoming, link, NoLink) /\ Follows(wire, NoLink, NoLink)
      BY <1>0, <2>5, FollowsNothing DEF Forgotten
    <3> QED BY <1>0, <2>1, <2>3, <3>1
  <2> QED BY <1>a, <2>4, <2>5
<1> QED BY <1>a, <1>2, <1>3, <1>4, <1>5, <1>6, EventMoves

\* Once every event has been parsed and no Reset is on its way, the transport and
\* the radio agree on the SCO link, however connections, disconnections, resets,
\* losses and completions interleave; the one exception is a link that a Reset
\* ended at the radio before its connection event was forgotten, which the
\* transport believes in until the next connection or Reset.
THEOREM LinksAgree == Spec => []LinkAgrees
<1>1. Init => LinkAhead /\ GhostDead
  <2> SUFFICES ASSUME Init PROVE InStep
    BY DEF LinkAhead, Init, GhostDead
  <2>1. NoEvents(<<>>, 0) /\ <<>> \in Seq(Frames) /\ NoLink \in Links
    BY FrameTypes DEF NoEvents
  <2>2. Follows(<<>>, NoLink, NoLink)
    BY <2>1, FollowsNothing
  <2> QED BY <2>1, <2>2 DEF Init, InStep, Final
<1>2. TypeOK /\ LinkAhead => LinkAgrees
  <2> SUFFICES ASSUME TypeOK, LinkAhead, Calm PROVE link = Final
    BY DEF LinkAgrees, Final
  <2>0. incoming \in Seq(Frames) /\ wire \in Seq(Frames) /\ flight["resetTx"] = 0
    BY DEF TypeOK, Calm
  <2>1. Healthy /\ wire = <<>>
    BY DEF Calm, Healthy
  <2>2. NoEvents(incoming, 0) /\ NoEvents(wire, 0)
    BY <2>1 DEF Calm, NoEvents, IsEvent
  <2>3. ~ResetDue
    BY <2>0 DEF Calm, ResetDue, IsReset, TxClass
  <2>4. PICK mid \in Links : Follows(incoming, link, mid) /\ Follows(wire, mid, Final)
    BY <2>1, <2>3 DEF LinkAhead, Forgotten, InStep
  <2>5. mid = link /\ Final = mid
    BY <2>0, <2>2, <2>4, FollowsEnds DEF Ends
  <2> QED BY <2>5
<1> QED BY <1>1, <1>2, InitType, NextType, InitAhead, NextWire, NextQueue, NextGhost, NextLinkAhead, PTL DEF Spec
=============================================================================
