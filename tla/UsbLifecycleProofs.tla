-------------------------- MODULE UsbLifecycleProofs --------------------------
(* Proofs about UsbLifecycle, for any number of faults.                       *)
EXTENDS UsbLifecycle, TLAPS

\* Places of a process that has claimed both interfaces, in order.
Registered == {"wait", "publish", "notify", "serve"}
Receiving == {"vhci", "register"} \cup Registered
Claimed == {"alt0", "arm"} \cup Receiving
Detached == {"claim0", "claim1"} \cup Claimed
Fresh == {"open"} \cup Down

\* What has been taken at each place of the start.
Taken ==
    /\ pc \in Fresh \cup {"descriptors", "restore", "index", "bootstrap", "detach",
                          "claim0", "claim1", "alt0"} => armed = 0
    /\ pc = "arm" => armed <= 2
    /\ pc \in Receiving => armed = 3
    /\ pc \in Claimed => claims = {0, 1}
    /\ pc = "claim1" => 0 \in claims
    /\ pc \in Registered => vhci = "registered"
    /\ pc \in {"publish", "notify", "serve"} => ~other
    /\ pc \in {"notify", "serve"} => published

\* The virtual controller exists only between the claim and the hangup.
Virtual ==
    /\ pc \in Detached => ~bound
    /\ vhci # "closed" => ~bound /\ pc \in Receiving \cup {"hangup"}

\* A driver that this process has detached is recorded until it is restored, and
\* interface 0 is free when that is tried.
Recorded ==
    /\ pc \in Fresh => own = {}
    /\ pc \in Running /\ ~bound /\ ~lost => "detached" \in own
    /\ 0 \in claims => "claimed0" \in own /\ pc \notin {"reattach", "close"}
    /\ pc \in {"close"} \cup Down /\ ~bound => lost

Told == ready => published /\ pc \in {"serve"} \cup Ending

IInv == TypeOK /\ Taken /\ Virtual /\ Recorded /\ Told

LEMMA InitInv == Init => IInv
<1> SUFFICES ASSUME Init PROVE IInv
  OBVIOUS
<1>1. lost \in BOOLEAN /\ (~bound => lost)
  BY Zenon DEF Init
<1>2. TypeOK
  <2>1. /\ handle \in BOOLEAN /\ bound \in BOOLEAN /\ published \in BOOLEAN
        /\ ready \in BOOLEAN /\ other \in BOOLEAN /\ stop \in BOOLEAN
    BY Zenon DEF Init
  <2>2. /\ pc \in Down /\ claims \subseteq {0, 1} /\ armed \in 0..3 /\ faults \in 0..MaxFaults
        /\ own \subseteq {"detached", "claimed0", "claimed1"}
        /\ vhci \in {"closed", "open", "registered"}
    BY FaultsAssumption DEF Init, Down
  <2> QED BY <1>1, <2>1, <2>2 DEF TypeOK
<1>3. Taken /\ Virtual /\ Told
  BY DEF Init, Taken, Virtual, Told, Fresh, Down, Detached, Claimed, Receiving, Registered
<1>4. Recorded
  BY <1>1 DEF Init, Recorded, Running, Opening, Starting, Ending, Down, Fresh
<1> QED BY <1>2, <1>3, <1>4 DEF IInv

LEMMA IInvImplies == IInv => OneController /\ DriverRestored /\ ReadyMeansServing
BY DEF IInv, TypeOK, Taken, Virtual, Recorded, Told, OneController, DriverRestored,
   ReadyMeansServing, Running, Ending, Down, Detached, Claimed, Receiving, Registered

\* The end of a process, in every way, keeps the invariant if what it knows of the
\* driver is recorded.
LEMMA GoneInv ==
    ASSUME IInv, Gone, lost' \in BOOLEAN, faults' \in 0..MaxFaults, ~bound => lost'
    PROVE  IInv'
<1> USE DEF Gone, IInv
<1>1. TypeOK'
  <2>1. /\ pc' \in Down /\ claims' \subseteq {0, 1} /\ armed' \in 0..3
        /\ own' \subseteq {"detached", "claimed0", "claimed1"}
        /\ vhci' \in {"closed", "open", "registered"}
    BY DEF Down
  <2>2. /\ handle' \in BOOLEAN /\ bound' \in BOOLEAN /\ published' \in BOOLEAN
        /\ ready' \in BOOLEAN /\ other' \in BOOLEAN /\ stop' \in BOOLEAN
    BY Zenon DEF TypeOK
  <2> QED BY <2>1, <2>2 DEF TypeOK
<1>2. Taken'
  BY DEF Taken, Fresh, Down, Claimed, Receiving, Registered
<1>3. Virtual'
  BY DEF Virtual, Detached, Claimed, Receiving, Registered
<1>4. Recorded'
  BY DEF Recorded, Fresh, Down, Running, Opening, Starting, Ending
<1>5. Told'
  BY DEF Told
<1> QED BY <1>1, <1>2, <1>3, <1>4, <1>5

LEMMA NextInv == IInv /\ [Next]_vars => IInv'
<1> SUFFICES ASSUME IInv, [Next]_vars PROVE IInv'
  OBVIOUS
<1> USE FaultsAssumption
        DEF IInv, TypeOK, Taken, Virtual, Recorded, Told, Running, Opening, Starting, Ending, Down,
            Fresh, Registered, Receiving, Claimed, Detached, outside, At, Fault
<1>1. CASE Start
  BY <1>1 DEF Start
<1>2. CASE Stop
  BY <1>2 DEF Stop
<1>3. CASE Open
  BY <1>3 DEF Open
<1>4. CASE LoadDescriptors
  BY <1>4 DEF LoadDescriptors
<1>5. CASE PhysicalIndex
  BY <1>5 DEF PhysicalIndex
<1>6. CASE NoPhysicalIndex
  BY <1>6 DEF NoPhysicalIndex
<1>7. CASE Restore
  BY <1>7 DEF Restore
<1>8. CASE Bootstrap
  BY <1>8 DEF Bootstrap
<1>9. CASE Detach
  BY <1>9 DEF Detach
<1>10. CASE Claim0
  BY <1>10 DEF Claim0
<1>11. CASE Claim1
  BY <1>11, ZenonT(60) DEF Claim1
<1>12. CASE SelectAlt0
  BY <1>12 DEF SelectAlt0
<1>13. CASE Arm
  BY <1>13 DEF Arm
<1>14. CASE OpenVhci
  BY <1>14 DEF OpenVhci
<1>15. CASE Register
  BY <1>15 DEF Register
<1>16. CASE WaitRegistration
  BY <1>16 DEF WaitRegistration, GetsZero
<1>17. CASE WaitStopped
  BY <1>17 DEF WaitStopped
<1>18. CASE Publish
  BY <1>18 DEF Publish
<1>19. CASE Notify
  BY <1>19 DEF Notify
<1>20. CASE EndServing
  BY <1>20 DEF EndServing
<1>21. CASE Hangup
  BY <1>21 DEF Hangup
<1>22. CASE Cancel
  BY <1>22 DEF Cancel
<1>23. CASE Release1
  BY <1>23 DEF Release1
<1>24. CASE Release0
  BY <1>24 DEF Release0
<1>25. CASE Reattach
  BY <1>25 DEF Reattach
<1>26. CASE Close \/ Kill \/ ExitNow \/ OpenFails
  <2>1. Gone /\ faults' \in 0..MaxFaults
    BY <1>26 DEF Close, Kill, ExitNow, OpenFails
  <2>2. CASE Kill \/ ExitNow
    <3>1. lost' = (lost \/ ~bound)
      BY <2>2, Zenon DEF Kill, ExitNow
    <3>2. lost' \in BOOLEAN /\ (~bound => lost')
      BY <3>1, Zenon
    <3> QED BY <2>1, <3>2, GoneInv
  <2>3. CASE Close \/ OpenFails
    <3>1. UNCHANGED lost /\ (~bound => lost)
      BY <2>3 DEF Close, OpenFails
    <3> QED BY <2>1, <3>1, GoneInv
  <2> QED BY <1>26, <2>2, <2>3
<1>27. CASE CallFails
  BY <1>27 DEF CallFails
<1>28. CASE RestoreUnknown
  BY <1>28 DEF RestoreUnknown
<1>29. CASE ReattachFails
  <2>1. lost' = (lost \/ ~bound)
    BY <1>29, Zenon DEF ReattachFails
  <2>2. lost' \in BOOLEAN /\ (~bound => lost')
    BY <2>1, Zenon
  <2> QED BY <1>29, <2>2 DEF ReattachFails
<1>30. CASE UNCHANGED vars
  BY <1>30 DEF vars
<1> QED BY <1>1, <1>2, <1>3, <1>4, <1>5, <1>6, <1>7, <1>8, <1>9, <1>10,
           <1>11, <1>12, <1>13, <1>14, <1>15, <1>16, <1>17, <1>18, <1>19, <1>20,
           <1>21, <1>22, <1>23, <1>24, <1>25, <1>26, <1>27, <1>28, <1>29, <1>30
        DEF Next, Startup, Teardown, Failure, Stopped

\* The virtual controller and btusb's never exist together.
THEOREM NeverTwo == Spec => []OneController
BY InitInv, NextInv, IInvImplies, PTL DEF Spec

\* Every return of run() restores the driver it has taken the radio from.
THEOREM AlwaysRestored == Spec => []DriverRestored
BY InitInv, NextInv, IInvImplies, PTL DEF Spec

\* Readiness is reported after everything it stands for.
THEOREM ReadyLast == Spec => []ReadyMeansServing
BY InitInv, NextInv, IInvImplies, PTL DEF Spec
=============================================================================
