----------------------------- MODULE UsbLifecycle -----------------------------
(***************************************************************************)
(* The life of the floss-usb service around its serving loop: it restores   *)
(* btusb after an unclean exit, lets it initialise the firmware, takes the  *)
(* radio from it, registers a virtual controller, reports readiness, and    *)
(* undoes all of this in the reverse order (run() of main.rs, open(),       *)
(* claim() and drop() of usb.rs).  The serving loop itself, with Usb::drop  *)
(* up to the end of the cancellation, is module UsbTransport.               *)
(*                                                                          *)
(* Each step is one call with an effect outside the process, since the      *)
(* process may be killed between any two.  systemd starts the service and   *)
(* restarts it after a failure (external).                                  *)
(***************************************************************************)
EXTENDS Integers, FiniteSets

CONSTANT
    MaxFaults     \* bound of the model: calls that fail and kills

ASSUME FaultsAssumption == MaxFaults \in Nat

VARIABLES
    pc,        \* the next call of run(), or of the drops at its return
    handle,    \* the device is open
    bound,     \* external: btusb is bound to interface 0
    claims,    \* external: interfaces the kernel has granted to this process
    own,       \* Inner.detached, Inner.claimed0 and Inner.claimed1
    armed,     \* receivers submitted by start_receivers()
    vhci,      \* the virtual HCI device: closed, open or registered
    published, \* sco-packet-size exists in the runtime directory
    ready,     \* systemd has been notified
    other,     \* external: another Bluetooth adapter holds hci0
    stop,      \* systemd has asked the service to stop (SIGTERM)
    faults,    \* faults so far
    lost       \* history: btusb was left unbound by a kill or a failed attach

outside == <<bound, claims, vhci, published, ready>>
vars == <<pc, handle, own, armed, outside, other, stop, faults, lost>>

-----------------------------------------------------------------------------
(* Places.                                                                  *)

\* Before there is a Usb value, an error returns without its drop.
Opening == {"open"}
Starting == {"descriptors", "restore", "index", "bootstrap", "detach", "claim0", "claim1",
             "alt0", "arm", "vhci", "register", "wait", "publish", "notify"}
Ending == {"hangup", "cancel", "release1", "release0", "reattach", "close"}
Running == Opening \cup Starting \cup Ending \cup {"serve"}
Down == {"off", "stopped"}

\* A process starts in a fresh runtime directory, with btusb bound, or not
\* after an unclean exit.
Init ==
    /\ pc = "off" /\ handle = FALSE /\ own = {} /\ armed = 0
    /\ bound \in BOOLEAN /\ lost = ~bound
    /\ claims = {} /\ vhci = "closed" /\ published = FALSE /\ ready = FALSE
    /\ other \in BOOLEAN /\ stop = FALSE /\ faults = 0

-----------------------------------------------------------------------------
(* systemd.                                                                 *)

Start ==
    /\ pc = "off" /\ ~stop
    /\ pc' = "open"
    /\ UNCHANGED <<handle, own, armed, outside, other, stop, faults, lost>>

Stop ==
    /\ ~stop
    /\ stop' = TRUE
    /\ pc' = IF pc = "off" THEN "stopped" ELSE pc
    /\ UNCHANGED <<handle, own, armed, outside, other, faults, lost>>

\* The process is gone: the kernel has closed its files, which releases the
\* interfaces and unregisters the virtual controller but does not rebind btusb.
\* systemd removes the runtime directory, and restarts the service unless it was
\* stopped: run() returns Ok only then.
Gone ==
    /\ pc' = IF stop THEN "stopped" ELSE "off"
    /\ handle' = FALSE /\ own' = {} /\ armed' = 0
    /\ claims' = {} /\ vhci' = "closed" /\ published' = FALSE /\ ready' = FALSE
    /\ UNCHANGED <<bound, other, stop>>

Fault == faults < MaxFaults /\ faults' = faults + 1

Kill ==
    /\ pc \in Running /\ Fault
    /\ Gone
    /\ lost' = (lost \/ ~bound)

-----------------------------------------------------------------------------
(* run() up to readiness: one action per call that succeeds.                *)

\* The next call, with what it leaves alone.
At(here, there) == pc = here /\ pc' = there /\ UNCHANGED <<other, stop, faults>>

\* Usb::open up to libusb_open.
Open ==
    /\ At("open", "descriptors")
    /\ handle' = TRUE
    /\ UNCHANGED <<own, armed, outside, lost>>

LoadDescriptors ==
    /\ At("descriptors", "restore")
    /\ UNCHANGED <<handle, own, armed, outside, lost>>

\* Fault: open() does not restore the driver.
FaultyRestore ==
    /\ At("restore", "index")
    /\ UNCHANGED <<handle, own, armed, outside, lost>>

\* Usb::open: attach btusb if no driver is active.
Restore ==
    /\ At("restore", "index")
    /\ bound' = TRUE /\ lost' = FALSE
    /\ UNCHANGED <<handle, own, armed, claims, vhci, published, ready>>

\* The driver's state is unknown (an error of libusb_kernel_driver_active): no
\* attempt is made.
RestoreUnknown ==
    /\ pc = "restore" /\ Fault
    /\ pc' = "index"
    /\ UNCHANGED <<handle, own, armed, outside, other, stop, lost>>

\* physical_index(): btusb registers its controller only while it is bound.
PhysicalIndex ==
    /\ At("index", "bootstrap") /\ bound
    /\ UNCHANGED <<handle, own, armed, outside, lost>>

NoPhysicalIndex ==
    /\ At("index", "hangup") /\ ~bound
    /\ UNCHANGED <<handle, own, armed, outside, lost>>

Bootstrap ==
    /\ At("bootstrap", "detach")
    /\ UNCHANGED <<handle, own, armed, outside, lost>>

Detach ==
    /\ At("detach", "claim0")
    /\ bound' = FALSE /\ own' = own \cup {"detached"}
    /\ UNCHANGED <<handle, armed, claims, vhci, published, ready, lost>>

Claim0 ==
    /\ At("claim0", "claim1")
    /\ claims' = claims \cup {0} /\ own' = own \cup {"claimed0"}
    /\ UNCHANGED <<handle, armed, bound, vhci, published, ready, lost>>

Claim1 ==
    /\ At("claim1", "alt0")
    /\ claims' = claims \cup {1} /\ own' = own \cup {"claimed1"}
    /\ UNCHANGED <<handle, armed, bound, vhci, published, ready, lost>>

SelectAlt0 ==
    /\ At("alt0", "arm")
    /\ UNCHANGED <<handle, own, armed, outside, lost>>

\* start_receivers(): one receiver at a time.
Arm ==
    /\ At("arm", IF armed = 2 THEN "vhci" ELSE "arm")
    /\ armed' = armed + 1
    /\ UNCHANGED <<handle, own, outside, lost>>

OpenVhci ==
    /\ At("vhci", "register")
    /\ vhci' = "open"
    /\ UNCHANGED <<handle, own, armed, bound, claims, published, ready, lost>>

\* write_record(): the kernel registers the virtual controller.
Register ==
    /\ At("register", "wait")
    /\ vhci' = "registered"
    /\ UNCHANGED <<handle, own, armed, bound, claims, published, ready, lost>>

\* The kernel numbers controllers from the lowest free number.
GetsZero == ~bound /\ ~other

\* Fault: the number of the virtual controller is not tested.
FaultyWaitRegistration ==
    /\ At("wait", "publish")
    /\ UNCHANGED <<handle, own, armed, outside, lost>>

\* wait_registration() tests STOPPING before every poll, and run() the number.
WaitRegistration ==
    /\ At("wait", IF GetsZero THEN "publish" ELSE "hangup")
    /\ UNCHANGED <<handle, own, armed, outside, lost>>

WaitStopped ==
    /\ At("wait", "hangup") /\ stop
    /\ UNCHANGED <<handle, own, armed, outside, lost>>

\* The size is written aside and renamed, so that it appears at once.
Publish ==
    /\ At("publish", "notify")
    /\ published' = TRUE
    /\ UNCHANGED <<handle, own, armed, bound, claims, vhci, ready, lost>>

Notify ==
    /\ At("notify", "serve")
    /\ ready' = TRUE
    /\ UNCHANGED <<handle, own, armed, bound, claims, vhci, published, lost>>

\* The serving loop ends when it finds STOPPING set.
EndServing ==
    /\ At("serve", "hangup") /\ stop
    /\ UNCHANGED <<handle, own, armed, outside, lost>>

\* An error of a call, or of the serving loop: run() returns it, and its locals
\* are dropped; in open() itself there is nothing to drop but libusb's context.
CallFails ==
    /\ pc \in Starting \cup {"serve"} /\ Fault
    /\ pc' = "hangup"
    /\ UNCHANGED <<handle, own, armed, outside, other, stop, lost>>

OpenFails ==
    /\ pc = "open" /\ Fault
    /\ Gone
    /\ UNCHANGED lost

-----------------------------------------------------------------------------
(* The return of run(): the locals are dropped, the virtual HCI device first, *)
(* then Usb; the flags tell what is to be undone.                             *)

\* Fault: the virtual device outlives the release of the radio.
FaultyHangup ==
    /\ At("hangup", "cancel")
    /\ UNCHANGED <<handle, own, armed, outside, lost>>

Hangup ==
    /\ At("hangup", "cancel")
    /\ vhci' = "closed"
    /\ UNCHANGED <<handle, own, armed, bound, claims, published, ready, lost>>

Cancel ==
    /\ At("cancel", "release1")
    /\ armed' = 0
    /\ UNCHANGED <<handle, own, outside, lost>>

\* The deadline of cancel() passes: _exit(1).
ExitNow ==
    /\ pc = "cancel" /\ Fault
    /\ Gone
    /\ lost' = (lost \/ ~bound)

Release1 ==
    /\ At("release1", "release0")
    /\ claims' = IF "claimed1" \in own THEN claims \ {1} ELSE claims
    /\ UNCHANGED <<handle, own, armed, bound, vhci, published, ready, lost>>

\* Fault: interface 0 stays claimed while the driver is attached.
FaultyRelease0 ==
    /\ At("release0", "reattach")
    /\ UNCHANGED <<handle, own, armed, outside, lost>>

Release0 ==
    /\ At("release0", "reattach")
    /\ claims' = IF "claimed0" \in own THEN claims \ {0} ELSE claims
    /\ UNCHANGED <<handle, own, armed, bound, vhci, published, ready, lost>>

\* The kernel refuses to attach a driver to a claimed interface.
Reattach ==
    /\ At("reattach", "close")
    /\ bound' = (bound \/ ("detached" \in own /\ 0 \notin claims))
    /\ UNCHANGED <<handle, own, armed, claims, vhci, published, ready, lost>>

ReattachFails ==
    /\ pc = "reattach" /\ "detached" \in own /\ Fault
    /\ pc' = "close"
    /\ lost' = (lost \/ ~bound)
    /\ UNCHANGED <<handle, own, armed, outside, other, stop>>

\* libusb_close, libusb_exit and the exit of the process.
Close ==
    /\ pc = "close" /\ UNCHANGED <<faults, lost>>
    /\ Gone

-----------------------------------------------------------------------------
Startup == \/ Open \/ LoadDescriptors \/ Restore \/ PhysicalIndex \/ NoPhysicalIndex
           \/ Bootstrap \/ Detach \/ Claim0 \/ Claim1 \/ SelectAlt0 \/ Arm
           \/ OpenVhci \/ Register \/ WaitRegistration \/ WaitStopped \/ Publish \/ Notify
Teardown == \/ EndServing \/ Hangup \/ Cancel \/ Release1 \/ Release0
            \/ Reattach \/ Close
Failure == RestoreUnknown \/ CallFails \/ OpenFails \/ ExitNow \/ ReattachFails \/ Kill
Stopped == pc = "stopped" /\ UNCHANGED vars

Next == Start \/ Stop \/ Startup \/ Teardown \/ Failure \/ Stopped

Spec == Init /\ [][Next]_vars

\* The process runs on, since each wait has a deadline, and systemd restarts it.
FairSpec == Spec /\ WF_vars(Start) /\ WF_vars(Startup) /\ WF_vars(Teardown)

-----------------------------------------------------------------------------
(* Properties.                                                              *)

\* Types; a process that is not running holds nothing.
TypeOK ==
    /\ pc \in Running \cup Down
    /\ handle \in BOOLEAN /\ bound \in BOOLEAN /\ published \in BOOLEAN /\ ready \in BOOLEAN
    /\ other \in BOOLEAN /\ stop \in BOOLEAN /\ lost \in BOOLEAN
    /\ claims \subseteq {0, 1} /\ own \subseteq {"detached", "claimed0", "claimed1"}
    /\ armed \in 0..3 /\ vhci \in {"closed", "open", "registered"}
    /\ faults \in 0..MaxFaults

\* "Unregister virtual HCI before restoring the physical kernel driver": the
\* radio never appears as two controllers, on any path through an error.
OneController == vhci # "closed" => ~bound

\* btusb is left without the radio only by a kill, the last-resort _exit or a
\* refused attach; every other return of run() restores it.
DriverRestored == pc \in Down /\ ~bound => lost

\* Once systemd has been told, the size that btadapterd's launcher reads exists
\* and, while serving, the radio is owned and its receivers are armed.
ReadyMeansServing ==
    ready => /\ published
             /\ pc = "serve" => /\ claims = {0, 1} /\ armed = 3 /\ ~bound
                                /\ vhci = "registered" /\ ~other

\* Faults do not leave the service unable to start: once they cease it serves
\* or has been stopped, whatever state they left the driver in, unless the number 0
\* belongs to another adapter.
Recovers == []<>(other \/ pc \in {"serve", "stopped"})
=============================================================================
