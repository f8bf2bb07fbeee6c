------------------------------- MODULE Bridge -------------------------------
(***************************************************************************)
(* pw-floss --auto: one process that finds a headset, holds one audio      *)
(* session of the Floss daemon for it, publishes a sink and a microphone   *)
(* in PipeWire, and moves between music (A2DP) and voice (HFP) on capture  *)
(* demand or on the profile the user has selected.                         *)
(*                                                                         *)
(* The process is sequential.  A step is one call to the daemon, or one    *)
(* round of one of the bounded polling loops; in between, messages of the  *)
(* daemon wait in the inbox and PipeWire requests wait for the main loop.  *)
(* Time is counted in units; the bridge waits only where the code polls or *)
(* sleeps, and a unit passes only when the bridge waits.                   *)
(***************************************************************************)
EXTENDS Naturals, Sequences, SequencesExt

CONSTANTS
    Devices,    \* addresses of the headsets
    Codecs,     \* codecs a headset may offer, each a music profile of the card
    DiscoverT,  \* between two snapshots of the connected devices
    IdleT,      \* capture must be idle this long before music is restored
    RetryT,     \* before voice is tried again after it was refused
    CallT,      \* how long a reservation or a codec request is repeated
    StartT,     \* for the answer to a start, and for the PCM socket
    PcmT,       \* for the first microphone sample
    BackoffT,   \* before the bridge starts over
    ReleaseT,   \* the longest a live daemon takes to end a stopped session
    MaxFaults,  \* faults of one behaviour
    FaultKinds  \* the faults that may happen

ASSUME BridgeAssumption ==
    /\ {DiscoverT, IdleT, RetryT, CallT, StartT, PcmT, BackoffT} \subseteq Nat \ {0}
    /\ {ReleaseT, MaxFaults} \subseteq Nat
    /\ Codecs \cap {"auto", "hfp", "none"} = {}
    /\ "none" \notin Devices

VARIABLES
    b,       \* struct bridge, and the place of its thread
    term,    \* SIGTERM has been sent
    inbox,   \* messages on the private bus connection, not yet dispatched
    nodes,   \* the published PipeWire nodes: "sink", "src"
    apps,    \* capture streams of applications: "record", "meter", "builtin"
    links,   \* the streams the registry reports as running on our source
    floss,   \* the daemon, its devices and the session it has granted
    bad,     \* the bridge broke the lease protocol
    faults   \* faults still to come

vars == <<b, term, inbox, nodes, apps, links, floss, bad, faults>>

Profiles == {"auto", "hfp"} \cup Codecs

Places == {"off", "setup", "find", "reserve", "start", "listen", "open", "confirm",
           "probe", "publish", "run", "stop", "close", "codec", "refused", "undo", "commit",
           "cleanup", "drop", "backoff"}

\* A new struct bridge, at the beginning of run_bridge.  The last two fields are
\* history: the time since voice failed that a retry must leave (rest), and whether
\* voice has failed for want of a sample (mute).
Fresh ==
    [at |-> "setup", then |-> "drop", polled |-> FALSE, wait |-> 0,
     addr |-> "none", mic |-> FALSE, codecs |-> {}, sess |-> FALSE, fd |-> "no",
     hfp |-> FALSE, goal |-> FALSE, trans |-> FALSE, again |-> FALSE, failed |-> FALSE,
     req |-> "auto", sel |-> "auto", demand |-> FALSE, nosco |-> FALSE, mono |-> FALSE,
     disc |-> 0, idle |-> 0, retry |-> 0, rest |-> 0, mute |-> FALSE]

Off == [Fresh EXCEPT !.at = "off"]

\* The daemon right after it has started with headsets ds, before any caller.
Daemon(ds, mic, codecs) ==
    [up |-> TRUE, reg |-> FALSE, devs |-> ds, mic |-> mic, codecs |-> codecs,
     denies |-> FALSE, pcm |-> TRUE, live |-> TRUE, slow |-> 0,
     lease |-> FALSE, told |-> FALSE, hfp |-> FALSE, peer |-> "none",
     audio |-> "idle", late |-> FALSE, rel |-> 0, tell |-> FALSE, changed |-> FALSE,
     stall |-> 0]

A2dp(x) == x.codecs # {}

\* Calls are pinned to the unique owner the bridge registered with.
Reachable == floss.up /\ floss.reg

\* startup_cancelled; the main loop takes the signal itself once it runs, so
\* that it is not seen in the middle of a transition.
Cancelled == term /\ ~b.trans

-----------------------------------------------------------------------------
(* Profiles and capture demand *)

profile_has_microphone(x, p) == x.mic /\ p \in {"auto", "hfp"}

profile_available(x, p) ==
    \/ p = "auto"
    \/ p = "hfp" /\ x.mic /\ ~x.nosco
    \/ p \in x.codecs

Faulty_capture_requested == "src" \in nodes /\ links # {}

\* Only an active consumer of our source that is no monitor and not passive.
capture_requested == "src" \in nodes /\ "record" \in links

-----------------------------------------------------------------------------
(* Messages of the daemon *)

\* callback and bus_filter: the messages that end the use of the device.
Fatal(m) ==
    \/ m[1] = "owner"
    \/ m[1] = "gone" /\ m[2] = b.addr
    \/ m[1] = "scoOff" /\ b.hfp /\ m[2] = b.addr

\* dispatch_bus handles messages until one has failed the bridge.
FatalAt == IF b.failed THEN 0 ELSE SelectInSeq(inbox, Fatal)

Dispatched ==
    IF b.failed THEN inbox
    ELSE IF FatalAt = 0 THEN <<>>
    ELSE SubSeq(inbox, FatalAt + 1, Len(inbox))

Broken == b.failed \/ FatalAt # 0

-----------------------------------------------------------------------------
(* Start of a session: start_audio and start_hfp *)

Enter(x, place, t) == [x EXCEPT !.at = place, !.wait = t, !.polled = FALSE]

\* A failed start of a transition is undone once; any other one ends the run.
StartFailed(x) ==
    Enter([x EXCEPT !.failed = TRUE, !.mute = x.mute \/ x.at = "probe",
                    !.rest = IF x.hfp THEN RetryT ELSE x.rest],
          IF x.trans /\ ~x.again THEN "undo" ELSE "cleanup", 0)

FaultyPollOn(x, gone) == IF gone THEN StartFailed(x) ELSE [x EXCEPT !.polled = TRUE]

\* One more round of a bounded polling loop, or its end.
PollOn(x, gone) == IF gone \/ x.wait = 0 THEN StartFailed(x) ELSE [x EXCEPT !.polled = TRUE]

At(place) == b.at = place /\ ~b.polled

Setup ==
    /\ At("setup")
    /\ IF floss.up
       THEN b' = Enter(b, "find", 0) /\ floss' = [floss EXCEPT !.reg = TRUE]
       ELSE b' = Enter(b, "cleanup", 0) /\ UNCHANGED floss
    /\ UNCHANGED <<term, inbox, nodes, apps, links, bad, faults>>

\* discover_device: the first ready device, and afterwards only the same one.
Listed == SelectInSeq(floss.devs, LAMBDA d : b.addr \in {"none", d})

Discovers ==
    /\ Reachable
    /\ Listed # 0
    /\ floss.mic \/ floss.codecs # {}
    /\ b.addr = "none" \/ floss.mic = b.mic

Discovered(x) ==
    [x EXCEPT !.addr = floss.devs[Listed], !.mic = floss.mic, !.codecs = floss.codecs]

Find ==
    /\ At("find")
    /\ b' = IF Discovers
            THEN Enter([Discovered(b) EXCEPT !.hfp = floss.codecs = {}], "reserve", CallT)
            ELSE Enter(b, "cleanup", 0)
    /\ UNCHANGED <<term, inbox, nodes, apps, links, floss, bad, faults>>

\* ReserveAudioSession, as the daemon decides it.
Grants ==
    /\ ~floss.lease /\ floss.rel = 0
    /\ b.addr \in {floss.devs[i] : i \in DOMAIN floss.devs}
    /\ b.hfp => floss.mic /\ ~floss.denies

Reserved(reply) ==
    [floss EXCEPT !.lease = TRUE, !.told = reply, !.hfp = b.hfp, !.peer = b.addr]

ReserveGranted ==
    /\ At("reserve") /\ ~Cancelled /\ Reachable /\ Grants
    /\ floss' = Reserved(TRUE)
    /\ b' = Enter([b EXCEPT !.sess = TRUE], "start", 0)
    /\ UNCHANGED <<term, inbox, nodes, apps, links, bad, faults>>

\* A refusal is final at start-up; in a transition the old session may still be
\* ending, so the call is repeated until the deadline.
ReserveRefused ==
    /\ At("reserve") /\ ~Cancelled /\ Reachable /\ ~Grants
    /\ bad' = (bad \/ (floss.lease /\ floss.told))
    /\ IF b.trans
       THEN b' = PollOn(b, Broken) /\ inbox' = Dispatched
       ELSE b' = StartFailed(b) /\ UNCHANGED inbox
    /\ UNCHANGED <<term, nodes, apps, links, floss, faults>>

\* The call itself fails, or the start-up is cancelled.
ReserveFails ==
    /\ At("reserve") /\ (Cancelled \/ ~Reachable)
    /\ b' = StartFailed(b)
    /\ UNCHANGED <<term, inbox, nodes, apps, links, floss, bad, faults>>

\* A mock starts at once; a live daemon answers on the listener later.
RequestStart ==
    /\ At("start")
    /\ IF Reachable /\ floss.lease
       THEN /\ b' = Enter(b, "listen", StartT)
            /\ floss' = [floss EXCEPT !.audio = IF floss.live THEN "starting" ELSE "open"]
       ELSE b' = StartFailed(b) /\ UNCHANGED floss
    /\ UNCHANGED <<term, inbox, nodes, apps, links, bad, faults>>

\* wait_start_listener: messages are dispatched before the status is read, and
\* the status does not count if one of them was fatal.
WaitStartListener ==
    /\ At("listen")
    /\ LET answered == Reachable /\ floss.audio \in {"begun", "open"}
           ended    == ~Reachable \/ floss.audio \in {"refused", "idle"}
       IN  b' = IF answered /\ ~Broken /\ ~Cancelled THEN Enter(b, "open", StartT)
                ELSE PollOn(b, answered \/ ended \/ Broken \/ Cancelled)
    /\ inbox' = Dispatched
    /\ UNCHANGED <<term, nodes, apps, links, floss, bad, faults>>

\* The configuration is read and the PCM socket connected.  Voice waits for the
\* socket, which the daemon creates after the answer; music does not.
OpenPcm ==
    /\ At("open")
    /\ IF Reachable /\ floss.lease /\ floss.audio = "open" /\ ~(b.hfp /\ Cancelled)
       THEN /\ b' = [Enter(b, "confirm", 0) EXCEPT !.fd = "up"]
            /\ floss' = [floss EXCEPT !.changed = FALSE]
            /\ UNCHANGED inbox
       ELSE /\ b' = PollOn(b, ~b.hfp \/ ~Reachable \/ Broken \/ Cancelled)
            /\ inbox' = IF b.hfp THEN Dispatched ELSE inbox
            /\ UNCHANGED floss
    /\ UNCHANGED <<term, nodes, apps, links, bad, faults>>

\* Where a start that has succeeded goes on.
Started(x) == Enter(x, IF x.trans THEN "commit" ELSE "publish", 0)

\* The configuration is read again: it must be the one of the socket.
ConfirmPcm ==
    /\ At("confirm")
    /\ b' = IF ~(Reachable /\ floss.lease /\ floss.audio = "open") \/ floss.changed
            THEN StartFailed(b)
            ELSE IF b.hfp THEN Enter(b, "probe", PcmT) ELSE Started(b)
    /\ UNCHANGED <<term, inbox, nodes, apps, links, floss, bad, faults>>

\* hfp_pcm_arrives: voice counts as started when a sample has come in.  Every
\* other way out marks the SCO transport as unavailable.
HfpPcmArrives ==
    /\ At("probe")
    /\ LET sample == b.fd = "up" /\ floss.audio = "open" /\ floss.pcm /\ floss.stall = 0
           over   == b.failed \/ Cancelled \/ b.wait = 0 \/ b.fd = "hup"
           lost   == StartFailed([b EXCEPT !.nosco = TRUE])
       IN  \/ ~over /\ sample /\ b' = Started(b) /\ UNCHANGED inbox
           \/ over /\ b' = lost /\ UNCHANGED inbox
           \/ /\ ~sample /\ ~over
              /\ b' = IF Broken THEN lost ELSE [b EXCEPT !.polled = TRUE]
              /\ inbox' = Dispatched
    /\ UNCHANGED <<term, nodes, apps, links, floss, bad, faults>>

StartStep ==
    \/ Setup \/ Find \/ ReserveGranted \/ ReserveRefused \/ ReserveFails
    \/ RequestStart \/ WaitStartListener \/ OpenPcm \/ ConfirmPcm \/ HfpPcmArrives

-----------------------------------------------------------------------------
(* The main loop *)

\* Card and nodes are published once the first session streams.
Publish ==
    /\ At("publish")
    /\ IF term THEN b' = Enter(b, "cleanup", 0) /\ UNCHANGED nodes
       ELSE /\ b' = Enter(b, "run", 0)
            /\ nodes' = {"sink"} \cup {n \in {"src"} : profile_has_microphone(b, b.req)}
    /\ UNCHANGED <<term, inbox, apps, links, floss, bad, faults>>

\* The beginning of automatic_tick: demand, and the moment it has ended.
Watch(x) ==
    [x EXCEPT !.mono = FALSE, !.demand = capture_requested,
              !.idle = IF x.demand /\ ~capture_requested THEN IdleT ELSE x.idle]

Late_wanted_hfp(x) ==
    /\ ~(x.nosco /\ A2dp(x))
    /\ IF x.req # "auto" THEN x.req = "hfp"
       ELSE ~A2dp(x) \/ (x.demand /\ x.retry > 0) \/ (x.hfp /\ x.idle > 0)

\* The transport automatic_tick wants, for the state x that Watch returns.
wanted_hfp(x) ==
    /\ ~(x.nosco /\ A2dp(x))
    /\ IF x.req # "auto" THEN x.req = "hfp"
       ELSE ~A2dp(x) \/ (x.demand /\ x.retry = 0) \/ (x.hfp /\ x.idle > 0)

\* The periodic snapshot: same device, same capabilities, and for music the same
\* configuration generation.
SnapshotFails ==
    \/ ~Discovers
    \/ ~b.hfp /\ (~floss.lease \/ floss.audio # "open" \/ floss.changed)

\* bus_tick: dispatch, then automatic_tick up to its first call that changes
\* the session.  The wanted transport is decided before the snapshot is taken.
BusTick ==
    /\ At("run")
    /\ inbox' = Dispatched
    /\ LET w == Watch(b)
           s == IF b.disc = 0 THEN [Discovered(w) EXCEPT !.disc = DiscoverT] ELSE w
       IN  b' = IF Broken \/ (b.disc = 0 /\ SnapshotFails) THEN Enter(b, "cleanup", 0)
                ELSE IF wanted_hfp(w) = b.hfp /\ b.req = b.sel THEN [s EXCEPT !.polled = TRUE]
                ELSE [Enter(s, "stop", 0) EXCEPT !.trans = TRUE, !.then = "codec",
                                                 !.goal = wanted_hfp(w)]
    /\ UNCHANGED <<term, nodes, apps, links, floss, bad, faults>>

\* audio_ready: the other end of the PCM socket is gone.
AudioHangup ==
    /\ b.at = "run" /\ b.fd = "hup"
    /\ b' = Enter(b, "cleanup", 0)
    /\ UNCHANGED <<term, inbox, nodes, apps, links, floss, bad, faults>>

Quit ==
    /\ b.at = "run" /\ term
    /\ b' = Enter(b, "cleanup", 0)
    /\ UNCHANGED <<term, inbox, nodes, apps, links, floss, bad, faults>>

-----------------------------------------------------------------------------
(* Transitions *)

\* The daemon begins to end a session: nothing else is granted until that is
\* complete, and a live daemon reports the end of voice audio then.
Ended ==
    [floss EXCEPT !.lease = FALSE, !.audio = "idle", !.late = FALSE,
                  !.rel = IF floss.live THEN ReleaseT ELSE floss.slow,
                  !.tell = floss.live /\ floss.hfp /\ floss.audio \in {"begun", "open"}]

FaultyStopSession ==
    /\ At("stop")
    /\ b' = Enter([b EXCEPT !.sess = FALSE], "close", 0)
    /\ floss' = IF b.fd # "no" /\ Reachable /\ floss.lease THEN Ended ELSE floss
    /\ UNCHANGED <<term, inbox, nodes, apps, links, bad, faults>>

\* stop_transport: first StopAudioSession ...
StopSession ==
    /\ At("stop")
    /\ b' = Enter([b EXCEPT !.sess = FALSE], "close", 0)
    /\ floss' = IF b.sess /\ Reachable /\ floss.lease THEN Ended ELSE floss
    /\ UNCHANGED <<term, inbox, nodes, apps, links, bad, faults>>

\* ... then the PCM socket, whose closing would stop the session once more.
CloseSocket ==
    /\ At("close")
    /\ bad' = (bad \/ (b.fd = "up" /\ floss.lease /\ floss.audio = "open"))
    /\ b' = [Enter(b, b.then, CallT) EXCEPT !.fd = "no"]
    /\ UNCHANGED <<term, inbox, nodes, apps, links, floss, faults>>

\* request_codec, for a change of the selected profile only.
AsksCodec == b.req # b.sel /\ b.req \notin {"auto", "hfp"}

Accepts == ~floss.lease /\ floss.rel = 0 /\ b.req \in floss.codecs

CodecAgreed ==
    /\ At("codec")
    /\ AsksCodec => b.req \in b.codecs /\ Reachable /\ Accepts
    /\ b' = Enter([b EXCEPT !.hfp = b.goal], "reserve", CallT)
    /\ UNCHANGED <<term, inbox, nodes, apps, links, floss, bad, faults>>

\* The previous profile is restored, with its transport.
Restored(x) == Enter([x EXCEPT !.req = x.sel, !.goal = x.hfp], "reserve", CallT)

CodecRefused ==
    /\ At("codec") /\ AsksCodec
    /\ \/ /\ b.req \notin b.codecs \/ ~Reachable
          /\ b' = Restored(b)
          /\ UNCHANGED <<inbox, bad>>
       \/ /\ b.req \in b.codecs /\ Reachable /\ ~Accepts
          /\ bad' = (bad \/ (floss.lease /\ floss.told))
          /\ b' = [b EXCEPT !.at = "refused"]
          /\ UNCHANGED inbox
    /\ UNCHANGED <<term, nodes, apps, links, floss, faults>>

\* What has come in since the call is handled before the call is repeated.
CodecRetry ==
    /\ b.at = "refused"
    /\ inbox' = Dispatched
    /\ b' = IF Broken \/ b.wait = 0 THEN Restored([b EXCEPT !.failed = Broken])
            ELSE [b EXCEPT !.at = "codec", !.polled = TRUE]
    /\ UNCHANGED <<term, nodes, apps, links, floss, bad, faults>>

FaultyUndo ==
    /\ At("undo")
    /\ b' = [Enter(b, "stop", 0) EXCEPT
                !.failed = FALSE, !.hfp = FALSE, !.goal = FALSE, !.again = TRUE,
                !.retry = RetryT,
                !.then = IF b.hfp /\ A2dp(b) THEN "reserve" ELSE "cleanup"]
    /\ UNCHANGED <<term, inbox, nodes, apps, links, floss, bad, faults>>

\* Fault: voice may be tried again at once.
HastyUndo ==
    /\ At("undo")
    /\ b' = [Enter(b, "stop", 0) EXCEPT
                !.failed = FALSE, !.hfp = FALSE, !.goal = FALSE, !.again = TRUE,
                !.req = "auto",
                !.then = IF b.hfp /\ A2dp(b) THEN "reserve" ELSE "cleanup"]
    /\ UNCHANGED <<term, inbox, nodes, apps, links, floss, bad, faults>>

\* A failed start: the session is stopped and, if it was for voice, music is
\* started; the request of the user is dropped and voice is not tried for RetryT.
Undo ==
    /\ At("undo")
    /\ b' = [Enter(b, "stop", 0) EXCEPT
                !.failed = FALSE, !.hfp = FALSE, !.goal = FALSE, !.again = TRUE,
                !.req = "auto", !.retry = RetryT,
                !.then = IF b.hfp /\ A2dp(b) THEN "reserve" ELSE "cleanup"]
    /\ UNCHANGED <<term, inbox, nodes, apps, links, floss, bad, faults>>

\* The new profile is published; the microphone comes or goes with it.  The
\* streams restart, so the registry sees their links stop and run again.
Commit ==
    /\ At("commit")
    /\ LET wanted == profile_has_microphone(b, b.req)
           lost   == ~wanted /\ "src" \in nodes
       IN  /\ nodes' = {"sink"} \cup {n \in {"src"} : wanted}
           /\ b' = [Enter(b, IF b.failed THEN "cleanup" ELSE "run", 0) EXCEPT
                       !.sel = b.req, !.trans = FALSE, !.again = FALSE,
                       !.demand = b.demand /\ ~lost, !.idle = IF lost THEN 0 ELSE b.idle]
    /\ links' = {}
    /\ UNCHANGED <<term, inbox, apps, floss, bad, faults>>

LeakyCleanup ==
    /\ At("cleanup")
    /\ nodes' = nodes \ {"sink"} /\ links' = {}
    /\ b' = [Enter(b, "stop", 0) EXCEPT !.then = "drop", !.trans = FALSE]
    /\ UNCHANGED <<term, inbox, apps, floss, bad, faults>>

\* The end of run_bridge: nodes first, then the session, the socket and the bus.
Cleanup ==
    /\ At("cleanup")
    /\ nodes' = {} /\ links' = {}
    /\ b' = [Enter(b, "stop", 0) EXCEPT !.then = "drop", !.trans = FALSE]
    /\ UNCHANGED <<term, inbox, apps, floss, bad, faults>>

\* Leaving the bus unregisters the callback and ends what is still reserved.
Drop ==
    /\ At("drop")
    /\ floss' = [(IF Reachable /\ floss.lease THEN Ended ELSE floss)
                    EXCEPT !.reg = FALSE, !.tell = FALSE]
    /\ inbox' = <<>>
    /\ b' = IF term THEN Off ELSE Enter(Fresh, "backoff", BackoffT)
    /\ UNCHANGED <<term, nodes, apps, links, bad, faults>>

\* main: start over, unless the process is to end.
Backoff ==
    /\ b.at = "backoff"
    /\ \/ term /\ b' = Off
       \/ ~term /\ b.wait = 0 /\ b' = Fresh
    /\ UNCHANGED <<term, inbox, nodes, apps, links, floss, bad, faults>>

TransitionStep ==
    \/ StopSession \/ CloseSocket \/ CodecAgreed \/ CodecRefused \/ CodecRetry \/ Undo \/ Commit
    \/ Cleanup \/ Drop \/ Backoff

BridgeStep == StartStep \/ Publish \/ BusTick \/ AudioHangup \/ Quit \/ TransitionStep

-----------------------------------------------------------------------------
(* PipeWire, its applications and the user *)

\* The streams of the applications that target our source.
Consumers == IF "src" \in nodes THEN apps \ {"builtin"} ELSE {}

Settled == b.at = "run" => links = Consumers

Link ==
    /\ b.at = "run" /\ ~Settled
    /\ links' = Consumers
    /\ UNCHANGED <<b, term, inbox, nodes, apps, floss, bad, faults>>

UseMicrophone(a) ==
    /\ apps' = IF a \in apps THEN apps \ {a} ELSE apps \cup {a}
    /\ UNCHANGED <<b, term, inbox, nodes, links, floss, bad, faults>>

\* profile_set: handled by the main loop.  The few rounds of the loop before the
\* nodes are published end when the card is bound, before a client can have read
\* its profiles.
SelectProfile(p) ==
    /\ b.at = "run"
    /\ profile_available(b, p)
    /\ b' = [b EXCEPT !.req = p]
    /\ UNCHANGED <<term, inbox, nodes, apps, links, floss, bad, faults>>

-----------------------------------------------------------------------------
(* The daemon and its headsets *)

Note(m) == inbox' = IF floss.reg THEN Append(inbox, m) ELSE inbox

DaemonAnswers ==
    /\ floss.audio = "starting" \/ floss.audio = "begun"
    /\ floss' = [floss EXCEPT
            !.audio = IF floss.hfp /\ floss.audio = "starting" THEN "begun" ELSE "open"]
    /\ UNCHANGED <<b, term, inbox, nodes, apps, links, bad, faults>>

\* The release of a stopped session may complete before its longest time.
DaemonReleases ==
    /\ floss.live /\ floss.rel > 0
    /\ floss' = [floss EXCEPT !.rel = 0, !.tell = FALSE]
    /\ IF floss.tell THEN Note(<<"scoOff", floss.peer>>) ELSE UNCHANGED inbox
    /\ UNCHANGED <<b, term, nodes, apps, links, bad, faults>>

Fault(kind) == kind \in FaultKinds /\ faults > 0 /\ faults' = faults - 1

\* The PCM socket of the bridge loses its other end.
HungUp(x) == [x EXCEPT !.fd = IF x.fd = "up" THEN "hup" ELSE x.fd]

NoSession(f) ==
    [f EXCEPT !.lease = FALSE, !.audio = "idle", !.late = FALSE, !.rel = 0, !.tell = FALSE]

\* A mock keeps the token of a headset that has gone; a daemon ends the session.
DeviceGone(d) ==
    /\ floss.up
    /\ LET mine == floss.lease /\ floss.peer = d
       IN  /\ \E i \in DOMAIN floss.devs :
              /\ floss.devs[i] = d
              /\ floss' = [(IF mine /\ floss.live THEN NoSession(floss) ELSE floss)
                               EXCEPT !.devs = RemoveAt(floss.devs, i)]
           /\ b' = IF mine THEN HungUp(b) ELSE b
    /\ Note(<<"gone", d>>)
    /\ UNCHANGED <<term, nodes, apps, links, bad>>

DeviceLost(d) == Fault("device") /\ DeviceGone(d)

DeviceBack(d) ==
    /\ floss.up
    /\ d \notin {floss.devs[i] : i \in DOMAIN floss.devs}
    /\ floss' = [floss EXCEPT !.devs = <<d>> \o floss.devs]
    /\ UNCHANGED <<b, term, inbox, nodes, apps, links, bad, faults>>

CapabilitiesChange(mic, codecs) ==
    /\ Fault("caps")
    /\ mic \/ codecs # {}
    /\ floss' = [floss EXCEPT !.mic = mic, !.codecs = codecs]
    /\ UNCHANGED <<b, term, inbox, nodes, apps, links, bad>>

DaemonGone ==
    /\ floss.up
    /\ floss' = [NoSession(floss) EXCEPT !.up = FALSE, !.reg = FALSE]
    /\ b' = HungUp(b)
    /\ Note(<<"owner", "none">>)
    /\ UNCHANGED <<term, nodes, apps, links, bad>>

DaemonDies == Fault("daemon") /\ DaemonGone

DaemonStarts ==
    /\ ~floss.up
    /\ floss' = [floss EXCEPT !.up = TRUE]
    /\ UNCHANGED <<b, term, inbox, nodes, apps, links, bad, faults>>

\* The headset ends voice audio by itself.
ScoDrops ==
    /\ Fault("drop")
    /\ floss.live /\ floss.lease /\ floss.hfp /\ floss.audio \in {"begun", "open"}
    /\ floss' = NoSession(floss)
    /\ b' = HungUp(b)
    /\ Note(<<"scoOff", floss.peer>>)
    /\ UNCHANGED <<term, nodes, apps, links, bad>>

\* The headset renegotiates music under a running session.
Reconfigured ==
    /\ Fault("config")
    /\ floss.lease /\ ~floss.hfp /\ floss.audio = "open" /\ ~floss.changed
    /\ floss' = [floss EXCEPT !.changed = TRUE]
    /\ UNCHANGED <<b, term, inbox, nodes, apps, links, bad>>

\* Voice is refused, or carries no samples, from now on or no longer.
VoiceRefused ==
    /\ \/ ~floss.denies /\ Fault("deny")
       \/ floss.denies /\ UNCHANGED faults
    /\ floss' = [floss EXCEPT !.denies = ~floss.denies]
    /\ UNCHANGED <<b, term, inbox, nodes, apps, links, bad>>

VoiceSilent ==
    /\ Fault("silent")
    /\ floss' = [floss EXCEPT !.pcm = ~floss.pcm]
    /\ UNCHANGED <<b, term, inbox, nodes, apps, links, bad>>

StartRefused ==
    /\ Fault("start")
    /\ floss.audio = "starting"
    /\ floss' = [NoSession(floss) EXCEPT !.audio = "refused"]
    /\ UNCHANGED <<b, term, inbox, nodes, apps, links, bad>>

\* The answer to a start takes longer than the bridge may be willing to wait.
StartLate ==
    /\ Fault("late")
    /\ floss.audio \in {"starting", "begun"} /\ ~floss.late
    /\ floss' = [floss EXCEPT !.late = TRUE]
    /\ UNCHANGED <<b, term, inbox, nodes, apps, links, bad>>

\* The daemon grants the reservation, but its reply comes after the timeout.
ReserveLost ==
    /\ Fault("reply")
    /\ At("reserve") /\ ~Cancelled /\ Reachable /\ Grants
    /\ floss' = Reserved(FALSE)
    /\ b' = StartFailed(b)
    /\ UNCHANGED <<term, inbox, nodes, apps, links, bad>>

\* A call to PipeWire fails when card and nodes are published: some of the nodes
\* may be there already.
PublishFails ==
    /\ Fault("pipewire")
    /\ At("publish") /\ ~term
    /\ nodes' \in {{}, {"sink"}, {"sink"} \cup {n \in {"src"} : profile_has_microphone(b, b.req)}}
    /\ b' = Enter(b, "cleanup", 0)
    /\ UNCHANGED <<term, inbox, apps, links, floss, bad>>

\* The same at the end of a transition, which then keeps the old profile selected.
CommitFails ==
    /\ Fault("pipewire")
    /\ At("commit")
    /\ nodes' \in {nodes, {"sink"} \cup {n \in {"src"} : profile_has_microphone(b, b.req)}}
    /\ b' = [Enter(b, "cleanup", 0) EXCEPT !.failed = TRUE, !.trans = FALSE]
    /\ UNCHANGED <<term, inbox, apps, links, floss, bad>>

Terminate ==
    /\ Fault("term") /\ ~term
    /\ term' = TRUE
    /\ UNCHANGED <<b, inbox, nodes, apps, links, floss, bad>>

-----------------------------------------------------------------------------
(* Time *)

Dec(n) == IF n = 0 THEN 0 ELSE n - 1

\* The bridge polls or sleeps, and no event of its main loop is pending.
Waiting ==
    /\ b.polled \/ b.at = "off" \/ (b.at = "backoff" /\ b.wait > 0)
    /\ b.at = "run" => ~term /\ b.fd # "hup"
    /\ b.at = "backoff" => ~term

\* One unit of time for every clock.
Elapse ==
    /\ b' = [b EXCEPT !.polled = FALSE, !.wait = Dec(b.wait), !.disc = Dec(b.disc),
                      !.idle = Dec(b.idle), !.retry = Dec(b.retry), !.rest = Dec(b.rest)]
    /\ floss' = [floss EXCEPT !.rel = Dec(floss.rel), !.stall = Dec(floss.stall),
                              !.tell = floss.tell /\ floss.rel # 1]
    /\ IF floss.tell /\ floss.rel = 1 THEN Note(<<"scoOff", floss.peer>>) ELSE UNCHANGED inbox
    /\ UNCHANGED <<term, nodes, apps, links, bad, faults>>

Tick ==
    /\ Waiting /\ Settled
    /\ floss.audio \in {"starting", "begun"} => floss.late
    /\ Elapse

-----------------------------------------------------------------------------
(* The bridge with a live daemon and a free environment *)

Init ==
    /\ b = Fresh /\ term = FALSE /\ inbox = <<>> /\ nodes = {} /\ apps = {} /\ links = {}
    /\ bad = FALSE /\ faults = MaxFaults
    /\ \E d \in Devices, mic \in BOOLEAN, codecs \in SUBSET Codecs :
        /\ mic \/ codecs # {}
        /\ floss = Daemon(<<d>>, mic, codecs)

FaultStep ==
    \/ \E d \in Devices : DeviceLost(d)
    \/ \E mic \in BOOLEAN, codecs \in SUBSET Codecs : CapabilitiesChange(mic, codecs)
    \/ DaemonDies \/ ScoDrops \/ Reconfigured \/ VoiceSilent
    \/ StartRefused \/ StartLate \/ ReserveLost \/ PublishFails \/ CommitFails \/ Terminate

Environment ==
    \/ UseMicrophone("record")
    \/ \E p \in Profiles : SelectProfile(p)
    \/ \E d \in Devices : DeviceBack(d)
    \/ DaemonStarts \/ VoiceRefused

Next == BridgeStep \/ Link \/ DaemonAnswers \/ DaemonReleases \/ Tick \/ FaultStep \/ Environment

Spec == Init /\ [][Next]_vars

\* The bridge is never descheduled for good and a daemon that has accepted a start
\* answers it.  PipeWire reports links and time passes however often the user and
\* the applications act in between.  The main loop serves every source that is ready.
Fairness ==
    /\ WF_vars(BridgeStep) /\ WF_vars(DaemonAnswers)
    /\ SF_vars(Quit) /\ SF_vars(AudioHangup)
    /\ SF_vars(Link) /\ SF_vars(Tick)

FairSpec == Spec /\ Fairness

-----------------------------------------------------------------------------
(* Properties *)

\* The lease protocol, as the assertions of the scripted peer state it: no
\* reservation and no codec request while a lease is held, and the lease is
\* returned before the PCM socket is closed.  Whichever way a run ends, at any step
\* of a start or of a transition, its nodes are gone and its lease has been returned
\* before it leaves the bus.
NothingLeaks ==
    /\ ~bad
    /\ b.at \in {"drop", "backoff", "off"} =>
        /\ nodes = {} /\ b.fd = "no"
        /\ floss.lease => ~floss.told

\* When no request of the user is pending, the profile shown on the card is the
\* one in use, and a microphone is offered exactly by the profiles that have one.
ProfileHonest ==
    b.at = "run" /\ b.req = b.sel =>
        /\ b.sel = "hfp" => b.hfp
        /\ b.sel \in Codecs => ~b.hfp
        /\ "src" \in nodes <=> profile_has_microphone(b, b.sel)

\* Music is not left for voice within RetryT of a voice start of this run that
\* was refused or not answered, unless the user asks for voice, and not at all after
\* one that brought no sample, as long as the headset can play music: whatever
\* failed, the fallback has set the deadline or the mark that automatic_tick reads.
NoChurn ==
    [][b.at = "run" /\ b'.trans /\ ~b.hfp /\ b'.goal /\ A2dp(b) =>
        ~b.mute /\ (b.rest = 0 \/ b.req = "hfp")]_vars

VoiceWorks == floss.mic /\ ~floss.denies /\ floss.pcm

Healthy == floss.up /\ floss.devs # <<>> /\ ~term /\ (floss.codecs # {} \/ VoiceWorks)

\* After the last fault the bridge publishes its sink again, and keeps it, unless
\* the user goes on selecting the voice profile.
Recovers ==
    <>[](Healthy /\ b.req # "hfp") => <>[]("sink" \in nodes) /\ []<>(b.at = "run")

\* A headset or a daemon that stays away does not leave nodes behind, nor does
\* SIGTERM, at whatever place of a start or of a call it finds the bridge.
LossNoticed == <>[](~floss.up \/ floss.devs = <<>> \/ term) => <>[](nodes = {})

\* A recorder that stays gets its microphone: voice is tried again until it
\* succeeds, unless its transport proved silent or the user chose music.
CallConnects ==
    <>[](/\ Healthy /\ VoiceWorks
         /\ "record" \in apps /\ b.req = "auto" /\ ~b.nosco)
        => <>[](b.at = "run" /\ b.hfp)
=============================================================================
