# A verification project for floss-desktop

TLA+ models of the parts of floss-desktop that keep state across asynchronous
steps, model-checked with TLC and, in part, proved with TLAPS.  Every definition
is translated from the source at the lines listed in `PROJECT.json` under `map`.

## The system

floss-desktop runs the Floss Bluetooth stack on a Linux desktop.

| Part | Source | State | Operations and interactions |
|---|---|---|---|
| floss-usb, serving loop | `floss-usb/src/{transport,main,usb}.rs` | SCO link, receive queue, action queue, transfer pool, alternate setting | one thread; libusb callbacks run inside `pump()` and `cancel()`; packets between `/dev/vhci` and the radio |
| floss-usb, start-up | `main.rs` `run`, `usb.rs` `open`, `claim`, `bootstrap` | detached, claimed, registered | detaches btusb, claims two interfaces, registers virtual hci0, reports readiness |
| floss-usb, framing | `transport.rs` `Framer` | one incomplete frame per packet type | reassembles HCI frames from USB fragments |
| floss-usb, descriptors | `usb.rs` `parse_descriptors`, `discover` | none across steps | chooses endpoints when the device is opened and before each change of the audio setting; not modelled |
| media service sessions | `patches/bluetooth-service-runtime.patch` | one session with its token, notification FDs, profile and audio states | D-Bus calls, native callbacks, expiry timers, owner disconnects; all under one lock |
| native audio | `patches/bluetooth-floss.patch` | native streams | called by the media service, calls back through a channel |
| pw-floss bridge | `pw-floss/src/pw-floss.c` | bus state, transport, PipeWire nodes, queues | reserves, starts and stops sessions; callbacks of the graph and of the PCM socket; automatic mode |
| capture demand, profiles | `pw-floss/src/*.h` | hysteresis, one profile set | decide between A2DP and HFP |
| callback registry | `patches/bluetooth-service-runtime.patch` | callbacks by ID and by identity, sockets, disconnect watches | clients of the bus register, use and leave; disconnects come through a channel |
| codec service | `patches/bluetooth-codec-service.patch` | a pool of worker threads, sockets, encoders | `CodecInit` makes a worker per client; workers run beside it |
| BlueDevil pairing | `patches/bluedevil-floss.patch` | one prompt and a cache per process, the owner of a session bus name | all processes see the requests of the daemon, the owner answers; not modelled |
| test scripts and mocks | `tools/smoke-*.py`, `tools/mock-floss-auto.c`, `tools/kde-mock/` | children, files, logs | start the real programs with scripted peers, act on them and assert |
| native USB transport, WirePlumber, plasma-pa | `patches/*.patch` | in projects whose sources are not here | |
| packaging | `nix/` | none of the running system | |

What is hard here: completions that arrive in the middle of an endpoint change;
a pool and two queues at their limits; connection events overtaken by a Reset;
native callbacks that lag behind the calls of the media service; callers that
leave the bus at any point; stops that the native stack ignores; a bridge whose own
stop is reported to it when it has started again; a playback stream that is clocked
by the microphone; disconnects that overtake the calls they follow; scripts that race
the deadlines of what they test.  `PROJECT.json`
lists each under `hazards`, at its line, with the properties that watch it.

## Modules

### UsbTransport: the serving loop of floss-usb

`pc` is the place of the single thread: `drain`, `process` and `host` are the
three parts of the loop body of `run()`, `pump` is `usb.pump()`, `cancel` is the
wait inside `set_sco()`, `drop` is `Usb::drop`.  A step is one iteration of one of
those loops or one completion callback; the thread is sequential in between, so
this is the granularity at which anything else can intervene.

| Source | Here |
|---|---|
| `Incoming`, `receive` | `incoming`, `overflow`, `Deliver` |
| `Transport.link`, `Transport::usb`, `Transport::host` | `link`; `UsbActions`, `UsbLink`, `SecondLink`; `HostActions`, `HostRead` |
| the `pending` queue, the loop of `run()` | `pending`; `Drain*`, `WriteHost`, `SetSco*`, `Send*`, `Process*`, `Host*`, `Pump*` |
| `Inner.slots`, `alt`, `stopping_sco`, `fatal` | `flight` (transfers per class of slot), `alt`, `stoppingSco`, `fatal` |
| `completed_inner`, `free_slot` | `Completed`, `Breaks`, `Rearms`, `Freed` |
| `Usb::drop` | `Leave`, `Release`, `ExitNow` |

Abstractions.  Slots are interchangeable, so they are counted per class.  A
received buffer is one whole frame (the framer is a component of its own), and a
frame keeps its packet type, whether it is a connection, a disconnection or a
Reset, its handle and its air mode; a completed isochronous transfer carries at
most one buffer.  Sizes and deadlines are nondeterministic choices: every call
that can fail may fail.  The radio and the host stack are external: the radio has
one SCO link at a time and reports each change; the host obeys HCI flow control.
`told` and `ghost` are history variables: the link the host has been told of, and the
link that a Reset has ended at the radio although the transport believes in it or is
yet to hear of it.  The stop signal may arrive at every place of the loop.

### AudioSession and Lease: the audio sessions of the media service

`AudioSession` has the fields of `BluetoothMedia` that the patch adds or tests,
the message channel, the spawned timers and disconnect observers, and an external
native stack (`native`, `plugged`) which is ahead of the callbacks still queued.
Each D-Bus method and each message is one action, as each runs under the lock of
`BluetoothMedia`.  `Lease` is the promise to the callers as a state machine: a
lease is free, reserved, active or draining, every grant has a new token, and a
draining lease is not granted.  `AudioSession` implements it (`LeaseContract`).

Not modelled here: the legacy stop calls and media cleanup without a session
(their bodies are largely outside the repository), telephony (the synthetic call),
and the queries, which change nothing.

### UsbLifecycle: floss-usb around its serving loop

`pc` names the next call of `run()` that has an effect outside the process, or the
next step of the drops at its return.  `own` is the three flags of `Inner`;
`bound`, `claims` and `vhci` are what the kernel knows.  `CallFails` stands for the
`?` after every call: the locals are dropped in the reverse order of their
declarations, so the virtual device first (`Hangup`), then `Usb`.  `Kill` may come
between any two steps.  External: the kernel releases what a dead process had
claimed and does not rebind its driver, refuses to attach a driver to a claimed
interface, and gives a new controller the lowest free number; systemd restarts the
service after a failure in a fresh runtime directory.  `other` says whether another
adapter already holds hci0; then `run()` refuses every start (`main.rs:207`).  The state `serve` is the
whole of UsbTransport, whose initial state is the one `Notify` reaches
(`ReadyMeansServing`).

### Framer: reassembly of HCI frames

`Push` is the loop of `Framer::push`, a recursive function that applies `PushByte` to
the bytes of a fragment, with the real header layouts.  `kind` is the packet type of the stream: ACL,
SCO or event.  The environment sends frames, cuts their bytes into fragments and may
lose fragments of audio; the reference is the list of the frames whose last byte was in
the fragment.

### Bridge: the automatic mode of pw-floss

One record `b` for `struct bridge` and the place of its thread; `floss` is the daemon
with its devices and the lease it has granted, `inbox` the messages that wait on the
private connection.  A step is one call to the daemon or one round of a polling loop,
because the code dispatches messages only there.  Time passes only where the bridge
waits, in units of the constants `DiscoverT` to `ReleaseT`.

| Source | Here |
|---|---|
| `run_bridge`, its loop and clean-up | `Fresh`, places `setup` to `backoff` |
| `discover_device`, `reserve_audio`, `request_start`, `wait_start_listener`, `start_hfp`, `start_audio`, `hfp_pcm_arrives` | one action per call, with its failure |
| `automatic_tick`, `stop_transport`, `request_codec`, `sync_capture_profile` | the actions of place `run`, `stop`, `codec`, `undo`, `commit` |
| `callback`, `bus_filter` | `dispatch_bus` at each call |
| `capture-demand.h`, `profiles.h` | `demand`, `req` and `sel`, and the actions that read them |
| the daemon, PipeWire, the user | external; `FaultKinds` names what may go wrong |

The daemon may release a stopped session late, answer a start late, refuse, drop the
link, restart, or lose a reply, and PipeWire may fail when nodes are published or a
profile is committed; each costs one of `MaxFaults`.  Assumptions: a SIGTERM
is seen outside a transition of the main loop, the restoring of a profile by
WirePlumber is a request of the user, and the messages of the daemon keep their order.

### BridgePcm: the PCM data plane of pw-floss

The three queues, the socket and the position requests of a session, in bytes; a
callback of the main loop is one step, except that Floss may act between two reads of
`read_capture`.  Reads and writes are cut at any byte.  Contents, the clock
controllers, resampling and the negotiation of formats are left
out; the limits of the queues are the same constants for both profiles.  Floss may be
slow, stop reading, refuse a position, owe it or close; PipeWire may lose a stream, its
rate control or its latency reports, or hand out buffers that process() rejects
(`GraphSickens`, then `ProcessFails`, `CaptureProcess` or `StreamState`).  Time passes in
units, `PosT` of which are the two seconds of `POSITION_TIMEOUT_MS`; the main loop asks
for positions and writes what the socket takes within a unit, the graph may be late by
any time.  `dozed` and `starved` are history: what Floss did since it last moved.  Not
here: a request that cannot be allocated (`pw-floss.c:525-539`), and the failures of the
bus, the owner and the device, which are in Bridge.

### CallbackRegistry

`Callbacks` with its two maps, used by the socket manager.  Messages of the bus reach
the service in their order; the disconnects the watcher reports pass through a channel
that has none.  A unique name of the bus is never used twice, and the bus vouches for
the sender of every message; clients may send IDs that are not theirs, calls may lack a
sender, and a client may send the signal `NameOwnerChanged` about another (`Forge`),
which the watcher ignores (`Departed`).  External: the watcher's
own map and what the tasks of a socket do.

### CodecService

`CodecInit` and `StartWorkerThread` on the thread of the bus, `StartSocketListener` on
a thread per client.  Each call is a step that may fail.  External: encoding, and the
size of the pool.

### SmokeAutoBridge, SmokeScripts, SmokeKde, SmokeTools: the test scripts

A script is a sequence of steps, one per statement that acts, waits or asserts.
`SmokeAutoBridge` composes eighteen cases of the matrix of
`smoke-auto-bridge-isolated.py` and the scripted peer with module Bridge at the real
time constants (a unit is 50 ms); in the cases of `HangCases` the bridge may also hang
at any point.  Its `kills` are the stops at which the bridge needed SIGKILL: `finish`
asserts the exit code after its stop, the restart of the profiles case
(`smoke-auto-bridge-isolated.py:340`) does not, and a bridge that hangs there after it
has given its session back is killed in a case that passes.

`SmokeScripts` is the HCI, AAC, audio and bridge scripts with children
that die, hang or answer wrongly, and an interrupt anywhere in the try block, also
between `Popen` and the `append` that puts the child in the list of the finally block
(`InterruptSpawn`).  No pause and no deadline is taken to be long enough: a fixed sleep
ends, and a wait gives up, whether the child is ready or not, and `late` remembers for
whom that was too short.  `SmokeKde` is the run of
`smoke-kde-isolated.py` over its cases, with the worker inside the private bus and the
files by which the mock tells it how far it is.  `SmokeTools` composes these two: one
script runs at a time, the other is in its final state.  Their properties are those of
tests: no false alarm, no false pass, an end, nothing left running.

Assumptions: PipeWire reports a link within `Lag`; a pause of a script is longer than
the delivery of a message; a process that has been sent a signal starts no child; an
interrupt comes before the finally block; a process of the KDE test that outlives its
case, still ending or deaf to SIGTERM, has lost its bus and does nothing more.  Not modelled of these
scripts: the cases mic-lifecycle, kde-cancel, vlc and pulse-pause of the automatic
matrix, and of its other cases the players, the node properties and ports (526-528,
545-547), the reported overrun (420), the exit and the samples of the peak meter (434,
445-447), the recorder and the player that still run (563), and everything about samples
and volumes; of the KDE test the preparation of
its environment, the pairing and rfkill cases, and the counts of calls in the verdicts
(a log shows the whole sequence of a case or not).

### Proof modules

`UsbTransportProofs`, `UsbLifecycleProofs`, `FramerProofs`, `BridgeProofs`,
`BridgePcmProofs`, `CallbackRegistryProofs` and `SmokeToolsProofs` hold the theorems about
those state machines; see below.  `MediaServiceProofs` holds those about `AudioSession` and
`CodecService`, which share no name: the specification of the latter is `ServiceSpec`.

## Runs

| Run | Instance | Shows |
|---|---|---|
| `usb_serving` | two handles, mSBC on setting 1, pool of 6, queues of 2 and 3 | safety of the serving loop: no audio to a link without endpoints or before the host knows of it, receivers always armed, the recorded link is the radio's once the queues are empty, or one a Reset has overtaken |
| `usb_live` | one handle, one ACL credit, pool of 7, exactly the needed size | `RoomForSco`, `BackpressureDrains`, `StopEnds`, with a stop signal anywhere |
| `usb_lifecycle` | alone or beside another adapter, three faults | restoration of the driver, one controller, readiness last, `Recovers` |
| `framer` | ACL and event frames in fragments of 1, 2, 3, 5, 9 bytes; SCO frames of 12 bytes in 3 fragments, 4 losses | fragmentation leaves no trace; the framer recovers from losses |
| `session` | one headset, two callers, two tokens, channel of 1 | refinement of `Lease`, ownership, exclusion; `AbandonedFreed` |
| `session_stale` | one headset, one caller, one token | violation of `StoppingExcludes`, see Findings |
| `bridge` | one headset, one codec, one fault of any kind | clean ends and the lease protocol (`NothingLeaks`), an honest card, no switching back and forth; recovery, noticing of a loss, calls that connect |
| `bridge_pcm` | queues of 6 bytes, samples of 2, sockets of 3, 10 bytes a session | playback that follows the microphone, no failure without a fault (`OnlyFaultsFail`), a drained microphone |
| `callbacks` | two clients and the service, one path, three IDs, two waiting calls | an ID serves its owner only, no forged departure ends a callback, and what a client leaves is forgotten, under every order of messages |
| `codec_workers` | a pool of 3, four sockets | nothing left behind, no pinned worker |
| `smoke_auto` | 18 cases, 5 of them also with a bridge that may hang; links reported up to 0.5 s late | none of the modelled assertions can fail; the script ends and leaves nothing running; a bridge that had to be killed is no success, except at the restart in the profiles case |
| `smoke_scripts` | four scripts, one fault or interrupt, pauses and deadlines of any length; five KDE cases, one process that ignores SIGTERM | real passes; a failure has a cause or blames a child that got too little time; fresh files for every case; nothing left running but a child whose start was interrupted (`NothingLeft`) or one of the KDE worker that ignores SIGTERM (`KdeNothingLeaks`); an end |

Why the bounds are enough.  Two handles and both air modes give every change of
link, including a new link while an old one is remembered.  A receive queue of 2
fills and overflows; the action queue of 3 holds a SCO packet behind another
action and in front of an endpoint change; the pool of 6 is filled by the three
fixed receivers, two SCO receivers and one outgoing transfer.  `HostBurst` 2 lets
the host queue a packet and a Reset in one burst.  Two tokens give one session and
one successor; a message of the first may still be queued for the second.  A channel of
one message is enough for the liveness properties; the safety properties of the
sessions are proved for a channel of any length.  Three
faults are a kill that leaves the driver detached, a failure of the restart, and a
failure of the undoing of that failure; the number of restarts is not bounded.  The
largest ACL payload makes a frame of exactly `MaxFrame`, fragments are shorter than
a header and longer than a frame, and some payloads are valid headers.  The SCO
instance keeps what the real ones have in common (9, 17 and 63 byte packets): a
frame is a whole number of fragments, each longer than a header.  Its payloads do
not contain the handle of the link at the start of a fragment; with such payloads
the framer can be misled for longer, as the kernel's can.

The bridge has one fault, which may hit every step of a start, a switch of the profile
and a stop; a wait of one unit is one in which a message may or may not come.  A sample is 2 bytes and a
socket holds 3, so every read and write may end inside a sample; queues of 6 fill and
overrun in three steps; with `PosT` 1 a second unit is too long.  Three IDs are two clients and one that registers again.  One
place less in the codec pool than there are sockets makes a refusal and a reuse
possible.  The cases of `smoke_auto` run with the code's own constants.

Fairness.  `UsbTransport`: the thread always takes another step, since every wait
of `pump()` and `cancel()` has a timeout; an outgoing transfer completes, since it
is submitted with a timeout of 1000 ms.  Receiving transfers have no fairness: the
radio may be silent for ever.  `AudioSession`: the daemon handles its messages,
timers fire, observers report, and the native stack settles what it has begun.
Senders wait for room in the channel, which serves them in turn, hence strong
fairness.  Nothing is assumed of callers or headsets.  `UsbLifecycle`: the process
takes its next step, since every wait has a deadline, and systemd restarts it.
`Bridge`: the thread runs, a daemon that has accepted a start answers it, and time
passes; strong fairness for what the user's actions may disable in between (the link
reports, the tick, the sources of the main loop).  `BridgePcm`: the main loop serves
a readable socket.  `CallbackRegistry`: the service handles its messages.
`CodecService`: threads run, `poll()` has a deadline, and the end of a client is read;
clients that stay connected owe nothing.  Scripts: every process that
responds is scheduled, deadlines expire and signals are delivered.

## Findings

`session_stale`: a stopping session can be freed by a terminal callback of an
earlier stream.  The HFP stream that the session asked for fails to open, and its
terminal callback is queued; the headset opens the audio itself; the owner stops the
session, which closes that stream.  `audio_session_state()` matches callbacks by peer and
profile, so the queued callback frees the session while its stream is closing.  The interface
document says that a stopping session retains exclusion until terminal native
state.  `HeldUntilTerminal`, the same sentence about the state that the service
has recorded, holds.

Three sentences of the repository hold with an exception.  TLC refutes each as it stands;
the runs check the property that states the exception and no more.

`LinkAgrees`: the README of floss-usb says that a reset cancels the old SCO transfers.
`Transport::host` forgets the link and stops the endpoints when it reads the Reset of
the host.  A connection that the controller completes before it has the Reset is parsed
afterwards as a new link, its endpoints are selected and its receivers armed; then the
controller performs the Reset.  The transfers stay armed for a link that is gone, and
the next connection is refused as a second one, which ends the service.  The
property says how far this goes: until the next connection or Reset, and in no other case.

`OnlyFaultsFail`: the comment in `process()` says that an xrun must not destroy the device
and that the position watchdog detects a permanently stalled peer.  The watchdog
(`pw-floss.c:555`) measures the time since the position last moved, also while there was
nothing to move.  When the graph is silent for more than two seconds in a stream that
keeps running and then plays again, the second buffer finds bytes outstanding and the
last progress too old, unless a position came in between, and the session is failed.
The property says what remains: the watchdog fires only if, since the last progress,
Floss left bytes unread or was given none.

`KdeNothingLeaks`: the comment on the finally clause of `smoke-kde-isolated.py` (line 241) says
that it also cleans up any child processes left after the foreground program exits.  It
sends SIGTERM to the group and waits for `dbus-run-session` only; SIGKILL follows only if
that one survives SIGTERM (line 246).  A program of the case that ignores SIGTERM outlives
it, and by the property nothing else does.

Seen while modelling the bridge and described here without a run: `callback()`
compares neither session nor stream of a terminal report (`pw-floss.c:213`).  When the
voice profile is selected while voice is active on demand, the bridge stops its session
and starts another; the report on the first is taken for a failure of the second, and
the selection falls back to music, while PROTOCOL.md says that the profile keeps HFP
active.  The same report, dispatched inside `request_codec()` (`pw-floss.c:1458`), is
taken for a refusal of a selected music codec.  A drop of the link during the wait for
the first microphone sample (`pw-floss.c:706`) suppresses voice for the connection,
which PROTOCOL.md says of two seconds without a sample.

## Proofs

All theorems hold for every value of the constants that satisfies the named
assumptions (handles differ from `NoHandle`, the mSBC setting is 0, 1 or 6, the
pool has room for the three fixed receivers, sizes are natural numbers and, where they
hold PCM, whole samples; the radio sends frames that their headers can describe and
that are no longer than `MAX_FRAME`).  `TypeOK`, `ServiceTypeOK`, `TokensFresh`, `IsoConfigured`,
`AltChangesQuiet`, `StoppedIsSilent`, `QueuesBounded`, `WholeSamples`, `MapsAgree`,
`SocketsHaveCallback`, `PoolBounded` and `NoDeadPlaces` are stated by theorems alone; the other properties named below are checked by a run too.

`MediaServiceProofs`, about `AudioSession`.

| Theorem | Property |
|---|---|
| `TypeCorrect` | `TypeOK`, which includes that sessions, timers and cancellations name issued tokens only |
| `ExclusionKept` | `HeldUntilTerminal` |
| `Implements` | `LeaseContract`, the refinement of `Lease` |
| `ListenersOwned` | `ListenerOwned` |
| `FreshTokens` | `TokensFresh` |
| `OwnersDecide` | `OwnerDecides` |

`TypeOK` is inductive.  Each action is first shown to be one of five moves of the
session (lemma `SessionMoves`: none, granted, begun, stopped, ended); the invariants
`Coherent` (what a session of each state has), `Issued` (tokens) and `Meant`
(disconnects and expiries concern the reservation they were made for) are preserved
by those moves, and every theorem follows from them without the actions.

`UsbTransportProofs`.

| Theorem | Property |
|---|---|
| `TypeCorrect` | `TypeOK`: the receive queue and the pool stay within their bounds |
| `IsoOnlyConfigured`, `QuietChanges` | `IsoConfigured`, `AltChangesQuiet` |
| `AlwaysArmed` | `ReceiversArmed` |
| `SilentStop` | `StoppedIsSilent` |
| `AudioHasEndpoint`, `EndpointsFirst` | `ScoSendConnected`, `ReportedConfigured` |
| `AudioAfterReport` | `AudioAnnounced` |
| `PoolHasRoom` | `RoomForSco`, for a pool of at least `6 + AclCredits` transfers |
| `LinksAgree` | `LinkAgrees` |

The first three need little beyond `TypeOK`: `TargetValid` (a change in progress is
to a mode with endpoints) and `StoppingPlace` (the stopping flag is set only inside
`set_sco()` or after it has failed).  `SilentStop` needs `WireEvents`: what the
event receiver yields is no audio.

`AudioHasEndpoint`, `EndpointsFirst` and `AudioAfterReport` are about an action at the front of a queue that was filled when
the link was another one, so their invariant speaks of the whole queue.
`Leads(q, x, y)` says that performing q takes the endpoints from air mode x to
air mode y, each action finding the mode it needs; `ModeAhead` says that the queue
leads from the mode in effect (or being selected) to the mode of the recorded link.
A packet is accepted from the host only if it belongs to that link, so it finds the
mode it needs when its turn comes, whatever is appended after it and however long
backpressure holds it.  `Tells` and `ToldAhead` say the same of the link that the
host has been told of.  Both relations have three lemmas, on the empty queue, on
appending an action and on removing the first one, which are all the proofs of the
steps use.

`PoolHasRoom` rests on `Credits`: a command, an ACL packet or a Reset costs a credit of
the host from the moment it is queued until its transfer has completed, so what is
in flight and what is still queued together stay within the flow control of HCI.  Its
hypothesis is a size of the pool, not of the assumptions: the run `usb_live` has exactly
that size.  `LinksAgree` follows the events from the radio through the wire and the
receive queue: `Follows(q, x, y)` says that parsing q takes the recorded link from x to
y, and `LinkAhead` that, while the service runs and has lost nothing, what is on its way
leads from the transport's link to the radio's (or to the `ghost` a Reset has made of
it), or the transport has forgotten its link for a Reset that is still on its way and
no event is.

`UsbLifecycleProofs`, for any number of faults: `NeverTwo` (`OneController`), `AlwaysRestored`
(`DriverRestored`) and `ReadyLast` (`ReadyMeansServing`), from an invariant that
lists what has been taken at each place of the start (`Taken`, `Virtual`) and says
that a detached driver is recorded until it is restored and that interface 0 is free
when that is tried (`Recorded`).

`FramerProofs`: `FragmentsLeaveNoTrace` (`FragmentsIgnored`), for every packet type, all
payloads a frame can hold, fragments of any length and any number of frames under way.
`Cut(q, s, g)` says that the stream s consists of the frames q and that frame k ends at
byte `g[k]`; `Flat` shows that s is then `FlattenSeq(q)`.  The invariant `Intact` says
that, until something is lost, the framer's buffer followed by the bytes still to come is
cut into the frames that are due, and that the buffer is shorter than the first of them.
`LoopStep` is the invariant of the loop: after each byte the frames found so far are
those that have ended and the bytes kept are the beginning of the next one
(`ByteOfFrame`: the length in the header ends a frame exactly at its last byte, and
`Encoded`: the two length bytes and the twelve bits of the handle are read back as they
were written).  The induction over the bytes is over the set of the positions for which
this holds (`Induction`, from the well-foundedness of the natural numbers), which
needs no operator as a parameter.

`BridgeProofs`: `TypeCorrect`, `LeaseReturned` (`NothingLeaks`), `CardHonest`
(`ProfileHonest`) and `VoiceNotChurned` (`NoChurn`), for any headsets, codecs,
timeouts, number and kinds of faults.  The invariants say of every place of the thread
what a failure there leaves to be undone.  `LeaseKept` divides the places: between the
grant and StopAudioSession the bridge has a session handle and knows of the lease;
elsewhere it has neither handle nor socket and can only hold a lease whose grant was
lost on the way, which is why closing the socket never ends a lease that was not
returned.  For the card, `Profile` says that during a transition the requested profile
fits the transport it is bound for and the selected one the transport it comes from
(so that a refused codec can be undone to either side), `Phases` that no profile is
selected before the main loop runs, and `Named` that the headset is known there, since
a snapshot keeps the microphone only of a headset that it compares with.  `NoChurn`
needs a third one, `Lessons`: a start without a sample has marked the transport, and
wherever the run goes on after a failed voice start the retry deadline is at least as
far as the time for which the headset is to be left in peace (the history fields
`mute` and `rest`, which `StartFailed` sets and nothing reads).  With it, the property
follows from the lemma that only `bus_tick` begins a transition and from what it
decides before the snapshot.

`BridgePcmProofs`: `TypeCorrect`, `QueuesStayBounded` (`QueuesBounded`),
`PlaybackFollowsMicrophone` (`OutMatchesIn`), `SamplesStayWhole` (`WholeSamples`) and
`OnlyFaultsFailIt` (`OnlyFaultsFail`), for queues, sockets and buffers of any size that
are whole samples, and any deadline.  What they need besides: the credit is the incomplete sample at the
end of the microphone's stream (`CreditIsPartial`), what was written is in the socket
or was read (`Conserved`), positions are of this session and in order
(`PositionsInOrder`), a stopped session leaves nothing (`OffIsEmpty`), and `Watched`: if
the position has not moved for a while in which Floss was neither idle nor starved, Floss
has moved and the request that will show it is as old as that while, so that it times
out before the watchdog fires.

`CallbackRegistryProofs`: `TypeCorrect`, `MapsStayInverse` (`MapsAgree`),
`NoOrphanSockets` (`SocketsHaveCallback`) and `OwnersOnly` (`OnlyTheirOwner`), for any
clients, paths and queue lengths.  `GoneIsTrue` (what the bus announces, unlike a client, is true) and
`TxHaveLeft` (a disconnect message names a client that has left) carry the departure
of a client through both queues; `UnissuedUnused` keeps new IDs apart from old ones.

`MediaServiceProofs`, about `CodecService`: `ServiceTypeCorrect`, `PoolStaysBounded` (`PoolBounded`),
`EverythingReleased` (`NothingLeaks`) and `FailedStartsLeave` (`NoDeadPlaces`), for any
pool size.  `Room` keeps a place free from the count to the thread that takes it;
`Tasks` says what a worker has let go of at each of its places.

`SmokeToolsProofs`: about the scripts, for any number of faults, interrupts and encoder
sessions, and about the KDE test, for any number of processes that ignore SIGTERM.

| Theorem | Property |
|---|---|
| `ScriptPassesReal` | `PassIsReal` |
| `NoFalseAlarms` | `NoFalseAlarm` |
| `ScriptsLeaveNothing` | `NothingLeft` |
| `KdeVerdictsReal` | `KdePassIsReal` |
| `KdeLeavesNothing` | `KdeNothingLeaks` |

The state of a script is a place in one of five sequences of steps, one of them with a
loop of any length.  An *outlook* says whom a script has started by a step, whom it has
not stopped since and who has been seen ready; `Fits(s, x, y)` says that step s relies
only on what outlook x offers and leaves outlook y, and `Leads` that a sequence of steps
does.  `LeadsConcat` and `LeadsStill` (a step that leaves its outlook as it is may be
repeated) compose the plan of a whole script from its parts, so that `HasPlan` holds for
all five scripts and every number of `Cycles`; `Plan[pc]` is then a history variable that
need not be carried in the state.  `PassIsReal` follows from `Caught`: a child with a
fault shows it for ever, and every step passed since then was not a look at it.
`NoFalseAlarm` needs more: `Well` says that, in a script in which nothing has gone wrong,
whom the plan has up is up, or has just been stopped by the step the script is at, or has
ended by itself beside a peer that was ready; whom the plan has waited for is ready or in
`late`; and nobody runs whom the plan has stopped.  From it each step finds what it relies
on, or the exception it raises blames a child in `late` that the step asks (`GivesUp`,
`Calm`); a child that ends by itself has no excuse, since the script has seen the file of
its peer.  `NothingLeft` follows from `Held`: whoever runs when the try block is left is in
the list of the finally block, or is the child of the start at which the script was
interrupted, and a tool runs only during its step.

For the KDE test, `KdeOwnFiles` says that the files are those of this case from the moment
its worker has removed the others, and `KdeSuccess` follows exit code 0 from the program
to the worker and to `dbus-run-session`; `KdeClean` says that whoever runs after the signal
to the group has been sent SIGTERM (a signalled worker starts nobody), so that who is not
about to end after the verdict ignores it, and that `dbus-run-session` has ended by then.

Only model-checked.  Liveness and what depends on fairness, which the prover does
not support: `BackpressureDrains`, `StopEnds`, `Recovers`, `AbandonedFreed`
and the liveness properties of the bridge, its data plane, the registry,
the codec service and the scripts.  `SmokePasses` of the automatic matrix, which is a
matter of the actual time constants of eighteen cases.  `Resyncs` of the framer, which is not true of all payloads and
fragments (see the bounds above).

## Not modelled

`parse_descriptors()` and `discover()` are functions of one device's descriptors, with
unit tests of their own.  The encoders of the codec patch, the clock controllers and the
resampling of the bridge are numerical code.  BlueDevil, the native USB transport,
WirePlumber and plasma-pa are patches to projects whose sources are not in the
repository; what the modelled parts see of them is external.  The mock HCI controller answers each packet by itself.  uinput, rfkill and
the packaging have no state that interacts with the rest.  Of pw-floss, the mode with a
fixed device appears only as the program that `SmokeScripts` runs, and two headsets at
once are outside the instance of `bridge`.

## Plan

Models: the ownership of a pairing prompt between the processes of BlueDevil, with the
two buses whose messages are not ordered with each other, and the pairing workers of the
KDE test over it.
