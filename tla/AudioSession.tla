----------------------------- MODULE AudioSession -----------------------------
(***************************************************************************)
(* The caller-owned audio sessions of the Floss media service, added by     *)
(* patches/bluetooth-service-runtime.patch: one lease on the radio's audio  *)
(* path, reserved and started by D-Bus calls, and ended by native callbacks.*)
(*                                                                          *)
(* D-Bus methods and the messages of the media channel (native callbacks,   *)
(* expiry timers, owner disconnects) run one at a time under the lock of    *)
(* BluetoothMedia, so each is one step.  They are not ordered among each    *)
(* other: the native stack is ahead of the callbacks still in the channel.  *)
(***************************************************************************)
EXTENDS Integers, Sequences

CONSTANTS
    Peers,      \* headsets (RawAddress)
    Owners,     \* D-Bus connections that call the media service
    NoOne,      \* no peer, no owner
    MaxToken,   \* bound of the u64 token counter
    MaxInbox,   \* capacity of the message channel
    Remote      \* TRUE if a headset may open audio itself

ASSUME SessionAssumption ==
    /\ NoOne \notin Peers \cup Owners
    /\ MaxToken \in Nat /\ MaxInbox \in Nat /\ Remote \in BOOLEAN

VARIABLES
    session,    \* BluetoothMedia.audio_session
    nextToken,  \* next_audio_token
    listener,   \* {a2dp,hfp}_audio_connection_listener: whose notification FD
    conn,       \* a2dp_states = Connected, hfp_states = SlcConnected
    audio,      \* a2dp_audio_state, hfp_audio_state
    inbox,      \* messages in the channel of the daemon
    timers,     \* tokens whose ten-second expiry has not fired
    cancels,    \* tokens whose owner has left, not yet sent to the channel
    alive,      \* owners connected to the bus
    watched,    \* the owner of the session is observed by register_disconnect
    native,     \* external: the streams of the native stack
    plugged     \* external: the profile connections of the native stack

daemon == <<session, nextToken, listener, conn, audio, watched>>
outside == <<timers, cancels, alive>>
stack == <<native, plugged>>
vars == <<daemon, inbox, outside, stack>>

Profiles == {"a2dp", "hfp"}
States == {"off", "opening", "on", "closing"}
NoListener == 0
Legacy == -1                 \* the listener of a caller without a session

Sessions == [token : Nat, peer : Peers \cup {NoOne}, prof : Profiles,
             owner : Owners \cup {NoOne}, started : BOOLEAN, stopping : BOOLEAN]
NoSession == [token |-> 0, peer |-> NoOne, prof |-> "a2dp", owner |-> NoOne,
              started |-> FALSE, stopping |-> FALSE]
Held == session.token # 0

\* MediaActions and the A2DP and HFP callbacks.
Messages == [op : {"up", "down", "audio", "expire", "cancel"}, prof : Profiles,
             peer : Peers \cup {NoOne}, state : States, token : Nat]
Callback(op, q, p, s) == [op |-> op, prof |-> q, peer |-> p, state |-> s, token |-> 0]
Timed(op, t) == [op |-> op, prof |-> "a2dp", peer |-> NoOne, state |-> "off", token |-> t]

Init ==
    /\ session = NoSession /\ nextToken = 0 /\ watched = FALSE
    /\ listener = [q \in Profiles |-> NoListener]
    /\ conn = [q \in Profiles |-> [p \in Peers |-> TRUE]]
    /\ audio = [q \in Profiles |-> [p \in Peers |-> "off"]]
    /\ inbox = <<>> /\ timers = {} /\ cancels = {} /\ alive = Owners
    /\ native = [q \in Profiles |-> [p \in Peers |-> "off"]]
    /\ plugged = [q \in Profiles |-> [p \in Peers |-> "up"]]

-----------------------------------------------------------------------------
(* The native stack as the daemon calls it (topshim).                       *)

\* connect_audio and start_audio_for_peer accept a request for a connected
\* peer while no other stream of the profile is active.
NativeAccepts(q, p) ==
    /\ plugged[q][p] = "up"
    /\ \A r \in Peers : native[q][r] # "off" => r = p /\ q = "a2dp" /\ native[q][r] # "closing"
NativeStart(q, p) ==
    native' = [native EXCEPT ![q][p] = IF @ = "off" THEN "opening" ELSE @]

\* disconnect_audio is ignored unless the stream is open.  stop_audio_for_peer
\* stops an open stream and otherwise disconnects the profile of the peer.
NativeStop(q, p) ==
    /\ native' = [native EXCEPT ![q][p] = IF @ = "on" THEN "closing" ELSE @]
    /\ plugged' = [plugged EXCEPT ![q][p] =
          IF q = "a2dp" /\ native[q][p] # "on" /\ @ = "up" THEN "dropping" ELSE @]

-----------------------------------------------------------------------------
(* Operations on the session.                                               *)

Drop == session' = NoSession /\ watched' = FALSE     \* AudioSession::drop unregisters

\* Fault: the listener of the cancelled session is left in place.
FaultyCancelSession(t, heard) ==
    \/ /\ session.token # t
       /\ listener' = heard
       /\ UNCHANGED <<session, watched, stack>>
    \/ /\ Held /\ session.token = t /\ ~session.started
       /\ Drop
       /\ listener' = heard
       /\ UNCHANGED stack
    \/ /\ Held /\ session.token = t /\ session.started
       /\ session' = [session EXCEPT !.stopping = TRUE]
       /\ listener' = heard
       /\ NativeStop(session.prof, session.peer)
       /\ UNCHANGED watched

\* cancel_audio_session(t); heard is what the caller made of the listeners.
CancelSession(t, heard) ==
    \/ /\ session.token # t
       /\ listener' = heard
       /\ UNCHANGED <<session, watched, stack>>
    \/ /\ Held /\ session.token = t /\ ~session.started
       /\ Drop
       /\ listener' = heard
       /\ UNCHANGED stack
    \/ /\ Held /\ session.token = t /\ session.started
       /\ session' = [session EXCEPT !.stopping = TRUE]
       /\ listener' = [heard EXCEPT ![session.prof] = NoListener]
       /\ NativeStop(session.prof, session.peer)
       /\ UNCHANGED watched

Matches(q, p) == Held /\ session.prof = q /\ session.peer = p

\* Fault: a late Connected or Started does not repeat the cancellation.
FaultySessionState(q, p, terminal, heard) ==
    \/ /\ Matches(q, p) /\ terminal
       /\ Drop
       /\ listener' = heard
       /\ UNCHANGED stack
    \/ /\ ~(Matches(q, p) /\ terminal)
       /\ listener' = heard
       /\ UNCHANGED <<session, watched, stack>>

\* audio_session_state(): a terminal state frees the session; any other one
\* repeats the cancellation of a stopping session.
SessionState(q, p, terminal, heard) ==
    \/ /\ Matches(q, p) /\ terminal
       /\ Drop
       /\ listener' = heard
       /\ UNCHANGED stack
    \/ /\ Matches(q, p) /\ ~terminal /\ session.stopping
       /\ CancelSession(session.token, heard)
    \/ /\ ~(Matches(q, p) /\ (terminal \/ session.stopping))
       /\ listener' = heard
       /\ UNCHANGED <<session, watched, stack>>

\* write_data_to_listener(): a callback of a peer answers the listener of its
\* profile, unless a session of another peer or profile is held.
Heard(q, p) == IF ~Held \/ Matches(q, p) THEN [listener EXCEPT ![q] = NoListener] ELSE listener

\* reserve_audio_session(): the conditions for refusing are those of the code.
\* A caller that left the bus before its observer was installed is not watched.
\* Fault: a session being stopped does not refuse a new one.
FaultyBusy(q, p) ==
    \/ Held /\ ~session.stopping
    \/ \E r \in Profiles : listener[r] # NoListener
    \/ ~conn[q][p]

Busy(q, p) ==
    \/ Held
    \/ \E r \in Profiles : listener[r] # NoListener
    \/ \E r \in Peers : audio["hfp"][r] # "off"
    \/ \E r \in Peers : audio["a2dp"][r] = "on" /\ (q = "hfp" \/ r # p)
    \/ ~conn[q][p]

Reserve(o, q, p) ==
    /\ ~Busy(q, p) /\ nextToken < MaxToken
    /\ nextToken' = nextToken + 1
    /\ session' = [token |-> nextToken', peer |-> p, prof |-> q, owner |-> o,
                   started |-> FALSE, stopping |-> FALSE]
    /\ watched' = (o \in alive)
    /\ timers' = timers \cup {nextToken'}
    /\ UNCHANGED <<listener, conn, audio, inbox, cancels, alive, stack>>

\* start_sco_transport() has conditions of its own.
MayStart(q, p) ==
    /\ NativeAccepts(q, p)
    /\ q = "hfp" => conn[q][p] /\ \A r \in Peers : audio[q][r] = "off"
Starting(q, p) == IF q = "hfp" THEN [audio EXCEPT ![q][p] = "opening"] ELSE audio

\* start_audio_session().  A stream that the peer has already started is
\* acknowledged at once.
Start(o) ==
    /\ Held /\ session.owner = o /\ o \in alive /\ ~session.started /\ ~session.stopping
    /\ LET q == session.prof
           p == session.peer
       IN \/ /\ MayStart(q, p)
             /\ NativeStart(q, p)
             /\ audio' = Starting(q, p)
             /\ session' = [session EXCEPT !.started = TRUE]
             /\ listener' = [listener EXCEPT ![q] =
                   IF q = "a2dp" /\ audio[q][p] = "on" /\ native[q][p] = "on"
                   THEN NoListener ELSE session.token]
             /\ UNCHANGED watched
          \/ /\ Drop
             /\ listener' = [r \in Profiles |-> NoListener]
             /\ UNCHANGED <<audio, native>>
    /\ UNCHANGED <<nextToken, conn, inbox, outside, plugged>>

\* stop_audio_session() by the owner of the token; any other token is a no-op.
StopSession(o) ==
    /\ Held /\ session.owner = o /\ o \in alive
    /\ CancelSession(session.token, listener)
    /\ UNCHANGED <<nextToken, conn, audio, inbox, outside>>

\* start_audio_request() and start_sco_call(), the calls without a session.
LegacyStart(q, p) ==
    /\ ~Held /\ listener[q] = NoListener /\ MayStart(q, p)
    /\ NativeStart(q, p)
    /\ audio' = Starting(q, p)
    /\ listener' = [listener EXCEPT ![q] = Legacy]
    /\ UNCHANGED <<session, nextToken, conn, watched, inbox, outside, plugged>>

-----------------------------------------------------------------------------
(* Messages of the channel.                                                 *)

Msg == Head(inbox)
Receive(op) == inbox # <<>> /\ Msg.op = op /\ inbox' = Tail(inbox)

ProfileUp ==
    /\ Receive("up")
    /\ conn' = [conn EXCEPT ![Msg.prof][Msg.peer] = TRUE]
    /\ UNCHANGED <<session, nextToken, listener, audio, watched, outside, stack>>

\* A2DP or HFP Disconnected.
ProfileDown ==
    /\ Receive("down")
    /\ conn' = [conn EXCEPT ![Msg.prof][Msg.peer] = FALSE]
    /\ audio' = [audio EXCEPT ![Msg.prof][Msg.peer] = "off"]
    /\ SessionState(Msg.prof, Msg.peer, TRUE, Heard(Msg.prof, Msg.peer))
    /\ UNCHANGED <<nextToken, outside>>

\* A2DP or HFP AudioState.  HFP Connecting and Disconnecting are only recorded.
AudioState ==
    /\ Receive("audio")
    /\ audio' = [audio EXCEPT ![Msg.prof][Msg.peer] = Msg.state]
    /\ IF Msg.state \in {"on", "off"}
       THEN SessionState(Msg.prof, Msg.peer, Msg.state = "off", Heard(Msg.prof, Msg.peer))
       ELSE UNCHANGED <<session, watched, listener, stack>>
    /\ UNCHANGED <<nextToken, conn, outside>>

\* Fault: the expiry of a reservation also ends a session that has started.
FaultyExpire ==
    /\ Receive("expire")
    /\ CancelSession(Msg.token, listener)
    /\ UNCHANGED <<nextToken, conn, audio, outside>>

\* MediaActions::ExpireAudioReservation
Expire ==
    /\ Receive("expire")
    /\ IF session.token = Msg.token /\ ~session.started
       THEN CancelSession(Msg.token, listener)
       ELSE UNCHANGED <<session, listener, watched, stack>>
    /\ UNCHANGED <<nextToken, conn, audio, outside>>

\* MediaActions::CancelAudioSession
Cancel ==
    /\ Receive("cancel")
    /\ CancelSession(Msg.token, listener)
    /\ UNCHANGED <<nextToken, conn, audio, outside>>

Dispatch == ProfileUp \/ ProfileDown \/ AudioState \/ Expire \/ Cancel

-----------------------------------------------------------------------------
(* Senders of messages: timers, the bus, and the native stack (external).   *)

Send(m) == Len(inbox) < MaxInbox /\ inbox' = Append(inbox, m)

TimerFires(t) ==
    /\ t \in timers
    /\ Send(Timed("expire", t))
    /\ timers' = timers \ {t}
    /\ UNCHANGED <<daemon, cancels, alive, stack>>

\* An owner leaves the bus; the observer of its session spawns a message.
OwnerLeaves(o) ==
    /\ o \in alive
    /\ alive' = alive \ {o}
    /\ cancels' = cancels \cup {t \in {session.token} : watched /\ session.owner = o}
    /\ UNCHANGED <<daemon, inbox, timers, stack>>

CancelSent(t) ==
    /\ t \in cancels
    /\ Send(Timed("cancel", t))
    /\ cancels' = cancels \ {t}
    /\ UNCHANGED <<daemon, timers, alive, stack>>

\* An opening stream opens, or fails: HFP reports that, A2DP does not.
StreamOpens(q, p) ==
    /\ native[q][p] = "opening"
    /\ \/ /\ native' = [native EXCEPT ![q][p] = "on"]
          /\ Send(Callback("audio", q, p, "on"))
       \/ /\ native' = [native EXCEPT ![q][p] = "off"]
          /\ IF q = "hfp" THEN Send(Callback("audio", q, p, "off")) ELSE UNCHANGED inbox
    /\ UNCHANGED <<daemon, outside, plugged>>

\* A stream ends, because it was stopped or because the headset ends it.
StreamEnds(q, p) ==
    /\ native[q][p] = "closing" \/ (Remote /\ native[q][p] = "on")
    /\ native' = [native EXCEPT ![q][p] = "off"]
    /\ Send(Callback("audio", q, p, "off"))
    /\ UNCHANGED <<daemon, outside, plugged>>

\* The headset opens audio itself.
PeerOpens(q, p) ==
    /\ Remote /\ plugged[q][p] = "up" /\ native[q][p] = "off"
    /\ native' = [native EXCEPT ![q][p] = "on"]
    /\ Send(Callback("audio", q, p, "on"))
    /\ UNCHANGED <<daemon, outside, plugged>>

\* HFP Connecting and Disconnecting.
HfpReports(p) ==
    /\ native["hfp"][p] \in {"opening", "closing"}
    /\ Send(Callback("audio", "hfp", p, native["hfp"][p]))
    /\ UNCHANGED <<daemon, outside, stack>>

\* A profile connection ends and with it the stream; it may come back.
Unplug(q, p) ==
    /\ plugged[q][p] = "dropping"
    /\ plugged' = [plugged EXCEPT ![q][p] = "down"]
    /\ native' = [native EXCEPT ![q][p] = "off"]
    /\ Send(Callback("down", q, p, "off"))
    /\ UNCHANGED <<daemon, outside>>

Unplugged(q, p) ==
    /\ plugged[q][p] = "up"
    /\ plugged' = [plugged EXCEPT ![q][p] = "dropping"]
    /\ UNCHANGED <<daemon, inbox, outside, native>>

Plug(q, p) ==
    /\ plugged[q][p] = "down"
    /\ plugged' = [plugged EXCEPT ![q][p] = "up"]
    /\ Send(Callback("up", q, p, "off"))
    /\ UNCHANGED <<daemon, outside, native>>

-----------------------------------------------------------------------------
Next ==
    \/ Dispatch
    \/ \E o \in Owners : Start(o) \/ StopSession(o) \/ OwnerLeaves(o)
    \/ \E t \in 1..MaxToken : TimerFires(t) \/ CancelSent(t)
    \/ \E q \in Profiles, p \in Peers :
          \/ \E o \in Owners : Reserve(o, q, p)
          \/ LegacyStart(q, p)
          \/ StreamOpens(q, p) \/ StreamEnds(q, p) \/ PeerOpens(q, p)
          \/ Unplug(q, p) \/ Unplugged(q, p) \/ Plug(q, p)
    \/ \E p \in Peers : HfpReports(p)

Spec == Init /\ [][Next]_vars

\* What the native stack has begun it settles.
Settle(q, p) == \/ StreamOpens(q, p)
                \/ native[q][p] = "closing" /\ StreamEnds(q, p)
                \/ Unplug(q, p)

\* The daemon handles its messages; timers fire and observers report.  A sender
\* waiting for room in the channel gets it in the end (the channel queues its
\* senders), hence strong fairness.
FairSpec ==
    /\ Spec
    /\ WF_vars(Dispatch)
    /\ SF_vars(\E t \in 1..MaxToken : TimerFires(t) \/ CancelSent(t))
    /\ \A q \in Profiles, p \in Peers : SF_vars(Settle(q, p))

-----------------------------------------------------------------------------
(* Properties.                                                              *)

TypeOK ==
    /\ session \in Sessions /\ nextToken \in Nat /\ session.token <= nextToken
    /\ listener \in [Profiles -> Int]
    /\ conn \in [Profiles -> [Peers -> BOOLEAN]]
    /\ audio \in [Profiles -> [Peers -> States]]
    /\ watched \in BOOLEAN
    /\ inbox \in Seq(Messages)
    /\ timers \subseteq 1..nextToken /\ cancels \subseteq 0..nextToken
    /\ alive \subseteq Owners
    /\ native \in [Profiles -> [Peers -> States]]
    /\ plugged \in [Profiles -> [Peers -> {"up", "dropping", "down"}]]

\* A pending notification FD is that of the session that is starting, or of a
\* legacy caller while there is no session: a callback never answers a caller
\* whose session has been cancelled, freed or replaced.
ListenerOwned ==
    \A q \in Profiles : listener[q] # NoListener =>
        IF Held
        THEN /\ session.started /\ ~session.stopping
             /\ session.prof = q /\ listener[q] = session.token
        ELSE listener[q] = Legacy

\* "A stopping session retains exclusion until terminal native state": once
\* started, a session is given up only when its stream is recorded as ended.
HeldUntilTerminal ==
    [][session.started /\ session'.token # session.token
           => audio'[session.prof][session.peer] = "off"]_vars

\* The same sentence of the native stream itself: a stopping session would not
\* be given up while the stream it asked for is still opening or closing.  (Only
\* a headset takes a stream from off to on without an opening state.)  The
\* callbacks that free a session name a peer and a profile, not a stream.
StoppingExcludes ==
    [][session.stopping /\ session'.token # session.token
           => native'[session.prof][session.peer] \in {"off", "on"}]_vars

\* No message of the channel, an expiry or the cancellation of an older session
\* included, stops a session that a live owner has started.
OwnerDecides ==
    [][~session.stopping /\ session'.stopping /\ inbox' # inbox
           => session.owner \notin alive]_vars

Outstanding == timers \cup cancels \cup {inbox[i].token : i \in 1..Len(inbox)}

\* "Tokens never repeat within the daemon lifetime": no message still on its way
\* can name the session that is reserved now.
TokensFresh ==
    [][session'.token # session.token /\ session'.token # 0
           => session'.token \notin Outstanding]_vars

\* The promise to the callers, as a state machine of its own: see Lease.
Phase == IF ~Held THEN "free"
         ELSE IF ~session.started THEN "reserved"
         ELSE IF ~session.stopping THEN "active" ELSE "draining"
Contract == INSTANCE Lease WITH phase <- Phase, issued <- nextToken
LeaseContract == Contract!Spec

\* A session that is cancelled, or whose owner has left the bus, is freed in the end:
\* also when the owner left before its observer was installed, and when the stop is
\* ignored natively because the stream is still opening.
AbandonedFreed ==
    \A t \in 1..MaxToken :
        session.token = t /\ (session.stopping \/ session.owner \notin alive)
            ~> session.token # t
=============================================================================
