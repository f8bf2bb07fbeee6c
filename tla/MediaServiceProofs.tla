-------------------------- MODULE MediaServiceProofs --------------------------
(***************************************************************************)
(* Proofs about the two services that carry audio, which share no state:   *)
(* AudioSession, for any set of peers, owners and bounds, and below it     *)
(* CodecService, for any size of the pool and any number of clients: what  *)
(* its calls make is released on every path, and the pool keeps its limit. *)
(***************************************************************************)
EXTENDS AudioSession, CodecService, FiniteSetTheorems, TLAPS

Plugs == [Profiles -> [Peers -> {"up", "dropping", "down"}]]
Streams == [Profiles -> [Peers -> States]]

LEMMA NoListenerType == NoListener \in Int
BY DEF NoListener

LEMMA NoSessionType == NoSession \in Sessions /\ NoSession.token = 0
BY DEF NoSession, Sessions, Profiles

LEMMA CancelType ==
    ASSUME TypeOK, NEW t, NEW heard \in [Profiles -> Int], CancelSession(t, heard)
    PROVE  /\ session' \in Sessions /\ session'.token <= nextToken
           /\ watched' \in BOOLEAN
           /\ listener' \in [Profiles -> Int]
           /\ native' \in Streams /\ plugged' \in Plugs
<1> USE DEF Streams, Plugs
<1>1. CASE UNCHANGED <<session, watched, stack>> /\ listener' = heard
  BY <1>1 DEF TypeOK, stack
<1>2. CASE Drop /\ UNCHANGED stack /\ listener' = heard
  <2>1. watched' \in BOOLEAN
    BY <1>2 DEF Drop
  <2>2. session' \in Sessions /\ session'.token <= nextToken
    BY <1>2, NoSessionType DEF Drop, TypeOK
  <2> QED BY <1>2, <2>1, <2>2 DEF TypeOK, stack
<1>3. CASE /\ session' = [session EXCEPT !.stopping = TRUE]
           /\ listener' = [heard EXCEPT ![session.prof] = NoListener]
           /\ NativeStop(session.prof, session.peer)
           /\ UNCHANGED watched
  <2>1. session' \in Sessions
    BY <1>3 DEF TypeOK, Sessions
  <2>2. session'.token <= nextToken
    BY <1>3 DEF TypeOK, Sessions
  <2>3. watched' \in BOOLEAN
    BY <1>3 DEF TypeOK
  <2>4. listener' \in [Profiles -> Int]
    BY <1>3, NoListenerType
  <2>5. native' \in Streams
    BY <1>3 DEF TypeOK, NativeStop, States
  <2>6. plugged' \in Plugs
    BY <1>3 DEF TypeOK, NativeStop
  <2> QED BY <2>1, <2>2, <2>3, <2>4, <2>5, <2>6
<1> QED BY <1>1, <1>2, <1>3 DEF CancelSession

LEMMA StateType ==
    ASSUME TypeOK, NEW q, NEW p, NEW b, NEW heard \in [Profiles -> Int],
           SessionState(q, p, b, heard)
    PROVE  /\ session' \in Sessions /\ session'.token <= nextToken
           /\ watched' \in BOOLEAN
           /\ listener' \in [Profiles -> Int]
           /\ native' \in Streams /\ plugged' \in Plugs
<1>1. CASE UNCHANGED <<session, watched, stack>> /\ listener' = heard
  BY <1>1 DEF TypeOK, stack, Streams, Plugs
<1>2. CASE Drop /\ UNCHANGED stack /\ listener' = heard
  <2>1. watched' \in BOOLEAN
    BY <1>2 DEF Drop
  <2>2. session' \in Sessions /\ session'.token <= nextToken
    BY <1>2, NoSessionType DEF Drop, TypeOK
  <2> QED BY <1>2, <2>1, <2>2 DEF TypeOK, stack, Streams, Plugs
<1>3. CASE CancelSession(session.token, heard)
  BY <1>3, CancelType
<1> QED BY <1>1, <1>2, <1>3 DEF SessionState

LEMMA HeardType ==
    ASSUME TypeOK, NEW q, NEW p
    PROVE  Heard(q, p) \in [Profiles -> Int]
<1>1. listener \in [Profiles -> Int] BY DEF TypeOK
<1>2. [listener EXCEPT ![q] = NoListener] \in [Profiles -> Int] BY <1>1, NoListenerType
<1> QED BY <1>1, <1>2 DEF Heard

LEMMA ReceiveType ==
    ASSUME TypeOK, NEW op, Receive(op)
    PROVE  Msg \in Messages /\ inbox' \in Seq(Messages)
BY DEF TypeOK, Receive, Msg

LEMMA SendType ==
    ASSUME TypeOK, NEW m \in Messages, Send(m)
    PROVE  inbox' \in Seq(Messages)
BY DEF TypeOK, Send

LEMMA StackType ==
    ASSUME TypeOK
    PROVE  native \in Streams /\ audio \in Streams /\ plugged \in Plugs
BY DEF TypeOK, Streams, Plugs

LEMMA StateNames == "on" \in States /\ "off" \in States
BY DEF States

\* What the native stack does to its own streams and connections.
LEMMA StackMoves ==
    ASSUME TypeOK, NEW q \in Profiles, NEW p \in Peers,
           \/ StreamOpens(q, p) \/ StreamEnds(q, p) \/ PeerOpens(q, p)
           \/ Unplug(q, p) \/ Unplugged(q, p) \/ Plug(q, p)
    PROVE  native' \in Streams /\ plugged' \in Plugs
<1>1. native \in Streams /\ plugged \in Plugs
  BY StackType
<1>2. \/ native' = [native EXCEPT ![q][p] = "on"]
      \/ native' = [native EXCEPT ![q][p] = "off"]
      \/ UNCHANGED native
  BY DEF StreamOpens, StreamEnds, PeerOpens, Unplug, Unplugged, Plug
<1>3. native' \in Streams
  <2>1. [native EXCEPT ![q][p] = "on"] \in Streams
    BY <1>1, StateNames DEF Streams
  <2>2. [native EXCEPT ![q][p] = "off"] \in Streams
    BY <1>1, StateNames DEF Streams
  <2> QED BY <1>1, <1>2, <2>1, <2>2
<1>4. \/ plugged' = [plugged EXCEPT ![q][p] = "up"]
      \/ plugged' = [plugged EXCEPT ![q][p] = "dropping"]
      \/ plugged' = [plugged EXCEPT ![q][p] = "down"]
      \/ UNCHANGED plugged
  BY DEF StreamOpens, StreamEnds, PeerOpens, Unplug, Unplugged, Plug
<1>5. plugged' \in Plugs
  <2>1. [plugged EXCEPT ![q][p] = "up"] \in Plugs
    BY <1>1 DEF Plugs
  <2>2. [plugged EXCEPT ![q][p] = "dropping"] \in Plugs
    BY <1>1 DEF Plugs
  <2>3. [plugged EXCEPT ![q][p] = "down"] \in Plugs
    BY <1>1 DEF Plugs
  <2> QED BY <1>1, <1>4, <2>1, <2>2, <2>3
<1> QED BY <1>3, <1>5

-----------------------------------------------------------------------------
(* Type correctness.                                                        *)

LEMMA InitType == Init => TypeOK
<1> SUFFICES ASSUME Init PROVE TypeOK
  OBVIOUS
<1> USE DEF Init
<1>1. session \in Sessions /\ nextToken \in Nat /\ session.token <= nextToken
  BY NoSessionType
<1>2. listener \in [Profiles -> Int]
  BY NoListenerType
<1>3. conn \in [Profiles -> [Peers -> BOOLEAN]] /\ watched \in BOOLEAN
  OBVIOUS
<1>4. audio \in Streams /\ native \in Streams
  BY DEF Streams, States
<1>5. plugged \in Plugs
  BY DEF Plugs
<1>6. inbox \in Seq(Messages)
  OBVIOUS
<1>7. timers \subseteq 1..nextToken /\ cancels \subseteq 0..nextToken /\ alive \subseteq Owners
  OBVIOUS
<1> QED BY <1>1, <1>2, <1>3, <1>4, <1>5, <1>6, <1>7 DEF TypeOK, Streams, Plugs

LEMMA NextType == TypeOK /\ [Next]_vars => TypeOK'
<1> SUFFICES ASSUME TypeOK, [Next]_vars PROVE TypeOK'
  OBVIOUS
<1> USE DEF Streams, Plugs, outside, stack, daemon
<1>1. CASE ProfileUp
  <2>1. Msg \in Messages /\ inbox' \in Seq(Messages)
    BY <1>1, ReceiveType DEF ProfileUp
  <2>2. conn' \in [Profiles -> [Peers -> BOOLEAN]]
    BY <1>1 DEF ProfileUp, TypeOK
  <2> QED BY <1>1, <2>1, <2>2 DEF ProfileUp, TypeOK
<1>2. CASE ProfileDown
  <2>1. Msg \in Messages /\ inbox' \in Seq(Messages)
    BY <1>2, ReceiveType DEF ProfileDown
  <2>2. conn' \in [Profiles -> [Peers -> BOOLEAN]]
    BY <1>2 DEF ProfileDown, TypeOK
  <2>3. audio' \in Streams
    BY <1>2 DEF ProfileDown, TypeOK, States
  <2>4. /\ session' \in Sessions /\ session'.token <= nextToken
        /\ watched' \in BOOLEAN
        /\ listener' \in [Profiles -> Int]
        /\ native' \in Streams /\ plugged' \in Plugs
    BY <1>2, HeardType, StateType DEF ProfileDown
  <2> QED BY <1>2, <2>1, <2>2, <2>3, <2>4 DEF ProfileDown, TypeOK
<1>3. CASE AudioState
  <2>1. Msg \in Messages /\ inbox' \in Seq(Messages)
    BY <1>3, ReceiveType DEF AudioState
  <2>2. audio' \in Streams
    BY <1>3, <2>1 DEF AudioState, TypeOK, Messages
  <2>3. /\ session' \in Sessions /\ session'.token <= nextToken
        /\ watched' \in BOOLEAN
        /\ listener' \in [Profiles -> Int]
        /\ native' \in Streams /\ plugged' \in Plugs
    <3>1. CASE Msg.state \in {"on", "off"}
      BY <1>3, <3>1, HeardType, StateType DEF AudioState
    <3>2. CASE Msg.state \notin {"on", "off"}
      BY <1>3, <3>2 DEF AudioState, TypeOK
    <3> QED BY <3>1, <3>2
  <2> QED BY <1>3, <2>1, <2>2, <2>3 DEF AudioState, TypeOK
<1>4. CASE Expire
  <2>1. Msg \in Messages /\ inbox' \in Seq(Messages)
    BY <1>4, ReceiveType DEF Expire
  <2>2. listener \in [Profiles -> Int]
    BY DEF TypeOK
  <2>3. /\ session' \in Sessions /\ session'.token <= nextToken
        /\ watched' \in BOOLEAN
        /\ listener' \in [Profiles -> Int]
        /\ native' \in Streams /\ plugged' \in Plugs
    <3>1. CASE CancelSession(Msg.token, listener)
      BY <3>1, <2>2, CancelType
    <3>2. CASE UNCHANGED <<session, listener, watched, stack>>
      BY <3>2 DEF TypeOK
    <3> QED BY <1>4, <3>1, <3>2 DEF Expire
  <2> QED BY <1>4, <2>1, <2>3 DEF Expire, TypeOK
<1>5. CASE Cancel
  <2>1. Msg \in Messages /\ inbox' \in Seq(Messages)
    BY <1>5, ReceiveType DEF Cancel
  <2>2. listener \in [Profiles -> Int]
    BY DEF TypeOK
  <2>3. /\ session' \in Sessions /\ session'.token <= nextToken
        /\ watched' \in BOOLEAN
        /\ listener' \in [Profiles -> Int]
        /\ native' \in Streams /\ plugged' \in Plugs
    BY <1>5, <2>2, CancelType DEF Cancel
  <2> QED BY <1>5, <2>1, <2>3 DEF Cancel, TypeOK
<1>6. ASSUME NEW o \in Owners, Start(o) PROVE TypeOK'
  <2> DEFINE q == session.prof  p == session.peer
  <2>1. CASE /\ NativeStart(q, p) /\ audio' = Starting(q, p)
             /\ session' = [session EXCEPT !.started = TRUE]
             /\ listener' = [listener EXCEPT ![q] =
                   IF q = "a2dp" /\ audio[q][p] = "on" /\ native[q][p] = "on"
                   THEN NoListener ELSE session.token]
             /\ UNCHANGED watched
    <3>1. session' \in Sessions
      BY <2>1 DEF TypeOK, Sessions
    <3>2. session'.token = session.token /\ session.token \in Int
      BY <2>1 DEF TypeOK, Sessions
    <3>3. listener' \in [Profiles -> Int]
      BY <2>1, <3>2, NoListenerType DEF TypeOK
    <3>4. native' \in Streams
      BY <2>1 DEF TypeOK, NativeStart, States
    <3>5. audio' \in Streams
      BY <2>1 DEF TypeOK, Starting, States
    <3> QED BY <1>6, <2>1, <3>1, <3>2, <3>3, <3>4, <3>5 DEF TypeOK, Start
  <2>2. CASE /\ Drop /\ listener' = [r \in Profiles |-> NoListener]
             /\ UNCHANGED <<audio, native>>
    <3>1. session' \in Sessions /\ session'.token <= nextToken
      BY <2>2, NoSessionType DEF Drop, TypeOK
    <3>2. listener' \in [Profiles -> Int]
      BY <2>2, NoListenerType
    <3>3. watched' \in BOOLEAN
      BY <2>2 DEF Drop
    <3> QED BY <1>6, <2>2, <3>1, <3>2, <3>3 DEF TypeOK, Start
  <2> QED BY <1>6, <2>1, <2>2 DEF Start
<1>7. ASSUME NEW o \in Owners, StopSession(o) PROVE TypeOK'
  <2>1. listener \in [Profiles -> Int]
    BY DEF TypeOK
  <2>2. /\ session' \in Sessions /\ session'.token <= nextToken
        /\ watched' \in BOOLEAN
        /\ listener' \in [Profiles -> Int]
        /\ native' \in Streams /\ plugged' \in Plugs
    BY <1>7, <2>1, CancelType DEF StopSession
  <2> QED BY <1>7, <2>2 DEF StopSession, TypeOK
<1>8. ASSUME NEW o \in Owners, OwnerLeaves(o) PROVE TypeOK'
  <2>1. session.token \in Nat /\ session.token <= nextToken
    BY DEF TypeOK, Sessions
  <2>2. cancels' \subseteq 0..nextToken
    <3>1. \A t \in cancels' : t \in cancels \/ t = session.token
      BY <1>8 DEF OwnerLeaves
    <3>2. cancels \subseteq 0..nextToken /\ session.token \in 0..nextToken
      BY <2>1 DEF TypeOK
    <3> QED BY <3>1, <3>2
  <2>3. alive' \subseteq Owners
    BY <1>8 DEF OwnerLeaves, TypeOK
  <2>4. UNCHANGED <<session, nextToken, listener, conn, audio, watched, inbox, timers, native, plugged>>
    BY <1>8 DEF OwnerLeaves
  <2> QED BY <2>2, <2>3, <2>4 DEF TypeOK
<1>9. ASSUME NEW t \in 1..MaxToken, TimerFires(t) PROVE TypeOK'
  <2>1. Timed("expire", t) \in Messages
    BY SessionAssumption DEF Timed, Messages, Profiles, States
  <2>2. inbox' \in Seq(Messages)
    BY <1>9, <2>1, SendType DEF TimerFires
  <2> QED BY <1>9, <2>2 DEF TimerFires, TypeOK
<1>10. ASSUME NEW t \in 1..MaxToken, CancelSent(t) PROVE TypeOK'
  <2>1. Timed("cancel", t) \in Messages
    BY SessionAssumption DEF Timed, Messages, Profiles, States
  <2>2. inbox' \in Seq(Messages)
    BY <1>10, <2>1, SendType DEF CancelSent
  <2> QED BY <1>10, <2>2 DEF CancelSent, TypeOK
<1>11. ASSUME NEW q \in Profiles, NEW p \in Peers, NEW o \in Owners, Reserve(o, q, p)
       PROVE  TypeOK'
  <2>1. nextToken' = nextToken + 1 /\ nextToken' \in Nat
    BY <1>11 DEF Reserve, TypeOK
  <2>2. session' \in Sessions /\ session'.token = nextToken'
    BY <1>11, <2>1 DEF Reserve, Sessions
  <2>3. timers' \subseteq 1..nextToken' /\ cancels' \subseteq 0..nextToken'
    BY <1>11, <2>1 DEF Reserve, TypeOK
  <2>4. watched' \in BOOLEAN
    BY <1>11 DEF Reserve
  <2> QED BY <1>11, <2>1, <2>2, <2>3, <2>4 DEF Reserve, TypeOK
<1>12. ASSUME NEW q \in Profiles, NEW p \in Peers, LegacyStart(q, p) PROVE TypeOK'
  <2>1. native' \in Streams
    BY <1>12 DEF LegacyStart, TypeOK, NativeStart, States
  <2>2. audio' \in Streams
    BY <1>12 DEF LegacyStart, TypeOK, Starting, States
  <2>3. Legacy \in Int
    BY DEF Legacy
  <2>4. listener' \in [Profiles -> Int]
    BY <1>12, <2>3 DEF LegacyStart, TypeOK
  <2> QED BY <1>12, <2>1, <2>2, <2>4 DEF LegacyStart, TypeOK
<1>13. ASSUME NEW q \in Profiles, NEW p \in Peers, NEW op \in {"up", "down", "audio"},
              NEW st \in States
       PROVE  Callback(op, q, p, st) \in Messages
  BY DEF Callback, Messages
<1>14. ASSUME NEW q \in Profiles, NEW p \in Peers, StreamOpens(q, p) PROVE TypeOK'
  <2>1. native' \in Streams
    BY <1>14, StackMoves
  <2>2. inbox' \in Seq(Messages)
    <3>1. Callback("audio", q, p, "on") \in Messages /\ Callback("audio", q, p, "off") \in Messages
      BY <1>13 DEF States
    <3> QED BY <1>14, <3>1, SendType DEF StreamOpens, TypeOK
  <2> QED BY <1>14, <2>1, <2>2 DEF StreamOpens, TypeOK
<1>15. ASSUME NEW q \in Profiles, NEW p \in Peers, StreamEnds(q, p) \/ PeerOpens(q, p)
       PROVE  TypeOK'
  <2>1. native' \in Streams
    BY <1>15, StackMoves
  <2>2. inbox' \in Seq(Messages)
    <3>1. Callback("audio", q, p, "on") \in Messages /\ Callback("audio", q, p, "off") \in Messages
      BY <1>13 DEF States
    <3> QED BY <1>15, <3>1, SendType DEF StreamEnds, PeerOpens
  <2> QED BY <1>15, <2>1, <2>2 DEF StreamEnds, PeerOpens, TypeOK
<1>16. ASSUME NEW p \in Peers, HfpReports(p) PROVE TypeOK'
  <2>1. Callback("audio", "hfp", p, native["hfp"][p]) \in Messages
    BY <1>13 DEF TypeOK, Profiles
  <2>2. inbox' \in Seq(Messages)
    BY <1>16, <2>1, SendType DEF HfpReports
  <2> QED BY <1>16, <2>2 DEF HfpReports, TypeOK
<1>17. ASSUME NEW q \in Profiles, NEW p \in Peers, Unplug(q, p) \/ Plug(q, p) \/ Unplugged(q, p)
       PROVE  TypeOK'
  <2>1. native' \in Streams
    BY <1>17, StackMoves
  <2>2. plugged' \in Plugs
    BY <1>17, StackMoves
  <2>3. inbox' \in Seq(Messages)
    <3>1. Callback("up", q, p, "off") \in Messages /\ Callback("down", q, p, "off") \in Messages
      BY <1>13 DEF States
    <3> QED BY <1>17, <3>1, SendType DEF Unplug, Plug, Unplugged, TypeOK
  <2> QED BY <1>17, <2>1, <2>2, <2>3 DEF Unplug, Plug, Unplugged, TypeOK
<1>18. CASE UNCHANGED vars
  BY <1>18 DEF vars, TypeOK
<1> QED BY <1>1, <1>2, <1>3, <1>4, <1>5, <1>6, <1>7, <1>8, <1>9, <1>10, <1>11, <1>12,
           <1>14, <1>15, <1>16, <1>17, <1>18 DEF Next, Dispatch

\* Every state of the media service has the expected types, and no message,
\* timer or session carries a token that has not been issued.
THEOREM TypeCorrect == Spec => []TypeOK
BY InitType, NextType, PTL DEF Spec
-----------------------------------------------------------------------------
(* What a step can do to the session.                                       *)

\* A held session has a peer and an owner; without one the record is empty.
Coherent == IF Held THEN session.peer \in Peers /\ session.owner \in Owners
            ELSE session = NoSession

Unmoved == UNCHANGED <<session, nextToken>>
Granted == /\ ~Held /\ nextToken' = nextToken + 1 /\ session'.token = nextToken'
           /\ session'.peer \in Peers /\ session'.owner \in Owners
           /\ session'.started = FALSE /\ session'.stopping = FALSE
Begun == /\ Held /\ ~session.started /\ ~session.stopping
         /\ session' = [session EXCEPT !.started = TRUE] /\ UNCHANGED nextToken
Stopped == /\ Held /\ session.started
           /\ session' = [session EXCEPT !.stopping = TRUE] /\ UNCHANGED nextToken
Ended == /\ Held /\ session' = NoSession /\ UNCHANGED nextToken
         /\ session.started => audio'[session.prof][session.peer] = "off"
Move == Unmoved \/ Granted \/ Begun \/ Stopped \/ Ended

LEMMA CancelMoves ==
    ASSUME NEW t, NEW heard, CancelSession(t, heard), UNCHANGED nextToken
    PROVE  Move
<1>1. CASE UNCHANGED session
  BY <1>1 DEF Move, Unmoved
<1>2. CASE Held /\ ~session.started /\ Drop
  BY <1>2 DEF Move, Ended, Drop
<1>3. CASE Held /\ session.started /\ session' = [session EXCEPT !.stopping = TRUE]
  BY <1>3 DEF Move, Stopped
<1> QED BY <1>1, <1>2, <1>3 DEF CancelSession

LEMMA StateMoves ==
    ASSUME NEW q, NEW p, NEW b, NEW heard, SessionState(q, p, b, heard), UNCHANGED nextToken,
           b /\ Matches(q, p) => audio'[q][p] = "off"
    PROVE  Move
<1>1. CASE UNCHANGED session
  BY <1>1 DEF Move, Unmoved
<1>2. CASE Matches(q, p) /\ b /\ Drop
  BY <1>2 DEF Move, Ended, Drop, Matches
<1>3. CASE CancelSession(session.token, heard)
  BY <1>3, CancelMoves
<1> QED BY <1>1, <1>2, <1>3 DEF SessionState

\* The state that a callback records is the state of its peer.
LEMMA Recorded ==
    ASSUME TypeOK, Coherent, NEW q, NEW p, NEW st, Matches(q, p),
           audio' = [audio EXCEPT ![q][p] = st]
    PROVE  audio'[q][p] = st
<1>1. q \in Profiles /\ p \in Peers
  BY DEF TypeOK, Coherent, Matches, Sessions
<1> QED BY <1>1 DEF TypeOK

LEMMA SessionMoves == TypeOK /\ Coherent /\ [Next]_vars => Move
<1> SUFFICES ASSUME TypeOK, Coherent, [Next]_vars PROVE Move
  OBVIOUS
<1>1. CASE UNCHANGED <<session, nextToken>>
  BY <1>1 DEF Move, Unmoved
<1>2. CASE ProfileDown
  <2>1. Matches(Msg.prof, Msg.peer) => audio'[Msg.prof][Msg.peer] = "off"
    BY <1>2, Recorded DEF ProfileDown
  <2> QED BY <1>2, <2>1, StateMoves DEF ProfileDown
<1>3. CASE AudioState
  <2>1. CASE Msg.state \in {"on", "off"}
    <3>1. Matches(Msg.prof, Msg.peer) => audio'[Msg.prof][Msg.peer] = Msg.state
      BY <1>3, Recorded DEF AudioState
    <3>2. SessionState(Msg.prof, Msg.peer, Msg.state = "off", Heard(Msg.prof, Msg.peer))
          /\ UNCHANGED nextToken
      BY <1>3, <2>1 DEF AudioState
    <3> QED BY <3>1, <3>2, StateMoves
  <2>2. CASE Msg.state \notin {"on", "off"}
    BY <1>3, <1>1, <2>2 DEF AudioState
  <2> QED BY <2>1, <2>2
<1>4. CASE Expire
  BY <1>4, <1>1, CancelMoves DEF Expire
<1>5. CASE Cancel
  BY <1>5, CancelMoves DEF Cancel
<1>6. ASSUME NEW o \in Owners, Start(o) PROVE Move
  BY <1>6 DEF Start, Drop, Move, Begun, Ended
<1>7. ASSUME NEW o \in Owners, StopSession(o) PROVE Move
  BY <1>7, CancelMoves DEF StopSession
<1>8. ASSUME NEW q \in Profiles, NEW p \in Peers, NEW o \in Owners, Reserve(o, q, p)
      PROVE  Move
  BY <1>8 DEF Reserve, Busy, Move, Granted
<1> QED BY <1>1, <1>2, <1>3, <1>4, <1>5, <1>6, <1>7, <1>8
        DEF Next, Dispatch, ProfileUp, OwnerLeaves, TimerFires, CancelSent, LegacyStart,
            StreamOpens, StreamEnds, PeerOpens, Unplug, Unplugged, Plug, HfpReports, vars, daemon

LEMMA NextCoherent == TypeOK /\ Coherent /\ [Next]_vars => Coherent'
<1> SUFFICES ASSUME TypeOK, Coherent, Move PROVE Coherent'
  BY SessionMoves
<1>1. CASE Unmoved
  BY <1>1 DEF Unmoved, Coherent, Held
<1>2. CASE Granted
  BY <1>2 DEF Granted, Coherent, Held, TypeOK
<1>3. CASE Begun \/ Stopped
  BY <1>3 DEF Begun, Stopped, Coherent, Held, TypeOK, Sessions
<1>4. CASE Ended
  BY <1>4, NoSessionType DEF Ended, Coherent, Held
<1> QED BY <1>1, <1>2, <1>3, <1>4 DEF Move

LEMMA InitCoherent == Init => Coherent
BY NoSessionType DEF Init, Coherent, Held

\* A started session is given up only when its stream is recorded as ended: of
\* all the steps that free it only callbacks can free a started one.
THEOREM ExclusionKept == Spec => HeldUntilTerminal
<1>1. TypeOK /\ Coherent /\ [Next]_vars =>
        [session.started /\ session'.token # session.token
            => audio'[session.prof][session.peer] = "off"]_vars
  <2> SUFFICES ASSUME TypeOK, Coherent, Move, session.started, session'.token # session.token
               PROVE  audio'[session.prof][session.peer] = "off"
    BY SessionMoves
  <2>1. Held
    BY DEF Coherent, NoSession
  <2>2. ~Unmoved /\ ~Granted /\ ~Begun
    BY <2>1 DEF Unmoved, Granted, Begun
  <2>3. ~Stopped
    BY DEF Stopped, TypeOK, Sessions
  <2> QED BY <2>2, <2>3 DEF Move, Ended
<1> QED BY <1>1, InitType, NextType, InitCoherent, NextCoherent, PTL DEF Spec, HeldUntilTerminal

\* The session implements the lease: whatever the callers, the headset and the
\* native stack do, each step is a step of Lease or leaves it alone.
THEOREM Implements == Spec => LeaseContract
<1>1. Init => Contract!Init
  BY NoSessionType DEF Init, Contract!Init, Phase, Held
<1>2. TypeOK /\ Coherent /\ [Next]_vars => [Contract!Next]_Contract!leaseVars
  <2> SUFFICES ASSUME TypeOK, Coherent, Move PROVE [Contract!Next]_Contract!leaseVars
    BY SessionMoves
  <2>1. CASE Unmoved
    BY <2>1 DEF Unmoved, Contract!leaseVars, Phase, Held
  <2>2. CASE Granted
    <3>1. Phase = "free" /\ Phase' = "reserved"
      BY <2>2 DEF Granted, Phase, Held, TypeOK
    <3> QED BY <2>2, <3>1 DEF Granted, Contract!Next, Contract!Grant
  <2>3. CASE Begun
    <3>1. Phase = "reserved" /\ Phase' = "active"
      BY <2>3 DEF Begun, Phase, Held, TypeOK, Sessions
    <3> QED BY <2>3, <3>1 DEF Begun, Contract!Next, Contract!Begin
  <2>4. CASE Stopped
    <3>1. Phase \in {"active", "draining"} /\ Phase' = "draining"
      BY <2>4 DEF Stopped, Phase, Held, TypeOK, Sessions
    <3> QED BY <2>4, <3>1 DEF Stopped, Contract!Next, Contract!Stop, Contract!leaseVars
  <2>5. CASE Ended
    <3>1. Phase # "free" /\ Phase' = "free"
      BY <2>5, NoSessionType DEF Ended, Phase, Held
    <3> QED BY <2>5, <3>1 DEF Ended, Contract!Next, Contract!Free
  <2> QED BY <2>1, <2>2, <2>3, <2>4, <2>5 DEF Move
<1> QED BY <1>1, <1>2, InitType, NextType, InitCoherent, NextCoherent, PTL
        DEF Spec, LeaseContract, Contract!Spec
-----------------------------------------------------------------------------
(* The notification FDs.                                                    *)

LEMMA CancelOwned ==
    ASSUME TypeOK, ListenerOwned, NEW t, NEW heard \in [Profiles -> Int],
           \A q \in Profiles : heard[q] = listener[q] \/ heard[q] = NoListener,
           CancelSession(t, heard)
    PROVE  ListenerOwned'
<1>1. CASE UNCHANGED session /\ listener' = heard
  BY <1>1 DEF ListenerOwned, Held
<1>2. CASE Held /\ ~session.started /\ listener' = heard
  <2>1. \A q \in Profiles : listener'[q] = NoListener
    BY <1>2 DEF ListenerOwned
  <2> QED BY <2>1 DEF ListenerOwned
<1>3. CASE Held /\ listener' = [heard EXCEPT ![session.prof] = NoListener]
  <2>1. \A q \in Profiles : listener'[q] = NoListener
    BY <1>3 DEF ListenerOwned
  <2> QED BY <2>1 DEF ListenerOwned
<1> QED BY <1>1, <1>2, <1>3 DEF CancelSession

LEMMA HeardSome ==
    ASSUME TypeOK, NEW q, NEW p
    PROVE  \A r \in Profiles : Heard(q, p)[r] = listener[r] \/ Heard(q, p)[r] = NoListener
BY DEF TypeOK, Heard

LEMMA StateOwned ==
    ASSUME TypeOK, ListenerOwned, NEW q, NEW p, NEW b, SessionState(q, p, b, Heard(q, p))
    PROVE  ListenerOwned'
<1> DEFINE heard == Heard(q, p)
<1>1. heard \in [Profiles -> Int]
  BY HeardType
<1>2. \A r \in Profiles : heard[r] = listener[r] \/ heard[r] = NoListener
  BY HeardSome
<1>3. CASE UNCHANGED session /\ listener' = heard
  BY <1>2, <1>3 DEF ListenerOwned, Held
<1>4. CASE Matches(q, p) /\ listener' = heard
  <2>1. \A r \in Profiles : listener'[r] = NoListener
    BY <1>4 DEF ListenerOwned, Matches, Heard, TypeOK
  <2> QED BY <2>1 DEF ListenerOwned
<1>5. CASE CancelSession(session.token, heard)
  BY <1>1, <1>2, <1>5, CancelOwned
<1> HIDE DEF heard
<1> QED BY <1>3, <1>4, <1>5 DEF SessionState, heard

LEMMA NextOwned == TypeOK /\ ListenerOwned /\ [Next]_vars => ListenerOwned'
<1> SUFFICES ASSUME TypeOK, ListenerOwned, [Next]_vars PROVE ListenerOwned'
  OBVIOUS
<1>0. listener \in [Profiles -> Int]
  BY DEF TypeOK
<1>1. CASE UNCHANGED <<session, listener>>
  BY <1>1 DEF ListenerOwned, Held
<1>2. CASE ProfileDown
  BY <1>2, StateOwned DEF ProfileDown
<1>3. CASE AudioState
  BY <1>3, <1>1, StateOwned DEF AudioState
<1>4. CASE Expire
  BY <1>4, <1>0, <1>1, CancelOwned DEF Expire
<1>5. CASE Cancel
  BY <1>5, <1>0, CancelOwned DEF Cancel
<1>6. ASSUME NEW o \in Owners, Start(o) PROVE ListenerOwned'
  <2>1. CASE session' = NoSession /\ listener' = [r \in Profiles |-> NoListener]
    BY <2>1 DEF ListenerOwned
  <2>2. CASE /\ session' = [session EXCEPT !.started = TRUE]
             /\ \E l \in {NoListener, session.token} :
                   listener' = [listener EXCEPT ![session.prof] = l]
    <3>1. \A q \in Profiles : listener[q] = NoListener
      BY <1>6 DEF Start, ListenerOwned
    <3>2. /\ session'.started /\ ~session'.stopping
          /\ session'.prof = session.prof /\ session'.token = session.token
      BY <1>6, <2>2 DEF Start, TypeOK, Sessions
    <3>3. \A q \in Profiles : listener'[q] # NoListener
              => q = session.prof /\ listener'[q] = session.token
      BY <1>0, <2>2, <3>1
    <3> QED BY <1>6, <3>2, <3>3 DEF ListenerOwned, Held, Start
  <2> QED BY <1>6, <2>1, <2>2 DEF Start, Drop
<1>7. ASSUME NEW o \in Owners, StopSession(o) PROVE ListenerOwned'
  BY <1>7, <1>0, CancelOwned DEF StopSession
<1>8. ASSUME NEW q \in Profiles, NEW p \in Peers, NEW o \in Owners, Reserve(o, q, p)
      PROVE  ListenerOwned'
  <2>1. \A r \in Profiles : listener'[r] = NoListener
    BY <1>8 DEF Reserve, Busy
  <2> QED BY <2>1 DEF ListenerOwned
<1>9. ASSUME NEW q \in Profiles, NEW p \in Peers, LegacyStart(q, p)
      PROVE  ListenerOwned'
  BY <1>9, <1>0 DEF LegacyStart, ListenerOwned, Held
<1> QED BY <1>1, <1>2, <1>3, <1>4, <1>5, <1>6, <1>7, <1>8, <1>9
        DEF Next, Dispatch, ProfileUp, OwnerLeaves, TimerFires, CancelSent,
            StreamOpens, StreamEnds, PeerOpens, Unplug, Unplugged, Plug, HfpReports, vars, daemon

\* A callback never answers the notification FD of a caller whose session was
\* cancelled, freed or replaced: no such FD is left in the service.
THEOREM ListenersOwned == Spec => []ListenerOwned
<1>1. Init => ListenerOwned
  BY DEF Init, ListenerOwned
<1> QED BY <1>1, InitType, NextType, NextOwned, PTL DEF Spec

-----------------------------------------------------------------------------
(* Tokens: what a message still on its way can name.                        *)

\* A message names an issued token.
Issued == \A i \in 1..Len(inbox) : inbox[i].token <= nextToken

\* A cancellation on its way names a session without a live owner, or none.
Meant ==
    /\ \A t \in cancels : t = session.token => session.owner \notin alive
    /\ \A i \in 1..Len(inbox) :
          inbox[i].op = "cancel" /\ inbox[i].token = session.token => session.owner \notin alive

LEMMA Numbered ==
    ASSUME TypeOK
    PROVE  /\ \A m \in Messages : m.token \in Nat
           /\ \A i \in 1..Len(inbox) : inbox[i].token \in Nat
<1>1. \A m \in Messages : m.token \in Nat
  BY DEF Messages
<1>2. inbox \in Seq(Messages)
  BY DEF TypeOK
<1>3. \A i \in 1..Len(inbox) : inbox[i] \in Messages
  BY <1>2
<1> QED BY <1>1, <1>3

\* How the channel changes, and who sends a cancellation.
LEMMA ChannelMoves ==
    ASSUME TypeOK, [Next]_vars
    PROVE  \/ UNCHANGED inbox
           \/ inbox # <<>> /\ inbox' = Tail(inbox)
           \/ \E m \in Messages : /\ inbox' = Append(inbox, m)
                                  /\ m.token = 0 \/ m.token \in timers \cup cancels
                                  /\ m.op = "cancel" => m.token \in cancels
<1> DEFINE Grows == \E m \in Messages : /\ inbox' = Append(inbox, m)
                                        /\ m.token = 0 \/ m.token \in timers \cup cancels
                                        /\ m.op = "cancel" => m.token \in cancels
<1>1. ASSUME NEW q \in Profiles, NEW p \in Peers, NEW op \in {"up", "down", "audio"},
             NEW st \in States, Send(Callback(op, q, p, st))
      PROVE  Grows
  <2>1. Callback(op, q, p, st) \in Messages
    BY DEF Callback, Messages
  <2>2. Callback(op, q, p, st).token = 0 /\ Callback(op, q, p, st).op # "cancel"
    BY DEF Callback
  <2> QED BY <1>1, <2>1, <2>2 DEF Send
<1>2. ASSUME NEW t \in 1..MaxToken, NEW op \in {"expire", "cancel"}, Send(Timed(op, t)),
             t \in timers \cup cancels, op = "cancel" => t \in cancels
      PROVE  Grows
  <2>1. Timed(op, t) \in Messages
    BY SessionAssumption DEF Timed, Messages, Profiles, States
  <2>2. Timed(op, t).token = t /\ Timed(op, t).op = op
    BY DEF Timed
  <2> QED BY <1>2, <2>1, <2>2 DEF Send
<1>3. ASSUME NEW t \in 1..MaxToken, TimerFires(t) \/ CancelSent(t) PROVE Grows
  BY <1>2, <1>3 DEF TimerFires, CancelSent
<1>4. ASSUME NEW q \in Profiles, NEW p \in Peers,
             \/ StreamOpens(q, p) \/ StreamEnds(q, p) \/ PeerOpens(q, p)
             \/ Unplug(q, p) \/ Plug(q, p)
      PROVE  Grows \/ UNCHANGED inbox
  BY <1>1, <1>4, StateNames DEF StreamOpens, StreamEnds, PeerOpens, Unplug, Plug
<1>5. ASSUME NEW p \in Peers, HfpReports(p) PROVE Grows
  <2>1. native["hfp"][p] \in States /\ "hfp" \in Profiles
    BY DEF TypeOK, Profiles
  <2> QED BY <1>1, <1>5, <2>1 DEF HfpReports
<1> HIDE DEF Grows
<1>6. Dispatch => inbox # <<>> /\ inbox' = Tail(inbox)
  BY DEF Dispatch, ProfileUp, ProfileDown, AudioState, Expire, Cancel, Receive
<1>7. UNCHANGED inbox \/ (inbox # <<>> /\ inbox' = Tail(inbox)) \/ Grows
  BY <1>3, <1>4, <1>5, <1>6
     DEF Next, Start, StopSession, OwnerLeaves, Reserve, LegacyStart, Unplugged, vars
<1> QED BY <1>7 DEF Grows
\* What changes the tokens outside the session.
LEMMA TokenMoves ==
    ASSUME TypeOK, [Next]_vars
    PROVE  /\ alive' \subseteq alive
           /\ \A t \in cancels' : t \in cancels \/ (t = session.token /\ session.owner \notin alive')
           /\ nextToken' \in Nat /\ nextToken <= nextToken'
<1>1. alive' \subseteq alive
      /\ \A t \in cancels' : t \in cancels \/ (t = session.token /\ session.owner \notin alive')
  <2>1. CASE UNCHANGED <<alive, cancels>>
    BY <2>1
  <2>2. ASSUME NEW o \in Owners, OwnerLeaves(o) PROVE <1>1!1 /\ <1>1!2
    BY <2>2 DEF OwnerLeaves
  <2>3. ASSUME NEW t \in 1..MaxToken, CancelSent(t) PROVE <1>1!1 /\ <1>1!2
    BY <2>3 DEF CancelSent
  <2> QED BY <2>1, <2>2, <2>3, ZenonT(60)
          DEF Next, Dispatch, ProfileUp, ProfileDown, AudioState, Expire, Cancel, Start,
              StopSession, TimerFires, Reserve, LegacyStart, StreamOpens, StreamEnds,
              PeerOpens, Unplug, Unplugged, Plug, HfpReports, vars, outside
<1>2. nextToken' \in Nat /\ nextToken <= nextToken'
  <2>1. CASE UNCHANGED nextToken
    BY <2>1 DEF TypeOK
  <2>2. ASSUME NEW o, NEW q, NEW p, Reserve(o, q, p)
        PROVE  nextToken' \in Nat /\ nextToken <= nextToken'
    BY <2>2 DEF Reserve, TypeOK
  <2> QED BY <2>1, <2>2, ZenonT(60)
          DEF Next, Dispatch, ProfileUp, ProfileDown, AudioState, Expire, Cancel, Start,
              StopSession, OwnerLeaves, TimerFires, CancelSent, LegacyStart, StreamOpens,
              StreamEnds, PeerOpens, Unplug, Unplugged, Plug, HfpReports, vars, daemon
<1> QED BY <1>1, <1>2

LEMMA NextIssued == TypeOK /\ Issued /\ [Next]_vars => Issued'
<1> SUFFICES ASSUME TypeOK, Issued, [Next]_vars PROVE Issued'
  OBVIOUS
<1>1. nextToken \in Nat /\ nextToken' \in Nat /\ nextToken <= nextToken'
  BY TokenMoves DEF TypeOK
<1>2. inbox \in Seq(Messages) /\ \A m \in Messages : m.token \in Nat
  BY Numbered DEF TypeOK
<1>3. CASE UNCHANGED inbox
  BY <1>1, <1>2, <1>3 DEF Issued
<1>4. CASE inbox # <<>> /\ inbox' = Tail(inbox)
  BY <1>1, <1>2, <1>4 DEF Issued
<1>5. ASSUME NEW m \in Messages, inbox' = Append(inbox, m),
             m.token = 0 \/ m.token \in timers \cup cancels
      PROVE  Issued'
  <2>1. m.token \in Nat /\ m.token <= nextToken
    <3>1. timers \subseteq 0..nextToken /\ cancels \subseteq 0..nextToken
      BY DEF TypeOK
    <3>2. CASE m.token = 0
      BY <1>1, <3>2
    <3>3. CASE m.token \in timers \cup cancels
      <4>1. m.token \in 0..nextToken
        BY <3>1, <3>3
      <4> QED BY <1>1, <4>1
    <3> QED BY <1>5, <3>2, <3>3
  <2> QED BY <1>1, <1>2, <1>5, <2>1 DEF Issued
<1> QED BY <1>3, <1>4, <1>5, ChannelMoves

LEMMA NextMeant == TypeOK /\ Coherent /\ Issued /\ Meant /\ [Next]_vars => Meant'
<1> SUFFICES ASSUME TypeOK, Coherent, Issued, Meant, [Next]_vars PROVE Meant'
  OBVIOUS
<1>1. \A t \in 0..nextToken : (t = session.token => session.owner \notin alive')
         => (t = session'.token => session'.owner \notin alive')
  <2> SUFFICES ASSUME NEW t \in 0..nextToken, t = session.token => session.owner \notin alive',
                      t = session'.token
               PROVE  session'.owner \notin alive'
    OBVIOUS
  <2>1. alive' \subseteq Owners
    BY TokenMoves DEF TypeOK
  <2>2. CASE Unmoved
    BY <2>2 DEF Unmoved
  <2>3. CASE Granted
    BY <2>3 DEF Granted, TypeOK
  <2>4. CASE Begun \/ Stopped
    BY <2>4 DEF Begun, Stopped, TypeOK, Sessions
  <2>5. CASE Ended
    BY <2>1, <2>5, SessionAssumption DEF Ended, NoSession
  <2> QED BY <2>2, <2>3, <2>4, <2>5, SessionMoves DEF Move
<1>2. \A t \in cancels' : t \in 0..nextToken /\ (t = session.token => session.owner \notin alive')
  <2>1. session.token \in 0..nextToken /\ cancels \subseteq 0..nextToken
    BY DEF TypeOK, Sessions
  <2> QED BY <2>1, TokenMoves DEF Meant
<1>3. \A i \in 1..Len(inbox') : inbox'[i].op = "cancel" =>
         /\ inbox'[i].token \in 0..nextToken
         /\ inbox'[i].token = session.token => session.owner \notin alive'
  <2>0. \A i \in 1..Len(inbox) : inbox[i].op = "cancel" =>
           /\ inbox[i].token \in 0..nextToken
           /\ inbox[i].token = session.token => session.owner \notin alive'
    <3>1. \A i \in 1..Len(inbox) : inbox[i].token \in 0..nextToken
      <4>1. nextToken \in Nat
        BY DEF TypeOK
      <4> QED BY <4>1, Numbered DEF Issued
    <3> QED BY <3>1, TokenMoves DEF Meant
  <2>1. CASE UNCHANGED inbox
    BY <2>0, <2>1
  <2>2. CASE inbox # <<>> /\ inbox' = Tail(inbox)
    <3>1. inbox \in Seq(Messages)
      BY DEF TypeOK
    <3>2. Len(inbox') = Len(inbox) - 1 /\ \A i \in 1..Len(inbox') : inbox'[i] = inbox[i + 1]
      BY <2>2, <3>1
    <3>3. \A i \in 1..Len(inbox') : i + 1 \in 1..Len(inbox)
      BY <3>1, <3>2
    <3> QED BY <2>0, <3>2, <3>3
  <2>3. ASSUME NEW m \in Messages, inbox' = Append(inbox, m),
               m.op = "cancel" => m.token \in cancels
        PROVE  <1>3
    <3>1. m.op = "cancel" => /\ m.token \in 0..nextToken
                             /\ m.token = session.token => session.owner \notin alive'
      BY <2>3, TokenMoves DEF Meant, TypeOK
    <3> QED BY <2>0, <2>3, <3>1 DEF TypeOK
  <2> QED BY <2>1, <2>2, <2>3, ChannelMoves
<1> QED BY <1>1, <1>2, <1>3 DEF Meant

LEMMA InitTokens == Init => Issued /\ Meant
BY DEF Init, Issued, Meant

\* Tokens never repeat in a way that matters: nothing still on its way names the
\* session that is reserved now.
THEOREM FreshTokens == Spec => TokensFresh
<1>1. TypeOK /\ Coherent /\ Issued /\ [Next]_vars =>
        [session'.token # session.token /\ session'.token # 0
            => session'.token \notin Outstanding]_vars
  <2> SUFFICES ASSUME TypeOK, Issued, Move, session'.token # session.token, session'.token # 0
               PROVE  session'.token \notin Outstanding
    BY SessionMoves
  <2>1. ~Unmoved /\ ~Ended
    BY NoSessionType DEF Unmoved, Ended
  <2>2. ~Begun /\ ~Stopped
    BY DEF Begun, Stopped, TypeOK, Sessions
  <2>3. session'.token = nextToken + 1
    BY <2>1, <2>2 DEF Move, Granted
  <2>4. \A i \in 1..Len(inbox) : inbox[i].token \in Nat /\ inbox[i].token <= nextToken
    BY Numbered DEF Issued
  <2> QED BY <2>3, <2>4 DEF Outstanding, TypeOK
<1> QED BY <1>1, InitType, NextType, InitCoherent, NextCoherent, InitTokens, NextIssued, PTL
        DEF Spec, TokensFresh

\* Of all messages only the cancellation of this very session can stop it, and
\* then its owner has left: no expiry and no message of an older session does.
THEOREM OwnersDecide == Spec => OwnerDecides
<1>1. TypeOK /\ Coherent /\ Meant /\ [Next]_vars =>
        [~session.stopping /\ session'.stopping /\ inbox' # inbox
            => session.owner \notin alive]_vars
  <2> SUFFICES ASSUME TypeOK, Coherent, Meant, [Next]_vars,
                      ~session.stopping, session'.stopping, inbox' # inbox
               PROVE  session.owner \notin alive
    OBVIOUS
  <2>0. ~Drop /\ ~UNCHANGED session
    BY DEF Drop, NoSession
  <2>1. ASSUME NEW q, NEW p, NEW b, NEW heard, SessionState(q, p, b, heard) PROVE FALSE
    BY <2>0, <2>1 DEF SessionState
  <2>2. Cancel
    BY <2>0, <2>1, ZenonT(60)
       DEF Next, Dispatch, ProfileUp, ProfileDown, AudioState, Expire, CancelSession, Start,
           StopSession, OwnerLeaves, TimerFires, CancelSent, Reserve, LegacyStart, StreamOpens,
           StreamEnds, PeerOpens, Unplug, Unplugged, Plug, HfpReports, vars, daemon
  <2>3. Msg.op = "cancel" /\ Msg.token = session.token /\ inbox # <<>>
    BY <2>0, <2>2 DEF Cancel, Receive, CancelSession
  <2>4. 1 \in 1..Len(inbox) /\ inbox[1] = Msg
    BY <2>3 DEF Msg, TypeOK
  <2> QED BY <2>3, <2>4 DEF Meant
<1> QED BY <1>1, InitType, NextType, InitCoherent, NextCoherent, InitTokens, NextIssued,
           NextMeant, PTL DEF Spec, OwnerDecides

-----------------------------------------------------------------------------
(* CodecService: the inductive invariant *)

Making == {"socket", "bind", "chmod", "listen"}
AddedToPool == {"start", "post"}

\* The call in hand has a token, whose thread is in the pool once it has been added.
InHand ==
    /\ token = NoToken <=> pc \in {"idle", "check"}
    /\ pc \in Making \cup AddedToPool => task[token] = "none"
    /\ pc \in Making => token \notin thread_pool_
    /\ pc \in AddedToPool => token \in thread_pool_
    /\ pc = "reply" => task[token] # "none"
    /\ pc = "socket" => token \notin fds \cup paths

\* A task runs on a thread of the pool, and has let go of what it has passed.
Tasks ==
    \A t \in Tokens :
      /\ task[t] \in {"listen", "serve", "unlink", "reset"} => t \in thread_pool_
      /\ task[t] \in {"serve", "unlink", "reset", "done"} => t \notin fds
      /\ task[t] \in {"reset", "done"} => t \notin paths
      /\ task[t] = "done" => t \notin servers

\* From the count to the thread that is added, a place stays free.
Room ==
    /\ IsFiniteSet(thread_pool_) /\ Cardinality(thread_pool_) <= kClientMaximum
    /\ pc \in Making => Cardinality(thread_pool_) < kClientMaximum

Inv == ServiceTypeOK /\ InHand /\ Tasks /\ Room /\ NothingLeaks /\ NoDeadPlaces

LEMMA TypePreserved ==
    ASSUME ServiceTypeOK, InHand, [ServiceNext]_serviceVars
    PROVE  ServiceTypeOK'
<1> USE CodecServiceAssumption DEF ServiceTypeOK, Places
<1>1. CASE UNCHANGED serviceVars
  BY <1>1 DEF serviceVars, sockets
<1>2. CASE RemoveIdleThread
  BY <1>2 DEF RemoveIdleThread, sockets
<1>3. CASE AllBusy
  BY <1>3 DEF AllBusy, sockets
<1>4. ASSUME NEW t \in Tokens, MakeEncoder(t) PROVE ServiceTypeOK'
  BY <1>4 DEF MakeEncoder
<1>5. CASE Socket \/ Bind \/ Chmod \/ Listen \/ StartUp \/ PostTask \/ Reply
  BY <1>5 DEF Socket, Bind, Chmod, Listen, StartUp, PostTask, Reply, sockets, InHand
<1>6. CASE SocketFails \/ CallFails \/ StartWorkerFails
  BY <1>6 DEF SocketFails, CallFails, StartWorkerFails, ReplyError
<1>7. ASSUME NEW t \in Tokens, Worker(t) \/ ServeEnds(t) PROVE ServiceTypeOK'
  BY <1>7 DEF Worker, Accept, AcceptFails, Unlink, Reset, ServeEnds, sockets
<1>8. ASSUME NEW t \in Tokens, Connect(t) \/ Leave(t) PROVE ServiceTypeOK'
  BY <1>8 DEF Connect, Leave, sockets
<1> QED
  BY <1>1, <1>2, <1>3, <1>4, <1>5, <1>6, <1>7, <1>8 DEF ServiceNext, CodecInit

LEMMA HandPreserved ==
    ASSUME Inv, [ServiceNext]_serviceVars
    PROVE  InHand'
<1> USE CodecServiceAssumption DEF Inv, ServiceTypeOK, InHand, Making, AddedToPool
<1>1. CASE UNCHANGED serviceVars
  BY <1>1 DEF serviceVars, sockets
<1>2. CASE RemoveIdleThread
  BY <1>2 DEF RemoveIdleThread, sockets
<1>3. CASE AllBusy
  BY <1>3 DEF AllBusy, sockets
<1>4. ASSUME NEW t \in Tokens, MakeEncoder(t) PROVE InHand'
  BY <1>4 DEF MakeEncoder, Unused
<1>5. CASE Socket \/ Bind \/ Chmod \/ Listen \/ StartUp \/ PostTask \/ Reply
  BY <1>5 DEF Socket, Bind, Chmod, Listen, StartUp, PostTask, Reply, sockets
<1>6. CASE SocketFails \/ CallFails \/ StartWorkerFails
  BY <1>6 DEF SocketFails, CallFails, StartWorkerFails, ReplyError
<1>7. ASSUME NEW t \in Tokens, Worker(t) \/ ServeEnds(t) PROVE InHand'
  BY <1>7 DEF Worker, Accept, AcceptFails, Unlink, Reset, ServeEnds, sockets
<1>8. ASSUME NEW t \in Tokens, Connect(t) \/ Leave(t) PROVE InHand'
  BY <1>8 DEF Connect, Leave, sockets
<1> QED
  BY <1>1, <1>2, <1>3, <1>4, <1>5, <1>6, <1>7, <1>8 DEF ServiceNext, CodecInit

LEMMA TasksPreserved ==
    ASSUME Inv, [ServiceNext]_serviceVars
    PROVE  Tasks'
<1> USE CodecServiceAssumption DEF Inv, ServiceTypeOK, InHand, Tasks, Making, AddedToPool
<1>1. CASE UNCHANGED serviceVars
  BY <1>1 DEF serviceVars, sockets
<1>2. CASE RemoveIdleThread
  BY <1>2 DEF RemoveIdleThread, sockets
<1>3. CASE AllBusy
  BY <1>3 DEF AllBusy, sockets
<1>4. ASSUME NEW t \in Tokens, MakeEncoder(t) PROVE Tasks'
  BY <1>4 DEF MakeEncoder, Unused
<1>5. CASE Socket \/ Bind \/ Chmod \/ Listen \/ StartUp \/ PostTask \/ Reply
  BY <1>5 DEF Socket, Bind, Chmod, Listen, StartUp, PostTask, Reply, sockets
<1>6. CASE SocketFails \/ CallFails \/ StartWorkerFails
  BY <1>6 DEF SocketFails, CallFails, StartWorkerFails, ReplyError
<1>7. ASSUME NEW t \in Tokens, Worker(t) \/ ServeEnds(t) PROVE Tasks'
  BY <1>7 DEF Worker, Accept, AcceptFails, Unlink, Reset, ServeEnds, sockets
<1>8. ASSUME NEW t \in Tokens, Connect(t) \/ Leave(t) PROVE Tasks'
  BY <1>8 DEF Connect, Leave, sockets
<1> QED
  BY <1>1, <1>2, <1>3, <1>4, <1>5, <1>6, <1>7, <1>8 DEF ServiceNext, CodecInit

LEMMA LeaksPreserved ==
    ASSUME Inv, [ServiceNext]_serviceVars
    PROVE  NothingLeaks' /\ NoDeadPlaces'
<1> USE CodecServiceAssumption
    DEF Inv, ServiceTypeOK, InHand, Tasks, Making, AddedToPool, NothingLeaks, AtWork, NoDeadPlaces
<1>1. CASE UNCHANGED serviceVars
  BY <1>1 DEF serviceVars, sockets
<1>2. CASE RemoveIdleThread
  BY <1>2 DEF RemoveIdleThread, sockets
<1>3. CASE AllBusy
  BY <1>3 DEF AllBusy, sockets
<1>4. ASSUME NEW t \in Tokens, MakeEncoder(t) PROVE NothingLeaks' /\ NoDeadPlaces'
  BY <1>4 DEF MakeEncoder, Unused
<1>5. CASE Socket \/ Bind \/ Chmod \/ Listen \/ StartUp \/ PostTask
  BY <1>5 DEF Socket, Bind, Chmod, Listen, StartUp, PostTask, sockets
<1>6. CASE Reply
  BY <1>6 DEF Reply, sockets
<1>7. CASE SocketFails \/ CallFails
  <2>1. CASE SocketFails
    BY <2>1 DEF SocketFails, ReplyError
  <2>2. CASE CallFails
    BY <2>2 DEF CallFails, ReplyError
  <2> QED
    BY <1>7, <2>1, <2>2
<1>8. CASE StartWorkerFails
  BY <1>8 DEF StartWorkerFails, ReplyError
<1>9. ASSUME NEW t \in Tokens, Worker(t) \/ ServeEnds(t) PROVE NothingLeaks' /\ NoDeadPlaces'
  BY <1>9 DEF Worker, Accept, AcceptFails, Unlink, Reset, ServeEnds, sockets
<1>10. ASSUME NEW t \in Tokens, Connect(t) \/ Leave(t) PROVE NothingLeaks' /\ NoDeadPlaces'
  BY <1>10 DEF Connect, Leave, sockets
<1> QED
  BY <1>1, <1>2, <1>3, <1>4, <1>5, <1>6, <1>7, <1>8, <1>9, <1>10 DEF ServiceNext, CodecInit

LEMMA RoomPreserved ==
    ASSUME Inv, [ServiceNext]_serviceVars
    PROVE  Room'
<1> USE CodecServiceAssumption DEF Room, Making, AddedToPool
<1>1. Cardinality(thread_pool_) \in Nat
  BY FS_CardinalityType DEF Inv
<1>2. ASSUME thread_pool_' \subseteq thread_pool_, pc' \notin Making PROVE Room'
  BY <1>1, <1>2, FS_Subset, FS_CardinalityType DEF Inv
<1>3. ASSUME thread_pool_' = thread_pool_, pc' \in Making => pc \in Making PROVE Room'
  BY <1>3 DEF Inv
<1>4. CASE RemoveIdleThread
  BY <1>2, <1>4 DEF RemoveIdleThread
<1>5. ASSUME NEW t \in Tokens, MakeEncoder(t) PROVE Room'
  BY <1>1, <1>5 DEF MakeEncoder, PoolFull, Inv
<1>6. CASE Listen
  <2>1. thread_pool_' = thread_pool_ \cup {token} /\ pc' \notin Making
    BY <1>6 DEF Listen
  <2>2. /\ IsFiniteSet(thread_pool_')
        /\ Cardinality(thread_pool_') = Cardinality(thread_pool_) + 1
    BY <1>6, <2>1, FS_AddElement DEF Listen, Inv, InHand
  <2> QED
    BY <1>1, <1>6, <2>1, <2>2 DEF Listen, Inv
<1>7. CASE StartWorkerFails
  BY <1>2, <1>7 DEF StartWorkerFails, ReplyError
<1>8. CASE UNCHANGED serviceVars \/ AllBusy \/ Socket \/ Bind \/ Chmod \/ StartUp \/ PostTask \/ Reply
  BY <1>3, <1>8 DEF serviceVars, AllBusy, Socket, Bind, Chmod, StartUp, PostTask, Reply
<1>9. CASE SocketFails \/ CallFails
  BY <1>3, <1>9 DEF SocketFails, CallFails, ReplyError
<1>10. ASSUME NEW t \in Tokens, Worker(t) \/ ServeEnds(t) \/ Connect(t) \/ Leave(t)
       PROVE  Room'
  BY <1>3, <1>10 DEF Worker, Accept, AcceptFails, Unlink, Reset, ServeEnds, Connect, Leave
<1> QED
  BY <1>4, <1>5, <1>6, <1>7, <1>8, <1>9, <1>10 DEF ServiceNext, CodecInit

LEMMA Invariance == ServiceSpec => []Inv
<1>1. ServiceInit => Inv
  BY CodecServiceAssumption, FS_EmptySet
  DEF ServiceInit, Inv, ServiceTypeOK, Places, InHand, Tasks, Room, NothingLeaks, NoDeadPlaces, Making, AddedToPool
<1>2. Inv /\ [ServiceNext]_serviceVars => Inv'
  BY TypePreserved, HandPreserved, TasksPreserved, LeaksPreserved, RoomPreserved DEF Inv
<1> QED
  BY <1>1, <1>2, PTL DEF ServiceSpec

-----------------------------------------------------------------------------
(* The theorems *)

\* Type correctness of the codec service, for any size of the pool and any tokens.
THEOREM ServiceTypeCorrect == ServiceSpec => []ServiceTypeOK
BY Invariance, PTL DEF Inv

\* thread_pool_ never exceeds kClientMaximum although it is counted several calls before
\* StartWorkerThread adds to it.
THEOREM PoolStaysBounded == ServiceSpec => []PoolBounded
<1>1. Inv => PoolBounded
  BY DEF Inv, Room, PoolBounded
<1> QED
  BY <1>1, Invariance, PTL

\* No path through CodecInit, StartWorkerThread or StartSocketListener leaves a listening
\* socket, a name or an encoder behind.
THEOREM EverythingReleased == ServiceSpec => []NothingLeaks
BY Invariance, PTL DEF Inv

\* A worker that could not be started does not keep its place in the pool.
THEOREM FailedStartsLeave == ServiceSpec => []NoDeadPlaces
BY Invariance, PTL DEF Inv
=============================================================================
