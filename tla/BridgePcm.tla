----------------------------- MODULE BridgePcm -----------------------------
(***************************************************************************)
(* The PCM data plane of pw-floss (pw-floss.c): the voice, capture and     *)
(* output queues between the PipeWire graph and the socket to Floss, and   *)
(* the position requests of an A2DP session.  Queues and sockets are       *)
(* counted in bytes, what they hold is left out.  All callbacks run on one *)
(* main loop, so a callback is one step, except that Floss may act between *)
(* two reads of read_capture.  Time matters to the position requests only, *)
(* and is counted in units that are long for the main loop.                *)
(***************************************************************************)
EXTENDS Integers

CONSTANTS
    QueueLimit,   \* 100 ms of PCM, the limit of each queue
    Target,       \* 30 ms of PCM
    Prime,        \* 10 ms of PCM: silence sent before an HFP session streams
    QueueSize,    \* what one read_capture reads at most
    SockCap,      \* what a socket holds
    Chunks,       \* sizes of the buffers of the graph
    PosT,         \* POSITION_TIMEOUT_MS, in units of time
    MaxBytes      \* bound: bytes a session carries in one direction

Stride == 2

ASSUME BridgePcmAssumption ==
    /\ QueueLimit \in Nat /\ QueueLimit % Stride = 0
    /\ Target \in Nat /\ Target % Stride = 0 /\ Target < QueueLimit
    /\ Prime \in Nat /\ Prime % Stride = 0 /\ Prime <= QueueLimit
    /\ QueueSize \in Nat \ {0} /\ SockCap \in Nat \ {0} /\ MaxBytes \in Nat
    /\ PosT \in Nat \ {0}
    /\ Chunks \subseteq {n \in Nat : n % Stride = 0}

VARIABLES
    on,         \* a session is open and streams
    hfp,        \* it is HFP
    failed,     \* "no", or what b->failed was set for
    out,        \* queued: bytes for Floss that its socket has not taken
    voice,      \* voice_queued: bytes of the graph for Floss
    cap,        \* capture_queued: bytes of the microphone for the graph
    credit,     \* voice_credit
    vprimed,    \* voice_primed
    cprimed,    \* capture_primed
    playing,    \* playback_running
    recording,  \* capture_running
    budget,     \* what is left of the budget of read_capture; 0 outside of it
    inSock,     \* bytes of the microphone in the socket
    outSock,    \* bytes for Floss in the socket
    peer,       \* Floss has its end of the socket open
    got,        \* bytes read from the socket in this session
    sent,       \* audio_written
    read,       \* bytes Floss has taken from the socket in this session
    valid,      \* position_valid
    pos,        \* position_bytes
    call,       \* position_call: "none", "asked", "answered" or "refused"
    reply,      \* its answer
    waits,      \* the age of the request, which follows the last answer at once
    still,      \* the time since position_progress_ns
    dozed,      \* history: since then Floss has left bytes in its socket for a unit
    starved,    \* history: since then Floss has had nothing to read for a unit
    sick        \* PipeWire has lost a stream, its rate control, or sends no usable buffers

queues == <<out, voice, cap, credit, vprimed, cprimed>>
watchdog == <<still, dozed, starved>>
position == <<valid, pos, call, reply, waits, watchdog>>
vars == <<on, hfp, failed, queues, playing, recording, budget, inSock, outSock, peer,
          got, sent, read, position, sick>>

Lesser(a, b) == IF a <= b THEN a ELSE b

Whole(n) == n - (n % Stride)

Streams == on /\ failed = "no"
Idle == budget = 0

Init ==
    /\ on = FALSE /\ hfp = FALSE /\ failed = "no"
    /\ out = 0 /\ voice = 0 /\ cap = 0 /\ credit = 0 /\ vprimed = FALSE /\ cprimed = FALSE
    /\ playing \in BOOLEAN /\ recording \in BOOLEAN /\ budget = 0
    /\ inSock = 0 /\ outSock = 0 /\ peer = FALSE /\ got = 0 /\ sent = 0 /\ read = 0
    /\ valid = FALSE /\ pos = 0 /\ call = "none" /\ reply = 0
    /\ waits = 0 /\ still = 0 /\ dozed = FALSE /\ starved = FALSE /\ sick = FALSE

-----------------------------------------------------------------------------
(* Sessions *)

\* After start_hfp or start_audio: silence for the transport to begin with, as far as
\* the socket takes it.
StartTransport(h) ==
    /\ ~on /\ failed = "no"
    /\ on' = TRUE /\ hfp' = h /\ peer' = TRUE
    /\ LET prime == IF h THEN Prime ELSE Target IN
       /\ sent' = Lesser(prime, SockCap)
       /\ outSock' = Lesser(prime, SockCap)
       /\ out' = prime - Lesser(prime, SockCap)
    /\ UNCHANGED <<failed, voice, cap, credit, vprimed, cprimed, playing, recording, budget,
                   inSock, got, read, position, sick>>

FaultyStopTransport ==
    /\ on /\ Idle
    /\ on' = FALSE /\ failed' = "no" /\ peer' = FALSE
    /\ out' = 0 /\ voice' = 0 /\ cap' = 0 /\ credit' = 0 /\ vprimed' = FALSE /\ cprimed' = FALSE
    /\ inSock' = 0 /\ outSock' = 0 /\ got' = 0 /\ sent' = 0 /\ read' = 0
    /\ valid' = FALSE /\ pos' = 0 /\ waits' = 0 /\ still' = 0 /\ dozed' = FALSE /\ starved' = FALSE
    /\ sick' = (sick /\ failed = "no")
    /\ UNCHANGED <<hfp, playing, recording, budget, call, reply>>

\* stop_transport, for another profile, or because the session has failed; the bridge
\* then starts over with new streams.
StopTransport ==
    /\ on /\ Idle
    /\ on' = FALSE /\ failed' = "no" /\ peer' = FALSE
    /\ out' = 0 /\ voice' = 0 /\ cap' = 0 /\ credit' = 0 /\ vprimed' = FALSE /\ cprimed' = FALSE
    /\ inSock' = 0 /\ outSock' = 0 /\ got' = 0 /\ sent' = 0 /\ read' = 0
    /\ valid' = FALSE /\ pos' = 0 /\ call' = "none" /\ reply' = 0
    /\ waits' = 0 /\ still' = 0 /\ dozed' = FALSE /\ starved' = FALSE
    /\ sick' = (sick /\ failed = "no")
    /\ UNCHANGED <<hfp, playing, recording, budget>>

-----------------------------------------------------------------------------
(* The socket *)

\* flush_audio, after n more bytes have been queued.
Flush(n) ==
    LET gone == Lesser(out + n, SockCap - outSock) IN
    /\ out' = out + n - gone /\ outSock' = outSock + gone /\ sent' = sent + gone

FaultyStartRead ==
    /\ Streams /\ hfp /\ Idle /\ peer /\ inSock > 0 /\ recording
    /\ budget' = QueueSize
    /\ UNCHANGED <<on, hfp, failed, queues, playing, recording, inSock, outSock, peer, got, sent,
                   read, position, sick>>

\* audio_ready: there is something to read.
StartRead ==
    /\ Streams /\ hfp /\ Idle /\ peer /\ inSock > 0
    /\ budget' = QueueSize
    /\ UNCHANGED <<on, hfp, failed, queues, playing, recording, inSock, outSock, peer, got, sent,
                   read, position, sick>>

\* discard_idle_capture: an incomplete sample stays.
IdleCap == IF recording THEN cap ELSE cap % Stride

\* A full queue keeps its latest 30 ms.
Kept == IF IdleCap = QueueLimit THEN IdleCap - Whole(QueueLimit - Target) ELSE IdleCap

FaultyWanted(n) == Whole(n)

\* voice_playback_credit: whole samples only, the rest is credit for the next read.
Wanted(n) == Whole(credit + n)

\* flush_audio makes room first; queue_output refuses what does not fit then.
Fits(n) == out + n <= QueueLimit + Lesser(out, SockCap - outSock)

Primed == vprimed \/ voice >= Target

\* One read of n bytes: they go to the capture queue, and as many whole samples go out,
\* from the voice queue while it is primed and has some, then silence.  When they do not
\* fit, a part of the voice queue may have been moved, and stays.
Receive(n) ==
    /\ got' = got + n /\ inSock' = inSock - n
    /\ credit' = credit + n - Wanted(n)
    /\ vprimed' = Primed
    /\ LET fromVoice == IF Primed THEN Lesser(Wanted(n), voice) ELSE 0
           flushed == Lesser(out, SockCap - outSock) IN
       \/ /\ Fits(Wanted(n))
          /\ Flush(Wanted(n))
          /\ voice' = voice - fromVoice
          /\ budget' = budget - n
          /\ failed' = failed
       \/ /\ ~Fits(Wanted(n))
          /\ \E part \in 0 .. fromVoice :
                /\ part % Stride = 0 /\ Fits(part)
                /\ out' = out - flushed + part
                /\ voice' = voice - part
          /\ outSock' = outSock + flushed /\ sent' = sent + flushed
          /\ budget' = 0
          /\ failed' = "jitter"
    /\ cap' = IF ~recording /\ budget' = 0 THEN (Kept + n) % Stride ELSE Kept + n
    /\ UNCHANGED <<on, hfp, cprimed, playing, recording, peer, read, position, sick>>

\* A pass of the loop of read_capture.  A read of no bytes is taken for the end of the
\* stream.  The wrap of the ring may cut a read short.
ReadCapture ==
    /\ Streams /\ budget > 0 /\ peer /\ inSock > 0
    /\ \/ \E n \in 1 .. Lesser(budget, Lesser(QueueLimit - Kept, inSock)) : Receive(n)
       \/ /\ QueueLimit = Kept
          /\ failed' = "closed" /\ budget' = 0
          /\ UNCHANGED <<on, hfp, queues, playing, recording, inSock, outSock, peer, got, sent,
                         read, position, sick>>

\* Nothing is left to read.
EndRead ==
    /\ Streams /\ budget > 0 /\ peer /\ inSock = 0
    /\ budget' = 0
    /\ cap' = IdleCap
    /\ UNCHANGED <<on, hfp, failed, out, voice, credit, vprimed, cprimed, playing, recording,
                   inSock, outSock, peer, got, sent, read, position, sick>>

\* audio_ready: the socket takes bytes again.
WriteReady ==
    /\ Streams /\ Idle /\ peer /\ out > 0 /\ outSock < SockCap
    /\ Flush(0)
    /\ UNCHANGED <<on, hfp, failed, voice, cap, credit, vprimed, cprimed, playing, recording, budget,
                   inSock, peer, got, read, position, sick>>

\* The other end is closed: by SPA_IO_HUP, or a read or write that fails.
Hangup ==
    /\ Streams /\ ~peer
    /\ failed' = "closed" /\ budget' = 0
    /\ UNCHANGED <<on, hfp, queues, playing, recording, inSock, outSock, peer, got, sent, read,
                   position, sick>>

-----------------------------------------------------------------------------
(* The graph *)

\* playback_level, for music: no position in two seconds, or none that has moved while
\* there was something to move.
Overdue == valid /\ waits > PosT
Stuck == valid /\ sent > pos /\ still > PosT

\* process, up to the point where the buffer is queued: it may fail the session.  When the
\* latency cannot be set, a buffer of voice is queued all the same.
ProcessFails(size) ==
    /\ Streams /\ Idle /\ playing
    /\ \/ /\ ~hfp /\ Overdue
          /\ failed' = "timeout" /\ voice' = voice
       \/ /\ ~hfp /\ ~Overdue /\ Stuck
          /\ failed' = "stuck" /\ voice' = voice
       \/ /\ sick
          /\ failed' = "graph"
          /\ voice' = voice \/ (hfp /\ size <= QueueLimit - voice /\ voice' = voice + size)
    /\ UNCHANGED <<on, hfp, out, cap, credit, vprimed, cprimed, playing, recording, budget, inSock,
                   outSock, peer, got, sent, read, position, sick>>

\* process: a buffer that does not fit is dropped.  One of music that would wait for more
\* than 100 ms is dropped before anything happens: that is no step.
Process(size) ==
    /\ Streams /\ Idle /\ playing
    /\ \/ /\ hfp /\ size <= QueueLimit - voice
          /\ voice' = voice + size
          /\ UNCHANGED <<out, outSock, sent>>
       \/ /\ ~hfp /\ ~Overdue /\ ~Stuck /\ peer /\ sent + out + size <= MaxBytes
          /\ Fits(size)
          /\ Flush(size)
          /\ voice' = voice
       \/ /\ ~hfp /\ ~Overdue /\ ~Stuck /\ peer
          /\ ~Fits(size)
          /\ Flush(0)
          /\ voice' = voice
    /\ UNCHANGED <<on, hfp, failed, cap, credit, vprimed, cprimed, playing, recording, budget,
                   inSock, peer, got, read, position, sick>>

\* Whole samples, as many as the graph asks for and there are.
Taken(size) == Lesser(size, Whole(cap))

\* capture_process: silence until 30 ms are there, and if the session fails here.
CaptureProcess(size) ==
    /\ Streams /\ Idle /\ recording /\ hfp
    /\ cprimed' = (cprimed \/ cap >= Target)
    /\ \/ /\ cap' = IF cprimed' THEN cap - Taken(size) ELSE cap
          /\ failed' = failed
       \/ sick /\ failed' = "graph" /\ cap' = cap
    /\ UNCHANGED <<on, hfp, out, voice, credit, vprimed, playing, recording, budget, inSock,
                   outSock, peer, got, sent, read, position, sick>>

\* A stream changes its state; in error, or unconnected, it fails the session.
StreamState(was, now) ==
    \/ now = ~was /\ failed' = failed
    \/ Streams /\ sick /\ now = FALSE /\ failed' = "graph"

\* state_changed
PlaybackState ==
    /\ Idle
    /\ playing' \in BOOLEAN /\ StreamState(playing, playing')
    /\ voice' = IF playing' THEN voice ELSE 0
    /\ vprimed' = (vprimed /\ playing')
    /\ still' = IF playing' THEN still ELSE 0
    /\ dozed' = (dozed /\ playing') /\ starved' = (starved /\ playing')
    /\ UNCHANGED <<on, hfp, out, cap, credit, cprimed, recording, budget, inSock, outSock,
                   peer, got, sent, read, valid, pos, call, reply, waits, sick>>

\* capture_state_changed
CaptureState ==
    /\ Idle
    /\ recording' \in BOOLEAN /\ StreamState(recording, recording')
    /\ cap' = IF recording' THEN cap ELSE cap % Stride
    /\ cprimed' = (cprimed /\ recording')
    /\ UNCHANGED <<on, hfp, out, voice, credit, vprimed, playing, budget, inSock, outSock,
                   peer, got, sent, read, position, sick>>

-----------------------------------------------------------------------------
(* Positions of an A2DP session *)

\* poll_position: one request at a time.
PollPosition ==
    /\ Streams /\ Idle /\ ~hfp /\ call = "none"
    /\ call' = "asked" /\ waits' = 0
    /\ UNCHANGED <<on, hfp, failed, queues, playing, recording, budget, inSock, outSock, peer, got,
                   sent, read, valid, pos, reply, watchdog, sick>>

\* poll_position: the request has been pending for two seconds.
PositionTimesOut ==
    /\ Streams /\ Idle /\ ~hfp /\ call = "asked" /\ waits > PosT
    /\ failed' = "timeout"
    /\ UNCHANGED <<on, hfp, queues, playing, recording, budget, inSock, outSock, peer, got, sent, read,
                   position, sick>>

Refused == call = "refused" \/ reply > sent \/ (valid /\ reply < pos)

\* What counts as progress.
Moves == ~valid \/ reply # pos \/ ~playing

\* position_received: an error, a counter that goes back, or one that is ahead of what was
\* written, is an error of the transport.
PositionReceived ==
    /\ Streams /\ Idle /\ call \in {"answered", "refused"}
    /\ call' = "none" /\ reply' = 0
    /\ \/ Refused /\ failed' = "position" /\ UNCHANGED <<valid, pos, watchdog>>
       \/ /\ ~Refused /\ failed' = failed
          /\ valid' = TRUE /\ pos' = reply
          /\ still' = IF Moves THEN 0 ELSE still
          /\ dozed' = (dozed /\ ~Moves) /\ starved' = (starved /\ ~Moves)
    /\ UNCHANGED <<on, hfp, queues, playing, recording, budget, inSock, outSock, peer, got, sent, read,
                   waits, sick>>

-----------------------------------------------------------------------------
(* Floss *)

FlossSends(n) ==
    /\ on /\ hfp /\ peer
    /\ inSock + n <= SockCap /\ got + inSock + n <= MaxBytes
    /\ inSock' = inSock + n
    /\ UNCHANGED <<on, hfp, failed, queues, playing, recording, budget, outSock, peer, got, sent, read,
                   position, sick>>

FlossReads(n) ==
    /\ on /\ peer /\ n <= outSock
    /\ outSock' = outSock - n /\ read' = read + n
    /\ UNCHANGED <<on, hfp, failed, queues, playing, recording, budget, inSock, peer, got, sent, position, sick>>

FlossAnswers ==
    /\ call = "asked"
    /\ call' = "answered" /\ reply' = read
    /\ UNCHANGED <<on, hfp, failed, queues, playing, recording, budget, inSock, outSock, peer, got, sent,
                   read, valid, pos, waits, watchdog, sick>>

\* An error, or a position that is incomplete, marked as invalid, or of the future.
FlossRefuses ==
    /\ call = "asked"
    /\ call' = "refused"
    /\ UNCHANGED <<on, hfp, failed, queues, playing, recording, budget, inSock, outSock, peer, got, sent,
                   read, valid, pos, reply, waits, watchdog, sick>>

FlossCloses ==
    /\ on /\ peer
    /\ peer' = FALSE
    /\ UNCHANGED <<on, hfp, failed, queues, playing, recording, budget, inSock, outSock, got, sent, read,
                   position, sick>>

-----------------------------------------------------------------------------
(* PipeWire and time *)

\* A stream is lost or in error, buffers are not mapped or end in a partial frame, or the
\* rate or the latency of a stream cannot be set.
GraphSickens ==
    /\ Streams /\ ~sick
    /\ sick' = TRUE
    /\ UNCHANGED <<on, hfp, failed, queues, playing, recording, budget, inSock, outSock, peer, got, sent,
                   read, position>>

\* A unit of time.  The main loop has asked for the position by then, and it does not let
\* a request that has timed out grow older; the graph may be late by any time.
Tick ==
    /\ Streams /\ ~hfp /\ Idle /\ peer /\ call = "asked" /\ waits <= PosT
    /\ out > 0 => outSock = SockCap
    /\ waits' = waits + 1
    /\ still' = IF valid THEN Lesser(still + 1, PosT + 1) ELSE still
    /\ dozed' = (dozed \/ (valid /\ read = pos /\ outSock > 0))
    /\ starved' = (starved \/ (valid /\ read = pos /\ outSock = 0))
    /\ UNCHANGED <<on, hfp, failed, queues, playing, recording, budget, inSock, outSock, peer, got, sent,
                   read, valid, pos, call, reply, sick>>

-----------------------------------------------------------------------------

BridgeReads == StartRead \/ ReadCapture \/ EndRead \/ Hangup

Next ==
    \/ \E h \in BOOLEAN : StartTransport(h)
    \/ StopTransport
    \/ BridgeReads \/ WriteReady
    \/ \E size \in Chunks : Process(size) \/ ProcessFails(size) \/ CaptureProcess(size)
    \/ PlaybackState \/ CaptureState
    \/ PollPosition \/ PositionTimesOut \/ PositionReceived
    \/ \E n \in 1 .. SockCap : FlossSends(n) \/ FlossReads(n)
    \/ FlossAnswers \/ FlossRefuses \/ FlossCloses \/ GraphSickens \/ Tick

Spec == Init /\ [][Next]_vars /\ WF_vars(BridgeReads)

-----------------------------------------------------------------------------
(* What the data plane promises *)

TypeOK ==
    /\ on \in BOOLEAN /\ hfp \in BOOLEAN /\ peer \in BOOLEAN /\ valid \in BOOLEAN
    /\ playing \in BOOLEAN /\ recording \in BOOLEAN /\ vprimed \in BOOLEAN /\ cprimed \in BOOLEAN
    /\ failed \in {"no", "closed", "jitter", "position", "timeout", "stuck", "graph"}
    /\ call \in {"none", "asked", "answered", "refused"}
    /\ dozed \in BOOLEAN /\ starved \in BOOLEAN /\ sick \in BOOLEAN
    /\ waits \in Nat /\ still \in Nat
    /\ out \in Nat /\ voice \in Nat /\ cap \in Nat /\ credit \in Nat /\ budget \in Nat
    /\ inSock \in Nat /\ outSock \in 0 .. SockCap
    /\ got \in Nat /\ sent \in Nat /\ read \in Nat /\ pos \in Nat /\ reply \in Nat

\* The queues are bounded to 100 ms whatever the graph and Floss do, so that latency is:
\* full queues drop, in process, in read_capture and in queue_output.
QueuesBounded == out <= QueueLimit /\ voice <= QueueLimit /\ cap <= QueueLimit

\* One outgoing sample for each complete incoming one, neither more nor fewer, whether
\* the graph plays or not: what has been sent or is queued is the first silence and the
\* whole samples received (voice_playback_credit).
OutMatchesIn == Streams /\ hfp => sent + out = Prime + Whole(got)

\* The queues begin and end on sample boundaries although reads and writes of the socket
\* do not: discarding, overrunning and playing take whole samples.
WholeSamples ==
    on /\ hfp => (got - cap) % Stride = 0 /\ voice % Stride = 0 /\ (sent + out) % Stride = 0

\* A session that is well is not failed.  It fails when Floss has closed the socket, does
\* not take what is sent although its socket is full, refuses a position or owes one for
\* more than two seconds, or when PipeWire has failed.  The watchdog fires only if, since
\* Floss last moved, it has left bytes in its socket or was given none.  A full ring or a
\* late burst fails none (the comments in read_capture and process), and a position,
\* asked for before a stop or after, is never taken for a reset of the counter.
OnlyFaultsFail ==
    [][failed = "no" /\ failed' # "no" =>
         \/ failed' = "closed" /\ ~peer
         \/ failed' = "jitter" /\ outSock' = SockCap
         \/ failed' = "position" /\ call = "refused"
         \/ failed' = "timeout" /\ waits > PosT
         \/ failed' = "stuck" /\ (dozed \/ starved)
         \/ failed' = "graph" /\ sick]_vars

\* The microphone is read although nobody records, because its packets clock playback.
MicrophoneDrained == (Streams /\ hfp /\ inSock > 0) ~> (inSock = 0 \/ ~Streams)
=============================================================================
