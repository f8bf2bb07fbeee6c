-------------------------- MODULE BridgePcmProofs --------------------------
(***************************************************************************)
(* The invariants of BridgePcm and what its steps never do, for queues,    *)
(* sockets and buffers of any size.                                        *)
(***************************************************************************)
EXTENDS BridgePcm, TLAPS

\* Nothing is left of a session that has been stopped.
OffIsEmpty ==
    ~on => /\ failed = "no" /\ budget = 0 /\ call = "none" /\ valid = FALSE
           /\ out = 0 /\ voice = 0 /\ cap = 0 /\ credit = 0
           /\ inSock = 0 /\ outSock = 0 /\ got = 0 /\ sent = 0 /\ read = 0

\* read_capture runs in an HFP session that has not failed.
ReadingIsHfp == budget > 0 => on /\ hfp /\ failed = "no"

\* What was written is in the socket or was taken from it.
Conserved == sent = outSock + read

\* The credit is the incomplete sample at the end of the microphone's stream.
CreditIsPartial == on /\ hfp => credit = got % Stride

\* Positions are of this session, and in the order in which they were counted.
PositionsInOrder ==
    /\ call # "none" => on /\ ~hfp
    /\ valid => pos <= read
    /\ call = "answered" => reply <= read
    /\ call = "answered" /\ valid => pos <= reply

\* When no position has moved for a while although Floss never left bytes in its socket
\* for a unit of time and never had none to read, it has moved since: the position that is
\* asked for will tell, and it was asked for before that while began.
Watched ==
    Streams /\ valid /\ still > 0 /\ ~dozed /\ ~starved =>
        call # "none" /\ still <= waits /\ read # pos /\ (call = "answered" => reply # pos)

Inv == /\ TypeOK /\ QueuesBounded /\ OutMatchesIn /\ WholeSamples
       /\ OffIsEmpty /\ ReadingIsHfp /\ Conserved /\ CreditIsPartial /\ PositionsInOrder
       /\ Watched

\* Lesser is the minimum.
LEMMA LesserIsMin ==
    ASSUME NEW a \in Int, NEW b \in Int
    PROVE  /\ Lesser(a, b) \in {a, b} /\ Lesser(a, b) <= a /\ Lesser(a, b) <= b
           /\ Lesser(a, b) \in Int
  BY DEF Lesser

\* A number less its remainder is a number of whole samples.
LEMMA WholeIsEven ==
    ASSUME NEW n \in Nat
    PROVE  /\ Whole(n) \in Nat /\ Whole(n) <= n /\ n <= Whole(n) + 1
           /\ Whole(n) % 2 = 0 /\ n % 2 \in {0, 1} /\ Whole(n) = n - (n % 2)
  BY DEF Whole, Stride

\* Sums and differences of whole samples are whole samples.
LEMMA EvenSum ==
    ASSUME NEW a \in Int, NEW b \in Int, a % 2 = 0, b % 2 = 0
    PROVE  (a + b) % 2 = 0 /\ (a - b) % 2 = 0
  OBVIOUS

\* StartRead preserves the invariant: reading starts in an HFP session that streams.
LEMMA StartReadStep ==
    ASSUME Inv, StartRead
    PROVE  Inv'
  BY BridgePcmAssumption
     DEF StartRead, Inv, TypeOK, QueuesBounded, OutMatchesIn, WholeSamples, OffIsEmpty,
         ReadingIsHfp, Conserved, CreditIsPartial, PositionsInOrder, Watched, Streams, Idle,
         Stride, Whole, queues, position, watchdog

\* EndRead preserves the invariant: an incomplete sample stays, so parities do.
LEMMA EndReadStep ==
    ASSUME Inv, EndRead
    PROVE  Inv'
  BY BridgePcmAssumption
     DEF EndRead, IdleCap, Inv, TypeOK, QueuesBounded, OutMatchesIn, WholeSamples, OffIsEmpty,
         ReadingIsHfp, Conserved, CreditIsPartial, PositionsInOrder, Watched, Streams, Idle,
         Stride, Whole, queues, position, watchdog

\* Hangup preserves the invariant: nothing moves.
LEMMA HangupStep ==
    ASSUME Inv, Hangup
    PROVE  Inv'
  BY BridgePcmAssumption
     DEF Hangup, Inv, TypeOK, QueuesBounded, OutMatchesIn, WholeSamples, OffIsEmpty,
         ReadingIsHfp, Conserved, CreditIsPartial, PositionsInOrder, Watched, Streams, Idle,
         Stride, Whole, queues, position, watchdog

\* FlossCloses preserves the invariant: nothing moves.
LEMMA CloseStep ==
    ASSUME Inv, FlossCloses
    PROVE  Inv'
  <1>1. peer' \in BOOLEAN
    BY Zenon DEF FlossCloses
  <1>2. UNCHANGED <<on, hfp, failed, queues, playing, recording, budget, inSock, outSock, got,
                    sent, read, position, sick>>
    BY DEF FlossCloses
  <1> QED
    BY <1>1, <1>2
       DEF Inv, TypeOK, QueuesBounded, OutMatchesIn, WholeSamples, OffIsEmpty, ReadingIsHfp,
           Conserved, CreditIsPartial, PositionsInOrder, Watched, Streams, queues, position,
           watchdog

\* PollPosition preserves the invariant: only the request is new.
LEMMA PollStep ==
    ASSUME Inv, PollPosition
    PROVE  Inv'
  BY BridgePcmAssumption
     DEF PollPosition, Inv, TypeOK, QueuesBounded, OutMatchesIn, WholeSamples, OffIsEmpty,
         ReadingIsHfp, Conserved, CreditIsPartial, PositionsInOrder, Watched, Streams, Idle,
         Stride, Whole, queues, position, watchdog

\* FlossAnswers preserves the invariant: the answer is what Floss has taken, no less than
\* the last position.
LEMMA AnswerStep ==
    ASSUME Inv, FlossAnswers
    PROVE  Inv'
  BY BridgePcmAssumption
     DEF FlossAnswers, Inv, TypeOK, QueuesBounded, OutMatchesIn, WholeSamples, OffIsEmpty,
         ReadingIsHfp, Conserved, CreditIsPartial, PositionsInOrder, Watched, Streams, Idle,
         Stride, Whole, queues, position, watchdog

\* FlossRefuses preserves the invariant: the request is open, and no position is new.
LEMMA RefuseStep ==
    ASSUME Inv, FlossRefuses
    PROVE  Inv'
  BY BridgePcmAssumption
     DEF FlossRefuses, Inv, TypeOK, QueuesBounded, OutMatchesIn, WholeSamples, OffIsEmpty,
         ReadingIsHfp, Conserved, CreditIsPartial, PositionsInOrder, Watched, Streams, Idle,
         Stride, Whole, queues, position, watchdog

\* GraphSickens preserves the invariant: nothing moves.
LEMMA SickenStep ==
    ASSUME Inv, GraphSickens
    PROVE  Inv'
  BY BridgePcmAssumption
     DEF GraphSickens, Inv, TypeOK, QueuesBounded, OutMatchesIn, WholeSamples, OffIsEmpty,
         ReadingIsHfp, Conserved, CreditIsPartial, PositionsInOrder, Watched, Streams, Idle,
         Stride, Whole, queues, position, watchdog

\* Tick preserves the invariant: a unit in which Floss has not moved is noted, and the
\* request grows older with it.
LEMMA TickStep ==
    ASSUME Inv, Tick
    PROVE  Inv'
  BY BridgePcmAssumption
     DEF Tick, Inv, TypeOK, QueuesBounded, OutMatchesIn, WholeSamples, OffIsEmpty,
         ReadingIsHfp, Conserved, CreditIsPartial, PositionsInOrder, Watched, Streams, Idle,
         Stride, Whole, queues, position, watchdog, Lesser

\* ProcessFails preserves the invariant: at most a buffer of voice is queued.
LEMMA ProcessFailsStep ==
    ASSUME Inv, NEW size \in Chunks, ProcessFails(size)
    PROVE  Inv'
  <1>1. size \in Nat /\ size % 2 = 0
    BY BridgePcmAssumption DEF Stride
  <1>2. voice' = voice \/ (size <= QueueLimit - voice /\ voice' = voice + size)
    BY DEF ProcessFails
  <1>3. voice' \in Nat /\ voice' <= QueueLimit /\ (voice % 2 = 0 => voice' % 2 = 0)
    BY <1>1, <1>2, BridgePcmAssumption DEF Inv, TypeOK, QueuesBounded
  <1>4. /\ UNCHANGED <<on, hfp, out, cap, credit, vprimed, cprimed, playing, recording, budget,
                       inSock, outSock, peer, got, sent, read, position, sick>>
        /\ on /\ budget = 0 /\ failed' \in {"timeout", "stuck", "graph"}
    BY DEF ProcessFails, Streams, Idle
  <1>5. TypeOK' /\ QueuesBounded'
    BY <1>3, <1>4 DEF Inv, TypeOK, QueuesBounded, position, watchdog
  <1>6. OutMatchesIn' /\ WholeSamples' /\ CreditIsPartial' /\ Watched'
    BY <1>3, <1>4 DEF Inv, OutMatchesIn, WholeSamples, CreditIsPartial, Watched, Streams, Stride
  <1>7. OffIsEmpty' /\ ReadingIsHfp' /\ Conserved' /\ PositionsInOrder'
    BY <1>4 DEF Inv, OffIsEmpty, ReadingIsHfp, Conserved, PositionsInOrder, position
  <1> QED
    BY <1>5, <1>6, <1>7 DEF Inv

\* PositionTimesOut preserves the invariant: nothing moves.
LEMMA TimesOutStep ==
    ASSUME Inv, PositionTimesOut
    PROVE  Inv'
  BY BridgePcmAssumption
     DEF PositionTimesOut, Inv, TypeOK, QueuesBounded, OutMatchesIn, WholeSamples, OffIsEmpty,
         ReadingIsHfp, Conserved, CreditIsPartial, PositionsInOrder, Watched, Streams, Idle,
         Stride, Whole, queues, position, watchdog

\* StopTransport preserves the invariant: everything is zero.
LEMMA StopStep ==
    ASSUME Inv, StopTransport
    PROVE  Inv'
  <1>a. /\ on' = FALSE /\ peer' = FALSE /\ valid' = FALSE /\ vprimed' = FALSE /\ cprimed' = FALSE
        /\ hfp' = hfp /\ playing' = playing /\ recording' = recording
    BY Zenon DEF StopTransport
  <1>b. /\ on' \in BOOLEAN /\ peer' \in BOOLEAN /\ valid' \in BOOLEAN
        /\ vprimed' \in BOOLEAN /\ cprimed' \in BOOLEAN
        /\ hfp' \in BOOLEAN /\ playing' \in BOOLEAN /\ recording' \in BOOLEAN
    BY <1>a, Zenon DEF Inv, TypeOK
  <1>c. /\ failed' = "no" /\ call' = "none" /\ budget' = budget
        /\ out' = 0 /\ voice' = 0 /\ cap' = 0 /\ credit' = 0 /\ inSock' = 0 /\ outSock' = 0
        /\ got' = 0 /\ sent' = 0 /\ read' = 0 /\ pos' = 0 /\ reply' = 0
        /\ waits' = 0 /\ still' = 0
    BY Zenon DEF StopTransport
  <1>d. dozed' \in BOOLEAN /\ starved' \in BOOLEAN /\ sick' \in BOOLEAN
    BY Zenon DEF StopTransport
  <1>1. TypeOK'
    BY <1>b, <1>c, <1>d, BridgePcmAssumption DEF Inv, TypeOK
  <1>2. QueuesBounded'
    BY BridgePcmAssumption DEF StopTransport, QueuesBounded
  <1>3. /\ OutMatchesIn' /\ WholeSamples' /\ CreditIsPartial'
    BY DEF StopTransport, OutMatchesIn, WholeSamples, CreditIsPartial, Streams
  <1>4. OffIsEmpty' /\ ReadingIsHfp' /\ Conserved' /\ PositionsInOrder' /\ Watched'
    BY DEF StopTransport, Idle, OffIsEmpty, ReadingIsHfp, Conserved, PositionsInOrder, Watched,
           Streams
  <1> QED
    BY <1>1, <1>2, <1>3, <1>4 DEF Inv

\* PlaybackState preserves the invariant: the voice queue stays or is emptied.
LEMMA PlaybackStateStep ==
    ASSUME Inv, PlaybackState
    PROVE  Inv'
  BY BridgePcmAssumption
     DEF PlaybackState, StreamState, Inv, TypeOK, QueuesBounded, OutMatchesIn, WholeSamples,
         OffIsEmpty, ReadingIsHfp, Conserved, CreditIsPartial, PositionsInOrder, Watched, Streams, Idle,
         Stride, Whole, queues, position, watchdog

\* CaptureState preserves the invariant: the capture queue keeps its parity.
LEMMA CaptureStateStep ==
    ASSUME Inv, CaptureState
    PROVE  Inv'
  BY BridgePcmAssumption
     DEF CaptureState, StreamState, Inv, TypeOK, QueuesBounded, OutMatchesIn, WholeSamples,
         OffIsEmpty, ReadingIsHfp, Conserved, CreditIsPartial, PositionsInOrder, Watched, Streams, Idle,
         Stride, Whole, queues, position, watchdog

\* What flush_audio does: bytes move from the queue to the socket, none is lost, and what
\* stays does so because the socket is full.
LEMMA FlushMoves ==
    ASSUME Inv, NEW n \in Nat, Flush(n)
    PROVE  /\ out' \in Nat /\ outSock' \in 0 .. SockCap /\ sent' \in Nat
           /\ sent' + out' = sent + out + n
           /\ read' = read => Conserved'
           /\ out' = 0 \/ outSock' = SockCap
           /\ out' <= out + n
           /\ Fits(n) => out' <= QueueLimit
  BY BridgePcmAssumption DEF Flush, Fits, Lesser, Inv, TypeOK, QueuesBounded, Conserved

\* WriteReady preserves the invariant: bytes move to the socket.
LEMMA WriteReadyStep ==
    ASSUME Inv, WriteReady
    PROVE  Inv'
  <1>1. Flush(0)
    BY DEF WriteReady
  <1>2. /\ out' \in Nat /\ outSock' \in 0 .. SockCap /\ sent' \in Nat
        /\ sent' + out' = sent + out
        /\ read' = read => Conserved'
        /\ out' <= out
    BY <1>1, FlushMoves DEF Inv, TypeOK
  <1>3. /\ on /\ failed = "no" /\ budget = 0
        /\ UNCHANGED <<on, hfp, failed, voice, cap, credit, vprimed, cprimed, playing, recording,
                       budget, inSock, peer, got, read, valid, pos, call, reply, waits, still,
                       dozed, starved, sick>>
    BY DEF WriteReady, Streams, Idle, position, watchdog
  <1>4. TypeOK' /\ QueuesBounded'
    BY <1>2, <1>3, BridgePcmAssumption DEF Inv, TypeOK, QueuesBounded
  <1>5. OutMatchesIn' /\ WholeSamples' /\ CreditIsPartial'
    BY <1>2, <1>3 DEF Inv, OutMatchesIn, WholeSamples, CreditIsPartial, Streams
  <1>6. OffIsEmpty' /\ ReadingIsHfp' /\ PositionsInOrder' /\ Watched'
    BY <1>3 DEF Inv, OffIsEmpty, ReadingIsHfp, PositionsInOrder, Watched, Streams
  <1>7. Conserved'
    BY <1>2, <1>3
  <1> QED
    BY <1>4, <1>5, <1>6, <1>7 DEF Inv

\* Process preserves the invariant: a buffer that would exceed the limit is not queued.
LEMMA ProcessStep ==
    ASSUME Inv, NEW size \in Chunks, Process(size)
    PROVE  Inv'
  <1>0. size \in Nat /\ size % 2 = 0
    BY BridgePcmAssumption DEF Stride
  <1>u. /\ UNCHANGED <<on, hfp, failed, cap, credit, vprimed, cprimed, playing, recording,
                       budget, inSock, peer, got, read, position, sick>>
        /\ on /\ failed = "no" /\ budget = 0
    BY DEF Process, Streams, Idle
  <1>1. CASE /\ hfp /\ size <= QueueLimit - voice /\ voice' = voice + size
             /\ UNCHANGED <<out, outSock, sent>>
    BY <1>0, <1>u, <1>1, BridgePcmAssumption
       DEF Inv, TypeOK, QueuesBounded, OutMatchesIn, WholeSamples, OffIsEmpty, ReadingIsHfp,
           Conserved, CreditIsPartial, PositionsInOrder, Watched, Streams, Stride, position,
           watchdog
  <1>2. ASSUME NEW n \in Nat, ~hfp, Flush(n), voice' = voice,
               n = 0 \/ Fits(n)
        PROVE  Inv'
    <2>2. /\ out' \in Nat /\ outSock' \in 0 .. SockCap /\ sent' \in Nat
          /\ read' = read => Conserved'
          /\ out' <= QueueLimit
      BY <1>2, FlushMoves, BridgePcmAssumption DEF Inv, TypeOK, QueuesBounded
    <2>3. TypeOK' /\ QueuesBounded'
      BY <1>2, <1>u, <2>2, BridgePcmAssumption
         DEF Inv, TypeOK, QueuesBounded, position, watchdog
    <2>4. OutMatchesIn' /\ WholeSamples' /\ CreditIsPartial'
      BY <1>2, <1>u DEF OutMatchesIn, WholeSamples, CreditIsPartial, Streams
    <2>5. OffIsEmpty' /\ ReadingIsHfp' /\ PositionsInOrder' /\ Watched'
      BY <1>u DEF Inv, OffIsEmpty, ReadingIsHfp, PositionsInOrder, Watched, Streams, position,
                  watchdog
    <2>6. Conserved'
      BY <1>u, <2>2
    <2> QED
      BY <2>3, <2>4, <2>5, <2>6 DEF Inv
  <1> QED
    BY <1>0, <1>1, <1>2 DEF Process

\* StartTransport preserves the invariant: the first silence is written or queued.
LEMMA StartStep ==
    ASSUME Inv, NEW h \in BOOLEAN, StartTransport(h)
    PROVE  Inv'
  <1> DEFINE prime == IF h THEN Prime ELSE Target
  <1>1. prime \in Nat /\ prime <= QueueLimit /\ prime % 2 = 0 /\ (h => prime = Prime)
    BY BridgePcmAssumption DEF Stride
  <1>2. /\ ~on /\ on' = TRUE /\ hfp' = h /\ peer' = TRUE
        /\ sent' = Lesser(prime, SockCap) /\ outSock' = Lesser(prime, SockCap)
        /\ out' = prime - Lesser(prime, SockCap)
        /\ UNCHANGED <<failed, voice, cap, credit, vprimed, cprimed, playing, recording, budget,
                       inSock, got, read, position, sick>>
    BY Zenon DEF StartTransport
  <1> HIDE DEF prime
  <1>3. /\ sent' \in Nat /\ outSock' \in 0 .. SockCap /\ out' \in Nat /\ out' <= QueueLimit
        /\ sent' + out' = prime /\ sent' = outSock'
    BY <1>1, <1>2, BridgePcmAssumption DEF Lesser
  <1>4. /\ on' \in BOOLEAN /\ hfp' \in BOOLEAN /\ peer' \in BOOLEAN
    BY <1>2, Zenon
  <1>5. /\ failed = "no" /\ budget = 0 /\ call = "none" /\ valid = FALSE /\ voice = 0 /\ cap = 0
        /\ credit = 0 /\ got = 0 /\ read = 0
    BY <1>2 DEF Inv, OffIsEmpty
  <1>6. TypeOK' /\ QueuesBounded'
    BY <1>2, <1>3, <1>4 DEF Inv, TypeOK, QueuesBounded, position, watchdog
  <1>7. OutMatchesIn' /\ WholeSamples' /\ CreditIsPartial'
    BY <1>1, <1>2, <1>3, <1>5, BridgePcmAssumption
       DEF Inv, TypeOK, OutMatchesIn, WholeSamples, CreditIsPartial, Streams, Whole, Stride
  <1>8. OffIsEmpty' /\ ReadingIsHfp' /\ Conserved' /\ PositionsInOrder' /\ Watched'
    BY <1>2, <1>3, <1>5, BridgePcmAssumption
       DEF Inv, TypeOK, OffIsEmpty, ReadingIsHfp, Conserved, PositionsInOrder, Watched, position
  <1> QED
    BY <1>6, <1>7, <1>8 DEF Inv

\* CaptureProcess preserves the invariant: it takes whole samples.
LEMMA CaptureStep ==
    ASSUME Inv, NEW size \in Chunks, CaptureProcess(size)
    PROVE  Inv'
  <1>0. size \in Nat /\ size % 2 = 0
    BY BridgePcmAssumption DEF Stride
  <1>1. /\ UNCHANGED <<on, hfp, out, voice, credit, vprimed, playing, recording, budget,
                       inSock, outSock, peer, got, sent, read, position, sick>>
        /\ on /\ failed = "no" /\ budget = 0 /\ failed' \in {"no", "graph"}
        /\ cprimed' \in BOOLEAN
        /\ cap' = cap - Taken(size) \/ cap' = cap
    BY DEF CaptureProcess, Streams, Idle
  <1>2. Taken(size) \in 0 .. cap /\ Taken(size) % 2 = 0
    BY <1>0 DEF Taken, Lesser, Whole, Stride, Inv, TypeOK
  <1>3. cap' \in 0 .. cap /\ (cap - cap') % 2 = 0
    BY <1>1, <1>2 DEF Inv, TypeOK
  <1>4. TypeOK' /\ QueuesBounded'
    BY <1>1, <1>3, BridgePcmAssumption DEF Inv, TypeOK, QueuesBounded, position, watchdog
  <1>5. WholeSamples'
    <2>1. SUFFICES ASSUME hfp
                   PROVE  (got - cap') % 2 = 0 /\ voice % 2 = 0 /\ (sent + out) % 2 = 0
      BY <1>1 DEF WholeSamples, Stride
    <2>2. (got - cap) % 2 = 0 /\ voice % 2 = 0 /\ (sent + out) % 2 = 0
      BY <1>1, <2>1 DEF Inv, WholeSamples, Stride
    <2>3. got - cap \in Int /\ cap - cap' \in Int /\ got - cap' = (got - cap) + (cap - cap')
      BY <1>3 DEF Inv, TypeOK
    <2> QED
      BY <1>3, <2>2, <2>3, EvenSum
  <1>6. OutMatchesIn' /\ CreditIsPartial' /\ OffIsEmpty' /\ ReadingIsHfp' /\ Conserved'
    BY <1>1 DEF Inv, OutMatchesIn, CreditIsPartial, OffIsEmpty, ReadingIsHfp, Conserved, Streams
  <1>7. PositionsInOrder' /\ Watched'
    BY <1>1 DEF Inv, PositionsInOrder, Watched, Streams, position, watchdog
  <1> QED
    BY <1>4, <1>5, <1>6, <1>7 DEF Inv

\* PositionReceived preserves the invariant, and fails the session only when Floss refused:
\* an answer is no more than was written and no less than the position before.
LEMMA PositionStep ==
    ASSUME Inv, PositionReceived
    PROVE  /\ Inv'
           /\ failed' # "no" => failed' = "position" /\ call = "refused"
  <1>1. call = "answered" => ~Refused
    BY DEF Refused, PositionReceived, Inv, TypeOK, Conserved, PositionsInOrder
  <1>2. /\ call \in {"answered", "refused"} /\ call' = "none" /\ reply' = 0
        /\ UNCHANGED <<on, hfp, queues, playing, recording, budget, inSock, outSock, peer, got,
                       sent, read, waits, sick>>
        /\ on /\ failed = "no" /\ budget = 0
    BY Zenon DEF PositionReceived, Streams, Idle
  <1>3. \/ failed' = "position" /\ UNCHANGED <<valid, pos, still, dozed, starved>>
        \/ /\ failed' = "no" /\ valid' = TRUE /\ pos' = reply /\ call = "answered"
           /\ still' = IF Moves THEN 0 ELSE still
           /\ dozed' = (dozed /\ ~Moves) /\ starved' = (starved /\ ~Moves)
    BY <1>2 DEF PositionReceived, Refused, watchdog
  <1>4. valid' \in BOOLEAN /\ dozed' \in BOOLEAN /\ starved' \in BOOLEAN
    BY <1>3, Zenon DEF Inv, TypeOK
  <1>5. still' \in Nat /\ pos' \in Nat /\ (valid' => pos' <= read)
    BY <1>3 DEF Inv, TypeOK, PositionsInOrder
  <1>6. Watched'
    BY <1>2, <1>3 DEF Inv, TypeOK, Watched, Streams, Moves
  <1>7. TypeOK' /\ QueuesBounded' /\ OutMatchesIn' /\ WholeSamples'
    BY <1>2, <1>3, <1>4, <1>5, BridgePcmAssumption
       DEF Inv, TypeOK, QueuesBounded, OutMatchesIn, WholeSamples, Streams, queues
  <1>8. OffIsEmpty' /\ ReadingIsHfp' /\ Conserved' /\ CreditIsPartial' /\ PositionsInOrder'
    BY <1>2, <1>3, <1>5
       DEF Inv, OffIsEmpty, ReadingIsHfp, Conserved, CreditIsPartial, PositionsInOrder, queues
  <1>9. failed' # "no" => failed' = "position" /\ call = "refused"
    BY <1>1, <1>2 DEF PositionReceived
  <1> QED
    BY <1>6, <1>7, <1>8, <1>9 DEF Inv

\* FlossSends preserves the invariant: only the socket fills.
LEMMA SendStep ==
    ASSUME Inv, NEW n \in 1 .. SockCap, FlossSends(n)
    PROVE  Inv'
  BY BridgePcmAssumption
     DEF FlossSends, Inv, TypeOK, QueuesBounded, OutMatchesIn, WholeSamples, OffIsEmpty,
         ReadingIsHfp, Conserved, CreditIsPartial, PositionsInOrder, Watched, Streams, queues,
         position, watchdog

\* FlossReads preserves the invariant: bytes move from the socket to Floss.
LEMMA ReadStep ==
    ASSUME Inv, NEW n \in 1 .. SockCap, FlossReads(n)
    PROVE  Inv'
  BY BridgePcmAssumption
     DEF FlossReads, Inv, TypeOK, QueuesBounded, OutMatchesIn, WholeSamples, OffIsEmpty,
         ReadingIsHfp, Conserved, CreditIsPartial, PositionsInOrder, Watched, Streams, queues,
         position, watchdog

\* read_capture always finds room: an overrun leaves 30 ms, and whole samples are dropped.
LEMMA KeptFits ==
    ASSUME Inv
    PROVE  Kept \in Nat /\ Kept < QueueLimit /\ (cap - Kept) % 2 = 0
  <1>1. /\ QueueLimit \in Nat /\ Target \in Nat /\ Target < QueueLimit
        /\ QueueLimit % 2 = 0 /\ Target % 2 = 0
        /\ cap \in Nat /\ cap <= QueueLimit
    BY BridgePcmAssumption DEF Inv, TypeOK, QueuesBounded, Stride
  <1>2. IdleCap \in 0 .. QueueLimit /\ (cap - IdleCap) % 2 = 0
    BY <1>1 DEF IdleCap, Stride
  <1>3. Whole(QueueLimit - Target) = QueueLimit - Target
    BY <1>1 DEF Whole, Stride
  <1>4. CASE IdleCap = QueueLimit
    <2>1. Kept = Target
      BY <1>1, <1>3, <1>4 DEF Kept
    <2> QED
      BY <1>1, <1>2, <1>4, <2>1
  <1>5. CASE IdleCap # QueueLimit
    BY <1>1, <1>2, <1>5 DEF Kept
  <1> QED
    BY <1>4, <1>5

\* What a read of n bytes asks for in return: the whole samples that they complete.
LEMMA WantedCompletes ==
    ASSUME NEW g \in Nat, NEW n \in Nat, credit = g % 2
    PROVE  /\ Wanted(n) \in Nat /\ Wanted(n) % 2 = 0 /\ Wanted(n) <= n + 1
           /\ credit + n - Wanted(n) = (g + n) % 2
           /\ Whole(g) + Wanted(n) = Whole(g + n)
  BY DEF Wanted, Whole, Stride

\* A read that fails the session for jitter leaves its socket full: nothing else keeps
\* what a read asks for from being queued.  What it has moved still fits.
LEMMA JitterIsFullSocket ==
    ASSUME Inv, NEW w \in Nat, w <= QueueLimit, ~Fits(w), NEW part \in Nat, Fits(part),
           out' = out - Lesser(out, SockCap - outSock) + part,
           outSock' = outSock + Lesser(out, SockCap - outSock),
           sent' = sent + Lesser(out, SockCap - outSock)
    PROVE  /\ outSock' = SockCap /\ out' \in Nat /\ out' <= QueueLimit /\ sent' \in Nat
           /\ sent' + out' = sent + out + part
           /\ read' = read => Conserved'
  BY BridgePcmAssumption DEF Fits, Lesser, Inv, TypeOK, QueuesBounded, Conserved

\* A read preserves the invariant, and fails the session only when its socket is full.
LEMMA ReceiveStep ==
    ASSUME Inv, Streams, budget > 0,
           NEW n \in 1 .. Lesser(budget, Lesser(QueueLimit - Kept, inSock)), Receive(n)
    PROVE  /\ Inv'
           /\ failed' # "no" => failed' = "jitter" /\ outSock' = SockCap
  <1> DEFINE w == Wanted(n)
  <1>1. /\ on /\ hfp /\ failed = "no" /\ peer \in BOOLEAN
        /\ credit = got % 2 /\ got \in Nat /\ cap \in Nat /\ voice \in Nat /\ voice <= QueueLimit
        /\ budget \in Nat /\ inSock \in Nat /\ (got - cap) % 2 = 0 /\ voice % 2 = 0
        /\ sent \in Nat /\ out \in Nat /\ out <= QueueLimit
        /\ sent + out = Prime + Whole(got) /\ (sent + out) % 2 = 0
    BY BridgePcmAssumption
       DEF Inv, TypeOK, QueuesBounded, OutMatchesIn, WholeSamples, ReadingIsHfp, CreditIsPartial,
           Streams, Stride
  <1>2. Kept \in Nat /\ Kept < QueueLimit /\ (cap - Kept) % 2 = 0 /\ QueueLimit \in Nat
    BY KeptFits, BridgePcmAssumption
  <1>3. n \in Nat /\ n >= 1 /\ n <= budget /\ n <= QueueLimit - Kept /\ n <= inSock
    BY <1>1, <1>2 DEF Lesser
  <1>4. /\ w \in Nat /\ w % 2 = 0 /\ w <= n + 1 /\ credit + n - w = (got + n) % 2
        /\ Whole(got) + w = Whole(got + n)
    BY <1>1, <1>3, WantedCompletes
  <1>5. w <= QueueLimit
    BY <1>2, <1>3, <1>4, BridgePcmAssumption DEF Stride
  <1>6. /\ got' = got + n /\ inSock' = inSock - n /\ credit' = credit + n - w
        /\ cap' = Kept + n \/ cap' = (Kept + n) % 2
        /\ vprimed' = Primed
        /\ UNCHANGED <<on, hfp, cprimed, playing, recording, peer, read, position, sick>>
    BY DEF Receive, Stride
  <1>7. \/ /\ Fits(w) /\ Flush(w) /\ budget' = budget - n /\ failed' = failed
           /\ voice' = voice - Lesser(w, voice) \/ voice' = voice - 0
        \/ /\ ~Fits(w) /\ budget' = 0 /\ failed' = "jitter"
           /\ \E part \in 0 .. voice :
                 /\ part % 2 = 0 /\ Fits(part) /\ voice' = voice - part
                 /\ out' = out - Lesser(out, SockCap - outSock) + part
           /\ outSock' = outSock + Lesser(out, SockCap - outSock)
           /\ sent' = sent + Lesser(out, SockCap - outSock)
    <2>1. Lesser(w, voice) <= voice /\ Lesser(w, voice) \in Int /\ 0 <= voice
      BY <1>1, <1>4 DEF Lesser
    <2> QED
      BY <1>1, <2>1 DEF Receive, Stride
  <1> HIDE DEF w
  <1>8. got' \in Nat /\ cap' \in Nat /\ cap' <= QueueLimit /\ (got' - cap') % 2 = 0
    <2>1. Kept + n <= QueueLimit /\ (got - Kept) % 2 = 0
      BY <1>1, <1>2, <1>3, EvenSum
    <2>2. ((Kept + n) - ((Kept + n) % 2)) % 2 = 0 /\ (Kept + n) % 2 <= Kept + n
          /\ (Kept + n) % 2 \in Nat
      BY <1>2, <1>3
    <2>3. CASE cap' = Kept + n
      BY <1>1, <1>2, <1>3, <1>6, <2>1, <2>3
    <2>4. CASE cap' = (Kept + n) % 2
      BY <1>1, <1>2, <1>3, <1>6, <2>1, <2>2, <2>4
    <2> QED
      BY <1>6, <2>3, <2>4
  <1>9. credit' = got' % 2 /\ credit' \in Nat
    BY <1>1, <1>3, <1>4, <1>6
  <1>10. voice' \in Nat /\ voice' <= QueueLimit /\ voice' % 2 = 0
    <2>1. PICK k \in 0 .. voice : k % 2 = 0 /\ voice' = voice - k
      <3>1. Lesser(w, voice) \in 0 .. voice /\ Lesser(w, voice) % 2 = 0 /\ 0 \in 0 .. voice
            /\ 0 % 2 = 0
        BY <1>1, <1>4 DEF Lesser
      <3> QED
        BY <1>7, <3>1
    <2>2. (voice - k) % 2 = 0
      BY <1>1, <2>1, EvenSum
    <2> QED
      BY <1>1, <2>1, <2>2, BridgePcmAssumption
  <1>11. budget' \in Nat /\ failed' \in {"no", "jitter"} /\ (budget' > 0 => failed' = "no")
    BY <1>1, <1>3, <1>7
  <1>12. PICK k \in Nat :
            /\ out' \in Nat /\ outSock' \in 0 .. SockCap /\ sent' \in Nat /\ out' <= QueueLimit
            /\ read' = read => Conserved'
            /\ failed' # "no" => failed' = "jitter" /\ outSock' = SockCap
            /\ sent' + out' = sent + out + k /\ k % 2 = 0
            /\ failed' = "no" => k = w
    <2>1. CASE Fits(w)
      BY <1>1, <1>4, <1>7, <2>1, FlushMoves
    <2>2. CASE ~Fits(w)
      <3>1. PICK part \in Nat :
               /\ part % 2 = 0 /\ Fits(part)
               /\ out' = out - Lesser(out, SockCap - outSock) + part
        BY <1>1, <1>7, <2>2
      <3>2. /\ outSock' = outSock + Lesser(out, SockCap - outSock)
            /\ sent' = sent + Lesser(out, SockCap - outSock)
            /\ failed' = "jitter"
        BY <1>7, <2>2
      <3>3. /\ outSock' = SockCap /\ out' \in Nat /\ out' <= QueueLimit /\ sent' \in Nat
            /\ sent' + out' = sent + out + part
            /\ read' = read => Conserved'
        BY <1>4, <1>5, <2>2, <3>1, <3>2, JitterIsFullSocket
      <3>4. SockCap \in 0 .. SockCap
        BY BridgePcmAssumption
      <3> QED
        BY <3>1, <3>2, <3>3, <3>4
    <2> QED
      BY <2>1, <2>2
  <1>13. (sent' + out') % 2 = 0
    <2>1. (sent + out + k) % 2 = 0
      BY <1>1, <1>12, EvenSum
    <2> QED
      BY <1>12, <2>1
  <1>14. vprimed' \in BOOLEAN
    BY <1>6 DEF Primed, Inv, TypeOK
  <1>15. TypeOK' /\ QueuesBounded'
    BY <1>3, <1>6, <1>8, <1>9, <1>10, <1>11, <1>12, <1>14
       DEF Inv, TypeOK, QueuesBounded, position, watchdog
  <1>16. OutMatchesIn'
    <2>1. SUFFICES ASSUME failed' = "no"
                   PROVE  sent' + out' = Prime + Whole(got')
      BY DEF OutMatchesIn, Streams
    <2>2. sent' + out' = sent + out + w
      BY <1>12, <2>1
    <2>3. Whole(got) \in Int /\ Prime \in Int
      BY <1>1, WholeIsEven, BridgePcmAssumption
    <2>4. (Prime + Whole(got)) + w = Prime + (Whole(got) + w)
      BY <1>4, <2>3
    <2> QED
      BY <1>1, <1>4, <1>6, <2>2, <2>4, Zenon
  <1>17. WholeSamples' /\ CreditIsPartial' /\ OffIsEmpty' /\ ReadingIsHfp'
    BY <1>1, <1>6, <1>8, <1>9, <1>10, <1>11, <1>13
       DEF WholeSamples, CreditIsPartial, OffIsEmpty, ReadingIsHfp, Stride
  <1>18. Conserved' /\ PositionsInOrder' /\ Watched'
    BY <1>1, <1>6, <1>12 DEF Inv, PositionsInOrder, Watched, Streams, position, watchdog
  <1> QED
    BY <1>12, <1>15, <1>16, <1>17, <1>18 DEF Inv

\* ReadCapture preserves the invariant, and never takes a full queue for the end of the
\* stream: there is room for at least one byte.
LEMMA ReadCaptureStep ==
    ASSUME Inv, ReadCapture
    PROVE  /\ Inv'
           /\ failed' # "no" => failed' = "jitter" /\ outSock' = SockCap
  <1>1. QueueLimit # Kept
    BY KeptFits, BridgePcmAssumption
  <1>2. PICK n \in 1 .. Lesser(budget, Lesser(QueueLimit - Kept, inSock)) : Receive(n)
    BY <1>1 DEF ReadCapture
  <1> QED
    BY <1>2, ReceiveStep DEF ReadCapture

\* Before the first session everything is zero.
LEMMA InitInv == Init => Inv
  <1> SUFFICES ASSUME Init PROVE Inv
    OBVIOUS
  <1>1. /\ on = FALSE /\ hfp = FALSE /\ peer = FALSE /\ valid = FALSE
        /\ vprimed = FALSE /\ cprimed = FALSE
    BY Zenon DEF Init
  <1>2. /\ on \in BOOLEAN /\ hfp \in BOOLEAN /\ peer \in BOOLEAN /\ valid \in BOOLEAN
        /\ vprimed \in BOOLEAN /\ cprimed \in BOOLEAN
        /\ playing \in BOOLEAN /\ recording \in BOOLEAN
        /\ dozed \in BOOLEAN /\ starved \in BOOLEAN /\ sick \in BOOLEAN
    BY <1>1, Zenon DEF Init
  <1>3. /\ failed = "no" /\ call = "none" /\ budget = 0 /\ out = 0 /\ voice = 0 /\ cap = 0
        /\ credit = 0 /\ inSock = 0 /\ outSock = 0 /\ got = 0 /\ sent = 0 /\ read = 0
        /\ pos = 0 /\ reply = 0 /\ waits = 0 /\ still = 0
    BY Zenon DEF Init
  <1>4. TypeOK
    BY <1>2, <1>3, BridgePcmAssumption DEF TypeOK
  <1>5. QueuesBounded
    BY <1>3, BridgePcmAssumption DEF QueuesBounded
  <1>6. OutMatchesIn /\ WholeSamples /\ CreditIsPartial
    BY <1>1 DEF OutMatchesIn, WholeSamples, CreditIsPartial, Streams
  <1>7. OffIsEmpty /\ ReadingIsHfp /\ Conserved /\ PositionsInOrder /\ Watched
    BY <1>1, <1>3 DEF OffIsEmpty, ReadingIsHfp, Conserved, PositionsInOrder, Watched
  <1> QED
    BY <1>4, <1>5, <1>6, <1>7 DEF Inv

\* A step that leaves everything alone preserves the invariant.
LEMMA StutterStep ==
    ASSUME Inv, UNCHANGED vars
    PROVE  Inv'
  BY DEF vars, queues, position, watchdog, Inv, TypeOK, QueuesBounded, OutMatchesIn,
         WholeSamples, OffIsEmpty, ReadingIsHfp, Conserved, CreditIsPartial, PositionsInOrder,
         Watched, Streams

\* Every step preserves the invariant, one case for each callback and each move of Floss.
LEMMA NextInv ==
    ASSUME Inv, [Next]_vars
    PROVE  Inv'
  <1>1. ASSUME NEW h \in BOOLEAN, StartTransport(h) PROVE Inv'
    BY <1>1, StartStep
  <1>2. ASSUME NEW size \in Chunks, Process(size) \/ ProcessFails(size) \/ CaptureProcess(size)
        PROVE  Inv'
    BY <1>2, ProcessStep, ProcessFailsStep, CaptureStep
  <1>3. ASSUME NEW n \in 1 .. SockCap, FlossSends(n) \/ FlossReads(n) PROVE Inv'
    BY <1>3, SendStep, ReadStep
  <1>4. ASSUME BridgeReads \/ WriteReady PROVE Inv'
    BY <1>4, StartReadStep, ReadCaptureStep, EndReadStep, HangupStep, WriteReadyStep
       DEF BridgeReads
  <1>5. ASSUME PollPosition \/ PositionReceived \/ PositionTimesOut PROVE Inv'
    BY <1>5, PollStep, PositionStep, TimesOutStep
  <1>6. ASSUME StopTransport \/ PlaybackState \/ CaptureState PROVE Inv'
    BY <1>6, StopStep, PlaybackStateStep, CaptureStateStep
  <1>7. ASSUME FlossAnswers \/ FlossRefuses \/ FlossCloses \/ GraphSickens \/ Tick PROVE Inv'
    BY <1>7, AnswerStep, RefuseStep, CloseStep, SickenStep, TickStep
  <1>8. ASSUME UNCHANGED vars PROVE Inv'
    BY <1>8, StutterStep
  <1> QED
    BY <1>1, <1>2, <1>3, <1>4, <1>5, <1>6, <1>7, <1>8 DEF Next

\* The inductive invariant holds in every state of every session.
THEOREM Invariance == Spec => []Inv
  <1>1. Init => Inv
    BY InitInv
  <1>2. Inv /\ [Next]_vars => Inv'
    BY NextInv
  <1> QED
    BY <1>1, <1>2, PTL DEF Spec

\* The queues, the socket and the counters of the sessions have their types, for sockets
\* and queues of any size.
THEOREM TypeCorrect == Spec => []TypeOK
  <1>1. Inv => TypeOK
    BY DEF Inv
  <1> QED
    BY <1>1, Invariance, PTL

\* No queue ever holds more than 100 ms, however reads, writes and buffers are cut
\* (process, read_capture, queue_output).
THEOREM QueuesStayBounded == Spec => []QueuesBounded
  <1>1. Inv => QueuesBounded
    BY DEF Inv
  <1> QED
    BY <1>1, Invariance, PTL

\* voice_playback_credit keeps playback on the clock of the microphone: a session sends the
\* first silence and the whole samples it has received, no more and no fewer.
THEOREM PlaybackFollowsMicrophone == Spec => []OutMatchesIn
  <1>1. Inv => OutMatchesIn
    BY DEF Inv
  <1> QED
    BY <1>1, Invariance, PTL

\* No read, overrun, discard or buffer cuts a sample in two.
THEOREM SamplesStayWhole == Spec => []WholeSamples
  <1>1. Inv => WholeSamples
    BY DEF Inv
  <1> QED
    BY <1>1, Invariance, PTL

\* The watchdog fires only if Floss left bytes in its socket or had none: otherwise its
\* position would be overdue, which process finds first.
LEMMA StuckIsFlossOrGraph ==
    ASSUME Inv, Streams, ~Overdue, Stuck
    PROVE  dozed \/ starved
  BY BridgePcmAssumption DEF Inv, TypeOK, Watched, Overdue, Stuck

\* The step lemma of OnlyFaultsFail: where a session starts to fail, and what was wrong then.
LEMMA FailsForFault ==
    ASSUME Inv, Next, failed = "no", failed' # "no"
    PROVE  \/ failed' = "closed" /\ ~peer
           \/ failed' = "jitter" /\ outSock' = SockCap
           \/ failed' = "position" /\ call = "refused"
           \/ failed' = "timeout" /\ waits > PosT
           \/ failed' = "stuck" /\ (dozed \/ starved)
           \/ failed' = "graph" /\ sick
  <1>1. CASE ReadCapture
    BY <1>1, ReadCaptureStep
  <1>2. CASE Hangup
    BY <1>2 DEF Hangup
  <1>3. CASE PositionReceived
    BY <1>3, PositionStep
  <1>4. CASE PositionTimesOut
    BY <1>4 DEF PositionTimesOut
  <1>5. ASSUME NEW h \in BOOLEAN, StartTransport(h) PROVE FALSE
    BY <1>5 DEF StartTransport
  <1>6. ASSUME NEW size \in Chunks, ProcessFails(size)
        PROVE  \/ failed' = "timeout" /\ waits > PosT
               \/ failed' = "stuck" /\ (dozed \/ starved)
               \/ failed' = "graph" /\ sick
    BY <1>6, StuckIsFlossOrGraph DEF ProcessFails, Overdue
  <1>7. ASSUME NEW size \in Chunks, Process(size) PROVE FALSE
    BY <1>7 DEF Process
  <1>8. ASSUME NEW size \in Chunks, CaptureProcess(size) PROVE failed' = "graph" /\ sick
    BY <1>8 DEF CaptureProcess
  <1>9. CASE PlaybackState \/ CaptureState
    BY <1>9 DEF PlaybackState, CaptureState, StreamState
  <1>10. ASSUME NEW n \in 1 .. SockCap, FlossSends(n) \/ FlossReads(n) PROVE FALSE
    BY <1>10 DEF FlossSends, FlossReads
  <1>11. ASSUME StopTransport \/ StartRead \/ EndRead \/ WriteReady \/ PollPosition PROVE FALSE
    BY <1>11 DEF StopTransport, StartRead, EndRead, WriteReady, PollPosition
  <1>12. ASSUME FlossAnswers \/ FlossRefuses \/ FlossCloses \/ GraphSickens \/ Tick PROVE FALSE
    BY <1>12 DEF FlossAnswers, FlossRefuses, FlossCloses, GraphSickens, Tick
  <1> QED
    BY <1>1, <1>2, <1>3, <1>4, <1>5, <1>6, <1>7, <1>8, <1>9, <1>10, <1>11, <1>12
       DEF Next, BridgeReads

\* A session fails only for a fault of Floss or of PipeWire, one that is there when it
\* fails: never because a queue is full or empty, or because a position is taken for a
\* reset of the counter (read_capture, process, position_received, state_changed).
THEOREM OnlyFaultsFailIt == Spec => OnlyFaultsFail
  <1>1. Inv /\ [Next]_vars =>
          [failed = "no" /\ failed' # "no" =>
             \/ failed' = "closed" /\ ~peer
             \/ failed' = "jitter" /\ outSock' = SockCap
             \/ failed' = "position" /\ call = "refused"
             \/ failed' = "timeout" /\ waits > PosT
             \/ failed' = "stuck" /\ (dozed \/ starved)
             \/ failed' = "graph" /\ sick]_vars
    BY FailsForFault
  <1> QED
    BY <1>1, Invariance, PTL DEF Spec, OnlyFaultsFail
=============================================================================
