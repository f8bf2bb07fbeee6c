--------------------------- MODULE BridgeProofs ---------------------------
(* Proofs about Bridge, for any headsets, codecs, timeouts and faults.        *)
EXTENDS Bridge, WellFoundedInduction, TLAPS

-----------------------------------------------------------------------------
(* Types.                                                                   *)

Addresses == Devices \cup {"none"}
Messages == {"owner", "gone", "scoOff"} \X Addresses
Sounds == {"idle", "starting", "begun", "open", "refused"}

Bridges ==
    [at : Places, then : {"drop", "codec", "reserve", "cleanup"}, polled : BOOLEAN, wait : Nat,
     addr : Addresses, mic : BOOLEAN, codecs : SUBSET Codecs, sess : BOOLEAN,
     fd : {"no", "up", "hup"}, hfp : BOOLEAN, goal : BOOLEAN, trans : BOOLEAN, again : BOOLEAN,
     failed : BOOLEAN, req : Profiles, sel : Profiles, demand : BOOLEAN, nosco : BOOLEAN,
     mono : BOOLEAN, disc : Nat, idle : Nat, retry : Nat, rest : Nat, mute : BOOLEAN]

Daemons ==
    [up : BOOLEAN, reg : BOOLEAN, devs : Seq(Devices), mic : BOOLEAN, codecs : SUBSET Codecs,
     denies : BOOLEAN, pcm : BOOLEAN, live : BOOLEAN, slow : Nat,
     lease : BOOLEAN, told : BOOLEAN, hfp : BOOLEAN, peer : Addresses, audio : Sounds,
     late : BOOLEAN, rel : Nat, tell : BOOLEAN, changed : BOOLEAN, stall : Nat]

\* The state of the process, of the daemon, of the inbox between them and of
\* PipeWire, with the applications of Next.
PipeWireOK == /\ nodes \subseteq {"sink", "src"} /\ apps \subseteq {"record"}
              /\ links \subseteq {"record"}
TypeOK == /\ b \in Bridges /\ floss \in Daemons /\ inbox \in Seq(Messages) /\ PipeWireOK
          /\ term \in BOOLEAN /\ bad \in BOOLEAN /\ faults \in Nat

\* A set of numbers that is not empty has a smallest one.
LEMMA Smallest ==
    ASSUME NEW S \in SUBSET Nat, S # {}
    PROVE  Min(S) \in S /\ \A y \in S : Min(S) <= y
<1> DEFINE R == OpToRel(<, Nat)
<1>1. IsWellFoundedOn(R, Nat)
  BY NatLessThanWellFounded
<1>2. \A x, y \in Nat : x < y => <<x, y>> \in R
  BY DEF OpToRel
<1> HIDE DEF R
<1>3. PICK x \in S : \A y \in S : ~(<<y, x>> \in R)
  BY <1>1, WFMin
<1>4. ASSUME NEW y \in S PROVE x <= y
  <2>1. x \in Nat /\ y \in Nat
    OBVIOUS
  <2>2. ~(y < x)
    BY <1>2, <1>3, <2>1
  <2> QED BY <2>1, <2>2
<1> QED BY <1>4 DEF Min

\* discover_device looks at a device of the list, and at no other than its own.
LEMMA ListedType ==
    ASSUME floss.devs \in Seq(Devices), Listed # 0
    PROVE  Listed \in 1..Len(floss.devs) /\ b.addr \in {"none", floss.devs[Listed]}
<1> DEFINE I == {i \in 1..Len(floss.devs) : b.addr \in {"none", floss.devs[i]}}
<1>1. Listed = IF I # {} THEN Min(I) ELSE 0
  BY DEF Listed, SelectInSeq
<1>2. I \in SUBSET Nat /\ I # {}
  BY <1>1
<1>3. Min(I) \in I
  BY <1>2, Smallest
<1> QED BY <1>1, <1>2, <1>3

\* What dispatch_bus leaves in the inbox.
LEMMA DispatchedType ==
    ASSUME inbox \in Seq(Messages)
    PROVE  Dispatched \in Seq(Messages)
<1> DEFINE I == {i \in 1..Len(inbox) : Fatal(inbox[i])}
<1>1. ASSUME ~b.failed PROVE FatalAt = IF I # {} THEN Min(I) ELSE 0
  BY <1>1 DEF FatalAt, SelectInSeq
<1>2. ASSUME ~b.failed, FatalAt # 0 PROVE FatalAt \in 1..Len(inbox)
  <2>1. I \in SUBSET Nat /\ I # {}
    BY <1>1, <1>2
  <2>2. Min(I) \in I
    BY <2>1, Smallest
  <2> QED BY <1>1, <1>2, <2>1, <2>2
<1>3. ASSUME NEW n \in 1..Len(inbox) PROVE SubSeq(inbox, n + 1, Len(inbox)) \in Seq(Messages)
  OBVIOUS
<1> QED BY <1>2, <1>3 DEF Dispatched

LEMMA Timeouts ==
    /\ DiscoverT \in Nat /\ IdleT \in Nat /\ RetryT \in Nat /\ CallT \in Nat /\ StartT \in Nat
    /\ PcmT \in Nat /\ BackoffT \in Nat /\ ReleaseT \in Nat /\ MaxFaults \in Nat
BY BridgeAssumption

LEMMA FreshType == Fresh \in Bridges /\ Off \in Bridges
BY DEF Fresh, Off, Bridges, Addresses, Profiles, Places

LEMMA EnterType ==
    ASSUME NEW x \in Bridges, NEW place \in Places, NEW t \in Nat
    PROVE  Enter(x, place, t) \in Bridges
BY DEF Enter, Bridges

\* A failed start: what it adds to the history of the run, and where it goes on.
Blamed(x) == [x EXCEPT !.failed = TRUE, !.mute = x.mute \/ x.at = "probe",
                       !.rest = IF x.hfp THEN RetryT ELSE x.rest]

LEMMA BlamedType ==
    ASSUME NEW x \in Bridges
    PROVE  /\ Blamed(x) \in Bridges
           /\ Blamed(x).sess = x.sess /\ Blamed(x).fd = x.fd /\ Blamed(x).then = x.then
           /\ Blamed(x).addr = x.addr /\ Blamed(x).mic = x.mic /\ Blamed(x).hfp = x.hfp
           /\ Blamed(x).goal = x.goal /\ Blamed(x).trans = x.trans /\ Blamed(x).req = x.req
           /\ Blamed(x).sel = x.sel /\ Blamed(x).nosco = x.nosco
           /\ Blamed(x).mute = (x.mute \/ x.at = "probe")
           /\ Blamed(x).rest = IF x.hfp THEN RetryT ELSE x.rest
<1> DEFINE mute == x.mute \/ x.at = "probe"
           rest == IF x.hfp THEN RetryT ELSE x.rest
<1>1. mute \in BOOLEAN
  BY DEF Bridges
<1>2. rest \in Nat
  BY Timeouts DEF Bridges
<1>3. Blamed(x) = [x EXCEPT !.failed = TRUE, !.mute = mute, !.rest = rest]
  BY DEF Blamed
<1> HIDE DEF mute, rest
<1>4. Blamed(x).mute = mute /\ Blamed(x).rest = rest
  BY <1>1, <1>2, <1>3 DEF Bridges
<1>5. /\ Blamed(x) \in Bridges
      /\ Blamed(x).sess = x.sess /\ Blamed(x).fd = x.fd /\ Blamed(x).then = x.then
      /\ Blamed(x).addr = x.addr /\ Blamed(x).mic = x.mic /\ Blamed(x).hfp = x.hfp
      /\ Blamed(x).goal = x.goal /\ Blamed(x).trans = x.trans /\ Blamed(x).req = x.req
      /\ Blamed(x).sel = x.sel /\ Blamed(x).nosco = x.nosco
  BY <1>1, <1>2, <1>3, ZenonT(60) DEF Bridges
<1> QED BY <1>4, <1>5 DEF mute, rest

LEMMA StartFailedType == ASSUME NEW x \in Bridges PROVE StartFailed(x) \in Bridges
<1>1. Blamed(x) \in Bridges
  BY BlamedType
<1>2. "undo" \in Places /\ "cleanup" \in Places
  BY DEF Places
<1>3. StartFailed(x) = Enter(Blamed(x), IF x.trans /\ ~x.again THEN "undo" ELSE "cleanup", 0)
  BY DEF StartFailed, Blamed
<1> QED BY <1>1, <1>2, <1>3, EnterType

LEMMA PollOnType == ASSUME NEW x \in Bridges, NEW gone PROVE PollOn(x, gone) \in Bridges
<1>1. [x EXCEPT !.polled = TRUE] \in Bridges
  BY DEF Bridges
<1> QED BY <1>1, StartFailedType DEF PollOn

LEMMA StartedType == ASSUME NEW x \in Bridges PROVE Started(x) \in Bridges
<1>1. "commit" \in Places /\ "publish" \in Places
  BY DEF Places
<1> QED BY <1>1, EnterType DEF Started

LEMMA RestoredType == ASSUME NEW x \in Bridges PROVE Restored(x) \in Bridges
<1>1. [x EXCEPT !.req = x.sel, !.goal = x.hfp] \in Bridges
  BY DEF Bridges
<1>2. "reserve" \in Places
  BY DEF Places
<1> QED BY <1>1, <1>2, Timeouts, EnterType DEF Restored

LEMMA DiscoveredType ==
    ASSUME NEW x \in Bridges, floss \in Daemons, Discovers
    PROVE  Discovered(x) \in Bridges /\ Discovered(x).addr \in Devices
<1>1. floss.devs \in Seq(Devices) /\ floss.mic \in BOOLEAN /\ floss.codecs \in SUBSET Codecs
  BY DEF Daemons
<1>2. floss.devs[Listed] \in Devices
  BY <1>1, ListedType DEF Discovers
<1> QED BY <1>1, <1>2 DEF Discovered, Bridges, Addresses

LEMMA WatchType == ASSUME NEW x \in Bridges PROVE Watch(x) \in Bridges
<1>1. capture_requested \in BOOLEAN
  BY DEF capture_requested
<1>2. (IF x.demand /\ ~capture_requested THEN IdleT ELSE x.idle) \in Nat
  BY Timeouts DEF Bridges
<1>3. ASSUME NEW c \in BOOLEAN, NEW n \in Nat
      PROVE  [x EXCEPT !.mono = FALSE, !.demand = c, !.idle = n] \in Bridges
  BY DEF Bridges
<1> QED BY <1>1, <1>2, <1>3 DEF Watch

LEMMA HungUpType == ASSUME NEW x \in Bridges PROVE HungUp(x) \in Bridges
BY DEF HungUp, Bridges

LEMMA SessionTypes ==
    ASSUME floss \in Daemons
    PROVE  NoSession(floss) \in Daemons /\ Ended \in Daemons
<1>1. NoSession(floss) \in Daemons
  BY DEF NoSession, Daemons, Sounds
<1>2. (floss.live /\ floss.hfp /\ floss.audio \in {"begun", "open"}) \in BOOLEAN
  OBVIOUS
<1>3. Ended \in Daemons
  BY <1>2, Timeouts, ZenonT(60) DEF Ended, Daemons, Sounds
<1> QED BY <1>1, <1>3

LEMMA ReservedType ==
    ASSUME b \in Bridges, floss \in Daemons, NEW r \in BOOLEAN
    PROVE  Reserved(r) \in Daemons
BY DEF Reserved, Daemons, Bridges

LEMMA NoteType ==
    ASSUME inbox \in Seq(Messages), NEW m \in Messages, Note(m)
    PROVE  inbox' \in Seq(Messages)
BY DEF Note

-----------------------------------------------------------------------------
(* Type correctness.                                                        *)

\* What a step of the bridge itself has to keep.
LEMMA StepType ==
    ASSUME TypeOK, b' \in Bridges, floss' \in Daemons, inbox' \in Seq(Messages), bad' \in BOOLEAN,
           UNCHANGED <<nodes, links>>, UNCHANGED <<term, apps, faults>>
    PROVE  TypeOK'
BY DEF TypeOK, PipeWireOK

LEMMA PlaceNames ==
    {"off", "setup", "find", "reserve", "start", "listen", "open", "confirm", "probe", "publish",
     "run", "stop", "close", "codec", "refused", "undo", "commit", "cleanup", "drop", "backoff"}
        \subseteq Places
BY DEF Places

LEMMA StartTypes == TypeOK /\ StartStep => TypeOK'
<1> SUFFICES ASSUME TypeOK, StartStep PROVE TypeOK'
  OBVIOUS
<1>0. /\ b \in Bridges /\ floss \in Daemons /\ inbox \in Seq(Messages) /\ bad \in BOOLEAN
      /\ Dispatched \in Seq(Messages)
  BY DispatchedType DEF TypeOK
<1>a. StartFailed(b) \in Bridges /\ Started(b) \in Bridges /\ \A g : PollOn(b, g) \in Bridges
  BY <1>0, StartFailedType, StartedType, PollOnType
<1>b. \A place \in Places : /\ Enter(b, place, 0) \in Bridges /\ Enter(b, place, StartT) \in Bridges
                            /\ Enter(b, place, PcmT) \in Bridges
  BY <1>0, EnterType, Timeouts
<1>1. CASE Setup
  <2>1. b' \in Bridges
    BY <1>1, <1>b, PlaceNames DEF Setup
  <2>2. floss' \in Daemons
    BY <1>0, <1>1 DEF Setup, Daemons
  <2> QED BY <1>0, <1>1, <2>1, <2>2, StepType DEF Setup
<1>2. CASE Find
  <2>1. CASE Discovers
    <3>1. Discovered(b) \in Bridges
      BY <1>0, <2>1, DiscoveredType
    <3>2. [Discovered(b) EXCEPT !.hfp = (floss.codecs = {})] \in Bridges
      BY <3>1 DEF Bridges
    <3>3. b' \in Bridges
      BY <1>2, <2>1, <3>2, EnterType, Timeouts, PlaceNames DEF Find
    <3> QED BY <1>0, <1>2, <3>3, StepType DEF Find
  <2>2. CASE ~Discovers
    BY <1>0, <1>2, <1>b, <2>2, PlaceNames, StepType DEF Find
  <2> QED BY <2>1, <2>2
<1>3. CASE ReserveGranted
  <2>1. [b EXCEPT !.sess = TRUE] \in Bridges
    BY <1>0 DEF Bridges
  <2>2. b' \in Bridges
    BY <1>3, <2>1, EnterType, PlaceNames DEF ReserveGranted
  <2>3. floss' \in Daemons
    BY <1>0, <1>3, ReservedType DEF ReserveGranted
  <2> QED BY <1>0, <1>3, <2>2, <2>3, StepType DEF ReserveGranted
<1>4. CASE ReserveRefused
  <2>1. b' \in Bridges /\ inbox' \in Seq(Messages)
    BY <1>0, <1>4, <1>a DEF ReserveRefused
  <2>2. bad' \in BOOLEAN
    BY <1>4 DEF ReserveRefused
  <2> QED BY <1>0, <1>4, <2>1, <2>2, StepType DEF ReserveRefused
<1>5. CASE ReserveFails
  BY <1>0, <1>5, <1>a, StepType DEF ReserveFails
<1>6. CASE RequestStart
  <2>1. b' \in Bridges
    BY <1>6, <1>a, <1>b, PlaceNames DEF RequestStart
  <2>2. floss' \in Daemons
    BY <1>0, <1>6, ZenonT(60) DEF RequestStart, Daemons, Sounds
  <2> QED BY <1>0, <1>6, <2>1, <2>2, StepType DEF RequestStart
<1>7. CASE WaitStartListener
  <2>1. b' \in Bridges
    BY <1>7, <1>a, <1>b, PlaceNames DEF WaitStartListener
  <2> QED BY <1>0, <1>7, <2>1, StepType DEF WaitStartListener
<1>8. CASE OpenPcm
  <2>1. [Enter(b, "confirm", 0) EXCEPT !.fd = "up"] \in Bridges
    BY <1>b, PlaceNames DEF Bridges
  <2>2. b' \in Bridges
    BY <1>8, <1>a, <2>1 DEF OpenPcm
  <2>3. floss' \in Daemons
    BY <1>0, <1>8, ZenonT(60) DEF OpenPcm, Daemons
  <2>4. inbox' \in Seq(Messages)
    BY <1>0, <1>8 DEF OpenPcm
  <2> QED BY <1>0, <1>8, <2>2, <2>3, <2>4, StepType DEF OpenPcm
<1>9. CASE ConfirmPcm
  <2>1. b' \in Bridges
    BY <1>9, <1>a, <1>b, PlaceNames DEF ConfirmPcm
  <2> QED BY <1>0, <1>9, <2>1, StepType DEF ConfirmPcm
<1>10. CASE HfpPcmArrives
  <2>1. StartFailed([b EXCEPT !.nosco = TRUE]) \in Bridges
    <3>1. [b EXCEPT !.nosco = TRUE] \in Bridges
      BY <1>0 DEF Bridges
    <3> QED BY <3>1, StartFailedType
  <2>2. [b EXCEPT !.polled = TRUE] \in Bridges
    BY <1>0 DEF Bridges
  <2>3. b' \in Bridges
    BY <1>10, <1>a, <2>1, <2>2 DEF HfpPcmArrives
  <2>4. inbox' \in Seq(Messages)
    BY <1>0, <1>10 DEF HfpPcmArrives
  <2> QED BY <1>0, <1>10, <2>3, <2>4, StepType DEF HfpPcmArrives
<1> QED BY <1>1, <1>2, <1>3, <1>4, <1>5, <1>6, <1>7, <1>8, <1>9, <1>10 DEF StartStep

LEMMA LoopTypes == TypeOK /\ (Publish \/ BusTick \/ AudioHangup \/ Quit) => TypeOK'
<1> SUFFICES ASSUME TypeOK, Publish \/ BusTick \/ AudioHangup \/ Quit PROVE TypeOK'
  OBVIOUS
<1>0. /\ b \in Bridges /\ floss \in Daemons /\ inbox \in Seq(Messages) /\ bad \in BOOLEAN
      /\ Dispatched \in Seq(Messages)
  BY DispatchedType DEF TypeOK
<1>b. \A place \in Places : Enter(b, place, 0) \in Bridges
  BY <1>0, EnterType
<1>1. CASE Publish
  <2>1. b' \in Bridges
    BY <1>1, <1>b, PlaceNames DEF Publish
  <2>2. PipeWireOK'
    BY <1>1 DEF Publish, TypeOK, PipeWireOK
  <2> QED BY <1>1, <2>1, <2>2 DEF Publish, TypeOK
<1>2. CASE BusTick
  <2> DEFINE w == Watch(b)
             s == IF b.disc = 0 THEN [Discovered(w) EXCEPT !.disc = DiscoverT] ELSE w
  <2>1. CASE Broken \/ (b.disc = 0 /\ SnapshotFails)
    <3>1. b' \in Bridges
      BY <1>2, <1>b, <2>1, PlaceNames DEF BusTick
    <3> QED BY <1>0, <1>2, <3>1, StepType DEF BusTick
  <2>2. CASE ~(Broken \/ (b.disc = 0 /\ SnapshotFails))
    <3>1. w \in Bridges
      BY <1>0, WatchType
    <3>2. s \in Bridges
      <4>1. CASE b.disc = 0
        <5>1. Discovers
          BY <2>2, <4>1 DEF SnapshotFails
        <5>2. Discovered(w) \in Bridges
          BY <1>0, <3>1, <5>1, DiscoveredType
        <5>3. [Discovered(w) EXCEPT !.disc = DiscoverT] \in Bridges
          BY <5>2, Timeouts DEF Bridges
        <5> QED BY <4>1, <5>3
      <4>2. CASE b.disc # 0
        BY <3>1, <4>2
      <4> QED BY <4>1, <4>2
    <3>3. wanted_hfp(w) \in BOOLEAN
      BY DEF wanted_hfp
    <3> HIDE DEF w, s
    <3>4. \/ b' = [s EXCEPT !.polled = TRUE]
          \/ b' = [Enter(s, "stop", 0) EXCEPT !.trans = TRUE, !.then = "codec",
                                              !.goal = wanted_hfp(w)]
      BY <1>2, <2>2 DEF BusTick, w, s
    <3>5. Enter(s, "stop", 0) \in Bridges
      BY <3>2, EnterType, PlaceNames
    <3>6. \A g \in BOOLEAN :
            [Enter(s, "stop", 0) EXCEPT !.trans = TRUE, !.then = "codec", !.goal = g] \in Bridges
      BY <3>5 DEF Bridges
    <3>7. [s EXCEPT !.polled = TRUE] \in Bridges
      BY <3>2 DEF Bridges
    <3>8. b' \in Bridges
      BY <3>3, <3>4, <3>6, <3>7
    <3> QED BY <1>0, <1>2, <3>8, StepType DEF BusTick
  <2> QED BY <2>1, <2>2
<1>3. CASE AudioHangup \/ Quit
  BY <1>0, <1>3, <1>b, PlaceNames, StepType DEF AudioHangup, Quit
<1> QED BY <1>1, <1>2, <1>3

LEMMA TransitionTypes == TypeOK /\ TransitionStep => TypeOK'
<1> SUFFICES ASSUME TypeOK, TransitionStep PROVE TypeOK'
  OBVIOUS
<1>0. /\ b \in Bridges /\ floss \in Daemons /\ inbox \in Seq(Messages) /\ bad \in BOOLEAN
      /\ Dispatched \in Seq(Messages)
  BY DispatchedType DEF TypeOK
<1>b. \A place \in Places : Enter(b, place, 0) \in Bridges /\ Enter(b, place, CallT) \in Bridges
  BY <1>0, EnterType, Timeouts
<1>1. CASE StopSession
  <2>1. [b EXCEPT !.sess = FALSE] \in Bridges
    BY <1>0 DEF Bridges
  <2>2. b' \in Bridges
    BY <1>1, <2>1, EnterType, PlaceNames DEF StopSession
  <2>3. floss' \in Daemons
    BY <1>0, <1>1, SessionTypes DEF StopSession
  <2> QED BY <1>0, <1>1, <2>2, <2>3, StepType DEF StopSession
<1>2. CASE CloseSocket
  <2>0. b.then \in {"drop", "codec", "reserve", "cleanup"}
    BY <1>0 DEF Bridges
  <2>1. Enter(b, b.then, CallT) \in Bridges
    BY <1>b, <2>0, PlaceNames
  <2>2. b' \in Bridges
    BY <1>2, <2>1 DEF CloseSocket, Bridges
  <2>3. bad' \in BOOLEAN
    BY <1>2 DEF CloseSocket
  <2> QED BY <1>0, <1>2, <2>2, <2>3, StepType DEF CloseSocket
<1>3. CASE CodecAgreed
  <2>1. [b EXCEPT !.hfp = b.goal] \in Bridges
    BY <1>0 DEF Bridges
  <2>2. b' \in Bridges
    BY <1>3, <2>1, EnterType, PlaceNames, Timeouts DEF CodecAgreed
  <2> QED BY <1>0, <1>3, <2>2, StepType DEF CodecAgreed
<1>4. CASE CodecRefused
  <2>1. [b EXCEPT !.at = "refused"] \in Bridges
    BY <1>0, PlaceNames DEF Bridges
  <2>2. b' \in Bridges
    BY <1>0, <1>4, <2>1, RestoredType DEF CodecRefused
  <2>3. bad' \in BOOLEAN
    BY <1>0, <1>4 DEF CodecRefused
  <2>4. inbox' = inbox
    BY <1>4 DEF CodecRefused
  <2> QED BY <1>0, <1>4, <2>2, <2>3, <2>4, StepType DEF CodecRefused
<1>5. CASE CodecRetry
  <2>1. [b EXCEPT !.at = "codec", !.polled = TRUE] \in Bridges
    BY <1>0, PlaceNames DEF Bridges
  <2>2. Broken \in BOOLEAN
    BY <1>0 DEF Broken, Bridges
  <2>3. \A f \in BOOLEAN : [b EXCEPT !.failed = f] \in Bridges
    BY <1>0 DEF Bridges
  <2>4. Restored([b EXCEPT !.failed = Broken]) \in Bridges
    BY <2>2, <2>3, RestoredType
  <2>5. b' \in Bridges
    BY <1>5, <2>1, <2>4 DEF CodecRetry
  <2> QED BY <1>0, <1>5, <2>5, StepType DEF CodecRetry
<1>6. CASE Undo
  <2>1. Enter(b, "stop", 0) \in Bridges
    BY <1>b, PlaceNames
  <2>2. "auto" \in Profiles
    BY DEF Profiles
  <2>3. b' \in Bridges
    BY <1>6, <2>1, <2>2, Timeouts, ZenonT(60) DEF Undo, Bridges
  <2> QED BY <1>0, <1>6, <2>3, StepType DEF Undo
<1>7. CASE Commit
  <2>1. PipeWireOK'
    BY <1>7 DEF Commit, TypeOK, PipeWireOK
  <2>2. ASSUME NEW x \in Bridges, NEW d \in BOOLEAN, NEW n \in Nat
        PROVE  [x EXCEPT !.sel = b.req, !.trans = FALSE, !.again = FALSE,
                         !.demand = d, !.idle = n] \in Bridges
    BY <1>0, ZenonT(60) DEF Bridges
  <2> DEFINE lost == ~profile_has_microphone(b, b.req) /\ "src" \in nodes
  <2>3. (b.demand /\ ~lost) \in BOOLEAN /\ (IF lost THEN 0 ELSE b.idle) \in Nat
    BY <1>0 DEF Bridges
  <2>4. Enter(b, IF b.failed THEN "cleanup" ELSE "run", 0) \in Bridges
    BY <1>b, PlaceNames
  <2>5. b' \in Bridges
    BY <1>7, <2>2, <2>3, <2>4 DEF Commit
  <2> QED BY <1>7, <2>1, <2>5 DEF Commit, TypeOK
<1>8. CASE Cleanup
  <2>1. Enter(b, "stop", 0) \in Bridges
    BY <1>b, PlaceNames
  <2>2. b' \in Bridges
    BY <1>8, <2>1 DEF Cleanup, Bridges
  <2>3. PipeWireOK'
    BY <1>8 DEF Cleanup, TypeOK, PipeWireOK
  <2> QED BY <1>8, <2>2, <2>3 DEF Cleanup, TypeOK
<1>9. CASE Drop
  <2>1. b' \in Bridges
    BY <1>9, FreshType, EnterType, PlaceNames, Timeouts DEF Drop
  <2>2. (IF Reachable /\ floss.lease THEN Ended ELSE floss) \in Daemons
    BY <1>0, SessionTypes
  <2>3. floss' \in Daemons
    BY <1>9, <2>2, ZenonT(60) DEF Drop, Daemons
  <2>4. inbox' \in Seq(Messages)
    BY <1>9 DEF Drop
  <2> QED BY <1>0, <1>9, <2>1, <2>3, <2>4, StepType DEF Drop
<1>10. CASE Backoff
  BY <1>0, <1>10, FreshType, StepType DEF Backoff
<1> QED BY <1>1, <1>2, <1>3, <1>4, <1>5, <1>6, <1>7, <1>8, <1>9, <1>10 DEF TransitionStep

\* The environment: PipeWire and its applications, the user, the daemon, time.
LEMMA WorldTypes ==
    TypeOK /\ (Link \/ DaemonAnswers \/ DaemonReleases \/ Tick \/ FaultStep \/ Environment) => TypeOK'
<1> SUFFICES ASSUME TypeOK,
                    Link \/ DaemonAnswers \/ DaemonReleases \/ Tick \/ FaultStep \/ Environment
             PROVE  TypeOK'
  OBVIOUS
<1>0. /\ b \in Bridges /\ floss \in Daemons /\ inbox \in Seq(Messages) /\ bad \in BOOLEAN
      /\ faults \in Nat /\ term \in BOOLEAN /\ PipeWireOK
  BY DEF TypeOK
<1>a. ASSUME b' \in Bridges, floss' \in Daemons, inbox' \in Seq(Messages), faults' \in Nat,
             UNCHANGED <<nodes, links, apps>>, UNCHANGED <<term, bad>>
      PROVE  TypeOK'
  BY <1>0, <1>a DEF TypeOK, PipeWireOK
<1>f. ASSUME NEW kind, Fault(kind) PROVE faults' \in Nat
  BY <1>0, <1>f DEF Fault
<1>s. NoSession(floss) \in Daemons /\ HungUp(b) \in Bridges
  BY <1>0, SessionTypes, HungUpType
<1>m. /\ <<"scoOff", floss.peer>> \in Messages /\ <<"owner", "none">> \in Messages
      /\ \A d \in Devices : <<"gone", d>> \in Messages
  BY <1>0 DEF Messages, Addresses, Daemons
<1>1. CASE Link
  BY <1>0, <1>1 DEF Link, Consumers, TypeOK, PipeWireOK
<1>2. CASE DaemonAnswers
  <2>1. floss' \in Daemons
    BY <1>0, <1>2 DEF DaemonAnswers, Daemons, Sounds
  <2> QED BY <1>0, <1>2, <1>a, <2>1 DEF DaemonAnswers
<1>3. CASE DaemonReleases
  <2>1. floss' \in Daemons
    BY <1>0, <1>3 DEF DaemonReleases, Daemons
  <2>2. inbox' \in Seq(Messages)
    BY <1>0, <1>3, <1>m, NoteType DEF DaemonReleases
  <2> QED BY <1>0, <1>3, <1>a, <2>1, <2>2 DEF DaemonReleases
<1>4. CASE Tick
  <2>1. /\ Dec(b.wait) \in Nat /\ Dec(b.disc) \in Nat /\ Dec(b.idle) \in Nat
        /\ Dec(b.retry) \in Nat /\ Dec(b.rest) \in Nat
        /\ Dec(floss.rel) \in Nat /\ Dec(floss.stall) \in Nat
    <3>1. \A n \in Nat : Dec(n) \in Nat
      BY DEF Dec
    <3>2. /\ b.wait \in Nat /\ b.disc \in Nat /\ b.idle \in Nat /\ b.retry \in Nat
          /\ b.rest \in Nat /\ floss.rel \in Nat /\ floss.stall \in Nat
      BY <1>0 DEF Bridges, Daemons
    <3> QED BY <3>1, <3>2
  <2>2. (floss.tell /\ floss.rel # 1) \in BOOLEAN
    OBVIOUS
  <2>3. b' \in Bridges
    BY <1>0, <1>4, <2>1 DEF Tick, Elapse, Bridges
  <2>4. floss' \in Daemons
    BY <1>0, <1>4, <2>1, <2>2 DEF Tick, Elapse, Daemons
  <2>5. inbox' \in Seq(Messages)
    BY <1>0, <1>4, <1>m, NoteType DEF Tick, Elapse
  <2> QED BY <1>0, <1>4, <1>a, <2>3, <2>4, <2>5 DEF Tick, Elapse
<1>5. ASSUME NEW d \in Devices, DeviceLost(d) PROVE TypeOK'
  <2>1. DeviceGone(d) /\ faults' \in Nat
    BY <1>5, <1>f DEF DeviceLost
  <2>2. b' \in Bridges
    BY <1>0, <1>s, <2>1 DEF DeviceGone
  <2>3. PICK i \in DOMAIN floss.devs :
           floss' = [(IF (floss.lease /\ floss.peer = d) /\ floss.live THEN NoSession(floss) ELSE floss)
                        EXCEPT !.devs = RemoveAt(floss.devs, i)]
    BY <2>1 DEF DeviceGone
  <2>4. RemoveAt(floss.devs, i) \in Seq(Devices)
    BY <1>0 DEF RemoveAt, Daemons
  <2>5. floss' \in Daemons
    BY <1>0, <1>s, <2>3, <2>4 DEF Daemons
  <2>6. inbox' \in Seq(Messages)
    BY <1>0, <1>m, <2>1, NoteType DEF DeviceGone
  <2> QED BY <1>a, <2>1, <2>2, <2>5, <2>6 DEF DeviceGone
<1>6. ASSUME NEW mic \in BOOLEAN, NEW codecs \in SUBSET Codecs, CapabilitiesChange(mic, codecs)
      PROVE  TypeOK'
  <2>1. floss' \in Daemons
    BY <1>0, <1>6 DEF CapabilitiesChange, Daemons
  <2> QED BY <1>0, <1>6, <1>a, <1>f, <2>1 DEF CapabilitiesChange
<1>7. CASE DaemonDies
  <2>1. DaemonGone /\ faults' \in Nat
    BY <1>7, <1>f DEF DaemonDies
  <2>2. floss' \in Daemons
    BY <1>s, <2>1 DEF DaemonGone, Daemons
  <2>3. inbox' \in Seq(Messages)
    BY <1>0, <1>m, <2>1, NoteType DEF DaemonGone
  <2> QED BY <1>a, <1>s, <2>1, <2>2, <2>3 DEF DaemonGone
<1>8. CASE ScoDrops
  <2>1. inbox' \in Seq(Messages)
    BY <1>0, <1>8, <1>m, NoteType DEF ScoDrops
  <2> QED BY <1>8, <1>a, <1>f, <1>s, <2>1 DEF ScoDrops
<1>9. CASE Reconfigured \/ StartLate
  <2>1. floss' \in Daemons
    BY <1>0, <1>9, ZenonT(60) DEF Reconfigured, StartLate, Daemons
  <2> QED BY <1>0, <1>9, <1>a, <1>f, <2>1 DEF Reconfigured, StartLate
<1>10. CASE VoiceSilent \/ VoiceRefused
  <2>1. floss' \in Daemons
    BY <1>0, <1>10, ZenonT(60) DEF VoiceSilent, VoiceRefused, Daemons
  <2>2. faults' \in Nat
    BY <1>0, <1>10, <1>f DEF VoiceSilent, VoiceRefused
  <2> QED BY <1>0, <1>10, <1>a, <2>1, <2>2 DEF VoiceSilent, VoiceRefused
<1>11. CASE StartRefused
  <2>1. floss' \in Daemons
    BY <1>11, <1>s DEF StartRefused, Daemons, Sounds
  <2> QED BY <1>0, <1>11, <1>a, <1>f, <2>1 DEF StartRefused
<1>12. CASE ReserveLost
  <2>1. b' \in Bridges /\ floss' \in Daemons
    BY <1>0, <1>12, StartFailedType, ReservedType DEF ReserveLost
  <2> QED BY <1>0, <1>12, <1>a, <1>f, <2>1 DEF ReserveLost
<1>13. CASE Terminate
  <2>1. faults' \in Nat
    BY <1>13, <1>f DEF Terminate
  <2> QED BY <1>0, <1>13, <2>1 DEF Terminate, TypeOK, PipeWireOK
<1>14. CASE UseMicrophone("record")
  BY <1>0, <1>14 DEF UseMicrophone, TypeOK, PipeWireOK
<1>15. ASSUME NEW p \in Profiles, SelectProfile(p) PROVE TypeOK'
  <2>1. b' \in Bridges
    BY <1>0, <1>15 DEF SelectProfile, Bridges
  <2> QED BY <1>0, <1>15, <1>a, <2>1 DEF SelectProfile
<1>16. ASSUME NEW d \in Devices, DeviceBack(d) PROVE TypeOK'
  <2>1. <<d>> \o floss.devs \in Seq(Devices)
    BY <1>0 DEF Daemons
  <2>2. floss' \in Daemons
    BY <1>0, <1>16, <2>1 DEF DeviceBack, Daemons
  <2> QED BY <1>0, <1>16, <1>a, <2>2 DEF DeviceBack
<1>17. CASE DaemonStarts
  <2>1. floss' \in Daemons
    BY <1>0, <1>17 DEF DaemonStarts, Daemons
  <2> QED BY <1>0, <1>17, <1>a, <2>1 DEF DaemonStarts
<1>18. CASE PublishFails \/ CommitFails
  <2>1. Enter(b, "cleanup", 0) \in Bridges
    BY <1>0, EnterType, PlaceNames
  <2>2. b' \in Bridges
    <3>1. PICK e \in Bridges : e = Enter(b, "cleanup", 0)
      BY <2>1
    <3>2. b' = e \/ b' = [e EXCEPT !.failed = TRUE, !.trans = FALSE]
      BY <1>18, <3>1 DEF PublishFails, CommitFails
    <3>3. [e EXCEPT !.failed = TRUE, !.trans = FALSE] \in Bridges
      BY DEF Bridges
    <3> QED BY <3>2, <3>3
  <2>3. PipeWireOK'
    BY <1>0, <1>18 DEF PublishFails, CommitFails, PipeWireOK
  <2>4. faults' \in Nat
    BY <1>18, <1>f DEF PublishFails, CommitFails
  <2> QED BY <1>0, <1>18, <2>2, <2>3, <2>4 DEF PublishFails, CommitFails, TypeOK
<1> QED BY <1>1, <1>2, <1>3, <1>4, <1>5, <1>6, <1>7, <1>8, <1>9, <1>10, <1>11, <1>12, <1>13,
           <1>14, <1>15, <1>16, <1>17, <1>18 DEF FaultStep, Environment

LEMMA NextType == TypeOK /\ [Next]_vars => TypeOK'
<1> SUFFICES ASSUME TypeOK, [Next]_vars PROVE TypeOK'
  OBVIOUS
<1>1. CASE UNCHANGED vars
  BY <1>1 DEF vars, TypeOK, PipeWireOK
<1> QED BY <1>1, StartTypes, LoopTypes, TransitionTypes, WorldTypes DEF Next, BridgeStep

LEMMA InitType == Init => TypeOK
<1> SUFFICES ASSUME Init PROVE TypeOK
  OBVIOUS
<1>1. PICK d \in Devices, mic \in BOOLEAN, codecs \in SUBSET Codecs : floss = Daemon(<<d>>, mic, codecs)
  BY DEF Init
<1>2. floss \in Daemons
  BY <1>1 DEF Daemon, Daemons, Sounds, Addresses
<1>3. b \in Bridges /\ inbox \in Seq(Messages) /\ faults \in Nat
  BY FreshType, Timeouts DEF Init
<1>4. term \in BOOLEAN /\ bad \in BOOLEAN /\ PipeWireOK
  BY DEF Init, PipeWireOK
<1> QED BY <1>2, <1>3, <1>4 DEF TypeOK

\* The process, the daemon and the inbox between them have the expected types;
\* in particular every message names a headset, and the places and profiles of
\* the bridge are the ones the code has.
THEOREM TypeCorrect == Spec => []TypeOK
BY InitType, NextType, PTL DEF Spec
-----------------------------------------------------------------------------
(* bus_tick.                                                                *)

\* The part of the bridge that watching demand and the periodic snapshot leave
\* alone: the snapshot accepts its own headset only, with the same microphone.
Same(x, y) == /\ y.at = x.at /\ y.then = x.then /\ y.sess = x.sess /\ y.fd = x.fd
              /\ y.hfp = x.hfp /\ y.trans = x.trans /\ y.req = x.req /\ y.sel = x.sel
              /\ y.nosco = x.nosco /\ y.mute = x.mute /\ y.rest = x.rest /\ y.retry = x.retry
              /\ x.addr # "none" => y.addr # "none" /\ y.mic = x.mic

LEMMA WatchSame ==
    ASSUME NEW x \in Bridges
    PROVE  Same(x, Watch(x)) /\ Watch(x).codecs = x.codecs
BY DEF Watch, Same, Bridges

LEMMA Ticked ==
    ASSUME TypeOK, BusTick
    PROVE  \/ b' = Enter(b, "cleanup", 0)
           \/ \E s \in Bridges :
                /\ Same(b, s)
                /\ \/ b' = [s EXCEPT !.polled = TRUE]
                   \/ b' = [Enter(s, "stop", 0) EXCEPT !.trans = TRUE, !.then = "codec",
                                                       !.goal = wanted_hfp(Watch(b))]
<1>0. b \in Bridges /\ floss \in Daemons
  BY DEF TypeOK
<1> DEFINE w == Watch(b)
           s == IF b.disc = 0 THEN [Discovered(w) EXCEPT !.disc = DiscoverT] ELSE w
<1>1. CASE Broken \/ (b.disc = 0 /\ SnapshotFails)
  BY <1>1 DEF BusTick
<1>2. CASE ~(Broken \/ (b.disc = 0 /\ SnapshotFails))
  <2>1. w \in Bridges /\ Same(b, w)
    BY <1>0, WatchType, WatchSame
  <2> HIDE DEF w
  <2>2. s \in Bridges /\ Same(w, s)
    <3>1. CASE b.disc = 0
      <4>1. Discovers
        BY <1>2, <3>1 DEF SnapshotFails
      <4>2. Discovered(w) \in Bridges /\ Discovered(w).addr \in Devices
        BY <1>0, <2>1, <4>1, DiscoveredType
      <4>3. Discovered(w).addr # "none"
        BY <4>2, BridgeAssumption
      <4>4. [Discovered(w) EXCEPT !.disc = DiscoverT] \in Bridges
        BY <4>2, Timeouts DEF Bridges
      <4>5. w.addr # "none" => floss.mic = w.mic
        <5>1. CASE b.addr = "none"
          <6>1. w.addr = b.addr
            BY <1>0 DEF w, Watch, Bridges
          <6> QED BY <5>1, <6>1
        <5>2. CASE b.addr # "none"
          BY <2>1, <4>1, <5>2 DEF Discovers, Same
        <5> QED BY <5>1, <5>2
      <4>6. Same(w, Discovered(w))
        BY <2>1, <4>3, <4>5 DEF Discovered, Same, Bridges
      <4>7. Same(w, [Discovered(w) EXCEPT !.disc = DiscoverT])
        BY <4>2, <4>6 DEF Same, Bridges
      <4> QED BY <3>1, <4>4, <4>7
    <3>2. CASE b.disc # 0
      BY <2>1, <3>2 DEF Same
    <3> QED BY <3>1, <3>2
  <2>3. \/ b' = [s EXCEPT !.polled = TRUE]
        \/ b' = [Enter(s, "stop", 0) EXCEPT !.trans = TRUE, !.then = "codec",
                                            !.goal = wanted_hfp(Watch(b))]
    BY <1>2 DEF BusTick, w
  <2> HIDE DEF s
  <2>4. Same(b, s)
    BY <2>1, <2>2 DEF Same
  <2> QED BY <2>2, <2>3, <2>4
<1> QED BY <1>1, <1>2

-----------------------------------------------------------------------------
(* The lease.                                                               *)

\* What Enter leaves alone, of what the invariants below speak of.
Keeps(x, y) == /\ y.sess = x.sess /\ y.fd = x.fd /\ y.then = x.then /\ y.addr = x.addr
               /\ y.mic = x.mic /\ y.hfp = x.hfp /\ y.goal = x.goal /\ y.trans = x.trans
               /\ y.req = x.req /\ y.sel = x.sel /\ y.nosco = x.nosco

LEMMA EnterKeeps ==
    ASSUME NEW x \in Bridges, NEW place, NEW t
    PROVE  Enter(x, place, t).at = place /\ Keeps(x, Enter(x, place, t))
BY DEF Enter, Keeps, Bridges

\* What a run has learnt from voice starts that failed.
Remembers(x, y) ==
    y.mute = x.mute /\ y.nosco = x.nosco /\ y.rest = x.rest /\ y.retry = x.retry

LEMMA EnterRemembers ==
    ASSUME NEW x \in Bridges, NEW place, NEW t
    PROVE  Remembers(x, Enter(x, place, t))
BY DEF Enter, Remembers, Bridges

LEMMA PolledKeeps ==
    ASSUME NEW x \in Bridges
    PROVE  [x EXCEPT !.polled = TRUE].at = x.at /\ Keeps(x, [x EXCEPT !.polled = TRUE])
BY DEF Keeps, Bridges

LEMMA StartFailedKeeps ==
    ASSUME NEW x \in Bridges
    PROVE  /\ StartFailed(x).at \in {"undo", "cleanup"} /\ Keeps(x, StartFailed(x))
           /\ StartFailed(x).at = "undo" => x.trans
<1> DEFINE y == Blamed(x)
<1>1. y \in Bridges /\ Keeps(x, y)
  BY BlamedType DEF Keeps
<1> HIDE DEF y
<1> DEFINE z == Enter(y, IF x.trans /\ ~x.again THEN "undo" ELSE "cleanup", 0)
<1>2. z.at = (IF x.trans /\ ~x.again THEN "undo" ELSE "cleanup") /\ Keeps(y, z)
  BY <1>1, EnterKeeps
<1>3. StartFailed(x) = z
  BY DEF StartFailed, Blamed, y
<1> HIDE DEF z
<1>4. Keeps(x, z)
  BY <1>1, <1>2 DEF Keeps
<1> QED BY <1>2, <1>3, <1>4

LEMMA PollOnKeeps ==
    ASSUME NEW x \in Bridges, NEW gone
    PROVE  /\ PollOn(x, gone).at \in {x.at, "undo", "cleanup"} /\ Keeps(x, PollOn(x, gone))
           /\ PollOn(x, gone).at # x.at /\ PollOn(x, gone).at = "undo" => x.trans
BY PolledKeeps, StartFailedKeeps DEF PollOn

LEMMA StartedKeeps ==
    ASSUME NEW x \in Bridges
    PROVE  Started(x).at = (IF x.trans THEN "commit" ELSE "publish") /\ Keeps(x, Started(x))
BY EnterKeeps DEF Started

LEMMA RestoredKeeps ==
    ASSUME NEW x \in Bridges
    PROVE  /\ Restored(x).at = "reserve" /\ Restored(x).sess = x.sess /\ Restored(x).fd = x.fd
           /\ Restored(x).addr = x.addr /\ Restored(x).hfp = x.hfp /\ Restored(x).req = x.sel
           /\ Restored(x).trans = x.trans /\ Restored(x).sel = x.sel /\ Restored(x).nosco = x.nosco
<1> DEFINE y == [x EXCEPT !.req = x.sel, !.goal = x.hfp]
<1>1. /\ y \in Bridges /\ y.sess = x.sess /\ y.fd = x.fd /\ y.addr = x.addr /\ y.hfp = x.hfp
      /\ y.req = x.sel /\ y.trans = x.trans /\ y.sel = x.sel /\ y.nosco = x.nosco
  BY DEF Bridges
<1>2. Restored(x) = Enter(y, "reserve", CallT)
  BY DEF Restored
<1> HIDE DEF y
<1> QED BY <1>1, <1>2, EnterKeeps DEF Keeps

LEMMA FreshPlaces ==
    /\ Fresh.at = "setup" /\ Fresh.fd = "no" /\ Fresh.sess = FALSE
    /\ Fresh.trans = FALSE /\ Fresh.req = "auto" /\ Fresh.sel = "auto"
    /\ Off.at = "off" /\ Off.fd = "no" /\ Off.sess = FALSE
    /\ \A t : LET x == Enter(Fresh, "backoff", t)
               IN  /\ x.at = "backoff" /\ x.fd = "no" /\ x.sess = FALSE
                   /\ x.mute = FALSE /\ x.rest = 0 /\ x.retry = 0
    /\ Fresh.mute = FALSE /\ Fresh.rest = 0 /\ Fresh.retry = 0
    /\ Off.mute = FALSE /\ Off.rest = 0 /\ Off.retry = 0
BY DEF Fresh, Off, Enter

\* A failed call to PipeWire leads to the end of the run, and changes nothing else of
\* what the invariants below speak of.
LEMMA FailsKeep ==
    ASSUME b \in Bridges, PublishFails \/ CommitFails
    PROVE  b'.at = "cleanup" /\ b'.sess = b.sess /\ Remembers(b, b')
<1> DEFINE x == Enter(b, "cleanup", 0)
<1>1. x \in Bridges /\ x.at = "cleanup" /\ x.sess = b.sess /\ Remembers(b, x)
  BY EnterType, PlaceNames, EnterKeeps, EnterRemembers DEF Keeps
<1>2. b' \in {x, [x EXCEPT !.failed = TRUE, !.trans = FALSE]}
  BY DEF PublishFails, CommitFails
<1> HIDE DEF x
<1>3. LET y == [x EXCEPT !.failed = TRUE, !.trans = FALSE]
      IN  y.at = x.at /\ y.sess = x.sess /\ Remembers(x, y)
  BY <1>1 DEF Bridges, Remembers
<1> QED BY <1>1, <1>2, <1>3 DEF Remembers

\* Where the bridge has been told of a grant and has not returned it, and where
\* it has nothing of a session.  In between, at "stop", "undo" and "cleanup", it
\* may have either.
Streaming == {"start", "listen", "open", "confirm", "probe", "publish", "run", "commit"}
Idle == {"off", "setup", "find", "reserve", "codec", "refused", "drop", "backoff"}

\* A lease belongs to the registration.  One that the bridge knows of is the one of
\* its session handle until StopAudioSession; one whose grant was lost comes before
\* any socket.
LeaseKept ==
    /\ floss.lease => floss.up /\ floss.reg
    /\ b.at \in Streaming => b.sess /\ (floss.lease => floss.told)
    /\ b.at \in Idle => b.fd = "no" /\ ~b.sess /\ (floss.lease => ~floss.told)
    /\ b.at = "close" => ~b.sess /\ (floss.lease => ~floss.told /\ b.fd = "no")
    /\ b.at \in {"stop", "undo", "cleanup"} /\ floss.lease =>
          IF floss.told THEN b.sess ELSE b.fd = "no"

\* From the withdrawal of the nodes to the next struct bridge.
Leaving == b.at \in {"drop", "backoff", "off"} \/ (b.at \in {"stop", "close"} /\ b.then = "drop")

LeaseSafe == LeaseKept /\ (Leaving => nodes = {}) /\ ~bad

LEMMA StartLease == TypeOK /\ LeaseSafe /\ StartStep => LeaseSafe'
<1> SUFFICES ASSUME TypeOK, LeaseSafe, StartStep PROVE LeaseSafe'
  OBVIOUS
<1>0. b \in Bridges /\ floss \in Daemons
  BY DEF TypeOK
<1>a. /\ StartFailed(b).at \in {"undo", "cleanup"} /\ Keeps(b, StartFailed(b))
      /\ Started(b).at \in {"commit", "publish"} /\ Keeps(b, Started(b))
      /\ \A g : PollOn(b, g).at \in {b.at, "undo", "cleanup"} /\ Keeps(b, PollOn(b, g))
      /\ \A place, t : Enter(b, place, t).at = place /\ Keeps(b, Enter(b, place, t))
  BY <1>0, StartFailedKeeps, StartedKeeps, PollOnKeeps, EnterKeeps
<1>1. CASE Setup
  <2>1. floss.up => floss'.lease = floss.lease /\ floss'.up /\ floss'.reg /\ floss'.told = floss.told
    BY <1>0, <1>1 DEF Setup, Daemons
  <2> QED BY <1>0, <1>1, <1>a, <2>1 DEF Setup, At, LeaseSafe, LeaseKept, Leaving, Keeps, Streaming, Idle
<1>2. CASE Find
  <2>1. CASE Discovers
    <3> DEFINE x == [Discovered(b) EXCEPT !.hfp = (floss.codecs = {})]
    <3>1. Discovered(b) \in Bridges
      BY <1>0, <2>1, DiscoveredType
    <3>2. x \in Bridges
      BY <3>1 DEF Bridges
    <3>3. x.fd = b.fd /\ x.sess = b.sess
      BY <1>0, <3>1 DEF Discovered, Bridges
    <3>4. b'.at = "reserve" /\ Keeps(x, b')
      BY <1>2, <2>1, <3>2, EnterKeeps DEF Find
    <3> HIDE DEF x
    <3> QED BY <1>2, <3>3, <3>4 DEF Find, At, LeaseSafe, LeaseKept, Leaving, Keeps, Streaming, Idle
  <2>2. CASE ~Discovers
    BY <1>2, <1>a, <2>2 DEF Find, At, LeaseSafe, LeaseKept, Leaving, Keeps, Streaming, Idle
  <2> QED BY <2>1, <2>2
<1>3. CASE ReserveGranted
  <2>1. /\ floss'.lease /\ floss'.told /\ floss'.up = floss.up /\ floss'.reg = floss.reg
    BY <1>0, <1>3 DEF ReserveGranted, Reserved, Daemons
  <2> DEFINE x == [b EXCEPT !.sess = TRUE]
  <2>2. x \in Bridges /\ x.sess = TRUE
    BY <1>0 DEF Bridges
  <2>3. b'.at = "start" /\ b'.sess = TRUE
    <3>1. b' = Enter(x, "start", 0)
      BY <1>3 DEF ReserveGranted
    <3> HIDE DEF x
    <3> QED BY <2>2, <3>1, EnterKeeps DEF Keeps
  <2> QED BY <1>3, <2>1, <2>3
          DEF ReserveGranted, Reachable, LeaseSafe, LeaseKept, Leaving, Streaming, Idle
<1>4. CASE ReserveRefused
  <2>1. b'.at \in {"reserve", "undo", "cleanup"} /\ Keeps(b, b')
    BY <1>4, <1>a DEF ReserveRefused, At
  <2> QED BY <1>4, <2>1 DEF ReserveRefused, At, LeaseSafe, LeaseKept, Leaving, Keeps, Streaming, Idle
<1>5. CASE ReserveFails
  BY <1>5, <1>a DEF ReserveFails, At, LeaseSafe, LeaseKept, Leaving, Keeps, Streaming, Idle
<1>6. CASE RequestStart
  <2>1. /\ floss'.lease = floss.lease /\ floss'.told = floss.told
        /\ floss'.up = floss.up /\ floss'.reg = floss.reg
    BY <1>0, <1>6 DEF RequestStart, Daemons
  <2>2. b'.at \in {"listen", "undo", "cleanup"} /\ Keeps(b, b')
    BY <1>6, <1>a DEF RequestStart
  <2> QED BY <1>6, <2>1, <2>2 DEF RequestStart, At, LeaseSafe, LeaseKept, Leaving, Keeps, Streaming, Idle
<1>7. CASE WaitStartListener
  <2>1. b'.at \in {"listen", "open", "undo", "cleanup"} /\ Keeps(b, b')
    BY <1>7, <1>a DEF WaitStartListener, At
  <2> QED BY <1>7, <2>1
          DEF WaitStartListener, At, LeaseSafe, LeaseKept, Leaving, Keeps, Streaming, Idle
<1>8. CASE OpenPcm
  <2>1. /\ floss'.lease = floss.lease /\ floss'.told = floss.told
        /\ floss'.up = floss.up /\ floss'.reg = floss.reg
    BY <1>0, <1>8 DEF OpenPcm, Daemons
  <2>2. b'.at \in {"open", "confirm", "undo", "cleanup"} /\ b'.sess = b.sess
    BY <1>0, <1>8, <1>a, EnterType, PlaceNames DEF OpenPcm, At, Keeps, Bridges
  <2> QED BY <1>8, <2>1, <2>2 DEF OpenPcm, At, LeaseSafe, LeaseKept, Leaving, Streaming, Idle
<1>9. CASE ConfirmPcm
  <2>1. b'.at \in {"probe", "commit", "publish", "undo", "cleanup"} /\ Keeps(b, b')
    BY <1>9, <1>a DEF ConfirmPcm
  <2> QED BY <1>9, <2>1 DEF ConfirmPcm, At, LeaseSafe, LeaseKept, Leaving, Keeps, Streaming, Idle
<1>10. CASE HfpPcmArrives
  <2> DEFINE x == [b EXCEPT !.nosco = TRUE]
  <2>1. x \in Bridges /\ x.sess = b.sess
    BY <1>0 DEF Bridges
  <2>2. StartFailed(x).at \in {"undo", "cleanup"} /\ StartFailed(x).sess = b.sess
    BY <2>1, StartFailedKeeps DEF Keeps
  <2>3. [b EXCEPT !.polled = TRUE].at = b.at /\ [b EXCEPT !.polled = TRUE].sess = b.sess
    BY <1>0, PolledKeeps DEF Keeps
  <2>4. b' \in {Started(b), StartFailed(x), [b EXCEPT !.polled = TRUE]}
    BY <1>10 DEF HfpPcmArrives
  <2> HIDE DEF x
  <2>5. b'.at \in {"probe", "commit", "publish", "undo", "cleanup"} /\ b'.sess = b.sess
    BY <1>10, <1>a, <2>2, <2>3, <2>4 DEF HfpPcmArrives, At, Keeps
  <2> QED BY <1>10, <2>5 DEF HfpPcmArrives, At, LeaseSafe, LeaseKept, Leaving, Streaming, Idle
<1> QED BY <1>1, <1>2, <1>3, <1>4, <1>5, <1>6, <1>7, <1>8, <1>9, <1>10 DEF StartStep

LEMMA LoopLease == TypeOK /\ LeaseSafe /\ (Publish \/ BusTick \/ AudioHangup \/ Quit) => LeaseSafe'
<1> SUFFICES ASSUME TypeOK, LeaseSafe, Publish \/ BusTick \/ AudioHangup \/ Quit PROVE LeaseSafe'
  OBVIOUS
<1>0. b \in Bridges /\ floss \in Daemons
  BY DEF TypeOK
<1>a. \A place, t : Enter(b, place, t).at = place /\ Keeps(b, Enter(b, place, t))
  BY <1>0, EnterKeeps
<1>1. ASSUME b.at \in {"publish", "run"}, b'.at \in {"run", "cleanup"}, b'.sess = b.sess,
             floss' = floss, bad' = bad
      PROVE  LeaseSafe'
  BY <1>1 DEF LeaseSafe, LeaseKept, Leaving, Streaming, Idle
<1>2. CASE Publish
  <2>1. b'.at \in {"run", "cleanup"} /\ b'.sess = b.sess
    BY <1>2, <1>a DEF Publish, Keeps
  <2> QED BY <1>1, <1>2, <2>1 DEF Publish, At
<1>3. CASE AudioHangup \/ Quit
  BY <1>1, <1>3, <1>a DEF AudioHangup, Quit, Keeps
<1>4. CASE BusTick
  <2>1. CASE b' = Enter(b, "cleanup", 0)
    <3>1. b'.at = "cleanup" /\ b'.sess = b.sess
      BY <1>a, <2>1 DEF Keeps
    <3> QED BY <1>1, <1>4, <3>1 DEF BusTick, At
  <2>2. ASSUME NEW s \in Bridges, Same(b, s), b' = [s EXCEPT !.polled = TRUE] PROVE LeaseSafe'
    <3>1. b'.at = "run" /\ b'.sess = b.sess
      BY <1>4, <2>2, PolledKeeps, ZenonT(60) DEF BusTick, At, Same, Keeps
    <3> QED BY <1>1, <1>4, <3>1 DEF BusTick, At
  <2>3. ASSUME NEW s \in Bridges, Same(b, s), NEW g,
               b' = [Enter(s, "stop", 0) EXCEPT !.trans = TRUE, !.then = "codec", !.goal = g]
        PROVE  LeaseSafe'
    <3>1. Enter(s, "stop", 0) \in Bridges
      BY EnterType, PlaceNames
    <3>2. b'.at = "stop" /\ b'.sess = b.sess /\ b'.then = "codec"
      BY <2>3, <3>1, EnterKeeps DEF Same, Keeps, Bridges
    <3> QED BY <1>4, <3>2 DEF BusTick, At, LeaseSafe, LeaseKept, Leaving, Streaming, Idle
  <2> QED BY <1>4, <2>1, <2>2, <2>3, Ticked
<1> QED BY <1>2, <1>3, <1>4

LEMMA TransitionLease == TypeOK /\ LeaseSafe /\ TransitionStep => LeaseSafe'
<1> SUFFICES ASSUME TypeOK, LeaseSafe, TransitionStep PROVE LeaseSafe'
  OBVIOUS
<1>0. b \in Bridges /\ floss \in Daemons
  BY DEF TypeOK
<1>a. \A place, t : Enter(b, place, t).at = place /\ Keeps(b, Enter(b, place, t))
  BY <1>0, EnterKeeps
<1>b. \A place \in Places : Enter(b, place, 0) \in Bridges /\ Enter(b, place, CallT) \in Bridges
  BY <1>0, EnterType, Timeouts
<1>c. Ended.lease = FALSE
  BY <1>0 DEF Ended, Daemons
<1>1. CASE StopSession
  <2> DEFINE x == [b EXCEPT !.sess = FALSE]
  <2>1. x \in Bridges /\ x.sess = FALSE /\ x.then = b.then /\ x.fd = b.fd
    BY <1>0 DEF Bridges
  <2>2. b' = Enter(x, "close", 0)
    BY <1>1 DEF StopSession
  <2> HIDE DEF x
  <2>3. b'.at = "close" /\ b'.sess = FALSE /\ b'.then = b.then /\ b'.fd = b.fd
    BY <2>1, <2>2, EnterKeeps DEF Keeps
  <2>4. \/ floss'.lease = FALSE
        \/ floss' = floss /\ ~(b.sess /\ floss.up /\ floss.reg /\ floss.lease)
    BY <1>1, <1>c DEF StopSession, Reachable
  <2> QED BY <1>1, <2>3, <2>4 DEF StopSession, At, LeaseSafe, LeaseKept, Leaving, Streaming, Idle
<1>2. CASE CloseSocket
  <2>1. Enter(b, b.then, CallT) \in Bridges
    BY <1>0, <1>b, PlaceNames DEF Bridges
  <2>2. b'.at = b.then /\ b'.sess = b.sess /\ b'.fd = "no"
    BY <1>2, <1>a, <2>1 DEF CloseSocket, Keeps, Bridges
  <2>3. b.then \in {"drop", "codec", "reserve", "cleanup"}
    BY <1>0 DEF Bridges
  <2>4. ~bad'
    BY <1>2 DEF CloseSocket, At, LeaseSafe, LeaseKept
  <2> QED BY <1>2, <2>2, <2>3, <2>4 DEF CloseSocket, At, LeaseSafe, LeaseKept, Leaving, Streaming, Idle
<1>3. ASSUME b.at \in {"codec", "refused"}, b'.at \in {"codec", "refused", "reserve"},
             b'.sess = b.sess, b'.fd = b.fd, floss' = floss, nodes' = nodes, ~bad'
      PROVE  LeaseSafe'
  BY <1>3 DEF LeaseSafe, LeaseKept, Leaving, Streaming, Idle
<1>r. ASSUME NEW x \in Bridges
      PROVE  Restored(x).at = "reserve" /\ Restored(x).sess = x.sess /\ Restored(x).fd = x.fd
  BY RestoredKeeps
<1>4. CASE CodecAgreed
  <2> DEFINE x == [b EXCEPT !.hfp = b.goal]
  <2>1. x \in Bridges /\ x.sess = b.sess /\ x.fd = b.fd
    BY <1>0 DEF Bridges
  <2>2. b' = Enter(x, "reserve", CallT)
    BY <1>4 DEF CodecAgreed
  <2> HIDE DEF x
  <2>3. b'.at = "reserve" /\ b'.sess = b.sess /\ b'.fd = b.fd
    BY <2>1, <2>2, EnterKeeps DEF Keeps
  <2> QED BY <1>3, <1>4, <2>3 DEF CodecAgreed, At, LeaseSafe
<1>5. CASE CodecRefused
  <2>1. [b EXCEPT !.at = "refused"].at = "refused" /\ Keeps(b, [b EXCEPT !.at = "refused"])
    BY <1>0 DEF Keeps, Bridges
  <2>2. b'.at \in {"refused", "reserve"} /\ b'.sess = b.sess /\ b'.fd = b.fd
    BY <1>0, <1>5, <1>r, <2>1 DEF CodecRefused, Keeps
  <2>3. ~bad'
    BY <1>5 DEF CodecRefused, At, LeaseSafe, LeaseKept, Idle
  <2>4. b.at = "codec" /\ floss' = floss /\ nodes' = nodes
    BY <1>5 DEF CodecRefused, At
  <2> QED BY <1>3, <2>2, <2>3, <2>4
<1>6. CASE CodecRetry
  <2> DEFINE x == [b EXCEPT !.failed = Broken]
  <2>0. Broken \in BOOLEAN
    BY <1>0 DEF Broken, Bridges
  <2>1. x \in Bridges /\ x.sess = b.sess /\ x.fd = b.fd
    BY <1>0, <2>0 DEF Bridges
  <2>2. [b EXCEPT !.at = "codec", !.polled = TRUE].at = "codec"
        /\ Keeps(b, [b EXCEPT !.at = "codec", !.polled = TRUE])
    BY <1>0 DEF Keeps, Bridges
  <2>3. b' \in {Restored(x), [b EXCEPT !.at = "codec", !.polled = TRUE]}
    BY <1>6 DEF CodecRetry
  <2> HIDE DEF x
  <2>4. b'.at \in {"codec", "reserve"} /\ b'.sess = b.sess /\ b'.fd = b.fd
    BY <1>r, <2>1, <2>2, <2>3 DEF Keeps
  <2> QED BY <1>3, <1>6, <2>4 DEF CodecRetry, LeaseSafe
<1>7. CASE Undo
  <2>1. Enter(b, "stop", 0) \in Bridges
    BY <1>b, PlaceNames
  <2>2. /\ b'.at = "stop" /\ b'.sess = b.sess /\ b'.fd = b.fd
        /\ b'.then \in {"reserve", "cleanup"}
    BY <1>7, <1>a, <2>1 DEF Undo, Keeps, Bridges
  <2> QED BY <1>7, <2>2 DEF Undo, At, LeaseSafe, LeaseKept, Leaving, Streaming, Idle
<1>8. CASE Commit
  <2>1. Enter(b, IF b.failed THEN "cleanup" ELSE "run", 0) \in Bridges
    BY <1>b, PlaceNames
  <2>2. b'.at \in {"cleanup", "run"} /\ b'.sess = b.sess
    BY <1>8, <1>a, <2>1 DEF Commit, Keeps, Bridges
  <2> QED BY <1>8, <2>2 DEF Commit, At, LeaseSafe, LeaseKept, Leaving, Streaming, Idle
<1>9. CASE Cleanup
  <2>1. Enter(b, "stop", 0) \in Bridges
    BY <1>b, PlaceNames
  <2>2. b'.at = "stop" /\ b'.sess = b.sess /\ b'.fd = b.fd
    BY <1>9, <1>a, <2>1 DEF Cleanup, Keeps, Bridges
  <2> QED BY <1>9, <2>2 DEF Cleanup, At, LeaseSafe, LeaseKept, Leaving, Streaming, Idle
<1>10. CASE Drop
  <2>1. b'.at \in {"off", "backoff"} /\ b'.fd = "no" /\ b'.sess = FALSE
    BY <1>10, FreshPlaces DEF Drop
  <2>2. (IF Reachable /\ floss.lease THEN Ended ELSE floss) \in Daemons
    BY <1>0, SessionTypes
  <2>3. floss'.lease = (IF Reachable /\ floss.lease THEN Ended ELSE floss).lease
    BY <1>10, <2>2 DEF Drop, Daemons
  <2>4. floss'.lease = FALSE
    BY <1>0, <1>c, <2>3 DEF Reachable, LeaseSafe, LeaseKept, Daemons
  <2> QED BY <1>10, <2>1, <2>4 DEF Drop, At, LeaseSafe, LeaseKept, Leaving, Streaming, Idle
<1>11. CASE Backoff
  <2>1. b'.at \in {"off", "setup"} /\ b'.fd = "no" /\ b'.sess = FALSE
    BY <1>11, FreshPlaces DEF Backoff
  <2> QED BY <1>11, <2>1 DEF Backoff, LeaseSafe, LeaseKept, Leaving, Streaming, Idle
<1> QED BY <1>1, <1>2, <1>4, <1>5, <1>6, <1>7, <1>8, <1>9, <1>10, <1>11 DEF TransitionStep

\* A step of the environment that leaves the place of the bridge alone keeps the
\* lease, or ends it, and may take the other end of the socket away.
LEMMA WorldLease ==
    /\ TypeOK /\ LeaseSafe
    /\ Link \/ DaemonAnswers \/ DaemonReleases \/ Tick \/ FaultStep \/ Environment
    => LeaseSafe'
<1> SUFFICES ASSUME TypeOK, LeaseSafe,
                    Link \/ DaemonAnswers \/ DaemonReleases \/ Tick \/ FaultStep \/ Environment
             PROVE  LeaseSafe'
  OBVIOUS
<1>0. b \in Bridges /\ floss \in Daemons
  BY DEF TypeOK
<1>a. ASSUME b'.at = b.at, b'.then = b.then, b'.sess = b.sess, b.fd = "no" => b'.fd = "no",
             \/ floss'.lease = FALSE
             \/ /\ floss'.lease = floss.lease /\ floss'.told = floss.told
                /\ (floss.up => floss'.up) /\ floss'.reg = floss.reg,
             UNCHANGED <<nodes, bad>>
      PROVE  LeaseSafe'
  BY <1>a DEF LeaseSafe, LeaseKept, Leaving, Streaming, Idle
<1>b. ASSUME UNCHANGED <<b, nodes, bad>>,
             \/ floss'.lease = FALSE
             \/ /\ floss'.lease = floss.lease /\ floss'.told = floss.told
                /\ (floss.up => floss'.up) /\ floss'.reg = floss.reg
      PROVE  LeaseSafe'
  BY <1>a, <1>b
<1>h. /\ HungUp(b).at = b.at /\ HungUp(b).then = b.then /\ HungUp(b).sess = b.sess
      /\ b.fd = "no" => HungUp(b).fd = "no"
  BY <1>0 DEF HungUp, Bridges
<1>s. NoSession(floss) \in Daemons /\ NoSession(floss).lease = FALSE
  BY <1>0, SessionTypes DEF NoSession, Daemons
<1>1. CASE Link \/ UseMicrophone("record") \/ Terminate
  BY <1>1, <1>b DEF Link, UseMicrophone, Terminate
<1>2. CASE DaemonAnswers \/ DaemonReleases \/ Reconfigured \/ VoiceRefused \/ VoiceSilent \/ StartLate
  <2>1. /\ floss'.lease = floss.lease /\ floss'.told = floss.told
        /\ floss'.up = floss.up /\ floss'.reg = floss.reg
    BY <1>0, <1>2
       DEF DaemonAnswers, DaemonReleases, Reconfigured, VoiceRefused, VoiceSilent, StartLate, Daemons
  <2> QED BY <1>2, <1>b, <2>1
          DEF DaemonAnswers, DaemonReleases, Reconfigured, VoiceRefused, VoiceSilent, StartLate
<1>3. CASE Tick
  <2>1. /\ b'.at = b.at /\ b'.then = b.then /\ b'.sess = b.sess /\ b'.fd = b.fd
        /\ floss'.lease = floss.lease /\ floss'.told = floss.told
        /\ floss'.up = floss.up /\ floss'.reg = floss.reg
    BY <1>0, <1>3 DEF Tick, Elapse, Bridges, Daemons
  <2> QED BY <1>3, <1>a, <2>1 DEF Tick, Elapse
<1>4. ASSUME NEW d \in Devices, DeviceLost(d) PROVE LeaseSafe'
  <2>1. DeviceGone(d)
    BY <1>4 DEF DeviceLost
  <2>2. b' \in {b, HungUp(b)} /\ UNCHANGED <<nodes, bad>>
    BY <2>1 DEF DeviceGone
  <2>3. PICK i \in DOMAIN floss.devs :
           floss' = [(IF (floss.lease /\ floss.peer = d) /\ floss.live THEN NoSession(floss) ELSE floss)
                        EXCEPT !.devs = RemoveAt(floss.devs, i)]
    BY <2>1 DEF DeviceGone
  <2>4. \/ floss'.lease = FALSE
        \/ /\ floss'.lease = floss.lease /\ floss'.told = floss.told
           /\ floss'.up = floss.up /\ floss'.reg = floss.reg
    BY <1>0, <1>s, <2>3 DEF Daemons
  <2> QED BY <1>a, <1>h, <2>2, <2>4
<1>5. ASSUME NEW mic \in BOOLEAN, NEW codecs \in SUBSET Codecs, CapabilitiesChange(mic, codecs)
      PROVE  LeaseSafe'
  <2>1. /\ floss'.lease = floss.lease /\ floss'.told = floss.told
        /\ floss'.up = floss.up /\ floss'.reg = floss.reg
    BY <1>0, <1>5 DEF CapabilitiesChange, Daemons
  <2> QED BY <1>5, <1>b, <2>1 DEF CapabilitiesChange
<1>6. CASE DaemonDies
  <2>1. floss'.lease = FALSE
    BY <1>6, <1>s DEF DaemonDies, DaemonGone, Daemons
  <2> QED BY <1>6, <1>a, <1>h, <2>1 DEF DaemonDies, DaemonGone
<1>7. CASE ScoDrops
  BY <1>7, <1>a, <1>h, <1>s DEF ScoDrops
<1>8. CASE StartRefused
  <2>1. floss'.lease = FALSE
    BY <1>8, <1>s DEF StartRefused, Daemons
  <2> QED BY <1>8, <1>b, <2>1 DEF StartRefused
<1>9. CASE ReserveLost
  <2>1. /\ floss'.lease = TRUE /\ floss'.told = FALSE
        /\ floss'.up = floss.up /\ floss'.reg = floss.reg
    BY <1>0, <1>9 DEF ReserveLost, Reserved, Daemons
  <2>2. b'.at \in {"undo", "cleanup"} /\ b'.fd = b.fd
    BY <1>0, <1>9, StartFailedKeeps DEF ReserveLost, Keeps
  <2> QED BY <1>9, <2>1, <2>2
          DEF ReserveLost, At, Reachable, LeaseSafe, LeaseKept, Leaving, Streaming, Idle
<1>10. ASSUME NEW p \in Profiles, SelectProfile(p) PROVE LeaseSafe'
  <2>1. b'.at = b.at /\ b'.then = b.then /\ b'.sess = b.sess /\ b'.fd = b.fd
    BY <1>0, <1>10 DEF SelectProfile, Bridges
  <2> QED BY <1>10, <1>a, <2>1 DEF SelectProfile
<1>11. ASSUME NEW d \in Devices, DeviceBack(d) PROVE LeaseSafe'
  <2>1. /\ floss'.lease = floss.lease /\ floss'.told = floss.told
        /\ floss'.up = floss.up /\ floss'.reg = floss.reg
    BY <1>0, <1>11 DEF DeviceBack, Daemons
  <2> QED BY <1>11, <1>b, <2>1 DEF DeviceBack
<1>12. CASE DaemonStarts
  <2>1. /\ floss'.lease = floss.lease /\ floss'.told = floss.told
        /\ floss'.up /\ floss'.reg = floss.reg
    BY <1>0, <1>12 DEF DaemonStarts, Daemons
  <2> QED BY <1>12, <1>b, <2>1 DEF DaemonStarts
<1>13. CASE PublishFails \/ CommitFails
  <2>2. b'.at = "cleanup" /\ b'.sess = b.sess
    BY <1>0, <1>13, FailsKeep
  <2> QED BY <1>13, <2>2
          DEF PublishFails, CommitFails, At, LeaseSafe, LeaseKept, Leaving, Streaming, Idle
<1> QED BY <1>1, <1>2, <1>3, <1>4, <1>5, <1>6, <1>7, <1>8, <1>9, <1>10, <1>11, <1>12, <1>13
        DEF FaultStep, Environment

LEMMA NextLease == TypeOK /\ LeaseSafe /\ [Next]_vars => LeaseSafe'
<1> SUFFICES ASSUME TypeOK, LeaseSafe, [Next]_vars PROVE LeaseSafe'
  OBVIOUS
<1>1. CASE UNCHANGED vars
  BY <1>1 DEF vars, LeaseSafe, LeaseKept, Leaving
<1> QED BY <1>1, StartLease, LoopLease, TransitionLease, WorldLease DEF Next, BridgeStep

LEMMA InitLease == Init => LeaseSafe
<1> SUFFICES ASSUME Init PROVE LeaseSafe
  OBVIOUS
<1>1. floss.lease = FALSE
  BY DEF Init, Daemon
<1>2. b.at = "setup" /\ b.fd = "no" /\ b.sess = FALSE
  BY FreshPlaces DEF Init
<1> QED BY <1>1, <1>2 DEF Init, LeaseSafe, LeaseKept, Leaving, Streaming, Idle

\* Whichever way a run of run_bridge ends, and at whatever step of a start or of a
\* transition, the bridge keeps the lease protocol of the daemon: it neither
\* reserves nor asks for a codec while it holds a lease it knows of, it returns the
\* lease before it closes the PCM socket, and it leaves the bus without nodes,
\* without a socket and without a lease that it had been told of.
THEOREM LeaseReturned == Spec => []NothingLeaks
<1>1. TypeOK /\ LeaseSafe => NothingLeaks
  BY DEF LeaseSafe, LeaseKept, Leaving, Idle, NothingLeaks
<1>2. TypeOK /\ LeaseSafe /\ [Next]_vars => TypeOK' /\ LeaseSafe'
  BY NextType, NextLease
<1> QED BY InitType, InitLease, <1>1, <1>2, PTL DEF Spec

-----------------------------------------------------------------------------
(* The profile on the card.                                                 *)

\* A profile and the transport in use, or the one a transition is bound for; and
\* the voice profile, which a transport that proved silent takes off the card.
Fits(p, hfp) == /\ p = "hfp" => hfp
                /\ p \in Codecs => ~hfp
Silent(p) == b.nosco => p # "hfp"

Starting == {"reserve", "start", "listen", "open", "confirm", "probe"}
Bound(to) == b.at \in {"stop", "close"} /\ b.then = to

\* The transition has ended the old session and may still be refused its codec.
Changing == b.at \in {"codec", "refused"} \/ Bound("codec")

\* The new session, or the first one, is being started.
Beginning == b.at \in Starting \cup {"publish", "commit"} \/ Bound("reserve")

\* Once a headset has been found it keeps its address.
Named == b.at \in {"run", "undo"} \/ Changing \/ Beginning => b.addr # "none"

\* Transitions begin in the main loop, and no profile is selected before it runs.
Phases ==
    /\ b.at \in {"setup", "find", "publish", "run"} => ~b.trans
    /\ b.at \in {"undo", "commit"} \/ Changing \/ Bound("reserve") => b.trans
    /\ b.at \in {"setup", "find", "publish"} \/ (b.at \in Starting /\ ~b.trans) =>
          b.req = "auto" /\ b.sel = "auto"

\* While the codec may be refused, both profiles fit: the new one the transport the
\* transition is bound for, the old one the transport it comes from.
Profile ==
    /\ b.at = "run" \/ Changing => Fits(b.sel, b.hfp) /\ Silent(b.sel) /\ Silent(b.req)
    /\ Changing => Fits(b.req, b.goal)
    /\ Beginning => Fits(b.req, b.hfp) /\ Silent(b.req)
    /\ b.at = "run" => ("src" \in nodes <=> profile_has_microphone(b, b.sel))

Card == Named /\ Phases /\ Profile

\* What a start carries along.
Carries(x, y) == /\ y.addr = x.addr /\ y.hfp = x.hfp /\ y.trans = x.trans
                 /\ y.req = x.req /\ y.sel = x.sel /\ y.nosco = x.nosco

\* A run that is over, or about to be, has promised nothing.
LEMMA OverCard ==
    ASSUME \/ b'.at \in {"cleanup", "drop", "backoff", "off"}
           \/ b'.at \in {"stop", "close"} /\ b'.then \in {"drop", "cleanup"}
    PROVE  Card'
BY DEF Card, Named, Phases, Profile, Changing, Beginning, Starting, Bound

\* One step of a start, on to the next or to its undoing.
LEMMA OnwardCard ==
    ASSUME Card, Carries(b, b'), b.at \in Starting,
           b'.at \in Starting \cup {"undo", "commit", "publish", "cleanup"},
           b'.at \in {"undo", "commit"} => b.trans, b'.at = "publish" => ~b.trans
    PROVE  Card'
<1>1. CASE b'.at \in Starting
  BY <1>1 DEF Card, Named, Phases, Profile, Changing, Beginning, Starting, Bound, Carries, Fits, Silent
<1>2. CASE b'.at = "undo"
  BY <1>2 DEF Card, Named, Phases, Profile, Changing, Beginning, Starting, Bound, Carries
<1>3. CASE b'.at \in {"commit", "publish"}
  BY <1>3 DEF Card, Named, Phases, Profile, Changing, Beginning, Starting, Bound, Carries, Fits, Silent
<1> QED BY <1>1, <1>2, <1>3, OverCard

LEMMA StartCard == TypeOK /\ Card /\ StartStep => Card'
<1> SUFFICES ASSUME TypeOK, Card, StartStep PROVE Card'
  OBVIOUS
<1>0. b \in Bridges /\ floss \in Daemons
  BY DEF TypeOK
<1>k. \A x, y : Keeps(x, y) => Carries(x, y)
  BY DEF Keeps, Carries
<1>a. /\ StartFailed(b).at \in {"undo", "cleanup"} /\ Carries(b, StartFailed(b))
      /\ StartFailed(b).at = "undo" => b.trans
      /\ Started(b).at = (IF b.trans THEN "commit" ELSE "publish") /\ Carries(b, Started(b))
      /\ \A g : /\ PollOn(b, g).at \in {b.at, "undo", "cleanup"} /\ Carries(b, PollOn(b, g))
                /\ PollOn(b, g).at # b.at /\ PollOn(b, g).at = "undo" => b.trans
      /\ \A place, t : Enter(b, place, t).at = place /\ Carries(b, Enter(b, place, t))
  BY <1>0, <1>k, StartFailedKeeps, StartedKeeps, PollOnKeeps, EnterKeeps
<1>1. CASE Setup
  <2>1. b'.at \in {"find", "cleanup"} /\ Carries(b, b')
    BY <1>1, <1>a DEF Setup
  <2> QED BY <1>1, <2>1, OverCard
          DEF Setup, At, Card, Named, Phases, Profile, Changing, Beginning, Starting, Bound, Carries
<1>2. CASE Find
  <2>1. CASE Discovers
    <3> DEFINE x == [Discovered(b) EXCEPT !.hfp = (floss.codecs = {})]
    <3>1. Discovered(b) \in Bridges /\ Discovered(b).addr \in Devices
      BY <1>0, <2>1, DiscoveredType
    <3>2. x \in Bridges /\ x.addr \in Devices
      BY <3>1 DEF Bridges
    <3>3. x.req = b.req /\ x.sel = b.sel /\ x.trans = b.trans
      BY <1>0, <3>1 DEF Discovered, Bridges
    <3>4. b'.at = "reserve" /\ Carries(x, b')
      BY <1>2, <1>k, <2>1, <3>2, EnterKeeps DEF Find
    <3>5. "auto" \notin Codecs /\ b'.addr # "none"
      BY <3>2, <3>4, BridgeAssumption DEF Carries
    <3> HIDE DEF x
    <3>6. b'.req = "auto" /\ b'.sel = "auto" /\ ~b'.trans
      BY <1>2, <3>3, <3>4 DEF Find, At, Card, Phases, Carries
    <3> QED BY <3>4, <3>5, <3>6
            DEF Card, Named, Phases, Profile, Changing, Beginning, Starting, Bound, Fits, Silent
  <2>2. CASE ~Discovers
    BY <1>2, <1>a, <2>2, OverCard DEF Find
  <2> QED BY <2>1, <2>2
<1>3. CASE ReserveGranted
  <2> DEFINE x == [b EXCEPT !.sess = TRUE]
  <2>1. x \in Bridges /\ Carries(b, x)
    BY <1>0 DEF Bridges, Carries
  <2>2. b' = Enter(x, "start", 0)
    BY <1>3 DEF ReserveGranted
  <2> HIDE DEF x
  <2>3. b'.at = "start" /\ Carries(x, b')
    BY <1>k, <2>1, <2>2, EnterKeeps
  <2>4. Carries(b, b')
    BY <2>1, <2>3 DEF Carries
  <2> QED BY <1>3, <2>3, <2>4, OnwardCard DEF ReserveGranted, At, Starting
<1>4. CASE ReserveRefused
  <2>1. /\ b'.at \in {"reserve", "undo", "cleanup"} /\ Carries(b, b') /\ b.at = "reserve"
        /\ b'.at = "undo" => b.trans
    BY <1>4, <1>a DEF ReserveRefused, At
  <2> QED BY <2>1, OnwardCard DEF Starting
<1>5. CASE ReserveFails
  BY <1>5, <1>a, OnwardCard DEF ReserveFails, At, Starting
<1>6. CASE RequestStart
  <2>1. /\ b'.at \in {"listen", "undo", "cleanup"} /\ Carries(b, b') /\ b.at = "start"
        /\ b'.at = "undo" => b.trans
    BY <1>6, <1>a DEF RequestStart, At
  <2> QED BY <2>1, OnwardCard DEF Starting
<1>7. CASE WaitStartListener
  <2>1. /\ b'.at \in {"listen", "open", "undo", "cleanup"} /\ Carries(b, b') /\ b.at = "listen"
        /\ b'.at = "undo" => b.trans
    BY <1>7, <1>a DEF WaitStartListener, At
  <2> QED BY <2>1, OnwardCard DEF Starting
<1>8. CASE OpenPcm
  <2>1. b.at = "open"
    BY <1>8 DEF OpenPcm, At
  <2>2. CASE \E g : b' = PollOn(b, g)
    <3>1. /\ b'.at \in {"open", "undo", "cleanup"} /\ Carries(b, b')
          /\ b'.at = "undo" => b.trans
      BY <1>a, <2>1, <2>2
    <3> QED BY <2>1, <3>1, OnwardCard DEF Starting
  <2>3. CASE b' = [Enter(b, "confirm", 0) EXCEPT !.fd = "up"]
    <3>1. Enter(b, "confirm", 0) \in Bridges
      BY <1>0, EnterType, PlaceNames
    <3>2. b'.at = "confirm" /\ Carries(b, b')
      BY <1>a, <2>3, <3>1 DEF Carries, Bridges
    <3> QED BY <2>1, <3>2, OnwardCard DEF Starting
  <2> QED BY <1>8, <2>2, <2>3 DEF OpenPcm
<1>9. CASE ConfirmPcm
  <2>1. /\ b'.at \in {"probe", "commit", "publish", "undo", "cleanup"} /\ Carries(b, b')
        /\ b.at = "confirm"
        /\ b'.at \in {"undo", "commit"} => b.trans
    BY <1>9, <1>a DEF ConfirmPcm, At
  <2>2. b'.at = "publish" => ~b.trans
    BY <1>9, <1>a DEF ConfirmPcm
  <2> QED BY <2>1, <2>2, OnwardCard DEF Starting
<1>10. CASE HfpPcmArrives
  <2>0. b.at = "probe"
    BY <1>10 DEF HfpPcmArrives, At
  <2> DEFINE x == [b EXCEPT !.nosco = TRUE]
  <2>1. x \in Bridges /\ x.addr = b.addr /\ x.trans = b.trans
    BY <1>0 DEF Bridges
  <2>2. b' \in {Started(b), StartFailed(x), [b EXCEPT !.polled = TRUE]}
    BY <1>10 DEF HfpPcmArrives
  <2> HIDE DEF x
  <2>3. CASE b' = Started(b)
    BY <1>a, <2>0, <2>3, OnwardCard DEF Starting
  <2>4. CASE b' = [b EXCEPT !.polled = TRUE]
    <3>1. b'.at = "probe" /\ Carries(b, b')
      BY <1>0, <1>k, <2>0, <2>4, PolledKeeps
    <3> QED BY <2>0, <3>1, OnwardCard DEF Starting
  <2>5. CASE b' = StartFailed(x)
    <3>1. /\ b'.at \in {"undo", "cleanup"} /\ b'.addr = b.addr /\ b'.trans = b.trans
          /\ b'.at = "undo" => b.trans
      BY <2>1, <2>5, StartFailedKeeps DEF Keeps
    <3>2. CASE b'.at = "undo"
      BY <2>0, <3>1, <3>2 DEF Card, Named, Phases, Profile, Changing, Beginning, Starting, Bound
    <3> QED BY <3>1, <3>2, OverCard
  <2> QED BY <2>2, <2>3, <2>4, <2>5
<1> QED BY <1>1, <1>2, <1>3, <1>4, <1>5, <1>6, <1>7, <1>8, <1>9, <1>10 DEF StartStep

\* The transport automatic_tick decides for fits the requested profile: a voice
\* request is never pending for a transport that proved silent.
LEMMA WantedFits ==
    ASSUME b \in Bridges, Silent(b.req)
    PROVE  Fits(b.req, wanted_hfp(Watch(b)))
<1>1. Watch(b).req = b.req /\ Watch(b).nosco = b.nosco
  BY WatchSame DEF Same
<1>2. "auto" \notin Codecs /\ "hfp" \notin Codecs
  BY BridgeAssumption
<1> QED BY <1>1, <1>2 DEF Fits, Silent, wanted_hfp

LEMMA LoopCard == TypeOK /\ Card /\ (Publish \/ BusTick \/ AudioHangup \/ Quit) => Card'
<1> SUFFICES ASSUME TypeOK, Card, Publish \/ BusTick \/ AudioHangup \/ Quit PROVE Card'
  OBVIOUS
<1>0. b \in Bridges
  BY DEF TypeOK
<1>a. \A place, t : Enter(b, place, t).at = place /\ Keeps(b, Enter(b, place, t))
  BY <1>0, EnterKeeps
<1>1. CASE Publish
  <2>1. CASE term
    BY <1>1, <1>a, <2>1, OverCard DEF Publish
  <2>2. CASE ~term
    <3>1. b'.at = "run" /\ Keeps(b, b')
      BY <1>1, <1>a, <2>2 DEF Publish
    <3>2. "src" \in nodes' <=> profile_has_microphone(b, b.req)
      BY <1>1, <2>2 DEF Publish
    <3>3. profile_has_microphone(b, b.req) <=> profile_has_microphone(b, b.sel)'
      BY <1>1, <3>1 DEF Publish, At, Card, Phases, profile_has_microphone, Keeps
    <3> QED BY <1>1, <3>1, <3>2, <3>3
            DEF Publish, At, Card, Named, Phases, Profile, Changing, Beginning, Starting, Bound,
                Keeps, Fits, Silent
  <2> QED BY <2>1, <2>2
<1>2. CASE AudioHangup \/ Quit
  BY <1>2, <1>a, OverCard DEF AudioHangup, Quit
<1>3. CASE BusTick
  <2>0. b.at = "run" /\ nodes' = nodes
    BY <1>3 DEF BusTick, At
  <2>1. CASE b' = Enter(b, "cleanup", 0)
    BY <1>a, <2>1, OverCard
  <2>2. ASSUME NEW s \in Bridges, Same(b, s), b' = [s EXCEPT !.polled = TRUE] PROVE Card'
    <3>1. b'.at = "run" /\ Keeps(s, b')
      BY <2>0, <2>2, PolledKeeps DEF Same
    <3>2. b.addr # "none"
      BY <2>0 DEF Card, Named
    <3>3. profile_has_microphone(b, b.sel) <=> profile_has_microphone(b, b.sel)'
      BY <2>2, <3>1, <3>2 DEF Same, Keeps, profile_has_microphone
    <3> QED BY <2>0, <2>2, <3>1, <3>2, <3>3
            DEF Card, Named, Phases, Profile, Changing, Beginning, Starting, Bound, Same, Keeps,
                Fits, Silent
  <2>3. ASSUME NEW s \in Bridges, Same(b, s),
               b' = [Enter(s, "stop", 0) EXCEPT !.trans = TRUE, !.then = "codec",
                                                !.goal = wanted_hfp(Watch(b))]
        PROVE  Card'
    <3>1. Enter(s, "stop", 0) \in Bridges /\ Keeps(s, Enter(s, "stop", 0))
      BY EnterType, EnterKeeps, PlaceNames
    <3>2. /\ b'.at = "stop" /\ b'.then = "codec" /\ b'.trans = TRUE
          /\ b'.addr = s.addr /\ b'.hfp = s.hfp /\ b'.req = s.req /\ b'.sel = s.sel
          /\ b'.nosco = s.nosco
      BY <2>3, <3>1, EnterKeeps DEF Keeps, Bridges
    <3>3. b'.goal = wanted_hfp(Watch(b))
      BY <2>3, <3>1 DEF Bridges
    <3>4. Fits(b.req, wanted_hfp(Watch(b)))
      BY <1>0, <2>0, WantedFits DEF Card, Profile
    <3>5. Fits(b'.req, b'.goal)
      BY <2>3, <3>2, <3>3, <3>4 DEF Same
    <3>6. b.addr # "none"
      BY <2>0 DEF Card, Named
    <3> QED BY <2>0, <2>3, <3>2, <3>5, <3>6
            DEF Card, Named, Phases, Profile, Changing, Beginning, Starting, Bound, Same, Fits, Silent
  <2> QED BY <1>3, <2>1, <2>2, <2>3, Ticked
<1> QED BY <1>1, <1>2, <1>3

LEMMA TransitionCard == TypeOK /\ Card /\ TransitionStep => Card'
<1> SUFFICES ASSUME TypeOK, Card, TransitionStep PROVE Card'
  OBVIOUS
<1>0. b \in Bridges
  BY DEF TypeOK
<1>a. \A place, t : Enter(b, place, t).at = place /\ Keeps(b, Enter(b, place, t))
  BY <1>0, EnterKeeps
<1>b. \A place \in Places : Enter(b, place, 0) \in Bridges /\ Enter(b, place, CallT) \in Bridges
  BY <1>0, EnterType, Timeouts
<1>t. b.then \in {"drop", "codec", "reserve", "cleanup"}
  BY <1>0 DEF Bridges
<1>1. CASE StopSession
  <2> DEFINE x == [b EXCEPT !.sess = FALSE]
  <2>1. x \in Bridges /\ x.then = b.then /\ x.goal = b.goal /\ Carries(b, x)
    BY <1>0 DEF Bridges, Carries
  <2>2. b' = Enter(x, "close", 0)
    BY <1>1 DEF StopSession
  <2> HIDE DEF x
  <2>3. b'.at = "close" /\ b'.then = b.then /\ b'.goal = b.goal /\ Carries(b, b')
    BY <2>1, <2>2, EnterKeeps DEF Keeps, Carries
  <2> QED BY <1>1, <2>3
          DEF StopSession, At, Card, Named, Phases, Profile, Changing, Beginning, Starting, Bound,
              Carries, Fits, Silent
<1>2. CASE CloseSocket
  <2>1. Enter(b, b.then, CallT) \in Bridges
    BY <1>b, <1>t, PlaceNames
  <2>2. b'.at = b.then /\ b'.goal = b.goal /\ Carries(b, b')
    BY <1>2, <1>a, <2>1 DEF CloseSocket, Keeps, Carries, Bridges
  <2>3. CASE b.then \in {"codec", "reserve"}
    BY <1>2, <2>2, <2>3
       DEF CloseSocket, At, Card, Named, Phases, Profile, Changing, Beginning, Starting, Bound,
           Carries, Fits, Silent
  <2> QED BY <1>t, <2>2, <2>3, OverCard
<1>3. CASE CodecAgreed
  <2> DEFINE x == [b EXCEPT !.hfp = b.goal]
  <2>1. /\ x \in Bridges /\ x.hfp = b.goal /\ x.addr = b.addr /\ x.trans = b.trans
        /\ x.req = b.req /\ x.nosco = b.nosco
    BY <1>0 DEF Bridges
  <2>2. b' = Enter(x, "reserve", CallT)
    BY <1>3 DEF CodecAgreed
  <2> HIDE DEF x
  <2>3. /\ b'.at = "reserve" /\ b'.hfp = b.goal /\ b'.addr = b.addr /\ b'.trans = b.trans
        /\ b'.req = b.req /\ b'.nosco = b.nosco
    BY <2>1, <2>2, EnterKeeps DEF Keeps
  <2> QED BY <1>3, <2>3
          DEF CodecAgreed, At, Card, Named, Phases, Profile, Changing, Beginning, Starting, Bound,
              Fits, Silent
<1>4. ASSUME b.at \in {"codec", "refused"}, b'.at = "reserve", b'.req = b.sel, b'.hfp = b.hfp,
             b'.addr = b.addr, b'.trans = b.trans, b'.nosco = b.nosco
      PROVE  Card'
  BY <1>4 DEF Card, Named, Phases, Profile, Changing, Beginning, Starting, Bound, Fits, Silent
<1>5. ASSUME b.at \in {"codec", "refused"}, b'.at \in {"codec", "refused"}, Keeps(b, b')
      PROVE  Card'
  BY <1>5 DEF Card, Named, Phases, Profile, Changing, Beginning, Starting, Bound, Fits, Silent, Keeps
<1>6. CASE CodecRefused
  <2>0. b.at = "codec"
    BY <1>6 DEF CodecRefused, At
  <2>1. CASE b' = Restored(b)
    BY <1>0, <1>4, <2>0, <2>1, RestoredKeeps
  <2>2. CASE b' = [b EXCEPT !.at = "refused"]
    <3>1. b'.at = "refused" /\ Keeps(b, b')
      BY <1>0, <2>2 DEF Keeps, Bridges
    <3> QED BY <1>5, <2>0, <3>1
  <2> QED BY <1>6, <2>1, <2>2 DEF CodecRefused
<1>7. CASE CodecRetry
  <2> DEFINE x == [b EXCEPT !.failed = Broken]
  <2>0. b.at = "refused" /\ Broken \in BOOLEAN
    BY <1>0, <1>7 DEF CodecRetry, Broken, Bridges
  <2>1. x \in Bridges /\ Keeps(b, x)
    BY <1>0, <2>0 DEF Bridges, Keeps
  <2>2. b' \in {Restored(x), [b EXCEPT !.at = "codec", !.polled = TRUE]}
    BY <1>7 DEF CodecRetry
  <2> HIDE DEF x
  <2>3. CASE b' = Restored(x)
    <3>1. /\ b'.at = "reserve" /\ b'.req = b.sel /\ b'.hfp = b.hfp /\ b'.addr = b.addr
          /\ b'.trans = b.trans /\ b'.nosco = b.nosco
      BY <2>1, <2>3, RestoredKeeps DEF Keeps
    <3> QED BY <1>4, <2>0, <3>1
  <2>4. CASE b' = [b EXCEPT !.at = "codec", !.polled = TRUE]
    <3>1. b'.at = "codec" /\ Keeps(b, b')
      BY <1>0, <2>4 DEF Keeps, Bridges
    <3> QED BY <1>5, <2>0, <3>1
  <2> QED BY <2>2, <2>3, <2>4
<1>8. CASE Undo
  <2>1. Enter(b, "stop", 0) \in Bridges
    BY <1>b, PlaceNames
  <2>2. /\ b'.at = "stop" /\ b'.then \in {"reserve", "cleanup"} /\ b'.addr = b.addr
        /\ b'.trans = b.trans /\ b'.req = "auto" /\ b'.hfp = FALSE
    BY <1>8, <1>a, <2>1 DEF Undo, Keeps, Bridges
  <2>3. "auto" # "hfp" /\ "auto" \notin Codecs
    BY BridgeAssumption
  <2>4. CASE b'.then = "reserve"
    BY <1>8, <2>2, <2>3, <2>4
       DEF Undo, At, Card, Named, Phases, Profile, Changing, Beginning, Starting, Bound, Fits, Silent
  <2> QED BY <2>2, <2>4, OverCard
<1>9. CASE Commit
  <2>1. Enter(b, IF b.failed THEN "cleanup" ELSE "run", 0) \in Bridges
    BY <1>b, PlaceNames
  <2>2. /\ b'.at = (IF b.failed THEN "cleanup" ELSE "run") /\ b'.addr = b.addr /\ b'.mic = b.mic
        /\ b'.trans = FALSE /\ b'.sel = b.req /\ b'.req = b.req /\ b'.hfp = b.hfp
        /\ b'.nosco = b.nosco
    BY <1>9, <1>a, <2>1 DEF Commit, Keeps, Bridges
  <2>3. "src" \in nodes' <=> profile_has_microphone(b, b.req)
    BY <1>9 DEF Commit
  <2>4. profile_has_microphone(b, b.req) <=> profile_has_microphone(b, b.sel)'
    BY <2>2 DEF profile_has_microphone
  <2>5. CASE b'.at = "run"
    BY <1>9, <2>2, <2>3, <2>4, <2>5
       DEF Commit, At, Card, Named, Phases, Profile, Changing, Beginning, Starting, Bound, Fits, Silent
  <2> QED BY <2>2, <2>5, OverCard
<1>10. CASE Cleanup
  <2>1. Enter(b, "stop", 0) \in Bridges
    BY <1>b, PlaceNames
  <2>2. b'.at = "stop" /\ b'.then = "drop"
    BY <1>10, <1>a, <2>1 DEF Cleanup, Bridges
  <2> QED BY <2>2, OverCard
<1>11. CASE Drop
  <2>1. b'.at \in {"off", "backoff"}
    BY <1>11, FreshPlaces DEF Drop
  <2> QED BY <2>1, OverCard
<1>12. CASE Backoff
  <2>1. \/ b'.at = "off"
        \/ b'.at = "setup" /\ b'.trans = FALSE /\ b'.req = "auto" /\ b'.sel = "auto"
    BY <1>12, FreshPlaces DEF Backoff
  <2> QED BY <2>1, OverCard
          DEF Card, Named, Phases, Profile, Changing, Beginning, Starting, Bound
<1> QED BY <1>1, <1>2, <1>3, <1>6, <1>7, <1>8, <1>9, <1>10, <1>11, <1>12 DEF TransitionStep

LEMMA WorldCard ==
    /\ TypeOK /\ Card
    /\ Link \/ DaemonAnswers \/ DaemonReleases \/ Tick \/ FaultStep \/ Environment
    => Card'
<1> SUFFICES ASSUME TypeOK, Card,
                    Link \/ DaemonAnswers \/ DaemonReleases \/ Tick \/ FaultStep \/ Environment
             PROVE  Card'
  OBVIOUS
<1>0. b \in Bridges
  BY DEF TypeOK
<1>a. ASSUME b'.at = b.at, b'.then = b.then, b'.goal = b.goal, b'.mic = b.mic, Carries(b, b'),
             nodes' = nodes
      PROVE  Card'
  <2>1. profile_has_microphone(b, b.sel)' <=> profile_has_microphone(b, b.sel)
    BY <1>a DEF profile_has_microphone, Carries
  <2> QED BY <1>a, <2>1
          DEF Card, Named, Phases, Profile, Changing, Beginning, Starting, Bound, Carries, Fits, Silent
<1>1. CASE UNCHANGED <<b, nodes>>
  BY <1>1, <1>a DEF Carries
<1>2. ASSUME b' = HungUp(b), nodes' = nodes PROVE Card'
  <2>1. /\ b'.at = b.at /\ b'.then = b.then /\ b'.goal = b.goal /\ b'.mic = b.mic
        /\ Carries(b, b')
    BY <1>0, <1>2 DEF HungUp, Carries, Bridges
  <2> QED BY <1>2, <1>a, <2>1
<1>3. CASE Link \/ DaemonAnswers \/ DaemonReleases \/ Reconfigured \/ VoiceRefused \/ VoiceSilent
           \/ StartLate \/ StartRefused \/ Terminate \/ DaemonStarts \/ UseMicrophone("record")
  BY <1>1, <1>3
     DEF Link, DaemonAnswers, DaemonReleases, Reconfigured, VoiceRefused, VoiceSilent, StartLate,
         StartRefused, Terminate, DaemonStarts, UseMicrophone
<1>4. CASE Tick
  <2>1. /\ b'.at = b.at /\ b'.then = b.then /\ b'.goal = b.goal /\ b'.mic = b.mic
        /\ Carries(b, b')
    BY <1>0, <1>4 DEF Tick, Elapse, Carries, Bridges
  <2> QED BY <1>4, <1>a, <2>1 DEF Tick, Elapse
<1>5. ASSUME NEW d \in Devices, DeviceLost(d) \/ DeviceBack(d) PROVE Card'
  <2>1. b' \in {b, HungUp(b)} /\ nodes' = nodes
    BY <1>5 DEF DeviceLost, DeviceGone, DeviceBack
  <2> QED BY <1>1, <1>2, <2>1
<1>6. ASSUME NEW mic \in BOOLEAN, NEW codecs \in SUBSET Codecs, CapabilitiesChange(mic, codecs)
      PROVE  Card'
  BY <1>1, <1>6 DEF CapabilitiesChange
<1>7. CASE DaemonDies \/ ScoDrops
  BY <1>2, <1>7 DEF DaemonDies, DaemonGone, ScoDrops
<1>8. CASE ReserveLost
  <2>1. /\ b.at = "reserve" /\ b'.at \in {"undo", "cleanup"} /\ Carries(b, b')
        /\ b'.at = "undo" => b.trans
    BY <1>0, <1>8, StartFailedKeeps DEF ReserveLost, At, Keeps, Carries
  <2> QED BY <2>1, OnwardCard DEF Starting
<1>9. ASSUME NEW p \in Profiles, SelectProfile(p) PROVE Card'
  <2>1. /\ b.at = "run" /\ b'.at = "run" /\ b'.then = b.then /\ b'.mic = b.mic
        /\ b'.addr = b.addr /\ b'.hfp = b.hfp /\ b'.trans = b.trans /\ b'.req = p
        /\ b'.sel = b.sel /\ b'.nosco = b.nosco /\ nodes' = nodes
    BY <1>0, <1>9 DEF SelectProfile, Bridges
  <2>2. b.nosco => p # "hfp"
    <3>1. b.codecs \subseteq Codecs /\ "hfp" \notin Codecs
      BY <1>0, BridgeAssumption DEF Bridges
    <3> QED BY <1>9, <3>1 DEF SelectProfile, profile_available
  <2>3. profile_has_microphone(b, b.sel)' <=> profile_has_microphone(b, b.sel)
    BY <2>1 DEF profile_has_microphone
  <2> QED BY <2>1, <2>2, <2>3
          DEF Card, Named, Phases, Profile, Changing, Beginning, Starting, Bound, Fits, Silent
<1>10. CASE PublishFails \/ CommitFails
  BY <1>0, <1>10, FailsKeep, OverCard
<1> QED BY <1>3, <1>4, <1>5, <1>6, <1>7, <1>8, <1>9, <1>10 DEF FaultStep, Environment

LEMMA NextCard == TypeOK /\ Card /\ [Next]_vars => Card'
<1> SUFFICES ASSUME TypeOK, Card, [Next]_vars PROVE Card'
  OBVIOUS
<1>1. CASE UNCHANGED vars
  BY <1>1 DEF vars, Card, Named, Phases, Profile, Changing, Beginning, Bound, Fits, Silent,
              profile_has_microphone
<1> QED BY <1>1, StartCard, LoopCard, TransitionCard, WorldCard DEF Next, BridgeStep

LEMMA InitCard == Init => Card
BY FreshPlaces DEF Init, Card, Named, Phases, Profile, Changing, Beginning, Starting, Bound

\* When no request of the user is pending, the card names the transport in use,
\* and the microphone node exists exactly when the selected profile has one: across
\* transitions that are refused, undone or lost, and snapshots that find the headset
\* changed.
THEOREM CardHonest == Spec => []ProfileHonest
<1>1. TypeOK /\ Card => ProfileHonest
  BY DEF Card, Profile, Fits, ProfileHonest
<1>2. TypeOK /\ Card /\ [Next]_vars => TypeOK' /\ Card'
  BY NextType, NextCard
<1> QED BY InitType, InitCard, <1>1, <1>2, PTL DEF Spec

-----------------------------------------------------------------------------
(* The decision for voice.                                                  *)

\* Only bus_tick begins a transition.
LEMMA OnlyTheTick ==
    ASSUME TypeOK, Card, [Next]_vars, b.at = "run", b'.trans
    PROVE  BusTick
<1>0. b \in Bridges /\ b.trans = FALSE
  BY DEF TypeOK, Card, Phases, Bridges
<1>1. \A place, t : Enter(b, place, t).trans = FALSE
  BY <1>0, EnterKeeps DEF Keeps
<1>2. ASSUME b'.trans = FALSE PROVE FALSE
  BY <1>2
<1>3. ASSUME StartStep PROVE FALSE
  BY <1>3 DEF StartStep, Setup, Find, ReserveGranted, ReserveRefused, ReserveFails, RequestStart,
              WaitStartListener, OpenPcm, ConfirmPcm, HfpPcmArrives, At
<1>4. ASSUME Publish \/ TransitionStep PROVE FALSE
  BY <1>4 DEF Publish, TransitionStep, StopSession, CloseSocket, CodecAgreed, CodecRefused, CodecRetry,
              Undo, Commit, Cleanup, Drop, Backoff, At
<1>5. ASSUME AudioHangup \/ Quit PROVE FALSE
  BY <1>1, <1>2, <1>5 DEF AudioHangup, Quit
<1>6. ASSUME b' \in {b, HungUp(b)} PROVE FALSE
  BY <1>0, <1>2, <1>6 DEF HungUp, Bridges
<1>7. ASSUME Link \/ DaemonAnswers \/ DaemonReleases \/ UNCHANGED vars PROVE FALSE
  BY <1>6, <1>7 DEF Link, DaemonAnswers, DaemonReleases, vars
<1>8. ASSUME Tick PROVE FALSE
  BY <1>0, <1>2, <1>8 DEF Tick, Elapse, Bridges
<1>9. ASSUME FaultStep PROVE FALSE
  <2>1. ReserveLost \/ PublishFails \/ CommitFails \/ b' \in {b, HungUp(b)}
    BY <1>9 DEF FaultStep, DeviceLost, DeviceGone, CapabilitiesChange, DaemonDies, DaemonGone, ScoDrops,
                Reconfigured, VoiceSilent, StartRefused, StartLate, Terminate
  <2> QED BY <1>6, <2>1 DEF ReserveLost, PublishFails, CommitFails, At
<1>10. ASSUME Environment PROVE FALSE
  <2>1. (\E p \in Profiles : SelectProfile(p)) \/ b' = b
    BY <1>10 DEF Environment, UseMicrophone, DeviceBack, DaemonStarts, VoiceRefused
  <2> QED BY <1>0, <1>2, <1>6, <2>1 DEF SelectProfile, Bridges
<1> QED BY <1>3, <1>4, <1>5, <1>7, <1>8, <1>9, <1>10 DEF Next, BridgeStep

LEMMA VoiceWanted ==
    ASSUME b \in Bridges, ~b.hfp, A2dp(b), wanted_hfp(Watch(b))
    PROVE  ~b.nosco /\ (b.retry = 0 \/ b.req = "hfp")
<1>1. /\ Watch(b).req = b.req /\ Watch(b).nosco = b.nosco /\ Watch(b).hfp = b.hfp
      /\ Watch(b).codecs = b.codecs /\ Watch(b).retry = b.retry
  BY WatchSame DEF Same
<1> QED BY <1>1 DEF wanted_hfp, A2dp

-----------------------------------------------------------------------------
(* What a run learns from a voice start that failed.                        *)

\* The run is about to undo a start, or is over.
Over == \/ b.at \in {"undo", "cleanup", "drop", "backoff", "off"}
        \/ b.at \in {"stop", "close"} /\ b.then \in {"drop", "cleanup"}

\* A start without a sample leaves its mark for the rest of the run; and before the
\* run goes on after a failed voice start, the retry deadline is at least as far as
\* the time the headset is to be left in peace.
Lessons == /\ b.mute => b.nosco
           /\ b.rest <= RetryT
           /\ Over \/ b.rest <= b.retry

LEMMA PolledRemembers == ASSUME NEW x \in Bridges PROVE Remembers(x, [x EXCEPT !.polled = TRUE])
BY DEF Remembers, Bridges

LEMMA RestoredRemembers == ASSUME NEW x \in Bridges PROVE Remembers(x, Restored(x))
<1> DEFINE y == [x EXCEPT !.req = x.sel, !.goal = x.hfp]
<1>1. y \in Bridges /\ Remembers(x, y)
  BY DEF Bridges, Remembers
<1>2. Restored(x) = Enter(y, "reserve", CallT)
  BY DEF Restored
<1> HIDE DEF y
<1> QED BY <1>1, <1>2, EnterRemembers DEF Remembers

\* A step that learns nothing keeps what is known; a new run knows nothing.
LEMMA KeptLessons ==
    ASSUME Lessons, Remembers(b, b'), Over => Over'
    PROVE  Lessons'
BY DEF Lessons, Remembers

LEMMA FreshLessons == ASSUME b'.mute = FALSE, b'.rest = 0, b'.retry = 0 PROVE Lessons'
BY Timeouts DEF Lessons

\* A failed start: only the probe of the first sample is without one.
LEMMA FailedLessons ==
    ASSUME Lessons, NEW x \in Bridges, b' = StartFailed(x), x.mute = b.mute, x.rest = b.rest,
           b.nosco => x.nosco, x.at = "probe" => x.nosco
    PROVE  Lessons'
<1> DEFINE y == Blamed(x)
<1>1. /\ y \in Bridges /\ y.nosco = x.nosco /\ y.mute = (x.mute \/ x.at = "probe")
      /\ y.rest = IF x.hfp THEN RetryT ELSE x.rest
  BY BlamedType
<1>2. \E place \in {"undo", "cleanup"} : b' = Enter(y, place, 0)
  BY DEF StartFailed, Blamed
<1> HIDE DEF y
<1>3. b'.at \in {"undo", "cleanup"} /\ Remembers(y, b')
  BY <1>1, <1>2, EnterKeeps, EnterRemembers
<1>4. Over'
  BY <1>3 DEF Over
<1>5. b'.mute => b'.nosco
  BY <1>1, <1>3 DEF Lessons, Remembers
<1>6. b'.rest <= RetryT
  BY <1>1, <1>3, Timeouts DEF Lessons, Remembers
<1> QED BY <1>4, <1>5, <1>6 DEF Lessons

LEMMA StartLessons == TypeOK /\ Lessons /\ StartStep => Lessons'
<1> SUFFICES ASSUME TypeOK, Lessons, StartStep PROVE Lessons'
  OBVIOUS
<1>0. b \in Bridges /\ floss \in Daemons
  BY DEF TypeOK
<1>1. b.at \in {"setup", "find", "reserve", "start", "listen", "open", "confirm", "probe"}
  BY DEF StartStep, Setup, Find, ReserveGranted, ReserveRefused, ReserveFails, RequestStart,
         WaitStartListener, OpenPcm, ConfirmPcm, HfpPcmArrives, At
<1>2. ASSUME Remembers(b, b') PROVE Lessons'
  BY <1>1, <1>2, KeptLessons DEF Over
<1>3. ASSUME b' = StartFailed(b), b.at # "probe" PROVE Lessons'
  BY <1>0, <1>3, FailedLessons
<1>4. ASSUME NEW place, NEW t, b' = Enter(b, place, t) PROVE Lessons'
  BY <1>0, <1>2, <1>4, EnterRemembers
<1>5. ASSUME NEW g, b' = PollOn(b, g), b.at # "probe" PROVE Lessons'
  BY <1>0, <1>2, <1>3, <1>5, PolledRemembers DEF PollOn
<1>6. ASSUME b' = Started(b) PROVE Lessons'
  BY <1>4, <1>6 DEF Started
<1>7. CASE Setup
  BY <1>4, <1>7 DEF Setup
<1>8. CASE Find
  <2>1. CASE Discovers
    <3> DEFINE x == [Discovered(b) EXCEPT !.hfp = (floss.codecs = {})]
    <3>1. Discovered(b) \in Bridges
      BY <1>0, <2>1, DiscoveredType
    <3>2. x \in Bridges /\ Remembers(b, x)
      BY <1>0, <3>1, ZenonT(60) DEF Discovered, Bridges, Remembers
    <3>3. b' = Enter(x, "reserve", CallT)
      BY <1>8, <2>1 DEF Find
    <3> HIDE DEF x
    <3> QED BY <1>2, <3>2, <3>3, EnterRemembers DEF Remembers
  <2>2. CASE ~Discovers
    BY <1>4, <1>8, <2>2 DEF Find
  <2> QED BY <2>1, <2>2
<1>9. CASE ReserveGranted
  <2> DEFINE x == [b EXCEPT !.sess = TRUE]
  <2>1. x \in Bridges /\ Remembers(b, x)
    BY <1>0 DEF Bridges, Remembers
  <2>2. b' = Enter(x, "start", 0)
    BY <1>9 DEF ReserveGranted
  <2> HIDE DEF x
  <2> QED BY <1>2, <2>1, <2>2, EnterRemembers DEF Remembers
<1>10. CASE ReserveRefused \/ ReserveFails
  BY <1>3, <1>5, <1>10 DEF ReserveRefused, ReserveFails, At
<1>11. CASE RequestStart \/ WaitStartListener
  BY <1>3, <1>4, <1>5, <1>11 DEF RequestStart, WaitStartListener, At
<1>12. CASE OpenPcm
  <2>1. CASE b' = [Enter(b, "confirm", 0) EXCEPT !.fd = "up"]
    <3>1. Enter(b, "confirm", 0) \in Bridges
      BY <1>0, EnterType, PlaceNames
    <3>2. Remembers(b, b')
      BY <1>0, <2>1, <3>1, EnterRemembers DEF Remembers, Bridges
    <3> QED BY <1>2, <3>2
  <2>2. CASE \E g : b' = PollOn(b, g)
    BY <1>5, <1>12, <2>2 DEF OpenPcm, At
  <2> QED BY <1>12, <2>1, <2>2 DEF OpenPcm
<1>13. CASE ConfirmPcm
  BY <1>3, <1>4, <1>6, <1>13 DEF ConfirmPcm, At
<1>14. CASE HfpPcmArrives
  <2> DEFINE x == [b EXCEPT !.nosco = TRUE]
  <2>1. x \in Bridges /\ x.mute = b.mute /\ x.rest = b.rest /\ x.nosco = TRUE
    BY <1>0 DEF Bridges
  <2>2. b' \in {Started(b), StartFailed(x), [b EXCEPT !.polled = TRUE]}
    BY <1>14 DEF HfpPcmArrives
  <2> HIDE DEF x
  <2>3. CASE b' = StartFailed(x)
    BY <2>1, <2>3, FailedLessons
  <2>4. CASE b' = [b EXCEPT !.polled = TRUE]
    BY <1>0, <1>2, <2>4, PolledRemembers
  <2> QED BY <1>6, <2>2, <2>3, <2>4
<1> QED BY <1>7, <1>8, <1>9, <1>10, <1>11, <1>12, <1>13, <1>14 DEF StartStep

LEMMA LoopLessons == TypeOK /\ Lessons /\ (Publish \/ BusTick \/ AudioHangup \/ Quit) => Lessons'
<1> SUFFICES ASSUME TypeOK, Lessons, Publish \/ BusTick \/ AudioHangup \/ Quit PROVE Lessons'
  OBVIOUS
<1>0. b \in Bridges
  BY DEF TypeOK
<1>1. ASSUME Remembers(b, b') PROVE Lessons'
  <2>1. b.at \in {"publish", "run"}
    BY DEF Publish, BusTick, AudioHangup, Quit, At
  <2> QED BY <1>1, <2>1, KeptLessons DEF Over
<1>2. CASE Publish \/ AudioHangup \/ Quit
  BY <1>0, <1>1, <1>2, EnterRemembers DEF Publish, AudioHangup, Quit
<1>3. CASE BusTick
  <2>1. CASE b' = Enter(b, "cleanup", 0)
    BY <1>0, <1>1, <2>1, EnterRemembers
  <2>2. ASSUME NEW s \in Bridges, Same(b, s), b' = [s EXCEPT !.polled = TRUE] PROVE Lessons'
    BY <1>1, <2>2, PolledRemembers DEF Same, Remembers
  <2>3. ASSUME NEW s \in Bridges, Same(b, s), NEW g,
               b' = [Enter(s, "stop", 0) EXCEPT !.trans = TRUE, !.then = "codec", !.goal = g]
        PROVE  Lessons'
    <3>1. Enter(s, "stop", 0) \in Bridges /\ Remembers(s, Enter(s, "stop", 0))
      BY EnterType, EnterRemembers, PlaceNames
    <3>2. Remembers(s, b')
      BY <2>3, <3>1 DEF Remembers, Bridges
    <3> QED BY <1>1, <2>3, <3>2 DEF Same, Remembers
  <2> QED BY <1>3, <2>1, <2>2, <2>3, Ticked
<1> QED BY <1>2, <1>3

LEMMA TransitionLessons == TypeOK /\ Lessons /\ TransitionStep => Lessons'
<1> SUFFICES ASSUME TypeOK, Lessons, TransitionStep PROVE Lessons'
  OBVIOUS
<1>0. b \in Bridges
  BY DEF TypeOK
<1>t. b.then \in {"drop", "codec", "reserve", "cleanup"}
  BY <1>0 DEF Bridges
<1>b. \A place \in Places : Enter(b, place, 0) \in Bridges /\ Enter(b, place, CallT) \in Bridges
  BY <1>0, EnterType, Timeouts
<1>1. CASE StopSession
  <2> DEFINE x == [b EXCEPT !.sess = FALSE]
  <2>1. x \in Bridges /\ x.then = b.then /\ Remembers(b, x)
    BY <1>0 DEF Bridges, Remembers
  <2>2. b' = Enter(x, "close", 0) /\ b.at = "stop"
    BY <1>1 DEF StopSession, At
  <2> HIDE DEF x
  <2>3. b'.at = "close" /\ b'.then = b.then /\ Remembers(b, b')
    BY <2>1, <2>2, EnterKeeps, EnterRemembers DEF Keeps, Remembers
  <2> QED BY <2>2, <2>3, KeptLessons DEF Over
<1>2. CASE CloseSocket
  <2>1. Enter(b, b.then, CallT) \in Bridges
    BY <1>b, <1>t, PlaceNames
  <2>2. b.at = "close" /\ b'.at = b.then /\ Remembers(b, b')
    BY <1>0, <1>2, <2>1, EnterKeeps, EnterRemembers DEF CloseSocket, At, Remembers, Bridges
  <2> QED BY <1>t, <2>2, KeptLessons DEF Over
<1>3. ASSUME b.at \in {"codec", "refused", "commit"}, Remembers(b, b') PROVE Lessons'
  BY <1>3, KeptLessons DEF Over
<1>4. CASE CodecAgreed
  <2> DEFINE x == [b EXCEPT !.hfp = b.goal]
  <2>1. x \in Bridges /\ Remembers(b, x)
    BY <1>0 DEF Bridges, Remembers
  <2>2. b' = Enter(x, "reserve", CallT)
    BY <1>4 DEF CodecAgreed
  <2> HIDE DEF x
  <2> QED BY <1>3, <1>4, <2>1, <2>2, EnterRemembers DEF CodecAgreed, At, Remembers
<1>5. CASE CodecRefused
  <2>1. Remembers(b, [b EXCEPT !.at = "refused"])
    BY <1>0 DEF Remembers, Bridges
  <2> QED BY <1>0, <1>3, <1>5, <2>1, RestoredRemembers DEF CodecRefused, At
<1>6. CASE CodecRetry
  <2> DEFINE x == [b EXCEPT !.failed = Broken]
  <2>0. Broken \in BOOLEAN
    BY <1>0 DEF Broken, Bridges
  <2>1. x \in Bridges /\ Remembers(b, x)
    BY <1>0, <2>0 DEF Bridges, Remembers
  <2>2. Remembers(b, [b EXCEPT !.at = "codec", !.polled = TRUE])
    BY <1>0 DEF Remembers, Bridges
  <2>3. b.at = "refused" /\ b' \in {Restored(x), [b EXCEPT !.at = "codec", !.polled = TRUE]}
    BY <1>6 DEF CodecRetry
  <2> HIDE DEF x
  <2>4. Remembers(b, b')
    BY <2>1, <2>2, <2>3, RestoredRemembers DEF Remembers
  <2> QED BY <1>3, <2>3, <2>4
<1>7. CASE Undo
  <2>1. Enter(b, "stop", 0) \in Bridges
    BY <1>b, PlaceNames
  <2>2. /\ b'.mute = b.mute /\ b'.nosco = b.nosco /\ b'.rest = b.rest /\ b'.retry = RetryT
    BY <1>0, <1>7, <2>1, EnterRemembers DEF Undo, Remembers, Bridges
  <2> QED BY <2>2 DEF Lessons
<1>8. CASE Commit
  <2>1. Enter(b, IF b.failed THEN "cleanup" ELSE "run", 0) \in Bridges
    BY <1>b, PlaceNames
  <2>2. Remembers(b, b')
    BY <1>0, <1>8, <2>1, EnterRemembers DEF Commit, Remembers, Bridges
  <2> QED BY <1>3, <1>8, <2>2 DEF Commit, At
<1>9. CASE Cleanup
  <2>1. Enter(b, "stop", 0) \in Bridges
    BY <1>b, PlaceNames
  <2>2. Remembers(b, b') /\ b'.at = "stop" /\ b'.then = "drop"
    BY <1>0, <1>9, <2>1, EnterKeeps, EnterRemembers DEF Cleanup, Remembers, Bridges
  <2> QED BY <2>2, KeptLessons DEF Over
<1>10. CASE Drop \/ Backoff
  <2>1. b' \in {Off, Fresh, Enter(Fresh, "backoff", BackoffT)}
    BY <1>10 DEF Drop, Backoff
  <2>2. b'.mute = FALSE /\ b'.rest = 0 /\ b'.retry = 0
    BY <2>1, FreshPlaces
  <2> QED BY <2>2, FreshLessons
<1> QED BY <1>1, <1>2, <1>4, <1>5, <1>6, <1>7, <1>8, <1>9, <1>10 DEF TransitionStep

LEMMA WorldLessons ==
    /\ TypeOK /\ Lessons
    /\ Link \/ DaemonAnswers \/ DaemonReleases \/ Tick \/ FaultStep \/ Environment
    => Lessons'
<1> SUFFICES ASSUME TypeOK, Lessons,
                    Link \/ DaemonAnswers \/ DaemonReleases \/ Tick \/ FaultStep \/ Environment
             PROVE  Lessons'
  OBVIOUS
<1>0. b \in Bridges
  BY DEF TypeOK
<1>1. ASSUME b'.at = b.at, b'.then = b.then, Remembers(b, b') PROVE Lessons'
  BY <1>1, KeptLessons DEF Over
<1>2. ASSUME b' \in {b, HungUp(b)} PROVE Lessons'
  BY <1>0, <1>1, <1>2 DEF HungUp, Remembers, Bridges
<1>3. CASE Tick
  <2>1. /\ b'.at = b.at /\ b'.then = b.then /\ b'.mute = b.mute /\ b'.nosco = b.nosco
        /\ b'.rest = Dec(b.rest) /\ b'.retry = Dec(b.retry)
    BY <1>0, <1>3 DEF Tick, Elapse, Bridges
  <2>2. Over' <=> Over
    BY <2>1 DEF Over
  <2>3. b.rest \in Nat /\ b.retry \in Nat /\ RetryT \in Nat
    BY <1>0, Timeouts DEF Bridges
  <2> QED BY <2>1, <2>2, <2>3 DEF Lessons, Dec
<1>4. CASE ReserveLost
  BY <1>0, <1>4, FailedLessons DEF ReserveLost, At
<1>5. CASE PublishFails \/ CommitFails
  BY <1>0, <1>5, FailsKeep, KeptLessons DEF Over
<1>6. ASSUME NEW p \in Profiles, SelectProfile(p) PROVE Lessons'
  BY <1>0, <1>1, <1>6 DEF SelectProfile, Remembers, Bridges
<1>7. CASE Link \/ DaemonAnswers \/ DaemonReleases
  BY <1>2, <1>7 DEF Link, DaemonAnswers, DaemonReleases
<1>8. CASE FaultStep
  <2>1. ReserveLost \/ PublishFails \/ CommitFails \/ b' \in {b, HungUp(b)}
    BY <1>8 DEF FaultStep, DeviceLost, DeviceGone, CapabilitiesChange, DaemonDies, DaemonGone, ScoDrops,
                Reconfigured, VoiceSilent, StartRefused, StartLate, Terminate
  <2> QED BY <1>2, <1>4, <1>5, <2>1
<1>9. CASE Environment
  <2>1. (\E p \in Profiles : SelectProfile(p)) \/ b' = b
    BY <1>9 DEF Environment, UseMicrophone, DeviceBack, DaemonStarts, VoiceRefused
  <2> QED BY <1>2, <1>6, <2>1
<1> QED BY <1>3, <1>7, <1>8, <1>9

LEMMA NextLessons == TypeOK /\ Lessons /\ [Next]_vars => Lessons'
<1> SUFFICES ASSUME TypeOK, Lessons, [Next]_vars PROVE Lessons'
  OBVIOUS
<1>1. CASE UNCHANGED vars
  BY <1>1 DEF vars, Lessons, Over
<1> QED BY <1>1, StartLessons, LoopLessons, TransitionLessons, WorldLessons DEF Next, BridgeStep

LEMMA InitLessons == Init => Lessons
BY Timeouts DEF Init, Fresh, Lessons

\* Music is not left for voice within RetryT of a voice start of the same run that
\* failed, unless the user asks for voice, and not at all after one that brought no
\* sample, as long as the headset plays music.  That automatic_tick reads a deadline
\* and a mark is not enough: every way a start fails has to have set them by the time
\* the main loop runs again.
THEOREM VoiceNotChurned == Spec => NoChurn
<1> DEFINE Quiet == b.at = "run" /\ b'.trans /\ ~b.hfp /\ b'.goal /\ A2dp(b) =>
                        ~b.mute /\ (b.rest = 0 \/ b.req = "hfp")
           Inv == TypeOK /\ Card /\ Lessons
<1>1. Inv /\ [Next]_vars => Inv'
  BY NextType, NextCard, NextLessons
<1>2. Inv /\ [Next]_vars => Quiet
  <2> SUFFICES ASSUME TypeOK, Card, Lessons, [Next]_vars,
                      b.at = "run", b'.trans, ~b.hfp, b'.goal, A2dp(b)
               PROVE  ~b.mute /\ (b.rest = 0 \/ b.req = "hfp")
    OBVIOUS
  <2>1. BusTick /\ b \in Bridges /\ ~b.trans
    BY OnlyTheTick DEF TypeOK, Card, Phases
  <2>2. ASSUME b' = Enter(b, "cleanup", 0) PROVE FALSE
    BY <2>1, <2>2, EnterKeeps DEF Keeps
  <2>3. ASSUME NEW s \in Bridges, Same(b, s), b' = [s EXCEPT !.polled = TRUE] PROVE FALSE
    BY <2>1, <2>3, PolledKeeps DEF Same, Keeps
  <2>4. ASSUME NEW s \in Bridges, Same(b, s),
               b' = [Enter(s, "stop", 0) EXCEPT !.trans = TRUE, !.then = "codec",
                                                !.goal = wanted_hfp(Watch(b))]
        PROVE  wanted_hfp(Watch(b))
    <3>1. Enter(s, "stop", 0) \in Bridges
      BY EnterType, PlaceNames
    <3>2. b'.goal = wanted_hfp(Watch(b))
      BY <2>4, <3>1 DEF Bridges
    <3> QED BY <3>2
  <2>5. wanted_hfp(Watch(b))
    BY <2>1, <2>2, <2>3, <2>4, Ticked
  <2>7. ~b.nosco /\ (b.retry = 0 \/ b.req = "hfp")
    BY <2>1, <2>5, VoiceWanted
  <2>6. b.rest \in Nat /\ b.retry \in Nat /\ b.rest <= b.retry /\ (b.mute => b.nosco)
    BY <2>1 DEF Lessons, Over, Bridges
  <2> QED BY <2>6, <2>7
<1>3. Inv /\ [Next]_vars => [Quiet]_vars
  BY <1>2
<1>4. Init => Inv
  BY InitType, InitCard, InitLessons
<1> QED BY <1>1, <1>3, <1>4, PTL DEF Spec, NoChurn
===========================================================================
