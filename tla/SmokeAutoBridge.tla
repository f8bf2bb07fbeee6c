--------------------------- MODULE SmokeAutoBridge ---------------------------
(***************************************************************************)
(* The lifecycle matrix of tools/smoke-auto-bridge-isolated.py: a script   *)
(* that starts a scripted peer (tools/mock-floss-auto.c) and the bridge,   *)
(* acts as the desktop and the headset, and asserts what it sees.  The     *)
(* bridge is the one of module Bridge; the peer is its daemon with live    *)
(* FALSE.  A case is a sequence of steps, one per statement of the Python  *)
(* script that acts, waits or asserts.  The unit of time is 50 ms, the     *)
(* polling period of wait_for and of the bridge.                           *)
(***************************************************************************)
EXTENDS Bridge, FiniteSets

CONSTANTS
    Cases,      \* the cases of this run
    HangCases,  \* the ones in which the bridge may also hang for ever
    Lag         \* the longest PipeWire takes to report a link, in units

ASSUME SmokeAssumption == Lag \in Nat /\ HangCases \subseteq Cases

VARIABLES
    t,          \* the script
    log,        \* what the logs of the peer and of the bridge show
    changed     \* nodes created or destroyed since node_ids was last saved

svars == <<b, term, inbox, nodes, apps, links, floss, bad, faults, t, log, changed>>

bridgeVars == <<b, term, inbox, nodes, apps, links, floss, bad, faults>>

Seconds(n) == 20 * n

Device == "d1"

-----------------------------------------------------------------------------
(* Steps of a script *)

Step(op, arg) == <<op, arg>>
control(value)  == Step("control", value)
sleep(units)    == Step("sleep", units)
wait_for(p)     == Step("wait", p)
check(p)        == Step("check", p)
record(a)       == Step("record", a)
kill_record(a)  == Step("unrecord", a)
node_ids        == Step("ids", "")
select(p)       == <<Step("select", p), wait_for(<<"card", p>>)>>
stop_bridge     == <<Step("terminate", ""), Step("reap", "")>>
start_bridge    == Step("bridge", "")
start_mock(kind) == Step("mock", kind)
stop_mock       == Step("kill mock", "")

Microphone(kind) == kind \notin {"speaker", "mono"}

CodecsOf(kind) ==
    CASE kind = "hfp-only" -> {}
      [] kind = "aac"      -> {"sbc", "aac"}
      [] kind = "ldac32"   -> {"sbc", "aac", "aptx", "aptx-hd", "ldac"}
      [] OTHER             -> {"sbc"}

\* The peer: its headset, whether it refuses voice or lets it stay silent, and
\* how long it takes to release a stopped session (20 rounds of 10 ms).
Mock(kind) ==
    [Daemon(<<Device>>, Microphone(kind), CodecsOf(kind)) EXCEPT
        !.live = FALSE, !.denies = kind = "denied", !.pcm = kind # "no-sco-pcm",
        !.slow = IF kind \in {"delayed", "aac"} THEN 4 ELSE 0]

begin(kind) ==
    <<control("online"), start_mock(kind), start_bridge,
      wait_for(<<"nodes", IF Microphone(kind) THEN 2 ELSE 1>>),
      wait_for(<<"profile", IF kind = "hfp-only" THEN "hfp" ELSE "a2dp">>)>>

finish ==
    stop_bridge \o <<check(<<"exit", 0>>), stop_mock, check(<<"content", "">>),
                     wait_for(<<"nodes", 0>>)>>

Repeat(n, steps) == FlattenSeq([i \in 1 .. n |-> steps])

-----------------------------------------------------------------------------
(* The cases *)

profiles_begun ==
    begin("aac")
    \o <<wait_for(<<"card", "auto">>), check(<<"choices", {"auto", "sbc", "aac", "hfp"}>>), node_ids>>

profiles_chosen ==
    select("hfp")
    \o <<wait_for(<<"profile", "hfp">>), sleep(50), check(<<"profile", "hfp">>),
         record("record"), sleep(10)>>
    \o select("aac")
    \o <<check(<<"codec", <<"aac", TRUE>> >>), check(<<"codec", <<"aac", FALSE>> >>),
         wait_for(<<"source", FALSE>>), kill_record("record"), sleep(50),
         check(<<"profile", "a2dp">>)>>
    \o select("sbc")
    \o <<check(<<"codec", <<"sbc", TRUE>> >>), wait_for(<<"source", FALSE>>)>>
    \o select("auto")
    \o <<wait_for(<<"source", TRUE>>), record("record"), wait_for(<<"profile", "hfp">>),
         kill_record("record"), wait_for(<<"profile", "a2dp">>), check(<<"same", {"sink"}>>)>>

\* The bridge is stopped without a look at how it has ended.
restart_bridge == stop_bridge \o <<wait_for(<<"nodes", 0>>), start_bridge>>

profiles ==
    profiles_begun \o profiles_chosen
    \o <<Step("mono", ""), wait_for(<<"stereo", "">>), sleep(20)>>
    \o select("aac")
    \o <<sleep(30)>> \o restart_bridge
    \o <<wait_for(<<"card", "aac">>), wait_for(<<"source", FALSE>>)>>
    \o finish

hifi_codec(c) ==
    <<Step("select", c), wait_for(<<"card", c>>), wait_for(<<"codec", <<c, TRUE>> >>),
      wait_for(<<"nodes", 1>>), check(<<"same", {"sink"}>>)>>

hifi_profiles ==
    begin("ldac32")
    \o <<wait_for(<<"card", "auto">>),
         check(<<"choices", {"auto", "sbc", "aac", "hfp", "aptx", "aptx-hd", "ldac"}>>), node_ids>>
    \o hifi_codec("aptx") \o hifi_codec("aptx-hd") \o hifi_codec("ldac") \o hifi_codec("aac")
    \o <<Step("select", "hfp"), wait_for(<<"profile", "hfp">>),
         Step("select", "ldac"), wait_for(<<"both", <<"ldac", "a2dp">> >>),
         wait_for(<<"nodes", 1>>), check(<<"same", {"sink"}>>)>>
    \o finish

no_sco_pcm ==
    begin("no-sco-pcm")
    \o <<node_ids, record("record"), wait_for(<<"silent", "">>), wait_for(<<"profile", "a2dp">>),
         sleep(40), check(<<"same", {"sink", "src"}>>), check(<<"hfp starts", 1>>),
         kill_record("record")>>
    \o finish

\* SIGSTOP and SIGCONT.  The capture queue is not part of the model, nor is the
\* assertion that the bridge has reported an overrun of it.
capture_backlog ==
    begin("msbc")
    \o <<node_ids, record("record"), wait_for(<<"profile", "hfp">>)>>
    \o Repeat(3, <<Step("hold", TRUE), sleep(8), Step("hold", FALSE), sleep(12),
                   check(<<"same", {"sink", "src"}>>), check(<<"hfp starts", 1>>)>>)
    \o <<kill_record("record"), wait_for(<<"profile", "a2dp">>)>>
    \o finish

peak_meter ==
    begin("cvsd")
    \o <<record("meter"), sleep(40), check(<<"hfp starts", 0>>),
         record("record"), wait_for(<<"profile", "hfp">>), sleep(40), kill_record("record"),
         wait_for(<<"profile", "a2dp">>), sleep(20), check(<<"hfp starts", 1>>),
         kill_record("meter")>>
    \o finish

jitter(kind, profile) ==
    begin(kind)
    \o <<node_ids, sleep(20)>>
    \o Repeat(3, <<control("stall"), sleep(12), check(<<"alive", "">>),
                   check(<<"same", {"sink", "src"}>>), check(<<profile, 1>>),
                   control("online"), sleep(8)>>)
    \o finish

matrix_music ==
    <<node_ids, sleep(20), check(<<"alive", "">>), check(<<"profile", "a2dp">>),
      record("builtin"), sleep(30), check(<<"hfp starts", 0>>), kill_record("builtin")>>

matrix_capture ==
    <<record("meter"), sleep(20), check(<<"hfp starts", 0>>), kill_record("meter"),
      record("record"), wait_for(<<"hfp starts", 1>>), wait_for(<<"profile", "hfp">>),
      sleep(40), check(<<"same", {"sink", "src"}>>), check(<<"alive", "">>),
      kill_record("record")>>

\* A recorder that comes back at once.
matrix_again ==
    <<sleep(5), record("record"), sleep(15), check(<<"hfp starts", 1>>), kill_record("record"),
      wait_for(<<"profile", "a2dp">>), check(<<"same", {"sink", "src"}>>)>>

matrix_speaker == <<check(<<"source", FALSE>>), check(<<"hfp starts", 0>>)>>

matrix(kind) ==
    begin(kind) \o matrix_music
    \o (IF Microphone(kind) THEN matrix_capture \o matrix_again ELSE matrix_speaker)
    \o finish

hfp_only ==
    begin("hfp-only")
    \o <<record("record"), sleep(40), kill_record("record"), sleep(60),
         check(<<"profile", "hfp">>), check(<<"a2dp starts", 0>>)>>
    \o finish

denied ==
    begin("denied")
    \o <<node_ids, record("record"), wait_for(<<"denied", "">>),
         wait_for(<<"restored", 2>>), Step("attempts", ""), sleep(40),
         check(<<"alive", "">>), check(<<"profile", "a2dp">>), check(<<"same", {"sink", "src"}>>),
         check(<<"hfp starts", 0>>), check(<<"no attempt", "">>), kill_record("record")>>
    \o finish

lifecycle ==
    begin("msbc")
    \o <<node_ids, control("second"), sleep(40), check(<<"same", {"sink", "src"}>>),
         check(<<"alive", "">>), control("online"), sleep(10), control("offline"),
         wait_for(<<"nodes", 0>>), check(<<"alive", "">>), control("online"),
         wait_for(<<"nodes", 2>>), record("record"), wait_for(<<"profile", "hfp">>),
         control("offline"), wait_for(<<"nodes", 0>>), check(<<"alive", "">>),
         kill_record("record"), control("online"), wait_for(<<"ready", "a2dp">>),
         record("record"), wait_for(<<"profile", "hfp">>), sleep(30), kill_record("record"),
         wait_for(<<"profile", "a2dp">>), control("speaker"), wait_for(<<"nodes", 1>>),
         control("headset"), wait_for(<<"nodes", 2>>), stop_mock, check(<<"content", "">>),
         wait_for(<<"nodes", 0>>), check(<<"alive", "">>), start_mock("msbc"),
         wait_for(<<"ready", "a2dp">>)>>
    \o finish

\* An untargeted recorder uses the default source: the headset, when it appears,
\* unless the user has chosen another one.
defaults ==
    begin("msbc")
    \o <<wait_for(<<"default", "src">>), record("default"), wait_for(<<"profile", "hfp">>),
         sleep(10), kill_record("default"), wait_for(<<"profile", "a2dp">>),
         Step("prefer", "builtin"), wait_for(<<"default", "builtin">>), Step("attempts", ""),
         record("default"), sleep(20), check(<<"hfp starts", 1>>), kill_record("default"),
         control("offline"), wait_for(<<"nodes", 0>>), control("online"),
         wait_for(<<"nodes", 2>>), check(<<"default", "builtin">>)>>
    \o finish

\* The children that are still there are stopped, the last one first.
finally ==
    <<kill_record("record"), kill_record("meter"), kill_record("builtin")>>
    \o stop_bridge \o <<stop_mock>>

Body(c) ==
    CASE c = "profiles"        -> profiles
      [] c = "hifi-profiles"   -> hifi_profiles
      [] c = "no-sco-pcm"      -> no_sco_pcm
      [] c = "capture-backlog" -> capture_backlog
      [] c = "peak-meter"      -> peak_meter
      [] c = "jitter-speaker"  -> jitter("speaker", "a2dp starts")
      [] c = "jitter-hfp-only" -> jitter("hfp-only", "hfp starts")
      [] c = "hfp-only"        -> hfp_only
      [] c = "denied"          -> denied
      [] c = "lifecycle"       -> lifecycle
      [] c = "defaults"        -> defaults
      [] OTHER                 -> matrix(c)

Script == [c \in Cases |-> Body(c) \o finally]

Finally == [c \in Cases |-> Len(Body(c)) + 1]

-----------------------------------------------------------------------------
(* What the script can see *)

DefaultSource == IF t.pref = "headset" /\ "src" \in nodes THEN "src" ELSE "builtin"

Offered == {p \in Profiles : profile_available(b, p)}

Holds(p) ==
    CASE p[1] = "nodes"       -> Cardinality(nodes) = p[2]
      [] p[1] = "profile"     -> log.last = p[2]
      [] p[1] = "ready"       -> Cardinality(nodes) = 2 /\ log.last = p[2]
      [] p[1] = "card"        -> nodes # {} /\ b.sel = p[2]
      [] p[1] = "both"        -> nodes # {} /\ b.sel = p[2][1] /\ log.last = p[2][2]
      [] p[1] = "choices"     -> Offered = p[2]
      [] p[1] = "source"      -> "src" \in nodes <=> p[2]
      [] p[1] = "same"        -> changed \cap p[2] = {}
      [] p[1] = "codec"       -> p[2] \in log.codec
      [] p[1] = "stereo"      -> ~b.mono
      [] p[1] = "silent"      -> log.silent
      [] p[1] = "hfp starts"  -> log.hfp = p[2]
      [] p[1] = "a2dp starts" -> log.a2dp = p[2]
      [] p[1] = "restored"    -> log.last = "a2dp" /\ log.a2dp = p[2]
      [] p[1] = "denied"      -> log.denied > 0
      [] p[1] = "no attempt"  -> log.denied = t.seen
      [] p[1] = "default"     -> DefaultSource = p[2]
      [] p[1] = "alive"       -> b.at # "off"
      [] p[1] = "exit"        -> (t.pc - 1) \notin t.kills
      [] p[1] = "content"     -> ~bad

-----------------------------------------------------------------------------
(* The script runs *)

Now == Script[t.case][t.pc]

Op(op) == t.pc <= Len(Script[t.case]) /\ Now[1] = op

Advance(x) == [x EXCEPT !.pc = @ + 1, !.left = 0, !.polled = FALSE]

\* An assertion has failed: the rest of the case is skipped.
Abandon(x) == [x EXCEPT !.pc = Finally[x.case], !.left = 0, !.polled = FALSE, !.ok = FALSE]

SubprocessStep ==
    /\ \/ /\ Op("mock")
          /\ floss' = Mock(Now[2]) /\ log' = [log EXCEPT !.last = "none", !.hfp = 0, !.a2dp = 0]
          /\ t' = [Advance(t) EXCEPT !.read = ""]
          /\ UNCHANGED <<b, term, inbox, nodes, apps, links, bad>>
       \/ /\ Op("bridge")
          /\ b' = Fresh /\ term' = FALSE
          /\ t' = Advance(t)
          /\ UNCHANGED <<inbox, nodes, apps, links, floss, bad, log>>
       \/ /\ Op("kill mock")
          /\ IF floss.up THEN DaemonGone ELSE UNCHANGED <<b, inbox, floss, term, nodes, apps, links, bad>>
          /\ t' = Advance(t)
          /\ UNCHANGED log
    /\ UNCHANGED <<faults, changed>>

\* record, and stop of a recorder: an untargeted one opens the default source.
Recorder(a) == IF a # "default" THEN a ELSE IF DefaultSource = "src" THEN "record" ELSE "builtin"

RecordStep ==
    /\ \/ Op("record") /\ apps' = apps \cup {Recorder(Now[2])}
       \/ Op("unrecord") /\ apps' = IF Now[2] = "default" THEN apps \ {"record", "builtin"} ELSE apps \ {Now[2]}
    /\ t' = Advance(t)
    /\ UNCHANGED <<b, term, inbox, nodes, links, floss, bad, faults, log, changed>>

\* Steps that leave something behind for another process to act upon.
RequestStep ==
    /\ \/ Op("control") /\ t' = [Advance(t) EXCEPT !.file = Now[2]]
       \/ Op("select") /\ t' = [Advance(t) EXCEPT !.ask = Now[2], !.saved = Now[2]]
       \/ Op("prefer") /\ t' = [Advance(t) EXCEPT !.pref = Now[2]]
       \/ Op("hold") /\ t' = [Advance(t) EXCEPT !.held = Now[2]]
       \/ Op("attempts") /\ t' = [Advance(t) EXCEPT !.seen = log.denied]
    /\ UNCHANGED <<bridgeVars, log, changed>>

MonoStep ==
    /\ Op("mono")
    /\ b' = [b EXCEPT !.mono = TRUE]
    /\ t' = Advance(t)
    /\ UNCHANGED <<term, inbox, nodes, apps, links, floss, bad, faults, log, changed>>

SaveIds ==
    /\ Op("ids")
    /\ changed' = {}
    /\ t' = Advance(t)
    /\ UNCHANGED <<bridgeVars, log>>

Check ==
    /\ Op("check")
    /\ t' = IF Holds(Now[2]) THEN Advance(t) ELSE Abandon(t)
    /\ UNCHANGED <<bridgeVars, log, changed>>

\* wait_for looks, then sleeps for one unit, until its eight seconds are over.
WaitFor ==
    /\ Op("wait") /\ ~t.polled
    /\ t' = IF Holds(Now[2]) THEN Advance(t)
            ELSE IF t.left = Seconds(8) THEN Abandon(t)
            ELSE [t EXCEPT !.polled = TRUE]
    /\ UNCHANGED <<bridgeVars, log, changed>>

Sleep ==
    /\ Op("sleep")
    /\ t.left = Now[2]
    /\ t' = Advance(t)
    /\ UNCHANGED <<bridgeVars, log, changed>>

\* stop: SIGTERM, unless the child has ended, ...
TerminateStep ==
    /\ Op("terminate")
    /\ term' = (b.at # "off")
    /\ t' = Advance(t)
    /\ UNCHANGED <<b, inbox, nodes, apps, links, floss, bad, faults, log, changed>>

FaultyReap ==
    /\ Op("reap") /\ b.at = "off"
    /\ term' = FALSE /\ t' = Advance(t)
    /\ UNCHANGED <<b, nodes, links, inbox, apps, floss, bad, faults, log, changed>>

\* ... and SIGKILL when it has not ended within five seconds.
Reap ==
    /\ Op("reap")
    /\ \/ /\ b.at = "off"
          /\ term' = FALSE /\ t' = Advance(t)
          /\ UNCHANGED <<b, inbox, nodes, links, changed>>
       \/ /\ b.at # "off" /\ t.left = Seconds(5)
          /\ b' = Off /\ term' = FALSE /\ inbox' = <<>> /\ nodes' = {} /\ links' = {}
          /\ changed' = changed \cup nodes
          /\ t' = [Advance(t) EXCEPT !.kills = @ \cup {t.pc}, !.held = FALSE]
    /\ UNCHANGED <<apps, floss, bad, faults, log>>

ScriptStep ==
    \/ SubprocessStep \/ RecordStep \/ RequestStep \/ MonoStep \/ SaveIds
    \/ Check \/ WaitFor \/ Sleep \/ TerminateStep \/ Reap

-----------------------------------------------------------------------------
(* The processes the script has started *)

\* What a step of the bridge leaves in the two logs and in the graph.
Observed ==
    LET opened == floss.audio # "open" /\ floss'.audio = "open"
        closed == floss.lease /\ ~floss'.lease
        asked  == At("codec") /\ AsksCodec /\ b.req \in b.codecs /\ Reachable
        refused == At("reserve") /\ b.hfp /\ Reachable /\ ~Grants
    IN  /\ log' = [log EXCEPT
            !.last = IF opened THEN (IF floss.hfp THEN "hfp" ELSE "a2dp")
                     ELSE IF closed THEN "none" ELSE @,
            !.hfp = IF opened /\ floss.hfp THEN @ + 1 ELSE @,
            !.a2dp = IF opened /\ ~floss.hfp THEN @ + 1 ELSE @,
            !.denied = IF refused THEN @ + 1 ELSE @,
            !.codec = IF asked THEN @ \cup {<<b.req, Accepts>>} ELSE @,
            !.silent = @ \/ b'.nosco]
        /\ changed' = changed \cup (nodes \ nodes') \cup (nodes' \ nodes)

\* WirePlumber selects the saved profile when the card appears.
BridgeRuns ==
    /\ ~t.held
    /\ BridgeStep
    /\ Observed
    /\ t' = IF At("publish") /\ b'.at = "run" THEN [t EXCEPT !.ask = t.saved] ELSE t

LinkReported == ~t.held /\ Link /\ UNCHANGED <<t, log, changed>>

\* The main loop of the bridge handles the request; profile_set refuses a profile
\* that is not available.
ProfileRequested ==
    /\ ~t.held /\ b.at = "run" /\ t.ask # "none"
    /\ IF profile_available(b, t.ask) THEN SelectProfile(t.ask) ELSE UNCHANGED bridgeVars
    /\ t' = [t EXCEPT !.ask = "none"]
    /\ UNCHANGED <<log, changed>>

Unread == floss.up /\ t.file # t.read

\* The peer looks at its control file in every round.
MockReads ==
    /\ Unread
    /\ t' = [t EXCEPT !.read = t.file]
    /\ IF t.file = "offline" /\ floss.devs # <<>> THEN DeviceGone(Device)
       ELSE /\ floss' = [floss EXCEPT
                    !.devs = CASE t.file = "online" -> <<Device>>
                               [] t.file = "second" -> <<"d2", Device>>
                               [] t.file = "offline" -> <<>>
                               [] OTHER -> @,
                    !.mic = IF t.file \in {"speaker", "headset"} THEN t.file = "headset" ELSE @,
                    !.stall = IF t.file = "stall" THEN 7 ELSE @]
            /\ UNCHANGED <<b, inbox, term, nodes, apps, links, bad>>
    /\ UNCHANGED <<faults, log, changed>>

\* The bridge stops responding, at any point.
Hang ==
    /\ t.hangs /\ ~t.held /\ b.at # "off"
    /\ t' = [t EXCEPT !.held = TRUE]
    /\ UNCHANGED <<bridgeVars, log, changed>>

\* Links are reported at once in the runs in which the bridge may hang.
LagOf(hangs) == IF hangs THEN 0 ELSE Lag

\* Time passes when every process waits for it.
ScriptWaits ==
    \/ Op("wait") /\ t.polled
    \/ Op("sleep") /\ t.left < Now[2]
    \/ Op("reap") /\ b.at # "off" /\ t.left < Seconds(5)

Clock ==
    /\ ScriptWaits /\ ~Unread
    /\ t.held \/ (Waiting /\ (Settled \/ t.lag > 0) /\ (b.at = "run" => t.ask = "none"))
    /\ Elapse
    /\ t' = [t EXCEPT !.left = @ + 1, !.polled = FALSE, !.lag = IF Settled THEN LagOf(t.hangs) ELSE Dec(@)]
    /\ UNCHANGED <<log, changed>>

-----------------------------------------------------------------------------

SmokeInit ==
    /\ b = Off /\ term = FALSE /\ inbox = <<>> /\ nodes = {} /\ apps = {} /\ links = {}
    /\ bad = FALSE /\ faults = 0 /\ changed = {}
    /\ floss = [Mock("msbc") EXCEPT !.up = FALSE]
    /\ log = [last |-> "none", hfp |-> 0, a2dp |-> 0, denied |-> 0, codec |-> {}, silent |-> FALSE]
    /\ \E c \in Cases, h \in BOOLEAN :
        /\ h => c \in HangCases
        /\ t = [case |-> c, hangs |-> h, pc |-> 1, left |-> 0, polled |-> FALSE, ok |-> TRUE,
                file |-> "", read |-> "", ask |-> "none", saved |-> "none", held |-> FALSE, pref |-> "headset",
                seen |-> 0, kills |-> {}, lag |-> LagOf(h)]

SmokeNext ==
    \/ ScriptStep \/ BridgeRuns \/ LinkReported \/ ProfileRequested \/ MockReads \/ Hang \/ Clock

\* Every process of the sandbox is scheduled, and time passes.
SmokeSpec == SmokeInit /\ [][SmokeNext]_svars /\ WF_svars(ScriptStep) /\ WF_svars(Clock)
             /\ WF_svars(BridgeRuns) /\ WF_svars(LinkReported) /\ WF_svars(ProfileRequested)
             /\ WF_svars(MockReads)

-----------------------------------------------------------------------------
(* Properties *)

Over == t.pc > Len(Script[t.case])

\* With a bridge that does not hang none of the modelled assertions of the script, which
\* are about nodes, profiles, selections, codecs and starts, can fail, nor one of the
\* peer's, however the script, the bridge, the peer and PipeWire interleave: the waits of
\* the matrix suffice, and the bridge does what the matrix asks of it.
SmokePasses == ~t.hangs => t.ok

Restarts == {i \in DOMAIN Script[t.case] : Script[t.case][i] = start_bridge}

\* Every script ends, even when the bridge hangs at any point, and leaves no recorder, no
\* bridge and no peer behind.  A case in which the bridge had to be killed is no success,
\* with one exception: the profiles case, when it restarts the bridge, waits for its nodes
\* to go and does not look at how it has ended.
ScriptEnds ==
    <>(/\ Over /\ b.at = "off" /\ ~floss.up /\ apps = {} /\ nodes = {}
       /\ t.ok => \A i \in t.kills : i + 2 \in Restarts)
=============================================================================
