---------------------------- MODULE SmokeScripts ----------------------------
(***************************************************************************)
(* tools/smoke-hci-isolated.py, smoke-aac-isolated.py,                     *)
(* smoke-audio-isolated.py and smoke-bridge-isolated.py: each starts real  *)
(* services as its children, asks them one thing after another, stops them *)
(* in its finally block and writes summary.json.  A script is the sequence *)
(* of its steps; what a step does is the same in all four.  A child may    *)
(* stop for good, stop answering, or answer wrongly at any time, and the   *)
(* script may be interrupted.                                              *)
(***************************************************************************)
EXTENDS Naturals, Sequences

CONSTANTS
    Kinds,          \* the scripts to run, with their options
    Cycles,         \* encoder sessions in the turnover loop of the AAC script
    MaxFaults       \* children and programs that go wrong, and interrupts

ASSUME SmokeScriptsAssumption ==
    /\ Kinds \subseteq {"hci", "hci-self-check", "aac", "audio", "bridge"}
    /\ Cycles \in Nat \ {0} /\ MaxFaults \in Nat

VARIABLES
    kind,      \* the script that runs
    pc,        \* its step
    phase,     \* "try", "finally" or "done"
    verdict,   \* "none", "pass", or "fail" from the moment of the exception
    todo,      \* children the finally block has still to wait for
    proc,      \* per child: "none", "up", "sick", "hung", or its exit "ok" or "bad"
    ready,     \* children whose socket or name exists
    late,      \* children for which a pause or a deadline of the script was too short
    told,      \* children that have been sent SIGTERM
    tool,      \* the program subprocess.run waits for
    fault,     \* per child: what went wrong with it and in which step
    left,      \* what may still go wrong
    summary    \* summary.json: "none", "old" of an earlier run, or "new"

vars == <<kind, pc, phase, verdict, todo, proc, ready, told, tool, fault, left, summary, late>>

\* A mock daemon and a bridge per mode: the first streams both ways, the second ends with
\* an error of the mock's making (five modes in the script), the third plays music.
Mocks == {"mock-normal", "mock-disconnect", "mock-a2dp"}
Bridges == {"bridge-normal", "bridge-disconnect", "bridge-a2dp"}

Children == {"bus", "controller", "adapter", "client", "mmc", "pipewire", "wireplumber", "loop",
             "play", "record", "a2dp-play"} \cup Mocks \cup Bridges

\* A step: what it does, to whom, whom it needs to answer, who must not have exited.
Step(op, who, needs, alive) == [op |-> op, who |-> who, needs |-> needs, alive |-> alive]
StartOf(c) == Step("start", c, {}, {})
FileOf(c, alive) == Step("file", c, {}, alive)
Asks(needs) == Step("query", "none", needs, {})
ToolOn(needs, alive) == Step("tool", "none", needs, alive)
Checks(alive) == Step("alive", "none", {}, alive)

\* n times the steps of s.
Repeat(s, n) == [i \in 1 .. n * Len(s) |-> s[((i - 1) % Len(s)) + 1]]

Served == {"bus", "adapter"}

HciSteps ==
    <<StartOf("bus"), FileOf("bus", {}), StartOf("controller"), FileOf("controller", {})>>
    \o IF kind = "hci-self-check"
       THEN <<StartOf("client"), Step("exits", "client", {}, {})>>
       ELSE <<StartOf("adapter"),
              Step("answers", "adapter", Served, {"adapter", "controller"}),   \* ready
              Asks(Served), Asks(Served),                                      \* the six getters, SetName
              Step("answers", "adapter", Served \cup {"controller"}, {}),      \* renamed
              Checks({"adapter", "controller"}),
              ToolOn(Served, {"adapter"}),                                     \* the socket client
              ToolOn(Served, {"adapter"}),                                     \* the bridge, twice
              Step("stops", "adapter", {}, {})>>

Codec == {"bus", "mmc"}

AacSession == <<Asks(Codec), Asks({"mmc"}), Asks(Codec)>>   \* CodecInit, frames, CodecCleanUp

AacSteps ==
    <<StartOf("bus"), FileOf("bus", {}), StartOf("mmc"), Step("answers", "mmc", Codec, {"mmc"})>>
    \o Repeat(AacSession \o <<ToolOn({}, {})>>, 2)                       \* 44100 and 48000, ffmpeg
    \o Repeat(<<Step("refused", "mmc", Codec, {})>>, 3)                  \* invalid configurations
    \o <<Asks(Codec), Step("closed", "mmc", {"mmc"}, {}), Asks(Codec), Checks({"mmc"})>>
    \o Repeat(AacSession, Cycles)
    \o <<Asks(Codec), ToolOn({"mmc"}, {}), Asks(Codec), Checks({"mmc"})>>
    \o <<Step("write", "none", {}, {})>>

AudioSteps ==
    <<StartOf("bus"), Step("readline", "bus", {"bus"}, {}),
      StartOf("pipewire"), FileOf("pipewire", {"pipewire"}),
      StartOf("wireplumber"), Step("sleep", "wireplumber", {}, {"wireplumber"}),
      ToolOn({"pipewire", "wireplumber"}, {}),                           \* wpctl status
      ToolOn({}, {}), ToolOn({}, {}), ToolOn({}, {}),                    \* help, two rates
      ToolOn({"bus"}, {}),                                               \* no daemon on the bus
      StartOf("loop"), Step("sleep", "loop", {}, {"loop"}),
      ToolOn({"pipewire", "loop"}, {}),                                  \* pw-dump
      ToolOn({"pipewire", "wireplumber"}, {"pipewire", "wireplumber"})>> \* wpctl status

FaultyModeSteps(mock, bridge, steps, end) ==
    <<StartOf(mock), FileOf(mock, {}), StartOf(bridge)>> \o steps
    \o <<Step("stops", mock, {}, {}), Step(end, bridge, {}, {}),
         Step("answers", "pipewire", {"pipewire"}, {})>>

\* One mode of the bridge script: mock, bridge, what it is asked, and the end of both.
ModeSteps(mock, bridge, steps, end) ==
    <<StartOf(mock), FileOf(mock, {}), StartOf(bridge)>> \o steps
    \o <<Step(end, bridge, {}, {}), Step("stops", mock, {}, {}),
         Step("answers", "pipewire", {"pipewire"}, {})>>                 \* no node is left

BridgeSteps ==
    <<StartOf("bus"), FileOf("bus", {}), StartOf("pipewire"), FileOf("pipewire", {}),
      StartOf("wireplumber"), Step("sleep", "wireplumber", {}, {"wireplumber"})>>
    \o ModeSteps("mock-normal", "bridge-normal",
         <<Step("answers", "bridge-normal", {"pipewire", "bridge-normal"}, {}),
           ToolOn({"bus"}, {"bridge-normal"}),                           \* the duplicate
           StartOf("record"), StartOf("play"),
           Step("sleep", "record", {}, {"bridge-normal"}),
           Step("gone", "play", {}, {}), Step("gone", "record", {}, {}),
           Step("heard", "record", {"pipewire", "mock-normal", "bridge-normal"}, {})>>, "stops")
    \o ModeSteps("mock-disconnect", "bridge-disconnect", <<>>, "exits")
    \o ModeSteps("mock-a2dp", "bridge-a2dp",
         <<Step("answers", "bridge-a2dp", {"pipewire", "bridge-a2dp"}, {}),
           StartOf("a2dp-play"), Step("sleep", "a2dp-play", {}, {"bridge-a2dp"}),
           Step("gone", "a2dp-play", {}, {})>>, "stops")

Steps == CASE kind = "bridge" -> BridgeSteps
           [] kind \in {"hci", "hci-self-check"} -> HciSteps
           [] kind = "aac" -> AacSteps
           [] OTHER -> AudioSteps

Now == Steps[pc]
At(op) == phase = "try" /\ pc <= Len(Steps) /\ Now.op = op

Running(c) == proc[c] \in {"up", "sick", "hung"}
Exited(c)  == proc[c] \in {"ok", "bad"}
Answers(c) == proc[c] = "up" /\ c \in ready

\* Whom a child needs before its socket or name exists.
Needs(c) == CASE c = "adapter" -> {"bus", "controller"}
              [] c = "mmc" -> {"bus"}
              [] c = "wireplumber" -> {"bus", "pipewire"}
              [] c \in {"loop", "play", "record", "a2dp-play"} -> {"pipewire"}
              [] c \in Mocks -> {"bus"}
              [] c = "bridge-normal" -> {"bus", "pipewire", "mock-normal"}
              [] c = "bridge-disconnect" -> {"bus", "pipewire", "mock-disconnect"}
              [] c = "bridge-a2dp" -> {"bus", "pipewire", "mock-a2dp"}
              [] OTHER -> {}

\* smoke-audio-isolated.py does not remove the summary of an earlier run.
Unlinked(k) == k # "audio"

Unstarted(ph) ==
    /\ pc = 1 /\ phase = ph /\ verdict = "none" /\ todo = {}
    /\ proc = [c \in Children |-> "none"] /\ ready = {} /\ late = {} /\ told = {} /\ tool = "none"
    /\ fault = [c \in Children |-> [what |-> "none", step |-> 0]]
    /\ left = MaxFaults
    /\ summary = IF Unlinked(kind) THEN "none" ELSE "old"

Init == kind \in Kinds /\ Unstarted("try")

-----------------------------------------------------------------------------
(* The steps of a script *)

Started == {c \in Children : proc[c] # "none"}

\* Every script starts its children in this order, ...
Order == <<"bus", "controller", "adapter", "client", "mmc", "pipewire", "wireplumber", "loop",
           "mock-normal", "bridge-normal", "record", "play", "mock-disconnect", "bridge-disconnect",
           "mock-a2dp", "bridge-a2dp", "a2dp-play">>

Rank == [c \in Children |-> CHOOSE i \in 1 .. Len(Order) : Order[i] = c]

\* ... and takes the last one first in its finally block.
IsLast(c) == \A d \in todo : Rank[d] <= Rank[c]

\* The AAC script sends SIGTERM to all of its children before it waits for one.
ToldFirst == IF kind = "aac" THEN {c \in Children : Running(c)} ELSE {}

Leave(v) ==
    /\ phase' = "finally" /\ verdict' = v
    /\ todo' = Started
    /\ told' = told \cup ToldFirst
    /\ UNCHANGED <<kind, pc>>

Raise == Leave("fail")
Pass == pc' = pc + 1 /\ UNCHANGED <<kind, phase, verdict, todo, told>>

\* assert child.poll() is None, of every child in alive.
Assert(alive) == IF \A c \in alive : Running(c) THEN Pass ELSE Raise

\* start: the program is there, or Popen raises.
Spawn ==
    /\ At("start")
    /\ \/ /\ Pass
          /\ proc' = [proc EXCEPT ![Now.who] = "up"]
          /\ left' = left
       \/ /\ left > 0 /\ Raise
          /\ left' = left - 1
          /\ proc' = proc
    /\ UNCHANGED <<ready, tool, fault, summary, late>>

\* The time of a step is over before these children are ready: too short, if they are well.
TooShort(cs) == late' = late \cup (cs \ ready)

\* Waits for a socket: its file stays when the child is gone.
AwaitFile ==
    /\ At("file")
    /\ \/ (\E c \in Now.alive : Exited(c)) /\ Raise /\ late' = late
       \/ (\A c \in Now.alive : ~Exited(c)) /\ Now.who \in ready /\ Pass /\ late' = late
       \/ Now.who \notin ready /\ TooShort({Now.who}) /\ Raise
    /\ UNCHANGED <<proc, ready, tool, fault, left, summary>>

\* Asks again and again until the answer is the right one or the deadline has passed.
AwaitAnswers ==
    /\ At("answers")
    /\ \/ (\E c \in Now.alive : Exited(c)) /\ Raise /\ late' = late
       \/ /\ \A c \in Now.alive : ~Exited(c)
          /\ (\A c \in Now.needs : Answers(c)) /\ Pass /\ late' = late
       \/ (\E c \in Now.needs : ~Answers(c)) /\ TooShort(Now.needs) /\ Raise
    /\ UNCHANGED <<proc, ready, tool, fault, left, summary>>

\* One question whose answer is compared; no answer within its time raises too.
Ask ==
    /\ At("query")
    /\ IF \A c \in Now.needs : Answers(c) THEN Pass ELSE Raise
    /\ UNCHANGED <<proc, ready, tool, fault, left, summary, late>>

\* The recorded tone: pw-cat may have failed before enough of it was captured, or after,
\* and the pause may have been too short for it.
AskHeard ==
    /\ At("heard")
    /\ \/ (\A c \in Now.needs : Answers(c)) /\ Pass
       \/ (\E c \in Now.needs : ~Answers(c)) /\ Raise
       \/ (\E c \in {"play", "record"} : fault[c].what # "none") /\ Raise
       \/ "record" \in late /\ Raise
    /\ UNCHANGED <<proc, ready, tool, fault, left, summary, late>>

\* A configuration that must be refused: busctl fails as well when nobody answers.
AskRefused ==
    /\ At("refused")
    /\ IF \E c \in Now.needs : proc[c] = "sick" THEN Raise ELSE Pass
    /\ UNCHANGED <<proc, ready, tool, fault, left, summary, late>>

\* A malformed frame must close the socket; it closes as well when the service dies.
AskClosed ==
    /\ At("closed")
    /\ \/ Answers(Now.who) /\ Pass
       \/ Exited(Now.who) /\ (Pass \/ Raise)
       \/ proc[Now.who] \in {"sick", "hung"} /\ Raise
    /\ UNCHANGED <<proc, ready, tool, fault, left, summary, late>>

CheckAlive ==
    /\ At("alive")
    /\ Assert(Now.alive)
    /\ UNCHANGED <<proc, ready, tool, fault, left, summary, late>>

\* A fixed sleep, long enough for the child or not, and a look at whether it runs.
SleepThenCheck ==
    /\ At("sleep")
    /\ TooShort({Now.who})
    /\ Assert(Now.alive)
    /\ UNCHANGED <<proc, ready, tool, fault, left, summary>>

\* readline has no deadline; after a line that is no address stderr is read to its end.
ReadAddress ==
    /\ At("readline")
    /\ \/ Answers("bus") /\ Pass
       \/ Exited("bus") /\ Raise
    /\ UNCHANGED <<proc, ready, tool, fault, left, summary, late>>

\* child.wait with a deadline; its exit code must be zero.
AwaitExit ==
    /\ At("exits")
    /\ \/ proc[Now.who] = "ok" /\ Pass
       \/ proc[Now.who] \in {"bad", "hung"} /\ Raise
    /\ UNCHANGED <<proc, ready, tool, fault, left, summary, late>>

FaultyStopChecked ==
    /\ At("stops")
    /\ \/ /\ Now.who \notin told
          /\ told' = told \cup {Now.who}
          /\ UNCHANGED <<kind, pc, phase, verdict, todo>>
       \/ Now.who \in told /\ (Exited(Now.who) \/ proc[Now.who] = "hung") /\ Pass
    /\ UNCHANGED <<proc, ready, tool, fault, left, summary, late>>

\* adapter.terminate, and wait: it must end in time with exit code zero.
StopChecked ==
    /\ At("stops")
    /\ \/ /\ Now.who \notin told
          /\ told' = told \cup {Now.who}
          /\ UNCHANGED <<kind, pc, phase, verdict, todo>>
       \/ Now.who \in told /\ proc[Now.who] = "ok" /\ Pass
       \/ Now.who \in told /\ proc[Now.who] \in {"bad", "hung"} /\ Raise
    /\ UNCHANGED <<proc, ready, tool, fault, left, summary, late>>

\* stop: SIGTERM, SIGKILL after its time; the exit code is not looked at.
StopAnyhow ==
    /\ At("gone")
    /\ LET c == Now.who IN
       \/ /\ Running(c) /\ c \notin told
          /\ told' = told \cup {c}
          /\ UNCHANGED <<kind, pc, phase, verdict, todo, proc>>
       \/ Exited(c) /\ Pass /\ proc' = proc
       \/ c \in told /\ proc[c] = "hung" /\ Pass /\ proc' = [proc EXCEPT ![c] = "bad"]
    /\ UNCHANGED <<ready, tool, fault, left, summary, late>>

\* subprocess.run: the program starts ...
RunTool ==
    /\ At("tool") /\ tool = "none"
    /\ tool' = "up"
    /\ UNCHANGED <<kind, pc, phase, verdict, todo, proc, ready, told, fault, left, summary, late>>

\* ... and ends with the expected code, with another, or is killed when its time is over.
ToolEnds ==
    /\ At("tool") /\ tool # "none"
    /\ \/ /\ tool = "up"
          /\ IF \A c \in Now.needs : Answers(c) THEN Assert(Now.alive) ELSE Raise
       \/ tool = "hung" /\ Raise
    /\ tool' = "none"
    /\ UNCHANGED <<proc, ready, fault, left, summary, late>>

\* The AAC script writes its summary as the last step of the try block.
WriteInside ==
    /\ At("write")
    /\ summary' = "new"
    /\ Pass
    /\ UNCHANGED <<proc, ready, tool, fault, left, late>>

EndTry ==
    /\ phase = "try" /\ pc > Len(Steps)
    /\ Leave("pass")
    /\ UNCHANGED <<proc, ready, tool, fault, left, summary, late>>

-----------------------------------------------------------------------------
(* The finally block and what follows it *)

\* SIGTERM, if the child has not exited and has not been sent it before.
Terminate ==
    /\ phase = "finally"
    /\ \E c \in todo : /\ IsLast(c) /\ Running(c) /\ c \notin told
                      /\ told' = told \cup {c}
    /\ UNCHANGED <<kind, pc, phase, verdict, todo, proc, ready, tool, fault, left, summary, late>>

FaultyReap ==
    /\ phase = "finally"
    /\ \E c \in todo : /\ IsLast(c) /\ (Exited(c) \/ (c \in told /\ proc[c] = "hung"))
                      /\ todo' = todo \ {c}
    /\ UNCHANGED <<kind, pc, phase, verdict, proc, ready, told, tool, fault, left, summary, late>>

\* wait: the child has exited, or its time is over and it gets SIGKILL.
Reap ==
    /\ phase = "finally"
    /\ \E c \in todo :
         /\ IsLast(c)
         /\ \/ Exited(c) /\ proc' = proc
            \/ c \in told /\ proc[c] = "hung" /\ proc' = [proc EXCEPT ![c] = "bad"]
         /\ todo' = todo \ {c}
    /\ UNCHANGED <<kind, pc, phase, verdict, ready, told, tool, fault, left, summary, late>>

\* After the finally block the exception goes on, or summary.json is written.
Finish ==
    /\ phase = "finally" /\ todo = {}
    /\ phase' = "done"
    /\ summary' = IF verdict = "pass" THEN "new" ELSE summary
    /\ UNCHANGED <<kind, pc, verdict, todo, proc, ready, told, tool, fault, left, late>>

-----------------------------------------------------------------------------
(* The children, and what goes wrong *)

\* Nobody looks whether a player has begun.
BecomeReady(c) ==
    /\ proc[c] = "up" /\ c \notin ready \cup {"play", "a2dp-play"}
    /\ \A d \in Needs(c) : Answers(d)
    /\ ready' = ready \cup {c}
    /\ UNCHANGED <<kind, pc, phase, verdict, todo, proc, told, tool, fault, left, summary, late>>

\* A child ends on SIGTERM; one that has gone wrong ends with an error.
Obey(c) ==
    /\ c \in told /\ proc[c] \in {"up", "sick"}
    /\ proc' = [proc EXCEPT ![c] = IF proc[c] = "up" THEN "ok" ELSE "bad"]
    /\ UNCHANGED <<kind, pc, phase, verdict, todo, ready, told, tool, fault, left, summary, late>>

\* The fixture client of --self-check ends by itself, and so does the bridge whose mock
\* closes the PCM socket; "ok" is the end that the script expects.
EndsAlone(c) ==
    /\ c \in {"client", "bridge-disconnect"} /\ proc[c] \in {"up", "sick"}
    /\ \E peer \in {IF c = "client" THEN "controller" ELSE "mock-disconnect"} :
         proc' = [proc EXCEPT ![c] = IF proc[c] = "up" /\ Answers(peer) THEN "ok" ELSE "bad"]
    /\ UNCHANGED <<kind, pc, phase, verdict, todo, ready, told, tool, fault, left, summary, late>>

\* A child dies, stops answering (and does not end on SIGTERM), or answers wrongly.
GoWrong(c) ==
    /\ left > 0 /\ proc[c] = "up"
    /\ \E w \in {"bad", "hung", "sick"} :
         /\ proc' = [proc EXCEPT ![c] = w]
         /\ fault' = [fault EXCEPT ![c] = [what |-> w, step |-> pc]]
    /\ left' = left - 1
    /\ UNCHANGED <<kind, pc, phase, verdict, todo, ready, told, tool, summary, late>>

\* The program of a tool step never ends: it hangs, or whom it asks does.
ToolHangs ==
    /\ tool = "up" /\ (left > 0 \/ \E c \in Now.needs : proc[c] = "hung")
    /\ tool' = "hung"
    /\ left' = IF \E c \in Now.needs : proc[c] = "hung" THEN left ELSE left - 1
    /\ UNCHANGED <<kind, pc, phase, verdict, todo, proc, ready, told, fault, summary, late>>

\* KeyboardInterrupt in the try block; subprocess.run kills its program.
Interrupt ==
    /\ phase = "try" /\ left > 0
    /\ Raise
    /\ tool' = "none"
    /\ left' = left - 1
    /\ UNCHANGED <<proc, ready, fault, summary, late>>

\* It comes after Popen and before the child is in the list of the finally block.
InterruptSpawn ==
    /\ At("start") /\ left > 0
    /\ Raise
    /\ proc' = [proc EXCEPT ![Now.who] = "up"]
    /\ left' = left - 1
    /\ UNCHANGED <<ready, tool, fault, summary, late>>

ScriptStep ==
    \/ Spawn \/ AwaitFile \/ AwaitAnswers \/ Ask \/ AskHeard \/ AskRefused \/ AskClosed \/ CheckAlive
    \/ SleepThenCheck \/ ReadAddress \/ AwaitExit \/ StopChecked \/ StopAnyhow \/ RunTool \/ ToolEnds
    \/ WriteInside \/ EndTry \/ Terminate \/ Reap \/ Finish

ChildStep(c) == BecomeReady(c) \/ Obey(c) \/ EndsAlone(c)

Next == \/ ScriptStep \/ ToolHangs \/ Interrupt \/ InterruptSpawn
        \/ \E c \in Children : ChildStep(c) \/ GoWrong(c)

Fairness ==
    /\ WF_vars(ScriptStep)
    /\ \A c \in Children : WF_vars(ChildStep(c))

Spec == Init /\ [][Next]_vars /\ Fairness

-----------------------------------------------------------------------------
(* What the scripts promise *)

\* The last step that looks at c: every step that needs its answer, and for its death
\* also the polls.  A refusal and a closed socket are what a dead service gives too.
LastLook(c, what) ==
    LET looks == {i \in 1 .. Len(Steps) :
                    /\ Steps[i].op \notin {"refused", "closed"}
                    /\ \/ c \in Steps[i].needs
                       \/ Steps[i].op \in {"stops", "exits"} /\ Steps[i].who = c
                       \/ what = "bad" /\ c \in Steps[i].alive}
    IN IF looks = {} THEN 0 ELSE CHOOSE i \in looks : \A j \in looks : j <= i

\* A script passes, and writes its summary, only if every service was alive and gave the
\* right answers up to the last step about it: a service that dies when it is given an
\* invalid configuration, or between two polls, fails the script, and no pause that was
\* too short lets it pass.
PassIsReal ==
    verdict = "pass" \/ summary = "new" =>
        \A c \in Children : fault[c].what # "none" => fault[c].step > LastLook(c, fault[c].what)

\* A script fails only if a child or a program went wrong, if it was interrupted, or at a
\* step that asks a child for which this or an earlier wait was too short.  No step relies
\* on a child that nothing before it has waited for, or that the script has stopped.
NoFalseAlarm ==
    verdict = "fail" =>
        \/ left < MaxFaults
        \/ late \cap (Now.needs \cup {Now.who}) # {}

\* The child of the step at which the script was left, when that step is a start.
Orphan(c) == pc <= Len(Steps) /\ Now.op = "start" /\ Now.who = c

\* When a script has ended nothing runs that it has started, wherever it failed or was
\* interrupted, and whether the child obeys SIGTERM or not.  The one exception is a child
\* whose start was interrupted before the script had it in its list of children.
NothingLeft == phase = "done" => tool = "none" /\ \A c \in Children : Running(c) => Orphan(c)

\* The bus of smoke-audio-isolated.py runs but does not give its address.
NoAddress == phase = "try" /\ kind = "audio" /\ pc = 2 /\ proc["bus"] \in {"hung", "sick"}

\* A script ends whichever child or program hangs, and leaves nothing running, unless it
\* waits for the address of the bus: the readline of smoke-audio-isolated.py has no
\* deadline.  Every other wait has one, and the finally block terminates, waits and kills.
ScriptEnds == <>(NoAddress \/ (phase = "done" /\ NothingLeft))
=============================================================================
