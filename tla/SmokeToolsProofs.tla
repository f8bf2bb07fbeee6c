-------------------------- MODULE SmokeToolsProofs --------------------------
(* Proofs about SmokeTools: the verdicts of the smoke tests are right, for    *)
(* any number of cycles, faults, interrupts and stubborn processes.           *)
EXTENDS SmokeTools, WellFoundedInduction, TLAPS

-----------------------------------------------------------------------------
(* smoke-kde-isolated.py.  Nothing depends on which cases there are.          *)

KdeCodes == {"new", "runs", "0", "1", "term", "crash", "killed"}
KdeStops == {"policy", "observer", "mock", "exit"}
KdePlaces == {"off", "main", "poll", "exec", "call", "headless"} \cup KdeStops

KdeType ==
    /\ runner \in [at : {"start", "wait", "killpg", "reap", "verdict"}, i : Nat, timed : BOOLEAN]
    /\ worker \in [at : KdePlaces, res : KdeCodes]
    /\ state \in [Kde!Procs -> KdeCodes]

\* Between two cases nothing runs, and a worker that has not begun has started nothing.
KdeFresh ==
    /\ runner.at = "start" => worker.at = "off" /\ \A p \in Kde!Procs : state[p] = "new"
    /\ worker.at \in {"off", "main"} => log = {} /\ \A c \in Kde!Children : state[c] = "new"
    /\ worker.at = "poll" => state["command"] = "new"

\* The files are those of this case once its worker has removed the others, and
\* without a mock nobody writes one.
KdeOwnFiles ==
    runner.at # "start" =>
        /\ ~Kde!UsesMock => state["mock"] = "new"
        /\ Kde!UsesMock /\ worker.at # "main"
             => files \subseteq {Kde!File("ready"), Kde!File("reconnected")}
        /\ Kde!UsesMock /\ state["command"] # "new" => Kde!File("ready") \in files
        /\ "recovered" \in log => Kde!File("reconnected") \in files
        /\ "sequence" \in log => "recovered" \in log

\* Success is handed on from the program to the worker and to dbus-run-session.
KdeSuccess ==
    runner.at # "start" =>
        /\ worker.at # "off"
        /\ worker.at = "exec" => ~Kde!UsesMock
        /\ worker.at = "headless" => state["command"] = "0"
        /\ worker.at \in KdeStops /\ worker.res = "0" =>
             state["command"] = "0" /\ (Kde!Headless => Kde!File("reconnected") \in files)
        /\ state["worker"] = "0" => state["command"] = "0"
        /\ state["leader"] = "0" => state["worker"] = "0"

KdeInv == KdeType /\ KdeFresh /\ KdeOwnFiles /\ KdeSuccess

LEMMA KdeInit == ASSUME Kde!Init \/ Kde!Unstarted(Len(KdeCases) + 1) PROVE KdeInv
<1>1. PICK n \in Nat : Kde!Unstarted(n)
  <2>1. Len(KdeCases) + 1 \in Nat
    BY DEF KdeCases
  <2> QED BY <2>1 DEF Kde!Init
<1> USE <1>1 DEF Kde!Unstarted, Kde!Idle
<1>2. KdeType
  BY DEF KdeType, KdeCodes, KdePlaces, KdeStops
<1>3. KdeFresh /\ KdeOwnFiles /\ KdeSuccess
  BY DEF KdeFresh, KdeOwnFiles, KdeSuccess, Kde!Procs, Kde!Children
<1> QED BY <1>2, <1>3 DEF KdeInv

LEMMA KdeRunner == ASSUME KdeInv, Kde!RunnerStep PROVE KdeInv'
<1> USE DEF KdeInv, KdeType, KdeFresh, KdeOwnFiles, KdeSuccess, KdeCodes, KdePlaces, KdeStops,
            Kde!Procs, Kde!Children, Kde!Case, Kde!UsesMock, Kde!Headless, Kde!File, Kde!Runs, Kde!Over,
            Kde!Idle
<1>1. CASE Kde!StartCase
  BY <1>1 DEF Kde!StartCase
<1>2. CASE Kde!WaitCase
  <2>1. /\ runner' \in [at : {"start", "wait", "killpg", "reap", "verdict"}, i : Nat, timed : BOOLEAN]
        /\ runner'.at = "killpg" /\ runner'.i = runner.i
    BY <1>2, Zenon DEF Kde!WaitCase
  <2> QED BY <1>2, <2>1 DEF Kde!WaitCase
<1>3. CASE Kde!KillGroup
  BY <1>3 DEF Kde!KillGroup
<1>4. CASE Kde!ReapLeader
  BY <1>4 DEF Kde!ReapLeader
<1>5. CASE Kde!EndCase
  <2>1. /\ runner' \in [at : {"start", "wait", "killpg", "reap", "verdict"}, i : Nat, timed : BOOLEAN]
        /\ runner'.at = "start"
    <3>1. runner.i + 1 \in Nat
      OBVIOUS
    <3> QED BY <1>5, <3>1, Zenon DEF Kde!EndCase
  <2>2. worker' \in [at : KdePlaces, res : KdeCodes] /\ worker'.at = "off"
    BY <1>5 DEF Kde!EndCase
  <2>3. state' \in [Kde!Procs -> KdeCodes] /\ \A p \in Kde!Procs : state'[p] = "new"
    BY <1>5 DEF Kde!EndCase
  <2>4. log' = {}
    BY <1>5 DEF Kde!EndCase
  <2> QED BY <2>1, <2>2, <2>3, <2>4
<1> QED BY <1>1, <1>2, <1>3, <1>4, <1>5 DEF Kde!RunnerStep

LEMMA KdeWorker == ASSUME KdeInv, Kde!WorkerStep PROVE KdeInv'
<1> USE DEF KdeInv, KdeType, KdeFresh, KdeOwnFiles, KdeSuccess, KdeCodes, KdePlaces, KdeStops,
            Kde!Procs, Kde!Children, Kde!Case, Kde!UsesMock, Kde!Headless, Kde!File, Kde!Runs, Kde!Over,
            Kde!Exists, Kde!At, Kde!Spawn, Kde!Worker
<1>1. CASE Kde!WorkerMain
  BY <1>1 DEF Kde!WorkerMain
<1>2. CASE Kde!WorkerExec
  <2>1. state["command"] \in KdeCodes
    OBVIOUS
  <2>2. worker' \in [at : KdePlaces, res : KdeCodes] /\ worker'.at = "exit"
        /\ worker'.res = state["command"]
    BY <1>2, <2>1 DEF Kde!WorkerExec
  <2>3. UNCHANGED <<runner, state, files, log>> /\ worker.at = "exec" /\ runner.at # "start"
    BY <1>2 DEF Kde!WorkerExec
  <2> QED BY <2>2, <2>3
<1>3. CASE Kde!WorkerPoll
  BY <1>3 DEF Kde!WorkerPoll
<1>4. CASE Kde!WorkerCall
  BY <1>4 DEF Kde!WorkerCall
<1>5. CASE Kde!WorkerHeadless
  BY <1>5 DEF Kde!WorkerHeadless
<1>6. CASE Kde!WorkerExit
  BY <1>6 DEF Kde!WorkerExit
<1>7. ASSUME NEW c \in {"policy", "observer", "mock"}, Kde!WorkerStop(c) PROVE KdeInv'
  BY <1>7 DEF Kde!WorkerStop, Kde!After
<1> QED BY <1>1, <1>2, <1>3, <1>4, <1>5, <1>6, <1>7 DEF Kde!WorkerStep

LEMMA KdeOthers ==
    ASSUME KdeInv,
           \/ Kde!Mock \/ Kde!Observer \/ Kde!Command
           \/ \E p \in Kde!Procs : Kde!Ends(p)
           \/ \E p \in Kde!Children \cup {"leader"} : Kde!Hangs(p)
    PROVE  KdeInv'
<1> USE DEF KdeInv, KdeType, KdeFresh, KdeOwnFiles, KdeSuccess, KdeCodes, KdePlaces, KdeStops,
            Kde!Procs, Kde!Children, Kde!Case, Kde!UsesMock, Kde!Headless, Kde!File, Kde!Runs, Kde!Writes
<1>1. CASE Kde!Mock
  BY <1>1 DEF Kde!Mock
<1>2. CASE Kde!Observer
  BY <1>2 DEF Kde!Observer
<1>3. CASE Kde!Command
  BY <1>3 DEF Kde!Command
<1>4. ASSUME NEW p \in Kde!Procs, Kde!Ends(p) PROVE KdeInv'
  BY <1>4 DEF Kde!Ends
<1>5. ASSUME NEW p \in Kde!Children \cup {"leader"}, Kde!Hangs(p) PROVE KdeInv'
  BY <1>5 DEF Kde!Hangs
<1> QED BY <1>1, <1>2, <1>3, <1>4, <1>5

LEMMA KdeReal == ASSUME KdeInv PROVE KdePassIsReal
<1>1. ASSUME runner.at # "start", Kde!Headless, worker.at \in Kde!Children, worker.res = "0"
      PROVE  Kde!File("reconnected") \in files
  <2>1. worker.at \in KdeStops
    BY <1>1 DEF KdeInv, KdeType, KdePlaces, KdeStops, Kde!Children
  <2> QED BY <1>1, <2>1 DEF KdeInv, KdeSuccess
<1>2. ASSUME runner.at = "verdict", Kde!Case # "kcm", Kde!Verdict
      PROVE  /\ state["worker"] = "0" /\ state["command"] = "0"
             /\ Kde!UsesPolicy => Kde!File("reconnected") \in files
  <2>1. state["leader"] = "0"
    BY <1>2 DEF Kde!Verdict
  <2>2. ASSUME Kde!UsesPolicy PROVE "recovered" \in log
    <3>1. CASE Kde!Case = "mock-reconnect"
      BY <1>2, <3>1 DEF Kde!Verdict, KdeInv, KdeOwnFiles
    <3>2. CASE Kde!Case = "mock-headless"
      BY <1>2, <3>2 DEF Kde!Verdict
    <3> QED BY <2>2, <3>1, <3>2 DEF Kde!UsesPolicy
  <2> QED BY <1>2, <2>1, <2>2 DEF KdeInv, KdeOwnFiles, KdeSuccess
<1>3. ASSUME runner.at # "start", Kde!UsesMock, state["command"] # "new"
      PROVE  Kde!File("ready") \in files
  BY <1>3 DEF KdeInv, KdeOwnFiles
<1> QED BY <1>1, <1>2, <1>3 DEF KdePassIsReal, Kde!PassIsReal

LEMMA KdeNext == KdeInv /\ [Kde!Next]_Kde!vars => KdeInv'
<1>1. ASSUME KdeInv, UNCHANGED Kde!vars PROVE KdeInv'
  BY <1>1 DEF KdeInv, KdeType, KdeFresh, KdeOwnFiles, KdeSuccess, Kde!vars, Kde!Case, Kde!UsesMock,
              Kde!Headless, Kde!File
<1> QED BY <1>1, KdeRunner, KdeWorker, KdeOthers DEF Kde!Next

\* Whoever runs once the group has been signalled has been sent SIGTERM, the leader does
\* not run when it has been waited for, and the worker does not ignore signals.
KdeClean ==
    /\ Kde!NothingLeaks
    /\ runner.at \in {"reap", "verdict"} => \A p \in Kde!Procs : state[p] = "runs" => p \in term
    /\ runner.at = "verdict" => state["leader"] # "runs"
    /\ stubborn \subseteq Kde!Children \cup {"leader"}

LEMMA KdeCleanNext == ASSUME KdeInv, KdeClean, [Kde!Next]_Kde!vars PROVE KdeClean'
<1> USE DEF KdeClean
<1>1. CASE UNCHANGED Kde!vars
  BY <1>1 DEF Kde!vars, Kde!NothingLeaks
<1>2. CASE Kde!RunnerStep
  <2>1. CASE Kde!StartCase \/ Kde!WaitCase
    <3>1. runner'.at \in {"wait", "killpg"} /\ stubborn' = stubborn /\ leaked' \in {leaked, {}}
      BY <2>1 DEF KdeInv, KdeType, Kde!StartCase, Kde!WaitCase
    <3> QED BY <3>1 DEF Kde!NothingLeaks
  <2>2. CASE Kde!KillGroup
    BY <2>2 DEF KdeInv, KdeType, Kde!KillGroup, Kde!Runs, Kde!NothingLeaks
  <2>3. CASE Kde!ReapLeader
    <3>1. \A p \in Kde!Procs : state'[p] = "runs" => state[p] = "runs"
      BY <2>3 DEF Kde!ReapLeader, Kde!Runs
    <3>2. state'["leader"] # "runs"
      BY <2>3 DEF Kde!ReapLeader, Kde!Runs, Kde!Procs
    <3>3. UNCHANGED <<term, stubborn, leaked>> /\ runner.at = "reap"
      BY <2>3 DEF Kde!ReapLeader
    <3> QED BY <3>1, <3>2, <3>3 DEF Kde!NothingLeaks
  <2>4. CASE Kde!EndCase
    <3>1. \A p \in Kde!Remaining : p \in Kde!Children /\ p \in stubborn
      BY <2>4 DEF Kde!EndCase, Kde!Remaining, Kde!Signalled, Kde!Runs
    <3>2. leaked' = {[who |-> p, deaf |-> p \in stubborn] : p \in Kde!Remaining}
      BY <2>4 DEF Kde!EndCase
    <3>3. Kde!NothingLeaks'
      <4> SUFFICES ASSUME NEW q \in leaked' PROVE q.who \in Kde!Children /\ q.deaf
        BY DEF Kde!NothingLeaks
      <4>1. PICK p \in Kde!Remaining : q = [who |-> p, deaf |-> p \in stubborn]
        BY <3>2
      <4>2. q.who = p /\ q.deaf = (p \in stubborn)
        BY <4>1
      <4> QED BY <3>1, <4>2
    <3>4. runner'.at = "start" /\ stubborn' = {}
      BY <2>4 DEF KdeInv, KdeType, Kde!EndCase
    <3> QED BY <3>3, <3>4
  <2> QED BY <1>2, <2>1, <2>2, <2>3, <2>4 DEF Kde!RunnerStep
<1>3. CASE Kde!WorkerStep
  <2>1. state["worker"] = "runs" /\ "worker" \notin term
    BY <1>3 DEF Kde!WorkerStep, Kde!WorkerMain, Kde!WorkerExec, Kde!WorkerPoll, Kde!WorkerCall,
                Kde!WorkerHeadless, Kde!WorkerExit, Kde!WorkerStop, Kde!At, Kde!Runs
  <2>2. runner.at \notin {"reap", "verdict"}
    BY <2>1 DEF Kde!Procs
  <2>3. UNCHANGED <<runner, stubborn, leaked>>
    BY <1>3 DEF Kde!WorkerStep, Kde!WorkerMain, Kde!WorkerExec, Kde!WorkerPoll, Kde!WorkerCall,
                Kde!WorkerHeadless, Kde!WorkerExit, Kde!WorkerStop, Kde!Worker
  <2> QED BY <2>2, <2>3 DEF Kde!NothingLeaks
<1>4. CASE Kde!Mock \/ Kde!Observer
  BY <1>4 DEF Kde!Mock, Kde!Observer, Kde!Writes, Kde!NothingLeaks
<1>5. CASE Kde!Command \/ \E p \in Kde!Procs : Kde!Ends(p)
  <2>1. UNCHANGED <<runner, term, stubborn, leaked>>
    BY <1>5 DEF Kde!Command, Kde!Ends, Kde!Writes
  <2>2. state' = state \/ \E p, w : w # "runs" /\ state' = [state EXCEPT ![p] = w]
    BY <1>5 DEF Kde!Command, Kde!Ends, Kde!Writes
  <2>3. \A p \in Kde!Procs : state'[p] = "runs" => state[p] = "runs"
    BY <2>2 DEF KdeInv, KdeType
  <2> QED BY <2>1, <2>3 DEF Kde!Procs, Kde!NothingLeaks
<1>6. CASE \E p \in Kde!Children \cup {"leader"} : Kde!Hangs(p)
  BY <1>6 DEF Kde!Hangs, Kde!NothingLeaks
<1> QED BY <1>1, <1>2, <1>3, <1>4, <1>5, <1>6 DEF Kde!Next

\* smoke-kde-isolated.py does not take the files of an earlier case for those of its own,
\* and a case that passes has ended with success after the recovery its mock reports.
THEOREM KdeVerdictsReal == ToolSpec => []KdePassIsReal
<1>1. ToolInit => KdeInv
  BY KdeInit DEF ToolInit
<1>2. KdeInv /\ [ToolNext]_toolVars => KdeInv'
  BY KdeNext DEF ToolNext, toolVars, Kde!vars
<1>3. KdeInv => KdePassIsReal
  BY KdeReal
<1> QED BY <1>1, <1>2, <1>3, PTL DEF ToolSpec

\* Whatever outlives its case is a child of the worker that ignores SIGTERM: the signal to
\* the group reaches whom the worker's own clean-up has not, nobody starts a process after
\* it, and a dbus-run-session that ignores it is killed.
THEOREM KdeLeavesNothing == ToolSpec => []KdeNothingLeaks
<1>1. ToolInit => KdeInv /\ KdeClean
  <2>1. Kde!Init \/ Kde!Unstarted(Len(KdeCases) + 1) => KdeClean
    BY DEF Kde!Init, Kde!Unstarted, KdeClean, Kde!NothingLeaks
  <2> QED BY <2>1, KdeInit DEF ToolInit
<1>2. KdeInv /\ KdeClean /\ [ToolNext]_toolVars => KdeInv' /\ KdeClean'
  BY KdeNext, KdeCleanNext DEF ToolNext, toolVars, Kde!vars
<1>3. KdeClean => KdeNothingLeaks
  BY DEF KdeClean, KdeNothingLeaks
<1> QED BY <1>1, <1>2, <1>3, PTL DEF ToolSpec

-----------------------------------------------------------------------------
(* The other scripts.  A script has a plan: an outlook before every step and   *)
(* after the last one, which tells whom it has started, whom it has not        *)
(* stopped since, and who has been seen ready.  What a step relies on is read  *)
(* off its outlook, so that the proofs about the actions need no script's      *)
(* steps; that each script has a plan is proved once, part by part.            *)

\* What is known of the children at a step of a script in which nothing goes wrong:
\* who has been started, who has not been stopped since, and who has been seen ready.
Outlooks == [started : SUBSET Children, up : SUBSET Children, ready : SUBSET Children]
Outlook(s, u, r) == [started |-> s, up |-> u, ready |-> r]

\* Children that end by themselves, and whom they need until then.
Alone == {"client", "bridge-disconnect"}
Peer(c) == IF c = "client" THEN "controller" ELSE "mock-disconnect"
Steady(x) == x.up \ Alone
Peers == {"controller", "mock-disconnect"}

Ops == {"start", "file", "answers", "query", "heard", "refused", "closed", "alive", "sleep", "readline",
        "exits", "stops", "gone", "tool", "write"}
StepSet == [op : Ops, who : Children \cup {"none"}, needs : SUBSET Children, alive : SUBSET Children]

\* What a step makes of it.
Begun(s) == IF s.op = "start" THEN {s.who} ELSE {}
Ended(s) == IF s.op \in {"exits", "stops", "gone"} THEN {s.who} ELSE {}
Shown(s) == IF s.op \in {"file", "sleep"} THEN {s.who}
            ELSE IF s.op \in {"answers", "readline"} THEN s.needs ELSE {}

\* What a step relies on, and which children it says nothing about.
Reliable(s, x) ==
    /\ s.op \in {"start", "file", "sleep", "alive", "exits", "stops", "gone"} => s.needs = {}
    /\ s.op \in {"start", "query", "heard", "refused", "closed", "readline", "exits", "stops", "gone"}
         => s.alive = {}
    /\ s.op = "start" => /\ s.who \in Children \ x.started
                         /\ s.who \in Alone => Peer(s.who) \in x.up \cap x.ready
    /\ s.op \in {"file", "sleep"} => s.who \in Steady(x) /\ Needs(s.who) \subseteq Steady(x)
    /\ s.op = "answers" => \A c \in s.needs : c \in x.ready \/ Needs(c) \subseteq Steady(x)
    /\ s.op \in {"query", "heard", "tool"} => s.needs \subseteq x.ready
    /\ s.op = "heard" => s.who = "record"
    /\ s.op = "sleep" => s.who \notin Peers
    /\ s.op = "closed" => s.who \in Steady(x) \cap x.ready
    /\ s.op = "readline" => s.needs = {"bus"}
    /\ s.op = "exits" => s.who \in x.up \cap Alone
    /\ s.op \in {"stops", "gone"} => s.who \in Steady(x) /\ \A c \in x.up \cap Alone : Peer(c) # s.who
    /\ s.needs \cup s.alive \subseteq Steady(x)
    /\ s.op # "write"

Fits(s, x, y) ==
    /\ s \in StepSet /\ Reliable(s, x)
    /\ y.started = x.started \cup Begun(s)
    /\ y.up = (x.up \cup Begun(s)) \ Ended(s)
    /\ y.ready = x.ready \cup Shown(s)

\* The steps of s lead from the outlook x to the outlook y.
Leads(s, x, y) ==
    /\ s \in Seq(StepSet)
    /\ \E a \in [1 .. Len(s) + 1 -> Outlooks] :
         /\ a[1] = x /\ a[Len(s) + 1] = y
         /\ \A i \in 1 .. Len(s) : Fits(s[i], a[i], a[i + 1])

\* The plan of two parts, one after the other.
LEMMA LeadsConcat ==
    ASSUME NEW s, NEW t, NEW x, NEW y, NEW z, Leads(s, x, y), Leads(t, y, z)
    PROVE  Leads(s \o t, x, z)
<1>1. PICK a \in [1 .. Len(s) + 1 -> Outlooks] :
        /\ a[1] = x /\ a[Len(s) + 1] = y
        /\ \A i \in 1 .. Len(s) : Fits(s[i], a[i], a[i + 1])
  BY DEF Leads
<1>2. PICK b \in [1 .. Len(t) + 1 -> Outlooks] :
        /\ b[1] = y /\ b[Len(t) + 1] = z
        /\ \A i \in 1 .. Len(t) : Fits(t[i], b[i], b[i + 1])
  BY DEF Leads
<1>3. s \in Seq(StepSet) /\ t \in Seq(StepSet) /\ Len(s) \in Nat /\ Len(t) \in Nat
  BY DEF Leads
<1>4. PICK m \in Nat, n \in Nat : m = Len(s) /\ n = Len(t)
  BY <1>3
<1> DEFINE c == [i \in 1 .. m + n + 1 |-> IF i <= m THEN a[i] ELSE b[i - m]]
<1>5. c \in [1 .. m + n + 1 -> Outlooks]
  BY <1>1, <1>2, <1>4
<1>6. c[1] = x /\ c[m + n + 1] = z
  BY <1>1, <1>2, <1>4
<1>7. s \o t \in Seq(StepSet) /\ Len(s \o t) = m + n
  BY <1>3, <1>4
<1>8. ASSUME NEW i \in 1 .. m + n PROVE Fits((s \o t)[i], c[i], c[i + 1])
  <2>1. CASE i <= m
    <3>1. (s \o t)[i] = s[i] /\ c[i] = a[i] /\ c[i + 1] = a[i + 1]
      BY <2>1, <1>1, <1>2, <1>3, <1>4
    <3> QED BY <3>1, <2>1, <1>1, <1>4
  <2>2. CASE i > m
    <3>1. PICK j \in 1 .. n : j = i - m
      BY <2>2
    <3>2. (s \o t)[i] = t[j] /\ c[i] = b[j] /\ c[i + 1] = b[j + 1]
      BY <2>2, <3>1, <1>3, <1>4
    <3> QED BY <3>1, <3>2, <1>2, <1>4
  <2>3. i <= m \/ i > m
    OBVIOUS
  <2> QED BY <2>1, <2>2, <2>3
<1> HIDE DEF c
<1> QED BY <1>5, <1>6, <1>7, <1>8 DEF Leads

\* Steps that leave an outlook as it is.
Still(x) == {s \in StepSet : Fits(s, x, x)}

\* They may be taken any number of times.
LEMMA LeadsStill ==
    ASSUME NEW x \in Outlooks, NEW s \in Seq(Still(x))
    PROVE  Leads(s, x, x)
<1>1. PICK n \in Nat : n = Len(s)
  OBVIOUS
<1>2. s \in Seq(StepSet) /\ \A i \in 1 .. n : Fits(s[i], x, x)
  BY <1>1 DEF Still
<1>3. PICK a \in [1 .. n + 1 -> Outlooks] : \A i \in 1 .. n + 1 : a[i] = x
  <2>1. [i \in 1 .. n + 1 |-> x] \in [1 .. n + 1 -> Outlooks]
    OBVIOUS
  <2> QED BY <2>1
<1>4. a[1] = x /\ a[n + 1] = x /\ \A i \in 1 .. n : a[i] = x /\ a[i + 1] = x
  BY <1>3
<1>5. \A i \in 1 .. n : Fits(s[i], a[i], a[i + 1])
  BY <1>2, <1>4
<1> QED BY <1>1, <1>2, <1>4, <1>5 DEF Leads

LEMMA RepeatSeq ==
    ASSUME NEW S, NEW s \in Seq(S), Len(s) > 0, NEW n \in Nat
    PROVE  Repeat(s, n) \in Seq(S)
<1>1. PICK l \in Nat : l = Len(s) /\ l > 0
  OBVIOUS
<1>2. PICK m \in Nat : m = n * l
  OBVIOUS
<1>3. Repeat(s, n) = [i \in 1 .. m |-> s[((i - 1) % l) + 1]]
  BY <1>1, <1>2 DEF Repeat
<1>4. ASSUME NEW i \in 1 .. m PROVE s[((i - 1) % l) + 1] \in S
  <2>1. PICK k \in Nat : k = i - 1
    OBVIOUS
  <2>2. k % l \in 0 .. l - 1
    BY <1>1
  <2> QED BY <1>1, <2>1, <2>2
<1> QED BY <1>3, <1>4

LEMMA FitsStep == \A s, x, y : Fits(s, x, y) => s \in StepSet
BY DEF Fits

-----------------------------------------------------------------------------
(* The plan of each script: its steps, each with the outlook it leaves.        *)

Core == {"bus", "pipewire", "wireplumber"}
Heard == {"mock-normal", "bridge-normal", "record"}
Spent == {"play", "mock-disconnect", "bridge-disconnect"}
Nothing == Outlook({}, {}, {})
AudioEnd == Outlook({"bus", "pipewire", "wireplumber", "loop"},
                    {"bus", "pipewire", "wireplumber", "loop"},
                    {"bus", "pipewire", "wireplumber", "loop"})
HciBegun == Outlook({"bus", "controller"}, {"bus", "controller"}, {"bus", "controller"})
HciChecked == Outlook({"bus", "controller", "client"}, {"bus", "controller"}, {"bus", "controller"})
HciEnd == Outlook({"bus", "controller", "adapter"}, {"bus", "controller"},
                  {"bus", "controller", "adapter"})
AacReady == Outlook({"bus", "mmc"}, {"bus", "mmc"}, {"bus", "mmc"})
BridgeReady == Outlook(Core, Core, Core)
NormalBegun == Outlook(Core \cup {"mock-normal", "bridge-normal"},
                       Core \cup {"mock-normal", "bridge-normal"}, Core \cup {"mock-normal"})
NormalStreamed == Outlook(Core \cup Heard \cup {"play"}, Core \cup {"mock-normal", "bridge-normal"},
                          Core \cup Heard)
NormalEnd == Outlook(Core \cup Heard \cup {"play"}, Core, Core \cup Heard)
DisconnectBegun == Outlook(Core \cup Heard \cup Spent,
                           Core \cup {"mock-disconnect", "bridge-disconnect"},
                           Core \cup Heard \cup {"mock-disconnect"})
DisconnectEnd == Outlook(Core \cup Heard \cup Spent, Core, Core \cup Heard \cup {"mock-disconnect"})
MusicBegun == Outlook(Core \cup Heard \cup Spent \cup {"mock-a2dp", "bridge-a2dp"},
                      Core \cup {"mock-a2dp", "bridge-a2dp"},
                      Core \cup Heard \cup {"mock-disconnect", "mock-a2dp"})
MusicStreamed == Outlook(Core \cup Heard \cup Spent \cup {"mock-a2dp", "bridge-a2dp", "a2dp-play"},
                         Core \cup {"mock-a2dp", "bridge-a2dp"},
                         Core \cup Heard
                           \cup {"mock-disconnect", "mock-a2dp", "bridge-a2dp", "a2dp-play"})
MusicEnd == Outlook(Core \cup Heard \cup Spent \cup {"mock-a2dp", "bridge-a2dp", "a2dp-play"}, Core,
                    Core \cup Heard \cup {"mock-disconnect", "mock-a2dp", "bridge-a2dp", "a2dp-play"})

LEMMA AudioLeads == Leads(AudioSteps, Nothing, AudioEnd)
<1> DEFINE o1 == Outlook({"bus"}, {"bus"}, {})
<1> DEFINE o2 == Outlook({"bus"}, {"bus"}, {"bus"})
<1> DEFINE o3 == Outlook({"bus", "pipewire"}, {"bus", "pipewire"}, {"bus"})
<1> DEFINE o4 == Outlook({"bus", "pipewire"}, {"bus", "pipewire"}, {"bus", "pipewire"})
<1> DEFINE o5 == Outlook({"bus", "pipewire", "wireplumber"}, {"bus", "pipewire", "wireplumber"},
                         {"bus", "pipewire"})
<1> DEFINE o6 == Outlook({"bus", "pipewire", "wireplumber"}, {"bus", "pipewire", "wireplumber"},
                         {"bus", "pipewire", "wireplumber"})
<1> DEFINE o7 == Outlook({"bus", "pipewire", "wireplumber", "loop"},
                         {"bus", "pipewire", "wireplumber", "loop"}, {"bus", "pipewire", "wireplumber"})
<1>1. /\ Fits(StartOf("bus"), Nothing, o1)
      /\ Fits(Step("readline", "bus", {"bus"}, {}), o1, o2)
      /\ Fits(StartOf("pipewire"), o2, o3)
      /\ Fits(FileOf("pipewire", {"pipewire"}), o3, o4)
      /\ Fits(StartOf("wireplumber"), o4, o5)
      /\ Fits(Step("sleep", "wireplumber", {}, {"wireplumber"}), o5, o6)
      /\ Fits(ToolOn({"pipewire", "wireplumber"}, {}), o6, o6)
      /\ Fits(ToolOn({}, {}), o6, o6)
      /\ Fits(ToolOn({}, {}), o6, o6)
      /\ Fits(ToolOn({}, {}), o6, o6)
      /\ Fits(ToolOn({"bus"}, {}), o6, o6)
      /\ Fits(StartOf("loop"), o6, o7)
      /\ Fits(Step("sleep", "loop", {}, {"loop"}), o7, AudioEnd)
      /\ Fits(ToolOn({"pipewire", "loop"}, {}), AudioEnd, AudioEnd)
      /\ Fits(ToolOn({"pipewire", "wireplumber"}, {"pipewire", "wireplumber"}), AudioEnd, AudioEnd)
  BY DEF Fits, Reliable, StepSet, Ops, Outlook, Steady, Begun, Ended, Shown, Children, Mocks, Bridges,
         Alone, Peer, Peers, Needs, Step, StartOf, FileOf, Asks, ToolOn, Checks,
         Nothing, AudioEnd
<1>2. {Nothing, o1, o2, o3, o4, o5, o6, o7, AudioEnd} \subseteq Outlooks
  BY DEF Outlooks, Outlook, Children, Mocks, Bridges, Nothing, AudioEnd
<1> DEFINE s == <<StartOf("bus"), Step("readline", "bus", {"bus"}, {}), StartOf("pipewire"),
                  FileOf("pipewire", {"pipewire"}), StartOf("wireplumber"),
                  Step("sleep", "wireplumber", {}, {"wireplumber"}),
                  ToolOn({"pipewire", "wireplumber"}, {}), ToolOn({}, {}), ToolOn({}, {}), ToolOn({}, {}),
                  ToolOn({"bus"}, {}), StartOf("loop"), Step("sleep", "loop", {}, {"loop"}),
                  ToolOn({"pipewire", "loop"}, {}),
                  ToolOn({"pipewire", "wireplumber"}, {"pipewire", "wireplumber"})>>
<1> DEFINE a == <<Nothing, o1, o2, o3, o4, o5, o6, o6, o6, o6, o6, o6, o7, AudioEnd, AudioEnd, AudioEnd>>
<1> HIDE DEF o1, o2, o3, o4, o5, o6, o7
<1>3. s \in Seq(StepSet) /\ Len(s) = 15
  BY <1>1, FitsStep
<1>4. a \in [1 .. 16 -> Outlooks] /\ a[1] = Nothing /\ a[16] = AudioEnd
  BY <1>2
<1>5. \A i \in 1 .. 15 : Fits(s[i], a[i], a[i + 1])
  <2>1. \A i \in 1 .. 7 : Fits(s[i], a[i], a[i + 1])
    BY <1>1
  <2>2. \A i \in 8 .. 15 : Fits(s[i], a[i], a[i + 1])
    BY <1>1
  <2> HIDE DEF s, a
  <2> QED BY <2>1, <2>2
<1> HIDE DEF s, a
<1>6. Leads(s, Nothing, AudioEnd)
  <2>1. Len(s) + 1 = 16
    BY <1>3
  <2>2. a \in [1 .. Len(s) + 1 -> Outlooks] /\ a[1] = Nothing /\ a[Len(s) + 1] = AudioEnd
    BY <1>4, <2>1
  <2>3. \A i \in 1 .. Len(s) : Fits(s[i], a[i], a[i + 1])
    BY <1>3, <1>5
  <2> QED BY <1>3, <2>2, <2>3 DEF Leads
<1> QED BY <1>6 DEF s, AudioSteps

LEMMA HciBegins ==
    Leads(<<StartOf("bus"), FileOf("bus", {}), StartOf("controller"), FileOf("controller", {})>>,
          Nothing, HciBegun)
<1> DEFINE o1 == Outlook({"bus"}, {"bus"}, {})
<1> DEFINE o2 == Outlook({"bus"}, {"bus"}, {"bus"})
<1> DEFINE o3 == Outlook({"bus", "controller"}, {"bus", "controller"}, {"bus"})
<1>1. /\ Fits(StartOf("bus"), Nothing, o1)
      /\ Fits(FileOf("bus", {}), o1, o2)
      /\ Fits(StartOf("controller"), o2, o3)
      /\ Fits(FileOf("controller", {}), o3, HciBegun)
  BY DEF Fits, Reliable, StepSet, Ops, Outlook, Steady, Begun, Ended, Shown, Children, Mocks, Bridges,
         Alone, Peer, Peers, Needs, Step, StartOf, FileOf, Asks, ToolOn, Checks,
         Nothing, HciBegun
<1>2. {Nothing, o1, o2, o3, HciBegun} \subseteq Outlooks
  BY DEF Outlooks, Outlook, Children, Mocks, Bridges, Nothing, HciBegun
<1> DEFINE s == <<StartOf("bus"), FileOf("bus", {}), StartOf("controller"), FileOf("controller", {})>>
<1> DEFINE a == <<Nothing, o1, o2, o3, HciBegun>>
<1> HIDE DEF o1, o2, o3
<1>3. s \in Seq(StepSet) /\ Len(s) = 4
  BY <1>1, FitsStep
<1>4. a \in [1 .. 5 -> Outlooks] /\ a[1] = Nothing /\ a[5] = HciBegun
  BY <1>2
<1>5. \A i \in 1 .. 4 : Fits(s[i], a[i], a[i + 1])
  BY <1>1
<1> HIDE DEF s, a
<1>6. Leads(s, Nothing, HciBegun)
  BY <1>3, <1>4, <1>5 DEF Leads
<1> QED BY <1>6 DEF s

LEMMA HciSelfCheck == Leads(<<StartOf("client"), Step("exits", "client", {}, {})>>, HciBegun, HciChecked)
<1> DEFINE o1 == Outlook({"bus", "controller", "client"}, {"bus", "controller", "client"},
                         {"bus", "controller"})
<1>1. /\ Fits(StartOf("client"), HciBegun, o1)
      /\ Fits(Step("exits", "client", {}, {}), o1, HciChecked)
  BY DEF Fits, Reliable, StepSet, Ops, Outlook, Steady, Begun, Ended, Shown, Children, Mocks, Bridges,
         Alone, Peer, Peers, Needs, Step, StartOf, FileOf, Asks, ToolOn, Checks,
         HciBegun, HciChecked
<1>2. {HciBegun, o1, HciChecked} \subseteq Outlooks
  BY DEF Outlooks, Outlook, Children, Mocks, Bridges, HciBegun, HciChecked
<1> DEFINE s == <<StartOf("client"), Step("exits", "client", {}, {})>>
<1> DEFINE a == <<HciBegun, o1, HciChecked>>
<1> HIDE DEF o1
<1>3. s \in Seq(StepSet) /\ Len(s) = 2
  BY <1>1, FitsStep
<1>4. a \in [1 .. 3 -> Outlooks] /\ a[1] = HciBegun /\ a[3] = HciChecked
  BY <1>2
<1>5. \A i \in 1 .. 2 : Fits(s[i], a[i], a[i + 1])
  BY <1>1
<1> HIDE DEF s, a
<1>6. Leads(s, HciBegun, HciChecked)
  BY <1>3, <1>4, <1>5 DEF Leads
<1> QED BY <1>6 DEF s

LEMMA HciServes ==
    Leads(<<StartOf("adapter"), Step("answers", "adapter", Served, {"adapter", "controller"}),
            Asks(Served), Asks(Served), Step("answers", "adapter", Served \cup {"controller"}, {}),
            Checks({"adapter", "controller"}), ToolOn(Served, {"adapter"}), ToolOn(Served,
            {"adapter"}), Step("stops", "adapter", {}, {})>>,
          HciBegun, HciEnd)
<1> DEFINE o1 == Outlook({"bus", "controller", "adapter"}, {"bus", "controller", "adapter"},
                         {"bus", "controller"})
<1> DEFINE o2 == Outlook({"bus", "controller", "adapter"}, {"bus", "controller", "adapter"},
                         {"bus", "controller", "adapter"})
<1>1. /\ Fits(StartOf("adapter"), HciBegun, o1)
      /\ Fits(Step("answers", "adapter", Served, {"adapter", "controller"}), o1, o2)
      /\ Fits(Asks(Served), o2, o2)
      /\ Fits(Asks(Served), o2, o2)
      /\ Fits(Step("answers", "adapter", Served \cup {"controller"}, {}), o2, o2)
      /\ Fits(Checks({"adapter", "controller"}), o2, o2)
      /\ Fits(ToolOn(Served, {"adapter"}), o2, o2)
      /\ Fits(ToolOn(Served, {"adapter"}), o2, o2)
      /\ Fits(Step("stops", "adapter", {}, {}), o2, HciEnd)
  BY DEF Fits, Reliable, StepSet, Ops, Outlook, Steady, Begun, Ended, Shown, Children, Mocks, Bridges,
         Alone, Peer, Peers, Needs, Step, StartOf, FileOf, Asks, ToolOn, Checks,
         Served, HciBegun, HciEnd
<1>2. {HciBegun, o1, o2, HciEnd} \subseteq Outlooks
  BY DEF Outlooks, Outlook, Children, Mocks, Bridges, HciBegun, HciEnd
<1> DEFINE s == <<StartOf("adapter"), Step("answers", "adapter", Served, {"adapter", "controller"}),
                  Asks(Served), Asks(Served), Step("answers", "adapter", Served \cup {"controller"}, {}),
                  Checks({"adapter", "controller"}), ToolOn(Served, {"adapter"}),
                  ToolOn(Served, {"adapter"}), Step("stops", "adapter", {}, {})>>
<1> DEFINE a == <<HciBegun, o1, o2, o2, o2, o2, o2, o2, o2, HciEnd>>
<1> HIDE DEF o1, o2
<1>3. s \in Seq(StepSet) /\ Len(s) = 9
  BY <1>1, FitsStep
<1>4. a \in [1 .. 10 -> Outlooks] /\ a[1] = HciBegun /\ a[10] = HciEnd
  BY <1>2
<1>5. \A i \in 1 .. 9 : Fits(s[i], a[i], a[i + 1])
  BY <1>1
<1> HIDE DEF s, a
<1>6. Leads(s, HciBegun, HciEnd)
  BY <1>3, <1>4, <1>5 DEF Leads
<1> QED BY <1>6 DEF s

LEMMA AacBegins ==
    Leads(<<StartOf("bus"), FileOf("bus", {}), StartOf("mmc"), Step("answers", "mmc", Codec,
            {"mmc"})>>,
          Nothing, AacReady)
<1> DEFINE o1 == Outlook({"bus"}, {"bus"}, {})
<1> DEFINE o2 == Outlook({"bus"}, {"bus"}, {"bus"})
<1> DEFINE o3 == Outlook({"bus", "mmc"}, {"bus", "mmc"}, {"bus"})
<1>1. /\ Fits(StartOf("bus"), Nothing, o1)
      /\ Fits(FileOf("bus", {}), o1, o2)
      /\ Fits(StartOf("mmc"), o2, o3)
      /\ Fits(Step("answers", "mmc", Codec, {"mmc"}), o3, AacReady)
  BY DEF Fits, Reliable, StepSet, Ops, Outlook, Steady, Begun, Ended, Shown, Children, Mocks, Bridges,
         Alone, Peer, Peers, Needs, Step, StartOf, FileOf, Asks, ToolOn, Checks,
         Codec, Nothing, AacReady
<1>2. {Nothing, o1, o2, o3, AacReady} \subseteq Outlooks
  BY DEF Outlooks, Outlook, Children, Mocks, Bridges, Nothing, AacReady
<1> DEFINE s == <<StartOf("bus"), FileOf("bus", {}), StartOf("mmc"),
                  Step("answers", "mmc", Codec, {"mmc"})>>
<1> DEFINE a == <<Nothing, o1, o2, o3, AacReady>>
<1> HIDE DEF o1, o2, o3
<1>3. s \in Seq(StepSet) /\ Len(s) = 4
  BY <1>1, FitsStep
<1>4. a \in [1 .. 5 -> Outlooks] /\ a[1] = Nothing /\ a[5] = AacReady
  BY <1>2
<1>5. \A i \in 1 .. 4 : Fits(s[i], a[i], a[i + 1])
  BY <1>1
<1> HIDE DEF s, a
<1>6. Leads(s, Nothing, AacReady)
  BY <1>3, <1>4, <1>5 DEF Leads
<1> QED BY <1>6 DEF s

LEMMA BridgeBegins ==
    Leads(<<StartOf("bus"), FileOf("bus", {}), StartOf("pipewire"), FileOf("pipewire", {}),
            StartOf("wireplumber"), Step("sleep", "wireplumber", {}, {"wireplumber"})>>,
          Nothing, BridgeReady)
<1> DEFINE o1 == Outlook({"bus"}, {"bus"}, {})
<1> DEFINE o2 == Outlook({"bus"}, {"bus"}, {"bus"})
<1> DEFINE o3 == Outlook({"bus", "pipewire"}, {"bus", "pipewire"}, {"bus"})
<1> DEFINE o4 == Outlook({"bus", "pipewire"}, {"bus", "pipewire"}, {"bus", "pipewire"})
<1> DEFINE o5 == Outlook(Core, Core, {"bus", "pipewire"})
<1>1. /\ Fits(StartOf("bus"), Nothing, o1)
      /\ Fits(FileOf("bus", {}), o1, o2)
      /\ Fits(StartOf("pipewire"), o2, o3)
      /\ Fits(FileOf("pipewire", {}), o3, o4)
      /\ Fits(StartOf("wireplumber"), o4, o5)
      /\ Fits(Step("sleep", "wireplumber", {}, {"wireplumber"}), o5, BridgeReady)
  BY DEF Fits, Reliable, StepSet, Ops, Outlook, Steady, Begun, Ended, Shown, Children, Mocks, Bridges,
         Alone, Peer, Peers, Needs, Step, StartOf, FileOf, Asks, ToolOn, Checks,
         Core, Nothing, BridgeReady
<1>2. {Nothing, o1, o2, o3, o4, o5, BridgeReady} \subseteq Outlooks
  BY DEF Outlooks, Outlook, Children, Mocks, Bridges, Nothing, BridgeReady, Core
<1> DEFINE s == <<StartOf("bus"), FileOf("bus", {}), StartOf("pipewire"), FileOf("pipewire", {}),
                  StartOf("wireplumber"), Step("sleep", "wireplumber", {}, {"wireplumber"})>>
<1> DEFINE a == <<Nothing, o1, o2, o3, o4, o5, BridgeReady>>
<1> HIDE DEF o1, o2, o3, o4, o5
<1>3. s \in Seq(StepSet) /\ Len(s) = 6
  BY <1>1, FitsStep
<1>4. a \in [1 .. 7 -> Outlooks] /\ a[1] = Nothing /\ a[7] = BridgeReady
  BY <1>2
<1>5. \A i \in 1 .. 6 : Fits(s[i], a[i], a[i + 1])
  BY <1>1
<1> HIDE DEF s, a
<1>6. Leads(s, Nothing, BridgeReady)
  BY <1>3, <1>4, <1>5 DEF Leads
<1> QED BY <1>6 DEF s

LEMMA NormalBegins ==
    Leads(<<StartOf("mock-normal"), FileOf("mock-normal", {}), StartOf("bridge-normal")>>,
          BridgeReady, NormalBegun)
<1> DEFINE o1 == Outlook(Core \cup {"mock-normal"}, Core \cup {"mock-normal"}, Core)
<1> DEFINE o2 == Outlook(Core \cup {"mock-normal"}, Core \cup {"mock-normal"}, Core \cup {"mock-normal"})
<1>1. /\ Fits(StartOf("mock-normal"), BridgeReady, o1)
      /\ Fits(FileOf("mock-normal", {}), o1, o2)
      /\ Fits(StartOf("bridge-normal"), o2, NormalBegun)
  BY DEF Fits, Reliable, StepSet, Ops, Outlook, Steady, Begun, Ended, Shown, Children, Mocks, Bridges,
         Alone, Peer, Peers, Needs, Step, StartOf, FileOf, Asks, ToolOn, Checks,
         Core, Heard, Spent, BridgeReady, NormalBegun
<1>2. {BridgeReady, o1, o2, NormalBegun} \subseteq Outlooks
  BY DEF Outlooks, Outlook, Children, Mocks, Bridges, BridgeReady, NormalBegun, Core, Heard, Spent
<1> DEFINE s == <<StartOf("mock-normal"), FileOf("mock-normal", {}), StartOf("bridge-normal")>>
<1> DEFINE a == <<BridgeReady, o1, o2, NormalBegun>>
<1> HIDE DEF o1, o2
<1>3. s \in Seq(StepSet) /\ Len(s) = 3
  BY <1>1, FitsStep
<1>4. a \in [1 .. 4 -> Outlooks] /\ a[1] = BridgeReady /\ a[4] = NormalBegun
  BY <1>2
<1>5. \A i \in 1 .. 3 : Fits(s[i], a[i], a[i + 1])
  BY <1>1
<1> HIDE DEF s, a
<1>6. Leads(s, BridgeReady, NormalBegun)
  BY <1>3, <1>4, <1>5 DEF Leads
<1> QED BY <1>6 DEF s

LEMMA NormalStreams ==
    Leads(<<Step("answers", "bridge-normal", {"pipewire", "bridge-normal"}, {}), ToolOn({"bus"},
            {"bridge-normal"}), StartOf("record"), StartOf("play"), Step("sleep", "record", {},
            {"bridge-normal"}), Step("gone", "play", {}, {}), Step("gone", "record", {}, {}),
            Step("heard", "record", {"pipewire", "mock-normal", "bridge-normal"}, {})>>,
          NormalBegun, NormalStreamed)
<1> DEFINE o1 == Outlook(Core \cup {"mock-normal", "bridge-normal"},
                         Core \cup {"mock-normal", "bridge-normal"},
                         Core \cup {"mock-normal", "bridge-normal"})
<1> DEFINE o2 == Outlook(Core \cup Heard, Core \cup Heard, Core \cup {"mock-normal", "bridge-normal"})
<1> DEFINE o3 == Outlook(Core \cup Heard \cup {"play"}, Core \cup Heard \cup {"play"},
                         Core \cup {"mock-normal", "bridge-normal"})
<1> DEFINE o4 == Outlook(Core \cup Heard \cup {"play"}, Core \cup Heard \cup {"play"}, Core \cup Heard)
<1> DEFINE o5 == Outlook(Core \cup Heard \cup {"play"}, Core \cup Heard, Core \cup Heard)
<1>1. /\ Fits(Step("answers", "bridge-normal", {"pipewire", "bridge-normal"}, {}), NormalBegun, o1)
      /\ Fits(ToolOn({"bus"}, {"bridge-normal"}), o1, o1)
      /\ Fits(StartOf("record"), o1, o2)
      /\ Fits(StartOf("play"), o2, o3)
      /\ Fits(Step("sleep", "record", {}, {"bridge-normal"}), o3, o4)
      /\ Fits(Step("gone", "play", {}, {}), o4, o5)
      /\ Fits(Step("gone", "record", {}, {}), o5, NormalStreamed)
      /\ Fits(Step("heard", "record", {"pipewire", "mock-normal", "bridge-normal"}, {}),
              NormalStreamed, NormalStreamed)
  BY DEF Fits, Reliable, StepSet, Ops, Outlook, Steady, Begun, Ended, Shown, Children, Mocks, Bridges,
         Alone, Peer, Peers, Needs, Step, StartOf, FileOf, Asks, ToolOn, Checks,
         Core, Heard, Spent, NormalBegun, NormalStreamed
<1>2. {NormalBegun, o1, o2, o3, o4, o5, NormalStreamed} \subseteq Outlooks
  BY DEF Outlooks, Outlook, Children, Mocks, Bridges, NormalBegun, NormalStreamed, Core, Heard, Spent
<1> DEFINE s == <<Step("answers", "bridge-normal", {"pipewire", "bridge-normal"}, {}),
                  ToolOn({"bus"}, {"bridge-normal"}), StartOf("record"), StartOf("play"),
                  Step("sleep", "record", {}, {"bridge-normal"}), Step("gone", "play", {}, {}),
                  Step("gone", "record", {}, {}),
                  Step("heard", "record", {"pipewire", "mock-normal", "bridge-normal"}, {})>>
<1> DEFINE a == <<NormalBegun, o1, o1, o2, o3, o4, o5, NormalStreamed, NormalStreamed>>
<1> HIDE DEF o1, o2, o3, o4, o5
<1>3. s \in Seq(StepSet) /\ Len(s) = 8
  BY <1>1, FitsStep
<1>4. a \in [1 .. 9 -> Outlooks] /\ a[1] = NormalBegun /\ a[9] = NormalStreamed
  BY <1>2
<1>5. \A i \in 1 .. 8 : Fits(s[i], a[i], a[i + 1])
  BY <1>1
<1> HIDE DEF s, a
<1>6. Leads(s, NormalBegun, NormalStreamed)
  BY <1>3, <1>4, <1>5 DEF Leads
<1> QED BY <1>6 DEF s

LEMMA NormalEnds ==
    Leads(<<Step("stops", "bridge-normal", {}, {}), Step("stops", "mock-normal", {}, {}),
            Step("answers", "pipewire", {"pipewire"}, {})>>,
          NormalStreamed, NormalEnd)
<1> DEFINE o1 == Outlook(Core \cup Heard \cup {"play"}, Core \cup {"mock-normal"}, Core \cup Heard)
<1>1. /\ Fits(Step("stops", "bridge-normal", {}, {}), NormalStreamed, o1)
      /\ Fits(Step("stops", "mock-normal", {}, {}), o1, NormalEnd)
      /\ Fits(Step("answers", "pipewire", {"pipewire"}, {}), NormalEnd, NormalEnd)
  BY DEF Fits, Reliable, StepSet, Ops, Outlook, Steady, Begun, Ended, Shown, Children, Mocks, Bridges,
         Alone, Peer, Peers, Needs, Step, StartOf, FileOf, Asks, ToolOn, Checks,
         Core, Heard, Spent, NormalStreamed, NormalEnd
<1>2. {NormalStreamed, o1, NormalEnd} \subseteq Outlooks
  BY DEF Outlooks, Outlook, Children, Mocks, Bridges, NormalStreamed, NormalEnd, Core, Heard, Spent
<1> DEFINE s == <<Step("stops", "bridge-normal", {}, {}), Step("stops", "mock-normal", {}, {}),
                  Step("answers", "pipewire", {"pipewire"}, {})>>
<1> DEFINE a == <<NormalStreamed, o1, NormalEnd, NormalEnd>>
<1> HIDE DEF o1
<1>3. s \in Seq(StepSet) /\ Len(s) = 3
  BY <1>1, FitsStep
<1>4. a \in [1 .. 4 -> Outlooks] /\ a[1] = NormalStreamed /\ a[4] = NormalEnd
  BY <1>2
<1>5. \A i \in 1 .. 3 : Fits(s[i], a[i], a[i + 1])
  BY <1>1
<1> HIDE DEF s, a
<1>6. Leads(s, NormalStreamed, NormalEnd)
  BY <1>3, <1>4, <1>5 DEF Leads
<1> QED BY <1>6 DEF s

LEMMA DisconnectBegins ==
    Leads(<<StartOf("mock-disconnect"), FileOf("mock-disconnect", {}),
            StartOf("bridge-disconnect")>>,
          NormalEnd, DisconnectBegun)
<1> DEFINE o1 == Outlook(Core \cup Heard \cup {"play", "mock-disconnect"}, Core \cup {"mock-disconnect"},
                         Core \cup Heard)
<1> DEFINE o2 == Outlook(Core \cup Heard \cup {"play", "mock-disconnect"}, Core \cup {"mock-disconnect"},
                         Core \cup Heard \cup {"mock-disconnect"})
<1>1. /\ Fits(StartOf("mock-disconnect"), NormalEnd, o1)
      /\ Fits(FileOf("mock-disconnect", {}), o1, o2)
      /\ Fits(StartOf("bridge-disconnect"), o2, DisconnectBegun)
  BY DEF Fits, Reliable, StepSet, Ops, Outlook, Steady, Begun, Ended, Shown, Children, Mocks, Bridges,
         Alone, Peer, Peers, Needs, Step, StartOf, FileOf, Asks, ToolOn, Checks,
         Core, Heard, Spent, NormalEnd, DisconnectBegun
<1>2. {NormalEnd, o1, o2, DisconnectBegun} \subseteq Outlooks
  BY DEF Outlooks, Outlook, Children, Mocks, Bridges, NormalEnd, DisconnectBegun, Core, Heard, Spent
<1> DEFINE s == <<StartOf("mock-disconnect"), FileOf("mock-disconnect", {}),
                  StartOf("bridge-disconnect")>>
<1> DEFINE a == <<NormalEnd, o1, o2, DisconnectBegun>>
<1> HIDE DEF o1, o2
<1>3. s \in Seq(StepSet) /\ Len(s) = 3
  BY <1>1, FitsStep
<1>4. a \in [1 .. 4 -> Outlooks] /\ a[1] = NormalEnd /\ a[4] = DisconnectBegun
  BY <1>2
<1>5. \A i \in 1 .. 3 : Fits(s[i], a[i], a[i + 1])
  BY <1>1
<1> HIDE DEF s, a
<1>6. Leads(s, NormalEnd, DisconnectBegun)
  BY <1>3, <1>4, <1>5 DEF Leads
<1> QED BY <1>6 DEF s

LEMMA DisconnectEnds ==
    Leads(<<Step("exits", "bridge-disconnect", {}, {}), Step("stops", "mock-disconnect", {}, {}),
            Step("answers", "pipewire", {"pipewire"}, {})>>,
          DisconnectBegun, DisconnectEnd)
<1> DEFINE o1 == Outlook(Core \cup Heard \cup Spent, Core \cup {"mock-disconnect"},
                         Core \cup Heard \cup {"mock-disconnect"})
<1>1. /\ Fits(Step("exits", "bridge-disconnect", {}, {}), DisconnectBegun, o1)
      /\ Fits(Step("stops", "mock-disconnect", {}, {}), o1, DisconnectEnd)
      /\ Fits(Step("answers", "pipewire", {"pipewire"}, {}), DisconnectEnd, DisconnectEnd)
  BY DEF Fits, Reliable, StepSet, Ops, Outlook, Steady, Begun, Ended, Shown, Children, Mocks, Bridges,
         Alone, Peer, Peers, Needs, Step, StartOf, FileOf, Asks, ToolOn, Checks,
         Core, Heard, Spent, DisconnectBegun, DisconnectEnd
<1>2. {DisconnectBegun, o1, DisconnectEnd} \subseteq Outlooks
  BY DEF Outlooks, Outlook, Children, Mocks, Bridges, DisconnectBegun, DisconnectEnd, Core, Heard, Spent
<1> DEFINE s == <<Step("exits", "bridge-disconnect", {}, {}), Step("stops", "mock-disconnect", {}, {}),
                  Step("answers", "pipewire", {"pipewire"}, {})>>
<1> DEFINE a == <<DisconnectBegun, o1, DisconnectEnd, DisconnectEnd>>
<1> HIDE DEF o1
<1>3. s \in Seq(StepSet) /\ Len(s) = 3
  BY <1>1, FitsStep
<1>4. a \in [1 .. 4 -> Outlooks] /\ a[1] = DisconnectBegun /\ a[4] = DisconnectEnd
  BY <1>2
<1>5. \A i \in 1 .. 3 : Fits(s[i], a[i], a[i + 1])
  BY <1>1
<1> HIDE DEF s, a
<1>6. Leads(s, DisconnectBegun, DisconnectEnd)
  BY <1>3, <1>4, <1>5 DEF Leads
<1> QED BY <1>6 DEF s

LEMMA MusicBegins ==
    Leads(<<StartOf("mock-a2dp"), FileOf("mock-a2dp", {}), StartOf("bridge-a2dp")>>,
          DisconnectEnd, MusicBegun)
<1> DEFINE o1 == Outlook(Core \cup Heard \cup Spent \cup {"mock-a2dp"}, Core \cup {"mock-a2dp"},
                         Core \cup Heard \cup {"mock-disconnect"})
<1> DEFINE o2 == Outlook(Core \cup Heard \cup Spent \cup {"mock-a2dp"}, Core \cup {"mock-a2dp"},
                         Core \cup Heard \cup {"mock-disconnect", "mock-a2dp"})
<1>1. /\ Fits(StartOf("mock-a2dp"), DisconnectEnd, o1)
      /\ Fits(FileOf("mock-a2dp", {}), o1, o2)
      /\ Fits(StartOf("bridge-a2dp"), o2, MusicBegun)
  BY DEF Fits, Reliable, StepSet, Ops, Outlook, Steady, Begun, Ended, Shown, Children, Mocks, Bridges,
         Alone, Peer, Peers, Needs, Step, StartOf, FileOf, Asks, ToolOn, Checks,
         Core, Heard, Spent, DisconnectEnd, MusicBegun
<1>2. {DisconnectEnd, o1, o2, MusicBegun} \subseteq Outlooks
  BY DEF Outlooks, Outlook, Children, Mocks, Bridges, DisconnectEnd, MusicBegun, Core, Heard, Spent
<1> DEFINE s == <<StartOf("mock-a2dp"), FileOf("mock-a2dp", {}), StartOf("bridge-a2dp")>>
<1> DEFINE a == <<DisconnectEnd, o1, o2, MusicBegun>>
<1> HIDE DEF o1, o2
<1>3. s \in Seq(StepSet) /\ Len(s) = 3
  BY <1>1, FitsStep
<1>4. a \in [1 .. 4 -> Outlooks] /\ a[1] = DisconnectEnd /\ a[4] = MusicBegun
  BY <1>2
<1>5. \A i \in 1 .. 3 : Fits(s[i], a[i], a[i + 1])
  BY <1>1
<1> HIDE DEF s, a
<1>6. Leads(s, DisconnectEnd, MusicBegun)
  BY <1>3, <1>4, <1>5 DEF Leads
<1> QED BY <1>6 DEF s

LEMMA MusicStreams ==
    Leads(<<Step("answers", "bridge-a2dp", {"pipewire", "bridge-a2dp"}, {}), StartOf("a2dp-play"),
            Step("sleep", "a2dp-play", {}, {"bridge-a2dp"}), Step("gone", "a2dp-play", {}, {})>>,
          MusicBegun, MusicStreamed)
<1> DEFINE o1 == Outlook(Core \cup Heard \cup Spent \cup {"mock-a2dp", "bridge-a2dp"},
                         Core \cup {"mock-a2dp", "bridge-a2dp"},
                         Core \cup Heard \cup {"mock-disconnect", "mock-a2dp", "bridge-a2dp"})
<1> DEFINE o2 == Outlook(Core \cup Heard \cup Spent \cup {"mock-a2dp", "bridge-a2dp", "a2dp-play"},
                         Core \cup {"mock-a2dp", "bridge-a2dp", "a2dp-play"},
                         Core \cup Heard \cup {"mock-disconnect", "mock-a2dp", "bridge-a2dp"})
<1> DEFINE o3 == Outlook(Core \cup Heard \cup Spent \cup {"mock-a2dp", "bridge-a2dp", "a2dp-play"},
                         Core \cup {"mock-a2dp", "bridge-a2dp", "a2dp-play"},
                         Core \cup Heard
                           \cup {"mock-disconnect", "mock-a2dp", "bridge-a2dp", "a2dp-play"})
<1>1. /\ Fits(Step("answers", "bridge-a2dp", {"pipewire", "bridge-a2dp"}, {}), MusicBegun, o1)
      /\ Fits(StartOf("a2dp-play"), o1, o2)
      /\ Fits(Step("sleep", "a2dp-play", {}, {"bridge-a2dp"}), o2, o3)
      /\ Fits(Step("gone", "a2dp-play", {}, {}), o3, MusicStreamed)
  BY DEF Fits, Reliable, StepSet, Ops, Outlook, Steady, Begun, Ended, Shown, Children, Mocks, Bridges,
         Alone, Peer, Peers, Needs, Step, StartOf, FileOf, Asks, ToolOn, Checks,
         Core, Heard, Spent, MusicBegun, MusicStreamed
<1>2. {MusicBegun, o1, o2, o3, MusicStreamed} \subseteq Outlooks
  BY DEF Outlooks, Outlook, Children, Mocks, Bridges, MusicBegun, MusicStreamed, Core, Heard, Spent
<1> DEFINE s == <<Step("answers", "bridge-a2dp", {"pipewire", "bridge-a2dp"}, {}), StartOf("a2dp-play"),
                  Step("sleep", "a2dp-play", {}, {"bridge-a2dp"}), Step("gone", "a2dp-play", {}, {})>>
<1> DEFINE a == <<MusicBegun, o1, o2, o3, MusicStreamed>>
<1> HIDE DEF o1, o2, o3
<1>3. s \in Seq(StepSet) /\ Len(s) = 4
  BY <1>1, FitsStep
<1>4. a \in [1 .. 5 -> Outlooks] /\ a[1] = MusicBegun /\ a[5] = MusicStreamed
  BY <1>2
<1>5. \A i \in 1 .. 4 : Fits(s[i], a[i], a[i + 1])
  BY <1>1
<1> HIDE DEF s, a
<1>6. Leads(s, MusicBegun, MusicStreamed)
  BY <1>3, <1>4, <1>5 DEF Leads
<1> QED BY <1>6 DEF s

LEMMA MusicEnds ==
    Leads(<<Step("stops", "bridge-a2dp", {}, {}), Step("stops", "mock-a2dp", {}, {}),
            Step("answers", "pipewire", {"pipewire"}, {})>>,
          MusicStreamed, MusicEnd)
<1> DEFINE o1 == Outlook(Core \cup Heard \cup Spent \cup {"mock-a2dp", "bridge-a2dp", "a2dp-play"},
                         Core \cup {"mock-a2dp"},
                         Core \cup Heard
                           \cup {"mock-disconnect", "mock-a2dp", "bridge-a2dp", "a2dp-play"})
<1>1. /\ Fits(Step("stops", "bridge-a2dp", {}, {}), MusicStreamed, o1)
      /\ Fits(Step("stops", "mock-a2dp", {}, {}), o1, MusicEnd)
      /\ Fits(Step("answers", "pipewire", {"pipewire"}, {}), MusicEnd, MusicEnd)
  BY DEF Fits, Reliable, StepSet, Ops, Outlook, Steady, Begun, Ended, Shown, Children, Mocks, Bridges,
         Alone, Peer, Peers, Needs, Step, StartOf, FileOf, Asks, ToolOn, Checks,
         Core, Heard, Spent, MusicStreamed, MusicEnd
<1>2. {MusicStreamed, o1, MusicEnd} \subseteq Outlooks
  BY DEF Outlooks, Outlook, Children, Mocks, Bridges, MusicStreamed, MusicEnd, Core, Heard, Spent
<1> DEFINE s == <<Step("stops", "bridge-a2dp", {}, {}), Step("stops", "mock-a2dp", {}, {}),
                  Step("answers", "pipewire", {"pipewire"}, {})>>
<1> DEFINE a == <<MusicStreamed, o1, MusicEnd, MusicEnd>>
<1> HIDE DEF o1
<1>3. s \in Seq(StepSet) /\ Len(s) = 3
  BY <1>1, FitsStep
<1>4. a \in [1 .. 4 -> Outlooks] /\ a[1] = MusicStreamed /\ a[4] = MusicEnd
  BY <1>2
<1>5. \A i \in 1 .. 3 : Fits(s[i], a[i], a[i + 1])
  BY <1>1
<1> HIDE DEF s, a
<1>6. Leads(s, MusicStreamed, MusicEnd)
  BY <1>3, <1>4, <1>5 DEF Leads
<1> QED BY <1>6 DEF s

LEMMA AacStill ==
    /\ AacReady \in Outlooks
    /\ {Asks(Codec), Asks({"mmc"}), ToolOn({}, {}), ToolOn({"mmc"}, {}), Checks({"mmc"}),
        Step("refused", "mmc", Codec, {}), Step("closed", "mmc", {"mmc"}, {})} \subseteq Still(AacReady)
BY DEF Still, Fits, Reliable, StepSet, Ops, Outlooks, Outlook, Steady, Begun, Ended, Shown, Children,
       Mocks, Bridges, Alone, Peer, Peers, Needs, Step, Asks, ToolOn, Checks, AacReady, Codec

LEMMA BridgeLeads == Leads(BridgeSteps, Nothing, MusicEnd)
<1>1. Leads(<<>>, DisconnectBegun, DisconnectBegun)
  <2>1. DisconnectBegun \in Outlooks
    BY DEF DisconnectBegun, Outlooks, Outlook, Core, Heard, Spent, Children, Mocks, Bridges
  <2>2. <<>> \in Seq(Still(DisconnectBegun))
    OBVIOUS
  <2> QED BY <2>1, <2>2, LeadsStill
<1>2. Leads(ModeSteps("mock-disconnect", "bridge-disconnect", <<>>, "exits"), NormalEnd, DisconnectEnd)
  BY <1>1, DisconnectBegins, DisconnectEnds, LeadsConcat DEF ModeSteps
<1> QED BY <1>2, BridgeBegins, NormalBegins, NormalStreams, NormalEnds, MusicBegins, MusicStreams,
           MusicEnds, LeadsConcat, SMTT(30) DEF BridgeSteps, ModeSteps

LEMMA HciLeads == Leads(HciSteps, Nothing, IF kind = "hci-self-check" THEN HciChecked ELSE HciEnd)
BY HciBegins, HciSelfCheck, HciServes, LeadsConcat DEF HciSteps

\* The AAC script up to its last step.
AacTry ==
    <<StartOf("bus"), FileOf("bus", {}), StartOf("mmc"), Step("answers", "mmc", Codec, {"mmc"})>>
    \o Repeat(AacSession \o <<ToolOn({}, {})>>, 2)
    \o Repeat(<<Step("refused", "mmc", Codec, {})>>, 3)
    \o <<Asks(Codec), Step("closed", "mmc", {"mmc"}, {}), Asks(Codec), Checks({"mmc"})>>
    \o Repeat(AacSession, Cycles)
    \o <<Asks(Codec), ToolOn({"mmc"}, {}), Asks(Codec), Checks({"mmc"})>>

LastStep == Step("write", "none", {}, {})

LEMMA AacLeads == Leads(AacTry, Nothing, AacReady)
<1> DEFINE S == Still(AacReady)
<1>1. /\ <<Asks(Codec), Step("closed", "mmc", {"mmc"}, {}), Asks(Codec), Checks({"mmc"})>> \in Seq(S)
      /\ <<Asks(Codec), ToolOn({"mmc"}, {}), Asks(Codec), Checks({"mmc"})>> \in Seq(S)
      /\ <<Step("refused", "mmc", Codec, {})>> \in Seq(S)
      /\ Len(<<Step("refused", "mmc", Codec, {})>>) > 0
      /\ AacSession \in Seq(S) /\ Len(AacSession) > 0
      /\ <<ToolOn({}, {})>> \in Seq(S)
  BY AacStill DEF AacSession
<1>2. AacSession \o <<ToolOn({}, {})>> \in Seq(S) /\ Len(AacSession \o <<ToolOn({}, {})>>) > 0
  BY <1>1
<1>3. /\ Repeat(AacSession \o <<ToolOn({}, {})>>, 2) \in Seq(S)
      /\ Repeat(<<Step("refused", "mmc", Codec, {})>>, 3) \in Seq(S)
      /\ Repeat(AacSession, Cycles) \in Seq(S)
  BY <1>1, <1>2, RepeatSeq, SmokeScriptsAssumption
<1> HIDE DEF S
<1>4. \A s \in Seq(S) : Leads(s, AacReady, AacReady)
  BY AacStill, LeadsStill DEF S
<1> QED BY <1>1, <1>3, <1>4, AacBegins, LeadsConcat DEF AacTry

LEMMA AacWhole == AacSteps = AacTry \o <<LastStep>>
BY DEF AacSteps, AacTry, LastStep

\* A plan of s: the summary that the AAC script writes as its last step changes no child.
Planned(s, a, i) == \/ Fits(s[i], a[i], a[i + 1])
                    \/ i = Len(s) /\ s[i] = LastStep /\ a[i + 1] = a[i]

PlanOf(s, a) ==
    /\ a \in [1 .. Len(s) + 1 -> Outlooks] /\ a[1] = Nothing
    /\ \A i \in 1 .. Len(s) : Planned(s, a, i)

LEMMA LeadsPlan == ASSUME NEW s, NEW y, Leads(s, Nothing, y) PROVE \E a : PlanOf(s, a)
<1>1. PICK a \in [1 .. Len(s) + 1 -> Outlooks] :
        a[1] = Nothing /\ \A i \in 1 .. Len(s) : Fits(s[i], a[i], a[i + 1])
  BY DEF Leads
<1>2. \A i \in 1 .. Len(s) : Planned(s, a, i)
  BY <1>1 DEF Planned
<1>3. PlanOf(s, a)
  BY <1>1, <1>2 DEF PlanOf
<1> QED BY <1>3

LEMMA AppendLast ==
    ASSUME NEW S, NEW s \in Seq(S), NEW e \in S
    PROVE  /\ s \o <<e>> \in Seq(S) /\ Len(s \o <<e>>) = Len(s) + 1
           /\ (s \o <<e>>)[Len(s) + 1] = e /\ \A i \in 1 .. Len(s) : (s \o <<e>>)[i] = s[i]
OBVIOUS

LEMMA AacPlan == AacSteps \in Seq(StepSet) /\ \E a : PlanOf(AacSteps, a)
<1>1. AacTry \in Seq(StepSet)
  BY AacLeads DEF Leads
<1>2. PICK n \in Nat : n = Len(AacTry)
  BY <1>1
<1>3. PICK b \in [1 .. n + 1 -> Outlooks] :
        b[1] = Nothing /\ \A i \in 1 .. n : Fits(AacTry[i], b[i], b[i + 1])
  BY AacLeads, <1>2 DEF Leads
<1>4. LastStep \in StepSet
  BY DEF LastStep, Step, StepSet, Ops
<1>5. PICK s \in Seq(StepSet) : /\ s = AacSteps /\ Len(s) = n + 1 /\ s[n + 1] = LastStep
                                /\ \A i \in 1 .. n : s[i] = AacTry[i]
  <2>1. AacSteps \in Seq(StepSet) /\ Len(AacSteps) = n + 1
    BY <1>1, <1>2, <1>4, AacWhole, AppendLast
  <2>2. AacSteps[n + 1] = LastStep /\ \A i \in 1 .. n : AacSteps[i] = AacTry[i]
    BY <1>1, <1>2, <1>4, AacWhole, AppendLast
  <2> QED BY <2>1, <2>2
<1> DEFINE a == [i \in 1 .. n + 2 |-> IF i <= n + 1 THEN b[i] ELSE b[n + 1]]
<1>6. a \in [1 .. n + 2 -> Outlooks] /\ a[1] = Nothing
  BY <1>3
<1>7. a[n + 2] = a[n + 1] /\ \A i \in 1 .. n : a[i] = b[i] /\ a[i + 1] = b[i + 1]
  OBVIOUS
<1> HIDE DEF a
<1>8. ASSUME NEW i \in 1 .. n + 1 PROVE Planned(s, a, i)
  <2>1. CASE i \in 1 .. n
    BY <2>1, <1>3, <1>5, <1>7 DEF Planned
  <2>2. CASE i = n + 1
    BY <2>2, <1>5, <1>7 DEF Planned
  <2>3. i \in 1 .. n \/ i = n + 1
    OBVIOUS
  <2> QED BY <2>1, <2>2, <2>3
<1>9. PlanOf(s, a)
  BY <1>5, <1>6, <1>8 DEF PlanOf
<1> QED BY <1>5, <1>9

LEMMA HasPlan == Steps \in Seq(StepSet) /\ \E a : PlanOf(Steps, a)
<1>1. \A s, y : Leads(s, Nothing, y) => s \in Seq(StepSet) /\ \E a : PlanOf(s, a)
  BY LeadsPlan DEF Leads
<1>2. CASE kind = "aac"
  BY <1>2, AacPlan DEF Steps
<1>3. CASE kind # "aac"
  BY <1>1, <1>3, BridgeLeads, HciLeads, AudioLeads DEF Steps
<1> QED BY <1>2, <1>3

\* A plan of the script that runs.
Plan == CHOOSE a : PlanOf(Steps, a)

-----------------------------------------------------------------------------
(* The invariants.                                                             *)

\* Where the script is in its plan.
Here == Plan[pc]

ProcStates == {"none", "up", "sick", "hung", "ok", "bad"}

ScriptType ==
    /\ pc \in 1 .. Len(Steps) + 1
    /\ proc \in [Children -> ProcStates]
    /\ fault \in [Children -> [what : {"none", "bad", "hung", "sick"}, step : Nat]]
    /\ left \in 0 .. MaxFaults

\* Nobody runs whom the script has not started, or was starting when it was interrupted.
Known ==
    \A c \in Children : proc[c] # "none" => c \in Here.started \/ (phase # "try" /\ Orphan(c))

\* A step that looks at c, of which a fault of this kind shows.
IsLook(s, c, what) ==
    /\ s.op \notin {"refused", "closed"}
    /\ \/ c \in s.needs
       \/ s.op \in {"stops", "exits"} /\ s.who = c
       \/ what = "bad" /\ c \in s.alive

\* A child with a fault shows it from then on, and no look at it has been passed since.
Caught ==
    \A c \in Children : fault[c].what # "none" =>
        /\ proc[c] \in {"bad", "hung", "sick"} /\ (fault[c].what = "bad" => proc[c] = "bad")
        /\ fault[c].step \in 1 .. pc
        /\ \A i \in 1 .. pc - 1 : IsLook(Steps[i], c, fault[c].what) => i < fault[c].step

\* Success is reported after the last step.
Complete == verdict = "pass" \/ summary = "new" => pc = Len(Steps) + 1

Untouched == left = MaxFaults

\* In a script in which nothing has gone wrong the children are as its plan says, except
\* that a pause may have been too short for some.  Nobody pauses for the peer of a child
\* that ends by itself: the script has seen its file.
Well ==
    /\ tool # "hung" /\ (tool # "none" => pc <= Len(Steps) /\ Now.op = "tool")
    /\ \A c \in Children : proc[c] \in {"none", "up", "ok"} /\ fault[c].what = "none"
    /\ Here.ready \subseteq ready \cup late /\ late \cap Peers = {} /\ told \subseteq Here.started
    /\ \A c \in Here.up : proc[c] = "up" \/ (proc[c] = "ok" /\ c \in told \cup Alone)
    /\ \A c \in Children : proc[c] = "up" => c \in Here.up
    /\ \A c \in told \cap Here.up : pc <= Len(Steps) /\ Now.op \in {"stops", "gone"} /\ Now.who = c
    /\ \A c \in Here.up \cap Alone : Peer(c) \in Here.up \cap Here.ready

\* The step the script is at, or has failed at, asks a child that got too little time.
Blamed == late \cap (Now.needs \cup {Now.who}) # {}

Calm ==
    Untouched => /\ phase = "try" => verdict # "fail" /\ Well
                 /\ verdict = "fail" => Blamed

LEMMA PlanFacts ==
    /\ Steps \in Seq(StepSet) /\ Len(Steps) \in Nat
    /\ Plan \in [1 .. Len(Steps) + 1 -> Outlooks] /\ Plan[1] = Nothing
    /\ \A i \in 1 .. Len(Steps) : Planned(Steps, Plan, i)
<1>1. PlanOf(Steps, Plan)
  BY HasPlan DEF Plan
<1> QED BY <1>1, HasPlan DEF PlanOf

LEMMA SameSteps == ASSUME kind' = kind PROVE Steps' = Steps /\ Plan' = Plan
<1>1. Steps' = Steps
  BY DEF Steps, HciSteps
<1> QED BY <1>1 DEF Plan

LEMMA SameOrphan == ASSUME UNCHANGED <<kind, pc>>, NEW c PROVE Orphan(c)' <=> Orphan(c)
BY SameSteps DEF Orphan, Now

\* The step the script is at.
LEMMA NowFacts ==
    ASSUME ScriptType, pc <= Len(Steps)
    PROVE  /\ Now \in StepSet /\ pc + 1 \in 1 .. Len(Steps) + 1
           /\ Now.op # "write" => Fits(Now, Here, Plan[pc + 1])
           /\ Now.op = "write" => pc = Len(Steps) /\ Now = LastStep /\ Plan[pc + 1] = Here
<1>1. pc \in 1 .. Len(Steps)
  BY PlanFacts DEF ScriptType
<1>2. Now \in StepSet
  BY <1>1, PlanFacts DEF Now
<1>3. Fits(Now, Here, Plan[pc + 1]) \/ (pc = Len(Steps) /\ Now = LastStep /\ Plan[pc + 1] = Here)
  BY <1>1, PlanFacts DEF Now, Here, Planned
<1>4. Fits(Now, Here, Plan[pc + 1]) => Now.op # "write"
  BY DEF Fits, Reliable
<1>5. LastStep.op = "write"
  BY DEF LastStep, Step
<1> QED BY <1>1, <1>2, <1>3, <1>4, <1>5, PlanFacts

\* The inductive invariant for PassIsReal; with Calm it is the one for NoFalseAlarm.
Basics == ScriptType /\ Known /\ Caught /\ Complete

\* A child that has gone wrong stays so.
Worse ==
    /\ proc' \in [Children -> ProcStates]
    /\ \A c \in Children : fault[c].what # "none" =>
         proc'[c] \in {"bad", "hung", "sick"} /\ (fault[c].what = "bad" => proc'[c] = "bad")

LEMMA WorseSame == ASSUME Basics, UNCHANGED proc PROVE Worse
BY DEF Basics, ScriptType, Caught, Worse

-----------------------------------------------------------------------------
(* The verdict: a step that is passed has seen no fault.                       *)

\* Steps that do not go on in the script, and steps that do.
LEMMA StayKeeps ==
    ASSUME Basics, UNCHANGED <<kind, pc, fault>>, Worse,
           left' \in 0 .. MaxFaults,
           \A c \in Children : proc'[c] # "none" =>
               proc[c] # "none" \/ (phase' # "try" /\ Orphan(c)),
           phase' = "try" => phase = "try",
           verdict' = "pass" => verdict = "pass" \/ pc > Len(Steps),
           summary' = "new" => summary = "new" \/ verdict = "pass"
    PROVE  Basics'
<1>1. Steps' = Steps /\ Plan' = Plan
  BY SameSteps
<1>2. ScriptType'
  BY <1>1 DEF Basics, ScriptType, Worse
<1>3. Known'
  BY <1>1, SameOrphan DEF Basics, Known, Here
<1>4. Caught'
  BY <1>1 DEF Basics, Caught, Worse
<1>5. Complete'
  BY <1>1, PlanFacts DEF Basics, Complete, ScriptType
<1> QED BY <1>2, <1>3, <1>4, <1>5 DEF Basics

LEMMA PassKeeps ==
    ASSUME Basics, phase = "try", pc <= Len(Steps), Pass, Worse, UNCHANGED fault,
           left' \in 0 .. MaxFaults,
           \A c \in Children : fault[c].what # "none" => ~IsLook(Now, c, fault[c].what),
           \A c \in Children : proc'[c] # "none" => proc[c] # "none" \/ c \in Begun(Now),
           summary' = summary \/ Now.op = "write"
    PROVE  Basics'
<1>1. Steps' = Steps /\ Plan' = Plan /\ pc' = pc + 1 /\ verdict' = verdict
  BY SameSteps DEF Pass
<1>2. pc + 1 \in 1 .. Len(Steps) + 1 /\ pc \in Nat /\ Len(Steps) \in Nat
  BY NowFacts, PlanFacts DEF Basics, ScriptType
<1>3. ScriptType'
  BY <1>1, <1>2 DEF Basics, ScriptType, Worse
<1>4. Known'
  <2>1. Here' = Plan[pc + 1]
    BY <1>1 DEF Here
  <2>2. CASE Now.op # "write"
    <3>1. Plan[pc + 1].started = Here.started \cup Begun(Now)
      BY <2>2, NowFacts DEF Basics, Fits
    <3> QED BY <2>1, <3>1 DEF Basics, Known
  <2>3. CASE Now.op = "write"
    <3>1. Plan[pc + 1] = Here /\ Begun(Now) = {}
      BY <2>3, NowFacts DEF Basics, Begun
    <3> QED BY <2>1, <3>1 DEF Basics, Known
  <2> QED BY <2>2, <2>3
<1>5. Caught'
  <2> SUFFICES ASSUME NEW c \in Children, fault[c].what # "none"
               PROVE  /\ proc'[c] \in {"bad", "hung", "sick"}
                      /\ fault[c].what = "bad" => proc'[c] = "bad"
                      /\ fault[c].step \in 1 .. pc + 1
                      /\ \A i \in 1 .. (pc + 1) - 1 :
                           IsLook(Steps[i], c, fault[c].what) => i < fault[c].step
    BY <1>1 DEF Caught
  <2>1. /\ fault[c].step \in 1 .. pc
        /\ \A i \in 1 .. pc - 1 : IsLook(Steps[i], c, fault[c].what) => i < fault[c].step
    BY DEF Basics, Caught
  <2>2. ~IsLook(Steps[pc], c, fault[c].what)
    BY DEF Now
  <2> QED BY <1>2, <2>1, <2>2 DEF Worse
<1>6. Complete'
  BY <1>1, <1>2, NowFacts DEF Basics, Complete
<1> QED BY <1>3, <1>4, <1>5, <1>6 DEF Basics

LEMMA RaiseKeeps ==
    ASSUME Basics, Raise, UNCHANGED <<proc, fault, summary>>, left' \in 0 .. MaxFaults
    PROVE  Basics'
BY StayKeeps, WorseSame DEF Raise, Leave

\* The step the script is at has shown nobody to be well who is not.
Unseen ==
    \A c \in Children :
        /\ proc[c] \in {"bad", "hung", "sick"} => ~IsLook(Now, c, "sick")
        /\ proc[c] = "bad" => ~IsLook(Now, c, "bad")

LEMMA UnseenFaults ==
    ASSUME Basics, Unseen
    PROVE  \A c \in Children : fault[c].what # "none" => ~IsLook(Now, c, fault[c].what)
BY DEF Basics, Unseen, Caught, IsLook

Settled == UNCHANGED <<proc, fault, left, summary>>

LEMMA PassPlain ==
    ASSUME Basics, phase = "try", pc <= Len(Steps), Pass, Settled, Unseen
    PROVE  Basics'
<1>1. left' \in 0 .. MaxFaults
  BY DEF Basics, ScriptType, Settled
<1> QED BY <1>1, PassKeeps, UnseenFaults, WorseSame DEF Settled

LEMMA RaisePlain == ASSUME Basics, Raise, Settled PROVE Basics'
<1>1. left' \in 0 .. MaxFaults
  BY DEF Basics, ScriptType, Settled
<1> QED BY <1>1, RaiseKeeps DEF Settled

LEMMA AskBasics ==
    ASSUME Basics,
           \/ AwaitFile \/ AwaitAnswers \/ Ask \/ AskHeard \/ AskRefused \/ AskClosed \/ CheckAlive
           \/ SleepThenCheck \/ ReadAddress \/ AwaitExit
    PROVE  Basics'
<1>1. phase = "try" /\ pc <= Len(Steps) /\ Settled
  BY DEF AwaitFile, AwaitAnswers, Ask, AskHeard, AskRefused, AskClosed, CheckAlive, SleepThenCheck,
         ReadAddress, AwaitExit, At, Settled
<1>2. Now \in StepSet /\ (Now.op # "write" => Fits(Now, Here, Plan[pc + 1]))
  BY <1>1, NowFacts DEF Basics
<1>3. Raise \/ (Pass /\ Unseen)
  <2> USE <1>1, <1>2 DEF Unseen, IsLook, Fits, Reliable, StepSet, Answers, Exited, Running, Assert, At
  <2>1. CASE AwaitFile
    BY <2>1 DEF AwaitFile
  <2>2. CASE AwaitAnswers
    BY <2>2 DEF AwaitAnswers
  <2>3. CASE Ask
    BY <2>3 DEF Ask
  <2>4. CASE AskHeard
    BY <2>4 DEF AskHeard
  <2>5. CASE AskRefused
    BY <2>5 DEF AskRefused
  <2>6. CASE AskClosed
    BY <2>6 DEF AskClosed
  <2>7. CASE CheckAlive
    BY <2>7 DEF CheckAlive
  <2>8. CASE SleepThenCheck
    BY <2>8 DEF SleepThenCheck
  <2>9. CASE ReadAddress
    BY <2>9 DEF ReadAddress
  <2>10. CASE AwaitExit
    BY <2>10 DEF AwaitExit
  <2> QED BY <2>1, <2>2, <2>3, <2>4, <2>5, <2>6, <2>7, <2>8, <2>9, <2>10
<1> QED BY <1>1, <1>3, PassPlain, RaisePlain

LEMMA StartBasics == ASSUME Basics, Spawn \/ InterruptSpawn PROVE Basics'
<1>1. phase = "try" /\ pc <= Len(Steps) /\ Now.op = "start"
  BY DEF Spawn, InterruptSpawn, At
<1>2. Now \in StepSet /\ Fits(Now, Here, Plan[pc + 1])
  BY <1>1, NowFacts DEF Basics
<1>3. left' \in 0 .. MaxFaults /\ UNCHANGED <<fault, summary>>
  BY SmokeScriptsAssumption DEF Spawn, InterruptSpawn, Basics, ScriptType
<1>4. \/ Raise /\ UNCHANGED proc
      \/ (Pass \/ Raise) /\ proc' = [proc EXCEPT ![Now.who] = "up"]
  BY DEF Spawn, InterruptSpawn
<1>5. CASE Raise /\ UNCHANGED proc
  BY <1>3, <1>5, RaiseKeeps
<1>6. CASE (Pass \/ Raise) /\ proc' = [proc EXCEPT ![Now.who] = "up"]
  <2>1. Now.who \in Children /\ proc[Now.who] = "none"
    BY <1>1, <1>2 DEF Basics, Known, Fits, Reliable
  <2>2. fault[Now.who].what = "none"
    BY <2>1 DEF Basics, Caught
  <2>3. Worse
    BY <1>6, <2>1, <2>2 DEF Worse, Basics, ScriptType, Caught, ProcStates
  <2>4. \A c \in Children : proc'[c] # "none" => proc[c] # "none" \/ c = Now.who
    BY <1>6 DEF Basics, ScriptType
  <2>5. CASE Pass
    <3>1. Unseen
      BY <1>1, <1>2 DEF Unseen, IsLook, Fits, Reliable
    <3>2. \A c \in Children : proc'[c] # "none" => proc[c] # "none" \/ c \in Begun(Now)
      BY <1>1, <2>4 DEF Begun
    <3> QED BY <1>1, <1>3, <2>3, <2>5, <3>1, <3>2, PassKeeps, UnseenFaults
  <2>6. CASE Raise
    <3>1. \A c \in Children : proc'[c] # "none" => proc[c] # "none" \/ (phase' # "try" /\ Orphan(c))
      BY <1>1, <2>4, <2>6 DEF Orphan, Raise, Leave
    <3> QED BY <1>3, <2>3, <2>6, <3>1, StayKeeps DEF Raise, Leave
  <2> QED BY <1>6, <2>5, <2>6
<1> QED BY <1>4, <1>5, <1>6

LEMMA StopBasics == ASSUME Basics, StopChecked \/ StopAnyhow PROVE Basics'
<1>1. /\ phase = "try" /\ pc <= Len(Steps) /\ Now.op \in {"stops", "gone"}
      /\ UNCHANGED <<fault, left, summary>>
  BY DEF StopChecked, StopAnyhow, At
<1>2. Now \in StepSet /\ Fits(Now, Here, Plan[pc + 1])
  BY <1>1, NowFacts DEF Basics
<1>3. Now.who \in Children /\ left' \in 0 .. MaxFaults
  BY <1>1, <1>2, PlanFacts DEF Fits, Reliable, Steady, Basics, ScriptType, Here, Outlooks
<1>4. CASE StopChecked
  <2>1. UNCHANGED proc
    BY <1>4 DEF StopChecked
  <2>2. CASE Pass
    <3>1. Unseen
      BY <1>1, <1>2, <1>3, <1>4, <2>2
         DEF StopChecked, Pass, Raise, Leave, At, Unseen, IsLook, Fits, Reliable
    <3> QED BY <1>1, <2>1, <2>2, <3>1, PassPlain DEF Settled
  <2>3. CASE ~Pass
    <3>1. UNCHANGED <<kind, pc>> /\ (verdict' = "pass" => verdict = "pass")
      BY <1>4, <2>3 DEF StopChecked, Raise, Leave
    <3> QED BY <1>1, <1>3, <2>1, <3>1, StayKeeps, WorseSame
  <2> QED BY <2>2, <2>3
<1>5. CASE StopAnyhow
  <2>1. \/ UNCHANGED proc
        \/ proc[Now.who] = "hung" /\ proc' = [proc EXCEPT ![Now.who] = "bad"]
    BY <1>5 DEF StopAnyhow
  <2>2. Worse /\ \A c \in Children : proc'[c] # "none" => proc[c] # "none"
    BY <1>3, <2>1 DEF Worse, Basics, ScriptType, Caught, ProcStates
  <2>3. CASE Pass
    <3>1. Now.op = "gone"
      BY <1>5 DEF StopAnyhow, At
    <3>2. Unseen
      BY <1>2, <3>1 DEF Unseen, IsLook, Fits, Reliable
    <3> QED BY <1>1, <1>3, <2>2, <2>3, <3>2, PassKeeps, UnseenFaults
  <2>4. CASE ~Pass
    <3>1. UNCHANGED <<kind, pc, verdict>>
      BY <1>5, <2>4 DEF StopAnyhow
    <3> QED BY <1>1, <1>3, <2>2, <3>1, StayKeeps
  <2> QED BY <2>3, <2>4
<1> QED BY <1>4, <1>5

LEMMA ToolBasics == ASSUME Basics, RunTool \/ ToolEnds \/ WriteInside \/ EndTry PROVE Basics'
<1>1. /\ UNCHANGED <<proc, fault, left>>
      /\ left' \in 0 .. MaxFaults
  BY DEF RunTool, ToolEnds, WriteInside, EndTry, Basics, ScriptType
<1>2. CASE RunTool
  BY <1>1, <1>2, StayKeeps, WorseSame DEF RunTool
<1>3. CASE ToolEnds
  <2>1. phase = "try" /\ pc <= Len(Steps) /\ Now.op = "tool" /\ Settled
    BY <1>1, <1>3 DEF ToolEnds, At, Settled
  <2>2. Now \in StepSet /\ Fits(Now, Here, Plan[pc + 1])
    BY <2>1, NowFacts DEF Basics
  <2>3. Raise \/ (Pass /\ Unseen)
    BY <1>3, <2>1, <2>2 DEF ToolEnds, Unseen, IsLook, StepSet, Answers, Running, Assert
  <2> QED BY <2>1, <2>3, PassPlain, RaisePlain
<1>4. CASE WriteInside
  <2>1. phase = "try" /\ pc <= Len(Steps) /\ Now.op = "write" /\ Pass
    BY <1>4 DEF WriteInside, At
  <2>2. Now = LastStep
    BY <2>1, NowFacts DEF Basics
  <2>3. Unseen
    BY <2>2 DEF Unseen, IsLook, LastStep, Step
  <2>4. \A c \in Children : proc'[c] # "none" => proc[c] # "none"
    BY <1>1
  <2> QED BY <1>1, <2>1, <2>3, <2>4, PassKeeps, UnseenFaults, WorseSame
<1>5. CASE EndTry
  BY <1>1, <1>5, StayKeeps, WorseSame DEF EndTry, Leave
<1> QED BY <1>2, <1>3, <1>4, <1>5

LEMMA EndBasics == ASSUME Basics, Terminate \/ Reap \/ Finish PROVE Basics'
<1>1. /\ UNCHANGED <<kind, pc, fault, verdict>> /\ phase' # "try"
      /\ summary' = "new" => summary = "new" \/ verdict = "pass"
      /\ left' \in 0 .. MaxFaults
  BY DEF Terminate, Reap, Finish, Basics, ScriptType
<1>2. CASE Terminate \/ Finish
  <2>1. UNCHANGED proc
    BY <1>2 DEF Terminate, Finish
  <2> QED BY <1>1, <2>1, StayKeeps, WorseSame
<1>3. CASE Reap
  <2>1. \/ UNCHANGED proc
        \/ \E c : proc[c] = "hung" /\ proc' = [proc EXCEPT ![c] = "bad"]
    BY <1>3 DEF Reap
  <2>2. Worse /\ \A c \in Children : proc'[c] # "none" => proc[c] # "none"
    BY <2>1 DEF Worse, Basics, ScriptType, Caught, ProcStates
  <2> QED BY <1>1, <2>2, StayKeeps
<1> QED BY <1>2, <1>3

LEMMA ChildBasics == ASSUME Basics, NEW c \in Children, ChildStep(c) PROVE Basics'
<1>1. /\ UNCHANGED <<kind, pc, phase, fault, verdict, summary>>
      /\ left' \in 0 .. MaxFaults
  BY DEF ChildStep, BecomeReady, Obey, EndsAlone, Basics, ScriptType
<1>2. \/ UNCHANGED proc
      \/ proc[c] = "up" /\ \E w \in {"ok", "bad"} : proc' = [proc EXCEPT ![c] = w]
      \/ proc[c] = "sick" /\ proc' = [proc EXCEPT ![c] = "bad"]
  BY DEF ChildStep, BecomeReady, Obey, EndsAlone
<1>3. Worse /\ \A d \in Children : proc'[d] # "none" => proc[d] # "none"
  BY <1>2 DEF Worse, Basics, ScriptType, Caught, ProcStates
<1> QED BY <1>1, <1>3, StayKeeps

LEMMA WrongBasics == ASSUME Basics, NEW c \in Children, GoWrong(c) PROVE Basics'
<1>1. PICK w \in {"bad", "hung", "sick"} :
        /\ proc' = [proc EXCEPT ![c] = w]
        /\ fault' = [fault EXCEPT ![c] = [what |-> w, step |-> pc]]
  BY DEF GoWrong
<1>2. Steps' = Steps /\ Plan' = Plan /\ UNCHANGED <<kind, pc, phase, verdict, summary>>
  BY SameSteps DEF GoWrong
<1>3. proc[c] = "up" /\ pc \in 1 .. Len(Steps) + 1 /\ pc \in Nat
  BY PlanFacts DEF GoWrong, Basics, ScriptType
<1>4. ScriptType'
  <2>1. left' \in 0 .. MaxFaults
    BY SmokeScriptsAssumption DEF GoWrong, Basics, ScriptType
  <2>2. proc' \in [Children -> ProcStates]
    BY <1>1 DEF Basics, ScriptType, ProcStates
  <2>3. fault' \in [Children -> [what : {"none", "bad", "hung", "sick"}, step : Nat]]
    BY <1>1, <1>3 DEF Basics, ScriptType
  <2> QED BY <1>2, <1>3, <2>1, <2>2, <2>3 DEF ScriptType
<1>5. Known'
  BY <1>1, <1>2, <1>3, SameOrphan DEF Basics, ScriptType, Known, Here
<1>6. Caught'
  <2> SUFFICES ASSUME NEW d \in Children, fault'[d].what # "none"
               PROVE  /\ proc'[d] \in {"bad", "hung", "sick"}
                      /\ fault'[d].what = "bad" => proc'[d] = "bad"
                      /\ fault'[d].step \in 1 .. pc
                      /\ \A i \in 1 .. pc - 1 : IsLook(Steps[i], d, fault'[d].what) => i < fault'[d].step
    BY <1>2 DEF Caught
  <2>1. CASE d = c
    <3>1. proc'[d] = w /\ fault'[d].what = w /\ fault'[d].step = pc
      BY <1>1, <2>1 DEF Basics, ScriptType
    <3> QED BY <1>3, <3>1
  <2>2. CASE d # c
    <3>1. proc'[d] = proc[d] /\ fault'[d] = fault[d]
      BY <1>1, <2>2 DEF Basics, ScriptType
    <3> QED BY <3>1 DEF Basics, Caught
  <2> QED BY <2>1, <2>2
<1>7. Complete'
  BY <1>2 DEF Basics, Complete
<1> QED BY <1>4, <1>5, <1>6, <1>7 DEF Basics

LEMMA OtherBasics == ASSUME Basics, ToolHangs \/ Interrupt PROVE Basics'
<1>1. left' \in 0 .. MaxFaults
  BY SmokeScriptsAssumption DEF ToolHangs, Interrupt, Basics, ScriptType
<1>2. CASE ToolHangs
  BY <1>1, <1>2, StayKeeps, WorseSame DEF ToolHangs
<1>3. CASE Interrupt
  BY <1>1, <1>3, RaiseKeeps DEF Interrupt
<1> QED BY <1>2, <1>3

LEMMA NextBasics == Basics /\ [Next]_vars => Basics'
<1>1. ASSUME Basics, UNCHANGED vars PROVE Basics'
  <2>1. UNCHANGED <<kind, pc, phase, proc, fault, left, verdict, summary>>
    BY <1>1 DEF vars
  <2>2. left' \in 0 .. MaxFaults
    BY <1>1, <2>1 DEF Basics, ScriptType
  <2> QED BY <1>1, <2>1, <2>2, StayKeeps, WorseSame
<1>2. ASSUME Basics, ScriptStep PROVE Basics'
  BY <1>2, AskBasics, StartBasics, StopBasics, ToolBasics, EndBasics DEF ScriptStep
<1> QED BY <1>1, <1>2, ChildBasics, WrongBasics, OtherBasics, StartBasics DEF Next

LEMMA InitBasics == ASSUME Init \/ \E ph : Unstarted(ph) PROVE Basics
<1>1. PICK ph : Unstarted(ph)
  BY DEF Init
<1>2. ScriptType
  BY <1>1, PlanFacts, SmokeScriptsAssumption DEF Unstarted, ScriptType, ProcStates
<1>3. Known /\ Caught
  BY <1>1 DEF Unstarted, Known, Caught
<1>4. Complete
  BY <1>1 DEF Unstarted, Complete
<1> QED BY <1>2, <1>3, <1>4 DEF Basics

\* A set of steps has a last one.
LEMMA LastExists ==
    ASSUME NEW n \in Nat, NEW L \in SUBSET (1 .. n), L # {}
    PROVE  \E i \in L : \A j \in L : j <= i
<1> DEFINE T == {x \in Nat : n - x \in L}
           R == OpToRel(<, Nat)
<1>1. IsWellFoundedOn(R, Nat)
  BY NatLessThanWellFounded
<1>2. \A x, y \in Nat : x < y => <<x, y>> \in R
  BY DEF OpToRel
<1>3. T \in SUBSET Nat /\ T # {}
  <2>1. PICK i \in L : TRUE
    OBVIOUS
  <2>2. n - i \in Nat /\ n - (n - i) = i
    BY <2>1
  <2> QED BY <2>1, <2>2
<1> HIDE DEF R
<1>4. PICK x \in T : \A y \in T : ~(<<y, x>> \in R)
  BY <1>1, <1>3, WFMin
<1>5. PICK i \in L : x = n - i
  OBVIOUS
<1>6. ASSUME NEW j \in L, j > i PROVE FALSE
  <2>1. n - j \in T /\ n - j \in Nat /\ x \in Nat /\ n - j < x
    BY <1>3, <1>5, <1>6
  <2> QED BY <1>2, <1>4, <2>1
<1> QED BY <1>5, <1>6

Looks(c, what) == {i \in 1 .. Len(Steps) : IsLook(Steps[i], c, what)}

LEMMA LastLookIs ==
    ASSUME NEW c, NEW what
    PROVE  LastLook(c, what) = 0 \/ LastLook(c, what) \in Looks(c, what)
<1>1. LastLook(c, what) = IF Looks(c, what) = {} THEN 0
                          ELSE CHOOSE i \in Looks(c, what) : \A j \in Looks(c, what) : j <= i
  BY DEF LastLook, Looks, IsLook
<1>2. PICK L : L = Looks(c, what)
  OBVIOUS
<1>3. L \in SUBSET (1 .. Len(Steps)) /\ Len(Steps) \in Nat
  BY <1>2, PlanFacts DEF Looks
<1>4. CASE L # {}
  <2>1. \E i \in L : \A j \in L : j <= i
    BY <1>3, <1>4, LastExists
  <2>2. (CHOOSE i \in L : \A j \in L : j <= i) \in L
    BY <2>1
  <2> QED BY <1>1, <1>2, <1>4, <2>2
<1> QED BY <1>1, <1>2, <1>4

LEMMA BasicsReal == ASSUME Basics PROVE PassIsReal
<1> SUFFICES ASSUME verdict = "pass" \/ summary = "new", NEW c \in Children, fault[c].what # "none"
             PROVE  fault[c].step > LastLook(c, fault[c].what)
  BY DEF PassIsReal
<1>1. pc = Len(Steps) + 1 /\ Len(Steps) \in Nat
  BY PlanFacts DEF Basics, Complete
<1>2. /\ fault[c].step \in 1 .. pc
      /\ \A i \in 1 .. pc - 1 : IsLook(Steps[i], c, fault[c].what) => i < fault[c].step
  BY DEF Basics, Caught
<1>3. PICK l : l = LastLook(c, fault[c].what)
  OBVIOUS
<1>4. l = 0 \/ (l \in 1 .. Len(Steps) /\ IsLook(Steps[l], c, fault[c].what))
  BY <1>3, LastLookIs DEF Looks
<1> QED BY <1>1, <1>2, <1>3, <1>4

\* A script that passes, or leaves a summary, has looked at every child after whatever
\* went wrong with it: no step accepts a child that has died, hangs or answers wrongly.
THEOREM ScriptPassesReal == ToolSpec => []PassIsReal
<1>1. ToolInit => Basics
  BY InitBasics DEF ToolInit
<1>2. Basics /\ [ToolNext]_toolVars => Basics'
  BY NextBasics DEF ToolNext, toolVars
<1>3. Basics => PassIsReal
  BY BasicsReal
<1> QED BY <1>1, <1>2, <1>3, PTL DEF ToolSpec

-----------------------------------------------------------------------------
(* False alarms: where nothing goes wrong the children are as the plan says.   *)

\* Whom a step relies on is up, unless the step stops it.
LEMMA WellUp ==
    ASSUME Basics, Well, pc <= Len(Steps)
    PROVE  \A c \in Steady(Here) : proc[c] = "up" \/ (Now.op \in {"stops", "gone"} /\ Now.who = c)
BY DEF Well, Steady

LEMMA HereType ==
    ASSUME ScriptType
    PROVE  Here \in Outlooks /\ Here.up \subseteq Children /\ Here.ready \subseteq Children
BY PlanFacts DEF ScriptType, Here, Outlooks

\* Steps that do not go on in the script, and steps that do.
LEMMA StayWell ==
    ASSUME Basics, Well, UNCHANGED <<kind, pc, fault, late>>, ready \subseteq ready',
           tool' # "hung", tool' # "none" => pc <= Len(Steps) /\ Now.op = "tool",
           told' = told \/ (/\ pc <= Len(Steps) /\ Now.op \in {"stops", "gone"}
                            /\ Now.who \in Here.started /\ told' = told \cup {Now.who}),
           proc' = proc \/ \E d \in Children : /\ d \in told \cup Alone /\ proc[d] = "up"
                                               /\ proc' = [proc EXCEPT ![d] = "ok"]
    PROVE  Well'
<1>1. Steps' = Steps /\ Plan' = Plan /\ Here' = Here /\ Now' = Now
  BY SameSteps DEF Here, Now
<1>2. /\ \A c \in Children : proc'[c] \in {"none", "up", "ok"} /\ fault'[c].what = "none"
      /\ \A c \in Here.up : proc'[c] = "up" \/ (proc'[c] = "ok" /\ c \in told' \cup Alone)
      /\ \A c \in Children : proc'[c] = "up" => c \in Here.up
  BY HereType DEF Basics, ScriptType, Well
<1>3. /\ Here.ready \subseteq ready' \cup late /\ late \cap Peers = {} /\ told' \subseteq Here.started
      /\ \A c \in told' \cap Here.up : pc <= Len(Steps) /\ Now.op \in {"stops", "gone"} /\ Now.who = c
      /\ \A c \in Here.up \cap Alone : Peer(c) \in Here.up \cap Here.ready
  BY DEF Well
<1> QED BY <1>1, <1>2, <1>3 DEF Well

LEMMA PassWell ==
    ASSUME Basics, Well, pc <= Len(Steps), Pass, UNCHANGED <<fault, ready>>,
           tool' = "none" \/ (tool' = tool /\ Now.op # "tool"),
           \A c \in Children : proc'[c] \in {"none", "up", "ok"},
           \A c \in Here.up : proc'[c] = proc[c],
           \A c \in Begun(Now) : proc'[c] = "up",
           \A c \in Children : proc'[c] = "up" => c \in (Here.up \cup Begun(Now)) \ Ended(Now),
           late \subseteq late', late' \cap Peers = {}, Shown(Now) \subseteq ready \cup late'
    PROVE  Well'
<1>1. Steps' = Steps /\ Plan' = Plan /\ pc' = pc + 1 /\ told' = told
  BY SameSteps DEF Pass
<1>2. PICK y : y = Plan[pc + 1]
  OBVIOUS
<1>3. Here' = y
  BY <1>1, <1>2 DEF Here
<1>4. tool' = "none"
  BY DEF Well
<1>5. CASE Now.op = "write"
  <2>1. y = Here /\ Begun(Now) = {} /\ Ended(Now) = {}
    BY <1>2, <1>5, NowFacts DEF Basics, Begun, Ended
  <2>2. told \cap y.up = {}
    BY <1>5, <2>1 DEF Well
  <2> QED BY <1>1, <1>3, <1>4, <2>1, <2>2 DEF Well
<1>6. CASE Now.op # "write"
  <2>1. Fits(Now, Here, y)
    BY <1>2, <1>6, NowFacts DEF Basics
  <2>2. /\ y.started = Here.started \cup Begun(Now) /\ y.up = (Here.up \cup Begun(Now)) \ Ended(Now)
        /\ y.ready = Here.ready \cup Shown(Now)
    BY <2>1 DEF Fits
  <2>3. told \cap y.up = {}
    <3>1. told \cap Begun(Now) = {}
      BY <2>1 DEF Well, Begun, Fits, Reliable
    <3>2. told \cap Here.up \subseteq Ended(Now)
      BY DEF Well, Ended
    <3> QED BY <2>2, <3>1, <3>2
  <2>4. y.ready \subseteq ready \cup late' /\ told \subseteq y.started
    BY <2>2 DEF Well
  <2>5. \A c \in y.up : proc'[c] = "up" \/ (proc'[c] = "ok" /\ c \in told \cup Alone)
    BY <2>2 DEF Well
  <2>6. \A c \in y.up \cap Alone : Peer(c) \in y.up \cap y.ready
    <3>1. ASSUME NEW c \in y.up \cap Alone PROVE Peer(c) \in Here.up \cap Here.ready
      <4>1. CASE c \in Here.up
        BY <3>1, <4>1 DEF Well
      <4>2. CASE c \in Begun(Now)
        BY <2>1, <3>1, <4>2 DEF Begun, Fits, Reliable
      <4> QED BY <2>2, <3>1, <4>1, <4>2
    <3>2. ASSUME NEW c \in y.up \cap Alone PROVE Peer(c) \notin Ended(Now)
      <4>1. Peer(c) \notin Alone
        BY DEF Peer, Alone
      <4>2. Now.op = "start" => Ended(Now) = {}
        BY DEF Ended
      <4>3. Now.op # "start" => c \in Here.up \cap Alone
        BY <2>2 DEF Begun
      <4> QED BY <2>1, <4>1, <4>2, <4>3 DEF Ended, Fits, Reliable
    <3> QED BY <2>2, <3>1, <3>2
  <2> QED BY <1>1, <1>3, <1>4, <2>2, <2>3, <2>4, <2>5, <2>6 DEF Well
<1> QED BY <1>5, <1>6

LEMMA PassQuiet ==
    ASSUME Basics, Well, pc <= Len(Steps), Pass, UNCHANGED <<proc, ready, fault>>,
           tool' = "none" \/ (tool' = tool /\ Now.op # "tool"), Now.op # "start",
           \A c \in Ended(Now) : proc[c] # "up",
           late \subseteq late', late' \cap Peers = {}, Shown(Now) \subseteq ready \cup late'
    PROVE  Well'
<1>1. Begun(Now) = {}
  BY DEF Begun
<1>2. \A c \in Children : proc'[c] \in {"none", "up", "ok"}
  BY DEF Well
<1>3. \A c \in Children : proc'[c] = "up" => c \in (Here.up \cup Begun(Now)) \ Ended(Now)
  BY DEF Well
<1> QED BY <1>1, <1>2, <1>3, PassWell

\* A step that leaves the try block because of a child that got too little time.
GivesUp == phase' = "finally" /\ Blamed'

LEMMA RaiseBlames ==
    ASSUME Raise, NEW c \in late', c \in Now.needs \cup {Now.who}
    PROVE  GivesUp
<1>1. phase' = "finally" /\ Now' = Now
  BY SameSteps DEF Raise, Leave, Now
<1> QED BY <1>1 DEF GivesUp, Blamed

\* A question to children that are as the plan says gets the answer it waits for, unless
\* one of them got too little time.
LEMMA AskWell ==
    ASSUME Basics, Well, phase = "try",
           \/ AwaitFile \/ AwaitAnswers \/ Ask \/ AskHeard \/ AskRefused \/ AskClosed \/ CheckAlive
           \/ SleepThenCheck \/ ReadAddress \/ AwaitExit
    PROVE  (Well' /\ UNCHANGED <<phase, verdict>>) \/ GivesUp
<1>1. /\ pc <= Len(Steps) /\ UNCHANGED <<proc, ready, fault, tool>>
      /\ Now.op \in {"file", "answers", "query", "heard", "refused", "closed", "alive", "sleep",
                     "readline", "exits"}
  BY DEF AwaitFile, AwaitAnswers, Ask, AskHeard, AskRefused, AskClosed, CheckAlive, SleepThenCheck,
         ReadAddress, AwaitExit, At
<1>2. Now \in StepSet /\ Reliable(Now, Here)
  BY <1>1, NowFacts DEF Basics, Fits
<1>3. \A c \in Steady(Here) : proc[c] = "up"
  BY <1>1, WellUp
<1>4. /\ Here.ready \subseteq ready \cup late /\ late \cap Peers = {}
      /\ \A c \in Children : proc[c] \in {"none", "up", "ok"} /\ fault[c].what = "none"
  BY DEF Well
<1>5. \A c \in Now.needs \cup Now.alive : proc[c] = "up"
  BY <1>2, <1>3 DEF Reliable
<1>6. Now.needs \subseteq Children /\ Now.alive \subseteq Children
  BY <1>2 DEF StepSet
<1> DEFINE Fine == /\ Pass /\ late \subseteq late' /\ late' \cap Peers = {}
                   /\ Shown(Now) \subseteq ready \cup late' /\ \A c \in Ended(Now) : proc[c] # "up"
<1>7. Fine \/ GivesUp
  <2>1. CASE AwaitFile
    <3>1. Now.op = "file" /\ ~ \E c \in Now.alive : Exited(c)
      BY <1>5, <2>1 DEF AwaitFile, At, Exited
    <3>2. CASE Now.who \in ready
      BY <1>4, <2>1, <3>1, <3>2 DEF AwaitFile, Shown, Ended
    <3>3. CASE Now.who \notin ready
      <4>1. Raise /\ Now.who \in late'
        BY <2>1, <3>1, <3>3 DEF AwaitFile, TooShort
      <4> QED BY <4>1, RaiseBlames
    <3> QED BY <3>2, <3>3
  <2>2. CASE AwaitAnswers
    <3>1. Now.op = "answers" /\ ~ \E c \in Now.alive : Exited(c)
      BY <1>5, <2>2 DEF AwaitAnswers, At, Exited
    <3>2. CASE \A c \in Now.needs : Answers(c)
      BY <1>4, <2>2, <3>1, <3>2 DEF AwaitAnswers, Shown, Ended, Answers
    <3>3. CASE ~ \A c \in Now.needs : Answers(c)
      <4>1. PICK c \in Now.needs : c \notin ready
        BY <1>5, <3>3 DEF Answers
      <4>2. Raise /\ c \in late'
        BY <2>2, <3>1, <3>3, <4>1 DEF AwaitAnswers, TooShort
      <4> QED BY <4>2, RaiseBlames
    <3> QED BY <3>2, <3>3
  <2>3. CASE Ask \/ AskHeard
    <3>1. /\ Now.op \in {"query", "heard"} /\ late' = late
          /\ Now.needs \subseteq ready \cup late /\ (Now.op = "heard" => Now.who = "record")
      BY <1>2, <1>4, <2>3 DEF Ask, AskHeard, At, Reliable
    <3>2. {"play", "record"} \subseteq Children
      BY DEF Children
    <3>3. CASE Pass
      BY <1>4, <3>1, <3>3 DEF Shown, Ended
    <3>4. CASE ~Pass
      <4>1. Raise /\ ((\E c \in Now.needs : ~Answers(c)) \/ (AskHeard /\ "record" \in late))
        BY <1>4, <2>3, <3>2, <3>4 DEF Ask, AskHeard
      <4>2. CASE \E c \in Now.needs : ~Answers(c)
        <5>1. PICK c \in Now.needs : c \notin ready
          BY <1>5, <4>2 DEF Answers
        <5> QED BY <3>1, <4>1, <5>1, RaiseBlames
      <4>3. CASE AskHeard /\ "record" \in late
        <5>1. Now.who = "record"
          BY <3>1, <4>3 DEF AskHeard, At
        <5> QED BY <3>1, <4>1, <4>3, <5>1, RaiseBlames
      <4> QED BY <4>1, <4>2, <4>3
    <3> QED BY <3>3, <3>4
  <2>4. CASE AskRefused
    BY <1>4, <1>5, <2>4 DEF AskRefused, At, Shown, Ended
  <2>5. CASE AskClosed
    <3>1. Now.op = "closed" /\ proc[Now.who] = "up"
      BY <1>2, <1>3, <2>5 DEF AskClosed, At, Reliable
    <3> QED BY <1>4, <2>5, <3>1 DEF AskClosed, Exited, Shown, Ended
  <2>6. CASE CheckAlive
    BY <1>4, <1>5, <2>6 DEF CheckAlive, At, Assert, Running, Shown, Ended
  <2>7. CASE SleepThenCheck
    <3>1. Now.op = "sleep" /\ Now.who \notin Peers /\ late' = late \cup ({Now.who} \ ready)
      BY <1>2, <2>7 DEF SleepThenCheck, At, Reliable, TooShort
    <3>2. Pass
      BY <1>5, <2>7 DEF SleepThenCheck, Assert, Running
    <3> QED BY <1>4, <3>1, <3>2 DEF Shown, Ended
  <2>8. CASE ReadAddress
    <3>1. Now.op = "readline" /\ Now.needs = {"bus"} /\ proc["bus"] = "up"
      BY <1>2, <1>5, <2>8 DEF ReadAddress, At, Reliable
    <3> QED BY <1>4, <2>8, <3>1 DEF ReadAddress, Exited, Answers, Shown, Ended
  <2>9. CASE AwaitExit
    <3>1. Now.op = "exits" /\ Now.who \in Here.up
      BY <1>2, <2>9 DEF AwaitExit, At, Reliable
    <3>2. proc[Now.who] \in {"up", "ok"}
      BY <3>1 DEF Well
    <3> QED BY <1>4, <2>9, <3>1, <3>2 DEF AwaitExit, Shown, Ended
  <2> QED BY <2>1, <2>2, <2>3, <2>4, <2>5, <2>6, <2>7, <2>8, <2>9
<1>8. CASE Fine
  <2>1. UNCHANGED <<phase, verdict>>
    BY <1>8 DEF Pass
  <2>2. tool' = tool /\ Now.op \notin {"tool", "start"}
    BY <1>1
  <2> QED BY <1>1, <1>8, <2>1, <2>2, PassQuiet
<1> QED BY <1>7, <1>8

LEMMA StartWell ==
    ASSUME Basics, Well, Spawn, left' = left
    PROVE  Well' /\ UNCHANGED <<phase, verdict>>
<1>1. /\ phase = "try" /\ pc <= Len(Steps) /\ Now.op = "start"
      /\ UNCHANGED <<ready, tool, fault, late>>
  BY DEF Spawn, At
<1>2. Reliable(Now, Here)
  BY <1>1, NowFacts DEF Basics, Fits
<1>3. Pass /\ proc' = [proc EXCEPT ![Now.who] = "up"]
  <2>1. left # left - 1
    BY DEF Basics, ScriptType
  <2> QED BY <2>1 DEF Spawn
<1>4. Now.who \in Children /\ proc[Now.who] = "none" /\ Now.who \notin Here.up
  <2>1. Now.who \in Children \ Here.started
    BY <1>1, <1>2 DEF Reliable
  <2>2. proc[Now.who] = "none"
    BY <1>1, <2>1 DEF Basics, Known
  <2> QED BY <2>1, <2>2 DEF Well
<1>5. /\ Begun(Now) = {Now.who} /\ Ended(Now) = {} /\ Shown(Now) = {}
  BY <1>1 DEF Begun, Ended, Shown
<1>6. proc'[Now.who] = "up" /\ \A c \in Children \ {Now.who} : proc'[c] = proc[c]
  BY <1>3, <1>4 DEF Basics, ScriptType
<1>7. \A c \in Children : proc'[c] \in {"none", "up", "ok"}
  BY <1>6 DEF Well
<1>8. \A c \in Children : proc'[c] = "up" => c \in (Here.up \cup Begun(Now)) \ Ended(Now)
  BY <1>5, <1>6 DEF Well
<1>9. \A c \in Here.up : proc'[c] = proc[c]
  BY <1>4, <1>6, HereType DEF Basics
<1>10. late' \cap Peers = {}
  BY <1>1 DEF Well
<1> QED BY <1>1, <1>3, <1>5, <1>6, <1>7, <1>8, <1>9, <1>10, PassWell DEF Pass

LEMMA StopWell ==
    ASSUME Basics, Well, StopChecked \/ StopAnyhow
    PROVE  Well' /\ UNCHANGED <<phase, verdict>>
<1>1. /\ phase = "try" /\ pc <= Len(Steps) /\ Now.op \in {"stops", "gone"}
      /\ UNCHANGED <<ready, tool, fault, late>> /\ late' \cap Peers = {}
  BY DEF StopChecked, StopAnyhow, At, Well
<1>2. Now.who \in Here.up /\ Now.who \in Children
  <2>1. Reliable(Now, Here)
    BY <1>1, NowFacts DEF Basics, Fits
  <2> QED BY <1>1, <2>1, HereType DEF Basics, Reliable, Steady
<1>3. proc[Now.who] \in {"up", "ok"} /\ Now.who \in Here.started
  BY <1>1, <1>2 DEF Well, Basics, Known
<1>4. /\ UNCHANGED <<phase, verdict, proc>>
      /\ \/ told' = told \cup {Now.who} /\ UNCHANGED <<kind, pc>>
         \/ Pass /\ proc[Now.who] = "ok"
  BY <1>3 DEF StopChecked, StopAnyhow, Exited, Running, Pass
<1>5. CASE Pass /\ proc[Now.who] = "ok"
  BY <1>1, <1>4, <1>5, PassQuiet DEF Ended, Shown
<1>6. CASE told' = told \cup {Now.who} /\ UNCHANGED <<kind, pc>>
  <2>1. tool' # "hung" /\ (tool' # "none" => pc <= Len(Steps) /\ Now.op = "tool")
    BY <1>1 DEF Well
  <2> QED BY <1>1, <1>3, <1>4, <1>6, <2>1, StayWell
<1> QED BY <1>4, <1>5, <1>6

LEMMA ToolWell ==
    ASSUME Basics, Well, RunTool \/ ToolEnds \/ WriteInside
    PROVE  (Well' /\ UNCHANGED <<phase, verdict>>) \/ GivesUp
<1>1. /\ pc <= Len(Steps) /\ Now.op \in {"tool", "write"}
      /\ UNCHANGED <<proc, ready, fault, late>> /\ late' \cap Peers = {}
  BY DEF RunTool, ToolEnds, WriteInside, At, Well
<1>2. CASE RunTool
  BY <1>1, <1>2, StayWell DEF RunTool, At
<1>3. CASE ToolEnds
  <2>1. Now.op = "tool" /\ tool' = "none" /\ tool # "hung"
    BY <1>3 DEF ToolEnds, At, Well
  <2>2. Reliable(Now, Here)
    BY <1>1, <2>1, NowFacts DEF Basics, Fits
  <2>3. \A c \in Steady(Here) : proc[c] = "up"
    BY <1>1, <2>1, WellUp
  <2>4. Now.needs \subseteq ready \cup late /\ \A c \in Now.needs \cup Now.alive : proc[c] = "up"
    BY <2>1, <2>2, <2>3 DEF Reliable, Well
  <2>5. CASE \A c \in Now.needs : Answers(c)
    <3>1. Pass
      BY <1>3, <2>1, <2>4, <2>5 DEF ToolEnds, Assert, Running
    <3> QED BY <1>1, <2>1, <3>1, PassQuiet DEF Ended, Shown, Pass
  <2>6. CASE ~ \A c \in Now.needs : Answers(c)
    <3>1. PICK c \in Now.needs : c \in late
      BY <2>4, <2>6 DEF Answers
    <3>2. Raise
      BY <1>3, <2>1, <2>6 DEF ToolEnds
    <3> QED BY <1>1, <3>1, <3>2, RaiseBlames
  <2> QED BY <2>5, <2>6
<1>4. CASE WriteInside
  <2>1. Now.op = "write" /\ Pass /\ tool' = tool
    BY <1>4 DEF WriteInside, At
  <2> QED BY <1>1, <2>1, PassQuiet DEF Ended, Shown, Pass
<1> QED BY <1>2, <1>3, <1>4

\* A child that is stopped, or ends by itself, ends well.
LEMMA ChildWell ==
    ASSUME Basics, Well, NEW c \in Children, ChildStep(c)
    PROVE  Well'
<1>1. UNCHANGED <<kind, pc, fault, told, tool, late>> /\ ready \subseteq ready'
  BY DEF ChildStep, BecomeReady, Obey, EndsAlone
<1>2. tool' # "hung" /\ (tool' # "none" => pc <= Len(Steps) /\ Now.op = "tool")
  BY <1>1 DEF Well
<1>3. proc' = proc \/ (c \in told \cup Alone /\ proc[c] = "up" /\ proc' = [proc EXCEPT ![c] = "ok"])
  <2>1. CASE BecomeReady(c)
    BY <2>1 DEF BecomeReady
  <2>2. CASE Obey(c)
    <3>1. proc[c] = "up"
      BY <2>2 DEF Obey, Well
    <3> QED BY <2>2, <3>1 DEF Obey
  <2>3. CASE EndsAlone(c)
    <3>1. proc[c] = "up" /\ c \in Alone
      BY <2>3 DEF EndsAlone, Well, Alone
    <3>2. c \in Here.up
      BY <3>1 DEF Well
    <3>3. Peer(c) \in Here.up \cap Here.ready /\ Peer(c) \in Peers \ Alone
      BY <3>1, <3>2 DEF Well, Peer, Peers, Alone
    <3>4. Peer(c) \notin told
      <4> SUFFICES ASSUME Peer(c) \in told PROVE FALSE
        OBVIOUS
      <4>1. pc <= Len(Steps) /\ Now.op \in {"stops", "gone"} /\ Now.who = Peer(c)
        BY <3>3 DEF Well
      <4>2. Reliable(Now, Here)
        BY <4>1, NowFacts DEF Basics, Fits
      <4> QED BY <3>1, <3>2, <4>1, <4>2 DEF Reliable
    <3>5. Answers(Peer(c))
      BY <3>3, <3>4 DEF Well, Answers
    <3>6. Peer(c) = IF c = "client" THEN "controller" ELSE "mock-disconnect"
      BY DEF Peer
    <3>7. proc' = [proc EXCEPT ![c] = "ok"]
      BY <2>3, <3>1, <3>5, <3>6 DEF EndsAlone
    <3> QED BY <3>1, <3>7
  <2> QED BY <2>1, <2>2, <2>3 DEF ChildStep
<1> QED BY <1>1, <1>2, <1>3, StayWell

LEMMA NextCalm == ASSUME Basics, Calm, [Next]_vars PROVE Calm'
<1> DEFINE Good == (phase' = "try" => verdict' # "fail" /\ Well') /\ (verdict' = "fail" => Blamed')
<1> SUFFICES ASSUME Untouched' PROVE Good
  BY DEF Calm
<1>1. left \in 0 .. MaxFaults /\ MaxFaults \in Nat /\ left # left - 1 /\ left' = MaxFaults
  BY SmokeScriptsAssumption DEF Basics, ScriptType, Untouched
<1>2. left' = left
  <2>1. left' = left \/ left' = left - 1
    BY DEF Next, vars, ScriptStep, Spawn, AwaitFile, AwaitAnswers, Ask, AskHeard, AskRefused,
           AskClosed, CheckAlive, SleepThenCheck, ReadAddress, AwaitExit, StopChecked, StopAnyhow,
           RunTool, ToolEnds, WriteInside, EndTry, Terminate, Reap, Finish,
           ChildStep, BecomeReady, Obey, EndsAlone, GoWrong, ToolHangs, Interrupt, InterruptSpawn
  <2> QED BY <1>1, <2>1
<1>3. /\ phase = "try" => verdict # "fail" /\ Well
      /\ verdict = "fail" => Blamed
  BY <1>1, <1>2 DEF Calm, Untouched
<1>4. \/ (phase = "try" /\ Well' /\ UNCHANGED <<phase, verdict>>) \/ GivesUp
      => Good
  BY <1>3 DEF GivesUp
<1>5. UNCHANGED <<kind, pc, verdict, late>> /\ (phase' = "try" => phase = "try" /\ Well') => Good
  <2>1. UNCHANGED <<kind, pc, late>> => Blamed' = Blamed
    BY SameSteps DEF Blamed, Now
  <2> QED BY <1>3, <2>1
<1>6. CASE UNCHANGED vars
  <2>1. UNCHANGED <<kind, pc, phase, verdict, proc, ready, told, tool, fault, late>>
    BY <1>6 DEF vars
  <2>2. Well => tool' # "hung" /\ (tool' # "none" => pc <= Len(Steps) /\ Now.op = "tool")
    BY <2>1 DEF Well
  <2>3. Well => Well'
    BY <2>1, <2>2, StayWell
  <2> QED BY <1>3, <1>5, <2>1, <2>3
<1>7. CASE Spawn
  <2>1. phase = "try"
    BY <1>7 DEF Spawn, At
  <2> QED BY <1>2, <1>3, <1>4, <1>7, <2>1, StartWell
<1>8. CASE \/ AwaitFile \/ AwaitAnswers \/ Ask \/ AskHeard \/ AskRefused \/ AskClosed \/ CheckAlive
           \/ SleepThenCheck \/ ReadAddress \/ AwaitExit
  <2>1. phase = "try"
    BY <1>8 DEF AwaitFile, AwaitAnswers, Ask, AskHeard, AskRefused, AskClosed, CheckAlive, SleepThenCheck,
                ReadAddress, AwaitExit, At
  <2> QED BY <1>3, <1>4, <1>8, <2>1, AskWell
<1>9. CASE StopChecked \/ StopAnyhow \/ RunTool \/ ToolEnds \/ WriteInside
  <2>1. phase = "try"
    BY <1>9 DEF StopChecked, StopAnyhow, RunTool, ToolEnds, WriteInside, At
  <2> QED BY <1>3, <1>4, <1>9, <2>1, StopWell, ToolWell
<1>10. CASE EndTry
  BY <1>10 DEF EndTry, Leave
<1>11. CASE Terminate \/ Reap \/ Finish
  <2>1. UNCHANGED <<kind, pc, verdict, late>> /\ phase' # "try"
    BY <1>11 DEF Terminate, Reap, Finish
  <2> QED BY <1>5, <2>1
<1>12. ASSUME NEW c \in Children, ChildStep(c) PROVE Good
  <2>1. UNCHANGED <<kind, pc, phase, verdict, late>>
    BY <1>12 DEF ChildStep, BecomeReady, Obey, EndsAlone
  <2> QED BY <1>3, <1>5, <1>12, <2>1, ChildWell
<1>13. ~Interrupt /\ ~InterruptSpawn /\ \A c \in Children : ~GoWrong(c)
  BY <1>1, <1>2 DEF Interrupt, InterruptSpawn, GoWrong
<1>14. CASE ToolHangs
  <2>1. \E c \in Now.needs : proc[c] = "hung"
    BY <1>1, <1>2, <1>14 DEF ToolHangs
  <2>2. phase # "try"
    <3> SUFFICES ASSUME Well PROVE FALSE
      BY <1>3
    <3>1. pc <= Len(Steps)
      BY <1>14 DEF ToolHangs, Well
    <3>2. Now \in StepSet
      BY <3>1, NowFacts DEF Basics
    <3> QED BY <2>1, <3>2 DEF StepSet, Well
  <2>3. UNCHANGED <<kind, pc, phase, verdict, late>>
    BY <1>14 DEF ToolHangs
  <2> QED BY <1>5, <2>2, <2>3
<1> HIDE DEF Good
<1> QED BY <1>6, <1>7, <1>8, <1>9, <1>10, <1>11, <1>12, <1>13, <1>14 DEF Next, ScriptStep

LEMMA InitCalm == ASSUME Init \/ \E ph : Unstarted(ph) PROVE Calm
<1>1. PICK ph : Unstarted(ph)
  BY DEF Init
<1>2. Here = Nothing
  BY <1>1, PlanFacts DEF Unstarted, Here
<1>3. Here.up = {} /\ Here.ready = {}
  BY <1>2 DEF Nothing, Outlook
<1> QED BY <1>1, <1>3 DEF Calm, Unstarted, Well

\* A script in which no child goes wrong, no tool hangs and nobody interrupts it fails only
\* at a step that asks a child for which a pause or a deadline was too short: no step
\* relies on a child that no earlier one has waited for, or that the script has stopped.
THEOREM NoFalseAlarms == ToolSpec => []NoFalseAlarm
<1>1. ToolInit => Basics /\ Calm
  BY InitBasics, InitCalm DEF ToolInit
<1>2. Basics /\ Calm /\ [ToolNext]_toolVars => Basics' /\ Calm'
  BY NextBasics, NextCalm DEF ToolNext, toolVars
<1>3. Basics /\ Calm => NoFalseAlarm
  BY SmokeScriptsAssumption DEF Basics, ScriptType, Calm, NoFalseAlarm, Untouched, Blamed
<1> QED BY <1>1, <1>2, <1>3, PTL DEF ToolSpec
-----------------------------------------------------------------------------
(* What is left: the finally block has every child that runs before it.        *)

\* A tool runs only while the script waits for it.
ToolHere == tool # "none" => phase = "try" /\ pc <= Len(Steps) /\ Now.op = "tool"

\* Whoever still runs when the try block has been left is waited for, except for the child
\* whose start was interrupted.
Listed ==
    /\ phase = "finally" => \A c \in Children : Running(c) => c \in todo \/ Orphan(c)
    /\ phase = "done" => \A c \in Children : Running(c) => Orphan(c)

Held == ScriptType /\ ToolHere /\ Listed

LEMMA StayHeld ==
    ASSUME Held, ScriptType', UNCHANGED <<kind, pc, phase, todo>>, tool' # "none" => tool # "none",
           \A c \in Children : proc'[c] \in {"up", "sick", "hung"} => Running(c)
    PROVE  Held'
<1>1. Steps' = Steps
  BY SameSteps
<1>2. ToolHere'
  BY <1>1 DEF Held, ToolHere, Now
<1>3. Listed'
  BY SameOrphan DEF Held, Listed, Running
<1> QED BY <1>2, <1>3 DEF Held

\* A step of the try block goes on in it, or leaves it with all of the children.
LEMMA TryHeld ==
    ASSUME Held, ScriptType', phase = "try", tool' = "none",
           phase' = "try" \/ (phase' = "finally" /\ todo' = Started /\ proc' = proc)
    PROVE  Held'
<1>1. ToolHere'
  BY DEF ToolHere
<1>2. Listed'
  <2>1. CASE phase' = "try"
    BY <2>1 DEF Listed
  <2>2. CASE phase' = "finally" /\ todo' = Started /\ proc' = proc
    BY <2>2 DEF Listed, Running, Started
  <2> QED BY <2>1, <2>2
<1> QED BY <1>1, <1>2 DEF Held

LEMMA ScriptHeld == ASSUME Held, ScriptType', ScriptStep PROVE Held'
<1>1. CASE RunTool
  <2>1. Steps' = Steps /\ UNCHANGED <<pc, phase>> /\ phase = "try" /\ pc <= Len(Steps) /\ Now.op = "tool"
    BY <1>1, SameSteps DEF RunTool, At
  <2>2. ToolHere' /\ Listed'
    BY <2>1 DEF ToolHere, Listed, Now
  <2> QED BY <2>2 DEF Held
<1>2. CASE ToolEnds
  BY <1>2, TryHeld DEF ToolEnds, At, Assert, Pass, Raise, Leave
<1>3. CASE \/ Spawn \/ AwaitFile \/ AwaitAnswers \/ Ask \/ AskHeard \/ AskRefused \/ AskClosed
           \/ CheckAlive
           \/ SleepThenCheck \/ ReadAddress \/ AwaitExit \/ StopChecked \/ StopAnyhow \/ WriteInside
           \/ EndTry
  <2>1. tool' = tool /\ phase = "try" /\ (pc > Len(Steps) \/ Now.op # "tool")
    BY <1>3 DEF Spawn, AwaitFile, AwaitAnswers, Ask, AskHeard, AskRefused, AskClosed, CheckAlive,
                SleepThenCheck, ReadAddress, AwaitExit, StopChecked, StopAnyhow, WriteInside, EndTry, At
  <2>2. tool = "none"
    <3>1. pc > Len(Steps) => ~(pc <= Len(Steps))
      BY PlanFacts DEF Held, ScriptType
    <3> QED BY <2>1, <3>1 DEF Held, ToolHere
  <2>3. phase' = "try" \/ (phase' = "finally" /\ todo' = Started /\ proc' = proc)
    BY <1>3, <2>1 DEF Spawn, AwaitFile, AwaitAnswers, Ask, AskHeard, AskRefused, AskClosed, CheckAlive,
                SleepThenCheck, ReadAddress, AwaitExit, StopChecked, StopAnyhow, WriteInside, EndTry,
                Assert, Pass, Raise, Leave
  <2> QED BY <2>1, <2>2, <2>3, TryHeld
<1>4. CASE Terminate
  BY <1>4, StayHeld DEF Terminate, Running
<1>5. CASE Reap
  <2>1. PICK c \in todo : /\ todo' = todo \ {c}
                          /\ \/ Exited(c) /\ proc' = proc
                             \/ proc' = [proc EXCEPT ![c] = "bad"]
    BY <1>5 DEF Reap
  <2>2. phase = "finally" /\ UNCHANGED <<phase, tool>>
    BY <1>5 DEF Reap
  <2>3. tool' = "none"
    BY <2>2 DEF Held, ToolHere
  <2>4. \A d \in Children : Orphan(d)' <=> Orphan(d)
    BY <1>5, SameOrphan DEF Reap
  <2>5. Listed'
    BY <2>1, <2>2, <2>4 DEF Held, ScriptType, Listed, Running, Exited
  <2> QED BY <2>3, <2>5 DEF Held, ToolHere
<1>6. CASE Finish
  <2>1. UNCHANGED <<proc, tool>> /\ phase = "finally" /\ todo = {} /\ phase' = "done"
    BY <1>6 DEF Finish
  <2>2. \A d \in Children : Orphan(d)' <=> Orphan(d)
    BY <1>6, SameOrphan DEF Finish
  <2>3. ToolHere' /\ Listed'
    BY <2>1, <2>2 DEF Held, ToolHere, Listed, Running
  <2> QED BY <2>3 DEF Held
<1> QED BY <1>1, <1>2, <1>3, <1>4, <1>5, <1>6 DEF ScriptStep

LEMMA NextHeld == ASSUME Held, ScriptType', [Next]_vars PROVE Held'
<1>1. CASE UNCHANGED vars
  BY <1>1, StayHeld DEF vars, Running
<1>2. ASSUME NEW c \in Children, ChildStep(c) PROVE Held'
  <2>1. UNCHANGED <<kind, pc, phase, todo, tool>>
    BY <1>2 DEF ChildStep, BecomeReady, Obey, EndsAlone
  <2>2. proc' = proc \/ \E w \in {"ok", "bad"} : proc' = [proc EXCEPT ![c] = w]
    BY <1>2 DEF ChildStep, BecomeReady, Obey, EndsAlone
  <2>3. \A d \in Children : proc'[d] \in {"up", "sick", "hung"} => Running(d)
    BY <2>2 DEF Held, ScriptType, Running
  <2> QED BY <2>1, <2>3, StayHeld
<1>3. ASSUME NEW c \in Children, GoWrong(c) PROVE Held'
  <2>1. /\ UNCHANGED <<kind, pc, phase, todo, tool>>
        /\ proc[c] = "up" /\ \E w : proc' = [proc EXCEPT ![c] = w]
    BY <1>3 DEF GoWrong
  <2>2. \A d \in Children : proc'[d] \in {"up", "sick", "hung"} => Running(d)
    BY <2>1 DEF Held, ScriptType, Running
  <2> QED BY <2>1, <2>2, StayHeld
<1>4. CASE ToolHangs
  BY <1>4, StayHeld DEF ToolHangs, Running
<1>5. CASE Interrupt
  BY <1>5, TryHeld DEF Interrupt, Raise, Leave
<1>6. CASE InterruptSpawn
  <2>1. /\ At("start") /\ phase' = "finally" /\ todo' = Started /\ UNCHANGED <<kind, pc, tool>>
        /\ proc' = [proc EXCEPT ![Now.who] = "up"]
    BY <1>6 DEF InterruptSpawn, Raise, Leave
  <2>2. tool' = "none"
    BY <2>1 DEF Held, ToolHere, At
  <2>3. \A d \in Children \ {Now.who} : proc'[d] = proc[d]
    BY <2>1 DEF Held, ScriptType
  <2>4. Listed'
    <3> SUFFICES ASSUME NEW c \in Children, Running(c)' PROVE c \in todo' \/ Orphan(c)'
      BY <2>1 DEF Listed
    <3>1. CASE c = Now.who
      <4>1. Orphan(c)
        BY <2>1, <3>1 DEF Orphan, At
      <4> QED BY <2>1, <4>1, SameOrphan
    <3>2. CASE c # Now.who
      <4>1. proc'[c] = proc[c] /\ proc'[c] # "none"
        BY <2>3, <3>2 DEF Running
      <4> QED BY <2>1, <4>1 DEF Started
    <3> QED BY <3>1, <3>2
  <2> QED BY <2>2, <2>4 DEF Held, ToolHere
<1> QED BY <1>1, <1>2, <1>3, <1>4, <1>5, <1>6, ScriptHeld DEF Next

LEMMA InitHeld == ASSUME Init \/ \E ph : Unstarted(ph) PROVE Held
<1>1. PICK ph : Unstarted(ph)
  BY DEF Init
<1>2. ToolHere /\ Listed
  BY <1>1 DEF Unstarted, ToolHere, Listed, Running
<1> QED BY <1>2, InitBasics DEF Basics, Held

\* A script that has ended has left nothing running, at whichever step it failed or was
\* interrupted: its finally block waits for, or kills, every child that has been started,
\* except one whose start was interrupted before the script had it in its list.
THEOREM ScriptsLeaveNothing == ToolSpec => []NothingLeft
<1>1. ToolInit => Basics /\ Held
  BY InitBasics, InitHeld DEF ToolInit
<1>2. Basics /\ Held /\ [ToolNext]_toolVars => Basics' /\ Held'
  <2>1. Basics' => ScriptType'
    BY DEF Basics
  <2> QED BY <2>1, NextBasics, NextHeld DEF ToolNext, toolVars
<1>3. Held => NothingLeft
  BY DEF Held, ToolHere, Listed, NothingLeft
<1> QED BY <1>1, <1>2, <1>3, PTL DEF ToolSpec
=============================================================================
