------------------------------ MODULE SmokeKde ------------------------------
(***************************************************************************)
(* tools/smoke-kde-isolated.py: the loop that runs one case after the      *)
(* other, each in a process group of its own under dbus-run-session, and   *)
(* the worker inside it, which starts the mock daemon, the policy service, *)
(* an observer and the QML program of the case.  All cases share one       *)
(* runtime directory.  A process that outlives its case, because it is     *)
(* still ending or ignores SIGTERM, has lost its bus and does nothing more.*)
(***************************************************************************)
EXTENDS Naturals, Sequences

CONSTANTS
    Cases,        \* the cases, in their order
    MaxStubborn   \* processes that do not end on SIGTERM

VARIABLES
    r,         \* the runner
    wk,        \* the worker
    state,     \* per process of the case: "new", "runs" or its exit code
    term,      \* processes that have been sent SIGTERM
    stubborn,  \* processes that ignore it
    left,      \* stubborn processes allowed from now on
    files,     \* files in the runtime directory
    log,       \* what the log of the case shows
    leaked     \* processes of the case that has just ended which nothing makes end

vars == <<r, wk, state, term, stubborn, left, files, log, leaked>>

Children == {"mock", "policy", "observer", "command"}
Procs == {"leader", "worker"} \cup Children

Case == Cases[r.i]

\* The JSON file a worker gets.
UsesMock   == Case \in {"mock-device", "mock-reconnect", "mock-headless"}
UsesPolicy == Case \in {"mock-reconnect", "mock-headless"}
UsesObserver == Case = "mock-reconnect"
Headless   == Case = "mock-headless"

\* A file, and the case whose mock has written it.
File(n) == <<n, r.i>>
Exists(n) == \E f \in files : f[1] = n

Runs(p) == state[p] = "runs"
Over(p) == state[p] \notin {"new", "runs"}

Idle == [p \in Procs |-> "new"]

Unstarted(i) ==
    /\ r = [at |-> "start", i |-> i, timed |-> FALSE]
    /\ wk = [at |-> "off", res |-> "1"]
    /\ state = Idle /\ term = {} /\ stubborn = {} /\ left = MaxStubborn
    /\ files = {} /\ log = {} /\ leaked = {}

Init == Unstarted(1)

-----------------------------------------------------------------------------
(* The runner *)

StartCase ==
    /\ r.at = "start" /\ r.i <= Len(Cases)
    /\ r' = [r EXCEPT !.at = "wait", !.timed = FALSE]
    /\ wk' = [at |-> "main", res |-> "1"]
    /\ state' = [Idle EXCEPT !["leader"] = "runs", !["worker"] = "runs"]
    /\ log' = {} /\ leaked' = {}
    /\ UNCHANGED <<term, stubborn, left, files>>

FaultyWaitCase ==
    /\ r.at = "wait" /\ Over("leader")
    /\ r' = [r EXCEPT !.at = "killpg"]
    /\ UNCHANGED <<wk, state, term, stubborn, left, files, log, leaked>>

\* proc.wait: the program ends, or the time of the case is over.
WaitCase ==
    /\ r.at = "wait"
    /\ \/ Over("leader") /\ r' = [r EXCEPT !.at = "killpg"]
       \/ Runs("leader") /\ r' = [r EXCEPT !.at = "killpg", !.timed = TRUE]
    /\ UNCHANGED <<wk, state, term, stubborn, left, files, log, leaked>>

FaultyKillGroup ==
    /\ r.at = "killpg"
    /\ term' = IF Runs("leader") THEN term \cup {"leader"} ELSE term
    /\ r' = [r EXCEPT !.at = "reap"]
    /\ UNCHANGED <<wk, state, stubborn, left, files, log, leaked>>

\* killpg with SIGTERM.
KillGroup ==
    /\ r.at = "killpg"
    /\ term' = {p \in Procs : Runs(p)}
    /\ r' = [r EXCEPT !.at = "reap"]
    /\ UNCHANGED <<wk, state, stubborn, left, files, log, leaked>>

Signalled == {p \in term : Runs(p) /\ p \notin stubborn}

\* Only the leader is waited for.  SIGKILL goes to the group if it survives SIGTERM by
\* three seconds; who else still runs is left to the signal it has been sent.
ReapLeader ==
    /\ r.at = "reap" /\ "leader" \notin Signalled
    /\ state' = IF Runs("leader") THEN [p \in Procs |-> IF Runs(p) THEN "killed" ELSE state[p]]
                ELSE state
    /\ r' = [r EXCEPT !.at = "verdict"]
    /\ UNCHANGED <<wk, term, stubborn, left, files, log, leaked>>

\* A window is expected to stay open until it is stopped, everything else to end.
Verdict ==
    /\ "errors" \notin log
    /\ IF Case = "kcm" THEN r.timed ELSE state["leader"] = "0"
    /\ CASE Case = "backend" -> "loaded" \in log
         [] Case = "kcm" -> TRUE
         [] Case = "mock-device" -> "pass" \in log
         [] Case = "mock-reconnect" -> {"pass", "sequence", "seen"} \subseteq log
         [] OTHER -> "recovered" \in log

\* Whoever runs and is not about to end.
Remaining == {p \in Procs : Runs(p) /\ p \notin Signalled}

\* The report is written and never read, so it is left out; PassIsReal is about Verdict.
EndCase ==
    /\ r.at = "verdict"
    /\ r' = [r EXCEPT !.at = "start", !.i = @ + 1]
    /\ leaked' = {[who |-> p, deaf |-> p \in stubborn] : p \in Remaining}
    /\ wk' = [wk EXCEPT !.at = "off"] /\ state' = Idle
    /\ term' = {} /\ stubborn' = {} /\ log' = {}
    /\ UNCHANGED <<left, files>>

RunnerStep == StartCase \/ WaitCase \/ KillGroup \/ ReapLeader \/ EndCase

-----------------------------------------------------------------------------
(* The worker *)

\* A process that has been sent a signal starts no other: the kernel sees to that.
At(l) == Runs("worker") /\ "worker" \notin term /\ wk.at = l

Spawn(ps) == state' = [p \in Procs |-> IF p \in ps THEN "runs" ELSE state[p]]

Worker(l, res) ==
    wk' = [at |-> l, res |-> res] /\ UNCHANGED <<r, term, stubborn, left, log, leaked>>

FaultyWorkerMain ==
    /\ At("main")
    /\ IF UsesMock
       THEN Spawn({"mock"}) /\ Worker("poll", "1")
       ELSE Spawn({"command"}) /\ Worker("exec", "1")
    /\ UNCHANGED files

\* Without a mock the worker becomes the program: it ends when the program does.
WorkerMain ==
    /\ At("main")
    /\ IF UsesMock
       THEN files' = {} /\ Spawn({"mock"}) /\ Worker("poll", "1")
       ELSE UNCHANGED files /\ Spawn({"command"}) /\ Worker("exec", "1")

WorkerExec ==
    /\ At("exec") /\ Over("command")
    /\ Worker("exit", state["command"]) /\ UNCHANGED <<state, files>>

\* Two seconds for the mock to get ready, unless it ends first.
WorkerPoll ==
    /\ At("poll")
    /\ \/ /\ Exists("ready")
          /\ Spawn({"command"} \cup (IF UsesPolicy THEN {"policy"} ELSE {})
                               \cup (IF UsesObserver THEN {"observer"} ELSE {}))
          /\ Worker("call", "1")
       \/ ~Exists("ready") /\ Worker("policy", "1") /\ UNCHANGED state
    /\ UNCHANGED files

WorkerCall ==
    /\ At("call") /\ Over("command")
    /\ Worker(IF Headless /\ state["command"] = "0" THEN "headless" ELSE "policy",
              IF state["command"] = "0" THEN "0" ELSE "1")
    /\ UNCHANGED <<state, files>>

\* 45 seconds for the headset to be connected for the third time.
WorkerHeadless ==
    /\ At("headless")
    /\ \/ Exists("reconnected") /\ Worker("policy", "0")
       \/ ~Exists("reconnected") /\ Worker("policy", "1")
    /\ UNCHANGED <<state, files>>

After(l) == CASE l = "policy" -> "observer" [] l = "observer" -> "mock" [] l = "mock" -> "exit"

\* The finally clause, for one child: a wait that times out is an exception, and
\* the children after this one are left to the runner.
WorkerStop(c) ==
    /\ At(c)
    /\ IF Runs(c) /\ c \notin term
       THEN term' = term \cup {c} /\ UNCHANGED <<r, wk, stubborn, left, log, leaked>>
       ELSE \/ ~Runs(c) /\ Worker(After(c), wk.res)
            \/ Runs(c) /\ c \in stubborn /\ Worker("exit", "1")
    /\ UNCHANGED <<state, files>>

\* dbus-run-session ends with the code of its program.
WorkerExit ==
    /\ At("exit")
    /\ state' = [state EXCEPT !["worker"] = wk.res, !["leader"] = IF Runs("leader") THEN wk.res ELSE @]
    /\ UNCHANGED <<r, wk, term, stubborn, left, files, log, leaked>>

WorkerStep ==
    \/ WorkerMain \/ WorkerExec \/ WorkerPoll \/ WorkerCall \/ WorkerHeadless \/ WorkerExit
    \/ \E c \in {"policy", "observer", "mock"} : WorkerStop(c)

-----------------------------------------------------------------------------
(* The other processes *)

Writes(marker) == log' = log \cup {marker} /\ UNCHANGED <<r, wk, state, term, stubborn, left, files, leaked>>

\* The mock creates its file once it is on the bus; the third connection is
\* recorded in a file and then in the log.
Mock ==
    /\ Runs("mock")
    /\ \/ /\ File("ready") \notin files
          /\ files' = files \cup {File("ready")}
          /\ UNCHANGED <<r, wk, state, term, stubborn, left, log, leaked>>
       \/ /\ File("ready") \in files /\ Runs("policy") /\ File("reconnected") \notin files
          /\ files' = files \cup {File("reconnected")}
          /\ UNCHANGED <<r, wk, state, term, stubborn, left, log, leaked>>
       \/ File("reconnected") \in files /\ "recovered" \notin log /\ Writes("recovered")
       \/ UsesObserver /\ "recovered" \in log /\ Writes("sequence")

Observer == Runs("observer") /\ Writes("seen")

\* The program of the case: it reports what it sees, and ends; a window stays.
Command ==
    /\ Runs("command")
    /\ \/ \E m \in {"errors", IF Case = "backend" THEN "loaded" ELSE "pass"} : Writes(m)
       \/ /\ Case # "kcm"
          /\ \E c \in {"0", "1"} :
               /\ c = "0" => log \cap {"loaded", "pass"} # {}
               /\ state' = [state EXCEPT !["command"] = c]
          /\ UNCHANGED <<r, wk, term, stubborn, left, files, log, leaked>>

\* Any process may crash, or end on SIGTERM.
Ends(p) ==
    /\ Runs(p) /\ (p \in Signalled \/ p \in Children \ stubborn)
    /\ state' = [state EXCEPT ![p] = IF p \in Signalled THEN "term" ELSE "crash"]
    /\ UNCHANGED <<r, wk, term, stubborn, left, files, log, leaked>>

Hangs(p) ==
    /\ left > 0 /\ Runs(p) /\ p \notin stubborn \cup term
    /\ stubborn' = stubborn \cup {p} /\ left' = left - 1
    /\ UNCHANGED <<r, wk, state, term, files, log, leaked>>

Next ==
    \/ RunnerStep \/ WorkerStep \/ Mock \/ Observer \/ Command
    \/ \E p \in Procs : Ends(p)
    \/ \E p \in Children \cup {"leader"} : Hangs(p)

Done == r.at = "start" /\ r.i > Len(Cases)

\* The runner and the worker are scheduled and their timeouts expire; a process
\* that has been sent SIGTERM ends.  Nothing else has to make progress.
Fairness ==
    /\ WF_vars(RunnerStep) /\ WF_vars(WorkerStep)
    /\ \A p \in Procs : WF_vars(p \in Signalled /\ Ends(p))

Spec == Init /\ [][Next]_vars /\ Fairness

-----------------------------------------------------------------------------
(* Properties *)

\* What is reported of a case is what happened in it.  Its program starts when its own
\* mock is on the bus, and the worker reports a recovery only if it was that mock's: the
\* files of an earlier case are not taken for its own.  A case that passes, other than
\* a window, has ended by itself with success and its mock has seen the recovery.
PassIsReal ==
    r.at # "start" =>
        /\ UsesMock /\ state["command"] # "new" => File("ready") \in files
        /\ Headless /\ wk.at \in Children /\ wk.res = "0" => File("reconnected") \in files
        /\ r.at = "verdict" /\ Case # "kcm" /\ Verdict =>
             /\ state["worker"] = "0" /\ state["command"] = "0"
             /\ UsesPolicy => File("reconnected") \in files

\* Only a child of the worker that ignores SIGTERM outlives its case: never one that the
\* signal to the group has missed because the worker's own clean-up was cut short or a
\* process was started late, and never dbus-run-session itself, which gets SIGKILL.
NothingLeaks == \A p \in leaked : p.who \in Children /\ p.deaf

\* Every case gets a verdict, whichever process hangs, and nothing else is left.
RunEnds == <>(Done /\ NothingLeaks)
=============================================================================
