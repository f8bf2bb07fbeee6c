----------------------------- MODULE SmokeTools -----------------------------
(***************************************************************************)
(* The smoke tests of tools/ with private buses, one at a time: one of the *)
(* scripts of module SmokeScripts, or the KDE test of module SmokeKde.     *)
(***************************************************************************)
EXTENDS SmokeScripts

CONSTANT MaxStubborn   \* processes of the KDE test that do not end on SIGTERM

VARIABLES runner, worker, state, term, stubborn, allowed, files, log, leaked

\* One case of each kind, in the order of the test (applet is run as kcm is).
KdeCases == <<"backend", "kcm", "mock-device", "mock-reconnect", "mock-headless">>

Kde == INSTANCE SmokeKde WITH Cases <- KdeCases, r <- runner, wk <- worker, left <- allowed

toolVars == <<vars, runner, worker, state, term, stubborn, allowed, files, log, leaked>>

\* The other one is in the state in which it has ended.
ToolInit ==
    \/ Init /\ Kde!Unstarted(Len(KdeCases) + 1)
    \/ kind = (CHOOSE k \in Kinds : TRUE) /\ Unstarted("done") /\ Kde!Init

ToolNext ==
    \/ Next /\ UNCHANGED <<runner, worker, state, term, stubborn, allowed, files, log, leaked>>
    \/ Kde!Next /\ UNCHANGED vars

ToolSpec == ToolInit /\ [][ToolNext]_toolVars /\ Fairness /\ Kde!Fairness

-----------------------------------------------------------------------------
(* Properties of the KDE test, and the end of all scripts *)

\* What smoke-kde-isolated.py reports of a case is what happened in it: the ready and
\* reconnected files of an earlier case are not taken for its own, and a case that passes
\* has ended by itself with success (unless it is a window) after the recovery.
KdePassIsReal == Kde!PassIsReal

\* smoke-kde-isolated.py signals the whole process group of a case: only a child of the
\* worker that ignores SIGTERM outlives it, even where the worker's own clean-up was cut
\* short, and a dbus-run-session that ignores it is killed with all of the group.
KdeNothingLeaks == Kde!NothingLeaks

\* Every script ends, whichever process hangs: smoke-kde-isolated.py with a verdict on
\* every case and no process left but a child that ignores SIGTERM, the others, unless
\* they wait for the address of a bus, with nothing left but a child whose start was
\* interrupted.
ScriptsEnd == ScriptEnds /\ Kde!RunEnds
=============================================================================
