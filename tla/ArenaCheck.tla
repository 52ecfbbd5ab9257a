----------------------------- MODULE ArenaCheck -----------------------------
(***************************************************************************)
(* `arena check <entry-dir>...` (tool/check.go, tool/main.go and           *)
(* internal/arena/runner.go): validate, build and run each entry against   *)
(* every case of its task, and turn what happened into one exit code.      *)
(*                                                                         *)
(* What is committed is chosen when an entry is opened; what docker, its   *)
(* daemon and the host do is chosen at every use of them.  Two history     *)
(* variables keep the truth the exit code is judged by: wrong, the entries *)
(* that deserve to fail, and events, what went wrong around them.          *)
(***************************************************************************)
EXTENDS Verdicts, Execution, FiniteSets

CONSTANTS
    Dirs,       \* the entry directories on the command line
    Cases,      \* the case directories of a task
    Builds,     \* what a build command may do
    Behaviours, \* what a case run of a program may do
    Modes       \* which settings of --no-sandbox are looked at

ASSUME CheckAssumption ==
    /\ Cases # {}
    /\ IsFiniteSet(Dirs)
    /\ Builds \cup Behaviours \subseteq Behaviour
    /\ Modes \subseteq BOOLEAN

VARIABLES
    sandbox,    \* opts.Sandbox: FALSE with --no-sandbox
    pc,         \* "open", "load", "prepare", "build", "cases", "exit", "done"
    left,       \* directories not checked yet
    entry,      \* what the current directory holds
    todo,       \* cases not run yet
    res,        \* the flags of the current Result: pass and infra
    failed,     \* results without Pass
    infra,      \* some result was infrastructure
    exit,       \* the exit code, or NoExit
    wrong,      \* history: entries that do not pass when run properly
    events      \* history: the faults met, and "imitated" for a program whose
                \* own exit reads like docker's

vars == <<sandbox, pc, left, entry, todo, res, failed, infra, exit, wrong, events>>

NoExit  == -1
NoBuild == [build |-> "none"]

\* valid: manifest, directory name, language, cases and scoring all hold.
Entry ==
    [dir     : Dirs,
     valid   : BOOLEAN,
     build   : Builds \cup {NoBuild},
     program : [Cases -> Behaviours],
     want    : [Cases -> {"zero", "nonzero"}]]

NoEntry == [dir |-> "none"]

\* The verdict the suite gives a program that is run as committed.
ExitMatches(b, want) == IF want = "nonzero" THEN b.exit # 0 ELSE b.exit = 0
Passes(b, want)      == b.ends /\ ExitMatches(b, want) /\ b.matches
Right(e) ==
    /\ e.valid
    /\ e.build # NoBuild => e.build.ends /\ e.build.exit = 0
    /\ \A c \in Cases : Passes(e.program[c], e.want[c])

-----------------------------------------------------------------------------
TypeOK ==
    /\ sandbox \in BOOLEAN
    /\ pc \in {"open", "load", "prepare", "build", "cases", "exit", "done"}
    /\ left \subseteq Dirs
    /\ entry \in Entry \cup {NoEntry}
    /\ todo \subseteq Cases
    /\ res \in [pass : BOOLEAN, infra : BOOLEAN]
    /\ failed \in 0 .. Cardinality(Dirs)
    /\ infra \in BOOLEAN
    /\ exit \in {NoExit, ExitPass, ExitFail, ExitInfra}
    /\ wrong \subseteq Dirs
    /\ events \subseteq {"sandbox", "host", "stall", "imitated"}

Init ==
    /\ sandbox \in Modes
    /\ pc = "open"
    /\ left = Dirs
    /\ entry = NoEntry
    /\ todo = {}
    /\ res = [pass |-> FALSE, infra |-> FALSE]
    /\ failed = 0
    /\ infra = FALSE
    /\ exit = NoExit
    /\ wrong = {}
    /\ events = {}

\* Mutation: an infrastructure result is counted twice.
ReportTwice(result) ==
    /\ res' = result
    /\ failed' = failed + (IF result.pass THEN 0 ELSE 1) + (IF result.infra THEN 1 ELSE 0)
    /\ infra' = (infra \/ result.infra)
    /\ pc' = IF left = {} THEN "exit" ELSE "open"
    /\ todo' = {}
    /\ UNCHANGED <<sandbox, left, entry, exit, wrong>>

\* The end of CheckEntry and of one turn of cmdCheck's loop.
Report(result) ==
    /\ res' = result
    /\ failed' = failed + (IF result.pass THEN 0 ELSE 1)
    /\ infra' = (infra \/ result.infra)
    /\ pc' = IF left = {} THEN "exit" ELSE "open"
    /\ todo' = {}
    /\ UNCHANGED <<sandbox, left, entry, exit, wrong>>

Fail(isInfra) == Report([pass |-> FALSE, infra |-> isInfra])

Goto(step) ==
    /\ pc' = step
    /\ UNCHANGED <<sandbox, left, entry, todo, res, failed, infra, exit, wrong>>

\* cmdCheck: the next directory; its content becomes known.
Open ==
    /\ pc = "open"
    /\ \E e \in Entry :
         /\ e.dir \in left
         /\ entry' = e
         /\ left' = left \ {e.dir}
         /\ wrong' = wrong \cup (IF Right(e) THEN {} ELSE {e.dir})
    /\ pc' = "load"
    /\ res' = [pass |-> FALSE, infra |-> FALSE]
    /\ UNCHANGED <<sandbox, todo, failed, infra, exit, events>>

\* LoadManifest .. ScoreDir; every error is a failure, also a read error.
Load ==
    /\ pc = "load"
    /\ \/ entry.valid /\ Goto("prepare") /\ UNCHANGED events
       \/ ~entry.valid /\ Fail(FALSE) /\ UNCHANGED events
       \/ HostFails /\ Fail(FALSE) /\ events' = events \cup {"host"}

\* MkdirTemp, copyTree, Remove, and the choice to build.
Prepare ==
    /\ pc = "prepare"
    /\ \/ entry.build # NoBuild /\ Goto("build") /\ UNCHANGED events
       \/ /\ entry.build = NoBuild
          /\ pc' = "cases"
          /\ todo' = Cases
          /\ res' = [pass |-> TRUE, infra |-> FALSE]
          /\ UNCHANGED <<sandbox, left, entry, failed, infra, exit, wrong, events>>
       \/ HostFails /\ Fail(FALSE) /\ events' = events \cup {"host"}

\* Mutation: the exit code of the build is not looked at.
BuildAnyCode ==
    /\ pc = "build"
    /\ \E x \in Executions(sandbox, entry.build) :
         /\ events' = events \cup x[2]
         /\ IF Classify(sandbox, x[1]) # "code" THEN Fail(Classify(sandbox, x[1]) = "infra")
            ELSE /\ pc' = "cases"
                 /\ todo' = Cases
                 /\ res' = [pass |-> TRUE, infra |-> FALSE]
                 /\ UNCHANGED <<sandbox, left, entry, failed, infra, exit, wrong>>

Build ==
    /\ pc = "build"
    /\ \E x \in Executions(sandbox, entry.build) :
         /\ events' = events \cup x[2]
         /\ IF Classify(sandbox, x[1]) # "code" THEN Fail(Classify(sandbox, x[1]) = "infra")
            ELSE IF x[1].exit # 0 THEN Fail(FALSE)
            ELSE /\ pc' = "cases"
                 /\ todo' = Cases
                 /\ res' = [pass |-> TRUE, infra |-> FALSE]
                 /\ UNCHANGED <<sandbox, left, entry, failed, infra, exit, wrong>>

\* Mutation: the last case decides.
CaseDecides(c, pass, isInfra) ==
    /\ todo' = todo \ {c}
    /\ res' = [pass |-> pass, infra |-> res.infra \/ isInfra]
    /\ UNCHANGED <<sandbox, pc, left, entry, failed, infra, exit, wrong>>

\* runCase and its bookkeeping: the loop never stops early.
CaseDone(c, pass, isInfra) ==
    /\ todo' = todo \ {c}
    /\ res' = [pass |-> res.pass /\ pass, infra |-> res.infra \/ isInfra]
    /\ UNCHANGED <<sandbox, pc, left, entry, failed, infra, exit, wrong>>

RunCase ==
    /\ pc = "cases"
    /\ \E c \in todo :
         \/ \E x \in Executions(sandbox, entry.program[c]) :
              /\ events' = events \cup x[2]
              /\ CaseDone(c,
                          /\ Classify(sandbox, x[1]) = "code"
                          /\ ExitMatches(x[1], entry.want[c])
                          /\ x[1].matches,
                          Classify(sandbox, x[1]) = "infra")
         \/ HostFails /\ CaseDone(c, FALSE, FALSE) /\ events' = events \cup {"host"}

FinishEntry ==
    /\ pc = "cases"
    /\ todo = {}
    /\ Report(res)
    /\ UNCHANGED events

\* Mutation: a failed entry outranks a missing verdict.
ExitFailFirst ==
    /\ pc = "exit"
    /\ exit' = IF failed > 0 THEN ExitFail ELSE IF infra THEN ExitInfra ELSE ExitPass
    /\ pc' = "done"
    /\ UNCHANGED <<sandbox, left, entry, todo, res, failed, infra, wrong, events>>

\* The end of cmdCheck and main's mapping of its error.
Exit ==
    /\ pc = "exit"
    /\ exit' = IF infra THEN ExitInfra ELSE IF failed > 0 THEN ExitFail ELSE ExitPass
    /\ pc' = "done"
    /\ UNCHANGED <<sandbox, left, entry, todo, res, failed, infra, wrong, events>>

Next ==
    \/ Open
    \/ Load
    \/ Prepare
    \/ Build
    \/ RunCase
    \/ FinishEntry
    \/ Exit

Spec == Init /\ [][Next]_vars

-----------------------------------------------------------------------------
(* What the exit code promises *)

\* The contract the gate, the board and the case impact step rely on: with
\* the faults that really occurred, the exit code is one Verdicts allows.
\* Exit 0 is earned by every entry on the command line, exit 1 by a failing
\* one unless the host broke, and exit 3 is never invented.
KeepsContract ==
    exit # NoExit =>
        exit \in CheckExits(wrong = {},
                            events \cup (IF "imitated" \in events THEN {"sandbox"} ELSE {}))

\* A container that did not run is no verdict, whatever the other cases, the
\* other entries, or a case that wants a nonzero exit made of it
\* (runner.go:49-55, check.go:49-53).
SandboxFaultIsNoVerdict ==
    exit # NoExit /\ "sandbox" \in events => exit = ExitInfra

\* A program cannot talk itself into a pass or a fail by imitating docker:
\* it only ever defers its own verdict (runner.go:222-224).
ImitationOnlyDefers ==
    exit # NoExit /\ "imitated" \in events => exit = ExitInfra

\* Within one command line the entries do not hide each other: whichever
\* entry leaves its checks without being counted as failed is right in every
\* part, its manifest, its build and all of its cases (runner.go:120-130,
\* check.go:32-37).
UncountedIsRight ==
    [][ (pc' \in {"open", "exit"} /\ pc \notin {"open", "exit"} /\ failed' = failed)
          => Right(entry) ]_vars

\* On the host every run is a verdict: there is no code 3, a program that
\* exits 125 or quotes docker is judged like any other, and while the host
\* works exit 0 means right and exit 1 means wrong (runner.go:235-237).
HostModeJudges ==
    exit # NoExit /\ ~sandbox =>
        /\ exit # ExitInfra
        /\ "host" \notin events => (exit = ExitPass <=> wrong = {})

=============================================================================
