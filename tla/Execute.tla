------------------------------- MODULE Execute -------------------------------
(***************************************************************************)
(* The processes behind execute (tool/internal/arena/runner.go), for the   *)
(* calls one entry needs: the build, then one per case.  A call starts a   *)
(* child and a timer.  In the sandbox the child is the docker CLI and the  *)
(* program runs in a container that belongs to the daemon; on the host the *)
(* child is the program, and cmd.Run also waits until every process that   *)
(* inherited the output pipes has let go of them.  The timer kills the     *)
(* child and nothing else.                                                 *)
(***************************************************************************)
EXTENDS Execution, FiniteSets

CONSTANTS
    Programs,   \* what a command may do: a Behaviour and what becomes of a
                \* helper it leaves with the output: "none", "leaves", "stays"
    Calls,      \* the number of calls after the build
    Modes

ASSUME ExecuteAssumption ==
    /\ Programs \subseteq [run : Behaviour, helper : {"none", "leaves", "stays"}]
    /\ Calls \in Nat
    /\ Modes \subseteq BOOLEAN

VARIABLES
    sandbox,    \* opts.Sandbox
    call,       \* the current call: 0 is the build
    prog,       \* the command of the call
    phase,      \* "idle", "waiting", "returned", "over"
    timer,      \* "running" or "expired": the call's context
    child,      \* "none", "running", "exited", "killed"
    exit,       \* what the exited child says: a record as in Execution
    job,        \* the program: "none", "running", "ended", "killed"
    helper,     \* the process that shares the program's output
    report,     \* what the call returned
    events,     \* history: the faults of the call
    left,       \* history: earlier calls whose program still runs
    reports     \* history: the class of each call's report

callVars == <<prog, timer, child, exit, job, helper, events>>
vars == <<sandbox, call, phase, report, left, reports, callVars>>

Nothing == [started |-> FALSE, deadline |-> FALSE, exit |-> 0, complains |-> FALSE, matches |-> FALSE]

Init ==
    /\ sandbox \in Modes
    /\ call = 0 /\ phase = "idle" /\ report = Nothing
    /\ left = {} /\ reports = [c \in 0..Calls |-> "none"]
    /\ prog \in Programs /\ timer = "running" /\ child = "none" /\ exit = Nothing
    /\ job = "none" /\ helper = "none" /\ events = {}

-----------------------------------------------------------------------------
(* The call *)

Start ==
    /\ phase = "idle"
    /\ phase' = "waiting" /\ child' = "running"
    /\ IF sandbox THEN UNCHANGED <<job, helper>>
       ELSE job' = "running" /\ helper' = IF prog.helper = "none" THEN "none" ELSE "running"
    /\ UNCHANGED <<sandbox, call, prog, timer, exit, report, events, left, reports>>

Return(r) ==
    /\ phase' = "returned" /\ report' = r
    /\ reports' = [reports EXCEPT ![call] = Classify(sandbox, r)]
    /\ left' = IF job = "running" THEN left \cup {call} ELSE left

\* The command cannot be started.
StartFails ==
    /\ phase = "idle"
    /\ (IF sandbox THEN "sandbox" ELSE "host") \in Faults
    /\ events' = {IF sandbox THEN "sandbox" ELSE "host"}
    /\ Return(NotStarted)
    /\ UNCHANGED <<sandbox, call, prog, timer, child, exit, job, helper>>

\* Mutation: the timeout is left to docker.
SlowOnHost == ~sandbox /\ (~prog.run.ends \/ helper = "running")

\* A program that is done in time leaves the timer time enough, unless the
\* daemon stalls.
Slow == ~prog.run.ends \/ helper = "running" \/ (sandbox /\ "stall" \in Faults)

Expire ==
    /\ phase = "waiting" /\ timer = "running" /\ Slow
    /\ timer' = "expired"
    /\ events' = IF sandbox /\ prog.run.ends THEN events \cup {"stall"} ELSE events
    /\ UNCHANGED <<sandbox, call, phase, prog, child, exit, job, helper, report, left, reports>>

Kill ==
    /\ phase = "waiting" /\ timer = "expired" /\ child = "running"
    /\ child' = "killed"
    /\ job' = IF sandbox THEN job ELSE "killed"
    /\ UNCHANGED <<sandbox, call, phase, prog, timer, exit, helper, report, events, left, reports>>

\* Mutation: the call does not wait for the output to be read to its end.
PipesClosedAnyway == TRUE

\* The output has been read to its end: nobody else can write it.
PipesClosed == sandbox \/ helper # "running"

\* Mutation: Run's own result is looked at before the context's.
ResultIgnoresTimer == [exit EXCEPT !.started = TRUE]

\* What is looked at after cmd.Run.
Result == [started |-> TRUE, deadline |-> timer = "expired", exit |-> exit.exit,
           complains |-> exit.complains, matches |-> exit.matches]

\* cmd.Run comes back; whether the timer expired is asked only now.
RunReturns ==
    /\ phase = "waiting" /\ child \in {"exited", "killed"} /\ PipesClosed
    /\ Return(Result)
    /\ UNCHANGED <<sandbox, call, callVars>>

\* Mutation: a failed build does not keep the cases from running.
GoesOnAlways == call < Calls

\* Mutation: one call too many.
GoesOnPastTheLast == call <= Calls /\ (call = 0 => reports[0] = "code" /\ report.exit = 0)

\* CheckEntry: the cases run only on a build that exited 0, then all of them.
GoesOn ==
    /\ call < Calls
    /\ call = 0 => reports[0] = "code" /\ report.exit = 0

NextCall ==
    /\ phase = "returned"
    /\ IF GoesOn
       THEN /\ call' = call + 1 /\ phase' = "idle" /\ prog' \in Programs
            /\ timer' = "running" /\ child' = "none" /\ exit' = Nothing
            /\ job' = "none" /\ helper' = "none" /\ events' = {} /\ report' = Nothing
       ELSE phase' = "over" /\ UNCHANGED <<call, callVars, report>>
    /\ UNCHANGED <<sandbox, left, reports>>

-----------------------------------------------------------------------------
(* The program, the CLI and the daemon *)

ContainerStarts ==
    /\ sandbox /\ phase = "waiting" /\ child = "running" /\ job = "none"
    /\ job' = "running"
    /\ UNCHANGED <<sandbox, call, phase, prog, timer, child, exit, helper, report, events, left, reports>>

ProgramEnds ==
    /\ job = "running" /\ phase = "waiting" /\ prog.run.ends
    /\ job' = "ended"
    /\ IF sandbox THEN UNCHANGED <<child, exit>>
       ELSE child' = "exited" /\ exit' = Started(prog.run)
    /\ UNCHANGED <<sandbox, call, phase, prog, timer, helper, report, events, left, reports>>

\* The CLI passes the exit of the container on.
CliExits ==
    /\ sandbox /\ child = "running" /\ job = "ended"
    /\ child' = "exited" /\ exit' = Started(prog.run)
    /\ UNCHANGED <<sandbox, call, phase, prog, timer, job, helper, report, events, left, reports>>

\* The daemon refuses the container or is lost while it runs: the CLI exits
\* with its own complaint.
DaemonFails ==
    /\ sandbox /\ "sandbox" \in Faults
    /\ phase = "waiting" /\ child = "running" /\ job \in {"none", "running"}
    /\ child' = "exited" /\ exit' \in Broken \ {NotStarted}
    /\ events' = events \cup {"sandbox"}
    /\ UNCHANGED <<sandbox, call, phase, prog, timer, job, helper, report, left, reports>>

HelperLeaves ==
    /\ helper = "running" /\ prog.helper = "leaves"
    /\ helper' = "gone"
    /\ UNCHANGED <<sandbox, call, phase, prog, timer, child, exit, job, report, events, left, reports>>

\* A container whose call is over goes on by itself and may end at last.
OrphanEnds ==
    /\ \E c \in left : left' = left \ {c}
    /\ UNCHANGED <<sandbox, call, phase, report, reports, callVars>>

Next ==
    \/ Start \/ StartFails \/ Expire \/ Kill \/ RunReturns \/ NextCall
    \/ ContainerStarts \/ ProgramEnds \/ CliExits \/ DaemonFails
    \/ HelperLeaves \/ OrphanEnds

\* The Go program and the kernel do their part: calls are made, the timer
\* fires if nothing comes first, killed children die.  Programs that end and
\* helpers that leave do so; nothing is assumed of docker and its daemon.
Fairness ==
    /\ WF_vars(Start) /\ WF_vars(NextCall) /\ WF_vars(RunReturns)
    /\ WF_vars(Expire) /\ WF_vars(Kill) /\ WF_vars(ProgramEnds) /\ WF_vars(HelperLeaves)

Spec == Init /\ [][Next]_vars /\ Fairness

-----------------------------------------------------------------------------
(* Properties *)

Outcome ==
    [started : BOOLEAN, deadline : BOOLEAN, exit : {0, 1, 125},
     complains : BOOLEAN, matches : BOOLEAN]

\* Every variable stays in its range.
TypeOK ==
    /\ sandbox \in Modes /\ call \in 0..Calls /\ prog \in Programs
    /\ phase \in {"idle", "waiting", "returned", "over"}
    /\ timer \in {"running", "expired"}
    /\ child \in {"none", "running", "exited", "killed"}
    /\ job \in {"none", "running", "ended", "killed"}
    /\ helper \in {"none", "running", "gone"}
    /\ events \subseteq {"sandbox", "host", "stall"} /\ left \subseteq 0..Calls
    /\ \A c \in 0..Calls : reports[c] \in {"none", "code", "verdict", "infra"}
    /\ exit \in Outcome /\ report \in Outcome

\* The program as the abstraction sees it: it ends if it and whatever holds its
\* output end before the cap.
Seen == IF prog.helper = "none" \/ sandbox THEN {prog.run}
        ELSE IF prog.helper = "stays" THEN {[prog.run EXCEPT !.ends = FALSE]}
        ELSE {prog.run, [prog.run EXCEPT !.ends = FALSE]}

SameReport(r, s) ==
    /\ Classify(sandbox, r) = Classify(sandbox, s)
    /\ Classify(sandbox, r) = "code" => r.exit = s.exit /\ r.matches = s.matches

\* What a call returns, with the faults that happened in it, is one of the
\* executions the harness is checked against: every interleaving of program,
\* CLI, daemon, timer and pipes is covered there.  A fault that meets an
\* expired timer is reported as the timeout.
KeepsExecutions ==
    phase = "returned" =>
        \E b \in Seen : \E x \in Executions(sandbox, b) :
            SameReport(report, x[1]) /\ (report.deadline \/ events \subseteq x[2])

\* An exit code is only ever reported of a program that ended by itself, with
\* nobody left who could still write to the output that was captured.
CodeMeansEnded ==
    phase = "returned" /\ Classify(sandbox, report) = "code"
        => job = "ended" /\ helper # "running" /\ report.matches = prog.run.matches

\* The directory every case is copied from is no longer the build's: its
\* program, in its container or on the host, is over before the first case.
\* A helper that a build on the host leaves behind is not counted.
BuildIsOver == call > 0 => 0 \notin left

\* A container survives its call, and so runs beside later cases, only if the
\* call reported no exit code.
LeftoverWasNoCode == \A c \in left : reports[c] # "code"

\* Every call returns, in the sandbox whatever docker and the program do, on
\* the host unless a helper keeps the output for ever.
CallsReturn == \A c \in 0..Calls :
    (call = c /\ phase = "waiting")
        ~> (call = c /\ (phase = "returned" \/ (~sandbox /\ prog.helper = "stays")))
=============================================================================
