------------------------------ MODULE Execution ------------------------------
(***************************************************************************)
(* What one call of execute (tool/internal/arena/runner.go) may report of  *)
(* the command it ran: the promise the harness (ArenaCheck) is built on,   *)
(* which the processes behind the call (Execute) are shown to keep.        *)
(***************************************************************************)
EXTENDS Integers

CONSTANTS
    Faults      \* a subset of {"sandbox", "host", "stall"}

ASSUME FaultsAssumption == Faults \subseteq {"sandbox", "host", "stall"}

\* What one run of a program does, left to itself: end or outrun the cap,
\* with this exit code, this stdout and perhaps a message on stderr that
\* reads like the docker CLI's own complaint.
Behaviour ==
    [ends : BOOLEAN, exit : {0, 1, 125}, matches : BOOLEAN, complains : BOOLEAN]

HostFails == "host" \in Faults

\* What cmd.Run may come back with: the program's own end or the deadline;
\* in the sandbox also a CLI that cannot start, a daemon that refuses
\* (exit 125), one that is down (exit 1 and its message), one that stalls.
Started(b) == [started |-> TRUE, deadline |-> ~b.ends, exit |-> b.exit,
               complains |-> b.complains, matches |-> b.matches]

NotStarted == [started |-> FALSE, deadline |-> FALSE, exit |-> 1, complains |-> FALSE, matches |-> FALSE]

Broken ==
    {NotStarted,
     [started |-> TRUE, deadline |-> FALSE, exit |-> 125, complains |-> FALSE, matches |-> FALSE],
     [started |-> TRUE, deadline |-> FALSE, exit |-> 1, complains |-> TRUE, matches |-> FALSE]}

Stalled == [started |-> TRUE, deadline |-> TRUE, exit |-> 1, complains |-> FALSE, matches |-> FALSE]

\* Mutation: only exit 125 is known for docker's own failure.
ClassifyByCode(sandbox, r) ==
    IF r.deadline THEN "verdict"
    ELSE IF ~r.started THEN (IF sandbox THEN "infra" ELSE "verdict")
    ELSE IF sandbox /\ r.exit = 125 THEN "infra"
    ELSE "code"

\* Mutation: docker's failures are looked for on the host, too.
ClassifyEverywhere(sandbox, r) ==
    IF r.deadline THEN "verdict"
    ELSE IF ~r.started THEN "infra"
    ELSE IF r.exit # 0 /\ (r.exit = 125 \/ r.complains) THEN "infra"
    ELSE "code"

\* The classification after cmd.Run: "verdict" is an error that is not infra.
Classify(sandbox, r) ==
    IF r.deadline THEN "verdict"
    ELSE IF ~r.started THEN (IF sandbox THEN "infra" ELSE "verdict")
    ELSE IF sandbox /\ r.exit # 0 /\ (r.exit = 125 \/ r.complains) THEN "infra"
    ELSE "code"

\* The runs of b together with the event each of them is.
Executions(sandbox, b) ==
    {<<Started(b), IF Classify(sandbox, Started(b)) = "infra" THEN {"imitated"} ELSE {}>>}
    \cup (IF sandbox /\ "sandbox" \in Faults THEN Broken \X {{"sandbox"}} ELSE {})
    \cup (IF sandbox /\ "stall" \in Faults THEN {<<Stalled, {"stall"}>>} ELSE {})
    \cup (IF ~sandbox /\ HostFails THEN {<<NotStarted, {"host"}>>} ELSE {})
=============================================================================
