------------------------------ MODULE Verdicts ------------------------------
(***************************************************************************)
(* The vocabulary the parts of the arena share: the exit codes of          *)
(* `arena check`, the per-entry statuses the gate records, the verdict     *)
(* class of a whole run, and the classes the close bot acts on.            *)
(***************************************************************************)
EXTENDS Integers

\* Exit codes of the arena binary (usage errors, code 2, do not arise from
\* the fixed command lines of the workflows).
ExitPass  == 0
ExitFail  == 1
ExitInfra == 3

(***************************************************************************)
(* What the gate may read as the exit code of `arena check` on an entry    *)
(* that is, or is not, right.  faults names what may go wrong around it:   *)
(* "sandbox" (docker missing or the daemon failing) is reported as code 3; *)
(* "host" (the runner's file system) and "stall" (a daemon or image pull   *)
(* that outlasts the cap) are not told apart from a failing entry.         *)
(* ArenaCheck is shown to keep this contract.                              *)
(***************************************************************************)
CheckExits(right, faults) ==
    (IF right THEN {ExitPass} ELSE {ExitFail})
    \cup (IF "sandbox" \in faults THEN {ExitInfra} ELSE {})
    \cup (IF faults \cap {"host", "stall"} # {} THEN {ExitFail} ELSE {})

PassStatuses == {"new-niche", "beats-champion", "open-niche"}

Statuses ==
    PassStatuses \cup
    {"not-improving", "conformance-fail", "infra-error", "removed"}

Classes ==
    {"pass", "not-improving", "conformance-fail", "infra-error",
     "entry-removed", "no-entry-changes", "error"}

\* The status of a challenger that passes its cases and has a score: an empty
\* niche, a strictly better score, or a champion that does, or does not, pass.
NicheStatus(empty, better, championPasses) ==
    IF empty THEN "new-niche"
    ELSE IF better THEN "beats-champion"
    ELSE IF championPasses THEN "not-improving"
    ELSE "open-niche"

\* The class of a completed run from the statuses it recorded: a removal
\* first, then a missing verdict, then the failure classes.
Class(statuses) ==
    IF "removed" \in statuses THEN "entry-removed"
    ELSE IF "infra-error" \in statuses THEN "infra-error"
    ELSE IF "conformance-fail" \in statuses THEN "conformance-fail"
    ELSE IF "not-improving" \in statuses THEN "not-improving"
    ELSE IF statuses # {} THEN "pass"
    ELSE "no-entry-changes"

\* The only classes the close bot may act on.
AutoReject == {"not-improving", "conformance-fail"}

=============================================================================
