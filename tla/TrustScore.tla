----------------------------- MODULE TrustScore -----------------------------
(***************************************************************************)
(* The trust score of an entry (tool/internal/arena/score.go) and the      *)
(* strict order on it that decides who holds a niche.  The order is        *)
(* written twice in the repository: once in Go (Score.Better) and once in  *)
(* the shell of the gate (better in entry-check.yml); both are here.       *)
(***************************************************************************)
EXTENDS Integers

\* The two dimensions that are compared; the hit list, the file count and
\* the notes of the Go struct are reporting only.
Score == [vendored : Nat, hazards : Nat]

\* Score.Better: s strictly beats c; equal is not better.
Better(s, c) ==
    IF s.vendored # c.vendored
    THEN s.vendored < c.vendored
    ELSE s.hazards < c.hazards

\* Mutation: a tie in both dimensions counts as an improvement.
ShellBetterOrEqual(nv, nh, ov, oh) ==
    \/ nv < ov
    \/ nv = ov /\ nh <= oh

\* better() of the gate, over the four columns it is called with:
\* new bytes, new hazards, champion bytes, champion hazards.
ShellBetter(nv, nh, ov, oh) ==
    \/ nv < ov
    \/ nv = ov /\ nh < oh

=============================================================================
