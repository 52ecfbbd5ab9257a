---------------------------- MODULE MCArenaCheck ----------------------------
(* Small instances of `arena check`. *)
EXTENDS ArenaCheck

Runs(e, x, m, c) ==
    [ends |-> e, exit |-> x, matches |-> m, complains |-> c]

\* Right and wrong exits and outputs, an endless program, one that exits 125
\* and one that prints the daemon's complaint and exits 1.
MCBehaviours ==
    { Runs(TRUE, 0, TRUE, FALSE), Runs(TRUE, 0, FALSE, FALSE),
      Runs(TRUE, 1, TRUE, FALSE), Runs(FALSE, 0, TRUE, FALSE),
      Runs(TRUE, 125, TRUE, FALSE), Runs(TRUE, 1, TRUE, TRUE) }

MCBuilds == {b \in MCBehaviours : b.matches /\ ~b.complains /\ b.exit # 1}

=============================================================================
