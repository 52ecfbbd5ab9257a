------------------------------ MODULE MCExecute ------------------------------
(* Small instances of the processes behind `arena check`. *)
EXTENDS Execute

Run(e, x, m, c) == [ends |-> e, exit |-> x, matches |-> m, complains |-> c]

\* Right and wrong ends, an endless program, and two that imitate docker.
MCPrograms ==
    [run : {Run(TRUE, 0, TRUE, FALSE), Run(TRUE, 1, FALSE, FALSE), Run(FALSE, 0, TRUE, FALSE),
            Run(TRUE, 125, TRUE, FALSE), Run(TRUE, 1, TRUE, TRUE)},
     helper : {"none", "leaves", "stays"}]
=============================================================================
