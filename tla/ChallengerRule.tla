--------------------------- MODULE ChallengerRule ---------------------------
(***************************************************************************)
(* What the arena promises about one niche, with no pull request, workflow *)
(* or bot in sight: who may hold it and when it may change hands.          *)
(*                                                                         *)
(* A suite only grows: it is the number of sharpenings merged so far, and  *)
(* an entry passes the suites up to its own level.  A challenge is decided *)
(* on the main it was measured on, which may be an old one by the time the *)
(* challenger is crowned.                                                  *)
(***************************************************************************)
EXTENDS TrustScore

CONSTANTS
    Entries,    \* everything that may be submitted: [score : Score, level : Nat]
    None        \* no champion

VARIABLES
    champion, suite,    \* main
    bases,              \* the mains challenges were measured on
    late                \* a challenger was crowned on a main that had changed

Conforms(e, s) == e.level >= s

\* The challenger rule against a champion c and the suite s it defends:
\* an empty niche, a strictly better score, or a champion that fails.
Beats(e, c, s) ==
    \/ c = None
    \/ Better(e.score, c.score)
    \/ ~Conforms(c, s)

Main == [champion |-> champion, suite |-> suite]

Init ==
    /\ champion \in Entries \cup {None}
    /\ suite = 0
    /\ bases = {}
    /\ late = FALSE

\* A challenge is measured on main as it is.
Measure ==
    /\ bases' = bases \cup {Main}
    /\ UNCHANGED <<champion, suite, late>>

\* A challenger that passes takes the niche of a main it was measured on; it
\* may bring a case along.
Crown ==
    \E e \in Entries, k \in {0, 1}, b \in bases :
        /\ Conforms(e, b.suite + k)
        /\ Beats(e, b.champion, b.suite)
        /\ champion' = e
        /\ suite' = suite + k
        /\ late' = (late \/ b # Main)
        /\ UNCHANGED bases

\* A merged case; whoever fails it stays until challenged.
Sharpen ==
    /\ suite' = suite + 1
    /\ UNCHANGED <<champion, bases, late>>

Next == Measure \/ Crown \/ Sharpen

Spec == Init /\ [][Next]_<<champion, suite, bases, late>>

=============================================================================
