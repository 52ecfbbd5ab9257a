--------------------------- MODULE MCPullRequests ---------------------------
(* Small instances of the arena around one niche. *)
EXTENDS PullRequests, TLC

CONSTANTS p1, p2, r1, r2, r3

MkEntry(v, h, l) == [score |-> [vendored |-> v, hazards |-> h], level |-> l]

\* The best score fails the sharpened suite; the others pass it, and differ
\* in one dimension of the score each.  A head may bring a case along, one that
\* it passes itself or, being the smallest, one that it fails.
Small  == MkEntry(0, 0, 0)
Middle == MkEntry(0, 1, 1)
Large  == MkEntry(1, 0, 1)
MCEntries == {Small, Middle, Large}

MkHead(e, k) == [entry |-> e, cases |-> k, listed |-> TRUE]
MCHeads == {MkHead(e, 0) : e \in MCEntries} \cup {MkHead(e, 1) : e \in {Small, Middle}}

\* For the bot: a score beyond what it accepts, and an entry whose name it
\* does not know.
Huge == MkEntry(2, 0, 1)
MCBotEntries == {Small, Large, Huge}
MCBotHeads ==
    {MkHead(Small, 0), MkHead(Huge, 0), MkHead(Small, 1),
     [MkHead(Large, 0) EXCEPT !.listed = FALSE]}

Symmetry  == Permutations({p1, p2}) \cup Permutations({r1, r2, r3})

=============================================================================
