---------------------------- MODULE MCEntryCheck ----------------------------
(* Small instances of one gate run. *)
EXTENDS EntryCheck

CONSTANTS n1, n2

MkEntry(v, h, ok, sc) ==
    [score |-> [vendored |-> v, hazards |-> h], conforms |-> ok, scorable |-> sc]

\* Every outcome of the lexicographic comparison between passing entries,
\* and a failing entry with the best score.
MCEntries ==
    { MkEntry(0, 1, TRUE, TRUE), MkEntry(1, 0, TRUE, TRUE),
      MkEntry(0, 0, FALSE, TRUE) }

\* A good entry, and one that fails and cannot be scored any more.
MCUnscorable == { MkEntry(0, 1, TRUE, TRUE), MkEntry(0, 0, FALSE, FALSE) }

MCNiches == {n1, n2}

=============================================================================
