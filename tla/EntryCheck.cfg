\* Two niches, every fault the verdicts claim to survive.
SPECIFICATION Spec
CONSTANTS
    n1 = n1
    n2 = n2
    Absent = Absent
    Niches <- MCNiches
    Entries <- MCEntries
    Faults = {"sandbox", "score", "diff", "kill", "emit"}
CHECK_DEADLOCK FALSE
INVARIANTS TypeOK VerdictIsTheRule GreenIsEarned RejectIsEarned ClassMirrorsGate
PROPERTIES Terminates CompleteIsFinal OutcomeIsTheGates
