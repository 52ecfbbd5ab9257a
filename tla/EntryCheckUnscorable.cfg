\* Two niches and nothing goes wrong.
SPECIFICATION Spec
CONSTANTS
    n1 = n1
    n2 = n2
    Absent = Absent
    Niches <- MCNiches
    Entries <- MCUnscorable
    Faults = {}
CHECK_DEADLOCK FALSE
INVARIANTS FailingChampionDefendsNothing
