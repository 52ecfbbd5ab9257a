\* A build and two cases, in the sandbox and on the host, with every fault.
SPECIFICATION Spec
CONSTANTS
    Faults = {"sandbox", "host", "stall"}
    Programs <- MCPrograms
    Calls = 2
    Modes = {TRUE, FALSE}
CHECK_DEADLOCK FALSE
INVARIANTS TypeOK KeepsExecutions CodeMeansEnded BuildIsOver LeftoverWasNoCode
PROPERTIES CallsReturn
