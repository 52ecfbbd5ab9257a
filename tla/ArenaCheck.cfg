\* Two entries of two cases in the sandbox and on the host, with every fault.
SPECIFICATION Spec
CONSTANTS
    Dirs = {"d1", "d2"}
    Cases = {"c1", "c2"}
    Builds <- MCBuilds
    Behaviours <- MCBehaviours
    Modes = {TRUE, FALSE}
    Faults = {"sandbox", "host", "stall"}
CHECK_DEADLOCK FALSE
INVARIANTS TypeOK KeepsContract SandboxFaultIsNoVerdict ImitationOnlyDefers HostModeJudges
PROPERTIES UncountedIsRight
