\* Two tasks, three commits, docker outages and crashes that end some day.
SPECIFICATION Spec
CONSTANTS
    Tasks = {"t1", "t2"}
    MaxCommit = 3
    Faults = {"sandbox", "crash"}
INVARIANTS TypeOK PublishedIsTrue
PROPERTIES NeverBackwards CatchesUp
