\* Rust texts in which a nested opener shares a byte with a closer.
SPECIFICATION Spec
CONSTANTS
    Languages <- NestedLanguages
    FileLists <- MCFileLists
    Commands <- MCCommands
    Folded <- MCFolded
    Size = 6
INVARIANTS HazardsSurvive
