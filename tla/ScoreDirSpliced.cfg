\* Python texts in which a backslash ends a line.
SPECIFICATION Spec
CONSTANTS
    Languages <- SplicedLanguages
    FileLists <- MCFileLists
    Commands <- MCCommands
    Folded <- MCFolded
    Size = 4
INVARIANTS HazardsSurvive
