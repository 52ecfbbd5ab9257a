\* Files of up to Size bytes (Size + 2 over the smallest
\* alphabet) in the shapes of Go, Rust, C and Python, and entries of two files.
SPECIFICATION Spec
CONSTANTS
    Languages <- MCLanguages
    FileLists <- MCFileLists
    Commands <- MCCommands
    Folded <- MCFolded
    Size = 5
INVARIANTS TypeOK LineIsTracked   HitsAreReal ScoreIsWhole
