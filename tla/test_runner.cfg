CONSTANTS
    Functions <- MCFunctions
    CommandLines <- MCCommandLines
SPECIFICATION RunnerSpec
INVARIANTS
    GreenMeansPassed
    OnlyNamed
\* The program ends.
CHECK_DEADLOCK FALSE
