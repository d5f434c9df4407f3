CONSTANTS
    CommandLines <- MCCommandLines
    Number <- MCNumber
    Hosts <- MCHosts
SPECIFICATION ArgsSpec
INVARIANTS
    LastOneCounts
    FaultOnlyIfIncomplete
\* The parser ends.
CHECK_DEADLOCK FALSE
