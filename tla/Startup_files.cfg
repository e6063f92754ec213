SPECIFICATION Spec
CONSTANTS
    Texts <- MCTexts
    NumeralValue <- MCNumerals
    Kilo = 2
    IntMax = 3
\* The program ends.
CHECK_DEADLOCK FALSE
INVARIANTS TypeOK RulesAreKept BlocksAsWritten ConfigIsServable
INVARIANTS EveryServerIsServed SocketsFreedOnce
