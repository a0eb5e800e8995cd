CONSTANTS
    FaultSets <- MCFaultSets
    MaxWrites = 1
    MaxSignals = 2
    StdinFull = FALSE
SPECIFICATION SessionSpec
INVARIANTS  SecondIsNotForgotten
 
