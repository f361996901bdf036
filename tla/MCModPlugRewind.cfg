\* The ModPlug inputs of MCAlgorithms: every sequence of up to three calls
\* with every answer of libmodplug; checks that no call gets a null handle.
CONSTANTS
    NaN = NaN
    JNull = JNull
    Chars = {"a", "?"}
    MaxLen = 4
    Subs <- MCSubs
    Reps <- MCReps
INIT Init
NEXT Next
INVARIANT NoNullHandleUse
