\* The byte count of love.filesystem.write and append against the size of
\* the input, over the inputs of MCAlgorithms.
\* StringOps: strings of up to four characters over a letter, '?' and ';';
\* lists of up to three elements of up to two characters; the patterns
\* loader and extloader use, and replacements shorter than, as long as and
\* longer than them.
CONSTANTS
    NaN = NaN
    JNull = JNull
    Chars = {"a", "?"}
    MaxLen = 4
    Subs <- MCSubs
    Reps <- MCReps
INIT Init
NEXT Next
INVARIANT WriteReadsWithinInput
