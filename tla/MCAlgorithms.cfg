\* StringOps: strings of up to four characters over a letter, '?' and ';';
\* lists of up to three elements of up to two characters; the patterns
\* loader and extloader use, and replacements shorter than, as long as and
\* longer than them.
CONSTANTS
    NaN = NaN
    JNull = JNull
    Chars = {"a", "?"}
    MaxLen = 4
    Subs <- MCSubs
    Reps <- MCReps
INIT Init
NEXT Next
INVARIANT SplitJoinRoundTrip
INVARIANT JoinSplitRoundTrip
INVARIANT ReplaceAllMatchesReference
INVARIANT RequirePathExtension
INVARIANT AttributesRoundTrip
INVARIANT AcceptedGlyphsInBounds
INVARIANT ClampedSaturates
INVARIANT PointsArePairs
INVARIANT GammaKeepsAlpha
INVARIANT NoiseDispatch
INVARIANT HeadersSurviveJni
INVARIANT ReplyHeadersLastWins
INVARIANT JointCallsGuarded
INVARIANT CatchExceptContract
INVARIANT KeyNameRoundTrip
INVARIANT ModuleLookupTyped
INVARIANT TableFieldsReportBadKey
INVARIANT MountReadsOverloads
INVARIANT GetInfoDescribesPath
