SPECIFICATION CliSpec
CONSTANTS
    Inputs <- MCInputs
    Replies <- MCReplies
    Uuids <- MCUuids
    Lower <- MCLower
    Percent <- MCPercent
    Upper <- MCUpper
    JsonEscape <- MCJsonEscape
    Serialized <- MCSerialized
    Letters = {"GET", "K"}
    Schemes = {"http://"}
    Marked = {"token", "x-token"}
    Sensitive = {"cookie"}
    NotGiven = NotGiven
    NotJson = NotJson
    IntMax = 7
    FloatMax = 4
    Commands <- MCCommands
    Answers <- MCAnswers
    Mixed <- MCMixed
    Splitmix <- MCSplitmix
    TypeCode <- MCTypeCode
    MaxConcurrency = 4
    MaxInFlight = 4
    MaxQps = 8
    MaxAggregate = 8
    MaxBytes = 64
    WireLength = 8
    MaxRows = 8
    MaxDuration = 8
    MaxTimeout = 8
    MaxFile = 18
    MaxIssued = 20
INVARIANT RequestHidesSecrets
\* when the command has ended nothing is left to do
CHECK_DEADLOCK FALSE
