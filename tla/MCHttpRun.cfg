SPECIFICATION HttpSpec
CONSTANTS
    c1 = c1
    c2 = c2
    c3 = c3
    u1 = u1
    u2 = u2
    r1 = r1
    d = d
    t = t
    Clients <- MCClients
    Short <- MCShort
    Ids <- MCIds
    NoFile = NoFile
    Blank = Blank
    MaxCrashes = 1
    Runs <- MCRuns
    Dirs <- MCDirs
    DirOf <- MCDirOf
    NoDir = NoDir
    SourceOf <- MCSourceOf
    Stamps <- MCStamps
    Absent = Absent
    Torn = Torn
    Teams <- MCTeams
INVARIANTS
    OnlyCreatesTear
    CreatedOnce
    RunnerTerminal
    VerdictsAgree
    ListedReportComplete
\* every process has one command: when all have ended nothing is left to do
CHECK_DEADLOCK FALSE
