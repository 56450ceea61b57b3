SPECIFICATION Spec
CONSTANTS
    SupPolls = 3
    SupCodes = {0, 1, 2}
    HomFoms = {1, 2, 3, 4}
    HomLines = {1, 2, 3}
    HomKillers = {1}
    HomTests = 2
    HomMaxList = 5
    WalkTree <- Tree
    WalkSources <- Settings
    WalkCopy = "put"
    CfgTaken = {0, 1}
    CfgMaxLines = 2
    VgNames = {1, 58, 60, 124}
    VgMaxFrames = 3
    VgMaxNodes = 2
    ItrItems = {2, 3, 8}
    DrvSubjects <- Subjects
    DrvConfigs = {"one", "two"}
    DrvSkip = {0, 1}
    StMaxRuns = 3
INVARIANTS
    SupervisedEnd HomSound    
PROPERTIES
    CallsReturn
CHECK_DEADLOCK FALSE
