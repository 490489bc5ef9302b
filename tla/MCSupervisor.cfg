CONSTANTS
    StartupDeadline = 2
    HeartbeatTimeout = 2
    MaxProcesses = 4
    MaxRestarts = 2
SPECIFICATION FairSpec
INVARIANTS
    OneProcess
    StoppedIsDead
PROPERTIES
    LateReportsFenced
    DeathNoticed
    StartupSettles
