CONSTANTS
    Layouts = {"partitioned", "plain"}
    Moves = 2
    Bounces = 1
    Faults = 1
    IniFiles <- MCIniFiles
    Blocks = 2
    ValidIp <- MCValidIp
    Failures = 1
SPECIFICATION FairBootSpec
INVARIANTS BootTypeOK MasterAfterMap WholeOrNothing RunsAsConfigured
PROPERTIES NeverBlockedByLeftover Settles Boots
CHECK_DEADLOCK FALSE
