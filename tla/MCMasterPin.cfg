CONSTANTS
    Replicas = {r1, r2}
    OldKeys <- Upgraded
    Envs <- Environments
    MaxKey = 5
    Migrations = 3
    Uniqueness = 2
    Consolidation = 3
    MaxBoots = 3
    MaxEdits = 2
SPECIFICATION FairSpec
INVARIANTS
    TypeOK
    OneActsAsMaster
    AnnouncedIsMaster
    ServesMigrated
PROPERTIES
    PinSettled
    BootEnds
CHECK_DEADLOCK FALSE
