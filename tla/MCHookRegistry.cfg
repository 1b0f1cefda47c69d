CONSTANTS
    Cipher = "k1"
    ParamKeys <- Keys
    Upper <- InUpperCase
    Passthrough <- Inherited
    Bodies <- SomeBodies
    Machines <- SomeMachines
    Workers = {w1, w2}
    Names = {"ban"}
    Creations <- SomeCreations
    Updates <- SomeUpdates
    Declarations <- SomeDeclarations
    Users = {"", "blank", "svc", "-i"}
    Retention = 1
    LogRetention = 1
    MaxDay = 2
    MaxOps = 3
SPECIFICATION FairSpec
INVARIANTS
    TypeOK
    DeletionsAudited
    SecretKept
    InvocationsVetted
    CommandsAgree
PROPERTIES
    NothingPurgedEarly
    TrashEmptied
