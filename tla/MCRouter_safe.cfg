SPECIFICATION FairSpec
CONSTANTS
    Users = {1}
    Tokens = {5}
    Zones = {1}
    Servers = {1}
    Links = {l1, l2}
    Clients = {c1}
CHECK_DEADLOCK FALSE
INVARIANT TypeOK
PROPERTY InstructionsEnd
