SPECIFICATION MCSpec
CONSTANTS
    Ports <- FewPorts
    Hosts <- FewHosts
    UserIds <- FewUserIds
    Addresses <- FewAddresses
    Files <- FewFiles
    Junk = {0, 2}
    JunkRules <- FewJunkRules
INVARIANTS
    DecodedIsSent
    PermitsByRules
CHECK_DEADLOCK FALSE
