SPECIFICATION FairSpec
CONSTANTS
    Nodes = {n1}
    Hub = Hub
    MaxOut = 3
INVARIANTS
    TypeOK
    OnlineIsBacked
PROPERTIES
    HubComesBack
    KnownNodesFollow
    CollectedAreReconciled
