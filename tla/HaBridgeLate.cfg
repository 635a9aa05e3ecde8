SPECIFICATION FairSpec
CONSTANTS
    Nodes = {n1}
    Hub = Hub
    MaxOut = 3
PROPERTIES
    StaleAreReconciled
