SPECIFICATION Spec
SYMMETRY MCSymmetry
CONSTANTS
    b1 = b1
    b2 = b2
    PCS1 = PCS1
    pcs2 = pcs2
    Cluster1 = Cluster1
    cluster2 = cluster2
    DefaultProfile = DefaultProfile
    other = other
    Broken = Broken
    Bms <- MCBms
    Pcs <- MCPcs
    ClusterNames <- MCNames
    Profiles <- MCProfiles
    Templates <- MCTemplates
    MaxClusters = 2
    MaxEdits = 6
PROPERTY EveryBmsPlaced
INVARIANT PcsInOneCluster
 
PROPERTY LoadKeepsDevices
