SPECIFICATION FairSpec
CONSTANTS
    p1 = p1
    p2 = p2
    k1 = k1
    k2 = k2
    l1 = l1
    l2 = l2
    local = local
    public = public
    NoKubeConfig = NoKubeConfig
    KubeConfigs = {local, public}
    APIServer <- MCAPIServer
    Nobody = Nobody
    Pods = {p1, p2}
    Clusters = {k1, k2}
    ClusterOf <- MCClusterOf
    Links = {l1, l2}
    Threads = 2
    Lifetime = 0
    MaxTime = 1
INVARIANT TypeOK
INVARIANT RegisteredIsReached
INVARIANT StaleLinkRefused
 
PROPERTY RegistrationEnds
CHECK_DEADLOCK FALSE
