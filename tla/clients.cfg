SPECIFICATION ClientsSpec
CONSTANTS
    d1 = d1
    d2 = d2
    caPath = caPath
    pemPath = pemPath
    o1 = o1
    s1 = s1
    t1 = t1
    t2 = t2
    l1 = l1
    l2 = l2
    noLink = noLink
    n1 = n1
    NoData = NoData
    NoPath = NoPath
    NoServer = NoServer
    NoTLS = NoTLS
    Missing = Missing
    Failed = Failed
    NoCaller = NoCaller
    Contents = {d1, d2}
    Paths = {caPath, pemPath}
    Servers = {s1}
    Pairs <- MCPairs
    ValidCAs = {d1, d2}
    Callers = {t1, t2}
    Links = {l1, l2, noLink}
    NoLink = noLink
    NoTransport = NoTransport
    Conns = {n1}
    Configs <- MCConfigs
    Originals = {o1}
    OptionsOf <- MCOptionsOf
    FileContents = {d1, d2, NoData, Missing}
INVARIANT SingleTransport
INVARIANT OptionsHonoured
INVARIANT LinkKept
INVARIANT ClientTypeOK
INVARIANT ThroughOwnLink
PROPERTY AtomicLookup
SYMMETRY CallerSymmetry
CHECK_DEADLOCK FALSE
