SPECIFICATION FairSpec
CONSTANTS
    p1 = p1
    p2 = p2
    l1 = l1
    l2 = l2
    Pods = {p1, p2}
    Links = {l1, l2}
    Controllers = {k1}
    Calls = {c1, c2}
    Installations <- MCInstallations
INVARIANT TypeOK
INVARIANT OwnLinkOnly
INVARIANT OwnAnswer
INVARIANT SingleResponse
PROPERTY DialEnds
PROPERTY ServedAgain
CHECK_DEADLOCK FALSE
