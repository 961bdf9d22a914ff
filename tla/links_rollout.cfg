SPECIFICATION Spec
CONSTANTS
    p1 = p1
    p2 = p2
    l1 = l1
    l2 = l1
    Pods = {p1, p2}
    Links = {l1}
    Controllers = {k1, k2}
    Calls = {c1}
    Installations <- MCInstallations
INVARIANT SingleResponse
CHECK_DEADLOCK FALSE
