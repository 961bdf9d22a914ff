------------------------------ MODULE MCClients -----------------------------
(* Instances of Clients, and of the cache below it, for TLC.               *)
EXTENDS Clients, TLC

CONSTANTS d1, d2, caPath, pemPath, s1, o1, t1, t2, l1, l2, noLink, n1

CallerSymmetry == Permutations(Callers)

MCPairs == {<<d1, d1>>, <<d2, d2>>}

Plain ==
    [caData |-> NoData, certData |-> NoData, keyData |-> NoData,
     caFile |-> NoPath, certFile |-> NoPath, keyFile |-> NoPath,
     reload |-> FALSE, callback |-> FALSE, insecure |-> FALSE,
     server |-> NoServer, disableCompression |-> FALSE,
     proxy |-> FALSE, twoAuths |-> FALSE]

CAFromFile == [Plain EXCEPT !.caFile = caPath]
CAFromData == [Plain EXCEPT !.caData = d1]
ForServer  == [CAFromFile EXCEPT !.server = s1]
Unverified == [Plain EXCEPT !.insecure = TRUE]
Forbidden  == [CAFromData EXCEPT !.insecure = TRUE]
ClientData == [CAFromData EXCEPT !.certData = d2, !.keyData = d2]
MixedPair  == [Plain EXCEPT !.certData = d1, !.keyFile = pemPath]
ClientFile == [CAFromData EXCEPT !.certFile = pemPath, !.keyFile = pemPath]
Callback   == [Plain EXCEPT !.callback = TRUE]
Proxied    == [Plain EXCEPT !.proxy = TRUE]
TwoAuths   == [Plain EXCEPT !.twoAuths = TRUE]

MCConfigs ==
    {Plain, CAFromFile, CAFromData, ForServer, Unverified, Forbidden,
     ClientData, MixedPair, ClientFile, Callback, Proxied, TwoAuths}

MCOptionsOf == [o \in Originals |-> Plain]
=============================================================================
