----------------------------- MODULE TLSConfig -----------------------------
(***************************************************************************)
(* How TLS options travel from the hub to the edge: pkg/transport          *)
(* (transport.go, types.go and the key of cache.go).  A client-go config   *)
(* names certificates by content or by file; loadTLSFiles reads the files, *)
(* PersistableTLSConfigFor makes the part that is sent with each request,  *)
(* and TLSConfigFor rebuilds a tls.Config from it on the edge.             *)
(*                                                                         *)
(* PEM blocks, file names and host names are opaque values.                *)
(***************************************************************************)
CONSTANTS
    Contents,     \* non-empty file contents
    NoData,       \* an empty slice, or an empty file
    Paths,        \* file names
    NoPath,       \* no file name
    Missing,      \* what reading a file that is not there returns
    Servers,      \* ServerName overrides
    NoServer,
    Pairs,        \* <<cert, key>> contents that tls.X509KeyPair accepts
    ValidCAs,     \* contents that hold a certificate authority
    NoTLS,        \* a nil *PersistableTLSConfig
    Failed        \* an error

ASSUME ContentsAssumption ==
    /\ NoData \notin Contents
    /\ Missing \notin Contents
    /\ Missing # NoData
    /\ NoPath \notin Paths
    /\ NoServer \notin Servers
ASSUME PairsAssumption == Pairs \subseteq Contents \X Contents
ASSUME CAsAssumption == ValidCAs \subseteq Contents

Data   == Contents \cup {NoData}
Path   == Paths \cup {NoPath}
Server == Servers \cup {NoServer}

(* The part of transport.Config that matters here.  NextProtos is left out:*)
(* it is handled like ServerName, field by field.  "proxy": Proxy is set.  *)
(* "twoAuths": there are both a password and a bearer token.               *)
Config ==
    [caData : Data, certData : Data, keyData : Data,
     caFile : Path, certFile : Path, keyFile : Path,
     reload : BOOLEAN, callback : BOOLEAN, insecure : BOOLEAN,
     server : Server, disableCompression : BOOLEAN,
     proxy : BOOLEAN, twoAuths : BOOLEAN]

FileSystem == [Paths -> Data \cup {Missing}]

(* A tls.Config.                                                           *)
TLS ==
    [insecure : BOOLEAN, server : Server, caData : Data, certData : Data,
     keyData : Data]

ASSUME NoTLSAssumption == NoTLS \notin TLS

HasCA(c)       == c.caData # NoData \/ c.caFile # NoPath
HasCertAuth(c) ==
    /\ c.certData # NoData \/ c.certFile # NoPath
    /\ c.keyData  # NoData \/ c.keyFile  # NoPath

-----------------------------------------------------------------------------
(* Loading files.                                                          *)

dataFromSliceOrFile(data, file, files) ==
    IF data # NoData THEN data
    ELSE IF file # NoPath THEN files[file] ELSE NoData

PurelyFromFiles(c) ==
    /\ c.certFile # NoPath /\ c.certData = NoData
    /\ c.keyFile  # NoPath /\ c.keyData  = NoData

(* os.ReadFile failed for one of the files.                                *)
ReadFails_Ignored(read) == FALSE
ReadFails(read) == Missing \in read

(* The config after loadTLSFiles, which updates it in place, or Failed.    *)
loadTLSFiles(c, files) ==
    LET ca   == dataFromSliceOrFile(c.caData, c.caFile, files)
        cert == dataFromSliceOrFile(c.certData, c.certFile, files)
        key  == dataFromSliceOrFile(c.keyData, c.keyFile, files)
    IN  IF ReadFails({ca, cert, key}) THEN Failed
        ELSE [c EXCEPT !.caData = ca, !.certData = cert, !.keyData = key,
                       !.reload = @ \/ PurelyFromFiles(c)]

-----------------------------------------------------------------------------
(* The cache key of a loaded config, for a link.                           *)

CertKey(c) ==
    IF c.reload THEN <<c.certFile, c.keyFile, NoData, NoData>>
    ELSE <<NoPath, NoPath, c.certData, c.keyData>>

tlsConfigKey_NoLink(c, link) ==
    [insecure |-> c.insecure, caData |-> c.caData, server |-> c.server,
     cert |-> CertKey(c), disableCompression |-> c.disableCompression]

tlsConfigKey_NoServer(c, link) ==
    [insecure |-> c.insecure, caData |-> c.caData, linkID |-> link,
     cert |-> CertKey(c), disableCompression |-> c.disableCompression]

tlsConfigKey(c, link) ==
    [insecure |-> c.insecure, caData |-> c.caData, server |-> c.server,
     linkID |-> link, cert |-> CertKey(c),
     disableCompression |-> c.disableCompression]

-----------------------------------------------------------------------------
(* Hub: what is sent with a request.                                       *)

RequestsTLS(c) ==
    HasCA(c) \/ HasCertAuth(c) \/ c.callback \/ c.insecure \/ c.server # NoServer

(* It loads the files once more; certificates that are to be reloaded from *)
(* files, or come from a callback, are not copied.                         *)
PersistableTLSConfigFor(c, files) ==
    LET l         == loadTLSFiles(c, files)
        copyCerts == HasCertAuth(l) /\ ~l.reload
    IN  IF ~RequestsTLS(c) THEN NoTLS
        ELSE IF HasCA(c) /\ c.insecure THEN Failed
        ELSE IF l = Failed THEN Failed
        ELSE IF copyCerts /\ <<l.certData, l.keyData>> \notin Pairs THEN Failed
        ELSE [insecure |-> l.insecure, server |-> l.server, caData |-> l.caData,
              certData |-> IF copyCerts THEN l.certData ELSE NoData,
              keyData  |-> IF copyCerts THEN l.keyData ELSE NoData]

-----------------------------------------------------------------------------
(* Edge: the transport respond makes for a request.                        *)

DefaultTLS ==
    [insecure |-> FALSE, server |-> NoServer, caData |-> NoData,
     certData |-> NoData, keyData |-> NoData]

TLSConfigFor(p) ==
    LET certAuth == p.certData # NoData /\ p.keyData # NoData
    IN  IF p.caData # NoData /\ (p.insecure \/ p.caData \notin ValidCAs) THEN Failed
        ELSE IF certAuth /\ <<p.certData, p.keyData>> \notin Pairs THEN Failed
        ELSE [p EXCEPT !.certData = IF certAuth THEN @ ELSE NoData,
                       !.keyData  = IF certAuth THEN @ ELSE NoData]

(* Without TLS options, http.DefaultTransport is used.                     *)
EdgeTLS(p) == IF p = NoTLS THEN DefaultTLS ELSE TLSConfigFor(p)
=============================================================================
