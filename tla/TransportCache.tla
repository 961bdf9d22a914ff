--------------------------- MODULE TransportCache --------------------------
(***************************************************************************)
(* The process-wide cache of NATS transports on the hub (pkg/transport,    *)
(* New and tlsTransportCache.get), used by concurrent callers that build a *)
(* client for some cluster, while the certificate files they name are      *)
(* rewritten.                                                              *)
(*                                                                         *)
(* A call loads the files and computes its key without the lock, takes the *)
(* lock, looks the key up, and on a miss loads what is still missing once  *)
(* more, makes a transport and stores it.  Nothing is ever evicted.        *)
(***************************************************************************)
EXTENDS TLSConfig, FiniteSets

CONSTANTS
    Callers,      \* concurrent calls of New
    NoCaller,     \* nobody holds the lock
    Links,        \* link IDs
    Conns,        \* NATS connections
    Configs,      \* the configs callers use
    FileContents  \* what the files may hold

ASSUME CallersAssumption == NoCaller \notin Callers
ASSUME ConfigsAssumption == Configs \subseteq Config
ASSUME FileContentsAssumption == FileContents \subseteq Data \cup {Missing}

VARIABLES
    files,        \* the files' contents
    pc,           \* per caller: where it is in New
    conf,         \* per caller: its config, updated in place by loadTLSFiles
    link,         \* per caller: the link it asks for
    conn,         \* per caller: the connection it passes
    key,          \* per caller: its key, once computed
    result,       \* per caller: the transport it was given, once done
    transports,   \* the map: a set of entries, at most one per key
    mu            \* the holder of c.mu

vars == <<files, pc, conf, link, conn, key, result, transports, mu>>

(* A NatsTransport.  "by" tells apart the objects made by different calls. *)
Transport ==
    [tls : TLS \cup {NoTLS}, link : Links, conn : Conns,
     disableCompression : BOOLEAN, by : Callers]

(* A tlsCacheKey.                                                          *)
Key ==
    [insecure : BOOLEAN, caData : Data, server : Server, linkID : Links,
     cert : Path \X Path \X Data \X Data, disableCompression : BOOLEAN]

ASSUME FailedAssumption == Failed \notin Key /\ Failed \notin Transport

TypeOK ==
    /\ files \in [Paths -> FileContents]
    /\ pc \in [Callers -> {"idle", "keyed", "locked", "missed", "done", "failed"}]
    /\ conf \in [Callers -> Config]
    /\ link \in [Callers -> Links]
    /\ conn \in [Callers -> Conns]
    /\ result \in [Callers -> Transport \cup {Failed}]
    /\ \A t \in Callers : pc[t] = "done" => result[t] \in Transport
    /\ \A e \in transports : e.transport \in Transport
    /\ mu \in Callers \cup {NoCaller}

Init ==
    /\ files \in [Paths -> FileContents]
    /\ pc = [t \in Callers |-> "idle"]
    /\ conf \in [Callers -> Configs]
    /\ link \in [Callers -> Links]
    /\ conn \in [Callers -> Conns]
    /\ key = [t \in Callers |-> Failed]
    /\ result = [t \in Callers |-> Failed]
    /\ transports = {}
    /\ mu = NoCaller

-----------------------------------------------------------------------------
(* New and tlsConfigKey: the files are loaded into the config.             *)
ComputeKey(t) ==
    /\ pc[t] = "idle"
    /\ LET l == loadTLSFiles(conf[t], files)
       IN  IF l = Failed
           THEN pc' = [pc EXCEPT ![t] = "failed"] /\ UNCHANGED <<conf, key>>
           ELSE /\ pc' = [pc EXCEPT ![t] = "keyed"]
                /\ conf' = [conf EXCEPT ![t] = l]
                /\ key' = [key EXCEPT ![t] = tlsConfigKey(l, link[t])]
    /\ UNCHANGED <<files, link, conn, result, transports, mu>>

Lock_Unguarded(t) ==
    /\ pc[t] = "keyed"
    /\ mu' = t
    /\ pc' = [pc EXCEPT ![t] = "locked"]
    /\ UNCHANGED <<files, conf, link, conn, key, result, transports>>

(* c.mu.Lock().                                                            *)
Lock(t) ==
    /\ pc[t] = "keyed"
    /\ mu = NoCaller
    /\ mu' = t
    /\ pc' = [pc EXCEPT ![t] = "locked"]
    /\ UNCHANGED <<files, conf, link, conn, key, result, transports>>

Entries(t) == {e \in transports : e.key = key[t]}

(* The transport is in the map: it is returned and the lock released.      *)
Hit(t) ==
    /\ pc[t] = "locked"
    /\ \E e \in Entries(t) : result' = [result EXCEPT ![t] = e.transport]
    /\ pc' = [pc EXCEPT ![t] = "done"]
    /\ mu' = NoCaller
    /\ UNCHANGED <<files, conf, link, conn, key, transports>>

Miss_Unlocks(t) ==
    /\ pc[t] = "locked"
    /\ Entries(t) = {}
    /\ pc' = [pc EXCEPT ![t] = "missed"]
    /\ mu' = NoCaller
    /\ UNCHANGED <<files, conf, link, conn, key, result, transports>>

Miss(t) ==
    /\ pc[t] = "locked"
    /\ Entries(t) = {}
    /\ pc' = [pc EXCEPT ![t] = "missed"]
    /\ UNCHANGED <<files, conf, link, conn, key, result, transports, mu>>

(* PersistableTLSConfigFor, whose second loadTLSFiles updates the config   *)
(* once more, and the store of the new transport under the key there was;  *)
(* an error leaves the map alone.                                          *)
Store(t) ==
    /\ pc[t] = "missed"
    /\ LET tls == PersistableTLSConfigFor(conf[t], files)
           l   == IF tls = NoTLS THEN conf[t] ELSE loadTLSFiles(conf[t], files)
           rt  == [tls |-> tls, link |-> link[t], conn |-> conn[t],
                   disableCompression |-> conf[t].disableCompression, by |-> t]
       IN  IF tls = Failed
           THEN /\ pc' = [pc EXCEPT ![t] = "failed"]
                /\ UNCHANGED <<conf, result, transports>>
           ELSE /\ pc' = [pc EXCEPT ![t] = "done"]
                /\ conf' = [conf EXCEPT ![t] = l]
                /\ result' = [result EXCEPT ![t] = rt]
                /\ transports' =
                     (transports \ Entries(t)) \cup {[key |-> key[t], transport |-> rt]}
    /\ mu' = NoCaller
    /\ UNCHANGED <<files, link, conn, key>>

(* A certificate is rotated on disk.                                       *)
Rewrite(p) ==
    /\ \E d \in FileContents : files' = [files EXCEPT ![p] = d]
    /\ UNCHANGED <<pc, conf, link, conn, key, result, transports, mu>>

Next ==
    \/ \E t \in Callers :
         ComputeKey(t) \/ Lock(t) \/ Hit(t) \/ Miss(t) \/ Store(t)
    \/ \E p \in Paths : Rewrite(p)

Spec == Init /\ [][Next]_vars

-----------------------------------------------------------------------------
(* Properties.                                                             *)

(* Callers whose options have the same key share one transport, whatever   *)
(* the interleaving of their calls ("Ensure we only create a single        *)
(* transport for the given TLS options", cache.go).                        *)
SingleTransport ==
    \A t, u \in Callers :
        pc[t] = "done" /\ pc[u] = "done" /\ key[t] = key[u]
            => result[t] = result[u]

(* The cache behind its lock is CachePromise's table.                      *)
Promise ==
    INSTANCE CachePromise WITH
        Nothing <- Failed, wanted <- key, given <- result, table <- transports

(* CachePromise: lookup and store are one step for everybody else, the map *)
(* is only added to and has one entry per key, and a call that fails       *)
(* leaves nothing behind (cache.go, get).                                  *)
AtomicLookup == Promise!Spec

(* The contents of all the files a config names have been loaded into it.  *)
Settled(c) ==
    /\ c.caFile   # NoPath => c.caData   # NoData
    /\ c.certFile # NoPath => c.certData # NoData
    /\ c.keyFile  # NoPath => c.keyData  # NoData

(* What p makes of the TLS options of c, which was loaded: verification    *)
(* and server name are those c asks for, and so are the roots and the      *)
(* client certificate, where c has them.                                   *)
CopiesCerts(c) == c.certData # NoData /\ c.keyData # NoData /\ ~c.reload

Honours(p, c) ==
    LET q == IF p = NoTLS THEN DefaultTLS ELSE p
    IN  /\ q.insecure = c.insecure
        /\ q.server = c.server
        /\ c.caData # NoData => q.caData = c.caData
        /\ CopiesCerts(c) => q.certData = c.certData /\ q.keyData = c.keyData

(* A transport that is shared keeps to the options of each caller that was *)
(* given it, with the file contents that caller loaded: neither another    *)
(* caller's config nor a rotation of the files between its two reads takes *)
(* away the roots, the certificate, the server name or the verification it *)
(* asked for (cache.go, tlsConfigKey and the second read in get).          *)
OptionsHonoured ==
    \A t \in Callers : pc[t] = "done" => Honours(result[t].tls, conf[t])

(* A transport that is shared secures the edge's connection exactly as the *)
(* config of each caller that was given it does ("returns a unique key for *)
(* tls.Config objects returned from TLSConfigFor", cache.go): it has no    *)
(* roots or certificate either that the caller did not ask for.            *)
KeyDeterminesTLS ==
    \A t \in Callers :
        pc[t] = "done" /\ Settled(conf[t]) =>
            EdgeTLS(result[t].tls) = EdgeTLS(PersistableTLSConfigFor(conf[t], files))

(* A client made for a cluster never has a transport of another cluster.   *)
LinkKept == \A t \in Callers : pc[t] = "done" => result[t].link = link[t]

(* A config with a client certificate gets a transport that presents one   *)
(* (types.go: "will provide the transport level security defined by the    *)
(* provided Config").                                                      *)
SecurityProvided ==
    \A t \in Callers :
        pc[t] = "done" /\ HasCertAuth(conf[t]) /\ EdgeTLS(result[t].tls) # Failed
            => EdgeTLS(result[t].tls).certData # NoData
=============================================================================
