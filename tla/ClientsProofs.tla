---------------------------- MODULE ClientsProofs ----------------------------
(* Theorems about the transport cache and the clients made with it, for    *)
(* any number of callers, links, connections and configs, and any contents *)
(* of the files they name.                                                 *)
EXTENDS Clients, TLAPS

USE CallersAssumption, ConfigsAssumption, FileContentsAssumption,
    ContentsAssumption

-----------------------------------------------------------------------------
(* What loading and copying TLS options does to a config.                  *)

(* Files that are read give data.                                          *)
LEMMA ReadData ==
    ASSUME NEW data \in Data, NEW file \in Path, NEW fs \in FileSystem,
           dataFromSliceOrFile(data, file, fs) # Missing
    PROVE  dataFromSliceOrFile(data, file, fs) \in Data
BY DEF dataFromSliceOrFile, FileSystem, Path, Data

(* A config whose files could be loaded is a config, with nothing changed  *)
(* but its data and the mark for a reload.                                 *)
LEMMA LoadedConfig ==
    ASSUME NEW c \in Config, NEW fs \in FileSystem,
           loadTLSFiles(c, fs) # Failed
    PROVE  /\ loadTLSFiles(c, fs) \in Config
           /\ loadTLSFiles(c, fs).caFile = c.caFile
           /\ loadTLSFiles(c, fs).certFile = c.certFile
           /\ loadTLSFiles(c, fs).keyFile = c.keyFile
           /\ loadTLSFiles(c, fs).insecure = c.insecure
           /\ loadTLSFiles(c, fs).server = c.server
           /\ loadTLSFiles(c, fs).reload = (c.reload \/ PurelyFromFiles(c))
           /\ loadTLSFiles(c, fs).caData = dataFromSliceOrFile(c.caData, c.caFile, fs)
           /\ loadTLSFiles(c, fs).certData = dataFromSliceOrFile(c.certData, c.certFile, fs)
           /\ loadTLSFiles(c, fs).keyData = dataFromSliceOrFile(c.keyData, c.keyFile, fs)
<1> DEFINE ca   == dataFromSliceOrFile(c.caData, c.caFile, fs)
           cert == dataFromSliceOrFile(c.certData, c.certFile, fs)
           k    == dataFromSliceOrFile(c.keyData, c.keyFile, fs)
           l    == [c EXCEPT !.caData = ca, !.certData = cert, !.keyData = k,
                             !.reload = @ \/ PurelyFromFiles(c)]
<1>1. ca # Missing /\ cert # Missing /\ k # Missing /\ loadTLSFiles(c, fs) = l
  BY DEF loadTLSFiles, ReadFails
<1>2. ca \in Data /\ cert \in Data /\ k \in Data
  BY <1>1, ReadData DEF Config
<1>3. (c.reload \/ PurelyFromFiles(c)) \in BOOLEAN
  BY DEF Config, PurelyFromFiles
<1> HIDE DEF ca, cert, k
<1>4. l \in Config
  BY <1>2, <1>3 DEF Config
<1>5. /\ l.caFile = c.caFile /\ l.certFile = c.certFile /\ l.keyFile = c.keyFile
      /\ l.caData = ca /\ l.certData = cert /\ l.keyData = k
      /\ l.insecure = c.insecure /\ l.server = c.server
      /\ l.reload = (c.reload \/ PurelyFromFiles(c))
  BY DEF Config
<1> QED BY <1>1, <1>4, <1>5 DEF ca, cert, k

(* What is sent with a request, if TLS is asked for, is a TLS config; and  *)
(* the config could be loaded.                                             *)
LEMMA PersistedType ==
    ASSUME NEW c \in Config, NEW fs \in FileSystem,
           PersistableTLSConfigFor(c, fs) # Failed
    PROVE  /\ PersistableTLSConfigFor(c, fs) \in TLS \cup {NoTLS}
           /\ PersistableTLSConfigFor(c, fs) # NoTLS => loadTLSFiles(c, fs) # Failed
           /\ RequestsTLS(c) => PersistableTLSConfigFor(c, fs) \in TLS
<1>1. CASE ~RequestsTLS(c)
  BY <1>1 DEF PersistableTLSConfigFor
<1>2. CASE RequestsTLS(c)
  <2>1. loadTLSFiles(c, fs) # Failed
    BY <1>2 DEF PersistableTLSConfigFor
  <2> DEFINE l == loadTLSFiles(c, fs)
             copyCerts == HasCertAuth(l) /\ ~l.reload
  <2>2. PersistableTLSConfigFor(c, fs) =
          [insecure |-> l.insecure, server |-> l.server, caData |-> l.caData,
           certData |-> IF copyCerts THEN l.certData ELSE NoData,
           keyData  |-> IF copyCerts THEN l.keyData ELSE NoData]
    BY <1>2 DEF PersistableTLSConfigFor
  <2>3. l \in Config
    BY <2>1, LoadedConfig
  <2> HIDE DEF l
  <2> QED BY <2>1, <2>2, <2>3 DEF Config, TLS, Data, l
<1> QED BY <1>1, <1>2

(* What is sent for TLS options is made from the config, loaded once more. *)
LEMMA PersistedForm ==
    ASSUME NEW c \in Config, NEW fs \in FileSystem, RequestsTLS(c),
           PersistableTLSConfigFor(c, fs) # Failed
    PROVE  LET l == loadTLSFiles(c, fs)
               copyCerts == HasCertAuth(l) /\ ~l.reload
           IN  /\ l # Failed
               /\ PersistableTLSConfigFor(c, fs) =
                    [insecure |-> l.insecure, server |-> l.server,
                     caData |-> l.caData,
                     certData |-> IF copyCerts THEN l.certData ELSE NoData,
                     keyData  |-> IF copyCerts THEN l.keyData ELSE NoData]
BY DEF PersistableTLSConfigFor

(* Data that a config has is what loading leaves it with.                  *)
LEMMA LoadKeeps ==
    ASSUME NEW c \in Config, NEW fs \in FileSystem,
           loadTLSFiles(c, fs) # Failed
    PROVE  /\ c.caData # NoData => loadTLSFiles(c, fs).caData = c.caData
           /\ CopiesCerts(c) =>
                /\ loadTLSFiles(c, fs).certData = c.certData
                /\ loadTLSFiles(c, fs).keyData = c.keyData
                /\ CopiesCerts(loadTLSFiles(c, fs))
<1> DEFINE l == loadTLSFiles(c, fs)
<1>1. /\ l.caData = dataFromSliceOrFile(c.caData, c.caFile, fs)
      /\ l.certData = dataFromSliceOrFile(c.certData, c.certFile, fs)
      /\ l.keyData = dataFromSliceOrFile(c.keyData, c.keyFile, fs)
      /\ l.reload = (c.reload \/ PurelyFromFiles(c))
  BY LoadedConfig
<1> HIDE DEF l
<1>2. /\ c.caData # NoData => l.caData = c.caData
      /\ c.certData # NoData => l.certData = c.certData
      /\ c.keyData # NoData => l.keyData = c.keyData
  BY <1>1 DEF dataFromSliceOrFile
<1>3. CopiesCerts(c) => ~l.reload
  BY <1>1 DEF CopiesCerts, PurelyFromFiles
<1>4. CopiesCerts(c) => CopiesCerts(l)
  BY <1>2, <1>3 DEF CopiesCerts
<1> QED BY <1>2, <1>4 DEF l, CopiesCerts

(* Configs with one key agree on all that a transport is held to.          *)
LEMMA SameKey ==
    ASSUME NEW c \in Config, NEW d \in Config, NEW k, NEW l,
           tlsConfigKey(c, k) = tlsConfigKey(d, l)
    PROVE  /\ c.insecure = d.insecure /\ c.server = d.server
           /\ c.caData = d.caData
           /\ CopiesCerts(d) =>
                /\ CopiesCerts(c)
                /\ c.certData = d.certData /\ c.keyData = d.keyData
<1>1. /\ c.insecure = d.insecure /\ c.caData = d.caData /\ c.server = d.server
      /\ CertKey(c) = CertKey(d)
  BY DEF tlsConfigKey
<1> QED BY <1>1 DEF CertKey, CopiesCerts, Config

(* What a config is made into keeps to the options of each config with its *)
(* key.                                                                    *)
LEMMA KeyHonours ==
    ASSUME NEW c \in Config, NEW d \in Config, NEW k, NEW l,
           tlsConfigKey(c, k) = tlsConfigKey(d, l),
           NEW fs \in FileSystem, PersistableTLSConfigFor(c, fs) # Failed
    PROVE  Honours(PersistableTLSConfigFor(c, fs), d)
<1> DEFINE p == PersistableTLSConfigFor(c, fs)
<1>1. /\ c.insecure = d.insecure /\ c.server = d.server /\ c.caData = d.caData
      /\ CopiesCerts(d) =>
           /\ CopiesCerts(c)
           /\ c.certData = d.certData /\ c.keyData = d.keyData
  BY SameKey
<1>2. CASE ~RequestsTLS(c)
  <2>1. p = NoTLS
    BY <1>2 DEF PersistableTLSConfigFor
  <2>2. /\ c.insecure = FALSE /\ c.server = NoServer /\ c.caData = NoData
        /\ ~CopiesCerts(c)
    BY <1>2 DEF RequestsTLS, HasCA, HasCertAuth, CopiesCerts, Config
  <2> HIDE DEF p
  <2>3. Honours(p, d)
    BY <1>1, <2>1, <2>2 DEF Honours, DefaultTLS
  <2> QED BY <2>3 DEF p
<1>3. CASE RequestsTLS(c)
  <2> DEFINE m == loadTLSFiles(c, fs)
             copyCerts == HasCertAuth(m) /\ ~m.reload
  <2>1. /\ m # Failed
        /\ p = [insecure |-> m.insecure, server |-> m.server, caData |-> m.caData,
                certData |-> IF copyCerts THEN m.certData ELSE NoData,
                keyData  |-> IF copyCerts THEN m.keyData ELSE NoData]
    BY <1>3, PersistedForm
  <2>2. p # NoTLS
    BY <1>3, PersistedType, NoTLSAssumption
  <2>3. /\ m.insecure = c.insecure /\ m.server = c.server
        /\ c.caData # NoData => m.caData = c.caData
        /\ CopiesCerts(c) => /\ m.certData = c.certData /\ m.keyData = c.keyData
                             /\ CopiesCerts(m)
    BY <2>1, LoadedConfig, LoadKeeps
  <2>4. CopiesCerts(m) => copyCerts
    BY DEF CopiesCerts, HasCertAuth
  <2> HIDE DEF p, m
  <2>5. Honours(p, d)
    BY <1>1, <2>1, <2>2, <2>3, <2>4 DEF Honours
  <2> QED BY <2>5 DEF p
<1> QED BY <1>2, <1>3

(* What a config is made into keeps to what the config has become then.    *)
LEMMA LoadHonours ==
    ASSUME NEW c \in Config, NEW fs \in FileSystem,
           PersistableTLSConfigFor(c, fs) # Failed
    PROVE  LET p == PersistableTLSConfigFor(c, fs)
           IN  Honours(p, IF p = NoTLS THEN c ELSE loadTLSFiles(c, fs))
<1> DEFINE p == PersistableTLSConfigFor(c, fs)
           m == loadTLSFiles(c, fs)
           copyCerts == HasCertAuth(m) /\ ~m.reload
<1>1. CASE p = NoTLS
  BY <1>1, KeyHonours
<1>2. CASE p # NoTLS
  <2>1. RequestsTLS(c)
    BY <1>2 DEF PersistableTLSConfigFor
  <2>2. p = [insecure |-> m.insecure, server |-> m.server, caData |-> m.caData,
             certData |-> IF copyCerts THEN m.certData ELSE NoData,
             keyData  |-> IF copyCerts THEN m.keyData ELSE NoData]
    BY <2>1, PersistedForm
  <2>3. CopiesCerts(m) => copyCerts
    BY DEF CopiesCerts, HasCertAuth
  <2> HIDE DEF p, m
  <2>4. Honours(p, m)
    BY <1>2, <2>2, <2>3 DEF Honours
  <2> QED BY <1>2, <2>4 DEF p, m
<1> QED BY <1>1, <1>2

-----------------------------------------------------------------------------
(* Type correctness of the cache.                                          *)

LEMMA InitTypeOK == Init => TypeOK
BY DEF Init, TypeOK

(* A config that was loaded, and files that were rewritten, are what they  *)
(* were.                                                                   *)
LEMMA StepTypeOK == TypeOK /\ [Next]_vars => TypeOK'
<1> SUFFICES ASSUME TypeOK, [Next]_vars
             PROVE  TypeOK'
  OBVIOUS
<1> USE DEF TypeOK
<1>1. files \in FileSystem
  BY DEF FileSystem
<1>2. ASSUME NEW t \in Callers, ComputeKey(t)
      PROVE  TypeOK'
  <2>1. loadTLSFiles(conf[t], files) # Failed => loadTLSFiles(conf[t], files) \in Config
    BY <1>1, LoadedConfig
  <2> QED BY <1>2, <2>1 DEF ComputeKey
<1>3. ASSUME NEW t \in Callers, Lock(t) \/ Miss(t)
      PROVE  TypeOK'
  BY <1>3 DEF Lock, Miss
<1>4. ASSUME NEW t \in Callers, Hit(t)
      PROVE  TypeOK'
  <2>1. PICK e \in Entries(t) : result' = [result EXCEPT ![t] = e.transport]
    BY <1>4 DEF Hit
  <2>2. /\ UNCHANGED <<files, conf, link, conn, transports>>
        /\ pc' = [pc EXCEPT ![t] = "done"] /\ mu' = NoCaller
        /\ pc[t] = "locked"
    BY <1>4 DEF Hit
  <2>3. e.transport \in Transport
    BY <2>1 DEF Entries
  <2>4. /\ result' \in [Callers -> Transport \cup {Failed}]
        /\ \A u \in Callers : pc'[u] = "done" => result'[u] \in Transport
    BY <2>1, <2>2, <2>3
  <2> QED BY <2>2, <2>4
<1>5. ASSUME NEW t \in Callers, Store(t)
      PROVE  TypeOK'
  <2> DEFINE tls == PersistableTLSConfigFor(conf[t], files)
             l   == IF tls = NoTLS THEN conf[t] ELSE loadTLSFiles(conf[t], files)
             rt  == [tls |-> tls, link |-> link[t], conn |-> conn[t],
                     disableCompression |-> conf[t].disableCompression, by |-> t]
  <2>1. mu' = NoCaller /\ UNCHANGED <<files, link, conn>>
    BY <1>5 DEF Store
  <2>2. CASE tls = Failed
    <3>1. /\ pc' = [pc EXCEPT ![t] = "failed"]
          /\ UNCHANGED <<conf, result, transports>>
      BY <1>5, <2>2 DEF Store
    <3> QED BY <2>1, <3>1
  <2>3. CASE tls # Failed
    <3>1. /\ pc' = [pc EXCEPT ![t] = "done"]
          /\ conf' = [conf EXCEPT ![t] = l]
          /\ result' = [result EXCEPT ![t] = rt]
          /\ transports' =
               (transports \ Entries(t)) \cup {[key |-> key[t], transport |-> rt]}
      BY <1>5, <2>3 DEF Store
    <3>2. tls \in TLS \cup {NoTLS} /\ l \in Config
      BY <1>1, <2>3, PersistedType, LoadedConfig
    <3>3. rt \in Transport
      <4>1. conf[t].disableCompression \in BOOLEAN
        BY DEF Config
      <4> HIDE DEF tls
      <4> QED BY <3>2, <4>1 DEF Transport
    <3> HIDE DEF tls, l, rt
    <3>4. conf' \in [Callers -> Config]
      BY <3>1, <3>2
    <3>5. /\ result' \in [Callers -> Transport \cup {Failed}]
          /\ \A u \in Callers : pc'[u] = "done" => result'[u] \in Transport
      BY <3>1, <3>3
    <3>6. \A e \in transports' : e.transport \in Transport
      BY <3>1, <3>3
    <3> QED BY <2>1, <3>1, <3>4, <3>5, <3>6
  <2> QED BY <2>2, <2>3
<1>6. ASSUME NEW p \in Paths, Rewrite(p)
      PROVE  TypeOK'
  BY <1>6 DEF Rewrite
<1>7. CASE UNCHANGED vars
  BY <1>7 DEF vars
<1> QED BY <1>2, <1>3, <1>4, <1>5, <1>6, <1>7 DEF Next

-----------------------------------------------------------------------------
(* The inductive invariant of the cache.                                   *)

Holding(t) == pc[t] \in {"locked", "missed"}
HasKey(t)  == pc[t] \in {"keyed", "locked", "missed", "done"}

(* Between the lookup and the store the caller holds the lock, so that     *)
(* what it did not find is still not there.                                *)
LockInv(t) ==
    /\ Holding(t) => mu = t
    /\ pc[t] = "missed" => Entries(t) = {}

(* A key is of its caller's link, and what a caller was given is in the    *)
(* map, and stays there, under its key.                                    *)
KeyInv(t) ==
    /\ HasKey(t) => key[t].linkID = link[t]
    /\ pc[t] = "done" =>
         \E e \in transports : e.key = key[t] /\ e.transport = result[t]

(* The map has one transport per key, and it goes over the key's link.     *)
MapInv ==
    /\ \A e, f \in transports : e.key = f.key => e.transport = f.transport
    /\ \A e \in transports : e.transport.link = e.key.linkID

CacheInv ==
    /\ TypeOK
    /\ key = [t \in Callers |-> key[t]]
    /\ MapInv
    /\ \A t \in Callers : LockInv(t) /\ KeyInv(t)

LEMMA InitCacheInv == Init => CacheInv
BY InitTypeOK DEF Init, CacheInv, MapInv, LockInv, KeyInv, Holding, HasKey

(* A caller whose state, and whose part of the map, a step leaves alone.   *)
LEMMA SameCaller ==
    ASSUME CacheInv, NEW t \in Callers,
           pc'[t] = pc[t], key'[t] = key[t], link'[t] = link[t],
           result'[t] = result[t], transports' = transports,
           Holding(t) => mu' = mu
    PROVE  LockInv(t)' /\ KeyInv(t)'
BY DEF CacheInv, LockInv, KeyInv, Holding, HasKey, Entries

LEMMA StepCacheInv == CacheInv /\ [Next]_vars => CacheInv'
<1> SUFFICES ASSUME CacheInv, [Next]_vars
             PROVE  CacheInv'
  OBVIOUS
<1>1. TypeOK'
  BY StepTypeOK DEF CacheInv
<1>2. /\ pc = [t \in Callers |-> pc[t]]
      /\ key = [t \in Callers |-> key[t]]
      /\ result = [t \in Callers |-> result[t]]
      /\ \A t \in Callers : LockInv(t) /\ KeyInv(t)
      /\ MapInv
  BY DEF CacheInv, TypeOK
<1>3. ASSUME NEW t \in Callers, ComputeKey(t)
      PROVE  CacheInv'
  <2>1. pc[t] = "idle" /\ UNCHANGED <<files, link, conn, result, transports, mu>>
    BY <1>3 DEF ComputeKey
  <2>2. CASE loadTLSFiles(conf[t], files) = Failed
    <3>1. pc' = [pc EXCEPT ![t] = "failed"] /\ UNCHANGED key
      BY <1>3, <2>2 DEF ComputeKey
    <3>2. \A u \in Callers \ {t} : LockInv(u)' /\ KeyInv(u)'
      BY <1>2, <2>1, <3>1, SameCaller
    <3>3. LockInv(t)' /\ KeyInv(t)'
      BY <1>2, <3>1 DEF LockInv, KeyInv, Holding, HasKey
    <3> QED BY <1>1, <1>2, <2>1, <3>1, <3>2, <3>3 DEF CacheInv, MapInv
  <2>3. CASE loadTLSFiles(conf[t], files) # Failed
    <3> DEFINE k == tlsConfigKey(loadTLSFiles(conf[t], files), link[t])
    <3>1. pc' = [pc EXCEPT ![t] = "keyed"] /\ key' = [key EXCEPT ![t] = k]
      BY <1>3, <2>3 DEF ComputeKey
    <3>2. \A u \in Callers \ {t} : LockInv(u)' /\ KeyInv(u)'
      BY <1>2, <2>1, <3>1, SameCaller
    <3>3. k.linkID = link[t]
      BY DEF tlsConfigKey
    <3> HIDE DEF k
    <3>4. LockInv(t)' /\ KeyInv(t)'
      BY <1>2, <2>1, <3>1, <3>3 DEF LockInv, KeyInv, Holding, HasKey
    <3>5. key' = [u \in Callers |-> key'[u]]
      BY <1>2, <3>1
    <3> QED BY <1>1, <1>2, <2>1, <3>2, <3>4, <3>5 DEF CacheInv, MapInv
  <2> QED BY <2>2, <2>3
<1>4. ASSUME NEW t \in Callers, Lock(t)
      PROVE  CacheInv'
  <2>1. /\ pc[t] = "keyed" /\ mu = NoCaller /\ mu' = t
        /\ pc' = [pc EXCEPT ![t] = "locked"]
        /\ UNCHANGED <<files, conf, link, conn, key, result, transports>>
    BY <1>4 DEF Lock
  <2>2. \A u \in Callers : ~Holding(u)
    BY <1>2, <2>1 DEF LockInv
  <2>3. \A u \in Callers \ {t} : LockInv(u)' /\ KeyInv(u)'
    BY <1>2, <2>1, <2>2, SameCaller
  <2>4. LockInv(t)' /\ KeyInv(t)'
    BY <1>2, <2>1 DEF LockInv, KeyInv, Holding, HasKey
  <2> QED BY <1>1, <1>2, <2>1, <2>3, <2>4 DEF CacheInv, MapInv
<1>5. ASSUME NEW t \in Callers, Hit(t)
      PROVE  CacheInv'
  <2>1. PICK e \in Entries(t) : result' = [result EXCEPT ![t] = e.transport]
    BY <1>5 DEF Hit
  <2>2. /\ pc[t] = "locked" /\ mu' = NoCaller
        /\ pc' = [pc EXCEPT ![t] = "done"]
        /\ UNCHANGED <<files, conf, link, conn, key, transports>>
    BY <1>5 DEF Hit
  <2>3. \A u \in Callers \ {t} : ~Holding(u)
    BY <1>2, <2>2 DEF LockInv, Holding
  <2>4. \A u \in Callers \ {t} : LockInv(u)' /\ KeyInv(u)'
    BY <1>2, <2>1, <2>2, <2>3, SameCaller
  <2>5. LockInv(t)' /\ KeyInv(t)'
    BY <1>2, <2>1, <2>2 DEF LockInv, KeyInv, Holding, HasKey, Entries
  <2> QED BY <1>1, <1>2, <2>2, <2>4, <2>5 DEF CacheInv, MapInv
<1>6. ASSUME NEW t \in Callers, Miss(t)
      PROVE  CacheInv'
  <2>1. /\ pc[t] = "locked" /\ Entries(t) = {}
        /\ pc' = [pc EXCEPT ![t] = "missed"]
        /\ UNCHANGED <<files, conf, link, conn, key, result, transports, mu>>
    BY <1>6 DEF Miss
  <2>2. \A u \in Callers \ {t} : LockInv(u)' /\ KeyInv(u)'
    BY <1>2, <2>1, SameCaller
  <2>3. LockInv(t)' /\ KeyInv(t)'
    BY <1>2, <2>1 DEF LockInv, KeyInv, Holding, HasKey, Entries
  <2> QED BY <1>1, <1>2, <2>1, <2>2, <2>3 DEF CacheInv, MapInv
<1>7. ASSUME NEW t \in Callers, Store(t)
      PROVE  CacheInv'
  <2>1. /\ pc[t] = "missed" /\ mu' = NoCaller
        /\ UNCHANGED <<files, link, conn, key>>
    BY <1>7 DEF Store
  <2>2. Entries(t) = {} /\ \A u \in Callers \ {t} : ~Holding(u)
    BY <1>2, <2>1 DEF LockInv, Holding
  <2>3. CASE /\ pc' = [pc EXCEPT ![t] = "failed"]
             /\ UNCHANGED <<conf, result, transports>>
    <3>1. \A u \in Callers \ {t} : LockInv(u)' /\ KeyInv(u)'
      BY <1>2, <2>1, <2>2, <2>3, SameCaller
    <3>2. LockInv(t)' /\ KeyInv(t)'
      BY <1>2, <2>1, <2>3 DEF LockInv, KeyInv, Holding, HasKey
    <3> QED BY <1>1, <1>2, <2>1, <2>3, <3>1, <3>2 DEF CacheInv, MapInv
  <2>4. CASE \E rt : /\ rt.link = link[t]
                     /\ pc' = [pc EXCEPT ![t] = "done"]
                     /\ result' = [result EXCEPT ![t] = rt]
                     /\ transports' = (transports \ Entries(t))
                                        \cup {[key |-> key[t], transport |-> rt]}
    <3>1. PICK rt : /\ rt.link = link[t]
                    /\ pc' = [pc EXCEPT ![t] = "done"]
                    /\ result' = [result EXCEPT ![t] = rt]
                    /\ transports' = transports
                                       \cup {[key |-> key[t], transport |-> rt]}
      BY <2>2, <2>4
    <3> DEFINE new == [key |-> key[t], transport |-> rt]
    <3>2. \A e \in transports : e.key # key[t]
      BY <2>2 DEF Entries
    <3>3. new.key = key[t] /\ new.transport = rt /\ key[t].linkID = link[t]
      BY <1>2, <2>1 DEF KeyInv, HasKey
    <3> HIDE DEF new
    <3>4. transports' = transports \cup {new}
      BY <3>1 DEF new
    <3>5. MapInv'
      BY <1>2, <3>1, <3>2, <3>3, <3>4 DEF MapInv
    <3>6. \A u \in Callers \ {t} : LockInv(u)' /\ KeyInv(u)'
      BY <1>2, <2>1, <2>2, <3>1, <3>4 DEF LockInv, KeyInv, Holding, HasKey
    <3>7. LockInv(t)' /\ KeyInv(t)'
      BY <1>2, <2>1, <3>1, <3>3, <3>4 DEF LockInv, KeyInv, Holding, HasKey
    <3> QED BY <1>1, <1>2, <2>1, <3>5, <3>6, <3>7 DEF CacheInv
  <2> DEFINE tls == PersistableTLSConfigFor(conf[t], files)
             new == [tls |-> tls, link |-> link[t], conn |-> conn[t],
                     disableCompression |-> conf[t].disableCompression, by |-> t]
  <2>5. tls = Failed => /\ pc' = [pc EXCEPT ![t] = "failed"]
                        /\ UNCHANGED <<conf, result, transports>>
    BY <1>7 DEF Store
  <2>6. tls # Failed =>
          /\ pc' = [pc EXCEPT ![t] = "done"]
          /\ result' = [result EXCEPT ![t] = new]
          /\ transports' = (transports \ Entries(t))
                             \cup {[key |-> key[t], transport |-> new]}
    BY <1>7 DEF Store
  <2>7. new.link = link[t]
    OBVIOUS
  <2> HIDE DEF tls, new
  <2> QED BY <2>3, <2>4, <2>5, <2>6, <2>7
<1>8. ASSUME NEW p \in Paths, Rewrite(p)
      PROVE  CacheInv'
  BY <1>1, <1>2, <1>8, SameCaller DEF Rewrite, CacheInv, MapInv
<1>9. CASE UNCHANGED vars
  BY <1>1, <1>2, <1>9, SameCaller DEF vars, CacheInv, MapInv
<1> QED BY <1>3, <1>4, <1>5, <1>6, <1>7, <1>8, <1>9 DEF Next

LEMMA CacheInvariant == Spec => []CacheInv
<1>1. Init => CacheInv
  BY InitCacheInv
<1>2. CacheInv /\ [Next]_vars => CacheInv'
  BY StepCacheInv
<1> QED BY <1>1, <1>2, PTL DEF Spec

(* Concurrent callers with one key are given one transport: the lookup and *)
(* the store are under the lock, and nothing is replaced (cache.go).       *)
THEOREM OneTransportPerKey == Spec => []SingleTransport
<1>1. CacheInv => SingleTransport
  BY DEF CacheInv, MapInv, KeyInv, SingleTransport
<1> QED BY <1>1, CacheInvariant, PTL

(* No caller is given the transport of another cluster: the link is a part *)
(* of the key (cache.go, tlsConfigKey).                                    *)
THEOREM TransportOfOwnLink == Spec => []LinkKept
<1>1. CacheInv => LinkKept
  BY DEF CacheInv, MapInv, KeyInv, HasKey, LinkKept
<1> QED BY <1>1, CacheInvariant, PTL

-----------------------------------------------------------------------------
(* The cache implements CachePromise.                                      *)

(* A caller that has not computed its key has asked for nothing, and one   *)
(* that is not done has no answer.                                         *)
AnswerInv ==
    \A t \in Callers :
        /\ pc[t] = "idle" => key[t] = Failed
        /\ HasKey(t) => key[t] \in Key
        /\ pc[t] # "done" => result[t] = Failed

LEMMA KeyIsKey ==
    ASSUME NEW c \in Config, NEW l \in Links
    PROVE  tlsConfigKey(c, l) \in Key /\ tlsConfigKey(c, l) # Failed
<1>1. CertKey(c) \in Path \X Path \X Data \X Data
  BY DEF CertKey, Config, Path, Data
<1>2. tlsConfigKey(c, l) \in Key
  <2> DEFINE k == CertKey(c)
  <2>1. tlsConfigKey(c, l) =
          [insecure |-> c.insecure, caData |-> c.caData, server |-> c.server,
           linkID |-> l, cert |-> k, disableCompression |-> c.disableCompression]
    BY DEF tlsConfigKey
  <2>2. k \in Path \X Path \X Data \X Data
    BY <1>1
  <2> HIDE DEF k
  <2>3. /\ c.insecure \in BOOLEAN /\ c.caData \in Data /\ c.server \in Server
        /\ c.disableCompression \in BOOLEAN
    BY DEF Config
  <2> QED BY <2>1, <2>2, <2>3 DEF Key
<1> QED BY <1>2, FailedAssumption

(* What a step of a caller is to the others: nothing, an answer, a key.    *)
LEMMA ComputeKeyPromise ==
    ASSUME CacheInv, AnswerInv, NEW t \in Callers, ComputeKey(t)
    PROVE  AnswerInv' /\ (Promise!Ask(t) \/ UNCHANGED Promise!vars)
<1>1. /\ pc[t] = "idle" /\ UNCHANGED <<link, result, transports>>
      /\ conf[t] \in Config /\ files \in FileSystem /\ link[t] \in Links
      /\ key = [u \in Callers |-> key[u]] /\ pc = [u \in Callers |-> pc[u]]
  BY DEF ComputeKey, CacheInv, TypeOK, FileSystem
<1>2. key[t] = Failed /\ result[t] = Failed
  BY <1>1 DEF AnswerInv
<1>3. CASE loadTLSFiles(conf[t], files) = Failed
  <2>1. pc' = [pc EXCEPT ![t] = "failed"] /\ UNCHANGED key
    BY <1>3 DEF ComputeKey
  <2>2. AnswerInv'
    BY <1>1, <1>2, <2>1 DEF AnswerInv, HasKey
  <2> QED BY <1>1, <2>1, <2>2 DEF Promise!vars
<1>4. CASE loadTLSFiles(conf[t], files) # Failed
  <2> DEFINE k == tlsConfigKey(loadTLSFiles(conf[t], files), link[t])
  <2>1. pc' = [pc EXCEPT ![t] = "keyed"] /\ key' = [key EXCEPT ![t] = k]
    BY <1>4 DEF ComputeKey
  <2>2. k \in Key /\ k # Failed
    BY <1>1, <1>4, LoadedConfig, KeyIsKey
  <2> HIDE DEF k
  <2>3. key'[t] = k /\ \A u \in Callers \ {t} : key'[u] = key[u] /\ pc'[u] = pc[u]
    BY <1>1, <2>1
  <2>4. pc'[t] = "keyed"
    BY <1>1, <2>1
  <2>5. AnswerInv'
    BY <1>1, <1>2, <2>2, <2>3, <2>4 DEF AnswerInv, HasKey
  <2>6. Promise!Ask(t)
    BY <1>1, <1>2, <2>1, <2>2, <2>3 DEF Promise!Ask
  <2> QED BY <2>5, <2>6
<1> QED BY <1>3, <1>4

LEMMA AnswerPromise ==
    ASSUME CacheInv, AnswerInv, NEW t \in Callers, Hit(t) \/ Store(t)
    PROVE  /\ AnswerInv'
           /\ Promise!Find(t) \/ Promise!Make(t) \/ UNCHANGED Promise!vars
<1>1. /\ pc[t] \in {"locked", "missed"} /\ UNCHANGED key
      /\ key[t] \in Key /\ result[t] = Failed
  BY DEF Hit, Store, AnswerInv, HasKey
<1>2. /\ pc = [u \in Callers |-> pc[u]] /\ result = [u \in Callers |-> result[u]]
      /\ Promise!Waits(t) /\ Promise!Entries(t) = Entries(t)
  BY <1>1, FailedAssumption DEF CacheInv, TypeOK, Promise!Waits, Promise!Entries, Entries
<1>3. TypeOK'
  BY StepTypeOK DEF CacheInv, Next
<1>4. ASSUME NEW x, pc' = [pc EXCEPT ![t] = "done"], result' = [result EXCEPT ![t] = x]
      PROVE  AnswerInv' /\ result'[t] = x /\ x # Failed
  <2>1. result'[t] = x /\ pc'[t] = "done"
    BY <1>2, <1>4
  <2>2. \A u \in Callers \ {t} : pc'[u] = pc[u] /\ result'[u] = result[u]
    BY <1>2, <1>4
  <2>3. x # Failed
    BY <1>3, <2>1, FailedAssumption DEF TypeOK
  <2> QED BY <1>1, <2>1, <2>2, <2>3 DEF AnswerInv, HasKey
<1>5. CASE Hit(t)
  <2>1. PICK e \in Entries(t) : result' = [result EXCEPT ![t] = e.transport]
    BY <1>5 DEF Hit
  <2>2. pc' = [pc EXCEPT ![t] = "done"] /\ UNCHANGED <<key, transports>>
    BY <1>5 DEF Hit
  <2>3. Promise!Find(t)
    BY <1>2, <2>1, <2>2 DEF Promise!Find
  <2> QED BY <1>4, <2>1, <2>2, <2>3
<1>6. CASE Store(t)
  <2>1. pc[t] = "missed" /\ Entries(t) = {}
    BY <1>6 DEF Store, CacheInv, LockInv
  <2>2. \/ /\ pc' = [pc EXCEPT ![t] = "failed"]
           /\ UNCHANGED <<result, transports>>
        \/ \E x : /\ pc' = [pc EXCEPT ![t] = "done"]
                  /\ result' = [result EXCEPT ![t] = x]
                  /\ transports' = (transports \ Entries(t))
                                     \cup {[key |-> key[t], transport |-> x]}
    BY <1>6 DEF Store
  <2>3. CASE /\ pc' = [pc EXCEPT ![t] = "failed"]
             /\ UNCHANGED <<result, transports>>
    <3>1. AnswerInv'
      BY <1>1, <1>2, <2>3 DEF AnswerInv, HasKey
    <3> QED BY <1>1, <2>3, <3>1 DEF Promise!vars
  <2>4. ASSUME NEW x, pc' = [pc EXCEPT ![t] = "done"],
               result' = [result EXCEPT ![t] = x],
               transports' = (transports \ Entries(t))
                               \cup {[key |-> key[t], transport |-> x]}
        PROVE  AnswerInv' /\ Promise!Make(t)
    <3>1. AnswerInv' /\ result'[t] = x /\ x # Failed
      BY <1>4, <2>4
    <3>2. transports' = transports \cup {[key |-> key[t], transport |-> x]}
      BY <2>1, <2>4
    <3>3. result' = [result EXCEPT ![t] = result'[t]]
      BY <2>4, <3>1
    <3>4. Promise!Make(t)
      BY <1>1, <1>2, <2>1, <3>1, <3>2, <3>3 DEF Promise!Make
    <3> QED BY <3>1, <3>4
  <2> QED BY <2>2, <2>3, <2>4
<1> QED BY <1>5, <1>6

LEMMA CacheStep ==
    CacheInv /\ AnswerInv /\ [Next]_vars => AnswerInv' /\ [Promise!Next]_(Promise!vars)
<1> SUFFICES ASSUME CacheInv, AnswerInv, [Next]_vars
             PROVE  AnswerInv' /\ (Promise!Next \/ UNCHANGED Promise!vars)
  OBVIOUS
<1>1. ASSUME NEW t \in Callers, ComputeKey(t)
      PROVE  AnswerInv' /\ (Promise!Next \/ UNCHANGED Promise!vars)
  BY <1>1, ComputeKeyPromise DEF Promise!Next
<1>2. ASSUME NEW t \in Callers, Hit(t) \/ Store(t)
      PROVE  AnswerInv' /\ (Promise!Next \/ UNCHANGED Promise!vars)
  BY <1>2, AnswerPromise DEF Promise!Next
<1>3. ASSUME NEW t \in Callers, Lock(t) \/ Miss(t)
      PROVE  AnswerInv' /\ UNCHANGED Promise!vars
  <2>1. /\ pc[t] \in {"keyed", "locked"}
        /\ \/ pc' = [pc EXCEPT ![t] = "locked"]
           \/ pc' = [pc EXCEPT ![t] = "missed"]
        /\ UNCHANGED <<key, result, transports>>
        /\ pc = [u \in Callers |-> pc[u]]
    BY <1>3 DEF Lock, Miss, CacheInv, TypeOK
  <2>2. AnswerInv'
    BY <2>1 DEF AnswerInv, HasKey
  <2> QED BY <2>1, <2>2 DEF Promise!vars
<1>4. ASSUME UNCHANGED <<pc, key, result, transports>>
      PROVE  AnswerInv' /\ UNCHANGED Promise!vars
  BY <1>4 DEF AnswerInv, HasKey, Promise!vars
<1>5. ASSUME NEW p \in Paths, Rewrite(p)
      PROVE  AnswerInv' /\ UNCHANGED Promise!vars
  BY <1>4, <1>5 DEF Rewrite
<1>6. CASE UNCHANGED vars
  BY <1>4, <1>6 DEF vars
<1> QED BY <1>1, <1>2, <1>3, <1>5, <1>6 DEF Next

(* The cache is a table that answers in one step, adds an entry only where *)
(* there is none, and keeps it: the lock makes lookup and store one, and a *)
(* call that fails leaves no trace (cache.go, get).                        *)
THEOREM CacheImplementsPromise == Spec => AtomicLookup
<1>1. Init => Promise!Init /\ AnswerInv
  BY DEF Init, Promise!Init, AnswerInv, HasKey
<1> QED BY <1>1, CacheStep, CacheInvariant, PTL DEF Spec, AtomicLookup, Promise!Spec

-----------------------------------------------------------------------------
(* The key keeps the TLS options of those who share a transport.           *)

(* The key is made from the config as it was loaded; what is in the map    *)
(* keeps to the options of whoever has its key; and so does what a caller  *)
(* was given, also where it made it from files that it read once more.     *)
OptionsInv ==
    /\ \A t \in Callers : pc[t] \in {"keyed", "locked", "missed"} =>
         key[t] = tlsConfigKey(conf[t], link[t])
    /\ \A e \in transports, c \in Config, l \in Links :
         tlsConfigKey(c, l) = e.key => Honours(e.transport.tls, c)
    /\ OptionsHonoured

LEMMA InitOptionsInv == Init => OptionsInv
BY DEF Init, OptionsInv, OptionsHonoured

LEMMA StepOptionsInv == CacheInv /\ OptionsInv /\ [Next]_vars => OptionsInv'
<1> SUFFICES ASSUME CacheInv, OptionsInv, [Next]_vars
             PROVE  OptionsInv'
  OBVIOUS
<1>1. /\ files \in FileSystem
      /\ conf \in [Callers -> Config] /\ link \in [Callers -> Links]
      /\ pc = [t \in Callers |-> pc[t]]
      /\ key = [t \in Callers |-> key[t]]
      /\ result = [t \in Callers |-> result[t]]
  BY DEF CacheInv, TypeOK, FileSystem
<1>2. /\ \A t \in Callers : pc[t] \in {"keyed", "locked", "missed"} =>
           key[t] = tlsConfigKey(conf[t], link[t])
      /\ \A e \in transports, c \in Config, l \in Links :
           tlsConfigKey(c, l) = e.key => Honours(e.transport.tls, c)
      /\ \A t \in Callers : pc[t] = "done" => Honours(result[t].tls, conf[t])
  BY DEF OptionsInv, OptionsHonoured
<1>3. ASSUME NEW t \in Callers, ComputeKey(t)
      PROVE  OptionsInv'
  <2>1. UNCHANGED <<link, result, transports>> /\ pc[t] = "idle"
    BY <1>3 DEF ComputeKey
  <2>2. CASE loadTLSFiles(conf[t], files) = Failed
    <3>1. pc' = [pc EXCEPT ![t] = "failed"] /\ UNCHANGED <<conf, key>>
      BY <1>3, <2>2 DEF ComputeKey
    <3> QED BY <1>1, <1>2, <2>1, <3>1 DEF OptionsInv, OptionsHonoured
  <2>3. CASE loadTLSFiles(conf[t], files) # Failed
    <3> DEFINE l == loadTLSFiles(conf[t], files)
               k == tlsConfigKey(l, link[t])
    <3>1. /\ pc' = [pc EXCEPT ![t] = "keyed"] /\ key' = [key EXCEPT ![t] = k]
          /\ conf' = [conf EXCEPT ![t] = l]
      BY <1>3, <2>3 DEF ComputeKey
    <3> HIDE DEF l
    <3>2. \A u \in Callers : pc'[u] \in {"keyed", "locked", "missed"} =>
             key'[u] = tlsConfigKey(conf'[u], link'[u])
      BY <1>1, <1>2, <2>1, <3>1
    <3>3. \A u \in Callers : pc'[u] = "done" => Honours(result'[u].tls, conf'[u])
      BY <1>1, <1>2, <2>1, <3>1
    <3> QED BY <1>2, <2>1, <3>2, <3>3 DEF OptionsInv, OptionsHonoured
  <2> QED BY <2>2, <2>3
<1>4. ASSUME NEW t \in Callers, Lock(t) \/ Miss(t)
      PROVE  OptionsInv'
  <2>1. /\ pc[t] \in {"keyed", "locked"}
        /\ \/ pc' = [pc EXCEPT ![t] = "locked"]
           \/ pc' = [pc EXCEPT ![t] = "missed"]
        /\ UNCHANGED <<conf, link, key, result, transports>>
    BY <1>4 DEF Lock, Miss
  <2> QED BY <1>1, <1>2, <2>1 DEF OptionsInv, OptionsHonoured
<1>5. ASSUME NEW t \in Callers, Hit(t)
      PROVE  OptionsInv'
  <2>1. PICK e \in Entries(t) : result' = [result EXCEPT ![t] = e.transport]
    BY <1>5 DEF Hit
  <2>2. /\ pc[t] = "locked" /\ pc' = [pc EXCEPT ![t] = "done"]
        /\ UNCHANGED <<conf, link, key, transports>>
    BY <1>5 DEF Hit
  <2>3. Honours(e.transport.tls, conf[t])
    BY <1>1, <1>2, <2>2 DEF Entries
  <2>4. \A u \in Callers : pc'[u] = "done" => Honours(result'[u].tls, conf'[u])
    BY <1>1, <1>2, <2>1, <2>2, <2>3
  <2> QED BY <1>1, <1>2, <2>2, <2>4 DEF OptionsInv, OptionsHonoured
<1>6. ASSUME NEW t \in Callers, Store(t)
      PROVE  OptionsInv'
  <2> DEFINE tls == PersistableTLSConfigFor(conf[t], files)
             l   == IF tls = NoTLS THEN conf[t] ELSE loadTLSFiles(conf[t], files)
             rt  == [tls |-> tls, link |-> link[t], conn |-> conn[t],
                     disableCompression |-> conf[t].disableCompression, by |-> t]
             new == [key |-> key[t], transport |-> rt]
  <2>1. pc[t] = "missed" /\ UNCHANGED <<link, key>>
    BY <1>6 DEF Store
  <2>2. CASE tls = Failed
    <3>1. /\ pc' = [pc EXCEPT ![t] = "failed"]
          /\ UNCHANGED <<conf, result, transports>>
      BY <1>6, <2>2 DEF Store
    <3> QED BY <1>1, <1>2, <2>1, <3>1 DEF OptionsInv, OptionsHonoured
  <2>3. CASE tls # Failed
    <3>1. /\ pc' = [pc EXCEPT ![t] = "done"]
          /\ conf' = [conf EXCEPT ![t] = l]
          /\ result' = [result EXCEPT ![t] = rt]
          /\ transports' = (transports \ Entries(t)) \cup {new}
      BY <1>6, <2>3 DEF Store
    <3>2. key[t] = tlsConfigKey(conf[t], link[t])
      BY <1>2, <2>1
    <3>3. \A c \in Config, k \in Links :
             tlsConfigKey(c, k) = key[t] => Honours(tls, c)
      BY <1>1, <2>3, <3>2, KeyHonours
    <3>4. Honours(tls, l)
      BY <1>1, <2>3, LoadHonours
    <3>5. new.key = key[t] /\ new.transport.tls = tls /\ rt.tls = tls
      OBVIOUS
    <3> HIDE DEF new, rt, l, tls
    <3>6. \A u \in Callers : pc'[u] = "done" => Honours(result'[u].tls, conf'[u])
      BY <1>1, <1>2, <3>1, <3>4, <3>5
    <3>7. \A e \in transports', c \in Config, k \in Links :
             tlsConfigKey(c, k) = e.key => Honours(e.transport.tls, c)
      BY <1>2, <3>1, <3>3, <3>5
    <3>8. \A u \in Callers : pc'[u] \in {"keyed", "locked", "missed"} =>
             key'[u] = tlsConfigKey(conf'[u], link'[u])
      BY <1>1, <1>2, <2>1, <3>1
    <3> QED BY <3>6, <3>7, <3>8 DEF OptionsInv, OptionsHonoured
  <2> QED BY <2>2, <2>3
<1>7. ASSUME NEW p \in Paths, Rewrite(p)
      PROVE  OptionsInv'
  BY <1>2, <1>7 DEF Rewrite, OptionsInv, OptionsHonoured
<1>8. CASE UNCHANGED vars
  BY <1>2, <1>8 DEF vars, OptionsInv, OptionsHonoured
<1> QED BY <1>3, <1>4, <1>5, <1>6, <1>7, <1>8 DEF Next

(* A transport that is shared keeps to the options of each caller that was *)
(* given it, whatever the files hold and however they are rewritten, empty *)
(* ones included (cache.go, tlsConfigKey and get): the second read can     *)
(* only add to what the key was made from.                                 *)
THEOREM OptionsKept == Spec => []OptionsHonoured
<1>1. OptionsInv => OptionsHonoured
  BY DEF OptionsInv
<1> QED BY <1>1, InitOptionsInv, StepOptionsInv, CacheInvariant, PTL DEF Spec

-----------------------------------------------------------------------------
(* The clients.                                                            *)

(* Every step of a client is one of the cache's, or leaves it alone.       *)
LEMMA ClientStep == [ClientsNext]_<<vars, clientVars>> => [Next]_vars
BY DEF ClientsNext, New, handle, Takes, GetForRestConfig, ShareConfig,
       GetNoCopyConfig, SetsTransport, Fails, Refuse, GetWithoutTransport,
       NewClient, NewForConfig, Next, vars

(* The constructors use the cache only through its operations, so that all *)
(* that is said of the cache holds in a program that makes clients (New,   *)
(* and the callers of it in pkg/rest, pkg/http and pkg/clientcmd).         *)
THEOREM ClientsUseTheCache == ClientsSpec => Spec
<1>1. ClientsInit => Init
  BY DEF ClientsInit
<1> QED BY <1>1, ClientStep, PTL DEF ClientsSpec, Spec

(* A caller works on a config of its own, or on one that it was told to    *)
(* work on in place; and, unless somebody else works there too, what its   *)
(* config and its client hold is what New returned to it.                  *)
Own(t) ==
    \/ object[t] = t
    \/ inPlace[t] /\ object[t] \in Originals

Holds(t) ==
    /\ stage[t] \in {"configured", "made"} => pc[t] = "done"
    /\ ~SharedInPlace(t) =>
         /\ stage[t] = "configured" => transportOf[object[t]] = result[t]
         /\ stage[t] = "made"       => roundTripper[t] = result[t]

ClientInv ==
    /\ ClientTypeOK
    /\ \A t \in Callers : Own(t)
    /\ \A t \in Callers : Holds(t)

LEMMA InitClientInv == ClientsInit => ClientInv
<1> SUFFICES ASSUME ClientsInit
             PROVE  ClientInv
  OBVIOUS
<1>1. TypeOK
  BY InitTypeOK DEF ClientsInit
<1> QED BY <1>1 DEF ClientsInit, ClientInv, ClientTypeOK, Own, Holds, Objects

(* Whose config nobody else works on in place has it to itself.            *)
LEMMA OwnObject ==
    ASSUME \A t \in Callers : Own(t), NEW t \in Callers, NEW u \in Callers \ {t}
    PROVE  /\ ~SharedInPlace(t) => object[u] # object[t]
           /\ object[u] # t
BY OriginalsAssumption DEF Own, SharedInPlace

(* A step of the cache leaves a caller that is done alone.                 *)
LEMMA DoneStays ==
    ASSUME TypeOK, Next, NEW t \in Callers, pc[t] = "done"
    PROVE  pc'[t] = "done" /\ result'[t] = result[t]
<1>1. ASSUME NEW u \in Callers, ComputeKey(u) \/ Lock(u) \/ Hit(u) \/ Miss(u) \/ Store(u)
      PROVE  pc'[t] = "done" /\ result'[t] = result[t]
  <2>1. u # t
    BY <1>1 DEF ComputeKey, Lock, Hit, Miss, Store
  <2>2. pc'[t] = pc[t] /\ result'[t] = result[t]
    BY <1>1, <2>1 DEF ComputeKey, Lock, Hit, Miss, Store, TypeOK
  <2> QED BY <2>2
<1>2. ASSUME NEW p \in Paths, Rewrite(p)
      PROVE  pc'[t] = "done" /\ result'[t] = result[t]
  BY <1>2 DEF Rewrite
<1> QED BY <1>1, <1>2 DEF Next

LEMMA StepClientInv ==
    ClientInv /\ [ClientsNext]_<<vars, clientVars>> => ClientInv'
<1> SUFFICES ASSUME ClientInv, [ClientsNext]_<<vars, clientVars>>
             PROVE  ClientInv'
  OBVIOUS
<1>1. TypeOK'
  BY ClientStep, StepTypeOK DEF ClientInv, ClientTypeOK
<1>2. /\ TypeOK
      /\ transportOf \in [Objects -> Transport \cup {NoTransport}]
      /\ object \in [Callers -> Objects]
      /\ inPlace \in [Callers -> BOOLEAN]
      /\ stage \in [Callers -> {"none", "configured", "made", "rejected",
                                "failed", "direct"}]
      /\ roundTripper \in [Callers -> Transport \cup {NoTransport}]
      /\ \A t \in Callers : pc[t] = "done" => result[t] \in Transport
      /\ \A t \in Callers : t \in Objects
      /\ \A o \in Originals : o \in Objects
  BY DEF ClientInv, ClientTypeOK, TypeOK, Objects
<1>3. /\ \A t \in Callers : Own(t)
      /\ \A t \in Callers : Holds(t)
  BY DEF ClientInv
<1>4. ASSUME UNCHANGED clientVars, Next \/ UNCHANGED vars
      PROVE  ClientInv'
  <2>1. UNCHANGED <<transportOf, object, inPlace, stage, roundTripper>>
    BY <1>4 DEF clientVars
  <2>2. \A t \in Callers : pc[t] = "done" => pc'[t] = "done" /\ result'[t] = result[t]
    BY <1>2, <1>4, DoneStays DEF vars
  <2>3. ClientTypeOK'
    BY <1>1, <1>2, <2>1 DEF ClientTypeOK, Objects
  <2>4. \A t \in Callers : Own(t)'
    BY <1>3, <2>1 DEF Own
  <2>5. \A t \in Callers : Holds(t)'
    BY <1>3, <2>1, <2>2 DEF Holds, SharedInPlace
  <2> QED BY <2>3, <2>4, <2>5 DEF ClientInv
(* The Transport field of the caller's config is set.                      *)
<1>5. ASSUME NEW t \in Callers, NEW x \in Transport \cup {NoTransport},
             NEW s \in {"configured", "failed"}, SetsTransport(t, x, s),
             s = "configured" => x = result[t] /\ pc[t] = "done"
      PROVE  ClientInv'
  <2>1. /\ transportOf' = [transportOf EXCEPT ![object[t]] = x]
        /\ stage' = [stage EXCEPT ![t] = s]
        /\ UNCHANGED <<pc, result, object, inPlace, roundTripper>>
    BY <1>5 DEF SetsTransport, vars
  <2>2. ClientTypeOK'
    BY <1>1, <1>2, <2>1 DEF ClientTypeOK, Objects
  <2>3. \A u \in Callers : Own(u)'
    BY <1>3, <2>1 DEF Own
  <2>4. ASSUME NEW u \in Callers, u # t
        PROVE  Holds(u)'
    <3>1. ~SharedInPlace(u) => object[t] # object[u]
      BY <1>3, <2>4, OwnObject
    <3>2. stage'[u] = stage[u] /\ SharedInPlace(u)' = SharedInPlace(u)
      BY <1>2, <2>1, <2>4 DEF SharedInPlace
    <3>3. ~SharedInPlace(u) => transportOf'[object'[u]] = transportOf[object[u]]
      BY <1>2, <2>1, <3>1
    <3> QED BY <1>3, <2>1, <3>2, <3>3 DEF Holds
  <2>5. Holds(t)'
    <3>1. stage'[t] = s /\ transportOf'[object'[t]] = x
      BY <1>2, <2>1
    <3> QED BY <1>5, <2>1, <3>1 DEF Holds
  <2> QED BY <2>2, <2>3, <2>4, <2>5 DEF ClientInv
<1>6. ASSUME NEW t \in Callers, Fails(t)
      PROVE  ClientInv'
  BY <1>5, <1>6 DEF Fails
<1>7. ASSUME NEW t \in Callers, GetNoCopyConfig(t)
      PROVE  ClientInv'
  <2>1. CASE Fails(t)
    BY <1>6, <2>1
  <2>2. CASE pc[t] = "done" /\ SetsTransport(t, result[t], "configured")
    BY <1>2, <1>5, <2>2
  <2> QED BY <1>7, <2>1, <2>2 DEF GetNoCopyConfig
<1>8. ASSUME NEW t \in Callers, Refuse(t)
      PROVE  ClientInv'
  BY <1>6, <1>8 DEF Refuse
(* A step that only moves the caller's stage, and may give it a client.    *)
<1>9. ASSUME NEW t \in Callers, UNCHANGED <<pc, result, transportOf, object, inPlace>>,
             NEW s \in {"direct", "failed", "rejected", "made"},
             stage' = [stage EXCEPT ![t] = s],
             NEW x \in Transport \cup {NoTransport},
             roundTripper' = [roundTripper EXCEPT ![t] = x],
             s = "made" => pc[t] = "done" /\ (~SharedInPlace(t) => x = result[t])
      PROVE  ClientInv'
  <2>1. ClientTypeOK'
    BY <1>1, <1>2, <1>9 DEF ClientTypeOK, Objects
  <2>2. \A u \in Callers : Own(u)'
    BY <1>3, <1>9 DEF Own
  <2>3. \A u \in Callers : SharedInPlace(u)' = SharedInPlace(u)
    BY <1>9 DEF SharedInPlace
  <2>4. \A u \in Callers \ {t} : Holds(u)'
    BY <1>2, <1>3, <1>9, <2>3 DEF Holds
  <2>5. Holds(t)'
    BY <1>2, <1>9, <2>3 DEF Holds
  <2> QED BY <2>1, <2>2, <2>4, <2>5 DEF ClientInv
<1>10. ASSUME NEW t \in Callers, GetWithoutTransport(t)
       PROVE  ClientInv'
  <2>1. /\ \E s \in {"direct", "failed"} : stage' = [stage EXCEPT ![t] = s]
        /\ UNCHANGED <<pc, result, transportOf, object, inPlace>>
        /\ roundTripper' = [roundTripper EXCEPT ![t] = roundTripper[t]]
    BY <1>2, <1>10 DEF GetWithoutTransport, vars
  <2>2. roundTripper[t] \in Transport \cup {NoTransport}
    BY <1>2
  <2> QED BY <1>9, <2>1, <2>2
<1>11. ASSUME NEW t \in Callers, NewClient(t)
       PROVE  ClientInv'
  <2>1. /\ pc[t] = "done"
        /\ stage' = [stage EXCEPT ![t] = "made"]
        /\ roundTripper' = [roundTripper EXCEPT ![t] = result[t]]
        /\ UNCHANGED <<pc, result, transportOf, object, inPlace>>
    BY <1>11 DEF NewClient, vars
  <2> QED BY <1>2, <1>9, <2>1
<1>12. ASSUME NEW t \in Callers, NewForConfig(t)
       PROVE  ClientInv'
  <2>1. stage[t] = "configured" /\ UNCHANGED <<pc, result, transportOf, object, inPlace>>
    BY <1>12 DEF NewForConfig, vars
  <2>2. /\ pc[t] = "done"
        /\ ~SharedInPlace(t) => transportOf[object[t]] = result[t]
        /\ transportOf[object[t]] \in Transport \cup {NoTransport}
        /\ roundTripper[t] \in Transport \cup {NoTransport}
    BY <1>2, <1>3, <2>1 DEF Holds
  <2>3. CASE /\ stage' = [stage EXCEPT ![t] = "rejected"]
             /\ UNCHANGED roundTripper
    <3>1. roundTripper' = [roundTripper EXCEPT ![t] = roundTripper[t]]
      BY <1>2, <2>3
    <3> QED BY <1>9, <2>1, <2>2, <2>3, <3>1
  <2>4. CASE /\ stage' = [stage EXCEPT ![t] = "made"]
             /\ roundTripper' = [roundTripper EXCEPT ![t] = transportOf[object[t]]]
    BY <1>9, <2>1, <2>2, <2>4
  <2> QED BY <1>12, <2>3, <2>4 DEF NewForConfig
(* A caller that has not begun yet is given a config.                      *)
<1>13. ASSUME NEW t \in Callers, GetForRestConfig(t)
       PROVE  ClientInv'
  <2>1. PICK o \in Originals :
           /\ stage[t] = "none" /\ object[t] = t
           /\ object' = [object EXCEPT ![t] = t]
           /\ transportOf' = [transportOf EXCEPT ![t] = transportOf[o]]
           /\ UNCHANGED <<pc, result, inPlace, stage, roundTripper>>
    BY <1>13 DEF GetForRestConfig, Takes, CopyConfig, vars
  <2>2. object' = object
    BY <1>2, <2>1
  <2>3. ClientTypeOK'
    BY <1>1, <1>2, <2>1, <2>2 DEF ClientTypeOK, Objects
  <2>4. \A u \in Callers : Own(u)'
    BY <1>3, <2>1, <2>2 DEF Own
  <2>5. \A u \in Callers : SharedInPlace(u)' = SharedInPlace(u)
    BY <2>1, <2>2 DEF SharedInPlace
  <2>6. \A u \in Callers \ {t} : object[u] # t
    BY <1>3, OwnObject
  <2>7. \A u \in Callers \ {t} : transportOf'[object'[u]] = transportOf[object[u]]
    BY <1>2, <2>1, <2>2, <2>6
  <2>8. \A u \in Callers \ {t} : Holds(u)'
    BY <1>3, <2>1, <2>2, <2>5, <2>7 DEF Holds
  <2>9. Holds(t)'
    BY <2>1 DEF Holds
  <2> QED BY <2>3, <2>4, <2>8, <2>9 DEF ClientInv
<1>14. ASSUME NEW t \in Callers, ShareConfig(t)
       PROVE  ClientInv'
  <2>1. PICK o \in Originals :
           /\ stage[t] = "none" /\ object[t] = t
           /\ object' = [object EXCEPT ![t] = o]
           /\ inPlace' = [inPlace EXCEPT ![t] = TRUE]
           /\ UNCHANGED <<pc, result, transportOf, stage, roundTripper>>
    BY <1>14 DEF ShareConfig, Takes, vars
  <2>2. ClientTypeOK'
    BY <1>1, <1>2, <2>1 DEF ClientTypeOK, Objects
  <2>3. \A u \in Callers \ {t} : /\ object'[u] = object[u]
                                /\ inPlace'[u] = inPlace[u]
                                /\ object[u] # object[t]
    BY <1>2, <1>3, <2>1, OwnObject
  <2>4. object'[t] = o /\ inPlace'[t]
    BY <1>2, <2>1
  <2>5. \A u \in Callers : Own(u)'
    BY <1>3, <2>3, <2>4 DEF Own
  <2>6. \A u \in Callers \ {t} : SharedInPlace(u) => SharedInPlace(u)'
    BY <2>3 DEF SharedInPlace
  <2>7. \A u \in Callers \ {t} : Holds(u)'
    BY <1>3, <2>1, <2>3, <2>6 DEF Holds
  <2>8. Holds(t)'
    BY <2>1 DEF Holds
  <2> QED BY <2>2, <2>5, <2>7, <2>8 DEF ClientInv
<1>15. ASSUME NEW t \in Callers, New(t)
       PROVE  ClientInv'
  <2>1. UNCHANGED clientVars /\ Next
    BY <1>15 DEF New, handle, Next
  <2> QED BY <1>4, <2>1
<1>16. ASSUME NEW p \in Paths, Rewrite(p), UNCHANGED clientVars
       PROVE  ClientInv'
  <2>1. Next
    BY <1>16 DEF Next
  <2> QED BY <1>4, <1>16, <2>1
<1>17. CASE UNCHANGED <<vars, clientVars>>
  BY <1>4, <1>17
<1> QED BY <1>7, <1>8, <1>10, <1>11, <1>12, <1>13, <1>14, <1>15, <1>16, <1>17
        DEF ClientsNext

LEMMA ClientInvariant == ClientsSpec => []ClientInv
BY InitClientInv, StepClientInv, PTL DEF ClientsSpec

(* The cache and the clients are what ClientTypeOK says: in particular a   *)
(* caller that is done has a transport, of a config that was not refused.  *)
THEOREM ClientsTyped == ClientsSpec => []ClientTypeOK
<1>1. ClientInv => ClientTypeOK
  BY DEF ClientInv
<1> QED BY <1>1, ClientInvariant, PTL

(* A client that was made sends through the link its caller asked for,     *)
(* also when several callers work on copies of one rest.Config, or one     *)
(* works on it in place (pkg/rest, GetForRestConfig, GetNoCopyConfig).     *)
THEOREM ClientsUseTheirLink == ClientsSpec => []ThroughOwnLink
<1>1. ClientInv /\ LinkKept => ThroughOwnLink
  BY NoTransportAssumption
     DEF ClientInv, ClientTypeOK, TypeOK, Holds, LinkKept, ThroughOwnLink
<1> QED BY <1>1, ClientInvariant, ClientsUseTheCache, TransportOfOwnLink, PTL
=============================================================================
