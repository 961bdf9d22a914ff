------------------------- MODULE RegistrationProofs ------------------------
(* Theorems about Registration, for every set of pods, clusters and links, *)
(* every number of handler threads and every link lifetime.                *)
EXTENDS Registration, TLAPS

USE ClustersAssumption, TimesAssumption

(* What a callback has behind it at each stage of its handling.  None of   *)
(* the three safety properties is inductive: they speak of a connector     *)
(* that is ready, and what makes them true happened when its callback was  *)
(* looked up, sent on and answered.                                        *)
Stages ==
    \A p \in Pods :
        /\ at[p] # "none" => pc[p] \in {"running", "ready"}
        /\ at[p] # "none" => asked[p] = Threads
        /\ pc[p] = "ready" => at[p] = "ok"

Reached ==
    \A p \in Pods :
        /\ at[p] \in {"asked", "ok"} => by[p] \in Pods /\ link[by[p]] = link[p]
        /\ at[p] = "ok" => ClusterRead(link[p], by[p]) = ClusterOf[p]

InTime ==
    \A p \in Pods :
        /\ posted[p] <= now
        /\ at[p] \in {"checked", "asked", "ok"} =>
               link[p] \in issued /\ posted[p] <= notAfter[link[p]]

Inv == TypeOK /\ Stages /\ Reached /\ InTime

(* The initial state.                                                      *)
LEMMA InitInv == Init => Inv
BY DEF Init, Inv, TypeOK, Stages, Reached, InTime

(* A process that goes away takes its callback and its answers along.      *)
LEMMA GoneInv ==
    ASSUME Inv, NEW p \in Pods, Gone(p)
    PROVE  Inv'
<1>1. TypeOK'
  BY DEF Inv, Gone, TypeOK, serverVars
<1>2. Stages'
  BY DEF Inv, Gone, TypeOK, Stages
<1>3. Reached'
  BY DEF Inv, Gone, TypeOK, Reached, ClusterRead, serverVars
<1>4. InTime'
  BY DEF Inv, Gone, TypeOK, InTime, serverVars
<1> QED BY <1>1, <1>2, <1>3, <1>4 DEF Inv

(* Every step of a connector keeps the invariant.                          *)
LEMMA ConnectorInv ==
    ASSUME Inv, NEW p \in Pods,
           Boot(p) \/ Connector(p) \/ Flush(p) \/ Exit(p)
    PROVE  Inv'
<1> USE DEF Inv, TypeOK, Stages, Reached, InTime, ClusterRead, serverVars
<1>1. CASE Boot(p)
  BY <1>1 DEF Boot
<1>2. CASE Connect(p)
  BY <1>2 DEF Connect
<1>3. CASE AddSubscribers(p)
  BY <1>3 DEF AddSubscribers, MoreThreads
<1>4. CASE Start(p)
  BY <1>4 DEF Start, Subscribed
<1>5. CASE CallbackFailed(p)
  BY <1>5, GoneInv DEF CallbackFailed
<1>6. CASE CallbackOk(p)
  BY <1>6 DEF CallbackOk
<1>7. CASE Flush(p)
  BY <1>7 DEF Flush
<1>8. CASE Exit(p)
  BY <1>8, GoneInv DEF Exit
<1> QED BY <1>1, <1>2, <1>3, <1>4, <1>5, <1>6, <1>7, <1>8 DEF Connector

(* Every step in the handling of a callback keeps the invariant.           *)
LEMMA HandlerInv ==
    ASSUME Inv, NEW p \in Pods, Handler(p) \/ Answer(p) \/ ReadFails(p)
    PROVE  Inv'
<1> USE DEF Inv, TypeOK, Stages, Reached, InTime, ClusterRead, serverVars, podVars
<1>1. CASE LookUp(p)
  BY <1>1 DEF LookUp, Expired
<1>2. CASE ReadClusterUID(p)
  BY <1>2 DEF ReadClusterUID, Serving
<1>3. CASE NobodyHears(p)
  BY <1>3 DEF NobodyHears
<1>4. CASE Answer(p)
  BY <1>4 DEF Answer, Matches
<1>5. CASE ReadFails(p)
  BY <1>5 DEF ReadFails
<1> QED BY <1>1, <1>2, <1>3, <1>4, <1>5 DEF Handler

(* The invariant holds in every reachable state.                           *)
LEMMA Invariant == Spec => []Inv
<1>1. Inv /\ [Next]_vars => Inv'
  <2> SUFFICES ASSUME Inv, [Next]_vars
               PROVE  Inv'
    OBVIOUS
  <2> USE DEF Inv, TypeOK, Stages, Reached, InTime, ClusterRead
  <2>1. ASSUME NEW l \in Links, genLink(l)
        PROVE  Inv'
    BY <2>1 DEF genLink, podVars
  <2>2. CASE ServerRestarts
    BY <2>2 DEF ServerRestarts, podVars
  <2>3. CASE Tick
    BY <2>3 DEF Tick, podVars, serverVars
  <2>4. CASE UNCHANGED vars
    BY <2>4 DEF vars, podVars, serverVars
  <2> QED BY <2>1, <2>2, <2>3, <2>4, ConnectorInv, HandlerInv DEF Next
<1> QED BY InitInv, <1>1, PTL DEF Spec

-----------------------------------------------------------------------------
(* The state is well typed; no connector has more subscriptions than       *)
(* handler threads, and the server knows no link it has not issued.        *)
THEOREM TypeCorrect == Spec => []TypeOK
<1>1. Inv => TypeOK
  BY DEF Inv
<1> QED BY Invariant, <1>1, PTL

(* Who is registered had the UID of its cluster read through a connector   *)
(* of its link, at the API server of the link's kubeconfig, whatever       *)
(* addresses mean where (handleCallback's comparison).                     *)
THEOREM RegistrationVerified == Spec => []RegisteredIsReached
<1>1. Inv => RegisteredIsReached
  BY DEF Inv, Stages, Reached, RegisteredIsReached
<1> QED BY Invariant, <1>1, PTL

(* No callback that was posted after its link had expired registers        *)
(* (handleCallback's test of NotAfter).                                    *)
THEOREM ExpiredLinkNeverRegisters == Spec => []StaleLinkRefused
<1>1. Inv => StaleLinkRefused
  BY DEF Inv, Stages, InTime, StaleLinkRefused
<1> QED BY Invariant, <1>1, PTL

(* What that comes to depends on the kubeconfig.  If its address means the *)
(* cluster of whoever dials it, a connector of the registered one's own    *)
(* cluster has been reached; if it means one API server from everywhere,   *)
(* the connectors that register with the link are all of one cluster.      *)
Local(k)     == \A c \in Clusters : APIServer[k][c] = c
OneServer(k) == \A c, d \in Clusters : APIServer[k][c] = APIServer[k][d]

OwnClusterReached ==
    \A p \in Pods :
        pc[p] = "ready" /\ Local(kubeConfig[link[p]])
            => ClusterOf[by[p]] = ClusterOf[p]

OneClusterPerLink ==
    \A p, q \in Pods :
        pc[p] = "ready" /\ pc[q] = "ready" /\ link[p] = link[q]
            /\ OneServer(kubeConfig[link[p]])
                => ClusterOf[p] = ClusterOf[q]

(* Registered connectors and their clusters (handleCallback).              *)
THEOREM RegistrationMeans == Spec => [](OwnClusterReached /\ OneClusterPerLink)
<1>1. Inv => OwnClusterReached
  BY DEF Inv, Stages, Reached, ClusterRead, OwnClusterReached, Local
<1>2. Inv => OneClusterPerLink
  <2> SUFFICES ASSUME Inv, NEW p \in Pods, NEW q \in Pods,
                      pc[p] = "ready", pc[q] = "ready", link[p] = link[q],
                      OneServer(kubeConfig[link[p]])
               PROVE  ClusterOf[p] = ClusterOf[q]
    BY DEF OneClusterPerLink
  <2>1. /\ ClusterRead(link[p], by[p]) = ClusterOf[p] /\ by[p] \in Pods
        /\ ClusterRead(link[p], by[q]) = ClusterOf[q] /\ by[q] \in Pods
    BY DEF Inv, Stages, Reached
  <2> QED BY <2>1 DEF ClusterRead, OneServer
<1> QED BY Invariant, <1>1, <1>2, PTL

(* The server's request for a callback goes unheard only where the SUBs of *)
(* the connector itself are still in its buffer (the order of the calls in *)
(* Run).                                                                   *)
THEOREM CallbackComesLast == Spec => UnheardOnlyIfBuffered
<1> DEFINE Ok(p) == at[p] = "checked" /\ at'[p] = "unheard" => live[p] < asked[p]
<1>1. ASSUME Inv, Next, NEW p \in Pods
      PROVE  Ok(p)
  <2> SUFFICES ASSUME at[p] = "checked", at'[p] = "unheard"
               PROVE  live[p] < asked[p]
    OBVIOUS
  <2> USE DEF Inv, TypeOK
  <2>1. ASSUME NEW q \in Pods, NobodyHears(q)
        PROVE  live[p] < asked[p]
    <3>1. p = q
      BY <2>1 DEF NobodyHears
    <3>2. p \notin Serving(link[p])
      BY <2>1, <3>1 DEF NobodyHears
    <3>3. ~(live[p] > 0)
      BY <3>2 DEF Serving
    <3>4. asked[p] = Threads /\ Threads \in Nat \ {0} /\ live[p] \in 0..Threads
      BY <1>1 DEF Stages
    <3> QED BY <3>3, <3>4
  <2>2. ASSUME NEW q \in Pods, Gone(q)
        PROVE  FALSE
    BY <2>2 DEF Gone
  <2>3. ASSUME NEW q \in Pods,
               \/ Boot(q) \/ Connect(q) \/ AddSubscribers(q) \/ Start(q)
               \/ CallbackOk(q) \/ Flush(q)
        PROVE  FALSE
    BY <1>1, <2>3 DEF Boot, Connect, AddSubscribers, Start, CallbackOk, Flush, Inv, TypeOK
  <2>4. ASSUME NEW q \in Pods,
               LookUp(q) \/ ReadClusterUID(q) \/ Answer(q) \/ ReadFails(q)
        PROVE  FALSE
    BY <1>1, <2>4 DEF LookUp, ReadClusterUID, Answer, ReadFails
  <2>5. ASSUME (\E l \in Links : genLink(l)) \/ ServerRestarts \/ Tick
        PROVE  FALSE
    BY <2>5 DEF genLink, ServerRestarts, Tick
  <2> QED BY <1>1, <2>1, <2>2, <2>3, <2>4, <2>5
          DEF Next, Connector, Handler, CallbackFailed, Exit
<1>2. Inv /\ [Next]_vars
        => [\A p \in Pods : at[p] = "checked" /\ at'[p] = "unheard"
                                => live[p] < asked[p]]_vars
  BY <1>1
<1> QED BY Invariant, <1>2, PTL DEF Spec, UnheardOnlyIfBuffered
=============================================================================
