---------------------------- MODULE Registration ---------------------------
(***************************************************************************)
(* How a connector comes up and registers (pkg/cmds/run.go: Run and        *)
(* callback.Start), and the server's side of it (the handlers genLink and  *)
(* handleCallback of cmd/demo-server/handlers.go).                         *)
(*                                                                         *)
(* The server hands out a link with a limited lifetime and keeps the       *)
(* kubeconfig it was asked for with; the user installs connectors with the *)
(* link, in one cluster or in several.  A connector connects to NATS,      *)
(* subscribes, and posts a callback.  While it handles that, the server    *)
(* reads a cluster's UID through NATS: the request goes to any member of   *)
(* the link's queue group, which dials the API server that the kubeconfig  *)
(* names.  The callback is refused when the UID is not the one it claims.  *)
(* A connector whose callback fails exits and is started again.  Handling  *)
(* a callback changes nothing on the server, so the callback of a process  *)
(* that has gone is forgotten.                                             *)
(*                                                                         *)
(* A request through NATS is one question and one answer here.             *)
(***************************************************************************)
EXTENDS Naturals

CONSTANTS
    Pods,       \* connector pods
    Clusters,
    ClusterOf,  \* the cluster of each pod
    Links,      \* link IDs
    KubeConfigs, \* kubeconfigs that links are asked for with
    NoKubeConfig,
    APIServer,  \* the cluster whose API server one names, by whence it is dialled
    Threads,    \* --nats-handler-count
    Lifetime,   \* ConnectorLinkLifetime
    MaxTime,    \* bound: time considered
    Nobody      \* no member of the queue group

ASSUME ClustersAssumption ==
    /\ ClusterOf \in [Pods -> Clusters]
    /\ APIServer \in [KubeConfigs -> [Clusters -> Clusters]]
ASSUME TimesAssumption ==
    /\ Threads \in Nat \ {0}
    /\ Lifetime \in Nat
    /\ MaxTime \in Nat

VARIABLES
    now,
    link,      \* per pod: the link it was installed with
    issued,    \* links generated
    notAfter,  \* per link: LinkData.NotAfter
    kubeConfig, \* per link: LinkData.KubeConfig
    known,     \* links in the server's map
    pc,        \* per pod: how far its process is
    asked,     \* per pod: QueueSubscribe calls made
    live,      \* per pod: those the NATS server has seen
    at,        \* per pod: how far its callback is, on the server
    by,        \* per pod: the member that was sent the server's request for it
    posted     \* per pod: when it posted its callback (history)

podVars    == <<pc, asked, live>>
serverVars == <<issued, notAfter, kubeConfig, known>>
vars       == <<now, link, podVars, serverVars, at, by, posted>>

TypeOK ==
    /\ now \in 0..MaxTime
    /\ link \in [Pods -> Links]
    /\ issued \subseteq Links
    /\ known \subseteq issued
    /\ notAfter \in [Links -> 0..(MaxTime + Lifetime)]
    /\ kubeConfig \in [Links -> KubeConfigs \cup {NoKubeConfig}]
    /\ \A l \in issued : kubeConfig[l] \in KubeConfigs
    /\ pc \in [Pods -> {"down", "starting", "connected", "running", "ready"}]
    /\ asked \in [Pods -> 0..Threads]
    /\ live \in [Pods -> 0..Threads]
    /\ \A p \in Pods : live[p] <= asked[p]
    /\ at \in [Pods -> {"none", "posted", "checked", "asked", "unheard",
                        "ok", "failed"}]
    /\ by \in [Pods -> Pods \cup {Nobody}]
    /\ posted \in [Pods -> 0..MaxTime]

Init ==
    /\ now = 0
    /\ link \in [Pods -> Links]
    /\ issued = {}
    /\ notAfter = [l \in Links |-> 0]
    /\ kubeConfig = [l \in Links |-> NoKubeConfig]
    /\ known = {}
    /\ pc = [p \in Pods |-> "down"]
    /\ asked = [p \in Pods |-> 0]
    /\ live = [p \in Pods |-> 0]
    /\ at = [p \in Pods |-> "none"]
    /\ by = [p \in Pods |-> Nobody]
    /\ posted = [p \in Pods |-> 0]

-----------------------------------------------------------------------------
(* Connector.                                                              *)

(* Kubernetes starts the process.                                          *)
Boot(p) ==
    /\ pc[p] = "down"
    /\ link[p] \in issued
    /\ pc' = [pc EXCEPT ![p] = "starting"]
    /\ UNCHANGED <<now, link, asked, live, serverVars, at, by, posted>>

(* Manager, cluster UID and NATS connection.                               *)
Connect(p) ==
    /\ pc[p] = "starting"
    /\ pc' = [pc EXCEPT ![p] = "connected"]
    /\ UNCHANGED <<now, link, asked, live, serverVars, at, by, posted>>

(* The loop over the handler threads.                                      *)
MoreThreads_OneTooMany(p) == asked[p] <= Threads
MoreThreads(p) == asked[p] < Threads

(* One addSubscribers; the SUB is written to the connection's buffer.      *)
AddSubscribers(p) ==
    /\ pc[p] = "connected"
    /\ MoreThreads(p)
    /\ asked' = [asked EXCEPT ![p] = @ + 1]
    /\ UNCHANGED <<now, link, pc, live, serverVars, at, by, posted>>

(* The connection's flusher sends what is in the buffer.                   *)
Flush(p) ==
    /\ live[p] < asked[p]
    /\ live' = [live EXCEPT ![p] = asked[p]]
    /\ UNCHANGED <<now, link, pc, asked, serverVars, at, by, posted>>

(* The loop has ended without an error.                                    *)
Subscribed_Early(p) == TRUE
Subscribed(p) == asked[p] = Threads

(* mgr.Start runs callback.Start, which posts.                             *)
Start(p) ==
    /\ pc[p] = "connected"
    /\ Subscribed(p)
    /\ pc' = [pc EXCEPT ![p] = "running"]
    /\ at' = [at EXCEPT ![p] = "posted"]
    /\ posted' = [posted EXCEPT ![p] = now]
    /\ UNCHANGED <<now, link, asked, live, serverVars, by>>

(* The process ends: os.Exit after an error, a signal followed by Drain,   *)
(* which returns at once, or a crash.  Its subscriptions end with it, and  *)
(* whoever waits for its answer will not get one.                          *)
Gone(p) ==
    /\ pc' = [pc EXCEPT ![p] = "down"]
    /\ asked' = [asked EXCEPT ![p] = 0]
    /\ live' = [live EXCEPT ![p] = 0]
    /\ at' = [r \in Pods |->
                IF r = p THEN "none"
                ELSE IF at[r] = "asked" /\ by[r] = p THEN "unheard" ELSE at[r]]
    /\ by' = [by EXCEPT ![p] = Nobody]
    /\ UNCHANGED <<now, link, serverVars, posted>>

Exit(p) == pc[p] # "down" /\ Gone(p)

(* The answer to the callback: any status but 200 is an error, which ends  *)
(* the manager and with it the process.                                    *)
CallbackFailed_Ignored(p) == FALSE
CallbackFailed(p) == pc[p] = "running" /\ at[p] = "failed" /\ Gone(p)

CallbackOk(p) ==
    /\ pc[p] = "running"
    /\ at[p] = "ok"
    /\ pc' = [pc EXCEPT ![p] = "ready"]
    /\ UNCHANGED <<now, link, asked, live, serverVars, at, by, posted>>

-----------------------------------------------------------------------------
(* Server.                                                                 *)

(* The time is taken before the scripts are generated, which may take      *)
(* long; the ID is new.                                                    *)
genLink(l) ==
    /\ l \notin issued
    /\ issued' = issued \cup {l}
    /\ known' = known \cup {l}
    /\ \E t \in 0..now : notAfter' = [notAfter EXCEPT ![l] = t + Lifetime]
    /\ \E k \in KubeConfigs : kubeConfig' = [kubeConfig EXCEPT ![l] = k]
    /\ UNCHANGED <<now, link, podVars, at, by, posted>>

Expired_Late(l) == now > notAfter[l] + 1
Expired(l) == now > notAfter[l]

(* The first part of handleCallback: the link is copied from the map and   *)
(* its lifetime tested.                                                    *)
LookUp(p) ==
    /\ at[p] = "posted"
    /\ at' = [at EXCEPT ![p] =
                IF link[p] \notin known \/ Expired(link[p])
                THEN "failed" ELSE "checked"]
    /\ UNCHANGED <<now, link, podVars, serverVars, by, posted>>

(* Members of the link's queue group.                                      *)
Serving(l) == {q \in Pods : link[q] = l /\ live[q] > 0}

(* The request for the cluster's UID goes to one member.                   *)
ReadClusterUID(p) ==
    /\ at[p] = "checked"
    /\ \E q \in Serving(link[p]) : by' = [by EXCEPT ![p] = q]
    /\ at' = [at EXCEPT ![p] = "asked"]
    /\ UNCHANGED <<now, link, podVars, serverVars, posted>>

(* Nobody is subscribed.  With CrossAccountNames nothing tells the hub.    *)
NobodyHears(p) ==
    /\ at[p] = "checked"
    /\ Serving(link[p]) = {}
    /\ at' = [at EXCEPT ![p] = "unheard"]
    /\ UNCHANGED <<now, link, podVars, serverVars, by, posted>>

(* The cluster whose UID is read for the link l through the member q,      *)
(* which dials the API server of the link's kubeconfig from where it is.   *)
ClusterRead(l, q) == APIServer[kubeConfig[l]][ClusterOf[q]]

(* The UID that was read is the one the callback claims: its own cluster's.*)
Matches_Anything(p) == TRUE
Matches(p) == ClusterRead(link[p], by[p]) = ClusterOf[p]

(* The member answers, and the two UIDs are compared.  What handleCallback *)
(* then stores, it stores in its copy of the link.                         *)
Answer(p) ==
    /\ at[p] = "asked"
    /\ at' = [at EXCEPT ![p] = IF Matches(p) THEN "ok" ELSE "failed"]
    /\ UNCHANGED <<now, link, podVars, serverVars, by, posted>>

(* No client can be made of the kubeconfig, or the request fails.          *)
ReadFails(p) ==
    /\ at[p] \in {"checked", "asked"}
    /\ at' = [at EXCEPT ![p] = "failed"]
    /\ UNCHANGED <<now, link, podVars, serverVars, by, posted>>

(* The map is in memory only; posts that are not answered yet fail.        *)
ServerRestarts ==
    /\ known' = {}
    /\ at' = [p \in Pods |->
                IF at[p] \in {"posted", "checked", "asked", "unheard"}
                THEN "failed" ELSE at[p]]
    /\ UNCHANGED <<now, link, podVars, issued, notAfter, kubeConfig, by, posted>>

Tick ==
    /\ now < MaxTime
    /\ now' = now + 1
    /\ UNCHANGED <<link, podVars, serverVars, at, by, posted>>

-----------------------------------------------------------------------------
Connector(p) ==
    \/ Connect(p) \/ AddSubscribers(p) \/ Start(p)
    \/ CallbackFailed(p) \/ CallbackOk(p)

Handler(p) == LookUp(p) \/ ReadClusterUID(p) \/ NobodyHears(p)

Next ==
    \/ \E p \in Pods :
         \/ Boot(p) \/ Connector(p) \/ Flush(p) \/ Exit(p)
         \/ Handler(p) \/ Answer(p) \/ ReadFails(p)
    \/ \E l \in Links : genLink(l)
    \/ ServerRestarts
    \/ Tick

Spec == Init /\ [][Next]_vars

(* The processes, the handlers of the server and the flusher keep running; *)
(* a member that is up answers, as no message is lost here (CallReturns of *)
(* NatsProxy).                                                             *)
Fairness ==
    \A p \in Pods :
        /\ WF_vars(Connector(p))
        /\ WF_vars(Flush(p))
        /\ WF_vars(Handler(p))
        /\ WF_vars(Answer(p))

FairSpec == Spec /\ Fairness

-----------------------------------------------------------------------------
(* Properties.                                                             *)

(* A connector takes itself for registered only if some connector of the   *)
(* same link read the UID of its cluster for the server, from where the    *)
(* link's kubeconfig leads, even if another cluster was installed with     *)
(* that link, pods came and went, or the server was restarted on the way   *)
(* (handleCallback's comparison of the two IDs; the subject holds the      *)
(* link).  Which connector that was, is not said: it may be in another     *)
(* cluster, where the kubeconfig names an address that can be dialled.     *)
RegisteredIsReached ==
    \A p \in Pods : pc[p] = "ready" =>
        \E q \in Pods :
            /\ by[p] = q
            /\ link[q] = link[p]
            /\ ClusterRead(link[p], q) = ClusterOf[p]

(* A callback posted after its link has expired never registers, however   *)
(* long the handling takes and whatever the server still has of the link   *)
(* (handleCallback, now.After(l.NotAfter)).                                *)
StaleLinkRefused ==
    \A p \in Pods : pc[p] = "ready" => posted[p] <= notAfter[link[p]]

(* The server's request, made while it handles a callback, finds nobody    *)
(* only if what the connector subscribed to is still in its buffer: the    *)
(* callback never overtakes the subscriptions themselves (run.go: the loop *)
(* over addSubscribers comes before mgr.Add and mgr.Start; QueueSubscribe  *)
(* does not flush).                                                        *)
UnheardOnlyIfBuffered ==
    [][\A p \in Pods :
          at[p] = "checked" /\ at'[p] = "unheard" => live[p] < asked[p]]_vars

(* A registration comes to an end, one way or the other, unless nobody was *)
(* subscribed to hear the server's request or the member that heard it is  *)
(* gone: as no time limit ends a request (nats.go, ErrTimeout), these are  *)
(* the cases in which the callback waits for ever.                         *)
RegistrationEnds ==
    \A p \in Pods :
        pc[p] = "running" ~> (pc[p] # "running" \/ at[p] = "unheard")
=============================================================================
