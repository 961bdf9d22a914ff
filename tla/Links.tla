-------------------------------- MODULE Links -------------------------------
(***************************************************************************)
(* Which connectors a request reaches, and which caller their answers      *)
(* reach: the subjects of pkg/shared/connector.go, the queue groups of     *)
(* addSubscribers (pkg/cmds/run.go), and the NATS connection under them,   *)
(* from NewConnection (pkg/transport/nats.go) through reconnects to its    *)
(* end.                                                                    *)
(*                                                                         *)
(* Every link has a NATS account of its own, or all share one.  With       *)
(* accounts of their own, the server maps subjects between the hub's       *)
(* account and that of the link.                                           *)
(*                                                                         *)
(* A pod is one member of its queue group here, and an answer one message: *)
(* NatsProxy has the threads of a pod and the stream of an answer.         *)
(***************************************************************************)
EXTENDS Naturals, Sequences, FiniteSets

CONSTANTS
    Pods,         \* connector pods
    Links,        \* link IDs
    Controllers,  \* what a pod's name starts with: the name of its ReplicaSet
    Calls,        \* requests; each one draws a fresh xid
    Installations \* the links the pods may have been installed with

ASSUME LinksAssumption == Links # {}
ASSUME InstallationsAssumption == Installations \subseteq [Pods -> Links]

VARIABLES
    names,        \* "cross": CrossAccountNames, "same": SameAccountNames
    link,         \* per pod: the link it was installed with
    controller,   \* per pod
    server,       \* what a client that dials meets
    conn,         \* per pod: its NATS connection, "none" without a process
    sub,          \* per pod: its queue subscription
    call,         \* per call: "idle", "sent", "routed"
    target,       \* per call: the link it was sent to
    inbox,        \* per pod: requests it has and has not answered
    handlers,     \* per call: the pods it was given to (history)
    answers       \* per call: the answers its subscription got (history)

podVars  == <<conn, sub, inbox>>
callVars == <<call, target, handlers, answers>>
setting  == <<names, link, controller>>
vars     == <<setting, server, podVars, callVars>>

(* "overdue": NewConnection's context is done.  "rejected": reconnecting,  *)
(* and its credentials were refused once.  "closed": for good.             *)
Connections == {"none", "dialing", "overdue", "connected", "reconnecting",
                "rejected", "closed"}
Dialing      == {"dialing", "overdue"}
Reconnecting == {"reconnecting", "rejected"}

TypeOK ==
    /\ names \in {"cross", "same"}
    /\ link \in [Pods -> Links]
    /\ controller \in [Pods -> Controllers]
    /\ server \in {"ok", "unreachable", "refusing"}
    /\ conn \in [Pods -> Connections]
    /\ sub \in [Pods -> {"none", "buffered", "live", "unknown"}]
    /\ \A p \in Pods : sub[p] = "live" => conn[p] = "connected"
    /\ \A p \in Pods : sub[p] # "none" => conn[p] \notin Dialing \cup {"none"}
    /\ call \in [Calls -> {"idle", "sent", "routed"}]
    /\ target \in [Calls -> Links]
    /\ inbox \in [Pods -> SUBSET Calls]
    /\ handlers \in [Calls -> SUBSET Pods]
    /\ answers \in [Calls -> SUBSET (Calls \X Pods)]

Init ==
    /\ names \in {"cross", "same"}
    /\ link \in Installations
    /\ controller \in [Pods -> Controllers]
    /\ server = "ok"
    /\ conn = [p \in Pods |-> "none"]
    /\ sub = [p \in Pods |-> "none"]
    /\ call = [c \in Calls |-> "idle"]
    /\ target = [c \in Calls |-> CHOOSE l \in Links : TRUE]
    /\ inbox = [p \in Pods |-> {}]
    /\ handlers = [c \in Calls |-> {}]
    /\ answers = [c \in Calls |-> {}]

-----------------------------------------------------------------------------
(* Subjects, as sequences of tokens.                                       *)

ProxyHandlerSubjects_NoLink(l) == [hub |-> <<"handler">>, edge |-> <<"handler">>]
ProxyHandlerSubjects(l) ==
    [hub  |-> <<"handler", l>>,
     edge |-> IF names = "cross" THEN <<"handler">> ELSE <<"handler", l>>]

ProxyResponseSubjects_NoUID(l, c) ==
    [hub  |-> <<"resp", l>>,
     edge |-> IF names = "cross" THEN <<"resp">> ELSE <<"resp", l>>]
ProxyResponseSubjects(l, c) ==
    [hub  |-> <<"resp", l, c>>,
     edge |-> IF names = "cross" THEN <<"resp", c>> ELSE <<"resp", l, c>>]

(* The link's account imports the requests for it, and what it publishes   *)
(* on a response subject appears in the hub's account with the link in it. *)
Import(s, l) ==
    IF names = "cross" /\ s = <<"handler", l>> THEN <<"handler">> ELSE s
Export(s, l) ==
    IF names = "cross" /\ s[1] = "resp" THEN <<"resp", l>> \o Tail(s) ELSE s

(* The queue group of a pod: its namespace and the name of its controller. *)
QueueName_PodName(p) == p
QueueName(p) == controller[p]

-----------------------------------------------------------------------------
(* NewConnection.  A select on a ticker and a context: as long as both are *)
(* ready, either may be taken.                                             *)

Boot(p) ==
    /\ conn[p] = "none"
    /\ conn' = [conn EXCEPT ![p] = "dialing"]
    /\ UNCHANGED <<setting, server, sub, inbox, callVars>>

ContextDone_Never(p) == FALSE
ContextDone(p) ==
    /\ conn[p] = "dialing"
    /\ conn' = [conn EXCEPT ![p] = "overdue"]
    /\ UNCHANGED <<setting, server, sub, inbox, callVars>>

(* An attempt that fails leaves everything as it is.                       *)
Connect(p) ==
    /\ conn[p] \in Dialing
    /\ server = "ok"
    /\ conn' = [conn EXCEPT ![p] = "connected"]
    /\ UNCHANGED <<setting, server, sub, inbox, callVars>>

(* The process ends: os.Exit, a crash, or its pod is deleted.              *)
Gone(p) ==
    /\ conn' = [conn EXCEPT ![p] = "none"]
    /\ sub' = [sub EXCEPT ![p] = "none"]
    /\ inbox' = [inbox EXCEPT ![p] = {}]
    /\ UNCHANGED <<setting, server, callVars>>

(* <-ctx.Done(): NewConnection returns an error and Run exits.             *)
GiveUp(p) == conn[p] = "overdue" /\ Gone(p)

Exit(p) == conn[p] # "none" /\ Gone(p)

-----------------------------------------------------------------------------
(* Subscriptions and reconnects.                                           *)

QueueSubscribe_Early(p) ==
    /\ sub[p] = "none"
    /\ conn[p] # "none"
    /\ sub' = [sub EXCEPT ![p] = "buffered"]
    /\ UNCHANGED <<setting, server, conn, inbox, callVars>>

(* QueueSubscribe: the SUB goes to the connection's buffer, unless it is   *)
(* reconnecting: then a resend will do.  On a closed connection it fails,  *)
(* and Run exits.                                                          *)
QueueSubscribe(p) ==
    /\ sub[p] = "none"
    /\ \/ /\ conn[p] = "connected"
          /\ sub' = [sub EXCEPT ![p] = "buffered"]
          /\ UNCHANGED <<setting, server, conn, inbox, callVars>>
       \/ /\ conn[p] \in Reconnecting
          /\ sub' = [sub EXCEPT ![p] = "unknown"]
          /\ UNCHANGED <<setting, server, conn, inbox, callVars>>
       \/ conn[p] = "closed" /\ Gone(p)

Flush(p) ==
    /\ sub[p] = "buffered"
    /\ conn[p] = "connected"
    /\ sub' = [sub EXCEPT ![p] = "live"]
    /\ UNCHANGED <<setting, server, conn, inbox, callVars>>

(* The server drops the subscription of a connection that breaks, the      *)
(* client keeps it.                                                        *)
LoseSubscription(p) ==
    sub' = [sub EXCEPT ![p] = IF @ = "none" THEN "none" ELSE "unknown"]

(* The process stays, with nothing that listens.                           *)
Close(p) ==
    /\ conn' = [conn EXCEPT ![p] = "closed"]
    /\ LoseSubscription(p)
    /\ inbox' = [inbox EXCEPT ![p] = {}]
    /\ UNCHANGED <<setting, server, callVars>>

(* processOpErr starts doReconnect, with the refusal of the credentials    *)
(* noted if the server sent one.                                           *)
Break(p) ==
    /\ conn[p] = "connected"
    /\ \/ conn' = [conn EXCEPT ![p] = "reconnecting"]
       \/ server = "refusing" /\ conn' = [conn EXCEPT ![p] = "rejected"]
    /\ LoseSubscription(p)
    /\ UNCHANGED <<setting, server, inbox, callVars>>

(* processErr: an error it does not know closes the connection.            *)
ServerError(p) == conn[p] = "connected" /\ Close(p)

resendSubscriptions_Missing(p) == sub[p]
resendSubscriptions(p) == IF sub[p] = "none" THEN "none" ELSE "live"

Reconnect(p) ==
    /\ conn[p] \in Reconnecting
    /\ server = "ok"
    /\ conn' = [conn EXCEPT ![p] = "connected"]
    /\ sub' = [sub EXCEPT ![p] = resendSubscriptions(p)]
    /\ UNCHANGED <<setting, server, inbox, callVars>>

(* processAuthError: the second refusal since the last connection ends     *)
(* doReconnect, which closes it; MaxReconnects(-1) has no say in that.     *)
Reject(p) ==
    /\ conn[p] \in Reconnecting
    /\ server = "refusing"
    /\ \/ conn[p] = "rejected" /\ Close(p)
       \/ /\ conn[p] = "reconnecting"
          /\ conn' = [conn EXCEPT ![p] = "rejected"]
          /\ UNCHANGED <<setting, server, sub, inbox, callVars>>

(* Servers go away and come back, credentials expire and are renewed.      *)
Environment ==
    /\ server' \in {"ok", "unreachable", "refusing"} \ {server}
    /\ UNCHANGED <<setting, podVars, callVars>>

-----------------------------------------------------------------------------
(* Requests and answers.                                                   *)

(* Proxy: subscribe to the response subject, publish the request.          *)
Proxy(c) ==
    /\ call[c] = "idle"
    /\ call' = [call EXCEPT ![c] = "sent"]
    /\ \E l \in Links : target' = [target EXCEPT ![c] = l]
    /\ UNCHANGED <<setting, server, podVars, handlers, answers>>

(* Whose subscription the server knows, in the account and on the subject  *)
(* the request goes to.                                                    *)
Interested(c) ==
    {p \in Pods :
       /\ sub[p] = "live"
       /\ Import(ProxyHandlerSubjects(target[c]).hub, link[p])
            = ProxyHandlerSubjects(link[p]).edge}

(* One member of each queue group gets the request.                        *)
Route(c) ==
    /\ call[c] = "sent"
    /\ call' = [call EXCEPT ![c] = "routed"]
    /\ \E chosen \in SUBSET Interested(c) :
         /\ {QueueName(p) : p \in chosen} = {QueueName(p) : p \in Interested(c)}
         /\ \A p, q \in chosen : QueueName(p) = QueueName(q) => p = q
         /\ handlers' = [handlers EXCEPT ![c] = chosen]
         /\ inbox' = [p \in Pods |->
                        IF p \in chosen THEN inbox[p] \cup {c} ELSE inbox[p]]
    /\ UNCHANGED <<setting, server, conn, sub, target, answers>>

(* The member publishes its answer on the reply subject of the request: it *)
(* reaches whoever listens there.                                          *)
Respond(p, c) ==
    /\ c \in inbox[p]
    /\ conn[p] = "connected"
    /\ inbox' = [inbox EXCEPT ![p] = @ \ {c}]
    /\ LET reply == Export(ProxyResponseSubjects(target[c], c).edge, link[p])
       IN  answers' = [d \in Calls |->
               IF call[d] # "idle" /\ ProxyResponseSubjects(target[d], d).hub = reply
               THEN answers[d] \cup {<<c, p>>} ELSE answers[d]]
    /\ UNCHANGED <<setting, server, conn, sub, call, target, handlers>>

Next ==
    \/ \E p \in Pods :
         \/ Boot(p) \/ ContextDone(p) \/ Connect(p) \/ GiveUp(p) \/ Exit(p)
         \/ QueueSubscribe(p) \/ Flush(p) \/ Break(p) \/ ServerError(p)
         \/ Reconnect(p) \/ Reject(p)
         \/ \E c \in Calls : Respond(p, c)
    \/ \E c \in Calls : Proxy(c) \/ Route(c)
    \/ Environment

Spec == Init /\ [][Next]_vars

(* Kubernetes starts pods, time passes, goroutines go on.  The ticker of   *)
(* NewConnection fires before its context is done, so that an attempt is   *)
(* made each time: a connector that is started again and again while the   *)
(* server is there gets through (strong fairness).                         *)
Fairness ==
    \A p \in Pods :
        /\ WF_vars(Boot(p))
        /\ WF_vars(ContextDone(p))
        /\ SF_vars(Connect(p))
        /\ WF_vars(GiveUp(p))
        /\ WF_vars(QueueSubscribe(p))
        /\ WF_vars(Flush(p))
        /\ WF_vars(Reconnect(p))

FairSpec == Spec /\ Fairness

-----------------------------------------------------------------------------
(* A request is given only to connectors of its link, although they all    *)
(* subscribe to one subject with CrossAccountNames (shared/connector.go).  *)
OwnLinkOnly == \A c \in Calls : \A p \in handlers[c] : link[p] = target[c]

(* What arrives on the response subject of a call is an answer to it, from *)
(* a connector it was given to (nats.go, Proxy: hubRespSub, edgeRespSub).  *)
OwnAnswer ==
    \A c \in Calls : \A a \in answers[c] : a[1] = c /\ a[2] \in handlers[c]

(* "Listen for a single response" (nats.go, Proxy).  Two would be mixed    *)
(* into one stream.                                                        *)
SingleResponse == \A c \in Calls : Cardinality(answers[c]) <= 1

(* NewConnection returns, whatever the server does: its loop ends.         *)
DialEnds == \A p \in Pods : conn[p] \in Dialing ~> conn[p] \notin Dialing

(* From some time on, p's server is there and nothing stops its process.   *)
Stable(p) == <>[](server = "ok") /\ <>[][~Exit(p)]_vars

(* A connector whose server stays there is subscribed again, however often *)
(* its connection breaks, and whatever happened before; unless the NATS    *)
(* client closed its connection, which Run does not notice (nats.go,       *)
(* NewConnection: MaxReconnects(-1), and no ClosedHandler).                *)
ServedAgain ==
    \A p \in Pods : Stable(p) => []<>(sub[p] = "live" \/ conn[p] = "closed")
=============================================================================
