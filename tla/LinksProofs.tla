----------------------------- MODULE LinksProofs ----------------------------
(* Theorems about Links, for any number of pods, links, controllers and    *)
(* calls.                                                                  *)
EXTENDS Links, FiniteSetTheorems, SequenceTheorems, TLAPS

USE LinksAssumption, InstallationsAssumption

-----------------------------------------------------------------------------
(* Subjects.                                                               *)

(* A connector subscribes where the requests for its own link arrive, and  *)
(* no others, whether links share an account or not.                       *)
LEMMA HandlerSubjects ==
    ASSUME NEW k, NEW l,
           Import(ProxyHandlerSubjects(k).hub, l) = ProxyHandlerSubjects(l).edge
    PROVE  k = l
BY DEF Import, ProxyHandlerSubjects

LEMMA ThreeTokens ==
    ASSUME NEW a, NEW b, NEW c
    PROVE  <<a, b>> \o <<c>> = <<a, b, c>>
<1> DEFINE S == {a, b, c}
           r == <<a, b>>
           s == <<c>>
           t == <<a, b, c>>
<1>1. r \in Seq(S) /\ s \in Seq(S) /\ t \in Seq(S)
  OBVIOUS
<1>2. /\ Len(r) = 2 /\ Len(s) = 1 /\ Len(t) = 3
      /\ r[1] = a /\ r[2] = b /\ s[1] = c /\ t[1] = a /\ t[2] = b /\ t[3] = c
  OBVIOUS
<1> HIDE DEF r, s, t, S
<1>3. /\ r \o s \in Seq(S)
      /\ Len(r \o s) = Len(r) + Len(s)
      /\ \A i \in 1 .. Len(r) + Len(s) :
            (r \o s)[i] = IF i <= Len(r) THEN r[i] ELSE s[i - Len(r)]
  BY <1>1, ConcatProperties
<1>4. Len(r \o s) = 3 /\ \A i \in 1 .. 3 : (r \o s)[i] = t[i]
  <2>1. \A i \in 1 .. 3 : i = 1 \/ i = 2 \/ i = 3
    OBVIOUS
  <2>2. (r \o s)[1] = a /\ (r \o s)[2] = b /\ (r \o s)[3] = c
    BY <1>2, <1>3
  <2> QED BY <1>2, <1>3, <2>1, <2>2
<1>5. r \o s = t
  BY <1>1, <1>2, <1>3, <1>4, SeqEqual
<1> QED BY <1>5 DEF r, s, t

(* What a connector of a link answers a call on appears in the hub's       *)
(* account with that link.                                                 *)
LEMMA ExportedReply ==
    ASSUME NEW k, NEW c
    PROVE  Export(ProxyResponseSubjects(k, c).edge, k) = <<"resp", k, c>>
<1>1. CASE names = "cross"
  <2>1. ProxyResponseSubjects(k, c).edge = <<"resp", c>>
    BY <1>1 DEF ProxyResponseSubjects
  <2>2. Tail(<<"resp", c>>) = <<c>>
    OBVIOUS
  <2>3. <<"resp", k>> \o <<c>> = <<"resp", k, c>>
    BY ThreeTokens
  <2> QED BY <1>1, <2>1, <2>2, <2>3 DEF Export
<1>2. CASE names # "cross"
  BY <1>2 DEF Export, ProxyResponseSubjects
<1> QED BY <1>1, <1>2

(* Calls have response subjects of their own.                              *)
LEMMA ResponseSubjects ==
    ASSUME NEW k, NEW l, NEW c, NEW d,
           ProxyResponseSubjects(l, d).hub = Export(ProxyResponseSubjects(k, c).edge, k)
    PROVE  d = c
<1>1. <<"resp", l, d>> = <<"resp", k, c>>
  BY ExportedReply DEF ProxyResponseSubjects
<1> QED BY <1>1

-----------------------------------------------------------------------------
(* Type correctness.                                                       *)

LEMMA InitTypeOK == Init => TypeOK
BY DEF Init, TypeOK, Connections, Dialing

LEMMA StepTypeOK == TypeOK /\ [Next]_vars => TypeOK'
<1> SUFFICES ASSUME TypeOK, [Next]_vars
             PROVE  TypeOK'
  OBVIOUS
<1> USE DEF TypeOK, Connections, Dialing
<1>1. ASSUME NEW p \in Pods, Gone(p)
      PROVE  TypeOK'
  BY <1>1 DEF Gone, setting, callVars
<1>2. ASSUME NEW p \in Pods, Close(p), conn[p] \in Reconnecting \cup {"connected"}
      PROVE  TypeOK'
  BY <1>2 DEF Close, LoseSubscription, Reconnecting, setting, callVars
<1>3. ASSUME NEW p \in Pods, Boot(p) \/ ContextDone(p) \/ Connect(p)
      PROVE  TypeOK'
  BY <1>3 DEF Boot, ContextDone, Connect, setting, callVars
<1>4. ASSUME NEW p \in Pods, GiveUp(p) \/ Exit(p)
      PROVE  TypeOK'
  BY <1>1, <1>4 DEF GiveUp, Exit
<1>5. ASSUME NEW p \in Pods, QueueSubscribe(p)
      PROVE  TypeOK'
  BY <1>1, <1>5 DEF QueueSubscribe, Reconnecting, setting, callVars
<1>6. ASSUME NEW p \in Pods, Flush(p)
      PROVE  TypeOK'
  BY <1>6 DEF Flush, setting, callVars
<1>7. ASSUME NEW p \in Pods, Break(p)
      PROVE  TypeOK'
  BY <1>7 DEF Break, LoseSubscription, setting, callVars
<1>8. ASSUME NEW p \in Pods, ServerError(p)
      PROVE  TypeOK'
  BY <1>2, <1>8 DEF ServerError
<1>9. ASSUME NEW p \in Pods, Reconnect(p)
      PROVE  TypeOK'
  BY <1>9 DEF Reconnect, resendSubscriptions, Reconnecting, setting, callVars
<1>10. ASSUME NEW p \in Pods, Reject(p)
       PROVE  TypeOK'
  BY <1>2, <1>10 DEF Reject, Reconnecting, setting, callVars
<1>11. ASSUME NEW p \in Pods, NEW c \in Calls, Respond(p, c)
       PROVE  TypeOK'
  <2>1. UNCHANGED <<names, link, controller, server, conn, sub, call, target, handlers>>
    BY <1>11 DEF Respond, setting
  <2>2. inbox' \in [Pods -> SUBSET Calls]
    BY <1>11 DEF Respond
  <2>3. answers' \in [Calls -> SUBSET (Calls \X Pods)]
    BY <1>11 DEF Respond
  <2> QED BY <2>1, <2>2, <2>3
<1>12. ASSUME NEW c \in Calls, Proxy(c)
       PROVE  TypeOK'
  BY <1>12 DEF Proxy, setting, podVars
<1>13. ASSUME NEW c \in Calls, Route(c)
       PROVE  TypeOK'
  <2>1. PICK chosen \in SUBSET Interested(c) :
          /\ handlers' = [handlers EXCEPT ![c] = chosen]
          /\ inbox' = [p \in Pods |->
                         IF p \in chosen THEN inbox[p] \cup {c} ELSE inbox[p]]
    BY <1>13 DEF Route
  <2>2. chosen \subseteq Pods
    BY DEF Interested
  <2>3. /\ call' = [call EXCEPT ![c] = "routed"]
        /\ UNCHANGED <<names, link, controller, server, conn, sub, target, answers>>
    BY <1>13 DEF Route, setting
  <2> QED BY <2>1, <2>2, <2>3
<1>14. CASE Environment
  BY <1>14 DEF Environment, setting, podVars, callVars
<1>15. CASE UNCHANGED vars
  BY <1>15 DEF vars, setting, podVars, callVars
<1> QED BY <1>3, <1>4, <1>5, <1>6, <1>7, <1>8, <1>9, <1>10, <1>11, <1>12,
           <1>13, <1>14, <1>15 DEF Next

(* The state of every pod is what TypeOK says: in particular the server    *)
(* never knows a subscription of a connection that is not there, and a pod *)
(* that is still dialing has none (run.go, addSubscribers after            *)
(* NewConnection).                                                         *)
THEOREM LinksTyped == Spec => []TypeOK
BY InitTypeOK, StepTypeOK, PTL DEF Spec

-----------------------------------------------------------------------------
(* Requests and answers.                                                   *)

(* A call that was not routed has reached nobody; whoever has it, or has   *)
(* answered it, was given it; and those it was given to listen for its     *)
(* link, one for each controller.                                          *)
CallInv(c) ==
    /\ call[c] # "routed" => handlers[c] = {}
    /\ \A p \in Pods : c \in inbox[p] => p \in handlers[c]
    /\ \A a \in answers[c] : a[1] = c /\ a[2] \in handlers[c]
    /\ \A p \in handlers[c] : link[p] = target[c]
    /\ \A p, q \in handlers[c] : controller[p] = controller[q] => p = q

LinksInv ==
    /\ TypeOK
    /\ \A c \in Calls : CallInv(c)

LEMMA InitLinksInv == Init => LinksInv
BY InitTypeOK DEF Init, LinksInv, CallInv

(* A step that takes requests away, at most, from the pods.                *)
LEMMA SameCalls ==
    ASSUME LinksInv, UNCHANGED <<call, target, handlers, answers, link, controller>>,
           \A p \in Pods : inbox'[p] \subseteq inbox[p]
    PROVE  \A c \in Calls : CallInv(c)'
BY DEF LinksInv, CallInv

LEMMA StepLinksInv == LinksInv /\ [Next]_vars => LinksInv'
<1> SUFFICES ASSUME LinksInv, [Next]_vars
             PROVE  LinksInv'
  OBVIOUS
<1>1. TypeOK /\ TypeOK'
  BY StepTypeOK DEF LinksInv
<1>2. \A c \in Calls : CallInv(c)
  BY DEF LinksInv
<1>3. /\ inbox \in [Pods -> SUBSET Calls] /\ inbox' \in [Pods -> SUBSET Calls]
      /\ handlers \in [Calls -> SUBSET Pods]
      /\ call \in [Calls -> {"idle", "sent", "routed"}]
      /\ target \in [Calls -> Links]
      /\ answers \in [Calls -> SUBSET (Calls \X Pods)]
  BY <1>1 DEF TypeOK
<1>4. ASSUME NEW p \in Pods,
             \/ Boot(p) \/ ContextDone(p) \/ Connect(p) \/ GiveUp(p) \/ Exit(p)
             \/ QueueSubscribe(p) \/ Flush(p) \/ Break(p) \/ ServerError(p)
             \/ Reconnect(p) \/ Reject(p)
      PROVE  LinksInv'
  <2>1. UNCHANGED <<callVars, setting>>
    BY <1>4 DEF Boot, ContextDone, Connect, GiveUp, Exit, QueueSubscribe, Flush,
                Break, ServerError, Reconnect, Reject, Gone, Close
  <2>2. inbox' = inbox \/ inbox' = [inbox EXCEPT ![p] = {}]
    BY <1>4 DEF Boot, ContextDone, Connect, GiveUp, Exit, QueueSubscribe, Flush,
                Break, ServerError, Reconnect, Reject, Gone, Close
  <2>3. \A q \in Pods : inbox'[q] \subseteq inbox[q]
    BY <1>3, <2>2
  <2>4. UNCHANGED <<call, target, handlers, answers, link, controller>>
    BY <2>1 DEF callVars, setting
  <2> QED BY <1>1, <2>3, <2>4, SameCalls DEF LinksInv
<1>5. ASSUME NEW p \in Pods, NEW c \in Calls, Respond(p, c)
      PROVE  LinksInv'
  <2> DEFINE reply == Export(ProxyResponseSubjects(target[c], c).edge, link[p])
             Reached(d) == call[d] # "idle" /\ ProxyResponseSubjects(target[d], d).hub = reply
  <2>1. /\ c \in inbox[p] /\ inbox' = [inbox EXCEPT ![p] = @ \ {c}]
        /\ answers' = [d \in Calls |-> IF Reached(d) THEN answers[d] \cup {<<c, p>>}
                                                     ELSE answers[d]]
        /\ UNCHANGED <<call, target, handlers, link, controller>>
    BY <1>5 DEF Respond, setting
  <2>2. p \in handlers[c] /\ link[p] = target[c]
    BY <1>2, <2>1 DEF CallInv
  <2>3. \A d \in Calls : Reached(d) => d = c
    BY <2>2, ResponseSubjects
  <2>4. \A d \in Calls : \/ answers'[d] = answers[d]
                         \/ d = c /\ answers'[d] = answers[c] \cup {<<c, p>>}
    <3> HIDE DEF reply
    <3> SUFFICES ASSUME NEW d \in Calls
                 PROVE  \/ answers'[d] = answers[d]
                        \/ d = c /\ answers'[d] = answers[c] \cup {<<c, p>>}
      OBVIOUS
    <3>1. answers'[d] = IF Reached(d) THEN answers[d] \cup {<<c, p>>} ELSE answers[d]
      BY <2>1
    <3> HIDE DEF Reached
    <3> QED BY <2>3, <3>1
  <2> HIDE DEF Reached
  <2>5. ASSUME NEW d \in Calls
        PROVE  CallInv(d)'
    <3>1. \A a \in answers'[d] : a[1] = d /\ a[2] \in handlers[d]
      <4>1. \/ answers'[d] = answers[d]
            \/ d = c /\ answers'[d] = answers[c] \cup {<<c, p>>}
        BY <2>4
      <4>2. \A a \in answers[d] : a[1] = d /\ a[2] \in handlers[d]
        BY <1>2 DEF CallInv
      <4>3. <<c, p>>[1] = c /\ <<c, p>>[2] = p
        OBVIOUS
      <4> QED BY <2>2, <4>1, <4>2, <4>3
    <3>2. \A q \in Pods : inbox'[q] \subseteq inbox[q]
      BY <1>3, <2>1
    <3> QED BY <1>2, <2>1, <3>1, <3>2 DEF CallInv
  <2> QED BY <1>1, <2>5 DEF LinksInv
<1>6. ASSUME NEW c \in Calls, Proxy(c)
      PROVE  LinksInv'
  <2>1. PICK l \in Links : target' = [target EXCEPT ![c] = l]
    BY <1>6 DEF Proxy
  <2>2. /\ call[c] = "idle" /\ call' = [call EXCEPT ![c] = "sent"]
        /\ UNCHANGED <<link, controller, inbox, handlers, answers>>
    BY <1>6 DEF Proxy, setting, podVars
  <2>3. handlers[c] = {}
    BY <1>2, <2>2 DEF CallInv
  <2>4. CallInv(c)'
    BY <1>2, <1>3, <2>1, <2>2, <2>3 DEF CallInv
  <2>5. \A d \in Calls \ {c} : CallInv(d)'
    BY <1>2, <1>3, <2>1, <2>2 DEF CallInv
  <2> QED BY <1>1, <2>4, <2>5 DEF LinksInv
<1>7. ASSUME NEW c \in Calls, Route(c)
      PROVE  LinksInv'
  <2>1. PICK chosen \in SUBSET Interested(c) :
          /\ \A p, q \in chosen : QueueName(p) = QueueName(q) => p = q
          /\ handlers' = [handlers EXCEPT ![c] = chosen]
          /\ inbox' = [p \in Pods |->
                         IF p \in chosen THEN inbox[p] \cup {c} ELSE inbox[p]]
    BY <1>7 DEF Route
  <2>2. /\ call[c] = "sent" /\ call' = [call EXCEPT ![c] = "routed"]
        /\ UNCHANGED <<link, controller, target, answers>>
    BY <1>7 DEF Route, setting
  <2>3. chosen \subseteq Pods /\ \A p \in chosen : link[p] = target[c]
    BY HandlerSubjects DEF Interested
  <2>4. handlers[c] = {} /\ answers[c] = {} /\ \A p \in Pods : c \notin inbox[p]
    BY <1>2, <1>3, <2>2 DEF CallInv
  <2>5. CallInv(c)'
    BY <1>3, <2>1, <2>2, <2>3, <2>4 DEF CallInv, QueueName
  <2>6. \A d \in Calls \ {c} : CallInv(d)'
    BY <1>2, <1>3, <2>1, <2>2 DEF CallInv
  <2> QED BY <1>1, <2>5, <2>6 DEF LinksInv
<1>8. CASE Environment
  BY <1>1, <1>8, SameCalls DEF Environment, setting, podVars, callVars, LinksInv
<1>9. CASE UNCHANGED vars
  BY <1>1, <1>9, SameCalls DEF vars, setting, podVars, callVars, LinksInv
<1> QED BY <1>4, <1>5, <1>6, <1>7, <1>8, <1>9 DEF Next

LEMMA LinksInvariant == Spec => []LinksInv
BY InitLinksInv, StepLinksInv, PTL DEF Spec

(* A request reaches only connectors of the link it was sent to, whether   *)
(* links have accounts of their own or share one (shared/connector.go).    *)
THEOREM RequestsOfOwnLink == Spec => []OwnLinkOnly
<1>1. LinksInv => OwnLinkOnly
  BY DEF LinksInv, CallInv, OwnLinkOnly
<1> QED BY <1>1, LinksInvariant, PTL

(* On the response subject of a call arrive only answers to that call, of  *)
(* connectors it was given to: the xid and the link are in the subject     *)
(* (nats.go, Proxy).                                                       *)
THEOREM AnswersOfOwnCall == Spec => []OwnAnswer
<1>1. LinksInv => OwnAnswer
  BY DEF LinksInv, CallInv, OwnAnswer
<1> QED BY <1>1, LinksInvariant, PTL

(* The pods of a link have one controller: no rollout is under way.        *)
OneController ==
    \A p, q \in Pods : link[p] = link[q] => controller[p] = controller[q]

(* As long as the pods of each link are of one ReplicaSet, a call has at   *)
(* most one answer, however many pods there are and however they come and  *)
(* go: they are one queue group (run.go, addSubscribers).  With two        *)
(* ReplicaSets this is false.                                              *)
THEOREM OneAnswer == Spec /\ OneController => []SingleResponse
<1>1. OneController /\ [Next]_vars => OneController'
  <2> SUFFICES ASSUME OneController, [Next]_vars
               PROVE  OneController'
    OBVIOUS
  <2>1. UNCHANGED setting
    BY DEF Next, vars, Boot, ContextDone, Connect, GiveUp, Exit, QueueSubscribe,
           Flush, Break, ServerError, Reconnect, Reject, Gone, Close, Respond,
           Proxy, Route, Environment
  <2> QED BY <2>1 DEF OneController, setting
<1>2. LinksInv /\ OneController => SingleResponse
  <2> SUFFICES ASSUME LinksInv, OneController, NEW c \in Calls
               PROVE  Cardinality(answers[c]) <= 1
    BY DEF SingleResponse
  <2>1. /\ \A a \in answers[c] : a \in Calls \X Pods /\ a[1] = c /\ a[2] \in handlers[c]
        /\ handlers[c] \subseteq Pods
        /\ \A p, q \in handlers[c] : p = q
    BY DEF LinksInv, TypeOK, CallInv, OneController
  <2>2. \A a, b \in answers[c] : a = b
    BY <2>1
  <2>3. CASE answers[c] = {}
    BY <2>3, FS_EmptySet
  <2>4. ASSUME NEW a \in answers[c]
        PROVE  Cardinality(answers[c]) <= 1
    <3>1. answers[c] = {a}
      BY <2>2
    <3>2. Cardinality({a}) = 1
      BY FS_Singleton
    <3> QED BY <3>1, <3>2
  <2> QED BY <2>3, <2>4
<1> QED BY <1>1, <1>2, LinksInvariant, PTL DEF Spec
=============================================================================
