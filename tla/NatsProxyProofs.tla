-------------------------- MODULE NatsProxyProofs --------------------------
(* Theorems about NatsProxy, for every set of calls and pods, every bound  *)
(* and every combination of faults.                                        *)
EXTENDS NatsProxy, TLAPS

USE CallsAssumption, BoundsAssumption, FaultsAssumption

-----------------------------------------------------------------------------
(* Type correctness.                                                       *)

(* A function that is updated at one place, or left alone, keeps its type. *)
LEMMA UpdateType ==
    ASSUME NEW A, NEW S, NEW f \in [A -> S], NEW g, NEW a \in A, NEW v \in S,
           g = f \/ g = [f EXCEPT ![a] = v]
    PROVE  g \in [A -> S]
<1>1. CASE g = f
  BY <1>1
<1>2. CASE g = [f EXCEPT ![a] = v]
  BY <1>2
<1> QED BY <1>1, <1>2

(* The initial state is well typed.                                        *)
LEMMA InitTypeOK == Init => TypeOK
BY DEF Init, TypeOK, CallerStates, RcvStates, Message, NoMessage, Framings,
       Workers

(* Every step of the goroutine that calls RoundTrip keeps the types.       *)
LEMMA HubCallerTypeOK ==
    ASSUME TypeOK, NEW c \in Calls, HubCaller(c)
    PROVE  TypeOK'
<1> USE DEF TypeOK, CallerStates, RcvStates, edgeVars
<1>1. CASE Subscribe(c)
  BY <1>1 DEF Subscribe
<1>2. CASE RoundTripFails(c)
  BY <1>2 DEF RoundTripFails
<1>3. CASE Publish(c)
  BY <1>3 DEF Publish
<1>4. CASE PublishFails(c)
  BY <1>4 DEF PublishFails
<1>5. CASE ReadHead(c)
  BY <1>5 DEF ReadHead
<1>6. CASE ReadChunk(c)
  <2> DEFINE Ordinals == 1..(MaxChunks + 1)
  <2>1. Append(got[c], cur[c].n) \in Seq(Ordinals)
    <3>1. cur[c].n \in Ordinals
      BY DEF Message
    <3>2. got[c] \in Seq(Ordinals)
      OBVIOUS
    <3> HIDE DEF Ordinals
    <3> QED BY <3>1, <3>2
  <2>2. got' \in [Calls -> Seq(Ordinals)]
    <3>1. got' = got \/ got' = [got EXCEPT ![c] = Append(@, cur[c].n)]
      BY <1>6 DEF ReadChunk
    <3>2. got \in [Calls -> Seq(Ordinals)]
      OBVIOUS
    <3> HIDE DEF Ordinals
    <3> QED BY <2>1, <3>1, <3>2
  <2>3. caller' \in [Calls -> CallerStates]
    <3>1. \A g : AfterChunk(c, g) \subseteq CallerStates
      BY DEF AfterChunk, AfterChunked, Onwards, AtEnd, OnSyntax
    <3>2. \/ caller' = caller
          \/ \E x \in CallerStates : caller' = [caller EXCEPT ![c] = x]
      BY <1>6, <3>1 DEF ReadChunk
    <3> QED BY <3>2
  <2>4. rcv' \in [Calls -> RcvStates]
    BY <1>6 DEF ReadChunk, AfterWrite
  <2> QED BY <1>6, <2>2, <2>3, <2>4 DEF ReadChunk
<1>7. CASE ReadEnd(c)
  BY <1>7 DEF ReadEnd
<1>8. CASE CloseBody(c)
  BY <1>8 DEF CloseBody
<1> QED BY <1>1, <1>2, <1>3, <1>4, <1>5, <1>6, <1>7, <1>8
        DEF HubCaller, ReadStep

(* Every step of the receiver goroutine keeps the types.                   *)
LEMMA ReceiverTypeOK ==
    ASSUME TypeOK, NEW c \in Calls, Receiver(c)
    PROVE  TypeOK'
<1> USE DEF TypeOK, CallerStates, RcvStates, edgeVars
<1>1. CASE NextMsgCheck(c)
  BY <1>1 DEF NextMsgCheck
<1>2. CASE NextMsgPop(c)
  <2>1. Head(mch[c]) \in Message /\ Tail(mch[c]) \in Seq(Message)
    BY <1>2 DEF NextMsgPop
  <2>2. cur' = cur \/ cur' = [cur EXCEPT ![c] = Head(mch[c])]
    BY <1>2 DEF NextMsgPop
  <2>3. cur' \in [Calls -> Message]
    <3>1. CASE cur' = cur
      BY <3>1
    <3>2. CASE cur' = [cur EXCEPT ![c] = Head(mch[c])]
      BY <2>1, <3>2, UpdateType
    <3> QED BY <2>2, <3>1, <3>2
  <2>4. mch' = [mch EXCEPT ![c] = Tail(mch[c])]
    BY <1>2 DEF NextMsgPop
  <2>5. mch' \in [Calls -> Seq(Message)]
    BY <2>1, <2>4, UpdateType
  <2>6. \E r \in RcvStates : rcv' = [rcv EXCEPT ![c] = r]
    BY <1>2 DEF NextMsgPop
  <2>7. rcv' \in [Calls -> RcvStates]
    BY <2>6, UpdateType
  <2> QED BY <1>2, <2>3, <2>5, <2>7 DEF NextMsgPop
<1>3. CASE NextMsgTimeout(c)
  BY <1>3 DEF NextMsgTimeout
<1>4. CASE NextMsgClosed(c)
  BY <1>4 DEF NextMsgClosed
<1>5. CASE ClosePipe(c)
  BY <1>5 DEF ClosePipe
<1>6. CASE Unsubscribe(c)
  BY <1>6 DEF Unsubscribe
<1> QED BY <1>1, <1>2, <1>3, <1>4, <1>5, <1>6 DEF Receiver

(* Every step of NATS keeps the types.                                     *)
LEMMA ServerTypeOK ==
    ASSUME TypeOK, NEW c \in Calls, Server(c)
    PROVE  TypeOK'
<1> USE DEF TypeOK, edgeVars, hubVars
<1>1. ASSUME NEW w \in Workers, RouteRequest(c, w)
      PROVE  TypeOK'
  <2>1. Append(pend[w], c) \in Seq(Calls)
    BY <1>1
  <2> QED BY <1>1, <2>1 DEF RouteRequest
<1>2. CASE NoInterest(c)
  <2>1. [n |-> 1, data |-> FALSE, done |-> "noResponders"] \in Message
    BY DEF Message
  <2> DEFINE m == [n |-> 1, data |-> FALSE, done |-> "noResponders"]
  <2>2. Append(net[c], m) \in Seq(Message)
    BY <2>1
  <2>3. net' = net \/ net' = [net EXCEPT ![c] = Append(net[c], m)]
    BY <1>2 DEF NoInterest
  <2> HIDE DEF m
  <2>4. net' \in [Calls -> Seq(Message)]
    <3>1. CASE net' = net
      BY <3>1
    <3>2. CASE net' = [net EXCEPT ![c] = Append(net[c], m)]
      BY <2>2, <3>2, UpdateType
    <3> QED BY <2>3, <3>1, <3>2
  <2> QED BY <1>2, <2>4 DEF NoInterest
<1>3. CASE LoseRequest(c)
  BY <1>3 DEF LoseRequest
<1>4. CASE Deliver(c)
  <2>1. Head(net[c]) \in Message /\ Tail(net[c]) \in Seq(Message)
    BY <1>4 DEF Deliver
  <2>2. Append(mch[c], Head(net[c])) \in Seq(Message)
    BY <2>1
  <2>3. mch' = mch \/ mch' = [mch EXCEPT ![c] = Append(@, Head(net[c]))]
    BY <1>4 DEF Deliver, Enqueue
  <2>4. sc' \in [Calls -> BOOLEAN] /\ lost' \in [Calls -> BOOLEAN]
    BY <1>4 DEF Deliver
  <2>5. mch' \in [Calls -> Seq(Message)]
    <3>1. CASE mch' = mch
      BY <3>1
    <3>2. CASE mch' = [mch EXCEPT ![c] = Append(@, Head(net[c]))]
      BY <2>2, <3>2, UpdateType
    <3> QED BY <2>3, <3>1, <3>2
  <2>6. net' = [net EXCEPT ![c] = Tail(net[c])]
    BY <1>4 DEF Deliver
  <2>7. net' \in [Calls -> Seq(Message)]
    BY <2>1, <2>6, UpdateType
  <2> QED BY <1>4, <2>4, <2>5, <2>7 DEF Deliver
<1>5. CASE LoseMessage(c)
  BY <1>5 DEF LoseMessage
<1> QED BY <1>1, <1>2, <1>3, <1>4, <1>5 DEF Server, Route

(* PublishMsg leaves a network of well-typed messages.                     *)
LEMMA PublishTypeOK ==
    ASSUME TypeOK, NEW c \in Calls, NEW m \in Message, PublishMsg(c, m)
    PROVE  net' \in [Calls -> Seq(Message)]
BY DEF TypeOK, PublishMsg

(* Every step of a member of the queue group keeps the types.              *)
LEMMA WorkerTypeOK ==
    ASSUME TypeOK, NEW w \in Workers, Worker(w)
    PROVE  TypeOK'
<1> USE DEF TypeOK, hubVars
<1>1. CASE Dispatch(w)
  <2>1. Head(pend[w]) \in Calls /\ Tail(pend[w]) \in Seq(Calls)
    BY <1>1 DEF Dispatch
  <2> QED BY <1>1, <2>1 DEF Dispatch
<1>2. CASE RespondOk(w)
  <2>1. PICK k \in 1..MaxChunks : total' = [total EXCEPT ![job[w]] = k]
    BY <1>2 DEF RespondOk
  <2>2. total' \in [Calls -> 0..MaxChunks]
    BY <1>2, <2>1 DEF RespondOk, Responding
  <2>3. framing' \in [Calls -> Framings]
    BY <1>2 DEF RespondOk
  <2> QED BY <1>2, <2>2, <2>3 DEF RespondOk
<1>3. CASE RespondError(w)
  BY <1>3 DEF RespondError, Responding, Framings
<1> DEFINE c == job[w]
           Msg(data, done) == [n |-> sent[c] + 1, data |-> data, done |-> done]
<1>4. ASSUME Copying(w), NEW data \in BOOLEAN, NEW done \in {"more", "ok", "err"},
             PublishMsg(c, Msg(data, done))
      PROVE  c \in Calls /\ net' \in [Calls -> Seq(Message)]
  <2>1. c \in Calls /\ sent[c] + 1 \in 1..(MaxChunks + 1)
    BY <1>4 DEF Copying
  <2>2. Msg(data, done) \in Message
    BY <2>1, <1>4 DEF Message
  <2> QED BY <1>4, <2>1, <2>2, PublishTypeOK
<1>5. CASE CopyChunk(w)
  <2>1. c \in Calls /\ net' \in [Calls -> Seq(Message)]
    BY <1>5, <1>4 DEF CopyChunk
  <2>2. sent' \in [Calls -> 0..MaxChunks]
    BY <1>5, <2>1 DEF CopyChunk, MoreToCopy
  <2> QED BY <1>5, <2>1, <2>2 DEF CopyChunk
<1>6. CASE FinalFlush(w)
  <2>1. c \in Calls /\ net' \in [Calls -> Seq(Message)]
    BY <1>6, <1>4 DEF FinalFlush, FinalDone
  <2>2. sent' \in [Calls -> 0..MaxChunks]
    BY <1>6, <2>1 DEF FinalFlush
  <2> QED BY <1>6, <2>1, <2>2 DEF FinalFlush
<1>7. CASE FinalEmpty(w)
  <2>1. net' \in [Calls -> Seq(Message)]
    BY <1>7, <1>4 DEF FinalEmpty, FinalDone
  <2> QED BY <1>7, <2>1 DEF FinalEmpty
<1>8. CASE WriteError(w)
  <2>1. net' \in [Calls -> Seq(Message)]
    BY <1>8, <1>4 DEF WriteError, ErrorDone
  <2> QED BY <1>8, <2>1 DEF WriteError
<1>9. CASE FinishUnpublished(w)
  BY <1>9 DEF FinishUnpublished
<1> QED BY <1>1, <1>2, <1>3, <1>5, <1>6, <1>7, <1>8, <1>9 DEF Worker

(* A pod that goes or comes keeps the types.                               *)
LEMMA PodTypeOK ==
    ASSUME TypeOK, NEW p \in Pods, Crash(p) \/ Restart(p)
    PROVE  TypeOK'
<1> USE DEF TypeOK, hubVars
<1>1. CASE Crash(p)
  <2>1. pend' \in [Workers -> Seq(Calls)]
    <3>1. <<>> \in Seq(Calls)
      OBVIOUS
    <3> QED BY <1>1, <3>1 DEF Crash
  <2>2. job' \in [Workers -> Calls \cup {NoCall}]
    BY <1>1 DEF Crash
  <2>3. up' \in [Pods -> BOOLEAN]
    BY <1>1 DEF Crash
  <2> QED BY <1>1, <2>1, <2>2, <2>3 DEF Crash
<1>2. CASE Restart(p)
  BY <1>2 DEF Restart
<1> QED BY <1>1, <1>2

(* So does the end of the hub's connection.                                *)
LEMMA CloseConnTypeOK == ASSUME TypeOK, CloseConn PROVE TypeOK'
<1>1. \A c \in Calls : <<>> \in Seq(Message) /\ mch[c] \in Seq(Message)
  BY DEF TypeOK
<1>2. mch' \in [Calls -> Seq(Message)] /\ net' \in [Calls -> Seq(Message)]
  BY <1>1 DEF CloseConn
<1>3. sub' \in [Calls -> {"none", "live", "gone"}] /\ connected' \in BOOLEAN
  BY DEF CloseConn, TypeOK
<1> QED BY <1>2, <1>3 DEF CloseConn, TypeOK, edgeVars

(* The state of the proxy is always well typed; in particular an edge      *)
(* never publishes more chunks than the response has.                      *)
THEOREM TypeCorrect == Spec => []TypeOK
<1>1. TypeOK /\ [Next]_vars => TypeOK'
  <2> SUFFICES ASSUME TypeOK, [Next]_vars
               PROVE  TypeOK'
    OBVIOUS
  <2>1. CASE UNCHANGED vars
    BY <2>1 DEF vars, hubVars, edgeVars, TypeOK
  <2> QED BY <2>1, HubCallerTypeOK, ReceiverTypeOK, ServerTypeOK,
             WorkerTypeOK, PodTypeOK, CloseConnTypeOK DEF Next
<1> QED BY InitTypeOK, <1>1, PTL DEF Spec

-----------------------------------------------------------------------------
(* Who listens and who handles.                                            *)

(* ListenerOwned and OneHandler are not inductive: whether a receiver finds *)
(* its subscription live depends on where its caller was when it started it,*)
(* and a request is at one place only if a call that has not published yet *)
(* is nowhere and no subscription queues a request twice.                  *)
Unstarted(c) == caller[c] \in {"idle", "subscribed"}
Active(c)    == c \in reqs \/ \E w \in Workers : Holds(w, c)

ListenerInv(c) ==
    /\ caller[c] = "idle" => sub[c] = "none"
    /\ caller[c] = "subscribed" \/ Running(c)
         => sub[c] # "none" /\ (connected => sub[c] = "live")
    /\ Unstarted(c) => rcv[c] = "none" /\ ~Active(c)
    /\ Reading(c) => rcv[c] # "none"
    /\ Active(c) => sub[c] # "none"
    /\ rcv[c] = "exited" => sub[c] = "gone"
    /\ rcv[c] \in {"closing", "exited"} <=> pipe[c] # "open"

NoRepeats ==
    \A w \in Workers : \A i, j \in 1..Len(pend[w]) :
        pend[w][i] = pend[w][j] => i = j

Ownership ==
    /\ TypeOK
    /\ \A c \in Calls : ListenerInv(c)
    /\ NoRepeats
    /\ OneHandler

(* The initial state.                                                      *)
LEMMA InitOwnership == Init => Ownership
<1> SUFFICES ASSUME Init
             PROVE  Ownership
  OBVIOUS
<1>1. TypeOK
  BY InitTypeOK
<1>2. \A c \in Calls : ~Active(c)
  <2>1. \A w \in Workers : Len(pend[w]) = 0 /\ job[w] = NoCall
    BY DEF Init
  <2>2. \A c \in Calls, w \in Workers : ~Queued(w, c) /\ job[w] # c
    BY <2>1 DEF Queued
  <2>3. reqs = {}
    BY DEF Init
  <2> QED BY <2>2, <2>3 DEF Active, Holds
<1>3. NoRepeats
  BY DEF Init, NoRepeats
<1>4. OneHandler
  BY <1>2 DEF Init, OneHandler, Active, Holds, Queued
<1> QED BY <1>1, <1>2, <1>3, <1>4
        DEF Ownership, ListenerInv, Unstarted, Running, Reading, Init

(* Requests that leave the server, a queue or a member, and go nowhere,    *)
(* leave every request at one place at most.                               *)
LEMMA FewerRequests ==
    ASSUME TypeOK, NoRepeats, OneHandler,
           reqs' \subseteq reqs,
           \A w \in Workers : pend'[w] = pend[w] \/ pend'[w] = <<>>,
           \A w \in Workers : job'[w] = job[w] \/ job'[w] = NoCall
    PROVE  /\ NoRepeats'
           /\ OneHandler'
           /\ \A c \in Calls : Active(c)' => Active(c)
<1>1. \A w \in Workers, c \in Calls : Queued(w, c)' => Queued(w, c)
  BY DEF Queued
<1>2. \A w \in Workers, c \in Calls : job'[w] = c => job[w] = c
  OBVIOUS
<1>3. NoRepeats'
  BY DEF NoRepeats
<1>4. OneHandler'
  BY <1>1, <1>2 DEF OneHandler, Holds
<1> QED BY <1>1, <1>2, <1>3, <1>4 DEF Active, Holds

(* A request that is published has not been anywhere.                      *)
LEMMA PublishHandlers ==
    ASSUME Ownership, NEW c \in Calls, Publish(c)
    PROVE  /\ NoRepeats'
           /\ OneHandler'
           /\ \A d \in Calls : Active(d)' => Active(d) \/ d = c
<1>1. pend' = pend /\ job' = job /\ reqs' = reqs \cup {c}
  BY DEF Publish, edgeVars
<1>2. \A w \in Workers : ~Holds(w, c)
  BY DEF Ownership, ListenerInv, Publish, Unstarted, Active
<1>3. \A w \in Workers, d \in Calls :
          (Queued(w, d)' <=> Queued(w, d)) /\ (Holds(w, d)' <=> Holds(w, d))
  BY <1>1 DEF Queued, Holds
<1>4. NoRepeats'
  BY <1>1 DEF Ownership, NoRepeats
<1>5. OneHandler'
  BY <1>1, <1>2, <1>3 DEF Ownership, OneHandler
<1> QED BY <1>1, <1>3, <1>4, <1>5 DEF Active

(* A request that is routed leaves the server for one subscription.        *)
LEMMA RouteHandlers ==
    ASSUME Ownership, NEW c \in Calls, NEW w \in Workers, RouteRequest(c, w)
    PROVE  /\ NoRepeats'
           /\ OneHandler'
           /\ \A d \in Calls : Active(d)' => Active(d)
<1> USE DEF Ownership
<1>1. /\ pend[w] \in Seq(Calls)
      /\ pend' = [pend EXCEPT ![w] = Append(pend[w], c)]
      /\ pend \in [Workers -> Seq(Calls)]
      /\ job' = job
      /\ c \in reqs
      /\ reqs' = reqs \ {c}
  BY DEF RouteRequest, TypeOK
<1>2. /\ pend'[w] = Append(pend[w], c)
      /\ \A v \in Workers \ {w} : pend'[v] = pend[v]
  BY <1>1
<1>3. /\ Len(pend'[w]) = Len(pend[w]) + 1
      /\ Len(pend[w]) \in Nat
      /\ \A i \in 1..Len(pend[w]) : pend'[w][i] = pend[w][i]
      /\ pend'[w][Len(pend[w]) + 1] = c
  BY <1>1, <1>2
<1>4. \A v \in Workers : ~Holds(v, c)
  BY <1>1 DEF OneHandler
<1>5. \A v \in Workers, d \in Calls :
          Queued(v, d)' <=> (Queued(v, d) \/ (v = w /\ d = c))
  <2> SUFFICES ASSUME NEW v \in Workers, NEW d \in Calls
               PROVE  Queued(v, d)' <=> (Queued(v, d) \/ (v = w /\ d = c))
    OBVIOUS
  <2>1. CASE v = w
    BY <1>3, <2>1 DEF Queued
  <2>2. CASE v # w
    BY <1>2, <2>2 DEF Queued
  <2> QED BY <2>1, <2>2
<1>6. \A v \in Workers, d \in Calls :
          Holds(v, d)' <=> (Holds(v, d) \/ (v = w /\ d = c))
  BY <1>1, <1>5 DEF Holds
<1>7. NoRepeats'
  <2> SUFFICES ASSUME NEW v \in Workers,
                      NEW i \in 1..Len(pend'[v]), NEW j \in 1..Len(pend'[v]),
                      pend'[v][i] = pend'[v][j]
               PROVE  i = j
    BY DEF NoRepeats
  <2>1. CASE v = w
    <3>1. \A k \in 1..Len(pend[w]) : pend[w][k] # c
      BY <1>4 DEF Holds, Queued
    <3>2. \A k, l \in 1..Len(pend[w]) : pend[w][k] = pend[w][l] => k = l
      BY DEF NoRepeats
    <3>3. i \in 1..Len(pend[w]) + 1 /\ j \in 1..Len(pend[w]) + 1
      BY <1>3, <2>1
    <3>4. pend'[w][i] = pend'[w][j]
      BY <2>1
    <3> HIDE DEF NoRepeats, Ownership
    <3>5. CASE i = Len(pend[w]) + 1 \/ j = Len(pend[w]) + 1
      BY <1>3, <3>1, <3>3, <3>4, <3>5
    <3>6. CASE i \in 1..Len(pend[w]) /\ j \in 1..Len(pend[w])
      BY <1>3, <3>2, <3>4, <3>6
    <3> QED BY <1>3, <3>3, <3>5, <3>6
  <2>2. CASE v # w
    BY <1>2, <2>2 DEF NoRepeats
  <2> QED BY <2>1, <2>2
<1>8. OneHandler'
  <2>1. \A d \in Calls : d \in reqs' => \A v \in Workers : ~Holds(v, d)'
    BY <1>1, <1>6 DEF OneHandler
  <2>2. \A d \in Calls : \A u, v \in Workers :
            Holds(u, d)' /\ Holds(v, d)' => u = v
    BY <1>4, <1>6 DEF OneHandler
  <2>3. \A d \in Calls, v \in Workers : job'[v] = d => ~Queued(v, d)'
    BY <1>1, <1>4, <1>5 DEF OneHandler, Holds
  <2> QED BY <2>1, <2>2, <2>3 DEF OneHandler
<1> QED BY <1>1, <1>6, <1>7, <1>8 DEF Active

(* A request that is dispatched leaves its queue for the member's job.     *)
LEMMA DispatchHandlers ==
    ASSUME Ownership, NEW w \in Workers, Dispatch(w)
    PROVE  /\ NoRepeats'
           /\ OneHandler'
           /\ \A d \in Calls : Active(d)' => Active(d)
<1> USE DEF Ownership
<1> DEFINE c == Head(pend[w])
<1>1. /\ pend[w] \in Seq(Calls) /\ pend[w] # <<>>
      /\ pend' = [pend EXCEPT ![w] = Tail(pend[w])]
      /\ pend \in [Workers -> Seq(Calls)]
      /\ job' = [job EXCEPT ![w] = c]
      /\ job \in [Workers -> Calls \cup {NoCall}]
      /\ job[w] = NoCall
      /\ reqs' = reqs
  BY DEF Dispatch, TypeOK
<1>2. /\ pend'[w] = Tail(pend[w])
      /\ \A v \in Workers \ {w} : pend'[v] = pend[v] /\ job'[v] = job[v]
      /\ job'[w] = c
  BY <1>1
<1>3. /\ Len(pend[w]) \in Nat /\ Len(pend[w]) >= 1
      /\ Len(pend'[w]) = Len(pend[w]) - 1
      /\ \A i \in 1..Len(pend'[w]) : pend'[w][i] = pend[w][i + 1]
      /\ c = pend[w][1]
      /\ c \in Calls
  BY <1>1, <1>2
<1>4. \A v \in Workers, d \in Calls :
          Queued(v, d)' <=> (Queued(v, d) /\ ~(v = w /\ d = c))
  <2> SUFFICES ASSUME NEW v \in Workers, NEW d \in Calls
               PROVE  Queued(v, d)' <=> (Queued(v, d) /\ ~(v = w /\ d = c))
    OBVIOUS
  <2>1. CASE v # w
    BY <1>2, <2>1 DEF Queued
  <2>2. CASE v = w
    <3>1. ASSUME Queued(w, d)'
          PROVE  Queued(w, d) /\ d # c
      <4>1. PICK i \in 1..Len(pend'[w]) : pend'[w][i] = d
        BY <3>1 DEF Queued
      <4>2. i + 1 \in 1..Len(pend[w]) /\ pend[w][i + 1] = d /\ i + 1 # 1
        BY <1>3, <4>1
      <4> QED BY <1>3, <4>2 DEF Queued, NoRepeats
    <3>2. ASSUME Queued(w, d), d # c
          PROVE  Queued(w, d)'
      <4>1. PICK i \in 1..Len(pend[w]) : pend[w][i] = d
        BY <3>2 DEF Queued
      <4>2. i # 1 /\ i - 1 \in 1..Len(pend'[w])
        BY <1>3, <3>2, <4>1
      <4>3. pend'[w][i - 1] = pend[w][(i - 1) + 1]
        BY <1>3, <4>2
      <4>4. pend'[w][i - 1] = d
        BY <4>1, <4>2, <4>3
      <4> QED BY <4>2, <4>4 DEF Queued
    <3> QED BY <2>2, <3>1, <3>2
  <2> QED BY <2>1, <2>2
<1>5. Queued(w, c)
  BY <1>3 DEF Queued
<1>6. \A v \in Workers, d \in Calls : Holds(v, d)' <=> Holds(v, d)
  BY <1>1, <1>2, <1>3, <1>4, <1>5, CallsAssumption DEF Holds
<1>7. NoRepeats'
  <2> SUFFICES ASSUME NEW v \in Workers,
                      NEW i \in 1..Len(pend'[v]), NEW j \in 1..Len(pend'[v]),
                      pend'[v][i] = pend'[v][j]
               PROVE  i = j
    BY DEF NoRepeats
  <2>1. CASE v = w
    <3>1. /\ i + 1 \in 1..Len(pend[w]) /\ j + 1 \in 1..Len(pend[w])
          /\ pend[w][i + 1] = pend[w][j + 1]
      BY <1>3, <2>1
    <3>2. i + 1 = j + 1
      BY <3>1 DEF NoRepeats
    <3> QED BY <3>2
  <2>2. CASE v # w
    BY <1>2, <2>2 DEF NoRepeats
  <2> QED BY <2>1, <2>2
<1>8. OneHandler'
  <2>1. \A v \in Workers, d \in Calls : job'[v] = d => ~Queued(v, d)'
    BY <1>1, <1>2, <1>3, <1>4, CallsAssumption DEF OneHandler
  <2> QED BY <1>1, <1>6, <2>1 DEF OneHandler
<1> QED BY <1>1, <1>6, <1>7, <1>8 DEF Active

(* Every step keeps each request at one place, and only Publish brings a   *)
(* request into being.                                                     *)
LEMMA HandlersStep ==
    ASSUME Ownership, [Next]_vars
    PROVE  /\ NoRepeats'
           /\ OneHandler'
           /\ \A d \in Calls : Active(d)' => Active(d) \/ Publish(d)
<1> DEFINE Goal == /\ NoRepeats'
                   /\ OneHandler'
                   /\ \A d \in Calls : Active(d)' => Active(d) \/ Publish(d)
<1>1. ASSUME reqs' \subseteq reqs,
             \A w \in Workers : pend'[w] = pend[w] \/ pend'[w] = <<>>,
             \A w \in Workers : job'[w] = job[w] \/ job'[w] = NoCall
      PROVE  Goal
  BY <1>1, FewerRequests DEF Ownership
<1>2. CASE UNCHANGED <<reqs, pend, job>>
  BY <1>1, <1>2
<1>3. ASSUME NEW c \in Calls, HubCaller(c) \/ Receiver(c)
      PROVE  Goal
  <2>1. CASE Publish(c)
    BY <2>1, PublishHandlers
  <2>2. CASE ~Publish(c)
    <3>1. UNCHANGED <<reqs, pend, job>>
      BY <1>3, <2>2 DEF HubCaller, ReadStep, Receiver, Subscribe, RoundTripFails,
         PublishFails, ReadHead, ReadChunk, ReadEnd, CloseBody, NextMsgCheck,
         NextMsgPop, NextMsgTimeout, NextMsgClosed, ClosePipe, Unsubscribe,
         edgeVars
    <3> QED BY <1>2, <3>1
  <2> QED BY <2>1, <2>2
<1>4. ASSUME NEW c \in Calls, Server(c)
      PROVE  Goal
  <2>1. ASSUME NEW w \in Workers, RouteRequest(c, w)
        PROVE  Goal
    BY <2>1, RouteHandlers
  <2>2. CASE NoInterest(c) \/ LoseRequest(c) \/ Deliver(c) \/ LoseMessage(c)
    <3>1. reqs' \subseteq reqs /\ UNCHANGED <<pend, job>>
      BY <2>2 DEF NoInterest, LoseRequest, Deliver, LoseMessage, edgeVars
    <3> QED BY <1>1, <3>1
  <2> QED BY <1>4, <2>1, <2>2 DEF Server, Route
<1>5. ASSUME NEW w \in Workers, Worker(w)
      PROVE  Goal
  <2>1. CASE Dispatch(w)
    BY <2>1, DispatchHandlers
  <2>2. CASE RespondOk(w) \/ RespondError(w) \/ CopyChunk(w)
    BY <1>2, <2>2 DEF RespondOk, RespondError, CopyChunk
  <2>3. CASE FinalFlush(w) \/ FinalEmpty(w) \/ WriteError(w) \/ FinishUnpublished(w)
    <3>1. /\ reqs' = reqs /\ pend' = pend
          /\ job' = [job EXCEPT ![w] = NoCall]
      BY <2>3 DEF FinalFlush, FinalEmpty, WriteError, FinishUnpublished
    <3>2. \A v \in Workers : job'[v] = job[v] \/ job'[v] = NoCall
      BY <3>1 DEF Ownership, TypeOK
    <3> QED BY <1>1, <3>1, <3>2
  <2> QED BY <1>5, <2>1, <2>2, <2>3 DEF Worker
<1>6. ASSUME NEW p \in Pods, Crash(p)
      PROVE  Goal
  BY <1>1, <1>6 DEF Crash
<1>7. ASSUME NEW p \in Pods, Restart(p)
      PROVE  Goal
  BY <1>2, <1>7 DEF Restart
<1>8. CASE CloseConn
  BY <1>2, <1>8 DEF CloseConn, edgeVars
<1>9. CASE UNCHANGED vars
  BY <1>2, <1>9 DEF vars, edgeVars
<1> QED BY <1>3, <1>4, <1>5, <1>6, <1>7, <1>8, <1>9 DEF Next

(* Every step keeps the subscription and the receiver of a call together.  *)
LEMMA ListenerStep ==
    ASSUME Ownership, [Next]_vars, NEW d \in Calls,
           Active(d)' => Active(d) \/ Publish(d)
    PROVE  ListenerInv(d)'
<1> USE DEF Unstarted, Running, Reading
<1>1. /\ ListenerInv(d)
      /\ caller \in [Calls -> CallerStates]
      /\ sub \in [Calls -> {"none", "live", "gone"}]
      /\ rcv \in [Calls -> RcvStates]
      /\ pipe \in [Calls -> {"open", "eof", "err"}]
  BY DEF Ownership, TypeOK
<1>2. Publish(d) => caller[d] = "subscribed" /\ caller'[d] = "header"
  BY <1>1 DEF Publish
<1>3. ASSUME caller'[d] = caller[d], sub'[d] = sub[d], rcv'[d] = rcv[d],
             pipe'[d] = pipe[d], connected' = connected
      PROVE  ListenerInv(d)'
  <2>1. Active(d)' => Active(d)
    BY <1>2, <1>3
  <2> QED BY <1>1, <1>3, <2>1 DEF ListenerInv
<1>4. ASSUME NEW c \in Calls, HubCaller(c) \/ Receiver(c)
      PROVE  ListenerInv(d)'
  <2>9. connected' = connected
    BY <1>4 DEF HubCaller, ReadStep, Receiver, Subscribe, RoundTripFails, Publish,
       PublishFails, ReadHead, ReadChunk, ReadEnd, CloseBody, NextMsgCheck,
       NextMsgPop, NextMsgTimeout, NextMsgClosed, ClosePipe, Unsubscribe
  <2>1. CASE c # d
    <3>1. /\ caller'[d] = caller[d] /\ sub'[d] = sub[d]
          /\ rcv'[d] = rcv[d] /\ pipe'[d] = pipe[d]
      BY <1>1, <1>4, <2>1 DEF HubCaller, ReadStep, Receiver, Subscribe,
         RoundTripFails, Publish, PublishFails, ReadHead, ReadChunk, ReadEnd,
         CloseBody, NextMsgCheck, NextMsgPop, NextMsgTimeout, NextMsgClosed,
         ClosePipe, Unsubscribe
    <3> QED BY <1>3, <2>9, <3>1
  <2>2. CASE Subscribe(d)
    <3>1. caller[d] = "idle" /\ ~Active(d)'
      BY <1>1, <1>2, <2>2 DEF Subscribe, ListenerInv
    <3> QED BY <1>1, <2>2, <3>1 DEF Subscribe, ListenerInv
  <2>3. CASE Publish(d)
    BY <1>1, <2>3 DEF Publish, ListenerInv
  <2>4. CASE RoundTripFails(d) \/ PublishFails(d)
    <3>1. ~Active(d)'
      BY <1>1, <1>2, <2>4 DEF RoundTripFails, PublishFails, ListenerInv
    <3> QED BY <1>1, <2>4, <3>1 DEF RoundTripFails, PublishFails, ListenerInv
  <2>5. CASE ReadHead(d) \/ ReadEnd(d) \/ CloseBody(d)
    <3>1. Reading(d) /\ ~Unstarted(d)'
      BY <1>1, <2>5 DEF ReadHead, ReadEnd, CloseBody
    <3>2. /\ sub'[d] = sub[d] /\ rcv'[d] = rcv[d] /\ pipe'[d] = pipe[d]
      BY <2>5 DEF ReadHead, ReadEnd, CloseBody
    <3>3. Active(d)' => Active(d)
      BY <1>2, <3>1
    <3>4. caller'[d] # "idle" /\ caller'[d] # "subscribed"
      BY <3>1
    <3> QED BY <1>1, <2>9, <3>1, <3>2, <3>3, <3>4 DEF ListenerInv
  <2>6. CASE ReadChunk(d)
    <3>1. Reading(d) /\ rcv[d] = "write" /\ pipe' = pipe /\ sub' = sub
      BY <2>6 DEF ReadChunk
    <3>2. ~Unstarted(d)'
      <4>1. \A x \in AfterChunk(d, got'[d]) : x \notin {"idle", "subscribed"}
        BY <3>1 DEF AfterChunk, AfterChunked, Onwards, AtEnd, OnSyntax
      <4>2. \/ caller'[d] = caller[d]
            \/ \E x \in AfterChunk(d, got'[d]) : caller'[d] = x
        BY <1>1, <2>6 DEF ReadChunk
      <4> QED BY <3>1, <4>1, <4>2
    <3>3. rcv'[d] \in {"check", "closeOk", "closeErr"}
      BY <1>1, <2>6 DEF ReadChunk, AfterWrite
    <3>4. Active(d)' => Active(d)
      BY <1>2, <3>1
    <3> QED BY <1>1, <2>9, <3>1, <3>2, <3>3, <3>4 DEF ListenerInv
  <2>7. CASE \/ NextMsgCheck(d) \/ NextMsgPop(d) \/ NextMsgTimeout(d)
             \/ NextMsgClosed(d)
    <3>1. /\ rcv[d] \in {"check", "pop"}
          /\ caller' = caller /\ sub' = sub /\ pipe' = pipe
      BY <2>7 DEF NextMsgCheck, NextMsgPop, NextMsgTimeout, NextMsgClosed
    <3>2. rcv'[d] \in {"check", "pop", "write", "closeErr"}
      BY <1>1, <2>7 DEF NextMsgCheck, NextMsgPop, NextMsgTimeout, NextMsgClosed
    <3>3. ~Unstarted(d)
      BY <1>1, <3>1 DEF ListenerInv
    <3>4. Active(d)' => Active(d)
      BY <1>2, <3>3
    <3> QED BY <1>1, <2>9, <3>1, <3>2, <3>3, <3>4 DEF ListenerInv
  <2>8. CASE ClosePipe(d) \/ Unsubscribe(d)
    <3>1. ~Unstarted(d) /\ caller' = caller
      BY <1>1, <2>8 DEF ClosePipe, Unsubscribe, ListenerInv
    <3>2. Active(d)' => Active(d)
      BY <1>2, <3>1
    <3>3. CASE ClosePipe(d)
      BY <1>1, <2>9, <3>1, <3>2, <3>3 DEF ClosePipe, ListenerInv
    <3>4. CASE Unsubscribe(d)
      BY <1>1, <2>9, <3>1, <3>2, <3>4 DEF Unsubscribe, ListenerInv
    <3> QED BY <2>8, <3>3, <3>4
  <2> QED BY <1>4, <2>1, <2>2, <2>3, <2>4, <2>5, <2>6, <2>7, <2>8
          DEF HubCaller, ReadStep, Receiver
<1>5. CASE UNCHANGED <<caller, sub, rcv, pipe, connected>>
  BY <1>3, <1>5
<1>6. ASSUME NEW c \in Calls, Server(c)
      PROVE  UNCHANGED <<caller, sub, rcv, pipe, connected>>
  BY <1>6 DEF Server, Route, RouteRequest, NoInterest, LoseRequest, Deliver,
     LoseMessage, hubVars
<1>7. ASSUME NEW w \in Workers, Worker(w)
      PROVE  UNCHANGED <<caller, sub, rcv, pipe, connected>>
  BY <1>7 DEF Worker, Dispatch, RespondOk, RespondError, CopyChunk, FinalFlush,
     FinalEmpty, WriteError, FinishUnpublished, hubVars
<1>8. ASSUME NEW p \in Pods, Crash(p) \/ Restart(p)
      PROVE  UNCHANGED <<caller, sub, rcv, pipe, connected>>
  BY <1>8 DEF Crash, Restart, hubVars
<1>9. CASE CloseConn
  <2>1. /\ UNCHANGED <<caller, rcv, pipe>> /\ ~connected'
        /\ sub'[d] = IF sub[d] = "live" THEN "gone" ELSE sub[d]
    BY <1>9 DEF CloseConn
  <2>2. Active(d)' => Active(d)
    BY <1>2, <2>1
  <2> QED BY <1>1, <2>1, <2>2 DEF ListenerInv
<1>10. CASE UNCHANGED vars
  BY <1>5, <1>10 DEF vars, hubVars
<1> QED BY <1>4, <1>5, <1>6, <1>7, <1>8, <1>9, <1>10 DEF Next

(* The inductive invariant.                                                *)
LEMMA OwnershipInvariant == Spec => []Ownership
<1>1. Ownership /\ TypeOK' /\ [Next]_vars => Ownership'
  <2> SUFFICES ASSUME Ownership, TypeOK', [Next]_vars
               PROVE  Ownership'
    OBVIOUS
  <2>1. NoRepeats' /\ OneHandler'
    BY HandlersStep
  <2>2. \A d \in Calls : ListenerInv(d)'
    BY HandlersStep, ListenerStep
  <2> QED BY <2>1, <2>2 DEF Ownership
<1> QED BY InitOwnership, TypeCorrect, <1>1, PTL DEF Spec

(* A request is handled by one member of the queue group at most, with any *)
(* number of pods, members, crashes and restarts.                          *)
THEOREM HandledOnce == Spec => []OneHandler
<1>1. Ownership => OneHandler
  BY DEF Ownership
<1> QED BY OwnershipInvariant, <1>1, PTL

(* A response that can come finds a subscription, and a caller that waits  *)
(* finds a receiver or the end of the pipe, also when the connection is    *)
(* closed under them; a receiver that is done has left nothing behind.     *)
THEOREM ListensWhileReceiving == Spec => []ListenerOwned
<1>1. Ownership => ListenerOwned
  BY DEF Ownership, TypeOK, ListenerInv, ListenerOwned, Active, Running, RcvStates
<1> QED BY OwnershipInvariant, <1>1, PTL
=============================================================================
