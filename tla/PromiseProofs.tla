---------------------------- MODULE PromiseProofs ----------------------------
(* NatsProxy implements StreamPromise: every step of the proxy is a step   *)
(* that the abstract round trip allows, or one its caller cannot see.      *)
EXTENDS StreamProofs

USE CallsAssumption, BoundsAssumption, FaultsAssumption

-----------------------------------------------------------------------------
(* What the caller sees of a step.                                         *)

Visible == <<Outcome, total, framing, sent, got>>

(* The outcome of a call that has not ended changes with its caller.       *)
LEMMA OutcomeStep ==
    ASSUME TypeOK, NEW c \in Calls, NEW x, caller' = [caller EXCEPT ![c] = x],
           caller[c] \notin Ended
    PROVE  /\ Outcome[c] = "pending"
           /\ x \notin Ended => Outcome' = Outcome
           /\ x \in Ended => Outcome' = [Outcome EXCEPT ![c] = x]
<1>1. Outcome = [d \in Calls |-> IF caller[d] \in Ended THEN caller[d] ELSE "pending"]
  BY DEF Outcome
<1>2. Outcome' = [d \in Calls |-> IF caller'[d] \in Ended THEN caller'[d] ELSE "pending"]
  BY DEF Outcome
<1>3. \A d \in Calls : caller'[d] = IF d = c THEN x ELSE caller[d]
  BY DEF TypeOK
<1>4. Outcome[c] = "pending"
  BY <1>1
<1>5. x \notin Ended => Outcome' = Outcome
  BY <1>1, <1>2, <1>3
<1>6. x \in Ended => Outcome' = [Outcome EXCEPT ![c] = x]
  BY <1>1, <1>2, <1>3
<1> QED BY <1>4, <1>5, <1>6

(* Where the caller does not move, its outcome does not change.            *)
LEMMA OutcomeKept == ASSUME caller' = caller PROVE Outcome' = Outcome
BY DEF Outcome

(* A call that ends in an error, or is closed, has been given up.          *)
LEMMA GivenUp ==
    ASSUME TypeOK, NEW c \in Calls, NEW x \in {"err", "closed"},
           caller[c] \notin Ended, caller' = [caller EXCEPT ![c] = x],
           UNCHANGED <<total, framing, sent, got>>
    PROVE  Promise!GiveUp(c)
<1>1. x \in Ended
  BY DEF Ended
<1>2. Outcome[c] = "pending" /\ Outcome' = [Outcome EXCEPT ![c] = x]
  BY <1>1, OutcomeStep
<1> QED BY <1>2 DEF Promise!GiveUp

(* The steps of the caller.                                                *)
LEMMA CallerPromise ==
    ASSUME Stream, NEW c \in Calls, HubCaller(c), ~ReadChunk(c)
    PROVE  Promise!Next \/ UNCHANGED Visible
<1> USE DEF edgeVars
<1>1. TypeOK /\ StreamInv(c)
  BY DEF Stream, Ownership
<1>2. UNCHANGED <<total, framing, sent, got>>
  BY DEF HubCaller, ReadStep, Subscribe, RoundTripFails, Publish, PublishFails,
     ReadHead, ReadEnd, CloseBody
<1>3. ASSUME NEW x, caller' = [caller EXCEPT ![c] = x], x \notin Ended,
             caller[c] \notin Ended
      PROVE  UNCHANGED Visible
  BY <1>1, <1>2, <1>3, OutcomeStep DEF Visible
<1>4. ASSUME NEW x \in {"err", "closed"}, caller' = [caller EXCEPT ![c] = x],
             caller[c] \notin Ended
      PROVE  Promise!Next
  <2>1. Promise!GiveUp(c)
    BY <1>1, <1>2, <1>4, GivenUp
  <2> QED BY <2>1 DEF Promise!Next
<1>5. CASE Subscribe(c)
  BY <1>3, <1>5 DEF Subscribe, Ended
<1>6. CASE RoundTripFails(c)
  BY <1>4, <1>6 DEF RoundTripFails, Ended
<1>7. CASE Publish(c)
  BY <1>3, <1>7 DEF Publish, Ended
<1>8. CASE PublishFails(c)
  BY <1>4, <1>8 DEF PublishFails, Ended
<1>9. CASE ReadHead(c)
  BY <1>3, <1>9 DEF ReadHead, Ended
<1>10. CASE CloseBody(c)
  <2>1. CASE framing[c] \in {"length", "chunked"}
    <3>1. caller[c] = "body" /\ caller' = [caller EXCEPT ![c] = "draining"]
      BY <1>10, <2>1 DEF CloseBody
    <3> QED BY <1>3, <3>1 DEF Ended
  <2>2. CASE framing[c] \notin {"length", "chunked"}
    <3>1. caller[c] = "body" /\ caller' = [caller EXCEPT ![c] = "closed"]
      BY <1>10, <2>2 DEF CloseBody
    <3> QED BY <1>4, <3>1 DEF Ended
  <2> QED BY <2>1, <2>2
<1>11. CASE ReadEnd(c)
  <2> DEFINE x == IF caller[c] = "draining" THEN "closed"
                  ELSE IF caller[c] = "body" /\ pipe[c] = "eof" /\ framing[c] = "stream"
                  THEN "ok" ELSE "err"
  <2>1. caller[c] \notin Ended /\ caller' = [caller EXCEPT ![c] = x]
    BY <1>11 DEF ReadEnd, Reading, Ended
  <2>2. CASE x # "ok"
    <3>1. x \in {"err", "closed"}
      BY <2>2
    <3> HIDE DEF x
    <3> QED BY <1>4, <2>1, <3>1
  <2>3. CASE x = "ok"
    <3>1. pipe[c] = "eof" /\ framing[c] = "stream"
      BY <2>3
    <3>2. /\ total[c] # 0 /\ sent[c] = total[c]
          /\ framing[c] \notin Delimited \cup Terminated
      BY <1>1, <3>1 DEF StreamInv, EndInv, Complete, Delimited, Terminated
    <3>3. Outcome[c] = "pending" /\ Outcome' = [Outcome EXCEPT ![c] = "ok"]
      BY <1>1, <2>1, <2>3, OutcomeStep DEF Ended
    <3>4. Promise!End(c)
      BY <1>2, <3>2, <3>3 DEF Promise!End
    <3> QED BY <3>4 DEF Promise!Next
  <2> QED BY <2>2, <2>3
<1> QED BY <1>5, <1>6, <1>7, <1>8, <1>9, <1>10, <1>11 DEF HubCaller, ReadStep


(* The caller reads a chunk: it is later than what it has, has been        *)
(* written, and makes the body whole when the caller is told so.           *)
LEMMA ReadPromise ==
    ASSUME Stream, Stream', OkIsIntact', NEW c \in Calls, ReadChunk(c)
    PROVE  Promise!Next \/ UNCHANGED Visible
<1> USE DEF edgeVars
<1> DEFINE m == cur[c]
<1>1. TypeOK /\ StreamInv(c)
  BY DEF Stream, Ownership
<1>2. /\ rcv[c] = "write" /\ caller[c] \notin Ended
      /\ UNCHANGED <<total, framing, sent>>
  BY DEF ReadChunk, Reading, Ended
<1>3. CASE ~m.data
  <2>1. UNCHANGED <<got, caller>>
    BY <1>3 DEF ReadChunk
  <2> QED BY <1>2, <2>1, OutcomeKept DEF Visible
<1>4. CASE m.data
  <2>1. PICK x \in AfterChunk(c, got'[c]) :
           /\ got' = [got EXCEPT ![c] = Append(got[c], m.n)]
           /\ caller' = [caller EXCEPT ![c] = x]
    BY <1>4 DEF ReadChunk
  <2>2. m \in Message /\ m = Wire(c)[1] /\ 1 \in 1..Len(Wire(c))
    <3>1. m \in Message /\ Wire(c) # <<>> /\ Head(Wire(c)) = m
      BY <1>1, <1>2, HeldFirst
    <3>2. Wire(c) \in Seq(Message)
      BY <1>1, WireType
    <3> QED BY <3>1, <3>2, HeadAndTail
  <2>3. m.n \in 1..sent[c]
    <3>1. Sound(c, m)
      BY <1>1, <2>2 DEF StreamInv, OrderInv
    <3>2. m.n \in 1..(MaxChunks + 1) /\ sent[c] \in Nat
      BY <1>1, <2>2 DEF TypeOK, Message
    <3>3. m.n <= sent[c]
      BY <1>4, <3>1 DEF Sound
    <3> QED BY <3>2, <3>3
  <2>4. \A i \in 1..Len(got[c]) : got[c][i] < m.n
    BY <1>1, <2>2 DEF StreamInv, OrderInv, Precedes
  <2>5. Outcome[c] = "pending"
    BY <1>1, <1>2, <2>1, OutcomeStep
  <2>6. \/ Outcome' = Outcome
        \/ \E o \in {"err", "closed"} : Outcome' = [Outcome EXCEPT ![c] = o]
        \/ /\ Promise!AtEnd(c, got'[c])
           /\ Outcome' = [Outcome EXCEPT ![c] = "ok"]
    <3>1. CASE x \notin Ended
      BY <1>1, <1>2, <2>1, <3>1, OutcomeStep
    <3>2. CASE x \in {"err", "closed"}
      <4>1. Outcome' = [Outcome EXCEPT ![c] = x]
        BY <1>1, <1>2, <2>1, <3>2, OutcomeStep DEF Ended
      <4> QED BY <3>2, <4>1
    <3>3. CASE x = "ok"
      <4>1. Outcome' = [Outcome EXCEPT ![c] = "ok"]
        BY <1>1, <1>2, <2>1, <3>3, OutcomeStep DEF Ended
      <4>2. framing[c] \in Delimited \cup Terminated
        BY <1>2, <2>1, <3>3 DEF AfterChunk, AfterChunked, Onwards, AtEnd, OnSyntax, Ended
      <4>3. caller'[c] = "ok"
        BY <1>1, <2>1, <3>3 DEF TypeOK
      <4>4. CASE framing[c] \in Delimited
        <5>1. got'[c] = FirstChunks(total[c])
          BY <1>2, <4>3, <4>4 DEF OkIsIntact
        <5> QED BY <4>1, <4>4, <5>1 DEF FirstChunks, Promise!AtEnd, Promise!Whole
      <4>5. CASE framing[c] \in Terminated
        <5>1. EndsWith(got'[c], total[c])
          BY <1>2, <4>3, <4>5 DEF Stream, StreamInv, EndInv
        <5> QED BY <4>1, <4>5, <5>1 DEF EndsWith, Promise!AtEnd
      <4> QED BY <4>2, <4>4, <4>5
    <3> QED BY <3>1, <3>2, <3>3 DEF Ended
  <2>7. Promise!Read(c)
    BY <1>2, <2>1, <2>3, <2>4, <2>5, <2>6 DEF Promise!Read
  <2> QED BY <2>7 DEF Promise!Next
<1> QED BY <1>3, <1>4

(* The steps of a member: an answer, a chunk, or nothing the caller sees.  *)
LEMMA WorkerPromise ==
    ASSUME Stream, NEW w \in Workers, Worker(w)
    PROVE  Promise!Next \/ UNCHANGED Visible
<1> USE DEF hubVars
<1> DEFINE c == job[w]
<1>1. TypeOK
  BY DEF Stream, Ownership
<1>2. Outcome' = Outcome /\ got' = got
  BY OutcomeKept DEF Worker, Dispatch, RespondOk, RespondError, CopyChunk,
     FinalFlush, FinalEmpty, WriteError, FinishUnpublished
<1>3. CASE RespondOk(w) \/ RespondError(w)
  <2>1. c \in Calls /\ total[c] = 0 /\ sent' = sent
    BY <1>1, <1>3 DEF RespondOk, RespondError, Responding, TypeOK
  <2>2. /\ \E k \in 1..MaxChunks : total' = [total EXCEPT ![c] = k]
        /\ \E f \in Framings : framing' = [framing EXCEPT ![c] = f]
    <3>1. 1 \in 1..MaxChunks /\ "closing" \in Framings /\ Kinds \subseteq Framings
      BY DEF Framings
    <3> QED BY <1>3, <3>1 DEF RespondOk, RespondError
  <2> HIDE DEF c
  <2>3. Promise!Answer(c)
    BY <1>2, <2>1, <2>2 DEF Promise!Answer
  <2> QED BY <2>1, <2>3 DEF Promise!Next
<1>4. CASE CopyChunk(w) \/ FinalFlush(w)
  <2>1. /\ c \in Calls /\ UNCHANGED <<total, framing>>
        /\ sent' = [sent EXCEPT ![c] = @ + 1]
    BY <1>1, <1>4 DEF CopyChunk, FinalFlush, Copying, TypeOK
  <2>2. sent[c] < total[c]
    <3>1. sent[c] \in Nat /\ total[c] \in Nat
      BY <1>1, <2>1 DEF TypeOK
    <3>2. sent[c] < total[c] \/ sent[c] + 1 = total[c]
      BY <1>4 DEF CopyChunk, FinalFlush, MoreToCopy
    <3> QED BY <3>1, <3>2
  <2> HIDE DEF c
  <2>3. Promise!Write(c)
    BY <1>2, <2>1, <2>2 DEF Promise!Write
  <2> QED BY <2>1, <2>3 DEF Promise!Next
<1>5. CASE Dispatch(w) \/ FinalEmpty(w) \/ WriteError(w) \/ FinishUnpublished(w)
  <2>1. UNCHANGED <<total, framing, sent>>
    BY <1>5 DEF Dispatch, FinalEmpty, WriteError, FinishUnpublished
  <2> QED BY <1>2, <2>1 DEF Visible
<1> QED BY <1>3, <1>4, <1>5 DEF Worker

(* Everything else: the receiver, NATS, and pods that go or come.          *)
LEMMA HiddenSteps ==
    ASSUME \/ \E c \in Calls : Receiver(c) \/ Server(c)
           \/ \E p \in Pods : Crash(p) \/ Restart(p)
           \/ CloseConn
           \/ UNCHANGED vars
    PROVE  UNCHANGED Visible
<1>1. UNCHANGED <<caller, total, framing, sent, got>>
  BY DEF Receiver, NextMsgCheck, NextMsgPop, NextMsgTimeout, NextMsgClosed,
     ClosePipe, Unsubscribe, CloseConn, Server, Route, RouteRequest, NoInterest, LoseRequest, Deliver, LoseMessage,
     Crash, Restart, vars, hubVars, edgeVars
<1> QED BY <1>1, OutcomeKept DEF Visible

(* Every step of the proxy is a step of the promise, or invisible.         *)
LEMMA PromiseStep ==
    ASSUME Stream, Stream', OkIsIntact', [Next]_vars
    PROVE  [Promise!Next]_Promise!vars
<1>1. Promise!Next \/ UNCHANGED Visible
  BY CallerPromise, ReadPromise, WorkerPromise, HiddenSteps DEF Next
<1> QED BY <1>1 DEF Promise!vars, Visible

(* The proxy starts where the promise does.                                *)
LEMMA InitPromise == Init => Promise!Init
<1> SUFFICES ASSUME Init
             PROVE  Promise!Init
  OBVIOUS
<1>1. Outcome = [c \in Calls |-> "pending"]
  BY DEF Init, Outcome, Ended
<1>2. framing \in [Calls -> Framings]
  BY DEF Init, Framings
<1> QED BY <1>1, <1>2 DEF Init, Promise!Init

(* The path of a round trip over NATS, with losses, crashes, slow          *)
(* consumers and early closes, does nothing StreamPromise forbids.         *)
THEOREM ImplementsPromise == Spec => PromiseKept
<1>1. Stream /\ Stream' /\ OkIsIntact' /\ [Next]_vars => [Promise!Next]_Promise!vars
  BY PromiseStep
<1> QED BY InitPromise, StreamInvariant, IntactWhenOk, <1>1, PTL DEF Spec, PromiseKept, Promise!Spec
=============================================================================
