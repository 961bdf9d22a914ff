--------------------------- MODULE RoundTripProofs --------------------------
(* Theorems about RoundTrip, for every set of callers and buffers and all  *)
(* times.                                                                  *)
EXTENDS RoundTrip, TLAPS

USE TimesAssumption, NoneAssumption

-----------------------------------------------------------------------------
(* The operators on times.                                                 *)

(* The smaller of two integers.                                            *)
LEMMA MinOfTwo ==
    ASSUME NEW a \in Int, NEW b \in Int
    PROVE  Min({a, b}) = IF a <= b THEN a ELSE b
<1> DEFINE least == IF a <= b THEN a ELSE b
<1>1. least \in {a, b} /\ \A y \in {a, b} : least <= y
  OBVIOUS
<1>2. \A x \in {a, b} : (\A y \in {a, b} : x <= y) => x = least
  OBVIOUS
<1> QED BY <1>1, <1>2 DEF Min

(* The larger of two integers.                                             *)
LEMMA MaxOfTwo ==
    ASSUME NEW a \in Int, NEW b \in Int
    PROVE  Max({a, b}) = IF a <= b THEN b ELSE a
<1> DEFINE most == IF a <= b THEN b ELSE a
<1>1. most \in {a, b} /\ \A y \in {a, b} : most >= y
  OBVIOUS
<1>2. \A x \in {a, b} : (\A y \in {a, b} : x >= y) => x = most
  OBVIOUS
<1> QED BY <1>1, <1>2 DEF Max

(* A timeout is a positive time, and at most each limit, provided that both*)
(* limits lie ahead.                                                       *)
LEMMA TimeoutBounds ==
    ASSUME NEW t \in Nat, NEW d \in Nat \cup {NoDeadline}, NEW at \in Nat
    PROVE  /\ timeout(t, d, at) \in Nat \ {0}
           /\ t > 0 /\ (d # NoDeadline => d - at > 0) =>
                /\ timeout(t, d, at) <= t
                /\ d # NoDeadline => timeout(t, d, at) <= d - at
           /\ t > 1 /\ (d # NoDeadline => d - at > 1) => timeout(t, d, at) > 1
<1>1. CASE d = NoDeadline
  BY <1>1 DEF timeout
<1>2. CASE d # NoDeadline
  <2>1. d \in Nat /\ d - at \in Int
    BY <1>2
  <2>2. Min({t, d - at}) = IF t <= d - at THEN t ELSE d - at
    BY <2>1, MinOfTwo
  <2> QED BY <1>2, <2>1, <2>2 DEF timeout
<1> QED BY <1>1, <1>2

(* What is persisted leaves a margin.                                      *)
LEMMA PersistedMargin ==
    ASSUME NEW t \in Nat \ {0}
    PROVE  Persisted(t) \in Nat /\ Persisted(t) = t - 1
<1>1. Max({0, t - 1}) = t - 1
  BY MaxOfTwo
<1> QED BY <1>1 DEF Persisted

-----------------------------------------------------------------------------
(* The invariant: who has a buffer has it alone, and it holds what its     *)
(* caller has written to it; what is on the wire is what was encoded; the  *)
(* limits are those of the time of encoding.                               *)

Holding(c) == pc[c] \in {"written", "encoded", "published"}
Plain(c)   == <<[request |-> c]>>
Encoded(c) == <<[Request |-> Plain(c), Timeout |-> Persisted(hub[c])]>>

Owned ==
    /\ \A c \in Callers : Holding(c) => buf[c] \in Buffers \ pool
    /\ \A c, d \in Callers :
         Holding(c) /\ Holding(d) /\ c # d => buf[c] # buf[d]

Filled ==
    \A c \in Callers :
        /\ pc[c] = "written" => content[buf[c]] = Plain(c)
        /\ pc[c] = "encoded" => content[buf[c]] = Encoded(c)

Sent ==
    \A c \in Callers : wire[c] # None =>
        wire[c] = Encoded(c) /\ pc[c] \in {"published", "returned"}

Limited ==
    \A c \in Callers :
        /\ pc[c] \in {"encoded", "published"} => hub[c] # Unknown
        /\ wire[c] # None => hub[c] # Unknown
        /\ hub[c] # Unknown => hub[c] = timeout(limit, deadline[c], began[c])
        /\ edge[c] # Unknown =>
             wire[c] # None /\ edge[c] = ClientTimeout(Persisted(hub[c]))

Inv == TypeOK /\ Owned /\ Filled /\ Sent /\ Limited

(* The bytes of a request are a payload, and an R with them and any limit. *)
LEMMA Payloads ==
    ASSUME NEW c \in Callers, NEW t \in Nat
    PROVE  /\ Plain(c) \in Seq(Payload)
           /\ <<[Request |-> Plain(c), Timeout |-> t]>> \in Seq(Payload)
BY DEF Plain, Payload, Written

(* It holds initially.                                                     *)
LEMMA InitInv == Init => Inv
<1> SUFFICES ASSUME Init PROVE Inv
  OBVIOUS
<1>1. TypeOK
  BY DEF Init, TypeOK, Unknown
<1>2. Owned /\ Filled /\ Sent /\ Limited
  BY DEF Init, Owned, Filled, Sent, Limited, Holding, Unknown
<1> QED BY <1>1, <1>2 DEF Inv

(* A buffer is taken from the pool and written.                            *)
LEMMA WriteProxyInv ==
    ASSUME Inv, NEW c \in Callers, WriteProxy(c)
    PROVE  Inv'
<1>1. PICK b \in pool :
        /\ buf' = [buf EXCEPT ![c] = b]
        /\ pool' = pool \ {b}
        /\ content' = [content EXCEPT ![b] = Plain(c)]
  BY DEF WriteProxy, Plain
<1> USE <1>1 DEF Inv, WriteProxy, timeVars
<1>2. b \in Buffers /\ b # None
  BY DEF TypeOK
<1>3. TypeOK'
  <2>1. Plain(c) \in Seq(Payload)
    BY Payloads
  <2> QED BY <1>2, <2>1 DEF TypeOK
<1>4. Owned'
  BY <1>2 DEF TypeOK, Owned, Holding
<1>5. \A d \in Callers : Holding(d) => buf[d] # b
  BY DEF Owned, Holding
<1>6. Filled'
  BY <1>2, <1>5 DEF TypeOK, Filled, Encoded, Holding
<1>7. Sent' /\ Limited'
  BY DEF TypeOK, Sent, Limited, Encoded
<1> QED BY <1>3, <1>4, <1>6, <1>7

(* R is encoded into the buffer its request is in.                         *)
LEMMA EncodeInv ==
    ASSUME Inv, NEW c \in Callers, Encode(c)
    PROVE  Inv'
<1> DEFINE t == timeout(limit, deadline[c], now)
<1> USE DEF Inv, Encode
<1>1. t \in Nat \ {0}
  <2>1. /\ limit \in Nat /\ now \in Nat
        /\ deadline[c] \in Nat \cup {NoDeadline}
    BY DEF TypeOK
  <2> QED BY <2>1, TimeoutBounds, Zenon
<1>2. Persisted(t) \in Nat
  BY <1>1, PersistedMargin
<1> HIDE DEF t
<1>3. hub' = [hub EXCEPT ![c] = t]
  BY DEF t
<1>4. hub'[c] = t
  BY <1>3 DEF TypeOK
<1>5. buf[c] \in Buffers /\ content[buf[c]] = Plain(c)
  BY DEF Owned, Filled, Holding
<1>6. content' = [content EXCEPT ![buf[c]] =
                    <<[Request |-> Plain(c), Timeout |-> Persisted(t)]>>]
  BY <1>4, <1>5 DEF TypeOK
<1>7. TypeOK'
  <2>1. <<[Request |-> Plain(c), Timeout |-> Persisted(t)]>> \in Seq(Payload)
    BY <1>2, Payloads
  <2>2. content' \in [Buffers -> Seq(Payload)]
    BY <1>5, <1>6, <2>1 DEF TypeOK
  <2>3. hub' \in [Callers -> Nat \cup {Unknown}]
    BY <1>1, <1>3 DEF TypeOK
  <2> QED BY <2>2, <2>3 DEF TypeOK
<1>8. Owned'
  BY DEF TypeOK, Owned, Holding
<1>9. wire[c] = None
  BY DEF Sent
<1>10. \A d \in Callers \ {c} : hub'[d] = hub[d] /\ pc'[d] = pc[d]
  BY <1>3 DEF TypeOK
<1>11. Filled'
  <2>1. \A d \in Callers \ {c} : Holding(d) => content'[buf[d]] = content[buf[d]]
    BY <1>5, <1>6 DEF TypeOK, Owned, Holding
  <2>2. content'[buf[c]] = <<[Request |-> Plain(c), Timeout |-> Persisted(t)]>>
    BY <1>5, <1>6 DEF TypeOK
  <2>3. pc'[c] = "encoded"
    BY DEF TypeOK
  <2> QED BY <1>4, <1>10, <2>1, <2>2, <2>3 DEF Filled, Encoded, Holding
<1>12. Sent'
  BY <1>9, <1>10 DEF Sent, Encoded
<1>13. Limited'
  <2>1. began'[c] = now /\ \A d \in Callers \ {c} : began'[d] = began[d]
    BY DEF TypeOK
  <2>2. edge[c] = Unknown
    BY <1>9 DEF Limited
  <2>3. hub'[c] # Unknown
    BY <1>1, <1>4 DEF Unknown
  <2>4. hub'[c] = timeout(limit', deadline'[c], began'[c])
    BY <1>4, <2>1 DEF t
  <2> QED BY <1>9, <1>10, <2>1, <2>2, <2>3, <2>4 DEF Limited
<1> QED BY <1>7, <1>8, <1>11, <1>12, <1>13

(* The encoded buffer is published.                                        *)
LEMMA PublishInv ==
    ASSUME Inv, NEW c \in Callers, Publish(c)
    PROVE  Inv'
<1> USE DEF Inv, Publish, timeVars
<1>1. buf[c] \in Buffers /\ content[buf[c]] = Encoded(c)
  BY DEF Owned, Filled, Holding
<1>2. TypeOK'
  BY <1>1 DEF TypeOK
<1>3. Owned' /\ Filled'
  BY DEF TypeOK, Owned, Filled, Holding, Encoded
<1>4. Sent'
  BY <1>1 DEF TypeOK, Sent, Encoded
<1>5. Limited'
  <2>1. edge[c] = Unknown /\ hub[c] # Unknown
    BY DEF Sent, Limited
  <2>2. \A d \in Callers \ {c} : wire'[d] = wire[d] /\ pc'[d] = pc[d]
    BY DEF TypeOK
  <2> QED BY <2>1, <2>2 DEF Limited
<1> QED BY <1>2, <1>3, <1>4, <1>5

(* The buffer goes back, after the publish or after an error.              *)
LEMMA ReturnInv ==
    ASSUME Inv, NEW c \in Callers, Return(c) \/ Fail(c)
    PROVE  Inv'
<1>1. /\ Holding(c)
      /\ pool' = pool \cup {buf[c]}
      /\ pc' = [pc EXCEPT ![c] = "returned"]
      /\ UNCHANGED <<now, timeVars, buf, content, wire>>
  BY DEF Return, Fail, MayReturn, Holding
<1> USE <1>1 DEF Inv, timeVars
<1>2. buf[c] \in Buffers
  BY DEF Owned
<1>3. TypeOK'
  BY <1>2 DEF TypeOK
<1>4. Owned'
  BY DEF TypeOK, Owned, Holding
<1>5. Filled' /\ Sent' /\ Limited'
  BY DEF TypeOK, Filled, Sent, Limited, Encoded
<1> QED BY <1>3, <1>4, <1>5

(* The edge starts with the limit it decodes.                              *)
LEMMA RespondInv ==
    ASSUME Inv, NEW c \in Callers, Respond(c)
    PROVE  Inv'
<1> USE DEF Inv, Respond
<1>1. wire[c][1].Timeout = Persisted(hub[c])
  <2>1. wire[c] = Encoded(c)
    BY DEF Sent
  <2> QED BY <2>1 DEF Encoded
<1>2. hub[c] \in Nat \ {0}
  <2>1. hub[c] = timeout(limit, deadline[c], began[c])
    BY DEF Limited
  <2>2. /\ limit \in Nat /\ began[c] \in Nat
        /\ deadline[c] \in Nat \cup {NoDeadline}
    BY DEF TypeOK
  <2> QED BY <2>1, <2>2, TimeoutBounds, Zenon
<1>3. edge' = [edge EXCEPT ![c] = ClientTimeout(Persisted(hub[c]))]
  BY <1>1
<1>4. TypeOK'
  <2>1. ClientTimeout(Persisted(hub[c])) \in Nat
    BY <1>2, PersistedMargin DEF ClientTimeout
  <2> QED BY <1>3, <2>1 DEF TypeOK
<1>5. Owned' /\ Filled' /\ Sent'
  BY DEF Owned, Filled, Sent, Holding, Encoded
<1>6. Limited'
  BY <1>3 DEF TypeOK, Limited
<1> QED BY <1>4, <1>5, <1>6

(* Every step keeps the invariant.                                         *)
LEMMA NextInv == Inv /\ [Next]_vars => Inv'
<1> SUFFICES ASSUME Inv, [Next]_vars PROVE Inv'
  OBVIOUS
<1>1. CASE Tick
  <2>1. TypeOK'
    BY <1>1 DEF Inv, Tick, TypeOK, timeVars
  <2>2. Owned' /\ Filled' /\ Sent' /\ Limited'
    BY <1>1 DEF Inv, Tick, timeVars, Owned, Filled, Sent, Limited, Holding, Encoded
  <2> QED BY <2>1, <2>2 DEF Inv
<1>2. CASE \E c \in Callers : \/ WriteProxy(c) \/ Encode(c) \/ Publish(c)
                              \/ Return(c) \/ Fail(c) \/ Respond(c)
  BY <1>2, WriteProxyInv, EncodeInv, PublishInv, ReturnInv, RespondInv
<1>3. CASE UNCHANGED vars
  BY <1>3 DEF Inv, vars, timeVars, TypeOK, Owned, Filled, Sent, Limited,
              Holding, Encoded
<1> QED BY <1>1, <1>2, <1>3 DEF Next

(* The invariant in every reachable state.                                 *)
LEMMA Invariant == Spec => []Inv
BY InitInv, NextInv, PTL DEF Spec

-----------------------------------------------------------------------------
(* Every reachable state of RoundTrip (nats.go) is well typed.             *)
THEOREM TypeCorrect == Spec => []TypeOK
<1>1. Inv => TypeOK
  BY DEF Inv
<1> QED BY <1>1, Invariant, PTL

(* However many callers share the pool of RoundTrip (nats.go), what each   *)
(* publishes is its own request with its own limit.                        *)
THEOREM PublishesOwnRequest == Spec => []OwnRequest
<1>1. Inv => OwnRequest
  BY DEF Inv, Sent, OwnRequest, Encoded, Plain
<1> QED BY <1>1, Invariant, PTL

(* Where both limits leave room for the margin of RoundTrip (nats.go), and *)
(* the request reaches its handler within the margin, the edge has stopped *)
(* by either of them, whenever the timeout was computed.                   *)
THEOREM EdgeStopsBeforeCaller == Spec => []EdgeStopsFirst
<1>1. ASSUME Inv PROVE EdgeStopsFirst
  <2> SUFFICES ASSUME NEW c \in Callers,
                      edge[c] # Unknown, started[c] <= began[c] + 1, limit > 1,
                      deadline[c] # NoDeadline => deadline[c] > began[c] + 1
               PROVE  /\ started[c] + edge[c] <= began[c] + limit
                      /\ deadline[c] # NoDeadline => started[c] + edge[c] <= deadline[c]
    BY DEF EdgeStopsFirst
  <2> DEFINE t == timeout(limit, deadline[c], began[c])
  <2>1. hub[c] = t /\ edge[c] = ClientTimeout(Persisted(hub[c]))
    BY <1>1 DEF Inv, Limited
  <2>2. /\ limit \in Nat /\ began[c] \in Nat /\ started[c] \in Nat
        /\ deadline[c] \in Nat \cup {NoDeadline}
    BY <1>1 DEF Inv, TypeOK
  <2>3. /\ t \in Nat /\ t > 1
        /\ t <= limit
        /\ deadline[c] # NoDeadline => t <= deadline[c] - began[c]
    <3>1. limit > 0 /\ (deadline[c] # NoDeadline => deadline[c] - began[c] > 1)
      BY <2>2
    <3>2. t \in Nat \ {0}
      BY <2>2, TimeoutBounds, Zenon
    <3>3. limit > 0 /\ (deadline[c] # NoDeadline => deadline[c] - began[c] > 0)
      BY <2>2, <3>1
    <3>4. t <= limit /\ (deadline[c] # NoDeadline => t <= deadline[c] - began[c])
      BY <2>2, <3>3, TimeoutBounds, Zenon
    <3>5. t > 1
      BY <2>2, <3>1, TimeoutBounds, Zenon
    <3> QED BY <3>2, <3>4, <3>5
  <2> HIDE DEF t
  <2>4. edge[c] = t - 1
    BY <2>1, <2>3, PersistedMargin DEF ClientTimeout
  <2>5. started[c] + edge[c] <= began[c] + t
    BY <2>2, <2>3, <2>4
  <2> QED BY <2>2, <2>3, <2>4, <2>5
<1> QED BY <1>1, Invariant, PTL
=============================================================================
