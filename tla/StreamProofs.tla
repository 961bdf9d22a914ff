---------------------------- MODULE StreamProofs ----------------------------
(* Theorems about the stream of a response in NatsProxy: what the edge     *)
(* publishes, what is on its way, and what the caller of the hub reads.    *)
EXTENDS NatsProxyProofs, SequenceTheorems

USE CallsAssumption, BoundsAssumption, FaultsAssumption

-----------------------------------------------------------------------------
(* The inductive invariant.  The properties speak of the caller's end of   *)
(* the stream only; what makes them inductive is the order of everything   *)
(* that is still on its way to it.                                         *)

(* The message the receiver is writing, if it is writing one.              *)
Held(c) == IF rcv[c] = "write" THEN <<cur[c]>> ELSE <<>>

(* All messages of a response between the edge and the caller, the one     *)
(* that arrives first in front.                                            *)
Wire(c) == (Held(c) \o mch[c]) \o net[c]

(* The request has not reached the callback of a member yet.               *)
Waiting(c) == c \in reqs \/ \E w \in Workers : Queued(w, c)

(* The edge has written all of the response, and will write no more.       *)
Complete(c) == ~Active(c) /\ total[c] # 0 /\ sent[c] = total[c]

(* What a message on its way says of the edge: a message without data is   *)
(* the last one, a Done header means that the handler has ended, and one   *)
(* without an error that it has written the whole response.                *)
Sound(c, m) ==
    /\ m.n <= sent[c] + 1
    /\ m.data <=> m.n <= sent[c]
    /\ ~m.data => m.done # "more"
    /\ m.done # "more" => ~Active(c) /\ sent[c] <= m.n
    /\ m.done = "noResponders" => ~m.data
    /\ m.done = "ok" => Complete(c)

(* Nothing is written before a member handles the request.                 *)
SourceInv(c) ==
    /\ Waiting(c) \/ Unstarted(c) => total[c] = 0
    /\ Unstarted(c) => Wire(c) = <<>>
    /\ sent[c] <= total[c]

Sorted(s)    == \A i, j \in 1..Len(s) : i < j => s[i].n < s[j].n
Precedes(g, s) == \A i \in 1..Len(g), j \in 1..Len(s) : g[i] < s[j].n

(* Increasing, in a form that also bounds the numbers by their positions.  *)
Spread(g) == \A i, j \in 1..Len(g) : i <= j => g[i] + j <= g[j] + i

OrderInv(c) ==
    /\ Sorted(Wire(c))
    /\ Precedes(got[c], Wire(c))
    /\ Spread(got[c])
    /\ \A i \in 1..Len(got[c]) : got[c][i] <= sent[c]
    /\ \A i \in 1..Len(Wire(c)) : Sound(c, Wire(c)[i])

EndsWith(g, k) == Len(g) # 0 /\ g[Len(g)] = k

(* Who sees the end of a response sees all of it.                          *)
EndInv(c) ==
    /\ rcv[c] = "closeOk" \/ pipe[c] = "eof" => Complete(c)
    /\ caller[c] = "ok" =>
         /\ total[c] # 0 /\ sent[c] = total[c]
         /\ framing[c] \in Delimited => Len(got[c]) = total[c]
         /\ framing[c] \in Terminated => EndsWith(got[c], total[c])
         /\ framing[c] = "stream" => pipe[c] = "eof"

Counts(g) == \A i \in 1..Len(g) : g[i] = i

Contiguous(c) ==
    /\ Counts(got[c])
    /\ \A i \in 1..Len(Wire(c)) : Wire(c)[i].n = Len(got[c]) + i

Reaches(c) == Len(got[c]) + Len(Wire(c)) \in {sent[c], sent[c] + 1}

(* Without a loss, what was read and what is on its way have no gap, and   *)
(* go as far as the edge has got while the hub is subscribed.              *)
GapInv(c) ==
    ~lost[c] =>
        /\ Contiguous(c)
        /\ sub[c] = "live" => Reaches(c)
        /\ rcv[c] = "closeOk" \/ pipe[c] = "eof" => Len(got[c]) = sent[c]

StreamInv(c) == SourceInv(c) /\ OrderInv(c) /\ EndInv(c) /\ GapInv(c)

Stream ==
    /\ Ownership
    /\ \A c \in Calls : StreamInv(c)

-----------------------------------------------------------------------------
(* Lemmas about sequences of messages.                                     *)

(* t is what is left of s when some messages are taken away.               *)
Thinned(t, s) ==
    /\ \A i \in 1..Len(t) : \E a \in 1..Len(s) : t[i] = s[a]
    /\ \A i, j \in 1..Len(t) : i < j =>
          \E a, b \in 1..Len(s) : a < b /\ t[i] = s[a] /\ t[j] = s[b]

(* A sequence is as long as what it is made of, and its messages are those *)
(* of the parts.                                                           *)
LEMMA ThreeParts ==
    ASSUME NEW h \in Seq(Message), NEW q \in Seq(Message), NEW n \in Seq(Message)
    PROVE  LET s == (h \o q) \o n IN
           /\ s \in Seq(Message)
           /\ Len(s) \in Nat /\ Len(s) = Len(h) + Len(q) + Len(n)
           /\ \A i \in 1..Len(s) :
                s[i] = IF i <= Len(h) THEN h[i]
                       ELSE IF i <= Len(h) + Len(q) THEN q[i - Len(h)]
                       ELSE n[i - Len(h) - Len(q)]
<1>1. /\ h \o q \in Seq(Message)
      /\ Len(h \o q) = Len(h) + Len(q)
      /\ \A i \in 1..Len(h) + Len(q) : (h \o q)[i] =
            IF i <= Len(h) THEN h[i] ELSE q[i - Len(h)]
  BY ConcatProperties
<1> DEFINE p == h \o q
           s == p \o n
<1>2. p \in Seq(Message)
  BY <1>1
<1> HIDE DEF p
<1>3. /\ s \in Seq(Message)
      /\ Len(s) = Len(p) + Len(n)
      /\ \A i \in 1..Len(p) + Len(n) : s[i] =
            IF i <= Len(p) THEN p[i] ELSE n[i - Len(p)]
  BY <1>2, ConcatProperties
<1>4. Len(h) \in Nat /\ Len(q) \in Nat /\ Len(n) \in Nat
  OBVIOUS
<1> HIDE DEF s
<1>5. Len(p) = Len(h) + Len(q)
  BY <1>1 DEF p
<1>6. Len(s) \in Nat /\ Len(s) = Len(h) + Len(q) + Len(n)
  BY <1>3, <1>4, <1>5
<1>7. ASSUME NEW i \in 1..Len(s)
      PROVE  s[i] = IF i <= Len(h) THEN h[i]
                    ELSE IF i <= Len(h) + Len(q) THEN q[i - Len(h)]
                    ELSE n[i - Len(h) - Len(q)]
  <2>1. CASE i <= Len(p)
    <3>1. s[i] = p[i]
      BY <1>3, <1>4, <1>5, <1>6, <2>1
    <3>2. p[i] = IF i <= Len(h) THEN h[i] ELSE q[i - Len(h)]
      BY <1>1, <1>4, <1>5, <2>1 DEF p
    <3> QED BY <1>4, <1>5, <2>1, <3>1, <3>2
  <2>2. CASE ~(i <= Len(p))
    <3>1. s[i] = n[i - Len(p)]
      BY <1>3, <1>4, <1>5, <1>6, <2>2
    <3>2. i - Len(p) = i - Len(h) - Len(q)
      BY <1>4, <1>5
    <3> QED BY <1>4, <1>5, <2>2, <3>1, <3>2
  <2> QED BY <2>1, <2>2
<1> QED BY <1>3, <1>6, <1>7 DEF s, p

(* A sequence is its head and its tail.                                    *)
LEMMA HeadAndTail ==
    ASSUME NEW s \in Seq(Message), s # <<>>
    PROVE  /\ Head(s) \in Message /\ Tail(s) \in Seq(Message)
           /\ Head(s) = s[1]
           /\ Len(s) \in Nat /\ Len(s) >= 1 /\ Len(Tail(s)) = Len(s) - 1
           /\ \A i \in 1..Len(Tail(s)) : Tail(s)[i] = s[i + 1]
BY HeadTailProperties

(* A message that goes from the network into the channel stays in place.   *)
LEMMA WireDeliver ==
    ASSUME NEW h \in Seq(Message), NEW q \in Seq(Message), NEW n \in Seq(Message),
           n # <<>>
    PROVE  (h \o Append(q, Head(n))) \o Tail(n) = (h \o q) \o n
<1> DEFINE q1 == Append(q, Head(n))
           n1 == Tail(n)
           s  == (h \o q) \o n
           t  == (h \o q1) \o n1
<1>1. /\ q1 \in Seq(Message) /\ Len(q1) = Len(q) + 1
      /\ \A i \in 1..Len(q) : q1[i] = q[i]
      /\ q1[Len(q) + 1] = n[1]
  BY HeadAndTail, AppendProperties
<1>2. /\ n1 \in Seq(Message) /\ Len(n) >= 1 /\ Len(n1) = Len(n) - 1
      /\ \A i \in 1..Len(n1) : n1[i] = n[i + 1]
  BY HeadAndTail
<1> HIDE DEF q1, n1
<1>3. /\ s \in Seq(Message)
      /\ Len(s) \in Nat /\ Len(s) = Len(h) + Len(q) + Len(n)
      /\ \A i \in 1..Len(s) :
           s[i] = IF i <= Len(h) THEN h[i]
                  ELSE IF i <= Len(h) + Len(q) THEN q[i - Len(h)]
                  ELSE n[i - Len(h) - Len(q)]
  BY ThreeParts
<1>4. /\ t \in Seq(Message)
      /\ Len(t) \in Nat /\ Len(t) = Len(h) + Len(q1) + Len(n1)
      /\ \A i \in 1..Len(t) :
           t[i] = IF i <= Len(h) THEN h[i]
                  ELSE IF i <= Len(h) + Len(q1) THEN q1[i - Len(h)]
                  ELSE n1[i - Len(h) - Len(q1)]
  <2>1. q1 \in Seq(Message) /\ n1 \in Seq(Message)
    BY <1>1, <1>2
  <2> QED BY <2>1, ThreeParts
<1>5. Len(h) \in Nat /\ Len(q) \in Nat /\ Len(n) \in Nat
  OBVIOUS
<1> HIDE DEF s, t
<1>6. Len(t) = Len(s)
  BY <1>1, <1>2, <1>3, <1>4, <1>5
<1>7. ASSUME NEW i \in 1..Len(t)
      PROVE  t[i] = s[i]
  <2>1. CASE i <= Len(h)
    BY <1>3, <1>4, <1>5, <1>6, <2>1
  <2>4. CASE i > Len(h) /\ i <= Len(h) + Len(q)
    <3> DEFINE k == i - Len(h)
    <3>1. /\ i \in 1..Len(s) /\ ~(i <= Len(h)) /\ i <= Len(h) + Len(q1)
          /\ k \in 1..Len(q)
      BY <1>1, <1>5, <1>6, <2>4
    <3>2. t[i] = q1[k] /\ s[i] = q[k]
      BY <1>3, <1>4, <2>4, <3>1
    <3> HIDE DEF k
    <3> QED BY <1>1, <3>1, <3>2
  <2>2. CASE i = Len(h) + Len(q) + 1
    <3>3. /\ i \in 1..Len(s) /\ ~(i <= Len(h)) /\ i <= Len(h) + Len(q1)
          /\ ~(i <= Len(h) + Len(q))
      BY <1>1, <1>5, <1>6, <2>2
    <3>1. t[i] = q1[i - Len(h)] /\ s[i] = n[i - Len(h) - Len(q)]
      BY <1>3, <1>4, <3>3
    <3>2. i - Len(h) = Len(q) + 1 /\ i - Len(h) - Len(q) = 1
      BY <1>5, <2>2
    <3> QED BY <1>1, <3>1, <3>2
  <2>3. CASE i > Len(h) + Len(q) + 1
    <3> DEFINE k == i - Len(h) - Len(q1)
    <3>1. t[i] = n1[k]
      BY <1>1, <1>4, <1>5, <2>3
    <3>5. i \in 1..Len(s) /\ ~(i <= Len(h)) /\ ~(i <= Len(h) + Len(q))
      BY <1>5, <1>6, <2>3
    <3>2. s[i] = n[i - Len(h) - Len(q)]
      BY <1>3, <3>5
    <3>3. k \in 1..Len(n1) /\ k + 1 = i - Len(h) - Len(q)
      BY <1>1, <1>2, <1>4, <1>5, <2>3
    <3> HIDE DEF k
    <3>4. n1[k] = n[k + 1]
      BY <1>2, <3>3
    <3> QED BY <3>1, <3>2, <3>3, <3>4
  <2>5. \/ i <= Len(h)
        \/ i > Len(h) /\ i <= Len(h) + Len(q)
        \/ i = Len(h) + Len(q) + 1
        \/ i > Len(h) + Len(q) + 1
    <3> DEFINE a == Len(h)
               b == Len(q)
    <3>1. i \in Nat /\ a \in Nat /\ b \in Nat
      BY <1>4, <1>5
    <3> HIDE DEF a, b
    <3>2. i <= a \/ (i > a /\ i <= a + b) \/ i = a + b + 1 \/ i > a + b + 1
      BY <3>1
    <3> QED BY <3>2 DEF a, b
  <2> QED BY <2>1, <2>2, <2>3, <2>4, <2>5
<1>8. t = s
  BY <1>3, <1>4, <1>6, <1>7, SeqEqual
<1> QED BY <1>8 DEF s, t, q1, n1

(* Append after a concatenation, for any elements.                         *)
LEMMA ConcatAppend ==
    ASSUME NEW S, NEW p \in Seq(S), NEW n \in Seq(S), NEW m \in S
    PROVE  p \o Append(n, m) = Append(p \o n, m)
<1>1. <<m>> \in Seq(S) /\ p \o n \in Seq(S)
  BY ConcatProperties
<1>2. (p \o n) \o <<m>> = p \o (n \o <<m>>)
  BY <1>1, ConcatAssociative
<1>3. Append(n, m) = n \o <<m>> /\ Append(p \o n, m) = (p \o n) \o <<m>>
  BY <1>1, AppendIsConcat
<1> QED BY <1>2, <1>3

(* A message that is published comes after all others.                     *)
LEMMA WirePublish ==
    ASSUME NEW h \in Seq(Message), NEW q \in Seq(Message), NEW n \in Seq(Message),
           NEW m \in Message
    PROVE  (h \o q) \o Append(n, m) = Append((h \o q) \o n, m)
<1>1. h \o q \in Seq(Message)
  BY ConcatProperties
<1> QED BY <1>1, ConcatAppend

(* The message the receiver holds is the first one.                        *)
LEMMA WireRead ==
    ASSUME NEW m \in Message, NEW q \in Seq(Message), NEW n \in Seq(Message)
    PROVE  /\ (<<m>> \o q) \o n # <<>>
           /\ Head((<<m>> \o q) \o n) = m
           /\ Tail((<<m>> \o q) \o n) = (<<>> \o q) \o n
<1> DEFINE h == <<m>>
           s == (h \o q) \o n
           r == q \o n
<1>1. h \in Seq(Message) /\ Len(h) = 1 /\ h[1] = m
  OBVIOUS
<1>2. r \in Seq(Message) /\ <<>> \o q = q
  BY ConcatProperties, ConcatEmptySeq
<1> HIDE DEF h
<1>3. s = h \o r
  <2>1. h \in Seq(Message)
    BY <1>1
  <2> QED BY <2>1, ConcatAssociative
<1> HIDE DEF s, r
<1>4. /\ s \in Seq(Message) /\ Len(s) = 1 + Len(r)
      /\ \A i \in 1..1 + Len(r) : s[i] = IF i <= 1 THEN h[i] ELSE r[i - 1]
  <2>1. h \in Seq(Message) /\ r \in Seq(Message)
    BY <1>1, <1>2
  <2>2. /\ h \o r \in Seq(Message) /\ Len(h \o r) = Len(h) + Len(r)
        /\ \A i \in 1..Len(h) + Len(r) : (h \o r)[i] =
              IF i <= Len(h) THEN h[i] ELSE r[i - Len(h)]
    BY <2>1, ConcatProperties
  <2> QED BY <1>1, <1>3, <2>2
<1>5. Len(r) \in Nat
  BY <1>2
<1>6. s # <<>> /\ s[1] = m
  BY <1>1, <1>4, <1>5
<1>7. /\ Head(s) = s[1] /\ Tail(s) \in Seq(Message)
      /\ Len(Tail(s)) = Len(s) - 1
      /\ \A i \in 1..Len(Tail(s)) : Tail(s)[i] = s[i + 1]
  BY <1>4, <1>6, HeadAndTail
<1>8. Len(Tail(s)) = Len(r)
  BY <1>4, <1>5, <1>7
<1>9. ASSUME NEW i \in 1..Len(Tail(s))
      PROVE  Tail(s)[i] = r[i]
  <2>1. i + 1 \in 1..1 + Len(r) /\ ~(i + 1 <= 1) /\ (i + 1) - 1 = i
    BY <1>5, <1>8
  <2>2. s[i + 1] = r[(i + 1) - 1]
    BY <1>4, <2>1
  <2> QED BY <1>7, <2>1, <2>2
<1>10. Tail(s) = r
  BY <1>2, <1>7, <1>8, <1>9, SeqEqual
<1> QED BY <1>2, <1>6, <1>7, <1>10 DEF s, h, r

(* A message the receiver takes from the channel stays the first one.      *)
LEMMA WirePop ==
    ASSUME NEW q \in Seq(Message), NEW n \in Seq(Message), q # <<>>
    PROVE  (<<Head(q)>> \o Tail(q)) \o n = (<<>> \o q) \o n
<1> DEFINE h == <<Head(q)>>
<1>1. /\ Head(q) = q[1] /\ Tail(q) \in Seq(Message)
      /\ Len(q) \in Nat /\ Len(q) >= 1 /\ Len(Tail(q)) = Len(q) - 1
      /\ \A i \in 1..Len(Tail(q)) : Tail(q)[i] = q[i + 1]
      /\ Head(q) \in Message
  BY HeadAndTail
<1>2. h \in Seq(Message) /\ Len(h) = 1 /\ h[1] = q[1]
  BY <1>1
<1> DEFINE r == Tail(q)
           s == h \o r
<1>3. r \in Seq(Message) /\ Len(r) = Len(q) - 1
      /\ \A i \in 1..Len(r) : r[i] = q[i + 1]
  BY <1>1
<1> HIDE DEF h, r
<1>4. /\ s \in Seq(Message) /\ Len(s) = 1 + Len(r)
      /\ \A i \in 1..1 + Len(r) : s[i] = IF i <= 1 THEN h[i] ELSE r[i - 1]
  <2>1. h \in Seq(Message) /\ r \in Seq(Message)
    BY <1>2, <1>3
  <2>2. /\ h \o r \in Seq(Message) /\ Len(h \o r) = Len(h) + Len(r)
        /\ \A i \in 1..Len(h) + Len(r) : (h \o r)[i] =
              IF i <= Len(h) THEN h[i] ELSE r[i - Len(h)]
    BY <2>1, ConcatProperties
  <2> QED BY <1>2, <2>2
<1> HIDE DEF s
<1>5. Len(s) = Len(q)
  BY <1>1, <1>3, <1>4
<1>6. ASSUME NEW i \in 1..Len(s)
      PROVE  s[i] = q[i]
  <2>1. CASE i = 1
    BY <1>1, <1>2, <1>4, <1>5, <2>1
  <2>2. CASE i # 1
    <3>1. i - 1 \in 1..Len(r) /\ (i - 1) + 1 = i /\ i \in 1..1 + Len(r) /\ ~(i <= 1)
      BY <1>1, <1>3, <1>5, <2>2
    <3>2. s[i] = r[i - 1] /\ r[i - 1] = q[(i - 1) + 1]
      BY <1>3, <1>4, <3>1
    <3> QED BY <3>1, <3>2
  <2> QED BY <2>1, <2>2
<1>7. s = q
  BY <1>4, <1>5, <1>6, SeqEqual
<1>8. <<>> \o q = q
  BY ConcatEmptySeq
<1> QED BY <1>7, <1>8 DEF s, h, r

(* Losing the first message of the network thins the wire.                 *)
LEMMA WireDrop ==
    ASSUME NEW h \in Seq(Message), NEW q \in Seq(Message), NEW n \in Seq(Message),
           n # <<>>
    PROVE  Thinned((h \o q) \o Tail(n), (h \o q) \o n)
<1> DEFINE n1 == Tail(n)
           s  == (h \o q) \o n
           t  == (h \o q) \o n1
           k  == Len(h) + Len(q)
           At(i) == IF i <= k THEN i ELSE i + 1
<1>1. /\ n1 \in Seq(Message) /\ Len(n) >= 1 /\ Len(n1) = Len(n) - 1
      /\ \A i \in 1..Len(n1) : n1[i] = n[i + 1]
  BY HeadAndTail
<1>2. n1 \in Seq(Message)
  BY <1>1
<1> HIDE DEF n1
<1>3. /\ Len(s) \in Nat /\ Len(s) = Len(h) + Len(q) + Len(n)
      /\ \A i \in 1..Len(s) :
           s[i] = IF i <= Len(h) THEN h[i]
                  ELSE IF i <= Len(h) + Len(q) THEN q[i - Len(h)]
                  ELSE n[i - Len(h) - Len(q)]
  BY ThreeParts
<1>4. /\ Len(t) \in Nat /\ Len(t) = Len(h) + Len(q) + Len(n1)
      /\ \A i \in 1..Len(t) :
           t[i] = IF i <= Len(h) THEN h[i]
                  ELSE IF i <= Len(h) + Len(q) THEN q[i - Len(h)]
                  ELSE n1[i - Len(h) - Len(q)]
  BY <1>2, ThreeParts
<1>5. Len(h) \in Nat /\ Len(q) \in Nat /\ Len(n) \in Nat
  OBVIOUS
<1> HIDE DEF s, t
<1>6. ASSUME NEW i \in 1..Len(t)
      PROVE  At(i) \in 1..Len(s) /\ t[i] = s[At(i)]
  <2>1. At(i) \in 1..Len(s)
    BY <1>1, <1>3, <1>4, <1>5
  <2>2. CASE i <= k
    <3>1. i \in 1..Len(s) /\ At(i) = i
      BY <2>1, <2>2
    <3> QED BY <1>3, <1>4, <2>2, <3>1
  <2>3. CASE i > k
    <3> DEFINE j == i - Len(h) - Len(q)
    <3>1. /\ j \in 1..Len(n1) /\ At(i) = i + 1
          /\ ~(i <= Len(h)) /\ ~(i <= Len(h) + Len(q))
          /\ ~(i + 1 <= Len(h)) /\ ~(i + 1 <= Len(h) + Len(q))
          /\ i + 1 - Len(h) - Len(q) = j + 1
      BY <1>1, <1>4, <1>5, <2>3
    <3>2. t[i] = n1[j] /\ s[i + 1] = n[i + 1 - Len(h) - Len(q)]
      BY <1>3, <1>4, <2>1, <3>1
    <3> HIDE DEF j
    <3>3. n1[j] = n[j + 1]
      BY <1>1, <3>1
    <3>4. s[i + 1] = n[j + 1]
      BY <3>1, <3>2
    <3>5. t[i] = s[i + 1]
      BY <3>2, <3>3, <3>4
    <3> QED BY <2>1, <3>1, <3>5
  <2> QED BY <1>5, <2>1, <2>2, <2>3
<1>7. \A i, j \in 1..Len(t) : i < j => At(i) < At(j)
  BY <1>5
<1> HIDE DEF At
<1>8. Thinned(t, s)
  BY <1>6, <1>7 DEF Thinned
<1> QED BY <1>8 DEF s, t, n1

(* Nothing is left of a wire that is cleared, and all of one that is not.  *)
LEMMA ThinnedEnds ==
    ASSUME NEW s \in Seq(Message)
    PROVE  Thinned(<<>>, s) /\ Thinned(s, s)
BY DEF Thinned

(* Reading the first message thins the wire.                               *)
LEMMA ThinnedTail ==
    ASSUME NEW s \in Seq(Message), s # <<>>
    PROVE  Thinned(Tail(s), s)
<1>1. /\ Len(s) \in Nat /\ Len(s) >= 1 /\ Len(Tail(s)) = Len(s) - 1
      /\ \A i \in 1..Len(Tail(s)) : Tail(s)[i] = s[i + 1]
  BY HeadAndTail
<1>2. \A i \in 1..Len(Tail(s)) : i + 1 \in 1..Len(s)
  BY <1>1
<1>3. \A i, j \in 1..Len(Tail(s)) : i < j => i + 1 < j + 1
  OBVIOUS
<1> QED BY <1>1, <1>2, <1>3 DEF Thinned

(* What is left of a sorted wire is sorted, and follows what was read.     *)
LEMMA ThinnedSorted ==
    ASSUME NEW s \in Seq(Message), NEW t \in Seq(Message), NEW g, Thinned(t, s)
    PROVE  /\ Sorted(s) => Sorted(t)
           /\ Precedes(g, s) => Precedes(g, t)
<1>1. ASSUME Sorted(s), NEW i \in 1..Len(t), NEW j \in 1..Len(t), i < j
      PROVE  t[i].n < t[j].n
  <2>1. PICK a, b \in 1..Len(s) : a < b /\ t[i] = s[a] /\ t[j] = s[b]
    BY <1>1 DEF Thinned
  <2>2. s[a].n < s[b].n
    BY <1>1, <2>1 DEF Sorted
  <2> QED BY <2>1, <2>2
<1>2. ASSUME Precedes(g, s), NEW i \in 1..Len(g), NEW j \in 1..Len(t)
      PROVE  g[i] < t[j].n
  BY <1>2 DEF Thinned, Precedes
<1> QED BY <1>1, <1>2 DEF Sorted, Precedes

-----------------------------------------------------------------------------
(* What a change of the wire does to OrderInv.                             *)

(* The wire is a sequence of messages.                                     *)
LEMMA WireType ==
    ASSUME TypeOK, NEW c \in Calls
    PROVE  /\ Held(c) \in Seq(Message)
           /\ mch[c] \in Seq(Message)
           /\ net[c] \in Seq(Message)
           /\ Wire(c) \in Seq(Message)
           /\ Len(Wire(c)) = Len(Held(c)) + Len(mch[c]) + Len(net[c])
<1>1. cur[c] \in Message /\ mch[c] \in Seq(Message) /\ net[c] \in Seq(Message)
  BY DEF TypeOK
<1>2. Held(c) \in Seq(Message)
  BY <1>1 DEF Held
<1>3. /\ Wire(c) \in Seq(Message)
      /\ Len(Wire(c)) = Len(Held(c)) + Len(mch[c]) + Len(net[c])
  BY <1>1, <1>2, ThreeParts DEF Wire
<1> QED BY <1>1, <1>2, <1>3

(* So it is after a step.                                                  *)
LEMMA NextWireType ==
    ASSUME TypeOK', NEW c \in Calls
    PROVE  Wire(c)' \in Seq(Message)
<1>1. /\ cur'[c] \in Message /\ mch'[c] \in Seq(Message)
      /\ net'[c] \in Seq(Message)
  BY DEF TypeOK
<1>2. Held(c)' \in Seq(Message)
  BY <1>1 DEF Held
<1> QED BY <1>1, <1>2, ThreeParts DEF Wire

(* Messages are taken away from the wire, or it is left alone.             *)
LEMMA OrderThinned ==
    ASSUME TypeOK, TypeOK', NEW c \in Calls, OrderInv(c),
           Thinned(Wire(c)', Wire(c)),
           got'[c] = got[c], sent'[c] = sent[c],
           total'[c] = total[c] \/ total[c] = 0,
           Active(c)' => Active(c)
    PROVE  OrderInv(c)'
<1>1. Wire(c) \in Seq(Message) /\ Wire(c)' \in Seq(Message)
  BY WireType, NextWireType
<1>2. Sorted(Wire(c)') /\ Precedes(got[c], Wire(c)')
  BY <1>1, ThinnedSorted DEF OrderInv
<1>3. ASSUME NEW i \in 1..Len(Wire(c)')
      PROVE  Sound(c, Wire(c)[i])'
  <2>1. PICK a \in 1..Len(Wire(c)) : Wire(c)'[i] = Wire(c)[a]
    BY <1>3 DEF Thinned
  <2>2. Wire(c)[a] \in Message /\ Sound(c, Wire(c)[a])
    BY <1>1, <2>1, ElementOfSeq DEF OrderInv
  <2> DEFINE m == Wire(c)[a]
  <2>3. Wire(c)'[i].n = m.n /\ Wire(c)'[i].data = m.data /\ Wire(c)'[i].done = m.done
    BY <2>1
  <2> QED BY <2>2, <2>3 DEF Sound, Complete
<1>4. Sorted(Wire(c))' /\ Precedes(got[c], Wire(c))' /\ Spread(got[c])'
  BY <1>2 DEF OrderInv, Sorted, Precedes, Spread
<1>5. \A i \in 1..Len(got'[c]) : got'[c][i] <= sent'[c]
  BY DEF OrderInv
<1> QED BY <1>3, <1>4, <1>5 DEF OrderInv

(* The caller reads the first message.                                     *)
LEMMA OrderRead ==
    ASSUME TypeOK, TypeOK', NEW c \in Calls, OrderInv(c),
           Wire(c) # <<>>, Wire(c)' = Tail(Wire(c)),
           Head(Wire(c)).data,
           got'[c] = Append(got[c], Head(Wire(c)).n),
           sent'[c] = sent[c], total'[c] = total[c], Active(c)' => Active(c)
    PROVE  OrderInv(c)'
<1> DEFINE s == Wire(c)
           g == got[c]
           m == Head(s)
           h == Append(g, m.n)
<1>1. s \in Seq(Message) /\ s # <<>>
  BY WireType
<1>2. /\ m \in Message /\ m = s[1]
      /\ Len(s) \in Nat /\ Len(s) >= 1 /\ Len(Tail(s)) = Len(s) - 1
      /\ \A i \in 1..Len(Tail(s)) : Tail(s)[i] = s[i + 1]
  BY <1>1, HeadAndTail
<1>3. /\ Sorted(s) /\ Precedes(g, s) /\ Spread(g)
      /\ \A i \in 1..Len(g) : g[i] <= sent[c]
      /\ \A i \in 1..Len(s) : Sound(c, s[i])
  BY DEF OrderInv
<1>4. sent[c] \in Nat
  BY DEF TypeOK
<1>5. m.n \in Nat /\ m.n <= sent[c]
  <2>1. Sound(c, m)
    BY <1>2, <1>3
  <2> QED BY <1>2, <2>1 DEF Sound, Message
<1>6. /\ g \in Seq(Nat) /\ Len(g) \in Nat
      /\ \A i \in 1..Len(g) : g[i] \in Nat
  <2>1. g \in Seq(1..(MaxChunks + 1)) /\ 1..(MaxChunks + 1) \subseteq Nat
    BY DEF TypeOK
  <2>2. g \in Seq(Nat)
    BY <2>1, SeqMonotonic
  <2> QED BY <2>2, ElementOfSeq
<1>7. /\ Len(h) = Len(g) + 1
      /\ \A i \in 1..Len(g) : h[i] = g[i]
      /\ h[Len(g) + 1] = m.n
  BY <1>5, <1>6, AppendProperties
<1>16. \A i \in 1..Len(h) : h[i] \in Nat
  <2> SUFFICES ASSUME NEW i \in 1..Len(h)
               PROVE  h[i] \in Nat
    OBVIOUS
  <2>1. CASE i \in 1..Len(g)
    BY <1>6, <1>7, <2>1
  <2>2. CASE i = Len(g) + 1
    BY <1>5, <1>7, <2>2
  <2> QED BY <1>6, <1>7, <2>1, <2>2
<1>8. \A i \in 1..Len(g) : g[i] < m.n
  BY <1>2, <1>3 DEF Precedes
<1> HIDE DEF h, m, g
<1>9. Sorted(Tail(s)) /\ Precedes(g, Tail(s))
  <2>1. Thinned(Tail(s), s) /\ Tail(s) \in Seq(Message)
    BY <1>1, ThinnedTail, HeadAndTail
  <2> QED BY <1>1, <1>3, <2>1, ThinnedSorted
<1>10. Precedes(h, Tail(s))
  <2> SUFFICES ASSUME NEW i \in 1..Len(h), NEW j \in 1..Len(Tail(s))
               PROVE  h[i] < Tail(s)[j].n
    BY DEF Precedes
  <2>1. CASE i <= Len(g)
    BY <1>6, <1>7, <1>9, <2>1 DEF Precedes
  <2>2. CASE i = Len(g) + 1
    <3>1. s[1].n < s[j + 1].n
      BY <1>2, <1>3 DEF Sorted
    <3> QED BY <1>2, <1>7, <2>2, <3>1
  <2> QED BY <1>6, <1>7, <2>1, <2>2
<1>11. Spread(h)
  <2> SUFFICES ASSUME NEW i \in 1..Len(h), NEW j \in 1..Len(h), i <= j
               PROVE  h[i] + j <= h[j] + i
    BY DEF Spread
  <2>1. CASE j <= Len(g)
    <3>1. i \in 1..Len(g) /\ j \in 1..Len(g)
      BY <1>6, <1>7, <2>1
    <3>2. g[i] + j <= g[j] + i
      BY <1>3, <3>1 DEF Spread
    <3> QED BY <1>7, <3>1, <3>2
  <2>2. CASE j = Len(g) + 1 /\ i = j
    BY <1>16, <2>2
  <2>3. CASE j = Len(g) + 1 /\ i < j
    <3>1. i \in 1..Len(g) /\ Len(g) \in 1..Len(g) /\ i <= Len(g)
      BY <1>6, <2>3
    <3>2. g[i] + Len(g) <= g[Len(g)] + i /\ g[Len(g)] < m.n
      BY <1>3, <1>8, <3>1 DEF Spread
    <3>3. g[i] \in Nat /\ g[Len(g)] \in Nat
      BY <1>6, <3>1
    <3>4. h[i] = g[i] /\ h[j] = m.n
      BY <1>7, <2>3, <3>1
    <3> DEFINE a == g[i]
               b == g[Len(g)]
               k == Len(g)
               y == m.n
    <3>5. /\ a \in Nat /\ b \in Nat /\ k \in Nat /\ y \in Nat /\ i \in Nat
          /\ a + k <= b + i /\ b < y
      BY <1>5, <1>6, <3>1, <3>2, <3>3
    <3> HIDE DEF a, b, k, y
    <3>6. a + (k + 1) <= y + i
      BY <3>5
    <3> USE DEF a, b, k, y
    <3> QED BY <2>3, <3>4, <3>6
  <2> QED BY <1>6, <1>7, <2>1, <2>2, <2>3
<1>12. \A i \in 1..Len(h) : h[i] <= sent[c]
  <2> SUFFICES ASSUME NEW i \in 1..Len(h)
               PROVE  h[i] <= sent[c]
    OBVIOUS
  <2>1. CASE i \in 1..Len(g)
    BY <1>3, <1>7, <2>1
  <2>2. CASE i = Len(g) + 1
    BY <1>5, <1>7, <2>2
  <2> QED BY <1>6, <1>7, <2>1, <2>2
<1>13. ASSUME NEW i \in 1..Len(Tail(s))
       PROVE  Sound(c, Wire(c)[i])'
  <2>1. i + 1 \in 1..Len(s) /\ Wire(c)'[i] = s[i + 1]
    BY <1>2
  <2>2. s[i + 1] \in Message /\ Sound(c, s[i + 1])
    BY <1>1, <1>3, <2>1, ElementOfSeq
  <2> DEFINE x == s[i + 1]
  <2>3. Wire(c)'[i].n = x.n /\ Wire(c)'[i].data = x.data /\ Wire(c)'[i].done = x.done
    BY <2>1
  <2> QED BY <2>2, <2>3 DEF Sound, Complete
<1>14. got'[c] = h
  BY DEF h, m, g
<1>15. Sorted(Wire(c))' /\ Precedes(got[c], Wire(c))' /\ Spread(got[c])'
  BY <1>9, <1>10, <1>11, <1>14 DEF Sorted, Precedes, Spread
<1> QED BY <1>12, <1>13, <1>14, <1>15 DEF OrderInv

(* While a member handles a request, what is on the wire is data.          *)
LEMMA OnlyData ==
    ASSUME TypeOK, NEW c \in Calls, OrderInv(c), Active(c),
           NEW i \in 1..Len(Wire(c))
    PROVE  LET x == Wire(c)[i] IN
           x \in Message /\ x.data /\ x.done = "more" /\ x.n <= sent[c]
<1>1. Wire(c)[i] \in Message
  BY WireType, ElementOfSeq
<1>2. Sound(c, Wire(c)[i])
  BY DEF OrderInv
<1> QED BY <1>1, <1>2 DEF Sound, Message

(* The member that handles a request publishes a message.                  *)
LEMMA OrderPublish ==
    ASSUME TypeOK, TypeOK', NEW c \in Calls, OrderInv(c), Active(c),
           NEW m \in Message, m.n = sent[c] + 1, Sound(c, m)',
           Wire(c)' = Wire(c) \/ Wire(c)' = Append(Wire(c), m),
           got'[c] = got[c],
           sent'[c] = sent[c] \/ sent'[c] = sent[c] + 1
    PROVE  OrderInv(c)'
<1> DEFINE s == Wire(c)
           t == Wire(c)'
           k == Len(s)
<1>1. s \in Seq(Message) /\ k \in Nat
  <2>1. s \in Seq(Message)
    BY WireType
  <2> HIDE DEF s
  <2> QED BY <2>1
<1>2. sent[c] \in Nat
  BY DEF TypeOK
<1>3. \A i \in 1..k : /\ s[i] \in Message /\ s[i].data
                      /\ s[i].done = "more" /\ s[i].n <= sent[c]
  BY OnlyData
<1>4. /\ k <= Len(t) /\ Len(t) <= k + 1
      /\ \A i \in 1..k : t[i] = s[i]
      /\ Len(t) = k + 1 => t[k + 1] = m
      /\ Len(t) \in Nat
  <2>1. CASE t = s
    BY <1>1, <2>1
  <2>2. CASE t = Append(s, m)
    BY <1>1, <2>2, AppendProperties
  <2> QED BY <2>1, <2>2
<1>5. \A x \in Message :
         x.data /\ x.done = "more" /\ x.n <= sent[c] => Sound(c, x)'
  BY <1>2 DEF Sound, Message
<1>6. \A x \in Message : x.n \in Nat
  BY DEF Message
<1>7. Sorted(s) /\ Precedes(got[c], s) /\ Spread(got[c])
      /\ \A i \in 1..Len(got[c]) : got[c][i] <= sent[c]
  BY DEF OrderInv
<1>8. \A i \in 1..Len(got[c]) : got[c][i] \in Nat
  <2>1. got[c] \in Seq(1..(MaxChunks + 1))
    BY DEF TypeOK
  <2> QED BY <2>1, ElementOfSeq
<1> HIDE DEF s, t, k
<1>9. Sorted(t)
  <2> SUFFICES ASSUME NEW i \in 1..Len(t), NEW j \in 1..Len(t), i < j
               PROVE  t[i].n < t[j].n
    BY DEF Sorted
  <2>1. i \in 1..k
    BY <1>1, <1>4
  <2>2. CASE j \in 1..k
    <3>1. s[i].n < s[j].n
      BY <1>7, <2>1, <2>2 DEF Sorted, k
    <3> QED BY <1>4, <2>1, <2>2, <3>1
  <2>3. CASE j = k + 1
    <3>1. t[j] = m /\ t[i] = s[i]
      BY <1>1, <1>4, <2>1, <2>3
    <3>2. s[i].n <= sent[c] /\ s[i].n \in Nat
      BY <1>3, <1>6, <2>1
    <3> QED BY <1>2, <3>1, <3>2
  <2> QED BY <1>1, <1>4, <2>2, <2>3
<1>10. Precedes(got[c], t)
  <2> SUFFICES ASSUME NEW i \in 1..Len(got[c]), NEW j \in 1..Len(t)
               PROVE  got[c][i] < t[j].n
    BY DEF Precedes
  <2>1. CASE j \in 1..k
    <3>1. got[c][i] < s[j].n
      BY <1>7, <2>1 DEF Precedes, k
    <3> QED BY <1>4, <2>1, <3>1
  <2>2. CASE j = k + 1
    <3>1. t[j] = m
      BY <1>1, <1>4, <2>2
    <3> QED BY <1>2, <1>7, <1>8, <3>1
  <2> QED BY <1>1, <1>4, <2>1, <2>2
<1>11. ASSUME NEW i \in 1..Len(t)
       PROVE  \E x \in Message : t[i] = x /\ Sound(c, x)'
  <2>1. CASE i \in 1..k
    <3>1. /\ t[i] = s[i] /\ s[i] \in Message /\ s[i].data
          /\ s[i].done = "more" /\ s[i].n <= sent[c]
      BY <1>3, <1>4, <2>1
    <3>2. PICK x \in Message : x = s[i]
      BY <3>1
    <3>3. Sound(c, x)'
      BY <1>5, <3>1, <3>2
    <3> QED BY <3>1, <3>2, <3>3
  <2>2. CASE i = k + 1
    BY <1>1, <1>4, <2>2
  <2> QED BY <1>1, <1>4, <2>1, <2>2
<1>12. Sorted(Wire(c))' /\ Precedes(got[c], Wire(c))' /\ Spread(got[c])'
  BY <1>7, <1>9, <1>10 DEF Sorted, Precedes, Spread, t
<1>13. ASSUME NEW i \in 1..Len(Wire(c)')
       PROVE  Sound(c, Wire(c)[i])'
  <2>1. PICK x \in Message : Wire(c)'[i] = x /\ Sound(c, x)'
    BY <1>11 DEF t
  <2> QED BY <2>1 DEF Sound
<1>14. \A i \in 1..Len(got'[c]) : got'[c][i] <= sent'[c]
  BY <1>2, <1>7, <1>8
<1> QED BY <1>12, <1>13, <1>14 DEF OrderInv

-----------------------------------------------------------------------------
(* Who may write.                                                          *)

(* A request that is being handled is at no other place.                   *)
LEMMA Handling ==
    ASSUME Ownership, NEW w \in Workers, NEW c \in Calls, job[w] = c
    PROVE  /\ c # NoCall
           /\ Active(c) /\ ~Waiting(c) /\ ~Unstarted(c)
           /\ sub[c] # "none"
           /\ \A v \in Workers : job[v] = c => v = w
<1>1. Holds(w, c) /\ Active(c)
  BY DEF Holds, Active
<1>2. ListenerInv(c)
  BY DEF Ownership
<1>3. ~Unstarted(c) /\ sub[c] # "none"
  BY <1>1, <1>2 DEF ListenerInv
<1>4. ~Waiting(c) /\ \A v \in Workers : job[v] = c => v = w
  BY <1>1 DEF Ownership, OneHandler, Holds, Waiting
<1> QED BY <1>1, <1>3, <1>4

(* When its member is done with it, a request is nowhere.                  *)
LEMMA HandlerEnds ==
    ASSUME Ownership, NEW w \in Workers, NEW c \in Calls, job[w] = c,
           job' = [job EXCEPT ![w] = NoCall], reqs' = reqs, pend' = pend
    PROVE  ~Active(c)'
<1>1. /\ ~Waiting(c) /\ c # NoCall
      /\ \A v \in Workers : job[v] = c => v = w
  BY Handling
<1>2. \A v \in Workers : job'[v] = (IF v = w THEN NoCall ELSE job[v])
  BY DEF Ownership, TypeOK
<1>3. \A v \in Workers : job'[v] # c
  BY <1>1, <1>2
<1>4. c \notin reqs' /\ \A v \in Workers : ~Queued(v, c)'
  BY <1>1 DEF Waiting, Queued
<1> QED BY <1>3, <1>4 DEF Active, Holds

(* Requests wait where Publish has put them, and nowhere else.             *)
LEMMA WaitingStep ==
    ASSUME TypeOK, [Next]_vars, NEW d \in Calls, Waiting(d)', ~Publish(d)
    PROVE  Waiting(d)
<1>1. ASSUME d \in reqs' => d \in reqs,
             \A w \in Workers : pend'[w] = pend[w] \/ pend'[w] = <<>>
      PROVE  Waiting(d)
  BY <1>1 DEF Waiting, Queued
<1>2. CASE UNCHANGED <<reqs, pend>>
  BY <1>1, <1>2
<1>3. ASSUME NEW c \in Calls, HubCaller(c) \/ Receiver(c)
      PROVE  Waiting(d)
  <2>1. CASE Publish(c)
    <3>1. reqs' = reqs \cup {c} /\ c # d /\ pend' = pend
      BY <2>1 DEF Publish, edgeVars
    <3> QED BY <1>1, <3>1
  <2>2. CASE ~Publish(c)
    <3>1. UNCHANGED <<reqs, pend>>
      BY <1>3, <2>2 DEF HubCaller, ReadStep, Receiver, Subscribe, RoundTripFails,
         PublishFails, ReadHead, ReadChunk, ReadEnd, CloseBody, NextMsgCheck,
         NextMsgPop, NextMsgTimeout, NextMsgClosed, ClosePipe, Unsubscribe,
         edgeVars
    <3> QED BY <1>2, <3>1
  <2> QED BY <2>1, <2>2
<1>4. ASSUME NEW c \in Calls, NEW w \in Workers, RouteRequest(c, w)
      PROVE  Waiting(d)
  <2>1. CASE d = c
    BY <1>4, <2>1 DEF RouteRequest, Waiting
  <2>2. CASE d # c
    <3>1. /\ pend[w] \in Seq(Calls)
          /\ pend'[w] = Append(pend[w], c)
          /\ \A v \in Workers \ {w} : pend'[v] = pend[v]
          /\ reqs' \subseteq reqs
      BY <1>4 DEF RouteRequest, TypeOK
    <3>2. /\ Len(pend'[w]) = Len(pend[w]) + 1
          /\ \A i \in 1..Len(pend[w]) : pend'[w][i] = pend[w][i]
          /\ pend'[w][Len(pend[w]) + 1] = c
          /\ Len(pend[w]) \in Nat
      BY <3>1
    <3>3. Queued(w, d)' => Queued(w, d)
      BY <2>2, <3>2 DEF Queued
    <3>4. \A v \in Workers : Queued(v, d)' => Queued(v, d)
      BY <3>1, <3>3 DEF Queued
    <3> QED BY <3>1, <3>4 DEF Waiting
  <2> QED BY <2>1, <2>2
<1>5. ASSUME NEW c \in Calls,
             NoInterest(c) \/ LoseRequest(c) \/ Deliver(c) \/ LoseMessage(c)
      PROVE  Waiting(d)
  <2>1. reqs' \subseteq reqs /\ pend' = pend
    BY <1>5 DEF NoInterest, LoseRequest, Deliver, LoseMessage, edgeVars
  <2> QED BY <1>1, <2>1
<1>6. ASSUME NEW w \in Workers, Dispatch(w)
      PROVE  Waiting(d)
  <2>1. /\ pend[w] \in Seq(Calls) /\ pend[w] # <<>>
        /\ pend'[w] = Tail(pend[w])
        /\ \A v \in Workers \ {w} : pend'[v] = pend[v]
        /\ reqs' = reqs
    BY <1>6 DEF Dispatch, TypeOK
  <2>2. /\ Len(pend'[w]) = Len(pend[w]) - 1 /\ Len(pend[w]) \in Nat
        /\ \A i \in 1..Len(pend'[w]) : pend'[w][i] = pend[w][i + 1]
    BY <2>1
  <2>3. \A i \in 1..Len(pend'[w]) : i + 1 \in 1..Len(pend[w])
    BY <2>2
  <2>4. Queued(w, d)' => Queued(w, d)
    BY <2>2, <2>3 DEF Queued
  <2>5. \A v \in Workers : Queued(v, d)' => Queued(v, d)
    BY <2>1, <2>4 DEF Queued
  <2> QED BY <2>1, <2>5 DEF Waiting
<1>7. ASSUME NEW w \in Workers, Worker(w), ~Dispatch(w)
      PROVE  Waiting(d)
  <2>1. UNCHANGED <<reqs, pend>>
    BY <1>7 DEF Worker, RespondOk, RespondError, CopyChunk, FinalFlush,
       FinalEmpty, WriteError, FinishUnpublished
  <2> QED BY <1>2, <2>1
<1>8. ASSUME NEW p \in Pods, Crash(p) \/ Restart(p)
      PROVE  Waiting(d)
  <2>1. /\ reqs' = reqs
        /\ \A w \in Workers : pend'[w] = pend[w] \/ pend'[w] = <<>>
    BY <1>8 DEF Crash, Restart
  <2> QED BY <1>1, <2>1
<1>9. CASE CloseConn
  BY <1>2, <1>9 DEF CloseConn, edgeVars
<1>10. CASE UNCHANGED vars
  BY <1>2, <1>10 DEF vars, edgeVars
<1> QED BY <1>3, <1>4, <1>5, <1>6, <1>7, <1>8, <1>9, <1>10
        DEF Next, Server, Route

-----------------------------------------------------------------------------
(* Steps that do not concern a call.                                       *)

(* Nothing of the stream of c changes.                                     *)
Same(c) ==
    /\ caller'[c] = caller[c] /\ sub'[c] = sub[c] /\ rcv'[c] = rcv[c]
    /\ cur'[c] = cur[c] /\ pipe'[c] = pipe[c] /\ mch'[c] = mch[c]
    /\ got'[c] = got[c] /\ net'[c] = net[c]
    /\ total'[c] = total[c] /\ framing'[c] = framing[c]
    /\ sent'[c] = sent[c] /\ lost'[c] = lost[c]

(* A step of one call leaves the streams of the others alone.              *)
LEMMA OtherCalls ==
    ASSUME TypeOK, NEW c \in Calls, NEW d \in Calls, c # d,
           HubCaller(c) \/ Receiver(c) \/ Server(c)
    PROVE  Same(d)
<1> USE DEF Same, edgeVars, hubVars
<1>1. /\ caller \in [Calls -> CallerStates]
      /\ sub \in [Calls -> {"none", "live", "gone"}]
      /\ rcv \in [Calls -> RcvStates]
      /\ cur \in [Calls -> Message]
      /\ pipe \in [Calls -> {"open", "eof", "err"}]
      /\ mch \in [Calls -> Seq(Message)]
      /\ got \in [Calls -> Seq(1..(MaxChunks + 1))]
      /\ net \in [Calls -> Seq(Message)]
      /\ lost \in [Calls -> BOOLEAN]
  BY DEF TypeOK
<1>2. CASE HubCaller(c)
  BY <1>1, <1>2 DEF HubCaller, ReadStep, Subscribe, RoundTripFails, Publish,
     PublishFails, ReadHead, ReadChunk, ReadEnd, CloseBody
<1>3. CASE Receiver(c)
  BY <1>1, <1>3 DEF Receiver, NextMsgCheck, NextMsgPop, NextMsgTimeout,
     NextMsgClosed, ClosePipe, Unsubscribe
<1>4. CASE Server(c)
  BY <1>1, <1>4 DEF Server, Route, RouteRequest, NoInterest, LoseRequest,
     Deliver, LoseMessage
<1> QED BY <1>2, <1>3, <1>4

(* A member works on the stream of the request it handles.                 *)
LEMMA OtherJobs ==
    ASSUME TypeOK, NEW w \in Workers, NEW d \in Calls, job[w] # d, Worker(w)
    PROVE  Same(d)
<1> USE DEF Same, hubVars
<1>1. /\ net \in [Calls -> Seq(Message)]
      /\ total \in [Calls -> 0..MaxChunks]
      /\ framing \in [Calls -> Framings]
      /\ sent \in [Calls -> 0..MaxChunks]
  BY DEF TypeOK
<1>2. CASE Dispatch(w) \/ FinishUnpublished(w)
  BY <1>2 DEF Dispatch, FinishUnpublished
<1>3. CASE RespondOk(w) \/ RespondError(w)
  BY <1>1, <1>3 DEF RespondOk, RespondError
<1>4. CASE CopyChunk(w) \/ FinalFlush(w)
  BY <1>1, <1>4 DEF CopyChunk, FinalFlush, PublishMsg
<1>5. CASE FinalEmpty(w) \/ WriteError(w)
  BY <1>1, <1>5 DEF FinalEmpty, WriteError, PublishMsg
<1> QED BY <1>2, <1>3, <1>4, <1>5 DEF Worker

(* Pods that go or come, requests that are routed or lost, timers and flags*)
(* change no stream.                                                       *)
LEMMA QuietSteps ==
    ASSUME TypeOK, NEW d \in Calls,
           \/ \E p \in Pods : Crash(p) \/ Restart(p)
           \/ \E w \in Workers : Dispatch(w) \/ FinishUnpublished(w)
           \/ \E c \in Calls : LoseRequest(c) \/ \E w \in Workers : RouteRequest(c, w)
           \/ UNCHANGED vars
    PROVE  Same(d)
BY DEF Same, hubVars, edgeVars, vars, Crash, Restart, Dispatch,
   FinishUnpublished, LoseRequest, RouteRequest

(* The invariant of a call whose stream does not change.                   *)
LEMMA SameStream ==
    ASSUME Stream, TypeOK', [Next]_vars, NEW d \in Calls, Same(d)
    PROVE  StreamInv(d)'
<1> USE DEF Same
<1>1. StreamInv(d) /\ TypeOK /\ ListenerInv(d)
  BY DEF Stream, Ownership
<1>2. ~Publish(d)
  <2>1. caller \in [Calls -> CallerStates]
    BY <1>1 DEF TypeOK
  <2> QED BY <2>1 DEF Publish
<1>3. (Active(d)' => Active(d)) /\ (Waiting(d)' => Waiting(d))
  BY <1>1, <1>2, HandlersStep, WaitingStep DEF Stream
<1>4. Wire(d)' = Wire(d) /\ (Unstarted(d)' <=> Unstarted(d))
  BY DEF Wire, Held, Unstarted
<1>5. SourceInv(d)'
  BY <1>1, <1>3, <1>4 DEF StreamInv, SourceInv
<1>6. OrderInv(d)'
  <2>1. Thinned(Wire(d)', Wire(d))
    BY <1>1, <1>4, WireType, ThinnedEnds
  <2> QED BY <1>1, <1>3, <2>1, OrderThinned DEF StreamInv
<1>7. EndInv(d)'
  BY <1>1, <1>3 DEF StreamInv, EndInv, Complete
<1>8. GapInv(d)'
  BY <1>1, <1>4 DEF StreamInv, GapInv, Contiguous, Reaches
<1> QED BY <1>5, <1>6, <1>7, <1>8 DEF StreamInv

-----------------------------------------------------------------------------
(* What a change of the wire does to Contiguous.                           *)

(* The stream is left alone, up to the place where a message is.           *)
LEMMA ContiguousKept ==
    ASSUME NEW c \in Calls, Wire(c)' = Wire(c), got'[c] = got[c], sent'[c] = sent[c]
    PROVE  /\ Contiguous(c) => Contiguous(c)'
           /\ Reaches(c) => Reaches(c)'
BY DEF Contiguous, Reaches, Counts

(* The end of the stream is cut off.                                       *)
Prefix(t, s) == Len(t) <= Len(s) /\ \A i \in 1..Len(t) : t[i] = s[i]

LEMMA ContiguousPrefix ==
    ASSUME NEW c \in Calls, Contiguous(c), Prefix(Wire(c)', Wire(c)),
           Len(Wire(c)) \in Nat, Len(Wire(c)') \in Nat, got'[c] = got[c]
    PROVE  Contiguous(c)'
<1>1. \A i \in 1..Len(Wire(c)') : i \in 1..Len(Wire(c)) /\ Wire(c)'[i] = Wire(c)[i]
  BY DEF Prefix
<1>2. \A i \in 1..Len(Wire(c)') : Wire(c)'[i].n = Len(got'[c]) + i
  BY <1>1 DEF Contiguous
<1>3. Counts(got'[c])
  BY DEF Contiguous, Counts
<1> QED BY <1>2, <1>3 DEF Contiguous, Counts

(* A message without data is the last one, and everything before it has    *)
(* been read when it is the first one.                                     *)
LEMMA LastMessage ==
    ASSUME TypeOK, NEW c \in Calls, Contiguous(c), OrderInv(c),
           Wire(c) # <<>>, ~Head(Wire(c)).data
    PROVE  Len(got[c]) = sent[c] /\ Len(Wire(c)) = 1
<1> DEFINE s == Wire(c)
<1>1. s \in Seq(Message) /\ s # <<>>
  BY WireType
<1>2. sent[c] \in Nat /\ Len(got[c]) \in Nat
  BY DEF TypeOK
<1> HIDE DEF s
<1>3. Head(s) = s[1] /\ Len(s) \in Nat /\ Len(s) >= 1 /\ s[1] \in Message
  BY <1>1, HeadAndTail
<1>4. Sound(c, s[1]) /\ s[1].n = Len(got[c]) + 1
  BY <1>3 DEF OrderInv, Contiguous, s
<1>5. ~s[1].data
  BY <1>3 DEF s
<1>6. ~(Len(got[c]) + 1 <= sent[c]) /\ Len(got[c]) + 1 <= sent[c] + 1
  BY <1>4, <1>5 DEF Sound
<1>7. Len(got[c]) = sent[c]
  BY <1>2, <1>6
<1>8. ~(Len(s) >= 2)
  <2> SUFFICES ASSUME Len(s) >= 2
               PROVE  FALSE
    OBVIOUS
  <2>1. 2 \in 1..Len(s)
    BY <1>3
  <2>2. Sound(c, s[2]) /\ s[2].n = Len(got[c]) + 2
    BY <2>1 DEF OrderInv, Contiguous, s
  <2>3. Len(got[c]) + 2 <= sent[c] + 1
    BY <2>2 DEF Sound
  <2> QED BY <1>2, <1>7, <2>3
<1>9. Len(s) = 1
  <2> DEFINE k == Len(s)
  <2>1. k \in Nat /\ k >= 1 /\ ~(k >= 2)
    BY <1>3, <1>8
  <2> HIDE DEF k
  <2>2. k = 1
    BY <2>1
  <2> QED BY <2>2 DEF k
<1> QED BY <1>7, <1>9 DEF s

(* The caller reads the next chunk, or the message without data.           *)
LEMMA ContiguousRead ==
    ASSUME TypeOK, NEW c \in Calls, Contiguous(c), OrderInv(c),
           Wire(c) # <<>>, Wire(c)' = Tail(Wire(c)),
           got'[c] = IF Head(Wire(c)).data
                     THEN Append(got[c], Head(Wire(c)).n) ELSE got[c],
           sent'[c] = sent[c]
    PROVE  /\ Contiguous(c)'
           /\ Reaches(c) => Reaches(c)'
           /\ sent[c] <= Head(Wire(c)).n => Len(got'[c]) = sent[c]
<1> DEFINE s == Wire(c)
           g == got[c]
           t == Wire(c)'
           h == got'[c]
<1>1. s \in Seq(Message) /\ s # <<>>
  BY WireType
<1>2. /\ sent[c] \in Nat /\ Len(g) \in Nat
      /\ g \in Seq(1..(MaxChunks + 1))
  BY DEF TypeOK
<1>3. /\ Head(s) = s[1] /\ s[1] \in Message
      /\ Len(s) \in Nat /\ Len(s) >= 1 /\ Len(t) = Len(s) - 1
      /\ \A i \in 1..Len(t) : t[i] = s[i + 1]
  BY <1>1, HeadAndTail
<1>4. /\ Counts(g)
      /\ \A i \in 1..Len(s) : s[i].n = Len(g) + i
  BY DEF Contiguous
<1>5. CASE s[1].data
  <2>1. h = Append(g, s[1].n) /\ s[1].n = Len(g) + 1
    BY <1>3, <1>4, <1>5
  <2>2. s[1].n \in 1..(MaxChunks + 1)
    BY <1>3 DEF Message
  <2>3. s[1].n <= sent[c]
    <3>1. Sound(c, s[1])
      BY <1>3 DEF OrderInv
    <3> QED BY <1>5, <3>1 DEF Sound
  <2> HIDE DEF s, g, t, h
  <2>4. /\ Len(h) = Len(g) + 1
        /\ \A i \in 1..Len(g) : h[i] = g[i]
        /\ h[Len(g) + 1] = Len(g) + 1
    BY <1>2, <2>1, <2>2, AppendProperties
  <2>5. Counts(h)
    <3> SUFFICES ASSUME NEW i \in 1..Len(h)
                 PROVE  h[i] = i
      BY DEF Counts
    <3>1. CASE i \in 1..Len(g)
      BY <1>4, <2>4, <3>1 DEF Counts
    <3>2. CASE i = Len(g) + 1
      BY <2>4, <3>2
    <3> QED BY <1>2, <2>4, <3>1, <3>2
  <2>6. ASSUME NEW i \in 1..Len(t)
        PROVE  t[i].n = Len(h) + i
    <3>1. i + 1 \in 1..Len(s)
      BY <1>3
    <3>2. t[i].n = Len(g) + (i + 1)
      BY <1>3, <1>4, <3>1
    <3> QED BY <1>2, <2>4, <3>2
  <2>7. Len(h) + Len(t) = Len(g) + Len(s)
    BY <1>2, <1>3, <2>4
  <2>8. sent[c] <= s[1].n => Len(h) = sent[c]
    BY <1>2, <2>1, <2>3, <2>4
  <2> USE DEF s, g, t, h
  <2>9. Contiguous(c)'
    BY <2>5, <2>6 DEF Contiguous, Counts
  <2>10. Reaches(c) => Reaches(c)'
    BY <2>7 DEF Reaches
  <2> QED BY <1>3, <2>8, <2>9, <2>10
<1>6. CASE ~s[1].data
  <2>1. Len(g) = sent[c] /\ Len(s) = 1 /\ h = g
    BY <1>3, <1>6, LastMessage
  <2>2. Len(t) = 0
    BY <1>3, <2>1
  <2> HIDE DEF h, t, g, s
  <2>3. Counts(h) /\ Len(h) + Len(t) = sent[c]
    BY <1>2, <1>4, <2>1, <2>2
  <2>4. \A i \in 1..Len(t) : t[i].n = Len(h) + i
    BY <2>2
  <2> USE DEF h, t, g, s
  <2>5. Contiguous(c)' /\ Reaches(c)'
    BY <2>3, <2>4 DEF Contiguous, Reaches, Counts
  <2> QED BY <2>1, <2>5
<1> QED BY <1>5, <1>6

(* The member that handles a request publishes a message.                  *)
LEMMA ContiguousPublish ==
    ASSUME TypeOK, NEW c \in Calls, Contiguous(c), Reaches(c), OrderInv(c),
           Active(c), NEW m \in Message, m.n = sent[c] + 1,
           Wire(c)' = Append(Wire(c), m), got'[c] = got[c],
           sent'[c] = sent[c] \/ sent'[c] = sent[c] + 1
    PROVE  Contiguous(c)' /\ Reaches(c)'
<1> DEFINE s == Wire(c)
           g == got[c]
           k == Len(s)
           t == Wire(c)'
<1>1. s \in Seq(Message)
  BY WireType
<1>2. sent[c] \in Nat /\ Len(g) \in Nat
  BY DEF TypeOK
<1>3. /\ Counts(g)
      /\ \A i \in 1..k : s[i].n = Len(g) + i
      /\ Len(g) + k \in {sent[c], sent[c] + 1}
  BY DEF Contiguous, Reaches
<1>4. \A i \in 1..k : s[i].n <= sent[c]
  BY OnlyData
<1>5. \A i \in 1..Len(g) : g[i] <= sent[c]
  BY DEF OrderInv
<1>6. t = Append(s, m)
  OBVIOUS
<1> HIDE DEF s, t, g
<1>7. k \in Nat
  BY <1>1
<1>8. /\ Len(t) = k + 1 /\ t[k + 1] = m
      /\ \A i \in 1..k : t[i] = s[i]
  BY <1>1, <1>6, AppendProperties
<1> HIDE DEF k
<1>9. Len(g) + k = sent[c]
  <2>1. CASE k = 0
    <3>1. Len(g) # 0 => Len(g) \in 1..Len(g)
      BY <1>2
    <3>2. Len(g) # 0 => Len(g) <= sent[c]
      BY <1>3, <1>5, <3>1 DEF Counts
    <3> QED BY <1>2, <1>3, <2>1, <3>2
  <2>2. CASE k # 0
    <3>1. k \in 1..k
      BY <1>7, <2>2
    <3>2. Len(g) + k <= sent[c]
      BY <1>3, <1>4, <3>1
    <3> QED BY <1>2, <1>3, <1>7, <3>2
  <2> QED BY <2>1, <2>2
<1>10. ASSUME NEW i \in 1..Len(t)
       PROVE  t[i].n = Len(g) + i
  <2>1. CASE i \in 1..k
    BY <1>3, <1>8, <2>1
  <2>2. CASE i = k + 1
    BY <1>2, <1>7, <1>8, <1>9, <2>2
  <2> QED BY <1>7, <1>8, <2>1, <2>2
<1>11. Len(g) + Len(t) \in {sent'[c], sent'[c] + 1}
  BY <1>2, <1>7, <1>8, <1>9
<1>12. Len(got'[c]) = Len(g) /\ Counts(got[c])'
  BY <1>3 DEF Counts, g
<1> QED BY <1>10, <1>11, <1>12 DEF Contiguous, Reaches, t

-----------------------------------------------------------------------------
(* Steps of the hub.                                                       *)

(* The caller, its subscription or the state of the receiver changes, and  *)
(* the stream does not.                                                    *)
LEMMA StillStream ==
    ASSUME Stream, TypeOK', NEW c \in Calls,
           Active(c)' => Active(c), Waiting(c)' => Waiting(c),
           Wire(c)' = Wire(c), got'[c] = got[c], sent'[c] = sent[c],
           total'[c] = total[c], framing'[c] = framing[c],
           lost'[c] = lost[c], pipe'[c] = pipe[c],
           Unstarted(c)' => Unstarted(c),
           sub'[c] = "live" => sub[c] = "live" \/ Unstarted(c),
           rcv'[c] = "closeOk" => rcv[c] = "closeOk",
           caller'[c] = "ok" =>
              \/ caller[c] = "ok"
              \/ framing[c] = "stream" /\ pipe[c] = "eof"
    PROVE  StreamInv(c)'
<1>1. StreamInv(c) /\ TypeOK
  BY DEF Stream, Ownership
<1>2. SourceInv(c)'
  BY <1>1 DEF StreamInv, SourceInv
<1>3. OrderInv(c)'
  <2>1. Thinned(Wire(c)', Wire(c))
    BY <1>1, WireType, ThinnedEnds
  <2> QED BY <1>1, <2>1, OrderThinned DEF StreamInv
<1>4. EndInv(c)'
  BY <1>1 DEF StreamInv, EndInv, Complete, EndsWith, Delimited, Terminated
<1>5. GapInv(c)'
  <2>1. (Contiguous(c) => Contiguous(c)') /\ (Reaches(c) => Reaches(c)')
    BY ContiguousKept
  <2>2. Unstarted(c) /\ Contiguous(c) => Reaches(c)
    <3>1. Unstarted(c) => Wire(c) = <<>> /\ sent[c] = 0
      BY <1>1 DEF StreamInv, SourceInv, TypeOK
    <3>2. Len(got[c]) \in Nat /\ Len(<<>>) = 0
      BY <1>1 DEF TypeOK
    <3>3. Len(got[c]) # 0 => 1 \in 1..Len(got[c])
      BY <3>2
    <3>4. Contiguous(c) /\ Len(got[c]) # 0 => 1 <= sent[c]
      BY <1>1, <3>3 DEF StreamInv, OrderInv, Contiguous, Counts
    <3> QED BY <3>1, <3>2, <3>4 DEF Reaches
  <2> QED BY <1>1, <2>1, <2>2 DEF StreamInv, GapInv
<1> QED BY <1>2, <1>3, <1>4, <1>5 DEF StreamInv

(* Publish makes the request that the call was waiting to send.            *)
LEMMA PublishStream ==
    ASSUME Stream, TypeOK', NEW c \in Calls, Publish(c)
    PROVE  StreamInv(c)'
<1> USE DEF edgeVars
<1>1. StreamInv(c) /\ TypeOK /\ ListenerInv(c)
  BY DEF Stream, Ownership
<1>2. /\ caller[c] = "subscribed" /\ caller'[c] = "header"
      /\ rcv[c] = "none" /\ rcv'[c] = "check" /\ pipe[c] = "open"
      /\ sub[c] = "live"
      /\ UNCHANGED <<sub, cur, pipe, mch, got, net, total, framing, sent, lost>>
  BY <1>1 DEF Publish, TypeOK, ListenerInv, Unstarted
<1>3. Wire(c)' = Wire(c) /\ Wire(c) = <<>> /\ total[c] = 0
  BY <1>1, <1>2 DEF Wire, Held, StreamInv, SourceInv, Unstarted
<1>4. SourceInv(c)'
  BY <1>1, <1>2, <1>3 DEF StreamInv, SourceInv, Unstarted
<1>5. OrderInv(c)'
  <2>1. Wire(c)' = <<>> /\ Len(<<>>) = 0
    BY <1>3
  <2>2. Sorted(Wire(c))' /\ Precedes(got[c], Wire(c))'
    BY <2>1 DEF Sorted, Precedes
  <2>3. Spread(got[c])' /\ \A i \in 1..Len(got'[c]) : got'[c][i] <= sent'[c]
    BY <1>1, <1>2 DEF StreamInv, OrderInv, Spread
  <2> QED BY <2>1, <2>2, <2>3 DEF OrderInv
<1>6. EndInv(c)'
  BY <1>2 DEF EndInv
<1>7. GapInv(c)'
  <2>1. (Contiguous(c) => Contiguous(c)') /\ (Reaches(c) => Reaches(c)')
    BY <1>2, <1>3, ContiguousKept
  <2> QED BY <1>1, <1>2, <2>1 DEF StreamInv, GapInv
<1> QED BY <1>4, <1>5, <1>6, <1>7 DEF StreamInv

(* Every step of the caller but Publish and ReadChunk.                     *)
LEMMA CallerStream ==
    ASSUME Stream, TypeOK', NEW c \in Calls,
           Active(c)' => Active(c), Waiting(c)' => Waiting(c),
           \/ Subscribe(c) \/ RoundTripFails(c) \/ PublishFails(c)
           \/ ReadHead(c) \/ ReadEnd(c) \/ CloseBody(c)
    PROVE  StreamInv(c)'
<1> USE DEF edgeVars
<1>1. /\ ListenerInv(c)
      /\ caller \in [Calls -> CallerStates]
      /\ sub \in [Calls -> {"none", "live", "gone"}]
  BY DEF Stream, Ownership, TypeOK
<1>2. UNCHANGED <<rcv, cur, pipe, mch, got, net, total, framing, sent, lost>>
  BY DEF Subscribe, RoundTripFails, PublishFails, ReadHead, ReadEnd, CloseBody
<1>3. Wire(c)' = Wire(c)
  BY <1>2 DEF Wire, Held
<1>4. /\ Unstarted(c)' => Unstarted(c)
      /\ sub'[c] = "live" => sub[c] = "live" \/ Unstarted(c)
      /\ caller'[c] = "ok" => framing[c] = "stream" /\ pipe[c] = "eof"
  <2>1. CASE Subscribe(c)
    BY <1>1, <2>1 DEF Subscribe, Unstarted, ListenerInv
  <2>2. CASE RoundTripFails(c) \/ PublishFails(c)
    BY <1>1, <2>2 DEF RoundTripFails, PublishFails, Unstarted
  <2>3. CASE ReadHead(c) \/ CloseBody(c)
    BY <1>1, <2>3 DEF ReadHead, CloseBody, Unstarted
  <2>4. CASE ReadEnd(c)
    BY <1>1, <2>4 DEF ReadEnd, Reading, Unstarted
  <2> QED BY <2>1, <2>2, <2>3, <2>4
<1> QED BY <1>2, <1>3, <1>4, StillStream

(* The first message of the wire is the one the receiver holds.            *)
LEMMA HeldFirst ==
    ASSUME TypeOK, NEW c \in Calls, rcv[c] = "write"
    PROVE  /\ cur[c] \in Message
           /\ Wire(c) # <<>> /\ Head(Wire(c)) = cur[c]
           /\ Tail(Wire(c)) = (<<>> \o mch[c]) \o net[c]
<1>1. cur[c] \in Message /\ mch[c] \in Seq(Message) /\ net[c] \in Seq(Message)
  BY DEF TypeOK
<1>2. Wire(c) = (<<cur[c]>> \o mch[c]) \o net[c]
  BY DEF Wire, Held
<1> DEFINE m == cur[c]
           q == mch[c]
           n == net[c]
<1>3. m \in Message /\ q \in Seq(Message) /\ n \in Seq(Message)
  BY <1>1
<1> HIDE DEF m, q, n
<1>4. /\ (<<m>> \o q) \o n # <<>>
      /\ Head((<<m>> \o q) \o n) = m
      /\ Tail((<<m>> \o q) \o n) = (<<>> \o q) \o n
  BY <1>3, WireRead
<1> USE DEF m, q, n
<1> QED BY <1>1, <1>2, <1>4

(* ReadChunk, without the caller's part in it.                             *)
LEMMA ReadChunkStream ==
    ASSUME Stream, TypeOK', NEW c \in Calls, ReadChunk(c),
           Active(c)' => Active(c), Waiting(c)' => Waiting(c)
    PROVE  StreamInv(c)'
<1> USE DEF edgeVars
<1> DEFINE m == cur[c]
<1>1. StreamInv(c) /\ TypeOK /\ ListenerInv(c)
  BY DEF Stream, Ownership
<1>2. /\ rcv[c] = "write" /\ Reading(c)
      /\ UNCHANGED <<sub, cur, pipe, mch, net, total, framing, sent, lost>>
      /\ rcv'[c] = AfterWrite(m)
      /\ got'[c] = IF m.data THEN Append(got[c], m.n) ELSE got[c]
      /\ IF m.data THEN caller'[c] \in AfterChunk(c, got'[c])
                  ELSE caller'[c] = caller[c]
  BY <1>1 DEF ReadChunk, TypeOK
<1>3. /\ m \in Message /\ Wire(c) # <<>> /\ Head(Wire(c)) = m
      /\ Tail(Wire(c)) = (<<>> \o mch[c]) \o net[c]
  BY <1>1, <1>2, HeldFirst
<1>4. /\ rcv'[c] \in {"check", "closeOk", "closeErr"}
      /\ rcv'[c] = "closeOk" => m.done = "ok"
  BY <1>2, <1>3 DEF AfterWrite, Message
<1>5. Wire(c)' = Tail(Wire(c))
  BY <1>2, <1>3, <1>4 DEF Wire, Held
<1>6. pipe[c] = "open"
  BY <1>1, <1>2 DEF ListenerInv, TypeOK
<1>7. Sound(c, m)
  <2>1. Wire(c) \in Seq(Message)
    BY <1>1, WireType
  <2>2. m = Wire(c)[1] /\ 1 \in 1..Len(Wire(c))
    BY <1>3, <2>1, HeadAndTail
  <2> QED BY <1>1, <2>2 DEF StreamInv, OrderInv
<1>8. ~Unstarted(c) /\ ~Unstarted(c)'
  <2>1. ~Unstarted(c)
    BY <1>2 DEF Unstarted, Reading
  <2>2. \A x \in AfterChunk(c, got'[c]) : x \notin {"idle", "subscribed"}
    BY <1>2 DEF Reading, AfterChunk, AfterChunked, Onwards, AtEnd, OnSyntax
  <2> QED BY <1>2, <2>1, <2>2 DEF Unstarted
<1>9. SourceInv(c)'
  BY <1>1, <1>2, <1>8 DEF StreamInv, SourceInv
<1>10. OrderInv(c)'
  <2>1. CASE m.data
    BY <1>1, <1>2, <1>3, <1>5, <2>1, OrderRead DEF StreamInv
  <2>2. CASE ~m.data
    <3>1. Thinned(Wire(c)', Wire(c))
      BY <1>1, <1>3, <1>5, WireType, ThinnedTail
    <3> QED BY <1>1, <1>2, <2>2, <3>1, OrderThinned DEF StreamInv
  <2> QED BY <2>1, <2>2
<1>11. EndInv(c)'
  <2>1. rcv'[c] = "closeOk" => Complete(c)'
    BY <1>2, <1>4, <1>7 DEF Sound, Complete
  <2>2. ASSUME caller'[c] = "ok"
        PROVE  /\ total[c] # 0 /\ sent[c] = total[c] /\ framing[c] # "stream"
               /\ framing[c] \in Delimited => Len(got'[c]) = total[c]
               /\ framing[c] \in Terminated => EndsWith(got'[c], total[c])
    <3> DEFINE g == got'[c]
               k == Len(g)
    <3>1. /\ m.data /\ framing[c] \in Delimited \cup Terminated
          /\ framing[c] \in Delimited => k = total[c]
          /\ framing[c] \in Terminated => g[k] = total[c]
      <4>1. caller[c] \in {"header", "body", "draining"}
        BY <1>2 DEF Reading
      <4>2. m.data /\ "ok" \in AfterChunk(c, g)
        BY <1>2, <2>2, <4>1
      <4> HIDE DEF g, m
      <4> QED BY <4>1, <4>2 DEF AfterChunk, AfterChunked, Onwards, AtEnd, OnSyntax,
              Delimited, Terminated
    <3>2. g \in Seq(1..(MaxChunks + 1)) /\ g = Append(got[c], m.n)
      BY <1>2, <3>1 DEF TypeOK
    <3>3. k \in Nat /\ k >= 1
      <4>1. got[c] \in Seq(1..(MaxChunks + 1)) /\ m.n \in 1..(MaxChunks + 1)
        BY <1>1, <1>3 DEF TypeOK, Message
      <4> QED BY <3>2, <4>1, AppendProperties
    <3>4. g[1] \in Nat /\ g[1] >= 1 /\ g[k] \in Nat /\ g[k] >= 1
      BY <3>2, <3>3, ElementOfSeq
    <3>5. g[1] + k <= g[k] + 1 /\ g[k] <= sent'[c]
      BY <1>10, <3>3 DEF OrderInv, Spread
    <3>6. sent[c] \in Nat /\ sent[c] <= total[c] /\ sent' = sent /\ total[c] \in Nat
      BY <1>1, <1>2 DEF StreamInv, SourceInv, TypeOK
    <3> HIDE DEF k, g
    <3>7. k = total[c] \/ g[k] = total[c]
      BY <3>1
    <3>8. sent[c] = total[c] /\ total[c] # 0
      BY <3>3, <3>4, <3>5, <3>6, <3>7
    <3> QED BY <3>1, <3>3, <3>8 DEF k, g, EndsWith, Delimited, Terminated
  <2>3. pipe'[c] = "open"
    BY <1>2, <1>6
  <2> QED BY <1>2, <2>1, <2>2, <2>3 DEF EndInv
<1>12. GapInv(c)'
  <2> SUFFICES ASSUME ~lost'[c]
               PROVE  /\ Contiguous(c)'
                      /\ sub[c] = "live" => Reaches(c)'
                      /\ rcv'[c] = "closeOk" => Len(got'[c]) = sent'[c]
    BY <1>2, <1>6 DEF GapInv
  <2>1. Contiguous(c) /\ (sub[c] = "live" => Reaches(c))
    BY <1>1, <1>2 DEF StreamInv, GapInv
  <2>2. /\ Contiguous(c)'
        /\ Reaches(c) => Reaches(c)'
        /\ sent[c] <= m.n => Len(got'[c]) = sent[c]
    BY <1>1, <1>2, <1>3, <1>5, <2>1, ContiguousRead DEF StreamInv
  <2>3. rcv'[c] = "closeOk" => sent[c] <= m.n
    BY <1>4, <1>7 DEF Sound
  <2> QED BY <1>2, <2>1, <2>2, <2>3
<1> QED BY <1>9, <1>10, <1>11, <1>12 DEF StreamInv

(* The receiver takes a message from the channel.                          *)
LEMMA NextMsgPopStream ==
    ASSUME Stream, TypeOK', NEW c \in Calls, NextMsgPop(c),
           Active(c)' => Active(c), Waiting(c)' => Waiting(c)
    PROVE  StreamInv(c)'
<1> USE DEF edgeVars
<1> DEFINE m == Head(mch[c])
           q == mch[c]
           n == net[c]
<1>1. StreamInv(c) /\ TypeOK /\ ListenerInv(c)
  BY DEF Stream, Ownership
<1>2. /\ rcv[c] = "pop" /\ q # <<>>
      /\ UNCHANGED <<caller, sub, pipe, got, net, total, framing, sent, lost>>
      /\ mch'[c] = Tail(q)
      /\ IF IsStatus(m)
         THEN rcv'[c] = "closeErr" /\ cur'[c] = cur[c]
         ELSE rcv'[c] = "write" /\ cur'[c] = m
  BY <1>1 DEF NextMsgPop, TypeOK
<1>3. /\ q \in Seq(Message) /\ n \in Seq(Message)
      /\ m \in Message /\ Tail(q) \in Seq(Message)
  <2>1. q \in Seq(Message) /\ n \in Seq(Message)
    BY <1>1 DEF TypeOK
  <2> QED BY <1>2, <2>1, HeadAndTail
<1>4. /\ Wire(c) = (<<>> \o q) \o n
      /\ (<<m>> \o Tail(q)) \o n = Wire(c)
  BY <1>2, <1>3, WirePop DEF Wire, Held
<1>5. CASE ~IsStatus(m)
  <2>1. Wire(c)' = (<<m>> \o Tail(q)) \o n
    BY <1>2, <1>5 DEF Wire, Held
  <2>2. Wire(c)' = Wire(c) /\ (Unstarted(c)' => Unstarted(c))
    BY <1>2, <1>4, <2>1 DEF Unstarted
  <2> QED BY <1>2, <1>5, <2>2, StillStream
<1>6. CASE IsStatus(m)
  <2> DEFINE r == Tail(q)
  <2>1. r \in Seq(Message)
    BY <1>3
  <2>2. Wire(c) # <<>> /\ Head(Wire(c)) = m /\ Tail(Wire(c)) = (<<>> \o r) \o n
    <3> HIDE DEF r, m, n
    <3>1. /\ (<<m>> \o r) \o n # <<>>
          /\ Head((<<m>> \o r) \o n) = m
          /\ Tail((<<m>> \o r) \o n) = (<<>> \o r) \o n
      BY <1>3, <2>1, WireRead
    <3> QED BY <1>4, <3>1 DEF r
  <2>3. Wire(c)' = Tail(Wire(c))
    BY <1>2, <1>6, <2>2 DEF Wire, Held
  <2>4. Sound(c, m) /\ ~m.data
    <3>1. Wire(c) \in Seq(Message)
      BY <1>1, WireType
    <3>2. m = Wire(c)[1] /\ 1 \in 1..Len(Wire(c))
      BY <2>2, <3>1, HeadAndTail
    <3>3. Sound(c, m)
      BY <1>1, <3>2 DEF StreamInv, OrderInv
    <3> QED BY <1>6, <3>3 DEF Sound, IsStatus
  <2>5. SourceInv(c)'
    <3>1. ~Unstarted(c)
      BY <1>1, <1>2 DEF ListenerInv
    <3> QED BY <1>1, <1>2, <3>1 DEF StreamInv, SourceInv, Unstarted
  <2>6. OrderInv(c)'
    <3>1. Thinned(Wire(c)', Wire(c))
      BY <1>1, <2>2, <2>3, WireType, ThinnedTail
    <3> QED BY <1>1, <1>2, <3>1, OrderThinned DEF StreamInv
  <2>7. EndInv(c)'
    BY <1>1, <1>2, <1>6 DEF StreamInv, EndInv, Complete
  <2>8. Contiguous(c) => Contiguous(c)' /\ (Reaches(c) => Reaches(c)')
    BY <1>1, <1>2, <2>2, <2>3, <2>4, ContiguousRead DEF StreamInv
  <2>9. GapInv(c)'
    BY <1>1, <1>2, <1>6, <2>8 DEF StreamInv, GapInv
  <2> QED BY <2>5, <2>6, <2>7, <2>9 DEF StreamInv
<1> QED BY <1>5, <1>6

(* What is left when the end of a stream is cut off is a beginning of it.  *)
LEMMA WireCut ==
    ASSUME NEW h \in Seq(Message), NEW q \in Seq(Message), NEW n \in Seq(Message),
           NEW r \in Seq(Message), r = q \/ r = <<>>
    PROVE  Prefix((h \o r) \o <<>>, (h \o q) \o n)
<1> DEFINE s == (h \o q) \o n
           t == (h \o r) \o <<>>
           e == <<>>
<1>1. e \in Seq(Message) /\ Len(e) = 0
  OBVIOUS
<1>2. /\ Len(s) = Len(h) + Len(q) + Len(n)
      /\ \A i \in 1..Len(s) :
           s[i] = IF i <= Len(h) THEN h[i]
                  ELSE IF i <= Len(h) + Len(q) THEN q[i - Len(h)]
                  ELSE n[i - Len(h) - Len(q)]
  BY ThreeParts
<1>3. /\ Len(t) = Len(h) + Len(r)
      /\ \A i \in 1..Len(t) : t[i] = IF i <= Len(h) THEN h[i] ELSE r[i - Len(h)]
  <2>1. h \o r \in Seq(Message)
    BY ConcatProperties
  <2>2. t = h \o r
    BY <2>1, ConcatEmptySeq
  <2> QED BY <2>2, ConcatProperties
<1>4. Len(h) \in Nat /\ Len(q) \in Nat /\ Len(n) \in Nat
  OBVIOUS
<1>5. Len(r) <= Len(q) /\ \A j \in 1..Len(r) : r[j] = q[j]
  BY <1>1, <1>4
<1>6. Len(r) \in Nat
  OBVIOUS
<1> HIDE DEF s, t, e
<1>7. Len(t) <= Len(s)
  BY <1>2, <1>3, <1>4, <1>5
<1>8. ASSUME NEW i \in 1..Len(t)
      PROVE  t[i] = s[i]
  <2>1. i \in 1..Len(s) /\ i \in Nat /\ i <= Len(h) + Len(r)
    BY <1>2, <1>3, <1>4, <1>6, <1>7
  <2>2. CASE i <= Len(h)
    BY <1>2, <1>3, <2>1, <2>2
  <2>3. CASE ~(i <= Len(h))
    <3>1. i - Len(h) \in 1..Len(r) /\ i <= Len(h) + Len(q)
      BY <1>4, <1>5, <1>6, <2>1, <2>3
    <3>2. t[i] = r[i - Len(h)] /\ s[i] = q[i - Len(h)]
      BY <1>2, <1>3, <2>1, <2>3, <3>1
    <3> QED BY <1>5, <3>1, <3>2
  <2> QED BY <2>2, <2>3
<1>9. Prefix(t, s)
  BY <1>7, <1>8 DEF Prefix
<1> QED BY <1>9 DEF s, t

(* A beginning of a wire is what is left when messages are taken away.     *)
LEMMA PrefixThinned ==
    ASSUME NEW s \in Seq(Message), NEW t \in Seq(Message), Prefix(t, s)
    PROVE  Thinned(t, s)
<1>1. Len(s) \in Nat /\ Len(t) \in Nat
  OBVIOUS
<1>2. \A i \in 1..Len(t) : i \in 1..Len(s) /\ t[i] = s[i]
  BY <1>1 DEF Prefix
<1> QED BY <1>2 DEF Thinned

(* The hub stops listening: what has not reached the receiver is gone, and *)
(* perhaps what is in its channel.                                         *)
LEMMA CutStream ==
    ASSUME Stream, TypeOK', NEW c \in Calls,
           Active(c)' => Active(c), Waiting(c)' => Waiting(c),
           Held(c)' = Held(c), mch'[c] = mch[c] \/ mch'[c] = <<>>,
           net'[c] = <<>>, sub'[c] # "live",
           caller'[c] = caller[c], pipe'[c] = pipe[c], got'[c] = got[c],
           total'[c] = total[c], framing'[c] = framing[c],
           sent'[c] = sent[c], lost'[c] = lost[c],
           Unstarted(c)' => Unstarted(c),
           rcv'[c] = "closeOk" => rcv[c] = "closeOk"
    PROVE  StreamInv(c)'
<1>1. StreamInv(c) /\ TypeOK
  BY DEF Stream, Ownership
<1>2. Wire(c) \in Seq(Message) /\ Wire(c)' \in Seq(Message)
  BY <1>1, WireType, NextWireType
<1>3. Prefix(Wire(c)', Wire(c))
  <2> DEFINE h == Held(c)
             q == mch[c]
             n == net[c]
             r == mch'[c]
  <2>1. h \in Seq(Message) /\ q \in Seq(Message) /\ n \in Seq(Message)
    BY <1>1, WireType
  <2>2. r \in Seq(Message)
    BY DEF TypeOK
  <2>3. Wire(c)' = (h \o r) \o <<>> /\ Wire(c) = (h \o q) \o n
    BY DEF Wire
  <2>4. r = q \/ r = <<>>
    OBVIOUS
  <2> HIDE DEF h, q, n, r
  <2>5. Prefix((h \o r) \o <<>>, (h \o q) \o n)
    BY <2>1, <2>2, <2>4, WireCut
  <2> QED BY <2>3, <2>5
<1>4. Thinned(Wire(c)', Wire(c))
  BY <1>2, <1>3, PrefixThinned
<1>5. OrderInv(c)'
  BY <1>1, <1>4, OrderThinned DEF StreamInv
<1>6. SourceInv(c)'
  <2>1. Len(Wire(c)') \in Nat /\ Len(Wire(c)') <= Len(Wire(c))
    BY <1>2, <1>3 DEF Prefix
  <2>2. Unstarted(c) => Len(Wire(c)') = 0
    BY <1>1, <2>1 DEF StreamInv, SourceInv
  <2>3. Unstarted(c) => Wire(c)' = <<>>
    BY <1>2, <2>2
  <2> QED BY <1>1, <2>3 DEF StreamInv, SourceInv
<1>7. EndInv(c)'
  BY <1>1 DEF StreamInv, EndInv, Complete, EndsWith
<1>8. GapInv(c)'
  <2>1. Len(Wire(c)) \in Nat /\ Len(Wire(c)') \in Nat
    BY <1>2
  <2>2. Contiguous(c) => Contiguous(c)'
    BY <1>3, <2>1, ContiguousPrefix
  <2> QED BY <1>1, <2>2 DEF StreamInv, GapInv
<1> QED BY <1>5, <1>6, <1>7, <1>8 DEF StreamInv

(* The other steps of the receiver.                                        *)
LEMMA ReceiverStream ==
    ASSUME Stream, TypeOK', NEW c \in Calls,
           \/ NextMsgCheck(c) \/ NextMsgTimeout(c) \/ NextMsgClosed(c)
           \/ ClosePipe(c) \/ Unsubscribe(c),
           Active(c)' => Active(c), Waiting(c)' => Waiting(c)
    PROVE  StreamInv(c)'
<1> USE DEF edgeVars
<1>1. StreamInv(c) /\ TypeOK /\ ListenerInv(c)
  BY DEF Stream, Ownership
<1>2. CASE NextMsgCheck(c) \/ NextMsgTimeout(c) \/ NextMsgClosed(c)
  <2>1. /\ rcv[c] \in {"check", "pop"}
        /\ rcv'[c] \in {"check", "pop", "closeErr"}
        /\ UNCHANGED <<caller, sub, cur, pipe, mch, got, net, total, framing,
                       sent, lost>>
    BY <1>1, <1>2 DEF NextMsgCheck, NextMsgTimeout, NextMsgClosed, TypeOK
  <2>2. Wire(c)' = Wire(c)
    BY <2>1 DEF Wire, Held
  <2> QED BY <2>1, <2>2, StillStream DEF Unstarted
<1>3. CASE ClosePipe(c)
  <2>1. /\ rcv[c] \in {"closeOk", "closeErr"}
        /\ pipe'[c] = (IF rcv[c] = "closeErr" THEN "err" ELSE "eof")
        /\ rcv'[c] = "closing"
        /\ UNCHANGED <<caller, sub, cur, mch, net, got, total, framing, sent, lost>>
    BY <1>1, <1>3 DEF ClosePipe, TypeOK
  <2>2. Wire(c)' = Wire(c)
    BY <2>1 DEF Wire, Held
  <2>3. Unstarted(c)' <=> Unstarted(c)
    BY <2>1 DEF Unstarted
  <2>4. SourceInv(c)'
    BY <1>1, <2>1, <2>2, <2>3 DEF StreamInv, SourceInv
  <2>5. OrderInv(c)'
    <3>1. Thinned(Wire(c)', Wire(c))
      BY <1>1, <2>2, WireType, ThinnedEnds
    <3> QED BY <1>1, <2>1, <3>1, OrderThinned DEF StreamInv
  <2>6. pipe[c] = "open"
    BY <1>1, <2>1 DEF ListenerInv, TypeOK
  <2>7. EndInv(c)'
    <3>1. pipe'[c] = "eof" => Complete(c)'
      BY <1>1, <2>1 DEF StreamInv, EndInv, Complete
    <3>2. caller[c] = "ok" => framing[c] # "stream"
      BY <1>1, <2>6 DEF StreamInv, EndInv
    <3> QED BY <1>1, <2>1, <3>1, <3>2 DEF StreamInv, EndInv
  <2>8. GapInv(c)'
    <3>1. (Contiguous(c) => Contiguous(c)') /\ (Reaches(c) => Reaches(c)')
      BY <2>1, <2>2, ContiguousKept
    <3> QED BY <1>1, <2>1, <3>1 DEF StreamInv, GapInv
  <2> QED BY <2>4, <2>5, <2>7, <2>8 DEF StreamInv
<1>4. CASE Unsubscribe(c)
  <2>1. /\ rcv[c] = "closing" /\ rcv'[c] = "exited" /\ sub'[c] = "gone"
        /\ mch'[c] = <<>> /\ net'[c] = <<>>
        /\ UNCHANGED <<caller, pipe, got, total, framing, sent, lost>>
    BY <1>1, <1>4 DEF Unsubscribe, TypeOK
  <2>2. Held(c)' = Held(c)
    BY <2>1 DEF Held
  <2>3. ~Unstarted(c)
    BY <1>1, <2>1 DEF ListenerInv
  <2> QED BY <2>1, <2>2, <2>3, CutStream DEF Unstarted
<1> QED BY <1>2, <1>3, <1>4

(* The connection is closed: the streams of all calls are cut off.         *)
LEMMA CloseConnStream ==
    ASSUME Stream, TypeOK', NEW c \in Calls, CloseConn,
           Active(c)' => Active(c), Waiting(c)' => Waiting(c)
    PROVE  StreamInv(c)'
<1>1. TypeOK
  BY DEF Stream, Ownership
<1>2. /\ sub'[c] # "live" /\ net'[c] = <<>>
      /\ mch'[c] = mch[c] \/ mch'[c] = <<>>
      /\ UNCHANGED <<caller, rcv, cur, pipe, got, total, framing, sent, lost>>
  BY <1>1 DEF CloseConn, edgeVars, TypeOK
<1>3. Held(c)' = Held(c) /\ (Unstarted(c)' <=> Unstarted(c))
  BY <1>2 DEF Held, Unstarted
<1> QED BY <1>2, <1>3, CutStream

-----------------------------------------------------------------------------
(* Steps of NATS and of the edge.                                          *)

(* A message is delivered, dropped or lost.                                *)
LEMMA NetworkStream ==
    ASSUME Stream, TypeOK', NEW c \in Calls, Deliver(c) \/ LoseMessage(c),
           Active(c)' => Active(c), Waiting(c)' => Waiting(c)
    PROVE  StreamInv(c)'
<1> USE DEF edgeVars, hubVars
<1> DEFINE h == Held(c)
           q == mch[c]
           n == net[c]
<1>1. StreamInv(c) /\ TypeOK /\ ListenerInv(c)
  BY DEF Stream, Ownership
<1>2. /\ n # <<>> /\ net'[c] = Tail(n)
      /\ UNCHANGED <<caller, sub, rcv, cur, pipe, got, total, framing, sent>>
  BY <1>1 DEF Deliver, LoseMessage, TypeOK
<1>3. \/ mch'[c] = Append(q, Head(n)) /\ lost'[c] = lost[c]
      \/ mch'[c] = q /\ lost'[c]
  BY <1>1 DEF Deliver, LoseMessage, Enqueue, TypeOK
<1>4. h \in Seq(Message) /\ q \in Seq(Message) /\ n \in Seq(Message)
  BY <1>1, WireType
<1>5. Held(c)' = h /\ (Unstarted(c)' <=> Unstarted(c))
  BY <1>2 DEF Held, Unstarted
<1>6. CASE mch'[c] = Append(q, Head(n)) /\ lost'[c] = lost[c]
  <2>1. Wire(c)' = (h \o Append(q, Head(n))) \o Tail(n)
    BY <1>2, <1>5, <1>6 DEF Wire
  <2>2. (h \o Append(q, Head(n))) \o Tail(n) = (h \o q) \o n
    <3> HIDE DEF h, q, n
    <3> QED BY <1>2, <1>4, WireDeliver
  <2>3. Wire(c)' = Wire(c)
    BY <2>1, <2>2 DEF Wire
  <2> QED BY <1>2, <1>5, <1>6, <2>3, StillStream
<1>7. CASE mch'[c] = q /\ lost'[c]
  <2>1. Wire(c)' = (h \o q) \o Tail(n)
    BY <1>2, <1>5, <1>7 DEF Wire
  <2>2. Thinned((h \o q) \o Tail(n), (h \o q) \o n)
    <3> HIDE DEF h, q, n
    <3> QED BY <1>2, <1>4, WireDrop
  <2>3. Thinned(Wire(c)', Wire(c))
    BY <2>1, <2>2 DEF Wire
  <2>4. OrderInv(c)'
    BY <1>1, <1>2, <2>3, OrderThinned DEF StreamInv
  <2>5. SourceInv(c)'
    <3>1. Unstarted(c) => Wire(c)' = <<>>
      <4>1. Wire(c)' \in Seq(Message)
        BY NextWireType
      <4>2. Unstarted(c) => Len(Wire(c)) = 0
        BY <1>1 DEF StreamInv, SourceInv
      <4>3. Len(Wire(c)') # 0 => 1 \in 1..Len(Wire(c)')
        BY <4>1
      <4>4. Unstarted(c) => Len(Wire(c)') = 0
        BY <2>3, <4>2, <4>3 DEF Thinned
      <4> QED BY <4>1, <4>4
    <3> QED BY <1>1, <1>2, <1>5, <3>1 DEF StreamInv, SourceInv
  <2>6. EndInv(c)'
    BY <1>1, <1>2 DEF StreamInv, EndInv, Complete
  <2>7. GapInv(c)'
    BY <1>7 DEF GapInv
  <2> QED BY <2>4, <2>5, <2>6, <2>7 DEF StreamInv
<1> QED BY <1>3, <1>6, <1>7


(* A message is published for a request that is on its way or handled: it  *)
(* comes last, or is dropped because nobody listens any more.              *)
LEMMA MessagePublished ==
    ASSUME Stream, TypeOK', NEW c \in Calls, Active(c),
           NEW m \in Message, m.n = sent[c] + 1, Sound(c, m)',
           net'[c] = IF sub[c] = "live" THEN Append(net[c], m) ELSE net[c],
           sent'[c] = sent[c] \/ sent'[c] = sent[c] + 1, sent'[c] <= total[c],
           Waiting(c)' => Waiting(c),
           caller'[c] = caller[c], sub'[c] = sub[c], rcv'[c] = rcv[c],
           cur'[c] = cur[c], pipe'[c] = pipe[c], mch'[c] = mch[c],
           got'[c] = got[c], total'[c] = total[c], framing'[c] = framing[c],
           lost'[c] = lost[c]
    PROVE  StreamInv(c)'
<1> DEFINE h == Held(c)
           q == mch[c]
           n == net[c]
<1>1. StreamInv(c) /\ TypeOK /\ ListenerInv(c)
  BY DEF Stream, Ownership
<1>2. h \in Seq(Message) /\ q \in Seq(Message) /\ n \in Seq(Message)
  BY <1>1, WireType
<1>3. Held(c)' = h /\ ~Unstarted(c) /\ ~Unstarted(c)'
  BY <1>1 DEF Held, Unstarted, ListenerInv
<1>4. IF sub[c] = "live" THEN Wire(c)' = Append(Wire(c), m) ELSE Wire(c)' = Wire(c)
  <2>1. CASE sub[c] = "live"
    <3>1. Wire(c)' = (h \o q) \o Append(n, m)
      BY <1>3, <2>1 DEF Wire
    <3>2. (h \o q) \o Append(n, m) = Append((h \o q) \o n, m)
      <4> HIDE DEF h, q, n
      <4> QED BY <1>2, WirePublish
    <3> QED BY <2>1, <3>1, <3>2 DEF Wire
  <2>2. CASE sub[c] # "live"
    BY <1>3, <2>2 DEF Wire
  <2> QED BY <2>1, <2>2
<1>5. rcv[c] # "closeOk" /\ pipe[c] # "eof"
  BY <1>1 DEF StreamInv, EndInv, Complete
<1>6. SourceInv(c)'
  BY <1>1, <1>3 DEF StreamInv, SourceInv
<1>7. OrderInv(c)'
  BY <1>1, <1>4, OrderPublish DEF StreamInv
<1>8. EndInv(c)'
  <2>1. caller[c] = "ok" => sent'[c] = sent[c]
    <3>1. sent[c] \in Nat /\ sent'[c] \in Nat /\ total[c] \in Nat
      BY <1>1 DEF TypeOK
    <3>2. caller[c] = "ok" => sent[c] = total[c]
      BY <1>1 DEF StreamInv, EndInv
    <3> QED BY <3>1, <3>2
  <2> QED BY <1>1, <1>5, <2>1 DEF StreamInv, EndInv
<1>9. GapInv(c)'
  <2> SUFFICES ASSUME ~lost[c]
               PROVE  Contiguous(c)' /\ (sub[c] = "live" => Reaches(c)')
    BY <1>5 DEF GapInv
  <2>1. Contiguous(c) /\ (sub[c] = "live" => Reaches(c))
    BY <1>1 DEF StreamInv, GapInv
  <2>2. CASE sub[c] = "live"
    BY <1>1, <1>4, <2>1, <2>2, ContiguousPublish DEF StreamInv
  <2>3. CASE sub[c] # "live"
    BY <1>4, <2>1, <2>3 DEF Contiguous, Counts
  <2> QED BY <2>2, <2>3
<1> QED BY <1>6, <1>7, <1>8, <1>9 DEF StreamInv

(* The server finds nobody subscribed.                                     *)
LEMMA NoInterestStream ==
    ASSUME Stream, TypeOK', [Next]_vars, NEW c \in Calls, NoInterest(c),
           Active(c)' => Active(c), Waiting(c)' => Waiting(c)
    PROVE  StreamInv(c)'
<1> USE DEF edgeVars, hubVars
<1> DEFINE m == [n |-> 1, data |-> FALSE, done |-> "noResponders"]
<1>1. StreamInv(c) /\ TypeOK /\ ListenerInv(c) /\ OneHandler
  BY DEF Stream, Ownership
<1>2. c \in reqs /\ Waiting(c) /\ Active(c)
  BY DEF NoInterest, Waiting, Active
<1>3. CASE ~(NoRespondersReachHub /\ sub[c] = "live")
  BY <1>3, SameStream DEF NoInterest, Same
<1>4. CASE NoRespondersReachHub /\ sub[c] = "live"
  <2>1. /\ net'[c] = Append(net[c], m)
        /\ UNCHANGED <<caller, sub, rcv, cur, pipe, mch, got, total, framing,
                       sent, lost>>
        /\ reqs' = reqs \ {c} /\ pend' = pend /\ job' = job
    BY <1>1, <1>4 DEF NoInterest, TypeOK
  <2>2. total[c] = 0 /\ sent[c] = 0
    BY <1>1, <1>2 DEF StreamInv, SourceInv, TypeOK
  <2>3. ~Active(c)'
    <3>1. \A w \in Workers : ~Holds(w, c)
      BY <1>1, <1>2 DEF OneHandler
    <3> QED BY <2>1, <3>1 DEF Active, Holds, Queued
  <2>4. m \in Message /\ m.n = sent[c] + 1
    BY <2>2 DEF Message
  <2>5. Sound(c, m)'
    BY <2>1, <2>2, <2>3 DEF Sound
  <2>6. /\ net'[c] = IF sub[c] = "live" THEN Append(net[c], m) ELSE net[c]
        /\ sent'[c] = sent[c] /\ sent'[c] <= total[c]
        /\ caller'[c] = caller[c] /\ sub'[c] = sub[c] /\ rcv'[c] = rcv[c]
        /\ cur'[c] = cur[c] /\ pipe'[c] = pipe[c] /\ mch'[c] = mch[c]
        /\ got'[c] = got[c] /\ total'[c] = total[c]
        /\ framing'[c] = framing[c] /\ lost'[c] = lost[c]
    BY <1>4, <2>1, <2>2
  <2> HIDE DEF m
  <2> QED BY <1>2, <2>4, <2>5, <2>6, MessagePublished
<1> QED BY <1>3, <1>4


(* respond returns: the request has a response, none of it written yet.    *)
LEMMA RespondStream ==
    ASSUME Stream, TypeOK', NEW w \in Workers, NEW c \in Calls, job[w] = c,
           RespondOk(w) \/ RespondError(w),
           Active(c)' => Active(c), Waiting(c)' => Waiting(c)
    PROVE  StreamInv(c)'
<1> USE DEF hubVars
<1>1. StreamInv(c) /\ TypeOK
  BY DEF Stream, Ownership
<1>2. Active(c) /\ ~Waiting(c) /\ ~Unstarted(c)
  BY Handling DEF Stream
<1>3. /\ total[c] = 0
      /\ UNCHANGED <<caller, sub, rcv, cur, pipe, mch, got, net, sent, lost>>
  BY DEF RespondOk, RespondError, Responding
<1>4. Wire(c)' = Wire(c) /\ ~Unstarted(c)'
  BY <1>2, <1>3 DEF Wire, Held, Unstarted
<1>5. SourceInv(c)'
  <2>1. sent[c] = 0 /\ total'[c] \in Nat
    BY <1>1, <1>3 DEF StreamInv, SourceInv, TypeOK
  <2>2. sent'[c] <= total'[c]
    BY <1>3, <2>1
  <2> QED BY <1>2, <1>4, <2>2 DEF SourceInv
<1>6. OrderInv(c)'
  <2>1. Thinned(Wire(c)', Wire(c))
    BY <1>1, <1>4, WireType, ThinnedEnds
  <2> QED BY <1>1, <1>3, <2>1, OrderThinned DEF StreamInv
<1>7. rcv[c] # "closeOk" /\ pipe[c] # "eof" /\ caller[c] # "ok"
  BY <1>1, <1>2, <1>3 DEF StreamInv, EndInv, Complete
<1>8. EndInv(c)'
  BY <1>3, <1>7 DEF EndInv
<1>9. GapInv(c)'
  <2>1. (Contiguous(c) => Contiguous(c)') /\ (Reaches(c) => Reaches(c)')
    BY <1>3, <1>4, ContiguousKept
  <2> QED BY <1>1, <1>3, <1>7, <2>1 DEF StreamInv, GapInv
<1> QED BY <1>5, <1>6, <1>8, <1>9 DEF StreamInv

(* A member writes a chunk, or ends the response.                          *)
LEMMA WriteStream ==
    ASSUME Stream, TypeOK', NEW w \in Workers, NEW c \in Calls, job[w] = c,
           CopyChunk(w) \/ FinalFlush(w) \/ FinalEmpty(w) \/ WriteError(w),
           Waiting(c)' => Waiting(c)
    PROVE  StreamInv(c)'
<1> USE DEF hubVars
<1>1. TypeOK
  BY DEF Stream, Ownership
<1>2. Active(c)
  BY Handling DEF Stream
<1>3. /\ total[c] # 0 /\ total[c] \in Nat /\ sent[c] \in Nat
      /\ sent[c] + 1 \in 1..(MaxChunks + 1)
      /\ sent[c] <= total[c]
      /\ UNCHANGED <<caller, sub, rcv, cur, pipe, mch, got, total, framing, lost>>
  <2>1. total[c] \in Nat /\ sent[c] \in 0..MaxChunks
    BY <1>1 DEF TypeOK
  <2>2. sent[c] <= total[c]
    BY DEF Stream, StreamInv, SourceInv
  <2>3. /\ total[c] # 0
        /\ UNCHANGED <<caller, sub, rcv, cur, pipe, mch, got, total, framing, lost>>
    BY DEF CopyChunk, FinalFlush, FinalEmpty, WriteError, Copying
  <2> QED BY <2>1, <2>2, <2>3
<1>4. FinalFlush(w) \/ FinalEmpty(w) \/ WriteError(w) => ~Active(c)'
  BY HandlerEnds DEF FinalFlush, FinalEmpty, WriteError, Stream
<1>5. ASSUME NEW data \in BOOLEAN, NEW done \in {"more", "ok", "err"},
             PublishMsg(c, [n |-> sent[c] + 1, data |-> data, done |-> done]),
             sent'[c] = IF data THEN sent[c] + 1 ELSE sent[c],
             sent'[c] <= total[c],
             ~data => done # "more",
             done # "more" => ~Active(c)',
             done = "ok" => sent'[c] = total[c]
      PROVE  StreamInv(c)'
  <2>1. PICK m \in Message : m = [n |-> sent[c] + 1, data |-> data, done |-> done]
    BY <1>3, <1>5 DEF Message
  <2>2. m.n = sent[c] + 1 /\ m.data = data /\ m.done = done
    BY <2>1
  <2>3. Sound(c, m)'
    BY <1>3, <1>5, <2>2 DEF Sound, Complete
  <2>4. net'[c] = IF sub[c] = "live" THEN Append(net[c], m) ELSE net[c]
    BY <1>1, <1>5, <2>1 DEF PublishMsg, TypeOK
  <2>5. sent'[c] = sent[c] \/ sent'[c] = sent[c] + 1
    BY <1>5
  <2>6. /\ caller'[c] = caller[c] /\ sub'[c] = sub[c] /\ rcv'[c] = rcv[c]
        /\ cur'[c] = cur[c] /\ pipe'[c] = pipe[c] /\ mch'[c] = mch[c]
        /\ got'[c] = got[c] /\ total'[c] = total[c]
        /\ framing'[c] = framing[c] /\ lost'[c] = lost[c]
    BY <1>3
  <2> QED BY <1>2, <1>5, <2>2, <2>3, <2>4, <2>5, <2>6, MessagePublished
<1>6. CASE CopyChunk(w)
  <2>1. /\ sent'[c] = sent[c] + 1 /\ sent[c] < total[c]
        /\ PublishMsg(c, [n |-> sent[c] + 1, data |-> TRUE, done |-> "more"])
    BY <1>1, <1>6 DEF CopyChunk, MoreToCopy, TypeOK
  <2>2. sent'[c] <= total[c]
    BY <1>3, <2>1
  <2> QED BY <1>5, <2>1, <2>2
<1>7. CASE FinalFlush(w)
  <2>1. /\ sent'[c] = sent[c] + 1 /\ sent[c] + 1 = total[c]
        /\ PublishMsg(c, [n |-> sent[c] + 1, data |-> TRUE, done |-> "ok"])
    BY <1>1, <1>7 DEF FinalFlush, FinalDone, TypeOK
  <2>2. sent'[c] <= total[c] /\ sent'[c] = total[c]
    BY <1>3, <2>1
  <2> QED BY <1>4, <1>5, <1>7, <2>1, <2>2
<1>8. CASE FinalEmpty(w)
  <2>1. /\ sent'[c] = sent[c] /\ sent[c] = total[c]
        /\ PublishMsg(c, [n |-> sent[c] + 1, data |-> FALSE, done |-> "ok"])
    BY <1>8 DEF FinalEmpty, FinalDone
  <2> QED BY <1>3, <1>4, <1>5, <1>8, <2>1
<1>9. CASE WriteError(w)
  <2>1. /\ sent'[c] = sent[c]
        /\ PublishMsg(c, [n |-> sent[c] + 1, data |-> FALSE, done |-> "err"])
    BY <1>9 DEF WriteError, ErrorDone
  <2> QED BY <1>3, <1>4, <1>5, <1>9, <2>1
<1> QED BY <1>6, <1>7, <1>8, <1>9

-----------------------------------------------------------------------------
(* The invariant.                                                          *)

(* Nothing is on its way at the start.                                     *)
LEMMA InitStream == Init => Stream
<1> SUFFICES ASSUME Init
             PROVE  Stream
  OBVIOUS
<1>1. Ownership
  BY InitOwnership
<1>2. ASSUME NEW c \in Calls
      PROVE  StreamInv(c)
  <2>1. /\ caller[c] = "idle" /\ sub[c] = "none" /\ rcv[c] = "none"
        /\ pipe[c] = "open" /\ mch[c] = <<>> /\ net[c] = <<>> /\ got[c] = <<>>
        /\ total[c] = 0 /\ sent[c] = 0
    BY DEF Init
  <2>2. Wire(c) = <<>>
    <3>1. Held(c) = <<>> /\ <<>> \in Seq(Message)
      BY <2>1 DEF Held
    <3>2. <<>> \o <<>> = <<>>
      BY <3>1, ConcatEmptySeq
    <3> QED BY <2>1, <3>1, <3>2 DEF Wire
  <2>3. SourceInv(c)
    BY <2>1, <2>2 DEF SourceInv
  <2>4. OrderInv(c)
    BY <2>1, <2>2 DEF OrderInv, Sorted, Precedes, Spread
  <2>5. EndInv(c)
    BY <2>1 DEF EndInv
  <2>6. GapInv(c)
    BY <2>1, <2>2 DEF GapInv, Contiguous, Reaches, Counts
  <2> QED BY <2>3, <2>4, <2>5, <2>6 DEF StreamInv
<1> QED BY <1>1, <1>2 DEF Stream

(* Every step keeps the stream of every call.                              *)
LEMMA StreamStep ==
    ASSUME Stream, TypeOK', [Next]_vars, NEW d \in Calls
    PROVE  StreamInv(d)'
<1>1. TypeOK /\ Ownership /\ (Active(d)' => Active(d) \/ Publish(d))
  BY HandlersStep DEF Stream, Ownership
<1>2. CASE Publish(d)
  BY <1>2, PublishStream
<1>3. CASE ~Publish(d)
  <2>1. (Active(d)' => Active(d)) /\ (Waiting(d)' => Waiting(d))
    BY <1>1, <1>3, WaitingStep
  <2>2. ASSUME NEW c \in Calls, HubCaller(c) \/ Receiver(c) \/ Server(c)
        PROVE  StreamInv(d)'
    <3>1. CASE c # d
      BY <1>1, <2>2, <3>1, OtherCalls, SameStream
    <3>2. CASE HubCaller(d)
      BY <1>3, <2>1, <3>2, CallerStream, ReadChunkStream DEF HubCaller, ReadStep
    <3>3. CASE Receiver(d)
      BY <2>1, <3>3, NextMsgPopStream, ReceiverStream DEF Receiver
    <3>4. CASE Server(d)
      <4>1. CASE NoInterest(d)
        BY <2>1, <4>1, NoInterestStream
      <4>2. CASE LoseRequest(d) \/ \E w \in Workers : RouteRequest(d, w)
        <5>1. Same(d)
          BY <1>1, <4>2, QuietSteps
        <5> QED BY <5>1, SameStream
      <4>3. CASE Deliver(d) \/ LoseMessage(d)
        BY <2>1, <4>3, NetworkStream
      <4> QED BY <3>4, <4>1, <4>2, <4>3 DEF Server, Route
    <3> QED BY <2>2, <3>1, <3>2, <3>3, <3>4
  <2>3. ASSUME NEW w \in Workers, Worker(w)
        PROVE  StreamInv(d)'
    <3>1. CASE job[w] # d
      BY <1>1, <2>3, <3>1, OtherJobs, SameStream
    <3>2. CASE job[w] = d
      <4>1. CASE Dispatch(w) \/ FinishUnpublished(w)
        <5>1. Same(d)
          BY <1>1, <4>1, QuietSteps
        <5> QED BY <5>1, SameStream
      <4>2. CASE RespondOk(w) \/ RespondError(w)
        BY <2>1, <3>2, <4>2, RespondStream
      <4>3. CASE CopyChunk(w) \/ FinalFlush(w) \/ FinalEmpty(w) \/ WriteError(w)
        BY <2>1, <3>2, <4>3, WriteStream
      <4> QED BY <2>3, <4>1, <4>2, <4>3 DEF Worker
    <3> QED BY <3>1, <3>2
  <2>4. CASE (\E p \in Pods : Crash(p) \/ Restart(p)) \/ UNCHANGED vars
    <3>1. Same(d)
      BY <1>1, <2>4, QuietSteps
    <3> QED BY <3>1, SameStream
  <2>5. CASE CloseConn
    BY <2>1, <2>5, CloseConnStream
  <2> QED BY <2>2, <2>3, <2>4, <2>5 DEF Next
<1> QED BY <1>2, <1>3

(* The inductive invariant.                                                *)
LEMMA StreamInvariant == Spec => []Stream
<1>1. Stream /\ TypeOK' /\ Ownership' /\ [Next]_vars => Stream'
  BY StreamStep DEF Stream
<1> QED BY InitStream, TypeCorrect, OwnershipInvariant, <1>1, PTL DEF Spec


-----------------------------------------------------------------------------
(* The theorems.                                                           *)

(* What the caller reads is in order, without a repetition, and was        *)
(* written by the edge, whatever NATS loses and whoever crashes.           *)
THEOREM ReadInOrder == Spec => []InOrder
<1>1. Stream => InOrder
  <2> SUFFICES ASSUME Stream, NEW c \in Calls
               PROVE  /\ \A i, j \in 1..Len(got[c]) : i < j => got[c][i] < got[c][j]
                      /\ \A i \in 1..Len(got[c]) : got[c][i] <= sent[c]
    BY DEF InOrder
  <2>1. /\ got[c] \in Seq(1..(MaxChunks + 1)) /\ OrderInv(c)
    BY DEF Stream, Ownership, TypeOK, StreamInv
  <2>2. ASSUME NEW i \in 1..Len(got[c]), NEW j \in 1..Len(got[c]), i < j
        PROVE  got[c][i] < got[c][j]
    <3>1. got[c][i] \in Nat /\ got[c][j] \in Nat
      BY <2>1, ElementOfSeq
    <3>2. got[c][i] + j <= got[c][j] + i
      BY <2>1, <2>2 DEF OrderInv, Spread
    <3> DEFINE a == got[c][i]
               b == got[c][j]
    <3>3. a \in Nat /\ b \in Nat /\ i \in Nat /\ j \in Nat /\ a + j <= b + i
      BY <3>1, <3>2
    <3> HIDE DEF a, b
    <3>4. a < b
      BY <2>2, <3>3
    <3> QED BY <3>4 DEF a, b
  <2> QED BY <2>1, <2>2 DEF OrderInv
<1> QED BY StreamInvariant, <1>1, PTL

(* The edge has written all of a response that is reported complete.       *)
THEOREM CompleteWhenOk == Spec => []OkIsComplete
<1>1. Stream => OkIsComplete
  BY DEF Stream, StreamInv, EndInv, OkIsComplete
<1> QED BY StreamInvariant, <1>1, PTL

(* As many chunks as the response has, in order and none beyond its last,  *)
(* are all of its chunks.                                                  *)
LEMMA AllChunks ==
    ASSUME NEW k \in Nat, NEW g \in Seq(Nat), Spread(g), Len(g) = k,
           \A i \in 1..Len(g) : 1 <= g[i] /\ g[i] <= k
    PROVE  g = FirstChunks(k)
<1>1. ASSUME NEW i \in 1..k
      PROVE  g[i] = i
  <2>1. 1 \in 1..k /\ k \in 1..k /\ 1 <= i /\ i <= k
    BY <1>1
  <2>2. /\ g[1] + i <= g[i] + 1 /\ g[i] + k <= g[k] + i
        /\ 1 <= g[1] /\ g[k] <= k
    BY <2>1 DEF Spread
  <2>3. g[1] \in Nat /\ g[i] \in Nat /\ g[k] \in Nat
    BY <2>1, ElementOfSeq
  <2> DEFINE a == g[1]
             b == g[i]
             e == g[k]
  <2>4. /\ a \in Nat /\ b \in Nat /\ e \in Nat /\ i \in Nat
        /\ a + i <= b + 1 /\ b + k <= e + i /\ 1 <= a /\ e <= k
    BY <2>2, <2>3
  <2> HIDE DEF a, b, e
  <2>5. b = i
    BY <2>4
  <2> QED BY <2>5 DEF b
<1>2. FirstChunks(k) = [i \in 1..k |-> i] /\ g = [i \in 1..k |-> g[i]]
  BY DEF FirstChunks
<1> QED BY <1>1, <1>2

(* Chunks that are numbered by their places are the first chunks.          *)
LEMMA CountedChunks ==
    ASSUME NEW S, NEW g \in Seq(S), Counts(g)
    PROVE  g = FirstChunks(Len(g))
<1>1. g = [i \in 1..Len(g) |-> g[i]]
  OBVIOUS
<1> QED BY <1>1 DEF Counts, FirstChunks

(* The invariant leaves no room for a gap in a response that has a length. *)
LEMMA StreamIsIntact == Stream => OkIsIntact
<1> SUFFICES ASSUME Stream, NEW c \in Calls, caller[c] = "ok",
                    framing[c] \in Delimited
             PROVE  got[c] = FirstChunks(total[c])
  BY DEF OkIsIntact
<1> DEFINE g == got[c]
           k == total[c]
<1>1. g \in Seq(1..(MaxChunks + 1)) /\ k \in Nat
  BY DEF Stream, Ownership, TypeOK
<1>2. g \in Seq(Nat) /\ \A i \in 1..Len(g) : 1 <= g[i]
  <2>1. 1..(MaxChunks + 1) \subseteq Nat
    OBVIOUS
  <2>2. g \in Seq(Nat)
    BY <1>1, <2>1, SeqMonotonic
  <2>3. \A i \in 1..Len(g) : g[i] \in 1..(MaxChunks + 1)
    BY <1>1, ElementOfSeq
  <2> QED BY <2>2, <2>3
<1>3. /\ Spread(g) /\ \A i \in 1..Len(g) : g[i] <= k
      /\ Len(g) = k
  BY DEF Stream, StreamInv, OrderInv, EndInv
<1> HIDE DEF g, k
<1>4. g = FirstChunks(k)
  BY <1>1, <1>2, <1>3, AllChunks
<1> QED BY <1>4 DEF g, k

(* A response with a length of its own has no gap when it is complete.     *)
THEOREM IntactWhenOk == Spec => []OkIsIntact
BY StreamInvariant, StreamIsIntact, PTL

(* Only a lost message can leave a gap in a response reported complete.    *)
THEOREM IntactWithoutLoss == Spec => []IntactUnlessLost
<1>1. Stream /\ OkIsIntact => IntactUnlessLost
  <2> SUFFICES ASSUME Stream, OkIsIntact, NEW c \in Calls,
                      caller[c] = "ok", ~lost[c]
               PROVE  got[c] = FirstChunks(total[c])
    BY DEF IntactUnlessLost
  <2>1. CASE framing[c] \in Delimited
    BY <2>1 DEF OkIsIntact
  <2>2. CASE framing[c] \notin Delimited
    <3>1. /\ got[c] \in Seq(1..(MaxChunks + 1))
          /\ framing[c] = "stream" \/ framing[c] \in Terminated
      BY <2>2 DEF Stream, Ownership, TypeOK, Framings, Delimited, Terminated
    <3>2. Counts(got[c]) /\ sent[c] = total[c]
      BY DEF Stream, StreamInv, GapInv, Contiguous, EndInv
    <3>3. Len(got[c]) = total[c]
      <4>1. CASE framing[c] = "stream"
        BY <3>2, <4>1 DEF Stream, StreamInv, EndInv, GapInv
      <4>2. CASE framing[c] \in Terminated
        <5>1. EndsWith(got[c], total[c]) /\ Len(got[c]) \in Nat
          BY <3>1, <4>2 DEF Stream, StreamInv, EndInv
        <5> QED BY <3>2, <5>1 DEF EndsWith, Counts
      <4> QED BY <3>1, <4>1, <4>2
    <3> QED BY <3>1, <3>2, <3>3, CountedChunks
  <2> QED BY <2>1, <2>2
<1> QED BY StreamInvariant, IntactWhenOk, <1>1, PTL
=============================================================================
