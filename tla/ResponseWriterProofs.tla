------------------------ MODULE ResponseWriterProofs ------------------------
(* Theorems about ResponseWriter, for any number of handlers, responses    *)
(* and pooled writers, and any sizes of the buffer, of responses and of    *)
(* the writes of resp.Write.                                               *)
EXTENDS ResponseWriter, SequenceTheorems, TLAPS

USE SizesAssumption

-----------------------------------------------------------------------------
(* Pieces of a response.                                                   *)

LEMMA PieceShape ==
    ASSUME NEW r \in Responses, NEW a \in Nat, NEW k \in Nat
    PROVE  /\ Piece(r, a, k) \in Seq(Responses \X Nat)
           /\ Len(Piece(r, a, k)) = k
           /\ \A i \in 1..k : Piece(r, a, k)[i] = <<r, a + i>>
           /\ a + k <= MaxBytes => Piece(r, a, k) \in Seq(Byte)
<1>1. \A i \in 1..k : /\ <<r, a + i>> \in Responses \X Nat
                      /\ a + k <= MaxBytes => <<r, a + i>> \in Byte
  BY DEF Byte
<1>2. Piece(r, a, k) \in [1..k -> Responses \X Nat]
  BY <1>1 DEF Piece
<1>3. a + k <= MaxBytes => Piece(r, a, k) \in [1..k -> Byte]
  BY <1>1 DEF Piece
<1>4. \A i \in 1..k : Piece(r, a, k)[i] = <<r, a + i>>
  BY DEF Piece
<1> HIDE DEF Byte
<1> QED BY <1>2, <1>3, <1>4

(* Names for a concatenation and a part of a sequence, which keep the      *)
(* provers from expanding them.                                            *)
Join(p, q)    == p \o q
Part(p, m, n) == SubSeq(p, m, n)

(* A piece and the one after it make one piece.                            *)
LEMMA PieceConcat ==
    ASSUME NEW r \in Responses, NEW a \in Nat, NEW m \in Nat, NEW k \in Nat
    PROVE  Join(Piece(r, a, m), Piece(r, a + m, k)) = Piece(r, a, m + k)
<1> DEFINE p == Piece(r, a, m)
           q == Piece(r, a + m, k)
           s == Piece(r, a, m + k)
<1>0. a + m \in Nat /\ m + k \in Nat
  OBVIOUS
<1>1. /\ p \in Seq(Responses \X Nat) /\ Len(p) = m
      /\ \A i \in 1..m : p[i] = <<r, a + i>>
  BY <1>0, PieceShape, Zenon
<1>2. /\ q \in Seq(Responses \X Nat) /\ Len(q) = k
      /\ \A i \in 1..k : q[i] = <<r, a + m + i>>
  BY <1>0, PieceShape, Zenon
<1>3. /\ s \in Seq(Responses \X Nat) /\ Len(s) = m + k
      /\ \A i \in 1..(m + k) : s[i] = <<r, a + i>>
  BY <1>0, PieceShape, Zenon
<1> HIDE DEF p, q, s
<1>4. /\ p \o q \in Seq(Responses \X Nat)
      /\ Len(p \o q) = Len(p) + Len(q)
      /\ \A i \in 1 .. Len(p) + Len(q) :
            (p \o q)[i] = IF i <= Len(p) THEN p[i] ELSE q[i - Len(p)]
  BY <1>1, <1>2, ConcatProperties
<1>5. ASSUME NEW i \in 1..(m + k)
      PROVE  (p \o q)[i] = s[i]
  <2>0. i \in 1 .. Len(p) + Len(q) /\ i \in Nat
    BY <1>1, <1>2
  <2>1. CASE i <= m
    <3>1. i \in 1..m
      BY <2>0, <2>1
    <3>2. (p \o q)[i] = p[i]
      BY <1>1, <1>4, <2>0, <2>1
    <3> QED BY <1>1, <1>3, <3>1, <3>2
  <2>2. CASE i > m
    <3>1. i - m \in 1..k /\ a + m + (i - m) = a + i
      BY <2>0, <2>2
    <3>2. q[i - m] = <<r, a + m + (i - m)>>
      BY <1>2, <3>1
    <3>3. (p \o q)[i] = q[i - m]
      BY <1>1, <1>4, <2>0, <2>2
    <3> QED BY <1>3, <3>1, <3>2, <3>3
  <2> QED BY <2>0, <2>1, <2>2
<1>6. p \o q = s
  BY <1>1, <1>2, <1>3, <1>4, <1>5, SeqEqual
<1> QED BY <1>6 DEF p, q, s, Join

(* A part of a piece is a piece.                                           *)
LEMMA PieceSub ==
    ASSUME NEW r \in Responses, NEW a \in Nat, NEW k \in Nat,
           NEW m \in 0..k, NEW n \in m..k
    PROVE  Part(Piece(r, a, k), m + 1, n) = Piece(r, a + m, n - m)
<1> DEFINE p == Piece(r, a, k)
           s == Piece(r, a + m, n - m)
           t == SubSeq(p, m + 1, n)
<1>0. a + m \in Nat /\ n - m \in Nat /\ m \in Nat /\ n \in Nat /\ n <= k
  OBVIOUS
<1>1. /\ p \in Seq(Responses \X Nat) /\ Len(p) = k
      /\ \A i \in 1..k : p[i] = <<r, a + i>>
  BY <1>0, PieceShape, Zenon
<1>2. /\ s \in Seq(Responses \X Nat) /\ Len(s) = n - m
      /\ \A i \in 1..(n - m) : s[i] = <<r, a + m + i>>
  BY <1>0, PieceShape, Zenon
<1> HIDE DEF p, s
<1>3. /\ t \in Seq(Responses \X Nat) /\ Len(t) = n - m
      /\ \A i \in 1..(n - m) : t[i] = p[m + i]
  <2>1. \A i \in (m + 1)..n : p[i] \in Responses \X Nat
    <3>1. \A i \in (m + 1)..n : i \in 1..Len(p)
      BY <1>0, <1>1
    <3> QED BY <1>1, <3>1, ElementOfSeq
  <2>2. /\ t \in Seq(Responses \X Nat)
        /\ Len(t) = IF m + 1 <= n THEN n - (m + 1) + 1 ELSE 0
        /\ \A i \in 1 .. n - (m + 1) + 1 : t[i] = p[m + 1 + i - 1]
    BY <1>0, <2>1, SubSeqProperties
  <2> HIDE DEF t
  <2>3. \A i \in 1..(n - m) : i \in 1 .. n - (m + 1) + 1 /\ m + 1 + i - 1 = m + i
    BY <1>0
  <2> QED BY <1>0, <2>2, <2>3
<1>4. \A i \in 1..(n - m) : m + i \in 1..k /\ a + (m + i) = a + m + i
  OBVIOUS
<1>5. \A i \in 1..(n - m) : t[i] = s[i]
  BY <1>1, <1>2, <1>3, <1>4
<1> HIDE DEF t
<1>6. t = s
  BY <1>2, <1>3, <1>5, SeqEqual
<1> QED BY <1>6 DEF p, s, t, Part

LEMMA EmptyPiece ==
    ASSUME NEW r \in Responses, NEW a \in Nat, NEW k \in Nat
    PROVE  Piece(r, a, k) = <<>> <=> k = 0
<1> DEFINE p == Piece(r, a, k)
<1>1. p \in Seq(Responses \X Nat) /\ Len(p) = k
  BY PieceShape, Zenon
<1> HIDE DEF p
<1>2. p = <<>> <=> k = 0
  BY <1>1
<1> QED BY <1>2 DEF p

LEMMA LastOfPiece ==
    ASSUME NEW r \in Responses, NEW a \in Nat, NEW k \in Nat \ {0}
    PROVE  Last(Piece(r, a, k)) = <<r, a + k>>
<1>1. k \in Nat /\ k \in 1..k
  OBVIOUS
<1>2. Len(Piece(r, a, k)) = k /\ Piece(r, a, k)[k] = <<r, a + k>>
  BY <1>1, PieceShape, Zenon
<1> QED BY <1>2 DEF Last

-----------------------------------------------------------------------------
(* What bufio.Writer passes on.                                            *)

(* Up to two non-empty pieces of r that follow one another, from a to e.   *)
Chain(s, r, a, e) ==
    \/ s = <<>> /\ e = a
    \/ a < e /\ s = <<Piece(r, a, e - a)>>
    \/ \E c \in (a + 1)..(e - 1) : s = <<Piece(r, a, c - a), Piece(r, c, e - c)>>

(* What is sent and what is kept are the bytes from a to z, and what is    *)
(* kept fits.                                                              *)
Passed(sent, kept, r, a, z) ==
    \E e \in a..z : /\ Chain(sent, r, a, e)
                    /\ kept = Piece(r, e, z - e)
                    /\ z - e <= BufferSize

(* Writing the next k bytes to a writer that holds the m bytes before them *)
(* passes on a part of these bytes, in order, and keeps what comes after   *)
(* that part.                                                              *)
LEMMA FlushesInOrder ==
    ASSUME NEW r \in Responses, NEW a \in Nat,
           NEW m \in 0..BufferSize, NEW k \in Nat \ {0}
    PROVE  LET f == Flushes(Piece(r, a, m), Piece(r, a + m, k))
           IN  Passed(f.sent, f.kept, r, a, a + m + k)
<1> DEFINE old   == Piece(r, a, m)
           p     == Piece(r, a + m, k)
           avail == BufferSize - m
           rest  == SubSeq(p, avail + 1, k)
           f     == Flushes(old, p)
           z     == a + m + k
           Good(e) == /\ Chain(f.sent, r, a, e)
                      /\ f.kept = Piece(r, e, z - e)
                      /\ z - e <= BufferSize
<1>0. /\ BufferSize \in Nat \ {0} /\ m \in Nat /\ k \in Nat /\ avail \in Nat
      /\ a + m \in Nat /\ m + k \in Nat /\ z \in Nat
  OBVIOUS
<1>1. Len(old) = m /\ Len(p) = k /\ (old = <<>> <=> m = 0)
  BY <1>0, PieceShape, EmptyPiece, Zenon
<1>2. \A e \in Nat : Piece(r, e, 0) = <<>>
  BY EmptyPiece
<1>3. CASE k <= avail
  <2>1. f = [sent |-> <<>>, kept |-> old \o p]
    BY <1>1, <1>3 DEF Flushes
  <2>2. old \o p = Piece(r, a, m + k)
    <3>1. Join(old, p) = Piece(r, a, m + k)
      BY <1>0, PieceConcat
    <3> HIDE DEF old, p
    <3> QED BY <3>1 DEF Join
  <2>3. a \in a..z /\ z - a = m + k /\ m + k <= BufferSize
    BY <1>0, <1>3
  <2> HIDE DEF f, old, p, z
  <2>4. Good(a)
    BY <2>1, <2>2, <2>3 DEF Chain
  <2> QED BY <2>3, <2>4 DEF f, old, p, z, Passed
<1>4. CASE k > avail /\ m = 0
  <2>1. f = [sent |-> <<p>>, kept |-> <<>>]
    BY <1>0, <1>1, <1>4 DEF Flushes
  <2>2. p = Piece(r, a, k) /\ z = a + k
    BY <1>0, <1>4
  <2>3. z \in a..z /\ z - z = 0 /\ a < z /\ z - a = k
    BY <1>0, <2>2
  <2> HIDE DEF f, z, p
  <2>4. Chain(f.sent, r, a, z)
    BY <2>1, <2>2, <2>3 DEF Chain
  <2>5. Good(z)
    BY <1>0, <1>2, <2>1, <2>3, <2>4
  <2> QED BY <2>3, <2>5 DEF f, z, p, Passed
<1>5. CASE k > avail /\ m # 0
  <2> DEFINE c     == a + BufferSize
             first == old \o SubSeq(p, 1, avail)
  <2>1. rest = Piece(r, c, k - avail)
    <3>1. avail \in 0..k /\ k \in avail..k /\ a + m + avail = c
      BY <1>0, <1>5
    <3> HIDE DEF avail, c
    <3>2. Part(p, avail + 1, k) = Piece(r, a + m + avail, k - avail)
      BY <1>0, <3>1, PieceSub
    <3> HIDE DEF p
    <3> QED BY <3>1, <3>2 DEF Part
  <2>2. SubSeq(p, 1, avail) = Piece(r, a + m, avail)
    <3>1. 0 \in 0..k /\ avail \in 0..k
      BY <1>0, <1>5
    <3> HIDE DEF avail
    <3>2. ASSUME NEW o \in 0..k, avail \in o..k
          PROVE  Part(p, o + 1, avail) = Piece(r, a + m + o, avail - o)
      BY <1>0, <3>2, PieceSub
    <3>3. \A o \in 0..k : \A i, x, y :
            avail \in o..k /\ i = o + 1 /\ x = a + m + o /\ y = avail - o
              => Part(p, i, avail) = Piece(r, x, y)
      BY <3>2
    <3>4. 1 = 0 + 1 /\ a + m = a + m + 0 /\ avail = avail - 0
      BY <1>0
    <3>5. Part(p, 1, avail) = Piece(r, a + m, avail)
      BY <3>1, <3>3, <3>4
    <3> HIDE DEF p
    <3> QED BY <3>5 DEF Part
  <2>3. first = Piece(r, a, BufferSize)
    <3>1. m + avail = BufferSize
      BY <1>0
    <3> HIDE DEF avail
    <3>2. Join(old, Piece(r, a + m, avail)) = Piece(r, a, m + avail)
      BY <1>0, PieceConcat
    <3> HIDE DEF old, p
    <3> QED BY <2>2, <3>1, <3>2 DEF Join
  <2>4. Len(rest) = k - avail
    <3>1. k - avail \in Nat /\ c \in Nat
      BY <1>0, <1>5
    <3> HIDE DEF avail, c, rest
    <3> QED BY <2>1, <3>1, PieceShape, Zenon
  <2>5. /\ c \in a..z /\ c - a = BufferSize /\ a < c /\ z - c = k - avail
        /\ z \in a..z /\ z - z = 0
    BY <1>0, <1>5
  <2> HIDE DEF old, p
  <2>6. f = IF k <= avail THEN [sent |-> <<>>, kept |-> old \o p]
            ELSE IF old = <<>> THEN [sent |-> <<p>>, kept |-> <<>>]
            ELSE IF Len(rest) > BufferSize
                 THEN [sent |-> <<first, rest>>, kept |-> <<>>]
                 ELSE [sent |-> <<first>>, kept |-> rest]
    BY <1>1 DEF Flushes
  <2> HIDE DEF f, first, rest
  <2>7. CASE k - avail > BufferSize
    <3>1. f = [sent |-> <<first, rest>>, kept |-> <<>>]
      BY <1>0, <1>1, <1>5, <2>4, <2>6, <2>7
    <3>2. c \in (a + 1)..(z - 1)
      BY <1>0, <1>5, <2>7
    <3> HIDE DEF z, c, avail
    <3>3. Chain(f.sent, r, a, z)
      BY <2>1, <2>3, <2>5, <3>1, <3>2 DEF Chain
    <3>4. Good(z)
      BY <1>0, <1>2, <2>5, <3>1, <3>3
    <3> QED BY <2>5, <3>4 DEF f, z, old, p, Passed
  <2>8. CASE k - avail <= BufferSize
    <3>1. f = [sent |-> <<first>>, kept |-> rest]
      BY <1>0, <1>1, <1>5, <2>4, <2>6, <2>8
    <3> HIDE DEF z, c, avail
    <3>2. Chain(f.sent, r, a, c)
      BY <2>3, <2>5, <3>1 DEF Chain
    <3>3. Good(c)
      BY <2>1, <2>5, <2>8, <3>1, <3>2
    <3> QED BY <2>5, <3>3 DEF f, z, old, p, Passed
  <2> QED BY <1>0, <1>5, <2>7, <2>8
<1> QED BY <1>0, <1>3, <1>4, <1>5

-----------------------------------------------------------------------------
(* The messages of a response.                                             *)

Msg == [bytes : Seq(Byte), done : {"more", "ok", "err"}]

(* The messages o hold the bytes of r, which has n, in order.              *)
Ordered(o, r, n) ==
    \A i \in 1..Len(o) :
        /\ o[i].bytes # <<>> =>
             /\ o[i].bytes = Piece(r, Before(o, i), Len(o[i].bytes))
             /\ Before(o, i) + Len(o[i].bytes) <= n
        /\ o[i].done # "more" => i = Len(o)
        /\ o[i].bytes = <<>> => o[i].done # "more"
        /\ o[i].done = "ok" =>
             \E j \in 1..i : o[j].bytes # <<>> /\ Last(o[j].bytes) = <<r, n>>

Open(o)  == \A i \in 1..Len(o) : o[i].done = "more"
EndOf(o) == Before(o, Len(o) + 1)

(* How far the messages have come is a number.                             *)
LEMMA BeforeType ==
    ASSUME NEW o \in Seq(Msg), NEW i \in 1..(Len(o) + 1),
           i # 1 => o[i - 1].bytes # <<>>
    PROVE  Before(o, i) \in 0..MaxBytes
<1>1. CASE i = 1
  BY <1>1 DEF Before
<1>2. CASE i # 1
  <2> DEFINE bs == o[i - 1].bytes
  <2>1. i - 1 \in 1..Len(o) /\ Len(o) \in Nat
    BY <1>2
  <2>2. o[i - 1] \in Msg
    BY <2>1, ElementOfSeq
  <2>3. bs \in Seq(Byte)
    BY <2>2 DEF Msg
  <2> HIDE DEF bs
  <2>4. Len(bs) \in 1..Len(bs)
    BY <1>2, <2>3 DEF bs
  <2>5. bs[Len(bs)] \in Byte
    BY <2>3, <2>4, ElementOfSeq
  <2>6. Last(bs)[2] \in 1..MaxBytes
    BY <2>5 DEF Last, Byte
  <2> QED BY <1>2, <2>6 DEF Before, bs
<1> QED BY <1>1, <1>2

LEMMA EndType ==
    ASSUME NEW o \in Seq(Msg), NEW r, NEW n, Ordered(o, r, n), Open(o)
    PROVE  EndOf(o) \in 0..MaxBytes
<1>1. Len(o) + 1 \in 1..(Len(o) + 1) /\ Len(o) \in Nat
  OBVIOUS
<1>2. Len(o) + 1 # 1 => o[Len(o)].bytes # <<>>
  BY <1>1 DEF Ordered, Open
<1>3. Len(o) + 1 - 1 = Len(o)
  BY <1>1
<1> QED BY <1>1, <1>2, <1>3, BeforeType DEF EndOf

(* Messages never come further than the response goes.                     *)
LEMMA EndBound ==
    ASSUME NEW r \in Responses, NEW n \in Nat, NEW o \in Seq(Msg),
           Ordered(o, r, n), Open(o)
    PROVE  EndOf(o) <= n
<1> DEFINE L == Len(o)
           bs == o[L].bytes
           f  == Before(o, L)
<1>0. L \in Nat
  OBVIOUS
<1>1. CASE L = 0
  BY <1>1 DEF EndOf, Before
<1>2. CASE L # 0
  <2> HIDE DEF L
  <2>1. /\ L \in 1..L /\ L \in 1..(L + 1) /\ L + 1 - 1 = L /\ L + 1 # 1 /\ L \in Nat
        /\ L # 1 => L - 1 \in 1..L
    BY <1>0, <1>2
  <2>2. o[L] \in Msg /\ bs # <<>> /\ (L # 1 => o[L - 1].bytes # <<>>)
    BY <2>1, ElementOfSeq DEF Ordered, Open, L
  <2>3. bs = Piece(r, f, Len(bs)) /\ f + Len(bs) <= n /\ bs \in Seq(Byte)
    BY <2>1, <2>2 DEF Ordered, L, Msg
  <2>4. f \in 0..MaxBytes
    BY <2>1, <2>2, BeforeType DEF L
  <2>5. EndOf(o) = Last(bs)[2]
    BY <2>1 DEF EndOf, Before, L
  <2> HIDE DEF bs, f
  <2>6. Len(bs) \in Nat \ {0} /\ f \in Nat
    BY <2>2, <2>3, <2>4
  <2>7. Last(bs) = <<r, f + Len(bs)>>
    BY <2>3, <2>6, LastOfPiece
  <2> QED BY <2>3, <2>5, <2>7
<1> QED BY <1>1, <1>2

(* The messages s are in order as well, and come k bytes further than o,   *)
(* if the last one has no Done.                                            *)
Extends(s, o, r, n, k, d) ==
    /\ s \in Seq(Msg)
    /\ Ordered(s, r, n)
    /\ d = "more" => Open(s) /\ EndOf(s) = EndOf(o) + k

(* A message that goes on where the others ended.                          *)
LEMMA AppendInOrder ==
    ASSUME NEW r \in Responses, NEW n \in 1..MaxBytes, NEW o \in Seq(Msg),
           Ordered(o, r, n), Open(o),
           NEW k \in Nat, EndOf(o) + k <= n,
           NEW d \in {"more", "ok", "err"},
           k = 0 => d # "more",
           d = "ok" => EndOf(o) + k = n
    PROVE  LET m == [bytes |-> Piece(r, EndOf(o), k), done |-> d]
           IN  Extends(Append(o, m), o, r, n, k, d)
<1> DEFINE e == EndOf(o)
           m == [bytes |-> Piece(r, e, k), done |-> d]
           s == Append(o, m)
           L == Len(o)
<1>0. /\ L \in Nat /\ L + 1 \in 1..(L + 1)
      /\ \A i \in 1..(L + 1) : i \in 1..L \/ i = L + 1
  OBVIOUS
<1>1. e \in Nat /\ e + k \in Nat /\ e + k <= MaxBytes /\ n \in Nat /\ n > 0
  BY EndType
<1> HIDE DEF e
<1>2. /\ Piece(r, e, k) \in Seq(Byte) /\ Len(Piece(r, e, k)) = k
      /\ (Piece(r, e, k) = <<>> <=> k = 0)
  BY <1>1, PieceShape, EmptyPiece, Zenon
<1>3. m \in Msg /\ m.bytes = Piece(r, e, k) /\ m.done = d
  BY <1>2 DEF Msg
<1> HIDE DEF m
<1>4. /\ s \in Seq(Msg) /\ Len(s) = L + 1
      /\ \A i \in 1..L : s[i] = o[i]
      /\ s[L + 1] = m
  BY <1>3, AppendProperties
<1> HIDE DEF s
<1>5. \A i \in 1..(L + 1) : Before(s, i) = Before(o, i)
  <2>1. \A i \in 1..(L + 1) : i # 1 => i - 1 \in 1..L
    BY <1>0
  <2> QED BY <1>4, <2>1 DEF Before
<1>6. Before(s, L + 1) = e
  BY <1>0, <1>5 DEF EndOf, e
<1> HIDE DEF L
<1>7. \A i \in 1..L : s[i].done = "more" /\ s[i].bytes # <<>>
  BY <1>4 DEF Ordered, Open, L
<1>8. d = "ok" => \E j \in 1..(L + 1) : s[j].bytes # <<>> /\ Last(s[j].bytes) = <<r, n>>
  <2> SUFFICES ASSUME d = "ok"
               PROVE  \E j \in 1..(L + 1) : s[j].bytes # <<>> /\ Last(s[j].bytes) = <<r, n>>
    OBVIOUS
  <2>1. e + k = n
    BY DEF e
  <2>2. CASE k # 0
    <3>1. Last(Piece(r, e, k)) = <<r, e + k>>
      BY <1>1, <2>2, LastOfPiece
    <3> QED BY <1>0, <1>2, <1>3, <1>4, <2>1, <2>2, <3>1
  <2>3. CASE k = 0
    <3>1. e = n /\ L # 0
      <4>1. e = n
        BY <1>1, <2>1, <2>3
      <4>2. L = 0 => e = 0
        BY DEF e, EndOf, Before, L
      <4> QED BY <1>1, <4>1, <4>2
    <3>2. L \in 1..L /\ L \in 1..(L + 1) /\ L + 1 - 1 = L /\ L + 1 # 1
      BY <1>0, <3>1
    <3> DEFINE bs == o[L].bytes
               f  == Before(o, L)
    <3>3. /\ bs # <<>> /\ bs \in Seq(Byte) /\ s[L].bytes = bs
          /\ bs = Piece(r, f, Len(bs))
      <4>1. o[L] \in Msg
        BY <3>2, ElementOfSeq DEF L
      <4> QED BY <1>4, <1>7, <3>2, <4>1 DEF Ordered, Msg, L
    <3>4. f \in Nat
      <4>1. L # 1 => L - 1 \in 1..L
        BY <1>0, <3>2
      <4>2. L # 1 => o[L - 1].bytes # <<>>
        BY <1>4, <1>7, <4>1
      <4>3. f \in 0..MaxBytes
        BY <3>2, <4>2, BeforeType DEF L
      <4> QED BY <4>3
    <3>5. Last(bs)[2] = n
      BY <3>1, <3>2 DEF e, EndOf, Before, L
    <3> HIDE DEF bs, f
    <3>6. Len(bs) \in Nat \ {0}
      BY <3>3
    <3>7. Last(bs) = <<r, f + Len(bs)>>
      BY <3>3, <3>4, <3>6, LastOfPiece
    <3>8. Last(bs) = <<r, n>>
      BY <3>5, <3>7
    <3> QED BY <3>2, <3>3, <3>8
  <2> QED BY <2>2, <2>3
<1>9. Ordered(s, r, n)
  <2> SUFFICES ASSUME NEW i \in 1..(L + 1)
               PROVE  /\ s[i].bytes # <<>> =>
                           /\ s[i].bytes = Piece(r, Before(s, i), Len(s[i].bytes))
                           /\ Before(s, i) + Len(s[i].bytes) <= n
                      /\ s[i].done # "more" => i = L + 1
                      /\ s[i].bytes = <<>> => s[i].done # "more"
                      /\ s[i].done = "ok" =>
                           \E j \in 1..i : s[j].bytes # <<>> /\ Last(s[j].bytes) = <<r, n>>
    BY <1>4 DEF Ordered
  <2>1. CASE i \in 1..L
    BY <1>4, <1>5, <1>7, <2>1 DEF Ordered, L
  <2>2. CASE i = L + 1
    <3>1. s[i].bytes = Piece(r, e, k) /\ s[i].done = d /\ Before(s, i) = e
      BY <1>3, <1>4, <1>6, <2>2
    <3>2. e + k <= n
      BY DEF e
    <3> QED BY <1>2, <1>8, <2>2, <3>1, <3>2
  <2> QED BY <1>0, <2>1, <2>2 DEF L
<1>10. d = "more" => Open(s) /\ EndOf(s) = e + k
  <2> SUFFICES ASSUME d = "more"
               PROVE  Open(s) /\ EndOf(s) = e + k
    OBVIOUS
  <2>1. Open(s)
    BY <1>0, <1>3, <1>4, <1>7 DEF Open, L
  <2>2. L + 1 + 1 # 1 /\ L + 1 + 1 - 1 = L + 1
    BY <1>0 DEF L
  <2>3. EndOf(s) = Last(Piece(r, e, k))[2]
    BY <1>3, <1>4, <2>2 DEF EndOf, Before
  <2>4. Last(Piece(r, e, k)) = <<r, e + k>>
    BY <1>1, LastOfPiece
  <2> QED BY <2>1, <2>3, <2>4
<1> HIDE DEF s
<1>11. Extends(s, o, r, n, k, d)
  BY <1>4, <1>9, <1>10 DEF Extends, e
<1> QED BY <1>11 DEF s, m, e

(* A message with Done, after which there is none.                         *)
Told(s, r, n) ==
    s \in Seq(Msg) /\ Ordered(s, r, n) /\ s # <<>> /\ Last(s).done # "more"

LEMMA AppendLast ==
    ASSUME NEW r \in Responses, NEW n \in 1..MaxBytes, NEW o \in Seq(Msg),
           Ordered(o, r, n), Open(o), NEW e \in Nat, e = EndOf(o),
           NEW k \in Nat, e + k <= n,
           NEW d \in {"more", "ok", "err"}, d # "more",
           d = "ok" => e + k = n
    PROVE  Told(Append(o, [bytes |-> Piece(r, e, k), done |-> d]), r, n)
<1> DEFINE m == [bytes |-> Piece(r, e, k), done |-> d]
           s == Append(o, m)
<1>1. Extends(s, o, r, n, k, d)
  BY AppendInOrder
<1>2. m \in Msg /\ m.done = d
  <2>1. e + k <= MaxBytes
    OBVIOUS
  <2>2. Piece(r, e, k) \in Seq(Byte)
    BY <2>1, PieceShape, Zenon
  <2> QED BY <2>2 DEF Msg
<1> HIDE DEF m
<1>3. s # <<>> /\ Len(s) = Len(o) + 1 /\ s[Len(o) + 1] = m
  BY <1>2, AppendProperties
<1> HIDE DEF s
<1>4. Told(s, r, n)
  BY <1>1, <1>2, <1>3 DEF Extends, Told, Last
<1> QED BY <1>4 DEF s, m

(* Messages without Done, with the bytes of a chain that starts where the  *)
(* others ended.                                                           *)
More(b) == [bytes |-> b, done |-> "more"]

LEMMA AppendMore ==
    ASSUME NEW r \in Responses, NEW n \in 1..MaxBytes, NEW o \in Seq(Msg),
           Ordered(o, r, n), Open(o), NEW a \in Nat, EndOf(o) = a,
           NEW e \in Nat, a < e, e <= n
    PROVE  LET s == Append(o, More(Piece(r, a, e - a)))
           IN  /\ s \in Seq(Msg) /\ More(Piece(r, a, e - a)) \in Msg
               /\ Ordered(s, r, n) /\ Open(s) /\ EndOf(s) = e
<1>1. PICK k \in Nat : k = e - a /\ k # 0 /\ a + k = e
  OBVIOUS
<1> DEFINE m == [bytes |-> Piece(r, EndOf(o), k), done |-> "more"]
           s == Append(o, m)
<1>2. s \in Seq(Msg) /\ Ordered(s, r, n) /\ Open(s) /\ EndOf(s) = EndOf(o) + k
  <2>1. PICK d \in {"more", "ok", "err"} : d = "more" /\ d # "ok"
    OBVIOUS
  <2>2. EndOf(o) + k <= n
    BY <1>1
  <2> DEFINE l == [bytes |-> Piece(r, EndOf(o), k), done |-> d]
  <2>3. Extends(Append(o, l), o, r, n, k, d)
    BY <1>1, <2>1, <2>2, AppendInOrder
  <2>4. l = m
    BY <2>1
  <2> HIDE DEF l, m
  <2> QED BY <2>1, <2>3, <2>4 DEF Extends
<1>3. m = More(Piece(r, a, e - a))
  BY <1>1 DEF More
<1>4. m \in Msg
  <2>1. a + k <= MaxBytes
    BY <1>1
  <2>2. Piece(r, a, k) \in Seq(Byte)
    BY <1>1, <2>1, PieceShape, Zenon
  <2> QED BY <2>2 DEF Msg
<1> HIDE DEF m
<1> QED BY <1>1, <1>2, <1>3, <1>4

LEMMA ChainInOrder ==
    ASSUME NEW r \in Responses, NEW n \in 1..MaxBytes, NEW o \in Seq(Msg),
           Ordered(o, r, n), Open(o), NEW a \in Nat, EndOf(o) = a,
           NEW e \in Nat, e <= n,
           NEW p, Chain(p, r, a, e),
           NEW j \in 0..Len(p)
    PROVE  LET s == o \o [i \in 1..j |-> More(p[i])]
           IN  /\ s \in Seq(Msg) /\ Ordered(s, r, n) /\ Open(s)
               /\ j = Len(p) => EndOf(s) = e
<1> DEFINE add == [i \in 1..j |-> More(p[i])]
           s   == o \o add
           Goal(q) == q \in Seq(Msg) /\ Ordered(q, r, n) /\ Open(q)
<1>1. CASE j = 0
  <2>1. add = <<>>
    BY <1>1
  <2> HIDE DEF add
  <2>2. s = o
    BY <2>1
  <2>3. Len(p) = 0 => e = a
    BY DEF Chain
  <2> QED BY <1>1, <2>2, <2>3 DEF add
<1>2. CASE j # 0 /\ \E x : p = <<x>> /\ a < e /\ x = Piece(r, a, e - a)
  <2>1. PICK x : p = <<x>> /\ a < e /\ x = Piece(r, a, e - a)
    BY <1>2
  <2>2. j = 1 /\ Len(p) = 1 /\ p[1] = x
    BY <1>2, <2>1
  <2>3. add = <<More(x)>>
    <3>1. \A i \in 1..1 : i = 1
      OBVIOUS
    <3> HIDE DEF More
    <3> QED BY <2>2, <3>1
  <2> HIDE DEF add
  <2>4. Goal(Append(o, More(x))) /\ More(x) \in Msg /\ EndOf(Append(o, More(x))) = e
    BY <2>1, AppendMore
  <2>5. s = Append(o, More(x))
    <3>1. Append(o, More(x)) = o \o <<More(x)>>
      BY <2>4, AppendIsConcat
    <3> QED BY <2>3, <3>1
  <2> QED BY <2>4, <2>5 DEF add
<1>3. CASE /\ j # 0
           /\ \E c \in (a + 1)..(e - 1) :
                p = <<Piece(r, a, c - a), Piece(r, c, e - c)>>
  <2>1. PICK c \in (a + 1)..(e - 1) : p = <<Piece(r, a, c - a), Piece(r, c, e - c)>>
    BY <1>3
  <2> DEFINE x == Piece(r, a, c - a)
             y == Piece(r, c, e - c)
             one == Append(o, More(x))
  <2>2. c \in Nat /\ a < c /\ c < e /\ c <= n
    BY <2>1
  <2>3. Goal(one) /\ More(x) \in Msg /\ EndOf(one) = c
    BY <2>2, AppendMore
  <2>4. one = o \o <<More(x)>>
    BY <2>3, AppendIsConcat
  <2> HIDE DEF x, one
  <2>5. p = <<x, y>>
    BY <2>1 DEF x
  <2>6. Goal(Append(one, More(y))) /\ More(y) \in Msg /\ EndOf(Append(one, More(y))) = e
    BY <2>2, <2>3, AppendMore
  <2> HIDE DEF y
  <2>7. Len(p) = 2 /\ p[1] = x /\ p[2] = y /\ (j = 1 \/ j = 2)
    BY <1>3, <2>5
  <2>8. CASE j = 1
    <3>1. add = <<More(x)>>
      <4>1. \A i \in 1..1 : i = 1
        OBVIOUS
      <4> HIDE DEF More
      <4> QED BY <2>7, <2>8, <4>1
    <3> HIDE DEF add
    <3> QED BY <2>3, <2>4, <2>7, <2>8, <3>1 DEF add
  <2>9. CASE j = 2
    <3>1. add = <<More(x), More(y)>>
      <4>1. \A i \in 1..2 : i = 1 \/ i = 2
        OBVIOUS
      <4> HIDE DEF More
      <4> QED BY <2>7, <2>9, <4>1
    <3> HIDE DEF add
    <3>2. s = Append(one, More(y))
      <4>1. <<More(x), More(y)>> = <<More(x)>> \o <<More(y)>>
        <5> HIDE DEF More
        <5> QED OBVIOUS
      <4>2. Append(one, More(y)) = one \o <<More(y)>>
        BY <2>3, <2>6, AppendIsConcat
      <4>3. (o \o <<More(x)>>) \o <<More(y)>> = o \o (<<More(x)>> \o <<More(y)>>)
        <5>1. <<More(x)>> \in Seq(Msg) /\ <<More(y)>> \in Seq(Msg)
          BY <2>3, <2>6
        <5> QED BY <5>1, ConcatAssociative
      <4> QED BY <2>4, <3>1, <4>1, <4>2, <4>3
    <3> QED BY <2>6, <2>9, <3>2 DEF add
  <2> QED BY <2>7, <2>8, <2>9
<1>4. \/ j = 0
      \/ \E x : p = <<x>> /\ a < e /\ x = Piece(r, a, e - a)
      \/ \E c \in (a + 1)..(e - 1) : p = <<Piece(r, a, c - a), Piece(r, c, e - c)>>
  BY DEF Chain
<1> QED BY <1>1, <1>2, <1>3, <1>4

-----------------------------------------------------------------------------
(* The inductive invariant.                                                *)

(* While a response is written, its buffer holds the bytes from the end of *)
(* its messages to where resp.Write has come; and none of its messages has *)
(* a Done, until the handler is about to return.                           *)
HandlerInv(h) ==
    LET r == job[h]
        e == EndOf(out[r])
    IN  /\ pc[h] = "idle" <=> r = NoResponse
        /\ pc[h] = "idle" => buf[h] = {}
        /\ pc[h] # "idle" => r \notin todo /\ \E b \in Buffers : buf[h] = {b}
        /\ pc[h] \in {"writing", "written", "failed"} => Open(out[r])
        /\ pc[h] \in {"writing", "written"} =>
             e <= given[r] /\ \A b \in buf[h] : data[b] = Piece(r, e, given[r] - e)
        /\ pc[h] = "writing" => ~final[h]
        /\ pc[h] = "written" => final[h] /\ given[r] = size[r]
        /\ pc[h] = "put" => \/ refused[r]
                            \/ out[r] # <<>> /\ Last(out[r]).done # "more"

ResponseInv(r) ==
    /\ given[r] <= size[r]
    /\ Ordered(out[r], r, size[r])
    /\ r \in todo => given[r] = 0 /\ out[r] = <<>>

(* Nobody writes a response, or holds a writer, that another has.          *)
Exclusive ==
    \A h, g \in Handlers : h # g =>
        /\ buf[h] \cap buf[g] = {}
        /\ job[h] = job[g] => job[h] = NoResponse

WriterInv ==
    /\ TypeOK
    /\ Exclusive
    /\ \A h \in Handlers : HandlerInv(h)
    /\ \A r \in Responses : ResponseInv(r)

LEMMA InitWriterInv == Init => WriterInv
<1> SUFFICES ASSUME Init
             PROVE  WriterInv
  OBVIOUS
<1>1. <<>> \in Seq(Byte) /\ Len(<<>>) = 0
  OBVIOUS
<1>2. TypeOK
  BY <1>1 DEF Init, TypeOK
<1>3. Ordered(<<>>, 0, 0) /\ \A r, n : Ordered(<<>>, r, n)
  BY <1>1 DEF Ordered
<1> QED BY <1>1, <1>2, <1>3 DEF Init, WriterInv, Exclusive, HandlerInv, ResponseInv

(* What a step leaves alone.                                               *)
LEMMA SameHandler ==
    ASSUME NEW g \in Handlers, HandlerInv(g),
           pc'[g] = pc[g], job'[g] = job[g], buf'[g] = buf[g],
           final'[g] = final[g], size' = size, todo' \subseteq todo,
           \A b \in buf[g] : data'[b] = data[b],
           pc[g] # "idle" => /\ given'[job[g]] = given[job[g]]
                             /\ out'[job[g]] = out[job[g]]
                             /\ refused'[job[g]] = refused[job[g]]
    PROVE  HandlerInv(g)'
BY DEF HandlerInv

LEMMA SameResponse ==
    ASSUME NEW r \in Responses, ResponseInv(r),
           given'[r] = given[r], out'[r] = out[r], size' = size, todo' \subseteq todo
    PROVE  ResponseInv(r)'
BY DEF ResponseInv

(* A handler at work has a response and a writer of its own.               *)
LEMMA OwnJob ==
    ASSUME WriterInv, NEW h \in Handlers, pc[h] # "idle"
    PROVE  /\ job[h] \in Responses \ todo
           /\ \E b \in Buffers : buf[h] = {b}
           /\ \A g \in Handlers \ {h} :
                job[g] # job[h] /\ \A b \in buf[h] : b \notin buf[g]
BY DEF WriterInv, Exclusive, HandlerInv, TypeOK

LEMMA ChainDomain ==
    ASSUME NEW p, NEW r, NEW a, NEW e, Chain(p, r, a, e)
    PROVE  Len(p) \in Nat /\ DOMAIN p = 1..Len(p)
<1>1. CASE p = <<>>
  BY <1>1
<1>2. ASSUME NEW x, p = <<x>>
      PROVE  Len(p) \in Nat /\ DOMAIN p = 1..Len(p)
  BY <1>2
<1>3. ASSUME NEW x, NEW y, p = <<x, y>>
      PROVE  Len(p) \in Nat /\ DOMAIN p = 1..Len(p)
  BY <1>3
<1>4. p = <<>> \/ (\E x : p = <<x>>) \/ (\E x, y : p = <<x, y>>)
  BY DEF Chain
<1> QED BY <1>1, <1>2, <1>3, <1>4

(* A step of a handler that changes nothing of the others.                 *)
LEMMA OneHandler ==
    ASSUME WriterInv, NEW h \in Handlers, pc[h] # "idle", NEW b \in buf[h],
           UNCHANGED <<todo, job, size, buf>>,
           \A g \in Handlers \ {h} : pc'[g] = pc[g] /\ final'[g] = final[g],
           \A c \in Buffers \ {b} : data'[c] = data[c],
           \A r \in Responses \ {job[h]} :
             given'[r] = given[r] /\ out'[r] = out[r] /\ refused'[r] = refused[r]
    PROVE  /\ Exclusive'
           /\ \A g \in Handlers \ {h} : HandlerInv(g)'
           /\ \A r \in Responses \ {job[h]} : ResponseInv(r)'
<1>1. /\ buf[h] = {b}
      /\ \A g \in Handlers \ {h} : job[g] # job[h] /\ b \notin buf[g]
  BY OwnJob
<1>2. Exclusive'
  BY DEF WriterInv, Exclusive
<1>3. ASSUME NEW g \in Handlers \ {h}
      PROVE  HandlerInv(g)'
  <2>1. \A c \in buf[g] : c \in Buffers \ {b}
    BY <1>1, <1>3 DEF WriterInv, TypeOK
  <2>2. pc[g] # "idle" => job[g] \in Responses \ {job[h]}
    BY <1>1, <1>3, OwnJob
  <2>3. HandlerInv(g)
    BY DEF WriterInv
  <2> QED BY <2>1, <2>2, <2>3, SameHandler
<1>4. ASSUME NEW r \in Responses \ {job[h]}
      PROVE  ResponseInv(r)'
  BY SameResponse DEF WriterInv
<1> QED BY <1>2, <1>3, <1>4

(* The writer passes on a chain of pieces, and keeps what comes after it.  *)
LEMMA PublishStep ==
    ASSUME WriterInv, NEW h \in Handlers, pc[h] = "writing", NEW b \in buf[h],
           UNCHANGED <<todo, job, size, final, buf>>,
           NEW g \in Nat, given[job[h]] <= g, g <= size[job[h]],
           given' = [given EXCEPT ![job[h]] = g],
           NEW p, NEW kept, Passed(p, kept, job[h], EndOf(out[job[h]]), g),
           Publish(h, b, job[h], p, kept)
    PROVE  WriterInv'
<1> DEFINE r == job[h]
           o == out[r]
           n == size[r]
           a == EndOf(o)
           Sent(j) == o \o [i \in 1..j |-> More(p[i])]
<1>0. PICK e \in a..g : /\ Chain(p, r, a, e)
                        /\ kept = Piece(r, e, g - e)
                        /\ g - e <= BufferSize
  BY DEF Passed
<1>1. r \in Responses /\ buf[h] = {b} /\ b \in Buffers /\ HandlerInv(h) /\ ResponseInv(r)
  BY OwnJob DEF WriterInv
<1>2. /\ TypeOK /\ o \in Seq(Msg) /\ n \in 1..MaxBytes /\ data \in [Buffers -> Seq(Byte)]
      /\ out \in [Responses -> Seq(Msg)]
  BY <1>1 DEF WriterInv, TypeOK, Msg
<1>3. Ordered(o, r, n) /\ Open(o) /\ ~final[h]
  BY <1>1 DEF HandlerInv, ResponseInv
<1>4. /\ a \in 0..MaxBytes /\ a \in Nat /\ e \in Nat /\ e <= g /\ g <= n /\ e <= n
      /\ n \in Nat /\ g \in 0..MaxBytes /\ g - e \in Nat /\ e + (g - e) <= MaxBytes
  <2>1. a \in 0..MaxBytes
    BY <1>2, <1>3, EndType
  <2> HIDE DEF a
  <2>2. e \in a..g /\ g <= n /\ g \in Nat
    BY DEF a
  <2> HIDE DEF n
  <2> QED BY <1>2, <2>1, <2>2
<1>5. ASSUME NEW j \in 0..Len(p)
      PROVE  /\ Sent(j) \in Seq(Msg) /\ Ordered(Sent(j), r, n) /\ Open(Sent(j))
             /\ j = Len(p) => EndOf(Sent(j)) = e
  BY <1>0, <1>1, <1>2, <1>3, <1>4, <1>5, ChainInOrder
<1>6. Len(p) \in Nat /\ DOMAIN p = 1..Len(p)
  BY <1>0, ChainDomain
<1>7. \A x : Message(h, x) = More(x)
  BY <1>3 DEF Message, Done, More
<1>8. kept \in Seq(Byte) /\ Len(kept) = g - e
  <2>1. PICK k \in Nat : k = g - e /\ e + k <= MaxBytes
    BY <1>4
  <2>2. Piece(r, e, k) \in Seq(Byte) /\ Len(Piece(r, e, k)) = k
    BY <1>1, <1>4, <2>1, PieceShape, Zenon
  <2> QED BY <1>0, <2>1, <2>2
<1> DEFINE Rest(s) ==
             /\ out' = [out EXCEPT ![r] = s]
             /\ s \in Seq(Msg) /\ Ordered(s, r, n) /\ Open(s)
<1>9. ASSUME NEW s, Rest(s),
             NEW d \in Seq(Byte), Len(d) <= BufferSize, data' = [data EXCEPT ![b] = d],
             \/ UNCHANGED <<pc, refused>> /\ d = kept /\ EndOf(s) = e
             \/ refused' = [refused EXCEPT ![r] = TRUE] /\ pc' = [pc EXCEPT ![h] = "failed"]
      PROVE  WriterInv'
  <2> HIDE DEF a, n
  <2>1. \A f \in Handlers \ {h} : pc'[f] = pc[f] /\ final'[f] = final[f]
    BY <1>2, <1>9 DEF TypeOK
  <2>2. \A c \in Buffers \ {b} : data'[c] = data[c]
    BY <1>2, <1>9
  <2>3. \A q \in Responses \ {r} :
           given'[q] = given[q] /\ out'[q] = out[q] /\ refused'[q] = refused[q]
    BY <1>2, <1>9 DEF TypeOK
  <2>4. /\ Exclusive'
        /\ \A f \in Handlers \ {h} : HandlerInv(f)'
        /\ \A q \in Responses \ {r} : ResponseInv(q)'
    BY <2>1, <2>2, <2>3, OneHandler
  <2>5. out'[r] = s /\ given'[r] = g /\ data'[b] = d
    BY <1>1, <1>2, <1>9 DEF TypeOK
  <2>6. ResponseInv(r)'
    BY <1>1, <1>9, <2>5, OwnJob DEF ResponseInv, n
  <2>7. HandlerInv(h)'
    <3>1. /\ job'[h] = r /\ buf'[h] = {b} /\ final'[h] = final[h] /\ todo' = todo
          /\ r # NoResponse /\ r \notin todo
      BY <1>1, OwnJob
    <3>2. CASE UNCHANGED <<pc, refused>> /\ d = kept /\ EndOf(s) = e
      BY <1>0, <1>1, <1>3, <1>4, <1>9, <2>5, <3>1, <3>2 DEF HandlerInv
    <3>3. CASE refused' = [refused EXCEPT ![r] = TRUE] /\ pc' = [pc EXCEPT ![h] = "failed"]
      <4>1. pc'[h] = "failed"
        BY <1>2, <3>3 DEF TypeOK
      <4> QED BY <1>1, <1>9, <2>5, <3>1, <4>1 DEF HandlerInv
    <3> QED BY <1>9, <3>2, <3>3
  <2>8. TypeOK'
    <3>1. data' \in [Buffers -> Seq(Byte)] /\ out' \in [Responses -> Seq(Msg)]
      BY <1>2, <1>9
    <3>2. given' \in [Responses -> 0..MaxBytes]
      BY <1>2, <1>4 DEF TypeOK
    <3>3. \A c \in Buffers : Len(data'[c]) <= BufferSize
      BY <1>2, <1>9, <2>2, <2>5 DEF TypeOK
    <3>4. /\ pc' \in [Handlers -> {"idle", "writing", "written", "failed", "put"}]
          /\ refused' \in [Responses -> BOOLEAN]
      BY <1>2, <1>9 DEF TypeOK
    <3> QED BY <1>2, <3>1, <3>2, <3>3, <3>4 DEF TypeOK, Msg
  <2> QED BY <2>4, <2>6, <2>7, <2>8 DEF WriterInv
<1>10. CASE /\ out' = [out EXCEPT ![r] = @ \o [i \in DOMAIN p |-> Message(h, p[i])]]
            /\ data' = [data EXCEPT ![b] = kept]
            /\ UNCHANGED <<pc, refused>>
  <2>1. [i \in DOMAIN p |-> Message(h, p[i])] = [i \in 1..Len(p) |-> More(p[i])]
    BY <1>6, <1>7
  <2>2. out' = [out EXCEPT ![r] = Sent(Len(p))]
    BY <1>10, <2>1
  <2>3. Len(p) \in 0..Len(p)
    BY <1>6
  <2>4. Rest(Sent(Len(p))) /\ EndOf(Sent(Len(p))) = e
    BY <1>5, <2>2, <2>3
  <2> HIDE DEF Rest, Sent
  <2> QED BY <1>0, <1>8, <1>9, <1>10, <2>4
<1>11. CASE /\ \E k \in DOMAIN p :
                 out' = [out EXCEPT ![r] = @ \o [i \in 1..(k - 1) |-> Message(h, p[i])]]
            /\ data' = [data EXCEPT ![b] = <<>>]
            /\ refused' = [refused EXCEPT ![r] = TRUE]
            /\ pc' = [pc EXCEPT ![h] = "failed"]
  <2>1. PICK k \in DOMAIN p :
          out' = [out EXCEPT ![r] = @ \o [i \in 1..(k - 1) |-> Message(h, p[i])]]
    BY <1>11
  <2>2. [i \in 1..(k - 1) |-> Message(h, p[i])] = [i \in 1..(k - 1) |-> More(p[i])]
    BY <1>7
  <2>3. out' = [out EXCEPT ![r] = Sent(k - 1)]
    BY <2>1, <2>2
  <2>4. k - 1 \in 0..Len(p)
    BY <1>6, <2>1
  <2>5. Rest(Sent(k - 1))
    BY <1>5, <2>3, <2>4
  <2>6. <<>> \in Seq(Byte) /\ Len(<<>>) <= BufferSize
    OBVIOUS
  <2> HIDE DEF Rest, Sent
  <2> QED BY <1>9, <1>11, <2>5, <2>6
<1> QED BY <1>10, <1>11 DEF Publish

-----------------------------------------------------------------------------
(* The steps.                                                              *)

(* What is known of a handler that is writing.                             *)
LEMMA Writing ==
    ASSUME WriterInv, NEW h \in Handlers, pc[h] = "writing", NEW b \in buf[h]
    PROVE  /\ job[h] \in Responses
           /\ EndOf(out[job[h]]) \in Nat /\ given[job[h]] \in Nat /\ size[job[h]] \in 1..MaxBytes
           /\ EndOf(out[job[h]]) <= given[job[h]]
           /\ given[job[h]] <= size[job[h]]
           /\ data[b] = Piece(job[h], EndOf(out[job[h]]), given[job[h]] - EndOf(out[job[h]]))
           /\ Len(data[b]) = given[job[h]] - EndOf(out[job[h]])
           /\ Len(data[b]) <= BufferSize
<1> DEFINE r == job[h]
           e == EndOf(out[r])
           g == given[r]
<1>1. r \in Responses /\ b \in Buffers /\ HandlerInv(h) /\ ResponseInv(r) /\ TypeOK
  BY OwnJob DEF WriterInv, TypeOK
<1>2. /\ out[r] \in Seq(Msg) /\ g \in 0..MaxBytes /\ size[r] \in 1..MaxBytes
      /\ g <= size[r] /\ Len(data[b]) <= BufferSize
  BY <1>1 DEF TypeOK, Msg, ResponseInv
<1>3. e \in 0..MaxBytes
  BY <1>1, <1>2, EndType DEF HandlerInv, ResponseInv
<1>4. e <= g /\ data[b] = Piece(r, e, g - e)
  BY <1>1 DEF HandlerInv
<1> HIDE DEF e, g
<1>5. PICK k \in Nat : k = g - e
  BY <1>2, <1>3, <1>4
<1>6. e \in Nat /\ g \in Nat
  BY <1>2, <1>3
<1>7. Len(Piece(r, e, k)) = k
  BY <1>1, <1>5, <1>6, PieceShape, Zenon
<1> QED BY <1>1, <1>2, <1>4, <1>5, <1>6, <1>7 DEF e, g

LEMMA WriteStep ==
    ASSUME WriterInv, NEW h \in Handlers, Write(h)
    PROVE  WriterInv'
<1> DEFINE r == job[h]
           a == EndOf(out[r])
           g == given[r]
<1>1. pc[h] = "writing" /\ UNCHANGED <<todo, job, size, final, buf>>
  BY DEF Write
<1>2. PICK b \in buf[h], k \in 1..MaxWrite :
        /\ k <= Remaining(r)
        /\ given' = [given EXCEPT ![r] = @ + k]
        /\ Publish(h, b, r, Flushes(data[b], NextBytes(r, k)).sent,
                            Flushes(data[b], NextBytes(r, k)).kept)
  BY DEF Write
<1>3. /\ r \in Responses /\ a \in Nat /\ g \in Nat /\ size[r] \in 1..MaxBytes
      /\ a <= g /\ g <= size[r] /\ data[b] = Piece(r, a, g - a)
      /\ Len(data[b]) = g - a /\ Len(data[b]) <= BufferSize
  BY <1>1, Writing
<1>4. given' = [given EXCEPT ![r] = g + k] /\ k <= size[r] - g
  BY <1>2 DEF Remaining
<1>5. Publish(h, b, r, Flushes(data[b], Piece(r, g, k)).sent,
                       Flushes(data[b], Piece(r, g, k)).kept)
  BY <1>2 DEF NextBytes
<1> HIDE DEF a, g
<1>6. PICK m \in 0..BufferSize : m = g - a /\ a + m = g
  BY <1>3
<1>7. /\ k \in Nat \ {0} /\ g + k \in Nat /\ g <= g + k /\ g + k <= size[r]
      /\ a + m + k = g + k
  BY <1>3, <1>4, <1>6
<1> DEFINE f == Flushes(Piece(r, a, m), Piece(r, a + m, k))
<1>8. Passed(f.sent, f.kept, r, a, a + m + k)
  BY <1>3, <1>6, <1>7, FlushesInOrder
<1>9. f = Flushes(data[b], Piece(r, g, k))
  BY <1>3, <1>6
<1> HIDE DEF f
<1>10. Passed(f.sent, f.kept, r, a, g + k) /\ Publish(h, b, r, f.sent, f.kept)
  BY <1>5, <1>7, <1>8, <1>9
<1> QED BY <1>1, <1>4, <1>7, <1>10, PublishStep DEF a, g

LEMMA ReadStep ==
    ASSUME WriterInv, NEW h \in Handlers, ReadFrom(h)
    PROVE  WriterInv'
<1> DEFINE r == job[h]
           a == EndOf(out[r])
           g == given[r]
<1>1. pc[h] = "writing" /\ UNCHANGED <<todo, job, size, final, buf>>
  BY DEF ReadFrom
<1>2. PICK b \in buf[h], k \in 1..BufferSize :
        LET full == Len(data[b]) = BufferSize
            old  == IF full THEN <<>> ELSE data[b]
        IN  /\ k <= Remaining(r)
            /\ Len(old) + k <= BufferSize
            /\ given' = [given EXCEPT ![r] = @ + k]
            /\ Publish(h, b, r, IF full THEN <<data[b]>> ELSE <<>>,
                       Join(old, NextBytes(r, k)))
  BY DEF ReadFrom, Join
<1>3. /\ r \in Responses /\ a \in Nat /\ g \in Nat /\ size[r] \in 1..MaxBytes
      /\ a <= g /\ g <= size[r] /\ data[b] = Piece(r, a, g - a)
      /\ Len(data[b]) = g - a /\ Len(data[b]) <= BufferSize
  BY <1>1, Writing
<1>4. given' = [given EXCEPT ![r] = g + k] /\ k <= size[r] - g
  BY <1>2 DEF Remaining
<1> HIDE DEF a, g
<1>5. /\ k \in Nat /\ g + k \in Nat /\ g <= g + k /\ g + k <= size[r]
      /\ k <= BufferSize /\ g \in a..(g + k) /\ a \in a..(g + k)
  BY <1>3, <1>4
<1>6. CASE Len(data[b]) = BufferSize
  <2>1. Publish(h, b, r, <<data[b]>>, Join(<<>>, NextBytes(r, k)))
    BY <1>2, <1>6
  <2>2. Join(<<>>, NextBytes(r, k)) = Piece(r, g, k)
    <3>1. Piece(r, g, k) \in Seq(Responses \X Nat)
      BY <1>3, <1>5, PieceShape, Zenon
    <3>2. NextBytes(r, k) = Piece(r, g, k)
      BY DEF NextBytes, g
    <3> DEFINE p == Piece(r, g, k)
    <3> HIDE DEF p
    <3>3. p \in Seq(Responses \X Nat) => <<>> \o p = p
      BY ConcatEmptySeq
    <3> QED BY <3>1, <3>2, <3>3 DEF p, Join
  <2>3. Chain(<<data[b]>>, r, a, g)
    <3>1. a < g
      BY <1>3, <1>6
    <3> QED BY <1>3, <3>1 DEF Chain
  <2>4. g + k - g = k
    BY <1>3, <1>5
  <2>5. Passed(<<data[b]>>, Piece(r, g, k), r, a, g + k)
    BY <1>5, <2>3, <2>4 DEF Passed
  <2> QED BY <1>1, <1>4, <1>5, <2>1, <2>2, <2>5, PublishStep DEF a, g
<1>7. CASE Len(data[b]) # BufferSize
  <2>1. /\ Publish(h, b, r, <<>>, Join(data[b], NextBytes(r, k)))
        /\ Len(data[b]) + k <= BufferSize
    BY <1>2, <1>7
  <2>2. PICK m \in Nat : m = g - a /\ a + m = g /\ m + k = g + k - a
    BY <1>3, <1>5
  <2>3. Join(Piece(r, a, m), Piece(r, a + m, k)) = Piece(r, a, m + k)
    BY <1>3, <1>5, PieceConcat
  <2>4. NextBytes(r, k) = Piece(r, a + m, k)
    BY <2>2 DEF NextBytes, g
  <2>5. Join(data[b], NextBytes(r, k)) = Piece(r, a, g + k - a)
    BY <1>3, <2>2, <2>3, <2>4
  <2>6. Chain(<<>>, r, a, a) /\ g + k - a <= BufferSize
    BY <1>3, <1>5, <2>1 DEF Chain
  <2>7. Passed(<<>>, Piece(r, a, g + k - a), r, a, g + k)
    BY <1>5, <2>6 DEF Passed
  <2> QED BY <1>1, <1>4, <1>5, <2>1, <2>5, <2>7, PublishStep DEF a, g
<1> QED BY <1>6, <1>7

LEMMA EOFStep ==
    ASSUME WriterInv, NEW h \in Handlers, ReadFromEOF(h)
    PROVE  WriterInv'
<1> DEFINE r == job[h]
           a == EndOf(out[r])
           g == given[r]
<1>1. /\ pc[h] = "writing" /\ UNCHANGED <<todo, job, size, final, buf>>
      /\ given' = given
  BY DEF ReadFromEOF
<1>2. PICK b \in buf[h] : /\ Len(data[b]) = BufferSize
                          /\ Publish(h, b, r, <<data[b]>>, <<>>)
  BY DEF ReadFromEOF
<1>3. /\ r \in Responses /\ a \in Nat /\ g \in Nat /\ size[r] \in 1..MaxBytes
      /\ a <= g /\ g <= size[r] /\ data[b] = Piece(r, a, g - a)
      /\ Len(data[b]) = g - a
  BY <1>1, Writing
<1>4. given' = [given EXCEPT ![r] = g]
  BY <1>1 DEF WriterInv, TypeOK
<1> HIDE DEF a, g
<1>5. /\ a < g /\ g \in a..g /\ g <= g /\ g - g = 0 /\ 0 <= BufferSize /\ 0 \in Nat
  BY <1>2, <1>3
<1>6. Chain(<<data[b]>>, r, a, g)
  BY <1>3, <1>5 DEF Chain
<1>7. <<>> = Piece(r, g, g - g)
  BY <1>3, <1>5, EmptyPiece
<1>8. Passed(<<data[b]>>, <<>>, r, a, g)
  BY <1>5, <1>6, <1>7 DEF Passed
<1> QED BY <1>1, <1>2, <1>3, <1>4, <1>5, <1>8, PublishStep DEF a, g

LEMMA GetStep ==
    ASSUME WriterInv, NEW h \in Handlers, Get(h)
    PROVE  WriterInv'
<1>1. PICK r \in todo : todo' = todo \ {r} /\ job' = [job EXCEPT ![h] = r]
  BY DEF Get
<1>2. PICK b \in Buffers \ InUse :
        buf' = [buf EXCEPT ![h] = {b}] /\ data' = [data EXCEPT ![b] = <<>>]
  BY DEF Get, Reset
<1>3. /\ pc[h] = "idle" /\ pc' = [pc EXCEPT ![h] = "writing"]
      /\ final' = [final EXCEPT ![h] = FALSE]
      /\ UNCHANGED <<size, given, out, refused>>
  BY DEF Get
<1>4. TypeOK /\ r \in Responses /\ r # NoResponse /\ ResponseInv(r)
  BY <1>1 DEF WriterInv, TypeOK
<1>5. /\ \A g \in Handlers : HandlerInv(g) /\ job[g] # r
      /\ \A g \in Handlers : b \notin buf[g]
  BY <1>1, <1>2, <1>4 DEF WriterInv, HandlerInv, InUse
<1>6. /\ pc'[h] = "writing" /\ job'[h] = r /\ buf'[h] = {b} /\ data'[b] = <<>>
      /\ final'[h] = FALSE
      /\ \A g \in Handlers \ {h} : /\ pc'[g] = pc[g] /\ job'[g] = job[g]
                                   /\ buf'[g] = buf[g] /\ final'[g] = final[g]
      /\ \A c \in Buffers \ {b} : data'[c] = data[c]
  BY <1>1, <1>2, <1>3, <1>4 DEF TypeOK
<1>7. TypeOK'
  <2>1. <<>> \in Seq(Byte) /\ Len(<<>>) <= BufferSize
    OBVIOUS
  <2>2. data' \in [Buffers -> Seq(Byte)]
    BY <1>2, <1>4, <2>1 DEF TypeOK
  <2>3. \A c \in Buffers : Len(data'[c]) <= BufferSize
    BY <1>4, <1>6, <2>1 DEF TypeOK
  <2>4. /\ todo' \subseteq Responses
        /\ job' \in [Handlers -> Responses \cup {NoResponse}]
        /\ pc' \in [Handlers -> {"idle", "writing", "written", "failed", "put"}]
        /\ final' \in [Handlers -> BOOLEAN]
        /\ buf' \in [Handlers -> SUBSET Buffers]
    BY <1>1, <1>2, <1>3, <1>4 DEF TypeOK
  <2> QED BY <1>3, <1>4, <2>2, <2>3, <2>4 DEF TypeOK
<1>8. Exclusive'
  BY <1>5, <1>6 DEF WriterInv, Exclusive
<1>9. ASSUME NEW g \in Handlers \ {h}
      PROVE  HandlerInv(g)'
  <2>1. \A c \in buf[g] : data'[c] = data[c]
    BY <1>4, <1>5, <1>6 DEF TypeOK
  <2> QED BY <1>1, <1>3, <1>5, <1>6, <2>1, SameHandler
<1>10. HandlerInv(h)'
  <2>1. out'[r] = <<>> /\ given'[r] = 0
    BY <1>1, <1>3, <1>4 DEF ResponseInv
  <2>2. Open(<<>>) /\ EndOf(<<>>) = 0
    BY DEF Open, EndOf, Before
  <2>3. 0 - 0 = 0 /\ 0 <= 0 /\ 0 \in Nat
    OBVIOUS
  <2>4. Piece(r, 0, 0) = <<>>
    BY <1>4, <2>3, EmptyPiece
  <2>5. /\ pc'[h] = "writing" /\ job'[h] = r /\ buf'[h] = {b} /\ b \in Buffers
        /\ ~final'[h] /\ r # NoResponse /\ r \notin todo'
    BY <1>1, <1>4, <1>6
  <2> QED BY <1>6, <2>1, <2>2, <2>3, <2>4, <2>5 DEF HandlerInv
<1>11. ASSUME NEW q \in Responses
       PROVE  ResponseInv(q)'
  BY <1>1, <1>3 DEF WriterInv, ResponseInv
<1> QED BY <1>7, <1>8, <1>9, <1>10, <1>11 DEF WriterInv

LEMMA EndStep ==
    ASSUME WriterInv, NEW h \in Handlers, EndWrite(h) \/ BodyFails(h)
    PROVE  WriterInv'
<1>1. /\ pc[h] = "writing"
      /\ UNCHANGED <<todo, job, size, given, buf, data, out, refused>>
      /\ \/ /\ Remaining(job[h]) = 0 /\ final' = [final EXCEPT ![h] = TRUE]
            /\ pc' = [pc EXCEPT ![h] = "written"]
         \/ final' = final /\ pc' = [pc EXCEPT ![h] = "failed"]
  BY DEF EndWrite, BodyFails
<1>2. PICK b \in Buffers : buf[h] = {b}
  BY <1>1, OwnJob
<1>3. TypeOK /\ HandlerInv(h) /\ job[h] \in Responses \ todo
  BY <1>1, OwnJob DEF WriterInv
<1>4. /\ \A g \in Handlers \ {h} : pc'[g] = pc[g] /\ final'[g] = final[g]
      /\ TypeOK'
  BY <1>1, <1>3 DEF TypeOK
<1>5. /\ Exclusive'
      /\ \A g \in Handlers \ {h} : HandlerInv(g)'
      /\ \A r \in Responses \ {job[h]} : ResponseInv(r)'
  BY <1>1, <1>2, <1>4, OneHandler
<1>6. \A r \in Responses : ResponseInv(r)'
  BY <1>1, SameResponse DEF WriterInv
<1>7. HandlerInv(h)'
  <2>1. Remaining(job[h]) = 0 => given[job[h]] = size[job[h]]
    BY <1>3 DEF TypeOK, Remaining
  <2>2. /\ pc'[h] \in {"written", "failed"}
        /\ pc'[h] = "written" => final'[h] /\ Remaining(job[h]) = 0
    BY <1>1, <1>3 DEF TypeOK
  <2> QED BY <1>1, <1>3, <2>1, <2>2 DEF HandlerInv
<1> QED BY <1>4, <1>5, <1>6, <1>7 DEF WriterInv

LEMMA PutStep ==
    ASSUME WriterInv, NEW h \in Handlers, Put(h)
    PROVE  WriterInv'
<1>1. /\ pc[h] = "put" /\ buf' = [buf EXCEPT ![h] = {}]
      /\ job' = [job EXCEPT ![h] = NoResponse] /\ pc' = [pc EXCEPT ![h] = "idle"]
      /\ UNCHANGED <<todo, size, given, final, data, out, refused>>
  BY DEF Put
<1>2. TypeOK
  BY DEF WriterInv
<1>3. TypeOK'
  BY <1>1, <1>2 DEF TypeOK
<1>4. /\ pc'[h] = "idle" /\ job'[h] = NoResponse /\ buf'[h] = {}
      /\ \A g \in Handlers \ {h} : pc'[g] = pc[g] /\ job'[g] = job[g] /\ buf'[g] = buf[g]
  BY <1>1, <1>2 DEF TypeOK
<1>5. Exclusive'
  BY <1>4 DEF WriterInv, Exclusive
<1>6. \A g \in Handlers \ {h} : HandlerInv(g)'
  BY <1>1, <1>4, SameHandler DEF WriterInv
<1>7. HandlerInv(h)'
  BY <1>4 DEF HandlerInv
<1>8. \A r \in Responses : ResponseInv(r)'
  BY <1>1, SameResponse DEF WriterInv
<1> QED BY <1>3, <1>5, <1>6, <1>7, <1>8 DEF WriterInv

(* The last message of a handler, if NATS takes it.                        *)
LEMMA LastStep ==
    ASSUME WriterInv, NEW h \in Handlers, FinalWrite(h) \/ WriteError(h)
    PROVE  WriterInv'
<1>1. PICK b \in Buffers : buf[h] = {b}
  BY OwnJob DEF FinalWrite, WriteError
<1>2. PICK r \in Responses \ todo : r = job[h]
  BY OwnJob DEF FinalWrite, WriteError
<1> DEFINE o == out[r]
           n == size[r]
           e == EndOf(o)
<1>3. /\ TypeOK /\ HandlerInv(h) /\ ResponseInv(r) /\ r # NoResponse
      /\ o \in Seq(Msg) /\ n \in 1..MaxBytes /\ out \in [Responses -> Seq(Msg)]
      /\ Ordered(o, r, n) /\ Open(o)
  BY <1>2 DEF WriterInv, TypeOK, Msg, ResponseInv, HandlerInv, FinalWrite, WriteError
<1>4. e \in 0..MaxBytes
  BY <1>3, EndType
<1>5. \E k \in Nat, d \in {"ok", "err"} :
        /\ e + k <= n
        /\ d = "ok" => e + k = n
        /\ \/ /\ out' = [out EXCEPT ![r] =
                           Append(o, [bytes |-> Piece(r, e, k), done |-> d])]
              /\ UNCHANGED refused
           \/ refused' = [refused EXCEPT ![r] = TRUE] /\ UNCHANGED out
  <2>1. CASE FinalWrite(h)
    <3>1. /\ pc[h] = "written" /\ final[h] /\ given[r] = n
          /\ e <= n /\ data[b] = Piece(r, e, n - e)
      BY <1>1, <1>2, <1>3, <2>1 DEF FinalWrite, HandlerInv
    <3>2. \/ /\ out' = [out EXCEPT ![r] =
                          Append(@, [bytes |-> data[b], done |-> "ok"])]
             /\ UNCHANGED refused
          \/ refused' = [refused EXCEPT ![r] = TRUE] /\ UNCHANGED out
      BY <1>1, <1>2, <2>1, <3>1 DEF FinalWrite, Message, Done
    <3> HIDE DEF e, n
    <3>3. n - e \in Nat /\ e + (n - e) = n /\ n <= n
      BY <1>3, <1>4, <3>1
    <3> QED BY <3>1, <3>2, <3>3 DEF o
  <2>2. CASE WriteError(h)
    <3>1. \/ /\ out' = [out EXCEPT ![r] = Append(@, [bytes |-> <<>>, done |-> "err"])]
             /\ UNCHANGED refused
          \/ refused' = [refused EXCEPT ![r] = TRUE] /\ UNCHANGED out
      BY <1>2, <2>2 DEF WriteError, ErrorDone
    <3>2. Piece(r, e, 0) = <<>>
      BY <1>4, EmptyPiece
    <3>3. e <= n
      BY <1>2, <1>3, EndBound
    <3> QED BY <1>4, <3>1, <3>2, <3>3
  <2> QED BY <2>1, <2>2
<1>6. /\ pc' = [pc EXCEPT ![h] = "put"]
      /\ final' = final \/ final' = [final EXCEPT ![h] = TRUE]
      /\ data' = data \/ data' = [data EXCEPT ![b] = <<>>]
      /\ UNCHANGED <<todo, job, size, given, buf>>
  BY <1>1 DEF FinalWrite, WriteError
<1>7. \/ \E s : out' = [out EXCEPT ![r] = s] /\ Told(s, r, n) /\ UNCHANGED refused
      \/ refused' = [refused EXCEPT ![r] = TRUE] /\ UNCHANGED out
  <2>1. PICK k \in Nat, d \in {"more", "ok", "err"} :
        /\ d # "more"
        /\ e + k <= n
        /\ d = "ok" => e + k = n
        /\ \/ /\ out' = [out EXCEPT ![r] =
                           Append(o, [bytes |-> Piece(r, e, k), done |-> d])]
              /\ UNCHANGED refused
           \/ refused' = [refused EXCEPT ![r] = TRUE] /\ UNCHANGED out
    BY <1>5
  <2>2. e \in Nat /\ e = EndOf(o)
    BY <1>4
  <2> HIDE DEF o, n, e
  <2>3. Told(Append(o, [bytes |-> Piece(r, e, k), done |-> d]), r, n)
    BY <1>2, <1>3, <2>1, <2>2, AppendLast
  <2> QED BY <2>1, <2>3
<1>8. /\ \A g \in Handlers \ {h} : pc'[g] = pc[g] /\ final'[g] = final[g]
      /\ pc'[h] = "put"
  BY <1>3, <1>6 DEF TypeOK
<1>9. \A c \in Buffers \ {b} : data'[c] = data[c]
  BY <1>3, <1>6 DEF TypeOK
<1> HIDE DEF n, e
<1>10. /\ \A q \in Responses \ {r} :
             given'[q] = given[q] /\ out'[q] = out[q] /\ refused'[q] = refused[q]
       /\ Ordered(out'[r], r, n)
       /\ out' \in [Responses -> Seq(Msg)] /\ refused' \in [Responses -> BOOLEAN]
       /\ \/ refused'[r]
          \/ out'[r] # <<>> /\ Last(out'[r]).done # "more"
  <2>1. refused \in [Responses -> BOOLEAN]
    BY <1>3 DEF TypeOK
  <2>2. CASE \E s : out' = [out EXCEPT ![r] = s] /\ Told(s, r, n) /\ UNCHANGED refused
    BY <1>3, <1>6, <2>1, <2>2 DEF Told
  <2>3. CASE refused' = [refused EXCEPT ![r] = TRUE] /\ UNCHANGED out
    <3>1. out' = out /\ refused' \in [Responses -> BOOLEAN] /\ refused'[r]
      BY <1>2, <2>1, <2>3
    <3>2. \A q \in Responses \ {r} :
             given'[q] = given[q] /\ out'[q] = out[q] /\ refused'[q] = refused[q]
      BY <1>6, <2>1, <2>3
    <3> QED BY <1>3, <3>1, <3>2
  <2> QED BY <1>7, <2>2, <2>3
<1>11. /\ Exclusive'
       /\ \A g \in Handlers \ {h} : HandlerInv(g)'
       /\ \A q \in Responses \ {r} : ResponseInv(q)'
  <2>1. pc[h] # "idle" /\ b \in buf[h]
    BY <1>1 DEF FinalWrite, WriteError
  <2> QED BY <1>2, <1>6, <1>8, <1>9, <1>10, <2>1, OneHandler
<1>12. ResponseInv(r)'
  BY <1>2, <1>3, <1>6, <1>10 DEF ResponseInv, n
<1>13. HandlerInv(h)'
  <2>1. /\ job'[h] = r /\ buf'[h] = {b} /\ todo' = todo
    BY <1>1, <1>2, <1>6
  <2> QED BY <1>1, <1>2, <1>3, <1>8, <1>10, <2>1 DEF HandlerInv
<1>14. TypeOK'
  <2>1. <<>> \in Seq(Byte) /\ Len(<<>>) <= BufferSize
    OBVIOUS
  <2>2. data' \in [Buffers -> Seq(Byte)]
    BY <1>3, <1>6, <2>1 DEF TypeOK
  <2>3. \A c \in Buffers : Len(data'[c]) <= BufferSize
    BY <1>3, <1>6, <2>1 DEF TypeOK
  <2>4. /\ pc' \in [Handlers -> {"idle", "writing", "written", "failed", "put"}]
        /\ final' \in [Handlers -> BOOLEAN]
    BY <1>3, <1>6 DEF TypeOK
  <2> QED BY <1>3, <1>6, <1>10, <2>2, <2>3, <2>4 DEF TypeOK, Msg
<1> QED BY <1>11, <1>12, <1>13, <1>14 DEF WriterInv


LEMMA StepWriterInv == WriterInv /\ [Next]_vars => WriterInv'
<1> SUFFICES ASSUME WriterInv, [Next]_vars
             PROVE  WriterInv'
  OBVIOUS
<1>1. ASSUME NEW h \in Handlers, Get(h)
      PROVE  WriterInv'
  BY <1>1, GetStep
<1>2. ASSUME NEW h \in Handlers, Write(h)
      PROVE  WriterInv'
  BY <1>2, WriteStep
<1>3. ASSUME NEW h \in Handlers, ReadFrom(h)
      PROVE  WriterInv'
  BY <1>3, ReadStep
<1>4. ASSUME NEW h \in Handlers, ReadFromEOF(h)
      PROVE  WriterInv'
  BY <1>4, EOFStep
<1>5. ASSUME NEW h \in Handlers, EndWrite(h) \/ BodyFails(h)
      PROVE  WriterInv'
  BY <1>5, EndStep
<1>6. ASSUME NEW h \in Handlers, FinalWrite(h) \/ WriteError(h)
      PROVE  WriterInv'
  BY <1>6, LastStep
<1>7. ASSUME NEW h \in Handlers, Put(h)
      PROVE  WriterInv'
  BY <1>7, PutStep
<1>8. ASSUME UNCHANGED vars
      PROVE  WriterInv'
  <2>1. UNCHANGED <<todo, job, pc, size, given, final, buf, data, out, refused>>
    BY <1>8 DEF vars
  <2>2. TypeOK' /\ Exclusive'
    BY <2>1 DEF WriterInv, TypeOK, Exclusive
  <2>3. ASSUME NEW h \in Handlers
        PROVE  HandlerInv(h)'
    BY <2>1, SameHandler DEF WriterInv
  <2>4. ASSUME NEW r \in Responses
        PROVE  ResponseInv(r)'
    BY <2>1, SameResponse DEF WriterInv
  <2> QED BY <2>2, <2>3, <2>4 DEF WriterInv
<1> QED BY <1>1, <1>2, <1>3, <1>4, <1>5, <1>6, <1>7, <1>8 DEF Next

LEMMA WriterInvariant == Spec => []WriterInv
<1> QED BY InitWriterInv, StepWriterInv, PTL DEF Spec

-----------------------------------------------------------------------------
(* The theorems.                                                           *)

LEMMA MessagesOrdered ==
    ASSUME WriterInv, NEW r \in Responses
    PROVE  Ordered(out[r], r, size[r]) /\ DOMAIN out[r] = 1..Len(out[r])
BY DEF WriterInv, ResponseInv, TypeOK

(* Buffers keep to their size and messages are sequences of bytes: what    *)
(* bufio and natsWriter.Write (run.go) are handed.                         *)
THEOREM WriterTyped == Spec => []TypeOK
<1>1. WriterInv => TypeOK
  BY DEF WriterInv
<1> QED BY <1>1, WriterInvariant, PTL

(* The messages of a response hold its own bytes, in order and without a   *)
(* gap, however many handlers share the pool of writers: run.go resets a   *)
(* writer before it uses it.                                               *)
THEOREM MessagesHoldOwnBytes == Spec => []OwnBytes
<1>1. WriterInv => OwnBytes
  BY MessagesOrdered DEF OwnBytes, Ordered
<1> QED BY <1>1, WriterInvariant, PTL

(* The message with Done is the only one and the last, and only it can be  *)
(* empty: natsWriter.final is set once, before the last write.             *)
THEOREM DoneEndsResponse == Spec => []DoneOnceAndLast
<1>1. WriterInv => DoneOnceAndLast
  BY MessagesOrdered DEF DoneOnceAndLast, Ordered
<1> QED BY <1>1, WriterInvariant, PTL

(* After a Done without an error the whole response has been published,    *)
(* also when the last flush left nothing for the final one.                *)
THEOREM DoneOkAfterAllBytes == Spec => []DoneOkIsWhole
<1>1. WriterInv => DoneOkIsWhole
  BY MessagesOrdered DEF DoneOkIsWhole, Ordered
<1> QED BY <1>1, WriterInvariant, PTL

(* The handler of addSubscribers does not return before it has published a *)
(* message with Done, unless NATS refused one.                             *)
THEOREM HandlersAnnounceTheEnd == Spec => []EndIsAnnounced
<1>1. WriterInv => EndIsAnnounced
  <2> SUFFICES ASSUME WriterInv, NEW h \in Handlers, pc[h] = "put", ~refused[job[h]]
               PROVE  out[job[h]] # <<>> /\ Last(out[job[h]]).done # "more"
    BY DEF EndIsAnnounced
  <2> QED BY DEF WriterInv, HandlerInv
<1> QED BY <1>1, WriterInvariant, PTL
=============================================================================
