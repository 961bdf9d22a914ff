--------------------------- MODULE ResponseWriter --------------------------
(***************************************************************************)
(* How the edge turns an HTTP response into NATS messages (pkg/cmds/run.go,*)
(* the handler of addSubscribers): resp.Write writes through a bufio.Writer*)
(* drawn from a process-wide pool to a natsWriter, each of whose writes is *)
(* one message; then the handler flushes, or sends an empty message, or    *)
(* sends the error.  Several handlers run at once and share the pool.      *)
(*                                                                         *)
(* A byte is the response it belongs to and its position.  NatsProxy       *)
(* counts in flushes; this module is where flushes come from.              *)
(***************************************************************************)
EXTENDS Naturals, Sequences, SequencesExt, FiniteSets

CONSTANTS
    Handlers,     \* members of the queue group, one request each at a time
    Responses,    \* responses written in the lifetime of the process
    Buffers,      \* bound: bufio.Writers the pool can make
    BufferSize,   \* 8 KB
    MaxBytes,     \* bound: bytes of a response
    MaxWrite,     \* bound: bytes of one Write: chunked bodies write up to 32 KB
    NoResponse

ASSUME SizesAssumption ==
    /\ BufferSize \in Nat \ {0}
    /\ MaxBytes \in Nat \ {0}
    /\ MaxWrite \in Nat \ {0}
    /\ NoResponse \notin Responses

Byte == Responses \X (1..MaxBytes)

VARIABLES
    todo,      \* responses nobody has written yet
    job,       \* per handler: the response it writes
    pc,        \* per handler: how far it is
    size,      \* per response: its length in bytes
    given,     \* per response: bytes resp.Write has passed to the writer
    final,     \* per handler: natsWriter.final
    buf,       \* per handler: the bufio.Writer it holds, a set of at most one
    data,      \* per bufio.Writer: buffered bytes
    out,       \* per response: the messages published
    refused    \* per response: PublishMsg failed (history)

vars == <<todo, job, pc, size, given, final, buf, data, out, refused>>

TypeOK ==
    /\ todo \subseteq Responses
    /\ job \in [Handlers -> Responses \cup {NoResponse}]
    /\ pc \in [Handlers -> {"idle", "writing", "written", "failed", "put"}]
    /\ size \in [Responses -> 1..MaxBytes]
    /\ given \in [Responses -> 0..MaxBytes]
    /\ final \in [Handlers -> BOOLEAN]
    /\ buf \in [Handlers -> SUBSET Buffers]
    /\ data \in [Buffers -> Seq(Byte)]
    /\ \A b \in Buffers : Len(data[b]) <= BufferSize
    /\ out \in [Responses -> Seq([bytes : Seq(Byte), done : {"more", "ok", "err"}])]
    /\ refused \in [Responses -> BOOLEAN]

Init ==
    /\ todo = Responses
    /\ job = [h \in Handlers |-> NoResponse]
    /\ pc = [h \in Handlers |-> "idle"]
    /\ size \in [Responses -> 1..MaxBytes]
    /\ given = [r \in Responses |-> 0]
    /\ final = [h \in Handlers |-> FALSE]
    /\ buf = [h \in Handlers |-> {}]
    /\ data = [b \in Buffers |-> <<>>]
    /\ out = [r \in Responses |-> <<>>]
    /\ refused = [r \in Responses |-> FALSE]

InUse == UNION {buf[h] : h \in Handlers}

-----------------------------------------------------------------------------
(* w.Reset(ncw) drops what an earlier response left behind.                *)
Reset_Missing(b) == UNCHANGED data
Reset(b) == data' = [data EXCEPT ![b] = <<>>]

(* pool.Get: a writer nobody holds, used before or new.                    *)
Get(h) ==
    /\ pc[h] = "idle"
    /\ \E r \in todo :
         /\ todo' = todo \ {r}
         /\ job' = [job EXCEPT ![h] = r]
    /\ \E b \in Buffers \ InUse :
         /\ buf' = [buf EXCEPT ![h] = {b}]
         /\ Reset(b)
    /\ final' = [final EXCEPT ![h] = FALSE]
    /\ pc' = [pc EXCEPT ![h] = "writing"]
    /\ UNCHANGED <<size, given, out, refused>>

(* natsWriter.Write: one message, with a Done header once final is set.    *)
Done_Always(h)  == "ok"
Done(h)         == IF final[h] THEN "ok" ELSE "more"
Message(h, b)   == [bytes |-> b, done |-> Done(h)]
Remaining(r)    == size[r] - given[r]
Piece(r, from, k) == [i \in 1..k |-> <<r, from + i>>]
NextBytes(r, k) == Piece(r, given[r], k)

(* bufio.Writer.Write of bytes p with old already buffered: what is        *)
(* flushed, in order, and what stays.  A full buffer is flushed only when  *)
(* there is more; a write larger than an empty buffer goes through whole.  *)
Flushes_OffByOne(old, p) ==
    LET avail == BufferSize - Len(old)
    IN  IF Len(p) <= avail + 1 THEN [sent |-> <<>>, kept |-> old \o p]
        ELSE [sent |-> <<old \o p>>, kept |-> <<>>]

Flushes(old, p) ==
    LET avail == BufferSize - Len(old)
        rest  == SubSeq(p, avail + 1, Len(p))
    IN  IF Len(p) <= avail THEN [sent |-> <<>>, kept |-> old \o p]
        ELSE IF old = <<>> THEN [sent |-> <<p>>, kept |-> <<>>]
        ELSE IF Len(rest) > BufferSize
             THEN [sent |-> <<old \o SubSeq(p, 1, avail), rest>>, kept |-> <<>>]
             ELSE [sent |-> <<old \o SubSeq(p, 1, avail)>>, kept |-> rest]

(* The writer passes bytes on, with messages m; the n-th of them may be    *)
(* the first that PublishMsg refuses.  natsWriter.Write claims to have     *)
(* written it all the same, so bufio drops what it was flushing, and keeps *)
(* the error for every later call.                                         *)
Publish(h, b, r, m, kept) ==
    \/ /\ out' = [out EXCEPT ![r] = @ \o [i \in DOMAIN m |-> Message(h, m[i])]]
       /\ data' = [data EXCEPT ![b] = kept]
       /\ UNCHANGED <<pc, refused>>
    \/ /\ \E n \in DOMAIN m :
            out' = [out EXCEPT ![r] = @ \o [i \in 1..(n - 1) |-> Message(h, m[i])]]
       /\ data' = [data EXCEPT ![b] = <<>>]
       /\ refused' = [refused EXCEPT ![r] = TRUE]
       /\ pc' = [pc EXCEPT ![h] = "failed"]

(* One Write of resp.Write: head lines, or a piece of a chunked body.      *)
Write(h) ==
    /\ pc[h] = "writing"
    /\ \E b \in buf[h], k \in 1..MaxWrite :
         LET r == job[h]
             f == Flushes(data[b], NextBytes(r, k))
         IN  /\ k <= Remaining(r)
             /\ given' = [given EXCEPT ![r] = @ + k]
             /\ Publish(h, b, r, f.sent, f.kept)
    /\ UNCHANGED <<todo, job, size, final, buf>>

(* One turn of bufio.Writer.ReadFrom, which io.Copy uses for a body that   *)
(* is not chunked: a full buffer is flushed, then bytes are read into the  *)
(* free space.                                                             *)
ReadFrom(h) ==
    /\ pc[h] = "writing"
    /\ \E b \in buf[h], k \in 1..BufferSize :
         LET r    == job[h]
             full == Len(data[b]) = BufferSize
             old  == IF full THEN <<>> ELSE data[b]
         IN  /\ k <= Remaining(r)
             /\ Len(old) + k <= BufferSize
             /\ given' = [given EXCEPT ![r] = @ + k]
             /\ Publish(h, b, r, IF full THEN <<data[b]>> ELSE <<>>,
                        old \o NextBytes(r, k))
    /\ UNCHANGED <<todo, job, size, final, buf>>

(* ReadFrom meets the end of the body: a buffer that is exactly full is    *)
(* flushed at once, which leaves nothing for the final flush.              *)
ReadFromEOF(h) ==
    /\ pc[h] = "writing"
    /\ Remaining(job[h]) = 0
    /\ \E b \in buf[h] :
         /\ Len(data[b]) = BufferSize
         /\ Publish(h, b, job[h], <<data[b]>>, <<>>)
    /\ UNCHANGED <<todo, job, size, given, final, buf>>

(* resp.Write returns, and the handler sets ncw.final.                     *)
EndWrite(h) ==
    /\ pc[h] = "writing"
    /\ Remaining(job[h]) = 0
    /\ final' = [final EXCEPT ![h] = TRUE]
    /\ pc' = [pc EXCEPT ![h] = "written"]
    /\ UNCHANGED <<todo, job, size, given, buf, data, out, refused>>

(* Reading the body fails: it is short, or http.Client.Timeout expires.    *)
BodyFails(h) ==
    /\ pc[h] = "writing"
    /\ pc' = [pc EXCEPT ![h] = "failed"]
    /\ UNCHANGED <<todo, job, size, given, final, buf, data, out, refused>>

(* w.Flush, or ncw.Write(nil) when nothing is buffered.  A publish that    *)
(* fails is only logged.                                                   *)
FinalWrite_OnlyIfBuffered(h) ==
    /\ pc[h] = "written"
    /\ \E b \in buf[h] :
         /\ out' = IF data[b] = <<>> THEN out
                   ELSE [out EXCEPT ![job[h]] = Append(@, Message(h, data[b]))]
         /\ data' = [data EXCEPT ![b] = <<>>]
    /\ pc' = [pc EXCEPT ![h] = "put"]
    /\ UNCHANGED <<todo, job, size, given, final, buf, refused>>

FinalWrite(h) ==
    /\ pc[h] = "written"
    /\ \E b \in buf[h] :
         /\ \/ /\ out' = [out EXCEPT ![job[h]] = Append(@, Message(h, data[b]))]
               /\ UNCHANGED refused
            \/ /\ refused' = [refused EXCEPT ![job[h]] = TRUE]
               /\ UNCHANGED out
         /\ data' = [data EXCEPT ![b] = <<>>]
    /\ pc' = [pc EXCEPT ![h] = "put"]
    /\ UNCHANGED <<todo, job, size, given, final, buf>>

(* ncw.WriteError: the error goes into the Done header; what is buffered   *)
(* stays in the writer.                                                    *)
ErrorDone_Empty == "ok"
ErrorDone == "err"

WriteError(h) ==
    /\ pc[h] = "failed"
    /\ \/ /\ out' = [out EXCEPT ![job[h]] =
                        Append(@, [bytes |-> <<>>, done |-> ErrorDone])]
          /\ UNCHANGED refused
       \/ /\ refused' = [refused EXCEPT ![job[h]] = TRUE]
          /\ UNCHANGED out
    /\ final' = [final EXCEPT ![h] = TRUE]
    /\ pc' = [pc EXCEPT ![h] = "put"]
    /\ UNCHANGED <<todo, job, size, given, buf, data>>

(* The deferred pool.Put; the member is free for the next request.         *)
Put(h) ==
    /\ pc[h] = "put"
    /\ buf' = [buf EXCEPT ![h] = {}]
    /\ job' = [job EXCEPT ![h] = NoResponse]
    /\ pc' = [pc EXCEPT ![h] = "idle"]
    /\ UNCHANGED <<todo, size, given, final, data, out, refused>>

Next ==
    \E h \in Handlers :
        \/ Get(h) \/ Write(h) \/ ReadFrom(h) \/ ReadFromEOF(h) \/ EndWrite(h)
        \/ BodyFails(h) \/ FinalWrite(h) \/ WriteError(h) \/ Put(h)

Spec == Init /\ [][Next]_vars

-----------------------------------------------------------------------------
(* Properties.                                                             *)

(* How far the messages of a response had come before the i-th.            *)
Before(o, i) == IF i = 1 THEN 0 ELSE Last(o[i - 1].bytes)[2]

(* The messages of a response hold its bytes in order, from the first one  *)
(* on: each goes on where the one before it ended, without a gap, and with *)
(* no byte an earlier response left in a pooled writer (run.go, w.Reset).  *)
OwnBytes ==
    \A r \in Responses : \A i \in DOMAIN out[r] :
        LET bytes == out[r][i].bytes
            from  == Before(out[r], i)
        IN  bytes # <<>> => /\ bytes = Piece(r, from, Len(bytes))
                            /\ from + Len(bytes) <= size[r]

(* Done is on one message at most, which is the last; and a message without*)
(* data is sent for the sake of Done only.                                 *)
DoneOnceAndLast ==
    \A r \in Responses : \A i \in DOMAIN out[r] :
        /\ out[r][i].done # "more" => i = Len(out[r])
        /\ out[r][i].bytes = <<>> => out[r][i].done # "more"

(* A Done header without an error means that the last byte, and with       *)
(* OwnBytes every byte, has been published.                                *)
DoneOkIsWhole ==
    \A r \in Responses : \A i \in DOMAIN out[r] :
        out[r][i].done = "ok" =>
            \E j \in 1..i :
                out[r][j].bytes # <<>> /\ Last(out[r][j].bytes) = <<r, size[r]>>

(* A handler that returns has told the hub so, unless NATS refused one of  *)
(* its messages: also when the last flush left the buffer empty.           *)
EndIsAnnounced ==
    \A h \in Handlers :
        pc[h] = "put" /\ ~refused[job[h]]
            => out[job[h]] # <<>> /\ Last(out[job[h]]).done # "more"
=============================================================================
