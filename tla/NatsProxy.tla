----------------------------- MODULE NatsProxy -----------------------------
(***************************************************************************)
(* The request path of the cluster connector: an HTTP round trip carried   *)
(* over NATS.                                                              *)
(*                                                                         *)
(* Hub side (pkg/transport/nats.go): NatsTransport.RoundTrip calls Proxy,  *)
(* which subscribes to a fresh response subject, publishes the request,    *)
(* starts a receiver goroutine that copies messages from the subscription  *)
(* into an io.Pipe, and reads an HTTP response from the other end of the   *)
(* pipe.  The caller then reads the body from that pipe.                   *)
(*                                                                         *)
(* Edge side (pkg/cmds/run.go): every pod registers Threads members of one *)
(* queue group.  A member handles one request at a time: it performs the   *)
(* HTTP call and writes the response through an 8 KB bufio.Writer, each    *)
(* flush of which is one NATS message; the last message has a Done header. *)
(*                                                                         *)
(* Between them is core NATS: ordered per publisher and subscription,      *)
(* at-most-once.  Messages may be lost; they are never duplicated.         *)
(*                                                                         *)
(* Data abstraction: the bytes of a response are its 8 KB flushes,         *)
(* numbered 1..total; the response head is in the first of them.           *)
(***************************************************************************)
EXTENDS Naturals, Sequences

CONSTANTS
    Calls,        \* round trips; each one draws a fresh xid for its subject
    Pods,         \* connector processes that serve the link
    Threads,      \* --nats-handler-count: queue group members per pod
    MaxChunks,    \* bound: most flushes a response is made of
    PendingMsgs,  \* capacity of a sync subscription's channel
    PendingBytes, \* byte limit of a subscription, in flushes
    NoRespondersReachHub, \* the reply subject is the subscribed one
    Kinds,        \* which of Framings the API server's responses have
    Faults,       \* which of FaultKinds may happen
    NoCall        \* not a call

FaultKinds == {"lose", "crash", "hubPublish", "hubClose", "edgePublish"}

(* How the reader finds the end of the body, and what closing it early     *)
(* does.  "length": Content-Length on a kept-alive response, Close reads   *)
(* the rest.  "closing": Content-Length with Connection: close.            *)
(* "chunked": Transfer-Encoding, the body ends at the zero chunk, which is *)
(* in the last flush; Close reads the rest.  "stream": none of these       *)
(* (HTTP/2 or gunzipped responses of unknown size), the body ends where    *)
(* the pipe does.                                                          *)
Framings   == {"length", "closing", "chunked", "stream"}
Delimited  == {"length", "closing"}
Terminated == {"chunked"}

ASSUME CallsAssumption == NoCall \notin Calls
ASSUME BoundsAssumption ==
    /\ Threads \in Nat
    /\ MaxChunks \in Nat \ {0}
    /\ PendingMsgs \in Nat \ {0}
    /\ PendingBytes \in Nat \ {0}
ASSUME FaultsAssumption ==
    /\ NoRespondersReachHub \in BOOLEAN
    /\ Faults \subseteq FaultKinds
    /\ Kinds \subseteq Framings

Workers == Pods \X (1..Threads)
PodOf(w) == w[1]

(* A message on a response subject: its ordinal in the response, whether   *)
(* it carries data, and its Done header ("more" when there is none).       *)
Message ==
    [n : 1..(MaxChunks + 1), data : BOOLEAN,
     done : {"more", "ok", "err", "noResponders"}]

NoMessage == [n |-> 1, data |-> FALSE, done |-> "more"]

VARIABLES
    caller,   \* per call: where RoundTrip, or the user of its response, is
    sub,      \* per call: the hub's subscription to the response subject
    rcv,      \* per call: program counter of the receiver goroutine
    cur,      \* per call: the message the receiver is writing to the pipe
    pipe,     \* per call: how the write end of the pipe was closed
    mch,      \* per call: the subscription's channel
    sc,       \* per call: the subscription's slow-consumer flag
    got,      \* per call: the chunks the caller has read, in order
    connected, \* the hub's connection has not been closed for good
    reqs,     \* requests published and not yet routed by the server
    net,      \* per call: response messages on their way to the hub
    up,       \* per pod: the process is running and subscribed
    pend,     \* per worker: requests queued on its subscription
    job,      \* per worker: the request being handled
    total,    \* per call: chunks of the response, 0 until respond returns
    framing,  \* per call: framing of the response
    sent,     \* per call: chunks published so far
    lost      \* per call: a message of the response was dropped (history)

hubVars  == <<caller, sub, rcv, cur, pipe, mch, sc, got, connected>>
edgeVars == <<up, pend, job, total, framing, sent>>
vars     == <<hubVars, edgeVars, reqs, net, lost>>

CallerStates ==
    {"idle", "subscribed", "header", "body", "draining", "ok", "err", "closed"}
RcvStates ==
    {"none", "check", "pop", "write", "closeOk", "closeErr", "closing",
     "exited"}

TypeOK ==
    /\ caller  \in [Calls -> CallerStates]
    /\ sub     \in [Calls -> {"none", "live", "gone"}]
    /\ rcv     \in [Calls -> RcvStates]
    /\ cur     \in [Calls -> Message]
    /\ pipe    \in [Calls -> {"open", "eof", "err"}]
    /\ mch     \in [Calls -> Seq(Message)]
    /\ sc      \in [Calls -> BOOLEAN]
    /\ got     \in [Calls -> Seq(1..(MaxChunks + 1))]
    /\ connected \in BOOLEAN
    /\ reqs    \in SUBSET Calls
    /\ net     \in [Calls -> Seq(Message)]
    /\ up      \in [Pods -> BOOLEAN]
    /\ pend    \in [Workers -> Seq(Calls)]
    /\ job     \in [Workers -> Calls \cup {NoCall}]
    /\ total   \in [Calls -> 0..MaxChunks]
    /\ framing \in [Calls -> Framings]
    /\ sent    \in [Calls -> 0..MaxChunks]
    /\ lost    \in [Calls -> BOOLEAN]

Init ==
    /\ caller  = [c \in Calls |-> "idle"]
    /\ sub     = [c \in Calls |-> "none"]
    /\ rcv     = [c \in Calls |-> "none"]
    /\ cur     = [c \in Calls |-> NoMessage]
    /\ pipe    = [c \in Calls |-> "open"]
    /\ mch     = [c \in Calls |-> <<>>]
    /\ sc      = [c \in Calls |-> FALSE]
    /\ got     = [c \in Calls |-> <<>>]
    /\ connected = TRUE
    /\ reqs    = {}
    /\ net     = [c \in Calls |-> <<>>]
    /\ up      = [p \in Pods |-> TRUE]
    /\ pend    = [w \in Workers |-> <<>>]
    /\ job     = [w \in Workers |-> NoCall]
    /\ total   = [c \in Calls |-> 0]
    /\ framing = [c \in Calls |-> "length"]
    /\ sent    = [c \in Calls |-> 0]
    /\ lost    = [c \in Calls |-> FALSE]

-----------------------------------------------------------------------------
(* Hub: the goroutine that calls RoundTrip.                                *)

(* nc.SubscribeSync(hubRespSub).                                           *)
Subscribe(c) ==
    /\ connected
    /\ caller[c] = "idle"
    /\ caller' = [caller EXCEPT ![c] = "subscribed"]
    /\ sub' = [sub EXCEPT ![c] = "live"]
    /\ UNCHANGED <<rcv, cur, pipe, mch, sc, got, reqs, net, edgeVars, lost,
                   connected>>

(* RoundTrip or Proxy returns before there is a subscription: WriteProxy,  *)
(* Encode or SubscribeSync failed, the latter on a closed connection.      *)
RoundTripFails(c) ==
    /\ "hubPublish" \in Faults \/ ~connected
    /\ caller[c] = "idle"
    /\ caller' = [caller EXCEPT ![c] = "err"]
    /\ UNCHANGED <<sub, rcv, cur, pipe, mch, sc, got, reqs, net, edgeVars, lost,
                   connected>>

(* nc.PublishRequest succeeds: the receiver goroutine is started and the   *)
(* caller blocks in http.ReadResponse.                                     *)
Publish(c) ==
    /\ connected
    /\ caller[c] = "subscribed"
    /\ caller' = [caller EXCEPT ![c] = "header"]
    /\ reqs' = reqs \cup {c}
    /\ rcv' = [rcv EXCEPT ![c] = "check"]
    /\ UNCHANGED <<sub, cur, pipe, mch, sc, got, net, edgeVars, lost,
                   connected>>

(* nc.PublishRequest fails (payload over the server's limit, connection    *)
(* closed or draining, reconnect buffer full): Proxy returns the error and *)
(* nothing else is done.                                                   *)
PublishFails(c) ==
    /\ "hubPublish" \in Faults \/ ~connected
    /\ caller[c] = "subscribed"
    /\ caller' = [caller EXCEPT ![c] = "err"]
    /\ UNCHANGED <<sub, rcv, cur, pipe, mch, sc, got, reqs, net, edgeVars, lost,
                   connected>>

-----------------------------------------------------------------------------
(* Hub: the receiver goroutine.  NextMsg checks the slow-consumer flag     *)
(* before it looks at the channel, in two separate critical sections.      *)

(* validateNextMsgState: a closed connection is an error, and so is a      *)
(* raised flag, which is cleared; both end the loop.                       *)
NextMsgCheck(c) ==
    /\ rcv[c] = "check"
    /\ IF connected
       THEN /\ rcv' = [rcv EXCEPT ![c] = IF sc[c] THEN "closeErr" ELSE "pop"]
            /\ sc' = [sc EXCEPT ![c] = FALSE]
       ELSE /\ rcv' = [rcv EXCEPT ![c] = "closeErr"]
            /\ UNCHANGED sc
    /\ UNCHANGED <<caller, sub, cur, pipe, mch, got, reqs, net, edgeVars, lost,
                   connected>>

(* processNextMsgDelivered: the status of the server is an error.          *)
IsStatus_Missed(m) == FALSE
IsStatus(m) == m.done = "noResponders"

(* A message is taken from the channel.  A no-responders status is an      *)
(* error; any other message goes to w.Write.                               *)
NextMsgPop(c) ==
    /\ rcv[c] = "pop"
    /\ mch[c] # <<>>
    /\ mch' = [mch EXCEPT ![c] = Tail(@)]
    /\ IF IsStatus(Head(mch[c]))
       THEN /\ rcv' = [rcv EXCEPT ![c] = "closeErr"]
            /\ UNCHANGED cur
       ELSE /\ rcv' = [rcv EXCEPT ![c] = "write"]
            /\ cur' = [cur EXCEPT ![c] = Head(mch[c])]
    /\ UNCHANGED <<caller, sub, pipe, sc, got, reqs, net, edgeVars, lost,
                   connected>>

(* The timer fires first: ErrTimeout is ignored and the loop goes round.   *)
NextMsgTimeout(c) ==
    /\ rcv[c] = "pop"
    /\ mch[c] = <<>>
    /\ rcv' = [rcv EXCEPT ![c] = "check"]
    /\ UNCHANGED <<caller, sub, cur, pipe, mch, sc, got, reqs, net, edgeVars, lost,
                   connected>>

(* The channel was closed by Conn.close and is used up: getNextMsgErr.     *)
NextMsgClosed(c) ==
    /\ ~connected
    /\ rcv[c] = "pop"
    /\ mch[c] = <<>>
    /\ rcv' = [rcv EXCEPT ![c] = "closeErr"]
    /\ UNCHANGED <<caller, sub, cur, pipe, mch, sc, got, reqs, net, edgeVars, lost,
                   connected>>

(* The deferred function closes the pipe, with the error if there is one.  *)
ClosePipe(c) ==
    /\ rcv[c] \in {"closeOk", "closeErr"}
    /\ pipe' = [pipe EXCEPT ![c] = IF rcv[c] = "closeErr" THEN "err" ELSE "eof"]
    /\ rcv' = [rcv EXCEPT ![c] = "closing"]
    /\ UNCHANGED <<caller, sub, cur, mch, sc, got, reqs, net, edgeVars, lost,
                   connected>>

Unsubscribe_Skipped(c) ==
    /\ rcv[c] = "closing"
    /\ rcv' = [rcv EXCEPT ![c] = "exited"]
    /\ UNCHANGED <<caller, sub, cur, pipe, mch, sc, got, reqs, net, edgeVars, lost,
                   connected>>

(* Then it unsubscribes, which the caller may outrun.  Removing the        *)
(* subscription closes its channel and makes the client discard whatever   *)
(* is still on its way.                                                    *)
Unsubscribe(c) ==
    /\ rcv[c] = "closing"
    /\ sub' = [sub EXCEPT ![c] = "gone"]
    /\ rcv' = [rcv EXCEPT ![c] = "exited"]
    /\ mch' = [mch EXCEPT ![c] = <<>>]
    /\ net' = [net EXCEPT ![c] = <<>>]
    /\ UNCHANGED <<caller, cur, pipe, sc, got, reqs, edgeVars, lost, connected>>

-----------------------------------------------------------------------------
(* Hub: http.ReadResponse and the body it returned.                        *)

Reading(c) == caller[c] \in {"header", "body", "draining"}

(* Where the caller may be once it has read the chunks g.  A head that     *)
(* does not parse (the chunk with the head was lost) is an error of        *)
(* ReadResponse.  A body with a length ends when it has its length.        *)
Onwards(c)  == IF caller[c] = "header" THEN "body" ELSE caller[c]
AtEnd(c)    == IF caller[c] = "draining" THEN "closed" ELSE "ok"
OnSyntax(c) == IF caller[c] = "draining" THEN "closed" ELSE "err"

(* A chunked body ends at the zero chunk.  Its reader does not count: a    *)
(* gap breaks the syntax somewhere behind it, or makes the reader wait for *)
(* bytes that do not come, or is not noticed, when what is missing happens *)
(* to be whole chunks of the encoding.                                     *)
Gap(g) == \E i \in 1..Len(g) : g[i] # i

AfterChunked(c, g) ==
    (IF g[Len(g)] = total[c] THEN {AtEnd(c)} ELSE {Onwards(c)})
        \cup (IF Gap(g) THEN {Onwards(c), OnSyntax(c)} ELSE {})

AfterChunk_CountsFromLast(c, g) ==
    IF g[1] # 1 THEN {"err"}
    ELSE IF framing[c] \in Terminated THEN AfterChunked(c, g)
    ELSE IF framing[c] \in Delimited /\ g[Len(g)] = total[c] THEN {AtEnd(c)}
    ELSE {Onwards(c)}

AfterChunk(c, g) ==
    IF g[1] # 1 THEN {"err"}
    ELSE IF framing[c] \in Terminated THEN AfterChunked(c, g)
    ELSE IF framing[c] \in Delimited /\ Len(g) = total[c] THEN {AtEnd(c)}
    ELSE {Onwards(c)}

(* http.ReadResponse returns once it has parsed the head, which may be     *)
(* before the first chunk is used up: its buffer holds 4096 bytes.         *)
ReadHead(c) ==
    /\ caller[c] = "header"
    /\ rcv[c] = "write"
    /\ cur[c].data
    /\ cur[c].n = 1
    /\ caller' = [caller EXCEPT ![c] = "body"]
    /\ UNCHANGED <<sub, rcv, cur, pipe, mch, sc, got, reqs, net, edgeVars, lost,
                   connected>>

(* The loop of the receiver after a write: it looks at the Done header.    *)
AfterWrite_SingleMessage(m) == IF m.done = "err" THEN "closeErr" ELSE "closeOk"
AfterWrite_ErrorIgnored(m)  == IF m.done = "more" THEN "check" ELSE "closeOk"
AfterWrite(m) ==
    CASE m.done = "ok"  -> "closeOk"
      [] m.done = "err" -> "closeErr"
      [] OTHER          -> "check"

(* One w.Write of the receiver meets reads of the caller until the data    *)
(* is used up; a write without data still needs a reader.                  *)
ReadChunk(c) ==
    /\ rcv[c] = "write"
    /\ Reading(c)
    /\ IF cur[c].data
       THEN /\ got' = [got EXCEPT ![c] = Append(@, cur[c].n)]
            /\ \E x \in AfterChunk(c, got'[c]) : caller' = [caller EXCEPT ![c] = x]
       ELSE UNCHANGED <<got, caller>>
    /\ rcv' = [rcv EXCEPT ![c] = AfterWrite(cur[c])]
    /\ UNCHANGED <<sub, cur, pipe, mch, sc, reqs, net, edgeVars, lost,
                   connected>>

(* The pipe has been closed.  A clean close is the end of a body that ends *)
(* there, and an unexpected EOF everywhere else.                           *)
ReadEnd(c) ==
    /\ Reading(c)
    /\ pipe[c] # "open"
    /\ caller' = [caller EXCEPT ![c] =
                    IF @ = "draining" THEN "closed"
                    ELSE IF @ = "body" /\ pipe[c] = "eof" /\ framing[c] = "stream"
                    THEN "ok" ELSE "err"]
    /\ UNCHANGED <<sub, rcv, cur, pipe, mch, sc, got, reqs, net, edgeVars, lost,
                   connected>>

(* The user closes the body before its end.  http's body.Close reads the   *)
(* rest of a kept-alive or chunked response and otherwise just stops       *)
(* reading; it never closes the read end of the pipe.                      *)
CloseBody(c) ==
    /\ caller[c] = "body"
    /\ caller' = [caller EXCEPT ![c] =
                    IF framing[c] \in {"length", "chunked"} THEN "draining" ELSE "closed"]
    /\ UNCHANGED <<sub, rcv, cur, pipe, mch, sc, got, reqs, net, edgeVars, lost,
                   connected>>

-----------------------------------------------------------------------------
(* NATS.                                                                   *)

RouteRequest_ToEveryMember(c, w) ==
    /\ c \in reqs
    /\ up[PodOf(w)]
    /\ ~\E i \in 1..Len(pend[w]) : pend[w][i] = c
    /\ pend' = [pend EXCEPT ![w] = Append(@, c)]
    /\ UNCHANGED <<hubVars, reqs, up, job, total, framing, sent, net, lost>>

(* The server gives a request to one member of the queue group, busy or    *)
(* not.                                                                    *)
RouteRequest(c, w) ==
    /\ c \in reqs
    /\ up[PodOf(w)]
    /\ reqs' = reqs \ {c}
    /\ pend' = [pend EXCEPT ![w] = Append(@, c)]
    /\ UNCHANGED <<hubVars, up, job, total, framing, sent, net, lost>>

(* Nobody is subscribed.  The status message goes to the reply subject,    *)
(* which with CrossAccountNames is not the subject the hub listens on.     *)
NoInterest(c) ==
    /\ c \in reqs
    /\ \A w \in Workers : ~up[PodOf(w)]
    /\ reqs' = reqs \ {c}
    /\ net' = IF NoRespondersReachHub /\ sub[c] = "live"
              THEN [net EXCEPT ![c] = Append(@,
                      [n |-> 1, data |-> FALSE, done |-> "noResponders"])]
              ELSE net
    /\ UNCHANGED <<hubVars, edgeVars, lost>>

LoseRequest(c) ==
    /\ "lose" \in Faults
    /\ c \in reqs
    /\ reqs' = reqs \ {c}
    /\ UNCHANGED <<hubVars, edgeVars, net, lost>>

Bytes(s) == Len(SelectSeq(s, LAMBDA m : m.data))

Fits(s, m) ==
    /\ Len(s) + 1 <= PendingMsgs
    /\ Bytes(s) + (IF m.data THEN 1 ELSE 0) <= PendingBytes

(* The order in which the channel hands out what was put in.               *)
Enqueue_OnTop(q, m) == <<m>> \o q
Enqueue(q, m) == Append(q, m)

(* processMsg puts a message in the channel and lowers the slow-consumer   *)
(* flag, or drops it and raises the flag.                                  *)
Deliver(c) ==
    /\ net[c] # <<>>
    /\ LET m == Head(net[c]) IN
         IF Fits(mch[c], m)
         THEN /\ mch' = [mch EXCEPT ![c] = Enqueue(@, m)]
              /\ sc' = [sc EXCEPT ![c] = FALSE]
              /\ UNCHANGED lost
         ELSE /\ sc' = [sc EXCEPT ![c] = TRUE]
              /\ lost' = [lost EXCEPT ![c] = TRUE]
              /\ UNCHANGED mch
    /\ net' = [net EXCEPT ![c] = Tail(@)]
    /\ UNCHANGED <<caller, sub, rcv, cur, pipe, got, reqs, edgeVars, connected>>

(* A response message is lost: the hub is between two connections.         *)
LoseMessage(c) ==
    /\ "lose" \in Faults
    /\ net[c] # <<>>
    /\ net' = [net EXCEPT ![c] = Tail(@)]
    /\ lost' = [lost EXCEPT ![c] = TRUE]
    /\ UNCHANGED <<hubVars, edgeVars, reqs>>

(* Conn.close: reconnecting was given up or is not allowed, or somebody    *)
(* closed the connection, which all calls share.  It closes every          *)
(* subscription; only a receiver that is inside NextMsg still has the      *)
(* channel and can take what is in it.                                     *)
CloseConn ==
    /\ "hubClose" \in Faults
    /\ connected
    /\ connected' = FALSE
    /\ sub' = [c \in Calls |-> IF sub[c] = "live" THEN "gone" ELSE sub[c]]
    /\ mch' = [c \in Calls |-> IF rcv[c] = "pop" THEN mch[c] ELSE <<>>]
    /\ net' = [c \in Calls |-> <<>>]
    /\ UNCHANGED <<caller, rcv, cur, pipe, sc, got, reqs, edgeVars, lost>>

-----------------------------------------------------------------------------
(* Edge: one member of the queue group.                                    *)

(* waitForMsgs hands the next message to the callback.                     *)
Dispatch(w) ==
    /\ up[PodOf(w)]
    /\ job[w] = NoCall
    /\ pend[w] # <<>>
    /\ job' = [job EXCEPT ![w] = Head(pend[w])]
    /\ pend' = [pend EXCEPT ![w] = Tail(@)]
    /\ UNCHANGED <<hubVars, up, total, framing, sent, reqs, net, lost>>

Responding(w) == job[w] # NoCall /\ total[job[w]] = 0
Copying(w)    == job[w] # NoCall /\ total[job[w]] # 0

(* respond returns a response from the API server.                         *)
RespondOk(w) ==
    /\ Responding(w)
    /\ \E k \in 1..MaxChunks : total' = [total EXCEPT ![job[w]] = k]
    /\ \E f \in Kinds : framing' = [framing EXCEPT ![job[w]] = f]
    /\ UNCHANGED <<hubVars, up, pend, job, sent, reqs, net, lost>>

(* respond fails (request does not parse, bad TLS data, HTTP error or      *)
(* timeout): an API status of known length, Close set, takes its place.    *)
RespondError(w) ==
    /\ Responding(w)
    /\ total' = [total EXCEPT ![job[w]] = 1]
    /\ framing' = [framing EXCEPT ![job[w]] = "closing"]
    /\ UNCHANGED <<hubVars, up, pend, job, sent, reqs, net, lost>>

(* PublishMsg to the reply subject; the server drops it when the hub has   *)
(* no subscription.                                                        *)
PublishMsg(c, m) ==
    net' = IF sub[c] = "live" THEN [net EXCEPT ![c] = Append(@, m)] ELSE net

(* The Done header of natsWriter.Write once final is set, and that of      *)
(* WriteError.                                                             *)
FinalDone_SetAfterFlush == "more"
FinalDone == "ok"
ErrorDone_Empty == "ok"
ErrorDone == "err"

(* The response still has chunks for resp.Write to copy.                   *)
MoreToCopy_OneTooMany(c) == sent[c] <= total[c]
MoreToCopy(c) == sent[c] < total[c]

(* resp.Write fills the buffer and flushes it.                             *)
CopyChunk(w) ==
    /\ Copying(w)
    /\ LET c == job[w] IN
         /\ MoreToCopy(c)
         /\ sent' = [sent EXCEPT ![c] = @ + 1]
         /\ PublishMsg(c, [n |-> sent[c] + 1, data |-> TRUE, done |-> "more"])
    /\ UNCHANGED <<hubVars, up, pend, job, total, framing, reqs, lost>>

(* resp.Write has returned with data in the buffer: the flush is final.    *)
FinalFlush(w) ==
    /\ Copying(w)
    /\ LET c == job[w] IN
         /\ sent[c] + 1 = total[c]
         /\ sent' = [sent EXCEPT ![c] = @ + 1]
         /\ PublishMsg(c, [n |-> sent[c] + 1, data |-> TRUE, done |-> FinalDone])
    /\ job' = [job EXCEPT ![w] = NoCall]
    /\ UNCHANGED <<hubVars, up, pend, total, framing, reqs, lost>>

(* resp.Write has returned with the buffer just flushed (the response is a *)
(* multiple of the buffer size): an empty message carries Done.            *)
FinalEmpty(w) ==
    /\ Copying(w)
    /\ LET c == job[w] IN
         /\ sent[c] = total[c]
         /\ PublishMsg(c, [n |-> sent[c] + 1, data |-> FALSE, done |-> FinalDone])
    /\ job' = [job EXCEPT ![w] = NoCall]
    /\ UNCHANGED <<hubVars, up, pend, total, framing, sent, reqs, lost>>

(* resp.Write fails (body read error, http.Client timeout, failed          *)
(* publish): WriteError sends the error in the Done header; what is in the *)
(* buffer is not sent.                                                     *)
WriteError(w) ==
    /\ Copying(w)
    /\ LET c == job[w] IN
         PublishMsg(c, [n |-> sent[c] + 1, data |-> FALSE, done |-> ErrorDone])
    /\ job' = [job EXCEPT ![w] = NoCall]
    /\ UNCHANGED <<hubVars, up, pend, total, framing, sent, reqs, lost>>

(* The last PublishMsg of the handler fails: it is logged, or not even     *)
(* that, and the handler returns.                                          *)
FinishUnpublished(w) ==
    /\ "edgePublish" \in Faults
    /\ Copying(w)
    /\ job' = [job EXCEPT ![w] = NoCall]
    /\ UNCHANGED <<hubVars, up, pend, total, framing, sent, reqs, net, lost>>

(* The process goes away (os.Exit, a signal, the end of main); what it was *)
(* handling and what was queued on its subscriptions goes with it.         *)
Crash(p) ==
    /\ "crash" \in Faults
    /\ up[p]
    /\ up' = [up EXCEPT ![p] = FALSE]
    /\ pend' = [w \in Workers |-> IF PodOf(w) = p THEN <<>> ELSE pend[w]]
    /\ job' = [w \in Workers |-> IF PodOf(w) = p THEN NoCall ELSE job[w]]
    /\ UNCHANGED <<hubVars, total, framing, sent, reqs, net, lost>>

(* A new process: addSubscribers runs numThreads times.                    *)
Restart(p) ==
    /\ ~up[p]
    /\ up' = [up EXCEPT ![p] = TRUE]
    /\ UNCHANGED <<hubVars, pend, job, total, framing, sent, reqs, net, lost>>

-----------------------------------------------------------------------------
ReadStep(c) == ReadHead(c) \/ ReadChunk(c) \/ ReadEnd(c)

HubCaller(c) ==
    \/ Subscribe(c) \/ RoundTripFails(c) \/ Publish(c) \/ PublishFails(c)
    \/ ReadStep(c) \/ CloseBody(c)

Receiver(c) ==
    \/ NextMsgCheck(c) \/ NextMsgPop(c) \/ NextMsgTimeout(c)
    \/ NextMsgClosed(c) \/ ClosePipe(c) \/ Unsubscribe(c)

Route(c) == NoInterest(c) \/ \E w \in Workers : RouteRequest(c, w)

Server(c) == Route(c) \/ LoseRequest(c) \/ Deliver(c) \/ LoseMessage(c)

Worker(w) ==
    \/ Dispatch(w) \/ RespondOk(w) \/ RespondError(w) \/ CopyChunk(w)
    \/ FinalFlush(w) \/ FinalEmpty(w) \/ WriteError(w) \/ FinishUnpublished(w)

Next ==
    \/ \E c \in Calls : HubCaller(c) \/ Receiver(c) \/ Server(c)
    \/ \E w \in Workers : Worker(w)
    \/ \E p \in Pods : Crash(p) \/ Restart(p)
    \/ CloseConn

Spec == Init /\ [][Next]_vars

(* The Go scheduler runs every goroutine that can go on; the server and    *)
(* the client library keep moving messages; a handler ends because respond *)
(* is bounded by http.Client.Timeout, which covers the body as well; and   *)
(* the user of a response reads it or closes it.  Nothing makes a user     *)
(* start a call, a process crash, or a crashed process come back.          *)
Fairness ==
    /\ \A c \in Calls :
         /\ WF_vars(Publish(c) \/ PublishFails(c))
         /\ WF_vars(ReadStep(c))
         /\ WF_vars(Receiver(c))
         /\ WF_vars(Route(c))
         /\ WF_vars(Deliver(c))
    /\ \A w \in Workers : WF_vars(Worker(w))

FairSpec == Spec /\ Fairness

-----------------------------------------------------------------------------
(* Properties.                                                             *)

Ended == {"ok", "err", "closed"}

FirstChunks(k) == [i \in 1..k |-> i]

(* The bytes a caller reads are bytes of its response in the order the     *)
(* edge wrote them, none of them twice, whatever is lost on the way: the   *)
(* order of NATS survives the channel, the receiver and the pipe           *)
(* (nats.go, the loop of Proxy).                                           *)
InOrder ==
    \A c \in Calls :
        /\ \A i, j \in 1..Len(got[c]) : i < j => got[c][i] < got[c][j]
        /\ \A i \in 1..Len(got[c]) : got[c][i] <= sent[c]

(* A response with a Content-Length is never reported complete with a gap, *)
(* even if NATS lost messages of it and Done arrived.                      *)
OkIsIntact ==
    \A c \in Calls :
        caller[c] = "ok" /\ framing[c] \in Delimited
            => got[c] = FirstChunks(total[c])

(* A response the edge could not finish (resp.Write failed, the pod died)  *)
(* is never reported complete, whatever its framing: only the last write   *)
(* of the handler has an empty Done header (run.go, natsWriter.final).     *)
OkIsComplete ==
    \A c \in Calls : caller[c] = "ok" => sent[c] = total[c]

(* A response reported complete is the whole response unless one of its    *)
(* messages was dropped: crashes, failed writes and early closes alone     *)
(* never make a partial body look whole.                                   *)
IntactUnlessLost ==
    \A c \in Calls :
        caller[c] = "ok" /\ ~lost[c] => got[c] = FirstChunks(total[c])

(* A request is performed by at most one member of the queue group: it is  *)
(* on its way, queued at one member, or being handled by one member, over  *)
(* all pods, restarts included (run.go, QueueSubscribe).                   *)
Queued(w, c) == \E i \in 1..Len(pend[w]) : pend[w][i] = c
Holds(w, c)  == job[w] = c \/ Queued(w, c)

OneHandler ==
    \A c \in Calls :
        /\ c \in reqs => \A w \in Workers : ~Holds(w, c)
        /\ \A v, w \in Workers : Holds(v, c) /\ Holds(w, c) => v = w
        /\ \A w \in Workers : job[w] = c => ~Queued(w, c)

(* Who needs the subscription has it: the response subject is subscribed   *)
(* before anyone can answer on it; a caller that waits for its response    *)
(* has a receiver that runs, or a closed pipe to read the end from; a      *)
(* receiver that runs is subscribed unless the connection was closed under *)
(* it; and one that is done is not subscribed any more (nats.go, Proxy:    *)
(* SubscribeSync before PublishRequest, the defer).                        *)
Running(c) == rcv[c] \notin {"none", "exited"}

ListenerOwned ==
    \A c \in Calls :
        /\ (c \in reqs \/ \E w \in Workers : Holds(w, c)) => sub[c] # "none"
        /\ Reading(c) => Running(c) \/ pipe[c] # "open"
        /\ Running(c) /\ connected => sub[c] = "live"
        /\ rcv[c] = "exited" => sub[c] = "gone" /\ pipe[c] # "open"

(* The whole path, with its losses, crashes and races, does no more than   *)
(* StreamPromise: one answer per request, chunks in order and once each, a *)
(* success only for a body that is complete, and nothing after the end     *)
(* (nats.go, RoundTrip and Proxy; run.go, addSubscribers).                 *)
Outcome ==
    [c \in Calls |-> IF caller[c] \in Ended THEN caller[c] ELSE "pending"]

Promise ==
    INSTANCE StreamPromise WITH
        outcome <- Outcome, size <- total, kind <- framing, written <- sent,
        out <- got

PromiseKept == Promise!Spec

(* Where no pod goes away, every call whose request was published returns: *)
(* with a response that is read to its end or closed, or with an error     *)
(* (nats.go, the receive loop and its defer; run.go, the Done header).     *)
CallReturns ==
    [](\A p \in Pods : up[p])
        => \A c \in Calls : caller[c] = "header" ~> caller[c] \in Ended

(* When no pod serves the link and the status of the server reaches the    *)
(* hub, the call fails instead of waiting (nats.go: ErrNoResponders is not *)
(* ErrTimeout).                                                            *)
NobodyServes == \A p \in Pods : ~up[p]
NoPodsIsAnError ==
    \A c \in Calls :
        (c \in reqs /\ NobodyServes) ~> (caller[c] \in Ended \/ ~NobodyServes)

(* A call with a time limit ends, whatever is lost ("the maximum length of *)
(* time to wait before giving up on a server request", client-go's         *)
(* rest.Config.Timeout; RoundTrip passes its limit to NextMsg).            *)
TimeoutEndsCall ==
    \A c \in Calls : caller[c] = "header" ~> caller[c] \in Ended

(* The subscription of a call that returned its whole response is removed. *)
ListenerReleased == \A c \in Calls : caller[c] = "ok" ~> sub[c] = "gone"
=============================================================================
