------------------------------ MODULE RoundTrip -----------------------------
(***************************************************************************)
(* RoundTrip (pkg/transport/nats.go) up to the publish: concurrent callers *)
(* that share one NatsTransport and the pool of buffers, and the time      *)
(* limits of a request, down to the edge's http.Client (pkg/cmds/run.go,   *)
(* respond).  Times are in units of 500 ms.                                *)
(*                                                                         *)
(* A caller writes its request to a pooled buffer, makes an R whose        *)
(* Request is a slice of that buffer, encodes R into the same buffer, and  *)
(* publishes the buffer; it goes back to the pool when Proxy returns.      *)
(***************************************************************************)
EXTENDS Integers, Sequences, FiniteSetsExt

CONSTANTS
    Callers,
    Buffers,         \* what the pool has, or makes: at least one per caller
    MaxTime,         \* bound on the times considered
    DefaultTimeout,  \* defaultTimeout, and respond's: 30 s
    NoDeadline,      \* ctx.Deadline() returns !ok
    None             \* no buffer, or nothing published

ASSUME TimesAssumption ==
    /\ MaxTime \in Nat
    /\ DefaultTimeout \in Nat \ {0}
    /\ NoDeadline \notin Int
ASSUME NoneAssumption == None \notin Buffers

VARIABLES
    now,       \* time.Now()
    limit,     \* NatsTransport.Timeout, 0 when it is not set
    deadline,  \* per caller: of its request's context
    began,     \* per caller: when it computed its timeout
    hub,       \* per caller: the timeout RoundTrip uses
    pc,        \* per caller: where it is in RoundTrip
    buf,       \* per caller: the buffer it has
    pool,      \* the buffers nobody has
    content,   \* per buffer: what has been written to it
    wire,      \* per caller: what it published
    edge,      \* per caller: the timeout of the edge's http.Client
    started    \* per caller: when the edge made that client

timeVars == <<limit, deadline, began, hub, edge, started>>
vars     == <<now, timeVars, pc, buf, pool, content, wire>>

Unknown == -1

(* A request, and an R with the bytes of a request.                        *)
Written == [request : Callers]
Payload == Written \cup [Request : Seq(Written), Timeout : Nat]

TypeOK ==
    /\ now \in 0..MaxTime
    /\ limit \in 0..MaxTime
    /\ deadline \in [Callers -> 0..MaxTime \cup {NoDeadline}]
    /\ began \in [Callers -> 0..MaxTime]
    /\ hub \in [Callers -> Nat \cup {Unknown}]
    /\ pc \in [Callers -> {"idle", "written", "encoded", "published", "returned"}]
    /\ buf \in [Callers -> Buffers \cup {None}]
    /\ pool \subseteq Buffers
    /\ content \in [Buffers -> Seq(Payload)]
    /\ wire \in [Callers -> Seq(Payload) \cup {None}]
    /\ edge \in [Callers -> Nat \cup {Unknown}]
    /\ started \in [Callers -> 0..MaxTime]

timeout_KeepsPast(t, d, at) ==
    IF d = NoDeadline THEN (IF t > 0 THEN t ELSE DefaultTimeout) ELSE Min({t, d - at})

(* NatsTransport.timeout: the shorter of the two limits, if that is one.   *)
timeout(t, d, at) ==
    LET shortest == IF d = NoDeadline THEN t ELSE Min({t, d - at})
    IN  IF shortest > 0 THEN shortest ELSE DefaultTimeout

(* R.Timeout leaves the answer 500 ms to come back.                        *)
Persisted_NoMargin(t) == t
Persisted(t) == Max({0, t - 1})

(* respond: 0 stands for a limit of its own.                               *)
ClientTimeout(t) == IF t = 0 THEN DefaultTimeout ELSE t

Init ==
    /\ now = 0
    /\ limit \in 0..MaxTime
    /\ deadline \in [Callers -> 0..MaxTime \cup {NoDeadline}]
    /\ began = [c \in Callers |-> 0]
    /\ hub = [c \in Callers |-> Unknown]
    /\ pc = [c \in Callers |-> "idle"]
    /\ buf = [c \in Callers |-> None]
    /\ pool = Buffers
    /\ content = [b \in Buffers |-> <<>>]
    /\ wire = [c \in Callers |-> None]
    /\ edge = [c \in Callers |-> Unknown]
    /\ started = [c \in Callers |-> 0]

Tick ==
    /\ now < MaxTime
    /\ now' = now + 1
    /\ UNCHANGED <<timeVars, pc, buf, pool, content, wire>>

(* pool.Get, Reset and WriteProxy: the buffer holds the caller's request.  *)
WriteProxy(c) ==
    /\ pc[c] = "idle"
    /\ \E b \in pool :
         /\ buf' = [buf EXCEPT ![c] = b]
         /\ pool' = pool \ {b}
         /\ content' = [content EXCEPT ![b] = <<[request |-> c]>>]
    /\ pc' = [pc EXCEPT ![c] = "written"]
    /\ UNCHANGED <<now, timeVars, wire>>

(* The buffer is reset and R encoded into it.  The Request of R is still a *)
(* slice of its old bytes: Encode has marshalled all of R before it writes.*)
Encode(c) ==
    /\ pc[c] = "written"
    /\ hub' = [hub EXCEPT ![c] = timeout(limit, deadline[c], now)]
    /\ began' = [began EXCEPT ![c] = now]
    /\ content' = [content EXCEPT ![buf[c]] =
                     <<[Request |-> @, Timeout |-> Persisted(hub'[c])]>>]
    /\ pc' = [pc EXCEPT ![c] = "encoded"]
    /\ UNCHANGED <<now, limit, deadline, edge, started, buf, pool, wire>>

(* The deferred pool.Put, with the return of RoundTrip.                    *)
MayReturn_Early(c) == pc[c] \in {"written", "encoded", "published"}
MayReturn(c) == pc[c] = "published"

Return(c) ==
    /\ MayReturn(c)
    /\ buf[c] # None
    /\ pool' = pool \cup {buf[c]}
    /\ pc' = IF pc[c] = "published" THEN [pc EXCEPT ![c] = "returned"] ELSE pc
    /\ UNCHANGED <<now, timeVars, buf, content, wire>>

(* WriteProxy, Encode, the subscription or the publish fails.              *)
Fail(c) ==
    /\ pc[c] \in {"written", "encoded"}
    /\ pool' = pool \cup {buf[c]}
    /\ pc' = [pc EXCEPT ![c] = "returned"]
    /\ UNCHANGED <<now, timeVars, buf, content, wire>>

(* PublishRequest copies the buffer into that of the connection; Proxy     *)
(* then waits for the response.                                            *)
Publish(c) ==
    /\ pc[c] = "encoded"
    /\ wire' = [wire EXCEPT ![c] = content[buf[c]]]
    /\ pc' = [pc EXCEPT ![c] = "published"]
    /\ UNCHANGED <<now, timeVars, buf, pool, content>>

(* The request has reached a member that is free.  The edge decodes R and  *)
(* makes its http.Client, whose time starts to run.                        *)
Respond(c) ==
    /\ wire[c] # None
    /\ edge[c] = Unknown
    /\ edge' = [edge EXCEPT ![c] = ClientTimeout(wire[c][1].Timeout)]
    /\ started' = [started EXCEPT ![c] = now]
    /\ UNCHANGED <<now, limit, deadline, began, hub, pc, buf, pool, content, wire>>

Next ==
    \/ Tick
    \/ \E c \in Callers : \/ WriteProxy(c) \/ Encode(c) \/ Publish(c)
                          \/ Return(c) \/ Fail(c) \/ Respond(c)

Spec == Init /\ [][Next]_vars

-----------------------------------------------------------------------------
(* What a caller publishes is its own request with its own time limit,     *)
(* whole and once, whoever uses the pool at the same time (nats.go: the    *)
(* buffer that is encoded from, encoded into, published and pooled).       *)
OwnRequest ==
    \A c \in Callers : wire[c] # None =>
        wire[c] = <<[Request |-> <<[request |-> c]>>, Timeout |-> Persisted(hub[c])]>>

(* The edge has given up when its caller's time is over, so that its       *)
(* answer can still arrive: by the time the transport's Timeout has run    *)
(* out, and by the deadline of the request's context (nats.go, RoundTrip). *)
(* It has, though its own time starts to run only when the request has     *)
(* been carried and queued, if that took no longer than the 500 ms the     *)
(* code allows for; and if both limits are longer than these, as a shorter *)
(* one is sent as 0, which the edge takes for 30 s.                        *)
EdgeStopsFirst ==
    \A c \in Callers :
        /\ edge[c] # Unknown
        /\ started[c] <= began[c] + 1
        /\ limit > 1
        /\ deadline[c] # NoDeadline => deadline[c] > began[c] + 1
        => /\ started[c] + edge[c] <= began[c] + limit
           /\ deadline[c] # NoDeadline => started[c] + edge[c] <= deadline[c]
=============================================================================
