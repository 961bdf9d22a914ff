# Cluster connector: a TLA+ model

The cluster connector lets a hub reach the API server of a cluster it has no
route to. A *connector* process runs in the cluster (the *edge*) and subscribes
to NATS subjects; the hub uses a client-go client whose HTTP transport sends
requests, and gets responses, over those subjects. This directory holds TLA+
modules of that system, TLC configurations that check them on small instances,
and theorems checked by TLAPS. `PROJECT.json` lists, for every definition, the
source lines it translates.

Run a model with `tlc -config proxy_lossy.cfg MCNatsProxy.tla`, the proofs with
`tlapm NatsProxyProofs.tla`, and so for the other modules of proofs.

## 1. Inventory

### Hub transport (`src/pkg/transport/nats.go`)

* **State.** Per round trip: a response subject with a random xid, a sync
  subscription with its channel, the `io.Pipe`, the receiver goroutine, the HTTP
  response whose body is the read end of the pipe. Shared: the `nats.Conn`, the
  pool of request buffers.
* **Operations.** `RoundTrip` writes the request to a buffer, computes the
  timeout, encodes `R` (request, TLS options, timeout) and calls `Proxy`.
  `Proxy` subscribes, publishes, starts the receiver and blocks in
  `http.ReadResponse`. `NewConnection` dials NATS, retrying on a ticker until a
  context is done.
* **Hard parts.** Three threads of control per call (caller, receiver, NATS
  callback) and a synchronous pipe between two of them; messages that are lost
  without a trace; the receiver's only exits are a Done message, an error other
  than a timeout, or a write to a pipe somebody reads. A pooled buffer that is
  encoded from and into. A select on a ticker and a context.
* **Correct when** what the caller is told about the body is true, its bytes are
  in order, a call returns, and subscription and goroutine go when it does; what
  is published is the caller's own request, whose limit on the edge ends in time;
  dialing ends.

### Edge (`src/pkg/cmds/run.go`)

* **State.** Per pod: `numThreads` queue subscriptions, each with a queue of
  requests and one request being handled; a pool of 8 KB `bufio.Writer`s. Per
  request: `natsWriter` with its `final` flag.
* **Operations.** `addSubscribers`' handler: `respond` performs the HTTP call
  with a client of its own timeout, or makes an API status of its error;
  `resp.Write` copies the response through the buffered writer, each flush of
  which is a NATS message; then the last flush, an empty message, or the error,
  carries the `Done` header.
* **Hard parts.** Where the response ends relative to the buffer; errors half
  way; reused writers; a pod that dies; publishes that are refused; the queue
  group, named after the ReplicaSet.
* **Correct when** one member handles each request, the messages are exactly the
  bytes of that response, and `Done` is sent once, last, and is empty only if
  every byte was published.

### NATS client and server (`src/vendor/github.com/nats-io/nats.go/nats.go`)

External to the project; the modules contain the part the proxy depends on:
order per publisher and subscription, at-most-once delivery, queue groups,
pending limits with the slow-consumer flag, `NextMsg` in two critical sections,
the no-responders status, what `Unsubscribe` discards; subscribing by a buffer and
a flusher, reconnecting, and what closes a connection for good.

### TLS options and transport cache (`src/pkg/transport/{transport,types,cache}.go`)

* **State.** A process-wide map from `tlsCacheKey` to `*NatsTransport` behind a
  mutex; the caller's config, which `loadTLSFiles` updates in place; the
  certificate files, which others rewrite.
* **Operations.** `New` and `get`: load files, compute the key, lock, look up,
  on a miss load again, build and store. `PersistableTLSConfigFor` makes what is
  sent with each request; on the edge `TLSConfigFor` makes a `tls.Config` of it.
* **Hard parts.** Two reads of the same files, one outside the lock; a key that
  must tell apart everything that matters.
* **Correct when** callers with one key share one transport, and that transport
  is for their link and with the security each of them asked for.

### Connector process (`run.go`, `root.go`, `cmd/cluster-connector`)

* **State.** Manager with its runnables, NATS connection, subscriptions.
* **Operations.** Build the manager, get the cluster UID, connect, subscribe,
  add the link callback as a runnable, start; on `ctx.Done` drain and return.
* **Hard parts.** The callback makes the server call back through NATS while it
  runs; `Drain` is asynchronous and the process ends right after it; a restart
  after the link has expired.

### Demo server and link registration (`src/cmd/demo-server`, `src/pkg/link`)

* **State.** `links`, a map by link ID, used by HTTP handlers without a lock.
* **Operations.** `genLink`, `handleCallback` (expiry, remote call for the
  cluster's UID, then bookkeeping). `pkg/link` builds Helm manifests.
* **Hard parts.** Map access from several goroutines, a check before a remote
  call whose result is used after it, writes to a copy of the map's value.

### Client constructors (`src/pkg/{rest,http,clientcmd}`)

* **State.** The `Transport` field of a `rest.Config`, which callers may share.
* **Operations.** `GetForRestConfig` (on a copy), `GetForKubeConfig` and
  `ToRESTConfig` (on a config just read) set the field to what `transport.New`
  returns; `pkg/http` puts it in an `http.Client`. client-go then makes clients of
  the config.
* **Hard parts.** Aliasing: one config for several links, copied or, as
  `GetNoCopyConfig` is exported, not. What client-go accepts.
* **Correct when** a client sends through the link it was made for.

### Subjects (`src/pkg/shared/connector.go`)

`CrossAccountNames` (hub and edge in different NATS accounts, so that subjects are
mapped, and every edge listens on the same one) and `SameAccountNames` name the
subjects of requests, by link, and of responses, with a random part. **Correct when**
requests and answers of different links and calls stay apart.

### Others

`pkg/link` builds Helm manifests. `cmd/proxy-server` and `cmd/demo-client` are
example programs.

### How they interact

    caller --RoundTrip--> hub transport --request subject--> NATS --queue group--> edge --> API server
    caller <--io.Pipe---- receiver <----response subject---- NATS <--natsWriter--- edge <--
       |
       +-- transport.New: the cache picks the NatsTransport, whose TLS options travel in each request

## 2. Modules

| Module | Models | Role |
|---|---|---|
| `StreamPromise` | what a client may rely on | abstract specification of a set of round trips |
| `CachePromise` | what a caller of the cache may rely on | abstract specification of the cache: an atomic table |
| `NatsProxy` | `RoundTrip`, `Proxy`, the receiver, the NATS subscription, the edge's handlers and pods | the core; implements `StreamPromise` |
| `NatsProxyProofs`, `StreamProofs`, `PromiseProofs` | | theorems about `NatsProxy`: who owns what; the stream; that it implements `StreamPromise` |
| `ResponseWriter` | pooled `bufio.Writer`s, `natsWriter`, the Done header, byte by byte | detail of the edge's half |
| `ResponseWriterProofs` | | theorems about `ResponseWriter` |
| `TLSConfig` | TLS options and their conversions, the cache key | operators |
| `TransportCache` | `New`, `tlsTransportCache.get` | concurrent callers of the cache; implements `CachePromise` |
| `Clients` | `pkg/rest`, `pkg/http`, `pkg/clientcmd`, client-go's `NewForConfig` | users of the cache; extends `TransportCache` |
| `ClientsProofs` | | theorems about `TransportCache` and `Clients` |
| `RoundTrip` | `RoundTrip` up to the publish, `timeout`, `R.Timeout`, `respond`'s limit | shared buffers and time limits of concurrent calls |
| `RoundTripProofs` | | theorems about `RoundTrip` |
| `Links` | subjects, queue groups, `NewConnection`, the NATS connection and its reconnects | several links and connectors |
| `LinksProofs` | | theorems about `Links` |
| `Registration` | start-up of a connector (`Run`, `callback.Start`), the server's `genLink` and `handleCallback` | connector and server composed |
| `RegistrationProofs` | | theorems about `Registration` |
| `MC*` | | instances for TLC |

### NatsProxy

Each of the three threads of a call has a program counter: `caller` (where the
goroutine in `RoundTrip`, or the user of its response, is), `rcv` (the receiver)
and the NATS callback, which is atomic under the subscription's mutex
(`Deliver`). `sub`, `mch`, `sc` are the subscription, its channel and its
slow-consumer flag; `cur` is the message in `w.Write` and `pipe` how the write
end was closed. `net` is what is between the edge and the hub. On the edge, `up`
says which pods run; `pend` and `job` are the queue and the current request of
each queue group member (`Pods \X 1..Threads`). `total`, `framing` and `sent`
describe the response; `lost` is a history variable that says a message of a
response was dropped.

| Code | Actions |
|---|---|
| `Proxy` up to the goroutine (nats.go 196-212) | `Subscribe`, `RoundTripFails`, `Publish`, `PublishFails` |
| receive loop (213-246) | `NextMsgCheck`, `NextMsgPop`, `NextMsgTimeout`, `NextMsgClosed`, `ReadChunk` (write meets read); its defer: `ClosePipe`, then `Unsubscribe` |
| `http.ReadResponse`, body | `ReadHead`, `ReadChunk`, `ReadEnd`, `CloseBody` |
| `processMsg` of nats.go | `Deliver` |
| `Conn.close` of nats.go | `CloseConn`, which ends every subscription while receivers still run |
| server | `RouteRequest`, `NoInterest`, `LoseRequest`, `LoseMessage` |
| `addSubscribers` handler (run.go 174-240) | `Dispatch`, `RespondOk`, `RespondError`, `CopyChunk`, `FinalFlush`, `FinalEmpty`, `WriteError`, `FinishUnpublished` |
| process | `Crash`, `Restart` |

Choices that matter:

* The bytes of a response are its flushes, numbered `1..total`; the head is in
  the first. `ResponseWriter` is where flushes come from, and shows that the
  messages are the bytes in order. A chunk may be up to 32 KB there: a write
  larger than an empty buffer is not split.
* `io.Pipe` is synchronous, so a receiver's write and the caller's reads of that
  data are one action; `ReadHead` is separate because `ReadResponse` returns
  with a 4096-byte buffer, before the chunk is used up. A write of no bytes
  still waits for a reader.
* `framing` says how net/http finds the end of the body, and what `Close` does:
  it reads a kept-alive or chunked body to its end, and just stops for a closing
  one. It never closes the read end of the pipe. Only a Content-Length ("length",
  "closing") is counted. A "chunked" body ends at the zero chunk, in the last flush:
  behind a gap its reader may go on, fail by the syntax, or come to the end without
  noticing, when what is missing happens to be whole chunks of the encoding (32 KB
  reads through the 8 KB writer make messages of 8192 and 24584 bytes in turn: a lost
  pair of them is one chunk). Taken for granted is that the payload itself does not
  spell such framing. A "stream" ends where the pipe does.
* The two steps of the defer are apart, since the caller can see the end of the pipe
  before the subscription is removed; so is the closing of the connection, which all
  calls share: a receiver inside `NextMsg` still has its channel and what is in it,
  every other one fails at its next check.
* The model has no clock. `NextMsgTimeout` is possible whenever the channel is
  empty, and the receiver goes round, as the code does.
* A message to a response subject without a subscription vanishes.

### ResponseWriter

`Flushes` is `bufio.Writer.Write`, `ReadFrom` the path `io.Copy` takes. A byte
is a pair of response and position, so a byte of an earlier response would be
seen. Publishes may be refused at any message of a write; `bufio.Writer` keeps
the error. The pool gives any writer nobody holds, with whatever it still holds.

### TransportCache and TLSConfig

A call is `ComputeKey` (files read without the lock), `Lock`, `Hit` or `Miss`
and `Store` (files read again, into the config once more), interleaved with `Rewrite` of any file.
`transports` is the map, as a set of key and transport. PEM parsing is
membership in `ValidCAs` and `Pairs`.

### Clients

The state is that of the cache and, per `rest.Config`, its `Transport` field
(`transportOf`); per caller, the config it works on (`object`), how far its client is
(`stage`) and what the client sends with. A config is the caller's own, which it has
just read (`GetForKubeConfig`, `ToRESTConfig`), a copy of one that the program keeps
(`GetForRestConfig`, with `CopyConfig`), or that one itself, passed to `GetNoCopyConfig`
(`ShareConfig`). `New` refuses a config that has a `Transport` or a `Proxy` (`Refuse`), and
`GetNoCopyConfig` then sets the field to the nil it was returned: a second caller that works
in place takes the first one's transport away, which is why `ThroughOwnLink` excepts
configs that two use in place. `GetNoCopyConfig` also has New's late error, from
client-go's wrappers, when the cache has answered; `GetWithoutTransport` its returns
before New; `NewForConfig` is client-go's own check of a config. `handle` is the proxy
server: its route has no parameter `linkID`, so that it asks for the empty link.

### Registration

| Code | Actions |
|---|---|
| `Run` (run.go 69-144) | `Boot`, `Connect`, `AddSubscribers` (once per loop), `Start`, `Exit` |
| `callback.Start` (341-365) | `Start` (post), `CallbackOk`, `CallbackFailed` (which ends the process) |
| flusher of nats.go | `Flush`: `QueueSubscribe` only buffers the SUB |
| `genLink`, `handleCallback` (handlers.go 36-97) | `genLink`, `LookUp`, `ReadClusterUID`, `NobodyHears`, `Answer`, `ReadFails` |
| environment | `ServerRestarts` (the map is in memory), `Tick` |

A round trip through NATS is a question to one member and its answer. What the member
reads is the UID of the cluster whose API server the link's kubeconfig names
(`kubeConfig`, set by `genLink`), and where that address leads may depend on the cluster it
is dialled from: `APIServer`, any function of the two. The run has a kubeconfig that means
the dialler's own cluster and one that means the same cluster from everywhere.
 Handling a
callback changes nothing on the server (the cluster ID is stored in a copy of
the map's value), so a callback whose process has gone is forgotten, and a pod
has at most one. `demo-server`'s `main` is left out: as it stands it registers the
two handlers outside the path the connector posts to, and maps a nil interface,
which panics on every request; what is modelled is the handlers, as the
registration server the connector talks to.

### RoundTrip

A caller takes a buffer (`WriteProxy`), encodes a request whose bytes are that very
buffer into it (`Encode`), publishes (`Publish`) and returns it (`Return`; `Fail` on
the error paths). `content` is what a buffer holds, `wire` what was published, so that
a buffer somebody else has written to would show. Times are in units of 500 ms, the
margin the code subtracts. `Tick` lets time pass, past the deadline too, before
`Encode` looks at the clock, and between that and `Respond`, where the limit of the edge
starts to run (`started`): transit and the queue of the member.

### Links

| Code | Actions |
|---|---|
| `NewConnection` (nats.go 45-97) | `Boot`, `Connect` (the ticker's case), `ContextDone`, `GiveUp` (the context's case) |
| subscriptions of nats.go | `QueueSubscribe`, `Flush` |
| connection of nats.go | `Break` (`processOpErr`), `Reconnect` (with `resendSubscriptions`), `Reject` (`processAuthError`), `ServerError` (`processErr`) |
| process | `Exit`, and every `os.Exit` |
| requests | `Proxy`, `Route`, `Respond` |
| environment | `Environment`: the server is there, is not, or refuses the credentials |

Subjects are sequences of tokens; `Import` and `Export` are the mapping between the
accounts, which the server does, not this code: they are what `CrossAccountNames`
needs them to be. `sub` distinguishes what the client remembers from what the
server knows: "buffered" before the flush, "unknown" after a broken connection.
A pod is one member, and an answer one message: `NatsProxy` has the detail, for
one link and one queue group.

## 3. What the runs show

| Run | Instance | Shows |
|---|---|---|
| `proxy_lossy` | 1 call, 2 pods, up to 3 chunks, channel of 3 messages and 2 chunks, all framings, all faults, the end of the hub's connection included | `InOrder`, `OkIsIntact`, `OkIsComplete`, `IntactUnlessLost`, `OneHandler`, `ListenerOwned`, and `PromiseKept`: every behaviour is one of `StreamPromise` |
| `proxy_liveness` | 2 calls, 1 pod with 1 member that may crash and restart, 1 chunk, chunked and stream framing, status reaches the hub, failing hub publishes, a closed connection, fair | `CallReturns`, also for a request queued behind another; `NoPodsIsAnError` |
| `response_writer` | 2 handlers, 2 responses of 1..5 bytes, buffer of 2 bytes, 2 writers | `OwnBytes`, `DoneOnceAndLast`, `DoneOkIsWhole`, `EndIsAnnounced` |
| `clients` | 2 callers, 12 configs, their own or a shared one, 2 links and the empty one, files that change, are empty or missing | `SingleTransport`, `OptionsHonoured`, `LinkKept`, `ThroughOwnLink`, and `AtomicLookup`: the cache implements `CachePromise` |
| `registration` | 2 pods in 2 clusters with the same link or two, both kinds of kubeconfig, 2 handler threads, lifetime over after one tick, server restarts, fair | `RegisteredIsReached`, `StaleLinkRefused`, `UnheardOnlyIfBuffered`, `RegistrationEnds` |
| `round_trip` | 2 callers and 2 buffers, all limits, deadlines and times up to 2 s, and none | `OwnRequest`, `EdgeStopsFirst` |
| `links` | 2 pods of one link or of two, 2 calls, both kinds of names, fair | `OwnLinkOnly`, `OwnAnswer`, `SingleResponse` (of one ReplicaSet), `DialEnds`, `ServedAgain` |
| `proxy_leak`, `proxy_timeout`, `clients_cert`, `clients_empty`, `links_rollout` | smallest that shows it | the divergences of section 6 |

**Bounds.** Calls do not share state except the members of the queue group, so
one call with every fault and two calls competing for one member are the two
interesting sizes; `HandledOnce` is proved for any number. Three chunks are the
fewest with a first, a middle and a last one, so that each can be the one lost.
The byte limit is
two chunks and the channel holds three messages (the code's limits are in the
same order: 64 MB are reached long before 512 Ki messages of 8 KB): two chunks
can be queued, so that their order matters, the third one can exceed the limit and
raise the slow-consumer flag, and an empty Done message still fits, which lowers
the flag again before `NextMsg` looks. Two pods
let a request meet a pod that crashes while another serves. Five bytes with a
buffer of two give every position of the end relative to a flush: within the
first buffer, on the first and second boundary, and past it, and let one write
be larger than two buffers. Two callers and configs that differ in one option at a time suffice for
the cache, because its properties relate at most two callers. `FileContents` has two
contents, for a rotation, the empty file (`NoData`) and the missing one. Two callers and two buffers are enough for one
to write where the other still reads, and 2 s for limits on both sides of the
margin, each of which may be the shorter. `Links` needs two calls for an answer
that reaches the other one, and two pods for another link, or another member. For
`Registration`, two pods suffice for each pair of a registering connector and the
one that answers (itself, another of the same link, one of another cluster); the
theorems hold for any number. `proxy_liveness` has the two framings whose end is not
counted; a "length" body on a flush boundary leaks its receiver (`proxy_leak`), after
the call has returned, and so would add nothing there.

**Deadlock.** `CHECK_DEADLOCK FALSE` everywhere: a run has finitely many calls,
responses or callers, and stops when they are done; in `NatsProxy` a caller may
also legitimately wait for ever for a message that was lost.

**Fairness** (`FairSpec`). Weak fairness of each goroutine (the Go scheduler),
of routing and delivery (server and client library keep moving what they hold),
of the queue member's handler (`http.Client.Timeout` bounds `respond` and the
reading of the body, so a handler ends), and of the reading of a response by its
user. No fairness is assumed of starting a call, crashing, restarting, closing a
body or any loss. `Publish` or its failure is fair as it is the next statement
of a running goroutine. Each disjunction is one thread of control, so
its fairness does not force one outcome over another.

In `Links`: starts (Kubernetes restarts a connector), the context's timer, the cases
of `NewConnection`'s select, subscribing, flushing and reconnecting. `Connect` is
strongly fair: the ticker fires three times before the context is done, so that a
connector that starts again and again does dial a server that is there. Nothing is
assumed of the server, of what breaks connections or ends processes, nor of requests;
`ServedAgain` supposes that its server stays and nothing else stops the process.

In `Registration`: processes, the server's handlers, the flusher and the member that
was asked go on; not links being issued, starts, exits, failures or time.

`CallReturns` supposes that no message is lost and that no pod goes away (its
antecedent), because nothing ends a call otherwise: the receiver ignores `ErrTimeout`, nothing consults the
request's context, and a lost request, a lost Done or a dead pod leaves the
caller waiting unless the no-responders status comes (`NoPodsIsAnError`, for
subjects on which it can: with `CrossAccountNames` the reply subject is another
one). The timeout `RoundTrip` computes ends nothing on the hub; it reaches the
edge only (`proxy_timeout`).

**Shape of the properties.** `OkIsIntact` depends on net/http counting the body's
Content-Length; `IntactUnlessLost` is what remains of it for chunked bodies and bodies
without a length when nothing was dropped. With a loss a stream *can* be short and look
whole, and a chunked body can lack whole chunks of its encoding: the protocol has no
sequence numbers. `StreamPromise` promises no more.
`OptionsHonoured` says what a shared transport owes each of its callers: the verification
and server name, and the roots and the certificate the caller had loaded.
`KeyDeterminesTLS` says that it has nothing else either, which empty files break.
`EdgeStopsFirst` leaves the margin of 500 ms to the way to the edge and the queue there: the
edge has ended by the time its caller's limit is over. It says nothing of limits of 500 ms or
less, of which no margin is left, nor of a request that waits longer than that.
`RegisteredIsReached` says whose UID was read through whom, which is what the code
compares; with a public address in the kubeconfig that does not show that a connector of the
registered cluster was reached, and requests for it may be served in another one.
`UnheardOnlyIfBuffered` is the order of subscriptions and callback where it matters, at the
server's request; that an unflushed SUB lets it go unheard, and the registration wait for
ever, is what the code does, and `RegistrationEnds` excepts it. `OkIsComplete` is about the edge: a
partly written response is never reported complete, lost messages or not.

## 4. What is proved

`NatsProxyProofs`, for all finite or infinite sets of calls and pods, all bounds
and all subsets of the faults, from the assumptions on the constants that
`NatsProxy` states (`NoCall` is no call; the bounds are naturals, positive where
zero would make no sense):

* `TypeCorrect`: `Spec => []TypeOK`. It includes `sent \in 0..MaxChunks`, for
  which the guards of the two publishing actions are needed.
* `HandledOnce`: `Spec => []OneHandler`.
* `ListensWhileReceiving`: `Spec => []ListenerOwned`.

`RegistrationProofs`, for all pods, clusters, links, handler threads and lifetimes:
`TypeCorrect`, `RegistrationVerified` (`RegisteredIsReached`), `ExpiredLinkNeverRegisters`
(`StaleLinkRefused`), `CallbackComesLast` (`UnheardOnlyIfBuffered`), and `RegistrationMeans`,
what the comparison of the UIDs comes to for the two kinds of kubeconfig. These properties
speak of a late stage of a registration; the invariant `Inv` adds what each earlier stage of a callback
establishes: `Stages` (a callback exists only while its process runs, with all its
subscriptions), `Reached` (whom the server asked, and that an accepted answer was
the UID of the right cluster) and `InTime` (a callback that passed the test of its link
was posted before the link's end).

`RoundTripProofs`, for all callers, buffers and times: `TypeCorrect`,
`PublishesOwnRequest` (`OwnRequest`), `EdgeStopsBeforeCaller` (`EdgeStopsFirst`), from one invariant:
who is between `Get` and `Put` has its buffer alone and out of the pool (`Owned`), so that
the buffer holds what this caller wrote last (`Filled`) and that is what goes out (`Sent`);
and a limit is the one computed from the clock at the time of encoding (`Limited`).
Lemmas on `Min` and `Max` give the bounds of `timeout` and of what is persisted.

In `NatsProxyProofs`, neither safety property is inductive. The invariant `Ownership` has two parts.
*Handlers*: a request is in at most one of `reqs`, the queues and the jobs, at
most once in the queue it is in; and only for a call that was published. The
uniqueness *within* a queue is what makes `Dispatch` keep `OneHandler`: without
it, the copy left behind is a second holder. *Listener*: how `caller`, `rcv`,
`sub` and `pipe` go together: a call that has not published has no receiver and no
request anywhere, which makes `Publish` keep both properties, and a subscription goes
with its receiver or with its connection, never before.
`InitTypeOK`, `InitOwnership` are the bases; the steps are split by thread of control
(`HubCaller`, `Receiver`, `Server`, `Worker`, pods), with one step per action;
`OwnershipInvariant` puts them together by PTL.

`StreamProofs`, for the same constants: `ReadInOrder` (`InOrder`), `CompleteWhenOk`
(`OkIsComplete`), `IntactWhenOk` (`OkIsIntact`), `IntactWithoutLoss`
(`IntactUnlessLost`). These speak of what the caller has in the end; the invariant
`Stream` speaks of everything on its way. `Wire(c)` is the message in the receiver's
hands, the subscription's channel and the network, one after the other, and `Stream` is
`Ownership` and, per call:

* `SourceInv`: nothing is written, nor has a length, before a member handles the request.
* `OrderInv`: the messages of `Wire` have increasing numbers, and what has been read lies
  before them; `Sound` says what a message tells of the edge (one without data is the
  last; Done means that the handler has ended, and "ok" that it wrote everything).
  `Spread` is increasing order in a form that bounds a number by its position, so that a
  body with as many chunks as `total` is `1..total`: `OkIsIntact` without induction.
* `EndInv`: a clean end of the pipe, or of the call, comes only with the whole response.
* `GapInv`: unless a message was lost (a message dropped by a full channel is), what was
  read and what is on its way have no gap while the subscription is there, and at a clean
  end everything sent was read.

Every action either leaves `Wire` as it is, moves its first or last message, adds one
at the end, or thins it out (losses, `Unsubscribe`, `CloseConn`); the lemmas are about these.

`PromiseProofs`: `ImplementsPromise`, `Spec => PromiseKept`. Initial states map to
initial states, and with `Stream` in the state before, each action maps to a step of
`StreamPromise` or to a stutter; the difficult steps are `ReadChunk`, where the
abstract side delivers a later chunk, and `ReadEnd`, where it ends.

`ClientsProofs`, for all callers, links, connections, configs and file contents:

* `OneTransportPerKey`, `TransportOfOwnLink` from `CacheInv`: at most the holder of
  `mu` is between lookup and store; a key has one entry, that stays; who is done has
  the entry of its key, whose transport is of the link in the key.
* `CacheImplementsPromise`: `AtomicLookup` of `TransportCache`. `Hit` is the answer from the table,
  `Store` the new entry, where what `Miss` did not find is still not there because the lock is
  held; `ComputeKey` asks, and everything else is a stutter. An error is neither a key
  nor a transport (`FailedAssumption`).
* `OptionsKept`: `OptionsHonoured`, for all contents of the files, empty ones included, from
  `OptionsInv`: while a caller waits for the lock or holds it, its key is the key of what it
  has loaded; what is in the map keeps to the options of *every* config with its key
  (`KeyHonours`: the second read fills what was empty and replaces nothing, so what the key
  was made from is in the transport); and who stores keeps to its own second read
  (`LoadHonours`). It needs that nil is not a TLS config (`NoTLSAssumption`).
* `ClientsUseTheCache`, that `Clients` implements the specification of the cache, which
  carries these theorems over to it; `ClientsTyped`, `ClientsUseTheirLink`
  (`ThroughOwnLink`) from `ClientInv`: a caller works on a config of its own or in place on one
  the program keeps, and the latter is its alone unless somebody else works there too.

`LinksProofs`, for all pods, links, controllers and calls: `LinksTyped`,
`RequestsOfOwnLink` (`OwnLinkOnly`), `AnswersOfOwnCall` (`OwnAnswer`) from `LinksInv` and
lemmas about the subjects: a connector's subject imports the requests of its link only, and
an exported reply has the link and the call in it. `OneAnswer` is `SingleResponse` under
`OneController` (pods of one link are of one ReplicaSet), which `links_rollout` shows
to be necessary: a request then goes to one member, which answers once (`CallInv`).

`ResponseWriterProofs`, for all handlers, responses, and sizes of the buffer, the
writes and the responses: `WriterTyped`, `MessagesHoldOwnBytes` (`OwnBytes`),
`DoneEndsResponse`, `DoneOkAfterAllBytes`, `HandlersAnnounceTheEnd`. The invariant
`WriterInv`: nobody has the response or the writer of another (`Exclusive`); while a
response is written the buffer is exactly its bytes from the end of its messages up to
`given`, and none of its messages has Done (`HandlerInv`); the messages are in order
(`ResponseInv`). The lemma `FlushesInOrder` says of `bufio.Writer.Write`, in all its cases,
that what it flushes and what it keeps are consecutive pieces of what it was given; `ChainInOrder`
and `AppendLast` that messages made of them go on where the others ended.

**Model-checked only:** the liveness properties `CallReturns`, `NoPodsIsAnError`, `DialEnds`,
`ServedAgain` and `RegistrationEnds`: liveness under fairness is beyond the proof system.
Every safety property of a passing run is proved. The violations of section 6 are,
of course, only found.

## 5. Not modelled

* `demo-server`'s `main`, see `Registration` above.
* `pkg/link`: I/O without state. Of `proxy-server` and `demo-client`, the client they
  make is in `Clients`; parsing, routing and copying are not modelled.
* In `NatsProxy`, reconnection is seen as lost messages and failed publishes; what
  the hub publishes while it reconnects is buffered by the client and not lost, which
  is one of the outcomes the model has.
* `NatsProxy` has one queue group, the normal case; `links_rollout` is about two.
* The content of requests, headers and statuses.

Some behaviour is described here only, because no property can hold of it: the
cache key has neither the connection, nor the type of subject names, nor the timeout, so a
caller with a new connection can be given a transport on an old one; nothing is
evicted from the cache; on the edge `DisableCompression` has no effect on a
request without TLS options, which uses `http.DefaultTransport`; a hub limit of 500 ms or
less is sent as 0, which the edge takes for 30 s; `pkg/http` with a nil connection
caches a transport without one.

## 6. Divergences found

Shown by a run:

* **`proxy_leak`**: a response with a length that ends on a flush boundary is
  followed by an empty Done message. The caller has its body and stops reading;
  the receiver's write of no bytes never returns, and the deferred `Unsubscribe`
  never runs (nats.go 236).
* **`proxy_timeout`**: a limit is to be "the maximum length of time to wait before
  giving up on a server request" (client-go), but the receive loop ignores
  `ErrTimeout` and the request's context (nats.go 229): a lost request or Done
  leaves the caller waiting.
* **`clients_cert`**: a client certificate given by files is marked for a
  reload by `loadTLSFiles` and then not copied into what is sent: the edge
  connects without it (types.go 79).
* **`clients_empty`**: `tlsConfigKey` is to return "a unique key for tls.Config objects"
  (cache.go 106). A CA file that is empty when the key is computed (reading it is no
  error) and written before it is read again (cache.go 83, types.go 61) gives a transport
  with that CA under the key of a config without one, and a caller without a CA is given it.
* **`links_rollout`**: the queue group is named after the ReplicaSet (run.go 168). While
  two ReplicaSets overlap, a request is handled by a pod of each, and both stream their
  response to the one subscription of the caller.

Met while modelling, on paths no property is stated for:

* When `PublishRequest` fails, `Proxy` returns without unsubscribing (nats.go 208); the
  receiver that would was not started.
* `GetNoCopyConfig` sets `Transport` and keeps the TLS options (rest/lib.go 41); client-go
  refuses a config with both ("may not be specified with the TLS client certificate options",
  client-go's rest/config.go 104): `kubernetes.NewForConfig` in `handleCallback` fails for
  every kubeconfig with a CA. `Clients` has the refusal (`NewForConfig`); `Registration`
  takes the call for one that may succeed or fail: its properties are about the handler with
  that repaired.
* `GetNoCopyConfig` sets `Transport` also when `New` fails: a config that two callers pass to it
  is refused to the second and loses the transport of the first, whose client then goes
  straight to the API server (rest/lib.go 41).
* A deadline without a transport timeout, or one that has
  passed, gives 30 s instead of the minimum the comment of `timeout` promises (nats.go 162).
* `MaxReconnects(-1)` does not make a connection permanent: an unknown error from the
  server, or the same refusal of the credentials twice, closes it. `NewConnection` sets no
  `ClosedHandler`, `Run` does not look, and its health checks are pings, so the
  connector stays up and is never reached again (nats.go 50). `ServedAgain` excepts this.
* The proxy server looks up `linkID` where its route has `cluster_id`
  (proxy-server/main.go 73, 80): the response subject has an empty token, and
  `SubscribeSync` refuses it.

## 7. Plan

Order, most important behaviour first:

1. Done: `NatsProxy`, `StreamPromise`, `CachePromise`, `TLSConfig`, `TransportCache`, `Clients`,
   `ResponseWriter`, `RoundTrip`, `Links`, `Registration`, their runs, and the proofs of
   section 4, which cover every safety property of the passing runs.
2. Left: a proof that the flushes of `ResponseWriter` are what `NatsProxy` counts, that
   is, a refinement between the two modules' views of one response.
