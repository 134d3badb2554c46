# Verification of keel

keel is a portable asynchronous networking substrate in C. Its core is a set of
small state machines (stream, listener, connect operation, datagram) that a
transport adapter drives through hooks, an event context that dispatches readiness
or completion events, a timer heap and a thread pool. Below the core are the
backends (readiness, io_uring, IOCP, a portable completion backend, UEFI, lwIP);
above it are HTTP/1, HTTP/2, WebSocket, DNS and the PROXY protocol. This directory
models them in TLA+, checks the models with TLC on small instances and proves
central facts of the core with TLAPS for every value of the constants.

Paths in this file are relative to the repository root.

## What is hard about this code

Almost everything runs on one thread, and yet the hard part is concurrency.

* A hook may complete *inside the call that started it*, and every callback may call
  back into the object that is calling it. `kl_stream_resume` called from the
  delivery of a receive that completed inside `read_arm` is four frames deep, and
  every frame re-reads fields the inner ones changed.
* Operations are owned by a kernel, a firmware or a network stack while they are
  posted. A close, a cancel or a free comes at any time before their completion is
  dispatched, and the storage must outlive them.
* An address or a slot is reused while an event for its previous owner is on its way.
* What is written is cut anywhere by the socket, and what is read is cut anywhere by
  the peer.

Only the thread pool has threads. Its hard part is the classic one: a condition
variable, two rings under a mutex, and a self-pipe whose drain races the push.

## The parts and their modules

| part | code | module |
|---|---|---|
| stream: read, write and close machines | `src/stream*.c` | `KlStream`, `KlStreamProofs`, `StreamReadProofs`, `StreamQueueProofs` |
| listener: accept pump, credits, leases | `src/listener.c` | `Listener`, `ListenerProofs` |
| connect operation: happy eyeballs | `src/connect_op.c` | `ConnectOp` |
| event context: watchers, batches, re-arm | `src/event_ctx.c` | `EventCtx` |
| timers | `src/timer.c` | `TimerQueue` (abstract), `Timer` (heap), `TimerQueueProofs` |
| thread pool | `src/thread_pool.c`, wake-up pipe | `ThreadPool`, `ThreadPoolProofs` |
| write buffer | `src/drain.c`, `src/drain_reserve.h` | `Drain`, `DrainProofs` |
| datagram facade | `src/datagram*.c`, `src/completion_life.c` | `Datagram` |
| pipe streams and listener | `src/pipe_stream.c` | `PipeStream` |
| completion backends, drain and dispatch | `src/event_pollcomp.c`, `event_iouring.c`, `event_iocp.c`, `completion_*.c` | `PollComp`, `IoUring`, `Iocp` |
| UEFI TCP and UDP | `integrations/platform/uefi` | `EfiTcp`, `EfiUdp` |
| lwIP TCP and UDP | `integrations/platform/lwip` | `LwipRaw`, `LwipUdp` |
| HTTP/1 server on readiness | `src/protocols/http/http_server*.c`, `http_connection.c`, `async.c` | `HttpServer` |
| HTTP/1 server on completions | `completion_http_server.c` and its WebSocket and HTTP/2 glue | `CompHttpServer`, `CompQueue` |
| HTTP client, pool, redirects, blocking client | `http_client_*.c`, `http_redirect.c` | `HttpClient`, `HttpRedirect`, `HttpClientSync` |
| bodies: forms, MIME parameters, chunked | `http_body_reader_multipart.c`, `http1_chunked.c` | `Multipart`, `MimeParams`, `Http1Chunked` |
| HTTP/2 server and client | `src/protocols/http2`, `integrations/http2/nghttp2` | `Http2Server`, `Http2Client` |
| WebSocket frames, server, client | `src/protocols/websocket` | `WsFrames`, `WsServer`, `WsClient`, `Utf8` |
| DNS resolver, resolver cache | `dns_resolver.c`, `resolver_cache.c` | `DnsResolver`, `ResolverCache` |
| PROXY protocol | `proxy_protocol.c` | `ProxyProtocol` |

The parts meet at the hooks. An adapter (HTTP connection, pipe, TLS stream) calls
the `kl_*_on_*` entry points of a machine from a watcher callback or from a
completion dispatched by the event context; timers and the thread pool's pipe
callback run in the same tick. A module treats what is below it as an environment
that may do anything its contract allows (complete inline, complete later, complete
in part, fail, hang where the code expects that) and what is above it as an
application that may call back with anything the headers allow.

Three compositions are modules of their own: `Datagram` is the facade with its three
machines, its token and its watcher; `PipeStream` is the pipe adapter with the stream
machines it drives; `CompHttpServer` is the completion driver with the connection, its
async operations, the TLS engine and the sweep.

## How the code is translated

**Re-entrant machines with frames** (`KlStream`, `Listener`, `ConnectOp`, `EventCtx`,
`Datagram`, `HttpServer`, `HttpClient`, `HttpRedirect`, `ResolverCache`,
`DnsResolver`). The C struct is a record with the C field names. A sequence of open
frames, innermost first, stands for the C stack: calling a hook or a callback pushes
one, and what the C function does after the call returns is the frame's return action,
which reads the state then current. The code between two calls is one atomic step,
which is exact because there is one thread. While a frame is open the environment may
call any public entry point. A ghost record (`prov`) says what the adapter really
holds; it is what the flags are compared with.

**Handlers as sets of outcomes** (`PipeStream`, `CompHttpServer`, `WsServer`,
`WsClient`, `Http2Server`, `Http2Client`, the backends). Where what a callback may do
is a short list, a C function is an operator from a record to the set of records it may
leave: one for each answer of the platform and each choice of the callback. A handler
is then one action, which is the whole of it.

**Backends**. An operation is a record with the place it is at (posted, in the kernel or
firmware, completed, drained into the batch). The next operation of a kind reuses the
address of the last, which is the reuse an allocator may make. Kernel, firmware and
lwIP are external and free within what the code relies on; where the code has a path
for a firmware that never confirms a cancel, the model's firmware may hang.

**Parsers and algorithms** (`Multipart`, `Http1Chunked`, `ProxyProtocol`, `WsFrames`,
`Utf8`, `MimeParams`) run over symbolic bytes, one symbol for each class the code tells
apart, and are compared with a definition written over the whole input. The input is
handed over in every possible cut.

**Assumptions on hooks.** Where the repository's adapters promise more than the header
says, and the code relies on it, the promise is an assumption of the model:

* a `read_arm` that fails has not also closed the stream (`src/stream_read.c:70`);
* `arm_delay` returning -1 has not fired the timer (`src/connect_op.c:120`);
* a listener's arm hook that fails has not also closed the listener when the window is
  larger than one (`src/listener.c:148`).

A hook that breaks one of them does leave the machine stuck or miscounted, so these are
contracts an adapter has to keep, and no property of the machines covers them.

**Assumptions on the HTTP application** (`HttpServer`): between suspending and being
resumed a handler does nothing more to its request; a handler that awaits the body has
not begun to answer; pause and resume are used while the body is being read; a streaming
handler re-entered at the end of its body does not wait for more; `on_cancel` only
releases what the application holds.

## Modules

**KlStream** models `kl_stream_read_*`, `kl_stream_write*` and `kl_stream_close_*` for
three transports: readiness, completion with a copying `submit_fn`, completion with a
referencing one. The write queue is its length; `Drain` has the bytes.

**Listener** models the pump with its trampoline (`pumping`, `pump_pending`), the credit
pool, and the lease handed to `on_accept`. **ConnectOp** models resolve, the staggered
race over `N` addresses, both timers, cancellation, and the delivery and disposal of
descriptors.

**EventCtx** models the watcher list by node address: a freed address may be returned by
the next allocation, which is what the retired list guards against. A batch is drained,
then dispatched event by event; each callback may touch any watcher and run a nested tick.

**TimerQueue** is the abstract specification of timers: a set of pending (deadline, id)
pairs and a stack of open `kl_timer_fire` calls. **Timer** is the binary heap of
`src/timer.c`, with sift-up, sift-down and removal from the middle, shown to refine
`TimerQueue` and to stay in heap order (`RefinesQueue`).

**ThreadPool** has one action per critical section and per step outside the mutex (end of
`work_fn`, the write to the pipe, its drain), the waiting set of the condition variable
with spurious wake-ups, and the event-loop thread's position in `thread_pool_on_pipe` and
`kl_thread_pool_free`. A done callback may run the loop again; `pool.frames` counts the
activations of `thread_pool_on_pipe` that will still use the pool when they go on.

**Drain** numbers the bytes. A write offers them to a socket that takes any prefix or
fails, after what is pending; growth doubles and clamps; a length whose sum overflows is
refused and leaves the drain usable; the preallocated form takes all or nothing.
**CompQueue** is the output queue of a completion-mode connection. To reserve room it
compacts, grows, or, while the kernel reads the buffer, starts another beside it. It has the
kick that posts one send at a time, the absorption of TLS ciphertext, the mark at which a
queued response counts as sent, the allowance of a WebSocket producer, the close after
output, the shrinking of an idle buffer and the release.

**Datagram** models the facade rather than its machines one by one: what is hard is how
they share the `busy` count. Its stack holds, besides the user callbacks, what each C
function still has to do (`leave`, `reconcile`, `dispatch_leave`, `rearm`, `release`), and
only the top entry can step, so the continuations are forced and never optional. The
life token's count is compared with the operations and events that hold it.

**PollComp**, **IoUring** and **Iocp** have the post, cancel, drain and dispatch of every
kind of operation and of readiness watches. IoUring has the submission ring with its
limit (a post or a cancel may find it full), registered buffers, and file sends in two
stages; Iocp the port's packets and the zero-byte probes that stand for readiness;
PollComp the one pass over pending operations with a bounded batch.

**EfiTcp** and **EfiUdp** have the static slots over firmware tokens, their generations,
quarantine of a slot whose cancel is never confirmed, the loop that harvests tokens, and
clients and a server above. A queued UDP send is started in the order of its sequence number;
an owner that opens without an address (`Unbound`) may find its slot closed by the open.
**LwipRaw** and **LwipUdp** have the lwIP callbacks, which only
record state, the drain that turns it into completions, and address reuse by lwIP's pools.

**HttpServer** models the readiness run loop with a pool of connections. `conn[c]` is a
`KlHttpConn` reduced to its state, the request's framing, keep-alive, how the response is
produced, and two ghosts that count answers and what the body reader was told. `event` and
`async` are the two transition switches. `dispatch_depth` is the presence of a handler or
reader frame of the connection. The loop's phases are those of `kl_http_server_run`: wait,
batch, sweep, deadline walk, timers, drain.

**CompHttpServer** is the same server over completions, for one slot: receive and send
operations, TLS drive record by record, draining, pause and resume of the body, upgrades,
the sweep, release.

**HttpClient** takes a request through the connect race, proxy tunnel, TLS handshake, send
and receive, each a handler of the one watcher of its socket, under one deadline, with the
idle pool. The name is resolved later or inside the start call (a literal, a cached answer,
the blocking resolution), which may itself be made from another request's `on_done`. A
history (`told`) counts the `on_done` calls of each client. **HttpRedirect** follows answers
over it. **HttpClientSync** is the blocking client with its deadline, addresses and growing
buffers; it may be called again with the same response object, and refuses bad arguments
before it clears that object.

**Http2Server** and **Http2Client** have the stream tables, the callbacks of the session
(nghttp2, external), flush, close, and free from a callback. **WsFrames** is frame
assembly for either end; **WsServer** and **WsClient** are the sessions: the upgrade (accepted
or refused, with frames behind it), sending directly or through a drain, ping, closing
handshake, deadlines, teardown. The server's drain empties into a socket or, on a completion
loop, into the bounded output queue of the connection. A history (`backed`) says whether the
running ping interval began behind unsent output, when the peer is given up for the stalled
output and not for a missing pong.

**DnsResolver** has requests of two legs over a search list, retries over nameservers, the
send queue, truncation and the shared TCP connections with their idle close, whose timer may
be refused. Transaction ids are abstracted to the leg `dns_find_leg` returns.
**ResolverCache** is the cache in front of it.

## Runs

A run that groups components (`core`, `sessions`, `backends`, `protocols`) has a variable
`part`, chosen at the start, that says which component the behaviour is of; the instances
and their bounds are the `INSTANCE` lines of its MC module, and each property of the group
says what it asks of each part.

| run | components and instance | what it shows |
|---|---|---|
| `streams` | `KlStream`: queue of 2 bytes, writes of 1 or 2, 4 bytes in all, 8 open frames, 3 transports | detachment only when retired and outside guarded frames; no lost re-arm or writable edge; bytes conserved; bounded recursion; no delivery after close; a cancelled close, and a close with nothing left to wait for, completes |
| `core` | `ThreadPool` (2 workers, 4 items, capacity 1), `ConnectOp` (3 addresses, every subset of optional hooks), `Listener` (windows 1 to 3, 3 credits, both delivery models) | one owner for each descriptor, value and credit; one callback per item; no lost wake-up or credit; nothing can reach a detached object; everything started ends |
| `datagram` | `Datagram`: 2 slots, batches of 1, cursor of 2, groups of 2 segments, both adapters | close or reclaim once and last; references match holders; no lost writable edge, re-arm or datagram; every close is reported |
| `http_server` | `HttpServer`: 1 connection, every kind of route and body, with and without TLS, 2 suspensions | what the connection waits for; one outcome for each request; a request under way ends |
| `sessions` | `DnsResolver` (search list), `HttpClient` (one of every kind; two over one pool), `HttpRedirect`, `CompHttpServer`, `WsServer`, `WsClient`, `Http2Server`, `Http2Client` | the last callback is the last word; nothing is left registered or allocated; operations balance; what a redirect carries; output goes out; only silent peers are dropped; sessions end |
| `backends` | `EventCtx`, `Timer`, `PollComp`, `IoUring`, `Iocp`, `PipeStream`, `Drain`, `CompQueue`, `EfiTcp`, `EfiUdp`, `LwipRaw`, `LwipUdp` | no event reaches another watcher; one completion per operation; storage held exactly as long as something may touch it; bytes in order; no cancel or watch lost to a full queue; windows, buffers and accepts conserved; the heap is a queue; timers on time |
| `protocols` | `Multipart`, `Http1Chunked`, `ProxyProtocol`, `WsFrames`, `Utf8`, `MimeParams`, `DnsResolver` (two servers; two requests over one), `ResolverCache`, `HttpClientSync`, `HttpServer` with two connections | parsing does not depend on the cut; algorithms agree with their definitions; lookups keep their timers; the blocking client tries what it has time for and leaves nothing; two connections that end each other's operations keep apart |
| `stream_detach_mid_callback` | as `streams` | **violated**, see *Findings* |
| `eventctx_cross_rearm` | 3 descriptors, 4 node addresses | **violated** |
| `http_reuse_unread` | 1 connection | **violated** |
| `pipe_free_in_held_resume` | 1 pipe of every shape, with frees from a held delivery | **violated** |
| `dns_tcp_stalled_write` | 1 request, 1 server | **violated** |

### Bounds

The instances are chosen so that each limit is met. The stream's queue fills and
refuses; the listener's window exceeds, equals and is below the credits; the race has a
winner, a loser and an address not started; node addresses run out so that reuse
happens; one heap has three levels, and another the seven entries at which the last one may
belong above the hole a cancelled one leaves; the pool admits three items and four are submitted; a
GSO group fills the datagram's ring; io_uring's submission ring has one or two entries so
that posts and cancels find it full; drains double, meet their limit, and one meets the
largest length; the output queue of a completion connection doubles up to three times and
takes writes as long as its largest post; a WebSocket drains into a socket, into an output
queue of one unit, or sends at once; UEFI slots can all be quarantined, and their generations
reach the maximum; two UDP owners share one slot, or one has a second beside an abandoned one; lwIP
has two pcb addresses, reuses them, and its generations wrap; an HTTP/2 table holds both
streams or only one; forms are read without limits and under two sets of limits that some
bodies meet and others do not. Two operations of
different kinds share each completion backend, because their interaction is the batch,
the ring or the port; `backends` has an instance for each pair that shares code.

`MaxSuspends`, `MaxFrames`, `MaxTaken`, `MaxSpurious`, `MaxId`, `MaxTime`, `MaxCalls`,
`MaxDepth`, `MaxBatch`, `MaxFill`, `MaxSegs`, `MaxBytes`, `MaxWrite`, `MaxEvents`,
`MaxSends`, `Doublings`, `OutMax`, `GenMax`, `GenMod`, `SizeMax`, `U64Max`, `Total` cap what
is unbounded (or very large) in the program. Symmetry is used for the descriptors and node
addresses of `EventCtx` in `backends`, which checks no liveness. `KlStream`'s `MaxDepth` is
larger than the depth any step needs before the machine itself defers, which
`BoundedRecursion` shows for arms and deliveries.

### Fairness

Safety is checked without fairness. Nothing is ever assumed of a user (no call is
required to happen) or of a peer (it may never send or read another byte), and of the
event loop only what it does:

* `streams` and the listener: a hook or callback that was called returns, and an operation
  whose cancel hook was called completes once control is back in the loop. Another posted
  operation may stay posted for ever, so `CloseCompletes` asks for an end where the close is
  a cancel, or where nothing the transport holds or could still take keeps the object.
* the rest of `core`: each thread of the pool that can take a step does; a connect operation's
  resolve and attempts end. It needs nothing of its timers: resolve and attempts alone must
  decide the race, as the deadline is optional.
* `datagram`: what a C function still has to do is done, callbacks return, and the loop
  dispatches what is ready or completed, with a socket that takes queued datagrams in the end.
* `http_server`: besides, timers fire; an operation is completed or cancelled in the end; a
  body deadline, the idle timeout of a send and a drain's deadline pass in the end at a
  sweep; the loop that reads on a decrypted TLS record ends (`KL_TLS_DRAIN_MAX`); a
  streaming handler re-entered at the end of its body answers.
* `sessions`: callbacks return and due timers fire. That is all for the resolver and the
  HTTP client: every session ends by its timers if by nothing else. A redirect relies on
  the inner client ending its request, which is the client's own property. A completion
  connection relies on cancelled operations completing and on the sweep; a WebSocket on the
  clock and the sweep.

Strong fairness is used where an event loop could starve a due timer or a finished
operation only by dispatching something else for ever, which a tick does not do: it runs
every due timer and every ready event before the next one.

## Findings

Each is a run that TLC shows violated.

* `stream_detach_mid_callback`, `src/stream_read.c:88`: `kl_stream_on_recv` clears
  `recv_inflight` before it calls the delivery hook, and `stream_close_finalize` defers for
  cancel and writable frames only. A delivery that closes the stream runs `on_close` while
  `stream_deliver_and_continue` is on the stack and about to read the stream's fields.
  `docs/contracts/stream.md:213-217` says "never mid-callback".
* `eventctx_cross_rearm`, `src/event_ctx.c:374`: `dispatch_dirty` is one flag for the
  context. A callback that touches another watcher suppresses the re-arm of its own, so on
  a one-shot backend a live watcher can stay disarmed.
* `http_reuse_unread`, `src/protocols/http/http_connection.c:941`: a handler of
  `kl_http_server_route_streaming` that answers before its body was read keeps keep-alive
  on, so the connection is reset to READING and the rest of the body is parsed as a request.
  The async branch forces keep-alive off for this reason (lines 849-854), and
  `include/keel/http_server.h:97` says of a keep-alive response that its "body is already
  consumed". The same happens to a handler that suspends in the middle of the body and
  answers when resumed (lines 950 and 1715).
* `pipe_free_in_held_resume`, `src/stream_read.c:90`: a completion pipe is paused with a
  receive posted, and the receive is held. `kl_stream_resume` delivers it; an `on_data` that
  calls `kl_pipe_free` drops the last reference, and `stream_deliver_and_continue` reads the
  freed stream. `include/keel/pipe.h:94` says "Legal at any time, including from inside
  on_data / on_close".
* `dns_tcp_stalled_write`, `src/protocols/dns/dns_resolver.c:1063`: a query queued on an open
  DNS connection whose socket takes only part of it leaves the watcher on READ alone, with
  bytes unsent. Line 926 says "READ always; WRITE while connecting or unsent".

### Further disagreements, seen in the models

These are not runs; each was reproduced with TLC on the module named, with the property or
constant named in that module, and is not asked of the passing instances.

* `WsServer`, `PongGoesOut`: a pong kept back behind a full drain is sent by the next read,
  not when the drain empties (`http_server_ws.c:184-192`, `http_server.c:657-661`);
  `websocket_server_internal.h` says it "goes out once the drain empties".
* `WsClient`, `LeftoverParsed`: frames that arrive with the upgrade response are discarded
  when `on_open` starts the closing handshake (`websocket_client.c:731-738`), and the parser
  then starts in mid-stream, which the comment at 697-698 says is to fail instead.
* `IoUring`, `RearmedAfterCallback`: the single-shot watch left unarmed by the second finding
  above; and `ZeroSplice`: a file send whose second stage returns 0
  (`event_iouring.c:1015-1018`) against `src/completion.h:241`.
* `Iocp`, `CancelIsFinal`: an operation that is reposted for its remainder after a cancel that
  found nothing to cancel completes normally (`event_iocp.c:1268-1285`, `1458-1471`;
  `src/completion_io.h:91-93`).
* `EfiTcp`, `AcceptStorageKept` with an Accept token that hangs
  (`socket_efi_tcp4.c:1178-1208`, comments at 204 and 322).
* `EfiUdp`, `DetachedIsClean` and `StoragePinned` with one slot and abandoned operations
  (`event_efi.c:439-469`; `include/keel/datagram.h:129`).
* `EfiUdp`, `FailClosed` with an unbound owner and another owner: an open whose Configure
  failed closes its slot, and "every subsequent op fails" (`socket_efi_udp4.c:670`). A handle
  carries no generation, so once another socket reuses the slot the failed datagram's operations
  act on that one, and a queued send whose cancel is recorded may be posted for it
  (`event_efi.c:447`).
* `Http2Server`, `RefusalReported`: `h2_answer_and_release` returns "-1 if the session refused
  the response" (`http2_server.c:223-224`), but `h2_submit_500` (135-142) drops the session's
  answer, so a stream whose 500 is refused is released without an answer or a reset.
* `Http2Client`, `ResetFails`: a stream reset with NO_ERROR before its response ended is handed
  over with KL_ERR_NONE, which `http2_client.h` gives to a stream that completed.
* `LwipRaw`, `PcbsOwned` with two clients, which are known by address
  (`lwip_raw_glue.c:1007` and `1486-1491`), and `DeathIsReported` (957-960).

### Observations

Core: the three hook contracts listed above; a readiness listener closed from inside
`on_accept` is not disarmed when nothing is in flight (`src/listener.c:90`), so its adapter
must drop the interest when `on_close` comes; `kl_watcher_add` failing for WRITE strands an
accepted datagram (`src/datagram.c:68`), failing for READ leaves the bit in `want_mask`
(`src/datagram.c:199`); a GSO producer refused for an outstanding group is owed no
`on_writable` (`src/datagram.c:750`); teardown of a datagram that is closed and not freed arms
the abandon and never calls the owner's reclaim (`src/datagram_close.c:227`);
`kl_dgram_close_retry` has no caller.

Backends: an io_uring poll completion with a result of 0 or less leaves its watch unarmed
(`event_iouring.c:1184-1204`); a `kl_event_mod` refused for lack of a submission entry has
already stored the new mask, so a retry with the same mask does nothing (339-349); the
portable backend drops a batch when it cannot allocate, and its last-in-first-out list may
starve the tail; acks of a synchronous lwIP send count toward a later one; the UEFI
listener's teardown does not destroy the child handle of a completed Accept that was not
harvested; `efi_sock_close` of a dead connection does not bump the generation; a pipe
listener whose loop is freed first never detaches, as documented; no backend's classifier
reports a transport error, so a datagram is never closed with `KL_DGRAM_CLOSE_ERROR`.

HTTP: `kl_http_request_pause_body` and `_resume_body` modify the registration in every state,
so after the body was read they drop the WRITE interest of a connection that is sending
(`http_server_core.c:857`; `http_request.h:125` calls it safe); a backend that reports two
events of one descriptor in a batch lets the second find an upgraded connection closed and
release it again (`http_server.c:707`; the backends report one event per descriptor); a paused
body that times out drains with no READ interest, one chunk a sweep; the deadline walk saves an
operation that `on_deadline` may end (`http_server.c:735`); a legacy handler that suspends and
then awaits the body has no absolute body deadline, which is why `RequestEnds` asks for one;
`kl_http_server_stop` sets `draining` before the deadline it is read with (`http_server.c:766`);
the sweep's 408 does not tell the body reader; a plaintext WebSocket on a completion loop whose
backlog flush fails closes "after output" without posting it; the READING arm of
`kl_http_comp_resume` is unreachable through the public interface; a 3xx without Location at the
limit is returned as it is by the blocking loop and as a redirect loop by the asynchronous one; the
blocking client does not look at its deadline while a streamed body stays writable, and leaves
`resp->error` as it was when it refuses its arguments (`http_client_sync.c:592-597`); an allocation
that fails in the form reader is reported as a limit (`HEADERS_TOO_LARGE` or `INPUT_OVERFLOW`)
although `http_body_reader_multipart.h:69` has a code for it.

Others: a resolver-cache hit hands `done_fn` a pointer into the table, which a nested
resolve or clear may overwrite; TLS read loops bounded by 256 records can leave plaintext
behind until the next event (`websocket_client.c:983`, `http_server_ws.c:708`,
`http2_server.c:871`, `http2_client.c:537`); an HTTP/2 client's `on_resp` may follow the
close for other streams of a batch, and on a connection error the streams in flight are told
through `on_error` only; the chunked decoder does not say how many bytes it used;
`batch_lines` of the SSE writer drops a trailing newline.

## Proofs

Seven modules hold proofs, each for every value of its component's constants; the only
assumption of each is the named assumption on the constants in the component's module,
which the runs evaluate on their instances. In every module the facts are proved from an
inductive invariant with one lemma per action; the properties themselves are not inductive.

| module | theorems | inductive invariant |
|---|---|---|
| `KlStreamProofs` | `StreamTypeCorrect`, `StreamCloseDiscipline` | `StateInv` (`StreamInvariant`) |
| `StreamReadProofs` | `StreamNoLostRearm`, `StreamBoundedRecursion`, `StreamNoDeliveryAfterClose` | `StateInv /\ ReadFlow` (`StreamReadInvariant`) |
| `StreamQueueProofs` | `StreamNoLostWritable`, `StreamBytesConserved` | `StateInv /\ QueueFlow` (`StreamQueueInvariant`) |
| `ListenerProofs` | `ListenerCreditsConserved`, `ListenerDetachedIsRetired`, `ListenerDetachNotMidCallback` | `ListenerInv` (`ListenerInvariant`) |
| `ThreadPoolProofs` | `PoolTypeCorrect`, `PoolNoLostWakeup`, `PoolFreedIsSettled`, `PoolOneCallback` | `PoolInv` (`PoolInvariant`) |
| `TimerQueueProofs` | `TimerCallIsBounded`, `TimerFiresAllDue`, `TimerNoPastDeadline` | `QueueInv` (`QueueInvariant`) |
| `DrainProofs` | `DrainNoGap`, `DrainFitsBuffer` | `DrainInv` (`DrainInvariant`) |

**Stream**, for every capacity, every set of write lengths, every depth bound and every
subset of transports. `StateInv` has six parts: `TypeInv`; `OpInv`, a posted operation is
exactly an in-flight flag, apart from the instant inside an arm; `CancelInv`, the request
flag is the count of cancels the provider has seen; `CloseInv`, CLOSED means notified,
retired and read-closed; `FrameInv`, each guard counter and flag (`arming`, `submitting`,
`in_close_cancel`, `in_writable`) is the presence of its frame on the stack, and which frames
can occur once; `TailInv` and `DetachClean`, what lies under an `on_close` frame. The frames
are the reason the invariant is needed: the code between two hooks is right only because the
flags say which hooks are open.

The two facets build on it. `ReadFlow` adds who is left to arm the next receive (one in flight,
an open delivery, or the trampoline of an arm that deferred another) and that between two open
deliveries lies the `read_arm` whose inline completion made the inner one, which bounds the
recursion. `QueueFlow` relates the queue to the operation in flight: who moves the queued bytes
next, what the provider has taken of them, and what an `on_writable` that is owed waits for.

**Listener**, for every pool size and accept window. Between two hooks the account is
`Settled`: free credits, leases and posted accepts add up to the pool, posts are what the
adapter holds, `in_start` and `in_dispatch` count the open hooks, and no hook of the pump lies
above an open arm. The account is open in three places, each a disjunct of the invariant:
inside `reserve` (a credit may be taken that is not posted yet), inside `arm` (an accept is
counted that may not be posted), and under `on_close`. `pumping` is what keeps two of them from
being open at once: undoing a failed post restores exactly what the pump saw before it.

**Thread pool**, for any items, workers and capacity. Every accepted item is in exactly one of
the work ring, a worker's hands and the done ring, and `inflight` counts them all; that is why
a worker may push to the done ring without a check. The wake-up follows from where the loop
thread stands between draining the pipe and reading the ring.

**Timers**, for every clock width, number of timers and nesting of `kl_timer_fire`. Each open
call has fired no more than the timers pending at its start less those older than its watermark
that are still pending; a timer added since then is not due before the call began. The theorems
are about `TimerQueue`; the heap's refinement of it is model-checked.

**Drain**, for every capacity, limit and write size. What left the drain counts up from the
first byte and what it holds goes on from there, also after a failure.

Model-checked only, being out of the prover's reach: liveness (`CloseCompletes`, `WorkEnds`,
`RequestEnds`, `SessionsEnd`), and everything that needs induction over data, which is the
heap with its recursive sifting (`RefinesQueue`) and the parsers and algorithms of
`protocols`. The other safety properties are model-checked and not yet proved.

## Not modelled

* Wrappers of system calls (sockets, files, platform layer) and the readiness backends
  themselves: pure I/O. The one-shot or level-triggered arming they differ in is in
  `EventCtx`.
* TLS libraries, nghttp2, llhttp, miniz: their behaviour is decided outside this repository.
  The callers are modelled over an engine that may want either direction and may hold decrypted
  bytes, a session that may call back with any frame, a parser that may return any verdict.
* Text and wire formats: header formatting, URL parsing, routing patterns, CORS, SSE, DNS
  message encoding, `resolv.conf`, WebSocket masking and accept keys. Sequential code without
  state between calls.
* In the stream: replacing hooks at run time and streams with one facet. In the listener: the
  lease's liveness token at pool teardown. In the datagram: socket options, multicast, the
  open sequence. In the event context: capability negotiation and interest masks. In the HTTP
  server: accept back-off, the file-read path, socket activation.
* Three things that can go wrong are outside the properties: a `read_arm` that closes the
  stream and then fails (`src/stream_read.c:71`), which the model assumes away; a
  `kl_watcher_add` that fails in the datagram (`src/datagram.c:68`); the deadline walk's
  saved next operation (`src/protocols/http/http_server.c:735`).

`PROJECT.json` lists every part with its status and reason.

## Running

```
tlc -config KlStream.cfg KlStream
tlc -config Backends.cfg MCBackends
tlapm ListenerProofs.tla
```

and likewise for the other configurations. `PROJECT.json` names each run with its module and
properties, the source lines of every definition, and for every property a changed definition
(`Mut...`) that breaks it. The slowest run takes a few minutes with two workers, the slowest
proof module about three.
