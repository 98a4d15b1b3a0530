# TLA+ models of yllm

yllm is an LLM inference engine in C with a serving layer that runs it as a set
of cooperating processes. This directory holds TLA+ models of both: the parts
whose correctness depends on interleaving, failure and order, and the algorithms
of the engine that are hard to get right; the TLC runs that check them on small
instances; and TLAPS proofs, for every instance, of what matters most. Paths
below are relative to `src/`.

Module `M` is checked through `MCM` (constant definitions only), the modules
without shared state through `MCStandalone`, with `tlc -config X.cfg MCM`.
`PROJECT.json` lists the runs, maps every definition to the lines it models, and
gives for every checked property a plausible bug (`mutants`) that breaks it. The
operators marked `\* mutant` in the modules are those bugs; no specification uses
them. It also lists the hazards of the code, each at its line with the properties
that would notice it going wrong.

## 1. The system

```
 client --HTTP/JSON--> router_http --+                  +--> rank 0 --pipeline--> rank 1 ...
 client --frames-----> router -------+--> server -------+      (engine, KV cache)
                         ^               | ^    INFER, INFER_CACHE
            SERVER_ADD/  |               | | LEASE / RELEASE / HEARTBEAT
            DEL/UPDATE,  |               v |
            QUERY_SERVERS+---------- supervisor <--HEARTBEAT-- ranks
                                     (spawns and heals the processes)

 inside a rank:  text --template, tokenizer--> ids --engine--> logits --> token
                 picture --vision encoder--> rows at the image slots of the ids
                 engine = architecture (llama, gemma4, qwen35) x device (CPU, CUDA, Vulkan)
                          x its segment of the layers, on a mapped model file (LLF)
```

All messages are length-prefixed text frames on short-lived TCP connections
(`serve/frame.h`, `serve/protocol.h`): a sender connects, writes one frame, reads
the answer under a timeout and closes. Nothing is retransmitted by the
transport, and a receiver handles a frame even if its sender has given up. Only
the ring between the ranks of a group stays open. Every process but the
supervisor has threads.

| Component | State | Operations | Hard behaviour | What makes it correct |
|---|---|---|---|---|
| **Supervisor** `serve/supervisor.c` | node table (registration order), states, last heartbeat, leases with expiry, `router_notified`, pids of spawned processes | HEARTBEAT, LEASE, RELEASE, SCALE, QUERY_*, `heal_dead` on every turn of a 500 ms accept loop | nodes that are late, die before their first heartbeat, come back; lost notifications; one thread that can be held up | a lease is never stolen or leaked, a dead holder loses its leases, the router is told of joins and deaths, one process per id, lost processes come back |
| **Server** `serve/server.c` | session table, `infer_lock`, its state, its lease at the supervisor | one thread per connection: INFER, INFER_SESS, lease polling, heartbeats | calls that time out after the callee has received them; several requests in one process; crash while holding a lease | inference only on leased ranks, one server per rank, leases returned, answers go to their caller |
| **Rank** `serve/rank.c` | job ring under `q_mu`, `in_flight`, `draining`, `quit`, `engine_lock`, KV cache with `cache_key` and `cache_pos` | IO thread (INFER, DRAIN, PING, STAT), work threads or a pipe thread, heartbeat thread, main thread | ring at its limit, drain against running jobs, flags written without the mutex, lost wakeups | no job lost, overwritten or answered twice; DRAIN answers OK only when idle and always answers; the process ends |
| **Session inference** `serve/server.c`, `inference/core/cache.c`, `serve/rank.c` | the server's token list per key, the rank's KV rows, `<key>.sess` and `<key>.rN.kv` | prefix match, incremental prefill, NEED_FULL resend, save and load | two caches of the same thing in two processes, evictions, timeouts whose jobs go on, crashes between two saves, torn files | the model always continues exactly the client's prompt |
| **Router** `serve/router.c` | `servers[]` under `r->lock`: state, inflight, waiting | SERVER_ADD/DEL/UPDATE, snapshot of the supervisor, choice of a server, forwarding | notifications lost or out of order, counts written by two parties, lock paths with early returns | it follows the supervisor's view, counts settle, requests end |
| **HTTP front end** `serve/router_http.c` | ring of one-second slots, queue limit | rate limits on requests and tokens, back-pressure, JSON/SSE | check and count in two critical sections, slot reuse after the window | limits hold, or are exceeded by a known amount |
| **Layer pipeline** `inference/core/dist.c` | sockets of the ring, per rank its KV rows, session key and position | connect, session handshake, prompt in batches, token loop, save | a peer that drops out in the middle, old connections on a port, frames nobody read, caches of unequal length | logits come from segments that all computed the same text; a round ends |
| **Engine** `inference/core/engine.c`, `inference/arch`, `inference/device`, `cuda` | activation and KV rows on host and device with a flag for each, per-layer embeddings, recurrent state | prefill in batches, decode, segments of layers | which copy is current, batches cut at limits, shared rows, layers on two sides | the logits are those of the whole text, on every architecture and device |
| **Vulkan back end** `inference/vulkan` | buffers, command buffer, chain of submissions | record, barrier, submit, host steps in between | a buffer overwritten before commands that read it have run | the reference's logits in every order the barriers allow |
| **CUDA kernels** `inference/cuda` | shared memory of a block | launches, tree sums, products, rotations, attention | warps and blocks in any order, barriers, sizes that round up | what was asked for, nothing else written |
| **Matrix products, attention** `inference/core/matvec.c` | per-thread buffers | loops per format and instruction set | remainders, layouts, split among threads | every weight meets its activation once |
| **Tokenizer, templates, image slots** `inference/core/tokenizer.c` | none across calls | render, encode, decode, expand | nested chains, merge order, markers in user text | lossless, BPE, true branches, slots in place |
| **Weight streaming** `inference/core/engine.c` | state per layer, ring of jobs, the pages of the process, a byte budget | ask for layers ahead, drop those behind, free | a prefetch thread beside the engine; states changed without a lock | what is held is counted and can be dropped; the thread is gone before the file is unmapped |
| **Generation** `inference/core/engine.c` | logits, position, draft | sample, forward, verify a draft | logits overwritten while sampling, drafts accepted, ties in a sort | every token follows from all that was handed out, with the probability asked for |
| **Vision** `inference/vision` | work buffers, the grid of slices | encode a picture | buffers reused, rows reordered when patches merge | tokens of the reference network, in order |
| **Model files** `inference/convert`, `inference/include/llf.h` | the file being written | convert, repack, permute in place, read | crashes, output onto input, formats that differ per tensor | an accepted file holds every tensor in the form it claims |
| **Worker daemon, file server** `serve/dist_worker.c` | `dest`, `dest.tmp`, children | sync, run, stop | source changes during a copy, torn copies, crashes | a file reported current is current |
| **Hub, ctl, status, sync, wire formats** | process lists | - | - | section 8 |

## 2. Modules

Every module keeps the names of the code. Critical sections of a mutex are single
steps unless the code lets something else happen inside; everything a handler does
before it gives control away belongs to its action. Data is abstracted to what the
properties tell apart: a row of a KV cache is the token, or the term, it was
computed from; a weight is its place in the block; a scale is its index.

| Module | Models | Composes |
|---|---|---|
| `RankQueue` | threads of one rank process | - |
| `Supervisor` | node table, lease pool, healing, notifications | - |
| `LeaseProtocol` | the servers' request threads against the supervisor | EXTENDS `Supervisor` |
| `SessionKV` | session inference across server, rank and disk | - |
| `Router` | router threads, against a supervisor reduced to what it reports | - |
| `DistPipeline` | the ring of ranks: connections, handshake, rounds, crashes | - |
| `Completion` | abstract: what an engine call promises | - |
| `LayerSplit` | which layers a rank computes | - |
| `EngineForward` | forward pass over architectures, devices, segments | EXTENDS `LayerSplit`, implements `Completion` |
| `RateLimit` | admission by requests and tokens per window | - |
| `FileSync` | copying a model file from another host | - |
| `ChatTemplate`, `Tokenizer`, `ImageSlots` | from messages to token ids | - |
| `VulkanQueue` | recording, submission and execution of Vulkan commands | - |
| `VisionImage`, `VisionEncoder` | sizes and slices of a picture; the three encoders | `VisionEncoder` EXTENDS `VisionImage` |
| `KQuants`, `W4Panels`, `MatVec` | block formats and their loops; matrix products | `MatVec` EXTENDS both |
| `Attention` | one-pass softmax over a cache of rows | - |
| `CudaKernels` | launches, blocks and warps of the CUDA kernels | EXTENDS `KQuants` |
| `ModelFile` | conversion into and reading of the model file | - |
| `WeightStream` | residency of the weights, between the engine and its prefetch thread | - |
| `Generate` | sampling and the loop of tokens, with drafts | - |
| `MCStandalone` | instances of the modules from `RateLimit` on, one at a time | INSTANCE of each |

Proofs are in `RankQueueProofs`, `LeaseProofs` (about `Supervisor` as well), `LayerSplitProofs`,
`SessionProofs`, `RouterProofs`, `RateLimitProofs`, `FileSyncProofs` and `WeightStreamProofs`;
each EXTENDS the module it is about (section 7).

### RankQueue

State: the ring (`jobs`, `q_head`, `q_tail`, `q_len`), `in_flight`, `draining`,
`drain_fd`, `quit`, `io_stop`, the holder of `q_mu`, the threads in
`pthread_cond_wait`, `engine_lock`, a program counter per thread, and the
clients' connections with their answers. `hbNet` and `svState` are the heartbeats
under way and the supervisor's view of the rank.

`Io*` are the branches of the IO loop (`IoInfer`, `IoPayload`, `IoEnqueue`:
header, payload, then refusal or enqueue under the mutex; `IoDrain`; `IoBeat`),
`Work*` the work thread, `Pipe*` the pipe thread of a worker segment, `Finish*`
the four steps of `rank_finish_drain`, which either kind of thread may run,
`Hb*` the heartbeat thread, `Main*` the joins in `run_rank`. `quit` is written
without `q_mu`, so a work thread that has tested it and not yet entered the wait
("check") is a state of its own. `SpuriousWake` is what POSIX permits.

### Supervisor

State: `nodes` is the table in registration order, which the lease and heal loops
depend on; `late` replaces the clock (a heartbeat clears it, `GoesLate` sets it);
`live` counts real processes per id and `recorded` says whether `spawn_pids` names
one. `rview` and `missed` are the router's table and the notifications that failed.

One action per handler: `Heartbeat`, `LeaseGranted`, `Release`, `Scale`,
`HealServer`, `HealRank`, `ExpireLeases`. The environment is the most general
one: any live process sends any frame at any time, processes end and are started
by hand. Refused frames and queries change nothing and are no steps. A heal does not
start "the same id": `heal_dead` takes the number behind the `-` of an id with `atoi`
(`supervisor.c:231`, 250-252), so "server-a" or "rank-r0" starts number 0, and the record
of number 0 is overwritten (88-90). `SpawnedAs` is the id that a respawn of a node really
starts, `Respawn` what that does to processes and records.

### LeaseProtocol

`Supervisor` with the real servers: a thread of `srv_conn` reports BUSY, sends
LEASE until it is granted or it gives up, infers on the granted ranks, sends
RELEASE. `backlog` holds the frames that wait at the single-threaded supervisor.
With `Stall` a caller's 5 s may run out: it goes on, and its frame is handled later
without anyone to read the answer; without it a live node is never late. `NodeEnds`
removes a process together with its threads, calls and inferences. Where a respawn has
started a second process of one id, it has any part of those (`PartOf`), and healing
breaks only what belongs to a process on record (`Broken`).

### SessionKV

A cache row is identified with the token it was computed from, so a KV cache is a
sequence of tokens and `cache_pos` its length; comparing the rank's `kv`, the
server's `sess` and the prompt then says exactly which rows the model attends to.
`Start` is `forward_infer_sess` up to the first send (prefix match, `resume`,
replay of the last token on an exact hit), `Done`, `Resend`, `Refuse`, `Timeout`
its outcomes; `Begin`, `Run`, `Save` are `handle_infer_cache` before, under and
after `engine_lock`. Files are written by the two processes at different moments;
a crash in between leaves an old file or a torn one (`Bad`). `mode`, chosen at the
start, says how the system is deployed and what may go wrong. The branch of the
server for a refused full resend is left out; `FullResendTaken` checks that it
cannot be reached.

A key is not one name everywhere. The server knows a session by the key of the client,
the rank by its first 63 bytes (`RankKey`; `rank.c:773`), and in the names of files the
characters that a path may not have become `_` (`FileName`; `server.c:115`, `rank.c:330`,
`cache.c:343`). The files hold no key, so whoever has the same file name loads them.
`SessName` and `KvName` are the two names of a client's key.

### Router

`servers[]` as `table` plus `entry`; `lock` is set only where the code keeps
`r->lock` beyond a step, that is, on the two early returns that forget to unlock.
Request threads walk through `Start`, `Pick`/`PickNone`, `Known`, `Connect`,
`Count`, `Answered`, `Uncount`; `HandleAdd/Del/Update` are notification threads;
`Query`, `ReadInfo`, `QueryCut` are the main thread's snapshot, applied frame by
frame. The supervisor appears as what it reports (`Beat`, `DeclareDead`, each with
a notification that may be lost). What it reports of a server is any number (`Counts`):
a server's `inflight` is counted up and down by its connection threads without a lock
(`server.c:687-727`), so that an update may be lost for good, and includes the requests
of other routers. `Init` allows any supervisor state: the router
may have been restarted.

### DistPipeline

Every rank has its rows (`kv`), the session they belong to (`key`), its file and a
program counter; `net` is the set of connections with the frames in them, the
listening sockets and their backlog. `Setting` and `WorkerInit` are the two sides of
`dist_init` with its order of connect and accept and the timeouts of `sock_connect`,
`Master` is `dist_gen` on rank 0 (handshake, batches of the prompt, token loop, DONE),
`WorkerRound` the loop of the other ranks, `Finish` and `Answer` what the callers in
`rank.c` do with the result. A send to a closed connection fails or is lost; `Crash`
closes all sockets of a rank, may tear its file, and `Restart` begins with empty rows.
`setup` is the deployment: ranks, files, who may crash, whether clients go away,
whether there are pauses longer than the worker's 100 s, and how many frames a socket
holds before its sender blocks.

### LayerSplit, EngineForward, Completion

`LayerSplit` is `dist_split_layers`: one pass over the blocks, one step per block. The
run and the proofs cover any block sizes and weights, shares of no layer, and the
pinning of gemma4's row-sharing layers.

`EngineForward` takes the shares from `LayerSplit` and executes calls: `Prefill` and
`Decode` choose a call, `Chunk` cuts it into batches as `engine_forward_prefill` does
(`batch_min`, `pb_cap`, the device's own prefill), then `Token*`, `Batch*`, `Cuda*` or
`Vulkan*` walk through input, layers and output of one batch in one segment, and
`wire` carries activations to the next. An activation after a block is the tuple of the
block, its input, the rows it attended to and its per-layer embedding, so a stale buffer,
a missing row or the wrong position shows in the logits. `Completion` is the promise
to a caller: keep a prefix of the text, append tokens, get the logits of the new text.
The detailed specification implements it (`ImplementsCompletion`), liveness included.

### FileSync

`Publish` replaces or overwrites the source at any moment, `AskHead`, `Get`, `Open`,
`Block`, `Rename`, `Utime` are `sync_file` against `serve_conn`, `Break` a lost
connection and `Crash` the end of the daemon between any two steps. Blocks carry the
version they are from.

### ChatTemplate, Tokenizer, ImageSlots

`ChatTemplate` executes the flat statement list with its stack of chain states, once
per message. `Tokenizer` has the steps of the three encoders (specials, the best pair
or the longest piece, byte fallback) and the decoder; the reference is the usual
definition of BPE. `ImageSlots` fills pairs of markers; its prompts contain markers in
every order, since users may write them.

### VulkanQueue

The host side (`Call*`, `HostStep`) produces the commands of `vulkan_fwd.c` for an
embedding, a block, the staging of a row and the output; `pend` are the submitted
commands and barriers, and `GpuStep` executes any of them that no barrier holds back.
`vk` says what the device, the model and the switches decide: whether memory is shared and
the host can map the scratch buffers, whether weights and norms are resident, layers
grouped or chained, which matrices of each layer are Q4_K (`q4`), whether there are biases
and norms of q and k, and how the output is computed. What is not done by one of the fused
kernels is made of single operations (`FusedAttn`, `FusedQkv`, `AttnDecode`, `HostAttn`, ...),
with rows of K and V on both sides.

### VisionImage, VisionEncoder

`VisionImage` computes sizes, slices and refusals with the integers of the code.
`VisionEncoder` makes of each view the list of kernels an encoder runs (`todo`), with
their buffers as in the code, and executes it; a row is the term it was computed by.

### KQuants, W4Panels, MatVec, Attention

`KQuants` gives for each format where the bits of weight and scale are, and for each
loop the set of products and offsets it adds. `MatVec` splits a product among threads
and goes through blocks and panels with the loops of `FusedLoop`/`OneToken`/`Batch`;
a result is right if the loop is and every block was added once. `Attention` keeps
the exponents of weights, so that the rescaling of a running softmax is exact.

### CudaKernels

A call of `cuda_fwd.c` becomes a list of launches (`todo`), each a grid of blocks of
warps. `Run` is a warp of a kernel whose threads do not meet; `Load`, `syncthreads`,
`Fold` and `Read` are the steps of a tree sum in shared memory, `ReadRow` goes on to the
next row of an attention. An element of `mem` is the term it was computed by, a sum
the bag of what it adds, so that a part that is lost or added twice shows. The threads of
a warp are taken to run in step, as the code does between its barriers.

### ModelFile

A conversion (`conv`) reads a source, makes the list of items, packs it
(`ApplyDtype`), writes header, directory, metas and tensors one by one (`llf_emit`), or
permutes panels where they are. `disk` is what is on disk, with torn ends; `Accepted`
is `llf_read`. `Wanted` is what the engine reads from a slot, by the names of the source.

### WeightStream

`pstate` is the array of that name, `mapped` the layers with pages in the process. `Poll`,
`TakeJob`, `Scan`, `Fetched` are the prefetch thread; `StartToken`/`StartBatch`, `Ensure`,
`Compute`, `Ask`, `Enqueue`, `Release` are a call of the engine, layer by layer, and `Free`,
`Unmap` its end. Only the ring is under a mutex: each access to `pstate`, a byte, is a step of
its own. `sched_adapt_budget` looks at page faults and free memory: any of its outcomes.

### Generate

One action for each thing the loop of `engine_generate_mix` does with a token. The logits a
`Forward` yields are arbitrary, and carry the rows they follow. exp is a power of two, so that
probabilities are exact, and a random number is a share of the mass.

### RateLimit

`rl_scan`, `rl_bump_req` and `rl_bump_tokens` on a ring of `Win` slots. The clock
is read before the lock is taken, so it may tick in between. `admitted` and
`charged` are history variables, the reference the slots are compared with.

## 3. What the runs check

### Runs that pass

| Run | Properties | What it shows |
|---|---|---|
| `rank` | `RingConsistent` `OneHolder` `DrainMeansIdle` `InFlightExact` `JobAnswered` `DrainCompletes` `PoolViewConverges` | no accepted job is lost, overwritten or in two hands; `in_flight` is the number of running jobs; DRAIN is answered OK by an idle rank only; accepted jobs and drains are answered, on a worker segment that sits in pipeline rounds too; the supervisor ends with the true load state |
| `sv` | `TableSound` `RouterFollows` `DeathReclaims` | under arbitrary frames, deaths, expiries and respawns under a wrong number the lease table stays sound; except for lost notifications the router knows the servers; a dead server holds nothing |
| `lease_serial` | `UseIsLeased` `ExclusiveUse` `LeaseReturns` `SeenNodeHeals` | every inference runs on ranks leased to its server; no rank works for two servers; a lease returns when its holder finishes or dies; a node that was seen alive and lost its process gets a new one |
| `lease_faults` | `OneAnswer` `OneProcess` `NeverStolen` | with stalls, timeouts, restarts and healing, a server whose id reads as the number of another, and more nodes than the table holds: no thread takes an old call's answer for its own, no lease moves from one server to another except through the pool, and no id gets a second process, unless another registered id is mistaken for it |
| `sess` | `SessionAnswers` `KVAligned` `FullResendTaken` `RequestEnds` | the model never continues anything but the prompt, under keys that files and rank know by other names, in four deployments (`Disk`, `Exact`, `Memory`, `Mixed` in `MCSessionKV`): files with timeouts, rank crashes and torn files; files with prompts that are cached completely; no files with evictions, a full context, a full queue and crashes of both sides; requests without a session in between; and every request ends |
| `router` | `DriftBounded` `ForwardEnds` `RouterConverges` | whatever the servers report, an in-flight count written by two parties stays within the number of requests of the figure reported last, and settles on what is reported; snapshots repair whatever notifications were lost or reordered; requests end |
| `dist` | `SampledFromSession` `SegmentsCommit` `RoundEndsOrOrphaned` | every token is sampled from logits all segments computed from the tokens of the session, after crashes, failed rounds and reloads; the segments hold the same rows after a good round; a round ends, unless the two ends of the ring missed each other |
| `engine` | `EveryLayerOnce` `RowsStayLocal` `ImplementsCompletion` | seventeen deployments (architecture, device, split, number of segments) implement the abstract promise; the shares cover all layers once |
| `standalone` | | the components without shared state: |
| | `SlotsExact` `OverrunBounded` | `RateLimit`: the slot of every second of the window has exactly what was admitted and charged in it, or nothing was, and a scan keeps no other slot; concurrent requests exceed a limit by less than one each |
| | `PromptRight` | `ChatTemplate` (`BranchesRendered`): whatever is rendered stands in branches whose conditions hold, the first true branch of every chain is rendered, once per message, and the one right behind it is not (those after that: section 6); `Tokenizer` (`EncodesTheText`): decoding the ids gives the text back, and a byte-level vocabulary yields what BPE defines; `ImageSlots` (`SlotsFilled`): paddings stand between markers, nothing else moves or is lost |
| | `SyncedIsCurrent` | `FileSync`: a file reported current has the content of the source |
| | `LogitsRight` | `VulkanQueue`: the reference's logits in every execution order |
| | `TokensRight` | `VisionEncoder`: the reference's tokens, in order, for a picture and its slices, one picture after another |
| | `KernelsRight` | `MatVec`, `Attention`: each weight meets its activation once; each row enters the softmax once with the right weight. `CudaKernels`: after the last launch every element is what the call asks for, and nothing else is written, in every order of warps and blocks, but for the race of section 6, whose results `Torn` gives exactly |
| | `FileHolds` | `ModelFile`: a file that is accepted holds what the engine will read, in the form it says, whenever a conversion was killed |
| | `WeightsAccounted` | `WeightStream`: no layer that was queued is forgotten, the ring is never overrun, with a budget every block with pages in the process is counted or still to be, the layer being computed is not a dropped one, and the thread is gone before the file is unmapped |
| | `GeneratedRight` | `Generate`: every token is drawn from unspoilt logits of the prompt and all that was handed out; each token of the nucleus is drawn with its share, and no other, however the sort orders equal ones |

### Runs that refute what the code says of itself

Each is under `findings` in `PROJECT.json` with the line it contradicts.

| Run | Property | What happens |
|---|---|---|
| `rank_quit` | `QuitEndsWork` | `quit` and its broadcast come without `q_mu`: a work thread between its test and its wait misses them and the process never ends |
| `lease_parallel` | `ExclusiveUse` | RELEASE names the server only: the first of two requests to end frees the other's ranks |
| `sess_plain` | `AnswersThePrompt` | a request without a key overwrites rows of a session the rank still claims to have |

### Conditions of the passing runs

The constants of the passing runs are also the conditions under which the code keeps
its promises. TLC shows, with one constant changed, that these are needed:

* `lease_serial` with `Stall = TRUE` violates `LeaseReturns`: a LEASE is granted after
  its caller gave up (`serve/server.c:596`) and nobody releases it, although
  `docs/serving-architecture.md:302` has a rank busy only during the request. With
  `AutoHeal = FALSE` as well it violates `UseIsLeased` and `ExclusiveUse`: a live server
  is declared dead and its ranks are leased to another one while it infers. (With
  self-healing both hold: the late server is killed.)
* `sess` (`SessionAnswers`)
  - with `regenerate` where the rank can lose the session or refuse a job: the full
    resend of an exact hit (`server.c:424`) has its last token twice;
  - with two work threads: `cache_key` and `cache_pos` change outside `engine_lock`
    (`rank.c:393`; the comment at `rank.c:818` says concurrent INFERs queue at the lock);
  - with files and `srvCrash`, or files and evictions: a `.sess` that is older than
    the rank's KV agrees with it in length only (`rank.c:426`);
  - with two servers: nothing pins a session to one of them (`router.c:190`), which
    `docs/serving-architecture.md:402` promises;
  - with `FileName <- Collide` or `RankKey <- Collide`, two keys that share a file
    or their first 63 bytes ("a:b" and "a/b"; two long keys of one user): the rows of one
    session are taken for the other's (`rank.c:328`, 773-781; `cache.c:343`). `KVAligned` is
    violated as well.
* `router` (`ForwardEnds`) with `Strategy = "round-robin"`, or with more servers than
  `MaxServers`: the code returns with `r->lock` held (`router.c:204`, `router.c:55`).
* `dist` (`SampledFromSession`) with `Setups <- WorkerCrash`: a worker with a cache
  directory that crashes between the last logits and its save comes back with the
  `.rN.kv` of an earlier turn, and the handshake (`dist.c:801`) compares lengths only.
  `RoundEndsOrOrphaned` with `Setups <- ThreeIdle`: after more than 100 s without a
  request three ranks do not close the ring again, because a worker that gives up in
  `dist_init` leaks the connection it has accepted.
* `dist` (`SampledFromSession`) where a rank dies inside the ring and the ranks behind it
  still have frames to work on. A logits frame carries neither round nor position
  (`dist_recv_logits`, `dist.c:434`), and the connection of a failed round stays in the
  backlog of rank 0, so that a later round may accept a last rank that still computes for
  the earlier one, and samples its logits. With two ranks this takes a socket that holds
  all frames of a round and a rank 0 that dies between its connect and its accept
  (`Setups <- MasterCrash`), or two crashes (`MaxCrash = 2`) and two frames. With three it
  is enough that the middle rank dies, with one frame in each socket (`ThreeCrash`, which
  violates `RoundEndsOrOrphaned` as well). `docs/serving-architecture.md:515` rebuilds the
  whole group instead; the code starts only the rank that died.
* `dist` (`RoundEndsOrOrphaned`) with `Setups <- ThreeDeep`: three ranks whose sockets hold
  a whole round. A round that waits for no logits, since its prompt fills the context, ends
  on rank 0 while the ranks behind it still set up the ring; the next round connects to a
  port that is about to be closed, and the ring does not close.
* `engine`: qwen35 only appends to its text (`reuse`), since its recurrent state
  is neither reset nor cut back; gemma4 on CUDA takes one prompt in one segment.

### What no property of a passing run can state

* `FreedWith` (`supervisor.c:242`): when a rank of a leased group dies, the ranks behind
  it in the table keep their lease, because the loop compares with a field it has
  cleared. The comment at line 237 frees the whole group.
* `HealServer` and `HealRank` read a node's number with `atoi` (`supervisor.c:231`, 250-252).
  Ids that are no number behind the `-`, as the documentation has them ("server-a" in
  `server.c:9`, "rank-r0" in `docs/serving-architecture.md:614`, "server-q1" in line 765),
  start a second server or rank 0 whose record replaces that of the first one (88-90).
  `OneProcess` leaves out ids that another registered node is mistaken for (`Mistaken`).
* A lost update of a server's `inflight` (`server.c:687-727`) is reported for ever, and
  the router then compares a wrong figure. A server that always reports busy may stay outside
  the candidates after it has once been declared dead (`RouterConverges` says in- or outside).
* `HealRank` (`supervisor.c:252`) spawns external ranks on its own host as well, whatever
  `local` says (line 574); `DeadlineHit` (line 212) never looks again at a node that
  is dead, so a process that ends before its first heartbeat is not spawned again.
* `handle_lease` reads the model name up to the end of the line (`supervisor.c:439`),
  so the timed lease of `serve/protocol.h:126` is never granted to a named model; and
  only a rank numbered 0 counts as leader (`supervisor.c:442`).
* `Waiting` (`router_http.c:118`) counts the queue of dead servers against the limit
  until a server with that id comes back.

## 4. Bounds

* `RankQueue`: 3 clients, 2 work threads and a ring of 2 slots: it holds several jobs, fills
  up and wraps around, jobs and a drain contend for both mutexes. Connections are accepted
  in one order (what each of them sends is open). Larger rings: the proof.
* `Supervisor`: 2 ranks, one of which reports no model name, and a server, in a table of
  3: a group has a rank that dies and one that stays; `Duration` 1 lets leases expire.
  The second rank's id reads as the number of the first (`OddRank`), and `MaxLive` 2 lets
  a second process of an id start.
  `lease_faults` has one slot less than nodes, so that a heartbeat meets a full table.
* `LeaseProtocol`: 2 servers compete for 1 rank; a third thread only where two
  threads of one server matter. `MaxBacklog` 2 or 3 holds a frame of every thread
  or an abandoned one. In `lease_faults` one server was started by the supervisor, the
  other by hand with an id that reads as the number of the first (`OddServer`).
* `SessionKV`: prompts of up to 3 tokens over two letters: a first turn, a second one
  that continues the answer, an edit; matches may be empty, partial or exact. `maxSeq`
  2 makes the context overflow; `SessCap` 2 evicts with one more key; `jobCap`
  1 fills the queue; `MaxOrphans` 1 is a job that outlives its request; `MaxRetry` 1
  stands for 5. Two keys have file names other than themselves, one is cut by the rank.
* `Router`: 1 server and 1 request, and 2 notifications in flight, so that one may
  overtake the other. `MaxTries` stands for 60. Servers report 0 or 1 at any
  time: right, or one off for good.
* `DistPipeline`: 2 segments, and 3 where a middle one matters; a prompt of one batch and
  one of two (`Batch` 1), one generated token besides the first, a context of 4 that
  overflows in the second turn, sockets that hold 3 frames (a whole short round),
  2 where rank 0 may die or there are three ranks, 6 connections (two rings
  and what an abandoned one leaves), 1 crash. With one frame per socket every sender waits
  for its reader, which hides the orders that section 3 describes.
* `EngineForward`: 4 blocks, so that shared rows, sliding windows, recurrent layers and a
  switch of the device each have a layer before and after them; 3 segments, also empty
  ones; batches of 2 in prompts of up to 3 tokens; 3 calls: a prompt, a decode or a
  continuation, and one that meets what both left behind.
* `RateLimit`: 3 threads, a window of 2 seconds and a clock that runs to 4, so that every
  slot is reused.
* `ChatTemplate`: nested chains of up to three branches, dialogs of up to 3 messages.
  `Tokenizer`: texts of up to 3 characters of one to three bytes and up to 6 letters,
  where merges compete and specials overlap; 6 vocabularies of three kinds, also without
  pieces for some bytes. `ImageSlots`: every sequence of up to 5 markers and ids, two
  places, 0 to 3 paddings, an array that overflows.
* `FileSync`: files of up to 2 blocks, 3 versions, a clock that runs to 4.
* `VulkanQueue`: 2 blocks and 2 tokens: state a layer or a token leaves behind meets the
  next one. 286 combinations of device, model and switches: all that matter for layers wholly
  in Q4_K, and for three mixtures of formats, but those of section 6.
* `WeightStream`: 7 layers of different sizes, 4 of them blocks, a window of 2 layers behind
  2, no budget, one for some layers and one for little more than the largest; 2 calls of the
  engine; a ring of 7 slots, the least `StreamAssumption` allows. With or without a thread.
* `Generate`: 3 tokens; logits with and without ties, one token far below the best; a cache of
  4 rows that the prompt or the answer fills; every `top_p` at which the nucleus changes.
* `VisionEncoder`: 2 layers, patches of one pixel, trained pictures of 4 or 8, merges of 2,
  3 and 4; pictures of all aspects, two in succession; each optional tensor once present
  and once missing.
* `MatVec`: 2 threads; 1 or 2 blocks; 2, 3 or up to 5 rows (5, 8 and 11 for panels of
  eight), up to 5 tokens, so that pairs, panels and groups of four have remainders;
  a budget of 3 rows makes the output matrix go in chunks. `Attention`: 2 or 4 heads on 1
  or 2 KV heads, up to 3 rows, every order of their scores.
* `CudaKernels`: warps of 2 threads, blocks of 4, up to 3 of them; 1 or 2 tokens, sizes
  below, at and above a block; windows of several rows, in every order of their scores,
  with heads of one to three warps.
* `ModelFile`: models of 1 or 2 blocks with matrices of 3 rows and panels of 2, so that a
  panel is partly empty; alignment to 4 units; every source, target and dtype of a tensor
  kind; one crash or more, and a second try.

Symmetry is used for interchangeable threads in `standalone` only, which has no liveness.
Deadlock is checked except where the system may stop: a rank process ends, the bounded
clock, calls or crashes end, a sequential component is done, and a set of processes
that all end before their first heartbeat is never seen again.

## 5. Fairness

* `RankQueue`: every thread keeps running (weak fairness), a mutex is not denied for
  ever to a thread that keeps asking (strong fairness for the work threads and for the
  steps of the IO thread that take `q_mu`), heartbeats arrive. Clients owe nothing, but
  a payload that is being read arrives or its connection breaks.
* `LeaseProtocol` (the run `sv` has no liveness): the supervisor's loop wakes at least every
  500 ms and checks the nodes every 2 s, so a due heal happens, which also starts the new
  process of `SeenNodeHeals`; the supervisor works off its backlog; a thread gets its turn when
  there is room in the backlog (strong fairness); an inference ends (`sess`,
  `rank`); a node without a process is declared dead.
* `SessionKV`: the rank's threads run and the server handles every answer. Timeouts are
  not needed for `RequestEnds`: a rank that dies breaks the connection.
* `Router`: threads run, the snapshot is taken every few seconds and is not cut off
  for ever. The router reads a server's answer without a timeout: that it comes to an
  end is assumed, since a live server answers and a dead one closes the connection.
* `DistPipeline`: every rank's thread runs, and the supervisor starts a rank that died
  again. Waiting for a frame is a step that is enabled when the frame, or the end of the
  connection, is there.
* `EngineForward`: a call runs to its end in the thread that made it (weak fairness of
  `Work`); `Completion` asks for the same of its answer. Nobody has to call.
* No fairness on crashes, restarts by hand, arrivals, lost messages or stalls; the other
  standalone modules state safety only.

## 6. Where the code departs

What follows was met while the models were written. The passing instances leave these
cases out, since the code does not keep the property there; the module comments refer to
this section. Two are in, and their property excepts exactly what the code does: the race of
the CUDA attention (`Torn`) and the branches behind a matched one (`NextBranchSkipped`). (Section 3 has those of the serving layer.)

Engine (`inference/core/engine.c`, `inference/arch`):

* gemma4 on CUDA prefills batches on the CPU. The comment at `cuda_ctx.h:68` has the rows
  copied to the device afterwards, but `kv_on_dev` is set by the first layer on the GPU
  (`cuda_fwd.c:338`, 414) and never cleared, and `cuda_after_prefill` has no caller: from
  the second prompt on, the device lacks them. Conversely, rows that a decode on the GPU
  stores never come back for the next batch. `Configs <- GemmaOnCuda` in `Engine.cfg`
  violates `AnswersText`: a prompt of one token, then one whose first two tokens are a batch.
* Vulkan with `gpu_layer_end`: `mark_x_host` uploads the activation (`vulkan_fwd.c:789`,
  `device_vulkan.c:687`) and so marks the device's copy as the current one; before every
  further layer on the CPU `engine.c` (763) fetches it over the one just computed, although
  `docs/design-engine-arch-device.md:436` says the split works. `Configs <- VulkanSplit`
  violates `AnswersText`. With several segments, a middle or last segment prefills on the CPU
  into `e->kv` while its decode reads the device's rows.
* The draft layer (MTP) advances `pos` over an accepted token without computing its row
  (about line 1425). qwen35's recurrent state is never reset or cut back. A failed
  `fwd_block` is ignored. gemma4's per-layer embeddings are cached by position only. Saved
  sessions contain the rows of the host only. `prefill_mix` on CUDA reads `d_pb`, which
  nobody filled. Attention between the tokens of a picture (gemma4) depends on where the
  batch was cut.
* `YLLM_MTP`: because of the position passed over (above), a second token after a right draft is
  computed from a row that nobody wrote. `GeneratedRight` fails with `hits` in any longer
  setup of `TheGenerations`.

Weight streaming (`inference/core/engine.c`):

* A layer is asked for in advance once in the life of the engine: after the first token none
  is "out" again, so the prefetch thread has nothing left to do and later tokens read dropped
  layers by page faults. Without a budget only the first layer of a window is marked. (That
  is also why the ring of 256 jobs, which nothing checks for room, is never overrun by a model
  of up to 256 layers.)
* The "hard" budget (line 144) is exceeded by a layer larger than it and by the current
  layer; norm, head and embedding after a batch are not counted. Ranks of a pipeline and the
  draft layer compute layers without `sched_ensure` and `sched_release_budget`, so the
  budget does nothing there.
* If the thread cannot be created, queued layers stay queued for good: their jobs lie in the
  ring, and nobody comes to take them. (`NotForgotten` counts them as awaited.) `resident`, a statistic, is changed by two threads without a lock;
  so is `pstate`, a byte per layer, whose accesses the model takes to be atomic.

Vulkan (`inference/vulkan`), when several commands share one recording:

* without resident norms and with rotation on the GPU the second norm overwrites the
  first one's slot (`OneSlot` in `MCStandalone`); with resident norms slot 0, the first
  layer's, is overwritten by whatever norms alone: a layer that is not fused as a whole, the
  output without the fused head (`vulkan_fwd.c:845`), a Q6_K head without the quantising
  kernel (`Clobbered`);
* in a chain, or with groups of layers, `buf_bias` is overwritten while it is pending, and
  a fallback layer resets the recorded commands; a deferred last layer is lost when the output
  is computed by the CPU (`Several`);
* `YLLM_VK_LM_CPU` leaves `lm_one_submit` set: `vulkan_final_norm` reports success without
  having done the norm and the fused head declines, so the engine multiplies an activation
  that was not normed, and that may not even have been submitted (857, 945);
* with scratch memory the host cannot map and a Q6_K head without the quantising kernel,
  the host quantises its own old `e->x` (874-877);
* the embedding row goes through a staging copy on every device, since `vk_map_slot`
  (`vulkan_compute.c:297`) does not know `mem_emb`: slower than meant, and right;
* `YLLM_VK_HOSTW`, `YLLM_VK_NOBLOCK` and `YLLM_VK_TOKB_ONECB` are not modelled;
* memory the host maps but that is not coherent is not flushed for rows and rotations
  computed on the CPU; several banks of weights change descriptor sets in use.

Matrix products (`inference/core/matvec.c`):

* `matmul_iq4xs` (567) and `embed_iq4xs` (583) use the first block's scale for all blocks.
* Converted W4 files always have the layout Arm86, but `arm82_scalar`, the loop for
  processors without DOTPROD, `matmul_batch`'s loops and `dequant_mat_f32` do not undo it;
  the flag is looked at on aarch64 only (`engine.c` 414-450).
* `matmul_rows` of W4 from a row that is no multiple of 8, and batches of more than 64
  tokens (zeros for W4, `acc[64]` unguarded otherwise), are not reached by today's callers.
  AVX2 `matmul_q5k` reads 8 bytes behind the last block. The comment at line 2209 has
  F16 and F32 column by column; the code reads rows.

CUDA (`inference/cuda/cuda_kernels.cu`):

* `attn_block_sum` has no barrier after its last one (676), and the loops over rows call it
  again at once (708, 778). Once a head is wider than the 32 threads of a warp, as heads of 64
  to 256 elements are, thread 0 may overwrite `sh[0]` with its part of the next
  score while another warp has still to read this one; that warp then uses another weight
  for its elements. The instances contain such heads; `LaunchesRight` allows their elements
  behind the first warp the weights this race can give them, `Torn`, and no others: the last
  row's is never missed. Blocks of one warp, and heads that see one row only, are safe.

Tokenizer and templates (`inference/core/tokenizer.c`):

* `ST_ELIF` makes a chain that has matched (2) skipping again (1, about line 1229), so a
  later true `elif` or `else` is rendered too, although the comment there has all remaining
  ones skipped. Only the next one is: `NextBranchSkipped` says that much, and
  `BranchesRendered` allows the ones after it. Statements outside the message loop run once
  per message; `loop.first` and `add_generation_prompt` are always true; `!=` and `and` are
  not known; `stk[16]` is not checked; results are cut at 4096 bytes.
* A multi-byte character is looked up as it is before it is spelled byte by byte (571-579),
  so "é" becomes the piece of the byte E9. Texts as long as the room for ids are cut and
  nothing is merged (608, 710).

Vision (`inference/vision`):

* In parallel work mode a picture is encoded outside `engine_lock` (`rank.c:662`).
* A very elongated picture is scaled by one common factor and refused, and so is one whose
  least number of tokens needs more pixels than the trained size. `sc[1024]` bounds the
  attention of minicpmv without a check. The grid of slices is the last picture's when an
  encode is refused early.

Model files (`inference/convert`, `inference/include/llf.h`):

* The permutation in place sets its flag last and keeps no journal: when it is interrupted,
  `llf_read` accepts the file and a second try permutes it again.
* qwen35 `attn_q` in BF16 is split as raw BF16 rows and called F16; an MTP tensor of a type
  that is not supported is kept as dtype 255; optional ones are dropped silently.
* A GGUF file cut off inside a quantised tensor is not refused (comment at about line 755):
  the whole type is dropped, and an output matrix lost so is tied to the embedding.
* `per_layer_token_embd` in Q4_K is packed to W4, which its only reader
  (`gemma4.c:199`) does not know (`convert.c:299`).
* A repack onto its own input truncates what it has mapped and dies; a repack of an Arm86 file
  to another path reports success and writes nothing. `convert_dummy` writes metas of 9
  per layer, `llf_read` expects 31 (`main.c:302`). F32 safetensors are checked with 2 bytes
  per element; results of `fwrite` and `fclose` are not looked at.

Pipeline and files:

* `RoundEndsOrOrphaned` excepts two states: rank 0 waits without a timeout in
  `dist_accept_wait` for a peer that has died, or it took an old connection for the new one.
* `FileSync`: an mtime that goes back, or two changes within a second to the same size, go
  unnoticed; a write error is reported as "downloaded"; a crash between rename and
  `utime` within one second leaves a stamp that matches. The daemon never kills children
  beyond the 64th, and a copy without a timeout holds up `stop`.
* On POSIX `sock_close_fd` (`dist_worker.c:59`) calls itself instead of `close`: the first
  socket that the daemon closes overflows its stack, or never returns where the compiler makes
  a loop of it. `FileSync` has this as a `Crash`, or a server that sends nothing more, at
  any step.

## 7. What is proved

Every theorem holds for every value of the constants that satisfies the `ASSUME`s, which
every run evaluates: for any number of connections, threads, slots, nodes, requests,
keys, prompts, layers and ranks. Where a theorem has a further condition, it is stated
here and in the theorem, and section 3 says what goes wrong without it.

**Layer split** (`LayerSplitProofs`)

* `LayersCoveredOnce`, `RowsAreLocal`: whatever the sizes and weights of the blocks, the
  ranks' shares are ascending, disjoint and complete, and a gemma4 layer that reads
  another one's rows is in its segment. The inductive invariant says that the ranks
  placed so far start in ascending order behind blocks the pass has seen (`Placed`), and
  that each layer has a rank that starts before it and ends after it (`Held`). This
  witness is part of the invariant because it cannot be found from the order of the
  starts alone without counting ranks.

**Rank** (`RankQueueProofs`)

* `RankSafety`, with `RankRing` and `RankInFlight`: `Spec => [](TypeOK /\ RingConsistent
  /\ InFlightExact /\ DrainMeansIdle)`. The ring's indices wrap with `%`, which the
  provers handle badly, so the inductive invariant describes the ring without it
  (`RingShape`). `HolderPc` says at which points a thread has a connection in its hands.
  `DrainInv` carries the argument: while draining, the IO thread is not between a
  payload and its enqueue, and from the claim of a drain on nothing is queued or running.
  Without the first half a job could be enqueued behind the claim.
* `RankCustody`: `OneHolder`. That two threads do not hold a connection is not inductive,
  since a closed connection might still lie in the ring. `Custody` adds the life of a
  connection: it is about to arrive, or closed, or held (`OneStage`), and no two of the
  four kinds of places hold the same one (`Apart`).

**Supervisor** (first part of `LeaseProofs`)

* `LeaseTableSafety`, `LeaseNeverStolen`, `DeathReclaimsLeases`, from `PoolInv`, which
  adds `TypeOK` to `TableSound` (`Registered /\ ExpiryHasHolder`). Only registered ranks
  hold a lease: that is what makes the loops over the table complete.
* `OneProcessEach`, from `RecordExact`: the recorded pid is the only process of a node
  that was spawned here, is not scaled, and that no other registered id is mistaken for. Since
  nodes stay in the table, what is not mistaken now never was (`TableGrows`).
* `RouterIsFollowed`: `RouterFollows`, from `RouterAgrees`: `router_notified` follows the
  state last synchronised, and the router agrees with it unless a frame was lost.

**Leases and requests** (`LeaseProofs`)

* `ExclusiveLease`, `LeaseCoversUse`: `UseIsLeased` and `ExclusiveUse` under
  `OneRequestEach`: each server has one request thread, the supervisor answers in
  time and it spawned the nodes. The first two conditions are needed (`lease_parallel`,
  and `Stall` in section 3); the third keeps a second process from using a server's id.
  The inductive invariant follows a lease through the backlog: a late node that is
  not yet declared dead has no process (`ProcessInv`); threads end with their process
  (`ThreadInv`); an awaited frame belongs to one waiting thread (`AnswerInv`); a server
  about to be declared dead has no frame left, so a new process never meets a LEASE
  or RELEASE of the old one (`OrphanInv`); a server holds nothing before its LEASE is
  granted and exactly its inference's ranks while it runs (`HoldInv`).
* `CallsAnsweredOnce` and `ProtocolNeverSteals` need no condition: with stalls, calls given
  up, crashes and several requests in one server, a waiting thread has exactly one frame
  in the backlog (`CallInv`), and a leased rank changes hands through the pool only. The
  frame of an abandoned call stays in the backlog but has no reader; the proof follows the
  positions of frames through `Tail`, `Append` and the abandoning of many at once.

**Sessions** (`SessionProofs`)

* `FullResendIsTaken`: `FullResendTaken`, for any servers, threads and deployments: the
  branch of the server that the model leaves out is dead code. `TableInv` says that
  a key is in a table once (`Unique`), that the entry of a request in progress is not
  evicted (`Kept`), and that a job that is still awaited is in one place and, resent in
  full, has `resume` 0 (`LiveInv`).
* `SessionsAnswerThePrompt`, `SessionsAligned`: `SessionAnswers` and `KVAligned` under
  `Together`: one server and one work thread, no two client keys with one file or, after the
  rank has cut them, one key (`KeysApart`), and in each deployment with session keys no
  `regenerate` and, if sessions are saved in files, neither a server that loses its table
  nor more keys than it remembers. Section 3 has the counterexample to each condition
  that is dropped. Timeouts whose jobs go on, crashes of the rank between any two
  steps, torn and outdated `.kv` files, evictions without files and full contexts are in.
  Everything rests on `OrderInv`: whatever is still asked of a session after a job starts
  with a part of that job's prompt. An abandoned job that runs late can thus shorten
  what is cached, but leaves no wrong row to those who come after it. Next to it `Content`
  has the files (`FileInv`), the request (`RequestInv`: it goes on where its session ends),
  its job, which is the rank's youngest (`LastInv`), what running and queued jobs contain
  (`WorkInv`), and the agreement of table and rows, in memory and on disk (`AlignInv`).

**Router** (`RouterProofs`)

* `InflightDrift`: `DriftBounded`. Whatever figures the servers report, right or not, the
  count of a server stays within the number of requests of the one reported last. The
  invariant (`DriftInv`) relates it to the threads that have added themselves: their
  increments and decrements move both, and a report sets the count back to the figure.

**Admission** (`RateLimitProofs`)

* `WindowExact`: `SlotsExact`. The invariant needs `ClockInv` (a clock reading in use
  is less than a window old), so that a thread never claims the slot of a second that a
  later one has taken, and a lemma without `%` (`SlotsApart`): two seconds of one window
  have different slots.
* `LimitsHold`: `OverrunBounded`, for any number of threads, limits and seconds. What stands
  in the slots of a window is a sum over slots, and the sums are folds, which the provers
  do not know. The lemmas `SumOver` (a sum is one of its terms and the sum of the others) and
  `SumInto` (a sum whose terms go one to one into no smaller terms of another is no larger)
  are proved from the definition of the fold, by a least set for which they fail.
  `ScanSeesAll` then says that what a scan adds up is no less than what the window holds.
  `ReqInv` and `TokInv` count a thread that has passed the scan as if it were in the sums
  already: the bound alone is not inductive, since several may pass before one bumps.

**Model files from another host** (`FileSyncProofs`)

* `SyncIsCurrent`: a file reported current has the content of the source, as far as size
  and mtime can tell. It is for files of any size and any number of versions, over an
  unbounded clock. The blocks of a download are those of the version HEAD has seen as long as
  the mtime is (`DownloadInv`), so the stamp that `utime` sets last vouches for all
  blocks (`StampInv`); a crash at any step leaves an unstamped file.

**Weight streaming** (`WeightStreamProofs`)

* `StreamAccountsForWeights`: the five parts of `WeightsAccounted`, for any number of layers of
  any sizes, any budget, depth and number of calls, under `StreamAssumption` (the ring has
  a slot for every layer). That the ring is not overrun is not inductive, since nothing in
  `sched_enqueue` looks: `JobsAreFew` says that as many jobs were enqueued as layers have
  ever left "out", so that the size of a set bounds the ring; it is why `NotForgotten` survives
  a slot being used again. `InJob` ties the layer the thread is at to a job, `Marked` says that a
  layer with pages has been marked, and `InUse` that the current one was.
* `LayersAskedOnce`: a layer that has left "out" never returns to it (an action property).

**Only model-checked**: all liveness, which TLAPS cannot do with fairness.
`ImplementsCompletion` has terms that are recursive over layers and rows, so that its
invariant needs induction over data; the same holds for `PromptRight`, `LogitsRight`,
`TokensRight`, `KernelsRight`, `GeneratedRight` and `FileHolds`, which compare loops with a
reference over whole sequences and terms. Induction by a least counterexample, as in
`RateLimitProofs`, is possible there too, but each needs an invariant over such data of its own,
which nobody has written. `SampledFromSession` and
`SegmentsCommit` of `DistPipeline` do not hold for all values of the constants: which crashes
they survive depends on the number of frames in a socket (section 3), and no assumption on the
constants that the code justifies excludes the others. They stay with TLC.
`SyncedIsCurrent` and `WeightsAccounted` of the run `standalone` wrap the component's property
in "this part is the one explored"; the component's own are proved (`SyncIsCurrent`,
`StreamAccountsForWeights`). The refutations of section 3 are runs.

## 8. Not modelled

* Rounding, the quantisation of activations, norms, rotations, activation functions, the
  recurrent layer's arithmetic: floats. In the models each is a term of its operands.
* The draft layer's own arithmetic (`engine_mtp_predict`): a nondeterministic guess. Weight
  streaming on systems without `madvise`, and in ranks of a pipeline, where it does nothing.
* Vulkan's allocation of memory and banks of weights, failing API calls, the shaders;
  CUDA kernels nobody calls (`k_scale_dev`, the rotations of one head).
* Reading of GGUF and safetensors headers, vocabulary files and mmproj files, scaling of
  pixels, `stb_image.h` (third-party), `dump.c`, `convert_dummy`.
* `sync.c`, `ctl.c`, `status.c`: one-shot clients without shared state. `hub.c` starts the
  modelled roles as threads. The worker daemon's table of children.
* Wire formats, JSON, sockets, configuration, command line: parsing. Where a parse matters
  to a property it is modelled by what it does (the model name of a timed LEASE).
* A restart of the supervisor, which loses its leases (`supervisor.c:559`).
* Inside modelled components: text of answers, logging, SSE framing, statistics.

## 9. Plan

What is left, by importance:

1. Proofs: `SampledFromSession` and `SegmentsCommit` of a pipeline in which no rank dies, or
   with a round number in its frames; `SoftmaxRight` and
   `DotsRight` for any number of threads, rows and blocks, and `SlotsFilled`, with the induction
   of `RateLimitProofs`.
2. Router and supervisor composed, with restarts of both; the hub.
3. Refinements: the rank's ring implements a bounded FIFO queue; the lease pool under
   `OneRequestEach` implements exclusive locks; session inference implements stateless
   completion of the prompt.
4. The draft layer in `EngineForward`; the worker's children.
