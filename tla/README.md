# ZmqIpc, specified in TLA+

ZmqIpc is a small C++ library for remote calls and one-way data streams between
two processes over nng sockets and flatbuffers. Its repository carries the
header-only FlatBuffers and FlexBuffers libraries and the tables generated for
it. This directory holds its specification: TLA+ modules translated from
`src/`, TLC configurations that check them on small instances, and proofs
checked by TLAPS.

## 1. The system

| Part | State | Operations | Talks to |
|---|---|---|---|
| **RPC message** (`include/rpc_generated.h`) | type, `uint32_t` id, method, payload | build, verify, read | – |
| **PeerDial** (`NngUdsRpcPeerDial`) | socket, `aio_list`, `method_map`, `next_request_id`, `pending_requests` with its mutex, `dialRunning`, `on_pipe_event` | `start`, `stop`, `register_method`, `set_pipe_handler`, `call_remote`, `recv_cb` | a listener, over nng pair0 |
| **PeerListener** (`NngUdsRpcPeerListener`) | the same without the last two | `start`, `stop`, `run_forever`, `register_method`, `call_remote`, `recv_cb` | a dialing peer |
| **PushDial** (`NngUdsRpcPushDial`) | socket | `init`, `sendData`, `close` | a pull listener, over push0/pull0 |
| **PullListener** (`NngUdsRpcPullListener`) | socket, `running`, `recvThread` | `init`, `startRecvLoop`, its loop, `close` | a push dialer |
| **FlatBuffers** (`flatbuffer_builder.h`, `vector_downward.h`, `table.h`, `vector.h`, `verifier.h`) | the builder: a block that grows downward, its scratch pad, field locations, vtables, the pool of shared strings | scalars, structs, strings, vectors, tables; `Clear`, `Release`, `Finish`; read, look up, mutate; verify | the generated tables |
| **Generated tables**: parameters (`*_generated.h`, 16 tables), the binary schema (`reflection_generated.h`, 10 tables) | a buffer | create, read, mutate, verify, compare keys | FlatBuffers |
| **Response helpers** (`rpc_response_utils.hpp`) | – | `to_result_bytes` | a builder |
| **FlexBuffers** (`flexbuffers.h`) | the builder: a buffer, a stack of values, pools of keys and strings | scalars, strings, blobs, vectors, typed vectors, maps; `Undo`, `Finish`, `Clear`; read, look up, mutate; verify | – |
| nng | third-party, headers only | | |
| `IHandler*.hpp`, `NngUdsRpcClient` | none: one needs a `Pack()` no table has, the other was never implemented | | |

Both peers are servers and clients at once. `start()` arms `num_workers` aios; nng
calls `recv_cb()` on its own threads, one callback for each message and any number of them
concurrently. A request makes `recv_cb()` run the registered wrapper and send
the answer, blocking; a response makes it keep the promise that `call_remote()` of
some application thread has stored under the request's id. `call_remote()` stores
the promise, sends, blocking, and then waits up to three seconds.

What is hard here:

* **Correlation.** Calls of several threads share a counter and a table.
  Answers come late, in any order, after the timeout, or never; a timeout
  races the answer; an id is used again after 2^32 calls, or after a restart.
* **Blocking in callbacks.** Answers are sent from the callbacks that also have
  to receive, and `nng_sendmsg()` has no timeout on either path.
* **Error paths.** A callback that returns early is lost for good; refused and
  rejected messages change owner in ways the code does not follow.
* **Lifecycle.** `stop()` and `close()` race callbacks and threads that block on
  the very socket that is closed last; `start()` and `init()` can fail half-way.
* **Handlers and pipe handlers** run on nng's threads and call back into the
  peer; a handler that calls keeps its worker in the meantime.
* **Memory that moves.** A builder grows its block in the middle of a table and
  takes back what it has just written (an equal vtable, a string it knows);
  places in it are counted from its far end.
* **Widths and boundaries.** How many bytes an offset needs depends on where
  it is written. A verifier adds lengths it was given before it compares them
  with the end.

What makes each part correct:

* peers: an answer reaches its own call and no other, every promise is kept or
  dropped exactly once, a handler runs at most once for a call, calls return;
* workers: each message is freed once, by its owner; no callback outlives its aio;
* lifecycle: `stop()` returns and leaves nothing; a failed `start()` can be repeated;
* stream: at most one late callback, no thread or socket is lost track of, and
  `close()` and `sendData()` return;
* serialisation: what was put in can be read out at any later time, the bytes
  depend on the calls and not on the memory, a finished buffer verifies, and
  what verifies can be read without leaving it.

`PROJECT.json` lists the hazards, each at its line, with the properties that cover it.

## 2. The modules

| Module | Models | Correspondence |
|---|---|---|
| `RpcMessage` | the message | `Request`/`Response` are the two calls of `CreateRpcMessage`; a payload is the call it was built for and whether it has any bytes; `Garbled` is what `VerifyBuffer` rejects |
| `CallRemote` | `call_remote()` of either class, and the RESPONSE branch of `recv_cb()` | one action per critical section and per shared access: `BeginCall` (id), `Register` (insert), `SendAccepted`/`SendRefused`, `WaitTimesOut`, `DropEntry` (erase), `TakeAnswer` (`fut.get()`), `KeepPromise` (find, set_value, erase) |
| `AsyncRpc` | `CallRemote` over a network that delays, reorders and loses | `net` is every message that was built and not yet consumed |
| `AtMostOnceRpc` | the promise to callers | `Succeed` only with the call's own answer after exactly one execution; `Fail` says nothing |
| `RecvWorkers` | the aio workers: `recv_cb()` from entry to `nng_recv_aio()` | `stage`: armed, called, nested (its handler is in `call_remote()`), replying (in `nng_sendmsg()`), lost (returned without arming) |
| `Pair0Link` | the pair0 connection (external) | bounded, ordered, one pipe; senders wait |
| `RpcPeers` | both peers: callers, workers, connection, loss, crash and restart | conjoins actions of the three; refines `AsyncRpc` |
| `MessageOwnership` | who frees an `nng_msg` | `owner` per message, the local variables `msg` and `nng_rsp_msg`, memory handed out again; `BuildReplyUnallocated` is an answer whose `nng_msg_alloc()` fails |
| `PeerLifecycle` | `start()`, `stop()`, `register_method()`, `set_pipe_handler()` and `pipe_cb()` of either class against callbacks | per aio: allocated, armed, in a callback, freed; per socket: its pipe callback. `start()` that opens no socket is `StartUnopened`, one that cannot dial or listen `StartRefused`, one that fails half-way `AllocFails` |
| `PullListener`, `PushDial` | the two ends of the stream | `loop` is the receive thread, which gets data (`Receive`), none (`ReceiveNothing`) or a closed socket (`ReceiveFails`); `close()` is `CloseCalled`, `Join`, `CloseSocket` |
| `DataStream` | the two ends and the push0/pull0 connection | `data` accepted and not received |
| `AtMostOnceRefinement` | `AsyncRpc` seen as `AtMostOnceRpc` | the refinement mapping: `Begun`, `CurrentCall`, `AnsweredCall` |
| `CallRemoteProofs`, `AsyncRpcProofs`, `RpcPeersProofs`, `MessageOwnershipProofs`, `PeerLifecycleProofs`, `DataStreamProofs`, `FlatBuilderProofs`, `FlatSessionProofs` | the proofs of section 4 | |
| `FlatBytes` | little-endian reading and writing, alignment | a buffer is a sequence of bytes; `Junk` is a byte nobody wrote |
| `VectorDownward` | `vector_downward` | `buf` with the data at its end and the scratch pad at its beginning; `ReallocateDownward` moves both |
| `FlatBuilder` | `FlatBufferBuilder` | one operator per member function, from builder to builder: `StartTable`, `AddElement`, `EndTable` with the search for an equal vtable, `CreateSharedString`, `Finish`, `Clear`; and `to_result_bytes` |
| `FlatSchemas` | the generated tables | for each its fields: vtable slot, width, kind, whether it is required |
| `FlatAccess` | access to one field of a table, one key, one string in place | `FieldOffset` goes through the vtable; `KeyLess` is what the builder sorts by, `SetField` the mutation |
| `FlatTable` | `Table`, `Vector`, `String`, key lookup, `Verifier` | `ReadTable` follows every offset; the verifier is a record threaded through its checks |
| `FlatSession` | a client of the builder | `Add...` begins an object, `LibraryCall` makes it one call of the library at a time, then `FinishBuffer`, `MutateField`, `ClearBuilder`, `ReleaseBuilder`, `AbandonTable` |
| `FlatReadBack` | what the client of `FlatSession` reads | properties only: every object, the finished buffer, a damaged one |
| `FlexTypes`, `FlexBuilder`, `FlexReference` | `flexbuffers::Type`, `Builder`, `Reference` with `Verifier` | `b.stack` holds values, `CreateVector` chooses the width; `Meaning` is what a reference stands for |
| `FlexSession` | a client of the builder, by a menu of calls | `Put...`, `BeginVector`, `BeginMap`, `EndPlain`, `EndOfMap`, `KeepLast` and `Reuse`, `UndoLast`, `FinishBuffer`, `MutateNumber`, `MutateText`, `ClearBuilder` |
| `MCAsyncRpc`, `MCRpcPeers`, `MCOwnership`, `MCFlat`, `MCFlex` | instances for TLC | `MCOwnership` declares messages and workers symmetric: they are compared only, and its runs have no liveness property |

`CallRemote` and `RecvWorkers` serve both classes, whose control flow is the same
up to logging. The differences are parameters: `DoubleFree` in `MessageOwnership` (the
listener frees the answer it has sent, `NngUdsRpcPeerListener.cpp:149`) and `is_listener` in
`PeerLifecycle`. `SpoilsReply` in `RpcPeers` bounds which peers spoil an answer: the
listener, which does that by freeing it, or both.

Operators marked *Mutant* in a comment are plausible mistakes; each is named in
`PROJECT.json` with the definition it replaces and the property that then fails.

### Abstractions

* A call is named by its peer and its number on it. Payload bytes are reduced to
  that name, so "the right answer" is a statement about identities.
* The three seconds are a nondeterministic timeout, possible whenever the answer
  has not come.
* Freeing a message nng owns is undefined behaviour, and so is going on after a failed
  `nng_msg_alloc()` of the answer, which neither `recv_cb()` looks at
  (`NngUdsRpcPeerDial.cpp:143`, `NngUdsRpcPeerListener.cpp:145`): the pointer is not set. `RpcPeers`
  takes as outcomes: the answer is sent as it is (`Reply`), as something that does not verify
  (`ReplySpoilt`), or the process dies (`Crash`). `MessageOwnership` records the first as a misuse; for
  the second it lets the pointer be that of any message, whoever has it, and remembers it
  in `unallocated`. From then on its properties promise nothing.
* A failing `nng_pair0_open()` leaves the member `sock` alone (an assumption on nng; the code
  returns at once).
* `nng_send()` of the stream waits for a connection. With `NNG_OPT_SENDBUF` of 120 push0 takes
  that much data without one, so that the model waits more often than the program:
  `SendCompletes` is true of the program, though it could be said of fewer cases.
* The verifier of `FlatTable` is the one that does not track sizes; what the `SizeVerifier`
  computes is checked apart (`ComputedSize`), and that it rejects a buffer with size 0
  is left out.
* A whole number stands for a floating point number, and `IndirectDouble()` needs one thing more:
  of a number that a float can hold it writes the first 4 bytes of the double
  (`flexbuffers.h:1065-1067`, `1442-1446`), which are zero for a small whole number (`LowHalf`).
* `RecvWorkers` is told what is registered; in `PeerLifecycle`, where `stop()` and
  `register_method()` change `method_map`, the methods are there or not.
* `calls`, `serial`, `executions`, `born`, `idOf`, `misused`, `faulty`, `unallocated`, `replaced` and `late` are history
  variables; no guard reads them, apart from the bound on `calls`. So are `made` and `twin`
  of `FlatSession` and `want` of `FlexSession`: what the client has put in.
* A handler is a step that ends, or a call of `call_remote()` (`NestedCall`) whose end
  it waits for.
* FlatBuffers and FlexBuffers are modelled byte by byte, because their properties
  are about bytes. What is abstract: memory `malloc` returns holds `Junk`; a
  floating point number is a whole number in the same width; a few values stand for
  all of a width. A number read from a damaged buffer is cut off at `Huge`, far beyond every
  buffer, as TLC has no 64-bit integers.

## 3. The runs

Bounds on the number of calls, crashes, drops and starts end every behaviour,
hence `CHECK_DEADLOCK FALSE` throughout; that nothing gets stuck early is what
the liveness properties say.

| Run | Shows | Bounds |
|---|---|---|
| `AsyncOwn` | the table is exact (`TableExact`), answers reach their own call (`AnswersOwnCall`), nothing throws (`NeverThrows`), and calls are at-most-once (`KeepsPromise`, refinement of `AtMostOnceRpc`) | two threads, three calls, three ids: two calls overlap, a third begins after a timeout while old answers are under way, and the counter reaches 0 |
| `PeersNetwork` | `RpcPeers` without crashes implements `AsyncRpc` (`ImplementsNetwork`) | both sides call twice, one call of each with arguments that do not verify; one lost pipe, one spoilt answer |
| `PeersCrash` | `TableExact` also when ids are handed out twice while in use and across restarts; the answer to another call is handed out only if both calls were given the same id (`WrongAnswersCollide`), of calls before a restart as well | two threads, two ids, three calls, one crash of either side at any point: the broken promise, the answer from before the restart and the one from a turn before are all reached |
| `PeersNested` | `CallReturns`: where one side calls, and a handler of the other calls it back while a second worker is there, all calls return, for unregistered methods and across a lost pipe as well. The call of a handler is answered by another worker of its peer, in the step that answers it (`NestedNeedsSecondWorker`) | two calls of the listener, two nested ones, two workers on the serving side, one lost pipe |
| `PeersTwoWay` | `CallReturnsUnlessWedged`: with calls both ways, nested calls and a lost worker, calls return unless the peers are wedged; which takes calls of both or a spoilt answer (`StuckOnlyTogether`) | one worker and room for one message each way, so that every way of getting stuck happens |
| `DialOwnership` | until an answer is built without memory of its own, no actor frees or sends another's message (`FreesOnlyOwn`), what an actor points to is its own, but for an answer nng has taken (`NoSharing`), and only refused or rejected messages leak (`OnlyFaultsLeak`) | two workers, a calling thread, four messages: memory is handed out again |
| `DialLeak` | **finding**: those do leak | the same |
| `ListenerDoubleFree` | **finding**: the listener frees what nng owns | the same |
| `Lifecycle` | both classes: no callback on a freed aio (`NoCallbackAfterFree`); `method_map` and `on_pipe_event` change only while no callback reads them, with an owner that configures before `start()` (`UnlockedStateIsAlone`); `recv_cb()` spins on a closed socket only if `start()` has replaced one that was left open (`SpinsOnlyIfReplaced`); otherwise nothing is left behind (`ReleasesEverything`), and after it no `start()` can succeed (`LeakBlocksAddress`); `stop()` returns unless a callback never leaves `nng_sendmsg()` (`StopCompletes`) | two workers, three starts that open a socket: one that fails half-way, one on top of it, one after `stop()`; any number that open none |
| `DataStream` | `ThreadIsFree`, `OneLateCallback`, `OnlyInitLeaks`, `CloseCompletes`, `SendCompletes` | two `init()` on each end, three sends, room for one |
| `FlatBuffers` | objects keep their value while the block is moved and others are made (`ObjectsKeepTheirValue`); equal vtables and shared strings are stored once (`StoredOnce`); the bytes are those of a second builder that had all its memory from the start and no past (`OnlyTheCallsCount`); a finished buffer is aligned, verifies and reads as it was made (`FinishedBufferVerifies`); a damaged one that verifies reads the same wherever it lies (`VerifiedBufferIsReadInside`) | a session for each generated table, from a block of one byte, so that every reallocation happens; three calls, three objects of any kind for `RpcMessage` and two for the others; damage is every truncation, and every byte set to 0, 1 or 255, for `RpcMessage`, `KeyValue` and `EnumVal` |
| `FlexBuffers` | values, vectors and maps mean what was put in, lookups find them, pools hold no string twice (`ValuesKeepTheirMeaning`, `TypeOK`); a finished or mutated buffer verifies exactly if it is not too deep and has, what is shared counted each time it is met, no more things with a size than bytes (`FinishedBufferVerifies`); a damaged one that verifies reads the same wherever it lies (`VerifiedBufferIsReadInside`) | nine menus of five to eleven calls; a string of 254 characters makes offsets cross 255, where they need a second byte; depth three, which nested vectors exceed; five times a vector that has five times the same one (`Bushy`), which is more than its bytes |

The exceptions in the liveness properties are reached, and each is needed: with either
disjunct of `Wedged` removed `PeersTwoWay` fails.

Damage excludes keys of FlexBuffers: `VerifyKey()` (`flexbuffers.h:1842`) looks for a
character that is not zero, so that it does not tell whether a key ends. It is also why
a reuse tracker gives only a one-sided result: `FLEX_CHECK_VERIFIED` (1779) returns
before `depth_` is decremented, so that shared vectors count as nested. The program itself verifies
`RpcMessage` only, never the parameters in its payload; a payload is a byte
vector, aligned to 4 like every vector of bytes, whereas the parameters in it may hold 8-byte
scalars.

### Fairness

*Peers.* Threads and callbacks that can take a step do (weak fairness per
thread and worker); a waiting call ends by its answer or its timeout; nng completes an armed
aio for a waiting message and redials (`NNG_OPT_RECONNMINT/MAXT`). `nng_sendmsg()` gets strong
fairness: senders of a socket queue, so one is served if there is room again
and again. Nothing is assumed of failing allocations, refused sends, lost pipes and crashes.

*Lifecycle.* The owner, the callbacks and the pipe handlers run; `nng_close()` in
`stop()` waits for the pipe handler of its socket, which gets its turn again and again
(strong fairness). That an answer is ever accepted is not assumed; a send on a closed socket fails.

*Stream.* The receive thread runs, its callback returns, nng moves what it can. Nothing
makes the sender send or the owner close.

### Findings

1. `NngUdsRpcPeerListener.cpp:149` frees the answer after `nng_sendmsg()` has taken it
   (run `ListenerDoubleFree`); `nng.h:426-429` gives the message to the socket on success.
2. `NngUdsRpcPeerDial.cpp:250` (and 145, 101, and the listener's lines) leaves a message
   that was refused, or that does not verify, with nobody to free it (run `DialLeak`);
   `nng.h:428-429` and `434-435` make the caller its owner.

Not findings, as no document says otherwise, but worth knowing. `IndirectDouble(1.0)` of FlexBuffers
reads back as 0.0 (see the abstractions); `ValuesKeepTheirMeaning` has that as the value. The
verifier of FlexBuffers rejects small buffers of its own builder that share much by `ReuseValue()`, because
`max_vectors_` (`flexbuffers.h:1725`, `1795`) is the number of bytes. An answer
that cannot be allocated is written and sent all the same. And ids start at 1 in every new object
(`NngUdsRpcPeerDial.hpp:127`) and are all that connects an answer with a call, so a restarted
process can be handed the answer to a call of its predecessor. `PeersCrash` reaches this, and
`WrongAnswersCollide` says that nothing but the same id mixes answers up.

## 4. What is proved

Every safety property the runs check of the calls, the peers, the messages, the lifecycle and
the stream is a theorem, and so are both refinements: for any peers, threads, workers, methods,
ids, capacities and bounds. Of a session with a FlatBufferBuilder three properties are, for any
sizes, texts, options and lengths: the block stays well formed, the bytes depend on the calls
only, and no vtable and no shared string is stored twice. The inductive invariants are defined in
the modules they are about, or beside the proof (`CollideInv`, `ExecutedOnce`, `SessionInv`,
`StoredInv`); TLC has checked each on the instances of the runs, but for the last two, which
range over all strings of bytes: of those it has checked what they imply.

| Module | Theorems | Inductive invariant | Assumed |
|---|---|---|---|
| `AsyncRpcProofs` | `TypeCorrect`, `TableCorrect` | `TableInv` | – |
| | `AnswersCorrect`, `NoBrokenPromise` | `OwnInv` | `NoWrap` |
| | `KeepsPromiseCorrect`: `AsyncRpc` implements `AtMostOnceRpc` | `RefinementInv` | `NoWrap` |
| `RpcPeersProofs` | `PeersTypes`, `PeersTable` | `TypeOK /\ TableExact /\ BuiltUnset` | – |
| | `StuckOnlyTogetherCorrect` | `TypeOK /\ Directed` | every peer has a worker |
| | `NestedNeedsSecondWorkerCorrect` (of every step) | `TypeOK /\ TableExact /\ BuiltUnset /\ NestedKeepsWorker` | – |
| | `WrongAnswersCollideCorrect` | `CollideInv` | – |
| | `OwnAnswerOrOlder` | `CollideInv` | at most `IdModulus` calls of a peer |
| | `ImplementsNetworkCorrect`: `RpcPeers` implements `AsyncRpc` | `NetworkInv` | no crashes |
| | `HandlerRunsAtMostOnce` | `NetworkInv /\ ExecutedOnce` | – |
| `MessageOwnershipProofs` | `OwnershipTypes` | `TypeOK /\ Pointers` | – |
| | `FreesOnlyOwnCorrect`, `OnlyFaultsLeakCorrect`, `NoSharingCorrect` | `OwnershipInv` | `~ DoubleFree` |
| `PeerLifecycleProofs` | `LifecycleTypes`, `NoCallbackAfterFreeCorrect`, `UnlockedStateIsAloneCorrect`, `SpinsOnlyIfReplacedCorrect`, `ReleasesEverythingCorrect`, `LeakBlocksAddressCorrect` | `LifecycleInv` | – |
| `DataStreamProofs` | `StreamTypes`, `ThreadIsFreeCorrect`, `OneLateCallbackCorrect`, `OnlyInitLeaksCorrect` (of every step) | `StreamInv` | – |
| `FlatBuilderProofs` | the memory: `PushPrepends`, `ScratchPushAppends`, `OffsetsSurvivePush`, `PopDrops`, `ScratchPopDrops`, `WriteInPlace`, `EmptyVectors` | – | – |
| | the builder: `TwinCreateSharedString`, `TwinCreateVectorOfStrings`, `TwinCreateTable`, `MadeTableValid`, `ValidAdds`, `VtableStoredOnce`, `TextStoredOnce` | – | – |
| `FlatSessionProofs` | `TwinSortTables`, `TwinChanged`, `CleanStart`, `TwinFinish` | – | – |
| | `SessionInvariant`, `SessionTypeOK`, `SessionOnlyTheCallsCount` | `SessionInv` | – |
| | `SessionStoredInvariant`, `SessionStoredOnce` | `SessionInv /\ StoredInv` | – |

The ASSUMEs of the modules, which the runs evaluate, say no more than that the
constants are of their kind (`SessionAssumption` with them: texts are strings of bytes, options are
Booleans; `BufferMinAlignAssumption`: `buffer_minalign` is not 0). The other assumptions:

* `NoWrap`: a peer object makes at most `IdModulus` calls, 2^32 in the code. Without it an
  answer can be the one to a call a turn of the counter before, as `PeersCrash` shows; what
  is left of the property then is `WrongAnswersCollide`.
* no crashes: `AsyncRpc` has none. `OwnAnswerOrOlder` and `HandlerRunsAtMostOnce` state what
  remains of it across restarts.
* `~ DoubleFree`: the dialing peer. For the listener the property is false (finding 1).
  That every answer gets its memory is not assumed but said in the properties (`unallocated`).
* a worker for every peer: `start()` with `num_workers` of 0 arms nothing, and then a
  connection that is full is never emptied.

Why the invariants are what they are:

* *Table.* `TableExact` alone is not inductive: a promise not yet inserted must not be kept
  either (`BuiltUnset`). No assumption on the counter is needed: when an entry is overwritten its
  promise is destroyed, so the future of that call is `Broken` and no longer one the table has
  to hold. `CallRemoteProofs` has what both systems share: the steps of `call_remote()`
  and `KeepPromise`, once, for either network.
* *Answers.* `OwnInv` adds that the counter and the ids of threads are functions of call numbers
  (`CallIds`), that a message carries the id of its call (`MessageIds`) and that no outstanding
  future is broken (`Unbroken`). Ids then determine calls (`IdOfInjective`, `IdsDiffer`), so
  an insertion finds no entry (`OwnEntry`) and an answer finds its own (`OwnAnswer`).
* *At most once.* A call has at most one message under way (`OneMessagePerCall`), and the
  number of executions follows from where the call is (`ServedOnce`): none while it is built or
  its request travels, one once a filled answer exists.
* *The two peers.* Restarts start the ids at 1 again, so that ids no longer are functions of
  call numbers. `CollideInv` counts from the last restart (`born`): an id is what is left of the number
  of calls since then, every message carries the id its call was given (`IdsCountCalls`; `idOf`
  keeps these ids, as those from before a restart follow from nothing else), and what a future holds
  is the answer to a call that was given its id (`AnswersCollide`). An answer lies in the queue of
  the peer whose call it answers (`Directed`).
* *The network.* `NetworkInv` says that no two messages in the connection, in the hands of
  workers or on their way back belong to one call (`OneMessagePerCall`) and that a call not
  yet sent has none (`CallsApart`). Only then is the set of messages in flight, which `AsyncRpc`
  sees as `net`, changed by a receive or a send as its `Serve` and `Deliver` change it. `NetworkSteps`
  maps each action of `RpcPeers` to one of `AsyncRpc`, to `Lose`, or to no step.
* *Ownership.* What a pointer points to belongs to its actor (`Owned`) while the actor is
  where it may use it (`Pointers`); an answer still owned after `nng_sendmsg()` was refused is
  among the faulty ones (`RefusedKept`). Both only until an answer was built without memory:
  then its pointer may be anyone's.
* *Lifecycle.* `stop()` goes by `aio_list`, so it must name every aio that is not freed
  (`ListsLiveAios`), and those must be on the member `sock` (`SocketOfAios`), which must be the
  only open socket (`OneSocket`) unless `start()` has replaced one.
* *Stream.* What the receive thread is doing follows from `running` and from how far
  `close()` has come (`LoopMatchesOwner`).
* *Memory.* The theorems are about every well-formed vector (`Vectors`). `MovedBlock` and
  `OverwriteParts` say which bytes are where after the two primitives; from there on the
  arguments are about the data and the scratch pad only. `ReallocateKeeps` also gives the room that was asked for and a
  block whose size is a multiple of the alignment. The assertion of `ensure_space()` (`cur_ >= scratch_ >= buf_`)
  is part of `WellFormed`.
* *The builder.* A builder and its twin in another block cannot be told apart by a client:
  `Twins(x, y)` says that they agree on the data, the scratch pad and every other member, and
  not on the block. Each operation is proved to keep that (`Twin...`, one theorem or lemma for each member
  function), to build in front of what was there (`Adds`) and to leave the builder fit for the next call
  (`Sound`: nothing is nested, the scratch pad holds whole vtable offsets, and neither they nor
  the pool point behind the data). A table is the hard one: between `StartTable` and `EndTable` the scratch
  pad grows by field locations while the block moves under both; `Within` is what holds there, and
  `SameVtable`, `SameVtables` that the vtable computed from the locations, and the search
  for an equal one, see the same in both blocks. Also that what it stores is a table again: `MadeTableValid`.
* *A session.* `SessionInv` is `TwinsInv` (the twins are twins, and sound), `MakingInv` (the calls
  left to do are calls of the library with arguments of their kind, and a table that waits to go into
  another can be read) and `MadeInv` (every table made can be read, until the buffer is
  finished; then the root can, which is all that `SetField()` changes). `OnlyTheCallsCount` alone is not
  inductive: `CreateVectorOfSortedTables()` and `SetField()` follow offsets into the block, and
  only for a table that can be read do they find the same there whatever lies around it.
  One step of the proof for each call the client makes (`Keeps...`); `Did` is what all of them have in common.
  The step needs no bound but `Fits`, which stands for `FLATBUFFERS_ASSERT(size() < max_size_)`
  (`vector_downward.h:146`) with the model's `Huge` for the maximum.
* *Stored once.* `StoredOnce` compares what is in the block, and the block moves, so `StoredInv`
  speaks of the data: no two entries of the scratch pad read as equal vtables (`VtablesDiffer`)
  and no two of the pool as equal strings (`TextsDiffer`). That is kept only if every table and
  shared string is also known to refer to such an entry (`VtableKnown`, `TextKnown`).
  `VtableStoredOnce` and `TextStoredOnce` are the two calls that search: either nothing equal is
  there and what was written is new, or the bytes are popped and what is returned is the old
  one. That a popped object leaves the earlier ones as they were is `Continues`, and all other
  calls only put bytes in front (`PlainStep`), so what is known stays known (`KnownStays`).
* *Induction over data* (bytes pushed one by one, the fields of a table, the tables being sorted)
  is done without the induction theorems: a property that fails for some number fails for a least
  one (`WellFoundedInduction`), of sets of numbers, not of predicates.

Only model-checked:

* liveness (`CallReturns`, `CallReturnsUnlessWedged`, `StopCompletes`, `CloseCompletes`,
  `SendCompletes`): it rests on fairness, hence on ENABLED, which TLAPS cannot reason about here;
* the properties of `FlatReadBack` (`ObjectsKeepTheirValue`, `FinishedBufferVerifies`,
  `VerifiedBufferIsReadInside`). They follow offsets through nested tables and vectors to any
  depth by the RECURSIVE operators of `FlatTable`, which no proof can use.
  `SessionOnlyTheCallsCount`, `ValidAdds` and `SessionStoredOnce` carry part of them:
  what a table says is decided by bytes that no later call touches;
* the properties of `FlexSession`, for the same reason.

## 5. What is not modelled

* An application that calls `register_method()` or `set_pipe_handler()` while the peer
  is started: a data race nothing in the code supports. The owner of `PeerLifecycle`
  configures only before.
* Handlers and pipe handlers that call `stop()`, and a receive callback that calls `close()`:
  they wait for themselves, or end the process.
* Two owners of one `NngUdsRpcPullListener`; destruction of a peer with threads in
  `call_remote()`.
* Logging, `dispatch()` and `dumpRegisteredMethods()` (accessors no code in the repository
  calls), `run_forever()` (a sleep).
* FlatBuffers: `FlatBufferBuilder64`, unions and arrays (no table of the repository has
  one), native objects (`CreateVectorOfNative...`), custom allocators, `Swap()` and moves of a builder.
* A timeout of a call whose id was given out again removes the newer call's entry; the model does
  that, and what is seen of it is a `Broken` future. `OnlyInitLeaks` says when a socket
  of the stream is lost, which `init()` does; it does not say that none is.
* FlexBuffers: `ToString()`, conversions between types (`AsInt64()` of a string),
  typed vectors of booleans of fixed length (the type has no number), floats that are no whole number.
* `idl.h`, `util.h`, `reflection.h`, `minireflect.h`, `grpc.h` and the like, which the
  program does not include; nng's own code, of which the repository has the headers only; `IHandler*.hpp`, which
  cannot be instantiated; `NngUdsRpcClient` (no implementation); the build.

## 6. Plan

Order of work, the most important behaviour first:

1. *done* `RpcMessage`, `CallRemote`, `AsyncRpc`, `AtMostOnceRpc`, run `AsyncOwn`;
   theorems `TypeCorrect`, `TableCorrect`, `AnswersCorrect`, `NoBrokenPromise`.
2. *done* `RecvWorkers`, `Pair0Link`, `RpcPeers` and its refinement of `AsyncRpc`, crashes,
   handlers that call back, liveness.
3. *done* `MessageOwnership`, `PeerLifecycle` with pipe handlers, `PullListener`, `PushDial`, `DataStream`.
4. *done* FlatBuffers with the generated tables and the response helpers; FlexBuffers.
5. *done* Theorems for every safety property of the calls, the peers, the messages, the
   lifecycle and the stream; both refinements; the memory of the builder.
6. *done* Theorems about `FlatBuilder`, operation by operation, and a session on top of it,
   with what is stored once.
7. Left to prove: the stack and the pools of `FlexBuilder`.

To check a run: `tlc -config <run>.cfg <module>.tla`, with the module given in `PROJECT.json`.
To check the proofs: `tlapm <module>.tla` for each module whose name ends in `Proofs`.
