# HTTP-2.0-Server: a TLA+ development

Models, model-checking runs and machine-checked proofs for the HTTP/2 server in
`src/`: one process, an epoll event loop on the main thread, a pool of four
threads that write to the TLS connections, a frame handler per connection and an
HPACK codec. Paths below are relative to `src/`.

## 1. The system

| Component | State | Operations | Talks to |
| --- | --- | --- | --- |
| Event loop (`Networking/Epoller`, `main.cpp`) | the epoll set, the batch of `epoll_wait` | `addFD`, `removeFD`, `epollLoop` | client manager (calls), kernel |
| Client manager (`Client/clientManager`) | `clients`: descriptor to `Client` | `acceptClient`, `handleClient`, `removeClient` | event loop, clients, owns the pool |
| Client (`Client/client`) | `state`, `start`, `errorCode`, SSL object, streams, HPACK decoder | `continueHandshake`, `doRequest`, `sendData`, `applySettings`, `ackSettings` | frame handler (calls), pool (enqueue, future) |
| Thread pool (`Multithreading/threadPool`) | priority queue, `stop`, mutex, condition variable, threads | `enqueue`, worker loop, destructor | clients' tasks |
| Frame handler and streams (`Frame-Handler`, `Client/stream.h`) | the client's table of streams | one handler per frame type, `respondGet`, `showErrorPage` | decoder, web binder, response |
| Response (`Response/response`) | the frames of one reply | `processFrames`, `splitFrame`, `encodeFrames` | frame codec; its buffers go to `sendData` |
| HPACK (`http2/protocol/hpack`) | one `Table` in each `Decoder` and `Encoder` | `decode_lowmem`, `encode`, `add`, `set_max_size`, integers, Huffman | frame handler |
| Frame codec (`http2/protocol/frame`) | none | `encode`, `decode`, `toFrames` | client, response |
| Settings (`http2/protocol/settings`) | six parameters | setters, `encode`, `decode` | client, which stores and acknowledges them |
| Web binder, documents (`WebBinder`, `Response/responseData`) | two maps, URL to directory and URL to file | `bindFile`, `bindDirectory`, `getContent`, `readFromFile`, `getErrorPage` | `main` (binds), frame handler (asks), file system |
| Sockets and TLS set-up, logger, headers, constants | - | set-up and output | - |

What happens on a request: `epoll_wait` reports the client's descriptor; the
loop calls `handleClient`, which finishes the TLS handshake or reads up to 4096
decrypted bytes and cuts them into frames; the frame handler stores header
fragments per stream, feeds a complete header block to the one HPACK decoder of
the connection and answers at once; the reply is cut into frames and buffers,
and each buffer is written by a pool thread while the event loop blocks on the
future. After the handler the loop looks at the descriptor's mark and removes the
client if it is closed.

What is hard about it:

- *Threads.* The pool's lock, condition variable and destructor; the task of a
  write uses the SSL object that the event loop also reads from and frees.
- *Readiness.* Level-triggered epoll with a bounded batch, TLS data that sits
  inside the SSL object where epoll does not see it, timeouts looked at only on
  events, removal in three places.
- *Ordering.* All streams share one HPACK decoder, header blocks are split over
  frames, replies are written in the middle of reading.
- *Files.* A document is checked, opened twice, measured and read with a system
  call each, while other processes may change it.
- *Boundaries.* A frame against the size of a TLS record, evictions in the HPACK
  table, frames that end in the middle of a read.

`PROJECT.json` lists each hazard at its line with the properties that cover it.

## 2. Modules

| Module | Models | Runs | Proofs |
| --- | --- | --- | --- |
| `ThreadPool` | worker loop, `enqueue`, `~ThreadPool`, `sendData` up to `future.get` | `pool` | `ThreadPoolProofs` |
| `AbstractPool` | what the pool promises, without lock and condition variable | refined in `pool` | refined in `ThreadPoolProofs` |
| `EventLoop` | `epollLoop`, `ClientManager`, life of a `Client` | `loop_*` | `EventLoopProofs` |
| `Connection` | `FrameHandler` and the streams of one connection | `connection*` | `ConnectionProofs` |
| `AbstractExchange` | what a client can count on: calls and their answers | refined in `connection` | refined in `ConnectionProofs` |
| `Response` | `splitFrame`, `encodeFrames`, the loop over `sendData` | `response` | `ResponseProofs` |
| `Hpack` | `Table`, `Decoder`, `Encoder`, integers, strings, against a client's codec | `hpack` | `HpackProofs` |
| `Huffman` | `encode_huffman`, `decode_huffman`, `kHuffmanTable` | used by `Hpack` | |
| `FrameCodec` | `Frame::encode`, `decode`, `toFrames` over bytes; `ackSettings` | `frame_codec` | `FrameCodecProofs` |
| `Settings` | the parameters, their encoding and decoding | used by `FrameCodec` | in `FrameCodecProofs` |
| `WebBinder` | bindings, lookup, reading a document, listings, while files change | `documents` | `WebBinderProofs` |

`MC*` modules give constants values that a `.cfg` cannot write. Operators under a
comment that begins with "Mutant:" are plausible mistakes in the operator that
follows; nothing in a specification uses them. Each property of a passing run has
one that breaks it. `NumberLemmas` has what `HpackProofs`, `WebBinderProofs` and
`FrameCodecProofs` share about sets of numbers, induction and recursion.

### ThreadPool

A step is the code between two points where another thread can be observed:
taking `queue_mutex`, the critical section up to its release, a notify, the task,
`future.get`. `pc[th]` is where a thread is. `wait(lock, predicate)` is the loop
`lock`, `check`, `asleep`, with `SpuriousWake` from `asleep` at any time.
`queue` is a set with weights: `std::priority_queue` promises no order between
equal weights, so `WorkerTake` takes any heaviest task. Callers are the threads
inside `Client::sendData`; the server has one, the event loop, which also owns
the pool. `enqueue` of a stopped pool throws (`EnqueueThrow`).

Properties: a queued or running write belongs to a blocked caller and to one
worker (`WriterIsBlocked`: this, and not the `state` guard in `handleClient`,
keeps SSL calls apart); no queued task is left to sleepers (`NoLostWakeup`), nor
fewer workers awake than tasks while others sleep (`WorkConserving`); the
destructor returns with nothing left (`ShutdownDrains`); writes and the
destructor return (`SendReturns`, `DtorReturns`); the pool implements
`AbstractPool` (`ImplementsPool`).

In practice the server never reaches the destructor, as nothing ends its loop;
the class is checked for it all the same. Weights cannot starve a task in the
server, with one caller there is one task; `SendReturns` is checked for that.

### EventLoop

The loop runs on one thread, so the handling of one event of a batch is one step
(`acceptClient`, `handleClient` and the check after it); peers, kernel and clock
act between. `sock[f]` is the kernel's side of a descriptor and outlives the
client, since nothing closes it; `client[f]` is the entry in `clients`;
`interest` the epoll set; `events` the rest of the batch. A TLS record takes up
to `MaxChunks` reads; `tls` counts the reads the SSL object can still satisfy.
What frames do is left to `Connection`: a read keeps the client, marks it closed
or throws.

After `handleClient` has deleted a client, the loop reads `client->clientFD` of
the deleted object. The read of freed memory is undefined; the model has what
glibc does, where the member lies behind the part `free` overwrites. `NoGhosts`
depends on it.

Properties: the epoll set and the batch name only live clients (`NoGhosts`); a
client stops being watched only by being removed (`WatchedWhileLive`); a closed
peer is noticed (`PeerCloseNoticed`), decrypted data is served although the
socket is quiet (`BufferedDataServed`), waiting connections are accepted
(`BacklogServed`).

### Connection

A step is one frame: the choice of a client that follows RFC 7540 and the whole
handler. The n-th header fragment the client encodes is the number n; the decoder
is the list of fragments it has consumed, and understands a block only if it has
consumed all before it, else it may come up with anything. `wire` is what the
server writes. A write may fail after any part of a reply, after which the wire
is not followed (`broken`). `Features` switches on what a client makes use of, so
that a run shows one thing.

Two exceptions leave `processEndHeader` for its `catch`
(`Frame-Handler/frameHandler.cpp:97`). A decoder out of step may throw at an index
that its table does not have (`DecoderThrows`): the stream stays OPEN and keeps
its fragments. And `respondGet` may throw when the file system fails
(`FileSystemFails`): nothing is written for the request. A file that does not open
is taken for none instead, and the page 404 is written. `failed` remembers for
which streams this was so; `WebBinder` has the system calls.

Trailers bring no `:path`. The stream still has the one of its request, so they
are answered again, but not behind a GOAWAY: it has cleared the table, the
trailers make the stream anew, and their block is decoded and not answered.
`cleared` is what a client knows of this.

Properties: the decoder stays in step (`HpackInSync`); a stream carries one
reply, the right one (`OneReply`), as soon as its block is complete, unless the
file system fails for it (`AnsweredAtOnce`); OPEN means that a block is coming in
(`OpenMeansBlock`); nothing follows a reset (`ResetIsFinal`). The run has no
client that can get out of step. For all of them, it is proved that status and
end of a reply are written together or not at all, whatever is thrown
(`NoHalfReply`, which `OneReply` implies for the others).

`calls` is the log of what the client has asked for completely: the preface,
SETTINGS, PING and each request in the step in which its block is complete.
`AbstractExchange` has only this log and the wire: a call appends its answer to
the wire, whole, or cut off once and for all by a failed write; a failure of the
file system costs a request its answer or its document, and no other call
anything. Trailers behind a GOAWAY are no call. That `Connection`
implements it (`ImplementsExchange`) says what the invariants on single streams
do not: answers come in the order of the calls across streams and control
frames, the server's SETTINGS first, and nothing else is written. The mapping is
the identity on `calls`, `wire`, `broken` and `failed`.

### Response

One step is one turn of a loop: of `splitFrame`, of `encodeFrames`, of the writes
in `respondGet`. Payloads are offsets and lengths. `SSL_write` runs with partial
writes: it writes one TLS record at most, and `sendData` takes a short count for
success (a count of 0 too, `Client/client.cpp:44`, which is not followed: current
versions of OpenSSL return it for empty buffers only). So the reply is whole only because no buffer is larger than a record
(`FitsRecord`, `WholeReply`), which the 15 bytes of slack in `MAX_FRAME_SIZE`
provide. `NoEmptyWrite` is about the buffer made before the loop,
`FramesAreDocument` about cutting, `Terminates` about the loops.

### Hpack

Requests go from a client's encoder, which picks any representation RFC 7541
allows, to the server's `Decoder`; replies from the server's `Encoder`, new for
each reply, to the client's decoder. `Table` keeps its entries, `size_` and
`max_size_`; the client's tables are the longest run of newest entries that fits.
Indexes, sizes and lengths go through `encode_integer` and `decode_integer`,
bytes with the prefix each representation has. The loops over bytes (`Rest`,
`Gathered`) and over entries (`Sums`) are recursive functions. Names and values are octets; the
client sends them plain or Huffman-coded, the `Encoder` always coded. `Huffman`
has all 257 codes of `kHuffmanTable`: the table is canonical, so for each length
it lists the first code and the symbols in their order. `encode_huffman` is the
concatenation of the codes, with ones to the end of the octet; `decode_huffman`
takes codes off as long as there is one. The code does this octet by octet, which
comes to the same, because no code is the beginning of another.
`TableInStep` says both agree after insertions, evictions and resizing;
`FieldsArrive` and `RepliesArrive` that fields come out as they went in;
`SensitiveNotIndexed` is the promise at `http2/protocol/hpack/hpack.h:173`.

### FrameCodec

The client's frames are laid out as bytes (`Wire`), a read takes any number of
those that are left, and each turn of `toFrames` decodes what stands at `curr`.
When the walk is over, the frames are handled one by one (`handleFrame`), of which
the module has SETTINGS: `ackSettings` decodes into new `Settings`, and only when
all of a frame is right does it store them and send the acknowledgement. Values
are four bytes, as TLC has no integers of 32 bits.
`Taken` is `payload_size`; the code's `headerStart` is the number of bytes before
the fragment. `WholeFramesArrive` says that what was read whole arrives as it was
meant, `NoPieces` that nothing else carries a payload: a torn frame becomes the
default PING, as `decode` fails before it assigns anything. `SettingsStored`
compares what is stored and acknowledged with a definition of its own (`Asked`),
by the last value listed for each parameter and by comparing numbers byte by
byte. It shows that a parameter a frame does not mention goes back to its
default, where the RFC has it keep its value; no code reads it afterwards.

`decode` compares `headerStart` with a `payload_size` that it has already been
taken from (`http2/protocol/frame.cc:87`). So frames that are legal are refused
when the fragment is shorter than what stands before it: an empty DATA frame with
padding, or HEADERS with priority and four bytes of fragment, which is what four
indexed fields take. Both properties name this exception (`Refused`): a refused
frame has no payload, and when its fragment is empty and padded, no priority
either, since `decode` gives up before it reads one
(`http2/protocol/frame.cc:73`). Nothing in the
repository speaks of the case, so it is no finding, but it is worth a fix.

### WebBinder

First `main` binds URLs (`Bind`, then `Run`), then requests come one after the
other. A request is `Get` - the lookup in the two maps, which nothing changes any
more - and then one step per system call: `ProbeDir`, `ProbeFile`, `DirCheck`,
`List`, `FileCheck`, `TryOpen`, `Open`, `Measure`, `Read`. Each of them up to
`Open` may fail on what is there (`Refuse`): no descriptor is left - removed
clients keep theirs, and `getFileContent` holds one file open while
`readFromFile` opens it again -, a directory or file may not be read, or the path
is too long. In the tests of `<filesystem>` and the iterator this is an exception
and the request is not answered; a file that does not open is answered with the
page 404. Between any two calls, other processes publish, delete and overwrite files and make and remove
directories (`Other`). An open file stays what it is when another one takes its
place, and changes when it is overwritten in place; `linked` says whether it
still is the one at the path. Paths and URLs are sequences of pieces, so that a
URL may begin with a bound one in the middle of a name. `Resolve` is what the
file system makes of a path: a slash at the end or behind another one is dropped.

`LatestBindingServes`: the last accepted binding of a URL is what is looked at,
though there are two maps and the directories are looked at first.
`AnswersWereTrue`: the answer is one that a lookup in a single step would have
given at some moment of the request. The property names the three exceptions: a
file overwritten in place between `tellg` and `read` is served in the length of
one version with the bytes of another, zeros included; a directory removed
between `is_directory` and `directory_iterator` throws, so that the request is
never answered (`Frame-Handler/frameHandler.cpp:97`); and a call that fails
(`refused`) leaves the request without an answer, or answers for a file with the
page 404 although it was there all the time. A call that fails never turns a
directory into a page 404, nor a document into half of one. `LinksLead`: links of a
listing lead to the entries, unless bound directories are nested, when the
shortest URL takes them (`WebBinder/webBinder.cpp:86`). An empty document is
answered with the page 404 (`respondGet`), which `Document` says.

## 3. Runs and their bounds

| Run | Instance | Shows |
| --- | --- | --- |
| `pool` | 4 workers, 2 callers, 3 tasks, two weights | safety, refinement and liveness, with callers that race with each other and the destructor |
| `loop_safe` | 3 descriptors, batches of 2, 2 records, 2 reads a record | safety of the tables, under symmetry of descriptors |
| `loop_live` | 2 descriptors, batches of 1 | liveness, with more ready than a batch holds |
| `connection` | 2 streams, 4 fragments, 2 control frames, split blocks with bodies, trailers | safety of the handlers, the order of all answers |
| `response` | frames of 20, records of 29, header lists of 1 to 11, documents of 1 to 85 | all cuts up to five frames, at each boundary |
| `hpack` | 7 fields of 34 to 121 bytes, a table of 110, updates to 0, 31, 68, 110, a static table of 61 | evictions, fields larger than the table, shrinking, integers of one and two bytes, codes of 5 to 30 bits |
| `frame_codec` | pairs of 26 frames, reads of any size up to 46 and around the ends of a long frame | each length `decode` compares with, from both sides; right SETTINGS after wrong ones and the other way round |
| `documents` | 2 bindings of 3 URLs, 5 URLs asked for, 2 directories, 2 files with up to 4 contents, 2 changes during a request | every change between every two system calls, each of which may fail |

Two callers are the least for which a notify can reach the wrong
thread; three tasks let one wait while two run. Batches smaller than the number
of ready descriptors are where starvation could come from. Two streams are what
it takes to mix blocks or replies. In `response` the slack between a full frame
with header and a record is zero, less than the six bytes of the code, so that
every byte counts. In `hpack` indexes reach 64 and sizes 110, past the limits of
the prefixes of 4, 5 and 6 bits (15, 31, 63); lengths of coded strings reach 190, past that
of 7 bits (127). In `documents` two changes are what it takes to remove a file
and put it back, or to replace it and overwrite the new one.

Four runs expect a violation, each on one property:

- `loop_timeout` (`TimedOutClientsLeave`): a client whose send buffer stays full
  is never reported again and outlives its timeout, which is looked at only on an
  event; `clientLoop`, which would look at all, is never called. Holds only if
  time passes for it, so `FairSpec` includes the loop's fairness and the client
  is already old.
- `loop_leak` (`DescriptorsClosed`): no removal closes the descriptor.
- `connection_split` (`HpackInSync`): HEADERS with END_STREAM but without
  END_HEADERS; the stream is erased, the CONTINUATION refused and the decoder out
  of step.
- `connection_method` (`OnlyGetAnswered`): a POST answered as a GET, since the
  method is looked up in the table of the decoder and not among the headers.

## 4. Fairness

`ThreadPool`: weak fairness of each thread's steps that the scheduler owes it
(the worker loop, a call in progress, a destructor in progress); none of
`EnqueueLock` or `DtorLock` - nobody has to call - and none of `SpuriousWake`.
`EventLoop`: weak fairness of the loop, which blocks only in `epoll_wait`, and
strong fairness of a batch that contains a given descriptor, because the kernel
moves reported descriptors to the end of its ready list. Peers promise nothing.
`PeerCloseNoticed` has a premise that time passes (`ClockRuns`). `Response`: weak
fairness of its one sequential program.

## 5. Proofs

All for arbitrary constants, under the assumptions named in the modules.

- `ThreadPoolProofs`: `TypeOK`, `WriterIsBlocked`, `NoLostWakeup`,
  `WorkConserving`, `ShutdownDrains`, and that `Spec` implements `AbstractPool`.
  The inductive invariant `IInv` adds who holds the mutex at which label
  (`LockInv`), that `stop` is set from `notifyAll` on and that nobody sleeps
  after it (`DtorInv`), that a worker leaves only when the queue is empty for
  good (`ExitInv`), and where a task can be (`HeldInv`, `JobInv`, `BlockedInv`).
  `NoLostWakeup` is inductive only with these: a worker sleeps after looking at
  the queue under the mutex, and a push comes with a pending notify.
  `WorkConserving` counts, so workers and callers are finite: while somebody
  sleeps, the workers on their way to the queue and the notifications on their
  way to a worker are no fewer than the tasks.
- `EventLoopProofs`: `TypeOK`, `NoGhosts` and `WatchedWhileLive`. The invariant
  is that watched and reported descriptors are live; it is inductive because the
  batch holds each descriptor once and every removal takes the descriptor out of
  the epoll set in the same step.
- `ConnectionProofs`: for every client `TypeOK`, `NoHalfReply` and
  `ResetIsFinal`; for clients that do not split the block of a HEADERS frame
  with END_STREAM (`NoSplitGet`) also `HpackInSync`, `OpenMeansBlock`,
  `OneReply`, `AnsweredAtOnce`, and that `Spec` implements `AbstractExchange`.
  The run `connection_split` shows that the hypothesis is needed: such a block is
  lost, the decoder is out of step from then on and may throw, which leaves
  streams OPEN. None of them assumes that the file system works: a failure is
  named in `AnsweredAtOnce` and in `AbstractExchange`. `IInv` says that a stream nobody opened has left no trace and that a block
  belongs to a stream that is neither reset nor in its trailers. `SyncInv` says
  where the fragments are: those the decoder has consumed and those kept in the
  open stream are, in this order, all the client has encoded, and a stream whose
  block is complete knows its request; so the decoder never throws (`InSync`),
  and a stream in the table was opened after the last GOAWAY (`ClearedInv`). `AnswerInv` says what stands on the wire for each
  stream, from what its client has sent and which of them the file system has
  failed for: nothing, one reply, or two with trailers, all of them whole. The handlers that end a block are proved once
  (`EndHeaderEffect`, `EndHeaderInSync`) and used for HEADERS, trailers and
  CONTINUATION.
- `ResponseProofs`: `TypeOK`, `FitsRecord`, `NoEmptyWrite`, `FramesAreDocument`,
  `WholeReply`. `FramesInv` says the frames reach exactly to `offset` while the
  document is cut; `BuffersInv` that `currSize` is the size of the last buffer,
  which ends with the last packed frame, and that the first frame always goes to
  the buffer made before the loop; `SentInv` that what is delivered is what the
  written buffers end with. The arithmetic rests on
  `MaxFrame + FrameHeader <= Record` (`RecordAssumption`) and on a header list
  that fits one frame (`HeaderAssumption`).
- `HpackProofs`: `IntegersReadBack`, that `decode_integer` undoes
  `encode_integer` for every natural number and each prefix of 4 to 7 bits; and
  `TypeOK`, `TableInStep`, `FieldsArrive`, `RepliesArrive` and
  `SensitiveNotIndexed`, for any strings below 127 octets, static table, limits
  and updates. `IInv` adds that the `Encoder`'s own table stays empty: that is
  why its indexes mean the same to a client whose table fills up. `InStep` is
  the heart of `TableInStep`: evicting from the back until `size_` fits leaves
  the longest run of newest entries that fits, because no entry has size zero
  (`Cut`, `FitIs`, `EvictFits`). The theorems have the hypothesis
  `HuffmanReadsBack`, that a coded string decodes to itself. It is a fact about
  the code table that is not proved; TLC evaluates it for the strings of the run
  and for every octet (`CodecAssumption` in `MCHpack`).
- `WebBinderProofs`: `TypeOK`, `LatestBindingServes`, `AnswersWereTrue` and
  `LinksLead`, for any texts, tree, contents and number of changes. `BindInv`
  says that a URL is in one map at most, with its last binding; `RequestInv`
  that a request keeps to the path its URL led to; `AnswerInv` and `FileInv`
  what the request has learnt so far: the answer of this moment is possible,
  and the open file, unless it was overwritten after `tellg`, begins with a
  document that was at the path while the request ran; a request that a failing
  call ends needs nothing of this (`RefuseIInv`). `LinksLead` is about
  text: a link resolves to the entry it names, with the search for the shortest
  bound beginning and with slashes that are doubled or missing
  (`ResolveSlash`, `ResolvePiece`, `LinkResolves`). It uses that paths are in
  normal form (`TextAssumption`), as `main` writes them.

- `FrameCodecProofs`: `TypeOK`, `WholeFramesArrive`, `NoPieces` and
  `SettingsStored`, for any frames a client may send (`SendableAssumption`: the
  flags agree with the fields, the length fits three bytes, stream and dependency
  31 bits), any number of them and reads of any size. `WalkInv` is the heart: the
  walk is at the end of the k-th frame when k frames were made, or it has left
  the read with a torn one, the last. `StreamInv` says that `recvBuffer` holds
  the stream from there on, so the next turn reads a frame's own bytes
  (`AtFrame`): all of them, and they read back as what was laid out
  (`DecodeIs`), or only the first (`TornIs`), and whether those hold the length
  or not, `decode` fails and `curr` passes `end`. `FramesInv` and `StoredInv` say
  what has come of the frames so far. `SettingsDecoded` is about the payload of
  SETTINGS: entering parameters one by one stops at the first wrong value exactly
  when the list is not `Acceptable`, and otherwise gives what is `Asked`, by
  induction over the parameters; a SETTINGS frame is never refused as it has
  neither padding nor priority (`HandlerGets`).

What is recursive is proved by induction over numbers: `Induct` of `NumberLemmas`
takes a set of numbers where the library's theorem takes an operator, and a
recursive function is first shown to exist (`BuiltUp`), by building it up to each
bound.

Only model-checked: everything under fairness (liveness is out of the prover's
reach) and the Huffman codec (`HuffmanReadsBack`). Every other invariant of a
passing run is a theorem.

## 6. Not modelled

- Integers beyond 32 bits; refusals of broken header blocks and Huffman strings:
  the client of the models codes as the RFC says. `Encoder::encode` aborts on a
  string of 127 bytes or more; `Hpack` assumes shorter ones (`TableAssumption`).
  One of these strings is `location`, the path as the client has sent it
  (`Frame-Handler/frameHandler.cpp:170`).
- What the next read makes of the rest of a torn frame
  (`http2/protocol/frame.cc:93-104`): it is parsed from the middle of a payload.
- Flow control: the server does none, WINDOW_UPDATE changes nothing. The server
  reads no setting after it is stored.
- MIME types, the text of pages and listings; symbolic links and names with dots
  in URLs.
- Socket and TLS set-up: one pass before the loop. When a step of it fails the
  constructor returns with the descriptor closed, `main` does not look, and the
  loop runs without a listener. Logger, constants, HTML assets; `util.cpp` is not
  built.
- What a connection carries after a failed write. The process does not handle
  SIGPIPE, so that a write to a peer that has reset the connection may end it;
  the model has that write fail like any other.
- A PADDED frame without payload: `payload_size - 1` wraps around
  (`http2/protocol/frame.cc:66-68`). The clients of the models send none.
- Failures of the disk while an open file is read, and running out of memory:
  `readFromFile` reports the first, nobody looks, and the rest stays zeros. An
  exception while URLs are bound, before the loop, ends `main`.
- Names that need escaping: `getDirectoryContent` writes them into links as they
  are and no URL is decoded, so in practice such a link does not lead back; the
  model takes the text of a link literally.

## 7. Plan

1. A proof of `HuffmanReadsBack` from the code table.
2. A composition of `EventLoop` with `Connection`: what removal in the middle of
   a request leaves behind.
