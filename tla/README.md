# A verification of the AXTP Python runtime

TLA+ models of the runtime in `src/axtp_runtime/`, of the generator that makes its
tables (`devtools/generators/`) and of the scripts that stamp and release it
(`devtools/scripts/`), checked with TLC on small instances and, where it pays, proved
with TLAPS for all.

## The system

AXTP carries control messages, RPC and stream data between a client and a server
over byte transports (TCP, WebSocket, serial, HID, BLE; in this repository only
`MockTransport`). A message goes down one endpoint and up the other:

    AxtpClient                                             AxtpServer / handlers
       |  send_rpc_request                                        ^
    AxtpEndpoint -- expect --> PendingCallTable                BasicBroker (tasks, results)
       |                                                          ^  poll()
    OutboundProcessor                                          AxtpEndpoint / AxtpCore (events)
       |  PayloadEncoder, MessageFragmenter, FrameEncoder         ^  PayloadDecoder
       v                                                          |  MessageReassembler
    outbound list -- flush --> transport ==== bytes ====> FrameDecoder

Two threads meet in an endpoint: the transport's thread, which calls `on_bytes`
and runs everything from the decoder up to `on_control`, `on_rpc` and `on_stream`,
and the application's thread, which calls `poll`, `send_json` and
`try_take_json_response`. They share plain lists (events, outbound bytes) and the
pending table, the only structure with a lock.

| Component | State | Operations | What is hard, what makes it correct |
| --- | --- | --- | --- |
| Frame decoder (`codec.py:61`) | buffer | `on_bytes` | chunk boundaries, noise, false magics, corrupt headers: no frame is passed over, none is made up, cutting does not show, the loop ends |
| Fragmenter (`codec.py:183`) | next message id, frame size | `fragment`, `set_max_frame_size` | 16-bit ids wrap, 255 fragments at most, a refused message uses up its id |
| Reassembler (`codec.py:139`) | assemblies by message id | `on_frame` | lost, repeated, reordered frames; ids used again while an old assembly waits: no mixing but across a wrap, exact delivery before it, bounded assemblies |
| Pending table (`core.py:30`) | pending keys, resolved responses | expect, resolve, take | responses early, late, after a timeout, or under a reused id |
| Control session (`core.py:65`) | open flag | `handle` | answers overtake queued responses |
| Core, endpoint (`core.py:84`, `endpoint.py`) | events, outbound bytes, transport | `on_*`, `poll`, `send_rpc_request`, `flush_outbound`, attach, detach | four stages interleaved with arrivals; exceptions between them |
| Broker (`broker.py`) | tasks, results, handlers | `submit`, `poll`, `poll_result` | `max_tasks` leaves work behind; handlers raise |
| Client, server (`sdk.py`) | request id, timeout | `send_json`, `call_json`, `poll` | ids wrap, calls time out, messages are lost: each call ends with its own answer |
| Stream registry (`stream.py`) | open streams, statistics | `register_stream`, `close`, `handle_stream` | wrapping sequence ids; the sink's view and the registry's |
| Media registry (`media_profile.py`) | next ids, counts, a stream registry | producer open, pulled open, close, chunks | two sources of stream ids; one stream per source; two sets of counts |
| Method registry (`generated/registry.py`) | two dictionaries | `add_method`, lookups | overwriting ids and names keeps them inverse |
| Protocol generator (`devtools/generators`) | the files it writes; in a command: registry, sources, definition | validate, build, emit, in ten commands | reads at several moments, writes files side by side, can be killed: what is published is closed, sound and of one piece |
| Release automation (`devtools/scripts`, `.github/workflows`) | lock, version, manifest, constants, tags | generate, check, upgrade, prepare, tag | files of one generation written one by one while others edit and commit: what passes a check or is released is current |

The generator and the scripts run apart from the runtime. People and jobs start their
commands on one checkout, and all they share is its files:

    registry/*.yaml, domains/**.yaml --loader--> sources --validateSpec--> accepted
        sources --protocolBuilder--> definition --validateProtocolDefinition--> accepted
            definition -> protocol/axtp.protocol.yaml -> JSON, Markdown
            sources    -> ids, registries, schemas (C++, Dart, TypeScript), tables, vectors
    spec lock, VERSION, generator version --axtp-versioning--> manifest --> constants
        manifest, constants --check--> prepared revision, tag --> release

## The modules

**`Reassembly`**, with `MCReassembly`: a fragmenter at one end, a reassembler at the
other, and a link that hands over any frame ever written, any number of times, in any
order, or never. `Fragment` is `MessageFragmenter.fragment` with `_take_message_id`;
`OnFrame` is `MessageReassembler.on_frame`, one disjunct per way through it.
`SetCapacity` is `set_max_frame_size`, which keeps the ids; a client that attaches again
gets another fragmenter, and the module is about the life of one. A fragment's
bytes are the number of the message it was cut from, so a body shows what it is
made of. A refused message is kept in the history with no frames.

**`FrameDecoder`**, with `MCFrameDecoder`: the buffer is the stretch of the input
between `consumed` and `arrived`. Each step is one pass through `_parse_loop`, which
begins with `_resync_to_magic` (`Resync`): `Wait` returns, `RejectHeader` and
`RejectCrc` drop a byte, `TakeFrame` consumes a frame and calls the sink, which may
raise. What a header says and the CRC are constant operators.

**`Endpoint`**: the state of one `AxtpEndpoint` with its core, pending table and
broker, and one action per step of the two threads. Each iteration of the loops of
`poll` is a step, because a message may arrive between any two. The exceptions the
code lets through are there: a stream handler that raises leaves `poll` with the task
gone; a payload of more than 255 fragments leaves it with the result gone.
A control answer that is too long raises on the transport's thread and is not
modelled. Session ids are lost on the wire (`OnWire`), so a pending key is the pair of
session 0 and the request id.

**`ServerEndpoint`**, with `MCServerEndpoint`: an `Endpoint` that serves a peer whose
messages arrive at any time, and whose transport is detached and attached.

**`RpcSystem`**: two instances of `Endpoint` under `AxtpClient` and `AxtpServer`, and
a connection that keeps the order of messages and loses some. `Call` is `send_json`,
`CallWith` with a `request_id` of the application's, `Reattach` is `attach_transport` of
a client that has a transport: a new endpoint, while messages of the old connection still
arrive, ahead of the new ones, or are gone.
`TakeResponse` is `try_take_json_response`, `GiveUp` is `call_json` past its deadline.
**`RpcService`** is what callers are promised, with no queue or id in sight;
`ImplementsService` maps the system to it.

**`StreamRegistry`** and **`MediaStreams`**: the registry of open streams and the media
registry that owns one and is its sink. Sinks are called last in every operation, so
one that raises changes nothing in the state; the calls are recorded in `heard`.
Operations that are refused change nothing and are not steps, except the refused open
of `AcceptProducerOpen`, which has used up an id.

**`MethodRegistry`**: `add_method`.

**`Generator`**, with `MCGenerator`: processes that run the commands of `cli.ts` on one
directory. `disk` is what is in each output file that is there, `tree` the sources and
the prose, as the parser of YAML makes them of any text: lists (what is none is taken
for an empty one, `asArray`) of records in which a key that was left out is `Undef`.
The phases of a command are the moments at which it looks at the directory:
`ReadRegistry` (the registry's files), `ReadFiles` (the domain files, after which it
validates the sources and builds a definition), `CheckProtocol` (which reads the prose),
or `LoadProtocolDefinition` for the commands that begin with the definition on disk.
Then it writes: `WriteProtocol` first, and the others side by side, in any order, as
`Promise.all` does. A file that cannot be made (`FailFile`) fails the command, but the
others are still written. `Kill` ends a command anywhere, `SaveTree` and
`PutDefinition` are people who change the directory. The operators below it follow the
program's files:

* **`DomainRegistry`**: which domain has which high byte (`domainRegistry.ts`), and
  JavaScript's `>>` and its truth of strings, which decide what the checks see.
* **`SourceLoader`** and **`SourceValidator`**: `loader.ts`, `sourceLoader.ts` and
  `validateSpec`, check by check.
* **`ProtocolModel`** and **`ProtocolValidator`**: `protocolBuilder.ts`,
  `protocolLoader.ts` and the two validators of a definition.
* **`Emitters`**: what each file says, as the rows of its tables and the sections of
  its document. Wording and layout are left out.

**`Versioning`**, with `MCVersioning`: processes that run `axtp-versioning.mjs` and
the scripts that call it. Each file read or written is a step (`ReadLock`,
`ReadGenerator`, `ReadVersion`, `WriteManifest`, `WriteConstant`, `CheckManifest` ...),
since others write between them. `Upgrade` and `Prepare` are the scripts that change the
lock or the version and then generate; `Prepare` also checks. `PushTag` commits the
checkout as it stands, under a tag that is pushed once, and is the release job's verdict
on it (`ReleaseCheck`). `calm` says that nobody else has written since a process started;
`used` and `reused` record which times of generation were given out, and whether one
was given out twice.

**`ReassemblyProofs`**, **`FrameDecoderProofs`**, **`ServerEndpointProofs`**,
**`RpcSystemProofs`**, **`MediaStreamsProofs`** (which is also about `StreamRegistry`),
**`MethodRegistryProofs`**, **`GeneratorProofs`**, **`VersioningProofs`**: theorems and
proofs.

Definitions headed "wrong form of" are the mistakes each property was seen to catch;
they are used by no action.

## The runs

| Run | Configuration | Bounds, and why they are enough |
| --- | --- | --- |
| `reassembly` | `MCReassembly.cfg` | 2 ids and 3 messages, so the third reuses the first id while an assembly waits; lengths 0, 2, 3 and capacities 0, 1, 2 give no payload, one, two and too many fragments; size limit 2 refuses a body of 3 bytes over two frames. The payload types are symmetric |
| `reassembly_sizes` | `MCReassemblySizes.cfg` | 2 messages under the only id, of up to 3 fragments of sizes 1 and 2: an assembly holds two fragments before the third, and exceeds the limit of 3 where both are of size 2 |
| `frame_decoder` | `MCFrameDecoder.cfg` | every input of up to 3 pieces out of frames, corrupted and truncated frames and stray bytes, over 4 byte values, so that payloads and CRCs look like magic; every way to cut it |
| `server_endpoint` | `MCServerEndpoint.cfg` | 3 arrivals with 2 tasks per poll, so that a task is left over; requests that succeed, fail or cannot be answered, events, stream data with a handler that may raise, open and close; one detach. Deadlock is checked: the loop always polls |
| `rpc` | `MCRpcSystem.cfg` | 2 request ids and 3 calls, so that one id is used twice, by wrapping or because one call chooses its id; one call given up, one message lost, one more transport attached |
| `rpc_refines` | `MCRpcRefines.cfg` | 3 calls and 3 ids: no id comes round again and none is chosen, which is where the service is promised; two messages lost, one more transport attached; one task per poll |
| `streams` | `MCStreamRegistry.cfg` | 3 sequence ids, so that a gap, a repeat, the next and the wrap differ; 2 ids, 6 calls to the sink |
| `stream_wrap` | `MCStreamWrap.cfg` | as `streams`; ends in a violation, see below |
| `media` | `MCMediaStreams.cfg` | 2 video ids before the first audio id, so the ranges meet; pulled opens take any of 4 ids |
| `methods` | `MCMethodRegistry.cfg` | all partial bijections of 4 ids and 4 names |
| `generator` | `MCGenerator.cfg` | two processes, 22 source trees: a sound one, and one for each way the validators tell apart of being unsound, or of being sound for some commands only; one save, of the sound sources with a method moved and renumbered, or of one of three definitions edited by hand. Every command runs alone on every tree; three that write into each other's files run side by side, and those that read what others leave run after them |
| `versioning` | `MCVersioning.cfg` | two processes and two commands, so that a check meets what a killed or overlapping generation left; 2 constants files, so that one may be stale; one edit and one tag. Two specifications, a revision whose version contains the other's, an unreleased and a damaged lock; two times of generation, so that they may be the same |

What they show:

* Until message ids wrap, the bodies delivered are exactly those of the messages whose
  frames all arrived (`DeliveredIffAllReceived`). After that a stale assembly may be
  completed by a newer message, but only by one at least the whole id space younger
  (`MixedOnlyAcrossWrap`): nothing in the reassembler ages assemblies, so the 65535
  ids are what separates them.
* However bytes are cut, the decoder has emitted what a scan of the whole input would
  (`ChunksDoNotShow`), and no frame starts in bytes it discarded (`NothingSkipped`).
* Whatever cuts a poll short, each request is held or answered exactly once
  (`HeldOrAnsweredOnce`), in order, and in the end answered (`RequestsAnswered`).
  The exception is a response that cannot be fragmented, which is lost.
* Until a request id is used twice, the system implements the abstract service, the pending
  table holds one entry per unanswered call and nothing else, so each call given up
  leaks one (`TableHoldsUnanswered`), and without losses each call is answered.
  Afterwards an answer may belong to another call under the same id, a whole id space
  away, or with an id the application chose (`OwnAnswerUnlessShared`). Attaching another
  transport drops the table with its entries: answers to earlier calls are then nobody's,
  though their calls are not told.
* A repeated sequence id counts as a duplicate, except the last one, 0xFFFFFFFF:
  `handle_stream` compares with `expected_seq - 1`, which is -1 after the wrap, and
  counts a gap. `stream_wrap` finds this in three steps; `AnomaliesCounted` shows
  that the sum of both counters is right all the same.
* Whatever the commands of the generator meet, the JSON forms of a definition name only
  what they define, and give no number to two names (`PublishedIsClosed`); the
  registries, which also commands that check the sources alone write, fit their numbers
  into two bytes and have lookups that are each other's inverse (`RegistriesAreSound`).
  The limits of this are in the properties: unnamed entries are not compared, because
  the validator skips them (`validator.ts:10`), and a number beyond 32 bits passes if its
  low word does, because `>>` drops the rest (`validator.ts:122`). For the same reason
  the document is claimed to be true of transports that have a name (`DocumentIsTrue`):
  several without one pass, and their paths look the same to its reader.
* A command that fails has written nothing, or everything but the C++ method traits,
  which cannot be made for a method without schemas (`FailedAllOrNothing`).
* A `generate` that no other command overlapped leaves files that agree with each other,
  although the sources were changed while it ran (`GeneratedInStep`): all of them are
  made from what it read first.
* A check of the versions that passes undisturbed is right (`PassedCheckIsCurrent`), and
  a release is of the version in its tag, whatever half generated state was committed
  (`ReleasesAreStamped`). For the constants both rest on the time of generation: they are
  only searched for the manifest's values, and the constants of revision 1.3.0.1 contain
  1.3.0 as well. If the same time was given out twice (two runs in one second, or a time
  pinned by `AXTP_GENERATED_AT`), stale constants can pass.

## Fairness

Safety needs none. The liveness properties assume what the code's callers do:

* `FrameDecoder`: `_parse_loop` runs on once called (weak fairness). Bytes need never
  arrive.
* `ServerEndpoint`: the application polls in a loop (weak fairness of `Poll`), and a
  detached transport is attached again. Attaching is possible only between polls and
  may be disabled again and again by the next poll, hence strong fairness; an
  application that never re-attaches gets no answer out, by design.
* `RpcSystem`: both applications poll, the connection delivers what it does not lose
  (all weak), and the client asks for each response between polls, as `call_json`
  does in its loop (strong, since it can only between polls). Calls are not obliged to
  be issued or given up.

The property `Answered` is conditional on no loss and no id used twice, and excepts calls
from before another transport was attached: nothing in the runtime retransmits.

## What is proved

Every safety property that a passing run checks is proved, for every value of the
constants that the assumptions of its module allow; so is the refinement. Each
proof starts from an inductive invariant that is stronger than the property; the
paragraphs below name it and say why it is needed.

`ReassemblyProofs`, from `ReassemblyAssumption` alone (any id space, any fragment
limit, size limit, lengths, capacities and number of messages):

* `TypeCorrect`; `IdReuse`: two messages under one id are at least `MaxId` apart.
  The invariant `IdAges` says how old a message is at least, from its id and the next
  one around the id space; it is needed because "far apart" alone says nothing of the
  next message.
* `NoMixing`: what an assembly or a delivered body combines is far apart. The added
  invariant `PartsById` says that all of it was sent under one id; with `IdReuse` the
  rest follows.
* `Unfinished`, `FirstStays`: assemblies kept are unfinished, non-empty and within the
  limit, and no step replaces a fragment held.
* `TotalsAreSizes`: the byte count of an assembly is the sum of the sizes it holds. The
  sum is a recursive function; that it exists (`SumExists`) and what one more part adds
  to it (`SumsDiffer`) are proved by induction over the naturals, written out with a least
  counterexample.
* `NothingInvented` and `DeliveredExactly`: until ids wrap, what is delivered was sent
  and received in full, and what was received in full is delivered. The second direction
  needs `Kept` (the frames that arrived of a message that is neither delivered nor
  oversize are held), which needs that the total of an assembly never exceeds the
  message's length (`PartIsBetween` and `WholeIsAll`, on how a message is cut), so that no fitting
  message is dropped; and `Fitting`, that no oversize message is delivered.

`FrameDecoderProofs`, from `FrameDecoderAssumption` alone (two different magic bytes,
sizes that are naturals, a payload length within its field; any inputs, any test of
the header, any checksum, any way to cut the bytes):

* `TypeCorrect`: the buffer is a stretch of what arrived.
* `OrderCorrect`: the emitted frames are well formed, disjoint and in order.
* `SkipCorrect`: no frame among the consumed bytes is passed over.
* `BoundCorrect`: after a call that did not raise, less than one largest frame waits.
* `ChunksCorrect`: between calls, what was emitted is what one scan of all the bytes
  takes. `ScanAhead` says it of the bytes still to come as well: whatever arrives next,
  emitted frames and a scan from the front of the buffer make the scan of all.
  `NothingLeft` says that a call that returned left nothing to take. That the scan, a
  recursive function from the end of the input backwards, exists is `ScanExists`.
* `EveryPassAdvances`: each pass of the loop ends it or leaves fewer bytes in the buffer.
  With the fairness of the loop this is why it ends (`LoopEnds`).

The first four are inductive together with `TypeOK`. All rest on `ResyncFacts`:
`_resync_to_magic` stays in the buffer, stops at a magic where it leaves two bytes, and
passes over none. `StepFacts` reduces a step to what it consumes and emits.

`ServerEndpointProofs`, from `ServerAssumption` (any messages, any number of arrivals,
tasks per poll and detaches):

* `TypeCorrect`, `AnswersInOrder`, `NoneLostOrRepeated` and, as a result of its own,
  `AnswersFitArrivals`. The queues laid end to end are one line of messages
  (`Pipeline`), and there are three things a step can do to a line: replace a message by
  what stands for it (`Replaced`), drop one (`Dropped`) or let one join
  (`Joined`). `LineInv` is what these keep: every message stems from an arrival
  (`Fits`), no arrival has two (`Distinct`), all but the answers to control messages are
  in order (`Ordered`), and what must be answered is in the line (`AllHeld`). One lemma
  for each of the three changes and one that says which change each step of either thread
  makes give the proof.

`RpcSystemProofs`, from `RpcAssumption` (any number of calls, request ids, losses,
reattachments and calls given up):

* `TypeCorrect`, and `AtMostOnce`: the server runs a client's requests in the order of the
  calls, each at most once. A message stands in one of eight places (`Held`), which every
  step moves it along; calls stay in order over all of them (`Ordered`), carry the
  ids they were given (`BelongToCalls`), and those that are on their way as responses are
  served while those on their way as requests are not (`ServedSplit`).
* `OwnAnswers`: an answer is the call's own unless the id was used twice, by choice or
  around the id space. `IdsSpread` is `IdAges` again, for request ids.
* `ResponsesExpected`, `TableExactlyUnanswered`: until an id is used twice, a message on
  its way is one the table expects, and entries and unanswered calls are as many.
* `Implements`: with no id used twice (`MaxCalls <= MaxRequestId`, `MaxChosen = 0`, where
  alone the service is promised) `Spec => ImplementsService`, step by step: a send
  issues, a handler that runs serves, an answer taken finishes, a deadline gives up,
  and the rest is unseen.

`MediaStreamsProofs`, from `StreamAssumption` and `MediaAssumption` (any stream ids, any
space of sequence ids, any number of calls to the sink):

* `RegistryTypes`, `LivesAreSeen`, `AnomaliesAreCounted` of `StreamRegistry`. The
  registry and the last call to the sink about each id agree (`RegistryFits`), and each
  step adds one call, so what was heard before stays true.
* `OwnsRegistry`: every step of the media registry is a step of the stream registry it
  owns, or a stutter, so those three hold of it too.
* `MediaTypes`, `SourcesOpenOnce`, `IdsAreGivenOnce`, `KindsAreCounted`: one open stream
  per source, an id given out at most once until the ranges meet, and equal counts in
  both registries.

`MethodRegistryProofs`, for any ids and names: `AlwaysInverses`. `Inverses` is
inductive as it stands.

`GeneratorProofs`, for any processes, commands, source trees, definitions put there by
hand, names and number of changes. `GeneratorAssumption` says what YAML parsing makes of
any text: lists of records with the keys the loaders look at, a finite number of
domain files, numbers that are integers where they are there. It says nothing of whether
the sources are sound; that is what the program finds out.

* `NothingBeforeChecks`: as long as a process has not passed the checks, all its files
  are still to do. `AllOrNothing` follows: only writing can fail half way.
* `HeldIsChecked` is the inductive invariant of the rest: what each process holds in each
  phase (`Holds`), phases (`Phases`), and that every file is as it should be (`DiskOK`),
  which holds of a file when it is written and needs no more after that. `TypeCorrect`
  is its shallow part.
* `PublishedClosed`: a definition written by a command, and every JSON form of any, is
  closed. What the loader accepts has the numbers and names it needs (`LoadedIsSourced`,
  over the sorted files, `InOrderFacts`), reading what was built changes none of its
  lists (`BuiltIsLoaded`), what `validateProtocolDefinition` accepts is closed
  (`ValidIsClosed`), and so is anything alike (`AlikeIsClosed`), as the definition and its
  JSON are (`LoadedIsAlike`, `JsonIsAlike`).
* `RegistriesSound`: a high byte that is a byte gives a number of two bytes
  (`RangesFit`: the arithmetic of `>>`), unique items give unique rows, and the registry of
  generated methods, filled one by one, finds every method under both (`LookupsFollow`,
  by induction over its rows).
* `InStepAlone`: the files of an undisturbed `generate` agree. `Undisturbed` is the
  invariant: a process that is alone is the only one at work, and each file it has
  written is still as it made it. What it made agrees because all of it comes from one
  definition and the sources this was built from (`InStepFollows`), and the document is
  true because the validator accepted what it shows (`DocumentFollows`).

`VersioningProofs`, from the assumptions of `Versioning` (bounds are naturals, the
checkout begins with known values, `Undef` is none of them, and a time of generation is
not part of any other value that is written down):

* `ChecksAreTrue` and `ReleasesAreTrue`, for any number of processes, constants files,
  commands, edits and tags. `Invariant` joins two arguments. `Knows`: what a process has
  checked so far is still so if nobody else wrote. `StampsTell`: as long as no time was
  given out twice, two texts with the same time are the same, so that constants that
  contain the manifest's time are the manifest's.
* `TypeCorrect`.

Only model-checked: the three liveness properties, `LoopEnds`, `RequestsAnswered` and
`Answered`, since liveness under fairness is out of the prover's reach; and
`RepeatsAreDuplicates`, which is false. The library's induction theorems cannot be used
by these provers, since they take an operator as a parameter; where a recursive
function had to be reasoned about, the induction is over a set of naturals and proved in
the module (`Induction` in `ReassemblyProofs`, `FrameDecoderProofs` and
`GeneratorProofs`).

Some of the generator's model is there for the proofs' sake: that `normalizeId` throws on
a missing bit offset or legacy number (`HasBit`, `HasLegacyNumbers`), without which dense
bits do not follow; that a file that is not there is outside the domain of `disk`, and so
cannot be taken for a definition; and that the document is claimed to be true only of
transports that have a name.

## What is not modelled

* Byte layouts (`wire_io.py`, headers, payload encodings) and the CRC's own
  strength: a decoder that accepts the wrong bytes with a matching CRC is outside.
* Unknown enum values and short payloads in `PayloadDecoder`; `WebSocketJsonRpc` wire
  mode, in which both processors drop everything; JSON-RPC sourced payloads.
* A second fragmenter at one reassembler: `attach_transport` of a client (`sdk.py:30`)
  makes one whose ids start at 1 again, while the server's reassembler
  (`sdk.py:116-119`) keeps the assemblies of the old connection. `MixedOnlyAcrossWrap`
  and `IdsFarApart` hold for the messages of one fragmenter; a message of the new
  connection may complete a stale assembly of the old one at any distance.
* The lock of the pending table (`core.py:44`). Each table operation is one step, because
  the lock is held over all of it; a missing lock would not show in these models.
* A sink that raises before the registry changes. Sinks are called last, and the call and
  the change are one step. The gaps, duplicates and unknown chunks that the media registry
  copies (`media_profile.py:226-231`) are overwritten by each reading of its `stats`;
  only the chunks it counts itself are modelled.
* Several application threads on one client; a client that serves requests itself, whose
  broker keeps its results when another transport is attached.
* Handler registration, JSON parsing and the codec checks of the media profile.
* Of the generator: wording and layout, the constant parts of its texts (codecs, common
  enumerations, the vectors' bytes), options that only redirect output, and `diff`, which
  only refuses. Two names that get the same C++ name are possible (`util.ts:21`); nothing
  in the repository says they are not to be, and no property speaks of it. A file is
  written at once, a process killed inside a write is not modelled. The C++ headers, the
  tables, the MCP registry and the vectors are groups of files that count as one each, so
  files of two commands inside a group are not seen. The domain files, which are read one
  by one, are read at one moment, and so are `protocol_meta.yaml`
  (`sourceLoader.ts:173`) and the other files of a phase.
* Of the release automation: hashes of the inputs and the commit of the runtime, which
  the manifest records and nothing compares; the builds and git commits of the scripts.
  `Prepare` reads lock and version and writes the new version in one step
  (`prepare-runtime-revision.sh:76-117`), so that an edit between them is not seen, except
  as an edit of the version, which `Versioning` allows to anyone at any moment; and
  it leaves out the plain check that comes before the check as a release, so that more
  behaviours pass. Also outside are the workflows that look up tags, merge and dispatch,
  which are calls to GitHub. That two merges both find the tag missing
  (`auto-release-on-merge.yml:38`) and one of them then fails to push it is outside; that
  a tag is pushed once is git's promise.
* Conformance runs and tests; the generated tables, which are data.
* Preemption inside a Python operation: `list.append` and `list.pop(0)` are atomic in
  CPython, so the step is one such operation with the computation around it.

## Plan

Done: 1. `Reassembly` and its proofs; 2. `FrameDecoder` and its proofs; 3. `Endpoint` and
`ServerEndpoint`; 4. `RpcService`, `RpcSystem` and the refinement;
5. `StreamRegistry`, `MediaStreams`; 6. `MethodRegistry` and its proof;
7. the generator, from `DomainRegistry` to `Generator`, and its proofs; 8. `Versioning`
and its proofs; 11. the proofs about `ServerEndpoint`; 12. those about `RpcSystem`, with
the refinement; 13. those about `StreamRegistry` and `MediaStreams`.

Next, the model:

9. In `Reassembly`, a fragmenter made anew for another connection while old assemblies stay.
   The payload decoder's early returns and exceptions between `FrameDecoder` and
   `Endpoint`; events between two endpoints that both return them; message ids taken by
   two threads.
10. The jobs that merge, look up and push tags, over `Versioning`.

Then, the proofs:

14. What liveness rests on and is safety, as `EveryPassAdvances` is of the decoder: that a
    poll moves every message it can, and how far a request is from its answer.
15. That an endpoint of `RpcSystem` serves as `ServerEndpoint` does, so that what is proved
    of the one holds of the other.
