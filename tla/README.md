# A TLA+ model of State Pack

State Pack keeps the KV cache of a language model as a *packet* that is named
by a SHA-256 digest, so that an agent sends only the new text (the *delta*) of
each step. This directory models the parts of the repository that own state
and share it: the packet store on disk, the stateless inference server, the
session server, the Rust protocol server with its clients, and the agents (the
LLM wrapper, the agent loop over the SDK, the simple HTTP server) on one store.
Paths below are relative to the repository root.

## The system

| Component | State it keeps | Operations | What is hard |
|---|---|---|---|
| CLI packet commands, `src/main.rs` | two files per packet in a store directory: blob `.pt`, manifest `.json` | create, delta, infer, merge, verify, gc | several processes on one directory without a lock; kills between two system calls; gc works from a listing |
| Python `PacketStore`, `state_pack/store.py`, `serialize.py` | the same directory | create, infer, merge, load, verify | the same, and the digest is taken from the shared file |
| Stateless server, `state_pack/stateless_server.py` | `_hot` (cache objects by state hash), a store | POST `/states`, `/infer`, `/merge`, `/compact` | a thread per request, no lock; objects handed out by reference; eviction; restarts |
| Rust protocol server, `src/server.rs` | the same store, a request counter | register, infer, merge, compact | hashes files that others write; copies a file onto itself |
| Stateless client, `state_pack/stateless_client.py`, `compaction.py` | current hash, cache, deltas, counters; a policy | set_base, step, compact | a call fails after the client has changed its own state |
| Session server, `state_pack/session_server.py` | base caches, sessions with counters and expiry | open, step, close | concurrent steps, expiry, shared base objects |
| LLM wrapper and agent loop, `state_pack/llm.py`, `agent_loop.py` | current hash, cache, counters | set_base, call, run | what the hash of a merge covers; calls that raise after the cache has advanced |
| Command line SDK, `state_pack/client.py` | none of its own | create, infer, merge | one call is several commands, each of which may find another packet |
| Simple HTTP server, `state_pack/server.py` | none of its own | POST `/packets`, `/infer`, `/merge` | works on packets that others stored |
| Benchmark commands, `src/main.rs` 390-629 | counters of one run | run_benchmark, benchmark_native, tokenize | merge policies; a loop that depends on an external script |
| OpenAI integration, token bridge | none of their own | wrappers | - |

How they interact: everything meets in the store directory. The CLI, the
Python store (inside the session server, the stateless server, the LLM wrapper
and the simple HTTP server) and the Rust server write the same two files under
the same names; there is no lock and no rename, so whatever one process does
between two system calls another one sees. The SDK and the agent loop run the
CLI as a subprocess. The stateless client writes blobs itself and then calls
the Rust server, which writes the manifests.

What makes each of them correct: a packet at rest has the blob its manifest
names; a receipt speaks of the packet its delta was cut against; gc removes
the old packets and only those; a state hash stands for one text, whoever asks
and whatever is cached; a hash that was returned can be gone on from; sessions
on one base do not see each other; a packet was computed from what its address
names.

## The modules

| Module | Models |
|---|---|
| `StatePack` | texts and state addresses |
| `PacketStore` | the store directory and the CLI and Python processes on it |
| `MCPacketStore` | the symmetry of its TLC instances |
| `PacketStoreProofs` | theorems about `PacketStore` |
| `StatelessServer` | the stateless server with its store |
| `MCStatelessServer` | the symmetry of its TLC instances |
| `StatelessServerProofs` | theorems about `StatelessServer` |
| `StateService` | what the stateless server promises: a map from hashes to states |
| `StateServiceProofs` | `StatelessServer` implements `StateService`, with and without kills |
| `SessionServer` | the session server; also the module of its TLC run |
| `SessionServerProofs` | theorems about `SessionServer` |
| `SessionService` | what the session server promises: each session has a cache of its own |
| `SessionServiceProofs` | `SessionServer` implements `SessionService` |
| `AgentStore` | wrappers, agent loops over the SDK and the simple HTTP server on one store |
| `MCAgentStore` | the symmetry of its TLC instances |
| `AgentStoreProofs` | theorems about `AgentStore` |
| `ProtocolServer` | the Rust server with the stateless clients and the compaction policies |
| `MCProtocolServer` | the symmetry of its TLC instances |
| `ProtocolServerProofs` | theorems about `ProtocolServer` |
| `Counting` | lemmas on finite sets that two of the proof modules use |

### PacketStore

`blob` and `man` are the two files of each address: absent, torn, or the value
they hold. A complete blob is a member of `Variant` (the same text can be given
two blobs: another dtype, another model), a manifest that parses is the digest
it carries, which with the address is also its `packet_id`. SHA-256 is
injective, so a digest is represented by what was hashed. `older` orders the
manifests by modification time. `job` is where each process is in its command,
`fd` what became of the file it holds open for writing, `deltas` the delta
packets that have been cut, `receipt` the infer receipt printed last.

A command is split where another process can fall in:

- create and merge: the inputs are read and hashed (`StartCreate`,
  `StartMergeCli`, `StartMergePy`), the destination is opened and truncated
  (`OpenDest`), the last byte is written (`CloseDest`), Python hashes the
  destination (`HashDest`), the manifest is written (`WriteManifest`). The CLI
  has the digest of its *source* from the start; Python takes it from the
  shared destination.
- infer: the manifest is read and its `packet_id` compared (`StartInferCli`),
  then the blob is hashed (`CheckBlob`). Python answers from the manifest
  (`InferPy`). `verify` does the reads of `CheckBlob` and `resolve` only tests
  that the files exist; they change nothing and have no action.
- gc: one listing and cut (`GcList`), then for each packet the manifest
  (`GcRemoveManifest`) and the blob (`GcRemoveBlob`).
- `Crash`: a process is killed, or gives up at a system call that fails,
  anywhere, and nothing cleans up after it.

Two processes with one file open: the second open truncates what the first
has written. If both write the same bytes, the one that opened last completes
the file; if they write different bytes, what is left depends on the order of
the writes and is any of the two blobs or a torn one (`Copied`). A file that
is unlinked while it is open is finished without a name.

`ServeSpec` has writers and readers only, `Spec` adds gc and kills. No code
keeps gc and writers apart; `GcApart` says whether the operator does (`MayWrite`,
`MayClean`), and with `GcApart = FALSE` everything may happen at any time.

### StatelessServer

`hot` and `order` are the dictionary `_hot` with its insertion order, `heap`
the contents of the `DynamicCache` objects by identity (a state can be cached
as different objects at different times, and two threads can hold the same
one), `blob` and `man` the files, `req` what each thread is doing, `acked` the
hashes clients were given. A cache is represented by the text it was computed
from, a hash by the text it stands for and the way it was computed (`Hash`).

A step of a request ends where it does file I/O or runs the model, which is
where Python lets other threads run, and after each change of `_hot`: lookup
(`GetKv`, in `CreateKnown`, `Advance`, `Compact`), the insertion of a state
read from disk (`Warm`), one forward pass (`CreateNew`, `Forward`), eviction
(`Evict`), opening and finishing the blob (`OpenBlob`, `SaveBlob`), the
manifest (`SaveManifest`), the insertion of the new state and the answer
(`Answer`). `/infer` and `/merge` differ in the output token only and are one
action.

Whether a forward pass appends to the cache it is given (`InPlace`) is a
property of the library, not of this code; both cases are parameters. The
`DynamicCache` of current versions appends in place.

`StateService` is the abstract specification of the server: one variable
`value`, the states that the hashes returned so far stand for; a request returns
a hash for a base text (`Create`) or for a delta run on what a hash stands for
(`Extend`), and a hash never changes its meaning. `ServesStates` is that
specification under the refinement mapping at the end of `StatelessServer`:
the hashes are the acknowledged ones (`acked`) made from a text and deltas, and
what one stands for (`Served`) is what a request that names it would run on:
the object in `_hot`, else the blob, else the tensors of the thread that is
writing the blob. All other steps of the server, evictions, loads and stores,
are stutters. A request that meets the blob while it is torn fails and is no
step. The hashes POST `/compact` returns have no files of their own (see
`server_compact`) and are outside the service, so compacts are stutters.

A kill takes the hot cache, the requests and the blobs that were being written,
so a server that is killed is the service only with states that get lost.
`LossySpec` of `StateService` adds a step `Lose`, in which some hashes stand
for nothing from then on; they can be made again, by the requests that made
them before and by no others. `SurvivesKills` says that `Spec`, with kills at
any point, is that service: the values are now those of the hashes a request
would find (`Available`, `Surviving`), and it adds that without a kill none of
them is lost.

### SessionServer

`shared` and `counted` are `_base_cache` and (as a set of texts) `_base_tokens`;
`sess` has the dictionary of every session opened so far and `open` the keys of
`_sessions`, since a step that is under way keeps the dictionary of a session
that was removed; `heap` the contents of the cache objects by identity, which
the base and its sessions share; `man` the texts whose packet is stored; `req`
what each thread is doing. `lost`, `sent`, `mixed` are history: texts that
could not be stored, steps begun on each session, sessions on which two steps
have overlapped.

`_get_or_create_base` is split after the model (`CreateMiss`, or `CreateHit`),
the entry of the cache (`InsertCache`), that of the count (`InsertTokens`) and
the store (`Persist`, or `PersistFails`); `OpenSession` returns what the
dictionaries have by then and opens the session. A step takes the cache of its
session (`StartStep`), runs the model (`Forward`), sets `past` (`PutPast`),
reads and writes the counter (`ReadStep`, `WriteStep`: `+= 1` is two
operations) and asks the store for a receipt (`EmitReceipt`), which changes
nothing whether it is found or an error. `CloseSession` is DELETE and also the
step that finds its session expired.

`SessionService` is the abstract specification: every session has a cache of
its own (`cache`); a session is opened on its base text (`Open`), a step takes
the cache of its session (`Begin`, in `job`) and later makes that plus one delta
the cache of the session (`Finish`); `Close` ends the beginning of steps, not
those under way. Two steps of one session at a time may lose a delta, as they
may in the code. There are no objects in it and nothing is shared. The mapping
is at the end of `SessionServer`: `Caches` looks up the object of each session,
`Jobs` is for each thread between `StartStep` and `PutPast` the cache it is
making. Everything to do with the bases, `Forward`, the counters and the
receipts are stutters (`ServesSessions`).

### AgentStore

Three kinds of agents name what they store by digests they compute themselves,
next to a cache that they advance: a `StatePackLLM` (`SetBase`, `Call`,
`Merge`), an `AgentLoop.run` (`StartRun`, `RunDelta`, `InferCli`, `CutMerge`,
`MergeCli`, `EndRun`) and a thread of the HTTP server (`HttpCreate`,
`HttpLoad`, `HttpMerge`); `Collect` is gc. `pkt` is what is stored under an
address, `agent` the fields or locals of each agent. Packets are written and
removed whole, and the digests of a manifest are represented by the packet (the
text its cache was computed from, the dtype and the token count); how the two
files of a packet come apart is the subject of `PacketStore`. Every text is one
token. Loops store the tensors as the model returns them ("full"), the others
as float16 ("half").

An exception in a wrapper leaves the fields as they are and the next call goes
on from them: the cache has a delta then that no address will name. An
exception in a loop ends the run (`Refuse`), which may be started again. The
CLI commands of one SDK call each read the manifest anew; `id` is the packet
the delta in hand was cut against. `HttpLoad` and `HttpMerge` are POST
`/merge`; POST `/infer` does what `HttpLoad` does and forgets the result, and
has no action.

### ProtocolServer

`blob` and `man` are the files under the server's store, `own` the fields a
`StatelessClient` keeps (`_state_hash`, `_past`, how many `_deltas`), `job` the
operation each client is in, and `late` the handlers whose call was given up.
A name (`Name`) is again what was hashed: the base text, the deltas, and after
which of them there was a compaction.

A client calls the server synchronously, so the client and the handler that
works for it are one process: `SetBase` and `Step` run the model, `OpenBlob`
and `SaveBlob` write the blob, `InferLoad` and `InferVerify` are `/infer`,
`HashBlob` and `WriteManifest` are `/states` and `/compact`, which do the same
with a file that is already in place. `step` replaces `_past` in its first
action and `_state_hash` in its last, `set_base` both when its blob is written
(`SaveBlob`) and before the call. A step whose state is adopted asks the policy
(`ShouldCompact`, with a case for each class of `compaction.py`) and goes on
with the compaction (`Continue`).

`Refused` is an error the server answers, `Fail` any other exception in the
client (a lost connection, a full disk), `Kill` the end of the client process.
The handler of a call that is given up goes on (`LateHash`, `LateManifest`), is
lost, or dies with the server while it writes the manifest; a manifest cut
short is as good as none, since `load_manifest` answers 404 to both. `errors`
counts the operations that broke off, for the bound `MaxErrors`.

`Retry` is what the caller of `step` does after a failed step: with
`Retry = FALSE` it calls `set_base`, with `TRUE` it may call `step` again.

## The runs

All bounds are constants of the `.cfg` files; symmetry is over processes,
threads, texts and blobs, which the specifications never tell apart.

| Run | Instance | Shows |
|---|---|---|
| `store_serve` | 3 CLI processes, chains of up to 2 deltas, one blob per address | `RestingPacketsIntact`: concurrent writers never leave a packet at rest that does not match its manifest |
| `store_full` | 2 CLI and 1 Python process, two blobs for the address, gc by count and age, kills | `DeltaBinding` (and `TypeOK`) in the presence of everything else |
| `store_maint` | 1 CLI process and 1 Python thread, a base and a merged packet, `GcApart`, kills | `ManifestHasBlob`, `RecentSurvives` |
| `server_serve` | 3 threads, chains of up to 2, no compacts, a hot cache of 1 | `TypeOK`, `StoredStates`, `CreateReady` while the server stays up, and that it implements `StateService` (`ServesStates`) |
| `server_restart` | 3 threads, chains of 1, restarts at any point | `RunsOnNamedState`; the server implements the lossy service of `StateService` (`SurvivesKills`) |
| `protocol_calls` | 2 clients, chains of up to 3, max_steps 2, min_steps 1, a ratio of 1.0, one failure or kill | `TypeOK`, `ClientNames`, `SameHashSameState`, `DeltasBounded` |
| `session_serve` | 2 threads, 2 sessions on 1 text, 2 steps each, one packet that cannot be stored | `TypeOK`, `SessionsApart`, `StepsCounted`, `BasesReady`, `StaysClosed`; the server implements `SessionService` (`ServesSessions`); under fairness `Answered` |
| `agent_merge` | a wrapper with merge_every 2, 2 loops with merge_every 1, a server thread, one text, one delta text, chains of up to 2, one packet removed by gc | `TypeOK`, `CacheCoversName`, `TokensOfName`, `LoopsAgree` |

Why these bounds: every hazard in `PROJECT.json` needs two actors on one
address, some need a third (a writer that is overtaken by a second and finished
by a third; two requests and one that evicts). A chain of one is enough for a
state that is both a child and a parent of something, a chain of two for a
parent that is itself a child. A hot cache of one makes every store evict.
`MaxHeld` is one more than the number of threads and `MaxObj` one more than
the texts, sessions and threads together: a new object is always available, so
these bound nothing (proved, see `ServerGoesOn` and `RequestsGoOn`). Compacts on the stateless server are in `server_restart`. In
`protocol_calls` the recommended ratio of 1.0 is used, so max_steps compacts,
after the second delta, and there is a step from a compacted state; one failure is enough for a torn blob, a late handler or a
client whose `_past` is ahead of its hash while another client works on the
same states. In `session_serve` two threads are enough for two steps of one
session or a step and a close of it, two sessions for a base that is shared;
the server stops when its session ids are used up, so this run does not check
for deadlock, and it uses no symmetry because of `Answered`. In `agent_merge`
every pair of kinds of agents meets on the three addresses, two loops on all of
them; deltas of different texts, whose order matters in `CacheCoversName`, are
left to the proof. Everywhere else deadlock is checked: the systems never stop.

These runs have a counterexample, each for a sentence in the repository:

| Run | Sentence | What happens |
|---|---|---|
| `server_pure` | README.md:120 "The same state_hash from any client always returns the same result" | with `InPlace`, an infer changes the cached state of its own input |
| `server_compact` | stateless_server.py:274 "returns a new canonical state hash" | the files are stored under another name than the hash returned |
| `protocol_retry` | README.md:120 "The same state_hash from any client always returns the same result" | a step fails after it replaced `_past`; the next step stores a cache with one delta too many under the hash without it |
| `agent_every` | agent_loop.py:26 "Merge KV cache into base every N steps", client.py:54 "merge accumulated deltas back into base" | with merge_every 2 the address of the merged packet names the second delta only, its cache has both |

Further divergences were met and have no run. A packet that is written again
between the listing and the removal of gc is removed as old (main.rs:820,
against main.rs:131 "Keep only the N most recently modified packets"), which is
why `RecentSurvives` is checked with `GcApart`. A gc killed between its two
removals leaves a blob that no later gc lists (main.rs:767, against README.md:63
"Keeps storage bounded"). A stateless server killed between the blob and the
manifest of a new text takes that text for a cache hit and answers it with an
error from then on (stateless_server.py:144, against "Idempotent" at :140), which
is why `CreateReady` is stated for a server that stays up. With a model that
appends in place, the first step of a session changes the base that all
sessions share (session_server.py:126, against "do NOT mutate" at :88). Two Python writers of one
address can leave a manifest with the digest of a half-written file
(store.py:77), where the CLI hashes its source (store.py:40 "Same semantics as
the Rust CLI"); `register` of the Rust server does the same (server.rs:297). A
state read from disk enters `_hot` without eviction (stateless_server.py:91,
against the comment at :46). `PacketStore.infer` emits a receipt for a blob
that is torn or gone (store.py:104), which the CLI refuses. README.md:193 says
"Compact when accumulated delta tokens exceed base tokens": the client passes
a base count that already includes the deltas (stateless_client.py:98), and
words for tokens, so with the recommended ratio of 1.0 the rule is never true
and only max_steps compacts.

Each property of a passing run has a mutant: a definition `... Mutant of X`
that changes `X` the way a plausible slip in the code would, and that the run
finds.

## Fairness

`FairSpec` of `SessionServer` assumes weak fairness of `Work(i)` for each
thread: a thread of the pool that has a request runs on, whatever the others
do, because there is no lock to wait for and the operating system schedules
every thread. Nothing is assumed of clients, of time or of the disk: a request
for a new step, a close or a failing disk (`PersistFails`) may come or not.
`Answered`, every request is answered, is checked under it. `Work` is always
enabled while a request is under way because no step of one waits for another;
the theorem `RequestsGoOn` is the part of that which needs no fairness.

The other specifications state no fairness: their properties are invariants,
action properties and a refinement without liveness. That gc ends and that a
call of the stateless client returns depend on processes that may be killed at
any point.

## Proofs

TLC checks the instances above; the theorems hold for every number of
processes, threads, texts, deltas, blobs and every bound.

`PacketStoreProofs`:

- `TypeCorrect`: `Spec => []TypeOK`. `AddrClosed` says that merged addresses
  are addresses; the rest is one lemma for the writers, the readers, gc and
  crashes.
- `RestingPackets`: `ServeSpec => []RestingPacketsIntact` when all processes
  are CLI processes and all blobs of an address are equal. Both are needed:
  two Python writers are a counterexample without the first, two writers of
  different blobs that interleave their writes one without the second. The
  property is not inductive: a torn file must be about to be finished. The
  inductive invariant `IntactInv` says that whenever a blob is torn, the
  process that truncated it last is still copying, and that a manifest comes
  after its blob.
- `ManifestsHaveBlobs`: `Spec => []ManifestHasBlob` when `GcApart`; without it
  gc can unlink a blob that a writer holds open. The invariant adds
  that the blob of a process that is about to write a manifest exists, and that
  writers and gc do not overlap.
- `RecentPacketsSurvive`: `Spec => RecentSurvives` when `GcApart` and
  `AgeLimit = FALSE` (a gc by age may remove any packet). `RecentInv` says that
  a packet still on the list of a gc is gone or has `KeepLatest` newer ones,
  which no other gc removes before it; `OrderInv` that `older` orders the
  manifests, of which there are finitely many, so that the cut of a listing is
  one of the store.
- `ReceiptsBound`: `Spec => []DeltaBinding`. The invariant `BindingInv` adds
  that a process that is about to hash a blob has a delta cut against the very
  packet it read.

`StatelessServerProofs`:

- `ServerTypeCorrect`: `Spec => []TypeOK`, which includes that the keys of
  `_hot` and their insertion order agree.
- `NamesAreKept`: `Spec => []RunsOnNamedState` when `InPlace = FALSE`. The
  invariant `NamedInv` says that every hot object, every object and tensor in
  the hands of a thread and every blob file that is not torn holds the text of
  the hash it goes by; eviction and reuse of objects preserve it because a
  fresh object is one that nobody refers to.
- `StatesStayStored`: `ServeSpec => []StoredStates` when `InPlace = FALSE`.
  `StoredInv` adds that a torn blob is always being written by a thread that
  truncated it and has the right tensors, and that a state in memory, in a load
  or in an answer has its files.
- `CreatesAreReady`: `ServeSpec => []CreateReady` when `InPlace = FALSE`.
  `ReadyInv` adds that what is hot or being loaded has a blob, and that a blob
  without a manifest belongs to a thread that is about to write it.

- `CompactsAreLost`: `Spec => [](CompactUsable <=> no hash a client holds is of
  a compact)`. `server_compact` shows one hash that is unusable; this says all
  of them are, for ever, because nothing writes a manifest under such a name
  (`FilesInv`).
- `ServerGoesOn`: `Spec => []GoesOn /\ Nearer` when the threads are finitely many
  and fewer than `MaxHeld`: a request always has a place for the cache its next
  step makes, and each of its steps brings it nearer to its end. By counting
  (`PlaceLeft`): the objects made for one hash that somebody refers to are at
  most one per thread, the hot one included, since a thread that is about to
  make another holds none (`HotLabels`).

`StateServiceProofs`:

- `ServerImplementsService`: `ServeSpec => ServesStates` when
  `InPlace = FALSE`. With the invariants above, what a hash stands for
  (`Served`) is its content in every state (`ServedNamed`), so a step that
  acknowledges nothing is a stutter. For the others `LineageInv` says that the
  answer a request is going to give is a base text or one delta on a hash a
  client was given, which is a `Create` or an `Extend`.
- `ServerSurvivesKills`: `Spec => SurvivesKills` when `InPlace = FALSE`.
  `StoredInv` is of no use here, since after a kill nothing says that a state is
  there. `KeptInv` is conditional: a state that is hot, that a request has read
  or that it is about to return is whole (`Whole`), which is to say that its
  blob loads or the thread that will finish it is at work. A kill takes all
  three with it.

`SessionServerProofs`:

- `SessionTypeCorrect`: `Spec => []TypeOK` (`TypeInv` adds that a request that
  is to return a cached base finds one).
- `SessionsStayClosed`: `Spec => StaysClosed`.
- `SessionsStayApart`: `Spec => []SessionsApart` when `InPlace = FALSE`.
  `ApartInv` extends it to the caches in the hands of the threads.
- `BasesAreReady`: `Spec => []BasesReady`. `ReadyInv` says that an entry of the
  cache without a count or a packet belongs to a thread that is about to
  provide it.
- `StepsAreCounted`: `Spec => []StepsCounted` when `InPlace = FALSE`.
  `CountInv` bounds cache and counter by the steps begun, less the ones under
  way that have not got there (`Bounded`), and says where a single step under
  way leaves the two apart (`Matched`).
- `RequestsGoOn`: `Spec => []GoesOn /\ Nearer` when texts and sessions are
  finitely many and `MaxObj` exceeds texts, sessions and threads together: a
  new object and, for a request that opens a session, an unused id are always
  there, and whatever happens to a request takes it nearer to its end. This is
  why `Answered` holds under the fairness of `FairSpec`. The proof counts the
  references (`HeldIsSmall`) and the ids set apart (`IdInv`).

`SessionServiceProofs`:

- `ServerServesSessions`: `Spec => ServesSessions` when `InPlace = FALSE`. Every
  action is a step of the service or a stutter: the objects that stay referred
  to keep their contents (`HeapSame`), so only `PutPast` changes the cache of a
  session; `Forward` works on a new object, so what a step makes is decided
  when it begins; and by `ApartInv` what `OpenSession` shares is the base text
  alone.

`AgentStoreProofs`:

- `AgentTypeCorrect`, `CachesCoverNames` and `TokensFollowNames`:
  `Spec => []TypeOK`, `[]CacheCoversName` and `[]TokensOfName`, for any number
  of agents and any `merge_every`, with and without `InPlace`. They share the
  inductive invariant `IInv`: the same holds of the cache an agent carries and
  the address it takes it for, and once more when the delta in hand is added to
  both (`Good`); `WithinAppend` is the fact about sequences behind it. That an
  address stays within `MaxChain` needs that it names no more deltas than were
  run.
- `LoopsDoNotClash`: `Spec => []LoopsAgree` when `MergeLoop = 1`. The
  invariant `LInv` says that there is one packet a loop can store under an
  address (`Exact`), so that a packet that differs from the one a delta was cut
  against is of a wrapper or of the server.
- `LoopsMergeAll`: `Spec => []MergesAll` when `MergeLoop = 1`, from the same
  invariant; `agent_every` is the counterexample with `MergeLoop = 2`.

`ProtocolServerProofs`:

- `ProtocolTypeCorrect`: `Spec => []TypeOK`. That an operation adopts a hash
  and counts its deltas within the type needs `TypeInv`: the deltas since the
  last compaction are among those of the hash and the cache has at least those
  (`FieldsInv`), a job has the target, tensors and digest its phase uses
  (`JobInv`), and a blob that somebody hashes exists (`FilesInv`).
- `ClientsKeepNames`: `Spec => []ClientNames` and `HashesKeepStates`:
  `Spec => []SameHashSameState`, both when `Retry = FALSE`; `protocol_retry` is
  the counterexample to the second without it. Each needs the other: the
  invariant `NamesInv` says that fields, tensors on their way to a file,
  digests in a handler's hands, blobs and manifests all are of the state of the
  name they go by, or torn. A file with two writers can only mix tensors that
  are equal, because both write the state of the file's name.
- `CompactionsAreDone`: `Spec => []DeltasBounded`. The property and the theorem
  name the policies that bound the deltas (`CompactsInTime`): all but `never`,
  and a threshold policy only with `MinSteps <= MaxSteps`. `DeltasBounded`
  speaks of idle clients; `DueInv` adds that only a client that is compacting
  has as many deltas as `MaxSteps` and its failures allow.

The constants' assumptions (`ProcAssumption`, `ValueAssumption`, ...) only say
that the model values differ from each other and the bounds are numbers. Every
property of a passing run is stated by a theorem but `Answered`: liveness under
fairness is out of the provers' reach, its core without fairness is
`RequestsGoOn`. What theorems assume beyond that is named above each time:
`InPlace = FALSE`, `GcApart`, `AgeLimit`, `Retry`, `MergeLoop` and the policies
are choices of the operator, of the library or of a caller, and where a run
contradicts the other choice it is named too.

## What the models leave out

- The contents of tensors: rounding to float16 on disk and full precision in
  memory are the same state here. Token counts, times and byte counts.
- A manifest is written by one call of write. A reader that finds it truncated
  fails without changing anything; in `PacketStore` that step is left out, in
  `StatelessServer` it is `ManifestReads`.
- Reading a blob, hashing a file and listing the directory are one step each.
- Requests that fail before changing anything (404, a KeyError when a state is
  evicted between the test at stateless_server.py:83 and its use) are no steps.
- Clients of the stateless server send hashes they were given.
- `/merge` of the Rust server, which no client in the repository calls, and a
  `/compact` whose blob path is the destination under another spelling (it
  copies the file onto itself): the modelled client sends the destination.
- The division by zero of `SavingsPolicy` for a state without tokens; token
  and time statistics of all components.
- In `SessionServer` the blob, which nothing there reads, and the receipts.
  GET `/sessions`, which may meet a dictionary that changes and fails.
- In `AgentStore` the two files of a packet and who truncates which, a packet
  without its blob, and generated tokens other than as one element of a cache;
  `generate` runs once after a base text, which bounds the caches.

## Not modelled

- The benchmark commands of the CLI (main.rs 390-629): one process that runs
  the packet commands in sequence; its merge policies compare counters of that
  run, its base expansion loop waits for an external script to count enough
  tokens and does not end when the script fails.
- `/merge` of the Rust server: no client in the repository calls it.
- The OpenAI integration: a sequential benchmark of an external service that
  stores no packet. The token bridge: counts the tokens of a text. Examples,
  demos, the paper and the calculator.
