# Crompressor: TLA+ models, checks and proofs

This directory models the parts of [crompressor](../src) whose correctness depends
on the order in which things happen: peers that authenticate each other, a file
that is pulled from a peer while either side may change it, reads and writes of a
mounted file, local or remote, packing and restoring a file with a pool of workers,
packing a stream behind a writing file system, and training a brain while another
process searches it. The pure part of the program, from bytes to chunks, residuals and
the chunk table and back, is checked against its inverse. TLC checks small
instances; TLAPS proves theorems for every value of the constants. Paths below are
relative to `src/`.

## 1. Inventory

A *brain* (`.cromdb`) is a codebook of patterns that two users share. A `.crom` file
describes a file as a sequence of chunks, each a pattern ID and a residual; the
residuals of 16 MB of input form one compressed *block*.

| Component | State it keeps | Operations | Interacts with |
|---|---|---|---|
| Handshake (`internal/network/auth.go`) | `authenticated` map, in memory | `AuthenticatePeer`, `authHandler`, `handshake`, `IsAuthenticated` | called by mDNS, DHT, `pull`; read by the sync handler |
| Sync (`internal/network/protocol.go`, `bitswap.go`, `pkg/sync/manifest.go`) | the local `.crom`, its `.tmp`, a stream | `RequestSync`, `ReceiveChunks`; `handleStream`, `handleSyncReq`, `handleDiffReq`, `StreamChunks` | the peer's handler over libp2p; files that `pack` replaces |
| Write-ahead log (`internal/vfs/writer.go`, `pkg/cromlib/mutator.go`) | a buffer under a mutex, the end of the `.crom` | `Append`, `flushWorker`, `tryFlush`, `forceFlush`, `Close`, `AppendMutation` | FUSE handlers, a background goroutine, the deferred `Close` of `Mount` |
| Pack / Unpack (`pkg/cromlib/compiler.go`, `unpacker.go`, `pkg/format`) | input, output, `.tmp`, entries, block table, offsets | `Pack`, `Unpack` | worker goroutines per block; codebook, zstd, AES-GCM |
| PackStream and cromfs (`pkg/cromlib/compiler_stream.go`, `internal/cromfs/fs.go`) | a pipe, a lock and a `waitCh` per inode, the pool in a temp file, the output written in place | `Lookup`, `Create`, `Write`, `Flush`, `PackStream` | FUSE handlers against a packing goroutine; two inodes of one name share an output |
| VFS reader and cache (`internal/vfs/reader.go`, `cache.go`) | LRU list of blocks and chunks bounded in bytes, `passthroughPlain`, a mutex | `ReadAt`, `loadBlockPool`, `decryptPassthrough`, `Get`, `Put` | concurrent FUSE reads; a local file or the cloud reader below |
| Mount and watcher (`internal/vfs/fuse.go`, `tree.go`, `watcher.go`) | the mount | `Mount`, `Read`, the poll of the brain, the signal | reader, write-ahead log, the kernel |
| Cloud reader (`internal/remote/cloud.go`) | LRU pages, in-flight map | `ReadAt`, `loadPage`, `prefetchPhantom` | HTTP server, concurrent readers |
| Trainer (`internal/trainer`) | the shared frequency table, the brain file | `Train`: count, augment, merge, select, reread, `WriteCodebook` | worker goroutines over a corpus; whoever has the old brain mapped |
| Codebook and search (`internal/codebook`, `internal/search`) | the memory map, index, exact words, cache of answers with its ring | `Open`, `Lookup`, `FindBestMatch`, `FindExact`, `Restrict` | workers of `Pack`, the trainer |
| In-memory pack (`pkg/cromlib/pack_bytes.go`, `unpack_bytes.go`), chunkers, `internal/delta`, `internal/fractal`, chunk table of `pkg/format` | none | `PackBytes`, `UnpackBytes`, `Split`, `XOR`, `Diff`, `ApplyPatch`, encode and decode | every reader and writer |
| Merkle tree, entropy, crypto | none | pure functions, library calls | Pack |
| Node, discovery, gossip, identity, cromdb, autobrain, metrics, CLI | configuration | start-up and reporting | everything above |

What is hard here, and what makes each part correct:

* **Handshake**: two symmetric ends over one stream, several sessions at once, lost
  connections, restarts with another brain. Only a holder of the brain may enter the
  map; an initiator that proceeds was accepted; the ends never wait for each other.
* **Sync**: the sender reads its file twice, the client reads its copy twice, and both
  may be replaced in between. What is installed must be the version the manifest
  named, or be found out; the old copy must outlive every failure; a pull must end.
* **Write-ahead log**: the lock is released before the disk is touched, so commits of
  the worker, `Flush` and `Close` overlap. What is on disk must stay, nothing may be
  written twice, and the chain of mutations should hold the writes in order.
* **Pack / Unpack**: workers finish in any order, offsets run over all blocks, the
  input may change while it is read, calls fail, blocks go bad, brains differ.
  Unpack must fail only for a cause, be exact when strict and lose only what is bad
  when tolerant.
* **Reads of a mounted file**: readers, prefetches and one lock over two caches; a page
  may be evicted before its waiter looks, a body may break off or not be the range that
  was asked for. Every read must be answered, exactly as long as nothing failed, and
  the caches must keep their limits.
* **Stream file system**: a handler holds a lock while it waits for a pipe that another
  goroutine reads; another handler waits for that lock; another inode writes the same
  output. What a finished stream leaves must be what was written, and only a failed
  stream may leave a handler waiting.
* **Training and search**: workers count in any order, the corpus is read twice and may
  change in between, the brain is written over a file that a pack has mapped. The brain
  must not depend on scheduling, a torn one must be refused, and an answer from the
  cache must be the one the search would give.
* **Codec**: differences that wrap around, runs counted in a byte, blocks that a reader
  finds again from chunk sizes alone. Whatever was packed must come back.

`PROJECT.json` lists every component with its status, and under `hazards` each of
these risks at its line with the properties aimed at it.

## 2. The modules

| Module | Models | Run by |
|---|---|---|
| `Handshake` | `auth.go` | `MCHandshake` (`handshake`) |
| `HandshakeProofs` | theorems about `Handshake` | – |
| `SyncProtocol` | `protocol.go`, `bitswap.go`, `manifest.go` | `MCSyncProtocol` (`sync`, `sync_timeout`) |
| `SyncProtocolProofs` | theorems about `SyncProtocol` | – |
| `WriteAheadLog` | `writer.go`, `mutator.go` | itself (`wal`, `wal_close`) |
| `WriteAheadLogProofs` | theorems about `WriteAheadLog` | – |
| `Archive` | `compiler.go`, `unpacker.go`, block arithmetic of `format.go` | `MCArchive` (`archive`, `archive_complete`) |
| `ArchiveProofs` | theorems about `Archive` | – |
| `CloudReader` | `cloud.go` | through `MountedFile` |
| `MountedFile` (extends `CloudReader`) | `reader.go`, `cache.go`, `fuse.go`, `tree.go`, `watcher.go` | `MCMountedFile` (`mount`) |
| `FileReads` | what a mounted file promises, abstractly | as a property of `mount` |
| `MountedFileProofs` | theorems about `CloudReader` and `MountedFile`, and that they refine `FileReads` | – |
| `StreamFS` | `cromfs/fs.go`, `compiler_stream.go` | itself (`stream`, `stream_flush`) |
| `StreamFSProofs` | theorems about `StreamFS` | – |
| `Training` | `internal/trainer`, the brain file | through `BrainSearch` |
| `BrainSearch` (extends `Training`) | `internal/codebook`, `internal/search`, the multi-pass of `Pack` | `MCBrain` (`brain`) |
| `BrainProofs` | theorems about `Training` and `BrainSearch` | – |
| `ChunkTable` | the chunk table of `format.go` | through `Codec` |
| `Codec` (extends `ChunkTable`) | `pack_bytes.go`, `unpack_bytes.go`, chunkers, `internal/delta`, `internal/fractal` | `MCCodec` (`codec`) |
| `RecursionTheorems` | induction and recursion over the naturals, sums, concatenations, quotients | – |

Operators whose name says what is wrong with them and that stand just before another
definition (`SeekStart` before `SeekEnd`, `TakeOnly` before `Take`) are faulty
variants of that definition. They are used by no action; substituting one for its
original makes TLC report the property it is listed with under `mutants`.

### Handshake

Both ends of a stream run `handshake`, so a session is a pair of *ends* and each
action takes an end: `SendNonce`, `SendProof`, `AcceptProof` or `RejectProof`, then
`SendAck` at the responder and `ReadAck` at the initiator. `pc[e]` is the position in
the function, `inbox[e]` the bytes under way. `AcceptProof` stores the peer before
the ack, as line 77 does. `HandshakeError` is any failing read or write, the deadline
included; the entry in `authenticated` stays. `RejectProof` closes the connection and
with it every session of the two peers. A nonce is identified with the end that drew
it, an HMAC with what it covers: the cryptography is ideal. `Mirrors` hold no brain
and send back what they received, in any session. `Restart` gives a node another
brain and an empty map and keeps its identity, which is a file. A nonce and a proof
are both 32 bytes, and the reader takes the next 32 bytes whatever they are
(`AsNonce`).

### SyncProtocol

One client, one sender, one file. The client's position `pc` follows `RequestSync`
and `ReceiveChunks`: await the manifest, compare, ask, receive record by record, read
the local copy, write the temp file, remove, rename; every error return is an action
of its own. The sender's actions are the branches of `handleStream`. A `.crom` is its
hash, its entries, `IsLossy` and its health: `"table"` if it cannot be parsed,
`"block"` if a block does not decompress. `StreamChunks` reads the file again, loads the codebook, makes an encoder, and then
sends one record per index that it finds; when it fails before its first chunk
(`StreamChunksFails`: the file, its table, the codebook, the encoder) nothing is sent and
nothing tells the client. `GenerateManifest` opens the codebook too (`HasManifest`).
The environment loses the connection, replaces either file (a `pack` does so with a
rename) and kills the client. `served` is a history variable: the file the records
were taken from. Residuals are not checked against the manifest, so a sender that
replaces its file in between leaves a mixture at the client: `OnlyChangedChunksDiffer` says
which chunks it can touch. That such a file is refused when it is unpacked is not claimed
here; it rests on the hash in the header, and a lossy file is not checked. A local copy whose manifest cannot
be read is announced as "Baixando tudo" (`protocol.go:243`), and everything is indeed
downloaded; but `ReceiveChunks` then reads the same copy for its residuals
(`bitswap.go:220`) and returns its error, so such a pull fails each time
(`ReadLocalFails`) until the copy is removed by hand.

### WriteAheadLog

The file is a sequence of cells (the archive, header magic, header size, data), so
that overlapping commits really overwrite one another: `SeekEnd`, `WriteHeader` and
`WriteBody` are separate steps on a descriptor of the process's own, and `WriteFails`
leaves any prefix behind. `Take` is the critical section. `TryFlush` is the worker's
tick, `Flush` the handler's `forceFlush`, `Close` / `CloseFlush` the deferred close.
`Exit` ends the process at any moment, `Mount` starts it again on the same file.
`lost`, `flaws` and `settled` are history: what no commit will write, what may have
broken the chain, and the file when last no commit was under way. The size field
counts modulo `SizeLimit`, as a `uint32` does modulo 2^32.

### Archive

`Pack`: passthrough or the block loop; `TakeJob` and `ProcessChunk` are the workers'
steps, `Gather` puts entries, offsets and residuals in chunk order and appends the
block, `Finalize` writes header and tables, `PoolLost` is the relocation of the pool
with its ignored errors, `SmartPassthrough` the fallback, `RenameOutput` the deferred
rename. The route of a chunk (exact, fractal, literal, edit script, XOR) is a
constant function, as what the search finds is a matter of size only. A residual is a
sequence of cells, so that cutting it at a wrong offset gives another chunk or none.
`Unpack`: tables, passthrough, then block by block, strict or tolerant, with the
right or another brain. A chunk table whose block count differs from the header's
cannot be read (`TablesAgree`): that is how a file that grew while it was packed is
noticed.

### CloudReader and MountedFile

The unit is a cell whose content is its position, so that a wrong, a missing and a
right cell differ. `CloudReader` follows one goroutine through `loadPage`: `CacheGet`,
`Join` (`LoadOrStore` of the in-flight map), `Recheck` once the channel is closed, four
outcomes of the download, `Close` (the deferred `Delete` and `close`). `TakePage` is the
body of `ReadAt`'s loop with its slice, which ends the process when the page is shorter
than the place the read starts at. A read at or behind the end of the file, or of no cells,
returns before that loop (`Readable`). `StartPrefetch` runs one of the goroutines that
`ReadAt` started.

`MountedFile` puts `RandomReader` on top, over a local file (`DiskRead`, `DiskFails`) or
the cloud. `GetChunk`, `GetBlock`, `Lock`, `FrameRead` and `PutChunk` are the chunk loop
with its cache look-up before the lock and again under it; `Decrypt` decrypts a whole
encrypted file once. `Put` is `MemoryCache.Put` with its evictions. The watcher's two
branches that unmount are `OnTick` and `OnSignal`, and `OnStop` the one on which `Stop`
is called; `Unmount` may be refused by the kernel, and the goroutine ends either way. A
block decodes exactly if all its cells are right; a block without residuals has an empty
frame, and reading it is a read of no cells.

`Mount` opens whatever brain it is given and compares nothing. What that brain holds under
the ID of each chunk (`words`: the codeword of the pack, another, one too short, none) and
whether the blocks decode with its dictionary (`dict`) therefore come with the mounted file.
`Rebuild` follows `reader.go:187-202`: no codeword is an error, a patch that does not apply
leaves the residual as it is, an XOR runs to the end of the residual, and a read
that needs more of a chunk than came out ends with an error. `Matched` says that the brain is as good as the packing one.

`FileReads` is the abstract specification: requests are asked and answered. With the brain
of the pack (`matched`) an answer is exact until something underneath fails; after that an
error is allowed, and wrong or short content only for files that are stored as they are.
With another brain an answer may be an error or wrong, but not short. `KeepsPromise` states that
`MountedFile` implements it. Under the mapping a request is pending while its reader is
not idle, its outcome is read off the cells it was answered with (`Result`), `matched` is
`Matched`, content is verified unless the file is stored as it is, and the abstract fault is a failed, broken
off or misplaced read (or an encrypted payload that mutations were appended to). The
fairness of `FileReads` (every request is answered) is part of `KeepsPromise`; `Safe` is
`FileReads` without it, which is what is proved.

A body that broke off stays in the cache as a page, and a later read behind its end panics;
`CrashNeedsTruncatedPage` says that nothing else leads there.

### StreamFS

`Request` is a FUSE call that waits for the inode's lock; `Write`, `WriteReturns`, `Flush`
and `FlushReturns` are its steps, the first two with the pipe between them. `PackStream`
is a process per stream: `Open`, `ReadCell` and `PackBlock` (a block is one step: its
workers fill slots that are gathered in order), `EndOfInput`, and then the output part
by part, in place. `Fails` is any error return, after which nobody reads the pipe;
`WriteUnchecked` the writes whose result is dropped; `ReadFails` a read error taken for
the end, possible on standard input only. All inodes of the model have one name. `sent`
and `hurt` are history. `Flush` returns nil whatever `PackStream` returned.

### Training and BrainSearch

`Training` follows `Train`: workers take files (`OpenFile`), fill buffers (`ReadBuffer`)
and count chunks under the table's mutex (`CountChunk`); `AugmentPatterns`, `Merge`
(`--update` and `--base`), `SelectPicked` and `ReadPicked` are the sequential rest, and
`CreateBrain`, `WriteHeader`, `WritePattern` write the brain in place. Sorts that are not
stable leave ties open (`Top`). Files change while training runs, calls fail, and
`WriteFails` leaves any prefix of the brain. `intended` is history: the patterns the file
is meant to hold.

`BrainSearch` adds a `Pack` that opens the brain the trainer writes. The reader keeps what
`Open` and `buildIndex` computed; the words stay in the file, as in a memory map, so a
trainer that writes over it changes them or takes them away (`Bus`, after which `pack` is
"dead"). `FirstPass`, `RestrictTo` and `EndFirstPass` are `--multi-pass`; `Find` and `Store`
are separate steps of a worker, because the cache's lock is released while it searches.

`CodewordSize` is the `uint16` of the header: `SizeField` stands for 2^16, the chunk size is
not bounded by it, and the size that is written is the remainder. `Open` accepts a brain
whose words were longer, because it is then longer than it has to be, and reads other bytes
under every ID. The same happens to `--base` with a brain of words of another size, as the
header states the size of the first word only. `OpenedIsWhole` claims the content of a brain
for words of one size that the header can say (`Uniform`); `DiesOnlyIfRewritten` holds for
all brains: whatever `Open` accepted has room for every ID, so that only a trainer that
writes to an open brain can end the process. The cache of answers really passes its limit when two
workers store the same key, because the ring then names that key twice and one eviction
finds nothing (`CacheNearLimit` bounds the excess by the number of such stores).

### ChunkTable and Codec

`ChunkTable` has the unsigned integers of the source with a width as a constant: zigzag,
varints with their digits, the four columns, and the older fixed layout. `Codec` packs an
input block by block. The chunkers are functions from a position to the end of its chunk;
a rolling hash is a set of windows after which it cuts. Where the code decides by
similarity or entropy, `Codings` offers every outcome. `Diff` is the whole of `patch.go`:
cost table, backtracking, run-length encoding with its one-byte count. `UnpackBytes`
decodes the table, finds the blocks from the sizes of the chunks, slices each residual
and rebuilds; `Wrong` marks what would be an error or a slice out of range. The round trip
of the table needs pattern IDs below 2^63 - 1: from there on a difference can be encoded
as the mark of a literal. `FlagIsPatch` is bit 60, so no writer gets there.

## 3. The runs

| Run | Expected | What it shows |
|---|---|---|
| `handshake` | pass | `AuthenticatedHeldBrain`, `InitiatorWasAccepted`, `BothOkMeansSameBrain`, `NoMutualWait` with two nodes, a mirror, two brains, two sessions and one restart |
| `sync` | pass | `RebuiltIsSendersVersion`, `OnlyChangedChunksDiffer`, `StarvedOnlyBySender`, `OldCopyOutlivesFailures`, `PullEndsUnlessStarved` over nine kinds of file, two pulls and two changes |
| `sync_timeout` | violation | a starved pull never ends |
| `wal` | pass | `SettledIsKept`, `CommittedOnce`, `ChainHoldsWrites`, `BufferDrains` with three processes, three writes and two mounts |
| `wal_close` | violation | `Close` returns before the worker's commit |
| `archive` | pass | `UnpackFailsForCause`, `RestoredIsInput`, `GoodBlocksSurvive`, `PackEnds` with two workers, five inputs of up to three blocks, five option sets |
| `archive_complete` | violation | a truncated copy is renamed to the output |
| `mount` | pass | `CacheAccounts`, `SingleFlight`, `CrashNeedsTruncatedPage` and the refinement `KeepsPromise`, with two readers and a prefetcher over eleven files |
| `stream` | pass | `FinishedStreamIsIntact`, `MixNeedsTwoInodes`, `NoWriterLeftBehind`, `RequestsEnd` with two inodes of one name, two handlers and two streams |
| `stream_flush` | violation | a `Flush` never returns although the compression it waits for has ended |
| `brain` | pass | `CountsAreExact`, `EliteIsBest`, `OpenedIsWhole`, `AnswersAreNearest`, `DiesOnlyIfRewritten`, `CacheNearLimit` with two workers on each side, two corpora and four brains that were there before |
| `codec` | pass | `TableRoundTrips` over all tables of up to three entries from 48 at the edges of the integer range, `RestoresInput` over six chunkers, five inputs and every coding of every chunk |

The violations are disagreements between the code and a comment or message of the
repository; `findings` quotes them. The models reach more states that a comment or
a message of the code rules out. No run is about these; the hazards at their lines say so:

* *Pull*: `Diff` compares sets, so a version with the same chunks in another order is
  reported as "já está atualizado" (`protocol.go:249-250`). The rename after the removal of
  the old copy is not checked (`:307`): when it fails the pull reports "finalizado com
  sucesso" and the client has neither file. A process that dies between the two leaves the
  temporary file, and a later pull that fails deletes it (`:301`).
* *Mount*: the watcher that "auto-unmounts on codebook removal" (`fuse.go:194`) tries once;
  if a file is open the kernel refuses, the goroutine ends, and the mount stays. An
  encrypted file stored as it is cannot be read once a mutation was appended
  (`reader.go:260`), although `AppendMutation` is there so that files can be edited
  (`mutator.go:13-14`).
* *Training*: patterns are put "in reading order" for the sake of consecutive IDs
  (`frequency.go:14`, `selector.go:55-56`), and `WriteCodebook` sorts them by bucket
  afterwards (`codebook_writer.go:23`): `EliteIsBest` claims the order inside a bucket only.
  "New patterns from InputDir replace the least-frequent base patterns" (`engine.go:34-35`),
  but `mergeBaseWithNew` gives the base its slots first, and a base that fills the brain
  leaves none (`engine.go:325`).
* *Brain*: the size of the words is cut to 16 bits (`codebook_writer.go:38`), see above.

**What the properties leave out.** A precondition or an exception of a property is a place
where the code promises less than one would wish:

* `OldCopyOutlivesFailures` is about the step that removes the old copy, and says nothing
  of what follows it.
* `ChainHoldsWrites` requires that no commits overlapped, that none failed half way and
  that every payload fits the size field (below 4 GiB): in the other cases the chain is
  lost, and `SettledIsKept` is all that remains.
* `BufferDrains` is about a buffer of finitely many writes; while writes go on without a
  quiet second, the code keeps them in memory, and the model does not say otherwise.
* `NoWriterLeftBehind` and `RequestsEnd` exempt streams that failed, which leave handlers
  waiting for ever: that is what `stream_flush` shows.
* `CacheAccounts` is local to one `Put` at a time, as the cache has its own mutex.
* `CountsAreExact` gives each file `Span` positions; the code's `1 << 44` wraps after 2^20
  files, which is not in the model.
* `OpenedIsWhole` and `AnswersAreNearest` are about brains that were not rewritten while
  they were open (`stale`), as nothing in the code notices it; `AnswersAreNearest` also lets
  chunks that are not searched have the worst distance.

**Bounds.** *Handshake*: two sessions are what a replay needs (one to take the message
from, one to use it in), and one restart can fall at any point of both; `MaxRepeats`
lets a mirror have one unread message per stream. Nodes, brains and sessions are
symmetric. *Sync*: the files share chunks in another order, one has more chunks than a
request may name (`MaxIndices` 2), one pattern has two residuals so that a residual
can be put under the wrong pattern, and passthrough, empty, edge and damaged files
occur; two changes can both fall between manifest and chunks. *WAL*: with
`SizeLimit` 3 a third write overflows the size field; three processes (handler,
worker, closer) can all commit at once. *Archive*: blocks of two chunks, so five
chunks make three blocks with a short last one; a block of an exact and a fractal
chunk has no residuals; `MaxPacks`, `MaxUnpacks`, `MaxChanges` and `MaxDamage` are one
each. *Mount*: four chunks of four routes in two blocks; the second has no residuals and so an
empty frame, the first lies across two pages, the page cache holds one page and the memory cache two cells, fewer than the
file has, so evictions hit what others still need; the files are stored in blocks, as they
are or encrypted, local or remote, one has a mutation appended, and four are mounted with
another brain or dictionary; a body breaks off at once or after one cell; each of two reads may
meet the one fault, and a download that fails or breaks off needs no second one to reach
every error path of the waiter. *Stream*: two streams are enough for one to follow or
overtake the other on one name; two cells are a full block or two short ones; the fault
can be any failing call. *Brain*: patterns of two cells with a buffer of five, so that a
buffer ends inside a chunk; buckets that overflow and counts that tie; the old brain is
absent, of this size, of words too large for the header's size field (`SizeField` 4) or of
words large enough to be matched whole; six chunks against a cache of three,
with a repeated chunk that two workers may store twice. Workers are symmetric, and the
view drops the corpus and the options once the words are read, from where on no action
reads them. *Codec*: 8-bit integers with 5-bit sizes and 3-bit digits, so that offsets
and differences wrap and varints have up to three digits; `RunLimit` 2, so that runs
split; blocks of four cells, shorter than every input but one. Deadlock is not checked because bounded counters run out and because a system
that has finished stops.

**Fairness.** `SyncProtocol` assumes weak fairness of the client's and of the
sender's steps: each is a goroutine that runs whenever it can; nothing is assumed of
connections, crashes or changes. `WriteAheadLog` assumes that time passes, that the
ticker ticks (`TryFlush`; the worker is a loop on a ticker), that the worker's system
calls return and that an entered `Close` goes on. `Archive` assumes that `Pack` and
`Unpack` run. `MountedFile` assumes weak fairness of each goroutine, which includes the
answer of the server because the client has a timeout of 30 seconds; nothing of the
watcher, of signals or of the kernel agreeing to unmount. `StreamFS` assumes weak
fairness of each `PackStream` and strong fairness of each handler: a handler waits for a
mutex that others take and release in between, and Go's mutex passes to a starving waiter
after a millisecond. In each case fairness is of the whole component's step, so an error
is as fair a continuation as a success.

## 4. The proofs

**Handshake** (`HandshakeProofs`): `TypeCorrect`, `AuthenticationSound`,
`AckMeansAccepted`, `SameBrain` and `NeverBothWait` for any sets of nodes, mirrors, brains and
sessions and any number of restarts, from `PeersAssumption` (nodes and mirrors are
disjoint, `None` is no peer, `Junk` is no end) and `BoundsAssumption`. None of the
three properties of the runs is inductive: what a node accepts depends on what can be on a wire.
The invariant `IInv` adds

* `SoundWire`: every proof in flight or remembered by a mirror was made with a brain
  its sender has held and, if the sender is the other end of the nonce's session and
  has not restarted, with the one it holds now;
* `OpenedTogether`: the ends of a session are opened together;
* `Accepted`: what an end that accepted a proof knows;
* `AckIsThird`: an initiator has got at most two messages from a responder that has
  not sent its ack, which is why the byte it takes for the ack is the ack.

`NeverBothWait` is `NoMutualWait` without `ENABLED`: two nodes on one stream never both
stand at an `io.ReadFull` with nothing on its way to either. It follows from
`NothingMissing` (while both ends run, each has read or has in its inbox exactly as many
messages as the other has sent): of two ends that have sent what their position says, only
two in `verified` have read everything, and there the responder does not read. That
nothing but an empty inbox stops an end that reads is seen from the guards, and by TLC's
`ENABLED`.

**WriteAheadLog** (`WriteAheadLogProofs`): `TypeCorrect`, `SettledKept`,
`NothingTwice` and `ChainSound` for any number of handlers, writes and mounts. `IInv` adds
`CommitsBeyond` (an open commit's offset lies beyond what has settled and inside the
file, so it can neither damage what settled nor leave a hole) and `OwnData` (the data
in the buffer and in each payload are distinct and were appended). The central lemma,
`ChunkWritesOnce`, is about a prefix of a record written at an offset, and covers a
complete header, a complete payload and a torn one alike.

`ChainSound` (`ChainHoldsWrites`) needs `ChainInv`. While `flaws` is empty there is at most
one commit, small enough for its size field (`OneCommit`), and the file is a chain, possibly
with the header of that commit behind it (`FileIs`). A `Chain` is a file in which a number
of turns of the walk (`NextMutation`) ends at the end of the file and has collected `o`, and
`Ordered` says what `o` is: the data appended that are not lost and in no memory, rising,
below all that a commit has taken, which is below all that is in the buffer. `LostIsGone`
keeps what was lost from being written later. Two lemmas connect this with the recursive
`Walk`: `ChainExtends`, that a record behind a chain is one more turn, and `ChainWalks`, that
turns beyond the end change nothing, so that the `Len(file)` turns of `Walk` find `o`.

**SyncProtocol** (`SyncProtocolProofs`): `TypeCorrect`, `RebuiltSound`, `MixtureBounded`,
`StarvedBySender` and the action property `OldCopyKept`, for any files and any number of
pulls and changes, from `FilesAssumption` (the two marks for "no file" and "half a file"
are no files) and `BoundsAssumption`. `StarvedOnlyBySender` speaks about a client that
waits, and whether it waits in vain depends on what was asked and on what is under way, so
`IInv` adds

* `Asking`: while the client waits for the manifest, the request is on its way, was
  refused or has been answered;
* `Working`: a client that receives or rebuilds has a manifest and asked only for
  positions of it;
* `Receiving`: the records under way are residuals of `served` at their positions, and if
  `served` is readable and long enough, those read and those under way are as many as were
  asked for;
* `Received`: what was kept of the records is what `served` has at those positions;
* `Complete`: from the removal of the old copy on, the temporary file is complete.

That `StreamChunks` sends every index once, in order (`SortedRecordsFacts`), rests on a
ranking of a finite set of positions (`RankExists`).

**Archive** (`ArchiveProofs`): `TypeCorrect`, `FailsForCause`, `RestoredExact` and
`BlocksSurvive` for any inputs, options, number of workers, block size and amount of
damage, from `CodecAssumption` (an exact match is the chunk itself; the marks for zeros
and for garbage are no chunks) and `SizesAssumption` (block size and the limit of the
passthrough positive, at least one worker, as `runtime.NumCPU` gives). The
properties look at an unpack that has finished, and need to know what a `.crom` is:

* `Workload`: a chunk of the block is in the channel, with a worker or in its slot of the
  results, and the slot holds what `Process` makes of it or an error;
* `Packed`: entries and blocks so far are `Laid` out for the data hashed so far (entry
  `i` has the route of chunk `i`, and its offset minus the offset of its block is where
  its residual begins in the block), and the next offset is where the last block ends;
* `Installed` and `Opened`: every file that carries the output's name or that `Unpack`
  has opened is `Sound`, that is laid out for all of an input that did not change;
* `Walking`: what `Unpack` has written up to an entry.

`RestoredIsInput` also speaks of inputs that changed while they were packed, and of what the
hash is a hash of. It has a second invariant, `Origin`, relative to the first: the chunks
hashed so far are as many as were read and each is one that a version of the input had at
that place (`Hashed`), and every file that was packed is `Genuine`, that is has such a hash
or is a beginning of the input it was copied from.

The offset is one counter over all blocks, so that `Laid` survives another block is the
longest argument (`LaidExtends`, `GatheredBlock`); that the code's division of indices by
the block size finds that block again is `BlockHolds` and `WalkOn`, over the arithmetic of
`RecursionTheorems`.

**CloudReader and MountedFile** (`MountedFileProofs`): `TypeCorrect`, `CacheExact`,
`OneFlight`, `CrashSound` and `PromiseKept`, for any layout of chunks and blocks, sizes of
pages and caches, files, requests, readers and prefetchers. The assumptions are
`CloudAssumption`, `LayoutAssumption` (chunks are not empty, and neither are requests, pages and blocks; the marks
`None` and `Error` are no sequences of cells) and `FramesAssumption` (there is one frame
per block, and only a block without residuals has an empty one, which is what `Pack`
writes). Nothing is assumed of the mounted brain. `PromiseKept` is the refinement without its
fairness: the initial state maps to an initial state, and under `IInv` and
`IInv'` a step in which a reader starts is `Ask`, one in which it is answered is `Answer`
with an outcome `FileReads` allows, a fault or a panic is the abstract one, and everything
else, caches, locks, downloads and the watcher, is a stutter. That needs

* `Pioneers`: the goroutine that downloads a page as the first one is the one registered
  in `flight` (which gives `SingleFlight`);
* `GoodPages`: what is cached or handed over for a page is the page, or a part of it or
  the whole file after the fault that explains it; nothing is handed over only after a
  fault;
* `Calls`: a call of the remote file has copied what comes before the page it waits for,
  or something failed;
* `Progress`: a read that runs has copied exactly the cells before the place it is at,
  whatever failed below it, and a read of a plain file waits for the call that goes with it;
* `cache \in Seq(Stored)`: a cached block or chunk is the one its key names. Both caches
  are keyed by position, which is why a hit in either is as good as a read.

`CacheAccounts` is part of the invariant as it stands: `Put` takes the replaced entry's
bytes off, adds the new ones and evicts, and `PutKeeps` shows that the sum follows.

**StreamFS** (`StreamFSProofs`): `TypeCorrect`, `FinishedIntact`, `MixturesNeedTwoInodes`
and `WritersAreServed` for any number of inodes, handlers, streams and cells, from
`StreamAssumption`. What the packer knows about the writer goes through a lock, a pipe and
a channel, so `IInv` adds `Locks` (a lock is held by exactly the handlers inside `Write`
or `Flush`), `Feeds` (an inode feeds its own stream, and forgot only streams that are
done), `Closing` (a pipe is closed only by the `Flush` that then waits), `Conserved`
(what was accepted, with what the writer still offers, is what is in the pool, in
the block and in the pipe, in this order), `Drained`, `Output` (which parts a stream that is alone has written) and `Owns`
(while a stream writes, no other stream of its inode has a part in the output). All steps
of `PackStream` go through one summary (`PackEffect`, `PackMove`) that is then shown to
keep the invariant once.

**Training and BrainSearch** (`BrainProofs`): `BrainTypes`, `CacheTheorem`, `WholeBrain`,
`SafeLookups`, `NearestAnswers`, `BestElite` and `ExactCounts`, for any corpora, old brains, inputs, sizes
and number of workers on either side, from `TrainingAssumption` (sizes positive, files and
patterns are sequences of cells, a file of the corpus is shorter than the `1 << 44`
positions it is given) and `SearchAssumption`. Each property has an invariant of its own:

* `CacheInv`: the ring and the map of answers get out of step twice over, by `Restrict`,
  which empties the map alone, and by a key stored twice. `V` is the set of slots written
  since the map was last emptied, or all of them; `Balanced` says that `twice` pays for
  every slot of `V` whose key is not in the map and for every key that no slot of `V`
  names. Filling the last slot of a full map then evicts, or was paid for.
* `TrainShape`: the types, with what `TypeOK` says about sizes (a table holds patterns of
  `ChunkSize` cells, so do `picked` and, without `--base`, `selected`).
* `FileInv`: the file at `OutputPath` is what `intended` lays out, or the first part of it
  while or after it was written, and its header says how many patterns it is meant to hold
  and the size of the first of them, cut to the width of the field. A file that is too short
  is then refused by `Accepts`; for words of one size that the field can say that is
  `WholeBrain`, and for any words the file has room for every ID, which is `SafeLookups`.
* `SearchInv`: the index is the one of the file that was opened (`OpenedAs`), every cached
  answer and every answer a worker is about to store or has given is right for the
  codewords allowed now (`AnswersOK`); that survives `Restrict` because the cache is emptied
  and no worker runs yet (`Passes`). `Right` is what `AnswersAreNearest` says of an answer;
  that the filtered `Candidates` are the bucket is `Only`'s lemmas about ranking a finite set.
* `EliteInv`: while `selectPicked` runs, what was passed over has a full bucket of rivals at
  least as frequent, and what is left is no more frequent than what was picked. The sorts
  permute the places, so buckets and rivals keep their number; the order that remains is by
  bucket and, inside a bucket, by first position, because the second sort is stable.
* `CountsInv`: as long as nothing failed or changed, each worker reads a file of its own, the
  places it has not read (`Unread`) are those behind its buffer and those of the chunks in
  it, and the table is `Tallied` from the places of the corpus that are `Done`. Reading a
  buffer leaves `Done` as it is, counting a chunk adds one place, and when all workers are
  idle `Done` is every place.

**RecursionTheorems.** The library's induction theorems have an operator as a parameter,
which the provers cannot instantiate. With a set of naturals in the place of a predicate
and a function in the place of a step they can: `InductionUpto` takes a least
counterexample, and `RecursionExists` builds a recursive function. From these come sums
and concatenations (`Bytes`, `Upto`, `FrameOffset`, the join of a block's residuals) and
the little arithmetic of quotients that blocks and pages need.

**Only model-checked**: liveness (`BufferDrains`, `PullEndsUnlessStarved`, `PackEnds`,
`RequestsEnd`, the fairness part of `KeepsPromise`) and
`NoMutualWait` as it stands, which uses `ENABLED`, are outside the reach of the prover.
`TableRoundTrips` rests on the arithmetic of `2^Bits`, and the provers know nothing about
powers, not even that `2^n` is a natural number; `RestoresInput` rests on that and on what
the cost table and the edit scripts of `delta.Diff` compute for every input, an induction
over data of the kind `RecursionTheorems` supports only for sums and walks. Both stay with
TLC.

## 5. Not modelled

`PROJECT.json` gives the reason for each component. Within the modelled ones:

* `Archive`: several codebooks in one `Pack`, convergent encryption, fuzziness, format V1.
* `SyncProtocol`: the binary and JSON codecs of manifests, malformed requests, different
  brains on the two sides of an authenticated pull.
* `MountedFile`: writes (they are in `WriteAheadLog`), `Lookup`, `Getattr` and `Readdir`,
  which read an index that is filled once.
* `Training`: the BPE builder, a sequential heuristic for which words to keep.
* `BrainSearch`: several brains at once, `MultiSearcher` (not called), decay.
* `Codec`: the passthrough and V1 branches of `UnpackBytes`, the header layouts, zstd and
  the dictionary it is primed with.

Merkle roots are stored and verified by no reader; entropy analysis is floating point and
decides either way in the models; grep, autobrain, metrics and cromdb are sequential and
keep no state between calls; the JIT pager and the FUSE server of `pkg/cromlib/vfs` are
a simulation that answers reads with generated bytes. Hashes, HMAC and AES-GCM are ideal. Two commands that use the same
temporary path at once are not composed.

## 6. Plan

What is left, in this order:

1. `Codec`: the chunk table over a modulus that is a constant instead of `2^Bits`, with
   what a column needs of it as assumptions, and from there `TableRoundTrips` by induction
   over the entries.
2. An abstract specification of replacing a file (old copy, new copy or neither, never a
   partial one) that `Archive` and, in a weaker form, `SyncProtocol` implement, and their
   composition over one temporary path.
