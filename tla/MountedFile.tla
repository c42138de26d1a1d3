----------------------------- MODULE MountedFile -----------------------------
(***************************************************************************)
(* A mounted .crom (internal/vfs/fuse.go, tree.go, reader.go, cache.go,    *)
(* watcher.go) on a local file or, through CloudReader, on a remote one.   *)
(*                                                                         *)
(* FUSE calls Read from several goroutines.  RandomReader finds the chunk  *)
(* of an offset, takes it or the residuals of its block from one LRU cache *)
(* with a byte limit, or loads the block from the file under a lock.       *)
(* Files stored as they are come straight from the file, encrypted ones    *)
(* are decrypted once as a whole.  A watcher unmounts when the brain       *)
(* disappears or a signal arrives.                                         *)
(*                                                                         *)
(* A block decodes exactly when all its cells are the file's: zstd has a   *)
(* checksum and AES-GCM a tag.  Cell i of the original has content i.      *)
(* Mount opens any brain (fuse.go:143), so what it holds under the IDs of  *)
(* the chunks, and whether the blocks decode with its dictionary, comes    *)
(* with the mounted file.                                                  *)
(***************************************************************************)
EXTENDS CloudReader

CONSTANTS
    Entries,      \* the chunk table: [size, delta, route]
    FrameSizes,   \* blockTable: cells of each compressed block
    BlockSize,    \* original cells in a block
    MetaSize,     \* cells of header, block table and chunk table
    PlainSize,    \* original cells of a file stored as it is
    Files,        \* what is mounted: [kind, remote, tail, words, dict]
    Requests,     \* [off, len] of the reads
    MaxBytes,     \* limit of the memory cache
    MaxReads,     \* bound: reads
    Error         \* the answer EIO

Kinds == {"blocks", "plain", "sealed"}
Routes == {"literal", "pattern", "patch", "fractal"}

\* What the mounted brain holds at a chunk's ID: the codeword it was packed with, another
\* one, another one that is too short for the chunk, or nothing.
Words == {"own", "other", "short", "none"}

ASSUME LayoutAssumption ==
    /\ Entries \in Seq([size : Nat \ {0}, delta : Nat, route : Routes])
    /\ FrameSizes \in Seq(Nat)
    /\ \A f \in Files : /\ f.kind \in Kinds /\ f.remote \in BOOLEAN /\ f.tail \in Nat
                        /\ f.words \in [DOMAIN Entries -> Words] /\ f.dict \in BOOLEAN
    /\ Requests \subseteq [off : Nat, len : Nat \ {0}]
    /\ {BlockSize, MetaSize} \subseteq Nat \ {0}
    /\ {PlainSize, MaxBytes, MaxReads} \subseteq Nat
    /\ None \notin Seq(Int) /\ Error \notin Seq(Int) /\ None # Error

VARIABLES
    file,      \* the mounted file
    mounted,   \* "no", "yes", "gone"
    rd,        \* where each reader is in ReadAt
    answer,    \* the cells a reader got last, Error, or None
    mu,        \* RandomReader.mu: its holder, or None
    cache,     \* evictList: [key, data], last used first
    total,     \* totalBytes
    plain,     \* passthroughPlain is set
    brain,     \* the codebook file exists
    watcher,   \* "select", "refused" (Unmount failed), "done"
    reads

reader == <<rd, answer, mu, cache, total, plain, reads>>
watch == <<brain, watcher>>
vars == <<cloud, reader, watch, file, mounted>>

NoRead == [pc |-> "idle", off |-> 0, len |-> 0, out |-> << >>, got |-> << >>]
-----------------------------------------------------------------------------
(* The layout of the file: NewRandomReader, format.BlockStarts. *)

Upto[i \in 0..Len(Entries)] == IF i = 0 THEN 0 ELSE Upto[i - 1] + Entries[i].size
Deltas[i \in 0..Len(Entries)] == IF i = 0 THEN 0 ELSE Deltas[i - 1] + Entries[i].delta

\* Cells in the open block before chunk i; a block is closed once it has BlockSize cells.
Filled[i \in 1..Len(Entries)] ==
    IF i = 1 THEN 0
    ELSE LET f == Filled[i - 1] + Entries[i - 1].size IN IF f >= BlockSize THEN 0 ELSE f
Starts == {i \in DOMAIN Entries : Filled[i] = 0}
BlockOf == [i \in DOMAIN Entries |-> Cardinality({s \in Starts : s <= i})]
StartOf == [b \in 1..Cardinality(Starts) |-> CHOOSE s \in Starts : BlockOf[s] = b]

\* Pack writes a frame for every block, an empty one where there are no residuals.
ASSUME FramesAssumption ==
    /\ Len(FrameSizes) = Cardinality(Starts)
    /\ \A i \in DOMAIN Entries : FrameSizes[BlockOf[i]] = 0 => Entries[i].delta = 0

FrameOffset[b \in 1..(Len(FrameSizes) + 1)] ==
    IF b = 1 THEN MetaSize ELSE FrameOffset[b - 1] + FrameSizes[b - 1]

ContainerSize(f) ==
    f.tail + (IF f.kind = "blocks" THEN FrameOffset[Len(FrameSizes) + 1] ELSE MetaSize + PlainSize)
OriginalSize == IF file.kind = "blocks" THEN Upto[Len(Entries)] ELSE PlainSize

\* The chunk that holds an original offset.
ChunkAt(off) == CHOOSE i \in DOMAIN Entries : Upto[i - 1] <= off /\ off < Upto[i]
Content == [i \in DOMAIN Entries |-> Cells(Upto[i - 1], Entries[i].size)]

\* The residual of a chunk, and the residuals of a block one after the other; a cell is
\* named by its place among all residuals of the file.
Residual == [i \in DOMAIN Entries |-> Cells(Deltas[i - 1], Entries[i].delta)]
Pool ==
    [b \in DOMAIN StartOf |->
        LET first == StartOf[b] - 1
            last == first + Cardinality({i \in DOMAIN Entries : BlockOf[i] = b})
        IN  Cells(Deltas[first], Deltas[last] - Deltas[first])]
-----------------------------------------------------------------------------
(* MemoryCache: one list for blocks and chunks. *)

BlockKey(b) == <<"block", b>>
ChunkKey(i) == <<"chunk", i>>
Held(k) == \E j \in DOMAIN cache : cache[j].key = k
Place(k) == CHOOSE j \in DOMAIN cache : cache[j].key = k
Item(k) == cache[Place(k)]
Others(k) == IF Held(k) THEN Drop(cache, Place(k)) ELSE cache
GetFront(k) == <<Item(k)>> \o Others(k)
Bytes(items) ==
    LET sum[n \in 0..Len(items)] == IF n = 0 THEN 0 ELSE sum[n - 1] + Len(items[n].data)
    IN  sum[Len(items)]

\* How many items stay: the oldest go until totalBytes, t before, is within the limit.
Kept(items, t) ==
    LET fits == {n \in 0..Len(items) :
                    n = 0 \/ t - Bytes(SubSeq(items, n + 1, Len(items))) <= MaxBytes}
    IN  CHOOSE n \in fits : \A m \in fits : m <= n

\* The list with its newest item in front, and totalBytes with it counted.
Shrink(items, t) ==
    \E n \in {Kept(items, t)} :
        /\ cache' = SubSeq(items, 1, n)
        /\ total' = t - Bytes(SubSeq(items, n + 1, Len(items)))

\* An item that is stored again without taking off its old size.
PutForgetsOld(k, data) ==
    \E items \in {<<[key |-> k, data |-> data]>> \o Others(k)} :
        Shrink(items, total + Len(data))

Put(k, data) ==
    \E items \in {<<[key |-> k, data |-> data]>> \o Others(k)} :
        Shrink(items, total + Len(data) - (IF Held(k) THEN Len(Item(k).data) ELSE 0))
-----------------------------------------------------------------------------
(* Reading the file underneath. *)

\* A read of n cells at off: os.File at once, the cloud in steps.
StartFileRead(r, off, n) ==
    IF file.remote THEN StartReadAt(r, off, n)
    ELSE /\ call' = [call EXCEPT ![r] = [pc |-> "disk", off |-> off, len |-> n, buf |-> << >>]]
         /\ UNCHANGED load

DiskRead(r) ==
    /\ call[r].pc = "disk"
    /\ call' = [call EXCEPT ![r].pc = "ret", ![r].buf = Cells(call[r].off, call[r].len)]
    /\ UNCHANGED <<size, pages, flight, load, ahead, crashed, faults>>
    /\ UNCHANGED <<reader, watch, file, mounted>>

DiskFails(r) ==
    /\ call[r].pc = "disk" /\ call[r].len > 0 /\ Len(faults) < MaxFaults
    /\ call' = [call EXCEPT ![r].pc = "ret", ![r].buf = None]
    /\ faults' = Append(faults, "error")
    /\ UNCHANGED <<size, pages, flight, load, ahead, crashed>>
    /\ UNCHANGED <<reader, watch, file, mounted>>

\* What ReadAt left in a buffer of n cells that was zero.
Exact(r) == call[r].buf = Cells(call[r].off, call[r].len)
Returned(r) == call' = [call EXCEPT ![r] = NoCall]
NoFileRead == UNCHANGED <<call, load>>
-----------------------------------------------------------------------------
(* Read: TreeInode.Read and RandomReader.ReadAt. *)

Goto(r, pc) == rd' = [rd EXCEPT ![r].pc = pc]
Answer(r, a) ==
    /\ answer' = [answer EXCEPT ![r] = a]
    /\ rd' = [rd EXCEPT ![r].pc = "idle", ![r].out = << >>, ![r].got = << >>]

Still == UNCHANGED <<size, pages, flight, ahead, crashed, faults, watch, file, mounted>>

\* bytesToRead: none past the end.
Clamped(q) == IF q.off >= OriginalSize THEN 0 ELSE Lower(q.len, OriginalSize - q.off)

Read(r, q) ==
    /\ mounted = "yes" /\ reads < MaxReads /\ rd[r].pc = "idle"
    /\ rd' = [rd EXCEPT ![r] = [NoRead EXCEPT !.pc = "start", !.off = q.off,
                                  !.len = Clamped(q)]]
    /\ answer' = [answer EXCEPT ![r] = None]
    /\ reads' = reads + 1
    /\ NoFileRead /\ Still /\ UNCHANGED <<mu, cache, total, plain>>

\* Past the end: io.EOF, an empty answer.
ReadPastEnd(r) ==
    /\ rd[r].pc = "start" /\ rd[r].off >= OriginalSize
    /\ Answer(r, << >>)
    /\ NoFileRead /\ Still /\ UNCHANGED <<mu, cache, total, plain, reads>>

\* A file stored as it is: the file's own answer, short or empty if it was.
ReadPlain(r) ==
    /\ rd[r].pc = "start" /\ rd[r].off < OriginalSize /\ file.kind = "plain"
    /\ Goto(r, "plain")
    /\ StartFileRead(r, MetaSize + rd[r].off, rd[r].len)
    /\ Still /\ UNCHANGED <<answer, mu, cache, total, plain, reads>>

PlainDone(r) ==
    /\ rd[r].pc = "plain" /\ call[r].pc = "ret"
    /\ Answer(r, IF call[r].buf = None THEN Error
                 ELSE [i \in DOMAIN call[r].buf |-> call[r].buf[i] - MetaSize])
    /\ Returned(r) /\ UNCHANGED load
    /\ Still /\ UNCHANGED <<mu, cache, total, plain, reads>>

\* decryptPassthrough: once, under the lock; what WriteAheadLog appended counts as payload.
Decrypt(r) ==
    /\ rd[r].pc = "start" /\ rd[r].off < OriginalSize /\ file.kind = "sealed"
    /\ mu = None
    /\ \/ /\ plain
          /\ Answer(r, Cells(rd[r].off, rd[r].len))
          /\ NoFileRead /\ UNCHANGED mu
       \/ /\ ~plain
          /\ Goto(r, "sealed") /\ mu' = r
          /\ StartFileRead(r, MetaSize, size - MetaSize)
          /\ UNCHANGED answer
    /\ Still /\ UNCHANGED <<cache, total, plain, reads>>

DecryptDone(r) ==
    /\ rd[r].pc = "sealed" /\ call[r].pc = "ret"
    /\ mu' = None
    /\ plain' = (Exact(r) /\ file.tail = 0)
    /\ Answer(r, IF plain' THEN Cells(rd[r].off, rd[r].len) ELSE Error)
    /\ Returned(r) /\ UNCHANGED load
    /\ Still /\ UNCHANGED <<cache, total, reads>>
-----------------------------------------------------------------------------
(* The chunk loop. *)

Chunk(r) == ChunkAt(rd[r].off + Len(rd[r].out))

\* The chunk that its residual and the mounted brain give.  Without a codeword Lookup
\* fails; a patch that does not fit a short one leaves the residual as it is, and XOR
\* copies it past the codeword's end; without a residual the short codeword is the chunk.
OwnWord(i) == Entries[i].route \in {"literal", "fractal"} \/ file.words[i] = "own"
ShortSize(i) ==
    IF Entries[i].delta > 0 THEN Lower(Entries[i].delta, Entries[i].size) ELSE Entries[i].size - 1
Rebuilt(i) ==
    CASE OwnWord(i) -> Content[i]
      [] ~OwnWord(i) /\ file.words[i] = "other" -> [Content[i] EXCEPT ![1] = -1]
      [] ~OwnWord(i) /\ file.words[i] = "short" -> [j \in 1..ShortSize(i) |-> -1]
      [] ~OwnWord(i) /\ file.words[i] = "none" -> Error

\* The mounted brain is as good as the one the file was packed with.
Matched ==
    file.kind = "blocks" => file.dict /\ \A i \in DOMAIN Entries : OwnWord(i)

\* The residual is cut out of the pool, at the right place or not.
Rebuild(i, pool) ==
    LET from == Deltas[i - 1] - Deltas[StartOf[BlockOf[i]] - 1]
    IN  IF from + Entries[i].delta > Len(pool) THEN Error
        ELSE IF SubSeq(pool, from + 1, from + Entries[i].delta) = Residual[i]
               THEN Rebuilt(i) ELSE [Content[i] EXCEPT ![1] = -1]

UsePool(r, pool) ==
    \E c \in {Rebuild(Chunk(r), pool)} :
        IF c = Error THEN Answer(r, Error)
        ELSE rd' = [rd EXCEPT ![r].pc = "put", ![r].got = c] /\ UNCHANGED answer

\* memCache.Get of the chunk; a fractal chunk is generated.
GetChunk(r) ==
    /\ rd[r].pc = "chunk" \/ (rd[r].pc = "start" /\ rd[r].off < OriginalSize)
    /\ file.kind = "blocks"
    /\ LET i == Chunk(r)
       IN  \/ /\ Held(ChunkKey(i))
              /\ rd' = [rd EXCEPT ![r].pc = "put", ![r].got = Item(ChunkKey(i)).data]
              /\ cache' = GetFront(ChunkKey(i))
           \/ /\ ~Held(ChunkKey(i)) /\ Entries[i].route = "fractal"
              /\ rd' = [rd EXCEPT ![r].pc = "put", ![r].got = Content[i]]
              /\ UNCHANGED cache
           \/ /\ ~Held(ChunkKey(i)) /\ Entries[i].route # "fractal"
              /\ Goto(r, "block")
              /\ UNCHANGED cache
    /\ NoFileRead /\ Still /\ UNCHANGED <<answer, mu, total, plain, reads>>

\* loadBlockPool: memCache.Get before the lock.
GetBlock(r) ==
    /\ rd[r].pc = "block"
    /\ LET k == BlockKey(BlockOf[Chunk(r)])
       IN  \/ /\ Held(k) /\ UsePool(r, Item(k).data) /\ cache' = GetFront(k)
           \/ /\ ~Held(k) /\ Goto(r, "lock") /\ UNCHANGED <<answer, cache>>
    /\ NoFileRead /\ Still /\ UNCHANGED <<mu, total, plain, reads>>

\* With the lock: Get again, then read the block.
Lock(r) ==
    /\ rd[r].pc = "lock" /\ mu = None
    /\ LET b == BlockOf[Chunk(r)]
       IN  \/ /\ Held(BlockKey(b))
              /\ UsePool(r, Item(BlockKey(b)).data) /\ cache' = GetFront(BlockKey(b))
              /\ NoFileRead /\ UNCHANGED mu
           \/ /\ ~Held(BlockKey(b))
              /\ Goto(r, "frame") /\ mu' = r
              /\ StartFileRead(r, FrameOffset[b], FrameSizes[b])
              /\ UNCHANGED <<answer, cache>>
    /\ Still /\ UNCHANGED <<total, plain, reads>>

\* The block is decrypted and decompressed, with the brain's dictionary if it was packed
\* with one, stored, and the lock given back.
FrameRead(r) ==
    /\ rd[r].pc = "frame" /\ call[r].pc = "ret"
    /\ mu' = None
    /\ LET b == BlockOf[Chunk(r)]
           decoded == Exact(r) /\ (file.dict \/ FrameSizes[b] = 0)
       IN  \/ /\ decoded
              /\ Put(BlockKey(b), Pool[b]) /\ UsePool(r, Pool[b])
           \/ /\ ~decoded
              /\ Answer(r, Error) /\ UNCHANGED <<cache, total>>
    /\ Returned(r) /\ UNCHANGED load
    /\ Still /\ UNCHANGED <<plain, reads>>

\* The chunk goes (again) to the cache and its part to dest.
PutChunk(r) ==
    /\ rd[r].pc = "put"
    /\ LET i == Chunk(r)
           from == rd[r].off + Len(rd[r].out) - Upto[i - 1]
           n == Lower(rd[r].len - Len(rd[r].out), Len(rd[r].got) - from)
           out == rd[r].out \o SubSeq(rd[r].got, from + 1, from + n)
       IN  /\ IF Entries[i].route = "literal" THEN UNCHANGED <<cache, total>>
              ELSE Put(ChunkKey(i), rd[r].got)
           /\ IF n <= 0 THEN Answer(r, Error)
              ELSE IF Len(out) = rd[r].len THEN Answer(r, out)
              ELSE /\ rd' = [rd EXCEPT ![r].pc = "chunk", ![r].out = out, ![r].got = << >>]
                   /\ UNCHANGED answer
    /\ NoFileRead /\ Still /\ UNCHANGED <<mu, plain, reads>>

ReadStep(r) ==
    \/ ReadPastEnd(r) \/ ReadPlain(r) \/ PlainDone(r)
    \/ Decrypt(r) \/ DecryptDone(r)
    \/ GetChunk(r) \/ GetBlock(r) \/ Lock(r) \/ FrameRead(r) \/ PutChunk(r)
-----------------------------------------------------------------------------
(* Mount, and the watcher. *)

Init ==
    /\ file \in Files /\ mounted = "no"
    /\ CloudInit(ContainerSize(file))
    /\ rd = [r \in Readers |-> NoRead] /\ answer = [r \in Readers |-> None]
    /\ mu = None /\ cache = << >> /\ total = 0 /\ plain = FALSE
    /\ brain = TRUE /\ watcher = "select" /\ reads = 0

\* Mount reads the metadata, through the page cache if the file is remote; a body
\* may break off after it.
Mount ==
    /\ mounted = "no" /\ mounted' = "yes"
    /\ IF file.remote
         THEN /\ \/ /\ pages' = <<[page |-> 0, data |-> Cells(0, PageLen(0))]>>
                    /\ UNCHANGED faults
                 \/ /\ Len(faults) < MaxFaults
                    /\ \E k \in {c \in Cuts : MetaSize <= c /\ c < PageLen(0)} :
                         pages' = <<[page |-> 0, data |-> Cells(0, k)]>>
                    /\ faults' = Append(faults, "truncated")
              /\ ahead' = {n \in PageNos : 1 <= n /\ n <= PrefetchDepth}
         ELSE UNCHANGED <<pages, ahead, faults>>
    /\ UNCHANGED <<size, flight, load, call, crashed, reader, watch, file>>

RemoveBrain ==
    /\ mounted = "yes" /\ brain /\ brain' = FALSE
    /\ Len(faults) < MaxFaults /\ faults' = Append(faults, "brain")
    /\ UNCHANGED <<size, pages, flight, load, call, ahead, crashed>>
    /\ UNCHANGED <<reader, file, mounted, watcher>>

\* unmount: the kernel refuses while a file is open, with a read running or without; the
\* goroutine ends either way.
Busy == \E r \in Readers : rd[r].pc # "idle"
Unmount ==
    /\ \/ ~Busy /\ mounted' = "gone" /\ watcher' = "done"
       \/ UNCHANGED mounted /\ watcher' = "refused"
    /\ UNCHANGED <<size, pages, flight, load, call, ahead, crashed>>
    /\ UNCHANGED <<reader, file, brain>>

\* SIGINT or SIGTERM; the user may send none.
OnSignal ==
    /\ watcher = "select" /\ mounted = "yes"
    /\ Len(faults) < MaxFaults /\ faults' = Append(faults, "signal")
    /\ Unmount

\* Stop, which only a watcher in its select receives; the model does not tell it from a
\* signal.
OnStop == OnSignal

\* The poll of the codebook every second.
OnTick ==
    /\ watcher = "select" /\ mounted = "yes" /\ ~brain
    /\ UNCHANGED faults
    /\ Unmount

-----------------------------------------------------------------------------
Goroutine(p) ==
    \/ p \in Readers /\ (ReadStep(p) \/ DiskRead(p) \/ DiskFails(p))
    \/ CloudStep(p) /\ UNCHANGED <<reader, watch, file, mounted>>

Next ==
    /\ ~crashed
    /\ \/ Mount \/ RemoveBrain \/ OnSignal \/ OnStop \/ OnTick
       \/ \E r \in Readers, q \in Requests : Read(r, q)
       \/ \E p \in Procs : Goroutine(p)

Spec == Init /\ [][Next]_vars

(***************************************************************************)
(* The scheduler runs every goroutine that can run, and the client's       *)
(* timeout of 30 seconds ends every request.                               *)
(***************************************************************************)
FairSpec ==
    /\ Spec
    /\ \A p \in Procs : WF_vars(~crashed /\ Goroutine(p))
-----------------------------------------------------------------------------
(* Properties. *)

\* The types of the reader, its caches and the watcher; an answer is never longer than
\* what the caller asked for.
TypeOK ==
    /\ CloudTypeOK
    /\ file \in Files /\ mounted \in {"no", "yes", "gone"}
    /\ mu \in Readers \cup {None} /\ total \in Nat /\ reads \in 0..MaxReads
    /\ plain \in BOOLEAN /\ brain \in BOOLEAN
    /\ watcher \in {"select", "refused", "done"}
    /\ \A r \in Readers : rd[r].out \in Seq(Int) /\ Len(rd[r].out) <= rd[r].len

(***************************************************************************)
(* MemoryCache (cache.go:49): whatever concurrent reads put, and put       *)
(* again, totalBytes is the size of what is held, and that stays within    *)
(* the limit; no key is held twice.                                        *)
(***************************************************************************)
CacheAccounts ==
    /\ total = Bytes(cache) /\ total <= MaxBytes
    /\ \A i, j \in DOMAIN cache : cache[i].key = cache[j].key => i = j

\* How a read of n cells at off ended with a, for the abstract specification.
Result(off, n, a) ==
    CASE a = None -> "none"
      [] a = Error -> "error"
      [] a \notin {None, Error} /\ Len(a) < n -> "short"
      [] a \notin {None, Error} /\ ~(Len(a) < n) -> IF a = Cells(off, n) THEN "exact" ELSE "wrong"

Pending == {r \in Readers : rd[r].pc # "idle"}
Outcome == [r \in Readers |-> Result(rd[r].off, rd[r].len, answer[r])]
Verified == file.kind # "plain"
Faulty ==
    \/ \E i \in DOMAIN faults : faults[i] \notin {"brain", "signal"}
    \/ file.kind = "sealed" /\ file.tail > 0

Promise == INSTANCE FileReads WITH
    pending <- Pending, outcome <- Outcome, verified <- Verified, matched <- Matched,
    faulty <- Faulty, serving <- ~crashed

(***************************************************************************)
(* The refinement: with all its caches, locks and downloads the mounted    *)
(* file keeps the promise of FileReads.  Every read is answered; with the  *)
(* brain the file was packed with, answers are exact until something       *)
(* fails, and blocks and decrypted files never give wrong content; no      *)
(* answer of theirs is short, with any brain.  An encrypted payload to     *)
(* which mutations were appended counts as failed from the start:          *)
(* reader.go:260 takes all of it to be the ciphertext, and no read works.  *)
(***************************************************************************)
KeepsPromise == Promise!Spec
=============================================================================
