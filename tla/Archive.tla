------------------------------- MODULE Archive -------------------------------
(***************************************************************************)
(* Packing a file into a .crom and restoring it (Pack in                   *)
(* pkg/cromlib/compiler.go, Unpack in pkg/cromlib/unpacker.go, with the    *)
(* block arithmetic of pkg/format/format.go).                              *)
(*                                                                         *)
(* Pack reads the input block by block.  A pool of workers turns each      *)
(* chunk of a block into an entry and a residual; the residuals of a block *)
(* become one compressed block of the pool, at consecutive offsets.  The   *)
(* .crom is made beside outputPath and renamed to it.  Unpack walks the    *)
(* blocks, cuts the residuals out of them and rebuilds the chunks.         *)
(*                                                                         *)
(* The input is a sequence of chunks of equal size, BlockChunks of them to *)
(* a block of BlockSize bytes; a SHA-256 is the sequence it was taken of.  *)
(* How a chunk is encoded is given by Route: against the brain's codeword  *)
(* PatternOf, as a polynomial, or literally.                               *)
(***************************************************************************)
EXTENDS Naturals, Sequences, FiniteSets

CONSTANTS
    Chunks,       \* chunk contents
    Route,        \* [Chunks -> Routes], for a Pack with a brain
    PatternOf,    \* [Chunks -> Chunks]: the nearest codeword of the brain
    Inputs,       \* files to pack
    Options,      \* [brain, edge, encrypted] of a Pack
    Workers,      \* the goroutines of a Pack
    BlockChunks,  \* chunks in a full block
    SmallLimit,   \* below this size a file is stored as it is
    NoFile, Zero, Wrong, Partial,  \* no file; a zero-filled chunk; garbage; a temp file
    MaxPacks, MaxUnpacks, MaxChanges, MaxDamage  \* bounds

Routes == {"exact", "fractal", "literal", "patch", "xor"}

ASSUME CodecAssumption ==
    /\ Route \in [Chunks -> Routes] /\ PatternOf \in [Chunks -> Chunks]
    /\ \A c \in Chunks : Route[c] = "exact" => PatternOf[c] = c
    /\ Inputs \subseteq Seq(Chunks)
    /\ Options \subseteq [brain : BOOLEAN, edge : BOOLEAN, encrypted : BOOLEAN]
    /\ {Zero, Wrong} \cap Chunks = {}
ASSUME SizesAssumption ==
    /\ {BlockChunks, SmallLimit} \subseteq Nat \ {0} /\ Workers # {}
    /\ {MaxPacks, MaxUnpacks, MaxChanges, MaxDamage} \subseteq Nat

VARIABLES
    input,     \* the file at inputPath
    output,    \* the file at outputPath, a .crom
    tmp,       \* outputPath + ".tmp"
    pc,        \* where Pack is
    opts,      \* its options
    size,      \* originalSize, in chunks
    pos,       \* chunks of the input read
    block,     \* chunks of the block being packed
    jobs,      \* indices in the jobs channel
    work,      \* the index each worker is on, 0 for none
    results,   \* processed chunks of the block, by index
    made,      \* the entries, pool and hash so far
    start,     \* history: the input when Pack began
    touched,   \* history: it has changed since
    upc,       \* where Unpack is
    src,       \* the .crom it opened
    strict, sameBrain,  \* its options
    cur,       \* the block, entry and global offset it is at
    out,       \* what it has written
    skipped,   \* corruptBlocks
    restored,  \* the file at its outputPath
    packs, unpacks, changes, damage

packing == <<opts, size, pos, block, jobs, work, results, made, start, touched>>
unpacking == <<upc, src, strict, sameBrain, cur, out, skipped, restored>>
counts == <<packs, unpacks, changes, damage>>
vars == <<input, output, tmp, pc, packing, unpacking, counts>>

Min(a, b) == IF a <= b THEN a ELSE b
-----------------------------------------------------------------------------
(* Encoding one chunk. *)

Whole(c) == <<<<c, 1>>, <<c, 2>>>>   \* a residual as long as the chunk
Short(c) == <<<<c, 1>>>>             \* an edit script

\* What a worker makes of a chunk.
Process(o, c) ==
    LET r == Route[c]
    IN  CASE ~o.brain              -> [kind |-> "literal", id |-> Wrong, res |-> Whole(c)]
          [] o.brain /\ r = "exact"   -> [kind |-> "xor", id |-> c, res |-> << >>]
          [] o.brain /\ r = "fractal" -> [kind |-> "fractal", id |-> c, res |-> << >>]
          [] o.brain /\ r \notin {"exact", "fractal"} /\ o.edge
                                   -> [kind |-> "xor", id |-> PatternOf[c], res |-> << >>]
          [] o.brain /\ r = "literal" /\ ~o.edge
                                   -> [kind |-> "literal", id |-> Wrong, res |-> Whole(c)]
          [] o.brain /\ r = "patch" /\ ~o.edge
                                   -> [kind |-> "patch", id |-> PatternOf[c], res |-> Short(c)]
          [] OTHER                 -> [kind |-> "xor", id |-> PatternOf[c], res |-> Whole(c)]

\* The chunk an entry and a residual stand for; an empty XOR is the codeword.
Rebuild(e, res, brainOk) ==
    IF e.kind = "fractal" THEN e.id
    ELSE IF e.kind # "literal" /\ ~brainOk THEN Wrong
    ELSE IF e.kind = "xor" /\ res = << >> THEN e.id
    ELSE LET fits == {c \in Chunks : /\ res = (IF e.kind = "patch" THEN Short(c) ELSE Whole(c))
                                     /\ e.kind # "literal" => PatternOf[c] = e.id}
         IN  IF fits = {} THEN Wrong ELSE CHOOSE c \in fits : TRUE
-----------------------------------------------------------------------------
(* The .crom and its blocks. *)

Empty == [entries |-> << >>, blocks |-> << >>, offset |-> 0, hash |-> << >>]

\* of and steady are history: what was packed, and that it stayed as it was.
Crom(m) ==
    [size |-> size, hash |-> m.hash, pass |-> FALSE, raw |-> << >>, entries |-> m.entries,
     blocks |-> m.blocks, opts |-> opts, of |-> start, steady |-> ~touched]
Passthrough(data, hash) ==
    [size |-> size, hash |-> hash, pass |-> TRUE, raw |-> data, entries |-> << >>,
     blocks |-> << >>, opts |-> opts, of |-> start, steady |-> ~touched]

\* A block with no residuals takes no bytes, unless it is encrypted.
Stored(o, b) == b.cells # << >> \/ o.encrypted

Lossy(f) == f.opts.brain /\ f.opts.edge

\* Header.NumBlocks: the blocks a reader expects, from the size in the header.
NumBlocks(f) ==
    IF f.entries = << >> THEN 0 ELSE IF f.size = 0 THEN 1
    ELSE (f.size + BlockChunks - 1) \div BlockChunks

\* BlockStarts and BlockRange: the entries of block i.
NumStarts(f) == (Len(f.entries) + BlockChunks - 1) \div BlockChunks
First(i) == (i - 1) * BlockChunks + 1
Last(f, i) == Min(i * BlockChunks, Len(f.entries))
-----------------------------------------------------------------------------
Init ==
    /\ input \in Inputs
    /\ output = NoFile /\ tmp = NoFile
    /\ pc = "idle"
    /\ opts = CHOOSE o \in Options : TRUE
    /\ size = 0 /\ pos = 0 /\ block = << >> /\ jobs = << >>
    /\ work = [w \in Workers |-> 0] /\ results = << >> /\ made = Empty
    /\ start = << >> /\ touched = FALSE
    /\ upc = "idle" /\ src = NoFile /\ strict = TRUE /\ sameBrain = TRUE
    /\ cur = [block |-> 1, entry |-> 1, offset |-> 0] /\ out = << >> /\ skipped = 0
    /\ restored = NoFile
    /\ packs = 0 /\ unpacks = 0 /\ changes = 0 /\ damage = 0
-----------------------------------------------------------------------------
(* Pack. *)

\* Open the input, look at its first bytes, take its size, create the temp file.
StartPackNoRewind(o) ==
    /\ pc \in {"idle", "done", "failed", "crashed"} /\ packs < MaxPacks
    /\ packs' = packs + 1
    /\ opts' = o
    /\ size' = Len(input) /\ pos' = 1 /\ made' = Empty
    /\ block' = << >> /\ jobs' = << >> /\ results' = << >>
    /\ work' = [w \in Workers |-> 0]
    /\ start' = input /\ touched' = FALSE
    /\ tmp' = Partial
    /\ \/ pc' = "copy" /\ (size' < SmallLimit \/ (~o.brain /\ ~o.edge))
       \/ pc' = "read" /\ size' >= SmallLimit
    /\ UNCHANGED <<input, output, unpacking, unpacks, changes, damage>>
StartPack(o) ==
    /\ pc \in {"idle", "done", "failed", "crashed"} /\ packs < MaxPacks
    /\ packs' = packs + 1
    /\ opts' = o
    /\ size' = Len(input) /\ pos' = 0 /\ made' = Empty
    /\ block' = << >> /\ jobs' = << >> /\ results' = << >>
    /\ work' = [w \in Workers |-> 0]
    /\ start' = input /\ touched' = FALSE
    /\ tmp' = Partial
    /\ \/ pc' = "copy" /\ (size' < SmallLimit \/ (~o.brain /\ ~o.edge))
       \/ pc' = "read" /\ size' >= SmallLimit
    /\ UNCHANGED <<input, output, unpacking, unpacks, changes, damage>>

\* Passthrough: the input is copied, the header written again with its hash.
CopyThrough ==
    /\ pc = "copy"
    /\ tmp' = Passthrough(input, input)
    /\ pc' = "rename"
    /\ UNCHANGED <<input, output, packing, unpacking, counts>>

\* The errors of io.Copy, io.ReadAll and Write are not looked at.  After k
\* chunks a read fails, and so much was hashed; or a write does, and the hash
\* is behind it or, of an encrypted file, of the whole input.
CopyFails(k) ==
    /\ pc = "copy" /\ k < Len(input)
    /\ \E h \in {k} \cup (IF opts.encrypted THEN {Len(input)} ELSE {IF k = 0 THEN 0 ELSE k - 1}) :
          tmp' = Passthrough(SubSeq(input, 1, k), SubSeq(input, 1, h))
    /\ pc' = "rename"
    /\ UNCHANGED <<input, output, packing, unpacking, counts>>

\* Read up to one block, split it, and fill the jobs channel.
ReadBlockKeepsResults ==
    /\ pc = "read" /\ pos < Len(input)
    /\ LET n == Min(BlockChunks, Len(input) - pos)
       IN  /\ block' = SubSeq(input, pos + 1, pos + n)
           /\ jobs' = [i \in 1..n |-> i]
           /\ pos' = pos + n
    /\ made' = [made EXCEPT !.hash = @ \o block']
    /\ pc' = "work"
    /\ UNCHANGED <<input, output, tmp, opts, size, work, results, start, touched,
                   unpacking, counts>>
ReadBlock ==
    /\ pc = "read" /\ pos < Len(input)
    /\ LET n == Min(BlockChunks, Len(input) - pos)
       IN  /\ block' = SubSeq(input, pos + 1, pos + n)
           /\ jobs' = [i \in 1..n |-> i]
           /\ pos' = pos + n
    /\ results' = << >>
    /\ made' = [made EXCEPT !.hash = @ \o block']
    /\ pc' = "work"
    /\ UNCHANGED <<input, output, tmp, opts, size, work, start, touched, unpacking, counts>>

TakeJob(w) ==
    /\ pc = "work" /\ jobs # << >> /\ work[w] = 0
    /\ work' = [work EXCEPT ![w] = Head(jobs)]
    /\ jobs' = Tail(jobs)
    /\ UNCHANGED <<input, output, tmp, pc, opts, size, pos, block, results, made, start,
                   touched, unpacking, counts>>

StoreResultNotDone(w, r) ==
    /\ pc = "work" /\ work[w] # 0
    /\ results' = [i \in DOMAIN results \cup {work[w]} |->
                      IF i = work[w] THEN r ELSE results[i]]
    /\ UNCHANGED <<input, output, tmp, pc, opts, size, pos, block, jobs, work, made, start,
                   touched, unpacking, counts>>
StoreResult(w, r) ==
    /\ pc = "work" /\ work[w] # 0
    /\ results' = [i \in DOMAIN results \cup {work[w]} |->
                      IF i = work[w] THEN r ELSE results[i]]
    /\ work' = [work EXCEPT ![w] = 0]
    /\ UNCHANGED <<input, output, tmp, pc, opts, size, pos, block, jobs, made, start,
                   touched, unpacking, counts>>

ProcessChunk(w) == work[w] # 0 /\ StoreResult(w, Process(opts, block[work[w]]))
\* No codebook could be searched.
SearchFails(w) == opts.brain /\ StoreResult(w, [kind |-> "error"])

\* wg.Wait
WorkersDone == jobs = << >> /\ \A w \in Workers : work[w] = 0

Fail ==
    /\ pc' = "failed" /\ tmp' = NoFile
    /\ UNCHANGED <<input, output, packing, unpacking, counts>>

\* The first result with an error ends Pack.
GatherError ==
    /\ pc = "work" /\ WorkersDone
    /\ \E i \in DOMAIN results : results[i].kind = "error"
    /\ Fail

\* Offsets, entries and residuals in chunk order; then the block is written.
ResultSize(i) == Len(results[i].res)
Sum(n) == LET s[i \in 0..n] == IF i = 0 THEN 0 ELSE s[i - 1] + ResultSize(i) IN s[n]
Joined(n) == LET s[i \in 0..n] == IF i = 0 THEN << >> ELSE s[i - 1] \o results[i].res IN s[n]
DeltaOffsetInBlock(i) == Sum(i - 1)
DeltaOffset(i) == made.offset + Sum(i - 1)
Gather ==
    /\ pc = "work" /\ WorkersDone
    /\ \A i \in DOMAIN results : results[i].kind # "error"
    /\ LET n == Len(block)
           new == [i \in 1..n |-> [kind |-> results[i].kind, id |-> results[i].id,
                                   offset |-> DeltaOffset(i),
                                   size |-> ResultSize(i)]]
       IN  made' = [made EXCEPT !.entries = @ \o new,
                                !.blocks = Append(@, [cells |-> Joined(n), ok |-> TRUE]),
                                !.offset = @ + Sum(n)]
    /\ pc' = "read"
    /\ UNCHANGED <<input, output, tmp, opts, size, pos, block, jobs, work, results,
                   start, touched, unpacking, counts>>

\* A read, the compression, the encryption or a write fails.
PackError ==
    /\ pc \in {"copy", "read", "work", "finish", "smart"}
    /\ pc = "work" => WorkersDone
    /\ Fail

EndOfInput ==
    /\ pc = "read" /\ pos >= Len(input)
    /\ pc' = "finish"
    /\ UNCHANGED <<input, output, tmp, packing, unpacking, counts>>

\* A file that came out larger than its input goes to SmartPassthrough.
AfterTables == pc' = "rename" \/ (pc' = "smart" /\ ~opts.edge)

\* The metadata has the size that was reserved, or the pool is moved.
Finalize ==
    /\ pc = "finish"
    /\ tmp' = Crom(made)
    /\ AfterTables
    /\ UNCHANGED <<input, output, packing, unpacking, counts>>

\* Moving the pool through a file in the temp directory: the errors of the two
\* io.Copy are not looked at, and Truncate has filled what is missing with zeros.
PoolLost(k) ==
    /\ pc = "finish" /\ k \in 1..Len(made.blocks)
    /\ LET left(i) == i < k \/ ~Stored(opts, made.blocks[i])
       IN  tmp' = Crom([made EXCEPT !.blocks = [i \in 1..Len(@) |-> [@[i] EXCEPT !.ok = left(i)]]])
    /\ AfterTables
    /\ UNCHANGED <<input, output, packing, unpacking, counts>>

\* The packed file is larger than the input: store the input after all.
SmartPassthrough ==
    /\ pc = "smart"
    /\ tmp' = Passthrough(input, input)
    /\ pc' = "rename"
    /\ UNCHANGED <<input, output, packing, unpacking, counts>>

RenameOutput ==
    /\ pc = "rename"
    /\ output' = tmp /\ tmp' = NoFile
    /\ pc' = "done"
    /\ UNCHANGED <<input, packing, unpacking, counts>>

RenameFails ==
    /\ pc = "rename"
    /\ pc' = "failed"
    /\ UNCHANGED <<input, output, tmp, packing, unpacking, counts>>

PackCrash ==
    /\ pc \notin {"idle", "done", "failed", "crashed"}
    /\ pc' = "crashed"
    /\ UNCHANGED <<input, output, tmp, packing, unpacking, counts>>
-----------------------------------------------------------------------------
(* Unpack. *)

\* When the header counts other blocks than the table has, the tables are read
\* at the wrong place.
TablesAgree(f) ==
    /\ f.entries # << >>
    /\ Len(f.blocks) = NumBlocks(f) /\ NumStarts(f) = NumBlocks(f)

\* Open the .crom, read its header and tables, open the brain if one is needed.
StartUnpack(s, b) ==
    /\ upc \in {"idle", "done", "failed", "ioFailed"} /\ unpacks < MaxUnpacks
    /\ output # NoFile
    /\ unpacks' = unpacks + 1
    /\ src' = output /\ strict' = s /\ sameBrain' = b
    /\ cur' = [block |-> 1, entry |-> 1, offset |-> 0] /\ out' = << >> /\ skipped' = 0
    /\ \/ upc' = "copy" /\ output.pass
       \/ upc' = "blocks" /\ ~output.pass /\ TablesAgree(output)
       \/ upc' = "failed" /\ ~output.pass /\ (~TablesAgree(output) \/ (output.opts.brain /\ ~b))
    /\ UNCHANGED <<input, output, tmp, pc, packing, restored, packs, changes, damage>>

CopyBack ==
    /\ upc = "copy"
    /\ out' = src.raw
    /\ upc' = "check"
    /\ UNCHANGED <<input, output, tmp, pc, packing, src, strict, sameBrain, cur, skipped,
                   restored, counts>>

TheBlock == src.blocks[cur.block]
AtBlock == upc = "blocks" /\ cur.block <= Len(src.blocks)
Unreadable == ~TheBlock.ok
\* Compressed with another brain as its dictionary, a block need not decompress.
OtherDict == ~sameBrain /\ src.opts.brain /\ TheBlock.cells # << >>
UFail ==
    /\ upc' = "failed"
    /\ UNCHANGED <<input, output, tmp, pc, packing, src, strict, sameBrain, cur, out,
                   skipped, restored, counts>>

\* A residual outside its block.
Entry(i) == src.entries[i]
Beyond(i) ==
    \/ Entry(i).offset < cur.offset
    \/ Entry(i).offset - cur.offset + Entry(i).size > Len(TheBlock.cells)

\* Another brain may lack a codeword, or the edit script does not fit it.
NoCodeword ==
    ~sameBrain /\ \E i \in First(cur.block)..Last(src, cur.block) : Entry(i).kind \in {"patch", "xor"}

\* With AES-GCM a damaged block does not decrypt, which ends Unpack in either mode.
BlockFails ==
    /\ AtBlock
    /\ \/ Unreadable /\ (strict \/ src.opts.encrypted)
       \/ OtherDict /\ strict
       \/ ~Unreadable /\ strict /\ \E i \in First(cur.block)..Last(src, cur.block) : Beyond(i)
       \/ ~Unreadable /\ NoCodeword
    /\ UFail

\* Tolerant: zeros for every chunk of the block, and on to the next offset.
SkipBlockNoOffset ==
    /\ AtBlock /\ ~strict
    /\ IF Unreadable THEN ~src.opts.encrypted ELSE OtherDict
    /\ LET next == Last(src, cur.block) + 1
       IN  /\ out' = out \o [i \in 1..(next - cur.entry) |-> Zero]
           /\ cur' = [cur EXCEPT !.block = @ + 1, !.entry = next]
    /\ skipped' = skipped + 1
    /\ UNCHANGED <<input, output, tmp, pc, packing, upc, src, strict, sameBrain,
                   restored, counts>>
SkipBlock ==
    /\ AtBlock /\ ~strict
    /\ IF Unreadable THEN ~src.opts.encrypted ELSE OtherDict
    /\ LET next == Last(src, cur.block) + 1
       IN  /\ out' = out \o [i \in 1..(next - cur.entry) |-> Zero]
           /\ cur' = [block |-> cur.block + 1, entry |-> next,
                      offset |-> IF next <= Len(src.entries) THEN Entry(next).offset
                                 ELSE cur.offset]
    /\ skipped' = skipped + 1
    /\ UNCHANGED <<input, output, tmp, pc, packing, upc, src, strict, sameBrain,
                   restored, counts>>

\* Rebuild the chunks of a block.
Cut(i) == SubSeq(TheBlock.cells, Entry(i).offset - cur.offset + 1,
                 Entry(i).offset - cur.offset + Entry(i).size)
RebuildBlock ==
    /\ AtBlock /\ ~Unreadable
    /\ LET n == Last(src, cur.block) - First(cur.block) + 1
           bad == {k \in 1..n : Beyond(cur.entry + k - 1)}
       IN  /\ strict => bad = {}
           /\ out' = out \o [k \in 1..n |->
                                IF k \in bad THEN Zero
                                ELSE Rebuild(Entry(cur.entry + k - 1),
                                             Cut(cur.entry + k - 1), sameBrain)]
           /\ cur' = [block |-> cur.block + 1, entry |-> cur.entry + n,
                      offset |-> cur.offset + Len(TheBlock.cells)]
           /\ skipped' = skipped + Cardinality(bad)
    /\ UNCHANGED <<input, output, tmp, pc, packing, upc, src, strict, sameBrain,
                   restored, counts>>

AllBlocks ==
    /\ upc = "blocks" /\ cur.block > Len(src.blocks)
    /\ upc' = "check"
    /\ UNCHANGED <<input, output, tmp, pc, packing, src, strict, sameBrain, cur, out,
                   skipped, restored, counts>>

\* The SHA-256 check; edge files and tolerated damage are let through.
HashAccepts == Lossy(src) \/ out = src.hash \/ (~strict /\ skipped > 0)

HashMismatch ==
    /\ upc = "check" /\ ~HashAccepts
    /\ UFail

RenameRestored ==
    /\ upc = "check" /\ HashAccepts
    /\ restored' = out
    /\ upc' = "done"
    /\ UNCHANGED <<input, output, tmp, pc, packing, src, strict, sameBrain, cur, out,
                   skipped, counts>>

\* A read, a write or the rename fails (told apart for the properties).
UnpackIOError ==
    /\ upc \in {"copy", "blocks", "check"}
    /\ upc' = "ioFailed"
    /\ UNCHANGED <<input, output, tmp, pc, packing, src, strict, sameBrain, cur, out,
                   skipped, restored, counts>>
-----------------------------------------------------------------------------
(* The environment. *)

\* The input is appended to, as a log file is, or replaced.
InputChanges(f) ==
    /\ changes < MaxChanges /\ f # input
    /\ changes' = changes + 1
    /\ input' = f /\ touched' = TRUE
    /\ UNCHANGED <<output, tmp, pc, opts, size, pos, block, jobs, work, results, made, start,
                   unpacking, packs, unpacks, damage>>

\* A block of the .crom goes bad on disk.
BlockDamaged(i) ==
    /\ output # NoFile /\ i \in 1..Len(output.blocks) /\ output.blocks[i].ok
    /\ Stored(output.opts, output.blocks[i])
    /\ damage < MaxDamage
    /\ damage' = damage + 1
    /\ output' = [output EXCEPT !.blocks[i].ok = FALSE]
    /\ UNCHANGED <<input, tmp, pc, packing, unpacking, packs, unpacks, changes>>

MaxLen == BlockChunks * 3  \* bound: chunks in an input, for the quantifiers below
WorkerStep == \E w \in Workers : TakeJob(w) \/ ProcessChunk(w) \/ SearchFails(w)
PackStep ==
    \/ CopyThrough \/ (\E k \in 0..MaxLen : CopyFails(k))
    \/ ReadBlock \/ WorkerStep \/ GatherError \/ Gather \/ PackError \/ EndOfInput
    \/ Finalize \/ (\E k \in 1..MaxLen : PoolLost(k))
    \/ SmartPassthrough \/ RenameOutput \/ RenameFails
UnpackStep ==
    \/ CopyBack \/ BlockFails \/ SkipBlock \/ RebuildBlock \/ AllBlocks
    \/ HashMismatch \/ RenameRestored \/ UnpackIOError

Next ==
    \/ \E o \in Options : StartPack(o)
    \/ PackStep \/ PackCrash
    \/ \E s, b \in BOOLEAN : StartUnpack(s, b)
    \/ UnpackStep
    \/ \E f \in Inputs : InputChanges(f)
    \/ \E i \in 1..MaxLen : BlockDamaged(i)

Spec == Init /\ [][Next]_vars
FairSpec == Spec /\ WF_vars(PackStep) /\ WF_vars(UnpackStep)
-----------------------------------------------------------------------------
Cells == Chunks \X {1, 2}
Entries == [kind : {"literal", "fractal", "patch", "xor"}, id : Chunks \cup {Wrong},
            offset : Nat, size : Nat]
IsCrom(f) ==
    /\ f.size \in Nat /\ {f.hash, f.raw, f.of} \subseteq Seq(Chunks)
    /\ f.entries \in Seq(Entries)
    /\ f.blocks \in Seq([cells : Seq(Cells), ok : BOOLEAN])
    /\ {f.pass, f.steady} \subseteq BOOLEAN /\ f.opts \in Options

\* Type invariant.
TypeOK ==
    /\ {input, start, block} \subseteq Seq(Chunks)
    /\ output = NoFile \/ IsCrom(output)
    /\ tmp \in {NoFile, Partial} \/ IsCrom(tmp)
    /\ src = NoFile \/ IsCrom(src)
    /\ pc \in {"idle", "copy", "read", "work", "finish", "smart", "rename",
               "done", "failed", "crashed"}
    /\ upc \in {"idle", "copy", "blocks", "check", "done", "failed", "ioFailed"}
    /\ {size, pos, made.offset, skipped} \subseteq Nat
    /\ jobs \in Seq(Nat) /\ work \in [Workers -> Nat]
    /\ DOMAIN results \subseteq 1..Len(block)
    /\ made.entries \in Seq(Entries) /\ made.hash \in Seq(Chunks)
    /\ cur \in [block : Nat, entry : Nat, offset : Nat]
    /\ out \in Seq(Chunks \cup {Zero, Wrong})
    /\ restored = NoFile \/ restored \in Seq(Chunks \cup {Zero, Wrong})

(***************************************************************************)
(* What Pack installed can be restored: with the same brain, an Unpack     *)
(* fails only on a file whose input changed while it was packed, that lost *)
(* blocks of its pool, or whose passthrough copy was cut.  The workers'    *)
(* order, the offsets that run on from block to block (compiler.go:592),   *)
(* the empty residuals and the short last block all have to be right for   *)
(* this (unpacker.go:155-293).                                             *)
(***************************************************************************)
UnpackFailsForCause ==
    upc = "failed" =>
        \/ src.opts.brain /\ ~sameBrain
        \/ ~src.steady
        \/ src.pass /\ src.raw # src.hash
        \/ \E i \in 1..Len(src.blocks) : ~src.blocks[i].ok

(***************************************************************************)
(* What an Unpack leaves without having skipped anything is the file that  *)
(* was packed: whatever brain it was given, whatever blocks went bad, in   *)
(* whatever order the workers ran.  If the input changed under Pack, every *)
(* chunk is still one that some version of the input had at that place,    *)
(* and a passthrough copy that was cut is a beginning of the input         *)
(* (compiler.go:130, 365-393, unpacker.go:337-347).                        *)
(***************************************************************************)
FromInputs(data) ==
    \A i \in 1..Len(data) : \E f \in Inputs : i <= Len(f) /\ f[i] = data[i]
RestoredIsInput ==
    (upc = "done" /\ ~Lossy(src) /\ (strict \/ skipped = 0)) =>
        /\ FromInputs(restored)
        /\ src.steady => restored = SubSeq(src.of, 1, Len(restored))
        /\ src.steady /\ ~src.pass => Len(restored) = Len(src.of)

(***************************************************************************)
(* In tolerant mode one bad block costs its own chunks and no others: the  *)
(* output has the length of the original and every chunk of a good block   *)
(* is in its place, the nearest codeword in edge mode (unpacker.go:190-211 *)
(* moves the offset and fills with zeros).                                 *)
(***************************************************************************)
GoodBlocksSurvive ==
    (upc = "done" /\ sameBrain /\ src.steady /\ ~src.pass) =>
        /\ Len(restored) = Len(src.of)
        /\ \A i \in 1..Len(src.of) :
              LET c == src.of[i]
              IN  src.blocks[(i - 1) \div BlockChunks + 1].ok =>
                      \/ restored[i] = c
                      \/ Lossy(src) /\ restored[i] = PatternOf[c]

\* Pack returns, whichever order its workers run in.
PackEnds == (pc \in {"copy", "read"}) ~> (pc \in {"done", "failed", "crashed"})
-----------------------------------------------------------------------------
(* What the repository says and the code does not do. *)

\* "The output only appears at outputPath once it is complete."
\* (compiler.go:97): with an input that stayed as it was, what is at
\* outputPath after Pack holds all of it.
OutputIsComplete ==
    (pc = "done" /\ damage = 0 /\ output.steady) =>
        IF output.pass THEN output.raw = output.of
        ELSE \A i \in 1..Len(output.blocks) : output.blocks[i].ok
=============================================================================
