------------------------------ MODULE Training ------------------------------
(* crompressor train: Train of internal/trainer/engine.go with the frequency
   table, the augmentation, the selector and the writer of the same package.

   Workers share the files of the corpus and count the chunks they see in one
   table that keeps no bytes, only where a chunk was first seen.  The most
   frequent patterns, at most MaxPerBucket of a bucket, become the brain; their
   bytes come from a second reading of the corpus, which may have changed.  The
   brain is written in place over what was there.

   A pattern is a sequence of cells and stands for its own hash; its first cell
   is its bucket.  A file that a worker has open does not change under it.  The
   BPE engine is not modelled. *)
EXTENDS Integers, Sequences, FiniteSets

CONSTANTS
    ChunkSize, BufferSize,       \* opts.ChunkSize; the 16 MB read buffer
    MaxCodewords, MaxPerBucket,  \* of the options; 0 for no limit of a bucket
    Boost,                       \* the 100 occurrences an old pattern starts with
    Span,                        \* 1 << 44: the range of positions of a file
    SizeField,                   \* 1 << 16: the codeword size of a header is a uint16
    Workers,
    Corpora,                     \* what InputDir may hold: sequences of files
    Contents,                    \* what a file may become while training runs
    OldBrains,                   \* what OutputPath may hold before: patterns
    Gone,                        \* a file that cannot be opened
    MaxFaults, MaxChanges

ASSUME TrainingAssumption ==
    /\ ChunkSize \in Nat \ {0} /\ BufferSize \in Nat \ {0} /\ MaxCodewords \in Nat \ {0}
    /\ MaxPerBucket \in Nat /\ Boost \in Nat \ {0} /\ Span \in Nat
    /\ SizeField \in Nat \ {0}
    /\ Corpora \subseteq Seq(Seq(Nat)) /\ OldBrains \subseteq Seq(Seq(Nat))
    /\ Contents \subseteq {Gone} \cup Seq(Nat)
    /\ \A c \in Corpora : \A i \in DOMAIN c : c[i] # Gone /\ Len(c[i]) < Span

VARIABLES
    corpus,    \* the files of InputDir, in the order WalkDir finds them
    merge,     \* "standard", "update" (UpdatePath) or "base" (BasePath)
    augment,   \* opts.DataAugmentation
    phase,
    next,      \* the next file in fileChan
    worker,    \* the file each worker has open and the chunks left in its buffer
    table,     \* the FrequencyTable: pattern -> entry
    left,      \* entries a sorted loop has not reached
    rank,      \* the counts AugmentPatterns sorted by
    limit,     \* how many more it takes
    base,      \* patterns of the brain at BasePath
    picked,    \* what selectPicked has chosen
    selected,  \* patterns not written yet
    brain,     \* the file at OutputPath
    intended,  \* history: the patterns that file is meant to hold
    faults, changes

counting == <<next, worker>>
choosing == <<left, rank, limit, base, picked>>
options == <<merge, augment>>
trainingVars == <<corpus, options, phase, counting, table, choosing, selected, brain,
                  intended, faults, changes>>

Smaller(a, b) == IF a <= b THEN a ELSE b
Bucket(p) == IF p = << >> THEN 0 ELSE p[1]
Fault == faults < MaxFaults /\ faults' = faults + 1

\* FixedChunker.Split: only the last chunk may be short.
Split(data) ==
    [i \in 1..((Len(data) + ChunkSize - 1) \div ChunkSize) |->
        [at |-> (i - 1) * ChunkSize,
         data |-> SubSeq(data, (i - 1) * ChunkSize + 1, Smaller(i * ChunkSize, Len(data)))]]

\* The elements of s at the places in S, in their order.
Only(s, S) ==
    LET before(i) == {j \in S : j < i}
    IN  [k \in 1..Cardinality(S) |-> s[CHOOSE i \in S : Cardinality(before(i)) = k - 1]]

\* The elements of s by increasing key (of their places), equal ones in their order.
StableBy(s, key) ==
    LET before(i) == {j \in DOMAIN s : key[j] < key[i] \/ (key[j] = key[i] /\ j < i)}
    IN  [k \in DOMAIN s |-> s[CHOOSE i \in DOMAIN s : Cardinality(before(i)) = k - 1]]

\* Where a loop over entries sorted by decreasing count may be: ties are in any order.
Top(S, count) == {p \in S : \A q \in S : count[q] <= count[p]}
-----------------------------------------------------------------------------
(* The brain file: a header, then the patterns one after the other. *)

Absent == [header |-> FALSE, size |-> 0, count |-> 0, cells |-> << >>, there |-> FALSE]
Created == [Absent EXCEPT !.there = TRUE]

Joined(ps) ==
    LET upto[n \in 0..Len(ps)] == IF n = 0 THEN << >> ELSE upto[n - 1] \o ps[n]
    IN  upto[Len(ps)]

\* uint16(cwSize): the trainer takes any chunk size, the header keeps 16 bits of it.
CodewordSize(ps) == Len(ps[1]) % SizeField

Header(ps) == [header |-> TRUE, size |-> CodewordSize(ps), count |-> Len(ps), cells |-> << >>,
               there |-> TRUE]
BrainOf(ps) == IF ps = << >> THEN Absent ELSE [Header(ps) EXCEPT !.cells = Joined(ps)]

\* A mistake: the header alone is trusted.
AcceptsHeader(f) == f.there /\ f.header /\ f.size > 0

\* ParseHeader and the size checks of Open, OpenFromBytes and ReadPatterns.
Accepts(f) == f.there /\ f.header /\ f.size > 0 /\ Len(f.cells) >= f.size * f.count

\* Lookup: codeword id, which the caller knows to be inside the file.
WordAt(f, size, id) == SubSeq(f.cells, id * size + 1, Smaller((id + 1) * size, Len(f.cells)))
WordsOf(f) == [i \in 1..f.count |-> WordAt(f, f.size, i - 1)]
-----------------------------------------------------------------------------
(* The frequency table. *)

With(T, p, e) == [q \in DOMAIN T \cup {p} |-> IF q = p THEN e ELSE T[q]]

Record(T, p) ==
    With(T, p, IF p \in DOMAIN T THEN [T[p] EXCEPT !.count = @ + 1]
               ELSE [count |-> 1, first |-> 0, data |-> TRUE])

\* A mistake: the position of the worker that came first.
RecordAtFirstCome(T, p, pos) ==
    With(T, p, IF p \in DOMAIN T THEN [T[p] EXCEPT !.count = @ + 1]
               ELSE [count |-> 1, first |-> pos, data |-> FALSE])

RecordAt(T, p, pos) ==
    With(T, p, IF p \in DOMAIN T THEN [T[p] EXCEPT !.count = @ + 1, !.first = Smaller(@, pos)]
               ELSE [count |-> 1, first |-> pos, data |-> FALSE])

RecordWithCount(T, p, n) ==
    With(T, p, IF p \in DOMAIN T THEN [T[p] EXCEPT !.count = @ + n]
               ELSE [count |-> n, first |-> 0, data |-> TRUE])

CountsOf(T) == [p \in DOMAIN T |-> T[p].count]
-----------------------------------------------------------------------------
Idle == [file |-> 0, data |-> << >>, pos |-> 0, todo |-> << >>, eof |-> FALSE]

TrainingInit ==
    /\ corpus \in Corpora
    /\ merge \in {"standard", "update", "base"} /\ augment \in BOOLEAN
    /\ phase = "count" /\ next = 1 /\ worker = [w \in Workers |-> Idle]
    /\ table = << >>
    /\ left = {} /\ rank = << >> /\ limit = 0 /\ base = << >> /\ picked = << >>
    /\ selected = << >>
    /\ intended \in OldBrains /\ brain = BrainOf(intended)
    /\ faults = 0 /\ changes = 0

\* Something else writes to InputDir.  Only what a worker is about to open, and
\* what the second reading finds, makes a difference.
ChangeFile ==
    /\ phase \in {"count", "reread"} /\ changes < MaxChanges
    /\ \E i \in DOMAIN corpus, c \in Contents : corpus' = [corpus EXCEPT ![i] = c]
    /\ changes' = changes + 1
    /\ UNCHANGED <<options, phase, counting, table, choosing, selected, brain, intended, faults>>

\* A worker takes a path from fileChan; one it cannot open is passed over.
OpenFile(w) ==
    /\ phase = "count" /\ worker[w].file = 0 /\ next <= Len(corpus)
    /\ next' = next + 1
    /\ \/ /\ corpus[next] # Gone
          /\ worker' = [worker EXCEPT ![w] = [Idle EXCEPT !.file = next, !.data = corpus[next]]]
          /\ UNCHANGED faults
       \/ (IF corpus[next] = Gone THEN UNCHANGED faults ELSE Fault) /\ UNCHANGED worker
    /\ UNCHANGED <<corpus, options, phase, table, choosing, selected, brain, intended, changes>>

\* A worker with nothing left of a finished file closes it.
Settled(k) == IF k.eof /\ k.todo = << >> THEN Idle ELSE k

\* n cells came into the buffer; a chunk of another length, the last one, is dropped.
Buffered(k, n, eof) ==
    LET chunks == SubSeq(Split(SubSeq(k.data, k.pos + 1, k.pos + n)), 1, n \div ChunkSize)
    IN  Settled([k EXCEPT !.pos = @ + n, !.eof = eof,
                 !.todo = [i \in DOMAIN chunks |->
                    [at |-> (k.file - 1) * Span + k.pos + chunks[i].at,
                     data |-> chunks[i].data]]])

\* io.ReadFull: a whole buffer, or less at the end of the file or on an error.
ReadBuffer(w) ==
    LET k == worker[w]
        n == Smaller(BufferSize, Len(k.data) - k.pos)
    IN  /\ phase = "count" /\ k.file # 0 /\ k.todo = << >>
        /\ \/ worker' = [worker EXCEPT ![w] = Buffered(k, n, n < BufferSize)] /\ UNCHANGED faults
           \/ \E m \in 0..n : worker' = [worker EXCEPT ![w] = Buffered(k, m, TRUE)] /\ Fault
        /\ UNCHANGED <<corpus, options, phase, next, table, choosing, selected, brain,
                       intended, changes>>

\* One chunk is counted under the table's mutex.
CountChunk(w) ==
    LET k == worker[w] c == Head(k.todo)
    IN  /\ k.todo # << >>
        /\ worker' = [worker EXCEPT ![w] = Settled([k EXCEPT !.todo = Tail(@)])]
        /\ table' = IF augment THEN Record(table, c.data) ELSE RecordAt(table, c.data, c.at)
        /\ UNCHANGED <<corpus, options, phase, next, choosing, selected, brain, intended,
                       faults, changes>>

Counted == next > Len(corpus) /\ \A w \in Workers : worker[w] = Idle

\* wg.Wait, and the sort at the head of AugmentPatterns.
AllCounted ==
    /\ phase = "count" /\ Counted
    /\ phase' = IF augment THEN "augment" ELSE "merge"
    /\ IF augment THEN /\ left' = DOMAIN table /\ rank' = CountsOf(table)
                       /\ limit' = MaxCodewords \div 2
                  ELSE UNCHANGED <<left, rank, limit>>
    /\ UNCHANGED <<corpus, options, counting, table, base, picked, selected, brain, intended,
                   faults, changes>>
-----------------------------------------------------------------------------
ShiftLeft(p) == Tail(p) \o <<0>>
ShiftRight(p) == <<0>> \o SubSeq(p, 1, Len(p) - 1)
Rotated(p) == Tail(p) \o <<p[1]>>

\* The entry's count is the one it has now, which earlier variants may have raised.
Varied(T, p) ==
    LET n == T[p].count \div 2
    IN  IF T[p].count <= 1 THEN T
        ELSE RecordWithCount(RecordWithCount(RecordWithCount(T, ShiftLeft(p), n),
                                             ShiftRight(p), n), Rotated(p), n)

AugmentPatterns ==
    /\ phase = "augment"
    /\ IF limit > 0 /\ left # {}
       THEN /\ \E p \in Top(left, rank) : table' = Varied(table, p) /\ left' = left \ {p}
            /\ limit' = limit - 1 /\ UNCHANGED <<phase, rank>>
       ELSE /\ phase' = "merge" /\ left' = {} /\ rank' = << >> /\ limit' = 0
            /\ UNCHANGED table
    /\ UNCHANGED <<corpus, options, counting, base, picked, selected, brain, intended,
                   faults, changes>>

\* The old patterns of this chunk size are seeded with Boost occurrences.
Seeded(T, ps) ==
    LET upto[n \in 0..Len(ps)] ==
            IF n = 0 THEN T
            ELSE IF Len(ps[n]) = ChunkSize THEN RecordWithCount(upto[n - 1], ps[n], Boost)
            ELSE upto[n - 1]
    IN  upto[Len(ps)]

Merge ==
    /\ phase = "merge"
    /\ \/ /\ merge = "standard" \/ Accepts(brain)
          /\ table' = IF merge = "update" THEN Seeded(table, WordsOf(brain)) ELSE table
          /\ base' = IF merge = "base" THEN WordsOf(brain) ELSE << >>
          /\ left' = DOMAIN table' /\ phase' = "pick"
       \/ /\ merge # "standard" /\ ~Accepts(brain)
          /\ phase' = "failed" /\ UNCHANGED <<table, base, left>>
    /\ UNCHANGED <<corpus, options, counting, rank, limit, picked, selected, brain, intended,
                   faults, changes>>
-----------------------------------------------------------------------------
(* selectPicked and readPickedData. *)

PerBucket == IF MaxPerBucket = 0 THEN MaxCodewords ELSE MaxPerBucket
\* A mistake: the limit of a bucket is not kept.
SaturatedNever(p) == FALSE

Saturated(p) == Cardinality({i \in DOMAIN picked : Bucket(picked[i]) = Bucket(p)}) >= PerBucket

SelectPicked ==
    /\ phase = "pick"
    /\ IF left # {} /\ Len(picked) < MaxCodewords
       THEN /\ \E p \in Top(left, CountsOf(table)) :
                  /\ left' = left \ {p}
                  /\ picked' = IF Saturated(p) THEN picked ELSE Append(picked, p)
            /\ UNCHANGED phase
       ELSE LET first == [i \in DOMAIN picked |-> table[picked[i]].first]
            IN  picked' = StableBy(picked, first) /\ phase' = "reread" /\ left' = {}
    /\ UNCHANGED <<corpus, options, counting, table, rank, limit, base, selected, brain,
                   intended, faults, changes>>

\* The chunks a reading of a file meets, a buffer at a time.
ChunksOf(content) ==
    LET start(n) == n * BufferSize
        buffer(n) == SubSeq(content, start(n) + 1, Smaller(start(n + 1), Len(content)))
        chunks(n) == Split(buffer(n))
    IN  UNION {{chunks(n)[i].data : i \in DOMAIN chunks(n)} : n \in 0..(Len(content) \div BufferSize)}

\* A mistake: the base is not cut to the size of the brain.
MergeBaseWhole(old, new) ==
    LET fresh == {i \in DOMAIN new : \A j \in DOMAIN old : old[j] # new[i]}
    IN  old \o Only(new, fresh)

\* mergeBaseWithNew: the base keeps its slots, new patterns take what remains.
MergeBase(old, new) ==
    LET kept == SubSeq(old, 1, Smaller(Len(old), MaxCodewords))
        fresh == {i \in DOMAIN new : \A j \in DOMAIN old : old[j] # new[i]}
        added == Only(new, fresh)
    IN  kept \o SubSeq(added, 1, Smaller(Len(added), MaxCodewords - Len(kept)))

Forget ==
    /\ table' = << >> /\ base' = << >> /\ picked' = << >>
    /\ UNCHANGED <<left, rank, limit>>

ReadPicked ==
    /\ phase = "reread"
    /\ \E bad \in SUBSET DOMAIN corpus :
          LET read == {i \in DOMAIN corpus \ bad : corpus[i] # Gone}
              missing == {p \in {picked[i] : i \in DOMAIN picked} : ~table[p].data}
          IN  /\ IF bad = {} THEN UNCHANGED faults ELSE Fault
              /\ IF missing \subseteq UNION {ChunksOf(corpus[i]) : i \in read}
                 THEN /\ selected' = IF merge = "base" THEN MergeBase(base, picked) ELSE picked
                      /\ phase' = "create"
                 ELSE phase' = "failed" /\ UNCHANGED selected
    /\ Forget
    /\ UNCHANGED <<corpus, options, counting, brain, intended, changes>>
-----------------------------------------------------------------------------
(* WriteCodebook. *)

Sorted(ps) == StableBy(ps, [i \in DOMAIN ps |-> Bucket(ps[i])])

\* os.Create truncates what was there.
CreateBrain ==
    /\ phase = "create"
    /\ \/ selected = << >> /\ phase' = "failed" /\ UNCHANGED <<brain, intended, faults>>
       \/ selected # << >> /\ Fault /\ phase' = "failed" /\ UNCHANGED <<brain, intended>>
       \/ /\ selected # << >> /\ phase' = "header" /\ brain' = Created
          /\ intended' = Sorted(selected) /\ UNCHANGED faults
    /\ UNCHANGED <<corpus, options, counting, table, choosing, selected, changes>>

\* The codeword size is the first pattern's, before the sort.
WriteHeader ==
    /\ phase = "header"
    /\ phase' = "write" /\ selected' = Sorted(selected)
    /\ brain' = Header(selected)
    /\ UNCHANGED <<corpus, options, counting, table, choosing, intended, faults, changes>>

WritePattern ==
    /\ phase = "write"
    /\ IF selected = << >> THEN phase' = "done" /\ UNCHANGED <<brain, selected>>
       ELSE /\ brain' = [brain EXCEPT !.cells = @ \o Head(selected)]
            /\ selected' = Tail(selected) /\ UNCHANGED phase
    /\ UNCHANGED <<corpus, options, counting, table, choosing, intended, faults, changes>>

\* A write fails after some of its bytes, or the process is killed.
WriteFails ==
    /\ phase \in {"header", "write"} /\ Fault
    /\ phase' = "failed" /\ selected' = << >>
    /\ \E n \in 0..(IF phase = "write" /\ selected # << >> THEN Len(Head(selected)) - 1 ELSE 0) :
          brain' = IF n = 0 THEN brain
                   ELSE [brain EXCEPT !.cells = @ \o SubSeq(Head(selected), 1, n)]
    /\ UNCHANGED <<corpus, options, counting, table, choosing, intended, changes>>

TrainingStep ==
    \/ ChangeFile
    \/ \E w \in Workers : OpenFile(w) \/ ReadBuffer(w) \/ CountChunk(w)
    \/ AllCounted \/ AugmentPatterns \/ Merge \/ SelectPicked \/ ReadPicked
    \/ CreateBrain \/ WriteHeader \/ WritePattern \/ WriteFails
-----------------------------------------------------------------------------
(* Properties. *)

\* The places a pattern is counted at, from the content alone.
Occurrences(p) ==
    {x \in (DOMAIN corpus) \X (0..Span) :
        LET file == corpus[x[1]] o == x[2] inBuffer == o % BufferSize
        IN  /\ inBuffer % ChunkSize = 0 /\ inBuffer + ChunkSize <= BufferSize
            /\ o + ChunkSize <= Len(file)
            /\ SubSeq(file, o + 1, o + ChunkSize) = p}

\* When every file was readable and none changed, the shared table (RecordAt)
\* holds exactly the patterns of the corpus, each with its number of occurrences
\* and, without augmentation, the position of its first one, in whatever order
\* the workers took the files and the mutex.
CountsAreExact ==
    (phase = "count" /\ Counted /\ faults = 0 /\ changes = 0) =>
        /\ \A p \in DOMAIN table :
              LET o == Occurrences(p)
              IN  /\ Cardinality(o) = table[p].count
                  /\ ~augment => /\ \E x \in o : table[p].first = (x[1] - 1) * Span + x[2]
                                 /\ \A x \in o : table[p].first <= (x[1] - 1) * Span + x[2]
        /\ \A i \in DOMAIN corpus : \A c \in ChunksOf(corpus[i]) :
              Len(c) = ChunkSize => c \in DOMAIN table

\* selectPicked leaves a pattern out only for others at least as frequent: enough
\* of them to fill its bucket, or all of a full brain; no bucket gets more than its
\* limit.  WriteCodebook numbers them by bucket: the reading order that
\* selectPicked puts them in (and frequency.go:14 keeps the first positions for,
\* "to number the brain in reading order") survives only inside a bucket.
EliteIsBest ==
    phase = "reread" =>
        /\ \A p \in DOMAIN table \ {picked[i] : i \in DOMAIN picked} :
              LET better == {i \in DOMAIN picked : table[picked[i]].count >= table[p].count}
                  rivals == {i \in better : Bucket(picked[i]) = Bucket(p)}
              IN  \/ Cardinality(rivals) = PerBucket
                  \/ Len(picked) = MaxCodewords /\ better = DOMAIN picked
        /\ \A b \in {Bucket(picked[i]) : i \in DOMAIN picked} :
              Cardinality({i \in DOMAIN picked : Bucket(picked[i]) = b}) <= PerBucket
        /\ LET numbered == Sorted(picked)
           IN  \A i, j \in DOMAIN picked :
                  LET p == numbered[i] q == numbered[j]
                  IN  i < j => \/ Bucket(p) < Bucket(q)
                               \/ Bucket(p) = Bucket(q) /\ table[p].first <= table[q].first
=============================================================================
