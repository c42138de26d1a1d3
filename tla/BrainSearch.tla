----------------------------- MODULE BrainSearch -----------------------------
(* A pack that uses the brain a trainer writes: codebook.Open and Lookup of
   internal/codebook, the LSHSearcher and LinearSearcher of internal/search, and
   the --multi-pass option of Pack, which searches the whole input once and then
   keeps only the codewords it used most.

   The brain is mapped, not copied: a trainer that writes over it changes what an
   open reader sees, and a lookup past the end of the new file ends the process.
   A cell stands for a page.  An answer is remembered in a ring of CacheSize
   keys; two workers may compute, and store, the same one.  Tiers of several
   brains are not modelled. *)
EXTENDS Training

CONSTANTS
    Input,          \* the chunks of the file being packed
    HighEntropy,    \* chunks of more than 7.5 bits per byte
    TopLimit,       \* the 256 codewords --multi-pass keeps
    AlignedMin,     \* AlignedMinCodewordSize
    CacheSize,      \* lshCacheSize
    NoKey           \* a slot of the ring never used

ASSUME SearchAssumption ==
    /\ Input \in Seq(Seq(Nat)) /\ {TopLimit, CacheSize} \subseteq Nat \ {0} /\ AlignedMin \in Nat

VARIABLES
    pack,      \* "closed", "first", "search" or "dead"
    reader,    \* the open brain: its header and the index built from it
    seen,      \* chunks of Input the first pass has searched, or workers have taken
    freq,      \* how often the first pass used a codeword
    allowed,   \* the codewords left by Restrict, in the order linear tries them
    cache, ring, slot,
    find,      \* what each worker is doing with its chunk
    twice      \* history: stores of a key that was already in the cache

searchVars == <<pack, reader, seen, freq, allowed, cache, ring, slot, find, twice>>
vars == <<trainingVars, searchVars>>

Closed == [size |-> 0, count |-> 0, buckets |-> << >>, exact |-> << >>, stale |-> FALSE]
Ready == [chunk |-> << >>, pc |-> "ready", id |-> 0, dist |-> 0]
Ids(r) == 0..(r.count - 1)

SearchInit ==
    /\ pack = "closed" /\ reader = Closed /\ seen = 0 /\ freq = << >> /\ allowed = << >>
    /\ cache = << >> /\ ring = [i \in 1..CacheSize |-> NoKey] /\ slot = 1
    /\ find = [w \in Workers |-> Ready] /\ twice = 0

\* buildIndex: the bucket of every codeword, and the last ID of every word.
Index(f) ==
    LET word == [id \in 0..(f.count - 1) |-> WordAt(f, f.size, id)]
    IN  [size |-> f.size, count |-> f.count, stale |-> FALSE,
         buckets |-> [id \in DOMAIN word |-> Bucket(word[id])],
         exact |-> [p \in {word[id] : id \in DOMAIN word} |->
            CHOOSE id \in DOMAIN word :
                word[id] = p /\ \A j \in DOMAIN word : word[j] = p => j <= id]]

\* Open and NewLSHSearcher.  Until the trainer writes it does not touch the file.
OpenBrain ==
    /\ pack = "closed" /\ phase \in {"create", "header", "write", "done", "failed"}
    /\ Accepts(brain)
    /\ reader' = Index(brain)
    /\ allowed' = [i \in 1..brain.count |-> i - 1]
    /\ \E multi \in BOOLEAN : pack' = IF multi THEN "first" ELSE "search"
    /\ UNCHANGED <<seen, freq, cache, ring, slot, find, twice>>
-----------------------------------------------------------------------------
(* FindBestMatch. *)

Mapped(id) == (id + 1) * reader.size <= Len(brain.cells)
Word(id) == WordAt(brain, reader.size, id)

\* hammingDistance: missing cells count as different.
Distance(a, b) ==
    LET common == Smaller(Len(a), Len(b))
    IN  Cardinality({i \in 1..common : a[i] # b[i]}) + (Len(a) + Len(b) - 2 * common)

Allowed == {allowed[i] : i \in DOMAIN allowed}

\* The codewords the search compares: those of the chunk's bucket, by ID, or,
\* when there is none, all of them in the order of the linear search.
Candidates(c) ==
    LET same == {i \in 1..reader.count : reader.buckets[i - 1] = c[1] /\ i - 1 \in Allowed}
    IN  IF same = {} THEN allowed ELSE Only([i \in 1..reader.count |-> i - 1], same)

Worst(c) == [id |-> 0, dist |-> Len(c)]
Large(c) == reader.size >= AlignedMin /\ \A id \in Allowed : reader.buckets[id] # c[1]
NoScan(c) == c \in HighEntropy \/ Large(c)
Touched(c) == IF NoScan(c) THEN {0} ELSE {Candidates(c)[i] : i \in DOMAIN Candidates(c)}

\* The first of the nearest.
Nearest(c) ==
    LET s == Candidates(c)
        dist == [i \in DOMAIN s |-> Distance(c, Word(s[i]))]
        i == CHOOSE i \in DOMAIN s : /\ \A j \in DOMAIN s : dist[i] <= dist[j]
                                     /\ \A j \in 1..(i - 1) : dist[i] < dist[j]
    IN  [id |-> s[i], dist |-> dist[i]]

Found(c) == IF NoScan(c) THEN Worst(c) ELSE Nearest(c)

\* A mistake: the cache gives up a key once it is over the limit.
CacheStoreLate(c, a) ==
    LET full == Cardinality(DOMAIN cache) > CacheSize
        kept == IF full THEN DOMAIN cache \ {ring[slot]} ELSE DOMAIN cache
    IN  /\ cache' = [k \in kept \cup {c} |-> IF k = c THEN a ELSE cache[k]]
        /\ ring' = [ring EXCEPT ![slot] = c]
        /\ slot' = (slot % CacheSize) + 1
        /\ twice' = IF c \in DOMAIN cache THEN twice + 1 ELSE twice

\* cacheStore: a full cache gives up the key at the slot that is written next.
CacheStore(c, a) ==
    LET full == Cardinality(DOMAIN cache) >= CacheSize
        kept == IF full THEN DOMAIN cache \ {ring[slot]} ELSE DOMAIN cache
    IN  /\ cache' = [k \in kept \cup {c} |-> IF k = c THEN a ELSE cache[k]]
        /\ ring' = [ring EXCEPT ![slot] = c]
        /\ slot' = (slot % CacheSize) + 1
        /\ twice' = IF c \in DOMAIN cache THEN twice + 1 ELSE twice

Stored(c, a) ==
    IF Large(c) /\ c \notin HighEntropy THEN UNCHANGED <<cache, ring, slot, twice>>
    ELSE CacheStore(c, a)

\* SIGBUS: the search reads a codeword that is not in the file any more.
Bus ==
    /\ pack' = "dead"
    /\ UNCHANGED <<reader, seen, freq, allowed, cache, ring, slot, find, twice>>
-----------------------------------------------------------------------------
(* The first pass, sequential, and the restriction it ends in. *)

FirstPass ==
    LET c == Input[seen + 1]
        used(a) == freq' = With(freq, a.id, IF a.id \in DOMAIN freq THEN freq[a.id] + 1 ELSE 1)
    IN  /\ pack = "first" /\ seen < Len(Input)
        /\ \/ /\ c \in DOMAIN cache /\ used(cache[c])
              /\ seen' = seen + 1
              /\ UNCHANGED <<pack, reader, allowed, cache, ring, slot, find, twice>>
           \/ /\ c \notin DOMAIN cache /\ \A id \in Touched(c) : Mapped(id)
              /\ used(Found(c)) /\ Stored(c, Found(c))
              /\ seen' = seen + 1 /\ UNCHANGED <<pack, reader, allowed, find>>
           \/ /\ c \notin DOMAIN cache /\ \E id \in Touched(c) : ~Mapped(id)
              /\ Bus

\* The most used codewords, by decreasing use.
TopUsed ==
    LET n == Smaller(TopLimit, Cardinality(DOMAIN freq))
    IN  {s \in [1..n -> DOMAIN freq] :
            /\ \A i, j \in 1..n : i < j => s[i] # s[j] /\ freq[s[i]] >= freq[s[j]]
            /\ \A id \in DOMAIN freq : \/ \E i \in 1..n : s[i] = id
                                       \/ \A i \in 1..n : freq[s[i]] >= freq[id]}

\* A mistake: answers from before the restriction are kept.
RestrictToKeepsCache(s) ==
    /\ allowed' = s
    /\ UNCHANGED cache
    /\ reader' = [reader EXCEPT !.exact =
                    [p \in {q \in DOMAIN @ : \E i \in DOMAIN s : s[i] = @[q]} |-> @[p]]]

\* Restrict: it prunes the index and the exact map and empties the cache, not its ring.
RestrictTo(s) ==
    /\ allowed' = s
    /\ cache' = << >>
    /\ reader' = [reader EXCEPT !.exact =
                    [p \in {q \in DOMAIN @ : \E i \in DOMAIN s : s[i] = @[q]} |-> @[p]]]

EndFirstPass ==
    /\ pack = "first" /\ seen = Len(Input)
    /\ \E s \in TopUsed : RestrictTo(s)
    /\ pack' = "search" /\ seen' = 0 /\ freq' = << >>
    /\ UNCHANGED <<ring, slot, find, twice>>
-----------------------------------------------------------------------------
(* The workers of a block: exact words first, then the cache, then the search. *)

Exactly(c) == c \in DOMAIN reader.exact /\ Len(c) = reader.size

Find(w) ==
    LET c == Input[seen + 1]
        set(pc, a) == find' = [find EXCEPT ![w] = [chunk |-> c, pc |-> pc, id |-> a.id,
                                                    dist |-> a.dist]]
    IN  /\ pack = "search" /\ find[w].pc = "ready" /\ seen < Len(Input)
        /\ \/ /\ Exactly(c) /\ Mapped(reader.exact[c]) /\ Word(reader.exact[c]) = c
              /\ set("ready", [id |-> reader.exact[c], dist |-> 0]) /\ UNCHANGED pack
           \/ /\ Exactly(c) => Mapped(reader.exact[c]) /\ Word(reader.exact[c]) # c
              /\ \/ c \in DOMAIN cache /\ set("ready", cache[c]) /\ UNCHANGED pack
                 \/ /\ c \notin DOMAIN cache /\ \A id \in Touched(c) : Mapped(id)
                    /\ set("store", Found(c)) /\ UNCHANGED pack
                 \/ /\ c \notin DOMAIN cache /\ \E id \in Touched(c) : ~Mapped(id)
                    /\ pack' = "dead" /\ UNCHANGED find
           \/ /\ Exactly(c) /\ ~Mapped(reader.exact[c])
              /\ pack' = "dead" /\ UNCHANGED find
        /\ seen' = seen + 1
        /\ UNCHANGED <<reader, freq, allowed, cache, ring, slot, twice>>

Store(w) ==
    /\ pack = "search" /\ find[w].pc = "store"
    /\ Stored(find[w].chunk, [id |-> find[w].id, dist |-> find[w].dist])
    /\ find' = [find EXCEPT ![w].pc = "ready"]
    /\ UNCHANGED <<pack, reader, seen, freq, allowed>>
-----------------------------------------------------------------------------
Init == TrainingInit /\ SearchInit

\* The trainer's steps; a reader does not notice that its brain was rewritten.
Train ==
    /\ TrainingStep
    /\ reader' = [reader EXCEPT !.stale = @ \/ (pack # "closed" /\ brain' # brain)]
    /\ UNCHANGED <<pack, seen, freq, allowed, cache, ring, slot, find, twice>>

Search ==
    /\ \/ OpenBrain \/ FirstPass \/ EndFirstPass
       \/ \E w \in Workers : Find(w) \/ Store(w)
    /\ UNCHANGED trainingVars

Next == Train \/ Search
Spec == Init /\ [][Next]_vars
-----------------------------------------------------------------------------
(* Properties. *)

Entries == [count : Nat, first : Nat, data : BOOLEAN]

\* The types; the brain stays within MaxCodewords, and every ID the search knows is one
\* of the opened brain.
TypeOK ==
    /\ phase \in {"count", "augment", "merge", "pick", "reread", "create", "header", "write",
                  "done", "failed"}
    /\ next \in 1..(Len(corpus) + 1)
    /\ \A p \in DOMAIN table : table[p] \in Entries /\ Len(p) = ChunkSize
    /\ left \subseteq DOMAIN table
    /\ Len(picked) <= MaxCodewords /\ Len(selected) <= MaxCodewords
    /\ pack \in {"closed", "first", "search", "dead"}
    /\ seen \in 0..Len(Input) /\ slot \in 1..CacheSize
    /\ \A id \in DOMAIN freq \cup Allowed : id \in Ids(reader)
    /\ \A c \in DOMAIN cache : cache[c].id \in Ids(reader)

\* Patterns of one size, which the header can say.
Uniform(ps) == \A i, j \in DOMAIN ps : Len(ps[i]) = Len(ps[j]) /\ Len(ps[i]) < SizeField

\* A brain that Open accepts holds, under each ID, the pattern the trainer put
\* there: a brain cut short by a failed or running WriteCodebook is refused.  This
\* holds for uniform patterns only: of a chunk size that the header truncates, or of
\* a base of smaller words, Open accepts brains that it reads wrongly.
OpenedIsWhole ==
    (pack # "closed" /\ ~reader.stale /\ Uniform(intended)) =>
        /\ reader.count = Len(intended)
        /\ \A id \in Ids(reader) : Mapped(id) /\ Word(id) = intended[id + 1]

\* An answer is the nearest of the codewords that may be used, in the chunk's
\* bucket if it has any: also when it comes from the cache, and after --multi-pass
\* has restricted the brain.  Chunks that are not searched get the worst distance.
AnswersAreNearest ==
    (pack = "search" /\ ~reader.stale) =>
        \A w \in Workers :
            LET f == find[w] c == f.chunk
                same == {id \in Allowed : reader.buckets[id] = c[1]}
                pool == IF same = {} THEN Allowed ELSE same
            IN  c # << >> =>
                  \/ f.id = 0 /\ f.dist = Len(c) /\ (c \in HighEntropy \/ reader.size >= AlignedMin)
                  \/ /\ f.id \in Allowed /\ f.dist = Distance(c, Word(f.id))
                     /\ \A id \in pool : f.dist <= Distance(c, Word(id))

\* A lookup past the end of the mapped brain ends a pack only if a trainer wrote to
\* the brain after it was opened: what Open accepted, whatever the sizes and wherever
\* a writer had failed, has room for every ID the search may ask for.
DiesOnlyIfRewritten == pack = "dead" => reader.stale

\* The cache of answers holds no more than its limit, but for the keys that two
\* workers stored at the same time: each may leave one entry that is never evicted.
CacheNearLimit == Cardinality(DOMAIN cache) <= CacheSize + twice
=============================================================================
