------------------------------- MODULE Codec -------------------------------
(* From bytes to a .crom in memory and back: PackBytes and UnpackBytes of
   pkg/cromlib, with every chunker (internal/chunker, internal/semantic, the
   AlignedChunker of internal/search), the residuals of internal/delta (XOR and
   the edit scripts of patch.go), the polynomials of internal/fractal and the
   chunk table.  PackBytes cuts in fixed or aligned chunks and writes exact, XOR
   and literal entries; Pack, whose workers Archive models, may use the other
   chunkers and entries, which UnpackBytes reads too.

   A byte is one of four cells; a rolling hash says where to cut from the cells
   of its window alone; what similarity and entropy decide is a choice; zstd and
   the brain's dictionary give back what they are given. *)
EXTENDS ChunkTable

CONSTANTS
    Inputs,             \* what is packed
    Words,              \* the codewords, all of one size; IDs start at 0
    BlockSize,          \* format.BlockSize
    MinSize, MaxSize,   \* the limits of the chunkers that look at the content
    Delimiters,         \* '}' and ',' of JSON, '\n' of lines
    Window,             \* CDCWindowSize, or the bits of the gear hash's mask
    Boundaries,         \* windows after which the hash cuts
    RunLimit,           \* 255: the longest run of an edit script
    PatchFlag,          \* FlagIsPatch
    AnyEntries,         \* entries other writers put in a table
    MaxEntries,
    Wrong               \* what no byte is

VARIABLES
    pc,        \* "table", "block", "encode" or "packed"
    chunker, edge,  \* options of the pack
    input, at, \* the input and the start of the block
    todo,      \* chunks of the block not encoded
    entries, pool, blocks, offset

vars == <<pc, chunker, edge, input, at, todo, entries, pool, blocks, offset>>

Lesser(a, b) == IF a <= b THEN a ELSE b
Least(S) == CHOOSE x \in S : \A y \in S : x <= y
WordSize == Len(Words[1])
Slice(s, from, to) == SubSeq(s, from + 1, to)   \* s[from:to]
-----------------------------------------------------------------------------
(* Chunkers: where the chunk that starts at a position ends. *)

Chunkers == {"fixed", "aligned", "cdc", "fastcdc", "semantic", "contextual"}

FixedEnd(data, start) == Lesser(start + WordSize, Len(data))

\* AlignedChunker: codewords wherever they are, what is between them in pieces.
AlignedEnd(data, start) ==
    LET found == {p \in start..(Len(data) - WordSize) :
                    \E i \in DOMAIN Words : Words[i] = Slice(data, p, p + WordSize)}
        literalEnd == IF found = {} THEN Len(data) ELSE Least(found)
    IN  IF start \in found THEN start + WordSize ELSE Lesser(start + WordSize, literalEnd)

\* CDCChunker: at MaxSize, or where a whole window of the chunk says so.
CDCEnd(data, start) ==
    LET cut == {e \in (start + 1)..Len(data) :
                  \/ e - start = MaxSize
                  \/ /\ e - 1 - start >= MinSize /\ e - 1 >= start + Window
                     /\ Slice(data, e - Window, e) \in Boundaries}
    IN  IF cut = {} THEN Len(data) ELSE Least(cut)

\* FastCDCChunker: the gear hash sees at most the last Window cells of the chunk.
FastCDCEnd(data, start) ==
    LET seen(e) == Slice(data, IF e - Window < start THEN start ELSE e - Window, e)
        cut == {e \in (start + 1)..Len(data) :
                  /\ e - start >= MinSize
                  /\ e - start >= MaxSize \/ seen(e) \in Boundaries}
    IN  IF cut = {} THEN Len(data) ELSE Least(cut)

\* SemanticChunker: after a delimiter, or at MaxSize.
SemanticEnd(data, start) ==
    LET end == Lesser(start + MaxSize, Len(data))
        cut == {e \in (start + 1)..end : data[e] \in Delimiters}
    IN  IF cut = {} THEN end ELSE Least(cut)

\* ContextualChunker: after a delimiter past MinSize, or at MaxSize.
ContextualEnd(data, start) ==
    LET end == Lesser(start + MaxSize, Len(data))
        cut == {e \in (start + MinSize + 1)..end : data[e] \in Delimiters}
    IN  IF start + MinSize >= Len(data) THEN Len(data)
        ELSE IF cut = {} THEN end ELSE Least(cut)

ChunkEnd(kind, data, start) ==
    CASE kind = "fixed" -> FixedEnd(data, start)
      [] kind = "aligned" -> AlignedEnd(data, start)
      [] kind = "cdc" -> CDCEnd(data, start)
      [] kind = "fastcdc" -> FastCDCEnd(data, start)
      [] kind = "semantic" -> SemanticEnd(data, start)
      [] kind = "contextual" -> ContextualEnd(data, start)

Split(kind, data) ==
    LET from[start \in 0..Len(data)] ==
            IF start = Len(data) THEN << >>
            ELSE LET end == ChunkEnd(kind, data, start)
                 IN  <<Slice(data, start, end)>> \o from[end]
    IN  from[0]
-----------------------------------------------------------------------------
(* Residuals. *)

Xor(a, b) == 2 * ((a \div 2 + b \div 2) % 2) + ((a + b) % 2)

\* delta.XOR and delta.Apply: past the pattern the bytes are kept; an empty delta
\* is the pattern itself.
XorWith(pattern, s) ==
    [i \in DOMAIN s |-> IF i <= Len(pattern) THEN Xor(s[i], pattern[i]) ELSE s[i]]
Apply(pattern, delta) == IF delta = << >> THEN pattern ELSE XorWith(pattern, delta)

\* delta.Diff: the cost table and the edits its backtracking finds.
Equal == 0
Insert == 1
Delete == 2

Costs(original, pattern) ==
    LET dp[p \in (0..Len(original)) \X (0..Len(pattern))] ==
            LET i == p[1] j == p[2]
            IN  IF i = 0 THEN j ELSE IF j = 0 THEN i
                ELSE IF original[i] = pattern[j] THEN dp[<<i - 1, j - 1>>]
                ELSE LET m == Lesser(dp[<<i - 1, j>>] + 1, dp[<<i, j - 1>>] + 1)
                     IN  IF dp[<<i - 1, j - 1>>] + 1 < m THEN dp[<<i - 1, j - 1>>] + 2 ELSE m
    IN  dp

Edits(original, pattern) ==
    LET dp == Costs(original, pattern)
        edits[p \in (0..Len(original)) \X (0..Len(pattern))] ==
            LET i == p[1] j == p[2]
            IN  IF i = 0 /\ j = 0 THEN << >>
                ELSE IF i > 0 /\ j > 0 /\ original[i] = pattern[j]
                     THEN Append(edits[<<i - 1, j - 1>>], <<Equal>>)
                ELSE IF i > 0 /\ j > 0 /\ dp[p] = dp[<<i - 1, j - 1>>] + 2
                     THEN edits[<<i - 1, j - 1>>] \o <<<<Insert, original[i]>>, <<Delete>>>>
                ELSE IF i > 0 /\ (j = 0 \/ dp[p] = dp[<<i - 1, j>>] + 1)
                     THEN Append(edits[<<i - 1, j>>], <<Insert, original[i]>>)
                ELSE Append(edits[<<i, j - 1>>], <<Delete>>)
    IN  edits[<<Len(original), Len(pattern)>>]

\* A mistake: a run one longer than a byte can count.
FitsTooMany(run, op) == run # << >> /\ run[1] = op /\ run[2] <= RunLimit

\* An edit joins the run before it if it is of its kind and the run is not full.
Fits(run, op) == run # << >> /\ run[1] = op /\ run[2] < RunLimit

\* Run-length encoding: kind, length as a byte, and the inserted bytes.
Diff(original, pattern) ==
    LET edits == Edits(original, pattern)
        upto[n \in 0..Len(edits)] ==
            IF n = 0 THEN [done |-> << >>, run |-> << >>]
            ELSE LET k == upto[n - 1] e == edits[n]
                 IN  IF Fits(k.run, e[1])
                     THEN [k EXCEPT !.run = [@ EXCEPT ![2] = @ + 1] \o Tail(e)]
                     ELSE [done |-> IF k.run = << >> THEN k.done
                                    ELSE k.done \o [k.run EXCEPT ![2] = @ % (RunLimit + 1)],
                           run |-> <<e[1], 1>> \o Tail(e)]
        last == upto[Len(edits)]
    IN  IF last.run = << >> THEN << >>
        ELSE last.done \o [last.run EXCEPT ![2] = @ % (RunLimit + 1)]

\* ApplyPatch; Wrong where it fails or would read past the script.
ApplyPatch(pattern, script) ==
    LET rest[p \in (1..(Len(script) + 1)) \X (0..(RunLimit * Len(script)))] ==
            LET s == p[1] at0 == p[2]
                op == script[s] n == script[s + 1]
            IN  IF s > Len(script) THEN << >>
                ELSE IF s = Len(script) \/ op \notin {Equal, Insert, Delete} THEN <<Wrong>>
                ELSE IF op = Equal
                     THEN IF at0 + n > Len(pattern) THEN <<Wrong>>
                          ELSE Slice(pattern, at0, at0 + n) \o rest[<<s + 2, at0 + n>>]
                ELSE IF op = Insert
                     THEN IF s + 1 + n > Len(script) THEN <<Wrong>>
                          ELSE Slice(script, s + 1, s + 1 + n) \o rest[<<s + 2 + n, at0>>]
                ELSE rest[<<s + 2, at0 + n>>]
    IN  rest[<<1, 0>>]

\* GeneratePolynomial: a x^2 + b x + c, from a seed of three bytes.
Generate(seed, length) ==
    LET a == seed % 4 b == (seed \div 4) % 4 c == (seed \div 16) % 4
    IN  [i \in 1..length |-> (a * (i - 1) * (i - 1) + b * (i - 1) + c) % 4]

\* FindPolynomial: c from the first byte, b from the second, the least a that fits.
Seeds(s) ==
    {a + 4 * ((s[2] - s[1] - a) % 4) + 16 * s[1] : a \in IF Len(s) = 1 THEN {} ELSE 0..3}
        \cup (IF Len(s) = 1 THEN {16 * s[1]} ELSE {})
Fractals(s) == {x \in Seeds(s) : Generate(x, Len(s)) = s}
FindPolynomial(s) == CHOOSE x \in Fractals(s) : \A y \in Fractals(s) : x % 4 <= y % 4
-----------------------------------------------------------------------------
(* Entries. *)

FractalIndex == 254
LiteralIndex == 255

Usable(id, n) == Slice(Words[id + 1], 0, Lesser(WordSize, n))
Exact(c) == {i - 1 : i \in {j \in DOMAIN Words : Words[j] = c}}

Coded(id, index, res) == [id |-> id, index |-> index, res |-> res]

\* What a chunk may become.  An exact word is found first; a match is any codeword,
\* near enough or not; edge keeps no residual.
Codings(c) ==
    IF Exact(c) # {}
    THEN {Coded(CHOOSE id \in Exact(c) : \A j \in Exact(c) : j <= id, 0, << >>)}
    ELSE (IF Fractals(c) = {} THEN {} ELSE {Coded(FindPolynomial(c), FractalIndex, << >>)})
         \cup (IF edge THEN {} ELSE {Coded(Literal, LiteralIndex, c), Coded(Literal, 0, c)})
         \cup UNION {
            LET p == Usable(id, Len(c))
            IN  IF edge \/ p = c THEN {Coded(id, 0, << >>)}
                ELSE {Coded(id, 0, XorWith(p, c)), Coded(id + PatchFlag, 0, Diff(c, p))}
            : id \in 0..(Len(Words) - 1)}

\* reconstructChunk.
Reconstruct(e, res) ==
    LET clean == e.id % PatchFlag
        p == Usable(clean, e.size)
    IN  IF e.id = Literal THEN res
        ELSE IF e.index = FractalIndex THEN Generate(e.id, e.size)
        ELSE IF clean >= Len(Words) THEN <<Wrong>>
        ELSE IF (e.id \div PatchFlag) % 2 = 1 THEN ApplyPatch(p, res)
        ELSE Apply(p, SubSeq(res, 1, Lesser(Len(res), e.size)))
-----------------------------------------------------------------------------
Init ==
    /\ \/ pc = "block" /\ input \in Inputs /\ chunker \in Chunkers /\ edge \in BOOLEAN
       \/ pc = "table" /\ input = << >> /\ chunker = "fixed" /\ edge = FALSE
    /\ at = 0 /\ todo = << >> /\ entries = << >> /\ pool = << >> /\ blocks = << >>
    /\ offset = 0

\* A table of another writer: several brains, streams, other blocks.
AddEntry ==
    /\ pc = "table" /\ Len(entries) < MaxEntries
    /\ \E e \in AnyEntries : entries' = Append(entries, e)
    /\ UNCHANGED <<pc, chunker, edge, input, at, todo, pool, blocks, offset>>

SplitBlock ==
    /\ pc = "block" /\ at < Len(input)
    /\ todo' = Split(chunker, Slice(input, at, Lesser(at + BlockSize, Len(input))))
    /\ at' = Lesser(at + BlockSize, Len(input))
    /\ pool' = << >> /\ pc' = "encode"
    /\ UNCHANGED <<chunker, edge, input, entries, blocks, offset>>

EncodeChunk ==
    /\ pc = "encode" /\ todo # << >>
    /\ \E k \in Codings(Head(todo)) :
          /\ entries' = Append(entries, [id |-> k.id, offset |-> offset, dsize |-> Len(k.res),
                                         size |-> Len(Head(todo)), index |-> k.index])
          /\ pool' = pool \o k.res
          /\ offset' = offset + Len(k.res)
    /\ todo' = Tail(todo)
    /\ UNCHANGED <<pc, chunker, edge, input, at, blocks>>

EndBlock ==
    /\ pc = "encode" /\ todo = << >>
    /\ blocks' = Append(blocks, pool)
    /\ pc' = IF at < Len(input) THEN "block" ELSE "packed"
    /\ UNCHANGED <<chunker, edge, input, at, todo, entries, pool, offset>>
-----------------------------------------------------------------------------
(* UnpackBytes. *)

\* NumBlocks: the blocks a reader expects from the header.
NumBlocks == (Len(input) + BlockSize - 1) \div BlockSize

\* BlockStarts: the first entry of every block, from the sizes of the chunks.
BlockStarts(es) ==
    LET filled[n \in 0..Len(es)] ==
            IF n = 0 THEN 0
            ELSE LET k == filled[n - 1] + es[n].size IN IF k >= BlockSize THEN 0 ELSE k
    IN  SelectSeq([i \in DOMAIN es |-> i], LAMBDA i : filled[i - 1] = 0)

\* BlockRange: the last entry of block i.
BlockLast(starts, i, es) == IF i < Len(starts) THEN starts[i + 1] - 1 ELSE Len(es)

\* The offset at which block i of the pool begins.
BlockOffset(i) ==
    LET upto[n \in 0..Len(blocks)] == IF n = 0 THEN 0 ELSE upto[n - 1] + Len(blocks[n])
    IN  upto[i - 1]

\* The chunks of block i; Wrong where an entry reaches outside it.
UnpackBlock(es, starts, i) ==
    LET first == starts[i]
        upto[n \in (first - 1)..BlockLast(starts, i, es)] ==
            IF n = first - 1 THEN << >>
            ELSE LET from == es[n].offset - BlockOffset(i)
                     to == from + es[n].dsize
                 IN  upto[n - 1] \o
                     (IF from < 0 \/ to > Len(blocks[i]) THEN <<Wrong>>
                      ELSE Reconstruct(es[n], Slice(blocks[i], from, to)))
    IN  upto[BlockLast(starts, i, es)]

\* The SHA-256 of the result is compared, but not for a lossy file.
Integrity(out) == edge \/ out = input

\* UnpackBytes of what is packed: the result, and whether it returns one.
UnpackBytes ==
    LET table == DecodeTableColumns(EncodeTableColumns(entries), Len(entries))
        starts == BlockStarts(table.entries)
        upto[i \in 0..Len(blocks)] ==
            IF i = 0 THEN << >> ELSE upto[i - 1] \o UnpackBlock(table.entries, starts, i)
        result == upto[Len(blocks)]
    IN  IF ~table.ok \/ Len(blocks) # NumBlocks \/ Len(starts) # Len(blocks)
        THEN [ok |-> FALSE, out |-> << >>]
        ELSE [ok |-> (\A i \in DOMAIN result : result[i] # Wrong) /\ Integrity(result),
              out |-> result]

Next == AddEntry \/ SplitBlock \/ EncodeChunk \/ EndBlock
Spec == Init /\ [][Next]_vars
-----------------------------------------------------------------------------
(* Properties. *)

\* Reading a chunk table gives the entries that were written, in the compressed
\* layout for IDs below 2^63 - 1 (from there on a difference may read as the mark of
\* a literal), whatever the offsets do; and in the fixed layout, but for the index
\* before version 7.
TableRoundTrips ==
    /\ DecodeTableColumns(EncodeTableColumns(entries), Len(entries)) =
          [ok |-> TRUE, entries |-> entries]
    /\ ParseChunkTable(SerializeChunkTable(entries, TRUE), Len(entries), TRUE) =
          [ok |-> TRUE, entries |-> entries]
    /\ ParseChunkTable(SerializeChunkTable(entries, FALSE), Len(entries), FALSE) =
          [ok |-> TRUE, entries |-> [i \in DOMAIN entries |-> [entries[i] EXCEPT !.index = 0]]]

\* UnpackBytes (unpack_bytes.go:25) returns, and returns what was packed, for every
\* chunker, whatever the search matched and however each chunk was coded; in edge
\* mode, which keeps no residuals, at least every entry can be read.
RestoresInput ==
    pc = "packed" => /\ UnpackBytes.ok
                     /\ ~edge => UnpackBytes.out = input
=============================================================================
