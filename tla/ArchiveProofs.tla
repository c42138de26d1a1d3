---------------------------- MODULE ArchiveProofs ----------------------------
(***************************************************************************)
(* What Pack installs, Unpack restores: for any inputs, routes, number of  *)
(* workers and block size, with blocks that go bad and inputs that change  *)
(* meanwhile.                                                              *)
(***************************************************************************)
EXTENDS Archive, FiniteSetTheorems, SequenceTheorems, RecursionTheorems, TLAPS

B == BlockChunks

Block == [cells : Seq(Cells), ok : BOOLEAN]
Made == [entries : Seq(Entries), blocks : Seq(Block), offset : Nat, hash : Seq(Chunks)]
CromFile == [size : Nat, hash : Seq(Chunks), pass : BOOLEAN, raw : Seq(Chunks),
             entries : Seq(Entries), blocks : Seq(Block), opts : Options,
             of : Seq(Chunks), steady : BOOLEAN]
Failed == [kind |-> "error"]

\* The types, with every file a record: the half that Pack changes.
PackShape ==
    /\ input \in Seq(Chunks) /\ start \in Seq(Chunks) /\ block \in Seq(Chunks)
    /\ output = NoFile \/ output \in CromFile
    /\ tmp \in {NoFile, Partial} \/ tmp \in CromFile
    /\ pc \in {"idle", "copy", "read", "work", "finish", "smart", "rename",
               "done", "failed", "crashed"}
    /\ size \in Nat /\ pos \in Nat /\ made \in Made /\ touched \in BOOLEAN
    /\ jobs \in Seq(Nat) /\ work \in [Workers -> Nat]
    /\ DOMAIN results \subseteq 1..Len(block)

\* The half that Unpack changes.
UnpackShape ==
    /\ src = NoFile \/ src \in CromFile
    /\ upc \in {"idle", "copy", "blocks", "check", "done", "failed", "ioFailed"}
    /\ skipped \in Nat /\ cur \in [block : Nat, entry : Nat, offset : Nat]
    /\ out \in Seq(Chunks \cup {Zero, Wrong})
    /\ restored = NoFile \/ restored \in Seq(Chunks \cup {Zero, Wrong})
    /\ strict \in BOOLEAN /\ sameBrain \in BOOLEAN

\* Pack runs with options of a caller, on a file it knows the size of.
Running ==
    /\ pc # "idle" => opts \in Options /\ size = Len(start)
    /\ pc \in {"read", "work", "finish", "smart"} => Len(start) > 0
    /\ ~touched /\ pc \notin {"idle", "done", "failed", "crashed"} => input = start
    /\ pc = "rename" => tmp \in CromFile

\* No chunk of the block is lost between the channel, the workers and the results.
Workload ==
    /\ pc = "read" => \A w \in Workers : work[w] = 0
    /\ pc = "work" =>
          /\ \A j \in 1..Len(jobs) : jobs[j] \in 1..Len(block)
          /\ \A w \in Workers : work[w] \in 0..Len(block)
          /\ \A i \in 1..Len(block) :
                \/ \E j \in 1..Len(jobs) : jobs[j] = i
                \/ \E w \in Workers : work[w] = i
                \/ i \in DOMAIN results
          /\ \A i \in DOMAIN results :
                results[i] \in {Process(opts, block[i]), Failed}

\* The entry of chunk i, and its residual at its place in block b.
Placed(entries, blocks, o, data, b, i) ==
    LET base == entries[(b - 1) * B + 1].offset
        from == entries[i].offset - base
        p == Process(o, data[i])
    IN  /\ entries[i].kind = p.kind /\ entries[i].id = p.id
        /\ entries[i].size = Len(p.res)
        /\ base <= entries[i].offset
        /\ from + entries[i].size <= Len(blocks[b].cells)
        /\ SubSeq(blocks[b].cells, from + 1, from + entries[i].size) = p.res

\* The residuals of data lie in blocks of B chunks, one block after the other.
Laid(entries, blocks, o, data) ==
    /\ Len(entries) = Len(data)
    /\ Len(data) <= Len(blocks) * B
    /\ Len(data) > 0 => entries[1].offset = 0
    /\ \A b \in 1..Len(blocks) : (b - 1) * B < Len(data)
    /\ \A b \in 1..Len(blocks), i \in 1..Len(data) :
          (b - 1) * B < i /\ i <= b * B => Placed(entries, blocks, o, data, b, i)
    /\ \A b \in 1..Len(blocks) :
          b * B < Len(data) =>
             entries[b * B + 1].offset = entries[(b - 1) * B + 1].offset + Len(blocks[b].cells)

\* The next residual goes where the last block ends.
EndsAt(m) ==
    IF m.blocks = << >> THEN m.offset = 0
    ELSE m.offset = m.entries[(Len(m.blocks) - 1) * B + 1].offset
                       + Len(m.blocks[Len(m.blocks)].cells)

\* What has been packed of an input that stays as it was.
Packed ==
    ~touched =>
      /\ pc \in {"read", "work", "finish"} =>
            pos <= Len(start) /\ made.hash = SubSeq(start, 1, pos) /\ EndsAt(made)
      /\ pc \in {"read", "finish"} =>
            /\ Laid(made.entries, made.blocks, opts, SubSeq(start, 1, pos))
            /\ pos = Len(start) \/ pos = Len(made.blocks) * B
      /\ pc = "finish" => pos = Len(start)
      /\ pc = "work" =>
            /\ pos - Len(block) = Len(made.blocks) * B
            /\ 1 <= Len(block) /\ Len(block) <= B
            /\ pos = Len(start) \/ Len(block) = B
            /\ block = SubSeq(start, pos - Len(block) + 1, pos)
            /\ Laid(made.entries, made.blocks, opts, SubSeq(start, 1, pos - Len(block)))

\* A .crom of an input that stayed as it was holds all of it.
Sound(f) ==
    f.steady /\ ~f.pass =>
      /\ f.hash = f.of /\ f.size = Len(f.of) /\ f.size > 0
      /\ Laid(f.entries, f.blocks, f.opts, f.of)

Installed ==
    /\ output # NoFile => Sound(output)
    /\ pc = "rename" => Sound(tmp)

\* Unpack works on such a file.
Opened == upc # "idle" => src \in CromFile /\ Sound(src)

\* Chunk i came back.
Right(f, i, c) == c = f.of[i] \/ (Lossy(f) /\ c = PatternOf[f.of[i]])

\* The brain that packed the file, if one was used.
Known == sameBrain \/ ~src.opts.brain

\* What Unpack has written up to an entry.
Restored(data) ==
    src.steady /\ Known =>
       \A b \in 1..Len(src.blocks), i \in 1..Len(data) :
          (b - 1) * B < i /\ i <= b * B /\ src.blocks[b].ok => Right(src, i, data[i])

Walking ==
    /\ upc = "copy" => src.pass
    /\ upc = "blocks" =>
          /\ ~src.pass /\ TablesAgree(src)
          /\ cur.block \in 1..(Len(src.blocks) + 1)
          /\ cur.entry = Min((cur.block - 1) * B, Len(src.entries)) + 1
          /\ Len(out) = cur.entry - 1
          /\ src.steady /\ cur.block <= Len(src.blocks) =>
                cur.offset = src.entries[cur.entry].offset
          /\ Restored(out)
    /\ upc \in {"check", "done"} =>
          IF src.pass THEN out = src.raw
          ELSE Len(out) = Len(src.entries) /\ Restored(out)
    /\ upc = "done" => restored = out /\ HashAccepts

PInv == PackShape /\ Running /\ Workload /\ Packed /\ Installed
UInv == UnpackShape /\ Opened /\ Walking /\ UnpackFailsForCause
IInv == PInv /\ UInv
-----------------------------------------------------------------------------
(* The arithmetic of blocks. *)

\* Multiples of the block size.
LEMMA Products ==
    /\ B \in Nat /\ B >= 1
    /\ \A k \in Nat : k * B \in Nat /\ (k - 1) * B = k * B - B /\ (k + 1) * B = k * B + B
    /\ \A j, k \in Nat : j <= k => j * B <= k * B
    /\ \A j, k \in Nat : j < k => j * B + B <= k * B
<1>1. B \in Nat /\ B >= 1
  BY SizesAssumption DEF B
<1>2. \A k \in Nat : k * B \in Nat /\ (k - 1) * B = k * B - B /\ (k + 1) * B = k * B + B
  BY <1>1
<1>3. ASSUME NEW j \in Nat, NEW k \in Nat, j <= k
      PROVE  j * B <= k * B
  <2>1. k - j \in Nat /\ (k - j) * B \in Nat
    BY <1>1, <1>3
  <2>2. k * B = j * B + (k - j) * B
    BY <1>1
  <2>. QED
    BY <1>2, <2>1, <2>2
<1>4. ASSUME NEW j \in Nat, NEW k \in Nat, j < k
      PROVE  j * B + B <= k * B
  <2>1. j + 1 \in Nat /\ j + 1 <= k
    BY <1>4
  <2>2. (j + 1) * B <= k * B
    BY <1>3, <2>1
  <2>. QED
    BY <1>2, <2>2
<1>. QED
  BY <1>1, <1>2, <1>3, <1>4

\* The places of one of k full blocks.
LEMMA InBlocks ==
    ASSUME NEW k \in Nat, NEW b \in 1..k
    PROVE  /\ b * B \in 1..(k * B) /\ (b - 1) * B \in Nat /\ (b - 1) * B + 1 \in 1..(k * B)
           /\ (b - 1) * B + 1 <= b * B
           /\ \A i \in Nat : (b - 1) * B < i /\ i <= b * B => i \in 1..(k * B)
           /\ b # k => b * B + 1 \in 1..(k * B) /\ b * B < k * B
<1>1. b \in Nat /\ b <= k /\ b - 1 \in Nat /\ (b # k => b < k)
  OBVIOUS
<1> DEFINE q == b * B
           p == (b - 1) * B
           r == k * B
<1>2. q \in Nat /\ p \in Nat /\ r \in Nat /\ p = q - B /\ q <= r /\ (b # k => q + B <= r)
      /\ B \in Nat /\ B >= 1
  BY <1>1, Products
<1> HIDE DEF q, p, r
<1>3. /\ q \in 1..r /\ p \in Nat /\ p + 1 \in 1..r /\ p + 1 <= q
      /\ \A i \in Nat : p < i /\ i <= q => i \in 1..r
      /\ b # k => q + 1 \in 1..r /\ q < r
  BY <1>2
<1>. QED
  BY <1>3 DEF q, p, r

\* The places behind k full blocks, up to one more block.
LEMMA BehindBlocks ==
    ASSUME NEW k \in Nat, NEW m \in Nat, m <= B
    PROVE  /\ k * B + m <= (k + 1) * B
           /\ \A i \in Nat : k * B < i /\ i <= k * B + m
                 => i - k * B \in 1..m /\ i = k * B + (i - k * B)
<1> DEFINE r == k * B
<1>1. r \in Nat /\ (k + 1) * B = r + B /\ B \in Nat
  BY Products
<1> HIDE DEF r
<1>2. /\ r + m <= (k + 1) * B
      /\ \A i \in Nat : r < i /\ i <= r + m => i - r \in 1..m /\ i = r + (i - r)
  BY <1>1
<1>. QED
  BY <1>2 DEF r

\* Which block a place lies in is determined.
LEMMA SameBlock ==
    ASSUME NEW i \in Nat, NEW b \in Nat, NEW c \in Nat,
           b * B - B < i, i <= b * B, c * B - B < i, i <= c * B
    PROVE  b = c
<1>1. ~(b < c) /\ ~(c < b)
  BY Products
<1>. QED
  BY <1>1

\* The quotient of the index is the block.
LEMMA BlockOfIndex ==
    ASSUME NEW n \in Nat
    PROVE  /\ n \div B \in Nat
           /\ (n \div B) * B <= n /\ n < (n \div B) * B + B
<1>1. B \in Nat \ {0}
  BY Products
<1>2. n \div B \in Nat
  BY <1>1
<1>3. n = B * (n \div B) + (n % B) /\ 0 <= n % B /\ n % B < B
  BY <1>1
<1>. QED
  BY <1>1, <1>2, <1>3

\* Rounding up counts the blocks.
LEMMA RoundedUp ==
    ASSUME NEW n \in Nat, n > 0
    PROVE  /\ (n + BlockChunks - 1) \div BlockChunks \in Nat
           /\ ((n + BlockChunks - 1) \div BlockChunks) * B - B < n
           /\ n <= ((n + BlockChunks - 1) \div BlockChunks) * B
           /\ \A k \in Nat : k * B - B < n /\ n <= k * B
                 => (n + BlockChunks - 1) \div BlockChunks = k
<1>1. n + B - 1 \in Nat
  BY Products
<1> DEFINE q == (n + B - 1) \div B
<1>2. q \in Nat /\ q * B <= n + B - 1 /\ n + B - 1 < q * B + B
  BY <1>1, BlockOfIndex
<1>3. q * B - B < n /\ n <= q * B
  BY <1>2, Products
<1> HIDE DEF q
<1>4. \A k \in Nat : k * B - B < n /\ n <= k * B => q = k
  BY <1>2, <1>3, SameBlock
<1>. QED
  BY <1>2, <1>3, <1>4 DEF q, B
-----------------------------------------------------------------------------
(* Encoding and rebuilding one chunk. *)

\* A residual is not empty and determines its chunk.
LEMMA ResidualTypes ==
    ASSUME NEW c \in Chunks
    PROVE  /\ Whole(c) \in Seq(Cells) /\ Short(c) \in Seq(Cells)
           /\ Whole(c) # << >> /\ Short(c) # << >>
           /\ \A d \in Chunks : (Whole(d) = Whole(c) => d = c) /\ (Short(d) = Short(c) => d = c)
<1>1. <<c, 1>> \in Cells /\ <<c, 2>> \in Cells
  BY DEF Cells
<1>2. Whole(c) \in Seq(Cells) /\ Len(Whole(c)) = 2 /\ Short(c) \in Seq(Cells) /\ Len(Short(c)) = 1
  BY <1>1 DEF Whole, Short
<1>3. \A d \in Chunks : Whole(d)[1] = <<d, 1>> /\ Short(d)[1] = <<d, 1>>
  BY DEF Whole, Short
<1>4. \A d \in Chunks : <<d, 1>> = <<c, 1>> => d = c
  OBVIOUS
<1>. QED
  BY <1>2, <1>3, <1>4

\* What a worker makes of a chunk, by cases.
LEMMA ProcessCases ==
    ASSUME NEW o \in Options, NEW c \in Chunks
    PROVE  \/ Process(o, c) = [kind |-> "literal", id |-> Wrong, res |-> Whole(c)]
           \/ /\ o.brain /\ Route[c] = "exact"
              /\ Process(o, c) = [kind |-> "xor", id |-> c, res |-> << >>]
           \/ Process(o, c) = [kind |-> "fractal", id |-> c, res |-> << >>] /\ o.brain
           \/ /\ o.brain /\ o.edge
              /\ Process(o, c) = [kind |-> "xor", id |-> PatternOf[c], res |-> << >>]
           \/ /\ o.brain
              /\ Process(o, c) = [kind |-> "patch", id |-> PatternOf[c], res |-> Short(c)]
           \/ /\ o.brain
              /\ Process(o, c) = [kind |-> "xor", id |-> PatternOf[c], res |-> Whole(c)]
<1>1. Route[c] \in Routes /\ o.brain \in BOOLEAN /\ o.edge \in BOOLEAN
  BY CodecAssumption
<1>2. CASE ~o.brain
  BY <1>2 DEF Process
<1>3. CASE o.brain /\ Route[c] = "exact"
  BY <1>3 DEF Process
<1>4. CASE o.brain /\ Route[c] = "fractal"
  BY <1>4 DEF Process
<1>5. CASE o.brain /\ Route[c] \notin {"exact", "fractal"} /\ o.edge
  BY <1>5 DEF Process
<1>6. CASE o.brain /\ Route[c] = "literal" /\ ~o.edge
  BY <1>6 DEF Process
<1>7. CASE o.brain /\ Route[c] = "patch" /\ ~o.edge
  BY <1>7 DEF Process
<1>8. CASE o.brain /\ Route[c] = "xor" /\ ~o.edge
  BY <1>8 DEF Process
<1>. QED
  BY <1>1, <1>2, <1>3, <1>4, <1>5, <1>6, <1>7, <1>8 DEF Routes

\* The types of an entry and a residual; only a brain makes a patch or an XOR.
LEMMA ProcessType ==
    ASSUME NEW o \in Options, NEW c \in Chunks
    PROVE  /\ Process(o, c).kind \in {"literal", "fractal", "patch", "xor"}
           /\ Process(o, c).id \in Chunks \cup {Wrong}
           /\ Process(o, c).res \in Seq(Cells)
           /\ Process(o, c).kind \in {"patch", "xor"} => o.brain
<1>1. PatternOf[c] \in Chunks /\ << >> \in Seq(Cells)
  BY CodecAssumption
<1>2. Whole(c) \in Seq(Cells) /\ Short(c) \in Seq(Cells)
  BY ResidualTypes
<1> DEFINE w == Whole(c)
           s == Short(c)
           q == PatternOf[c]
           p == Process(o, c)
<1>3. \/ p = [kind |-> "literal", id |-> Wrong, res |-> w]
      \/ o.brain /\ \/ p = [kind |-> "xor", id |-> c, res |-> << >>]
                    \/ p = [kind |-> "fractal", id |-> c, res |-> << >>]
                    \/ p = [kind |-> "xor", id |-> q, res |-> << >>]
                    \/ p = [kind |-> "patch", id |-> q, res |-> s]
                    \/ p = [kind |-> "xor", id |-> q, res |-> w]
  BY ProcessCases
<1> HIDE DEF w, s, q, p
<1>4. w \in Seq(Cells) /\ s \in Seq(Cells) /\ q \in Chunks
  BY <1>1, <1>2 DEF w, s, q
<1>5. p.kind \in {"literal", "fractal", "patch", "xor"}
  BY <1>3
<1>6. p.id \in Chunks \cup {Wrong}
  BY <1>3, <1>4
<1>7. p.res \in Seq(Cells)
  <2>1. p.res = w \/ p.res = s \/ p.res = << >>
    BY <1>3
  <2>. QED
    BY <1>1, <1>4, <2>1
<1>8. p.kind \in {"patch", "xor"} => o.brain
  BY <1>3
<1>. QED
  BY <1>5, <1>6, <1>7, <1>8 DEF p

\* A rebuilt chunk is a chunk or garbage.
LEMMA RebuildType ==
    ASSUME NEW e \in Entries, NEW res, NEW ok \in BOOLEAN
    PROVE  Rebuild(e, res, ok) \in Chunks \cup {Wrong}
<1> DEFINE fits == {c \in Chunks : /\ res = (IF e.kind = "patch" THEN Short(c) ELSE Whole(c))
                                   /\ e.kind # "literal" => PatternOf[c] = e.id}
<1>1. fits # {} => (CHOOSE c \in fits : TRUE) \in Chunks
  OBVIOUS
<1>2. e.id \in Chunks \cup {Wrong}
  BY DEF Entries
<1>. QED
  BY <1>1, <1>2 DEF Rebuild

(***************************************************************************)
(* The entry and the residual of a chunk give the chunk back, or in edge   *)
(* mode its codeword, if the brain that encoded it is there.               *)
(***************************************************************************)
LEMMA RebuildInverts ==
    ASSUME NEW o \in Options, NEW c \in Chunks, NEW e, NEW ok \in BOOLEAN,
           e.kind = Process(o, c).kind, e.id = Process(o, c).id, ok \/ ~o.brain
    PROVE  \/ Rebuild(e, Process(o, c).res, ok) = c
           \/ o.brain /\ o.edge /\ Rebuild(e, Process(o, c).res, ok) = PatternOf[c]
<1> DEFINE p == Process(o, c)
           fits == {d \in Chunks : /\ p.res = (IF e.kind = "patch" THEN Short(d) ELSE Whole(d))
                                   /\ e.kind # "literal" => PatternOf[d] = e.id}
<1>1. ASSUME p = [kind |-> "literal", id |-> Wrong, res |-> Whole(c)]
      PROVE  Rebuild(e, p.res, ok) = c
  <2>1. fits = {c}
    BY <1>1, ResidualTypes
  <2>2. Rebuild(e, p.res, ok) = CHOOSE d \in fits : TRUE
    BY <1>1, <2>1 DEF Rebuild
  <2>. QED
    BY <2>1, <2>2
<1>2. ASSUME o.brain, \/ p = [kind |-> "patch", id |-> PatternOf[c], res |-> Short(c)]
                      \/ p = [kind |-> "xor", id |-> PatternOf[c], res |-> Whole(c)]
      PROVE  Rebuild(e, p.res, ok) = c
  <2>1. fits = {c}
    BY <1>2, ResidualTypes
  <2>2. Rebuild(e, p.res, ok) = CHOOSE d \in fits : TRUE
    BY <1>2, <2>1, ResidualTypes DEF Rebuild
  <2>. QED
    BY <2>1, <2>2
<1>3. ASSUME o.brain, \/ p = [kind |-> "xor", id |-> c, res |-> << >>]
                      \/ p = [kind |-> "fractal", id |-> c, res |-> << >>]
      PROVE  Rebuild(e, p.res, ok) = c
  BY <1>3 DEF Rebuild
<1>4. ASSUME o.brain, o.edge, p = [kind |-> "xor", id |-> PatternOf[c], res |-> << >>]
      PROVE  Rebuild(e, p.res, ok) = PatternOf[c]
  BY <1>4 DEF Rebuild
<1> HIDE DEF p
<1>. QED
  BY <1>1, <1>2, <1>3, <1>4, ProcessCases DEF p
-----------------------------------------------------------------------------
(* The offsets and the pool of a block. *)

\* Sum gives the running sums of the sizes.
LEMMA SumIs ==
    ASSUME NEW n \in Nat, NEW a \in [1..n -> Nat], \A i \in 1..n : a[i] = ResultSize(i),
           NEW f \in [0..n -> Nat], Sums(f, n, a)
    PROVE  \A k \in 0..n : Sum(k) = f[k]
<1> SUFFICES ASSUME NEW k \in 0..n
             PROVE  Sum(k) = f[k]
  OBVIOUS
<1> DEFINE s == CHOOSE s : s = [i \in 0..k |-> IF i = 0 THEN 0 ELSE s[i - 1] + ResultSize(i)]
           g == [i \in 0..k |-> f[i]]
<1>1. g = [i \in 0..k |-> IF i = 0 THEN 0 ELSE g[i - 1] + ResultSize(i)]
  BY DEF Sums
<1>2. s = [i \in 0..k |-> IF i = 0 THEN 0 ELSE s[i - 1] + ResultSize(i)]
  BY <1>1, Zenon
<1>3. Sum(k) = s[k]
  BY DEF Sum
<1> HIDE DEF s, g
<1>4. Sums(s, k, a)
  <2>1. 0 \in 0..k /\ \A i \in 1..k : i \in 0..k /\ i # 0 /\ a[i] = ResultSize(i)
    OBVIOUS
  <2>. QED
    BY <1>2, <2>1, ZenonT(30) DEF Sums
<1>5. f[k] = s[k]
  BY <1>4, SumsUnique
<1>. QED
  BY <1>3, <1>5

\* Joined puts the residuals one after the other.
LEMMA JoinedIs ==
    ASSUME NEW n \in Nat, NEW a \in [1..n -> Seq(Cells)], \A i \in 1..n : a[i] = results[i].res,
           NEW f \in [0..n -> Seq(Cells)], Joins(f, n, a)
    PROVE  \A k \in 0..n : Joined(k) = f[k]
<1> SUFFICES ASSUME NEW k \in 0..n
             PROVE  Joined(k) = f[k]
  OBVIOUS
<1> DEFINE s == CHOOSE s : s = [i \in 0..k |-> IF i = 0 THEN << >> ELSE s[i - 1] \o results[i].res]
           g == [i \in 0..k |-> f[i]]
<1>0. f[0] = << >> /\ \A i \in 1..n : f[i] = f[i - 1] \o a[i]
  BY Zenon DEF Joins
<1>1. g = [i \in 0..k |-> IF i = 0 THEN << >> ELSE g[i - 1] \o results[i].res]
  <2>0. /\ 0 \in 0..k
        /\ \A i \in 1..k : i \in 0..k /\ i - 1 \in 0..k /\ i \in 1..n /\ a[i] = results[i].res
    OBVIOUS
  <2>1. g[0] = << >>
    BY <1>0, <2>0, Zenon
  <2>2. \A i \in 1..k : g[i] = g[i - 1] \o results[i].res
    BY <1>0, <2>0, Zenon
  <2>3. DOMAIN g = 0..k /\ \A i \in 0..k : i # 0 => i \in 1..k
    OBVIOUS
  <2> HIDE DEF g
  <2>4. \A i \in 0..k : g[i] = IF i = 0 THEN << >> ELSE g[i - 1] \o results[i].res
    BY <2>1, <2>2, <2>3, Zenon
  <2>5. g = [i \in 0..k |-> g[i]]
    BY DEF g
  <2>. QED
    BY <2>4, <2>5, Zenon
<1>2. s = [i \in 0..k |-> IF i = 0 THEN << >> ELSE s[i - 1] \o results[i].res]
  BY <1>1, Zenon
<1>3. Joined(k) = s[k]
  BY DEF Joined
<1> HIDE DEF s, g
<1>4. Joins(s, k, a)
  <2>1. 0 \in 0..k /\ \A i \in 1..k : i \in 0..k /\ i # 0 /\ a[i] = results[i].res
    OBVIOUS
  <2>2. s[0] = << >>
    BY <1>2, <2>1, Zenon
  <2>3. \A i \in 1..k : s[i] = s[i - 1] \o a[i]
    BY <1>2, <2>1, Zenon
  <2>. QED
    BY <2>2, <2>3, Zenon DEF Joins
<1>5. f[k] = s[k]
  <2>1. k \in 0..k
    OBVIOUS
  <2>. QED
    BY <1>4, <2>1, JoinsUnique
<1>. QED
  BY <1>3, <1>5

(***************************************************************************)
(* The pool of a block: the residual of each chunk lies at its offset and  *)
(* ends where the next one begins.                                         *)
(***************************************************************************)
LEMMA PoolOfBlock ==
    ASSUME NEW n \in Nat, \A i \in 1..n : results[i].res \in Seq(Cells)
    PROVE  /\ Sum(0) = 0 /\ \A k \in 0..n : Sum(k) \in Nat
           /\ Joined(n) \in Seq(Cells) /\ Len(Joined(n)) = Sum(n)
           /\ \A i \in 1..n :
                 /\ ResultSize(i) = Len(results[i].res)
                 /\ Sum(i - 1) + ResultSize(i) <= Sum(n)
                 /\ SubSeq(Joined(n), Sum(i - 1) + 1, Sum(i - 1) + ResultSize(i)) = results[i].res
<1> DEFINE a == [i \in 1..n |-> ResultSize(i)]
           r == [i \in 1..n |-> results[i].res]
<1>1. a \in [1..n -> Nat] /\ r \in [1..n -> Seq(Cells)]
      /\ \A i \in 1..n : a[i] = ResultSize(i) /\ r[i] = results[i].res /\ a[i] = Len(r[i])
  BY DEF ResultSize
<1> HIDE DEF a, r
<1>2. PICK s \in [0..n -> Nat] : Sums(s, n, a)
  BY <1>1, SumsExist
<1>3. PICK p \in [0..n -> Seq(Cells)] : Joins(p, n, r)
  BY <1>1, JoinsExist
<1>4. \A k \in 0..n : Sum(k) = s[k]
  BY <1>1, <1>2, SumIs
<1>5. \A k \in 0..n : Joined(k) = p[k]
  BY <1>1, <1>3, JoinedIs
<1>6. p[0] = << >> /\ \A i \in 1..n : p[i] = p[i - 1] \o r[i]
  BY <1>3, Zenon DEF Joins
<1>7. s[0] = 0 /\ \A i \in 1..n : s[i] = s[i - 1] + a[i]
  BY <1>2 DEF Sums
\* Up to k everything is in place.
<1> DEFINE Good(k) ==
             /\ Len(p[k]) = s[k]
             /\ \A i \in 1..k : /\ s[i - 1] + a[i] <= s[k]
                                /\ SubSeq(p[k], s[i - 1] + 1, s[i - 1] + a[i]) = r[i]
           P == {k \in 0..n : Good(k)}
<1>8. 0 \in P
  BY <1>6, <1>7
<1>9. ASSUME NEW k \in 1..n, k - 1 \in P
      PROVE  k \in P
  <2>1. Good(k - 1) /\ k - 1 \in 0..n /\ p[k - 1] \in Seq(Cells) /\ r[k] \in Seq(Cells)
        /\ s[k - 1] \in Nat /\ a[k] = Len(r[k]) /\ s[k] = s[k - 1] + a[k]
    BY <1>1, <1>7, <1>9
  <2>2. p[k] = p[k - 1] \o r[k]
    BY <1>6
  <2>3. Len(p[k]) = s[k]
    <3>1. Len(p[k - 1] \o r[k]) = Len(p[k - 1]) + Len(r[k])
      BY <2>1, ConcatProperties, ZenonT(30)
    <3>. QED
      BY <2>1, <2>2, <3>1, Zenon
  <2>4. ASSUME NEW i \in 1..k
        PROVE  /\ s[i - 1] + a[i] <= s[k]
               /\ SubSeq(p[k], s[i - 1] + 1, s[i - 1] + a[i]) = r[i]
    <3>1. CASE i = k
      <4> DEFINE u == p[k - 1]
                 v == r[k]
      <4> HIDE DEF u, v
      <4>1. u \in Seq(Cells) /\ v \in Seq(Cells) /\ Len(u) = s[k - 1] /\ Len(v) = a[k]
        BY <2>1 DEF u, v
      <4>2. SubSeq(u \o v, Len(u) + 1, Len(u) + Len(v)) = v
        BY <4>1, CutSecond
      <4>3. SubSeq(p[k], s[k - 1] + 1, s[k - 1] + a[k]) = r[k]
        BY <2>2, <4>1, <4>2, Zenon DEF u, v
      <4>. QED
        BY <2>1, <3>1, <4>3, SMTT(30)
    <3>2. CASE i # k
      <4> DEFINE u == p[k - 1]
                 v == r[k]
                 x == s[i - 1] + 1
                 y == s[i - 1] + a[i]
      <4>1. i \in 1..(k - 1) /\ i - 1 \in 0..n /\ i \in 1..n
        BY <3>2
      <4>7. s[i - 1] \in Nat /\ a[i] \in Nat
        BY <1>1, <4>1
      <4>2. y <= s[k - 1] /\ SubSeq(u, x, y) = r[i]
        BY <2>1, <4>1
      <4>3. x \in Nat /\ y \in Nat /\ 1 <= x
        BY <4>7, SMTT(30)
      <4>4. u \in Seq(Cells) /\ v \in Seq(Cells) /\ Len(u) = s[k - 1]
        BY <2>1
      <4> HIDE DEF u, v, x, y
      <4>5. SubSeq(u \o v, x, y) = SubSeq(u, x, y)
        BY <2>1, <4>2, <4>3, <4>4, CutFirst, SMTT(30)
      <4>6. SubSeq(p[k], x, y) = r[i]
        BY <2>2, <4>2, <4>5, Zenon DEF u, v
      <4>8. s[k - 1] \in Nat /\ s[k] \in Nat /\ s[k - 1] <= s[k]
        BY <1>1, <2>1
      <4>9. s[i - 1] + a[i] <= s[k]
        <5>1. s[i - 1] + a[i] <= s[k - 1]
          BY <4>2 DEF y
        <5>2. \A e, g, h \in Nat : e <= g /\ g <= h => e <= h
          OBVIOUS
        <5>3. s[i - 1] + a[i] \in Nat
          BY <4>7
        <5>. QED
          BY <4>8, <5>1, <5>2, <5>3, Zenon
      <4>. QED
        BY <4>6, <4>9, Zenon DEF x, y
    <3>. QED
      BY <3>1, <3>2
  <2> HIDE DEF P
  <2>5. k \in 0..n /\ Good(k)
    BY <2>3, <2>4
  <2>. QED
    BY <2>5 DEF P
<1> HIDE DEF P
<1>10. \A k \in 1..n : k - 1 \in P => k \in P
  BY <1>9
<1>11. \A k \in 0..n : k \in P
  BY <1>8, <1>10, InductionUpto, Zenon
<1>12. n \in 0..n /\ 0 \in 0..n /\ \A i \in 1..n : i - 1 \in 0..n
  OBVIOUS
<1>13. Good(n)
  BY <1>11, <1>12 DEF P
<1>14. Sum(n) = s[n] /\ Joined(n) = p[n] /\ Sum(0) = 0 /\ \A i \in 1..n : Sum(i - 1) = s[i - 1]
  BY <1>4, <1>5, <1>7, <1>12
<1>15. ASSUME NEW i \in 1..n
       PROVE  /\ Sum(i - 1) + ResultSize(i) <= Sum(n)
              /\ SubSeq(Joined(n), Sum(i - 1) + 1, Sum(i - 1) + ResultSize(i)) = results[i].res
  BY <1>1, <1>13, <1>14
<1>16. Joined(n) \in Seq(Cells) /\ Len(Joined(n)) = Sum(n)
  BY <1>12, <1>13, <1>14
<1>. QED
  BY <1>1, <1>4, <1>14, <1>15, <1>16
-----------------------------------------------------------------------------
(* Pack: what does not move the input along. *)

\* Each half of the invariant is about its half of the state.
LEMMA Halves ==
    /\ PInv /\ UNCHANGED <<input, output, tmp, pc, packing>> => PInv'
    /\ UInv /\ UNCHANGED unpacking => UInv'
<1>1. ASSUME PInv, UNCHANGED <<input, output, tmp, pc, packing>>
      PROVE  PInv'
  <2>1. /\ input' = input /\ output' = output /\ tmp' = tmp /\ pc' = pc /\ opts' = opts
        /\ size' = size /\ pos' = pos /\ block' = block /\ jobs' = jobs /\ work' = work
        /\ results' = results /\ made' = made /\ start' = start /\ touched' = touched
    BY <1>1 DEF packing
  <2>2. PackShape'
    BY <1>1, <2>1 DEF PInv, PackShape
  <2>3. Running' /\ Workload'
    BY <1>1, <2>1 DEF PInv, Running, Workload
  <2>4. Packed'
    BY <1>1, <2>1 DEF PInv, Packed
  <2>5. Installed'
    BY <1>1, <2>1 DEF PInv, Installed
  <2>. QED
    BY <2>2, <2>3, <2>4, <2>5 DEF PInv
<1>2. ASSUME UInv, UNCHANGED unpacking
      PROVE  UInv'
  <2>1. /\ upc' = upc /\ src' = src /\ strict' = strict /\ sameBrain' = sameBrain
        /\ cur' = cur /\ out' = out /\ skipped' = skipped /\ restored' = restored
    BY <1>2 DEF unpacking
  <2>2. UnpackShape' /\ Opened'
    BY <1>2, <2>1 DEF UInv, UnpackShape, Opened
  <2>3. Walking'
    BY <1>2, <2>1 DEF UInv, Walking, Restored, Known, HashAccepts
  <2>4. UnpackFailsForCause'
    BY <1>2, <2>1 DEF UInv, UnpackFailsForCause
  <2>. QED
    BY <2>2, <2>3, <2>4 DEF UInv
<1>. QED
  BY <1>1, <1>2

\* Pack has ended: what it was packing is forgotten.
LEMMA PackEnded ==
    ASSUME PInv, pc' \in {"done", "failed", "crashed"}, pc # "idle",
           UNCHANGED <<input, packing>>,
           tmp' \in {NoFile, Partial} \/ tmp' \in CromFile,
           output' = NoFile \/ output' \in CromFile,
           output' # NoFile => Sound(output')
    PROVE  PInv'
<1>1. /\ opts' = opts /\ size' = size /\ pos' = pos /\ block' = block /\ jobs' = jobs
      /\ work' = work /\ results' = results /\ made' = made /\ start' = start
      /\ touched' = touched /\ input' = input
  BY DEF packing
<1>2. PackShape'
  BY <1>1 DEF PInv, PackShape
<1>3. Running' /\ Workload' /\ Packed'
  BY <1>1 DEF PInv, Running, Workload, Packed
<1>4. Installed'
  BY DEF Installed
<1>. QED
  BY <1>2, <1>3, <1>4 DEF PInv

\* Passthrough, after a look at the input or after all.
LEMMA PassedThrough ==
    ASSUME PInv, pc \in {"copy", "smart"}, pc' = "rename", UNCHANGED <<input, output, packing>>,
           NEW data \in Seq(Chunks), NEW hash \in Seq(Chunks), tmp' = Passthrough(data, hash)
    PROVE  PInv'
<1>1. /\ opts' = opts /\ size' = size /\ pos' = pos /\ block' = block /\ jobs' = jobs
      /\ work' = work /\ results' = results /\ made' = made /\ start' = start
      /\ touched' = touched /\ input' = input /\ output' = output
  BY DEF packing
<1>2. tmp' \in CromFile /\ tmp'.pass
  BY DEF PInv, PackShape, Running, Passthrough, CromFile
<1>3. PackShape'
  BY <1>1, <1>2 DEF PInv, PackShape
<1>4. Running' /\ Workload' /\ Packed'
  BY <1>1, <1>2 DEF PInv, Running, Workload, Packed
<1>5. Installed'
  BY <1>1, <1>2 DEF PInv, Installed, Sound
<1>. QED
  BY <1>3, <1>4, <1>5 DEF PInv

\* A Pack begins.
LEMMA StartPackStep ==
    ASSUME PInv, NEW o \in Options, StartPack(o)
    PROVE  PInv'
<1>1. /\ opts' = o /\ size' = Len(input) /\ pos' = 0 /\ made' = Empty
      /\ block' = << >> /\ jobs' = << >> /\ results' = << >>
      /\ work' = [w \in Workers |-> 0] /\ start' = input /\ touched' = FALSE
      /\ tmp' = Partial /\ input' = input /\ output' = output
  BY DEF StartPack
<1>2. pc' \in {"copy", "read"} /\ (pc' = "read" => Len(input) > 0)
  BY <1>1, SizesAssumption DEF StartPack, PInv, PackShape
<1>3. Empty \in Made
  BY DEF Empty, Made
<1>4. PackShape'
  <2>1. << >> \in Seq(Chunks) /\ << >> \in Seq(Nat) /\ [w \in Workers |-> 0] \in [Workers -> Nat]
    OBVIOUS
  <2>2. input \in Seq(Chunks) /\ Len(input) \in Nat /\ (output = NoFile \/ output \in CromFile)
    BY DEF PInv, PackShape
  <2>3. DOMAIN results' \subseteq 1..Len(block')
    BY <1>1
  <2>. QED
    BY <1>1, <1>2, <1>3, <2>1, <2>2, <2>3 DEF PackShape
<1>5. Running' /\ Workload'
  BY <1>1, <1>2 DEF PInv, PackShape, Running, Workload
<1>6. Packed'
  <2>1. SubSeq(input, 1, 0) = << >> /\ Len(input) \in Nat
    BY DEF PInv, PackShape
  <2>2. Laid(<< >>, << >>, o, << >>)
    BY Products DEF Laid
  <2>3. EndsAt(Empty) /\ Empty.entries = << >> /\ Empty.blocks = << >> /\ Empty.hash = << >>
    BY DEF EndsAt, Empty
  <2>4. Len(<< >>) * B = 0
    BY Products
  <2>5. pos' <= Len(start') /\ pos' = Len(made'.blocks) * B
    BY <1>1, <2>1, <2>3, <2>4
  <2>6. made'.hash = SubSeq(start', 1, pos') /\ EndsAt(made')
    BY <1>1, <2>1, <2>3
  <2>7. Laid(made'.entries, made'.blocks, opts', SubSeq(start', 1, pos'))
    BY <1>1, <2>1, <2>2, <2>3
  <2>8. pc' # "finish" /\ pc' # "work"
    BY <1>2
  <2>. QED
    BY <2>5, <2>6, <2>7, <2>8, Zenon DEF Packed
<1>7. Installed'
  BY <1>1, <1>2 DEF PInv, Installed
<1>. QED
  BY <1>4, <1>5, <1>6, <1>7 DEF PInv
-----------------------------------------------------------------------------
(* Pack: reading a block and the workers. *)

\* The next block of the input: one of B chunks, or what is left.
LEMMA ReadBlockStep ==
    ASSUME PInv, ReadBlock
    PROVE  PInv'
<1> DEFINE n == Min(BlockChunks, Len(input) - pos)
<1>0. PackShape /\ pc = "read" /\ pos < Len(input)
  BY DEF PInv, ReadBlock
<1>1. /\ block' = SubSeq(input, pos + 1, pos + n) /\ jobs' = [i \in 1..n |-> i]
      /\ pos' = pos + n /\ results' = << >> /\ made' = [made EXCEPT !.hash = @ \o block']
      /\ pc' = "work" /\ input' = input /\ output' = output /\ tmp' = tmp /\ opts' = opts
      /\ size' = size /\ work' = work /\ start' = start /\ touched' = touched
  BY DEF ReadBlock
<1>2. /\ n \in Nat /\ 1 <= n /\ n <= B /\ pos + n <= Len(input)
      /\ (n = B \/ pos + n = Len(input))
  BY <1>0, Products DEF PackShape, Min, B
<1> HIDE DEF n
<1>3. pos \in Nat /\ pos + n \in Nat /\ input \in Seq(Chunks) /\ Len(input) \in Nat
  BY <1>0, <1>2 DEF PackShape
<1>4. block' \in Seq(Chunks) /\ Len(block') = n
  BY <1>1, <1>2, <1>3, CutFacts
<1>5. jobs' \in Seq(Nat) /\ Len(jobs') = n /\ \A i \in 1..n : jobs'[i] = i
  BY <1>1, <1>2
<1>6. /\ made' \in Made /\ made'.entries = made.entries /\ made'.blocks = made.blocks
      /\ made'.offset = made.offset /\ made'.hash = made.hash \o block'
  <2> DEFINE h == made.hash \o block'
  <2>1. made \in Made /\ made.hash \in Seq(Chunks)
    BY <1>0 DEF PackShape, Made
  <2>2. h \in Seq(Chunks)
    BY <1>4, <2>1
  <2>3. made' = [made EXCEPT !.hash = h]
    BY <1>1
  <2> HIDE DEF h
  <2>4. /\ made' \in Made /\ made'.entries = made.entries /\ made'.blocks = made.blocks
        /\ made'.offset = made.offset /\ made'.hash = h
    BY <2>1, <2>2, <2>3 DEF Made
  <2>. QED
    BY <2>4 DEF h
<1>7. PackShape'
  <2>1. DOMAIN results' \subseteq 1..Len(block')
    BY <1>1
  <2>2. made' \in Made /\ pos' \in Nat
    BY <1>1, <1>3, <1>6
  <2>. QED
    BY <1>0, <1>1, <1>4, <1>5, <2>1, <2>2 DEF PackShape
<1>8. Running'
  BY <1>0, <1>1 DEF PInv, Running
<1>9. Workload'
  <2>1. \A w \in Workers : work'[w] = 0
    BY <1>0, <1>1 DEF PInv, Workload
  <2>2. DOMAIN results' = {}
    BY <1>1
  <2>. QED
    BY <1>1, <1>2, <1>4, <1>5, <2>1, <2>2 DEF Workload
<1>10. ASSUME ~touched
       PROVE  /\ pos' <= Len(start') /\ made'.hash = SubSeq(start', 1, pos') /\ EndsAt(made')
              /\ pos' - Len(block') = Len(made'.blocks) * B
              /\ 1 <= Len(block') /\ Len(block') <= B
              /\ pos' = Len(start') \/ Len(block') = B
              /\ block' = SubSeq(start', pos' - Len(block') + 1, pos')
              /\ Laid(made'.entries, made'.blocks, opts', SubSeq(start', 1, pos' - Len(block')))
  <2>1. input = start
    BY <1>0, <1>10 DEF PInv, Running
  <2>2. /\ made.hash = SubSeq(start, 1, pos) /\ EndsAt(made)
        /\ Laid(made.entries, made.blocks, opts, SubSeq(start, 1, pos))
        /\ pos = Len(made.blocks) * B
    BY <1>0, <1>10, <2>1 DEF PInv, Packed
  <2>3. pos' - Len(block') = pos /\ pos' = pos + n
    BY <1>1, <1>2, <1>3, <1>4
  <2>4. SubSeq(start, 1, pos) \o SubSeq(start, pos + 1, pos + n) = SubSeq(start, 1, pos + n)
    <3>1. start \in Seq(Chunks) /\ 1 \in 1..(Len(start) + 1) /\ pos \in (1 - 1)..Len(start)
          /\ pos + n \in pos..Len(start)
      BY <1>0, <1>2, <1>3, <2>1
    <3>. QED
      BY <3>1, ConcatAdjacentSubSeq, Zenon
  <2>5. made'.hash = SubSeq(start', 1, pos')
    BY <1>1, <1>6, <2>1, <2>2, <2>3, <2>4, Zenon
  <2>6. block' = SubSeq(start', pos' - Len(block') + 1, pos')
    BY <1>1, <2>1, <2>3, Zenon
  <2>7. Laid(made'.entries, made'.blocks, opts', SubSeq(start', 1, pos' - Len(block')))
    BY <1>1, <1>6, <2>2, <2>3, Zenon
  <2>8. EndsAt(made')
    BY <1>6, <2>2, Zenon DEF EndsAt
  <2>9. /\ pos' <= Len(start') /\ pos' - Len(block') = Len(made'.blocks) * B
        /\ 1 <= Len(block') /\ Len(block') <= B /\ (pos' = Len(start') \/ Len(block') = B)
    BY <1>1, <1>2, <1>4, <1>6, <2>1, <2>2, <2>3
  <2>. QED
    BY <2>5, <2>6, <2>7, <2>8, <2>9, Zenon
<1>11. Packed'
  <2>1. pc' = "work" /\ touched' = touched
    BY <1>1
  <2>2. pc' \notin {"read", "finish"} /\ pc' # "finish"
    BY <2>1
  <2>. QED
    BY <1>10, <2>1, <2>2, Zenon DEF Packed
<1>12. Installed'
  BY <1>1 DEF PInv, Installed
<1>. QED
  BY <1>7, <1>8, <1>9, <1>11, <1>12 DEF PInv

\* Only the work on a block moves.
LEMMA WorkMoves ==
    ASSUME PInv, pc = "work", UNCHANGED <<input, output, tmp, pc, opts, size, pos, block, made,
                                          start, touched>>,
           jobs' \in Seq(Nat), work' \in [Workers -> Nat], DOMAIN results' \subseteq 1..Len(block),
           Workload'
    PROVE  PInv'
<1>1. /\ input' = input /\ output' = output /\ tmp' = tmp /\ pc' = pc /\ opts' = opts
      /\ size' = size /\ pos' = pos /\ block' = block /\ made' = made /\ start' = start
      /\ touched' = touched
  OBVIOUS
<1>2. PackShape'
  BY <1>1 DEF PInv, PackShape
<1>3. Running' /\ Packed' /\ Installed'
  BY <1>1, SMTT(30) DEF PInv, Running, Packed, Installed
<1>. QED
  BY <1>2, <1>3 DEF PInv

\* A worker takes an index out of the channel.
LEMMA TakeJobStep ==
    ASSUME PInv, NEW w \in Workers, TakeJob(w)
    PROVE  PInv'
<1>1. /\ pc = "work" /\ jobs # << >> /\ work[w] = 0 /\ work' = [work EXCEPT ![w] = Head(jobs)]
      /\ jobs' = Tail(jobs) /\ results' = results
      /\ UNCHANGED <<input, output, tmp, pc, opts, size, pos, block, made, start, touched>>
  BY DEF TakeJob
<1>2. jobs \in Seq(Nat) /\ work \in [Workers -> Nat] /\ DOMAIN results \subseteq 1..Len(block)
      /\ Len(block) \in Nat
  BY DEF PInv, PackShape
<1>3. /\ Head(jobs) = jobs[1] /\ 1 \in 1..Len(jobs) /\ jobs' \in Seq(Nat)
      /\ Len(jobs') = Len(jobs) - 1 /\ \A j \in 1..Len(jobs') : jobs'[j] = jobs[j + 1]
      /\ \A j \in 1..Len(jobs) : j # 1 => j - 1 \in 1..Len(jobs')
  BY <1>1, <1>2
<1>4. /\ \A j \in 1..Len(jobs) : jobs[j] \in 1..Len(block)
      /\ \A v \in Workers : work[v] \in 0..Len(block)
      /\ \A i \in 1..Len(block) : \/ \E j \in 1..Len(jobs) : jobs[j] = i
                                  \/ \E v \in Workers : work[v] = i
                                  \/ i \in DOMAIN results
      /\ \A i \in DOMAIN results : results[i] \in {Process(opts, block[i]), Failed}
  BY <1>1 DEF PInv, Workload
<1>5. /\ work' \in [Workers -> Nat] /\ work'[w] = jobs[1] /\ jobs[1] \in 1..Len(block)
      /\ \A v \in Workers : v # w => work'[v] = work[v]
  BY <1>1, <1>2, <1>3, <1>4
<1>6. \A j \in 1..Len(jobs') : jobs'[j] \in 1..Len(block)
  <2>1. \A j \in 1..Len(jobs') : j + 1 \in 1..Len(jobs)
    BY <1>2, <1>3
  <2>. QED
    BY <1>3, <1>4, <2>1, Zenon
<1>7. \A v \in Workers : work'[v] \in 0..Len(block)
  BY <1>4, <1>5
<1>8. ASSUME NEW i \in 1..Len(block)
      PROVE  \/ \E j \in 1..Len(jobs') : jobs'[j] = i
             \/ \E v \in Workers : work'[v] = i
             \/ i \in DOMAIN results
  <2>1. CASE \E j \in 1..Len(jobs) : jobs[j] = i
    <3>1. PICK j \in 1..Len(jobs) : jobs[j] = i
      BY <2>1
    <3>2. CASE j = 1
      BY <1>5, <3>1, <3>2
    <3>3. CASE j # 1
      <4>1. j - 1 \in 1..Len(jobs') /\ jobs'[j - 1] = i
        BY <1>3, <3>1, <3>3
      <4>. QED
        BY <4>1
    <3>. QED
      BY <3>2, <3>3
  <2>2. CASE \E v \in Workers : work[v] = i
    BY <1>1, <1>5, <2>2
  <2>. QED
    BY <1>4, <2>1, <2>2
<1>9. Workload'
  BY <1>1, <1>4, <1>6, <1>7, <1>8 DEF Workload
<1>. QED
  BY <1>1, <1>2, <1>3, <1>5, <1>9, WorkMoves

\* A worker puts away the result of its chunk, or that there is none.
LEMMA StoreResultStep ==
    ASSUME PInv, NEW w \in Workers, NEW r, StoreResult(w, r),
           r \in {Process(opts, block[work[w]]), Failed}
    PROVE  PInv'
<1>1. /\ pc = "work" /\ work[w] # 0 /\ jobs' = jobs
      /\ results' = [i \in DOMAIN results \cup {work[w]} |->
                        IF i = work[w] THEN r ELSE results[i]]
      /\ work' = [work EXCEPT ![w] = 0]
      /\ UNCHANGED <<input, output, tmp, pc, opts, size, pos, block, made, start, touched>>
  BY DEF StoreResult
<1>2. jobs \in Seq(Nat) /\ work \in [Workers -> Nat] /\ DOMAIN results \subseteq 1..Len(block)
      /\ Len(block) \in Nat
  BY DEF PInv, PackShape
<1>3. /\ \A j \in 1..Len(jobs) : jobs[j] \in 1..Len(block)
      /\ \A v \in Workers : work[v] \in 0..Len(block)
      /\ \A i \in 1..Len(block) : \/ \E j \in 1..Len(jobs) : jobs[j] = i
                                  \/ \E v \in Workers : work[v] = i
                                  \/ i \in DOMAIN results
      /\ \A i \in DOMAIN results : results[i] \in {Process(opts, block[i]), Failed}
  BY <1>1 DEF PInv, Workload
<1>4. work[w] \in 1..Len(block)
  BY <1>1, <1>2, <1>3
<1>5. DOMAIN results' = DOMAIN results \cup {work[w]} /\ DOMAIN results' \subseteq 1..Len(block)
  BY <1>1, <1>2, <1>4
<1>6. work' \in [Workers -> Nat] /\ work'[w] = 0 /\ \A v \in Workers : v # w => work'[v] = work[v]
  BY <1>1, <1>2
<1>7. \A i \in DOMAIN results' : results'[i] \in {Process(opts, block[i]), Failed}
  BY <1>1, <1>3, <1>5
<1>8. \A i \in 1..Len(block) : \/ \E j \in 1..Len(jobs) : jobs[j] = i
                               \/ \E v \in Workers : work'[v] = i
                               \/ i \in DOMAIN results'
  BY <1>3, <1>5, <1>6
<1>9. \A v \in Workers : work'[v] \in 0..Len(block)
  <2>1. 0 \in 0..Len(block)
    BY <1>2
  <2>. QED
    BY <1>3, <1>6, <2>1, Zenon
<1>10. Workload'
  BY <1>1, <1>3, <1>7, <1>8, <1>9 DEF Workload
<1>. QED
  BY <1>1, <1>2, <1>5, <1>6, <1>10, WorkMoves
-----------------------------------------------------------------------------
(* Pack: the block is written. *)

\* A chunk whose residual lies in the block that begins at offset at.
Fits(e, at, cells, p) ==
    /\ e.kind = p.kind /\ e.id = p.id /\ e.size = Len(p.res) /\ at <= e.offset
    /\ (e.offset - at) + e.size <= Len(cells)
    /\ SubSeq(cells, (e.offset - at) + 1, (e.offset - at) + e.size) = p.res

\* Placed is Fits for the entry, the block and the chunk at hand.
LEMMA PlacedFits ==
    ASSUME NEW entries, NEW blocks, NEW o, NEW data, NEW b, NEW i
    PROVE  Placed(entries, blocks, o, data, b, i)
              <=> Fits(entries[i], entries[(b - 1) * B + 1].offset, blocks[b].cells,
                       Process(o, data[i]))
BY DEF Placed, Fits

(***************************************************************************)
(* One more block: if the data so far fill whole blocks and the residuals  *)
(* of the next chunks lie in a block that begins where the last one ends,  *)
(* the longer data are laid out too.                                       *)
(***************************************************************************)
LEMMA LaidExtends ==
    ASSUME NEW entries \in Seq(Entries), NEW blocks \in Seq(Block), NEW o,
           NEW data \in Seq(Chunks), Laid(entries, blocks, o, data),
           Len(data) = Len(blocks) * B,
           NEW more \in Seq(Chunks), 1 <= Len(more), Len(more) <= B,
           NEW new \in Seq(Entries), Len(new) = Len(more), NEW blk \in Block,
           \A i \in 1..Len(more) :
               Fits(new[i], new[1].offset, blk.cells, Process(o, more[i])),
           blocks = << >> => new[1].offset = 0,
           blocks # << >> => new[1].offset = entries[(Len(blocks) - 1) * B + 1].offset
                                                + Len(blocks[Len(blocks)].cells)
    PROVE  Laid(entries \o new, Append(blocks, blk), o, data \o more)
<1> DEFINE E == entries \o new
           X == Append(blocks, blk)
           D == data \o more
           k == Len(blocks)
           g == k * B
           m == Len(more)
<1>0. k \in Nat /\ g \in Nat /\ Len(data) = g /\ Len(entries) = g /\ m \in Nat /\ 1 \in 1..m
  BY Products DEF Laid
<1>1. Len(E) = g + m /\ (\A i \in 1..g : E[i] = entries[i]) /\ \A i \in 1..m : E[g + i] = new[i]
  <2>1. /\ Len(E) = Len(entries) + Len(new)
        /\ \A i \in 1..Len(entries) : E[i] = entries[i]
        /\ \A i \in 1..Len(new) : E[Len(entries) + i] = new[i]
    <3> HIDE DEF g, m, k
    <3>1. Len(E) = Len(entries) + Len(new)
      BY ConcatIs, Zenon
    <3>2. \A i \in 1..Len(entries) : E[i] = entries[i]
      OBVIOUS
    <3>3. \A i \in 1..Len(new) : E[Len(entries) + i] = new[i]
      OBVIOUS
    <3>. QED
      BY <3>1, <3>2, <3>3
  <2>2. Len(entries) = g /\ Len(new) = m
    BY <1>0
  <2>. QED
    BY <2>1, <2>2
<1>2. Len(D) = g + m /\ (\A i \in 1..g : D[i] = data[i]) /\ \A i \in 1..m : D[g + i] = more[i]
  <2>1. /\ Len(D) = Len(data) + Len(more)
        /\ \A i \in 1..Len(data) : D[i] = data[i]
        /\ \A i \in 1..Len(more) : D[Len(data) + i] = more[i]
    <3> HIDE DEF g, m, k
    <3>1. Len(D) = Len(data) + Len(more)
      BY ConcatIs, Zenon
    <3>2. \A i \in 1..Len(data) : D[i] = data[i]
      OBVIOUS
    <3>3. \A i \in 1..Len(more) : D[Len(data) + i] = more[i]
      OBVIOUS
    <3>. QED
      BY <3>1, <3>2, <3>3
  <2>. QED
    BY <1>0, <2>1
<1>3. Len(X) = k + 1 /\ (\A b \in 1..k : X[b] = blocks[b]) /\ X[k + 1] = blk
  BY <1>0
<1> HIDE DEF E, X, D
<1>4. Len(E) = Len(D)
  BY <1>1, <1>2
<1>5. m <= B /\ g + m <= (k + 1) * B
  BY <1>0, BehindBlocks
<1>6. Len(D) <= Len(X) * B
  BY <1>2, <1>3, <1>5
<1> HIDE DEF m
<1>7. ASSUME NEW b \in 1..Len(X)
      PROVE  (b - 1) * B < Len(D)
  <2>1. CASE b \in 1..k
    <3>1. (b - 1) * B \in Nat /\ (b - 1) * B + 1 \in 1..g
      BY <1>0, <2>1, InBlocks
    <3> HIDE DEF g
    <3>. QED
      BY <1>0, <1>2, <3>1
  <2>2. CASE b = k + 1
    <3>1. (b - 1) * B = g
      BY <1>0, <2>2
    <3> HIDE DEF g
    <3>. QED
      BY <1>0, <1>2, <3>1
  <2>. QED
    BY <1>0, <1>3, <2>1, <2>2
<1>8. ASSUME NEW b \in 1..Len(X), NEW i \in 1..Len(D), (b - 1) * B < i, i <= b * B
      PROVE  Placed(E, X, o, D, b, i)
  <2>1. CASE b \in 1..k
    <3>2. i \in 1..g /\ (b - 1) * B + 1 \in 1..g
      BY <1>0, <1>8, <2>1, InBlocks
    <3>3. Placed(entries, blocks, o, data, b, i)
      BY <1>0, <1>8, <2>1, <3>2, Zenon DEF Laid
    <3>4. E[i] = entries[i] /\ E[(b - 1) * B + 1] = entries[(b - 1) * B + 1] /\ D[i] = data[i]
          /\ X[b] = blocks[b]
      BY <1>1, <1>2, <1>3, <2>1, <3>2, Zenon
    <3>. QED
      BY <3>3, <3>4, PlacedFits
  <2>2. CASE b = k + 1
    <3>1. (b - 1) * B = g
      BY <1>0, <2>2
    <3>2. i - g \in 1..m /\ i = g + (i - g)
      <4>1. i \in Nat /\ k * B < i /\ i <= k * B + m
        BY <1>0, <1>2, <1>8, <3>1
      <4>. QED
        BY <1>0, <1>5, <4>1, BehindBlocks
    <3>3. E[i] = new[i - g] /\ D[i] = more[i - g] /\ E[(b - 1) * B + 1] = new[1]
      BY <1>0, <1>1, <1>2, <3>1, <3>2, Zenon
    <3>4. Fits(new[i - g], new[1].offset, blk.cells, Process(o, more[i - g]))
      BY <3>2, Zenon DEF m
    <3>5. X[b] = blk
      BY <1>3, <2>2
    <3>. QED
      BY <3>3, <3>4, <3>5, PlacedFits
  <2>. QED
    BY <1>0, <1>3, <2>1, <2>2
<1>9. ASSUME NEW b \in 1..Len(X), b * B < Len(D)
      PROVE  E[b * B + 1].offset = E[(b - 1) * B + 1].offset + Len(X[b].cells)
  <2>1. b # k + 1
    <3> SUFFICES ASSUME b = k + 1
                 PROVE  FALSE
      OBVIOUS
    <3>1. (k + 1) * B < g + m
      BY <1>2, <1>9
    <3> DEFINE z == (k + 1) * B
    <3>2. z \in Nat
      BY <1>0, Products
    <3> HIDE DEF z, g
    <3>. QED
      BY <1>0, <1>5, <3>1, <3>2 DEF z
  <2>2. b \in 1..k /\ X[b] = blocks[b]
    BY <1>0, <1>3, <2>1
  <2>3. (b - 1) * B + 1 \in 1..g /\ (b # k => b * B + 1 \in 1..g /\ b * B < g)
    BY <1>0, <2>2, InBlocks
  <2>4. E[(b - 1) * B + 1] = entries[(b - 1) * B + 1]
    BY <1>1, <2>3, Zenon
  <2>5. CASE b = k
    <3>1. blocks # << >>
      BY <2>2, <2>5
    <3>2. E[b * B + 1] = new[1]
      BY <1>0, <1>1, <2>5, Zenon
    <3>3. new[1].offset = entries[(b - 1) * B + 1].offset + Len(blocks[b].cells)
      BY <2>5, <3>1, Zenon
    <3>. QED
      BY <2>2, <2>4, <3>2, <3>3, Zenon
  <2>6. CASE b # k
    <3>3. entries[b * B + 1].offset = entries[(b - 1) * B + 1].offset + Len(blocks[b].cells)
      BY <1>0, <2>2, <2>3, <2>6, Zenon DEF Laid
    <3>. QED
      BY <1>1, <2>2, <2>3, <2>4, <2>6, <3>3, Zenon
  <2>. QED
    BY <2>5, <2>6
<1>10. E[1].offset = 0
  <2>1. CASE k = 0
    <3>1. blocks = << >> /\ g = 0
      BY <1>0, <2>1, Products
    <3>2. E[g + 1] = new[1]
      BY <1>0, <1>1, Zenon
    <3> HIDE DEF g
    <3>. QED
      BY <3>1, <3>2
  <2>2. CASE k # 0
    <3>1. 1 \in 1..g
      <4>1. 0 * B + B <= g /\ 0 * B = 0 /\ B >= 1 /\ B \in Nat
        BY <1>0, <2>2, Products
      <4> HIDE DEF g
      <4>. QED
        BY <1>0, <4>1
    <3>2. E[1] = entries[1]
      BY <1>1, <3>1, Zenon
    <3>3. Len(data) > 0
      <4> HIDE DEF g
      <4>. QED
        BY <1>0, <3>1
    <3>. QED
      BY <3>2, <3>3 DEF Laid
  <2>. QED
    BY <2>1, <2>2
<1>11. Laid(E, X, o, D)
  BY <1>4, <1>6, <1>7, <1>8, <1>9, <1>10 DEF Laid
<1>. QED
  BY <1>11 DEF E, X, D

\* The layout is about the residuals, not about which blocks can be read.
LEMMA LaidSameCells ==
    ASSUME NEW entries, NEW blocks, NEW others, NEW o, NEW data,
           Laid(entries, blocks, o, data), Len(others) = Len(blocks),
           \A b \in 1..Len(blocks) : others[b].cells = blocks[b].cells
    PROVE  Laid(entries, others, o, data)
<1>1. ASSUME NEW b \in 1..Len(others), NEW i \in 1..Len(data), (b - 1) * B < i, i <= b * B
      PROVE  Placed(entries, others, o, data, b, i)
  <2>1. Placed(entries, blocks, o, data, b, i) /\ others[b].cells = blocks[b].cells
    BY <1>1 DEF Laid
  <2>. QED
    BY <2>1, PlacedFits
<1>2. \A b \in 1..Len(others) : b * B < Len(data) =>
         entries[b * B + 1].offset = entries[(b - 1) * B + 1].offset + Len(others[b].cells)
  BY DEF Laid
<1>. QED
  BY <1>1, <1>2 DEF Laid

\* When the workers are done and none failed, every chunk has its result.
LEMMA AllProcessed ==
    ASSUME PInv, pc = "work", WorkersDone, \A i \in DOMAIN results : results[i].kind # "error"
    PROVE  /\ \A i \in 1..Len(block) : results[i] = Process(opts, block[i])
           /\ opts \in Options /\ \A i \in 1..Len(block) : block[i] \in Chunks
<1>1. opts \in Options /\ block \in Seq(Chunks) /\ \A i \in 1..Len(block) : block[i] \in Chunks
  BY DEF PInv, PackShape, Running
<1>2. jobs = << >> /\ \A w \in Workers : work[w] = 0
  BY DEF WorkersDone
<1>3. \A i \in 1..Len(block) : i \in DOMAIN results
  BY <1>2 DEF PInv, Workload
<1>4. Failed.kind = "error"
  BY DEF Failed
<1>5. \A i \in DOMAIN results : results[i] = Process(opts, block[i]) \/ results[i] = Failed
  BY DEF PInv, Workload
<1>6. \A i \in 1..Len(block) : results[i] = Process(opts, block[i])
  BY <1>3, <1>4, <1>5, Zenon
<1>. QED
  BY <1>1, <1>6

\* The entries and the pool of a block: each residual is where its entry says.
LEMMA GatheredBlock ==
    ASSUME PInv, pc = "work", WorkersDone, \A i \in DOMAIN results : results[i].kind # "error",
           NEW new, new = [i \in 1..Len(block) |-> [kind |-> results[i].kind, id |-> results[i].id,
                                                    offset |-> DeltaOffset(i), size |-> ResultSize(i)]]
    PROVE  /\ new \in Seq(Entries) /\ Len(new) = Len(block)
           /\ Joined(Len(block)) \in Seq(Cells) /\ Len(Joined(Len(block))) = Sum(Len(block))
           /\ Sum(Len(block)) \in Nat
           /\ Len(block) > 0 => new[1].offset = made.offset
           /\ \A i \in 1..Len(block) :
                 Fits(new[i], made.offset, Joined(Len(block)), Process(opts, block[i]))
<1> DEFINE n == Len(block)
           J == Joined(n)
<1>1. n \in Nat /\ made.offset \in Nat
  BY DEF PInv, PackShape, Made
<1>2. /\ \A i \in 1..n : results[i] = Process(opts, block[i])
      /\ opts \in Options /\ \A i \in 1..n : block[i] \in Chunks
  BY AllProcessed
<1>3. \A i \in 1..n : /\ results[i].kind \in {"literal", "fractal", "patch", "xor"}
                      /\ results[i].id \in Chunks \cup {Wrong}
                      /\ results[i].res \in Seq(Cells)
  BY <1>2, ProcessType
<1>4. /\ Sum(0) = 0 /\ \A k \in 0..n : Sum(k) \in Nat
      /\ J \in Seq(Cells) /\ Len(J) = Sum(n)
      /\ \A i \in 1..n :
            /\ ResultSize(i) = Len(results[i].res)
            /\ Sum(i - 1) + ResultSize(i) <= Sum(n)
            /\ SubSeq(J, Sum(i - 1) + 1, Sum(i - 1) + ResultSize(i)) = results[i].res
  BY <1>1, <1>3, PoolOfBlock
<1> HIDE DEF J
<1>5. \A i \in 1..n : /\ new[i].kind = results[i].kind /\ new[i].id = results[i].id
                      /\ new[i].offset = made.offset + Sum(i - 1) /\ new[i].size = ResultSize(i)
                      /\ Sum(i - 1) \in Nat /\ ResultSize(i) \in Nat
                      /\ new[i] = [kind |-> results[i].kind, id |-> results[i].id,
                                   offset |-> DeltaOffset(i), size |-> ResultSize(i)]
  <2>1. \A i \in 1..n : i - 1 \in 0..n
    BY <1>1
  <2>. QED
    BY <1>3, <1>4, <2>1 DEF DeltaOffset
<1>6. \A i \in 1..n : new[i] \in Entries
  BY <1>1, <1>3, <1>5 DEF Entries
<1>7. new \in Seq(Entries) /\ Len(new) = n
  BY <1>1, <1>6
<1>8. n > 0 => new[1].offset = made.offset
  BY <1>1, <1>4, <1>5
<1>9. ASSUME NEW i \in 1..n
      PROVE  Fits(new[i], made.offset, J, Process(opts, block[i]))
  <2> DEFINE x == Sum(i - 1)
             z == ResultSize(i)
             p == Process(opts, block[i])
             e == new[i]
  <2>1. /\ e.kind = p.kind /\ e.id = p.id /\ e.offset = made.offset + x /\ e.size = z
        /\ x \in Nat /\ z \in Nat /\ z = Len(p.res) /\ x + z <= Len(J)
        /\ SubSeq(J, x + 1, x + z) = p.res
    BY <1>2, <1>4, <1>5
  <2> HIDE DEF x, z, p, e
  <2>2. e.offset - made.offset = x /\ made.offset <= e.offset
    BY <1>1, <2>1
  <2>3. Fits(e, made.offset, J, p)
    BY <2>1, <2>2, Zenon DEF Fits
  <2>. QED
    BY <2>3 DEF e, p
<1>. QED
  BY <1>4, <1>1, <1>7, <1>8, <1>9 DEF J

\* The block is written and the next one can be read.
LEMMA GatherStep ==
    ASSUME PInv, Gather
    PROVE  PInv'
<1> DEFINE n == Len(block)
           J == Joined(n)
           k == Len(made.blocks)
           blk == [cells |-> J, ok |-> TRUE]
           new == [i \in 1..n |-> [kind |-> results[i].kind, id |-> results[i].id,
                                   offset |-> DeltaOffset(i), size |-> ResultSize(i)]]
           E == made.entries \o new
           X == Append(made.blocks, blk)
           at == made.offset + Sum(n)
<1>1. /\ pc = "work" /\ WorkersDone /\ \A i \in DOMAIN results : results[i].kind # "error"
      /\ made' = [made EXCEPT !.entries = E, !.blocks = X, !.offset = at]
      /\ pc' = "read" /\ input' = input /\ output' = output /\ tmp' = tmp /\ opts' = opts
      /\ size' = size /\ pos' = pos /\ block' = block /\ jobs' = jobs /\ work' = work
      /\ results' = results /\ start' = start /\ touched' = touched
  BY DEF Gather
<1>2. /\ new \in Seq(Entries) /\ Len(new) = n /\ J \in Seq(Cells) /\ Len(J) = Sum(n)
      /\ Sum(n) \in Nat /\ (n > 0 => new[1].offset = made.offset)
      /\ \A i \in 1..n : Fits(new[i], made.offset, J, Process(opts, block[i]))
  BY <1>1, GatheredBlock
<1>3. made \in Made /\ made.entries \in Seq(Entries) /\ made.blocks \in Seq(Block)
      /\ made.offset \in Nat /\ made.hash \in Seq(Chunks) /\ n \in Nat /\ block \in Seq(Chunks)
      /\ start \in Seq(Chunks) /\ pos \in Nat /\ k \in Nat
  BY DEF PInv, PackShape, Made
<1> HIDE DEF new, J
<1>4. blk \in Block /\ blk.cells = J
  BY <1>2 DEF Block
<1> HIDE DEF blk
<1>5. E \in Seq(Entries) /\ X \in Seq(Block) /\ at \in Nat
  <2>1. E \in Seq(Entries)
    BY <1>2, <1>3, ConcatProperties, Zenon
  <2>. QED
    BY <1>2, <1>3, <1>4, <2>1
<1>6. Len(X) = k + 1 /\ X[k + 1] = blk /\ X # << >>
  <2>1. Len(X) = k + 1 /\ X[k + 1] = blk
    BY <1>3, <1>4
  <2>2. Len(X) # 0
    BY <1>3, <2>1
  <2>3. X # << >>
    <3>1. Len(<< >>) = 0
      OBVIOUS
    <3>. QED
      BY <2>2, <3>1, Zenon
  <2>. QED
    BY <2>1, <2>3
<1>7. E[Len(made.entries) + 1] = new[1] \/ n = 0
  <2> DEFINE u == made.entries
  <2> HIDE DEF u
  <2>1. u \in Seq(Entries) /\ new \in Seq(Entries)
    BY <1>2, <1>3 DEF u
  <2>2. \A i \in 1..Len(new) : (u \o new)[Len(u) + i] = new[i]
    BY <2>1
  <2>3. n = 0 \/ 1 \in 1..Len(new)
    BY <1>2, <1>3
  <2>. QED
    BY <2>2, <2>3, Zenon DEF u
<1> HIDE DEF E, X, at
<1>8. /\ made' \in Made /\ made'.entries = E /\ made'.blocks = X /\ made'.offset = at
      /\ made'.hash = made.hash
  BY <1>1, <1>3, <1>5 DEF Made
<1>9. PackShape'
  BY <1>1, <1>8 DEF PInv, PackShape
<1>10. Running'
  BY <1>1 DEF PInv, Running
<1>11. Workload'
  BY <1>1 DEF Workload, WorkersDone
<1>12. ASSUME ~touched
       PROVE  /\ pos <= Len(start) /\ made'.hash = SubSeq(start, 1, pos) /\ EndsAt(made')
              /\ Laid(E, X, opts, SubSeq(start, 1, pos))
              /\ pos = Len(start) \/ pos = Len(X) * B
  <2>1. /\ pos <= Len(start) /\ made.hash = SubSeq(start, 1, pos) /\ EndsAt(made)
        /\ pos - n = k * B /\ 1 <= n /\ n <= B /\ (pos = Len(start) \/ n = B)
        /\ block = SubSeq(start, pos - n + 1, pos)
        /\ Laid(made.entries, made.blocks, opts, SubSeq(start, 1, pos - n))
    BY <1>1, <1>12 DEF PInv, Packed
  <2> DEFINE d == SubSeq(start, 1, pos - n)
             g == k * B
  <2>2. g \in Nat /\ pos - n = g /\ (k + 1) * B = g + B /\ B \in Nat /\ pos - n \in Nat
    BY <1>3, <2>1, Products
  <2>3. d \in Seq(Chunks) /\ Len(d) = g
    <3> HIDE DEF g
    <3>1. pos - n <= Len(start) /\ 1 \in Nat /\ 1 <= 1 /\ 1 <= pos - n + 1 /\ pos - n - 1 + 1 = g
      BY <1>3, <2>1, <2>2
    <3>. QED
      BY <1>3, <2>2, <3>1, CutFacts
  <2>4. d \o block = SubSeq(start, 1, pos)
    <3> HIDE DEF g
    <3>1. 1 \in 1..(Len(start) + 1) /\ pos - n \in (1 - 1)..Len(start) /\ pos \in (pos - n)..Len(start)
      BY <1>3, <2>1, <2>2
    <3>. QED
      BY <1>3, <2>1, <3>1, ConcatAdjacentSubSeq, Zenon
  <2>5. Len(made.entries) = g /\ Laid(made.entries, made.blocks, opts, d)
    BY <2>1, <2>3 DEF Laid
  <2> HIDE DEF d
  <2>6. made.blocks # << >> =>
           new[1].offset = made.entries[(k - 1) * B + 1].offset + Len(made.blocks[k].cells)
    BY <1>2, <2>1 DEF EndsAt
  <2>13. made.blocks = << >> => new[1].offset = 0
    BY <1>2, <2>1 DEF EndsAt
  <2>7. \A i \in 1..n : Fits(new[i], new[1].offset, blk.cells, Process(opts, block[i]))
    <3>1. new[1].offset = made.offset
      BY <1>2, <1>3, <2>1
    <3>. QED
      BY <1>2, <1>4, <3>1, Zenon
  <2>8. Laid(made.entries \o new, Append(made.blocks, blk), opts, d \o block)
    BY <1>2, <1>3, <1>4, <2>1, <2>3, <2>5, <2>6, <2>7, <2>13, LaidExtends, Zenon
  <2>9. Laid(E, X, opts, SubSeq(start, 1, pos))
    BY <2>4, <2>8, Zenon DEF E, X
  <2>10. EndsAt(made')
    <3>1. (Len(X) - 1) * B + 1 = Len(made.entries) + 1
      BY <1>3, <1>6, <2>5
    <3>2. E[(Len(X) - 1) * B + 1].offset = made.offset /\ Len(X[Len(X)].cells) = Sum(n)
      <4>1. n # 0 /\ new[1].offset = made.offset
        BY <1>2, <1>3, <2>1
      <4>. QED
        BY <1>2, <1>4, <1>6, <1>7, <3>1, <4>1
    <3>3. made'.offset = made'.entries[(Len(made'.blocks) - 1) * B + 1].offset
                            + Len(made'.blocks[Len(made'.blocks)].cells)
      BY <1>8, <3>2, Zenon DEF at
    <3>4. made'.blocks # << >>
      BY <1>6, <1>8
    <3>. QED
      BY <3>3, <3>4 DEF EndsAt
  <2>11. pos = Len(start) \/ pos = Len(X) * B
    <3>1. n = B => pos = g + B
      <4> HIDE DEF g
      <4>. QED
        BY <1>3, <2>2
    <3>. QED
      BY <1>6, <2>1, <2>2, <3>1
  <2>12. pos <= Len(start) /\ made'.hash = SubSeq(start, 1, pos)
    BY <1>8, <2>1
  <2>. QED
    BY <2>9, <2>10, <2>11, <2>12
<1>13. Packed'
  <2>1. pc' = "read" /\ pc' # "work" /\ pc' # "finish" /\ pc' \in {"read", "finish"}
    BY <1>1
  <2>. QED
    BY <1>1, <1>8, <1>12, <2>1, Zenon DEF Packed
<1>14. Installed'
  BY <1>1 DEF PInv, Installed
<1>. QED
  BY <1>9, <1>10, <1>11, <1>13, <1>14 DEF PInv

-----------------------------------------------------------------------------
(* Pack: the end of it, and what happens to the files meanwhile. *)

\* The input has been read to its end.
LEMMA EndOfInputStep ==
    ASSUME PInv, EndOfInput
    PROVE  PInv'
<1>1. /\ pc = "read" /\ pos >= Len(input) /\ pc' = "finish"
      /\ input' = input /\ output' = output /\ tmp' = tmp
      /\ opts' = opts /\ size' = size /\ pos' = pos /\ block' = block /\ jobs' = jobs
      /\ work' = work /\ results' = results /\ made' = made /\ start' = start
      /\ touched' = touched
  BY DEF EndOfInput, packing
<1>2. PackShape'
  BY <1>1 DEF PInv, PackShape
<1>3. Running' /\ Workload' /\ Installed'
  BY <1>1 DEF PInv, Running, Workload, Installed
<1>4. ASSUME ~touched
      PROVE  /\ pos <= Len(start) /\ made.hash = SubSeq(start, 1, pos) /\ EndsAt(made)
             /\ Laid(made.entries, made.blocks, opts, SubSeq(start, 1, pos))
             /\ pos = Len(start)
  <2>1. /\ pos <= Len(start) /\ made.hash = SubSeq(start, 1, pos) /\ EndsAt(made)
        /\ Laid(made.entries, made.blocks, opts, SubSeq(start, 1, pos)) /\ input = start
    BY <1>1, <1>4 DEF PInv, Packed, Running
  <2>2. pos = Len(start)
    BY <1>1, <2>1 DEF PInv, PackShape
  <2>. QED
    BY <2>1, <2>2
<1>5. Packed'
  <2>1. pc' = "finish" /\ pc' # "work" /\ pc' \in {"read", "finish"}
    BY <1>1
  <2>. QED
    BY <1>1, <1>4, <2>1, Zenon DEF Packed
<1>. QED
  BY <1>2, <1>3, <1>5 DEF PInv

(***************************************************************************)
(* The tables are written: with all blocks of the pool, or with zeros in   *)
(* place of some of them.                                                  *)
(***************************************************************************)
LEMMA FinishStep ==
    ASSUME PInv, pc = "finish", AfterTables, UNCHANGED <<input, output, packing>>,
           NEW bs \in Seq(Block), Len(bs) = Len(made.blocks),
           \A b \in 1..Len(bs) : bs[b].cells = made.blocks[b].cells,
           NEW m, m.hash = made.hash, m.entries = made.entries, m.blocks = bs, tmp' = Crom(m)
    PROVE  PInv'
<1>1. /\ opts' = opts /\ size' = size /\ pos' = pos /\ block' = block /\ jobs' = jobs
      /\ work' = work /\ results' = results /\ made' = made /\ start' = start
      /\ touched' = touched /\ input' = input /\ output' = output
  BY DEF packing
<1>2. pc' \in {"rename", "smart"}
  BY DEF AfterTables
<1>3. /\ tmp' \in CromFile /\ tmp'.hash = made.hash /\ tmp'.entries = made.entries
      /\ tmp'.blocks = bs /\ tmp'.opts = opts /\ tmp'.of = start /\ tmp'.steady = ~touched
      /\ tmp'.size = size
  BY DEF PInv, PackShape, Running, Crom, CromFile, Made
<1>4. Sound(tmp')
  <2> SUFFICES ASSUME ~touched
               PROVE  /\ made.hash = start /\ size = Len(start) /\ size > 0
                      /\ Laid(made.entries, bs, opts, start)
    BY <1>3 DEF Sound
  <2>1. /\ made.hash = SubSeq(start, 1, pos) /\ pos = Len(start)
        /\ Laid(made.entries, made.blocks, opts, SubSeq(start, 1, pos))
    BY DEF PInv, Packed
  <2>2. SubSeq(start, 1, Len(start)) = start /\ start \in Seq(Chunks)
    BY SubSeqFull DEF PInv, PackShape
  <2>3. Laid(made.entries, made.blocks, opts, start) /\ made.hash = start
    BY <2>1, <2>2
  <2>4. Laid(made.entries, bs, opts, start)
    BY <2>3, LaidSameCells
  <2>5. size = Len(start) /\ size > 0
    BY DEF PInv, Running
  <2>. QED
    BY <2>3, <2>4, <2>5
<1>5. PackShape'
  BY <1>1, <1>2, <1>3 DEF PInv, PackShape
<1>6. Running' /\ Workload' /\ Packed'
  BY <1>1, <1>2, <1>3 DEF PInv, Running, Workload, Packed
<1>7. Installed'
  BY <1>1, <1>2, <1>4 DEF PInv, Installed
<1>. QED
  BY <1>5, <1>6, <1>7 DEF PInv

\* A block is marked good or bad; its residuals are what they were.
LEMMA Marked ==
    ASSUME NEW x \in Block, NEW v \in BOOLEAN
    PROVE  [x EXCEPT !.ok = v] \in Block /\ [x EXCEPT !.ok = v].cells = x.cells
<1> DEFINE S == Seq(Cells)
<1> HIDE DEF S
<1>1. x \in [cells : S, ok : BOOLEAN]
  BY DEF Block, S
<1>2. [x EXCEPT !.ok = v] \in [cells : S, ok : BOOLEAN] /\ [x EXCEPT !.ok = v].cells = x.cells
  BY <1>1
<1>. QED
  BY <1>2 DEF Block, S

\* All blocks are there.
LEMMA FinalizeStep ==
    ASSUME PInv, Finalize
    PROVE  PInv'
<1>1. made.blocks \in Seq(Block)
  BY DEF PInv, PackShape, Made
<1>. QED
  BY <1>1, FinishStep DEF Finalize

\* The pool is cut off at a block.
LEMMA PoolLostStep ==
    ASSUME PInv, NEW k \in Nat, PoolLost(k)
    PROVE  PInv'
<1> DEFINE left(i) == i < k \/ ~Stored(opts, made.blocks[i])
           old == made.blocks
           bs == [i \in 1..Len(old) |-> [old[i] EXCEPT !.ok = left(i)]]
           m == [made EXCEPT !.blocks = bs]
<1>1. made \in Made /\ old \in Seq(Block)
  BY DEF PInv, PackShape, Made
<1>2. \A i \in 1..Len(old) : left(i) \in BOOLEAN
  BY DEF Stored
<1> HIDE DEF left
<1>3. \A i \in 1..Len(old) : bs[i] \in Block /\ bs[i].cells = old[i].cells
  <2>1. \A i \in 1..Len(old) : old[i] \in Block
    BY <1>1
  <2>2. \A i \in 1..Len(old) : bs[i] = [old[i] EXCEPT !.ok = left(i)]
    BY Zenon
  <2>. QED
    BY <1>2, <2>1, <2>2, Marked, Zenon
<1>4. bs \in Seq(Block) /\ Len(bs) = Len(old)
  <2> DEFINE n == Len(old)
  <2>1. n \in Nat /\ DOMAIN bs = 1..n /\ \A i \in 1..n : bs[i] \in Block
    <3>1. n \in Nat
      BY <1>1
    <3>2. DOMAIN bs = 1..n
      BY Zenon
    <3>. QED
      BY <1>3, <3>1, <3>2, Zenon
  <2>2. bs = [i \in 1..n |-> bs[i]]
    BY Zenon
  <2> HIDE DEF bs, n
  <2>3. bs \in Seq(Block) /\ Len(bs) = n
    BY <2>1, <2>2
  <2>. QED
    BY <2>3 DEF n
<1>5. pc = "finish" /\ AfterTables /\ UNCHANGED <<input, output, packing>>
  BY DEF PoolLost
<1>6. tmp' = Crom(m)
  BY DEF PoolLost, left
<1> HIDE DEF bs
<1>7. m.hash = made.hash /\ m.entries = made.entries /\ m.blocks = bs
  BY <1>1 DEF Made
<1> HIDE DEF m, old
<1>8. Len(bs) = Len(made.blocks) /\ \A b \in 1..Len(bs) : bs[b].cells = made.blocks[b].cells
  BY <1>3, <1>4 DEF old
<1>. QED
  BY <1>4, <1>5, <1>6, <1>7, <1>8, FinishStep, Zenon

\* The input is appended to or replaced: what is packed is not one version.
LEMMA InputChangesStep ==
    ASSUME PInv, NEW f \in Inputs, InputChanges(f)
    PROVE  PInv'
<1>1. /\ input' = f /\ touched' = TRUE /\ output' = output /\ tmp' = tmp /\ pc' = pc
      /\ opts' = opts /\ size' = size /\ pos' = pos /\ block' = block /\ jobs' = jobs
      /\ work' = work /\ results' = results /\ made' = made /\ start' = start
  BY DEF InputChanges
<1>2. PackShape'
  BY <1>1, CodecAssumption DEF PInv, PackShape
<1>3. Running' /\ Workload' /\ Packed' /\ Installed'
  BY <1>1 DEF PInv, Running, Workload, Packed, Installed
<1>. QED
  BY <1>2, <1>3 DEF PInv

\* A block of the installed file goes bad; the layout stays.
LEMMA BlockDamagedStep ==
    ASSUME PInv, NEW i \in Nat, BlockDamaged(i)
    PROVE  PInv'
<1>1. /\ input' = input /\ tmp' = tmp /\ pc' = pc
      /\ opts' = opts /\ size' = size /\ pos' = pos /\ block' = block /\ jobs' = jobs
      /\ work' = work /\ results' = results /\ made' = made /\ start' = start
      /\ touched' = touched
      /\ output # NoFile /\ i \in 1..Len(output.blocks)
      /\ output' = [output EXCEPT !.blocks[i].ok = FALSE]
  BY DEF BlockDamaged, packing
<1>2. output \in CromFile /\ output.blocks \in Seq(Block)
  BY <1>1 DEF PInv, PackShape, CromFile
<1> DEFINE old == output.blocks
           bs == [old EXCEPT ![i] = [old[i] EXCEPT !.ok = FALSE]]
<1>3. output' = [output EXCEPT !.blocks = bs]
  BY <1>1
<1> HIDE DEF old
<1>4. old \in Seq(Block) /\ i \in 1..Len(old)
  BY <1>1, <1>2 DEF old
<1>5. [old[i] EXCEPT !.ok = FALSE] \in Block /\ [old[i] EXCEPT !.ok = FALSE].cells = old[i].cells
  <2>1. old[i] \in Block
    BY <1>4
  <2>. QED
    BY <2>1, Marked, Zenon
<1>6. bs \in Seq(Block) /\ Len(bs) = Len(old) /\ \A b \in 1..Len(old) : bs[b].cells = old[b].cells
  BY <1>4, <1>5
<1> HIDE DEF bs
<1>7. /\ output' \in CromFile /\ output'.size = output.size /\ output'.hash = output.hash
      /\ output'.pass = output.pass /\ output'.entries = output.entries /\ output'.blocks = bs
      /\ output'.opts = output.opts /\ output'.of = output.of /\ output'.steady = output.steady
  BY <1>2, <1>3, <1>6 DEF CromFile
<1>8. Sound(output) => Sound(output')
  BY <1>6, <1>7, LaidSameCells DEF Sound, old
<1>9. PackShape'
  BY <1>1, <1>7 DEF PInv, PackShape
<1>10. Running' /\ Workload' /\ Packed'
  BY <1>1 DEF PInv, Running, Workload, Packed
<1>11. Installed'
  BY <1>1, <1>8 DEF PInv, Installed
<1>. QED
  BY <1>9, <1>10, <1>11 DEF PInv

\* A cut at the front of the input is a sequence of chunks.
LEMMA Prefixes ==
    ASSUME NEW h \in Nat, NEW s \in Seq(Chunks), h <= Len(s)
    PROVE  SubSeq(s, 1, h) \in Seq(Chunks)
BY CutFacts

\* Every step keeps Pack's half of the invariant.
LEMMA PackKeeps ==
    ASSUME PInv, Next
    PROVE  PInv'
<1> USE DEF PackStep, UnpackStep, WorkerStep
<1>0. PackShape
  BY DEF PInv
<1>1. ASSUME NEW o \in Options, StartPack(o)
      PROVE  PInv'
  BY <1>1, StartPackStep
<1>2. CASE CopyThrough
  <2>1. input \in Seq(Chunks)
    BY <1>0 DEF PackShape
  <2>. QED
    BY <1>2, <2>1, PassedThrough DEF CopyThrough
<1>3. ASSUME NEW k \in 0..MaxLen, CopyFails(k)
      PROVE  PInv'
  <2>1. PICK h \in {k} \cup (IF opts.encrypted THEN {Len(input)} ELSE {IF k = 0 THEN 0 ELSE k - 1}) :
           tmp' = Passthrough(SubSeq(input, 1, k), SubSeq(input, 1, h))
    BY <1>3 DEF CopyFails
  <2>2. /\ pc = "copy" /\ k < Len(input) /\ pc' = "rename"
        /\ UNCHANGED <<input, output, packing>>
    BY <1>3 DEF CopyFails
  <2>3. input \in Seq(Chunks) /\ Len(input) \in Nat /\ k \in Nat
    BY <1>0 DEF PackShape
  <2>4. h \in Nat /\ h <= Len(input) /\ k <= Len(input)
    BY <2>1, <2>2, <2>3
  <2>5. SubSeq(input, 1, k) \in Seq(Chunks) /\ SubSeq(input, 1, h) \in Seq(Chunks)
    BY <2>3, <2>4, Prefixes
  <2>6. pc \in {"copy", "smart"}
    BY <2>2
  <2>. QED
    BY <2>1, <2>2, <2>5, <2>6, PassedThrough, Zenon
<1>4. CASE ReadBlock
  BY <1>4, ReadBlockStep
<1>5. ASSUME NEW w \in Workers, TakeJob(w)
      PROVE  PInv'
  BY <1>5, TakeJobStep
<1>6. ASSUME NEW w \in Workers, ProcessChunk(w)
      PROVE  PInv'
  BY <1>6, StoreResultStep DEF ProcessChunk
<1>7. ASSUME NEW w \in Workers, SearchFails(w)
      PROVE  PInv'
  BY <1>7, StoreResultStep DEF SearchFails, Failed
<1>8. ASSUME pc # "idle", Fail
      PROVE  PInv'
  BY <1>8, PackEnded DEF Fail, PInv, PackShape, Installed
<1>9. CASE GatherError
  BY <1>8, <1>9 DEF GatherError
<1>10. CASE Gather
  BY <1>10, GatherStep
<1>11. CASE PackError
  BY <1>8, <1>11 DEF PackError
<1>12. CASE EndOfInput
  BY <1>12, EndOfInputStep
<1>13. CASE Finalize
  BY <1>13, FinalizeStep
<1>14. ASSUME NEW k \in 1..MaxLen, PoolLost(k)
       PROVE  PInv'
  BY <1>14, PoolLostStep
<1>15. CASE SmartPassthrough
  <2>1. input \in Seq(Chunks)
    BY <1>0 DEF PackShape
  <2>. QED
    BY <1>15, <2>1, PassedThrough DEF SmartPassthrough
<1>16. CASE RenameOutput
  <2>1. tmp \in CromFile /\ Sound(tmp)
    BY <1>16 DEF RenameOutput, PInv, Running, Installed
  <2>. QED
    BY <1>16, <2>1, PackEnded DEF RenameOutput
<1>17. CASE RenameFails
  BY <1>17, PackEnded DEF RenameFails, PInv, PackShape, Installed
<1>18. CASE PackCrash
  BY <1>18, PackEnded DEF PackCrash, PInv, PackShape, Installed
<1>19. CASE (\E s, b \in BOOLEAN : StartUnpack(s, b)) \/ UnpackStep
  <2>1. UNCHANGED <<input, output, tmp, pc, packing>>
    BY <1>19 DEF StartUnpack, CopyBack, BlockFails, SkipBlock, RebuildBlock, AllBlocks,
                 HashMismatch, RenameRestored, UnpackIOError, UFail
  <2>. QED
    BY <2>1, Halves
<1>20. ASSUME NEW f \in Inputs, InputChanges(f)
       PROVE  PInv'
  BY <1>20, InputChangesStep
<1>21. ASSUME NEW i \in 1..MaxLen, BlockDamaged(i)
       PROVE  PInv'
  BY <1>21, BlockDamagedStep
<1>. QED
  BY <1>1, <1>2, <1>3, <1>4, <1>5, <1>6, <1>7, <1>9, <1>10, <1>11, <1>12, <1>13, <1>14, <1>15,
     <1>16, <1>17, <1>18, <1>19, <1>20, <1>21 DEF Next

-----------------------------------------------------------------------------
(* Unpack: opening the file. *)

\* The block of a chunk, by the quotient of its index.
LEMMA BlockOf ==
    ASSUME NEW k \in Nat, NEW n \in Nat, n <= k * B, NEW i \in 1..n
    PROVE  /\ (i - 1) \div B + 1 \in 1..k
           /\ (((i - 1) \div B + 1) - 1) * B < i /\ i <= ((i - 1) \div B + 1) * B
<1> DEFINE q == (i - 1) \div B
<1>1. i - 1 \in Nat
  OBVIOUS
<1>2. q \in Nat /\ q * B <= i - 1 /\ i - 1 < q * B + B
  BY <1>1, BlockOfIndex
<1> HIDE DEF q
<1>3. (q + 1) * B = q * B + B /\ (q + 1) - 1 = q
  BY <1>2, Products
<1>4. q < k
  <2> SUFFICES ASSUME k <= q
               PROVE  FALSE
    BY <1>2
  <2>1. k * B <= q * B /\ k * B \in Nat /\ q * B \in Nat
    BY <1>2, Products
  <2> DEFINE x == k * B
             y == q * B
  <2>2. x <= y /\ x \in Nat /\ y \in Nat /\ y <= i - 1 /\ n <= x
    BY <1>2, <2>1
  <2> HIDE DEF x, y
  <2>. QED
    BY <2>2
<1>5. q + 1 \in 1..k
  BY <1>2, <1>4
<1>6. q * B < i /\ i <= q * B + B
  <2> DEFINE y == q * B
  <2>1. y \in Nat /\ y <= i - 1 /\ i - 1 < y + B /\ B \in Nat
    BY <1>2, Products
  <2> HIDE DEF y
  <2>2. y < i /\ i <= y + B
    BY <2>1
  <2>. QED
    BY <2>2 DEF y
<1>7. ((q + 1) - 1) * B < i /\ i <= (q + 1) * B
  BY <1>3, <1>6
<1>. QED
  BY <1>5, <1>7 DEF q

\* As many blocks as the entries fill.
Filled(f) ==
    /\ f.entries # << >> /\ Len(f.entries) > 0
    /\ Len(f.blocks) * B - B < Len(f.entries) /\ Len(f.entries) <= Len(f.blocks) * B

\* The tables agree when the blocks are as many as the entries fill.
LEMMA TablesFilled ==
    ASSUME NEW f \in CromFile
    PROVE  /\ TablesAgree(f) => Filled(f)
           /\ Filled(f) /\ f.size = Len(f.entries) => TablesAgree(f)
<1> DEFINE n == Len(f.entries)
           k == Len(f.blocks)
           u == (n + BlockChunks - 1) \div BlockChunks
<1>1. f.entries \in Seq(Entries) /\ n \in Nat /\ k \in Nat
  BY DEF CromFile
<1>2. f.entries # << >> <=> n > 0
  BY <1>1
<1>3. ASSUME n > 0
      PROVE  u * B - B < n /\ n <= u * B /\ \A j \in Nat : j * B - B < n /\ n <= j * B => u = j
  BY <1>1, <1>3, RoundedUp
<1>4. NumStarts(f) = u
  BY DEF NumStarts
<1>5. ASSUME TablesAgree(f)
      PROVE  Filled(f)
  <2>1. k = u /\ n > 0 /\ f.entries # << >>
    BY <1>2, <1>4, <1>5 DEF TablesAgree
  <2> HIDE DEF u
  <2>. QED
    BY <1>3, <2>1 DEF Filled
<1>6. ASSUME Filled(f), f.size = n
      PROVE  TablesAgree(f)
  <2>1. n > 0 /\ k * B - B < n /\ n <= k * B /\ f.entries # << >>
    BY <1>6 DEF Filled
  <2>2. u = k
    <3> HIDE DEF u
    <3>. QED
      BY <1>1, <1>3, <2>1
  <2>3. NumBlocks(f) = u
    BY <1>1, <1>6, <2>1 DEF NumBlocks
  <2>. QED
    BY <1>4, <2>1, <2>2, <2>3 DEF TablesAgree
<1>. QED
  BY <1>5, <1>6

\* Of an input that stayed as it was, the header and the tables agree.
LEMMA SoundTables ==
    ASSUME NEW f \in CromFile, Sound(f), f.steady, ~f.pass
    PROVE  TablesAgree(f)
<1>1. /\ Laid(f.entries, f.blocks, f.opts, f.of) /\ f.size = Len(f.of) /\ f.size > 0
  BY DEF Sound
<1> DEFINE n == Len(f.of)
           k == Len(f.blocks)
           r == k * B
<1>2. /\ f.entries \in Seq(Entries) /\ n \in Nat /\ k \in Nat /\ n > 0
      /\ Len(f.entries) = n /\ n <= r /\ \A b \in 1..k : (b - 1) * B < n
  BY <1>1 DEF Laid, CromFile
<1>3. k # 0
  <2> SUFFICES ASSUME k = 0
               PROVE  FALSE
    OBVIOUS
  <2>1. r = 0
    BY Products
  <2> HIDE DEF r
  <2>. QED
    BY <1>2, <2>1
<1>4. (k - 1) * B < n /\ (k - 1) * B = r - B
  <2>1. k \in 1..k
    BY <1>2, <1>3
  <2>2. (k - 1) * B < n
    BY <1>2, <2>1, Zenon
  <2>. QED
    BY <1>2, <2>2, Products
<1>5. f.entries # << >>
  BY <1>2
<1>6. Filled(f)
  BY <1>2, <1>4, <1>5 DEF Filled
<1>. QED
  BY <1>1, <1>2, <1>6, TablesFilled

\* Unpack opens what is at outputPath.
LEMMA StartUnpackStep ==
    ASSUME PInv, UInv, NEW s \in BOOLEAN, NEW b \in BOOLEAN, StartUnpack(s, b)
    PROVE  UInv'
<1>1. /\ output # NoFile /\ src' = output /\ strict' = s /\ sameBrain' = b
      /\ cur' = [block |-> 1, entry |-> 1, offset |-> 0] /\ out' = << >> /\ skipped' = 0
      /\ restored' = restored
      /\ \/ upc' = "copy" /\ output.pass
         \/ upc' = "blocks" /\ ~output.pass /\ TablesAgree(output)
         \/ upc' = "failed" /\ ~output.pass /\ (~TablesAgree(output) \/ (output.opts.brain /\ ~b))
  BY DEF StartUnpack
<1>2. output \in CromFile /\ Sound(output)
  BY <1>1 DEF PInv, PackShape, Installed
<1>3. UnpackShape'
  <2>1. << >> \in Seq(Chunks \cup {Zero, Wrong})
    OBVIOUS
  <2>. QED
    BY <1>1, <1>2, <2>1 DEF UInv, UnpackShape
<1>4. Opened'
  BY <1>1, <1>2 DEF Opened
<1>5. ASSUME upc' = "blocks"
      PROVE  /\ ~src'.pass /\ TablesAgree(src)'
             /\ cur'.block \in 1..(Len(src'.blocks) + 1)
             /\ cur'.entry = Min((cur'.block - 1) * B, Len(src'.entries)) + 1
             /\ Len(out') = cur'.entry - 1
             /\ (src'.steady /\ cur'.block <= Len(src'.blocks)
                    => cur'.offset = src'.entries[cur'.entry].offset)
             /\ Restored(out)'
  <2>1. ~output.pass /\ TablesAgree(output)
    BY <1>1, <1>5
  <2>2. Len(output.entries) \in Nat /\ Len(output.blocks) \in Nat
    BY <1>2 DEF CromFile
  <2>3. cur'.block = 1 /\ cur'.entry = 1 /\ cur'.offset = 0 /\ Len(out') = 0
    BY <1>1
  <2>4. (1 - 1) * B = 0
    BY Products
  <2>5. Min((cur'.block - 1) * B, Len(src'.entries)) = 0
    BY <1>1, <2>2, <2>3, <2>4 DEF Min
  <2>6. output.steady => output.entries[1].offset = 0
    BY <1>2, <2>1 DEF Sound, Laid
  <2>7. Restored(out)'
    <3>1. 1..Len(out') = {}
      BY <2>3
    <3>. QED
      BY <3>1, Zenon DEF Restored
  <2>8. TablesAgree(src)'
    BY <1>1, <2>1 DEF TablesAgree, NumBlocks, NumStarts
  <2>. QED
    BY <1>1, <2>1, <2>2, <2>3, <2>5, <2>6, <2>7, <2>8
<1>6. Walking'
  <2>1. upc' = "copy" => src'.pass
    BY <1>1
  <2>2. upc' \notin {"check", "done"} /\ upc' # "done"
    BY <1>1
  <2>. QED
    BY <1>5, <2>1, <2>2, Zenon DEF Walking
<1>7. UnpackFailsForCause'
  BY <1>1, <1>2, SoundTables DEF UnpackFailsForCause
<1>. QED
  BY <1>3, <1>4, <1>6, <1>7 DEF UInv
-----------------------------------------------------------------------------
(* Unpack: walking the blocks. *)

\* Where the walk is: at the first entry of a block that has entries.
LEMMA AtFirst ==
    ASSUME UInv, AtBlock
    PROVE  /\ src \in CromFile /\ Sound(src) /\ ~src.pass /\ Filled(src)
           /\ cur.block \in 1..Len(src.blocks)
           /\ cur.entry = (cur.block - 1) * B + 1 /\ cur.entry = First(cur.block)
           /\ Last(src, cur.block) = Min(cur.block * B, Len(src.entries))
           /\ Last(src, cur.block) \in Nat /\ cur.entry \in Nat
           /\ cur.entry <= Last(src, cur.block)
           /\ Last(src, cur.block) <= Len(src.entries) /\ Last(src, cur.block) <= cur.block * B
           /\ cur.block + 1 <= Len(src.blocks) =>
                 Last(src, cur.block) = cur.block * B /\ cur.block * B < Len(src.entries)
<1>1. /\ upc = "blocks" /\ cur.block <= Len(src.blocks) /\ src \in CromFile /\ Sound(src)
      /\ ~src.pass /\ TablesAgree(src) /\ cur.block \in 1..(Len(src.blocks) + 1)
      /\ cur.entry = Min((cur.block - 1) * B, Len(src.entries)) + 1
  BY DEF AtBlock, UInv, Opened, Walking
<1>2. Filled(src)
  BY <1>1, TablesFilled
<1> DEFINE c == cur.block
           k == Len(src.blocks)
           n == Len(src.entries)
           p == (c - 1) * B
           q == c * B
           r == k * B
<1>3. k \in Nat /\ n \in Nat /\ c \in 1..k
  BY <1>1 DEF CromFile
<1>4. p \in Nat /\ q \in Nat /\ r \in Nat /\ B \in Nat /\ B >= 1 /\ p = q - B /\ q <= r
      /\ (c + 1 <= k => q + B <= r)
  <2> HIDE DEF c, k
  <2>1. c \in Nat /\ k \in Nat /\ c <= k /\ (c + 1 <= k => c < k) /\ c - 1 \in Nat
    BY <1>3
  <2>. QED
    BY <2>1, Products
<1>5. r - B < n /\ n <= r
  BY <1>2 DEF Filled
<1>6. First(c) = p + 1 /\ Last(src, c) = Min(q, n)
  BY DEF First, Last, B
<1> HIDE DEF p, q, r
<1>7. cur.entry = Min(p, n) + 1
  BY <1>1 DEF p
<1>8. p < n /\ (c + 1 <= k => q < n)
  BY <1>3, <1>4, <1>5
<1>9. Min(p, n) = p /\ (c + 1 <= k => Min(q, n) = q)
      /\ Min(q, n) \in Nat /\ Min(q, n) <= n /\ Min(q, n) <= q /\ p + 1 <= Min(q, n)
  BY <1>3, <1>4, <1>8 DEF Min
<1>10. /\ cur.entry = p + 1 /\ cur.entry = First(c) /\ Last(src, c) = Min(q, n)
       /\ Last(src, c) \in Nat /\ cur.entry \in Nat /\ cur.entry <= Last(src, c)
       /\ Last(src, c) <= n /\ Last(src, c) <= q
       /\ (c + 1 <= k => Last(src, c) = q /\ q < n)
  BY <1>4, <1>6, <1>7, <1>8, <1>9
<1>. QED
  BY <1>1, <1>2, <1>3, <1>10 DEF p, q

\* The parts of a .crom.
LEMMA FileParts ==
    ASSUME NEW f \in CromFile
    PROVE  /\ f.opts \in Options /\ f.of \in Seq(Chunks) /\ f.hash \in Seq(Chunks)
           /\ Len(f.entries) \in Nat /\ Len(f.blocks) \in Nat
           /\ \A i \in 1..Len(f.entries) : /\ f.entries[i] \in Entries
                                           /\ f.entries[i].offset \in Nat
                                           /\ f.entries[i].size \in Nat
           /\ \A b \in 1..Len(f.blocks) : Len(f.blocks[b].cells) \in Nat
<1>1. /\ f.opts \in Options /\ f.of \in Seq(Chunks) /\ f.hash \in Seq(Chunks)
      /\ f.entries \in Seq(Entries) /\ f.blocks \in Seq(Block)
  BY DEF CromFile
<1>2. \A i \in 1..Len(f.entries) : f.entries[i] \in Entries
  BY <1>1
<1>3. \A e \in Entries : e.offset \in Nat /\ e.size \in Nat
  BY DEF Entries
<1>4. \A b \in 1..Len(f.blocks) : f.blocks[b] \in Block
  BY <1>1
<1>5. \A x \in Block : Len(x.cells) \in Nat
  BY DEF Block
<1>6. Len(f.entries) \in Nat /\ Len(f.blocks) \in Nat
  BY <1>1
<1>. QED
  BY <1>1, <1>2, <1>3, <1>4, <1>5, <1>6, Zenon

(***************************************************************************)
(* In a file of an input that stayed as it was, the entries of the block   *)
(* at hand point into it, at the residuals of their chunks.                *)
(***************************************************************************)
LEMMA BlockHolds ==
    ASSUME UInv, AtBlock, src.steady
    PROVE  /\ Len(src.entries) = Len(src.of)
           /\ cur.block * B < Len(src.entries) =>
                 Entry(cur.block * B + 1).offset = cur.offset + Len(TheBlock.cells)
           /\ \A i \in cur.entry..Last(src, cur.block) :
                 /\ ~Beyond(i) /\ src.of[i] \in Chunks /\ i \in 1..Len(src.of)
                 /\ Entry(i).kind = Process(src.opts, src.of[i]).kind
                 /\ Entry(i).id = Process(src.opts, src.of[i]).id
                 /\ Cut(i) = Process(src.opts, src.of[i]).res
<1>1. /\ src \in CromFile /\ Sound(src) /\ ~src.pass /\ cur.block \in 1..Len(src.blocks)
      /\ cur.entry = (cur.block - 1) * B + 1 /\ cur.entry \in Nat
      /\ Last(src, cur.block) \in Nat /\ cur.entry <= Last(src, cur.block)
      /\ Last(src, cur.block) <= Len(src.entries) /\ Last(src, cur.block) <= cur.block * B
  BY AtFirst
<1> DEFINE c == cur.block
<1>2. Laid(src.entries, src.blocks, src.opts, src.of)
  BY <1>1 DEF Sound
<1>3. cur.offset = src.entries[cur.entry].offset
  BY DEF UInv, Walking, AtBlock
<1>4. Len(src.entries) = Len(src.of) /\ Len(src.of) \in Nat
  BY <1>1, <1>2 DEF Laid, CromFile
<1>5. cur.block * B < Len(src.entries) =>
         Entry(cur.block * B + 1).offset = cur.offset + Len(TheBlock.cells)
  BY <1>1, <1>2, <1>3, <1>4, ZenonT(30) DEF Laid, Entry, TheBlock
<1>6. ASSUME NEW i \in cur.entry..Last(src, cur.block)
      PROVE  /\ ~Beyond(i) /\ src.of[i] \in Chunks /\ i \in 1..Len(src.of)
             /\ Entry(i).kind = Process(src.opts, src.of[i]).kind
             /\ Entry(i).id = Process(src.opts, src.of[i]).id
             /\ Cut(i) = Process(src.opts, src.of[i]).res
  <2>1. i \in 1..Len(src.of) /\ (c - 1) * B < i /\ i <= c * B
    <3> DEFINE p == (c - 1) * B
               q == c * B
    <3>1. p \in Nat /\ q \in Nat
      BY <1>1, Products, SMTT(30)
    <3>2. cur.entry = p + 1 /\ Last(src, cur.block) <= q
      BY <1>1
    <3> HIDE DEF p, q
    <3>3. i \in 1..Len(src.of) /\ p < i /\ i <= q
      BY <1>1, <1>4, <3>1, <3>2
    <3>. QED
      BY <3>3 DEF p, q
  <2>2. src.of[i] \in Chunks
    BY <1>1, <2>1 DEF CromFile
  <2>3. Placed(src.entries, src.blocks, src.opts, src.of, c, i)
    BY <1>1, <1>2, <2>1 DEF Laid
  <2> DEFINE e == src.entries[i]
             P == Process(src.opts, src.of[i])
             cells == src.blocks[c].cells
  <2>4. Fits(e, cur.offset, cells, P)
    BY <1>1, <1>3, <2>3, PlacedFits
  <2>5. e.offset \in Nat /\ e.size \in Nat /\ cur.offset \in Nat
    <3>1. e.offset \in Nat /\ e.size \in Nat
      BY <1>1, <1>4, <2>1, FileParts, Zenon
    <3>. QED
      BY <3>1 DEF UInv, UnpackShape
  <2> HIDE DEF e, P, cells
  <2>6. /\ e.kind = P.kind /\ e.id = P.id /\ cur.offset <= e.offset
        /\ e.offset - cur.offset + e.size <= Len(cells)
        /\ SubSeq(cells, e.offset - cur.offset + 1, e.offset - cur.offset + e.size) = P.res
    BY <2>4 DEF Fits
  <2>7. ~(e.offset < cur.offset) /\ ~(e.offset - cur.offset + e.size > Len(cells))
    <3>1. Len(cells) \in Nat
      BY <1>1, FileParts, Zenon DEF cells
    <3>. QED
      BY <2>5, <2>6, <3>1
  <2>8. ~Beyond(i)
    BY <2>7, Zenon DEF Beyond, Entry, TheBlock, e, cells
  <2>9. Entry(i).kind = P.kind /\ Entry(i).id = P.id /\ Cut(i) = P.res
    BY <2>6, Zenon DEF Cut, Entry, TheBlock, e, cells
  <2>. QED
    BY <2>1, <2>2, <2>8, <2>9 DEF P
<1>. QED
  BY <1>4, <1>5, <1>6

\* One block further: the chunks of the block are written behind the others.
LEMMA WalkOn ==
    ASSUME UInv, AtBlock, UNCHANGED <<upc, src, strict, sameBrain, restored>>,
           NEW more \in Seq(Chunks \cup {Zero, Wrong}),
           Len(more) = Last(src, cur.block) - cur.entry + 1, out' = out \o more,
           NEW at \in Nat, skipped' \in Nat,
           cur' = [block |-> cur.block + 1, entry |-> Last(src, cur.block) + 1, offset |-> at],
           src.steady /\ cur.block + 1 <= Len(src.blocks) => at = Entry(cur.block * B + 1).offset,
           src.steady /\ Known /\ TheBlock.ok =>
              \A j \in 1..Len(more) : Right(src, cur.entry + j - 1, more[j])
    PROVE  UInv'
<1> DEFINE c == cur.block
           k == Len(src.blocks)
           n == Len(src.entries)
           l == Last(src, cur.block)
           p == (c - 1) * B
           q == c * B
           All == Chunks \cup {Zero, Wrong}
<1> HIDE DEF All
<1>1. /\ upc' = upc /\ src' = src /\ strict' = strict /\ sameBrain' = sameBrain
      /\ restored' = restored /\ upc = "blocks"
  BY DEF AtBlock
<1>2. /\ src \in CromFile /\ Sound(src) /\ ~src.pass /\ Filled(src) /\ c \in 1..k
      /\ cur.entry = p + 1 /\ cur.entry = First(c) /\ l = Min(q, n)
      /\ l \in Nat /\ cur.entry \in Nat /\ cur.entry <= l /\ l <= n /\ l <= q
      /\ (c + 1 <= k => l = q /\ q < n)
  BY AtFirst
<1>3. /\ TablesAgree(src) /\ Len(out) = cur.entry - 1 /\ Restored(out)
      /\ out \in Seq(All) /\ more \in Seq(All)
  BY <1>1 DEF UInv, Walking, UnpackShape, All
<1>4. k \in Nat /\ n \in Nat /\ p \in Nat /\ q \in Nat /\ B \in Nat /\ p = q - B
      /\ c \in Nat /\ (c + 1) - 1 = c
  <2>1. k \in Nat /\ n \in Nat
    BY <1>2, FileParts
  <2> HIDE DEF c, k, n
  <2>2. c \in Nat /\ c - 1 \in Nat /\ (c + 1) - 1 = c
    BY <1>2, <2>1
  <2>3. p \in Nat /\ q \in Nat /\ B \in Nat /\ p = q - B
    BY <2>2, Products
  <2>. QED
    BY <2>1, <2>2, <2>3
<1>5. /\ out' \in Seq(All) /\ Len(out') = Len(out) + Len(more)
      /\ \A i \in 1..Len(out) : out'[i] = out[i]
      /\ \A i \in 1..Len(more) : out'[Len(out) + i] = more[i]
  <2>1. out \o more \in Seq(All)
    BY <1>3, ConcatProperties, Zenon
  <2>2. Len(out \o more) = Len(out) + Len(more)
    BY <1>3, ConcatIs, Zenon
  <2> HIDE DEF c, k, n, l, p, q
  <2>3. \A i \in 1..Len(out) : (out \o more)[i] = out[i]
    BY ONLY <1>3
  <2>4. \A i \in 1..Len(more) : (out \o more)[Len(out) + i] = more[i]
    BY ONLY <1>3
  <2>. QED
    BY <2>1, <2>2, <2>3, <2>4, Zenon
<1>6. cur'.block = c + 1 /\ cur'.entry = l + 1 /\ cur'.offset = at
  OBVIOUS
<1>7. UnpackShape'
  <2>1. cur' \in [block : Nat, entry : Nat, offset : Nat]
    <3> HIDE DEF c, l, p, q
    <3>1. c \in Nat /\ l \in Nat
      BY <1>2, <1>4, Zenon
    <3>. QED
      BY <3>1 DEF c, l
  <2>. QED
    BY <1>1, <1>5, <2>1, Zenon DEF UInv, UnpackShape, All
<1>8. Opened' /\ UnpackFailsForCause'
  BY <1>1 DEF UInv, Opened, UnpackFailsForCause
<1>9. Len(out') = l
  <2> HIDE DEF p, q, l
  <2>. QED
    BY <1>2, <1>3, <1>5 DEF l
<1>10. Restored(out)'
  <2> SUFFICES ASSUME src.steady, Known, NEW b \in 1..k, NEW i \in 1..Len(out'),
                      (b - 1) * B < i, i <= b * B, src.blocks[b].ok
               PROVE  Right(src, i, out'[i])
    BY <1>1, SMTT(30) DEF Restored, Known, Right, Lossy
  <2>1. CASE i \in 1..Len(out)
    <3>1. Right(src, i, out[i])
      BY <1>3, <2>1, Zenon DEF Restored
    <3>2. out'[i] = out[i]
      BY <1>5, <2>1, Zenon
    <3>. QED
      BY <3>1, <3>2, Zenon
  <2>2. CASE i \notin 1..Len(out)
    <3>1. i - Len(out) \in 1..Len(more) /\ i = Len(out) + (i - Len(out)) /\ p < i /\ i <= q
          /\ cur.entry + (i - Len(out)) - 1 = i
      <4> HIDE DEF p, q, l
      <4>1. Len(out) \in Nat /\ Len(more) \in Nat /\ Len(out') = l /\ l = Len(out) + Len(more)
        BY <1>3, <1>5, <1>9
      <4>2. i \in 1..l /\ ~(i <= Len(out)) /\ l <= q /\ l \in Nat /\ Len(out) = p
        BY <1>2, <1>3, <1>4, <2>2, <4>1
      <4>3. cur.entry = p + 1 /\ p \in Nat /\ q \in Nat
        BY <1>2, <1>4
      <4>. QED
        BY ONLY <4>1, <4>2, <4>3
    <3>2. b = c
      <4>1. b \in Nat /\ i \in Nat /\ (b - 1) * B = b * B - B
        BY <1>4, Products
      <4>2. b * B - B < i /\ c * B - B < i /\ i <= c * B
        BY <1>4, <3>1, <4>1
      <4>. QED
        BY <1>4, <4>1, <4>2, SameBlock
    <3>3. Right(src, cur.entry + (i - Len(out)) - 1, more[i - Len(out)])
      BY <3>1, <3>2, Zenon DEF TheBlock
    <3>4. out'[i] = more[i - Len(out)]
      BY <1>5, <3>1, Zenon
    <3>. QED
      BY <3>1, <3>3, <3>4, Zenon
  <2>. QED
    BY <2>1, <2>2
<1>11. ASSUME src.steady, c + 1 <= k
       PROVE  at = src.entries[l + 1].offset
  <2>1. l = q /\ at = Entry(q + 1).offset
    BY <1>2, <1>11
  <2>. QED
    BY <2>1, Zenon DEF Entry
<1>12. cur'.entry = Min((cur'.block - 1) * B, n) + 1 /\ Len(out') = cur'.entry - 1
  <2>1. (cur'.block - 1) * B = q
    BY <1>4, <1>6
  <2> HIDE DEF q, l
  <2>. QED
    BY <1>2, <1>6, <1>9, <2>1, SMTT(30) DEF l
<1>13. Walking'
  <2>1. /\ ~src'.pass /\ TablesAgree(src)' /\ cur'.block \in 1..(Len(src'.blocks) + 1)
        /\ cur'.entry = Min((cur'.block - 1) * B, Len(src'.entries)) + 1
        /\ Len(out') = cur'.entry - 1
    <3>1. TablesAgree(src)'
      BY <1>1, <1>3 DEF TablesAgree, NumBlocks, NumStarts
    <3>2. cur'.block \in 1..(k + 1)
      <4> HIDE DEF c, k
      <4>. QED
        BY <1>2, <1>4, <1>6, SMTT(30)
    <3>. QED
      BY <1>1, <1>2, <1>12, <3>1, <3>2, Zenon
  <2>2. src'.steady /\ cur'.block <= Len(src'.blocks)
           => cur'.offset = src'.entries[cur'.entry].offset
    BY <1>1, <1>6, <1>11
  <2>3. upc' = "blocks" /\ upc' # "copy" /\ upc' \notin {"check", "done"} /\ upc' # "done"
    BY <1>1
  <2>. QED
    BY <1>10, <2>1, <2>2, <2>3, Zenon DEF Walking
<1>. QED
  BY <1>7, <1>8, <1>13 DEF UInv

\* A block is skipped: it is bad, or was packed with another brain.
LEMMA SkipBlockStep ==
    ASSUME UInv, SkipBlock
    PROVE  UInv'
<1> DEFINE l == Last(src, cur.block)
           next == l + 1
           more == [i \in 1..(next - cur.entry) |-> Zero]
           at == IF next <= Len(src.entries) THEN Entry(next).offset ELSE cur.offset
<1>1. /\ AtBlock /\ out' = out \o more /\ skipped' = skipped + 1
      /\ cur' = [block |-> cur.block + 1, entry |-> next, offset |-> at]
      /\ UNCHANGED <<upc, src, strict, sameBrain, restored>>
  BY DEF SkipBlock
<1>2. Unreadable \/ OtherDict
  BY DEF SkipBlock
<1>3. /\ src \in CromFile /\ l \in Nat /\ cur.entry \in Nat /\ cur.entry <= l
      /\ l <= Len(src.entries) /\ Len(src.entries) \in Nat
      /\ (cur.block + 1 <= Len(src.blocks) =>
             l = cur.block * B /\ cur.block * B < Len(src.entries))
  BY <1>1, AtFirst, FileParts
<1> HIDE DEF l
<1>4. more \in Seq(Chunks \cup {Zero, Wrong}) /\ Len(more) = l - cur.entry + 1
  BY <1>3
<1>5. at \in Nat
  <2>1. cur.offset \in Nat /\ (next <= Len(src.entries) => next \in 1..Len(src.entries))
    BY <1>3 DEF UInv, UnpackShape
  <2>2. \A i \in 1..Len(src.entries) : Entry(i).offset \in Nat
    BY <1>3, FileParts, Zenon DEF Entry
  <2>. QED
    BY <2>1, <2>2
<1>6. cur.block + 1 <= Len(src.blocks) => at = Entry(cur.block * B + 1).offset
  <2>1. cur.block + 1 <= Len(src.blocks) => next = cur.block * B + 1 /\ next <= Len(src.entries)
    <3> DEFINE q == cur.block * B
    <3>1. cur.block + 1 <= Len(src.blocks) => l = q /\ q < Len(src.entries)
      BY <1>3
    <3> HIDE DEF q
    <3>2. cur.block + 1 <= Len(src.blocks) => next = q + 1 /\ next <= Len(src.entries)
      BY <1>3, <3>1
    <3>. QED
      BY <3>2 DEF q
  <2> HIDE DEF next
  <2>. QED
    BY <2>1
<1>7. ~(Known /\ TheBlock.ok)
  BY <1>2 DEF Known, Unreadable, OtherDict
<1>8. skipped' \in Nat
  BY <1>1 DEF UInv, UnpackShape
<1> HIDE DEF more, at
<1>. QED
  BY <1>1, <1>4, <1>5, <1>6, <1>7, <1>8, WalkOn DEF l

\* A block is rebuilt.
LEMMA RebuildBlockStep ==
    ASSUME UInv, RebuildBlock
    PROVE  UInv'
<1> DEFINE l == Last(src, cur.block)
           n == l - First(cur.block) + 1
           bad == {j \in 1..n : Beyond(cur.entry + j - 1)}
           chunk(j) == IF j \in bad THEN Zero
                       ELSE Rebuild(Entry(cur.entry + j - 1), Cut(cur.entry + j - 1), sameBrain)
           more == [j \in 1..n |-> chunk(j)]
           at == cur.offset + Len(TheBlock.cells)
<1>1. /\ AtBlock /\ out' = out \o more /\ skipped' = skipped + Cardinality(bad)
      /\ cur' = [block |-> cur.block + 1, entry |-> cur.entry + n, offset |-> at]
      /\ UNCHANGED <<upc, src, strict, sameBrain, restored>>
  BY DEF RebuildBlock
<1>2. /\ src \in CromFile /\ l \in Nat /\ cur.entry \in Nat /\ cur.entry <= l
      /\ l <= Len(src.entries) /\ Len(src.entries) \in Nat /\ cur.entry = First(cur.block)
      /\ (cur.block + 1 <= Len(src.blocks) =>
             l = cur.block * B /\ cur.block * B < Len(src.entries))
      /\ cur.block \in 1..Len(src.blocks)
      /\ cur.entry >= 1
  <2>1. cur.entry >= 1
    <3>1. /\ cur.block \in 1..Len(src.blocks) /\ cur.entry = (cur.block - 1) * B + 1
          /\ Len(src.blocks) \in Nat
      BY <1>1, AtFirst, FileParts
    <3>2. (cur.block - 1) * B \in Nat
      BY <3>1, InBlocks
    <3>. QED
      BY <3>1, <3>2
  <2>. QED
    BY <1>1, <2>1, AtFirst, FileParts
<1>3. n \in Nat /\ cur.entry + n = l + 1 /\ n = l - cur.entry + 1
      /\ \A j \in 1..n : /\ cur.entry + j - 1 \in cur.entry..l
                         /\ cur.entry + j - 1 \in 1..Len(src.entries)
  BY <1>2, SMTT(30)
<1>4. skipped' \in Nat
  <2>1. IsFiniteSet(1..n) /\ bad \in SUBSET (1..n)
    BY <1>3, FS_Interval
  <2>2. Cardinality(bad) \in Nat
    BY <2>1, FS_Subset, FS_CardinalityType
  <2>. QED
    BY <1>1, <2>2 DEF UInv, UnpackShape
<1>5. \A j \in 1..n : chunk(j) \in Chunks \cup {Zero, Wrong}
  <2> SUFFICES ASSUME NEW j \in 1..n
               PROVE  chunk(j) \in Chunks \cup {Zero, Wrong}
    OBVIOUS
  <2>1. Entry(cur.entry + j - 1) \in Entries
    BY <1>2, <1>3, FileParts, Zenon DEF Entry
  <2>2. sameBrain \in BOOLEAN
    BY DEF UInv, UnpackShape
  <2>3. Rebuild(Entry(cur.entry + j - 1), Cut(cur.entry + j - 1), sameBrain) \in Chunks \cup {Wrong}
    BY <2>1, <2>2, RebuildType, Zenon
  <2>. QED
    BY <2>3
<1>6. ASSUME src.steady, Known, NEW j \in 1..n
      PROVE  Right(src, cur.entry + j - 1, chunk(j))
  <2> DEFINE i == cur.entry + j - 1
             o == src.opts
             c == src.of[i]
  <2>1. i \in cur.entry..Last(src, cur.block)
    BY <1>3
  <2> HIDE DEF i
  <2>2. /\ ~Beyond(i) /\ c \in Chunks
        /\ Entry(i).kind = Process(o, c).kind /\ Entry(i).id = Process(o, c).id
        /\ Cut(i) = Process(o, c).res
    BY <1>1, <1>6, <2>1, BlockHolds
  <2>3. o \in Options /\ sameBrain \in BOOLEAN /\ (sameBrain \/ ~o.brain)
    BY <1>2, <1>6, FileParts DEF Known, UInv, UnpackShape
  <2> HIDE DEF o, c
  <2>4. \/ Rebuild(Entry(i), Process(o, c).res, sameBrain) = c
        \/ o.brain /\ o.edge /\ Rebuild(Entry(i), Process(o, c).res, sameBrain) = PatternOf[c]
    BY <2>2, <2>3, RebuildInverts
  <2>5. chunk(j) = Rebuild(Entry(i), Process(o, c).res, sameBrain)
    <3>1. j \notin bad
      BY <2>2 DEF i
    <3>2. chunk(j) = Rebuild(Entry(i), Cut(i), sameBrain)
      BY <3>1 DEF i
    <3>. QED
      BY <2>2, <3>2, Zenon
  <2> HIDE DEF chunk
  <2>6. Right(src, i, chunk(j))
    BY <2>4, <2>5, Zenon DEF Right, Lossy, o, c
  <2>. QED
    BY <2>6 DEF i
<1> HIDE DEF chunk, bad
<1>7. more \in Seq(Chunks \cup {Zero, Wrong}) /\ Len(more) = n /\ \A j \in 1..n : more[j] = chunk(j)
  BY <1>3, <1>5
<1>8. at \in Nat
  <2>1. Len(TheBlock.cells) \in Nat
    BY <1>2, FileParts, Zenon DEF TheBlock
  <2>. QED
    BY <2>1 DEF UInv, UnpackShape
<1>9. src.steady /\ cur.block + 1 <= Len(src.blocks) => at = Entry(cur.block * B + 1).offset
  BY <1>1, <1>2, BlockHolds
<1> HIDE DEF more, at, n, l
<1>10. src.steady /\ Known /\ TheBlock.ok =>
          \A j \in 1..Len(more) : Right(src, cur.entry + j - 1, more[j])
  BY <1>6, <1>7, Zenon
<1>11. /\ Len(more) = Last(src, cur.block) - cur.entry + 1
       /\ cur' = [block |-> cur.block + 1, entry |-> Last(src, cur.block) + 1, offset |-> at]
  BY <1>1, <1>3, <1>7 DEF l
<1>. QED
  BY <1>1, <1>4, <1>7, <1>8, <1>9, <1>10, <1>11, WalkOn, Zenon

\* A block cannot be used, for a cause.
LEMMA BlockFailsStep ==
    ASSUME UInv, BlockFails
    PROVE  UInv'
<1>1. /\ AtBlock /\ upc' = "failed"
      /\ UNCHANGED <<src, strict, sameBrain, cur, out, skipped, restored>>
  BY DEF BlockFails, UFail
<1>2. src \in CromFile /\ cur.block \in 1..Len(src.blocks) /\ cur.entry = First(cur.block)
  BY <1>1, AtFirst
<1>3. ASSUME src.steady, \E i \in First(cur.block)..Last(src, cur.block) : Beyond(i)
      PROVE  FALSE
  BY <1>1, <1>2, <1>3, BlockHolds
<1>4. ASSUME src.steady, NoCodeword
      PROVE  src.opts.brain /\ ~sameBrain
  <2>1. PICK i \in cur.entry..Last(src, cur.block) : Entry(i).kind \in {"patch", "xor"}
    BY <1>2, <1>4 DEF NoCodeword
  <2>2. Entry(i).kind = Process(src.opts, src.of[i]).kind /\ src.of[i] \in Chunks
    BY <1>1, <1>4, <2>1, BlockHolds
  <2>3. src.opts \in Options
    BY <1>2, FileParts
  <2>4. Process(src.opts, src.of[i]).kind \in {"patch", "xor"}
    BY <2>1, <2>2
  <2>5. src.opts.brain
    BY <2>2, <2>3, <2>4, ProcessType, Zenon
  <2>. QED
    BY <1>4, <2>5 DEF NoCodeword
<1>5. UnpackFailsForCause'
  <2>1. \/ src.opts.brain /\ ~sameBrain
        \/ ~src.steady
        \/ ~src.blocks[cur.block].ok
    BY <1>3, <1>4 DEF BlockFails, Unreadable, TheBlock, OtherDict
  <2>. QED
    BY <1>1, <1>2, <2>1 DEF UnpackFailsForCause
<1>6. UnpackShape' /\ Opened' /\ Walking'
  BY <1>1 DEF UInv, UnpackShape, Opened, Walking, AtBlock
<1>. QED
  BY <1>5, <1>6 DEF UInv
-----------------------------------------------------------------------------
(* Unpack: the end of it. *)

\* All blocks are done: every entry has its chunk.
LEMMA AllBlocksStep ==
    ASSUME UInv, AllBlocks
    PROVE  UInv'
<1>1. /\ upc = "blocks" /\ cur.block > Len(src.blocks) /\ upc' = "check" /\ src' = src
      /\ strict' = strict /\ sameBrain' = sameBrain /\ cur' = cur /\ out' = out
      /\ skipped' = skipped /\ restored' = restored
  BY DEF AllBlocks
<1>2. /\ ~src.pass /\ TablesAgree(src) /\ cur.block \in 1..(Len(src.blocks) + 1)
      /\ cur.entry = Min((cur.block - 1) * B, Len(src.entries)) + 1
      /\ Len(out) = cur.entry - 1 /\ Restored(out) /\ src \in CromFile
  BY <1>1 DEF UInv, Walking, Opened
<1>3. Filled(src) /\ Len(src.blocks) \in Nat /\ Len(src.entries) \in Nat
  BY <1>2, TablesFilled, FileParts
<1>4. Len(out) = Len(src.entries)
  <2> DEFINE r == Len(src.blocks) * B
  <2>1. cur.block - 1 = Len(src.blocks)
    BY <1>1, <1>2, <1>3
  <2>2. Len(src.entries) <= r /\ r \in Nat /\ cur.entry = Min(r, Len(src.entries)) + 1
    BY <1>2, <1>3, <2>1, Products DEF Filled
  <2> HIDE DEF r
  <2>. QED
    BY <1>2, <1>3, <2>2 DEF Min
<1>5. UnpackShape' /\ Opened' /\ UnpackFailsForCause'
  BY <1>1 DEF UInv, UnpackShape, Opened, UnpackFailsForCause
<1>6. Restored(out)'
  BY <1>1, <1>2 DEF Restored, Known, Right, Lossy
<1>7. Walking'
  BY <1>1, <1>2, <1>4, <1>6 DEF Walking
<1>. QED
  BY <1>5, <1>7 DEF UInv

(***************************************************************************)
(* With the brain that packed it, a file of an input that stayed as it was *)
(* and of which every block is good is restored exactly.                   *)
(***************************************************************************)
LEMMA AllGood ==
    ASSUME UInv, upc \in {"check", "done"}, src.steady, ~src.pass, Known, ~Lossy(src),
           \A b \in 1..Len(src.blocks) : src.blocks[b].ok
    PROVE  out = src.hash
<1>1. /\ src \in CromFile /\ Sound(src) /\ Len(out) = Len(src.entries) /\ Restored(out)
      /\ out \in Seq(Chunks \cup {Zero, Wrong})
  BY DEF UInv, Walking, Opened, UnpackShape
<1>2. /\ src.hash = src.of /\ Len(src.of) \in Nat /\ Len(src.blocks) \in Nat
      /\ Len(out) = Len(src.of) /\ Len(src.of) <= Len(src.blocks) * B
      /\ src.of \in Seq(Chunks)
  BY <1>1, FileParts DEF Sound, Laid
<1>3. ASSUME NEW i \in 1..Len(out)
      PROVE  out[i] = src.of[i]
  <2> DEFINE b == (i - 1) \div B + 1
  <2>1. b \in 1..Len(src.blocks) /\ (b - 1) * B < i /\ i <= b * B
    BY <1>2, BlockOf
  <2> HIDE DEF b
  <2>2. Right(src, i, out[i])
    BY <1>1, <2>1, Zenon DEF Restored
  <2>. QED
    BY <2>2 DEF Right
<1>4. src.of \in Seq(Chunks \cup {Zero, Wrong})
  BY <1>2
<1>5. out = src.of
  BY <1>1, <1>2, <1>3, <1>4, SeqEqual, Zenon
<1>. QED
  BY <1>2, <1>5

\* The hash does not fit, for a cause.
LEMMA HashMismatchStep ==
    ASSUME UInv, HashMismatch
    PROVE  UInv'
<1>1. /\ upc = "check" /\ ~HashAccepts /\ upc' = "failed" /\ src' = src
      /\ strict' = strict /\ sameBrain' = sameBrain /\ cur' = cur /\ out' = out
      /\ skipped' = skipped /\ restored' = restored
  BY DEF HashMismatch, UFail
<1>2. ~Lossy(src) /\ out # src.hash
  BY <1>1 DEF HashAccepts
<1>3. src.pass => out = src.raw
  BY <1>1 DEF UInv, Walking
<1>4. UnpackFailsForCause'
  BY <1>1, <1>2, <1>3, AllGood DEF UnpackFailsForCause, Known
<1>5. UnpackShape' /\ Opened' /\ Walking'
  BY <1>1 DEF UInv, UnpackShape, Opened, Walking
<1>. QED
  BY <1>4, <1>5 DEF UInv

\* Every step keeps Unpack's half of the invariant.
LEMMA UnpackKeeps ==
    ASSUME PInv, UInv, Next
    PROVE  UInv'
<1> USE DEF UnpackStep
<1>1. ASSUME NEW s \in BOOLEAN, NEW b \in BOOLEAN, StartUnpack(s, b)
      PROVE  UInv'
  BY <1>1, StartUnpackStep
<1>2. CASE CopyBack
  <2>1. /\ upc = "copy" /\ upc' = "check" /\ out' = src.raw /\ src' = src /\ strict' = strict
        /\ sameBrain' = sameBrain /\ cur' = cur /\ skipped' = skipped /\ restored' = restored
    BY <1>2 DEF CopyBack
  <2>2. src.pass /\ src \in CromFile
    BY <2>1 DEF UInv, Walking, Opened
  <2>3. out' \in Seq(Chunks \cup {Zero, Wrong})
    BY <2>1, <2>2 DEF CromFile
  <2>4. UnpackShape' /\ Opened' /\ UnpackFailsForCause'
    BY <2>1, <2>3 DEF UInv, UnpackShape, Opened, UnpackFailsForCause
  <2>5. Walking'
    BY <2>1, <2>2 DEF Walking
  <2>. QED
    BY <2>4, <2>5 DEF UInv
<1>3. CASE BlockFails
  BY <1>3, BlockFailsStep
<1>4. CASE SkipBlock
  BY <1>4, SkipBlockStep
<1>5. CASE RebuildBlock
  BY <1>5, RebuildBlockStep
<1>6. CASE AllBlocks
  BY <1>6, AllBlocksStep
<1>7. CASE HashMismatch
  BY <1>7, HashMismatchStep
<1>8. CASE RenameRestored
  <2>1. /\ upc = "check" /\ HashAccepts /\ upc' = "done" /\ restored' = out /\ src' = src
        /\ strict' = strict /\ sameBrain' = sameBrain /\ cur' = cur /\ out' = out
        /\ skipped' = skipped
    BY <1>8 DEF RenameRestored
  <2>2. UnpackShape' /\ Opened' /\ UnpackFailsForCause'
    BY <2>1 DEF UInv, UnpackShape, Opened, UnpackFailsForCause
  <2>3. HashAccepts' /\ (Restored(out) => Restored(out)')
    BY <2>1 DEF HashAccepts, Lossy, Restored, Known, Right
  <2>4. IF src.pass THEN out = src.raw ELSE Len(out) = Len(src.entries) /\ Restored(out)
    BY <2>1 DEF UInv, Walking
  <2>5. Walking'
    BY <2>1, <2>3, <2>4 DEF Walking
  <2>. QED
    BY <2>2, <2>5 DEF UInv
<1>9. CASE UnpackIOError
  <2>1. /\ upc \in {"copy", "blocks", "check"} /\ upc' = "ioFailed" /\ src' = src
        /\ strict' = strict /\ sameBrain' = sameBrain /\ cur' = cur /\ out' = out
        /\ skipped' = skipped /\ restored' = restored
    BY <1>9 DEF UnpackIOError
  <2>2. UnpackShape' /\ Opened' /\ Walking' /\ UnpackFailsForCause'
    BY <2>1 DEF UInv, UnpackShape, Opened, Walking, UnpackFailsForCause
  <2>. QED
    BY <2>2 DEF UInv
<1>10. CASE PackStep \/ PackCrash
  <2>1. UNCHANGED unpacking
    BY <1>10 DEF PackStep, CopyThrough, CopyFails, ReadBlock, WorkerStep, TakeJob, ProcessChunk,
                 SearchFails, StoreResult, GatherError, Gather, PackError, EndOfInput, Finalize,
                 PoolLost, SmartPassthrough, RenameOutput, RenameFails, PackCrash, Fail
  <2>. QED
    BY <2>1, Halves
<1>11. ASSUME \/ \E o \in Options : StartPack(o)
              \/ \E f \in Inputs : InputChanges(f)
              \/ \E i \in 1..MaxLen : BlockDamaged(i)
       PROVE  UInv'
  <2>1. UNCHANGED unpacking
    BY <1>11 DEF StartPack, InputChanges, BlockDamaged
  <2>. QED
    BY <2>1, Halves
<1>. QED
  BY <1>1, <1>2, <1>3, <1>4, <1>5, <1>6, <1>7, <1>8, <1>9, <1>10, <1>11 DEF Next
-----------------------------------------------------------------------------
(* The theorems. *)

\* The invariant holds at the start and every step keeps it.
LEMMA Inductive == Spec => []IInv
<1>1. Init => IInv
  <2> SUFFICES ASSUME Init
               PROVE  IInv
    OBVIOUS
  <2>1. << >> \in Seq(Chunks) /\ << >> \in Seq(Nat) /\ << >> \in Seq(Chunks \cup {Zero, Wrong})
    OBVIOUS
  <2>2. Empty \in Made
    BY DEF Empty, Made
  <2>3. input \in Seq(Chunks) /\ work \in [Workers -> Nat] /\ DOMAIN results \subseteq 1..Len(block)
    BY CodecAssumption DEF Init
  <2>4. PackShape
    BY <2>1, <2>2, <2>3 DEF Init, PackShape
  <2>5. Running /\ Workload /\ Packed /\ Installed
    BY DEF Init, Running, Workload, Packed, Installed
  <2>6. UnpackShape
    BY <2>1 DEF Init, UnpackShape
  <2>7. Opened /\ Walking /\ UnpackFailsForCause
    BY DEF Init, Opened, Walking, UnpackFailsForCause
  <2>. QED
    BY <2>4, <2>5, <2>6, <2>7 DEF IInv, PInv, UInv
<1>2. IInv /\ [Next]_vars => IInv'
  <2> SUFFICES ASSUME IInv, [Next]_vars
               PROVE  IInv'
    OBVIOUS
  <2>1. CASE Next
    BY <2>1, PackKeeps, UnpackKeeps DEF IInv
  <2>2. CASE UNCHANGED vars
    BY <2>2, Halves DEF IInv, vars
  <2>. QED
    BY <2>1, <2>2
<1>. QED
  BY <1>1, <1>2, PTL DEF Spec

-----------------------------------------------------------------------------
(* Where the bytes of a .crom come from, whatever changes under Pack. *)

\* A beginning of a version of the input.
LEMMA BeginningIsInput ==
    ASSUME NEW f \in Inputs, NEW k \in Nat, k <= Len(f)
    PROVE  /\ SubSeq(f, 1, k) \in Seq(Chunks) /\ Len(SubSeq(f, 1, k)) = k
           /\ FromInputs(SubSeq(f, 1, k))
<1>1. f \in Seq(Chunks)
  BY CodecAssumption
<1>2. /\ SubSeq(f, 1, k) \in Seq(Chunks) /\ Len(SubSeq(f, 1, k)) = k
      /\ \A i \in 1..k : SubSeq(f, 1, k)[i] = f[i]
  BY <1>1
<1>3. \A i \in 1..k : i <= Len(f)
  BY <1>1
<1>. QED
  BY <1>2, <1>3, Zenon DEF FromInputs

\* A version of the input is a beginning of itself.
LEMMA InputIsInput ==
    ASSUME NEW f \in Inputs
    PROVE  f \in Seq(Chunks) /\ f = SubSeq(f, 1, Len(f)) /\ FromInputs(f)
<1>1. f \in Seq(Chunks) /\ Len(f) \in Nat
  BY CodecAssumption
<1>2. f = SubSeq(f, 1, Len(f))
  BY <1>1, SubSeqFull
<1>3. FromInputs(f)
  BY <1>1 DEF FromInputs
<1>. QED
  BY <1>1, <1>2, <1>3

\* A file as Pack made it: its hash was taken of chunks that the input had, and
\* a passthrough copy of an input that stayed as it was is a beginning of it.
Genuine(f) ==
    /\ FromInputs(f.hash)
    /\ f.pass /\ f.steady => f.raw = SubSeq(f.of, 1, Len(f.raw))

Hashed ==
    pc \in {"read", "work", "finish"} => Len(made.hash) = pos /\ FromInputs(made.hash)

Origin ==
    /\ input \in Inputs
    /\ Hashed
    /\ pc = "rename" => Genuine(tmp)
    /\ output # NoFile => Genuine(output)
    /\ upc # "idle" => Genuine(src)

\* The next block is read behind what has been read, of whatever version.
LEMMA HashedBlock ==
    ASSUME PInv, Origin, ReadBlock
    PROVE  Hashed'
<1> DEFINE n == Min(BlockChunks, Len(input) - pos)
           s == SubSeq(input, pos + 1, pos + n)
           h == made.hash
<1>1. /\ h \in Seq(Chunks) /\ pos \in Nat /\ Len(h) = pos /\ FromInputs(h)
      /\ input \in Inputs /\ input \in Seq(Chunks) /\ Len(input) \in Nat /\ pos < Len(input)
  BY DEF PInv, PackShape, Made, ReadBlock, Origin, Hashed
<1>2. n \in Nat /\ 1 <= n /\ pos + n <= Len(input)
  BY <1>1, Products DEF Min, B
<1>3. pos' = pos + n /\ made'.hash = h \o s /\ pc' = "work"
  <2>1. made' = [made EXCEPT !.hash = @ \o s] /\ made \in Made
    BY DEF PInv, PackShape, ReadBlock
  <2>. QED
    BY <2>1 DEF ReadBlock, Made
<1> HIDE DEF n
<1>4. s \in Seq(Chunks) /\ Len(s) = n /\ \A i \in 1..n : s[i] = input[pos + i]
  BY <1>1, <1>2
<1> HIDE DEF s, h
<1>5. /\ Len(h \o s) = pos + n
      /\ \A i \in 1..pos : (h \o s)[i] = h[i]
      /\ \A i \in 1..n : (h \o s)[pos + i] = s[i]
  <2>1. /\ Len(h \o s) = Len(h) + Len(s)
        /\ \A i \in 1..Len(h) : (h \o s)[i] = h[i]
        /\ \A i \in 1..Len(s) : (h \o s)[Len(h) + i] = s[i]
    <3>1. h \in Seq(Chunks) /\ s \in Seq(Chunks)
      BY <1>1, <1>4
    <3>2. Len(h \o s) = Len(h) + Len(s)
      BY <3>1, ConcatIs, Zenon
    <3>3. \A i \in 1..Len(h) : (h \o s)[i] = h[i]
      BY ONLY <3>1
    <3>4. \A i \in 1..Len(s) : (h \o s)[Len(h) + i] = s[i]
      BY ONLY <3>1
    <3>. QED
      BY ONLY <3>2, <3>3, <3>4
  <2>. QED
    BY <1>1, <1>4, <2>1
<1>6. ASSUME NEW i \in 1..(pos + n)
      PROVE  \E f \in Inputs : i <= Len(f) /\ f[i] = (h \o s)[i]
  <2>1. CASE i <= pos
    <3>1. i \in 1..Len(h) /\ (h \o s)[i] = h[i]
      BY <1>1, <1>2, <1>5, <2>1
    <3>. QED
      BY <1>1, <3>1 DEF FromInputs
  <2>2. CASE ~(i <= pos)
    <3>1. i - pos \in 1..n /\ i \in Nat /\ i <= Len(input) /\ pos + (i - pos) = i
      BY <1>1, <1>2, <2>2
    <3>2. (h \o s)[pos + (i - pos)] = s[i - pos]
      BY <1>5, <3>1
    <3>3. s[i - pos] = input[i]
      BY <1>4, <3>1
    <3>. QED
      BY <1>1, <3>1, <3>2, <3>3
  <2>. QED
    BY <2>1, <2>2
<1>7. FromInputs(h \o s)
  BY <1>5, <1>6 DEF FromInputs
<1>. QED
  BY <1>3, <1>5, <1>7 DEF Hashed, h

\* A passthrough copy, whole or cut.
LEMMA PassedOrigin ==
    ASSUME PInv, Origin, pc \in {"copy", "smart"}, pc' = "rename",
           UNCHANGED <<input, output, packing, unpacking>>,
           NEW k \in Nat, k <= Len(input), NEW j \in Nat, j <= Len(input),
           tmp' = Passthrough(SubSeq(input, 1, k), SubSeq(input, 1, j))
    PROVE  Origin'
<1> DEFINE raw == SubSeq(input, 1, k)
           hash == SubSeq(input, 1, j)
<1>1. input \in Inputs
  BY DEF Origin
<1>2. Len(raw) = k /\ FromInputs(hash)
  BY <1>1, BeginningIsInput
<1>3. ~touched => start = input
  BY DEF PInv, Running
<1>4. tmp'.hash = hash /\ tmp'.raw = raw /\ tmp'.of = start /\ tmp'.steady = ~touched
  BY DEF Passthrough
<1> HIDE DEF hash
<1>5. Genuine(tmp)'
  <2>1. ~touched => raw = SubSeq(start, 1, Len(raw))
    BY <1>2, <1>3
  <2> HIDE DEF raw
  <2>. QED
    BY <1>2, <1>4, <2>1 DEF Genuine, FromInputs
<1>6. upc' = upc /\ src' = src
  BY DEF unpacking
<1>. QED
  BY <1>5, <1>6 DEF Origin, Hashed, Genuine, FromInputs

\* The same files, and Pack is not reading.
LEMMA SameOrigin ==
    ASSUME Origin, pc' \notin {"rename", "read", "work", "finish"},
           UNCHANGED <<input, output, unpacking>>
    PROVE  Origin'
<1>1. upc' = upc /\ src' = src
  BY DEF unpacking
<1>. QED
  BY <1>1 DEF Origin, Hashed, Genuine, FromInputs

\* Every step of Pack keeps the origin of the files.
LEMMA PackOrigin ==
    ASSUME PInv, Origin, PackStep \/ PackCrash
    PROVE  Origin'
<1>0. input \in Inputs /\ input \in Seq(Chunks) /\ Len(input) \in Nat
  BY DEF PInv, PackShape, Origin
<1>1. CASE CopyThrough \/ SmartPassthrough
  <2>1. input = SubSeq(input, 1, Len(input))
    BY <1>0, InputIsInput
  <2>2. tmp' = Passthrough(SubSeq(input, 1, Len(input)), SubSeq(input, 1, Len(input)))
    BY <1>1, <2>1 DEF CopyThrough, SmartPassthrough
  <2>. QED
    BY <1>0, <1>1, <2>2, PassedOrigin DEF CopyThrough, SmartPassthrough
<1>2. ASSUME NEW k \in 0..MaxLen, CopyFails(k)
      PROVE  Origin'
  <2>1. PICK h \in {k} \cup (IF opts.encrypted THEN {Len(input)} ELSE {IF k = 0 THEN 0 ELSE k - 1}) :
           tmp' = Passthrough(SubSeq(input, 1, k), SubSeq(input, 1, h))
    BY <1>2 DEF CopyFails
  <2>2. /\ pc = "copy" /\ k < Len(input) /\ pc' = "rename"
        /\ UNCHANGED <<input, output, packing, unpacking>>
    BY <1>2 DEF CopyFails
  <2>3. h \in Nat /\ h <= Len(input) /\ k <= Len(input) /\ k \in Nat
    BY <1>0, <2>1, <2>2
  <2>4. pc \in {"copy", "smart"}
    BY <2>2
  <2>. QED
    BY <2>1, <2>2, <2>3, <2>4, PassedOrigin, Zenon
<1>3. CASE ReadBlock
  <2>1. /\ pc' = "work" /\ UNCHANGED <<input, output, tmp, unpacking>>
    BY <1>3 DEF ReadBlock
  <2>2. upc' = upc /\ src' = src
    BY <2>1 DEF unpacking
  <2>. QED
    BY <1>3, <2>1, <2>2, HashedBlock DEF Origin, Genuine, FromInputs
<1>4. CASE WorkerStep \/ Gather \/ EndOfInput
  <2>1. /\ pc \in {"read", "work"} /\ pc' \in {"read", "work", "finish"} /\ pos' = pos
        /\ UNCHANGED <<input, output, tmp, unpacking>>
    BY <1>4 DEF WorkerStep, TakeJob, ProcessChunk, SearchFails, StoreResult, Gather, EndOfInput,
                packing
  <2>2. made'.hash = made.hash
    BY <1>4 DEF WorkerStep, TakeJob, ProcessChunk, SearchFails, StoreResult, Gather, EndOfInput,
                packing, PInv, PackShape, Made
  <2>3. upc' = upc /\ src' = src
    BY <2>1 DEF unpacking
  <2>. QED
    BY <2>1, <2>2, <2>3 DEF Origin, Hashed, Genuine, FromInputs
<1>5. CASE Finalize \/ \E k \in 1..MaxLen : PoolLost(k)
  <2>1. /\ pc = "finish" /\ pc' \in {"rename", "smart"}
        /\ UNCHANGED <<input, output, packing, unpacking>>
    BY <1>5 DEF Finalize, PoolLost, AfterTables
  <2>2. tmp'.hash = made.hash /\ ~tmp'.pass
    BY <1>5 DEF Finalize, PoolLost, Crom, PInv, PackShape, Made
  <2>3. FromInputs(made.hash)
    BY <2>1 DEF Origin, Hashed
  <2>4. Genuine(tmp)'
    BY <2>2, <2>3 DEF Genuine, FromInputs
  <2>5. upc' = upc /\ src' = src
    BY <2>1 DEF unpacking
  <2>. QED
    BY <2>1, <2>4, <2>5 DEF Origin, Hashed, Genuine, FromInputs
<1>6. CASE GatherError \/ PackError \/ RenameFails \/ PackCrash
  BY <1>6, SameOrigin DEF GatherError, PackError, RenameFails, PackCrash, Fail
<1>7. CASE RenameOutput
  <2>1. /\ pc = "rename" /\ pc' = "done" /\ output' = tmp
        /\ UNCHANGED <<input, unpacking>>
    BY <1>7 DEF RenameOutput
  <2>2. upc' = upc /\ src' = src
    BY <2>1 DEF unpacking
  <2>. QED
    BY <2>1, <2>2 DEF Origin, Hashed, Genuine, FromInputs
<1>. QED
  BY <1>1, <1>2, <1>3, <1>4, <1>5, <1>6, <1>7 DEF PackStep

\* So does every other step.
LEMMA OriginKept ==
    ASSUME PInv, UInv, Origin, [Next]_vars
    PROVE  Origin'
<1>1. CASE PackStep \/ PackCrash
  BY <1>1, PackOrigin
<1>2. ASSUME NEW o \in Options, StartPack(o)
      PROVE  Origin'
  <2>1. /\ pos' = 0 /\ made' = Empty /\ pc' \in {"copy", "read"}
        /\ UNCHANGED <<input, output, unpacking>>
    BY <1>2 DEF StartPack
  <2>2. Len(made'.hash) = 0 /\ FromInputs(made'.hash)
    BY <2>1 DEF Empty, FromInputs
  <2>3. upc' = upc /\ src' = src
    BY <2>1 DEF unpacking
  <2>. QED
    BY <2>1, <2>2, <2>3 DEF Origin, Hashed, Genuine, FromInputs
<1>3. ASSUME NEW s \in BOOLEAN, NEW b \in BOOLEAN, StartUnpack(s, b)
      PROVE  Origin'
  <2>1. /\ output # NoFile /\ src' = output /\ pc' = pc
        /\ UNCHANGED <<input, output, tmp, packing>>
    BY <1>3 DEF StartUnpack
  <2>2. made' = made /\ pos' = pos
    BY <2>1 DEF packing
  <2>. QED
    BY <2>1, <2>2 DEF Origin, Hashed, Genuine, FromInputs
<1>4. CASE UnpackStep
  <2>1. UNCHANGED <<input, output, tmp, pc, packing, src>> /\ upc # "idle"
    BY <1>4 DEF UnpackStep, CopyBack, BlockFails, SkipBlock, RebuildBlock, AllBlocks, AtBlock,
                HashMismatch, RenameRestored, UnpackIOError, UFail
  <2>2. made' = made /\ pos' = pos
    BY <2>1 DEF packing
  <2>. QED
    BY <2>1, <2>2 DEF Origin, Hashed, Genuine, FromInputs
<1>5. ASSUME NEW f \in Inputs, InputChanges(f)
      PROVE  Origin'
  <2>1. input' = f /\ UNCHANGED <<output, tmp, pc, made, pos, unpacking>>
    BY <1>5 DEF InputChanges
  <2>2. upc' = upc /\ src' = src
    BY <2>1 DEF unpacking
  <2>. QED
    BY <2>1, <2>2 DEF Origin, Hashed, Genuine, FromInputs
<1>6. ASSUME NEW i \in 1..MaxLen, BlockDamaged(i)
      PROVE  Origin'
  <2>1. /\ output # NoFile /\ UNCHANGED <<input, tmp, pc, packing, unpacking>>
        /\ output' = [output EXCEPT !.blocks[i].ok = FALSE]
    BY <1>6 DEF BlockDamaged
  <2>2. output \in CromFile
    BY <2>1 DEF PInv, PackShape
  <2>3. /\ output'.hash = output.hash /\ output'.pass = output.pass /\ output'.raw = output.raw
        /\ output'.steady = output.steady /\ output'.of = output.of
    BY <2>1, <2>2 DEF CromFile
  <2>4. upc' = upc /\ src' = src /\ made' = made /\ pos' = pos
    BY <2>1 DEF packing, unpacking
  <2>. QED
    BY <2>1, <2>3, <2>4 DEF Origin, Hashed, Genuine, FromInputs
<1>7. CASE UNCHANGED vars
  BY <1>7 DEF vars, packing, unpacking, Origin, Hashed, Genuine, FromInputs
<1>. QED
  BY <1>1, <1>2, <1>3, <1>4, <1>5, <1>6, <1>7 DEF Next

\* The second half of the invariant.
LEMMA OriginInductive == Spec => []Origin
<1>1. Init => Origin
  BY DEF Init, Origin, Hashed
<1>2. IInv /\ Origin /\ [Next]_vars => Origin'
  BY OriginKept DEF IInv
<1>. QED
  BY <1>1, <1>2, Inductive, PTL DEF Spec

-----------------------------------------------------------------------------
(* The theorems. *)

\* The files and the state of Pack and Unpack keep their types: offsets and
\* sizes are numbers, and every entry is one of the four kinds.
THEOREM TypeCorrect == Spec => []TypeOK
<1>1. IInv => TypeOK
  <2> SUFFICES ASSUME IInv
               PROVE  TypeOK
    OBVIOUS
  <2>1. PackShape /\ UnpackShape
    BY DEF IInv, PInv, UInv
  <2>2. \A f \in CromFile : IsCrom(f)
    BY DEF CromFile, IsCrom, Block
  <2>3. /\ made.entries \in Seq(Entries) /\ made.hash \in Seq(Chunks) /\ made.offset \in Nat
    BY <2>1 DEF PackShape, Made
  <2>. QED
    BY <2>1, <2>2, <2>3 DEF PackShape, UnpackShape, TypeOK
<1>. QED
  BY <1>1, Inductive, PTL

(***************************************************************************)
(* An Unpack with the same brain fails only on a file whose input changed  *)
(* while it was packed, that lost blocks, or whose passthrough copy was    *)
(* cut (compiler.go:592 and unpacker.go:155-293 agree on every offset).    *)
(***************************************************************************)
THEOREM FailsForCause == Spec => []UnpackFailsForCause
<1>1. IInv => UnpackFailsForCause
  BY DEF IInv, UInv
<1>. QED
  BY <1>1, Inductive, PTL

(***************************************************************************)
(* What an Unpack leaves without having skipped anything is what Pack      *)
(* read, whatever brain, damage or change came between: the input, if it   *)
(* stayed as it was, and else chunks of its versions, each in its place    *)
(* (compiler.go:130, 365-393, unpacker.go:337-347).                        *)
(***************************************************************************)
THEOREM RestoredExact == Spec => []RestoredIsInput
<1>1. IInv /\ Origin => RestoredIsInput
  <2> SUFFICES ASSUME IInv, Origin, upc = "done", ~Lossy(src), strict \/ skipped = 0
               PROVE  /\ FromInputs(restored)
                      /\ src.steady => restored = SubSeq(src.of, 1, Len(restored))
                      /\ src.steady /\ ~src.pass => Len(restored) = Len(src.of)
    BY DEF RestoredIsInput
  <2>1. /\ restored = out /\ out = src.hash /\ src \in CromFile /\ Sound(src) /\ Genuine(src)
        /\ src.pass => out = src.raw
    BY DEF IInv, UInv, Opened, Walking, HashAccepts, UnpackShape, Origin
  <2>2. FromInputs(restored)
    BY <2>1 DEF Genuine
  <2>3. src.steady /\ ~src.pass => restored = src.of
    BY <2>1 DEF Sound
  <2>4. src.of = SubSeq(src.of, 1, Len(src.of))
    BY <2>1, SubSeqFull DEF CromFile
  <2>5. src.steady => restored = SubSeq(src.of, 1, Len(restored))
    <3>1. CASE src.pass
      BY <2>1, <3>1 DEF Genuine
    <3>2. CASE ~src.pass
      <4>1. ASSUME src.steady PROVE restored = SubSeq(src.of, 1, Len(restored))
        <5>1. restored = src.of
          BY <2>3, <3>2, <4>1
        <5>. QED
          BY <2>4, <5>1
      <4>. QED
        BY <4>1
    <3>. QED
      BY <2>1, <3>1, <3>2 DEF CromFile
  <2>. QED
    BY <2>2, <2>3, <2>5
<1>. QED
  BY <1>1, Inductive, OriginInductive, PTL

(***************************************************************************)
(* In tolerant mode a bad block costs its own chunks and no others: every  *)
(* chunk of a good block is in its place (unpacker.go:190-211).            *)
(***************************************************************************)
THEOREM BlocksSurvive == Spec => []GoodBlocksSurvive
<1>1. IInv => GoodBlocksSurvive
  <2> SUFFICES ASSUME IInv, upc = "done", sameBrain, src.steady, ~src.pass
               PROVE  /\ Len(restored) = Len(src.of)
                      /\ \A i \in 1..Len(src.of) :
                            src.blocks[(i - 1) \div BlockChunks + 1].ok =>
                               \/ restored[i] = src.of[i]
                               \/ Lossy(src) /\ restored[i] = PatternOf[src.of[i]]
    BY DEF GoodBlocksSurvive
  <2>1. /\ src \in CromFile /\ Sound(src) /\ restored = out /\ Len(out) = Len(src.entries)
        /\ Restored(out)
    BY DEF IInv, UInv, Opened, Walking
  <2>2. /\ Len(src.of) \in Nat /\ Len(src.blocks) \in Nat /\ Len(out) = Len(src.of)
        /\ Len(src.of) <= Len(src.blocks) * B
    BY <2>1, FileParts DEF Sound, Laid
  <2>3. ASSUME NEW i \in 1..Len(src.of), src.blocks[(i - 1) \div B + 1].ok
        PROVE  \/ out[i] = src.of[i]
               \/ Lossy(src) /\ out[i] = PatternOf[src.of[i]]
    <3> DEFINE b == (i - 1) \div B + 1
    <3>1. b \in 1..Len(src.blocks) /\ (b - 1) * B < i /\ i <= b * B
      BY <2>2, BlockOf
    <3>2. src.blocks[b].ok
      BY <2>3
    <3> HIDE DEF b
    <3>3. i \in 1..Len(out) /\ Known
      BY <2>2 DEF Known
    <3>4. Right(src, i, out[i])
      BY <2>1, <3>1, <3>2, <3>3, Zenon DEF Restored
    <3>. QED
      BY <3>4 DEF Right
  <2>. QED
    BY <2>1, <2>2, <2>3 DEF B
<1>. QED
  BY <1>1, Inductive, PTL
=============================================================================
