-------------------------- MODULE MountedFileProofs --------------------------
(***************************************************************************)
(* A mounted file keeps its promise: for any layout of chunks and blocks,  *)
(* any page and cache sizes, any number of readers and prefetches, and     *)
(* whatever the server and the disk answer.                                *)
(***************************************************************************)
EXTENDS MountedFile, FiniteSetTheorems, SequenceTheorems, RecursionTheorems, TLAPS

FaultKinds == {"truncated", "whole", "error", "brain", "signal"}
Happened(kind) == \E i \in DOMAIN faults : faults[i] = kind
Broken == \E i \in DOMAIN faults : faults[i] \notin {"brain", "signal"}

(* The pages. *)

FullPage(n) == Cells(n * PageSize, PageLen(n))

\* What is kept for page n: the page, a part of it, or the whole file.
Good(n, data) ==
    \/ data = FullPage(n)
    \/ Happened("truncated") /\ \E k \in 0..(PageLen(n) - 1) : data = Cells(n * PageSize, k)
    \/ Happened("whole") /\ data = Cells(0, size)

LoadPcs == {"idle", "get", "join", "wait", "fetch", "close", "ret"}
Page == [page : PageNos, data : Seq(Nat)]
GoodPage == {x \in Page : Good(x.page, x.data)}
Load == [pc : LoadPcs, page : PageNos, chan : Procs \cup {None},
         pioneer : BOOLEAN, data : Seq(Nat) \cup {None}]
Call == [pc : {"idle", "page", "disk", "ret"}, off : Nat, len : Nat,
         buf : Seq(Nat) \cup {None}]

CloudShape ==
    /\ size \in Nat \ {0} /\ ahead \subseteq PageNos /\ crashed \in BOOLEAN
    /\ Len(pages) <= MaxPages
    /\ flight \in [PageNos -> Procs \cup {None}]
    /\ call \in [Readers -> Call]
    /\ faults \in Seq(FaultKinds)

\* A goroutine that downloads a page as the first one.
Leads(l) == l.pioneer /\ l.pc \in {"fetch", "close"}

\* The download of a page belongs to the goroutine that is registered for it.
Pioneers == \A p \in Procs : Leads(load[p]) => flight[load[p].page] = p

\* What a goroutine hands over is a good page, or nothing after a fault.
Sound(l) ==
    /\ l.pc \in {"get", "join", "wait"} => ~l.pioneer
    /\ l.pc = "close" => l.pioneer
    /\ l.pc \in {"close", "ret"} =>
          \/ l.data = None /\ Broken
          \/ l.data # None /\ Good(l.page, l.data)

GoodLoad == {l \in Load : Sound(l)}
GoodPages == pages \in Seq(GoodPage) /\ load \in [Procs -> GoodLoad]

\* A call has copied what comes before the page it waits for.
Calls ==
    \A r \in Readers :
        /\ call[r].pc = "page" =>
              /\ call[r].buf # None /\ call[r].off + call[r].len <= size
              /\ Len(call[r].buf) < call[r].len
              /\ load[r].page = (call[r].off + Len(call[r].buf)) \div PageSize
              /\ Broken \/ call[r].buf = Cells(call[r].off, Len(call[r].buf))
        /\ call[r].pc = "ret" => Broken \/ call[r].buf = Cells(call[r].off, call[r].len)

CInv == CloudShape /\ Pioneers /\ GoodPages /\ Calls /\ CrashNeedsTruncatedPage

(* The reader. *)

Looping == {"chunk", "block", "lock", "frame", "put"}
ReadPcs == {"idle", "start", "plain", "sealed"} \cup Looping
Reading == [pc : ReadPcs, off : Nat, len : Nat, out : Seq(Int), got : Seq(Int)]

ReaderShape ==
    /\ file \in Files /\ mounted \in {"no", "yes", "gone"}
    /\ mu \in Readers \cup {None} /\ total \in Nat /\ reads \in 0..MaxReads
    /\ plain \in BOOLEAN /\ brain \in BOOLEAN
    /\ watcher \in {"select", "refused", "done"}
    /\ rd \in [Readers -> Reading]
    /\ answer \in [Readers -> Seq(Int) \cup {None, Error}]
    /\ size = ContainerSize(file)

\* A read that runs asks for cells of the file and has a part of them, the right ones
\* with the brain the file was packed with.
Wanted(x) ==
    /\ x.off < OriginalSize /\ x.off + x.len <= OriginalSize
    /\ Len(x.out) < x.len /\ (Matched => x.out = Cells(x.off, Len(x.out)))

\* Where a read may be, and the call of the file underneath that goes with it.
Doing(x, c) ==
    /\ x.pc \in {"idle", "start", "plain", "sealed"} => x.out = << >>
    /\ x.pc = "start" => Wanted(x) \/ (x.off >= OriginalSize /\ x.len = 0)
    /\ x.pc = "plain" => /\ Wanted(x) /\ file.kind = "plain"
                         /\ c.off = MetaSize + x.off /\ c.len = x.len
    /\ x.pc = "sealed" => Wanted(x) /\ file.kind = "sealed"
    /\ x.pc \in Looping => Wanted(x) /\ file.kind = "blocks"
    /\ x.pc = "put" => x.got = Rebuilt(ChunkAt(x.off + Len(x.out)))

Progress == \A r \in Readers : Doing(rd[r], call[r])

\* What may be in the cache: the residuals of a block, and a chunk as the mounted brain
\* gives it.
Stored ==
    {[key |-> BlockKey(BlockOf[i]), data |-> Pool[BlockOf[i]]] : i \in DOMAIN Entries}
    \cup {[key |-> ChunkKey(i), data |-> Rebuilt(i)] :
               i \in {j \in DOMAIN Entries : Rebuilt(j) \in Seq(Int)}}

RInv == ReaderShape /\ Progress /\ cache \in Seq(Stored) /\ CacheAccounts

IInv == CInv /\ RInv
-----------------------------------------------------------------------------
(* The layout. *)

\* The entries of the chunk table.
LEMMA EntriesAre ==
    /\ Len(Entries) \in Nat /\ DOMAIN Entries = 1..Len(Entries)
    /\ \A i \in 1..Len(Entries) : Entries[i].size \in Nat \ {0} /\ Entries[i].delta \in Nat
<1> DEFINE E == [size : Nat \ {0}, delta : Nat, route : Routes]
<1>1. Entries \in Seq(E)
  BY LayoutAssumption, Zenon
<1>2. \A e \in E : e.size \in Nat \ {0} /\ e.delta \in Nat
  OBVIOUS
<1> HIDE DEF E
<1>3. \A i \in 1..Len(Entries) : Entries[i] \in E
  BY <1>1
<1>. QED
  BY <1>1, <1>2, <1>3

\* The running sums of the original sizes and of the residuals.
LEMMA UptoIs ==
    /\ Upto[0] = 0 /\ \A i \in 0..Len(Entries) : Upto[i] \in Nat
    /\ \A i \in 1..Len(Entries) : Upto[i] = Upto[i - 1] + Entries[i].size
<1> DEFINE n == Len(Entries)
           a == [i \in 1..n |-> Entries[i].size]
<1>1. n \in Nat /\ a \in [1..n -> Nat] /\ \A i \in 1..n : a[i] = Entries[i].size
  BY EntriesAre
<1> HIDE DEF n, a
<1>2. PICK f \in [0..n -> Nat] : Sums(f, n, a)
  BY <1>1, SumsExist
<1>3. f = [i \in 0..n |-> IF i = 0 THEN 0 ELSE f[i - 1] + Entries[i].size]
  BY <1>1, <1>2 DEF Sums
<1>4. Upto = [i \in 0..n |-> IF i = 0 THEN 0 ELSE Upto[i - 1] + Entries[i].size]
  BY <1>3, Zenon DEF Upto, n
<1>5. Sums(Upto, n, a)
  <2>1. 0 \in 0..n /\ \A i \in 1..n : i \in 0..n /\ i # 0 /\ a[i] = Entries[i].size
    BY <1>1
  <2>. QED
    BY <1>4, <2>1, Zenon DEF Sums
<1>6. \A i \in 0..n : Upto[i] \in Nat
  BY <1>1, <1>5, SumsType
<1>. QED
  BY <1>1, <1>5, <1>6 DEF Sums, n

\* The running sums of the sizes of the residuals.
LEMMA DeltasIs ==
    /\ Deltas[0] = 0 /\ \A i \in 0..Len(Entries) : Deltas[i] \in Nat
    /\ \A i \in 1..Len(Entries) : Deltas[i] = Deltas[i - 1] + Entries[i].delta
<1> DEFINE n == Len(Entries)
           a == [i \in 1..n |-> Entries[i].delta]
<1>1. n \in Nat /\ a \in [1..n -> Nat] /\ \A i \in 1..n : a[i] = Entries[i].delta
  BY EntriesAre
<1> HIDE DEF n, a
<1>2. PICK f \in [0..n -> Nat] : Sums(f, n, a)
  BY <1>1, SumsExist
<1>3. f = [i \in 0..n |-> IF i = 0 THEN 0 ELSE f[i - 1] + Entries[i].delta]
  BY <1>1, <1>2 DEF Sums
<1>4. Deltas = [i \in 0..n |-> IF i = 0 THEN 0 ELSE Deltas[i - 1] + Entries[i].delta]
  BY <1>3, Zenon DEF Deltas, n
<1>5. Sums(Deltas, n, a)
  <2>1. 0 \in 0..n /\ \A i \in 1..n : i \in 0..n /\ i # 0 /\ a[i] = Entries[i].delta
    BY <1>1
  <2>. QED
    BY <1>4, <2>1, Zenon DEF Sums
<1>6. \A i \in 0..n : Deltas[i] \in Nat
  BY <1>1, <1>5, SumsType
<1>. QED
  BY <1>1, <1>5, <1>6 DEF Sums, n

\* Residuals lie one after the other.
LEMMA DeltasGrow ==
    ASSUME NEW i \in 0..Len(Entries), NEW j \in 0..Len(Entries), i <= j
    PROVE  Deltas[i] <= Deltas[j]
<1>1. \A k \in 1..Len(Entries) : Entries[k].delta \in Nat /\ k - 1 \in 0..Len(Entries)
  BY EntriesAre
<1>2. \A k \in 1..Len(Entries) : Deltas[k - 1] <= Deltas[k]
  <2> SUFFICES ASSUME NEW k \in 1..Len(Entries)
               PROVE  Deltas[k - 1] <= Deltas[k]
    OBVIOUS
  <2>1. Deltas[k] = Deltas[k - 1] + Entries[k].delta /\ Deltas[k - 1] \in Nat
    BY <1>1, DeltasIs
  <2>. QED
    BY <1>1, <2>1
<1>3. Len(Entries) \in Nat
  BY EntriesAre
<1>4. \A k \in 0..Len(Entries) : Deltas[k] \in Nat
  BY DeltasIs
<1>. QED
  BY <1>2, <1>3, <1>4, Increasing

\* The frames lie one after the other behind the metadata.
LEMMA FramesLie ==
    /\ \A b \in 1..(Len(FrameSizes) + 1) : FrameOffset[b] \in Nat /\ FrameOffset[b] >= MetaSize
    /\ \A b \in 1..Len(FrameSizes) :
          /\ FrameSizes[b] \in Nat
          /\ FrameOffset[b] + FrameSizes[b] <= FrameOffset[Len(FrameSizes) + 1]
<1> DEFINE n == Len(FrameSizes)
           a == [b \in 1..n |-> FrameSizes[b]]
<1>1. /\ n \in Nat /\ a \in [1..n -> Nat] /\ \A b \in 1..n : a[b] = FrameSizes[b]
      /\ MetaSize \in Nat /\ \A b \in 1..n : FrameSizes[b] \in Nat
  BY LayoutAssumption
<1> HIDE DEF n, a
<1>2. PICK f \in [0..n -> Nat] : Sums(f, n, a)
  BY <1>1, SumsExist
<1> DEFINE g == [b \in 1..(n + 1) |-> MetaSize + f[b - 1]]
<1>3. g = [b \in 1..(n + 1) |-> IF b = 1 THEN MetaSize ELSE g[b - 1] + FrameSizes[b - 1]]
  <2>1. ASSUME NEW b \in 1..(n + 1), b # 1
        PROVE  g[b] = g[b - 1] + FrameSizes[b - 1]
    <3>1. b - 1 \in 1..n /\ b - 1 - 1 \in 0..n /\ b - 1 \in 1..(n + 1)
      BY <1>1, <2>1
    <3>2. f[b - 1] = f[b - 1 - 1] + a[b - 1] /\ f[b - 1 - 1] \in Nat /\ a[b - 1] \in Nat
      BY <1>1, <1>2, <3>1 DEF Sums
    <3>3. g[b] = MetaSize + f[b - 1] /\ g[b - 1] = MetaSize + f[b - 1 - 1]
      BY <3>1
    <3>. QED
      BY <1>1, <3>1, <3>2, <3>3
  <2>2. 1 \in 1..(n + 1) => g[1] = MetaSize
    BY <1>1, <1>2 DEF Sums
  <2>3. g = [b \in 1..(n + 1) |-> g[b]]
    OBVIOUS
  <2> HIDE DEF g
  <2>4. \A b \in 1..(n + 1) : g[b] = IF b = 1 THEN MetaSize ELSE g[b - 1] + FrameSizes[b - 1]
    BY <2>1, <2>2
  <2>. QED
    BY <2>3, <2>4, Zenon
<1>4. FrameOffset =
        [b \in 1..(n + 1) |-> IF b = 1 THEN MetaSize ELSE FrameOffset[b - 1] + FrameSizes[b - 1]]
  BY <1>3, Zenon DEF FrameOffset, n
<1>5. FrameOffset[1] = MetaSize
  BY <1>1, <1>4
<1> HIDE DEF g
<1>6. \A b \in 1..n : FrameOffset[b + 1] = FrameOffset[b] + FrameSizes[b]
  <2> SUFFICES ASSUME NEW b \in 1..n
               PROVE  FrameOffset[b + 1] = FrameOffset[b] + FrameSizes[b]
    OBVIOUS
  <2>1. b + 1 \in 1..(n + 1) /\ b + 1 # 1 /\ b + 1 - 1 = b
    BY <1>1
  <2> DEFINE c == b + 1
  <2> HIDE DEF c
  <2>2. FrameOffset[c] = FrameOffset[c - 1] + FrameSizes[c - 1]
    <3>1. c \in 1..(n + 1) /\ c # 1
      BY <2>1 DEF c
    <3>. QED
      BY <1>4, <3>1, Zenon
  <2>. QED
    BY <2>1, <2>2 DEF c
<1>7. \A i \in 0..n : FrameOffset[i + 1] \in Nat /\ FrameOffset[i + 1] >= MetaSize
  <2> DEFINE P == {i \in 0..n : FrameOffset[i + 1] \in Nat /\ FrameOffset[i + 1] >= MetaSize}
  <2>1. 0 \in P
    BY <1>1, <1>5
  <2>2. ASSUME NEW i \in 1..n, i - 1 \in P
        PROVE  i \in P
    <3>1. i - 1 + 1 = i /\ i \in 0..n
      BY <1>1
    <3>2. FrameOffset[i] \in Nat /\ FrameOffset[i] >= MetaSize
      BY <2>2, <3>1
    <3>3. FrameOffset[i + 1] = FrameOffset[i] + FrameSizes[i] /\ FrameSizes[i] \in Nat
      BY <1>1, <1>6
    <3>. QED
      BY <1>1, <3>1, <3>2, <3>3
  <2> HIDE DEF P
  <2>3. \A i \in 0..n : i \in P
    BY <1>1, <2>1, <2>2, InductionUpto, Zenon
  <2>. QED
    BY <2>3 DEF P
<1>8. \A b \in 1..n : FrameOffset[b + 1] <= FrameOffset[n + 1]
  <2> DEFINE o == [i \in 0..n |-> FrameOffset[i + 1]]
  <2>1. \A i \in 0..n : o[i] = FrameOffset[i + 1] /\ o[i] \in Nat
    BY <1>7
  <2>2. \A i \in 1..n : o[i - 1] <= o[i]
    <3> SUFFICES ASSUME NEW i \in 1..n
                 PROVE  o[i - 1] <= o[i]
      OBVIOUS
    <3>1. i \in 0..n /\ i - 1 \in 0..n /\ i - 1 + 1 = i
      BY <1>1
    <3>2. o[i - 1] = FrameOffset[i] /\ o[i] = FrameOffset[i + 1]
      BY <3>1, <2>1
    <3>3. FrameOffset[i + 1] = FrameOffset[i] + FrameSizes[i] /\ FrameSizes[i] \in Nat
      BY <1>1, <1>6
    <3>4. o[i - 1] \in Nat
      BY <2>1, <3>1
    <3>. QED
      BY <3>2, <3>3, <3>4
  <2> HIDE DEF o
  <2>3. ASSUME NEW b \in 1..n
        PROVE  o[b] <= o[n]
    <3>1. b \in 0..n /\ n \in 0..n /\ b <= n
      BY <1>1
    <3>. QED
      BY <1>1, <2>1, <2>2, <3>1, Increasing
  <2>4. n \in 0..n /\ \A b \in 1..n : b \in 0..n
    BY <1>1
  <2>. QED
    BY <2>1, <2>3, <2>4
<1>9. \A b \in 1..(n + 1) : FrameOffset[b] \in Nat /\ FrameOffset[b] >= MetaSize
  <2> SUFFICES ASSUME NEW b \in 1..(n + 1)
               PROVE  FrameOffset[b] \in Nat /\ FrameOffset[b] >= MetaSize
    OBVIOUS
  <2>1. b - 1 \in 0..n /\ b - 1 + 1 = b
    BY <1>1
  <2>. QED
    BY <1>7, <2>1
<1>. QED
  BY <1>1, <1>6, <1>8, <1>9 DEF n

\* The first chunk begins a block.
LEMMA FirstStarts ==
    ASSUME Len(Entries) >= 1
    PROVE  1 \in Starts
<1> DEFINE n == Len(Entries) - 1
           After(i, x) == LET f == x + Entries[i].size IN IF f >= BlockSize THEN 0 ELSE f
           G == [i \in 1..n |-> [x \in Nat |-> After(i, x)]]
<1>1. n \in Nat /\ 1..Len(Entries) = 1..(n + 1) /\ \A i \in 1..n : Entries[i].size \in Nat
  BY EntriesAre
<1>2. G \in [1..n -> [Nat -> Nat]]
  BY <1>1
<1> HIDE DEF n
<1>3. PICK f \in [0..n -> Nat] : Recursion(f, n, 0, G)
  BY <1>1, <1>2, RecursionExists, 0 \in Nat, Zenon
<1> DEFINE g == [i \in 1..(n + 1) |-> f[i - 1]]
           Step(h, i) == IF i = 1 THEN 0
                         ELSE LET x == h[i - 1] + Entries[i - 1].size
                              IN  IF x >= BlockSize THEN 0 ELSE x
<1>4. \A i \in 1..(n + 1) : g[i] = Step(g, i)
  <2> SUFFICES ASSUME NEW i \in 1..(n + 1)
               PROVE  g[i] = Step(g, i)
    OBVIOUS
  <2>1. CASE i = 1
    BY <1>1, <1>3, <2>1 DEF Recursion
  <2>2. CASE i # 1
    <3>1. i - 1 \in 1..n /\ i - 1 - 1 \in 0..n /\ i - 1 \in 1..(n + 1)
      BY <1>1, <2>2
    <3>2. f[i - 1] = G[i - 1][f[i - 1 - 1]]
      BY <1>3, <3>1 DEF Recursion
    <3>3. f[i - 1 - 1] \in Nat
      BY <3>1
    <3>4. G[i - 1][f[i - 1 - 1]] = After(i - 1, f[i - 1 - 1])
      BY <3>1, <3>3
    <3>5. g[i] = f[i - 1] /\ g[i - 1] = f[i - 1 - 1]
      BY <3>1
    <3>. QED
      BY <2>2, <3>2, <3>4, <3>5
  <2>. QED
    BY <2>1, <2>2
<1>5. g = [i \in 1..(n + 1) |-> g[i]]
  OBVIOUS
<1> HIDE DEF g
<1>6. g = [i \in 1..Len(Entries) |-> Step(g, i)]
  BY <1>1, <1>4, <1>5, Zenon
<1>7. Filled = [i \in 1..Len(Entries) |-> Step(Filled, i)]
  BY <1>6, Zenon DEF Filled
<1>8. Filled[1] = 0
  BY <1>1, <1>7
<1>. QED
  BY <1>8, LayoutAssumption DEF Starts

\* A block is a run of chunks that begins with its start.
LEMMA BlockRuns ==
    ASSUME NEW i \in 1..Len(Entries), NEW b, b = BlockOf[i],
           NEW s, s = StartOf[b], NEW e, e = s - 1 + Cardinality({j \in DOMAIN Entries : BlockOf[j] = b})
    PROVE  /\ b \in 1..Cardinality(Starts)
           /\ s \in 1..Len(Entries) /\ s <= i
           /\ e \in 1..Len(Entries) /\ i <= e
<1> DEFINE n == Len(Entries)
           Upon(j) == {t \in Starts : t <= j}
           In == {j \in DOMAIN Entries : BlockOf[j] = b}
<1>1. n \in Nat /\ DOMAIN Entries = 1..n
  BY EntriesAre
<1>2. Starts \subseteq 1..n /\ IsFiniteSet(Starts)
  <2>1. Starts \subseteq 1..n
    BY <1>1 DEF Starts
  <2>2. IsFiniteSet(1..n)
    BY <1>1, FS_Interval
  <2>. QED
    BY <2>1, <2>2, FS_Subset
<1>3. \A j \in 1..n : BlockOf[j] = Cardinality(Upon(j))
  BY <1>1 DEF BlockOf
<1>16. \A t \in Starts : t \in 1..n /\ t \in Nat
  BY <1>1, <1>2
<1> HIDE DEF n
<1>17. i \in 1..n
  BY DEF n
<1>4. \A j \in 1..n : IsFiniteSet(Upon(j)) /\ Cardinality(Upon(j)) \in Nat
                      /\ Cardinality(Upon(j)) <= Cardinality(Starts)
  <2>1. \A j \in 1..n : Upon(j) \in SUBSET Starts
    OBVIOUS
  <2> HIDE DEF Upon
  <2>. QED
    BY <1>2, <2>1, FS_Subset, FS_CardinalityType
\* An earlier chunk is in no later block, and a start is in a block of its own.
<1>5. ASSUME NEW j \in 1..n, NEW k \in 1..n, j <= k
      PROVE  Cardinality(Upon(j)) <= Cardinality(Upon(k))
  <2>1. Upon(j) \in SUBSET Upon(k)
    <3>1. \A t \in Starts : t <= j => t <= k
      BY <1>1, <1>5, <1>16
    <3>. QED
      BY <3>1
  <2> HIDE DEF Upon
  <2>. QED
    BY <1>4, <2>1, FS_Subset
<1>6. ASSUME NEW j \in 1..n, NEW k \in Starts, j < k
      PROVE  Cardinality(Upon(j)) < Cardinality(Upon(k))
  <2>0. k \in 1..n
    BY <1>2
  <2>1. Upon(j) \in SUBSET Upon(k) /\ k \in Upon(k) /\ k \notin Upon(j)
    <3>1. \A t \in Starts : t <= j => t <= k
      BY <1>1, <1>6, <1>16
    <3>2. k <= k /\ ~(k <= j)
      BY <1>1, <1>6, <1>16
    <3>. QED
      BY <3>1, <3>2
  <2> HIDE DEF Upon
  <2>2. /\ Cardinality(Upon(j)) <= Cardinality(Upon(k))
        /\ Cardinality(Upon(k)) = Cardinality(Upon(j)) => Upon(k) = Upon(j)
    BY <1>4, <2>0, <2>1, FS_Subset
  <2>3. Cardinality(Upon(j)) \in Nat /\ Cardinality(Upon(k)) \in Nat
    BY <1>4, <2>0
  <2>. QED
    BY <2>1, <2>2, <2>3
\* The last start that is not behind the chunk.
<1>7. PICK m \in Starts : m <= i /\ Upon(m) = Upon(i)
  <2>1. 1 \in Starts
    BY <1>1, <1>17, FirstStarts DEF n
  <2> DEFINE D == {i - t : t \in Upon(i)}
  <2>2. D \in SUBSET Nat /\ D # {}
    BY <1>1, <1>16, <1>17, <2>1
  <2>3. PICK d \in D : \A x \in D : d <= x
    BY <2>2, LeastNatural
  <2>4. PICK t \in Upon(i) : d = i - t
    OBVIOUS
  <2>5. \A u \in Upon(i) : i - t <= i - u
    BY <2>3, <2>4
  <2>6. \A u \in Upon(i) : u <= t
    BY <1>1, <1>16, <1>17, <2>5
  <2>7. Upon(t) = Upon(i)
    <3>1. t \in Nat /\ t <= i /\ i \in Nat
      BY <1>1, <1>16, <1>17
    <3>2. \A u \in Starts : u <= t => u <= i
      BY <1>16, <3>1
    <3>3. \A u \in Starts : u <= i => u <= t
      BY <2>6
    <3>. QED
      BY <3>2, <3>3
  <2>. QED
    BY <2>7
<1>8. b = Cardinality(Upon(i)) /\ b \in 1..Cardinality(Starts)
  <2>1. b = Cardinality(Upon(i))
    BY <1>3, <1>17
  <2>2. Upon(i) # {} /\ b \in Nat /\ b <= Cardinality(Starts)
    BY <1>4, <1>7, <1>17, <2>1
  <2>3. b # 0
    BY <1>4, <1>17, <2>1, <2>2, FS_EmptySet
  <2>4. Cardinality(Starts) \in Nat
    BY <1>2, FS_CardinalityType
  <2>. QED
    BY <2>1, <2>2, <2>3, <2>4
<1>9. s \in Starts /\ BlockOf[s] = b
  <2>1. BlockOf[m] = b
    BY <1>2, <1>3, <1>7, <1>8
  <2>2. s = CHOOSE t \in Starts : BlockOf[t] = b
    BY <1>8 DEF StartOf
  <2>. QED
    BY <2>1, <2>2
<1>10. s \in 1..n /\ Cardinality(Upon(s)) = b
  BY <1>2, <1>3, <1>9
<1> HIDE DEF Upon
<1>11. s <= i
  <2>1. CASE s > i
    <3>1. Cardinality(Upon(i)) < Cardinality(Upon(s))
      BY <1>6, <1>9, <1>10, <1>17, <2>1
    <3>. QED
      BY <1>4, <1>8, <1>10, <1>17, <3>1
  <2>. QED
    BY <1>10, <1>17, <2>1
<1>12. s..i \subseteq In /\ In \subseteq s..n
  <2>1. ASSUME NEW j \in s..i
        PROVE  j \in In
    <3>1. j \in 1..n /\ s <= j /\ j <= i
      BY <1>1, <1>10, <1>17
    <3>2. Cardinality(Upon(s)) <= Cardinality(Upon(j)) /\ Cardinality(Upon(j)) <= Cardinality(Upon(i))
      BY <1>5, <1>10, <1>17, <3>1
    <3>3. Cardinality(Upon(j)) \in Nat /\ b \in Nat
      BY <1>4, <1>8, <3>1
    <3>4. Cardinality(Upon(j)) = b
      BY <1>8, <1>10, <3>2, <3>3
    <3>. QED
      BY <1>1, <1>3, <3>1, <3>4
  <2>2. ASSUME NEW j \in In
        PROVE  j \in s..n
    <3>1. j \in 1..n /\ Cardinality(Upon(j)) = b
      BY <1>1, <1>3
    <3>2. ~(j < s)
      <4>1. CASE j < s
        <5>1. Cardinality(Upon(j)) < Cardinality(Upon(s))
          BY <1>6, <1>9, <3>1, <4>1
        <5>. QED
          BY <1>8, <1>10, <3>1, <5>1
      <4>. QED
        BY <4>1
    <3>. QED
      BY <1>1, <1>10, <3>1, <3>2
  <2>. QED
    BY <2>1, <2>2
<1>13. i - s + 1 <= Cardinality(In) /\ Cardinality(In) <= n - s + 1 /\ Cardinality(In) \in Nat
  <2>1. s \in Int /\ i \in Int /\ n \in Int /\ s <= i /\ s <= n
    BY <1>1, <1>10, <1>11, <1>17
  <2>0. \A x, y \in Int : x <= y => IsFiniteSet(x..y) /\ Cardinality(x..y) = y - x + 1
    BY FS_Interval
  <2>2. IsFiniteSet(s..n) /\ Cardinality(s..n) = n - s + 1
    BY <2>0, <2>1, Zenon
  <2>3. Cardinality(s..i) = i - s + 1
    BY <2>0, <2>1, Zenon
  <2> HIDE DEF In
  <2>4. IsFiniteSet(In) /\ Cardinality(In) <= Cardinality(s..n)
    BY <1>12, <2>2, FS_Subset
  <2>5. Cardinality(s..i) <= Cardinality(In)
    BY <1>12, <2>4, FS_Subset
  <2>6. Cardinality(In) \in Nat
    BY <2>4, FS_CardinalityType
  <2>. QED
    BY <2>2, <2>3, <2>4, <2>5, <2>6
<1>14. e = s - 1 + Cardinality(In)
  OBVIOUS
<1>15. e \in 1..n /\ i <= e
  <2> DEFINE c == Cardinality(In)
  <2> HIDE DEF c
  <2>1. c \in Nat /\ i - s + 1 <= c /\ c <= n - s + 1
    BY <1>13 DEF c
  <2>2. e = s - 1 + c
    BY <1>14 DEF c
  <2>. QED
    BY ONLY <1>1, <1>10, <1>11, <1>17, <2>1, <2>2
<1>. QED
  BY <1>8, <1>10, <1>11, <1>15 DEF n

-----------------------------------------------------------------------------
(* Runs of cells. *)

\* A run of cells is a sequence of numbers.
LEMMA CellsAre ==
    ASSUME NEW o \in Nat, NEW n \in Nat
    PROVE  /\ Cells(o, n) \in Seq(Nat) /\ Cells(o, n) \in Seq(Int)
           /\ Len(Cells(o, n)) = n
           /\ \A i \in 1..n : Cells(o, n)[i] = o + i - 1
<1>1. \A i \in 1..n : o + i - 1 \in Nat
  OBVIOUS
<1>2. Cells(o, n) \in Seq(Nat)
  BY <1>1 DEF Cells
<1>3. Cells(o, n) \in Seq(Int)
  BY DEF Cells
<1>4. Len(Cells(o, n)) = n
  BY DEF Cells
<1>5. \A i \in 1..n : Cells(o, n)[i] = o + i - 1
  BY DEF Cells
<1>. QED
  BY <1>2, <1>3, <1>4, <1>5

\* What SubSeq cuts out of a run of n cells is the run of k cells that begins at f.
CutIsRun(o, n, f, k) == SubSeq(Cells(o, n), f + 1, f + k) = Cells(o + f, k)

\* A part of a run.
LEMMA CellsCut ==
    ASSUME NEW o \in Nat, NEW n \in Nat, NEW f \in Nat, NEW k \in Nat, f + k <= n
    PROVE  CutIsRun(o, n, f, k)
<1> DEFINE s == Cells(o, n)
           a == SubSeq(s, f + 1, f + k)
           b == Cells(o + f, k)
<1>1. s \in Seq(Nat) /\ Len(s) = n /\ \A i \in 1..n : s[i] = o + i - 1
  BY CellsAre
<1>2. b \in Seq(Nat) /\ Len(b) = k /\ \A i \in 1..k : b[i] = o + f + i - 1
  BY CellsAre, o + f \in Nat
<1> HIDE DEF s, b
<1>3. a \in Seq(Nat) /\ Len(a) = k /\ \A i \in 1..k : a[i] = s[f + 1 + i - 1]
  BY <1>1
<1> HIDE DEF a
<1>4. \A i \in 1..k : a[i] = b[i]
  <2> SUFFICES ASSUME NEW i \in 1..k
               PROVE  a[i] = b[i]
    OBVIOUS
  <2>1. f + 1 + i - 1 = f + i /\ f + i \in 1..n
    OBVIOUS
  <2>2. a[i] = s[f + i]
    BY <1>3, <2>1
  <2>3. s[f + i] = o + (f + i) - 1
    BY <1>1, <2>1, Zenon
  <2>. QED
    BY <1>2, <2>2, <2>3
<1>5. a = b
  BY <1>2, <1>3, <1>4, SeqEqual
<1>. QED
  BY <1>5 DEF CutIsRun, a, b, s

\* A run behind a run.
LEMMA CellsJoin ==
    ASSUME NEW o \in Nat, NEW n \in Nat, NEW k \in Nat
    PROVE  Cells(o, n) \o Cells(o + n, k) = Cells(o, n + k)
<1> DEFINE u == Cells(o, n)
           v == Cells(o + n, k)
           w == Cells(o, n + k)
<1>1. u \in Seq(Nat) /\ Len(u) = n /\ \A i \in 1..n : u[i] = o + i - 1
  BY CellsAre
<1>2. v \in Seq(Nat) /\ Len(v) = k /\ \A i \in 1..k : v[i] = o + n + i - 1
  BY CellsAre, o + n \in Nat
<1>3. w \in Seq(Nat) /\ Len(w) = n + k /\ \A i \in 1..(n + k) : w[i] = o + i - 1
  BY CellsAre, n + k \in Nat
<1> HIDE DEF u, v, w
<1>4. /\ Len(u \o v) = Len(u) + Len(v) /\ u \o v \in Seq(Nat)
      /\ \A i \in 1..Len(u) : (u \o v)[i] = u[i]
      /\ \A i \in 1..Len(v) : (u \o v)[Len(u) + i] = v[i]
  <2>1. u \o v \in Seq(Nat)
    BY <1>1, <1>2
  <2>2. Len(u \o v) = Len(u) + Len(v)
    BY <1>1, <1>2, ConcatIs, Zenon
  <2>3. \A i \in 1..Len(u) : (u \o v)[i] = u[i]
    BY <1>1, <1>2
  <2>4. \A i \in 1..Len(v) : (u \o v)[Len(u) + i] = v[i]
    BY <1>1, <1>2
  <2>. QED
    BY <2>1, <2>2, <2>3, <2>4
<1> DEFINE x == u \o v
<1>5. /\ Len(x) = n + k /\ x \in Seq(Nat)
      /\ \A i \in 1..n : x[i] = u[i]
      /\ \A i \in 1..k : x[n + i] = v[i]
  BY <1>1, <1>2, <1>4
<1> HIDE DEF x
<1>6. ASSUME NEW i \in 1..(n + k)
      PROVE  x[i] = w[i]
  <2>1. CASE i <= n
    <3>1. i \in 1..n
      BY <2>1
    <3>. QED
      BY <1>1, <1>3, <1>5, <3>1
  <2>2. CASE i > n
    <3>1. i - n \in 1..k /\ n + (i - n) = i
      BY <2>2
    <3>2. x[n + (i - n)] = v[i - n]
      BY <1>5, <3>1, Zenon
    <3>3. v[i - n] = o + n + (i - n) - 1
      BY <1>2, <3>1, Zenon
    <3>. QED
      BY <1>3, <3>1, <3>2, <3>3
  <2>. QED
    BY <2>1, <2>2
<1>7. x = w
  BY <1>3, <1>5, <1>6, SeqEqual, n + k \in Nat
<1>. QED
  BY <1>7 DEF u, v, w, x

\* Chunk i is the run of its cells.
LEMMA ContentIs ==
    ASSUME NEW i \in 1..Len(Entries)
    PROVE  /\ Content[i] = Cells(Upto[i - 1], Entries[i].size)
           /\ Content[i] \in Seq(Nat) /\ Len(Content[i]) = Entries[i].size
           /\ Upto[i - 1] \in Nat /\ Upto[i] = Upto[i - 1] + Entries[i].size
<1>1. Content[i] = Cells(Upto[i - 1], Entries[i].size)
  BY EntriesAre DEF Content
<1>2. i - 1 \in 0..Len(Entries) /\ Entries[i].size \in Nat
  BY EntriesAre
<1>3. Upto[i - 1] \in Nat /\ Upto[i] = Upto[i - 1] + Entries[i].size
  BY <1>2, UptoIs
<1>4. Cells(Upto[i - 1], Entries[i].size) \in Seq(Nat)
      /\ Len(Cells(Upto[i - 1], Entries[i].size)) = Entries[i].size
  BY <1>2, <1>3, CellsAre, Zenon
<1>. QED
  BY <1>1, <1>3, <1>4, Zenon

\* An offset inside the file lies in a chunk.
LEMMA ChunkIs ==
    ASSUME NEW o \in Nat, o < Upto[Len(Entries)]
    PROVE  /\ ChunkAt(o) \in 1..Len(Entries)
           /\ Upto[ChunkAt(o) - 1] <= o /\ o < Upto[ChunkAt(o)]
<1> DEFINE n == Len(Entries)
           S == {i \in 0..n : o < Upto[i]}
<1>1. n \in Nat /\ DOMAIN Entries = 1..n
  BY EntriesAre
<1>2. S \in SUBSET Nat /\ S # {}
  BY <1>1
<1>3. PICK m \in S : \A k \in S : m <= k
  BY <1>2, LeastNatural
<1>4. m # 0 /\ m \in 0..n /\ o < Upto[m]
  BY <1>3, UptoIs
<1>5. m \in 1..n /\ m - 1 \in 0..n /\ ~(m <= m - 1)
  BY <1>1, <1>4
<1>6. m - 1 \notin S
  BY <1>3, <1>5
<1>7. ~(o < Upto[m - 1])
  BY <1>5, <1>6
<1>8. Upto[m - 1] \in Nat
  BY <1>5, UptoIs
<1>9. Upto[m - 1] <= o
  BY <1>7, <1>8
<1>10. \E i \in DOMAIN Entries : Upto[i - 1] <= o /\ o < Upto[i]
  BY <1>1, <1>4, <1>5, <1>9, Zenon
<1>11. ChunkAt(o) \in DOMAIN Entries /\ Upto[ChunkAt(o) - 1] <= o /\ o < Upto[ChunkAt(o)]
  BY <1>10, Zenon DEF ChunkAt
<1>. QED
  BY <1>1, <1>11

\* What the mounted brain makes of a chunk: nothing, or cells, no more than the chunk
\* has; the chunk itself if the codeword is the one it was packed with.
LEMMA RebuiltIs ==
    ASSUME file \in Files, NEW i \in 1..Len(Entries)
    PROVE  /\ \/ Rebuilt(i) = Error
              \/ Rebuilt(i) \in Seq(Int) /\ Len(Rebuilt(i)) <= Entries[i].size
           /\ OwnWord(i) => Rebuilt(i) = Content[i]
           /\ Rebuilt(i) = Error => ~OwnWord(i)
<1>1. /\ Content[i] \in Seq(Nat) /\ Len(Content[i]) = Entries[i].size
      /\ Entries[i].size \in Nat \ {0} /\ Entries[i].delta \in Nat /\ i \in DOMAIN Entries
  BY ContentIs, EntriesAre
<1>2. file.words[i] \in Words
  BY <1>1, LayoutAssumption
<1>3. Content[i] \in Seq(Int)
  BY <1>1
<1>4. CASE OwnWord(i)
  <2>1. Rebuilt(i) = Content[i]
    BY <1>4 DEF Rebuilt
  <2>2. Content[i] # Error
    BY <1>1, LayoutAssumption, SMTT(20)
  <2>. QED
    BY <1>1, <1>3, <1>4, <2>1, <2>2
<1>5. CASE ~OwnWord(i)
  <2>1. CASE file.words[i] = "own"
    BY <1>5, <2>1 DEF OwnWord
  <2>2. CASE file.words[i] = "other"
    <3>1. Rebuilt(i) = [Content[i] EXCEPT ![1] = -1]
      BY <1>5, <2>2 DEF Rebuilt
    <3>2. [Content[i] EXCEPT ![1] = -1] \in Seq(Int)
          /\ Len([Content[i] EXCEPT ![1] = -1]) = Entries[i].size
      BY <1>1, <1>3
    <3>. QED
      BY <1>1, <1>5, <3>1, <3>2
  <2>3. CASE file.words[i] = "short"
    <3>1. Rebuilt(i) = [j \in 1..ShortSize(i) |-> -1]
      BY <1>5, <2>3 DEF Rebuilt
    <3>2. ShortSize(i) \in Nat /\ ShortSize(i) <= Entries[i].size
      BY <1>1 DEF ShortSize, Lower
    <3>3. [j \in 1..ShortSize(i) |-> -1] \in Seq(Int)
          /\ Len([j \in 1..ShortSize(i) |-> -1]) = ShortSize(i)
      BY <3>2
    <3>. QED
      BY <1>5, <3>1, <3>2, <3>3
  <2>4. CASE file.words[i] = "none"
    BY <1>5, <2>4 DEF Rebuilt
  <2>. QED
    BY <1>2, <2>1, <2>2, <2>3, <2>4 DEF Words
<1>. QED
  BY <1>4, <1>5

\* The mounted brain stays the one it is.
LEMMA BrainStays ==
    ASSUME file' = file
    PROVE  Matched' = Matched /\ Stored' = Stored
<1>1. Matched' = Matched
  BY DEF Matched, OwnWord
<1>2. Stored' = Stored
  BY DEF Stored, Rebuilt, OwnWord, ShortSize
<1>. QED
  BY <1>1, <1>2

\* A chunk is rebuilt from the residuals of its block.
LEMMA RebuildIs ==
    ASSUME NEW i \in 1..Len(Entries)
    PROVE  /\ Rebuild(i, Pool[BlockOf[i]]) = Rebuilt(i)
           /\ Pool[BlockOf[i]] \in Seq(Nat)
           /\ BlockOf[i] \in 1..Len(FrameSizes)
<1> DEFINE b == BlockOf[i]
           s == StartOf[b]
           e == s - 1 + Cardinality({j \in DOMAIN Entries : BlockOf[j] = b})
           d == Deltas[i - 1]
           x == Deltas[s - 1]
           y == Deltas[e]
           k == Entries[i].delta
<1>1. /\ b \in 1..Cardinality(Starts)
      /\ s \in 1..Len(Entries) /\ s <= i
      /\ e \in 1..Len(Entries) /\ i <= e
  <2> HIDE DEF b, s, e
  <2>. QED
    BY BlockRuns DEF b, s, e
<1>2. b \in 1..Len(FrameSizes)
  BY <1>1, FramesAssumption
<1>3. Pool[b] = Cells(x, y - x)
  BY <1>1 DEF Pool, StartOf
<1>4. /\ s - 1 \in 0..Len(Entries) /\ e \in 0..Len(Entries) /\ i \in 0..Len(Entries)
      /\ i - 1 \in 0..Len(Entries) /\ s - 1 <= i - 1
  BY <1>1, EntriesAre
<1> HIDE DEF e
<1>5. x <= d /\ Deltas[i] <= y
  <2>1. Deltas[s - 1] <= Deltas[i - 1]
    BY <1>4, DeltasGrow
  <2>2. Deltas[i] <= Deltas[e]
    BY <1>1, <1>4, DeltasGrow
  <2>. QED
    BY <2>1, <2>2
<1>6. x \in Nat /\ y \in Nat /\ d \in Nat /\ k \in Nat /\ Deltas[i] = d + k
  BY <1>4, DeltasIs, EntriesAre
<1>7. Rebuild(i, Pool[b]) =
        LET from == d - x
        IN  IF from + k > Len(Pool[b]) THEN Error
            ELSE IF SubSeq(Pool[b], from + 1, from + k) = Residual[i]
                   THEN Rebuilt(i) ELSE [Content[i] EXCEPT ![1] = -1]
  BY DEF Rebuild
<1>8. Residual[i] = Cells(d, k)
  BY EntriesAre DEF Residual
<1> HIDE DEF d, x, y, k, s, b
<1> DEFINE f == d - x
           n == y - x
<1>9. f \in Nat /\ n \in Nat /\ f + k <= n /\ x + f = d
  BY <1>5, <1>6
<1> HIDE DEF f, n
<1>10. Pool[b] = Cells(x, n) /\ Pool[b] \in Seq(Nat) /\ Len(Pool[b]) = n
  <2>1. Pool[b] = Cells(x, n)
    BY <1>3 DEF n
  <2>2. Cells(x, n) \in Seq(Nat) /\ Len(Cells(x, n)) = n
    BY <1>6, <1>9, CellsAre, Zenon
  <2>. QED
    BY <2>1, <2>2, Zenon
<1>11. SubSeq(Cells(x, n), f + 1, f + k) = Cells(x + f, k)
  <2>1. x \in Nat /\ n \in Nat /\ f \in Nat /\ k \in Nat /\ f + k <= n
    BY <1>6, <1>9
  <2>2. CutIsRun(x, n, f, k)
    BY ONLY <2>1, CellsCut, Zenon
  <2>. QED
    BY ONLY <2>2 DEF CutIsRun
<1>12. SubSeq(Pool[b], f + 1, f + k) = Residual[i]
  BY <1>8, <1>9, <1>10, <1>11
<1>13. ~(f + k > Len(Pool[b]))
  BY <1>6, <1>9, <1>10
<1>14. Rebuild(i, Pool[b]) = Rebuilt(i)
  BY <1>7, <1>12, <1>13, Zenon DEF f
<1>. QED
  BY <1>2, <1>10, <1>14 DEF b

-----------------------------------------------------------------------------
(* Lists that are kept in the order of use. *)

\* A list without its item i.
LEMMA DropIs ==
    ASSUME NEW S, NEW s \in Seq(S), NEW i \in 1..Len(s)
    PROVE  /\ Drop(s, i) \in Seq(S) /\ Len(Drop(s, i)) = Len(s) - 1
           /\ \A j \in 1..Len(Drop(s, i)) : Drop(s, i)[j] = IF j < i THEN s[j] ELSE s[j + 1]
<1> DEFINE u == SubSeq(s, 1, i - 1)
           v == SubSeq(s, i + 1, Len(s))
           d == u \o v
<1>1. u \in Seq(S) /\ Len(u) = i - 1 /\ \A j \in 1..(i - 1) : u[j] = s[j]
  OBVIOUS
<1>2. v \in Seq(S) /\ Len(v) = Len(s) - i /\ \A j \in 1..(Len(s) - i) : v[j] = s[i + j]
  OBVIOUS
<1>3. Drop(s, i) = d
  BY DEF Drop
<1> HIDE DEF u, v
<1>4. d \in Seq(S)
  BY <1>1, <1>2
<1>5. Len(d) = Len(s) - 1
  <2>1. Len(u \o v) = Len(u) + Len(v)
    BY <1>1, <1>2, ConcatIs, Zenon
  <2>. QED
    BY <1>1, <1>2, <2>1
<1>6. \A j \in 1..Len(u) : (u \o v)[j] = u[j]
  BY <1>1, <1>2
<1>7. \A j \in 1..Len(v) : (u \o v)[Len(u) + j] = v[j]
  BY <1>1, <1>2
<1> HIDE DEF d
<1>8. ASSUME NEW j \in 1..Len(d)
      PROVE  d[j] = IF j < i THEN s[j] ELSE s[j + 1]
  <2>1. CASE j < i
    <3>1. j \in 1..(i - 1) /\ j \in 1..Len(u)
      BY <1>1, <2>1
    <3>. QED
      BY <1>1, <1>6, <2>1, <3>1 DEF d
  <2>2. CASE ~(j < i)
    <3>1. /\ j - (i - 1) \in 1..(Len(s) - i) /\ j - (i - 1) \in 1..Len(v)
          /\ Len(u) + (j - (i - 1)) = j /\ i + (j - (i - 1)) = j + 1
      BY <1>1, <1>2, <1>5, <2>2
    <3>2. (u \o v)[Len(u) + (j - (i - 1))] = v[j - (i - 1)]
      BY <1>7, <3>1, Zenon
    <3>3. v[j - (i - 1)] = s[i + (j - (i - 1))]
      BY <1>2, <3>1, Zenon
    <3>4. d[j] = s[j + 1]
      BY <3>1, <3>2, <3>3 DEF d
    <3>. QED
      BY <2>2, <3>4
  <2>. QED
    BY <2>1, <2>2
<1>. QED
  BY <1>3, <1>4, <1>5, <1>8

\* Items whose data has a length.
Sized(s) == \E S : s \in Seq(S) /\ \A x \in S : Len(x.data) \in Nat
Unique(s) == \A i, j \in DOMAIN s : s[i].key = s[j].key => i = j

Weights(s) == [i \in 1..Len(s) |-> Len(s[i].data)]

\* Bytes is the sum of the lengths.
LEMMA BytesIs ==
    ASSUME NEW s, Sized(s)
    PROVE  /\ Weights(s) \in [1..Len(s) -> Nat] /\ Len(s) \in Nat
           /\ \A f : Sums(f, Len(s), Weights(s)) => Bytes(s) = f[Len(s)]
           /\ \E f \in [0..Len(s) -> Nat] : Sums(f, Len(s), Weights(s))
           /\ Bytes(s) \in Nat
<1>1. PICK S : s \in Seq(S) /\ \A x \in S : Len(x.data) \in Nat
  BY DEF Sized
<1> DEFINE n == Len(s)
           a == Weights(s)
<1>2. n \in Nat /\ a \in [1..n -> Nat] /\ \A i \in 1..n : a[i] = Len(s[i].data)
  BY <1>1 DEF Weights
<1> HIDE DEF a
<1>3. PICK g \in [0..n -> Nat] : Sums(g, n, a)
  BY <1>2, SumsExist, Zenon
<1> DEFINE h == CHOOSE h : h = [i \in 0..n |-> IF i = 0 THEN 0 ELSE h[i - 1] + Len(s[i].data)]
<1>4. g = [i \in 0..n |-> IF i = 0 THEN 0 ELSE g[i - 1] + Len(s[i].data)]
  BY <1>2, <1>3 DEF Sums
<1>5. h = [i \in 0..n |-> IF i = 0 THEN 0 ELSE h[i - 1] + Len(s[i].data)]
  BY <1>4, Zenon
<1>6. Bytes(s) = h[n]
  BY DEF Bytes
<1> HIDE DEF h
<1>7. Sums(h, n, a)
  <2>1. 0 \in 0..n /\ \A i \in 1..n : i \in 0..n /\ i # 0 /\ a[i] = Len(s[i].data)
    BY <1>2
  <2>. QED
    BY <1>5, <2>1, Zenon DEF Sums
<1>8. ASSUME NEW f, Sums(f, n, a)
      PROVE  f[n] = h[n]
  <2>1. n \in 0..n
    BY <1>2
  <2>. QED
    BY <1>2, <1>7, <1>8, <2>1, SumsUnique
<1>9. g[n] \in Nat
  BY <1>2
<1>10. \A f : Sums(f, n, a) => Bytes(s) = f[n]
  BY <1>6, <1>8
<1>11. Bytes(s) \in Nat
  BY <1>3, <1>9, <1>10
<1>. QED
  BY <1>2, <1>3, <1>10, <1>11, Zenon DEF a, n

\* Two lists one after the other.
LEMMA BytesJoin ==
    ASSUME NEW S, \A x \in S : Len(x.data) \in Nat, NEW u \in Seq(S), NEW v \in Seq(S)
    PROVE  Bytes(u \o v) = Bytes(u) + Bytes(v)
<1> DEFINE w == u \o v
           m == Len(u)
           n == Len(v)
<1>1. w \in Seq(S) /\ m \in Nat /\ n \in Nat
  OBVIOUS
<1>2. Len(w) = m + n
  BY ConcatIs, Zenon
<1>3. \A i \in 1..m : w[i] = u[i]
  OBVIOUS
<1>4. \A i \in 1..n : w[m + i] = v[i]
  OBVIOUS
<1> HIDE DEF w
<1>5. Sized(u) /\ Sized(v) /\ Sized(w)
  BY <1>1 DEF Sized
<1>6. PICK f \in [0..m -> Nat] : Sums(f, m, Weights(u))
  BY <1>5, BytesIs
<1>7. PICK g \in [0..n -> Nat] : Sums(g, n, Weights(v))
  BY <1>5, BytesIs
<1>8. Bytes(u) = f[m] /\ Bytes(v) = g[n]
  BY <1>5, <1>6, <1>7, BytesIs
<1> HIDE DEF m, n
<1> DEFINE h == [i \in 0..(m + n) |-> IF i <= m THEN f[i] ELSE f[m] + g[i - m]]
<1>9. f[0] = 0 /\ \A i \in 1..m : f[i] = f[i - 1] + Len(u[i].data)
  BY <1>6 DEF Sums, Weights, m
<1>10. g[0] = 0 /\ \A i \in 1..n : g[i] = g[i - 1] + Len(v[i].data)
  BY <1>7 DEF Sums, Weights, n
<1>11. \A i \in 1..m : u[i] \in S
  BY DEF m
<1>12. \A i \in 1..n : v[i] \in S
  BY DEF n
<1>13. ASSUME NEW i \in 1..(m + n)
       PROVE  h[i] = h[i - 1] + Len(w[i].data)
  <2>0. i \in 0..(m + n) /\ i - 1 \in 0..(m + n)
    BY <1>1
  <2>1. CASE i <= m
    <3>1. i \in 1..m /\ i - 1 <= m
      BY <1>1, <2>1
    <3>2. h[i] = f[i] /\ h[i - 1] = f[i - 1]
      BY <2>0, <2>1, <3>1
    <3>. QED
      BY <1>3, <1>9, <3>1, <3>2
  <2>2. CASE i > m
    <3>1. i - m \in 1..n /\ ~(i <= m) /\ m + (i - m) = i /\ i - m - 1 \in 0..n
      BY <1>1, <2>2
    <3>2. w[i] = v[i - m]
      BY <1>4, <3>1
    <3>3. g[i - m] = g[i - m - 1] + Len(v[i - m].data)
      BY <1>10, <3>1, Zenon
    <3>4. h[i] = f[m] + g[i - m]
      BY <2>0, <3>1
    <3>5. h[i - 1] = f[m] + g[i - m - 1]
      <4>1. CASE i - 1 <= m
        <5>1. i - 1 = m /\ i - m - 1 = 0
          BY <1>1, <2>2, <4>1
        <5>2. f[m] \in Nat
          BY <1>1
        <5>. QED
          BY <1>10, <2>0, <5>1, <5>2
      <4>2. CASE ~(i - 1 <= m)
        <5>1. i - 1 - m = i - m - 1
          BY <1>1
        <5>. QED
          BY <2>0, <4>2, <5>1
      <4>. QED
        BY <4>1, <4>2
    <3>6. Len(v[i - m].data) \in Nat /\ f[m] \in Nat /\ g[i - m - 1] \in Nat
      BY <1>1, <1>12, <3>1
    <3> HIDE DEF h
    <3>. QED
      BY <3>2, <3>3, <3>4, <3>5, <3>6
  <2>. QED
    BY <1>1, <2>1, <2>2
<1>14. h[0] = 0
  BY <1>1, <1>9
<1>15. h[m + n] = f[m] + g[n]
  <2>1. CASE n = 0
    <3>1. f[m] \in Nat /\ h[m] = f[m] /\ m + n = m
      BY <1>1, <2>1
    <3>. QED
      BY <1>10, <2>1, <3>1
  <2>2. CASE n # 0
    <3> DEFINE k == m + n
    <3>1. ~(k <= m) /\ k - m = n /\ k \in 0..(m + n)
      BY <1>1, <2>2
    <3> HIDE DEF k
    <3>2. h[k] = f[m] + g[k - m]
      BY <3>1
    <3>. QED
      BY <3>1, <3>2 DEF k
  <2>. QED
    BY <2>1, <2>2
<1> HIDE DEF h
<1>16. Sums(h, Len(w), Weights(w))
  <2>1. \A i \in 1..(m + n) : Weights(w)[i] = Len(w[i].data)
    BY <1>2 DEF Weights, m, n
  <2>. QED
    BY <1>2, <1>13, <1>14, <2>1 DEF Sums, m, n
<1>17. Bytes(w) = h[Len(w)]
  BY <1>5, <1>16, BytesIs
<1>. QED
  BY <1>2, <1>8, <1>15, <1>17 DEF w, m, n

\* No item, and one.
LEMMA BytesSmall ==
    ASSUME NEW x, Len(x.data) \in Nat
    PROVE  Bytes(<< >>) = 0 /\ Bytes(<<x>>) = Len(x.data)
<1> DEFINE f == [i \in 0..0 |-> 0]
           g == [i \in 0..1 |-> IF i = 0 THEN 0 ELSE Len(x.data)]
           e == << >>
           o == <<x>>
<1>1. Len(e) = 0 /\ Sized(e)
  BY DEF Sized
<1>2. Len(o) = 1 /\ o[1] = x /\ o \in Seq({x})
  OBVIOUS
<1> HIDE DEF o
<1>3. Sized(o)
  <2> DEFINE T == {x}
  <2>1. o \in Seq(T) /\ \A y \in T : Len(y.data) \in Nat
    BY <1>2, Zenon
  <2> HIDE DEF T
  <2>. QED
    BY <2>1, Zenon DEF Sized
<1> HIDE DEF e
<1>4. Sums(f, Len(e), Weights(e))
  BY <1>1 DEF Sums
<1>5. Sums(g, Len(o), Weights(o))
  <2>1. Weights(o)[1] = Len(x.data)
    BY <1>2 DEF Weights
  <2>. QED
    BY <1>2, <2>1 DEF Sums
<1>6. f[0] = 0 /\ g[1] = Len(x.data)
  OBVIOUS
<1> HIDE DEF f, g
<1>7. Bytes(e) = f[Len(e)]
  BY <1>1, <1>4, BytesIs, Zenon
<1>8. Bytes(o) = g[Len(o)]
  BY <1>3, <1>5, BytesIs, Zenon
<1>. QED
  BY <1>1, <1>2, <1>6, <1>7, <1>8 DEF e, o

\* A list is what lies before a place and what lies behind it.
LEMMA CutJoin ==
    ASSUME NEW S, NEW s \in Seq(S), NEW n \in 0..Len(s)
    PROVE  /\ SubSeq(s, 1, n) \in Seq(S) /\ SubSeq(s, n + 1, Len(s)) \in Seq(S)
           /\ SubSeq(s, 1, n) \o SubSeq(s, n + 1, Len(s)) = s
<1> DEFINE u == SubSeq(s, 1, n)
           v == SubSeq(s, n + 1, Len(s))
           w == u \o v
<1>1. u \in Seq(S) /\ Len(u) = n /\ \A j \in 1..n : u[j] = s[j]
  OBVIOUS
<1>2. v \in Seq(S) /\ Len(v) = Len(s) - n /\ \A j \in 1..(Len(s) - n) : v[j] = s[n + j]
  OBVIOUS
<1> HIDE DEF u, v
<1>3. w \in Seq(S)
  BY <1>1, <1>2
<1>4. Len(w) = Len(s)
  <2>1. Len(u \o v) = Len(u) + Len(v)
    BY <1>1, <1>2, ConcatIs, Zenon
  <2>. QED
    BY <1>1, <1>2, <2>1
<1>5. \A j \in 1..Len(u) : (u \o v)[j] = u[j]
  BY <1>1, <1>2
<1>6. \A j \in 1..Len(v) : (u \o v)[Len(u) + j] = v[j]
  BY <1>1, <1>2
<1> HIDE DEF w
<1>7. ASSUME NEW j \in 1..Len(s)
      PROVE  w[j] = s[j]
  <2>1. CASE j <= n
    <3>1. j \in 1..n /\ j \in 1..Len(u)
      BY <1>1, <2>1
    <3>. QED
      BY <1>1, <1>5, <3>1 DEF w
  <2>2. CASE ~(j <= n)
    <3>1. j - n \in 1..(Len(s) - n) /\ j - n \in 1..Len(v) /\ Len(u) + (j - n) = j /\ n + (j - n) = j
      BY <1>1, <1>2, <2>2
    <3>2. (u \o v)[Len(u) + (j - n)] = v[j - n]
      BY <1>6, <3>1, Zenon
    <3>3. v[j - n] = s[n + (j - n)]
      BY <1>2, <3>1, Zenon
    <3>. QED
      BY <3>1, <3>2, <3>3 DEF w
  <2>. QED
    BY <2>1, <2>2
<1>8. w = s
  BY <1>3, <1>4, <1>7, SeqEqual
<1>. QED
  BY <1>1, <1>2, <1>8 DEF u, v, w

\* The bytes of an item that is taken out.
LEMMA BytesDrop ==
    ASSUME NEW S, \A x \in S : Len(x.data) \in Nat, NEW s \in Seq(S), NEW i \in 1..Len(s)
    PROVE  /\ Bytes(Drop(s, i)) + Len(s[i].data) = Bytes(s)
           /\ Bytes(Drop(s, i)) \in Nat
<1> DEFINE u == SubSeq(s, 1, i - 1)
           t == SubSeq(s, i, Len(s))
           x == s[i]
           v == SubSeq(s, i + 1, Len(s))
<1>1. i - 1 \in 0..Len(s) /\ i - 1 + 1 = i /\ x \in S
  OBVIOUS
<1>2. u \in Seq(S) /\ t \in Seq(S) /\ u \o t = s
  <2> DEFINE n == i - 1
  <2>1. n \in 0..Len(s) /\ n + 1 = i
    BY <1>1
  <2> HIDE DEF n
  <2>2. /\ SubSeq(s, 1, n) \in Seq(S) /\ SubSeq(s, n + 1, Len(s)) \in Seq(S)
        /\ SubSeq(s, 1, n) \o SubSeq(s, n + 1, Len(s)) = s
    BY <2>1, CutJoin, Zenon
  <2>. QED
    BY <2>1, <2>2 DEF n
<1>3. v \in Seq(S)
  OBVIOUS
<1>4. <<x>> \o v = t
  <2>1. Len(t) = Len(s) - i + 1 /\ \A j \in 1..Len(t) : t[j] = s[i + j - 1]
    OBVIOUS
  <2>2. Len(v) = Len(s) - i /\ \A j \in 1..Len(v) : v[j] = s[i + j]
    OBVIOUS
  <2> DEFINE w == <<x>> \o v
  <2> HIDE DEF t, v
  <2>3. w \in Seq(S) /\ Len(w) = Len(v) + 1 /\ w[1] = x
    BY <1>1, <1>3
  <2>4. \A j \in 1..Len(v) : w[j + 1] = v[j]
    BY <1>1, <1>3
  <2> HIDE DEF w
  <2>5. ASSUME NEW j \in 1..Len(t)
        PROVE  w[j] = t[j]
    <3>1. CASE j = 1
      BY <2>1, <2>3, <3>1
    <3>2. CASE j # 1
      <4>1. j - 1 \in 1..Len(v) /\ j - 1 + 1 = j /\ i + (j - 1) = i + j - 1
        BY <2>1, <2>2, <3>2
      <4>2. w[j - 1 + 1] = v[j - 1] /\ v[j - 1] = s[i + (j - 1)]
        BY <2>2, <2>4, <4>1, Zenon
      <4>. QED
        BY <2>1, <4>1, <4>2
    <3>. QED
      BY <3>1, <3>2
  <2>6. Len(w) = Len(t)
    BY <2>1, <2>2, <2>3
  <2>7. w = t
    BY <1>2, <2>3, <2>5, <2>6, SeqEqual
  <2>. QED
    BY <2>7 DEF w
<1>5. Drop(s, i) = u \o v
  BY DEF Drop
<1> HIDE DEF u, t, x, v
<1>6. <<x>> \in Seq(S) /\ Len(x.data) \in Nat
  BY <1>1
<1>7. Bytes(u \o v) = Bytes(u) + Bytes(v)
  BY <1>2, <1>3, BytesJoin, Zenon
<1>8. Bytes(<<x>> \o v) = Bytes(<<x>>) + Bytes(v)
  BY <1>3, <1>6, BytesJoin, Zenon
<1>9. Bytes(u \o t) = Bytes(u) + Bytes(t)
  BY <1>2, BytesJoin, Zenon
<1>10. Bytes(<<x>>) = Len(x.data)
  BY <1>6, BytesSmall, Zenon
<1>11. Bytes(u) \in Nat /\ Bytes(v) \in Nat
  <2>1. Sized(u) /\ Sized(v)
    BY <1>2, <1>3, Zenon DEF Sized
  <2>. QED
    BY <2>1, BytesIs, Zenon
<1>12. Bytes(s) = Bytes(u) + (Len(x.data) + Bytes(v))
  BY <1>2, <1>4, <1>8, <1>9, <1>10, Zenon
<1>13. Bytes(Drop(s, i)) = Bytes(u) + Bytes(v)
  BY <1>5, <1>7, Zenon
<1> DEFINE a == Bytes(u)
           c == Bytes(v)
           d == Len(x.data)
<1> HIDE DEF a, c, d
<1>14. a \in Nat /\ c \in Nat /\ d \in Nat
  BY <1>6, <1>11 DEF a, c, d
<1>15. Bytes(s) = a + (d + c) /\ Bytes(Drop(s, i)) = a + c /\ Len(s[i].data) = d
  BY <1>12, <1>13 DEF a, c, d, x
<1>. QED
  BY <1>14, <1>15

\* An item in front of a list that does not hold its key.
LEMMA FrontIs ==
    ASSUME NEW S, \A y \in S : Len(y.data) \in Nat, NEW t \in Seq(S), Unique(t),
           NEW x \in S, \A j \in 1..Len(t) : t[j].key # x.key
    PROVE  /\ <<x>> \o t \in Seq(S) /\ Unique(<<x>> \o t)
           /\ Bytes(<<x>> \o t) = Len(x.data) + Bytes(t)
           /\ Bytes(t) \in Nat
<1> DEFINE w == <<x>> \o t
<1>1. w \in Seq(S) /\ Len(w) = Len(t) + 1 /\ w[1] = x
  OBVIOUS
<1>2. \A j \in 1..Len(t) : w[j + 1] = t[j]
  OBVIOUS
<1>3. Bytes(w) = Bytes(<<x>>) + Bytes(t)
  <2>1. <<x>> \in Seq(S)
    OBVIOUS
  <2>. QED
    BY <2>1, BytesJoin, Zenon
<1>4. Bytes(<<x>>) = Len(x.data)
  BY BytesSmall
<1>5. Bytes(t) \in Nat
  <2>1. Sized(t)
    BY Zenon DEF Sized
  <2>. QED
    BY <2>1, BytesIs, Zenon
<1>6. \A j \in 2..Len(w) : j - 1 \in 1..Len(t) /\ w[j] = t[j - 1]
  <2> SUFFICES ASSUME NEW j \in 2..Len(w)
               PROVE  j - 1 \in 1..Len(t) /\ w[j] = t[j - 1]
    OBVIOUS
  <2> HIDE DEF w
  <2>1. j - 1 \in 1..Len(t) /\ j - 1 + 1 = j
    BY <1>1
  <2>2. w[j - 1 + 1] = t[j - 1]
    BY <1>2, <2>1, Zenon
  <2>. QED
    BY <2>1, <2>2
<1> HIDE DEF w
<1>7. ASSUME NEW j \in 1..Len(w), NEW k \in 1..Len(w), w[j].key = w[k].key
      PROVE  j = k
  <2>1. CASE j = 1 /\ k = 1
    BY <2>1
  <2>2. CASE j = 1 /\ k # 1
    <3>1. k \in 2..Len(w)
      BY <2>2
    <3>. QED
      BY <1>1, <1>6, <1>7, <2>2, <3>1
  <2>3. CASE j # 1 /\ k = 1
    <3>1. j \in 2..Len(w)
      BY <2>3
    <3>. QED
      BY <1>1, <1>6, <1>7, <2>3, <3>1
  <2>4. CASE j # 1 /\ k # 1
    <3>1. j \in 2..Len(w) /\ k \in 2..Len(w)
      BY <2>4
    <3>2. j - 1 \in DOMAIN t /\ k - 1 \in DOMAIN t /\ t[j - 1].key = t[k - 1].key
      BY <1>6, <1>7, <3>1
    <3>3. j - 1 = k - 1
      BY <3>2, Zenon DEF Unique
    <3>. QED
      BY <3>3
  <2>. QED
    BY <2>1, <2>2, <2>3, <2>4
<1>8. DOMAIN w = 1..Len(w)
  BY <1>1
<1>9. Unique(w)
  BY <1>7, <1>8, Zenon DEF Unique
<1>. QED
  BY <1>1, <1>3, <1>4, <1>5, <1>9, Zenon DEF w

\* A list from which the only item of a key was taken does not hold the key.
LEMMA DropsKey ==
    ASSUME NEW S, NEW s \in Seq(S), Unique(s), NEW i \in 1..Len(s)
    PROVE  /\ Unique(Drop(s, i))
           /\ \A j \in 1..Len(Drop(s, i)) : Drop(s, i)[j].key # s[i].key
<1> DEFINE d == Drop(s, i)
           at(j) == IF j < i THEN j ELSE j + 1
<1>1. d \in Seq(S) /\ Len(d) = Len(s) - 1
      /\ \A j \in 1..Len(d) : d[j] = IF j < i THEN s[j] ELSE s[j + 1]
  BY DropIs, Zenon
<1> HIDE DEF d
<1>2. \A j \in 1..Len(d) : at(j) \in 1..Len(s) /\ at(j) # i /\ d[j] = s[at(j)]
  BY <1>1
<1>3. \A j, k \in 1..Len(d) : at(j) = at(k) => j = k
  BY <1>1
<1> HIDE DEF at
<1>4. DOMAIN s = 1..Len(s) /\ DOMAIN d = 1..Len(d)
  BY <1>1
<1>5. Unique(d)
  <2>1. ASSUME NEW j \in 1..Len(d), NEW k \in 1..Len(d), d[j].key = d[k].key
        PROVE  j = k
    <3>1. at(j) \in DOMAIN s /\ at(k) \in DOMAIN s /\ s[at(j)].key = s[at(k)].key
      BY <1>2, <1>4, <2>1, Zenon
    <3>2. at(j) = at(k)
      BY <3>1, Zenon DEF Unique
    <3>. QED
      BY <1>3, <3>2, Zenon
  <2>. QED
    BY <1>4, <2>1, Zenon DEF Unique
<1>6. \A j \in 1..Len(d) : d[j].key # s[i].key
  BY <1>2, <1>4, Zenon DEF Unique
<1>. QED
  BY <1>5, <1>6 DEF d

\* A list that is cut short.
LEMMA CutUnique ==
    ASSUME NEW S, \A x \in S : Len(x.data) \in Nat, NEW s \in Seq(S), Unique(s), NEW n \in 0..Len(s)
    PROVE  /\ SubSeq(s, 1, n) \in Seq(S) /\ Unique(SubSeq(s, 1, n))
           /\ Bytes(SubSeq(s, 1, n)) + Bytes(SubSeq(s, n + 1, Len(s))) = Bytes(s)
           /\ Bytes(SubSeq(s, 1, n)) \in Nat /\ Bytes(SubSeq(s, n + 1, Len(s))) \in Nat
           /\ n = 0 => Bytes(SubSeq(s, 1, n)) = 0
<1> DEFINE u == SubSeq(s, 1, n)
           v == SubSeq(s, n + 1, Len(s))
<1>1. u \in Seq(S) /\ v \in Seq(S) /\ u \o v = s
  BY CutJoin, Zenon
<1>2. DOMAIN s = 1..Len(s) /\ DOMAIN u = 1..n /\ \A j \in 1..n : u[j] = s[j] /\ j \in 1..Len(s)
  OBVIOUS
<1>3. n = 0 => u = << >>
  OBVIOUS
<1> HIDE DEF u, v
<1>4. Unique(u)
  BY <1>2, Zenon DEF Unique
<1>5. Bytes(u \o v) = Bytes(u) + Bytes(v)
  BY <1>1, BytesJoin, Zenon
<1>6. Bytes(u) \in Nat /\ Bytes(v) \in Nat
  <2>1. Sized(u) /\ Sized(v)
    BY <1>1, Zenon DEF Sized
  <2>. QED
    BY <2>1, BytesIs, Zenon
<1>7. Bytes(<< >>) = 0
  <2> DEFINE x == [data |-> << >>]
  <2>1. Len(x.data) \in Nat
    OBVIOUS
  <2> HIDE DEF x
  <2>. QED
    BY <2>1, BytesSmall, Zenon
<1>8. n = 0 => Bytes(u) = 0
  BY <1>3, <1>7, Zenon
<1>. QED
  BY <1>1, <1>4, <1>5, <1>6, <1>8, Zenon DEF u, v
-----------------------------------------------------------------------------
(* The memory cache. *)

\* What is stored has a key and a length.
LEMMA StoredAre ==
    ASSUME NEW x \in Stored
    PROVE  /\ x.data \in Seq(Int) /\ Len(x.data) \in Nat
           /\ \A i \in 1..Len(Entries) :
                 /\ x.key = ChunkKey(i) => x.data = Rebuilt(i)
                 /\ x.key = BlockKey(BlockOf[i]) => x.data = Pool[BlockOf[i]]
<1>1. \A j \in DOMAIN Entries : Pool[BlockOf[j]] \in Seq(Int)
  <2> SUFFICES ASSUME NEW j \in DOMAIN Entries
               PROVE  Pool[BlockOf[j]] \in Seq(Int)
    OBVIOUS
  <2>1. Pool[BlockOf[j]] \in Seq(Nat)
    BY EntriesAre, RebuildIs
  <2>. QED
    BY <2>1
<1>2. \A i, j : ChunkKey(i) # BlockKey(j) /\ (ChunkKey(i) = ChunkKey(j) => i = j)
                /\ (BlockKey(i) = BlockKey(j) => i = j)
  BY DEF ChunkKey, BlockKey
<1>3. CASE \E j \in DOMAIN Entries : x = [key |-> BlockKey(BlockOf[j]), data |-> Pool[BlockOf[j]]]
  <2>1. PICK j \in DOMAIN Entries : x = [key |-> BlockKey(BlockOf[j]), data |-> Pool[BlockOf[j]]]
    BY <1>3
  <2>2. x.key = BlockKey(BlockOf[j]) /\ x.data = Pool[BlockOf[j]]
    BY <2>1
  <2>3. x.data \in Seq(Int)
    BY <1>1, <2>2
  <2>4. Len(x.data) \in Nat
    BY <2>3
  <2>. QED
    BY <1>2, <2>2, <2>3, <2>4, Zenon
<1>4. CASE \E j \in {k \in DOMAIN Entries : Rebuilt(k) \in Seq(Int)} :
             x = [key |-> ChunkKey(j), data |-> Rebuilt(j)]
  <2>1. PICK j \in {k \in DOMAIN Entries : Rebuilt(k) \in Seq(Int)} :
           x = [key |-> ChunkKey(j), data |-> Rebuilt(j)]
    BY <1>4
  <2>2. x.key = ChunkKey(j) /\ x.data = Rebuilt(j) /\ x.data \in Seq(Int)
    BY <2>1
  <2>3. Len(x.data) \in Nat
    BY <2>2
  <2>. QED
    BY <1>2, <2>2, <2>3, Zenon
<1>. QED
  BY <1>3, <1>4, Zenon DEF Stored

\* The item in front, and the others behind it.
LEMMA PutFront ==
    ASSUME cache \in Seq(Stored), CacheAccounts, NEW k, NEW x \in Stored, x.key = k
    PROVE  /\ <<x>> \o Others(k) \in Seq(Stored) /\ Unique(<<x>> \o Others(k))
           /\ Held(k) => /\ Place(k) \in 1..Len(cache) /\ Item(k) \in Stored /\ Item(k).key = k
                         /\ Len(Item(k).data) \in Nat
           /\ Bytes(<<x>> \o Others(k)) =
                total + Len(x.data) - (IF Held(k) THEN Len(Item(k).data) ELSE 0)
<1>1. \A y \in Stored : Len(y.data) \in Nat
  BY StoredAre
<1>2. DOMAIN cache = 1..Len(cache) /\ \A j \in 1..Len(cache) : cache[j] \in Stored
  OBVIOUS
<1>3. Unique(cache) /\ total = Bytes(cache)
  BY Zenon DEF CacheAccounts, Unique
<1>4. Len(x.data) \in Nat
  BY <1>1
<1>5. CASE Held(k)
  <2>1. Place(k) \in DOMAIN cache /\ cache[Place(k)].key = k
    BY <1>5, Zenon DEF Held, Place
  <2> DEFINE p == Place(k)
             d == Drop(cache, p)
  <2>2. p \in 1..Len(cache) /\ cache[p].key = k /\ cache[p] \in Stored /\ Len(cache[p].data) \in Nat
    BY <1>1, <1>2, <2>1
  <2>3. Others(k) = d /\ Item(k) = cache[p]
    BY <1>5 DEF Others, Item
  <2> HIDE DEF p
  <2>4. d \in Seq(Stored)
    BY <2>2, DropIs, Zenon
  <2>5. Unique(d) /\ \A j \in 1..Len(d) : d[j].key # cache[p].key
    BY <1>3, <2>2, DropsKey, Zenon
  <2>6. Bytes(d) + Len(cache[p].data) = Bytes(cache) /\ Bytes(d) \in Nat
    BY <1>1, <2>2, BytesDrop, Zenon
  <2> HIDE DEF d
  <2>7. \A j \in 1..Len(d) : d[j].key # x.key
    BY <2>2, <2>5, Zenon
  <2>8. /\ <<x>> \o d \in Seq(Stored) /\ Unique(<<x>> \o d)
        /\ Bytes(<<x>> \o d) = Len(x.data) + Bytes(d)
    BY <1>1, <2>4, <2>5, <2>7, FrontIs, Zenon
  <2>9. Bytes(<<x>> \o d) = total + Len(x.data) - Len(cache[p].data)
    <3> DEFINE a == Bytes(<<x>> \o d)
               b == Len(x.data)
               c == Bytes(d)
               e == Len(cache[p].data)
               f == Bytes(cache)
    <3> HIDE DEF a, b, c, e, f
    <3>1. a = b + c /\ c + e = f /\ b \in Nat /\ c \in Nat /\ e \in Nat
      BY <1>4, <2>2, <2>6, <2>8 DEF a, b, c, e, f
    <3>2. a = f + b - e
      BY <3>1
    <3>. QED
      BY <1>3, <3>2 DEF a, b, e, f
  <2>. QED
    BY <1>5, <2>2, <2>3, <2>8, <2>9 DEF p
<1>6. CASE ~Held(k)
  <2>1. Others(k) = cache
    BY <1>6 DEF Others
  <2>2. \A j \in 1..Len(cache) : cache[j].key # x.key
    BY <1>2, <1>6, Zenon DEF Held
  <2>3. /\ <<x>> \o cache \in Seq(Stored) /\ Unique(<<x>> \o cache)
        /\ Bytes(<<x>> \o cache) = Len(x.data) + Bytes(cache) /\ Bytes(cache) \in Nat
    BY <1>1, <1>3, <2>2, FrontIs, Zenon
  <2>4. Bytes(<<x>> \o cache) = total + Len(x.data) - 0
    <3> DEFINE a == Bytes(<<x>> \o cache)
               b == Len(x.data)
               f == Bytes(cache)
    <3> HIDE DEF a, b, f
    <3>1. a = b + f /\ b \in Nat /\ f \in Nat
      BY <1>4, <2>3 DEF a, b, f
    <3>2. a = f + b - 0
      BY <3>1
    <3>. QED
      BY <1>3, <3>2 DEF a, b, f
  <2>. QED
    BY <1>6, <2>1, <2>3, <2>4
<1>. QED
  BY <1>5, <1>6

\* MemoryCache.Get: the order changes, not what is held.
LEMMA GetKeeps ==
    ASSUME cache \in Seq(Stored), CacheAccounts, NEW k, Held(k), cache' = GetFront(k), total' = total
    PROVE  cache' \in Seq(Stored) /\ CacheAccounts' /\ Item(k) \in Stored /\ Item(k).key = k
<1>1. DOMAIN cache = 1..Len(cache) /\ \A j \in 1..Len(cache) : cache[j] \in Stored
  OBVIOUS
<1>2. Item(k) \in Stored /\ Item(k).key = k
  BY <1>1, Zenon DEF Item, Place, Held
<1>3. /\ <<Item(k)>> \o Others(k) \in Seq(Stored) /\ Unique(<<Item(k)>> \o Others(k))
      /\ Len(Item(k).data) \in Nat
      /\ Bytes(<<Item(k)>> \o Others(k)) =
           total + Len(Item(k).data) - (IF Held(k) THEN Len(Item(k).data) ELSE 0)
  BY <1>2, PutFront, Zenon
<1>4. Bytes(cache) \in Nat /\ total = Bytes(cache) /\ total <= MaxBytes
  <2>1. \A y \in Stored : Len(y.data) \in Nat
    BY StoredAre
  <2>2. Sized(cache)
    BY <2>1, Zenon DEF Sized
  <2>. QED
    BY <2>2, BytesIs, Zenon DEF CacheAccounts
<1>5. cache' = <<Item(k)>> \o Others(k)
  BY DEF GetFront
<1>6. cache' \in Seq(Stored) /\ Unique(cache')
  BY <1>3, <1>5, Zenon
<1>7. Bytes(cache') = total + Len(Item(k).data) - Len(Item(k).data)
  BY <1>3, <1>5
<1>8. Bytes(cache') = total
  <2> DEFINE a == Len(Item(k).data)
  <2> HIDE DEF a
  <2>1. a \in Nat /\ total \in Nat
    BY <1>3, <1>4 DEF a
  <2>2. Bytes(cache') = total + a - a
    BY <1>7 DEF a
  <2>. QED
    BY <2>1, <2>2
<1>9. CacheAccounts'
  <2>1. CacheAccounts' <=> /\ total' = Bytes(cache') /\ total' <= MaxBytes
                           /\ Unique(cache')
    BY DEF CacheAccounts, Unique, Bytes
  <2>. QED
    BY <1>4, <1>6, <1>8, <2>1, Zenon
<1>. QED
  BY <1>2, <1>6, <1>9

\* MemoryCache.Put, with its evictions.
LEMMA PutKeeps ==
    ASSUME cache \in Seq(Stored), CacheAccounts, NEW x \in Stored, Put(x.key, x.data)
    PROVE  cache' \in Seq(Stored) /\ CacheAccounts' /\ total' \in Nat
<1> DEFINE k == x.key
           y == [key |-> x.key, data |-> x.data]
           items == <<y>> \o Others(k)
           t == total + Len(x.data) - (IF Held(k) THEN Len(Item(k).data) ELSE 0)
           Rest(n) == Bytes(SubSeq(items, n + 1, Len(items)))
           fits == {n \in 0..Len(items) : n = 0 \/ t - Rest(n) <= MaxBytes}
           m == Kept(items, t)
<1>1. y = x
  BY DEF Stored
<1>2. \A z \in Stored : Len(z.data) \in Nat
  BY StoredAre
<1>3. items \in Seq(Stored) /\ Unique(items) /\ Bytes(items) = t
  <2>1. /\ <<x>> \o Others(k) \in Seq(Stored) /\ Unique(<<x>> \o Others(k))
        /\ Bytes(<<x>> \o Others(k)) = t
    BY PutFront
  <2>. QED
    BY <1>1, <2>1
<1>4. cache' = SubSeq(items, 1, m) /\ total' = t - Rest(m)
  BY DEF Put, Shrink
<1>5. m = CHOOSE n \in fits : \A o \in fits : o <= n
  BY DEF Kept
<1> HIDE DEF items, t, m
<1>6. \E n \in fits : \A o \in fits : o <= n
  <2> DEFINE l == Len(items)
             D == {l - n : n \in fits}
  <2>1. l \in Nat /\ 0 \in fits /\ \A n \in fits : n \in 0..l
    BY <1>3
  <2> HIDE DEF fits
  <2>2. D \in SUBSET Nat /\ D # {}
    BY <2>1
  <2>3. PICK d \in D : \A e \in D : d <= e
    BY <2>2, LeastNatural
  <2>4. PICK n \in fits : d = l - n
    OBVIOUS
  <2>5. \A o \in fits : l - n <= l - o
    BY <2>3, <2>4
  <2>6. \A o \in fits : o <= n
    BY <2>1, <2>5
  <2>. QED
    BY <2>6
<1>7. m \in 0..Len(items) /\ (m = 0 \/ t - Rest(m) <= MaxBytes)
  <2>1. m \in fits
    BY <1>5, <1>6, Zenon
  <2>. QED
    BY <2>1
<1>8. /\ SubSeq(items, 1, m) \in Seq(Stored) /\ Unique(SubSeq(items, 1, m))
      /\ Bytes(SubSeq(items, 1, m)) + Rest(m) = Bytes(items)
      /\ Bytes(SubSeq(items, 1, m)) \in Nat /\ Rest(m) \in Nat
      /\ m = 0 => Bytes(SubSeq(items, 1, m)) = 0
  BY <1>2, <1>3, <1>7, CutUnique, Zenon
<1>9. cache' \in Seq(Stored) /\ Unique(cache') /\ Bytes(cache') \in Nat
      /\ Bytes(cache') + Rest(m) = t /\ (m = 0 => Bytes(cache') = 0)
  BY <1>3, <1>4, <1>8, Zenon
<1>10. total' = Bytes(cache') /\ total' <= MaxBytes
  <2> DEFINE a == Bytes(cache')
             c == Rest(m)
  <2>1. a \in Nat /\ c \in Nat /\ a + c = t /\ (m = 0 => a = 0) /\ total' = t - c
        /\ (m = 0 \/ t - c <= MaxBytes)
    BY <1>4, <1>7, <1>8, <1>9
  <2>2. MaxBytes \in Nat
    BY LayoutAssumption
  <2> HIDE DEF a, c
  <2>3. total' = a /\ total' <= MaxBytes
    BY <2>1, <2>2
  <2>. QED
    BY <2>3 DEF a
<1>11. CacheAccounts'
  <2>1. CacheAccounts' <=> /\ total' = Bytes(cache') /\ total' <= MaxBytes
                           /\ Unique(cache')
    BY DEF CacheAccounts, Unique, Bytes
  <2>. QED
    BY <1>9, <1>10, <2>1, Zenon
<1>. QED
  BY <1>9, <1>10, <1>11, Zenon

-----------------------------------------------------------------------------
(* Pages. *)

\* No answer with cells is None or Error.
LEMMA NotCells ==
    /\ None \notin Seq(Nat) /\ None \notin Seq(Int)
    /\ Error \notin Seq(Nat) /\ Error \notin Seq(Int) /\ None # Error
<1>1. \A x : x \in Seq(Nat) => x \in Seq(Int)
  OBVIOUS
<1>2. None \notin Seq(Int) /\ Error \notin Seq(Int) /\ None # Error
  BY LayoutAssumption, Zenon
<1>. QED
  BY <1>1, <1>2, Zenon

\* The sizes are numbers.
LEMMA Sizes == PageSize \in Nat \ {0} /\ MaxPages \in Nat \ {0}
BY CloudAssumption, Zenon

\* Where a page lies.
LEMMA PageIs ==
    ASSUME size \in Nat \ {0}, NEW n \in PageNos
    PROVE  /\ n \in Nat /\ n * PageSize \in Nat
           /\ PageLen(n) \in Nat \ {0} /\ PageLen(n) <= PageSize
           /\ n * PageSize + PageLen(n) <= size
           /\ PageLen(n) = PageSize \/ n * PageSize + PageLen(n) = size
           /\ (n + 1) * PageSize = n * PageSize + PageSize
<1> DEFINE q == (size - 1) \div PageSize
           a == n * PageSize
           c == q * PageSize
<1>1. size - 1 \in Nat /\ PageSize \in Nat \ {0}
  BY Sizes
<1>2. q \in Nat /\ c \in Nat /\ c <= size - 1
  BY <1>1, Quotient
<1>3. n \in Nat /\ n <= q
  BY <1>2 DEF PageNos
<1> HIDE DEF q
<1>4. a \in Nat
  BY <1>1, <1>3
<1>5. a <= c
  <2>1. PICK k \in Nat : q = n + k
    <3>1. q - n \in Nat /\ q = n + (q - n)
      BY <1>2, <1>3
    <3>. QED
      BY <3>1
  <2>2. q * PageSize = n * PageSize + k * PageSize
    BY <1>1, <1>3, <2>1
  <2>3. k * PageSize \in Nat
    BY <1>1, <2>1
  <2>. QED
    BY <1>4, <2>2, <2>3
<1>6. (n + 1) * PageSize = a + PageSize
  BY <1>1, <1>3
<1> HIDE DEF a, c
<1>7. PageLen(n) = IF PageSize <= size - a THEN PageSize ELSE size - a
  BY DEF PageLen, Lower, a
<1> DEFINE l == PageLen(n)
<1> HIDE DEF l
<1>8. l = IF PageSize <= size - a THEN PageSize ELSE size - a
  BY <1>7 DEF l
<1>9. /\ l \in Nat \ {0} /\ l <= PageSize /\ a + l <= size
      /\ l = PageSize \/ a + l = size
  BY <1>1, <1>2, <1>4, <1>5, <1>8
<1>. QED
  BY <1>3, <1>4, <1>6, <1>9 DEF a, l

\* A place in the file lies in a page.
LEMMA PageOfPlace ==
    ASSUME size \in Nat \ {0}, NEW x \in Nat, x < size
    PROVE  x \div PageSize \in PageNos
<1>1. size - 1 \in Nat /\ PageSize \in Nat \ {0} /\ x <= size - 1
  BY Sizes
<1>2. x \div PageSize <= (size - 1) \div PageSize
  BY <1>1, QuotientGrows
<1>3. x \div PageSize \in Nat /\ (size - 1) \div PageSize \in Nat
  BY <1>1, Quotient
<1>. QED
  BY <1>2, <1>3 DEF PageNos

\* A good page is a run of cells.
LEMMA GoodIs ==
    ASSUME size \in Nat \ {0}, NEW n \in PageNos, NEW data, Good(n, data)
    PROVE  /\ data \in Seq(Nat) /\ data # None
           /\ \/ data = FullPage(n) /\ Len(data) = PageLen(n)
              \/ Happened("truncated") /\ Broken /\ Len(data) < PageLen(n)
              \/ Broken /\ Len(data) = size
<1>1. n * PageSize \in Nat /\ PageLen(n) \in Nat
  BY PageIs
<1>2. \A kind \in {"truncated", "whole"} : Happened(kind) => Broken
  BY DEF Happened, Broken
<1>3. CASE data = FullPage(n)
  <2>1. FullPage(n) \in Seq(Nat) /\ Len(FullPage(n)) = PageLen(n)
    BY <1>1, CellsAre, Zenon DEF FullPage
  <2>. QED
    BY <1>3, <2>1, NotCells, Zenon
<1>4. CASE Happened("truncated") /\ \E k \in 0..(PageLen(n) - 1) : data = Cells(n * PageSize, k)
  <2>1. PICK k \in 0..(PageLen(n) - 1) : data = Cells(n * PageSize, k)
    BY <1>4
  <2>2. k \in Nat /\ k < PageLen(n)
    BY <1>1
  <2>3. Cells(n * PageSize, k) \in Seq(Nat) /\ Len(Cells(n * PageSize, k)) = k
    BY <1>1, <2>2, CellsAre, Zenon
  <2>. QED
    BY <1>2, <1>4, <2>1, <2>2, <2>3, NotCells, Zenon
<1>5. CASE Happened("whole") /\ data = Cells(0, size)
  <2>1. Cells(0, size) \in Seq(Nat) /\ Len(Cells(0, size)) = size
    BY CellsAre
  <2>. QED
    BY <1>2, <1>5, <2>1, NotCells, Zenon
<1>. QED
  BY <1>3, <1>4, <1>5 DEF Good

\* Something may have happened in a step, and nothing that happened is forgotten.
Moved == size' = size /\ (faults' = faults \/ \E kind \in FaultKinds : faults' = Append(faults, kind))

\* What is good stays good when more goes wrong.
LEMMA Moves ==
    ASSUME CInv, Moved
    PROVE  /\ faults' \in Seq(FaultKinds) /\ PageNos' = PageNos /\ Load' = Load /\ Call' = Call
           /\ Broken => Broken'
           /\ \A kind : Happened(kind) => Happened(kind)'
           /\ \A n, data : Good(n, data) => Good(n, data)'
           /\ GoodLoad \subseteq GoodLoad' /\ GoodPage \subseteq GoodPage'
           /\ pages \in Seq(GoodPage')
           /\ size' \in Nat \ {0}
           /\ crashed' = crashed => CrashNeedsTruncatedPage'
<1>1. faults \in Seq(FaultKinds) /\ size' = size /\ size \in Nat \ {0}
  BY DEF CInv, CloudShape, Moved
<1>2. faults' \in Seq(FaultKinds) /\ \A i \in DOMAIN faults : i \in DOMAIN faults' /\ faults'[i] = faults[i]
  <2>1. CASE faults' = faults
    BY <1>1, <2>1
  <2>2. ASSUME NEW kind \in FaultKinds, faults' = Append(faults, kind)
        PROVE  faults' \in Seq(FaultKinds) /\ \A i \in DOMAIN faults : i \in DOMAIN faults' /\ faults'[i] = faults[i]
    <3> DEFINE f == Append(faults, kind)
    <3>1. f \in Seq(FaultKinds) /\ \A i \in DOMAIN faults : i \in DOMAIN f /\ f[i] = faults[i]
      BY <1>1
    <3>. QED
      BY <2>2, <3>1, Zenon
  <2>. QED
    BY <2>1, <2>2, Zenon DEF Moved
<1>3. PageNos' = PageNos
  BY <1>1 DEF PageNos
<1>4. Load' = Load /\ Call' = Call /\ Page' = Page
  BY <1>3 DEF Load, Call, Page
<1>5. Broken => Broken'
  BY <1>2, Zenon DEF Broken
<1>6. \A kind : Happened(kind) => Happened(kind)'
  BY <1>2, Zenon DEF Happened
<1>7. \A n, data : Good(n, data) => Good(n, data)'
  <2>1. \A n : FullPage(n)' = FullPage(n) /\ PageLen(n)' = PageLen(n)
    BY <1>1 DEF FullPage, PageLen, Lower, Cells
  <2>2. \A n, k : Cells(n, k)' = Cells(n, k)
    BY DEF Cells
  <2> SUFFICES ASSUME NEW n, NEW data, Good(n, data)
               PROVE  Good(n, data)'
    OBVIOUS
  <2>3. CASE data = FullPage(n)
    BY <2>1, <2>3, Zenon DEF Good
  <2>4. CASE Happened("truncated") /\ \E k \in 0..(PageLen(n) - 1) : data = Cells(n * PageSize, k)
    BY <1>6, <2>1, <2>2, <2>4, Zenon DEF Good
  <2>5. CASE Happened("whole") /\ data = Cells(0, size)
    BY <1>1, <1>6, <2>2, <2>5, Zenon DEF Good
  <2>. QED
    BY <2>3, <2>4, <2>5, Zenon DEF Good
<1>8. GoodLoad \subseteq GoodLoad'
  <2>1. \A l : Sound(l) => Sound(l)'
    BY <1>5, <1>7, Zenon DEF Sound
  <2>. QED
    BY <1>4, <2>1, Zenon DEF GoodLoad
<1>11. GoodPage \subseteq GoodPage'
  BY <1>4, <1>7, Zenon DEF GoodPage
<1>9. pages \in Seq(GoodPage')
  <2>2. pages \in Seq(GoodPage)
    BY DEF CInv, GoodPages
  <2> HIDE DEF CInv
  <2>. QED
    BY <1>11, <2>2
<1>10. crashed' = crashed => CrashNeedsTruncatedPage'
  BY <1>6, Zenon DEF CInv, CrashNeedsTruncatedPage, Happened
<1>. QED
  BY <1>1, <1>2, <1>3, <1>4, <1>5, <1>6, <1>7, <1>8, <1>9, <1>10, <1>11

\* A page that is found goes to the front.
LEMMA TouchKeeps ==
    ASSUME CInv, NEW n, Cached(n)
    PROVE  /\ Touch(n) \in Seq(GoodPage) /\ Len(Touch(n)) <= MaxPages
           /\ n \in PageNos /\ Good(n, pages[PageOf(n)].data) /\ pages[PageOf(n)].data \in Seq(Nat)
<1>1. pages \in Seq(GoodPage) /\ Len(pages) <= MaxPages
  BY DEF CInv, GoodPages, CloudShape
<1> DEFINE i == PageOf(n)
           d == Drop(pages, i)
<1>2. i \in 1..Len(pages) /\ pages[i].page = n
  <2>1. i \in DOMAIN pages /\ pages[i].page = n
    BY Zenon DEF PageOf, Cached
  <2>. QED
    BY <1>1, <2>1
<1>3. pages[i] \in GoodPage
  BY <1>1, <1>2
<1>4. Good(n, pages[i].data) /\ n \in PageNos /\ pages[i].data \in Seq(Nat)
  BY <1>2, <1>3 DEF GoodPage, Page
<1>5. Touch(n) = <<pages[i]>> \o d
  BY DEF Touch, Without
<1>6. d \in Seq(GoodPage) /\ Len(d) = Len(pages) - 1
  BY <1>1, <1>2, DropIs, Zenon
<1> HIDE DEF d, i
<1>7. <<pages[i]>> \o d \in Seq(GoodPage) /\ Len(<<pages[i]>> \o d) = Len(pages)
  BY <1>1, <1>3, <1>6
<1>. QED
  BY <1>1, <1>4, <1>5, <1>7 DEF i

\* A page that is added, and the ones that stay.
LEMMA AddKeeps ==
    ASSUME NEW G, pages \in Seq(G), NEW n, NEW data, [page |-> n, data |-> data] \in G
    PROVE  CacheAdd(n, data) \in Seq(G) /\ Len(CacheAdd(n, data)) <= MaxPages
<1> DEFINE x == [page |-> n, data |-> data]
           w == Without(n)
           all == <<x>> \o w
           k == Lower(MaxPages, Len(all))
<1>1. w \in Seq(G)
  <2>1. CASE Cached(n)
    <3>1. PageOf(n) \in DOMAIN pages
      BY <2>1, Zenon DEF PageOf, Cached
    <3>2. PageOf(n) \in 1..Len(pages)
      BY <3>1
    <3>3. Drop(pages, PageOf(n)) \in Seq(G)
      BY <3>2, DropIs, Zenon
    <3>. QED
      BY <2>1, <3>3 DEF Without
  <2>2. CASE ~Cached(n)
    BY <2>2 DEF Without
  <2>. QED
    BY <2>1, <2>2
<1> HIDE DEF x, w
<1>2. all \in Seq(G) /\ x \in G
  BY <1>1 DEF x
<1>3. CacheAdd(n, data) = SubSeq(all, 1, k)
  BY DEF CacheAdd, x, w
<1> HIDE DEF all
<1>4. k \in Nat /\ k <= MaxPages /\ k <= Len(all)
  BY <1>2, Sizes DEF Lower
<1> HIDE DEF k
<1>5. SubSeq(all, 1, k) \in Seq(G) /\ Len(SubSeq(all, 1, k)) = k
  BY <1>2, <1>4
<1>. QED
  BY <1>3, <1>4, <1>5

\* A goroutine moves on in loadPage, and the others keep what they have.
LEMMA LoadMoves ==
    ASSUME CInv, Moved, NEW p \in Procs, NEW l \in GoodLoad', load' = [load EXCEPT ![p] = l],
           pages' \in Seq(GoodPage'),
           \A q \in Procs : q # p /\ Leads(load[q]) => flight'[load[q].page] = q,
           Leads(l) => flight'[l.page] = p
    PROVE  Pioneers' /\ GoodPages'
<1>1. load \in [Procs -> GoodLoad] /\ GoodLoad \subseteq GoodLoad'
  BY Moves DEF CInv, GoodPages
<1>2. /\ load' \in [Procs -> GoodLoad']
      /\ load'[p] = l /\ \A q \in Procs : q # p => load'[q] = load[q]
  BY <1>1
<1>3. GoodPages'
  BY <1>2 DEF GoodPages
<1>4. Pioneers'
  <2>1. \A q \in Procs : Leads(load'[q]) => flight'[load'[q].page] = q
    BY <1>2
  <2>. QED
    BY <2>1 DEF Pioneers, Leads
<1>. QED
  BY <1>3, <1>4

\* The calls of the readers go on as long as they are not touched.
LEMMA LoadKeeps ==
    ASSUME CInv, Moved, NEW p \in Procs, NEW l \in GoodLoad', load' = [load EXCEPT ![p] = l],
           p \in Readers => l.page = load[p].page,
           pages' \in Seq(GoodPage'), Len(pages') <= MaxPages,
           flight' \in [PageNos -> Procs \cup {None}],
           \A q \in Procs : q # p /\ Leads(load[q]) => flight'[load[q].page] = q,
           Leads(l) => flight'[l.page] = p,
           call' = call, ahead' = ahead, crashed' = crashed
    PROVE  CInv'
<1>1. Pioneers' /\ GoodPages'
  BY LoadMoves
<1>2. \A r \in Readers : load'[r].page = load[r].page
  BY DEF CInv, GoodPages, Procs
<1>3. faults' \in Seq(FaultKinds) /\ PageNos' = PageNos /\ Call' = Call /\ (Broken => Broken')
      /\ size' \in Nat \ {0} /\ CrashNeedsTruncatedPage'
  BY Moves
<1>4. CloudShape'
  BY <1>3 DEF CInv, CloudShape
<1>5. Calls'
  BY <1>2, <1>3 DEF CInv, Calls, Moved
<1>. QED
  BY <1>1, <1>3, <1>4, <1>5 DEF CInv

\* Goroutines that wait for nothing, or begin.
LEMMA IdleIs ==
    ASSUME CInv, Moved
    PROVE  /\ Idle \in GoodLoad' /\ ~Leads(Idle)
           /\ \A n \in PageNos : Loading(n) \in GoodLoad' /\ ~Leads(Loading(n)) /\ Loading(n).page = n
<1>1. Load' = Load /\ PageNos' = PageNos /\ size \in Nat \ {0}
  BY Moves DEF CInv, CloudShape
<1>2. 0 \in PageNos
  <2>1. 0 \div PageSize = 0
    BY Sizes
  <2>2. 0 \div PageSize \in PageNos
    BY <1>1, PageOfPlace
  <2>. QED
    BY <2>1, <2>2
<1>3. Idle \in Load
  BY <1>2 DEF Idle, Load, LoadPcs
<1>4. \A n \in PageNos : Loading(n) \in Load /\ Loading(n).page = n
  <2> SUFFICES ASSUME NEW n \in PageNos
               PROVE  Loading(n) \in Load /\ Loading(n).page = n
    OBVIOUS
  <2>1. Loading(n) = [Idle EXCEPT !.pc = "get", !.page = n]
    BY DEF Loading
  <2>. QED
    BY <1>3, <2>1 DEF Load, LoadPcs
<1>5. ~Leads(Idle) /\ \A n \in PageNos : ~Leads(Loading(n))
  BY DEF Leads, Loading, Idle
<1>6. Sound(Idle)' /\ \A n \in PageNos : Sound(Loading(n))'
  BY DEF Sound, Idle, Loading
<1>. QED
  BY <1>1, <1>3, <1>4, <1>5, <1>6 DEF GoodLoad

\* What loadPage may return.
Returns(n, data) == (data = None /\ Broken) \/ (data \in Seq(Nat) /\ Good(n, data))

\* A goroutine that has something to return is in good order.
LEMMA Handover ==
    ASSUME CInv, Moved, NEW l \in Load, l.pc = "ret" \/ (l.pc = "close" /\ l.pioneer), NEW n, n = l.page,
           NEW data, data = l.data, Returns(n, data)'
    PROVE  l \in GoodLoad'
<1>1. Load' = Load
  BY Moves
<1>2. Sound(l)'
  <2>1. \/ l.data = None /\ Broken'
        \/ l.data # None /\ Good(l.page, l.data)'
    BY NotCells, Zenon DEF Returns
  <2>2. l.pc \notin {"get", "join", "wait"} /\ (l.pc = "close" => l.pioneer)
    OBVIOUS
  <2>. QED
    BY <2>1, <2>2 DEF Sound
<1>. QED
  BY <1>1, <1>2 DEF GoodLoad

\* The end of loadPage, at once or after the channel is closed.
LEMMA LeaveIs ==
    ASSUME CInv, Moved, NEW p \in Procs, NEW n, n = load[p].page, NEW data, Returns(n, data)'
    PROVE  /\ Leave(p, data) \in GoodLoad' /\ ~Leads(Leave(p, data))
           /\ p \in Readers => Leave(p, data).page = n
<1>0. PICK l : l = [load[p] EXCEPT !.pc = "ret", !.data = data]
  OBVIOUS
<1>1. load[p] \in Load /\ Load' = Load
  BY Moves DEF CInv, GoodPages, GoodLoad
<1>2. data \in Seq(Nat) \cup {None}
  BY DEF Returns
<1>3. l \in Load /\ l.pc = "ret" /\ l.data = data /\ l.page = n
  BY <1>0, <1>1, <1>2 DEF Load, LoadPcs
<1>5. l \in GoodLoad'
  BY <1>3, Handover
<1>6. ~Leads(l)
  BY <1>3 DEF Leads
<1>7. Readers \cap Prefetchers = {}
  BY CloudAssumption
<1>8. CASE p \in Prefetchers
  BY <1>7, <1>8, IdleIs DEF Leave
<1>9. CASE p \notin Prefetchers
  BY <1>0, <1>3, <1>5, <1>6, <1>9 DEF Leave
<1>. QED
  BY <1>8, <1>9

\* What a goroutine is after its download.
LEMMA AfterFetchIs ==
    ASSUME CInv, Moved, NEW p \in Procs, NEW n, n = load[p].page, load[p].pc = "fetch",
           NEW data, Returns(n, data)'
    PROVE  /\ AfterFetch(p, data) \in GoodLoad'
           /\ p \in Readers => AfterFetch(p, data).page = n
           /\ Leads(AfterFetch(p, data)) => flight[AfterFetch(p, data).page] = p
<1>0. PICK l : l = [load[p] EXCEPT !.pc = "close", !.data = data]
  OBVIOUS
<1>1. load[p] \in Load /\ Load' = Load
  BY Moves DEF CInv, GoodPages, GoodLoad
<1>2. data \in Seq(Nat) \cup {None}
  BY DEF Returns
<1>3. l \in Load /\ l.pc = "close" /\ l.data = data /\ l.page = n
      /\ l.pioneer = load[p].pioneer
  BY <1>0, <1>1, <1>2 DEF Load, LoadPcs
<1>6. CASE load[p].pioneer
  <2>2. l \in GoodLoad'
    BY <1>3, <1>6, Handover
  <2>1. flight[n] = p
    BY <1>6 DEF CInv, Pioneers, Leads
  <2>. QED
    BY <1>0, <1>3, <1>6, <2>1, <2>2 DEF AfterFetch
<1>7. CASE ~load[p].pioneer
  BY <1>7, LeaveIs DEF AfterFetch
<1>. QED
  BY <1>6, <1>7

\* The state that the actions of loadPage leave alone.
LEMMA CloudFacts ==
    ASSUME CInv, NEW p \in Procs
    PROVE  /\ size \in Nat \ {0} /\ load[p] \in Load /\ load[p].page \in PageNos
           /\ load \in [Procs -> GoodLoad]
           /\ flight \in [PageNos -> Procs \cup {None}]
           /\ pages \in Seq(GoodPage) /\ Len(pages) <= MaxPages
           /\ \A q \in Procs : Leads(load[q]) => flight[load[q].page] = q
BY DEF CInv, CloudShape, GoodPages, GoodLoad, Pioneers, Load

\* loadPage finds the page in the cache, or goes on.
LEMMA CacheGetStep ==
    ASSUME CInv, NEW p \in Procs, CacheGet(p)
    PROVE  CInv'
<1>1. Moved
  BY DEF CacheGet, Moved
<1>2. PICK n : n = load[p].page
  OBVIOUS
<1>3. CASE Cached(n)
  <2>1. PICK data : data = pages[PageOf(n)].data
    OBVIOUS
  <2>2. Touch(n) \in Seq(GoodPage) /\ Len(Touch(n)) <= MaxPages /\ Good(n, data) /\ data \in Seq(Nat)
    BY <1>3, <2>1, TouchKeeps
  <2>3. PICK l : l = Leave(p, data)
    OBVIOUS
  <2>4. load' = [load EXCEPT ![p] = l] /\ pages' = Touch(n)
    BY <1>2, <1>3, <2>1, <2>3 DEF CacheGet
  <2>5. Good(n, data)' /\ GoodPage \subseteq GoodPage'
    BY <1>1, <2>2, Moves, Zenon
  <2>6. pages' \in Seq(GoodPage') /\ Len(pages') <= MaxPages
    BY <2>2, <2>4, <2>5
  <2>7. Returns(n, data)'
    BY <2>2, <2>5 DEF Returns
  <2>8. l \in GoodLoad' /\ ~Leads(l) /\ (p \in Readers => l.page = load[p].page)
    BY <1>1, <1>2, <2>3, <2>7, LeaveIs
  <2>9. UNCHANGED <<flight, call, ahead, crashed>>
    BY DEF CacheGet
  <2>. QED
    BY <1>1, <2>4, <2>6, <2>8, <2>9, CloudFacts, LoadKeeps
<1>4. CASE ~Cached(n)
  <2>1. PICK l : l = [load[p] EXCEPT !.pc = "join"]
    OBVIOUS
  <2>2. load' = [load EXCEPT ![p] = l] /\ pages' = pages /\ load[p].pc = "get"
    BY <1>2, <1>4, <2>1 DEF CacheGet
  <2>3. load[p] \in Load /\ Sound(load[p])
    BY DEF CInv, GoodPages, GoodLoad
  <2>4. l \in Load /\ l.pc = "join" /\ l.page = n /\ ~l.pioneer
    BY <1>2, <2>1, <2>2, <2>3 DEF Load, LoadPcs, Sound
  <2>5. l \in GoodLoad' /\ ~Leads(l) /\ (p \in Readers => l.page = load[p].page)
    BY <1>1, <1>2, <2>4, Moves DEF GoodLoad, Sound, Leads
  <2>6. UNCHANGED <<flight, call, ahead, crashed>>
    BY DEF CacheGet
  <2>7. pages' \in Seq(GoodPage') /\ Len(pages') <= MaxPages
    BY <1>1, <2>2, Moves, CloudFacts
  <2>. QED
    BY <1>1, <2>2, <2>5, <2>6, <2>7, CloudFacts, LoadKeeps
<1>. QED
  BY <1>3, <1>4

\* A waiter looks into the cache again.
LEMMA RecheckStep ==
    ASSUME CInv, NEW p \in Procs, Recheck(p)
    PROVE  CInv'
<1>1. Moved
  BY DEF Recheck, Moved
<1>2. PICK n : n = load[p].page
  OBVIOUS
<1>3. CASE Cached(n)
  <2>1. PICK data : data = pages[PageOf(n)].data
    OBVIOUS
  <2>2. Touch(n) \in Seq(GoodPage) /\ Len(Touch(n)) <= MaxPages /\ Good(n, data) /\ data \in Seq(Nat)
    BY <1>3, <2>1, TouchKeeps
  <2>3. PICK l : l = Leave(p, data)
    OBVIOUS
  <2>4. load' = [load EXCEPT ![p] = l] /\ pages' = Touch(n)
    BY <1>2, <1>3, <2>1, <2>3 DEF Recheck
  <2>5. Good(n, data)' /\ GoodPage \subseteq GoodPage'
    BY <1>1, <2>2, Moves, Zenon
  <2>6. pages' \in Seq(GoodPage') /\ Len(pages') <= MaxPages
    BY <2>2, <2>4, <2>5
  <2>7. Returns(n, data)'
    BY <2>2, <2>5 DEF Returns
  <2>8. l \in GoodLoad' /\ ~Leads(l) /\ (p \in Readers => l.page = load[p].page)
    BY <1>1, <1>2, <2>3, <2>7, LeaveIs
  <2>9. UNCHANGED <<flight, call, ahead, crashed>>
    BY DEF Recheck
  <2>. QED
    BY <1>1, <2>4, <2>6, <2>8, <2>9, CloudFacts, LoadKeeps
<1>4. CASE ~Cached(n)
  <2>1. PICK l : l = [load[p] EXCEPT !.pc = "fetch"]
    OBVIOUS
  <2>2. load' = [load EXCEPT ![p] = l] /\ pages' = pages /\ load[p].pc = "wait"
    BY <1>2, <1>4, <2>1 DEF Recheck
  <2>3. load[p] \in Load /\ Sound(load[p])
    BY DEF CInv, GoodPages, GoodLoad
  <2>4. l \in Load /\ l.pc = "fetch" /\ l.page = n /\ ~l.pioneer
    BY <1>2, <2>1, <2>2, <2>3 DEF Load, LoadPcs, Sound
  <2>5. l \in GoodLoad' /\ ~Leads(l) /\ (p \in Readers => l.page = load[p].page)
    BY <1>1, <1>2, <2>4, Moves DEF GoodLoad, Sound, Leads
  <2>6. UNCHANGED <<flight, call, ahead, crashed>>
    BY DEF Recheck
  <2>7. pages' \in Seq(GoodPage') /\ Len(pages') <= MaxPages
    BY <1>1, <2>2, Moves, CloudFacts
  <2>. QED
    BY <1>1, <2>2, <2>5, <2>6, <2>7, CloudFacts, LoadKeeps
<1>. QED
  BY <1>3, <1>4

\* The first one downloads, the others wait.
LEMMA JoinStep ==
    ASSUME CInv, NEW p \in Procs, Join(p)
    PROVE  CInv'
<1>1. Moved
  BY DEF Join, Moved
<1>2. PICK n : n = load[p].page
  OBVIOUS
<1>3. load[p] \in Load /\ Sound(load[p]) /\ n \in PageNos /\ load[p].pc = "join"
  BY <1>2 DEF CInv, GoodPages, GoodLoad, Load, Join
<1>4. UNCHANGED <<pages, call, ahead, crashed>>
  BY DEF Join
<1>5. pages' \in Seq(GoodPage') /\ Len(pages') <= MaxPages
  BY <1>1, <1>4, Moves, CloudFacts
<1>6. CASE flight[n] = None
  <2>1. PICK l : l = [load[p] EXCEPT !.pc = "fetch", !.pioneer = TRUE]
    OBVIOUS
  <2>2. flight' = [flight EXCEPT ![n] = p] /\ load' = [load EXCEPT ![p] = l]
    BY <1>2, <1>6, <2>1 DEF Join
  <2>3. l \in Load /\ l.pc = "fetch" /\ l.page = n
    BY <1>2, <1>3, <2>1 DEF Load, LoadPcs
  <2>4. l \in GoodLoad'
    BY <1>1, <2>3, Moves DEF GoodLoad, Sound
  <2>5. flight' \in [PageNos -> Procs \cup {None}] /\ flight'[l.page] = p
    BY <1>3, <2>2, <2>3, CloudFacts
  <2>6. ASSUME NEW q \in Procs, q # p, Leads(load[q])
        PROVE  flight'[load[q].page] = q
    <3>1. flight[load[q].page] = q /\ q # None
      BY <2>6, CloudFacts, CloudAssumption
    <3>2. load[q].page # n /\ load[q].page \in PageNos
      BY <1>6, <3>1, CloudFacts
    <3>. QED
      BY <2>2, <3>1, <3>2, CloudFacts
  <2>. QED
    BY <1>1, <1>2, <1>4, <1>5, <2>2, <2>3, <2>4, <2>5, <2>6, LoadKeeps
<1>7. CASE flight[n] # None
  <2>1. PICK l : l = [load[p] EXCEPT !.pc = "wait", !.chan = flight[n]]
    OBVIOUS
  <2>2. flight' = flight /\ load' = [load EXCEPT ![p] = l]
    BY <1>2, <1>7, <2>1 DEF Join
  <2>3. flight[n] \in Procs \cup {None}
    BY <1>3, CloudFacts
  <2>4. l \in Load /\ l.pc = "wait" /\ l.page = n /\ ~l.pioneer
    BY <1>2, <1>3, <2>1, <2>3 DEF Load, LoadPcs, Sound
  <2>5. l \in GoodLoad' /\ ~Leads(l)
    BY <1>1, <2>4, Moves DEF GoodLoad, Sound, Leads
  <2>. QED
    BY <1>1, <1>2, <1>4, <1>5, <2>2, <2>4, <2>5, CloudFacts, LoadKeeps
<1>. QED
  BY <1>6, <1>7

\* A body that was read.
LEMMA ReceivedKeeps ==
    ASSUME CInv, Moved, NEW p \in Procs, NEW n, n = load[p].page, load[p].pc = "fetch",
           NEW data \in Seq(Nat), Good(n, data)', Received(p, data),
           UNCHANGED <<flight, call, ahead, crashed>>
    PROVE  CInv'
<1>1. n \in PageNos /\ PageNos' = PageNos /\ pages \in Seq(GoodPage')
  BY Moves, CloudFacts
<1>2. [page |-> n, data |-> data] \in GoodPage'
  <2>1. PICK x : x = [page |-> n, data |-> data]
    OBVIOUS
  <2>2. x \in Page' /\ x.page = n /\ x.data = data
    BY <1>1, <2>1 DEF Page
  <2>3. Good(x.page, x.data)'
    BY <2>2
  <2>. QED
    BY <2>1, <2>2, <2>3 DEF GoodPage
<1>3. pages' = CacheAdd(n, data)
  BY DEF Received
<1>4. pages' \in Seq(GoodPage') /\ Len(pages') <= MaxPages
  BY <1>1, <1>2, <1>3, AddKeeps
<1>5. PICK l : l = AfterFetch(p, data)
  OBVIOUS
<1>6. load' = [load EXCEPT ![p] = l]
  BY <1>5 DEF Received
<1>7. Returns(n, data)'
  BY DEF Returns
<1>8. l \in GoodLoad' /\ (p \in Readers => l.page = load[p].page) /\ (Leads(l) => flight[l.page] = p)
  BY <1>5, <1>7, AfterFetchIs
<1>. QED
  BY <1>4, <1>6, <1>8, CloudFacts, LoadKeeps

\* The server answers the range.
LEMMA FetchStep ==
    ASSUME CInv, NEW p \in Procs, Fetch(p)
    PROVE  CInv'
<1>1. Moved
  BY DEF Fetch, Moved
<1>2. PICK n : n = load[p].page
  OBVIOUS
<1>3. PICK data : data = FullPage(n)
  OBVIOUS
<1>4. size \in Nat \ {0} /\ n \in PageNos
  BY <1>2, CloudFacts
<1>5. Good(n, data)
  BY <1>3 DEF Good
<1>6. data \in Seq(Nat)
  BY <1>4, <1>5, GoodIs
<1>7. Good(n, data)'
  BY <1>1, <1>5, Moves
<1>8. Received(p, data) /\ load[p].pc = "fetch" /\ UNCHANGED <<flight, call, ahead, crashed>>
  BY <1>2, <1>3 DEF Fetch, FullPage
<1>. QED
  BY <1>1, <1>2, <1>6, <1>7, <1>8, ReceivedKeeps

\* The body breaks off.
LEMMA FetchTruncatedStep ==
    ASSUME CInv, NEW p \in Procs, FetchTruncated(p)
    PROVE  CInv'
<1>1. Moved
  BY DEF FetchTruncated, Moved, FaultKinds
<1>2. PICK n : n = load[p].page
  OBVIOUS
<1>3. PICK k \in Cuts : k < PageLen(n) /\ Received(p, Cells(n * PageSize, k))
  BY <1>2 DEF FetchTruncated
<1>4. size \in Nat \ {0} /\ n \in PageNos /\ faults \in Seq(FaultKinds)
  BY <1>2, CloudFacts DEF CInv, CloudShape
<1>5. n * PageSize \in Nat /\ PageLen(n) \in Nat /\ k \in Nat
  BY <1>4, PageIs, CloudAssumption
<1>6. PICK data : data = Cells(n * PageSize, k)
  OBVIOUS
<1>7. data \in Seq(Nat)
  BY <1>5, <1>6, CellsAre
<1>8. Happened("truncated")'
  <2>1. faults' = Append(faults, "truncated")
    BY DEF FetchTruncated
  <2>2. Len(faults) + 1 \in DOMAIN faults' /\ faults'[Len(faults) + 1] = "truncated"
    BY <1>4, <2>1
  <2>. QED
    BY <2>2 DEF Happened
<1>9. Good(n, data)'
  <2>1. size' = size
    BY <1>1 DEF Moved
  <2>2. PageLen(n)' = PageLen(n)
    BY <2>1 DEF PageLen, Lower
  <2>3. k \in 0..(PageLen(n) - 1)
    BY <1>3, <1>5
  <2>4. \E j \in 0..(PageLen(n)' - 1) : data = Cells(n * PageSize, j)
    BY <1>6, <2>2, <2>3
  <2>5. (\E j \in 0..(PageLen(n) - 1) : data = Cells(n * PageSize, j))'
    BY <2>4 DEF Cells
  <2>. QED
    BY <1>8, <2>5 DEF Good
<1>10. Received(p, data) /\ load[p].pc = "fetch" /\ UNCHANGED <<flight, call, ahead, crashed>>
  BY <1>3, <1>6 DEF FetchTruncated
<1>. QED
  BY <1>1, <1>2, <1>7, <1>9, <1>10, ReceivedKeeps

\* The server ignores the range.
LEMMA FetchWholeStep ==
    ASSUME CInv, NEW p \in Procs, FetchWhole(p)
    PROVE  CInv'
<1>1. Moved
  BY DEF FetchWhole, Moved, FaultKinds
<1>2. PICK n : n = load[p].page
  OBVIOUS
<1>3. size \in Nat \ {0} /\ faults \in Seq(FaultKinds)
  BY DEF CInv, CloudShape
<1>4. PICK data : data = Cells(0, size)
  OBVIOUS
<1>5. data \in Seq(Nat)
  BY <1>3, <1>4, CellsAre
<1>6. Happened("whole")'
  <2>1. faults' = Append(faults, "whole")
    BY DEF FetchWhole
  <2>2. Len(faults) + 1 \in DOMAIN faults' /\ faults'[Len(faults) + 1] = "whole"
    BY <1>3, <2>1
  <2>. QED
    BY <2>2 DEF Happened
<1>7. Good(n, data)'
  <2>1. size' = size
    BY <1>1 DEF Moved
  <2>2. (data = Cells(0, size))'
    BY <1>4, <2>1 DEF Cells
  <2>. QED
    BY <1>6, <2>2 DEF Good
<1>8. Received(p, data) /\ load[p].pc = "fetch" /\ UNCHANGED <<flight, call, ahead, crashed>>
  BY <1>4 DEF FetchWhole
<1>. QED
  BY <1>1, <1>2, <1>5, <1>7, <1>8, ReceivedKeeps

\* The download fails.
LEMMA FetchFailsStep ==
    ASSUME CInv, NEW p \in Procs, FetchFails(p)
    PROVE  CInv'
<1>1. Moved
  BY DEF FetchFails, Moved, FaultKinds
<1>2. PICK n : n = load[p].page
  OBVIOUS
<1>3. faults \in Seq(FaultKinds)
  BY DEF CInv, CloudShape
<1>4. Broken'
  <2>1. faults' = Append(faults, "error")
    BY DEF FetchFails
  <2>2. Len(faults) + 1 \in DOMAIN faults' /\ faults'[Len(faults) + 1] = "error"
    BY <1>3, <2>1
  <2>. QED
    BY <2>2 DEF Broken
<1>5. PICK data : data = None
  OBVIOUS
<1>6. Returns(n, data)'
  BY <1>4, <1>5 DEF Returns
<1>7. PICK l : l = AfterFetch(p, data)
  OBVIOUS
<1>8. load[p].pc = "fetch" /\ load' = [load EXCEPT ![p] = l] /\ UNCHANGED <<pages, flight, call, ahead, crashed>>
  BY <1>5, <1>7 DEF FetchFails
<1>9. l \in GoodLoad' /\ (p \in Readers => l.page = load[p].page) /\ (Leads(l) => flight[l.page] = p)
  BY <1>1, <1>2, <1>6, <1>7, <1>8, AfterFetchIs
<1>10. pages' \in Seq(GoodPage') /\ Len(pages') <= MaxPages
  BY <1>1, <1>8, Moves, CloudFacts
<1>. QED
  BY <1>1, <1>8, <1>9, <1>10, CloudFacts, LoadKeeps

\* The pioneer gives up its registration and wakes the waiters.
LEMMA CloseStep ==
    ASSUME CInv, NEW p \in Procs, Close(p)
    PROVE  CInv'
<1>1. Moved
  BY DEF Close, Moved
<1>2. PICK n : n = load[p].page
  OBVIOUS
<1>3. PICK data : data = load[p].data
  OBVIOUS
<1>4. /\ load[p] \in Load /\ Sound(load[p]) /\ n \in PageNos /\ load[p].pc = "close"
      /\ load \in [Procs -> GoodLoad] /\ flight \in [PageNos -> Procs \cup {None}]
  BY <1>2 DEF CInv, GoodPages, GoodLoad, Load, Close, CloudShape
<1>5. Returns(n, data)'
  <2>1. (data = None /\ Broken) \/ (data # None /\ Good(n, data))
    BY <1>2, <1>3, <1>4 DEF Sound
  <2>2. data \in Seq(Nat) \cup {None}
    BY <1>3, <1>4 DEF Load
  <2>3. (Broken => Broken') /\ (Good(n, data) => Good(n, data)')
    BY <1>1, Moves, Zenon
  <2>. QED
    BY <2>1, <2>2, <2>3 DEF Returns
<1>6. PICK l : l = Leave(p, data)
  OBVIOUS
<1>7. l \in GoodLoad' /\ ~Leads(l) /\ (p \in Readers => l.page = n)
  BY <1>1, <1>2, <1>5, <1>6, LeaveIs
<1>8. /\ load' = [q \in Procs |->
                    IF q = p THEN l
                    ELSE IF load[q].chan = p THEN [load[q] EXCEPT !.chan = None] ELSE load[q]]
      /\ flight' = [flight EXCEPT ![n] = None]
      /\ UNCHANGED <<size, pages, call, ahead, crashed, faults>>
  BY <1>2, <1>3, <1>6 DEF Close
<1>9. GoodLoad' = GoodLoad
  BY <1>8 DEF GoodLoad, Load, PageNos, Sound, Broken, Good, Happened, FullPage, PageLen, Lower, Cells
<1>10. ASSUME NEW q \in Procs, q # p
       PROVE  /\ load'[q] \in GoodLoad /\ load'[q].page = load[q].page
              /\ Leads(load'[q]) => Leads(load[q])
  <2>1. load[q] \in Load /\ Sound(load[q])
    BY <1>4 DEF GoodLoad
  <2>2. PICK m : m = [load[q] EXCEPT !.chan = None]
    OBVIOUS
  <2>3. m \in Load /\ m.pc = load[q].pc /\ m.page = load[q].page /\ m.pioneer = load[q].pioneer
        /\ m.data = load[q].data
    BY <2>1, <2>2 DEF Load
  <2>4. Sound(m)
    BY <2>1, <2>3 DEF Sound
  <2>5. m \in GoodLoad /\ (Leads(m) => Leads(load[q]))
    BY <2>3, <2>4 DEF GoodLoad, Leads
  <2>6. load'[q] \in {m, load[q]}
    BY <1>8, <1>10, <2>2
  <2>. QED
    BY <1>4, <2>3, <2>5, <2>6
<1>11. load'[p] = l /\ DOMAIN load' = Procs /\ load' = [q \in Procs |-> load'[q]]
  BY <1>8
<1>12. load' \in [Procs -> GoodLoad']
  BY <1>7, <1>9, <1>10, <1>11
<1>13. GoodPages'
  BY <1>1, <1>8, <1>12, Moves DEF GoodPages
<1>14. Pioneers'
  <2> SUFFICES ASSUME NEW q \in Procs, Leads(load'[q])
               PROVE  flight'[load'[q].page] = q
    BY DEF Pioneers, Leads
  <2>1. q # p
    BY <1>7, <1>11
  <2>2. Leads(load[q]) /\ load'[q].page = load[q].page
    BY <1>10, <2>1
  <2>3. flight[load[q].page] = q /\ load[q].page \in PageNos
    BY <2>2, CloudFacts
  <2>4. load[q].page # n
    <3>1. flight[n] = p
      BY <1>2, <1>4 DEF CInv, Pioneers, Leads, Sound
    <3>. QED
      BY <2>1, <2>3, <3>1
  <2>. QED
    BY <1>4, <1>8, <2>2, <2>3, <2>4
<1>15. \A r \in Readers : load'[r].page = load[r].page
  BY <1>2, <1>7, <1>10, <1>11 DEF Procs
<1>16. CloudShape'
  BY <1>4, <1>8 DEF CInv, CloudShape, PageNos, Call
<1>17. Calls'
  BY <1>8, <1>15 DEF CInv, Calls, Broken
<1>18. CrashNeedsTruncatedPage'
  BY <1>1, <1>8, Moves
<1>. QED
  BY <1>13, <1>14, <1>16, <1>17, <1>18 DEF CInv

-----------------------------------------------------------------------------
(* ReadAt of the remote file. *)

\* A reader's call and its place in loadPage change.
LEMMA CallKeeps ==
    ASSUME CInv, Moved, NEW r \in Readers, NEW l \in GoodLoad', load' = [load EXCEPT ![r] = l],
           Leads(l) => flight[l.page] = r,
           NEW c \in Call, call' = [call EXCEPT ![r] = c],
           c.pc = "page" => /\ c.buf # None /\ c.off + c.len <= size
                            /\ Len(c.buf) < c.len
                            /\ l.page = (c.off + Len(c.buf)) \div PageSize
                            /\ Broken' \/ c.buf = Cells(c.off, Len(c.buf)),
           c.pc = "ret" => Broken' \/ c.buf = Cells(c.off, c.len),
           pages' = pages, flight' = flight, ahead' \subseteq PageNos, crashed' = crashed
    PROVE  CInv'
<1>1. faults' \in Seq(FaultKinds) /\ PageNos' = PageNos /\ Call' = Call /\ (Broken => Broken')
      /\ size' \in Nat \ {0} /\ CrashNeedsTruncatedPage' /\ pages \in Seq(GoodPage')
  BY Moves
<1>2. r \in Procs
  BY DEF Procs
<1>3. Pioneers' /\ GoodPages'
  <2>1. \A q \in Procs : q # r /\ Leads(load[q]) => flight'[load[q].page] = q
    BY <1>2, CloudFacts
  <2>2. pages' \in Seq(GoodPage')
    BY <1>1
  <2>. QED
    BY <1>2, <2>1, <2>2, LoadMoves
<1>4. call \in [Readers -> Call] /\ load \in [Procs -> GoodLoad]
  BY DEF CInv, CloudShape, GoodPages
<1>5. CloudShape'
  BY <1>1, <1>4 DEF CInv, CloudShape
<1>6. Calls'
  <2>1. call'[r] = c /\ load'[r] = l
        /\ \A q \in Readers : q # r => call'[q] = call[q] /\ load'[q] = load[q]
    BY <1>2, <1>4 DEF Procs
  <2> SUFFICES ASSUME NEW q \in Readers
               PROVE  /\ call'[q].pc = "page" =>
                            /\ call'[q].buf # None /\ call'[q].off + call'[q].len <= size'
                            /\ Len(call'[q].buf) < call'[q].len
                            /\ load'[q].page = (call'[q].off + Len(call'[q].buf)) \div PageSize
                            /\ Broken' \/ call'[q].buf = Cells(call'[q].off, Len(call'[q].buf))
                      /\ call'[q].pc = "ret" => Broken' \/ call'[q].buf = Cells(call'[q].off, call'[q].len)
    BY DEF Calls, Cells
  <2>2. CASE q = r
    BY <2>1, <2>2 DEF Moved
  <2>3. CASE q # r
    <3>1. call'[q] = call[q] /\ load'[q] = load[q] /\ size' = size
      BY <2>1, <2>3 DEF Moved
    <3>2. /\ call[q].pc = "page" =>
                /\ call[q].buf # None /\ call[q].off + call[q].len <= size
                /\ Len(call[q].buf) < call[q].len
                /\ load[q].page = (call[q].off + Len(call[q].buf)) \div PageSize
                /\ Broken \/ call[q].buf = Cells(call[q].off, Len(call[q].buf))
          /\ call[q].pc = "ret" => Broken \/ call[q].buf = Cells(call[q].off, call[q].len)
      BY DEF CInv, Calls
    <3>. QED
      BY <1>1, <3>1, <3>2, Zenon
  <2>. QED
    BY <2>2, <2>3
<1>. QED
  BY <1>1, <1>3, <1>5, <1>6 DEF CInv

\* No cell.
LEMMA NoCells ==
    ASSUME NEW o \in Nat
    PROVE  Cells(o, 0) = << >>
<1>1. Cells(o, 0) \in Seq(Nat) /\ Len(Cells(o, 0)) = 0
  BY CellsAre
<1>. QED
  BY <1>1

\* The call of a reader changes and no goroutine that loads a page moves.
LEMMA CallMoves ==
    ASSUME CInv, NEW r \in Readers, Moved, load' = load,
           NEW c \in Call, call' = [call EXCEPT ![r] = c], c.pc # "page",
           c.pc = "ret" => Broken' \/ c.buf = Cells(c.off, c.len),
           UNCHANGED <<pages, flight, ahead, crashed>>
    PROVE  CInv'
<1>1. load \in [Procs -> GoodLoad] /\ r \in Procs /\ ahead \subseteq PageNos
  BY DEF CInv, GoodPages, CloudShape, Procs
<1>2. PICK l : l = load[r]
  OBVIOUS
<1>3. l \in GoodLoad'
  BY <1>1, <1>2, Moves
<1>4. load' = [load EXCEPT ![r] = l] /\ (Leads(l) => flight[l.page] = r)
  BY <1>1, <1>2 DEF CInv, Pioneers
<1>5. c.pc = "page" => /\ c.buf # None /\ c.off + c.len <= size
                       /\ Len(c.buf) < c.len
                       /\ l.page = (c.off + Len(c.buf)) \div PageSize
                       /\ Broken' \/ c.buf = Cells(c.off, Len(c.buf))
  OBVIOUS
<1>6. pages' = pages /\ flight' = flight /\ ahead' \subseteq PageNos /\ crashed' = crashed
  BY <1>1
<1>. QED
  BY <1>3, <1>4, <1>5, <1>6, CallKeeps, Zenon

\* No more is asked for than the file has.
LEMMA ToReadIs ==
    ASSUME NEW off \in Nat, NEW n \in Nat, size \in Nat, off + n <= size
    PROVE  Readable(off, n) = n
BY DEF Readable, Lower

\* ReadAt begins with the page of its offset, or has nothing to read.
LEMMA StartReadAtStep ==
    ASSUME CInv, NEW r \in Readers, NEW off \in Nat, NEW n \in Nat, off + n <= size,
           StartReadAt(r, off, n), UNCHANGED <<size, pages, flight, ahead, crashed, faults>>
    PROVE  CInv'
<1>1. Moved
  BY DEF Moved
<1>2. size \in Nat \ {0} /\ Readable(off, n) = n /\ << >> \in Seq(Nat)
  BY ToReadIs DEF CInv, CloudShape
<1>3. CASE n = 0
  <2>1. PICK c : c = [pc |-> "ret", off |-> off, len |-> n, buf |-> << >>]
    OBVIOUS
  <2>2. c \in Call /\ c.pc = "ret" /\ c.off = off /\ c.len = 0 /\ c.buf = << >>
    BY <1>2, <1>3, <2>1 DEF Call
  <2>3. call' = [call EXCEPT ![r] = c] /\ load' = load
    BY <1>2, <1>3, <2>1 DEF StartReadAt
  <2>4. c.buf = Cells(c.off, c.len)
    BY <2>2, NoCells
  <2>. QED
    BY <1>1, <2>2, <2>3, <2>4, CallMoves
<1>4. CASE n > 0
  <2>1. off \div PageSize \in PageNos
    BY <1>2, <1>4, PageOfPlace
  <2>2. PICK l : l = Loading(off \div PageSize)
    OBVIOUS
  <2>3. l \in GoodLoad' /\ ~Leads(l) /\ l.page = off \div PageSize
    BY <1>1, <2>1, <2>2, IdleIs
  <2>4. PICK c : c = [pc |-> "page", off |-> off, len |-> n, buf |-> << >>]
    OBVIOUS
  <2>5. c \in Call
    BY <2>4, <1>2 DEF Call
  <2>6. c.buf # None /\ Len(c.buf) = 0 /\ c.buf = << >> /\ c.off = off /\ c.len = n /\ c.pc = "page"
    <3>1. << >> # None
      BY <1>2, NotCells, Zenon
    <3>. QED
      BY <2>4, <3>1
  <2>7. c.buf = Cells(c.off, Len(c.buf))
    BY <2>6, NoCells
  <2>8. load' = [load EXCEPT ![r] = l] /\ call' = [call EXCEPT ![r] = c]
    BY <1>2, <1>4, <2>2, <2>4 DEF StartReadAt
  <2>9. ahead' \subseteq PageNos
    BY DEF CInv, CloudShape
  <2>10. off + Len(c.buf) = off
    BY <2>6
  <2>. QED
    BY <1>1, <1>4, <2>3, <2>5, <2>6, <2>7, <2>8, <2>9, <2>10, CallKeeps
<1>. QED
  BY <1>3, <1>4

\* A prefetch begins with a page ahead.
LEMMA StartPrefetchStep ==
    ASSUME CInv, NEW p \in Prefetchers, StartPrefetch(p)
    PROVE  CInv'
<1>1. Moved /\ p \in Procs /\ p \notin Readers
  BY CloudAssumption DEF Moved, StartPrefetch, Procs
<1>2. PICK n \in ahead : load' = [load EXCEPT ![p] = Loading(n)] /\ ahead' = ahead \ {n}
  BY DEF StartPrefetch
<1>3. n \in PageNos /\ ahead' \subseteq PageNos
  BY <1>2 DEF CInv, CloudShape
<1>4. PICK l : l = Loading(n)
  OBVIOUS
<1>5. l \in GoodLoad' /\ ~Leads(l) /\ load' = [load EXCEPT ![p] = l]
  BY <1>1, <1>2, <1>3, <1>4, IdleIs
<1>6. faults' \in Seq(FaultKinds) /\ PageNos' = PageNos /\ Call' = Call
      /\ size' \in Nat \ {0} /\ CrashNeedsTruncatedPage' /\ pages' \in Seq(GoodPage')
      /\ UNCHANGED <<size, pages, flight, call, crashed, faults>>
  BY <1>1, Moves DEF StartPrefetch
<1>7. Pioneers' /\ GoodPages'
  BY <1>1, <1>5, <1>6, LoadMoves, CloudFacts
<1>8. \A r \in Readers : load'[r].page = load[r].page
  BY <1>1, <1>5 DEF CInv, GoodPages, Procs
<1>9. CloudShape'
  BY <1>3, <1>6 DEF CInv, CloudShape
<1>10. Calls'
  BY <1>6, <1>8 DEF CInv, Calls, Broken
<1>. QED
  BY <1>6, <1>7, <1>9, <1>10 DEF CInv

\* Where a reader stands in the page it has waited for.
LEMMA InPage ==
    ASSUME CInv, NEW r \in Readers, call[r].pc = "page",
           NEW c, c = call[r], NEW n, n = load[r].page, NEW x, x = c.off + Len(c.buf)
    PROVE  /\ c \in Call /\ c.buf \in Seq(Nat) /\ Len(c.buf) < c.len /\ c.off + c.len <= size
           /\ x \in Nat /\ x < size /\ n \in PageNos
           /\ n * PageSize \in Nat /\ n * PageSize <= x
           /\ CopyStart(c, n) = x - n * PageSize
           /\ CopyStart(c, n) \in Nat /\ CopyStart(c, n) < PageLen(n)
<1>1. /\ c \in Call /\ c.buf # None /\ c.off + c.len <= size /\ Len(c.buf) < c.len
      /\ n = x \div PageSize /\ size \in Nat \ {0}
  BY DEF CInv, CloudShape, Calls
<1>2. c.buf \in Seq(Nat) /\ c.off \in Nat /\ c.len \in Nat
  BY <1>1 DEF Call
<1>3. Len(c.buf) \in Nat
  BY <1>2
<1>4. x \in Nat /\ x < size
  BY <1>1, <1>2, <1>3
<1>5. n \in PageNos
  BY <1>1, <1>4, PageOfPlace
<1> DEFINE a == n * PageSize
           s == PageLen(n)
<1>6. a \in Nat /\ a <= x /\ x < a + PageSize
  BY <1>1, <1>4, Quotient, Sizes
<1>7. s \in Nat /\ (s = PageSize \/ a + s = size)
  BY <1>1, <1>5, PageIs
<1> HIDE DEF s
<1>8. CopyStart(c, n) = x - a
  <2> DEFINE z == c.off + Len(c.buf) - a
  <2>1. CopyStart(c, n) = IF z < 0 THEN 0 ELSE z
    BY DEF CopyStart
  <2> HIDE DEF a
  <2>2. z = x - a
    BY ONLY <1>2, <1>3, <1>6, x = c.off + Len(c.buf)
  <2> HIDE DEF z
  <2>3. ~(z < 0)
    BY ONLY <1>4, <1>6, <2>2
  <2>. QED
    BY ONLY <2>1, <2>2, <2>3
<1> HIDE DEF a
<1>9. CopyStart(c, n) = x - a /\ x - a \in Nat /\ x - a < s
  BY <1>1, <1>4, <1>6, <1>7, <1>8, Sizes
<1>. QED
  BY <1>1, <1>2, <1>4, <1>5, <1>6, <1>9 DEF a, s

\* What a call has after it copied its part of a page.
Copied(c, n, data, buf) ==
    /\ buf \in Seq(Nat) /\ Len(buf) <= c.len
    /\ Broken \/ (c.buf = Cells(c.off, Len(c.buf)) => buf = Cells(c.off, Len(buf)))
    /\ Len(buf) # c.len /\ ~(Len(data) < PageSize) =>
          n + 1 \in PageNos /\ n + 1 = (c.off + Len(buf)) \div PageSize
    /\ Broken \/ ((Len(data) < PageSize \/ n = EndPage(c)) => Len(buf) = c.len)

\* What is copied out of a page follows what was copied before.
LEMMA Copies ==
    ASSUME CInv, NEW r \in Readers, call[r].pc = "page",
           NEW c, c = call[r], NEW n, n = load[r].page, NEW data, Good(n, data),
           NEW from, from = CopyStart(c, n), from <= Len(data),
           NEW buf, buf = c.buf \o SubSeq(data, from + 1, from + CopyLen(c, n, data))
    PROVE  Copied(c, n, data, buf)
<1> DEFINE x == c.off + Len(c.buf)
           a == n * PageSize
           rem == c.len - Len(c.buf)
           k == CopyLen(c, n, data)
           b == Len(c.buf)
           d == Len(data)
           cut == SubSeq(data, from + 1, from + k)
<1>1. /\ c \in Call /\ c.buf \in Seq(Nat) /\ b < c.len /\ c.off + c.len <= size
      /\ x \in Nat /\ x < size /\ n \in PageNos
      /\ a \in Nat /\ a <= x /\ from = x - a /\ from \in Nat /\ from < PageLen(n)
  BY InPage
<1>2. b \in Nat /\ c.len \in Nat /\ c.off \in Nat /\ size \in Nat \ {0}
  <2>1. size \in Nat \ {0}
    BY DEF CInv, CloudShape
  <2>. QED
    BY ONLY <1>1, <2>1 DEF Call
<1>3. /\ data \in Seq(Nat)
      /\ \/ data = FullPage(n) /\ d = PageLen(n)
         \/ Broken /\ d < PageLen(n)
         \/ Broken /\ d = size
  BY <1>1, <1>2, GoodIs
<1>4. d \in Nat
  BY <1>3
<1>5. /\ PageLen(n) \in Nat /\ PageLen(n) <= PageSize /\ a + PageLen(n) <= size
      /\ PageLen(n) = PageSize \/ a + PageLen(n) = size
      /\ (n + 1) * PageSize = a + PageSize /\ n \in Nat
  BY <1>1, <1>2, PageIs
<1>0. ToRead(c) = c.len
  BY <1>1, <1>2, ToReadIs DEF ToRead
<1>6. k = IF d - from <= rem THEN d - from ELSE rem
  BY <1>0 DEF CopyLen, Lower
<1>7. buf = c.buf \o cut
  OBVIOUS
<1> DEFINE s == PageLen(n)
<1> HIDE DEF x, a, rem, k, b, d, s
<1>8. rem \in Nat /\ rem > 0 /\ rem = c.len - b /\ x = c.off + b
  <2>1. rem = c.len - b /\ x = c.off + b
    BY DEF rem, b, x
  <2>2. b < c.len
    BY <1>1
  <2>. QED
    BY ONLY <1>2, <2>1, <2>2
<1>9. k \in Nat /\ from + k <= d /\ k <= rem /\ (k = rem \/ k = d - from)
  <2>1. from \in Nat /\ from <= d
    BY <1>1 DEF d
  <2>. QED
    BY ONLY <1>4, <1>6, <1>8, <2>1
<1>10. cut \in Seq(Nat) /\ Len(cut) = k
  <2>1. from \in Nat /\ data \in Seq(Nat) /\ d = Len(data)
    BY <1>1, <1>3 DEF d
  <2>. QED
    BY ONLY <1>9, <2>1 DEF cut
<1> HIDE DEF cut
<1>11. buf \in Seq(Nat)
  <2>1. c.buf \in Seq(Nat)
    BY <1>1
  <2>2. c.buf \o cut \in Seq(Nat)
    BY ONLY <1>10, <2>1
  <2>. QED
    BY <1>7, <2>2, Zenon
<1>12. Len(buf) = b + k
  <2>1. Len(c.buf \o cut) = Len(c.buf) + Len(cut)
    BY <1>1, <1>10, ConcatIs, Zenon
  <2>. QED
    BY <1>7, <1>10, <2>1 DEF b
<1>13. Len(buf) <= c.len
  BY ONLY <1>2, <1>8, <1>9, <1>12
<1>14. Broken \/ (c.buf = Cells(c.off, Len(c.buf)) => buf = Cells(c.off, Len(buf)))
  <2> SUFFICES ASSUME ~Broken, c.buf = Cells(c.off, b)
               PROVE  buf = Cells(c.off, Len(buf))
    BY DEF b
  <2>1. data = Cells(a, s) /\ d = s /\ s \in Nat
    BY <1>3, <1>5 DEF FullPage, a, s
  <2>2. SubSeq(Cells(a, s), from + 1, from + k) = Cells(a + from, k)
    <3>1. a \in Nat /\ s \in Nat /\ from \in Nat /\ k \in Nat /\ from + k <= s
      BY <1>1, <1>9, <2>1
    <3>2. CutIsRun(a, s, from, k)
      BY ONLY <3>1, CellsCut, Zenon
    <3>. QED
      BY ONLY <3>2 DEF CutIsRun
  <2>3. a + from = c.off + b
    BY <1>1, <1>2, <1>8
  <2>4. cut = Cells(c.off + b, k)
    BY <2>1, <2>2, <2>3 DEF cut
  <2>5. Cells(c.off, b) \o Cells(c.off + b, k) = Cells(c.off, b + k)
    BY <1>2, <1>9, CellsJoin, Zenon
  <2>6. buf = Cells(c.off, b) \o Cells(c.off + b, k)
    BY <1>7, <2>4
  <2>. QED
    BY <1>12, <2>5, <2>6, Zenon
<1> DEFINE o == c.off
           len == c.len
           g == Len(buf)
<1>18. /\ o \in Nat /\ len \in Nat /\ b \in Nat /\ a \in Nat /\ from \in Nat /\ d \in Nat
       /\ size \in Nat /\ PageSize \in Nat \ {0} /\ s \in Nat
       /\ x = o + b /\ from = x - a /\ a <= x /\ x < size /\ o + len <= size
       /\ rem = len - b /\ rem \in Nat /\ rem > 0
       /\ k \in Nat /\ from + k <= d /\ k <= rem /\ (k = rem \/ k = d - from)
       /\ s <= PageSize /\ a + s <= size /\ (s = PageSize \/ a + s = size) /\ from < s
       /\ g = b + k
  <2>1. o \in Nat /\ len \in Nat /\ b \in Nat /\ size \in Nat
    BY <1>2
  <2>2. a \in Nat /\ from \in Nat /\ from = x - a /\ a <= x /\ x < size /\ o + len <= size /\ from < s
    BY <1>1 DEF a, x, s
  <2>3. s \in Nat /\ s <= PageSize /\ a + s <= size /\ (s = PageSize \/ a + s = size)
    BY <1>5 DEF a, s
  <2>. QED
    BY <1>4, <1>8, <1>9, <1>12, <2>1, <2>2, <2>3, Sizes DEF d
<1> HIDE DEF o, len, g
\* A page of another length than asked for ends the copy.
<1>15. d = size => k = rem
  <2>1. rem <= size - x
    BY ONLY <1>18
  <2>. QED
    BY ONLY <1>18, <2>1
<1>16. ASSUME g # len, ~(d < PageSize)
       PROVE  n + 1 \in PageNos /\ n + 1 = (o + g) \div PageSize
  <2>1. k # rem
    BY ONLY <1>16, <1>18
  <2>2. d = s /\ s = PageSize
    <3>1. d = s \/ d < s \/ d = size
      BY <1>3 DEF s, d
    <3>. QED
      BY ONLY <1>15, <1>16, <1>18, <2>1, <3>1
  <2> DEFINE y == o + g
  <2>3. y = a + PageSize /\ y \in Nat /\ y < size
    BY ONLY <1>18, <2>1, <2>2
  <2> HIDE DEF y
  <2>4. y \div PageSize \in PageNos
    BY <1>2, <2>3, PageOfPlace
  <2>5. y \div PageSize = n + 1
    <3> DEFINE m == n + 1
    <3>1. m \in Nat /\ m * PageSize = a + PageSize /\ PageSize \in Nat \ {0}
      BY <1>5, Sizes, SMTT(30) DEF a
    <3> HIDE DEF m
    <3>2. m * PageSize <= y /\ y < m * PageSize + PageSize
      <4> DEFINE z == m * PageSize
      <4>1. z = y
        BY <2>3, <3>1
      <4> HIDE DEF z
      <4>2. z <= y /\ y < z + PageSize
        BY ONLY <2>3, <3>1, <4>1
      <4>. QED
        BY <4>2 DEF z
    <3>3. y \div PageSize = m
      BY <2>3, <3>1, <3>2, QuotientIs
    <3>. QED
      BY <3>3 DEF m
  <2>. QED
    BY <2>4, <2>5 DEF y
<1>17. ASSUME ~Broken, d < PageSize \/ n = EndPage(c)
       PROVE  g = len
  <2>1. d = s
    BY <1>3, <1>17 DEF s, d
  <2>2. rem <= s - from
    <3>1. CASE d < PageSize
      BY ONLY <1>18, <2>1, <3>1
    <3>2. CASE n = EndPage(c)
      <4> DEFINE e == o + len - 1
      <4>1. e \in Nat
        BY ONLY <1>18
      <4>2. n = e \div PageSize
        BY <1>0, <3>2 DEF EndPage, o, len
      <4>3. e < a + PageSize
        <5> HIDE DEF e
        <5>. QED
          BY <4>1, <4>2, Quotient, Sizes DEF a
      <4>. QED
        BY ONLY <1>18, <4>3
    <3>. QED
      BY <1>17, <3>1, <3>2
  <2>. QED
    BY ONLY <1>18, <2>1, <2>2
<1>. QED
  BY <1>11, <1>13, <1>14, <1>16, <1>17 DEF Copied, d, o, len, g

\* The end of a call: the prefetch is started.
LEMMA FinishKeeps ==
    ASSUME CInv, NEW r \in Readers, call[r].pc = "page", NEW buf \in Seq(Nat),
           Broken \/ buf = Cells(call[r].off, call[r].len),
           Finish(r, buf), UNCHANGED <<size, pages, flight, crashed, faults>>
    PROVE  CInv'
<1>1. Moved
  BY DEF Moved
<1>2. call[r] \in Call /\ ahead \subseteq PageNos
  BY DEF CInv, CloudShape
<1>3. PICK c : c = [call[r] EXCEPT !.pc = "ret", !.buf = buf]
  OBVIOUS
<1>4. c \in Call /\ c.pc = "ret" /\ c.buf = buf /\ c.off = call[r].off /\ c.len = call[r].len
  BY <1>2, <1>3 DEF Call
<1>5. call' = [call EXCEPT ![r] = c] /\ load' = [load EXCEPT ![r] = Idle] /\ ahead' \subseteq PageNos
  BY <1>2, <1>3 DEF Finish, Prefetch
<1>6. PICK l : l = Idle
  OBVIOUS
<1>7. l \in GoodLoad' /\ ~Leads(l)
  BY <1>1, <1>6, IdleIs
<1>8. Broken' \/ c.buf = Cells(c.off, c.len)
  BY <1>1, <1>4, Moves
<1>. QED
  BY <1>1, <1>4, <1>5, <1>6, <1>7, <1>8, CallKeeps

\* What TakePage does with the page n of a call c.
Joined(c, n, data) ==
    c.buf \o SubSeq(data, CopyStart(c, n) + 1, CopyStart(c, n) + CopyLen(c, n, data))

Taken(r, c, n, data) ==
    \/ /\ data = None
       /\ call' = [call EXCEPT ![r].pc = "ret", ![r].buf = None]
       /\ load' = [load EXCEPT ![r] = Idle]
       /\ UNCHANGED <<ahead, crashed>>
    \/ /\ data = << >>
       /\ Finish(r, c.buf)
       /\ UNCHANGED crashed
    \/ /\ data \notin {None, << >>} /\ CopyStart(c, n) > Len(data)
       /\ crashed' = TRUE
       /\ UNCHANGED <<call, load, ahead>>
    \/ /\ data \notin {None, << >>} /\ CopyStart(c, n) <= Len(data)
       /\ \/ Last(c, n, data, Joined(c, n, data)) /\ Finish(r, Joined(c, n, data))
          \/ /\ ~Last(c, n, data, Joined(c, n, data))
             /\ call' = [call EXCEPT ![r].buf = Joined(c, n, data)]
             /\ load' = [load EXCEPT ![r] = Loading(n + 1)]
             /\ UNCHANGED ahead
       /\ UNCHANGED crashed

\* ReadAt copies its part of a page, returns, or ends the process.
LEMMA TakePageStep ==
    ASSUME CInv, NEW r \in Readers, TakePage(r)
    PROVE  CInv'
<1>1. Moved /\ UNCHANGED <<size, pages, flight, faults>>
  BY DEF TakePage, Moved
<1>2. PICK c \in {call[r]}, n \in {load[r].page}, data \in {load[r].data} : Taken(r, c, n, data)
  BY Zenon DEF TakePage, Taken, Joined
<1>3. c = call[r] /\ n = load[r].page /\ data = load[r].data
  BY ONLY <1>2
<1>4. Taken(r, c, n, data)
  BY <1>2
<1>5. call[r].pc = "page" /\ load[r].pc = "ret" /\ r \in Procs
  BY DEF TakePage, Procs
<1>6. c \in Call /\ ahead \subseteq PageNos /\ size \in Nat \ {0} /\ n \in PageNos
  BY <1>3, <1>5, CloudFacts DEF CInv, CloudShape
<1>7. \/ data = None /\ Broken
      \/ data # None /\ Good(n, data)
  BY <1>3, <1>5 DEF CInv, GoodPages, GoodLoad, Sound
<1>8. c.buf \in Seq(Nat) /\ (Broken \/ c.buf = Cells(c.off, Len(c.buf)))
  BY <1>3, <1>5, <1>6 DEF CInv, Calls, Call
<1>0. ToRead(c) = c.len
  <2>1. c.off + c.len <= size
    BY <1>3, <1>5 DEF CInv, Calls
  <2>. QED
    BY <1>6, <2>1, ToReadIs DEF ToRead, Call
<1>9. (Broken => Broken') /\ ahead' \in SUBSET PageNos
  <2>1. ahead' = ahead \/ Prefetch(call[r])
    BY <1>4, Zenon DEF Finish, Taken
  <2>2. Prefetch(call[r]) => ahead' \in SUBSET PageNos
    BY <1>6 DEF Prefetch
  <2>. QED
    BY <1>1, <1>6, <2>1, <2>2, Moves
<1>10. CASE data = None
  <2>1. /\ call' = [call EXCEPT ![r].pc = "ret", ![r].buf = None]
        /\ load' = [load EXCEPT ![r] = Idle] /\ UNCHANGED <<ahead, crashed>>
    <3>1. data # << >>
      <4>1. << >> \in Seq(Nat)
        OBVIOUS
      <4>. QED
        BY <1>10, <4>1, NotCells, Zenon
    <3>. QED
      BY <1>10, <1>4, <3>1, Zenon DEF Taken
  <2>2. Broken'
    BY <1>7, <1>9, <1>10
  <2>3. PICK d : d = [c EXCEPT !.pc = "ret", !.buf = None]
    OBVIOUS
  <2>4. d \in Call /\ d.pc = "ret" /\ call' = [call EXCEPT ![r] = d]
    BY <1>3, <1>6, <2>1, <2>3 DEF Call
  <2>5. PICK l : l = Idle
    OBVIOUS
  <2>6. l \in GoodLoad' /\ ~Leads(l) /\ load' = [load EXCEPT ![r] = l]
    BY <1>1, <2>1, <2>5, IdleIs
  <2>. QED
    BY <1>1, <1>9, <2>1, <2>2, <2>4, <2>6, CallKeeps
<1>11. CASE data # None
  <2>1. Good(n, data)
    BY <1>7, <1>11
  <2>2. /\ data \in Seq(Nat)
        /\ \/ data = FullPage(n) /\ Len(data) = PageLen(n)
           \/ Happened("truncated") /\ Broken /\ Len(data) < PageLen(n)
           \/ Broken /\ Len(data) = size
    BY <1>6, <2>1, GoodIs
  <2>3. CASE data = << >>
    <3>1. Finish(r, c.buf) /\ UNCHANGED crashed
      BY <1>11, <1>4, <2>3, Zenon DEF Taken
    <3>2. Broken
      <4>1. Len(data) = 0 /\ PageLen(n) # 0
        BY <1>6, <2>3, PageIs
      <4>. QED
        BY <2>2, <4>1
    <3>. QED
      BY <1>1, <1>5, <1>8, <3>1, <3>2, FinishKeeps
  <2>4. CASE data # << >> /\ CopyStart(c, n) > Len(data)
    <3>1. CopyStart(c, n) \in Nat /\ CopyStart(c, n) < PageLen(n)
      BY <1>3, <1>5, InPage
    <3>2. Happened("truncated")
      <4>1. Len(data) \in Nat /\ PageLen(n) \in Nat /\ PageLen(n) <= size
        BY <1>6, <2>2, PageIs
      <4> DEFINE f == CopyStart(c, n)
                 d == Len(data)
      <4>2. ~(d = PageLen(n)) /\ ~(d = size)
        <5> HIDE DEF f, d
        <5>1. f \in Nat /\ f < PageLen(n) /\ d \in Nat /\ f > d
          BY <2>4, <3>1, <4>1 DEF f, d
        <5>. QED
          BY <1>6, <4>1, <5>1
      <4>. QED
        BY <2>2, <4>2
    <3>3. crashed' = TRUE /\ UNCHANGED <<call, load, ahead>>
      <4>1. CopyStart(c, n) \in Nat /\ Len(data) \in Nat
        BY <2>2, <3>1
      <4>2. ~(CopyStart(c, n) <= Len(data))
        BY <2>4, <4>1
      <4>. QED
        BY <1>11, <1>4, <2>4, <4>2, Zenon DEF Taken
    <3>4. CrashNeedsTruncatedPage'
      BY <1>1, <3>2, Moves, Zenon DEF CrashNeedsTruncatedPage, Happened
    <3>5. CloudShape'
      BY <1>1, <3>3 DEF CInv, CloudShape, PageNos, Call
    <3>6. Pioneers' /\ Calls'
      BY <1>1, <3>3 DEF CInv, Pioneers, Calls, Leads, Broken
    <3>7. GoodPages'
      BY <1>1, <3>3, Moves DEF CInv, GoodPages
    <3>. QED
      BY <3>4, <3>5, <3>6, <3>7 DEF CInv
  <2>5. CASE data # << >> /\ CopyStart(c, n) <= Len(data)
    <3>1. PICK from : from = CopyStart(c, n)
      OBVIOUS
    <3>2. PICK buf : buf = Joined(c, n, data)
      OBVIOUS
    <3>7. Copied(c, n, data, buf)
      <4>1. buf = c.buf \o SubSeq(data, from + 1, from + CopyLen(c, n, data))
        BY <3>1, <3>2 DEF Joined
      <4>2. from <= Len(data) /\ call[r].pc = "page"
        BY <1>5, <2>5, <3>1
      <4>. QED
        BY <1>3, <2>1, <3>1, <4>1, <4>2, Copies, Zenon
    <3>3. /\ buf \in Seq(Nat) /\ Len(buf) <= c.len
          /\ Broken \/ (c.buf = Cells(c.off, Len(c.buf)) => buf = Cells(c.off, Len(buf)))
          /\ Len(buf) # c.len /\ ~(Len(data) < PageSize) =>
                 n + 1 \in PageNos /\ n + 1 = (c.off + Len(buf)) \div PageSize
          /\ Broken \/ ((Len(data) < PageSize \/ n = EndPage(c)) => Len(buf) = c.len)
      BY ONLY <3>7 DEF Copied
    <3>4. /\ \/ Last(c, n, data, buf) /\ Finish(r, buf)
             \/ /\ ~Last(c, n, data, buf)
                /\ call' = [call EXCEPT ![r].buf = buf]
                /\ load' = [load EXCEPT ![r] = Loading(n + 1)]
                /\ UNCHANGED ahead
          /\ UNCHANGED crashed
      <4>1. CopyStart(c, n) \in Nat /\ Len(data) \in Nat
        BY <1>3, <1>5, <2>2, InPage
      <4>2. ~(CopyStart(c, n) > Len(data))
        BY <2>5, <4>1
      <4>. QED
        BY <1>11, <1>4, <2>5, <3>2, <4>2, Zenon DEF Taken
    <3>5. CASE Last(c, n, data, buf)
      <4>1. Finish(r, buf) /\ UNCHANGED crashed
        BY <3>4, <3>5, Zenon
      <4>2. Broken \/ buf = Cells(c.off, c.len)
        BY <1>0, <1>8, <3>3, <3>5 DEF Last
      <4>. QED
        BY <1>1, <1>3, <1>5, <3>3, <4>1, <4>2, FinishKeeps
    <3>6. CASE ~Last(c, n, data, buf)
      <4>1. /\ call' = [call EXCEPT ![r].buf = buf]
            /\ load' = [load EXCEPT ![r] = Loading(n + 1)]
            /\ UNCHANGED <<ahead, crashed>>
        BY <3>4, <3>6, Zenon
      <4>2. n + 1 \in PageNos /\ n + 1 = (c.off + Len(buf)) \div PageSize
        BY ONLY <1>0, <3>3, <3>6 DEF Last
      <4>3. PICK l : l = Loading(n + 1)
        OBVIOUS
      <4>4. l \in GoodLoad' /\ ~Leads(l) /\ l.page = n + 1 /\ load' = [load EXCEPT ![r] = l]
        BY <1>1, <4>1, <4>2, <4>3, IdleIs
      <4>5. PICK d : d = [c EXCEPT !.buf = buf]
        OBVIOUS
      <4>6. /\ d \in Call /\ d.pc = "page" /\ d.off = c.off /\ d.len = c.len /\ d.buf = buf
            /\ call' = [call EXCEPT ![r] = d]
        BY <1>3, <1>5, <1>6, <3>3, <4>1, <4>5 DEF Call
      <4>7. d.buf # None /\ d.off + d.len <= size
        BY <1>3, <1>5, <3>3, <4>6, NotCells DEF CInv, Calls
      <4>8. Len(d.buf) < d.len
        <5>1. Len(buf) \in Nat /\ c.len \in Nat
          BY <1>6, <3>3 DEF Call
        <5>. QED
          BY ONLY <1>0, <3>3, <3>6, <4>6, <5>1 DEF Last
      <4>9. Broken' \/ d.buf = Cells(d.off, Len(d.buf))
        BY <1>8, <1>9, <3>3, <4>6
      <4>10. l.page = (d.off + Len(d.buf)) \div PageSize
        BY <4>2, <4>4, <4>6
      <4>11. d.pc = "page" => /\ d.buf # None /\ d.off + d.len <= size
                              /\ Len(d.buf) < d.len
                              /\ l.page = (d.off + Len(d.buf)) \div PageSize
                              /\ Broken' \/ d.buf = Cells(d.off, Len(d.buf))
        BY ONLY <4>7, <4>8, <4>9, <4>10
      <4>12. d.pc = "ret" => Broken' \/ d.buf = Cells(d.off, d.len)
        BY ONLY <4>6
      <4>13. /\ pages' = pages /\ flight' = flight /\ ahead' \subseteq PageNos
             /\ crashed' = crashed /\ (Leads(l) => flight[l.page] = r)
        BY ONLY <1>1, <1>9, <4>1, <4>4
      <4>. QED
        BY <1>1, <4>4, <4>6, <4>11, <4>12, <4>13, CallKeeps, Zenon
    <3>. QED
      BY <3>5, <3>6
  <2>6. Len(data) \in Nat /\ CopyStart(c, n) \in Nat
    BY <1>3, <1>5, <2>2, InPage
  <2>7. CopyStart(c, n) > Len(data) \/ CopyStart(c, n) <= Len(data)
    BY ONLY <2>6
  <2>. QED
    BY <2>3, <2>4, <2>5, <2>7
<1>. QED
  BY <1>10, <1>11

\* A step of the remote file, by any goroutine.
LEMMA CloudKeeps ==
    ASSUME CInv, NEW p \in Procs, CloudStep(p)
    PROVE  CInv'
BY CacheGetStep, JoinStep, RecheckStep, CloseStep, FetchStep, FetchTruncatedStep, FetchWholeStep,
   FetchFailsStep, TakePageStep, StartPrefetchStep DEF CloudStep, LoadStep

-----------------------------------------------------------------------------
(* The reads. *)

\* The answers that a read of n cells at off may get.
Right(off, n, a) ==
    \/ a = Cells(off, n)
    \/ (Faulty \/ ~Matched) /\ a = Error
    \/ ~Matched /\ a \in Seq(Int) /\ Len(a) = n
    \/ Faulty /\ file.kind = "plain" /\ a \in Seq(Int)

\* A step of a read: it goes on, or it is answered.
Advances(r) ==
    \E x \in Reading :
        /\ rd[r].pc # "idle" /\ rd' = [rd EXCEPT ![r] = x]
        /\ x.off = rd[r].off /\ x.len = rd[r].len /\ Doing(x, call'[r])
        /\ \/ x.pc # "idle" /\ answer' = answer
           \/ x.pc = "idle" /\ \E a : Right(x.off, x.len, a) /\ answer' = [answer EXCEPT ![r] = a]

\* What such a step leaves of the locks, the caches and the calls of the others.
Serves(r) ==
    /\ Advances(r)
    /\ mu' \in Readers \cup {None} /\ plain' \in BOOLEAN
    /\ cache' \in Seq(Stored) /\ CacheAccounts' /\ total' \in Nat
    /\ \A q \in Readers \ {r} : call'[q] = call[q]
    /\ UNCHANGED <<size, faults, crashed, watch, file, mounted, reads>>

\* What the invariant says of one read.
LEMMA ReadFacts ==
    ASSUME RInv, NEW r \in Readers
    PROVE  /\ rd[r] \in Reading /\ Doing(rd[r], call[r])
           /\ rd[r].off \in Nat /\ rd[r].len \in Nat
           /\ rd[r].out \in Seq(Int) /\ rd[r].got \in Seq(Int) /\ Len(rd[r].out) \in Nat
<1>1. rd[r] \in Reading /\ Doing(rd[r], call[r])
  BY DEF RInv, ReaderShape, Progress
<1>. QED
  BY <1>1 DEF Reading

\* The end of a read.
LEMMA Answers ==
    ASSUME RInv, NEW r \in Readers, rd[r].pc # "idle", NEW a, Answer(r, a),
           Right(rd[r].off, rd[r].len, a)
    PROVE  Advances(r)
<1>1. PICK x : x = [rd[r] EXCEPT !.pc = "idle", !.out = << >>, !.got = << >>]
  OBVIOUS
<1>2. rd[r] \in Reading /\ rd \in [Readers -> Reading]
  BY DEF RInv, ReaderShape
<1>3. /\ x \in Reading /\ x.pc = "idle" /\ x.off = rd[r].off /\ x.len = rd[r].len
      /\ x.out = << >>
  <2>1. "idle" \in ReadPcs
    BY DEF ReadPcs
  <2>2. << >> \in Seq(Int)
    OBVIOUS
  <2>. QED
    BY ONLY <1>1, <1>2, <2>1, <2>2 DEF Reading
<1>4. rd' = [rd EXCEPT ![r] = x] /\ answer' = [answer EXCEPT ![r] = a]
  BY <1>1, <1>2 DEF Answer, Reading
<1>5. Doing(x, call'[r])
  BY <1>3 DEF Doing, Looping
<1>6. Right(x.off, x.len, a)
  BY <1>3
<1>. QED
  BY <1>3, <1>4, <1>5, <1>6, Zenon DEF Advances

\* A step of a read keeps the invariant.
LEMMA ServedKeeps ==
    ASSUME IInv, NEW r \in Readers, Serves(r), CInv'
    PROVE  IInv'
<1>1. PICK x \in Reading :
         /\ rd[r].pc # "idle" /\ rd' = [rd EXCEPT ![r] = x]
         /\ x.off = rd[r].off /\ x.len = rd[r].len /\ Doing(x, call'[r])
         /\ \/ x.pc # "idle" /\ answer' = answer
            \/ x.pc = "idle" /\ \E a : Right(x.off, x.len, a) /\ answer' = [answer EXCEPT ![r] = a]
  BY Zenon DEF Serves, Advances
<1>2. file' = file /\ size' = size /\ mounted' = mounted /\ brain' = brain /\ watcher' = watcher
      /\ reads' = reads
  BY DEF Serves, watch
<1>3. rd' \in [Readers -> Reading]
  BY <1>1 DEF IInv, RInv, ReaderShape
<1>4. answer' \in [Readers -> Seq(Int) \cup {None, Error}]
  <2>1. answer \in [Readers -> Seq(Int) \cup {None, Error}]
    BY DEF IInv, RInv, ReaderShape
  <2>2. \A a : Right(x.off, x.len, a) => a \in Seq(Int) \cup {None, Error}
    <3>1. x.off \in Nat /\ x.len \in Nat
      BY DEF Reading
    <3>2. Cells(x.off, x.len) \in Seq(Int)
      BY <3>1, CellsAre
    <3>. QED
      BY <3>2 DEF Right
  <2>. QED
    BY <1>1, <2>1, <2>2
<1>5. \A y, c : Doing(y, c) => Doing(y, c)'
  <2>1. Matched' = Matched /\ OriginalSize' = OriginalSize
    BY <1>2, BrainStays DEF OriginalSize
  <2>2. \A i : Rebuilt(i)' = Rebuilt(i)
    BY ONLY <1>2 DEF Rebuilt, OwnWord, ShortSize
  <2>3. file' = file
    BY <1>2
  <2>. QED
    BY ONLY <2>1, <2>2, <2>3 DEF Doing, Wanted
<1>6. Progress'
  <2> SUFFICES ASSUME NEW q \in Readers PROVE Doing(rd[q], call[q])'
    BY DEF Progress
  <2>1. PICK y, c : y = rd'[q] /\ c = call'[q]
    OBVIOUS
  <2>2. Doing(y, c)
    <3>1. CASE q = r
      BY <1>1, <2>1, <3>1 DEF IInv, RInv, ReaderShape
    <3>2. CASE q # r
      <4>1. y = rd[q] /\ c = call[q]
        BY <1>1, <2>1, <3>2 DEF IInv, RInv, ReaderShape, Serves
      <4>. QED
        BY <4>1 DEF IInv, RInv, Progress
    <3>. QED
      BY <3>1, <3>2
  <2>3. Doing(y, c)'
    BY <1>5, <2>2
  <2>. QED
    BY <2>1, <2>3 DEF Doing, Wanted
<1>8. Stored' = Stored
  BY <1>2, BrainStays
<1>7. ReaderShape'
  BY <1>2, <1>3, <1>4 DEF IInv, RInv, ReaderShape, Serves, Reading
<1>. QED
  BY <1>6, <1>7, <1>8 DEF IInv, RInv, Serves

\* A read of the file underneath begins: its cells lie inside the file.
LEMMA FileReadStarts ==
    ASSUME CInv, NEW r \in Readers, NEW off \in Nat, NEW n \in Nat, off + n <= size,
           StartFileRead(r, off, n), UNCHANGED <<size, pages, flight, ahead, crashed, faults>>
    PROVE  /\ CInv' /\ call'[r].off = off /\ call'[r].len = n
           /\ \A q \in Readers \ {r} : call'[q] = call[q]
<1>1. call \in [Readers -> Call] /\ load \in [Procs -> GoodLoad] /\ r \in Procs
  BY DEF CInv, CloudShape, GoodPages, Procs
<1>2. CASE file.remote
  <2>1. StartReadAt(r, off, n)
    BY <1>2 DEF StartFileRead
  <2>2. CInv'
    BY <2>1, StartReadAtStep
  <2>. QED
    BY <1>1, <2>1, <2>2 DEF StartReadAt
<1>3. CASE ~file.remote
  <2>1. PICK c : c = [pc |-> "disk", off |-> off, len |-> n, buf |-> << >>]
    OBVIOUS
  <2>2. c \in Call /\ c.pc = "disk" /\ c.off = off /\ c.len = n
    <3>1. << >> \in Seq(Nat)
      OBVIOUS
    <3>. QED
      BY <2>1, <3>1 DEF Call
  <2>3. call' = [call EXCEPT ![r] = c] /\ load' = load
    BY <1>3, <2>1 DEF StartFileRead
  <2>4. CInv'
    BY <2>2, <2>3, CallMoves DEF Moved
  <2>. QED
    BY <1>1, <2>2, <2>3, <2>4
<1>. QED
  BY <1>2, <1>3

\* The reader takes what its call returned.
LEMMA FileReadEnds ==
    ASSUME CInv, NEW r \in Readers, Returned(r), load' = load,
           UNCHANGED <<size, pages, flight, ahead, crashed, faults>>
    PROVE  CInv' /\ \A q \in Readers \ {r} : call'[q] = call[q]
<1>1. call \in [Readers -> Call]
  BY DEF CInv, CloudShape
<1>2. PICK c : c = NoCall
  OBVIOUS
<1>3. c \in Call /\ c.pc = "idle"
  <2>1. << >> \in Seq(Nat)
    OBVIOUS
  <2>. QED
    BY <1>2, <2>1 DEF Call, NoCall
<1>4. call' = [call EXCEPT ![r] = c]
  BY <1>2 DEF Returned
<1>5. CInv'
  BY <1>3, <1>4, CallMoves DEF Moved
<1>. QED
  BY <1>1, <1>4, <1>5

\* Nothing but caches of the reader changes.
LEMMA NoFileReadKeeps ==
    ASSUME CInv, NoFileRead, UNCHANGED <<size, pages, flight, ahead, crashed, faults>>
    PROVE  CInv'
<1>1. Moved /\ call' = call /\ load' = load
  BY DEF NoFileRead, Moved
<1>2. CloudShape' /\ Pioneers' /\ Calls'
  BY <1>1 DEF CInv, CloudShape, Pioneers, Calls, Leads, Broken, PageNos, Call
<1>. QED
  BY <1>1, <1>2, Moves DEF CInv, GoodPages

\* A step that leaves the reader's cache alone.
LEMMA CacheStays ==
    ASSUME IInv, UNCHANGED <<cache, total>>
    PROVE  cache' \in Seq(Stored) /\ CacheAccounts' /\ total' \in Nat
<1>1. cache \in Seq(Stored) /\ CacheAccounts /\ total \in Nat
  BY DEF IInv, RInv, ReaderShape
<1>2. CacheAccounts'
  BY <1>1 DEF CacheAccounts, Bytes
<1>. QED
  BY <1>1, <1>2

\* Neither cache nor lock changes.
LEMMA RestKeeps ==
    ASSUME IInv, UNCHANGED <<mu, cache, total, plain>>
    PROVE  /\ mu' \in Readers \cup {None} /\ plain' \in BOOLEAN
           /\ cache' \in Seq(Stored) /\ CacheAccounts' /\ total' \in Nat
BY CacheStays DEF IInv, RInv, ReaderShape

\* The original size is a number.
LEMMA OriginalIs == OriginalSize \in Nat
<1>1. Upto[Len(Entries)] \in Nat /\ PlainSize \in Nat
  BY EntriesAre, UptoIs, LayoutAssumption
<1>. QED
  BY <1>1 DEF OriginalSize

\* A read that waits for its first cell.
LEMMA StartedIs ==
    ASSUME RInv, NEW r \in Readers, rd[r].pc = "start", rd[r].off < OriginalSize
    PROVE  Wanted(rd[r]) /\ rd[r].out = << >> /\ rd[r].len > 0
<1>1. OriginalSize \in Nat
  BY OriginalIs
<1>2. rd[r].off \in Nat /\ rd[r].len \in Nat /\ Doing(rd[r], call[r])
  BY ReadFacts
<1>3. Wanted(rd[r]) /\ rd[r].out = << >>
  BY <1>1, <1>2 DEF Doing
<1>4. Len(rd[r].out) = 0
  BY <1>3
<1>. QED
  BY <1>2, <1>3, <1>4 DEF Wanted

\* A read past the end is empty.
LEMMA ReadPastEndStep ==
    ASSUME IInv, NEW r \in Readers, ReadPastEnd(r)
    PROVE  Serves(r) /\ CInv'
<1>1. /\ rd[r].pc = "start" /\ rd[r].off >= OriginalSize /\ Answer(r, << >>)
      /\ NoFileRead /\ call' = call
      /\ UNCHANGED <<size, pages, flight, ahead, crashed, faults, watch, file, mounted>>
      /\ UNCHANGED <<mu, cache, total, plain, reads>>
  BY DEF ReadPastEnd, Still, NoFileRead
<1>2. rd[r].off \in Nat /\ rd[r].len \in Nat /\ Doing(rd[r], call[r])
  BY ReadFacts DEF IInv
<1>3. rd[r].len = 0
  <2>1. OriginalSize \in Nat
    BY OriginalIs
  <2>. QED
    BY <1>1, <1>2, <2>1 DEF Doing, Wanted
<1>4. Right(rd[r].off, rd[r].len, << >>)
  BY <1>2, <1>3, NoCells DEF Right
<1>5. Advances(r)
  BY <1>1, <1>4, Answers DEF IInv
<1>6. CInv'
  BY <1>1, NoFileReadKeeps DEF IInv
<1>. QED
  BY <1>1, <1>5, <1>6, RestKeeps DEF Serves

\* The length of the file that is not made of blocks.
LEMMA PayloadIs ==
    ASSUME RInv, file.kind # "blocks"
    PROVE  /\ size = file.tail + (MetaSize + PlainSize) /\ OriginalSize = PlainSize
           /\ file.tail \in Nat /\ MetaSize \in Nat \ {0} /\ PlainSize \in Nat
<1>1. file \in Files /\ size = ContainerSize(file)
  BY DEF RInv, ReaderShape
<1>2. file.tail \in Nat /\ MetaSize \in Nat \ {0} /\ PlainSize \in Nat
  BY <1>1, LayoutAssumption
<1>. QED
  BY <1>1, <1>2 DEF ContainerSize, OriginalSize

\* A read goes to its next place with off, len and what it has.
LEMMA GoesOn ==
    ASSUME RInv, NEW r \in Readers, rd[r].pc # "idle", NEW pc \in ReadPcs \ {"idle"}, Goto(r, pc),
           answer' = answer,
           NEW x, x = [rd[r] EXCEPT !.pc = pc], Doing(x, call'[r])
    PROVE  Advances(r)
<1>1. rd[r] \in Reading /\ rd \in [Readers -> Reading]
  BY DEF RInv, ReaderShape
<1>2. x \in Reading /\ x.pc = pc /\ x.off = rd[r].off /\ x.len = rd[r].len
  BY <1>1 DEF Reading
<1>3. rd' = [rd EXCEPT ![r] = x]
  BY <1>1 DEF Goto, Reading
<1>4. x.pc # "idle"
  BY <1>2
<1>. QED
  BY <1>2, <1>3, <1>4, Zenon DEF Advances

\* A file stored as it is: the cells lie behind the metadata.
LEMMA ReadPlainStep ==
    ASSUME IInv, NEW r \in Readers, ReadPlain(r)
    PROVE  Serves(r) /\ CInv'
<1>1. /\ rd[r].pc = "start" /\ rd[r].off < OriginalSize /\ file.kind = "plain"
      /\ Goto(r, "plain") /\ StartFileRead(r, MetaSize + rd[r].off, rd[r].len)
      /\ UNCHANGED <<size, pages, flight, ahead, crashed, faults, watch, file, mounted>>
      /\ UNCHANGED <<answer, mu, cache, total, plain, reads>>
  BY DEF ReadPlain, Still
<1>2. /\ rd[r] \in Reading /\ Wanted(rd[r]) /\ rd[r].out = << >>
      /\ rd[r].off \in Nat /\ rd[r].len \in Nat /\ rd[r].len > 0
  BY <1>1, ReadFacts, StartedIs DEF IInv
<1>3. MetaSize + rd[r].off \in Nat /\ MetaSize + rd[r].off + rd[r].len <= size
  BY <1>1, <1>2, PayloadIs, SMTT(20) DEF IInv, Wanted
<1>4. /\ CInv' /\ call'[r].off = MetaSize + rd[r].off /\ call'[r].len = rd[r].len
      /\ \A q \in Readers \ {r} : call'[q] = call[q]
  BY <1>1, <1>2, <1>3, FileReadStarts DEF IInv
<1>5. PICK x : x = [rd[r] EXCEPT !.pc = "plain"]
  OBVIOUS
<1>6. x.pc = "plain" /\ x.off = rd[r].off /\ x.len = rd[r].len /\ x.out = rd[r].out
  BY <1>2, <1>5 DEF Reading
<1>7. Wanted(x)
  BY <1>2, <1>6 DEF Wanted
<1>8. Doing(x, call'[r])
  BY <1>1, <1>2, <1>4, <1>6, <1>7 DEF Doing, Looping
<1>9. "plain" \in ReadPcs \ {"idle"} /\ RInv /\ rd[r].pc # "idle" /\ Goto(r, "plain") /\ answer' = answer
  BY <1>1 DEF ReadPcs, IInv
<1>10. Advances(r)
  BY <1>5, <1>8, <1>9, GoesOn, Zenon
<1>. QED
  BY <1>1, <1>4, <1>10, RestKeeps DEF Serves

\* A file stored as it is: what was read is right, or something has failed.
LEMMA PlainDoneStep ==
    ASSUME IInv, NEW r \in Readers, PlainDone(r)
    PROVE  Serves(r) /\ CInv'
<1>1. /\ rd[r].pc = "plain" /\ call[r].pc = "ret"
      /\ Returned(r) /\ load' = load
      /\ UNCHANGED <<size, pages, flight, ahead, crashed, faults, watch, file, mounted>>
      /\ UNCHANGED <<mu, cache, total, plain, reads>>
  BY DEF PlainDone, Still
<1>2. PICK buf : buf = call[r].buf
  OBVIOUS
<1>3. PICK a : a = IF buf = None THEN Error ELSE [i \in DOMAIN buf |-> buf[i] - MetaSize]
  OBVIOUS
<1>4. Answer(r, a)
  BY <1>2, <1>3 DEF PlainDone
<1>5. /\ file.kind = "plain" /\ rd[r].off \in Nat /\ rd[r].len \in Nat
      /\ call[r].off = MetaSize + rd[r].off /\ call[r].len = rd[r].len
  BY <1>1, ReadFacts DEF IInv, Doing
<1>6. /\ buf \in Seq(Nat) \cup {None}
      /\ Broken \/ buf = Cells(MetaSize + rd[r].off, rd[r].len)
  BY <1>1, <1>2, <1>5 DEF IInv, CInv, CloudShape, Calls, Call
<1>7. MetaSize \in Nat
  BY LayoutAssumption
<1>8. Right(rd[r].off, rd[r].len, a)
  <2>1. CASE buf = None
    <3>1. MetaSize + rd[r].off \in Nat
      BY <1>5, <1>7
    <3>2. Cells(MetaSize + rd[r].off, rd[r].len) \in Seq(Nat)
      BY <1>5, <3>1, CellsAre
    <3>3. Broken
      BY <1>6, <2>1, <3>2, NotCells
    <3>. QED
      BY <1>3, <2>1, <3>3 DEF Right, Faulty, Broken
  <2>2. CASE buf # None /\ Broken
    <3>1. buf \in Seq(Nat) /\ Len(buf) \in Nat
      BY <1>6, <2>2
    <3>2. a = [i \in 1..Len(buf) |-> buf[i] - MetaSize]
      BY <1>3, <2>2, <3>1
    <3>3. \A i \in 1..Len(buf) : buf[i] - MetaSize \in Int
      BY <1>7, <3>1
    <3>4. a \in Seq(Int)
      BY ONLY <3>1, <3>2, <3>3
    <3>. QED
      BY <1>5, <2>2, <3>4 DEF Right, Faulty, Broken
  <2>3. CASE buf # None /\ ~Broken
    <3> DEFINE o == rd[r].off
               n == rd[r].len
               m == MetaSize
    <3>1. buf = Cells(m + o, n) /\ o \in Nat /\ n \in Nat /\ m \in Nat
      BY <1>5, <1>6, <1>7, <2>3
    <3>2. a = [i \in DOMAIN buf |-> buf[i] - m]
      BY <1>3, <2>3
    <3> HIDE DEF o, n, m
    <3>3. DOMAIN buf = 1..n /\ \A i \in 1..n : buf[i] = m + o + i - 1
      BY <3>1 DEF Cells
    <3>4. \A i \in 1..n : buf[i] - m = o + i - 1
      BY <3>1, <3>3
    <3>5. a = Cells(o, n)
      BY <3>2, <3>3, <3>4 DEF Cells
    <3>. QED
      BY <3>5 DEF Right, o, n
  <2>. QED
    BY <2>1, <2>2, <2>3
<1>9. Advances(r)
  BY <1>1, <1>4, <1>8, Answers DEF IInv
<1>10. CInv' /\ \A q \in Readers \ {r} : call'[q] = call[q]
  BY <1>1, FileReadEnds DEF IInv
<1>. QED
  BY <1>1, <1>9, <1>10, RestKeeps DEF Serves

\* An encrypted file is read as a whole, or it has been.
LEMMA DecryptStep ==
    ASSUME IInv, NEW r \in Readers, Decrypt(r)
    PROVE  Serves(r) /\ CInv'
<1>1. /\ rd[r].pc = "start" /\ rd[r].off < OriginalSize /\ file.kind = "sealed"
      /\ UNCHANGED <<size, pages, flight, ahead, crashed, faults, watch, file, mounted>>
      /\ UNCHANGED <<cache, total, plain, reads>>
  BY DEF Decrypt, Still
<1>2. /\ rd[r] \in Reading /\ Wanted(rd[r]) /\ rd[r].out = << >>
      /\ rd[r].off \in Nat /\ rd[r].len \in Nat /\ rd[r].len > 0
  BY <1>1, ReadFacts, StartedIs DEF IInv
<1>3. CASE Answer(r, Cells(rd[r].off, rd[r].len)) /\ NoFileRead /\ mu' = mu
  <2>1. Right(rd[r].off, rd[r].len, Cells(rd[r].off, rd[r].len)) /\ rd[r].pc # "idle" /\ RInv
    BY <1>1 DEF Right, IInv
  <2>2. Advances(r)
    BY <1>3, <2>1, Answers, Zenon
  <2>3. CInv' /\ call' = call
    BY <1>1, <1>3, NoFileReadKeeps DEF IInv, NoFileRead
  <2>. QED
    BY <1>1, <1>3, <2>2, <2>3, RestKeeps DEF Serves
<1>4. CASE /\ Goto(r, "sealed") /\ mu' = r /\ answer' = answer
           /\ StartFileRead(r, MetaSize, size - MetaSize)
  <2>1. PICK n : n = size - MetaSize
    OBVIOUS
  <2>2. MetaSize \in Nat /\ n \in Nat /\ n > 0 /\ MetaSize + n <= size
    BY <1>1, <1>2, <2>1, PayloadIs DEF IInv
  <2>3. CInv' /\ \A q \in Readers \ {r} : call'[q] = call[q]
    BY <1>1, <1>4, <2>1, <2>2, FileReadStarts DEF IInv
  <2>4. PICK x : x = [rd[r] EXCEPT !.pc = "sealed"]
    OBVIOUS
  <2>5. x.pc = "sealed" /\ x.off = rd[r].off /\ x.len = rd[r].len /\ x.out = rd[r].out
    BY <1>2, <2>4 DEF Reading
  <2>6. Wanted(x)
    BY <1>2, <2>5 DEF Wanted
  <2>7. Doing(x, call'[r])
    BY <1>1, <1>2, <2>5, <2>6 DEF Doing, Looping
  <2>8. "sealed" \in ReadPcs \ {"idle"} /\ RInv /\ rd[r].pc # "idle"
    BY <1>1 DEF ReadPcs, IInv
  <2>9. Advances(r)
    BY <1>4, <2>4, <2>7, <2>8, GoesOn, Zenon
  <2>10. cache' \in Seq(Stored) /\ CacheAccounts' /\ total' \in Nat
    BY <1>1, CacheStays
  <2>11. plain' \in BOOLEAN
    BY <1>1 DEF IInv, RInv, ReaderShape
  <2>. QED
    BY <1>1, <1>4, <2>3, <2>9, <2>10, <2>11 DEF Serves
<1>. QED
  BY <1>3, <1>4 DEF Decrypt

\* An encrypted file opens when it was read exactly and has no tail.
LEMMA DecryptDoneStep ==
    ASSUME IInv, NEW r \in Readers, DecryptDone(r)
    PROVE  Serves(r) /\ CInv'
<1>1. /\ rd[r].pc = "sealed" /\ call[r].pc = "ret" /\ mu' = None
      /\ plain' = (Exact(r) /\ file.tail = 0)
      /\ Returned(r) /\ load' = load
      /\ UNCHANGED <<size, pages, flight, ahead, crashed, faults, watch, file, mounted>>
      /\ UNCHANGED <<cache, total, reads>>
  BY DEF DecryptDone, Still
<1>2. PICK a : a = IF plain' THEN Cells(rd[r].off, rd[r].len) ELSE Error
  OBVIOUS
<1>3. Answer(r, a)
  BY <1>2 DEF DecryptDone
<1>4. file.kind = "sealed"
  BY <1>1, ReadFacts DEF IInv, Doing
<1>5. Exact(r) \/ Broken
  BY <1>1 DEF IInv, CInv, Calls, Exact
<1>6. file.tail \in Nat
  BY <1>4, PayloadIs DEF IInv
<1>7. Right(rd[r].off, rd[r].len, a)
  <2>1. CASE plain'
    BY <1>2, <2>1 DEF Right
  <2>2. CASE ~plain'
    <3>1. a = Error
      BY <1>2, <2>2
    <3>2. ~Exact(r) \/ file.tail # 0
      <4>1. plain' = (Exact(r) /\ file.tail = 0)
        BY <1>1
      <4>. QED
        BY ONLY <2>2, <4>1, Zenon
    <3>3. Faulty
      BY <1>4, <1>5, <1>6, <3>2 DEF Faulty, Broken
    <3>. QED
      BY <3>1, <3>3 DEF Right
  <2>. QED
    BY <2>1, <2>2
<1>8. Advances(r)
  BY <1>1, <1>3, <1>7, Answers DEF IInv
<1>9. CInv' /\ \A q \in Readers \ {r} : call'[q] = call[q]
  BY <1>1, FileReadEnds DEF IInv
<1>10. plain' \in BOOLEAN
  BY <1>1 DEF Exact
<1>11. cache' \in Seq(Stored) /\ CacheAccounts' /\ total' \in Nat
  BY <1>1, CacheStays
<1>. QED
  BY <1>1, <1>8, <1>9, <1>10, <1>11 DEF Serves

\* The chunk that a read wants next.
LEMMA ChunkOf ==
    ASSUME RInv, NEW r \in Readers, Wanted(rd[r]), file.kind = "blocks"
    PROVE  /\ Chunk(r) \in 1..Len(Entries) /\ rd[r].off + Len(rd[r].out) \in Nat
           /\ Upto[Chunk(r) - 1] <= rd[r].off + Len(rd[r].out)
           /\ rd[r].off + Len(rd[r].out) < Upto[Chunk(r)]
<1>1. rd[r].off \in Nat /\ rd[r].len \in Nat /\ Len(rd[r].out) \in Nat
  BY ReadFacts
<1>2. PICK o : o = rd[r].off + Len(rd[r].out)
  OBVIOUS
<1>3. Upto[Len(Entries)] \in Nat
  BY EntriesAre, UptoIs
<1>4. rd[r].off + rd[r].len <= Upto[Len(Entries)] /\ Len(rd[r].out) < rd[r].len
  BY DEF Wanted, OriginalSize
<1>5. o \in Nat /\ o < Upto[Len(Entries)]
  <2>1. \A a, b, c, d \in Nat : a + b <= d /\ c < b => a + c \in Nat /\ a + c < d
    OBVIOUS
  <2>. QED
    BY ONLY <1>1, <1>2, <1>3, <1>4, <2>1, Zenon
<1>. QED
  BY <1>2, <1>5, ChunkIs DEF Chunk

\* A read has what its chunk is rebuilt to.
LEMMA HasChunk ==
    ASSUME RInv, NEW r \in Readers, rd[r].pc # "idle", Wanted(rd[r]), file.kind = "blocks",
           rd' = [rd EXCEPT ![r].pc = "put", ![r].got = Rebuilt(Chunk(r))], answer' = answer,
           Rebuilt(Chunk(r)) \in Seq(Int)
    PROVE  Advances(r)
<1>1. rd[r] \in Reading /\ rd \in [Readers -> Reading]
  BY DEF RInv, ReaderShape
<1>2. Rebuilt(Chunk(r)) \in Seq(Int)
  OBVIOUS
<1>3. PICK x : x = [rd[r] EXCEPT !.pc = "put", !.got = Rebuilt(Chunk(r))]
  OBVIOUS
<1>4. "put" \in ReadPcs
  BY DEF ReadPcs, Looping
<1>5. /\ x \in Reading /\ x.pc = "put" /\ x.off = rd[r].off /\ x.len = rd[r].len
      /\ x.out = rd[r].out /\ x.got = Rebuilt(Chunk(r))
  BY ONLY <1>1, <1>2, <1>3, <1>4 DEF Reading
<1>6. rd' = [rd EXCEPT ![r] = x]
  BY <1>1, <1>3 DEF Reading
<1>7. Wanted(x)
  BY <1>5 DEF Wanted
<1>8. Doing(x, call'[r])
  BY <1>5, <1>7 DEF Doing, Chunk
<1>9. x.pc # "idle"
  BY <1>5
<1>. QED
  BY <1>5, <1>6, <1>8, <1>9, Zenon DEF Advances

\* A read that is in the loop over the chunks, or about to enter it.
LEMMA InLoop ==
    ASSUME RInv, NEW r \in Readers,
           rd[r].pc \in Looping \/ (rd[r].pc = "start" /\ rd[r].off < OriginalSize /\ file.kind = "blocks")
    PROVE  /\ Wanted(rd[r]) /\ file.kind = "blocks" /\ rd[r].pc # "idle" /\ rd[r] \in Reading
           /\ Chunk(r) \in 1..Len(Entries) /\ BlockOf[Chunk(r)] \in 1..Len(FrameSizes)
           /\ \/ Rebuilt(Chunk(r)) = Error /\ ~Matched
              \/ /\ Rebuilt(Chunk(r)) \in Seq(Int) /\ Len(Rebuilt(Chunk(r))) <= Entries[Chunk(r)].size
                 /\ [key |-> ChunkKey(Chunk(r)), data |-> Rebuilt(Chunk(r))] \in Stored
           /\ Matched \/ Entries[Chunk(r)].route = "fractal" => Rebuilt(Chunk(r)) = Content[Chunk(r)]
           /\ [key |-> BlockKey(BlockOf[Chunk(r)]), data |-> Pool[BlockOf[Chunk(r)]]] \in Stored
<1>1. Wanted(rd[r]) /\ file.kind = "blocks" /\ rd[r].pc # "idle" /\ rd[r] \in Reading
  BY ReadFacts, StartedIs DEF Doing, Looping
<1>2. PICK i : i = Chunk(r)
  OBVIOUS
<1>3. i \in 1..Len(Entries)
  BY <1>1, <1>2, ChunkOf
<1>4. i \in DOMAIN Entries
  BY <1>3, EntriesAre
<1>5. BlockOf[i] \in 1..Len(FrameSizes)
  BY <1>3, RebuildIs
<1>6. [key |-> BlockKey(BlockOf[i]), data |-> Pool[BlockOf[i]]] \in Stored
  BY <1>4, Zenon DEF Stored
<1>7. file \in Files
  BY DEF RInv, ReaderShape
<1>8. Matched \/ Entries[i].route = "fractal" => OwnWord(i)
  BY <1>1, <1>4 DEF Matched, OwnWord
<1>9. Rebuilt(i) \in Seq(Int) => [key |-> ChunkKey(i), data |-> Rebuilt(i)] \in Stored
  BY <1>4, Zenon DEF Stored
<1>10. /\ \/ Rebuilt(i) = Error /\ ~Matched
          \/ /\ Rebuilt(i) \in Seq(Int) /\ Len(Rebuilt(i)) <= Entries[i].size
             /\ [key |-> ChunkKey(i), data |-> Rebuilt(i)] \in Stored
       /\ Matched \/ Entries[i].route = "fractal" => Rebuilt(i) = Content[i]
  BY <1>3, <1>7, <1>8, <1>9, RebuiltIs, Zenon
<1>. QED
  BY <1>1, <1>2, <1>3, <1>5, <1>6, <1>10

\* A read in the loop goes to its next place in it.
LEMMA LoopsOn ==
    ASSUME RInv, NEW r \in Readers, Wanted(rd[r]), file.kind = "blocks", rd[r].pc # "idle",
           NEW pc \in Looping \ {"put"}, Goto(r, pc), answer' = answer
    PROVE  Advances(r)
<1>1. PICK x : x = [rd[r] EXCEPT !.pc = pc]
  OBVIOUS
<1>2. x.pc = pc /\ x.off = rd[r].off /\ x.len = rd[r].len /\ x.out = rd[r].out
  BY <1>1, ReadFacts DEF Reading
<1>3. Wanted(x)
  BY <1>2 DEF Wanted
<1>4. Doing(x, call'[r])
  BY <1>2, <1>3 DEF Doing, Looping
<1>5. pc \in ReadPcs \ {"idle"}
  BY DEF ReadPcs, Looping
<1>. QED
  BY <1>1, <1>4, <1>5, GoesOn, Zenon

\* The residuals of a block give the chunk, or what another brain makes of it.
LEMMA UsesPool ==
    ASSUME RInv, NEW r \in Readers, rd[r].pc \in Looping,
           UsePool(r, Pool[BlockOf[Chunk(r)]])
    PROVE  Advances(r)
<1>1. PICK i : i = Chunk(r)
  OBVIOUS
<1>2. /\ Wanted(rd[r]) /\ file.kind = "blocks" /\ rd[r].pc # "idle"
      /\ i \in 1..Len(Entries)
      /\ (Rebuilt(i) = Error /\ ~Matched) \/ Rebuilt(i) \in Seq(Int)
  BY <1>1, InLoop
<1>3. Rebuild(i, Pool[BlockOf[i]]) = Rebuilt(i)
  BY <1>2, RebuildIs
<1>4. CASE Rebuilt(i) = Error
  <2>1. Answer(r, Error)
    BY <1>1, <1>3, <1>4 DEF UsePool
  <2>2. Right(rd[r].off, rd[r].len, Error)
    BY <1>2, <1>4, NotCells DEF Right
  <2>. QED
    BY <1>2, <2>1, <2>2, Answers
<1>5. CASE Rebuilt(i) # Error
  <2>1. rd' = [rd EXCEPT ![r].pc = "put", ![r].got = Rebuilt(i)] /\ answer' = answer
    BY <1>1, <1>3, <1>5 DEF UsePool
  <2>2. Rebuilt(i) \in Seq(Int)
    BY <1>2, <1>5
  <2>. QED
    BY <1>1, <1>2, <2>1, <2>2, HasChunk
<1>. QED
  BY <1>4, <1>5

\* The chunk comes from the cache, from the generator, or from its block.
LEMMA GetChunkStep ==
    ASSUME IInv, NEW r \in Readers, GetChunk(r)
    PROVE  Serves(r) /\ CInv'
<1>1. /\ rd[r].pc = "chunk" \/ (rd[r].pc = "start" /\ rd[r].off < OriginalSize)
      /\ file.kind = "blocks" /\ NoFileRead /\ call' = call
      /\ UNCHANGED <<size, pages, flight, ahead, crashed, faults, watch, file, mounted>>
      /\ UNCHANGED <<answer, mu, total, plain, reads>>
  BY DEF GetChunk, Still, NoFileRead
<1>2. PICK i : i = Chunk(r)
  OBVIOUS
<1>3. RInv /\ cache \in Seq(Stored) /\ CacheAccounts /\ total \in Nat
  BY DEF IInv, RInv, ReaderShape
<1>4. Wanted(rd[r]) /\ rd[r].pc # "idle" /\ i \in 1..Len(Entries)
  BY <1>1, <1>2, <1>3, InLoop DEF Looping
<1>5. \/ /\ Held(ChunkKey(i))
         /\ rd' = [rd EXCEPT ![r].pc = "put", ![r].got = Item(ChunkKey(i)).data]
         /\ cache' = GetFront(ChunkKey(i))
      \/ /\ Entries[i].route = "fractal"
         /\ rd' = [rd EXCEPT ![r].pc = "put", ![r].got = Content[i]]
         /\ cache' = cache
      \/ Goto(r, "block") /\ cache' = cache
  BY <1>2, Zenon DEF GetChunk
<1>9. Entries[i].route = "fractal" => Rebuilt(i) = Content[i] /\ Content[i] \in Seq(Int)
  <2>1. Content[i] \in Seq(Nat)
    BY <1>4, ContentIs
  <2>2. Entries[i].route = "fractal" => Rebuilt(i) = Content[i]
    BY <1>1, <1>2, <1>3, InLoop DEF Looping
  <2>. QED
    BY <2>1, <2>2
<1>6. CInv'
  BY <1>1, NoFileReadKeeps DEF IInv
<1>7. mu' \in Readers \cup {None} /\ plain' \in BOOLEAN
  BY <1>1 DEF IInv, RInv, ReaderShape
<1>8. Advances(r) /\ cache' \in Seq(Stored) /\ CacheAccounts' /\ total' \in Nat
  <2>1. CASE /\ Held(ChunkKey(i))
             /\ rd' = [rd EXCEPT ![r].pc = "put", ![r].got = Item(ChunkKey(i)).data]
             /\ cache' = GetFront(ChunkKey(i))
    <3>1. PICK k : k = ChunkKey(i)
      OBVIOUS
    <3>2. Held(k) /\ cache' = GetFront(k) /\ total' = total
      BY <1>1, <2>1, <3>1
    <3>3. cache' \in Seq(Stored) /\ CacheAccounts' /\ Item(k) \in Stored /\ Item(k).key = k
      BY <1>3, <3>2, GetKeeps
    <3>4. Item(k).data = Rebuilt(i) /\ Rebuilt(i) \in Seq(Int)
      BY <1>4, <3>1, <3>3, StoredAre
    <3>5. rd' = [rd EXCEPT ![r].pc = "put", ![r].got = Rebuilt(Chunk(r))]
      BY <1>2, <2>1, <3>1, <3>4
    <3>6. Advances(r)
      BY <1>1, <1>2, <1>3, <1>4, <3>4, <3>5, HasChunk
    <3>. QED
      BY <1>3, <3>2, <3>3, <3>6
  <2>2. CASE /\ Entries[i].route = "fractal"
             /\ rd' = [rd EXCEPT ![r].pc = "put", ![r].got = Content[i]]
             /\ cache' = cache
    <3>1. Advances(r)
      BY <1>1, <1>2, <1>3, <1>4, <1>9, <2>2, HasChunk
    <3>. QED
      BY <1>1, <2>2, <3>1, CacheStays
  <2>3. CASE Goto(r, "block") /\ cache' = cache
    <3>1. "block" \in Looping \ {"put"} /\ answer' = answer
      BY <1>1 DEF Looping
    <3>2. Advances(r)
      BY <1>1, <1>3, <1>4, <2>3, <3>1, LoopsOn
    <3>. QED
      BY <1>1, <2>3, <3>2, CacheStays
  <2>. QED
    BY <1>5, <2>1, <2>2, <2>3
<1>. QED
  BY <1>1, <1>6, <1>7, <1>8 DEF Serves

\* The block of the wanted chunk is in the cache.
LEMMA BlockHeld ==
    ASSUME IInv, NEW r \in Readers, rd[r].pc \in Looping, NEW k, k = BlockKey(BlockOf[Chunk(r)]),
           Held(k), UsePool(r, Item(k).data), cache' = GetFront(k), total' = total
    PROVE  Advances(r) /\ cache' \in Seq(Stored) /\ CacheAccounts' /\ total' \in Nat
<1>1. RInv /\ cache \in Seq(Stored) /\ CacheAccounts /\ total \in Nat
  BY DEF IInv, RInv, ReaderShape
<1>2. cache' \in Seq(Stored) /\ CacheAccounts' /\ Item(k) \in Stored /\ Item(k).key = k
  BY <1>1, GetKeeps
<1>3. Chunk(r) \in 1..Len(Entries)
  BY <1>1, InLoop
<1>4. Item(k).data = Pool[BlockOf[Chunk(r)]]
  BY <1>2, <1>3, StoredAre
<1>5. UsePool(r, Pool[BlockOf[Chunk(r)]])
  BY <1>4
<1>6. Advances(r)
  BY <1>1, <1>5, UsesPool
<1>. QED
  BY <1>1, <1>2, <1>6

\* The block is in the cache, or the lock is needed.
LEMMA GetBlockStep ==
    ASSUME IInv, NEW r \in Readers, GetBlock(r)
    PROVE  Serves(r) /\ CInv'
<1>1. /\ rd[r].pc = "block" /\ NoFileRead /\ call' = call
      /\ UNCHANGED <<size, pages, flight, ahead, crashed, faults, watch, file, mounted>>
      /\ UNCHANGED <<mu, total, plain, reads>>
  BY DEF GetBlock, Still, NoFileRead
<1>2. PICK k : k = BlockKey(BlockOf[Chunk(r)])
  OBVIOUS
<1>3. \/ Held(k) /\ UsePool(r, Item(k).data) /\ cache' = GetFront(k)
      \/ Goto(r, "lock") /\ answer' = answer /\ cache' = cache
  BY <1>2 DEF GetBlock
<1>4. rd[r].pc \in Looping /\ RInv
  BY <1>1 DEF Looping, IInv
<1>5. CInv'
  BY <1>1, NoFileReadKeeps DEF IInv
<1>6. mu' \in Readers \cup {None} /\ plain' \in BOOLEAN
  BY <1>1 DEF IInv, RInv, ReaderShape
<1>7. Advances(r) /\ cache' \in Seq(Stored) /\ CacheAccounts' /\ total' \in Nat
  <2>1. CASE Held(k) /\ UsePool(r, Item(k).data) /\ cache' = GetFront(k)
    BY <1>1, <1>2, <1>4, <2>1, BlockHeld
  <2>2. CASE Goto(r, "lock") /\ answer' = answer /\ cache' = cache
    <3>1. "lock" \in Looping \ {"put"}
      BY DEF Looping
    <3>2. Wanted(rd[r]) /\ file.kind = "blocks" /\ rd[r].pc # "idle"
      BY <1>4, InLoop
    <3>3. Advances(r)
      BY <1>4, <2>2, <3>1, <3>2, LoopsOn
    <3>. QED
      BY <1>1, <2>2, <3>3, CacheStays
  <2>. QED
    BY <1>3, <2>1, <2>2
<1>. QED
  BY <1>1, <1>5, <1>6, <1>7 DEF Serves

\* The block came in meanwhile, or its frame is read.
LEMMA LockStep ==
    ASSUME IInv, NEW r \in Readers, Lock(r)
    PROVE  Serves(r) /\ CInv'
<1>1. /\ rd[r].pc = "lock"
      /\ UNCHANGED <<size, pages, flight, ahead, crashed, faults, watch, file, mounted>>
      /\ UNCHANGED <<total, plain, reads>>
  BY DEF Lock, Still
<1>2. PICK b : b = BlockOf[Chunk(r)]
  OBVIOUS
<1>3. \/ /\ Held(BlockKey(b)) /\ UsePool(r, Item(BlockKey(b)).data)
         /\ cache' = GetFront(BlockKey(b)) /\ NoFileRead /\ mu' = mu
      \/ /\ Goto(r, "frame") /\ mu' = r /\ StartFileRead(r, FrameOffset[b], FrameSizes[b])
         /\ UNCHANGED <<answer, cache>>
  BY <1>2, Zenon DEF Lock
<1>4. rd[r].pc \in Looping /\ RInv /\ CInv
  BY <1>1 DEF Looping, IInv
<1>5. plain' \in BOOLEAN
  BY <1>1 DEF IInv, RInv, ReaderShape
<1>6. CASE /\ Held(BlockKey(b)) /\ UsePool(r, Item(BlockKey(b)).data)
           /\ cache' = GetFront(BlockKey(b)) /\ NoFileRead /\ mu' = mu
  <2>1. PICK k : k = BlockKey(b)
    OBVIOUS
  <2>2. Advances(r) /\ cache' \in Seq(Stored) /\ CacheAccounts' /\ total' \in Nat
    BY <1>1, <1>2, <1>4, <1>6, <2>1, BlockHeld
  <2>3. CInv' /\ call' = call /\ mu' \in Readers \cup {None}
    BY <1>1, <1>4, <1>6, NoFileReadKeeps DEF NoFileRead, RInv, ReaderShape
  <2>. QED
    BY <1>1, <1>5, <2>2, <2>3 DEF Serves
<1>7. CASE /\ Goto(r, "frame") /\ mu' = r /\ StartFileRead(r, FrameOffset[b], FrameSizes[b])
           /\ UNCHANGED <<answer, cache>>
  <2>1. Wanted(rd[r]) /\ file.kind = "blocks" /\ rd[r].pc # "idle" /\ b \in 1..Len(FrameSizes)
    BY <1>2, <1>4, InLoop
  <2>2. PICK off, n : off = FrameOffset[b] /\ n = FrameSizes[b]
    OBVIOUS
  <2>3. off \in Nat /\ n \in Nat /\ off + n <= size
    <3>1. Len(FrameSizes) \in Nat
      BY LayoutAssumption
    <3>2. file.tail \in Nat /\ size = ContainerSize(file)
      BY <1>4, LayoutAssumption DEF RInv, ReaderShape
    <3>3. PICK last : last = FrameOffset[Len(FrameSizes) + 1]
      OBVIOUS
    <3>4. off \in Nat /\ n \in Nat /\ off + n <= last /\ last \in Nat
      BY <2>1, <2>2, <3>1, <3>3, FramesLie
    <3>5. size = file.tail + last
      BY <2>1, <3>2, <3>3 DEF ContainerSize
    <3>. QED
      BY ONLY <3>2, <3>4, <3>5
  <2>4. CInv' /\ \A q \in Readers \ {r} : call'[q] = call[q]
    BY <1>1, <1>4, <1>7, <2>2, <2>3, FileReadStarts
  <2>5. "frame" \in Looping \ {"put"}
    BY DEF Looping
  <2>6. Advances(r)
    BY <1>4, <1>7, <2>1, <2>5, LoopsOn
  <2>7. cache' \in Seq(Stored) /\ CacheAccounts' /\ total' \in Nat
    BY <1>1, <1>7, CacheStays
  <2>. QED
    BY <1>1, <1>5, <1>7, <2>4, <2>6, <2>7 DEF Serves
<1>. QED
  BY <1>3, <1>6, <1>7

\* A frame that was read exactly is stored; another one, or one that needs another
\* dictionary, is an error.
LEMMA FrameReadStep ==
    ASSUME IInv, NEW r \in Readers, FrameRead(r)
    PROVE  Serves(r) /\ CInv'
<1>1. /\ rd[r].pc = "frame" /\ call[r].pc = "ret" /\ mu' = None /\ Returned(r) /\ load' = load
      /\ UNCHANGED <<size, pages, flight, ahead, crashed, faults, watch, file, mounted>>
      /\ UNCHANGED <<plain, reads>>
  BY DEF FrameRead, Still
<1>2. PICK b : b = BlockOf[Chunk(r)]
  OBVIOUS
<1>3. \/ Put(BlockKey(b), Pool[b]) /\ UsePool(r, Pool[b])
      \/ (~Exact(r) \/ ~file.dict) /\ Answer(r, Error) /\ UNCHANGED <<cache, total>>
  BY <1>2, Zenon DEF FrameRead
<1>4. rd[r].pc \in Looping /\ RInv /\ cache \in Seq(Stored) /\ CacheAccounts
  BY <1>1 DEF Looping, IInv, RInv
<1>5. plain' \in BOOLEAN
  BY <1>1 DEF IInv, RInv, ReaderShape
<1>6. CInv' /\ \A q \in Readers \ {r} : call'[q] = call[q]
  BY <1>1, FileReadEnds DEF IInv
<1>7. Advances(r) /\ cache' \in Seq(Stored) /\ CacheAccounts' /\ total' \in Nat
  <2>1. CASE Put(BlockKey(b), Pool[b]) /\ UsePool(r, Pool[b])
    <3>1. PICK x : x = [key |-> BlockKey(b), data |-> Pool[b]]
      OBVIOUS
    <3>2. x \in Stored
      BY <1>2, <1>4, <3>1, InLoop
    <3>3. Put(x.key, x.data)
      BY <2>1, <3>1
    <3>4. cache' \in Seq(Stored) /\ CacheAccounts' /\ total' \in Nat
      BY <1>4, <3>2, <3>3, PutKeeps
    <3>5. Advances(r)
      BY <1>2, <1>4, <2>1, UsesPool
    <3>. QED
      BY <3>4, <3>5
  <2>2. CASE (~Exact(r) \/ ~file.dict) /\ Answer(r, Error) /\ UNCHANGED <<cache, total>>
    <3>0. ~file.dict => ~Matched
      BY <1>4, InLoop DEF Matched
    <3>1. Broken \/ ~Matched
      BY <1>1, <2>2, <3>0 DEF IInv, CInv, Calls, Exact
    <3>2. Right(rd[r].off, rd[r].len, Error) /\ rd[r].pc # "idle"
      BY <1>1, <3>1 DEF Right, Faulty, Broken
    <3>3. Advances(r)
      BY <1>4, <2>2, <3>2, Answers
    <3>. QED
      BY <2>2, <3>3, CacheStays
  <2>. QED
    BY <1>3, <2>1, <2>2
<1>. QED
  BY <1>1, <1>5, <1>6, <1>7 DEF Serves

\* A read x with n more cells has out; only another brain has none to give.
Continues(x, n, out) ==
    /\ n > 0 => /\ out \in Seq(Int) /\ Len(out) \in Nat /\ Len(out) <= x.len
                /\ Matched => out = Cells(x.off, Len(out))
    /\ n > 0 \/ (n <= 0 /\ ~Matched)

\* What is cut out of a chunk continues what was read.
LEMMA CutsChunk ==
    ASSUME RInv, NEW r \in Readers, rd[r].pc = "put", NEW i, i = Chunk(r),
           NEW from, from = rd[r].off + Len(rd[r].out) - Upto[i - 1],
           NEW n, n = Lower(rd[r].len - Len(rd[r].out), Len(rd[r].got) - from),
           NEW out, out = rd[r].out \o SubSeq(rd[r].got, from + 1, from + n)
    PROVE  Continues(rd[r], n, out)
<1> DEFINE off == rd[r].off
           len == rd[r].len
           had == rd[r].out
           got == rd[r].got
           g == Len(had)
           l == Len(got)
           u == Upto[i - 1]
           s == Entries[i].size
           cut == SubSeq(got, from + 1, from + n)
<1>1. rd[r].pc \in Looping
  BY DEF Looping
<1>2. /\ Wanted(rd[r]) /\ file.kind = "blocks" /\ rd[r].pc # "idle" /\ rd[r] \in Reading
      /\ i \in 1..Len(Entries)
  BY <1>1, InLoop
<1>3. /\ off \in Nat /\ len \in Nat /\ g \in Nat /\ g < len /\ had \in Seq(Int)
      /\ Matched => had = Cells(off, g)
  BY <1>2, ReadFacts DEF Wanted
<1>4. /\ got \in Seq(Int) /\ l \in Nat /\ u \in Nat /\ s \in Nat
      /\ Matched => got = Cells(u, s) /\ l = s
  <2>1. got = Rebuilt(i) /\ got \in Seq(Int)
    BY ReadFacts DEF Doing, Chunk
  <2>2. Matched => got = Content[i]
    BY <1>1, <2>1, InLoop
  <2>3. l \in Nat
    BY ONLY <2>1, SMT
  <2>. QED
    BY <1>2, <2>1, <2>2, <2>3, ContentIs, EntriesAre
<1>5. u <= off + g /\ off + g < u + s
  BY <1>2, ChunkOf, ContentIs
<1>6. from = off + g - u /\ n = Lower(len - g, l - from) /\ out = had \o cut
  BY <1>4
<1> HIDE DEF off, len, had, got, g, l, u, s
<1>7. from \in Nat /\ from < s
  BY ONLY <1>3, <1>4, <1>5, <1>6
<1>8. n \in Int /\ n <= len - g /\ n <= l - from /\ (n = len - g \/ n = l - from)
  BY ONLY <1>3, <1>4, <1>6, <1>7 DEF Lower
<1>9. n > 0 \/ (n <= 0 /\ ~Matched)
  BY ONLY <1>3, <1>4, <1>7, <1>8
<1>10. ASSUME n > 0
       PROVE  /\ out \in Seq(Int) /\ Len(out) \in Nat /\ Len(out) <= len
              /\ Matched => out = Cells(off, Len(out))
  <2>1. n \in Nat /\ from + n <= l /\ g + n <= len /\ g + n \in Nat
    BY ONLY <1>3, <1>4, <1>7, <1>8, <1>10
  <2>2. cut \in Seq(Int) /\ Len(cut) = n
    BY ONLY <1>4, <1>7, <2>1 DEF cut, l
  <2> HIDE DEF cut
  <2>3. out \in Seq(Int)
    BY ONLY <1>3, <1>6, <2>2
  <2>4. Len(out) = g + n
    <3>1. Len(had \o cut) = Len(had) + Len(cut)
      BY <1>3, <2>2, ConcatIs, Zenon
    <3>. QED
      BY ONLY <1>6, <2>2, <3>1 DEF g
  <2>5. ASSUME Matched
        PROVE  out = Cells(off, g + n)
    <3>1. got = Cells(u, s) /\ l = s /\ had = Cells(off, g)
      BY <1>3, <1>4, <2>5
    <3>2. u \in Nat /\ s \in Nat /\ from \in Nat /\ n \in Nat /\ from + n <= s
      BY <1>4, <1>7, <2>1, <3>1
    <3>3. CutIsRun(u, s, from, n)
      BY ONLY <3>2, CellsCut, Zenon
    <3>4. cut = Cells(u + from, n)
      BY ONLY <3>1, <3>3 DEF CutIsRun, cut
    <3>5. u + from = off + g
      BY ONLY <1>3, <1>4, <1>6
    <3>6. Cells(off, g) \o Cells(off + g, n) = Cells(off, g + n)
      BY ONLY <1>3, <2>1, CellsJoin
    <3>. QED
      BY ONLY <1>6, <3>1, <3>4, <3>5, <3>6
  <2>. QED
    BY ONLY <2>1, <2>3, <2>4, <2>5
<1>. QED
  BY <1>9, <1>10 DEF Continues, off, len

\* The chunk is stored and its part copied.
LEMMA PutChunkStep ==
    ASSUME IInv, NEW r \in Readers, PutChunk(r)
    PROVE  Serves(r) /\ CInv'
<1>1. /\ rd[r].pc = "put" /\ NoFileRead /\ call' = call
      /\ UNCHANGED <<size, pages, flight, ahead, crashed, faults, watch, file, mounted>>
      /\ UNCHANGED <<mu, plain, reads>>
  BY DEF PutChunk, Still, NoFileRead
<1>2. PICK i : i = Chunk(r)
  OBVIOUS
<1>3. PICK from : from = rd[r].off + Len(rd[r].out) - Upto[i - 1]
  OBVIOUS
<1>4. PICK n : n = Lower(rd[r].len - Len(rd[r].out), Len(rd[r].got) - from)
  OBVIOUS
<1>5. PICK out : out = rd[r].out \o SubSeq(rd[r].got, from + 1, from + n)
  OBVIOUS
<1>6. /\ IF Entries[i].route = "literal" THEN UNCHANGED <<cache, total>>
         ELSE Put(ChunkKey(i), rd[r].got)
      /\ IF n <= 0 THEN Answer(r, Error)
         ELSE IF Len(out) = rd[r].len THEN Answer(r, out)
         ELSE /\ rd' = [rd EXCEPT ![r].pc = "chunk", ![r].out = out, ![r].got = << >>]
              /\ answer' = answer
  BY ONLY PutChunk(r), <1>2, <1>3, <1>4, <1>5 DEF PutChunk
<1>7. RInv /\ rd[r].pc \in Looping /\ cache \in Seq(Stored) /\ CacheAccounts
  BY <1>1 DEF Looping, IInv, RInv
<1>8. /\ n > 0 => /\ out \in Seq(Int) /\ Len(out) \in Nat /\ Len(out) <= rd[r].len
                  /\ Matched => out = Cells(rd[r].off, Len(out))
      /\ n > 0 \/ (n <= 0 /\ ~Matched)
  <2>1. Continues(rd[r], n, out)
    BY <1>1, <1>2, <1>3, <1>4, <1>5, <1>7, CutsChunk, Zenon
  <2>. QED
    BY ONLY <2>1 DEF Continues
<1>9. CInv'
  BY <1>1, NoFileReadKeeps DEF IInv
<1>10. mu' \in Readers \cup {None} /\ plain' \in BOOLEAN
  BY <1>1 DEF IInv, RInv, ReaderShape
<1>11. cache' \in Seq(Stored) /\ CacheAccounts' /\ total' \in Nat
  <2>1. CASE UNCHANGED <<cache, total>>
    BY <2>1, CacheStays
  <2>2. CASE Put(ChunkKey(i), rd[r].got)
    <3>1. PICK x : x = [key |-> ChunkKey(i), data |-> rd[r].got]
      OBVIOUS
    <3>2. rd[r].got = Rebuilt(i) /\ rd[r].got \in Seq(Int)
      BY <1>1, <1>2, <1>7, ReadFacts DEF Doing, Chunk
    <3>3. x \in Stored
      BY <1>2, <1>7, <3>1, <3>2, InLoop, NotCells
    <3>4. Put(x.key, x.data)
      BY <2>2, <3>1
    <3>. QED
      BY <1>7, <3>3, <3>4, PutKeeps
  <2>. QED
    BY <1>6, <2>1, <2>2
<1>12. Advances(r)
  <2>0. n \in Int /\ rd[r].pc # "idle"
    <3>1. rd[r].off \in Nat /\ rd[r].len \in Nat /\ Len(rd[r].out) \in Nat /\ Len(rd[r].got) \in Nat
      BY <1>7, ReadFacts
    <3>2. Upto[i - 1] \in Nat
      BY <1>2, <1>7, InLoop, ContentIs
    <3>. QED
      BY ONLY <1>1, <1>3, <1>4, <3>1, <3>2 DEF Lower
  <2>1. CASE n <= 0
    <3>1. Answer(r, Error)
      BY ONLY <1>6, <2>1
    <3>2. Right(rd[r].off, rd[r].len, Error)
      BY <1>8, <2>0, <2>1 DEF Right
    <3>. QED
      BY <1>7, <2>0, <3>1, <3>2, Answers
  <2>2. CASE ~(n <= 0) /\ Len(out) = rd[r].len
    <3>1. Answer(r, out)
      BY ONLY <1>6, <2>2
    <3>2. Right(rd[r].off, rd[r].len, out) /\ rd[r].pc # "idle"
      BY <1>1, <1>8, <2>2 DEF Right
    <3>. QED
      BY <1>7, <3>1, <3>2, Answers
  <2>3. CASE ~(n <= 0) /\ Len(out) # rd[r].len
    <3>1. /\ rd' = [rd EXCEPT ![r].pc = "chunk", ![r].out = out, ![r].got = << >>]
          /\ answer' = answer
      BY ONLY <1>6, <2>3
    <3>2. PICK x : x = [rd[r] EXCEPT !.pc = "chunk", !.out = out, !.got = << >>]
      OBVIOUS
    <3>3. rd \in [Readers -> Reading] /\ rd[r] \in Reading
      BY <1>7 DEF RInv, ReaderShape
    <3>4. "chunk" \in ReadPcs /\ << >> \in Seq(Int)
      BY DEF ReadPcs, Looping
    <3>5. /\ x \in Reading /\ x.pc = "chunk" /\ x.off = rd[r].off /\ x.len = rd[r].len
          /\ x.out = out
      BY ONLY <1>8, <2>3, <3>2, <3>3, <3>4 DEF Reading
    <3>6. rd' = [rd EXCEPT ![r] = x]
      BY <3>1, <3>2, <3>3 DEF Reading
    <3>7. Wanted(x)
      <4>1. Wanted(rd[r]) /\ rd[r].len \in Nat
        BY <1>7, InLoop, ReadFacts
      <4>2. Len(x.out) < x.len
        BY <1>8, <2>3, <3>5, <4>1
      <4>. QED
        BY <1>8, <2>3, <3>5, <4>1, <4>2 DEF Wanted
    <3>8. Doing(x, call'[r])
      BY <1>7, <3>5, <3>7, InLoop DEF Doing, Looping
    <3>9. x.pc # "idle" /\ rd[r].pc # "idle"
      BY <1>1, <3>5
    <3>. QED
      BY <3>1, <3>5, <3>6, <3>8, <3>9, Zenon DEF Advances
  <2>. QED
    BY <2>1, <2>2, <2>3
<1>. QED
  BY <1>1, <1>9, <1>10, <1>11, <1>12 DEF Serves

\* A step of a reader.
LEMMA ReadStepServes ==
    ASSUME IInv, NEW r \in Readers, ReadStep(r)
    PROVE  Serves(r) /\ CInv'
BY ReadPastEndStep, ReadPlainStep, PlainDoneStep, DecryptStep, DecryptDoneStep, GetChunkStep,
   GetBlockStep, LockStep, FrameReadStep, PutChunkStep DEF ReadStep
-----------------------------------------------------------------------------
(* The other steps. *)

\* A step that no read takes part in.
LEMMA ReaderRests ==
    ASSUME IInv, CInv', UNCHANGED <<reader, file, size>>,
           mounted' \in {"no", "yes", "gone"}, brain' \in BOOLEAN,
           watcher' \in {"select", "refused", "done"},
           \A q \in Readers : call'[q].off = call[q].off /\ call'[q].len = call[q].len
    PROVE  IInv'
<1>1. /\ rd' = rd /\ answer' = answer /\ mu' = mu /\ cache' = cache /\ total' = total
      /\ plain' = plain /\ reads' = reads /\ file' = file /\ size' = size
  BY DEF reader
<1>2. ReaderShape'
  BY <1>1 DEF IInv, RInv, ReaderShape, Reading
<1>3. Progress'
  <2> SUFFICES ASSUME NEW q \in Readers PROVE Doing(rd[q], call[q])'
    BY DEF Progress
  <2>1. Doing(rd[q], call[q])
    BY DEF IInv, RInv, Progress
  <2>. QED
    BY <1>1, <2>1, ZenonT(40) DEF Doing, Wanted, OriginalSize, Matched, Rebuilt, OwnWord, ShortSize
<1>4. cache' \in Seq(Stored') /\ CacheAccounts'
  BY <1>1, CacheStays, BrainStays
<1>. QED
  BY <1>2, <1>3, <1>4 DEF IInv, RInv

\* The remote file keeps what its callers asked for.
LEMMA CloudCalls ==
    ASSUME CInv, NEW p \in Procs, CloudStep(p), NEW q \in Readers
    PROVE  call'[q].off = call[q].off /\ call'[q].len = call[q].len
<1>1. call \in [Readers -> Call]
  BY DEF CInv, CloudShape
<1>2. CASE LoadStep(p)
  BY <1>2 DEF LoadStep, CacheGet, Join, Recheck, Close, Fetch, FetchTruncated, FetchWhole, FetchFails
<1>3. CASE p \in Prefetchers /\ StartPrefetch(p)
  BY <1>3 DEF StartPrefetch
<1>4. CASE p \in Readers /\ TakePage(p)
  <2>1. \/ \E buf : Finish(p, buf)
        \/ call' = [call EXCEPT ![p].pc = "ret", ![p].buf = None]
        \/ \E buf : call' = [call EXCEPT ![p].buf = buf]
        \/ call' = call
    <3>1. PICK c \in {call[p]}, n \in {load[p].page}, data \in {load[p].data} : Taken(p, c, n, data)
      BY <1>4, Zenon DEF TakePage, Taken, Joined
    <3>. QED
      BY <3>1, Zenon DEF Taken
  <2>2. ASSUME NEW buf, call' = [call EXCEPT ![p].pc = "ret", ![p].buf = buf]
        PROVE  call'[q].off = call[q].off /\ call'[q].len = call[q].len
    BY <1>1, <1>4, <2>2 DEF Call
  <2>3. ASSUME NEW buf, call' = [call EXCEPT ![p].buf = buf]
        PROVE  call'[q].off = call[q].off /\ call'[q].len = call[q].len
    BY <1>1, <1>4, <2>3 DEF Call
  <2>. QED
    BY <2>1, <2>2, <2>3, Zenon DEF Finish
<1>. QED
  BY <1>2, <1>3, <1>4 DEF CloudStep

\* A step of the remote file.
LEMMA CloudStepKeeps ==
    ASSUME IInv, NEW p \in Procs, CloudStep(p), UNCHANGED <<reader, watch, file, mounted>>
    PROVE  IInv'
<1>1. CInv' /\ \A q \in Readers : call'[q].off = call[q].off /\ call'[q].len = call[q].len
  BY CloudKeeps, CloudCalls DEF IInv
<1>2. size' = size
  BY DEF CloudStep, LoadStep, CacheGet, Join, Recheck, Close, Fetch, FetchTruncated, FetchWhole,
         FetchFails, TakePage, StartPrefetch
<1>3. /\ mounted' \in {"no", "yes", "gone"} /\ brain' \in BOOLEAN
      /\ watcher' \in {"select", "refused", "done"}
  BY DEF IInv, RInv, ReaderShape, watch
<1>. QED
  BY <1>1, <1>2, <1>3, ReaderRests

\* The disk answers, or it does not.
LEMMA DiskKeeps ==
    ASSUME IInv, NEW r \in Readers, DiskRead(r) \/ DiskFails(r)
    PROVE  IInv'
<1>1. call[r] \in Call /\ call \in [Readers -> Call] /\ CInv /\ faults \in Seq(FaultKinds)
  BY DEF IInv, CInv, CloudShape
<1>2. PICK buf : /\ call' = [call EXCEPT ![r].pc = "ret", ![r].buf = buf]
                 /\ \/ buf = Cells(call[r].off, call[r].len) /\ faults' = faults
                    \/ buf = None /\ faults' = Append(faults, "error")
  <2>1. CASE DiskRead(r)
    BY <2>1, Zenon DEF DiskRead
  <2>2. CASE DiskFails(r)
    BY <2>2, Zenon DEF DiskFails
  <2>. QED
    BY <2>1, <2>2
<1>3. /\ UNCHANGED <<size, pages, flight, ahead, crashed>> /\ load' = load
      /\ UNCHANGED <<reader, watch, file, mounted>>
  BY DEF DiskRead, DiskFails
<1>4. PICK c : c = [call[r] EXCEPT !.pc = "ret", !.buf = buf]
  OBVIOUS
<1>5. buf \in Seq(Nat) \cup {None}
  BY <1>1, <1>2, CellsAre DEF Call
<1>6. /\ c \in Call /\ c.pc = "ret" /\ c.off = call[r].off /\ c.len = call[r].len /\ c.buf = buf
      /\ call' = [call EXCEPT ![r] = c]
  BY <1>1, <1>2, <1>4, <1>5 DEF Call
<1>7. Moved
  BY <1>2, <1>3 DEF Moved, FaultKinds
<1>8. c.pc = "ret" => Broken' \/ c.buf = Cells(c.off, c.len)
  <2>1. CASE faults' = Append(faults, "error")
    <3>1. Len(faults) + 1 \in DOMAIN faults' /\ faults'[Len(faults) + 1] = "error"
      BY <1>1, <2>1
    <3>. QED
      BY <3>1 DEF Broken
  <2>. QED
    BY <1>2, <1>6, <2>1
<1>9. CInv'
  BY <1>1, <1>3, <1>6, <1>7, <1>8, CallMoves
<1>10. \A q \in Readers : call'[q].off = call[q].off /\ call'[q].len = call[q].len
  BY <1>1, <1>6
<1>11. /\ mounted' \in {"no", "yes", "gone"} /\ brain' \in BOOLEAN
       /\ watcher' \in {"select", "refused", "done"}
  BY <1>3 DEF IInv, RInv, ReaderShape, watch
<1>. QED
  BY <1>3, <1>9, <1>10, <1>11, ReaderRests

\* The metadata of a remote file come in with its first page.
LEMMA MountKeeps ==
    ASSUME IInv, Mount
    PROVE  IInv'
<1>1. /\ UNCHANGED <<size, flight, load, call, crashed, reader, watch, file>>
      /\ mounted' = "yes"
  BY DEF Mount
<1>2. CInv /\ size \in Nat \ {0} /\ faults \in Seq(FaultKinds)
  BY DEF IInv, CInv, CloudShape
<1>3. 0 \in PageNos
  <2>1. (size - 1) \div PageSize \in Nat
    BY <1>2, Sizes
  <2>. QED
    BY <2>1 DEF PageNos
<1>4. PageLen(0) \in Nat \ {0} /\ FullPage(0) = Cells(0, PageLen(0))
  <2>1. 0 * PageSize = 0
    BY Sizes
  <2>2. PageLen(0) \in Nat \ {0}
    BY ONLY <1>2, <1>3, PageIs
  <2>. QED
    BY ONLY <2>1, <2>2 DEF FullPage
<1>5. Moved
  <2>1. faults' = faults \/ faults' = Append(faults, "truncated")
    BY DEF Mount
  <2>. QED
    BY <1>1, <2>1 DEF Moved, FaultKinds
<1>6. pages' = pages \/ \E x \in GoodPage' : pages' = <<x>>
  <2>1. CASE pages' = <<[page |-> 0, data |-> Cells(0, PageLen(0))]>>
    <3>1. PICK x : x = [page |-> 0, data |-> Cells(0, PageLen(0))]
      OBVIOUS
    <3>2. Cells(0, PageLen(0)) \in Seq(Nat)
      BY <1>4, CellsAre
    <3>3. x \in Page /\ Good(x.page, x.data)
      BY <1>3, <1>4, <3>1, <3>2 DEF Page, Good
    <3>4. x \in GoodPage
      BY <3>3 DEF GoodPage
    <3>5. x \in GoodPage'
      BY <1>2, <1>5, <3>4, Moves
    <3>. QED
      BY <2>1, <3>1, <3>5
  <2>2. CASE /\ \E k \in {c \in Cuts : MetaSize <= c /\ c < PageLen(0)} :
                   pages' = <<[page |-> 0, data |-> Cells(0, k)]>>
             /\ faults' = Append(faults, "truncated")
    <3>1. PICK k \in Cuts : k < PageLen(0) /\ pages' = <<[page |-> 0, data |-> Cells(0, k)]>>
      BY <2>2
    <3>2. k \in Nat /\ k \in 0..(PageLen(0) - 1)
      <4>1. k \in Nat
        BY CloudAssumption
      <4>. QED
        BY <1>4, <3>1, <4>1
    <3>3. PICK x : x = [page |-> 0, data |-> Cells(0, k)]
      OBVIOUS
    <3>4. Cells(0, k) \in Seq(Nat)
      BY <3>2, CellsAre
    <3>5. x \in Page /\ x.page = 0 /\ x.data = Cells(0 * PageSize, k)
      <4>1. 0 * PageSize = 0
        BY Sizes
      <4>. QED
        BY <1>3, <3>3, <3>4, <4>1 DEF Page
    <3>6. Happened("truncated")'
      <4>1. Len(faults) + 1 \in DOMAIN faults' /\ faults'[Len(faults) + 1] = "truncated"
        BY <1>2, <2>2
      <4>. QED
        BY <4>1 DEF Happened
    <3>7. Page' = Page /\ PageLen(0)' = PageLen(0)
      BY <1>1 DEF Page, PageNos, PageLen
    <3>8. Good(x.page, x.data)'
      BY <3>2, <3>5, <3>6, <3>7 DEF Good
    <3>9. x \in GoodPage'
      BY <3>5, <3>7, <3>8 DEF GoodPage
    <3>. QED
      BY <3>1, <3>3, <3>9
  <2>. QED
    BY <2>1, <2>2, Zenon DEF Mount
<1>7. pages' \in Seq(GoodPage') /\ Len(pages') <= MaxPages
  <2>1. CASE pages' = pages
    BY <1>2, <1>5, <2>1, Moves DEF CInv, CloudShape
  <2>2. ASSUME NEW x \in GoodPage', pages' = <<x>>
        PROVE  pages' \in Seq(GoodPage') /\ Len(pages') <= MaxPages
    BY <2>2, Sizes
  <2>. QED
    BY <1>6, <2>1, <2>2
<1>8. ahead' \subseteq PageNos
  BY DEF Mount, IInv, CInv, CloudShape
<1>9. load' \in [Procs -> GoodLoad']
  BY <1>1, <1>2, <1>5, Moves DEF CInv, GoodPages
<1>10. CloudShape'
  BY <1>1, <1>2, <1>5, <1>7, <1>8, Moves DEF CInv, CloudShape, PageNos, Call
<1>11. Calls' /\ Pioneers'
  BY <1>1, <1>2, <1>5, Moves DEF CInv, Calls, Pioneers, Leads
<1>12. CInv'
  BY <1>1, <1>2, <1>5, <1>7, <1>9, <1>10, <1>11, Moves DEF CInv, GoodPages
<1>13. brain' \in BOOLEAN /\ watcher' \in {"select", "refused", "done"}
  BY <1>1 DEF IInv, RInv, ReaderShape, watch
<1>. QED
  BY <1>1, <1>12, <1>13, ReaderRests

\* The watcher and the brain it looks for have no part in the reads.
LEMMA WatchKeeps ==
    ASSUME IInv, RemoveBrain \/ OnSignal \/ OnStop \/ OnTick
    PROVE  IInv'
<1>1. /\ UNCHANGED <<size, pages, flight, load, call, ahead, crashed>>
      /\ UNCHANGED <<reader, file>>
  BY DEF RemoveBrain, OnSignal, OnStop, OnTick, Unmount
<1>2. Moved
  BY <1>1 DEF RemoveBrain, OnSignal, OnStop, OnTick, Moved, FaultKinds
<1>3. /\ mounted' \in {"no", "yes", "gone"} /\ brain' \in BOOLEAN
      /\ watcher' \in {"select", "refused", "done"}
  BY DEF RemoveBrain, OnSignal, OnStop, OnTick, Unmount, IInv, RInv, ReaderShape
<1>4. CInv
  BY DEF IInv
<1>5. CloudShape'
  BY <1>1, <1>2, <1>4, Moves DEF CInv, CloudShape, PageNos, Call
<1>6. Calls' /\ Pioneers'
  BY <1>1, <1>2, <1>4, Moves DEF CInv, Calls, Pioneers, Leads
<1>7. GoodPages'
  BY <1>1, <1>2, <1>4, Moves DEF CInv, GoodPages
<1>8. CInv'
  BY <1>1, <1>2, <1>4, <1>5, <1>6, <1>7, Moves DEF CInv
<1>. QED
  BY <1>1, <1>3, <1>8, ReaderRests

\* A read begins.
LEMMA ReadKeeps ==
    ASSUME IInv, NEW r \in Readers, NEW q \in Requests, Read(r, q)
    PROVE  IInv'
<1>1. /\ rd[r].pc = "idle" /\ reads < MaxReads /\ reads' = reads + 1
      /\ answer' = [answer EXCEPT ![r] = None] /\ NoFileRead /\ call' = call
      /\ UNCHANGED <<size, pages, flight, ahead, crashed, faults, watch, file, mounted>>
      /\ UNCHANGED <<mu, cache, total, plain>>
  BY DEF Read, Still, NoFileRead
<1>2. PICK x : x = [NoRead EXCEPT !.pc = "start", !.off = q.off, !.len = Clamped(q)]
  OBVIOUS
<1>3. rd' = [rd EXCEPT ![r] = x]
  BY <1>2 DEF Read
<1>4. q.off \in Nat /\ q.len \in Nat \ {0} /\ OriginalSize \in Nat /\ MaxReads \in Nat
  BY LayoutAssumption, OriginalIs
<1>5. /\ Clamped(q) \in Nat
      /\ q.off >= OriginalSize => Clamped(q) = 0
      /\ q.off < OriginalSize => 0 < Clamped(q) /\ q.off + Clamped(q) <= OriginalSize
  BY <1>4 DEF Clamped, Lower
<1>6. "start" \in ReadPcs /\ << >> \in Seq(Int)
  BY DEF ReadPcs
<1>7. /\ x \in Reading /\ x.pc = "start" /\ x.off = q.off /\ x.len = Clamped(q)
      /\ x.out = << >>
  BY ONLY <1>2, <1>4, <1>5, <1>6 DEF NoRead, Reading
<1>8. Wanted(x) \/ (x.off >= OriginalSize /\ x.len = 0)
  <2>1. CASE q.off >= OriginalSize
    BY <1>5, <1>7, <2>1
  <2>2. CASE q.off < OriginalSize
    <3>1. Len(x.out) = 0 /\ x.out = Cells(x.off, Len(x.out))
      BY <1>4, <1>7, NoCells
    <3>. QED
      BY <1>5, <1>7, <2>2, <3>1 DEF Wanted
  <2>. QED
    BY <1>4, <2>1, <2>2
<1>9. Doing(x, call[r])
  BY <1>7, <1>8 DEF Doing, Looping
<1>10. CInv'
  BY <1>1, NoFileReadKeeps DEF IInv
<1>11. Progress'
  <2> SUFFICES ASSUME NEW s \in Readers PROVE Doing(rd[s], call[s])'
    BY DEF Progress
  <2>1. rd'[s] = IF s = r THEN x ELSE rd[s]
    BY <1>3 DEF IInv, RInv, ReaderShape
  <2>2. Doing(rd'[s], call'[s])
    BY <1>1, <1>9, <2>1 DEF IInv, RInv, Progress
  <2>. QED
    BY <1>1, <2>2 DEF Doing, Wanted, OriginalSize, Matched, Rebuilt, OwnWord, ShortSize
<1>12. ReaderShape'
  <2>1. rd' \in [Readers -> Reading] /\ answer' \in [Readers -> Seq(Int) \cup {None, Error}]
    BY <1>1, <1>3, <1>7 DEF IInv, RInv, ReaderShape
  <2>2. reads' \in 0..MaxReads
    BY <1>1, <1>4 DEF IInv, RInv, ReaderShape
  <2>. QED
    BY <1>1, <2>1, <2>2 DEF IInv, RInv, ReaderShape, watch, Reading
<1>13. cache' \in Seq(Stored') /\ CacheAccounts'
  BY <1>1, CacheStays, BrainStays
<1>. QED
  BY <1>10, <1>11, <1>12, <1>13 DEF IInv, RInv

-----------------------------------------------------------------------------
(* The invariant. *)

\* The invariant holds at first.
LEMMA InitIs == Init => IInv
<1> SUFFICES ASSUME Init PROVE IInv
  OBVIOUS
<1>1. /\ file \in Files /\ mounted = "no" /\ size = ContainerSize(file)
      /\ pages = << >> /\ flight = [n \in PageNos |-> None]
      /\ load = [p \in Procs |-> Idle] /\ call = [r \in Readers |-> NoCall]
      /\ ahead = {} /\ crashed = FALSE /\ faults = << >>
      /\ rd = [r \in Readers |-> NoRead] /\ answer = [r \in Readers |-> None]
      /\ mu = None /\ cache = << >> /\ total = 0 /\ plain = FALSE
      /\ brain = TRUE /\ watcher = "select" /\ reads = 0
  BY DEF Init, CloudInit
<1>2. size \in Nat \ {0}
  <2>1. file.tail \in Nat /\ MetaSize \in Nat \ {0} /\ PlainSize \in Nat
    BY <1>1, LayoutAssumption
  <2>2. PICK last : last = FrameOffset[Len(FrameSizes) + 1]
    OBVIOUS
  <2>3. last \in Nat /\ last >= MetaSize
    <3>1. Len(FrameSizes) + 1 \in 1..(Len(FrameSizes) + 1)
      BY LayoutAssumption
    <3>. QED
      BY <2>2, <3>1, FramesLie
  <2>4. size = file.tail + last \/ size = file.tail + (MetaSize + PlainSize)
    BY <1>1, <2>2 DEF ContainerSize
  <2>. QED
    BY ONLY <2>1, <2>3, <2>4
<1>3. 0 \in PageNos
  <2>1. (size - 1) \div PageSize \in Nat
    BY <1>2, Sizes
  <2>. QED
    BY <2>1 DEF PageNos
<1>4. Idle \in GoodLoad /\ ~Leads(Idle)
  <2>1. << >> \in Seq(Nat)
    OBVIOUS
  <2>2. Idle \in Load
    BY <1>3, <2>1 DEF Idle, Load, LoadPcs
  <2>. QED
    BY <2>2 DEF Idle, GoodLoad, Sound, Leads
<1>5. NoCall \in Call /\ NoCall.pc = "idle"
  <2>1. << >> \in Seq(Nat)
    OBVIOUS
  <2>. QED
    BY <2>1 DEF NoCall, Call
<1>6. NoRead \in Reading /\ NoRead.pc = "idle" /\ NoRead.out = << >>
  <2>1. << >> \in Seq(Int) /\ "idle" \in ReadPcs
    BY DEF ReadPcs
  <2>. QED
    BY <2>1 DEF NoRead, Reading
<1>7. CloudShape
  <2>1. flight \in [PageNos -> Procs \cup {None}] /\ call \in [Readers -> Call] /\ ahead \subseteq PageNos
    BY ONLY <1>1, <1>5, Zenon
  <2>2. crashed \in BOOLEAN
    BY ONLY <1>1
  <2>3. Len(pages) <= MaxPages /\ faults \in Seq(FaultKinds)
    BY <1>1, Sizes
  <2>. QED
    BY ONLY <1>2, <2>1, <2>2, <2>3, Zenon DEF CloudShape
<1>8. Pioneers
  BY <1>1, <1>4 DEF Pioneers
<1>9. GoodPages
  BY <1>1, <1>4 DEF GoodPages
<1>10. Calls
  BY <1>1, <1>5 DEF Calls
<1>11. CrashNeedsTruncatedPage
  BY <1>1 DEF CrashNeedsTruncatedPage
<1>12. ReaderShape
  <2>1. MaxReads \in Nat
    BY LayoutAssumption
  <2>2. total \in Nat /\ reads \in 0..MaxReads
    BY <1>1, <2>1
  <2>3. rd \in [Readers -> Reading] /\ answer \in [Readers -> Seq(Int) \cup {None, Error}]
    BY ONLY <1>1, <1>6, Zenon
  <2>4. plain \in BOOLEAN /\ brain \in BOOLEAN
    BY ONLY <1>1
  <2>5. /\ mounted \in {"no", "yes", "gone"} /\ watcher \in {"select", "refused", "done"}
        /\ mu \in Readers \cup {None}
    BY <1>1
  <2>. QED
    BY ONLY <1>1, <2>2, <2>3, <2>4, <2>5, Zenon DEF ReaderShape
<1>13. Progress
  <2> SUFFICES ASSUME NEW r \in Readers PROVE Doing(rd[r], call[r])
    BY DEF Progress
  <2>1. rd[r] = NoRead
    BY <1>1
  <2>. QED
    BY <1>6, <2>1 DEF Doing, Looping
<1>14. CacheAccounts
  <2>1. cache \in Seq(Stored) /\ Len(cache) = 0
    BY <1>1
  <2>2. Sized(cache)
    BY <2>1 DEF Sized
  <2>3. Bytes(cache) = 0
    <3>1. PICK f \in [0..Len(cache) -> Nat] : Sums(f, Len(cache), Weights(cache))
      BY <2>2, BytesIs
    <3>2. Bytes(cache) = f[Len(cache)]
      BY <2>2, <3>1, BytesIs
    <3>. QED
      BY <2>1, <3>1, <3>2 DEF Sums
  <2>4. MaxBytes \in Nat
    BY LayoutAssumption
  <2>. QED
    BY <1>1, <2>1, <2>3, <2>4 DEF CacheAccounts
<1>. QED
  BY <1>1, <1>7, <1>8, <1>9, <1>10, <1>11, <1>12, <1>13, <1>14 DEF IInv, CInv, RInv

\* Every step keeps the invariant.
LEMMA NextKeeps == IInv /\ [Next]_vars => IInv'
<1> SUFFICES ASSUME IInv, [Next]_vars PROVE IInv'
  OBVIOUS
<1>1. CASE Mount
  BY <1>1, MountKeeps
<1>2. CASE RemoveBrain \/ OnSignal \/ OnStop \/ OnTick
  BY <1>2, WatchKeeps
<1>3. ASSUME NEW r \in Readers, NEW q \in Requests, Read(r, q) PROVE IInv'
  BY <1>3, ReadKeeps
<1>4. ASSUME NEW p \in Procs, Goroutine(p) PROVE IInv'
  <2>1. CASE p \in Readers /\ ReadStep(p)
    BY <2>1, ReadStepServes, ServedKeeps
  <2>2. CASE p \in Readers /\ (DiskRead(p) \/ DiskFails(p))
    BY <2>2, DiskKeeps
  <2>3. CASE CloudStep(p) /\ UNCHANGED <<reader, watch, file, mounted>>
    BY <2>3, CloudStepKeeps
  <2>. QED
    BY <1>4, <2>1, <2>2, <2>3 DEF Goroutine
<1>5. CASE UNCHANGED vars
  <2>1. /\ UNCHANGED <<size, pages, flight, load, call, ahead, crashed, faults>>
        /\ UNCHANGED <<reader, watch, file, mounted>>
    BY <1>5 DEF vars, cloud
  <2>2. CInv'
    BY <2>1, NoFileReadKeeps DEF IInv, NoFileRead
  <2>3. /\ mounted' \in {"no", "yes", "gone"} /\ brain' \in BOOLEAN
        /\ watcher' \in {"select", "refused", "done"}
    BY <2>1 DEF IInv, RInv, ReaderShape, watch
  <2>. QED
    BY <2>1, <2>2, <2>3, ReaderRests
<1>. QED
  BY <1>1, <1>2, <1>3, <1>4, <1>5 DEF Next

\* The invariant of every behaviour.
LEMMA Inductive == Spec => []IInv
BY InitIs, NextKeeps, PTL DEF Spec

\* The types: TypeOK is part of the invariant.
THEOREM TypeCorrect == Spec => []TypeOK
<1>1. IInv => TypeOK
  <2> SUFFICES ASSUME IInv PROVE TypeOK
    OBVIOUS
  <2>1. CloudTypeOK
    <3>1. pages \in Seq(GoodPage) /\ load \in [Procs -> GoodLoad] /\ call \in [Readers -> Call]
      BY DEF IInv, CInv, GoodPages, CloudShape
    <3>2. \A i \in DOMAIN pages : pages[i] \in GoodPage
      BY <3>1
    <3>3. \A i \in DOMAIN pages : pages[i].page \in PageNos /\ pages[i].data \in Seq(Nat)
      BY <3>2 DEF GoodPage, Page
    <3>4. \A p \in Procs : load[p].pc \in LoadPcs
      BY <3>1 DEF GoodLoad, Load
    <3>5. \A r \in Readers : call[r].pc \in {"idle", "page", "disk", "ret"}
      BY <3>1 DEF Call
    <3>. QED
      BY <3>3, <3>4, <3>5 DEF CloudTypeOK, IInv, CInv, CloudShape, LoadPcs
  <2>2. \A r \in Readers : rd[r].out \in Seq(Int) /\ Len(rd[r].out) <= rd[r].len
    <3> SUFFICES ASSUME NEW r \in Readers
                 PROVE  rd[r].out \in Seq(Int) /\ Len(rd[r].out) <= rd[r].len
      OBVIOUS
    <3>1. /\ rd[r] \in Reading /\ Doing(rd[r], call[r]) /\ rd[r].len \in Nat
          /\ rd[r].out \in Seq(Int) /\ Len(rd[r].out) \in Nat
      BY ReadFacts DEF IInv
    <3>2. rd[r].pc \in {"idle", "start", "plain", "sealed"} \/ rd[r].pc \in Looping
      BY <3>1 DEF Reading, ReadPcs
    <3>3. CASE rd[r].out = << >>
      <4>1. Len(rd[r].out) = 0
        BY <3>3
      <4>. QED
        BY <3>1, <4>1
    <3>4. CASE Wanted(rd[r])
      BY <3>1, <3>4 DEF Wanted
    <3>. QED
      BY <3>1, <3>2, <3>3, <3>4 DEF Doing
  <2>. QED
    BY <2>1, <2>2 DEF TypeOK, IInv, RInv, ReaderShape
<1>. QED
  BY <1>1, Inductive, PTL

\* MemoryCache: whatever concurrent reads put and get, totalBytes is what is held, it
\* stays within the limit and no key is held twice.
THEOREM CacheExact == Spec => []CacheAccounts
<1>1. IInv => CacheAccounts
  BY DEF IInv, RInv
<1>. QED
  BY <1>1, Inductive, PTL

\* loadPage: of the goroutines that download one page, only one came first.
THEOREM OneFlight == Spec => []SingleFlight
<1>1. IInv => SingleFlight
  <2> SUFFICES ASSUME IInv, NEW p \in Procs, NEW q \in Procs, p # q,
                      load[p].pc = "fetch", load[q].pc = "fetch", load[p].page = load[q].page,
                      load[p].pioneer, load[q].pioneer
               PROVE  FALSE
    BY DEF SingleFlight
  <2>1. flight[load[p].page] = p /\ flight[load[q].page] = q
    BY DEF IInv, CInv, Pioneers, Leads
  <2>. QED
    BY <2>1
<1>. QED
  BY <1>1, Inductive, PTL

\* ReadAt of the remote file: the process only ends on a page that was broken off.
THEOREM CrashSound == Spec => []CrashNeedsTruncatedPage
<1>1. IInv => CrashNeedsTruncatedPage
  BY DEF IInv, CInv
<1>. QED
  BY <1>1, Inductive, PTL
-----------------------------------------------------------------------------
(* The promise of FileReads. *)

\* The answers that reads get are the ones the promise allows.
LEMMA RightIsAllowed ==
    ASSUME NEW off \in Nat, NEW n \in Nat, NEW a, Right(off, n, a)
    PROVE  Result(off, n, a) \in Promise!Allowed
<1>1. CASE a = Cells(off, n)
  <2>1. a \in Seq(Nat) /\ Len(a) = n
    BY <1>1, CellsAre
  <2>2. a # None /\ a # Error /\ a = Cells(off, n) /\ ~(Len(a) < n)
    BY <1>1, <2>1, NotCells
  <2>3. Result(off, n, a) = "exact"
    BY ONLY <2>2 DEF Result
  <2>. QED
    BY <2>3 DEF Promise!Allowed
<1>2. CASE (Faulty \/ ~Matched) /\ a = Error
  <2>1. Result(off, n, a) = "error"
    BY <1>2, NotCells DEF Result
  <2>. QED
    BY <1>2, <2>1 DEF Promise!Allowed
<1>3. CASE Faulty /\ file.kind = "plain" /\ a \in Seq(Int)
  <2>1. a # None /\ a # Error
    BY <1>3, NotCells
  <2>2. Result(off, n, a) \in {"wrong", "short", "exact"}
    BY ONLY <2>1 DEF Result
  <2>3. ~Verified
    BY <1>3 DEF Verified
  <2>. QED
    BY <1>3, <2>2, <2>3 DEF Promise!Allowed
<1>4. CASE ~Matched /\ a \in Seq(Int) /\ Len(a) = n
  <2>1. a # None /\ a # Error /\ ~(Len(a) < n)
    BY <1>4, NotCells
  <2>2. Result(off, n, a) \in {"wrong", "exact"}
    BY ONLY <2>1 DEF Result
  <2>. QED
    BY <1>4, <2>2 DEF Promise!Allowed
<1>. QED
  BY <1>1, <1>2, <1>3, <1>4 DEF Right

\* What failed has failed for good.
LEMMA FaultyStays ==
    ASSUME IInv, Moved, file' = file
    PROVE  (Faulty => Faulty') /\ Verified' = Verified /\ Matched' = Matched
<1>1. Broken => Broken'
  BY Moves DEF IInv
<1>. QED
  BY <1>1, BrainStays DEF Faulty, Broken, Verified

\* A step that no read takes part in stutters, or something fails in it.
LEMMA SilentStep ==
    ASSUME IInv, ~crashed, crashed' = crashed, Moved, file' = file, rd' = rd, answer' = answer
    PROVE  Promise!Next \/ UNCHANGED Promise!abstract
<1>1. Pending' = Pending /\ Outcome' = Outcome
  BY DEF Pending, Outcome, Result
<1>2. (Faulty => Faulty') /\ Verified' = Verified /\ Matched' = Matched
  BY FaultyStays
<1>3. Faulty \in BOOLEAN /\ Faulty' \in BOOLEAN
  BY DEF Faulty
<1>4. CASE Faulty' = Faulty
  BY <1>1, <1>2, <1>4 DEF Promise!abstract
<1>5. CASE Faulty' # Faulty
  <2>1. Faulty' = TRUE
    BY <1>2, <1>3, <1>5, Zenon
  <2>2. Promise!Fail
    BY <1>1, <1>2, <2>1 DEF Promise!Fail
  <2>. QED
    BY <2>2 DEF Promise!Next
<1>. QED
  BY <1>4, <1>5

\* The process ends only after something has failed.
LEMMA CrashStep ==
    ASSUME IInv, IInv', ~crashed, crashed', faults' = faults, file' = file, rd' = rd, answer' = answer
    PROVE  Promise!Next
<1>1. /\ Pending' = Pending /\ Outcome' = Outcome
      /\ Verified' = Verified /\ Matched' = Matched /\ Faulty' = Faulty
  BY BrainStays DEF Pending, Outcome, Result, Verified, Faulty
<1>2. Faulty
  <2>1. \E i \in DOMAIN faults' : faults'[i] = "truncated"
    BY DEF IInv, CInv, CrashNeedsTruncatedPage
  <2>. QED
    BY <2>1 DEF Faulty
<1>3. Promise!Stop
  BY <1>1, <1>2 DEF Promise!Stop
<1>. QED
  BY <1>3 DEF Promise!Next

\* A read is asked.
LEMMA AskStep ==
    ASSUME IInv, NEW r \in Readers, NEW q \in Requests, ~crashed, Read(r, q)
    PROVE  Promise!Next
<1>1. /\ rd[r].pc = "idle" /\ answer' = [answer EXCEPT ![r] = None]
      /\ crashed' = crashed /\ faults' = faults /\ file' = file
  BY DEF Read, Still
<1>2. PICK x : x = [NoRead EXCEPT !.pc = "start", !.off = q.off, !.len = Clamped(q)]
  OBVIOUS
<1>3. rd' = [rd EXCEPT ![r] = x] /\ x.pc = "start"
  BY <1>2 DEF Read, NoRead
<1>4. /\ rd \in [Readers -> Reading]
      /\ answer \in [Readers -> Seq(Int) \cup {None, Error}]
  BY DEF IInv, RInv, ReaderShape
<1>5. Pending' = Pending \cup {r} /\ r \notin Pending
  BY <1>1, <1>3, <1>4 DEF Pending
<1>6. Outcome' = [Outcome EXCEPT ![r] = "none"]
  <2>1. \A s \in Readers \ {r} : rd'[s] = rd[s] /\ answer'[s] = answer[s]
    BY <1>1, <1>3, <1>4
  <2>2. answer'[r] = None
    BY <1>1, <1>4
  <2>3. \A o, n : Result(o, n, None) = "none"
    BY NotCells DEF Result
  <2>. QED
    BY <2>1, <2>2, <2>3 DEF Outcome
<1>7. Faulty' = Faulty /\ Verified' = Verified /\ Matched' = Matched
  BY <1>1, BrainStays DEF Faulty, Verified
<1>8. Promise!Ask(r)
  BY <1>1, <1>5, <1>6, <1>7 DEF Promise!Ask
<1>. QED
  BY <1>8 DEF Promise!Next

\* A read goes on, or it is answered with what the promise allows.
LEMMA ServesStep ==
    ASSUME IInv, NEW r \in Readers, ~crashed, Serves(r)
    PROVE  Promise!Next \/ UNCHANGED Promise!abstract
<1>1. PICK x \in Reading :
         /\ rd[r].pc # "idle" /\ rd' = [rd EXCEPT ![r] = x]
         /\ x.off = rd[r].off /\ x.len = rd[r].len /\ Doing(x, call'[r])
         /\ \/ x.pc # "idle" /\ answer' = answer
            \/ x.pc = "idle" /\ \E a : Right(x.off, x.len, a) /\ answer' = [answer EXCEPT ![r] = a]
  BY Zenon DEF Serves, Advances
<1>2. crashed' = crashed /\ faults' = faults /\ file' = file
  BY DEF Serves
<1>3. /\ rd \in [Readers -> Reading] /\ x.off \in Nat /\ x.len \in Nat
      /\ answer \in [Readers -> Seq(Int) \cup {None, Error}]
  BY DEF IInv, RInv, ReaderShape, Reading
<1>4. Faulty' = Faulty /\ Verified' = Verified /\ Matched' = Matched
  BY <1>2, BrainStays DEF Faulty, Verified
<1>5. \A s \in Readers : rd'[s].off = rd[s].off /\ rd'[s].len = rd[s].len
  BY <1>1, <1>3
<1>6. CASE x.pc # "idle" /\ answer' = answer
  <2>1. Pending' = Pending
    BY <1>1, <1>3, <1>6 DEF Pending
  <2>2. Outcome' = Outcome
    BY <1>5, <1>6 DEF Outcome
  <2>. QED
    BY <1>2, <1>4, <2>1, <2>2 DEF Promise!abstract
<1>7. ASSUME NEW a, x.pc = "idle", Right(x.off, x.len, a), answer' = [answer EXCEPT ![r] = a]
      PROVE  Promise!Next
  <2>1. PICK o : o = Result(x.off, x.len, a)
    OBVIOUS
  <2>2. o \in Promise!Allowed
    BY <1>3, <1>7, <2>1, RightIsAllowed
  <2>3. Pending' = Pending \ {r} /\ r \in Pending
    BY <1>1, <1>3, <1>7 DEF Pending
  <2>4. Outcome' = [Outcome EXCEPT ![r] = o]
    <3>1. \A s \in Readers \ {r} : answer'[s] = answer[s]
      BY <1>3, <1>7
    <3>2. answer'[r] = a
      BY <1>3, <1>7
    <3>3. Result(rd'[r].off, rd'[r].len, answer'[r]) = o
      BY <1>1, <1>5, <2>1, <3>2
    <3>. QED
      BY <1>5, <3>1, <3>3 DEF Outcome
  <2>5. Promise!Answer(r)
    BY <1>2, <1>4, <2>2, <2>3, <2>4 DEF Promise!Answer
  <2>. QED
    BY <2>5 DEF Promise!Next
<1>. QED
  BY <1>1, <1>6, <1>7

\* A step of the remote file ends the process, or it is silent.
LEMMA CloudSilent ==
    ASSUME IInv, NEW p \in Procs, CloudStep(p)
    PROVE  Moved /\ (crashed' = crashed \/ (crashed' /\ faults' = faults))
<1>1. CASE CacheGet(p) \/ Join(p) \/ Recheck(p) \/ Close(p) \/ Fetch(p)
  BY <1>1 DEF CacheGet, Join, Recheck, Close, Fetch, Moved
<1>2. CASE FetchTruncated(p) \/ FetchWhole(p) \/ FetchFails(p)
  BY <1>2 DEF FetchTruncated, FetchWhole, FetchFails, Moved, FaultKinds
<1>3. CASE StartPrefetch(p)
  BY <1>3 DEF StartPrefetch, Moved
<1>4. CASE TakePage(p)
  <2>1. PICK c \in {call[p]}, n \in {load[p].page}, data \in {load[p].data} : Taken(p, c, n, data)
    BY <1>4, Zenon DEF TakePage, Taken, Joined
  <2>2. crashed' = crashed \/ crashed' = TRUE
    BY <2>1, Zenon DEF Taken
  <2>3. size' = size /\ faults' = faults
    BY <1>4 DEF TakePage
  <2>. QED
    BY <2>2, <2>3 DEF Moved
<1>. QED
  BY <1>1, <1>2, <1>3, <1>4 DEF CloudStep, LoadStep

\* Every step of the mounted file is a step of the promise, or a stutter.
LEMMA PromiseStep ==
    ASSUME IInv, IInv', [Next]_vars
    PROVE  Promise!Next \/ UNCHANGED Promise!abstract
<1>1. CASE UNCHANGED vars
  <2>1. /\ crashed' = crashed /\ faults' = faults /\ file' = file /\ rd' = rd /\ answer' = answer
    BY <1>1 DEF vars, cloud, reader
  <2>2. /\ Pending' = Pending /\ Outcome' = Outcome
        /\ Verified' = Verified /\ Matched' = Matched /\ Faulty' = Faulty
    BY <2>1, BrainStays DEF Pending, Outcome, Result, Verified, Faulty
  <2>. QED
    BY <2>1, <2>2 DEF Promise!abstract
<1>2. CASE Next
  <2>1. ~crashed
    BY <1>2 DEF Next
  <2>2. CASE Mount \/ RemoveBrain \/ OnSignal \/ OnStop \/ OnTick
    <3>1. crashed' = crashed /\ file' = file /\ rd' = rd /\ answer' = answer
      BY <2>2 DEF Mount, RemoveBrain, OnSignal, OnStop, OnTick, Unmount, reader
    <3>2. Moved
      BY <2>2 DEF Mount, RemoveBrain, OnSignal, OnStop, OnTick, Unmount, Moved, FaultKinds
    <3>. QED
      BY <2>1, <3>1, <3>2, SilentStep
  <2>3. ASSUME NEW r \in Readers, NEW q \in Requests, Read(r, q) PROVE Promise!Next
    BY <2>1, <2>3, AskStep
  <2>4. ASSUME NEW p \in Procs, Goroutine(p) PROVE Promise!Next \/ UNCHANGED Promise!abstract
    <3>1. CASE p \in Readers /\ ReadStep(p)
      BY <2>1, <3>1, ReadStepServes, ServesStep
    <3>2. CASE p \in Readers /\ (DiskRead(p) \/ DiskFails(p))
      <4>1. crashed' = crashed /\ file' = file /\ rd' = rd /\ answer' = answer
        BY <3>2 DEF DiskRead, DiskFails, reader
      <4>2. Moved
        BY <3>2 DEF DiskRead, DiskFails, Moved, FaultKinds
      <4>. QED
        BY <2>1, <4>1, <4>2, SilentStep
    <3>3. CASE CloudStep(p) /\ UNCHANGED <<reader, watch, file, mounted>>
      <4>1. file' = file /\ rd' = rd /\ answer' = answer
        BY <3>3 DEF reader
      <4>2. Moved /\ (crashed' = crashed \/ (crashed' /\ faults' = faults))
        BY <3>3, CloudSilent
      <4>. QED
        BY <2>1, <4>1, <4>2, SilentStep, CrashStep
    <3>. QED
      BY <2>4, <3>1, <3>2, <3>3 DEF Goroutine
  <2>. QED
    BY <1>2, <2>2, <2>3, <2>4 DEF Next
<1>. QED
  BY <1>1, <1>2

\* The mounted file refines what it promises its readers (FileReads), but for the fairness:
\* whatever the caches, the locks and the downloads do, with the brain the file was packed
\* with a read is answered exactly until something fails, and never wrongly or short where
\* blocks or a tag are verified; with any other brain, which Mount takes too, it is never
\* short; the process only ends after a fault.
THEOREM PromiseKept == Spec => Promise!Safe
<1>1. Init => Promise!Init
  <2> SUFFICES ASSUME Init PROVE Promise!Init
    OBVIOUS
  <2>1. /\ crashed = FALSE /\ rd = [r \in Readers |-> NoRead] /\ answer = [r \in Readers |-> None]
    BY DEF Init, CloudInit
  <2>2. Pending = {}
    BY <2>1 DEF Pending, NoRead
  <2>3. Outcome = [r \in Readers |-> "none"]
    <3>1. \A o, n : Result(o, n, None) = "none"
      BY NotCells DEF Result
    <3>. QED
      BY <2>1, <3>1 DEF Outcome
  <2>4. Verified \in BOOLEAN /\ Faulty \in BOOLEAN /\ Matched \in BOOLEAN
    <3>1. file.kind # "blocks" \/ file.dict \in BOOLEAN
      BY LayoutAssumption DEF Init
    <3>. QED
      BY <3>1 DEF Verified, Faulty, Matched
  <2>. QED
    BY <2>1, <2>2, <2>3, <2>4 DEF Promise!Init
<1>2. IInv /\ IInv' /\ [Next]_vars => [Promise!Next]_(Promise!abstract)
  BY PromiseStep
<1>. QED
  BY <1>1, <1>2, Inductive, PTL DEF Spec, Promise!Safe
=============================================================================
