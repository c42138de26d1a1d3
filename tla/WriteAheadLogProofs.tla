------------------------- MODULE WriteAheadLogProofs -------------------------
(***************************************************************************)
(* Safety properties of WriteAheadLog, for any number of handlers, writes  *)
(* and mounts: what settled on disk is kept, no write is committed twice,  *)
(* and the chain of mutations holds the writes in order.                   *)
(***************************************************************************)
EXTENDS WriteAheadLog, RecursionTheorems

\* A commit writes beyond what had settled and leaves no hole.
CommitsBeyond ==
    \A p \in Procs : InCommit(p) => Len(settled) <= pos[p] /\ pos[p] <= Len(file)

\* The data in a place are distinct and were appended.
Distinct(s) == \A i, j \in 1..Len(s) : s[i] = s[j] => i = j
Known(S) == S \subseteq 1..appended
OwnData ==
    /\ Distinct(buffer) /\ Known(SeqRange(buffer)) /\ Known(OnDisk)
    /\ \A p \in Procs : Distinct(payload[p]) /\ Known(SeqRange(payload[p]))

IInv == TypeOK /\ SettledIsKept /\ CommitsBeyond /\ OwnData /\ CommittedOnce
-----------------------------------------------------------------------------
\* A write at an offset inside the file: a file again, no shorter, with the
\* cells written where they were written and the others untouched.
LEMMA WriteAtFacts ==
    ASSUME NEW f \in Seq(Cell), NEW at \in 0..Len(f), NEW cells \in Seq(Cell)
    PROVE  /\ WriteAt(f, at, cells) \in Seq(Cell)
           /\ Len(WriteAt(f, at, cells)) >= Len(f)
           /\ Len(WriteAt(f, at, cells)) >= at + Len(cells)
           /\ \A i \in 1..Len(WriteAt(f, at, cells)) :
                 IF i > at /\ i <= at + Len(cells)
                 THEN WriteAt(f, at, cells)[i] = cells[i - at]
                 ELSE i <= Len(f) /\ WriteAt(f, at, cells)[i] = f[i]
<1> DEFINE n == IF at + Len(cells) > Len(f) THEN at + Len(cells) ELSE Len(f)
           w == WriteAt(f, at, cells)
<1>1. n \in Nat /\ n >= Len(f) /\ n >= at + Len(cells)
  OBVIOUS
<1>2. \A i \in 1..n : i > at /\ i <= at + Len(cells) => i - at \in 1..Len(cells)
  OBVIOUS
<1>3. \A i \in 1..n : ~(i > at /\ i <= at + Len(cells)) => i \in 1..Len(f)
  OBVIOUS
<1>4. \A i \in 1..n : (IF i > at /\ i <= at + Len(cells) THEN cells[i - at] ELSE f[i]) \in Cell
  BY <1>2, <1>3
<1>5. w = [i \in 1..n |-> IF i > at /\ i <= at + Len(cells) THEN cells[i - at] ELSE f[i]]
  BY DEF WriteAt
<1>6. w \in [1..n -> Cell]
  BY <1>4, <1>5
<1> HIDE DEF n, w
<1>7. w \in Seq(Cell) /\ Len(w) = n
  BY <1>1, <1>6
<1>. QED
  BY <1>1, <1>3, <1>5, <1>7 DEF w

\* What a commit writes are cells.
LEMMA CommitCells ==
    ASSUME NEW data \in Seq(Nat)
    PROVE  /\ Header(data) \in Seq(Cell) /\ Len(Header(data)) = 2
           /\ Body(data) \in Seq(Cell) /\ Len(Body(data)) = Len(data)
           /\ \A i \in 1..2 : Header(data)[i].kind # "data"
           /\ \A i \in 1..Len(data) : Body(data)[i] = Datum(data[i])
<1>1. Size(data) \in Cell /\ Magic \in Cell
  BY BoundsAssumption DEF Size, Magic, Cell
<1>2. Size(data).kind = "size" /\ Magic.kind = "magic"
  BY DEF Size, Magic
<1>3. \A i \in 1..Len(data) : Datum(data[i]) \in Cell
  BY DEF Datum, Cell
<1>4. Body(data) \in Seq(Cell) /\ Len(Body(data)) = Len(data)
  BY <1>3 DEF Body
<1>. QED
  BY <1>1, <1>2, <1>4 DEF Header, Body

-----------------------------------------------------------------------------
\* What a process writes in one step: a header, a payload, or a beginning of
\* one of them when the write fails.
Chunk(p, cells) ==
    \/ pc[p] = "header" /\ \E k \in 0..2 : cells = SubSeq(Header(payload[p]), 1, k)
    \/ pc[p] = "body" /\ \E k \in 0..Len(payload[p]) : cells = SubSeq(Body(payload[p]), 1, k)

\* A chunk is a sequence of cells no longer than its payload's record; a data
\* cell in it is at its own place in the payload.
LEMMA ChunkFacts ==
    ASSUME TypeOK, NEW p \in Procs, NEW cells, Chunk(p, cells)
    PROVE  /\ cells \in Seq(Cell)
           /\ \A i \in 1..Len(cells) : cells[i].kind = "data" =>
                 /\ i \in 1..Len(payload[p]) /\ cells[i] = Datum(payload[p][i])
<1>0. payload[p] \in Seq(Nat)
  BY DEF TypeOK
<1>1. CASE pc[p] = "header"
  <2>1. PICK k \in 0..2 : cells = SubSeq(Header(payload[p]), 1, k)
    BY <1>1 DEF Chunk
  <2>2. /\ Header(payload[p]) \in Seq(Cell) /\ Len(Header(payload[p])) = 2
        /\ \A i \in 1..2 : Header(payload[p])[i].kind # "data"
    BY <1>0, CommitCells
  <2>. QED
    BY <2>1, <2>2
<1>2. CASE pc[p] = "body"
  <2>1. PICK k \in 0..Len(payload[p]) : cells = SubSeq(Body(payload[p]), 1, k)
    BY <1>2 DEF Chunk
  <2>2. /\ Body(payload[p]) \in Seq(Cell) /\ Len(Body(payload[p])) = Len(payload[p])
        /\ \A i \in 1..Len(payload[p]) : Body(payload[p])[i] = Datum(payload[p][i])
    BY <1>0, CommitCells
  <2>. QED
    BY <1>0, <2>1, <2>2
<1>. QED
  BY <1>1, <1>2 DEF Chunk

\* Each of the three writing actions writes a chunk at the offset.
LEMMA WritesChunk ==
    ASSUME TypeOK, NEW p \in Procs,
           WriteHeader(p) \/ WriteBody(p) \/ \E k \in Nat : WriteFails(p, k)
    PROVE  \E cells : /\ Chunk(p, cells)
                      /\ file' = WriteAt(file, pos[p], cells)
                      /\ pos' = [pos EXCEPT ![p] = @ + Len(cells)]
<1>0. payload[p] \in Seq(Nat)
  BY DEF TypeOK
<1>1. /\ Header(payload[p]) \in Seq(Cell) /\ Len(Header(payload[p])) = 2
      /\ Body(payload[p]) \in Seq(Cell) /\ Len(Body(payload[p])) = Len(payload[p])
  BY <1>0, CommitCells
<1>2. CASE WriteHeader(p)
  <2>1. Header(payload[p]) = SubSeq(Header(payload[p]), 1, 2)
    BY <1>1
  <2>2. Chunk(p, Header(payload[p]))
    BY <1>2, <2>1 DEF WriteHeader, Chunk
  <2>. QED
    BY <1>1, <1>2, <2>2 DEF WriteHeader
<1>3. CASE WriteBody(p)
  <2>1. Body(payload[p]) = SubSeq(Body(payload[p]), 1, Len(payload[p]))
    BY <1>0, <1>1
  <2>2. Chunk(p, Body(payload[p]))
    BY <1>0, <1>3, <2>1 DEF WriteBody, Chunk
  <2>. QED
    BY <1>1, <1>3, <2>2 DEF WriteBody
<1>4. ASSUME NEW k \in Nat, WriteFails(p, k)
      PROVE  \E cells : /\ Chunk(p, cells)
                        /\ file' = WriteAt(file, pos[p], cells)
                        /\ pos' = [pos EXCEPT ![p] = @ + Len(cells)]
  <2> DEFINE whole == IF pc[p] = "header" THEN Header(payload[p]) ELSE Body(payload[p])
  <2>0. k < Len(whole)
    BY <1>4 DEF WriteFails
  <2>1. file' = WriteAt(file, pos[p], SubSeq(whole, 1, k))
        /\ pos' = [pos EXCEPT ![p] = @ + k] /\ pc[p] \in {"header", "body"}
    BY <1>4 DEF WriteFails, InCommit, Writing
  <2>2. Len(SubSeq(whole, 1, k)) = k
    BY <1>1, <2>0
  <2>a. pc[p] = "header" => whole = Header(payload[p])
    OBVIOUS
  <2>b. pc[p] = "body" => whole = Body(payload[p])
    OBVIOUS
  <2> HIDE DEF whole
  <2>3. CASE pc[p] = "header"
    <3>1. whole = Header(payload[p])
      BY <2>3, <2>a
    <3>2. k \in 0..2
      <4>1. Len(whole) = 2
        BY <1>1, <3>1
      <4>. QED
        BY <2>0, <4>1
    <3>3. Chunk(p, SubSeq(whole, 1, k))
      BY <2>3, <3>1, <3>2 DEF Chunk
    <3>. QED
      BY <2>1, <2>2, <3>3
  <2>4. CASE pc[p] = "body"
    <3>1. whole = Body(payload[p])
      BY <2>4, <2>b
    <3>2. k \in 0..Len(payload[p])
      BY <1>0, <1>1, <2>0, <3>1
    <3>3. Chunk(p, SubSeq(whole, 1, k))
      BY <2>4, <3>1, <3>2 DEF Chunk
    <3>. QED
      BY <2>1, <2>2, <3>3
  <2>. QED
    BY <2>1, <2>3, <2>4
<1>. QED
  BY <1>2, <1>3, <1>4

-----------------------------------------------------------------------------
\* Every step keeps the types, as long as commits leave no hole.
LEMMA TypeStep ==
    TypeOK /\ CommitsBeyond /\ [Next]_vars => TypeOK'
<1> SUFFICES ASSUME TypeOK, CommitsBeyond, [Next]_vars PROVE TypeOK'
  OBVIOUS
<1> USE DEF TypeOK
<1>p. Worker \in Procs /\ Closer \in Procs /\ Handlers \subseteq Procs
  BY DEF Procs
<1>s. \A data \in Seq(Nat) : SeqRange(data) \subseteq Nat
  BY DEF SeqRange
<1>t. ASSUME NEW p \in Procs, Take(p), UNCHANGED phase PROVE TypeOK'
  BY <1>t DEF Take
<1>w. ASSUME NEW p \in Procs,
             WriteHeader(p) \/ WriteBody(p) \/ \E k \in Nat : WriteFails(p, k)
      PROVE  file' \in Seq(Cell) /\ pos' \in [Procs -> Nat]
  <2>1. PICK cells : /\ Chunk(p, cells)
                     /\ file' = WriteAt(file, pos[p], cells)
                     /\ pos' = [pos EXCEPT ![p] = @ + Len(cells)]
    BY <1>w, WritesChunk
  <2>2. cells \in Seq(Cell) /\ InCommit(p)
    BY <2>1, ChunkFacts DEF Chunk, InCommit, Writing
  <2>3. pos[p] \in 0..Len(file)
    BY <2>2 DEF CommitsBeyond
  <2>4. file' \in Seq(Cell)
    BY <2>1, <2>2, <2>3, WriteAtFacts
  <2>. QED
    BY <2>1, <2>2, <2>4
<1>1. ASSUME NEW h \in Handlers, AppendData(h) PROVE TypeOK'
  <2>1. appended' \in Nat /\ buffer' \in Seq(Nat)
    BY <1>1 DEF AppendData
  <2>2. quiet' \in BOOLEAN
    BY <1>1 DEF AppendData
  <2>3. UNCHANGED <<file, phase, pc, payload, pos, mounts, lost, flaws, settled>>
    BY <1>1 DEF AppendData, commit
  <2>. QED
    BY <2>1, <2>2, <2>3
<1>2. ASSUME NEW h \in Handlers, Flush(h) PROVE TypeOK'
  BY <1>2, <1>p, <1>t DEF Flush
<1>3. CASE SecondPasses
  BY <1>3 DEF SecondPasses, commit
<1>4. CASE TryFlush
  BY <1>4, <1>p, <1>t DEF TryFlush
<1>5. CASE WorkerStops
  BY <1>5, <1>p DEF WorkerStops
<1>6. CASE Close
  BY <1>6 DEF Close, commit
<1>7. CASE CloseFlush
  BY <1>7, <1>p, <1>t DEF CloseFlush
<1>8. CASE CloseNothing
  BY <1>8 DEF CloseNothing, commit
<1>9. ASSUME NEW p \in Procs, OpenFails(p) PROVE TypeOK'
  BY <1>9, <1>s DEF OpenFails, Finished
<1>10. ASSUME NEW p \in Procs, SeekEnd(p) PROVE TypeOK'
  BY <1>10 DEF SeekEnd
<1>11. ASSUME NEW p \in Procs, WriteHeader(p) PROVE TypeOK'
  BY <1>11, <1>w DEF WriteHeader
<1>12. ASSUME NEW p \in Procs, WriteBody(p) PROVE TypeOK'
  BY <1>12, <1>w DEF WriteBody, Finished, Settle
<1>13. ASSUME NEW p \in Procs, NEW k \in Nat, WriteFails(p, k) PROVE TypeOK'
  <2>1. lost' \subseteq Nat /\ flaws' \subseteq {"overlap", "size", "torn"}
    BY <1>13, <1>s DEF WriteFails
  <2>. QED
    BY <1>13, <1>w, <2>1 DEF WriteFails, Finished, Settle
<1>14. CASE Exit
  <2>1. lost' \subseteq Nat
    BY <1>14, <1>s DEF Exit
  <2>. QED
    BY <1>14, <2>1 DEF Exit
<1>15. CASE Mount
  BY <1>15 DEF Mount
<1>16. CASE UNCHANGED vars
  BY <1>16 DEF vars, commit
<1>17. 0..(MaxAppends + 1) \subseteq Nat
  BY BoundsAssumption
<1>. QED
  BY <1>1, <1>2, <1>3, <1>4, <1>5, <1>6, <1>7, <1>8, <1>9, <1>10, <1>11, <1>12, <1>13,
     <1>14, <1>15, <1>16, <1>17
  DEF Next, CommitStep

-----------------------------------------------------------------------------
\* A chunk is written beyond what had settled, so that stays, and every open
\* commit, this one included, still points into the file and beyond it.
LEMMA ChunkKeepsSettled ==
    ASSUME TypeOK, SettledIsKept, CommitsBeyond,
           NEW p \in Procs,
           WriteHeader(p) \/ WriteBody(p) \/ \E k \in Nat : WriteFails(p, k)
    PROVE  /\ file' \in Seq(Cell) /\ Len(settled) <= Len(file')
           /\ \A i \in 1..Len(settled) : file'[i] = settled[i]
           /\ \A q \in Procs : InCommit(q) => Len(settled) <= pos'[q] /\ pos'[q] <= Len(file')
<1>1. PICK cells : /\ Chunk(p, cells)
                   /\ file' = WriteAt(file, pos[p], cells)
                   /\ pos' = [pos EXCEPT ![p] = @ + Len(cells)]
  BY WritesChunk
<1>2. cells \in Seq(Cell) /\ InCommit(p)
  BY <1>1, ChunkFacts DEF Chunk, InCommit, Writing
<1>3. /\ file \in Seq(Cell) /\ settled \in Seq(Cell)
      /\ pos \in [Procs -> Nat] /\ pos[p] \in 0..Len(file) /\ Len(settled) <= pos[p]
  BY <1>2 DEF CommitsBeyond, TypeOK
<1>4. /\ file' \in Seq(Cell) /\ Len(file') >= Len(file) /\ Len(file') >= pos[p] + Len(cells)
      /\ \A i \in 1..Len(file') :
            IF i > pos[p] /\ i <= pos[p] + Len(cells)
            THEN file'[i] = cells[i - pos[p]]
            ELSE i <= Len(file) /\ file'[i] = file[i]
  BY <1>1, <1>2, <1>3, WriteAtFacts
<1>5. ASSUME NEW i \in 1..Len(settled) PROVE file'[i] = settled[i]
  <2>1. Len(settled) <= Len(file) /\ file[i] = settled[i]
    BY DEF SettledIsKept
  <2>2. i \in 1..Len(file') /\ ~(i > pos[p])
    BY <1>3, <1>4, <2>1
  <2>. QED
    BY <1>4, <2>1, <2>2
<1>6. ASSUME NEW q \in Procs, InCommit(q)
      PROVE  Len(settled) <= pos'[q] /\ pos'[q] <= Len(file')
  <2>1. CASE q = p
    BY <1>1, <1>2, <1>3, <1>4, <2>1
  <2>2. CASE q # p
    <3>1. pos'[q] = pos[q] /\ pos[q] \in Nat
      BY <1>1, <1>3, <2>2
    <3>2. Len(settled) <= pos[q] /\ pos[q] <= Len(file)
      BY <1>6 DEF CommitsBeyond
    <3>. QED
      BY <1>3, <1>4, <3>1, <3>2
  <2>. QED
    BY <2>1, <2>2
<1>. QED
  BY <1>3, <1>4, <1>5, <1>6 DEF SettledIsKept

\* Every step keeps what has settled, and every open commit beyond it.
LEMMA SettledStep ==
    TypeOK /\ SettledIsKept /\ CommitsBeyond /\ [Next]_vars => SettledIsKept' /\ CommitsBeyond'
<1> SUFFICES ASSUME TypeOK, SettledIsKept, CommitsBeyond, [Next]_vars
             PROVE  SettledIsKept' /\ CommitsBeyond'
  OBVIOUS
<1>0. /\ file \in Seq(Cell) /\ settled \in Seq(Cell) /\ pos \in [Procs -> Nat]
      /\ pc \in [Procs -> {"idle", "open", "header", "body", "gone"}]
  BY DEF TypeOK
<1>p. Worker \in Procs /\ Closer \in Procs /\ Handlers \subseteq Procs
  BY DEF Procs
\* A step that neither writes nor opens a commit.
<1>s. ASSUME UNCHANGED <<file, settled, pos>>,
             \A p \in Procs : InCommit(p)' => InCommit(p)
      PROVE  SettledIsKept' /\ CommitsBeyond'
  BY <1>s DEF SettledIsKept, CommitsBeyond
<1>c. ASSUME UNCHANGED <<file, settled, commit>> PROVE SettledIsKept' /\ CommitsBeyond'
  BY <1>c, <1>s DEF commit, InCommit
<1>t. ASSUME NEW p \in Procs, Take(p) PROVE SettledIsKept' /\ CommitsBeyond'
  <2>1. \A q \in Procs : InCommit(q)' => InCommit(q)
    BY <1>0, <1>t DEF Take, InCommit, Writing
  <2>. QED
    BY <1>t, <1>s, <2>1 DEF Take
\* The last write of a commit.
<1>f. ASSUME NEW p \in Procs, WriteBody(p) \/ \E k \in Nat : WriteFails(p, k)
      PROVE  SettledIsKept' /\ CommitsBeyond'
  <2>1. Settle(p) /\ pc' = [pc EXCEPT ![p] = "idle"]
    BY <1>f DEF WriteBody, WriteFails, Finished
  <2>2. /\ file' \in Seq(Cell) /\ Len(settled) <= Len(file')
        /\ \A i \in 1..Len(settled) : file'[i] = settled[i]
        /\ \A q \in Procs : InCommit(q) => Len(settled) <= pos'[q] /\ pos'[q] <= Len(file')
    BY <1>f, ChunkKeepsSettled
  <2>3. \A q \in Procs : InCommit(q)' => q # p /\ InCommit(q)
    BY <1>0, <2>1 DEF InCommit, Writing
  <2>4. CASE \A q \in Procs \ {p} : ~InCommit(q)
    <3>1. settled' = file' /\ \A q \in Procs : ~InCommit(q)'
      BY <2>1, <2>3, <2>4 DEF Settle
    <3>. QED
      BY <2>2, <3>1 DEF SettledIsKept, CommitsBeyond
  <2>5. CASE ~(\A q \in Procs \ {p} : ~InCommit(q))
    <3>1. settled' = settled
      BY <2>1, <2>5 DEF Settle
    <3>. QED
      BY <2>2, <2>3, <3>1 DEF SettledIsKept, CommitsBeyond
  <2>. QED
    BY <2>4, <2>5
<1>1. ASSUME NEW h \in Handlers, AppendData(h) PROVE SettledIsKept' /\ CommitsBeyond'
  BY <1>1, <1>c DEF AppendData
<1>2. ASSUME NEW h \in Handlers, Flush(h) PROVE SettledIsKept' /\ CommitsBeyond'
  BY <1>2, <1>p, <1>t DEF Flush
<1>3. CASE SecondPasses \/ Close \/ CloseNothing
  BY <1>3, <1>c DEF SecondPasses, Close, CloseNothing
<1>4. CASE TryFlush \/ CloseFlush
  BY <1>4, <1>p, <1>t DEF TryFlush, CloseFlush
<1>5. CASE WorkerStops
  <2>1. \A q \in Procs : InCommit(q)' => InCommit(q)
    BY <1>0, <1>5, <1>p DEF WorkerStops, InCommit, Writing
  <2>. QED
    BY <1>5, <1>s, <2>1 DEF WorkerStops
<1>6. ASSUME NEW p \in Procs, OpenFails(p) PROVE SettledIsKept' /\ CommitsBeyond'
  <2>1. \A q \in Procs : InCommit(q)' => InCommit(q)
    BY <1>0, <1>6 DEF OpenFails, Finished, InCommit, Writing
  <2>. QED
    BY <1>6, <1>s, <2>1 DEF OpenFails
<1>7. ASSUME NEW p \in Procs, SeekEnd(p) PROVE SettledIsKept' /\ CommitsBeyond'
  <2>1. \A q \in Procs \ {p} : (InCommit(q)' => InCommit(q)) /\ pos'[q] = pos[q]
    BY <1>0, <1>7 DEF SeekEnd, InCommit, Writing
  <2>2. pos'[p] = Len(file)
    BY <1>0, <1>7 DEF SeekEnd
  <2>3. UNCHANGED <<file, settled>>
    BY <1>7 DEF SeekEnd
  <2>4. SettledIsKept'
    BY <2>3 DEF SettledIsKept
  <2>5. Len(settled) <= Len(file) /\ Len(file) <= Len(file)
    BY <1>0 DEF SettledIsKept
  <2>6. \A q \in Procs : InCommit(q)' => Len(settled) <= pos'[q] /\ pos'[q] <= Len(file)
    BY <2>1, <2>2, <2>5 DEF CommitsBeyond
  <2>7. CommitsBeyond'
    BY <2>3, <2>6 DEF CommitsBeyond
  <2>. QED
    BY <2>4, <2>7
<1>8. ASSUME NEW p \in Procs, WriteHeader(p) PROVE SettledIsKept' /\ CommitsBeyond'
  <2>1. /\ file' \in Seq(Cell) /\ Len(settled) <= Len(file')
        /\ \A i \in 1..Len(settled) : file'[i] = settled[i]
        /\ \A q \in Procs : InCommit(q) => Len(settled) <= pos'[q] /\ pos'[q] <= Len(file')
    BY <1>8, ChunkKeepsSettled
  <2>2. settled' = settled /\ \A q \in Procs : InCommit(q)' => InCommit(q)
    BY <1>0, <1>8 DEF WriteHeader, InCommit, Writing
  <2>. QED
    BY <2>1, <2>2 DEF SettledIsKept, CommitsBeyond
<1>9. CASE Exit
  <2>1. settled' = file' /\ file' = file /\ \A q \in Procs : ~InCommit(q)'
    BY <1>9 DEF Exit, InCommit, Writing
  <2>. QED
    BY <1>0, <2>1 DEF SettledIsKept, CommitsBeyond
<1>10. CASE Mount
  <2>1. SettledIsKept'
    BY <1>10 DEF Mount, SettledIsKept
  <2>2. \A q \in Procs : ~InCommit(q)'
    BY <1>10 DEF Mount, InCommit, Writing
  <2>3. CommitsBeyond'
    BY <2>2 DEF CommitsBeyond
  <2>. QED
    BY <2>1, <2>3
<1>11. CASE UNCHANGED vars
  BY <1>11, <1>c DEF vars
<1>12. 0..(MaxAppends + 1) \subseteq Nat
  BY BoundsAssumption
<1>. QED
  BY <1>1, <1>2, <1>3, <1>4, <1>5, <1>6, <1>7, <1>8, <1>9, <1>10, <1>11, <1>12, <1>f
  DEF Next, CommitStep

-----------------------------------------------------------------------------
\* A chunk of p's payload puts on disk only data of that payload, each once,
\* and what was there before and was not overwritten.
LEMMA ChunkWritesOnce ==
    ASSUME IInv,
           NEW p \in Procs,
           WriteHeader(p) \/ WriteBody(p) \/ \E k \in Nat : WriteFails(p, k)
    PROVE  /\ OnDisk' \subseteq OnDisk \cup (IF pc[p] = "body" THEN Taken(p) ELSE {})
           /\ \A i, j \in 1..Len(file') : file'[i].kind = "data" /\ file'[i] = file'[j] => i = j
<1>1. PICK cells : /\ Chunk(p, cells)
                   /\ file' = WriteAt(file, pos[p], cells)
  BY WritesChunk DEF IInv
<1>2. /\ cells \in Seq(Cell) /\ InCommit(p)
      /\ \A i \in 1..Len(cells) : cells[i].kind = "data" =>
            /\ i \in 1..Len(payload[p]) /\ cells[i] = Datum(payload[p][i])
  BY <1>1, ChunkFacts DEF IInv, Chunk, InCommit, Writing
<1>3. /\ file \in Seq(Cell) /\ pos[p] \in 0..Len(file) /\ payload[p] \in Seq(Nat)
  BY <1>2 DEF IInv, CommitsBeyond, TypeOK
<1>4. /\ file' \in Seq(Cell)
      /\ \A i \in 1..Len(file') :
            IF i > pos[p] /\ i <= pos[p] + Len(cells)
            THEN file'[i] = cells[i - pos[p]]
            ELSE i <= Len(file) /\ file'[i] = file[i]
  BY <1>1, <1>2, <1>3, WriteAtFacts
<1>5. Taken(p) = SeqRange(payload[p])
  BY <1>2 DEF Taken, Busy, InCommit
<1> DEFINE New(i) == i > pos[p] /\ i <= pos[p] + Len(cells)
\* A new cell with data is a datum of the payload.
<1>6. ASSUME NEW i \in 1..Len(file'), New(i), file'[i].kind = "data"
      PROVE  /\ i - pos[p] \in 1..Len(payload[p])
             /\ file'[i].val = payload[p][i - pos[p]]
             /\ file'[i].val \in Taken(p)
  <2>1. i - pos[p] \in 1..Len(cells) /\ file'[i] = cells[i - pos[p]]
    BY <1>2, <1>3, <1>4, <1>6, SMTT(30)
  <2>2. /\ i - pos[p] \in 1..Len(payload[p]) /\ file'[i] = Datum(payload[p][i - pos[p]])
    BY <1>2, <1>6, <2>1
  <2>3. file'[i].val = payload[p][i - pos[p]]
    BY <2>2 DEF Datum
  <2>. QED
    BY <1>3, <1>5, <2>2, <2>3 DEF SeqRange
\* An old one was on disk before.
<1>7. ASSUME NEW i \in 1..Len(file'), ~New(i)
      PROVE  /\ i \in 1..Len(file) /\ file'[i] = file[i]
             /\ file'[i].kind = "data" => file'[i].val \in OnDisk
  <2>1. i \in 1..Len(file) /\ file'[i] = file[i]
    BY <1>3, <1>4, <1>7
  <2>. QED
    BY <2>1 DEF OnDisk
<1>8. \A i \in 1..Len(file') : New(i) /\ file'[i].kind = "data" => pc[p] = "body"
  <2>1. CASE pc[p] = "header"
    <3>1. PICK k \in 0..2 : cells = SubSeq(Header(payload[p]), 1, k)
      BY <1>1, <2>1 DEF Chunk
    <3>2. Header(payload[p]) \in Seq(Cell) /\ Len(Header(payload[p])) = 2
          /\ \A i \in 1..2 : Header(payload[p])[i].kind # "data"
      BY <1>3, CommitCells
    <3>3. \A i \in 1..Len(cells) : cells[i].kind # "data"
      BY <3>1, <3>2
    <3>4. \A i \in 1..Len(file') : New(i) => i - pos[p] \in 1..Len(cells)
      BY <1>2, <1>3
    <3>. QED
      BY <1>4, <3>3, <3>4
  <2>. QED
    BY <1>1, <2>1 DEF Chunk
<1>9. Taken(p) \cap OnDisk = {} /\ Distinct(payload[p])
  BY DEF IInv, CommittedOnce, OwnData
<1>10. OnDisk' \subseteq OnDisk \cup (IF pc[p] = "body" THEN Taken(p) ELSE {})
  <2> SUFFICES ASSUME NEW i \in 1..Len(file'), file'[i].kind = "data"
               PROVE  file'[i].val \in OnDisk \cup (IF pc[p] = "body" THEN Taken(p) ELSE {})
    BY DEF OnDisk
  <2>. QED
    BY <1>6, <1>7, <1>8
<1>11. ASSUME NEW i \in 1..Len(file'), NEW j \in 1..Len(file'),
              file'[i].kind = "data", file'[i] = file'[j]
       PROVE  i = j
  <2>1. CASE New(i) /\ New(j)
    <3>1. payload[p][i - pos[p]] = payload[p][j - pos[p]]
      BY <1>6, <1>11, <2>1
    <3>2. i - pos[p] = j - pos[p]
      BY <1>6, <1>9, <1>11, <2>1, <3>1 DEF Distinct
    <3>. QED
      BY <1>3, <3>2
  <2>2. CASE ~New(i) /\ ~New(j)
    BY <1>7, <1>11, <2>2 DEF IInv, CommittedOnce
  <2>3. CASE New(i) /\ ~New(j)
    BY <1>6, <1>7, <1>9, <1>11, <2>3
  <2>4. CASE ~New(i) /\ New(j)
    BY <1>6, <1>7, <1>9, <1>11, <2>4
  <2>. QED
    BY <2>1, <2>2, <2>3, <2>4
<1>. QED
  BY <1>10, <1>11

\* Every step keeps the data apart: on disk, in the buffer or in one payload.
LEMMA OnceStep ==
    IInv /\ [Next]_vars => OwnData' /\ CommittedOnce'
<1> SUFFICES ASSUME IInv, [Next]_vars PROVE OwnData' /\ CommittedOnce'
  OBVIOUS
<1> DEFINE DiskOnce == \A i, j \in 1..Len(file) :
                          file[i].kind = "data" /\ file[i] = file[j] => i = j
<1>0. /\ pc \in [Procs -> {"idle", "open", "header", "body", "gone"}]
      /\ payload \in [Procs -> Seq(Nat)] /\ buffer \in Seq(Nat) /\ appended \in Nat
  BY DEF IInv, TypeOK
<1>i. /\ Distinct(buffer) /\ Known(SeqRange(buffer)) /\ Known(OnDisk)
      /\ \A p \in Procs : Distinct(payload[p]) /\ Known(SeqRange(payload[p]))
      /\ DiskOnce /\ SeqRange(buffer) \cap OnDisk = {}
      /\ \A p \in Procs : /\ Taken(p) \cap (SeqRange(buffer) \cup OnDisk) = {}
                           /\ \A q \in Procs \ {p} : Taken(p) \cap Taken(q) = {}
  BY DEF IInv, OwnData, CommittedOnce
<1>p. Worker \in Procs /\ Closer \in Procs /\ Handlers \subseteq Procs
  BY DEF Procs
<1>e. SeqRange(<< >>) = {} /\ Distinct(<< >>)
  BY DEF SeqRange, Distinct
\* A step that leaves the data where they are, or drops some from memory.
<1>s. ASSUME appended' = appended,
             Distinct(buffer') /\ SeqRange(buffer') \subseteq SeqRange(buffer),
             \A p \in Procs : Distinct(payload'[p]) /\ Known(SeqRange(payload'[p])),
             OnDisk' \subseteq OnDisk, DiskOnce',
             \A p \in Procs : Taken(p)' \subseteq Taken(p)
      PROVE  OwnData' /\ CommittedOnce'
  <2>1. OwnData'
    BY <1>i, <1>s DEF OwnData, Known
  <2>2. CommittedOnce'
    BY <1>i, <1>s DEF CommittedOnce
  <2>. QED
    BY <2>1, <2>2
<1>c. ASSUME UNCHANGED <<appended, buffer, file, pc, payload>> PROVE OwnData' /\ CommittedOnce'
  <2>1. OnDisk' = OnDisk /\ DiskOnce' /\ \A p \in Procs : Taken(p)' = Taken(p)
    BY <1>c, <1>i DEF OnDisk, Taken, Busy
  <2>. QED
    BY <1>c, <1>i, <1>s, <2>1
\* Taking the buffer.
<1>t. ASSUME NEW p \in Procs, Take(p), ~Busy(p) PROVE OwnData' /\ CommittedOnce'
  <2>1. /\ payload' = [payload EXCEPT ![p] = buffer] /\ buffer' = << >>
        /\ pc' = [pc EXCEPT ![p] = "open"] /\ UNCHANGED <<file, appended>>
    BY <1>t DEF Take
  <2>2. Taken(p)' = SeqRange(buffer)
    BY <1>0, <2>1 DEF Taken, Busy
  <2>3. \A q \in Procs \ {p} : Taken(q)' = Taken(q)
    BY <1>0, <2>1 DEF Taken, Busy
  <2>4. OnDisk' = OnDisk /\ DiskOnce'
    BY <1>i, <2>1 DEF OnDisk
  <2>5. OwnData'
    <3>1. \A q \in Procs : payload'[q] \in {buffer, payload[q]}
      BY <1>0, <2>1
    <3>. QED
      BY <1>e, <1>i, <2>1, <2>4, <3>1 DEF OwnData, Known
  <2>6. CommittedOnce'
    BY <1>e, <1>i, <2>1, <2>2, <2>3, <2>4 DEF CommittedOnce
  <2>. QED
    BY <2>5, <2>6
\* A process leaves its commit, or the worker its loop: nothing else moves.
<1>d. ASSUME NEW p \in Procs, NEW s \in {"idle", "gone"},
             pc' = [pc EXCEPT ![p] = s], UNCHANGED <<appended, buffer, file, payload>>
      PROVE  OwnData' /\ CommittedOnce'
  <2>1. \A q \in Procs : Taken(q)' \subseteq Taken(q)
    BY <1>0, <1>d DEF Taken, Busy, Writing
  <2>2. OnDisk' = OnDisk /\ DiskOnce'
    BY <1>i, <1>d DEF OnDisk
  <2>. QED
    BY <1>i, <1>d, <1>s, <2>1, <2>2
\* A commit goes on and keeps its payload.
<1>k. ASSUME NEW p \in Procs, NEW s \in {"header", "body"}, Busy(p),
             pc' = [pc EXCEPT ![p] = s], UNCHANGED <<appended, buffer, payload>>,
             OnDisk' \subseteq OnDisk, DiskOnce'
      PROVE  OwnData' /\ CommittedOnce'
  <2>1. \A q \in Procs : Taken(q)' \subseteq Taken(q)
    BY <1>0, <1>k DEF Taken, Busy, Writing
  <2>. QED
    BY <1>i, <1>k, <1>s, <2>1
\* The last write of a commit moves its payload to the disk.
<1>f. ASSUME NEW p \in Procs, WriteBody(p) \/ \E k \in Nat : WriteFails(p, k)
      PROVE  OwnData' /\ CommittedOnce'
  <2>1. pc' = [pc EXCEPT ![p] = "idle"] /\ UNCHANGED <<appended, buffer, payload>>
    BY <1>f DEF WriteBody, WriteFails, Finished
  <2>2. OnDisk' \subseteq OnDisk \cup Taken(p) /\ DiskOnce'
    BY <1>f, ChunkWritesOnce
  <2>3. Taken(p)' = {} /\ \A q \in Procs \ {p} : Taken(q)' = Taken(q)
    BY <1>0, <2>1 DEF Taken, Busy, Writing
  <2>4. Taken(p) \subseteq SeqRange(payload[p])
    BY DEF Taken
  <2>5. OwnData'
    BY <1>i, <2>1, <2>2, <2>4 DEF OwnData, Known
  <2>6. CommittedOnce'
    BY <1>i, <2>1, <2>2, <2>3 DEF CommittedOnce
  <2>. QED
    BY <2>5, <2>6
<1>1. ASSUME NEW h \in Handlers, AppendData(h) PROVE OwnData' /\ CommittedOnce'
  <2>1. /\ buffer' = Append(buffer, appended + 1) /\ appended' = appended + 1
        /\ UNCHANGED <<file, pc, payload>>
    BY <1>1 DEF AppendData, commit
  <2>2. SeqRange(buffer') = SeqRange(buffer) \cup {appended + 1}
    <3>1. \A i \in 1..Len(buffer) : buffer'[i] = buffer[i]
      BY <1>0, <2>1
    <3>2. Len(buffer') = Len(buffer) + 1 /\ buffer'[Len(buffer) + 1] = appended + 1
      BY <1>0, <2>1
    <3>3. DOMAIN buffer' = 1..(Len(buffer) + 1) /\ DOMAIN buffer = 1..Len(buffer)
      BY <1>0, <2>1
    <3>4. 1..(Len(buffer) + 1) = 1..Len(buffer) \cup {Len(buffer) + 1}
      BY <1>0
    <3>5. SeqRange(buffer') = {buffer'[i] : i \in 1..Len(buffer) \cup {Len(buffer) + 1}}
      BY <3>3, <3>4 DEF SeqRange
    <3>6. SeqRange(buffer) = {buffer[i] : i \in 1..Len(buffer)}
      BY <3>3 DEF SeqRange
    <3>. QED
      BY <3>1, <3>2, <3>5, <3>6
  <2>3. appended + 1 \notin 1..appended /\ 1..appended \subseteq 1..(appended + 1)
        /\ appended + 1 \in 1..(appended + 1)
    BY <1>0
  <2>4. Distinct(buffer')
    <3>1. \A i \in 1..Len(buffer) : buffer[i] \in SeqRange(buffer)
      BY <1>0 DEF SeqRange
    <3>. QED
      BY <1>0, <1>i, <2>1, <2>3, <3>1 DEF Distinct, Known
  <2>5. OnDisk' = OnDisk /\ DiskOnce' /\ \A p \in Procs : Taken(p)' = Taken(p)
    BY <1>i, <2>1 DEF OnDisk, Taken, Busy
  <2>6. \A p \in Procs : Taken(p) \subseteq 1..appended
    BY <1>i DEF Taken, Known
  <2>7. OwnData'
    BY <1>i, <2>1, <2>2, <2>3, <2>4, <2>5 DEF OwnData, Known
  <2>8. CommittedOnce'
    BY <1>i, <2>2, <2>3, <2>5, <2>6 DEF CommittedOnce, Known
  <2>. QED
    BY <2>7, <2>8
<1>2. ASSUME NEW h \in Handlers, Flush(h) PROVE OwnData' /\ CommittedOnce'
  BY <1>2, <1>p, <1>t DEF Flush, Busy, Writing
<1>3. CASE SecondPasses \/ Close \/ CloseNothing
  BY <1>3, <1>c DEF SecondPasses, Close, CloseNothing, commit
<1>4. CASE TryFlush \/ CloseFlush
  BY <1>4, <1>p, <1>t DEF TryFlush, CloseFlush, Busy, Writing
<1>5. CASE WorkerStops
  BY <1>5, <1>p, <1>d DEF WorkerStops
<1>6. ASSUME NEW p \in Procs, OpenFails(p) PROVE OwnData' /\ CommittedOnce'
  BY <1>6, <1>d DEF OpenFails, Finished
<1>7. ASSUME NEW p \in Procs, SeekEnd(p) PROVE OwnData' /\ CommittedOnce'
  <2>1. OnDisk' = OnDisk /\ DiskOnce'
    BY <1>i, <1>7 DEF SeekEnd, OnDisk
  <2>. QED
    BY <1>7, <1>k, <2>1 DEF SeekEnd, Busy
<1>8. ASSUME NEW p \in Procs, WriteHeader(p) PROVE OwnData' /\ CommittedOnce'
  <2>1. pc[p] = "header" /\ pc' = [pc EXCEPT ![p] = "body"]
        /\ UNCHANGED <<appended, buffer, payload>>
    BY <1>8 DEF WriteHeader
  <2>2. OnDisk' \subseteq OnDisk /\ DiskOnce'
    BY <1>8, <2>1, ChunkWritesOnce
  <2>. QED
    BY <1>k, <2>1, <2>2 DEF Busy, Writing
<1>9. CASE Exit
  <2>1. /\ \A p \in Procs : Taken(p)' = {}
        /\ buffer' = << >> /\ UNCHANGED <<appended, file, payload>>
    BY <1>9 DEF Exit, Taken, Busy, Writing
  <2>2. OnDisk' = OnDisk /\ DiskOnce'
    BY <1>i, <2>1 DEF OnDisk
  <2>. QED
    BY <1>e, <1>i, <1>s, <2>1, <2>2
<1>10. CASE Mount
  <2>1. /\ \A p \in Procs : Taken(p)' = {}
        /\ buffer' = << >> /\ UNCHANGED <<appended, file>>
        /\ \A p \in Procs : payload'[p] = << >>
    BY <1>10 DEF Mount, Taken, Busy, Writing
  <2>2. OnDisk' = OnDisk /\ DiskOnce'
    BY <1>i, <2>1 DEF OnDisk
  <2>3. \A p \in Procs : Distinct(payload'[p]) /\ Known(SeqRange(payload'[p]))
    BY <1>e, <2>1 DEF Known
  <2>. QED
    BY <1>e, <1>s, <2>1, <2>2, <2>3
<1>11. CASE UNCHANGED vars
  BY <1>11, <1>c DEF vars, commit
<1>12. 0..(MaxAppends + 1) \subseteq Nat
  BY BoundsAssumption
<1>. QED
  BY <1>1, <1>2, <1>3, <1>4, <1>5, <1>6, <1>7, <1>8, <1>9, <1>10, <1>11, <1>12, <1>f
  DEF Next, CommitStep
-----------------------------------------------------------------------------
\* A fresh mount satisfies the inductive invariant.
LEMMA Initially == Init => IInv
<1> SUFFICES ASSUME Init PROVE IInv
  OBVIOUS
<1>1. Archive \in Cell /\ Archive.kind = "archive" /\ ArchiveSize \in Nat
  BY BoundsAssumption DEF Archive, Cell
<1>2. file \in Seq(Cell) /\ Len(file) = ArchiveSize /\ settled = file
      /\ \A i \in 1..Len(file) : file[i] = Archive
  BY <1>1 DEF Init
<1>3. TypeOK
  BY <1>2 DEF Init, TypeOK
<1>4. SettledIsKept /\ CommitsBeyond
  <2>1. \A p \in Procs : ~InCommit(p)
    BY DEF Init, InCommit, Writing
  <2>. QED
    BY <1>1, <1>2, <2>1 DEF SettledIsKept, CommitsBeyond
<1>5. OnDisk = {} /\ \A p \in Procs : Taken(p) = {} /\ payload[p] = << >>
  BY <1>1, <1>2 DEF Init, OnDisk, Taken, Busy, Writing
<1>6. SeqRange(<< >>) = {} /\ Distinct(<< >>)
  BY DEF SeqRange, Distinct
<1>7. OwnData
  BY <1>5, <1>6 DEF Init, OwnData, Known
<1>8. CommittedOnce
  BY <1>1, <1>2, <1>5, <1>6 DEF Init, CommittedOnce
<1>. QED
  BY <1>3, <1>4, <1>7, <1>8 DEF IInv

\* The inductive invariant holds in every reachable state.
THEOREM Inductive == Spec => []IInv
<1>1. IInv /\ [Next]_vars => IInv'
  BY TypeStep, SettledStep, OnceStep DEF IInv
<1>. QED
  BY <1>1, Initially, PTL DEF Spec

\* Type correctness of the log (writer.go, mutator.go).
THEOREM TypeCorrect == Spec => []TypeOK
<1>1. IInv => TypeOK
  BY DEF IInv
<1>. QED
  BY <1>1, Inductive, PTL

\* What had settled on disk survives any number of concurrent, failing or
\* interrupted AppendMutation calls (mutator.go:15-45).
THEOREM SettledKept == Spec => []SettledIsKept
<1>1. IInv => SettledIsKept
  BY DEF IInv
<1>. QED
  BY <1>1, Inductive, PTL

\* No write is committed twice, whichever flushes run at once
\* (tryFlush and forceFlush, writer.go:65-106).
THEOREM NothingTwice == Spec => []CommittedOnce
<1>1. IInv => CommittedOnce
  BY DEF IInv
<1>. QED
  BY <1>1, Inductive, PTL
-----------------------------------------------------------------------------
(* The chain of mutations.  w holds the cursor and the data of the walk after
   each of its n turns, all of which found a mutation. *)

Start == [at |-> ArchiveSize, got |-> << >>]
Sound(f, c) == c \in Nat /\ c + 2 <= Len(f) /\ f[c + 1] = Magic /\ c + 2 + f[c + 2].val <= Len(f)
Data(f, c) == [i \in 1..f[c + 2].val |-> f[c + 2 + i].val]
Behind(f, s) == [at |-> s.at + 2 + f[s.at + 2].val, got |-> s.got \o Data(f, s.at)]

Turns(f, w, n) ==
    /\ w[0] = Start /\ w[n].at = Len(f)
    /\ \A i \in 1..n : Sound(f, w[i - 1].at) /\ w[i] = Behind(f, w[i - 1])

\* The walk meets one mutation after the other up to the end and yields o.
Chain(f, o) == \E n \in 0..Len(f) : \E w : Turns(f, w, n) /\ w[n].got = o

\* One turn of the walk, where a mutation is, and at the end.
LEMMA TurnIs ==
    ASSUME NEW f \in Seq(Cell), NEW s
    PROVE  /\ Sound(f, s.at) => NextMutation(f, s) = Behind(f, s)
           /\ s.at = Len(f) => NextMutation(f, s) = s
<1>1. ASSUME Sound(f, s.at)
      PROVE  NextMutation(f, s) = Behind(f, s)
  <2> DEFINE c == s.at
             v == f[c + 2].val
             start == s.at + 2
             end == start + f[start].val
  <2>1. c \in Nat /\ start \in 1..Len(f) /\ c # Len(f) /\ f[c + 1] = Magic /\ end <= Len(f)
    BY <1>1 DEF Sound
  <2>2. v \in Nat
    <3>1. f[start] \in Cell
      BY <2>1
    <3>. QED
      BY <3>1 DEF Cell
  <2>3. end - start = v /\ end = c + 2 + v
    BY <2>1, <2>2
  <2>4. NextMutation(f, s) =
           [at |-> end, got |-> s.got \o [i \in 1..(end - start) |-> f[start + i].val]]
    BY <2>1 DEF NextMutation
  <2>. QED
    BY <2>3, <2>4 DEF Behind, Data
<1>2. s.at = Len(f) => NextMutation(f, s) = s
  BY DEF NextMutation
<1>. QED
  BY <1>1, <1>2

\* What a recursion over 0..n gives when g satisfies its equations.
Follows(h, n, f) ==
    h = [i \in 0..n |-> IF i = 0 THEN Start ELSE NextMutation(f, h[i - 1])]

LEMMA FollowsOnce ==
    ASSUME NEW n \in Nat, NEW f, NEW g, NEW h, Follows(g, n, f), Follows(h, n, f)
    PROVE  g[n] = h[n]
<1> DEFINE P == {i \in 0..n : g[i] = h[i]}
<1>1. 0 \in P
  BY DEF Follows
<1>2. ASSUME NEW i \in 1..n, i - 1 \in P
      PROVE  i \in P
  <2>1. g[i] = NextMutation(f, g[i - 1]) /\ h[i] = NextMutation(f, h[i - 1])
    BY DEF Follows
  <2>. QED
    BY <1>2, <2>1
<1> HIDE DEF P
<1>3. \A i \in 0..n : i \in P
  BY <1>1, <1>2, InductionUpto, Zenon
<1>. QED
  BY <1>3 DEF P

\* The walk over a chain yields its data.
LEMMA ChainWalks ==
    ASSUME NEW f \in Seq(Cell), NEW o, Chain(f, o)
    PROVE  Walk(f) = o
<1>0. PICK n \in 0..Len(f) : \E w : Turns(f, w, n) /\ w[n].got = o
  BY DEF Chain
<1>1. PICK w : Turns(f, w, n) /\ w[n].got = o
  BY <1>0
<1>2. Len(f) \in Nat /\ n \in Nat /\ n <= Len(f)
  OBVIOUS
<1> DEFINE m == Len(f)
           g == [i \in 0..m |-> IF i <= n THEN w[i] ELSE w[n]]
           h == CHOOSE h : h = [i \in 0..m |-> IF i = 0 THEN [at |-> ArchiveSize, got |-> << >>]
                                               ELSE NextMutation(f, h[i - 1])]
<1>3. ASSUME NEW i \in 0..m
      PROVE  g[i] = IF i = 0 THEN Start ELSE NextMutation(f, g[i - 1])
  <2>1. CASE i = 0
    BY <1>1, <1>2, <2>1 DEF Turns
  <2>2. CASE i # 0 /\ i <= n
    <3>1. i \in 1..n /\ i - 1 \in 0..m /\ i - 1 <= n
      BY <1>2, <2>2
    <3>2. g[i] = w[i] /\ g[i - 1] = w[i - 1]
      BY <2>2, <3>1
    <3>3. Sound(f, w[i - 1].at) /\ w[i] = Behind(f, w[i - 1])
      BY <1>1, <3>1 DEF Turns
    <3>. QED
      BY <2>2, <3>2, <3>3, TurnIs
  <2>3. CASE i > n
    <3>1. i # 0 /\ i - 1 \in 0..m /\ (i - 1 <= n => i - 1 = n)
      BY <1>2, <2>3
    <3>2. g[i] = w[n] /\ g[i - 1] = w[n]
      BY <1>2, <2>3, <3>1
    <3>3. w[n].at = Len(f)
      BY <1>1 DEF Turns
    <3>. QED
      BY <3>1, <3>2, <3>3, TurnIs
  <2>. QED
    BY <1>2, <2>1, <2>2, <2>3
<1>4. Follows(g, m, f)
  <2>1. g = [i \in 0..m |-> g[i]]
    OBVIOUS
  <2> HIDE DEF g
  <2>. QED
    BY <1>3, <2>1 DEF Follows
<1>5. g[m].got = o
  <2>1. m \in 0..m /\ (m <= n => m = n)
    BY <1>2
  <2>. QED
    BY <1>1, <2>1
<1> HIDE DEF g
<1>6. Follows(h, m, f)
  BY <1>4 DEF Follows, Start
<1>7. Walk(f) = h[m].got
  BY DEF Walk
<1> HIDE DEF h, m
<1>. QED
  BY <1>2, <1>4, <1>5, <1>6, <1>7, FollowsOnce DEF m

\* g is f with the mutation of data at its end.
Extended(g, f, data) ==
    /\ Len(g) = Len(f) + 2 + Len(data)
    /\ \A i \in 1..Len(f) : g[i] = f[i]
    /\ g[Len(f) + 1] = Magic /\ g[Len(f) + 2] = Size(data)
    /\ \A i \in 1..Len(data) : g[Len(f) + 2 + i] = Datum(data[i])

\* The remainder of what is smaller.
LEMMA Remains ==
    ASSUME NEW m \in Nat \ {0}, NEW x \in Nat, x < m
    PROVE  x % m = x
<1>1. x \div m = 0
  <2>1. 0 * m <= x /\ x < 0 * m + m
    OBVIOUS
  <2>. QED
    BY <2>1, QuotientIs
<1>2. x = m * (x \div m) + (x % m) /\ x % m \in Nat
  OBVIOUS
<1>3. m * 0 = 0
  OBVIOUS
<1>. QED
  BY <1>1, <1>2, <1>3

\* A mutation that its size field can count makes the chain longer by its data.
LEMMA ChainExtends ==
    ASSUME NEW f \in Seq(Cell), NEW g \in Seq(Cell), NEW o \in Seq(Nat), NEW data \in Seq(Nat),
           Chain(f, o), Extended(g, f, data), Len(data) < SizeLimit
    PROVE  Chain(g, o \o data)
<1>0. PICK n \in 0..Len(f) : \E w : Turns(f, w, n) /\ w[n].got = o
  BY DEF Chain
<1>1. PICK w : Turns(f, w, n) /\ w[n].got = o
  BY <1>0
<1>2. /\ Len(f) \in Nat /\ Len(g) \in Nat /\ Len(data) \in Nat /\ n \in Nat /\ n <= Len(f)
      /\ Len(g) = Len(f) + 2 + Len(data) /\ \A i \in 1..Len(f) : g[i] = f[i]
  BY DEF Extended
\* The old mutations are found as before.
<1>3. ASSUME NEW c, Sound(f, c)
      PROVE  /\ Sound(g, c) /\ Data(g, c) = Data(f, c)
             /\ g[c + 2].val = f[c + 2].val
  <2>1. c \in Nat /\ c + 1 \in 1..Len(f) /\ c + 2 \in 1..Len(f) /\ f[c + 1] = Magic
        /\ c + 2 + f[c + 2].val <= Len(f)
    BY <1>2, <1>3 DEF Sound
  <2>2. g[c + 1] = f[c + 1] /\ g[c + 2] = f[c + 2]
    BY <1>2, <2>1
  <2>3. f[c + 2].val \in Nat
    <3>1. f[c + 2] \in Cell
      BY <2>1
    <3>. QED
      BY <3>1 DEF Cell
  <2> DEFINE v == f[c + 2].val
  <2>4. g[c + 2].val = v
    BY <2>2
  <2>5. c + 2 + v <= Len(g) /\ c + 2 <= Len(g) /\ \A i \in 1..v : c + 2 + i \in 1..Len(f)
    <3> HIDE DEF v
    <3>1. v \in Nat /\ c + 2 + v <= Len(f)
      BY <2>1, <2>3 DEF v
    <3>. QED
      BY <1>2, <2>1, <3>1
  <2>6. Sound(g, c)
    BY <2>1, <2>2, <2>4, <2>5 DEF Sound
  <2>7. \A i \in 1..v : g[c + 2 + i].val = f[c + 2 + i].val
    BY <1>2, <2>5
  <2>8. Data(g, c) = Data(f, c)
    BY <2>4, <2>7 DEF Data
  <2>. QED
    BY <2>4, <2>6, <2>8
\* The new one is found behind them.
<1>4. /\ Sound(g, Len(f)) /\ Data(g, Len(f)) = data
      /\ Len(f) + 2 + g[Len(f) + 2].val = Len(g)
  <2>1. Size(data).val = Len(data)
    <3>1. Len(data) % SizeLimit = Len(data)
      BY <1>2, BoundsAssumption, Remains
    <3>. QED
      BY <3>1 DEF Size
  <2>2. g[Len(f) + 1] = Magic /\ g[Len(f) + 2].val = Len(data)
    BY <2>1 DEF Extended
  <2>3. \A i \in 1..Len(data) : g[Len(f) + 2 + i].val = data[i]
    <3>1. \A i \in 1..Len(data) : g[Len(f) + 2 + i] = Datum(data[i])
      BY DEF Extended
    <3>2. \A d : Datum(d).val = d
      BY DEF Datum
    <3>. QED
      BY <3>1, <3>2, Zenon
  <2>4. data = [i \in 1..Len(data) |-> data[i]]
    OBVIOUS
  <2>5. Data(g, Len(f)) = data
    BY <2>2, <2>3, <2>4 DEF Data
  <2>6. Sound(g, Len(f))
    BY <1>2, <2>2 DEF Sound
  <2>. QED
    BY <1>2, <2>2, <2>5, <2>6
<1> DEFINE s == [at |-> Len(g), got |-> o \o data]
           u == [i \in 0..(n + 1) |-> IF i <= n THEN w[i] ELSE s]
<1>5. /\ n + 1 \in 0..Len(g) /\ n + 1 \in 0..(n + 1) /\ ~(n + 1 <= n) /\ (n + 1) - 1 = n
      /\ 0 \in 0..(n + 1) /\ 0 <= n
      /\ \A i \in 0..n : i \in 0..(n + 1) /\ i <= n
      /\ \A i \in 1..n : i \in 0..n /\ i - 1 \in 0..n
      /\ \A i \in 1..(n + 1) : i \in 1..n \/ i = n + 1
      /\ n \in 0..n
  BY <1>2
<1>6. u[n + 1] = s /\ \A i \in 0..n : u[i] = w[i]
  BY <1>5
<1> HIDE DEF u
<1>7. ASSUME NEW i \in 1..(n + 1)
      PROVE  Sound(g, u[i - 1].at) /\ u[i] = Behind(g, u[i - 1])
  <2>1. CASE i \in 1..n
    <3>1. u[i] = w[i] /\ u[i - 1] = w[i - 1]
      BY <1>5, <1>6, <2>1
    <3>2. Sound(f, w[i - 1].at) /\ w[i] = Behind(f, w[i - 1])
      BY <1>1, <2>1 DEF Turns
    <3>. QED
      BY <1>3, <3>1, <3>2 DEF Behind
  <2>2. CASE i = n + 1
    <3>1. u[i] = s /\ u[i - 1] = w[n] /\ w[n].at = Len(f) /\ w[n].got = o
      BY <1>1, <1>5, <1>6, <2>2 DEF Turns
    <3>. QED
      BY <1>4, <3>1 DEF Behind
  <2>. QED
    BY <1>5, <2>1, <2>2
<1>8. Turns(g, u, n + 1)
  <2>1. u[0] = Start /\ u[n + 1].at = Len(g)
    BY <1>1, <1>5, <1>6 DEF Turns
  <2>. QED
    BY <1>7, <2>1 DEF Turns
<1>9. u[n + 1].got = o \o data
  <2>1. s.got = o \o data
    OBVIOUS
  <2> HIDE DEF s
  <2>. QED
    BY <1>6, <2>1
<1>. QED
  BY <1>5, <1>8, <1>9 DEF Chain

-----------------------------------------------------------------------------
(* What is in the chain, in memory and lost. *)

Rising(s) == \A i, j \in 1..Len(s) : i < j => s[i] < s[j]
Below(S, T) == \A x \in S, y \in T : x < y

\* Lost data are in no place from which they could still be written.
LostIsGone ==
    /\ Known(lost) /\ lost \cap SeqRange(buffer) = {}
    /\ \A p \in Procs : lost \cap Taken(p) = {}

InOrder == Rising(buffer) /\ \A p \in Procs : Rising(payload[p])

\* What was appended and is neither lost nor in memory.
Written == {d \in Surviving : \A p \in Procs : d \notin Taken(p)}
OutOfMemory(d) == /\ d \in 1..appended /\ d \notin lost
                  /\ d \notin SeqRange(buffer) /\ \A p \in Procs : d \notin Taken(p)

\* At most one commit is under way; f is the file without what it has written.
OneCommit ==
    /\ \A p, q \in Procs : Busy(p) /\ Busy(q) => p = q
    /\ \A p \in Procs : Busy(p) => Len(payload[p]) < SizeLimit
FileIs(f) ==
    /\ (\A p \in Procs : pc[p] # "body") => file = f
    /\ \A p \in Procs : InCommit(p) => pos[p] = Len(file)
    /\ \A p \in Procs : pc[p] = "body" => file = WriteAt(f, Len(f), Header(payload[p]))

Ordered(o) ==
    /\ Rising(o) /\ SeqRange(o) = Written
    /\ Below(SeqRange(o), SeqRange(buffer))
    /\ \A p \in Procs : Below(SeqRange(o), Taken(p)) /\ Below(Taken(p), SeqRange(buffer))

ChainInv ==
    /\ LostIsGone /\ InOrder
    /\ flaws = {} => /\ OneCommit
                     /\ \E f \in Seq(Cell), o \in Seq(Nat) : Chain(f, o) /\ FileIs(f) /\ Ordered(o)

\* The elements of a sequence with one more, and of two in a row; rising ones.
LEMMA RangeAppend ==
    ASSUME NEW s \in Seq(Nat), NEW x \in Nat
    PROVE  SeqRange(Append(s, x)) = SeqRange(s) \cup {x}
<1>1. \A i \in 1..Len(s) : Append(s, x)[i] = s[i]
  OBVIOUS
<1>2. /\ DOMAIN Append(s, x) = 1..(Len(s) + 1) /\ DOMAIN s = 1..Len(s)
      /\ Append(s, x)[Len(s) + 1] = x
  OBVIOUS
<1>3. 1..(Len(s) + 1) = 1..Len(s) \cup {Len(s) + 1}
  OBVIOUS
<1>4. SeqRange(Append(s, x)) = {Append(s, x)[i] : i \in 1..Len(s) \cup {Len(s) + 1}}
  BY <1>2, <1>3 DEF SeqRange
<1>5. SeqRange(s) = {s[i] : i \in 1..Len(s)}
  BY <1>2 DEF SeqRange
<1>. QED
  BY <1>1, <1>2, <1>4, <1>5

LEMMA RangeJoin ==
    ASSUME NEW s \in Seq(Nat), NEW t \in Seq(Nat)
    PROVE  SeqRange(s \o t) = SeqRange(s) \cup SeqRange(t)
<1> DEFINE u == s \o t
           m == Len(s)
           n == Len(t)
<1>1. /\ m \in Nat /\ n \in Nat /\ DOMAIN u = 1..(m + n) /\ DOMAIN s = 1..m /\ DOMAIN t = 1..n
      /\ \A i \in 1..m : u[i] = s[i]
      /\ \A i \in 1..n : u[m + i] = t[i]
  BY ConcatIs
<1> HIDE DEF u, m, n
<1>2. /\ \A i \in 1..m : i \in 1..(m + n)
      /\ \A i \in 1..n : m + i \in 1..(m + n)
      /\ \A i \in 1..(m + n) : i \in 1..m \/ (i - m \in 1..n /\ m + (i - m) = i)
  BY <1>1
<1>3. ASSUME NEW x \in SeqRange(u)
      PROVE  x \in SeqRange(s) \cup SeqRange(t)
  <2>1. PICK i \in 1..(m + n) : x = u[i]
    BY <1>1 DEF SeqRange
  <2>2. CASE i \in 1..m
    BY <1>1, <2>1, <2>2 DEF SeqRange
  <2>3. CASE i - m \in 1..n /\ m + (i - m) = i
    <3>1. x = t[i - m]
      BY <1>1, <2>1, <2>3
    <3>. QED
      BY <1>1, <2>3, <3>1 DEF SeqRange
  <2>. QED
    BY <1>2, <2>2, <2>3
<1>4. ASSUME NEW x \in SeqRange(s)
      PROVE  x \in SeqRange(u)
  BY <1>1, <1>2 DEF SeqRange
<1>5. ASSUME NEW x \in SeqRange(t)
      PROVE  x \in SeqRange(u)
  <2>1. PICK i \in 1..n : x = t[i]
    BY <1>1 DEF SeqRange
  <2>2. m + i \in DOMAIN u /\ x = u[m + i]
    BY <1>1, <1>2, <2>1
  <2>. QED
    BY <2>2 DEF SeqRange
<1>. QED
  BY <1>3, <1>4, <1>5 DEF u

LEMMA RisingAppend ==
    ASSUME NEW s \in Seq(Nat), NEW x \in Nat, Rising(s), Below(SeqRange(s), {x})
    PROVE  Rising(Append(s, x))
<1>1. /\ Len(Append(s, x)) = Len(s) + 1 /\ Append(s, x)[Len(s) + 1] = x
      /\ \A i \in 1..Len(s) : Append(s, x)[i] = s[i]
  OBVIOUS
<1>2. \A i \in 1..Len(s) : s[i] < x
  <2>1. \A i \in 1..Len(s) : s[i] \in SeqRange(s)
    BY DEF SeqRange
  <2>. QED
    BY <2>1 DEF Below
<1>3. ASSUME NEW i \in 1..(Len(s) + 1), NEW j \in 1..(Len(s) + 1), i < j
      PROVE  Append(s, x)[i] < Append(s, x)[j]
  <2>1. i \in 1..Len(s) /\ (j \in 1..Len(s) \/ j = Len(s) + 1)
    BY <1>3
  <2>. QED
    BY <1>1, <1>2, <1>3, <2>1 DEF Rising
<1>. QED
  BY <1>1, <1>3 DEF Rising

LEMMA RisingJoin ==
    ASSUME NEW s \in Seq(Nat), NEW t \in Seq(Nat), Rising(s), Rising(t),
           Below(SeqRange(s), SeqRange(t))
    PROVE  Rising(s \o t)
<1> DEFINE u == s \o t
           m == Len(s)
           n == Len(t)
<1>1. /\ m \in Nat /\ n \in Nat /\ Len(u) = m + n
      /\ \A i \in 1..m : u[i] = s[i]
      /\ \A i \in 1..n : u[m + i] = t[i]
  BY ConcatIs
<1>2. \A i \in 1..m, j \in 1..n : s[i] < t[j]
  <2>1. /\ \A i \in 1..m : s[i] \in SeqRange(s)
        /\ \A i \in 1..n : t[i] \in SeqRange(t)
    BY DEF SeqRange
  <2>. QED
    BY <2>1 DEF Below
<1>3. /\ \A i, j \in 1..m : i < j => s[i] < s[j]
      /\ \A i, j \in 1..n : i < j => t[i] < t[j]
  BY DEF Rising
<1> HIDE DEF u, m, n
<1>4. ASSUME NEW i \in 1..(m + n), NEW j \in 1..(m + n), i < j
      PROVE  u[i] < u[j]
  <2>1. \A k \in 1..(m + n) : k \in 1..m \/ (k - m \in 1..n /\ m + (k - m) = k)
    BY <1>1
  <2>2. CASE i \in 1..m /\ j \in 1..m
    BY <1>1, <1>3, <1>4, <2>2
  <2>3. CASE i \in 1..m /\ j \notin 1..m
    <3>1. u[i] = s[i] /\ j - m \in 1..n /\ u[j] = t[j - m]
      BY <1>1, <2>1, <2>3
    <3>. QED
      BY <1>2, <2>3, <3>1
  <2>4. CASE i \notin 1..m /\ j \notin 1..m
    <3>1. i - m \in 1..n /\ j - m \in 1..n /\ i - m < j - m
      BY <1>1, <1>4, <2>1, <2>4
    <3>2. u[i] = t[i - m] /\ u[j] = t[j - m]
      BY <1>1, <2>1, <2>4
    <3>. QED
      BY <1>3, <3>1, <3>2
  <2>5. ~(i \notin 1..m /\ j \in 1..m)
    BY <1>1, <1>4
  <2>. QED
    BY <2>2, <2>3, <2>4, <2>5
<1>. QED
  BY <1>1, <1>4 DEF Rising, u

-----------------------------------------------------------------------------
(* One step.  What holds of the state before it, by name. *)

LEMMA Before ==
    ASSUME IInv, ChainInv
    PROVE  /\ file \in Seq(Cell) /\ buffer \in Seq(Nat) /\ payload \in [Procs -> Seq(Nat)]
           /\ pos \in [Procs -> Nat] /\ appended \in Nat
           /\ pc \in [Procs -> {"idle", "open", "header", "body", "gone"}]
           /\ Known(SeqRange(buffer)) /\ \A p \in Procs : Known(Taken(p))
           /\ \A p \in Procs : Taken(p) \cap SeqRange(buffer) = {}
           /\ \A p, q \in Procs : p # q => Taken(p) \cap Taken(q) = {}
           /\ LostIsGone /\ InOrder
BY DEF IInv, TypeOK, OwnData, CommittedOnce, ChainInv, Taken, Known

\* What is to be shown of the state after it; whether a file is a chain depends on
\* no variable.
LEMMA ChainLater ==
    ASSUME LostIsGone', InOrder',
           flaws' = {} => /\ OneCommit'
                          /\ \E f \in Seq(Cell), o \in Seq(Nat) :
                                Chain(f, o) /\ FileIs(f)' /\ Ordered(o)'
    PROVE  ChainInv'
<1>1. \A f, o : Chain(f, o)' = Chain(f, o)
  BY DEF Chain, Turns
<1>2. (flaws = {} => /\ OneCommit
                     /\ \E f \in Seq(Cell), o \in Seq(Nat) :
                           Chain(f, o) /\ FileIs(f) /\ Ordered(o))'
  BY <1>1
<1>. QED
  BY <1>2 DEF ChainInv

\* A step that only changes what the chain does not depend on.
LEMMA ChainSame ==
    ASSUME ChainInv, UNCHANGED <<file, buffer, pc, payload, pos, appended, lost, flaws>>
    PROVE  ChainInv'
<1>1. \A p \in Procs : Taken(p)' = Taken(p) /\ Busy(p)' = Busy(p) /\ InCommit(p)' = InCommit(p)
  BY DEF Taken, Busy, InCommit
<1>2. LostIsGone' /\ InOrder'
  BY <1>1 DEF ChainInv, LostIsGone, InOrder, Known
<1>3. ASSUME flaws' = {}
      PROVE  OneCommit' /\ \E f \in Seq(Cell), o \in Seq(Nat) :
                              Chain(f, o) /\ FileIs(f)' /\ Ordered(o)'
  <2>1. PICK f \in Seq(Cell), o \in Seq(Nat) : Chain(f, o) /\ FileIs(f) /\ Ordered(o)
    BY <1>3 DEF ChainInv
  <2>2. OneCommit'
    BY <1>1, <1>3 DEF ChainInv, OneCommit
  <2>3. FileIs(f)'
    BY <1>1, <2>1 DEF FileIs
  <2>4. Written' = Written
    BY <1>1 DEF Written, Surviving
  <2>5. Ordered(o)'
    BY <1>1, <2>1, <2>4 DEF Ordered
  <2>. QED
    BY <2>1, <2>2, <2>3, <2>5
<1>. QED
  BY <1>2, <1>3, ChainLater

\* Append: the new datum is above all others.
LEMMA ChainAppend ==
    ASSUME IInv, ChainInv, NEW h \in Handlers, AppendData(h)
    PROVE  ChainInv'
<1> USE Before
<1>1. /\ buffer' = Append(buffer, appended + 1) /\ appended' = appended + 1
      /\ UNCHANGED <<file, pc, payload, pos, lost, flaws>>
  BY DEF AppendData, commit
<1> DEFINE x == appended + 1
<1>2. SeqRange(buffer') = SeqRange(buffer) \cup {x} /\ x \in Nat
  BY <1>1, RangeAppend
<1>3. x \notin 1..appended /\ 1..(appended + 1) = 1..appended \cup {x} /\ Below(1..appended, {x})
  BY DEF Below
<1>4. \A p \in Procs : /\ Taken(p)' = Taken(p) /\ Busy(p)' = Busy(p)
                        /\ InCommit(p)' = InCommit(p)
  BY <1>1 DEF Taken, Busy, InCommit
<1> HIDE DEF x
<1>5. LostIsGone'
  BY <1>1, <1>2, <1>3, <1>4 DEF LostIsGone, Known
<1>6. InOrder'
  <2>1. Below(SeqRange(buffer), {x})
    BY <1>3 DEF Below, Known
  <2>2. Rising(buffer')
    BY <1>1, <1>2, <2>1, RisingAppend DEF InOrder, x
  <2>. QED
    BY <1>1, <2>2 DEF InOrder
<1>7. ASSUME flaws' = {}
      PROVE  OneCommit' /\ \E f \in Seq(Cell), o \in Seq(Nat) :
                              Chain(f, o) /\ FileIs(f)' /\ Ordered(o)'
  <2>1. PICK f \in Seq(Cell), o \in Seq(Nat) : Chain(f, o) /\ FileIs(f) /\ Ordered(o)
    BY <1>1, <1>7 DEF ChainInv
  <2>2. OneCommit'
    BY <1>1, <1>4, <1>7 DEF ChainInv, OneCommit
  <2>3. FileIs(f)'
    BY <1>1, <1>4, <2>1 DEF FileIs
  <2>4. Written' = Written
    BY <1>1, <1>2, <1>3, <1>4 DEF Written, Surviving, x
  <2>5. SeqRange(o) \subseteq 1..appended
    BY <2>1 DEF Ordered, Written, Surviving
  <2>6. Below(SeqRange(o), SeqRange(buffer)')
    BY <1>2, <1>3, <2>1, <2>5 DEF Ordered, Below
  <2>7. \A p \in Procs : Below(SeqRange(o), Taken(p)) /\ Below(Taken(p), SeqRange(buffer)')
    BY <1>2, <1>3, <2>1 DEF Ordered, Below, Known
  <2>8. Ordered(o)'
    BY <1>4, <2>1, <2>4, <2>6, <2>7 DEF Ordered
  <2>. QED
    BY <2>1, <2>2, <2>3, <2>8
<1>. QED
  BY <1>5, <1>6, <1>7, ChainLater

\* Taking the buffer: nobody else has a payload, or the overlap is noted.
LEMMA ChainTake ==
    ASSUME IInv, ChainInv, NEW p \in Procs, Take(p), pc[p] = "idle"
    PROVE  ChainInv'
<1> USE Before
<1>1. /\ payload' = [payload EXCEPT ![p] = buffer] /\ buffer' = << >>
      /\ pc' = [pc EXCEPT ![p] = "open"]
      /\ UNCHANGED <<file, pos, appended, lost>>
  BY DEF Take
<1>2. /\ Taken(p)' = SeqRange(buffer) /\ Taken(p) = {}
      /\ \A q \in Procs : q # p => Taken(q)' = Taken(q)
  BY <1>1 DEF Taken, Busy, Writing
<1>3. SeqRange(buffer') = {} /\ Rising(buffer')
  BY <1>1 DEF SeqRange, Rising
<1>4. LostIsGone'
  BY <1>1, <1>2, <1>3 DEF LostIsGone, Known
<1>5. InOrder'
  <2>1. \A q \in Procs : payload'[q] = buffer \/ payload'[q] = payload[q]
    BY <1>1
  <2>. QED
    BY <1>3, <2>1 DEF InOrder
<1>6. ASSUME flaws' = {}
      PROVE  OneCommit' /\ \E f \in Seq(Cell), o \in Seq(Nat) :
                              Chain(f, o) /\ FileIs(f)' /\ Ordered(o)'
  <2>0. flaws = {} /\ (\A q \in Procs : ~Busy(q)) /\ ~(Len(buffer) >= SizeLimit)
    BY <1>6 DEF Take
  <2>1. PICK f \in Seq(Cell), o \in Seq(Nat) : Chain(f, o) /\ FileIs(f) /\ Ordered(o)
    BY <2>0 DEF ChainInv
  <2>2. \A q \in Procs : Busy(q)' => q = p
    BY <1>1, <2>0 DEF Busy, Writing
  <2>3. OneCommit'
    <3>1. payload'[p] = buffer /\ Len(buffer) < SizeLimit
      BY <1>1, <2>0, BoundsAssumption
    <3>. QED
      BY <2>2, <3>1 DEF OneCommit
  <2>4. \A q \in Procs : pc[q] # "body" /\ pc'[q] # "body" /\ ~InCommit(q)'
    BY <1>1, <2>0 DEF Busy, InCommit, Writing
  <2>5. FileIs(f)'
    BY <1>1, <2>1, <2>4 DEF FileIs
  <2>6. Written' = Written
    <3>1. \A d : /\ d \in Written <=> OutOfMemory(d)
                 /\ d \in Written' <=> OutOfMemory(d)'
      BY DEF Written, Surviving, OutOfMemory
    <3>2. \A d : OutOfMemory(d)' <=> OutOfMemory(d)
      BY <1>1, <1>2, <1>3 DEF OutOfMemory
    <3>. QED
      BY <3>1, <3>2
  <2>7. \A q \in Procs : Taken(q) = {} /\ (q # p => Taken(q)' = {})
    BY <1>2, <2>0 DEF Taken
  <2>8. Ordered(o)'
    BY <1>2, <1>3, <2>1, <2>6, <2>7 DEF Ordered, Below
  <2>. QED
    BY <2>1, <2>3, <2>5, <2>8
<1>. QED
  BY <1>4, <1>5, <1>6, ChainLater

\* What p had taken is lost.
LEMMA LostMore ==
    ASSUME IInv, ChainInv, NEW p \in Procs, lost' = lost \cup Taken(p), Taken(p)' = {},
           \A q \in Procs : q # p => Taken(q)' = Taken(q), UNCHANGED <<buffer, appended>>
    PROVE  LostIsGone'
<1>1. /\ Known(Taken(p)) /\ Taken(p) \cap SeqRange(buffer) = {} /\ LostIsGone
      /\ \A q \in Procs : q # p => Taken(p) \cap Taken(q) = {}
  BY Before
<1>2. Known(lost)'
  BY <1>1 DEF Known, LostIsGone
<1>3. lost' \cap SeqRange(buffer') = {}
  BY <1>1 DEF LostIsGone
<1>4. ASSUME NEW q \in Procs PROVE lost' \cap Taken(q)' = {}
  <2>1. CASE q = p
    BY <2>1
  <2>2. CASE q # p
    BY <1>1, <2>2 DEF LostIsGone
  <2>. QED
    BY <2>1, <2>2
<1>. QED
  BY <1>2, <1>3, <1>4 DEF LostIsGone

\* A process that has written nothing gives up what it took, if anything.
LEMMA ChainDrop ==
    ASSUME IInv, ChainInv, NEW p \in Procs, NEW s \in {"idle", "gone"}, pc[p] # "body",
           pc' = [pc EXCEPT ![p] = s], lost' = lost \cup Taken(p),
           UNCHANGED <<file, buffer, payload, pos, appended, flaws>>
    PROVE  ChainInv'
<1> USE Before
<1>2. /\ Taken(p)' = {} /\ \A q \in Procs : q # p => Taken(q)' = Taken(q)
      /\ \A q \in Procs : /\ Busy(q)' => Busy(q)
                          /\ InCommit(q)' => InCommit(q)
                          /\ pc'[q] = "body" <=> pc[q] = "body"
  BY DEF Taken, Busy, InCommit, Writing
<1>4. LostIsGone'
  BY <1>2, LostMore
<1>5. InOrder'
  BY DEF InOrder
<1>6. ASSUME flaws' = {}
      PROVE  OneCommit' /\ \E f \in Seq(Cell), o \in Seq(Nat) :
                              Chain(f, o) /\ FileIs(f)' /\ Ordered(o)'
  <2>1. PICK f \in Seq(Cell), o \in Seq(Nat) : Chain(f, o) /\ FileIs(f) /\ Ordered(o)
    BY <1>6 DEF ChainInv
  <2>3. OneCommit'
    BY <1>2, <1>6 DEF OneCommit, ChainInv
  <2>5. FileIs(f)'
    BY <1>2, <2>1 DEF FileIs
  <2>6. Written' = Written
    <3>1. \A d : /\ d \in Written <=> OutOfMemory(d)
                 /\ d \in Written' <=> OutOfMemory(d)'
      BY DEF Written, Surviving, OutOfMemory
    <3>2. \A d : OutOfMemory(d)' <=> OutOfMemory(d)
      <4> SUFFICES ASSUME NEW d
                   PROVE  OutOfMemory(d)' <=> OutOfMemory(d)
        OBVIOUS
      <4>1. (d \notin lost' /\ \A q \in Procs : d \notin Taken(q)')
               <=> (d \notin lost /\ \A q \in Procs : d \notin Taken(q))
        BY ONLY <1>2, lost' = lost \cup Taken(p), p \in Procs, Zenon
      <4>. QED
        BY <4>1 DEF OutOfMemory
    <3>. QED
      BY <3>1, <3>2
  <2>7. \A q \in Procs : Taken(q)' \subseteq Taken(q)
    BY <1>2
  <2>8. Ordered(o)'
    BY <2>1, <2>6, <2>7 DEF Ordered, Below
  <2>. QED
    BY <2>1, <2>3, <2>5, <2>8
<1>. QED
  BY <1>4, <1>5, <1>6, ChainLater

\* A commit goes on with its payload: what holds of the data does not change.
LEMMA ChainGoesOn ==
    ASSUME IInv, ChainInv, NEW p \in Procs, NEW s \in {"header", "body"}, Busy(p),
           pc' = [pc EXCEPT ![p] = s], UNCHANGED <<buffer, payload, appended, lost, flaws>>
    PROVE  /\ LostIsGone' /\ InOrder' /\ (OneCommit => OneCommit')
           /\ \A o : Ordered(o) => Ordered(o)'
<1> USE Before
<1>1. \A q \in Procs : Taken(q)' = Taken(q) /\ Busy(q)' = Busy(q)
  BY DEF Taken, Busy, Writing
<1>2. Written' = Written
  BY <1>1 DEF Written, Surviving
<1>3. LostIsGone' /\ InOrder'
  BY <1>1 DEF LostIsGone, InOrder, Known
<1>4. OneCommit => OneCommit'
  BY <1>1 DEF OneCommit
<1>5. \A o : Ordered(o) => Ordered(o)'
  BY <1>1, <1>2 DEF Ordered
<1>. QED
  BY <1>3, <1>4, <1>5

\* A write at the end of the file puts its cells behind the old ones.
Lengthened(w, f, cells) ==
    /\ w \in Seq(Cell) /\ Len(w) = Len(f) + Len(cells)
    /\ \A i \in 1..Len(f) : w[i] = f[i]
    /\ \A i \in 1..Len(cells) : w[Len(f) + i] = cells[i]

LEMMA WriteAtEnd ==
    ASSUME NEW f \in Seq(Cell), NEW cells \in Seq(Cell), NEW w, w = WriteAt(f, Len(f), cells)
    PROVE  Lengthened(w, f, cells)
<1> DEFINE m == Len(f)
           n == Len(cells)
<1>1. m \in Nat /\ n \in Nat /\ m \in 0..m /\ m + n \in Nat
  OBVIOUS
<1>2. w \in Seq(Cell)
  BY <1>1, WriteAtFacts
<1>3. w = [i \in 1..(m + n) |-> IF i > m /\ i <= m + n THEN cells[i - m] ELSE f[i]]
  <2>1. (IF m + n > m THEN m + n ELSE m) = m + n
    BY <1>1
  <2>. QED
    BY <2>1 DEF WriteAt
<1>4. DOMAIN w = 1..(m + n)
  BY <1>3
<1>5. Len(w) = m + n
  BY <1>1, <1>2, <1>4
<1> HIDE DEF m, n
<1>6. \A i \in 1..m : i \in 1..(m + n) /\ ~(i > m)
  BY <1>1
<1>7. \A i \in 1..n : m + i \in 1..(m + n) /\ m + i > m /\ m + i <= m + n /\ (m + i) - m = i
  BY <1>1
<1>8. (\A i \in 1..m : w[i] = f[i]) /\ \A i \in 1..n : w[m + i] = cells[i]
  BY <1>3, <1>6, <1>7
<1>. QED
  BY <1>2, <1>5, <1>8 DEF Lengthened, m, n

\* Header and payload one after the other are a mutation.
LEMMA CommitExtends ==
    ASSUME NEW f \in Seq(Cell), NEW data \in Seq(Nat), NEW g, NEW h,
           g = WriteAt(f, Len(f), Header(data)), h = WriteAt(g, Len(g), Body(data))
    PROVE  g \in Seq(Cell) /\ Len(g) = Len(f) + 2 /\ h \in Seq(Cell) /\ Extended(h, f, data)
<1>1. /\ Header(data) \in Seq(Cell) /\ Len(Header(data)) = 2
      /\ Body(data) \in Seq(Cell) /\ Len(Body(data)) = Len(data)
      /\ \A i \in 1..Len(data) : Body(data)[i] = Datum(data[i])
  BY CommitCells
<1>2. Header(data)[1] = Magic /\ Header(data)[2] = Size(data)
  BY DEF Header
<1>3. /\ g \in Seq(Cell) /\ Len(g) = Len(f) + 2
      /\ \A i \in 1..Len(f) : g[i] = f[i]
      /\ g[Len(f) + 1] = Magic /\ g[Len(f) + 2] = Size(data)
  <2>1. /\ g \in Seq(Cell) /\ Len(g) = Len(f) + 2
        /\ \A i \in 1..Len(f) : g[i] = f[i]
        /\ \A i \in 1..2 : g[Len(f) + i] = Header(data)[i]
    <3>1. Lengthened(g, f, Header(data))
      BY <1>1, WriteAtEnd, Zenon
    <3>. QED
      BY <1>1, <3>1 DEF Lengthened
  <2>. QED
    BY <1>2, <2>1, 1 \in 1..2, 2 \in 1..2
<1>4. /\ h \in Seq(Cell) /\ Len(h) = Len(g) + Len(data)
      /\ \A i \in 1..Len(g) : h[i] = g[i]
      /\ \A i \in 1..Len(data) : h[Len(g) + i] = Datum(data[i])
  <2>1. Lengthened(h, g, Body(data))
    BY <1>1, <1>3, WriteAtEnd, Zenon
  <2>. QED
    BY <1>1, <2>1 DEF Lengthened
<1>5. /\ Len(f) \in Nat /\ \A i \in 1..Len(f) : i \in 1..Len(g)
      /\ Len(f) + 1 \in 1..Len(g) /\ Len(f) + 2 \in 1..Len(g)
  BY <1>3
<1>6. /\ Len(h) = Len(f) + 2 + Len(data)
      /\ \A i \in 1..Len(f) : h[i] = f[i]
      /\ h[Len(f) + 1] = Magic /\ h[Len(f) + 2] = Size(data)
  BY <1>3, <1>4, <1>5
<1>7. \A i \in 1..Len(data) : h[Len(f) + 2 + i] = Datum(data[i])
  BY <1>3, <1>4
<1>. QED
  BY <1>3, <1>4, <1>6, <1>7 DEF Extended

\* The only commit under way.
LEMMA Alone ==
    ASSUME OneCommit, NEW p \in Procs, Busy(p)
    PROVE  \A q \in Procs : q # p => ~Busy(q) /\ ~InCommit(q) /\ pc[q] # "body"
BY DEF OneCommit, Busy, InCommit, Writing

\* Open and seek: the descriptor is at the end of the file.
LEMMA ChainSeek ==
    ASSUME IInv, ChainInv, NEW p \in Procs, SeekEnd(p)
    PROVE  ChainInv'
<1> USE Before
<1>1. /\ pc[p] = "open" /\ pos' = [pos EXCEPT ![p] = Len(file)]
      /\ pc' = [pc EXCEPT ![p] = "header"]
      /\ UNCHANGED <<file, buffer, payload, appended, lost, flaws>>
  BY DEF SeekEnd
<1>2. Busy(p)
  BY <1>1 DEF Busy
<1>3. /\ LostIsGone' /\ InOrder' /\ (OneCommit => OneCommit')
      /\ \A o : Ordered(o) => Ordered(o)'
  BY <1>1, <1>2, ChainGoesOn
<1>4. ASSUME flaws' = {}
      PROVE  OneCommit' /\ \E f \in Seq(Cell), o \in Seq(Nat) :
                              Chain(f, o) /\ FileIs(f)' /\ Ordered(o)'
  <2>0. OneCommit
    BY <1>1, <1>4 DEF ChainInv
  <2>1. PICK f \in Seq(Cell), o \in Seq(Nat) : Chain(f, o) /\ FileIs(f) /\ Ordered(o)
    BY <1>1, <1>4 DEF ChainInv
  <2>2. \A q \in Procs : q # p => ~Busy(q) /\ ~InCommit(q) /\ pc[q] # "body"
    BY <1>2, <2>0, Alone
  <2>3. file = f
    BY <1>1, <2>1, <2>2 DEF FileIs
  <2>4. \A q \in Procs : pc'[q] # "body" /\ (InCommit(q)' => q = p)
    BY <1>1, <2>2 DEF InCommit
  <2>5. FileIs(f)'
    BY <1>1, <2>3, <2>4 DEF FileIs
  <2>. QED
    BY <1>3, <2>0, <2>1, <2>5
<1>. QED
  BY <1>3, <1>4, ChainLater

\* The header is written at the end of the chain.
LEMMA ChainHeader ==
    ASSUME IInv, ChainInv, NEW p \in Procs, WriteHeader(p)
    PROVE  ChainInv'
<1> USE Before
<1>1. /\ pc[p] = "header" /\ pos' = [pos EXCEPT ![p] = @ + 2]
      /\ pc' = [pc EXCEPT ![p] = "body"] /\ file' = WriteAt(file, pos[p], Header(payload[p]))
      /\ UNCHANGED <<buffer, payload, appended, lost, flaws>>
  BY DEF WriteHeader
<1>2. Busy(p) /\ InCommit(p)
  BY <1>1 DEF Busy, InCommit, Writing
<1>3. /\ LostIsGone' /\ InOrder' /\ (OneCommit => OneCommit')
      /\ \A o : Ordered(o) => Ordered(o)'
  BY <1>1, <1>2, ChainGoesOn
<1>4. ASSUME flaws' = {}
      PROVE  OneCommit' /\ \E f \in Seq(Cell), o \in Seq(Nat) :
                              Chain(f, o) /\ FileIs(f)' /\ Ordered(o)'
  <2>0. OneCommit
    BY <1>1, <1>4 DEF ChainInv
  <2>1. PICK f \in Seq(Cell), o \in Seq(Nat) : Chain(f, o) /\ FileIs(f) /\ Ordered(o)
    BY <1>1, <1>4 DEF ChainInv
  <2>2. \A q \in Procs : q # p => ~Busy(q) /\ ~InCommit(q) /\ pc[q] # "body"
    BY <1>2, <2>0, Alone
  <2>3. file = f /\ pos[p] = Len(file)
    BY <1>1, <1>2, <2>1, <2>2 DEF FileIs
  <2>4. \A q \in Procs : (pc'[q] = "body" => q = p) /\ (InCommit(q)' => q = p)
    BY <1>1, <2>2 DEF InCommit
  <2>5. Len(file') = Len(file) + 2
    <3>1. Header(payload[p]) \in Seq(Cell) /\ Len(Header(payload[p])) = 2
      BY CommitCells
    <3>2. Lengthened(file', file, Header(payload[p]))
      BY <1>1, <2>3, <3>1, WriteAtEnd
    <3>. QED
      BY <3>1, <3>2 DEF Lengthened
  <2>6. pos'[p] = Len(file') /\ pc'[p] = "body"
    BY <1>1, <2>3, <2>5
  <2>7. FileIs(f)'
    BY <1>1, <2>3, <2>4, <2>6 DEF FileIs
  <2>. QED
    BY <1>3, <2>0, <2>1, <2>7
<1>. QED
  BY <1>3, <1>4, ChainLater

\* The payload completes the mutation; its data are the last of the chain.
LEMMA ChainBody ==
    ASSUME IInv, ChainInv, NEW p \in Procs, WriteBody(p)
    PROVE  ChainInv'
<1> USE Before
<1>1. /\ pc[p] = "body" /\ pc' = [pc EXCEPT ![p] = "idle"]
      /\ file' = WriteAt(file, pos[p], Body(payload[p]))
      /\ UNCHANGED <<buffer, payload, appended, lost, flaws>>
  BY DEF WriteBody, Finished
<1>2. Busy(p) /\ InCommit(p) /\ Taken(p) = SeqRange(payload[p])
  BY <1>1 DEF Busy, InCommit, Writing, Taken
<1>3. Taken(p)' = {} /\ \A q \in Procs : q # p => Taken(q)' = Taken(q)
  BY <1>1 DEF Taken, Busy, Writing
<1>4. LostIsGone' /\ InOrder'
  BY <1>1, <1>3 DEF LostIsGone, InOrder, Known
<1>5. ASSUME flaws' = {}
      PROVE  OneCommit' /\ \E f \in Seq(Cell), o \in Seq(Nat) :
                              Chain(f, o) /\ FileIs(f)' /\ Ordered(o)'
  <2>0. OneCommit /\ Len(payload[p]) < SizeLimit
    BY <1>1, <1>2, <1>5 DEF ChainInv, OneCommit
  <2>1. PICK f \in Seq(Cell), o \in Seq(Nat) : Chain(f, o) /\ FileIs(f) /\ Ordered(o)
    BY <1>1, <1>5 DEF ChainInv
  <2>2. \A q \in Procs : q # p => ~Busy(q) /\ ~InCommit(q) /\ pc[q] # "body"
    BY <1>2, <2>0, Alone
  <2>3. file = WriteAt(f, Len(f), Header(payload[p])) /\ pos[p] = Len(file)
    BY <1>1, <1>2, <2>1 DEF FileIs
  <2>4. \A q \in Procs : ~Busy(q)' /\ ~InCommit(q)' /\ pc'[q] # "body"
    BY <1>1, <2>2 DEF InCommit, Busy, Writing
  <2>5. file' \in Seq(Cell) /\ Extended(file', f, payload[p])
    BY <1>1, <2>3, CommitExtends
  <2>u. PICK u : u = o \o payload[p]
    OBVIOUS
  <2>g. PICK g : g = file'
    OBVIOUS
  <2>6. Chain(g, u) /\ g \in Seq(Cell) /\ u \in Seq(Nat)
    BY <2>0, <2>1, <2>5, <2>u, <2>g, ChainExtends
  <2>7. FileIs(g)'
    BY <2>4, <2>g DEF FileIs
  <2>8. OneCommit'
    BY <2>4 DEF OneCommit
  <2>9. SeqRange(u) = SeqRange(o) \cup Taken(p)
    BY <1>2, <2>u, RangeJoin
  <2>10. \A q \in Procs : Taken(q)' = {} /\ (q # p => Taken(q) = {})
    BY <1>3, <2>2 DEF Taken
  <2>11. SeqRange(u) = Written'
    <3>1. \A d : /\ d \in Written <=> OutOfMemory(d)
                 /\ d \in Written' <=> OutOfMemory(d)'
      BY DEF Written, Surviving, OutOfMemory
    <3>2. \A d \in Taken(p) : d \in 1..appended /\ d \notin lost /\ d \notin SeqRange(buffer)
      BY DEF Known, LostIsGone
    <3>3. \A d : OutOfMemory(d)' <=> OutOfMemory(d) \/ d \in Taken(p)
      BY <1>1, <2>10, <3>2 DEF OutOfMemory
    <3>4. SeqRange(o) = Written
      BY <2>1 DEF Ordered
    <3>. QED
      BY <2>9, <3>1, <3>3, <3>4
  <2>12. Rising(u)
    <3>1. Rising(o) /\ Rising(payload[p]) /\ Below(SeqRange(o), SeqRange(payload[p]))
      BY <1>2, <2>1 DEF Ordered, InOrder
    <3>. QED
      BY <2>u, <3>1, RisingJoin
  <2>13. Below(SeqRange(u), SeqRange(buffer))
    BY <2>1, <2>9 DEF Ordered, Below
  <2>14. Ordered(u)'
    BY <1>1, <2>10, <2>11, <2>12, <2>13 DEF Ordered, Below
  <2>. QED
    BY <2>6, <2>7, <2>8, <2>14
<1>. QED
  BY <1>4, <1>5, ChainLater

\* A torn commit is noted; what it had in hand is lost.
LEMMA ChainTorn ==
    ASSUME IInv, ChainInv, NEW p \in Procs, NEW k, WriteFails(p, k)
    PROVE  ChainInv'
<1> USE Before
<1>1. /\ InCommit(p) /\ pc' = [pc EXCEPT ![p] = "idle"] /\ flaws' = flaws \cup {"torn"}
      /\ lost' = lost \cup SeqRange(payload[p]) /\ UNCHANGED <<buffer, payload, appended>>
  BY DEF WriteFails, Finished
<1>2. /\ Taken(p) = SeqRange(payload[p]) /\ Taken(p)' = {}
      /\ \A q \in Procs : q # p => Taken(q)' = Taken(q)
  BY <1>1 DEF Taken, Busy, InCommit, Writing
<1>3. LostIsGone'
  BY <1>1, <1>2, LostMore
<1>4. InOrder'
  BY <1>1 DEF InOrder
<1>5. flaws' # {}
  BY <1>1
<1>. QED
  BY <1>3, <1>4, <1>5 DEF ChainInv

\* The end of the process: what was in memory is lost, a begun mutation noted.
LEMMA ChainExit ==
    ASSUME IInv, ChainInv, Exit
    PROVE  ChainInv'
<1> USE Before
<1>1. /\ lost' = lost \cup SeqRange(buffer)
                      \cup UNION {SeqRange(payload[p]) : p \in {q \in Procs : Busy(q)}}
      /\ flaws' = flaws \cup (IF \E p \in Procs : pc[p] = "body" THEN {"torn"} ELSE {})
      /\ buffer' = << >> /\ pc' = [p \in Procs |-> "gone"]
      /\ UNCHANGED <<file, payload, pos, appended>>
  BY DEF Exit
<1>2. /\ SeqRange(buffer') = {} /\ Rising(buffer')
      /\ \A q \in Procs : /\ Taken(q)' = {} /\ ~Busy(q)' /\ ~InCommit(q)' /\ pc'[q] # "body"
  BY <1>1 DEF Taken, Busy, InCommit, Writing, SeqRange, Rising
<1>3. \A d : d \in lost' <=> \/ d \in lost \/ d \in SeqRange(buffer)
                             \/ \E p \in Procs : d \in Taken(p)
  BY <1>1 DEF Taken
<1>4. LostIsGone'
  BY <1>1, <1>2, <1>3 DEF LostIsGone, Known
<1>5. InOrder'
  BY <1>1, <1>2 DEF InOrder
<1>6. ASSUME flaws' = {}
      PROVE  OneCommit' /\ \E f \in Seq(Cell), o \in Seq(Nat) :
                              Chain(f, o) /\ FileIs(f)' /\ Ordered(o)'
  <2>1. flaws = {} /\ \A q \in Procs : pc[q] # "body"
    BY <1>1, <1>6
  <2>2. PICK f \in Seq(Cell), o \in Seq(Nat) : Chain(f, o) /\ FileIs(f) /\ Ordered(o)
    BY <2>1 DEF ChainInv
  <2>3. OneCommit'
    BY <1>2 DEF OneCommit
  <2>4. FileIs(f)'
    BY <1>1, <1>2, <2>1, <2>2 DEF FileIs
  <2>5. Written' = Written
    <3>1. \A d : /\ d \in Written <=> OutOfMemory(d)
                 /\ d \in Written' <=> OutOfMemory(d)'
      BY DEF Written, Surviving, OutOfMemory
    <3>2. \A d : OutOfMemory(d)' <=> OutOfMemory(d)
      BY <1>1, <1>2, <1>3 DEF OutOfMemory
    <3>. QED
      BY <3>1, <3>2
  <2>6. Ordered(o)'
    BY <1>2, <2>2, <2>5 DEF Ordered, Below
  <2>. QED
    BY <2>2, <2>3, <2>4, <2>6
<1>. QED
  BY <1>4, <1>5, <1>6, ChainLater

\* No process runs and nothing is in memory while the file is not mounted.
DownIsEmpty == phase = "down" => buffer = << >> /\ \A p \in Procs : pc[p] = "gone"

LEMMA DownStep ==
    ASSUME TypeOK, DownIsEmpty, [Next]_vars
    PROVE  DownIsEmpty'
<1>1. ASSUME NEW p \in Procs, CommitStep(p)
      PROVE  DownIsEmpty'
  <2>1. pc[p] # "gone"
    BY <1>1 DEF CommitStep, OpenFails, SeekEnd, WriteHeader, WriteBody, WriteFails, InCommit,
                Writing
  <2>2. phase # "down" /\ phase' # "down"
    BY <1>1, <2>1 DEF DownIsEmpty, CommitStep, OpenFails, SeekEnd, WriteHeader, WriteBody,
                      WriteFails, Finished
  <2>. QED
    BY <2>2 DEF DownIsEmpty
<1>2. CASE Exit
  BY <1>2 DEF Exit, DownIsEmpty
<1>3. CASE Mount
  BY <1>3 DEF Mount, DownIsEmpty
<1>4. CASE (\E h \in Handlers : AppendData(h) \/ Flush(h)) \/ TryFlush \/ WorkerStops
           \/ Close \/ CloseFlush \/ CloseNothing
  <2>1. phase # "down" /\ phase' # "down"
    BY <1>4 DEF AppendData, Flush, TryFlush, WorkerStops, Close, CloseFlush, CloseNothing
  <2>. QED
    BY <2>1 DEF DownIsEmpty
<1>5. CASE SecondPasses \/ UNCHANGED vars
  BY <1>5 DEF SecondPasses, vars, commit, DownIsEmpty
<1>. QED
  BY <1>1, <1>2, <1>3, <1>4, <1>5 DEF Next

\* The file is mounted again.
LEMMA ChainMount ==
    ASSUME IInv, ChainInv, DownIsEmpty, Mount
    PROVE  ChainInv'
<1> USE Before
<1>1. /\ phase = "down" /\ buffer' = << >> /\ pc' = [p \in Procs |-> "idle"]
      /\ payload' = [p \in Procs |-> << >>] /\ UNCHANGED <<file, appended, lost, flaws>>
  BY DEF Mount
<1>2. /\ SeqRange(buffer') = {} /\ Rising(buffer') /\ SeqRange(buffer) = {}
      /\ \A q \in Procs : /\ Taken(q)' = {} /\ ~Busy(q)' /\ ~InCommit(q)' /\ pc'[q] # "body"
                          /\ Taken(q) = {} /\ pc[q] # "body"
  BY <1>1 DEF DownIsEmpty, Taken, Busy, InCommit, Writing, SeqRange, Rising
<1>3. LostIsGone'
  BY <1>1, <1>2 DEF LostIsGone, Known
<1>4. InOrder'
  BY <1>1, <1>2 DEF InOrder, Rising
<1>5. ASSUME flaws' = {}
      PROVE  OneCommit' /\ \E f \in Seq(Cell), o \in Seq(Nat) :
                              Chain(f, o) /\ FileIs(f)' /\ Ordered(o)'
  <2>1. PICK f \in Seq(Cell), o \in Seq(Nat) : Chain(f, o) /\ FileIs(f) /\ Ordered(o)
    BY <1>1, <1>5 DEF ChainInv
  <2>2. OneCommit'
    BY <1>2 DEF OneCommit
  <2>3. FileIs(f)'
    BY <1>1, <1>2, <2>1 DEF FileIs
  <2>4. Written' = Written
    BY <1>1, <1>2 DEF Written, Surviving
  <2>5. Ordered(o)'
    BY <1>2, <2>1, <2>4 DEF Ordered, Below
  <2>. QED
    BY <2>1, <2>2, <2>3, <2>5
<1>. QED
  BY <1>3, <1>4, <1>5, ChainLater

\* Every step keeps the chain.
LEMMA ChainStep ==
    ASSUME IInv, ChainInv, DownIsEmpty, [Next]_vars
    PROVE  ChainInv'
<1>p. Worker \in Procs /\ Closer \in Procs /\ Handlers \subseteq Procs
  BY DEF Procs
<1>1. ASSUME NEW h \in Handlers, AppendData(h) PROVE ChainInv'
  BY <1>1, ChainAppend
<1>2. ASSUME NEW h \in Handlers, Flush(h) PROVE ChainInv'
  BY <1>2, <1>p, ChainTake DEF Flush
<1>3. CASE TryFlush \/ CloseFlush
  BY <1>3, <1>p, ChainTake DEF TryFlush, CloseFlush
<1>4. CASE SecondPasses \/ Close \/ CloseNothing \/ UNCHANGED vars
  BY <1>4, ChainSame DEF SecondPasses, Close, CloseNothing, vars, commit
<1>5. CASE WorkerStops
  <2>1. /\ pc[Worker] = "idle" /\ pc' = [pc EXCEPT ![Worker] = "gone"]
        /\ UNCHANGED <<file, buffer, payload, pos, appended, lost, flaws>>
    BY <1>5 DEF WorkerStops
  <2>2. Taken(Worker) = {}
    BY <2>1 DEF Taken, Busy, Writing
  <2>. QED
    BY <1>p, <2>1, <2>2, ChainDrop
<1>6. ASSUME NEW p \in Procs, OpenFails(p) PROVE ChainInv'
  <2>1. /\ pc[p] = "open" /\ pc' = [pc EXCEPT ![p] = "idle"]
        /\ lost' = lost \cup SeqRange(payload[p])
        /\ UNCHANGED <<file, buffer, payload, pos, appended, flaws>>
    BY <1>6 DEF OpenFails, Finished
  <2>2. Taken(p) = SeqRange(payload[p])
    BY <2>1 DEF Taken, Busy
  <2>. QED
    BY <2>1, <2>2, ChainDrop
<1>7. ASSUME NEW p \in Procs, CommitStep(p) PROVE ChainInv'
  BY <1>6, <1>7, ChainSeek, ChainHeader, ChainBody, ChainTorn DEF CommitStep
<1>8. CASE Exit
  BY <1>8, ChainExit
<1>9. CASE Mount
  BY <1>9, ChainMount
<1>. QED
  BY <1>1, <1>2, <1>3, <1>4, <1>5, <1>7, <1>8, <1>9 DEF Next

\* A fresh mount: the archive alone is an empty chain.
LEMMA ChainInitially == Init => ChainInv /\ DownIsEmpty
<1> SUFFICES ASSUME Init PROVE ChainInv /\ DownIsEmpty
  OBVIOUS
<1>1. file \in Seq(Cell) /\ Len(file) = ArchiveSize /\ ArchiveSize \in Nat
  <2>1. Archive \in Cell /\ ArchiveSize \in Nat
    BY BoundsAssumption DEF Archive, Cell
  <2>. QED
    BY <2>1 DEF Init
<1>2. /\ SeqRange(buffer) = {} /\ Rising(buffer) /\ SeqRange(<< >>) = {} /\ Rising(<< >>)
      /\ \A q \in Procs : Taken(q) = {} /\ ~Busy(q) /\ ~InCommit(q) /\ pc[q] # "body"
                          /\ Rising(payload[q])
      /\ Surviving = {} /\ lost = {}
  BY DEF Init, Taken, Busy, InCommit, Writing, SeqRange, Rising, Surviving
<1>3. LostIsGone /\ InOrder /\ OneCommit
  BY <1>2 DEF LostIsGone, InOrder, OneCommit, Known
<1>4. PICK f \in Seq(Cell) : f = file
  BY <1>1
<1>5. FileIs(f)
  BY <1>2, <1>4 DEF FileIs
<1>6. Chain(f, << >>)
  <2> DEFINE w == [i \in 0..0 |-> Start]
  <2>1. w[0] = Start
    OBVIOUS
  <2> HIDE DEF w
  <2>2. Turns(f, w, 0) /\ w[0].got = << >>
    BY <1>1, <1>4, <2>1 DEF Turns, Start
  <2>. QED
    BY <1>1, <1>4, <2>2, 0 \in 0..ArchiveSize DEF Chain
<1>7. << >> \in Seq(Nat) /\ Ordered(<< >>)
  BY <1>2 DEF Ordered, Written, Below
<1>8. DownIsEmpty
  BY DEF Init, DownIsEmpty
<1>. QED
  BY <1>3, <1>5, <1>6, <1>7, <1>8 DEF ChainInv

\* As long as no flush overlapped another, no commit was torn and none exceeded
\* the size field, the mutations on disk are a chain that holds every write that
\* is neither lost nor in memory, in the order of the Append calls, for any
\* number of handlers, writes and mounts (AppendMutation, mutator.go:15-45).
THEOREM ChainSound == Spec => []ChainHoldsWrites
<1>1. IInv /\ (ChainInv /\ DownIsEmpty) /\ [Next]_vars => ChainInv' /\ DownIsEmpty'
  BY ChainStep, DownStep DEF IInv
<1>2. IInv /\ ChainInv => ChainHoldsWrites
  <2> SUFFICES ASSUME IInv, ChainInv, Idle, flaws = {}
               PROVE  /\ SeqRange(Walk(file)) = Surviving
                      /\ Rising(Walk(file))
    BY DEF ChainHoldsWrites, Rising
  <2>1. PICK f \in Seq(Cell), o \in Seq(Nat) : Chain(f, o) /\ FileIs(f) /\ Ordered(o)
    BY DEF ChainInv
  <2>2. \A p \in Procs : pc[p] # "body" /\ Taken(p) = {}
    BY DEF Idle, Busy, Writing, Taken
  <2>3. Walk(file) = o
    BY <2>1, <2>2, ChainWalks DEF FileIs
  <2>4. Written = Surviving
    BY <2>2 DEF Written
  <2>. QED
    BY <2>1, <2>3, <2>4 DEF Ordered
<1>. QED
  BY <1>1, <1>2, Inductive, ChainInitially, PTL DEF Spec
=============================================================================
