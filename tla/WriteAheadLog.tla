--------------------------- MODULE WriteAheadLog -----------------------------
(***************************************************************************)
(* Writes to a mounted .crom file (internal/vfs/writer.go and the          *)
(* AppendMutation of pkg/cromlib/mutator.go).  FUSE handlers append to a   *)
(* buffer under a lock.  A background worker, Flush and Close take the     *)
(* whole buffer under the lock and, after releasing it, open the file on a *)
(* descriptor of their own, seek to its end, write a header and write the  *)
(* payload.                                                                *)
(*                                                                         *)
(* The bytes of one Append are one datum, numbered in the order in which   *)
(* Append got the lock.  The file is a sequence of cells: the archive, the *)
(* magic and the size of a mutation header, and data.                      *)
(***************************************************************************)
EXTENDS Naturals, Sequences, FiniteSets

CONSTANTS
    Handlers,     \* FUSE handlers
    Worker,       \* the goroutine of flushWorker
    Closer,       \* the goroutine that runs Mount and its deferred Close
    ArchiveSize,  \* cells of the .crom file before any mutation
    SizeLimit,    \* what DiffPatchSize, a uint32, cannot count to
    MaxAppends,   \* bound: calls of Append
    MaxMounts     \* bound: mounts

ASSUME ProcsAssumption ==
    Worker \notin Handlers /\ Closer \notin Handlers /\ Worker # Closer
ASSUME BoundsAssumption ==
    /\ {ArchiveSize, MaxAppends, MaxMounts} \subseteq Nat
    /\ SizeLimit \in Nat \ {0}

Procs == Handlers \cup {Worker, Closer}

VARIABLES
    file,      \* the file's cells
    buffer,    \* wal.buffer
    quiet,     \* a second has passed since lastWriteTime
    phase,     \* of the mount: "mounted", "closing", "closed", "down"
    pc,        \* where each process is in a flush
    payload,   \* what it took from the buffer
    pos,       \* the offset of its descriptor
    appended,  \* calls of Append so far
    mounts,    \* mounts so far
    lost,      \* history: data that no commit will write
    flaws,     \* history: what may have broken the chain of mutations
    settled    \* history: the file when last no commit was under way

commit == <<pc, payload, pos>>
vars == <<file, buffer, quiet, phase, commit, appended, mounts, lost, flaws, settled>>
-----------------------------------------------------------------------------
Archive == [kind |-> "archive", val |-> 0]
Magic == [kind |-> "magic", val |-> 0]
SizeWithHeader(data) == [kind |-> "size", val |-> (Len(data) + 2) % SizeLimit]
SizeLessHeader(data) == [kind |-> "size", val |-> Len(data) - 2]
Size(data) == [kind |-> "size", val |-> Len(data) % SizeLimit]
Datum(d) == [kind |-> "data", val |-> d]

\* V9MutationHeader.Bytes and the bytes of a payload.
Header(data) == <<Magic, Size(data)>>
Body(data) == [i \in 1..Len(data) |-> Datum(data[i])]

\* write(2) at an offset: overwrites what is there and extends the file.
WriteAt(f, at, cells) ==
    [i \in 1..(IF at + Len(cells) > Len(f) THEN at + Len(cells) ELSE Len(f)) |->
        IF i > at /\ i <= at + Len(cells) THEN cells[i - at] ELSE f[i]]

SeqRange(s) == {s[i] : i \in DOMAIN s}

\* A process between its seek and its last write.
Writing == {"header", "body"}
InCommit(p) == pc[p] \in Writing
\* A process with a payload in hand.
Busy(p) == pc[p] \in {"open"} \cup Writing

\* At the end of a commit: the file is settled when no other is open.
Settle(p) ==
    settled' = IF \A q \in Procs \ {p} : ~InCommit(q) THEN file' ELSE settled
-----------------------------------------------------------------------------
Init ==
    /\ file = [i \in 1..ArchiveSize |-> Archive]
    /\ buffer = << >> /\ quiet = TRUE
    /\ phase = "mounted"
    /\ pc = [p \in Procs |-> "idle"]
    /\ payload = [p \in Procs |-> << >>]
    /\ pos = [p \in Procs |-> 0]
    /\ appended = 0 /\ mounts = 1
    /\ lost = {} /\ flaws = {} /\ settled = file

\* CromFile.Write and TreeInode.Write: Append, under the lock.
AppendData(h) ==
    /\ phase = "mounted" /\ pc[h] = "idle"
    /\ appended < MaxAppends
    /\ appended' = appended + 1
    /\ buffer' = Append(buffer, appended + 1)
    /\ quiet' = FALSE
    /\ UNCHANGED <<file, phase, commit, mounts, lost, flaws, settled>>

\* Time passes.
SecondPasses ==
    /\ ~quiet
    /\ quiet' = TRUE
    /\ UNCHANGED <<file, buffer, phase, commit, appended, mounts, lost, flaws, settled>>

\* Under the lock: copy the buffer, reset it.
TakeOnly(p) ==
    /\ buffer # << >>
    /\ payload' = [payload EXCEPT ![p] = buffer]
    /\ UNCHANGED buffer
    /\ pc' = [pc EXCEPT ![p] = "open"]
    /\ flaws' = flaws \cup (IF \E q \in Procs : Busy(q) THEN {"overlap"} ELSE {})
                      \cup (IF Len(buffer) >= SizeLimit THEN {"size"} ELSE {})
    /\ UNCHANGED <<file, quiet, pos, appended, mounts, lost, settled>>
Take(p) ==
    /\ buffer # << >>
    /\ payload' = [payload EXCEPT ![p] = buffer]
    /\ buffer' = << >>
    /\ pc' = [pc EXCEPT ![p] = "open"]
    /\ flaws' = flaws \cup (IF \E q \in Procs : Busy(q) THEN {"overlap"} ELSE {})
                      \cup (IF Len(buffer) >= SizeLimit THEN {"size"} ELSE {})
    /\ UNCHANGED <<file, quiet, pos, appended, mounts, lost, settled>>

\* A tick; a tick and a closed done channel that are ready together are
\* chosen between at random, so done does not exclude it.
TryFlushTooEarly ==
    /\ pc[Worker] = "idle" /\ phase # "down" /\ ~quiet
    /\ Take(Worker)
    /\ UNCHANGED phase
TryFlush ==
    /\ pc[Worker] = "idle" /\ phase # "down" /\ quiet
    /\ Take(Worker)
    /\ UNCHANGED phase

\* CromFile.Flush: forceFlush.
Flush(h) ==
    /\ phase = "mounted" /\ pc[h] = "idle"
    /\ Take(h)
    /\ UNCHANGED phase

\* server.Wait has returned, so the handlers have; close(done).
Close ==
    /\ phase = "mounted" /\ \A h \in Handlers : pc[h] = "idle"
    /\ phase' = "closing"
    /\ UNCHANGED <<file, buffer, quiet, commit, appended, mounts, lost, flaws, settled>>

\* The forceFlush of Close.
CloseFlush ==
    /\ phase = "closing" /\ pc[Closer] = "idle"
    /\ Take(Closer)
    /\ UNCHANGED phase

CloseNothing ==
    /\ phase = "closing" /\ pc[Closer] = "idle" /\ buffer = << >>
    /\ phase' = "closed"
    /\ UNCHANGED <<file, buffer, quiet, commit, appended, mounts, lost, flaws, settled>>

\* The worker sees done; it does not wait for a tick any more.
WorkerStops ==
    /\ phase \in {"closing", "closed"} /\ pc[Worker] = "idle"
    /\ pc' = [pc EXCEPT ![Worker] = "gone"]
    /\ UNCHANGED <<file, buffer, quiet, phase, payload, pos, appended, mounts, lost,
                   flaws, settled>>
-----------------------------------------------------------------------------
(* commitToDisk and AppendMutation, outside the lock. *)

Finished(p) ==
    /\ pc' = [pc EXCEPT ![p] = "idle"]
    /\ phase' = IF p = Closer THEN "closed" ELSE phase

\* The file cannot be opened: the error is printed, the payload dropped.
OpenFails(p) ==
    /\ pc[p] = "open"
    /\ Finished(p)
    /\ lost' = lost \cup SeqRange(payload[p])
    /\ UNCHANGED <<file, buffer, quiet, payload, pos, appended, mounts, flaws, settled>>

\* Open, and seek to the end.
SeekStart(p) ==
    /\ pc[p] = "open"
    /\ pos' = [pos EXCEPT ![p] = 0]
    /\ pc' = [pc EXCEPT ![p] = "header"]
    /\ UNCHANGED <<file, buffer, quiet, phase, payload, appended, mounts, lost, flaws, settled>>
SeekEnd(p) ==
    /\ pc[p] = "open"
    /\ pos' = [pos EXCEPT ![p] = Len(file)]
    /\ pc' = [pc EXCEPT ![p] = "header"]
    /\ UNCHANGED <<file, buffer, quiet, phase, payload, appended, mounts, lost, flaws, settled>>

WriteHeader(p) ==
    /\ pc[p] = "header"
    /\ file' = WriteAt(file, pos[p], Header(payload[p]))
    /\ pos' = [pos EXCEPT ![p] = @ + 2]
    /\ pc' = [pc EXCEPT ![p] = "body"]
    /\ UNCHANGED <<buffer, quiet, phase, payload, appended, mounts, lost, flaws, settled>>

WriteBody(p) ==
    /\ pc[p] = "body"
    /\ file' = WriteAt(file, pos[p], Body(payload[p]))
    /\ pos' = [pos EXCEPT ![p] = @ + Len(payload[p])]
    /\ Finished(p)
    /\ Settle(p)
    /\ UNCHANGED <<buffer, quiet, payload, appended, mounts, lost, flaws>>

\* A write fails after some of its bytes: the rest is given up.
WriteFails(p, k) ==
    /\ InCommit(p)
    /\ LET cells == IF pc[p] = "header" THEN Header(payload[p]) ELSE Body(payload[p])
       IN  /\ k < Len(cells)
           /\ file' = WriteAt(file, pos[p], SubSeq(cells, 1, k))
    /\ pos' = [pos EXCEPT ![p] = @ + k]
    /\ flaws' = flaws \cup {"torn"}
    /\ lost' = lost \cup SeqRange(payload[p])
    /\ Finished(p)
    /\ Settle(p)
    /\ UNCHANGED <<buffer, quiet, payload, appended, mounts>>
-----------------------------------------------------------------------------
(***************************************************************************)
(* The process ends: Mount has returned, or it is killed.  Nothing waits   *)
(* for a commit of the worker.                                             *)
(***************************************************************************)
Exit ==
    /\ phase # "down"
    /\ phase' = "down"
    /\ lost' = lost \cup SeqRange(buffer)
                    \cup UNION {SeqRange(payload[p]) :
                                   p \in {q \in Procs : Busy(q)}}
    /\ flaws' = flaws \cup (IF \E p \in Procs : pc[p] = "body" THEN {"torn"} ELSE {})
    /\ buffer' = << >>
    /\ pc' = [p \in Procs |-> "gone"]
    /\ settled' = file
    /\ UNCHANGED <<file, quiet, payload, pos, appended, mounts>>

\* The file is mounted again: a new buffer and a new worker.
Mount ==
    /\ phase = "down" /\ mounts < MaxMounts
    /\ mounts' = mounts + 1
    /\ phase' = "mounted"
    /\ buffer' = << >> /\ quiet' = TRUE
    /\ pc' = [p \in Procs |-> "idle"]
    /\ payload' = [p \in Procs |-> << >>]
    /\ pos' = [p \in Procs |-> 0]
    /\ UNCHANGED <<file, appended, lost, flaws, settled>>

CommitStep(p) ==
    \/ OpenFails(p) \/ SeekEnd(p) \/ WriteHeader(p) \/ WriteBody(p)
    \/ \E k \in 0..(MaxAppends + 1) : WriteFails(p, k)

Next ==
    \/ \E h \in Handlers : AppendData(h) \/ Flush(h)
    \/ SecondPasses \/ TryFlush \/ WorkerStops
    \/ Close \/ CloseFlush \/ CloseNothing
    \/ \E p \in Procs : CommitStep(p)
    \/ Exit \/ Mount

Spec == Init /\ [][Next]_vars

\* Time passes, the ticker ticks, the worker's system calls return, and a
\* Close that was entered goes on.
FairSpec ==
    /\ Spec
    /\ WF_vars(SecondPasses) /\ WF_vars(TryFlush) /\ WF_vars(CommitStep(Worker))
    /\ WF_vars(CloseFlush)
-----------------------------------------------------------------------------
Cell == [kind : {"archive", "magic", "size", "data"}, val : Nat]

\* Type invariant.
TypeOK ==
    /\ file \in Seq(Cell) /\ settled \in Seq(Cell)
    /\ buffer \in Seq(Nat)
    /\ quiet \in BOOLEAN
    /\ phase \in {"mounted", "closing", "closed", "down"}
    /\ pc \in [Procs -> {"idle", "open", "header", "body", "gone"}]
    /\ payload \in [Procs -> Seq(Nat)]
    /\ pos \in [Procs -> Nat]
    /\ {appended, mounts} \subseteq Nat
    /\ lost \subseteq Nat
    /\ flaws \subseteq {"overlap", "size", "torn"}

(***************************************************************************)
(* What was on disk when no commit was under way stays as it was: the      *)
(* archive and every finished mutation survive later commits, however many *)
(* of them run at once, fail or are cut off (mutator.go:21).               *)
(***************************************************************************)
SettledIsKept ==
    /\ Len(settled) <= Len(file)
    /\ \A i \in 1..Len(settled) : file[i] = settled[i]

(***************************************************************************)
(* No write is committed twice: the copy and the reset of the buffer are   *)
(* one critical section (writer.go:72-76, 94-97), so two flushes never     *)
(* take the same bytes, and what is on disk is no longer in memory.        *)
(***************************************************************************)
Taken(p) == IF Busy(p) THEN SeqRange(payload[p]) ELSE {}
OnDisk == {file[i].val : i \in {j \in 1..Len(file) : file[j].kind = "data"}}
CommittedOnce ==
    /\ \A i, j \in 1..Len(file) :
          file[i].kind = "data" /\ file[i] = file[j] => i = j
    /\ SeqRange(buffer) \cap OnDisk = {}
    /\ \A p \in Procs :
          /\ Taken(p) \cap (SeqRange(buffer) \cup OnDisk) = {}
          /\ \A q \in Procs \ {p} : Taken(p) \cap Taken(q) = {}

(***************************************************************************)
(* Reading the chain of mutations as TestV9_MultipleAppendMutations does:  *)
(* from the end of the archive, header by header, to the end of the file.  *)
(***************************************************************************)
Garbage == 0  \* no datum
NextMutation(f, s) ==
    LET start == s.at + 2 end == start + f[start].val
    IN  IF s.at = Len(f) THEN s
        ELSE IF start <= Len(f) /\ f[s.at + 1] = Magic /\ end <= Len(f)
        THEN [at |-> end, got |-> s.got \o [i \in 1..(end - start) |-> f[start + i].val]]
        ELSE [at |-> Len(f), got |-> Append(s.got, Garbage)]
Walk(f) ==
    LET after[n \in 0..Len(f)] == IF n = 0 THEN [at |-> ArchiveSize, got |-> << >>]
                                  ELSE NextMutation(f, after[n - 1])
    IN  after[Len(f)].got

Idle == \A p \in Procs : ~Busy(p)

\* Everything appended that is neither lost nor still in memory.
Surviving == {d \in 1..appended : d \notin lost /\ d \notin SeqRange(buffer)}

(***************************************************************************)
(* As long as no flush took the buffer while another was committing, no    *)
(* commit was torn and none exceeded the size field, the chain can be      *)
(* walked to the end of the file and yields every write in the order of    *)
(* the Append calls, whichever of the worker, Flush and Close committed it *)
(* and across mounts.                                                      *)
(***************************************************************************)
ChainHoldsWrites ==
    (Idle /\ flaws = {}) =>
        LET chain == Walk(file)
        IN  /\ SeqRange(chain) = Surviving
            /\ \A i, j \in 1..Len(chain) : i < j => chain[i] < chain[j]

\* What is written reaches a commit once the writes pause, with no Close.
BufferDrains == buffer # << >> ~> buffer = << >>
-----------------------------------------------------------------------------
(* What the repository says and the code does not do. *)

\* "Close forces a final flush and stops the background worker."
\* (writer.go:120): when Close has returned and no file operation failed,
\* every write is in the file.
CloseCommitsAll ==
    (phase = "closed" /\ lost = {} /\ "torn" \notin flaws) => OnDisk = 1..appended
=============================================================================
