------------------------------ MODULE StreamFS ------------------------------
(***************************************************************************)
(* The writing file system (internal/cromfs/fs.go) and PackStream          *)
(* (pkg/cromlib/compiler_stream.go) behind it, which also packs standard   *)
(* input.                                                                  *)
(*                                                                         *)
(* Create, or the first Write, starts a goroutine that runs PackStream on  *)
(* the reading end of an io.Pipe.  Write holds the inode's lock until the  *)
(* pipe has taken its data; Flush closes the pipe, waits for the goroutine *)
(* and forgets it.  PackStream collects compressed blocks in a temporary   *)
(* file and writes the .crom, in place, once its input has ended.          *)
(*                                                                         *)
(* Every Lookup or Create makes an inode of its own: here all of Inodes    *)
(* have the same name, and so the same output.  Data is a sequence of      *)
(* cells; the output is its four parts, each marked with the stream that   *)
(* wrote it last.  The workers of a block only fill their own slot of      *)
(* results, which are gathered in order: a block is one step.              *)
(***************************************************************************)
EXTENDS Naturals, Sequences, FiniteSets

CONSTANTS
    Inodes,      \* the File nodes of one name
    Handlers,    \* FUSE requests that run at the same time
    WriteSizes,  \* cells of a write
    BlockSize,   \* cells of a block
    None,
    MaxStreams, MaxCells, MaxFlushes, MaxFaults  \* bounds

ASSUME StreamAssumption ==
    /\ {BlockSize, MaxStreams} \subseteq Nat \ {0} /\ WriteSizes \subseteq Nat \ {0}
    /\ {MaxCells, MaxFlushes, MaxFaults} \subseteq Nat
    /\ None \notin Handlers \cup Inodes \cup {"ok", "error"}

VARIABLES
    stdin,   \* PackStream reads standard input, which may fail
    mu,      \* File.mu: its holder, or None
    pw,      \* File.pw: the stream it feeds, or 0
    hd,      \* where each handler is
    st,      \* the streams that were started
    out,     \* the output: the stream that wrote each part, 0 for none
    cells,   \* cells written so far
    flushes,
    faults

Parts == {"header", "blocks", "table", "pool"}
StreamIds == 1..MaxStreams
NoParts == [k \in Parts |-> 0]
Free == [pc |-> "idle", inode |-> None, from |-> 0, len |-> 0]
vars == <<stdin, mu, pw, hd, st, out, cells, flushes, faults>>

\* initStream: a pipe, waitCh, and PackStream in a goroutine of its own.
NewStream(f) ==
    [inode |-> f, pc |-> "open",
     closed |-> FALSE,    \* the writing end is closed
     pending |-> << >>,   \* what the Write in progress has left for the pipe
     block |-> << >>,     \* buf of ReadFull
     data |-> << >>,      \* what went into the pool
     sent |-> << >>,      \* history: the data of the Writes that returned nil
     hurt |-> FALSE,      \* history: an error was not looked at
     result |-> None]     \* waitCh
Started == Len(st)
-----------------------------------------------------------------------------
Init ==
    /\ stdin \in BOOLEAN
    /\ mu = [f \in Inodes |-> None] /\ pw = [f \in Inodes |-> 0]
    /\ hd = [h \in Handlers |-> Free]
    /\ st = << >> /\ out = NoParts
    /\ cells = 0 /\ flushes = 0 /\ faults = 0

\* Create makes a new inode, whose stream starts at once.
Create(f) ==
    /\ pw[f] = 0 /\ mu[f] = None /\ Started < MaxStreams /\ (stdin => Started = 0)
    /\ \A s \in 1..Started : st[s].inode # f
    /\ st' = Append(st, NewStream(f)) /\ pw' = [pw EXCEPT ![f] = Started + 1]
    /\ UNCHANGED <<stdin, mu, hd, out, cells, flushes, faults>>

\* A request arrives and waits for the lock.  Standard input has one writer, whose
\* writes come one after the other, as for one inode.
Request(h, f) ==
    /\ hd[h].pc = "idle"
    /\ stdin => /\ \A g \in Handlers : hd[g].pc = "idle"
                /\ \A s \in 1..Started : st[s].inode = f /\ ~st[s].closed
    /\ \/ \E n \in WriteSizes :
            /\ cells + n <= MaxCells
            /\ hd' = [hd EXCEPT ![h] = [pc |-> "write", inode |-> f, from |-> cells, len |-> n]]
            /\ cells' = cells + n /\ UNCHANGED flushes
       \/ /\ flushes < MaxFlushes /\ flushes' = flushes + 1
          /\ hd' = [hd EXCEPT ![h] = [Free EXCEPT !.pc = "flush", !.inode = f]]
          /\ UNCHANGED cells
    /\ UNCHANGED <<stdin, mu, pw, st, out, faults>>

Payload(h) == [i \in 1..hd[h].len |-> hd[h].from + i]

\* Write: with the lock, a stream is started if there is none, and the pipe is offered
\* the data.
Write(h) ==
    LET f == hd[h].inode
        s == IF pw[f] = 0 THEN Started + 1 ELSE pw[f]
        streams == IF pw[f] = 0 THEN Append(st, NewStream(f)) ELSE st
    IN  /\ hd[h].pc = "write" /\ mu[f] = None /\ s <= MaxStreams
        /\ mu' = [mu EXCEPT ![f] = h]
        /\ pw' = [pw EXCEPT ![f] = s]
        /\ st' = [streams EXCEPT ![s].pending = Payload(h)]
        /\ hd' = [hd EXCEPT ![h].pc = "pipe"]
        /\ UNCHANGED <<stdin, out, cells, flushes, faults>>

\* The pipe has taken everything: Write returns.
WriteReturns(h) ==
    LET f == hd[h].inode
        s == pw[f]
    IN  /\ hd[h].pc = "pipe" /\ st[s].pending = << >>
        /\ st' = [st EXCEPT ![s].sent = @ \o Payload(h)]
        /\ mu' = [mu EXCEPT ![f] = None]
        /\ hd' = [hd EXCEPT ![h] = Free]
        /\ UNCHANGED <<stdin, pw, out, cells, flushes, faults>>

\* An early return without the deferred Unlock.
FlushKeepsLock(h) ==
    LET f == hd[h].inode
    IN  /\ hd[h].pc = "flush" /\ mu[f] = None
        /\ IF pw[f] = 0
             THEN /\ hd' = [hd EXCEPT ![h] = Free] /\ mu' = [mu EXCEPT ![f] = h]
                  /\ UNCHANGED st
             ELSE /\ mu' = [mu EXCEPT ![f] = h]
                  /\ st' = [st EXCEPT ![pw[f]].closed = TRUE]
                  /\ hd' = [hd EXCEPT ![h].pc = "wait"]
        /\ UNCHANGED <<stdin, pw, out, cells, flushes, faults>>

\* Flush: nothing without a stream, otherwise the end of its input.
Flush(h) ==
    LET f == hd[h].inode
    IN  /\ hd[h].pc = "flush" /\ mu[f] = None
        /\ IF pw[f] = 0
             THEN /\ hd' = [hd EXCEPT ![h] = Free]
                  /\ UNCHANGED <<mu, st>>
             ELSE /\ mu' = [mu EXCEPT ![f] = h]
                  /\ st' = [st EXCEPT ![pw[f]].closed = TRUE]
                  /\ hd' = [hd EXCEPT ![h].pc = "wait"]
        /\ UNCHANGED <<stdin, pw, out, cells, flushes, faults>>

\* A Flush that does not wait for the packer.
FlushForgets(h) ==
    LET f == hd[h].inode
    IN  /\ hd[h].pc = "wait"
        /\ pw' = [pw EXCEPT ![f] = 0] /\ mu' = [mu EXCEPT ![f] = None]
        /\ hd' = [hd EXCEPT ![h] = Free]
        /\ UNCHANGED <<stdin, st, out, cells, flushes, faults>>

\* <-f.waitCh: the result is dropped and Flush returns nil.
FlushReturns(h) ==
    LET f == hd[h].inode
    IN  /\ hd[h].pc = "wait" /\ st[pw[f]].result # None
        /\ pw' = [pw EXCEPT ![f] = 0] /\ mu' = [mu EXCEPT ![f] = None]
        /\ hd' = [hd EXCEPT ![h] = Free]
        /\ UNCHANGED <<stdin, st, out, cells, flushes, faults>>

Handle(h) == Write(h) \/ WriteReturns(h) \/ Flush(h) \/ FlushReturns(h)
-----------------------------------------------------------------------------
(* PackStream. *)

Idle == UNCHANGED <<stdin, mu, pw, hd, cells, flushes>>
At(s, pc) == s <= Started /\ st[s].pc = pc
Step(s, pc) == st' = [st EXCEPT ![s].pc = pc]

\* Every error return: the pipe's reading end stays open, and nobody reads it.
Fails(s) ==
    /\ faults < MaxFaults /\ faults' = faults + 1
    /\ st' = [st EXCEPT ![s].pc = "done", ![s].result = "error"]
    /\ UNCHANGED out

\* codebook.Open, os.CreateTemp
Open(s) ==
    /\ At(s, "open")
    /\ \/ Step(s, "read") /\ UNCHANGED <<out, faults>>
       \/ Fails(s)
    /\ Idle

\* io.ReadFull takes from the pipe until the block is full.
ReadCell(s) ==
    /\ At(s, "read") /\ st[s].pending # << >> /\ Len(st[s].block) < BlockSize
    /\ st' = [st EXCEPT ![s].block = Append(@, Head(st[s].pending)),
                        ![s].pending = Tail(@)]
    /\ Idle /\ UNCHANGED <<out, faults>>

AtEnd(s) == st[s].closed /\ st[s].pending = << >>

\* A full block, or a shorter one at the end: chunks, residuals, compression, the pool.
\* A search, the compression or the write to the pool may fail.  A faulty variant waits
\* for a full block.
PackBlockNoLast(s) ==
    /\ At(s, "read") /\ Len(st[s].block) = BlockSize
    /\ \/ /\ st' = [st EXCEPT ![s].data = @ \o st[s].block, ![s].block = << >>]
          /\ UNCHANGED <<out, faults>>
       \/ Fails(s)
    /\ Idle

PackBlock(s) ==
    /\ At(s, "read")
    /\ Len(st[s].block) = BlockSize \/ (AtEnd(s) /\ st[s].block # << >>)
    /\ \/ /\ st' = [st EXCEPT ![s].data = @ \o st[s].block, ![s].block = << >>]
          /\ UNCHANGED <<out, faults>>
       \/ Fails(s)
    /\ Idle

\* The last, short block taken for the end of the input.
EndDropsShortBlock(s) ==
    /\ At(s, "read") /\ AtEnd(s) /\ Len(st[s].block) < BlockSize
    /\ Step(s, "create")
    /\ Idle /\ UNCHANGED <<out, faults>>

\* A short read taken for the end of the input.
EndAtShortRead(s) ==
    /\ At(s, "read") /\ Len(st[s].block) < BlockSize /\ st[s].data \o st[s].block # << >>
    /\ Step(s, "create")
    /\ Idle /\ UNCHANGED <<out, faults>>

\* io.EOF ends the loop.
EndOfInput(s) ==
    /\ At(s, "read") /\ AtEnd(s) /\ st[s].block = << >>
    /\ Step(s, "create")
    /\ Idle /\ UNCHANGED <<out, faults>>

\* So does any other error: what was read is packed as if it were all.
ReadFails(s) ==
    /\ stdin /\ At(s, "read") /\ ~AtEnd(s) /\ Len(st[s].block) < BlockSize
    /\ faults < MaxFaults /\ faults' = faults + 1
    /\ st' = [st EXCEPT ![s].data = @ \o st[s].block, ![s].block = << >>,
                        ![s].pc = "create", ![s].hurt = TRUE]
    /\ Idle /\ UNCHANGED out

\* os.Create truncates what another stream has written.
CreateOutput(s) ==
    /\ At(s, "create")
    /\ \/ Step(s, "header") /\ out' = NoParts /\ UNCHANGED faults
       \/ Fails(s)
    /\ Idle

\* Header and block table: the results of Write are not looked at.
WriteUnchecked(s, part, next) ==
    /\ At(s, part)
    /\ \/ Step(s, next) /\ out' = [out EXCEPT ![part] = s] /\ UNCHANGED faults
       \/ /\ faults < MaxFaults /\ faults' = faults + 1
          /\ st' = [st EXCEPT ![s].pc = next, ![s].hurt = TRUE]
          /\ UNCHANGED out
    /\ Idle

WriteHeader(s) == WriteUnchecked(s, "header", "blocks")
WriteBlockTable(s) == WriteUnchecked(s, "blocks", "encode")

\* EncodeCompressedTable may fail, half of the output written.
EncodeTable(s) ==
    /\ At(s, "encode")
    /\ \/ Step(s, "table") /\ UNCHANGED <<out, faults>>
       \/ Fails(s)
    /\ Idle

WriteTable(s) == WriteUnchecked(s, "table", "pool")

\* io.Copy of the pool; then PackStream returns and the goroutine sends nil to waitCh.
CopyPool(s) ==
    /\ At(s, "pool")
    /\ \/ /\ out' = [out EXCEPT !["pool"] = s]
          /\ st' = [st EXCEPT ![s].pc = "done", ![s].result = "ok"]
          /\ UNCHANGED faults
       \/ Fails(s)
    /\ Idle

PackStream(s) ==
    \/ Open(s) \/ ReadCell(s) \/ PackBlock(s) \/ EndOfInput(s) \/ ReadFails(s)
    \/ CreateOutput(s) \/ WriteHeader(s) \/ WriteBlockTable(s) \/ EncodeTable(s)
    \/ WriteTable(s) \/ CopyPool(s)
-----------------------------------------------------------------------------
Next ==
    \/ \E f \in Inodes : Create(f)
    \/ \E h \in Handlers, f \in Inodes : Request(h, f)
    \/ \E h \in Handlers : Handle(h)
    \/ \E s \in StreamIds : PackStream(s)

Spec == Init /\ [][Next]_vars

(***************************************************************************)
(* FUSE runs every request, a mutex is given to a waiting one in the end   *)
(* (Go's starvation mode), and the goroutine of a stream runs.             *)
(***************************************************************************)
FairSpec ==
    /\ Spec
    /\ \A h \in Handlers : SF_vars(Handle(h))
    /\ \A s \in StreamIds : WF_vars(PackStream(s))
-----------------------------------------------------------------------------
(* Properties. *)

\* The types; and a lock is held by exactly the handlers that are inside Write or Flush.
TypeOK ==
    /\ stdin \in BOOLEAN /\ out \in [Parts -> 0..Started]
    /\ mu \in [Inodes -> Handlers \cup {None}] /\ pw \in [Inodes -> 0..Started]
    /\ \A h \in Handlers : hd[h].pc \in {"idle", "write", "pipe", "flush", "wait"}
    /\ \A f \in Inodes, h \in Handlers :
         mu[f] = h <=> hd[h].inode = f /\ hd[h].pc \in {"pipe", "wait"}
    /\ \A s \in 1..Started :
         /\ Len(st[s].block) <= BlockSize /\ st[s].result \in {None, "ok", "error"}
         /\ st[s].pc \in {"open", "read", "create", "encode", "done"} \cup Parts
    /\ cells \in 0..MaxCells /\ flushes \in 0..MaxFlushes /\ faults \in 0..MaxFaults

Created(s) == st[s].pc \in {"encode", "done"} \cup Parts

(***************************************************************************)
(* A stream whose PackStream returned nil, in which no unchecked call      *)
(* failed (compiler_stream.go:236, :268, :276, :283) and whose name no     *)
(* other stream has opened for writing, has all its parts in the output,   *)
(* and its content is what its Writes had accepted, in their order.        *)
(***************************************************************************)
FinishedStreamIsIntact ==
    \A s \in 1..Started :
        /\ st[s].result = "ok" /\ ~st[s].hurt
        /\ \A t \in 1..Started : t # s => ~Created(t)
        => out = [k \in Parts |-> s] /\ st[s].data = st[s].sent

(***************************************************************************)
(* An output put together from two streams (fs.go:46: Lookup makes a new   *)
(* inode each time) never comes from one inode: the streams of one inode   *)
(* follow each other, because Flush waits for the packer.                  *)
(***************************************************************************)
MixNeedsTwoInodes ==
    \A j, k \in Parts :
        out[j] # 0 /\ out[k] # 0 /\ out[j] # out[k] => st[out[j]].inode # st[out[k]].inode

(***************************************************************************)
(* A Write that holds the lock while nobody reads its pipe any more        *)
(* (fs.go:125) is left behind by a PackStream that returned an error, or   *)
(* that took a read error for the end; a stream that ended well has taken  *)
(* all that was offered.                                                   *)
(***************************************************************************)
NoWriterLeftBehind ==
    \A s \in 1..Started :
        Created(s) /\ st[s].result # "error" /\ ~st[s].hurt => st[s].pending = << >>

\* The stream of an inode that a handler may hang on for ever.
Dead(f) == \E s \in 1..Started : st[s].inode = f /\ (st[s].result = "error" \/ st[s].hurt)

(***************************************************************************)
(* Every request is answered, whatever order the locks are taken in,       *)
(* unless a stream of its inode has failed, or the bound on streams is     *)
(* reached.                                                                *)
(***************************************************************************)
RequestsEnd ==
    \A h \in Handlers :
        hd[h].pc # "idle" ~> \/ hd[h].pc = "idle"
                             \/ hd[h].pc = "write" /\ Started = MaxStreams
                             \/ Dead(hd[h].inode)

(***************************************************************************)
(* "<-f.waitCh // Wait for compression to finish" (fs.go:138): a Flush     *)
(* waits for the compression, and returns once every stream of its inode   *)
(* has finished.  It does not when PackStream has returned an error with a *)
(* Write on the pipe: that Write keeps the lock which Flush needs first.   *)
(***************************************************************************)
FlushWaitsForCompression ==
    \A h \in Handlers :
        /\ hd[h].pc = "flush"
        /\ \A s \in 1..Started : st[s].inode = hd[h].inode => st[s].result # None
        ~> hd[h].pc # "flush"
=============================================================================
