--------------------------- MODULE StreamFSProofs ---------------------------
(***************************************************************************)
(* The safety properties of StreamFS, for any number of inodes, handlers   *)
(* and streams and any block size: types and locks, what a finished stream *)
(* has written, which outputs can be mixtures, which writers can be left   *)
(* behind.                                                                 *)
(***************************************************************************)
EXTENDS StreamFS, SequenceTheorems, TLAPS

StreamPcs == {"open", "read", "create", "encode", "done"} \cup Parts

Stream ==
    [inode : Inodes, pc : StreamPcs, closed : BOOLEAN, pending : Seq(Nat),
     block : Seq(Nat), data : Seq(Nat), sent : Seq(Nat), hurt : BOOLEAN,
     result : {None, "ok", "error"}]

Handler ==
    [pc : {"idle", "write", "pipe", "flush", "wait"}, inode : Inodes \cup {None},
     from : Nat, len : Nat]

Shape ==
    /\ stdin \in BOOLEAN /\ out \in [Parts -> Nat]
    /\ mu \in [Inodes -> Handlers \cup {None}] /\ pw \in [Inodes -> Nat]
    /\ hd \in [Handlers -> Handler] /\ st \in Seq(Stream)
    /\ cells \in Nat /\ flushes \in Nat /\ faults \in Nat

\* The bounds, and what refers to a stream refers to one that was started.
Bounds ==
    /\ Len(st) <= MaxStreams
    /\ \A k \in Parts : out[k] <= Len(st)
    /\ \A f \in Inodes : pw[f] <= Len(st)
    /\ \A s \in 1..Len(st) : Len(st[s].block) <= BlockSize
    /\ cells <= MaxCells /\ flushes <= MaxFlushes /\ faults <= MaxFaults

\* A lock is held by exactly the handlers inside Write or Flush.
Locks ==
    /\ \A f \in Inodes, h \in Handlers :
         mu[f] = h <=> hd[h].inode = f /\ hd[h].pc \in {"pipe", "wait"}
    /\ \A h \in Handlers : hd[h].pc # "idle" => hd[h].inode \in Inodes

\* An inode feeds its own stream, has one while a handler is inside, and has
\* forgotten only streams that are done.
Feeds ==
    /\ \A f \in Inodes : pw[f] # 0 => st[pw[f]].inode = f
    /\ \A h \in Handlers : hd[h].pc \in {"pipe", "wait"} => pw[hd[h].inode] # 0
    /\ \A s \in 1..Len(st) : st[s].result = None => pw[st[s].inode] = s
    /\ \A s \in 1..Len(st) : st[s].pc = "done" <=> st[s].result # None

\* A pipe is closed only by the Flush that waits for its stream.
Closing ==
    \A s \in 1..Len(st) :
        st[s].closed /\ pw[st[s].inode] = s =>
            \E h \in Handlers : hd[h].pc = "wait" /\ hd[h].inode = st[s].inode

\* The writer of a stream.
Writing(h, s) == hd[h].pc = "pipe" /\ pw[hd[h].inode] = s

\* What was accepted, and what the writer offers, is in the pool, the block
\* or the pipe.
Conserved ==
    \A s \in 1..Len(st) :
        /\ \A h \in Handlers : Writing(h, s) =>
             (st[s].data \o st[s].block) \o st[s].pending = st[s].sent \o Payload(h)
        /\ (\A h \in Handlers : ~Writing(h, s)) =>
             st[s].pending = << >> /\ st[s].data \o st[s].block = st[s].sent

\* Beyond the reading loop a stream without an error has taken its whole input.
Drained ==
    \A s \in 1..Len(st) :
        (Created(s) \/ st[s].pc = "create") /\ st[s].result # "error" /\ ~st[s].hurt =>
            st[s].closed /\ st[s].pending = << >> /\ st[s].block = << >>

\* The parts a stream has written when it is at pc.
Written(s) ==
    CASE st[s].pc = "blocks" -> {"header"}
      [] st[s].pc \in {"encode", "table"} -> {"header", "blocks"}
      [] st[s].pc = "pool" -> {"header", "blocks", "table"}
      [] st[s].pc = "done" /\ st[s].result = "ok" -> Parts
      [] OTHER -> {}

Alone(s) == \A t \in 1..Len(st) : t # s => ~Created(t)
Output == \A s \in 1..Len(st) : ~st[s].hurt /\ Alone(s) => \A k \in Written(s) : out[k] = s

\* While a stream writes its output no other stream of its inode has a part in it.
Active(s) == st[s].pc \in {"encode"} \cup Parts
Owns ==
    \A s \in 1..Len(st) : Active(s) =>
        \A k \in Parts : out[k] # 0 /\ st[out[k]].inode = st[s].inode => out[k] = s

IInv ==
    /\ Shape /\ Bounds /\ Locks /\ Feeds /\ Closing /\ Conserved /\ Drained
    /\ Output /\ Owns /\ MixNeedsTwoInodes
-----------------------------------------------------------------------------
(* Updating one stream, and what the sequences of a stream add up to. *)

\* Replacing one stream leaves the others alone.
LEMMA SetStream ==
    ASSUME NEW z \in Seq(Stream), NEW s \in 1..Len(z), NEW r \in Stream
    PROVE  /\ [z EXCEPT ![s] = r] \in Seq(Stream)
           /\ Len([z EXCEPT ![s] = r]) = Len(z)
           /\ [z EXCEPT ![s] = r][s] = r
           /\ \A t \in 1..Len(z) : t # s => [z EXCEPT ![s] = r][t] = z[t]
OBVIOUS

\* Appending a stream leaves the others alone.
LEMMA AddStream ==
    ASSUME NEW z \in Seq(Stream), NEW r \in Stream
    PROVE  /\ Append(z, r) \in Seq(Stream) /\ Len(Append(z, r)) = Len(z) + 1
           /\ Append(z, r)[Len(z) + 1] = r
           /\ \A t \in 1..Len(z) : Append(z, r)[t] = z[t]
OBVIOUS

\* A new stream is a stream.
LEMMA NewStreamType ==
    ASSUME NEW f \in Inodes
    PROVE  NewStream(f) \in Stream
BY DEF NewStream, Stream, StreamPcs

\* Moving a cell from the pipe to the block keeps what they add up to.
LEMMA MoveCell ==
    ASSUME NEW d \in Seq(Nat), NEW b \in Seq(Nat), NEW p \in Seq(Nat), p # << >>
    PROVE  (d \o Append(b, Head(p))) \o Tail(p) = (d \o b) \o p
<1> DEFINE x == (d \o Append(b, Head(p))) \o Tail(p)
           y == (d \o b) \o p
<1>1. Len(p) >= 1 /\ Head(p) = p[1] /\ Head(p) \in Nat /\ Tail(p) \in Seq(Nat)
      /\ Len(Tail(p)) = Len(p) - 1 /\ \A i \in 1..Len(p) - 1 : Tail(p)[i] = p[i + 1]
  OBVIOUS
<1>2. Append(b, Head(p)) \in Seq(Nat) /\ Len(Append(b, Head(p))) = Len(b) + 1
  BY <1>1
<1>3. x \in Seq(Nat) /\ y \in Seq(Nat) /\ Len(x) = Len(y)
  BY <1>1, <1>2
<1>4. \A i \in 1..Len(y) : x[i] = y[i]
  BY <1>1, <1>2, SMTT(30)
<1> HIDE DEF x, y
<1>5. x = y
  BY <1>3, <1>4, SeqEqual
<1>. QED
  BY <1>5 DEF x, y

\* So does moving the block to the pool.
LEMMA MoveBlock ==
    ASSUME NEW d \in Seq(Nat), NEW b \in Seq(Nat)
    PROVE  d \o b \in Seq(Nat) /\ (d \o b) \o << >> = d \o b
OBVIOUS

\* The types of a stream's fields.
LEMMA StreamFields ==
    ASSUME Shape, NEW t \in 1..Len(st)
    PROVE  /\ st[t] \in Stream /\ st[t].inode \in Inodes
           /\ st[t].data \in Seq(Nat) /\ st[t].block \in Seq(Nat)
           /\ st[t].pending \in Seq(Nat) /\ st[t].sent \in Seq(Nat)
<1>1. st[t] \in Stream
  BY DEF Shape
<1>. QED
  BY <1>1 DEF Stream

\* What a Write offers is a sequence of cells.
LEMMA PayloadType ==
    ASSUME Shape, NEW h \in Handlers
    PROVE  Payload(h) \in Seq(Nat)
<1>1. hd[h].len \in Nat /\ hd[h].from \in Nat
  BY DEF Shape, Handler
<1>. QED
  BY <1>1 DEF Payload
-----------------------------------------------------------------------------
(* What a step of PackStream does to its stream, whichever step it is. *)

PackEffect(s, r) ==
    /\ s \in 1..Len(st) /\ r \in Stream /\ st' = [st EXCEPT ![s] = r]
    /\ UNCHANGED <<stdin, mu, pw, hd, cells, flushes>>
    /\ r.inode = st[s].inode /\ r.closed = st[s].closed /\ r.sent = st[s].sent
    /\ (r.data \o r.block) \o r.pending = (st[s].data \o st[s].block) \o st[s].pending
    /\ st[s].pending = << >> => r.pending = << >>
    /\ st[s].pc # "done" /\ (r.pc = "done" <=> r.result # None)
    /\ Len(r.block) <= BlockSize
    /\ st[s].hurt => r.hurt
    /\ faults' \in Nat /\ faults' <= MaxFaults

\* Where the step leads, and what it does to the output.
WritesPart(s, r, part, next) ==
    /\ st[s].pc = part /\ r.pc = next
    /\ \/ out' = [out EXCEPT ![part] = s] /\ r.hurt = st[s].hurt
       \/ out' = out /\ r.hurt

PackMove(s, r) ==
    \/ r.pc = "done" /\ r.result = "error" /\ out' = out
    \/ st[s].pc \in {"open", "read"} /\ r.pc = "read" /\ out' = out
    \/ /\ st[s].pc = "read" /\ r.pc = "create" /\ out' = out
       /\ r.hurt \/ (r.closed /\ r.pending = << >> /\ r.block = << >>)
    \/ /\ r.pending = st[s].pending /\ r.block = st[s].block
       /\ \/ st[s].pc = "create" /\ r.pc = "header" /\ out' = NoParts /\ r.hurt = st[s].hurt
          \/ WritesPart(s, r, "header", "blocks") \/ WritesPart(s, r, "blocks", "encode")
          \/ st[s].pc = "encode" /\ r.pc = "table" /\ out' = out /\ r.hurt = st[s].hurt
          \/ WritesPart(s, r, "table", "pool")
          \/ /\ WritesPart(s, r, "pool", "done") /\ r.result = "ok"
             /\ out' = [out EXCEPT !["pool"] = s]

Packs(s) == \E r : PackEffect(s, r) /\ PackMove(s, r)

\* Every error return.
LEMMA FailsPacks ==
    ASSUME Shape, Bounds, NEW s \in 1..Len(st), st[s].pc # "done", Fails(s), Idle
    PROVE  Packs(s)
<1> DEFINE r == [st[s] EXCEPT !.pc = "done", !.result = "error"]
<1>1. st[s] \in Stream
  BY DEF Shape
<1>2. r \in Stream
  BY <1>1 DEF Stream, StreamPcs
<1>3. st' = [st EXCEPT ![s] = r]
  BY <1>1 DEF Fails, Shape
<1>4. /\ r.inode = st[s].inode /\ r.closed = st[s].closed /\ r.sent = st[s].sent
      /\ r.data = st[s].data /\ r.block = st[s].block /\ r.pending = st[s].pending
      /\ r.pc = "done" /\ r.result = "error" /\ r.hurt = st[s].hurt
  BY <1>1 DEF Stream
<1>5. faults' \in Nat /\ faults' <= MaxFaults /\ out' = out
  BY StreamAssumption DEF Fails, Shape
<1>6. "error" # None /\ Len(r.block) <= BlockSize
  BY <1>4, StreamAssumption DEF Bounds
<1> HIDE DEF r
<1>7. PackEffect(s, r)
  BY <1>2, <1>3, <1>4, <1>5, <1>6 DEF PackEffect, Idle
<1>8. PackMove(s, r)
  BY <1>4, <1>5 DEF PackMove
<1>. QED
  BY <1>7, <1>8 DEF Packs

\* A step that moves the stream on, and nothing else in it but the mark of an
\* error that was not looked at.
Moved(s, r, pc) ==
    /\ PackEffect(s, r) /\ r.pc = pc
    /\ r.pending = st[s].pending /\ r.block = st[s].block

\* PackStream goes from one of its steps to another without touching what it has packed.
LEMMA MovesOn ==
    ASSUME Shape, Bounds, Feeds, Idle, NEW s \in 1..Len(st), NEW r,
           NEW pc \in StreamPcs \ {"done"}, st[s].pc # "done",
           \/ r = [st[s] EXCEPT !.pc = pc]
           \/ r = [st[s] EXCEPT !.pc = pc, !.hurt = TRUE],
           st' = [st EXCEPT ![s] = r], faults' \in Nat, faults' <= MaxFaults
    PROVE  Moved(s, r, pc)
<1>1. st[s] \in Stream /\ st[s].result = None
  BY DEF Shape, Feeds
<1>2. r \in Stream
  BY <1>1 DEF Stream
<1>3. /\ r.inode = st[s].inode /\ r.closed = st[s].closed /\ r.sent = st[s].sent
      /\ r.data = st[s].data /\ r.block = st[s].block /\ r.pending = st[s].pending
      /\ r.pc = pc /\ r.result = None /\ (st[s].hurt => r.hurt)
  BY <1>1 DEF Stream
<1>4. Len(r.block) <= BlockSize
  BY <1>3 DEF Bounds
<1>. QED
  BY <1>2, <1>3, <1>4 DEF PackEffect, Idle, Moved

\* Step is such a step.
LEMMA StepMovesOn ==
    ASSUME Shape, Bounds, Feeds, Idle, NEW s \in 1..Len(st), faults' = faults,
           NEW pc \in StreamPcs \ {"done"}, st[s].pc # "done", Step(s, pc)
    PROVE  \E r : Moved(s, r, pc) /\ r.hurt = st[s].hurt
<1> DEFINE r == [st[s] EXCEPT !.pc = pc]
<1>1. st[s] \in Stream
  BY DEF Shape
<1>2. st' = [st EXCEPT ![s] = r] /\ r.hurt = st[s].hurt
  BY <1>1 DEF Step, Shape, Stream
<1>3. faults' \in Nat /\ faults' <= MaxFaults
  BY DEF Shape, Bounds
<1>4. Moved(s, r, pc)
  BY <1>2, <1>3, MovesOn, Zenon
<1>. QED
  BY <1>2, <1>4

\* One lemma per step of PackStream.
LEMMA OpenPacks ==
    ASSUME Shape, Bounds, Feeds, NEW s \in StreamIds, Open(s)
    PROVE  Packs(s)
<1>0. s \in 1..Len(st) /\ st[s].pc = "open" /\ Idle
  BY DEF Open, At, Started, StreamIds
<1>1. CASE Fails(s)
  BY <1>0, <1>1, FailsPacks
<1>2. CASE Step(s, "read") /\ UNCHANGED <<out, faults>>
  <2>1. "read" \in StreamPcs \ {"done"}
    BY DEF StreamPcs
  <2>2. PICK r : Moved(s, r, "read")
    BY <1>0, <1>2, <2>1, StepMovesOn
  <2>3. PackMove(s, r)
    BY <1>0, <1>2, <2>2 DEF PackMove, Moved
  <2>. QED
    BY <2>2, <2>3 DEF Packs, Moved
<1>. QED
  BY <1>1, <1>2 DEF Open

\* PackStream takes a cell out of the pipe.
LEMMA ReadCellPacks ==
    ASSUME Shape, Bounds, Feeds, NEW s \in StreamIds, ReadCell(s)
    PROVE  Packs(s)
<1> DEFINE r == [st[s] EXCEPT !.block = Append(@, Head(st[s].pending)), !.pending = Tail(@)]
<1>0. s \in 1..Len(st) /\ st[s].pc = "read" /\ Idle /\ st[s] \in Stream
      /\ st[s].result = None /\ st[s].pending # << >> /\ Len(st[s].block) < BlockSize
      /\ UNCHANGED <<out, faults>>
  BY DEF ReadCell, At, Started, Shape, StreamIds, Feeds
<1>1. st' = [st EXCEPT ![s] = r]
  BY <1>0 DEF ReadCell, Shape
<1>2. /\ st[s].pending \in Seq(Nat) /\ st[s].block \in Seq(Nat) /\ st[s].data \in Seq(Nat)
  BY <1>0 DEF Stream
<1>3. /\ Append(st[s].block, Head(st[s].pending)) \in Seq(Nat)
      /\ Tail(st[s].pending) \in Seq(Nat)
      /\ Len(Append(st[s].block, Head(st[s].pending))) = Len(st[s].block) + 1
  BY <1>0, <1>2
<1>a. (st[s].data \o Append(st[s].block, Head(st[s].pending))) \o Tail(st[s].pending)
         = (st[s].data \o st[s].block) \o st[s].pending
  BY <1>0, <1>2, MoveCell, Zenon
<1>4. r \in Stream
  BY <1>0, <1>3 DEF Stream
<1>5. /\ r.inode = st[s].inode /\ r.closed = st[s].closed /\ r.sent = st[s].sent
      /\ r.data = st[s].data /\ r.block = Append(st[s].block, Head(st[s].pending))
      /\ r.pending = Tail(st[s].pending)
      /\ r.pc = "read" /\ r.result = None /\ r.hurt = st[s].hurt
  BY <1>0 DEF Stream
<1> HIDE DEF r
<1>6. Len(r.block) <= BlockSize
  BY <1>0, <1>2, <1>3, <1>5, StreamAssumption
<1>7. PackEffect(s, r)
  BY <1>0, <1>1, <1>a, <1>4, <1>5, <1>6 DEF PackEffect, Idle, Shape, Bounds
<1>8. PackMove(s, r)
  BY <1>0, <1>5 DEF PackMove
<1>. QED
  BY <1>7, <1>8 DEF Packs

\* A stream whose block has gone into the pool is a stream.
LEMMA PackedType ==
    ASSUME NEW x \in Stream, NEW d \in Seq(Nat), NEW pc \in StreamPcs
    PROVE  /\ [x EXCEPT !.data = d, !.block = << >>] \in Stream
           /\ [x EXCEPT !.data = d, !.block = << >>, !.pc = pc, !.hurt = TRUE] \in Stream
<1>1. << >> \in Seq(Nat)
  OBVIOUS
<1>. QED
  BY <1>1 DEF Stream

\* PackStream packs the block it has read.
LEMMA PackBlockPacks ==
    ASSUME Shape, Bounds, Feeds, NEW s \in StreamIds, PackBlock(s)
    PROVE  Packs(s)
<1>0. s \in 1..Len(st) /\ st[s].pc = "read" /\ Idle /\ st[s] \in Stream /\ st[s].result = None
  BY DEF PackBlock, At, Started, StreamIds, Shape, Feeds
<1>1. CASE Fails(s)
  BY <1>0, <1>1, FailsPacks
<1>2. CASE /\ st' = [st EXCEPT ![s].data = @ \o st[s].block, ![s].block = << >>]
           /\ UNCHANGED <<out, faults>>
  <2> DEFINE r == [st[s] EXCEPT !.data = @ \o st[s].block, !.block = << >>]
  <2>1. st' = [st EXCEPT ![s] = r]
    BY <1>0, <1>2 DEF Shape
  <2>2. st[s].block \in Seq(Nat) /\ st[s].data \in Seq(Nat)
    BY <1>0 DEF Stream
  <2>3. st[s].data \o st[s].block \in Seq(Nat)
        /\ (st[s].data \o st[s].block) \o << >> = st[s].data \o st[s].block
    BY <2>2, MoveBlock
  <2>4. r \in Stream
    <3> DEFINE d == st[s].data \o st[s].block
    <3>1. d \in Seq(Nat) /\ "read" \in StreamPcs
      BY <2>3 DEF StreamPcs
    <3> HIDE DEF d
    <3>2. [st[s] EXCEPT !.data = d, !.block = << >>] \in Stream
      BY <1>0, <3>1, PackedType
    <3>. QED
      BY <3>2 DEF d
  <2>5. /\ r.inode = st[s].inode /\ r.closed = st[s].closed /\ r.sent = st[s].sent
        /\ r.data = st[s].data \o st[s].block /\ r.block = << >>
        /\ r.pending = st[s].pending
        /\ r.pc = "read" /\ r.result = None /\ r.hurt = st[s].hurt
    BY <1>0 DEF Stream
  <2> HIDE DEF r
  <2>6. Len(r.block) <= BlockSize
    BY <2>5, StreamAssumption
  <2>7. PackEffect(s, r)
    BY <1>0, <1>2, <2>1, <2>3, <2>4, <2>5, <2>6 DEF PackEffect, Idle, Shape, Bounds
  <2>8. PackMove(s, r)
    BY <1>0, <1>2, <2>5 DEF PackMove
  <2>. QED
    BY <2>7, <2>8 DEF Packs
<1>. QED
  BY <1>1, <1>2 DEF PackBlock

\* PackStream has seen the end of the pipe.
LEMMA EndOfInputPacks ==
    ASSUME Shape, Bounds, Feeds, NEW s \in StreamIds, EndOfInput(s)
    PROVE  Packs(s)
<1>0. s \in 1..Len(st) /\ st[s].pc = "read" /\ Idle /\ UNCHANGED <<out, faults>>
      /\ Step(s, "create") /\ st[s].closed /\ st[s].pending = << >> /\ st[s].block = << >>
  BY DEF EndOfInput, AtEnd, At, Started, StreamIds
<1>1. "create" \in StreamPcs \ {"done"}
  BY DEF StreamPcs
<1>2. PICK r : Moved(s, r, "create")
  BY <1>0, <1>1, StepMovesOn
<1>3. PackMove(s, r)
  BY <1>0, <1>2 DEF PackMove, Moved, PackEffect
<1>. QED
  BY <1>2, <1>3 DEF Packs, Moved

\* PackStream's read of the pipe fails.
LEMMA ReadFailsPacks ==
    ASSUME Shape, Bounds, Feeds, NEW s \in StreamIds, ReadFails(s)
    PROVE  Packs(s)
<1> DEFINE r == [st[s] EXCEPT !.data = @ \o st[s].block, !.block = << >>,
                              !.pc = "create", !.hurt = TRUE]
<1>0. s \in 1..Len(st) /\ st[s].pc = "read" /\ Idle /\ st[s] \in Stream /\ st[s].result = None
      /\ UNCHANGED out
  BY DEF ReadFails, At, Started, StreamIds, Shape, Feeds
<1>1. st' = [st EXCEPT ![s] = r]
  BY <1>0 DEF ReadFails, Shape
<1>2. st[s].block \in Seq(Nat) /\ st[s].data \in Seq(Nat)
  BY <1>0 DEF Stream
<1>3. st[s].data \o st[s].block \in Seq(Nat)
      /\ (st[s].data \o st[s].block) \o << >> = st[s].data \o st[s].block
  BY <1>2, MoveBlock
<1>4. r \in Stream
  <2> DEFINE d == st[s].data \o st[s].block
  <2>1. d \in Seq(Nat) /\ "create" \in StreamPcs
    BY <1>3 DEF StreamPcs
  <2> HIDE DEF d
  <2>2. [st[s] EXCEPT !.data = d, !.block = << >>, !.pc = "create", !.hurt = TRUE] \in Stream
    BY <1>0, <2>1, PackedType
  <2>. QED
    BY <2>2 DEF d
<1>5. /\ r.inode = st[s].inode /\ r.closed = st[s].closed /\ r.sent = st[s].sent
      /\ r.data = st[s].data \o st[s].block /\ r.block = << >>
      /\ r.pending = st[s].pending
      /\ r.pc = "create" /\ r.result = None /\ r.hurt
  BY <1>0 DEF Stream
<1> HIDE DEF r
<1>6. Len(r.block) <= BlockSize /\ faults' \in Nat /\ faults' <= MaxFaults
  BY <1>5, StreamAssumption DEF ReadFails, Shape
<1>7. PackEffect(s, r)
  BY <1>0, <1>1, <1>3, <1>4, <1>5, <1>6 DEF PackEffect, Idle
<1>8. PackMove(s, r)
  BY <1>0, <1>5 DEF PackMove
<1>. QED
  BY <1>7, <1>8 DEF Packs

\* PackStream creates its output.
LEMMA CreateOutputPacks ==
    ASSUME Shape, Bounds, Feeds, NEW s \in StreamIds, CreateOutput(s)
    PROVE  Packs(s)
<1>0. s \in 1..Len(st) /\ st[s].pc = "create" /\ Idle
  BY DEF CreateOutput, At, Started, StreamIds
<1>1. CASE Fails(s)
  BY <1>0, <1>1, FailsPacks
<1>2. CASE Step(s, "header") /\ out' = NoParts /\ UNCHANGED faults
  <2>1. "header" \in StreamPcs \ {"done"}
    BY DEF StreamPcs, Parts
  <2>2. PICK r : Moved(s, r, "header") /\ r.hurt = st[s].hurt
    BY <1>0, <1>2, <2>1, StepMovesOn
  <2>3. PackMove(s, r)
    BY <1>0, <1>2, <2>2 DEF PackMove, Moved
  <2>. QED
    BY <2>2, <2>3 DEF Packs, Moved
<1>. QED
  BY <1>1, <1>2 DEF CreateOutput

\* The three writes whose result is not looked at.
LEMMA UncheckedPacks ==
    ASSUME Shape, Bounds, Feeds, NEW s \in StreamIds, NEW part, NEW next,
           <<part, next>> \in {<<"header", "blocks">>, <<"blocks", "encode">>, <<"table", "pool">>},
           WriteUnchecked(s, part, next)
    PROVE  Packs(s)
<1>0. s \in 1..Len(st) /\ st[s].pc = part /\ Idle /\ st[s] \in Stream /\ st[s].pc # "done"
  BY DEF WriteUnchecked, At, Started, StreamIds, Shape
<1>1. next \in StreamPcs \ {"done"}
  BY DEF StreamPcs, Parts
<1>2. CASE Step(s, next) /\ out' = [out EXCEPT ![part] = s] /\ UNCHANGED faults
  <2>1. PICK r : Moved(s, r, next) /\ r.hurt = st[s].hurt
    BY <1>0, <1>1, <1>2, StepMovesOn
  <2>2. WritesPart(s, r, part, next)
    BY <1>0, <1>2, <2>1 DEF WritesPart, Moved
  <2>3. PackMove(s, r)
    BY <2>1, <2>2 DEF PackMove, Moved
  <2>. QED
    BY <2>1, <2>3 DEF Packs, Moved
<1>3. CASE /\ faults < MaxFaults /\ faults' = faults + 1
           /\ st' = [st EXCEPT ![s].pc = next, ![s].hurt = TRUE]
           /\ UNCHANGED out
  <2> DEFINE r == [st[s] EXCEPT !.pc = next, !.hurt = TRUE]
  <2>1. st' = [st EXCEPT ![s] = r] /\ r.hurt
    BY <1>0, <1>3 DEF Shape, Stream
  <2>2. faults' \in Nat /\ faults' <= MaxFaults
    BY <1>3, StreamAssumption DEF Shape
  <2>3. Moved(s, r, next)
    BY <1>0, <1>1, <2>1, <2>2, MovesOn, Zenon
  <2> HIDE DEF r
  <2>4. WritesPart(s, r, part, next)
    BY <1>0, <1>3, <2>1, <2>3 DEF WritesPart, Moved
  <2>5. PackMove(s, r)
    BY <2>3, <2>4 DEF PackMove, Moved
  <2>. QED
    BY <2>3, <2>5 DEF Packs, Moved
<1>. QED
  BY <1>2, <1>3 DEF WriteUnchecked

\* PackStream encodes the chunk table.
LEMMA EncodeTablePacks ==
    ASSUME Shape, Bounds, Feeds, NEW s \in StreamIds, EncodeTable(s)
    PROVE  Packs(s)
<1>0. s \in 1..Len(st) /\ st[s].pc = "encode" /\ Idle
  BY DEF EncodeTable, At, Started, StreamIds
<1>1. CASE Fails(s)
  BY <1>0, <1>1, FailsPacks
<1>2. CASE Step(s, "table") /\ UNCHANGED <<out, faults>>
  <2>1. "table" \in StreamPcs \ {"done"}
    BY DEF StreamPcs, Parts
  <2>2. PICK r : Moved(s, r, "table") /\ r.hurt = st[s].hurt
    BY <1>0, <1>2, <2>1, StepMovesOn
  <2>3. PackMove(s, r)
    BY <1>0, <1>2, <2>2 DEF PackMove, Moved
  <2>. QED
    BY <2>2, <2>3 DEF Packs, Moved
<1>. QED
  BY <1>1, <1>2 DEF EncodeTable

\* PackStream appends the pool to its output.
LEMMA CopyPoolPacks ==
    ASSUME Shape, Bounds, Feeds, NEW s \in StreamIds, CopyPool(s)
    PROVE  Packs(s)
<1>0. s \in 1..Len(st) /\ st[s].pc = "pool" /\ Idle /\ st[s] \in Stream
  BY DEF CopyPool, At, Started, StreamIds, Shape
<1>1. CASE Fails(s)
  BY <1>0, <1>1, FailsPacks
<1>2. CASE /\ out' = [out EXCEPT !["pool"] = s]
           /\ st' = [st EXCEPT ![s].pc = "done", ![s].result = "ok"]
           /\ UNCHANGED faults
  <2> DEFINE r == [st[s] EXCEPT !.pc = "done", !.result = "ok"]
  <2>1. st' = [st EXCEPT ![s] = r]
    BY <1>0, <1>2 DEF Shape
  <2>2. r \in Stream
    BY <1>0 DEF Stream, StreamPcs
  <2>3. /\ r.inode = st[s].inode /\ r.closed = st[s].closed /\ r.sent = st[s].sent
        /\ r.data = st[s].data /\ r.block = st[s].block /\ r.pending = st[s].pending
        /\ r.pc = "done" /\ r.result = "ok" /\ r.hurt = st[s].hurt
    BY <1>0 DEF Stream
  <2>4. "ok" # None /\ Len(r.block) <= BlockSize
    BY <1>0, <2>3, StreamAssumption DEF Bounds
  <2> HIDE DEF r
  <2>5. PackEffect(s, r)
    BY <1>0, <1>2, <2>1, <2>2, <2>3, <2>4 DEF PackEffect, Idle, Shape, Bounds
  <2>6. PackMove(s, r)
    BY <1>0, <1>2, <2>3 DEF PackMove, WritesPart
  <2>. QED
    BY <2>5, <2>6 DEF Packs
<1>. QED
  BY <1>1, <1>2 DEF CopyPool

\* Whichever step of PackStream it is.
LEMMA PackStreamPacks ==
    ASSUME Shape, Bounds, Feeds, NEW s \in StreamIds, PackStream(s)
    PROVE  Packs(s)
<1>1. ASSUME WriteHeader(s) \/ WriteBlockTable(s) \/ WriteTable(s) PROVE Packs(s)
  BY <1>1, UncheckedPacks DEF WriteHeader, WriteBlockTable, WriteTable
<1>. QED
  BY <1>1, OpenPacks, ReadCellPacks, PackBlockPacks, EndOfInputPacks, ReadFailsPacks,
     CreateOutputPacks, EncodeTablePacks, CopyPoolPacks DEF PackStream
-----------------------------------------------------------------------------
(* PackStream keeps the invariant. *)

\* Conjunct by conjunct; Owns and MixNeedsTwoInodes rest on there being one
\* unfinished stream per inode (<1>16).
LEMMA PackStep ==
    ASSUME IInv, NEW s \in StreamIds, PackStream(s)
    PROVE  IInv'
<1>0. /\ Shape /\ Bounds /\ Locks /\ Feeds /\ Closing /\ Conserved /\ Drained
      /\ Output /\ Owns /\ MixNeedsTwoInodes
  BY DEF IInv
<1>1. PICK r : PackEffect(s, r) /\ PackMove(s, r)
  BY <1>0, PackStreamPacks DEF Packs
<1>2. /\ s \in 1..Len(st) /\ r \in Stream /\ st \in Seq(Stream) /\ st[s] \in Stream
      /\ UNCHANGED <<stdin, mu, pw, hd, cells, flushes>>
      /\ r.inode = st[s].inode /\ r.closed = st[s].closed /\ r.sent = st[s].sent
      /\ st[s].pc # "done" /\ (r.pc = "done" <=> r.result # None) /\ (st[s].hurt => r.hurt)
  BY <1>0, <1>1 DEF PackEffect, Shape
<1>3. /\ st' \in Seq(Stream) /\ Len(st') = Len(st) /\ st'[s] = r
      /\ \A t \in 1..Len(st) : t # s => st'[t] = st[t]
  BY <1>1, <1>2, SetStream DEF PackEffect
<1>4. st[s].result = None /\ pw[st[s].inode] = s
  BY <1>0, <1>2 DEF Feeds
<1>5. Shape'
  <2>1. out' \in [Parts -> Nat] /\ faults' \in Nat
    <3>1. s \in Nat /\ out \in [Parts -> Nat] /\ NoParts \in [Parts -> Nat] /\ faults' \in Nat
      BY <1>0, <1>1, <1>2 DEF PackEffect, Shape, NoParts
    <3>2. out' = out \/ out' = NoParts \/ \E k \in Parts : out' = [out EXCEPT ![k] = s]
      BY <1>1, Zenon DEF PackMove, WritesPart, Parts
    <3>. QED
      BY ONLY <3>1, <3>2
  <2>. QED
    BY <1>0, <1>2, <1>3, <2>1 DEF Shape
<1>6. Bounds'
  <2>1. \A k \in Parts : out'[k] <= Len(st')
    BY <1>0, <1>1, <1>2, <1>3 DEF PackMove, WritesPart, Bounds, Shape, NoParts, Parts
  <2>2. \A t \in 1..Len(st') : Len(st'[t].block) <= BlockSize
    BY <1>0, <1>1, <1>2, <1>3 DEF PackEffect, Bounds
  <2>. QED
    BY <1>0, <1>1, <1>2, <1>3, <2>1, <2>2 DEF PackEffect, Bounds
<1>7. Locks'
  BY <1>0, <1>2 DEF Locks
<1>8. Feeds'
  <2>1. \A t \in 1..Len(st) : st'[t].inode = st[t].inode
    BY <1>2, <1>3
  <2>2. \A f \in Inodes : pw[f] # 0 => pw[f] \in 1..Len(st)
    BY <1>0 DEF Bounds, Shape
  <2>. QED
    BY <1>0, <1>2, <1>3, <1>4, <2>1, <2>2 DEF Feeds
<1>9. Closing'
  BY <1>0, <1>2, <1>3 DEF Closing
<1>10. Conserved'
  <2>1. \A h \in Handlers, t \in 1..Len(st) :
          (Writing(h, t)' <=> Writing(h, t)) /\ Payload(h)' = Payload(h)
    BY <1>2 DEF Writing, Payload
  <2>2. /\ (r.data \o r.block) \o r.pending = (st[s].data \o st[s].block) \o st[s].pending
        /\ (st[s].pending = << >> => r.pending = << >>)
    BY <1>1 DEF PackEffect
  <2>3. /\ r.data \in Seq(Nat) /\ r.block \in Seq(Nat)
        /\ st[s].data \in Seq(Nat) /\ st[s].block \in Seq(Nat)
    BY <1>2 DEF Stream
  <2>4. /\ (r.data \o r.block) \o << >> = r.data \o r.block
        /\ (st[s].data \o st[s].block) \o << >> = st[s].data \o st[s].block
    BY <2>3, MoveBlock
  <2>5. ASSUME NEW t \in 1..Len(st), NEW h \in Handlers, Writing(h, t)
        PROVE  (st'[t].data \o st'[t].block) \o st'[t].pending = st'[t].sent \o Payload(h)
    <3>1. (st[t].data \o st[t].block) \o st[t].pending = st[t].sent \o Payload(h)
      BY <1>0, <2>5 DEF Conserved
    <3>. QED
      BY <1>2, <1>3, <2>2, <3>1
  <2>6. ASSUME NEW t \in 1..Len(st), \A h \in Handlers : ~Writing(h, t)
        PROVE  st'[t].pending = << >> /\ st'[t].data \o st'[t].block = st'[t].sent
    <3>1. st[t].pending = << >> /\ st[t].data \o st[t].block = st[t].sent
      BY <1>0, <2>6 DEF Conserved
    <3>2. CASE t = s
      BY <1>2, <1>3, <2>2, <2>4, <3>1, <3>2
    <3>3. CASE t # s
      BY <1>3, <3>1, <3>3
    <3>. QED
      BY <3>2, <3>3
  <2>. QED
    BY <1>3, <2>1, <2>5, <2>6 DEF Conserved
<1>11. Drained'
  <2>1. ASSUME r.pc \in {"create", "encode", "done"} \cup Parts, r.result # "error", ~r.hurt
        PROVE  r.closed /\ r.pending = << >> /\ r.block = << >>
    <3>1. \/ r.pc = "create" /\ st[s].pc = "read"
          \/ /\ st[s].pc \in {"create", "encode"} \cup Parts
             /\ r.pending = st[s].pending /\ r.block = st[s].block
      BY <1>1, <2>1 DEF PackMove, WritesPart, Parts
    <3>2. CASE r.pc = "create" /\ st[s].pc = "read"
      BY <1>1, <2>1, <3>2 DEF PackMove, WritesPart
    <3>3. CASE /\ st[s].pc \in {"create", "encode"} \cup Parts
               /\ r.pending = st[s].pending /\ r.block = st[s].block
      <4>1. st[s].result # "error" /\ ~st[s].hurt
        BY <1>2, <1>4, <2>1, StreamAssumption
      <4>. QED
        BY <1>0, <1>2, <3>3, <4>1 DEF Drained, Created
    <3>. QED
      BY <3>1, <3>2, <3>3
  <2>. QED
    BY <1>0, <1>3, <2>1 DEF Drained, Created
<1>12. Output'
  <2> SUFFICES ASSUME NEW t \in 1..Len(st), ~st'[t].hurt, Alone(t)', NEW k \in Written(t)'
               PROVE  out'[k] = t
    BY <1>3 DEF Output
  <2>1. \A u \in 1..Len(st) : Created(u) => Created(u)'
    BY <1>1, <1>2, <1>3 DEF Created, PackMove, WritesPart, Parts
  <2>2. Alone(t) /\ ~st[t].hurt
    BY <1>2, <1>3, <2>1 DEF Alone
  <2>3. CASE t # s
    <3>1. ~Created(s)'
      BY <1>2, <1>3, <2>3 DEF Alone
    <3>2. out' = out
      BY <1>1, <1>3, <3>1 DEF Created, PackMove, WritesPart, Parts
    <3>3. Written(t)' = Written(t)
      BY <1>3, <2>3 DEF Written
    <3>. QED
      BY <1>0, <2>2, <3>2, <3>3 DEF Output
  <2>4. CASE t = s
    <3>1. \A j \in Written(s) : out[j] = s
      BY <1>0, <2>2, <2>4 DEF Output
    <3>2. ~r.hurt /\ "ok" # None /\ "error" # None /\ k \in Written(s)' /\ out \in [Parts -> Nat]
      BY <1>0, <1>3, <2>4, StreamAssumption DEF Shape
    <3>. QED
      BY <1>1, <1>2, <1>3, <1>4, <2>4, <3>1, <3>2 DEF Written, PackMove, WritesPart, Parts
  <2>. QED
    BY <2>3, <2>4
<1>13. \/ out' = out \/ out' = NoParts
       \/ Active(s) /\ \E k \in Parts : out' = [out EXCEPT ![k] = s]
  BY <1>1 DEF PackMove, WritesPart, Active, Parts
<1>14. Active(s)' => Active(s) \/ out' = NoParts
  BY <1>1, <1>3 DEF PackMove, WritesPart, Active, Parts
<1>15. /\ \A t \in 1..Len(st) : st'[t].inode = st[t].inode
       /\ \A k \in Parts : out[k] # 0 => out[k] \in 1..Len(st)
       /\ \A k \in Parts : out'[k] # 0 => out'[k] \in 1..Len(st)
       /\ out \in [Parts -> Nat] /\ s # 0
  <2>1. \A t \in 1..Len(st) : st'[t].inode = st[t].inode
    BY <1>2, <1>3
  <2>2. out \in [Parts -> Nat] /\ out' \in [Parts -> Nat] /\ Len(st) \in Nat
    BY <1>0, <1>2, <1>5 DEF Shape
  <2>3. \A k \in Parts : out[k] <= Len(st) /\ out'[k] <= Len(st)
    BY <1>0, <1>3, <1>6 DEF Bounds
  <2>. QED
    BY <1>2, <2>1, <2>2, <2>3
<1>16. \A t \in 1..Len(st) : Active(t) /\ st[t].inode = st[s].inode => t = s
  BY <1>0, <1>2, <1>4 DEF Feeds, Active, Parts
<1>17. Owns'
  <2> SUFFICES ASSUME NEW t \in 1..Len(st), Active(t)', NEW k \in Parts, out'[k] # 0,
                      st'[out'[k]].inode = st'[t].inode
               PROVE  out'[k] = t
    BY <1>3 DEF Owns
  <2>1. out' # NoParts
    BY DEF NoParts
  <2>2. Active(t)
    BY <1>3, <1>14, <2>1 DEF Active
  <2>3. st[out'[k]].inode = st[t].inode
    BY <1>15
  <2>4. CASE out'[k] = out[k]
    BY <1>0, <1>15, <2>2, <2>3, <2>4 DEF Owns
  <2>5. CASE out'[k] = s
    BY <1>16, <2>2, <2>3, <2>5
  <2>. QED
    BY <1>13, <1>15, <2>1, <2>4, <2>5
<1>18. MixNeedsTwoInodes'
  <2> SUFFICES ASSUME NEW j \in Parts, NEW k \in Parts, out'[j] # 0, out'[k] # 0,
                      out'[j] # out'[k]
               PROVE  st'[out'[j]].inode # st'[out'[k]].inode
    BY DEF MixNeedsTwoInodes
  <2>1. out' # NoParts
    BY DEF NoParts
  <2>2. CASE out' = out
    BY <1>0, <1>15, <2>2 DEF MixNeedsTwoInodes
  <2>3. CASE Active(s) /\ \E i \in Parts : out' = [out EXCEPT ![i] = s]
    <3>1. \A i \in Parts : out[i] # 0 /\ st[out[i]].inode = st[s].inode => out[i] = s
      BY <1>0, <1>2, <2>3 DEF Owns
    <3>2. out'[j] \in {out[j], s} /\ out'[k] \in {out[k], s}
      BY <1>15, <2>3
    <3>3. st[out'[j]].inode # st[out'[k]].inode
      BY <1>0, <3>1, <3>2 DEF MixNeedsTwoInodes
    <3>. QED
      BY <1>15, <3>3
  <2>. QED
    BY <1>13, <2>1, <2>2, <2>3
<1>. QED
  BY <1>5, <1>6, <1>7, <1>8, <1>9, <1>10, <1>11, <1>12, <1>17, <1>18 DEF IInv
-----------------------------------------------------------------------------
(* The handlers keep the invariant. *)

\* Steps that leave the output alone, move no stream and start some.
LEMMA OutputAlone ==
    ASSUME IInv, out' = out, Len(st') \in Nat, Len(st') >= Len(st),
           \A t \in 1..Len(st) :
               /\ st'[t].inode = st[t].inode /\ st'[t].pc = st[t].pc
               /\ st'[t].result = st[t].result /\ st'[t].hurt = st[t].hurt,
           \A t \in Len(st) + 1..Len(st') : st'[t].pc = "open"
    PROVE  Output' /\ Owns' /\ MixNeedsTwoInodes'
<1>0. Len(st) \in Nat /\ out \in [Parts -> Nat] /\ \A k \in Parts : out[k] <= Len(st)
  BY DEF IInv, Shape, Bounds
<1>1. \A k \in Parts : out[k] # 0 => out[k] \in 1..Len(st)
  BY <1>0
<1>2. \A t \in 1..Len(st') : t \in 1..Len(st) \/ t \in Len(st) + 1..Len(st')
  BY <1>0
<1>3. 1..Len(st) \subseteq 1..Len(st')
  BY <1>0
<1>4. Output'
  <2> SUFFICES ASSUME NEW t \in 1..Len(st'), ~st'[t].hurt, Alone(t)', NEW k \in Written(t)'
               PROVE  out[k] = t
    BY DEF Output
  <2>1. t \in 1..Len(st)
    BY <1>2 DEF Written
  <2>2. Alone(t)
    BY <1>3 DEF Alone, Created
  <2>3. Written(t)' = Written(t)
    BY <2>1 DEF Written
  <2>. QED
    BY <2>1, <2>2, <2>3 DEF Output, IInv
<1>5. Owns'
  <2> SUFFICES ASSUME NEW t \in 1..Len(st'), Active(t)', NEW k \in Parts, out[k] # 0,
                      st'[out[k]].inode = st'[t].inode
               PROVE  out[k] = t
    BY DEF Owns
  <2>1. t \in 1..Len(st)
    BY <1>2 DEF Active, Parts
  <2>2. Active(t) /\ st[out[k]].inode = st[t].inode
    BY <1>1, <2>1 DEF Active
  <2>. QED
    BY <2>1, <2>2 DEF Owns, IInv
<1>6. MixNeedsTwoInodes'
  BY <1>1 DEF MixNeedsTwoInodes, IInv
<1>. QED
  BY <1>4, <1>5, <1>6

\* An inode whose lock is free has no writer, and its stream is open.
LEMMA FreeInode ==
    ASSUME IInv, NEW f \in Inodes, mu[f] = None
    PROVE  /\ \A h \in Handlers : hd[h].pc \in {"pipe", "wait"} => hd[h].inode # f
           /\ \A s \in 1..Len(st), h \in Handlers : pw[f] = s => ~Writing(h, s)
           /\ \A s \in 1..Len(st) : pw[f] = s => st[s].inode = f /\ ~st[s].closed
<1>1. \A h \in Handlers : hd[h].pc \in {"pipe", "wait"} => hd[h].inode # f
  BY StreamAssumption DEF IInv, Locks
<1>2. ASSUME NEW s \in 1..Len(st), pw[f] = s PROVE st[s].inode = f /\ ~st[s].closed
  <2>1. st[s].inode = f
    BY <1>2 DEF IInv, Feeds
  <2>. QED
    BY <1>1, <1>2, <2>1 DEF IInv, Closing
<1>3. ASSUME NEW s \in 1..Len(st), NEW h \in Handlers, pw[f] = s, Writing(h, s) PROVE FALSE
  <2>1. hd[h].pc = "pipe" /\ pw[hd[h].inode] = s /\ hd[h].inode \in Inodes
    BY <1>3 DEF Writing, IInv, Locks
  <2>2. st[s].inode = hd[h].inode
    BY <1>3, <2>1 DEF IInv, Feeds
  <2>. QED
    BY <1>1, <1>2, <1>3, <2>1, <2>2
<1>. QED
  BY <1>1, <1>2, <1>3

\* Create adds a stream to an inode that had none.
LEMMA CreateStep ==
    ASSUME IInv, NEW f \in Inodes, Create(f)
    PROVE  IInv'
<1> DEFINE n == Len(st) + 1
<1>0. /\ Shape /\ Bounds /\ Locks /\ Feeds /\ Closing /\ Conserved /\ Drained
  BY DEF IInv
<1>1. /\ pw[f] = 0 /\ mu[f] = None /\ Len(st) < MaxStreams
      /\ st' = Append(st, NewStream(f)) /\ pw' = [pw EXCEPT ![f] = n]
      /\ UNCHANGED <<stdin, mu, hd, out, cells, flushes, faults>>
  BY DEF Create, Started
<1>2. /\ st' \in Seq(Stream) /\ Len(st') = n /\ st'[n] = NewStream(f)
      /\ \A t \in 1..Len(st) : st'[t] = st[t]
  BY <1>0, <1>1, NewStreamType, AddStream DEF Shape
<1>3. /\ Len(st) \in Nat /\ n \in Nat /\ 1..n = 1..Len(st) \cup {n} /\ n \notin 1..Len(st)
  BY <1>0 DEF Shape
<1>4. /\ NewStream(f).inode = f /\ NewStream(f).pc = "open" /\ ~NewStream(f).closed
      /\ NewStream(f).pending = << >> /\ NewStream(f).block = << >> /\ NewStream(f).data = << >>
      /\ NewStream(f).sent = << >> /\ ~NewStream(f).hurt /\ NewStream(f).result = None
  BY DEF NewStream
<1>5. pw' \in [Inodes -> Nat] /\ \A g \in Inodes : pw'[g] = IF g = f THEN n ELSE pw[g]
  BY <1>0, <1>1, <1>3 DEF Shape
<1>6. \A h \in Handlers : hd[h].pc \in {"pipe", "wait"} => hd[h].inode # f /\ hd[h].inode \in Inodes
  BY <1>1, FreeInode DEF IInv, Locks
<1> HIDE DEF n
<1>7. Shape'
  BY <1>0, <1>1, <1>2, <1>5 DEF Shape
<1>8. Bounds'
  <2>1. \A k \in Parts : out[k] \in Nat /\ out[k] <= n
    BY <1>0, <1>3 DEF Bounds, Shape, n
  <2>2. \A g \in Inodes : pw'[g] <= n
    BY <1>0, <1>3, <1>5 DEF Bounds, Shape, n
  <2>3. n <= MaxStreams
    BY <1>1, <1>3, StreamAssumption DEF n
  <2>4. \A t \in 1..n : Len(st'[t].block) <= BlockSize
    <3>1. Len(st'[n].block) <= BlockSize
      BY <1>2, <1>4, StreamAssumption
    <3>2. \A t \in 1..Len(st) : Len(st'[t].block) <= BlockSize
      BY <1>0, <1>2 DEF Bounds
    <3>. QED
      BY <1>3, <3>1, <3>2
  <2>. QED
    BY <1>0, <1>1, <1>2, <2>1, <2>2, <2>3, <2>4 DEF Bounds
<1>9. Locks'
  BY <1>0, <1>1 DEF Locks
<1>10. \A g \in Inodes : pw[g] # 0 => pw[g] \in 1..Len(st) /\ st[pw[g]].inode = g
  BY <1>0, <1>3 DEF Bounds, Shape, Feeds
<1>11. \A t \in 1..Len(st) : st[t].inode \in Inodes
  BY <1>0, StreamFields
<1>12. Feeds'
  <2>1. \A g \in Inodes : pw'[g] # 0 => st'[pw'[g]].inode = g
    BY <1>2, <1>4, <1>5, <1>10
  <2>2. \A h \in Handlers : hd[h].pc \in {"pipe", "wait"} => pw'[hd[h].inode] # 0
    BY <1>0, <1>5, <1>6 DEF Feeds
  <2>3. \A t \in 1..n : st'[t].result = None => pw'[st'[t].inode] = t
    BY <1>0, <1>1, <1>2, <1>3, <1>4, <1>5, <1>11 DEF Feeds
  <2>4. \A t \in 1..n : st'[t].pc = "done" <=> st'[t].result # None
    BY <1>0, <1>2, <1>3, <1>4 DEF Feeds
  <2>. QED
    BY <1>1, <1>2, <2>1, <2>2, <2>3, <2>4 DEF Feeds
<1>13. Closing'
  BY <1>0, <1>1, <1>2, <1>3, <1>4, <1>5, <1>11 DEF Closing
<1>14. \A h \in Handlers, t \in 1..n :
          /\ Writing(h, t)' <=> t # n /\ Writing(h, t)
          /\ Payload(h)' = Payload(h)
  <2>1. \A h \in Handlers, t \in 1..n : Writing(h, t)' <=> hd[h].pc = "pipe" /\ pw[hd[h].inode] = t
    BY <1>1, <1>5, <1>6 DEF Writing
  <2>2. \A g \in Inodes : pw[g] # n
    BY <1>3, <1>10 DEF n
  <2>. QED
    BY <1>1, <1>6, <2>1, <2>2 DEF Writing, Payload
<1>15. Conserved'
  <2>1. << >> \o << >> = << >>
    OBVIOUS
  <2>2. st'[n].pending = << >> /\ st'[n].data \o st'[n].block = st'[n].sent
    BY <1>2, <1>4, <2>1
  <2>3. \A t \in 1..Len(st) :
          /\ \A h \in Handlers : Writing(h, t)' =>
               (st'[t].data \o st'[t].block) \o st'[t].pending = st'[t].sent \o Payload(h)'
          /\ (\A h \in Handlers : ~Writing(h, t)') =>
               st'[t].pending = << >> /\ st'[t].data \o st'[t].block = st'[t].sent
    BY <1>0, <1>2, <1>3, <1>14 DEF Conserved
  <2>. QED
    BY <1>2, <1>3, <1>14, <2>2, <2>3 DEF Conserved
<1>16. Drained'
  BY <1>0, <1>2, <1>3, <1>4 DEF Drained, Created, Parts
<1>17. Output' /\ Owns' /\ MixNeedsTwoInodes'
  BY <1>1, <1>2, <1>3, <1>4, OutputAlone DEF n
<1>. QED
  BY <1>7, <1>8, <1>9, <1>12, <1>13, <1>15, <1>16, <1>17 DEF IInv

\* What a lock holder and a reader of the streams rely on.
LEMMA Facts ==
    ASSUME IInv
    PROVE  /\ Shape /\ Bounds /\ Locks /\ Feeds /\ Closing /\ Conserved /\ Drained
           /\ Len(st) \in Nat
           /\ \A g \in Inodes : pw[g] # 0 => pw[g] \in 1..Len(st) /\ st[pw[g]].inode = g
           /\ \A h \in Handlers : hd[h].pc \in {"pipe", "wait"} =>
                 hd[h].inode \in Inodes /\ pw[hd[h].inode] # 0 /\ mu[hd[h].inode] = h
<1>1. /\ Shape /\ Bounds /\ Locks /\ Feeds /\ Closing /\ Conserved /\ Drained
  BY DEF IInv
<1>2. Len(st) \in Nat /\ \A g \in Inodes : pw[g] \in Nat /\ pw[g] <= Len(st)
  BY <1>1 DEF Shape, Bounds
<1>3. \A g \in Inodes : pw[g] # 0 => pw[g] \in 1..Len(st) /\ st[pw[g]].inode = g
  BY <1>1, <1>2 DEF Feeds
<1>4. \A h \in Handlers : hd[h].pc \in {"pipe", "wait"} =>
         hd[h].inode \in Inodes /\ pw[hd[h].inode] # 0 /\ mu[hd[h].inode] = h
  BY <1>1 DEF Locks, Feeds
<1>. QED
  BY <1>1, <1>2, <1>3, <1>4

\* A request that arrives holds nothing yet.
LEMMA RequestStep ==
    ASSUME IInv, NEW h \in Handlers, NEW f \in Inodes, Request(h, f)
    PROVE  IInv'
<1>0. /\ Shape /\ Bounds /\ Locks /\ Feeds /\ Closing /\ Conserved /\ Drained
  BY Facts
<1>1. /\ hd[h].pc = "idle" /\ UNCHANGED <<stdin, mu, pw, st, out, faults>>
  BY DEF Request
<1>2. \E x \in Handler : hd' = [hd EXCEPT ![h] = x] /\ x.pc \in {"write", "flush"} /\ x.inode = f
  <2>1. ASSUME NEW n \in WriteSizes, hd' = [hd EXCEPT ![h] = [pc |-> "write", inode |-> f, from |-> cells, len |-> n]]
        PROVE  \E x \in Handler : hd' = [hd EXCEPT ![h] = x] /\ x.pc \in {"write", "flush"} /\ x.inode = f
    <3>1. n \in Nat /\ cells \in Nat
      BY <1>0, StreamAssumption DEF Shape
    <3>2. [pc |-> "write", inode |-> f, from |-> cells, len |-> n] \in Handler
      BY <3>1 DEF Handler
    <3>. QED
      BY <2>1, <3>2
  <2>2. ASSUME hd' = [hd EXCEPT ![h] = [Free EXCEPT !.pc = "flush", !.inode = f]]
        PROVE  \E x \in Handler : hd' = [hd EXCEPT ![h] = x] /\ x.pc \in {"write", "flush"} /\ x.inode = f
    <3>1. [Free EXCEPT !.pc = "flush", !.inode = f] \in Handler
      BY DEF Handler, Free
    <3>2. /\ [Free EXCEPT !.pc = "flush", !.inode = f].pc = "flush"
          /\ [Free EXCEPT !.pc = "flush", !.inode = f].inode = f
      BY DEF Free
    <3>. QED
      BY <2>2, <3>1, <3>2
  <2>. QED
    BY <2>1, <2>2 DEF Request
<1>3. PICK x \in Handler : hd' = [hd EXCEPT ![h] = x] /\ x.pc \in {"write", "flush"} /\ x.inode = f
  BY <1>2
<1>4. /\ hd' \in [Handlers -> Handler] /\ hd'[h] = x
      /\ \A g \in Handlers : g # h => hd'[g] = hd[g]
  BY <1>0, <1>3 DEF Shape
<1>5. cells' \in Nat /\ cells' <= MaxCells /\ flushes' \in Nat /\ flushes' <= MaxFlushes
  BY <1>0, StreamAssumption DEF Request, Shape, Bounds
<1>6. Shape' /\ Bounds'
  BY <1>0, <1>1, <1>4, <1>5 DEF Shape, Bounds
<1>7. Locks'
  BY <1>0, <1>1, <1>3, <1>4 DEF Locks
<1>8. Feeds'
  BY <1>0, <1>1, <1>3, <1>4 DEF Feeds
<1>9. Closing'
  BY <1>0, <1>1, <1>3, <1>4 DEF Closing
<1>10. \A g \in Handlers, t \in 1..Len(st) :
         (Writing(g, t)' <=> Writing(g, t)) /\ (Writing(g, t) => Payload(g)' = Payload(g))
  BY <1>1, <1>3, <1>4 DEF Writing, Payload
<1>11. Conserved'
  BY <1>0, <1>1, <1>10 DEF Conserved
<1>12. Drained' /\ Output' /\ Owns' /\ MixNeedsTwoInodes'
  BY <1>1 DEF IInv, Drained, Output, Owns, MixNeedsTwoInodes, Created, Alone, Written, Active
<1>. QED
  BY <1>6, <1>7, <1>8, <1>9, <1>11, <1>12 DEF IInv

\* Write returns: what it offered now counts as sent.
LEMMA WriteReturnsStep ==
    ASSUME IInv, NEW h \in Handlers, WriteReturns(h)
    PROVE  IInv'
<1> DEFINE f == hd[h].inode
           s == pw[f]
           r == [st[s] EXCEPT !.sent = @ \o Payload(h)]
<1>0. /\ Shape /\ Bounds /\ Locks /\ Feeds /\ Closing /\ Conserved /\ Drained
  BY Facts
<1>1. /\ hd[h].pc = "pipe" /\ st[s].pending = << >>
      /\ mu' = [mu EXCEPT ![f] = None] /\ hd' = [hd EXCEPT ![h] = Free]
      /\ UNCHANGED <<stdin, pw, out, cells, flushes, faults>>
  BY DEF WriteReturns
<1>2. f \in Inodes /\ s \in 1..Len(st) /\ st[s].inode = f /\ mu[f] = h
  BY <1>1, Facts
<1>3. st[s] \in Stream /\ st[s].sent \in Seq(Nat) /\ Payload(h) \in Seq(Nat)
      /\ st[s].data \in Seq(Nat) /\ st[s].block \in Seq(Nat)
  BY <1>0, <1>2, StreamFields, PayloadType
<1>4. st[s].sent \o Payload(h) \in Seq(Nat)
  BY <1>3
<1>5. r \in Stream
  <2> DEFINE d == st[s].sent \o Payload(h)
  <2>1. d \in Seq(Nat)
    BY <1>4
  <2> HIDE DEF d
  <2>2. [st[s] EXCEPT !.sent = d] \in Stream
    BY <1>3, <2>1 DEF Stream
  <2>. QED
    BY <2>2 DEF d
<1>6. st' = [st EXCEPT ![s] = r]
  BY <1>0, <1>2, <1>3 DEF WriteReturns, Shape
<1>7. /\ r.inode = st[s].inode /\ r.closed = st[s].closed /\ r.sent = st[s].sent \o Payload(h)
      /\ r.data = st[s].data /\ r.block = st[s].block /\ r.pending = st[s].pending
      /\ r.pc = st[s].pc /\ r.result = st[s].result /\ r.hurt = st[s].hurt
  BY <1>3 DEF Stream
<1> HIDE DEF r
<1>8. /\ st' \in Seq(Stream) /\ Len(st') = Len(st) /\ st'[s] = r
      /\ \A t \in 1..Len(st) : t # s => st'[t] = st[t]
  BY <1>0, <1>2, <1>5, <1>6, SetStream DEF Shape
<1> HIDE DEF s
<1>9. \A t \in 1..Len(st) :
        /\ st'[t].inode = st[t].inode /\ st'[t].pc = st[t].pc /\ st'[t].hurt = st[t].hurt
        /\ st'[t].result = st[t].result /\ st'[t].closed = st[t].closed
        /\ st'[t].block = st[t].block /\ st'[t].data = st[t].data /\ st'[t].pending = st[t].pending
  BY <1>7, <1>8
<1>10. /\ Free \in Handler /\ Free.pc = "idle"
       /\ hd' \in [Handlers -> Handler] /\ hd'[h] = Free
       /\ \A g \in Handlers : g # h => hd'[g] = hd[g]
  BY <1>0, <1>1 DEF Shape, Free, Handler
<1>11. /\ mu' \in [Inodes -> Handlers \cup {None}] /\ mu'[f] = None
       /\ \A g \in Inodes : g # f => mu'[g] = mu[g]
  BY <1>0, <1>1, <1>2 DEF Shape
<1>12. Shape'
  BY <1>0, <1>1, <1>8, <1>10, <1>11 DEF Shape
<1>13. Bounds'
  BY <1>0, <1>1, <1>8, <1>9 DEF Bounds
<1>14. Locks'
  BY <1>0, <1>1, <1>2, <1>10, <1>11, StreamAssumption DEF Locks
<1>15. Feeds'
  <2>1. \A g \in Inodes : pw[g] # 0 => pw[g] \in 1..Len(st)
    BY Facts
  <2>. QED
    BY <1>0, <1>1, <1>8, <1>9, <1>10, <2>1 DEF Feeds
<1>16. Closing'
  BY <1>0, <1>1, <1>8, <1>9, <1>10, SMTT(30) DEF Closing
<1>17. /\ \A g \in Handlers, t \in 1..Len(st) :
            /\ Writing(g, t)' <=> g # h /\ Writing(g, t)
            /\ g # h => Payload(g)' = Payload(g)
       /\ Writing(h, s) /\ \A g \in Handlers : Writing(g, s) => g = h
       /\ \A t \in 1..Len(st) : Writing(h, t) => t = s
  <2>1. Writing(h, s) /\ \A t \in 1..Len(st) : Writing(h, t) => t = s
    BY <1>1 DEF Writing, s
  <2>2. ASSUME NEW g \in Handlers, Writing(g, s) PROVE g = h
    <3>1. hd[g].inode \in Inodes /\ mu[hd[g].inode] = g /\ pw[hd[g].inode] = s
      BY <2>2, Facts DEF Writing
    <3>2. st[s].inode = hd[g].inode
      BY <1>2, <3>1, Facts
    <3>. QED
      BY <1>2, <3>1, <3>2
  <2>. QED
    BY <1>1, <1>10, <2>1, <2>2 DEF Writing, Payload
<1>18. Conserved'
  <2>1. st[s].data \o st[s].block = r.sent
    <3>1. (st[s].data \o st[s].block) \o st[s].pending = st[s].sent \o Payload(h)
      BY <1>0, <1>2, <1>17 DEF Conserved
    <3>2. (st[s].data \o st[s].block) \o << >> = st[s].data \o st[s].block
      BY <1>3, MoveBlock
    <3>. QED
      BY <1>1, <1>7, <3>1, <3>2 DEF s
  <2>2. ASSUME NEW t \in 1..Len(st), NEW g \in Handlers, Writing(g, t)'
        PROVE  (st'[t].data \o st'[t].block) \o st'[t].pending = st'[t].sent \o Payload(g)'
    BY <1>0, <1>8, <1>17, <2>2 DEF Conserved
  <2>3. ASSUME NEW t \in 1..Len(st), \A g \in Handlers : ~Writing(g, t)'
        PROVE  st'[t].pending = << >> /\ st'[t].data \o st'[t].block = st'[t].sent
    <3>1. CASE t = s
      BY <1>1, <1>7, <1>8, <2>1, <3>1 DEF s
    <3>2. CASE t # s
      BY <1>0, <1>8, <1>17, <2>3, <3>2 DEF Conserved
    <3>. QED
      BY <3>1, <3>2
  <2>. QED
    BY <1>8, <2>2, <2>3 DEF Conserved
<1>19. Drained'
  BY <1>0, <1>8, <1>9 DEF Drained, Created
<1>20. Output' /\ Owns' /\ MixNeedsTwoInodes'
  <2>1. \A t \in Len(st) + 1..Len(st') : st'[t].pc = "open"
    BY <1>8, Facts
  <2>. QED
    BY <1>1, <1>8, <1>9, <2>1, Facts, OutputAlone
<1>. QED
  BY <1>12, <1>13, <1>14, <1>15, <1>16, <1>18, <1>19, <1>20 DEF IInv

\* Flush returns: the stream it forgets has a result.
LEMMA FlushReturnsStep ==
    ASSUME IInv, NEW h \in Handlers, FlushReturns(h)
    PROVE  IInv'
<1> DEFINE f == hd[h].inode
<1>0. /\ Shape /\ Bounds /\ Locks /\ Feeds /\ Closing /\ Conserved /\ Drained
  BY Facts
<1>1. /\ hd[h].pc = "wait" /\ st[pw[f]].result # None
      /\ pw' = [pw EXCEPT ![f] = 0] /\ mu' = [mu EXCEPT ![f] = None]
      /\ hd' = [hd EXCEPT ![h] = Free]
      /\ UNCHANGED <<stdin, st, out, cells, flushes, faults>>
  BY DEF FlushReturns
<1>2. f \in Inodes /\ pw[f] \in 1..Len(st) /\ st[pw[f]].inode = f /\ mu[f] = h
  BY <1>1, Facts
<1>3. /\ Free \in Handler /\ Free.pc = "idle"
      /\ hd' \in [Handlers -> Handler] /\ hd'[h] = Free
      /\ \A g \in Handlers : g # h => hd'[g] = hd[g]
  BY <1>0, <1>1 DEF Shape, Free, Handler
<1>4. /\ mu' \in [Inodes -> Handlers \cup {None}] /\ mu'[f] = None
      /\ \A g \in Inodes : g # f => mu'[g] = mu[g]
  BY <1>0, <1>1, <1>2 DEF Shape
<1>5. /\ pw' \in [Inodes -> Nat] /\ pw'[f] = 0
      /\ \A g \in Inodes : g # f => pw'[g] = pw[g]
  BY <1>0, <1>1, <1>2 DEF Shape
<1>6. \A g \in Handlers : hd[g].pc \in {"pipe", "wait"} /\ g # h =>
         hd[g].inode \in Inodes /\ hd[g].inode # f
  BY <1>2, Facts
<1>7. Shape'
  BY <1>0, <1>1, <1>3, <1>4, <1>5 DEF Shape
<1>8. Bounds'
  <2>1. \A g \in Inodes : pw'[g] <= Len(st)
    BY <1>0, <1>5, Facts DEF Bounds
  <2>. QED
    BY <1>0, <1>1, <2>1 DEF Bounds
<1>9. Locks'
  BY <1>0, <1>1, <1>2, <1>3, <1>4, StreamAssumption DEF Locks
<1>10. Feeds'
  <2>1. \A t \in 1..Len(st) : st[t].result = None => pw'[st[t].inode] = t
    <3>1. \A t \in 1..Len(st) : st[t].inode \in Inodes
      BY <1>0, StreamFields
    <3>. QED
      BY <1>0, <1>1, <1>5, <3>1 DEF Feeds
  <2>2. \A g \in Handlers : hd'[g].pc \in {"pipe", "wait"} => pw'[hd'[g].inode] # 0
    BY <1>0, <1>3, <1>5, <1>6 DEF Feeds
  <2>3. \A g \in Inodes : pw'[g] # 0 => st[pw'[g]].inode = g
    BY <1>0, <1>5 DEF Feeds
  <2>. QED
    BY <1>0, <1>1, <2>1, <2>2, <2>3 DEF Feeds
<1>11. Closing'
  <2> SUFFICES ASSUME NEW t \in 1..Len(st), st[t].closed, pw'[st[t].inode] = t
               PROVE  \E g \in Handlers : hd'[g].pc = "wait" /\ hd'[g].inode = st[t].inode
    BY <1>1 DEF Closing
  <2>1. st[t].inode \in Inodes /\ st[t].inode # f
    BY <1>0, <1>5, StreamFields
  <2>2. PICK g \in Handlers : hd[g].pc = "wait" /\ hd[g].inode = st[t].inode
    BY <1>0, <1>5, <2>1 DEF Closing
  <2>. QED
    BY <1>3, <2>1, <2>2
<1>12. \A g \in Handlers, t \in 1..Len(st) :
         (Writing(g, t)' <=> Writing(g, t)) /\ (Writing(g, t) => Payload(g)' = Payload(g))
  BY <1>1, <1>3, <1>5, <1>6 DEF Writing, Payload
<1>13. Conserved'
  BY <1>0, <1>1, <1>12 DEF Conserved
<1>14. Drained' /\ Output' /\ Owns' /\ MixNeedsTwoInodes'
  BY <1>1 DEF IInv, Drained, Output, Owns, MixNeedsTwoInodes, Created, Alone, Written, Active
<1>. QED
  BY <1>7, <1>8, <1>9, <1>10, <1>11, <1>13, <1>14 DEF IInv

\* A handler enters Write or Flush of f: what the lock alone decides.
LEMMA Enters ==
    ASSUME IInv, NEW h \in Handlers, NEW f \in Inodes, NEW pc \in {"pipe", "wait"},
           hd[h].inode = f, hd[h].pc \in {"write", "flush"}, mu[f] = None,
           mu' = [mu EXCEPT ![f] = h], hd' = [hd EXCEPT ![h].pc = pc]
    PROVE  /\ mu' \in [Inodes -> Handlers \cup {None}] /\ hd' \in [Handlers -> Handler]
           /\ hd'[h].pc = pc /\ hd'[h].inode = f /\ Payload(h)' = Payload(h)
           /\ \A g \in Handlers : g # h => hd'[g] = hd[g] /\ Payload(g)' = Payload(g)
           /\ Locks'
<1>0. Shape /\ Locks
  BY DEF IInv
<1>1. hd[h] \in Handler
  BY <1>0 DEF Shape
<1>2. [hd[h] EXCEPT !.pc = pc] \in Handler
  BY <1>1 DEF Handler
<1>3. hd' = [hd EXCEPT ![h] = [hd[h] EXCEPT !.pc = pc]]
  BY <1>0 DEF Shape
<1>4. /\ hd' \in [Handlers -> Handler] /\ hd'[h] = [hd[h] EXCEPT !.pc = pc]
      /\ \A g \in Handlers : g # h => hd'[g] = hd[g]
  BY <1>0, <1>2, <1>3 DEF Shape
<1>5. hd'[h].pc = pc /\ hd'[h].inode = f /\ hd'[h].len = hd[h].len /\ hd'[h].from = hd[h].from
  BY <1>1, <1>4 DEF Handler
<1>6. /\ mu' \in [Inodes -> Handlers \cup {None}] /\ mu'[f] = h
      /\ \A g \in Inodes : g # f => mu'[g] = mu[g]
  BY <1>0 DEF Shape
<1>7. Locks'
  BY <1>0, <1>4, <1>5, <1>6, StreamAssumption DEF Locks
<1>. QED
  BY <1>4, <1>5, <1>6, <1>7 DEF Payload

\* Flush closes the pipe, or finds no stream.
LEMMA FlushStep ==
    ASSUME IInv, NEW h \in Handlers, Flush(h)
    PROVE  IInv'
<1> DEFINE f == hd[h].inode
           s == pw[f]
           r == [st[s] EXCEPT !.closed = TRUE]
<1>0. /\ Shape /\ Bounds /\ Locks /\ Feeds /\ Closing /\ Conserved /\ Drained
  BY Facts
<1>1. /\ hd[h].pc = "flush" /\ mu[f] = None /\ f \in Inodes
      /\ UNCHANGED <<stdin, pw, out, cells, flushes, faults>>
  BY <1>0 DEF Flush, Locks
<1>2. CASE s = 0
  <2>1. hd' = [hd EXCEPT ![h] = Free] /\ UNCHANGED <<mu, st>>
    BY <1>2 DEF Flush
  <2>2. /\ Free \in Handler /\ Free.pc = "idle"
        /\ hd' \in [Handlers -> Handler] /\ hd'[h] = Free
        /\ \A g \in Handlers : g # h => hd'[g] = hd[g]
    BY <1>0, <2>1 DEF Shape, Free, Handler
  <2>3. Shape' /\ Bounds'
    BY <1>0, <1>1, <2>1, <2>2 DEF Shape, Bounds
  <2>4. Locks' /\ Feeds' /\ Closing'
    BY <1>0, <1>1, <2>1, <2>2 DEF Locks, Feeds, Closing
  <2>5. \A g \in Handlers, t \in 1..Len(st) :
           (Writing(g, t)' <=> Writing(g, t)) /\ (Writing(g, t) => Payload(g)' = Payload(g))
    BY <1>1, <2>2 DEF Writing, Payload
  <2>6. Conserved'
    BY <1>0, <2>1, <2>5 DEF Conserved
  <2>7. Drained' /\ Output' /\ Owns' /\ MixNeedsTwoInodes'
    BY <1>1, <2>1 DEF IInv, Drained, Output, Owns, MixNeedsTwoInodes, Created, Alone, Written, Active
  <2>. QED
    BY <2>3, <2>4, <2>6, <2>7 DEF IInv
<1>3. CASE s # 0
  <2>1. /\ mu' = [mu EXCEPT ![f] = h] /\ st' = [st EXCEPT ![s].closed = TRUE]
        /\ hd' = [hd EXCEPT ![h].pc = "wait"]
    BY <1>3 DEF Flush
  <2>2. s \in 1..Len(st) /\ st[s].inode = f
    BY <1>1, <1>3, Facts
  <2>3. st[s] \in Stream
    BY <1>0, <2>2, StreamFields
  <2>4. r \in Stream /\ st' = [st EXCEPT ![s] = r]
    BY <1>0, <2>1, <2>2, <2>3 DEF Stream, Shape
  <2>5. /\ r.inode = st[s].inode /\ r.closed /\ r.sent = st[s].sent
        /\ r.data = st[s].data /\ r.block = st[s].block /\ r.pending = st[s].pending
        /\ r.pc = st[s].pc /\ r.result = st[s].result /\ r.hurt = st[s].hurt
    BY <2>3 DEF Stream
  <2> HIDE DEF r
  <2>6. /\ st' \in Seq(Stream) /\ Len(st') = Len(st) /\ st'[s] = r
        /\ \A t \in 1..Len(st) : t # s => st'[t] = st[t]
    BY <1>0, <2>2, <2>4, SetStream DEF Shape
  <2>7. /\ mu' \in [Inodes -> Handlers \cup {None}] /\ hd' \in [Handlers -> Handler]
        /\ hd'[h].pc = "wait" /\ hd'[h].inode = f /\ Locks'
        /\ \A g \in Handlers : g # h => hd'[g] = hd[g] /\ Payload(g)' = Payload(g)
    BY <1>1, <2>1, Enters
  <2> HIDE DEF s
  <2>8. \A t \in 1..Len(st) :
          /\ st'[t].inode = st[t].inode /\ st'[t].pc = st[t].pc /\ st'[t].hurt = st[t].hurt
          /\ st'[t].result = st[t].result /\ st'[t].sent = st[t].sent
          /\ st'[t].block = st[t].block /\ st'[t].data = st[t].data /\ st'[t].pending = st[t].pending
    BY <2>5, <2>6
  <2>9. Shape'
    BY <1>0, <1>1, <2>6, <2>7 DEF Shape
  <2>10. Bounds'
    BY <1>0, <1>1, <2>6, <2>8 DEF Bounds
  <2>11. Feeds'
    <3>1. \A g \in Inodes : pw[g] # 0 => pw[g] \in 1..Len(st)
      BY Facts
    <3>. QED
      BY <1>0, <1>1, <1>3, <2>6, <2>7, <2>8, <3>1 DEF Feeds, s
  <2>12. Closing'
    <3> SUFFICES ASSUME NEW t \in 1..Len(st), st'[t].closed, pw[st[t].inode] = t
                 PROVE  \E g \in Handlers : hd'[g].pc = "wait" /\ hd'[g].inode = st[t].inode
      BY <1>1, <2>6, <2>8 DEF Closing
    <3>1. CASE t = s
      BY <2>2, <2>7, <3>1
    <3>2. CASE t # s
      <4>1. PICK g \in Handlers : hd[g].pc = "wait" /\ hd[g].inode = st[t].inode
        BY <1>0, <2>6, <3>2 DEF Closing
      <4>. QED
        BY <1>1, <2>7, <4>1
    <3>. QED
      BY <3>1, <3>2
  <2>13. \A g \in Handlers, t \in 1..Len(st) :
           (Writing(g, t)' <=> Writing(g, t)) /\ (Writing(g, t) => Payload(g)' = Payload(g))
    BY <1>1, <2>7 DEF Writing
  <2>14. Conserved'
    BY <1>0, <2>6, <2>8, <2>13, ZenonT(60) DEF Conserved
  <2>15. Drained'
    BY <1>0, <2>5, <2>6 DEF Drained, Created
  <2>16. Output' /\ Owns' /\ MixNeedsTwoInodes'
    <3>1. \A t \in Len(st) + 1..Len(st') : st'[t].pc = "open"
      BY <2>6, Facts
    <3>. QED
      BY <1>1, <2>6, <2>8, <3>1, Facts, OutputAlone
  <2>. QED
    BY <2>7, <2>9, <2>10, <2>11, <2>12, <2>14, <2>15, <2>16 DEF IInv
<1>. QED
  BY <1>2, <1>3

\* The stream a Write offers its data to: a new one, or the one the inode feeds,
\* which is open and has nothing pending.
Offered(h, f, s, r) ==
    /\ r \in Stream /\ r.inode = f /\ ~r.closed /\ r.pending = Payload(h)
    /\ r.data \o r.block = r.sent /\ Len(r.block) <= BlockSize
    /\ (r.pc = "done" <=> r.result # None)
    /\ ~(r.pc \in {"create", "encode", "done"} \cup Parts /\ r.result # "error" /\ ~r.hurt)
    /\ st' \in Seq(Stream) /\ Len(st') >= Len(st) /\ st'[s] = r
    /\ 1..Len(st') = 1..Len(st) \cup {s}
    /\ \A t \in 1..Len(st) : t # s => st'[t] = st[t]
    /\ \/ s \in 1..Len(st) /\ s = pw[f]
          /\ r.pc = st[s].pc /\ r.result = st[s].result /\ r.hurt = st[s].hurt
       \/ s = Len(st) + 1 /\ pw[f] = 0 /\ r.pc = "open"

\* Both cases of Write.
LEMMA WriteOffers ==
    ASSUME IInv, NEW h \in Handlers, Write(h)
    PROVE  \E s \in 1..MaxStreams, r \in Stream :
             /\ Offered(h, hd[h].inode, s, r) /\ Len(st') <= MaxStreams
             /\ pw' = [pw EXCEPT ![hd[h].inode] = s]
<1> DEFINE f == hd[h].inode
<1>0. /\ Shape /\ Bounds /\ Locks /\ Feeds /\ Closing /\ Conserved /\ Drained
  BY Facts
<1>1. hd[h].pc = "write" /\ mu[f] = None /\ f \in Inodes /\ Payload(h) \in Seq(Nat)
  BY <1>0, PayloadType DEF Write, Locks
<1> HIDE DEF f
<1>2. CASE pw[f] = 0
  <2> DEFINE s == Len(st) + 1
             r == [NewStream(f) EXCEPT !.pending = Payload(h)]
             z == Append(st, NewStream(f))
  <2>1. /\ s <= MaxStreams /\ pw' = [pw EXCEPT ![f] = s] /\ st' = [z EXCEPT ![s].pending = Payload(h)]
    BY <1>2 DEF Write, Started, f
  <2>2. NewStream(f) \in Stream /\ st \in Seq(Stream) /\ Len(st) \in Nat
    BY <1>0, <1>1, NewStreamType DEF Shape
  <2>3. /\ z \in Seq(Stream) /\ Len(z) = s /\ z[s] = NewStream(f)
        /\ \A t \in 1..Len(st) : z[t] = st[t]
    BY <2>2, AddStream
  <2>4. r \in Stream
    BY <1>1, <2>2 DEF Stream
  <2>5. /\ r.inode = f /\ r.pc = "open" /\ ~r.closed /\ r.pending = Payload(h)
        /\ r.block = << >> /\ r.data = << >> /\ r.sent = << >> /\ r.result = None
    BY DEF NewStream
  <2> HIDE DEF z
  <2>6. st' = [z EXCEPT ![s] = r]
    BY <2>1, <2>2, <2>3
  <2> HIDE DEF r
  <2>7. s \in 1..Len(z) /\ s \in 1..MaxStreams
    BY <2>1, <2>2, <2>3, StreamAssumption
  <2>8. /\ st' \in Seq(Stream) /\ Len(st') = s /\ st'[s] = r
        /\ \A t \in 1..s : t # s => st'[t] = z[t]
    BY <2>3, <2>4, <2>6, <2>7, SetStream
  <2>9. /\ 1..s = 1..Len(st) \cup {s} /\ s >= Len(st) /\ s \notin 1..Len(st)
    BY <2>2
  <2>10. r.data \o r.block = r.sent /\ Len(r.block) <= BlockSize
    BY <2>5, StreamAssumption
  <2>11. \A t \in 1..Len(st) : t # s => st'[t] = st[t]
    BY <2>3, <2>8, <2>9
  <2>12. Offered(h, f, s, r)
    BY <1>2, <2>4, <2>5, <2>8, <2>9, <2>10, <2>11 DEF Offered, Parts
  <2>. QED
    BY <2>1, <2>4, <2>7, <2>8, <2>12 DEF f
<1>3. CASE pw[f] # 0
  <2> DEFINE s == pw[f]
             r == [st[s] EXCEPT !.pending = Payload(h)]
  <2>1. /\ pw' = [pw EXCEPT ![f] = s] /\ st' = [st EXCEPT ![s].pending = Payload(h)]
    BY <1>3 DEF Write, Started, f
  <2>2. s \in 1..Len(st) /\ st[s].inode = f /\ Len(st) \in Nat
    BY <1>1, <1>3, Facts
  <2>3. /\ st[s] \in Stream /\ st \in Seq(Stream) /\ Len(st[s].block) <= BlockSize
        /\ Len(st) <= MaxStreams
    BY <1>0, <2>2, StreamFields DEF Shape, Bounds
  <2>4. ~st[s].closed /\ \A g \in Handlers : ~Writing(g, s)
    BY <1>1, <2>2, FreeInode
  <2>5. st[s].data \o st[s].block = st[s].sent
    BY <1>0, <2>2, <2>4 DEF Conserved
  <2>6. st[s].pc = "done" <=> st[s].result # None
    BY <1>0, <2>2 DEF Feeds
  <2>7. ~(st[s].pc \in {"create", "encode", "done"} \cup Parts /\ st[s].result # "error" /\ ~st[s].hurt)
    BY <1>0, <2>2, <2>4 DEF Drained, Created
  <2>8. r \in Stream /\ st' = [st EXCEPT ![s] = r]
    BY <1>1, <2>1, <2>2, <2>3 DEF Stream
  <2>9. /\ r.inode = st[s].inode /\ r.closed = st[s].closed /\ r.sent = st[s].sent
        /\ r.data = st[s].data /\ r.block = st[s].block /\ r.pending = Payload(h)
        /\ r.pc = st[s].pc /\ r.result = st[s].result /\ r.hurt = st[s].hurt
    BY <2>3 DEF Stream
  <2> HIDE DEF r
  <2>10. /\ st' \in Seq(Stream) /\ Len(st') = Len(st) /\ st'[s] = r
         /\ \A t \in 1..Len(st) : t # s => st'[t] = st[t]
    BY <2>2, <2>3, <2>8, SetStream
  <2>11. 1..Len(st') = 1..Len(st) \cup {s} /\ Len(st') >= Len(st) /\ s \in 1..MaxStreams
    BY <2>2, <2>3, <2>10, StreamAssumption
  <2>12. Offered(h, f, s, r)
    BY <2>2, <2>3, <2>4, <2>5, <2>6, <2>7, <2>8, <2>9, <2>10, <2>11 DEF Offered
  <2>. QED
    BY <2>1, <2>3, <2>8, <2>10, <2>11, <2>12 DEF f
<1>. QED
  BY <1>2, <1>3

\* Write keeps the invariant, whichever stream it writes to.
LEMMA WriteStep ==
    ASSUME IInv, NEW h \in Handlers, Write(h)
    PROVE  IInv'
<1> DEFINE f == hd[h].inode
<1>0. /\ Shape /\ Bounds /\ Locks /\ Feeds /\ Closing /\ Conserved /\ Drained
  BY Facts
<1>1. /\ hd[h].pc = "write" /\ mu[f] = None /\ f \in Inodes
      /\ mu' = [mu EXCEPT ![f] = h] /\ hd' = [hd EXCEPT ![h].pc = "pipe"]
      /\ UNCHANGED <<stdin, out, cells, flushes, faults>>
  BY <1>0 DEF Write, Locks
<1>2. PICK s \in 1..MaxStreams, r \in Stream :
        Offered(h, f, s, r) /\ Len(st') <= MaxStreams /\ pw' = [pw EXCEPT ![f] = s]
  BY WriteOffers
<1>3. /\ mu' \in [Inodes -> Handlers \cup {None}] /\ hd' \in [Handlers -> Handler]
      /\ hd'[h].pc = "pipe" /\ hd'[h].inode = f /\ Payload(h)' = Payload(h) /\ Locks'
      /\ \A g \in Handlers : g # h => hd'[g] = hd[g] /\ Payload(g)' = Payload(g)
  BY <1>1, Enters
<1>4. s \in Nat /\ s # 0 /\ Len(st) \in Nat /\ st' \in Seq(Stream) /\ Len(st') \in Nat
  BY <1>2, StreamAssumption, Facts DEF Offered
<1>5. /\ pw' \in [Inodes -> Nat] /\ \A g \in Inodes : pw'[g] = IF g = f THEN s ELSE pw[g]
  BY <1>0, <1>2, <1>4 DEF Shape
<1>6. /\ st'[s] = r /\ s \in 1..Len(st') /\ 1..Len(st') = 1..Len(st) \cup {s}
      /\ Len(st') >= Len(st) /\ \A t \in 1..Len(st) : t # s => st'[t] = st[t]
  BY <1>2 DEF Offered
<1>7. /\ r.inode = f /\ ~r.closed /\ r.pending = Payload(h) /\ r.data \o r.block = r.sent
      /\ Len(r.block) <= BlockSize /\ (r.pc = "done" <=> r.result # None)
      /\ ~(r.pc \in {"create", "encode", "done"} \cup Parts /\ r.result # "error" /\ ~r.hurt)
  BY <1>2 DEF Offered
<1>8. /\ \A g \in Inodes : g # f => pw[g] # s
      /\ \A g \in Inodes : pw[g] # 0 => pw[g] \in 1..Len(st) /\ st[pw[g]].inode = g
      /\ pw[f] \in {0, s}
  <2>1. \A g \in Inodes : pw[g] # 0 => pw[g] \in 1..Len(st) /\ st[pw[g]].inode = g
    BY Facts
  <2>2. s = pw[f] \/ (s = Len(st) + 1 /\ pw[f] = 0)
    BY <1>2 DEF Offered
  <2>. QED
    BY <1>1, <1>4, <2>1, <2>2
<1>9. \A t \in 1..Len(st) : st[t].inode \in Inodes
  BY <1>0, StreamFields
<1>10. Shape'
  BY <1>0, <1>1, <1>3, <1>4, <1>5 DEF Shape
<1>11. Bounds'
  <2>1. \A k \in Parts : out[k] <= Len(st')
    BY <1>0, <1>4, <1>6 DEF Bounds, Shape
  <2>2. \A g \in Inodes : pw'[g] <= Len(st')
    BY <1>0, <1>4, <1>5, <1>6 DEF Bounds, Shape
  <2>3. \A t \in 1..Len(st') : Len(st'[t].block) <= BlockSize
    BY <1>0, <1>6, <1>7 DEF Bounds
  <2>. QED
    BY <1>0, <1>1, <1>2, <2>1, <2>2, <2>3 DEF Bounds
<1>12. Feeds'
  <2>1. \A g \in Inodes : pw'[g] # 0 => st'[pw'[g]].inode = g
    BY <1>5, <1>6, <1>7, <1>8
  <2>2. \A g \in Handlers : hd'[g].pc \in {"pipe", "wait"} => pw'[hd'[g].inode] # 0
    <3>1. \A g \in Handlers : hd[g].pc \in {"pipe", "wait"} =>
             hd[g].inode \in Inodes /\ pw[hd[g].inode] # 0
      BY Facts
    <3>. QED
      BY <1>1, <1>3, <1>4, <1>5, <3>1, SMTT(30)
  <2>3. \A t \in 1..Len(st') : st'[t].result = None => pw'[st'[t].inode] = t
    <3>1. CASE pw[f] = 0
      BY <1>0, <1>1, <1>4, <1>5, <1>6, <1>7, <1>9, <3>1 DEF Feeds
    <3>2. CASE pw[f] = s
      BY <1>0, <1>1, <1>5, <1>6, <1>7, <1>9, <3>2 DEF Feeds
    <3>. QED
      BY <1>8, <3>1, <3>2
  <2>4. \A t \in 1..Len(st') : st'[t].pc = "done" <=> st'[t].result # None
    BY <1>0, <1>6, <1>7 DEF Feeds
  <2>. QED
    BY <2>1, <2>2, <2>3, <2>4 DEF Feeds
<1>13. Closing'
  <2> SUFFICES ASSUME NEW t \in 1..Len(st'), st'[t].closed, pw'[st'[t].inode] = t
               PROVE  \E g \in Handlers : hd'[g].pc = "wait" /\ hd'[g].inode = st'[t].inode
    BY DEF Closing
  <2>1. t # s /\ t \in 1..Len(st) /\ st'[t] = st[t]
    BY <1>6, <1>7
  <2>2. pw[st[t].inode] = t /\ st[t].inode # f
    BY <1>1, <1>5, <1>9, <2>1
  <2>3. PICK g \in Handlers : hd[g].pc = "wait" /\ hd[g].inode = st[t].inode
    BY <1>0, <2>1, <2>2 DEF Closing
  <2>. QED
    BY <1>1, <1>3, <2>1, <2>3
<1>14. \A g \in Handlers : hd[g].pc \in {"pipe", "wait"} => hd[g].inode # f /\ hd[g].inode \in Inodes
  BY <1>1, FreeInode, Facts
<1>15. /\ Writing(h, s)' /\ \A g \in Handlers : Writing(g, s)' => g = h
       /\ \A g \in Handlers, t \in 1..Len(st) : t # s => (Writing(g, t)' <=> Writing(g, t))
  BY <1>1, <1>3, <1>5, <1>8, <1>14 DEF Writing
<1>16. Conserved'
  <2>1. ASSUME NEW g \in Handlers, Writing(g, s)'
        PROVE  (st'[s].data \o st'[s].block) \o st'[s].pending = st'[s].sent \o Payload(g)'
    BY <1>3, <1>6, <1>7, <1>15, <2>1
  <2>2. ASSUME NEW t \in 1..Len(st), t # s, NEW g \in Handlers, Writing(g, t)'
        PROVE  (st'[t].data \o st'[t].block) \o st'[t].pending = st'[t].sent \o Payload(g)'
    BY <1>0, <1>3, <1>6, <1>15, <2>2 DEF Conserved
  <2>3. ASSUME NEW t \in 1..Len(st), t # s, \A g \in Handlers : ~Writing(g, t)'
        PROVE  st'[t].pending = << >> /\ st'[t].data \o st'[t].block = st'[t].sent
    BY <1>0, <1>6, <1>15, <2>3 DEF Conserved
  <2>. QED
    BY <1>6, <1>15, <2>1, <2>2, <2>3 DEF Conserved
<1>17. Drained'
  BY <1>0, <1>6, <1>7 DEF Drained, Created
<1>18. Output' /\ Owns' /\ MixNeedsTwoInodes'
  <2>1. \A t \in 1..Len(st) :
          /\ st'[t].inode = st[t].inode /\ st'[t].pc = st[t].pc
          /\ st'[t].result = st[t].result /\ st'[t].hurt = st[t].hurt
    <3>1. s \in 1..Len(st) => /\ r.inode = st[s].inode /\ r.pc = st[s].pc
                              /\ r.result = st[s].result /\ r.hurt = st[s].hurt
      BY <1>1, <1>2, <1>4, <1>7, <1>8 DEF Offered
    <3>. QED
      BY <1>6, <3>1
  <2>2. \A t \in Len(st) + 1..Len(st') : st'[t].pc = "open"
    BY <1>2, <1>4, <1>6 DEF Offered
  <2>. QED
    BY <1>1, <1>4, <1>6, <2>1, <2>2, OutputAlone
<1>. QED
  BY <1>3, <1>10, <1>11, <1>12, <1>13, <1>16, <1>17, <1>18 DEF IInv
-----------------------------------------------------------------------------
(* The theorems. *)

\* IInv holds initially and every action keeps it.
LEMMA Inductive == Spec => []IInv
<1>1. Init => IInv
  <2> SUFFICES ASSUME Init PROVE IInv
    OBVIOUS
  <2>1. st = << >> /\ Len(st) = 0 /\ 1..Len(st) = {} /\ st \in Seq(Stream)
    BY DEF Init
  <2>2. Free \in Handler /\ Free.pc = "idle" /\ Free.inode = None
    BY DEF Free, Handler
  <2>3. Shape
    BY <2>1, <2>2 DEF Init, Shape, NoParts
  <2>4. Bounds
    BY <2>1, StreamAssumption DEF Init, Bounds, NoParts
  <2>5. Locks
    BY <2>2, StreamAssumption DEF Init, Locks
  <2>6. Feeds /\ Closing /\ Conserved /\ Drained /\ Output /\ Owns
    BY <2>1, <2>2 DEF Init, Feeds, Closing, Conserved, Drained, Output, Owns
  <2>7. MixNeedsTwoInodes
    BY DEF Init, MixNeedsTwoInodes, NoParts
  <2>. QED
    BY <2>3, <2>4, <2>5, <2>6, <2>7 DEF IInv
<1>2. IInv /\ [Next]_vars => IInv'
  <2> SUFFICES ASSUME IInv, [Next]_vars PROVE IInv'
    OBVIOUS
  <2>1. ASSUME UNCHANGED vars PROVE IInv'
    <3>0. UNCHANGED <<stdin, mu, pw, hd, st, out, cells, flushes, faults>>
      BY <2>1 DEF vars
    <3>1. Shape' /\ Bounds'
      BY <3>0 DEF IInv, Shape, Bounds
    <3>2. Locks' /\ Feeds' /\ Closing'
      BY <3>0 DEF IInv, Locks, Feeds, Closing
    <3>3. \A g \in Handlers, t \in 1..Len(st) :
             (Writing(g, t)' <=> Writing(g, t)) /\ Payload(g)' = Payload(g)
      BY <3>0 DEF Writing, Payload
    <3>4. Conserved'
      BY <3>0, <3>3 DEF IInv, Conserved
    <3>5. Drained' /\ Output' /\ Owns' /\ MixNeedsTwoInodes'
      BY <3>0 DEF IInv, Drained, Output, Owns, MixNeedsTwoInodes, Created, Alone, Written, Active
    <3>. QED
      BY <3>1, <3>2, <3>4, <3>5 DEF IInv
  <2>. QED
    BY <2>1, CreateStep, RequestStep, WriteStep, WriteReturnsStep, FlushStep, FlushReturnsStep,
       PackStep DEF Next, Handle
<1>. QED
  BY <1>1, <1>2, PTL DEF Spec

\* The types, the bounds, and a lock held by exactly the handlers inside Write or
\* Flush (fs.go:118, :132).
THEOREM TypeCorrect == Spec => []TypeOK
<1>1. IInv => TypeOK
  <2> SUFFICES ASSUME IInv PROVE TypeOK
    OBVIOUS
  <2>0. Shape /\ Bounds /\ Locks /\ Len(st) \in Nat
    BY Facts
  <2>1. \A t \in 1..Len(st) : st[t].result \in {None, "ok", "error"} /\ st[t].pc \in StreamPcs
    BY <2>0, StreamFields DEF Stream
  <2>2. out \in [Parts -> 0..Started] /\ pw \in [Inodes -> 0..Started]
    BY <2>0 DEF Shape, Bounds, Started
  <2>3. \A h \in Handlers : hd[h].pc \in {"idle", "write", "pipe", "flush", "wait"}
    BY <2>0 DEF Shape, Handler
  <2>4. cells \in 0..MaxCells /\ flushes \in 0..MaxFlushes /\ faults \in 0..MaxFaults
    BY <2>0, StreamAssumption DEF Shape, Bounds
  <2>. QED
    BY <2>0, <2>1, <2>2, <2>3, <2>4 DEF TypeOK, Shape, Bounds, Locks, Started, StreamPcs
<1>. QED
  BY <1>1, Inductive, PTL

\* A stream that ended well, alone on its name, holds all its parts and exactly
\* what its Writes had accepted (compiler_stream.go:236, :268, :276, :283).
THEOREM FinishedIntact == Spec => []FinishedStreamIsIntact
<1>1. IInv => FinishedStreamIsIntact
  <2> SUFFICES ASSUME IInv, NEW s \in 1..Len(st), st[s].result = "ok", ~st[s].hurt,
                      \A t \in 1..Len(st) : t # s => ~Created(t)
               PROVE  out = [k \in Parts |-> s] /\ st[s].data = st[s].sent
    BY DEF FinishedStreamIsIntact, Started
  <2>0. /\ Shape /\ Feeds /\ Closing /\ Conserved /\ Drained /\ Output /\ "ok" # None
    BY StreamAssumption DEF IInv
  <2>1. st[s].pc = "done" /\ Created(s)
    BY <2>0 DEF Feeds, Created
  <2>2. Written(s) = Parts
    BY <2>1 DEF Written
  <2>3. \A k \in Parts : out[k] = s
    BY <2>0, <2>2 DEF Output, Alone
  <2>4. out = [k \in Parts |-> s]
    BY <2>0, <2>3 DEF Shape
  <2>5. st[s].closed /\ st[s].block = << >>
    BY <2>0, <2>1 DEF Drained
  <2>6. \A h \in Handlers : ~Writing(h, s)
    <3> SUFFICES ASSUME NEW h \in Handlers, Writing(h, s) PROVE FALSE
      OBVIOUS
    <3>1. hd[h].inode \in Inodes /\ pw[hd[h].inode] = s /\ mu[hd[h].inode] = h /\ hd[h].pc = "pipe"
      BY Facts DEF Writing
    <3>2. st[s].inode = hd[h].inode
      BY <3>1, Facts
    <3>3. PICK g \in Handlers : hd[g].pc = "wait" /\ hd[g].inode = st[s].inode
      BY <2>0, <2>5, <3>1, <3>2 DEF Closing
    <3>4. mu[hd[g].inode] = g
      BY <3>3, Facts
    <3>. QED
      BY <3>1, <3>2, <3>3, <3>4
  <2>7. st[s].data \o st[s].block = st[s].sent
    BY <2>0, <2>6 DEF Conserved
  <2>8. st[s].data \in Seq(Nat)
    BY <2>0, StreamFields
  <2>9. st[s].data \o << >> = st[s].data
    BY <2>8
  <2>. QED
    BY <2>4, <2>5, <2>7, <2>9
<1>. QED
  BY <1>1, Inductive, PTL

\* The streams of one inode never share an output: Flush waits for the packer
\* before the next Write may start another (fs.go:137).
THEOREM MixturesNeedTwoInodes == Spec => []MixNeedsTwoInodes
<1>1. IInv => MixNeedsTwoInodes
  BY DEF IInv
<1>. QED
  BY <1>1, Inductive, PTL

\* Only a stream that failed, or took a read error for the end, leaves a Write
\* behind in its pipe (fs.go:125, compiler_stream.go:236).
THEOREM WritersAreServed == Spec => []NoWriterLeftBehind
<1>1. IInv => NoWriterLeftBehind
  BY DEF IInv, Drained, NoWriterLeftBehind, Started
<1>. QED
  BY <1>1, Inductive, PTL
=============================================================================
