------------------------- MODULE SyncProtocolProofs -------------------------
(***************************************************************************)
(* The safety properties of SyncProtocol, for any files, any request size  *)
(* and any number of pulls and changes: types, what the rebuilt file is,   *)
(* where a mixture of two versions can differ from either, when a client   *)
(* starves, and when the old copy is given up.                             *)
(***************************************************************************)
EXTENDS SyncProtocol, FiniteSetTheorems, SequenceTheorems, RecursionTheorems, TLAPS

SyncReq == [kind |-> "syncReq"]
DiffReq(S) == [kind |-> "diffReq", indices |-> S]
Manifest(f) == [kind |-> "manifest", file |-> f]
Message == {Error} \cup [kind : {"manifest"}, file : CromFile] \cup Record

Shape ==
    /\ {remote, local, manifest, basis, served} \subseteq MaybeFile
    /\ temp \in MaybeFile \cup {Partial}
    /\ trusted \in BOOLEAN /\ up \in BOOLEAN
    /\ pc \in {"idle", "await", "receive", "rebuild", "write", "remove", "rename",
               "done", "crashed"}
    /\ result \in {"none", "upToDate", "nothing", "installed", "error", "diskError"}
    /\ missing \subseteq Nat \ {0} /\ nread \in Nat /\ kept \subseteq Chunk
    /\ toClient \in Seq(Message)
    /\ toServer \in {<< >>, <<SyncReq>>, <<DiffReq(missing)>>}
    /\ handler \in {"loop", "closed"}
    /\ pulls \in Nat /\ changes \in Nat

\* While the client waits for the manifest the request is on its way, or was
\* refused, or has been answered.
Asking ==
    pc = "await" =>
        /\ DOMAIN got = {} /\ nread = 0
        /\ \/ /\ toServer = <<SyncReq>>
              /\ toClient = << >> \/ (toClient = <<Error>> /\ handler = "closed")
           \/ /\ toServer = << >> /\ (trusted \/ handler = "closed")
              /\ \/ toClient \in {<< >>, <<Error>>}
                 \/ /\ trusted /\ toClient[1].file \in CromFile
                    /\ toClient = <<Manifest(toClient[1].file)>>

\* The client works with a manifest.
Working ==
    pc \in {"receive", "rebuild", "write", "remove", "rename"} =>
        manifest \in CromFile /\ missing \subseteq Indices(manifest)

\* A residual of position i that the sender read from f.
Residual(f, i, r) == f \in CromFile /\ i \in Indices(f) /\ r = f.entries[i].residual

\* While records are read the stream holds records of the file that was served,
\* and, if that file is readable and long enough, all that are still to come.
Receiving ==
    pc = "receive" =>
        /\ trusted
        /\ toServer # << >> => toServer = <<DiffReq(missing)>> /\ toClient = << >> /\ nread = 0
        /\ \A k \in 1..Len(toClient) :
             /\ toClient[k] \in Record /\ toClient[k].index \in missing
             /\ Residual(served, toClient[k].index, toClient[k].residual)
        /\ toServer = << >> /\ handler = "loop" /\ Readable(served)
             /\ Len(served.entries) >= Len(manifest.entries) =>
             nread + Len(toClient) = Cardinality(missing)

\* What was received was asked for and comes from the file that was served, and
\* there is nothing before the request has arrived.
Received ==
    /\ toServer # << >> => DOMAIN got = {}
    /\ DOMAIN got \subseteq missing
    /\ \A i \in DOMAIN got : Residual(served, i, got[i])

\* From here on the temporary file is complete.
Complete == pc \in {"remove", "rename"} => temp = Rebuilt /\ Lacking = {}

IInv == Shape /\ Asking /\ Working /\ Receiving /\ Received /\ Complete
-----------------------------------------------------------------------------
(* What StreamChunks sends. *)

\* The members of a set of positions up to m.
Upto(S, m) == {j \in S : j <= m}

\* The positions of a file, and those up to one of them, are finitely many.
LEMMA UptoFinite ==
    ASSUME NEW n \in Nat, NEW S \in SUBSET (1..n), NEW m \in Nat
    PROVE  /\ IsFiniteSet(S) /\ Cardinality(S) \in Nat
           /\ IsFiniteSet(Upto(S, m)) /\ Cardinality(Upto(S, m)) \in Nat
<1>1. IsFiniteSet(1..n)
  BY FS_Interval
<1>2. IsFiniteSet(S) /\ IsFiniteSet(Upto(S, m))
  BY <1>1, FS_Subset DEF Upto
<1>. QED
  BY <1>2, FS_CardinalityType

\* For every k up to the size of the set some member has exactly k members up to it.
LEMMA RankExists ==
    ASSUME NEW n \in Nat, NEW S \in SUBSET (1..n), NEW k \in 1..Cardinality(S)
    PROVE  \E i \in S : Cardinality({j \in S : j <= i}) = k
<1> DEFINE T == {m \in Nat : k <= Cardinality(Upto(S, m))}
<1>0. \A j \in S : j \in Nat /\ 1 <= j /\ j <= n
  OBVIOUS
<1>1. k \in Nat /\ k >= 1 /\ k <= Cardinality(S)
  BY UptoFinite
<1>2. n \in T
  <2>1. Upto(S, n) = S
    BY <1>0 DEF Upto
  <2>. QED
    BY <1>1, <2>1
<1>3. PICK m \in T : \A x \in T : m <= x
  BY <1>2, LeastNatural
<1>4. Upto(S, 0) = {}
  <2>1. \A j \in S : ~(j <= 0)
    BY <1>0
  <2>. QED
    BY <2>1, Zenon DEF Upto
<1>5. m # 0
  BY <1>1, <1>3, <1>4, FS_EmptySet
<1>6. m \in Nat /\ m - 1 \in Nat /\ k <= Cardinality(Upto(S, m))
  BY <1>3, <1>5
<1>7. Cardinality(Upto(S, m - 1)) < k
  <2>1. m - 1 \notin T
    BY <1>3, <1>6
  <2>2. Cardinality(Upto(S, m - 1)) \in Nat
    BY <1>6, UptoFinite
  <2>. QED
    BY <1>1, <1>6, <2>1, <2>2
<1> HIDE DEF T
<1>a. /\ \A j \in S : j <= m <=> j <= m - 1 \/ j = m
      /\ ~(m <= m - 1)
  BY <1>0, <1>6
<1>8. m \in S
  <2>1. m \notin S => Upto(S, m) = Upto(S, m - 1)
    BY <1>a, Zenon DEF Upto
  <2>. QED
    BY <1>1, <1>6, <1>7, <2>1, UptoFinite
<1>9. Upto(S, m) = Upto(S, m - 1) \cup {m} /\ m \notin Upto(S, m - 1)
  BY <1>8, <1>a, Zenon DEF Upto
<1>10. Cardinality(Upto(S, m)) = Cardinality(Upto(S, m - 1)) + 1
  <2>1. IsFiniteSet(Upto(S, m - 1))
    BY <1>6, UptoFinite
  <2>. QED
    BY <1>9, <2>1, FS_AddElement
<1>11. Cardinality(Upto(S, m)) = k
  <2>1. Cardinality(Upto(S, m - 1)) \in Nat
    BY <1>6, UptoFinite
  <2>. QED
    BY <1>1, <1>6, <1>7, <1>10, <2>1
<1>. QED
  BY <1>8, <1>11 DEF Upto

\* StreamChunks sends one record for each position asked for that its file has,
\* with the residual of that position.
LEMMA SortedRecordsFacts ==
    ASSUME NEW f \in CromFile, NEW want
    PROVE  /\ SortedRecords(f, want) \in Seq(Record)
           /\ Len(SortedRecords(f, want)) = Cardinality(want \cap Indices(f))
           /\ \A k \in 1..Len(SortedRecords(f, want)) :
                 LET r == SortedRecords(f, want)[k]
                 IN  /\ r.index \in want /\ r.index \in Indices(f)
                     /\ r.residual = f.entries[r.index].residual
<1> DEFINE have == {i \in want : i \in Indices(f)}
           nth(k) == CHOOSE i \in have : Cardinality({j \in have : j <= i}) = k
           rec(k) == [kind |-> "record", index |-> nth(k), residual |-> f.entries[nth(k)].residual]
           n == Len(f.entries)
<1>1. n \in Nat /\ Indices(f) = 1..n /\ f.entries \in Seq(Chunk)
  BY DEF CromFile, Indices
<1>2. have \in SUBSET (1..n) /\ have = want \cap Indices(f)
  BY <1>1
<1>3. Cardinality(have) \in Nat
  BY <1>1, <1>2, UptoFinite
<1>4. \A k \in 1..Cardinality(have) : nth(k) \in have
  <2> SUFFICES ASSUME NEW k \in 1..Cardinality(have) PROVE nth(k) \in have
    OBVIOUS
  <2>1. \E i \in have : Cardinality({j \in have : j <= i}) = k
    BY <1>1, <1>2, RankExists
  <2>. QED
    BY <2>1
<1>5. SortedRecords(f, want) = [k \in 1..Cardinality(have) |-> rec(k)]
  BY DEF SortedRecords
<1> HIDE DEF nth
<1>6. \A k \in 1..Cardinality(have) :
        /\ rec(k) \in Record /\ rec(k).index \in want /\ rec(k).index \in Indices(f)
        /\ rec(k).residual = f.entries[rec(k).index].residual
  <2> SUFFICES ASSUME NEW k \in 1..Cardinality(have)
               PROVE  /\ rec(k) \in Record /\ rec(k).index \in want /\ rec(k).index \in Indices(f)
                      /\ rec(k).residual = f.entries[rec(k).index].residual
    OBVIOUS
  <2>1. nth(k) \in 1..n /\ nth(k) \in want
    BY <1>2, <1>4
  <2>2. f.entries[nth(k)] \in Chunk
    BY <1>1, <2>1
  <2>3. f.entries[nth(k)].residual \in Residuals
    BY <2>2 DEF Chunk
  <2>. QED
    BY <1>1, <2>1, <2>3 DEF Record
<1> HIDE DEF rec, have
<1>7. SortedRecords(f, want) \in Seq(Record) /\ Len(SortedRecords(f, want)) = Cardinality(have)
  BY <1>3, <1>5, <1>6
<1>. QED
  BY <1>2, <1>5, <1>6, <1>7, ZenonT(80)
-----------------------------------------------------------------------------
(* The client keeps the invariant. *)

\* What is sent on an error is a message.
LEMMA ErrorIsMessage == Error \in Message /\ << >> \in Seq(Message) /\ <<Error>> \in Seq(Message)
BY DEF Message

\* What is left of a channel after one message is a channel.
LEMMA TailIsMessages ==
    ASSUME Shape, toClient # << >>
    PROVE  /\ Tail(toClient) \in Seq(Message) /\ Len(Tail(toClient)) = Len(toClient) - 1
           /\ \A k \in 1..Len(toClient) - 1 : Tail(toClient)[k] = toClient[k + 1]
           /\ Len(toClient) >= 1 /\ Head(toClient) = toClient[1] /\ Head(toClient) \in Message
BY DEF Shape

\* What ReceiveChunks writes is a file, of one entry per entry of the manifest.
LEMMA RebuiltType ==
    ASSUME Received, manifest \in CromFile
    PROVE  /\ Rebuilt \in CromFile
           /\ Rebuilt.hash = manifest.hash /\ ~Rebuilt.lossy /\ Rebuilt.health = "ok"
           /\ Rebuilt.entries \in Seq(Chunk) /\ Len(Rebuilt.entries) = Len(manifest.entries)
           /\ \A i \in Indices(manifest) :
                 Rebuilt.entries[i] = [pattern |-> manifest.entries[i].pattern,
                                       residual |-> IF i \in DOMAIN got THEN got[i]
                                                    ELSE manifest.entries[i].residual]
<1> DEFINE n == Len(manifest.entries)
           e(i) == [pattern |-> manifest.entries[i].pattern,
                    residual |-> IF i \in DOMAIN got THEN got[i] ELSE manifest.entries[i].residual]
           es == [i \in 1..n |-> e(i)]
<1>1. manifest.entries \in Seq(Chunk) /\ manifest.hash \in Seq(Chunk) /\ n \in Nat
  BY DEF CromFile
<1>2. \A i \in DOMAIN got : got[i] \in Residuals
  <2> SUFFICES ASSUME NEW i \in DOMAIN got PROVE got[i] \in Residuals
    OBVIOUS
  <2>1. served \in CromFile /\ i \in 1..Len(served.entries) /\ got[i] = served.entries[i].residual
    BY DEF Received, Residual, Indices
  <2>2. served.entries \in Seq(Chunk)
    BY <2>1 DEF CromFile
  <2>3. served.entries[i] \in Chunk
    BY <2>1, <2>2
  <2>. QED
    BY <2>1, <2>3 DEF Chunk
<1>3. \A i \in 1..n : e(i) \in Chunk
  <2> SUFFICES ASSUME NEW i \in 1..n PROVE e(i) \in Chunk
    OBVIOUS
  <2>1. manifest.entries[i] \in Chunk
    BY <1>1
  <2>2. manifest.entries[i].pattern \in Patterns /\ manifest.entries[i].residual \in Residuals
    BY <2>1 DEF Chunk
  <2>3. (IF i \in DOMAIN got THEN got[i] ELSE manifest.entries[i].residual) \in Residuals
    BY <1>2, <2>2
  <2>. QED
    BY <2>2, <2>3 DEF Chunk
<1>4. /\ Rebuilt.hash = manifest.hash /\ ~Rebuilt.lossy /\ Rebuilt.health = "ok"
      /\ Rebuilt.entries = es
      /\ Rebuilt = [hash |-> manifest.hash, entries |-> es, lossy |-> FALSE, health |-> "ok"]
  BY DEF Rebuilt, Indices
<1> HIDE DEF e
<1>5. es \in Seq(Chunk) /\ Len(es) = n
  BY <1>1, <1>3
<1>6. \A i \in Indices(manifest) : es[i] = e(i)
  BY DEF Indices
<1> HIDE DEF es
<1>7. Rebuilt \in CromFile
  BY <1>1, <1>4, <1>5 DEF CromFile
<1>. QED
  BY <1>4, <1>5, <1>6, <1>7 DEF e

\* RequestSync returns: nothing is promised of the temporary file any more.
LEMMA EndsStep ==
    ASSUME IInv, pc' = "done",
           result' \in {"upToDate", "nothing", "installed", "error", "diskError"},
           local' \in MaybeFile, temp' \in MaybeFile \cup {Partial},
           manifest' \in MaybeFile, basis' \in MaybeFile, toClient' \in Seq(Message),
           UNCHANGED <<remote, trusted, missing, got, nread, kept, toServer, handler, up,
                       served, pulls, changes>>
    PROVE  IInv'
<1>1. Shape'
  BY DEF IInv, Shape
<1>2. Received'
  BY DEF IInv, Received, Residual
<1>3. Asking' /\ Working' /\ Receiving' /\ Complete'
  BY DEF Asking, Working, Receiving, Complete
<1>. QED
  BY <1>1, <1>2, <1>3 DEF IInv

\* A manifest that arrives is the file it was made from.
LEMMA ManifestFacts ==
    ASSUME IInv, ManifestIn
    PROVE  /\ TheManifest \in CromFile /\ TheManifest \in MaybeFile /\ toServer = << >> /\ trusted
           /\ Tail(toClient) = << >> /\ DOMAIN got = {} /\ nread = 0
<1>1. pc = "await" /\ toClient # << >> /\ toClient[1].kind = "manifest"
  BY TailIsMessages DEF IInv, ManifestIn
<1>2. toClient # <<Error>>
  BY <1>1 DEF Error
<1>3. /\ toServer = << >> /\ trusted /\ toClient[1].file \in CromFile
      /\ toClient = <<Manifest(toClient[1].file)>> /\ DOMAIN got = {} /\ nread = 0
  BY <1>1, <1>2 DEF IInv, Asking
<1> DEFINE m == Manifest(toClient[1].file)
<1>4. Head(<<m>>) = m /\ Tail(<<m>>) = << >> /\ m.file = toClient[1].file
  BY DEF Manifest
<1>. QED
  BY <1>3, <1>4 DEF TheManifest, MaybeFile

\* Every early return, and the end of a pull.
LEMMA ReturnStep ==
    ASSUME IInv,
           \/ ManifestRefused \/ CompareNothingMissing \/ RejectRecord \/ ReadFails
           \/ ReadLocalFails \/ MissingChunk \/ WriteTempFails \/ RenameTemp \/ RenameTempFails
    PROVE  IInv'
<1>0. Shape /\ NoFile \in MaybeFile
  BY DEF IInv, MaybeFile
<1>1. /\ local \in MaybeFile /\ manifest \in MaybeFile /\ basis \in MaybeFile
      /\ temp \in MaybeFile \cup {Partial} /\ toClient \in Seq(Message)
  BY <1>0 DEF Shape
<1>2. CASE ManifestRefused
  <2>1. toClient' \in Seq(Message)
    BY <1>0, <1>2, TailIsMessages DEF ManifestRefused
  <2>. QED
    BY <1>1, <1>2, <2>1, EndsStep DEF ManifestRefused, Return, client
<1>3. CASE CompareNothingMissing
  <2>1. toClient' \in Seq(Message) /\ manifest' \in MaybeFile
    <3>1. ManifestIn /\ toClient # << >>
      BY <1>3 DEF CompareNothingMissing, ManifestIn
    <3>. QED
      BY <1>0, <1>3, <3>1, TailIsMessages, ManifestFacts DEF CompareNothingMissing
  <2>. QED
    BY <1>1, <1>3, <2>1, EndsStep DEF CompareNothingMissing, Return
<1>4. CASE RejectRecord \/ ReadFails \/ ReadLocalFails \/ MissingChunk \/ WriteTempFails \/ RenameTempFails
  BY <1>0, <1>1, <1>4, EndsStep DEF RejectRecord, ReadFails, ReadLocalFails, MissingChunk,
     WriteTempFails, RenameTempFails, Return, client, wire
<1>5. CASE RenameTemp
  <2>1. temp = Rebuilt /\ manifest \in CromFile
    BY <1>5 DEF RenameTemp, IInv, Complete, Working
  <2>2. temp \in MaybeFile
    BY <1>1, <2>1, RebuiltType DEF MaybeFile, IInv
  <2>. QED
    BY <1>0, <1>1, <1>5, <2>2, EndsStep DEF RenameTemp, Return, client, wire
<1>. QED
  BY <1>2, <1>3, <1>4, <1>5

\* A pull starts with empty hands.
LEMMA RequestSyncStep ==
    ASSUME IInv, RequestSync
    PROVE  IInv'
<1>0. /\ pc' = "await" /\ result' = "none" /\ manifest' = NoFile /\ basis' = NoFile
      /\ missing' = {} /\ got' = << >> /\ nread' = 0 /\ kept' = {} /\ toServer' = <<SyncReq>>
      /\ toClient' = << >> /\ handler' = "loop" /\ up' = TRUE /\ served' = NoFile
      /\ pulls' = pulls + 1 /\ UNCHANGED <<remote, local, temp, trusted, changes>>
  BY DEF RequestSync, SyncReq
<1>1. DOMAIN got' = {}
  BY <1>0
<1>2. Shape'
  BY <1>0, ErrorIsMessage DEF IInv, Shape, MaybeFile
<1>3. Asking'
  BY <1>0, <1>1 DEF Asking
<1>4. Received'
  BY <1>1 DEF Received
<1>5. Working' /\ Receiving' /\ Complete'
  BY <1>0 DEF Working, Receiving, Complete
<1>. QED
  BY <1>2, <1>3, <1>4, <1>5 DEF IInv

\* What is missing are positions of the manifest.
LEMMA MissingIndicesType ==
    ASSUME NEW loc, NEW rem \in CromFile, NEW opens
    PROVE  MissingIndices(loc, rem, opens) \subseteq Indices(rem) /\ Indices(rem) \subseteq Nat \ {0}
<1>1. Len(rem.entries) \in Nat
  BY DEF CromFile
<1>. QED
  BY <1>1 DEF MissingIndices, Diff, Indices

\* SendDiffReq (protocol.go): the request names the chunks the old copy lacks.
LEMMA SendDiffReqStep ==
    ASSUME IInv, SendDiffReq
    PROVE  IInv'
<1>0. Shape /\ ManifestIn
  BY DEF IInv, SendDiffReq
<1>1. /\ TheManifest \in CromFile /\ TheManifest \in MaybeFile /\ toServer = << >> /\ trusted
      /\ Tail(toClient) = << >> /\ DOMAIN got = {} /\ nread = 0
  BY <1>0, ManifestFacts
<1>2. /\ manifest' = TheManifest /\ basis' = local
      /\ \E opens \in BOOLEAN : missing' = MissingIndices(local, TheManifest, opens)
      /\ toServer' = Append(toServer, DiffReq(missing')) /\ toClient' = << >>
      /\ pc' \in {"receive", "done"} /\ result' \in {result, "error"} /\ temp' \in {temp, NoFile}
      /\ UNCHANGED <<remote, local, trusted, got, nread, kept,
                     handler, up, served, pulls, changes>>
  BY <1>1 DEF SendDiffReq, DiffReq, Return
<1>3. toServer' = <<DiffReq(missing')>>
  BY <1>1, <1>2
<1>4. missing' \subseteq Indices(manifest') /\ missing' \subseteq Nat \ {0}
  BY <1>1, <1>2, MissingIndicesType
<1>5. Shape'
  BY <1>0, <1>1, <1>2, <1>3, <1>4, ErrorIsMessage DEF Shape, MaybeFile
<1>6. Working'
  BY <1>1, <1>2, <1>4 DEF Working
<1>7. Receiving'
  <2>1. Len(toClient') = 0 /\ 1..Len(toClient') = {} /\ toServer' # << >>
    BY <1>2, <1>3
  <2>. QED
    BY <1>1, <1>2, <1>3, <2>1 DEF Receiving
<1>8. Received'
  BY <1>1, <1>2 DEF Received
<1>9. Asking' /\ Complete'
  BY <1>2 DEF Asking, Complete
<1>. QED
  BY <1>5, <1>6, <1>7, <1>8, <1>9 DEF IInv

\* receiveDiff takes one record of the stream.
LEMMA ReceiveRecordStep ==
    ASSUME IInv, ReceiveRecord
    PROVE  IInv'
<1> DEFINE r == Head(toClient)
<1>0. Shape /\ Working /\ Receiving /\ Received
  BY DEF IInv
<1>1. /\ pc = "receive" /\ toClient # << >> /\ nread' = nread + 1 /\ toClient' = Tail(toClient)
      /\ got' = [i \in DOMAIN got \cup {r.index} |-> IF i = r.index THEN r.residual ELSE got[i]]
      /\ UNCHANGED <<remote, local, temp, trusted, pc, result, manifest, basis, missing,
                     kept, toServer, handler, up, served, pulls, changes>>
  BY DEF ReceiveRecord, RecordIn
<1>2. /\ Tail(toClient) \in Seq(Message) /\ Len(Tail(toClient)) = Len(toClient) - 1
      /\ \A k \in 1..Len(toClient) - 1 : Tail(toClient)[k] = toClient[k + 1]
      /\ Len(toClient) >= 1 /\ r = toClient[1] /\ Len(toClient) \in Nat
  BY <1>0, <1>1, TailIsMessages DEF Shape
<1>3. toServer = << >> /\ trusted
  BY <1>0, <1>1 DEF Receiving
<1>4. Residual(served, r.index, r.residual) /\ r.index \in missing
  BY <1>0, <1>1, <1>2 DEF Receiving
<1>5. Received'
  <2>1. \A i \in DOMAIN got' : Residual(served, i, got'[i]) /\ i \in missing
    BY <1>0, <1>1, <1>4 DEF Received
  <2>. QED
    BY <1>1, <1>3, <2>1 DEF Received, Residual
<1>6. Shape'
  BY <1>0, <1>1, <1>2 DEF Shape
<1>7. Receiving'
  <2>1. \A k \in 1..Len(toClient') : k + 1 \in 1..Len(toClient) /\ toClient'[k] = toClient[k + 1]
    BY <1>1, <1>2
  <2>2. \A k \in 1..Len(toClient') :
          /\ toClient'[k] \in Record /\ toClient'[k].index \in missing
          /\ Residual(served, toClient'[k].index, toClient'[k].residual)
    BY <1>0, <1>1, <2>1 DEF Receiving
  <2>3. nread' + Len(toClient') = nread + Len(toClient)
    BY <1>0, <1>1, <1>2 DEF Shape
  <2>. QED
    BY <1>0, <1>1, <1>3, <2>2, <2>3 DEF Receiving, Readable, Residual
<1>8. Asking' /\ Working' /\ Complete'
  BY <1>0, <1>1 DEF Asking, Working, Complete, Indices
<1>. QED
  BY <1>5, <1>6, <1>7, <1>8 DEF IInv

\* Reading has ended; the copy is rebuilt beside the old one.
LEMMA RebuildStep ==
    ASSUME IInv, ReceiveEnds \/ ReadLocal \/ WriteTemp \/ RemoveDest
    PROVE  IInv'
<1>0. Shape /\ Working /\ Received /\ Complete
  BY DEF IInv
<1>1. /\ pc \in {"receive", "rebuild", "write", "remove"}
      /\ pc' \in {"rebuild", "write", "remove", "rename"}
      /\ UNCHANGED <<remote, trusted, result, manifest, basis, missing, got, nread,
                     wire, served, pulls, changes>>
  BY DEF ReceiveEnds, ReadLocal, WriteTemp, RemoveDest, client
<1>2. UNCHANGED <<toServer, toClient, handler, up>>
  BY <1>1 DEF wire
<1>3. kept' \subseteq Chunk
  <2>1. ASSUME local \in CromFile PROVE KeysOf(local) \subseteq Chunk
    <3>1. local.entries \in Seq(Chunk)
      BY <2>1 DEF CromFile
    <3>. QED
      BY <3>1 DEF KeysOf, Indices
  <2>. QED
    BY <1>0, <2>1 DEF ReceiveEnds, ReadLocal, WriteTemp, RemoveDest, client, Shape, MaybeFile, Readable
<1>4. local' \in MaybeFile
  BY <1>0 DEF ReceiveEnds, ReadLocal, WriteTemp, RemoveDest, Shape, MaybeFile
<1>5. temp' \in MaybeFile \cup {Partial}
  <2>1. Rebuilt \in MaybeFile
    BY <1>0, <1>1, RebuiltType DEF Working, MaybeFile
  <2>. QED
    BY <1>0, <2>1 DEF ReceiveEnds, ReadLocal, WriteTemp, RemoveDest, Shape
<1>6. Shape'
  BY <1>0, <1>1, <1>2, <1>3, <1>4, <1>5 DEF Shape
<1>7. Received'
  BY <1>0, <1>1, <1>2 DEF Received, Residual
<1>8. Working' /\ Asking' /\ Receiving'
  BY <1>0, <1>1 DEF Working, Asking, Receiving, Indices
<1>9. Complete'
  <2>1. CASE ReceiveEnds \/ ReadLocal
    BY <2>1 DEF ReceiveEnds, ReadLocal, Complete
  <2>2. CASE WriteTemp
    <3>1. temp' = Rebuilt /\ Lacking = {} /\ kept' = kept
      BY <2>2 DEF WriteTemp, client
    <3>2. Rebuilt' = Rebuilt /\ Lacking' = Lacking
      BY <1>1, <3>1 DEF Rebuilt, Lacking, Indices
    <3>. QED
      BY <3>1, <3>2 DEF Complete
  <2>3. CASE RemoveDest
    <3>1. temp = Rebuilt /\ Lacking = {} /\ temp' = temp /\ kept' = kept
      BY <1>0, <2>3 DEF RemoveDest, Complete, client
    <3>2. Rebuilt' = Rebuilt /\ Lacking' = Lacking
      BY <1>1, <3>1 DEF Rebuilt, Lacking, Indices
    <3>. QED
      BY <3>1, <3>2 DEF Complete
  <2>. QED
    BY <2>1, <2>2, <2>3
<1>. QED
  BY <1>6, <1>7, <1>8, <1>9 DEF IInv
-----------------------------------------------------------------------------
(* The sender and the environment keep the invariant. *)

\* What no step of the sender touches stays complete.
LEMMA StillComplete ==
    ASSUME IInv, UNCHANGED <<pc, temp, manifest, got, kept>>
    PROVE  Complete'
<1>1. Rebuilt' = Rebuilt /\ Lacking' = Lacking
  BY DEF Rebuilt, Lacking, Indices
<1>. QED
  BY <1>1 DEF IInv, Complete

\* The handler answers a peer it does not trust with an error.
LEMMA RefuseUntrustedStep ==
    ASSUME IInv, RefuseUntrusted
    PROVE  IInv'
<1>0. Shape /\ Asking /\ Working /\ Receiving /\ Received
  BY DEF IInv
<1>1. /\ handler = "loop" /\ ~trusted /\ toClient' = Append(toClient, Error) /\ handler' = "closed"
      /\ UNCHANGED <<remote, local, temp, trusted, pc, result, manifest, basis, missing, got,
                     nread, kept, toServer, up, served, pulls, changes>>
  BY DEF RefuseUntrusted, client
<1>2. toClient' \in Seq(Message)
  BY <1>0, <1>1, ErrorIsMessage DEF Shape
<1>3. Shape'
  BY <1>0, <1>1, <1>2 DEF Shape
<1>4. Asking'
  <2> SUFFICES ASSUME pc = "await" PROVE Asking'
    BY <1>1 DEF Asking
  <2>1. toServer = <<SyncReq>> /\ toClient = << >> /\ DOMAIN got = {} /\ nread = 0
    BY <1>0, <1>1 DEF Asking
  <2>2. toClient' = <<Error>>
    BY <1>1, <2>1
  <2>. QED
    BY <1>1, <2>1, <2>2 DEF Asking
<1>5. Receiving'
  BY <1>0, <1>1 DEF Receiving
<1>6. Working' /\ Received'
  BY <1>0, <1>1 DEF Working, Received, Indices, Residual
<1>. QED
  BY <1>1, <1>3, <1>4, <1>5, <1>6, StillComplete DEF IInv

\* The sender takes the one message on the stream.
LEMMA RequestFacts ==
    ASSUME IInv, NEW kind, Request(kind)
    PROVE  /\ toServer' = << >> /\ toServer # << >> /\ handler = "loop" /\ trusted
           /\ kind = "syncReq" => toServer = <<SyncReq>> /\ pc # "receive"
           /\ kind = "diffReq" => /\ toServer = <<DiffReq(missing)>> /\ pc # "await"
                                  /\ Head(toServer).indices = missing
<1>1. /\ handler = "loop" /\ trusted /\ toServer # << >> /\ Head(toServer).kind = kind
      /\ toServer' = Tail(toServer)
  BY DEF Request
<1>2. toServer \in {<<SyncReq>>, <<DiffReq(missing)>>}
  BY <1>1 DEF IInv, Shape
<1>3. /\ Head(<<SyncReq>>) = SyncReq /\ Tail(<<SyncReq>>) = << >>
      /\ Head(<<DiffReq(missing)>>) = DiffReq(missing) /\ Tail(<<DiffReq(missing)>>) = << >>
  OBVIOUS
<1>4. /\ SyncReq.kind = "syncReq" /\ DiffReq(missing).kind = "diffReq"
      /\ DiffReq(missing).indices = missing
  BY DEF SyncReq, DiffReq
<1>5. /\ kind = "syncReq" => toServer = <<SyncReq>>
      /\ kind = "diffReq" => toServer = <<DiffReq(missing)>>
  BY <1>1, <1>2, <1>3, <1>4
<1>6. <<SyncReq>> # <<DiffReq(missing)>>
  BY <1>3, <1>4
<1>7. pc = "await" => toServer = <<SyncReq>>
  BY <1>1 DEF IInv, Asking
<1>8. pc = "receive" => toServer = <<DiffReq(missing)>>
  BY <1>1 DEF IInv, Receiving
<1>. QED
  BY <1>1, <1>2, <1>3, <1>4, <1>5, <1>6, <1>7, <1>8

\* The handler answers a sync request with the manifest or an error.
LEMMA HandleSyncReqStep ==
    ASSUME IInv, HandleSyncReq
    PROVE  IInv'
<1>0. Shape /\ Asking /\ Working /\ Receiving /\ Received
  BY DEF IInv
<1>p. PICK opens \in BOOLEAN :
         toClient' = Append(toClient, IF HasManifest(remote, opens)
                                      THEN [kind |-> "manifest", file |-> remote] ELSE Error)
  BY DEF HandleSyncReq
<1> DEFINE answer == IF HasManifest(remote, opens)
                     THEN [kind |-> "manifest", file |-> remote] ELSE Error
<1>1. /\ toClient' = Append(toClient, answer)
      /\ UNCHANGED <<remote, local, temp, trusted, pc, result, manifest, basis, missing, got,
                     nread, kept, handler, up, served, pulls, changes>>
  BY <1>p DEF HandleSyncReq, client
<1>2. toServer' = << >> /\ handler = "loop" /\ trusted /\ toServer = <<SyncReq>> /\ pc # "receive"
  BY RequestFacts DEF HandleSyncReq
<1>3. answer = Error \/ (remote \in CromFile /\ answer = Manifest(remote))
  BY <1>0 DEF Shape, MaybeFile, Readable, HasManifest, Manifest
<1>4. answer \in Message
  BY <1>3 DEF Message, Manifest
<1> HIDE DEF answer
<1>5. toClient' \in Seq(Message)
  BY <1>0, <1>1, <1>4 DEF Shape
<1>6. Shape'
  BY <1>0, <1>1, <1>2, <1>5 DEF Shape
<1>7. Asking'
  <2> SUFFICES ASSUME pc = "await" PROVE Asking'
    BY <1>1 DEF Asking
  <2>1. toClient = << >> /\ DOMAIN got = {} /\ nread = 0
    BY <1>0, <1>2 DEF Asking
  <2>2. toClient' = <<answer>> /\ <<answer>>[1] = answer
    BY <1>1, <2>1
  <2>3. answer = Error \/ (answer.file \in CromFile /\ answer = Manifest(answer.file))
    BY <1>3 DEF Manifest
  <2>. QED
    BY <1>1, <1>2, <2>1, <2>2, <2>3 DEF Asking
<1>8. Working' /\ Receiving' /\ Received'
  BY <1>0, <1>1, <1>2 DEF Working, Receiving, Received, Indices, Residual
<1>. QED
  BY <1>1, <1>6, <1>7, <1>8, StillComplete DEF IInv

\* The handler refuses a request for more chunks than it allows.
LEMMA RefuseLargeRequestStep ==
    ASSUME IInv, RefuseLargeRequest
    PROVE  IInv'
<1>0. Shape /\ Asking /\ Working /\ Receiving /\ Received
  BY DEF IInv
<1>1. /\ handler' = "closed"
      /\ UNCHANGED <<remote, local, temp, trusted, pc, result, manifest, basis, missing, got,
                     nread, kept, toClient, up, served, pulls, changes>>
  BY DEF RefuseLargeRequest, client
<1>2. toServer' = << >> /\ pc # "await"
  BY RequestFacts DEF RefuseLargeRequest
<1>3. Shape'
  BY <1>0, <1>1, <1>2 DEF Shape
<1>4. Asking' /\ Working' /\ Receiving' /\ Received'
  BY <1>0, <1>1, <1>2 DEF Asking, Working, Receiving, Received, Indices, Residual
<1>. QED
  BY <1>1, <1>3, <1>4, StillComplete DEF IInv

\* What StreamChunks may send of a file: records of it that were asked for, and
\* all of those when it is readable.
LEMMA StreamedFacts ==
    ASSUME NEW f \in CromFile, NEW want, NEW recs \in StreamedRecords(f, want)
    PROVE  /\ recs \in Seq(Record)
           /\ \A k \in 1..Len(recs) :
                recs[k].index \in want /\ Residual(f, recs[k].index, recs[k].residual)
           /\ Readable(f) => Len(recs) = Cardinality(want \cap Indices(f))
<1> DEFINE all == SortedRecords(f, want)
<1>1. /\ all \in Seq(Record) /\ Len(all) = Cardinality(want \cap Indices(f))
      /\ \A k \in 1..Len(all) : all[k].index \in want /\ Residual(f, all[k].index, all[k].residual)
  BY SortedRecordsFacts DEF Residual
<1>2. recs = all \/ (f.health = "block" /\ recs \in Prefixes(all))
  BY DEF StreamedRecords
<1> HIDE DEF all
<1>3. CASE recs = all
  BY <1>1, <1>3
<1>4. CASE f.health = "block" /\ recs \in Prefixes(all)
  <2>1. PICK k \in 0..Len(all) : recs = SubSeq(all, 1, k)
    BY <1>4 DEF Prefixes
  <2>2. /\ recs \in Seq(Record) /\ Len(recs) = k /\ \A i \in 1..k : recs[i] = all[i]
    BY <1>1, <2>1
  <2>3. 1..k \subseteq 1..Len(all)
    BY <1>1, <2>1
  <2>4. ~Readable(f)
    BY <1>4 DEF Readable
  <2>. QED
    BY <1>1, <2>2, <2>3, <2>4
<1>. QED
  BY <1>2, <1>3, <1>4

\* The handler streams the chunks that were asked for.
LEMMA HandleDiffReqStep ==
    ASSUME IInv, HandleDiffReq
    PROVE  IInv'
<1>0. Shape /\ Asking /\ Working /\ Receiving /\ Received
  BY DEF IInv
<1>1. /\ served' = remote
      /\ UNCHANGED <<remote, local, temp, trusted, pc, result, manifest, basis, missing, got,
                     nread, kept, handler, up, pulls, changes>>
  BY DEF HandleDiffReq, DiffReqFits, client
<1>2. /\ toServer' = << >> /\ toServer # << >> /\ trusted /\ pc # "await"
      /\ Head(toServer).indices = missing
  BY RequestFacts DEF HandleDiffReq, DiffReqFits
<1>3. PICK recs \in StreamedRecords(remote, missing) : toClient' = toClient \o recs
  BY <1>2 DEF HandleDiffReq
<1>3a. remote \in CromFile
  BY <1>0 DEF HandleDiffReq, Shape, MaybeFile
<1>4. /\ recs \in Seq(Record)
      /\ \A k \in 1..Len(recs) :
            recs[k].index \in missing /\ Residual(remote, recs[k].index, recs[k].residual)
      /\ Readable(remote) => Len(recs) = Cardinality(missing \cap Indices(remote))
  BY <1>3a, StreamedFacts
<1>5. recs \in Seq(Message)
  BY <1>4 DEF Message
<1>6. toClient' \in Seq(Message)
  BY <1>0, <1>3, <1>5 DEF Shape
<1>7. Shape'
  BY <1>0, <1>1, <1>2, <1>6 DEF Shape
<1>8. DOMAIN got = {}
  BY <1>0, <1>2 DEF Received
<1>9. Received' /\ Asking' /\ Working'
  BY <1>0, <1>1, <1>2, <1>8 DEF Received, Asking, Working, Indices
<1>10. Receiving'
  <2> SUFFICES ASSUME pc = "receive" PROVE Receiving'
    BY <1>1 DEF Receiving
  <2>1. toClient = << >> /\ nread = 0
    BY <1>0, <1>2 DEF Receiving
  <2>2. toClient' = recs
    BY <1>3, <1>4, <2>1
  <2>3. \A k \in 1..Len(recs) : recs[k] \in Record
    BY <1>4
  <2>4. ASSUME Readable(remote), Len(remote.entries) >= Len(manifest.entries)
        PROVE  Len(recs) = Cardinality(missing)
    <3>1. manifest \in CromFile /\ missing \subseteq Indices(manifest)
      BY <1>0 DEF Working
    <3>2. Len(remote.entries) \in Nat /\ Len(manifest.entries) \in Nat
      BY <1>3a, <3>1 DEF CromFile
    <3>3. Indices(manifest) \subseteq Indices(remote)
      BY <2>4, <3>2 DEF Indices
    <3>4. missing \cap Indices(remote) = missing
      BY <3>1, <3>3
    <3>. QED
      BY <1>4, <2>4, <3>4
  <2>5. nread' + Len(toClient') = Len(recs)
    BY <1>1, <1>4, <2>1, <2>2
  <2>7. \A k \in 1..Len(recs) :
           recs[k].index \in missing' /\ Residual(served', recs[k].index, recs[k].residual)
    BY <1>1, <1>4
  <2>. QED
    BY <1>1, <1>2, <2>2, <2>3, <2>4, <2>5, <2>7 DEF Receiving, Readable, Residual, Indices
<1>. QED
  BY <1>1, <1>7, <1>9, <1>10, StillComplete DEF IInv

\* StreamChunks returns before it sends anything.
LEMMA StreamChunksFailsStep ==
    ASSUME IInv, StreamChunksFails
    PROVE  IInv'
<1>0. Shape /\ Asking /\ Working /\ Receiving /\ Received
  BY DEF IInv
<1>1. /\ served' = NoFile
      /\ UNCHANGED <<remote, local, temp, trusted, pc, result, manifest, basis, missing, got,
                     nread, kept, toClient, handler, up, pulls, changes>>
  BY DEF StreamChunksFails, DiffReqFits, client
<1>2. toServer' = << >> /\ toServer # << >> /\ trusted /\ pc # "await"
  BY RequestFacts DEF StreamChunksFails, DiffReqFits
<1>3. Shape'
  BY <1>0, <1>1, <1>2 DEF Shape, MaybeFile
<1>4. DOMAIN got = {}
  BY <1>0, <1>2 DEF Received
<1>5. Received' /\ Asking' /\ Working'
  BY <1>0, <1>1, <1>2, <1>4 DEF Received, Asking, Working, Indices
<1>6. Receiving'
  <2> SUFFICES ASSUME pc = "receive" PROVE Receiving'
    BY <1>1 DEF Receiving
  <2>1. toClient = << >> /\ nread = 0
    BY <1>0, <1>2 DEF Receiving
  <2>2. Len(toClient') = 0 /\ 1..Len(toClient') = {}
    BY <1>1, <2>1
  <2>. QED
    BY <1>1, <1>2, <2>2 DEF Receiving, Readable
<1>. QED
  BY <1>1, <1>3, <1>5, <1>6, StillComplete DEF IInv

\* A crash, a broken stream, or a new version of the file on either node.
LEMMA EnvironmentStep ==
    ASSUME IInv, \/ Disconnect \/ Crash
                 \/ \E f \in Files \cup {NoFile} : RemoteChanges(f)
                 \/ \E f \in Files : LocalChanges(f)
    PROVE  IInv'
<1>0. Shape /\ Asking /\ Working /\ Receiving /\ Received
  BY DEF IInv
<1>1. CASE Disconnect \/ Crash
  <2>1. /\ up' = FALSE /\ handler' = "closed" /\ toServer' = << >> /\ toClient' = << >>
        /\ UNCHANGED <<remote, local, temp, trusted, manifest, basis, missing, got, nread, kept,
                       served, pulls, changes>>
        /\ \/ pc' = pc /\ result' = result
           \/ pc' = "crashed" /\ result' = "none"
    BY <1>1 DEF Disconnect, Crash, client
  <2>2. Shape'
    BY <1>0, <2>1, ErrorIsMessage DEF Shape
  <2>3. Len(toClient') = 0 /\ 1..Len(toClient') = {}
    BY <2>1
  <2>4. Asking' /\ Working' /\ Received' /\ Receiving'
    BY <1>0, <2>1, <2>3 DEF Asking, Working, Received, Receiving, Indices, Residual
  <2>5. Complete'
    BY <2>1, StillComplete DEF Complete
  <2>. QED
    BY <2>2, <2>4, <2>5 DEF IInv
<1>2. CASE (\E f \in Files \cup {NoFile} : RemoteChanges(f)) \/ (\E f \in Files : LocalChanges(f))
  <2>1. /\ remote' \in MaybeFile /\ local' \in MaybeFile /\ changes' = changes + 1
        /\ UNCHANGED <<temp, trusted, pc, result, manifest, basis, missing, got, nread, kept,
                       toServer, toClient, handler, up, served, pulls>>
    BY <1>0, <1>2, FilesAssumption DEF RemoteChanges, LocalChanges, client, wire, MaybeFile, Shape
  <2>2. Shape'
    BY <1>0, <2>1 DEF Shape
  <2>3. Asking' /\ Working' /\ Received' /\ Receiving'
    BY <1>0, <2>1 DEF Asking, Working, Received, Receiving, Indices, Residual, Readable
  <2>. QED
    BY <2>1, <2>2, <2>3, StillComplete DEF IInv
<1>. QED
  BY <1>1, <1>2
-----------------------------------------------------------------------------
(* The theorems. *)

\* The invariant holds at the start and every step keeps it.
LEMMA Inductive == Spec => []IInv
<1>1. Init => IInv
  <2> SUFFICES ASSUME Init PROVE IInv
    OBVIOUS
  <2>1. DOMAIN got = {}
    BY DEF Init
  <2>2. Shape
    BY FilesAssumption, ErrorIsMessage DEF Init, Shape, MaybeFile
  <2>. QED
    BY <2>1, <2>2 DEF Init, IInv, Asking, Working, Receiving, Received, Complete
<1>2. IInv /\ [Next]_vars => IInv'
  <2> SUFFICES ASSUME IInv, [Next]_vars PROVE IInv'
    OBVIOUS
  <2>1. ASSUME UNCHANGED vars PROVE IInv'
    <3>1. UNCHANGED <<remote, local, temp, trusted, pc, result, manifest, basis, missing, got,
                      nread, kept, toServer, toClient, handler, up, served, pulls, changes>>
      BY <2>1 DEF vars, client, wire
    <3>2. Shape' /\ Asking' /\ Working'
      BY <3>1 DEF IInv, Shape, Asking, Working, Indices
    <3>3. Received' /\ Receiving'
      BY <3>1 DEF IInv, Received, Receiving, Indices, Residual, Readable
    <3>. QED
      BY <3>1, <3>2, <3>3, StillComplete DEF IInv
  <2>2. ASSUME ClientStep PROVE IInv'
    BY <2>2, ReturnStep, SendDiffReqStep, ReceiveRecordStep, RebuildStep DEF ClientStep
  <2>3. ASSUME ServerStep PROVE IInv'
    BY <2>3, RefuseUntrustedStep, HandleSyncReqStep, RefuseLargeRequestStep, HandleDiffReqStep,
       StreamChunksFailsStep
       DEF ServerStep
  <2>. QED
    BY <2>1, <2>2, <2>3, RequestSyncStep, EnvironmentStep DEF Next
<1>. QED
  BY <1>1, <1>2, PTL DEF Spec

\* Types of the state of RequestSync, handleStream and the stream between them.
THEOREM TypeCorrect == Spec => []TypeOK
<1>1. IInv => TypeOK
  <2> SUFFICES ASSUME IInv PROVE TypeOK
    OBVIOUS
  <2>0. Shape /\ Received
    BY DEF IInv
  <2>1. \A i \in DOMAIN got : i \in Nat \ {0} /\ got[i] \in Residuals
    <3> SUFFICES ASSUME NEW i \in DOMAIN got PROVE i \in Nat \ {0} /\ got[i] \in Residuals
      OBVIOUS
    <3>1. served \in CromFile /\ i \in 1..Len(served.entries) /\ got[i] = served.entries[i].residual
      BY <2>0 DEF Received, Residual, Indices
    <3>2. served.entries \in Seq(Chunk)
      BY <3>1 DEF CromFile
    <3>3. served.entries[i] \in Chunk /\ i \in Nat \ {0}
      BY <3>1, <3>2
    <3>. QED
      BY <3>1, <3>3 DEF Chunk
  <2>2. \A i \in 1..Len(toClient) :
          \/ toClient[i] = Error
          \/ toClient[i].kind = "manifest" /\ toClient[i].file \in CromFile
          \/ toClient[i] \in Record
    <3>1. \A i \in 1..Len(toClient) : toClient[i] \in Message
      BY <2>0 DEF Shape
    <3>. QED
      BY <3>1 DEF Message
  <2>3. \A i \in 1..Len(toServer) : toServer[i].kind \in {"syncReq", "diffReq"}
    BY <2>0 DEF Shape, SyncReq, DiffReq
  <2>. QED
    BY <2>0, <2>1, <2>2, <2>3 DEF TypeOK, Shape
<1>. QED
  BY <1>1, Inductive, PTL

\* When the sender's file did not change under the pull, the rebuilt file is
\* the sender's, chunk for chunk (bitswap.go:182-224, 274-297).
THEOREM RebuiltSound == Spec => []RebuiltIsSendersVersion
<1>1. IInv => RebuiltIsSendersVersion
  <2> SUFFICES ASSUME IInv, pc \in {"remove", "rename"}, served = manifest
               PROVE  temp.entries = manifest.entries /\ temp.hash = manifest.hash
    BY DEF RebuiltIsSendersVersion
  <2>0. Received /\ temp = Rebuilt /\ manifest \in CromFile
    BY DEF IInv, Complete, Working
  <2>1. /\ temp.hash = manifest.hash /\ temp.entries \in Seq(Chunk)
        /\ Len(temp.entries) = Len(manifest.entries)
        /\ \A i \in Indices(manifest) :
              temp.entries[i] = [pattern |-> manifest.entries[i].pattern,
                                 residual |-> IF i \in DOMAIN got THEN got[i]
                                              ELSE manifest.entries[i].residual]
    BY <2>0, RebuiltType
  <2>2. manifest.entries \in Seq(Chunk)
    BY <2>0 DEF CromFile
  <2>3. \A i \in 1..Len(temp.entries) : temp.entries[i] = manifest.entries[i]
    <3> SUFFICES ASSUME NEW i \in 1..Len(temp.entries) PROVE temp.entries[i] = manifest.entries[i]
      OBVIOUS
    <3>1. i \in Indices(manifest) /\ manifest.entries[i] \in Chunk
      BY <2>1, <2>2 DEF Indices
    <3>2. i \in DOMAIN got => got[i] = manifest.entries[i].residual
      BY <2>0 DEF Received, Residual
    <3>3. temp.entries[i] = [pattern |-> manifest.entries[i].pattern,
                             residual |-> manifest.entries[i].residual]
      BY <2>1, <3>1, <3>2
    <3>. QED
      BY <3>1, <3>3 DEF Chunk
  <2>. QED
    BY <2>1, <2>2, <2>3, SeqEqual
<1>. QED
  BY <1>1, Inductive, PTL

\* A rebuilt file differs from the version of the manifest only at chunks that
\* the pull asked for and the sender read from another version
\* (protocol.go:175, bitswap.go:63-76, 274-297).
THEOREM MixtureBounded == Spec => []OnlyChangedChunksDiffer
<1>1. IInv => OnlyChangedChunksDiffer
  <2> SUFFICES ASSUME IInv, pc \in {"remove", "rename"}, NEW i \in Indices(manifest),
                      temp.entries[i] # manifest.entries[i]
               PROVE  /\ i \in missing /\ served \in CromFile /\ i \in Indices(served)
                      /\ served.entries[i].residual # manifest.entries[i].residual
    BY DEF OnlyChangedChunksDiffer
  <2>0. Received /\ temp = Rebuilt /\ manifest \in CromFile
    BY DEF IInv, Complete, Working
  <2>1. temp.entries[i] = [pattern |-> manifest.entries[i].pattern,
                           residual |-> IF i \in DOMAIN got THEN got[i]
                                        ELSE manifest.entries[i].residual]
    BY <2>0, RebuiltType
  <2>2. manifest.entries[i] \in Chunk
    BY <2>0 DEF CromFile, Indices
  <2>3. i \in DOMAIN got /\ got[i] # manifest.entries[i].residual
    BY <2>1, <2>2 DEF Chunk
  <2>. QED
    BY <2>0, <2>3 DEF Received, Residual
<1>. QED
  BY <1>1, Inductive, PTL

\* A client that waits for ever has a sender whose StreamChunks returned before
\* the first chunk, or read a file that is damaged or shorter than the manifest
\* (bitswap.go:25-93).
THEOREM StarvedBySender == Spec => []StarvedOnlyBySender
<1>1. IInv => StarvedOnlyBySender
  <2> SUFFICES ASSUME IInv, Starved, Readable(served), ~(Len(served.entries) < Len(manifest.entries))
               PROVE  FALSE
    BY DEF StarvedOnlyBySender
  <2>1. /\ pc = "receive" /\ nread < Cardinality(missing) /\ handler = "loop"
        /\ toServer = << >> /\ toClient = << >>
    BY DEF Starved
  <2>2. served \in CromFile /\ manifest \in CromFile /\ nread \in Nat
    BY <2>1 DEF IInv, Shape, MaybeFile, Readable, Working
  <2>3. Len(served.entries) \in Nat /\ Len(manifest.entries) \in Nat
    BY <2>2 DEF CromFile
  <2>4. Len(served.entries) >= Len(manifest.entries)
    BY <2>3
  <2>5. nread + Len(toClient) = Cardinality(missing)
    BY <2>1, <2>4 DEF IInv, Receiving
  <2>6. nread = Cardinality(missing)
    BY <2>1, <2>2, <2>5
  <2>. QED
    BY <2>1, <2>2, <2>6
<1>. QED
  BY <1>1, Inductive, PTL

\* The old copy is removed only with the complete new one beside it
\* (protocol.go:298-307).
THEOREM OldCopyKept == Spec => OldCopyOutlivesFailures
<1>1. ASSUME IInv, [Next]_vars, local # NoFile, local' = NoFile
      PROVE  temp \in CromFile /\ Lacking = {} /\ temp' = temp
  <2>1. local' # local
    BY <1>1
  <2>2. ASSUME RenameTemp PROVE FALSE
    <3>1. temp = Rebuilt /\ manifest \in CromFile
      BY <1>1, <2>2 DEF RenameTemp, IInv, Complete, Working
    <3>2. temp \in CromFile
      BY <1>1, <3>1, RebuiltType DEF IInv
    <3>. QED
      BY <1>1, <2>2, <3>2, FilesAssumption DEF RenameTemp
  <2>3. ASSUME NEW f \in Files, LocalChanges(f) PROVE FALSE
    BY <1>1, <2>3, FilesAssumption DEF LocalChanges
  <2>4. ~UNCHANGED vars
    BY <2>1 DEF vars
  <2>5. ~ServerStep
    BY <2>1 DEF ServerStep, RefuseUntrusted, HandleSyncReq, RefuseLargeRequest, HandleDiffReq,
       StreamChunksFails, DiffReqFits
  <2>6. ~(RequestSync \/ Disconnect \/ Crash \/ \E f \in Files \cup {NoFile} : RemoteChanges(f))
    BY <2>1 DEF RequestSync, Disconnect, Crash, RemoteChanges
  <2>7. RemoveDest
    BY <1>1, <2>1, <2>2, <2>3, <2>4, <2>5, <2>6 DEF Next, ClientStep, ManifestRefused,
       CompareNothingMissing, SendDiffReq, ReceiveRecord, RejectRecord, ReceiveEnds, ReadFails,
       ReadLocalFails, ReadLocal, MissingChunk, WriteTempFails, WriteTemp, RenameTempFails
  <2>8. temp = Rebuilt /\ Lacking = {} /\ manifest \in CromFile /\ temp' = temp
    BY <1>1, <2>7 DEF RemoveDest, IInv, Complete, Working
  <2>. QED
    BY <1>1, <2>8, RebuiltType DEF IInv
<1>. QED
  BY <1>1, Inductive, PTL DEF Spec, OldCopyOutlivesFailures
=============================================================================
