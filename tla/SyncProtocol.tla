---------------------------- MODULE SyncProtocol -----------------------------
(***************************************************************************)
(* `crompressor pull`: a client brings its copy of one .crom file to the   *)
(* version a peer holds (internal/network/protocol.go and bitswap.go, with *)
(* the manifests of pkg/sync/manifest.go).  The client asks for the peer's *)
(* manifest, compares it with its own copy, asks for the chunks it lacks,  *)
(* rebuilds the file beside the old one and puts it in its place.          *)
(*                                                                         *)
(* A chunk is a pair of the codebook pattern it refers to and the residual *)
(* that turns the pattern into the chunk.  Its key in a manifest is the    *)
(* pattern and the hash of the residual; hashes are taken to be injective, *)
(* so the key is the pair itself, and the SHA-256 of an original file is   *)
(* the sequence of its chunks.  Positions count from 1.                    *)
(***************************************************************************)
EXTENDS Naturals, Sequences, FiniteSets

CONSTANTS
    Patterns,     \* codebook IDs
    Residuals,    \* residuals, NoResidual among them
    NoResidual,   \* the empty residual: the chunk is the pattern itself
    Files,        \* .crom files either side may hold, made with the operators below
    NoFile,       \* there is no file at the path
    Partial,      \* an incomplete temporary file
    MaxIndices,   \* indices that fit a request of maxRequestSize bytes
    MaxPulls,     \* bound: pulls started
    MaxChanges    \* bound: changes to the two files from outside

Chunk == [pattern : Patterns, residual : Residuals]

(***************************************************************************)
(* A .crom file: the hash and the chunk table of its header, IsLossy, and  *)
(* whether it can be read: "table" when ReadStream fails on it, "block"    *)
(* when a block of its pool does not decompress (another brain, damage).   *)
(***************************************************************************)
CromFile == [hash : Seq(Chunk), entries : Seq(Chunk), lossy : BOOLEAN,
             health : {"ok", "table", "block"}]

Packed(c) == [hash |-> c, entries |-> c, lossy |-> FALSE, health |-> "ok"]
PackedPassthrough(c) == [Packed(c) EXCEPT !.entries = << >>]
PackedEdge(c) ==
    [Packed(c) EXCEPT !.lossy = TRUE,
                      !.entries = [i \in DOMAIN c |-> [c[i] EXCEPT !.residual = NoResidual]]]
Damaged(c, how) == [Packed(c) EXCEPT !.health = how]

ASSUME FilesAssumption ==
    /\ Files \subseteq CromFile
    /\ NoResidual \in Residuals
    /\ NoFile \notin CromFile /\ Partial \notin CromFile /\ NoFile # Partial
ASSUME BoundsAssumption == {MaxIndices, MaxPulls, MaxChanges} \subseteq Nat

VARIABLES
    remote,    \* the sender's copy
    local,     \* the client's copy, at destPath
    temp,      \* destPath + ".tmp"
    trusted,   \* the sender has the client in its authenticated map
    pc,        \* where RequestSync is
    result,    \* how it returned
    manifest,  \* remoteManifest, as the file it was made from
    basis,     \* the local copy it was compared with
    missing,   \* missingIndices
    got,       \* residuals received, by index
    nread,     \* records read by ReceiveChunks
    kept,      \* chunks taken over from the local copy
    toServer, toClient,  \* bytes in flight on the stream
    handler,   \* "loop" while handleStream runs, else "closed"
    up,        \* the connection exists
    served,    \* history: the file whose chunks StreamChunks sent, NoFile if it never got to them
    pulls, changes

client == <<manifest, basis, missing, got, nread, kept>>
wire == <<toServer, toClient, handler, up>>
vars == <<remote, local, temp, trusted, pc, result, client, wire, served, pulls, changes>>
-----------------------------------------------------------------------------
Indices(f) == 1..Len(f.entries)
KeysOf(f) == {f.entries[i] : i \in Indices(f)}
Readable(f) == f # NoFile /\ f.health = "ok"

\* Diff: the positions of remote entries whose key no local entry has.
DiffFromZero(loc, rem) == {i - 1 : i \in {j \in Indices(rem) : rem.entries[j] \notin KeysOf(loc)}}
Diff(loc, rem) == {i \in Indices(rem) : rem.entries[i] \notin KeysOf(loc)}

\* GenerateManifest reads the whole file, and fails as well when the codebook
\* of the node does not open (opens).
HasManifest(f, opens) == Readable(f) /\ opens

\* missingIndices: all of them when there is no local copy or its manifest
\* cannot be made.
MissingIndices(loc, rem, opens) ==
    IF HasManifest(loc, opens) THEN Diff(loc, rem) ELSE Indices(rem)

\* The records of StreamChunks, in index order.
RecordsButLast(f, want) ==
    LET have == {i \in want : i \in Indices(f)}
        nth(k) == CHOOSE i \in have : Cardinality({j \in have : j <= i}) = k
    IN  [k \in 1..(Cardinality(have) - 1) |->
            [kind |-> "record", index |-> nth(k), residual |-> f.entries[nth(k)].residual]]
RecordsFromStart(f, want) ==
    LET have == {i \in want : i \in Indices(f)}
        nth(k) == CHOOSE i \in have : Cardinality({j \in have : j <= i}) = k
    IN  [k \in 1..Cardinality(have) |->
            [kind |-> "record", index |-> nth(k), residual |-> f.entries[k].residual]]
SortedRecords(f, want) ==
    LET have == {i \in want : i \in Indices(f)}
        nth(k) == CHOOSE i \in have : Cardinality({j \in have : j <= i}) = k
    IN  [k \in 1..Cardinality(have) |->
            [kind |-> "record", index |-> nth(k), residual |-> f.entries[nth(k)].residual]]
Prefixes(s) == {SubSeq(s, 1, k) : k \in 0..Len(s)}

Error == [kind |-> "error"]
-----------------------------------------------------------------------------
Init ==
    /\ remote \in Files \cup {NoFile}
    /\ local \in Files \cup {NoFile}
    /\ temp = NoFile
    /\ trusted \in BOOLEAN
    /\ pc = "idle" /\ result = "none"
    /\ manifest = NoFile /\ basis = NoFile /\ missing = {} /\ got = << >>
    /\ nread = 0 /\ kept = {}
    /\ toServer = << >> /\ toClient = << >> /\ handler = "closed" /\ up = FALSE
    /\ served = NoFile
    /\ pulls = 0 /\ changes = 0

Return(r) == pc' = "done" /\ result' = r
-----------------------------------------------------------------------------
(* The client: RequestSync and ReceiveChunks. *)

\* Open the stream and send the file name.  pull and pullFromAnyPeer call
\* RequestSync again after an error; a restarted process calls it too.
RequestSync ==
    /\ pc \in {"idle", "crashed"} \/ (pc = "done" /\ result \in {"error", "diskError"})
    /\ pulls < MaxPulls
    /\ pulls' = pulls + 1
    /\ pc' = "await" /\ result' = "none"
    /\ manifest' = NoFile /\ basis' = NoFile /\ missing' = {} /\ got' = << >>
    /\ nread' = 0 /\ kept' = {}
    /\ toServer' = <<[kind |-> "syncReq"]>> /\ toClient' = << >>
    /\ handler' = "loop" /\ up' = TRUE
    /\ served' = NoFile
    /\ UNCHANGED <<remote, local, temp, trusted, changes>>

ManifestIn == pc = "await" /\ toClient # << >> /\ Head(toClient).kind = "manifest"
TheManifest == Head(toClient).file

\* A remote error, or a passthrough file, which has no chunks to compare.
ManifestRefused ==
    /\ pc = "await" /\ toClient # << >>
    /\ \/ Head(toClient) = Error
       \/ ManifestIn /\ TheManifest.entries = << >> /\ TheManifest.hash # << >>
    /\ Return("error")
    /\ toClient' = Tail(toClient)
    /\ UNCHANGED <<remote, local, temp, trusted, client, toServer, handler, up,
                   served, pulls, changes>>

\* Compare with the local copy; with nothing missing RequestSync returns nil.
CompareNothingMissing ==
    /\ ManifestIn
    /\ ~(TheManifest.entries = << >> /\ TheManifest.hash # << >>)
    /\ manifest' = TheManifest /\ basis' = local
    /\ \E opens \in BOOLEAN :
          /\ MissingIndices(local, TheManifest, opens) = {}
          /\ Return(IF HasManifest(local, opens) THEN "upToDate" ELSE "nothing")
    /\ toClient' = Tail(toClient)
    /\ UNCHANGED <<remote, local, temp, trusted, missing, got, nread, kept,
                   toServer, handler, up, served, pulls, changes>>

\* Ask for what is missing; ReceiveChunks then opens the codebook, without
\* which it reads nothing.
SendDiffReq ==
    /\ ManifestIn
    /\ manifest' = TheManifest /\ basis' = local
    /\ \E opens \in BOOLEAN : missing' = MissingIndices(local, TheManifest, opens)
    /\ missing' # {}
    /\ toServer' = Append(toServer, [kind |-> "diffReq", indices |-> missing'])
    /\ toClient' = Tail(toClient)
    /\ \/ pc' = "receive" /\ UNCHANGED <<result, temp>>
       \/ Return("error") /\ temp' = NoFile
    /\ UNCHANGED <<remote, local, trusted, got, nread, kept,
                   handler, up, served, pulls, changes>>

RecordIn == pc = "receive" /\ nread < Cardinality(missing) /\ toClient # << >>

\* Read one record; a later record for the same index replaces the earlier.
ReceiveRecord ==
    /\ RecordIn
    /\ LET r == Head(toClient)
       IN  /\ r.index \in Indices(manifest)
           /\ got' = [i \in DOMAIN got \cup {r.index} |->
                         IF i = r.index THEN r.residual ELSE got[i]]
    /\ nread' = nread + 1
    /\ toClient' = Tail(toClient)
    /\ UNCHANGED <<remote, local, temp, trusted, pc, result, manifest, basis, missing,
                   kept, toServer, handler, up, served, pulls, changes>>

\* "invalid chunk": a residual that is not the one of the manifest may be
\* longer than the chunk and maxPatchOverhead allow.
RejectRecord ==
    /\ RecordIn
    /\ LET r == Head(toClient)
       IN  r.index \in Indices(manifest) => manifest.entries[r.index].residual # r.residual
    /\ Return("error")
    /\ temp' = NoFile
    /\ UNCHANGED <<remote, local, trusted, client, wire, served, pulls, changes>>

\* The loop of ReceiveChunks ends: all records read, or a clean end of stream.
ReceiveEnds ==
    /\ pc = "receive"
    /\ \/ nread = Cardinality(missing)
       \/ up /\ handler = "closed" /\ toClient = << >>
    /\ pc' = "rebuild"
    /\ UNCHANGED <<remote, local, temp, trusted, result, client, wire, served, pulls, changes>>

\* A read fails because the connection is gone.
ReadFailsReceiving ==
    /\ pc = "receive" /\ ~up
    /\ nread < Cardinality(missing)
    /\ Return("error")
    /\ temp' = NoFile
    /\ UNCHANGED <<remote, local, trusted, client, wire, served, pulls, changes>>
ReadFails ==
    /\ pc \in {"await", "receive"} /\ ~up
    /\ pc = "receive" => nread < Cardinality(missing)
    /\ Return("error")
    /\ temp' = IF pc = "receive" THEN NoFile ELSE temp
    /\ UNCHANGED <<remote, local, trusted, client, wire, served, pulls, changes>>

\* The whole local copy is read, even when nothing of it is needed: a block
\* that does not decompress ends the pull.
LocalUnreadable == local # NoFile /\ local.health = "block" /\ local.entries # << >>
ReadLocalFails ==
    /\ pc = "rebuild" /\ LocalUnreadable
    /\ Return("error")
    /\ temp' = NoFile
    /\ UNCHANGED <<remote, local, trusted, client, wire, served, pulls, changes>>

\* Keep the local residuals the new version uses and create the temp file.
ReadLocalRemovesOld ==
    /\ pc = "rebuild" /\ ~LocalUnreadable
    /\ kept' = IF Readable(local) THEN KeysOf(local) ELSE {}
    /\ temp' = Partial /\ local' = NoFile
    /\ pc' = "write"
    /\ UNCHANGED <<remote, trusted, result, manifest, basis, missing, got, nread,
                   wire, served, pulls, changes>>
ReadLocal ==
    /\ pc = "rebuild" /\ ~LocalUnreadable
    /\ kept' = IF Readable(local) THEN KeysOf(local) ELSE {}
    /\ temp' = Partial
    /\ pc' = "write"
    /\ UNCHANGED <<remote, local, trusted, result, manifest, basis, missing, got, nread,
                   wire, served, pulls, changes>>

\* A chunk whose residual was neither received nor kept.
Lacking == {i \in Indices(manifest) : i \notin DOMAIN got /\ manifest.entries[i] \notin kept}

\* The file ReceiveChunks writes: patterns and hash from the manifest,
\* residuals received or kept; never lossy.
RebuiltByPosition ==
    [hash |-> manifest.hash,
     entries |-> [i \in Indices(manifest) |->
                     [pattern |-> manifest.entries[i].pattern,
                      residual |-> IF i \in DOMAIN got THEN got[i]
                                   ELSE IF basis # NoFile /\ i \in Indices(basis)
                                   THEN basis.entries[i].residual
                                   ELSE manifest.entries[i].residual]],
     lossy |-> FALSE, health |-> "ok"]
Rebuilt ==
    [hash |-> manifest.hash,
     entries |-> [i \in Indices(manifest) |->
                     [pattern |-> manifest.entries[i].pattern,
                      residual |-> IF i \in DOMAIN got THEN got[i]
                                   ELSE manifest.entries[i].residual]],
     lossy |-> FALSE, health |-> "ok"]

MissingChunk ==
    /\ pc = "write" /\ Lacking # {}
    /\ Return("error")
    /\ temp' = NoFile
    /\ UNCHANGED <<remote, local, trusted, client, wire, served, pulls, changes>>

\* The disk is full: the error of a write ends the pull as well (told
\* apart from the other errors for the properties).
WriteTempFails ==
    /\ pc = "write" /\ Lacking = {}
    /\ Return("diskError")
    /\ temp' = NoFile
    /\ UNCHANGED <<remote, local, trusted, client, wire, served, pulls, changes>>

WriteTemp ==
    /\ pc = "write" /\ Lacking = {}
    /\ temp' = Rebuilt
    /\ pc' = "remove"
    /\ UNCHANGED <<remote, local, trusted, result, client, wire, served, pulls, changes>>

\* os.Remove(destPath), then os.Rename(tempPath, destPath).
RemoveDest ==
    /\ pc = "remove"
    /\ local' = NoFile
    /\ pc' = "rename"
    /\ UNCHANGED <<remote, temp, trusted, result, client, wire, served, pulls, changes>>

RenameTemp ==
    /\ pc = "rename"
    /\ local' = temp /\ temp' = NoFile
    /\ Return("installed")
    /\ UNCHANGED <<remote, trusted, client, wire, served, pulls, changes>>

\* The error of os.Rename is not looked at: RequestSync returns nil.
RenameTempFails ==
    /\ pc = "rename"
    /\ Return("installed")
    /\ UNCHANGED <<remote, local, temp, trusted, client, wire, served, pulls, changes>>
-----------------------------------------------------------------------------
(* The sender: handleStream and what it calls. *)

RefuseUntrusted ==
    /\ handler = "loop" /\ up /\ ~trusted
    /\ toClient' = Append(toClient, Error)
    /\ handler' = "closed"
    /\ UNCHANGED <<remote, local, temp, trusted, pc, result, client, toServer, up,
                   served, pulls, changes>>

Request(kind) ==
    /\ handler = "loop" /\ up /\ trusted
    /\ toServer # << >> /\ Head(toServer).kind = kind
    /\ toServer' = Tail(toServer)

HandleSyncReq ==
    /\ Request("syncReq")
    /\ \E opens \in BOOLEAN :
          toClient' = Append(toClient, IF HasManifest(remote, opens)
                                       THEN [kind |-> "manifest", file |-> remote] ELSE Error)
    /\ UNCHANGED <<remote, local, temp, trusted, pc, result, client, handler, up,
                   served, pulls, changes>>

\* A request over maxRequestSize ends the handler, which closes the stream.
RefuseLargeRequest ==
    /\ Request("diffReq") /\ Cardinality(Head(toServer).indices) > MaxIndices
    /\ handler' = "closed"
    /\ UNCHANGED <<remote, local, temp, trusted, pc, result, client, toClient, up,
                   served, pulls, changes>>

(***************************************************************************)
(* StreamChunks reads the file again.  It returns before the first chunk   *)
(* when the file, its table, the codebook or the encoder fails; a bad      *)
(* block ends the frame early.  In both cases the error is only logged and *)
(* handleStream waits for the next message.                                *)
(***************************************************************************)
StreamedRecords(f, want) ==
    IF f.health = "block" THEN Prefixes(SortedRecords(f, want))
    ELSE {SortedRecords(f, want)}

DiffReqFits ==
    /\ Request("diffReq") /\ Cardinality(Head(toServer).indices) <= MaxIndices
    /\ UNCHANGED <<remote, local, temp, trusted, pc, result, client, handler, up,
                   pulls, changes>>

HandleDiffReq ==
    /\ DiffReqFits
    /\ remote # NoFile /\ remote.health # "table"
    /\ \E recs \in StreamedRecords(remote, Head(toServer).indices) :
           toClient' = toClient \o recs
    /\ served' = remote

StreamChunksFails ==
    /\ DiffReqFits
    /\ served' = NoFile
    /\ UNCHANGED toClient
-----------------------------------------------------------------------------
(* The environment. *)

\* The connection is lost with what was in flight; after ReceiveChunks has
\* read its records the stream is not used any more.
Disconnect ==
    /\ up /\ pc \in {"await", "receive"}
    /\ up' = FALSE /\ handler' = "closed"
    /\ toServer' = << >> /\ toClient' = << >>
    /\ UNCHANGED <<remote, local, temp, trusted, pc, result, client, served, pulls, changes>>

\* A pack puts another version at the sender's path, with a rename.
RemoteChanges(f) ==
    /\ changes < MaxChanges /\ f # remote
    /\ changes' = changes + 1
    /\ remote' = f
    /\ UNCHANGED <<local, temp, trusted, pc, result, client, wire, served, pulls>>

\* A pack into the client's directory, while no pull is using the temp path.
LocalChanges(f) ==
    /\ changes < MaxChanges /\ f # local /\ temp = NoFile
    /\ changes' = changes + 1
    /\ local' = f
    /\ UNCHANGED <<remote, temp, trusted, pc, result, client, wire, served, pulls>>

\* The client's process dies: the files stay as they are.
Crash ==
    /\ pc \notin {"idle", "done", "crashed"}
    /\ pc' = "crashed" /\ result' = "none"
    /\ up' = FALSE /\ handler' = "closed" /\ toServer' = << >> /\ toClient' = << >>
    /\ UNCHANGED <<remote, local, temp, trusted, client, served, pulls, changes>>
-----------------------------------------------------------------------------
ClientStep ==
    \/ ManifestRefused \/ CompareNothingMissing \/ SendDiffReq
    \/ ReceiveRecord \/ RejectRecord \/ ReceiveEnds \/ ReadFails
    \/ ReadLocalFails \/ ReadLocal \/ MissingChunk \/ WriteTempFails \/ WriteTemp
    \/ RemoveDest \/ RenameTemp \/ RenameTempFails
ServerStep ==
    \/ RefuseUntrusted \/ HandleSyncReq \/ RefuseLargeRequest \/ HandleDiffReq
    \/ StreamChunksFails

Next ==
    \/ RequestSync
    \/ ClientStep
    \/ ServerStep
    \/ Disconnect
    \/ \E f \in Files \cup {NoFile} : RemoteChanges(f)
    \/ \E f \in Files : LocalChanges(f)
    \/ Crash

Spec == Init /\ [][Next]_vars

\* Both processes run: whoever can take its next step takes it.
FairSpec == Spec /\ WF_vars(ClientStep) /\ WF_vars(ServerStep)
-----------------------------------------------------------------------------
Record == [kind : {"record"}, index : Nat \ {0}, residual : Residuals]
MaybeFile == CromFile \cup {NoFile}

\* Type invariant.
TypeOK ==
    /\ {remote, local, manifest, basis, served} \subseteq MaybeFile
    /\ temp \in MaybeFile \cup {Partial}
    /\ {trusted, up} \subseteq BOOLEAN
    /\ pc \in {"idle", "await", "receive", "rebuild", "write", "remove", "rename",
               "done", "crashed"}
    /\ result \in {"none", "upToDate", "nothing", "installed", "error", "diskError"}
    /\ missing \subseteq Nat \ {0} /\ DOMAIN got \subseteq Nat \ {0}
    /\ \A i \in DOMAIN got : got[i] \in Residuals
    /\ nread \in Nat /\ kept \subseteq Chunk
    /\ \A i \in 1..Len(toClient) :
          \/ toClient[i] = Error
          \/ toClient[i].kind = "manifest" /\ toClient[i].file \in CromFile
          \/ toClient[i] \in Record
    /\ \A i \in 1..Len(toServer) : toServer[i].kind \in {"syncReq", "diffReq"}
    /\ handler \in {"loop", "closed"}
    /\ {pulls, changes} \subseteq Nat

(***************************************************************************)
(* If the sender's file did not change between its manifest and its        *)
(* chunks, the rebuilt file is chunk for chunk the sender's, whichever     *)
(* chunks came from the network and whichever from an old copy that may    *)
(* itself have been replaced meanwhile (bitswap.go:182-224, 274-297).      *)
(***************************************************************************)
RebuiltIsSendersVersion ==
    (pc \in {"remove", "rename"} /\ served = manifest) =>
        temp.entries = manifest.entries /\ temp.hash = manifest.hash

(***************************************************************************)
(* Whatever the sender put in place of its file in between, whatever       *)
(* earlier pulls received, and whether or not the old copy was replaced,   *)
(* the rebuilt file is the version of the manifest at every chunk but      *)
(* those that this pull asked for and that the sender then read, at the    *)
(* same position, from another version (residuals are not checked against  *)
(* the manifest, protocol.go:175, bitswap.go:63-76, 274-297).              *)
(***************************************************************************)
OnlyChangedChunksDiffer ==
    pc \in {"remove", "rename"} =>
        \A i \in Indices(manifest) :
            temp.entries[i] = manifest.entries[i]
            \/ /\ i \in missing /\ served \in CromFile /\ i \in Indices(served)
               /\ served.entries[i].residual # manifest.entries[i].residual

(***************************************************************************)
(* The client waits for chunks that never come only when StreamChunks      *)
(* never got to its first chunk (an error of the file, its table, the      *)
(* codebook or the encoder, bitswap.go:25-46), or when the file it sent is *)
(* damaged or shorter than the manifest: else it sends one record per      *)
(* index that was asked for, whatever else happened to both files.         *)
(***************************************************************************)
Starved ==
    /\ pc = "receive" /\ nread < Cardinality(missing)
    /\ up /\ handler = "loop" /\ toServer = << >> /\ toClient = << >>
StarvedOnlyBySender ==
    Starved => \/ ~Readable(served)
               \/ Len(served.entries) < Len(manifest.entries)

(***************************************************************************)
(* The old copy is given up only when a complete new one is on disk:       *)
(* whatever fails before (the connection, the peer, the local copy, the    *)
(* process), the client still has the copy it had (protocol.go:298-307).   *)
(***************************************************************************)
OldCopyOutlivesFailures ==
    [][local # NoFile /\ local' = NoFile =>
          temp \in CromFile /\ Lacking = {} /\ temp' = temp]_vars

(***************************************************************************)
(* Under fair scheduling of both processes a pull returns, unless it is    *)
(* starved or its process dies.                                            *)
(***************************************************************************)
PullEndsUnlessStarved ==
    pc = "await" ~> (pc \in {"done", "crashed"} \/ Starved)
-----------------------------------------------------------------------------
(* What the repository says and the code does not do. *)

\* --timeout "Tempo limite em segundos" (cmd/crompressor/pull.go:83): a pull
\* ends.
PullEnds == pc = "await" ~> pc \in {"done", "crashed"}
=============================================================================
