------------------------------- MODULE Upload --------------------------------
(***************************************************************************)
(* The attachment store of the owner (internal/attachment/service.go):     *)
(* for every blob a metadata file, a part file that grows chunk by chunk,  *)
(* and the blob file which the part becomes once its digest is right.      *)
(*                                                                         *)
(* Every call holds the mutex of the service, so calls do not interleave;  *)
(* but each of them makes several changes to files, and it may be cut off  *)
(* between two of them, by an error or because the daemon stops.  The      *)
(* variable op is the call that holds the mutex and what it does next; the *)
(* mutex does not survive a stop and the files do.  A failed call that     *)
(* changed nothing is no step.                                             *)
(***************************************************************************)
EXTENDS Integers, Sequences

CONSTANTS
    Blobs,      \* blob ids; bounds how many uploads a behaviour starts
    Owners,     \* agent ids of the callers
    Bytes,      \* byte values
    Zero,       \* the byte that fills a hole in a file
    Digests,    \* contents whose digest a caller may declare
    MaxBytes,   \* Service.maxBytes
    ChunkSize,  \* Service.chunkSize
    NoBlob,     \* no call holds the mutex
    NoMeta,     \* there is no metadata file
    NoFile      \* there is no part or blob file

VARIABLES
    issued,     \* blob ids given out so far; an id is never given out twice
    meta,       \* meta[b]: the metadata file of b
    part,       \* part[b]: the bytes of the part file of b
    blob,       \* blob[b]: the bytes of the blob file of b
    old,        \* blobs whose UpdatedAt lies before the cutoff of GC
    op,         \* the call that holds the mutex, and its next change
    cut         \* history: blobs for which Init, Complete or Cancel was cut off

upVars == <<issued, meta, part, blob, old, op, cut>>

-----------------------------------------------------------------------------
(* Data *)

States == {"uploading", "completed", "cancelled"}
\* A digest is represented by the content it was computed from (sha256 is taken
\* to be injective).
Metadata == [owner : Owners, size : 0..MaxBytes, received : Int, sha : Digests, state : States]
Chunks == UNION {[1..n -> Bytes] : n \in 0..ChunkSize}

\* create: after Init wrote the metadata; record: after PutChunk wrote n bytes;
\* finish: after the rename of Complete; cancel: after Cancel removed the part;
\* gc, gcpart, gcblob: GC between two files.
Steps == {"idle", "create", "record", "finish", "cancel", "gc", "gcpart", "gcblob"}
Op == [step : Steps, blob : Blobs \cup {NoBlob}, n : Nat, todo : SUBSET Blobs]
Idle == [step |-> "idle", blob |-> NoBlob, n |-> 0, todo |-> {}]
Holds(step, b) == [Idle EXCEPT !.step = step, !.blob = b]

ASSUME SizesArePositive == MaxBytes \in Nat /\ ChunkSize \in Nat \ {0}
ASSUME DigestsAreOfContents == Digests \subseteq Seq(Bytes) /\ Zero \in Bytes
ASSUME NothingIsAFile ==
    NoBlob \notin Blobs /\ NoMeta \notin Metadata /\ NoFile \notin Seq(Bytes)

UploadTypeOK ==
    /\ issued \subseteq Blobs /\ old \subseteq Blobs /\ cut \subseteq Blobs
    /\ meta \in [Blobs -> Metadata \cup {NoMeta}]
    /\ part \in [Blobs -> Seq(Bytes) \cup {NoFile}]
    /\ blob \in [Blobs -> Seq(Bytes) \cup {NoFile}]
    /\ op \in Op

UploadInit ==
    /\ issued = {} /\ old = {} /\ cut = {}
    /\ meta = [b \in Blobs |-> NoMeta]
    /\ part = [b \in Blobs |-> NoFile]
    /\ blob = [b \in Blobs |-> NoFile]
    /\ op = Idle

Is(b, state) == meta[b] # NoMeta /\ meta[b].state = state

\* WriteAt on a file: data from offset on, over what was there.
WriteAt(file, offset, data) ==
    LET end == offset + Len(data)
    IN  [i \in 1..(IF end > Len(file) THEN end ELSE Len(file)) |->
            IF i > offset /\ i <= end THEN data[i - offset]
            ELSE IF i <= Len(file) THEN file[i] ELSE Zero]

\* writeMetadata: the file is replaced and its UpdatedAt is now.
WriteMetadata(b, metadata) ==
    /\ meta' = [meta EXCEPT ![b] = metadata]
    /\ old' = old \ {b}

-----------------------------------------------------------------------------
(* Init *)

InitBlob(b, owner, size, sha) ==
    /\ op = Idle
    /\ b \notin issued
    /\ size <= MaxBytes
    /\ issued' = issued \cup {b}
    /\ WriteMetadata(b, [owner |-> owner, size |-> size, received |-> 0, sha |-> sha,
                         state |-> "uploading"])
    /\ op' = Holds("create", b)
    /\ UNCHANGED <<part, blob, cut>>

CreatePart ==
    /\ op.step = "create"
    /\ part' = [part EXCEPT ![op.blob] = << >>]
    /\ op' = Idle
    /\ UNCHANGED <<issued, meta, blob, old, cut>>

\* The part cannot be created: the metadata is removed, or that fails as well.
CreatePartFails ==
    /\ op.step = "create"
    /\ meta' \in {meta, [meta EXCEPT ![op.blob] = NoMeta]}
    /\ op' = Idle
    /\ cut' = cut \cup {op.blob}
    /\ UNCHANGED <<issued, part, blob, old>>

-----------------------------------------------------------------------------
(* PutChunk *)

\* Mutant of PutChunk: a chunk below the progress is written again.
PutChunkAnywhere(b, owner, offset, data) ==
    /\ op = Idle
    /\ Is(b, "uploading") /\ meta[b].owner = owner
    /\ offset <= meta[b].received
    /\ meta[b].received + Len(data) <= meta[b].size
    /\ part[b] # NoFile
    /\ part' = [part EXCEPT ![b] = WriteAt(@, offset, data)]
    /\ op' = [Holds("record", b) EXCEPT !.n = Len(data)]
    /\ UNCHANGED <<issued, meta, blob, old, cut>>

\* Mutant of PutChunk: the result of WriteAt is not looked at.
PutChunkUnchecked(b, owner, offset, data) ==
    /\ op = Idle
    /\ Is(b, "uploading") /\ meta[b].owner = owner
    /\ offset = meta[b].received
    /\ meta[b].received + Len(data) <= meta[b].size
    /\ part[b] # NoFile
    /\ \E n \in 0..Len(data) : part' = [part EXCEPT ![b] = WriteAt(@, offset, SubSeq(data, 1, n))]
    /\ op' = [Holds("record", b) EXCEPT !.n = Len(data)]
    /\ UNCHANGED <<issued, meta, blob, old, cut>>

\* The checks, then WriteAt, which may write only a part of the chunk and fail.
PutChunk(b, owner, offset, data) ==
    /\ op = Idle
    /\ Is(b, "uploading") /\ meta[b].owner = owner
    /\ offset = meta[b].received
    /\ Len(data) <= ChunkSize /\ meta[b].received + Len(data) <= meta[b].size
    /\ part[b] # NoFile
    /\ \E n \in 0..Len(data) :
          /\ part' = [part EXCEPT ![b] = WriteAt(@, offset, SubSeq(data, 1, n))]
          /\ op' = IF n = Len(data) THEN [Holds("record", b) EXCEPT !.n = n] ELSE Idle
    /\ UNCHANGED <<issued, meta, blob, old, cut>>

RecordChunk ==
    /\ op.step = "record"
    /\ WriteMetadata(op.blob, [meta[op.blob] EXCEPT !.received = @ + op.n])
    /\ op' = Idle
    /\ UNCHANGED <<issued, part, blob, cut>>

-----------------------------------------------------------------------------
(* Complete, Cancel, GC *)

\* Mutant of Complete: the digest is not compared.
CompleteUnchecked(b, owner) ==
    /\ op = Idle
    /\ Is(b, "uploading") /\ meta[b].owner = owner
    /\ meta[b].received = meta[b].size
    /\ part[b] # NoFile
    /\ blob' = [blob EXCEPT ![b] = part[b]]
    /\ part' = [part EXCEPT ![b] = NoFile]
    /\ op' = Holds("finish", b)
    /\ UNCHANGED <<issued, meta, old, cut>>

\* The digest of the part is the declared one, and the part becomes the blob.
Complete(b, owner) ==
    /\ op = Idle
    /\ Is(b, "uploading") /\ meta[b].owner = owner
    /\ meta[b].received = meta[b].size
    /\ part[b] # NoFile /\ part[b] = meta[b].sha
    /\ blob' = [blob EXCEPT ![b] = part[b]]
    /\ part' = [part EXCEPT ![b] = NoFile]
    /\ op' = Holds("finish", b)
    /\ UNCHANGED <<issued, meta, old, cut>>

FinishComplete ==
    /\ op.step = "finish"
    /\ WriteMetadata(op.blob, [meta[op.blob] EXCEPT !.state = "completed"])
    /\ op' = Idle
    /\ UNCHANGED <<issued, part, blob, cut>>

\* The error of Remove is ignored.
Cancel(b, owner) ==
    /\ op = Idle
    /\ meta[b] # NoMeta /\ meta[b].owner = owner /\ meta[b].state # "completed"
    /\ part' \in {part, [part EXCEPT ![b] = NoFile]}
    /\ op' = Holds("cancel", b)
    /\ UNCHANGED <<issued, meta, blob, old, cut>>

FinishCancel ==
    /\ op.step = "cancel"
    /\ WriteMetadata(op.blob, [meta[op.blob] EXCEPT !.state = "cancelled"])
    /\ op' = Idle
    /\ UNCHANGED <<issued, part, blob, cut>>

\* The retention of a blob passes.
Age(b) ==
    /\ meta[b] # NoMeta /\ b \notin old
    /\ old' = old \cup {b}
    /\ UNCHANGED <<issued, meta, part, blob, op, cut>>

\* GC goes through the entries that are old; it is not called by the daemon.
GC ==
    /\ op = Idle
    /\ \E b \in old : meta[b] # NoMeta
    /\ op' = [Idle EXCEPT !.step = "gc", !.todo = {b \in old : meta[b] # NoMeta}]
    /\ UNCHANGED <<issued, meta, part, blob, old, cut>>

\* Removes the three files of an entry one after the other; errors are ignored.
RemoveMeta(b) ==
    /\ op.step = "gc" /\ b \in op.todo
    /\ meta' \in {meta, [meta EXCEPT ![b] = NoMeta]}
    /\ op' = [op EXCEPT !.step = "gcpart", !.blob = b, !.todo = @ \ {b}]
    /\ UNCHANGED <<issued, part, blob, old, cut>>

RemovePart ==
    /\ op.step = "gcpart"
    /\ part' \in {part, [part EXCEPT ![op.blob] = NoFile]}
    /\ op' = [op EXCEPT !.step = "gcblob"]
    /\ UNCHANGED <<issued, meta, blob, old, cut>>

RemoveBlob ==
    /\ op.step = "gcblob"
    /\ blob' \in {blob, [blob EXCEPT ![op.blob] = NoFile]}
    /\ op' = IF op.todo = {} THEN Idle ELSE [Idle EXCEPT !.step = "gc", !.todo = op.todo]
    /\ UNCHANGED <<issued, meta, part, old, cut>>

\* The running call is cut off before its next change: writing the metadata
\* fails, or the daemon stops and is started again.
CutOff ==
    /\ op # Idle
    /\ op' = Idle
    /\ cut' = IF op.step \in {"create", "finish", "cancel"} THEN cut \cup {op.blob} ELSE cut
    /\ UNCHANGED <<issued, meta, part, blob, old>>

UploadNext ==
    \/ \E b \in Blobs, owner \in Owners :
          \/ \E size \in 0..MaxBytes, sha \in Digests : InitBlob(b, owner, size, sha)
          \/ \E offset \in 0..MaxBytes, data \in Chunks : PutChunk(b, owner, offset, data)
          \/ Complete(b, owner) \/ Cancel(b, owner)
    \/ \E b \in Blobs : Age(b) \/ RemoveMeta(b)
    \/ CreatePart \/ CreatePartFails \/ RecordChunk \/ FinishComplete \/ FinishCancel
    \/ GC \/ RemovePart \/ RemoveBlob \/ CutOff

UploadSpec == UploadInit /\ [][UploadNext]_upVars

-----------------------------------------------------------------------------
(* Properties *)

\* Whatever is found under the name of a blob is the declared content and of the
\* declared size, also while Complete is between its rename and its metadata, and
\* a completed blob is there unless GC may have collected it.
BlobIsDeclared ==
    \A b \in Blobs : meta[b] # NoMeta =>
        /\ blob[b] # NoFile =>
              blob[b] = meta[b].sha /\ Len(blob[b]) = meta[b].size /\ meta[b].received = meta[b].size
        /\ meta[b].state = "completed" /\ b \notin old => blob[b] # NoFile

\* An upload can go on from the offset its metadata gives: the part file is there,
\* holds at least the acknowledged bytes and no more than the declared size.  A
\* PutChunk that is cut off at any point costs nothing; only an Init, Complete or
\* Cancel that was cut off, or GC, can take the part away from an upload.
UploadIsResumable ==
    \A b \in Blobs : Is(b, "uploading") /\ b \notin cut \cup old /\ op.blob # b =>
        /\ part[b] # NoFile
        /\ meta[b].received <= Len(part[b])
        /\ Len(part[b]) <= meta[b].size

\* No call changes a byte below the offset that was acknowledged, however often
\* a chunk was cut off and sent again with other content.
AcknowledgedBytesKept ==
    [][\A b \in Blobs :
          /\ Is(b, "uploading") /\ part[b] # NoFile
          /\ meta'[b] # NoMeta /\ part'[b] # NoFile
          => \A i \in 1..meta[b].received : part'[b][i] = part[b][i]]_upVars

\* What the call that holds the mutex relies on for its remaining changes.
OpInv ==
    /\ op.step = "idle" <=> op = Idle
    /\ op.step \in Steps \ {"idle", "gc"} => op.blob \in issued
    /\ op.step \in {"create", "record", "finish"} => Is(op.blob, "uploading")
    /\ op.step = "create" => meta[op.blob].received = 0 /\ blob[op.blob] = NoFile
    /\ op.step = "record" => /\ part[op.blob] # NoFile
                             /\ meta[op.blob].received + op.n <= Len(part[op.blob])
    /\ op.step = "finish" => blob[op.blob] # NoFile
    /\ op.step = "cancel" => meta[op.blob] # NoMeta /\ meta[op.blob].state # "completed"
    /\ op.step = "gc" => op.blob = NoBlob
    /\ op.step \in {"gcpart", "gcblob"} => op.blob \in old
    /\ op.todo \subseteq old \cap issued

\* The progress of an upload, whether or not a call was cut off.
ProgressInv ==
    \A b \in Blobs :
        /\ b \notin issued => meta[b] = NoMeta /\ part[b] = NoFile /\ blob[b] = NoFile
        /\ meta[b] # NoMeta => meta[b].received \in 0..meta[b].size
        /\ Is(b, "completed") => Len(meta[b].sha) = meta[b].size
        /\ Is(b, "uploading") /\ part[b] # NoFile =>
              /\ meta[b].received <= Len(part[b])
              /\ Len(part[b]) <= meta[b].size
              /\ blob[b] = NoFile

\* The inductive invariant of the attachment store.
UploadInv ==
    UploadTypeOK /\ OpInv /\ ProgressInv /\ BlobIsDeclared /\ UploadIsResumable

=============================================================================
