-------------------------- MODULE AttachmentProofs ---------------------------
(* Proofs about Upload and Download. *)
EXTENDS Download, SequenceTheorems, TLAPS

\* WriteAt gives a file whose length is the larger of the old one and the end of
\* the data, with the data from the offset on and the old bytes elsewhere.
LEMMA WriteAtResult ==
  ASSUME NEW file \in Seq(Bytes), NEW offset \in Nat, NEW bytes \in Seq(Bytes)
  PROVE  /\ WriteAt(file, offset, bytes) \in Seq(Bytes)
         /\ Len(WriteAt(file, offset, bytes)) =
              IF offset + Len(bytes) > Len(file) THEN offset + Len(bytes) ELSE Len(file)
         /\ \A i \in 1..Len(bytes) : WriteAt(file, offset, bytes)[offset + i] = bytes[i]
         /\ \A i \in 1..Len(file) : i <= offset \/ i > offset + Len(bytes) =>
              WriteAt(file, offset, bytes)[i] = file[i]
  <1> DEFINE end == offset + Len(bytes)
             n == IF end > Len(file) THEN end ELSE Len(file)
             w == [i \in 1..n |-> IF i > offset /\ i <= end THEN bytes[i - offset]
                                  ELSE IF i <= Len(file) THEN file[i] ELSE Zero]
  <1>1. WriteAt(file, offset, bytes) = w
    BY DEF WriteAt
  <1>2. n \in Nat /\ end \in Nat
    OBVIOUS
  <1>3. \A i \in 1..n : w[i] \in Bytes
    BY <1>2, DigestsAreOfContents
  <1>4. w \in Seq(Bytes) /\ Len(w) = n
    <2>1. w \in [1..n -> Bytes]
      BY <1>3
    <2>2. w \in Seq(Bytes)
      BY <1>2, <2>1, SeqDef
    <2>3. DOMAIN w = 1..n /\ DOMAIN w = 1..Len(w) /\ Len(w) \in Nat
      BY <2>1, <2>2, LenProperties
    <2> QED
      BY <1>2, <2>2, <2>3
  <1>5. \A i \in 1..Len(bytes) : w[offset + i] = bytes[i]
    BY <1>2
  <1>6. \A i \in 1..Len(file) : i <= offset \/ i > end => w[i] = file[i]
    BY <1>2
  <1> QED
    BY <1>1, <1>4, <1>5, <1>6

LEMMA InitBlobKeepsInv ==
  ASSUME UploadInv, NEW b \in Blobs, NEW owner \in Owners, NEW size \in 0..MaxBytes, NEW sha \in Digests, InitBlob(b, owner, size, sha)
  PROVE  UploadInv'
  <1> USE SizesArePositive, DigestsAreOfContents, NothingIsAFile DEF UploadInv
  <1>1. UploadTypeOK'
    <2>1. meta' \in [Blobs -> Metadata \cup {NoMeta}]
      BY DEF UploadTypeOK, InitBlob, WriteMetadata, Metadata, States
    <2>2. op' \in Op
      BY DEF UploadTypeOK, InitBlob, Op, Idle, Steps, Holds
    <2> QED
      BY <2>1, <2>2 DEF UploadTypeOK, InitBlob, WriteMetadata
  <1>2. OpInv'
    <2>1. /\ op'.step = "create" /\ op'.blob = b /\ op'.todo = {} /\ op'.n = 0
          /\ b \in issued'
      BY DEF InitBlob, Holds, Idle
    <2>2. Is(b, "uploading")' /\ meta'[b].received = 0 /\ blob'[b] = NoFile
      <3>1. meta'[b] = [owner |-> owner, size |-> size, received |-> 0, sha |-> sha,
                        state |-> "uploading"]
        BY DEF InitBlob, WriteMetadata, UploadTypeOK
      <3>2. meta'[b] \in Metadata
        BY <3>1 DEF Metadata, States
      <3>3. blob'[b] = NoFile
        BY DEF InitBlob, ProgressInv
      <3> QED
        BY <3>1, <3>2, <3>3 DEF Is
    <2>3. op' # Idle
      BY <2>1 DEF Idle
    <2> QED
      BY <2>1, <2>2, <2>3 DEF OpInv, Steps
  <1>3. ProgressInv'
    BY DEF UploadTypeOK, Op, Idle, Steps, Metadata, OpInv, ProgressInv, BlobIsDeclared, Is, InitBlob, WriteMetadata, Holds
  <1>4. BlobIsDeclared'
    BY DEF UploadTypeOK, Op, Idle, Steps, Metadata, OpInv, ProgressInv, BlobIsDeclared, Is, InitBlob, WriteMetadata, Holds
  <1>5. UploadIsResumable'
    BY DEF UploadTypeOK, Op, Idle, Steps, Metadata, OpInv, ProgressInv, UploadIsResumable, Is, InitBlob, WriteMetadata, Holds
  <1> QED
    BY <1>1, <1>2, <1>3, <1>4, <1>5

LEMMA CreatePartKeepsInv ==
  ASSUME UploadInv, CreatePart
  PROVE  UploadInv'
  <1> USE SizesArePositive, DigestsAreOfContents, NothingIsAFile DEF UploadInv
  <1>1. UploadTypeOK'
    BY DEF UploadTypeOK, Op, Idle, Steps, Metadata, States, OpInv, Is, CreatePart
  <1>2. OpInv'
    BY DEF UploadTypeOK, Op, Idle, Steps, Metadata, OpInv, ProgressInv, BlobIsDeclared, Is, CreatePart
  <1>3. ProgressInv'
    BY DEF UploadTypeOK, Op, Idle, Steps, Metadata, OpInv, ProgressInv, BlobIsDeclared, Is, CreatePart
  <1>4. BlobIsDeclared'
    BY DEF UploadTypeOK, Op, Idle, Steps, Metadata, OpInv, ProgressInv, BlobIsDeclared, Is, CreatePart
  <1>5. UploadIsResumable'
    <2> SUFFICES ASSUME NEW b \in Blobs, Is(b, "uploading")', b \notin cut' \cup old'
                 PROVE  /\ part'[b] # NoFile
                        /\ meta'[b].received <= Len(part'[b])
                        /\ Len(part'[b]) <= meta'[b].size
      BY DEF UploadIsResumable
    <2>1. CASE b = op.blob
      <3>1. part'[b] = << >> /\ meta'[b] = meta[b] /\ meta[b].received = 0 /\ meta[b] \in Metadata
        BY <2>1 DEF CreatePart, OpInv, UploadTypeOK, Is
      <3>2. << >> \in Seq(Bytes) /\ Len(<< >>) = 0
        BY EmptySeq
      <3>3. meta[b].size \in Nat
        BY <3>1 DEF Metadata
      <3>4. Len(part'[b]) = 0 /\ part'[b] # NoFile
        BY <3>1, <3>2
      <3> QED
        BY <3>1, <3>3, <3>4
    <2>2. CASE b # op.blob
      BY <2>2 DEF CreatePart, UploadIsResumable, UploadTypeOK, Is
    <2> QED
      BY <2>1, <2>2
  <1> QED
    BY <1>1, <1>2, <1>3, <1>4, <1>5

LEMMA CreatePartFailsKeepsInv ==
  ASSUME UploadInv, CreatePartFails
  PROVE  UploadInv'
  <1> USE SizesArePositive, DigestsAreOfContents, NothingIsAFile DEF UploadInv
  <1>1. UploadTypeOK'
    BY DEF UploadTypeOK, Op, Idle, Steps, Metadata, States, OpInv, Is, CreatePartFails
  <1>2. OpInv'
    BY DEF UploadTypeOK, Op, Idle, Steps, Metadata, OpInv, ProgressInv, BlobIsDeclared, Is, CreatePartFails
  <1>3. ProgressInv'
    <2>1. \A c \in Blobs : meta'[c] \in {meta[c], NoMeta}
      BY DEF CreatePartFails, UploadTypeOK
    <2>2. issued' = issued /\ part' = part /\ blob' = blob
      BY DEF CreatePartFails
    <2> QED
      BY <2>1, <2>2 DEF ProgressInv, Is
  <1>4. BlobIsDeclared'
    BY DEF UploadTypeOK, Op, Idle, Steps, Metadata, OpInv, ProgressInv, BlobIsDeclared, Is, CreatePartFails
  <1>5. UploadIsResumable'
    BY DEF UploadTypeOK, Op, Idle, Steps, Metadata, OpInv, ProgressInv, UploadIsResumable, Is, CreatePartFails
  <1> QED
    BY <1>1, <1>2, <1>3, <1>4, <1>5

LEMMA RecordChunkKeepsInv ==
  ASSUME UploadInv, RecordChunk
  PROVE  UploadInv'
  <1> USE SizesArePositive, DigestsAreOfContents, NothingIsAFile DEF UploadInv
  <1>1. UploadTypeOK'
    <2>1. op.blob \in Blobs /\ meta[op.blob] \in Metadata /\ op.n \in Nat
      BY DEF UploadTypeOK, RecordChunk, OpInv, Is, Op, Steps
    <2>2. [meta[op.blob] EXCEPT !.received = @ + op.n] \in Metadata
      BY <2>1 DEF Metadata
    <2> QED
      BY <2>1, <2>2 DEF UploadTypeOK, RecordChunk, WriteMetadata, Op, Idle, Steps
  <1>2. OpInv'
    BY DEF UploadTypeOK, Op, Idle, Steps, Metadata, OpInv, ProgressInv, BlobIsDeclared, Is, RecordChunk, WriteMetadata
  <1>3. ProgressInv'
    BY DEF UploadTypeOK, Op, Idle, Steps, Metadata, OpInv, ProgressInv, BlobIsDeclared, Is, RecordChunk, WriteMetadata
  <1>4. BlobIsDeclared'
    BY DEF UploadTypeOK, Op, Idle, Steps, Metadata, OpInv, ProgressInv, BlobIsDeclared, Is, RecordChunk, WriteMetadata
  <1>5. UploadIsResumable'
    BY DEF UploadTypeOK, Op, Idle, Steps, Metadata, OpInv, ProgressInv, UploadIsResumable, Is, RecordChunk, WriteMetadata
  <1> QED
    BY <1>1, <1>2, <1>3, <1>4, <1>5

LEMMA CompleteKeepsInv ==
  ASSUME UploadInv, NEW b \in Blobs, NEW owner \in Owners, Complete(b, owner)
  PROVE  UploadInv'
  <1> USE SizesArePositive, DigestsAreOfContents, NothingIsAFile DEF UploadInv
  <1>1. UploadTypeOK'
    BY DEF UploadTypeOK, Op, Idle, Steps, Metadata, States, OpInv, Is, Complete, Holds
  <1>2. OpInv'
    BY DEF UploadTypeOK, Op, Idle, Steps, Metadata, OpInv, ProgressInv, BlobIsDeclared, Is, Complete, Holds
  <1>3. ProgressInv'
    BY DEF UploadTypeOK, Op, Idle, Steps, Metadata, OpInv, ProgressInv, BlobIsDeclared, Is, Complete, Holds
  <1>4. BlobIsDeclared'
    BY DEF UploadTypeOK, Op, Idle, Steps, Metadata, OpInv, ProgressInv, BlobIsDeclared, Is, Complete, Holds
  <1>5. UploadIsResumable'
    BY DEF UploadTypeOK, Op, Idle, Steps, Metadata, OpInv, ProgressInv, UploadIsResumable, Is, Complete, Holds
  <1> QED
    BY <1>1, <1>2, <1>3, <1>4, <1>5

LEMMA FinishCompleteKeepsInv ==
  ASSUME UploadInv, FinishComplete
  PROVE  UploadInv'
  <1> USE SizesArePositive, DigestsAreOfContents, NothingIsAFile DEF UploadInv
  <1>1. UploadTypeOK'
    BY DEF UploadTypeOK, Op, Idle, Steps, Metadata, States, OpInv, Is, FinishComplete, WriteMetadata
  <1>2. OpInv'
    BY DEF UploadTypeOK, Op, Idle, Steps, Metadata, OpInv, ProgressInv, BlobIsDeclared, Is, FinishComplete, WriteMetadata
  <1>3. ProgressInv'
    BY DEF UploadTypeOK, Op, Idle, Steps, Metadata, OpInv, ProgressInv, BlobIsDeclared, Is, FinishComplete, WriteMetadata
  <1>4. BlobIsDeclared'
    BY DEF UploadTypeOK, Op, Idle, Steps, Metadata, OpInv, ProgressInv, BlobIsDeclared, Is, FinishComplete, WriteMetadata
  <1>5. UploadIsResumable'
    BY DEF UploadTypeOK, Op, Idle, Steps, Metadata, OpInv, ProgressInv, UploadIsResumable, Is, FinishComplete, WriteMetadata
  <1> QED
    BY <1>1, <1>2, <1>3, <1>4, <1>5

LEMMA CancelKeepsInv ==
  ASSUME UploadInv, NEW b \in Blobs, NEW owner \in Owners, Cancel(b, owner)
  PROVE  UploadInv'
  <1> USE SizesArePositive, DigestsAreOfContents, NothingIsAFile DEF UploadInv
  <1>1. UploadTypeOK'
    BY DEF UploadTypeOK, Op, Idle, Steps, Metadata, States, OpInv, Is, Cancel, Holds
  <1>2. OpInv'
    BY DEF UploadTypeOK, Op, Idle, Steps, Metadata, OpInv, ProgressInv, BlobIsDeclared, Is, Cancel, Holds
  <1>3. ProgressInv'
    BY DEF UploadTypeOK, Op, Idle, Steps, Metadata, OpInv, ProgressInv, BlobIsDeclared, Is, Cancel, Holds
  <1>4. BlobIsDeclared'
    BY DEF UploadTypeOK, Op, Idle, Steps, Metadata, OpInv, ProgressInv, BlobIsDeclared, Is, Cancel, Holds
  <1>5. UploadIsResumable'
    BY DEF UploadTypeOK, Op, Idle, Steps, Metadata, OpInv, ProgressInv, UploadIsResumable, Is, Cancel, Holds
  <1> QED
    BY <1>1, <1>2, <1>3, <1>4, <1>5

LEMMA FinishCancelKeepsInv ==
  ASSUME UploadInv, FinishCancel
  PROVE  UploadInv'
  <1> USE SizesArePositive, DigestsAreOfContents, NothingIsAFile DEF UploadInv
  <1>1. UploadTypeOK'
    <2>1. op.blob \in Blobs /\ meta[op.blob] \in Metadata
      BY DEF UploadTypeOK, FinishCancel, OpInv, Is, Op, Steps
    <2>2. [meta[op.blob] EXCEPT !.state = "cancelled"] \in Metadata
      BY <2>1 DEF Metadata, States
    <2> QED
      BY <2>1, <2>2 DEF UploadTypeOK, FinishCancel, WriteMetadata, Op, Idle, Steps
  <1>2. OpInv'
    BY DEF UploadTypeOK, Op, Idle, Steps, Metadata, OpInv, ProgressInv, BlobIsDeclared, Is, FinishCancel, WriteMetadata
  <1>3. ProgressInv'
    BY DEF UploadTypeOK, Op, Idle, Steps, Metadata, OpInv, ProgressInv, BlobIsDeclared, Is, FinishCancel, WriteMetadata
  <1>4. BlobIsDeclared'
    BY DEF UploadTypeOK, Op, Idle, Steps, Metadata, OpInv, ProgressInv, BlobIsDeclared, Is, FinishCancel, WriteMetadata
  <1>5. UploadIsResumable'
    BY DEF UploadTypeOK, Op, Idle, Steps, Metadata, OpInv, ProgressInv, UploadIsResumable, Is, FinishCancel, WriteMetadata
  <1> QED
    BY <1>1, <1>2, <1>3, <1>4, <1>5

LEMMA AgeKeepsInv ==
  ASSUME UploadInv, NEW b \in Blobs, Age(b)
  PROVE  UploadInv'
  <1> USE SizesArePositive, DigestsAreOfContents, NothingIsAFile DEF UploadInv
  <1>1. UploadTypeOK'
    BY DEF UploadTypeOK, Op, Idle, Steps, Metadata, States, OpInv, Is, Age
  <1>2. OpInv'
    BY DEF UploadTypeOK, Op, Idle, Steps, Metadata, OpInv, ProgressInv, BlobIsDeclared, Is, Age
  <1>3. ProgressInv'
    BY DEF UploadTypeOK, Op, Idle, Steps, Metadata, OpInv, ProgressInv, BlobIsDeclared, Is, Age
  <1>4. BlobIsDeclared'
    BY DEF UploadTypeOK, Op, Idle, Steps, Metadata, OpInv, ProgressInv, BlobIsDeclared, Is, Age
  <1>5. UploadIsResumable'
    BY DEF UploadTypeOK, Op, Idle, Steps, Metadata, OpInv, ProgressInv, UploadIsResumable, Is, Age
  <1> QED
    BY <1>1, <1>2, <1>3, <1>4, <1>5

LEMMA GCKeepsInv ==
  ASSUME UploadInv, GC
  PROVE  UploadInv'
  <1> USE SizesArePositive, DigestsAreOfContents, NothingIsAFile DEF UploadInv
  <1>1. UploadTypeOK'
    BY DEF UploadTypeOK, Op, Idle, Steps, Metadata, States, OpInv, Is, GC
  <1>2. OpInv'
    BY DEF UploadTypeOK, Op, Idle, Steps, Metadata, OpInv, ProgressInv, BlobIsDeclared, Is, GC
  <1>3. ProgressInv'
    BY DEF UploadTypeOK, Op, Idle, Steps, Metadata, OpInv, ProgressInv, BlobIsDeclared, Is, GC
  <1>4. BlobIsDeclared'
    BY DEF UploadTypeOK, Op, Idle, Steps, Metadata, OpInv, ProgressInv, BlobIsDeclared, Is, GC
  <1>5. UploadIsResumable'
    BY DEF UploadTypeOK, Op, Idle, Steps, Metadata, OpInv, ProgressInv, UploadIsResumable, Is, GC
  <1> QED
    BY <1>1, <1>2, <1>3, <1>4, <1>5

LEMMA RemoveMetaKeepsInv ==
  ASSUME UploadInv, NEW b \in Blobs, RemoveMeta(b)
  PROVE  UploadInv'
  <1> USE SizesArePositive, DigestsAreOfContents, NothingIsAFile DEF UploadInv
  <1>1. UploadTypeOK'
    BY DEF UploadTypeOK, Op, Idle, Steps, Metadata, States, OpInv, Is, RemoveMeta
  <1>2. OpInv'
    BY DEF UploadTypeOK, Op, Idle, Steps, Metadata, OpInv, ProgressInv, BlobIsDeclared, Is, RemoveMeta
  <1>3. ProgressInv'
    <2>1. \A c \in Blobs : meta'[c] \in {meta[c], NoMeta}
      BY DEF RemoveMeta, UploadTypeOK
    <2>2. issued' = issued /\ part' = part /\ blob' = blob
      BY DEF RemoveMeta
    <2> QED
      BY <2>1, <2>2 DEF ProgressInv, Is
  <1>4. BlobIsDeclared'
    BY DEF UploadTypeOK, Op, Idle, Steps, Metadata, OpInv, ProgressInv, BlobIsDeclared, Is, RemoveMeta
  <1>5. UploadIsResumable'
    BY DEF UploadTypeOK, Op, Idle, Steps, Metadata, OpInv, ProgressInv, UploadIsResumable, Is, RemoveMeta
  <1> QED
    BY <1>1, <1>2, <1>3, <1>4, <1>5

LEMMA RemovePartKeepsInv ==
  ASSUME UploadInv, RemovePart
  PROVE  UploadInv'
  <1> USE SizesArePositive, DigestsAreOfContents, NothingIsAFile DEF UploadInv
  <1>1. UploadTypeOK'
    BY DEF UploadTypeOK, Op, Idle, Steps, Metadata, States, OpInv, Is, RemovePart
  <1>2. OpInv'
    BY DEF UploadTypeOK, Op, Idle, Steps, Metadata, OpInv, ProgressInv, BlobIsDeclared, Is, RemovePart
  <1>3. ProgressInv'
    BY DEF UploadTypeOK, Op, Idle, Steps, Metadata, OpInv, ProgressInv, BlobIsDeclared, Is, RemovePart
  <1>4. BlobIsDeclared'
    BY DEF UploadTypeOK, Op, Idle, Steps, Metadata, OpInv, ProgressInv, BlobIsDeclared, Is, RemovePart
  <1>5. UploadIsResumable'
    BY DEF UploadTypeOK, Op, Idle, Steps, Metadata, OpInv, ProgressInv, UploadIsResumable, Is, RemovePart
  <1> QED
    BY <1>1, <1>2, <1>3, <1>4, <1>5

LEMMA RemoveBlobKeepsInv ==
  ASSUME UploadInv, RemoveBlob
  PROVE  UploadInv'
  <1> USE SizesArePositive, DigestsAreOfContents, NothingIsAFile DEF UploadInv
  <1>1. UploadTypeOK'
    BY DEF UploadTypeOK, Op, Idle, Steps, Metadata, States, OpInv, Is, RemoveBlob
  <1>2. OpInv'
    BY DEF UploadTypeOK, Op, Idle, Steps, Metadata, OpInv, ProgressInv, BlobIsDeclared, Is, RemoveBlob
  <1>3. ProgressInv'
    BY DEF UploadTypeOK, Op, Idle, Steps, Metadata, OpInv, ProgressInv, BlobIsDeclared, Is, RemoveBlob
  <1>4. BlobIsDeclared'
    BY DEF UploadTypeOK, Op, Idle, Steps, Metadata, OpInv, ProgressInv, BlobIsDeclared, Is, RemoveBlob
  <1>5. UploadIsResumable'
    BY DEF UploadTypeOK, Op, Idle, Steps, Metadata, OpInv, ProgressInv, UploadIsResumable, Is, RemoveBlob
  <1> QED
    BY <1>1, <1>2, <1>3, <1>4, <1>5

LEMMA CutOffKeepsInv ==
  ASSUME UploadInv, CutOff
  PROVE  UploadInv'
  <1> USE SizesArePositive, DigestsAreOfContents, NothingIsAFile DEF UploadInv
  <1>1. UploadTypeOK'
    BY DEF UploadTypeOK, Op, Idle, Steps, Metadata, States, OpInv, Is, CutOff
  <1>2. OpInv'
    BY DEF UploadTypeOK, Op, Idle, Steps, Metadata, OpInv, ProgressInv, BlobIsDeclared, Is, CutOff
  <1>3. ProgressInv'
    BY DEF UploadTypeOK, Op, Idle, Steps, Metadata, OpInv, ProgressInv, BlobIsDeclared, Is, CutOff
  <1>4. BlobIsDeclared'
    BY DEF UploadTypeOK, Op, Idle, Steps, Metadata, OpInv, ProgressInv, BlobIsDeclared, Is, CutOff
  <1>5. UploadIsResumable'
    BY DEF UploadTypeOK, Op, Idle, Steps, Metadata, OpInv, ProgressInv, UploadIsResumable, Is, CutOff
  <1> QED
    BY <1>1, <1>2, <1>3, <1>4, <1>5

\* Writing at the acknowledged offset keeps the acknowledged bytes and stays
\* within the declared size.
LEMMA PutChunkWrites ==
  ASSUME UploadInv, NEW b \in Blobs, NEW owner \in Owners, NEW offset \in 0..MaxBytes,
         NEW data_ \in Chunks, PutChunk(b, owner, offset, data_)
  PROVE  /\ meta[b] \in Metadata /\ meta[b].state = "uploading" /\ part[b] \in Seq(Bytes)
         /\ \E file \in Seq(Bytes) :
               /\ part' = [part EXCEPT ![b] = file]
               /\ Len(part[b]) <= Len(file) /\ Len(file) <= meta[b].size
               /\ \A i \in 1..meta[b].received : file[i] = part[b][i]
               /\ \/ op' = Idle
                  \/ /\ op' = [Holds("record", b) EXCEPT !.n = Len(data_)]
                     /\ Len(data_) \in Nat /\ meta[b].received + Len(data_) <= Len(file)
  <1> USE SizesArePositive, DigestsAreOfContents, NothingIsAFile DEF UploadInv
  <1>1. data_ \in Seq(Bytes)
    BY SeqDef DEF Chunks
  <1>2. meta[b] \in Metadata /\ meta[b].state = "uploading" /\ part[b] \in Seq(Bytes) /\ b \in issued
    BY DEF PutChunk, UploadTypeOK, Is, ProgressInv
  <1>3. /\ meta[b].received \in Nat /\ meta[b].size \in Nat
        /\ meta[b].received <= Len(part[b]) /\ Len(part[b]) <= meta[b].size
        /\ offset = meta[b].received /\ meta[b].received + Len(data_) <= meta[b].size
    BY <1>2 DEF PutChunk, ProgressInv, Is, Metadata
  <1>4. PICK n \in 0..Len(data_) :
          /\ part' = [part EXCEPT ![b] = WriteAt(part[b], offset, SubSeq(data_, 1, n))]
          /\ op' = IF n = Len(data_) THEN [Holds("record", b) EXCEPT !.n = n] ELSE Idle
    BY DEF PutChunk, UploadTypeOK
  <1> DEFINE bytes == SubSeq(data_, 1, n)
             file == WriteAt(part[b], offset, bytes)
  <1>5. bytes \in Seq(Bytes) /\ Len(bytes) = n /\ n \in Nat /\ n <= Len(data_)
    BY <1>1
  <1> HIDE DEF bytes
  <1>12. part[b] \in Seq(Bytes) /\ offset \in Nat /\ bytes \in Seq(Bytes)
    BY <1>2, <1>3, <1>5
  <1>11. /\ file \in Seq(Bytes)
         /\ Len(file) = IF offset + Len(bytes) > Len(part[b]) THEN offset + Len(bytes) ELSE Len(part[b])
         /\ \A i \in 1..Len(part[b]) : i <= offset \/ i > offset + Len(bytes) => file[i] = part[b][i]
    BY <1>12, WriteAtResult, Zenon
  <1>6. /\ file \in Seq(Bytes)
        /\ Len(file) = IF offset + n > Len(part[b]) THEN offset + n ELSE Len(part[b])
        /\ \A i \in 1..Len(part[b]) : i <= offset \/ i > offset + n => file[i] = part[b][i]
    BY <1>5, <1>11
  <1> HIDE DEF file
  <1>7. /\ Len(part[b]) <= Len(file) /\ Len(file) <= meta[b].size
        /\ \A i \in 1..meta[b].received : file[i] = part[b][i]
        /\ meta[b].received + n <= Len(file)
    <2>1. Len(part[b]) \in Nat /\ Len(data_) \in Nat
      BY <1>1, <1>2, LenProperties
    <2>2. /\ Len(part[b]) <= Len(file) /\ Len(file) <= meta[b].size
          /\ meta[b].received + n <= Len(file)
      <3>1. offset = meta[b].received /\ meta[b].received + n <= meta[b].size
        BY <2>1, <1>3, <1>5
      <3>2. CASE offset + n > Len(part[b])
        BY <3>1, <3>2, <2>1, <1>3, <1>5, <1>6
      <3>3. CASE ~(offset + n > Len(part[b]))
        BY <3>1, <3>3, <2>1, <1>3, <1>5, <1>6
      <3> QED
        BY <3>2, <3>3
    <2>3. \A i \in 1..meta[b].received : i \in 1..Len(part[b]) /\ i <= offset
      BY <2>1, <1>3
    <2> QED
      BY <2>2, <2>3, <1>6
  <1>8. part' = [part EXCEPT ![b] = file]
    BY <1>4 DEF file, bytes
  <1>9. Len(data_) \in Nat
    BY <1>1, LenProperties
  <1>10. \/ op' = Idle
         \/ /\ op' = [Holds("record", b) EXCEPT !.n = Len(data_)]
            /\ meta[b].received + Len(data_) <= Len(file)
    <2>1. CASE n = Len(data_)
      BY <2>1, <1>4, <1>7
    <2>2. CASE n # Len(data_)
      BY <2>2, <1>4
    <2> QED
      BY <2>1, <2>2
  <1> QED
    BY <1>2, <1>6, <1>7, <1>8, <1>9, <1>10

LEMMA PutChunkKeepsInv ==
  ASSUME UploadInv, NEW b \in Blobs, NEW owner \in Owners, NEW offset \in 0..MaxBytes,
         NEW data_ \in Chunks, PutChunk(b, owner, offset, data_)
  PROVE  UploadInv'
  <1> USE SizesArePositive, DigestsAreOfContents, NothingIsAFile DEF UploadInv
  <1>1. PICK file \in Seq(Bytes) :
          /\ part' = [part EXCEPT ![b] = file]
          /\ Len(part[b]) <= Len(file) /\ Len(file) <= meta[b].size
          /\ \/ op' = Idle
             \/ /\ op' = [Holds("record", b) EXCEPT !.n = Len(data_)]
                /\ Len(data_) \in Nat /\ meta[b].received + Len(data_) <= Len(file)
    BY PutChunkWrites
  <1>2. meta[b] \in Metadata /\ Is(b, "uploading") /\ part[b] \in Seq(Bytes) /\ op = Idle /\ part[b] # NoFile
    BY DEF PutChunk, UploadTypeOK, Is
  <1>3. UNCHANGED <<issued, meta, blob, old, cut>>
    BY DEF PutChunk
  <1>4. part'[b] = file /\ (\A c \in Blobs \ {b} : part'[c] = part[c])
    BY <1>1 DEF UploadTypeOK
  <1>5. b \in issued
    BY <1>2 DEF ProgressInv
  <1>6. UploadTypeOK'
    <2>1. Idle \in Op /\ Holds("record", b) \in Op
      BY DEF Op, Idle, Steps, Holds
    <2>2. [Holds("record", b) EXCEPT !.n = Len(data_)] \in Op \/ Len(data_) \notin Nat
      BY <2>1 DEF Op
    <2>3. op' \in Op
      BY <1>1, <2>1, <2>2
    <2> QED
      BY <1>1, <1>3, <2>3 DEF UploadTypeOK
  <1>7. OpInv'
    BY <1>1, <1>2, <1>3, <1>4, <1>5 DEF UploadTypeOK, OpInv, Idle, Steps, Holds, Is
  <1>8. ProgressInv'
    BY <1>1, <1>2, <1>3, <1>4, <1>5 DEF UploadTypeOK, ProgressInv, Is, Metadata
  <1>9. BlobIsDeclared'
    BY <1>3 DEF BlobIsDeclared
  <1>10. UploadIsResumable'
    BY <1>1, <1>2, <1>3, <1>4 DEF UploadTypeOK, UploadIsResumable, ProgressInv, Is, Metadata, Idle
  <1> QED
    BY <1>6, <1>7, <1>8, <1>9, <1>10

LEMMA UploadInitInv == UploadInit => UploadInv
  BY NothingIsAFile, SizesArePositive
  DEF UploadInit, UploadInv, UploadTypeOK, OpInv, ProgressInv, BlobIsDeclared, UploadIsResumable,
      Is, Idle, Op, Steps

LEMMA UploadStepInv ==
  ASSUME UploadInv, [UploadNext]_upVars
  PROVE  UploadInv'
  <1>1. CASE UNCHANGED upVars
    BY <1>1 DEF upVars, UploadInv, UploadTypeOK, OpInv, ProgressInv, BlobIsDeclared,
                UploadIsResumable, Is
  <1>2. CASE UploadNext
    <2>1. CASE \E b \in Blobs, owner \in Owners :
                  \/ \E size \in 0..MaxBytes, sha \in Digests : InitBlob(b, owner, size, sha)
                  \/ \E offset \in 0..MaxBytes, bytes \in Chunks : PutChunk(b, owner, offset, bytes)
                  \/ Complete(b, owner) \/ Cancel(b, owner)
      BY <2>1, InitBlobKeepsInv, PutChunkKeepsInv, CompleteKeepsInv, CancelKeepsInv
    <2>2. CASE \E b \in Blobs : Age(b) \/ RemoveMeta(b)
      BY <2>2, AgeKeepsInv, RemoveMetaKeepsInv
    <2>3. CASE \/ CreatePart \/ CreatePartFails \/ RecordChunk \/ FinishComplete \/ FinishCancel
               \/ GC \/ RemovePart \/ RemoveBlob \/ CutOff
      BY <2>3, CreatePartKeepsInv, CreatePartFailsKeepsInv, RecordChunkKeepsInv,
         FinishCompleteKeepsInv, FinishCancelKeepsInv, GCKeepsInv, RemovePartKeepsInv,
         RemoveBlobKeepsInv, CutOffKeepsInv
    <2> QED
      BY <1>2, <2>1, <2>2, <2>3 DEF UploadNext
  <1> QED
    BY <1>1, <1>2

\* Only PutChunk writes to a part that stays a part, and it writes at the
\* acknowledged offset.
LEMMA UploadStepKeepsBytes ==
  ASSUME UploadInv, [UploadNext]_upVars, NEW b \in Blobs, Is(b, "uploading"), part[b] # NoFile,
         meta'[b] # NoMeta, part'[b] # NoFile, NEW i \in 1..meta[b].received
  PROVE  part'[b][i] = part[b][i]
  <1>1. CASE \E c \in Blobs, owner \in Owners, offset \in 0..MaxBytes, bytes \in Chunks :
                PutChunk(c, owner, offset, bytes)
    <2>1. PICK c \in Blobs, owner \in Owners, offset \in 0..MaxBytes, bytes \in Chunks :
                PutChunk(c, owner, offset, bytes)
      BY <1>1
    <2>2. PICK file \in Seq(Bytes) : /\ part' = [part EXCEPT ![c] = file]
                                     /\ \A j \in 1..meta[c].received : file[j] = part[c][j]
      BY <2>1, PutChunkWrites
    <2> QED
      BY <2>2 DEF UploadInv, UploadTypeOK
  <1>2. CASE UNCHANGED part
    BY <1>2
  <1>3. CASE CreatePart
    <2>1. op.blob = b => meta[b].received = 0
      BY <1>3 DEF CreatePart, UploadInv, OpInv
    <2>2. op.blob # b => part'[b] = part[b]
      BY <1>3 DEF CreatePart, UploadInv, UploadTypeOK
    <2> QED
      BY <2>1, <2>2
  <1>4. CASE \E c \in Blobs, owner \in Owners : Complete(c, owner) \/ Cancel(c, owner)
    BY <1>4 DEF Complete, Cancel, UploadInv, UploadTypeOK
  <1>5. CASE RemovePart
    BY <1>5 DEF RemovePart, UploadInv, UploadTypeOK
  <1>6. CASE \/ \E c \in Blobs, owner \in Owners, size \in 0..MaxBytes, sha \in Digests :
                    InitBlob(c, owner, size, sha)
             \/ \E c \in Blobs : Age(c) \/ RemoveMeta(c)
             \/ CreatePartFails \/ RecordChunk \/ FinishComplete \/ FinishCancel
             \/ GC \/ RemoveBlob \/ CutOff
    BY <1>2, <1>6 DEF InitBlob, Age, RemoveMeta, CreatePartFails, RecordChunk, FinishComplete,
       FinishCancel, GC, RemoveBlob, CutOff
  <1> QED
    BY <1>1, <1>2, <1>3, <1>4, <1>5, <1>6 DEF UploadNext, upVars

-----------------------------------------------------------------------------
(* Download *)

\* Writing bytes of the content at their place into a file that is a beginning of
\* the content leaves it one, makes it no shorter and cannot spoil a full one.
LEMMA BeginsWrite ==
  ASSUME NEW file \in Seq(Bytes), NEW content \in Seq(Bytes), Begins(file, content),
         NEW at \in Nat, at <= Len(file), NEW bytes \in Seq(Bytes),
         at + Len(bytes) <= Len(content),
         \A i \in 1..Len(bytes) : bytes[i] = content[at + i]
  PROVE  /\ WriteAt(file, at, bytes) \in Seq(Bytes)
         /\ Begins(WriteAt(file, at, bytes), content)
         /\ Len(file) <= Len(WriteAt(file, at, bytes))
         /\ at + Len(bytes) <= Len(WriteAt(file, at, bytes))
         /\ file = content => WriteAt(file, at, bytes) = content
  <1> DEFINE w == WriteAt(file, at, bytes)
  <1>1. /\ w \in Seq(Bytes)
        /\ Len(w) = IF at + Len(bytes) > Len(file) THEN at + Len(bytes) ELSE Len(file)
        /\ \A i \in 1..Len(bytes) : w[at + i] = bytes[i]
        /\ \A i \in 1..Len(file) : i <= at \/ i > at + Len(bytes) => w[i] = file[i]
    BY WriteAtResult, Zenon
  <1> HIDE DEF w
  <1>2. Len(file) \in Nat /\ Len(bytes) \in Nat /\ Len(content) \in Nat /\ Len(w) \in Nat
    BY <1>1, LenProperties
  <1>3. Len(file) <= Len(w) /\ at + Len(bytes) <= Len(w) /\ Len(w) <= Len(content)
    BY <1>1, <1>2 DEF Begins
  <1>4. ASSUME NEW i \in 1..Len(w)
        PROVE  w[i] = content[i]
    <2>1. CASE i <= at
      BY <2>1, <1>1, <1>2 DEF Begins
    <2>2. CASE i > at /\ i <= at + Len(bytes)
      <3>1. i - at \in 1..Len(bytes) /\ at + (i - at) = i
        BY <2>2, <1>2
      <3>2. w[at + (i - at)] = bytes[i - at] /\ bytes[i - at] = content[at + (i - at)]
        BY <3>1, <1>1
      <3> QED
        BY <3>1, <3>2
    <2>3. CASE i > at + Len(bytes)
      <3>1. i \in 1..Len(file)
        BY <2>3, <1>1, <1>2
      <3> QED
        BY <3>1, <2>3, <1>1 DEF Begins
    <2> QED
      BY <2>1, <2>2, <2>3, <1>2
  <1>5. file = content => w = content
    <2> HAVE file = content
    <2>1. Len(w) = Len(content)
      BY <1>2, <1>3
    <2> QED
      BY <1>1, <1>4, <2>1, SeqEqual
  <1>6. Begins(w, content)
    BY <1>3, <1>4 DEF Begins
  <1> QED
    BY <1>1, <1>3, <1>5, <1>6 DEF w

\* What a step of the owner's attachment service does to the metadata of a blob
\* that has an id: nothing that a grant refers to.
LEMMA UploadStepMeta ==
  ASSUME UploadInv, [UploadNext]_upVars, NEW b \in issued
  PROVE  /\ b \in issued'
         /\ meta'[b] # NoMeta => /\ meta[b] # NoMeta
                                 /\ meta'[b].sha = meta[b].sha
                                 /\ meta'[b].size = meta[b].size
  <1> USE NothingIsAFile DEF UploadInv, UploadTypeOK
  <1>1. b \in Blobs
    OBVIOUS
  <1>2. CASE \E c \in Blobs, owner \in Owners, size \in 0..MaxBytes, sha \in Digests :
                InitBlob(c, owner, size, sha)
    BY <1>1, <1>2 DEF InitBlob, WriteMetadata
  <1>3. CASE UNCHANGED <<issued, meta>>
    BY <1>3
  <1>4. CASE RecordChunk
    BY <1>1, <1>4 DEF RecordChunk, WriteMetadata, OpInv, Is, Metadata
  <1>5. CASE FinishComplete
    BY <1>1, <1>5 DEF FinishComplete, WriteMetadata, OpInv, Is, Metadata
  <1>6. CASE FinishCancel
    BY <1>1, <1>6 DEF FinishCancel, WriteMetadata, OpInv, Is, Metadata
  <1>7. CASE CreatePartFails \/ \E c \in Blobs : RemoveMeta(c)
    BY <1>1, <1>7 DEF CreatePartFails, RemoveMeta
  <1>8. CASE \/ \E c \in Blobs, owner \in Owners :
                   \/ \E offset \in 0..MaxBytes, bytes \in Chunks : PutChunk(c, owner, offset, bytes)
                   \/ Complete(c, owner) \/ Cancel(c, owner)
             \/ \E c \in Blobs : Age(c)
             \/ CreatePart \/ GC \/ RemovePart \/ RemoveBlob \/ CutOff
    BY <1>3, <1>8 DEF PutChunk, Complete, Cancel, Age, CreatePart, GC, RemovePart, RemoveBlob, CutOff
  <1> QED
    BY <1>2, <1>3, <1>4, <1>5, <1>6, <1>7, <1>8 DEF UploadNext, upVars

LEMMA UploadStepKeepsDownloadInv ==
  ASSUME DownloadInv, [UploadNext]_upVars, UNCHANGED <<grantVars, recvVars>>
  PROVE  DownloadInv'
  <1> USE DEF DownloadInv, grantVars, recvVars
  <1>1. UploadInv'
    BY UploadStepInv
  <1>2. DownloadTypeOK' /\ GrantsEndWithContact'
    BY DEF DownloadTypeOK, GrantsEndWithContact
  <1>3. GrantsAgree'
    BY UploadStepMeta DEF GrantsAgree
  <1>4. FilesInv' /\ CallsInv' /\ FilesArePrefixes'
    BY DEF FilesInv, CallsInv, FilesArePrefixes, UsedFor, BlobOf, SizeOf, DigestOf, LastByte
  <1> QED
    BY <1>1, <1>2, <1>3, <1>4

\* Steps that change at most the state of grants which exist.
LEMMA GrantStatesKeepInv ==
  ASSUME DownloadInv, UNCHANGED <<upVars, recvVars>>,
         DownloadTypeOK', GrantsEndWithContact',
         \A g \in Grants : /\ grants'[g].state = "absent" <=> grants[g].state = "absent"
                           /\ grants[g].state # "absent" => /\ grants'[g].blob = grants[g].blob
                                                            /\ grants'[g].digest = grants[g].digest
                                                            /\ grants'[g].size = grants[g].size
  PROVE  DownloadInv'
  <1> USE DEF DownloadInv, upVars, recvVars
  <1>1. UploadInv'
    BY UploadStepInv
  <1>2. GrantsAgree'
    BY DEF GrantsAgree
  <1>3. \A c \in Calls : calls[c].pc # "idle" =>
          /\ calls[c].grant \in Grants /\ grants[calls[c].grant].state # "absent"
          /\ BlobOf(c)' = BlobOf(c) /\ SizeOf(c)' = SizeOf(c) /\ DigestOf(c)' = DigestOf(c)
          /\ LastByte(c)' = LastByte(c)
    BY DEF CallsInv, BlobOf, SizeOf, DigestOf, LastByte
  <1>4. \A f \in Files, b \in Blobs : UsedFor(f, b)' <=> UsedFor(f, b)
    BY <1>3 DEF UsedFor
  <1>5. FilesInv'
    BY <1>4 DEF FilesInv
  <1>6. FilesArePrefixes'
    BY <1>4 DEF FilesArePrefixes
  <1>7. CallsInv'
    <2> SUFFICES ASSUME NEW c \in Calls
                 PROVE  CallsInv!(c)'
      BY DEF CallsInv
    <2> QED
      BY <1>3 DEF CallsInv, DownloadTypeOK, Call
  <1> QED
    BY <1>1, <1>2, <1>5, <1>6, <1>7

LEMMA GrantCheckKeepsInv ==
  ASSUME DownloadInv, NEW b \in Blobs, GrantCheck(b)
  PROVE  DownloadInv'
  <1>1. DownloadTypeOK'
    BY DEF DownloadInv, DownloadTypeOK, Grant, NoRow, GrantCheck, recvVars
  <1>2. GrantsEndWithContact'
    BY <1>1 DEF DownloadInv, GrantsEndWithContact, DownloadTypeOK, Grant, NoRow, GrantCheck
  <1> QED
    BY <1>1, <1>2, GrantStatesKeepInv DEF GrantCheck, DownloadInv, DownloadTypeOK, Grant, NoRow

LEMMA GrantFailsKeepsInv ==
  ASSUME DownloadInv, NEW b \in Blobs, GrantFails(b)
  PROVE  DownloadInv'
  <1>1. DownloadTypeOK'
    BY DEF DownloadInv, DownloadTypeOK, Grant, NoRow, GrantFails, recvVars
  <1>2. GrantsEndWithContact'
    BY <1>1 DEF DownloadInv, GrantsEndWithContact, DownloadTypeOK, Grant, NoRow, GrantFails
  <1> QED
    BY <1>1, <1>2, GrantStatesKeepInv DEF GrantFails, DownloadInv, DownloadTypeOK, Grant, NoRow

LEMMA ExpireGrantKeepsInv ==
  ASSUME DownloadInv, NEW g \in Grants, ExpireGrant(g)
  PROVE  DownloadInv'
  <1>1. DownloadTypeOK'
    BY DEF DownloadInv, DownloadTypeOK, Grant, NoRow, ExpireGrant, recvVars
  <1>2. GrantsEndWithContact'
    BY <1>1 DEF DownloadInv, GrantsEndWithContact, DownloadTypeOK, Grant, NoRow, ExpireGrant
  <1> QED
    BY <1>1, <1>2, GrantStatesKeepInv DEF ExpireGrant, DownloadInv, DownloadTypeOK, Grant, NoRow

LEMMA RevokeContactKeepsInv ==
  ASSUME DownloadInv, RevokeContact
  PROVE  DownloadInv'
  <1>1. DownloadTypeOK'
    BY DEF DownloadInv, DownloadTypeOK, Grant, NoRow, RevokeContact, recvVars
  <1>2. GrantsEndWithContact'
    BY <1>1 DEF DownloadInv, GrantsEndWithContact, DownloadTypeOK, Grant, NoRow, RevokeContact
  <1> QED
    BY <1>1, <1>2, GrantStatesKeepInv DEF RevokeContact, DownloadInv, DownloadTypeOK, Grant, NoRow

LEMMA RevokeGrantsKeepsInv ==
  ASSUME DownloadInv, RevokeGrants
  PROVE  DownloadInv'
  <1>1. DownloadTypeOK'
    <2>1. ASSUME NEW g \in Grants
          PROVE  (IF grants[g].state = "live" THEN [grants[g] EXCEPT !.state = "revoked"]
                  ELSE grants[g]) \in Grant \cup {NoRow}
      <3>1. grants[g] \in Grant \cup {NoRow}
        BY DEF DownloadInv, DownloadTypeOK
      <3>2. CASE grants[g].state = "live"
        <4>1. grants[g] \in Grant
          BY <3>1, <3>2 DEF NoRow
        <4>2. [grants[g] EXCEPT !.state = "revoked"] \in Grant
          BY <4>1 DEF Grant
        <4> QED
          BY <3>2, <4>2
      <3> QED
        BY <3>1, <3>2
    <2>2. grants' \in [Grants -> Grant \cup {NoRow}]
      BY <2>1 DEF RevokeGrants
    <2> QED
      BY <2>2 DEF DownloadInv, DownloadTypeOK, RevokeGrants, recvVars
  <1>2. GrantsEndWithContact'
    BY <1>1 DEF DownloadInv, GrantsEndWithContact, DownloadTypeOK, Grant, NoRow, RevokeGrants
  <1> QED
    BY <1>1, <1>2, GrantStatesKeepInv DEF RevokeGrants, DownloadInv, DownloadTypeOK, Grant, NoRow

LEMMA RevokeCutOffKeepsInv ==
  ASSUME DownloadInv, RevokeCutOff
  PROVE  DownloadInv'
  <1>1. DownloadTypeOK'
    BY DEF DownloadInv, DownloadTypeOK, Grant, NoRow, RevokeCutOff, recvVars
  <1>2. GrantsEndWithContact'
    BY <1>1 DEF DownloadInv, GrantsEndWithContact, DownloadTypeOK, Grant, NoRow, RevokeCutOff
  <1> QED
    BY <1>1, <1>2, GrantStatesKeepInv DEF RevokeCutOff, DownloadInv, DownloadTypeOK, Grant, NoRow

LEMMA PairAgainKeepsInv ==
  ASSUME DownloadInv, PairAgain
  PROVE  DownloadInv'
  <1>1. DownloadTypeOK'
    BY DEF DownloadInv, DownloadTypeOK, Grant, NoRow, PairAgain, recvVars
  <1>2. GrantsEndWithContact'
    BY <1>1 DEF DownloadInv, GrantsEndWithContact, DownloadTypeOK, Grant, NoRow, PairAgain
  <1> QED
    BY <1>1, <1>2, GrantStatesKeepInv DEF PairAgain, DownloadInv, DownloadTypeOK, Grant, NoRow

LEMMA CreateGrantKeepsInv ==
  ASSUME DownloadInv, NEW g \in Grants, NEW b \in Blobs, CreateGrant(g, b)
  PROVE  DownloadInv'
  <1> USE DEF DownloadInv
  <1> DEFINE row == [state |-> "live", blob |-> b, digest |-> meta[b].sha, size |-> meta[b].size]
  <1>1. UNCHANGED <<upVars, recvVars>> /\ grants' = [grants EXCEPT ![g] = row]
    BY DEF CreateGrant
  <1>2. UploadInv'
    BY <1>1, UploadStepInv
  <1>3. /\ meta[b] \in Metadata /\ b \in issued /\ Len(meta[b].sha) = meta[b].size
        /\ row \in Grant /\ grants[g].state = "absent"
    BY DEF CreateGrant, Is, UploadInv, UploadTypeOK, ProgressInv, Metadata, Grant
  <1>4. grants'[g] = row /\ \A h \in Grants : h # g => grants'[h] = grants[h]
    BY <1>1 DEF DownloadTypeOK
  <1>5. DownloadTypeOK'
    BY <1>1, <1>3 DEF DownloadTypeOK, CreateGrant, recvVars
  <1>6. GrantsEndWithContact'
    BY <1>4 DEF GrantsEndWithContact, CreateGrant
  <1>7. \A h \in Grants : grants[h].state # "absent" /\ grants[h].blob = b =>
           grants[h].digest = meta[b].sha /\ grants[h].size = meta[b].size
    BY <1>3, NothingIsAFile DEF GrantsAgree
  <1>8. GrantsAgree'
    BY <1>1, <1>3, <1>4, <1>7 DEF GrantsAgree, upVars
  <1>9. \A c \in Calls : calls[c].pc # "idle" =>
          /\ calls[c].grant # g /\ calls[c].grant \in Grants
          /\ BlobOf(c)' = BlobOf(c) /\ SizeOf(c)' = SizeOf(c) /\ DigestOf(c)' = DigestOf(c)
          /\ LastByte(c)' = LastByte(c)
    BY <1>1, <1>3, <1>4 DEF CallsInv, BlobOf, SizeOf, DigestOf, LastByte, recvVars
  <1>10. \A f \in Files, a \in Blobs : UsedFor(f, a)' <=> UsedFor(f, a)
    BY <1>1, <1>9 DEF UsedFor, recvVars
  <1>11. FilesInv'
    BY <1>3, <1>4, <1>10 DEF FilesInv
  <1>12. FilesArePrefixes'
    <2> SUFFICES ASSUME NEW f \in Files, NEW a \in Blobs, NEW h \in Grants,
                        UsedFor(f, a)', grants'[h].state # "absent", grants'[h].blob = a
                 PROVE  Begins(data'[f], grants'[h].digest)
      BY DEF FilesArePrefixes
    <2>1. data' = data /\ UsedFor(f, a)
      BY <1>1, <1>10 DEF recvVars
    <2>2. CASE h = g
      <3>1. PICK k \in Grants : grants[k].state # "absent" /\ grants[k].blob = a
        BY <2>1 DEF FilesInv
      <3> QED
        BY <2>1, <2>2, <3>1, <1>4, <1>7 DEF FilesArePrefixes
    <2>3. CASE h # g
      BY <2>1, <2>3, <1>4 DEF FilesArePrefixes
    <2> QED
      BY <2>2, <2>3
  <1>13. CallsInv'
    <2> SUFFICES ASSUME NEW c \in Calls
                 PROVE  CallsInv!(c)'
      BY DEF CallsInv
    <2> QED
      BY <1>1, <1>4, <1>9 DEF CallsInv, DownloadTypeOK, Call, recvVars
  <1> QED
    BY <1>2, <1>5, <1>6, <1>8, <1>11, <1>12, <1>13

\* Steps of a Receive call that change neither a file nor a path.
LEMMA CallStepKeepsInv ==
  ASSUME DownloadInv, UNCHANGED <<upVars, grantVars, data, received, final>>,
         calls' \in [Calls -> Call], CallsInv',
         \A f \in Files, b \in Blobs : UsedFor(f, b)' => UsedFor(f, b)
  PROVE  DownloadInv'
  <1> USE DEF DownloadInv, grantVars
  <1>1. UploadInv'
    BY UploadStepInv
  <1>2. DownloadTypeOK' /\ GrantsEndWithContact'
    BY DEF DownloadTypeOK, GrantsEndWithContact
  <1>3. GrantsAgree'
    BY DEF GrantsAgree, upVars
  <1>4. FilesInv'
    BY DEF FilesInv
  <1>5. FilesArePrefixes'
    BY DEF FilesArePrefixes
  <1> QED
    BY <1>1, <1>2, <1>3, <1>4, <1>5

LEMMA ReceiveStartKeepsInv ==
  ASSUME DownloadInv, NEW c \in Calls, NEW g \in Grants, ReceiveStart(c, g)
  PROVE  DownloadInv'
  <1> USE NothingIsGranted DEF DownloadInv
  <1>1. UNCHANGED <<upVars, grantVars, data, received, final>>
    BY DEF ReceiveStart
  <1>2. calls' \in [Calls -> Call]
    <2>1. [NoCall EXCEPT !.pc = "open", !.grant = g] \in Call
      BY EmptySeq DEF Call, NoCall, Places
    <2> QED
      BY <2>1 DEF ReceiveStart, DownloadTypeOK
  <1>3. \A d \in Calls : d # c => calls'[d] = calls[d]
    BY DEF ReceiveStart, DownloadTypeOK
  <1>4. CallsInv!(c)'
    BY <1>1 DEF ReceiveStart, CallsInv, DownloadTypeOK, Call, NoCall, BlobOf, SizeOf, DigestOf, LastByte, grantVars
  <1>5. CallsInv'
    BY <1>1, <1>3, <1>4 DEF CallsInv, SizeOf, DigestOf, LastByte, grantVars
  <1>6. \A f \in Files, b \in Blobs : UsedFor(f, b)' => UsedFor(f, b)
    BY <1>1, <1>3 DEF ReceiveStart, CallsInv, DownloadTypeOK, Call, NoCall, UsedFor, BlobOf, grantVars
  <1> QED
    BY <1>1, <1>2, <1>5, <1>6, CallStepKeepsInv

LEMMA AskRangeKeepsInv ==
  ASSUME DownloadInv, NEW c \in Calls, AskRange(c)
  PROVE  DownloadInv'
  <1> USE NothingIsGranted DEF DownloadInv
  <1>1. UNCHANGED <<upVars, grantVars, data, received, final>>
    BY DEF AskRange
  <1>2. calls' \in [Calls -> Call]
    <2>1. [calls[c] EXCEPT !.pc = "asked"] \in Call
      BY DEF Call, NoCall, Places, DownloadTypeOK
    <2> QED
      BY <2>1 DEF AskRange, DownloadTypeOK
  <1>3. \A d \in Calls : d # c => calls'[d] = calls[d]
    BY DEF AskRange, DownloadTypeOK
  <1>4. CallsInv!(c)'
    BY <1>1 DEF AskRange, CallsInv, DownloadTypeOK, Call, NoCall, BlobOf, SizeOf, DigestOf, LastByte, grantVars
  <1>5. CallsInv'
    BY <1>1, <1>3, <1>4 DEF CallsInv, SizeOf, DigestOf, LastByte, grantVars
  <1>6. \A f \in Files, b \in Blobs : UsedFor(f, b)' => UsedFor(f, b)
    BY <1>1, <1>3 DEF AskRange, CallsInv, DownloadTypeOK, Call, NoCall, UsedFor, BlobOf, grantVars
  <1> QED
    BY <1>1, <1>2, <1>5, <1>6, CallStepKeepsInv

LEMMA ServeRangeKeepsInv ==
  ASSUME DownloadInv, NEW c \in Calls, ServeRange(c)
  PROVE  DownloadInv'
  <1> USE NothingIsGranted DEF DownloadInv
  <1>1. UNCHANGED <<upVars, grantVars, data, received, final>>
    BY DEF ServeRange
  <1> DEFINE g == calls[c].grant
             content == SubSeq(blob[BlobOf(c)], calls[c].at + 1, LastByte(c) + 1)
             rec == [calls[c] EXCEPT !.pc = "answered", !.content = content]
  <1>7. /\ calls[c].pc = "asked" /\ calls[c] \in Call /\ calls[c].at \in Nat
        /\ g \in Grants /\ grants[g] \in Grant
    <2>1. calls[c].pc = "asked" /\ calls[c] \in Call
      BY DEF ServeRange, DownloadTypeOK
    <2>2. g \in Grants /\ grants[g].state # "absent"
      BY <2>1 DEF CallsInv
    <2>3. grants[g] \in Grant
      BY <2>2 DEF DownloadTypeOK, NoRow
    <2> QED
      BY <2>1, <2>2, <2>3 DEF Call
  <1>8. /\ blob[BlobOf(c)] = DigestOf(c) /\ blob[BlobOf(c)] \in Seq(Bytes)
        /\ Len(DigestOf(c)) = SizeOf(c)
    <2>1. Readable(g, calls[c].at, LastByte(c)) /\ BlobOf(c) \in Blobs
      BY <1>7 DEF ServeRange, BlobOf, Grant
    <2>2. blob[BlobOf(c)] # NoFile /\ meta[BlobOf(c)] # NoMeta /\ meta[BlobOf(c)].sha = DigestOf(c)
      BY <2>1 DEF Readable, Is, BlobOf, DigestOf
    <2>3. blob[BlobOf(c)] = meta[BlobOf(c)].sha
      BY <2>1, <2>2 DEF UploadInv, BlobIsDeclared
    <2>4. blob[BlobOf(c)] \in Seq(Bytes)
      BY <2>1, <2>2 DEF UploadInv, UploadTypeOK
    <2>5. Len(DigestOf(c)) = SizeOf(c)
      BY <1>7, NothingIsAFile DEF GrantsAgree, DigestOf, SizeOf, CallsInv
    <2> QED
      BY <2>2, <2>3, <2>4, <2>5
  <1>9. content \in Seq(Bytes)
    <2>1. SizeOf(c) \in Nat /\ calls[c].at < SizeOf(c)
      BY <1>7, SizesArePositive DEF SizeOf, Grant, CallsInv
    <2>2. LastByte(c) + 1 \in Nat /\ LastByte(c) + 1 <= SizeOf(c)
      BY <2>1, <1>7, RangesArePositive DEF LastByte
    <2> QED
      BY <2>1, <2>2, <1>7, <1>8
  <1>10. calls' = [calls EXCEPT ![c] = rec]
    BY DEF ServeRange
  <1>2. calls' \in [Calls -> Call]
    <2>1. rec \in Call
      BY <1>7, <1>9 DEF Call, Places
    <2> QED
      BY <2>1, <1>10 DEF DownloadTypeOK
  <1>3. \A d \in Calls : d # c => calls'[d] = calls[d]
    BY DEF ServeRange, DownloadTypeOK
  <1>4. CallsInv!(c)'
    <2>1. calls'[c] = rec
      BY <1>10 DEF DownloadTypeOK
    <2>2. /\ rec.pc = "answered" /\ rec.content = content /\ rec.grant = calls[c].grant
          /\ rec.file = calls[c].file /\ rec.at = calls[c].at /\ rec.checked = calls[c].checked
      BY <1>7 DEF Call
    <2>3. /\ SizeOf(c)' = SizeOf(c) /\ DigestOf(c)' = DigestOf(c) /\ LastByte(c)' = LastByte(c)
      BY <1>1, <2>1, <2>2 DEF SizeOf, DigestOf, LastByte, grantVars
    <2>4. rec # NoCall
      BY <2>2 DEF NoCall
    <2>5. CallsInv!(c)
      BY DEF CallsInv
    <2> HIDE DEF rec
    <2> QED
      BY <1>1, <1>7, <1>8, <2>1, <2>2, <2>3, <2>4, <2>5 DEF grantVars
  <1>5. CallsInv'
    BY <1>1, <1>3, <1>4 DEF CallsInv, SizeOf, DigestOf, LastByte, grantVars
  <1>6. \A f \in Files, b \in Blobs : UsedFor(f, b)' => UsedFor(f, b)
    BY <1>1, <1>3 DEF ServeRange, CallsInv, DownloadTypeOK, Call, NoCall, UsedFor, BlobOf, grantVars
  <1> QED
    BY <1>1, <1>2, <1>5, <1>6, CallStepKeepsInv

LEMMA CloseFileKeepsInv ==
  ASSUME DownloadInv, NEW c \in Calls, CloseFile(c)
  PROVE  DownloadInv'
  <1> USE NothingIsGranted DEF DownloadInv
  <1>1. UNCHANGED <<upVars, grantVars, data, received, final>>
    BY DEF CloseFile
  <1>2. calls' \in [Calls -> Call]
    <2>1. [calls[c] EXCEPT !.pc = "hash", !.file = NoFile] \in Call
      BY DEF Call, NoCall, Places, DownloadTypeOK
    <2> QED
      BY <2>1 DEF CloseFile, DownloadTypeOK
  <1>3. \A d \in Calls : d # c => calls'[d] = calls[d]
    BY DEF CloseFile, DownloadTypeOK
  <1>4. CallsInv!(c)'
    <2> DEFINE rec == [calls[c] EXCEPT !.pc = "hash", !.file = NoFile]
    <2>1. calls'[c] = rec /\ calls[c] \in Call
      BY DEF CloseFile, DownloadTypeOK
    <2>2. /\ rec.pc = "hash" /\ rec.file = NoFile /\ rec.checked = calls[c].checked
          /\ rec.grant = calls[c].grant
      BY <2>1 DEF Call
    <2>3. DigestOf(c)' = DigestOf(c)
      BY <1>1, <2>1, <2>2 DEF DigestOf, grantVars
    <2>4. rec # NoCall
      BY <2>2 DEF NoCall
    <2>5. CallsInv!(c)
      BY DEF CallsInv
    <2> HIDE DEF rec
    <2> QED
      BY <1>1, <2>1, <2>2, <2>3, <2>4, <2>5 DEF CloseFile, grantVars
  <1>5. CallsInv'
    BY <1>1, <1>3, <1>4 DEF CallsInv, SizeOf, DigestOf, LastByte, grantVars
  <1>6. \A f \in Files, b \in Blobs : UsedFor(f, b)' => UsedFor(f, b)
    BY <1>1, <1>3 DEF CloseFile, CallsInv, DownloadTypeOK, Call, NoCall, UsedFor, BlobOf, grantVars
  <1> QED
    BY <1>1, <1>2, <1>5, <1>6, CallStepKeepsInv

LEMMA CheckDigestKeepsInv ==
  ASSUME DownloadInv, NEW c \in Calls, CheckDigest(c)
  PROVE  DownloadInv'
  <1> USE NothingIsGranted DEF DownloadInv
  <1>1. UNCHANGED <<upVars, grantVars, data, received, final>>
    BY DEF CheckDigest
  <1>2. calls' \in [Calls -> Call]
    <2>3. received[BlobOf(c)] \in Files \cup {NoFile}
      BY DEF CheckDigest, DownloadTypeOK, CallsInv, GrantsAgree, UploadInv, UploadTypeOK, BlobOf
    <2>1. [calls[c] EXCEPT !.pc = "rename", !.checked = received[BlobOf(c)]] \in Call
      BY <2>3 DEF Call, NoCall, Places, DownloadTypeOK
    <2> QED
      BY <2>1 DEF CheckDigest, DownloadTypeOK
  <1>3. \A d \in Calls : d # c => calls'[d] = calls[d]
    BY DEF CheckDigest, DownloadTypeOK
  <1>4. CallsInv!(c)'
    <2> DEFINE rec == [calls[c] EXCEPT !.pc = "rename", !.checked = received[BlobOf(c)]]
    <2>1. calls'[c] = rec /\ calls[c] \in Call
      BY DEF CheckDigest, DownloadTypeOK
    <2>2. /\ rec.pc = "rename" /\ rec.file = calls[c].file /\ rec.checked = received[BlobOf(c)]
          /\ rec.grant = calls[c].grant
      BY <2>1 DEF Call
    <2>3. DigestOf(c)' = DigestOf(c)
      BY <1>1, <2>1, <2>2 DEF DigestOf, grantVars
    <2>4. rec # NoCall
      BY <2>2 DEF NoCall
    <2>5. CallsInv!(c)
      BY DEF CallsInv
    <2> HIDE DEF rec
    <2> QED
      BY <1>1, <2>1, <2>2, <2>3, <2>4, <2>5 DEF CheckDigest, grantVars
  <1>5. CallsInv'
    BY <1>1, <1>3, <1>4 DEF CallsInv, SizeOf, DigestOf, LastByte, grantVars
  <1>6. \A f \in Files, b \in Blobs : UsedFor(f, b)' => UsedFor(f, b)
    BY <1>1, <1>3 DEF CheckDigest, CallsInv, DownloadTypeOK, Call, NoCall, UsedFor, BlobOf, grantVars
  <1> QED
    BY <1>1, <1>2, <1>5, <1>6, CallStepKeepsInv

LEMMA ReceiveFailsKeepsInv ==
  ASSUME DownloadInv, NEW c \in Calls, ReceiveFails(c)
  PROVE  DownloadInv'
  <1> USE NothingIsGranted DEF DownloadInv
  <1>1. UNCHANGED <<upVars, grantVars, data, received, final>>
    BY DEF ReceiveFails
  <1>2. calls' \in [Calls -> Call]
    BY DEF ReceiveFails, DownloadTypeOK, Call, NoCall, Places
  <1>3. \A d \in Calls : d # c => calls'[d] = calls[d]
    BY DEF ReceiveFails, DownloadTypeOK
  <1>4. CallsInv!(c)'
    BY <1>1 DEF ReceiveFails, CallsInv, DownloadTypeOK, Call, NoCall, BlobOf, SizeOf, DigestOf, LastByte, grantVars
  <1>5. CallsInv'
    BY <1>1, <1>3, <1>4 DEF CallsInv, SizeOf, DigestOf, LastByte, grantVars
  <1>6. \A f \in Files, b \in Blobs : UsedFor(f, b)' => UsedFor(f, b)
    BY <1>1, <1>3 DEF ReceiveFails, CallsInv, DownloadTypeOK, Call, NoCall, UsedFor, BlobOf, grantVars
  <1> QED
    BY <1>1, <1>2, <1>5, <1>6, CallStepKeepsInv

\* A step that neither moves nor shortens a file keeps what the other calls rely on.
LEMMA OtherCallsKeep ==
  ASSUME DownloadInv, UNCHANGED grants, NEW d \in Calls, calls'[d] = calls[d],
         \A f \in Files : \A b \in Blobs : UsedFor(f, b) =>
             /\ Len(data[f]) <= Len(data'[f])
             /\ \A g \in Grants : grants[g].state # "absent" /\ grants[g].blob = b
                                 /\ data[f] = grants[g].digest => data'[f] = data[f],
         data' \in [Files -> Seq(Bytes)]
  PROVE  CallsInv!(d)'
  <1> USE NothingIsGranted DEF DownloadInv
  <1>1. CallsInv!(d) /\ calls[d] \in Call
    BY DEF CallsInv, DownloadTypeOK
  <1>2. /\ SizeOf(d)' = SizeOf(d) /\ DigestOf(d)' = DigestOf(d) /\ LastByte(d)' = LastByte(d)
    BY DEF SizeOf, DigestOf, LastByte
  <1>3. CASE calls[d].pc = "idle"
    BY <1>1, <1>3 DEF NoCall
  <1>4. CASE calls[d].pc # "idle"
    <2>1. calls[d].grant \in Grants /\ grants[calls[d].grant].state # "absent" /\ BlobOf(d) \in Blobs
      BY <1>1, <1>4 DEF GrantsAgree, UploadInv, UploadTypeOK, BlobOf
    <2>2. calls[d].file # NoFile => /\ calls[d].file \in Files /\ UsedFor(calls[d].file, BlobOf(d))
                                    /\ data[calls[d].file] \in Seq(Bytes)
                                    /\ data'[calls[d].file] \in Seq(Bytes)
      BY <1>1, <1>4, <2>1 DEF Call, UsedFor, DownloadTypeOK
    <2>3. calls[d].checked # NoFile => calls[d].checked \in Files /\ UsedFor(calls[d].checked, BlobOf(d))
      BY <1>1, <1>4, <2>1 DEF Call, UsedFor
    <2>4. calls[d].pc \in {"loop", "asked", "answered"} => calls[d].at <= Len(data'[calls[d].file])
      <3> SUFFICES ASSUME calls[d].pc \in {"loop", "asked", "answered"}
                   PROVE  calls[d].at <= Len(data'[calls[d].file])
        OBVIOUS
      <3>1. calls[d].at <= Len(data[calls[d].file]) /\ Len(data[calls[d].file]) <= Len(data'[calls[d].file])
        BY <1>1, <2>1, <2>2
      <3>2. calls[d].at \in Nat /\ Len(data[calls[d].file]) \in Nat /\ Len(data'[calls[d].file]) \in Nat
        BY <1>1, <2>2, LenProperties DEF Call
      <3> QED
        BY <3>1, <3>2
    <2>5. calls[d].pc = "rename" => data'[calls[d].checked] = DigestOf(d)
      BY <1>1, <2>1, <2>3 DEF DigestOf, BlobOf
    <2> QED
      BY <1>1, <1>2, <1>4, <2>4, <2>5
  <1> QED
    BY <1>3, <1>4

LEMMA OpenPartKeepsInv ==
  ASSUME DownloadInv, NEW c \in Calls, OpenPart(c)
  PROVE  DownloadInv'
  <1> USE NothingIsGranted DEF DownloadInv
  <1> DEFINE b == BlobOf(c)
             Opened(f, bytes) == [calls[c] EXCEPT !.pc = "loop", !.file = f, !.at = Len(bytes)]
  <1>1. UNCHANGED <<upVars, grantVars, final>>
    BY DEF OpenPart
  <1>2. /\ calls[c].pc = "open" /\ calls[c] \in Call /\ calls[c].grant \in Grants
        /\ grants[calls[c].grant].state # "absent" /\ b \in Blobs /\ calls[c].checked = NoFile
        /\ SizeOf(c) \in Nat
    <2>1. calls[c].pc = "open" /\ calls[c] \in Call
      BY DEF OpenPart, DownloadTypeOK
    <2>2. calls[c].grant \in Grants /\ grants[calls[c].grant].state # "absent" /\ calls[c].checked = NoFile
      BY <2>1 DEF CallsInv
    <2>3. grants[calls[c].grant] \in Grant
      BY <2>2 DEF DownloadTypeOK, NoRow
    <2> QED
      BY <2>1, <2>2, <2>3, SizesArePositive DEF Grant, BlobOf, SizeOf
  <1>3. PICK f \in Files :
          /\ calls' = [calls EXCEPT ![c] = Opened(f, data'[f])]
          /\ received' = [received EXCEPT ![b] = f]
          /\ data'[f] \in Seq(Bytes) /\ Len(data'[f]) <= SizeOf(c)
          /\ data' \in [Files -> Seq(Bytes)]
          /\ \A h \in Files : h # f => data'[h] = data[h]
          /\ \/ received[b] = f /\ data'[f] = data[f]
             \/ (\A a \in Blobs : ~UsedFor(f, a)) /\ data'[f] = << >>
    <2>1. CASE received[b] # NoFile
      <3>1. /\ received[b] \in Files /\ data' = data /\ received' = received
            /\ calls' = [calls EXCEPT ![c] = Opened(received[b], data[received[b]])]
            /\ Len(data[received[b]]) <= SizeOf(c)
        BY <1>2, <2>1 DEF OpenPart, DownloadTypeOK
      <3>2. received' = [received EXCEPT ![b] = received[b]]
        BY <3>1 DEF DownloadTypeOK
      <3> QED
        BY <3>1, <3>2 DEF DownloadTypeOK
    <2>2. CASE received[b] = NoFile
      <3>1. PICK f \in Files : /\ \A a \in Blobs : ~UsedFor(f, a)
                               /\ data' = [data EXCEPT ![f] = << >>]
                               /\ received' = [received EXCEPT ![b] = f]
                               /\ calls' = [calls EXCEPT ![c] = Opened(f, << >>)]
        BY <2>2 DEF OpenPart
      <3>2. << >> \in Seq(Bytes) /\ Len(<< >>) = 0 /\ data'[f] = << >>
        BY <3>1, EmptySeq DEF DownloadTypeOK
      <3>3. /\ data' \in [Files -> Seq(Bytes)]
            /\ \A h \in Files : h # f => data'[h] = data[h]
        BY <3>1, <3>2 DEF DownloadTypeOK
      <3>4. Len(data'[f]) <= SizeOf(c)
        BY <3>2, <1>2
      <3>5. calls' = [calls EXCEPT ![c] = Opened(f, data'[f])]
        BY <3>1, <3>2
      <3> QED
        BY <3>1, <3>2, <3>3, <3>4, <3>5
    <2> QED
      BY <2>1, <2>2
  <1> DEFINE rec == Opened(f, data'[f])
  <1>4. /\ rec \in Call /\ rec.pc = "loop" /\ rec.file = f /\ rec.at = Len(data'[f])
        /\ rec.grant = calls[c].grant /\ rec.checked = NoFile
    BY <1>2, <1>3, LenProperties DEF Call, Places
  <1>5. calls'[c] = rec /\ \A d \in Calls : d # c => calls'[d] = calls[d]
    BY <1>3 DEF DownloadTypeOK
  <1> HIDE DEF rec
  <1>6. calls' \in [Calls -> Call]
    BY <1>3, <1>4 DEF DownloadTypeOK, rec
  <1>7. DownloadTypeOK' /\ GrantsEndWithContact'
    BY <1>1, <1>3, <1>6 DEF DownloadTypeOK, GrantsEndWithContact, grantVars
  <1>8. GrantsAgree' /\ UploadInv'
    BY <1>1, UploadStepInv DEF GrantsAgree, grantVars, upVars
  <1>9. \A d \in Calls : BlobOf(d)' = BlobOf(d)
    BY <1>1, <1>4, <1>5 DEF BlobOf, grantVars
  <1>10. \A h \in Files, a \in Blobs : UsedFor(h, a)' => UsedFor(h, a) \/ (h = f /\ a = b)
    BY <1>1, <1>2, <1>3, <1>4, <1>5, <1>9 DEF UsedFor, DownloadTypeOK
  <1>11. FilesInv'
    <2> SUFFICES ASSUME NEW h \in Files, NEW a \in Blobs, UsedFor(h, a)'
                 PROVE  /\ \A other \in Blobs : UsedFor(h, other)' => other = a
                        /\ \E g \in Grants : grants'[g].state # "absent" /\ grants'[g].blob = a
      BY DEF FilesInv
    <2>1. received[b] = f => UsedFor(f, b)
      BY DEF UsedFor
    <2>2. grants[calls[c].grant].blob = b
      BY DEF BlobOf
    <2>3. CASE h # f
      BY <1>1, <1>10, <2>3 DEF FilesInv, grantVars
    <2>4. CASE h = f
      <3>1. UsedFor(f, a) => a = b
        BY <1>2, <1>3, <2>1 DEF FilesInv
      <3>2. a = b /\ \A other \in Blobs : UsedFor(f, other)' => other = b
        BY <1>2, <1>3, <1>10, <2>1, <2>4, <3>1 DEF FilesInv
      <3> QED
        BY <1>1, <1>2, <2>2, <2>4, <3>2 DEF grantVars
    <2> QED
      BY <2>3, <2>4
  <1>12. FilesArePrefixes'
    <2> SUFFICES ASSUME NEW h \in Files, NEW a \in Blobs, NEW g \in Grants,
                        UsedFor(h, a)', grants'[g].state # "absent", grants'[g].blob = a
                 PROVE  Begins(data'[h], grants'[g].digest)
      BY DEF FilesArePrefixes
    <2>1. grants' = grants
      BY <1>1 DEF grantVars
    <2>2. CASE UsedFor(h, a) /\ data'[h] = data[h]
      BY <2>1, <2>2 DEF FilesArePrefixes
    <2>3. CASE data'[h] = << >>
      <3>1. grants[g] \in Grant /\ grants[g].digest \in Seq(Bytes)
        BY <2>1, DigestsAreOfContents DEF DownloadTypeOK, NoRow, Grant
      <3>2. Len(<< >>) = 0 /\ Len(grants[g].digest) \in Nat
        BY <3>1, LenProperties, EmptySeq
      <3> QED
        BY <2>1, <2>3, <3>2 DEF Begins
    <2>4. received[b] = f => UsedFor(f, b)
      BY DEF UsedFor
    <2> QED
      BY <1>3, <1>10, <2>2, <2>3, <2>4
  <1>13. CallsInv'
    <2> SUFFICES ASSUME NEW d \in Calls
                 PROVE  CallsInv!(d)'
      BY DEF CallsInv
    <2>1. CASE d = c
      <3>1. SizeOf(c)' = SizeOf(c)
        BY <1>1, <1>4, <1>5 DEF SizeOf, grantVars
      <3>2. rec # NoCall
        BY <1>4 DEF NoCall
      <3>3. Len(data'[f]) \in Nat
        BY <1>3, LenProperties
      <3> QED
        BY <1>1, <1>2, <1>3, <1>4, <1>5, <2>1, <3>1, <3>2, <3>3 DEF grantVars
    <2>2. CASE d # c
      <3>1. \A h \in Files : \A a \in Blobs : UsedFor(h, a) => data'[h] = data[h]
        BY <1>3
      <3>2. \A h \in Files : Len(data[h]) \in Nat
        BY LenProperties DEF DownloadTypeOK
      <3> QED
        BY <1>1, <1>3, <1>5, <2>2, <3>1, <3>2, OtherCallsKeep DEF grantVars
    <2> QED
      BY <2>1, <2>2
  <1> QED
    BY <1>7, <1>8, <1>11, <1>12, <1>13

\* The bytes that StoreRange writes are bytes of the content at their place.
LEMMA StoreRangeWrites ==
  ASSUME DownloadInv, NEW c \in Calls, StoreRange(c)
  PROVE  /\ calls[c].file \in Files /\ BlobOf(c) \in Blobs /\ UsedFor(calls[c].file, BlobOf(c))
         /\ \E w \in Seq(Bytes), n \in Nat :
               /\ data' = [data EXCEPT ![calls[c].file] = w]
               /\ Begins(w, DigestOf(c)) /\ Len(data[calls[c].file]) <= Len(w)
               /\ data[calls[c].file] = DigestOf(c) => w = DigestOf(c)
               /\ calls[c].at + n <= Len(w) /\ calls[c].at + n <= SizeOf(c)
               /\ \/ calls' = [calls EXCEPT ![c] = NoCall]
                  \/ calls' = [calls EXCEPT ![c] =
                                 [@ EXCEPT !.pc = "loop", !.at = calls[c].at + n, !.content = << >>]]
  <1> USE NothingIsGranted DEF DownloadInv
  <1> DEFINE f == calls[c].file
             at == calls[c].at
             content == calls[c].content
             digest == DigestOf(c)
  <1>1. /\ calls[c].pc = "answered" /\ calls[c] \in Call /\ at \in Nat
        /\ calls[c].grant \in Grants /\ grants[calls[c].grant].state # "absent"
    BY DEF StoreRange, DownloadTypeOK, Call, CallsInv
  <1>2. grants[calls[c].grant] \in Grant
    BY <1>1 DEF DownloadTypeOK, NoRow
  <1>3. /\ f \in Files /\ BlobOf(c) \in Blobs /\ UsedFor(f, BlobOf(c))
        /\ data[f] \in Seq(Bytes) /\ digest \in Seq(Bytes) /\ SizeOf(c) \in Nat
    BY <1>1, <1>2, DigestsAreOfContents, SizesArePositive
    DEF CallsInv, Call, UsedFor, DownloadTypeOK, Grant, BlobOf, DigestOf, SizeOf
  <1>4. /\ at <= Len(data[f]) /\ at < SizeOf(c)
        /\ content = SubSeq(digest, at + 1, LastByte(c) + 1) /\ Len(digest) = SizeOf(c)
    BY <1>1 DEF CallsInv, GrantsAgree, DigestOf, SizeOf
  <1>5. Begins(data[f], digest)
    BY <1>1, <1>3 DEF FilesArePrefixes, BlobOf, DigestOf
  <1>6. LastByte(c) \in Nat /\ at <= LastByte(c) /\ LastByte(c) < SizeOf(c)
    BY <1>1, <1>3, <1>4, RangesArePositive DEF LastByte
  <1> HIDE DEF f, at, digest
  <1>7. /\ Len(content) = LastByte(c) - at + 1
        /\ content \in Seq(Bytes)
        /\ \A i \in 1..Len(content) : content[i] = digest[at + i]
    BY <1>1, <1>3, <1>4, <1>6
  <1>8. PICK n \in 0..Len(content) :
          /\ data' = [data EXCEPT ![f] = WriteAt(data[f], at, SubSeq(content, 1, n))]
          /\ calls' = IF n = Len(content)
                      THEN [calls EXCEPT ![c] = [@ EXCEPT !.pc = "loop", !.at = calls[c].at + n, !.content = << >>]]
                      ELSE [calls EXCEPT ![c] = NoCall]
    BY <1>3 DEF StoreRange, DownloadTypeOK, f, at
  <1> HIDE DEF content
  <1> DEFINE bytes == SubSeq(content, 1, n)
             w == WriteAt(data[f], at, bytes)
  <1>9. n \in Nat /\ n <= Len(content) /\ Len(content) \in Nat
    BY <1>7, LenProperties
  <1>10. bytes \in Seq(Bytes) /\ Len(bytes) = n /\ \A i \in 1..n : bytes[i] = content[i]
    BY <1>7, <1>9
  <1> HIDE DEF bytes
  <1>11. \A i \in 1..Len(bytes) : bytes[i] = digest[at + i]
    BY <1>7, <1>9, <1>10
  <1>12. at + Len(bytes) <= Len(digest) /\ at + n <= SizeOf(c) /\ at \in Nat
    <2>1. at \in Nat /\ SizeOf(c) \in Nat /\ LastByte(c) \in Nat /\ n <= LastByte(c) - at + 1
      BY <1>1, <1>3, <1>6, <1>7, <1>9
    <2>2. at + n <= SizeOf(c)
      BY <2>1, <1>6, <1>9
    <2> QED
      BY <2>1, <2>2, <1>4, <1>10
  <1>13. /\ w \in Seq(Bytes) /\ Begins(w, digest) /\ Len(data[f]) <= Len(w)
         /\ at + Len(bytes) <= Len(w) /\ (data[f] = digest => w = digest)
    <2>1. data[f] \in Seq(Bytes) /\ digest \in Seq(Bytes) /\ at <= Len(data[f]) /\ bytes \in Seq(Bytes)
      BY <1>3, <1>4, <1>10
    <2> QED
      BY <2>1, <1>5, <1>11, <1>12, BeginsWrite, SMTT(60)
  <1> HIDE DEF w
  <1>14. data' = [data EXCEPT ![f] = w]
    BY <1>8 DEF w, bytes
  <1>15. at + n <= Len(w)
    BY <1>10, <1>13
  <1> QED
    BY <1>3, <1>8, <1>9, <1>12, <1>13, <1>14, <1>15 DEF f, at, digest

\* The state of a call after it has written n bytes.
LEMMA NextRange ==
  ASSUME NEW r \in Call, NEW n \in Nat
  PROVE  LET m == [r EXCEPT !.pc = "loop", !.at = r.at + n, !.content = << >>]
         IN  /\ m \in Call /\ m.pc = "loop" /\ m.file = r.file /\ m.at = r.at + n
             /\ m.grant = r.grant /\ m.checked = r.checked
  <1> DEFINE m == [r EXCEPT !.pc = "loop", !.at = r.at + n, !.content = << >>]
  <1>1. r.at \in Nat /\ << >> \in Seq(Bytes)
    BY EmptySeq DEF Call
  <1>2. r.at + n \in Nat
    BY <1>1
  <1>3. m.pc = "loop" /\ m.file = r.file /\ m.grant = r.grant /\ m.checked = r.checked /\ m.at = r.at + n
    BY DEF Call
  <1>4. m \in Call
    BY <1>1, <1>2 DEF Call, Places
  <1> QED
    BY <1>3, <1>4

LEMMA StoreRangeKeepsInv ==
  ASSUME DownloadInv, NEW c \in Calls, StoreRange(c)
  PROVE  DownloadInv'
  <1> USE NothingIsGranted DEF DownloadInv
  <1> DEFINE f == calls[c].file
             b == BlobOf(c)
  <1>1. f \in Files /\ b \in Blobs /\ UsedFor(f, b)
    BY StoreRangeWrites
  <1>2. PICK w \in Seq(Bytes), n \in Nat :
               /\ data' = [data EXCEPT ![calls[c].file] = w]
               /\ Begins(w, DigestOf(c)) /\ Len(data[calls[c].file]) <= Len(w)
               /\ data[calls[c].file] = DigestOf(c) => w = DigestOf(c)
               /\ calls[c].at + n <= Len(w) /\ calls[c].at + n <= SizeOf(c)
               /\ \/ calls' = [calls EXCEPT ![c] = NoCall]
                  \/ calls' = [calls EXCEPT ![c] = [@ EXCEPT !.pc = "loop", !.at = calls[c].at + n, !.content = << >>]]
    BY StoreRangeWrites
  <1> DEFINE more == [calls[c] EXCEPT !.pc = "loop", !.at = calls[c].at + n, !.content = << >>]
  <1>3. UNCHANGED <<upVars, grantVars, received, final>>
    BY DEF StoreRange
  <1>4. /\ calls[c].pc = "answered" /\ calls[c] \in Call /\ calls[c].grant \in Grants
        /\ grants[calls[c].grant].state # "absent" /\ calls[c].checked = NoFile /\ f # NoFile
    BY DEF StoreRange, DownloadTypeOK, CallsInv
  <1>5. /\ more \in Call /\ more.pc = "loop" /\ more.file = f /\ more.at = calls[c].at + n
        /\ more.grant = calls[c].grant /\ more.checked = NoFile
    BY <1>2, <1>4, NextRange
  <1>6. NoCall \in Call /\ NoCall.pc = "idle"
    BY EmptySeq DEF NoCall, Call, Places
  <1>7. calls'[c] \in {NoCall, more} /\ \A d \in Calls : d # c => calls'[d] = calls[d]
    <2>1. calls' = [calls EXCEPT ![c] = NoCall] \/ calls' = [calls EXCEPT ![c] = more]
      BY <1>2
    <2> HIDE DEF more
    <2> QED
      BY <2>1 DEF DownloadTypeOK
  <1>8. data'[f] = w /\ \A h \in Files : h # f => data'[h] = data[h]
    BY <1>1, <1>2 DEF DownloadTypeOK
  <1>9. data' \in [Files -> Seq(Bytes)] /\ calls' \in [Calls -> Call]
    <2>1. calls' = [calls EXCEPT ![c] = NoCall] \/ calls' = [calls EXCEPT ![c] = more]
      BY <1>2
    <2> HIDE DEF more
    <2> QED
      BY <2>1, <1>2, <1>5, <1>6 DEF DownloadTypeOK
  <1> HIDE DEF more
  <1>10. DownloadTypeOK' /\ GrantsEndWithContact'
    BY <1>3, <1>9 DEF DownloadTypeOK, GrantsEndWithContact, grantVars
  <1>11. GrantsAgree' /\ UploadInv'
    BY <1>3, UploadStepInv DEF GrantsAgree, grantVars, upVars
  <1>12. \A h \in Files, a \in Blobs : UsedFor(h, a)' => UsedFor(h, a)
    BY <1>3, <1>4, <1>5, <1>6, <1>7 DEF UsedFor, BlobOf, grantVars
  <1>13. FilesInv'
    BY <1>3, <1>12 DEF FilesInv, grantVars
  <1>14. \A g \in Grants : grants[g].state # "absent" /\ grants[g].blob = b => grants[g].digest = DigestOf(c)
    BY <1>4 DEF GrantsAgree, DigestOf, BlobOf
  <1>15. FilesArePrefixes'
    <2> SUFFICES ASSUME NEW h \in Files, NEW a \in Blobs, NEW g \in Grants,
                        UsedFor(h, a)', grants'[g].state # "absent", grants'[g].blob = a
                 PROVE  Begins(data'[h], grants'[g].digest)
      BY DEF FilesArePrefixes
    <2>1. grants' = grants /\ UsedFor(h, a)
      BY <1>3, <1>12 DEF grantVars
    <2>2. CASE h = f
      <3>1. a = b
        BY <1>1, <2>1, <2>2 DEF FilesInv
      <3> QED
        BY <1>2, <1>8, <1>14, <2>1, <2>2, <3>1
    <2>3. CASE h # f
      BY <1>8, <2>1, <2>3 DEF FilesArePrefixes
    <2> QED
      BY <2>2, <2>3
  <1>16. CallsInv'
    <2> SUFFICES ASSUME NEW d \in Calls
                 PROVE  CallsInv!(d)'
      BY DEF CallsInv
    <2>1. CASE d = c /\ calls'[c] = NoCall
      BY <2>1 DEF NoCall
    <2>2. CASE d = c /\ calls'[c] = more
      <3>1. SizeOf(c)' = SizeOf(c)
        BY <1>3, <1>5, <2>2 DEF SizeOf, grantVars
      <3>2. more # NoCall
        BY <1>5, <1>6
      <3> QED
        BY <1>2, <1>3, <1>4, <1>5, <1>8, <2>2, <3>1, <3>2 DEF grantVars
    <2>3. CASE d # c
      <3>1. \A h \in Files : Len(data[h]) \in Nat
        BY LenProperties DEF DownloadTypeOK
      <3>2. ASSUME NEW h \in Files, NEW a \in Blobs, UsedFor(h, a)
            PROVE  /\ Len(data[h]) <= Len(data'[h])
                   /\ \A g \in Grants : grants[g].state # "absent" /\ grants[g].blob = a
                                       /\ data[h] = grants[g].digest => data'[h] = data[h]
        <4>1. CASE h # f
          BY <1>8, <3>1, <4>1
        <4>2. CASE h = f
          <5>1. a = b
            BY <1>1, <3>2, <4>2 DEF FilesInv
          <5> QED
            BY <1>2, <1>8, <1>14, <4>2, <5>1
        <4> QED
          BY <4>1, <4>2
      <3> QED
        BY <1>3, <1>7, <1>9, <2>3, <3>2, OtherCallsKeep DEF grantVars
    <2> QED
      BY <1>7, <2>1, <2>2, <2>3
  <1> QED
    BY <1>10, <1>11, <1>13, <1>15, <1>16

LEMMA RenamePartKeepsInv ==
  ASSUME DownloadInv, NEW c \in Calls, RenamePart(c)
  PROVE  DownloadInv'
  <1> USE NothingIsGranted DEF DownloadInv
  <1> DEFINE b == BlobOf(c)
  <1>1. UNCHANGED <<upVars, grantVars, data>>
    BY DEF RenamePart
  <1>2. /\ calls[c].pc = "rename" /\ calls[c].grant \in Grants
        /\ grants[calls[c].grant].state # "absent" /\ b \in Blobs
    BY DEF RenamePart, CallsInv, GrantsAgree, UploadInv, UploadTypeOK, BlobOf
  <1>3. /\ received[b] \in Files /\ UsedFor(received[b], b)
        /\ final' = [final EXCEPT ![b] = received[b]]
        /\ received' = [received EXCEPT ![b] = NoFile]
    BY <1>2 DEF RenamePart, DownloadTypeOK, UsedFor
  <1>4. NoCall \in Call /\ NoCall.pc = "idle"
    BY EmptySeq DEF NoCall, Call, Places
  <1>5. calls'[c] = NoCall /\ calls' \in [Calls -> Call] /\ \A d \in Calls : d # c => calls'[d] = calls[d]
    BY <1>4 DEF RenamePart, DownloadTypeOK
  <1>6. DownloadTypeOK' /\ GrantsEndWithContact'
    BY <1>1, <1>3, <1>5 DEF DownloadTypeOK, GrantsEndWithContact, grantVars
  <1>7. GrantsAgree' /\ UploadInv'
    BY <1>1, UploadStepInv DEF GrantsAgree, grantVars, upVars
  <1>8. \A h \in Files, a \in Blobs : UsedFor(h, a)' => UsedFor(h, a)
    BY <1>1, <1>2, <1>3, <1>4, <1>5 DEF UsedFor, BlobOf, grantVars, DownloadTypeOK
  <1>9. FilesInv'
    BY <1>1, <1>8 DEF FilesInv, grantVars
  <1>10. FilesArePrefixes'
    BY <1>1, <1>8 DEF FilesArePrefixes, grantVars
  <1>11. CallsInv'
    <2> SUFFICES ASSUME NEW d \in Calls
                 PROVE  CallsInv!(d)'
      BY DEF CallsInv
    <2>1. CASE d = c
      BY <1>5, <2>1 DEF NoCall
    <2>2. CASE d # c
      BY <1>1, <1>5, <2>2 DEF CallsInv, SizeOf, DigestOf, LastByte, grantVars
    <2> QED
      BY <2>1, <2>2
  <1> QED
    BY <1>6, <1>7, <1>9, <1>10, <1>11

LEMMA DownloadInitInv == DownloadInit => DownloadInv
  <1> SUFFICES ASSUME DownloadInit
               PROVE  DownloadInv
    OBVIOUS
  <1>1. UploadInv
    BY UploadInitInv DEF DownloadInit
  <1>2. DownloadTypeOK
    BY EmptySeq DEF DownloadInit, DownloadTypeOK, NoCall, Call, Places
  <1>3. \A f \in Files, b \in Blobs : ~UsedFor(f, b)
    BY NothingIsGranted DEF DownloadInit, UsedFor, NoCall
  <1>4. GrantsAgree /\ GrantsEndWithContact
    BY DEF DownloadInit, GrantsAgree, GrantsEndWithContact, NoRow
  <1>5. FilesInv /\ FilesArePrefixes
    BY <1>3 DEF FilesInv, FilesArePrefixes
  <1>6. CallsInv
    BY DEF DownloadInit, CallsInv, NoCall
  <1> QED
    BY <1>1, <1>2, <1>4, <1>5, <1>6 DEF DownloadInv

LEMMA DownloadStepInv ==
  ASSUME DownloadInv, [DownloadNext]_downVars
  PROVE  DownloadInv'
  <1>1. CASE UploadNext /\ UNCHANGED <<grantVars, recvVars>>
    BY <1>1, UploadStepKeepsDownloadInv
  <1>2. CASE UNCHANGED downVars
    BY <1>2, UploadStepKeepsDownloadInv DEF downVars
  <1>3. CASE GrantNext
    BY <1>3, GrantCheckKeepsInv, GrantFailsKeepsInv, CreateGrantKeepsInv, ExpireGrantKeepsInv,
       RevokeContactKeepsInv, RevokeGrantsKeepsInv, RevokeCutOffKeepsInv, PairAgainKeepsInv
    DEF GrantNext
  <1>4. CASE ReceiveNext
    BY <1>4, ReceiveStartKeepsInv, OpenPartKeepsInv, AskRangeKeepsInv, ServeRangeKeepsInv,
       StoreRangeKeepsInv, CloseFileKeepsInv, CheckDigestKeepsInv, RenamePartKeepsInv,
       ReceiveFailsKeepsInv
    DEF ReceiveNext
  <1> QED
    BY <1>1, <1>2, <1>3, <1>4 DEF DownloadNext

\* The invariant of the attachment store, of grants and of downloads holds for any
\* number of blobs, grants and overlapping Receive calls, and any sizes.
THEOREM DownloadInvariant == DownloadSpec => []DownloadInv
  BY DownloadInitInv, DownloadStepInv, PTL DEF DownloadSpec

\* A blob that can be read is the declared content, wherever PutChunk, Complete or
\* Cancel were cut off and however the calls for one upload overlap.
THEOREM BlobsAreDeclared == DownloadSpec => []BlobIsDeclared
  <1>1. DownloadInv => BlobIsDeclared
    BY DEF DownloadInv, UploadInv
  <1> QED
    BY <1>1, DownloadInvariant, PTL

\* Every upload that was not cut off in Init, Complete or Cancel can be resumed from
\* its metadata.
THEOREM UploadsAreResumable == DownloadSpec => []UploadIsResumable
  <1>1. DownloadInv => UploadIsResumable
    BY DEF DownloadInv, UploadInv
  <1> QED
    BY <1>1, DownloadInvariant, PTL

\* Downloads never mix up bytes: whatever a Receive call left on disk begins like
\* the granted content.
THEOREM ReceivedFilesArePrefixes == DownloadSpec => []FilesArePrefixes
  <1>1. DownloadInv => FilesArePrefixes
    BY DEF DownloadInv
  <1> QED
    BY <1>1, DownloadInvariant, PTL

\* A finished revocation leaves no live grant but one created by an overlapping
\* grantAttachment call.
THEOREM RevocationEndsGrants == DownloadSpec => []GrantsEndWithContact
  <1>1. DownloadInv => GrantsEndWithContact
    BY DEF DownloadInv
  <1> QED
    BY <1>1, DownloadInvariant, PTL

\* No call changes an acknowledged byte of an upload.
THEOREM AcknowledgedBytesAreKept == DownloadSpec => AcknowledgedBytesKept
  <1> DEFINE Kept == \A b \in Blobs :
               /\ Is(b, "uploading") /\ part[b] # NoFile
               /\ meta'[b] # NoMeta /\ part'[b] # NoFile
               => \A i \in 1..meta[b].received : part'[b][i] = part[b][i]
  <1>1. ASSUME DownloadInv, [DownloadNext]_downVars
        PROVE  [Kept]_upVars
    <2>1. [UploadNext]_upVars
      BY <1>1 DEF DownloadNext, downVars, GrantNext, ReceiveNext, GrantCheck, GrantFails, CreateGrant,
         ExpireGrant, RevokeContact, RevokeGrants, RevokeCutOff, PairAgain, ReceiveStart, OpenPart,
         AskRange, ServeRange, StoreRange, CloseFile, CheckDigest, RenamePart, ReceiveFails
    <2> QED
      BY <1>1, <2>1, UploadStepKeepsBytes DEF DownloadInv
  <1> QED
    BY <1>1, DownloadInvariant, PTL DEF DownloadSpec, AcknowledgedBytesKept

\* A complete file at the final path stays complete unless a rename takes another
\* file than the one its call has checked, which needs three overlapping calls.
THEOREM CompleteFilesAreKept == DownloadSpec => CompleteFileKept
  <1> DEFINE Kept == \A g \in Grants : grants[g].state # "absent" /\ HasFinal(g) =>
                 \/ HasFinal(g)'
                 \/ \E c \in Calls : /\ calls[c].pc = "rename" /\ calls'[c].pc = "idle"
                                     /\ calls[c].checked # received[grants[g].blob]
  <1>1. ASSUME DownloadInv, [DownloadNext]_downVars
        PROVE  [Kept]_downVars
    <2> SUFFICES ASSUME DownloadNext, NEW g \in Grants, grants[g].state # "absent", HasFinal(g)
                 PROVE  \/ HasFinal(g)'
                        \/ \E c \in Calls : /\ calls[c].pc = "rename" /\ calls'[c].pc = "idle"
                                            /\ calls[c].checked # received[grants[g].blob]
      BY <1>1
    <2> USE <1>1, NothingIsGranted DEF DownloadInv
    <2> DEFINE b == grants[g].blob
    <2>1. b \in Blobs /\ final[b] \in Files /\ UsedFor(final[b], b)
      BY DEF GrantsAgree, UploadInv, UploadTypeOK, HasFinal, DownloadTypeOK, UsedFor
    <2>2. grants'[g].blob = b /\ grants'[g].digest = grants[g].digest
      <3>1. grants[g] \in Grant
        BY DEF DownloadTypeOK, NoRow
      <3>2. CASE UNCHANGED grants
        BY <3>2
      <3>3. CASE \E h \in Grants, a \in Blobs : CreateGrant(h, a)
        <4>1. PICK h \in Grants, a \in Blobs : CreateGrant(h, a)
          BY <3>3
        <4>2. h # g /\ grants'[g] = grants[g]
          BY <4>1 DEF CreateGrant, DownloadTypeOK
        <4> QED
          BY <4>2
      <3>4. CASE \E h \in Grants : ExpireGrant(h)
        <4>1. PICK h \in Grants : grants' = [grants EXCEPT ![h].state = "expired"]
          BY <3>4 DEF ExpireGrant
        <4>2. grants'[g] = grants[g] \/ grants'[g] = [grants[g] EXCEPT !.state = "expired"]
          BY <4>1 DEF DownloadTypeOK
        <4> QED
          BY <3>1, <4>2 DEF Grant
      <3>5. CASE RevokeGrants
        <4>1. grants'[g] = grants[g] \/ grants'[g] = [grants[g] EXCEPT !.state = "revoked"]
          BY <3>5 DEF RevokeGrants
        <4> QED
          BY <3>1, <4>1 DEF Grant
      <3> QED
        BY <3>2, <3>3, <3>4, <3>5 DEF DownloadNext, GrantNext, ReceiveNext, GrantCheck, GrantFails,
           RevokeContact, RevokeCutOff, PairAgain, ReceiveStart, OpenPart, AskRange, ServeRange,
           StoreRange, CloseFile, CheckDigest, RenamePart, ReceiveFails, grantVars
    <2>3. CASE UNCHANGED <<data, final>>
      BY <2>2, <2>3 DEF HasFinal
    <2>4. CASE \E c \in Calls : OpenPart(c)
      <3>1. PICK c \in Calls : OpenPart(c)
        BY <2>4
      <3>2. final' = final
        BY <3>1 DEF OpenPart
      <3>3. data' = data \/ \E f \in Files : ~UsedFor(f, b) /\ data' = [data EXCEPT ![f] = << >>]
        BY <2>1, <3>1 DEF OpenPart
      <3>4. data'[final[b]] = data[final[b]]
        BY <2>1, <3>3 DEF DownloadTypeOK
      <3> QED
        BY <2>2, <3>2, <3>4 DEF HasFinal
    <2>5. CASE \E c \in Calls : StoreRange(c)
      <3>1. PICK c \in Calls : StoreRange(c)
        BY <2>5
      <3>2. /\ calls[c].file \in Files /\ BlobOf(c) \in Blobs /\ UsedFor(calls[c].file, BlobOf(c))
            /\ \E w \in Seq(Bytes) : /\ data' = [data EXCEPT ![calls[c].file] = w]
                                     /\ data[calls[c].file] = DigestOf(c) => w = DigestOf(c)
        BY <3>1, StoreRangeWrites
      <3>3. CASE calls[c].file = final[b]
        <4>1. BlobOf(c) = b /\ calls[c].grant \in Grants /\ grants[calls[c].grant].state # "absent"
          BY <2>1, <3>1, <3>2, <3>3 DEF FilesInv, CallsInv, StoreRange
        <4>2. DigestOf(c) = grants[g].digest
          BY <4>1 DEF GrantsAgree, BlobOf, DigestOf
        <4>3. final' = final /\ data'[final[b]] = grants[g].digest
          BY <3>1, <3>2, <3>3, <4>2 DEF StoreRange, HasFinal, DownloadTypeOK
        <4> QED
          BY <2>1, <2>2, <4>3 DEF HasFinal
      <3>4. CASE calls[c].file # final[b]
        <4>1. final' = final /\ data'[final[b]] = data[final[b]]
          BY <2>1, <3>1, <3>2, <3>4 DEF StoreRange, DownloadTypeOK
        <4> QED
          BY <2>2, <4>1 DEF HasFinal
      <3> QED
        BY <3>3, <3>4
    <2>6. CASE \E c \in Calls : RenamePart(c)
      <3>1. PICK c \in Calls : RenamePart(c)
        BY <2>6
      <3>2. /\ calls[c].pc = "rename" /\ calls'[c].pc = "idle" /\ data' = data
            /\ final' = [final EXCEPT ![BlobOf(c)] = received[BlobOf(c)]]
            /\ received[BlobOf(c)] # NoFile
        BY <3>1 DEF RenamePart, DownloadTypeOK, NoCall
      <3>3. CASE BlobOf(c) # b
        <4>1. final'[b] = final[b]
          BY <2>1, <3>2, <3>3 DEF DownloadTypeOK
        <4> QED
          BY <2>2, <3>2, <4>1 DEF HasFinal
      <3>4. CASE BlobOf(c) = b /\ calls[c].checked = received[b]
        <4>1. /\ data[calls[c].checked] = DigestOf(c)
              /\ calls[c].grant \in Grants /\ grants[calls[c].grant].state # "absent"
          BY <3>2 DEF CallsInv
        <4>2. DigestOf(c) = grants[g].digest
          BY <3>4, <4>1 DEF GrantsAgree, BlobOf, DigestOf
        <4>3. final'[b] = received[b]
          BY <2>1, <3>2, <3>4 DEF DownloadTypeOK
        <4> QED
          BY <2>2, <3>2, <3>4, <4>1, <4>2, <4>3 DEF HasFinal
      <3>5. CASE calls[c].checked # received[b]
        BY <3>2, <3>5
      <3> QED
        BY <3>3, <3>4, <3>5
    <2> QED
      BY <2>3, <2>4, <2>5, <2>6 DEF DownloadNext, GrantNext, ReceiveNext, GrantCheck, GrantFails,
         CreateGrant, ExpireGrant, RevokeContact, RevokeGrants, RevokeCutOff, PairAgain, ReceiveStart,
         AskRange, ServeRange, CloseFile, CheckDigest, ReceiveFails, recvVars
  <1> QED
    BY <1>1, DownloadInvariant, PTL DEF DownloadSpec, CompleteFileKept

==============================================================================
