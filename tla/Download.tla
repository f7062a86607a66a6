------------------------------ MODULE Download -------------------------------
(***************************************************************************)
(* How an attachment reaches a contact: the attachment_grants table, the   *)
(* call that grants a completed blob (internal/management/handler.go), the *)
(* revocations that end the grants (internal/pairing/service.go), the blob *)
(* endpoint (internal/gateway/blob.go) and the receiver that downloads     *)
(* range by range and resumes (internal/attachment/receiver.go).  The      *)
(* owner's files are those of Upload.                                      *)
(*                                                                         *)
(* A Receiver takes no lock: several Receive calls for one blob may run at *)
(* once, each with its own open file.  A file is therefore kept apart from *)
(* the path that names it: after a rename a call still writes to the file  *)
(* it has opened.  Calls are split at their store and file operations and  *)
(* at the request; an error or a restart ends a call anywhere.             *)
(***************************************************************************)
EXTENDS Upload

CONSTANTS
    Grants,     \* grant ids; bounds how many grants a behaviour creates
    Calls,      \* Receive calls that may run at the same time
    Files,      \* files on the receiver's disk; bounds how many exist at once
    NoGrant,    \* the call is idle
    RangeSize   \* Receiver.chunkSize

VARIABLES
    active,     \* the owner's contact row for the receiver is active
    revoking,   \* place of the revocation: no, contact row written, cut off
    granting,   \* blobs for which grantAttachment has found the contact active
    grants,     \* grants[g]: the attachment_grants row
    late,       \* history: grants created when the contact was not active
    data,       \* data[f]: the bytes of the receiver's file f
    received,   \* received[b]: the file at the path <b>.part
    final,      \* final[b]: the file at the path <b>.blob
    calls       \* calls[c]: the state of a Receive call

grantVars == <<active, revoking, granting, grants, late>>
recvVars == <<data, received, final, calls>>
downVars == <<upVars, grantVars, recvVars>>

-----------------------------------------------------------------------------
(* Data *)

Grant == [state : {"live", "revoked", "expired"}, blob : Blobs, digest : Digests,
          size : 0..MaxBytes]
NoRow == [state |-> "absent"]

\* open: the final file was not there; loop: the part is open; asked: the owner
\* has found the contact active; answered: the range has arrived; hash: all
\* ranges are written; rename: the digest was right.
Places == {"idle", "open", "loop", "asked", "answered", "hash", "rename"}
Call == [pc : Places, grant : Grants \cup {NoGrant}, file : Files \cup {NoFile},
         at : Nat, content : Seq(Bytes), checked : Files \cup {NoFile}]
NoCall == [pc |-> "idle", grant |-> NoGrant, file |-> NoFile, at |-> 0,
           content |-> << >>, checked |-> NoFile]

ASSUME RangesArePositive == RangeSize \in Nat \ {0}
ASSUME NothingIsGranted == NoGrant \notin Grants /\ NoFile \notin Files

DownloadTypeOK ==
    /\ active \in BOOLEAN
    /\ revoking \in {"no", "contact", "cut"}
    /\ granting \subseteq Blobs
    /\ grants \in [Grants -> Grant \cup {NoRow}]
    /\ late \subseteq Grants
    /\ data \in [Files -> Seq(Bytes)]
    /\ received \in [Blobs -> Files \cup {NoFile}]
    /\ final \in [Blobs -> Files \cup {NoFile}]
    /\ calls \in [Calls -> Call]

DownloadInit ==
    /\ UploadInit
    /\ active = TRUE
    /\ revoking = "no"
    /\ granting = {}
    /\ grants = [g \in Grants |-> NoRow]
    /\ late = {}
    /\ data = [f \in Files |-> << >>]
    /\ received = [b \in Blobs |-> NoFile]
    /\ final = [b \in Blobs |-> NoFile]
    /\ calls = [c \in Calls |-> NoCall]

-----------------------------------------------------------------------------
(* Grants and the relation *)

\* grantAttachment finds the contact active.
GrantCheck(b) ==
    /\ active
    /\ granting' = granting \cup {b}
    /\ UNCHANGED <<upVars, active, revoking, grants, late, recvVars>>

\* Grant, for a completed blob only, then CreateAttachmentGrant.
CreateGrant(g, b) ==
    /\ b \in granting
    /\ op = Idle
    /\ Is(b, "completed")
    /\ grants[g].state = "absent"
    /\ granting' = granting \ {b}
    /\ grants' = [grants EXCEPT ![g] = [state |-> "live", blob |-> b, digest |-> meta[b].sha,
                                        size |-> meta[b].size]]
    /\ late' = IF active THEN late ELSE late \cup {g}
    /\ UNCHANGED <<upVars, active, revoking, recvVars>>

\* The call ends without a grant.
GrantFails(b) ==
    /\ b \in granting
    /\ granting' = granting \ {b}
    /\ UNCHANGED <<upVars, active, revoking, grants, late, recvVars>>

ExpireGrant(g) ==
    /\ grants[g].state = "live"
    /\ grants' = [grants EXCEPT ![g].state = "expired"]
    /\ UNCHANGED <<upVars, active, revoking, granting, late, recvVars>>

\* Revoke, Block and ApplyRevocation write the contact first, and cancel the
\* outbox before they come to the grants.
RevokeContact ==
    /\ active' = FALSE
    /\ revoking' = "contact"
    /\ UNCHANGED <<upVars, granting, grants, late, recvVars>>

\* Mutant of RevokeGrants: the UPDATE is left out.
KeepGrants ==
    /\ revoking = "contact"
    /\ revoking' = "no"
    /\ UNCHANGED <<upVars, active, granting, grants, late, recvVars>>

\* RevokeAttachmentGrantsForContact.
RevokeGrants ==
    /\ revoking = "contact"
    /\ revoking' = "no"
    /\ grants' = [g \in Grants |-> IF grants[g].state = "live"
                                   THEN [grants[g] EXCEPT !.state = "revoked"] ELSE grants[g]]
    /\ UNCHANGED <<upVars, active, granting, late, recvVars>>

\* Cancelling the outbox fails, or the daemon stops.
RevokeCutOff ==
    /\ revoking = "contact"
    /\ revoking' = "cut"
    /\ UNCHANGED <<upVars, active, granting, grants, late, recvVars>>

\* A new pairing makes the contact active again.
PairAgain ==
    /\ ~active
    /\ active' = TRUE
    /\ UNCHANGED <<upVars, revoking, granting, grants, late, recvVars>>

-----------------------------------------------------------------------------
(* The blob endpoint of the owner *)

\* ParseRange with the chunk size of the owner, and the check of ReadRange.
ValidRange(start, end, size) ==
    0 <= start /\ start <= end /\ end < size /\ end - start + 1 <= ChunkSize

\* AuthorizeAttachmentGrant, ReadRange and the comparison with the grant.
Readable(g, start, end) ==
    LET b == grants[g].blob
    IN  /\ grants[g].state = "live"
        /\ ValidRange(start, end, grants[g].size)
        /\ op = Idle
        /\ Is(b, "completed") /\ blob[b] # NoFile
        /\ meta[b].sha = grants[g].digest /\ meta[b].size = grants[g].size

-----------------------------------------------------------------------------
(* Receive *)

\* What the call works for, and the last byte it asks for.
BlobOf(c) == grants[calls[c].grant].blob
SizeOf(c) == grants[calls[c].grant].size
DigestOf(c) == grants[calls[c].grant].digest
LastByte(c) ==
    IF calls[c].at + RangeSize - 1 >= SizeOf(c) THEN SizeOf(c) - 1 ELSE calls[c].at + RangeSize - 1

\* The file at the final path has the size and the digest of the grant.
HasFinal(g) ==
    final[grants[g].blob] # NoFile /\ data[final[grants[g].blob]] = grants[g].digest

\* File f is at a path of b, or a call for b has opened or checked it.
UsedFor(f, b) ==
    \/ received[b] = f \/ final[b] = f
    \/ \E c \in Calls : calls[c].pc # "idle" /\ BlobOf(c) = b /\ f \in {calls[c].file, calls[c].checked}

\* Receive finds that the final file is not yet what it should be.
ReceiveStart(c, g) ==
    /\ calls[c].pc = "idle"
    /\ grants[g].state # "absent"
    /\ ~HasFinal(g)
    /\ calls' = [calls EXCEPT ![c] = [NoCall EXCEPT !.pc = "open", !.grant = g]]
    /\ UNCHANGED <<upVars, grantVars, data, received, final>>

\* Mutant of OpenPart: the part is truncated when it is opened.
OpenPartTruncated(c) ==
    /\ calls[c].pc = "open"
    /\ \E f \in Files :
          /\ received[BlobOf(c)] # f => received[BlobOf(c)] = NoFile /\ \A b \in Blobs : ~UsedFor(f, b)
          /\ data' = [data EXCEPT ![f] = << >>]
          /\ received' = [received EXCEPT ![BlobOf(c)] = f]
          /\ calls' = [calls EXCEPT ![c] = [@ EXCEPT !.pc = "loop", !.file = f]]
    /\ UNCHANGED <<upVars, grantVars, final>>

\* The part is opened, created if it is not there, and its size is the progress.
OpenPart(c) ==
    LET b == BlobOf(c)
        Opened(f, bytes) == [calls EXCEPT ![c] = [@ EXCEPT !.pc = "loop", !.file = f, !.at = Len(bytes)]]
    IN  /\ calls[c].pc = "open"
        /\ \/ /\ received[b] # NoFile
              /\ Len(data[received[b]]) <= SizeOf(c)
              /\ calls' = Opened(received[b], data[received[b]])
              /\ UNCHANGED <<data, received>>
           \/ /\ received[b] = NoFile
              /\ \E f \in Files :
                    /\ \A other \in Blobs : ~UsedFor(f, other)
                    /\ data' = [data EXCEPT ![f] = << >>]
                    /\ received' = [received EXCEPT ![b] = f]
                    /\ calls' = Opened(f, << >>)
        /\ UNCHANGED <<upVars, grantVars, final>>

\* The request for the next range reaches the owner, who looks up the contact.
AskRange(c) ==
    /\ calls[c].pc = "loop"
    /\ calls[c].at < SizeOf(c)
    /\ active
    /\ calls' = [calls EXCEPT ![c] = [@ EXCEPT !.pc = "asked"]]
    /\ UNCHANGED <<upVars, grantVars, data, received, final>>

\* Mutant of ServeRange: the range starts one byte late.
ServeLate(c) ==
    /\ calls[c].pc = "asked"
    /\ Readable(calls[c].grant, calls[c].at, LastByte(c))
    /\ calls' = [calls EXCEPT ![c] = [@ EXCEPT !.pc = "answered",
           !.content = SubSeq(blob[BlobOf(c)] \o <<Zero>>, calls[c].at + 2, LastByte(c) + 2)]]
    /\ UNCHANGED <<upVars, grantVars, data, received, final>>

\* The owner reads the range; the receiver verifies the signature, the
\* Content-Range and the length of the response.
ServeRange(c) ==
    /\ calls[c].pc = "asked"
    /\ Readable(calls[c].grant, calls[c].at, LastByte(c))
    /\ calls' = [calls EXCEPT ![c] = [@ EXCEPT !.pc = "answered",
           !.content = SubSeq(blob[BlobOf(c)], calls[c].at + 1, LastByte(c) + 1)]]
    /\ UNCHANGED <<upVars, grantVars, data, received, final>>

\* Mutant of StoreRange: the range is appended to the file.
StoreAppended(c) ==
    /\ calls[c].pc = "answered"
    /\ data' = [data EXCEPT ![calls[c].file] = @ \o calls[c].content]
    /\ calls' = [calls EXCEPT ![c] = [@ EXCEPT !.pc = "loop", !.content = << >>,
                                               !.at = calls[c].at + Len(calls[c].content)]]
    /\ UNCHANGED <<upVars, grantVars, received, final>>

\* WriteAt, which may fail after some bytes.
StoreRange(c) ==
    /\ calls[c].pc = "answered"
    /\ \E n \in 0..Len(calls[c].content) :
          /\ data' = [data EXCEPT ![calls[c].file] =
                         WriteAt(@, calls[c].at, SubSeq(calls[c].content, 1, n))]
          /\ calls' = IF n = Len(calls[c].content)
                      THEN [calls EXCEPT ![c] = [@ EXCEPT !.pc = "loop", !.at = calls[c].at + n,
                                                          !.content = << >>]]
                      ELSE [calls EXCEPT ![c] = NoCall]
    /\ UNCHANGED <<upVars, grantVars, received, final>>

\* The loop ends and the open file is closed.
CloseFile(c) ==
    /\ calls[c].pc = "loop"
    /\ calls[c].at >= SizeOf(c)
    /\ calls' = [calls EXCEPT ![c] = [@ EXCEPT !.pc = "hash", !.file = NoFile]]
    /\ UNCHANGED <<upVars, grantVars, data, received, final>>

\* fileDigest of whatever is at the path of the part now.
CheckDigest(c) ==
    /\ calls[c].pc = "hash"
    /\ received[BlobOf(c)] # NoFile
    /\ data[received[BlobOf(c)]] = DigestOf(c)
    /\ calls' = [calls EXCEPT ![c] = [@ EXCEPT !.pc = "rename", !.checked = received[BlobOf(c)]]]
    /\ UNCHANGED <<upVars, grantVars, data, received, final>>

\* The rename of whatever is at that path by then.
RenamePart(c) ==
    /\ calls[c].pc = "rename"
    /\ received[BlobOf(c)] # NoFile
    /\ final' = [final EXCEPT ![BlobOf(c)] = received[BlobOf(c)]]
    /\ received' = [received EXCEPT ![BlobOf(c)] = NoFile]
    /\ calls' = [calls EXCEPT ![c] = NoCall]
    /\ UNCHANGED <<upVars, grantVars, data>>

\* A call returns an error, or its process stops.
ReceiveFails(c) ==
    /\ calls[c].pc # "idle"
    /\ calls' = [calls EXCEPT ![c] = NoCall]
    /\ UNCHANGED <<upVars, grantVars, data, received, final>>

GrantNext ==
    \/ \E b \in Blobs : GrantCheck(b) \/ GrantFails(b) \/ \E g \in Grants : CreateGrant(g, b)
    \/ \E g \in Grants : ExpireGrant(g)
    \/ RevokeContact \/ RevokeGrants \/ RevokeCutOff \/ PairAgain

ReceiveNext ==
    \E c \in Calls :
        \/ \E g \in Grants : ReceiveStart(c, g)
        \/ OpenPart(c) \/ AskRange(c) \/ ServeRange(c) \/ StoreRange(c)
        \/ CloseFile(c) \/ CheckDigest(c) \/ RenamePart(c) \/ ReceiveFails(c)

DownloadNext ==
    \/ UploadNext /\ UNCHANGED <<grantVars, recvVars>>
    \/ GrantNext \/ ReceiveNext

DownloadSpec == DownloadInit /\ [][DownloadNext]_downVars

-----------------------------------------------------------------------------
(* Properties *)

Begins(file, content) ==
    Len(file) <= Len(content) /\ \A i \in 1..Len(file) : file[i] = content[i]

\* Whatever the receiver has on disk for a granted blob, at either path or open in
\* a call, is the beginning of the declared content: after any number of errors,
\* restarts and overlapping calls a resumed download never mixes up bytes, so the
\* digest of a full part is right.
FilesArePrefixes ==
    \A f \in Files, b \in Blobs, g \in Grants :
        UsedFor(f, b) /\ grants[g].state # "absent" /\ grants[g].blob = b =>
            Begins(data[f], grants[g].digest)

\* A complete file at the final path stays complete, with one exception: the
\* rename takes what is at the path of the part, which is not always the file
\* whose digest the call has checked.
CompleteFileKept ==
    [][\A g \in Grants :
          grants[g].state # "absent" /\ HasFinal(g) =>
              \/ HasFinal(g)'
              \/ \E c \in Calls : /\ calls[c].pc = "rename" /\ calls'[c].pc = "idle"
                                  /\ calls[c].checked # received[grants[g].blob]]_downVars

\* When a revocation has run to its end, the contact has no live grant, except one
\* that a grantAttachment call created from a contact it had read before.
GrantsEndWithContact ==
    ~active /\ revoking = "no" =>
        \A g \in Grants : grants[g].state = "live" => g \in late

\* Grants of one blob agree with each other and with its metadata.
GrantsAgree ==
    \A g \in Grants : grants[g].state # "absent" =>
        /\ grants[g].blob \in issued
        /\ Len(grants[g].digest) = grants[g].size
        /\ meta[grants[g].blob] # NoMeta =>
              /\ meta[grants[g].blob].sha = grants[g].digest
              /\ meta[grants[g].blob].size = grants[g].size
        /\ \A h \in Grants : grants[h].state # "absent" /\ grants[h].blob = grants[g].blob =>
              grants[h].digest = grants[g].digest

\* A file is used for one blob, and only for one that was granted.
FilesInv ==
    \A f \in Files, b \in Blobs : UsedFor(f, b) =>
        /\ \A other \in Blobs : UsedFor(f, other) => other = b
        /\ \E g \in Grants : grants[g].state # "absent" /\ grants[g].blob = b

\* What a Receive call relies on between two of its steps.
CallsInv ==
    \A c \in Calls :
        /\ calls[c].pc = "idle" <=> calls[c] = NoCall
        /\ calls[c].pc # "idle" =>
              calls[c].grant \in Grants /\ grants[calls[c].grant].state # "absent"
        /\ IF calls[c].pc \in {"loop", "asked", "answered"}
           THEN /\ calls[c].file # NoFile
                /\ calls[c].at <= Len(data[calls[c].file])
                /\ calls[c].at <= SizeOf(c)
           ELSE calls[c].file = NoFile
        /\ calls[c].pc \in {"asked", "answered"} => calls[c].at < SizeOf(c)
        /\ calls[c].pc = "answered" =>
              calls[c].content = SubSeq(DigestOf(c), calls[c].at + 1, LastByte(c) + 1)
        /\ IF calls[c].pc = "rename"
           THEN calls[c].checked # NoFile /\ data[calls[c].checked] = DigestOf(c)
           ELSE calls[c].checked = NoFile

\* The inductive invariant of grants and downloads, over that of Upload.
DownloadInv ==
    /\ UploadInv /\ DownloadTypeOK
    /\ GrantsAgree /\ FilesInv /\ CallsInv
    /\ FilesArePrefixes /\ GrantsEndWithContact

=============================================================================
