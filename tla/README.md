# TLA+ specifications of snw-agent-link

linkd is a daemon that runs beside local AI agents. It pairs an agent with agents
on other hosts, queues and delivers their messages over Tailscale, and hands
received messages to the local agent exactly as often as it should. This
directory holds TLA+ modules of that daemon, the TLC configurations that check
them on small instances, and proofs checked by TLAPS for every instance.

## 1. The system

| Component | State | Operations | Talks to |
|---|---|---|---|
| Pairing service (`internal/pairing/service.go`) | none of its own; works on the store | create, import and accept an invite; approve an acceptance; apply a confirmation, an activation receipt, a revocation; revoke; block | store; the operator carries its signed files to the other host |
| Store (`internal/store/store.go`, SQLite) | contacts, pairing requests and sessions, outbox, receipts, task index, inbox, deduplication records, replay nonces, grants, registrations | one statement or transaction per call | everybody |
| Gateway (`internal/gateway`) | one goroutine per HTTP request | authorise, deduplicate, record in the inbox, forward to the local agent, store and copy the response; serve blobs | remote daemons, store, local agent |
| Delivery worker (`internal/delivery`, `daemon.runDeliveryWorker`) | the batch it works on | list due messages, deliver, schedule a retry or record the receipt | store, remote gateway |
| Management handler (`internal/management/handler.go`) | capability challenges and sessions in memory | send, cancel, read mailbox; register agents; rotate capabilities; upload and grant attachments; pairing calls | IPC clients, store, pairing service |
| Capability and registration (`internal/capability`, `internal/registration`, `internal/identitystore`) | key files, registration rows, generations | challenge, exchange, rotate, register, ensure | store, files |
| Attachments (`internal/attachment`, `gateway/blob.go`) | part files, blobs, metadata files, grants | init, chunk, complete, grant, download in chunks, verify | files, store, remote gateway |
| Signatures, nonces, admission (`internal/transport`, `internal/admission`) | replay nonces | sign, verify within a time window, claim a nonce | gateway |
| Codex adapter (`adapters/snw-agent-link-codex`) | mailbox, bindings of contexts to threads, tasks (SQLite) | receive a message, bind, attach to a thread, cancel, relay events | gateway, Codex app-server |
| IPC, Tailscale, encryption, daemon assembly, packaging | configuration, keys | see section 7 | |

What makes it hard:

- *Files that come twice or late.* Pairing artifacts are handed over by people. An
  old invite or confirmation may be applied at any time, and two invites between the
  same agents may overlap.
- *Concurrency without transactions.* IPC calls, HTTP requests and the worker run in
  goroutines of their own. Every one of them makes several store calls, each atomic
  by itself, so a value read by one call may be stale at the next.
- *Lost answers and retries.* A client may go away while the agent works. That
  cancels `req.Context`, and with it the store calls that come after.
- *Restarts.* The tables survive, the goroutines and the worker's batch do not.
- *Files without transactions.* An upload, a download and a registration change several
  files one after the other and may be cut off between any two.
- *Clocks.* The time in a signature comes from another host, the expiry of its nonce from
  this one, and one handler reads the clock up to three times.
- *Starvation.* The worker takes a bounded batch, ordered by time of next attempt.

What correctness means, per component:

- pairing: no active contact without both operators' consent; an invite is used once;
  a pinned identity is never replaced; no call undoes a block that it found;
- gateway: a message is handed to the agent at most once, after it is in the inbox; all
  responses to one message id agree; every request ends;
- outbox: `delivered` exactly when there is a receipt; final states stay; every pending
  message is attempted;
- end to end: `delivered` means that the remote agent was handed the message, once;
- capability: a challenge is worth one session; a session lets
  a method in only if it is one of the present capability key; an identity file is that of the registered agent;
- attachments: a blob has its declared content; whatever is cut off, an acknowledged byte
  stays and a received file is a beginning of the blob; grants end with the contact;
- admission: a signed request is accepted at most once;
- retry delay: a retry is later than the batch and at most the maximum away, whatever the
  conversions between integers, floats and milliseconds do.

## 2. The modules and the code

`PROJECT.json` maps every definition to its source lines.

**Pairing** — the pairing protocol among any number of agents. `contacts`, `requests`
and `sessions` are the tables; `latest` is the order in which `FindPairingSession`
looks; `network` is the set of all artifacts issued so far, from which nothing is
ever removed, so that every handler may be given any artifact at any time and again.
The calls that write a contact back which they have read (`ApplyConfirmation`,
`ApplyActivationReceipt`, `Revoke`, `ApplyRevocation`, `Block`) are split at `GetContact` and
`UpsertContact`: between the two, `calls` holds the copy (`Reads`, `WriteContact`), and any other call of
the daemon may run; an error or a stop of the daemon ends a call there (`EndCall`). What they do
afterwards to queued messages and to grants is in Outbox and Download, which split it at the
store calls as well. `CreateInvite`, `acceptInvite` and `ApproveAcceptance` are one step each, with their
store calls in the order of the code, including those that stay behind when a later one fails
(`CreateInviteConflict`, `ImportOnly`, `ApproveConflict`): the races between their checks and their
writes (`service.go:207`, `219`, `364`) are not covered. Signatures are taken as unforgeable and agent
ids as digests of keys, so the key of agent b is b; host fingerprints are free, as
they are operator input, and may be empty. Expiry is a step of the environment (`Expire`).

**Gateway** — `serveA2AWithDedup` for one pair of agents. `pc[k]` is the next call of
the goroutine that serves request k; the handler is split at every store call and
before and after the call to the local agent. `connected` is the state of
`req.Context`: a store call of a disconnected request fails. `executed[m]` records the
requests for which the agent was handed m. A record has its owner, the request that
reserved it (`by`), the response, and the task id: the one the owner made up (`"reserved"`) or one that
`taskIDFromResponse` found in the response (`"found"`). That function looks for an `id` at the top of the
body or of its `result`; the REST transport wraps the task, so there it finds none and
the reservation stays. `Unwrapped` says whether responses may hold one: the gateway runs have it
`TRUE`, the composition, which sends by REST, `FALSE`; the theorems hold for both. A response without a
body is stored and never replayed (`Lookup` answers 202 for it). The checks of `authorized`
are one step that may refuse.

**Outbox** — the sending side for one contact: `sendMessage`, `CancelOutbox`,
`cancelMessage` and `Revoke`, each split at its store calls (`sending`, `cancelling`,
`revoking` hold the calls under way), and `ProcessDue` with its batch. Times are
represented by their order: `due` are the messages whose `next_attempt_at` has passed,
`ahead[m]` those with an earlier one. A retry is scheduled relative to the start of
the batch, so it comes after every message that was due then (`worker.seen`), but in any
order with messages that became due while the batch ran. A failed retry or receipt
ends the whole batch, as the early returns of `ProcessDue` do. That a retry comes after its batch needs
a base delay of at least a millisecond (RetryDelay); the daemon leaves it at one second.

**Exchange** — the promise, without the mechanism: a sender's view of a message
(`seen`) and how often the receiving agent was handed it (`handed`).

**Delivery** — Outbox and Gateway composed over a wire. Each attempt is a request of
its own; a request or its answer may be lost, a request that the worker gave up may
still arrive, the two daemons restart independently. The id in a receipt is read from the
body of the answer (`TaskIn`): what the agent created for the owner of the record, or its reservation in
a 202 body. It need not be the id that the record holds, and `ReceiptNamesOwner` does not say so. The refinement to Exchange
maps `seen` to the outbox state and `handed` to the size of `executed`. What the A2A
client library does with the body of a 202 answer is not visible in the repository;
`AcceptsWorking` is that choice. The run takes a client that treats it as an error.
With one that takes it for a task, `KeepsPromise` fails: the 202 may name a task nobody
works on (finding 3), and the sender then records `delivered` for a message that the
agent never saw. `DeliveryInv` and `ReceiptNamesOwner` hold for either client. The composition assumes that a payload carries the message id
of its outbox row, as the adapters build it; `sendMessage` does not check that.

**RetryDelay** — extends Outbox by `retryDelay` and `randomJitter`, as operators over durations
whose width is a parameter, and by the two conversions around them. `float64(baseDelay)` is
rounded to one of the nearest floats (`Nearest`; floats have `MaxExact`, 2^53, as their largest exact
integer); the product with a power of two is then exact. A float that no `time.Duration` holds is
converted to a value that depends on the processor, so `ToDuration` yields a set. The store cuts
`next_attempt_at` to milliseconds (`Millis`). `math.Pow(2, n)` of the Go library is
the constant `Pow`, of which it is assumed that it doubles. `BackoffIsSound` says what survives the
conversions: the delay is always positive and at most the maximum; it is the exponential delay over
unbounded integers if a float holds the base, which is so for every base up to 104 days; and
it ends in a later millisecond than it began in if the base is a millisecond or more. With a smaller
base it need not, and a failing message may then be due again in the millisecond of its batch.
`RetryIsLater` ties this to the point at which the worker reschedules a message: the order of Outbox's
queue rests on it.

**Upload** — the attachment store of the owner. `meta`, `part` and `blob` are the three files of
a blob. Every call of the service holds its mutex (`op` is the call that holds it and
what it does next), but makes several changes to files and may be cut off between two of them
(`CutOff`); `WriteAt` may write a part of a chunk and fail. A digest is represented by the
content it belongs to. `cut` and `old` record for which blobs a call was cut off and which
GC may collect. `GC` is a method of the service that the daemon does not call.

**Download** — extends Upload by the contact, the grants (`grantAttachment` split at its store
calls, the revocations that end them) and `Receive`. The receiver takes no lock, so
several calls for a blob overlap. A file (`data`) is kept apart from the paths that name it
(`received`, `final`) and from the calls that have it open. The blob endpoint
checks the contact in one step (`AskRange`) and grant and blob in the next (`ServeRange`).

**Capability** — registration, rotation, challenges and sessions of one agent id, each call
split at the row of `agent_registrations`, at the two key files and at the maps behind
`capabilityMu`. Keys, identities and tokens are random; they are numbered in the order in
which they are made. `authenticateMethod` without a session lets a method in on the registration
token alone (`AuthenticateByToken`), with one it looks the session up (`FindSession`) and compares
its generation with the row (`ValidateSession`). `overlapped` and `torn` record what two overlapping rotations, or one
that was cut off, leave behind.

**Admission** — the time window of a signed request and the table `replay_nonces`, for
the three callers (`rpc`, `blob`, `envelope`). Every reading of the clock is a step
of its own; `first`, `last` and `pause` record the readings that `TakenOnce` speaks about.
`internal/admission` is not called by the daemon; it is modelled as the package it is.

**MCPairing, MCGateway, MCOutbox, MCDelivery, MCAttachment, MCCapability, MCAdmission** —
symmetry sets and small constants for TLC.

**PairingProofs, GatewayProofs, OutboxProofs, DeliveryProofs, AttachmentProofs,
CapabilityProofs, AdmissionProofs, RetryDelayProofs** — the theorems (section 5).

Operators whose comment begins with "Mutant of" are plausible mistakes in the code they
are named for. No specification uses them; each one, put in place of the original,
makes TLC find a property violated (`PROJECT.json`, `mutants`), which shows
that the property depends on that code.

## 3. The runs

| Run | Checks | Instance |
|---|---|---|
| `pairing` | `TypeOK`, `ConsentInv`, `ActiveByConsent`, `InviteSingleUse`, `PinnedByPeer`, `PinnedIdentityKept`, `NoCallUndoesBlock` | 2 agents, 2 invites, a host fingerprint and the empty one, 2 calls under way, `OverlapBound` |
| `gateway` | `DedupInv`, `ExecutedAtMostOnce`, `ExecutedIsInInbox`, `AnswersAgree`, `RecordsAreFinal`, `RequestsEnd` | 3 requests, 1 message id, failing store calls |
| `outbox` | `OutboxInv`, `RetryIsLater`, `FinalStatesKept`, `PendingIsAttempted` | 2 messages, 2 task ids, batches of 1; durations of 5 bits, floats exact up to 4, a millisecond of 3 |
| `delivery` | `ReceiptNamesOwner`, `DeliveryInv`, `DeliveredIsHandedOnce`, `KeepsPromise`, `SettledIsNotSentAgain` | 1 message, 3 attempts, `DisturbanceBound` |
| `attachment` | `BlobIsDeclared`, `UploadIsResumable`, `FilesArePrefixes`, `GrantsEndWithContact`, `DownloadInv`, `AcknowledgedBytesKept`, `CompleteFileKept` | 1 blob of up to 2 bytes in chunks of 1, 1 grant, 2 overlapping downloads, 3 files |
| `capability` | `ChallengeUsedOnce`, `IdentityIsRegistered`, `AgentReusable`, `CapInv`, `CurrentKeyOnly` | 3 connections, 2 challenges, 3 keys |
| `admission` | `TakenOnce`, `AdmInv` | 1 request, 2 handlers, window 3, lifetime 1, milliseconds of 2, clock up to 8 |

All of these pass. Why the bounds are enough for the interesting cases:

- two invites are what it takes for sessions to overlap, in both directions or in the same
  one, and two fingerprints, one of them empty, for a fingerprint to differ. `OverlapBound` keeps the number of
  invites made, calls under way, revocation notices and expired invites together at three: two calls race
  over one invite, or one call is overtaken while two invites overlap, or a notice is about;
- three requests are an owner, one that loses the race for the reservation and one that
  comes after a restart; messages with different ids share no row. The third
  attempt of `delivery` likewise meets what two others left behind. `DisturbanceBound` keeps given up
  requests that are still at work, management calls under way and contacts that are not active
  together at two;
- with two messages and a batch of one, a message stays outside the batch while another
  is in it, and stays there for good if a failing message kept its place;
- two chunks are a first and a resumed one; the two byte values tell a chunk that was sent
  again with other content; two downloads race for the part and its rename. The exception in
  `CompleteFileKept` takes three overlapping calls (one that has checked, one that renames, one
  that creates a new part); the run has two, the theorem any number;
- two rotations of three keys overlap after a registration, and the third connection
  has an exchange or a method under way;
- the clock runs over more than two windows, so a request dated ahead outlives its
  nonce, and a second of the clock is finer than what the table keeps. Requests have nonces of
  their own, so one stands for all;
- with durations up to 15, exponents up to three overflow for most bases; floats are exact up to 4, so
  5 and 7 are rounded to either side and 15 to a float that no duration holds; bases of 1 and 2 are less
  than a millisecond.

What the bounds do not reach, the theorems do.

Some of the properties name the case in which the code does not keep what one would expect.
`CurrentKeyOnly` holds as long as no two rotations have overlapped: two that read the same
generation write it with two keys, and a session of the first passes the check of the
second. It speaks of methods called with a session; the registration token lets a method in
without one. `NoCallUndoesBlock` excepts a call that had read the contact before it was blocked: its write
replaces the block, since `UpsertContact` compares the identity of the row and not its state.
`GrantsEndWithContact`, `UploadIsResumable`, `AgentReusable` and `CompleteFileKept` likewise except a grant whose
check came before the revocation, an upload or rotation that was cut off, and the rename of
a part that was not the one checked.
`TakenOnce` says what it takes for a request to be taken twice: an rpc request must be dated after
the reading of the clock from which its nonce's expiry was computed (the nonce is kept for one window
from then, a request dated ahead is valid for up to two), or before it by no more than the rounding of
the table and the pause of a handler between its readings; a blob request must be dated ahead by more
than its lifetime leaves, up to that rounding; an envelope is taken in the last millisecond of its window.

The following runs find a violation of what a document or a comment says:

1. `pairing_blocked` — `docs/operations.md:87` says that blocking refuses later
   pairing. `ApproveAcceptance` lacks the check that `CreateInvite` and `ImportInvite`
   make: an acceptance of an older invite takes the contact out of `blocked`.
   `ApplyRevocation` does so as well, where `Revoke` refuses "blocked to revoked".
   `NoCallUndoesBlock` states what does hold, and it is proved: no call that finds the contact blocked
   makes it active, and none makes it revoked without a notice of the peer.
2. `pairing_fingerprint` — the pairing specification says a relation becomes active
   only after the fingerprints were confirmed. With two overlapping invites, a
   confirmation of one activates the contact under the host fingerprint of the other.
3. `gateway_working` — the comment on the 202 answer says that a first delivery is still
   being processed. It may have failed, been cut off or died with the daemon, and
   then the answer stays 202 for good.
4. `gateway_retry` — the Codex adapter relies on a later retry after an app-server error;
   the gateway stores the error and replays it, so no retry reaches the adapter.
5. `outbox_revoked` — the pairing specification says the queue is cancelled on revocation.
   `sendMessage` may check the contact before and insert after it. (`grantAttachment` has the
   same shape; `GrantsEndWithContact` excepts the grants created that way.) What a cancel or a
   revocation does guarantee is `SettledIsNotSentAgain`: once a row is cancelled and the
   worker does not hold it in its batch, nothing sends it again.

## 4. Fairness

`GateFairSpec` assumes weak fairness of every goroutine's steps: each call it makes
returns, the store calls by their context, the call to the agent by the client's
timeout of three minutes (`forward.go`; `reqWithTrimmedPath` gives it a context of its
own). Nothing is assumed of clients, restarts or the pairing calls. A request that loses the
race for the reservation starts over with a lookup; that it ends needs one more assumption,
strong fairness of a lookup that answers: the store does not fail every lookup
of a request that keeps starting over, while it keeps answering the insertions in between. A
record whose response can never be decrypted breaks it, and such a request does not end.

`OutFairSpec` assumes that time passes (weak fairness of `BecomeDue`: the delay is at most
`maxDelay`), and strong fairness of each kind of step of the worker. Strong, because
`Abort` and `OutRestart` may end any batch anywhere: the ticker starts a new one every
second, and the assumption is that a restart or a failing store does not cut off
every batch at the same kind of step. It is *not* assumed that a particular message is ever listed
or picked. That follows from the order of `ListDueOutbox` and from `ScheduleOutboxRetry`
moving a failed message back, and is what `PendingIsAttempted` checks.

Nothing in `OutFairSpec` makes a request return. The HTTP client of the worker has no `Timeout`
(`a2a.go:54`, `149`) and its context is that of the daemon (`daemon.go:293`), so a peer that accepts a
connection and never answers holds up the only worker, and with it every message. `PendingIsAttempted`
therefore has the return of requests as its premise, `SF_outVars(AttemptEnds)`: what it shows is that
nothing else in the code starves a message.

## 5. The proofs

TLAPS proves the following for every value of the constants, from the assumptions
named in the modules: the `No...` values differ from the real ones, sizes of batches, chunks and
ranges are positive, the fault switch is Boolean, neither a lifetime nor a millisecond is longer than
the window, `Pow[n]` doubles with n, the largest duration is `2 * Pow[MaxExponent] - 1` and a millisecond is
exact as a float, in
Delivery also that no request is called `"nobody"`, the owner of an empty record. `Agents`, `Invites`, `Hosts`,
`Messages`, `Requests`, `Tasks`, `Blobs`, `Grants`, `Calls`, `Files`, `Callers`, `Nonces` and
`Handlers` are arbitrary sets.

*PairingProofs* — `Spec => []ConsentInv`, and from it `TypeOK`, `ActiveByConsent`,
`InviteSingleUse`, `PinnedByPeer`, `PinnedIdentityKept` and `NoCallUndoesBlock`. `ActiveByConsent`
is not inductive: `ApplyActivationReceipt` believes a session row and a receipt.
`ConsentInv` adds what backs them: `SessionsBacked` (a session has its request row, an
invitee's session the invite), `LatestBacked` (the session `FindPairingSession` returns
is one with that peer, and an imported one while the contact is pending),
`ArtifactsBacked` (every artifact rests on those it answers, and its sender's request
row is consumed) and `PresentedByPeer`. Single use follows from the last but one: a
consumed request is never consumed again, and issuing requires consuming. `CallsBacked` says the same
of a call between its read and its write: the consent and the identity with which it will activate
the contact do not go away in the meantime, whatever other calls do to the row. That no call undoes
a block it found follows from it too.

*GatewayProofs* — `GateSpec => []DedupInv`, and from it `ExecutedAtMostOnce`,
`ExecutedIsInInbox`, `AnswersAgree` and `RecordsAreFinal`. The idea of the invariant is
ownership: `RecordScopedMessageOnce` lets one request through, which is the `by` of the
record (`OwnersHoldRecord`); only an owner hands a message on, and is past that call
afterwards (`ExecutedByOwner`); only an owner's outcome is stored or reported
(`ResponsesOfOwner`). Records are never removed, so no second owner can
appear, also not after a restart.

*OutboxProofs* — `OutSpec => []OutboxInv` and `FinalStatesKept`. `DeliveredHasReceipt`
needs to know what the worker holds between two store calls: a message that has a row,
and a task id whenever it is about to record one (`WorkIsQueued`).

*DeliveryProofs* — `Spec => []DeliveryInv` for the composition, and from it `ReceiptNamesOwner`,
`DeliveredIsHandedOnce`, `SettledIsNotSentAgain` and `KeepsPromise`, the refinement of Exchange.
The two sides are not proved again: every step of the composition is a step of Outbox or
leaves it alone (`NextIsSenderStep`), and the same for Gateway (`NextIsReceiverStep`), so
`OutboxInv` and `DedupInv` are preserved by the lemmas `OutboxInductive` and `DedupInductive` of
their own proof modules, taken through INSTANCE. What the composition adds is what
connects them: a request carries a message that has a row, also when it arrives after the
worker gave it up (`RequestsCarryQueued`); a 202, the task the worker holds and the receipt name the
owner of the record (`WorkingNamesOwner`, `ReportedIsOwned`, `ReceiptNamesOwner`). They stay true
because records keep their owner (`RecordsKept`, of Gateway) while the answer is on its way, over
restarts of either side. For the refinement, `Forward` is the only step that hands a message over,
and it happens when `executed[m]` is empty by `OwnersHoldRecord`; `MarkDelivered` is the only one
that confirms, and by then the agent has been handed the message by `ReportedIsOwned`. This last
fact is where `~AcceptsWorking` is needed, and `PromiseIsKept` and `DeliveredOnce` are the only two
theorems that assume it.

*AttachmentProofs* — `DownloadSpec => []DownloadInv`, and from it `BlobIsDeclared`,
`UploadIsResumable`, `FilesArePrefixes`, `GrantsEndWithContact`, `AcknowledgedBytesKept` and
`CompleteFileKept`. `UploadInv` adds to the two properties of the owner what the call that
holds the mutex relies on for its remaining changes (`OpInv`) and the progress of an
upload whether or not a call was cut off (`ProgressInv`): a part never is shorter than the
progress nor longer than the declared size. On the receiving side, `FilesArePrefixes` is preserved
because a file is used for one blob only (`FilesInv`), all grants of a blob name the same
content (`GrantsAgree`), and a call never writes beyond the end of its file and only bytes of the
content (`CallsInv`). That overlapping calls do not harm each other follows: all of them
write the same bytes at the same places.

*CapabilityProofs* — `CapSpec => []CapInv`, and from it `ChallengeUsedOnce`,
`IdentityIsRegistered`, `AgentReusable` and `CurrentKeyOnly`. `RegistrationInv`: at most one
call is past the INSERT, and no token is known while it writes the files, so no rotation
interferes. `ChallengeInv`: who is about to issue a session has taken the
challenge out of the map. `RotationInv` and `GenerationInv`: without overlapping rotations the
generation grows with every rotation, so it stands for a key, in the sessions as well
as in the calls that have read it.

*AdmissionProofs* — `AdmSpec => []AdmInv`, and from it `TakenOnce`. Its parts are `HandlerInv`
(what a handler knows of the window between its readings of the clock) and `NonceInv` (how long
the row of a request that was taken lasts).

*RetryDelayProofs* — `DelayIsInBounds`: for every base, maximum, multiplier, jitter, width and precision,
and whatever an out-of-range conversion yields, the delay is positive, at most the
maximum, and at least a millisecond if base and maximum are (`RoundingFacts`: rounding does not lead past a
float, and a millisecond is one). For a base that a float holds it is not below the exact product or the
maximum, and with a jitter that is not negative the exact sum or the maximum. With the powers of two as
multipliers (`MultiplierFacts`: the exponent stays in the domain of `Pow`) and `NextMillisecond` (a
delay of at least a millisecond ends in a later one) this gives `BackoffIsSound`, and from it `RetryIsLater`.

Only model-checked: `RequestsEnd` and `PendingIsAttempted`. Liveness under fairness is out
of the prover's reach. Every other property of a passing run is also a theorem.

## 6. What could follow

- `CreateInvite`, `acceptInvite` and `ApproveAcceptance` split at their store calls too: a block between
  `rejectBlockedContact` and the write of the contact is overwritten there as it is in
  `ApplyConfirmation`. With every artifact replayable this is too much for TLC in one module; one
  contact row with an arbitrary set of artifacts would be small enough.

## 7. Not modelled

- Cryptography: signatures, key derivation, encryption at rest. Assumed to work; a row
  that cannot be decrypted is listed as a hazard.
- IPC framing, configuration, flag parsing, service files, deployment and end-to-end
  scripts: no state machine of their own. The concurrency of IPC calls is in Outbox and
  Capability.
- Tailscale: an external daemon. Its answers are the nondeterministic failures of
  `Resolve` and the refusal of `Receive`.
- Reading calls (mailbox, status, doctor): they change nothing, apart from the read mark
  of the mailbox, which no other component looks at.
- Server-sent events, agent cards and streaming A2A methods: forwarded without state; the
  reader of an event stream checks a chain of digests within one response.
- The Codex adapter: a program of its own in Python, on top of the app-server of Codex, which
  is not in the repository. Gateway has its answers and errors (`AgentReplies`).
- Databases from before the capability columns: `migrate` adds those columns to `contacts`
  instead of `agent_registrations`, so every registration lookup on such a table fails.
  Capability starts from a new table.
- Signatures of responses, and the audit entries of `Authorize`: nothing reads them back.

`PROJECT.json` lists every component with its status and every hazard with the
properties that cover it, or the reason why none does.
