------------------------------ MODULE Admission ------------------------------
(***************************************************************************)
(* How a signed request is taken only once: the time window of its         *)
(* signature and the table replay_nonces, for the three places that check  *)
(* both.                                                                   *)
(*                                                                         *)
(*   rpc       authorized in internal/gateway/router.go with               *)
(*             VerifyRequestForTarget in internal/transport                *)
(*   blob      blob in internal/gateway/blob.go with VerifyBlobRequest in  *)
(*             internal/attachment                                         *)
(*   envelope  Authorize in internal/admission                             *)
(*                                                                         *)
(* The same request may arrive any number of times, and its deliveries are *)
(* handled at the same time.  A handler reads the clock when it checks the *)
(* window; an rpc handler reads it again for the expiry of the nonce and   *)
(* once more for the claim, and the transaction may come later still.      *)
(* Times are integers; the table keeps milliseconds, so a time is cut to a *)
(* multiple of Grain.  The clock of this host is assumed not to go back;   *)
(* the created time of a request is from the clock of another host and may *)
(* be anything.  The checks of contact, fingerprint, digest and signature  *)
(* do not depend on time: a delivery that fails one of them changes        *)
(* nothing and is no step.                                                 *)
(***************************************************************************)
EXTENDS Integers

CONSTANTS
    Requests,   \* signed requests, each with a nonce of its own
    Handlers,   \* deliveries that may be handled at the same time
    Window,     \* allowedSkew, five minutes
    Lifetime,   \* expires - created in the signature of a blob request
    Grain,      \* a millisecond in the unit of time
    MaxTime,    \* bounds the clock
    NoRequest   \* the handler is idle

VARIABLES
    now,        \* the clock of the receiving host
    kind,       \* kind[r]: where the request is sent
    created,    \* created[r]: the time in its signature, in whole seconds or milliseconds
    table,      \* table[r]: expires_at in replay_nonces, -1 if there is no row
    handlers,   \* handlers[h]: the delivery that h handles
    count,      \* history: how often a request was taken, 2 for more than once
    first,      \* history: the reading its first expiry was computed from
    last,       \* history: the reading its latest claim was made with
    pause       \* history: longest time from the check to the reading of a claim

vars == <<now, kind, created, table, handlers, count, first, last, pause>>
requests == <<kind, created>>
history == <<count, first, last, pause>>

ASSUME TimesAreNatural ==
    /\ Window \in Nat /\ Lifetime \in Nat /\ MaxTime \in Nat /\ Grain \in Nat \ {0}
    /\ Grain <= Window /\ Lifetime <= Window
ASSUME NothingIsARequest == NoRequest \notin Requests

Kinds == {"rpc", "blob", "envelope"}
\* seen: the reading the window was checked with; stamp: the one the expiry is
\* computed from; asof: the one the claim is made with.
Handler == [pc : {"idle", "checked", "stamped", "claim"}, req : Requests \cup {NoRequest},
            seen : Nat, stamp : Nat, asof : Nat]
IdleHandler == [pc |-> "idle", req |-> NoRequest, seen |-> 0, stamp |-> 0, asof |-> 0]

AdmTypeOK ==
    /\ now \in Nat /\ pause \in Nat
    /\ kind \in [Requests -> Kinds]
    /\ created \in [Requests -> Nat]
    /\ table \in [Requests -> Int]
    /\ handlers \in [Handlers -> Handler]
    /\ count \in [Requests -> 0..2] /\ first \in [Requests -> Nat] /\ last \in [Requests -> Nat]

AdmInit ==
    /\ now = 0 /\ pause = 0
    /\ kind \in [Requests -> Kinds]
    /\ created \in [Requests -> {time \in 0..MaxTime : time % Grain = 0}]
    /\ table = [r \in Requests |-> -1]
    /\ handlers = [h \in Handlers |-> IdleHandler]
    /\ count = [r \in Requests |-> 0]
    /\ first = [r \in Requests |-> 0]
    /\ last = [r \in Requests |-> 0]

-----------------------------------------------------------------------------
(* Steps *)

\* millis: what the table keeps of a time.
Millis(time) == time - (time % Grain)

\* Neither too old nor too far ahead.
InWindow(r) == created[r] >= now - Window /\ created[r] <= now + Window

\* validBlobSignatureTime; expires is at most created + 5 minutes as Lifetime is.
Valid(r) == InWindow(r) /\ (kind[r] = "blob" => created[r] + Lifetime > now)

\* The window is checked; blob and Authorize use this reading of the clock for the
\* nonce as well.
CheckWindow(h, r) ==
    /\ handlers[h].pc = "idle"
    /\ Valid(r)
    /\ handlers' = [handlers EXCEPT ![h] =
          IF kind[r] = "rpc" THEN [IdleHandler EXCEPT !.pc = "checked", !.req = r, !.seen = now]
          ELSE [pc |-> "claim", req |-> r, seen |-> now, stamp |-> now, asof |-> now]]
    /\ UNCHANGED <<now, requests, table, history>>

\* authorized reads the clock again, for each of the two arguments.
ReadExpiry(h) ==
    /\ handlers[h].pc = "checked"
    /\ handlers' = [handlers EXCEPT ![h] = [@ EXCEPT !.pc = "stamped", !.stamp = now]]
    /\ UNCHANGED <<now, requests, table, history>>

ReadClock(h) ==
    /\ handlers[h].pc = "stamped"
    /\ handlers' = [handlers EXCEPT ![h] = [@ EXCEPT !.pc = "claim", !.asof = now]]
    /\ UNCHANGED <<now, requests, table, history>>

\* Mutant of ExpiresAt: as long as the request is in its window.
ExpiresWithWindow(h) == created[handlers[h].req] + Window

\* Until when the nonce is to be kept.
ExpiresAt(h) ==
    IF kind[handlers[h].req] = "envelope" THEN created[handlers[h].req] + Window
    ELSE handlers[h].stamp + Window

\* ClaimReplayNonce: an expired row is deleted, INSERT OR IGNORE, in one transaction.
ClaimReplayNonce(h) ==
    LET r == handlers[h].req
        free == table[r] = -1 \/ table[r] <= Millis(handlers[h].asof)
        waited == handlers[h].asof - handlers[h].seen
    IN  /\ handlers[h].pc = "claim"
        /\ handlers' = [handlers EXCEPT ![h] = IdleHandler]
        /\ IF free
           THEN /\ table' = [table EXCEPT ![r] = Millis(ExpiresAt(h))]
                /\ count' = [count EXCEPT ![r] = IF @ = 0 THEN 1 ELSE 2]
                /\ first' = IF count[r] = 0 THEN [first EXCEPT ![r] = handlers[h].stamp] ELSE first
                /\ last' = [last EXCEPT ![r] = handlers[h].asof]
                /\ pause' = IF waited > pause THEN waited ELSE pause
           ELSE UNCHANGED <<table, history>>
        /\ UNCHANGED <<now, requests>>

\* An error ends one delivery, a restart all of them; the table stays.
DeliveryFails(h) ==
    /\ handlers[h].pc # "idle"
    /\ handlers' = [handlers EXCEPT ![h] = IdleHandler]
    /\ UNCHANGED <<now, requests, table, history>>

Restart ==
    /\ handlers' = [h \in Handlers |-> IdleHandler]
    /\ UNCHANGED <<now, requests, table, history>>

Tick ==
    /\ now < MaxTime
    /\ now' = now + 1
    /\ UNCHANGED <<requests, table, handlers, history>>

AdmNext ==
    \/ \E h \in Handlers :
          \/ \E r \in Requests : CheckWindow(h, r)
          \/ ReadExpiry(h) \/ ReadClock(h) \/ ClaimReplayNonce(h) \/ DeliveryFails(h)
    \/ Restart \/ Tick

AdmSpec == AdmInit /\ [][AdmNext]_vars

-----------------------------------------------------------------------------
(* Properties *)

\* What it takes for a request to be taken a second time, over any duplicates, delays
\* and restarts.  An rpc request: it is dated after the reading of the clock from
\* which the expiry of its nonce was computed, or before it by less than a
\* millisecond and the longest pause of a handler between its readings.  A blob
\* request: it is dated more than Window - Lifetime ahead of that reading, up to a
\* millisecond.  An envelope: it is taken in the last millisecond of its window.
\* These are necessary conditions; that the second one then succeeds is not said.
TakenOnce ==
    \A r \in Requests : count[r] = 2 =>
        /\ kind[r] = "rpc" => first[r] < created[r] + pause + Grain
        /\ kind[r] = "blob" => first[r] < created[r] - (Window - Lifetime) + Grain
        /\ kind[r] = "envelope" => last[r] > created[r] + Window - Grain

\* What a handler knows between its steps.
HandlerInv ==
    \A h \in Handlers : handlers[h].pc # "idle" =>
        LET r == handlers[h].req
            seen == handlers[h].seen
        IN  /\ r \in Requests
            /\ created[r] >= seen - Window /\ created[r] <= seen + Window
            /\ kind[r] = "blob" => created[r] + Lifetime > seen
            /\ kind[r] # "rpc" => handlers[h].stamp = seen /\ handlers[h].asof = seen /\ handlers[h].pc = "claim"
            /\ seen <= now /\ (handlers[h].pc = "claim" => seen <= handlers[h].asof)

\* The row of a request that was taken once outlasts the reading of its expiry by
\* the window; that of an envelope lasts as long as the window of the envelope.
NonceInv ==
    \A r \in Requests :
        /\ count[r] = 0 <=> table[r] = -1
        /\ count[r] > 0 =>
              /\ table[r] > -1
              /\ kind[r] # "envelope" /\ count[r] = 1 => table[r] > first[r] + Window - Grain
              /\ kind[r] = "envelope" => table[r] > created[r] + Window - Grain

\* The inductive invariant of the nonces: what a handler holds, and how long a row lasts.
AdmInv == AdmTypeOK /\ HandlerInv /\ NonceInv /\ TakenOnce
=============================================================================
