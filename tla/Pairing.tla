------------------------------- MODULE Pairing -------------------------------
(***************************************************************************)
(* The pairing protocol of linkd (internal/pairing/service.go) with the    *)
(* rows it keeps in SQLite (internal/store/store.go): how two agents turn  *)
(* an invite into a mutual, pinned, active contact, and how either of them *)
(* revokes or blocks the other.                                            *)
(*                                                                         *)
(* Artifacts (invite, acceptance, confirmation, activation receipt,        *)
(* revocation notice) are files that the operators carry between hosts, so *)
(* one may be lost, delayed, or handed over again at any later time: the   *)
(* variable network holds every artifact ever issued and none is ever      *)
(* removed.  Every artifact is signed, and the agent id is a digest of the *)
(* public key, so an artifact from b is one that b issued and the key of b *)
(* is represented by b.                                                    *)
(*                                                                         *)
(* The handlers that read a contact and write the copy back (activating,   *)
(* revoking, blocking) are split there: a call under way is kept in calls, *)
(* so that other calls of the daemon run in between.  What an ended        *)
(* relation does to queued messages and to attachment grants is in Outbox  *)
(* and Download.  CreateInvite, acceptInvite and ApproveAcceptance are one *)
(* step each.                                                              *)
(***************************************************************************)
EXTENDS Naturals, FiniteSets

CONSTANTS
    Calls,      \* the calls of the daemons that may be under way at one time
    Agents,     \* agent ids (each with its one Ed25519 identity)
    Invites,    \* invite ids; bounds how many invites a behaviour creates
    Hosts,      \* host fingerprints an operator may pass on the command line
    NoHost,     \* the empty host fingerprint, which is accepted like any other
    NoKey,      \* the empty agent fingerprint or public key
    NoInvite,   \* the invite id of an artifact that has none
    NoDigest,   \* the empty envelope digest
    NoSession,  \* no pairing_sessions row
    NoCall      \* nothing is under way in a slot of Calls

VARIABLES
    contacts,   \* contacts[a][b]: the row of table contacts that a keeps for b
    requests,   \* requests[a][i]: the pairing_requests row of invite i at a
    sessions,   \* sessions[a][i]: the pairing_sessions row of invite i at a
    latest,     \* latest[a][b]: invite of the session with b that a updated last
    network,    \* every artifact issued so far
    expired,    \* invites whose ExpiresAt has passed
    calls       \* calls[c]: the call under way in c, past its GetContact

rows == <<requests, sessions, latest>>
vars == <<contacts, requests, sessions, latest, network, expired, calls>>

-----------------------------------------------------------------------------
(* Data *)

States == {"none", "pending_outbound", "pending_inbound",
           "awaiting_confirmation", "active", "revoked", "blocked"}
Pinning == {"active", "awaiting_confirmation"}
Fingerprints == Hosts \cup {NoHost}
Keys == Agents \cup {NoKey}

Contact == [state : States, host : Fingerprints, key : Keys]

Kinds == {"invite", "acceptance", "confirmation", "receipt"}

\* A digest identifies the envelope it was computed from (sha256 is taken to be
\* injective): the kind and the fields that can differ for one invite id.
Digests == Kinds \X Invites \X Fingerprints \X Fingerprints

\* host is the sender's own fingerprint; peerHost the one it attributes to the
\* addressee; answers the digest of the artifact this one replies to.
PairingArtifacts ==
    [kind : Kinds, id : Invites, from : Agents, to : Agents, host : Fingerprints,
     peerHost : Fingerprints, answers : Digests \cup {NoDigest}]
RevocationNotices ==
    [kind : {"revocation"}, id : {NoInvite}, from : Agents, to : Agents,
     host : Fingerprints, peerHost : {NoHost}, answers : {NoDigest}]
Artifacts == PairingArtifacts \cup RevocationNotices

Digest(m) == <<m.kind, m.id, m.host, m.peerHost>>

Session == [role : {"inviter", "invitee"}, remote : Agents,
            localHost : Fingerprints, remoteHost : Fingerprints, remoteKey : Keys,
            invite : Digests, acceptance : Digests \cup {NoDigest},
            confirmation : Digests \cup {NoDigest}]

\* A call that holds a copy of the contact of agent with peer: row is that copy with
\* the state it is about to write, issues what it hands to the operator once it has.
Call == [op : {"confirmation", "receipt", "revoke", "revocation", "block"},
         step : {"write", "notify"}, agent : Agents, peer : Agents, row : Contact,
         sawBlocked : BOOLEAN, issues : SUBSET Artifacts]

ASSUME EmptyValuesAreDistinct ==
    /\ NoInvite \notin Invites
    /\ NoKey \notin Agents
    /\ NoDigest \notin Digests
    /\ NoSession \notin Session
    /\ NoCall \notin Call

TypeOK ==
    /\ contacts \in [Agents -> [Agents -> Contact]]
    /\ requests \in [Agents -> [Invites -> {"absent", "open", "consumed"}]]
    /\ sessions \in [Agents -> [Invites -> Session \cup {NoSession}]]
    /\ latest \in [Agents -> [Agents -> Invites \cup {NoInvite}]]
    /\ network \subseteq Artifacts
    /\ expired \subseteq Invites
    /\ calls \in [Calls -> Call \cup {NoCall}]

Init ==
    /\ contacts = [a \in Agents |-> [b \in Agents |->
                     [state |-> "none", host |-> NoHost, key |-> NoKey]]]
    /\ requests = [a \in Agents |-> [i \in Invites |-> "absent"]]
    /\ sessions = [a \in Agents |-> [i \in Invites |-> NoSession]]
    /\ latest = [a \in Agents |-> [b \in Agents |-> NoInvite]]
    /\ network = {}
    /\ expired = {}
    /\ calls = [c \in Calls |-> NoCall]

-----------------------------------------------------------------------------
(* The store *)

\* Mutant of MayUpsert: UpsertContact without its WHERE clause.
MayUpsertAlways(old, new) == TRUE

\* UpsertContact's WHERE clause: a row that is active or awaiting confirmation
\* is only overwritten by one with the same fingerprints.
MayUpsert(old, new) ==
    \/ old.state \notin Pinning
    \/ old.host = new.host /\ old.key = new.key

\* ValidateAndConsumePairingRequestForAgent succeeds.
Consumable(request, i) == request = "open" /\ i \notin expired

\* UpsertPairingSession also moves updated_at, by which FindPairingSession
\* picks the session of a pair of agents.
PutSession(a, i, session) ==
    /\ sessions' = [sessions EXCEPT ![a][i] = session]
    /\ latest' = [latest EXCEPT ![a][session.remote] = i]

\* GetContact of a call that will write the copy back in state st.
Reads(c, op, a, b, st, issues) ==
    /\ calls[c] = NoCall
    /\ calls' = [calls EXCEPT ![c] =
           [op |-> op, step |-> "write", agent |-> a, peer |-> b,
            row |-> [contacts[a][b] EXCEPT !.state = st],
            sawBlocked |-> contacts[a][b].state = "blocked", issues |-> issues]]

-----------------------------------------------------------------------------
(* Inviting: CreateInvite *)

InviteFrom(a, b, i, h) ==
    [kind |-> "invite", id |-> i, from |-> a, to |-> b,
     host |-> h, peerHost |-> NoHost, answers |-> NoDigest]

\* The rows CreateInvite writes before it touches the contact.  The invite id
\* is a fresh uuid.
CreateInviteRows(a, b, i, h) ==
    /\ a # b
    /\ contacts[a][b].state # "blocked"
    /\ \A c \in Agents : requests[c][i] = "absent"
    /\ requests' = [requests EXCEPT ![a][i] = "open"]
    /\ PutSession(a, i, [role |-> "inviter", remote |-> b, localHost |-> h,
                         remoteHost |-> NoHost, remoteKey |-> NoKey,
                         invite |-> Digest(InviteFrom(a, b, i, h)),
                         acceptance |-> NoDigest, confirmation |-> NoDigest])
    /\ UNCHANGED <<expired, calls>>

Outbound == [state |-> "pending_outbound", host |-> NoHost, key |-> NoKey]

CreateInvite(a, b, i, h) ==
    /\ CreateInviteRows(a, b, i, h)
    /\ MayUpsert(contacts[a][b], Outbound)
    /\ contacts' = [contacts EXCEPT ![a][b] = Outbound]
    /\ network' = network \cup {InviteFrom(a, b, i, h)}

\* ErrIdentityConflict: the invite is not returned, its rows stay.
CreateInviteConflict(a, b, i, h) ==
    /\ CreateInviteRows(a, b, i, h)
    /\ ~MayUpsert(contacts[a][b], Outbound)
    /\ UNCHANGED <<contacts, network>>

-----------------------------------------------------------------------------
(* Accepting: the acceptInvite handler runs ImportInvite, then             *)
(* acceptImportedInvite with the invite id the operator passed (or none).  *)

\* Mutant of Importable: an invite that was imported before is imported again.
ImportableAgain(b, m) ==
    /\ m \in network /\ m.kind = "invite"
    /\ m.to = b
    /\ contacts[b][m.from].state # "blocked"
    /\ m.id \notin expired

Importable(b, m) ==
    /\ m \in network /\ m.kind = "invite"
    /\ requests[b][m.id] = "absent"
    /\ m.to = b
    /\ contacts[b][m.from].state # "blocked"
    /\ m.id \notin expired

\* Mutants of Imported: a state no reader knows, and a contact that is not pinned
\* to the inviter's host.
ImportedUnknown(m) == [state |-> "pending", host |-> m.host, key |-> m.from]
ImportedUnpinned(m) == [state |-> "pending_inbound", host |-> NoHost, key |-> m.from]

Imported(m) == [state |-> "pending_inbound", host |-> m.host, key |-> m.from]

ImportedSession(m) ==
    [role |-> "invitee", remote |-> m.from, localHost |-> NoHost,
     remoteHost |-> m.host, remoteKey |-> m.from, invite |-> Digest(m),
     acceptance |-> NoDigest, confirmation |-> NoDigest]

\* acceptImportedInvite, in the state ImportInvite(m) leaves, selects the
\* contact r and consumes the request of the latest session with r.
Accepts(b, m, id, r) ==
    LET contact == [contacts[b] EXCEPT ![m.from] = Imported(m)]
        session == [sessions[b] EXCEPT ![m.id] = ImportedSession(m)]
        request == [requests[b] EXCEPT ![m.id] = "open"]
        i == [latest[b] EXCEPT ![m.from] = m.id][r]
    IN  /\ contact[r].state = "pending_inbound"
        /\ IF id = NoInvite
           THEN \A q \in Agents : contact[q].state = "pending_inbound" => q = r
           ELSE session[id] # NoSession /\ session[id].remote = r
        /\ i # NoInvite
        /\ Consumable(request[i], i)

AcceptanceFrom(b, r, i, h, session) ==
    [kind |-> "acceptance", id |-> i, from |-> b, to |-> r,
     host |-> h, peerHost |-> NoHost, answers |-> session.invite]

AcceptInvite(b, m, id, r, h) ==
    /\ Importable(b, m)
    /\ MayUpsert(contacts[b][m.from], Imported(m))
    /\ Accepts(b, m, id, r)
    /\ LET i == [latest[b] EXCEPT ![m.from] = m.id][r]
           imported == [sessions[b] EXCEPT ![m.id] = ImportedSession(m)]
           acceptance == AcceptanceFrom(b, r, i, h, imported[i])
       IN  /\ contacts' = [contacts EXCEPT ![b] =
                  [[@ EXCEPT ![m.from] = Imported(m)]
                      EXCEPT ![r].state = "awaiting_confirmation"]]
           /\ requests' = [requests EXCEPT ![b] =
                  [[@ EXCEPT ![m.id] = "open"] EXCEPT ![i] = "consumed"]]
           /\ sessions' = [sessions EXCEPT ![b] =
                  [imported EXCEPT ![i].localHost = h,
                                   ![i].acceptance = Digest(acceptance)]]
           /\ latest' = [latest EXCEPT ![b] =
                  [[@ EXCEPT ![m.from] = m.id] EXCEPT ![r] = i]]
           /\ network' = network \cup {acceptance}
    /\ UNCHANGED <<expired, calls>>

\* ImportInvite fails on the contact after it wrote its two rows, or succeeds
\* and acceptImportedInvite then finds nothing it may accept.
ImportOnly(b, m, id) ==
    /\ Importable(b, m)
    /\ requests' = [requests EXCEPT ![b][m.id] = "open"]
    /\ PutSession(b, m.id, ImportedSession(m))
    /\ \/ /\ ~MayUpsert(contacts[b][m.from], Imported(m))
          /\ UNCHANGED contacts
       \/ /\ MayUpsert(contacts[b][m.from], Imported(m))
          /\ \A r \in Agents : ~Accepts(b, m, id, r)
          /\ contacts' = [contacts EXCEPT ![b][m.from] = Imported(m)]
    /\ UNCHANGED <<network, expired, calls>>

-----------------------------------------------------------------------------
(* Approving: ApproveAcceptance, with the fingerprints the operator expects *)

ConfirmationOf(m, session) ==
    [kind |-> "confirmation", id |-> m.id, from |-> m.to, to |-> m.from,
     host |-> session.localHost, peerHost |-> m.host, answers |-> Digest(m)]

\* Mutant of ApproveRows: the request is validated, but not marked as consumed.
ApproveRowsOpen(a, m) ==
    /\ m \in network /\ m.kind = "acceptance"
    /\ sessions[a][m.id] # NoSession
    /\ LET session == sessions[a][m.id]
       IN  /\ session.role = "inviter"
           /\ session.remote = m.from
           /\ m.to = a
           /\ m.answers = session.invite
           /\ Consumable(requests[a][m.id], m.id)
           /\ PutSession(a, m.id, [session EXCEPT !.remoteHost = m.host,
                  !.remoteKey = m.from, !.acceptance = Digest(m),
                  !.confirmation = Digest(ConfirmationOf(m, session))])
    /\ UNCHANGED <<requests, expired, calls>>

ApproveRows(a, m) ==
    /\ m \in network /\ m.kind = "acceptance"
    /\ sessions[a][m.id] # NoSession
    /\ LET session == sessions[a][m.id]
       IN  /\ session.role = "inviter"
           /\ session.remote = m.from
           /\ m.to = a
           /\ m.answers = session.invite
           /\ Consumable(requests[a][m.id], m.id)
           /\ requests' = [requests EXCEPT ![a][m.id] = "consumed"]
           /\ PutSession(a, m.id, [session EXCEPT !.remoteHost = m.host,
                  !.remoteKey = m.from, !.acceptance = Digest(m),
                  !.confirmation = Digest(ConfirmationOf(m, session))])
    /\ UNCHANGED <<expired, calls>>

\* Mutant of Approved: the inviter does not wait for the activation receipt.
ApprovedActive(m) == [state |-> "active", host |-> m.host, key |-> m.from]

Approved(m) == [state |-> "awaiting_confirmation", host |-> m.host, key |-> m.from]

ApproveAcceptance(a, m) ==
    /\ ApproveRows(a, m)
    /\ MayUpsert(contacts[a][m.from], Approved(m))
    /\ contacts' = [contacts EXCEPT ![a][m.from] = Approved(m)]
    /\ network' = network \cup {ConfirmationOf(m, sessions[a][m.id])}

\* ErrIdentityMismatch: the request stays consumed, no confirmation leaves.
ApproveConflict(a, m) ==
    /\ ApproveRows(a, m)
    /\ ~MayUpsert(contacts[a][m.from], Approved(m))
    /\ UNCHANGED <<contacts, network>>

-----------------------------------------------------------------------------
(* Activating: ApplyConfirmation and ApplyActivationReceipt *)

ReceiptFor(m) ==
    [kind |-> "receipt", id |-> m.id, from |-> m.to, to |-> m.from,
     host |-> m.peerHost, peerHost |-> NoHost, answers |-> Digest(m)]

\* Whether confirmation m belongs to b's session of its invite.
ConfirmationMatches(b, m) ==
    /\ m \in network /\ m.kind = "confirmation"
    /\ sessions[b][m.id] # NoSession
    /\ LET session == sessions[b][m.id]
       IN  /\ session.role = "invitee"
           /\ session.remoteKey = m.from /\ session.remote = m.from
           /\ m.to = b
           /\ m.host = session.remoteHost
           /\ m.peerHost = session.localHost
           /\ m.answers = session.acceptance

\* The session is updated before the contact is looked at, so a confirmation
\* that is refused for the contact's state still moves updated_at.
ApplyConfirmation(c, b, m) ==
    /\ ConfirmationMatches(b, m)
    /\ PutSession(b, m.id, [sessions[b][m.id] EXCEPT !.confirmation = Digest(m)])
    /\ \/ /\ contacts[b][m.from].state = "awaiting_confirmation"
          /\ Reads(c, "confirmation", b, m.from, "active", {ReceiptFor(m)})
       \/ /\ contacts[b][m.from].state # "awaiting_confirmation"
          /\ UNCHANGED calls
    /\ UNCHANGED <<contacts, requests, network, expired>>

\* Whether receipt m belongs to a's session of its invite.
ReceiptMatches(a, m) ==
    /\ m \in network /\ m.kind = "receipt"
    /\ sessions[a][m.id] # NoSession
    /\ LET session == sessions[a][m.id]
       IN  /\ session.role = "inviter"
           /\ session.remoteKey = m.from /\ session.remote = m.from
           /\ m.to = a
           /\ m.host = session.remoteHost
           /\ m.answers = session.confirmation

\* Mutant of ApplyActivationReceipt: the contact's state is not looked at.
ApplyReceiptAnyState(c, a, m) ==
    /\ ReceiptMatches(a, m)
    /\ Reads(c, "receipt", a, m.from, "active", {})
    /\ UNCHANGED <<contacts, rows, network, expired>>

ApplyActivationReceipt(c, a, m) ==
    /\ ReceiptMatches(a, m)
    /\ contacts[a][m.from].state = "awaiting_confirmation"
    /\ Reads(c, "receipt", a, m.from, "active", {})
    /\ UNCHANGED <<contacts, rows, network, expired>>

-----------------------------------------------------------------------------
(* Ending a relation: Revoke, ApplyRevocation, Block *)

Revoke(c, a, b) ==
    /\ contacts[a][b].state \notin {"none", "blocked"}
    /\ Reads(c, "revoke", a, b, "revoked", {})
    /\ UNCHANGED <<contacts, rows, network, expired>>

ApplyRevocation(c, b, m) ==
    /\ m \in network /\ m.kind = "revocation" /\ m.to = b
    /\ contacts[b][m.from].state # "none"
    /\ m.host = contacts[b][m.from].host
    /\ m.from = contacts[b][m.from].key
    /\ Reads(c, "revocation", b, m.from, "revoked", {})
    /\ UNCHANGED <<contacts, rows, network, expired>>

Block(c, a, b) ==
    /\ contacts[a][b].state # "none"
    /\ Reads(c, "block", a, b, "blocked", {})
    /\ UNCHANGED <<contacts, rows, network, expired>>

-----------------------------------------------------------------------------
(* The calls under way *)

\* UpsertContact with the copy read before.  Only revokeContact goes on after it.
WriteContact(c) ==
    /\ calls[c] # NoCall /\ calls[c].step = "write"
    /\ LET call == calls[c]
       IN  /\ MayUpsert(contacts[call.agent][call.peer], call.row)
           /\ contacts' = [contacts EXCEPT ![call.agent][call.peer] = call.row]
           /\ network' = network \cup call.issues
           /\ calls' = [calls EXCEPT ![c] =
                  IF call.op = "revoke" THEN [call EXCEPT !.step = "notify"] ELSE NoCall]
    /\ UNCHANGED <<rows, expired>>

NoticeFrom(a, b, session) ==
    [kind |-> "revocation", id |-> NoInvite, from |-> a, to |-> b,
     host |-> session.localHost, peerHost |-> NoHost, answers |-> NoDigest]

\* RevokeWithNotice after Revoke: a notice signed with the local host fingerprint of
\* the session that was updated last.
RevokeWithNotice(c) ==
    /\ calls[c] # NoCall /\ calls[c].step = "notify"
    /\ LET a == calls[c].agent
           b == calls[c].peer
       IN  /\ latest[a][b] # NoInvite
           /\ network' = network \cup {NoticeFrom(a, b, sessions[a][latest[a][b]])}
    /\ calls' = [calls EXCEPT ![c] = NoCall]
    /\ UNCHANGED <<contacts, rows, expired>>

\* The call returns an error (ErrIdentityConflict, or one of the store), or the
\* daemon stops: what it has not written yet is never written.
EndCall(c) ==
    /\ calls[c] # NoCall
    /\ calls' = [calls EXCEPT ![c] = NoCall]
    /\ UNCHANGED <<contacts, rows, network, expired>>

-----------------------------------------------------------------------------
(* Time *)

Expire(i) ==
    /\ i \notin expired
    /\ expired' = expired \cup {i}
    /\ UNCHANGED <<contacts, rows, network, calls>>

Next ==
    \/ \E a, b \in Agents, i \in Invites, h \in Fingerprints :
          CreateInvite(a, b, i, h) \/ CreateInviteConflict(a, b, i, h)
    \/ \E b, r \in Agents, m \in network, id \in Invites \cup {NoInvite}, h \in Fingerprints :
          AcceptInvite(b, m, id, r, h)
    \/ \E b \in Agents, m \in network, id \in Invites \cup {NoInvite} :
          ImportOnly(b, m, id)
    \/ \E a \in Agents, m \in network :
          \/ ApproveAcceptance(a, m)
          \/ ApproveConflict(a, m)
    \/ \E c \in Calls, a \in Agents, m \in network :
          \/ ApplyConfirmation(c, a, m)
          \/ ApplyActivationReceipt(c, a, m)
          \/ ApplyRevocation(c, a, m)
    \/ \E c \in Calls, a, b \in Agents :
          \/ Revoke(c, a, b)
          \/ Block(c, a, b)
    \/ \E c \in Calls :
          \/ WriteContact(c)
          \/ RevokeWithNotice(c)
          \/ EndCall(c)
    \/ \E i \in Invites : Expire(i)

Spec == Init /\ [][Next]_vars

-----------------------------------------------------------------------------
(* Properties *)

\* The artifacts of invite i with inviter a and invitee b, one per stage.
Sent(kind, i, x, y) ==
    \E m \in network : m.kind = kind /\ m.id = i /\ m.from = x /\ m.to = y

\* For some invite between a and b everything was issued that a has to see before it
\* makes the contact active: as the invitee the confirmation, as the inviter the receipt.
Consented(a, b) ==
    \E i \in Invites :
        \/ /\ Sent("invite", i, b, a) /\ Sent("acceptance", i, a, b)
           /\ Sent("confirmation", i, b, a)
        \/ /\ Sent("invite", i, a, b) /\ Sent("acceptance", i, b, a)
           /\ Sent("confirmation", i, a, b) /\ Sent("receipt", i, b, a)

\* The identity of contact row is one that b presented to a.
Presented(a, b, row) ==
    /\ row.key = b
    /\ \E m \in network : /\ m.kind \in {"invite", "acceptance"}
                          /\ m.from = b /\ m.to = a
                          /\ m.host = row.host

\* The peer b issued a notice that it revoked its contact with a.
Noticed(a, b) == \E m \in network : m.kind = "revocation" /\ m.from = b /\ m.to = a

\* Both operators took part before a contact is active: if a's contact with b
\* is active, then for some invite between the two the invite, the acceptance
\* and the inviter's confirmation were all issued, and if a was the inviter it
\* also received b's activation receipt (ApplyConfirmation,
\* ApplyActivationReceipt, ApproveAcceptance).
ActiveByConsent ==
    \A a, b \in Agents : contacts[a][b].state = "active" => Consented(a, b)

\* An invite is used at most once: no two different acceptances and no two
\* different confirmations are ever issued for one invite id, however often the
\* artifacts are handed over (ValidateAndConsumePairingRequestForAgent).
InviteSingleUse ==
    \A m, n \in network :
        /\ m.kind = n.kind /\ m.id = n.id
        /\ m.kind \in {"invite", "acceptance", "confirmation"}
        => m = n

\* The identity a contact is pinned to is one the peer itself presented to this
\* agent in an invite or an acceptance, never a third party's, and an empty host
\* fingerprint only if the peer presented an empty one, as soon as the contact is
\* awaiting confirmation or active (UpsertContact).
PinnedByPeer ==
    \A a, b \in Agents : contacts[a][b].state \in Pinning => Presented(a, b, contacts[a][b])

\* While a contact stays active or awaiting confirmation, no step replaces the
\* fingerprints it is pinned to (UpsertContact's WHERE clause).
PinnedIdentityKept ==
    [][\A a, b \in Agents :
          /\ contacts[a][b].state \in Pinning
          /\ contacts'[a][b].state \in Pinning
          => /\ contacts'[a][b].host = contacts[a][b].host
             /\ contacts'[a][b].key = contacts[a][b].key]_vars

\* No call undoes a block that it found: a contact goes from blocked to active only
\* by the write of a confirmation or receipt that had read it before it was blocked,
\* and to revoked only by such a call too, or on a notice that the peer issued
\* (GetContact and UpsertContact of ApplyConfirmation, ApplyActivationReceipt, Revoke
\* and ApplyRevocation; BlockIsKept below says that a block is never undone at all).
NoCallUndoesBlock ==
    [][\A a, b \in Agents :
          /\ contacts[a][b].state = "blocked"
          /\ contacts'[a][b].state \in {"active", "revoked"}
          => \/ \E c \in Calls : /\ calls[c] # NoCall /\ ~calls[c].sawBlocked
                                 /\ calls[c].agent = a /\ calls[c].peer = b
                                 /\ calls[c].row = contacts'[a][b]
             \/ contacts'[a][b].state = "revoked" /\ Noticed(a, b)]_vars

-----------------------------------------------------------------------------
(* The inductive strengthening of the properties above *)

\* A session row has its request row, and an invitee's session is backed by the
\* invite it was imported from.
SessionsBacked ==
    \A a \in Agents, i \in Invites : sessions[a][i] # NoSession =>
        /\ requests[a][i] # "absent"
        /\ sessions[a][i].role = "invitee" => Sent("invite", i, sessions[a][i].remote, a)

\* The session FindPairingSession returns exists, is one with that peer, and is
\* an imported one whenever the contact waits for acceptImportedInvite.
LatestBacked ==
    \A a, b \in Agents :
        /\ latest[a][b] # NoInvite => /\ sessions[a][latest[a][b]] # NoSession
                                     /\ sessions[a][latest[a][b]].remote = b
        /\ contacts[a][b].state = "pending_inbound" =>
              /\ latest[a][b] # NoInvite
              /\ sessions[a][latest[a][b]].role = "invitee"

\* Every artifact rests on the ones it answers, and its sender's request row
\* records that it was issued.
ArtifactsBacked ==
    \A m \in network : m.kind # "revocation" =>
        /\ m.kind = "invite" => requests[m.from][m.id] # "absent"
        /\ m.kind \in {"acceptance", "confirmation"} => requests[m.from][m.id] = "consumed"
        /\ m.kind \in {"acceptance", "receipt"} => Sent("invite", m.id, m.to, m.from)
        /\ m.kind = "confirmation" => /\ Sent("invite", m.id, m.from, m.to)
                                      /\ Sent("acceptance", m.id, m.to, m.from)
        /\ m.kind = "receipt" => /\ Sent("acceptance", m.id, m.from, m.to)
                                 /\ Sent("confirmation", m.id, m.to, m.from)

\* The peer presented the pinned identity already when the invite is imported.
PresentedByPeer ==
    \A a, b \in Agents : contacts[a][b].state \in Pinning \cup {"pending_inbound"} =>
        Presented(a, b, contacts[a][b])

\* A call under way may write its contact at any later time.  One that will activate
\* carries the identity that the peer presented and a consent that does not go away,
\* and did not find the contact blocked; the receipt it issues rests on the exchange.
CallBacked(call) ==
    /\ call.row.state \in {"active", "revoked", "blocked"}
    /\ call.row.state = "active" =>
          /\ ~call.sawBlocked
          /\ Consented(call.agent, call.peer)
          /\ Presented(call.agent, call.peer, call.row)
    /\ call.row.state = "revoked" => ~call.sawBlocked \/ Noticed(call.agent, call.peer)
    /\ \A m \in call.issues :
          /\ m.kind = "receipt"
          /\ Sent("invite", m.id, m.to, m.from)
          /\ Sent("acceptance", m.id, m.from, m.to)
          /\ Sent("confirmation", m.id, m.to, m.from)

CallsBacked == \A c \in Calls : calls[c] # NoCall => CallBacked(calls[c])

\* The inductive invariant of the pairing protocol: the session rows, the
\* request rows and the issued artifacts of CreateInvite, ImportInvite,
\* acceptImportedInvite and ApproveAcceptance agree with each other at every
\* point, so that no handler acts on a row that nothing backs.
ConsentInv ==
    /\ TypeOK
    /\ SessionsBacked
    /\ LatestBacked
    /\ ArtifactsBacked
    /\ PresentedByPeer
    /\ InviteSingleUse
    /\ ActiveByConsent
    /\ CallsBacked

-----------------------------------------------------------------------------
(* What the documentation says and the code does not do *)

\* docs/operations.md: block additionally refuses later pairing, and Revoke refuses
\* the transition "blocked to revoked".  So nothing that arrives from the peer moves
\* a contact out of blocked, and no call does (ApproveAcceptance and ApplyRevocation
\* do not check for it).
BlockIsKept ==
    [][\A a, b \in Agents : contacts[a][b].state = "blocked" =>
          contacts'[a][b].state = "blocked"]_vars

\* The pairing specification: a relation becomes active only after both sides
\* confirmed each other's fingerprints.  The host a contact is pinned to while
\* active is then one the peer confirmed (or acknowledged) this pairing with.
ActiveFingerprintConfirmed ==
    \A a, b \in Agents : contacts[a][b].state = "active" =>
        \E m \in network : /\ m.kind \in {"confirmation", "receipt"}
                           /\ m.from = b /\ m.to = a
                           /\ m.host = contacts[a][b].host

=============================================================================
