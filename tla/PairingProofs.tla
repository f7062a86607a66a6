--------------------------- MODULE PairingProofs -----------------------------
(***************************************************************************)
(* Theorems about Pairing for any sets of agents, invites and hosts.  The  *)
(* type invariant is proved first; ConsentInv is then shown inductive, one *)
(* lemma for the actions that only touch one conjunct at a time.           *)
(***************************************************************************)
EXTENDS Pairing, TLAPS

USE EmptyValuesAreDistinct

-----------------------------------------------------------------------------
(* Types of the records the handlers build *)

\* An artifact of the pairing exchange carries an invite id and has a digest.
LEMMA ArtifactType ==
    ASSUME NEW m \in Artifacts, m.kind # "revocation"
    PROVE  m \in PairingArtifacts /\ m.id \in Invites /\ Digest(m) \in Digests
  BY DEF Artifacts, PairingArtifacts, RevocationNotices, Digest, Digests

\* The invite CreateInvite signs is well formed.
LEMMA InviteType ==
    ASSUME NEW a \in Agents, NEW b \in Agents, NEW i \in Invites, NEW h \in Fingerprints
    PROVE  /\ InviteFrom(a, b, i, h) \in PairingArtifacts
           /\ Digest(InviteFrom(a, b, i, h)) \in Digests
  BY DEF InviteFrom, PairingArtifacts, Kinds, Fingerprints, Digest, Digests

\* The contact and the session ImportInvite writes are well formed.
LEMMA ImportedType ==
    ASSUME NEW m \in PairingArtifacts
    PROVE  /\ Imported(m) \in Contact
           /\ ImportedSession(m) \in Session
  BY DEF Imported, ImportedSession, Contact, Session, States, PairingArtifacts, Keys,
         Fingerprints, Digest, Digests

\* The acceptance acceptImportedInvite signs is well formed.
LEMMA AcceptanceType ==
    ASSUME NEW b \in Agents, NEW r \in Agents, NEW i \in Invites, NEW h \in Fingerprints,
           NEW s \in Session
    PROVE  /\ AcceptanceFrom(b, r, i, h, s) \in PairingArtifacts
           /\ Digest(AcceptanceFrom(b, r, i, h, s)) \in Digests
  BY DEF AcceptanceFrom, Session, PairingArtifacts, Kinds, Fingerprints, Digest, Digests

\* The confirmation ApproveAcceptance signs and the contact it writes are well formed.
LEMMA ConfirmationType ==
    ASSUME NEW m \in PairingArtifacts, NEW s \in Session
    PROVE  /\ ConfirmationOf(m, s) \in PairingArtifacts
           /\ Digest(ConfirmationOf(m, s)) \in Digests
           /\ Approved(m) \in Contact
  BY DEF ConfirmationOf, Session, PairingArtifacts, Kinds, Fingerprints, Digest, Digests,
         Approved, Contact, States, Keys

\* The activation receipt ApplyConfirmation signs is well formed.
LEMMA ReceiptType ==
    ASSUME NEW m \in PairingArtifacts
    PROVE  ReceiptFor(m) \in PairingArtifacts
  BY DEF ReceiptFor, PairingArtifacts, Kinds, Fingerprints, Digest, Digests

\* The revocation notice of RevokeWithNotice is well formed.
LEMMA NoticeType ==
    ASSUME NEW a \in Agents, NEW b \in Agents, NEW s \in Session
    PROVE  NoticeFrom(a, b, s) \in RevocationNotices
  BY DEF NoticeFrom, RevocationNotices, Session, Fingerprints

-----------------------------------------------------------------------------
(* Type correctness *)

\* A well-typed session can be written and makes itself the latest one.
LEMMA PutSessionType ==
    ASSUME TypeOK, NEW a \in Agents, NEW i \in Invites, NEW s \in Session,
           PutSession(a, i, s)
    PROVE  /\ sessions' \in [Agents -> [Invites -> Session \cup {NoSession}]]
           /\ latest' \in [Agents -> [Agents -> Invites \cup {NoInvite}]]
           /\ \A c \in Agents, j \in Invites :
                sessions'[c][j] = IF c = a /\ j = i THEN s ELSE sessions[c][j]
           /\ \A c, d \in Agents :
                latest'[c][d] = IF c = a /\ d = s.remote THEN i ELSE latest[c][d]
  <1>1. s.remote \in Agents
    BY DEF Session
  <1> QED
    BY <1>1 DEF TypeOK, PutSession

\* How UpsertContact replaces one contact.
PutsContact(a, b, c) == contacts' = [contacts EXCEPT ![a][b] = c]

\* The same for a contact row and for a request row.
LEMMA PutContactType ==
    ASSUME TypeOK, NEW a \in Agents, NEW b \in Agents, NEW c \in Contact,
           PutsContact(a, b, c)
    PROVE  /\ contacts' \in [Agents -> [Agents -> Contact]]
           /\ \A x, y \in Agents :
                contacts'[x][y] = IF x = a /\ y = b THEN c ELSE contacts[x][y]
  BY DEF TypeOK, PutsContact

\* A request row that is opened or consumed leaves the other rows alone.
LEMMA PutRequestType ==
    ASSUME TypeOK, NEW a \in Agents, NEW i \in Invites, NEW v \in {"open", "consumed"},
           requests' = [requests EXCEPT ![a][i] = v]
    PROVE  /\ requests' \in [Agents -> [Invites -> {"absent", "open", "consumed"}]]
           /\ \A x \in Agents, j \in Invites :
                requests'[x][j] = IF x = a /\ j = i THEN v ELSE requests[x][j]
  BY DEF TypeOK

-----------------------------------------------------------------------------
(* What each conjunct of ConsentInv needs from a step *)

\* Request rows only move forward, and artifacts are never withdrawn.
Grows ==
    /\ network \subseteq network'
    /\ \A x \in Agents, j \in Invites :
          /\ requests[x][j] # "absent" => requests'[x][j] # "absent"
          /\ requests[x][j] = "consumed" => requests'[x][j] = "consumed"

\* An artifact that was issued stays issued.
LEMMA SentStable ==
    ASSUME network \subseteq network', NEW k, NEW i, NEW x, NEW y, Sent(k, i, x, y)
    PROVE  Sent(k, i, x, y)'
  BY DEF Sent

\* A consent stays given.
LEMMA ConsentedStable ==
    ASSUME network \subseteq network', NEW x, NEW y, Consented(x, y)
    PROVE  Consented(x, y)'
  BY SentStable DEF Consented

\* A step that leaves the calls under way alone keeps what backs them.
LEMMA CallsStep ==
    ASSUME network \subseteq network', calls' = calls, CallsBacked
    PROVE  CallsBacked'
  BY DEF CallsBacked, CallBacked, Consented, Presented, Noticed, Sent

\* A step that activates no contact preserves ActiveByConsent.
LEMMA ActiveStep ==
    ASSUME network \subseteq network', ActiveByConsent,
           \A x, y \in Agents : contacts'[x][y].state = "active" => contacts[x][y].state = "active"
    PROVE  ActiveByConsent'
  BY ConsentedStable DEF ActiveByConsent

\* A step that pins no contact anew preserves PresentedByPeer.
LEMMA PresentedStep ==
    ASSUME network \subseteq network', PresentedByPeer,
           \A x, y \in Agents : contacts'[x][y].state \in Pinning \cup {"pending_inbound"} =>
              /\ contacts[x][y].state \in Pinning \cup {"pending_inbound"}
              /\ contacts'[x][y].host = contacts[x][y].host
              /\ contacts'[x][y].key = contacts[x][y].key
    PROVE  PresentedByPeer'
  BY DEF PresentedByPeer, Presented

\* A step that issues at most revocation notices preserves what backs the artifacts.
LEMMA ArtifactsStep ==
    ASSUME TypeOK, Grows, ArtifactsBacked, InviteSingleUse,
           \A m \in network' \ network : m.kind = "revocation"
    PROVE  ArtifactsBacked' /\ InviteSingleUse'
  <1>1. ASSUME NEW m \in network', m.kind # "revocation"
        PROVE  m \in network /\ m.from \in Agents /\ m.id \in Invites
    BY <1>1, ArtifactType DEF TypeOK, PairingArtifacts
  <1>2. ArtifactsBacked'
    BY <1>1, SentStable DEF ArtifactsBacked, Grows
  <1>3. InviteSingleUse'
    BY <1>1 DEF InviteSingleUse
  <1> QED BY <1>2, <1>3

\* Sessions and latest are left alone.
LEMMA RowsStep ==
    ASSUME Grows, SessionsBacked, LatestBacked, UNCHANGED <<sessions, latest>>,
           TypeOK,
           \A x, y \in Agents : contacts'[x][y].state = "pending_inbound" =>
                                contacts[x][y].state = "pending_inbound"
    PROVE  SessionsBacked' /\ LatestBacked'
  <1>1. SessionsBacked'
    BY SentStable DEF SessionsBacked, Grows
  <1>2. LatestBacked'
    BY DEF LatestBacked
  <1> QED BY <1>1, <1>2

\* One session is written, for a new invite or for the same peer and role.
LEMMA PutSessionStep ==
    ASSUME Grows, TypeOK, SessionsBacked, LatestBacked,
           NEW a \in Agents, NEW i \in Invites, NEW s \in Session, PutSession(a, i, s),
           requests'[a][i] # "absent",
           s.role = "invitee" => Sent("invite", i, s.remote, a)',
           sessions[a][i] # NoSession => sessions[a][i].remote = s.remote,
           sessions[a][i] # NoSession => sessions[a][i].role = s.role,
           \A x, y \in Agents : contacts'[x][y].state = "pending_inbound" =>
               \/ x = a /\ y = s.remote
               \/ contacts[x][y].state = "pending_inbound",
           contacts'[a][s.remote].state = "pending_inbound" => s.role = "invitee"
    PROVE  SessionsBacked' /\ LatestBacked'
  <1>1. ASSUME NEW x \in Agents, NEW j \in Invites, sessions'[x][j] # NoSession
        PROVE  /\ requests'[x][j] # "absent"
               /\ (sessions[x][j].role = "invitee"
                     => Sent("invite", j, sessions[x][j].remote, x))'
    <2>1. CASE x = a /\ j = i
      BY <2>1, PutSessionType DEF Sent
    <2>2. CASE ~(x = a /\ j = i)
      <3>1. sessions'[x][j] = sessions[x][j]
        BY <2>2, PutSessionType
      <3> QED BY <1>1, <3>1 DEF SessionsBacked, Grows, Sent
    <2> QED BY <2>1, <2>2
  <1>2. ASSUME NEW x \in Agents, NEW y \in Agents
        PROVE  /\ latest'[x][y] # NoInvite => /\ sessions'[x][latest'[x][y]] # NoSession
                                             /\ sessions'[x][latest'[x][y]].remote = y
               /\ contacts'[x][y].state = "pending_inbound" =>
                    /\ latest'[x][y] # NoInvite
                    /\ sessions'[x][latest'[x][y]].role = "invitee"
    <2>1. CASE x = a /\ y = s.remote
      BY <2>1, PutSessionType
    <2>2. CASE ~(x = a /\ y = s.remote)
      <3>1. latest'[x][y] = latest[x][y] /\ latest[x][y] \in Invites \cup {NoInvite}
        BY <2>2, PutSessionType DEF TypeOK
      <3>2. ASSUME latest[x][y] # NoInvite
            PROVE  /\ sessions[x][latest[x][y]] # NoSession
                   /\ sessions[x][latest[x][y]].remote = y
                   /\ sessions'[x][latest[x][y]] # NoSession
                   /\ sessions'[x][latest[x][y]].remote = y
                   /\ sessions'[x][latest[x][y]].role = sessions[x][latest[x][y]].role
        BY <2>2, <3>1, <3>2, PutSessionType DEF LatestBacked
      <3> QED BY <2>2, <3>1, <3>2 DEF LatestBacked
    <2> QED BY <2>1, <2>2
  <1> QED BY <1>1, <1>2 DEF SessionsBacked, LatestBacked

-----------------------------------------------------------------------------
(* One lemma per group of actions *)

\* CreateInvite preserves ConsentInv, whether or not the contact may be overwritten.
LEMMA CreateInviteStep ==
    ASSUME ConsentInv, NEW a \in Agents, NEW b \in Agents, NEW i \in Invites, NEW h \in Fingerprints,
           CreateInvite(a, b, i, h) \/ CreateInviteConflict(a, b, i, h)
    PROVE  ConsentInv'
  <1> USE DEF ConsentInv
  <1> DEFINE s == [role |-> "inviter", remote |-> b, localHost |-> h,
                   remoteHost |-> NoHost, remoteKey |-> NoKey,
                   invite |-> Digest(InviteFrom(a, b, i, h)),
                   acceptance |-> NoDigest, confirmation |-> NoDigest]
         new == InviteFrom(a, b, i, h)
  <1>1. s \in Session /\ s.remote = b /\ s.role = "inviter"
    BY InviteType DEF Session, Fingerprints, Keys
  <1>2. /\ PutSession(a, i, s)
        /\ requests' = [requests EXCEPT ![a][i] = "open"]
        /\ \A c \in Agents : requests[c][i] = "absent"
        /\ UNCHANGED <<expired, calls>>
    BY DEF CreateInvite, CreateInviteConflict, CreateInviteRows
  <1>3. Outbound \in Contact /\ Outbound.state = "pending_outbound"
    BY DEF Outbound, Contact, States, Fingerprints, Keys
  <1>4. /\ new \in PairingArtifacts /\ new.kind = "invite" /\ new.id = i
        /\ new.from = a /\ new.to = b
    BY InviteType DEF InviteFrom
  <1> HIDE DEF s, new
  <1>5. sessions[a][i] = NoSession
    BY <1>2 DEF SessionsBacked
  <1>6. requests'[a][i] = "open" /\ \A x \in Agents, j \in Invites :
                                      j # i => requests'[x][j] = requests[x][j]
    BY <1>2 DEF TypeOK
  <1>7. CASE CreateInvite(a, b, i, h)
    <2>1. PutsContact(a, b, Outbound) /\ network' = network \cup {new}
      BY <1>7 DEF CreateInvite, new, PutsContact
    <2>2. Grows
      BY <1>2, <1>6, <2>1, PutRequestType DEF Grows
    <2>3. TypeOK'
      BY <1>1, <1>2, <1>3, <1>4, <2>1, PutSessionType, PutContactType, PutRequestType
         DEF TypeOK, Artifacts
    <2>4. /\ contacts'[a][b].state = "pending_outbound"
          /\ \A x, y \in Agents : contacts'[x][y] = contacts[x][y] \/ (x = a /\ y = b)
      BY <1>3, <2>1, PutContactType
    <2>5. SessionsBacked' /\ LatestBacked'
      <3>1. \A x, y \in Agents : contacts'[x][y].state = "pending_inbound" =>
               \/ x = a /\ y = s.remote
               \/ contacts[x][y].state = "pending_inbound"
        BY <1>1, <2>4
      <3>2. ~(contacts'[a][s.remote].state = "pending_inbound") /\ requests'[a][i] # "absent"
        BY <1>1, <1>6, <2>4
      <3> QED BY <1>1, <1>2, <1>5, <2>2, <3>1, <3>2, PutSessionStep
    <2>6. ActiveByConsent' /\ PresentedByPeer'
      BY <2>1, <2>4, ActiveStep, PresentedStep DEF Pinning
    <2>7. \A m \in network : m.kind # "revocation" =>
             m.kind \in Kinds /\ m.id \in Invites /\ m.from \in Agents
      BY ArtifactType DEF TypeOK, PairingArtifacts
    <2>8. \A m \in network : ~(m.kind = "invite" /\ m.id = i)
      BY <1>2, <2>7 DEF ArtifactsBacked
    <2>9. InviteSingleUse'
      BY <1>4, <2>1, <2>8 DEF InviteSingleUse
    <2>10. ArtifactsBacked'
      BY <1>4, <1>6, <2>1, <2>2, <2>7, SentStable DEF ArtifactsBacked, Grows
    <2>11. CallsBacked'
      BY <1>2, <2>1, CallsStep
    <2> QED BY <2>3, <2>5, <2>6, <2>9, <2>10, <2>11
  <1>8. CASE CreateInviteConflict(a, b, i, h)
    <2>1. UNCHANGED <<contacts, network>> /\ contacts[a][b].state \in Pinning
      BY <1>8 DEF CreateInviteConflict, MayUpsert
    <2>2. Grows
      BY <1>2, <1>6, <2>1, PutRequestType DEF Grows
    <2>3. TypeOK'
      BY <1>1, <1>2, <2>1, PutSessionType, PutRequestType DEF TypeOK
    <2>4. SessionsBacked' /\ LatestBacked'
      BY <1>1, <1>2, <1>5, <1>6, <2>1, <2>2, PutSessionStep DEF Pinning
    <2>5. ActiveByConsent' /\ PresentedByPeer' /\ ArtifactsBacked' /\ InviteSingleUse'
      BY <2>1, <2>2, ActiveStep, PresentedStep, ArtifactsStep
    <2>6. CallsBacked'
      BY <1>2, <2>1, CallsStep
    <2> QED BY <2>3, <2>4, <2>5, <2>6
  <1> QED BY <1>7, <1>8

\* What Importable says of the invite.
LEMMA ImportableFacts ==
    ASSUME ConsentInv, NEW b \in Agents, NEW m \in network, Importable(b, m)
    PROVE  /\ m \in PairingArtifacts /\ m.id \in Invites /\ m.from \in Agents /\ m.to = b
           /\ m.kind = "invite" /\ Sent("invite", m.id, m.from, b)
           /\ requests[b][m.id] = "absent" /\ sessions[b][m.id] = NoSession
           /\ Imported(m) \in Contact /\ Imported(m).state = "pending_inbound"
           /\ Imported(m).key = m.from /\ Imported(m).host = m.host
           /\ ImportedSession(m) \in Session /\ ImportedSession(m).role = "invitee"
           /\ ImportedSession(m).remote = m.from
  <1>1. m \in PairingArtifacts /\ m.id \in Invites /\ m.kind = "invite"
    BY ArtifactType DEF ConsentInv, TypeOK, Importable
  <1>2. m.from \in Agents /\ m.to = b /\ requests[b][m.id] = "absent"
    BY <1>1 DEF PairingArtifacts, Importable
  <1>3. Sent("invite", m.id, m.from, b)
    BY <1>1, <1>2 DEF Sent
  <1>4. sessions[b][m.id] = NoSession
    BY <1>1, <1>2 DEF ConsentInv, SessionsBacked
  <1>5. /\ Imported(m) \in Contact /\ Imported(m).state = "pending_inbound"
        /\ Imported(m).key = m.from /\ Imported(m).host = m.host
    BY <1>1, ImportedType DEF Imported
  <1>6. /\ ImportedSession(m) \in Session /\ ImportedSession(m).role = "invitee"
        /\ ImportedSession(m).remote = m.from
    BY <1>1, ImportedType DEF ImportedSession
  <1> QED BY <1>1, <1>2, <1>3, <1>4, <1>5, <1>6

\* ImportInvite without a following acceptance preserves ConsentInv.
LEMMA ImportOnlyStep ==
    ASSUME ConsentInv, NEW b \in Agents, NEW m \in network, NEW id, ImportOnly(b, m, id)
    PROVE  ConsentInv'
  <1> USE DEF ConsentInv
  <1> DEFINE s == ImportedSession(m)
  <1>1. Importable(b, m) /\ PutSession(b, m.id, s)
    BY DEF ImportOnly
  <1>2. /\ m.id \in Invites /\ m.from \in Agents /\ m.to = b /\ m.kind = "invite"
        /\ s \in Session /\ s.role = "invitee" /\ s.remote = m.from
        /\ sessions[b][m.id] = NoSession /\ Sent("invite", m.id, m.from, b)
    BY <1>1, ImportableFacts
  <1>3. /\ Imported(m) \in Contact /\ Imported(m).state = "pending_inbound"
        /\ Imported(m).key = m.from /\ Imported(m).host = m.host
    BY <1>1, ImportableFacts
  <1> HIDE DEF s
  <1>4. /\ requests' = [requests EXCEPT ![b][m.id] = "open"]
        /\ requests[b][m.id] = "absent"
        /\ UNCHANGED <<network, expired, calls>>
    BY DEF ImportOnly, Importable
  <1>5. Grows /\ requests'[b][m.id] # "absent"
    BY <1>2, <1>4 DEF Grows, TypeOK
  <1>6. contacts' = contacts \/ PutsContact(b, m.from, Imported(m))
    BY DEF ImportOnly, PutsContact
  <1>7. /\ contacts' \in [Agents -> [Agents -> Contact]]
        /\ \A x, y \in Agents :
              contacts'[x][y] = contacts[x][y] \/ (x = b /\ y = m.from /\ contacts'[x][y] = Imported(m))
    <2>1. CASE contacts' = contacts
      BY <2>1 DEF TypeOK
    <2>2. CASE PutsContact(b, m.from, Imported(m))
      <3> DEFINE f == m.from  c == Imported(m)
      <3>1. f \in Agents /\ c \in Contact /\ PutsContact(b, f, c)
        BY <1>2, <1>3, <2>2
      <3> HIDE DEF f, c
      <3>2. /\ contacts' \in [Agents -> [Agents -> Contact]] /\ contacts'[b][f] = c
            /\ \A x, y \in Agents : contacts'[x][y] = contacts[x][y] \/ (x = b /\ y = f)
        BY <3>1, PutContactType
      <3> QED BY <3>2 DEF f, c
    <2> QED BY <1>6, <2>1, <2>2
  <1>8. TypeOK'
    <2>1. requests' \in [Agents -> [Invites -> {"absent", "open", "consumed"}]]
      BY <1>2, <1>4 DEF TypeOK
    <2>2. /\ sessions' \in [Agents -> [Invites -> Session \cup {NoSession}]]
          /\ latest' \in [Agents -> [Agents -> Invites \cup {NoInvite}]]
      BY <1>1, <1>2, PutSessionType
    <2> QED BY <1>4, <1>7, <2>1, <2>2 DEF TypeOK
  <1>9. SessionsBacked' /\ LatestBacked'
    <2>1. s.role = "invitee" => Sent("invite", m.id, s.remote, b)'
      BY <1>2, <1>4 DEF Sent
    <2>2. \A x, y \in Agents : contacts'[x][y].state = "pending_inbound" =>
             (x = b /\ y = s.remote) \/ contacts[x][y].state = "pending_inbound"
      BY <1>2, <1>7
    <2> QED BY <1>1, <1>2, <1>5, <2>1, <2>2, PutSessionStep
  <1>10. ArtifactsBacked' /\ InviteSingleUse'
    BY <1>4, <1>5, ArtifactsStep
  <1>11. ActiveByConsent'
    BY <1>3, <1>4, <1>7, ActiveStep
  <1>12. PresentedByPeer'
    BY <1>2, <1>3, <1>4, <1>7 DEF PresentedByPeer, Presented
  <1>13. CallsBacked'
    BY <1>4, CallsStep
  <1> QED BY <1>8, <1>9, <1>10, <1>11, <1>12, <1>13

\* ApproveAcceptance and ApproveConflict: the rows they write.
LEMMA ApproveFacts ==
    ASSUME ConsentInv, NEW a \in Agents, NEW m \in network, ApproveRows(a, m)
    PROVE  /\ m \in PairingArtifacts /\ m.id \in Invites /\ m.from \in Agents /\ m.to = a
           /\ m.kind = "acceptance" /\ sessions[a][m.id] \in Session
           /\ requests[a][m.id] = "open" /\ requests' = [requests EXCEPT ![a][m.id] = "consumed"]
           /\ UNCHANGED <<expired, calls>>
           /\ \E s \in Session : /\ PutSession(a, m.id, s) /\ s.role = "inviter"
                                 /\ s.remote = m.from
                                 /\ sessions[a][m.id].role = s.role
                                 /\ sessions[a][m.id].remote = s.remote
  <1>1. m \in PairingArtifacts /\ m.id \in Invites /\ m.kind = "acceptance"
    BY ArtifactType DEF ConsentInv, TypeOK, ApproveRows
  <1>2. m.from \in Agents /\ m.host \in Fingerprints /\ Digest(m) \in Digests
    BY <1>1 DEF PairingArtifacts, Digest, Digests
  <1> DEFINE old == sessions[a][m.id]
             s == [old EXCEPT !.remoteHost = m.host, !.remoteKey = m.from,
                      !.acceptance = Digest(m), !.confirmation = Digest(ConfirmationOf(m, old))]
  <1>3. old \in Session
    BY <1>1 DEF ConsentInv, TypeOK, ApproveRows
  <1>4. /\ PutSession(a, m.id, s) /\ old.role = "inviter" /\ old.remote = m.from /\ m.to = a
        /\ requests[a][m.id] = "open" /\ requests' = [requests EXCEPT ![a][m.id] = "consumed"]
        /\ UNCHANGED <<expired, calls>>
    BY DEF ApproveRows, Consumable
  <1>5. Digest(ConfirmationOf(m, old)) \in Digests
    BY <1>1, <1>3, ConfirmationType
  <1>6. s \in Session /\ s.role = old.role /\ s.remote = old.remote
    BY <1>2, <1>3, <1>5 DEF Session, Keys
  <1> QED BY <1>1, <1>2, <1>3, <1>4, <1>6

\* ApproveAcceptance preserves ConsentInv: the request it consumes makes its
\* confirmation the only one.
LEMMA ApproveStep ==
    ASSUME ConsentInv, NEW a \in Agents, NEW m \in network,
           ApproveAcceptance(a, m) \/ ApproveConflict(a, m)
    PROVE  ConsentInv'
  <1> USE DEF ConsentInv
  <1>1. ApproveRows(a, m)
    BY DEF ApproveAcceptance, ApproveConflict
  <1>2. /\ m \in PairingArtifacts /\ m.id \in Invites /\ m.from \in Agents /\ m.to = a
        /\ m.kind = "acceptance" /\ sessions[a][m.id] \in Session
        /\ requests[a][m.id] = "open" /\ requests' = [requests EXCEPT ![a][m.id] = "consumed"]
        /\ UNCHANGED <<expired, calls>>
    BY <1>1, ApproveFacts
  <1>3. PICK s \in Session : /\ PutSession(a, m.id, s) /\ s.role = "inviter"
                             /\ s.remote = m.from
                             /\ sessions[a][m.id].role = s.role
                             /\ sessions[a][m.id].remote = s.remote
    BY <1>1, ApproveFacts
  <1>4. /\ requests' \in [Agents -> [Invites -> {"absent", "open", "consumed"}]]
        /\ requests'[a][m.id] = "consumed"
        /\ \A x \in Agents, j \in Invites : requests'[x][j] \in {requests[x][j], "consumed"}
    BY <1>2 DEF TypeOK
  <1>5. /\ sessions' \in [Agents -> [Invites -> Session \cup {NoSession}]]
        /\ latest' \in [Agents -> [Agents -> Invites \cup {NoInvite}]]
    BY <1>2, <1>3, PutSessionType
  <1> DEFINE new == ConfirmationOf(m, sessions[a][m.id])
  <1>6. /\ Approved(m) \in Contact /\ Approved(m).state = "awaiting_confirmation"
        /\ Approved(m).key = m.from /\ Approved(m).host = m.host
    BY <1>2, ConfirmationType DEF Approved
  <1>7. /\ new \in PairingArtifacts /\ new.kind = "confirmation" /\ new.id = m.id
        /\ new.from = a /\ new.to = m.from
    BY <1>2, ConfirmationType DEF ConfirmationOf
  <1>8. CASE ApproveAcceptance(a, m)
    <2>1. PutsContact(a, m.from, Approved(m)) /\ network' = network \cup {new}
      BY <1>8 DEF ApproveAcceptance, PutsContact
    <2> HIDE DEF new
    <2>2. Grows
      BY <1>4, <2>1 DEF Grows
    <2>3. /\ contacts' \in [Agents -> [Agents -> Contact]]
          /\ contacts'[a][m.from] = Approved(m)
          /\ \A x, y \in Agents : contacts'[x][y] = contacts[x][y] \/ (x = a /\ y = m.from)
      <3> DEFINE f == m.from  c == Approved(m)
      <3>1. f \in Agents /\ c \in Contact /\ PutsContact(a, f, c)
        BY <1>2, <1>6, <2>1
      <3> HIDE DEF f, c
      <3>2. /\ contacts' \in [Agents -> [Agents -> Contact]] /\ contacts'[a][f] = c
            /\ \A x, y \in Agents : contacts'[x][y] = contacts[x][y] \/ (x = a /\ y = f)
        BY <3>1, PutContactType
      <3> QED BY <3>2 DEF f, c
    <2>4. TypeOK'
      BY <1>2, <1>4, <1>5, <1>7, <2>1, <2>3 DEF TypeOK, Artifacts
    <2>5. SessionsBacked' /\ LatestBacked'
      <3>1. \A x, y \in Agents : contacts'[x][y].state = "pending_inbound" =>
               (x = a /\ y = s.remote) \/ contacts[x][y].state = "pending_inbound"
        BY <1>3, <2>3
      <3>2. ~(contacts'[a][s.remote].state = "pending_inbound") /\ requests'[a][m.id] # "absent"
        BY <1>3, <1>4, <1>6, <2>3
      <3> QED BY <1>2, <1>3, <2>2, <3>1, <3>2, PutSessionStep
    <2>6. ActiveByConsent'
      BY <1>6, <2>1, <2>3, ActiveStep
    <2>7. PresentedByPeer'
      <3>1. /\ m \in network' /\ m.kind = "acceptance" /\ m.to = a
            /\ network \subseteq network'
        BY <1>2, <2>1
      <3> HIDE <1>8, <2>1
      <3> QED BY <1>6, <2>3, <3>1 DEF PresentedByPeer, Presented
    <2>8. Sent("invite", m.id, a, m.from)
      BY <1>2 DEF ArtifactsBacked
    <2>9. \A n \in network : n.kind # "revocation" =>
             n.kind \in Kinds /\ n.id \in Invites /\ n.from \in Agents
      BY ArtifactType DEF TypeOK, PairingArtifacts
    <2>10. ASSUME NEW n \in network, n.kind = "confirmation", n.id = m.id
           PROVE  FALSE
      <3>1. requests[n.from][m.id] = "consumed" /\ Sent("invite", m.id, n.from, n.to)
        BY <2>10 DEF ArtifactsBacked
      <3>2. n.from = a
        BY <2>8, <3>1 DEF Sent, InviteSingleUse
      <3> QED BY <1>2, <3>1, <3>2
    <2>11. InviteSingleUse'
      BY <1>7, <2>1, <2>10 DEF InviteSingleUse
    <2>12. ArtifactsBacked'
      <3>1. ASSUME NEW n \in network', n.kind # "revocation", n \in network
            PROVE  /\ n.kind = "invite" => requests'[n.from][n.id] # "absent"
                   /\ n.kind \in {"acceptance", "confirmation"} =>
                        requests'[n.from][n.id] = "consumed"
        BY <2>2, <2>9, <3>1 DEF ArtifactsBacked, Grows
      <3>2. Sent("invite", m.id, a, m.from)' /\ Sent("acceptance", m.id, m.from, a)'
        BY <1>2, <2>1, <2>8 DEF Sent
      <3> QED BY <1>4, <1>7, <2>1, <3>1, <3>2, SentStable DEF ArtifactsBacked
    <2>13. CallsBacked'
      BY <1>2, <2>1, CallsStep
    <2> QED BY <2>4, <2>5, <2>6, <2>7, <2>11, <2>12, <2>13
  <1>9. CASE ApproveConflict(a, m)
    <2>1. UNCHANGED <<contacts, network>> /\ contacts[a][m.from].state \in Pinning
      BY <1>9 DEF ApproveConflict, MayUpsert
    <2>2. Grows
      BY <1>4, <2>1 DEF Grows
    <2>3. TypeOK'
      BY <1>2, <1>4, <1>5, <2>1 DEF TypeOK
    <2>4. SessionsBacked' /\ LatestBacked'
      <3>1. ~(contacts'[a][s.remote].state = "pending_inbound") /\ requests'[a][m.id] # "absent"
        BY <1>3, <1>4, <2>1 DEF Pinning
      <3> QED BY <1>2, <1>3, <2>1, <2>2, <3>1, PutSessionStep
    <2>5. ActiveByConsent' /\ PresentedByPeer' /\ ArtifactsBacked' /\ InviteSingleUse'
      BY <2>1, <2>2, ActiveStep, PresentedStep, ArtifactsStep
    <2>6. CallsBacked'
      BY <1>2, <2>1, CallsStep
    <2> QED BY <2>3, <2>4, <2>5, <2>6
  <1> QED BY <1>8, <1>9

\* GetContact starts a call that is backed when its caller's checks say so.
LEMMA ReadsStep ==
    ASSUME ConsentInv, network' = network, NEW c \in Calls,
           NEW op \in {"confirmation", "receipt", "revoke", "revocation", "block"},
           NEW a \in Agents, NEW b \in Agents, NEW st \in {"active", "revoked", "blocked"},
           NEW issues \in SUBSET Artifacts, Reads(c, op, a, b, st, issues),
           st = "active" => /\ contacts[a][b].state = "awaiting_confirmation"
                            /\ Consented(a, b),
           st = "revoked" => contacts[a][b].state # "blocked" \/ Noticed(a, b),
           \A m \in issues : /\ m.kind = "receipt"
                             /\ Sent("invite", m.id, m.to, m.from)
                             /\ Sent("acceptance", m.id, m.from, m.to)
                             /\ Sent("confirmation", m.id, m.to, m.from)
    PROVE  calls' \in [Calls -> Call \cup {NoCall}] /\ CallsBacked'
  <1> DEFINE read == [contacts[a][b] EXCEPT !.state = st]
  <1>1. /\ read \in Contact /\ read.state = st
        /\ read.host = contacts[a][b].host /\ read.key = contacts[a][b].key
    <2>1. contacts[a][b] \in Contact /\ st \in States
      BY DEF ConsentInv, TypeOK, States
    <2> QED BY <2>1 DEF Contact
  <1> HIDE DEF read
  <1>2. PICK call \in Call :
           /\ call.agent = a /\ call.peer = b /\ call.row = read /\ call.issues = issues
           /\ call.sawBlocked = (contacts[a][b].state = "blocked")
           /\ calls' = [calls EXCEPT ![c] = call]
    <2> DEFINE saw == contacts[a][b].state = "blocked"
               made == [op |-> op, step |-> "write", agent |-> a, peer |-> b, row |-> read,
                        sawBlocked |-> saw, issues |-> issues]
    <2>1. saw \in BOOLEAN /\ calls' = [calls EXCEPT ![c] = made]
      BY DEF Reads, read
    <2>2. made \in Call
      BY <1>1, <2>1 DEF Call
    <2> QED BY <2>1, <2>2
  <1>3. st = "active" => Presented(a, b, read)
    BY <1>1 DEF ConsentInv, PresentedByPeer, Pinning, Presented
  <1>4. CallBacked(call)
    BY <1>1, <1>2, <1>3 DEF CallBacked
  <1>5. CallBacked(call)'
    BY <1>4 DEF CallBacked, Consented, Presented, Noticed, Sent
  <1>6. /\ calls' \in [Calls -> Call \cup {NoCall}]
        /\ \A d \in Calls : calls'[d] = IF d = c THEN call ELSE calls[d]
    BY <1>2 DEF ConsentInv, TypeOK
  <1>7. ASSUME NEW d \in Calls, d # c, calls[d] # NoCall
        PROVE  CallBacked(calls[d])'
    BY <1>6, <1>7 DEF ConsentInv, CallsBacked, CallBacked, Consented, Presented, Noticed, Sent
  <1>8. CallsBacked'
    BY <1>5, <1>6, <1>7 DEF CallsBacked
  <1> QED BY <1>6, <1>8

\* Steps that leave the contacts, the rows and the artifacts alone.
LEMMA QuietStep ==
    ASSUME ConsentInv, UNCHANGED <<contacts, requests, sessions, latest, network>>,
           expired' \subseteq Invites, calls' \in [Calls -> Call \cup {NoCall}],
           CallsBacked'
    PROVE  ConsentInv'
  BY DEF ConsentInv, TypeOK, SessionsBacked, LatestBacked, ArtifactsBacked, PresentedByPeer,
         InviteSingleUse, ActiveByConsent, Consented, Presented, Sent

\* A confirmation that matches was answered to an acceptance of this agent.  The
\* session is written, and the call that may activate the contact is backed.
LEMMA ApplyConfirmationStep ==
    ASSUME ConsentInv, NEW c \in Calls, NEW b \in Agents, NEW m \in network,
           ApplyConfirmation(c, b, m)
    PROVE  ConsentInv'
  <1> USE DEF ConsentInv
  <1> DEFINE old == sessions[b][m.id]
             written == [old EXCEPT !.confirmation = Digest(m)]
             f == m.from
             new == ReceiptFor(m)
  <1>1. /\ m \in PairingArtifacts /\ m.id \in Invites /\ m.kind = "confirmation"
        /\ Digest(m) \in Digests
    BY ArtifactType DEF TypeOK, ApplyConfirmation, ConfirmationMatches
  <1>2. /\ old \in Session /\ old.role = "invitee" /\ old.remote = f /\ m.to = b
        /\ f \in Agents /\ PutSession(b, m.id, written)
        /\ UNCHANGED <<contacts, requests, network, expired>>
    BY <1>1 DEF TypeOK, ApplyConfirmation, ConfirmationMatches, PairingArtifacts
  <1>3. PICK s \in Session : s.role = "invitee" /\ s.remote = f /\ PutSession(b, m.id, s)
    <2>1. written \in Session /\ written.role = "invitee" /\ written.remote = f
      BY <1>1, <1>2 DEF Session
    <2> QED BY <1>2, <2>1
  <1>4. /\ new \in PairingArtifacts /\ new.kind = "receipt" /\ new.id = m.id
        /\ new.from = b /\ new.to = f
    BY <1>1, <1>2, ReceiptType DEF ReceiptFor
  <1>5. /\ Sent("invite", m.id, f, b) /\ Sent("acceptance", m.id, b, f)
        /\ Sent("confirmation", m.id, f, b)
    <2>1. Sent("invite", m.id, m.from, m.to) /\ Sent("acceptance", m.id, m.to, m.from)
      BY <1>1 DEF ArtifactsBacked
    <2>2. Sent("confirmation", m.id, f, b)
      BY <1>1, <1>2 DEF Sent
    <2> QED BY <1>2, <2>1, <2>2
  <1>6. requests[b][m.id] # "absent"
    BY <1>1, <1>2 DEF SessionsBacked
  <1> DEFINE i == m.id
  <1>7. i \in Invites /\ PutSession(b, i, s) /\ sessions[b][i].role = s.role
        /\ sessions[b][i].remote = s.remote
    BY <1>1, <1>2, <1>3
  <1>8. calls' \in [Calls -> Call \cup {NoCall}] /\ CallsBacked'
    <2>1. CASE /\ contacts[b][f].state = "awaiting_confirmation"
               /\ Reads(c, "confirmation", b, f, "active", {new})
      <3>1. Consented(b, f)
        BY <1>1, <1>5 DEF Consented
      <3>2. {new} \in SUBSET Artifacts
        BY <1>4 DEF Artifacts
      <3> HIDE DEF f, new
      <3> QED BY <1>2, <1>4, <1>5, <2>1, <3>1, <3>2, ReadsStep
    <2>2. CASE calls' = calls
      BY <1>2, <2>2, CallsStep DEF TypeOK
    <2> QED BY <2>1, <2>2 DEF ApplyConfirmation
  <1> HIDE DEF written, old, f, new
  <1>9. Grows
    BY <1>2 DEF Grows
  <1>10. TypeOK'
    <2>1. /\ sessions' \in [Agents -> [Invites -> Session \cup {NoSession}]]
          /\ latest' \in [Agents -> [Agents -> Invites \cup {NoInvite}]]
      BY <1>3, <1>7, PutSessionType
    <2> QED BY <1>2, <1>8, <2>1 DEF TypeOK
  <1>11. SessionsBacked' /\ LatestBacked'
    <2>1. (s.role = "invitee" => Sent("invite", i, s.remote, b)') /\ requests'[b][i] # "absent"
      BY <1>2, <1>3, <1>5, <1>6 DEF Sent
    <2>2. contacts'[b][s.remote].state = "pending_inbound" => s.role = "invitee"
      BY <1>3
    <2> HIDE DEF i
    <2> QED BY <1>2, <1>3, <1>7, <1>9, <2>1, <2>2, PutSessionStep
  <1>12. ActiveByConsent' /\ PresentedByPeer' /\ ArtifactsBacked' /\ InviteSingleUse'
    BY <1>2, <1>9, ActiveStep, PresentedStep, ArtifactsStep
  <1> QED BY <1>8, <1>10, <1>11, <1>12

\* The other handlers up to their GetContact: the call that ApplyActivationReceipt
\* starts is backed by the receipt, the one of ApplyRevocation by the notice.
LEMMA StartStep ==
    ASSUME ConsentInv, NEW c \in Calls, NEW a \in Agents,
           \/ \E b \in Agents : Revoke(c, a, b) \/ Block(c, a, b)
           \/ \E m \in network : ApplyActivationReceipt(c, a, m) \/ ApplyRevocation(c, a, m)
    PROVE  ConsentInv'
  <1> USE DEF ConsentInv
  <1>1. UNCHANGED <<contacts, requests, sessions, latest, network, expired>>
    BY DEF Revoke, Block, ApplyActivationReceipt, ApplyRevocation, rows
  <1>2. ASSUME NEW b \in Agents, Revoke(c, a, b) \/ Block(c, a, b)
        PROVE  calls' \in [Calls -> Call \cup {NoCall}] /\ CallsBacked'
    <2>1. \/ /\ Reads(c, "revoke", a, b, "revoked", {})
             /\ contacts[a][b].state # "blocked"
          \/ Reads(c, "block", a, b, "blocked", {})
      BY <1>2 DEF Revoke, Block
    <2> QED BY <1>1, <2>1, ReadsStep
  <1>3. ASSUME NEW m \in network, ApplyActivationReceipt(c, a, m)
        PROVE  calls' \in [Calls -> Call \cup {NoCall}] /\ CallsBacked'
    <2> DEFINE f == m.from
    <2>1. m \in PairingArtifacts /\ m.id \in Invites /\ m.kind = "receipt" /\ m.to = a
      BY <1>3, ArtifactType DEF TypeOK, ApplyActivationReceipt, ReceiptMatches
    <2>2. f \in Agents
      BY <2>1 DEF PairingArtifacts
    <2>3. /\ Sent("invite", m.id, a, f) /\ Sent("acceptance", m.id, f, a)
          /\ Sent("confirmation", m.id, a, f) /\ Sent("receipt", m.id, f, a)
      <3>1. Sent("receipt", m.id, f, a)
        BY <2>1 DEF Sent
      <3>2. /\ Sent("invite", m.id, m.to, m.from) /\ Sent("acceptance", m.id, m.from, m.to)
            /\ Sent("confirmation", m.id, m.to, m.from)
        BY <2>1 DEF ArtifactsBacked
      <3> QED BY <2>1, <3>1, <3>2
    <2>4. Consented(a, f)
      BY <2>1, <2>3 DEF Consented
    <2>5. /\ Reads(c, "receipt", a, f, "active", {})
          /\ contacts[a][f].state = "awaiting_confirmation"
      BY <1>3 DEF ApplyActivationReceipt
    <2> HIDE DEF f
    <2> QED BY <1>1, <2>2, <2>4, <2>5, ReadsStep
  <1>4. ASSUME NEW m \in network, ApplyRevocation(c, a, m)
        PROVE  calls' \in [Calls -> Call \cup {NoCall}] /\ CallsBacked'
    <2> DEFINE f == m.from
    <2>1. f \in Agents
      BY DEF TypeOK, Artifacts, PairingArtifacts, RevocationNotices
    <2>2. Noticed(a, f) /\ Reads(c, "revocation", a, f, "revoked", {})
      BY <1>4 DEF ApplyRevocation, Noticed
    <2> HIDE DEF f
    <2> QED BY <1>1, <2>1, <2>2, ReadsStep
  <1>5. calls' \in [Calls -> Call \cup {NoCall}] /\ CallsBacked'
    BY <1>2, <1>3, <1>4
  <1>6. expired' \subseteq Invites
    BY <1>1 DEF TypeOK
  <1> HIDE DEF ConsentInv
  <1> QED BY <1>1, <1>5, <1>6, QuietStep

\* The parts of a call that is under way, as values that a step does not change.
LEMMA CallParts ==
    ASSUME ConsentInv, NEW c \in Calls, calls[c] # NoCall
    PROVE  /\ calls[c] \in Call /\ calls[c].agent \in Agents /\ calls[c].peer \in Agents
           /\ calls[c].row \in Contact /\ calls[c].issues \subseteq Artifacts
           /\ CallBacked(calls[c])
  BY DEF ConsentInv, TypeOK, CallsBacked, Call

\* A call that leaves its slot, or goes on to its notice, is no less backed.
LEMMA LeavesStep ==
    ASSUME ConsentInv, network \subseteq network', NEW c \in Calls, calls[c] # NoCall,
           \/ calls' = [calls EXCEPT ![c] = NoCall]
           \/ calls' = [calls EXCEPT ![c] = [calls[c] EXCEPT !.step = "notify"]]
    PROVE  calls' \in [Calls -> Call \cup {NoCall}] /\ CallsBacked'
  <1> DEFINE next == [calls[c] EXCEPT !.step = "notify"]
  <1>1. /\ next \in Call /\ next.agent = calls[c].agent /\ next.peer = calls[c].peer
        /\ next.row = calls[c].row /\ next.issues = calls[c].issues
        /\ next.sawBlocked = calls[c].sawBlocked
    BY CallParts DEF Call
  <1>2. calls' = [calls EXCEPT ![c] = NoCall] \/ calls' = [calls EXCEPT ![c] = next]
    OBVIOUS
  <1> HIDE DEF next
  <1>3. /\ calls' \in [Calls -> Call \cup {NoCall}]
        /\ calls'[c] \in {NoCall, next}
        /\ \A d \in Calls : d # c => calls'[d] = calls[d]
    BY <1>1, <1>2 DEF ConsentInv, TypeOK
  <1>4. ASSUME NEW d \in Calls, calls'[d] # NoCall
        PROVE  CallBacked(calls[d])'
    <2>1. /\ calls[d] # NoCall /\ calls'[d].agent = calls[d].agent
          /\ calls'[d].peer = calls[d].peer /\ calls'[d].row = calls[d].row
          /\ calls'[d].issues = calls[d].issues
          /\ calls'[d].sawBlocked = calls[d].sawBlocked
      BY <1>1, <1>3, <1>4
    <2>2. CallBacked(calls[d])
      BY <2>1 DEF ConsentInv, CallsBacked
    <2> QED BY <2>1, <2>2 DEF CallBacked, Consented, Presented, Noticed, Sent
  <1> QED BY <1>3, <1>4 DEF CallsBacked

\* UpsertContact of a call under way preserves ConsentInv: what the call holds is
\* backed at whatever time it writes.
LEMMA WriteContactStep ==
    ASSUME ConsentInv, NEW c \in Calls, WriteContact(c)
    PROVE  ConsentInv'
  <1> USE DEF ConsentInv
  <1>1. PICK a \in Agents, b \in Agents, row \in Contact, issues \in SUBSET Artifacts :
           /\ a = calls[c].agent /\ b = calls[c].peer /\ row = calls[c].row
           /\ issues = calls[c].issues
    BY CallParts DEF WriteContact
  <1>2. /\ PutsContact(a, b, row) /\ network' = network \cup issues
        /\ UNCHANGED <<requests, sessions, latest, expired>>
        /\ calls[c] # NoCall
        /\ \/ calls' = [calls EXCEPT ![c] = NoCall]
           \/ calls' = [calls EXCEPT ![c] = [calls[c] EXCEPT !.step = "notify"]]
    BY <1>1 DEF WriteContact, PutsContact, rows
  <1>3. /\ row.state \in {"active", "revoked", "blocked"}
        /\ row.state = "active" => Consented(a, b) /\ Presented(a, b, row)
        /\ \A m \in issues : /\ m.kind = "receipt"
                             /\ Sent("invite", m.id, m.to, m.from)
                             /\ Sent("acceptance", m.id, m.from, m.to)
                             /\ Sent("confirmation", m.id, m.to, m.from)
    BY <1>1, <1>2, CallParts DEF CallBacked
  <1>4. /\ contacts' \in [Agents -> [Agents -> Contact]]
        /\ \A x, y \in Agents :
             contacts'[x][y] = IF x = a /\ y = b THEN row ELSE contacts[x][y]
    BY <1>2, PutContactType
  <1>5. calls' \in [Calls -> Call \cup {NoCall}] /\ CallsBacked'
    BY <1>2, LeavesStep
  <1>6. TypeOK' /\ Grows
    BY <1>2, <1>4, <1>5 DEF TypeOK, Grows
  <1>7. SessionsBacked' /\ LatestBacked'
    <2>1. \A x, y \in Agents : contacts'[x][y].state = "pending_inbound" =>
                               contacts[x][y].state = "pending_inbound"
      BY <1>3, <1>4
    <2> QED BY <1>2, <1>6, <2>1, RowsStep
  <1>8. ActiveByConsent'
    <2>1. ASSUME NEW x \in Agents, NEW y \in Agents, contacts'[x][y].state = "active"
          PROVE  Consented(x, y)
      BY <1>3, <1>4, <2>1 DEF ActiveByConsent
    <2> QED BY <1>2, <2>1, ConsentedStable DEF ActiveByConsent
  <1>9. PresentedByPeer'
    <2>1. ASSUME NEW x \in Agents, NEW y \in Agents,
                 contacts'[x][y].state \in Pinning \cup {"pending_inbound"}
          PROVE  Presented(x, y, contacts[x][y])'
      <3>1. CASE x = a /\ y = b
        BY <1>2, <1>3, <1>4, <2>1, <3>1 DEF Presented, Pinning
      <3>2. CASE ~(x = a /\ y = b)
        <4>1. contacts'[x][y] = contacts[x][y]
          BY <1>4, <3>2
        <4> QED BY <1>2, <2>1, <4>1 DEF PresentedByPeer, Presented
      <3> QED BY <3>1, <3>2
    <2> QED BY <2>1 DEF PresentedByPeer
  <1>10. InviteSingleUse'
    BY <1>2, <1>3 DEF InviteSingleUse
  <1>11. ArtifactsBacked'
    <2> SUFFICES ASSUME NEW m \in network', m.kind # "revocation"
                 PROVE  /\ m.kind = "invite" => requests[m.from][m.id] # "absent"
                        /\ m.kind \in {"acceptance", "confirmation"} =>
                             requests[m.from][m.id] = "consumed"
                        /\ m.kind \in {"acceptance", "receipt"} =>
                             Sent("invite", m.id, m.to, m.from)
                        /\ m.kind = "confirmation" =>
                             /\ Sent("invite", m.id, m.from, m.to)
                             /\ Sent("acceptance", m.id, m.to, m.from)
                        /\ m.kind = "receipt" =>
                             /\ Sent("acceptance", m.id, m.from, m.to)
                             /\ Sent("confirmation", m.id, m.to, m.from)
      BY <1>2, SentStable DEF ArtifactsBacked
    <2>1. CASE m \in network
      BY <2>1 DEF ArtifactsBacked
    <2>2. CASE m \in issues
      BY <1>3, <2>2
    <2> QED BY <1>2, <2>1, <2>2
  <1> QED BY <1>5, <1>6, <1>7, <1>8, <1>9, <1>10, <1>11

\* The notice of RevokeWithNotice preserves ConsentInv.
LEMMA RevokeWithNoticeStep ==
    ASSUME ConsentInv, NEW c \in Calls, RevokeWithNotice(c)
    PROVE  ConsentInv'
  <1> USE DEF ConsentInv
  <1>1. PICK a \in Agents, b \in Agents : a = calls[c].agent /\ b = calls[c].peer
    BY CallParts DEF RevokeWithNotice
  <1> DEFINE s == sessions[a][latest[a][b]]
  <1>2. s \in Session
    BY <1>1 DEF RevokeWithNotice, LatestBacked, TypeOK
  <1>3. NoticeFrom(a, b, s) \in RevocationNotices
    BY <1>2, NoticeType
  <1>4. /\ UNCHANGED <<contacts, requests, sessions, latest, expired>>
        /\ network' = network \cup {NoticeFrom(a, b, s)}
        /\ calls[c] # NoCall /\ calls' = [calls EXCEPT ![c] = NoCall]
    BY <1>1 DEF RevokeWithNotice, rows
  <1> HIDE DEF s
  <1>5. calls' \in [Calls -> Call \cup {NoCall}] /\ CallsBacked'
    BY <1>4, LeavesStep
  <1>6. TypeOK' /\ Grows /\ \A m \in network' \ network : m.kind = "revocation"
    BY <1>3, <1>4, <1>5 DEF TypeOK, Artifacts, Grows, RevocationNotices
  <1>7. SessionsBacked' /\ LatestBacked'
    BY <1>4, <1>6, RowsStep
  <1>8. ArtifactsBacked' /\ InviteSingleUse'
    BY <1>6, ArtifactsStep
  <1>9. ActiveByConsent' /\ PresentedByPeer'
    BY <1>4, ActiveStep, PresentedStep
  <1> QED BY <1>5, <1>6, <1>7, <1>8, <1>9

\* A call that ends early and the passage of time preserve ConsentInv.
LEMMA EndStep ==
    ASSUME ConsentInv,
           \/ \E c \in Calls : EndCall(c)
           \/ \E i \in Invites : Expire(i)
           \/ UNCHANGED vars
    PROVE  ConsentInv'
  <1>1. ASSUME NEW c \in Calls, EndCall(c)
        PROVE  ConsentInv'
    <2>1. /\ UNCHANGED <<contacts, requests, sessions, latest, network, expired>>
          /\ calls[c] # NoCall /\ calls' = [calls EXCEPT ![c] = NoCall]
      BY <1>1 DEF EndCall, rows
    <2>2. calls' \in [Calls -> Call \cup {NoCall}] /\ CallsBacked'
      BY <2>1, LeavesStep
    <2> QED BY <2>1, <2>2, QuietStep DEF ConsentInv, TypeOK
  <1>2. ASSUME NEW i \in Invites, Expire(i)
        PROVE  ConsentInv'
    <2>1. /\ UNCHANGED <<contacts, requests, sessions, latest, network, calls>>
          /\ expired' \subseteq Invites
      BY <1>2 DEF ConsentInv, TypeOK, Expire, rows
    <2>2. CallsBacked'
      BY <2>1, CallsStep DEF ConsentInv
    <2> QED BY <2>1, <2>2, QuietStep DEF ConsentInv, TypeOK
  <1>3. CASE UNCHANGED vars
    <2>1. CallsBacked'
      BY <1>3, CallsStep DEF ConsentInv, vars
    <2> QED BY <1>3, <2>1, QuietStep DEF ConsentInv, TypeOK, vars
  <1> QED BY <1>1, <1>2, <1>3

\* The invite acceptImportedInvite consumes: the one just imported, or an
\* earlier one from another peer that is still open.
AcceptedInvite(b, m, r) == [latest[b] EXCEPT ![m.from] = m.id][r]

\* That invite was imported from r and its request was not consumed before.
LEMMA AcceptedFacts ==
    ASSUME ConsentInv, NEW b \in Agents, NEW r \in Agents, NEW m \in network,
           NEW id \in Invites \cup {NoInvite}, Importable(b, m), Accepts(b, m, id, r),
           NEW i, i = AcceptedInvite(b, m, r)
    PROVE  /\ i \in Invites /\ requests[b][i] # "consumed" /\ Sent("invite", i, r, b)
           /\ \/ r = m.from /\ i = m.id
              \/ /\ r # m.from /\ i # m.id /\ i = latest[b][r]
                 /\ sessions[b][i] \in Session /\ sessions[b][i].role = "invitee"
                 /\ sessions[b][i].remote = r /\ requests[b][i] = "open"
                 /\ contacts[b][r].state = "pending_inbound"
  <1> USE DEF ConsentInv
  <1>1. /\ m.id \in Invites /\ m.from \in Agents /\ Sent("invite", m.id, m.from, b)
        /\ requests[b][m.id] = "absent" /\ sessions[b][m.id] = NoSession
    BY ImportableFacts
  <1>2. CASE r = m.from
    <2>1. i = m.id
      BY <1>1, <1>2 DEF AcceptedInvite, TypeOK
    <2> QED BY <1>1, <1>2, <2>1
  <1>3. CASE r # m.from
    <2>1. i = latest[b][r]
      BY <1>1, <1>3 DEF AcceptedInvite, TypeOK
    <2> DEFINE contact == [contacts[b] EXCEPT ![m.from] = Imported(m)]
               request == [requests[b] EXCEPT ![m.id] = "open"]
    <2>2. /\ contact[r].state = "pending_inbound" /\ i # NoInvite
          /\ Consumable(request[i], i)
      BY DEF Accepts, AcceptedInvite
    <2>3. contacts[b][r].state = "pending_inbound"
      BY <1>1, <1>3, <2>2 DEF TypeOK
    <2>4. /\ i \in Invites /\ sessions[b][i] # NoSession /\ sessions[b][i].remote = r
          /\ sessions[b][i].role = "invitee"
      BY <2>1, <2>2, <2>3 DEF LatestBacked, TypeOK
    <2>5. sessions[b][i] \in Session /\ i # m.id
      BY <1>1, <2>4 DEF TypeOK
    <2>6. requests[b][i] = "open"
      BY <1>1, <2>2, <2>4, <2>5 DEF TypeOK, Consumable
    <2>7. Sent("invite", i, r, b)
      BY <2>4 DEF SessionsBacked
    <2> QED BY <1>3, <2>1, <2>3, <2>4, <2>5, <2>6, <2>7
  <1> QED BY <1>2, <1>3

\* The rows after AcceptInvite, point by point.
LEMMA AcceptRows ==
    ASSUME ConsentInv, NEW b \in Agents, NEW r \in Agents, NEW m \in network,
           NEW id \in Invites \cup {NoInvite}, NEW h \in Fingerprints, AcceptInvite(b, m, id, r, h),
           NEW i, i = AcceptedInvite(b, m, r)
    PROVE  /\ requests' \in [Agents -> [Invites -> {"absent", "open", "consumed"}]]
           /\ \A x \in Agents, j \in Invites : requests'[x][j] =
                 IF x = b /\ j = i THEN "consumed"
                 ELSE IF x = b /\ j = m.id THEN "open" ELSE requests[x][j]
           /\ latest' \in [Agents -> [Agents -> Invites \cup {NoInvite}]]
           /\ \A x, y \in Agents : latest'[x][y] =
                 IF x = b /\ y = r THEN i
                 ELSE IF x = b /\ y = m.from THEN m.id ELSE latest[x][y]
  <1> USE DEF ConsentInv
  <1>1. Importable(b, m) /\ Accepts(b, m, id, r)
    BY DEF AcceptInvite
  <1>2. i \in Invites /\ m.id \in Invites /\ m.from \in Agents
    BY <1>1, AcceptedFacts, ImportableFacts
  <1> DEFINE req == [[requests[b] EXCEPT ![m.id] = "open"] EXCEPT ![i] = "consumed"]
             lat == [[latest[b] EXCEPT ![m.from] = m.id] EXCEPT ![r] = i]
  <1>3. requests' = [requests EXCEPT ![b] = req] /\ latest' = [latest EXCEPT ![b] = lat]
    BY DEF AcceptInvite, AcceptedInvite
  <1>4. /\ req \in [Invites -> {"absent", "open", "consumed"}]
        /\ \A j \in Invites : req[j] = IF j = i THEN "consumed"
                                       ELSE IF j = m.id THEN "open" ELSE requests[b][j]
    BY <1>2 DEF TypeOK
  <1>5. /\ lat \in [Agents -> Invites \cup {NoInvite}]
        /\ \A y \in Agents : lat[y] = IF y = r THEN i
                                      ELSE IF y = m.from THEN m.id ELSE latest[b][y]
    BY <1>2 DEF TypeOK
  <1> HIDE DEF req, lat
  <1>6. /\ requests' \in [Agents -> [Invites -> {"absent", "open", "consumed"}]]
        /\ \A x \in Agents : requests'[x] = IF x = b THEN req ELSE requests[x]
    BY <1>3, <1>4 DEF TypeOK
  <1>7. /\ latest' \in [Agents -> [Agents -> Invites \cup {NoInvite}]]
        /\ \A x \in Agents : latest'[x] = IF x = b THEN lat ELSE latest[x]
    BY <1>3, <1>5 DEF TypeOK
  <1> QED BY <1>4, <1>5, <1>6, <1>7

\* The session AcceptInvite leaves for the accepted invite, and the acceptance.
LEMMA AcceptSession ==
    ASSUME ConsentInv, NEW b \in Agents, NEW r \in Agents, NEW m \in network,
           NEW id \in Invites \cup {NoInvite}, NEW h \in Fingerprints, AcceptInvite(b, m, id, r, h),
           NEW i, i = AcceptedInvite(b, m, r)
    PROVE  /\ \E s \in Session :
                /\ s.role = "invitee" /\ s.remote = r
                /\ sessions' \in [Agents -> [Invites -> Session \cup {NoSession}]]
                /\ \A x \in Agents, j \in Invites : sessions'[x][j] =
                     IF x = b /\ j = i THEN s
                     ELSE IF x = b /\ j = m.id THEN ImportedSession(m) ELSE sessions[x][j]
           /\ \E n \in PairingArtifacts :
                /\ n.kind = "acceptance" /\ n.id = i /\ n.from = b /\ n.to = r
                /\ network' = network \cup {n}
  <1> USE DEF ConsentInv
  <1>1. Importable(b, m) /\ Accepts(b, m, id, r)
    BY DEF AcceptInvite
  <1>2. /\ i \in Invites
        /\ \/ i = m.id /\ r = m.from
           \/ /\ i # m.id /\ sessions[b][i] \in Session
              /\ sessions[b][i].role = "invitee" /\ sessions[b][i].remote = r
    BY <1>1, AcceptedFacts
  <1>3. /\ m.id \in Invites /\ ImportedSession(m) \in Session
        /\ ImportedSession(m).role = "invitee" /\ ImportedSession(m).remote = m.from
    BY <1>1, ImportableFacts
  <1> DEFINE fresh == ImportedSession(m)
             imported == [sessions[b] EXCEPT ![m.id] = fresh]
             old == imported[i]
             n == AcceptanceFrom(b, r, i, h, old)
             d == Digest(n)
             t == [old EXCEPT !.localHost = h, !.acceptance = d]
             row == [imported EXCEPT ![i].localHost = h, ![i].acceptance = d]
  <1>4. sessions' = [sessions EXCEPT ![b] = row] /\ network' = network \cup {n}
    BY DEF AcceptInvite, AcceptedInvite
  <1> HIDE DEF fresh
  <1>5. /\ imported \in [Invites -> Session \cup {NoSession}]
        /\ \A j \in Invites : imported[j] = IF j = m.id THEN fresh ELSE sessions[b][j]
    BY <1>3 DEF TypeOK, fresh
  <1> HIDE DEF imported
  <1>6. old \in Session /\ old.role = "invitee" /\ old.remote = r
    BY <1>2, <1>3, <1>5 DEF fresh
  <1>7. n \in PairingArtifacts /\ d \in Digests
    BY <1>2, <1>6, AcceptanceType
  <1>8. n.kind = "acceptance" /\ n.id = i /\ n.from = b /\ n.to = r
    BY DEF AcceptanceFrom
  <1> HIDE DEF n, d
  <1>9. t \in Session /\ t.role = "invitee" /\ t.remote = r
    BY <1>6, <1>7 DEF Session, Fingerprints
  <1>10. row = [imported EXCEPT ![i] = t]
    BY <1>2, <1>5, <1>6
  <1> HIDE DEF t, row
  <1>11. /\ row \in [Invites -> Session \cup {NoSession}]
         /\ \A j \in Invites : row[j] = IF j = i THEN t ELSE imported[j]
    BY <1>2, <1>5, <1>9, <1>10
  <1>12. /\ sessions' \in [Agents -> [Invites -> Session \cup {NoSession}]]
         /\ \A x \in Agents : sessions'[x] = IF x = b THEN row ELSE sessions[x]
    BY <1>4, <1>11 DEF TypeOK
  <1>13. \A x \in Agents, j \in Invites : sessions'[x][j] =
                     IF x = b /\ j = i THEN t
                     ELSE IF x = b /\ j = m.id THEN fresh ELSE sessions[x][j]
    BY <1>5, <1>11, <1>12
  <1> QED BY <1>4, <1>7, <1>8, <1>9, <1>12, <1>13 DEF fresh

\* The contacts after AcceptInvite: m.from as imported, r awaiting confirmation
\* with the identity it presented.
LEMMA AcceptContacts ==
    ASSUME ConsentInv, NEW b \in Agents, NEW r \in Agents, NEW m \in network,
           NEW id \in Invites \cup {NoInvite}, NEW h \in Fingerprints, AcceptInvite(b, m, id, r, h)
    PROVE  /\ contacts' \in [Agents -> [Agents -> Contact]]
           /\ contacts'[b][r].state = "awaiting_confirmation"
           /\ r = m.from => contacts'[b][r].host = m.host /\ contacts'[b][r].key = m.from
           /\ r # m.from => /\ contacts'[b][m.from] = Imported(m)
                            /\ contacts'[b][r].host = contacts[b][r].host
                            /\ contacts'[b][r].key = contacts[b][r].key
           /\ \A x, y \in Agents : \/ contacts'[x][y] = contacts[x][y]
                                   \/ x = b /\ y \in {r, m.from}
  <1> USE DEF ConsentInv
  <1> DEFINE f == m.from
             c == Imported(m)
             row == [contacts[b] EXCEPT ![f] = c]
             last == [row[r] EXCEPT !.state = "awaiting_confirmation"]
             new == [row EXCEPT ![r].state = "awaiting_confirmation"]
  <1>1. f \in Agents /\ c \in Contact /\ c.host = m.host /\ c.key = m.from
    BY ImportableFacts DEF AcceptInvite
  <1>2. contacts' = [contacts EXCEPT ![b] = new]
    BY DEF AcceptInvite
  <1> HIDE DEF f, c
  <1>3. /\ row \in [Agents -> Contact]
        /\ \A y \in Agents : row[y] = IF y = f THEN c ELSE contacts[b][y]
    BY <1>1 DEF TypeOK
  <1> HIDE DEF row
  <1>4. /\ last \in Contact /\ last.state = "awaiting_confirmation"
        /\ last.host = row[r].host /\ last.key = row[r].key
    BY <1>3 DEF Contact, States
  <1>5. new = [row EXCEPT ![r] = last]
    BY <1>3
  <1> HIDE DEF last, new
  <1>6. /\ new \in [Agents -> Contact]
        /\ \A y \in Agents : new[y] = IF y = r THEN last ELSE row[y]
    BY <1>3, <1>4, <1>5
  <1>7. /\ contacts' \in [Agents -> [Agents -> Contact]]
        /\ \A x \in Agents : contacts'[x] = IF x = b THEN new ELSE contacts[x]
    BY <1>2, <1>6 DEF TypeOK
  <1>8. contacts'[b][r] = last
    BY <1>6, <1>7
  <1>9. r = f => last.host = c.host /\ last.key = c.key
    BY <1>3, <1>4
  <1>10. r # f => /\ contacts'[b][f] = c
                  /\ last.host = contacts[b][r].host /\ last.key = contacts[b][r].key
    BY <1>1, <1>3, <1>4, <1>6, <1>7
  <1>11. \A x, y \in Agents : contacts'[x][y] = contacts[x][y] \/ (x = b /\ y \in {r, f})
    BY <1>3, <1>6, <1>7
  <1> QED BY <1>1, <1>4, <1>7, <1>8, <1>9, <1>10, <1>11 DEF f, c

\* AcceptInvite preserves ConsentInv: the request it consumes makes its acceptance the only one.
LEMMA AcceptInviteStep ==
    ASSUME ConsentInv, NEW b \in Agents, NEW r \in Agents, NEW m \in network,
           NEW id \in Invites \cup {NoInvite}, NEW h \in Fingerprints, AcceptInvite(b, m, id, r, h)
    PROVE  ConsentInv'
  <1> USE DEF ConsentInv
  <1>1. PICK i : i = AcceptedInvite(b, m, r)
    OBVIOUS
  <1>2. Importable(b, m) /\ Accepts(b, m, id, r) /\ UNCHANGED <<expired, calls>>
    BY DEF AcceptInvite
  <1>3. /\ i \in Invites /\ requests[b][i] # "consumed" /\ Sent("invite", i, r, b)
        /\ \/ r = m.from /\ i = m.id
           \/ /\ r # m.from /\ i # m.id /\ contacts[b][r].state = "pending_inbound"
              /\ sessions[b][i].role = "invitee" /\ sessions[b][i].remote = r
    BY <1>1, <1>2, AcceptedFacts
  <1>4. /\ m.id \in Invites /\ m.from \in Agents /\ m.to = b
        /\ m.kind = "invite" /\ Sent("invite", m.id, m.from, b)
        /\ requests[b][m.id] = "absent" /\ sessions[b][m.id] = NoSession
        /\ Imported(m) \in Contact /\ Imported(m).state = "pending_inbound"
        /\ Imported(m).key = m.from /\ Imported(m).host = m.host
        /\ ImportedSession(m) \in Session /\ ImportedSession(m).role = "invitee"
        /\ ImportedSession(m).remote = m.from
    BY <1>2, ImportableFacts
  <1>5. /\ requests' \in [Agents -> [Invites -> {"absent", "open", "consumed"}]]
        /\ \A x \in Agents, j \in Invites : requests'[x][j] =
              IF x = b /\ j = i THEN "consumed"
              ELSE IF x = b /\ j = m.id THEN "open" ELSE requests[x][j]
        /\ latest' \in [Agents -> [Agents -> Invites \cup {NoInvite}]]
        /\ \A x, y \in Agents : latest'[x][y] =
              IF x = b /\ y = r THEN i
              ELSE IF x = b /\ y = m.from THEN m.id ELSE latest[x][y]
    BY <1>1, AcceptRows
  <1>6. PICK s \in Session :
           /\ s.role = "invitee" /\ s.remote = r
           /\ sessions' \in [Agents -> [Invites -> Session \cup {NoSession}]]
           /\ \A x \in Agents, j \in Invites : sessions'[x][j] =
                IF x = b /\ j = i THEN s
                ELSE IF x = b /\ j = m.id THEN ImportedSession(m) ELSE sessions[x][j]
    BY <1>1, AcceptSession
  <1>7. PICK n \in PairingArtifacts :
           /\ n.kind = "acceptance" /\ n.id = i /\ n.from = b /\ n.to = r
           /\ network' = network \cup {n}
    BY <1>1, AcceptSession
  <1>8. /\ contacts' \in [Agents -> [Agents -> Contact]]
        /\ contacts'[b][r].state = "awaiting_confirmation"
        /\ r = m.from => contacts'[b][r].host = m.host /\ contacts'[b][r].key = m.from
        /\ r # m.from => /\ contacts'[b][m.from] = Imported(m)
                         /\ contacts'[b][r].host = contacts[b][r].host
                         /\ contacts'[b][r].key = contacts[b][r].key
        /\ \A x, y \in Agents : \/ contacts'[x][y] = contacts[x][y]
                                \/ x = b /\ y \in {r, m.from}
    BY AcceptContacts
  <1>9. TypeOK'
    BY <1>2, <1>5, <1>6, <1>7, <1>8 DEF TypeOK, Artifacts
  <1>10. Grows
    BY <1>4, <1>5, <1>7 DEF Grows, TypeOK
  <1>11. SessionsBacked'
    <2>1. Sent("invite", i, r, b)' /\ Sent("invite", m.id, m.from, b)'
      BY <1>3, <1>4, <1>10, SentStable DEF Grows
    <2> SUFFICES ASSUME NEW x \in Agents, NEW j \in Invites, sessions'[x][j] # NoSession
                 PROVE  /\ requests'[x][j] # "absent"
                        /\ (sessions[x][j].role = "invitee" =>
                              Sent("invite", j, sessions[x][j].remote, x))'
      BY DEF SessionsBacked
    <2>2. CASE x = b /\ j = i
      BY <1>5, <1>6, <2>1, <2>2
    <2>3. CASE x = b /\ j = m.id /\ j # i
      BY <1>4, <1>5, <1>6, <2>1, <2>3
    <2>4. CASE ~(x = b /\ j \in {i, m.id})
      <3>1. sessions'[x][j] = sessions[x][j] /\ requests'[x][j] = requests[x][j]
        BY <1>5, <1>6, <2>4
      <3> QED BY <1>10, <3>1, SentStable DEF SessionsBacked, Grows
    <2> QED BY <2>2, <2>3, <2>4
  <1>12. LatestBacked'
    <2> SUFFICES ASSUME NEW x \in Agents, NEW y \in Agents
                 PROVE  /\ latest'[x][y] # NoInvite =>
                             /\ sessions'[x][latest'[x][y]] # NoSession
                             /\ sessions'[x][latest'[x][y]].remote = y
                        /\ contacts'[x][y].state = "pending_inbound" =>
                             /\ latest'[x][y] # NoInvite
                             /\ sessions'[x][latest'[x][y]].role = "invitee"
      BY DEF LatestBacked
    <2>1. CASE x = b /\ y = r
      BY <1>3, <1>5, <1>6, <2>1
    <2>2. CASE x = b /\ y = m.from /\ y # r
      <3>1. latest'[x][y] = m.id /\ sessions'[x][m.id] = ImportedSession(m)
        BY <1>3, <1>4, <1>5, <1>6, <2>2
      <3> QED BY <1>4, <2>2, <3>1
    <2>3. CASE ~(x = b /\ y \in {r, m.from})
      <3>1. latest'[x][y] = latest[x][y] /\ contacts'[x][y] = contacts[x][y]
        BY <1>5, <1>8, <2>3
      <3>2. ASSUME latest[x][y] # NoInvite
            PROVE  /\ latest[x][y] \in Invites
                   /\ sessions'[x][latest[x][y]] = sessions[x][latest[x][y]]
        <4>1. /\ latest[x][y] \in Invites /\ sessions[x][latest[x][y]] # NoSession
              /\ sessions[x][latest[x][y]].remote = y
          BY <3>2 DEF LatestBacked, TypeOK
        <4>2. ~(x = b /\ latest[x][y] = m.id)
          BY <1>4, <4>1
        <4>3. ~(x = b /\ latest[x][y] = i)
          BY <1>3, <2>3, <4>1, <4>2
        <4> QED BY <1>6, <4>1, <4>2, <4>3
      <3> QED BY <3>1, <3>2 DEF LatestBacked
    <2> QED BY <2>1, <2>2, <2>3
  <1>13. ActiveByConsent'
    <2>1. \A x, y \in Agents : contacts'[x][y].state = "active" => contacts[x][y].state = "active"
      BY <1>4, <1>8
    <2> QED BY <1>10, <2>1, ActiveStep DEF Grows
  <1>14. PresentedByPeer'
    <2> SUFFICES ASSUME NEW x \in Agents, NEW y \in Agents,
                        contacts'[x][y].state \in Pinning \cup {"pending_inbound"}
                 PROVE  /\ contacts'[x][y].key = y
                        /\ \E k \in network' : /\ k.kind \in {"invite", "acceptance"}
                                               /\ k.from = y /\ k.to = x
                                               /\ k.host = contacts'[x][y].host
      BY DEF PresentedByPeer, Presented
    <2>1. CASE x = b /\ y = m.from
      BY <1>4, <1>7, <1>8, <2>1
    <2>2. CASE ~(x = b /\ y = m.from)
      <3>1. /\ contacts[x][y].state \in Pinning \cup {"pending_inbound"}
            /\ contacts'[x][y].host = contacts[x][y].host
            /\ contacts'[x][y].key = contacts[x][y].key
        BY <1>3, <1>8, <2>2
      <3> QED BY <1>7, <3>1 DEF PresentedByPeer, Presented
    <2> QED BY <2>1, <2>2
  <1>15. \A k \in network : k.kind # "revocation" => k.id \in Invites /\ k.from \in Agents
    BY ArtifactType DEF TypeOK, PairingArtifacts
  <1>16. InviteSingleUse'
    <2>1. ASSUME NEW k \in network, k.kind = "acceptance", k.id = i
          PROVE  FALSE
      <3>1. requests[k.from][i] = "consumed" /\ Sent("invite", i, k.to, k.from)
        BY <2>1 DEF ArtifactsBacked
      <3>2. k.from = b
        BY <1>3, <3>1 DEF Sent, InviteSingleUse
      <3> QED BY <1>3, <3>1, <3>2
    <2> QED BY <1>7, <2>1 DEF InviteSingleUse
  <1>17. ArtifactsBacked'
    <2>1. ASSUME NEW k \in network, k.kind # "revocation"
          PROVE  /\ k.kind = "invite" => requests'[k.from][k.id] # "absent"
                 /\ k.kind \in {"acceptance", "confirmation"} =>
                      requests'[k.from][k.id] = "consumed"
      BY <1>10, <1>15, <2>1 DEF ArtifactsBacked, Grows
    <2>2. Sent("invite", i, r, b)' /\ requests'[b][i] = "consumed"
      BY <1>3, <1>5, <1>10, SentStable DEF Grows
    <2> QED BY <1>7, <1>10, <2>1, <2>2, SentStable DEF ArtifactsBacked, Grows
  <1>18. CallsBacked'
    BY <1>2, <1>7, CallsStep
  <1> QED BY <1>9, <1>11, <1>12, <1>13, <1>14, <1>16, <1>17, <1>18

-----------------------------------------------------------------------------
(* Theorems *)

\* ConsentInv is inductive: it holds initially and every handler preserves it.
THEOREM ConsentInvariant == Spec => []ConsentInv
  <1>1. Init => ConsentInv
    BY DEF Init, ConsentInv, TypeOK, SessionsBacked, LatestBacked, ArtifactsBacked,
           PresentedByPeer, InviteSingleUse, ActiveByConsent, CallsBacked, Contact, States,
           Fingerprints, Keys, Pinning
  <1>2. ConsentInv /\ [Next]_vars => ConsentInv'
    <2> SUFFICES ASSUME ConsentInv, [Next]_vars
                 PROVE  ConsentInv'
      OBVIOUS
    <2>1. ASSUME NEW a \in Agents, NEW b \in Agents, NEW i \in Invites, NEW h \in Fingerprints,
                 CreateInvite(a, b, i, h) \/ CreateInviteConflict(a, b, i, h)
          PROVE  ConsentInv'
      BY <2>1, CreateInviteStep
    <2>2. ASSUME NEW b \in Agents, NEW r \in Agents, NEW m \in network,
                 NEW id \in Invites \cup {NoInvite}, NEW h \in Fingerprints,
                 AcceptInvite(b, m, id, r, h)
          PROVE  ConsentInv'
      BY <2>2, AcceptInviteStep
    <2>3. ASSUME NEW b \in Agents, NEW m \in network, NEW id \in Invites \cup {NoInvite},
                 ImportOnly(b, m, id)
          PROVE  ConsentInv'
      BY <2>3, ImportOnlyStep
    <2>4. ASSUME NEW a \in Agents, NEW m \in network,
                 ApproveAcceptance(a, m) \/ ApproveConflict(a, m)
          PROVE  ConsentInv'
      BY <2>4, ApproveStep
    <2>5. ASSUME NEW c \in Calls, NEW a \in Agents, NEW m \in network,
                 ApplyConfirmation(c, a, m)
          PROVE  ConsentInv'
      BY <2>5, ApplyConfirmationStep
    <2>6. ASSUME NEW c \in Calls, NEW a \in Agents,
                 \/ \E b \in Agents : Revoke(c, a, b) \/ Block(c, a, b)
                 \/ \E m \in network : ApplyActivationReceipt(c, a, m) \/ ApplyRevocation(c, a, m)
          PROVE  ConsentInv'
      BY <2>6, StartStep
    <2>7. ASSUME NEW c \in Calls, WriteContact(c) \/ RevokeWithNotice(c)
          PROVE  ConsentInv'
      BY <2>7, WriteContactStep, RevokeWithNoticeStep
    <2>8. ASSUME \/ \E c \in Calls : EndCall(c)
                 \/ \E i \in Invites : Expire(i)
                 \/ UNCHANGED vars
          PROVE  ConsentInv'
      BY <2>8, EndStep
    <2> QED BY <2>1, <2>2, <2>3, <2>4, <2>5, <2>6, <2>7, <2>8 DEF Next
  <1> QED BY <1>1, <1>2, PTL DEF Spec

\* The rows of contacts, pairing_requests and pairing_sessions, the artifacts and what
\* the calls under way hold stay well formed.
THEOREM TypeCorrect == Spec => []TypeOK
  <1>1. ConsentInv => TypeOK
    BY DEF ConsentInv
  <1> QED BY <1>1, ConsentInvariant, PTL

\* No contact becomes active without the artifacts of both operators.
THEOREM Consent == Spec => []ActiveByConsent
  <1>1. ConsentInv => ActiveByConsent
    BY DEF ConsentInv
  <1> QED BY <1>1, ConsentInvariant, PTL

\* No invite is accepted or confirmed twice.
THEOREM SingleUse == Spec => []InviteSingleUse
  <1>1. ConsentInv => InviteSingleUse
    BY DEF ConsentInv
  <1> QED BY <1>1, ConsentInvariant, PTL

\* A pinned identity is one the peer presented itself.
THEOREM PinnedIdentity == Spec => []PinnedByPeer
  <1>1. ConsentInv => PinnedByPeer
    BY DEF ConsentInv, PresentedByPeer, PinnedByPeer
  <1> QED BY <1>1, ConsentInvariant, PTL

\* While a contact is pinned, UpsertContact and the state updates keep the
\* fingerprints it is pinned to.
THEOREM PinKept == Spec => PinnedIdentityKept
  <1> DEFINE Kept == \A a, b \in Agents :
                 /\ contacts[a][b].state \in Pinning
                 /\ contacts'[a][b].state \in Pinning
                 => /\ contacts'[a][b].host = contacts[a][b].host
                    /\ contacts'[a][b].key = contacts[a][b].key
  <1>1. ASSUME ConsentInv, [Next]_vars
        PROVE  Kept \/ UNCHANGED vars
    <2> USE <1>1 DEF ConsentInv
    <2>1. ASSUME contacts' = contacts
          PROVE  Kept
      BY <2>1
    <2>3. ASSUME NEW a \in Agents, NEW b \in Agents, NEW c \in Contact,
                 PutsContact(a, b, c), MayUpsert(contacts[a][b], c)
          PROVE  Kept
      <3>1. TypeOK
        OBVIOUS
      <3>2. \A x, y \in Agents :
               contacts'[x][y] = IF x = a /\ y = b THEN c ELSE contacts[x][y]
        <4> HIDE <1>1 DEF ConsentInv, Kept
        <4> QED BY <2>3, <3>1, PutContactType
      <3> QED BY <2>3, <3>2 DEF MayUpsert
    <2>4. ASSUME NEW a \in Agents, NEW b \in Agents, NEW i \in Invites, NEW h \in Fingerprints,
                 CreateInvite(a, b, i, h) \/ CreateInviteConflict(a, b, i, h)
          PROVE  Kept
      <3>1. Outbound \in Contact
        BY DEF Outbound, Contact, States, Fingerprints, Keys
      <3> HIDE DEF Kept
      <3> QED BY <2>1, <2>3, <2>4, <3>1 DEF CreateInvite, CreateInviteConflict, PutsContact
    <2>5. ASSUME NEW b \in Agents, NEW r \in Agents, NEW m \in network,
                 NEW id \in Invites \cup {NoInvite}, NEW h \in Fingerprints,
                 AcceptInvite(b, m, id, r, h)
          PROVE  Kept
      <3>1. Importable(b, m) /\ Accepts(b, m, id, r)
            /\ MayUpsert(contacts[b][m.from], Imported(m))
        BY <2>5 DEF AcceptInvite
      <3>2. /\ Imported(m).key = m.from /\ Imported(m).host = m.host
            /\ Imported(m).state = "pending_inbound" /\ m.from \in Agents
        BY <3>1, ImportableFacts
      <3>3. /\ r = m.from => contacts'[b][r].host = m.host /\ contacts'[b][r].key = m.from
            /\ r # m.from => /\ contacts'[b][m.from] = Imported(m)
                             /\ contacts'[b][r].host = contacts[b][r].host
                             /\ contacts'[b][r].key = contacts[b][r].key
            /\ \A x, y \in Agents : \/ contacts'[x][y] = contacts[x][y]
                                    \/ x = b /\ y \in {r, m.from}
        BY <2>5, AcceptContacts
      <3>4. contacts[b][m.from].state \in Pinning =>
               contacts[b][m.from].host = m.host /\ contacts[b][m.from].key = m.from
        BY <3>1, <3>2 DEF MayUpsert
      <3> QED BY <3>2, <3>3, <3>4 DEF Pinning
    <2>6. ASSUME NEW b \in Agents, NEW m \in network, NEW id \in Invites \cup {NoInvite},
                 ImportOnly(b, m, id)
          PROVE  Kept
      <3>1. Imported(m) \in Contact /\ m.from \in Agents
        BY <2>6, ImportableFacts DEF ImportOnly
      <3>2. \/ contacts' = contacts
            \/ /\ PutsContact(b, m.from, Imported(m))
               /\ MayUpsert(contacts[b][m.from], Imported(m))
        BY <2>6 DEF ImportOnly, PutsContact
      <3> HIDE DEF Kept
      <3> QED BY <2>1, <2>3, <3>1, <3>2
    <2>7. ASSUME NEW a \in Agents, NEW m \in network,
                 ApproveAcceptance(a, m) \/ ApproveConflict(a, m)
          PROVE  Kept
      <3>1. m \in PairingArtifacts /\ m.from \in Agents /\ sessions[a][m.id] \in Session
        BY <2>7, ApproveFacts DEF ApproveAcceptance, ApproveConflict
      <3>2. Approved(m) \in Contact
        BY <3>1, ConfirmationType
      <3> HIDE DEF Kept
      <3> QED BY <2>1, <2>3, <2>7, <3>1, <3>2 DEF ApproveAcceptance, ApproveConflict, PutsContact
    <2>8. ASSUME NEW c \in Calls, WriteContact(c)
          PROVE  Kept
      <3>1. /\ calls[c].agent \in Agents /\ calls[c].peer \in Agents /\ calls[c].row \in Contact
            /\ PutsContact(calls[c].agent, calls[c].peer, calls[c].row)
            /\ MayUpsert(contacts[calls[c].agent][calls[c].peer], calls[c].row)
        BY <1>1, <2>8, CallParts DEF WriteContact, PutsContact
      <3> HIDE DEF Kept
      <3> QED BY <2>3, <3>1
    <2>9. ASSUME NEW c \in Calls,
                 \/ \E a \in Agents, m \in network :
                       \/ ApplyConfirmation(c, a, m) \/ ApplyActivationReceipt(c, a, m)
                       \/ ApplyRevocation(c, a, m)
                 \/ \E a, b \in Agents : Revoke(c, a, b) \/ Block(c, a, b)
                 \/ RevokeWithNotice(c) \/ EndCall(c)
          PROVE  Kept
      <3>1. contacts' = contacts
        BY <2>9 DEF ApplyConfirmation, ApplyActivationReceipt, ApplyRevocation, Revoke, Block,
                    RevokeWithNotice, EndCall
      <3> HIDE DEF Kept
      <3> QED BY <2>1, <3>1
    <2>10. ASSUME NEW i \in Invites, Expire(i)
           PROVE  Kept
      BY <2>10 DEF Expire
    <2> HIDE DEF Kept
    <2> QED BY <2>4, <2>5, <2>6, <2>7, <2>8, <2>9, <2>10 DEF Next
  <1> QED BY <1>1, ConsentInvariant, PTL DEF Spec, PinnedIdentityKept

\* A contact leaves blocked for active or revoked only by the write of a call that read
\* it before, or on a notice of the peer (WriteContact; no other handler writes one of
\* these two states).
THEOREM BlockStands == Spec => NoCallUndoesBlock
  <1> DEFINE Stays(a, b) ==
                 /\ contacts[a][b].state = "blocked"
                 /\ contacts'[a][b].state \in {"active", "revoked"}
                 => \/ \E c \in Calls : /\ calls[c] # NoCall /\ ~calls[c].sawBlocked
                                        /\ calls[c].agent = a /\ calls[c].peer = b
                                        /\ calls[c].row = contacts'[a][b]
                    \/ contacts'[a][b].state = "revoked" /\ Noticed(a, b)
             Kept == \A a, b \in Agents : Stays(a, b)
  <1>1. ASSUME ConsentInv, [Next]_vars
        PROVE  Kept
    <2>1. ASSUME \A x, y \in Agents : \/ contacts'[x][y] = contacts[x][y]
                                      \/ contacts'[x][y].state \notin {"active", "revoked"}
          PROVE  Kept
      BY <2>1
    \* a step that writes one row, in none of the two states
    <2>2. ASSUME NEW a \in Agents, NEW b \in Agents, NEW c \in Contact,
                 contacts' = contacts \/ PutsContact(a, b, c),
                 c.state \notin {"active", "revoked"}
          PROVE  Kept
      <3>1. CASE contacts' = contacts
        BY <2>1, <3>1
      <3>2. CASE PutsContact(a, b, c)
        <4>1. \A x, y \in Agents :
                 contacts'[x][y] = IF x = a /\ y = b THEN c ELSE contacts[x][y]
          BY <1>1, <3>2, PutContactType DEF ConsentInv
        <4> HIDE DEF Kept
        <4> QED BY <2>1, <2>2, <4>1
      <3> QED BY <2>2, <3>1, <3>2
    <2>3. ASSUME NEW a \in Agents, NEW b \in Agents, NEW i \in Invites, NEW h \in Fingerprints,
                 CreateInvite(a, b, i, h) \/ CreateInviteConflict(a, b, i, h)
          PROVE  Kept
      <3>1. Outbound \in Contact /\ Outbound.state = "pending_outbound"
        BY DEF Outbound, Contact, States, Fingerprints, Keys
      <3>2. contacts' = contacts \/ PutsContact(a, b, Outbound)
        BY <2>3 DEF CreateInvite, CreateInviteConflict, PutsContact
      <3> HIDE DEF Kept
      <3> QED BY <2>2, <3>1, <3>2
    <2>4. ASSUME NEW b \in Agents, NEW r \in Agents, NEW m \in network,
                 NEW id \in Invites \cup {NoInvite}, NEW h \in Fingerprints,
                 AcceptInvite(b, m, id, r, h)
          PROVE  Kept
      <3>1. Imported(m).state = "pending_inbound"
        BY DEF Imported
      <3>2. /\ contacts'[b][r].state = "awaiting_confirmation"
            /\ r # m.from => contacts'[b][m.from] = Imported(m)
            /\ \A x, y \in Agents : \/ contacts'[x][y] = contacts[x][y]
                                    \/ x = b /\ y \in {r, m.from}
        BY <1>1, <2>4, AcceptContacts
      <3> HIDE DEF Kept
      <3> QED BY <2>1, <3>1, <3>2
    <2>5. ASSUME NEW b \in Agents, NEW m \in network, NEW id \in Invites \cup {NoInvite},
                 ImportOnly(b, m, id)
          PROVE  Kept
      <3>1. /\ Imported(m) \in Contact /\ m.from \in Agents
            /\ Imported(m).state = "pending_inbound"
        BY <1>1, <2>5, ImportableFacts DEF ImportOnly
      <3>2. contacts' = contacts \/ PutsContact(b, m.from, Imported(m))
        BY <2>5 DEF ImportOnly, PutsContact
      <3> HIDE DEF Kept
      <3> QED BY <2>2, <3>1, <3>2
    <2>6. ASSUME NEW a \in Agents, NEW m \in network,
                 ApproveAcceptance(a, m) \/ ApproveConflict(a, m)
          PROVE  Kept
      <3>1. m \in PairingArtifacts /\ m.from \in Agents /\ sessions[a][m.id] \in Session
        BY <1>1, <2>6, ApproveFacts DEF ApproveAcceptance, ApproveConflict
      <3>2. Approved(m) \in Contact /\ Approved(m).state = "awaiting_confirmation"
        BY <3>1, ConfirmationType DEF Approved
      <3>3. contacts' = contacts \/ PutsContact(a, m.from, Approved(m))
        BY <2>6 DEF ApproveAcceptance, ApproveConflict, PutsContact
      <3> HIDE DEF Kept
      <3> QED BY <2>2, <3>1, <3>2, <3>3
    \* the write of a call under way
    <2>7. ASSUME NEW c \in Calls, WriteContact(c)
          PROVE  Kept
      <3>1. PICK a \in Agents, b \in Agents, row \in Contact :
               /\ a = calls[c].agent /\ b = calls[c].peer /\ row = calls[c].row
        BY <1>1, <2>7, CallParts DEF WriteContact
      <3>2. PutsContact(a, b, row) /\ calls[c] # NoCall
        BY <2>7, <3>1 DEF WriteContact, PutsContact
      <3>3. \A x, y \in Agents :
               contacts'[x][y] = IF x = a /\ y = b THEN row ELSE contacts[x][y]
        BY <1>1, <3>2, PutContactType DEF ConsentInv
      <3>4. /\ row.state = "active" => ~calls[c].sawBlocked
            /\ row.state = "revoked" => ~calls[c].sawBlocked \/ Noticed(a, b)
        BY <1>1, <3>1, <3>2, CallParts DEF CallBacked
      <3>5. Stays(a, b)
        BY <3>1, <3>2, <3>3, <3>4
      <3>6. ASSUME NEW x \in Agents, NEW y \in Agents, ~(x = a /\ y = b)
            PROVE  Stays(x, y)
        BY <3>3, <3>6
      <3> HIDE DEF Stays
      <3> QED BY <3>5, <3>6
    <2>8. ASSUME \/ \E c \in Calls, a \in Agents, m \in network :
                       \/ ApplyConfirmation(c, a, m) \/ ApplyActivationReceipt(c, a, m)
                       \/ ApplyRevocation(c, a, m)
                 \/ \E c \in Calls, a, b \in Agents : Revoke(c, a, b) \/ Block(c, a, b)
                 \/ \E c \in Calls : RevokeWithNotice(c) \/ EndCall(c)
                 \/ \E i \in Invites : Expire(i)
                 \/ UNCHANGED vars
          PROVE  Kept
      <3>1. contacts' = contacts
        BY <2>8 DEF ApplyConfirmation, ApplyActivationReceipt, ApplyRevocation, Revoke, Block,
                    RevokeWithNotice, EndCall, Expire, vars
      <3> HIDE DEF Kept
      <3> QED BY <2>1, <3>1
    <2> HIDE DEF Kept
    <2> QED BY <1>1, <2>3, <2>4, <2>5, <2>6, <2>7, <2>8 DEF Next
  <1>2. ConsentInv /\ [Next]_vars => [Kept]_vars
    BY <1>1
  <1> QED BY <1>2, ConsentInvariant, PTL DEF Spec, NoCallUndoesBlock

=============================================================================
