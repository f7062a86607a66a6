----------------------------- MODULE Capability ------------------------------
(***************************************************************************)
(* Registration of an agent, rotation of its capability key and the        *)
(* sessions that methods are called with (internal/management/handler.go,  *)
(* internal/registration, internal/capability, internal/identitystore, the *)
(* agent_registrations table), for one agent id.                           *)
(*                                                                         *)
(* Every IPC connection has a goroutine of its own, so the calls           *)
(* interleave at each read or write of the row, of the two key files and   *)
(* of the maps behind capabilityMu.  The row and the files survive a       *)
(* restart of the daemon, the challenges and the sessions do not.  Keys    *)
(* and tokens are random: they are numbered in the order in which they are *)
(* generated, 0 is none, and the identity, the capability key and the      *)
(* registration token of one registerAgent call share a number.            *)
(***************************************************************************)
EXTENDS Naturals

CONSTANTS
    Callers,    \* connections whose calls may run at the same time
    Nonces,     \* challenges; bounds how many a behaviour issues
    MaxKeys,    \* bounds how many keys a behaviour generates
    NoRow,      \* the agent is not registered
    NoNonce     \* the call is about no challenge

VARIABLES
    row,        \* the row of agent_registrations
    idfile,     \* the identity in <agent>.json, 0 if there is none
    keyfile,    \* the key in <agent>.capability.json, 0 if there is none
    known,      \* a registerAgent call has returned the token of the row
    made,       \* keys generated so far
    challenges, \* challenges[n]: new, open (in the map), expired, used
    sessions,   \* the map of sessions; key is the key that signed the challenge
    lapsed,     \* challenges whose session has run out
    calls,      \* calls[c]: the call of c, its place and what it has read
    minted,     \* history: minted[n] is the number of sessions issued for n
    overlapped, \* history: a rotation began while another was writing
    torn        \* history: since the last rotation that ran alone, one was cut off
                \* between row and key file, or two overlapped

vars == <<row, idfile, keyfile, known, made, challenges, sessions, lapsed, calls,
          minted, overlapped, torn>>
stored == <<row, idfile, keyfile, known>>
memory == <<challenges, sessions, lapsed, minted>>
history == <<overlapped, torn>>

ASSUME KeysAreBounded == MaxKeys \in Nat \ {0}
ASSUME NothingIsANonce == NoNonce \notin Nonces

Keys == 0..MaxKeys
Row == [identity : Keys, key : Keys, gen : Nat]
Session == [nonce : Nonces, gen : Nat, key : Keys]

ASSUME NothingIsARow == NoRow \notin Row

\* inspect: ensureAgent found no row; insert, identity, regkey, reply: registerAgent;
\* update, putkey, drop: rotateCapability; pop, mint: capabilityExchange;
\* check, accepted: authenticateMethod.  Each place is named for the next step.
Places == {"idle", "inspect", "insert", "identity", "regkey", "reply", "update", "putkey", "drop",
           "pop", "mint", "check", "accepted"}
Call == [pc : Places, key : Keys, gen : Nat, nonce : Nonces \cup {NoNonce}, alone : BOOLEAN]
NoCall == [pc |-> "idle", key |-> 0, gen |-> 0, nonce |-> NoNonce, alone |-> TRUE]

At(c, place) == calls[c].pc = place
Goes(c, call) == calls' = [calls EXCEPT ![c] = call]

CapTypeOK ==
    /\ row = NoRow \/ row \in Row
    /\ idfile \in Keys /\ keyfile \in Keys /\ made \in Keys
    /\ known \in BOOLEAN /\ overlapped \in BOOLEAN /\ torn \in BOOLEAN
    /\ challenges \in [Nonces -> {"new", "open", "expired", "used"}]
    /\ sessions \subseteq Session
    /\ lapsed \subseteq Nonces
    /\ calls \in [Callers -> Call]
    /\ minted \in [Nonces -> Nat]

\* A new table and no files.
CapInit ==
    /\ row = NoRow /\ known = FALSE
    /\ idfile = 0 /\ keyfile = 0 /\ made = 0
    /\ challenges = [n \in Nonces |-> "new"]
    /\ sessions = {} /\ lapsed = {}
    /\ calls = [c \in Callers |-> NoCall]
    /\ minted = [n \in Nonces |-> 0]
    /\ overlapped = FALSE /\ torn = FALSE

-----------------------------------------------------------------------------
(* registerAgent and ensureAgent *)

\* The identity, the capability key and the token are generated.
StartsRegistration(c) ==
    /\ made < MaxKeys
    /\ made' = made + 1
    /\ Goes(c, [NoCall EXCEPT !.pc = "insert", !.key = made + 1])
    /\ UNCHANGED <<stored, memory, history>>

RegisterAgent(c) == At(c, "idle") /\ StartsRegistration(c)

\* ensureAgent looks for the row, then for an identity file, and registers.
EnsureAgent(c) ==
    /\ At(c, "idle")
    /\ row = NoRow
    /\ Goes(c, [NoCall EXCEPT !.pc = "inspect"])
    /\ UNCHANGED <<stored, made, memory, history>>

EnsureRegisters(c) == At(c, "inspect") /\ idfile = 0 /\ StartsRegistration(c)

\* Mutant of InsertRow: the row is replaced if there is one.
ReplaceRow(c) ==
    /\ At(c, "insert")
    /\ row' = [identity |-> calls[c].key, key |-> calls[c].key, gen |-> 1]
    /\ Goes(c, [calls[c] EXCEPT !.pc = "identity"])
    /\ UNCHANGED <<idfile, keyfile, known, made, memory, history>>

\* Register: agent_id is the primary key, so one of two INSERTs fails.
InsertRow(c) ==
    /\ At(c, "insert")
    /\ row = NoRow
    /\ row' = [identity |-> calls[c].key, key |-> calls[c].key, gen |-> 1]
    /\ Goes(c, [calls[c] EXCEPT !.pc = "identity"])
    /\ UNCHANGED <<idfile, keyfile, known, made, memory, history>>

PutIdentity(c) ==
    /\ At(c, "identity")
    /\ idfile' = calls[c].key
    /\ Goes(c, [calls[c] EXCEPT !.pc = "regkey"])
    /\ UNCHANGED <<row, keyfile, known, made, memory, history>>

PutFirstKey(c) ==
    /\ At(c, "regkey")
    /\ keyfile' = calls[c].key
    /\ Goes(c, [calls[c] EXCEPT !.pc = "reply"])
    /\ UNCHANGED <<row, idfile, known, made, memory, history>>

ReturnToken(c) ==
    /\ At(c, "reply")
    /\ known' = TRUE
    /\ Goes(c, NoCall)
    /\ UNCHANGED <<row, idfile, keyfile, made, memory, history>>

\* What ensureAgent compares before it lets a caller with the token use the agent again.
Reusable ==
    /\ row # NoRow
    /\ idfile = row.identity
    /\ row.key # 0 => keyfile = row.key

-----------------------------------------------------------------------------
(* rotateCapability *)

\* Mutant of NextGeneration: the generation stays.
SameGeneration == row.gen

NextGeneration == IF row.gen + 1 = 1 /\ row.key # 0 THEN 2 ELSE row.gen + 1

Writing == {c \in Callers : calls[c].pc \in {"update", "putkey"}}

\* The token is right, and the row is read.
RotateCapability(c) ==
    /\ At(c, "idle")
    /\ row # NoRow /\ known
    /\ made < MaxKeys
    /\ made' = made + 1
    /\ overlapped' = (overlapped \/ Writing # {})
    /\ calls' = [d \in Callers |->
          IF d = c THEN [NoCall EXCEPT !.pc = "update", !.key = made + 1, !.gen = NextGeneration,
                                       !.alone = (Writing = {})]
          ELSE IF d \in Writing THEN [calls[d] EXCEPT !.alone = FALSE] ELSE calls[d]]
    /\ UNCHANGED <<stored, memory, torn>>

UpdateAgentCapability(c) ==
    /\ At(c, "update")
    /\ row' = [row EXCEPT !.key = calls[c].key, !.gen = calls[c].gen]
    /\ Goes(c, [calls[c] EXCEPT !.pc = "putkey"])
    /\ UNCHANGED <<idfile, keyfile, known, made, memory, history>>

\* Mutant of PutCapabilityKey: the file is not written.
SkipCapabilityKey(c) ==
    /\ At(c, "putkey")
    /\ Goes(c, [calls[c] EXCEPT !.pc = "drop"])
    /\ torn' = ~calls[c].alone
    /\ UNCHANGED <<stored, made, memory, overlapped>>

PutCapabilityKey(c) ==
    /\ At(c, "putkey")
    /\ keyfile' = calls[c].key
    /\ torn' = ~calls[c].alone
    /\ Goes(c, [calls[c] EXCEPT !.pc = "drop"])
    /\ UNCHANGED <<row, idfile, known, made, memory, overlapped>>

DropSessions(c) ==
    /\ At(c, "drop")
    /\ sessions' = {}
    /\ Goes(c, NoCall)
    /\ UNCHANGED <<stored, made, challenges, lapsed, minted, history>>

-----------------------------------------------------------------------------
(* Challenges and sessions *)

CapabilityChallenge(n) ==
    /\ row # NoRow /\ known
    /\ row.key # 0 /\ row.gen # 0
    /\ challenges[n] = "new"
    /\ challenges' = [challenges EXCEPT ![n] = "open"]
    /\ UNCHANGED <<stored, made, sessions, lapsed, calls, minted, history>>

\* Two minutes pass, or the fifteen of a session.
ExpireChallenge(n) ==
    /\ challenges[n] = "open"
    /\ challenges' = [challenges EXCEPT ![n] = "expired"]
    /\ UNCHANGED <<stored, made, sessions, lapsed, calls, minted, history>>

LapseSession(n) ==
    /\ minted[n] > 0 /\ n \notin lapsed
    /\ lapsed' = lapsed \cup {n}
    /\ UNCHANGED <<stored, made, challenges, sessions, calls, minted, history>>

CapabilityExchange(c) ==
    /\ At(c, "idle")
    /\ row # NoRow
    /\ Goes(c, [NoCall EXCEPT !.pc = "pop", !.key = row.key, !.gen = row.gen])
    /\ UNCHANGED <<stored, made, memory, history>>

\* Mutant of PopChallenge: the challenge stays in the map.
PeekChallenge(c, n) ==
    /\ At(c, "pop")
    /\ challenges[n] = "open"
    /\ Goes(c, [calls[c] EXCEPT !.pc = "mint", !.nonce = n])
    /\ UNCHANGED <<stored, made, memory, history>>

\* The challenge leaves the map; it may have expired, or be signed by another key
\* than the one the call has read, and then the call fails.
PopChallenge(c, n) ==
    /\ At(c, "pop")
    /\ challenges[n] \in {"open", "expired"}
    /\ challenges' = [challenges EXCEPT ![n] = "used"]
    /\ \/ challenges[n] = "open" /\ calls[c].key # 0 /\ Goes(c, [calls[c] EXCEPT !.pc = "mint", !.nonce = n])
       \/ Goes(c, NoCall)
    /\ UNCHANGED <<stored, made, sessions, lapsed, minted, history>>

IssueSession(c) ==
    /\ At(c, "mint")
    /\ sessions' = sessions \cup {[nonce |-> calls[c].nonce, gen |-> calls[c].gen, key |-> calls[c].key]}
    /\ minted' = [minted EXCEPT ![calls[c].nonce] = @ + 1]
    /\ Goes(c, NoCall)
    /\ UNCHANGED <<stored, made, challenges, lapsed, history>>

\* authenticateMethod without a session: the registration token alone lets the method
\* in, whatever the capability key is.
AuthenticateByToken(c) ==
    /\ At(c, "idle")
    /\ row # NoRow /\ known
    /\ Goes(c, [NoCall EXCEPT !.pc = "accepted"])
    /\ UNCHANGED <<stored, made, memory, history>>

\* With one, authenticateMethod finds the session of the token, then reads the row.
FindSession(c) ==
    /\ At(c, "idle")
    /\ \E s \in sessions :
          Goes(c, [NoCall EXCEPT !.pc = "check", !.key = s.key, !.gen = s.gen, !.nonce = s.nonce])
    /\ UNCHANGED <<stored, made, memory, history>>

\* Validate; that the method is not among those of the session is a failure.
ValidateSession(c) ==
    /\ At(c, "check")
    /\ row # NoRow /\ calls[c].gen = row.gen
    /\ calls[c].nonce \notin lapsed
    /\ Goes(c, [calls[c] EXCEPT !.pc = "accepted"])
    /\ UNCHANGED <<stored, made, memory, history>>

-----------------------------------------------------------------------------
(* Failures *)

\* A call returns an error, or the method that was let in ends.
CallEnds(c) ==
    /\ ~At(c, "idle")
    /\ Goes(c, NoCall)
    /\ torn' = (torn \/ At(c, "putkey"))
    /\ UNCHANGED <<stored, made, memory, overlapped>>

\* The daemon stops and is started again, with empty maps.
Restart ==
    /\ challenges' = [n \in Nonces |-> IF challenges[n] = "new" THEN "new" ELSE "used"]
    /\ sessions' = {}
    /\ calls' = [c \in Callers |-> NoCall]
    /\ torn' = (torn \/ \E c \in Callers : At(c, "putkey"))
    /\ UNCHANGED <<stored, made, lapsed, minted, overlapped>>

CapNext ==
    \/ \E c \in Callers :
          \/ RegisterAgent(c) \/ EnsureAgent(c) \/ EnsureRegisters(c) \/ InsertRow(c)
          \/ PutIdentity(c) \/ PutFirstKey(c) \/ ReturnToken(c)
          \/ RotateCapability(c) \/ UpdateAgentCapability(c) \/ PutCapabilityKey(c) \/ DropSessions(c)
          \/ CapabilityExchange(c) \/ IssueSession(c)
          \/ AuthenticateByToken(c) \/ FindSession(c) \/ ValidateSession(c) \/ CallEnds(c)
          \/ \E n \in Nonces : PopChallenge(c, n)
    \/ \E n \in Nonces : CapabilityChallenge(n) \/ ExpireChallenge(n) \/ LapseSession(n)
    \/ Restart

CapSpec == CapInit /\ [][CapNext]_vars

-----------------------------------------------------------------------------
(* Properties *)

\* A challenge is worth one session, however many exchanges race for it.
ChallengeUsedOnce == \A n \in Nonces : minted[n] <= 1

\* A method that is called with a session is let in only if the key of the session is
\* the capability key of the agent now: a session issued by an exchange that a
\* rotation overtook is refused although it enters the map after the rotation
\* emptied it.  This holds as long as no two rotations have overlapped; two that
\* read the same generation write it with two keys.  A method that is called with the
\* registration token and no session is let in without a look at the key.
CurrentKeyOnly ==
    [][\A c \in Callers :
          calls[c].pc # "accepted" /\ calls'[c].pc = "accepted" /\ calls'[c].nonce # NoNonce
          /\ ~overlapped =>
              calls[c].key = row.key]_vars

\* An identity file is that of the registered agent: of two registrations that
\* race for an agent id, the one that fails leaves nothing behind.
IdentityIsRegistered == idfile # 0 => row # NoRow /\ idfile = row.identity

\* An agent whose token was given out can be used again with it, unless a rotation
\* is between its row and its file, was cut off there or overlapped another; the
\* next rotation that runs alone repairs that.
AgentReusable ==
    known /\ ~torn /\ (\A c \in Callers : ~At(c, "putkey")) => Reusable

-----------------------------------------------------------------------------
(* The inductive invariant *)

\* Registration: at most one call is past the INSERT, and no token is known then.
RegistrationInv ==
    /\ row = NoRow => ~known /\ idfile = 0 /\ sessions = {}
    /\ known => idfile # 0
    /\ \A c \in Callers :
          /\ calls[c].pc \in {"insert", "identity", "regkey", "reply"} => calls[c].key # 0
          /\ calls[c].pc \in {"identity", "regkey", "reply"} =>
                /\ row # NoRow /\ ~known
                /\ row.identity = calls[c].key /\ row.key = calls[c].key
                /\ \A d \in Callers : calls[d].pc \in {"identity", "regkey", "reply"} => d = c
          /\ calls[c].pc \in {"regkey", "reply"} => idfile = calls[c].key
          /\ At(c, "reply") => keyfile = calls[c].key
          /\ calls[c].pc \in {"update", "putkey", "drop"} => row # NoRow /\ known
          /\ calls[c].pc \in {"pop", "mint", "check", "accepted"} => row # NoRow

\* Challenges: whoever is about to issue a session has taken the challenge away.
ChallengeInv ==
    /\ \A n \in Nonces : challenges[n] # "used" => minted[n] = 0
    /\ \A c \in Callers : At(c, "mint") =>
          /\ calls[c].nonce \in Nonces
          /\ challenges[calls[c].nonce] = "used" /\ minted[calls[c].nonce] = 0
          /\ \A d \in Callers : At(d, "mint") /\ calls[d].nonce = calls[c].nonce => d = c
    /\ \A c \in Callers : At(c, "check") => calls[c].nonce \in Nonces

\* Rotations: one that runs alone is the only one that writes.
RotationInv ==
    /\ \A c \in Writing : calls[c].alone => Writing = {c}
    /\ \A c \in Callers : At(c, "putkey") /\ calls[c].alone => row.key = calls[c].key
    /\ ~overlapped => \A c \in Writing : calls[c].alone

\* Generations: while no rotations have overlapped, a generation stands for a key.
GenerationInv ==
    ~overlapped =>
        /\ \A c \in Callers : At(c, "update") => calls[c].gen > row.gen
        /\ \A c \in Callers : calls[c].pc \in {"pop", "mint", "check"} =>
              calls[c].gen <= row.gen /\ (calls[c].gen = row.gen => calls[c].key = row.key)
        /\ \A s \in sessions : s.gen <= row.gen /\ (s.gen = row.gen => s.key = row.key)

\* The inductive invariant of registration, rotation and sessions.
CapInv ==
    /\ CapTypeOK /\ ChallengeUsedOnce /\ IdentityIsRegistered /\ AgentReusable
    /\ RegistrationInv /\ ChallengeInv /\ RotationInv /\ GenerationInv
=============================================================================
