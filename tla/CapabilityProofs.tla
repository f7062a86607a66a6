-------------------------- MODULE CapabilityProofs ---------------------------
(***************************************************************************)
(* The invariant of Capability, for any number of callers, challenges and  *)
(* rotations: every action keeps each part of CapInv.  CurrentKeyOnly then *)
(* follows from GenerationInv at the step that validates a session.        *)
(***************************************************************************)
EXTENDS Capability, TLAPS

\* NextGeneration is larger than the generation of the row.
LEMMA NextIsLarger ==
  ASSUME row \in Row
  PROVE  NextGeneration \in Nat /\ NextGeneration > row.gen
  BY DEF Row, NextGeneration

LEMMA InitInv == ASSUME CapInit PROVE CapInv
  <1> USE KeysAreBounded, NothingIsANonce DEF CapInit
  <1>1. NoCall \in Call /\ NoCall.pc = "idle" /\ 0 \in Keys
    BY DEF NoCall, Call, Places, Keys
  <1>2. Writing = {} /\ \A c \in Callers : calls[c].pc = "idle"
    BY <1>1 DEF Writing
  <1>3. CapTypeOK
    BY <1>1 DEF CapTypeOK
  <1>4. ChallengeUsedOnce /\ IdentityIsRegistered /\ AgentReusable
    BY DEF ChallengeUsedOnce, IdentityIsRegistered, AgentReusable
  <1>5. RegistrationInv
    BY <1>2 DEF RegistrationInv, At
  <1> QED
    BY <1>2, <1>3, <1>4, <1>5 DEF ChallengeInv, RotationInv, GenerationInv, At, CapInv

LEMMA NoCallFacts ==
    /\ NoCall \in Call /\ NoCall.pc = "idle"
    /\ \A r \in Call, place \in Places :
          LET m == [r EXCEPT !.pc = place]
          IN  /\ m \in Call /\ m.pc = place /\ m.key = r.key /\ m.gen = r.gen
              /\ m.nonce = r.nonce /\ m.alone = r.alone
  BY KeysAreBounded DEF NoCall, Call, Places, Keys

\* The forms in which a call begins.
LEMMA CallWithKey ==
  ASSUME NEW place \in Places, NEW k \in Keys
  PROVE  LET m == [NoCall EXCEPT !.pc = place, !.key = k]
         IN  m \in Call /\ m.pc = place /\ m.key = k
  BY NoCallFacts DEF Call

\* Goes changes one call.
LEMMA OneCallGoes ==
  ASSUME CapTypeOK, NEW c \in Callers, NEW r \in Call, Goes(c, r)
  PROVE  /\ calls' \in [Callers -> Call] /\ calls'[c] = r
         /\ \A d \in Callers : d # c => calls'[d] = calls[d]
  BY DEF CapTypeOK, Goes

LEMMA RegisterAgentKeeps ==
  ASSUME CapInv, NEW c \in Callers, RegisterAgent(c)
  PROVE  CapInv'
  <1> USE KeysAreBounded, NothingIsANonce DEF CapInv
  <1>1. /\ calls[c] \in Call /\ calls[c].pc = "idle" /\ calls[c].key \in Keys /\ calls[c].gen \in Nat
        /\ UNCHANGED <<stored, memory, history>>
    BY DEF RegisterAgent, StartsRegistration, stored, memory, history, At, Call, CapTypeOK
  <1>2. /\ calls'[c].pc = "insert" /\ calls'[c].key = made + 1
        /\ calls' \in [Callers -> Call] /\ \A d \in Callers : d # c => calls'[d] = calls[d]
    <2> DEFINE r == [NoCall EXCEPT !.pc = "insert", !.key = made + 1]
    <2>1. r \in Call /\ r.pc = "insert" /\ r.key = made + 1
      <3>1. made + 1 \in Keys
        BY DEF RegisterAgent, StartsRegistration, CapTypeOK, Row, Keys
      <3> QED
        BY <3>1, CallWithKey DEF Places
    <2>2. Goes(c, r)
      BY DEF RegisterAgent, StartsRegistration
    <2> HIDE DEF r
    <2> QED
      BY <2>1, <2>2, OneCallGoes
  <1>3. CapTypeOK'
    BY <1>1, <1>2 DEF RegisterAgent, StartsRegistration, stored, memory, history, At, CapTypeOK, Row, Keys
  <1>4. ChallengeUsedOnce' /\ IdentityIsRegistered' /\ AgentReusable'
    BY <1>1, <1>2 DEF RegisterAgent, StartsRegistration, stored, memory, history, At, ChallengeUsedOnce, IdentityIsRegistered, AgentReusable, Reusable,
       RegistrationInv, RotationInv, ChallengeInv, CapTypeOK
  <1>5. RegistrationInv'
    BY <1>1, <1>2 DEF RegisterAgent, StartsRegistration, stored, memory, history, At, RegistrationInv, IdentityIsRegistered, CapTypeOK, Keys
  <1>6. ChallengeInv'
    BY <1>1, <1>2 DEF RegisterAgent, StartsRegistration, stored, memory, history, At, ChallengeInv, CapTypeOK
  <1>7. RotationInv'
    BY <1>1, <1>2 DEF RegisterAgent, StartsRegistration, stored, memory, history, At, RotationInv, Writing, RegistrationInv, CapTypeOK
  <1>8. GenerationInv'
    BY <1>1, <1>2 DEF RegisterAgent, StartsRegistration, stored, memory, history, At, GenerationInv, RegistrationInv, CapTypeOK, Row, Session, Call
  <1> QED
    BY <1>3, <1>4, <1>5, <1>6, <1>7, <1>8

LEMMA EnsureAgentKeeps ==
  ASSUME CapInv, NEW c \in Callers, EnsureAgent(c)
  PROVE  CapInv'
  <1> USE KeysAreBounded, NothingIsANonce DEF CapInv
  <1>1. /\ calls[c] \in Call /\ calls[c].pc = "idle" /\ calls[c].key \in Keys /\ calls[c].gen \in Nat
        /\ UNCHANGED <<stored, made, memory, history>>
    BY DEF EnsureAgent, stored, memory, history, At, Call, CapTypeOK
  <1>2. /\ calls'[c].pc = "inspect"
        /\ calls' \in [Callers -> Call] /\ \A d \in Callers : d # c => calls'[d] = calls[d]
    <2> DEFINE r == [NoCall EXCEPT !.pc = "inspect"]
    <2>1. r \in Call /\ r.pc = "inspect"
      BY NoCallFacts DEF Places
    <2>2. Goes(c, r)
      BY DEF EnsureAgent
    <2> HIDE DEF r
    <2> QED
      BY <2>1, <2>2, OneCallGoes
  <1>3. CapTypeOK'
    BY <1>1, <1>2 DEF EnsureAgent, stored, memory, history, At, CapTypeOK, Row, Keys
  <1>4. ChallengeUsedOnce' /\ IdentityIsRegistered' /\ AgentReusable'
    BY <1>1, <1>2 DEF EnsureAgent, stored, memory, history, At, ChallengeUsedOnce, IdentityIsRegistered, AgentReusable, Reusable,
       RegistrationInv, RotationInv, ChallengeInv, CapTypeOK
  <1>5. RegistrationInv'
    BY <1>1, <1>2 DEF EnsureAgent, stored, memory, history, At, RegistrationInv, IdentityIsRegistered, CapTypeOK, Keys
  <1>6. ChallengeInv'
    BY <1>1, <1>2 DEF EnsureAgent, stored, memory, history, At, ChallengeInv, CapTypeOK
  <1>7. RotationInv'
    BY <1>1, <1>2 DEF EnsureAgent, stored, memory, history, At, RotationInv, Writing, RegistrationInv, CapTypeOK
  <1>8. GenerationInv'
    BY <1>1, <1>2 DEF EnsureAgent, stored, memory, history, At, GenerationInv, RegistrationInv, CapTypeOK, Row, Session, Call
  <1> QED
    BY <1>3, <1>4, <1>5, <1>6, <1>7, <1>8

LEMMA EnsureRegistersKeeps ==
  ASSUME CapInv, NEW c \in Callers, EnsureRegisters(c)
  PROVE  CapInv'
  <1> USE KeysAreBounded, NothingIsANonce DEF CapInv
  <1>1. /\ calls[c] \in Call /\ calls[c].pc = "inspect" /\ calls[c].key \in Keys /\ calls[c].gen \in Nat
        /\ UNCHANGED <<stored, memory, history>>
    BY DEF EnsureRegisters, StartsRegistration, stored, memory, history, At, Call, CapTypeOK
  <1>2. /\ calls'[c].pc = "insert" /\ calls'[c].key = made + 1
        /\ calls' \in [Callers -> Call] /\ \A d \in Callers : d # c => calls'[d] = calls[d]
    <2> DEFINE r == [NoCall EXCEPT !.pc = "insert", !.key = made + 1]
    <2>1. r \in Call /\ r.pc = "insert" /\ r.key = made + 1
      <3>1. made + 1 \in Keys
        BY DEF EnsureRegisters, StartsRegistration, CapTypeOK, Row, Keys
      <3> QED
        BY <3>1, CallWithKey DEF Places
    <2>2. Goes(c, r)
      BY DEF EnsureRegisters, StartsRegistration
    <2> HIDE DEF r
    <2> QED
      BY <2>1, <2>2, OneCallGoes
  <1>3. CapTypeOK'
    BY <1>1, <1>2 DEF EnsureRegisters, StartsRegistration, stored, memory, history, At, CapTypeOK, Row, Keys
  <1>4. ChallengeUsedOnce' /\ IdentityIsRegistered' /\ AgentReusable'
    BY <1>1, <1>2 DEF EnsureRegisters, StartsRegistration, stored, memory, history, At, ChallengeUsedOnce, IdentityIsRegistered, AgentReusable, Reusable,
       RegistrationInv, RotationInv, ChallengeInv, CapTypeOK
  <1>5. RegistrationInv'
    BY <1>1, <1>2 DEF EnsureRegisters, StartsRegistration, stored, memory, history, At, RegistrationInv, IdentityIsRegistered, CapTypeOK, Keys
  <1>6. ChallengeInv'
    BY <1>1, <1>2 DEF EnsureRegisters, StartsRegistration, stored, memory, history, At, ChallengeInv, CapTypeOK
  <1>7. RotationInv'
    BY <1>1, <1>2 DEF EnsureRegisters, StartsRegistration, stored, memory, history, At, RotationInv, Writing, RegistrationInv, CapTypeOK
  <1>8. GenerationInv'
    BY <1>1, <1>2 DEF EnsureRegisters, StartsRegistration, stored, memory, history, At, GenerationInv, RegistrationInv, CapTypeOK, Row, Session, Call
  <1> QED
    BY <1>3, <1>4, <1>5, <1>6, <1>7, <1>8

LEMMA InsertRowKeeps ==
  ASSUME CapInv, NEW c \in Callers, InsertRow(c)
  PROVE  CapInv'
  <1> USE KeysAreBounded, NothingIsANonce DEF CapInv
  <1>1. /\ calls[c] \in Call /\ calls[c].pc = "insert" /\ calls[c].key \in Keys /\ calls[c].gen \in Nat
        /\ UNCHANGED <<idfile, keyfile, known, made, memory, history>>
    BY DEF InsertRow, stored, memory, history, At, Call, CapTypeOK
  <1>2. /\ calls'[c].pc = "identity" /\ calls'[c].key = calls[c].key /\ calls'[c].gen = calls[c].gen /\ calls'[c].nonce = calls[c].nonce /\ calls'[c].alone = calls[c].alone
        /\ calls' \in [Callers -> Call] /\ \A d \in Callers : d # c => calls'[d] = calls[d]
    <2> DEFINE r == [calls[c] EXCEPT !.pc = "identity"]
    <2>1. r \in Call /\ r.pc = "identity" /\ r.key = calls[c].key /\ r.gen = calls[c].gen /\ r.nonce = calls[c].nonce /\ r.alone = calls[c].alone
      BY <1>1, NoCallFacts DEF Places
    <2>2. Goes(c, r)
      BY DEF InsertRow
    <2> HIDE DEF r
    <2> QED
      BY <2>1, <2>2, OneCallGoes
  <1>9. row' \in Row /\ row' # NoRow /\ row'.identity = calls[c].key /\ row'.key = calls[c].key /\ row'.gen = 1
    BY <1>1, NothingIsARow DEF InsertRow, Row
  <1>3. CapTypeOK'
    BY <1>1, <1>2, <1>9 DEF InsertRow, stored, memory, history, At, CapTypeOK, Row, Keys
  <1>4. ChallengeUsedOnce' /\ IdentityIsRegistered' /\ AgentReusable'
    BY <1>1, <1>2, <1>9 DEF InsertRow, stored, memory, history, At, ChallengeUsedOnce, IdentityIsRegistered, AgentReusable, Reusable,
       RegistrationInv, RotationInv, ChallengeInv, CapTypeOK
  <1>5. RegistrationInv'
    BY <1>1, <1>2, <1>9 DEF InsertRow, stored, memory, history, At, RegistrationInv, IdentityIsRegistered, CapTypeOK, Keys
  <1>6. ChallengeInv'
    BY <1>1, <1>2 DEF InsertRow, stored, memory, history, At, ChallengeInv, CapTypeOK
  <1>7. RotationInv'
    BY <1>1, <1>2, <1>9 DEF InsertRow, stored, memory, history, At, RotationInv, Writing, RegistrationInv, CapTypeOK
  <1>8. GenerationInv'
    BY <1>1, <1>2, <1>9 DEF InsertRow, stored, memory, history, At, GenerationInv, RegistrationInv, CapTypeOK, Row, Session, Call
  <1> QED
    BY <1>3, <1>4, <1>5, <1>6, <1>7, <1>8

LEMMA PutIdentityKeeps ==
  ASSUME CapInv, NEW c \in Callers, PutIdentity(c)
  PROVE  CapInv'
  <1> USE KeysAreBounded, NothingIsANonce DEF CapInv
  <1>1. /\ calls[c] \in Call /\ calls[c].pc = "identity" /\ calls[c].key \in Keys /\ calls[c].gen \in Nat
        /\ UNCHANGED <<row, keyfile, known, made, memory, history>>
    BY DEF PutIdentity, stored, memory, history, At, Call, CapTypeOK
  <1>2. /\ calls'[c].pc = "regkey" /\ calls'[c].key = calls[c].key /\ calls'[c].gen = calls[c].gen /\ calls'[c].nonce = calls[c].nonce /\ calls'[c].alone = calls[c].alone
        /\ calls' \in [Callers -> Call] /\ \A d \in Callers : d # c => calls'[d] = calls[d]
    <2> DEFINE r == [calls[c] EXCEPT !.pc = "regkey"]
    <2>1. r \in Call /\ r.pc = "regkey" /\ r.key = calls[c].key /\ r.gen = calls[c].gen /\ r.nonce = calls[c].nonce /\ r.alone = calls[c].alone
      BY <1>1, NoCallFacts DEF Places
    <2>2. Goes(c, r)
      BY DEF PutIdentity
    <2> HIDE DEF r
    <2> QED
      BY <2>1, <2>2, OneCallGoes
  <1>3. CapTypeOK'
    BY <1>1, <1>2 DEF PutIdentity, stored, memory, history, At, CapTypeOK, Row, Keys
  <1>4. ChallengeUsedOnce' /\ IdentityIsRegistered' /\ AgentReusable'
    BY <1>1, <1>2 DEF PutIdentity, stored, memory, history, At, ChallengeUsedOnce, IdentityIsRegistered, AgentReusable, Reusable,
       RegistrationInv, RotationInv, ChallengeInv, CapTypeOK
  <1>5. RegistrationInv'
    BY <1>1, <1>2 DEF PutIdentity, stored, memory, history, At, RegistrationInv, IdentityIsRegistered, CapTypeOK, Keys
  <1>6. ChallengeInv'
    BY <1>1, <1>2 DEF PutIdentity, stored, memory, history, At, ChallengeInv, CapTypeOK
  <1>7. RotationInv'
    BY <1>1, <1>2 DEF PutIdentity, stored, memory, history, At, RotationInv, Writing, RegistrationInv, CapTypeOK
  <1>8. GenerationInv'
    BY <1>1, <1>2 DEF PutIdentity, stored, memory, history, At, GenerationInv, RegistrationInv, CapTypeOK, Row, Session, Call
  <1> QED
    BY <1>3, <1>4, <1>5, <1>6, <1>7, <1>8

LEMMA PutFirstKeyKeeps ==
  ASSUME CapInv, NEW c \in Callers, PutFirstKey(c)
  PROVE  CapInv'
  <1> USE KeysAreBounded, NothingIsANonce DEF CapInv
  <1>1. /\ calls[c] \in Call /\ calls[c].pc = "regkey" /\ calls[c].key \in Keys /\ calls[c].gen \in Nat
        /\ UNCHANGED <<row, idfile, known, made, memory, history>>
    BY DEF PutFirstKey, stored, memory, history, At, Call, CapTypeOK
  <1>2. /\ calls'[c].pc = "reply" /\ calls'[c].key = calls[c].key /\ calls'[c].gen = calls[c].gen /\ calls'[c].nonce = calls[c].nonce /\ calls'[c].alone = calls[c].alone
        /\ calls' \in [Callers -> Call] /\ \A d \in Callers : d # c => calls'[d] = calls[d]
    <2> DEFINE r == [calls[c] EXCEPT !.pc = "reply"]
    <2>1. r \in Call /\ r.pc = "reply" /\ r.key = calls[c].key /\ r.gen = calls[c].gen /\ r.nonce = calls[c].nonce /\ r.alone = calls[c].alone
      BY <1>1, NoCallFacts DEF Places
    <2>2. Goes(c, r)
      BY DEF PutFirstKey
    <2> HIDE DEF r
    <2> QED
      BY <2>1, <2>2, OneCallGoes
  <1>3. CapTypeOK'
    BY <1>1, <1>2 DEF PutFirstKey, stored, memory, history, At, CapTypeOK, Row, Keys
  <1>4. ChallengeUsedOnce' /\ IdentityIsRegistered' /\ AgentReusable'
    BY <1>1, <1>2 DEF PutFirstKey, stored, memory, history, At, ChallengeUsedOnce, IdentityIsRegistered, AgentReusable, Reusable,
       RegistrationInv, RotationInv, ChallengeInv, CapTypeOK
  <1>5. RegistrationInv'
    BY <1>1, <1>2 DEF PutFirstKey, stored, memory, history, At, RegistrationInv, IdentityIsRegistered, CapTypeOK, Keys
  <1>6. ChallengeInv'
    BY <1>1, <1>2 DEF PutFirstKey, stored, memory, history, At, ChallengeInv, CapTypeOK
  <1>7. RotationInv'
    BY <1>1, <1>2 DEF PutFirstKey, stored, memory, history, At, RotationInv, Writing, RegistrationInv, CapTypeOK
  <1>8. GenerationInv'
    BY <1>1, <1>2 DEF PutFirstKey, stored, memory, history, At, GenerationInv, RegistrationInv, CapTypeOK, Row, Session, Call
  <1> QED
    BY <1>3, <1>4, <1>5, <1>6, <1>7, <1>8

LEMMA ReturnTokenKeeps ==
  ASSUME CapInv, NEW c \in Callers, ReturnToken(c)
  PROVE  CapInv'
  <1> USE KeysAreBounded, NothingIsANonce DEF CapInv
  <1>1. /\ calls[c] \in Call /\ calls[c].pc = "reply" /\ calls[c].key \in Keys /\ calls[c].gen \in Nat
        /\ UNCHANGED <<row, idfile, keyfile, made, memory, history>>
    BY DEF ReturnToken, stored, memory, history, At, Call, CapTypeOK
  <1>2. /\ calls'[c].pc = "idle"
        /\ calls' \in [Callers -> Call] /\ \A d \in Callers : d # c => calls'[d] = calls[d]
    BY <1>1, NoCallFacts, OneCallGoes DEF ReturnToken
  <1>3. CapTypeOK'
    BY <1>1, <1>2 DEF ReturnToken, stored, memory, history, At, CapTypeOK, Row, Keys
  <1>4. ChallengeUsedOnce' /\ IdentityIsRegistered' /\ AgentReusable'
    BY <1>1, <1>2 DEF ReturnToken, stored, memory, history, At, ChallengeUsedOnce, IdentityIsRegistered, AgentReusable, Reusable,
       RegistrationInv, RotationInv, ChallengeInv, CapTypeOK
  <1>5. RegistrationInv'
    BY <1>1, <1>2 DEF ReturnToken, stored, memory, history, At, RegistrationInv, IdentityIsRegistered, CapTypeOK, Keys
  <1>6. ChallengeInv'
    BY <1>1, <1>2 DEF ReturnToken, stored, memory, history, At, ChallengeInv, CapTypeOK
  <1>7. RotationInv'
    BY <1>1, <1>2 DEF ReturnToken, stored, memory, history, At, RotationInv, Writing, RegistrationInv, CapTypeOK
  <1>8. GenerationInv'
    BY <1>1, <1>2 DEF stored, memory, history, At, GenerationInv
  <1> QED
    BY <1>3, <1>4, <1>5, <1>6, <1>7, <1>8

LEMMA UpdateAgentCapabilityKeeps ==
  ASSUME CapInv, NEW c \in Callers, UpdateAgentCapability(c)
  PROVE  CapInv'
  <1> USE KeysAreBounded, NothingIsANonce DEF CapInv
  <1>1. /\ calls[c] \in Call /\ calls[c].pc = "update" /\ calls[c].key \in Keys /\ calls[c].gen \in Nat
        /\ UNCHANGED <<idfile, keyfile, known, made, memory, history>>
    BY DEF UpdateAgentCapability, stored, memory, history, At, Call, CapTypeOK
  <1>2. /\ calls'[c].pc = "putkey" /\ calls'[c].key = calls[c].key /\ calls'[c].gen = calls[c].gen /\ calls'[c].nonce = calls[c].nonce /\ calls'[c].alone = calls[c].alone
        /\ calls' \in [Callers -> Call] /\ \A d \in Callers : d # c => calls'[d] = calls[d]
    <2> DEFINE r == [calls[c] EXCEPT !.pc = "putkey"]
    <2>1. r \in Call /\ r.pc = "putkey" /\ r.key = calls[c].key /\ r.gen = calls[c].gen /\ r.nonce = calls[c].nonce /\ r.alone = calls[c].alone
      BY <1>1, NoCallFacts DEF Places
    <2>2. Goes(c, r)
      BY DEF UpdateAgentCapability
    <2> HIDE DEF r
    <2> QED
      BY <2>1, <2>2, OneCallGoes
  <1>9. /\ row \in Row /\ row' \in Row /\ row # NoRow /\ row' # NoRow /\ row'.identity = row.identity
        /\ row'.key = calls[c].key /\ row'.gen = calls[c].gen
    BY <1>1, NothingIsARow DEF UpdateAgentCapability, Row, CapTypeOK, RegistrationInv
  <1>3. CapTypeOK'
    BY <1>1, <1>2, <1>9 DEF UpdateAgentCapability, stored, memory, history, At, CapTypeOK, Row, Keys
  <1>4. ChallengeUsedOnce' /\ IdentityIsRegistered' /\ AgentReusable'
    BY <1>1, <1>2, <1>9 DEF UpdateAgentCapability, stored, memory, history, At, ChallengeUsedOnce, IdentityIsRegistered, AgentReusable, Reusable,
       RegistrationInv, RotationInv, ChallengeInv, CapTypeOK
  <1>5. RegistrationInv'
    BY <1>1, <1>2, <1>9 DEF UpdateAgentCapability, stored, memory, history, At, RegistrationInv, IdentityIsRegistered, CapTypeOK, Keys
  <1>6. ChallengeInv'
    BY <1>1, <1>2 DEF UpdateAgentCapability, stored, memory, history, At, ChallengeInv, CapTypeOK
  <1>7. RotationInv'
    BY <1>1, <1>2, <1>9 DEF UpdateAgentCapability, stored, memory, history, At, RotationInv, Writing, RegistrationInv, CapTypeOK
  <1>8. GenerationInv'
    <2> SUFFICES ASSUME ~overlapped
                 PROVE  /\ \A d \in Callers : calls'[d].pc = "update" => calls'[d].gen > row'.gen
                        /\ \A d \in Callers : calls'[d].pc \in {"pop", "mint", "check"} =>
                              calls'[d].gen <= row'.gen /\ (calls'[d].gen = row'.gen => calls'[d].key = row'.key)
                        /\ \A s \in sessions' : s.gen <= row'.gen /\ (s.gen = row'.gen => s.key = row'.key)
      BY <1>1 DEF GenerationInv, At, history
    <2>1. row.gen \in Nat /\ row'.gen \in Nat /\ row'.gen > row.gen
      BY <1>1, <1>9 DEF GenerationInv, At, Row
    <2>2. \A d \in Callers : d # c => calls[d].pc # "update"
      BY <1>1 DEF RotationInv, Writing
    <2>3. \A d \in Callers : calls[d].gen \in Nat
      BY DEF CapTypeOK, Call
    <2>4. sessions' = sessions /\ \A s \in sessions : s.gen \in Nat
      BY <1>1 DEF CapTypeOK, Session, memory
    <2>5. \A d \in Callers : calls'[d].pc \in {"pop", "mint", "check"} =>
            calls'[d].gen \in Nat /\ calls'[d].gen <= row.gen
      BY <1>2, <2>3 DEF GenerationInv
    <2>6. \A s \in sessions' : s.gen \in Nat /\ s.gen <= row.gen
      BY <2>4 DEF GenerationInv
    <2> QED
      BY <1>2, <2>1, <2>2, <2>5, <2>6
  <1> QED
    BY <1>3, <1>4, <1>5, <1>6, <1>7, <1>8

LEMMA PutCapabilityKeyKeeps ==
  ASSUME CapInv, NEW c \in Callers, PutCapabilityKey(c)
  PROVE  CapInv'
  <1> USE KeysAreBounded, NothingIsANonce DEF CapInv
  <1>1. /\ calls[c] \in Call /\ calls[c].pc = "putkey" /\ calls[c].key \in Keys /\ calls[c].gen \in Nat
        /\ UNCHANGED <<row, idfile, known, made, memory, overlapped>>
    BY DEF PutCapabilityKey, stored, memory, history, At, Call, CapTypeOK
  <1>2. /\ calls'[c].pc = "drop" /\ calls'[c].key = calls[c].key /\ calls'[c].gen = calls[c].gen /\ calls'[c].nonce = calls[c].nonce /\ calls'[c].alone = calls[c].alone
        /\ calls' \in [Callers -> Call] /\ \A d \in Callers : d # c => calls'[d] = calls[d]
    <2> DEFINE r == [calls[c] EXCEPT !.pc = "drop"]
    <2>1. r \in Call /\ r.pc = "drop" /\ r.key = calls[c].key /\ r.gen = calls[c].gen /\ r.nonce = calls[c].nonce /\ r.alone = calls[c].alone
      BY <1>1, NoCallFacts DEF Places
    <2>2. Goes(c, r)
      BY DEF PutCapabilityKey
    <2> HIDE DEF r
    <2> QED
      BY <2>1, <2>2, OneCallGoes
  <1>9. torn' \in BOOLEAN
    BY <1>1 DEF PutCapabilityKey, Call
  <1>3. CapTypeOK'
    BY <1>1, <1>2, <1>9 DEF PutCapabilityKey, stored, memory, history, At, CapTypeOK, Row, Keys
  <1>4. ChallengeUsedOnce' /\ IdentityIsRegistered' /\ AgentReusable'
    BY <1>1, <1>2, <1>9 DEF PutCapabilityKey, stored, memory, history, At, ChallengeUsedOnce, IdentityIsRegistered, AgentReusable, Reusable,
       RegistrationInv, RotationInv, ChallengeInv, CapTypeOK
  <1>5. RegistrationInv'
    BY <1>1, <1>2, <1>9 DEF PutCapabilityKey, stored, memory, history, At, RegistrationInv, IdentityIsRegistered, CapTypeOK, Keys
  <1>6. ChallengeInv'
    BY <1>1, <1>2 DEF PutCapabilityKey, stored, memory, history, At, ChallengeInv, CapTypeOK
  <1>7. RotationInv'
    BY <1>1, <1>2, <1>9 DEF PutCapabilityKey, stored, memory, history, At, RotationInv, Writing, RegistrationInv, CapTypeOK
  <1>8. GenerationInv'
    BY <1>1, <1>2, <1>9 DEF PutCapabilityKey, stored, memory, history, At, GenerationInv, RegistrationInv, CapTypeOK, Row, Session, Call
  <1> QED
    BY <1>3, <1>4, <1>5, <1>6, <1>7, <1>8

LEMMA DropSessionsKeeps ==
  ASSUME CapInv, NEW c \in Callers, DropSessions(c)
  PROVE  CapInv'
  <1> USE KeysAreBounded, NothingIsANonce DEF CapInv
  <1>1. /\ calls[c] \in Call /\ calls[c].pc = "drop" /\ calls[c].key \in Keys /\ calls[c].gen \in Nat
        /\ UNCHANGED <<stored, made, challenges, lapsed, minted, history>>
    BY DEF DropSessions, stored, memory, history, At, Call, CapTypeOK
  <1>2. /\ calls'[c].pc = "idle"
        /\ calls' \in [Callers -> Call] /\ \A d \in Callers : d # c => calls'[d] = calls[d]
    BY <1>1, NoCallFacts, OneCallGoes DEF DropSessions
  <1>3. CapTypeOK'
    BY <1>1, <1>2 DEF DropSessions, stored, memory, history, At, CapTypeOK, Row, Keys
  <1>4. ChallengeUsedOnce' /\ IdentityIsRegistered' /\ AgentReusable'
    BY <1>1, <1>2 DEF DropSessions, stored, memory, history, At, ChallengeUsedOnce, IdentityIsRegistered, AgentReusable, Reusable,
       RegistrationInv, RotationInv, ChallengeInv, CapTypeOK
  <1>5. RegistrationInv'
    BY <1>1, <1>2 DEF DropSessions, stored, memory, history, At, RegistrationInv, IdentityIsRegistered, CapTypeOK, Keys
  <1>6. ChallengeInv'
    BY <1>1, <1>2 DEF DropSessions, stored, memory, history, At, ChallengeInv, CapTypeOK
  <1>7. RotationInv'
    BY <1>1, <1>2 DEF DropSessions, stored, memory, history, At, RotationInv, Writing, RegistrationInv, CapTypeOK
  <1>8. GenerationInv'
    BY <1>1, <1>2 DEF DropSessions, stored, memory, history, At, GenerationInv, RegistrationInv, CapTypeOK, Row, Session, Call
  <1> QED
    BY <1>3, <1>4, <1>5, <1>6, <1>7, <1>8

LEMMA CapabilityExchangeKeeps ==
  ASSUME CapInv, NEW c \in Callers, CapabilityExchange(c)
  PROVE  CapInv'
  <1> USE KeysAreBounded, NothingIsANonce DEF CapInv
  <1>1. /\ calls[c] \in Call /\ calls[c].pc = "idle" /\ calls[c].key \in Keys /\ calls[c].gen \in Nat
        /\ UNCHANGED <<stored, made, memory, history>>
    BY DEF CapabilityExchange, stored, memory, history, At, Call, CapTypeOK
  <1>2. /\ calls'[c].pc = "pop" /\ calls'[c].key = row.key /\ calls'[c].gen = row.gen
        /\ calls' \in [Callers -> Call] /\ \A d \in Callers : d # c => calls'[d] = calls[d]
    <2> DEFINE r == [NoCall EXCEPT !.pc = "pop", !.key = row.key, !.gen = row.gen]
    <2>1. r \in Call /\ r.pc = "pop" /\ r.key = row.key /\ r.gen = row.gen
      BY <1>1 DEF CapabilityExchange, NoCall, Call, Places, Keys, Row, CapTypeOK
    <2>2. Goes(c, r)
      BY DEF CapabilityExchange
    <2> HIDE DEF r
    <2> QED
      BY <2>1, <2>2, OneCallGoes
  <1>3. CapTypeOK'
    BY <1>1, <1>2 DEF CapabilityExchange, stored, memory, history, At, CapTypeOK, Row, Keys
  <1>4. ChallengeUsedOnce' /\ IdentityIsRegistered' /\ AgentReusable'
    BY <1>1, <1>2 DEF CapabilityExchange, stored, memory, history, At, ChallengeUsedOnce, IdentityIsRegistered, AgentReusable, Reusable,
       RegistrationInv, RotationInv, ChallengeInv, CapTypeOK
  <1>5. RegistrationInv'
    BY <1>1, <1>2 DEF CapabilityExchange, stored, memory, history, At, RegistrationInv, IdentityIsRegistered, CapTypeOK, Keys
  <1>6. ChallengeInv'
    BY <1>1, <1>2 DEF CapabilityExchange, stored, memory, history, At, ChallengeInv, CapTypeOK
  <1>7. RotationInv'
    BY <1>1, <1>2 DEF CapabilityExchange, stored, memory, history, At, RotationInv, Writing, RegistrationInv, CapTypeOK
  <1>8. GenerationInv'
    BY <1>1, <1>2 DEF CapabilityExchange, stored, memory, history, At, GenerationInv, RegistrationInv, CapTypeOK, Row, Session, Call
  <1> QED
    BY <1>3, <1>4, <1>5, <1>6, <1>7, <1>8

LEMMA IssueSessionKeeps ==
  ASSUME CapInv, NEW c \in Callers, IssueSession(c)
  PROVE  CapInv'
  <1> USE KeysAreBounded, NothingIsANonce DEF CapInv
  <1>1. /\ calls[c] \in Call /\ calls[c].pc = "mint" /\ calls[c].key \in Keys /\ calls[c].gen \in Nat
        /\ UNCHANGED <<stored, made, challenges, lapsed, history>>
    BY DEF IssueSession, stored, memory, history, At, Call, CapTypeOK
  <1>2. /\ calls'[c].pc = "idle"
        /\ calls' \in [Callers -> Call] /\ \A d \in Callers : d # c => calls'[d] = calls[d]
    BY <1>1, NoCallFacts, OneCallGoes DEF IssueSession
  <1>9. [nonce |-> calls[c].nonce, gen |-> calls[c].gen, key |-> calls[c].key] \in Session
    BY <1>1 DEF Session, ChallengeInv, At
  <1>3. CapTypeOK'
    <2>1. sessions' \subseteq Session
      BY <1>9 DEF IssueSession, CapTypeOK
    <2>2. minted' \in [Nonces -> Nat]
      BY <1>1 DEF IssueSession, CapTypeOK, ChallengeInv, At
    <2> QED
      BY <1>1, <1>2, <2>1, <2>2 DEF stored, history, CapTypeOK
  <1>4. ChallengeUsedOnce' /\ IdentityIsRegistered' /\ AgentReusable'
    BY <1>1, <1>2, <1>9 DEF IssueSession, stored, memory, history, At, ChallengeUsedOnce, IdentityIsRegistered, AgentReusable, Reusable,
       RegistrationInv, RotationInv, ChallengeInv, CapTypeOK
  <1>5. RegistrationInv'
    BY <1>1, <1>2, <1>9 DEF IssueSession, stored, memory, history, At, RegistrationInv, IdentityIsRegistered, CapTypeOK, Keys
  <1>6. ChallengeInv'
    BY <1>1, <1>2 DEF IssueSession, stored, memory, history, At, ChallengeInv, CapTypeOK
  <1>7. RotationInv'
    BY <1>1, <1>2, <1>9 DEF IssueSession, stored, memory, history, At, RotationInv, Writing, RegistrationInv, CapTypeOK
  <1>8. GenerationInv'
    BY <1>1, <1>2, <1>9 DEF IssueSession, stored, memory, history, At, GenerationInv, RegistrationInv, CapTypeOK, Row, Session, Call
  <1> QED
    BY <1>3, <1>4, <1>5, <1>6, <1>7, <1>8

LEMMA ValidateSessionKeeps ==
  ASSUME CapInv, NEW c \in Callers, ValidateSession(c)
  PROVE  CapInv'
  <1> USE KeysAreBounded, NothingIsANonce DEF CapInv
  <1>1. /\ calls[c] \in Call /\ calls[c].pc = "check" /\ calls[c].key \in Keys /\ calls[c].gen \in Nat
        /\ UNCHANGED <<stored, made, memory, history>>
    BY DEF ValidateSession, stored, memory, history, At, Call, CapTypeOK
  <1>2. /\ calls'[c].pc = "accepted" /\ calls'[c].key = calls[c].key /\ calls'[c].gen = calls[c].gen /\ calls'[c].nonce = calls[c].nonce /\ calls'[c].alone = calls[c].alone
        /\ calls' \in [Callers -> Call] /\ \A d \in Callers : d # c => calls'[d] = calls[d]
    <2> DEFINE r == [calls[c] EXCEPT !.pc = "accepted"]
    <2>1. r \in Call /\ r.pc = "accepted" /\ r.key = calls[c].key /\ r.gen = calls[c].gen /\ r.nonce = calls[c].nonce /\ r.alone = calls[c].alone
      BY <1>1, NoCallFacts DEF Places
    <2>2. Goes(c, r)
      BY DEF ValidateSession
    <2> HIDE DEF r
    <2> QED
      BY <2>1, <2>2, OneCallGoes
  <1>3. CapTypeOK'
    BY <1>1, <1>2 DEF ValidateSession, stored, memory, history, At, CapTypeOK, Row, Keys
  <1>4. ChallengeUsedOnce' /\ IdentityIsRegistered' /\ AgentReusable'
    BY <1>1, <1>2 DEF ValidateSession, stored, memory, history, At, ChallengeUsedOnce, IdentityIsRegistered, AgentReusable, Reusable,
       RegistrationInv, RotationInv, ChallengeInv, CapTypeOK
  <1>5. RegistrationInv'
    BY <1>1, <1>2 DEF ValidateSession, stored, memory, history, At, RegistrationInv, IdentityIsRegistered, CapTypeOK, Keys
  <1>6. ChallengeInv'
    BY <1>1, <1>2 DEF ValidateSession, stored, memory, history, At, ChallengeInv, CapTypeOK
  <1>7. RotationInv'
    BY <1>1, <1>2 DEF ValidateSession, stored, memory, history, At, RotationInv, Writing, RegistrationInv, CapTypeOK
  <1>8. GenerationInv'
    BY <1>1, <1>2 DEF ValidateSession, stored, memory, history, At, GenerationInv, RegistrationInv, CapTypeOK, Row, Session, Call
  <1> QED
    BY <1>3, <1>4, <1>5, <1>6, <1>7, <1>8

LEMMA RotateCapabilityKeeps ==
  ASSUME CapInv, NEW c \in Callers, RotateCapability(c)
  PROVE  CapInv'
  <1> USE KeysAreBounded, NothingIsANonce DEF CapInv
  <1>1. /\ calls[c].pc = "idle" /\ row # NoRow /\ known /\ row \in Row /\ made + 1 \in Keys
        /\ UNCHANGED <<stored, memory, torn>> /\ overlapped' = (overlapped \/ Writing # {})
        /\ NextGeneration \in Nat /\ NextGeneration > row.gen
    <2>1. row # NoRow /\ row \in Row /\ made \in Keys /\ made < MaxKeys
      BY DEF RotateCapability, CapTypeOK
    <2>2. made + 1 \in Keys
      BY <2>1 DEF Keys
    <2> QED
      BY <2>1, <2>2, NextIsLarger DEF RotateCapability, At
  <1>2. /\ calls' \in [Callers -> Call]
        /\ calls'[c].pc = "update" /\ calls'[c].gen = NextGeneration /\ calls'[c].alone = (Writing = {})
        /\ \A d \in Callers : d # c =>
              /\ calls'[d].pc = calls[d].pc /\ calls'[d].key = calls[d].key /\ calls'[d].gen = calls[d].gen
              /\ calls'[d].nonce = calls[d].nonce
              /\ calls'[d].alone = (calls[d].alone /\ d \notin Writing)
    <2> DEFINE r == [NoCall EXCEPT !.pc = "update", !.key = made + 1, !.gen = NextGeneration,
                                   !.alone = (Writing = {})]
               left(d) == [calls[d] EXCEPT !.alone = FALSE]
    <2>1. "update" \in Places /\ (Writing = {}) \in BOOLEAN
      BY DEF Places
    <2>2. r \in Call /\ r.pc = "update" /\ r.gen = NextGeneration /\ r.alone = (Writing = {})
      BY <1>1, <2>1 DEF NoCall, Call, Keys
    <2>3. \A d \in Callers : /\ calls[d] \in Call /\ left(d) \in Call /\ left(d).pc = calls[d].pc
                             /\ left(d).key = calls[d].key /\ left(d).gen = calls[d].gen
                             /\ left(d).nonce = calls[d].nonce /\ left(d).alone = FALSE
                             /\ calls[d].alone \in BOOLEAN
      BY DEF CapTypeOK, Call
    <2>4. calls' = [d \in Callers |-> IF d = c THEN r ELSE IF d \in Writing THEN left(d) ELSE calls[d]]
      BY DEF RotateCapability
    <2> HIDE DEF r, left
    <2> QED
      BY <2>2, <2>3, <2>4
  <1>9. \A d \in Callers : d \in Writing' <=> d = c \/ d \in Writing
    BY <1>1, <1>2 DEF Writing
  <1>3. CapTypeOK'
    <2>1. made' \in Keys /\ overlapped' \in BOOLEAN
      BY <1>1 DEF RotateCapability, CapTypeOK
    <2> QED
      BY <1>1, <1>2, <2>1 DEF stored, memory, CapTypeOK
  <1>4. ChallengeUsedOnce' /\ IdentityIsRegistered' /\ AgentReusable'
    BY <1>1, <1>2 DEF stored, memory, At, ChallengeUsedOnce, IdentityIsRegistered, AgentReusable, Reusable,
       RegistrationInv, CapTypeOK
  <1>5. RegistrationInv'
    BY <1>1, <1>2 DEF stored, memory, At, RegistrationInv, IdentityIsRegistered
  <1>6. ChallengeInv'
    BY <1>1, <1>2 DEF stored, memory, At, ChallengeInv, CapTypeOK
  <1>7. RotationInv'
    <2>1. \A d \in Callers : d \in Writing' /\ calls'[d].alone => d = c /\ Writing = {}
      BY <1>1, <1>2, <1>9 DEF Writing
    <2>2. Writing = {} => Writing' = {c}
      BY <1>9 DEF Writing
    <2>3. \A d \in Callers : calls'[d].pc = "putkey" => ~calls'[d].alone
      BY <1>1, <1>2 DEF Writing
    <2>4. ~overlapped' => Writing = {} /\ \A d \in Writing' : calls'[d].alone
      BY <1>1, <1>2, <2>2
    <2>5. Writing' \subseteq Callers
      BY DEF Writing
    <2> QED
      BY <2>1, <2>2, <2>3, <2>4, <2>5 DEF RotationInv, At
  <1>8. GenerationInv'
    <2>1. UNCHANGED <<row, sessions>> /\ (~overlapped' => ~overlapped)
      BY <1>1 DEF stored, memory
    <2>2. ASSUME ~overlapped', NEW d \in Callers, calls'[d].pc = "update"
          PROVE  calls'[d].gen > row'.gen
      <3>1. CASE d = c
        BY <1>1, <1>2, <2>1, <3>1
      <3>2. CASE d # c
        BY <1>2, <2>1, <2>2, <3>2 DEF GenerationInv, At
      <3> QED BY <3>1, <3>2
    <2>3. ASSUME ~overlapped', NEW d \in Callers, calls'[d].pc \in {"pop", "mint", "check"}
          PROVE  calls'[d].gen <= row'.gen /\ (calls'[d].gen = row'.gen => calls'[d].key = row'.key)
      <3>1. d # c
        BY <1>2, <2>3
      <3>2. calls'[d].pc = calls[d].pc /\ calls'[d].gen = calls[d].gen /\ calls'[d].key = calls[d].key
        BY <1>2, <3>1
      <3> QED BY <2>1, <2>3, <3>2 DEF GenerationInv
    <2>4. ASSUME ~overlapped', NEW s \in sessions'
          PROVE  s.gen <= row'.gen /\ (s.gen = row'.gen => s.key = row'.key)
      BY <2>1, <2>4 DEF GenerationInv
    <2> QED BY <2>2, <2>3, <2>4 DEF GenerationInv, At
  <1> QED
    BY <1>3, <1>4, <1>5, <1>6, <1>7, <1>8

LEMMA AuthenticateByTokenKeeps ==
  ASSUME CapInv, NEW c \in Callers, AuthenticateByToken(c)
  PROVE  CapInv'
  <1> USE KeysAreBounded, NothingIsANonce DEF CapInv
  <1>1. /\ calls[c].pc = "idle" /\ row # NoRow /\ UNCHANGED <<stored, made, memory, history>>
    BY DEF AuthenticateByToken, At
  <1>2. /\ calls'[c].pc = "accepted"
        /\ calls' \in [Callers -> Call] /\ \A d \in Callers : d # c => calls'[d] = calls[d]
    <2> DEFINE r == [NoCall EXCEPT !.pc = "accepted"]
    <2>1. "accepted" \in Places
      BY DEF Places
    <2>2. r \in Call /\ r.pc = "accepted"
      BY <2>1, NoCallFacts
    <2> HIDE DEF r
    <2> QED
      BY <2>2, OneCallGoes DEF r, AuthenticateByToken, CapTypeOK
  <1>3. CapTypeOK'
    BY <1>1, <1>2 DEF stored, memory, history, At, CapTypeOK
  <1>4. ChallengeUsedOnce' /\ IdentityIsRegistered' /\ AgentReusable'
    BY <1>1, <1>2 DEF stored, memory, history, At, ChallengeUsedOnce, IdentityIsRegistered, AgentReusable, Reusable,
       RegistrationInv, CapTypeOK
  <1>5. RegistrationInv'
    BY <1>1, <1>2 DEF stored, memory, history, At, RegistrationInv, IdentityIsRegistered
  <1>6. ChallengeInv'
    BY <1>1, <1>2 DEF stored, memory, history, At, ChallengeInv, CapTypeOK
  <1>7. RotationInv'
    BY <1>1, <1>2 DEF stored, memory, history, At, RotationInv, Writing, RegistrationInv
  <1>8. GenerationInv'
    BY <1>1, <1>2 DEF stored, memory, history, At, GenerationInv, RegistrationInv
  <1> QED
    BY <1>3, <1>4, <1>5, <1>6, <1>7, <1>8

LEMMA FindSessionKeeps ==
  ASSUME CapInv, NEW c \in Callers, FindSession(c)
  PROVE  CapInv'
  <1> USE KeysAreBounded, NothingIsANonce DEF CapInv
  <1>1. /\ calls[c].pc = "idle" /\ UNCHANGED <<stored, made, memory, history>>
    BY DEF FindSession, At
  <1>9. PICK s \in sessions :
          Goes(c, [NoCall EXCEPT !.pc = "check", !.key = s.key, !.gen = s.gen, !.nonce = s.nonce])
    BY DEF FindSession
  <1>2. /\ calls'[c].pc = "check" /\ calls'[c].key = s.key /\ calls'[c].gen = s.gen
        /\ calls'[c].nonce = s.nonce /\ s.nonce \in Nonces
        /\ calls' \in [Callers -> Call] /\ \A d \in Callers : d # c => calls'[d] = calls[d]
    <2> DEFINE r == [NoCall EXCEPT !.pc = "check", !.key = s.key, !.gen = s.gen, !.nonce = s.nonce]
    <2>1. s.nonce \in Nonces /\ s.key \in Keys /\ s.gen \in Nat
      BY DEF CapTypeOK, Session
    <2>2. "check" \in Places
      BY DEF Places
    <2>3. r \in Call /\ r.pc = "check" /\ r.key = s.key /\ r.gen = s.gen /\ r.nonce = s.nonce
      BY <2>1, <2>2 DEF NoCall, Call, Keys
    <2> HIDE DEF r
    <2> QED
      BY <1>9, <2>1, <2>3, OneCallGoes DEF r
  <1>3. CapTypeOK'
    BY <1>1, <1>2 DEF stored, memory, history, At, CapTypeOK
  <1>4. ChallengeUsedOnce' /\ IdentityIsRegistered' /\ AgentReusable'
    BY <1>1, <1>2 DEF stored, memory, history, At, ChallengeUsedOnce, IdentityIsRegistered, AgentReusable, Reusable,
       RegistrationInv, CapTypeOK
  <1>5. RegistrationInv'
    BY <1>1, <1>2 DEF stored, memory, history, At, RegistrationInv, IdentityIsRegistered
  <1>6. ChallengeInv'
    BY <1>1, <1>2 DEF stored, memory, history, At, ChallengeInv, CapTypeOK
  <1>7. RotationInv'
    BY <1>1, <1>2 DEF stored, memory, history, At, RotationInv, Writing, RegistrationInv
  <1>8. GenerationInv'
    BY <1>1, <1>2 DEF stored, memory, history, At, GenerationInv, RegistrationInv
  <1> QED
    BY <1>3, <1>4, <1>5, <1>6, <1>7, <1>8

LEMMA PopChallengeKeeps ==
  ASSUME CapInv, NEW c \in Callers, NEW n \in Nonces, PopChallenge(c, n)
  PROVE  CapInv'
  <1> USE KeysAreBounded, NothingIsANonce DEF CapInv
  <1>1. /\ calls[c].pc = "pop" /\ UNCHANGED <<stored, made, sessions, lapsed, minted, history>>
        /\ challenges[n] # "used" /\ challenges' = [challenges EXCEPT ![n] = "used"]
    BY DEF PopChallenge, At
  <1>2. /\ calls' \in [Callers -> Call] /\ \A d \in Callers : d # c => calls'[d] = calls[d]
        /\ \/ calls'[c].pc = "idle"
           \/ /\ calls'[c].pc = "mint" /\ calls'[c].nonce = n
              /\ calls'[c].key = calls[c].key /\ calls'[c].gen = calls[c].gen
    <2>1. CASE Goes(c, NoCall)
      BY <2>1, NoCallFacts, OneCallGoes
    <2>2. CASE Goes(c, [calls[c] EXCEPT !.pc = "mint", !.nonce = n])
      <3> DEFINE r == [calls[c] EXCEPT !.pc = "mint", !.nonce = n]
      <3>1. r \in Call /\ r.pc = "mint" /\ r.nonce = n /\ r.key = calls[c].key /\ r.gen = calls[c].gen
        BY DEF CapTypeOK, Call, Places
      <3> HIDE DEF r
      <3> QED
        BY <2>2, <3>1, OneCallGoes DEF r
    <2> QED
      BY <2>1, <2>2 DEF PopChallenge
  <1>3. CapTypeOK'
    BY <1>1, <1>2 DEF stored, history, At, CapTypeOK
  <1>4. ChallengeUsedOnce' /\ IdentityIsRegistered' /\ AgentReusable'
    BY <1>1, <1>2 DEF stored, history, At, ChallengeUsedOnce, IdentityIsRegistered, AgentReusable, Reusable,
       RegistrationInv, CapTypeOK
  <1>5. RegistrationInv'
    BY <1>1, <1>2 DEF stored, history, At, RegistrationInv, IdentityIsRegistered
  <1>6. ChallengeInv'
    BY <1>1, <1>2 DEF stored, history, At, ChallengeInv, CapTypeOK
  <1>7. RotationInv'
    BY <1>1, <1>2 DEF stored, history, At, RotationInv, Writing, RegistrationInv
  <1>8. GenerationInv'
    BY <1>1, <1>2 DEF stored, history, At, GenerationInv, RegistrationInv
  <1> QED
    BY <1>3, <1>4, <1>5, <1>6, <1>7, <1>8

LEMMA CallEndsKeeps ==
  ASSUME CapInv, NEW c \in Callers, CallEnds(c)
  PROVE  CapInv'
  <1> USE KeysAreBounded, NothingIsANonce DEF CapInv
  <1>1. UNCHANGED <<stored, made, memory, overlapped>> /\ torn' = (torn \/ calls[c].pc = "putkey")
    BY DEF CallEnds, At
  <1>2. /\ calls'[c].pc = "idle" /\ calls' \in [Callers -> Call]
        /\ \A d \in Callers : d # c => calls'[d] = calls[d]
    BY NoCallFacts, OneCallGoes DEF CallEnds
  <1>3. CapTypeOK'
    BY <1>1, <1>2 DEF stored, memory, At, CapTypeOK
  <1>4. ChallengeUsedOnce' /\ IdentityIsRegistered' /\ AgentReusable'
    BY <1>1, <1>2 DEF stored, memory, At, ChallengeUsedOnce, IdentityIsRegistered, AgentReusable, Reusable,
       RegistrationInv, CapTypeOK
  <1>5. RegistrationInv'
    BY <1>1, <1>2 DEF stored, memory, At, RegistrationInv, IdentityIsRegistered
  <1>6. ChallengeInv'
    BY <1>1, <1>2 DEF stored, memory, At, ChallengeInv, CapTypeOK
  <1>7. RotationInv'
    BY <1>1, <1>2 DEF stored, memory, At, RotationInv, Writing, RegistrationInv
  <1>8. GenerationInv'
    BY <1>1, <1>2 DEF stored, memory, At, GenerationInv, RegistrationInv
  <1> QED
    BY <1>3, <1>4, <1>5, <1>6, <1>7, <1>8

LEMMA CapabilityChallengeKeeps ==
  ASSUME CapInv, NEW n \in Nonces, CapabilityChallenge(n)
  PROVE  CapInv'
  <1> USE KeysAreBounded, NothingIsANonce DEF CapInv
  <1>1. challenges[n] = "new" /\ challenges' = [challenges EXCEPT ![n] = "open"]
    BY DEF CapabilityChallenge
  <1>2. UNCHANGED <<stored, made, sessions, lapsed, calls, minted, history>>
    BY DEF CapabilityChallenge
  <1>3. CapTypeOK'
    BY <1>1, <1>2 DEF stored, history, At, CapTypeOK
  <1>4. ChallengeUsedOnce' /\ IdentityIsRegistered' /\ AgentReusable'
    BY <1>1, <1>2 DEF stored, history, At, ChallengeUsedOnce, IdentityIsRegistered, AgentReusable, Reusable,
       RegistrationInv, CapTypeOK
  <1>5. RegistrationInv'
    BY <1>1, <1>2 DEF stored, history, At, RegistrationInv, IdentityIsRegistered
  <1>6. ChallengeInv'
    BY <1>1, <1>2 DEF stored, history, At, ChallengeInv, CapTypeOK
  <1>7. RotationInv'
    BY <1>1, <1>2 DEF stored, history, At, RotationInv, Writing, RegistrationInv
  <1>8. GenerationInv'
    BY <1>1, <1>2 DEF stored, history, At, GenerationInv, RegistrationInv
  <1> QED
    BY <1>3, <1>4, <1>5, <1>6, <1>7, <1>8

LEMMA ExpireChallengeKeeps ==
  ASSUME CapInv, NEW n \in Nonces, ExpireChallenge(n)
  PROVE  CapInv'
  <1> USE KeysAreBounded, NothingIsANonce DEF CapInv
  <1>1. challenges[n] = "open" /\ challenges' = [challenges EXCEPT ![n] = "expired"]
    BY DEF ExpireChallenge
  <1>2. UNCHANGED <<stored, made, sessions, lapsed, calls, minted, history>>
    BY DEF ExpireChallenge
  <1>3. CapTypeOK'
    BY <1>1, <1>2 DEF stored, history, At, CapTypeOK
  <1>4. ChallengeUsedOnce' /\ IdentityIsRegistered' /\ AgentReusable'
    BY <1>1, <1>2 DEF stored, history, At, ChallengeUsedOnce, IdentityIsRegistered, AgentReusable, Reusable,
       RegistrationInv, CapTypeOK
  <1>5. RegistrationInv'
    BY <1>1, <1>2 DEF stored, history, At, RegistrationInv, IdentityIsRegistered
  <1>6. ChallengeInv'
    BY <1>1, <1>2 DEF stored, history, At, ChallengeInv, CapTypeOK
  <1>7. RotationInv'
    BY <1>1, <1>2 DEF stored, history, At, RotationInv, Writing, RegistrationInv
  <1>8. GenerationInv'
    BY <1>1, <1>2 DEF stored, history, At, GenerationInv, RegistrationInv
  <1> QED
    BY <1>3, <1>4, <1>5, <1>6, <1>7, <1>8

LEMMA LapseSessionKeeps ==
  ASSUME CapInv, NEW n \in Nonces, LapseSession(n)
  PROVE  CapInv'
  <1> USE KeysAreBounded, NothingIsANonce DEF CapInv
  <1>1. lapsed' = lapsed \cup {n}
    BY DEF LapseSession
  <1>2. UNCHANGED <<stored, made, challenges, sessions, calls, minted, history>>
    BY DEF LapseSession
  <1>3. CapTypeOK'
    BY <1>1, <1>2 DEF stored, history, At, CapTypeOK
  <1>4. ChallengeUsedOnce' /\ IdentityIsRegistered' /\ AgentReusable'
    BY <1>1, <1>2 DEF stored, history, At, ChallengeUsedOnce, IdentityIsRegistered, AgentReusable, Reusable,
       RegistrationInv, CapTypeOK
  <1>5. RegistrationInv'
    BY <1>1, <1>2 DEF stored, history, At, RegistrationInv, IdentityIsRegistered
  <1>6. ChallengeInv'
    BY <1>1, <1>2 DEF stored, history, At, ChallengeInv, CapTypeOK
  <1>7. RotationInv'
    BY <1>1, <1>2 DEF stored, history, At, RotationInv, Writing, RegistrationInv
  <1>8. GenerationInv'
    BY <1>1, <1>2 DEF stored, history, At, GenerationInv, RegistrationInv
  <1> QED
    BY <1>3, <1>4, <1>5, <1>6, <1>7, <1>8

LEMMA RestartKeeps == ASSUME CapInv, Restart PROVE CapInv'
  <1> USE KeysAreBounded, NothingIsANonce DEF CapInv
  <1>1. /\ UNCHANGED <<stored, made, lapsed, minted, overlapped>> /\ sessions' = {}
        /\ challenges' = [n \in Nonces |-> IF challenges[n] = "new" THEN "new" ELSE "used"]
        /\ torn' = (torn \/ \E c \in Callers : calls[c].pc = "putkey")
    BY DEF Restart, At
  <1>2. calls' \in [Callers -> Call] /\ \A c \in Callers : calls'[c].pc = "idle"
    BY NoCallFacts DEF Restart
  <1>3. CapTypeOK'
    BY <1>1, <1>2 DEF stored, At, CapTypeOK
  <1>4. ChallengeUsedOnce' /\ IdentityIsRegistered' /\ AgentReusable'
    BY <1>1, <1>2 DEF stored, At, ChallengeUsedOnce, IdentityIsRegistered, AgentReusable, Reusable,
       RegistrationInv, CapTypeOK
  <1>5. RegistrationInv'
    BY <1>1, <1>2 DEF stored, At, RegistrationInv, IdentityIsRegistered
  <1>6. ChallengeInv'
    BY <1>1, <1>2 DEF stored, At, ChallengeInv, CapTypeOK
  <1>7. RotationInv'
    BY <1>1, <1>2 DEF stored, At, RotationInv, Writing, RegistrationInv
  <1>8. GenerationInv'
    BY <1>1, <1>2 DEF stored, At, GenerationInv, RegistrationInv
  <1> QED
    BY <1>3, <1>4, <1>5, <1>6, <1>7, <1>8

LEMMA StepInv == ASSUME CapInv, [CapNext]_vars PROVE CapInv'
  <1>1. CASE CapNext
    BY <1>1, RegisterAgentKeeps, EnsureAgentKeeps, EnsureRegistersKeeps, InsertRowKeeps, PutIdentityKeeps,
       PutFirstKeyKeeps, ReturnTokenKeeps, RotateCapabilityKeeps, UpdateAgentCapabilityKeeps,
       PutCapabilityKeyKeeps, DropSessionsKeeps, CapabilityExchangeKeeps, IssueSessionKeeps,
       AuthenticateByTokenKeeps, FindSessionKeeps, ValidateSessionKeeps, PopChallengeKeeps, CallEndsKeeps,
       CapabilityChallengeKeeps, ExpireChallengeKeeps, LapseSessionKeeps, RestartKeeps, Zenon
    DEF CapNext
  <1>2. CASE UNCHANGED vars
    <2> USE <1>2 DEF vars
    <2>1. CapTypeOK' /\ ChallengeUsedOnce' /\ IdentityIsRegistered' /\ AgentReusable'
      BY DEF CapInv, CapTypeOK, ChallengeUsedOnce, IdentityIsRegistered, AgentReusable, Reusable, At
    <2>2. RegistrationInv' /\ ChallengeInv'
      BY DEF CapInv, RegistrationInv, ChallengeInv, At
    <2>3. RotationInv' /\ GenerationInv'
      BY DEF CapInv, RotationInv, GenerationInv, Writing, At
    <2> QED
      BY <2>1, <2>2, <2>3 DEF CapInv
  <1> QED
    BY <1>1, <1>2

-----------------------------------------------------------------------------

\* CapInv holds in every state, for any number of callers, challenges and keys.
THEOREM CapInvariant == CapSpec => []CapInv
  <1> QED
    BY InitInv, StepInv, PTL DEF CapSpec

\* A challenge yields one session at most, however many capabilityExchange calls
\* race for it.
THEOREM OneSessionPerChallenge == CapSpec => []ChallengeUsedOnce
  <1>1. CapInv => ChallengeUsedOnce
    BY DEF CapInv
  <1> QED
    BY <1>1, CapInvariant, PTL

\* An identity file is that of the row: a registerAgent call that loses the race for
\* an agent id leaves no file behind.
THEOREM IdentitiesAreRegistered == CapSpec => []IdentityIsRegistered
  <1>1. CapInv => IdentityIsRegistered
    BY DEF CapInv
  <1> QED
    BY <1>1, CapInvariant, PTL

\* An agent whose token is known can be used again unless a rotation was cut off or
\* overlapped another.
THEOREM AgentsAreReusable == CapSpec => []AgentReusable
  <1>1. CapInv => AgentReusable
    BY DEF CapInv
  <1> QED
    BY <1>1, CapInvariant, PTL

\* A method called with a session is let in only if the session is one of the key the
\* agent has now, as long as no two rotations have overlapped.
THEOREM AcceptedKeysAreCurrent == CapSpec => CurrentKeyOnly
  <1> DEFINE Current == \A c \in Callers :
               calls[c].pc # "accepted" /\ calls'[c].pc = "accepted" /\ calls'[c].nonce # NoNonce
               /\ ~overlapped =>
                   calls[c].key = row.key
  <1>1. ASSUME CapInv, [CapNext]_vars
        PROVE  [Current]_vars
    <2> SUFFICES ASSUME CapNext, NEW c \in Callers, ~overlapped,
                        calls[c].pc # "accepted", calls'[c].pc = "accepted",
                        calls'[c].nonce # NoNonce
                 PROVE  calls[c].key = row.key
      BY <1>1
    <2>1. ValidateSession(c)
      <3>1. calls \in [Callers -> Call] /\ calls[c] \in Call
        BY <1>1 DEF CapInv, CapTypeOK
      <3>2. ASSUME NEW d \in Callers,
                   \/ RegisterAgent(d) \/ EnsureAgent(d) \/ EnsureRegisters(d) \/ ReturnToken(d)
                   \/ DropSessions(d) \/ CapabilityExchange(d) \/ IssueSession(d) \/ FindSession(d)
                   \/ AuthenticateByToken(d) \/ CallEnds(d)
            PROVE  FALSE
        <4>1. \A r : Goes(d, r) => calls'[c] = calls[c] \/ calls'[c] = r
          BY <3>1 DEF Goes
        <4>2. /\ NoCall.pc = "idle" /\ [NoCall EXCEPT !.pc = "inspect"].pc = "inspect"
              /\ [NoCall EXCEPT !.pc = "insert", !.key = made + 1].pc = "insert"
              /\ [NoCall EXCEPT !.pc = "pop", !.key = row.key, !.gen = row.gen].pc = "pop"
              /\ \A s \in sessions :
                    [NoCall EXCEPT !.pc = "check", !.key = s.key, !.gen = s.gen, !.nonce = s.nonce].pc = "check"
              /\ [NoCall EXCEPT !.pc = "accepted"].nonce = NoNonce
          BY DEF NoCall
        <4>3. \E r : Goes(d, r) /\ (r.pc # "accepted" \/ r.nonce = NoNonce)
          <5>1. CASE RegisterAgent(d) \/ EnsureRegisters(d)
            BY <4>2, <5>1 DEF RegisterAgent, EnsureRegisters, StartsRegistration
          <5>2. CASE EnsureAgent(d)
            BY <4>2, <5>2 DEF EnsureAgent
          <5>3. CASE ReturnToken(d) \/ DropSessions(d) \/ IssueSession(d) \/ CallEnds(d)
            BY <4>2, <5>3 DEF ReturnToken, DropSessions, IssueSession, CallEnds
          <5>4. CASE CapabilityExchange(d)
            BY <4>2, <5>4 DEF CapabilityExchange
          <5>5. CASE FindSession(d)
            BY <4>2, <5>5 DEF FindSession
          <5>6. CASE AuthenticateByToken(d)
            BY <4>2, <5>6 DEF AuthenticateByToken
          <5> QED
            BY <3>2, <5>1, <5>2, <5>3, <5>4, <5>5, <5>6
        <4> QED
          BY <4>1, <4>3
      <3>3. ASSUME NEW d \in Callers,
                   \/ InsertRow(d) \/ PutIdentity(d) \/ PutFirstKey(d)
                   \/ UpdateAgentCapability(d) \/ PutCapabilityKey(d)
                   \/ \E n \in Nonces : PopChallenge(d, n)
            PROVE  FALSE
        <4>1. \A r : Goes(d, r) => calls'[c] = calls[c] \/ calls'[c] = r
          BY <3>1 DEF Goes
        <4>2. calls[d] \in Call
          BY <3>1
        <4>3. /\ NoCall.pc = "idle"
              /\ \A place \in Places : [calls[d] EXCEPT !.pc = place].pc = place
              /\ \A n \in Nonces : [calls[d] EXCEPT !.pc = "mint", !.nonce = n].pc = "mint"
          BY <4>2 DEF NoCall, Call
        <4>4. \E r : Goes(d, r) /\ r.pc # "accepted"
          <5>1. CASE InsertRow(d) \/ PutIdentity(d) \/ PutFirstKey(d)
            BY <4>3, <5>1 DEF InsertRow, PutIdentity, PutFirstKey, Places
          <5>2. CASE UpdateAgentCapability(d) \/ PutCapabilityKey(d)
            BY <4>3, <5>2 DEF UpdateAgentCapability, PutCapabilityKey, Places
          <5>3. CASE \E n \in Nonces : PopChallenge(d, n)
            BY <4>3, <5>3 DEF PopChallenge
          <5> QED
            BY <3>3, <5>1, <5>2, <5>3
        <4> QED
          BY <4>1, <4>4
      <3>4. ASSUME NEW d \in Callers, RotateCapability(d)
            PROVE  FALSE
        <4>1. \/ calls'[c] = calls[c] \/ calls'[c] = [calls[c] EXCEPT !.alone = FALSE]
              \/ calls'[c] = [NoCall EXCEPT !.pc = "update", !.key = made + 1, !.gen = NextGeneration,
                                           !.alone = (Writing = {})]
          BY <3>4 DEF RotateCapability
        <4> QED
          BY <3>1, <4>1 DEF NoCall, Call
      <3>5. ASSUME Restart \/ \E n \in Nonces : CapabilityChallenge(n) \/ ExpireChallenge(n) \/ LapseSession(n)
            PROVE  FALSE
        BY <3>5 DEF Restart, CapabilityChallenge, ExpireChallenge, LapseSession, NoCall
      <3>6. ASSUME NEW d \in Callers, ValidateSession(d)
            PROVE  d = c
        BY <3>1, <3>6 DEF ValidateSession, Goes
      <3> QED
        BY <3>2, <3>3, <3>4, <3>5, <3>6 DEF CapNext
    <2> QED
      BY <1>1, <2>1 DEF ValidateSession, At, CapInv, GenerationInv
  <1> QED
    BY <1>1, CapInvariant, PTL DEF CapSpec, CurrentKeyOnly

=============================================================================
