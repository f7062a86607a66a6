--------------------------- MODULE AdmissionProofs ---------------------------
(***************************************************************************)
(* TakenOnce for every window, lifetime and grain, any number of requests  *)
(* and deliveries and a clock without bound.  The argument is in           *)
(* ClaimKeepsInv: a second claim comes late enough after the first one     *)
(* (NonceInv), and its check of the window was early enough after the      *)
(* created time (HandlerInv).                                              *)
(***************************************************************************)
EXTENDS Admission, TLAPS

\* Cutting a time to milliseconds takes less than a millisecond off.
LEMMA MillisIsNear ==
  ASSUME NEW time \in Nat
  PROVE  /\ Millis(time) \in Nat /\ Millis(time) <= time
         /\ Millis(time) > time - Grain
  <1>1. Grain \in Nat /\ Grain > 0
    BY TimesAreNatural
  <1>2. time % Grain \in 0..(Grain - 1) /\ time % Grain <= time
    BY <1>1
  <1> QED
    BY <1>1, <1>2 DEF Millis

LEMMA InitInv == ASSUME AdmInit PROVE AdmInv
  <1> USE TimesAreNatural DEF AdmInit
  <1>1. IdleHandler \in Handler /\ IdleHandler.pc = "idle"
    BY DEF IdleHandler, Handler
  <1>2. AdmTypeOK
    BY <1>1 DEF AdmTypeOK
  <1>3. HandlerInv
    BY <1>1 DEF HandlerInv
  <1>4. NonceInv /\ TakenOnce
    BY DEF NonceInv, TakenOnce
  <1> QED
    BY <1>2, <1>3, <1>4 DEF AdmInv

\* A step that changes only one handler.
LEMMA OneHandler ==
  ASSUME AdmInv, NEW h \in Handlers, NEW x \in Handler,
         handlers' = [handlers EXCEPT ![h] = x],
         x.pc # "idle" =>
            /\ x.req \in Requests
            /\ created[x.req] >= x.seen - Window /\ created[x.req] <= x.seen + Window
            /\ kind[x.req] = "blob" => created[x.req] + Lifetime > x.seen
            /\ kind[x.req] # "rpc" => x.stamp = x.seen /\ x.asof = x.seen /\ x.pc = "claim"
            /\ x.seen <= now /\ (x.pc = "claim" => x.seen <= x.asof),
         UNCHANGED <<now, requests>>
  PROVE  handlers' \in [Handlers -> Handler] /\ HandlerInv'
  <1> DEFINE Known(y) == y.pc # "idle" =>
               /\ y.req \in Requests
               /\ created[y.req] >= y.seen - Window /\ created[y.req] <= y.seen + Window
               /\ kind[y.req] = "blob" => created[y.req] + Lifetime > y.seen
               /\ kind[y.req] # "rpc" => y.stamp = y.seen /\ y.asof = y.seen /\ y.pc = "claim"
               /\ y.seen <= now /\ (y.pc = "claim" => y.seen <= y.asof)
  <1>1. /\ handlers' \in [Handlers -> Handler] /\ handlers'[h] = x
        /\ \A g \in Handlers : g # h => handlers'[g] = handlers[g]
    BY DEF AdmInv, AdmTypeOK
  <1>2. now' = now /\ kind' = kind /\ created' = created
    BY DEF requests
  <1>3. \A g \in Handlers : Known(handlers[g])
    BY DEF AdmInv, HandlerInv
  <1>4. Known(x)
    OBVIOUS
  <1> HIDE DEF Known
  <1>5. \A g \in Handlers : Known(handlers'[g])
    BY <1>1, <1>3, <1>4
  <1> QED
    BY <1>1, <1>2, <1>5 DEF HandlerInv, Known

LEMMA IdleKeeps ==
  ASSUME AdmInv, NEW h \in Handlers, handlers' = [handlers EXCEPT ![h] = IdleHandler],
         UNCHANGED <<now, requests>>
  PROVE  handlers' \in [Handlers -> Handler] /\ HandlerInv'
  <1>1. IdleHandler \in Handler /\ IdleHandler.pc = "idle"
    BY DEF IdleHandler, Handler
  <1> QED
    BY <1>1, OneHandler

LEMMA CheckWindowKeepsInv ==
  ASSUME AdmInv, NEW h \in Handlers, NEW r \in Requests, CheckWindow(h, r)
  PROVE  AdmInv'
  <1> USE TimesAreNatural
  <1> DEFINE x == IF kind[r] = "rpc" THEN [IdleHandler EXCEPT !.pc = "checked", !.req = r, !.seen = now]
                  ELSE [pc |-> "claim", req |-> r, seen |-> now, stamp |-> now, asof |-> now]
  <1>1. now \in Nat /\ created[r] \in Nat /\ UNCHANGED <<now, requests, table, history>>
    BY DEF AdmInv, AdmTypeOK, CheckWindow
  <1>2. /\ x \in Handler /\ x.req = r /\ x.seen = now
        /\ kind[r] # "rpc" => x.pc = "claim" /\ x.stamp = now /\ x.asof = now
        /\ kind[r] = "rpc" => x.pc = "checked"
    BY <1>1 DEF Handler, IdleHandler
  <1>3. handlers' = [handlers EXCEPT ![h] = x]
    BY DEF CheckWindow
  <1>4. /\ created[r] >= now - Window /\ created[r] <= now + Window /\ now <= now
        /\ kind[r] = "blob" => created[r] + Lifetime > now
    BY <1>1 DEF CheckWindow, Valid, InWindow
  <1> HIDE DEF x
  <1>5. handlers' \in [Handlers -> Handler] /\ HandlerInv'
    <2>1. x.pc # "idle" =>
            /\ x.req \in Requests
            /\ created[x.req] >= x.seen - Window /\ created[x.req] <= x.seen + Window
            /\ kind[x.req] = "blob" => created[x.req] + Lifetime > x.seen
            /\ kind[x.req] # "rpc" => x.stamp = x.seen /\ x.asof = x.seen /\ x.pc = "claim"
            /\ x.seen <= now /\ (x.pc = "claim" => x.seen <= x.asof)
      BY <1>2, <1>4
    <2>2. UNCHANGED <<now, requests>>
      BY <1>1
    <2> QED
      BY <1>2, <1>3, <2>1, <2>2, OneHandler
  <1> QED
    BY <1>1, <1>5 DEF AdmInv, AdmTypeOK, NonceInv, TakenOnce, requests, history

LEMMA ReadExpiryKeepsInv ==
  ASSUME AdmInv, NEW h \in Handlers, ReadExpiry(h)
  PROVE  AdmInv'
  <1> USE TimesAreNatural
  <1> DEFINE x == [handlers[h] EXCEPT !.pc = "stamped", !.stamp = now]
  <1>1. /\ now \in Nat /\ UNCHANGED <<now, requests, table, history>>
        /\ handlers[h] \in Handler /\ handlers[h].pc = "checked"
    BY DEF AdmInv, AdmTypeOK, ReadExpiry
  <1>2. x \in Handler /\ x.req = handlers[h].req /\ x.seen = handlers[h].seen /\ x.pc = "stamped"
    BY <1>1 DEF Handler
  <1>3. handlers' = [handlers EXCEPT ![h] = x]
    BY DEF ReadExpiry
  <1>4. kind[handlers[h].req] = "rpc"
    BY <1>1 DEF AdmInv, HandlerInv
  <1> HIDE DEF x
  <1>5. handlers' \in [Handlers -> Handler] /\ HandlerInv'
    BY <1>1, <1>2, <1>3, <1>4, OneHandler DEF AdmInv, HandlerInv
  <1> QED
    BY <1>1, <1>5 DEF AdmInv, AdmTypeOK, NonceInv, TakenOnce, requests, history

LEMMA ReadClockKeepsInv ==
  ASSUME AdmInv, NEW h \in Handlers, ReadClock(h)
  PROVE  AdmInv'
  <1> USE TimesAreNatural
  <1> DEFINE x == [handlers[h] EXCEPT !.pc = "claim", !.asof = now]
  <1>1. /\ now \in Nat /\ UNCHANGED <<now, requests, table, history>>
        /\ handlers[h] \in Handler /\ handlers[h].pc = "stamped"
    BY DEF AdmInv, AdmTypeOK, ReadClock
  <1>2. x \in Handler /\ x.req = handlers[h].req /\ x.seen = handlers[h].seen /\ x.asof = now
    BY <1>1 DEF Handler
  <1>3. handlers' = [handlers EXCEPT ![h] = x]
    BY DEF ReadClock
  <1>4. kind[handlers[h].req] = "rpc" /\ handlers[h].seen <= now
    BY <1>1 DEF AdmInv, HandlerInv
  <1> HIDE DEF x
  <1>5. handlers' \in [Handlers -> Handler] /\ HandlerInv'
    BY <1>1, <1>2, <1>3, <1>4, OneHandler DEF AdmInv, HandlerInv
  <1> QED
    BY <1>1, <1>5 DEF AdmInv, AdmTypeOK, NonceInv, TakenOnce, requests, history

LEMMA ClaimKeepsInv ==
  ASSUME AdmInv, NEW h \in Handlers, ClaimReplayNonce(h)
  PROVE  AdmInv'
  <1> USE TimesAreNatural
  <1> DEFINE r == handlers[h].req
             stamp == handlers[h].stamp
             asof == handlers[h].asof
             seen == handlers[h].seen
             free == table[r] = -1 \/ table[r] <= Millis(asof)
  <1>1. /\ handlers[h] \in Handler /\ handlers[h].pc = "claim" /\ UNCHANGED <<now, requests>>
        /\ handlers' = [handlers EXCEPT ![h] = IdleHandler]
    BY DEF AdmInv, AdmTypeOK, ClaimReplayNonce
  <1>2. handlers' \in [Handlers -> Handler] /\ HandlerInv'
    BY <1>1, IdleKeeps
  <1>3. /\ r \in Requests /\ stamp \in Nat /\ asof \in Nat /\ seen \in Nat /\ seen <= asof
        /\ created[r] >= seen - Window /\ created[r] <= seen + Window
        /\ kind[r] = "blob" => created[r] + Lifetime > seen
        /\ kind[r] # "rpc" => asof = seen
    BY <1>1 DEF AdmInv, HandlerInv, Handler
  <1>4. /\ created[r] \in Nat /\ table[r] \in Int /\ pause \in Nat /\ count[r] \in 0..2
        /\ first[r] \in Nat /\ last[r] \in Nat /\ kind[r] \in Kinds
    BY <1>3 DEF AdmInv, AdmTypeOK
  <1>5. CASE ~free
    <2>1. UNCHANGED <<table, history>>
      BY <1>5 DEF ClaimReplayNonce
    <2> QED
      BY <1>1, <1>2, <2>1 DEF AdmInv, AdmTypeOK, NonceInv, TakenOnce, requests, history
  <1>6. CASE free
    <2> DEFINE until == IF kind[r] = "envelope" THEN created[r] + Window ELSE stamp + Window
    <2>1. /\ table' = [table EXCEPT ![r] = Millis(until)]
          /\ count' = [count EXCEPT ![r] = IF @ = 0 THEN 1 ELSE 2]
          /\ first' = IF count[r] = 0 THEN [first EXCEPT ![r] = stamp] ELSE first
          /\ last' = [last EXCEPT ![r] = asof]
          /\ pause' = IF asof - seen > pause THEN asof - seen ELSE pause
      BY <1>1, <1>6 DEF ClaimReplayNonce, ExpiresAt
    <2>2. now' = now /\ kind' = kind /\ created' = created
      BY <1>1 DEF requests
    <2>3. until \in Nat
      BY <1>3, <1>4
    <2>4. Millis(until) \in Nat /\ Millis(until) > until - Grain
      BY <2>3, MillisIsNear
    <2>5. Millis(asof) \in Nat /\ Millis(asof) <= asof
      BY <1>3, MillisIsNear
    <2>6. /\ pause' \in Nat /\ pause' >= pause /\ pause' >= asof - seen
          /\ count'[r] = (IF count[r] = 0 THEN 1 ELSE 2) /\ table'[r] = Millis(until) /\ last'[r] = asof
          /\ first'[r] = (IF count[r] = 0 THEN stamp ELSE first[r])
          /\ \A q \in Requests : q # r =>
                count'[q] = count[q] /\ table'[q] = table[q] /\ last'[q] = last[q] /\ first'[q] = first[q]
      BY <1>3, <1>4, <2>1 DEF AdmInv, AdmTypeOK
    <2>7. AdmTypeOK'
      <3>1. first' \in [Requests -> Nat] /\ last' \in [Requests -> Nat]
        BY <1>3, <2>1 DEF AdmInv, AdmTypeOK
      <3>2. table' \in [Requests -> Int] /\ count' \in [Requests -> 0..2]
        BY <1>3, <2>1, <2>4 DEF AdmInv, AdmTypeOK
      <3> QED
        BY <1>2, <2>2, <2>6, <3>1, <3>2 DEF AdmInv, AdmTypeOK
    <2> HIDE DEF free
    \* A row that was there has expired by the reading of this claim.
    <2>8. /\ kind[r] # "envelope" /\ count[r] = 1 => asof > first[r] + Window - Grain
          /\ kind[r] = "envelope" /\ count[r] > 0 => asof > created[r] + Window - Grain
      BY <1>3, <1>4, <1>6, <2>5 DEF AdmInv, NonceInv, free
    <2>9. /\ kind[r] # "envelope" => Millis(until) > stamp + Window - Grain
          /\ kind[r] = "envelope" => Millis(until) > created[r] + Window - Grain
      <3>1. CASE kind[r] = "envelope"
        BY <3>1, <1>3, <1>4, <2>4
      <3>2. CASE kind[r] # "envelope"
        BY <3>2, <1>3, <1>4, <2>4
      <3> QED
        BY <3>1, <3>2
    <2>10. NonceInv'
      <3> SUFFICES ASSUME NEW q \in Requests
                   PROVE  /\ count'[q] = 0 <=> table'[q] = -1
                          /\ count'[q] > 0 =>
                                /\ table'[q] > -1
                                /\ kind'[q] # "envelope" /\ count'[q] = 1 =>
                                      table'[q] > first'[q] + Window - Grain
                                /\ kind'[q] = "envelope" => table'[q] > created'[q] + Window - Grain
        BY DEF NonceInv
      <3>1. CASE q = r
        BY <3>1, <2>2, <2>4, <2>6, <2>9, <1>4
      <3>2. CASE q # r
        BY <3>2, <2>2, <2>6 DEF AdmInv, NonceInv
      <3> QED
        BY <3>1, <3>2
    <2> HIDE DEF until
    <2>11. TakenOnce'
      <3> SUFFICES ASSUME NEW q \in Requests, count'[q] = 2
                   PROVE  /\ kind'[q] = "rpc" => first'[q] < created'[q] + pause' + Grain
                          /\ kind'[q] = "blob" => first'[q] < created'[q] - (Window - Lifetime) + Grain
                          /\ kind'[q] = "envelope" => last'[q] > created'[q] + Window - Grain
        BY DEF TakenOnce
      <3>1. CASE q = r
        <4>1. count[r] > 0 /\ first'[r] = first[r]
          BY <3>1, <1>4, <2>6
        <4>2. CASE count[r] = 1
          <5>1. kind[r] = "rpc" => first[r] < created[r] + pause' + Grain
            BY <4>2, <1>3, <1>4, <2>6, <2>8
          <5>2. kind[r] = "blob" => first[r] < created[r] - (Window - Lifetime) + Grain
            BY <4>2, <1>3, <1>4, <2>8
          <5> QED
            BY <3>1, <4>1, <5>1, <5>2, <2>2, <2>6, <2>8
        <4>3. CASE count[r] = 2
          <5>1. /\ kind[r] = "rpc" => first[r] < created[r] + pause + Grain
                /\ kind[r] = "blob" => first[r] < created[r] - (Window - Lifetime) + Grain
            BY <4>3, <1>3 DEF AdmInv, TakenOnce
          <5>2. kind[r] = "rpc" => first[r] < created[r] + pause' + Grain
            BY <5>1, <1>4, <2>6
          <5> QED
            BY <3>1, <4>1, <5>1, <5>2, <2>2, <2>6, <2>8
        <4> QED
          BY <4>1, <4>2, <4>3, <1>4
      <3>2. CASE q # r
        <4>1. created[q] \in Nat /\ first[q] \in Nat
          BY DEF AdmInv, AdmTypeOK
        <4> QED
          BY <3>2, <4>1, <1>4, <2>2, <2>6 DEF AdmInv, TakenOnce
      <3> QED
        BY <3>1, <3>2
    <2> QED
      BY <1>2, <2>7, <2>10, <2>11 DEF AdmInv
  <1> QED
    BY <1>5, <1>6

LEMMA StepInv == ASSUME AdmInv, [AdmNext]_vars PROVE AdmInv'
  <1>1. ASSUME NEW h \in Handlers, DeliveryFails(h)
        PROVE  AdmInv'
    <2>1. handlers' \in [Handlers -> Handler] /\ HandlerInv'
      BY <1>1, IdleKeeps DEF DeliveryFails
    <2> QED
      BY <1>1, <2>1 DEF DeliveryFails, AdmInv, AdmTypeOK, NonceInv, TakenOnce, requests, history
  <1>2. ASSUME Restart
        PROVE  AdmInv'
    <2>1. IdleHandler \in Handler /\ IdleHandler.pc = "idle"
      BY DEF IdleHandler, Handler
    <2> QED
      BY <1>2, <2>1 DEF Restart, AdmInv, AdmTypeOK, HandlerInv, NonceInv, TakenOnce, requests, history
  <1>3. ASSUME Tick
        PROVE  AdmInv'
    <2>1. now' \in Nat /\ now <= now' /\ now \in Nat
      BY <1>3 DEF Tick, AdmInv, AdmTypeOK
    <2>2. HandlerInv'
      <3>1. \A h \in Handlers : handlers[h].seen \in Nat
        BY DEF AdmInv, AdmTypeOK, Handler
      <3> QED
        BY <1>3, <2>1, <3>1 DEF Tick, AdmInv, HandlerInv, requests
    <2> QED
      BY <1>3, <2>1, <2>2 DEF Tick, AdmInv, AdmTypeOK, NonceInv, TakenOnce, requests, history
  <1>4. ASSUME UNCHANGED vars
        PROVE  AdmInv'
    BY <1>4 DEF vars, AdmInv, AdmTypeOK, HandlerInv, NonceInv, TakenOnce
  <1> QED
    BY <1>1, <1>2, <1>3, <1>4, CheckWindowKeepsInv, ReadExpiryKeepsInv, ReadClockKeepsInv, ClaimKeepsInv DEF AdmNext

-----------------------------------------------------------------------------

\* AdmInv holds throughout: the row of a nonce that was claimed once lasts for the
\* window after the reading of the clock it was computed from, however the handlers
\* of duplicates and the clock interleave (authorized, blob, Authorize).
THEOREM AdmInvariant == AdmSpec => []AdmInv
  <1> QED
    BY InitInv, StepInv, PTL DEF AdmSpec

\* A request is taken a second time only if it is dated ahead of its first claim,
\* by how much depending on where it is sent, whatever the window, the lifetime of
\* a signature and the number of deliveries.
THEOREM RequestsAreTakenOnce == AdmSpec => []TakenOnce
  <1>1. AdmInv => TakenOnce
    BY DEF AdmInv
  <1> QED
    BY <1>1, AdmInvariant, PTL

=============================================================================
