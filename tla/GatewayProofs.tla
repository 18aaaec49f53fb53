--------------------------- MODULE GatewayProofs ---------------------------
(***************************************************************************)
(* Proofs about the path of a request to its sandbox: the discovery of     *)
(* features, whose sandbox a request is for, the relays' refresh of the    *)
(* idle clock, and the check of the runtime key at the other end, for any  *)
(* number of requests and keys and any granularity of modification times,  *)
(* as long as the key file can be read: the types, that a current key is   *)
(* let in, and that the check through the cache implements KeyGate.  Last, *)
(* the budgets of a user and the user's chats, for any rates and bursts.   *)
(***************************************************************************)
EXTENDS ConfigCache, Identity, RateLimit, Relay, RuntimeKey, FiniteSetTheorems, TLAPS

-----------------------------------------------------------------------------
(* The check of a runtime key *)

Loading == {"read", "reread"}
Rereading == {"relock", "reread"}

(* The mutex is held by the request that reads the file. *)
Mutex == \A r \in Request : request[r].pc \in Loading <=> lock = r

(* The file and the cache hold keys; the history has the file's key. *)
Configured ==
    /\ file.key \in epoch /\ Placeholder \notin epoch
    /\ cache.value # Placeholder
    /\ \A r \in Request : request[r].pc # "rest" => request[r].key # Placeholder

(* The cache is never ahead of the file, nor is the time a reader took.    *)
(* What is cached for the file's present time was in the file under it.    *)
CacheBehind ==
    /\ cache.mtime # NoOne => cache.mtime <= file.mtime
    /\ cache.mtime = file.mtime => cache.value \in epoch
    /\ \A r \in Request : request[r].pc \in Loading =>
          request[r].mtime \in Nat /\ request[r].mtime <= file.mtime

(* A verdict comes with the end of the check. *)
JudgedAtEnd ==
    \A r \in Request : request[r].pc # "done" => request[r].verdict = "none"

(* While the file does not change, it holds the key of a steady request;   *)
(* once that request has invalidated the cache, so does the cache.         *)
SteadyKey ==
    \A r \in Request : steady[r] =>
        /\ request[r].pc # "rest" => request[r].key = file.key
        /\ request[r].pc \in Rereading /\ cache.mtime # NoOne => cache.value = file.key

KeyIInv ==
    /\ KeyTypeOK /\ Mutex /\ Configured /\ CacheBehind /\ JudgedAtEnd
    /\ SteadyKey /\ CurrentKeyAccepted

-----------------------------------------------------------------------------
(* At the start nothing is cached and no request is there, so the          *)
(* invariant holds.                                                        *)
LEMMA KeyInitial == KeyInit => KeyIInv
<1> SUFFICES ASSUME KeyInit PROVE KeyIInv
  OBVIOUS
<1> USE RuntimeKeyAssumption DEF KeyInit, Pooled, PoolKey, Placeholder, Resting, Keys
<1>1. KeyTypeOK
  BY DEF KeyTypeOK, Progress, Verdicts
<1>2. Mutex /\ Configured /\ CacheBehind
  BY DEF Mutex, Configured, CacheBehind, Loading
<1>3. JudgedAtEnd /\ SteadyKey /\ CurrentKeyAccepted
  BY Zenon DEF JudgedAtEnd, SteadyKey, CurrentKeyAccepted
<1> QED
  BY <1>1, <1>2, <1>3, Zenon DEF KeyIInv

(* What Compare does to the request it is about, when a key was loaded. *)
LEMMA Compared ==
    ASSUME NEW r \in Request, NEW value \in Keys, value # Placeholder,
           KeyTypeOK, Compare(r, value)
    PROVE  /\ \A q \in Request : q # r => request'[q] = request[q]
           /\ request' \in [Request -> Progress]
           /\ request'[r].key = request[r].key
           /\ \/ request'[r].pc = "done" /\ request'[r].verdict = "ok" /\ value = request[r].key
              \/ /\ request'[r].pc = "done" /\ request'[r].verdict = "invalid"
                 /\ value # request[r].key /\ request[r].pc \notin {"lock", "read"}
              \/ /\ request'[r].pc = "invalidate" /\ request'[r].verdict = "none"
                 /\ value # request[r].key
<1> DEFINE next == [pc      |-> IF Outcome(r, value) = "none" THEN "invalidate" ELSE "done",
                   key     |-> request[r].key,
                   mtime   |-> NoOne,
                   verdict |-> Outcome(r, value)]
<1>1. \/ Outcome(r, value) = "ok" /\ value = request[r].key
      \/ /\ Outcome(r, value) = "invalid" /\ value # request[r].key
         /\ request[r].pc \notin {"lock", "read"}
      \/ Outcome(r, value) = "none" /\ value # request[r].key
  BY Zenon DEF Outcome
<1>2. request' = [request EXCEPT ![r] = next]
  BY Zenon DEF Compare
<1>3. next \in Progress
  BY <1>1, Zenon DEF KeyTypeOK, Progress, Verdicts
<1>4. next.key = request[r].key /\ next.verdict = Outcome(r, value)
      /\ next.pc = IF Outcome(r, value) = "none" THEN "invalidate" ELSE "done"
  OBVIOUS
<1> HIDE DEF next
<1>5. request'[r] = next /\ \A q \in Request : q # r => request'[q] = request[q]
  BY <1>2, Zenon DEF KeyTypeOK
<1>6. request' \in [Request -> Progress]
  BY <1>2, <1>3, Zenon DEF KeyTypeOK
<1> QED
  BY <1>1, <1>4, <1>5, <1>6, Zenon

(* Every step of a request (auth.rs:108-180) and every write of the key    *)
(* file keep the invariant.                                                *)
LEMMA KeyStep == ASSUME ~ReadFaults, KeyIInv, [KeyNext]_keyVars PROVE KeyIInv'
<1> USE RuntimeKeyAssumption DEF KeyIInv
<1>1. CASE EnsureKey
  <2>1. KeyTypeOK'
    BY <1>1, SMTT(60) DEF EnsureKey, KeyTypeOK
  <2> QED
    BY <2>1, <1>1, Zenon DEF EnsureKey, Mutex, Configured, CacheBehind, JudgedAtEnd, SteadyKey, CurrentKeyAccepted
<1>2. CASE DeleteRuntimeKey
  <2>1. KeyTypeOK'
    BY <1>2, Zenon DEF DeleteRuntimeKey, KeyTypeOK
  <2> QED
    BY <2>1, <1>2, Zenon DEF DeleteRuntimeKey, Mutex, Configured, CacheBehind, JudgedAtEnd, SteadyKey,
                      CurrentKeyAccepted
<1>3. CASE Sync
  <2> PICK t \in {file.mtime + 1} \cup (IF Coarse THEN {file.mtime} ELSE {}) :
         /\ file' = [key |-> secret, mtime |-> t]
         /\ epoch' = IF t = file.mtime THEN epoch \cup {secret} ELSE {secret}
    BY <1>3, Zenon DEF Sync
  <2>1. t \in Nat /\ (t = file.mtime \/ t = file.mtime + 1) /\ file.mtime \in Nat
    BY DEF KeyTypeOK
  <2>2. secret \in Keys /\ secret # Placeholder
    BY <1>3 DEF Sync, KeyTypeOK, Keys, Placeholder
  <2>3. KeyTypeOK'
    BY <1>3, <2>1, <2>2, Zenon DEF Sync, KeyTypeOK
  <2>4. Mutex' /\ JudgedAtEnd'
    BY <1>3, Zenon DEF Sync, Mutex, JudgedAtEnd
  <2>5. Configured'
    BY <1>3, <2>2, Zenon DEF Sync, Configured
  <2>6. CacheBehind'
    <3>1. file'.mtime = t
      OBVIOUS
    <3>2. cache.mtime # NoOne => cache.mtime \in Nat /\ cache.mtime <= file.mtime
      BY Zenon DEF KeyTypeOK, CacheBehind
    <3>3. cache'.mtime # NoOne => cache'.mtime <= file'.mtime
      BY <1>3, <2>1, <3>1, <3>2 DEF Sync
    <3>4. cache'.mtime = file'.mtime => cache'.value \in epoch'
      BY <1>3, <2>1, <3>1, <3>2 DEF Sync, CacheBehind
    <3>5. \A r \in Request : request'[r].pc \in Loading =>
             request'[r].mtime \in Nat /\ request'[r].mtime <= file'.mtime
      BY <1>3, <2>1, <3>1 DEF Sync, CacheBehind
    <3> QED
      BY <3>3, <3>4, <3>5, Zenon DEF CacheBehind
  <2>7. SteadyKey' /\ CurrentKeyAccepted'
    BY <1>3, Zenon DEF Sync, SteadyKey, CurrentKeyAccepted
  <2> QED
    BY <2>3, <2>4, <2>5, <2>6, <2>7, Zenon
<1>4. ASSUME NEW r \in Request, Send(r) PROVE KeyIInv'
  <2> DEFINE key == IF secret # NoOne THEN secret ELSE PoolKey
             next == [pc |-> "lock", key |-> key, mtime |-> NoOne, verdict |-> "none"]
  <2>1. key \in Keys /\ key # Placeholder
    BY DEF KeyTypeOK, Keys, PoolKey, Placeholder
  <2>2. /\ request' = [request EXCEPT ![r] = next]
        /\ steady' = [steady EXCEPT ![r] = (file.key = key)]
        /\ UNCHANGED <<secret, minted, file, cache, lock, epoch>>
        /\ request[r].pc = "rest"
    BY <1>4, Zenon DEF Send
  <2> HIDE DEF key
  <2>3. next.pc = "lock" /\ next.key = key /\ next.verdict = "none"
    OBVIOUS
  <2>4. next \in Progress
    BY <2>1, Zenon DEF Progress, Verdicts
  <2> HIDE DEF next
  <2>5. KeyTypeOK'
    BY <2>2, <2>4, Zenon DEF KeyTypeOK
  <2>6. request'[r] = next /\ \A q \in Request : q # r => request'[q] = request[q]
    BY <2>2, Zenon DEF KeyTypeOK
  <2>7. Mutex' /\ JudgedAtEnd'
    BY <2>2, <2>3, <2>6, Zenon DEF Mutex, JudgedAtEnd, Loading
  <2>8. Configured' /\ CacheBehind'
    BY <2>1, <2>2, <2>3, <2>6, Zenon DEF Configured, CacheBehind, Loading
  <2>9. /\ steady'[r] => file.key = key
        /\ \A q \in Request : q # r => steady'[q] = steady[q]
    BY <2>2, Zenon DEF KeyTypeOK
  <2>10. SteadyKey' /\ CurrentKeyAccepted'
    BY <2>2, <2>3, <2>6, <2>9 DEF SteadyKey, CurrentKeyAccepted, Rereading
  <2> QED
    BY <2>5, <2>7, <2>8, <2>10, Zenon
<1>5. ASSUME NEW r \in Request, Hit(r) PROVE KeyIInv'
  <2> DEFINE value == cache.value
  <2>1. value \in Keys /\ value # Placeholder /\ Compare(r, value)
    BY <1>5, Zenon DEF Hit, KeyTypeOK, Configured
  <2>2. /\ UNCHANGED <<secret, minted, file, cache, lock, epoch, steady>>
        /\ lock = NoOne /\ request[r].pc \in {"lock", "relock"}
        /\ cache.mtime = file.mtime
    BY <1>5, Zenon DEF Hit, CacheMtimeEq
  <2>3. cache.mtime # NoOne
    BY <2>2, SMTT(60) DEF KeyTypeOK
  <2>4. request[r].pc = "relock" /\ steady[r] => value = request[r].key
    BY <2>3, Zenon DEF SteadyKey, Rereading
  <2> HIDE DEF value
  <2>5. KeyTypeOK'
    BY <2>1, <2>2, Compared, Zenon DEF KeyTypeOK
  <2>6. Mutex' /\ JudgedAtEnd'
    BY <2>1, <2>2, Compared, ZenonT(60) DEF Mutex, JudgedAtEnd, Loading
  <2>7. Configured' /\ CacheBehind'
    BY <2>1, <2>2, Compared, ZenonT(60) DEF Configured, CacheBehind, Loading
  <2>8. SteadyKey'
    BY <2>1, <2>2, Compared, SMTT(60) DEF SteadyKey, Rereading
  <2>9. CurrentKeyAccepted'
    BY <2>1, <2>2, <2>4, Compared, ZenonT(60) DEF CurrentKeyAccepted
  <2> QED
    BY <2>5, <2>6, <2>7, <2>8, <2>9, Zenon
<1>6. ASSUME NEW r \in Request, Miss(r) PROVE KeyIInv'
  <2> DEFINE pc == IF request[r].pc = "lock" THEN "read" ELSE "reread"
             next == [request[r] EXCEPT !.pc = pc, !.mtime = file.mtime]
  <2>1. /\ request' = [request EXCEPT ![r] = next]
        /\ lock' = r /\ lock = NoOne
        /\ request[r].pc \in {"lock", "relock"}
        /\ UNCHANGED <<secret, minted, file, cache, epoch, steady>>
    BY <1>6, Zenon DEF Miss, KeyTypeOK
  <2>2. pc \in Loading /\ (pc \in Rereading => request[r].pc \in Rereading)
    BY <2>1, Zenon DEF Loading, Rereading
  <2> HIDE DEF pc
  <2>3. next = [pc |-> pc, key |-> request[r].key, mtime |-> file.mtime, verdict |-> request[r].verdict]
    <3> DEFINE mid == [request[r] EXCEPT !.pc = pc]
    <3>1. mid = [pc |-> pc, key |-> request[r].key, mtime |-> request[r].mtime,
                 verdict |-> request[r].verdict]
      BY DEF KeyTypeOK, Progress
    <3>2. next = [mid EXCEPT !.mtime = file.mtime]
      OBVIOUS
    <3> HIDE DEF mid, next
    <3> QED
      BY <3>1, <3>2, Zenon
  <2>4. next \in Progress
    BY <2>2, <2>3, ZenonT(60) DEF KeyTypeOK, Progress, Loading
  <2>5. file.mtime \in Nat
    BY Zenon DEF KeyTypeOK
  <2> HIDE DEF next
  <2>6. KeyTypeOK'
    BY <2>1, <2>4, Zenon DEF KeyTypeOK
  <2>7. request'[r] = next /\ \A q \in Request : q # r => request'[q] = request[q]
    BY <2>1, Zenon DEF KeyTypeOK
  <2>8. pc # "done" /\ pc # "rest"
    BY <2>2, Zenon DEF Loading
  <2>9. Mutex' /\ JudgedAtEnd'
    BY <2>1, <2>2, <2>3, <2>7, <2>8, SMTT(60) DEF Mutex, JudgedAtEnd
  <2>10. Configured' /\ CacheBehind'
    BY <2>1, <2>3, <2>5, <2>7, SMTT(60) DEF Configured, CacheBehind
  <2>11. SteadyKey' /\ CurrentKeyAccepted'
    BY <2>1, <2>2, <2>3, <2>7, <2>8 DEF SteadyKey, CurrentKeyAccepted
  <2> QED
    BY <2>6, <2>9, <2>10, <2>11, Zenon
<1>7. ASSUME NEW r \in Request, ReadKey(r) PROVE KeyIInv'
  <2> DEFINE value == file.key
  <2>1. value \in Keys /\ value # Placeholder
    BY Zenon DEF KeyTypeOK
  <2>2. /\ Compare(r, value) /\ cache' = [mtime |-> request[r].mtime, value |-> value]
        /\ lock' = NoOne /\ request[r].pc \in Loading
        /\ UNCHANGED <<secret, minted, file, epoch, steady>>
    BY <1>7, Zenon DEF ReadKey, Fill, Loading
  <2>3. lock = r /\ request[r].mtime \in Nat /\ request[r].mtime <= file.mtime
    BY <2>2, Zenon DEF Mutex, CacheBehind
  <2>4. cache'.mtime = request[r].mtime /\ cache'.value = value
    BY <2>2, Zenon
  <2>5. KeyTypeOK'
    BY <2>1, <2>2, <2>3, Compared, Zenon DEF KeyTypeOK
  <2>6. Mutex' /\ JudgedAtEnd'
    BY <2>1, <2>2, <2>3, Compared, SMTT(60) DEF Mutex, JudgedAtEnd, Loading
  <2>7. Configured'
    BY <2>1, <2>2, <2>4, Compared, ZenonT(60) DEF Configured, Loading
  <2>8. CacheBehind'
    BY <2>1, <2>2, <2>3, <2>4, Compared, Zenon DEF CacheBehind, Configured, Loading
  <2>9. SteadyKey'
    BY <2>1, <2>2, <2>4, Compared, ZenonT(60) DEF SteadyKey, Rereading, Loading
  <2>10. CurrentKeyAccepted'
    BY <2>1, <2>2, Compared, ZenonT(60) DEF CurrentKeyAccepted, SteadyKey, Loading
  <2> QED
    BY <2>5, <2>6, <2>7, <2>8, <2>9, <2>10, Zenon
<1>8. ASSUME NEW r \in Request, Invalidate(r) PROVE KeyIInv'
  <2> DEFINE next == [request[r] EXCEPT !.pc = "relock"]
  <2>1. /\ request' = [request EXCEPT ![r] = next]
        /\ cache' = [cache EXCEPT !.mtime = NoOne]
        /\ request[r].pc = "invalidate"
        /\ UNCHANGED <<secret, minted, file, lock, epoch, steady>>
    BY <1>8, Zenon DEF Invalidate, KeyTypeOK
  <2>2. next = [pc |-> "relock", key |-> request[r].key, mtime |-> request[r].mtime,
                verdict |-> request[r].verdict]
    BY DEF KeyTypeOK, Progress
  <2>3. next \in Progress
    BY <2>2, ZenonT(60) DEF KeyTypeOK, Progress
  <2>4. cache'.mtime = NoOne /\ cache'.value = cache.value
    BY <2>1, Zenon DEF KeyTypeOK
  <2> HIDE DEF next
  <2>5. KeyTypeOK'
    BY <2>1, <2>3, Zenon DEF KeyTypeOK
  <2>6. request'[r] = next /\ \A q \in Request : q # r => request'[q] = request[q]
    BY <2>1, Zenon DEF KeyTypeOK
  <2>7. Mutex' /\ JudgedAtEnd'
    BY <2>1, <2>2, <2>6 DEF Mutex, JudgedAtEnd, Loading
  <2>8. file.mtime \in Nat
    BY Zenon DEF KeyTypeOK
  <2>9. Configured' /\ CacheBehind'
    BY <2>1, <2>2, <2>4, <2>6, <2>8 DEF Configured, CacheBehind, Loading
  <2>10. SteadyKey' /\ CurrentKeyAccepted'
    BY <2>1, <2>2, <2>4, <2>6 DEF SteadyKey, CurrentKeyAccepted
  <2> QED
    BY <2>5, <2>7, <2>9, <2>10, Zenon
<1>9. ASSUME NEW r \in Request, Finish(r) PROVE KeyIInv'
  <2>1. /\ request' = [request EXCEPT ![r] = Resting]
        /\ request[r].pc = "done"
        /\ UNCHANGED <<secret, minted, file, cache, lock, epoch, steady>>
    BY <1>9, Zenon DEF Finish
  <2>2. Resting \in Progress /\ Resting.pc = "rest" /\ Resting.verdict = "none"
    BY Zenon DEF Resting, Progress, Keys, Verdicts
  <2>3. KeyTypeOK'
    BY <2>1, <2>2, Zenon DEF KeyTypeOK
  <2>4. request'[r] = Resting /\ \A q \in Request : q # r => request'[q] = request[q]
    BY <2>1, Zenon DEF KeyTypeOK
  <2>5. Mutex' /\ JudgedAtEnd'
    BY <2>1, <2>2, <2>4, Zenon DEF Mutex, JudgedAtEnd, Loading
  <2>6. Configured' /\ CacheBehind'
    BY <2>1, <2>2, <2>4, Zenon DEF Configured, CacheBehind, Loading
  <2>7. SteadyKey' /\ CurrentKeyAccepted'
    BY <2>1, <2>2, <2>4, ZenonT(60) DEF SteadyKey, CurrentKeyAccepted, Rereading
  <2> QED
    BY <2>3, <2>5, <2>6, <2>7, Zenon
<1>10. CASE UNCHANGED keyVars
  BY <1>10, Zenon DEF keyVars, KeyTypeOK, Mutex, Configured, CacheBehind, JudgedAtEnd, SteadyKey, CurrentKeyAccepted
<1> QED
  BY <1>1, <1>2, <1>3, <1>4, <1>5, <1>6, <1>7, <1>8, <1>9, <1>10, Zenon DEF KeyNext, Handle

(* KeyTypeOK: secrets, file, cache, mutex and requests keep their types in *)
(* every behaviour in which the key file can be read (auth.rs:108-127).    *)
THEOREM KeyTypes == ASSUME ~ReadFaults PROVE KeySpec => []KeyTypeOK
<1>1. KeyIInv => KeyTypeOK
  BY Zenon DEF KeyIInv
<1> QED
  BY KeyInitial, KeyStep, <1>1, PTL DEF KeySpec

(* check(): a request that presents the key which the file holds all the   *)
(* while is let in, for any number of concurrent requests and rotations.   *)
THEOREM CurrentKeyTheorem == ASSUME ~ReadFaults PROVE KeySpec => []CurrentKeyAccepted
<1>1. KeyIInv => CurrentKeyAccepted
  BY Zenon DEF KeyIInv
<1> QED
  BY KeyInitial, KeyStep, <1>1, PTL DEF KeySpec

-----------------------------------------------------------------------------
(* What a comparison with a key of the file's present time is to KeyGate. *)
LEMMA CompareJudges ==
    ASSUME KeyTypeOK, JudgedAtEnd,
           NEW r \in Request, NEW value \in Keys, value # Placeholder, value \in epoch,
           request[r].pc # "done", Compare(r, value), UNCHANGED <<file, epoch>>
    PROVE  Gate!Judge(r) \/ UNCHANGED Gate!gateVars
<1> DEFINE offered == [q \in Request |-> request[q].key]
           verdict == [q \in Request |-> request[q].verdict]
<1>1. offered' = offered
  BY Compared, Zenon
<1>2. verdict[r] = "none"
  BY Zenon DEF JudgedAtEnd
<1>3. verdict' = [verdict EXCEPT ![r] = request'[r].verdict]
  BY Compared, Zenon
<1>4. CASE request'[r].verdict = "none"
  <2>1. verdict' = verdict
    BY <1>2, <1>3, <1>4, Zenon
  <2> QED
    BY <1>1, <2>1, Zenon DEF Gate!gateVars
<1>5. CASE request'[r].verdict # "none"
  <2>1. request'[r].verdict = IF offered[r] = value THEN "ok" ELSE "invalid"
    BY <1>5, Compared, Zenon
  <2>2. verdict' = [verdict EXCEPT ![r] = IF offered[r] = value THEN "ok" ELSE "invalid"]
    BY <1>3, <2>1, Zenon
  <2> QED
    BY <1>1, <1>2, <2>2, Zenon DEF Gate!Judge
<1> QED
  BY <1>4, <1>5, Zenon

(* The initial states are initial states of KeyGate.                       *)
LEMMA KeyInitialGate == KeyInit => Gate!GateInit
  BY DEF KeyInit, Resting, Gate!GateInit

(* Every step is a step of KeyGate or leaves what KeyGate sees alone: a    *)
(* request is judged when it takes the key from the cache or the file.     *)
LEMMA KeyStepGate ==
    ASSUME ~ReadFaults, KeyIInv, [KeyNext]_keyVars
    PROVE  [Gate!GateNext]_Gate!gateVars
<1> DEFINE offered == [q \in Request |-> request[q].key]
           verdict == [q \in Request |-> request[q].verdict]
<1> USE DEF KeyIInv
<1>1. CASE EnsureKey \/ DeleteRuntimeKey \/ UNCHANGED keyVars
  BY <1>1, Zenon DEF EnsureKey, DeleteRuntimeKey, keyVars, Gate!gateVars
<1>2. CASE Sync
  <2>1. Gate!Remount
    BY <1>2 DEF Sync, Gate!Remount
  <2> QED
    BY <2>1, Zenon DEF Gate!GateNext
<1>3. ASSUME NEW r \in Request, Send(r) PROVE Gate!GateNext
  <2> DEFINE key == IF secret # NoOne THEN secret ELSE PoolKey
  <2>1. key \in Keys
    BY Zenon DEF KeyTypeOK, Keys
  <2>2. /\ request' = [request EXCEPT ![r] =
                         [pc |-> "lock", key |-> key, mtime |-> NoOne, verdict |-> "none"]]
        /\ UNCHANGED <<file, epoch>>
    BY <1>3, Zenon DEF Send
  <2> HIDE DEF key
  <2>3. offered' = [offered EXCEPT ![r] = key] /\ verdict' = [verdict EXCEPT ![r] = "none"]
    BY <2>2, Zenon DEF KeyTypeOK
  <2>4. \E k \in Keys : Gate!Ask(r, k)
    BY <2>1, <2>2, <2>3, Zenon DEF Gate!Ask
  <2> QED
    BY <2>4, Zenon DEF Gate!GateNext
<1>4. ASSUME NEW r \in Request, Hit(r) PROVE [Gate!GateNext]_Gate!gateVars
  <2>1. cache.value \in Keys /\ cache.value # Placeholder /\ cache.value \in epoch
    BY <1>4, Zenon DEF Hit, CacheMtimeEq, KeyTypeOK, Configured, CacheBehind
  <2>2. Compare(r, cache.value) /\ UNCHANGED <<file, epoch>> /\ request[r].pc # "done"
    BY <1>4, Zenon DEF Hit
  <2>3. Gate!Judge(r) \/ UNCHANGED Gate!gateVars
    BY <2>1, <2>2, CompareJudges, Zenon
  <2> QED
    BY <2>3, Zenon DEF Gate!GateNext
<1>5. ASSUME NEW r \in Request, ReadKey(r) PROVE [Gate!GateNext]_Gate!gateVars
  <2>1. file.key \in Keys /\ file.key # Placeholder /\ file.key \in epoch
    BY Zenon DEF KeyTypeOK, Configured
  <2>2. Compare(r, file.key) /\ UNCHANGED <<file, epoch>> /\ request[r].pc # "done"
    BY <1>5, Zenon DEF ReadKey
  <2>3. Gate!Judge(r) \/ UNCHANGED Gate!gateVars
    BY <2>1, <2>2, CompareJudges, Zenon
  <2> QED
    BY <2>3, Zenon DEF Gate!GateNext
<1>6. ASSUME NEW r \in Request, Miss(r) \/ Invalidate(r) PROVE UNCHANGED Gate!gateVars
  <2>1. offered' = offered /\ verdict' = verdict
    BY <1>6 DEF Miss, Invalidate, KeyTypeOK, Progress
  <2> QED
    BY <1>6, <2>1, Zenon DEF Miss, Invalidate, Gate!gateVars
<1>7. ASSUME NEW r \in Request, Finish(r) PROVE Gate!GateNext
  <2>1. request' = [request EXCEPT ![r] = Resting] /\ UNCHANGED <<file, epoch>>
    BY <1>7, Zenon DEF Finish
  <2>2. Resting.key = Placeholder /\ Resting.verdict = "none"
    BY Zenon DEF Resting
  <2>3. offered' = [offered EXCEPT ![r] = Placeholder] /\ verdict' = [verdict EXCEPT ![r] = "none"]
    BY <2>1, <2>2, Zenon DEF KeyTypeOK
  <2>4. Placeholder \in Keys
    BY Zenon DEF Keys
  <2>5. \E k \in Keys : Gate!Ask(r, k)
    BY <2>1, <2>3, <2>4, Zenon DEF Gate!Ask
  <2> QED
    BY <2>5, Zenon DEF Gate!GateNext
<1> QED
  BY <1>1, <1>2, <1>3, <1>4, <1>5, <1>6, <1>7, Zenon DEF KeyNext, Handle

(* JudgedByFile: the check through the cache (auth.rs:108-180) implements  *)
(* KeyGate, in which a request is judged by the file in one step.          *)
THEOREM JudgedByFileTheorem == ASSUME ~ReadFaults PROVE KeySpec => JudgedByFile
  BY KeyInitial, KeyStep, KeyInitialGate, KeyStepGate, PTL DEF KeySpec, JudgedByFile, Gate!GateSpec

-----------------------------------------------------------------------------
(* GET /api/config *)

Documents == Sidecars \cup {RuntimeFlags}
Answers == {LocalFlags, RuntimeFlags} \cup {MergeConfigs(RuntimeFlags, f) : f \in Sidecars}

ConfigTypeOK ==
    /\ laneActive \in BOOLEAN
    /\ flags \in Sidecars
    /\ stored \in [filled : BOOLEAN, age : Nat, payload : Documents]
    /\ getter \in [Getter -> [pc : {"rest", "wait", "fetch", "read", "done"}, age : Nat,
                              body : Answers, fetched : Documents]]
    /\ stale \in [Sidecars -> Nat]

(* What the sidecar states now is not stale, and nothing is older than can *)
(* matter.                                                                 *)
StaleBounds ==
    /\ stale[flags] = 0
    /\ \A f \in Sidecars : stale[f] <= Ancient

(* What is cached was stated no longer before it was cached than a fetch   *)
(* may take; a document that is being read, since the fetch began.         *)
CachedLately ==
    stored.filled => /\ stored.payload \in Sidecars
                     /\ stale[stored.payload] <= stored.age + FetchTimeout

FetchedLately ==
    \A g \in Getter :
        /\ getter[g].age <= FetchTimeout
        /\ getter[g].pc = "read" => /\ getter[g].fetched \in Sidecars
                                    /\ stale[getter[g].fetched] <= getter[g].age

(* An answer is one of the fallbacks or the runtime's flags merged with a  *)
(* document that the sidecar stated lately.                                *)
MergedLately(b) ==
    \/ b \in {LocalFlags, RuntimeFlags}
    \/ \E f \in Sidecars : b = MergeConfigs(RuntimeFlags, f) /\ stale[f] <= CacheTTL + FetchTimeout

AnsweredLately == \A g \in Getter : getter[g].pc = "done" => MergedLately(getter[g].body)

ConfigIInv == ConfigTypeOK /\ StaleBounds /\ CachedLately /\ FetchedLately /\ AnsweredLately

(* Before the first request nothing is cached and nothing was stated.      *)
LEMMA ConfigInitial == ConfigInit => ConfigIInv
<1> SUFFICES ASSUME ConfigInit PROVE ConfigIInv
  OBVIOUS
<1> USE ConfigAssumption DEF ConfigInit
<1>1. flags \in Sidecars
  <2>1. \E f \in Sidecars : "terminal" \in DOMAIN f
    BY Zenon DEF Sidecars
  <2> QED
    BY <2>1, Zenon
<1>2. ConfigTypeOK
  BY <1>1 DEF ConfigTypeOK, Empty, Rest, Documents, Answers, Ancient
<1>3. StaleBounds /\ CachedLately /\ FetchedLately /\ AnsweredLately
  BY <1>1 DEF StaleBounds, CachedLately, FetchedLately, AnsweredLately, Empty, Rest, Ancient
<1> QED
  BY <1>2, <1>3, Zenon DEF ConfigIInv

(* A reply that is as AnsweredLately says, to one request. *)
LEMMA RepliesKeep ==
    ASSUME ConfigIInv, NEW g \in Getter, NEW b \in Answers, Reply(g, b), MergedLately(b),
           UNCHANGED <<laneActive, flags, stale>>
    PROVE  /\ getter' \in [Getter -> [pc : {"rest", "wait", "fetch", "read", "done"}, age : Nat,
                              body : Answers, fetched : Documents]]
           /\ StaleBounds' /\ FetchedLately' /\ AnsweredLately'
<1> USE DEF ConfigIInv, ConfigTypeOK, Reply
<1>1. getter' \in [Getter -> [pc : {"rest", "wait", "fetch", "read", "done"}, age : Nat,
                              body : Answers, fetched : Documents]]
  BY Zenon 
<1>2. StaleBounds' /\ FetchedLately'
  BY ZenonT(60) DEF StaleBounds, FetchedLately
<1>3. AnsweredLately'
  BY ZenonT(60) DEF AnsweredLately, MergedLately
<1> QED
  BY <1>1, <1>2, <1>3, Zenon

(* One step per await of the handler, of the sidecar and of time.          *)
LEMMA ConfigStep == ConfigIInv /\ [ConfigNext]_configVars => ConfigIInv'
<1> SUFFICES ASSUME ConfigIInv, [ConfigNext]_configVars PROVE ConfigIInv'
  OBVIOUS
<1> USE ConfigAssumption DEF ConfigIInv
<1>f. \A b \in {LocalFlags, RuntimeFlags} : b \in Answers /\ MergedLately(b)
  BY Zenon DEF Answers, MergedLately
<1>1. ASSUME NEW g \in Getter, AskConfig(g) PROVE ConfigIInv'
  <2>1. CASE Reply(g, LocalFlags)
    BY <1>1, <1>f, <2>1, RepliesKeep, Zenon DEF AskConfig, ConfigTypeOK, CachedLately
  <2>2. CASE getter' = [getter EXCEPT ![g] = [Rest EXCEPT !.pc = "wait"]]
    BY <1>1, <2>2 DEF AskConfig, ConfigTypeOK, CachedLately, StaleBounds, FetchedLately,
                      AnsweredLately, MergedLately, Rest, Documents, Answers
  <2> QED
    BY <1>1, <2>1, <2>2, Zenon DEF AskConfig
<1>2. ASSUME NEW g \in Getter, ForwardFails(g) PROVE ConfigIInv'
  BY <1>2, <1>f, RepliesKeep, Zenon DEF ForwardFails, ConfigTypeOK, CachedLately
<1>3. ASSUME NEW g \in Getter, LaneOff(g) PROVE ConfigIInv'
  BY <1>3, <1>f, RepliesKeep, Zenon DEF LaneOff, ConfigTypeOK, CachedLately
<1>4. ASSUME NEW g \in Getter, CacheHit(g) PROVE ConfigIInv'
  <2>1. stored.payload \in Sidecars /\ stale[stored.payload] <= CacheTTL + FetchTimeout
    BY <1>4 DEF CacheHit, CachedLately, ConfigTypeOK
  <2>2. MergeConfigs(RuntimeFlags, stored.payload) \in Answers
    BY <2>1, Zenon DEF Answers
  <2>3. MergedLately(MergeConfigs(RuntimeFlags, stored.payload))
    BY <2>1, Zenon DEF MergedLately
  <2> QED
    BY <1>4, <2>2, <2>3, RepliesKeep, Zenon DEF CacheHit, ConfigTypeOK, CachedLately
<1>5. ASSUME NEW g \in Getter, CacheMiss(g) PROVE ConfigIInv'
  BY <1>5, Zenon DEF CacheMiss, ConfigTypeOK, CachedLately, StaleBounds, FetchedLately, AnsweredLately,
              MergedLately
<1>6. ASSUME NEW g \in Getter, SidecarAnswers(g) PROVE ConfigIInv'
  <2>1. ConfigTypeOK' /\ StaleBounds' /\ CachedLately'
    BY <1>6, Zenon DEF SidecarAnswers, ConfigTypeOK, StaleBounds, CachedLately, Documents
  <2>2. FetchedLately'
    BY <1>6 DEF SidecarAnswers, ConfigTypeOK, StaleBounds, FetchedLately
  <2>3. AnsweredLately'
    BY <1>6, Zenon DEF SidecarAnswers, ConfigTypeOK, AnsweredLately, MergedLately
  <2> QED
    BY <2>1, <2>2, <2>3, Zenon
<1>7. ASSUME NEW g \in Getter, SidecarRead(g) PROVE ConfigIInv'
  <2>1. /\ getter[g].fetched \in Sidecars
        /\ stale[getter[g].fetched] <= FetchTimeout
        /\ stale[getter[g].fetched] <= CacheTTL + FetchTimeout
    BY <1>7 DEF SidecarRead, FetchedLately, ConfigTypeOK
  <2>2. MergeConfigs(RuntimeFlags, getter[g].fetched) \in Answers
    BY <2>1, Zenon DEF Answers
  <2>3. MergedLately(MergeConfigs(RuntimeFlags, getter[g].fetched))
    BY <2>1, Zenon DEF MergedLately
  <2>4. stored' \in [filled : BOOLEAN, age : Nat, payload : Documents]
    BY <1>7, <2>1, Zenon DEF SidecarRead, Documents
  <2>5. CachedLately'
    BY <1>7, <2>1 DEF SidecarRead, CachedLately
  <2> QED
    BY <1>7, <2>2, <2>3, <2>4, <2>5, RepliesKeep, Zenon DEF SidecarRead, ConfigTypeOK
<1>8. ASSUME NEW g \in Getter, FetchFails(g) PROVE ConfigIInv'
  BY <1>8, <1>f, RepliesKeep, Zenon DEF FetchFails, ConfigTypeOK, CachedLately
<1>9. ASSUME NEW g \in Getter, ConfigDone(g) PROVE ConfigIInv'
  BY <1>9 DEF ConfigDone, ConfigTypeOK, CachedLately, StaleBounds, FetchedLately,
              AnsweredLately, MergedLately, Rest, Documents, Answers
<1>10. CASE SidecarChanges
  <2>1. \A f \in Sidecars : stale'[f] <= stale[f]
    BY <1>10 DEF SidecarChanges, ConfigTypeOK
  <2>2. ConfigTypeOK'
    BY <1>10, Zenon DEF SidecarChanges, ConfigTypeOK
  <2>3. StaleBounds'
    BY <1>10, <2>1, <2>2, Zenon DEF SidecarChanges, ConfigTypeOK, StaleBounds, Ancient
  <2>4. CachedLately' /\ FetchedLately'
    BY <1>10, <2>1, <2>2 DEF SidecarChanges, ConfigTypeOK, CachedLately, FetchedLately
  <2>5. AnsweredLately'
    BY <1>10, <2>1, <2>2 DEF SidecarChanges, ConfigTypeOK, AnsweredLately, MergedLately
  <2> QED
    BY <2>2, <2>3, <2>4, <2>5, Zenon
<1>11. CASE ConfigTick
  <2>1. \A f \in Sidecars : /\ stale'[f] \in Nat /\ stale'[f] <= Ancient
                            /\ stale'[f] <= stale[f] + 1
    BY <1>11 DEF ConfigTick, ConfigTypeOK, StaleBounds, Later, Ancient
  <2>2. ConfigTypeOK'
    BY <1>11, <2>1 DEF ConfigTick, ConfigTypeOK, Later, Ancient
  <2>3. StaleBounds'
    BY <1>11, <2>1, Zenon DEF ConfigTick, ConfigTypeOK, StaleBounds
  <2>4. CachedLately'
    BY <1>11, <2>1 DEF ConfigTick, ConfigTypeOK, CachedLately, Later, Ancient
  <2>5. FetchedLately'
    BY <1>11, <2>1 DEF ConfigTick, ConfigTypeOK, FetchedLately
  <2>6. AnsweredLately'
    BY <1>11, ZenonT(60) DEF ConfigTick, ConfigTypeOK, AnsweredLately
  <2> QED
    BY <2>2, <2>3, <2>4, <2>5, <2>6, Zenon
<1>12. CASE UNCHANGED configVars
  BY <1>12, Zenon DEF configVars, ConfigTypeOK, CachedLately, StaleBounds, FetchedLately, AnsweredLately,
               MergedLately
<1> QED
  BY <1>1, <1>2, <1>3, <1>4, <1>5, <1>6, <1>7, <1>8, <1>9, <1>10, <1>11, <1>12, Zenon DEF ConfigNext

(* GET /api/config (api.rs:245-256, desktop.rs:468-475), for any number of *)
(* requests and any lifetime of the cache: every answer is one of the      *)
(* fallbacks, or the runtime's flags with features added that the sidecar  *)
(* stated no longer ago than the lifetime and a fetch.                     *)
THEOREM ConfigTheorem == ConfigSpec => []ConfigSound
<1>1. ConfigIInv => ConfigSound
  <2> SUFFICES ASSUME ConfigIInv, NEW g \in Getter, getter[g].pc = "done",
                      getter[g].body \notin {LocalFlags, RuntimeFlags}
               PROVE  /\ getter[g].body["terminal"] = "runtime"
                      /\ \E f \in Sidecars :
                           /\ DOMAIN getter[g].body = DOMAIN f \cup DOMAIN RuntimeFlags
                           /\ stale[f] <= CacheTTL + FetchTimeout
    BY Zenon DEF ConfigSound
  <2>1. PICK f \in Sidecars : /\ getter[g].body = MergeConfigs(RuntimeFlags, f)
                              /\ stale[f] <= CacheTTL + FetchTimeout
    BY Zenon DEF ConfigIInv, AnsweredLately, MergedLately
  <2>2. DOMAIN getter[g].body = DOMAIN f \cup DOMAIN RuntimeFlags
    BY <2>1, Zenon DEF MergeConfigs
  <2>3. getter[g].body["terminal"] = "runtime"
    BY <2>1, Zenon DEF MergeConfigs, RuntimeFlags
  <2> QED
    BY <2>1, <2>2, <2>3, Zenon
<1> QED
  BY <1>1, ConfigInitial, ConfigStep, PTL DEF ConfigSpec
-----------------------------------------------------------------------------
(* The relays' refresh of the idle clock *)

Before == {"auth", "resolve", "pty", "connect"}

(* The broker's pumps, and the ages that they and the reaper go by. *)
RelayTypeOK ==
    /\ lane \in Lanes
    /\ DOMAIN phase = 1..2
    /\ DOMAIN pump = 1..2 /\ DOMAIN pump[1] = Dir
    /\ \A d \in Dir :
         /\ DOMAIN pump[1][d] = {"pc", "frame", "age"}
         /\ pump[1][d].age \in NoAge..MaxAge
         /\ pump[1][d].pc \in {"touch", "send"} => pump[1][d].age # NoAge
    /\ last \in [Dir -> NoAge..MaxAge]
    /\ used \in 0..MaxAge /\ fresh \in 0..MaxAge

(* Nothing has been relayed before the pumps run. *)
NothingYet ==
    phase[1] \in Before => \A d \in Dir : last[d] = NoAge /\ pump[1][d].pc = "off"

(* A write of the idle clock is no older than it may take.                 *)
TouchInTime ==
    \A d \in Dir : pump[1][d].pc = "touch" => pump[1][d].age <= TouchDelay

(* While the throttle of a pump holds, the idle clock is that young, give  *)
(* or take the time of a write: the writes of the two pumps may be applied *)
(* out of order.                                                           *)
ThrottleTrue ==
    \A d \in Dir :
        pump[1][d].pc \notin {"touch", "off"} /\ last[d] # NoAge /\ last[d] < lane.interval
            => used <= last[d] + TouchDelay

(* So it is for a frame under way, and for the youngest that was relayed.  *)
UnderWayTouched ==
    \A d \in Dir :
        pump[1][d].pc = "send" => used <= pump[1][d].age + lane.interval + TouchDelay

RelayedTouched == used <= fresh + lane.interval + TouchDelay

Touching == ThrottleTrue /\ UnderWayTouched /\ RelayedTouched

RelayIInv == RelayTypeOK /\ NothingYet /\ TouchInTime /\ (lane.interval > 0 => Touching)

(* Before the handshake the idle clock has run out as far as it counts.    *)
LEMMA RelayInitial == RelayInit => RelayIInv
<1> SUFFICES ASSUME RelayInit PROVE RelayIInv
  OBVIOUS
<1> USE RelayAssumption DEF RelayInit
<1>1. \A d \in Dir : pump[1][d] = Idle /\ last[d] = NoAge
  OBVIOUS
<1>2. RelayTypeOK
  BY <1>1 DEF RelayTypeOK, Idle, NoAge, MaxAge
<1>3. NothingYet /\ TouchInTime
  BY <1>1 DEF NothingYet, TouchInTime, Idle
<1>4. ThrottleTrue /\ UnderWayTouched
  BY <1>1 DEF ThrottleTrue, UnderWayTouched, Idle
<1>5. RelayedTouched
  BY DEF RelayedTouched, MaxAge
<1> QED
  BY <1>2, <1>3, <1>4, <1>5, Zenon DEF RelayIInv, Touching

(* Steps that change neither the broker's pumps nor the ages, and steps    *)
(* that end the broker's pumps.                                            *)
LEMMA RelayQuiet ==
    ASSUME RelayIInv, UNCHANGED <<lane, last, used, fresh>>,
           DOMAIN phase' = 1..2, phase'[1] \in Before => phase[1] \in Before,
           DOMAIN pump' = 1..2,
           \/ pump'[1] = pump[1]
           \/ pump'[1] = [d \in Dir |-> Idle]
    PROVE  RelayIInv'
<1> USE DEF RelayIInv
<1>1. CASE pump'[1] = pump[1]
  BY <1>1, Zenon DEF RelayTypeOK, NothingYet, TouchInTime, Touching, ThrottleTrue, UnderWayTouched, RelayedTouched
<1>2. CASE pump'[1] = [d \in Dir |-> Idle]
  <2>1. \A d \in Dir : pump'[1][d] = Idle
    BY <1>2, Zenon
  <2>2. RelayTypeOK'
    BY RelayAssumption, <1>2, <2>1 DEF RelayTypeOK, Idle, NoAge, MaxAge
  <2>3. NothingYet' /\ TouchInTime'
    BY <2>1 DEF NothingYet, TouchInTime, Idle
  <2>4. ThrottleTrue' /\ UnderWayTouched'
    BY <2>1 DEF ThrottleTrue, UnderWayTouched, Idle
  <2> QED
    BY <2>2, <2>3, <2>4, Zenon DEF Touching, RelayedTouched
<1> QED
  BY <1>1, <1>2, Zenon

(* Every step of the broker, the runtime, both ends, the reaper and time   *)
(* keeps what the throttle goes by, if no write of the idle clock fails.   *)
LEMMA RelayStep == ASSUME ~ TouchFaults PROVE RelayIInv /\ [RelayNext]_relayVars => RelayIInv'
<1> SUFFICES ASSUME RelayIInv, [RelayNext]_relayVars PROVE RelayIInv'
  OBVIOUS
<1> USE RelayAssumption
<1>t. RelayTypeOK /\ NothingYet /\ TouchInTime /\ (lane.interval > 0 => Touching)
  BY Zenon DEF RelayIInv
<1>l. lane.interval \in Nat /\ lane.hops \in {1, 2}
  BY <1>t, Zenon DEF RelayTypeOK
<1>1. CASE Authenticate
  BY <1>1, <1>t, RelayQuiet DEF Authenticate, CloseClient, RelayTypeOK, Before
<1>2. CASE ResolveAndKey
  <2>1. CASE CloseClient(1011) /\ UNCHANGED <<used, pod>>
    BY <1>2, <2>1, <1>t, RelayQuiet, ZenonT(60) DEF ResolveAndKey, CloseClient, RelayTypeOK, Before
  <2>2. CASE used' = IF lane.interval > 0 THEN 0 ELSE MaxAge
    <3>1. \A d \in Dir : last[d] = NoAge /\ pump[1][d].pc = "off"
      BY <1>2, <1>t, Zenon DEF ResolveAndKey, NothingYet, Before
    <3>2. RelayTypeOK'
      BY <1>2, <1>t, <2>2 DEF ResolveAndKey, CloseClient, RelayTypeOK, MaxAge
    <3>3. NothingYet' /\ TouchInTime' /\ ThrottleTrue' /\ UnderWayTouched'
      BY <1>2, <3>1, ZenonT(60) DEF ResolveAndKey, NothingYet, TouchInTime, ThrottleTrue, UnderWayTouched
    <3>4. lane.interval > 0 => RelayedTouched'
      BY <1>2, <1>t, <1>l, <2>2 DEF ResolveAndKey, RelayedTouched, RelayTypeOK, MaxAge
    <3> QED
      BY <1>2, <3>2, <3>3, <3>4, ZenonT(60) DEF RelayIInv, Touching, ResolveAndKey
  <2> QED
    BY <1>2, <2>1, <2>2, ZenonT(60) DEF ResolveAndKey
<1>3. CASE EnsurePty
  BY <1>3, <1>t, RelayQuiet, Zenon DEF EnsurePty, RelayTypeOK, Before
<1>4. CASE Connect
  <2>1. CASE CloseClient(1011) /\ UNCHANGED pump
    BY <1>4, <2>1, <1>t, RelayQuiet, ZenonT(60) DEF Connect, CloseClient, RelayTypeOK, Before
  <2>2. CASE /\ phase' = <<"relay", IF lane.hops = 2 THEN "connect" ELSE "none">>
             /\ pump' = [pump EXCEPT ![1] = [d \in Dir |-> Ready]]
    <3>1. \A d \in Dir : last[d] = NoAge
      BY <1>4, <1>t, ZenonT(60) DEF Connect, NothingYet, Before
    <3>2. \A d \in Dir : pump'[1][d] = Ready
      BY <1>t, <2>2 DEF RelayTypeOK
    <3>3. RelayTypeOK'
      BY <1>4, <1>t, <2>2, <3>2 DEF Connect, RelayTypeOK, Ready, Idle, NoAge, MaxAge
    <3>4. NothingYet' /\ TouchInTime' /\ ThrottleTrue' /\ UnderWayTouched'
      BY <1>4, <2>2, <3>1, <3>2
         DEF Connect, NothingYet, TouchInTime, ThrottleTrue, UnderWayTouched, Ready, Idle, Before
    <3> QED
      BY <1>4, <1>t, <3>3, <3>4, ZenonT(60) DEF RelayIInv, Touching, Connect, RelayedTouched
  <2> QED
    BY <1>4, <2>1, <2>2, ZenonT(60) DEF Connect
<1>5. CASE ConnectSidecar
  BY <1>5, <1>t, RelayQuiet DEF ConnectSidecar, RelayTypeOK
<1>6. ASSUME NEW h \in Hop, NEW d \in Dir, Take(h, d) PROVE RelayIInv'
  <2>1. CASE h = 2
    BY <1>6, <1>t, <2>1, RelayQuiet DEF Take, RelayTypeOK
  <2>2. CASE h = 1
    <3>1. pump[1][d].pc = "next" /\ UNCHANGED <<lane, phase, used, fresh>>
      BY <1>6, <2>2, Zenon DEF Take
    <3>2. /\ DOMAIN pump'[1][d] = {"pc", "frame", "age"}
          /\ pump'[1][d].age = 0
          /\ pump'[1][d].pc = IF Due(d) THEN "touch" ELSE "send"
          /\ \A e \in Dir \ {d} : pump'[1][e] = pump[1][e]
          /\ DOMAIN pump' = 1..2 /\ DOMAIN pump'[1] = Dir
      BY <1>6, <2>2, <1>t DEF Take, RelayTypeOK
    <3>3. last' = IF Due(d) THEN [last EXCEPT ![d] = 0] ELSE last
      BY <1>6, <2>2, Zenon DEF Take
    <3>4. RelayTypeOK'
      BY <1>t, <3>1, <3>2, <3>3 DEF RelayTypeOK, NoAge, MaxAge
    <3>5. NothingYet' /\ TouchInTime'
      BY <1>t, <3>1, <3>2 DEF RelayTypeOK, NothingYet, TouchInTime
    <3>6. lane.interval > 0 => ThrottleTrue' /\ UnderWayTouched' /\ RelayedTouched'
      <4> SUFFICES ASSUME lane.interval > 0
                   PROVE  ThrottleTrue' /\ UnderWayTouched' /\ RelayedTouched'
        OBVIOUS
      <4>1. ~ Due(d) => used <= lane.interval + TouchDelay
        BY <1>t, <1>l, <3>1 DEF Touching, ThrottleTrue, Due, RelayTypeOK, NoAge, MaxAge
      <4>2. ThrottleTrue'
        BY <1>t, <1>l, <3>1, <3>2, <3>3, Zenon DEF Touching, ThrottleTrue, RelayTypeOK, NoAge, MaxAge
      <4>3. UnderWayTouched'
        BY <1>t, <1>l, <3>1, <3>2, <4>1 DEF Touching, UnderWayTouched, RelayTypeOK
      <4>4. RelayedTouched'
        BY <1>t, <3>1, Zenon DEF Touching, RelayedTouched
      <4> QED
        BY <4>2, <4>3, <4>4, Zenon
    <3> QED
      BY <3>1, <3>4, <3>5, <3>6, Zenon DEF RelayIInv, Touching
  <2> QED
    BY <1>l, <2>1, <2>2 DEF Hop
<1>7. ASSUME NEW h \in Hop, NEW d \in Dir, Forward(h, d) PROVE RelayIInv'
  <2>1. CASE h = 2
    BY <1>7, <1>t, <2>1, RelayQuiet DEF Forward, End, RelayTypeOK
  <2>2. CASE h = 1 /\ End(h, d) /\ UNCHANGED fresh
    BY <1>7, <1>t, <2>2, RelayQuiet DEF Forward, End, RelayTypeOK, Before
  <2>3. CASE /\ h = 1
             /\ pump' = [pump EXCEPT ![h][d] = [Ready EXCEPT !.pc = After(pump[h][d].frame)]]
             /\ fresh' = IF h = 1 /\ pump[h][d].age < fresh THEN pump[h][d].age ELSE fresh
             /\ UNCHANGED phase
    <3>1. pump[1][d].pc = "send" /\ UNCHANGED <<lane, phase, used, last>>
      BY <1>7, <2>3, Zenon DEF Forward
    <3>2. /\ DOMAIN pump'[1][d] = {"pc", "frame", "age"}
          /\ pump'[1][d].age = NoAge
          /\ pump'[1][d].pc \in {"next", "ended"}
          /\ \A e \in Dir \ {d} : pump'[1][e] = pump[1][e]
          /\ DOMAIN pump' = 1..2 /\ DOMAIN pump'[1] = Dir
      BY <1>t, <2>3 DEF RelayTypeOK, Ready, Idle, After
    <3>3. fresh' = fresh \/ (fresh' = pump[1][d].age /\ fresh' < fresh)
      BY <2>3, Zenon
    <3>4. RelayTypeOK' /\ TouchInTime' /\ NothingYet'
      BY <1>t, <3>1, <3>2, <3>3 DEF RelayTypeOK, NothingYet, TouchInTime, NoAge, MaxAge
    <3>5. lane.interval > 0 => Touching'
      <4> SUFFICES ASSUME lane.interval > 0 PROVE Touching'
        OBVIOUS
      <4>1. ThrottleTrue'
        BY <1>t, <3>1, <3>2, Zenon DEF Touching, ThrottleTrue, RelayTypeOK
      <4>2. UnderWayTouched'
        BY <1>t, <3>1, <3>2, Zenon DEF Touching, UnderWayTouched, RelayTypeOK
      <4>3. RelayedTouched'
        BY <1>t, <3>1, <3>3, Zenon DEF Touching, UnderWayTouched, RelayedTouched, RelayTypeOK
      <4> QED
        BY <4>1, <4>2, <4>3, Zenon DEF Touching
    <3> QED
      BY <3>1, <3>4, <3>5, Zenon DEF RelayIInv
  <2> QED
    BY <1>7, <1>l, <2>1, <2>2, <2>3 DEF Hop, Forward
<1>8. ASSUME NEW h \in Hop, NEW d \in Dir, EndOfStream(h, d) PROVE RelayIInv'
  <2>1. CASE h = 2
    BY <1>8, <1>t, <2>1, RelayQuiet DEF EndOfStream, End, RelayTypeOK
  <2>2. CASE h = 1
    BY <1>8, <1>t, <2>2, RelayQuiet DEF EndOfStream, End, RelayTypeOK, Before
  <2> QED
    BY <1>l, <2>1, <2>2 DEF Hop
<1>9. ASSUME NEW d \in Dir, Touched(d) PROVE RelayIInv'
  <2>1. /\ pump[1][d].pc = "touch" /\ used' = pump[1][d].age
        /\ UNCHANGED <<lane, phase, last, fresh>>
    BY <1>9, Zenon DEF Touched
  <2>2. /\ DOMAIN pump'[1][d] = {"pc", "frame", "age"}
        /\ pump'[1][d].age = pump[1][d].age
        /\ pump'[1][d].pc = "send"
        /\ \A e \in Dir \ {d} : pump'[1][e] = pump[1][e]
        /\ DOMAIN pump' = 1..2 /\ DOMAIN pump'[1] = Dir
    BY <1>9, <1>t DEF Touched, RelayTypeOK
  <2>3. used' \in 0..MaxAge /\ used' <= TouchDelay
    BY <1>t, <2>1 DEF RelayTypeOK, TouchInTime, NoAge, MaxAge
  <2>4. RelayTypeOK' /\ TouchInTime' /\ NothingYet'
    BY <1>t, <2>1, <2>2, <2>3, ZenonT(60) DEF RelayTypeOK, NothingYet, TouchInTime
  <2>5. lane.interval > 0 => Touching'
    <3> SUFFICES ASSUME lane.interval > 0 PROVE Touching'
      OBVIOUS
    <3>1. ThrottleTrue'
      BY <1>t, <1>l, <2>1, <2>2, <2>3 DEF Touching, ThrottleTrue, RelayTypeOK, NoAge, MaxAge
    <3>2. UnderWayTouched'
      BY <1>t, <1>l, <2>1, <2>2, <2>3 DEF Touching, UnderWayTouched, RelayTypeOK, NoAge, MaxAge
    <3>3. RelayedTouched'
      BY <1>t, <1>l, <2>1, <2>3 DEF RelayedTouched, RelayTypeOK, MaxAge
    <3> QED
      BY <3>1, <3>2, <3>3, Zenon DEF Touching
  <2> QED
    BY <2>1, <2>4, <2>5, Zenon DEF RelayIInv
<1>10. ASSUME NEW end \in Ends, Speaks(end[1], end[2]) PROVE RelayIInv'
  BY <1>10, <1>t, RelayQuiet, Zenon DEF Speaks, RelayTypeOK
<1>11. CASE Hears(0, "down") \/ Hears(Far, "up") \/ List
  BY <1>11, <1>t, RelayQuiet, Zenon DEF Hears, List, RelayTypeOK
<1>12. CASE Park
  BY <1>12, <1>t, RelayQuiet DEF Park, RelayTypeOK
<1>13. CASE RelayTick
  <2>1. UNCHANGED <<lane, phase>> /\ lane.interval > 0
    BY <1>13, Zenon DEF RelayTick
  <2>2. /\ DOMAIN pump' = 1..2 /\ DOMAIN pump'[1] = Dir
        /\ \A d \in Dir : /\ DOMAIN pump'[1][d] = {"pc", "frame", "age"}
                          /\ pump'[1][d].pc = pump[1][d].pc
                          /\ pump'[1][d].age = Older(pump[1][d].age)
    BY <1>13, <1>t DEF RelayTick, RelayTypeOK
  <2>3. /\ used' = Older(used) /\ fresh' = Older(fresh)
        /\ DOMAIN last' = Dir
        /\ \A d \in Dir : last'[d] = IF last[d] >= lane.interval THEN last[d] ELSE Older(last[d])
    BY <1>13, Zenon DEF RelayTick
  <2>4. \A a \in NoAge..MaxAge : /\ Older(a) \in NoAge..MaxAge
                                 /\ a = NoAge <=> Older(a) = NoAge
                                 /\ Older(a) = a + 1 \/ (Older(a) = a /\ a \in {NoAge, MaxAge})
    BY DEF Older, NoAge, MaxAge
  <2>5. RelayTypeOK'
    <3>1. used' \in 0..MaxAge /\ fresh' \in 0..MaxAge
      BY <1>t, <2>3 DEF RelayTypeOK, Older, NoAge, MaxAge
    <3>2. last' \in [Dir -> NoAge..MaxAge]
      <4>1. \A d \in Dir : last'[d] \in NoAge..MaxAge
        BY <1>t, <2>3, <2>4, ZenonT(60) DEF RelayTypeOK
      <4> QED
        BY <1>13, <4>1, Zenon DEF RelayTick
    <3> QED
      BY <1>t, <2>1, <2>2, <2>4, <3>1, <3>2, ZenonT(60) DEF RelayTypeOK
  <2>6. NothingYet'
    BY <1>t, <2>1, <2>2, <2>3, <2>4 DEF NothingYet, RelayTypeOK
  <2>7. TouchInTime'
    BY <1>13, <1>t, <2>2, <2>4 DEF RelayTick, TouchInTime, RelayTypeOK, NoAge, MaxAge
  <2>8. ThrottleTrue'
    <3> SUFFICES ASSUME NEW d \in Dir, pump'[1][d].pc \notin {"touch", "off"},
                        last'[d] # NoAge, last'[d] < lane.interval
                 PROVE  used' <= last'[d] + TouchDelay
      BY <2>1, Zenon DEF ThrottleTrue
    <3>1. last[d] \in NoAge..MaxAge /\ last'[d] = Older(last[d])
      BY <1>t, <2>1, <2>3 DEF RelayTypeOK
    <3>2. last[d] # NoAge /\ last[d] < lane.interval
      BY <1>l, <2>3, <2>4, <3>1 DEF NoAge, MaxAge
    <3>3. used <= last[d] + TouchDelay
      BY <1>t, <2>1, <2>2, <3>2, Zenon DEF Touching, ThrottleTrue
    <3> QED
      BY <1>t, <2>3, <2>4, <3>1, <3>2, <3>3 DEF RelayTypeOK, NoAge, MaxAge
  <2>9. UnderWayTouched'
    <3> SUFFICES ASSUME NEW d \in Dir, pump'[1][d].pc = "send"
                 PROVE  used' <= pump'[1][d].age + lane'.interval + TouchDelay
      BY Zenon DEF UnderWayTouched
    <3>1. used <= pump[1][d].age + lane.interval + TouchDelay /\ pump[1][d].age # NoAge
      BY <1>t, <2>1, <2>2, Zenon DEF Touching, UnderWayTouched, RelayTypeOK
    <3> QED
      BY <1>t, <1>l, <2>1, <2>2, <2>3, <2>4, <3>1 DEF RelayTypeOK, NoAge, MaxAge
  <2>10. RelayedTouched'
    BY <1>t, <1>l, <2>1, <2>3, <2>4, SMTT(60) DEF Touching, RelayedTouched, RelayTypeOK, NoAge, MaxAge
  <2> QED
    BY <2>5, <2>6, <2>7, <2>8, <2>9, <2>10, Zenon DEF RelayIInv, Touching
<1>14. CASE UNCHANGED relayVars
  BY <1>14, <1>t, RelayQuiet, Zenon DEF relayVars, RelayTypeOK
<1> QED
  BY <1>1, <1>2, <1>3, <1>4, <1>5, <1>6, <1>7, <1>8, <1>9, <1>10, <1>11, <1>12, <1>13, <1>14, Zenon
     DEF RelayNext, Pump

(* SessionTouch (terminal.rs:396-398), for any throttle and any delay of   *)
(* the writes, as long as they succeed: a Sandbox is listed as idle only   *)
(* if no frame was relayed within the park window, less the throttle's     *)
(* interval and the time of a write.                                       *)
THEOREM QuietTheorem == ASSUME ~ TouchFaults PROVE RelaySpec => ListsOnlyQuiet
<1>1. RelayIInv /\ [RelayNext]_relayVars
        => [listed # "idle" /\ listed' = "idle" /\ lane.interval > 0
              => fresh > ParkIdle - lane.interval - TouchDelay]_relayVars
  <2> SUFFICES ASSUME RelayIInv, RelayNext, listed # "idle", listed' = "idle", lane.interval > 0
               PROVE  fresh > ParkIdle - lane.interval - TouchDelay
    BY Zenon DEF relayVars
  <2>1. List
    BY Zenon DEF RelayNext, Authenticate, ResolveAndKey, EnsurePty, Connect, ConnectSidecar, Pump, Take,
           Forward, EndOfStream, Touched, Speaks, Hears, Park, RelayTick
  <2>2. used > ParkIdle
    BY <2>1, Zenon DEF List
  <2> QED
    BY <2>2, RelayAssumption DEF RelayIInv, RelayTypeOK, Touching, RelayedTouched, MaxAge
<1>2. RelayIInv /\ [RelayNext]_relayVars => RelayIInv'
  BY RelayStep, Zenon
<1> QED
  BY <1>1, <1>2, RelayInitial, PTL DEF RelaySpec, ListsOnlyQuiet
-----------------------------------------------------------------------------
(* The identity of a request *)

(* What a caller states in a header or in the query is read the same by    *)
(* all three routes, for any pair of requests a caller may send.           *)
LEMMA SameReading ==
    ASSUME NEW r \in ByHeader, NEW q \in ByHeader \cup ByQuery,
           OrElse(q.query.user, q.header.user) = r.header.user,
           OrElse(q.query.chat, q.header.session) = r.header.session,
           OrElse(q.query.persistence, q.header.persistence) = r.header.persistence,
           Stated(r.header.user)
    PROVE  /\ ProfileOf(r.header.persistence) = DefaultProfile
                => DesktopIdentity(q) = ForwardIdentity(r)
           /\ Stated(r.header.session) => TerminalIdentity(q) = ForwardIdentity(r)
<1> USE IdentityAssumption
<1>1. q.query.session = Absent
  BY DEF ByHeader, ByQuery, Silent
<1>2. OrElse(q.query.user, OrStated(q.header.user, Blank)) = r.header.user
  <2>1. CASE q \in ByHeader
    BY <2>1 DEF ByHeader, Silent, OrElse, OrStated, Stated
  <2>2. CASE q \in ByQuery
    BY <2>2 DEF ByQuery, OrElse, OrStated, Stated
  <2> QED
    BY <2>1, <2>2, Zenon
<1>3. ForwardIdentity(r) = [user |-> r.header.user,
                            session |-> OrStated(r.header.session, r.header.user),
                            profile |-> ProfileOf(r.header.persistence)]
  BY Zenon DEF ForwardIdentity
<1>4. DesktopIdentity(q) = [user |-> r.header.user,
                            session |-> OrStated(r.header.session, r.header.user),
                            profile |-> DefaultProfile]
  <2>1. OrElse(q.query.session, OrElse(q.query.chat, q.header.session)) = r.header.session
    BY <1>1, Zenon DEF OrElse
  <2> QED
    BY <1>2, <2>1, Zenon DEF DesktopIdentity
<1>5. ASSUME Stated(r.header.session)
      PROVE  TerminalIdentity(q) = [user |-> r.header.user, session |-> r.header.session,
                                    profile |-> ProfileOf(r.header.persistence)]
  <2>1. OrElse(q.query.session, OrElse(q.query.chat, OrStated(q.header.session, q.path)))
          = r.header.session
    <3>1. CASE q.query.chat = Absent
      BY <1>1, <1>5, <3>1, Zenon DEF OrElse, OrStated
    <3>2. CASE q.query.chat # Absent
      BY <1>1, <3>2, Zenon DEF OrElse
    <3> QED
      BY <3>1, <3>2, Zenon
  <2> QED
    BY <1>2, <1>5, <2>1, Zenon DEF TerminalIdentity
<1>6. Stated(r.header.session) => OrStated(r.header.session, r.header.user) = r.header.session
  BY Zenon DEF OrStated
<1> QED
  BY <1>3, <1>4, <1>5, <1>6, Zenon

(* One chat, one sandbox (desktop.rs:144-150), for any names of users and  *)
(* chats and either default profile: the proxy, the desktop relays and the *)
(* terminal relay send a caller that is named the same to the same Sandbox.*)
THEOREM SameSandboxTheorem == IdentityInit /\ [][IdentityNext]_asked => []SameSandbox
<1> DEFINE Asked == asked = << >> \/ \E r \in ByHeader, q \in ByHeader \cup ByQuery : asked = <<r, q>>
<1>1. IdentityInit => Asked
  BY Zenon DEF IdentityInit
<1>2. Asked /\ [IdentityNext]_asked => Asked'
  BY Zenon DEF IdentityNext, Call, Return
<1>3. Asked => SameSandbox
  <2> SUFFICES ASSUME NEW r \in ByHeader, NEW q \in ByHeader \cup ByQuery, asked = <<r, q>>
               PROVE  SameSandbox
    BY Zenon DEF SameSandbox
  <2>1. asked[1] = r /\ asked[2] = q
    OBVIOUS
  <2> QED
    BY <2>1, SameReading, Zenon DEF SameSandbox
<1> QED
  BY <1>1, <1>2, <1>3, PTL

-----------------------------------------------------------------------------
(* The budgets of a user and of the user's chats *)

(* What the chats asked for since the user's bucket was full.  Without a   *)
(* sum: the i-th request of a chat is there if the chat sent i or more.    *)
Sent == {t \in Chat \X (1..Burst) : t[2] <= sent[t[1]]}

LimitTypeOK == sent \in [Chat -> 0..(Burst + 1)] /\ purse \in 0..UserBurst

Within == \A c \in Chat : sent[c] <= Burst

(* While no chat has sent more than its burst, what is missing from the    *)
(* user's bucket is no more than what they sent.                           *)
LimitIInv ==
    /\ LimitTypeOK
    /\ Within => UserBurst - purse <= Cardinality(Sent) /\ refusal # "user"

(* A multiple of a larger number is larger.                                *)
LEMMA Times == ASSUME NEW a \in Nat, NEW b \in Nat, NEW n \in Nat, a <= b PROVE a * n <= b * n
<1>1. PICK d \in Nat : b = a + d
  <2>1. b - a \in Nat /\ b = a + (b - a)
    OBVIOUS
  <2> QED
    BY <2>1, Zenon
<1>2. (a + d) * n = a * n + d * n /\ a * n \in Nat /\ d * n \in Nat
  OBVIOUS
<1> QED
  BY <1>1, <1>2

(* The bursts, clamped to one (apply in rate_limit.rs).                    *)
LEMMA LimitFacts ==
    /\ Burst \in Nat \ {0} /\ Multiplier \in Nat \ {0}
    /\ UserBurst \in Nat /\ UserBurst = Multiplier * Burst
<1>1. Burst \in Nat \ {0} /\ Multiplier \in Nat \ {0}
  BY RateLimitAssumption DEF Burst, Multiplier, AtLeastOne
<1> QED
  BY <1>1 DEF UserBurst

(* A burst of each of the chats that the multiplier provides for is no     *)
(* larger than the user's.                                                 *)
LEMMA AllBursts ==
    ASSUME IsFiniteSet(Chat), Cardinality(Chat) <= Multiplier
    PROVE  IsFiniteSet(Chat \X (1..Burst)) /\ Cardinality(Chat \X (1..Burst)) <= UserBurst
<1>1. IsFiniteSet(1..Burst) /\ Cardinality(1..Burst) = Burst
  BY FS_Interval, LimitFacts
<1>2. Cardinality(Chat) \in Nat /\ Multiplier \in Nat /\ Burst \in Nat
  BY FS_CardinalityType, LimitFacts, Zenon
<1>3. IsFiniteSet(Chat \X (1..Burst)) /\ Cardinality(Chat \X (1..Burst)) = Cardinality(Chat) * Burst
  BY <1>1, FS_Product, Zenon
<1> QED
  BY <1>2, <1>3, Times, LimitFacts, Zenon

(* What the chats sent can be counted.                                     *)
LEMMA SentFinite ==
    ASSUME IsFiniteSet(Chat), Cardinality(Chat) <= Multiplier
    PROVE  IsFiniteSet(Sent) /\ Cardinality(Sent) \in Nat
<1>1. IsFiniteSet(Chat \X (1..Burst)) /\ Sent \in SUBSET (Chat \X (1..Burst))
  BY AllBursts, Zenon DEF Sent
<1> QED
  BY <1>1, FS_Subset, FS_CardinalityType, Zenon

(* At the start the user's bucket is full.                                 *)
LEMMA LimitInitial ==
    ASSUME IsFiniteSet(Chat), Cardinality(Chat) <= Multiplier, LimitInit
    PROVE  LimitIInv
<1>1. LimitTypeOK
  <2>1. 0 \in 0..(Burst + 1) /\ UserBurst \in 0..UserBurst
    BY LimitFacts
  <2> QED
    BY <2>1, Zenon DEF LimitInit, LimitTypeOK
<1>2. UserBurst - purse = 0 /\ refusal # "user"
  BY LimitFacts DEF LimitInit
<1> QED
  BY <1>1, <1>2, SentFinite DEF LimitIInv

(* A request takes one token of the user's, and is one more of its chat.   *)
LEMMA AskKeeps ==
    ASSUME IsFiniteSet(Chat), Cardinality(Chat) <= Multiplier, LimitIInv, NEW c \in Chat, Ask(c)
    PROVE  LimitIInv'
<1>0. sent \in [Chat -> 0..(Burst + 1)] /\ purse \in 0..UserBurst
  BY Zenon DEF LimitIInv, LimitTypeOK
<1>1. LimitTypeOK'
  <2>1. purse' \in 0..UserBurst
    BY <1>0, LimitFacts DEF Ask
  <2>2. sent' \in [Chat -> 0..(Burst + 1)]
    BY <1>0, LimitFacts DEF Ask, Upto
  <2> QED
    BY <2>1, <2>2, Zenon DEF LimitTypeOK
<1>2. ASSUME Within' PROVE UserBurst - purse' <= Cardinality(Sent)' /\ refusal' # "user"
  <2>0. /\ sent[c] \in 0..Burst /\ sent[c] + 1 <= Burst /\ sent'[c] = sent[c] + 1
        /\ \A d \in Chat \ {c} : sent'[d] = sent[d]
    BY <1>0, <1>2, LimitFacts DEF Ask, Upto, Within
  <2>1. Within
    BY <1>0, <1>2, <2>0, LimitFacts DEF Within
  <2> DEFINE t == <<c, sent[c] + 1>>
  <2>2. t \in Chat \X (1..Burst) /\ t \notin Sent
    BY <1>0, <2>0, LimitFacts DEF Sent
  <2>3. Cardinality(Sent) < UserBurst
    <3>1. /\ IsFiniteSet(Chat \X (1..Burst)) /\ Cardinality(Chat \X (1..Burst)) <= UserBurst
          /\ Sent \in SUBSET (Chat \X (1..Burst)) /\ Sent # Chat \X (1..Burst)
      BY <2>2, AllBursts, Zenon DEF Sent
    <3> HIDE DEF t
    <3>2. Cardinality(Sent) \in Nat /\ Cardinality(Chat \X (1..Burst)) \in Nat /\ UserBurst \in Nat
      BY <3>1, SentFinite, FS_CardinalityType, LimitFacts, Zenon
    <3>3. Cardinality(Sent) <= Cardinality(Chat \X (1..Burst)) /\ Cardinality(Sent) # Cardinality(Chat \X (1..Burst))
      BY <3>1, FS_Subset, Zenon
    <3> QED
      BY <3>1, <3>2, <3>3
  <2>4. purse # 0 /\ UserBurst - purse <= Cardinality(Sent)
    BY <1>0, <2>1, <2>3, SentFinite, LimitFacts DEF LimitIInv
  <2>5. refusal' # "user" /\ purse' = purse - 1
    BY <2>4 DEF Ask
  <2>6. Sent' = Sent \cup {t}
    <3>1. ASSUME NEW d \in Chat, NEW i \in 1..Burst
          PROVE  <<d, i>> \in Sent' <=> <<d, i>> \in Sent \/ <<d, i>> = t
      BY <1>0, <2>0, <3>1 DEF Sent
    <3>2. Sent' \subseteq Chat \X (1..Burst) /\ Sent \cup {t} \subseteq Chat \X (1..Burst)
      BY <2>2, Zenon DEF Sent
    <3> HIDE DEF t
    <3> QED
      BY <3>1, <3>2
  <2> HIDE DEF t
  <2>7. Cardinality(Sent') = Cardinality(Sent) + 1
    BY <2>2, <2>6, SentFinite, FS_AddElement, Zenon
  <2> QED
    BY <1>0, <2>4, <2>5, <2>7, SentFinite, LimitFacts
<1> QED
  BY <1>1, <1>2, Zenon DEF LimitIInv

(* A second takes no token; once the user's bucket is full the count of    *)
(* what the chats sent starts again.                                       *)
LEMMA SecondKeeps ==
    ASSUME IsFiniteSet(Chat), Cardinality(Chat) <= Multiplier, LimitIInv, Second
    PROVE  LimitIInv'
<1>0. sent \in [Chat -> 0..(Burst + 1)] /\ purse \in 0..UserBurst
  BY Zenon DEF LimitIInv, LimitTypeOK
<1>1. refusal' = "none" /\ purse' \in 0..UserBurst /\ purse' >= purse
  BY <1>0, LimitFacts DEF Second, Refill, Upto
<1>2. CASE purse' = UserBurst
  <2>1. LimitTypeOK'
    <3>1. 0 \in 0..(Burst + 1)
      BY LimitFacts
    <3> QED
      BY <1>1, <1>2, <3>1, Zenon DEF Second, LimitTypeOK
  <2>2. IsFiniteSet(Sent') /\ Cardinality(Sent') \in Nat
    <3>1. IsFiniteSet(Chat \X (1..Burst)) /\ Sent' \in SUBSET (Chat \X (1..Burst))
      BY AllBursts, Zenon DEF Sent
    <3> QED
      BY <3>1, FS_Subset, FS_CardinalityType, Zenon
  <2>3. UserBurst - purse' = 0
    BY <1>2, LimitFacts
  <2> QED
    BY <1>1, <2>1, <2>2, <2>3 DEF LimitIInv
<1>3. CASE purse' # UserBurst
  <2>1. sent' = sent
    BY <1>0, <1>3, Zenon DEF Second
  <2>2. Sent' = Sent /\ (Within' <=> Within)
    BY <2>1, Zenon DEF Sent, Within
  <2>3. LimitTypeOK'
    BY <1>0, <1>1, <2>1, Zenon DEF LimitTypeOK
  <2>4. Within => UserBurst - purse' <= Cardinality(Sent)
    BY <1>0, <1>1, SentFinite, LimitFacts DEF LimitIInv
  <2> QED
    BY <1>1, <2>2, <2>3, <2>4 DEF LimitIInv
<1> QED
  BY <1>2, <1>3, Zenon

(* For any rates and bursts and any number of chats that the multiplier    *)
(* provides for: until a chat asks for more than its burst in the time the *)
(* user's bucket takes to fill, the user's aggregate refuses no request    *)
(* (rate_limit.rs:6-11).                                                   *)
THEOREM BurstsTheorem ==
    ASSUME IsFiniteSet(Chat), Cardinality(Chat) <= Multiplier
    PROVE  LimitSpec => []BurstsServed
<1>1. LimitInit => LimitIInv
  BY LimitInitial, Zenon
<1>2. LimitIInv /\ [LimitNext]_limitVars => LimitIInv'
  <2> SUFFICES ASSUME LimitIInv, [LimitNext]_limitVars PROVE LimitIInv'
    OBVIOUS
  <2>1. CASE UNCHANGED limitVars
    BY <2>1, Zenon DEF limitVars, LimitIInv, LimitTypeOK, Sent, Within
  <2> QED
    BY <2>1, AskKeeps, SecondKeeps, Zenon DEF LimitNext
<1>3. LimitIInv => BurstsServed
  BY Zenon DEF LimitIInv, BurstsServed, Within
<1> QED
  BY <1>1, <1>2, <1>3, PTL DEF LimitSpec
=============================================================================
