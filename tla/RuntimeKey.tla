----------------------------- MODULE RuntimeKey -----------------------------
(***************************************************************************)
(* The per-session runtime key on its way: the Secret that the broker      *)
(* ensures, reads for every hop and deletes with the Sandbox               *)
(* (broker/src/store.rs, proxy.rs), the file that the kubelet mounts it as,*)
(* and the runtime's check of it through a cache keyed by the file's       *)
(* modification time (runtime/src/auth.rs).                                *)
(*                                                                         *)
(* A request is one task; the cache's mutex is held over a stat and a read *)
(* of the file, which the kubelet may replace between the two.  Keys are   *)
(* numbered in the order in which they are minted.                         *)
(***************************************************************************)
EXTENDS Integers

CONSTANTS
    Request,    \* requests in progress at once
    NoOne,      \* no task, no time, no key
    Coarse,     \* two mounts may bear the same modification time
    ReadFaults, \* a read of the key file may fail
    MaxKeys     \* bound: keys minted

ASSUME RuntimeKeyAssumption ==
    /\ Coarse \in BOOLEAN /\ ReadFaults \in BOOLEAN
    /\ MaxKeys \in Nat \ {0}
    /\ NoOne \notin Int /\ NoOne \notin Request

VARIABLES
    secret,     \* the key in the Secret of the session, or NoOne
    minted,     \* keys minted so far
    file,       \* the mounted file: its key and its modification time
    cache,      \* KeyCache: the time it was filled for, NoOne if invalid
    lock,       \* the task that holds the cache's mutex, or NoOne
    request,    \* where each request is and what it holds
    epoch,      \* history: the keys the file held under its present time
    steady      \* history: the file held the presented key all along

keyVars == <<secret, minted, file, cache, lock, request, epoch, steady>>

(* PLACEHOLDER_KEYS, and what a failed read leaves; also the pool's key.   *)
Placeholder == 0
PoolKey == -1

(* A claimed member of a warm pool (owui.io/auth=pool-key) has no Secret of *)
(* its own.                                                                *)
Pooled == minted = 0

Resting ==
    [pc |-> "rest", key |-> Placeholder, mtime |-> NoOne, verdict |-> "none"]

(* validate() has passed at boot, and has filled the cache. *)
KeyInit ==
    /\ minted \in {0, 1}
    /\ secret = IF Pooled THEN NoOne ELSE 1
    /\ file = [key |-> IF Pooled THEN PoolKey ELSE 1, mtime |-> 1]
    /\ cache = [mtime |-> file.mtime, value |-> file.key]
    /\ lock = NoOne
    /\ request = [r \in Request |-> Resting]
    /\ epoch = {file.key}
    /\ steady = [r \in Request |-> FALSE]

-----------------------------------------------------------------------------
(* The broker and the kubelet *)

(* ensure_runtime_key: an existing Secret is left alone. *)
EnsureKey ==
    /\ ~ Pooled /\ secret = NoOne
    /\ minted < MaxKeys
    /\ minted' = minted + 1
    /\ secret' = minted + 1
    /\ UNCHANGED <<file, cache, lock, request, epoch, steady>>

(* delete_runtime_key, by a reap. *)
DeleteRuntimeKey ==
    /\ secret # NoOne
    /\ secret' = NoOne
    /\ UNCHANGED <<minted, file, cache, lock, request, epoch, steady>>

(* The kubelet brings the Secret into the mount; a deleted Secret leaves   *)
(* the file as it is.                                                      *)
Sync ==
    /\ secret # NoOne /\ secret # file.key
    /\ \E t \in {file.mtime + 1} \cup (IF Coarse THEN {file.mtime} ELSE {}) :
         /\ file' = [key |-> secret, mtime |-> t]
         /\ epoch' = IF t = file.mtime THEN epoch \cup {secret} ELSE {secret}
    /\ steady' = [r \in Request |-> FALSE]
    /\ UNCHANGED <<secret, minted, cache, lock, request>>

(* proxy_catch_all: read_runtime_key for this hop, then the runtime's      *)
(* extractor.  Without a key of the session or the pool it answers 502.    *)
Send(r) ==
    LET key == IF secret # NoOne THEN secret ELSE PoolKey IN
    /\ request[r].pc = "rest"
    /\ secret # NoOne \/ Pooled
    /\ request' = [request EXCEPT ![r] =
                     [pc |-> "lock", key |-> key, mtime |-> NoOne, verdict |-> "none"]]
    /\ steady' = [steady EXCEPT ![r] = (file.key = key)]
    /\ UNCHANGED <<secret, minted, file, cache, lock, epoch>>

-----------------------------------------------------------------------------
(* check() in the runtime *)

(* The value that load returned is compared with the presented key: at the *)
(* first mismatch the cache is invalidated and loaded once more.           *)
Outcome(r, value) ==
    LET first == request[r].pc \in {"lock", "read"}
    IN  IF first /\ value = Placeholder THEN "unconfigured"
        ELSE IF value = request[r].key /\ value # Placeholder THEN "ok"
        ELSE IF first THEN "none" ELSE "invalid"

Compare(r, value) ==
    request' = [request EXCEPT ![r] =
                  [pc      |-> IF Outcome(r, value) = "none" THEN "invalidate" ELSE "done",
                   key     |-> request[r].key,
                   mtime   |-> NoOne,
                   verdict |-> Outcome(r, value)]]

(* Mutant: a filled cache is good for ever. *)
CacheFilled == cache.mtime # NoOne

(* cache_mtime_eq *)
CacheMtimeEq == cache.mtime = file.mtime

(* load(): the mutex is taken and the file's time read; the cached value   *)
(* is returned if it is for that time.                                     *)
Hit(r) ==
    /\ request[r].pc \in {"lock", "relock"}
    /\ lock = NoOne
    /\ CacheMtimeEq
    /\ Compare(r, cache.value)
    /\ UNCHANGED <<secret, minted, file, cache, lock, epoch, steady>>

Miss(r) ==
    /\ request[r].pc \in {"lock", "relock"}
    /\ lock = NoOne
    /\ ~ CacheMtimeEq
    /\ lock' = r
    /\ request' = [request EXCEPT
                     ![r].pc = IF request[r].pc = "lock" THEN "read" ELSE "reread",
                     ![r].mtime = file.mtime]
    /\ UNCHANGED <<secret, minted, file, cache, epoch, steady>>

(* The value is cached for the time that was read before it. *)
Fill(r, value) == cache' = [mtime |-> request[r].mtime, value |-> value]

ReadKey(r) ==
    /\ request[r].pc \in {"read", "reread"}
    /\ \E value \in {file.key} \cup (IF ReadFaults THEN {Placeholder} ELSE {}) :
         Fill(r, value) /\ Compare(r, value)
    /\ lock' = NoOne
    /\ UNCHANGED <<secret, minted, file, epoch, steady>>

(* Mutant: the cache is kept after a mismatch. *)
InvalidateNot(r) ==
    /\ request[r].pc = "invalidate"
    /\ lock = NoOne
    /\ request' = [request EXCEPT ![r].pc = "relock"]
    /\ UNCHANGED <<secret, minted, file, cache, lock, epoch, steady>>

(* invalidate() is a critical section of its own. *)
Invalidate(r) ==
    /\ request[r].pc = "invalidate"
    /\ lock = NoOne
    /\ cache' = [cache EXCEPT !.mtime = NoOne]
    /\ request' = [request EXCEPT ![r].pc = "relock"]
    /\ UNCHANGED <<secret, minted, file, lock, epoch, steady>>

Finish(r) ==
    /\ request[r].pc = "done"
    /\ request' = [request EXCEPT ![r] = Resting]
    /\ UNCHANGED <<secret, minted, file, cache, lock, epoch, steady>>

Handle(r) ==
    Send(r) \/ Hit(r) \/ Miss(r) \/ ReadKey(r) \/ Invalidate(r) \/ Finish(r)

KeyNext == EnsureKey \/ DeleteRuntimeKey \/ Sync \/ \E r \in Request : Handle(r)

KeySpec == KeyInit /\ [][KeyNext]_keyVars

-----------------------------------------------------------------------------
Keys == {PoolKey, Placeholder} \cup 1..MaxKeys
Verdicts == {"none", "ok", "unconfigured", "invalid"}
Progress ==
    [pc : {"rest", "lock", "read", "invalidate", "relock", "reread", "done"},
     key : Keys, mtime : Nat \cup {NoOne}, verdict : Verdicts]

KeyTypeOK ==
    /\ secret \in 1..MaxKeys \cup {NoOne}
    /\ minted \in 0..MaxKeys
    /\ file \in [key : Keys \ {Placeholder}, mtime : Nat]
    /\ cache \in [mtime : Nat \cup {NoOne}, value : Keys]
    /\ lock \in Request \cup {NoOne}
    /\ request \in [Request -> Progress]
    /\ epoch \in SUBSET Keys
    /\ steady \in [Request -> BOOLEAN]

(* A just-rotated key is picked up without a restart (auth.rs:6-8): a      *)
(* request whose key was in the file for as long as it was being judged is *)
(* let in, whatever the cache held and whoever else was using it.          *)
CurrentKeyAccepted ==
    \A r \in Request :
        request[r].pc = "done" /\ steady[r] => request[r].verdict = "ok"

(* The gate as its caller sees it: the file's key and the verdicts. *)
Gate ==
    INSTANCE KeyGate WITH
        Key <- Keys, NoKey <- Placeholder,
        current <- file.key,
        alike <- epoch,
        asked <- [r \in Request |-> request[r].key],
        verdict <- [r \in Request |-> request[r].verdict]

(* With the cache a request is judged as if the file were read at one      *)
(* moment of its check (auth.rs:108-127).                                  *)
JudgedByFile == Gate!GateSpec
=============================================================================
