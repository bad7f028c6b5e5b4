--------------------------- MODULE DistributedLock ----------------------------
(***************************************************************************)
(* The two implementations of DistributedLock                               *)
(* (riskengine/distributed_lock.go), for one resource: a map under a mutex, *)
(* and a Redis key with a time to live. Both give out leases, of which the  *)
(* holder keeps a copy; nothing tells it when the store's entry is gone.    *)
(*                                                                          *)
(* Times are relative: an entry and a lease carry the time they have left,  *)
(* and a step of the clock takes it from all of them. A lease that has 0    *)
(* left is at its ExpiresAt: Acquire takes the local entry for expired      *)
(* (!now.Before), IsExpired and Extend do not (now.After).                  *)
(***************************************************************************)
EXTENDS Integers

CONSTANTS
  Workers,    \* the pods and goroutines that ask for the lock
  LeaseTime,  \* ttl, and extraTTL of an extension
  MaxTokens,  \* bound on the leases given out in a run
  MaxLeft     \* bound on the time that extensions pile up

ASSUME LockAssumption == {LeaseTime, MaxTokens, MaxLeft} \subseteq Nat /\ 0 < LeaseTime /\ LeaseTime <= MaxLeft

VARIABLES
  lockKind,   \* "local" or "redis"
  entry,      \* the store's entry
  lease,      \* each worker's LockLease
  tokens      \* leases given out

lockVars == <<lockKind, entry, lease, tokens>>

NoToken == 0
NoEntry == [token |-> NoToken, left |-> -1]
NoLease == [token |-> NoToken, left |-> -1, state |-> "none", extended |-> FALSE]

\* "lost" is the lease of a worker that crashed or never got the answer.
LeaseStates == {"none", "held", "released", "lost"}

LockTypeOK ==
  /\ lockKind \in {"local", "redis"}
  /\ entry \in [token : 0 .. MaxTokens, left : -1 .. MaxLeft]
  /\ lease \in [Workers -> [token : 0 .. MaxTokens, left : -1 .. MaxLeft, state : LeaseStates,
                            extended : BOOLEAN]]
  /\ tokens \in 0 .. MaxTokens

LockInit(kind) ==
  /\ lockKind = kind
  /\ entry = NoEntry
  /\ lease = [w \in Workers |-> NoLease]
  /\ tokens = 0

Fresh == tokens + 1
GiveOut(w, state) ==
  /\ tokens < MaxTokens /\ tokens' = Fresh
  /\ entry' = [token |-> Fresh, left |-> LeaseTime]
  /\ lease' = [lease EXCEPT ![w] = [token |-> Fresh, left |-> LeaseTime, state |-> state,
                                    extended |-> FALSE]]
  /\ UNCHANGED lockKind

\* The store has no live entry.
Available == entry.token = NoToken \/ (lockKind = "local" /\ entry.left <= 0)

\* Acquire; ErrLockHeld changes nothing.
Acquire(w) ==
  /\ lease[w].state \in {"none", "released", "held"}
  /\ Available
  /\ GiveOut(w, "held")

\* SetNX is applied, and the worker gets an error or dies.
AcquireUnheard(w) ==
  /\ lockKind = "redis" /\ lease[w].state # "lost"
  /\ Available
  /\ GiveOut(w, "lost")

Owns(w) == entry.token # NoToken /\ entry.token = lease[w].token

\* Mutant: the token is not compared.
ReleaseAnyone(w) ==
  /\ lease[w].state = "held"
  /\ entry' = NoEntry
  /\ lease' = [lease EXCEPT ![w].state = "released"]
  /\ UNCHANGED <<lockKind, tokens>>

\* Release: only the entry with the lease's token is deleted, expired or not.
Release(w) ==
  /\ lease[w].state = "held"
  /\ entry' = IF Owns(w) THEN NoEntry ELSE entry
  /\ lease' = [lease EXCEPT ![w].state = "released"]
  /\ UNCHANGED <<lockKind, tokens>>

(* Extend. The local store adds to the entry's expiry and copies it to the  *)
(* lease. Redis sets the key's time to live, and the lease adds to its own. *)
Extend(w) ==
  /\ lease[w].state = "held" /\ Owns(w)
  /\ lease[w].left + LeaseTime <= MaxLeft /\ entry.left + LeaseTime <= MaxLeft
  /\ \/ /\ lockKind = "local" /\ entry.left >= 0
        /\ entry' = [entry EXCEPT !.left = @ + LeaseTime]
        /\ lease' = [lease EXCEPT ![w].left = entry.left + LeaseTime, ![w].extended = TRUE]
     \/ /\ lockKind = "redis"
        /\ entry' = [entry EXCEPT !.left = LeaseTime]
        /\ lease' = [lease EXCEPT ![w].left = @ + LeaseTime, ![w].extended = TRUE]
  /\ UNCHANGED <<lockKind, tokens>>

Dies(w) ==
  /\ lease[w].state = "held"
  /\ lease' = [lease EXCEPT ![w].state = "lost"]
  /\ UNCHANGED <<lockKind, entry, tokens>>

LessLeft(r) == [r EXCEPT !.left = IF @ >= 0 THEN @ - 1 ELSE @]
HasTime(r) == r.left >= 0

\* Time passes. Redis drops a key that has none left.
LockTick ==
  /\ HasTime(entry) \/ \E w \in Workers : HasTime(lease[w])
  /\ entry' = IF lockKind = "redis" /\ entry.left <= 1 THEN NoEntry ELSE LessLeft(entry)
  /\ lease' = [w \in Workers |-> LessLeft(lease[w])]
  /\ UNCHANGED <<lockKind, tokens>>

LockNext ==
  \/ \E w \in Workers : Acquire(w) \/ AcquireUnheard(w) \/ Release(w) \/ Extend(w) \/ Dies(w)
  \/ LockTick

LockSpec == (\E kind \in {"local", "redis"} : LockInit(kind)) /\ [][LockNext]_lockVars

-----------------------------------------------------------------------------

\* A worker that acts on its lease: not released, and before its ExpiresAt.
Believes(w) == lease[w].state = "held" /\ lease[w].left > 0

(* Two workers never act on the lock at once, although a holder learns of   *)
(* its expiry from its own copy only; the exception is a Redis lease that   *)
(* was extended, whose copy outlives the key.                               *)
OneBeliever ==
  \A v, w \in Workers :
    v # w /\ Believes(v) /\ Believes(w)
      => lockKind = "redis" /\ (lease[v].extended \/ lease[w].extended)

(* A live entry disappears only by the release of the worker whose token it *)
(* has: a worker whose lease ran out cannot free the lock of its successor. *)
OnlyOwnerReleases ==
  [][entry.left > 1 /\ entry'.token # entry.token
       => \E w \in Workers : lease[w].token = entry.token /\ lease'[w].state = "released"]_lockVars

(* The lock of a worker that died, or of one that never learned it had it,  *)
(* does not block the others for ever.                                      *)
LostLockFreed ==
  \A w \in Workers : (lease[w].state = "lost" /\ Owns(w)) ~> Available \/ ~Owns(w)

(* The lock protects: one holder acts at a time, only an owner frees it,    *)
(* and that of a dead worker comes free.                                    *)
LockProtects ==
  []LockTypeOK /\ []OneBeliever /\ OnlyOwnerReleases /\ LostLockFreed

===============================================================================
