----------------------------- MODULE FeatureStores -----------------------------
(***************************************************************************)
(* The Redis feature stores of one device (features/device_velocity.go,     *)
(* account_device.go, payment_token.go, device_redis.go, velocity.go).      *)
(* Evaluate reads them all, decides, and records the payment in them all,   *)
(* each pod by its own clock. Sorted sets are kept in two ways: ledgers are *)
(* read by a range of times and trimmed with a surplus, the sets of         *)
(* accounts and of tokens are counted whole, after the reader has trimmed   *)
(* them to the window. The store of devices and the stores of accounts and  *)
(* tokens share the key of the longest window, and each pipeline may fail   *)
(* alone. The pipelines of a call are one step: they follow each other      *)
(* within the hour of the model.                                            *)
(***************************************************************************)
EXTENDS Integers, FiniteSets, Sequences, FiniteSetsExt, SequencesExt

CONSTANTS
  Scorings,      \* calls of Evaluate for the device
  Buyers,        \* accounts, or payment tokens: the sets are kept alike
  Windows,       \* lengths of the windows
  Surplus,       \* what a writer keeps beyond a window: one hour
  MaxSkew,       \* how far a pod's clock may be ahead
  MaxHour,       \* bound on time
  MaxStoreFaults \* bound on failed writes

\* The clocks are closer together than the surplus, and no further apart than two windows.
ASSUME StoresAssumption ==
  /\ Windows \subseteq Nat \ {0} /\ Windows # {} /\ IsFiniteSet(Windows)
  /\ {Surplus, MaxSkew, MaxHour, MaxStoreFaults} \subseteq Nat
  /\ MaxSkew < Surplus
  /\ \A v, w \in Windows : v < w => MaxSkew <= w - v

VARIABLES
  hour,        \* real time
  stamped,     \* vel:dev:events, the ledger
  uses,        \* dev:acc1h, dev:acc24, dev:tok..: per window, when each buyer was last recorded
  counts,      \* vel:dev:1m.., velocity:ip, velocity:token: a ledger for each window
  knownDevice, \* dev:known
  knownBuyers, \* dev_acc:known, dev_tok:known
  switchLog,   \* dev:acc_seq
  scoring,     \* each call's progress, clock and buyer
  made,        \* history: every record of the ledger
  tallied,     \* history: every record of the counts
  lastMade,    \* history: the real time of each buyer's last record, per window
  missed,      \* history: buyers whose own store failed them
  storeFaults

deviceVars == <<counts, knownDevice, knownBuyers, tallied, missed>>
storesVars == <<hour, stamped, uses, switchLog, scoring, made, lastMade, storeFaults, deviceVars>>

Stamps == 0 .. MaxHour + MaxSkew
Longest == Max(Windows)
\* Before anything that a window of any pod can cover.
Never == -(Longest + MaxSkew + 1)
Marks == [at : Stamps, by : Scorings, buyer : Buyers]

StoresTypeOK ==
  /\ hour \in 0 .. MaxHour
  /\ {stamped, made, switchLog, tallied} \subseteq SUBSET Marks
  /\ counts \in [Windows -> SUBSET Marks]
  /\ knownDevice \in BOOLEAN /\ {knownBuyers, missed} \subseteq SUBSET Buyers
  /\ uses \in [Windows -> [Buyers -> Stamps \cup {Never}]]
  /\ scoring \in [Scorings -> [pc : {"new", "read", "done"}, skew : 0 .. MaxSkew]]
  /\ lastMade \in [Windows -> [Buyers -> 0 .. MaxHour \cup {Never}]]
  /\ storeFaults \in 0 .. MaxStoreFaults

StoresInit ==
  /\ hour = 0 /\ stamped = {} /\ made = {} /\ switchLog = {}
  /\ uses = [w \in Windows |-> [b \in Buyers |-> Never]]
  /\ scoring \in [Scorings -> [pc : {"new"}, skew : 0 .. MaxSkew]]
  /\ lastMade = [w \in Windows |-> [b \in Buyers |-> Never]]
  /\ counts = [w \in Windows |-> {}] /\ tallied = {}
  /\ knownDevice = FALSE /\ knownBuyers = {} /\ missed = {}
  /\ storeFaults = 0

Clock(s) == hour + scoring[s].skew

\* ZREMRANGEBYSCORE -inf upTo: the bound goes, too.
Trimmed(set, upTo) == {m \in set : m.at > upTo}
TrimmedUses(f, upTo) == [b \in Buyers |-> IF f[b] > upTo THEN f[b] ELSE Never]

HourPasses ==
  /\ hour < MaxHour /\ hour' = hour + 1
  /\ UNCHANGED <<stamped, uses, switchLog, scoring, made, lastMade, storeFaults, deviceVars>>

(* The readers: the ledger is trimmed with its surplus, the sets to their   *)
(* windows, the counts not at all. What they return is RecordsIn, BuyersIn, *)
(* Switches and NewToKnownDevice.                                           *)
ReadFeatures(s) ==
  /\ scoring[s].pc = "new"
  /\ scoring' = [scoring EXCEPT ![s].pc = "read"]
  /\ stamped' = Trimmed(stamped, Clock(s) - Longest - Surplus)
  /\ uses' = [w \in Windows |-> TrimmedUses(uses[w], Clock(s) - w)]
  /\ UNCHANGED <<hour, switchLog, made, lastMade, storeFaults, deviceVars>>

\* Mutant: the ledger is trimmed to its longest window.
LedgerAfterTight(s, m) == Trimmed(stamped \cup {m}, m.at - Longest)

LedgerAfter(s, m) == Trimmed(stamped \cup {m}, m.at - Longest - Surplus)

\* ZADD of a member that is there moves it to the new time.
UsesAfter(w, m) == TrimmedUses([uses[w] EXCEPT ![m.buyer] = m.at], m.at - w - Surplus)

(* What each store's pipeline writes. A payment that is evaluated again is  *)
(* recorded again: the members of the ledgers carry the time.               *)

\* device_velocity.go
RecordLedger(m, kept) ==
  IF kept THEN stamped' = LedgerAfter(m.by, m) /\ made' = made \cup {m}
  ELSE UNCHANGED <<stamped, made>>

\* A window's ledger is trimmed to the window and its surplus (velocity.go, too).
CountsAfter(w, m) == Trimmed(counts[w] \cup {m}, m.at - w - Surplus)

\* device_redis.go
RecordCounts(m, kept) ==
  IF kept THEN /\ counts' = [w \in Windows |-> CountsAfter(w, m)]
               /\ tallied' = tallied \cup {m}
               /\ knownDevice' = TRUE
  ELSE UNCHANGED <<counts, tallied, knownDevice>>

\* account_device.go and payment_token.go
RecordBuyer(m, kept) ==
  IF kept THEN /\ switchLog' = Trimmed(switchLog \cup {m}, m.at - Longest - Surplus)
               /\ knownBuyers' = knownBuyers \cup {m.buyer}
               /\ UNCHANGED missed
  ELSE missed' = missed \cup {m.buyer} /\ UNCHANGED <<switchLog, knownBuyers>>

\* The sets of buyers that the call adds to: device_redis.go has the longest window only.
SetsAdded(kept) ==
  (IF "buyers" \in kept THEN Windows ELSE {}) \cup (IF "counts" \in kept THEN {Longest} ELSE {})

\* The recorders, after the decision; a failed pipeline is ignored.
RecordPayment(s, b) ==
  LET m == [at |-> Clock(s), by |-> s, buyer |-> b]
      stores == {"ledger", "counts", "buyers"}
  IN /\ scoring[s].pc = "read"
     /\ scoring' = [scoring EXCEPT ![s].pc = "done"]
     /\ \E kept \in SUBSET stores :
          /\ storeFaults' = storeFaults + Cardinality(stores \ kept)
          /\ storeFaults' <= MaxStoreFaults
          /\ RecordLedger(m, "ledger" \in kept)
          /\ RecordCounts(m, "counts" \in kept)
          /\ RecordBuyer(m, "buyers" \in kept)
          /\ uses' = [w \in Windows |-> IF w \in SetsAdded(kept) THEN UsesAfter(w, m) ELSE uses[w]]
          /\ lastMade' = [w \in Windows |-> IF w \in SetsAdded(kept)
                                             THEN [lastMade[w] EXCEPT ![b] = hour] ELSE lastMade[w]]
     /\ UNCHANGED hour

StoresNext ==
  \/ HourPasses
  \/ \E s \in Scorings : ReadFeatures(s) \/ \E b \in Buyers : RecordPayment(s, b)

StoresSpec == StoresInit /\ [][StoresNext]_storesVars

-----------------------------------------------------------------------------
(* What a reader at time t gets. *)

RecordsIn(set, w, t) == {m \in set : t - w <= m.at /\ m.at <= t}
CountedIn(w, t) == RecordsIn(counts[w], w, t)
BuyersIn(w, t) == {b \in Buyers : uses[w][b] > t - w}
NewToKnownDevice(b) == knownDevice /\ b \notin knownBuyers

\* Redis orders equal times by member, which begins with the transaction's id.
Precedes(m, n, order) == m.at < n.at \/ (m.at = n.at /\ order[m.by] < order[n.by])
InOrder(set, order) ==
  CHOOSE log \in [1 .. Cardinality(set) -> set] :
    /\ Range(log) = set
    /\ \A i, j \in DOMAIN log : i < j => Precedes(log[i], log[j], order)

Switches(log) == Cardinality({i \in 2 .. Len(log) : log[i].buyer # log[i - 1].buyer})

(* No trim by any pod, early or late, reader or writer, takes from a        *)
(* ledger what a window of any pod still covers: every reading is what was  *)
(* recorded in the window by the stamps. The surplus absorbs the skew.      *)
ReadingsExact ==
  \A w \in Windows, k \in 0 .. MaxSkew :
    /\ RecordsIn(stamped, w, hour + k) = RecordsIn(made, w, hour + k)
    /\ CountedIn(w, hour + k) = RecordsIn(tallied, w, hour + k)

(* The readers of the sets delete by their own clocks, for everybody: a     *)
(* count may miss who was last seen within the skew of the window's edge,   *)
(* and never anybody later; and counts nobody beyond it.                    *)
BuyersWithinSkew ==
  \A w \in Windows, k \in 0 .. MaxSkew :
    /\ {b \in Buyers : lastMade[w][b] > hour + MaxSkew - w} \subseteq BuyersIn(w, hour + k)
    /\ \A b \in BuyersIn(w, hour + k) : lastMade[w][b] > hour - w - MaxSkew

(* Whatever the order in which payments of the same millisecond come out, a *)
(* device with n accounts in the log shows at least n - 1 switches, and a   *)
(* switch takes two payments.                                               *)
SwitchesCoverBuyers ==
  \A order \in {f \in [Scorings -> 1 .. Cardinality(Scorings)] : IsInjective(f)} :
    LET log == InOrder(switchLog, order)
        buyers == {m.buyer : m \in switchLog}
    IN switchLog # {} => /\ Cardinality(buyers) - 1 <= Switches(log)
                         /\ Switches(log) <= Len(log) - 1
                         /\ Cardinality(buyers) = 1 => Switches(log) = 0

(* The stores contradict each other only where one of them failed: who is   *)
(* counted in a window is counted in every longer one, and an account that  *)
(* is counted on the device is reported new to it only if the store of      *)
(* accounts missed a payment of it, and then in the longest window alone,   *)
(* which the store of devices fills, too.                                   *)
StoresConcur ==
  \A k \in 0 .. MaxSkew, w \in Windows :
    /\ \A v \in Windows : v <= w => BuyersIn(v, hour + k) \subseteq BuyersIn(w, hour + k)
    /\ \A b \in BuyersIn(w, hour + k) :
         NewToKnownDevice(b) => b \in missed /\ w = Longest

(* What a reader gets is what was recorded, up to the skew of the clocks,   *)
(* whoever trimmed in between, and the stores agree unless one failed.      *)
FeaturesFaithful ==
  StoresTypeOK /\ ReadingsExact /\ BuyersWithinSkew /\ SwitchesCoverBuyers /\ StoresConcur

===============================================================================
