----------------------------- MODULE StorageTtl ----------------------------
(***************************************************************************)
(* How long the contract's entries stay on the ledger                      *)
(* (contracts/src/storage.rs).  An entry whose time to live runs out is    *)
(* archived: an invocation that needs it fails until somebody restores it. *)
(* Reads and writes of persistent entries extend their lives, though only  *)
(* below TTL_THRESHOLD, and only if the invocation succeeds; the instance  *)
(* entry, which holds the token, is never extended.                        *)
(*                                                                         *)
(* Of an invocation the model keeps which entries it reads and writes; the *)
(* checks that refuse one (BillingContract) leave everything as it was.    *)
(***************************************************************************)
EXTENDS Integers

CONSTANTS
    Device,
    Operator,
    TTL_THRESHOLD,
    TTL_EXTEND_TO,
    MinTtl          \* the network's lifetime of a new or restored entry

ASSUME TtlAssumption ==
    /\ TTL_THRESHOLD \in Nat
    /\ TTL_EXTEND_TO \in Nat
    /\ TTL_THRESHOLD <= TTL_EXTEND_TO
    /\ MinTtl \in Nat

VARIABLES
    inclusive,  \* whether the host extends an entry just at the threshold
    operator,   \* device -> its operator, once registered
    entry,      \* the entries that exist, archived or not
    ttl,        \* entry -> ledgers it has left; -1 if it is archived
    instance,   \* the same for the instance entry
    metered     \* device -> ledgers since its last billed reading

vars == <<inclusive, operator, entry, ttl, instance, metered>>

Key == ({"registration", "tariff", "deposit", "reading"} \X Device)
           \cup ({"operator"} \X Operator)

\* Bound: longer than any extension lasts.
LongAgo == TTL_EXTEND_TO + 1

----------------------------------------------------------------------------
(* The host.                                                               *)

\* Every key an invocation needs must not be archived.
Accessible(keys) ==
    /\ instance >= 0
    /\ \A k \in keys \cap entry : ttl[k] >= 0

\* extend_ttl(key, TTL_THRESHOLD, TTL_EXTEND_TO)
bump_ttl(t) ==
    IF t < TTL_THRESHOLD \/ (inclusive /\ t = TTL_THRESHOLD)
    THEN IF t < TTL_EXTEND_TO THEN TTL_EXTEND_TO ELSE t
    ELSE t

\* The entries get and set touch; a new one begins with the network's minimum.
Touch(keys) ==
    /\ Accessible(keys)
    /\ entry' = entry \cup keys
    /\ ttl' = [k \in Key |->
                 IF k \notin keys THEN ttl[k]
                 ELSE bump_ttl(IF k \in entry THEN ttl[k] ELSE MinTtl)]

----------------------------------------------------------------------------
(* Invocations that succeed.                                               *)

Init ==
    /\ inclusive \in BOOLEAN
    /\ operator = [d \in Device |-> "none"]
    /\ entry = {}
    /\ ttl = [k \in Key |-> 0]
    /\ instance = MinTtl
    /\ metered = [d \in Device |-> LongAgo]

RegisterDevice(d, o) ==
    /\ <<"registration", d>> \notin entry
    /\ Touch({"registration", "tariff", "deposit"} \X {d})
    /\ operator' = [operator EXCEPT ![d] = o]
    /\ UNCHANGED <<inclusive, instance, metered>>

DepositFunds(d) ==
    /\ <<"registration", d>> \in entry
    /\ Touch({"registration", "deposit"} \X {d})
    /\ UNCHANGED <<inclusive, operator, instance, metered>>

\* Mutant: only writes extend an entry's life.
SubmitTouchesWrites(d) ==
    ({"deposit", "reading"} \X {d}) \cup {<<"operator", operator[d]>>}

SubmitTouches(d) ==
    ({"registration", "tariff", "deposit", "reading"} \X {d})
        \cup {<<"operator", operator[d]>>}

SubmitReading(d) ==
    /\ <<"registration", d>> \in entry
    /\ Touch(SubmitTouches(d))
    /\ metered' = [metered EXCEPT ![d] = 0]
    /\ UNCHANGED <<inclusive, operator, instance>>

SettleBalance(o) ==
    /\ <<"operator", o>> \in entry
    /\ Touch({<<"operator", o>>})
    /\ UNCHANGED <<inclusive, operator, instance, metered>>

\* The read-only helpers: sent as a transaction, one of them, too, extends
\* the life of the entry it finds.
GetEntry(k) ==
    /\ k \in entry
    /\ Touch({k})
    /\ UNCHANGED <<inclusive, operator, instance, metered>>

----------------------------------------------------------------------------
(* The network.                                                            *)

CloseLedger ==
    /\ ttl' = [k \in Key |-> IF k \in entry /\ ttl[k] >= 0 THEN ttl[k] - 1
                             ELSE ttl[k]]
    /\ instance' = IF instance >= 0 THEN instance - 1 ELSE instance
    /\ metered' = [d \in Device |-> IF metered[d] < LongAgo THEN metered[d] + 1
                                    ELSE metered[d]]
    /\ UNCHANGED <<inclusive, operator, entry>>

\* RestoreFootprint
Restore(k) ==
    /\ k \in entry /\ ttl[k] = -1
    /\ ttl' = [ttl EXCEPT ![k] = MinTtl]
    /\ UNCHANGED <<inclusive, operator, entry, instance, metered>>

RestoreInstance ==
    /\ instance = -1
    /\ instance' = MinTtl
    /\ UNCHANGED <<inclusive, operator, entry, ttl, metered>>

----------------------------------------------------------------------------

Next ==
    \/ \E d \in Device : DepositFunds(d) \/ SubmitReading(d)
    \/ \E d \in Device, o \in Operator : RegisterDevice(d, o)
    \/ \E o \in Operator : SettleBalance(o)
    \/ CloseLedger
    \/ \E k \in Key : GetEntry(k) \/ Restore(k)
    \/ RestoreInstance

Spec == Init /\ [][Next]_vars

----------------------------------------------------------------------------
(* Properties                                                              *)

\* The types; no extension makes an entry live longer than TTL_EXTEND_TO, or
\* than the network's own lifetime of a new entry.
TypeOK ==
    /\ inclusive \in BOOLEAN
    /\ operator \in [Device -> Operator \cup {"none"}]
    /\ entry \subseteq Key
    /\ ttl \in [Key -> Int]
    /\ \A k \in Key : /\ -1 <= ttl[k]
                      /\ ttl[k] <= TTL_EXTEND_TO \/ ttl[k] <= MinTtl
    /\ instance \in Int /\ -1 <= instance /\ instance <= MinTtl
    /\ metered \in [Device -> 0..LongAgo]

\* Every entry of d and its operator.
EntriesOf(d) ==
    ({"registration", "tariff", "deposit", "reading"} \X {d})
        \cup {<<"operator", operator[d]>>}

\* They are live if d was billed no more than window ledgers ago.
LiveFor(window) ==
    \A d \in Device : metered[d] <= window =>
        \A k \in EntriesOf(d) : k \in entry /\ ttl[k] >= 0

\* A device none of whose gaps between billed readings is longer than
\* TTL_THRESHOLD ledgers never finds an entry archived, its registration and
\* tariff, which readings never write, included.
MeteredDeviceLives == LiveFor(TTL_THRESHOLD)

============================================================================
