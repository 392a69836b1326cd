----------------------------- MODULE EventFeed -----------------------------
(***************************************************************************)
(* What the indexer promises to the REST API and to the telemetry bus.     *)
(* An event is its position in the contract's log.  Billing events reach   *)
(* the cache one at a time in the log's order, and are announced for the   *)
(* first time in that order, never before they are in the cache.  Nothing  *)
(* leaves the cache.  (Repeated announcements change nothing here.)        *)
(***************************************************************************)
EXTENDS Integers

VARIABLES
    billed,     \* billing events in the contract's log
    cached,     \* those in the cache
    announced   \* those announced at least once

feed == <<billed, cached, announced>>

\* i is the first element of s that is not yet in t.
FirstNotIn(i, s, t) == i \in s \ t /\ \A j \in s \ t : i <= j

Init == billed = {} /\ cached = {} /\ announced = {}

Emit ==
    /\ billed \subseteq billed'
    /\ \A i \in billed, j \in billed' \ billed : i < j
    /\ UNCHANGED <<cached, announced>>

Store(i) ==
    /\ FirstNotIn(i, billed, cached)
    /\ cached' = cached \cup {i}
    /\ UNCHANGED <<billed, announced>>

Announce(i) ==
    /\ FirstNotIn(i, cached, announced)
    /\ announced' = announced \cup {i}
    /\ UNCHANGED <<billed, cached>>

Next == Emit \/ \E i \in billed : Store(i) \/ Announce(i)

Spec == Init /\ [][Next]_feed

============================================================================
