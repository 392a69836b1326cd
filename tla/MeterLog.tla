------------------------------ MODULE MeterLog -----------------------------
(***************************************************************************)
(* What the billing contract promises to whoever reads its events and not  *)
(* its storage: a device's readings are numbered 1, 2, 3, ... in the order *)
(* of the log, and balance_after is what the device has deposited less     *)
(* what all its readings so far have cost.                                 *)
(***************************************************************************)
EXTENDS Integers, Sequences, FiniteSets, Tally

CONSTANTS
    Device,     \* devices
    Amount,     \* amounts that may be deposited
    Unit,       \* units a reading may report
    Cost        \* what a reading may cost

VARIABLES
    log,        \* the `meter` events
    funded      \* device -> everything it ever deposited

meter_log == <<log, funded>>

ReadingsOf(d) == {i \in DOMAIN log : log[i].device = d}
Spent(d) == Total([i \in ReadingsOf(d) |-> log[i].cost])

Init ==
    /\ log = << >>
    /\ funded = [d \in Device |-> 0]

Fund(d, amount) ==
    /\ funded' = [funded EXCEPT ![d] = @ + amount]
    /\ UNCHANGED log

Bill(d, units, cost) ==
    /\ cost <= funded[d] - Spent(d)
    /\ log' = Append(log, [device |-> d, seq |-> Cardinality(ReadingsOf(d)) + 1,
                           units |-> units, cost |-> cost,
                           balance_after |-> funded[d] - Spent(d) - cost])
    /\ UNCHANGED funded

Next ==
    \/ \E d \in Device, amount \in Amount : Fund(d, amount)
    \/ /\ Len(log') = Len(log) + 1
       /\ \E d \in Device, units \in Unit, cost \in Cost : Bill(d, units, cost)

Spec == Init /\ [][Next]_meter_log

============================================================================
