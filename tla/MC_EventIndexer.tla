-------------------------- MODULE MC_EventIndexer --------------------------
(* Instances of EventIndexer, and of the decoder it uses, for TLC.         *)
EXTENDS EventIndexer, EventDecode, TLC

----------------------------------------------------------------------------
(* The decoder against reference definitions, over bounded inputs.         *)

\* The integers that are doubles.
Doubles ==
    {n \in 0..(4 * MaxSafe) :
        /\ n > MaxSafe => n % 2 = 0
        /\ n > 2 * MaxSafe => n % 4 = 0}

Distance(a, b) == IF a < b THEN b - a ELSE a - b

\* Number gives a double, and none is nearer.
ASSUME NumberIsNearest ==
    \A v \in 0..(4 * MaxSafe) :
        /\ Number(v) \in Doubles
        /\ \A x \in Doubles : Distance(Number(v), v) <= Distance(x, v)

\* An event's row says what the event says, digit for digit, in each form its
\* values may arrive in and on either side of the limits of doubles and
\* columns; the sequence number and the timestamp are the nearest doubles.
ASSUME RowsAreEvents ==
    \A enc \in Encoding, device \in {"d1", "d2"},
       units, cost, balance \in {0, 1, MaxSafe + 1, MaxInt64, MaxInt64 + 1},
       seq, ts \in {1, MaxSafe, MaxSafe + 1, 2 * MaxSafe + 1} :
          LET e == [device |-> device, units |-> units, cost |-> cost,
                    balance_after |-> balance, seq |-> seq, ledger_ts |-> ts]
              ev == Delivered(e, enc)
          IN /\ IsMeter(ev)
             /\ RowOf(ev) = [device_id |-> device, units |-> units,
                             cost |-> cost, balance_after |-> balance,
                             seq |-> Number(seq), ledger_ts |-> Number(ts)]
             /\ Fits(RowOf(ev)) <=>
                   {units, cost, balance} \subseteq 0..MaxInt64

============================================================================
