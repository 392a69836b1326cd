---------------------------- MODULE EventDecode ----------------------------
(***************************************************************************)
(* What becomes of an event's values on the way from the contract to the   *)
(* cache: scvalToString, scvalToBigInt and unwrapVec                       *)
(* (backend/src/indexer/decode.js), the row handleEvent makes of them      *)
(* (indexer.js) and the columns ingest binds it to (db/store.js).          *)
(*                                                                         *)
(* The contract emits u64 and i128.  They reach the decoder as XDR values  *)
(* or as the JSON forms it understands; JavaScript holds them as BigInt,   *)
(* except the sequence number and the timestamp, which become doubles; the *)
(* columns are 64-bit.  EventIndexer calls an event whose row does not fit *)
(* the columns unstorable.                                                 *)
(***************************************************************************)
EXTENDS Integers, Sequences

CONSTANTS
    MaxSafe,        \* 2^53, up to which doubles hold every integer
    MaxInt64        \* the largest value of an integer column

ASSUME DecodeAssumption ==
    /\ MaxSafe \in Nat \ {0} /\ MaxSafe % 4 = 0
    /\ MaxInt64 \in Nat /\ MaxSafe < MaxInt64

Encoding == {"xdr", "string", "bigint"}
Amounts == {"units", "cost", "balance_after"}

\* A value as it arrives: form is XDR or JSON, js the JavaScript type of what
\* is inside, v what it says.
ScVal(form, type, js, v) == [form |-> form, type |-> type, js |-> js, v |-> v]

----------------------------------------------------------------------------
(* Numbers, as far as 4 * MaxSafe.                                         *)

\* The nearest multiple of ulp, the even one of two.
NearestEven(v, ulp) ==
    LET q == v \div ulp
        r == v % ulp
    IN IF 2 * r < ulp \/ (2 * r = ulp /\ q % 2 = 0) THEN q * ulp
       ELSE (q + 1) * ulp

\* Number(v): the nearest double.
Number(v) ==
    IF v <= MaxSafe THEN v
    ELSE IF v <= 2 * MaxSafe THEN NearestEven(v, 2)
    ELSE NearestEven(v, 4)

----------------------------------------------------------------------------
(* decode.js                                                               *)

\* XDR strings, JSON addresses and symbols, and other JSON strings alike.
scvalToString(val) == val.v

\* Numbers and decimal strings alike; anything else is 0.
scvalToBigInt(val) ==
    IF \/ val.form = "xdr" /\ val.js \in {"bigint", "number"}
       \/ val.form = "json" /\ val.js \in {"string", "number", "bigint"}
    THEN val.v
    ELSE 0

\* A vec, or any JSON array.
unwrapVec(val) ==
    IF val.type = "vec" \/ (val.form = "json" /\ val.js = "array") THEN val.v
    ELSE << >>

----------------------------------------------------------------------------
(* An event on its way.                                                    *)

\* A value of the contract in one of the forms.
Encode(type, v, enc) ==
    CASE enc = "xdr"    -> ScVal("xdr", type, "bigint", v)
      [] enc = "string" -> ScVal("json", type, "string", v)
      [] enc = "bigint" -> ScVal("json", type, "bigint", v)

EncodeName(type, name, enc) ==
    ScVal(IF enc = "xdr" THEN "xdr" ELSE "json", type, "string", name)

\* A `meter` event of the contract as getEvents delivers it.
Delivered(e, enc) ==
    [topic |-> <<EncodeName("symbol", "meter", enc),
                 EncodeName("address", e.device, enc)>>,
     value |-> ScVal(IF enc = "xdr" THEN "xdr" ELSE "json", "vec", "array",
                     <<Encode("u64", e.units, enc), Encode("i128", e.cost, enc),
                       Encode("i128", e.balance_after, enc),
                       Encode("u64", e.seq, enc),
                       Encode("u64", e.ledger_ts, enc)>>)]

\* if (topics[0] !== METER_TOPIC) return
IsMeter(ev) == scvalToString(ev.topic[1]) = "meter"

RowOf(ev) ==
    LET data == unwrapVec(ev.value)
    IN [device_id |-> scvalToString(ev.topic[2]),
        units |-> scvalToBigInt(data[1]), cost |-> scvalToBigInt(data[2]),
        balance_after |-> scvalToBigInt(data[3]),
        seq |-> Number(scvalToBigInt(data[4])),
        ledger_ts |-> Number(scvalToBigInt(data[5]))]

\* Both drivers refuse an integer the column cannot hold.
Fits(row) == \A f \in Amounts : row[f] <= MaxInt64

============================================================================
