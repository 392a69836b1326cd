-------------------------- MODULE StorageTtlProofs -------------------------
(***************************************************************************)
(* A regularly metered device never finds an entry archived, for every     *)
(* number of devices and operators and every threshold, extension and      *)
(* network minimum.  What is inductive is how much life is left: an entry  *)
(* last touched n ledgers ago has at least TTL_THRESHOLD - n.              *)
(***************************************************************************)
EXTENDS StorageTtl, TLAPS

\* Whoever has a registration has an operator.
HasOperator ==
    \A d \in Device : <<"registration", d>> \in entry => operator[d] \in Operator

\* What is left of the lives of a metered device's entries.
LifeLeft ==
    \A d \in Device : metered[d] <= TTL_THRESHOLD =>
        \A k \in EntriesOf(d) : k \in entry /\ ttl[k] >= TTL_THRESHOLD - metered[d]

TtlInv == TypeOK /\ HasOperator /\ LifeLeft

----------------------------------------------------------------------------
(* What an extension gives, whichever way the host reads the threshold.    *)

LEMMA BumpGives ==
    ASSUME NEW t \in Int, -1 <= t
    PROVE  /\ bump_ttl(t) \in Int
           /\ bump_ttl(t) >= t
           /\ bump_ttl(t) >= TTL_THRESHOLD
           /\ bump_ttl(t) = t \/ bump_ttl(t) = TTL_EXTEND_TO
BY TtlAssumption DEF bump_ttl

\* A touch shortens no life, and leaves the touched entries TTL_THRESHOLD.
LEMMA TouchGives ==
    ASSUME TypeOK, NEW keys \in SUBSET Key, Touch(keys)
    PROVE  /\ entry' = entry \cup keys /\ entry' \subseteq Key
           /\ ttl' \in [Key -> Int]
           /\ \A k \in Key : /\ -1 <= ttl'[k]
                             /\ ttl'[k] <= TTL_EXTEND_TO \/ ttl'[k] <= MinTtl
           /\ \A k \in entry : ttl'[k] >= ttl[k]
           /\ \A k \in keys : ttl'[k] >= TTL_THRESHOLD
<1>1. ttl \in [Key -> Int] /\ MinTtl \in Int /\ -1 <= MinTtl /\ entry \subseteq Key
  BY TtlAssumption DEF TypeOK
<1>2. \A k \in Key :
        ttl'[k] = IF k \notin keys THEN ttl[k]
                  ELSE bump_ttl(IF k \in entry THEN ttl[k] ELSE MinTtl)
  BY DEF Touch
<1>3. ASSUME NEW k \in Key
      PROVE  /\ ttl'[k] \in Int /\ -1 <= ttl'[k]
             /\ ttl'[k] <= TTL_EXTEND_TO \/ ttl'[k] <= MinTtl
             /\ k \in entry => ttl'[k] >= ttl[k]
             /\ k \in keys => ttl'[k] >= TTL_THRESHOLD
  <2>1. ttl[k] \in Int /\ -1 <= ttl[k] /\ (ttl[k] <= TTL_EXTEND_TO \/ ttl[k] <= MinTtl)
    BY DEF TypeOK
  <2>2. CASE k \notin keys
    BY <1>2, <2>1, <2>2
  <2>3. CASE k \in keys
    <3> DEFINE t == IF k \in entry THEN ttl[k] ELSE MinTtl
    <3>1. t \in Int /\ -1 <= t /\ (t <= TTL_EXTEND_TO \/ t <= MinTtl)
      BY <1>1, <2>1
    <3>2. ttl'[k] = bump_ttl(t)
      BY <1>2, <2>3
    <3>3. k \in entry => t = ttl[k]
      OBVIOUS
    <3> HIDE DEF t
    <3>4. QED
      BY <3>1, <3>2, <3>3, BumpGives, TtlAssumption
  <2>4. QED
    BY <2>2, <2>3
<1>4. ttl' = [k \in Key |-> ttl'[k]]
  BY DEF Touch
<1>5. QED
  BY <1>1, <1>3, <1>4 DEF Touch

LEMMA KeysOf ==
    ASSUME NEW d \in Device
    PROVE  /\ ({"registration", "tariff", "deposit", "reading"} \X {d}) \subseteq Key
           /\ \A o \in Operator : <<"operator", o>> \in Key
BY DEF Key

\* Entries that lose no life stay long enough if the device's clock stands.
LEMMA LifeKept ==
    ASSUME TtlInv, NEW d \in Device, metered'[d] = metered[d],
           operator'[d] = operator[d], TypeOK',
           \A k \in EntriesOf(d) : k \in entry => k \in entry' /\ ttl'[k] >= ttl[k],
           metered'[d] <= TTL_THRESHOLD
    PROVE  \A k \in EntriesOf(d)' : k \in entry' /\ ttl'[k] >= TTL_THRESHOLD - metered'[d]
<1>1. EntriesOf(d)' = EntriesOf(d)
  BY DEF EntriesOf
<1>2. metered[d] \in Int /\ TTL_THRESHOLD \in Int
  BY TtlAssumption DEF TtlInv, TypeOK, LongAgo
<1>3. ASSUME NEW k \in EntriesOf(d)
      PROVE  k \in entry' /\ ttl'[k] >= TTL_THRESHOLD - metered[d]
  <2>1. k \in entry /\ ttl[k] >= TTL_THRESHOLD - metered[d]
    BY DEF TtlInv, LifeLeft
  <2>2. k \in entry' /\ ttl'[k] >= ttl[k]
    BY <2>1
  <2>3. ttl[k] \in Int /\ ttl'[k] \in Int
    BY <2>1, <2>2 DEF TtlInv, TypeOK
  <2>4. QED
    BY <1>2, <2>1, <2>2, <2>3
<1>4. QED
  BY <1>1, <1>3

----------------------------------------------------------------------------
(* Initially nothing is metered, and no entry exists.                      *)

LEMMA TtlInit == Init => TtlInv
<1> SUFFICES ASSUME Init PROVE TtlInv
  OBVIOUS
<1>1. TypeOK
  BY TtlAssumption DEF Init, TypeOK, LongAgo, Key
<1>2. HasOperator
  BY DEF Init, HasOperator
<1>3. LifeLeft
  BY TtlAssumption DEF Init, LifeLeft, LongAgo
<1>4. QED
  BY <1>1, <1>2, <1>3 DEF TtlInv

\* An invocation that touches keys and leaves the device's operator and clock
\* alone.
LEMMA TouchKeeps ==
    ASSUME TtlInv, NEW keys \in SUBSET Key, Touch(keys),
           UNCHANGED <<inclusive, operator, instance, metered>>,
           \A d \in Device : <<"registration", d>> \in keys =>
               <<"registration", d>> \in entry
    PROVE  TtlInv'
<1>1. TypeOK'
  BY TouchGives DEF TtlInv, TypeOK
<1>2. HasOperator'
  BY TouchGives DEF TtlInv, HasOperator
<1>3. LifeLeft'
  <2> SUFFICES ASSUME NEW d \in Device, metered'[d] <= TTL_THRESHOLD
               PROVE  \A k \in EntriesOf(d)' :
                        k \in entry' /\ ttl'[k] >= TTL_THRESHOLD - metered'[d]
    BY DEF LifeLeft
  <2>1. \A k \in EntriesOf(d) : k \in entry => k \in entry' /\ ttl'[k] >= ttl[k]
    BY TouchGives DEF TtlInv
  <2>2. QED
    BY <1>1, <2>1, LifeKept
<1>4. QED
  BY <1>1, <1>2, <1>3 DEF TtlInv

LEMMA TtlNext == TtlInv /\ [Next]_vars => TtlInv'
<1> SUFFICES ASSUME TtlInv, [Next]_vars PROVE TtlInv'
  OBVIOUS
<1>1. ASSUME NEW d \in Device, DepositFunds(d) PROVE TtlInv'
  <2>1. {"registration", "deposit"} \X {d} \in SUBSET Key
    BY KeysOf
  <2>2. QED
    BY <1>1, <2>1, TouchKeeps DEF DepositFunds
<1>2. ASSUME NEW d \in Device, SubmitReading(d) PROVE TtlInv'
  <2>1. operator[d] \in Operator
    BY <1>2 DEF SubmitReading, TtlInv, HasOperator
  <2>2. SubmitTouches(d) = EntriesOf(d) /\ SubmitTouches(d) \in SUBSET Key
    BY <2>1, KeysOf DEF SubmitTouches, EntriesOf
  <2>3. /\ entry' = entry \cup EntriesOf(d)
        /\ \A k \in entry : ttl'[k] >= ttl[k]
        /\ \A k \in EntriesOf(d) : ttl'[k] >= TTL_THRESHOLD
    BY <1>2, <2>2, TouchGives DEF SubmitReading, TtlInv
  <2>4. TypeOK'
    <3>1. /\ entry' \subseteq Key /\ ttl' \in [Key -> Int]
          /\ \A k \in Key : /\ -1 <= ttl'[k]
                            /\ ttl'[k] <= TTL_EXTEND_TO \/ ttl'[k] <= MinTtl
      BY <1>2, <2>2, TouchGives DEF SubmitReading, TtlInv
    <3>2. metered' \in [Device -> 0..LongAgo]
      BY <1>2, TtlAssumption DEF SubmitReading, TtlInv, TypeOK, LongAgo
    <3>3. QED
      BY <1>2, <3>1, <3>2 DEF SubmitReading, TtlInv, TypeOK
  <2>5. HasOperator'
    <3> SUFFICES ASSUME NEW e \in Device, <<"registration", e>> \in entry'
                 PROVE  operator'[e] \in Operator
      BY DEF HasOperator
    <3>1. <<"registration", e>> \in EntriesOf(d) => e = d
      BY DEF EntriesOf
    <3>2. QED
      BY <1>2, <2>1, <2>3, <3>1 DEF SubmitReading, TtlInv, HasOperator
  <2>6. LifeLeft'
    <3> SUFFICES ASSUME NEW e \in Device, metered'[e] <= TTL_THRESHOLD
                 PROVE  \A k \in EntriesOf(e)' :
                          k \in entry' /\ ttl'[k] >= TTL_THRESHOLD - metered'[e]
      BY DEF LifeLeft
    <3>1. CASE e = d
      <4>1. metered'[e] = 0
        BY <1>2, <3>1 DEF SubmitReading, TtlInv, TypeOK
      <4>2. EntriesOf(e)' = EntriesOf(d)
        BY <1>2, <3>1 DEF SubmitReading, EntriesOf
      <4>3. QED
        BY <2>3, <4>1, <4>2, TtlAssumption
    <3>2. CASE e # d
      <4>1. metered'[e] = metered[e] /\ operator'[e] = operator[e]
        BY <1>2, <3>2 DEF SubmitReading, TtlInv, TypeOK
      <4>2. QED
        BY <2>3, <2>4, <4>1, LifeKept
    <3>3. QED
      BY <3>1, <3>2
  <2>7. QED
    BY <2>4, <2>5, <2>6 DEF TtlInv
<1>3. ASSUME NEW d \in Device, NEW o \in Operator, RegisterDevice(d, o)
      PROVE  TtlInv'
  <2> DEFINE keys == {"registration", "tariff", "deposit"} \X {d}
  <2>1. keys \in SUBSET Key
    BY KeysOf
  <2>2. /\ entry' = entry \cup keys /\ entry' \subseteq Key
        /\ ttl' \in [Key -> Int]
        /\ \A k \in Key : /\ -1 <= ttl'[k]
                          /\ ttl'[k] <= TTL_EXTEND_TO \/ ttl'[k] <= MinTtl
        /\ \A k \in entry : ttl'[k] >= ttl[k]
    BY <1>3, <2>1, TouchGives DEF RegisterDevice, TtlInv
  <2>3. TypeOK'
    BY <1>3, <2>2 DEF RegisterDevice, TtlInv, TypeOK
  <2>4. HasOperator'
    <3> SUFFICES ASSUME NEW e \in Device, <<"registration", e>> \in entry'
                 PROVE  operator'[e] \in Operator
      BY DEF HasOperator
    <3>1. e # d => <<"registration", e>> \in entry
      BY <2>2
    <3>2. QED
      BY <1>3, <3>1 DEF RegisterDevice, TtlInv, TypeOK, HasOperator
  <2>5. LifeLeft'
    <3> SUFFICES ASSUME NEW e \in Device, metered'[e] <= TTL_THRESHOLD
                 PROVE  \A k \in EntriesOf(e)' :
                          k \in entry' /\ ttl'[k] >= TTL_THRESHOLD - metered'[e]
      BY DEF LifeLeft
    <3>1. metered'[e] = metered[e]
      BY <1>3 DEF RegisterDevice
    <3>2. <<"registration", e>> \in EntriesOf(e)
      BY DEF EntriesOf
    <3>3. <<"registration", e>> \in entry
      BY <3>1, <3>2 DEF TtlInv, LifeLeft
    <3>4. operator'[e] = operator[e]
      BY <1>3, <3>3 DEF RegisterDevice, TtlInv, TypeOK
    <3>5. QED
      BY <2>2, <2>3, <3>1, <3>4, LifeKept
  <2>6. QED
    BY <2>3, <2>4, <2>5 DEF TtlInv
<1>4. ASSUME NEW o \in Operator, SettleBalance(o) PROVE TtlInv'
  <2>1. {<<"operator", o>>} \in SUBSET Key
    BY DEF Key
  <2>2. \A d \in Device : <<"registration", d>> # <<"operator", o>>
    OBVIOUS
  <2>3. QED
    BY <1>4, <2>1, <2>2, TouchKeeps DEF SettleBalance
<1>5. CASE CloseLedger
  <2>1. TypeOK'
    BY <1>5, TtlAssumption DEF CloseLedger, TtlInv, TypeOK, LongAgo
  <2>2. HasOperator'
    BY <1>5 DEF CloseLedger, TtlInv, HasOperator
  <2>3. LifeLeft'
    <3> SUFFICES ASSUME NEW d \in Device, metered'[d] <= TTL_THRESHOLD,
                        NEW k \in EntriesOf(d)'
                 PROVE  k \in entry' /\ ttl'[k] >= TTL_THRESHOLD - metered'[d]
      BY DEF LifeLeft
    <3>1. metered[d] \in Int /\ TTL_THRESHOLD \in Int /\ TTL_THRESHOLD < LongAgo
      BY TtlAssumption DEF TtlInv, TypeOK, LongAgo
    <3>2. metered'[d] = metered[d] + 1
      BY <1>5, <3>1, TtlAssumption DEF CloseLedger, LongAgo
    <3>3. k \in EntriesOf(d)
      BY <1>5 DEF CloseLedger, EntriesOf
    <3>4. k \in entry /\ ttl[k] >= TTL_THRESHOLD - metered[d]
      BY <3>1, <3>2, <3>3 DEF TtlInv, LifeLeft
    <3>5. k \in Key /\ ttl[k] \in Int
      BY <3>4 DEF TtlInv, TypeOK
    <3>6. ttl'[k] >= ttl[k] - 1
      BY <1>5, <3>5 DEF CloseLedger
    <3>7. ttl'[k] \in Int
      BY <2>1, <3>5 DEF TypeOK
    <3>8. QED
      BY <1>5, <3>1, <3>2, <3>4, <3>5, <3>6, <3>7 DEF CloseLedger
  <2>4. QED
    BY <2>1, <2>2, <2>3 DEF TtlInv
<1>6. ASSUME NEW k \in Key, Restore(k) PROVE TtlInv'
  <2>1. TypeOK'
    BY <1>6, TtlAssumption DEF Restore, TtlInv, TypeOK
  <2>2. HasOperator'
    BY <1>6 DEF Restore, TtlInv, HasOperator
  <2>3. \A e \in entry : e \in entry' /\ ttl'[e] >= ttl[e]
    BY <1>6, TtlAssumption DEF Restore, TtlInv, TypeOK
  <2>4. LifeLeft'
    BY <1>6, <2>1, <2>3, LifeKept DEF Restore, LifeLeft
  <2>5. QED
    BY <2>1, <2>2, <2>4 DEF TtlInv
<1>7. CASE RestoreInstance
  <2>1. TypeOK'
    BY <1>7, TtlAssumption DEF RestoreInstance, TtlInv, TypeOK
  <2>2. HasOperator' /\ LifeLeft'
    BY <1>7 DEF RestoreInstance, TtlInv, HasOperator, LifeLeft, EntriesOf
  <2>3. QED
    BY <2>1, <2>2 DEF TtlInv
<1>8. CASE UNCHANGED vars
  BY <1>8 DEF vars, TtlInv, TypeOK, HasOperator, LifeLeft, EntriesOf
<1>9. ASSUME NEW k \in Key, GetEntry(k) PROVE TtlInv'
  BY <1>9, TouchKeeps DEF GetEntry
<1>10. QED
  BY <1>1, <1>2, <1>3, <1>4, <1>5, <1>6, <1>7, <1>8, <1>9 DEF Next

LEMMA InvIsLive == TtlInv => MeteredDeviceLives
<1> SUFFICES ASSUME TtlInv, NEW d \in Device, metered[d] <= TTL_THRESHOLD,
                    NEW k \in EntriesOf(d)
             PROVE  k \in entry /\ ttl[k] >= 0
  BY DEF MeteredDeviceLives, LiveFor
<1>1. k \in entry /\ ttl[k] >= TTL_THRESHOLD - metered[d]
  BY DEF TtlInv, LifeLeft
<1>2. ttl[k] \in Int /\ metered[d] \in Int /\ TTL_THRESHOLD \in Int
  BY <1>1, TtlAssumption DEF TtlInv, TypeOK, LongAgo
<1>3. QED
  BY <1>1, <1>2

----------------------------------------------------------------------------
(* The theorems.                                                           *)

\* Lifetimes stay within what the network and the extension allow, and every
\* key that exists is one of a device or an operator.
THEOREM TtlTypes == Spec => []TypeOK
<1>1. TtlInv => TypeOK
  BY DEF TtlInv
<1>2. QED
  BY <1>1, TtlInit, TtlNext, PTL DEF Spec

\* A device billed at least once in every TTL_THRESHOLD ledgers never finds an
\* entry archived, although extend_ttl mostly does nothing and readings write
\* neither its registration nor its tariff.
THEOREM MeteredDevicesLive == Spec => []MeteredDeviceLives
BY TtlInit, TtlNext, InvIsLive, PTL DEF Spec

============================================================================
