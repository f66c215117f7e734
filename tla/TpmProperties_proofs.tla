------------------------ MODULE TpmProperties_proofs ------------------------
(***************************************************************************)
(* Proofs about TPMContext.InitProperties (TpmProperties): no call caches *)
(* a truncated value, and once propertiesInitialized is set the limits    *)
(* are the TPM's own nonzero values, for every TPM and every sequence of   *)
(* calls.                                                                  *)
(***************************************************************************)
EXTENDS TpmProperties, TLAPS

\* The pieces of InitProperties(reply), named as in its LET.
Listed(reply) == {i \in 1..4 : PropOrder[i] \in reply.props}
BadIdx(reply) == {i \in Listed(reply) : ~InRange(PropOrder[i], tpm[PropOrder[i]])}
StoredIdx(reply) == {i \in Listed(reply) : \A j \in BadIdx(reply) : i < j}
ReadLimits(reply) ==
  [p \in Props |-> IF \E i \in StoredIdx(reply) : PropOrder[i] = p
                   THEN tpm[p] % (Bound(p) + 1) ELSE limits[p]]
Filled(reply) ==
  [ReadLimits(reply) EXCEPT !["InputBuffer"] = IF @ = 0 THEN 1024 ELSE @]

\* The inductive invariant behind LimitCached and LimitsReported; TypeOK
\* gives the widths the arithmetic of the conversions needs.
IInv == TypeOK /\ LimitsReported /\ LimitCached

\* The widths, as facts about numbers.
LEMMA WidthFacts ==
  /\ MaxUint8 \in Nat /\ MaxUint16 \in Nat
  /\ MaxUint8 < MaxUint16 /\ 1024 =< MaxUint16
  /\ \A p \in Props : Bound(p) \in Nat /\ Bound(p) =< MaxUint16
  /\ Bound("PCRSelectMin") = MaxUint8
BY DEF MaxUint8, MaxUint16, Bound

\* The property codes in order are the four properties.
LEMMA PropOrderFacts ==
  /\ \A i \in 1..4 : PropOrder[i] \in Props
  /\ \A p \in Props : \E i \in 1..4 : PropOrder[i] = p
  /\ \A i, j \in 1..4 : PropOrder[i] = PropOrder[j] => i = j
  /\ PropOrder[1] = "InputBuffer"
BY DEF PropOrder, Props

\* InitProperties(reply) in terms of the pieces above.
LEMMA InitPropertiesShape ==
  ASSUME NEW reply, InitProperties(reply)
  PROVE  /\ calls < MaxCalls /\ calls' = calls + 1 /\ UNCHANGED tpm
         /\ ~reply.ok => UNCHANGED <<limits, propertiesInitialized>>
         /\ reply.ok /\ BadIdx(reply) # {} =>
              limits' = ReadLimits(reply) /\ UNCHANGED propertiesInitialized
         /\ reply.ok /\ BadIdx(reply) = {} =>
              /\ limits' = Filled(reply)
              /\ propertiesInitialized' = (propertiesInitialized \/ ChecksPass(Filled(reply)))
BY Zenon DEF InitProperties, Listed, BadIdx, StoredIdx, ReadLimits, Filled

\* A value InitProperties stores is the TPM's own, unchanged by the
\* conversion: only properties before the first out-of-range one are stored.
LEMMA ReadValue ==
  ASSUME TypeOK, NEW reply, NEW p \in Props
  PROVE  \/ ReadLimits(reply)[p] = limits[p]
         \/ ReadLimits(reply)[p] = tpm[p] /\ InRange(p, tpm[p])
<1>1. CASE \E i \in StoredIdx(reply) : PropOrder[i] = p
  <2>1. PICK i \in StoredIdx(reply) : PropOrder[i] = p BY <1>1
  <2>2. i \notin BadIdx(reply) BY <2>1 DEF StoredIdx, BadIdx, Listed
  <2>3. InRange(p, tpm[p]) BY <2>1, <2>2 DEF StoredIdx, BadIdx, Listed
  <2>4. tpm[p] \in Nat /\ Bound(p) \in Nat /\ tpm[p] =< Bound(p)
    BY <2>3, WidthFacts, PropertiesAssumption DEF TypeOK, InRange
  <2>5. tpm[p] % (Bound(p) + 1) = tpm[p] BY <2>4
  <2> QED BY <1>1, <2>3, <2>5 DEF ReadLimits
<1>2. CASE ~\E i \in StoredIdx(reply) : PropOrder[i] = p
  BY <1>2 DEF ReadLimits
<1> QED BY <1>1, <1>2

\* Once initialised, every property but the input buffer is in range, so
\* a later reply can only be refused at its first property, before any
\* field is stored.
LEMMA InitializedReply ==
  ASSUME TypeOK, LimitsReported, propertiesInitialized, NEW reply
  PROVE  BadIdx(reply) # {} => ReadLimits(reply) = limits
<1>1. \A p \in Props \ {"InputBuffer"} : InRange(p, tpm[p])
  <2> SUFFICES ASSUME NEW p \in Props \ {"InputBuffer"} PROVE tpm[p] =< Bound(p)
    BY DEF InRange
  <2>1. limits[p] = tpm[p] BY DEF LimitsReported
  <2>2. CASE p = "PCRSelectMin"
    BY <2>1, <2>2, WidthFacts DEF TypeOK
  <2>3. CASE p # "PCRSelectMin"
    BY <2>1, <2>3 DEF TypeOK, Bound, Props
  <2> QED BY <2>2, <2>3
<1>2. BadIdx(reply) \subseteq {1}
  BY <1>1, PropOrderFacts DEF BadIdx, Listed
<1>3. BadIdx(reply) # {} => StoredIdx(reply) = {}
  BY <1>2 DEF StoredIdx, Listed
<1> QED BY <1>3 DEF ReadLimits, TypeOK

\* A step of InitProperties keeps the invariant.
LEMMA InitPropertiesInv ==
  ASSUME IInv, NEW reply \in Replies, InitProperties(reply)
  PROVE  IInv'
<1> USE PropertiesAssumption
<1>1. /\ calls < MaxCalls /\ calls' = calls + 1 /\ UNCHANGED tpm
  BY InitPropertiesShape
<1>2. TypeOK /\ LimitsReported /\ LimitCached BY DEF IInv
<1>3. calls' \in 0..MaxCalls /\ tpm' \in [Props -> Values]
  BY <1>1, <1>2 DEF TypeOK
<1>4. CASE ~reply.ok
  <2>1. UNCHANGED <<limits, propertiesInitialized>> BY <1>4, InitPropertiesShape
  <2> QED BY <1>1, <1>2, <1>3, <2>1 DEF IInv, TypeOK, LimitsReported, LimitCached
\* The limits read from the reply: each is the old value or the TPM's, in
\* range; so they keep their widths and stay cached values.
<1>5. \A p \in Props :
        /\ ReadLimits(reply)[p] \in {limits[p], tpm[p]}
        /\ ReadLimits(reply)[p] \in 0..Bound(p)
  <2> SUFFICES ASSUME NEW p \in Props
               PROVE  /\ ReadLimits(reply)[p] \in {limits[p], tpm[p]}
                      /\ ReadLimits(reply)[p] \in 0..Bound(p)
    OBVIOUS
  <2>1. limits[p] \in 0..Bound(p)
    <3>1. CASE p = "PCRSelectMin" BY <3>1, <1>2, WidthFacts DEF TypeOK
    <3>2. CASE p # "PCRSelectMin" BY <3>2, <1>2 DEF TypeOK, Bound
    <3> QED BY <3>1, <3>2
  <2>2. tpm[p] \in Nat BY <1>2 DEF TypeOK
  <2> QED BY <2>1, <2>2, <1>2, ReadValue DEF InRange
<1>6. ReadLimits(reply) \in [Props -> 0..MaxUint16]
      /\ ReadLimits(reply)["PCRSelectMin"] \in 0..MaxUint8
  <2>1. \A p \in Props : ReadLimits(reply)[p] \in 0..MaxUint16
    BY <1>5, WidthFacts
  <2>2. ReadLimits(reply)["PCRSelectMin"] \in 0..MaxUint8
    BY <1>5, WidthFacts DEF Props
  <2> QED BY <2>1, <2>2 DEF ReadLimits
<1>7. CASE reply.ok /\ BadIdx(reply) # {}
  <2>1. limits' = ReadLimits(reply) /\ UNCHANGED propertiesInitialized
    BY <1>7, InitPropertiesShape
  <2>2. TypeOK' BY <2>1, <1>3, <1>6, <1>2 DEF TypeOK
  <2>3. LimitCached' BY <2>1, <1>1, <1>5, <1>2 DEF LimitCached
  <2>4. LimitsReported'
    <3>1. CASE propertiesInitialized
      <4>1. limits' = limits BY <3>1, <2>1, <1>7, <1>2, InitializedReply
      <4> QED BY <4>1, <2>1, <1>1, <1>2 DEF LimitsReported
    <3>2. CASE ~propertiesInitialized
      BY <3>2, <2>1 DEF LimitsReported
    <3> QED BY <3>1, <3>2
  <2> QED BY <2>2, <2>3, <2>4 DEF IInv
<1>8. CASE reply.ok /\ BadIdx(reply) = {}
  <2>1. /\ limits' = Filled(reply)
        /\ propertiesInitialized' = (propertiesInitialized \/ ChecksPass(Filled(reply)))
    BY <1>8, InitPropertiesShape
  <2>2. Filled(reply) = [p \in Props |-> IF p = "InputBuffer" /\ ReadLimits(reply)[p] = 0
                                        THEN 1024 ELSE ReadLimits(reply)[p]]
    BY DEF Filled, ReadLimits
  <2>3. TypeOK'
    <3>1. Filled(reply) \in [Props -> 0..MaxUint16]
      BY <2>2, <1>6, WidthFacts
    <3>2. Filled(reply)["PCRSelectMin"] \in 0..MaxUint8
      BY <2>2, <1>6 DEF Props
    <3> QED BY <3>1, <3>2, <2>1, <1>3 DEF TypeOK
  <2>4. LimitCached'
    BY <2>1, <2>2, <1>1, <1>5, <1>2 DEF LimitCached
  \* The input buffer: the TPM's value or the default, never 0.
  <2>5. propertiesInitialized' =>
          \A p \in Props \ {"InputBuffer"} : Filled(reply)[p] = tpm[p] /\ Filled(reply)[p] # 0
    <3>1. CASE propertiesInitialized
      BY <3>1, <2>2, <1>5, <1>2 DEF LimitsReported
    <3>2. CASE ~propertiesInitialized
      <4>1. propertiesInitialized' => ChecksPass(Filled(reply)) BY <3>2, <2>1
      <4>2. \A p \in Props \ {"InputBuffer"} : Filled(reply)[p] \in {0, tpm[p]}
        BY <2>2, <1>5, <1>2 DEF LimitCached
      <4> QED BY <4>1, <4>2 DEF ChecksPass, Props
    <3> QED BY <3>1, <3>2
  <2>6. Filled(reply)["InputBuffer"] \in {tpm["InputBuffer"], 1024} \ {0}
    <3>1. ReadLimits(reply)["InputBuffer"] \in {0, tpm["InputBuffer"], 1024}
      BY <1>5, <1>2 DEF LimitCached, Props
    <3> QED BY <3>1, <2>2 DEF Props
  <2>7. LimitsReported' BY <2>1, <2>5, <2>6, <1>1 DEF LimitsReported
  <2> QED BY <2>3, <2>4, <2>7 DEF IInv
<1> QED BY <1>4, <1>7, <1>8

\* The invariant holds initially and is kept by every step.
LEMMA IInvInit == Init => IInv
<1> SUFFICES ASSUME Init PROVE IInv OBVIOUS
<1>1. TypeOK
  <2>1. limits \in [Props -> 0..MaxUint16] BY WidthFacts DEF Init
  <2>2. limits["PCRSelectMin"] \in 0..MaxUint8 BY WidthFacts DEF Init, Props
  <2>3. calls \in 0..MaxCalls BY PropertiesAssumption DEF Init
  <2>4. tpm \in [Props -> Values] /\ propertiesInitialized \in BOOLEAN BY DEF Init
  <2> QED BY <2>1, <2>2, <2>3, <2>4, Zenon DEF TypeOK
<1>2. LimitsReported /\ LimitCached BY DEF Init, LimitsReported, LimitCached
<1> QED BY <1>1, <1>2 DEF IInv

LEMMA IInvStep == IInv /\ [Next]_vars => IInv'
<1> SUFFICES ASSUME IInv, [Next]_vars PROVE IInv'
  OBVIOUS
<1>1. CASE CallInitProperties BY <1>1, InitPropertiesInv DEF CallInitProperties
<1>2. CASE InitPropertiesIfNeeded BY <1>2, InitPropertiesInv DEF InitPropertiesIfNeeded
<1>3. CASE UNCHANGED vars
  BY <1>3 DEF vars, IInv, TypeOK, LimitsReported, LimitCached
<1> QED BY <1>1, <1>2, <1>3 DEF Next

\* Whatever the TPM reports and however calls fail part-way, the cached
\* limits are only ever 0, the TPM's own values or the 1024 input buffer
\* default: the range checks of tpm.go:453 and 468 keep a value that does
\* not fit its field from being stored truncated.
THEOREM NoTruncatedLimit == Spec => []LimitCached
<1>1. IInv => LimitCached BY DEF IInv
<1> QED BY <1>1, IInvInit, IInvStep, PTL DEF Spec

\* Once InitProperties has succeeded, whatever calls follow (failing
\* part-way, or with partial replies), every cached limit is the TPM's own
\* nonzero value, the input buffer possibly the 1024 default (tpm.go:444-496).
THEOREM LimitsCorrect == Spec => []LimitsReported
<1>1. IInv => LimitsReported BY DEF IInv
<1> QED BY <1>1, IInvInit, IInvStep, PTL DEF Spec

=============================================================================
