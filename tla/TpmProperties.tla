--------------------------- MODULE TpmProperties ---------------------------
(***************************************************************************)
(* TPMContext.InitProperties and initPropertiesIfNeeded (tpm.go): the      *)
(* host reads the TPM's fixed properties with TPM2_GetCapability and       *)
(* caches four limits (the input buffer, the largest digest, the NV buffer *)
(* and the minimum PCR selection size), which the rest of the library uses *)
(* to size commands.                                                       *)
(*                                                                         *)
(* The TPM's fixed properties are chosen once, in Init, among small values *)
(* that include 0 and values above the fields' widths.  Each call of        *)
(* GetCapability may fail, or return any subset of the four properties (a  *)
(* TPM that omits one, or a reply cut short by moreData), always in        *)
(* ascending property order.                                               *)
(***************************************************************************)
EXTENDS Naturals

CONSTANTS
  Values,     \* values a TPM may report for one of the four properties
  MaxCalls    \* bound on the number of InitProperties calls

ASSUME PropertiesAssumption ==
  /\ Values \subseteq Nat
  /\ MaxCalls \in Nat

\* TPM_PT_INPUT_BUFFER, TPM_PT_PCR_SELECT_MIN, TPM_PT_MAX_DIGEST and
\* TPM_PT_NV_BUFFER_MAX, in the order of their property codes.
Props == {"InputBuffer", "PCRSelectMin", "MaxDigest", "NVBufferMax"}
PropOrder == <<"InputBuffer", "PCRSelectMin", "MaxDigest", "NVBufferMax">>

MaxUint8  == 255
MaxUint16 == 65535

VARIABLES
  tpm,                    \* the TPM's fixed properties
  limits,                 \* maxBufferSize, minPcrSelectSize, maxDigestSize, maxNVBufferSize
  propertiesInitialized,  \* TPMContext.propertiesInitialized
  calls                   \* InitProperties calls made so far

vars == <<tpm, limits, propertiesInitialized, calls>>

\* The width of the field a property is stored in: minPcrSelectSize is a
\* uint8, the other three are uint16.
Bound(p) == IF p = "PCRSelectMin" THEN MaxUint8 ELSE MaxUint16

\* Mutant: the value is converted without the range check.
InRangeAlways(p, v) == TRUE

\* Mutant: TPM_PT_PCR_SELECT_MIN is range-checked against the uint16
\* bound of the other three, before its conversion to a uint8.
InRangeUint16(p, v) == v =< MaxUint16

\* The range checks of tpm.go:453 and 468.
InRange(p, v) == v =< Bound(p)

\* Mutant: a missing TPM_PT_NV_BUFFER_MAX is not rejected.
ChecksPassNoNV(l) == l["MaxDigest"] # 0 /\ l["PCRSelectMin"] # 0

\* The checks that end InitProperties (tpm.go:478-486).
ChecksPass(l) == \A p \in {"MaxDigest", "NVBufferMax", "PCRSelectMin"} : l[p] # 0

\* One InitProperties call on the reply of GetCapability: an error, or the
\* set of properties the TPM returned.  The loop stores each property in
\* order, converted to the field's width, and returns at the first value
\* out of range with the earlier ones already stored; then the input
\* buffer defaults to 1024 and the other three must be nonzero.  Only
\* then is propertiesInitialized set; a failed call leaves it as it was.
InitProperties(reply) ==
  /\ calls < MaxCalls
  /\ calls' = calls + 1
  /\ IF ~reply.ok
     THEN UNCHANGED <<limits, propertiesInitialized>>
     ELSE LET listed == {i \in 1..4 : PropOrder[i] \in reply.props}
              bad    == {i \in listed : ~InRange(PropOrder[i], tpm[PropOrder[i]])}
              stored == {i \in listed : \A j \in bad : i < j}
              read   == [p \in Props |->
                           IF \E i \in stored : PropOrder[i] = p
                           THEN tpm[p] % (Bound(p) + 1) ELSE limits[p]]
              filled == [read EXCEPT !["InputBuffer"] = IF @ = 0 THEN 1024 ELSE @]
          IN IF bad # {}
             THEN /\ limits' = read
                  /\ UNCHANGED propertiesInitialized
             ELSE /\ limits' = filled
                  /\ propertiesInitialized' = (propertiesInitialized \/ ChecksPass(filled))
  /\ UNCHANGED tpm

Replies == {[ok |-> FALSE, props |-> {}]} \cup [ok : {TRUE}, props : SUBSET Props]

Init ==
  /\ tpm \in [Props -> Values]
  /\ limits = [p \in Props |-> 0]
  /\ propertiesInitialized = FALSE
  /\ calls = 0

\* InitProperties may be called at any time; initPropertiesIfNeeded calls
\* it only while propertiesInitialized is clear.
CallInitProperties == \E reply \in Replies : InitProperties(reply)
InitPropertiesIfNeeded ==
  /\ ~propertiesInitialized
  /\ \E reply \in Replies : InitProperties(reply)

Next == CallInitProperties \/ InitPropertiesIfNeeded

Spec == Init /\ [][Next]_vars

-----------------------------------------------------------------------------
(* Properties.                                                             *)

TypeOK ==
  /\ tpm \in [Props -> Values]
  /\ limits \in [Props -> 0..MaxUint16]
  /\ limits["PCRSelectMin"] \in 0..MaxUint8
  /\ propertiesInitialized \in BOOLEAN
  /\ calls \in 0..MaxCalls

\* No call, not even one that fails part-way with the earlier fields
\* already stored (tpm.go:453-470), caches a truncated value: every limit
\* is still 0, the TPM's own value, or (the input buffer only) the 1024
\* default.  The range check must run before the uint16/uint8 conversion,
\* against the width of the field the value goes to.
LimitCached ==
  \A p \in Props : limits[p] \in {0, tpm[p], IF p = "InputBuffer" THEN 1024 ELSE 0}

\* Once InitProperties has succeeded, across any sequence of calls that
\* failed part-way (leaving some fields stored) or got partial replies,
\* every cached limit is the TPM's own value and nonzero; only the input
\* buffer may instead hold the 1024 default.
LimitsReported ==
  propertiesInitialized =>
    /\ \A p \in Props \ {"InputBuffer"} : limits[p] = tpm[p] /\ limits[p] # 0
    /\ limits["InputBuffer"] \in {tpm["InputBuffer"], 1024} \ {0}

=============================================================================
