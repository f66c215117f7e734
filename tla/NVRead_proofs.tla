---------------------------- MODULE NVRead_proofs ----------------------------
(***************************************************************************)
(* Proofs about the NV read composition: each component keeps its own    *)
(* inductive invariant, proved in its own module and reached here        *)
(* through the instances P and R of NVRead; the one fact                  *)
(* that crosses them is that a read only starts with the nonzero          *)
(* maxNVBufferSize that a successful InitProperties stored.               *)
(***************************************************************************)
EXTENDS NVRead, TLAPS

\* The assumptions of the two components hold of the constants NVRead
\* gives them.
LEMMA PAssumption == P!PropertiesAssumption
BY NVReadAssumption DEF P!PropertiesAssumption

LEMMA RAssumption == R!ReadAssumption
<1>1. P!MaxUint16 = R!MaxUint16 BY DEF P!MaxUint16, R!MaxUint16
<1>2. Len(NVData) < R!MaxUint16 BY NVReadAssumption DEF R!MaxUint16
<1> QED BY <1>1, <1>2, NVReadAssumption DEF R!ReadAssumption

\* The components' results, with their assumptions discharged.
LEMMA PFacts ==
  /\ P!MaxUint16 \in Nat
  /\ P!Init => P!IInv
  /\ P!IInv /\ [P!Next]_P!vars => P!IInv'
BY PAssumption, P!WidthFacts, P!IInvInit, P!IInvStep
   DEF P!PropertiesAssumption, P!WidthFacts, P!IInvInit, P!IInvStep

LEMMA RFacts ==
  /\ R!Init => R!IInv
  /\ R!IInv /\ [R!Next]_R!vars => R!IInv'
BY RAssumption, R!IInvInit, R!IInvStep
   DEF R!ReadAssumption, R!IInvInit, R!IInvStep

\* The inductive invariant: both components' invariants, and the chunk
\* size of a started read is nonzero.
IInv == P!IInv /\ R!IInv /\ ChunkSizeNonZero

\* The limits a successful InitProperties leaves: the NV buffer size is
\* a nonzero uint16.
LEMMA NVBufferLimit ==
  ASSUME P!IInv, propertiesInitialized
  PROVE  limits["NVBufferMax"] \in 1..P!MaxUint16
<1>1. limits["NVBufferMax"] # 0
  BY DEF P!IInv, P!LimitsReported, P!Props
<1>2. limits["NVBufferMax"] \in 0..P!MaxUint16
  BY DEF P!IInv, P!TypeOK, P!Props
<1>3. P!MaxUint16 \in Nat
  BY PFacts
<1> QED BY <1>1, <1>2, <1>3

\* A read started with chunk size ms is a step of the helper, and starts
\* with a nonzero chunk size when ms is one.
LEMMA StartStep ==
  ASSUME NEW r \in ReadRequests, NEW ms \in 1..P!MaxUint16,
         R!Start(r.size, ms, r.sess, r.cont)
  PROVE  /\ [R!Next]_R!vars
         /\ ChunkSizeNonZero'
<1>1. P!MaxUint16 \in Nat
  BY PFacts
<1> DEFINE r2 == [size |-> r.size, maxSize |-> ms, sess |-> r.sess, cont |-> r.cont]
<1>2. r2 \in R!Requests
  BY <1>1 DEF ReadRequests, R!Requests
<1>3. R!Start(r2.size, r2.maxSize, r2.sess, r2.cont)
  OBVIOUS
<1>4. R!Next
  BY <1>2, <1>3 DEF R!Next
<1>5. req'.maxSize = ms
  BY DEF R!Start
<1> QED BY <1>4, <1>5, <1>1 DEF ChunkSizeNonZero

LEMMA IInvInit == Init => IInv
<1> SUFFICES ASSUME Init PROVE IInv
  OBVIOUS
<1>1. P!IInv BY PFacts DEF Init
<1>2. R!IInv BY RFacts DEF Init
<1>3. ChunkSizeNonZero BY DEF Init, R!Init, ChunkSizeNonZero
<1> QED BY <1>1, <1>2, <1>3 DEF IInv

LEMMA IInvStep == IInv /\ [Next]_vars => IInv'
<1> SUFFICES ASSUME IInv, [Next]_vars PROVE IInv'
  OBVIOUS
<1>0. /\ UNCHANGED pvars => UNCHANGED P!vars
      /\ UNCHANGED rvars => UNCHANGED R!vars
  BY DEF pvars, rvars, P!vars, R!vars
<1>1. ASSUME [P!Next]_P!vars, [R!Next]_R!vars, ChunkSizeNonZero'
      PROVE  IInv'
  BY <1>1, PFacts, RFacts DEF IInv
<1>2. ASSUME NEW r \in ReadRequests, NVReadRaw(r) PROVE IInv'
  <2>1. CASE /\ propertiesInitialized
             /\ R!Start(r.size, limits["NVBufferMax"], r.sess, r.cont)
             /\ UNCHANGED pvars
    <3>1. limits["NVBufferMax"] \in 1..P!MaxUint16
      BY <2>1, NVBufferLimit DEF IInv
    <3> QED BY <2>1, <3>1, <1>0, <1>1, StartStep
  <2>2. CASE /\ ~propertiesInitialized
             /\ phase # "Running"
             /\ \E reply \in P!Replies : P!InitProperties(reply)
             /\ \E ms \in NVBufferSizes :
                  /\ ms = limits'["NVBufferMax"]
                  /\ IF propertiesInitialized'
                     THEN R!Start(r.size, ms, r.sess, r.cont)
                     ELSE UNCHANGED rvars
    <3>1. P!Next
      BY <2>2 DEF P!Next, P!CallInitProperties
    <3>2. P!IInv'
      BY <3>1, PFacts DEF IInv
    <3>3. PICK ms \in NVBufferSizes :
            /\ ms = limits'["NVBufferMax"]
            /\ IF propertiesInitialized'
               THEN R!Start(r.size, ms, r.sess, r.cont)
               ELSE UNCHANGED rvars
      BY <2>2
    <3>4. CASE propertiesInitialized'
      <4>1. ms \in 1..P!MaxUint16
        <5>1. limits'["NVBufferMax"] # 0 /\ limits'["NVBufferMax"] \in 0..P!MaxUint16
          BY <3>2, <3>4 DEF P!IInv, P!LimitsReported, P!TypeOK, P!Props
        <5> QED BY <5>1, <3>3, PFacts
      <4> QED BY <3>1, <3>3, <3>4, <4>1, StartStep, <1>1
    <3>5. CASE ~propertiesInitialized'
      <4>1. UNCHANGED rvars BY <3>3, <3>5
      <4>2. ChunkSizeNonZero' BY <4>1 DEF IInv, ChunkSizeNonZero, rvars
      <4> QED BY <3>1, <4>1, <4>2, <1>0, <1>1
    <3> QED BY <3>4, <3>5
  <2> QED BY <1>2, <2>1, <2>2 DEF NVReadRaw
<1>3. CASE R!Iterate /\ UNCHANGED pvars
  <2>1. phase = "Running" /\ UNCHANGED req BY <1>3 DEF R!Iterate
  <2>2. ChunkSizeNonZero' BY <2>1 DEF IInv, ChunkSizeNonZero
  <2>3. [R!Next]_R!vars BY <1>3 DEF R!Next
  <2> QED BY <1>3, <2>2, <2>3, <1>0, <1>1
<1>4. CASE R!LastRun /\ UNCHANGED pvars
  <2>1. phase = "Running" /\ UNCHANGED req BY <1>4 DEF R!LastRun
  <2>2. ChunkSizeNonZero' BY <2>1 DEF IInv, ChunkSizeNonZero
  <2>3. [R!Next]_R!vars BY <1>4 DEF R!Next
  <2> QED BY <1>4, <2>2, <2>3, <1>0, <1>1
<1>5. ASSUME NEW s \in Sessions, R!Evict(s) /\ UNCHANGED pvars PROVE IInv'
  <2>1. UNCHANGED <<phase, req>> BY <1>5 DEF R!Evict
  <2> QED BY <1>5, <2>1, <1>0, <1>1 DEF R!Next, IInv, ChunkSizeNonZero
<1>6. CASE P!CallInitProperties /\ UNCHANGED rvars
  BY <1>6, <1>0, <1>1 DEF P!Next, IInv, ChunkSizeNonZero, rvars
<1>7. CASE UNCHANGED vars
  BY <1>7, <1>0, <1>1 DEF vars, IInv, ChunkSizeNonZero, rvars
<1> QED BY <1>2, <1>3, <1>4, <1>5, <1>6, <1>7 DEF Next

\* Every read the helper starts has a nonzero chunk size: it is let through
\* by initPropertiesIfNeeded only after InitProperties stored a nonzero
\* maxNVBufferSize, which later calls, failed or partial, never clear
\* (tpm.go:444-496).
THEOREM ChunkSizeCorrect == Spec => []ChunkSizeNonZero
<1>1. IInv => ChunkSizeNonZero
  BY DEF IInv
<1> QED BY <1>1, IInvInit, IInvStep, PTL DEF Spec

=============================================================================
