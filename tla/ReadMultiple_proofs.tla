------------------------ MODULE ReadMultiple_proofs ------------------------
(***************************************************************************)
(* Proofs about ReadMultiple for every value of its constants: the type   *)
(* invariant, that a read with a policy session sends at most one command, *)
(* and that the helper refines the safety part of the atomic read.        *)
(***************************************************************************)
EXTENDS ReadMultiple, SequenceTheorems, TLAPS

-----------------------------------------------------------------------------
(* Lemmas on the operators the model is built from.                        *)

\* The NV data is a byte string whose length fits a uint16 with room for
\* one more.
LEMMA NVDataFacts ==
  /\ NVData \in Seq(Nat)
  /\ Len(NVData) \in Nat
  /\ MaxUint16 \in Nat
  /\ Len(NVData) < MaxUint16
<1>1. NVData \in Seq(Nat)
  BY ReadAssumption
<1>2. Len(NVData) \in Nat
  BY <1>1, LenProperties
<1>3. MaxUint16 \in Nat
  BY DEF MaxUint16
<1> QED BY <1>1, <1>2, <1>3, ReadAssumption

\* The buffer make([]byte, size) is a sequence of size zeros.
LEMMA ZerosSeq ==
  ASSUME NEW n \in Nat
  PROVE  /\ [i \in 1..n |-> 0] \in Seq(Nat)
         /\ Len([i \in 1..n |-> 0]) = n
<1>1. [i \in 1..n |-> 0] \in [1..n -> Nat]
  OBVIOUS
<1>2. [i \in 1..n |-> 0] \in Seq(Nat)
  BY <1>1, SeqDef
<1> QED BY <1>1, <1>2, LenProperties

\* copy keeps the length of its destination, and writes src at `at`.
LEMMA CopyFacts ==
  ASSUME NEW d \in Seq(Nat), NEW at \in Nat, NEW src \in Seq(Nat)
  PROVE  /\ Copy(d, at, src) \in Seq(Nat)
         /\ Len(Copy(d, at, src)) = Len(d)
         /\ \A i \in 1..Len(d) :
              Copy(d, at, src)[i] = IF at < i /\ i =< at + Len(src) THEN src[i - at] ELSE d[i]
<1>0. /\ Len(d) \in Nat /\ d \in [1..Len(d) -> Nat]
      /\ Len(src) \in Nat /\ src \in [1..Len(src) -> Nat]
  BY LenProperties
<1>1. Copy(d, at, src) \in [1..Len(d) -> Nat]
  BY <1>0 DEF Copy
<1>2. Copy(d, at, src) \in Seq(Nat)
  BY <1>0, <1>1, SeqDef
<1>3. Len(Copy(d, at, src)) = Len(d)
  BY <1>0, <1>1, <1>2, LenProperties
<1> QED BY <1>1, <1>2, <1>3 DEF Copy

\* The bytes the TPM returns for sz bytes at offset, when within the data.
LEMMA NVSlice ==
  ASSUME NEW off \in Nat, NEW sz \in Nat, off + sz =< Len(NVData)
  PROVE  /\ SubSeq(NVData, off + 1, off + sz) \in Seq(Nat)
         /\ Len(SubSeq(NVData, off + 1, off + sz)) = sz
         /\ \A i \in 1..sz : SubSeq(NVData, off + 1, off + sz)[i] = NVData[off + i]
<1>0. /\ Len(NVData) \in Nat /\ NVData \in [1..Len(NVData) -> Nat]
  BY NVDataFacts, LenProperties
<1>1. \A i \in off + 1 .. off + sz : NVData[i] \in Nat
  BY <1>0
<1>2. /\ SubSeq(NVData, off + 1, off + sz) \in Seq(Nat)
      /\ Len(SubSeq(NVData, off + 1, off + sz)) = IF off + 1 =< off + sz THEN sz ELSE 0
      /\ \A i \in 1..sz : SubSeq(NVData, off + 1, off + sz)[i] = NVData[off + 1 + i - 1]
  BY <1>1, SubSeqProperties
<1> QED BY <1>2

\* The NV data's first n bytes, as a sequence equal to them.
LEMMA PrefixIsSubSeq ==
  ASSUME NEW d \in Seq(Nat), NEW n \in Nat, n =< Len(NVData), Len(d) = n,
         \A i \in 1..n : d[i] = NVData[i]
  PROVE  d = SubSeq(NVData, 1, n)
<1>1. /\ SubSeq(NVData, 0 + 1, 0 + n) \in Seq(Nat)
      /\ Len(SubSeq(NVData, 0 + 1, 0 + n)) = n
      /\ \A i \in 1..n : SubSeq(NVData, 0 + 1, 0 + n)[i] = NVData[0 + i]
  BY NVSlice
<1>2. /\ SubSeq(NVData, 1, n) \in Seq(Nat)
      /\ Len(SubSeq(NVData, 1, n)) = n
      /\ \A i \in 1..n : SubSeq(NVData, 1, n)[i] = NVData[i]
  BY <1>1
<1> QED BY <1>2, SeqEqual

-----------------------------------------------------------------------------
(* The inductive invariant.                                                *)

\* The current request is one a caller can make.
ReqOK ==
  /\ req.size \in 0..Len(NVData) + 1
  /\ req.maxSize \in Nat
  /\ req.maxSize =< MaxUint16
  /\ req.sess \subseteq Sessions
  /\ req.cont \subseteq req.sess

\* hasPolicySession is what execMultipleHelper computed for the sessions,
\* and a read with a policy session has sent a second command never, and
\* its one command only once the loop is over.
PolicyInv ==
  /\ issued \in Seq([offset : Nat, size : Nat])
  /\ hasPolicy = (req.sess \cap PolicySessions # {})
  /\ hasPolicy => \/ Len(issued) = 0
                  \/ Len(issued) = 1 /\ phase # "Running"

\* Inside the loop the counters split the request, and the first total
\* bytes of the buffer are the NV data.
Progress ==
  phase = "Running" =>
    /\ total + remaining = req.size
    /\ total =< Len(NVData)
    /\ Len(data) = req.size
    /\ \A i \in 1..total : data[i] = NVData[i]

\* A completed read holds the data.
DoneData == phase = "Done" => data = SubSeq(NVData, 1, req.size)

IInv == TypeOK /\ ReqOK /\ PolicyInv /\ Progress /\ DoneData

-----------------------------------------------------------------------------
(* One command of the loop.                                                *)

\* The piece a command reads is at most what remains, and all of it at the
\* last command.
LEMMA ChunkSizeFacts ==
  ASSUME IInv
  PROVE  /\ ChunkSize \in 0..remaining
         /\ IsLast => ChunkSize = remaining
<1>1. remaining \in Nat /\ req.maxSize \in Nat
  BY DEF IInv, TypeOK, ReqOK
<1> QED BY <1>1 DEF ChunkSize, IsLast

\* A command that succeeds moves its piece into the buffer and the
\* counters forward; it is within the data.
LEMMA RunOk ==
  ASSUME IInv, phase = "Running", NEW cont, NEW ok, NEW onOk,
         Run(cont, ok, onOk), Answer(ChunkSize, total, ok) = "Ok"
  PROVE  /\ ChunkSize \in 0..remaining
         /\ total + ChunkSize =< Len(NVData)
         /\ total' = total + ChunkSize
         /\ remaining' = remaining - ChunkSize
         /\ data' \in Seq(Nat)
         /\ Len(data') = req.size
         /\ \A i \in 1..total' : data'[i] = NVData[i]
         /\ flushed' = flushed \cup (req.sess \ cont)
         /\ phase' = onOk
         /\ issued' = Append(issued, [offset |-> total, size |-> ChunkSize])
<1>a. /\ remaining \in Nat /\ total \in Nat /\ data \in Seq(Nat)
  BY DEF IInv, TypeOK
<1>b. req.maxSize \in Nat /\ req.size \in 0..Len(NVData) + 1
  BY DEF IInv, ReqOK
<1>c. Len(data) = req.size /\ total + remaining = req.size
  BY DEF IInv, Progress
<1>0. /\ remaining \in Nat /\ total \in Nat /\ req.maxSize \in Nat /\ req.size \in Nat
      /\ req.size =< MaxUint16 /\ MaxUint16 \in Nat
      /\ data \in Seq(Nat) /\ Len(data) = req.size /\ total + remaining = req.size
  BY <1>a, <1>b, <1>c, NVDataFacts
<1>1. ChunkSize \in 0..remaining
  BY <1>0 DEF ChunkSize
<1>2. total + ChunkSize =< Len(NVData)
  BY <1>0, <1>1, NVDataFacts DEF Answer
<1>3. total + ChunkSize < MaxUint16 + 1
  BY <1>0, <1>1, <1>2, NVDataFacts
<1>4. /\ total' = total + ChunkSize
      /\ remaining' = remaining - ChunkSize
      /\ data' = Copy(data, total, SubSeq(NVData, total + 1, total + ChunkSize))
      /\ flushed' = flushed \cup (req.sess \ cont)
      /\ phase' = onOk
      /\ issued' = Append(issued, [offset |-> total, size |-> ChunkSize])
  <2>1. /\ total' = (total + ChunkSize) % (MaxUint16 + 1)
        /\ remaining' = (remaining - ChunkSize) % (MaxUint16 + 1)
        /\ data' = Copy(data, total, SubSeq(NVData, total + 1, total + ChunkSize))
        /\ flushed' = flushed \cup (req.sess \ cont)
        /\ phase' = onOk
        /\ issued' = Append(issued, [offset |-> total, size |-> ChunkSize])
    BY Zenon DEF Run
  <2>2. (total + ChunkSize) % (MaxUint16 + 1) = total + ChunkSize
    BY <1>0, <1>1, <1>3 DEF MaxUint16
  <2>3. (remaining - ChunkSize) % (MaxUint16 + 1) = remaining - ChunkSize
    <3>1. remaining - ChunkSize \in Nat /\ remaining - ChunkSize =< MaxUint16
      BY <1>0, <1>1
    <3> QED BY <3>1 DEF MaxUint16
  <2> QED BY <2>1, <2>2, <2>3
<1>5. /\ SubSeq(NVData, total + 1, total + ChunkSize) \in Seq(Nat)
      /\ Len(SubSeq(NVData, total + 1, total + ChunkSize)) = ChunkSize
      /\ \A i \in 1..ChunkSize : SubSeq(NVData, total + 1, total + ChunkSize)[i] = NVData[total + i]
  <2>1. ChunkSize \in Nat
    BY <1>0, <1>1
  <2> QED BY <2>1, <1>0, <1>2, NVSlice
<1>6. /\ data' \in Seq(Nat)
      /\ Len(data') = Len(data)
      /\ \A i \in 1..Len(data) :
           data'[i] = IF total < i /\ i =< total + ChunkSize THEN SubSeq(NVData, total + 1, total + ChunkSize)[i - total] ELSE data[i]
  <2>1. /\ Copy(data, total, SubSeq(NVData, total + 1, total + ChunkSize)) \in Seq(Nat)
        /\ Len(Copy(data, total, SubSeq(NVData, total + 1, total + ChunkSize))) = Len(data)
        /\ \A i \in 1..Len(data) :
             Copy(data, total, SubSeq(NVData, total + 1, total + ChunkSize))[i]
               = IF total < i /\ i =< total + Len(SubSeq(NVData, total + 1, total + ChunkSize))
                 THEN SubSeq(NVData, total + 1, total + ChunkSize)[i - total] ELSE data[i]
    BY <1>0, <1>5, CopyFacts
  <2> QED BY <2>1, <1>4, <1>5
<1>8. \A i \in 1..total' : data'[i] = NVData[i]
  <2> SUFFICES ASSUME NEW i \in 1..total' PROVE data'[i] = NVData[i]
    OBVIOUS
  <2>0. total' = total + ChunkSize /\ ChunkSize \in Nat
    BY <1>0, <1>1, <1>4
  <2>1. i \in 1..Len(data)
    BY <2>0, <1>0, <1>1
  <2>2. CASE i =< total
    <3>1. data'[i] = data[i]
      BY <2>1, <2>2, <1>0, <1>6
    <3> QED BY <3>1, <2>2 DEF IInv, Progress
  <2>3. CASE i > total
    <3>1. i - total \in 1..ChunkSize
      BY <2>0, <2>3, <1>0
    <3>2. total < i /\ i =< total + ChunkSize
      BY <2>0, <2>3, <3>1, <1>0
    <3>3. data'[i] = SubSeq(NVData, total + 1, total + ChunkSize)[i - total]
      BY <2>1, <3>2, <1>6
    <3> QED BY <3>1, <3>3, <1>0, <1>5
  <2> QED BY <2>2, <2>3, <1>0
<1> QED BY <1>0, <1>1, <1>2, <1>4, <1>6, <1>8

\* A command that fails changes nothing but the phase and the history.
LEMMA RunErr ==
  ASSUME NEW cont, NEW ok, NEW onOk,
         Run(cont, ok, onOk), Answer(ChunkSize, total, ok) # "Ok"
  PROVE  /\ phase' = "Failed"
         /\ UNCHANGED <<data, total, remaining, flushed>>
         /\ issued' = Append(issued, [offset |-> total, size |-> ChunkSize])
  BY DEF Run

\* One command of the loop, with the sessions cont, keeps the invariant:
\* an intermediate command (onOk = "Running") of a read without policy
\* sessions, or the last command (onOk = "Done").
LEMMA RunInv ==
  ASSUME IInv, phase = "Running", NEW cont, NEW ok, NEW onOk \in {"Running", "Done"},
         Run(cont, ok, onOk), UNCHANGED <<evicted, req, hasPolicy, calls>>,
         onOk = "Done" => IsLast,
         hasPolicy => onOk = "Done"
  PROVE  IInv'
<1>0. /\ ChunkSize \in 0..remaining
      /\ IsLast => ChunkSize = remaining
      /\ total \in Nat /\ remaining \in Nat
      /\ remaining =< Len(NVData) + 1
      /\ Len(NVData) \in Nat
  BY ChunkSizeFacts, NVDataFacts DEF IInv, TypeOK
<1>1. CASE Answer(ChunkSize, total, ok) = "Ok"
  <2>1. /\ total + ChunkSize =< Len(NVData)
        /\ total' = total + ChunkSize
        /\ remaining' = remaining - ChunkSize
        /\ data' \in Seq(Nat)
        /\ Len(data') = req.size
        /\ \A i \in 1..total' : data'[i] = NVData[i]
        /\ flushed' = flushed \cup (req.sess \ cont)
        /\ phase' = onOk
        /\ issued' = Append(issued, [offset |-> total, size |-> ChunkSize])
    BY <1>1, RunOk
  <2>2. TypeOK'
    BY <1>0, <2>1 DEF IInv, TypeOK, ReqOK
  <2>3. ReqOK'
    BY DEF IInv, ReqOK
  <2>4. PolicyInv'
    <3>1. issued' \in Seq([offset : Nat, size : Nat])
      BY <1>0, <2>1, AppendProperties DEF IInv, PolicyInv
    <3>2. Len(issued') = Len(issued) + 1
      BY <1>0, <2>1, AppendProperties DEF IInv, PolicyInv
    <3> QED BY <3>1, <3>2, <2>1 DEF IInv, PolicyInv
  <2>5. Progress'
    BY <1>0, <2>1 DEF IInv, Progress
  <2>6. DoneData'
    <3> SUFFICES ASSUME phase' = "Done" PROVE data' = SubSeq(NVData, 1, req.size)
      BY DEF DoneData
    <3>1. total' = req.size /\ req.size \in Nat
      BY <1>0, <2>1 DEF IInv, Progress
    <3> QED BY <3>1, <1>0, <2>1, PrefixIsSubSeq
  <2> QED BY <2>2, <2>3, <2>4, <2>5, <2>6 DEF IInv
<1>2. CASE Answer(ChunkSize, total, ok) # "Ok"
  <2>1. /\ phase' = "Failed"
        /\ UNCHANGED <<data, total, remaining, flushed>>
        /\ issued' = Append(issued, [offset |-> total, size |-> ChunkSize])
    BY <1>2, RunErr
  <2>2. TypeOK'
    BY <2>1 DEF IInv, TypeOK
  <2>3. PolicyInv'
    <3>1. issued' \in Seq([offset : Nat, size : Nat])
      BY <1>0, <2>1, AppendProperties DEF IInv, PolicyInv
    <3>2. Len(issued') = Len(issued) + 1
      BY <1>0, <2>1, AppendProperties DEF IInv, PolicyInv
    <3> QED BY <3>1, <3>2, <2>1 DEF IInv, PolicyInv
  <2> QED BY <2>1, <2>2, <2>3 DEF IInv, ReqOK, Progress, DoneData
<1> QED BY <1>1, <1>2

-----------------------------------------------------------------------------
(* Each action keeps the invariant.                                        *)

\* readMultipleHelper sets up a fresh read.
LEMMA StartInv ==
  ASSUME IInv, NEW r \in Requests, Start(r.size, r.maxSize, r.sess, r.cont)
  PROVE  IInv'
<1>1. /\ r.size \in 0..Len(NVData) + 1
      /\ r.maxSize \in Nat /\ r.maxSize =< MaxUint16
      /\ r.sess \subseteq Sessions /\ r.cont \subseteq r.sess
  <2>1. /\ r \in [size : 0..Len(NVData) + 1, maxSize : MaxSizes,
                  sess : SUBSET Sessions, cont : SUBSET Sessions]
        /\ r.cont \subseteq r.sess
    BY DEF Requests
  <2>2. /\ r.size \in 0..Len(NVData) + 1
        /\ r.maxSize \in MaxSizes
        /\ r.sess \in SUBSET Sessions
    BY <2>1
  <2>3. r.maxSize \in 0..MaxUint16
    BY <2>2, ReadAssumption
  <2> QED BY <2>1, <2>2, <2>3, NVDataFacts
<1>2. /\ req' = [size |-> r.size, maxSize |-> r.maxSize, sess |-> r.sess, cont |-> r.cont]
      /\ data' = [i \in 1..r.size |-> 0]
      /\ remaining' = r.size
      /\ total' = 0
      /\ issued' = << >>
      /\ hasPolicy' = (r.sess \cap PolicySessions # {})
      /\ phase' \in {"Running", "Failed"}
      /\ calls < MaxCalls /\ calls' = calls + 1
      /\ UNCHANGED <<flushed, evicted>>
  BY DEF Start
<1>3. /\ [i \in 1..r.size |-> 0] \in Seq(Nat)
      /\ Len([i \in 1..r.size |-> 0]) = r.size
  BY <1>1, NVDataFacts, ZerosSeq
<1>4. TypeOK'
  BY <1>1, <1>2, <1>3, NVDataFacts, ReadAssumption DEF IInv, TypeOK
<1>5. ReqOK'
  BY <1>1, <1>2 DEF ReqOK
<1>6. PolicyInv'
  BY <1>2, EmptySeq DEF PolicyInv
<1>7. Progress'
  BY <1>1, <1>2, <1>3, NVDataFacts DEF Progress
<1>8. DoneData'
  BY <1>2 DEF DoneData
<1> QED BY <1>4, <1>5, <1>6, <1>7, <1>8 DEF IInv

\* An iteration of the loop: a policy session ends the read, otherwise one
\* command runs with every session continued.
LEMMA IterateInv ==
  ASSUME IInv, Iterate
  PROVE  IInv'
<1>0. /\ phase = "Running"
      /\ UNCHANGED <<evicted, req, hasPolicy, calls>>
  BY DEF Iterate
<1>1. CASE hasPolicy
  <2>1. phase' = "Failed" /\ UNCHANGED <<flushed, remaining, total, data, issued>>
    BY <1>1 DEF Iterate
  <2> QED BY <1>0, <2>1 DEF IInv, TypeOK, ReqOK, PolicyInv, Progress, DoneData
<1>2. CASE ~hasPolicy
  <2>1. PICK ok \in BOOLEAN : Run(ForcedContinue, ok, "Running")
    BY <1>2 DEF Iterate
  <2> QED BY <1>0, <1>2, <2>1, RunInv
<1> QED BY <1>1, <1>2

\* The last command, with the caller's own sessions.
LEMMA LastRunInv ==
  ASSUME IInv, LastRun
  PROVE  IInv'
<1>1. /\ phase = "Running" /\ IsLast
      /\ UNCHANGED <<evicted, req, hasPolicy, calls>>
      /\ \E ok \in BOOLEAN : Run(req.cont, ok, "Done")
  BY DEF LastRun
<1> QED BY <1>1, RunInv

\* The TPM losing a session changes nothing of the read.
LEMMA EvictInv ==
  ASSUME IInv, NEW s \in Sessions, Evict(s)
  PROVE  IInv'
BY DEF Evict, IInv, TypeOK, ReqOK, PolicyInv, Progress, DoneData

\* Every step of the helper, or of the TPM losing a session, keeps IInv.
LEMMA IInvStep ==
  IInv /\ [Next]_vars => IInv'
<1> SUFFICES ASSUME IInv, [Next]_vars PROVE IInv'
  OBVIOUS
<1>1. ASSUME NEW r \in Requests, Start(r.size, r.maxSize, r.sess, r.cont) PROVE IInv'
  BY <1>1, StartInv
<1>2. CASE Iterate
  BY <1>2, IterateInv
<1>3. CASE LastRun
  BY <1>3, LastRunInv
<1>4. ASSUME NEW s \in Sessions, Evict(s) PROVE IInv'
  BY <1>4, EvictInv
<1>5. CASE UNCHANGED vars
  BY <1>5 DEF vars, IInv, TypeOK, ReqOK, PolicyInv, Progress, DoneData
<1> QED BY <1>1, <1>2, <1>3, <1>4, <1>5 DEF Next

\* A context before any read satisfies IInv.
LEMMA IInvInit ==
  Init => IInv
<1> SUFFICES ASSUME Init PROVE IInv
  OBVIOUS
<1>1. << >> \in Seq(Nat) /\ << >> \in Seq([offset : Nat, size : Nat]) /\ Len(<< >>) = 0
  BY EmptySeq
<1>2. TypeOK
  <2>1. flushed \subseteq Sessions /\ evicted \subseteq Sessions
        /\ phase \in {"Idle", "Running", "Done", "Failed"} /\ hasPolicy \in BOOLEAN
    BY Zenon DEF Init
  <2>2. MaxCalls \in Nat
    BY ReadAssumption
  <2>3. /\ remaining \in 0..Len(NVData) + 1 /\ total \in 0..Len(NVData) + 1
        /\ data \in Seq(Nat) /\ calls \in 0..MaxCalls
    BY <1>1, <2>2, NVDataFacts DEF Init
  <2> QED BY <2>1, <2>3 DEF TypeOK
<1>3. ReqOK
  BY NVDataFacts DEF Init, ReqOK
<1>4. PolicyInv
  <2>1. hasPolicy = (req.sess \cap PolicySessions # {})
    BY Zenon DEF Init
  <2> QED BY <1>1, <2>1 DEF Init, PolicyInv
<1>5. Progress /\ DoneData
  BY DEF Init, Progress, DoneData
<1> QED BY <1>2, <1>3, <1>4, <1>5 DEF IInv

\* IInv holds in every reachable state of the helper.
THEOREM Invariant ==
  Spec => []IInv
<1>1. Init => IInv
  BY IInvInit
<1>2. IInv /\ [Next]_vars => IInv'
  BY IInvStep
<1> QED BY <1>1, <1>2, PTL DEF Spec

-----------------------------------------------------------------------------
(* Theorems.                                                               *)

\* Every reachable state is well typed: in particular the uint16 counters
\* of readMultipleHelperContext never wrap (tpm.go:94-95).
THEOREM TypeCorrect ==
  Spec => []TypeOK
BY Invariant, PTL DEF IInv

\* A read with a policy session never sends a second command
\* (execMultipleHelper, tpm.go:53-55).
THEOREM PolicySingle ==
  Spec => []PolicySingleCommand
<1>1. IInv => PolicySingleCommand
  <2> SUFFICES ASSUME IInv, req.sess \cap PolicySessions # {} PROVE Len(issued) =< 1
    BY DEF PolicySingleCommand
  <2>0. hasPolicy
    BY Zenon DEF IInv, PolicyInv
  <2>1. hasPolicy => \/ Len(issued) = 0
                     \/ Len(issued) = 1 /\ phase # "Running"
    BY DEF IInv, PolicyInv
  <2>2. Len(issued) = 0 \/ Len(issued) = 1
    BY <2>0, <2>1
  <2>3. Len(issued) \in Nat
    BY LenProperties DEF IInv, PolicyInv
  <2> QED BY <2>2, <2>3
<1> QED BY <1>1, Invariant, PTL

-----------------------------------------------------------------------------
(* Refinement of the atomic read.                                          *)

\* A read whose session contexts the host still holds begins (even if the
\* TPM lost one of them), any other is refused.
LEMMA StartRefines ==
  ASSUME IInv, NEW r \in Requests, Start(r.size, r.maxSize, r.sess, r.cont)
  PROVE  A!Next
<1>1. /\ r.size \in 0..Len(NVData) + 1
      /\ r.sess \in SUBSET Sessions /\ r.cont \in SUBSET Sessions
      /\ r.cont \subseteq r.sess
  BY DEF Requests
<1>2. [size |-> r.size, sess |-> r.sess, cont |-> r.cont] \in A!Requests
  BY <1>1 DEF A!Requests
<1>0. phase \in {"Idle", "Done", "Failed"}
  <2>1. phase \in {"Idle", "Running", "Done", "Failed"} /\ phase # "Running"
    BY DEF IInv, TypeOK, Start
  <2> QED BY <2>1
<1>3. /\ phase # "Running"
      /\ phase' = IF \A s \in r.sess : Usable(s) THEN "Running" ELSE "Failed"
      /\ [size |-> req'.size, sess |-> req'.sess, cont |-> req'.cont]
           = [size |-> r.size, sess |-> r.sess, cont |-> r.cont]
      /\ UNCHANGED <<flushed, evicted>>
  BY DEF Start
<1>4. CASE \A s \in r.sess : Usable(s)
  <2>1. A!Begin([size |-> r.size, sess |-> r.sess, cont |-> r.cont])
    BY <1>0, <1>3, <1>4 DEF A!Begin, A!Usable, Usable
  <2> QED BY <1>2, <2>1 DEF A!Next
<1>5. CASE ~\A s \in r.sess : Usable(s)
  <2>1. A!Refuse([size |-> r.size, sess |-> r.sess, cont |-> r.cont])
    BY <1>0, <1>3, <1>5 DEF A!Refuse, A!Usable, Usable
  <2> QED BY <1>2, <2>1 DEF A!Next
<1> QED BY <1>4, <1>5

\* A failing command, or the policy check, fails the atomic read.
LEMMA FailRefines ==
  ASSUME phase = "Running", phase' = "Failed",
         UNCHANGED <<flushed, evicted, req>>
  PROVE  A!Next
<1>1. A!Fail
  BY DEF A!Fail
<1> QED BY <1>1 DEF A!Next

\* Every step of the helper is a step of the atomic read under the
\* refinement mapping, or leaves what the caller sees unchanged.
LEMMA RefineStep ==
  ASSUME IInv, IInv', [Next]_vars
  PROVE  [A!Next]_A!avars
<1>1. ASSUME NEW r \in Requests, Start(r.size, r.maxSize, r.sess, r.cont)
      PROVE  [A!Next]_A!avars
  BY <1>1, StartRefines
<1>2. CASE Iterate
  <2>0. phase = "Running" /\ UNCHANGED <<evicted, req, hasPolicy, calls>>
    BY <1>2 DEF Iterate
  <2>1. CASE hasPolicy
    <3>1. phase' = "Failed" /\ UNCHANGED flushed
      BY <1>2, <2>1 DEF Iterate
    <3> QED BY <2>0, <3>1, FailRefines
  <2>2. CASE ~hasPolicy
    <3>1. PICK ok \in BOOLEAN : Run(ForcedContinue, ok, "Running")
      BY <1>2, <2>2 DEF Iterate
    <3>2. CASE Answer(ChunkSize, total, ok) = "Ok"
      <4>1. phase' = "Running" /\ flushed' = flushed \cup (req.sess \ ForcedContinue)
        BY <2>0, <3>1, <3>2, RunOk
      <4>2. flushed' = flushed
        BY <4>1 DEF ForcedContinue
      <4> QED BY <2>0, <4>1, <4>2 DEF A!avars
    <3>3. CASE Answer(ChunkSize, total, ok) # "Ok"
      <4>1. phase' = "Failed" /\ UNCHANGED flushed
        BY <3>1, <3>3, RunErr
      <4> QED BY <2>0, <4>1, FailRefines
    <3> QED BY <3>2, <3>3
  <2> QED BY <2>1, <2>2
<1>3. CASE LastRun
  <2>0. /\ phase = "Running" /\ IsLast
        /\ UNCHANGED <<evicted, req, hasPolicy, calls>>
    BY <1>3 DEF LastRun
  <2>1. PICK ok \in BOOLEAN : Run(req.cont, ok, "Done")
    BY <1>3 DEF LastRun
  <2>2. CASE Answer(ChunkSize, total, ok) = "Ok"
    <3>1. /\ total + ChunkSize =< Len(NVData)
          /\ phase' = "Done"
          /\ flushed' = flushed \cup (req.sess \ req.cont)
      BY <2>0, <2>1, <2>2, RunOk
    <3>2. req.size =< Len(NVData)
      BY <2>0, <3>1, ChunkSizeFacts DEF IInv, Progress
    <3>3. data' = SubSeq(NVData, 1, req.size)
      BY <2>0, <3>1 DEF DoneData, IInv
    <3>4. \A s \in req.sess : Alive(s)
      BY <2>2 DEF Answer
    <3>5. A!Complete
      BY <2>0, <3>1, <3>2, <3>3, <3>4 DEF A!Complete, A!Alive, Alive
    <3> QED BY <3>5 DEF A!Next
  <2>3. CASE Answer(ChunkSize, total, ok) # "Ok"
    <3>1. phase' = "Failed" /\ UNCHANGED flushed
      BY <2>1, <2>3, RunErr
    <3> QED BY <2>0, <3>1, FailRefines
  <2> QED BY <2>2, <2>3
<1>4. ASSUME NEW s \in Sessions, Evict(s) PROVE [A!Next]_A!avars
  <2>1. A!Evict(s)
    BY <1>4 DEF Evict, A!Evict, A!Alive, Alive
  <2> QED BY <2>1 DEF A!Next
<1>5. CASE UNCHANGED vars
  BY <1>5 DEF vars, A!avars
<1> QED BY <1>1, <1>2, <1>3, <1>4, <1>5 DEF Next

\* The helper implements the safety part of the atomic read: whatever
\* interleaving of chunk failures, policy refusals and session losses,
\* the caller sees a read begin, then complete with the first size bytes
\* and the non-continued sessions flushed, or fail with nothing flushed.
THEOREM Refinement ==
  Spec => AtomicReadSafety
<1>1. Init => A!Init
  BY DEF Init, A!Init
<1>2. IInv /\ IInv' /\ [Next]_vars => [A!Next]_A!avars
  BY RefineStep
<1> QED BY <1>1, <1>2, Invariant, PTL DEF Spec, AtomicReadSafety, A!SafetySpec

-----------------------------------------------------------------------------
(* The commands a completed read sent.                                     *)

\* Inside the loop every command sent read a full piece of maxSize bytes
\* at the next offset, and bytes remain once one was sent; a completed read
\* sent exactly the reference sequence of pieces.
ChunkInv ==
  /\ phase = "Running" =>
       /\ Len(issued) * req.maxSize = total
       /\ Len(issued) > 0 => remaining > 0
       /\ \A k \in 1..Len(issued) :
            issued[k] = [offset |-> (k - 1) * req.maxSize, size |-> req.maxSize]
  /\ phase = "Done" => issued = Chunks(req.size, req.maxSize)

\* The number of pieces of maxSize bytes a read of size bytes needs.
LEMMA CeilDiv ==
  ASSUME NEW size \in Nat, NEW m \in Nat \ {0}, NEW n \in Nat \ {0},
         (n - 1) * m < size, size =< n * m
  PROVE  (size + m - 1) \div m = n
BY SMT

\* Full pieces followed by a last piece of the r bytes that remain (none
\* only for an empty read) are the reference sequence of pieces.
LEMMA LastChunk ==
  ASSUME NEW L \in Nat, NEW m \in Nat, NEW r \in Nat,
         NEW s \in Seq([offset : Nat, size : Nat]), Len(s) = L,
         \A k \in 1..L : s[k] = [offset |-> (k - 1) * m, size |-> m],
         r =< m, L > 0 => r > 0
  PROVE  Append(s, [offset |-> L * m, size |-> r]) = Chunks(L * m + r, m)
<1> DEFINE x == [offset |-> L * m, size |-> r]
           t == Append(s, x)
<1>1. /\ t \in Seq([offset : Nat, size : Nat])
      /\ Len(t) = L + 1
      /\ \A k \in 1..L : t[k] = s[k]
      /\ t[L + 1] = x
  BY AppendProperties
<1>2. t = [k \in 1..L + 1 |-> t[k]]
  BY <1>1, LenProperties
<1>3. CASE L * m + r = 0
  <2>1. L = 0 /\ r = 0 BY <1>3
  <2>2. Chunks(L * m + r, m) = [k \in 1..1 |-> [offset |-> 0, size |-> 0]]
    BY <2>1 DEF Chunks
  <2> QED BY <1>1, <1>2, <2>1, <2>2
<1>4. CASE L * m + r # 0
  <2> DEFINE size == L * m + r
             n == L + 1
  <2>1. r > 0 /\ m # 0 BY <1>4
  <2>2. /\ size \in Nat /\ m \in Nat \ {0} /\ n \in Nat \ {0}
        /\ (n - 1) * m < size /\ size =< n * m
    BY <2>1
  <2>3. (size + m - 1) \div m = n
    BY <2>2, CeilDiv
  <2>4. Chunks(size, m) =
          [k \in 1..n |-> [offset |-> (k - 1) * m,
                           size |-> IF k < n THEN m ELSE size - (n - 1) * m]]
    BY <2>3, <1>4 DEF Chunks
  <2>5. size - (n - 1) * m = r BY <2>2
  <2>6. ASSUME NEW k \in 1..n
        PROVE  t[k] = [offset |-> (k - 1) * m, size |-> IF k < n THEN m ELSE r]
    <3>1. CASE k < n BY <1>1, <3>1
    <3>2. CASE k = n BY <1>1, <3>2
    <3> QED BY <3>1, <3>2
  <2>7. Chunks(size, m) =
          [k \in 1..n |-> [offset |-> (k - 1) * m, size |-> IF k < n THEN m ELSE r]]
    BY <2>4, <2>5
  <2>8. t = [k \in 1..n |-> [offset |-> (k - 1) * m, size |-> IF k < n THEN m ELSE r]]
    BY <1>2, <2>6
  <2> QED BY <2>7, <2>8
<1> QED BY <1>3, <1>4

\* Every step keeps ChunkInv.
LEMMA ChunkStep ==
  IInv /\ ChunkInv /\ [Next]_vars => ChunkInv'
<1> SUFFICES ASSUME IInv, ChunkInv, [Next]_vars PROVE ChunkInv'
  OBVIOUS
<1>0. /\ remaining \in Nat /\ total \in Nat /\ req.maxSize \in Nat
      /\ issued \in Seq([offset : Nat, size : Nat])
      /\ Len(issued) \in Nat
  <2>1. issued \in Seq([offset : Nat, size : Nat]) BY DEF IInv, PolicyInv
  <2> QED BY <2>1, LenProperties DEF IInv, TypeOK, ReqOK
<1>1. ASSUME NEW r \in Requests, Start(r.size, r.maxSize, r.sess, r.cont) PROVE ChunkInv'
  <2>1. /\ issued' = << >> /\ total' = 0 /\ phase' \in {"Running", "Failed"}
        /\ req'.maxSize = r.maxSize
    BY <1>1 DEF Start
  <2>2. r.maxSize \in Nat
    <3>1. r.maxSize \in MaxSizes BY DEF Requests
    <3>2. MaxSizes \subseteq 0..MaxUint16 /\ MaxUint16 \in Nat
      BY ReadAssumption, NVDataFacts
    <3>3. r.maxSize \in 0..MaxUint16 BY <3>1, <3>2
    <3> QED BY <3>2, <3>3
  <2> QED BY <2>1, <2>2 DEF ChunkInv
<1>2. CASE Iterate
  <2>0. phase = "Running" /\ ~IsLast /\ UNCHANGED req
    BY <1>2 DEF Iterate
  <2>1. CASE hasPolicy
    BY <1>2, <2>1 DEF Iterate, ChunkInv
  <2>2. CASE ~hasPolicy
    <3>1. PICK ok \in BOOLEAN : Run(ForcedContinue, ok, "Running")
      BY <1>2, <2>2 DEF Iterate
    <3>2. CASE Answer(ChunkSize, total, ok) = "Ok"
      <4>1. /\ total' = total + ChunkSize
            /\ remaining' = remaining - ChunkSize
            /\ phase' = "Running"
            /\ issued' = Append(issued, [offset |-> total, size |-> ChunkSize])
        BY <2>0, <3>1, <3>2, RunOk
      <4>2. ChunkSize = req.maxSize /\ remaining > req.maxSize
        BY <2>0, <1>0 DEF ChunkSize, IsLast
      <4> DEFINE L == Len(issued)
                 m == req.maxSize
      <4>3. /\ Len(issued') = L + 1
            /\ \A k \in 1..L : issued'[k] = issued[k]
            /\ issued'[L + 1] = [offset |-> total, size |-> m]
        BY <4>1, <4>2, <1>0, AppendProperties
      <4>4. L * m = total /\ \A k \in 1..L : issued[k] = [offset |-> (k - 1) * m, size |-> m]
        BY <2>0 DEF ChunkInv
      <4>5. (L + 1) * m = total'
        <5>1. L \in Nat /\ m \in Nat BY <1>0
        <5>2. (L + 1) * m = L * m + m BY <5>1
        <5> QED BY <5>2, <4>1, <4>2, <4>4
      <4>6. remaining' > 0 BY <4>1, <4>2, <1>0
      <4>7. ASSUME NEW k \in 1..L + 1
            PROVE  issued'[k] = [offset |-> (k - 1) * m, size |-> m]
        <5>1. CASE k \in 1..L BY <4>3, <4>4, <5>1
        <5>2. CASE k = L + 1 BY <4>3, <4>4, <5>2, <1>0
        <5> QED BY <5>1, <5>2, <1>0
      <4> QED BY <4>1, <4>3, <4>5, <4>6, <4>7, <2>0 DEF ChunkInv
    <3>3. CASE Answer(ChunkSize, total, ok) # "Ok"
      BY <3>1, <3>3, RunErr DEF ChunkInv
    <3> QED BY <3>2, <3>3
  <2> QED BY <2>1, <2>2
<1>3. CASE LastRun
  <2>0. /\ phase = "Running" /\ IsLast /\ UNCHANGED req
        /\ \E ok \in BOOLEAN : Run(req.cont, ok, "Done")
    BY <1>3 DEF LastRun
  <2>1. PICK ok \in BOOLEAN : Run(req.cont, ok, "Done") BY <2>0
  <2>2. CASE Answer(ChunkSize, total, ok) = "Ok"
    <3>1. /\ phase' = "Done"
          /\ issued' = Append(issued, [offset |-> total, size |-> ChunkSize])
      BY <2>0, <2>1, <2>2, RunOk
    <3>2. ChunkSize = remaining /\ remaining =< req.maxSize
      BY <2>0, <1>0 DEF ChunkSize, IsLast
    <3>3. /\ Len(issued) * req.maxSize = total
          /\ Len(issued) > 0 => remaining > 0
          /\ \A k \in 1..Len(issued) :
               issued[k] = [offset |-> (k - 1) * req.maxSize, size |-> req.maxSize]
      BY <2>0 DEF ChunkInv
    <3>4. req.size = total + remaining BY <2>0 DEF IInv, Progress
    <3>5. Append(issued, [offset |-> Len(issued) * req.maxSize, size |-> remaining])
            = Chunks(Len(issued) * req.maxSize + remaining, req.maxSize)
      BY <1>0, <3>2, <3>3, LastChunk
    <3> QED BY <3>1, <3>2, <3>3, <3>4, <3>5, <2>0 DEF ChunkInv
  <2>3. CASE Answer(ChunkSize, total, ok) # "Ok"
    BY <2>1, <2>3, RunErr DEF ChunkInv
  <2> QED BY <2>2, <2>3
<1>4. ASSUME NEW s \in Sessions, Evict(s) PROVE ChunkInv'
  BY <1>4 DEF Evict, ChunkInv
<1>5. CASE UNCHANGED vars
  BY <1>5 DEF vars, ChunkInv
<1> QED BY <1>1, <1>2, <1>3, <1>4, <1>5 DEF Next

\* A completed read returns exactly the first size bytes of the NV data,
\* and got them with exactly the reference sequence of commands: pieces of
\* maxSize bytes at consecutive offsets and the rest in the last
\* (readMultipleHelperContext.run and last, tpm.go:87-101).
THEOREM ReadCorrectness ==
  Spec => []ReadCorrect
<1>1. Init => ChunkInv BY DEF Init, ChunkInv
<1>2. IInv /\ ChunkInv /\ [Next]_vars => IInv' /\ ChunkInv'
  BY IInvStep, ChunkStep
<1>3. IInv /\ ChunkInv => ReadCorrect
  BY DEF IInv, DoneData, ChunkInv, ReadCorrect
<1> QED BY <1>1, <1>2, <1>3, IInvInit, PTL DEF Spec

-----------------------------------------------------------------------------
(* No step rewinds a read.                                                 *)

\* The step relation of ReadNeverRewinds.
NoRewind ==
  phase = "Running" =>
    /\ total =< total'
    /\ \A i \in 1..total : data'[i] = data[i]

\* A command that succeeds keeps the bytes read so far: they are the NV
\* data both before and after it.
LEMMA RunKeeps ==
  ASSUME IInv, phase = "Running", NEW cont, NEW ok, NEW onOk, Run(cont, ok, onOk)
  PROVE  NoRewind
<1>0. total \in Nat /\ \A i \in 1..total : data[i] = NVData[i]
  BY DEF IInv, TypeOK, Progress
<1>1. CASE Answer(ChunkSize, total, ok) = "Ok"
  <2>1. /\ ChunkSize \in 0..remaining
        /\ total' = total + ChunkSize
        /\ \A i \in 1..total' : data'[i] = NVData[i]
    BY <1>1, RunOk
  <2>2. total =< total' /\ 1..total \subseteq 1..total'
    BY <2>1, <1>0
  <2> QED BY <2>1, <2>2, <1>0 DEF NoRewind
<1>2. CASE Answer(ChunkSize, total, ok) # "Ok"
  <2>1. UNCHANGED <<data, total>> BY <1>2, RunErr
  <2> QED BY <2>1, <1>0 DEF NoRewind
<1> QED BY <1>1, <1>2

LEMMA RewindStep ==
  IInv /\ [Next]_vars => NoRewind
<1> SUFFICES ASSUME IInv, [Next]_vars, phase = "Running" PROVE NoRewind
  BY DEF NoRewind
<1>0. total \in Nat BY DEF IInv, TypeOK
<1>1. ASSUME NEW r \in Requests, Start(r.size, r.maxSize, r.sess, r.cont) PROVE NoRewind
  BY <1>1 DEF Start
<1>2. CASE Iterate
  <2>1. CASE hasPolicy
    <3>1. UNCHANGED <<data, total>> BY <1>2, <2>1 DEF Iterate
    <3> QED BY <3>1, <1>0 DEF NoRewind
  <2>2. CASE ~hasPolicy
    <3>1. PICK ok \in BOOLEAN : Run(ForcedContinue, ok, "Running")
      BY <1>2, <2>2 DEF Iterate
    <3> QED BY <3>1, RunKeeps
  <2> QED BY <2>1, <2>2
<1>3. CASE LastRun
  <2>1. PICK ok \in BOOLEAN : Run(req.cont, ok, "Done")
    BY <1>3 DEF LastRun
  <2> QED BY <2>1, RunKeeps
<1>4. ASSUME NEW s \in Sessions, Evict(s) PROVE NoRewind
  BY <1>4, <1>0 DEF Evict, NoRewind
<1>5. CASE UNCHANGED vars
  BY <1>5, <1>0 DEF vars, NoRewind
<1> QED BY <1>1, <1>2, <1>3, <1>4, <1>5 DEF Next

\* Inside a read no step rewinds it: total only grows and the bytes already
\* copied into the buffer are never overwritten, whichever command fails
\* and whatever session the TPM loses in between
\* (readMultipleHelperContext.run, tpm.go:87-97).
THEOREM NeverRewinds ==
  Spec => ReadNeverRewinds
<1>1. IInv /\ [Next]_vars => [NoRewind]_vars
  BY RewindStep
<1> QED BY <1>1, Invariant, PTL DEF Spec, ReadNeverRewinds, NoRewind

=============================================================================
