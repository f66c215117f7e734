------------------------------- MODULE NVRead -------------------------------
(***************************************************************************)
(* An NV read through a TPMContext, composing the property cache          *)
(* (TpmProperties) with the multiple-call helper (ReadMultiple).  The NV  *)
(* commands are not under src/; per the spec's "read/write multiple       *)
(* helper" and the field the context caches for them (maxNVBufferSize,    *)
(* tpm.go:327), a read first runs initPropertiesIfNeeded, fails if that   *)
(* fails, and otherwise reads through readMultipleHelper in pieces of      *)
(* maxNVBufferSize bytes.  The caller may also call InitProperties itself,  *)
(* and the TPM may lose a session at any time.                             *)
(***************************************************************************)
EXTENDS Naturals, Sequences

CONSTANTS Values, MaxCalls, Sessions, PolicySessions, NVData, MaxReads, MaxCommands

\* The assumptions of the two components, on the constants they share.
ASSUME NVReadAssumption ==
  /\ Values \subseteq Nat
  /\ MaxCalls \in Nat
  /\ PolicySessions \subseteq Sessions
  /\ NVData \in Seq(Nat)
  /\ Len(NVData) < 65535
  /\ MaxReads \in Nat
  /\ MaxCommands \in Nat

VARIABLES
  tpm, limits, propertiesInitialized, calls,                  \* TpmProperties
  flushed, evicted, phase, req, hasPolicy, remaining, total,  \* ReadMultiple
  data, issued, reads

pvars == <<tpm, limits, propertiesInitialized, calls>>
rvars == <<flushed, evicted, phase, req, hasPolicy, remaining, total, data, issued, reads>>
vars == <<pvars, rvars>>

\* The two components, each with the proofs about it (which add no state
\* and no action), so that the proofs about the composition can cite them.
P == INSTANCE TpmProperties_proofs
R == INSTANCE ReadMultiple_proofs WITH MaxSizes <- 0..P!MaxUint16, MaxCalls <- MaxReads, calls <- reads

\* The values maxNVBufferSize can hold after InitProperties.
NVBufferSizes == {0} \cup {v % (P!MaxUint16 + 1) : v \in Values}

ReadRequests ==
  {r \in [size : 0..Len(NVData) + 1, sess : SUBSET Sessions, cont : SUBSET Sessions] :
     r.cont \subseteq r.sess}

\* initPropertiesIfNeeded, then readMultipleHelper with maxNVBufferSize:
\* with the properties already read the helper starts at once; otherwise
\* InitProperties runs first, and the read fails unless it succeeded.
NVReadRaw(r) ==
  \/ /\ propertiesInitialized
     /\ R!Start(r.size, limits["NVBufferMax"], r.sess, r.cont)
     /\ UNCHANGED pvars
  \/ /\ ~propertiesInitialized
     /\ phase # "Running"
     /\ \E reply \in P!Replies : P!InitProperties(reply)
     /\ \E ms \in NVBufferSizes :
          /\ ms = limits'["NVBufferMax"]
          /\ IF propertiesInitialized'
             THEN R!Start(r.size, ms, r.sess, r.cont)
             ELSE UNCHANGED rvars

Init == P!Init /\ R!Init

Next ==
  \/ \E r \in ReadRequests : NVReadRaw(r)
  \/ R!Iterate /\ UNCHANGED pvars
  \/ R!LastRun /\ UNCHANGED pvars
  \/ \E s \in Sessions : R!Evict(s) /\ UNCHANGED pvars
  \/ P!CallInitProperties /\ UNCHANGED rvars

\* The helper's loop runs on the caller's thread until it returns.
Fairness == WF_vars(R!Iterate /\ UNCHANGED pvars) /\ WF_vars(R!LastRun /\ UNCHANGED pvars)

Spec == Init /\ [][Next]_vars /\ Fairness

-----------------------------------------------------------------------------
\* Every read the helper starts has a nonzero chunk size: initPropertiesIfNeeded
\* only lets a read through once InitProperties has stored a nonzero
\* maxNVBufferSize (tpm.go:478-486), and no later InitProperties call, failed
\* or partial, can clear it (tpm.go:444-496).
ChunkSizeNonZero == phase # "Idle" => req.maxSize # 0

\* Every NV read that gets past initPropertiesIfNeeded returns: the chunk
\* size it is given is never 0, whatever GetCapability returned in earlier
\* calls, so the loop of execMultipleHelper (tpm.go:52) makes progress.
Termination == phase = "Running" ~> phase \in {"Done", "Failed"}

=============================================================================
