----------------------------- MODULE AtomicRead -----------------------------
(***************************************************************************)
(* What a read through readMultipleHelper promises its caller (the spec's  *)
(* "read/write multiple helper"): a read given a session that an earlier  *)
(* read flushed is refused; any other starts, and either completes,        *)
(* returning the first `size` bytes of the NV data and flushing exactly    *)
(* the sessions the caller did not ask to continue, or fails with every    *)
(* session left as it was.  A read completes only while the TPM still      *)
(* holds all its sessions, and never beyond the end of the data.  A read   *)
(* that has started ends.  The TPM may lose a loaded session at any time,  *)
(* and the caller does not see it before a read fails on it.               *)
(***************************************************************************)
EXTENDS Naturals, Sequences

CONSTANTS Sessions, NVData

VARIABLES
  status,   \* "Idle", "Busy", "Done" or "Failed"
  result,   \* the bytes a completed read returned
  flushed,  \* the sessions the reads have flushed
  evicted,  \* the sessions the TPM lost by other means
  request   \* the size, sessions and continued sessions of the last read

avars == <<status, result, flushed, evicted, request>>

\* The caller still holds the session: no read flushed it.
Usable(s) == s \notin flushed

\* The TPM still holds the session.
Alive(s) == s \notin flushed \cup evicted

Requests ==
  {r \in [size : 0..Len(NVData) + 1, sess : SUBSET Sessions, cont : SUBSET Sessions] :
     r.cont \subseteq r.sess}

Init ==
  /\ status = "Idle"
  /\ result = << >>
  /\ flushed = {}
  /\ evicted = {}
  /\ request = [size |-> 0, sess |-> {}, cont |-> {}]

Begin(r) ==
  /\ status # "Busy"
  /\ \A s \in r.sess : Usable(s)
  /\ status' = "Busy"
  /\ result' = << >>
  /\ request' = r
  /\ UNCHANGED <<flushed, evicted>>

Refuse(r) ==
  /\ status # "Busy"
  /\ \E s \in r.sess : ~Usable(s)
  /\ status' = "Failed"
  /\ result' = << >>
  /\ request' = r
  /\ UNCHANGED <<flushed, evicted>>

Complete ==
  /\ status = "Busy"
  /\ request.size =< Len(NVData)
  /\ \A s \in request.sess : Alive(s)
  /\ status' = "Done"
  /\ result' = SubSeq(NVData, 1, request.size)
  /\ flushed' = flushed \cup (request.sess \ request.cont)
  /\ UNCHANGED <<evicted, request>>

Fail ==
  /\ status = "Busy"
  /\ status' = "Failed"
  /\ UNCHANGED <<result, flushed, evicted, request>>

Evict(s) ==
  /\ Alive(s)
  /\ evicted' = evicted \cup {s}
  /\ UNCHANGED <<status, result, flushed, request>>

Next ==
  \/ \E r \in Requests : Begin(r) \/ Refuse(r)
  \/ \E s \in Sessions : Evict(s)
  \/ Complete
  \/ Fail

\* The safety part alone, which the proofs refine.
SafetySpec == Init /\ [][Next]_avars

Spec == SafetySpec /\ WF_avars(Complete \/ Fail)

=============================================================================
