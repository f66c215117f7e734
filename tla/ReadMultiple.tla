---------------------------- MODULE ReadMultiple ----------------------------
(***************************************************************************)
(* readMultipleHelper and execMultipleHelper (tpm.go:23-111): a read of    *)
(* `size` bytes is split into TPM commands of at most maxSize bytes each   *)
(* (TPM2_NV_Read through the caller's fn).  Every command but the last     *)
(* runs with continueSession forced on each session, so that the sessions  *)
(* survive until the read is over; the last runs with the caller's own     *)
(* attributes.  A policy session is refused when more than one command is  *)
(* needed.                                                                  *)
(*                                                                         *)
(* The TPM answers a command with the bytes it holds at the offset, or    *)
(* fails it: a session no longer loaded, a range outside the NV data, or  *)
(* any other TPM or transport error.  A failed command flushes nothing; a *)
(* successful one flushes the sessions whose continueSession was clear.   *)
(* Between two commands the TPM may lose a session (another user flushes  *)
(* it, or a resource manager evicts it).                                   *)
(***************************************************************************)
EXTENDS Naturals, Sequences

CONSTANTS
  Sessions,        \* the session contexts a caller may pass
  PolicySessions,  \* those whose SessionType is SessionTypePolicy
  NVData,          \* the bytes of the NV index
  MaxSizes,        \* values of maxSize callers pass
  MaxCalls,        \* bound on the number of reads
  MaxCommands      \* bound on the commands of one read

\* The largest uint16: sizes, offsets and counters are uint16.
MaxUint16 == 65535

ASSUME ReadAssumption ==
  /\ PolicySessions \subseteq Sessions
  /\ NVData \in Seq(Nat)
  /\ Len(NVData) < MaxUint16
  /\ MaxSizes \subseteq 0..MaxUint16
  /\ MaxCalls \in Nat
  /\ MaxCommands \in Nat

VARIABLES
  flushed,    \* sessions flushed by a command whose continueSession was clear
  evicted,    \* sessions the TPM lost by other means
  phase,      \* "Idle", "Running" (inside the loop), "Done" or "Failed"
  req,        \* the arguments of the current read: size, maxSize, sessions, continued ones
  hasPolicy,  \* execMultipleHelper's hasPolicySession
  remaining,  \* readMultipleHelperContext.remaining (uint16)
  total,      \* readMultipleHelperContext.total (uint16)
  data,       \* readMultipleHelperContext.data
  issued,     \* the offset and size of each command of the current read
  calls       \* reads started so far

vars == <<flushed, evicted, phase, req, hasPolicy, remaining, total, data, issued, calls>>

\* The host still holds the session context: its SessionContext.Data() is
\* not nil, which a command that flushed the session made it (tpm.go:40-43).
\* The host cannot see a session the TPM lost.
Usable(s) == s \notin flushed

\* The TPM still holds the session.
Alive(s) == s \notin flushed \cup evicted

\* readMultipleHelperContext.last.
IsLast == remaining =< req.maxSize

\* Mutant: the last piece is not cut to the remaining size.
ChunkSizeUncapped == req.maxSize

\* The size of the next command, in readMultipleHelperContext.run.
ChunkSize == IF remaining > req.maxSize THEN req.maxSize ELSE remaining

\* Mutant: the bytes are copied to the start of the buffer, copy(c.data,
\* tmpData), instead of at the offset reached.
CopyAtStart(dst, at, src) ==
  [i \in 1..Len(dst) |-> IF i =< Len(src) THEN src[i] ELSE dst[i]]

\* Go's copy(dst[at:], src).
Copy(dst, at, src) ==
  [i \in 1..Len(dst) |-> IF at < i /\ i =< at + Len(src) THEN src[i - at] ELSE dst[i]]

\* How the TPM answers a command reading sz bytes at offset with the
\* current sessions; ok is the choice between success and any other error.
Answer(sz, offset, ok) ==
  IF \E s \in req.sess : ~Alive(s) THEN "SessionError"
  ELSE IF offset + sz > Len(NVData) THEN "RangeError"
  ELSE IF ok THEN "Ok"
  ELSE "TpmError"

\* Mutant: the offset passed to fn is the remaining size, not the total.
RunOffsetRemaining(cont, ok, onOk) ==
  LET sz == ChunkSize
      r  == Answer(sz, remaining, ok)
  IN /\ issued' = Append(issued, [offset |-> remaining, size |-> sz])
     /\ IF r = "Ok"
        THEN /\ data' = Copy(data, total, SubSeq(NVData, remaining + 1, remaining + sz))
             /\ total' = (total + sz) % (MaxUint16 + 1)
             /\ remaining' = (remaining - sz) % (MaxUint16 + 1)
             /\ flushed' = flushed \cup (req.sess \ cont)
             /\ phase' = onOk
        ELSE /\ phase' = "Failed"
             /\ UNCHANGED <<data, total, remaining, flushed>>

\* readMultipleHelperContext.run, with the sessions carrying the
\* continueSession attributes cont: fn(sz, total) is one TPM command; its
\* bytes are copied at total and the counters advance (uint16).  The loop
\* goes on (onOk) or returns the error.
Run(cont, ok, onOk) ==
  LET sz == ChunkSize
      r  == Answer(sz, total, ok)
  IN /\ issued' = Append(issued, [offset |-> total, size |-> sz])
     /\ IF r = "Ok"
        THEN /\ data' = Copy(data, total, SubSeq(NVData, total + 1, total + sz))
             /\ total' = (total + sz) % (MaxUint16 + 1)
             /\ remaining' = (remaining - sz) % (MaxUint16 + 1)
             /\ flushed' = flushed \cup (req.sess \ cont)
             /\ phase' = onOk
        ELSE /\ phase' = "Failed"
             /\ UNCHANGED <<data, total, remaining, flushed>>

\* readMultipleHelper, then the session loop of execMultipleHelper: a
\* session context the host disposed of ends the read; one the TPM lost
\* goes through, and the first command fails on it.  hasPolicySession is
\* noted.
Start(sz, ms, sess, cont) ==
  /\ phase # "Running"
  /\ calls < MaxCalls
  /\ calls' = calls + 1
  /\ req' = [size |-> sz, maxSize |-> ms, sess |-> sess, cont |-> cont]
  /\ data' = [i \in 1..sz |-> 0]
  /\ remaining' = sz
  /\ total' = 0
  /\ issued' = << >>
  /\ hasPolicy' = (sess \cap PolicySessions # {})
  /\ phase' = IF \A s \in sess : Usable(s) THEN "Running" ELSE "Failed"
  /\ UNCHANGED <<flushed, evicted>>

\* Mutant: the sessions are not given AttrContinueSession (tpm.go:49).
ForcedContinueDropped == req.cont

\* The sessions with AttrContinueSession included, for all but the last
\* command.
ForcedContinue == req.sess

\* Mutant: the policy-session check is gone.
IteratePolicyAllowed ==
  /\ phase = "Running"
  /\ ~IsLast
  /\ Len(issued) < MaxCommands
  /\ \E ok \in BOOLEAN : Run(ForcedContinue, ok, "Running")
  /\ UNCHANGED <<evicted, req, hasPolicy, calls>>

\* One iteration of `for !action.last()`: a policy session ends the read,
\* otherwise one command runs with every session continued.
Iterate ==
  /\ phase = "Running"
  /\ ~IsLast
  /\ Len(issued) < MaxCommands
  /\ IF hasPolicy
     THEN /\ phase' = "Failed"
          /\ UNCHANGED <<flushed, remaining, total, data, issued>>
     ELSE \E ok \in BOOLEAN : Run(ForcedContinue, ok, "Running")
  /\ UNCHANGED <<evicted, req, hasPolicy, calls>>

\* The last command, with the caller's original session contexts.
LastRun ==
  /\ phase = "Running"
  /\ IsLast
  /\ \E ok \in BOOLEAN : Run(req.cont, ok, "Done")
  /\ UNCHANGED <<evicted, req, hasPolicy, calls>>

\* The TPM loses a loaded session.
Evict(s) ==
  /\ Alive(s)
  /\ evicted' = evicted \cup {s}
  /\ UNCHANGED <<flushed, phase, req, hasPolicy, remaining, total, data, issued, calls>>

\* Reads of up to one byte past the end of the data, which the TPM refuses.
Requests ==
  {r \in [size : 0..Len(NVData) + 1, maxSize : MaxSizes, sess : SUBSET Sessions,
          cont : SUBSET Sessions] : r.cont \subseteq r.sess}

Init ==
  /\ flushed = {}
  /\ evicted = {}
  /\ phase = "Idle"
  /\ req = [size |-> 0, maxSize |-> 0, sess |-> {}, cont |-> {}]
  /\ hasPolicy = FALSE
  /\ remaining = 0
  /\ total = 0
  /\ data = << >>
  /\ issued = << >>
  /\ calls = 0

Next ==
  \/ \E r \in Requests : Start(r.size, r.maxSize, r.sess, r.cont)
  \/ Iterate
  \/ LastRun
  \/ \E s \in Sessions : Evict(s)

\* The loop runs on the caller's thread and each command returns (the
\* retry loop of TPMContext.RunCommand is bounded), so a read that has
\* started keeps taking steps.  Starting a read is up to the caller.
Fairness == WF_vars(Iterate) /\ WF_vars(LastRun)

Spec == Init /\ [][Next]_vars /\ Fairness

-----------------------------------------------------------------------------
(* Properties.                                                             *)

TypeOK ==
  /\ flushed \subseteq Sessions
  /\ evicted \subseteq Sessions
  /\ phase \in {"Idle", "Running", "Done", "Failed"}
  /\ hasPolicy \in BOOLEAN
  /\ remaining \in 0..Len(NVData) + 1
  /\ total \in 0..Len(NVData) + 1
  /\ data \in Seq(Nat)
  /\ calls \in 0..MaxCalls

\* The commands a read of size bytes in pieces of maxSize should issue:
\* consecutive pieces from offset 0, all full but the last (one command of
\* size 0 for an empty read).
Chunks(size, max) ==
  LET n == IF size = 0 THEN 1 ELSE (size + max - 1) \div max
  IN [k \in 1..n |-> [offset |-> (k - 1) * max,
                      size |-> IF k < n THEN max ELSE size - (n - 1) * max]]

\* A completed read returns exactly the first size bytes of the NV data,
\* and got them with exactly the reference sequence of commands: no piece
\* skipped, repeated or overlapping, none empty but for an empty read, at
\* the boundary remaining = maxSize included.
ReadCorrect ==
  phase = "Done" =>
    /\ data = SubSeq(NVData, 1, req.size)
    /\ issued = Chunks(req.size, req.maxSize)

\* A read with a policy session sends at most one command: a policy
\* session cannot authorize the same command twice (tpm.go:53-55).
PolicySingleCommand ==
  req.sess \cap PolicySessions # {} => Len(issued) =< 1

\* Inside a read no step rewinds it: the count of bytes read only grows
\* (the uint16 c.total += sz never wraps) and the bytes already read stay
\* as they are (copy(c.data[c.total:], tmpData) writes past them), across
\* commands that fail and sessions the TPM loses in between (tpm.go:87-97).
ReadNeverRewinds ==
  [][phase = "Running" =>
       /\ total =< total'
       /\ \A i \in 1..total : data'[i] = data[i]]_vars

\* The helper implements the atomic read: intermediate commands leave the
\* sessions alone, a failure part-way flushes nothing, completion flushes
\* exactly the sessions not continued, and a started read ends.
A == INSTANCE AtomicRead
       WITH status  <- IF phase = "Running" THEN "Busy" ELSE phase,
            result  <- IF phase = "Done" THEN data ELSE << >>,
            request <- [size |-> req.size, sess |-> req.sess, cont |-> req.cont]
AtomicReadSpec == A!Spec

\* Its safety part: every step of the helper is a step of the atomic read or
\* leaves what the caller sees unchanged (proved in ReadMultiple_proofs).
AtomicReadSafety == A!SafetySpec

=============================================================================
