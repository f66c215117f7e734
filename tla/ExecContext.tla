---------------------------- MODULE ExecContext ----------------------------
(***************************************************************************)
(* The command execution context of the TPM 2.0 host library (tpm.go):     *)
(* execContext.RunCommand, processResponseAuth and CompleteResponse, with  *)
(* the retry loop of TPMContext.RunCommand, run against an abstract TPM.   *)
(*                                                                         *)
(* The caller is one thread.  Each command is built (its auth area refreshes *)
(* the caller nonce of every session it uses and quotes the TPM nonce the  *)
(* host last saw), the previous response is processed if the caller left  *)
(* it pending, and the packet is submitted until the TPM answers with      *)
(* something other than a retry warning or the submission budget is spent. *)
(* A successful response stays pending until the caller completes it or   *)
(* the next command flushes it.  Processing a response validates its auth *)
(* area against the host's caller nonces, takes the new TPM nonces and the *)
(* audit-exclusive attribute, disposes of sessions that were not continued, *)
(* and maintains lastExclusiveSession, the one host session marked        *)
(* exclusive.                                                              *)
(*                                                                         *)
(* Nonces are generation numbers; an HMAC is valid when both ends used the *)
(* same generations.  The TPM's own state (its nonces, live sessions and   *)
(* exclusive audit session) is the environment against which the host's  *)
(* view is judged.                                                         *)
(***************************************************************************)
EXTENDS Naturals, Sequences, FiniteSets, Functions

CONSTANTS
  Sessions,          \* host session contexts, each tied to one TPM session
  NoSession,         \* nil sessionContextInternal / TPM_RH_UNASSIGNED
  CommandCodes,      \* command codes the caller may issue
  MaxAuths,          \* auth sessions per command (3 in the TPM spec)
  MaxSubmissions,    \* TPMContext.maxSubmissions
  MaxRuns,           \* bound on the number of commands the caller issues
  ReuseWhilePending  \* may a command use a session of the pending response?

\* ResponsePacket.Unmarshal reads at most three response auths and
\* TPMContext.RunCommand rejects a response whose count differs from the
\* command's, so no command with more than three sessions completes.
ASSUME ConstantsAssumption ==
  /\ IsFiniteSet(Sessions)
  /\ NoSession \notin Sessions
  /\ MaxAuths \in 0..3
  /\ MaxSubmissions \in Nat
  /\ MaxRuns \in Nat
  /\ ReuseWhilePending \in BOOLEAN

VARIABLES
  hNonceCaller,  \* per session: generation of SessionData.NonceCaller
  hNonceTPM,     \* per session: generation of SessionData.NonceTPM
  hExcl,         \* per session: SessionData.IsExclusive
  hAlive,        \* per session: Data() # nil (not yet disposed)
  lastExcl,      \* execContext.lastExclusiveSession
  pending,       \* execContext.pendingResponse (index into cmds, 0 = nil)
  phase,         \* "Idle", or "Submitting" inside TPMContext.RunCommand
  tries,         \* the loop counter of TPMContext.RunCommand
  cmds,          \* every command issued, with its auth area and response
  tNonceTPM,     \* TPM: per session, generation of its nonceTPM
  tAlive,        \* TPM: per session, loaded on the TPM
  tExcl          \* TPM: g_exclusiveAuditSession

hostVars == <<hNonceCaller, hNonceTPM, hExcl, hAlive, lastExcl>>
tpmVars  == <<tNonceTPM, tAlive, tExcl>>
vars == <<hNonceCaller, hNonceTPM, hExcl, hAlive, lastExcl, pending, phase,
          tries, cmds, tNonceTPM, tAlive, tExcl>>

-----------------------------------------------------------------------------
(* Command shapes.                                                         *)

\* isSessionAllowed: the four commands that cannot carry sessions.
NoSessionCommands == {"Startup", "ContextLoad", "ContextSave", "FlushContext"}

\* Mutant: every command counts as one that allows sessions (the spec's
\* reading of 4.G), so processing any response clears exclusivity.
IsSessionAllowedAlways(cc) == TRUE

IsSessionAllowed(cc) == cc \notin NoSessionCommands

\* Ordered auth areas: sequences of distinct sessions, at most MaxAuths long.
AuthSeqs == {f \in UNION {[1..n -> Sessions] : n \in 0..MaxAuths} : IsInjective(f)}

\* A command: its code, the sessions of its auth area in order, the one
\* with the audit attribute (and whether it sets auditReset), and those
\* with continueSession set.
CommandRec == [cc : CommandCodes, sess : AuthSeqs, audit : Sessions \cup {NoSession},
               reset : BOOLEAN, cont : SUBSET Sessions]

WellFormed(c) ==
  /\ c.cc \in NoSessionCommands => c.sess = <<>>
  /\ c.audit \in Range(c.sess) \cup {NoSession}
  /\ c.audit = NoSession => ~c.reset
  /\ c.cont \subseteq Range(c.sess)

Commands == {c \in CommandRec : WellFormed(c)}

Statuses == {"InFlight", "Failed", "Returned"}

\* One entry per command issued: the command, the caller and TPM nonce
\* generations its auth area carries, its outcome, and for a returned
\* response the TPM nonces and exclusive session it reports and the error
\* recorded in rspContext.Err.
Entry == [cmd : Commands, sentCaller : [Sessions -> Nat], sentTPM : [Sessions -> Nat],
          status : Statuses, rNonceTPM : [Sessions -> Nat],
          rExcl : Sessions \cup {NoSession}, err : {"None", "InvalidResponse"}]

-----------------------------------------------------------------------------
(* Host: building the auth area and processing a response.                *)

\* BuildCommandAuthArea refreshes the caller nonce of every session used.
RefreshedNonces(c) ==
  [s \in Sessions |-> IF s \in Range(c.sess) THEN hNonceCaller[s] + 1 ELSE hNonceCaller[s]]

\* The response HMAC of session e.cmd.sess[i] verifies when the host still
\* holds the caller nonce the command carried.
ResponseAuthValid(e, nc, i) == nc[e.cmd.sess[i]] = e.sentCaller[e.cmd.sess[i]]

\* ProcessResponseAuthArea walks the auth area in order and stops at the
\* first response auth that does not verify: the sessions before it are
\* updated, the rest are not.
BadAuths(e, nc) == {i \in 1..Len(e.cmd.sess) : ~ResponseAuthValid(e, nc, i)}
UpdatedSessions(e, nc) ==
  {e.cmd.sess[i] : i \in {j \in 1..Len(e.cmd.sess) : \A k \in BadAuths(e, nc) : j < k}}

\* Mutant: a session whose continueSession attribute was clear is not
\* disposed of when the response is processed.
SessionContinuedAlways(e, s) == TRUE

\* A session used by the command survives it when continueSession was set.
SessionContinued(e, s) == s \in e.cmd.cont

\* processResponseAuth, tpm.go:165-171: a command that allows sessions ends
\* the exclusivity of the last exclusive session before the response
\* auth area is applied.
ClearsLast(e) == IsSessionAllowed(e.cmd.cc) /\ lastExcl # NoSession
ClearedExclusive(e) ==
  IF ClearsLast(e) THEN [hExcl EXCEPT ![lastExcl] = FALSE] ELSE hExcl

\* processResponseAuth(r), given the caller nonces nc: the host state after
\* it, as a record, and the error it stores in r.Err.
ProcessResponseAuth(e, nc) ==
  LET excl1   == ClearedExclusive(e)
      last1   == IF ClearsLast(e) THEN NoSession ELSE lastExcl
      upd     == UpdatedSessions(e, nc)
      failed  == BadAuths(e, nc) # {}
      ntpm    == [s \in Sessions |-> IF s \in upd THEN e.rNonceTPM[s] ELSE hNonceTPM[s]]
      alive   == [s \in Sessions |-> IF s \in upd THEN SessionContinued(e, s) ELSE hAlive[s]]
      excl2   == [s \in Sessions |-> IF s \in upd
                                     THEN e.rExcl = s /\ SessionContinued(e, s)
                                     ELSE excl1[s]]
      exclIdx == {i \in 1..Len(e.cmd.sess) : excl2[e.cmd.sess[i]]}
      last2   == IF failed \/ exclIdx = {} THEN last1
                 ELSE e.cmd.sess[CHOOSE i \in exclIdx : \A j \in exclIdx : i =< j]
  IN [nonceTPM |-> ntpm, alive |-> alive, excl |-> excl2, last |-> last2,
      err |-> IF failed THEN "InvalidResponse" ELSE "None"]

\* Assigns the host variables from the result of ProcessResponseAuth.
ApplyHost(h) ==
  /\ hNonceTPM' = h.nonceTPM
  /\ hAlive' = h.alive
  /\ hExcl' = h.excl
  /\ lastExcl' = h.last

-----------------------------------------------------------------------------
(* The TPM.                                                                *)

\* The TPM accepts the auth area when every session is loaded and the
\* command HMAC was computed with its current nonceTPM.
TpmAuthOK(e) ==
  \A s \in Range(e.cmd.sess) : tAlive[s] /\ e.sentTPM[s] = tNonceTPM[s]

\* The exclusive audit session after a successful command: the audit
\* session stays or becomes exclusive when it already was or auditReset is
\* set; any other command that allows sessions clears exclusivity; the four
\* commands that cannot carry sessions leave it; a session that is not
\* continued is flushed and loses it.
TpmExclAfter(c) ==
  LET x == IF c.audit # NoSession /\ (c.reset \/ tExcl = c.audit) THEN c.audit
           ELSE IF c.cc \notin NoSessionCommands THEN NoSession
           ELSE tExcl
  IN IF x \in Range(c.sess) \ c.cont THEN NoSession ELSE x

TpmNonceAfter(c) ==
  [s \in Sessions |-> IF s \in Range(c.sess) THEN tNonceTPM[s] + 1 ELSE tNonceTPM[s]]

-----------------------------------------------------------------------------
(* Actions.                                                                *)

Init ==
  /\ hNonceCaller = [s \in Sessions |-> 0]
  /\ hNonceTPM = [s \in Sessions |-> 0]
  /\ hExcl = [s \in Sessions |-> FALSE]
  /\ hAlive = [s \in Sessions |-> TRUE]
  /\ lastExcl = NoSession
  /\ pending = 0
  /\ phase = "Idle"
  /\ tries = 0
  /\ cmds = <<>>
  /\ tNonceTPM = [s \in Sessions |-> 0]
  /\ tAlive = [s \in Sessions |-> TRUE]
  /\ tExcl = NoSession

\* The command uses no session of the pending response.
DisjointFromPending(c) ==
  pending # 0 => Range(c.sess) \cap Range(cmds[pending].cmd.sess) = {}

\* Mutant: the pending response is not processed before the next command
\* (tpm.go:238-239 dropped); it is simply replaced.
FlushPendingNever(nc, e) ==
  /\ UNCHANGED <<hNonceTPM, hExcl, hAlive, lastExcl>>
  /\ cmds' = Append(cmds, e)

\* tpm.go:238-239: a response the caller left pending is processed (its
\* error goes to r.Err only), then the new command's entry is recorded.
FlushPending(nc, e) ==
  IF pending # 0
  THEN LET h == ProcessResponseAuth(cmds[pending], nc)
       IN /\ ApplyHost(h)
          /\ cmds' = Append([cmds EXCEPT ![pending].err = h.err], e)
  ELSE /\ UNCHANGED <<hNonceTPM, hExcl, hAlive, lastExcl>>
       /\ cmds' = Append(cmds, e)

\* execContext.RunCommand up to the dispatch: collect the sessions, build
\* the auth area, then process the pending response (with the caller
\* nonces just refreshed), then enter TPMContext.RunCommand.
Run(c) ==
  /\ phase = "Idle"
  /\ Len(cmds) < MaxRuns
  /\ \A s \in Range(c.sess) : hAlive[s]
  /\ ReuseWhilePending \/ DisjointFromPending(c)
  /\ LET nc == RefreshedNonces(c)
         e  == [cmd |-> c, sentCaller |-> nc, sentTPM |-> hNonceTPM,
                status |-> "InFlight", rNonceTPM |-> hNonceTPM,
                rExcl |-> NoSession, err |-> "None"]
     IN /\ hNonceCaller' = nc
        /\ FlushPending(nc, e)
  /\ pending' = 0
  /\ phase' = "Submitting"
  /\ tries' = 1
  /\ UNCHANGED tpmVars

\* The command being submitted.
Cur == Len(cmds)

\* One iteration of the TPMContext.RunCommand loop in which the TPM executes
\* the command: the number of auth responses matches and the loop ends;
\* execContext.RunCommand makes the response the pending one.
SubmitSuccess ==
  /\ phase = "Submitting"
  /\ TpmAuthOK(cmds[Cur])
  /\ LET c == cmds[Cur].cmd
         n == TpmNonceAfter(c)
         x == TpmExclAfter(c)
     IN /\ tNonceTPM' = n
        /\ tExcl' = x
        /\ tAlive' = [s \in Sessions |-> IF s \in Range(c.sess) \ c.cont
                                         THEN FALSE ELSE tAlive[s]]
        /\ cmds' = [cmds EXCEPT ![Cur].status = "Returned",
                                ![Cur].rNonceTPM = n,
                                ![Cur].rExcl = x]
  /\ pending' = Cur
  /\ phase' = "Idle"
  /\ tries' = 0
  /\ UNCHANGED hostVars

\* Mutant: the loop gives up on a spent budget but does not leave it.
SubmitWarningKeepPhase ==
  /\ phase = "Submitting"
  /\ IF tries >= MaxSubmissions
     THEN /\ cmds' = [cmds EXCEPT ![Cur].status = "Failed"]
          /\ tries' = 0
          /\ UNCHANGED phase
     ELSE /\ tries' = tries + 1
          /\ UNCHANGED <<cmds, phase>>
  /\ UNCHANGED <<pending, hostVars, tpmVars>>

\* An iteration in which the TPM answers with a warning it wants retried
\* (yielded, testing, retry): resubmit unless the budget is spent.
SubmitWarning ==
  /\ phase = "Submitting"
  /\ IF tries >= MaxSubmissions
     THEN /\ cmds' = [cmds EXCEPT ![Cur].status = "Failed"]
          /\ phase' = "Idle"
          /\ tries' = 0
     ELSE /\ tries' = tries + 1
          /\ UNCHANGED <<cmds, phase>>
  /\ UNCHANGED <<pending, hostVars, tpmVars>>

\* An iteration ending in any other error: a TPM error (among them the
\* session error of an auth area the TPM rejects) or a transmission error
\* on write.  The TPM state is unchanged and the error is returned.
SubmitError ==
  /\ phase = "Submitting"
  /\ cmds' = [cmds EXCEPT ![Cur].status = "Failed"]
  /\ phase' = "Idle"
  /\ tries' = 0
  /\ UNCHANGED <<pending, hostVars, tpmVars>>

\* CompleteResponse on the pending response: processResponseAuth, then the
\* response parameters are unmarshalled.  On any other response it only
\* returns the stored r.Err and changes nothing.
Complete ==
  /\ phase = "Idle"
  /\ pending # 0
  /\ LET h == ProcessResponseAuth(cmds[pending], hNonceCaller)
     IN /\ ApplyHost(h)
        /\ cmds' = [cmds EXCEPT ![pending].err = h.err]
  /\ pending' = 0
  /\ UNCHANGED <<hNonceCaller, phase, tries, tpmVars>>

Next ==
  \/ \E c \in Commands : Run(c)
  \/ SubmitSuccess
  \/ SubmitWarning
  \/ SubmitError
  \/ Complete

Spec == Init /\ [][Next]_vars

-----------------------------------------------------------------------------
(* Properties.                                                             *)

TypeOK ==
  /\ hNonceCaller \in [Sessions -> Nat]
  /\ hNonceTPM \in [Sessions -> Nat]
  /\ hExcl \in [Sessions -> BOOLEAN]
  /\ hAlive \in [Sessions -> BOOLEAN]
  /\ lastExcl \in Sessions \cup {NoSession}
  /\ cmds \in Seq(Entry)
  /\ pending \in 0..Len(cmds)
  /\ phase \in {"Idle", "Submitting"}
  /\ tries \in Nat
  /\ phase = "Submitting" => Len(cmds) > 0 /\ cmds[Len(cmds)].status = "InFlight"
  /\ tNonceTPM \in [Sessions -> Nat]
  /\ tAlive \in [Sessions -> BOOLEAN]
  /\ tExcl \in Sessions \cup {NoSession}

\* No command is in flight and no response waits to be processed.
Quiescent == phase = "Idle" /\ pending = 0

\* The dispatcher caches the last session observed exclusive (the spec's
\* "Exclusive-audit tracking"): lastExclusiveSession names every host
\* session marked exclusive, so that the clearing in processResponseAuth
\* reaches all of them.  processResponseAuth returns on a response auth that
\* does not verify (tpm.go:173-174) after ProcessResponseAuthArea updated
\* the sessions before it, and before it caches the exclusive one
\* (tpm.go:177-182).
HostExclusiveTracked == \A s \in Sessions : hExcl[s] => lastExcl = s

\* Once every response has been processed, the host marks a live session
\* exclusive exactly when the TPM holds it as its exclusive audit session:
\* the exclusivity bookkeeping of processResponseAuth (cleared by commands
\* that allow sessions, kept across the four that do not) follows the TPM.
ExclusiveInSync ==
  Quiescent => \A s \in Sessions : hAlive[s] => (hExcl[s] <=> tExcl = s)

\* Once every response has been processed, the host's sessions are the
\* TPM's: the same ones are loaded and each carries the TPM's nonce.
SessionsInSync ==
  Quiescent => \A s \in Sessions :
                 /\ hAlive[s] = tAlive[s]
                 /\ hAlive[s] => hNonceTPM[s] = tNonceTPM[s]

\* The auth area of the command in flight quotes, for every session, the
\* TPM's current nonce: execContext.RunCommand never builds an auth area
\* from session state that a response not yet processed has made stale.
NoStaleCommandAuth ==
  phase = "Submitting" =>
    \A s \in Range(cmds[Cur].cmd.sess) : cmds[Cur].sentTPM[s] = tNonceTPM[s]

\* The spec (4.G): the next command that cannot carry sessions (Startup,
\* ContextLoad/Save, FlushContext) clears exclusivity on the host side.
\* Processing the response of such a command leaves no session exclusive.
NoSessionCommandClearsExclusive ==
  [][ (pending # 0 /\ pending' = 0 /\ ~IsSessionAllowed(cmds[pending].cmd.cc))
      => \A s \in Sessions : ~hExcl'[s] ]_vars

=============================================================================
