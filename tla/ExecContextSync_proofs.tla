----------------------- MODULE ExecContextSync_proofs -----------------------
(***************************************************************************)
(* Proofs that the host's view of its sessions follows the TPM (tpm.go:    *)
(* execContext.RunCommand, processResponseAuth and CompleteResponse): once *)
(* every response has been processed the same sessions are loaded on both  *)
(* ends with the same nonces and the same exclusive audit session, and a   *)
(* command's auth area never quotes a stale nonce; all for every value of  *)
(* the constants, when no command reuses a session of a pending response.  *)
(***************************************************************************)
EXTENDS ExecContext_proofs

-----------------------------------------------------------------------------
(* The inductive invariant.                                                *)

\* The sessions of the response the caller left pending.
PendingSess == IF pending = 0 THEN {} ELSE Range(cmds[pending].cmd.sess)

\* Outside the pending response, host and TPM agree on which sessions are
\* loaded and on their nonces.
OutsideSync ==
  \A s \in Sessions \ PendingSess :
    /\ hAlive[s] = tAlive[s]
    /\ hAlive[s] => hNonceTPM[s] = tNonceTPM[s]

\* The sessions of the pending response are still loaded on the host; the
\* TPM has already applied the command: it flushed those not continued and
\* holds the nonces the response reports.
PendingSync ==
  pending # 0 =>
    \A s \in Range(cmds[pending].cmd.sess) :
      /\ hAlive[s]
      /\ tAlive[s] = (s \in cmds[pending].cmd.cont)
      /\ cmds[pending].rNonceTPM[s] = tNonceTPM[s]

\* The TPM's exclusive audit session is loaded.
TpmExclLive == tExcl # NoSession => tAlive[tExcl]

\* The pending response reports the TPM's exclusive session, which, after
\* a command that allows sessions, is one of its continued sessions or none.
PendingExcl ==
  pending # 0 =>
    /\ cmds[pending].rExcl = tExcl
    /\ IsSessionAllowed(cmds[pending].cmd.cc) =>
         tExcl \in (Range(cmds[pending].cmd.sess) \cap cmds[pending].cmd.cont) \cup {NoSession}

\* Unless a pending response of a command that allows sessions has yet to
\* clear it, the host's exclusive session is the TPM's.
HostExclSync ==
  (pending = 0 \/ ~IsSessionAllowed(cmds[pending].cmd.cc)) =>
    \A s \in Sessions : hExcl[s] <=> tExcl = s

SInv ==
  /\ IInv
  /\ OutsideSync
  /\ PendingSync
  /\ TpmExclLive
  /\ PendingExcl
  /\ HostExclSync
  /\ NoStaleCommandAuth

-----------------------------------------------------------------------------
(* processResponseAuth on a response whose auth area verifies.             *)

\* Every session of the auth area is updated: it takes the TPM nonce the
\* response reports and survives exactly when continued; the exclusive
\* flags are left alone by a command that cannot carry sessions, and
\* otherwise mark exactly the session the response reports.
LEMMA ProcessInSync ==
  ASSUME TypeOK, HostExclusiveTracked, NEW e \in Entry, NEW nc \in [Sessions -> Nat],
         BadAuths(e, nc) = {}
  PROVE  /\ \A s \in Sessions :
              ProcessResponseAuth(e, nc).nonceTPM[s] =
                IF s \in Range(e.cmd.sess) THEN e.rNonceTPM[s] ELSE hNonceTPM[s]
         /\ \A s \in Sessions :
              ProcessResponseAuth(e, nc).alive[s] =
                IF s \in Range(e.cmd.sess) THEN s \in e.cmd.cont ELSE hAlive[s]
         /\ ~IsSessionAllowed(e.cmd.cc) =>
              \A s \in Sessions : ProcessResponseAuth(e, nc).excl[s] = hExcl[s]
         /\ IsSessionAllowed(e.cmd.cc)
            /\ e.rExcl \in (Range(e.cmd.sess) \cap e.cmd.cont) \cup {NoSession} =>
              \A s \in Sessions : ProcessResponseAuth(e, nc).excl[s] <=> s = e.rExcl
<1> DEFINE sq    == e.cmd.sess
           h     == ProcessResponseAuth(e, nc)
<1>1. /\ e.cmd \in Commands
      /\ sq \in AuthSeqs
      /\ DOMAIN sq = 1..Len(sq)
  <2>1. e.cmd \in Commands /\ sq \in AuthSeqs BY DEF Entry, Commands, CommandRec
  <2> QED BY <2>1, AuthSeqFacts, Zenon
<1>2. UpdatedSessions(e, nc) = Range(sq)
  BY <1>1 DEF UpdatedSessions, Range
<1>3. /\ h.nonceTPM = [s \in Sessions |-> IF s \in Range(sq) THEN e.rNonceTPM[s] ELSE hNonceTPM[s]]
      /\ h.alive = [s \in Sessions |-> IF s \in Range(sq) THEN SessionContinued(e, s) ELSE hAlive[s]]
      /\ h.excl = [s \in Sessions |-> IF s \in Range(sq)
                                      THEN e.rExcl = s /\ SessionContinued(e, s)
                                      ELSE ClearedExclusive(e)[s]]
  BY <1>2 DEF ProcessResponseAuth
<1>4. ~IsSessionAllowed(e.cmd.cc) =>
        \A s \in Sessions : ProcessResponseAuth(e, nc).excl[s] = hExcl[s]
  <2> SUFFICES ASSUME ~IsSessionAllowed(e.cmd.cc), NEW s \in Sessions
               PROVE  h.excl[s] = hExcl[s]
    OBVIOUS
  <2>1. sq = << >> BY <1>1 DEF Commands, WellFormed, IsSessionAllowed
  <2>2. Range(sq) = {} BY <2>1 DEF Range
  <2>3. ClearedExclusive(e) = hExcl BY DEF ClearedExclusive, ClearsLast
  <2> QED BY <1>3, <2>2, <2>3
<1>5. IsSessionAllowed(e.cmd.cc)
      /\ e.rExcl \in (Range(sq) \cap e.cmd.cont) \cup {NoSession} =>
        \A s \in Sessions : ProcessResponseAuth(e, nc).excl[s] <=> s = e.rExcl
  <2> SUFFICES ASSUME IsSessionAllowed(e.cmd.cc),
                      e.rExcl \in (Range(sq) \cap e.cmd.cont) \cup {NoSession},
                      NEW s \in Sessions
               PROVE  h.excl[s] <=> s = e.rExcl
    OBVIOUS
  <2>1. ~ClearedExclusive(e)[s]
    BY ConstantsAssumption DEF ClearedExclusive, ClearsLast, HostExclusiveTracked, TypeOK
  <2>2. s # NoSession BY ConstantsAssumption
  <2> QED BY <1>3, <2>1, <2>2 DEF SessionContinued
<1> QED BY <1>3, <1>4, <1>5 DEF SessionContinued

\* Processing the pending response, in Run or in CompleteResponse, with
\* caller nonces that verify, brings every session back in sync with the
\* TPM, exclusive session included.
LEMMA ProcessPendingSync ==
  ASSUME SInv, pending # 0, NEW nc \in [Sessions -> Nat],
         BadAuths(cmds[pending], nc) = {},
         ApplyHost(ProcessResponseAuth(cmds[pending], nc)),
         UNCHANGED tpmVars
  PROVE  /\ \A s \in Sessions :
              /\ hAlive'[s] = tAlive'[s]
              /\ hAlive'[s] => hNonceTPM'[s] = tNonceTPM'[s]
         /\ \A s \in Sessions : hExcl'[s] <=> tExcl' = s
<1> DEFINE e == cmds[pending]
           h == ProcessResponseAuth(e, nc)
           R == Range(e.cmd.sess)
<1>1. TypeOK /\ HostExclusiveTracked BY DEF SInv, IInv
<1>2. e \in Entry BY <1>1, ElementOfSeq DEF TypeOK
<1>3. /\ \A s \in Sessions : h.nonceTPM[s] = IF s \in R THEN e.rNonceTPM[s] ELSE hNonceTPM[s]
      /\ \A s \in Sessions : h.alive[s] = IF s \in R THEN s \in e.cmd.cont ELSE hAlive[s]
  BY <1>1, <1>2, ProcessInSync
<1>4. hNonceTPM' = h.nonceTPM /\ hAlive' = h.alive /\ hExcl' = h.excl
  BY DEF ApplyHost
<1>5. PendingSess = R BY DEF PendingSess
<1>6. ASSUME NEW s \in Sessions
      PROVE  /\ hAlive'[s] = tAlive'[s]
             /\ hAlive'[s] => hNonceTPM'[s] = tNonceTPM'[s]
  <2>1. CASE s \in R
    <3>1. tAlive[s] = (s \in e.cmd.cont) /\ e.rNonceTPM[s] = tNonceTPM[s]
      BY <2>1 DEF SInv, PendingSync
    <3> QED BY <3>1, <2>1, <1>3, <1>4 DEF tpmVars
  <2>2. CASE s \notin R
    <3>1. hAlive[s] = tAlive[s] /\ (hAlive[s] => hNonceTPM[s] = tNonceTPM[s])
      BY <2>2, <1>5 DEF SInv, OutsideSync
    <3> QED BY <3>1, <2>2, <1>3, <1>4 DEF tpmVars
  <2> QED BY <2>1, <2>2
<1>7. \A s \in Sessions : hExcl'[s] <=> tExcl' = s
  <2>1. CASE IsSessionAllowed(e.cmd.cc)
    <3>1. e.rExcl = tExcl /\ e.rExcl \in (R \cap e.cmd.cont) \cup {NoSession}
      BY <2>1 DEF SInv, PendingExcl
    <3>2. \A s \in Sessions : h.excl[s] <=> s = e.rExcl
      BY <3>1, <2>1, <1>1, <1>2, ProcessInSync
    <3> QED BY <3>1, <3>2, <1>4 DEF tpmVars
  <2>2. CASE ~IsSessionAllowed(e.cmd.cc)
    <3>1. \A s \in Sessions : h.excl[s] = hExcl[s]
      BY <2>2, <1>1, <1>2, ProcessInSync
    <3>2. \A s \in Sessions : hExcl[s] <=> tExcl = s
      BY <2>2 DEF SInv, HostExclSync
    <3> QED BY <3>1, <3>2, <1>4 DEF tpmVars
  <2> QED BY <2>1, <2>2
<1> QED BY <1>6, <1>7

-----------------------------------------------------------------------------
(* Each action keeps the invariant.                                        *)

\* The command Run builds quotes the TPM's nonces, and processing the
\* response left pending brings the host in sync (tpm.go:206-245).
LEMMA RunSync ==
  ASSUME ~ReuseWhilePending, SInv, NEW c \in Commands, Run(c)
  PROVE  /\ OutsideSync' /\ PendingSync' /\ TpmExclLive' /\ PendingExcl'
         /\ HostExclSync' /\ NoStaleCommandAuth'
<1> DEFINE nc == RefreshedNonces(c)
           e  == [cmd |-> c, sentCaller |-> nc, sentTPM |-> hNonceTPM,
                  status |-> "InFlight", rNonceTPM |-> hNonceTPM,
                  rExcl |-> NoSession, err |-> "None"]
<1>1. /\ hNonceCaller' = nc /\ pending' = 0 /\ phase' = "Submitting"
      /\ FlushPending(nc, e) /\ UNCHANGED tpmVars
      /\ DisjointFromPending(c)
      /\ \A s \in Range(c.sess) : hAlive[s]
  BY DEF Run
<1>2. TypeOK BY DEF SInv, IInv
<1>3. nc \in [Sessions -> Nat] /\ e \in Entry
  <2>1. nc \in [Sessions -> Nat] BY <1>2 DEF TypeOK, RefreshedNonces
  <2>2. e \in Entry BY <1>2, NewEntryType
  <2> QED BY <2>1, <2>2
<1>4. cmds'[Len(cmds')] = e BY <1>1, <1>2, <1>3, FlushPendingShape
<1>5. PendingSess' = {} BY <1>1 DEF PendingSess
<1>6. PendingSync' /\ PendingExcl' BY <1>1 DEF PendingSync, PendingExcl
<1>7. TpmExclLive' BY <1>1 DEF SInv, TpmExclLive, tpmVars
\* Every session is back in sync with the TPM.
<1>8. /\ \A s \in Sessions :
           /\ hAlive'[s] = tAlive'[s]
           /\ hAlive'[s] => hNonceTPM'[s] = tNonceTPM'[s]
      /\ \A s \in Sessions : hExcl'[s] <=> tExcl' = s
  <2>1. CASE pending # 0
    <3>1. cmds[pending] \in Entry BY <2>1, <1>2, ElementOfSeq DEF TypeOK
    <3>2. \A s \in Range(cmds[pending].cmd.sess) : nc[s] = cmds[pending].sentCaller[s]
      <4>1. Range(cmds[pending].cmd.sess) \subseteq Sessions
        <5>1. cmds[pending].cmd.sess \in AuthSeqs BY <3>1 DEF Entry, Commands, CommandRec
        <5> QED BY <5>1, AuthSeqFacts DEF Range
      <4>2. Range(c.sess) \cap Range(cmds[pending].cmd.sess) = {}
        BY <1>1, <2>1 DEF DisjointFromPending
      <4> QED BY <4>1, <4>2, <2>1 DEF RefreshedNonces, SInv, IInv, PendingCallerNoncesFresh
    <3>3. BadAuths(cmds[pending], nc) = {} BY <3>1, <3>2, NoBadAuths
    <3>4. ApplyHost(ProcessResponseAuth(cmds[pending], nc)) BY <2>1, <1>1 DEF FlushPending
    <3> QED BY <2>1, <1>1, <1>3, <3>3, <3>4, ProcessPendingSync
  <2>2. CASE pending = 0
    <3>1. UNCHANGED <<hNonceTPM, hExcl, hAlive>> BY <2>2, <1>1 DEF FlushPending
    <3> QED BY <3>1, <2>2, <1>1 DEF SInv, OutsideSync, HostExclSync, PendingSess, tpmVars
  <2> QED BY <2>1, <2>2
<1>9. OutsideSync' BY <1>8, <1>5 DEF OutsideSync
<1>10. HostExclSync' BY <1>8 DEF HostExclSync
\* The auth area quotes the host's TPM nonces from before the flush; the
\* command's sessions are loaded and none is a session of the pending
\* response, so those nonces are the TPM's.
<1>11. NoStaleCommandAuth'
  <2> SUFFICES ASSUME NEW s \in Range(c.sess) PROVE e.sentTPM[s] = tNonceTPM'[s]
    BY <1>1, <1>4 DEF NoStaleCommandAuth, Cur
  <2>1. s \in Sessions
    <3>1. c.sess \in AuthSeqs BY DEF Commands, CommandRec
    <3> QED BY <3>1, AuthSeqFacts DEF Range
  <2>2. s \notin PendingSess BY <1>1 DEF DisjointFromPending, PendingSess
  <2>3. hAlive[s] BY <1>1
  <2> QED BY <2>1, <2>2, <2>3, <1>1 DEF SInv, OutsideSync, tpmVars
<1> QED BY <1>6, <1>7, <1>9, <1>10, <1>11

\* CompleteResponse processes the pending response with the host's own
\* caller nonces, which verify, and brings the host in sync (tpm.go:262-280).
LEMMA CompleteSync ==
  ASSUME SInv, Complete
  PROVE  /\ OutsideSync' /\ PendingSync' /\ TpmExclLive' /\ PendingExcl'
         /\ HostExclSync' /\ NoStaleCommandAuth'
<1>1. /\ pending # 0 /\ pending' = 0 /\ phase = "Idle" /\ UNCHANGED phase
      /\ ApplyHost(ProcessResponseAuth(cmds[pending], hNonceCaller))
      /\ UNCHANGED tpmVars
  BY DEF Complete, tpmVars
<1>2. TypeOK BY DEF SInv, IInv
<1>3. cmds[pending] \in Entry BY <1>1, <1>2, ElementOfSeq DEF TypeOK
<1>4. BadAuths(cmds[pending], hNonceCaller) = {}
  BY <1>1, <1>3, NoBadAuths DEF SInv, IInv, PendingCallerNoncesFresh
<1>5. /\ \A s \in Sessions :
           /\ hAlive'[s] = tAlive'[s]
           /\ hAlive'[s] => hNonceTPM'[s] = tNonceTPM'[s]
      /\ \A s \in Sessions : hExcl'[s] <=> tExcl' = s
  BY <1>1, <1>2, <1>4, ProcessPendingSync DEF TypeOK
<1>6. PendingSess' = {} BY <1>1 DEF PendingSess
<1> QED BY <1>1, <1>5, <1>6
  DEF SInv, OutsideSync, PendingSync, TpmExclLive, PendingExcl, HostExclSync,
      NoStaleCommandAuth, tpmVars

\* The TPM's exclusive audit session after a command it accepts: a loaded
\* session that the command did not flush; after a command that allows
\* sessions, one of its continued sessions or none; after one of the four
\* that cannot carry sessions, the one before.
LEMMA TpmExclAfterFacts ==
  ASSUME TypeOK, TpmExclLive, NEW c \in Commands,
         \A s \in Range(c.sess) : tAlive[s]
  PROVE  /\ TpmExclAfter(c) \in Sessions \cup {NoSession}
         /\ TpmExclAfter(c) \notin Range(c.sess) \ c.cont
         /\ TpmExclAfter(c) # NoSession => tAlive[TpmExclAfter(c)]
         /\ IsSessionAllowed(c.cc) =>
              TpmExclAfter(c) \in (Range(c.sess) \cap c.cont) \cup {NoSession}
         /\ ~IsSessionAllowed(c.cc) => TpmExclAfter(c) = tExcl
<1> DEFINE x == IF c.audit # NoSession /\ (c.reset \/ tExcl = c.audit) THEN c.audit
                ELSE IF c.cc \notin NoSessionCommands THEN NoSession
                ELSE tExcl
<1>1. TpmExclAfter(c) = IF x \in Range(c.sess) \ c.cont THEN NoSession ELSE x
  BY DEF TpmExclAfter
<1>2. /\ c.audit \in Range(c.sess) \cup {NoSession}
      /\ Range(c.sess) \subseteq Sessions
  <2>1. c.sess \in AuthSeqs BY DEF Commands, CommandRec
  <2> QED BY <2>1, AuthSeqFacts DEF Commands, WellFormed, Range
<1>3. x \in Sessions \cup {NoSession} BY <1>2 DEF TypeOK
<1>4. x # NoSession => tAlive[x] BY <1>2 DEF TpmExclLive
<1>5. IsSessionAllowed(c.cc) => x \in Range(c.sess) \cup {NoSession}
  BY <1>2 DEF IsSessionAllowed
<1>6. ~IsSessionAllowed(c.cc) => x = tExcl /\ Range(c.sess) = {}
  <2> SUFFICES ASSUME ~IsSessionAllowed(c.cc) PROVE x = tExcl /\ Range(c.sess) = {}
    OBVIOUS
  <2>1. c.sess = << >> BY DEF Commands, WellFormed, IsSessionAllowed
  <2>2. Range(c.sess) = {} BY <2>1 DEF Range
  <2>3. c.audit = NoSession BY <2>2, <1>2
  <2> QED BY <2>2, <2>3 DEF IsSessionAllowed
<1>7. TpmExclAfter(c) \in {x, NoSession} BY <1>1
<1>8. TpmExclAfter(c) \notin Range(c.sess) \ c.cont BY <1>1, ConstantsAssumption, <1>2
<1>9. TpmExclAfter(c) # NoSession => TpmExclAfter(c) = x BY <1>1
<1>10. IsSessionAllowed(c.cc) =>
         TpmExclAfter(c) \in (Range(c.sess) \cap c.cont) \cup {NoSession}
  BY <1>1, <1>5
<1>11. ~IsSessionAllowed(c.cc) => TpmExclAfter(c) = tExcl BY <1>1, <1>6
<1> QED BY <1>3, <1>4, <1>7, <1>8, <1>9, <1>10, <1>11

\* A command the TPM executes becomes the pending response: the TPM has
\* applied it, the host has not (tpm.go:246-258).
LEMMA SubmitSuccessSync ==
  ASSUME SInv, SubmitSuccess
  PROVE  /\ OutsideSync' /\ PendingSync' /\ TpmExclLive' /\ PendingExcl'
         /\ HostExclSync' /\ NoStaleCommandAuth'
<1> DEFINE C == cmds[Cur].cmd
           R == Range(C.sess)
           n == TpmNonceAfter(C)
           x == TpmExclAfter(C)
<1>1. /\ phase = "Submitting" /\ phase' = "Idle" /\ pending' = Cur
      /\ TpmAuthOK(cmds[Cur])
      /\ UNCHANGED hostVars
      /\ tNonceTPM' = n /\ tExcl' = x
      /\ tAlive' = [s \in Sessions |-> IF s \in R \ C.cont THEN FALSE ELSE tAlive[s]]
      /\ cmds' = [cmds EXCEPT ![Cur].status = "Returned", ![Cur].rNonceTPM = n,
                              ![Cur].rExcl = x]
  BY DEF SubmitSuccess
<1>2. TypeOK BY DEF SInv, IInv
<1>3. pending = 0 BY <1>1 DEF SInv, IInv, PendingOnlyIdle
<1>4. Cur \in 1..Len(cmds) /\ Cur # 0 BY <1>1, <1>2 DEF TypeOK, Cur
<1>5. cmds[Cur] \in Entry /\ C \in Commands
  <2>1. cmds[Cur] \in Entry BY <1>4, <1>2, ElementOfSeq DEF TypeOK
  <2> QED BY <2>1 DEF Entry
<1>6. cmds'[Cur].cmd = C /\ cmds'[Cur].rNonceTPM = n /\ cmds'[Cur].rExcl = x
  BY <1>1, <1>4, <1>5 DEF Entry
<1>7. R \subseteq Sessions
  <2>1. C.sess \in AuthSeqs BY <1>5 DEF Commands, CommandRec
  <2> QED BY <2>1, AuthSeqFacts DEF Range
<1>8. \A s \in R : tAlive[s] /\ hAlive[s]
  <2>1. \A s \in R : tAlive[s] BY <1>1 DEF TpmAuthOK
  <2> QED BY <2>1, <1>3, <1>7 DEF SInv, OutsideSync, PendingSess
<1>9. /\ x \in Sessions \cup {NoSession}
      /\ x \notin R \ C.cont
      /\ x # NoSession => tAlive[x]
      /\ IsSessionAllowed(C.cc) => x \in (R \cap C.cont) \cup {NoSession}
      /\ ~IsSessionAllowed(C.cc) => x = tExcl
  BY <1>2, <1>5, <1>8, TpmExclAfterFacts DEF SInv
<1>10. PendingSess' = R BY <1>1, <1>4, <1>6 DEF PendingSess
<1>11. OutsideSync'
  <2> SUFFICES ASSUME NEW s \in Sessions \ R
               PROVE  /\ hAlive'[s] = tAlive'[s]
                      /\ hAlive'[s] => hNonceTPM'[s] = tNonceTPM'[s]
    BY <1>10 DEF OutsideSync
  <2>1. tAlive'[s] = tAlive[s] /\ tNonceTPM'[s] = tNonceTPM[s]
    BY <1>1 DEF TpmNonceAfter
  <2> QED BY <2>1, <1>1, <1>3 DEF SInv, OutsideSync, PendingSess, hostVars
<1>12. PendingSync'
  <2> SUFFICES ASSUME NEW s \in R
               PROVE  /\ hAlive'[s]
                      /\ tAlive'[s] = (s \in C.cont)
                      /\ cmds'[Cur].rNonceTPM[s] = tNonceTPM'[s]
    BY <1>1, <1>4, <1>6 DEF PendingSync
  <2>1. hAlive'[s] BY <1>8, <1>1 DEF hostVars
  <2>2. tAlive'[s] = (s \in C.cont)
    <3>1. tAlive'[s] = IF s \in R \ C.cont THEN FALSE ELSE tAlive[s] BY <1>1, <1>7
    <3>2. CASE s \in C.cont BY <3>1, <3>2, <1>8, <1>7, <1>2 DEF TypeOK
    <3>3. CASE s \notin C.cont
      <4>1. s \in R \ C.cont BY <3>3
      <4>2. tAlive'[s] = FALSE BY <4>1, <3>1
      <4>3. (s \in C.cont) = FALSE BY <3>3
      <4> QED BY <4>2, <4>3
    <3> QED BY <3>2, <3>3
  <2> QED BY <2>1, <2>2, <1>1, <1>6
<1>13. TpmExclLive'
  <2>1. x \in Sessions => tAlive'[x] = tAlive[x] BY <1>1, <1>9
  <2> QED BY <2>1, <1>1, <1>9 DEF TpmExclLive
<1>14. PendingExcl' BY <1>1, <1>4, <1>6, <1>9 DEF PendingExcl
<1>15. HostExclSync'
  <2> SUFFICES ASSUME ~IsSessionAllowed(C.cc)
               PROVE  \A s \in Sessions : hExcl'[s] <=> tExcl' = s
    BY <1>1, <1>4, <1>6 DEF HostExclSync
  <2> QED BY <1>1, <1>3, <1>9 DEF SInv, HostExclSync, hostVars
<1>16. NoStaleCommandAuth' BY <1>1 DEF NoStaleCommandAuth
<1> QED BY <1>11, <1>12, <1>13, <1>14, <1>15, <1>16

\* A retried or failed submission changes neither the host's sessions nor
\* the TPM's (tpm.go, TPMContext.RunCommand).
LEMMA SubmitOtherSync ==
  ASSUME SInv, SubmitWarning \/ SubmitError
  PROVE  /\ OutsideSync' /\ PendingSync' /\ TpmExclLive' /\ PendingExcl'
         /\ HostExclSync' /\ NoStaleCommandAuth'
<1>1. /\ phase = "Submitting" /\ pending = 0 /\ pending' = 0
      /\ UNCHANGED hostVars /\ UNCHANGED tpmVars
  BY DEF SubmitWarning, SubmitError, SInv, IInv, PendingOnlyIdle
<1>2. PendingSess = {} /\ PendingSess' = {} BY <1>1 DEF PendingSess
<1>3. /\ OutsideSync' /\ PendingSync' /\ TpmExclLive' /\ PendingExcl' /\ HostExclSync'
  BY <1>1, <1>2
  DEF SInv, OutsideSync, PendingSync, TpmExclLive, PendingExcl, HostExclSync,
      hostVars, tpmVars
<1>4. NoStaleCommandAuth'
  <2>1. phase' = "Idle" \/ UNCHANGED <<cmds, phase>>
    BY DEF SubmitWarning, SubmitError
  <2> QED BY <2>1, <1>1 DEF SInv, NoStaleCommandAuth, Cur, tpmVars
<1> QED BY <1>3, <1>4

\* The invariant holds initially and is kept by every step, when no
\* command reuses a session of the pending response.
LEMMA SInvInit == Init => SInv
<1> SUFFICES ASSUME Init PROVE SInv OBVIOUS
<1>1. IInv
  BY DEF Init, IInv, TypeOK, HostExclusiveTracked, SubmittingCallerNoncesFresh,
         PendingCallerNoncesFresh, PendingOnlyIdle
<1>2. PendingSess = {} BY DEF Init, PendingSess
<1> QED BY <1>1, <1>2, ConstantsAssumption
  DEF Init, SInv, OutsideSync, PendingSync, TpmExclLive, PendingExcl, HostExclSync,
      NoStaleCommandAuth

LEMMA SInvStep ==
  ASSUME ~ReuseWhilePending
  PROVE  SInv /\ [Next]_vars => SInv'
<1> SUFFICES ASSUME SInv, [Next]_vars PROVE SInv'
  OBVIOUS
<1>1. IInv' BY IInvStep DEF SInv
<1>2. /\ OutsideSync' /\ PendingSync' /\ TpmExclLive' /\ PendingExcl'
      /\ HostExclSync' /\ NoStaleCommandAuth'
  <2>1. CASE \E c \in Commands : Run(c) BY <2>1, RunSync
  <2>2. CASE SubmitSuccess BY <2>2, SubmitSuccessSync
  <2>3. CASE SubmitWarning \/ SubmitError BY <2>3, SubmitOtherSync
  <2>4. CASE Complete BY <2>4, CompleteSync
  <2>5. CASE UNCHANGED vars
    BY <2>5 DEF vars, SInv, OutsideSync, PendingSync, TpmExclLive, PendingExcl,
                HostExclSync, NoStaleCommandAuth, PendingSess, Cur
  <2> QED BY <2>1, <2>2, <2>3, <2>4, <2>5 DEF Next
<1> QED BY <1>1, <1>2 DEF SInv

-----------------------------------------------------------------------------
(* Theorems.                                                               *)

\* Once every response has been processed, the host and the TPM have the
\* same sessions loaded, each with the TPM's current nonce: the nonce and
\* session disposal of processResponseAuth (tpm.go:172-199) mirror what the
\* TPM did, whichever of Run and CompleteResponse processes the response.
THEOREM SessionsSynced ==
  ASSUME ~ReuseWhilePending
  PROVE  Spec => []SessionsInSync
<1>1. SInv => SessionsInSync
  BY DEF SInv, OutsideSync, SessionsInSync, Quiescent, PendingSess
<1> QED BY <1>1, SInvInit, SInvStep, PTL DEF Spec

\* Once every response has been processed, the host marks a live session
\* exclusive exactly when the TPM holds it as its exclusive audit session:
\* processResponseAuth clears the last exclusive session on a command that
\* allows sessions and keeps it across the four that do not (tpm.go:165-182).
THEOREM ExclusiveSynced ==
  ASSUME ~ReuseWhilePending
  PROVE  Spec => []ExclusiveInSync
<1>1. SInv => ExclusiveInSync
  BY DEF SInv, HostExclSync, ExclusiveInSync, Quiescent
<1> QED BY <1>1, SInvInit, SInvStep, PTL DEF Spec

\* The auth area of the command being submitted quotes the TPM's current
\* nonce for each of its sessions: execContext.RunCommand builds it from
\* host state that no unprocessed response has made stale (tpm.go:206-245).
THEOREM NoStaleAuth ==
  ASSUME ~ReuseWhilePending
  PROVE  Spec => []NoStaleCommandAuth
<1>1. SInv => NoStaleCommandAuth BY DEF SInv
<1> QED BY <1>1, SInvInit, SInvStep, PTL DEF Spec

=============================================================================
