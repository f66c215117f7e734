------------------------- MODULE ExecContext_proofs -------------------------
(***************************************************************************)
(* Proofs about ExecContext for every value of its constants: the type     *)
(* invariant, and that lastExclusiveSession tracks every session the host  *)
(* marks exclusive when no command reuses a session of a pending response. *)
(***************************************************************************)
EXTENDS ExecContext, SequenceTheorems, TLAPS

-----------------------------------------------------------------------------
(* Lemmas on the operators the model is built from.                        *)

\* An auth area is a sequence of sessions no longer than MaxAuths.
LEMMA AuthSeqFacts ==
  ASSUME NEW f \in AuthSeqs
  PROVE  /\ f \in Seq(Sessions)
         /\ Len(f) \in 0..MaxAuths
         /\ DOMAIN f = 1..Len(f)
         /\ \A i \in 1..Len(f) : f[i] \in Sessions
<1>1. PICK n \in 0..MaxAuths : f \in [1..n -> Sessions]
  BY ConstantsAssumption DEF AuthSeqs
<1>2. f \in Seq(Sessions)
  BY <1>1, ConstantsAssumption, SeqDef
<1>3. Len(f) = n
  BY <1>1, <1>2, LenProperties, ConstantsAssumption
<1> QED BY <1>1, <1>2, <1>3

\* A non-empty set of auth-area positions has a first element.
LEMMA FirstIndex ==
  ASSUME NEW S \in SUBSET (1..3), S # {}
  PROVE  \E i \in S : \A j \in S : i =< j
<1>1. CASE 1 \in S BY <1>1
<1>2. CASE 1 \notin S /\ 2 \in S BY <1>2
<1>3. CASE 1 \notin S /\ 2 \notin S
  <2>1. \A x \in S : x = 3 BY <1>3
  <2>2. PICK x \in S : TRUE OBVIOUS
  <2> QED BY <2>1, <2>2
<1> QED BY <1>1, <1>2, <1>3

\* The shape of the result of processResponseAuth.
HostResult ==
  [nonceTPM : [Sessions -> Nat], alive : [Sessions -> BOOLEAN],
   excl : [Sessions -> BOOLEAN], last : Sessions \cup {NoSession},
   err : {"None", "InvalidResponse"}]

\* processResponseAuth leaves the host state well typed.
LEMMA ProcessResponseAuthType ==
  ASSUME TypeOK, NEW e \in Entry, NEW nc \in [Sessions -> Nat]
  PROVE  ProcessResponseAuth(e, nc) \in HostResult
<1> DEFINE sq == e.cmd.sess
<1>1. /\ sq \in AuthSeqs
      /\ e.rNonceTPM \in [Sessions -> Nat]
      /\ e.rExcl \in Sessions \cup {NoSession}
  BY DEF Entry, Commands, CommandRec
<1>2. /\ Len(sq) \in 0..3
      /\ \A i \in 1..Len(sq) : sq[i] \in Sessions
  <2>1. /\ sq \in Seq(Sessions)
        /\ Len(sq) \in 0..MaxAuths
        /\ \A i \in 1..Len(sq) : sq[i] \in Sessions
    BY <1>1, AuthSeqFacts, Zenon
  <2>2. \A n \in 0..MaxAuths : n \in 0..3 BY ConstantsAssumption
  <2> QED BY <2>1, <2>2, Zenon
<1>3. ClearedExclusive(e) \in [Sessions -> BOOLEAN]
  BY DEF TypeOK, ClearedExclusive, ClearsLast
<1> DEFINE excl2 == [s \in Sessions |-> IF s \in UpdatedSessions(e, nc)
                                     THEN e.rExcl = s /\ SessionContinued(e, s)
                                     ELSE ClearedExclusive(e)[s]]
           exclIdx == {i \in 1..Len(sq) : excl2[sq[i]]}
<1>4. exclIdx # {} => sq[CHOOSE i \in exclIdx : \A j \in exclIdx : i =< j] \in Sessions
  <2> SUFFICES ASSUME exclIdx # {} PROVE sq[CHOOSE i \in exclIdx : \A j \in exclIdx : i =< j] \in Sessions
    OBVIOUS
  <2>1. exclIdx \in SUBSET (1..3) BY <1>2
  <2>2. \E i \in exclIdx : \A j \in exclIdx : i =< j BY <2>1, FirstIndex
  <2>3. (CHOOSE i \in exclIdx : \A j \in exclIdx : i =< j) \in 1..Len(sq) BY <2>2
  <2> QED BY <2>3, <1>2
<1>5. (IF ClearsLast(e) THEN NoSession ELSE lastExcl) \in Sessions \cup {NoSession}
  BY DEF TypeOK
<1>6. excl2 \in [Sessions -> BOOLEAN]
  BY <1>3
<1>7. [s \in Sessions |-> IF s \in UpdatedSessions(e, nc) THEN e.rNonceTPM[s] ELSE hNonceTPM[s]]
        \in [Sessions -> Nat]
  BY <1>1 DEF TypeOK
<1>8. [s \in Sessions |-> IF s \in UpdatedSessions(e, nc) THEN SessionContinued(e, s) ELSE hAlive[s]]
        \in [Sessions -> BOOLEAN]
  <2>1. \A s \in Sessions : SessionContinued(e, s) \in BOOLEAN
    BY DEF SessionContinued
  <2>2. \A s \in Sessions : hAlive[s] \in BOOLEAN
    BY DEF TypeOK
  <2> QED BY <2>1, <2>2
<1>9. (IF BadAuths(e, nc) # {} \/ exclIdx = {}
       THEN IF ClearsLast(e) THEN NoSession ELSE lastExcl
       ELSE sq[CHOOSE i \in exclIdx : \A j \in exclIdx : i =< j]) \in Sessions \cup {NoSession}
  BY <1>4, <1>5
<1> QED BY <1>6, <1>7, <1>8, <1>9 DEF ProcessResponseAuth, HostResult

-----------------------------------------------------------------------------
(* Type correctness.                                                       *)

\* The entry Run records for a command it builds is well typed.
LEMMA NewEntryType ==
  ASSUME TypeOK, NEW c \in Commands
  PROVE  [cmd |-> c, sentCaller |-> RefreshedNonces(c), sentTPM |-> hNonceTPM,
          status |-> "InFlight", rNonceTPM |-> hNonceTPM,
          rExcl |-> NoSession, err |-> "None"] \in Entry
BY DEF TypeOK, Entry, RefreshedNonces, Statuses

\* One step of any action keeps every variable within its type.
LEMMA TypeStep == TypeOK /\ [Next]_vars => TypeOK'
<1> SUFFICES ASSUME TypeOK, [Next]_vars PROVE TypeOK'
  OBVIOUS
<1>1. ASSUME NEW c \in Commands, Run(c) PROVE TypeOK'
  <2> DEFINE nc == RefreshedNonces(c)
             e  == [cmd |-> c, sentCaller |-> nc, sentTPM |-> hNonceTPM,
                    status |-> "InFlight", rNonceTPM |-> hNonceTPM,
                    rExcl |-> NoSession, err |-> "None"]
  <2>1. e \in Entry BY NewEntryType
  <2>2. nc \in [Sessions -> Nat] BY DEF TypeOK, RefreshedNonces
  <2>3. FlushPending(nc, e) BY <1>1 DEF Run
  <2>4. /\ hNonceTPM' \in [Sessions -> Nat]
        /\ hExcl' \in [Sessions -> BOOLEAN]
        /\ hAlive' \in [Sessions -> BOOLEAN]
        /\ lastExcl' \in Sessions \cup {NoSession}
        /\ cmds' \in Seq(Entry)
        /\ Len(cmds') > 0 /\ cmds'[Len(cmds')].status = "InFlight"
    <3>1. CASE pending # 0
      <4> DEFINE h == ProcessResponseAuth(cmds[pending], nc)
      <4>1. cmds[pending] \in Entry BY <3>1, ElementOfSeq DEF TypeOK
      <4>2. h \in HostResult BY <4>1, <2>2, ProcessResponseAuthType
      <4>3. [cmds EXCEPT ![pending].err = h.err] \in Seq(Entry)
        <5>1. [cmds[pending] EXCEPT !.err = h.err] \in Entry BY <4>1, <4>2 DEF Entry, HostResult
        <5> QED BY <5>1, <3>1, ExceptSeq DEF TypeOK
      <4>4. /\ ApplyHost(h)
            /\ cmds' = Append([cmds EXCEPT ![pending].err = h.err], e)
        BY <2>3, <3>1 DEF FlushPending
      <4> QED BY <4>2, <4>3, <4>4, <2>1, AppendProperties DEF ApplyHost, HostResult
    <3>2. CASE pending = 0
      <4>1. /\ UNCHANGED <<hNonceTPM, hExcl, hAlive, lastExcl>>
            /\ cmds' = Append(cmds, e)
        BY <2>3, <3>2 DEF FlushPending
      <4> QED BY <4>1, <2>1, AppendProperties DEF TypeOK
    <3> QED BY <3>1, <3>2
  <2>5. /\ hNonceCaller' = nc
        /\ pending' = 0 /\ phase' = "Submitting" /\ tries' = 1
        /\ UNCHANGED tpmVars
    BY <1>1 DEF Run
  <2>6. Len(cmds') \in Nat BY <2>4, LenProperties
  <2>7. pending' \in 0..Len(cmds') BY <2>5, <2>6
  <2>8. phase' = "Submitting" => Len(cmds') > 0 /\ cmds'[Len(cmds')].status = "InFlight"
    BY <2>4
  <2>9. /\ hNonceCaller' \in [Sessions -> Nat]
        /\ phase' \in {"Idle", "Submitting"} /\ tries' \in Nat
    BY <2>2, <2>5
  <2>10. /\ tNonceTPM' \in [Sessions -> Nat]
         /\ tAlive' \in [Sessions -> BOOLEAN]
         /\ tExcl' \in Sessions \cup {NoSession}
    BY <2>5 DEF TypeOK, tpmVars
  <2> QED BY <2>4, <2>7, <2>8, <2>9, <2>10, Zenon DEF TypeOK
<1>2. CASE SubmitSuccess
  <2> DEFINE c == cmds[Cur].cmd
  <2>1. Len(cmds) > 0 /\ cmds[Cur] \in Entry
    BY <1>2, ElementOfSeq DEF SubmitSuccess, TypeOK, Cur
  <2>2. /\ c \in Commands
        /\ c.sess \in AuthSeqs
        /\ c.audit \in Sessions \cup {NoSession}
    BY <2>1 DEF Entry, Commands, CommandRec
  <2>3. TpmNonceAfter(c) \in [Sessions -> Nat] BY DEF TypeOK, TpmNonceAfter
  <2>4. TpmExclAfter(c) \in Sessions \cup {NoSession} BY <2>2 DEF TypeOK, TpmExclAfter
  <2>5. /\ [cmds EXCEPT ![Cur].status = "Returned", ![Cur].rNonceTPM = TpmNonceAfter(c),
                        ![Cur].rExcl = TpmExclAfter(c)] \in Seq(Entry)
        /\ Len([cmds EXCEPT ![Cur].status = "Returned", ![Cur].rNonceTPM = TpmNonceAfter(c),
                            ![Cur].rExcl = TpmExclAfter(c)]) = Len(cmds)
    <3>1. [cmds[Cur] EXCEPT !.status = "Returned", !.rNonceTPM = TpmNonceAfter(c),
                            !.rExcl = TpmExclAfter(c)] \in Entry
      BY <2>1, <2>3, <2>4 DEF Entry, Statuses
    <3>2. [cmds EXCEPT ![Cur].status = "Returned", ![Cur].rNonceTPM = TpmNonceAfter(c),
                       ![Cur].rExcl = TpmExclAfter(c)]
          = [cmds EXCEPT ![Cur] = [cmds[Cur] EXCEPT !.status = "Returned",
                                   !.rNonceTPM = TpmNonceAfter(c), !.rExcl = TpmExclAfter(c)]]
      OBVIOUS
    <3>3. cmds \in Seq(Entry) /\ Cur \in 1..Len(cmds)
      BY <2>1, LenProperties DEF TypeOK, Cur
    <3>4. /\ [cmds EXCEPT ![Cur] = [cmds[Cur] EXCEPT !.status = "Returned",
                      !.rNonceTPM = TpmNonceAfter(c), !.rExcl = TpmExclAfter(c)]] \in Seq(Entry)
          /\ Len([cmds EXCEPT ![Cur] = [cmds[Cur] EXCEPT !.status = "Returned",
                      !.rNonceTPM = TpmNonceAfter(c), !.rExcl = TpmExclAfter(c)]]) = Len(cmds)
      BY <3>1, <3>3, ExceptSeq
    <3> QED BY <3>2, <3>4
  <2>6. [s \in Sessions |-> IF s \in Range(c.sess) \ c.cont THEN FALSE ELSE tAlive[s]]
          \in [Sessions -> BOOLEAN]
    BY DEF TypeOK
  <2>7. Len(cmds) \in Nat BY LenProperties DEF TypeOK
  <2>8. /\ cmds' \in Seq(Entry) /\ Len(cmds') = Len(cmds)
        /\ pending' \in 0..Len(cmds')
        /\ phase' = "Idle" /\ tries' \in Nat
    BY <1>2, <2>5, <2>7 DEF SubmitSuccess, Cur
  <2>9. /\ tNonceTPM' \in [Sessions -> Nat]
        /\ tAlive' \in [Sessions -> BOOLEAN]
        /\ tExcl' \in Sessions \cup {NoSession}
    BY <1>2, <2>3, <2>4, <2>6 DEF SubmitSuccess
  <2>10. /\ hNonceCaller' \in [Sessions -> Nat]
         /\ hNonceTPM' \in [Sessions -> Nat]
         /\ hExcl' \in [Sessions -> BOOLEAN]
         /\ hAlive' \in [Sessions -> BOOLEAN]
         /\ lastExcl' \in Sessions \cup {NoSession}
    BY <1>2 DEF SubmitSuccess, TypeOK, hostVars
  <2> QED BY <2>8, <2>9, <2>10, Zenon DEF TypeOK
<1>3. CASE SubmitWarning
  <2>1. Len(cmds) > 0 /\ cmds[Cur] \in Entry
    BY <1>3, ElementOfSeq DEF SubmitWarning, TypeOK, Cur
  <2>2. /\ [cmds EXCEPT ![Cur].status = "Failed"] \in Seq(Entry)
        /\ Len([cmds EXCEPT ![Cur].status = "Failed"]) = Len(cmds)
        /\ [cmds EXCEPT ![Cur].status = "Failed"][Cur].status = "Failed"
    <3>1. [cmds[Cur] EXCEPT !.status = "Failed"] \in Entry BY <2>1 DEF Entry, Statuses
    <3> QED BY <3>1, <2>1, ExceptSeq DEF TypeOK, Cur
  <2>3. /\ cmds' \in Seq(Entry) /\ Len(cmds') = Len(cmds)
        /\ phase' = "Submitting" => cmds'[Len(cmds')].status = "InFlight"
        /\ phase' \in {"Idle", "Submitting"} /\ tries' \in Nat
    <3>0. /\ cmds \in Seq(Entry) /\ tries \in Nat
          /\ phase = "Submitting" => Len(cmds) > 0 /\ cmds[Len(cmds)].status = "InFlight"
      BY DEF TypeOK
    <3>1. CASE tries >= MaxSubmissions
      <4>1. cmds' = [cmds EXCEPT ![Cur].status = "Failed"] /\ phase' = "Idle" /\ tries' = 0
        BY <1>3, <3>1, Zenon DEF SubmitWarning
      <4> QED BY <4>1, <2>2
    <3>2. CASE ~(tries >= MaxSubmissions)
      <4>1. tries' = tries + 1 /\ cmds' = cmds /\ phase' = phase
        BY <1>3, <3>2, Zenon DEF SubmitWarning
      <4>2. tries' \in Nat BY <4>1, <3>0
      <4>3. phase \in {"Idle", "Submitting"} BY DEF TypeOK
      <4> QED BY <4>1, <4>2, <4>3, <3>0, Zenon
    <3> QED BY <3>1, <3>2
  <2>4. /\ UNCHANGED <<pending, hNonceCaller, hNonceTPM, hExcl, hAlive, lastExcl>>
        /\ UNCHANGED <<tNonceTPM, tAlive, tExcl>>
    BY <1>3 DEF SubmitWarning, hostVars, tpmVars
  <2> QED BY <2>1, <2>3, <2>4, Zenon DEF TypeOK
<1>4. CASE SubmitError
  <2>1. Len(cmds) > 0 /\ cmds[Cur] \in Entry
    BY <1>4, ElementOfSeq DEF SubmitError, TypeOK, Cur
  <2>2. /\ [cmds EXCEPT ![Cur].status = "Failed"] \in Seq(Entry)
        /\ Len([cmds EXCEPT ![Cur].status = "Failed"]) = Len(cmds)
        /\ [cmds EXCEPT ![Cur].status = "Failed"][Cur].status = "Failed"
    <3>1. [cmds[Cur] EXCEPT !.status = "Failed"] \in Entry BY <2>1 DEF Entry, Statuses
    <3> QED BY <3>1, <2>1, ExceptSeq DEF TypeOK, Cur
  <2>3. /\ cmds' \in Seq(Entry) /\ Len(cmds') = Len(cmds)
        /\ phase' = "Submitting" => cmds'[Len(cmds')].status = "InFlight"
        /\ phase' \in {"Idle", "Submitting"} /\ tries' \in Nat
    BY <1>4, <2>1, <2>2 DEF SubmitError, TypeOK, Cur
  <2>4. /\ UNCHANGED <<pending, hNonceCaller, hNonceTPM, hExcl, hAlive, lastExcl>>
        /\ UNCHANGED <<tNonceTPM, tAlive, tExcl>>
    BY <1>4 DEF SubmitError, hostVars, tpmVars
  <2> QED BY <2>1, <2>3, <2>4, Zenon DEF TypeOK
<1>5. CASE Complete
  <2> DEFINE h == ProcessResponseAuth(cmds[pending], hNonceCaller)
  <2>1. cmds[pending] \in Entry BY <1>5, ElementOfSeq DEF Complete, TypeOK
  <2>2. h \in HostResult BY <2>1, ProcessResponseAuthType DEF TypeOK
  <2>3. /\ [cmds EXCEPT ![pending].err = h.err] \in Seq(Entry)
        /\ Len([cmds EXCEPT ![pending].err = h.err]) = Len(cmds)
    <3>1. [cmds[pending] EXCEPT !.err = h.err] \in Entry BY <2>1, <2>2 DEF Entry, HostResult
    <3> QED BY <3>1, <1>5, ExceptSeq DEF TypeOK, Complete
  <2>4. /\ hNonceTPM' \in [Sessions -> Nat]
        /\ hExcl' \in [Sessions -> BOOLEAN]
        /\ hAlive' \in [Sessions -> BOOLEAN]
        /\ lastExcl' \in Sessions \cup {NoSession}
    BY <1>5, <2>2 DEF Complete, ApplyHost, HostResult
  <2>5. /\ cmds' \in Seq(Entry) /\ Len(cmds') = Len(cmds)
        /\ pending' = 0
        /\ UNCHANGED <<hNonceCaller, phase, tries, tNonceTPM, tAlive, tExcl>>
    BY <1>5, <2>3 DEF Complete, tpmVars
  <2>6. Len(cmds) \in Nat BY LenProperties DEF TypeOK
  <2>7. phase' = "Submitting" => Len(cmds') > 0 /\ cmds'[Len(cmds')].status = "InFlight"
    <3>1. phase = "Idle" BY <1>5 DEF Complete
    <3> QED BY <3>1, <2>5
  <2>8. pending' \in 0..Len(cmds') BY <2>5, <2>6
  <2> QED BY <2>4, <2>5, <2>7, <2>8, Zenon DEF TypeOK
<1>6. CASE UNCHANGED vars
  BY <1>6 DEF TypeOK, vars
<1> QED BY <1>1, <1>2, <1>3, <1>4, <1>5, <1>6 DEF Next

\* execContext.RunCommand, the retry loop and CompleteResponse keep every
\* variable within its type, and a command is in flight exactly while the
\* loop runs.
THEOREM TypeCorrect == Spec => []TypeOK
<1>1. Init => TypeOK
  BY DEF Init, TypeOK
<1>2. TypeOK /\ [Next]_vars => TypeOK'
  BY TypeStep
<1> QED BY <1>1, <1>2, PTL DEF Spec

-----------------------------------------------------------------------------
(* processResponseAuth and lastExclusiveSession.                           *)

\* A response whose auth area carries the host's caller nonces verifies in
\* every position, so ProcessResponseAuthArea updates every session.
LEMMA NoBadAuths ==
  ASSUME NEW e \in Entry, NEW nc,
         \A s \in Range(e.cmd.sess) : nc[s] = e.sentCaller[s]
  PROVE  BadAuths(e, nc) = {}
<1>1. e.cmd.sess \in AuthSeqs BY DEF Entry, Commands, CommandRec
<1>2. DOMAIN e.cmd.sess = 1..Len(e.cmd.sess) BY <1>1, AuthSeqFacts
<1>3. \A i \in 1..Len(e.cmd.sess) : e.cmd.sess[i] \in Range(e.cmd.sess)
  BY <1>2 DEF Range
<1> QED BY <1>3 DEF BadAuths, ResponseAuthValid

\* When every response auth verifies, processResponseAuth leaves at most
\* one session marked exclusive and makes it lastExclusiveSession: a
\* command that allows sessions first clears the previous one, and a
\* command that does not carries no sessions to mark.
LEMMA ProcessKeepsTracked ==
  ASSUME TypeOK, HostExclusiveTracked, NEW e \in Entry, NEW nc \in [Sessions -> Nat],
         BadAuths(e, nc) = {}
  PROVE  \A s \in Sessions : ProcessResponseAuth(e, nc).excl[s] => ProcessResponseAuth(e, nc).last = s
<1> DEFINE sq    == e.cmd.sess
           h     == ProcessResponseAuth(e, nc)
           upd   == UpdatedSessions(e, nc)
           excl1 == ClearedExclusive(e)
           excl2 == [s \in Sessions |-> IF s \in upd
                                        THEN e.rExcl = s /\ SessionContinued(e, s)
                                        ELSE excl1[s]]
           exclIdx == {i \in 1..Len(sq) : excl2[sq[i]]}
           first == CHOOSE i \in exclIdx : \A j \in exclIdx : i =< j
<1>1. /\ e.cmd \in Commands
      /\ sq \in AuthSeqs
      /\ Len(sq) \in 0..3
      /\ DOMAIN sq = 1..Len(sq)
      /\ \A i \in 1..Len(sq) : sq[i] \in Sessions
  <2>1. e.cmd \in Commands /\ sq \in AuthSeqs BY DEF Entry, Commands, CommandRec
  <2>2. /\ Len(sq) \in 0..MaxAuths
        /\ DOMAIN sq = 1..Len(sq)
        /\ \A i \in 1..Len(sq) : sq[i] \in Sessions
    BY <2>1, AuthSeqFacts, Zenon
  <2>3. \A n \in 0..MaxAuths : n \in 0..3 BY ConstantsAssumption
  <2> QED BY <2>1, <2>2, <2>3, Zenon
<1>2. /\ h.excl = excl2
      /\ h.last = IF exclIdx = {} THEN IF ClearsLast(e) THEN NoSession ELSE lastExcl
                  ELSE sq[first]
  BY DEF ProcessResponseAuth
<1>3. upd = Range(sq)
  BY <1>1 DEF UpdatedSessions, Range
<1>4. CASE ~IsSessionAllowed(e.cmd.cc)
  <2>1. sq = << >> BY <1>1, <1>4 DEF Commands, WellFormed, IsSessionAllowed
  <2>2. exclIdx = {} /\ upd = {} BY <2>1, <1>3 DEF Range
  <2>3. excl2 = hExcl BY <2>2, <1>4 DEF ClearedExclusive, ClearsLast, TypeOK
  <2> QED BY <1>2, <2>2, <2>3, <1>4 DEF ClearsLast, HostExclusiveTracked
<1>5. CASE IsSessionAllowed(e.cmd.cc)
  <2>1. \A s \in Sessions : ~excl1[s]
    BY <1>5, ConstantsAssumption DEF ClearedExclusive, ClearsLast, HostExclusiveTracked, TypeOK
  <2>2. \A s \in Sessions : excl2[s] => s = e.rExcl /\ s \in upd
    BY <2>1
  <2>3. ASSUME NEW s \in Sessions, excl2[s] PROVE h.last = s
    <3>1. PICK j \in 1..Len(sq) : sq[j] = s BY <2>2, <2>3, <1>3, <1>1 DEF Range
    <3>2. j \in exclIdx BY <3>1, <2>3
    <3>3. \E i \in exclIdx : \A k \in exclIdx : i =< k
      <4>1. exclIdx \in SUBSET (1..3) /\ exclIdx # {} BY <3>2, <1>1
      <4> HIDE DEF exclIdx
      <4> QED BY <4>1, FirstIndex
    <3>4. first \in exclIdx BY <3>3
    <3>5. excl2[sq[first]] /\ sq[first] \in Sessions BY <3>4, <1>1
    <3>6. sq[first] = e.rExcl BY <3>5, <2>2
    <3> QED BY <1>2, <3>2, <3>6, <2>2, <2>3
  <2> QED BY <2>3, <1>2
<1> QED BY <1>4, <1>5

\* FlushPending records the new command's entry last.
LEMMA FlushPendingShape ==
  ASSUME TypeOK, NEW nc \in [Sessions -> Nat], NEW e \in Entry, FlushPending(nc, e)
  PROVE  /\ cmds' \in Seq(Entry)
         /\ Len(cmds') = Len(cmds) + 1
         /\ cmds'[Len(cmds')] = e
<1>1. CASE pending # 0
  <2> DEFINE h == ProcessResponseAuth(cmds[pending], nc)
  <2>1. cmds[pending] \in Entry BY <1>1, ElementOfSeq DEF TypeOK
  <2>2. h \in HostResult BY <2>1, ProcessResponseAuthType
  <2>3. /\ [cmds EXCEPT ![pending].err = h.err] \in Seq(Entry)
        /\ Len([cmds EXCEPT ![pending].err = h.err]) = Len(cmds)
    <3>1. [cmds[pending] EXCEPT !.err = h.err] \in Entry BY <2>1, <2>2 DEF Entry, HostResult
    <3> QED BY <3>1, <1>1, ExceptSeq DEF TypeOK
  <2>4. cmds' = Append([cmds EXCEPT ![pending].err = h.err], e)
    BY <1>1 DEF FlushPending
  <2> QED BY <2>3, <2>4, AppendProperties
<1>2. CASE pending = 0
  <2>1. cmds' = Append(cmds, e) BY <1>2 DEF FlushPending
  <2> QED BY <2>1, AppendProperties DEF TypeOK
<1> QED BY <1>1, <1>2

-----------------------------------------------------------------------------
(* The inductive invariant.                                                *)

\* The caller nonces the auth area of the command being submitted carried
\* are still the host's: nothing between building the auth area and the
\* dispatch refreshes them.
SubmittingCallerNoncesFresh ==
  phase = "Submitting" =>
    \A s \in Range(cmds[Cur].cmd.sess) : hNonceCaller[s] = cmds[Cur].sentCaller[s]

\* Likewise for the pending response: its HMACs are checked against the
\* caller nonces the command carried, so processing it never fails.
PendingCallerNoncesFresh ==
  pending # 0 =>
    \A s \in Range(cmds[pending].cmd.sess) :
      hNonceCaller[s] = cmds[pending].sentCaller[s]

\* A pending response exists only while no command is being submitted.
PendingOnlyIdle == pending # 0 => phase = "Idle"

\* The invariant the proofs about the exclusivity bookkeeping rest on
\* (ExecContextSync_proofs): when no command reuses a session of a pending
\* response, no response stops halfway through its auth area, so
\* lastExclusiveSession names every session the host marks exclusive.
IInv ==
  /\ TypeOK
  /\ HostExclusiveTracked
  /\ SubmittingCallerNoncesFresh
  /\ PendingCallerNoncesFresh
  /\ PendingOnlyIdle

\* The strengthening holds initially and is preserved by every action
\* when no command reuses a session of the pending response.
LEMMA IInvStep ==
  ASSUME ~ReuseWhilePending
  PROVE  IInv /\ [Next]_vars => IInv'
<1> SUFFICES ASSUME IInv, [Next]_vars PROVE IInv'
  OBVIOUS
<1> USE DEF IInv
<1>0. TypeOK' BY TypeStep
<1>a. TypeOK OBVIOUS
<1>1. ASSUME NEW c \in Commands, Run(c) PROVE IInv'
  <2> DEFINE nc == RefreshedNonces(c)
             e  == [cmd |-> c, sentCaller |-> nc, sentTPM |-> hNonceTPM,
                    status |-> "InFlight", rNonceTPM |-> hNonceTPM,
                    rExcl |-> NoSession, err |-> "None"]
  <2>1. /\ hNonceCaller' = nc /\ pending' = 0 /\ phase' = "Submitting"
        /\ FlushPending(nc, e)
        /\ DisjointFromPending(c)
    BY <1>1 DEF Run
  <2>2. nc \in [Sessions -> Nat] /\ e \in Entry
    <3>1. nc \in [Sessions -> Nat] BY <1>a DEF TypeOK, RefreshedNonces
    <3>2. e \in Entry BY <1>a, NewEntryType
    <3> QED BY <3>1, <3>2
  <2>3. HostExclusiveTracked'
    <3>1. CASE pending # 0
      <4> DEFINE h == ProcessResponseAuth(cmds[pending], nc)
      <4>1. cmds[pending] \in Entry BY <3>1, ElementOfSeq DEF TypeOK
      <4>2. \A s \in Range(cmds[pending].cmd.sess) : nc[s] = cmds[pending].sentCaller[s]
        <5>1. Range(cmds[pending].cmd.sess) \subseteq Sessions
          <6>1. cmds[pending].cmd.sess \in AuthSeqs BY <4>1 DEF Entry, Commands, CommandRec
          <6> QED BY <6>1, AuthSeqFacts DEF Range
        <5>2. Range(c.sess) \cap Range(cmds[pending].cmd.sess) = {}
          BY <2>1, <3>1 DEF DisjointFromPending
        <5> QED BY <5>1, <5>2, <3>1 DEF RefreshedNonces, PendingCallerNoncesFresh
      <4>3. BadAuths(cmds[pending], nc) = {} BY <4>1, <4>2, NoBadAuths
      <4>4. \A s \in Sessions : h.excl[s] => h.last = s
        BY <4>1, <4>3, <2>2, ProcessKeepsTracked
      <4>5. ApplyHost(h) BY <2>1, <3>1 DEF FlushPending
      <4> QED BY <4>4, <4>5 DEF ApplyHost, HostExclusiveTracked
    <3>2. CASE pending = 0
      <4>1. UNCHANGED <<hExcl, lastExcl>> BY <2>1, <3>2 DEF FlushPending
      <4> QED BY <4>1 DEF HostExclusiveTracked
    <3> QED BY <3>1, <3>2
  <2>4. SubmittingCallerNoncesFresh'
    <3>1. cmds'[Len(cmds')] = e BY <2>1, <2>2, FlushPendingShape
    <3> QED BY <3>1, <2>1 DEF SubmittingCallerNoncesFresh, Cur
  <2>5. PendingCallerNoncesFresh' /\ PendingOnlyIdle'
    BY <2>1 DEF PendingCallerNoncesFresh, PendingOnlyIdle
  <2> QED BY <1>0, <2>3, <2>4, <2>5
<1>2. CASE SubmitSuccess
  <2>1. /\ pending' = Cur /\ phase' = "Idle" /\ phase = "Submitting"
        /\ UNCHANGED hostVars
        /\ cmds' = [cmds EXCEPT ![Cur].status = "Returned",
                                ![Cur].rNonceTPM = TpmNonceAfter(cmds[Cur].cmd),
                                ![Cur].rExcl = TpmExclAfter(cmds[Cur].cmd)]
    BY <1>2 DEF SubmitSuccess
  <2>2. Cur \in DOMAIN cmds
    BY <2>1, LenProperties DEF TypeOK, Cur
  <2>3. cmds'[Cur].cmd = cmds[Cur].cmd /\ cmds'[Cur].sentCaller = cmds[Cur].sentCaller
    <3>1. cmds[Cur] \in Entry BY <2>1, ElementOfSeq DEF TypeOK, Cur
    <3>2. cmds'[Cur] = [cmds[Cur] EXCEPT !.status = "Returned",
                          !.rNonceTPM = TpmNonceAfter(cmds[Cur].cmd),
                          !.rExcl = TpmExclAfter(cmds[Cur].cmd)]
      BY <2>1, <2>2
    <3> QED BY <3>1, <3>2 DEF Entry
  <2>4. PendingCallerNoncesFresh'
    BY <2>1, <2>3 DEF PendingCallerNoncesFresh, SubmittingCallerNoncesFresh, hostVars
  <2>5. HostExclusiveTracked' /\ SubmittingCallerNoncesFresh' /\ PendingOnlyIdle'
    BY <2>1 DEF HostExclusiveTracked, SubmittingCallerNoncesFresh, PendingOnlyIdle, hostVars
  <2> QED BY <1>0, <2>4, <2>5
<1>3. CASE SubmitWarning
  <2>1. pending = 0 /\ pending' = 0 /\ UNCHANGED hostVars
    BY <1>3 DEF SubmitWarning, PendingOnlyIdle
  <2>2. SubmittingCallerNoncesFresh'
    <3>1. CASE tries >= MaxSubmissions
      BY <1>3, <3>1 DEF SubmitWarning, SubmittingCallerNoncesFresh
    <3>2. CASE ~(tries >= MaxSubmissions)
      <4>1. UNCHANGED <<cmds, phase>> BY <1>3, <3>2, Zenon DEF SubmitWarning
      <4> QED BY <4>1, <2>1 DEF SubmittingCallerNoncesFresh, Cur, hostVars
    <3> QED BY <3>1, <3>2
  <2> QED BY <1>0, <2>1, <2>2
    DEF HostExclusiveTracked, PendingCallerNoncesFresh, PendingOnlyIdle, hostVars
<1>4. CASE SubmitError
  <2>1. pending = 0 /\ pending' = 0 /\ phase' = "Idle" /\ UNCHANGED hostVars
    BY <1>4 DEF SubmitError, PendingOnlyIdle
  <2> QED BY <1>0, <2>1
    DEF HostExclusiveTracked, SubmittingCallerNoncesFresh, PendingCallerNoncesFresh,
        PendingOnlyIdle, hostVars
<1>5. CASE Complete
  <2> DEFINE h == ProcessResponseAuth(cmds[pending], hNonceCaller)
  <2>1. /\ pending # 0 /\ pending' = 0 /\ phase = "Idle"
        /\ UNCHANGED <<hNonceCaller, phase>>
        /\ ApplyHost(h)
    BY <1>5 DEF Complete
  <2>2. cmds[pending] \in Entry BY <2>1, ElementOfSeq DEF TypeOK
  <2>3. BadAuths(cmds[pending], hNonceCaller) = {}
    BY <2>1, <2>2, NoBadAuths DEF PendingCallerNoncesFresh
  <2>4. HostExclusiveTracked'
    <3>1. \A s \in Sessions : h.excl[s] => h.last = s
      BY <2>2, <2>3, ProcessKeepsTracked DEF TypeOK
    <3> QED BY <3>1, <2>1 DEF ApplyHost, HostExclusiveTracked
  <2>5. SubmittingCallerNoncesFresh' /\ PendingCallerNoncesFresh' /\ PendingOnlyIdle'
    BY <2>1 DEF SubmittingCallerNoncesFresh, PendingCallerNoncesFresh, PendingOnlyIdle
  <2> QED BY <1>0, <2>4, <2>5
<1>6. CASE UNCHANGED vars
  BY <1>0, <1>6 DEF vars, HostExclusiveTracked, SubmittingCallerNoncesFresh,
                 PendingCallerNoncesFresh, PendingOnlyIdle, Cur
<1> QED BY <1>1, <1>2, <1>3, <1>4, <1>5, <1>6 DEF Next

=============================================================================
