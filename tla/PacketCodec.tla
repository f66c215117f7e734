---------------------------- MODULE PacketCodec ----------------------------
(***************************************************************************)
(* The packet codec of command.go: MarshalCommandPacket and                *)
(* CommandPacket.UnmarshalPayload, GetCommandCode, and                     *)
(* ResponsePacket.Unmarshal, over real byte sequences.                    *)
(*                                                                         *)
(* Packets are sequences of bytes (naturals below 256).  Integers are     *)
(* big-endian, as the mu codec writes them; sized buffers are a u16 size   *)
(* followed by the bytes.  The parsers return records [ok, v, rest]: the   *)
(* value read and the bytes left, or ok = FALSE for a read error.         *)
(***************************************************************************)
EXTENDS Naturals, Sequences

CONSTANTS
  CommandCodes,     \* command codes the host sends
  HandleValues,     \* values of the 4-byte handles of a packet
  BufferValues,     \* byte strings used as nonces and HMACs
  ParamValues,      \* byte strings used as parameter areas
  MaxAuthsSent,     \* longest auth area the host is asked to marshal
  MaxResponseSize   \* maxResponseSize

ASSUME CodecAssumption ==
  /\ CommandCodes \subseteq Nat
  /\ HandleValues \subseteq Nat
  /\ MaxAuthsSent \in Nat
  /\ MaxResponseSize \in Nat

-----------------------------------------------------------------------------
(* The mu codec, as far as packets use it.                                *)

\* TPM_ST_NO_SESSIONS and TPM_ST_SESSIONS; TPM_RC_SUCCESS.
TagNoSessions == 32769
TagSessions   == 32770
Success       == 0

\* n as a w-byte big-endian integer.
BE(n, w) == [i \in 1..w |-> (n \div 2^(8 * (w - i))) % 256]

\* A sized buffer: u16 size || bytes.
Sized(b) == BE(Len(b), 2) \o b

\* The wire forms of TPMS_AUTH_COMMAND and TPMS_AUTH_RESPONSE.
MarshalAuthCommand(a) ==
  BE(a.handle, 4) \o Sized(a.nonce) \o <<a.attrs>> \o Sized(a.hmac)
MarshalAuthResponse(a) ==
  Sized(a.nonce) \o <<a.attrs>> \o Sized(a.hmac)

\* The auths of an auth area written one after the other.
CatAuthCommands(as) ==
  LET cat[i \in 0..Len(as)] == IF i = 0 THEN << >> ELSE cat[i - 1] \o MarshalAuthCommand(as[i])
  IN cat[Len(as)]
CatAuthResponses(as) ==
  LET cat[i \in 0..Len(as)] == IF i = 0 THEN << >> ELSE cat[i - 1] \o MarshalAuthResponse(as[i])
  IN cat[Len(as)]

Fail == [ok |-> FALSE]

\* Sequencing of reads: the next read runs on the result of the previous
\* one; the first read error ends the parse.
Then(r, F(_)) == IF r.ok THEN F(r) ELSE Fail

\* Reading n bytes; an integer of w bytes; a sized buffer.
TakeP(s, n) ==
  IF n =< Len(s) THEN [ok |-> TRUE, v |-> SubSeq(s, 1, n), rest |-> SubSeq(s, n + 1, Len(s))]
  ELSE Fail
IntP(s, w) ==
  Then(TakeP(s, w), LAMBDA t :
    [ok |-> TRUE, rest |-> t.rest,
     v |-> LET val[i \in 0..w] == IF i = 0 THEN 0 ELSE val[i - 1] * 256 + t.v[i]
           IN val[w]])
SizedP(s) == Then(IntP(s, 2), LAMBDA l : TakeP(l.rest, l.v))

\* Unmarshalling TPMS_AUTH_COMMAND and TPMS_AUTH_RESPONSE.
AuthCommandP(s) ==
  Then(IntP(s, 4), LAMBDA h : Then(SizedP(h.rest), LAMBDA n :
  Then(TakeP(n.rest, 1), LAMBDA a : Then(SizedP(a.rest), LAMBDA m :
    [ok |-> TRUE, rest |-> m.rest,
     v |-> [handle |-> h.v, nonce |-> n.v, attrs |-> a.v[1], hmac |-> m.v]]))))
AuthResponseP(s) ==
  Then(SizedP(s), LAMBDA n : Then(TakeP(n.rest, 1), LAMBDA a : Then(SizedP(a.rest), LAMBDA m :
    [ok |-> TRUE, rest |-> m.rest, v |-> [nonce |-> n.v, attrs |-> a.v[1], hmac |-> m.v]])))

\* A 10-byte header: tag (u16), size (u32), code (u32).
HeaderP(s) ==
  Then(IntP(s, 2), LAMBDA t : Then(IntP(t.rest, 4), LAMBDA z : Then(IntP(z.rest, 4), LAMBDA c :
    [ok |-> TRUE, rest |-> c.rest, v |-> [tag |-> t.v, size |-> z.v, code |-> c.v]])))

-----------------------------------------------------------------------------
(* command.go                                                              *)

\* MarshalCommandPacket: the tag says whether an auth area follows the
\* handles; the auth area is prefixed by its size; commandSize counts the
\* whole packet.  The uint32 conversions of the sizes cannot wrap for
\* packets a transport carries, so the sizes are plain naturals.
MarshalCommandPacket(command, handles, authArea, parameters) ==
  LET aBytes  == CatAuthCommands(authArea)
      payload == IF Len(authArea) > 0
                 THEN handles \o BE(Len(aBytes), 4) \o aBytes \o parameters
                 ELSE handles \o parameters
      tag     == IF Len(authArea) > 0 THEN TagSessions ELSE TagNoSessions
  IN BE(tag, 2) \o BE(10 + Len(payload), 4) \o BE(command, 4) \o payload

\* GetCommandCode: the code in the header.
GetCommandCode(p) == Then(HeaderP(p), LAMBDA h : [ok |-> TRUE, v |-> h.v.code])

\* One iteration of the auth-area loop of UnmarshalPayload, given the auth
\* a read from the window: while bytes of the limit remain, a fourth auth
\* is an error, otherwise one more auth is read from the window.
CommandAuthStepLate(p, a) ==
  IF ~p.ok \/ p.n = 0 THEN p
  ELSE IF Len(p.auths) > 3 \/ ~a.ok THEN [p EXCEPT !.ok = FALSE]
  ELSE [ok |-> TRUE, auths |-> Append(p.auths, a.v), win |-> a.rest,
        n |-> p.n - (Len(p.win) - Len(a.rest))]
CommandAuthStep(p, a) ==
  IF ~p.ok \/ p.n = 0 THEN p
  ELSE IF Len(p.auths) >= 3 \/ ~a.ok THEN [p EXCEPT !.ok = FALSE]
  ELSE [ok |-> TRUE, auths |-> Append(p.auths, a.v), win |-> a.rest,
        n |-> p.n - (Len(p.win) - Len(a.rest))]

\* Mutant: the auth-count limit is checked one auth late (> 3 for >= 3).
CommandAuthLoopLateLimit(window, limit) ==
  LET st[k \in 0..5] ==
        IF k = 0 THEN [ok |-> TRUE, auths |-> << >>, win |-> window, n |-> limit]
        ELSE LET p == st[k - 1] IN CommandAuthStepLate(p, AuthCommandP(p.win))
  IN st[5]

\* The auth-area loop of UnmarshalPayload, reading through an
\* io.LimitedReader of authSize bytes (a read past the window or the
\* packet fails).  Four iterations reach the error on a fourth auth.
CommandAuthLoop(window, limit) ==
  LET st[k \in 0..4] ==
        IF k = 0 THEN [ok |-> TRUE, auths |-> << >>, win |-> window, n |-> limit]
        ELSE LET p == st[k - 1] IN CommandAuthStep(p, AuthCommandP(p.win))
  IN st[4]

PayloadError == Fail

\* The auth area and parameters of a TPM_ST_SESSIONS command, after the
\* authSize field au.
SessionsPayload(handles, au) ==
  LET win == SubSeq(au.rest, 1, IF au.v < Len(au.rest) THEN au.v ELSE Len(au.rest))
  IN Then(CommandAuthLoop(win, au.v), LAMBDA lp :
       [ok |-> TRUE, handles |-> handles, auths |-> lp.auths,
        params |-> SubSeq(au.rest, Len(win) + 1, Len(au.rest))])

\* CommandPacket.UnmarshalPayload(numHandles).
UnmarshalPayload(p, numHandles) ==
  Then(HeaderP(p), LAMBDA h :
    IF h.v.size # Len(p) THEN PayloadError
    ELSE Then(TakeP(h.rest, numHandles * 4), LAMBDA hs :
      CASE h.v.tag = TagSessions   -> Then(IntP(hs.rest, 4), LAMBDA au : SessionsPayload(hs.v, au))
        [] h.v.tag = TagNoSessions -> [ok |-> TRUE, handles |-> hs.v, auths |-> << >>,
                                       params |-> hs.rest]
        [] OTHER                   -> PayloadError))

\* One iteration of the auth-area loop of ResponsePacket.Unmarshal, given
\* the auth a read next: auths are read until the packet ends; a fourth is
\* an error.
ResponseAuthStep(p, a) ==
  IF ~p.ok \/ p.rest = << >> THEN p
  ELSE IF Len(p.auths) >= 3 \/ ~a.ok THEN [p EXCEPT !.ok = FALSE]
  ELSE [ok |-> TRUE, auths |-> Append(p.auths, a.v), rest |-> a.rest]
ResponseAuthStepStop(p, a) ==
  IF ~p.ok \/ p.rest = << >> \/ Len(p.auths) >= 3 THEN p
  ELSE IF ~a.ok THEN [p EXCEPT !.ok = FALSE]
  ELSE [ok |-> TRUE, auths |-> Append(p.auths, a.v), rest |-> a.rest]

\* Mutant: after three auths the loop stops instead of failing, dropping
\* what follows.
ResponseAuthLoopStopAtLimit(s) ==
  LET st[k \in 0..4] ==
        IF k = 0 THEN [ok |-> TRUE, auths |-> << >>, rest |-> s]
        ELSE LET p == st[k - 1] IN ResponseAuthStepStop(p, AuthResponseP(p.rest))
  IN st[4]

\* The auth-area loop of ResponsePacket.Unmarshal.
ResponseAuthLoop(s) ==
  LET st[k \in 0..4] ==
        IF k = 0 THEN [ok |-> TRUE, auths |-> << >>, rest |-> s]
        ELSE LET p == st[k - 1] IN ResponseAuthStep(p, AuthResponseP(p.rest))
  IN st[4]

ResponseError == Fail

\* The payload of a success response after the header h: handles, then
\* parameterSize, parameters and the auth area, or the parameters alone.
ResponsePayload(h, numHandles) ==
  Then(TakeP(h.rest, numHandles * 4), LAMBDA hs :
    CASE h.v.tag = TagSessions ->
           Then(IntP(hs.rest, 4), LAMBDA ps : Then(TakeP(ps.rest, ps.v), LAMBDA pb :
           Then(ResponseAuthLoop(pb.rest), LAMBDA lp :
             [ok |-> TRUE, rc |-> Success, handles |-> hs.v, params |-> pb.v,
              auths |-> lp.auths])))
      [] h.v.tag = TagNoSessions ->
           [ok |-> TRUE, rc |-> Success, handles |-> hs.v, params |-> hs.rest,
            auths |-> << >>]
      [] OTHER -> ResponseError)

\* An error response code ends the parse: the packet must hold nothing
\* after the header.
ErrorResponse(h) ==
  IF h.rest # << >> THEN ResponseError
  ELSE [ok |-> TRUE, rc |-> h.v.code, handles |-> << >>, params |-> << >>, auths |-> << >>]

\* Mutant: responseSize is not compared with the packet length.
UnmarshalResponseNoSizeCheck(p, numHandles) ==
  IF Len(p) > MaxResponseSize THEN ResponseError
  ELSE Then(HeaderP(p), LAMBDA h :
         IF h.v.code # Success THEN ErrorResponse(h) ELSE ResponsePayload(h, numHandles))

\* ResponsePacket.Unmarshal(numHandles).
UnmarshalResponse(p, numHandles) ==
  IF Len(p) > MaxResponseSize THEN ResponseError
  ELSE Then(HeaderP(p), LAMBDA h :
         CASE h.v.size # Len(p)   -> ResponseError
           [] h.v.code # Success  -> ErrorResponse(h)
           [] OTHER               -> ResponsePayload(h, numHandles))

-----------------------------------------------------------------------------
(* The TPM's responses (TPM 2.0 Part 1, 18.x, as the spec's 4.E restates   *)
(* it), from a TPM that is not trusted to follow it: an error response    *)
(* may carry either tag.                                                   *)

\* A success response carries the parameter size and the auth area only
\* when it has sessions; an error response is the bare header.
MarshalResponsePacket(rc, tag, handles, parameters, authArea) ==
  LET payload == IF rc # Success THEN << >>
                 ELSE IF Len(authArea) > 0
                 THEN handles \o BE(Len(parameters), 4) \o parameters
                      \o CatAuthResponses(authArea)
                 ELSE handles \o parameters
      t       == IF rc = Success THEN IF Len(authArea) > 0 THEN TagSessions ELSE TagNoSessions
                 ELSE tag
  IN BE(t, 2) \o BE(10 + Len(payload), 4) \o BE(rc, 4) \o payload

-----------------------------------------------------------------------------
(* One exchange at a time: the host sends a command or the TPM a response, *)
(* the transport may cut or lengthen the packet, the receiver parses it.   *)

VARIABLES
  stage,    \* "Idle", "CommandOnWire", "ResponseOnWire", "CommandParsed", "ResponseParsed"
  sent,     \* what the sender marshalled
  wire,     \* the bytes on the transport
  damage,   \* what the transport did: "None", "Truncated", "Extended"
  result    \* what the receiver parsed

vars == <<stage, sent, wire, damage, result>>

AuthCommands  == [handle : HandleValues, nonce : BufferValues, attrs : {1}, hmac : BufferValues]
AuthResponses == [nonce : BufferValues, attrs : {1}, hmac : BufferValues]
AuthAreas(S) == UNION {[1..n -> S] : n \in 0..MaxAuthsSent}
HandleAreas  == {<< >>} \cup {BE(h, 4) : h \in HandleValues}
ResponseCodes == {Success, 2307}   \* TPM_RC_SUCCESS, TPM_RC_BAD_AUTH

Init ==
  /\ stage = "Idle"
  /\ sent = [kind |-> "None"]
  /\ wire = << >>
  /\ damage = "None"
  /\ result = [ok |-> FALSE]

\* The host marshals a command (TPMContext.RunCommand, tpm.go:380).
SendCommand(cc, hs, as, ps) ==
  /\ stage = "Idle"
  /\ wire' = MarshalCommandPacket(cc, hs, as, ps)
  /\ sent' = [kind |-> "Command", code |-> cc, handles |-> hs, auths |-> as, params |-> ps]
  /\ stage' = "CommandOnWire"
  /\ UNCHANGED <<damage, result>>

\* The TPM answers with a response packet.
SendResponse(rc, tag, hs, as, ps) ==
  /\ stage = "Idle"
  /\ wire' = MarshalResponsePacket(rc, tag, hs, ps, as)
  /\ sent' = [kind |-> "Response", rc |-> rc, tag |-> tag, handles |-> hs, auths |-> as,
              params |-> IF rc = Success THEN ps ELSE << >>]
  /\ stage' = "ResponseOnWire"
  /\ UNCHANGED <<damage, result>>

\* The transport loses the last byte, or delivers a stray one after it.
Truncate ==
  /\ stage \in {"CommandOnWire", "ResponseOnWire"}
  /\ damage = "None"
  /\ wire' = SubSeq(wire, 1, Len(wire) - 1)
  /\ damage' = "Truncated"
  /\ UNCHANGED <<stage, sent, result>>
Extend ==
  /\ stage \in {"CommandOnWire", "ResponseOnWire"}
  /\ damage = "None"
  /\ wire' = Append(wire, 0)
  /\ damage' = "Extended"
  /\ UNCHANGED <<stage, sent, result>>

\* The receiver parses the packet with the number of handles it expects.
ReceiveCommand ==
  /\ stage = "CommandOnWire"
  /\ result' = Then(GetCommandCode(wire), LAMBDA c :
                 Then(UnmarshalPayload(wire, Len(sent.handles) \div 4), LAMBDA u :
                   [ok |-> TRUE, code |-> c.v, handles |-> u.handles, auths |-> u.auths,
                    params |-> u.params]))
  /\ stage' = "CommandParsed"
  /\ UNCHANGED <<sent, wire, damage>>
ReceiveResponse ==
  /\ stage = "ResponseOnWire"
  /\ result' = UnmarshalResponse(wire, Len(sent.handles) \div 4)
  /\ stage' = "ResponseParsed"
  /\ UNCHANGED <<sent, wire, damage>>

\* The next exchange starts.
Reset ==
  /\ stage \in {"CommandParsed", "ResponseParsed"}
  /\ stage' = "Idle"
  /\ wire' = << >>
  /\ damage' = "None"
  /\ sent' = [kind |-> "None"]
  /\ result' = [ok |-> FALSE]

Next ==
  \/ \E cc \in CommandCodes, hs \in HandleAreas, as \in AuthAreas(AuthCommands),
        ps \in ParamValues : SendCommand(cc, hs, as, ps)
  \/ \E rc \in ResponseCodes, tag \in {TagNoSessions, TagSessions}, hs \in HandleAreas,
        as \in AuthAreas(AuthResponses), ps \in ParamValues : SendResponse(rc, tag, hs, as, ps)
  \/ Truncate
  \/ Extend
  \/ ReceiveCommand
  \/ ReceiveResponse
  \/ Reset

Spec == Init /\ [][Next]_vars

-----------------------------------------------------------------------------
(* Properties.                                                             *)

\* Codec symmetry for commands (4.E; the command.go tests): an intact
\* packet built by MarshalCommandPacket is parsed by UnmarshalPayload and
\* GetCommandCode back into exactly the code, handles, auth area and
\* parameters it was built from, whenever the auth area has at most three
\* auths; a longer one, which MarshalCommandPacket accepts, is refused.
CommandRoundTrip ==
  stage = "CommandParsed" /\ damage = "None" =>
    /\ result.ok <=> Len(sent.auths) =< 3
    /\ result.ok => /\ result.code = sent.code
                    /\ result.handles = sent.handles
                    /\ result.auths = sent.auths
                    /\ result.params = sent.params

\* What the host must take from an intact response of a TPM that follows
\* the protocol: a success response yields its handles, parameters and
\* auth area (at most three auths); an error response yields only its code.
\* Packets above maxResponseSize are refused.
ExpectedResponse ==
  IF sent.rc = Success
  THEN [rc |-> Success, handles |-> sent.handles, params |-> sent.params, auths |-> sent.auths]
  ELSE [rc |-> sent.rc, handles |-> << >>, params |-> << >>, auths |-> << >>]
ResponseRoundTrip ==
  stage = "ResponseParsed" /\ damage = "None" /\ (sent.rc = Success \/ sent.tag = TagNoSessions) =>
    /\ result.ok <=> (Len(wire) =< MaxResponseSize /\ (sent.rc # Success \/ Len(sent.auths) =< 3))
    /\ result.ok => [rc |-> result.rc, handles |-> result.handles, params |-> result.params,
                     auths |-> result.auths] = ExpectedResponse

\* A packet the transport cut short or lengthened is always refused, by
\* the commandSize / responseSize check or by a short read: the receiver
\* never acts on a packet that lost or gained bytes.
DamageDetected ==
  stage \in {"CommandParsed", "ResponseParsed"} /\ damage # "None" => ~result.ok

\* The spec (4.E): any nonzero response code on a TPM_ST_SESSIONS response
\* is invalid and must be rejected.  An error response that
\* ResponsePacket.Unmarshal accepts carries TPM_ST_NO_SESSIONS.
ErrorResponseTagChecked ==
  stage = "ResponseParsed" /\ result.ok /\ result.rc # Success =>
    HeaderP(wire).v.tag = TagNoSessions

=============================================================================
