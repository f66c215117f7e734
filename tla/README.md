# TLA+ models of go-tpm2's command dispatch, packet codec and multiple-call helpers

This directory holds TLA+ models of the parts of go-tpm2 (sources under `src/`)
that have state and protocol: how the library runs commands against a TPM, and
how it encodes command packets and decodes response packets. It also holds TLC
configurations that check the models on small instances and TLAPS proofs of the
main execution-context invariants. `PROJECT.json` lists every component, every
run, every mutant and every hazard, and maps each definition to the lines of
code it models.

## The system and its parts

| Part | Source | What it does | Model |
|---|---|---|---|
| Execution context | `tpm.go` 113-254 | `execContext.RunCommand` collects the sessions of a command, builds its auth area, processes any response the caller left pending, then dispatches. `processResponseAuth` checks a response's auth area, updates the host sessions and keeps `lastExclusiveSession` up to date. `CompleteResponse` processes the pending response and then unmarshals its parameters. | `ExecContext` |
| Retry loop | `tpm.go` 379-417 | `TPMContext.RunCommand` marshals the packet and submits it. It resubmits on the yielded, testing and retry warnings until `maxSubmissions` is reached. It rejects a response whose auth count differs from the command's. | `ExecContext` (SubmitSuccess/Warning/Error), `PacketCodec` (Send/Receive) |
| Packet codec | `command.go` | `MarshalCommandPacket`, `CommandPacket.GetCommandCode` and `UnmarshalPayload`, `ResponsePacket.Unmarshal`. | `PacketCodec` |
| Multiple-call helpers | `tpm.go` 23-111 | `readMultipleHelper` splits a read into commands of at most `maxSize` bytes; `execMultipleHelper` forces continueSession on all but the last and refuses policy sessions. | `ReadMultiple`, refining `AtomicRead` |
| Property initialisation | `tpm.go` 444-496 | `InitProperties` reads the TPM's buffer limits; `initPropertiesIfNeeded` does so once. | `TpmProperties` |
| NV read | (NV commands are not under `src/`) | A read runs `initPropertiesIfNeeded`, then `readMultipleHelper` with `maxNVBufferSize`. | `NVRead`, composing the two above |
| Session start, object wrapping, qualified names | `cmds_session.go`, `util/object.go`, `unnamed/*` | Cryptography and hashing over byte strings. | not modelled: no state for TLC to explore |

The execution context and the codec meet in `TPMContext.RunCommand`. The context
produces the auth area. The codec turns it into a packet. The TPM's answer is
parsed by the codec and handed back to the context as the pending response.
The models keep the two apart because their questions are independent. The
context model asks whether the session bookkeeping follows the TPM. The codec
model asks whether bytes round-trip.

## ExecContext (tpm.go)

**State.**

- Per session, the host's view: `hNonceCaller`, `hNonceTPM`, `hExcl` (`SessionData.IsExclusive`) and `hAlive` (the session data has not been disposed).
- `lastExcl` models `execContext.lastExclusiveSession`.
- `pending` models `pendingResponse`. It is an index into `cmds`, with 0 for nil.
- `phase` and `tries` model the loop of `TPMContext.RunCommand`.
- `cmds` is the history of commands. Each entry holds its auth area, the nonces it carried, its status, and the TPM's answer.
- The TPM is the environment. It has per-session `tNonceTPM` and `tAlive`, and `tExcl`, its exclusive audit session.

Nonces are modelled as generation counters. An HMAC verifies when both ends used
the same generations. The session-parameter code (`sessionParams`, and building
and checking auth areas) is not under `src/`. Those definitions are written from
the spec and marked `spec_modelled` in the map.

**Actions.**

- `Run(c)` models `execContext.RunCommand` up to the dispatch (tpm.go:205-240).
  - Every session must still be alive.
  - The auth area refreshes the caller nonces.
  - `FlushPending` processes a pending response with the refreshed nonces (tpm.go:238-239). This is the order the code uses.
  - The step then enters the submit loop.
- `SubmitSuccess`: the TPM executes the command and the response becomes pending (tpm.go:242-253).
- `SubmitWarning`: a retryable warning. The command is resubmitted, or fails once `tries >= maxSubmissions` (tpm.go:408-414).
- `SubmitError`: any other TPM error, or a transport error.
- `Complete`: `CompleteResponse` on the pending response (tpm.go:187-203).

`ProcessResponseAuth` is one operator that returns the whole effect of
`processResponseAuth` as a record:

- it clears the last exclusive session when the command allows sessions (165-171);
- it updates the sessions of the auth area in order and stops at the first bad HMAC (173);
- it disposes of sessions whose continueSession attribute was clear;
- it recomputes `lastExclusiveSession` as the first exclusive session, only when no auth failed (177-182).

`Run` and `Complete` apply this record in the same step as the rest of the
handler.

**Runs** (`MCExecContext`: two sessions, the command codes `Unseal` and
`FlushContext`, up to 2 auths per command, `maxSubmissions` = 2, 3 commands):

- `exec_context` (pass) checks four invariants over 1.6M states, and every action fires:
  - `TypeOK`.
  - `ExclusiveInSync`: once every response has been processed, the host's exclusive flag equals the TPM's exclusive audit session.
  - `SessionsInSync`: once every response has been processed, the loaded sessions and the nonces agree.
  - `NoStaleCommandAuth`: the command in flight quotes the TPM's current nonces.
  - All of these are checked under the caller discipline `ReuseWhilePending = FALSE`: no command uses a session of a response still pending.
- `exec_reuse` (violation) drops that discipline. TLC then finds `NoStaleCommandAuth` violated. The auth area is built at tpm.go:233, before the pending response that renews the session's nonce is processed at 238. The command goes out with the old nonceTPM.
- `exec_reuse_exclusive` (violation) checks `HostExclusiveTracked` under the same reuse: every session marked exclusive is the one `lastExclusiveSession` names, as the spec's exclusive-audit tracking says ("the dispatcher caches the last session observed exclusive"). TLC finds a trace of four states. An `Unseal` with `s1` (audit, reset) and `s2` returns with `s1` exclusive. The next command reuses `s2`, so its caller nonce changes before the pending response is processed. `ProcessResponseAuthArea` marks `s1` exclusive, then fails on `s2`. `processResponseAuth` returns at tpm.go:173-174, before tpm.go:177-182 caches `s1`. No later command clears `s1`'s flag. Without reuse no response fails halfway (see `ExecContext_proofs`), so the passing run does not check this invariant.
- `exec_nosession_clear` (violation) checks the spec's "next non-auditable command clears exclusivity on the host side". At tpm.go:165, `processResponseAuth` keeps exclusivity for exactly those commands. The code follows the TPM, which keeps its exclusive session across FlushContext. The spec's sentence does not.

**Bounds.**

- Two sessions are enough to share a session between a pending response and a later command, and to move exclusivity from one session to another.
- Three commands give a pending response, a command that flushes it, and a third that observes the result.
- Two submissions give one retry and one exhausted budget.
- Deadlock is not checked (`CHECK_DEADLOCK FALSE`). The library is passive: after `MaxRuns` commands with nothing pending, no caller acts.

## PacketCodec (command.go)

The codec is modelled byte for byte:

- integers are big-endian sequences of bytes (`BE`);
- the parsers (`TakeP`, `IntP`, `SizedP`, `HeaderP`, the auth parsers) each return `ok` and the rest of the input, as `mu`'s readers do;
- `Then` sequences the reads: the first read error ends the parse, as each `if err != nil { return }` in the code does;
- `UnmarshalPayload` and `ResponsePacket.Unmarshal` follow the code's order of checks:
  - size limit;
  - header;
  - size field;
  - error code with an empty payload;
  - handles;
  - tag;
  - parameterSize or authSize;
  - the auth loop with its limit of three.

The auth loops are functions over the loop counter. They are not recursive
operators.

**State.** Each step is one exchange:

- the host sends a command, or the TPM sends a response;
- the transport may truncate or extend the packet by one byte;
- the receiver parses it.

The TPM side (`MarshalResponsePacket`) is written from the packet format in the
spec. It is not trusted: an error response may carry either tag.

**Runs** (`MCPacketCodec`: auth areas of 0-4 auths with empty or one-byte
nonces and HMACs, zero or one handle, `maxResponseSize` scaled from 4096 down to
40 so that packets on both sides of the limit occur):

- `codec` (pass):
  - `CommandRoundTrip`: an intact command parses back to what was marshalled exactly when it has at most three auths. `MarshalCommandPacket` accepts a fourth, and `UnmarshalPayload` refuses it.
  - `ResponseRoundTrip`: intact protocol-following responses parse to their parts, or are refused when above the size limit or with four auths.
  - `DamageDetected`: a truncated or extended packet is never accepted.
- `codec_error_tag` (violation): the spec says "any nonzero response code on a `TPM_ST_SESSIONS` response is invalid and must be rejected". `ResponsePacket.Unmarshal` (command.go:165-170) accepts it once the payload is empty.

## TpmProperties (tpm.go 444-496)

**State.** `tpm` holds the TPM's four fixed properties, chosen once in `Init`.
`limits` holds the four cached fields. `propertiesInitialized` is the flag.
`calls` counts calls and is bounded by `MaxCalls`.

**Actions.** `InitProperties(reply)` is the whole function. The reply of
GetCapability is an error, or any subset of the four properties in code order.

- The loop stores each property in order, converted to its field's width.
- It returns at the first value out of range, with the earlier fields already overwritten.
- Then the input buffer defaults to 1024, and the other three must be nonzero.
- Only then is the flag set.

`InitPropertiesIfNeeded` is the same call, guarded by the flag.

**Run** `properties` (values 0, 2, 300 and 65538, three calls, 4,552 states):

- `LimitCached`: no call caches a truncated value. Every limit is 0, the TPM's own value, or 1024 for the input buffer. This holds also for a call that fails part-way with earlier fields stored. The range check has to run before the conversion, against the width of the field the value goes to. The mutant `InRangeUint16` checks `TPM_PT_PCR_SELECT_MIN` against 65535: the value 300 passes and is stored as 44.
- `LimitsReported`: once initialised, every cached limit is the TPM's own nonzero value, or 1024 for the input buffer. This holds across later calls that fail part-way or get partial replies.

## ReadMultiple and AtomicRead (tpm.go 23-111)

`AtomicRead` is what a caller of the helper is promised.

- A read whose sessions no earlier read flushed begins (`Begin`); any other read is refused (`Refuse`). The caller cannot see a session the TPM lost, so such a read begins too.
- A read that has begun either completes or fails.
  - `Complete` needs every session still on the TPM. It returns the first `size` bytes and flushes exactly the sessions that were not continued.
  - `Fail` flushes nothing.
- A read past the end of the data never completes.
- The TPM may lose a session at any time (`Evict`).

`ReadMultiple` is the code:

- `Start` models `readMultipleHelper` and the session loop of `execMultipleHelper`. The loop returns early only for a session context whose `Data()` is nil (tpm.go:40-43), which is `Usable`: the host disposed of it after a command flushed it. A session the TPM lost is not seen there. The read starts, and its first command fails with a session error.
- `Iterate` is one turn of `for !action.last()`. It includes the policy-session refusal.
- `LastRun` runs the last command with the caller's own sessions.
- `Run` is `readMultipleHelperContext.run`: the TPM command, `copy`, and the uint16 counters.

The TPM answers each command in one of four ways:

- a session error, if a session is gone;
- a range error, past the data;
- success;
- any other failure.

A successful command flushes the sessions whose continueSession is clear. Flushed and evicted sessions are kept apart so that a flush the helper causes by
mistake cannot pass for an eviction.

**Run** `read_multiple`:

- Setup: a plain and a policy session, 3 bytes of data, `maxSize` 1 or 2, reads of 0 to 4 bytes, three reads, 4,811 states.
- `TypeOK`.
- `ReadCorrect`: a completed read holds the data, and it issued exactly the reference sequence of pieces (`Chunks`). The boundary `remaining = maxSize` is covered.
- `PolicySingleCommand`: a read with a policy session sends at most one command.
- `AtomicReadSpec`: the refinement `A == INSTANCE AtomicRead WITH status <- ..., result <- ..., request <- ...`, including its fairness.
- `ReadNeverRewinds`, an action property: inside a read, `total` only grows, and the bytes already copied stay as they are. This holds across failed commands and evictions. The mutant `CopyAtStart` copies each piece to the start of the buffer, as `copy(c.data, tmpData)` would, and breaks it.

`MaxCommands` bounds the commands of one read. It is never reached by a correct
helper with `maxSize` of at least 1. It exists so that a mutant that loops forever
yields a finite state space.

## NVRead (composition)

`NVRead` instantiates `TpmProperties` as `P` and `ReadMultiple` as `R`. It does so through their proof modules, which extend them and add no state and no action, so that `NVRead_proofs` can cite the components' lemmas. A read
(`NVReadRaw`) does the following:

- with the flag set, it starts the helper with `limits["NVBufferMax"]`;
- otherwise it runs `InitProperties` in the same step, and starts the helper only if that succeeded.

The caller may also call `InitProperties` between reads.

**Run** `nv_read`:

- Setup: values 0, 1 and 65537, two calls, two reads, 15,944 states.
- `ChunkSizeNonZero`: every read the helper starts has a nonzero chunk size. `ChecksPassNoNV` breaks it.
- `Termination`: `phase = "Running" ~> phase \in {"Done", "Failed"}`.
- A `maxNVBufferSize` of 0 would make the loop at tpm.go:52 spin forever. The checks at the end of `InitProperties` are what rule this out.
- The mutant that drops the NV check (`ChecksPassNoNV`) makes TLC find the endless loop.

## Mutants

For every property of a passing run, `PROJECT.json` names a plausible bug in a
mapped definition, and TLC finds the property violated with the bug in place.
The bugs are:

- always allowing sessions, which breaks the clearing rule;
- never disposing of discontinued sessions;
- not flushing the pending response;
- staying in the loop after the retry budget is spent;
- checking the auth limit after reading;
- stopping the response loop at the limit instead of refusing;
- skipping the responseSize check;
- range-checking `minPcrSelectSize` against the uint16 bound;
- converting without a range check;
- not cutting the last piece to the remaining size;
- passing `remaining` as the offset;
- dropping the policy-session check;
- not forcing continueSession on intermediate commands;
- not rejecting a missing `TPM_PT_NV_BUFFER_MAX`;
- copying each piece to the start of the buffer.

## Fairness and liveness

`ExecContext` and `TpmProperties` assume no fairness. The library runs on the
caller's thread and never acts on its own, so whether a pending response is
ever completed depends on the caller.

`ReadMultiple` and `NVRead` assume weak fairness of `Iterate` and `LastRun`, and
of nothing else. Once the helper is entered, its loop runs on the caller's
thread until it returns. Each TPM command returns, because the retry loop of
`TPMContext.RunCommand` is bounded by `maxSubmissions`. Starting a read, calling
`InitProperties` and the TPM losing a session are not fair. The liveness
properties are `Termination` and the fairness part of `AtomicReadSpec`: a read
that has begun ends.

## Proofs

### ExecContext_proofs.tla

The proofs assume `ConstantsAssumption`:

- `Sessions` is finite;
- `NoSession` is not a session;
- `MaxAuths \in 0..3` (Unmarshal never yields more than three response auths, and `TPMContext.RunCommand` rejects a count mismatch);
- the bounds are naturals.

The theorem `TypeCorrect` is `Spec => []TypeOK`, for every value of the constants. It rests on `TypeStep`, with one step per action, and on lemmas about the auth sequences, the result record of `ProcessResponseAuth` and the new history entry.

The module also proves the inductive invariant `IInv` that `ExecContextSync_proofs` builds on. It holds under `~ReuseWhilePending`. Its core is `HostExclusiveTracked`, which is not inductive on its own. A pending response whose
auths no longer verify would stop halfway and leave an untracked exclusive
session, as `exec_reuse_exclusive` shows. `IInv` therefore adds three facts:

- the caller nonces of the command in flight are the host's current ones;
- the caller nonces of a pending response are the host's current ones;
- a response is pending only when the loop is idle.

Together they say that no pending response can fail its HMAC check (lemma
`NoBadAuths`). `processResponseAuth` then always recomputes the last exclusive
session, and `ProcessKeepsTracked` shows it names the first and only exclusive
session. TLC checks `IInv` as an invariant of the `exec_context` instance before
it is proved.

### ReadMultiple_proofs.tla

These proofs assume `ReadAssumption`:

- `PolicySessions` is a subset of `Sessions`;
- the NV data is a byte sequence shorter than 65535, so that a read of one byte past it still fits a uint16;
- every `maxSize` is a uint16;
- the bounds are naturals.

The inductive invariant `IInv` adds four things to `TypeOK`:

- `ReqOK`: the request is one a caller can make.
- `PolicyInv`: `hasPolicy` is what the session loop computed, and a read with a policy session has sent no command while in the loop.
- `Progress`: inside the loop, `total + remaining = size`, and the first `total` bytes of the buffer are the data.
- `DoneData`: a completed read holds the data.

`Progress` is needed because `TypeOK` alone does not show that the uint16
subtraction never wraps. `DoneData` is needed because the refinement's
`Complete` step must see the result.

The argument is carried by lemmas:

- `RunOk` and `RunErr` describe one command. `RunInv` shows that one command keeps `IInv`.
- There is one lemma per action.
- The lemmas on `copy` (`CopyFacts`), on slices of the data (`NVSlice`) and on prefixes (`PrefixIsSubSeq`) state the sequence facts.

The theorems:

- `TypeCorrect`: `Spec => []TypeOK`.
- `PolicySingle`: `Spec => []PolicySingleCommand`.
- `Refinement`: `Spec => AtomicReadSafety`, the safety part of `A!Spec`. The initial state maps to `A!Init`. `Start` maps to `Begin` or `Refuse` on the host-visible `Usable` alone. A completing `LastRun` maps to `Complete` because the TPM answered `Ok`, which it does only when every session is still alive. Every step, with `IInv` on both sides, maps to a step of `AtomicRead` or a stutter. An intermediate command flushes `req.sess \ req.sess`, which is nothing, and so it is a stutter.
- `ReadCorrectness`: `Spec => []ReadCorrect`, both halves. The data half is `DoneData`. The half about the commands sent rests on `ChunkInv`: inside the loop, the `k`-th command read `maxSize` bytes at offset `(k - 1) * maxSize`, `Len(issued) * maxSize = total`, and bytes remain once a command was sent. The last command then reads the `remaining` bytes at `total`. Lemma `LastChunk` shows that this makes up `Chunks(size, maxSize)`. It does so through `CeilDiv`: when `(n - 1) * m < size <= n * m`, `(size + m - 1) \div m = n`. The empty read is a separate case: there is one command of zero bytes. TLC checked `ChunkInv` with `maxSize` values 0, 1 and 3, before it was proved.
- `NeverRewinds`: `Spec => ReadNeverRewinds`, the action property, from `IInv`. Lemma `RunKeeps` carries the argument. A successful command leaves the first `total'` bytes equal to the NV data, and `Progress` says the first `total` bytes already were, with `total =< total'`. A failed command changes neither.

### TpmProperties_proofs.tla

The theorems:

- `NoTruncatedLimit`: `Spec => []LimitCached`.
- `LimitsCorrect`: `Spec => []LimitsReported`.

The inductive invariant is `TypeOK /\ LimitsReported /\ LimitCached`. `TypeOK` is there for the widths that the conversions' arithmetic needs. A cached limit is one of three values:

- 0, for not yet read;
- the TPM's value;
- 1024, for an `InputBuffer` the TPM reports as 0.

The step that needs it is `InitProperties`, the whole of `initPropertiesIfNeeded`. Once the limits are set, every property but `InputBuffer` is in range. So the only index the code can refuse is `InputBuffer`, and a refused reply stores nothing (`InitPropertiesInv`). The uint8 and uint16 bounds stay opaque and are used through `WidthFacts`.

### ExecContextSync_proofs.tla

This module extends `ExecContext_proofs`. Each of the following holds under `~ReuseWhilePending`:

- `SessionsSynced`: `Spec => []SessionsInSync`.
- `ExclusiveSynced`: `Spec => []ExclusiveInSync`.
- `NoStaleAuth`: `Spec => []NoStaleCommandAuth`.

The inductive invariant `SInv` extends `IInv`. It splits the sessions between those of the pending response and the rest:

- `OutsideSync`: a session that no pending command uses is alive on both sides, with the same TPM nonce.
- `PendingSync`: each session of the pending command is alive on the host. It is alive on the TPM exactly when the command continues it, and the response carries the TPM's current nonce.
- `TpmExclLive`: the TPM's exclusive session is alive.
- `PendingExcl`: the response records the TPM's exclusive session, and a command that allows sessions can only have left one of its continued sessions exclusive.
- `HostExclSync`: with no response to process, the host's exclusive flags match the TPM's.

The sync invariants are not inductive without this split. Between the TPM's reply and `processResponseAuth`, the host and the TPM disagree on exactly the pending sessions. TLC checked `SInv` on the `exec_context` instance (1.6 million states) before it was proved. The `exec_reuse` run shows that `NoStaleCommandAuth` breaks when callers reuse such a session, which is why the theorems assume `~ReuseWhilePending`.

### NVRead_proofs.tla

The composition's proofs reuse the components' proofs. `NVRead` assumes `NVReadAssumption` on the constants it shares with the components. The lemmas `PAssumption` and `RAssumption` derive from it each component's assumption under NVRead's substitution: `MaxSizes <- 0..65535`, `MaxCalls <- MaxReads`, `calls <- reads`. A lemma cited through `P!` or `R!` carries its module's assumption as a hypothesis, and these two lemmas discharge it (`PFacts`, `RFacts`).

The inductive invariant is `P!IInv /\ R!IInv /\ ChunkSizeNonZero`. In `IInvStep`, every step of `NVRead` is a step or a stutter of each component. The one step that touches both is the read that runs `InitProperties` and then starts the helper. There, `P!IInv'` gives a nonzero uint16 `maxNVBufferSize`, through `LimitsReported` and `TypeOK`, and `StartStep` makes it a `Start` of the helper. The theorem:

- `ChunkSizeCorrect`: `Spec => []ChunkSizeNonZero`. It is the safety fact that `Termination` rests on. `Termination` itself stays with TLC.

### What stays with TLC

- PacketCodec's `CommandRoundTrip`, `ResponseRoundTrip` and `DamageDetected`. They are statements about what recursive functions (the auth-area concatenation and the integer codec loops) compute for every input. Proving them needs induction over data, and the provers cannot instantiate the library's induction theorems.
- The fairness half of `AtomicReadSpec`, `Termination`, and all liveness and `ENABLED`, which are out of the provers' reach.
- The `exec_reuse` and `exec_reuse_exclusive` instances, where callers reuse a session of a pending response. They are violation runs, and no theorem covers them.


## Not modelled

- Cryptography: HMACs, key derivation and parameter encryption. An HMAC is "valid iff both sides used the same nonce generations".
- The `mu` reflection codec beyond the integers, sized buffers and auth structures that packets use.
- The TCTI transport, apart from its failure and the damage of a packet.
- `StartAuthSession`, `util/object.go` and the qualified-name helpers, which are pure functions of digests.
- `writeMultipleHelper` and the NV and sequence commands that use the helpers. They are not under `src/`; only the NV read path is composed, from the spec.
- A TPM that answers a chunk with fewer bytes than asked (tpm.go:91 copies such a reply without complaint). The model's TPM answers exactly.
