# AssetFare MCP: formal models, checks and proofs

This directory specifies the parts of `assetfare-mcp` that keep state, spend a
caller's money, judge what a remote service answers or must survive errors, in
TLA+. Paths are relative to the repository root (`src/` below is the repository's
own `src/` directory).

Run anything here with

    tlc -workers 2 -config runner_refresh.cfg MCRunner.tla
    tlc -workers 2 -config adapter.cfg MCAdapter.tla
    tlc -workers 2 -config session.cfg MCSession.tla
    tlc -workers 2 -config verifier.cfg MCVerifier.tla
    tlc -workers 2 -config remote.cfg MCRemote.tla
    tlc -workers 2 -config readers.cfg MCReaders.tla
    tlapm CallerSessionProofs.tla

and likewise the other modules whose name ends in `Proofs`.

## 1. The system

AssetFare builds unsigned cross-chain actions; callers sign and submit them.
The repository holds the caller's side and a public MCP/A2A front end. The quote
and session service behind them, the chains and the wallets are not in it.

    agent ── integrations ───────────── HTTP ──┐
    agent ── MCP/A2A ── server.js, a2a.js ─ HTTP ──┤ hosted quote/session service
    user ── route-eval → select → plan → session ──┤
    user ── caller-runner.js ── session.mjs ───────┘
                   │
                   └── wallet adapter ── wallet, RPC ── EVM and Solana chains
    user ── assetfare-verify ── HTTP ── publisher, public files, RPC hosts

### Inventory

| component | state it keeps | operations | what is hard | what makes it correct |
|---|---|---|---|---|
| `src/caller-runner.js` | state file (totals, actions with their requests, operation counter, idempotency keys) | one invocation: poll the session, prepare/submit/confirm requests, revoke an approval, observe source and output | every `await` and every pair of saves is a crash point; lost answers, expired and replaced actions, restarts; caps that bind over several runs | caps hold, nothing is sent twice or unannounced, an action is confirmed only if it landed, the allowance goes back to zero, runs end |
| `src/standard-wallet-adapter.js` | operation store (memory or one JSON file) | prepare, submit, confirm, revoke for both families | send and store are two steps; read-modify-write of a whole file; waits up to three minutes for receipts and reorganisations | one operation, at most one transaction; a confirmation is final |
| `scripts/select.mjs` | the approval file it writes | check one quote, write an approval with the caller's own bounds | bounds only stricter than the quote's | the approval belongs to the quote |
| `scripts/plan.mjs` | capability file (token, session id, verification context) | plan one-shot or session, hand-off to a wallet | the token is written before the create call; the answer may be lost, late or wrong | a retry never makes a second session or loses the token; no action is handed over outside the approval |
| `scripts/session.mjs` | the same file, read only | get, refresh, wallet-ready, observe source/output | 120-second readiness rule after two requests, expired actions | what is handed over is live, verified and the file's session's |
| `scripts/assetfare-verify.mjs` | none | manifest, bundle, public files, several RPC hosts per chain | the release may change between two requests; lying, failing or silent hosts; hosts that cannot answer everything | the report is of one release and true of the chains; every run ends |
| `scripts/route-eval.mjs` | the quote file it writes | manifest, capabilities and status, quote, advice, comparison prices, quote file | a quote file other runs write too; silent comparison providers; a release in between | what it says is so, and the file it names is there |
| `src/server.js` | one transport per request | tools for capabilities, quote, route selection, prepare, sessions; checks of the answers | many requests at once, late and lost answers, an effect before the answer is checked | only executable routes within the approval pass; each call is answered |
| `src/a2a.js` | none; `execute` publishes one message per call | quote with two probes, prepare, session operations | the same | the same |
| `src/continuation-v3.js` | none | typed hashes, continuation and approval checks | bounds, expiry | an approval never exceeds its quote |
| `src/direct-route-summary.js` | none | the route a quote takes against the contract's plan | one hundred routes and their older forms | only the contract's plan passes |
| `src/economic-guidance-policy.js` | none | which policies and guidance belong to which release | several releases at once | parts of two releases are not taken for one |
| `integrations/*` | none | capabilities, quote and status for five frameworks; each has the same copy of `directRouteSummary.ts` (the files are byte-identical, so the map names one of them per definition) | a second implementation of the same checks | the same result as the package's |
| command line wrappers, trust root, workflows, schemas, evidence | none | | | |

### Interaction

The runner owns its state file and is the only writer of it. It calls the
session service through `sessionCall` (a function call into `scripts/session.mjs`,
then HTTP) and the adapter through eight asynchronous methods. The adapter owns
its operation store. Nothing is pushed to the runner: it polls.

The command line tools meet in files: `route-eval` writes a quote, `select` reads
it and writes an approval, `plan` reads both and writes the capability file that
`session` and the runner read. The two servers and the integrations are doors to
the same service: they keep nothing, so a caller who lost an answer comes again
with the same key. What binds the calls together is the document the caller keeps,
the verification context, which every later call sends along.

## 2. What is modelled

| module | models |
|---|---|
| `RunnerWorld` | what the runner acts on: the clock, the session service as the runner relies on it, the transactions of the caller's accounts, and the adapter contract that `validateAdapter` demands (`Broadcast`: a known operation id is answered from the store) |
| `CallerRunner` | `runCallerOwnedSession`, `executeEvm` with its catch block and recovery, `executeSolana`, `releaseConfirmedEvmReserves`, the state file, crashes, restarts |
| `CallerRunnerProperties`, `MCRunner`, `CallerRunnerProofs`, `CallerRunnerLanding`, `CallerRunnerLedger` | what it promises, instances for TLC, theorems about the runner's own state, about the file, the chains and the session, and about the sums in the file |
| `IdempotentSubmission` | abstract: an operation is sent at most once, told only after it was sent, confirmed for good |
| `WalletAdapter` | `createStandardCallerWalletAdapter` with its operation store, an EVM chain that reorganises, Solana blockhashes and finality, the caller's crashes |
| `WalletAdapterProperties`, `MCAdapter`, `WalletAdapterProofs` | what it promises with the refinement of `IdempotentSubmission`, instances, theorems |
| `QuoteRules` | the pure rules everybody shares: executable routes, summaries, continuation, approval, verification of an unsigned action and its bounds |
| `CallerSession` | `select`, `plan` and `session` as processes over the approval and capability files, with the service's sessions and the wallet |
| `CallerSessionProperties`, `MCSession`, `CallerSessionProofs` | what the tools promise; instances; theorems |
| `EvidenceVerifier` | one run of `assetfare-verify`, live or offline, with publisher, files and RPC hosts |
| `EvidenceVerifierProperties`, `MCVerifier`, `EvidenceVerifierProofs` | what its report means; instances; theorems |
| `RemoteAdapter` | calls through `server.js` and `a2a.js` that quote, prepare and drive sessions |
| `RemoteAdapterProperties`, `MCRemote`, `RemoteAdapterProofs` | what the two doors promise; instances; theorems |
| `RoutePlans` | the plan of each of the hundred routes and the older forms; what the package's and the integrations' validators make of a quote |
| `RouteChoice` | route selection and selected quote: what `server.js` asks of the answers |
| `QuoteReaders` | the read-only doors: capabilities, quotes, choices and evaluations, the evaluator's quote file |
| `QuoteReadersProperties`, `MCReaders`, `QuoteReadersProofs` | what a caller may rely on, with `PlansAreWays`, an assumption about the plans of all routes that TLC evaluates; instances; theorems |

`CallerSession` and `RemoteAdapter` extend `QuoteRules`; `RouteChoice` extends
`RoutePlans`, which extends `QuoteRules`; `QuoteReaders` extends `RouteChoice`. So
one definition of `Executable`, `SummaryValid`, `ContinuationValid` and `Accepted`
serves all doors, as one JavaScript function serves them in the code.

The runner and the adapter are checked apart: `RunnerWorld!Broadcast` is the
contract that `validateAdapter` demands, `IdempotentSubmission` the same contract
as a specification, which the adapter is shown to implement under the conditions
of section 5.

### The runner

`disk` is the state file and `mem` the object `state` of the running process.
`saveState` writes a temporary file, syncs and renames, so `disk` changes only
to the whole of `mem` (`Write`). `Stop(disk)` ends the process and drops what is
not saved: an uncaught error, a result or a kill (`Crash`). `pc` names the place
where the process awaits, or a place between two saves, so the clock (`Time`),
the chains (`Mining`), the service (`Halting`) and a crash may come in between.

| program point | code in `src/caller-runner.js` | action |
|---|---|---|
| `idle` → `restart` | read policy, adapter, `loadState` (196-198) | `Start` |
| `restart` | `releaseConfirmedEvmReserves`, result of a complete session (197-199) | `ReleaseOne`, `Restarted` |
| `top` | head of the loop and the `get` call (200-230) | `GiveUp`, `Get…` |
| `sleep` | `sleep(...)` | `Asleep` |
| `key`, `store` | `nextOperation` saves the counter; the key is saved afterwards (101, 212, 218, 227, 231) | `NextOperation`, `StoreKey` |
| `source`, `output`, `refresh` | the three mutations and their catch blocks | `ObserveSource`, `ObserveOutput`, `Refresh` |
| `evm` … `settle` | `executeEvm`, one point per await or save (125-147, 166) | `EvmReserve` … `EvmSettled` |
| `catch`, `rprepare` … `rconfirm` | the catch block and the approval recovery (149-164) | `EvmCatch`, `Revoke…` |
| `sol` … `sdone` | `executeSolana` (169-183) | `Sol…` |

A write of the state file may fail. Outside `executeEvm`'s try that ends the run like a kill
before or after the write; inside it the catch block goes on with a memory the file may not
have (`SaveFails`), and its recovery may save that memory over the file.

Each call has three outcomes: it takes effect and is answered; it takes effect
and the answer is an error or is lost; it has no effect. Errors the loop
tolerates (rejected, unavailable, rate limited) go on after a sleep; others end
the run.

### Abstraction in the runner

Data is cut to what the properties tell apart. A request is its row number, its
value and its gas cap; an idempotency key is the counter's value; an action is
its id and expiry; `paid` stands for the sum over `requests` that
`releaseConfirmedEvmReserves` computes; `reserve = 0` for an absent
`maximum_native_reserve_wei`. The shape of policies, hand-offs, preparations and
receipts is checked by the code field by field; here those values are correct,
or the call throws. `validatePolicy` requires `allow_approval_revoke_on_failure`,
so it is no parameter. All of a `safety_receipt` that matters is whether row 0
is an approval (`NeedsApproval`).

The order of `chain` is the order of broadcasts, per step also the order of
nonces; a transaction becomes `ok` or `failed` after those sent before it.
`anchor` and `runs` are auxiliary: when the state file was created, and how many
invocations there were.

### The adapter

`call[c]` is the adapter call a caller awaits, `store` what the operation store
holds. Reads and writes of the store are synchronous in the code, so each is part
of the step that ends at the next await; whatever the wallet, the provider and the
chain do comes between steps.

| program point | code in `src/standard-wallet-adapter.js` | action |
|---|---|---|
| `idle` → `account` → | window, chain, accounts, `operationStore.get` (35, 39) | `Prepare`, `LookUp` |
| `slot` | gas and nonce, or blockhash and simulation (35, 39) | `ReadSlot` |
| `keep` | `operationStore.set` of the prepared record (35, 39) | `KeepPrepared` |
| `ready` | the checks of `submitEvm` and `submitSolana` (36, 40) | `Submit` |
| `send` | `eth_sendTransaction`, `signAndSendTransaction` | `SendTransaction` |
| `answer` | the hash is stored and answered (36, 40) | `KeepHash` |
| `sent`, `idle` | head of `confirmEvm` and `confirmSolana` (37, 41) | `ConfirmSent`, `Resume` |
| `receipt`, `height`, `again` | the polling loop of `confirmEvm` (37) | `ReadReceipt`, `ReadHeight`, `ReadAgain` |
| `finality` | the loop of `confirmSolana` (41) | `ReadFinality` |
| any of these | the deadline of the loops (37, 41) passes; the next turn ends the call | `TimeOut`, `GiveUp` |
| `found` | the confirmed record is stored (37, 41) | `Report` |

Every await may throw (`Throws`), time-outs and refused calls included. A
transaction is its operation and its slot, the nonce or the blockhash that was
stored for it; everything else that is signed is copied from the request and
bound by `binding_sha256`, so a binding conflict cannot arise here and the window
is the only thing a record can disagree in. A revocation is an operation like
another: its allowance check is one more await that may throw.

What is assumed of the outside: the provider honours the nonce it is given; it
accepts a nonce that is not used yet, and a second transaction with a pending
nonce takes the first one's place; a block that was reorganised away does not
come back; a reorganisation is less deep than `evmConfirmations`
(`ReorgAssumption`, the reason to choose that number); a Solana transaction with
the same content and blockhash is the same one, and a blockhash lives for two
steps of `NewHash`.

### The command line tools

`quote`, `approval` and `file` are the files the tools exchange, `proc[p]` a tool
process. A process ends between any two steps (`Fail`: a check failed, a time-out, a
kill), and its request may still be handled afterwards (`pc = "gone"`). Everything a
process does between two awaits is one step; the disk writes are synchronous and made
whole by rename or by exclusive creation.

| step | code | action |
|---|---|---|
| | `selectQuote` in `scripts/select.mjs` | `Select` |
| to the request | `runPlan` in `scripts/plan.mjs`: arguments, quote, approval, capability file, `writeSessionToken` | `PlanStart` |
| from the answer | `updateSessionCapability`, then `verifyPlanBundle`, `verifyApprovalBundleBounds`, `callerWalletHandoff` | `PlanFinish` (`Bind`, `HandOff`) |
| to the request | `runSession` in `scripts/session.mjs`: capability, `--session-id` or the file's id, receipt | `SessionStart` |
| second request | wallet-ready asks for a replacement | `AskRefresh` |
| from the answer | verification and the last look at the clock | `SessionFinish` |

The service keeps sessions by idempotency key and token (`ServeCreate`), moves a
session on with each observation and replaces only what expired and was not sent. It
is external and gives each answer in every form a process has to be ready for
(`Received`): the right action, a better one, one that spends more, returns less or
serves somebody else, and one that is wrong about the step before as well, so that
its own numbers agree. `Execute` is the caller's wallet in the worst case: it gets the
minimum and nothing more.

### The evidence verifier

A run awaits one request at a time, except that the hosts of a chain are asked
together: `run.phase` names the request, `run.asked` when it was sent, `run.manifest`
and `run.bundle` what was read. `Publish` changes manifest or bundle between two
requests.

| phase | code in `scripts/assetfare-verify.mjs` | action |
|---|---|---|
| `idle` | `parseArgs`, and the whole offline run | `StartLive`, `StartOffline` |
| `manifest`, `bundle` | `fetchCanonicalJson`, `validateManifest`, `validateBundle` | `GetManifest`, `GetBundle` |
| `files`, `scripts` | `verifyPublicEvidence` | `GetFiles`, `GetScripts` |
| `rpc` | `verifyRpcQuorum`, `rpcRead` | `HostAnswer` |
| any | `AbortSignal.timeout` | `TimeOut` |

All contracts of a chain are one fact; `Claimed` is what the bundle says of it. Which
host is asked for the chain id, the code and the receipts follows `RPC_PROVIDERS`:
Sei's hosts are asked for no receipts, Injective's third host for no chain id and its
second for no receipts.

### The remote doors

`call[p]` is a call of a tool or an operation in progress. It is refused at once or
sends its request (`Begin`); an A2A quote first probes capabilities and status
together (`Probe`). `call[p].wire` is where the request is, whether or not anybody
still waits: after a time-out (`TimeOut`) the service may handle it all the same.

| step | code | action |
|---|---|---|
| before the request | `createHttpApp`, schemas, `parseV2Intent`, `parseRemoteVerificationContext`, `parseA2AVerificationContext` in `src/server.js` and `src/a2a.js` | `Begin` (`HttpRefuses`, `Admitted`) |
| the service | external | `Serve`, `Lose` |
| after the request | `rejectUnsignedActionMaterial`, `verifyRemoteBundle`, `verifyRemoteSession`, `verifyA2ABundle`, `verifyA2ASession` | `ReceiveAny` (`Verdict`) |

What arrives (`Arriving`) is the truth, an error although the request took effect,
something unreadable, or the truth with one thing wrong in it.

### Routes and the read-only doors

`RoutePlans!Definition` is `buildDefinition` of the integrations: the steps of a route
by its source, its destination and whether the quote claims the older way through an
external intent. The package has the same plans as a table; `PlansAreWays` in
`MCReaders` lets TLC evaluate all of them. `CoreSummary` and `KitSummary` are the two
validators, `CoreAccepts`, `EvalAccepts` and `KitAccepts` what each door asks of a
whole quote.

`reader[r]` is a reading: one call of a tool or one run of `route-eval`.

| program point | code | action |
|---|---|---|
| `idle` | gate of the door | one action per door: `Mcp`, `A2a`, `RouteEval`, `Agenti` … |
| `prelude` | manifest, capabilities, status, selection, asked together | `AnswerPlain`, `AnswerCapabilities`, `AnswerSelection` |
| `quote` | the quote and its checks | `AnswerQuote` |
| `shown`, `choose` | `parseV2RouteSelection`; the caller picks; `parseV2SelectedQuote` | `Choose`, `AnswerChoice` |
| `temp`, `linked` | the temporary file, `linkSync`, `unlinkSync` of `scripts/route-eval.mjs` | `Link`, `Unlink`, `WriteFails` |
| `compare` | the two comparison prices, `Promise.allSettled` | `AnswerOffer` |
| any | time-out, refusal, kill | `TimeOut`, `Fail`, `Kill` |

A release is known by its number of routes. Capabilities are the release each of
their parts is of, so that parts of two releases can meet (`Rollout` between two
requests, or one part of another release in an answer). A quote is known by what it
answers, its guidance, its age and what is wrong in it (`Lies`).

## 3. Properties and runs

| run | instance | distinct states | checks |
|---|---|---|---|
| `runner_refresh` | 1 EVM step of 2 rows, 2 actions, 2 invocations, clock to 6, `FairSpec` | 923 thousand | `TypeOK`, `RecordedWithinPolicy`, `ReserveLedger`, `KeysNameOneMutation`, `ConfirmedNotResubmitted`, `RunTerminates` |
| `runner_two` | EVM step then Solana step, 3 invocations, clock to 2, cap 4 | 3.1 million | `SpendHappened`, `ConfirmedLanded`, `RecoveryIsExactZero`, `OverspendIsRecovery`, `BroadcastIsAnnounced`, `RuntimeIsAnchored` |
| `adapter` | 1 EVM and 1 Solana operation, 2 windows of which one ends, depth 2, height 4, 4 blockhashes, `ConfirmSpec` | 431 thousand | `TypeOK`, `OneTransaction`, `ConfirmedIsFinal`, `Idempotent`, `ConfirmationEnds` |
| `session` | 2 processes, 3 quotes, 2 wallets, 2 tokens, 2 live hand-offs, clock to 4 | 418 thousand | `TypeOK`, `SavedIsRecoverable`, `BoundBeforeHandoff`, `ApprovedBounds`, `NextSpendsOutput`, `HonestIsAccepted`, `FreshWhenHandedOff` |
| `verifier` | 3 chains, 7 releases, 1 change of the release, clock to 8 | 264 thousand | `TypeOK`, `LiveIsAttested`, `OneRelease`, `StaleByOneRun`, `AcceptedIsVerified`, `RunEnds` |
| `remote` | 2 slots, 3 calls, clock to 3 | 148 thousand | `TypeOK`, `HandoffIsApproved`, `OneSessionPerApproval`, `Answered` |
| `readers` | 2 readings, 3 releases, one lie, one kill, one rollout, clock to 3, `FairSpec` | 413 thousand | `TypeOK`, `ClaimedIsKept`, `HonestQuoteTold`, `ToldIsTrue`, `VerifiedIsOfOneRelease`, `ReadingEnds` |
| `runner_uncertain`, `runner_partial` | as `runner_refresh`, clock to 4 | | statements of section 4 |
| `runner_spend` | 1 EVM step, 1 action, 2 invocations, fees of 2, cap 6 | | statement of section 4 |
| `adapter_concurrent` | 1 EVM operation, two callers | | statement of section 4 |
| `remote_aptos` | 1 slot, 2 calls, requests for an Aptos route | | statement of section 4 |

The runner:

* **Caps.** `RecordedWithinPolicy`: four recorded totals, the reserve total, the two
  transaction counts and the Solana fees, never pass their caps. The fifth, the native
  spend, may (`runner_spend`); `OverspendIsRecovery` says where: the file comes to
  record more than the cap in no other step than one that records a revocation.
  `ReserveLedger`: the reserve total is the sum of the reserves still held and of
  what settled actions cost, whatever path took or returned them.
* **Bookkeeping against the chain.** `SpendHappened`: recorded spend never
  exceeds what landed. `ConfirmedLanded`: a confirmed action landed completely.
* **Write-ahead.** `BroadcastIsAnnounced`: announcement, reserve and earlier
  rows are durable before a request is sent. `KeysNameOneMutation`: two saves
  for one key never make it ambiguous.
* **At most once.** `ConfirmedNotResubmitted`: nothing is sent for a step one of
  whose actions is confirmed or observed. Submissions whose outcome is unknown
  are the adapter's matter (same operation id) and, after a refresh, the service's.
* **Recovery.** `RecoveryIsExactZero`: a new attempt is recorded only after the
  revocation landed and with no approval behind it.
* **Time.** `RuntimeIsAnchored`: restarts do not extend the runtime.
  `RunTerminates`: every invocation ends.

The adapter:

* **At most once.** `OneTransaction`: an operation id has one transaction in the
  network, through retries, lost answers, crashes, ended windows and stale nonces.
* **Finality.** `ConfirmedIsFinal`: what is stored as confirmed stays included.
  `confirmEvm` reads receipt, height and receipt again; the chain may reorganise
  between any two of them.
* **Refinement.** `Idempotent`: each step sends one operation not sent before,
  tells the hash of a sent one, confirms one that is told and included, or only
  moves transactions in and out of blocks without undoing a confirmed one.
* **After the answer.** `ToldStaysConfirmable` (proved, in no run): the record stays the one that a told hash
  and its window name, so that `confirmEvm` and `confirmSolana` take them at any later time.
  Nothing says that a caller comes back: the runner does not, once a hash is recorded
  (`src/caller-runner.js:210`).
* **Progress.** `ConfirmationEnds`: a confirmation ends although its transaction is never
  buried, or is moved by one reorganisation after another.

The command line tools:

* **Recovery.** `SavedIsRecoverable`: whatever crashes, is lost, comes late or runs
  twice, the capability file of a saved session holds its token, key, wallets and
  approval. `BoundBeforeHandoff`: an action of a saved session reaches the wallet only when
  the file names that session, so a session that cannot be taken up never moved anything.
  The exception is a caller who names a session on the command line (`--session-id`,
  `scripts/session.mjs:84`) for a file that names none.
* **Money.** `ApprovedBounds`: a route executed to its end took no more and returned
  no less than approved. `NextSpendsOutput`: a later step follows one of its own
  session and spends at least its least input; it spends what the step before really
  returned if the service tells that output as it recorded it. A service that misreports it
  is believed: `scripts/plan.mjs` compares two numbers of the same answer (lines 225
  and 295) and has no other source. `HonestIsAccepted`: the other side of it; the checks that a summary's
  minima follow from one another are what keeps a caller from standing half way with
  an honest action that no tool accepts.
* **Time.** `FreshWhenHandedOff`: the answer of a slow request, or of wallet-ready's
  second one, is handed over only with the time it needs.

The verifier:

* `LiveIsAttested`: with one lying host per chain, what the report says of a chain is
  true of it. `OneRelease`: manifest and bundle of the report are one signed release,
  though two requests fetched them. `StaleByOneRun`: a manifest that ran out is
  vouched for no longer than one run takes. `AcceptedIsVerified`: no false alarm.
  `RunEnds`.

The remote doors:

* `HandoffIsApproved`: a hand-off keeps to the approval sent with the call, whatever
  the service answers. `RefusedIsHarmless` (proved, in no run): what the door's own checks
  refuse leaves no session behind. `OneSessionPerApproval`: a creation repeated after a lost answer,
  through whichever door, makes no second session. `Answered`.

The read-only doors:

* `ClaimedIsKept`: a quote file that is said to be persisted is there and is this
  run's, for as long as it says so. `HonestQuoteTold`: no honest quote is refused but for
  what the door does not know, which `UnknownTo` lists: chains and product offers at the
  integrations, Unichain and Ink at the package (section 4). `ToldIsTrue`: no wrong
  quote, advice or comparison is told. `VerifiedIsOfOneRelease`: a rollout does not mix
  two releases into one verified answer. `ReadingEnds`.

`PlansAreWays`, an assumption TLC evaluates with `readers`: the contract has a hundred
routes and fourteen older forms, and each plan is a chained way from its source to its
destination with one fee step, in which a full quote is accepted. `RoutesUnknown`, another
one, counts the routes `HonestQuoteTold` excepts: fourteen at the integrations, two of them at
the package too.

### Bounds

*Runner.* Two rows are the least with an approval and a downstream request; two actions
are the least with a replaced one; two invocations the least in which a restart
meets what a crash left, and three let a restart fail in turn. Gas of one unit
per row and a recovery of one make each fee 0 or 1, so an excess of one is seen.
In `runner_refresh` `Cap = 7` leaves room for one reserve of 4 but not for two; in
`runner_two` `Cap = 4` is the reserve of one action, which a few attempts and their
recoveries can spend up; in `runner_spend` a fee is 2 and `Cap = 6` three of them: both caps bind.
That the Solana limits bind over several steps is left to the proof of `PolicyRespected`. The clock runs two ticks past the
runtime or the life of an action. `MaxKeys` stops the run that would need more
keys; a run never needs more than the steps and refreshes the clock allows, except
for refreshes in a row. No symmetry is used: action ids are ordered.

*Adapter.* Depth 2 with reorganisations of 1 are the least values that tell a
buried block from the tip, and height 4 lets a block be buried, replaced and buried again;
two reorganisations can come between three reads. Two windows, one of which ends,
are the least in which a retry finds another window than the record's. The foreign
transaction competes for the operation's nonce. Four blockhashes let a stored one die
and be asked for again. One constraint cuts the instance: `OneFamily` (an operation is
used while the other family's chain rests: the two share the store and nothing else).

*Command line tools.* One tick stands for 60 seconds: an action lives three ticks, as
long as the tools allow (`ActionTtl = MaxTtl`), and wallet-ready wants two
(`WALLET_READY_MINIMUM_REMAINING_MS`). Two processes, of which one drives sessions, let a
second `plan` meet the file of the first; two tokens let a retry draw a new one. The
quotes have one and two steps, the third has minima that do not follow from one another. An
approval asks for the quoted minimum or one more (`Stricter`). Tokens kept in memory
only (`Unsaved`) are left to one-shot plans. Two hand-offs may be live at one time
(`MaxHandoffs`), enough for two steps or two rival actions of one step; a tool that would
write a third ends without it. The wallets are symmetric.

*Verifier.* Base stands for the chains with two full hosts; Sei and Injective are the two
with a division of duties. Of the seven releases one corrects another under the same
commit, one runs out early, two have a wrong claim on a chain of each special kind, two are
signed by another key, one is of an older scope. The clock outlasts a run of eight
requests of one tick each.

*Remote doors.* Two slots let a repeated creation overtake the first one, whose request is
still under way. An action lives one tick, so it expires while a call waits.

*Readers.* Chosen routes are asked at each door, those from Unichain and Ink among them. A quote lives two ticks of 45 seconds, a request one. Readings meet only at the
output path; the constraint `Contest` therefore lets two run at a time only if they are
evaluators writing to it, with an honest service that stays at its release. One reading at
a time meets everything else. Choices are made at three paces, the last one slower than
its profile allows.

`CHECK_DEADLOCK` is off everywhere because the systems stop when their inputs are used up
and the clock has reached its bound. The two runs with constraints and a liveness property
(`adapter`, `readers`) check it on the behaviours that stay inside the constraint.

### Fairness

`CallerRunner!FairSpec` assumes that a live runner takes its next step and that time
passes. The first holds because every await ends: HTTP calls carry a time-out
(`requestJson` in `scripts/plan.mjs`), the standard adapter gives up a
confirmation after `confirmationTimeoutMs`, and sleeps are bounded by three
minutes. An adapter or a wallet prompt that never answers is outside that
assumption. Nothing is assumed of the service, the chains or of restarts.

`ConfirmSpec` assumes `Timely` of each call: time passes (`TimeOut`, the deadline that
`confirmationTimeoutMs` sets), and the provider answers what a confirmation asks, if
only with nothing (`Poll`). Callers owe nothing, nor do the chains: nobody need begin a
confirmation, or repeat one.

The verifier, the remote doors and the readers assume that time passes and that the
runtime serves its timers (`WF` of `Tick` and `TimeOut`); a `route-eval` that writes its
file goes on. Nothing makes a service or a host answer, so each liveness property there
rests on the code's own time limits. `CallerSession` states no liveness: whether a session
is taken up again is the caller's choice.

## 4. Where the code and its documents differ

Each of these is a run that must find a counterexample.

* `runner_uncertain`: the self-test reports
  `uncertain_submission_reserve_retained:true`
  (`src/caller-runner-selftest.js:70`). `submissionAttempted` is local to one
  invocation. The submit call's outcome is lost, a second run fails before it
  submits, and its catch block releases the reserve.
* `runner_partial`: the self-test expects an EVM source to be observed with both
  hashes (`src/caller-runner-selftest.js:42`). After a crash between the rows the
  next run takes the action for confirmed-pending (line 210) and observes it with
  one hash until its runtime is over; the other request is never sent, the
  approval never revoked.
* `adapter_concurrent`: `prepareEvm` looks the record up, awaits three provider
  calls and stores the prepared record without a second look. Two calls of one
  operation at the same time (two runners on one store) can send it twice, although the
  adapter declares `idempotent_submission_by_operation_id`
  (`src/caller-runner.js:81` demands it).
* `remote_aptos`: "Prepare and the session lifecycle mirror the MCP tools exactly"
  (`src/a2a.js:448`). Both doors refuse keys that sound like raw transactions; MCP
  except the two fields every unsigned Aptos action carries
  (`src/server.js:578-580`), A2A does not (`src/a2a.js:281`), so it refuses every
  Aptos action, after the session was made.
* `runner_spend`: a total above the cap makes the runner throw
  `assetfare_runner_evm_actual_total_exceeded` (`src/caller-runner.js:147`). The
  revocation's fee is added to the same total with no comparison and saved (line 162), and
  the reserve, taken once per action, is not raised for the attempt a recovery opens. Two
  runs that each pay for an approval and its revocation end with more on file than the cap.

Further observations made while modelling, which no run is spent on:

* A revocation follows also after a broadcast of unknown outcome: a main request whose
  submit call failed after it was broadcast has no recorded hash and is taken for not
  sent ("Approval-only failure", `README.md:411-412`).
* The integrations' quote action "covers 65 curated public REST v2 route products"
  (`integrations/solana-agent-kit/README.md:13`), but their validator knows the finality
  field of the burn step for X Layer, Sei and Sonic only and the action family of Aptos not
  at all. It refuses the quotes of the twelve routes from Monad, Avalanche, Cronos, Injective,
  Linea and Aptos that the package accepts, and those of the two from Unichain and Ink.
* Nor does the package accept these two: `assetfare_v2_quote` is to expose the 65 products
  (`README.md:163`), and `src/server.js:674` insists on unichain:USDC and ink:USDC to
  solana:USDC in the capabilities, but the list of chains in `src/continuation-v3.js:24` has
  neither, while line 300 wants the wallets of all chains of the summary. The MCP tool, the
  A2A operation and `route-eval` refuse every honest quote of theirs. Both facts are in
  the passing run `readers`, as what `HonestQuoteTold` excepts and `RoutesUnknown` counts.
* Line 147 of `src/caller-runner.js` changes memory before it compares: when it throws, the
  catch block works on, and its recovery may save, a total that was refused a moment ago.
  `OverspendIsRecovery` says what does hold of that total.
* With `--session-id` a capability file that names no session can be driven
  (`scripts/session.mjs:84`); nothing writes the id into the file then.
* A service that tells a wrong output of the step before makes the next step spend other
  funds of the wallet, down to the step's least input (`scripts/plan.mjs:225`, `:295-296`).
* After a crash between `eth_sendTransaction` and the store's write, retries are safe,
  for they carry the stored nonce; but once the transaction is mined each of them is
  refused, and no call of the adapter learns the hash (`README.md:412-413`).
* `validateBundle` accepts bundles of older scopes (the verifier's self-test wants it:
  `scripts/assetfare-verify-selftest.mjs:206`), but a live run over one fails at the
  first pinned chain it leaves out (`scripts/assetfare-verify.mjs:557`).
* Under guidance that carries no published amount, `economicFit` of `route-eval` still
  says `use_assetfare_first` for solana:USDC to base:USDC from USD 50 on (line 115), by
  the one dated evidence route, while its usage text (lines 43-45) says only when
  `best_from_verified=true`. `Backed` states what the code guarantees.
* The integrations describe "65 curated public route products" and require
  `directed_conversion_routes === 100`; they refuse the guidance of a product offer, and so
  does `route-eval`, while the server and A2A accept it.
* `route-eval` may print the manifest of one release with a quote of another (a rollout in
  between), and a quote that expired while it waited for comparison prices.
* When the temporary file cannot be removed, `route-eval` reports an error although the
  quote file is there.
* Capabilities with 76 routes pass with the economic policy of another release, and
  package version 1.13.0 is a floor of both the 54- and the 80-route release: a rollout
  between those cannot be noticed (section 5).
* The route gate lets a source-only chain be a destination; the intent's schema
  (`V2_DESTINATION_CHAINS`) refuses it. `PublicRoute` has both.
* A reused quote of another provider carries no expiry the selected quote tool could see; a
  recommendation outside the shortlist or slower than the caller's limit passes
  `parseV2RouteSelection`.

## 5. What is proved

### The runner

For every workflow, policy, and number of actions, invocations and crashes
(`CallerRunnerProofs`):

* `TypeCorrect`: `Spec => []TypeOK`. Not a formality here: it contains that no
  subtraction of a reserve goes below zero.
* `PolicyRespected`: `Spec => []RecordedWithinPolicy`, the four totals named there.
* `OverspendRecovers`: `Spec => OverspendIsRecovery`.
* `RuntimeAnchored`: `Spec => RuntimeIsAnchored`.

`RecordedWithinPolicy` is not inductive: it speaks of the state file, which is
overwritten by memory, and of a count that is compared with its cap three
awaits before it is increased. `IInv` therefore says that memory and file are both
`Sound` (typed, within the caps, created at `anchor`) and that memory `Fits` the
program point: the action is known where one is worked on, the row is one of the
step's, and between the comparison (`EvmPrepare`, `SolPrepare`) and the increment
there is still room for one transaction. A lemma shows that each helper that
changes the state (`ReserveFor`, `RecordHash`, `Recovered`, …) maps sound states
to sound states, then each action preserves `IInv`. `RuntimeAnchored` follows
because a broadcast requires `Window`, which compares the clock with `mem.born`,
and `Sound` ties `born` to `anchor`.

`OverspendRecovers` is about the one total that memory may hold above its cap. `SpendInv`
says that memory and file agree on it everywhere but in the catch block and the recovery
(`CatchPcs`), where memory may be ahead by a row that was refused or could not be saved. Every other
step either leaves the total alone (`Unspending`), or is a confirmation, which compares
before it saves; what the recovery saves comes with a new attempt (`RecoverySpends`).

Assumptions: `ShapeAssumption` (the workflow is finite, a row has a cap),
`PolicyAssumption` (what `validatePolicy` enforces), `ReserveAssumption` (how
`executeEvm` computes the reserve), `BoundAssumption`. TLC evaluates them in
every run.

What the file says of the chains and of the session (`CallerRunnerLanding`):

* `ConfirmedHasLanded`: `Spec => []ConfirmedLanded`.
* `BroadcastAnnounced`: `Spec => BroadcastIsAnnounced`.
* `NotResubmitted`: `Spec => ConfirmedNotResubmitted`.
* `RecoveryExact`: `Spec => []RecoveryIsExactZero`.
* `OneKeyOneMutation`: `Spec => []KeysNameOneMutation`.

None of the first three follows from the file alone: a file that claims a row is
confirmed is right only because the claim was made while memory, file, program
point and session agreed. `LInv` adds to `IInv` what holds at each await.
`Recorded`, of each record in memory and in the file: a row marked "done" has
landed, a confirmed action has all rows done, the reserve is zero or the step's worst
case, and an observed action lies in the session's past. `Executing`: where an
action is executed the session still waits for that action and step, the rows
before the current one are done, and no record of the step is confirmed.
`Calling`: where the session is called it is still at the step the call names.
And memory equals the file wherever the loop is entered, a mutation is called or a request
is handed to the adapter (`SyncPcs`), which turns what memory says into what is
announced. `Follows` is what the proof needs of the session service: it goes forward,
and never offers an old action's id for another step. With it `NotResubmitted` follows:
a broadcast happens only at an `Executing` program point, for the session's step, of
which nothing was confirmed.

`RecoveryExact` needs `RInv`, which adds what connects the attempts of the records with
those of the transactions. `AttemptsOK`: memory and file agree on every attempt number, no
transaction is of a later attempt, and where a record says "retryable" nothing of its
next attempt was broadcast and the revocation of the one before is the last word
(`Cleared`). `RevokesOK`: a revocation comes after the approval of its attempt, and
an approval after it belongs to a later attempt. Only three steps broadcast and only one
opens an action again, so the proof treats these four; every other step is shown to
be `Quietly`: it leaves attempts alone and opens nothing.

`OneKeyOneMutation` needs `KInv`. `KeysOK`: counter and keys in memory are those of the
file at every step, because each is saved before the next await, and no two actions share a
key. `Told`, of each call the session logged: its key is the one both copies still
hold for that source or output, and the number of hashes it carried is that of the
rows still recorded. `KeyAtHand`: a key in a local variable is either saved for the
very action being told or fresh, and an action being executed was not told yet,
which is why its rows may still change. Crash and restart between the two writes are
then harmless: they leave a counter that is ahead of all keys, never behind.

The sums in the file (`CallerRunnerLedger`):

* `LedgerExact`: `Spec => []ReserveLedger`.
* `SpentHasLanded`: `Spec => []SpendHappened`.

Neither sum can be kept alone. A reserve is given back by the rows that are done and
taken again when a recovered action is opened, so what the total must lose depends on
which rows landed; and a cost is counted when a row becomes done, which is right only
if that row was not counted by an earlier run. `AInv` therefore adds to `KInv`, for memory
and for the file:

* `Balanced`: the total is the sum of what the actions are charged, and only EVM
  actions hold a reserve, every submitted one among them (`Holds`).
* `Spends`: the recorded spend is at most the price of the transactions that landed and that the
  record of their action counts (`Counted`): rows marked done of its present attempt, and
  approval and revocation of the attempts before.
* `Stepped`: a transaction belongs to the step its action's record names.
* `AtRows`: the row at hand was not counted yet ("none" before it is sent, "sent" before it is
  confirmed), and a recovery runs only where no main request was sent. This is what
  excludes counting a row twice after a restart.

Each action that touches a record changes one summand of `Balanced`, and moves at most one row
into `Counted`, whose receipt `LInv` and `RInv` find on chain.

The sums are folds of the community modules, a `CHOOSE` of a recursive function, which the
provers cannot unfold by themselves. The module's first part proves what they add up to
by a smallest counterexample: the strict subset order on a finite set is well-founded, so
among the subsets on which two foldings differ, or for which no folding exists, there is a
smallest, and one unfolding contradicts it. From `SumPick` follow `SumRemove` (any element may
be taken first), `SumChange` (one summand changed) and `SumMonotone`.

Besides the assumptions above the proofs use that a Solana step has one
transaction (in `ShapeAssumption`).

Only model-checked: `RunTerminates` (liveness is out of the prover's reach).

### The adapter

For every set of operations and windows, every confirmation depth and any number
of crashes, reorganisations and foreign transactions (`WalletAdapterProofs`), when
the adapter is used as it has to be (`Usage`: a durable store, one call at a time).
`adapter_concurrent` shows that the second condition cannot be dropped. Nor can the
first: with `Durable = FALSE`, the default memory store, a restart forgets the
operation and `OneTransaction` fails in the same instance. The theorems:

* `TypeCorrect`: `Spec => []TypeOK`.
* `AtMostOnce`: `Spec => []OneTransaction`.
* `ConfirmationFinal`: `Spec => []ConfirmedIsFinal`.
* `ImplementsPromise`: `Spec => Idempotent`, the refinement.
* `ToldIsKept`: `Spec => []ToldStaysConfirmable`.

The invariant `IInv` has three parts about the world and the store and one about
each call. `ChainOK`: block ids grow along the chain, so an id is at one height.
`StoreOK`: each transaction of an operation has the slot its record has, each
submitted record has a transaction, each confirmed one a `Fixed` one. `CallOK`:
what a call knows at each await. A call between its look-up and its write knows
that there is no record; a call that saw a receipt knows the block's height *if the
block is still canonical*; after reading the chain's height it knows that such a
block is `Settled`; and the second receipt says that it is canonical. This is why
`confirmEvm` reads the receipt twice. `Kept` says what no step may undo (a
settled block, a fixed transaction, a transaction in the network); it is proved
once per step of the chains, `Reorg` being the case that needs
`ReorgDepth < Depth`, and carries `StoreOK` and `CallOK` across (`CallKept`,
`StoreKept`). The refinement then needs only the steps that touch store or
network one by one; the others are `AInclude` steps (`QuietStep`). `ToldIsKept` needs one fact
more (`ToldInv`): a call between `Submit` and the write of the hash carries the record of its
own window.

Assumptions: `ShapeAssumption`, `DepthAssumption` (the range the constructor
accepts), `ReorgAssumption`, `NameAssumption`.

Only model-checked: `ConfirmationEnds` (liveness).

### The command line tools

For any quotes, wallets, tool processes, clock, time limits and answers of the service
(`CallerSessionProofs`):

* `TypeCorrect`: `Spec => []TypeOK`.
* `SessionsAreRecoverable`: `Spec => []SavedIsRecoverable`.
* `FileIsBoundFirst`: `Spec => BoundBeforeHandoff`.
* `RouteKeepsApproval`: `Spec => []ApprovedBounds`.
* `RouteCarriesOutput`: `Spec => []NextSpendsOutput`.
* `HandoffsAreFresh`: `Spec => FreshWhenHandedOff`.
* `HonestServiceIsAccepted`: `RoutesJoin` implies `Spec => []HonestIsAccepted`.

`SavedIsRecoverable` relates the service's sessions and the file; what carries it is the
processes between them. `IInv` says of a process whose token is saved that the file
holds its token and context, of one whose token is not that no file has its token, of a
reply to a creation that it names the session of that token, and of two sessions that
their approvals have different keys. So there is at most one session the file can name. The two
money theorems rest on `Within` and `Funded`: what the wallet was given or has done at a
step, and which executed step, and which told output, a later step's input came from. `Grown` says what no step takes back
(tokens, sessions, receipts, a written file); one lemma carries each part of the invariant
across a step that only grows, so each action is left with the part it changes.
`HonestIsAccepted` is the composition of bounds over several steps: a session's input is at
least the minimum of the step by the summary's chain of minima, so its action passes
both checks. Its hypothesis `RoutesJoin` (a quote's steps join and their tokens are
known to the package) is what the honest service owes; the quotes of `MCSession` satisfy it.

Assumptions: `SessionAssumption`, `QuotesAssumption` (amounts are integers),
`NoneAssumption` (no file is not a file), `RulesAssumption`.

### The evidence verifier

For any list of chains and hosts, releases, keys, time limit and publisher
(`EvidenceVerifierProofs`): `TypeCorrect` (`TypeOK`), `LiveReportsAreAttested`
(`LiveIsAttested`), `ReportsAreOfOneRelease` (`OneRelease`), `ReportsAreFresh`
(`StaleByOneRun`) and `NoFalseAlarm` (`AcceptedIsVerified`).

`IInv` says what a run knows in each phase: the manifest was valid when it started, the
bundle is the manifest's, the rows are those of the chains already asked and each of them
`Attested`. Between two answers of one chain it says that each answer agrees with the
bundle and that at most one host lied: then of two agreeing hosts one is truthful,
which is the whole argument for the quorum. `InBudget` counts the requests already made, and
gives `StaleByOneRun` for any number of chains. `CalmOK` is the other direction: as long
as nothing went wrong the run works on what is published, so it cannot fail.

Assumptions: `VerifierAssumption`, `SerialAssumption` (the bundle's hash, here its serial,
identifies a release), `ProvidersAssumption`, and `FaultAssumption` (at most one lying
host per chain; with two of two, the report may be false).

Only model-checked: `RunEnds` (liveness).

### The remote doors

For any callers, requests, time limits and lifetimes (`RemoteAdapterProofs`):
`TypeCorrect` (`TypeOK`), `HandoffsAreApproved` (`HandoffIsApproved`),
`RefusalsAreHarmless` (`RefusedIsHarmless`) and `OneSession` (`OneSessionPerApproval`).

`IInv` says that every waiting call holds an admitted request, also where the caller
has given up and the request is still on its way, that a session is what an admitted
creation asked for (`AskedFor`), and that sessions differ in their keys. The answer of the
service may be anything of the forms it has. `HandoffIsApproved` then rests on what
`Accepted` compares (`BoundsVerified` and its neighbours): whatever passes keeps to the approval.

Assumptions: `RemoteAssumption`, `RulesAssumption`. Only model-checked: `Answered` (liveness).

### The read-only doors

For any readings, jobs, releases, lies, kills and rollouts (`QuoteReadersProofs`):
`TypeCorrect` (`TypeOK`), `FilesAreKept` (`ClaimedIsKept`), `TellingIsTrue`
(`ToldIsTrue`), `CapabilitiesOfOneRelease` (`VerifiedIsOfOneRelease`) and
`HonestQuotesAreTold` (`HonestQuoteTold`).

`IInv` says what each reading is waiting for, what it holds and which checks that has
passed (`StageOK`), and that whoever has linked its quote file finds it at the path. The
rest are facts about the rules: `ValidIsWay` (a summary that is valid for a route's
plan is a way of that route, with the guard of half a percent over all of it), that each
validator accepts only such quotes and accepts every honest one in time, and that the
fields the doors check tell releases apart. The plans themselves are data: what is used of
them is `PlansAreWays`, which TLC evaluates for every route, and which cannot be proved
without unfolding a hundred of them.

Two theorems have a hypothesis. `CapabilitiesOfOneRelease` assumes `ToldApart`: the
service's releases do not include the 76-route one, nor both the 54- and the 80-route one.
This is no convenience but where the code stops telling releases apart: a 76-route
document is accepted with the policy of another release (`economic-guidance-policy.js`
has none of its own), and package floor 1.13.0 belongs to both the others
(`economic-guidance-policy.js:138-158`). `MCReaders` has three releases that satisfy it.
`HonestQuotesAreTold` assumes `EvaluatedArePublic`: `route-eval` is asked for routes that
exist; it has no gate of its own for them.

Assumptions: `ReadersAssumption`, `JobsAssumption` (what the doors' schemas admit),
`NoneAssumption`, `PlansAreWays`. Only model-checked: `ReadingEnds` (liveness).

## 6. Not modelled

* Two runner processes over one state file; the reload of a state file edited by hand.
* Two processes writing one operation store file; gas, fee and rent arithmetic;
  the time between the window check and the wallet's prompt.
* The validators' field checks, hashing and canonical forms, file modes, the
  decoding of payloads against pinned addresses: a document is bound or it is not.
* Capability files of version 1, which carry no verification context: `plan` writes version 2
  only (`scripts/plan.mjs:421`), and `session` refuses a version 1 file as soon as there is a
  current action (`scripts/session.mjs:88`, `:116`).
* The legacy v1 tools of the MCP server, which pass an answer on unchecked, and its
  static server card; the agent card and the task bookkeeping of the A2A library;
  the frameworks that host the integrations.
* The runner's read-only preflight, printed results, progress events.
* The command line wrappers, the adapter conformance script, the first call script, trust root
  and entry point helper: they keep no state and decide nothing the models tell apart.
* Workflows, self-tests, schemas, skills, examples and recorded evidence.

## 7. Plan

1. To prove next: every safety property a passing run checks is proved. Left are facts about the
   models that no run states yet: that the runner implements an abstract budget (reserve,
   spend, settle) as the adapter implements `IdempotentSubmission`, and that the two
   doors' rules for quotes agree for every plan.
2. To model next: two runners on one state file and one operation store; several Solana steps against the adapter's fee quotes.
3. Runs stay within some million states and three minutes; each new module gets a cfg
   whose bounds make its caps bind.
