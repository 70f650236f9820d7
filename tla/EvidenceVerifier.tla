-------------------------- MODULE EvidenceVerifier --------------------------
(***************************************************************************)
(* scripts/assetfare-verify.mjs: one run of the verifier against a         *)
(* publisher that may put out another release meanwhile, a repository of   *)
(* public evidence and the RPC hosts of every pinned chain.  A release is  *)
(* a signed manifest and its safety bundle; all contracts of a chain are   *)
(* one fact.                                                               *)
(***************************************************************************)
EXTENDS Naturals, Sequences, FiniteSets

CONSTANTS
  None,
  Kept,       \* the pinned chains an instance looks at
  Releases,   \* the releases the publisher may serve
  Keys,       \* the signing keys, the pinned one among them
  PinnedKey,
  Timeout,    \* REQUEST_TIMEOUT_MS, in ticks
  MaxFaulty,  \* bound: the hosts of one chain that do not answer honestly
  MaxPublish, \* bound: what the publisher changes during a run
  MaxTime

ASSUME VerifierAssumption ==
  /\ Timeout \in Nat \ {0} /\ {MaxTime, MaxPublish} \subseteq Nat /\ PinnedKey \in Keys

\* The serial stands for the hash of the bundle, which tells releases apart.
ASSUME SerialAssumption == \A a, b \in Releases : a.serial = b.serial => a = b

\* A quorum of two hosts bears one that lies.
ASSUME FaultAssumption == MaxFaulty \in {0, 1}

VARIABLES now, served, published, calm, run
vars == <<now, served, published, calm, run>>

\* The chains in the order RPC_PROVIDERS lists them.
RpcProviders ==
  SelectSeq(<<"arbitrum", "base", "ethereum", "hyperevm", "optimism", "polygon",
              "robinhood", "sei", "sonic", "xlayer", "monad", "avalanche", "cronos",
              "injective", "linea", "unichain", "ink">>, LAMBDA c : c \in Kept)
\* What SelectSeq returns, which only induction could prove.
ASSUME ProvidersAssumption == RpcProviders \in Seq(Kept)

\* The hosts pinned for a chain, and what each is asked for.
Hosts(c) == IF c = "injective" THEN 1 .. 3 ELSE 1 .. 2
CodeOnly(c) == c = "sei"
ChecksChainId(c, h) == ~(c = "injective" /\ h = 3)
\* mutant: every host of a chain that has receipts is asked for them
ChecksReceiptEverywhere(c, h) == ~CodeOnly(c)
ChecksReceipt(c, h) == ~CodeOnly(c) /\ ~(c = "injective" /\ h = 2)

\* The five deployment scopes a bundle may claim, and their chains.
UnichainInk == {"unichain", "ink"}
PublicExpansion == {"monad", "avalanche", "cronos", "injective", "linea"} \union UnichainInk
Candidates == {"xlayer", "sei", "sonic"} \union PublicExpansion
ScopeChains ==
  [target |-> Kept, pre_unichain_ink |-> Kept \ UnichainInk,
   previous_target |-> Kept \ PublicExpansion, expanded |-> Kept \ Candidates,
   legacy |-> Kept \ ({"ethereum", "hyperevm"} \union Candidates)]

(***************************************************************************)
(* What the run checks.                                                    *)
(***************************************************************************)
\* validateManifest: schema, window, pinned key id, signature and policy.
ValidManifest(m, key, keyId, at) ==
  /\ m.wellformed
  /\ m.issued < m.until /\ at < m.until
  /\ m.keyId = keyId /\ m.signer = key

\* mutant: the bundle only has to be of the manifest's commit
ValidBundleOfCommit(b, m) ==
  b.wellformed /\ b.commit = m.commit /\ b.scope \in DOMAIN ScopeChains
\* validateBundle: the bundle is the one whose hash was signed (the serial stands
\* for it), of the same commit and of an accepted scope.
ValidBundle(b, m) ==
  /\ b.wellformed
  /\ b.serial = m.serial
  /\ b.commit = m.commit
  /\ b.scope \in DOMAIN ScopeChains

\* What the signed bundle says of the chain's deployments.
Claimed(b, c, fact) == IF b.wrong = <<c, fact>> THEN "other" ELSE "deployed"

\* mutant: the hosts are compared with each other only
AgreesAnyway(b, c, h, a) == (ChecksChainId(c, h) => a.id = "pinned") /\ a.code # "none"
\* rpcRead: a host's answers are those the bundle says, or the run fails.
Agrees(b, c, h, a) ==
  /\ ChecksChainId(c, h) => a.id = "pinned"
  /\ a.code # "none" /\ a.code = Claimed(b, c, "code")
  /\ ChecksReceipt(c, h) => a.receipt = Claimed(b, c, "receipt")

\* verifyRpcQuorum: two hosts checked the chain id and two the receipt, and all
\* say the same.
Quorum(c, answers) ==
  LET ids == {h \in Hosts(c) : ChecksChainId(c, h)}
      receipts == {h \in Hosts(c) : ChecksReceipt(c, h)}
  IN  /\ Cardinality(ids) >= 2
      /\ CodeOnly(c) \/ Cardinality(receipts) >= 2
      /\ \A g, h \in Hosts(c) : answers[g].code = answers[h].code
      /\ \A g, h \in receipts : answers[g].receipt = answers[h].receipt
Row(c) ==
  [chain |-> c, ids |-> Cardinality({h \in Hosts(c) : ChecksChainId(c, h)}),
   codes |-> Cardinality(Hosts(c)),
   receipts |-> Cardinality({h \in Hosts(c) : ChecksReceipt(c, h)})]

(***************************************************************************)
(* The run.                                                                *)
(***************************************************************************)
Waiting == {"manifest", "bundle", "files", "scripts", "rpc"}
NewRun == [mode |-> None, phase |-> "idle", start |-> 0, asked |-> 0, manifest |-> None,
           bundle |-> None, answers |-> <<>>, rows |-> <<>>, at |-> 0]

\* parseArgs.
ArgumentsValid(mode, given) ==
  /\ mode \in {"live", "offline"}
  /\ mode = "live" => given = {}
  /\ mode = "offline" => given = {"manifest", "bundle", "pubkey"}

Failed(r) == [r EXCEPT !.phase = "failed", !.at = now]
\* mutant: the requests share the signal made when the program was loaded
AskOnce(r, phase) == [r EXCEPT !.phase = phase]
\* A request gets a time limit of its own.
Ask(r, phase) == [r EXCEPT !.phase = phase, !.asked = now]

\* verifyRpcQuorum takes the pinned chains in turn, whatever the bundle's scope: a
\* chain the scope leaves out has no record, and rpcRead fails on it.
AskChain(r) ==
  IF Len(r.rows) = Len(RpcProviders) THEN [r EXCEPT !.phase = "live_verified", !.at = now]
  ELSE LET c == RpcProviders[Len(r.rows) + 1]
       IN  IF c \notin ScopeChains[r.bundle.scope] THEN Failed(r)
           ELSE [Ask(r, "rpc") EXCEPT !.answers = [h \in Hosts(c) |-> None]]
Chain(r) == RpcProviders[Len(r.rows) + 1]

\* fetchCanonicalJson and fetchEvidenceBytes: anything but a direct, typed, bounded
\* and well-formed answer in time fails the run.
Transport == {"ok", "network", "redirect", "http", "mime", "oversize", "invalid"}
Fetched(transport) == transport = "ok"

\* mutant: the reads of the chains carry no signal
LimitBeforeRpc(phase) == IF phase = "rpc" THEN MaxTime ELSE Timeout
\* The signal each request carries; the body is read under it too.
Limit(phase) == Timeout

\* The seconds of a run are bounded by its requests, one after the other.
Stages == 4 + Len(RpcProviders)

\* bound: the instance's clock outlasts the run.
EarlyEnough == now + Timeout * Stages <= MaxTime

StartLive(mode, given) ==
  /\ run.phase = "idle" /\ EarlyEnough
  /\ LET r == [run EXCEPT !.mode = mode, !.start = now]
     IN  run' = IF ArgumentsValid(mode, given) THEN Ask(r, "manifest")
               ELSE [r EXCEPT !.phase = "refused"]
  /\ UNCHANGED <<now, served, published, calm>>

\* The offline run reads three files and uses the given key, whatever its id.
StartOffline(given, m, b, key) ==
  /\ run.phase = "idle" /\ EarlyEnough
  /\ LET r == [run EXCEPT !.mode = "offline", !.start = now, !.manifest = m, !.bundle = b]
     IN  run' = IF ~ArgumentsValid("offline", given) THEN [r EXCEPT !.phase = "refused"]
                ELSE IF ValidManifest(m, key, m.keyId, now) /\ ValidBundle(b, m)
                THEN [r EXCEPT !.phase = "offline_evidence_verified", !.at = now]
                ELSE Failed(r)
  /\ UNCHANGED <<now, served, published, calm>>

InTime == now - run.asked <= Limit(run.phase)

\* A request is answered and the run goes on to the next.
GetManifest(transport) ==
  /\ run.phase = "manifest" /\ InTime
  /\ LET m == served.manifest
         ok == Fetched(transport) /\ ValidManifest(m, PinnedKey, PinnedKey, run.start)
     IN  run' = IF ok THEN [Ask(run, "bundle") EXCEPT !.manifest = m] ELSE Failed(run)
  /\ calm' = (calm /\ Fetched(transport))
  /\ UNCHANGED <<now, served, published>>

GetBundle(transport) ==
  /\ run.phase = "bundle" /\ InTime
  /\ LET b == served.bundle
     IN  run' = IF Fetched(transport) /\ ValidBundle(b, run.manifest)
                THEN [Ask(run, "files") EXCEPT !.bundle = b] ELSE Failed(run)
  /\ calm' = (calm /\ Fetched(transport))
  /\ UNCHANGED <<now, served, published>>

\* verifyPublicEvidence: sources, artifacts and the lock file are compared with the
\* bundle's hashes; the scripts are only hashed.
GetFiles(transport, matching) ==
  /\ run.phase = "files" /\ InTime
  /\ run' = IF Fetched(transport) /\ matching THEN Ask(run, "scripts") ELSE Failed(run)
  /\ calm' = (calm /\ Fetched(transport) /\ matching)
  /\ UNCHANGED <<now, served, published>>
GetScripts(transport) ==
  /\ run.phase = "scripts" /\ InTime
  /\ run' = IF Fetched(transport) THEN AskChain(run) ELSE Failed(run)
  /\ calm' = (calm /\ Fetched(transport))
  /\ UNCHANGED <<now, served, published>>

\* What the hosts say: the truth as far as they keep it, what the bundle claims
\* whatever the chain holds, another chain's answers, no code, or a broken answer.
Honest(c, h) ==
  [id |-> IF c = "injective" /\ h = 3 THEN "none" ELSE "pinned", code |-> "deployed",
   receipt |-> IF c = "sei" \/ (c = "injective" /\ h = 2) THEN "none" ELSE "deployed"]
Dishonest(b, c, h) ==
  {[id |-> "pinned", code |-> Claimed(b, c, "code"), receipt |-> Claimed(b, c, "receipt")],
   [Honest(c, h) EXCEPT !.id = "other"], [Honest(c, h) EXCEPT !.code = "none"]}
Faulty(c) == {h \in Hosts(c) : run.answers[h] \notin {None, Honest(c, h)}}

\* One host of the chain has answered everything it was asked; the hosts are asked
\* together, and the first to fail fails the run.
HostAnswers(h, transport, a) ==
  LET c == Chain(run)
      r == [run EXCEPT !.answers[h] = a]
  IN  /\ InTime /\ run.answers[h] = None
      /\ a # Honest(c, h) => Cardinality(Faulty(c)) < MaxFaulty
      /\ run' = IF ~Fetched(transport) \/ ~Agrees(run.bundle, c, h, a) THEN Failed(run)
                ELSE IF \E g \in Hosts(c) : r.answers[g] = None THEN r
                ELSE IF Quorum(c, r.answers)
                THEN AskChain([r EXCEPT !.answers = <<>>, !.rows = Append(@, Row(c))])
                ELSE Failed(run)
      /\ calm' = (calm /\ Fetched(transport) /\ a = Honest(c, h))
      /\ UNCHANGED <<now, served, published>>
HostAnswer ==
  /\ run.phase = "rpc"
  /\ \E h \in Hosts(Chain(run)), transport \in Transport :
       \E a \in {Honest(Chain(run), h)} \union Dishonest(run.bundle, Chain(run), h) :
         HostAnswers(h, transport, a)

\* AbortSignal.timeout: a request without an answer fails the run.
TimeOut ==
  /\ run.phase \in Waiting /\ now - run.asked >= Limit(run.phase)
  /\ run' = Failed(run) /\ calm' = FALSE
  /\ UNCHANGED <<now, served, published>>

(***************************************************************************)
(* The publisher, and time.                                                *)
(***************************************************************************)
Publish(part, release) ==
  /\ published < MaxPublish /\ served[part] # release
  /\ served' = [served EXCEPT ![part] = release]
  /\ published' = published + 1
  /\ calm' = (calm /\ run.phase = "idle" /\ served'.manifest = served'.bundle)
  /\ UNCHANGED <<now, run>>

Tick ==
  /\ now < MaxTime
  /\ run.phase \in Waiting => now - run.asked < Limit(run.phase)
  /\ now' = now + 1
  /\ UNCHANGED <<served, published, calm, run>>

Init ==
  /\ now = 0 /\ published = 0 /\ calm = TRUE /\ run = NewRun
  /\ served \in [manifest : Releases, bundle : Releases]
  /\ served.manifest = served.bundle

Overrides == SUBSET {"manifest", "bundle", "pubkey"}
Get ==
  \/ \E transport \in Transport :
       GetManifest(transport) \/ GetBundle(transport) \/ GetScripts(transport)
  \/ \E transport \in Transport, matching \in BOOLEAN : GetFiles(transport, matching)
Start ==
  \/ \E mode \in {None, "live"}, given \in Overrides : StartLive(mode, given)
  \/ \E given \in Overrides, m, b \in Releases, key \in Keys : StartOffline(given, m, b, key)
Next ==
  \/ Start \/ Get \/ HostAnswer \/ TimeOut \/ Tick
  \/ \E part \in {"manifest", "bundle"}, release \in Releases : Publish(part, release)

\* Time passes and the runtime serves its timers.
Spec == Init /\ [][Next]_vars /\ WF_vars(Tick) /\ WF_vars(TimeOut)
=============================================================================
