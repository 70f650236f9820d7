----------------------- MODULE EvidenceVerifierProofs -----------------------
(***************************************************************************)
(* Proofs about the verifier: for any chains, releases, keys, time limit   *)
(* and publisher, with at most one host of a chain that lies.              *)
(***************************************************************************)
EXTENDS EvidenceVerifierProperties, FiniteSetTheorems, TLAPS

(*---------------------------- the inductive invariant ----------------------------*)
Fields == {"mode", "phase", "start", "asked", "manifest", "bundle", "answers", "rows", "at"}
Phases == Waiting \union
  {"idle", "refused", "failed", "live_verified", "offline_evidence_verified"}
HasManifest == {"bundle", "files", "scripts", "rpc", "live_verified"}
HasBundle   == {"files", "scripts", "rpc", "live_verified"}
Rows == {Row(c) : c \in Kept}

\* The time a run has spent when it sends the request of its phase, or is through.
InBudget(r) ==
  /\ r.start \in Nat /\ r.asked \in Nat /\ r.at \in Nat
  /\ r.phase \in Waiting => r.start <= r.asked
  /\ r.phase = "manifest" => r.asked <= r.start
  /\ r.phase = "bundle"   => r.asked <= r.start + Timeout
  /\ r.phase = "files"    => r.asked <= r.start + Timeout * 2
  /\ r.phase = "scripts"  => r.asked <= r.start + Timeout * 3
  /\ r.phase = "rpc"      => r.asked <= r.start + Timeout * (4 + Len(r.rows))
  /\ r.phase = "live_verified" => r.at <= r.start + Timeout * (4 + Len(r.rows))

\* What a signed bundle says of a chain is so, where the chain's row counts it.
Attested(b, c) ==
  /\ Claimed(b, c, "code") = "deployed"
  /\ Row(c).receipts > 0 => Claimed(b, c, "receipt") = "deployed"
RowsSound(r) ==
  /\ r.rows \in Seq(Rows) /\ Len(r.rows) <= Len(RpcProviders)
  /\ \A i \in DOMAIN r.rows : r.rows[i] = Row(RpcProviders[i]) /\ Attested(r.bundle, RpcProviders[i])
RowsOK(r) ==
  /\ RowsSound(r)
  /\ r.phase \in {"idle", "manifest", "bundle", "files", "scripts"} => r.rows = <<>>
  /\ r.phase = "rpc" => Len(r.rows) < Len(RpcProviders)
  /\ r.phase = "live_verified" => Len(r.rows) = Len(RpcProviders)

\* Each answer kept agrees with the bundle, and one host of the chain lies at most.
Answers(c) ==
  [Hosts(c) -> {None} \union [id : {"pinned", "none", "other"}, code : {"deployed", "other"},
                              receipt : {"deployed", "none", "other"}]]
Lies(r, c, h) == r.answers[h] \notin {None, Honest(c, h)}
AnswersOK(r, c) ==
  /\ r.answers \in Answers(c)
  /\ \A h \in Hosts(c) : r.answers[h] # None => Agrees(r.bundle, c, h, r.answers[h])
  /\ \A g, h \in Hosts(c) : Lies(r, c, g) /\ Lies(r, c, h) => g = h

EvidenceOK(r) ==
  /\ r.phase \in HasManifest =>
       r.manifest \in Releases /\ ValidManifest(r.manifest, PinnedKey, PinnedKey, r.start)
  /\ r.phase \in HasBundle => r.bundle \in Releases /\ ValidBundle(r.bundle, r.manifest)
  /\ r.phase = "offline_evidence_verified" =>
       r.manifest \in Releases /\ r.bundle \in Releases /\ ValidBundle(r.bundle, r.manifest)

RunOK(r) ==
  /\ DOMAIN r = Fields /\ r.phase \in Phases
  /\ InBudget(r) /\ RowsOK(r) /\ EvidenceOK(r)
  /\ r.phase = "rpc" => AnswersOK(r, Chain(r))

\* Nothing has gone wrong in a calm run, and it works on what the publisher serves.
CalmOK ==
  /\ served.manifest = served.bundle
  /\ run.phase \in {"bundle", "files", "scripts", "rpc"} => run.manifest = served.manifest
  /\ run.phase \in {"files", "scripts", "rpc"} => run.bundle = served.bundle
  /\ run.phase = "rpc" =>
       \A h \in Hosts(Chain(run)) : run.answers[h] \in {None, Honest(Chain(run), h)}
  /\ run.mode = "live" /\ run.phase = "failed" => ~TrueClaims \/ ~Current

IInv ==
  /\ now \in 0 .. MaxTime /\ published \in 0 .. MaxPublish /\ calm \in BOOLEAN
  /\ served \in [manifest : Releases, bundle : Releases]
  /\ RunOK(run)
  /\ run.phase \in Waiting => run.asked <= now /\ now <= run.asked + Timeout
  /\ calm => CalmOK

(*------------------------------ hosts and claims ----------------------------*)
LEMMA TwoHosts ==
  ASSUME NEW c
  PROVE  1 \in Hosts(c) /\ 2 \in Hosts(c) /\ IsFiniteSet(Hosts(c)) /\ Hosts(c) \subseteq Nat
<1>1. IsFiniteSet(1 .. 2) /\ IsFiniteSet(1 .. 3)
  <2>1. 1 \in Int /\ 2 \in Int /\ 3 \in Int
    OBVIOUS
  <2> QED BY <2>1, FS_Interval
<1> QED BY <1>1 DEF Hosts

\* A chain whose receipts count has two hosts that are asked for them.
LEMMA TwoReceiptHosts ==
  ASSUME NEW c, Row(c).receipts > 0
  PROVE  \E g, h \in Hosts(c) : g # h /\ ChecksReceipt(c, g) /\ ChecksReceipt(c, h)
<1>1. ~CodeOnly(c)
  <2> SUFFICES ASSUME CodeOnly(c) PROVE FALSE
    OBVIOUS
  <2>1. {h \in Hosts(c) : ChecksReceipt(c, h)} = {}
    BY DEF ChecksReceipt
  <2>2. Row(c).receipts = 0
    BY <2>1, FS_EmptySet DEF Row
  <2> QED BY <2>2
<1>2. CASE c = "injective"
  BY <1>1, <1>2 DEF Hosts, ChecksReceipt
<1>3. CASE c # "injective"
  BY <1>1, <1>3 DEF Hosts, ChecksReceipt
<1> QED BY <1>2, <1>3

\* With at most one host that lies, hosts that all agree with the bundle attest it.
LEMMA QuorumAttests ==
  ASSUME NEW r, NEW c, AnswersOK(r, c), \A h \in Hosts(c) : r.answers[h] # None
  PROVE  Attested(r.bundle, c)
<1>1. \A h \in Hosts(c) : Agrees(r.bundle, c, h, r.answers[h])
  BY DEF AnswersOK
<1>2. \A g, h \in Hosts(c) : g # h => r.answers[g] = Honest(c, g) \/ r.answers[h] = Honest(c, h)
  BY DEF AnswersOK, Lies
<1>3. Claimed(r.bundle, c, "code") = "deployed"
  <2>1. r.answers[1] = Honest(c, 1) \/ r.answers[2] = Honest(c, 2)
    BY <1>2, TwoHosts
  <2>2. \A h \in Hosts(c) : r.answers[h].code = Claimed(r.bundle, c, "code")
    BY <1>1 DEF Agrees
  <2>3. \A h : Honest(c, h).code = "deployed"
    BY DEF Honest
  <2> QED BY <2>1, <2>2, <2>3, TwoHosts
<1>4. ASSUME Row(c).receipts > 0
      PROVE  Claimed(r.bundle, c, "receipt") = "deployed"
  <2>1. PICK g, h \in Hosts(c) : g # h /\ ChecksReceipt(c, g) /\ ChecksReceipt(c, h)
    BY <1>4, TwoReceiptHosts
  <2>2. /\ r.answers[g].receipt = Claimed(r.bundle, c, "receipt")
        /\ r.answers[h].receipt = Claimed(r.bundle, c, "receipt")
    BY <1>1, <2>1 DEF Agrees
  <2>3. Honest(c, g).receipt = "deployed" /\ Honest(c, h).receipt = "deployed"
    BY <2>1 DEF Honest, ChecksReceipt, CodeOnly
  <2> QED BY <1>2, <2>1, <2>2, <2>3
<1> QED BY <1>3, <1>4 DEF Attested

\* Truthful answers agree with true claims, and make a quorum.
LEMMA TruthAgrees ==
  ASSUME NEW b, NEW c, NEW h,
         \A fact \in {"code", "receipt"} : Claimed(b, c, fact) = "deployed"
  PROVE  Agrees(b, c, h, Honest(c, h))
<1>1. Honest(c, h).code = "deployed"
  BY DEF Honest
<1>2. ChecksReceipt(c, h) => Honest(c, h).receipt = "deployed"
  BY DEF Honest, ChecksReceipt, CodeOnly
<1>3. ChecksChainId(c, h) => Honest(c, h).id = "pinned"
  BY DEF Honest, ChecksChainId
<1> QED BY <1>1, <1>2, <1>3 DEF Agrees

LEMMA PairOf ==
  ASSUME NEW S, IsFiniteSet(S), NEW g \in S, NEW h \in S, g # h
  PROVE  Cardinality(S) >= 2
<1>1. IsFiniteSet({g, h}) /\ Cardinality({g, h}) = 2
  <2>1. IsFiniteSet({g}) /\ Cardinality({g}) = 1
    BY FS_Singleton
  <2>2. IsFiniteSet({g} \union {h}) /\ Cardinality({g} \union {h}) = 2
    BY <2>1, FS_AddElement
  <2>3. {g, h} = {g} \union {h}
    OBVIOUS
  <2> QED BY <2>2, <2>3
<1>2. Cardinality({g, h}) <= Cardinality(S)
  BY FS_Subset
<1>3. Cardinality(S) \in Nat
  BY FS_CardinalityType
<1> QED BY <1>1, <1>2, <1>3

LEMMA TruthIsQuorum ==
  ASSUME NEW c, NEW answers, \A h \in Hosts(c) : answers[h] = Honest(c, h)
  PROVE  Quorum(c, answers)
<1> DEFINE ids == {h \in Hosts(c) : ChecksChainId(c, h)}
           receipts == {h \in Hosts(c) : ChecksReceipt(c, h)}
<1>1. Cardinality(ids) >= 2
  <2>1. IsFiniteSet(ids)
    BY TwoHosts, FS_Subset
  <2>2. 1 \in ids /\ 2 \in ids
    BY TwoHosts DEF ChecksChainId
  <2> QED BY <2>1, <2>2, PairOf
<1>2. CodeOnly(c) \/ Cardinality(receipts) >= 2
  <2> SUFFICES ASSUME ~CodeOnly(c) PROVE Cardinality(receipts) >= 2
    OBVIOUS
  <2>1. IsFiniteSet(receipts)
    BY TwoHosts, FS_Subset
  <2>2. CASE c = "injective"
    <3>1. 1 \in receipts /\ 3 \in receipts
      BY <2>2 DEF Hosts, ChecksReceipt, CodeOnly
    <3> QED BY <2>1, <3>1, PairOf
  <2>3. CASE c # "injective"
    <3>1. 1 \in receipts /\ 2 \in receipts
      BY <2>3 DEF Hosts, ChecksReceipt
    <3> QED BY <2>1, <3>1, PairOf
  <2> QED BY <2>2, <2>3
<1>3. \A g, h \in Hosts(c) : answers[g].code = answers[h].code
  <2>1. \A h : Honest(c, h).code = "deployed"
    BY DEF Honest
  <2> QED BY <2>1
<1>4. \A g, h \in receipts : answers[g].receipt = answers[h].receipt
  <2>1. \A h : ChecksReceipt(c, h) => Honest(c, h).receipt = "deployed"
    BY DEF Honest, ChecksReceipt, CodeOnly
  <2> QED BY <2>1
<1> QED BY <1>1, <1>2, <1>3, <1>4 DEF Quorum

(*--------------------------------- the run -------------------------------*)
LEMMA FailedOK ==
  ASSUME NEW r, now \in Nat, DOMAIN r = Fields, r.start \in Nat, r.asked \in Nat, RowsSound(r)
  PROVE  /\ RunOK(Failed(r)) /\ Failed(r).phase = "failed"
         /\ Failed(r).start = r.start /\ Failed(r).mode = r.mode
<1> DEFINE f == Failed(r)
<1>1. /\ DOMAIN f = Fields /\ f.phase = "failed" /\ f.at = now
      /\ f.start = r.start /\ f.asked = r.asked /\ f.mode = r.mode
      /\ f.rows = r.rows /\ f.bundle = r.bundle
  BY DEF Failed, Fields
<1> HIDE DEF f
<1>2. InBudget(f)
  BY <1>1 DEF InBudget, Waiting
<1>3. RowsOK(f)
  BY <1>1 DEF RowsOK, RowsSound
<1>4. EvidenceOK(f)
  BY <1>1 DEF EvidenceOK, HasManifest, HasBundle
<1>5. RunOK(f)
  BY <1>1, <1>2, <1>3, <1>4 DEF RunOK, Phases, Waiting
<1> QED BY <1>1, <1>5 DEF f

LEMMA Asks ==
  ASSUME NEW r, NEW phase, DOMAIN r = Fields
  PROVE  LET a == Ask(r, phase)
         IN  /\ DOMAIN a = Fields /\ a.phase = phase /\ a.asked = now /\ a.start = r.start
             /\ a.mode = r.mode /\ a.manifest = r.manifest /\ a.bundle = r.bundle
             /\ a.rows = r.rows /\ a.answers = r.answers /\ a.at = r.at
BY DEF Ask, Fields

\* A run through with its scripts or with a chain, in time and with sound rows.
Through(r) ==
  /\ DOMAIN r = Fields /\ RowsSound(r)
  /\ r.start \in Nat /\ r.asked \in Nat /\ r.at \in Nat
  /\ r.start <= now /\ now <= r.start + Timeout * (4 + Len(r.rows))
  /\ r.manifest \in Releases /\ ValidManifest(r.manifest, PinnedKey, PinnedKey, r.start)
  /\ r.bundle \in Releases /\ ValidBundle(r.bundle, r.manifest)

\* It asks the next chain, or is verified, or fails at a chain its scope leaves out.
LEMMA AskChainOK ==
  ASSUME NEW r, now \in Nat, Through(r)
  PROVE  LET k == AskChain(r)
         IN  /\ RunOK(k) /\ k.start = r.start
             /\ k.phase \in {"rpc", "live_verified", "failed"}
             /\ k.phase = "rpc" => /\ k.asked = now /\ k.bundle = r.bundle
                                   /\ k.manifest = r.manifest
                                   /\ \A h \in Hosts(Chain(k)) : k.answers[h] = None
             /\ k.phase = "failed" => ScopeChains[r.bundle.scope] # Kept
<1> DEFINE k == AskChain(r)
           c == RpcProviders[Len(r.rows) + 1]
           asked == [Ask(r, "rpc") EXCEPT !.answers = [h \in Hosts(c) |-> None]]
           done == [r EXCEPT !.phase = "live_verified", !.at = now]
<1>1. Len(r.rows) \in Nat /\ Len(RpcProviders) \in Nat /\ Len(r.rows) <= Len(RpcProviders)
  BY ProvidersAssumption DEF Through, RowsSound
<1>2. CASE Len(r.rows) = Len(RpcProviders)
  <2>1. k = done
    BY <1>2 DEF AskChain
  <2>2. /\ DOMAIN k = Fields /\ k.phase = "live_verified" /\ k.at = now /\ k.start = r.start
        /\ k.asked = r.asked /\ k.rows = r.rows /\ k.bundle = r.bundle
        /\ k.manifest = r.manifest
    BY <2>1 DEF Through, Fields
  <2> HIDE DEF k
  <2>3. InBudget(k)
    BY <2>2 DEF InBudget, Through, Waiting
  <2>4. RowsOK(k) /\ EvidenceOK(k)
    BY <1>2, <2>2 DEF RowsOK, RowsSound, EvidenceOK, Through, HasManifest, HasBundle
  <2>5. RunOK(k)
    BY <2>2, <2>3, <2>4 DEF RunOK, Phases, Waiting
  <2> QED BY <2>2, <2>5 DEF k
<1>3. CASE Len(r.rows) < Len(RpcProviders) /\ c \notin ScopeChains[r.bundle.scope]
  <2>1. k = Failed(r)
    BY <1>1, <1>3 DEF AskChain
  <2>2. c \in Kept
    BY <1>1, <1>3, ProvidersAssumption
  <2>3. ScopeChains[r.bundle.scope] # Kept
    BY <1>3, <2>2
  <2> QED BY <2>1, <2>3, FailedOK DEF Through
<1>4. CASE Len(r.rows) < Len(RpcProviders) /\ c \in ScopeChains[r.bundle.scope]
  <2>1. k = asked
    BY <1>1, <1>4 DEF AskChain
  <2>2. /\ DOMAIN k = Fields /\ k.phase = "rpc" /\ k.asked = now /\ k.start = r.start
        /\ k.at = r.at /\ k.rows = r.rows /\ k.bundle = r.bundle
        /\ k.manifest = r.manifest /\ k.answers = [h \in Hosts(c) |-> None]
    <3>1. DOMAIN r = Fields
      BY DEF Through
    <3>2. LET a == Ask(r, "rpc")
          IN  /\ DOMAIN a = Fields /\ a.phase = "rpc" /\ a.asked = now /\ a.start = r.start
              /\ a.mode = r.mode /\ a.manifest = r.manifest /\ a.bundle = r.bundle
              /\ a.rows = r.rows /\ a.answers = r.answers /\ a.at = r.at
      BY <3>1, Asks
    <3> QED BY <2>1, <3>1, <3>2 DEF Fields
  <2> HIDE DEF k
  <2>3. InBudget(k)
    BY <2>2 DEF InBudget, Through, Waiting
  <2>4. RowsOK(k) /\ EvidenceOK(k)
    BY <1>4, <2>2 DEF RowsOK, RowsSound, EvidenceOK, Through, HasManifest, HasBundle
  <2>5. Chain(k) = c
    BY <2>2 DEF Chain
  <2>6. AnswersOK(k, c) /\ \A h \in Hosts(c) : k.answers[h] = None
    BY <2>2 DEF AnswersOK, Answers, Lies
  <2>7. RunOK(k)
    BY <2>2, <2>3, <2>4, <2>5, <2>6 DEF RunOK, Phases, Waiting
  <2> QED BY <2>2, <2>5, <2>6, <2>7 DEF k
<1> QED BY <1>1, <1>2, <1>3, <1>4

(*----------------------- one step keeps the invariant ---------------------*)
LEMMA RunStep ==
  ASSUME IInv, RunOK(run'), UNCHANGED <<now, served, published>>, calm' \in BOOLEAN,
         run'.phase \in Waiting =>
           run'.asked = now \/ (run'.asked = run.asked /\ run.phase \in Waiting),
         calm' => CalmOK'
  PROVE  IInv'
<1>1. now \in Nat
  BY VerifierAssumption DEF IInv
<1>2. run'.phase \in Waiting => run'.asked <= now' /\ now' <= run'.asked + Timeout
  BY <1>1, VerifierAssumption DEF IInv
<1> QED BY <1>2 DEF IInv

LEMMA Facts ==
  ASSUME IInv
  PROVE  /\ now \in Nat /\ Timeout \in Nat /\ DOMAIN run = Fields
         /\ run.start \in Nat /\ run.asked \in Nat /\ run.at \in Nat /\ RowsSound(run)
BY VerifierAssumption DEF IInv, RunOK, InBudget, RowsOK

LEMMA StartLiveOK ==
  ASSUME IInv, NEW mode \in {None, "live"}, NEW given, StartLive(mode, given)
  PROVE  IInv'
<1> DEFINE r == [run EXCEPT !.mode = mode, !.start = now]
           refused == [r EXCEPT !.phase = "refused"]
<1>1. now \in Nat /\ DOMAIN run = Fields /\ run.asked \in Nat /\ run.at \in Nat
  BY Facts
<1>2. RowsSound(run) /\ run.rows = <<>> /\ run.phase = "idle"
  BY DEF StartLive, IInv, RunOK, RowsOK
<1>3. /\ DOMAIN r = Fields /\ r.mode = mode /\ r.start = now /\ r.asked = run.asked
      /\ r.rows = run.rows /\ r.bundle = run.bundle /\ r.at = run.at
  BY <1>1 DEF Fields
<1>4. UNCHANGED <<now, served, published, calm>>
  BY DEF StartLive
<1>5. CASE ArgumentsValid(mode, given)
  <2>1. run' = Ask(r, "manifest")
    BY <1>5 DEF StartLive
  <2> HIDE DEF r
  <2>2. /\ DOMAIN run' = Fields /\ run'.phase = "manifest" /\ run'.asked = now
        /\ run'.start = now /\ run'.rows = run.rows
        /\ run'.bundle = run.bundle /\ run'.at = run.at
    BY <1>3, <2>1, Asks
  <2>3. InBudget(run')
    BY <1>1, <2>2 DEF InBudget
  <2>4. RowsOK(run') /\ EvidenceOK(run')
    BY <1>2, <2>2 DEF RowsOK, RowsSound, EvidenceOK, HasManifest, HasBundle
  <2>5. RunOK(run')
    BY <2>2, <2>3, <2>4 DEF RunOK, Phases, Waiting
  <2>6. calm' => CalmOK'
    BY <1>4, <2>2 DEF CalmOK, IInv
  <2> QED BY <1>4, <2>2, <2>5, <2>6, RunStep DEF IInv
<1>6. CASE ~ArgumentsValid(mode, given)
  <2>1. run' = refused
    BY <1>6 DEF StartLive
  <2>2. /\ DOMAIN run' = Fields /\ run'.phase = "refused" /\ run'.rows = run.rows
        /\ run'.start = now /\ run'.asked = run.asked /\ run'.bundle = run.bundle
        /\ run'.at = run.at
    BY <1>3, <2>1 DEF Fields
  <2>3. InBudget(run')
    BY <1>1, <2>2 DEF InBudget, Waiting
  <2>4. RowsOK(run') /\ EvidenceOK(run')
    BY <1>2, <2>2 DEF RowsOK, RowsSound, EvidenceOK, HasManifest, HasBundle
  <2>5. RunOK(run')
    BY <2>2, <2>3, <2>4 DEF RunOK, Phases, Waiting
  <2>6. calm' => CalmOK'
    BY <1>4, <2>2 DEF CalmOK, IInv
  <2> QED BY <1>4, <2>2, <2>5, <2>6, RunStep DEF IInv, Waiting
<1> QED BY <1>5, <1>6

LEMMA StartOfflineOK ==
  ASSUME IInv, NEW given, NEW m \in Releases, NEW b \in Releases, NEW key \in Keys,
         StartOffline(given, m, b, key)
  PROVE  IInv'
<1> DEFINE r == [run EXCEPT !.mode = "offline", !.start = now, !.manifest = m, !.bundle = b]
           refused == [r EXCEPT !.phase = "refused"]
           verified == [r EXCEPT !.phase = "offline_evidence_verified", !.at = now]
<1>1. now \in Nat /\ DOMAIN run = Fields /\ run.asked \in Nat /\ run.at \in Nat
  BY Facts
<1>2. RowsSound(run) /\ run.rows = <<>> /\ run.phase = "idle"
  BY DEF StartOffline, IInv, RunOK, RowsOK
<1>3. /\ DOMAIN r = Fields /\ r.mode = "offline" /\ r.start = now /\ r.asked = run.asked
      /\ r.rows = <<>> /\ r.manifest = m /\ r.bundle = b /\ r.at = run.at
  BY <1>1, <1>2 DEF Fields
<1>4. UNCHANGED <<now, served, published, calm>>
  BY DEF StartOffline
<1>5. \/ run' = refused \/ run' = Failed(r)
      \/ run' = verified /\ ValidBundle(b, m)
  BY DEF StartOffline
<1> HIDE DEF r
<1>6. Failed(r).phase = "failed" /\ Failed(r).mode = "offline"
      /\ DOMAIN Failed(r) = Fields /\ Failed(r).start = now /\ Failed(r).asked = run.asked
      /\ Failed(r).rows = <<>> /\ Failed(r).manifest = m /\ Failed(r).bundle = b
      /\ Failed(r).at = now
  BY <1>3 DEF Failed, Fields
<1>7. /\ DOMAIN run' = Fields /\ run'.mode = "offline" /\ run'.rows = <<>>
      /\ run'.phase \in {"refused", "failed", "offline_evidence_verified"}
      /\ run'.start = now /\ run'.asked = run.asked /\ run'.manifest = m /\ run'.bundle = b
      /\ run'.at \in {now, run.at}
      /\ run'.phase = "offline_evidence_verified" => ValidBundle(b, m)
  BY <1>3, <1>5, <1>6 DEF Fields
<1>8. InBudget(run')
  BY <1>1, <1>7 DEF InBudget, Waiting
<1>9. RowsOK(run') /\ EvidenceOK(run')
  BY <1>2, <1>7 DEF RowsOK, RowsSound, EvidenceOK, HasManifest, HasBundle
<1>10. RunOK(run')
  BY <1>7, <1>8, <1>9 DEF RunOK, Phases, Waiting
<1>11. calm' => CalmOK'
  BY <1>4, <1>7 DEF CalmOK, IInv
<1> QED BY <1>4, <1>7, <1>10, <1>11, RunStep DEF IInv, Waiting

\* What a fetched and accepted manifest and bundle are: of the release that is served.
LEMMA GetManifestOK ==
  ASSUME IInv, NEW transport, GetManifest(transport)
  PROVE  IInv'
<1> DEFINE m == served.manifest
           ok == Fetched(transport) /\ ValidManifest(m, PinnedKey, PinnedKey, run.start)
           next == [Ask(run, "bundle") EXCEPT !.manifest = m]
<1>1. /\ now \in Nat /\ Timeout \in Nat /\ DOMAIN run = Fields /\ RowsSound(run)
      /\ run.start \in Nat /\ run.asked \in Nat /\ run.at \in Nat
  BY Facts
<1>2. /\ run.phase = "manifest" /\ run.rows = <<>>
      /\ run.asked <= run.start /\ run.start <= run.asked
      /\ run.asked <= now /\ now <= run.asked + Timeout
      /\ m \in Releases
  BY DEF GetManifest, IInv, RunOK, RowsOK, InBudget, Waiting
<1>3. UNCHANGED <<now, served, published>> /\ calm' = (calm /\ Fetched(transport))
  BY DEF GetManifest
<1>4. CASE ok
  <2>1. run' = next
    BY <1>4 DEF GetManifest
  <2>2. /\ DOMAIN run' = Fields /\ run'.phase = "bundle" /\ run'.asked = now
        /\ run'.start = run.start /\ run'.rows = <<>>
        /\ run'.manifest = m /\ run'.at = run.at
    <3>1. LET a == Ask(run, "bundle")
          IN  /\ DOMAIN a = Fields /\ a.phase = "bundle" /\ a.asked = now /\ a.start = run.start
              /\ a.mode = run.mode /\ a.manifest = run.manifest /\ a.bundle = run.bundle
              /\ a.rows = run.rows /\ a.answers = run.answers /\ a.at = run.at
      BY <1>1, Asks
    <3> QED BY <1>2, <2>1, <3>1 DEF Fields
  <2>3. InBudget(run')
    BY <1>1, <1>2, <2>2 DEF InBudget
  <2>4. RowsOK(run') /\ EvidenceOK(run')
    BY <1>1, <1>2, <1>4, <2>2 DEF RowsOK, RowsSound, EvidenceOK, HasManifest, HasBundle
  <2>5. RunOK(run')
    BY <2>2, <2>3, <2>4 DEF RunOK, Phases, Waiting
  <2>6. calm' => CalmOK'
    BY <1>3, <2>2 DEF CalmOK, IInv
  <2> QED BY <1>3, <2>2, <2>5, <2>6, RunStep DEF IInv
<1>5. CASE ~ok
  <2>1. run' = Failed(run)
    BY <1>5 DEF GetManifest
  <2>2. RunOK(run') /\ run'.phase = "failed" /\ run'.start = run.start /\ run'.mode = run.mode
    BY <1>1, <2>1, FailedOK
  <2>3. calm' => CalmOK'
    <3> SUFFICES ASSUME calm' PROVE CalmOK'
      OBVIOUS
    <3>1. calm /\ ~ValidManifest(m, PinnedKey, PinnedKey, run.start)
      BY <1>3, <1>5
    <3>2. ~Current'
      BY <1>3, <2>2, <3>1 DEF Current, ValidManifest
    <3> QED BY <1>3, <2>2, <3>1, <3>2 DEF CalmOK, IInv
  <2> QED BY <1>3, <2>2, <2>3, RunStep DEF IInv, Waiting
<1> QED BY <1>4, <1>5

LEMMA GetBundleOK ==
  ASSUME IInv, NEW transport, GetBundle(transport)
  PROVE  IInv'
<1> DEFINE b == served.bundle
           ok == Fetched(transport) /\ ValidBundle(b, run.manifest)
           next == [Ask(run, "files") EXCEPT !.bundle = b]
<1>1. /\ now \in Nat /\ Timeout \in Nat /\ DOMAIN run = Fields /\ RowsSound(run)
      /\ run.start \in Nat /\ run.asked \in Nat /\ run.at \in Nat
  BY Facts
<1>2. /\ run.phase = "bundle" /\ run.rows = <<>>
      /\ run.asked <= run.start + Timeout /\ run.start <= run.asked
      /\ run.asked <= now /\ now <= run.asked + Timeout
      /\ b \in Releases
  BY DEF GetBundle, IInv, RunOK, RowsOK, InBudget, Waiting
<1>3. run.manifest \in Releases /\ ValidManifest(run.manifest, PinnedKey, PinnedKey, run.start)
  BY <1>2 DEF IInv, RunOK, EvidenceOK, HasManifest
<1>4. UNCHANGED <<now, served, published>> /\ calm' = (calm /\ Fetched(transport))
  BY DEF GetBundle
<1>5. CASE ok
  <2>1. run' = next
    BY <1>5 DEF GetBundle
  <2>2. /\ DOMAIN run' = Fields /\ run'.phase = "files" /\ run'.asked = now
        /\ run'.start = run.start /\ run'.rows = <<>>
        /\ run'.manifest = run.manifest /\ run'.bundle = b /\ run'.at = run.at
    <3>1. LET a == Ask(run, "files")
          IN  /\ DOMAIN a = Fields /\ a.phase = "files" /\ a.asked = now /\ a.start = run.start
              /\ a.mode = run.mode /\ a.manifest = run.manifest /\ a.bundle = run.bundle
              /\ a.rows = run.rows /\ a.answers = run.answers /\ a.at = run.at
      BY <1>1, Asks
    <3> QED BY <1>2, <2>1, <3>1 DEF Fields
  <2>3. InBudget(run')
    BY <1>1, <1>2, <2>2 DEF InBudget
  <2>4. RowsOK(run') /\ EvidenceOK(run')
    BY <1>1, <1>2, <1>3, <1>5, <2>2 DEF RowsOK, RowsSound, EvidenceOK, HasManifest, HasBundle
  <2>5. RunOK(run')
    BY <2>2, <2>3, <2>4 DEF RunOK, Phases, Waiting
  <2>6. calm' => CalmOK'
    BY <1>2, <1>4, <2>2 DEF CalmOK, IInv
  <2> QED BY <1>4, <2>2, <2>5, <2>6, RunStep DEF IInv
<1>6. CASE ~ok
  <2>1. run' = Failed(run)
    BY <1>6 DEF GetBundle
  <2>2. RunOK(run') /\ run'.phase = "failed" /\ run'.start = run.start /\ run'.mode = run.mode
    BY <1>1, <2>1, FailedOK
  <2>3. calm' => CalmOK'
    <3> SUFFICES ASSUME calm' PROVE CalmOK'
      OBVIOUS
    <3>1. calm /\ ~ValidBundle(b, run.manifest)
      BY <1>4, <1>6
    <3>2. CalmOK /\ run.manifest = served.manifest /\ served.manifest = b
      BY <1>2, <3>1 DEF IInv, CalmOK
    <3>3. ~Current'
      BY <1>4, <2>2, <3>1, <3>2 DEF Current, ValidBundle
    <3> QED BY <1>4, <2>2, <3>2, <3>3 DEF CalmOK
  <2> QED BY <1>4, <2>2, <2>3, RunStep DEF IInv, Waiting
<1> QED BY <1>5, <1>6

LEMMA GetFilesOK ==
  ASSUME IInv, NEW transport, NEW matching \in BOOLEAN, GetFiles(transport, matching)
  PROVE  IInv'
<1>1. /\ now \in Nat /\ Timeout \in Nat /\ DOMAIN run = Fields /\ RowsSound(run)
      /\ run.start \in Nat /\ run.asked \in Nat /\ run.at \in Nat
  BY Facts
<1>2. /\ run.phase = "files" /\ run.rows = <<>>
      /\ run.asked <= run.start + Timeout * 2 /\ run.start <= run.asked
      /\ run.asked <= now /\ now <= run.asked + Timeout
  BY DEF GetFiles, IInv, RunOK, RowsOK, InBudget, Waiting
<1>3. /\ run.manifest \in Releases /\ ValidManifest(run.manifest, PinnedKey, PinnedKey, run.start)
      /\ run.bundle \in Releases /\ ValidBundle(run.bundle, run.manifest)
  BY <1>2 DEF IInv, RunOK, EvidenceOK, HasManifest, HasBundle
<1>4. /\ UNCHANGED <<now, served, published>>
      /\ calm' = (calm /\ Fetched(transport) /\ matching)
  BY DEF GetFiles
<1>5. CASE Fetched(transport) /\ matching
  <2>1. run' = Ask(run, "scripts")
    BY <1>5 DEF GetFiles
  <2>2. /\ DOMAIN run' = Fields /\ run'.phase = "scripts" /\ run'.asked = now
        /\ run'.start = run.start /\ run'.rows = <<>>
        /\ run'.manifest = run.manifest /\ run'.bundle = run.bundle /\ run'.at = run.at
    BY <1>1, <1>2, <2>1, Asks
  <2>3. InBudget(run')
    BY <1>1, <1>2, <2>2 DEF InBudget
  <2>4. RowsOK(run') /\ EvidenceOK(run')
    BY <1>1, <1>2, <1>3, <2>2 DEF RowsOK, RowsSound, EvidenceOK, HasManifest, HasBundle
  <2>5. RunOK(run')
    BY <2>2, <2>3, <2>4 DEF RunOK, Phases, Waiting
  <2>6. calm' => CalmOK'
    BY <1>2, <1>4, <2>2 DEF CalmOK, IInv
  <2> QED BY <1>4, <2>2, <2>5, <2>6, RunStep DEF IInv
<1>6. CASE ~(Fetched(transport) /\ matching)
  <2>1. run' = Failed(run)
    BY <1>6 DEF GetFiles
  <2>2. RunOK(run') /\ run'.phase = "failed"
    BY <1>1, <2>1, FailedOK
  <2>3. ~calm'
    BY <1>4, <1>6
  <2> QED BY <1>4, <2>2, <2>3, RunStep DEF IInv, Waiting
<1> QED BY <1>5, <1>6

\* A calm run that goes on to a chain is still calm, and fails only at a chain the scope
\* of the release leaves out.
LEMMA CalmOn ==
  ASSUME IInv, calm => CalmOK, run.phase \in {"scripts", "rpc"},
         UNCHANGED <<now, served, published>>, calm' => calm,
         run'.phase \in {"rpc", "live_verified", "failed"}, run'.start = run.start,
         run'.phase = "rpc" => /\ run'.bundle = run.bundle /\ run'.manifest = run.manifest
                               /\ \A h \in Hosts(Chain(run')) : run'.answers[h] = None,
         run'.phase = "failed" => ScopeChains[run.bundle.scope] # Kept
  PROVE  calm' => CalmOK'
<1> SUFFICES ASSUME calm' PROVE CalmOK'
  OBVIOUS
<1>1. CalmOK /\ run.bundle = served.bundle /\ run.manifest = served.manifest
  BY DEF CalmOK
<1>2. run'.phase = "failed" => ~Current'
  BY <1>1 DEF Current
<1> QED BY <1>1, <1>2 DEF CalmOK

LEMMA GetScriptsOK ==
  ASSUME IInv, NEW transport, GetScripts(transport)
  PROVE  IInv'
<1>1. /\ now \in Nat /\ Timeout \in Nat /\ DOMAIN run = Fields /\ RowsSound(run)
      /\ run.start \in Nat /\ run.asked \in Nat /\ run.at \in Nat
  BY Facts
<1>2. /\ run.phase = "scripts" /\ run.rows = <<>>
      /\ run.asked <= run.start + Timeout * 3 /\ run.start <= run.asked
      /\ run.asked <= now /\ now <= run.asked + Timeout
  BY DEF GetScripts, IInv, RunOK, RowsOK, InBudget, Waiting
<1>3. /\ run.manifest \in Releases /\ ValidManifest(run.manifest, PinnedKey, PinnedKey, run.start)
      /\ run.bundle \in Releases /\ ValidBundle(run.bundle, run.manifest)
  BY <1>2 DEF IInv, RunOK, EvidenceOK, HasManifest, HasBundle
<1>4. /\ UNCHANGED <<now, served, published>>
      /\ calm' = (calm /\ Fetched(transport))
  BY DEF GetScripts
<1>5. CASE Fetched(transport)
  <2>1. run' = AskChain(run)
    BY <1>5 DEF GetScripts
  <2>2. Through(run)
    BY <1>1, <1>2, <1>3 DEF Through
  <2>3. /\ RunOK(run') /\ run'.start = run.start
        /\ run'.phase \in {"rpc", "live_verified", "failed"}
        /\ run'.phase = "rpc" => /\ run'.asked = now /\ run'.bundle = run.bundle
                                 /\ run'.manifest = run.manifest
                                 /\ \A h \in Hosts(Chain(run')) : run'.answers[h] = None
        /\ run'.phase = "failed" => ScopeChains[run.bundle.scope] # Kept
    BY <1>1, <2>1, <2>2, AskChainOK
  <2>4. calm' => CalmOK'
    BY <1>2, <1>4, <2>3, CalmOn DEF IInv
  <2> QED BY <1>4, <2>3, <2>4, RunStep DEF IInv, Waiting
<1>6. CASE ~Fetched(transport)
  <2>1. run' = Failed(run)
    BY <1>6 DEF GetScripts
  <2>2. RunOK(run') /\ run'.phase = "failed"
    BY <1>1, <2>1, FailedOK
  <2>3. ~calm'
    BY <1>4, <1>6
  <2> QED BY <1>4, <2>2, <2>3, RunStep DEF IInv, Waiting
<1> QED BY <1>5, <1>6

\* What a host may say and the run may keep.
LEMMA AnswerTyped ==
  ASSUME NEW b, NEW c, NEW h, NEW a \in {Honest(c, h)} \union Dishonest(b, c, h),
         Agrees(b, c, h, a)
  PROVE  a \in [id : {"pinned", "none", "other"}, code : {"deployed", "other"},
                receipt : {"deployed", "none", "other"}]
<1>1. a.code # "none"
  BY DEF Agrees
<1>2. CASE a = Honest(c, h)
  BY <1>2 DEF Honest
<1>3. CASE a = [id |-> "pinned", code |-> Claimed(b, c, "code"), receipt |-> Claimed(b, c, "receipt")]
  BY <1>3 DEF Claimed
<1>4. CASE a = [Honest(c, h) EXCEPT !.id = "other"]
  BY <1>4 DEF Honest
<1>5. CASE a = [Honest(c, h) EXCEPT !.code = "none"]
  BY <1>1, <1>5 DEF Honest
<1> QED BY <1>2, <1>3, <1>4, <1>5 DEF Dishonest

\* The next host's answer keeps at most one liar, since the model bounds them.
LEMMA OneMoreAnswer ==
  ASSUME IInv, run.phase = "rpc", NEW h \in Hosts(Chain(run)),
         NEW a \in {Honest(Chain(run), h)} \union Dishonest(run.bundle, Chain(run), h),
         Agrees(run.bundle, Chain(run), h, a),
         a # Honest(Chain(run), h) => Cardinality(Faulty(Chain(run))) < MaxFaulty
  PROVE  AnswersOK([run EXCEPT !.answers[h] = a], Chain(run))
<1> DEFINE c == Chain(run)
           r == [run EXCEPT !.answers[h] = a]
<1>1. AnswersOK(run, c) /\ DOMAIN run = Fields
  BY DEF IInv, RunOK
<1>2. DOMAIN run.answers = Hosts(c) /\ run.answers \in Answers(c)
  BY <1>1 DEF AnswersOK, Answers
<1>3. /\ r.bundle = run.bundle /\ r.answers[h] = a
      /\ \A g \in Hosts(c) : g # h => r.answers[g] = run.answers[g]
  BY <1>1, <1>2 DEF Fields
<1>4. r.answers \in Answers(c)
  <2>1. r.answers = [run.answers EXCEPT ![h] = a]
    BY <1>1 DEF Fields
  <2>2. a \in [id : {"pinned", "none", "other"}, code : {"deployed", "other"},
               receipt : {"deployed", "none", "other"}]
    BY AnswerTyped
  <2> HIDE DEF r
  <2> QED BY <1>2, <2>1, <2>2 DEF Answers
<1> HIDE DEF r
<1>5. \A g \in Hosts(c) : r.answers[g] # None => Agrees(r.bundle, c, g, r.answers[g])
  BY <1>1, <1>3 DEF AnswersOK
<1>6. a # Honest(c, h) => \A g \in Hosts(c) : ~Lies(run, c, g)
  <2> SUFFICES ASSUME a # Honest(c, h) PROVE \A g \in Hosts(c) : ~Lies(run, c, g)
    OBVIOUS
  <2>1. IsFiniteSet(Faulty(c))
    BY TwoHosts, FS_Subset DEF Faulty
  <2>2. Cardinality(Faulty(c)) = 0
    BY <2>1, FS_CardinalityType, FaultAssumption
  <2>3. Faulty(c) = {}
    BY <2>1, <2>2, FS_EmptySet
  <2> QED BY <2>3 DEF Faulty, Lies
<1>7. \A f, g \in Hosts(c) : Lies(r, c, f) /\ Lies(r, c, g) => f = g
  <2>1. \A g \in Hosts(c) : g # h => (Lies(r, c, g) <=> Lies(run, c, g))
    BY <1>3 DEF Lies
  <2>2. Lies(r, c, h) => a # Honest(c, h)
    BY <1>3 DEF Lies
  <2>3. \A f, g \in Hosts(c) : Lies(run, c, f) /\ Lies(run, c, g) => f = g
    BY <1>1 DEF AnswersOK
  <2> QED BY <1>6, <2>1, <2>2, <2>3
<1>8. AnswersOK(r, c)
  BY <1>4, <1>5, <1>7 DEF AnswersOK
<1> QED BY <1>8 DEF r

\* A chain whose hosts have all answered, and agree, adds its row.
LEMMA ChainDone ==
  ASSUME IInv, run.phase = "rpc", NEW r, r.bundle = run.bundle,
         AnswersOK(r, Chain(run)), \A g \in Hosts(Chain(run)) : r.answers[g] # None,
         DOMAIN r = Fields, r.rows = run.rows, r.start = run.start, r.asked = run.asked,
         r.at = run.at, r.manifest = run.manifest
  PROVE  LET k == [r EXCEPT !.answers = <<>>, !.rows = Append(@, Row(Chain(run)))]
         IN  /\ Through(k) /\ k.start = run.start /\ k.bundle = run.bundle
             /\ k.manifest = run.manifest
<1> DEFINE c == Chain(run)
           k == [r EXCEPT !.answers = <<>>, !.rows = Append(@, Row(c))]
           n == Len(run.rows)
<1>1. /\ now \in Nat /\ Timeout \in Nat /\ RowsSound(run)
      /\ run.start \in Nat /\ run.asked \in Nat /\ run.at \in Nat
  BY Facts
<1>2. /\ run.asked <= run.start + Timeout * (4 + n) /\ run.start <= run.asked
      /\ run.asked <= now /\ now <= run.asked + Timeout
      /\ n < Len(RpcProviders)
  BY DEF IInv, RunOK, RowsOK, InBudget, Waiting
<1>3. n \in Nat /\ Len(RpcProviders) \in Nat /\ c = RpcProviders[n + 1]
  BY <1>1, ProvidersAssumption DEF RowsSound, Chain
<1>4. c \in Kept /\ Row(c) \in Rows
  BY <1>2, <1>3, ProvidersAssumption DEF Rows
<1>5. Attested(run.bundle, c)
  BY QuorumAttests
<1>6. /\ DOMAIN k = Fields /\ k.start = run.start /\ k.asked = run.asked /\ k.at = run.at
      /\ k.bundle = run.bundle /\ k.manifest = run.manifest /\ k.rows = Append(run.rows, Row(c))
  BY DEF Fields
<1> HIDE DEF k, c
<1>7. /\ k.rows \in Seq(Rows) /\ Len(k.rows) = n + 1 /\ DOMAIN run.rows = 1 .. n
      /\ DOMAIN k.rows = 1 .. n + 1 /\ k.rows[n + 1] = Row(c)
      /\ \A i \in 1 .. n : k.rows[i] = run.rows[i]
  BY <1>1, <1>4, <1>6 DEF RowsSound
<1>8. RowsSound(k)
  <2>1. \A i \in 1 .. n : run.rows[i] = Row(RpcProviders[i]) /\ Attested(run.bundle, RpcProviders[i])
    BY <1>1, <1>7 DEF RowsSound
  <2>2. \A i \in 1 .. n + 1 : k.rows[i] = Row(RpcProviders[i]) /\ Attested(k.bundle, RpcProviders[i])
    BY <1>3, <1>5, <1>6, <1>7, <2>1
  <2> QED BY <1>2, <1>3, <1>7, <2>2 DEF RowsSound
<1>9. run.start <= now /\ now <= run.start + Timeout * (4 + Len(k.rows))
  <2>1. Timeout * (4 + (n + 1)) = Timeout * (4 + n) + Timeout
    BY <1>1, <1>3
  <2>2. Timeout * (4 + n) \in Nat
    BY <1>1, <1>3
  <2> QED BY <1>1, <1>2, <1>7, <2>1, <2>2
<1>10. /\ run.manifest \in Releases /\ ValidManifest(run.manifest, PinnedKey, PinnedKey, run.start)
       /\ run.bundle \in Releases /\ ValidBundle(run.bundle, run.manifest)
  BY DEF IInv, RunOK, EvidenceOK, HasManifest, HasBundle
<1>11. Through(k)
  BY <1>1, <1>6, <1>8, <1>9, <1>10 DEF Through
<1> QED BY <1>6, <1>11 DEF k, c

LEMMA HostAnswersOK ==
  ASSUME IInv, run.phase = "rpc", NEW h \in Hosts(Chain(run)), NEW transport,
         NEW a \in {Honest(Chain(run), h)} \union Dishonest(run.bundle, Chain(run), h),
         HostAnswers(h, transport, a)
  PROVE  IInv'
<1> DEFINE c == Chain(run)
           r == [run EXCEPT !.answers[h] = a]
           on == [r EXCEPT !.answers = <<>>, !.rows = Append(@, Row(c))]
<1>1. /\ now \in Nat /\ Timeout \in Nat /\ DOMAIN run = Fields /\ RowsSound(run)
      /\ run.start \in Nat /\ run.asked \in Nat /\ run.at \in Nat /\ RunOK(run)
  BY Facts DEF IInv
<1>2. /\ UNCHANGED <<now, served, published>>
      /\ calm' = (calm /\ Fetched(transport) /\ a = Honest(c, h))
      /\ a # Honest(c, h) => Cardinality(Faulty(c)) < MaxFaulty
  BY DEF HostAnswers
<1>3. /\ DOMAIN r = Fields /\ r.phase = "rpc" /\ r.bundle = run.bundle /\ r.rows = run.rows
      /\ r.start = run.start /\ r.asked = run.asked /\ r.at = run.at /\ r.manifest = run.manifest
      /\ r.mode = run.mode /\ r.answers = [run.answers EXCEPT ![h] = a]
  BY <1>1 DEF Fields
<1>4. Chain(r) = c
  BY <1>3 DEF Chain
<1>5. DOMAIN run.answers = Hosts(c) /\ AnswersOK(run, c)
  BY <1>1 DEF RunOK, AnswersOK, Answers
<1>6. c \in Kept
  <2>1. Len(run.rows) \in Nat /\ Len(run.rows) < Len(RpcProviders)
    BY <1>1 DEF RunOK, RowsOK, RowsSound
  <2> QED BY <2>1, ProvidersAssumption DEF Chain
<1>7. calm' /\ TrueClaims => Agrees(run.bundle, c, h, a)
  <2> SUFFICES ASSUME calm', TrueClaims PROVE Agrees(run.bundle, c, h, a)
    OBVIOUS
  <2>1. a = Honest(c, h) /\ run.bundle = served.bundle
    BY <1>2 DEF IInv, CalmOK
  <2>2. \A fact \in {"code", "receipt"} : Claimed(run.bundle, c, fact) = "deployed"
    BY <1>6, <2>1 DEF TrueClaims
  <2> QED BY <2>1, <2>2, TruthAgrees
<1>8. calm' => \A g \in Hosts(c) : r.answers[g] \in {None, Honest(c, g)}
  <2> SUFFICES ASSUME calm', NEW g \in Hosts(c) PROVE r.answers[g] \in {None, Honest(c, g)}
    OBVIOUS
  <2>1. a = Honest(c, h) /\ run.answers[g] \in {None, Honest(c, g)}
    BY <1>2 DEF IInv, CalmOK
  <2>2. r.answers[g] = IF g = h THEN a ELSE run.answers[g]
    BY <1>3, <1>5
  <2> QED BY <2>1, <2>2
<1>9. calm' => CalmOK
  BY <1>2 DEF IInv
<1>10. \/ run' = Failed(run) /\ (~Fetched(transport) \/ ~Agrees(run.bundle, c, h, a))
       \/ run' = r /\ Agrees(run.bundle, c, h, a)
       \/ /\ Agrees(run.bundle, c, h, a) /\ \A g \in Hosts(c) : r.answers[g] # None
          /\ run' = AskChain(on)
       \/ /\ \A g \in Hosts(c) : r.answers[g] # None
          /\ run' = Failed(run) /\ ~Quorum(c, r.answers)
  BY DEF HostAnswers
<1> HIDE DEF r, c
<1>11. CASE /\ run' = Failed(run)
            /\ \/ ~Fetched(transport) \/ ~Agrees(run.bundle, c, h, a)
               \/ (\A g \in Hosts(c) : r.answers[g] # None) /\ ~Quorum(c, r.answers)
  <2>1. RunOK(run') /\ run'.phase = "failed" /\ run'.start = run.start /\ run'.mode = run.mode
    BY <1>1, <1>11, FailedOK
  <2>2. calm' => ~TrueClaims'
    <3>1. TrueClaims' = TrueClaims
      BY <1>2 DEF TrueClaims
    <3>2. calm' => ~((\A g \in Hosts(c) : r.answers[g] # None) /\ ~Quorum(c, r.answers))
      BY <1>8, TruthIsQuorum
    <3> QED BY <1>2, <1>7, <1>11, <3>1, <3>2
  <2>3. calm' => CalmOK'
    BY <1>2, <1>9, <2>1, <2>2 DEF CalmOK
  <2> QED BY <1>2, <2>1, <2>3, RunStep DEF IInv, Waiting
<1>12. CASE run' = r /\ Agrees(run.bundle, c, h, a)
  <2>1. AnswersOK(r, c)
    BY <1>2, <1>12, OneMoreAnswer DEF r, c
  <2>2. InBudget(r) /\ RowsOK(r) /\ EvidenceOK(r)
    BY <1>1, <1>3 DEF RunOK, InBudget, RowsOK, RowsSound, EvidenceOK, HasManifest, HasBundle,
                      Waiting
  <2>3. RunOK(r)
    BY <1>3, <1>4, <2>1, <2>2 DEF RunOK, Phases, Waiting
  <2>4. calm' => CalmOK'
    BY <1>2, <1>3, <1>4, <1>8, <1>9, <1>12 DEF CalmOK
  <2> QED BY <1>2, <1>3, <1>12, <2>3, <2>4, RunStep DEF IInv, Waiting
<1>13. CASE /\ Agrees(run.bundle, c, h, a) /\ \A g \in Hosts(c) : r.answers[g] # None
            /\ run' = AskChain(on)
  <2>1. AnswersOK(r, c)
    BY <1>2, <1>13, OneMoreAnswer DEF r, c
  <2>2. Through(on) /\ on.start = run.start /\ on.bundle = run.bundle
        /\ on.manifest = run.manifest
    BY <1>3, <1>13, <2>1, ChainDone DEF c
  <2> HIDE DEF on
  <2>3. /\ RunOK(run') /\ run'.start = run.start
        /\ run'.phase \in {"rpc", "live_verified", "failed"}
        /\ run'.phase = "rpc" => /\ run'.asked = now /\ run'.bundle = run.bundle
                                 /\ run'.manifest = run.manifest
                                 /\ \A g \in Hosts(Chain(run')) : run'.answers[g] = None
        /\ run'.phase = "failed" => ScopeChains[run.bundle.scope] # Kept
    BY <1>1, <1>13, <2>2, AskChainOK
  <2>4. calm' => CalmOK'
    BY <1>2, <2>3, CalmOn DEF IInv
  <2> QED BY <1>2, <2>3, <2>4, RunStep DEF IInv, Waiting
<1> QED BY <1>10, <1>11, <1>12, <1>13

LEMMA TimeOutOK ==
  ASSUME IInv, TimeOut
  PROVE  IInv'
<1>1. run' = Failed(run) /\ calm' = FALSE /\ UNCHANGED <<now, served, published>>
  BY DEF TimeOut
<1>2. RunOK(run') /\ run'.phase = "failed"
  BY <1>1, Facts, FailedOK
<1> QED BY <1>1, <1>2, RunStep DEF Waiting

LEMMA PublishOK ==
  ASSUME IInv, NEW part \in {"manifest", "bundle"}, NEW release \in Releases,
         Publish(part, release)
  PROVE  IInv'
<1>1. served' \in [manifest : Releases, bundle : Releases]
  BY DEF Publish, IInv
<1>2. published' \in 0 .. MaxPublish
  BY VerifierAssumption DEF Publish, IInv
<1>3. calm' \in BOOLEAN /\ (calm' => CalmOK')
  BY DEF Publish, IInv, CalmOK
<1> QED BY <1>1, <1>2, <1>3 DEF Publish, IInv

LEMMA TickOK ==
  ASSUME IInv, Tick
  PROVE  IInv'
<1>1. now' \in 0 .. MaxTime /\ now \in Nat /\ now' = now + 1
  BY VerifierAssumption DEF IInv, Tick
<1>2. UNCHANGED <<served, published, calm, run>>
  BY DEF Tick
<1>3. run.phase \in Waiting => now - run.asked < Timeout
  BY DEF Tick, Limit
<1>4. run.phase \in Waiting => run'.asked <= now' /\ now' <= run'.asked + Timeout
  BY <1>1, <1>2, <1>3, Facts DEF IInv
<1>5. calm' => CalmOK'
  BY <1>2 DEF IInv, CalmOK, TrueClaims, Current
<1> QED BY <1>1, <1>2, <1>4, <1>5 DEF IInv

LEMMA Initially ==
  ASSUME Init
  PROVE  IInv
<1>1. now \in 0 .. MaxTime /\ published \in 0 .. MaxPublish /\ calm \in BOOLEAN
  BY VerifierAssumption DEF Init
<1>2. served \in [manifest : Releases, bundle : Releases] /\ served.manifest = served.bundle
  BY DEF Init
<1>3. run = NewRun /\ run.phase = "idle" /\ run.rows = <<>> /\ run.start = 0 /\ run.asked = 0
      /\ run.at = 0 /\ DOMAIN run = Fields
  BY DEF Init, NewRun, Fields
<1>4. RowsOK(run)
  <2>1. <<>> \in Seq(Rows) /\ Len(<<>>) = 0 /\ Len(RpcProviders) \in Nat
    BY ProvidersAssumption
  <2> QED BY <1>3, <2>1 DEF RowsOK, RowsSound
<1>5. InBudget(run) /\ EvidenceOK(run)
  BY <1>3 DEF InBudget, EvidenceOK, HasManifest, HasBundle, Waiting
<1>6. RunOK(run)
  BY <1>3, <1>4, <1>5 DEF RunOK, Phases
<1>7. CalmOK
  BY <1>2, <1>3 DEF CalmOK
<1> QED BY <1>1, <1>2, <1>3, <1>6, <1>7 DEF IInv, Waiting

LEMMA Inductive ==
  ASSUME IInv, [Next]_vars
  PROVE  IInv'
<1>1. CASE Start
  BY <1>1, StartLiveOK, StartOfflineOK DEF Start
<1>2. CASE Get
  BY <1>2, GetManifestOK, GetBundleOK, GetScriptsOK, GetFilesOK DEF Get
<1>3. CASE HostAnswer
  BY <1>3, HostAnswersOK DEF HostAnswer
<1>4. CASE \E part \in {"manifest", "bundle"}, release \in Releases : Publish(part, release)
  BY <1>4, PublishOK
<1>5. CASE UNCHANGED vars
  BY <1>5 DEF vars, IInv, CalmOK, TrueClaims, Current
<1> QED BY <1>1, <1>2, <1>3, <1>4, <1>5, TimeOutOK, TickOK DEF Next

(*-------------------------------- theorems --------------------------------*)
LEMMA Always == Spec => []IInv
<1>1. Init => IInv
  BY Initially
<1>2. IInv /\ [Next]_vars => IInv'
  BY Inductive
<1> QED BY <1>1, <1>2, PTL DEF Spec

\* In the middle of the chains the rows are those of the chains before, and every answer
\* kept so far was accepted (verifyRpcQuorum).
THEOREM TypeCorrect == Spec => []TypeOK
<1>1. IInv => TypeOK
  <2> SUFFICES ASSUME IInv PROVE TypeOK
    OBVIOUS
  <2>1. RunOK(run)
    BY DEF IInv
  <2>2. run.phase = "rpc" => run.answers \in Answers(Chain(run))
    BY <2>1 DEF RunOK, AnswersOK
  <2>3. \A i \in DOMAIN run.rows : run.rows[i] = Row(RpcProviders[i])
    BY <2>1 DEF RunOK, RowsOK, RowsSound
  <2>4. run.start <= run.asked \/ run.phase \notin Waiting
    BY <2>1 DEF RunOK, InBudget
  <2> QED BY <2>1, <2>2, <2>3, <2>4 DEF TypeOK, IInv, RunOK, Phases, Answers
<1> QED BY <1>1, Always, PTL

\* With at most one host of a chain that lies, what a live report says of a chain is true
\* of it (rpcRead, verifyRpcQuorum).
THEOREM LiveReportsAreAttested == Spec => []LiveIsAttested
<1>1. IInv => LiveIsAttested
  <2> SUFFICES ASSUME IInv, Live
               PROVE  /\ Len(run.rows) = Len(RpcProviders)
                      /\ \A i \in DOMAIN run.rows :
                           LET c == run.rows[i].chain
                           IN  /\ Claimed(run.bundle, c, "code") = "deployed"
                               /\ run.rows[i].receipts > 0 => Claimed(run.bundle, c, "receipt") = "deployed"
    BY DEF LiveIsAttested
  <2>1. RowsOK(run) /\ Len(run.rows) = Len(RpcProviders)
    BY DEF IInv, RunOK, RowsOK, Live
  <2>2. ASSUME NEW i \in DOMAIN run.rows
        PROVE  /\ run.rows[i].chain = RpcProviders[i] /\ run.rows[i] = Row(RpcProviders[i])
               /\ Attested(run.bundle, RpcProviders[i])
    BY <2>1 DEF RowsOK, RowsSound, Row
  <2> QED BY <2>1, <2>2 DEF Attested
<1> QED BY <1>1, Always, PTL

\* A report speaks of one signed release, though its manifest and its bundle are two
\* requests and the publisher may change either in between (run, validateBundle).
THEOREM ReportsAreOfOneRelease == Spec => []OneRelease
<1>1. IInv => OneRelease
  BY SerialAssumption DEF IInv, RunOK, EvidenceOK, HasManifest, HasBundle, ValidBundle,
                          OneRelease, Verified, Live
<1> QED BY <1>1, Always, PTL

\* A live report never vouches for a manifest that had run out before the run began, and is
\* late by the time limits of one run's requests at most, however many chains there are
\* (run, verifyRpcQuorum: the requests of a run follow one another).
THEOREM ReportsAreFresh == Spec => []StaleByOneRun
<1>1. IInv => StaleByOneRun
  <2> SUFFICES ASSUME IInv, Live
               PROVE  run.start < run.manifest.until /\ run.at - run.start <= Timeout * Stages
    BY DEF StaleByOneRun
  <2>1. /\ run.phase = "live_verified" /\ InBudget(run) /\ RowsOK(run) /\ EvidenceOK(run)
    BY DEF IInv, RunOK, Live
  <2>2. run.start < run.manifest.until
    BY <2>1 DEF EvidenceOK, HasManifest, ValidManifest
  <2>3. Len(run.rows) = Len(RpcProviders) /\ Len(RpcProviders) \in Nat
    BY <2>1, ProvidersAssumption DEF RowsOK
  <2>4. run.at <= run.start + Timeout * Stages
    BY <2>1, <2>3 DEF InBudget, Stages
  <2>5. run.at \in Nat /\ run.start \in Nat /\ Timeout * Stages \in Nat
    BY <2>1, <2>3, VerifierAssumption DEF InBudget, Stages
  <2> QED BY <2>2, <2>4, <2>5
<1> QED BY <1>1, Always, PTL

\* No false alarm: a run in which nothing goes wrong, over a current release whose claims
\* are true, never fails (run, verifyRpcQuorum).
THEOREM NoFalseAlarm == Spec => []AcceptedIsVerified
<1>1. IInv => AcceptedIsVerified
  BY DEF IInv, CalmOK, AcceptedIsVerified
<1> QED BY <1>1, Always, PTL
=============================================================================
