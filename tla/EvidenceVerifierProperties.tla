--------------------- MODULE EvidenceVerifierProperties ---------------------
(***************************************************************************)
(* What a report of the verifier says of the world.                        *)
(***************************************************************************)
EXTENDS EvidenceVerifier

\* States the program can be in: in the middle of the chains the rows are those of
\* the chains before, and every answer kept so far was accepted.
TypeOK ==
  /\ now \in 0 .. MaxTime /\ published \in 0 .. MaxPublish /\ calm \in BOOLEAN
  /\ served \in [manifest : Releases, bundle : Releases]
  /\ run.phase \in Waiting \union
       {"idle", "refused", "failed", "live_verified", "offline_evidence_verified"}
  /\ run.start <= run.asked \/ run.phase \notin Waiting
  /\ \A i \in DOMAIN run.rows : run.rows[i] = Row(RpcProviders[i])
  /\ run.phase = "rpc" => run.answers \in UNION {[Hosts(c) -> {None} \union
       [id : {"pinned", "none", "other"}, code : {"deployed", "other"},
        receipt : {"deployed", "none", "other"}]] : c \in {Chain(run)}}

Live == run.phase = "live_verified"
Verified == Live \/ run.phase = "offline_evidence_verified"

\* With at most one host of a chain lying, what a live report says of a chain is
\* true of it: its code, and its deployment receipts where the row counts any
\* (rpcRead, verifyRpcQuorum).
LiveIsAttested ==
  Live => /\ Len(run.rows) = Len(RpcProviders)
          /\ \A i \in DOMAIN run.rows :
               LET c == run.rows[i].chain
               IN  /\ Claimed(run.bundle, c, "code") = "deployed"
                   /\ run.rows[i].receipts > 0 => Claimed(run.bundle, c, "receipt") = "deployed"

\* A report speaks of one signed release, though its manifest and its bundle are
\* two requests and the publisher may change either in between (run).
OneRelease == Verified => run.manifest = run.bundle

\* A live report is late by the requests of one run at most: it never vouches for a
\* manifest that had run out before the run began, nor for one that ran out longer
\* ago than its requests may take (validateManifest reads the clock once).
StaleByOneRun ==
  Live => /\ run.start < run.manifest.until
          /\ run.at - run.start <= Timeout * Stages

\* No false alarm: when the publisher rests and every host and file answers
\* truthfully, a live run over a current release whose claims are true verifies
\* (run, verifyRpcQuorum; the split of duties on the hosts with pruned history). A bundle
\* of an older scope is valid (validateBundle), but the run fails at the first chain it
\* leaves out.
TrueClaims ==
  \A c \in Kept, fact \in {"code", "receipt"} : Claimed(served.bundle, c, fact) = "deployed"
Current ==
  LET m == served.manifest
  IN  /\ m.wellformed /\ m.issued < m.until /\ run.start < m.until
      /\ m.keyId = PinnedKey /\ m.signer = PinnedKey
      /\ served.bundle.scope \in DOMAIN ScopeChains
      /\ ScopeChains[served.bundle.scope] = Kept
AcceptedIsVerified ==
  run.mode = "live" /\ run.phase = "failed" /\ calm => ~TrueClaims \/ ~Current

\* Every run ends, whatever hosts never answer (AbortSignal.timeout).
RunEnds == run.phase \in Waiting ~> run.phase \notin Waiting
=============================================================================
