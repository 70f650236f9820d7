----------------------------- MODULE MCVerifier -----------------------------
(* Instances of the evidence verifier for TLC. *)
EXTENDS EvidenceVerifierProperties

CONSTANTS k1, k2

Good == [commit |-> 1, serial |-> 1, scope |-> "target", wrong |-> None, issued |-> 0,
         until |-> 30, keyId |-> k1, signer |-> k1, wellformed |-> TRUE]

\* A release, its correction under the same commit, one that runs out early, one
\* with a wrong claim on each kind of chain, ones that must be refused, and one of an
\* older scope.
MCReleases == {
  Good,
  [Good EXCEPT !.serial = 2, !.wrong = <<"base", "code">>],
  [Good EXCEPT !.serial = 3, !.commit = 2, !.wrong = <<"injective", "receipt">>],
  [Good EXCEPT !.serial = 4, !.wrong = <<"sei", "receipt">>, !.until = 2],
  [Good EXCEPT !.serial = 5, !.keyId = k2, !.signer = k2],
  [Good EXCEPT !.serial = 6, !.signer = k2],
  [Good EXCEPT !.serial = 7, !.scope = "previous_target"]}
=============================================================================
