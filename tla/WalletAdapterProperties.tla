---------------------- MODULE WalletAdapterProperties ----------------------
(***************************************************************************)
(* What the standard wallet adapter promises of its operation ids.         *)
(***************************************************************************)
EXTENDS WalletAdapter

TxsOf(o)    == {t \in DOMAIN net : t.op = o}
Included(t) == net[t].ok /\ (Mined(t) \/ net[t].blk = Final)

\* One operation id, one transaction: no retry, crash or expired window makes the
\* adapter sign a second one (createStandardCallerWalletAdapter's
\* idempotent_submission_by_operation_id).
OneTransaction == \A o \in Ops : \A t, u \in TxsOf(o) : t = u

\* A confirmation is final: what confirmEvm and confirmSolana stored as confirmed
\* stays included, however the chain reorganises within the chosen depth.
ConfirmedIsFinal ==
  \A o \in Ops : store[o].st = "confirmed" =>
    \E t \in TxsOf(o) : t.slot = store[o].slot /\ Included(t)

\* The adapter is an implementation of idempotent submission.
Promise == INSTANCE IdempotentSubmission WITH
  sent     <- [o \in Ops |-> Cardinality(TxsOf(o))],
  told     <- {o \in Ops : store[o].st \in {"submitted", "confirmed"}},
  included <- {o \in Ops : \E t \in TxsOf(o) : Included(t)},
  done     <- {o \in Ops : store[o].st = "confirmed"}
Idempotent == Promise!ASpec

\* A hash the caller was told stays good: whatever windows ended and whatever was prepared,
\* submitted, confirmed or cut off since, the adapter's record is still the one the caller's
\* hash and window name, and confirmEvm and confirmSolana take them (a durable store).
ToldStaysConfirmable ==
  Durable => \A a \in answers :
    /\ store[a.op].st \in {"submitted", "confirmed"}
    /\ store[a.op].slot = a.slot /\ store[a.op].win = a.win

\* A confirmation ends, though its transaction may never be buried, may be moved by one
\* reorganisation after another, or may be seen at every turn (the deadline that the loops of
\* confirmEvm and confirmSolana look at).
ConfirmationEnds ==
  \A c \in Callers : call[c].pc \in Polls ~> call[c].pc = "idle"
=============================================================================
