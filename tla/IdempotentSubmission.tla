------------------------ MODULE IdempotentSubmission ------------------------
(***************************************************************************)
(* What a caller wallet adapter promises the runner (validateAdapter's     *)
(* idempotent_submission_by_operation_id): an operation is sent at most    *)
(* once however often it is submitted, its hash is told only after it was  *)
(* sent and never forgotten, and a confirmation is final.                  *)
(***************************************************************************)
EXTENDS Naturals

CONSTANT Ops    \* operation ids

VARIABLES
  sent,      \* operation -> transactions the network ever accepted for it
  told,      \* operations whose transaction hash was answered
  included,  \* operations whose transaction is included and succeeded
  done       \* operations reported as confirmed

avars == <<sent, told, included, done>>

AInit == /\ sent = [o \in Ops |-> 0]
         /\ told = {} /\ included = {} /\ done = {}

ASubmit(o) == sent[o] = 0 /\ sent' = [sent EXCEPT ![o] = 1] /\ UNCHANGED <<told, included, done>>

ATell(o) == sent[o] = 1 /\ told' = told \union {o} /\ UNCHANGED <<sent, included, done>>

\* Inclusion may change until the operation is confirmed.
AInclude ==
  /\ included' \in SUBSET {o \in Ops : sent[o] = 1}
  /\ done \subseteq included'
  /\ UNCHANGED <<sent, told, done>>

AReport(o) == /\ o \in told /\ o \in included /\ done' = done \union {o}
              /\ UNCHANGED <<sent, told, included>>

ANext == AInclude \/ \E o \in Ops : ASubmit(o) \/ ATell(o) \/ AReport(o)

ASpec == AInit /\ [][ANext]_avars
=============================================================================
