----------------------------- MODULE MCAdapter -----------------------------
(* Instances of the standard wallet adapter for TLC. *)
EXTENDS WalletAdapterProperties

CONSTANTS e1, s1, w1, w2, c1, c2

MCOneEvm == [o \in {e1} |-> "evm"]
MCBoth   == [o \in {e1, s1} |-> IF o = e1 THEN "evm" ELSE "solana"]

\* With two operations, the second is used while the other one's chain is at rest:
\* the families share the store's file and nothing an operation depends on.
Uses(f) == \E o \in Ops : /\ Family[o] = f
                          /\ store[o].st # "none" \/ \E c \in Callers : call[c].op = o
OneFamily == ~ ((Uses("evm") \/ blocks > 0 \/ foreign > 0) /\ (Uses("solana") \/ hash > 1))
=============================================================================
