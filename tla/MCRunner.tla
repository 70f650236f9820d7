------------------------------ MODULE MCRunner ------------------------------
(* Instances of the runner for TLC. *)
EXTENDS CallerRunnerProperties

\* one EVM step: approval and deposit
MCOneFamily == [s \in {0} |-> "evm"]
MCOneRows   == [s \in {0} |-> 2]
MCOneNeeds  == [s \in {0} |-> TRUE]
MCOneValue  == [s \in {0} |-> [i \in {0, 1} |-> i]]
MCOneWorst  == [s \in {0} |-> 4]

\* an EVM step with approval, then a Solana step
MCTwoFamily == [s \in {0, 1} |-> IF s = 0 THEN "evm" ELSE "solana"]
MCTwoRows   == [s \in {0, 1} |-> IF s = 0 THEN 2 ELSE 1]
MCTwoNeeds  == [s \in {0, 1} |-> s = 0]
MCTwoValue  == [s \in {0, 1} |-> [i \in {0, 1} |-> IF s = 0 THEN i ELSE 0]]
MCTwoWorst  == [s \in {0, 1} |-> IF s = 0 THEN 4 ELSE 2]

\* approval and revocation cost more than the deposit; the cap is exactly the reserve
MCDearGas   == [i \in {0, 1} |-> IF i = 0 THEN 2 ELSE 1]
MCDearWorst == [s \in {0} |-> 6]

MCGasCap == [i \in {0, 1} |-> 1]
=============================================================================
