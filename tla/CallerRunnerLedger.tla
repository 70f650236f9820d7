------------------------- MODULE CallerRunnerLedger -------------------------
(***************************************************************************)
(* Proofs about the sums of the state file: the reserve total is exactly   *)
(* what its actions are charged, and what is recorded as spent was paid by *)
(* transactions that landed.                                               *)
(*                                                                         *)
(* A sum over a set is a fold of the community modules, a CHOOSE of a      *)
(* recursive function.  What it adds up to is proved from a smallest       *)
(* counterexample: a set of subsets of a finite set has a smallest element.*)
(***************************************************************************)
EXTENDS CallerRunnerLanding

(*------------------------------ sums over a set ------------------------------*)
\* The element a fold takes first.
Pick(s) == CHOOSE x \in s : TRUE

\* g adds up f over the subsets of U, one element at a time.
Adds(g, f, U) ==
  g = [s \in SUBSET U |-> IF s = {} THEN 0 ELSE f[Pick(s)] + g[s \ {Pick(s)}]]

\* A set of subsets of a finite set has a smallest element.
LEMMA SmallestSubset ==
  ASSUME NEW S, IsFiniteSet(S), NEW T, T \subseteq SUBSET S, T # {}
  PROVE  \E x \in T : \A y \in T : y \subseteq x => y = x
<1>1. IsWellFoundedOn(StrictSubsetOrdering(S), SUBSET S)
  BY FS_StrictSubsetOrderingWellFounded, FS_FiniteSubsetsOfFinite
<1>2. PICK x \in T : \A y \in T : ~(<<y, x>> \in StrictSubsetOrdering(S))
  BY <1>1, WFMin
<1>3. ASSUME NEW y \in T, y \subseteq x, y # x PROVE FALSE
  BY <1>2, <1>3 DEF StrictSubsetOrdering
<1> QED BY <1>3

LEMMA SumsUnfold ==
  ASSUME NEW f, NEW S
  PROVE  SumFunctionOnSet(f, S) = (CHOOSE g : Adds(g, f, S))[S]
BY DEF SumFunctionOnSet, FoldFunctionOnSet, MapThenFoldSet, Adds, Pick

LEMMA Picked == ASSUME NEW s, s # {} PROVE Pick(s) \in s
BY DEF Pick

LEMMA AddsStep ==
  ASSUME NEW f, NEW U, NEW g, Adds(g, f, U), NEW t \in SUBSET U
  PROVE  g[t] = IF t = {} THEN 0 ELSE f[Pick(t)] + g[t \ {Pick(t)}]
<1> PICK h : h = [s \in SUBSET U |-> IF s = {} THEN 0 ELSE f[Pick(s)] + g[s \ {Pick(s)}]]
  OBVIOUS
<1>1. g = h
  BY DEF Adds
<1>2. h[t] = IF t = {} THEN 0 ELSE f[Pick(t)] + g[t \ {Pick(t)}]
  OBVIOUS
<1> QED BY <1>1, <1>2

LEMMA AddsWhole ==
  ASSUME NEW f, NEW U, NEW g, Adds(g, f, U)
  PROVE  g[U] = IF U = {} THEN 0 ELSE f[Pick(U)] + g[U \ {Pick(U)}]
<1>1. U \in SUBSET U
  OBVIOUS
<1> QED BY <1>1, AddsStep

\* Functions that agree on a set add up to the same there.
LEMMA SameSums ==
  ASSUME NEW f, NEW e, NEW U, NEW V, NEW g, NEW h, Adds(g, f, U), Adds(h, e, V),
         NEW S \in SUBSET U, S \subseteq V, IsFiniteSet(S), \A x \in S : f[x] = e[x]
  PROVE  g[S] = h[S]
<1> SUFFICES ASSUME g[S] # h[S] PROVE FALSE
  OBVIOUS
<1> PICK bad : bad = {t \in SUBSET S : g[t] # h[t]}
  OBVIOUS
<1>1. PICK t \in bad : \A y \in bad : y \subseteq t => y = t
  BY SmallestSubset
<1>2. t \subseteq S /\ t \in SUBSET U /\ t \in SUBSET V /\ g[t] # h[t]
  BY <1>1
<1>3. g[t] = IF t = {} THEN 0 ELSE f[Pick(t)] + g[t \ {Pick(t)}]
  BY <1>2, AddsStep
<1>4. h[t] = IF t = {} THEN 0 ELSE e[Pick(t)] + h[t \ {Pick(t)}]
  BY <1>2, AddsStep
<1>5. t # {}
  BY <1>2, <1>3, <1>4
<1>6. Pick(t) \in t
  BY <1>5, Picked
<1> PICK r : r = t \ {Pick(t)}
  OBVIOUS
<1>7. r \subseteq t /\ r # t /\ r \in SUBSET S
  BY <1>2, <1>6
<1>8. r \notin bad
  BY <1>1, <1>7
<1>9. g[r] = h[r]
  BY <1>7, <1>8
<1>10. f[Pick(t)] = e[Pick(t)]
  BY <1>2, <1>6
<1> QED BY <1>2, <1>3, <1>4, <1>5, <1>9, <1>10

\* Every function has sums over the subsets of a finite set.
LEMMA SumsExist ==
  ASSUME NEW f, NEW S, IsFiniteSet(S)
  PROVE  \E g : Adds(g, f, S)
<1> SUFFICES ASSUME ~\E g : Adds(g, f, S) PROVE FALSE
  OBVIOUS
<1> PICK bad : /\ bad \subseteq SUBSET S /\ bad # {}
               /\ \A t \in SUBSET S : t \in bad <=> ~\E g : Adds(g, f, t)
  <2> WITNESS {t \in SUBSET S : ~\E g : Adds(g, f, t)}
  <2> QED OBVIOUS
<1>1. PICK U \in bad : \A y \in bad : y \subseteq U => y = U
  BY SmallestSubset
<1>2. U \in SUBSET S /\ ~\E g : Adds(g, f, U)
  BY <1>1
<1> DEFINE G(t) == CHOOSE g : Adds(g, f, t)
           step(s) == IF s = {} THEN 0
                      ELSE f[Pick(s)] + G(s \ {Pick(s)})[s \ {Pick(s)}]
<1>3. ASSUME NEW t \in SUBSET U, t # U PROVE Adds(G(t), f, t)
  <2>1. t \in SUBSET S /\ t \notin bad
    BY <1>1, <1>2, <1>3
  <2>2. \E g : Adds(g, f, t)
    BY <2>1
  <2> QED BY <2>2
<1> HIDE DEF G
<1> PICK g : g = [s \in SUBSET U |-> step(s)]
  OBVIOUS
<1>4. \A s \in SUBSET U : g[s] = step(s)
  OBVIOUS
<1> HIDE DEF step
<1>5. ASSUME NEW s \in SUBSET U, s # {}
      PROVE  step(s) = f[Pick(s)] + g[s \ {Pick(s)}]
  <2> PICK t : t = s \ {Pick(s)}
    OBVIOUS
  <2>1. t \in SUBSET U /\ t # U /\ IsFiniteSet(t)
    <3>1. t \in SUBSET U /\ t # U
      BY <1>5, Picked
    <3> QED BY <1>2, <3>1, FS_Subset
  <2>2. Adds(G(t), f, t)
    BY <1>3, <2>1
  <2>3. G(t)[t] = IF t = {} THEN 0 ELSE f[Pick(t)] + G(t)[t \ {Pick(t)}]
    BY <2>2, AddsWhole
  <2>4. step(t) = IF t = {} THEN 0 ELSE f[Pick(t)] + G(t \ {Pick(t)})[t \ {Pick(t)}]
    BY DEF step
  <2>5. ASSUME t # {} PROVE G(t)[t \ {Pick(t)}] = G(t \ {Pick(t)})[t \ {Pick(t)}]
    <3> PICK r : r = t \ {Pick(t)}
      OBVIOUS
    <3>1. r \in SUBSET t /\ r \in SUBSET U /\ r # U /\ IsFiniteSet(r)
      <4>1. r \in SUBSET t /\ r \in SUBSET U /\ r # U
        BY <2>1, <2>5, Picked
      <4> QED BY <2>1, <4>1, FS_Subset
    <3>2. Adds(G(r), f, r)
      BY <1>3, <3>1
    <3>3. G(t)[r] = G(r)[r]
      BY <2>2, <3>1, <3>2, SameSums
    <3> QED BY <3>3
  <2>6. g[t] = G(t)[t]
    BY <1>4, <2>1, <2>3, <2>4, <2>5
  <2>7. step(s) = f[Pick(s)] + G(t)[t]
    BY <1>5 DEF step
  <2> QED BY <2>6, <2>7
<1>6. step({}) = 0
  BY DEF step
<1>7. Adds(g, f, U)
  <2>1. g = [s \in SUBSET U |-> IF s = {} THEN 0 ELSE f[Pick(s)] + g[s \ {Pick(s)}]]
    BY <1>5, <1>6
  <2> QED BY <2>1 DEF Adds
<1> QED BY <1>2, <1>7

(*-------------------------------- sums --------------------------------*)
LEMMA SumAdds ==
  ASSUME NEW f, NEW S, IsFiniteSet(S), NEW g, Adds(g, f, S), NEW T \in SUBSET S
  PROVE  SumFunctionOnSet(f, T) = g[T]
<1>1. IsFiniteSet(T)
  BY FS_Subset
<1> PICK h : h = CHOOSE e : Adds(e, f, T)
  OBVIOUS
<1>2. Adds(h, f, T)
  BY <1>1, SumsExist
<1>3. T \in SUBSET T /\ T \subseteq S /\ \A x \in T : f[x] = f[x]
  OBVIOUS
<1>4. h[T] = g[T]
  BY <1>1, <1>2, <1>3, SameSums
<1>5. SumFunctionOnSet(f, T) = h[T]
  BY SumsUnfold
<1> QED BY <1>4, <1>5

LEMMA SumEmpty == ASSUME NEW f PROVE SumFunctionOnSet(f, {}) = 0
<1>1. PICK g : Adds(g, f, {})
  BY SumsExist, FS_EmptySet
<1>2. g[{}] = 0
  BY <1>1, AddsWhole
<1>3. SumFunctionOnSet(f, {}) = g[{}]
  BY <1>1, SumAdds, FS_EmptySet
<1> QED BY <1>2, <1>3

LEMMA SumPick ==
  ASSUME NEW f, NEW S, IsFiniteSet(S), S # {}
  PROVE  /\ Pick(S) \in S
         /\ SumFunctionOnSet(f, S) = f[Pick(S)] + SumFunctionOnSet(f, S \ {Pick(S)})
<1>1. PICK g : Adds(g, f, S)
  BY SumsExist
<1>2. g[S] = f[Pick(S)] + g[S \ {Pick(S)}]
  BY <1>1, AddsWhole
<1> PICK r : r = S \ {Pick(S)}
  OBVIOUS
<1>3. S \in SUBSET S /\ r \in SUBSET S
  OBVIOUS
<1>4. SumFunctionOnSet(f, S) = g[S] /\ SumFunctionOnSet(f, r) = g[r]
  BY <1>1, <1>3, SumAdds
<1> QED BY <1>2, <1>4, Picked

LEMMA SumSame ==
  ASSUME NEW f, NEW e, NEW S, IsFiniteSet(S), \A x \in S : f[x] = e[x]
  PROVE  SumFunctionOnSet(f, S) = SumFunctionOnSet(e, S)
<1>1. PICK g : Adds(g, f, S)
  BY SumsExist
<1>2. PICK h : Adds(h, e, S)
  BY SumsExist
<1>3. S \in SUBSET S /\ S \subseteq S
  OBVIOUS
<1>4. g[S] = h[S]
  BY <1>1, <1>2, <1>3, SameSums
<1>5. SumFunctionOnSet(f, S) = g[S] /\ SumFunctionOnSet(e, S) = h[S]
  BY <1>1, <1>2, <1>3, SumAdds
<1> QED BY <1>4, <1>5

LEMMA SumType ==
  ASSUME NEW f, NEW S, IsFiniteSet(S), \A x \in S : f[x] \in Nat
  PROVE  SumFunctionOnSet(f, S) \in Nat
<1> DEFINE Bad(t) == SumFunctionOnSet(f, t) \notin Nat
<1> SUFFICES ASSUME Bad(S) PROVE FALSE
  OBVIOUS
<1> HIDE DEF Bad
<1> PICK bad : bad \subseteq SUBSET S /\ bad # {} /\ \A t \in SUBSET S : t \in bad <=> Bad(t)
  <2> WITNESS {t \in SUBSET S : Bad(t)}
  <2> QED OBVIOUS
<1>1. PICK t \in bad : \A y \in bad : y \subseteq t => y = t
  BY SmallestSubset
<1>2. t \in SUBSET S /\ Bad(t) /\ IsFiniteSet(t)
  <2>1. t \in SUBSET S
    BY <1>1
  <2> QED BY <1>1, <2>1, FS_Subset
<1>3. t # {}
  BY <1>2, SumEmpty DEF Bad
<1> PICK r : r = t \ {Pick(t)}
  OBVIOUS
<1>4. Pick(t) \in t /\ SumFunctionOnSet(f, t) = f[Pick(t)] + SumFunctionOnSet(f, r)
  BY <1>2, <1>3, SumPick
<1>5. r \in SUBSET S /\ r \subseteq t /\ r # t
  BY <1>2, <1>4
<1>6. ~Bad(r)
  BY <1>1, <1>5
<1>7. f[Pick(t)] \in Nat
  BY <1>2, <1>4
<1> QED BY <1>2, <1>4, <1>6, <1>7 DEF Bad

\* Nothing but zeros.
LEMMA SumZero ==
  ASSUME NEW f, NEW S, IsFiniteSet(S), \A x \in S : f[x] = 0
  PROVE  SumFunctionOnSet(f, S) = 0
<1> DEFINE Bad(t) == SumFunctionOnSet(f, t) # 0
<1> SUFFICES ASSUME Bad(S) PROVE FALSE
  OBVIOUS
<1> HIDE DEF Bad
<1> PICK bad : bad \subseteq SUBSET S /\ bad # {} /\ \A t \in SUBSET S : t \in bad <=> Bad(t)
  <2> WITNESS {t \in SUBSET S : Bad(t)}
  <2> QED OBVIOUS
<1>1. PICK t \in bad : \A y \in bad : y \subseteq t => y = t
  BY SmallestSubset
<1>2. t \in SUBSET S /\ Bad(t) /\ IsFiniteSet(t)
  <2>1. t \in SUBSET S
    BY <1>1
  <2> QED BY <1>1, <2>1, FS_Subset
<1>3. t # {}
  BY <1>2, SumEmpty DEF Bad
<1> PICK r : r = t \ {Pick(t)}
  OBVIOUS
<1>4. Pick(t) \in t /\ SumFunctionOnSet(f, t) = f[Pick(t)] + SumFunctionOnSet(f, r)
  BY <1>2, <1>3, SumPick
<1>5. r \in SUBSET S /\ r \subseteq t /\ r # t
  BY <1>2, <1>4
<1>6. ~Bad(r)
  BY <1>1, <1>5
<1>7. f[Pick(t)] = 0
  BY <1>2, <1>4
<1> QED BY <1>2, <1>4, <1>6, <1>7 DEF Bad

\* The order in which the elements are taken does not matter.
LEMMA SumRemove ==
  ASSUME NEW f, NEW S, IsFiniteSet(S), \A x \in S : f[x] \in Nat, NEW a \in S
  PROVE  SumFunctionOnSet(f, S) = f[a] + SumFunctionOnSet(f, S \ {a})
<1> DEFINE Bad(t) == \E x \in t :
              SumFunctionOnSet(f, t) # f[x] + SumFunctionOnSet(f, t \ {x})
<1> SUFFICES ASSUME Bad(S) PROVE FALSE
  OBVIOUS
<1> HIDE DEF Bad
<1> PICK bad : bad \subseteq SUBSET S /\ bad # {} /\ \A t \in SUBSET S : t \in bad <=> Bad(t)
  <2> WITNESS {t \in SUBSET S : Bad(t)}
  <2> QED OBVIOUS
<1>1. PICK t \in bad : \A y \in bad : y \subseteq t => y = t
  BY SmallestSubset
<1>2. t \in SUBSET S /\ Bad(t)
  BY <1>1
<1>3. ASSUME NEW u \in SUBSET t PROVE IsFiniteSet(u) /\ SumFunctionOnSet(f, u) \in Nat
  <2>1. u \in SUBSET S
    BY <1>2
  <2>2. IsFiniteSet(u) /\ \A x \in u : f[x] \in Nat
    BY <2>1, FS_Subset
  <2> QED BY <2>2, SumType
<1>4. ASSUME NEW u \in SUBSET t, u # t, NEW y \in u
      PROVE  SumFunctionOnSet(f, u) = f[y] + SumFunctionOnSet(f, u \ {y})
  <2>1. u \in SUBSET S
    BY <1>2
  <2>2. ~Bad(u)
    BY <1>1, <1>4, <2>1
  <2> QED BY <2>2 DEF Bad
<1>5. PICK x \in t : SumFunctionOnSet(f, t) # f[x] + SumFunctionOnSet(f, t \ {x})
  BY <1>2 DEF Bad
<1> PICK c, u, v, w : c = Pick(t) /\ u = t \ {c} /\ v = t \ {x} /\ w = (t \ {c}) \ {x}
  OBVIOUS
<1>6. c \in t /\ SumFunctionOnSet(f, t) = f[c] + SumFunctionOnSet(f, u)
  BY <1>3, <1>5, SumPick
<1>7. c # x
  BY <1>5, <1>6
<1>8. u \in SUBSET t /\ u # t /\ x \in u /\ u \ {x} = w
  BY <1>5, <1>6, <1>7
<1>9. v \in SUBSET t /\ v # t /\ c \in v /\ v \ {c} = w /\ w \in SUBSET t
  BY <1>5, <1>6, <1>7
<1>10. SumFunctionOnSet(f, u) = f[x] + SumFunctionOnSet(f, w)
  BY <1>4, <1>8
<1>11. SumFunctionOnSet(f, v) = f[c] + SumFunctionOnSet(f, w)
  BY <1>4, <1>9
<1>12. f[c] \in Nat /\ f[x] \in Nat
  BY <1>2, <1>5, <1>6
<1>13. SumFunctionOnSet(f, w) \in Nat
  BY <1>3, <1>9
<1>14. SumFunctionOnSet(f, t) # f[x] + SumFunctionOnSet(f, v)
  BY <1>5
<1> QED BY <1>6, <1>10, <1>11, <1>12, <1>13, <1>14

\* A sum of which one summand changes.
LEMMA SumChange ==
  ASSUME NEW f, NEW e, NEW S, IsFiniteSet(S), NEW a \in S,
         \A x \in S : f[x] \in Nat /\ e[x] \in Nat /\ (x # a => f[x] = e[x])
  PROVE  SumFunctionOnSet(f, S) + e[a] = SumFunctionOnSet(e, S) + f[a]
<1> PICK r : r = S \ {a}
  OBVIOUS
<1>1. IsFiniteSet(r) /\ \A x \in r : f[x] \in Nat /\ f[x] = e[x]
  BY FS_RemoveElement
<1>2. SumFunctionOnSet(f, r) = SumFunctionOnSet(e, r) /\ SumFunctionOnSet(f, r) \in Nat
  BY <1>1, SumSame, SumType
<1>3. SumFunctionOnSet(f, S) = f[a] + SumFunctionOnSet(f, r)
  BY SumRemove
<1>4. SumFunctionOnSet(e, S) = e[a] + SumFunctionOnSet(e, r)
  BY SumRemove
<1>5. f[a] \in Nat /\ e[a] \in Nat
  OBVIOUS
<1> QED BY <1>2, <1>3, <1>4, <1>5

\* More summands do not make a sum smaller.
LEMMA SumMonotone ==
  ASSUME NEW f, NEW S, IsFiniteSet(S), \A x \in S : f[x] \in Nat, NEW T \in SUBSET S
  PROVE  SumFunctionOnSet(f, T) <= SumFunctionOnSet(f, S)
<1> DEFINE Bad(t) == T \subseteq t /\ ~(SumFunctionOnSet(f, T) <= SumFunctionOnSet(f, t))
<1> SUFFICES ASSUME Bad(S) PROVE FALSE
  OBVIOUS
<1> HIDE DEF Bad
<1> PICK bad : bad \subseteq SUBSET S /\ bad # {} /\ \A t \in SUBSET S : t \in bad <=> Bad(t)
  <2> WITNESS {t \in SUBSET S : Bad(t)}
  <2> QED OBVIOUS
<1>1. PICK t \in bad : \A y \in bad : y \subseteq t => y = t
  BY SmallestSubset
<1>2. t \in SUBSET S /\ Bad(t)
  BY <1>1
<1>3. ASSUME NEW u \in SUBSET S
      PROVE  IsFiniteSet(u) /\ SumFunctionOnSet(f, u) \in Nat /\ \A x \in u : f[x] \in Nat
  <2>1. IsFiniteSet(u) /\ \A x \in u : f[x] \in Nat
    BY FS_Subset
  <2> QED BY <2>1, SumType
<1>4. T \subseteq t /\ ~(SumFunctionOnSet(f, T) <= SumFunctionOnSet(f, t))
  BY <1>2 DEF Bad
<1>5. T # t
  BY <1>3, <1>4
<1>6. PICK x \in t : x \notin T
  BY <1>4, <1>5
<1> PICK r : r = t \ {x}
  OBVIOUS
<1>7. r \in SUBSET S /\ r \subseteq t /\ r # t /\ T \subseteq r
  BY <1>2, <1>4, <1>6
<1>8. SumFunctionOnSet(f, T) <= SumFunctionOnSet(f, r)
  BY <1>1, <1>7 DEF Bad
<1>9. SumFunctionOnSet(f, t) = f[x] + SumFunctionOnSet(f, r)
  BY <1>2, <1>3, <1>6, SumRemove
<1>10. /\ SumFunctionOnSet(f, r) \in Nat /\ SumFunctionOnSet(f, T) \in Nat
       /\ f[x] \in Nat
  BY <1>2, <1>3, <1>6, <1>7
<1> QED BY <1>4, <1>8, <1>9, <1>10

(*------------------------------ the accounts ------------------------------*)
\* A reserve is held for an EVM action only, and while one is submitted it is held.
Holds(act) ==
  /\ act.reserve > 0 => Family[act.step] = "evm"
  /\ act.status = "submitted" /\ Family[act.step] = "evm" => act.reserve > 0

\* The reserve total is what the actions are charged.
Dues(s) == [a \in Actions |-> Charged(s.act[a])]
Balanced(s) ==
  s.resv = SumFunctionOnSet(Dues(s), Actions) /\ \A a \in Actions : Holds(s.act[a])

\* The record of the action counts transaction t: its row is done, or the attempt that t
\* belongs to ended in a revocation, with nothing but the approval recorded before it.
Counts(act, t) ==
  \/ t.attempt = act.attempt /\ t.idx # Revoke /\ act.item[t.idx] = "done"
  \/ t.attempt < act.attempt /\ t.idx \in {0, Revoke}
Counted(s, c, family) ==
  {k \in DOMAIN c : c[k].st = "ok" /\ Family[c[k].step] = family /\ Counts(s.act[c[k].a], c[k])}
\* Fee and value of a transaction.
Price(t)  == t.fee + (IF t.idx = Revoke THEN 0 ELSE Value[t.step][t.idx])
Prices(c) == [k \in DOMAIN c |-> Price(c[k])]
Spends(s, c) ==
  /\ s.spent <= SumFunctionOnSet(Prices(c), Counted(s, c, "evm"))
  /\ s.sol <= SumFunctionOnSet(Prices(c), Counted(s, c, "solana"))

\* What was broadcast for an action was of the step recorded of it.
Stepped(s, c) ==
  \A k \in DOMAIN c : s.act[c[k].a].status # "absent" /\ s.act[c[k].a].step = c[k].step

Accounts(s, c) == Balanced(s) /\ Spends(s, c) /\ Stepped(s, c)

\* What the row at hand is before it is recorded.
AtRows ==
  /\ pc \in {"prepare", "submit", "record"} => Cur.item[loc.idx] = "none"
  /\ pc = "confirm" => Cur.item[loc.idx] = "sent"
  /\ pc \in {"sprepare", "ssubmit", "srecord"} => Cur.item[0] = "none"
  /\ pc = "sconfirm" => Cur.item[0] = "sent"
  /\ pc \in {"rprepare", "rsubmit", "rconfirm"} => ~DownstreamSent(Cur)
  /\ pc = "ssubmit" => mem = disk

\* The inductive invariant.
AInv == KInv /\ AtRows /\ Accounts(mem, chain) /\ Accounts(disk, chain)

(*------------------------------ balancing ------------------------------*)
LEMMA ActionsFinite == IsFiniteSet(Actions)
BY FS_Interval, ShapeAssumption DEF Actions

LEMMA ChargedType == ASSUME NEW act, act \in ActionRec PROVE Charged(act) \in Nat
BY DEF Charged, ActionRec

\* One record changed, and the total with it.
LEMMA Rebalanced ==
  ASSUME NEW m, NEW s, m \in State, s \in State, Balanced(m), NEW a \in Actions,
         \A b \in Actions : b # a => s.act[b] = m.act[b],
         Holds(s.act[a]), s.resv + Charged(m.act[a]) = m.resv + Charged(s.act[a])
  PROVE  Balanced(s)
<1>1. \A b \in Actions : m.act[b] \in ActionRec /\ s.act[b] \in ActionRec
  BY DEF State
<1>2. \A b \in Actions : /\ Dues(m)[b] = Charged(m.act[b]) /\ Dues(s)[b] = Charged(s.act[b])
                         /\ Dues(m)[b] \in Nat /\ Dues(s)[b] \in Nat
  BY <1>1, ChargedType DEF Dues
<1>3. \A b \in Actions : b # a => Dues(m)[b] = Dues(s)[b]
  BY <1>2
<1>4. SumFunctionOnSet(Dues(m), Actions) + Dues(s)[a]
        = SumFunctionOnSet(Dues(s), Actions) + Dues(m)[a]
  BY <1>2, <1>3, ActionsFinite, SumChange
<1>5. /\ SumFunctionOnSet(Dues(m), Actions) \in Nat /\ SumFunctionOnSet(Dues(s), Actions) \in Nat
      /\ m.resv \in Nat /\ s.resv \in Nat
  BY <1>2, ActionsFinite, SumType DEF State
<1>6. m.resv = SumFunctionOnSet(Dues(m), Actions) /\ \A b \in Actions : Holds(m.act[b])
  BY DEF Balanced
<1>7. s.resv = SumFunctionOnSet(Dues(s), Actions)
  BY <1>2, <1>4, <1>5, <1>6
<1>8. \A b \in Actions : Holds(s.act[b])
  BY <1>6
<1> QED BY <1>7, <1>8 DEF Balanced

(*------------------------------ counting ------------------------------*)
LEMMA PriceType ==
  ASSUME NEW c \in Seq(Tx)
  PROVE  \A k \in DOMAIN c : Prices(c)[k] = Price(c[k]) /\ Prices(c)[k] \in Nat
<1> SUFFICES ASSUME NEW k \in DOMAIN c PROVE Prices(c)[k] = Price(c[k]) /\ Price(c[k]) \in Nat
  OBVIOUS
<1> PICK t : t = c[k]
  OBVIOUS
<1>1. t \in Tx
  OBVIOUS
<1>2. t.fee \in Nat /\ t.step \in Steps /\ (t.idx # Revoke => t.idx \in Idx)
  BY <1>1 DEF Tx
<1>3. t.idx # Revoke => Value[t.step][t.idx] \in Nat
  BY <1>2, ShapeAssumption
<1>4. Price(t) \in Nat
  BY <1>2, <1>3 DEF Price
<1> QED BY <1>4 DEF Prices

LEMMA ChainFinite == ASSUME NEW c \in Seq(Tx), NEW T \in SUBSET DOMAIN c PROVE IsFiniteSet(T)
<1>1. DOMAIN c = 1 .. Len(c) /\ Len(c) \in Nat
  OBVIOUS
<1>2. IsFiniteSet(1 .. Len(c))
  BY <1>1, FS_Interval
<1> QED BY <1>1, <1>2, FS_Subset

\* More counted, no less spent.
LEMMA MoreCounted ==
  ASSUME NEW c \in Seq(Tx), NEW S \in SUBSET DOMAIN c, NEW T \in SUBSET S
  PROVE  /\ SumFunctionOnSet(Prices(c), T) <= SumFunctionOnSet(Prices(c), S)
         /\ SumFunctionOnSet(Prices(c), T) \in Nat /\ SumFunctionOnSet(Prices(c), S) \in Nat
<1>1. IsFiniteSet(S) /\ IsFiniteSet(T)
  BY ChainFinite
<1>2. \A k \in S : Prices(c)[k] \in Nat
  BY PriceType
<1> QED BY <1>1, <1>2, SumMonotone, SumType

LEMMA OneMoreCounted ==
  ASSUME NEW c \in Seq(Tx), NEW S \in SUBSET DOMAIN c, NEW T \in SUBSET S,
         NEW k \in S, k \notin T
  PROVE  /\ SumFunctionOnSet(Prices(c), T) + Price(c[k]) <= SumFunctionOnSet(Prices(c), S)
         /\ SumFunctionOnSet(Prices(c), T) \in Nat /\ Price(c[k]) \in Nat
<1> PICK r : r = S \ {k}
  OBVIOUS
<1>1. IsFiniteSet(S) /\ T \in SUBSET r /\ r \in SUBSET DOMAIN c
  BY ChainFinite
<1>2. SumFunctionOnSet(Prices(c), S) = Prices(c)[k] + SumFunctionOnSet(Prices(c), r)
  BY <1>1, PriceType, SumRemove
<1>3. /\ SumFunctionOnSet(Prices(c), T) <= SumFunctionOnSet(Prices(c), r)
      /\ SumFunctionOnSet(Prices(c), T) \in Nat /\ SumFunctionOnSet(Prices(c), r) \in Nat
  BY <1>1, MoreCounted
<1>4. Prices(c)[k] = Price(c[k]) /\ Prices(c)[k] \in Nat
  BY PriceType
<1> QED BY <1>2, <1>3, <1>4

\* d goes on where c was: what was mined stays as it is.
Grown(c, d) ==
  DOMAIN c \subseteq DOMAIN d /\ \A k \in DOMAIN c : c[k].st = "ok" => d[k] = c[k]

LEMMA SpendsOn ==
  ASSUME NEW c \in Seq(Tx), NEW d \in Seq(Tx), Grown(c, d), NEW s, s \in State, Spends(s, c)
  PROVE  Spends(s, d)
<1> SUFFICES ASSUME NEW f
             PROVE  /\ SumFunctionOnSet(Prices(c), Counted(s, c, f))
                         <= SumFunctionOnSet(Prices(d), Counted(s, d, f))
                    /\ SumFunctionOnSet(Prices(c), Counted(s, c, f)) \in Nat
                    /\ SumFunctionOnSet(Prices(d), Counted(s, d, f)) \in Nat
  BY DEF Spends, State
<1> PICK S, T : S = Counted(s, d, f) /\ T = Counted(s, c, f)
  OBVIOUS
<1>1. T \subseteq DOMAIN c /\ S \subseteq DOMAIN d /\ \A k \in T : d[k] = c[k]
  BY DEF Counted, Grown
<1>2. T \subseteq S
  BY <1>1 DEF Counted, Grown
<1>3. \A k \in T : Prices(c)[k] = Prices(d)[k]
  BY <1>1, <1>2 DEF Prices
<1>4. SumFunctionOnSet(Prices(c), T) = SumFunctionOnSet(Prices(d), T)
  BY <1>1, <1>3, ChainFinite, SumSame
<1> QED BY <1>1, <1>2, <1>4, MoreCounted

(*------------------------------ a step of an action ------------------------------*)
\* x counts what the record of the action counts, and is of its step.
CountsOn(x) ==
  /\ x.status # "absent" /\ (Cur.status # "absent" => x.step = Cur.step)
  /\ \/ x.attempt = Cur.attempt /\ \A i \in Idx : Cur.item[i] = "done" => x.item[i] = "done"
     \/ x.attempt = Cur.attempt + 1 /\ ~DownstreamSent(Cur)

\* Where an action is executed nothing but its reserve is charged for it.
LEMMA ExecCharged ==
  ASSUME AInv, pc \in ExecPcs, pc # "settle"
  PROVE  /\ mem \in State /\ mem.act \in [Actions -> ActionRec] /\ loc.a \in Actions
         /\ Cur = mem.act[loc.a] /\ Cur \in ActionRec /\ chain \in Seq(Tx)
         /\ Charged(Cur) = Cur.reserve /\ Holds(Cur) /\ Cur.reserve \in Nat /\ mem.resv \in Nat
         /\ Balanced(mem) /\ Spends(mem, chain) /\ Stepped(mem, chain)
<1>1. LInv /\ Accounts(mem, chain)
  BY DEF AInv, KInv
<1>2. /\ mem \in State /\ mem.act \in [Actions -> ActionRec] /\ loc.a \in Actions
      /\ Cur = mem.act[loc.a] /\ Cur \in ActionRec /\ chain \in Seq(Tx)
  BY <1>1, Typed DEF Sound, IInv, WorldOK, WorldTypeOK
<1>3. Cur.status \notin {"confirmed", "observed"}
  BY <1>1, Executed
<1>4. Cur.reserve \in Nat /\ mem.resv \in Nat
  BY <1>2 DEF State, ActionRec
<1>5. Charged(Cur) = Cur.reserve
  BY <1>3, <1>4 DEF Charged
<1> QED BY <1>1, <1>2, <1>4, <1>5 DEF Accounts, Balanced

LEMMA Recounted ==
  ASSUME AInv, pc \in ExecPcs, pc # "settle", NEW s, s \in State, NEW x,
         s.act = [mem.act EXCEPT ![loc.a] = x], CountsOn(x)
  PROVE  /\ \A f : Counted(mem, chain, f) \subseteq Counted(s, chain, f)
         /\ \A f : Counted(s, chain, f) \subseteq DOMAIN chain
         /\ Stepped(s, chain)
<1>1. /\ mem.act \in [Actions -> ActionRec] /\ loc.a \in Actions
      /\ Cur = mem.act[loc.a] /\ Cur \in ActionRec /\ chain \in Seq(Tx) /\ Stepped(mem, chain)
  BY ExecCharged
<1>2. \A a \in Actions : s.act[a] = IF a = loc.a THEN x ELSE mem.act[a]
  BY <1>1
<1>3. ASSUME NEW k \in DOMAIN chain, NEW t, t = chain[k]
      PROVE  /\ Counts(mem.act[t.a], t) => Counts(s.act[t.a], t)
             /\ s.act[t.a].status # "absent" /\ s.act[t.a].step = t.step
  <2>0. t \in Tx
    BY <1>1, <1>3
  <2>1. t.a \in Actions /\ (t.idx # Revoke => t.idx \in Idx)
    BY <2>0 DEF Tx
  <2>2. mem.act[t.a].status # "absent" /\ mem.act[t.a].step = t.step
    BY <1>1, <1>3 DEF Stepped
  <2>3. Counts(Cur, t) => Counts(x, t)
    <3>1. Cur.attempt \in Nat /\ t.attempt \in Nat
      BY <1>1, <2>0 DEF ActionRec, Tx
    <3>2. CASE /\ x.attempt = Cur.attempt
               /\ \A i \in Idx : Cur.item[i] = "done" => x.item[i] = "done"
      BY <2>1, <3>2 DEF Counts
    <3>3. CASE x.attempt = Cur.attempt + 1 /\ ~DownstreamSent(Cur)
      <4>1. \A i \in Idx : Cur.item[i] = "done" => i = 0
        BY <3>3 DEF DownstreamSent, Sent, Idx
      <4> QED BY <2>1, <3>1, <3>3, <4>1 DEF Counts
    <3> QED BY <3>2, <3>3 DEF CountsOn
  <2> QED BY <1>1, <1>2, <2>1, <2>2, <2>3 DEF CountsOn
<1> QED BY <1>3 DEF Counted, Stepped

\* A step that spends nothing.
LEMMA Unspent ==
  ASSUME AInv, pc \in ExecPcs, pc # "settle", NEW s, s \in State, NEW x,
         s.act = [mem.act EXCEPT ![loc.a] = x], CountsOn(x),
         s.spent = mem.spent, s.sol = mem.sol
  PROVE  Spends(s, chain) /\ Stepped(s, chain)
<1>1. Spends(mem, chain) /\ chain \in Seq(Tx) /\ mem \in State
  BY ExecCharged
<1>2. /\ \A f : Counted(mem, chain, f) \subseteq Counted(s, chain, f)
      /\ \A f : Counted(s, chain, f) \subseteq DOMAIN chain
      /\ Stepped(s, chain)
  BY Recounted
<1>3. ASSUME NEW f
      PROVE  /\ SumFunctionOnSet(Prices(chain), Counted(mem, chain, f))
                  <= SumFunctionOnSet(Prices(chain), Counted(s, chain, f))
             /\ SumFunctionOnSet(Prices(chain), Counted(mem, chain, f)) \in Nat
             /\ SumFunctionOnSet(Prices(chain), Counted(s, chain, f)) \in Nat
  BY <1>1, <1>2, MoreCounted
<1>4. mem.spent \in Nat /\ mem.sol \in Nat
  BY <1>1 DEF State
<1> QED BY <1>1, <1>2, <1>3, <1>4 DEF Spends

\* The record of the action being executed, and what is reserved for it.
LEMMA ExecBalanced ==
  ASSUME AInv, pc \in ExecPcs, pc # "settle", NEW s, s \in State, NEW x,
         s.act = [mem.act EXCEPT ![loc.a] = x], Holds(x),
         s.resv + Cur.reserve = mem.resv + Charged(x)
  PROVE  Balanced(s)
<1>1. /\ mem \in State /\ mem.act \in [Actions -> ActionRec] /\ loc.a \in Actions
      /\ Cur = mem.act[loc.a] /\ Balanced(mem) /\ Charged(Cur) = Cur.reserve
  BY ExecCharged
<1>2. s.act[loc.a] = x /\ \A b \in Actions : b # loc.a => s.act[b] = mem.act[b]
  BY <1>1
<1> QED BY <1>1, <1>2, Rebalanced

LEMMA ExecAccounts ==
  ASSUME AInv, pc \in ExecPcs, pc # "settle", NEW s, s \in State, NEW x,
         s.act = [mem.act EXCEPT ![loc.a] = x], CountsOn(x), Holds(x),
         s.spent = mem.spent, s.sol = mem.sol,
         s.resv + Cur.reserve = mem.resv + Charged(x)
  PROVE  Accounts(s, chain)
BY Unspent, ExecBalanced DEF Accounts

\* A charge is the reserve unless the action is settled.
LEMMA Uncharged ==
  ASSUME NEW x, x.reserve \in Nat, x.status \notin {"confirmed", "observed"} \/ x.reserve > 0
  PROVE  Charged(x) = x.reserve
BY DEF Charged

\* ActionState, and the statuses of the rows.
LEMMA OpenedAccounts ==
  ASSUME AInv, pc \in ExecPcs, pc # "settle", NEW m, m = ActionState(mem), m \in State
  PROVE  Accounts(m, chain)
<1>1. LInv /\ mem \in State /\ Cur \in ActionRec /\ Cur.reserve \in Nat /\ Holds(Cur)
  BY ExecCharged DEF AInv, KInv
<1> PICK x : x = m.act[loc.a]
  OBVIOUS
<1>2. /\ m.act = [mem.act EXCEPT ![loc.a] = x]
      /\ x.status \notin {"absent", "confirmed", "observed"}
      /\ x.reserve = Cur.reserve /\ x.item = Cur.item /\ x.attempt = Cur.attempt
      /\ x.step = loc.step /\ x.status \in {"ready", Cur.status}
  BY <1>1, Opened
<1>3. /\ Cur.status # "absent" => Cur.step = loc.step
      /\ Cur.status = "absent" => Cur.reserve = 0
  BY <1>1, Executed, Typed DEF Recorded, NoAction
<1>4. CountsOn(x)
  BY <1>2, <1>3 DEF CountsOn
<1>5. Holds(x)
  BY <1>1, <1>2, <1>3 DEF Holds
<1>6. m.resv = mem.resv /\ m.spent = mem.spent /\ m.sol = mem.sol
  BY <1>1 DEF ActionState, State
<1>7. Charged(x) = Cur.reserve
  BY <1>1, <1>2, Uncharged
<1> QED BY <1>2, <1>4, <1>5, <1>6, <1>7, ExecAccounts

\* A new status short of the settlement.
LEMMA StatusAccounts ==
  ASSUME AInv, pc \in ExecPcs, pc # "settle", Cur.status # "absent",
         NEW st, st \notin {"absent", "submitted"},
         st = "confirmed" => Cur.reserve > 0 \/ Family[Cur.step] # "evm",
         st # "observed",
         NEW s, s \in State, StatusRow(s, st)
  PROVE  Accounts(s, chain)
<1>1. mem \in State /\ Cur = mem.act[loc.a] /\ loc.a \in Actions /\ Cur \in ActionRec
      /\ Cur.reserve \in Nat /\ Holds(Cur)
  BY ExecCharged
<1> PICK x : x = [Cur EXCEPT !.status = st]
  OBVIOUS
<1>2. s.act = [mem.act EXCEPT ![loc.a] = x]
  BY <1>1 DEF StatusRow, State
<1>3. s.resv = mem.resv /\ s.spent = mem.spent /\ s.sol = mem.sol
  BY <1>1 DEF StatusRow, State
<1>4. x.status = st /\ x.reserve = Cur.reserve /\ x.item = Cur.item /\ x.attempt = Cur.attempt
      /\ x.step = Cur.step
  BY <1>1 DEF ActionRec
<1>5. CountsOn(x) /\ Holds(x)
  BY <1>1, <1>4 DEF CountsOn, Holds
<1>6. Charged(x) = Cur.reserve
  BY <1>1, <1>4 DEF Charged, Holds
<1> QED BY <1>2, <1>3, <1>5, <1>6, ExecAccounts

\* Nothing is written, or what memory holds is saved.
LEMMA UnwrittenAccounts ==
  ASSUME AInv, mem' \in {mem, disk}, disk' \in {mem, disk}
  PROVE  Accounts(mem', chain) /\ Accounts(disk', chain)
BY DEF AInv

LEMMA WrittenAccounts ==
  ASSUME AInv, Accounts(mem', chain), disk' \in {mem', mem, disk}
  PROVE  Accounts(mem', chain) /\ Accounts(disk', chain)
BY DEF AInv

\* What a step writes keeps the accounts, on the chain as it was before the step.
AccountsKept == Accounts(mem', chain) /\ Accounts(disk', chain)

LEMMA StateNext == ASSUME LInv' PROVE mem' \in State /\ disk' \in State
BY DEF LInv, IInv, Sound

(*---------------------------- executing an action ----------------------------*)
LEMMA ReserveAccounts == AInv /\ LInv' /\ EvmReserve => AccountsKept
<1> SUFFICES ASSUME AInv, LInv', EvmReserve PROVE AccountsKept
  OBVIOUS
<1>1. pc = "evm" /\ pc \in ExecPcs /\ pc # "settle" /\ LInv
  BY DEF EvmReserve, ExecPcs, EvmPcs, AInv, KInv
<1> PICK m, r, x : m = ActionState(mem) /\ r = StepReserve[loc.step] /\ x = m.act[loc.a]
  OBVIOUS
<1>2. mem' \in State /\ disk' \in State
  BY StateNext
<1>3. CASE Stop(disk)
  BY <1>3, UnwrittenAccounts DEF Stop, AccountsKept
<1>4. CASE Write(m)
  BY <1>1, <1>2, <1>4, OpenedAccounts, WrittenAccounts DEF Write, AccountsKept
<1>5. CASE Cur.reserve = 0 /\ Write(ReserveFor(m, r))
  <2>1. /\ mem \in State /\ mem.act \in [Actions -> ActionRec] /\ loc.a \in Actions
        /\ mem.resv \in Nat /\ Holds(Cur)
    BY <1>1, ExecCharged
  <2>2. m \in State /\ m.act \in [Actions -> ActionRec] /\ x \in ActionRec
    BY <1>1, Typed, ActionStateSound DEF Sound, State
  <2>3. /\ m.act = [mem.act EXCEPT ![loc.a] = x]
        /\ x.status \notin {"absent", "confirmed", "observed"}
        /\ x.item = Cur.item /\ x.attempt = Cur.attempt /\ x.step = loc.step
    BY <1>1, Opened
  <2>4. /\ Cur.status # "absent" => Cur.step = loc.step
        /\ r \in Nat /\ r > 0 /\ Family[loc.step] = "evm"
    BY <1>1, Executed DEF Executing, EvmPcs
  <2>5. m.resv = mem.resv /\ m.spent = mem.spent /\ m.sol = mem.sol
    BY <2>1 DEF ActionState, State
  <2> PICK s, y : s = ReserveFor(m, r) /\ y = [x EXCEPT !.reserve = r]
    OBVIOUS
  <2>6. s = [m EXCEPT !.resv = @ + r, !.act[loc.a].reserve = r]
    BY DEF ReserveFor
  <2>7. s.act = [m.act EXCEPT ![loc.a] = y]
    BY <2>1, <2>2, <2>6 DEF State
  <2>8. s.act = [mem.act EXCEPT ![loc.a] = y]
    BY <2>1, <2>3, <2>7
  <2>9. s.resv = mem.resv + r /\ s.spent = mem.spent /\ s.sol = mem.sol
    BY <2>2, <2>5, <2>6 DEF State
  <2>10. y.reserve = r /\ y.status = x.status /\ y.item = x.item /\ y.attempt = x.attempt
         /\ y.step = x.step
    BY <2>2 DEF ActionRec
  <2>11. CountsOn(y) /\ Holds(y)
    BY <2>3, <2>4, <2>10 DEF CountsOn, Holds
  <2>12. s.resv + Cur.reserve = mem.resv + Charged(y)
    <3>1. y.reserve \in Nat /\ y.status \notin {"confirmed", "observed"}
      BY <2>3, <2>4, <2>10
    <3>2. Charged(y) = r
      BY <2>10, <3>1, Uncharged
    <3> QED BY <1>5, <2>1, <2>4, <2>9, <3>2
  <2>13. mem' = s /\ disk' = s
    BY <1>5 DEF Write
  <2>14. Accounts(s, chain)
    BY <1>1, <1>2, <2>8, <2>9, <2>11, <2>12, <2>13, ExecAccounts
  <2> QED BY <2>13, <2>14 DEF AccountsKept
<1> QED BY <1>3, <1>4, <1>5 DEF EvmReserve

LEMMA RowAccounts == AInv /\ LInv' /\ (EvmRow \/ SolDone) => AccountsKept
<1> SUFFICES ASSUME AInv, LInv', EvmRow \/ SolDone PROVE AccountsKept
  OBVIOUS
<1>1. pc \in {"rows", "sdone"} /\ pc \in ExecPcs /\ pc # "settle" /\ LInv
  BY DEF EvmRow, SolDone, ExecPcs, EvmPcs, SolPcs, AInv, KInv
<1>2. mem' \in State
  BY StateNext
<1>3. CASE Keep
  BY <1>3, UnwrittenAccounts DEF Keep, AccountsKept
<1>4. CASE mem' = [mem EXCEPT !.act[loc.a].status = "confirmed"] /\ disk' \in {mem', disk}
  <2>1. StatusRow(mem', "confirmed")
    BY <1>4 DEF StatusRow
  <2>2. Cur.status # "absent" /\ (Cur.reserve > 0 \/ Family[Cur.step] # "evm")
    <3>1. /\ Cur.status # "absent" /\ Cur.step = loc.step
          /\ pc = "rows" => Cur.reserve = StepReserve[loc.step]
          /\ pc = "sdone" => Family[loc.step] = "solana"
          /\ StepReserve[loc.step] \in Nat \ {0}
      BY <1>1, Executed DEF Executing, EvmPcs
    <3> QED BY <1>1, <3>1
  <2>3. Accounts(mem', chain)
    BY <1>1, <1>2, <2>1, <2>2, StatusAccounts
  <2> QED BY <1>4, <2>3, WrittenAccounts DEF AccountsKept
<1> QED BY <1>3, <1>4 DEF EvmRow, SolDone, Write

LEMMA PrepareAccounts == AInv /\ LInv' /\ EvmPrepare => AccountsKept
<1> SUFFICES ASSUME AInv, LInv', EvmPrepare PROVE AccountsKept
  OBVIOUS
<1>1. pc = "prepare" /\ pc \in ExecPcs /\ pc # "settle" /\ LInv /\ mem' \in State
  BY StateNext DEF EvmPrepare, ExecPcs, EvmPcs, AInv, KInv
<1>2. CASE Keep
  BY <1>2, UnwrittenAccounts DEF Keep, AccountsKept
<1>3. CASE mem' = Announce(mem) /\ disk' \in {mem', disk}
  <2>1. StatusRow(mem', Attempted)
    BY <1>3 DEF StatusRow, Announce
  <2>2. Cur.status # "absent"
    BY <1>1, Executed DEF Executing
  <2>3. Attempted \notin {"absent", "submitted", "confirmed", "observed"}
    BY DEF Attempted
  <2>4. Accounts(mem', chain)
    BY <1>1, <2>1, <2>2, <2>3, StatusAccounts
  <2> QED BY <1>3, <2>4, WrittenAccounts DEF AccountsKept
<1> QED BY <1>2, <1>3 DEF EvmPrepare, Write, SaveFails

\* A step that spends what one more counted transaction cost.
LEMMA SpentOne ==
  ASSUME AInv, pc \in ExecPcs, pc # "settle", NEW s, s \in State, NEW x,
         s.act = [mem.act EXCEPT ![loc.a] = x], CountsOn(x),
         NEW f \in {"evm", "solana"},
         NEW k \in Counted(s, chain, f), k \notin Counted(mem, chain, f),
         s.spent <= mem.spent + (IF f = "evm" THEN Price(chain[k]) ELSE 0),
         s.sol <= mem.sol + (IF f = "solana" THEN Price(chain[k]) ELSE 0)
  PROVE  Spends(s, chain) /\ Stepped(s, chain)
<1>1. Spends(mem, chain) /\ chain \in Seq(Tx) /\ mem \in State
  BY ExecCharged
<1>2. /\ \A g : Counted(mem, chain, g) \subseteq Counted(s, chain, g)
      /\ \A g : Counted(s, chain, g) \subseteq DOMAIN chain
      /\ Stepped(s, chain)
  BY Recounted
<1>3. ASSUME NEW g
      PROVE  /\ SumFunctionOnSet(Prices(chain), Counted(mem, chain, g))
                  <= SumFunctionOnSet(Prices(chain), Counted(s, chain, g))
             /\ SumFunctionOnSet(Prices(chain), Counted(mem, chain, g)) \in Nat
             /\ SumFunctionOnSet(Prices(chain), Counted(s, chain, g)) \in Nat
  BY <1>1, <1>2, MoreCounted
<1>4. /\ SumFunctionOnSet(Prices(chain), Counted(mem, chain, f)) + Price(chain[k])
           <= SumFunctionOnSet(Prices(chain), Counted(s, chain, f))
      /\ Price(chain[k]) \in Nat
  BY <1>1, <1>2, OneMoreCounted
<1>5. mem.spent \in Nat /\ mem.sol \in Nat /\ s.spent \in Nat /\ s.sol \in Nat
  BY <1>1 DEF State
<1>6. CASE f = "evm"
  BY <1>1, <1>2, <1>3, <1>4, <1>5, <1>6 DEF Spends
<1>7. CASE f = "solana"
  BY <1>1, <1>2, <1>3, <1>4, <1>5, <1>7 DEF Spends
<1> QED BY <1>6, <1>7

LEMMA ExecSpent ==
  ASSUME AInv, pc \in ExecPcs, pc # "settle", NEW s, s \in State, NEW x,
         s.act = [mem.act EXCEPT ![loc.a] = x], CountsOn(x), Holds(x),
         NEW f \in {"evm", "solana"},
         NEW k \in Counted(s, chain, f), k \notin Counted(mem, chain, f),
         s.spent <= mem.spent + (IF f = "evm" THEN Price(chain[k]) ELSE 0),
         s.sol <= mem.sol + (IF f = "solana" THEN Price(chain[k]) ELSE 0),
         s.resv + Cur.reserve = mem.resv + Charged(x)
  PROVE  Accounts(s, chain)
BY SpentOne, ExecBalanced DEF Accounts

\* A receipt of the attempt at hand is of the step recorded.
LEMMA ReceiptOf ==
  ASSUME AInv, pc \in ExecPcs, pc # "settle", NEW i, NEW k \in Receipts(i)
  PROVE  /\ k \in DOMAIN chain /\ chain[k].st = "ok" /\ chain[k].a = loc.a
         /\ chain[k].attempt = Cur.attempt /\ chain[k].idx = i /\ chain[k].step = Cur.step
         /\ chain[k].fee \in Nat /\ Cur.step = loc.step
<1>1. /\ k \in DOMAIN chain /\ chain[k].st = "ok" /\ chain[k].a = loc.a
      /\ chain[k].attempt = Cur.attempt /\ chain[k].idx = i
  BY DEF Receipts, TxOf
<1>2. Stepped(mem, chain) /\ chain \in Seq(Tx) /\ Cur = mem.act[loc.a] /\ LInv
  BY ExecCharged DEF AInv, KInv
<1>3. Cur.status # "absent" /\ chain[k].step = Cur.step
  BY <1>1, <1>2 DEF Stepped
<1>4. Cur.step = loc.step
  BY <1>2, <1>3, Executed
<1> PICK t : t = chain[k]
  OBVIOUS
<1>5. t \in Tx
  BY <1>1, <1>2
<1>6. t.fee \in Nat
  BY <1>5 DEF Tx
<1> QED BY <1>1, <1>3, <1>4, <1>6

LEMMA RecordAccounts == AInv /\ LInv' /\ EvmRecord => AccountsKept
<1> SUFFICES ASSUME AInv, LInv', EvmRecord PROVE AccountsKept
  OBVIOUS
<1>1. pc = "record" /\ pc \in ExecPcs /\ pc # "settle" /\ LInv /\ mem' \in State
  BY StateNext DEF EvmRecord, ExecPcs, EvmPcs, AInv, KInv
<1>2. AtRow
  BY <1>1, WorkedOn
<1>3. /\ mem \in State /\ mem.act \in [Actions -> ActionRec] /\ loc.a \in Actions
      /\ Cur = mem.act[loc.a] /\ Cur \in ActionRec /\ loc.idx \in Idx
  BY <1>2 DEF AtRow
<1> PICK s, x : /\ s = RecordHash(mem)
                /\ x = [Cur EXCEPT !.item = [@ EXCEPT ![loc.idx] = "sent"],
                                   !.paid = @ + Value[loc.step][loc.idx], !.status = "submitted"]
  OBVIOUS
<1>4. s.act = [mem.act EXCEPT ![loc.a] = x]
  BY <1>2, HashRecord DEF HashRow
<1>5. mem' = s /\ disk' \in {mem', disk}
  BY DEF EvmRecord, Write, SaveFails
<1>6. s.resv = mem.resv /\ s.spent = mem.spent /\ s.sol = mem.sol
  BY <1>3 DEF RecordHash, State
<1>7. /\ x.status = "submitted" /\ x.step = Cur.step /\ x.attempt = Cur.attempt
      /\ x.reserve = Cur.reserve
      /\ \A i \in Idx : i # loc.idx => x.item[i] = Cur.item[i]
  BY <1>3 DEF ActionRec
<1>8. /\ Cur.reserve = StepReserve[loc.step] /\ StepReserve[loc.step] \in Nat \ {0}
      /\ Cur.step = loc.step /\ Family[loc.step] = "evm"
  BY <1>1, Executed DEF Executing, EvmPcs, RowPcs
<1>9. Cur.item[loc.idx] # "done"
  BY <1>1 DEF AInv, AtRows
<1>10. CountsOn(x) /\ Holds(x)
  BY <1>7, <1>8, <1>9 DEF CountsOn, Holds
<1>11. Charged(x) = Cur.reserve
  BY <1>7, <1>8, Uncharged
<1>12. mem.resv \in Nat /\ Cur.reserve \in Nat
  BY <1>3, <1>8 DEF State
<1>13. Accounts(s, chain)
  BY <1>1, <1>4, <1>5, <1>6, <1>10, <1>11, <1>12, ExecAccounts
<1> QED BY <1>5, <1>13, WrittenAccounts DEF AccountsKept

LEMMA ConfirmAccounts == AInv /\ LInv' /\ EvmConfirm => AccountsKept
<1> SUFFICES ASSUME AInv, LInv', EvmConfirm PROVE AccountsKept
  OBVIOUS
<1>1. pc = "confirm" /\ pc \in ExecPcs /\ pc # "settle" /\ LInv /\ mem' \in State
  BY StateNext DEF EvmConfirm, ExecPcs, EvmPcs, AInv, KInv
<1>2. AtRow
  BY <1>1, WorkedOn
<1>3. /\ mem \in State /\ mem.act \in [Actions -> ActionRec] /\ loc.a \in Actions
      /\ Cur = mem.act[loc.a] /\ Cur \in ActionRec /\ loc.idx \in Idx
  BY <1>2 DEF AtRow
<1>4. CASE Keep
  BY <1>4, UnwrittenAccounts DEF Keep, AccountsKept
<1>5. ASSUME NEW k \in Receipts(loc.idx), mem' = RecordActual(mem, chain[k].fee),
             disk' \in {mem', disk}
      PROVE  AccountsKept
  <2> PICK s, fee, t, x : /\ s = RecordActual(mem, fee) /\ fee = chain[k].fee /\ t = chain[k]
                       /\ x = [Cur EXCEPT !.item = [@ EXCEPT ![loc.idx] = "done"], !.paid = @ + fee]
    OBVIOUS
  <2>1. /\ k \in DOMAIN chain /\ t.st = "ok" /\ t.a = loc.a /\ t.attempt = Cur.attempt
        /\ t.idx = loc.idx /\ t.step = Cur.step /\ t.fee = fee /\ fee \in Nat
        /\ Cur.step = loc.step
    BY <1>1, ReceiptOf
  <2>2. s.act = [mem.act EXCEPT ![loc.a] = x]
    BY <1>2, ActualRecord DEF ActualRow
  <2>3. mem' = s
    BY <1>5
  <2>4. /\ s.resv = mem.resv /\ s.spent = mem.spent + fee + Value[loc.step][loc.idx]
        /\ s.sol = mem.sol
    BY <1>3 DEF RecordActual, State
  <2>5. /\ x.status = Cur.status /\ x.step = Cur.step /\ x.attempt = Cur.attempt
        /\ x.reserve = Cur.reserve /\ x.item[loc.idx] = "done"
        /\ \A i \in Idx : i # loc.idx => x.item[i] = Cur.item[i]
    BY <1>3 DEF ActionRec
  <2>6. /\ Cur.status \notin {"absent", "confirmed", "observed"} /\ Family[loc.step] = "evm"
        /\ loc.step \in Steps /\ Holds(Cur)
    BY <1>1, Executed, ExecCharged, Typed DEF Executing, EvmPcs
  <2>7. CountsOn(x) /\ Holds(x)
    BY <2>5, <2>6 DEF CountsOn, Holds
  <2>8. Charged(x) = Cur.reserve /\ mem.resv \in Nat /\ Cur.reserve \in Nat
    <3>1. mem.resv \in Nat /\ Cur.reserve \in Nat
      BY <1>1, ExecCharged
    <3> QED BY <2>5, <2>6, <3>1, Uncharged
  <2>9. Cur.item[loc.idx] = "sent" /\ loc.idx # Revoke /\ Cur.attempt \in Nat
    BY <1>1, <1>3, ShapeAssumption DEF AInv, AtRows, Idx, Revoke, ActionRec
  <2>10. k \notin Counted(mem, chain, "evm")
    <3>1. ~Counts(mem.act[t.a], t)
      BY <1>3, <2>1, <2>9 DEF Counts
    <3> QED BY <3>1 DEF Counted
  <2>11. k \in Counted(s, chain, "evm")
    <3>1. s.act[t.a] = x
      BY <1>3, <2>1, <2>2
    <3>2. Counts(s.act[t.a], t)
      BY <2>1, <2>5, <2>9, <3>1 DEF Counts
    <3> QED BY <2>1, <2>6, <3>2 DEF Counted
  <2>12. Price(t) = fee + Value[loc.step][loc.idx] /\ Value[loc.step][loc.idx] \in Nat
    BY <1>3, <2>1, <2>6, <2>9, ShapeAssumption DEF Price
  <2>13. mem.spent \in Nat /\ mem.sol \in Nat
    BY <1>3 DEF State
  <2>14. s.spent <= mem.spent + Price(chain[k])
    BY <2>1, <2>4, <2>12, <2>13
  <2>15. Accounts(s, chain)
    BY <1>1, <2>2, <2>3, <2>4, <2>7, <2>8, <2>10, <2>11, <2>13, <2>14, ExecSpent
  <2> QED BY <1>5, <2>3, <2>15, WrittenAccounts DEF AccountsKept
<1> QED BY <1>4, <1>5 DEF EvmConfirm, Write, SaveFails

LEMMA CatchAccounts == AInv /\ LInv' /\ EvmCatch => AccountsKept
<1> SUFFICES ASSUME AInv, LInv', EvmCatch PROVE AccountsKept
  OBVIOUS
<1>1. pc = "catch" /\ pc \in ExecPcs /\ pc # "settle" /\ LInv /\ disk' \in State
  BY StateNext DEF EvmCatch, ExecPcs, EvmPcs, AInv, KInv
<1>2. /\ mem \in State /\ mem.act \in [Actions -> ActionRec] /\ loc.a \in Actions
      /\ Cur = mem.act[loc.a] /\ Cur \in ActionRec /\ Cur.reserve \in Nat /\ mem.resv \in Nat
  BY <1>1, ExecCharged
<1>3. Cur.status # "absent"
  BY <1>1, Executed DEF Executing
<1>4. CASE Keep
  BY <1>4, UnwrittenAccounts DEF Keep, AccountsKept
<1>5. CASE Stop(Caught(mem))
  <2> PICK d : d = Caught(mem)
    OBVIOUS
  <2>0. mem' = d /\ disk' = d
    BY <1>5 DEF Stop
  <2>1. CASE d = disk
    BY <2>0, <2>1, UnwrittenAccounts DEF AccountsKept
  <2>2. CASE d = OutcomeUnknown(mem)
    <3>1. StatusRow(d, Unknown)
      BY <2>2 DEF StatusRow, OutcomeUnknown
    <3>2. Unknown \notin {"absent", "submitted", "confirmed", "observed"}
      BY DEF Unknown
    <3> QED BY <1>1, <1>3, <2>0, <3>1, <3>2, StatusAccounts DEF AccountsKept
  <2>3. CASE d = ReleaseUnsubmitted(mem) /\ mem.resv >= Cur.reserve
    <3> PICK x : x = [Cur EXCEPT !.reserve = 0, !.status = Released]
      OBVIOUS
    <3>1. d.act = [mem.act EXCEPT ![loc.a] = x]
      BY <1>2, <2>3, ReleasedRecord
    <3>2. /\ x.status = Released /\ x.step = Cur.step /\ x.attempt = Cur.attempt
          /\ x.item = Cur.item /\ x.reserve = 0
      BY <1>2 DEF ActionRec
    <3>3. d.resv = mem.resv - Cur.reserve /\ d.spent = mem.spent /\ d.sol = mem.sol
      BY <1>2, <2>3 DEF ReleaseUnsubmitted, State
    <3>4. Charged(x) = 0 /\ CountsOn(x) /\ Holds(x)
      BY <3>2 DEF Charged, CountsOn, Holds, Released
    <3>5. Accounts(d, chain)
      BY <1>1, <1>2, <2>0, <3>1, <3>3, <3>4, ExecAccounts
    <3> QED BY <2>0, <3>5 DEF AccountsKept
  <2> QED BY <1>2, <2>1, <2>2, <2>3 DEF Caught
<1> QED BY <1>4, <1>5 DEF EvmCatch

LEMMA RevokedAccounts == AInv /\ LInv' /\ RevokeConfirm => AccountsKept
<1> SUFFICES ASSUME AInv, LInv', RevokeConfirm PROVE AccountsKept
  OBVIOUS
<1>1. pc = "rconfirm" /\ pc \in ExecPcs /\ pc # "settle" /\ LInv /\ disk' \in State
  BY StateNext DEF RevokeConfirm, ExecPcs, EvmPcs, AInv, KInv
<1>2. /\ mem \in State /\ mem.act \in [Actions -> ActionRec] /\ loc.a \in Actions
      /\ Cur = mem.act[loc.a] /\ Cur \in ActionRec /\ Cur.reserve \in Nat /\ mem.resv \in Nat
      /\ Holds(Cur)
  BY <1>1, ExecCharged
<1>3. Cur.status # "absent" /\ Family[loc.step] = "evm"
  BY <1>1, Executed DEF Executing, EvmPcs
<1>4. CASE Stop(disk)
  BY <1>4, UnwrittenAccounts DEF Stop, AccountsKept
<1>5. ASSUME NEW k \in Receipts(Revoke), Stop(Recovered(mem, chain[k].fee))
      PROVE  AccountsKept
  <2> PICK s, fee, t, x : /\ s = Recovered(mem, fee) /\ fee = chain[k].fee /\ t = chain[k]
                          /\ x = Reopened(Cur)
    OBVIOUS
  <2>0. mem' = s /\ disk' = s
    BY <1>5 DEF Stop
  <2>1. /\ k \in DOMAIN chain /\ t.st = "ok" /\ t.a = loc.a /\ t.attempt = Cur.attempt
        /\ t.idx = Revoke /\ t.step = Cur.step /\ t.fee = fee /\ fee \in Nat
        /\ Cur.step = loc.step
    BY <1>1, ReceiptOf
  <2>2. /\ s.act = [mem.act EXCEPT ![loc.a] = x] /\ x.attempt = Cur.attempt + 1
        /\ x.item = NoRows /\ x.status = Retryable /\ x.step = Cur.step
    BY <1>1, <1>3, ReopenedRecord
  <2>3. s.resv = mem.resv /\ s.spent = mem.spent + fee /\ s.sol = mem.sol
    BY <1>2 DEF Recovered, State
  <2>4. x.reserve = Cur.reserve
    BY <1>2 DEF Reopened, ActionRec
  <2>5. Retryable \notin {"absent", "confirmed", "observed", "submitted"}
    BY DEF Retryable
  <2>6. ~DownstreamSent(Cur) /\ Cur.attempt \in Nat
    BY <1>1, <1>2 DEF AInv, AtRows, ActionRec
  <2>7. CountsOn(x) /\ Holds(x) /\ Charged(x) = Cur.reserve
    BY <1>2, <2>2, <2>4, <2>5, <2>6, Uncharged DEF CountsOn, Holds
  <2>8. k \notin Counted(mem, chain, "evm")
    <3>1. ~Counts(mem.act[t.a], t)
      BY <1>2, <2>1, <2>6 DEF Counts
    <3> QED BY <3>1 DEF Counted
  <2>9. k \in Counted(s, chain, "evm")
    <3>1. s.act[t.a] = x
      BY <1>2, <2>1, <2>2
    <3>2. Counts(s.act[t.a], t)
      BY <2>1, <2>2, <2>6, <3>1 DEF Counts
    <3> QED BY <1>3, <2>1, <3>2 DEF Counted
  <2>10. Price(t) = fee
    BY <2>1 DEF Price
  <2>11. mem.spent \in Nat /\ mem.sol \in Nat
    BY <1>2 DEF State
  <2>12. s.spent <= mem.spent + Price(chain[k])
    BY <2>1, <2>3, <2>10, <2>11
  <2>13. Accounts(s, chain)
    BY <1>1, <1>2, <2>0, <2>2, <2>3, <2>7, <2>8, <2>9, <2>11, <2>12, ExecSpent
  <2> QED BY <2>0, <2>13 DEF AccountsKept
<1> QED BY <1>4, <1>5 DEF RevokeConfirm

LEMMA SolanaAccounts ==
  AInv /\ LInv' /\ (SolBegin \/ SolPrepare \/ SolRecord \/ SolConfirm) => AccountsKept
<1> SUFFICES ASSUME AInv, LInv', SolBegin \/ SolPrepare \/ SolRecord \/ SolConfirm
             PROVE  AccountsKept
  OBVIOUS
<1>1. pc \in ExecPcs /\ pc # "settle" /\ pc \notin EvmPcs /\ LInv /\ mem' \in State
  BY StateNext
     DEF SolBegin, SolPrepare, SolRecord, SolConfirm, ExecPcs, SolPcs, EvmPcs, AInv, KInv
<1>2. /\ mem \in State /\ mem.act \in [Actions -> ActionRec] /\ loc.a \in Actions
      /\ Cur = mem.act[loc.a] /\ Cur \in ActionRec /\ Cur.reserve \in Nat /\ mem.resv \in Nat
      /\ Holds(Cur) /\ 0 \in Idx
  BY <1>1, ExecCharged, FirstRow
<1>3. /\ Family[loc.step] = "solana"
      /\ Cur.status # "absent" => Cur.step = loc.step
      /\ Cur.status \notin {"confirmed", "observed"}
      /\ pc # "sol" => Cur.status # "absent"
  BY <1>1, Executed DEF Executing, EvmPcs
<1>4. CASE Stop(disk) \/ Write(mem)
  BY <1>4, UnwrittenAccounts DEF Stop, Write, AccountsKept
<1>5. CASE mem' = ActionState(mem) /\ UNCHANGED disk
  BY <1>1, <1>5, OpenedAccounts, WrittenAccounts DEF AccountsKept
<1>6. CASE SolRecord
  <2> PICK s, x : /\ s = [mem EXCEPT !.act[loc.a].item[0] = "sent",
                                     !.act[loc.a].status = "submitted", !.soltxs = @ + 1]
                  /\ x = [Cur EXCEPT !.item = [@ EXCEPT ![0] = "sent"], !.status = "submitted"]
    OBVIOUS
  <2>1. mem' = s /\ disk' = s /\ pc = "srecord"
    BY <1>6 DEF SolRecord, Write
  <2>2. s.act[loc.a] = x /\ s.act \in [Actions -> ActionRec]
    BY <1>1, <1>2, <2>1 DEF State, ActionRec
  <2>3. \A a \in Actions : a # loc.a => s.act[a] = mem.act[a]
    BY <1>2 DEF State
  <2>4. s.act = [mem.act EXCEPT ![loc.a] = x]
    BY <1>2, <2>2, <2>3
  <2>5. s.resv = mem.resv /\ s.spent = mem.spent /\ s.sol = mem.sol
    BY <1>2 DEF State
  <2>6. /\ x.status = "submitted" /\ x.step = Cur.step /\ x.attempt = Cur.attempt
        /\ x.reserve = Cur.reserve /\ \A i \in Idx : i # 0 => x.item[i] = Cur.item[i]
    BY <1>2 DEF ActionRec
  <2>7. Cur.item[0] # "done" /\ Cur.step = loc.step /\ Cur.status # "absent"
    BY <1>3, <2>1 DEF AInv, AtRows
  <2>8. CountsOn(x) /\ Holds(x)
    BY <1>2, <1>3, <2>6, <2>7 DEF CountsOn, Holds
  <2>9. Charged(x) = Cur.reserve
    BY <1>2, <2>6, Uncharged
  <2>10. Accounts(s, chain)
    BY <1>1, <1>2, <2>1, <2>4, <2>5, <2>8, <2>9, ExecAccounts
  <2> QED BY <2>1, <2>10 DEF AccountsKept
<1>7. ASSUME NEW k \in Receipts(0), pc = "sconfirm",
             Write([mem EXCEPT !.act[loc.a].item[0] = "done", !.sol = @ + chain[k].fee])
      PROVE  AccountsKept
  <2> PICK s, fee, t, x : /\ fee = chain[k].fee /\ t = chain[k]
                          /\ s = [mem EXCEPT !.act[loc.a].item[0] = "done", !.sol = @ + fee]
                          /\ x = [Cur EXCEPT !.item = [@ EXCEPT ![0] = "done"]]
    OBVIOUS
  <2>1. mem' = s /\ disk' = s
    BY <1>7 DEF Write
  <2>2. s.act[loc.a] = x /\ s.act \in [Actions -> ActionRec]
    BY <1>1, <1>2, <2>1 DEF State, ActionRec
  <2>3. \A a \in Actions : a # loc.a => s.act[a] = mem.act[a]
    BY <1>2 DEF State
  <2>4. s.act = [mem.act EXCEPT ![loc.a] = x]
    BY <1>2, <2>2, <2>3
  <2>5. s.resv = mem.resv /\ s.spent = mem.spent /\ s.sol = mem.sol + fee
    BY <1>2 DEF State
  <2>6. /\ x.status = Cur.status /\ x.step = Cur.step /\ x.attempt = Cur.attempt
        /\ x.reserve = Cur.reserve /\ x.item[0] = "done"
        /\ \A i \in Idx : i # 0 => x.item[i] = Cur.item[i]
    BY <1>2 DEF ActionRec
  <2>7. /\ k \in DOMAIN chain /\ t.st = "ok" /\ t.a = loc.a /\ t.attempt = Cur.attempt
        /\ t.idx = 0 /\ t.step = Cur.step /\ t.fee = fee /\ fee \in Nat
        /\ Cur.step = loc.step
    BY <1>1, ReceiptOf
  <2>8. Cur.item[0] = "sent" /\ 0 # Revoke /\ Cur.attempt \in Nat /\ Cur.status # "absent"
    BY <1>2, <1>3, <1>7 DEF AInv, AtRows, Revoke, ActionRec
  <2>9. CountsOn(x) /\ Holds(x)
    BY <1>2, <2>6, <2>8 DEF CountsOn, Holds
  <2>10. Charged(x) = Cur.reserve
    BY <1>2, <1>3, <2>6, Uncharged
  <2>11. k \notin Counted(mem, chain, "solana")
    <3>1. ~Counts(mem.act[t.a], t)
      BY <1>2, <2>7, <2>8 DEF Counts
    <3> QED BY <3>1 DEF Counted
  <2>12. k \in Counted(s, chain, "solana")
    <3>1. s.act[t.a] = x
      BY <2>2, <2>7
    <3>2. Counts(s.act[t.a], t)
      BY <2>6, <2>7, <2>8, <3>1 DEF Counts
    <3> QED BY <1>3, <2>7, <3>2 DEF Counted
  <2>13. Price(t) = fee + Value[loc.step][0] /\ Value[loc.step][0] \in Nat
    BY <1>1, <1>2, <2>7, <2>8, Typed, ShapeAssumption DEF Price
  <2>14. mem.spent \in Nat /\ mem.sol \in Nat
    BY <1>2 DEF State
  <2>15. /\ s.sol <= mem.sol + (IF "solana" = "solana" THEN Price(chain[k]) ELSE 0)
         /\ s.spent <= mem.spent + (IF "solana" = "evm" THEN Price(chain[k]) ELSE 0)
         /\ s.resv + Cur.reserve = mem.resv + Charged(x) /\ s \in State
    BY <1>1, <2>1, <2>5, <2>7, <2>10, <2>13, <2>14
  <2>16. Accounts(s, chain)
    BY <1>1, <2>4, <2>9, <2>11, <2>12, <2>15, ExecSpent
  <2> QED BY <2>1, <2>16 DEF AccountsKept
<1> QED BY <1>4, <1>5, <1>6, <1>7 DEF SolBegin, SolPrepare, SolConfirm

(*------------------------------ the other steps ------------------------------*)
\* A record is charged anew, and counts what it counted.
Recharges(s, m, a, x) ==
  /\ s.act = [m.act EXCEPT ![a] = x] /\ s.spent = m.spent /\ s.sol = m.sol
  /\ x.item = m.act[a].item /\ x.attempt = m.act[a].attempt /\ x.step = m.act[a].step
  /\ x.status # "absent" /\ Holds(x)
  /\ s.resv + Charged(m.act[a]) = m.resv + Charged(x)

LEMMA Recharged ==
  ASSUME NEW c, NEW m, NEW s, NEW a, NEW x, Recharges(s, m, a, x),
         m \in State, s \in State, a \in Actions, Accounts(m, c)
  PROVE  Accounts(s, c)
<1>0. /\ s.act = [m.act EXCEPT ![a] = x] /\ s.spent = m.spent /\ s.sol = m.sol
      /\ x.item = m.act[a].item /\ x.attempt = m.act[a].attempt /\ x.step = m.act[a].step
      /\ x.status # "absent" /\ Holds(x)
      /\ s.resv + Charged(m.act[a]) = m.resv + Charged(x)
  BY DEF Recharges
<1>1. m.act \in [Actions -> ActionRec] /\ Balanced(m) /\ Spends(m, c) /\ Stepped(m, c)
  BY DEF State, Accounts
<1>2. s.act[a] = x /\ \A b \in Actions : b # a => s.act[b] = m.act[b]
  BY <1>0, <1>1
<1>3. Balanced(s)
  BY <1>0, <1>1, <1>2, Rebalanced
<1>4. DOMAIN m.act = Actions /\ DOMAIN s.act = Actions
  BY <1>0, <1>1
<1>5. \A b : \/ s.act[b] = m.act[b]
             \/ /\ s.act[b].item = m.act[b].item /\ s.act[b].attempt = m.act[b].attempt
                /\ s.act[b].step = m.act[b].step /\ s.act[b].status # "absent"
  <2> SUFFICES ASSUME NEW b PROVE s.act[b] = m.act[b] \/ b = a
    BY <1>0, <1>2
  <2> QED BY <1>0, <1>1, <1>2
<1>6. \A b, t : Counts(s.act[b], t) <=> Counts(m.act[b], t)
  BY <1>5 DEF Counts
<1>7. \A f : Counted(s, c, f) = Counted(m, c, f)
  BY <1>6 DEF Counted
<1>8. Spends(s, c)
  BY <1>0, <1>1, <1>7 DEF Spends
<1>9. Stepped(s, c)
  BY <1>0, <1>1, <1>5 DEF Stepped
<1> QED BY <1>3, <1>8, <1>9 DEF Accounts

LEMMA SourceAccounts == AInv /\ LInv' /\ ObserveSource => AccountsKept
<1> SUFFICES ASSUME AInv, LInv', ObserveSource PROVE AccountsKept
  OBVIOUS
<1>1. /\ pc = "source" /\ LInv /\ mem' \in State /\ Accounts(mem, chain) /\ Calling
      /\ KeyAtHand
  BY StateNext DEF ObserveSource, CallPcs, AInv, KInv, LInv
<1>2. CASE Keep \/ Stop(disk)
  BY <1>2, UnwrittenAccounts DEF Keep, Stop, AccountsKept
<1>3. CASE Write([mem EXCEPT !.act[loc.a].status = "observed"])
  <2> PICK s, x : /\ s = [mem EXCEPT !.act[loc.a].status = "observed"]
                  /\ x = [Cur EXCEPT !.status = "observed"]
    OBVIOUS
  <2>1. mem' = s /\ disk' = s
    BY <1>3 DEF Write
  <2>2. loc.op = "source"
    BY <1>1 DEF Calling
  <2>3. /\ mem \in State /\ mem.act \in [Actions -> ActionRec] /\ loc.a \in Actions
        /\ Cur = mem.act[loc.a] /\ Cur \in ActionRec
    BY <1>1, <2>2, Typed DEF Sound
  <2>4. Cur.status \in {"submitted", "confirmed"}
    BY <1>1, <2>2 DEF KeyAtHand
  <2>5. /\ s.act = [mem.act EXCEPT ![loc.a] = x] /\ s.resv = mem.resv
        /\ s.spent = mem.spent /\ s.sol = mem.sol
    BY <2>3, StatusOnly DEF State
  <2>6. /\ x.status = "observed" /\ x.step = Cur.step /\ x.attempt = Cur.attempt
        /\ x.item = Cur.item /\ x.reserve = Cur.reserve /\ x.paid = Cur.paid
    BY <2>3 DEF ActionRec
  <2>7. Holds(Cur) /\ Cur.reserve \in Nat
    BY <1>1, <2>3 DEF Accounts, Balanced, ActionRec
  <2>8. Holds(x)
    BY <2>6, <2>7 DEF Holds
  <2>9. Charged(x) = Charged(Cur)
    BY <2>4, <2>6, <2>7 DEF Charged, Holds
  <2>10. /\ x.item = mem.act[loc.a].item /\ x.attempt = mem.act[loc.a].attempt
         /\ x.step = mem.act[loc.a].step /\ x.status # "absent"
         /\ s.resv + Charged(mem.act[loc.a]) = mem.resv + Charged(x) /\ s \in State
    BY <1>1, <2>1, <2>3, <2>5, <2>6, <2>9
  <2>11. Recharges(s, mem, loc.a, x)
    BY <2>5, <2>8, <2>10 DEF Recharges
  <2>12. Accounts(s, chain)
    BY <1>1, <2>3, <2>10, <2>11, Recharged
  <2> QED BY <2>1, <2>12 DEF AccountsKept
<1> QED BY <1>2, <1>3 DEF ObserveSource

LEMMA ReleaseAccounts == AInv /\ LInv' /\ ReleaseOne => AccountsKept
<1> SUFFICES ASSUME AInv, LInv', ReleaseOne PROVE AccountsKept
  OBVIOUS
<1>1. CASE Stop(disk)
  BY <1>1, UnwrittenAccounts DEF Stop, AccountsKept
<1>2. ASSUME NEW a \in Settled(mem), mem' = ReleaseReserve(mem, a), UNCHANGED disk,
             ~(mem.resv < mem.act[a].reserve \/ mem.act[a].paid > mem.act[a].reserve)
      PROVE  AccountsKept
  <2> PICK s, y, x : s = ReleaseReserve(mem, a) /\ y = mem.act[a] /\ x = [y EXCEPT !.reserve = 0]
    OBVIOUS
  <2>1. /\ a \in Actions /\ mem \in State /\ mem.act \in [Actions -> ActionRec] /\ s \in State
        /\ y \in ActionRec /\ Accounts(mem, chain)
        /\ y.status \in {"confirmed", "observed"} /\ y.reserve > 0
    BY <1>2, StateNext DEF Settled, AInv, KInv, LInv, IInv, Sound, State
  <2>2. y.reserve \in Nat /\ y.paid \in Nat /\ mem.resv \in Nat /\ Holds(y)
    BY <2>1 DEF State, ActionRec, Accounts, Balanced
  <2>3. s.act = [mem.act EXCEPT ![a] = x]
    BY <2>1 DEF ReleaseReserve, State
  <2>4. s.resv = mem.resv - y.reserve + y.paid /\ s.spent = mem.spent /\ s.sol = mem.sol
    BY <2>1 DEF ReleaseReserve, State
  <2>5. /\ x.status = y.status /\ x.step = y.step /\ x.attempt = y.attempt
        /\ x.item = y.item /\ x.reserve = 0 /\ x.paid = y.paid
    BY <2>1 DEF ActionRec
  <2>6. Charged(y) = y.reserve /\ Charged(x) = y.paid /\ Holds(x)
    BY <2>1, <2>2, <2>5 DEF Charged, Holds
  <2>7. s.resv + Charged(mem.act[a]) = mem.resv + Charged(x)
    BY <2>2, <2>4, <2>6
  <2>8. /\ x.item = mem.act[a].item /\ x.attempt = mem.act[a].attempt
        /\ x.step = mem.act[a].step /\ x.status # "absent"
    BY <2>1, <2>5
  <2>9. Recharges(s, mem, a, x)
    BY <2>3, <2>4, <2>6, <2>7, <2>8 DEF Recharges
  <2>10. Accounts(s, chain)
    BY <2>1, <2>9, Recharged
  <2> QED BY <1>2, <2>10, WrittenAccounts DEF AccountsKept
<1> QED BY <1>1, <1>2 DEF ReleaseOne

\* Steps that write neither a record nor a total.
LEMMA SameAccounts ==
  ASSUME NEW c, NEW m, NEW s, Accounts(m, c), s.act = m.act, s.resv = m.resv,
         s.spent = m.spent, s.sol = m.sol
  PROVE  Accounts(s, c)
<1>1. Dues(s) = Dues(m) /\ \A f : Counted(s, c, f) = Counted(m, c, f)
  BY DEF Dues, Counted
<1> QED BY <1>1 DEF Accounts, Balanced, Spends, Stepped

LEMMA StartAccounts == AInv /\ Start => AccountsKept
<1> SUFFICES ASSUME AInv, Start PROVE AccountsKept
  OBVIOUS
<1> PICK s : s = LoadState(disk)
  OBVIOUS
<1>1. mem' = s /\ disk' = s /\ disk \in State /\ Accounts(disk, chain)
  BY DEF Start, Write, AInv, KInv, LInv, IInv, Sound
<1>2. s.act = disk.act /\ s.resv = disk.resv /\ s.spent = disk.spent /\ s.sol = disk.sol
  BY <1>1 DEF LoadState, State
<1> QED BY <1>1, <1>2, SameAccounts DEF AccountsKept

LEMMA LoopAccounts ==
  ASSUME AInv, \/ Restarted \/ GiveUp \/ Asleep \/ GetPending \/ GetInFlight \/ GetUnsupported
               \/ GetShort \/ GetExpired \/ GetReady \/ ObserveOutput \/ Refresh \/ Crash
               \/ EvmSettled \/ RevokePrepare \/ EvmSubmit \/ RevokeSubmit \/ SolSubmit
               \/ UNCHANGED process
  PROVE  AccountsKept
<1>1. CASE Restarted \/ GiveUp \/ GetUnsupported \/ Crash
  BY <1>1, UnwrittenAccounts
     DEF Restarted, GiveUp, GetUnsupported, Crash, Stop, Write, AccountsKept
<1>2. CASE Asleep \/ GetPending \/ GetInFlight \/ GetShort \/ GetExpired \/ GetReady
  BY <1>2, UnwrittenAccounts
     DEF Asleep, GetPending, GetInFlight, GetShort, GetExpired, GetReady, Keep, ToKey, AccountsKept
<1>3. CASE ObserveOutput \/ Refresh \/ UNCHANGED process
  BY <1>3, UnwrittenAccounts DEF ObserveOutput, Refresh, Keep, Stop, process, AccountsKept
<1>4. CASE EvmSettled \/ RevokePrepare \/ EvmSubmit \/ RevokeSubmit \/ SolSubmit
  BY <1>4, UnwrittenAccounts
     DEF EvmSettled, RevokePrepare, EvmSubmit, RevokeSubmit, SolSubmit, Write, Keep, Stop,
         AccountsKept
<1> QED BY <1>1, <1>2, <1>3, <1>4

LEMMA KeyAccounts == AInv /\ (GetComplete \/ NextOperation \/ StoreKey) => AccountsKept
<1> SUFFICES ASSUME AInv, GetComplete \/ NextOperation \/ StoreKey PROVE AccountsKept
  OBVIOUS
<1>1. mem \in State /\ Accounts(mem, chain)
  BY DEF AInv, KInv, LInv, IInv, Sound
<1>2. CASE Keep \/ Stop(disk)
  BY <1>2, UnwrittenAccounts DEF Keep, Stop, AccountsKept
<1>3. ASSUME NEW s, mem' = s, disk' = s,
             \/ s = CountUp(mem) \/ s = [mem EXCEPT !.srcKey[loc.a] = loc.key]
             \/ s = [mem EXCEPT !.outKey[loc.step] = loc.key]
             \/ s = [mem EXCEPT !.status = "complete"]
      PROVE  AccountsKept
  <2>1. s.act = mem.act /\ s.resv = mem.resv /\ s.spent = mem.spent /\ s.sol = mem.sol
    BY <1>1, <1>3 DEF CountUp, State
  <2> QED BY <1>1, <1>3, <2>1, SameAccounts DEF AccountsKept
<1> QED BY <1>2, <1>3 DEF GetComplete, NextOperation, StoreKey, Write, Stop

LEMMA NextAccounts == AInv /\ LInv' /\ [Next]_vars => AccountsKept
<1> SUFFICES ASSUME AInv, LInv', [Next]_vars PROVE AccountsKept
  OBVIOUS
<1>1. CASE UNCHANGED process \/ UNCHANGED vars
  <2>1. UNCHANGED process
    BY <1>1 DEF process, vars
  <2> QED BY <2>1, LoopAccounts
<1>2. CASE Start \/ Crash
  BY <1>2, StartAccounts, LoopAccounts
<1>3. CASE \/ Restarted \/ GiveUp \/ Asleep \/ GetPending \/ GetInFlight \/ GetUnsupported
           \/ GetShort \/ GetExpired \/ GetReady \/ ObserveOutput \/ Refresh
           \/ EvmSettled \/ RevokePrepare \/ EvmSubmit \/ RevokeSubmit \/ SolSubmit
  BY <1>3, LoopAccounts
<1>4. CASE ReleaseOne \/ GetComplete \/ NextOperation \/ StoreKey \/ ObserveSource
  BY <1>4, ReleaseAccounts, KeyAccounts, SourceAccounts
<1>5. CASE \/ EvmReserve \/ EvmRow \/ EvmPrepare \/ EvmRecord \/ EvmConfirm \/ EvmCatch
           \/ RevokeConfirm
  BY <1>5, ReserveAccounts, RowAccounts, PrepareAccounts, RecordAccounts, ConfirmAccounts,
     CatchAccounts, RevokedAccounts
<1>6. CASE SolBegin \/ SolPrepare \/ SolRecord \/ SolConfirm \/ SolDone
  BY <1>6, SolanaAccounts, RowAccounts
<1> QED BY <1>1, <1>2, <1>3, <1>4, <1>5, <1>6 DEF Next, RunnerStep, Time, Mining, Halting

(*---------------------------- the row at hand ----------------------------*)
AtPcs == {"prepare", "submit", "record", "confirm", "sprepare", "ssubmit", "srecord", "sconfirm",
          "rprepare", "rsubmit", "rconfirm"}

\* The record x at program point p, where row i is worked on.
RowAt(p, x, i) ==
  /\ p \in {"prepare", "submit", "record"} => x.item[i] = "none"
  /\ p = "confirm" => x.item[i] = "sent"
  /\ p \in {"sprepare", "ssubmit", "srecord"} => x.item[0] = "none"
  /\ p = "sconfirm" => x.item[0] = "sent"
  /\ p \in {"rprepare", "rsubmit", "rconfirm"} => ~DownstreamSent(x)

LEMMA OffRows == pc' \notin AtPcs => AtRows'
BY DEF AtRows, AtPcs

LEMMA RowNow == AtRows => RowAt(pc, Cur, loc.idx)
BY DEF AtRows, RowAt

LEMMA RowNext ==
  ASSUME NEW x, x = mem'.act[loc'.a], NEW i, i = loc'.idx, NEW p, p = pc', RowAt(p, x, i),
         p = "ssubmit" => mem' = disk'
  PROVE  AtRows'
BY DEF AtRows, RowAt, Cur

LEMMA SameRow ==
  ASSUME AtRows, Keep, loc'.a = loc.a, loc'.idx = loc.idx,
         RowAt(pc, Cur, loc.idx) => RowAt(pc', Cur, loc.idx), pc' # "ssubmit"
  PROVE  AtRows'
<1> PICK x, p, i : x = Cur /\ p = pc' /\ i = loc.idx
  OBVIOUS
<1>1. RowAt(p, x, i)
  BY RowNow
<1>2. x = mem'.act[loc'.a] /\ i = loc'.idx
  BY DEF Keep, Cur
<1> QED BY <1>1, <1>2, RowNext

LEMMA EvmRowAt == AInv /\ (EvmRow \/ EvmSubmit \/ RevokePrepare \/ RevokeSubmit) => AtRows'
<1> SUFFICES ASSUME AInv, EvmRow \/ EvmSubmit \/ RevokePrepare \/ RevokeSubmit PROVE AtRows'
  OBVIOUS
<1>1. AtRows /\ LInv /\ IInv
  BY DEF AInv, KInv, LInv
<1>2. pc \in {"rows", "submit", "rprepare", "rsubmit"} /\ pc \in ExecPcs
  BY DEF EvmRow, EvmSubmit, RevokePrepare, RevokeSubmit, ExecPcs, EvmPcs
<1>3. loc \in Local /\ Cur.item \in [Idx -> {"none", "sent", "done"}] /\ loc.step \in Steps
  BY <1>1, <1>2, Typed
<1>4. CASE pc' \notin AtPcs
  BY <1>4, OffRows
<1>5. CASE pc' \in AtPcs /\ EvmRow
  <2>1. Keep /\ loc.idx # Rows[loc.step] /\ pc = "rows"
    BY <1>5 DEF EvmRow, Goto, AtPcs
  <2>2. loc.idx \in 0 .. Rows[loc.step]
    BY <1>1, <2>1, Inside
  <2>3. loc.idx \in 0 .. Rows[loc.step] - 1
    <3>1. Rows[loc.step] \in Nat
      BY <1>3, ShapeAssumption
    <3> QED BY <2>1, <2>2, <3>1
  <2>4. loc.idx \in Idx
    BY <1>3, <2>3, RowIsIndex
  <2>5. \/ Cur.item[loc.idx] = "sent" /\ pc' = "confirm" /\ loc' = loc
        \/ Cur.item[loc.idx] = "none" /\ pc' = "prepare" /\ loc' = loc
    BY <1>3, <1>5, <2>1, <2>4 DEF EvmRow, Goto, AtPcs
  <2>6. RowAt(pc', Cur, loc.idx)
    BY <2>5 DEF RowAt
  <2> QED BY <1>1, <2>1, <2>5, <2>6, SameRow
<1>6. CASE pc' \in AtPcs /\ ~EvmRow
  <2>1. /\ Keep /\ loc'.a = loc.a /\ loc'.idx = loc.idx
        /\ \/ pc = "submit" /\ pc' = "record"
           \/ pc = "rprepare" /\ pc' = "rsubmit"
           \/ pc = "rsubmit" /\ pc' = "rconfirm"
    <3>1. CASE EvmSubmit
      BY <1>6, <3>1 DEF EvmSubmit, Goto, AtPcs
    <3>2. CASE RevokePrepare
      BY <1>3, <1>6, <3>2 DEF RevokePrepare, AtPcs, Stop, Local
    <3>3. CASE RevokeSubmit
      BY <1>6, <3>3 DEF RevokeSubmit, Goto, AtPcs, Stop
    <3> QED BY <1>6, <3>1, <3>2, <3>3
  <2>2. RowAt(pc, Cur, loc.idx) => RowAt(pc', Cur, loc.idx)
    BY <2>1 DEF RowAt
  <2> QED BY <1>1, <2>1, <2>2, SameRow
<1> QED BY <1>4, <1>5, <1>6

LEMMA EvmPreparedAt == AInv /\ (EvmPrepare \/ EvmRecord \/ EvmCatch) => AtRows'
<1> SUFFICES ASSUME AInv, EvmPrepare \/ EvmRecord \/ EvmCatch PROVE AtRows'
  OBVIOUS
<1>1. AtRows /\ LInv /\ RowAt(pc, Cur, loc.idx)
  BY RowNow DEF AInv, KInv
<1>2. pc \in {"prepare", "record", "catch"} /\ pc \in ExecPcs
  BY DEF EvmPrepare, EvmRecord, EvmCatch, ExecPcs, EvmPcs
<1>3. /\ loc \in Local /\ mem \in State /\ mem.act \in [Actions -> ActionRec] /\ loc.a \in Actions
      /\ Cur = mem.act[loc.a] /\ Cur \in ActionRec
  BY <1>1, <1>2, Typed DEF Sound
<1>4. CASE pc' \notin AtPcs
  BY <1>4, OffRows
<1>5. CASE pc' \in AtPcs /\ EvmPrepare
  <2>1. /\ pc = "prepare" /\ pc' = "submit" /\ loc'.a = loc.a /\ loc'.idx = loc.idx
        /\ mem' = Announce(mem)
    BY <1>3, <1>5 DEF EvmPrepare, Goto, AtPcs, Write, SaveFails, Local
  <2> PICK x, i : x = [Cur EXCEPT !.status = Attempted] /\ i = loc.idx
    OBVIOUS
  <2>2. mem'.act = [mem.act EXCEPT ![loc.a] = x]
    BY <1>3, <2>1, StatusOnly DEF Announce
  <2>3. x = mem'.act[loc'.a] /\ x.item = Cur.item
    BY <1>3, <2>1, <2>2 DEF ActionRec
  <2>4. RowAt("submit", x, i)
    BY <1>1, <2>1, <2>3 DEF RowAt
  <2> QED BY <2>1, <2>3, <2>4, RowNext
<1>6. CASE pc' \in AtPcs /\ EvmRecord
  <2>1. /\ pc = "record" /\ pc' = "confirm" /\ loc' = loc /\ mem' = RecordHash(mem)
    BY <1>6 DEF EvmRecord, Goto, AtPcs, Write, SaveFails
  <2>2. AtRow
    BY <1>1, <1>2, <2>1, WorkedOn
  <2> PICK x, i : /\ i = loc.idx
                  /\ x = [Cur EXCEPT !.item = [@ EXCEPT ![loc.idx] = "sent"],
                                     !.paid = @ + Value[loc.step][loc.idx], !.status = "submitted"]
    OBVIOUS
  <2>3. mem'.act = [mem.act EXCEPT ![loc.a] = x]
    BY <2>1, <2>2, HashRecord DEF HashRow
  <2>4. x = mem'.act[loc'.a]
    BY <1>3, <2>1, <2>3
  <2>5. x.item[i] = "sent"
    BY <1>3, <2>2 DEF ActionRec, AtRow
  <2>6. RowAt("confirm", x, i)
    BY <2>5 DEF RowAt
  <2> QED BY <2>1, <2>4, <2>6, RowNext
<1>7. CASE pc' \in AtPcs /\ EvmCatch
  <2>1. NeedsRecovery(Cur) /\ Keep /\ pc' = "rprepare" /\ loc' = loc
    BY <1>7 DEF EvmCatch, Goto, AtPcs, Stop
  <2>2. RowAt(pc', Cur, loc.idx)
    BY <2>1 DEF RowAt, NeedsRecovery
  <2> QED BY <1>1, <2>1, <2>2, SameRow
<1> QED BY <1>4, <1>5, <1>6, <1>7

LEMMA SolanaAt == AInv /\ (SolBegin \/ SolPrepare \/ SolSubmit \/ SolRecord) => AtRows'
<1> SUFFICES ASSUME AInv, SolBegin \/ SolPrepare \/ SolSubmit \/ SolRecord PROVE AtRows'
  OBVIOUS
<1>1. AtRows /\ LInv /\ RowAt(pc, Cur, loc.idx)
  BY RowNow DEF AInv, KInv
<1>2. pc \in {"sol", "sprepare", "ssubmit", "srecord"} /\ pc \in ExecPcs
  BY DEF SolBegin, SolPrepare, SolSubmit, SolRecord, ExecPcs, SolPcs
<1>3. /\ loc \in Local /\ mem \in State /\ mem.act \in [Actions -> ActionRec] /\ loc.a \in Actions
      /\ Cur = mem.act[loc.a] /\ Cur \in ActionRec /\ 0 \in Idx
      /\ Cur.item \in [Idx -> {"none", "sent", "done"}]
  BY <1>1, <1>2, Typed, FirstRow DEF Sound
<1>4. CASE pc' \notin AtPcs
  BY <1>4, OffRows
<1> PICK i : i = loc'.idx
  OBVIOUS
<1>5. CASE pc' \in AtPcs /\ SolBegin
  <2> PICK m, x : m = ActionState(mem) /\ x = m.act[loc.a]
    OBVIOUS
  <2>1. /\ mem' = m /\ loc' = loc
        /\ \/ pc' = "sconfirm" /\ Cur.item[0] \notin {"none", "done"}
           \/ pc' = "sprepare" /\ Cur.item[0] = "none"
    BY <1>5 DEF SolBegin, Goto, Stop, AtPcs
  <2>2. x.item = Cur.item
    BY <1>1, <1>2, Opened
  <2>3. x = mem'.act[loc'.a]
    BY <2>1
  <2>4. Cur.item[0] \in {"none", "sent", "done"}
    BY <1>3
  <2>5. \/ pc' = "sconfirm" /\ RowAt("sconfirm", x, i)
        \/ pc' = "sprepare" /\ RowAt("sprepare", x, i)
    BY <2>1, <2>2, <2>4 DEF RowAt
  <2> QED BY <2>3, <2>5, RowNext
<1>6. CASE pc' \in AtPcs /\ SolPrepare
  <2>1. mem' = mem /\ disk' = mem /\ pc = "sprepare" /\ pc' = "ssubmit" /\ loc'.a = loc.a
    BY <1>3, <1>6 DEF SolPrepare, Write, Stop, AtPcs, Local
  <2> PICK x : x = Cur
    OBVIOUS
  <2>2. x = mem'.act[loc'.a]
    BY <1>3, <2>1
  <2>3. RowAt("ssubmit", x, i)
    BY <1>1, <2>1 DEF RowAt
  <2> QED BY <2>1, <2>2, <2>3, RowNext
<1>7. CASE pc' \in AtPcs /\ SolSubmit
  <2>1. Keep /\ pc = "ssubmit" /\ pc' = "srecord" /\ loc' = loc
    BY <1>7 DEF SolSubmit, Goto, Stop, AtPcs
  <2>2. RowAt(pc', Cur, loc.idx)
    BY <1>1, <2>1 DEF RowAt
  <2> QED BY <1>1, <2>1, <2>2, SameRow
<1>8. CASE SolRecord
  <2>1. /\ mem' = [mem EXCEPT !.act[loc.a].item[0] = "sent", !.act[loc.a].status = "submitted",
                             !.soltxs = @ + 1]
        /\ pc' = "sconfirm" /\ loc' = loc
    BY <1>8 DEF SolRecord, Write, Goto
  <2> PICK x : x = [Cur EXCEPT !.item = [@ EXCEPT ![0] = "sent"], !.status = "submitted"]
    OBVIOUS
  <2>2. mem'.act[loc.a] = x
    BY <1>3, <2>1 DEF State, ActionRec
  <2>3. x.item[0] = "sent"
    BY <1>3 DEF ActionRec
  <2>4. RowAt("sconfirm", x, i)
    BY <2>3 DEF RowAt
  <2> QED BY <2>1, <2>2, <2>4, RowNext
<1> QED BY <1>4, <1>5, <1>6, <1>7, <1>8

\* No other step comes to a row.
LEMMA AwayFromRows ==
  ASSUME LInv,
         \/ Start \/ Restarted \/ GiveUp \/ Asleep \/ GetComplete \/ GetPending \/ GetInFlight
         \/ GetUnsupported \/ GetShort \/ GetExpired \/ GetReady \/ NextOperation \/ StoreKey
         \/ ReleaseOne \/ EvmReserve \/ EvmSettled \/ SolDone \/ Crash
  PROVE  AtRows'
<1>1. CASE Start \/ Restarted \/ GiveUp \/ Asleep \/ GetComplete \/ GetUnsupported \/ Crash
  BY <1>1, OffRows
     DEF Start, Restarted, GiveUp, Asleep, GetComplete, GetUnsupported, Crash, Goto, Stop, Again,
         AtPcs
<1>2. CASE GetPending \/ GetInFlight \/ GetShort \/ GetExpired \/ GetReady
  BY <1>2, OffRows
     DEF GetPending, GetInFlight, GetShort, GetExpired, GetReady, ToKey, SleepUntil, Execute, AtPcs
<1>3. CASE NextOperation \/ StoreKey
  <2>1. pc' \in {"idle", "store", "refresh", loc.op}
    BY <1>3 DEF NextOperation, StoreKey, Goto, Stop
  <2>2. loc.op \in {"source", "output", "refresh"}
    BY DEF LInv, IInv, Fits, Local
  <2> QED BY <2>1, <2>2, OffRows DEF AtPcs
<1>4. CASE ReleaseOne \/ EvmReserve \/ EvmSettled \/ SolDone
  BY <1>4, OffRows DEF ReleaseOne, EvmReserve, EvmSettled, SolDone, Goto, Stop, AtPcs
<1> QED BY <1>1, <1>2, <1>3, <1>4

LEMMA AwayFromCalls ==
  ASSUME ObserveSource \/ ObserveOutput \/ Refresh \/ EvmConfirm \/ RevokeConfirm \/ SolConfirm
  PROVE  AtRows'
<1>1. CASE ObserveSource \/ ObserveOutput
  BY <1>1, OffRows DEF ObserveSource, ObserveOutput, Again, SleepUntil, Stop, AtPcs
<1>2. CASE Refresh
  BY <1>2, OffRows DEF Refresh, Execute, Again, Stop, AtPcs
<1>3. CASE EvmConfirm
  BY <1>3, OffRows DEF EvmConfirm, Goto, SaveFails, AtPcs
<1>4. CASE RevokeConfirm \/ SolConfirm
  BY <1>4, OffRows DEF RevokeConfirm, SolConfirm, Goto, Stop, AtPcs
<1> QED BY <1>1, <1>2, <1>3, <1>4

LEMMA NextAt == AInv /\ [Next]_vars => AtRows'
<1> SUFFICES ASSUME AInv, [Next]_vars PROVE AtRows'
  OBVIOUS
<1>1. CASE UNCHANGED process \/ UNCHANGED vars
  <2>1. UNCHANGED <<mem, disk, pc, loc>> /\ AtRows
    BY <1>1 DEF process, vars, AInv
  <2> PICK x, p, i : x = Cur /\ p = pc /\ i = loc.idx
    OBVIOUS
  <2>2. x = mem'.act[loc'.a] /\ i = loc'.idx /\ p = pc' /\ (p = "ssubmit" => mem' = disk')
    BY <2>1 DEF Cur, AtRows
  <2>3. RowAt(p, x, i)
    BY <2>1, RowNow
  <2> QED BY <2>2, <2>3, RowNext
<1>2. CASE \/ Start \/ Crash \/ ReleaseOne \/ Restarted \/ GiveUp \/ Asleep \/ GetComplete
           \/ GetPending \/ GetInFlight \/ GetUnsupported \/ GetShort \/ GetExpired \/ GetReady
           \/ NextOperation \/ StoreKey \/ EvmReserve \/ EvmSettled \/ SolDone
  BY <1>2, AwayFromRows DEF AInv, KInv
<1>3. CASE ObserveSource \/ ObserveOutput \/ Refresh \/ EvmConfirm \/ RevokeConfirm \/ SolConfirm
  BY <1>3, AwayFromCalls
<1>4. CASE \/ EvmRow \/ EvmSubmit \/ RevokePrepare \/ RevokeSubmit
           \/ EvmPrepare \/ EvmRecord \/ EvmCatch
  BY <1>4, EvmRowAt, EvmPreparedAt
<1>5. CASE SolBegin \/ SolPrepare \/ SolSubmit \/ SolRecord
  BY <1>5, SolanaAt
<1> QED BY <1>1, <1>2, <1>3, <1>4, <1>5 DEF Next, RunnerStep, Time, Mining, Halting

(*------------------------------ the chain goes on ------------------------------*)
Carried(c, d) ==
  Grown(c, d) /\ \A k \in DOMAIN c : d[k].a = c[k].a /\ d[k].step = c[k].step

LEMMA MinedCarried == ASSUME WorldOK, Mine, NEW d, d = chain' PROVE Carried(chain, d)
<1>1. PICK k \in DOMAIN chain :
        /\ chain[k].st = "pending"
        /\ \E st \in {"ok", "failed"}, fee \in 0 .. chain[k].gas :
             chain' = [chain EXCEPT ![k].st = st, ![k].fee = fee]
  BY DEF Mine
<1>2. PICK st \in {"ok", "failed"}, fee \in 0 .. chain[k].gas :
        chain' = [chain EXCEPT ![k].st = st, ![k].fee = fee]
  BY <1>1
<1> PICK c : c = chain
  OBVIOUS
<1>3. c \in Seq(Tx)
  BY DEF WorldOK, WorldTypeOK
<1>4. d = [c EXCEPT ![k] = [[c[k] EXCEPT !.st = st] EXCEPT !.fee = fee]]
  BY <1>1, <1>2, <1>3
<1>5. DOMAIN d = DOMAIN c
  BY <1>3, <1>4
<1>6. \A j \in DOMAIN c : j # k => d[j] = c[j]
  BY <1>3, <1>4
<1>7. d[k] = [[c[k] EXCEPT !.st = st] EXCEPT !.fee = fee] /\ c[k] \in Tx
  BY <1>1, <1>3, <1>4
<1>8. d[k].a = c[k].a /\ d[k].step = c[k].step
  BY <1>7 DEF Tx
<1> QED BY <1>1, <1>5, <1>6, <1>8 DEF Carried, Grown

LEMMA SameCarried == ASSUME NEW c PROVE Carried(c, c)
BY DEF Carried, Grown

LEMMA SentCarried ==
  ASSUME WorldOK, NEW d, d = chain', NEW a, NEW t, NEW s, NEW i, NEW g, Broadcast(a, t, s, i, g)
  PROVE  Carried(chain, d)
<1>1. chain \in Seq(Tx)
  BY DEF WorldOK, WorldTypeOK
<1> PICK x : x = [a |-> a, attempt |-> t, step |-> s, idx |-> i, gas |-> g, fee |-> 0,
                  st |-> "pending"]
  OBVIOUS
<1>2. d = chain \/ d = Append(chain, x)
  BY DEF Broadcast
<1>3. CASE d = Append(chain, x)
  <2>1. DOMAIN chain \subseteq DOMAIN d /\ \A k \in DOMAIN chain : d[k] = chain[k]
    BY <1>1, <1>3
  <2> QED BY <2>1 DEF Carried, Grown
<1> QED BY <1>2, <1>3, SameCarried

LEMMA ChainCarried == ASSUME LInv, [Next]_vars, NEW d, d = chain' PROVE Carried(chain, d)
<1>1. WorldOK
  BY DEF LInv, IInv
<1>2. CASE UNCHANGED chain
  BY <1>2, SameCarried
<1>3. CASE Mining
  BY <1>1, <1>3, MinedCarried DEF Mining
<1>4. CASE EvmSubmit \/ RevokeSubmit \/ SolSubmit
  BY <1>1, <1>2, <1>4, SentCarried DEF EvmSubmit, RevokeSubmit, SolSubmit, Send
<1>5. UNCHANGED chain \/ Mining \/ EvmSubmit \/ RevokeSubmit \/ SolSubmit
  <2>1. CASE RunnerStep
    BY <2>1
       DEF RunnerStep, ReleaseOne, Restarted, GiveUp, Asleep, Looking, GetComplete,
           GetPending, GetInFlight, GetUnsupported, GetShort, GetExpired, GetReady,
           NextOperation, StoreKey, ObserveSource, ObserveOutput, Refresh, EvmReserve,
           EvmRow, EvmPrepare, EvmRecord, EvmConfirm, EvmSettled, EvmCatch, RevokePrepare,
           RevokeConfirm, SolBegin, SolPrepare, SolRecord, SolConfirm, SolDone, Quiet, OnlySrv
  <2> QED BY <2>1 DEF Next, vars, Start, world, Crash, Quiet, Time, Tick, Halting, Halt
<1> QED BY <1>2, <1>3, <1>4, <1>5

\* What is broadcast is of the step that memory and file record of its action.
LEMMA SentStepped ==
  ASSUME AInv, [Next]_vars, NEW k \in New, NEW u, u \in {mem', disk'}, NEW d, d = chain'
  PROVE  u.act[d[k].a].status # "absent" /\ u.act[d[k].a].step = d[k].step
<1>1. LInv /\ AtRows /\ Stepped(mem, chain) /\ Stepped(disk, chain)
  BY DEF AInv, KInv, Accounts
<1>2. pc \in {"submit", "rsubmit", "ssubmit"} /\ d[k].a = loc.a /\ d[k].step = loc.step
  BY <1>1, SentByExecution
<1>3. u \in {mem, disk}
  <2>1. EvmSubmit \/ RevokeSubmit \/ SolSubmit
    BY <1>1, WhoSends
  <2> QED BY <2>1 DEF EvmSubmit, RevokeSubmit, SolSubmit, Keep, Stop
<1>4. /\ Cur.status # "absent" /\ Cur.step = loc.step /\ Cur = mem.act[loc.a]
      /\ Recorded(loc.a, Cur) /\ (pc = "rsubmit" => Cur.item[0] = "done") /\ 0 \in Idx
  BY <1>1, <1>2, Executed, Typed, FirstRow DEF Executing, ExecPcs, EvmPcs, SolPcs
<1>5. CASE pc \in {"submit", "ssubmit"}
  <2>1. mem = disk
    BY <1>1, <1>5 DEF LInv, SyncPcs, AtRows
  <2> QED BY <1>2, <1>3, <1>4, <2>1
<1>6. CASE pc = "rsubmit"
  <2>1. Landed(loc.a, Cur.attempt, 0)
    BY <1>4, <1>6 DEF Recorded
  <2>2. PICK j \in DOMAIN chain : chain[j].a = loc.a
    BY <2>1 DEF Landed, TxOf
  <2>3. disk.act[loc.a].status # "absent" /\ disk.act[loc.a].step = mem.act[loc.a].step
    BY <1>1, <2>2 DEF Stepped
  <2> QED BY <1>2, <1>3, <1>4, <2>3
<1> QED BY <1>2, <1>5, <1>6

LEMMA AccountsCarried ==
  ASSUME AInv, [Next]_vars, LInv', NEW u, u \in {mem', disk'}, Accounts(u, chain),
         NEW d, d = chain'
  PROVE  Accounts(u, d)
<1>1. /\ LInv /\ Balanced(u) /\ Spends(u, chain) /\ Stepped(u, chain) /\ u \in State
      /\ chain \in Seq(Tx) /\ d \in Seq(Tx)
  BY StateNext DEF Accounts, AInv, KInv, LInv, IInv, WorldOK, WorldTypeOK
<1>2. Carried(chain, d)
  BY <1>1, ChainCarried
<1>3. Spends(u, d)
  BY <1>1, <1>2, SpendsOn DEF Carried
<1>4. Stepped(u, d)
  <2> SUFFICES ASSUME NEW k \in DOMAIN d
               PROVE  u.act[d[k].a].status # "absent" /\ u.act[d[k].a].step = d[k].step
    BY DEF Stepped
  <2>1. CASE k \in DOMAIN chain
    BY <1>1, <1>2, <2>1 DEF Carried, Stepped
  <2>2. CASE k \notin DOMAIN chain
    <3>1. k \in 1 .. Len(d) /\ k \notin 1 .. Len(chain) /\ Len(chain) \in Nat /\ Len(d) \in Nat
      BY <1>1, <2>2
    <3>2. k \in New
      BY <3>1 DEF New
    <3> QED BY <3>2, SentStepped
  <2> QED BY <2>1, <2>2
<1> QED BY <1>1, <1>3, <1>4 DEF Accounts

LEMMA NextLedger == AInv /\ KInv' /\ [Next]_vars => AInv'
<1> SUFFICES ASSUME AInv, KInv', [Next]_vars PROVE AInv'
  OBVIOUS
<1>1. LInv'
  BY DEF KInv
<1> PICK u, v, d : u = mem' /\ v = disk' /\ d = chain'
  OBVIOUS
<1>2. Accounts(u, chain) /\ Accounts(v, chain)
  BY <1>1, NextAccounts DEF AccountsKept
<1>3. Accounts(u, d) /\ Accounts(v, d)
  BY <1>1, <1>2, AccountsCarried
<1>4. AtRows'
  BY NextAt
<1> QED BY <1>3, <1>4 DEF AInv

LEMMA InitLedger == Init => AtRows /\ Accounts(mem, chain) /\ Accounts(disk, chain)
<1> SUFFICES ASSUME Init PROVE AtRows /\ Accounts(mem, chain) /\ Accounts(disk, chain)
  OBVIOUS
<1>1. mem = InitialState /\ disk = InitialState /\ pc = "idle" /\ chain = <<>> /\ DOMAIN chain = {}
  BY DEF Init, WorldInit
<1> PICK s : s = InitialState
  OBVIOUS
<1>2. /\ \A a \in Actions : s.act[a] = NoAction
      /\ s.resv = 0 /\ s.spent = 0 /\ s.sol = 0
  BY DEF InitialState
<1>3. Charged(NoAction) = 0 /\ Holds(NoAction)
  BY DEF NoAction, Charged, Holds
<1>4. \A a \in Actions : Dues(s)[a] = 0
  BY <1>2, <1>3 DEF Dues
<1>5. SumFunctionOnSet(Dues(s), Actions) = 0
  BY <1>4, ActionsFinite, SumZero
<1>6. Balanced(s)
  BY <1>2, <1>3, <1>5 DEF Balanced
<1>7. \A f : Counted(s, chain, f) = {}
  BY <1>1 DEF Counted
<1>8. SumFunctionOnSet(Prices(chain), {}) = 0
  BY SumEmpty
<1>9. Spends(s, chain)
  BY <1>2, <1>7, <1>8 DEF Spends
<1>10. Stepped(s, chain)
  BY <1>1 DEF Stepped
<1>11. AtRows
  BY <1>1 DEF AtRows
<1> QED BY <1>1, <1>6, <1>9, <1>10, <1>11 DEF Accounts

(*------------------------------ the theorems ------------------------------*)
LEMMA LedgerInductive == Spec => []AInv
<1>1. Init => AInv
  BY InitSafe, InitLands, InitKeys, InitLedger DEF AInv, KInv
<1>2. AInv /\ [Next]_vars => AInv'
  BY NextSafe, NextLands, NextKeys, NextLedger DEF AInv, KInv, LInv
<1> QED BY <1>1, <1>2, PTL DEF Spec

\* The reserve total of the state file is exactly the reserves its actions still hold plus
\* what the settled EVM actions cost, through every retry, refreshed action, release, crash
\* and restart (executeEvm, its catch block and releaseConfirmedEvmReserves).
THEOREM LedgerExact == Spec => []ReserveLedger
<1>1. AInv => ReserveLedger
  <2> SUFFICES ASSUME AInv PROVE ReserveLedger
    OBVIOUS
  <2>1. disk.resv = SumFunctionOnSet(Dues(disk), Actions)
    BY DEF AInv, Accounts, Balanced
  <2>2. DOMAIN Dues(disk) = Actions
    BY DEF Dues
  <2> QED BY <2>1, <2>2 DEF ReserveLedger, SumFunction, Dues
<1> QED BY <1>1, LedgerInductive, PTL

\* The native spend and the Solana fees that the state file records as actual never exceed
\* value and fees of the transactions that landed, however often rows and attempts are resumed.
THEOREM SpentHasLanded == Spec => []SpendHappened
<1>1. AInv => SpendHappened
  <2> SUFFICES ASSUME AInv PROVE SpendHappened
    OBVIOUS
  <2>1. Spends(disk, chain) /\ chain \in Seq(Tx) /\ disk \in State
    BY DEF AInv, Accounts, KInv, LInv, IInv, WorldOK, WorldTypeOK, Sound
  <2>2. Costs = Prices(chain)
    BY DEF Costs, CostOf, Prices, Price
  <2>3. ASSUME NEW f
        PROVE  /\ SumFunctionOnSet(Costs, Counted(disk, chain, f))
                    <= SumFunctionOnSet(Costs, LandedOn(f))
               /\ SumFunctionOnSet(Costs, Counted(disk, chain, f)) \in Nat
               /\ SumFunctionOnSet(Costs, LandedOn(f)) \in Nat
    <3>1. Counted(disk, chain, f) \subseteq LandedOn(f) /\ LandedOn(f) \subseteq DOMAIN chain
      BY DEF Counted, LandedOn
    <3> QED BY <2>1, <2>2, <3>1, MoreCounted
  <2>4. disk.spent \in Nat /\ disk.sol \in Nat
    BY <2>1 DEF State
  <2> QED BY <2>1, <2>2, <2>3, <2>4 DEF Spends, SpendHappened
<1> QED BY <1>1, LedgerInductive, PTL
=============================================================================
