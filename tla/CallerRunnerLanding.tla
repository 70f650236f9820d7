------------------------ MODULE CallerRunnerLanding ------------------------
(***************************************************************************)
(* Proofs of what the runner's state file says of the chains and of the    *)
(* session service: for any workflow, policy and number of restarts.       *)
(***************************************************************************)
EXTENDS CallerRunnerProofs

(*---------------------------- the inductive invariant ----------------------------*)
\* The step is behind the session, or what the session waits for was shown to it.
Shown == {"flight", "halted", "complete"}
Past(step) == step < srv.step \/ (step = srv.step /\ srv.phase \in Shown)

\* What a recorded action says of the chains, of its reserve and of the session.
Recorded(a, act) ==
  /\ act.status = "absent" => act = NoAction
  /\ \A i \in Idx : act.item[i] = "done" => Landed(a, act.attempt, i)
  /\ act.status = "confirmed" => \A i \in 0 .. Rows[act.step] - 1 : act.item[i] = "done"
  /\ act.reserve \in {0, StepReserve[act.step]}
  /\ act.status # "absent" => a <= srv.last /\ (srv.a = a => act.step = srv.step)
  /\ act.status = "observed" => Past(act.step)
RecordsOK == \A a \in Actions : Recorded(a, mem.act[a]) /\ Recorded(a, disk.act[a])

\* Nothing of this step was confirmed, as far as these records go.
Untold(acts, step) ==
  \A a \in Actions : acts[a].status \in {"confirmed", "observed"} => acts[a].step # step

\* Program points at which the file holds what memory holds, at which an action is
\* executed, and at which the session is called.
SyncPcs == {"top", "sleep", "key", "store", "source", "output", "refresh", "submit"}
EvmPcs  == {"evm", "rows", "prepare", "submit", "record", "confirm", "settle", "catch",
            "rprepare", "rsubmit", "rconfirm"}
SolPcs  == {"sol", "sprepare", "ssubmit", "srecord", "sconfirm", "sdone"}
ExecPcs == EvmPcs \union SolPcs
CallPcs == {"key", "store", "source", "output", "refresh"}

\* Where an action is executed the session waits for it, and the rows before are done.
Executing ==
  /\ srv.phase = "ready" /\ srv.a = loc.a /\ srv.step = loc.step
  /\ Family[loc.step] = IF pc \in EvmPcs THEN "evm" ELSE "solana"
  /\ pc = "evm" => loc.idx = 0
  /\ pc \notin {"evm", "sol"} => Cur.status # "absent"
  /\ pc \in RowPcs \union {"rows"} =>
       /\ Cur.reserve = StepReserve[loc.step]
       /\ \A i \in 0 .. loc.idx - 1 : Cur.item[i] = "done"
  /\ pc = "submit" => Cur.status = Attempted
  /\ pc \in {"rprepare", "rsubmit", "rconfirm", "sdone"} => Cur.item[0] = "done"
  /\ pc = "settle" => Cur.status = "confirmed"
  /\ pc # "settle" => Untold(mem.act, loc.step) /\ Untold(disk.act, loc.step)

\* Where the session is called it is still at the step of the call.
Calling ==
  /\ loc.op = "source" => Cur.status # "absent" /\ Cur.step = loc.step /\ loc.step = srv.step
  /\ loc.op = "refresh" => NonePending
  /\ pc \in {"source", "output", "refresh"} => loc.op = pc

LInv ==
  /\ IInv /\ srv.a <= srv.last /\ RecordsOK
  /\ pc \in SyncPcs => mem = disk
  /\ pc \in ExecPcs => Executing
  /\ pc \in CallPcs => Calling

(*--------------------------- the session moves on ---------------------------*)
\* q may follow the session: it forgets nothing that was shown to it and names no action
\* of another step again.
Follows(q) ==
  /\ srv.step <= q.step /\ srv.last <= q.last /\ q.a <= q.last
  /\ srv.phase \in Shown /\ q.step = srv.step => q.phase \in Shown
  /\ q.a \in Actions /\ q.a <= srv.last => q.a = srv.a /\ q.step = srv.step

\* What landed stays.
LandedKept == \A a, t, i : Landed(a, t, i) => Landed(a, t, i)'

LEMMA RecordTyped ==
  ASSUME NEW s, Sound(s), NEW a \in Actions
  PROVE  /\ s.act[a] \in ActionRec /\ s.act[a].step \in Steps /\ s.act[a].step \in Int
         /\ s.act[a].item \in [Idx -> {"none", "sent", "done"}] /\ s.act[a].attempt \in Nat
<1>1. s.act[a] \in ActionRec
  BY ActionSound
<1> QED BY <1>1, Sizes DEF ActionRec, Steps

LEMMA SessionTyped ==
  ASSUME WorldOK
  PROVE  /\ srv \in Session /\ srv.step \in Steps /\ srv.step \in Int
         /\ srv.last \in Nat /\ srv.a \in Nat /\ srv.exp \in Nat /\ now \in Nat
BY Sizes DEF WorldOK, WorldTypeOK, Session, Steps, Actions, NoAct

LEMMA RecordedKept ==
  ASSUME WorldOK, WorldOK', Follows(srv'), LandedKept,
         NEW a \in Actions, NEW act, act.step \in Int, Recorded(a, act)
  PROVE  Recorded(a, act)'
<1>1. srv.step \in Int /\ srv'.step \in Int /\ srv.last \in Nat /\ srv'.last \in Nat
      /\ srv.a \in Nat /\ srv'.a \in Nat /\ a \in Nat
  BY SessionTyped DEF Actions, WorldOK, WorldTypeOK, Session, NoAct, Steps
<1>2. Past(act.step) => Past(act.step)'
  BY <1>1 DEF Past, Follows
<1>3. \A i \in Idx : Landed(a, act.attempt, i) => Landed(a, act.attempt, i)'
  BY DEF LandedKept
<1>4. a <= srv.last /\ (srv.a = a => act.step = srv.step)
        => a <= srv'.last /\ (srv'.a = a => act.step = srv'.step)
  BY <1>1 DEF Follows
<1> QED BY <1>2, <1>3, <1>4 DEF Recorded

LEMMA SameFollows ==
  ASSUME WorldOK, srv.a <= srv.last, UNCHANGED srv
  PROVE  Follows(srv')
<1>1. srv.step \in Int /\ srv.last \in Nat
  BY SessionTyped
<1> QED BY <1>1 DEF Follows

LEMMA ChainSame == UNCHANGED chain => LandedKept
BY DEF LandedKept, Landed, TxOf

(*--------------------------- ways to move on ---------------------------*)
\* The records that memory and file have after a step.
LEMMA RecordsKept ==
  ASSUME LInv, IInv', Follows(srv'), LandedKept,
         mem'.act \in {mem.act, disk.act}, disk'.act \in {mem.act, disk.act}
  PROVE  RecordsOK'
<1>1. WorldOK /\ WorldOK' /\ Sound(mem) /\ Sound(disk) /\ RecordsOK
  BY DEF LInv, IInv
<1> SUFFICES ASSUME NEW a \in Actions
             PROVE  Recorded(a, mem.act[a])' /\ Recorded(a, disk.act[a])'
  BY DEF RecordsOK
<1> PICK x, y : x = mem.act[a] /\ y = disk.act[a]
  OBVIOUS
<1>2. Recorded(a, x) /\ Recorded(a, y) /\ x.step \in Int /\ y.step \in Int
  BY <1>1, RecordTyped DEF RecordsOK
<1>3. Recorded(a, x)' /\ Recorded(a, y)'
  BY <1>1, <1>2, RecordedKept
<1>4. mem'.act[a] \in {x, y} /\ disk'.act[a] \in {x, y}
  OBVIOUS
<1> QED BY <1>3, <1>4

LEMMA RecordsUpdated ==
  ASSUME LInv, IInv', Follows(srv'), LandedKept,
         NEW b \in Actions, NEW x, Recorded(b, x)',
         mem'.act = [mem.act EXCEPT ![b] = x],
         disk'.act = mem'.act \/ disk'.act = disk.act
  PROVE  RecordsOK'
<1>1. WorldOK /\ WorldOK' /\ Sound(mem) /\ Sound(disk) /\ RecordsOK
  BY DEF LInv, IInv
<1> SUFFICES ASSUME NEW a \in Actions
             PROVE  Recorded(a, mem.act[a])' /\ Recorded(a, disk.act[a])'
  BY DEF RecordsOK
<1> PICK y, z : y = mem.act[a] /\ z = disk.act[a]
  OBVIOUS
<1>2. Recorded(a, y) /\ Recorded(a, z) /\ y.step \in Int /\ z.step \in Int
  BY <1>1, RecordTyped DEF RecordsOK
<1>3. Recorded(a, y)' /\ Recorded(a, z)'
  BY <1>1, <1>2, RecordedKept
<1>4. mem.act \in [Actions -> ActionRec]
  BY <1>1 DEF Sound, State
<1>5. mem'.act[a] = IF a = b THEN x ELSE y
  BY <1>4
<1>6. disk'.act[a] = z \/ disk'.act[a] = mem'.act[a]
  OBVIOUS
<1> QED BY <1>3, <1>5, <1>6

LEMMA SessionBehind == ASSUME Follows(srv') PROVE srv'.a <= srv'.last
BY DEF Follows

\* A step that stays within an action's execution and changes that action only.
LEMMA ExecStep ==
  ASSUME LInv, IInv', pc \in ExecPcs, pc' \in ExecPcs, UNCHANGED srv, LandedKept,
         loc'.a = loc.a, loc'.step = loc.step,
         NEW x, x.step \in Int, Recorded(loc.a, x), mem'.act = [mem.act EXCEPT ![loc.a] = x],
         disk' = disk \/ disk' = mem', pc' = "submit" => disk' = mem',
         pc = "settle" => pc' = "settle",
         pc' # "settle" => x.status \notin {"confirmed", "observed"},
         pc' \in EvmPcs <=> pc \in EvmPcs,
         pc' \notin {"evm", "sol"} => x.status # "absent",
         pc' \in RowPcs \union {"rows"} =>
           /\ x.reserve = StepReserve[loc.step]
           /\ \A i \in 0 .. loc'.idx - 1 : x.item[i] = "done",
         pc' # "evm", pc' = "submit" => x.status = Attempted,
         pc' \in {"rprepare", "rsubmit", "rconfirm", "sdone"} => x.item[0] = "done",
         pc' = "settle" => x.status = "confirmed"
  PROVE  LInv'
<1>1. /\ WorldOK /\ WorldOK' /\ Sound(mem) /\ Sound(disk) /\ RecordsOK
      /\ Executing /\ loc.a \in Actions /\ srv.a <= srv.last
  <2>1. pc \in ActionPcs
    BY DEF ExecPcs, EvmPcs, SolPcs, ActionPcs
  <2>2. loc.a \in Actions
    BY <2>1, Inside DEF LInv
  <2>3. IInv /\ RecordsOK /\ Executing /\ srv.a <= srv.last
    BY DEF LInv
  <2>4. WorldOK'
    BY DEF IInv
  <2>5. WorldOK /\ Sound(mem) /\ Sound(disk)
    BY <2>3 DEF IInv
  <2> QED BY <2>2, <2>3, <2>4, <2>5
<1>2. Follows(srv')
  BY <1>1, SameFollows
<1>3. mem.act \in [Actions -> ActionRec]
  BY <1>1 DEF Sound, State
<1>4. mem'.act[loc.a] = x /\ Cur' = x
  BY <1>1, <1>3 DEF Cur
<1>5. RecordsOK'
  <2>1. Recorded(loc.a, x)'
    BY <1>1, <1>2, <1>4, RecordedKept
  <2> QED BY <1>1, <1>2, <2>1, RecordsUpdated
<1>6. Executing'
  <2>1. /\ srv'.phase = "ready" /\ srv'.a = loc'.a /\ srv'.step = loc'.step
        /\ Family[loc'.step] = IF pc' \in EvmPcs THEN "evm" ELSE "solana"
    BY <1>1 DEF Executing
  <2>2. ASSUME pc' # "settle" PROVE Untold(mem'.act, loc'.step) /\ Untold(disk'.act, loc'.step)
    <3>1. Untold(mem.act, loc.step) /\ Untold(disk.act, loc.step)
      BY <1>1, <2>2 DEF Executing
    <3>2. Untold(mem'.act, loc.step)
      <4> SUFFICES ASSUME NEW a \in Actions, mem'.act[a].status \in {"confirmed", "observed"}
                   PROVE  mem'.act[a].step # loc.step
        BY DEF Untold
      <4>1. a # loc.a
        BY <1>4, <2>2
      <4>2. mem'.act[a] = mem.act[a]
        BY <1>3, <4>1
      <4> QED BY <3>1, <4>2 DEF Untold
    <3> QED BY <3>1, <3>2
  <2> QED BY <1>4, <2>1, <2>2 DEF Executing
<1>7. pc' \notin CallPcs /\ (pc' \in SyncPcs => pc' = "submit")
  BY DEF ExecPcs, EvmPcs, SolPcs, CallPcs, SyncPcs
<1>8. srv'.a <= srv'.last
  BY <1>1
<1> QED BY <1>5, <1>6, <1>7, <1>8 DEF LInv

\* Steps that leave or have left the execution of an action.
LEMMA OutStep ==
  ASSUME IInv', srv'.a <= srv'.last, RecordsOK', pc' \notin ExecPcs,
         pc' \in SyncPcs => mem' = disk', pc' \notin CallPcs
  PROVE  LInv'
BY DEF LInv

LEMMA CallStep ==
  ASSUME IInv', srv'.a <= srv'.last, RecordsOK', pc' \in CallPcs, mem' = disk', Calling'
  PROVE  LInv'
BY DEF LInv, ExecPcs, EvmPcs, SolPcs, CallPcs

LEMMA StopStep ==
  ASSUME LInv, IInv', Follows(srv'), LandedKept, NEW d, Stop(d), d.act \in {mem.act, disk.act}
  PROVE  LInv'
<1>1. mem' = d /\ disk' = d /\ pc' = "idle"
  BY DEF Stop
<1>2. RecordsOK'
  BY <1>1, RecordsKept
<1> QED BY <1>1, <1>2, OutStep, SessionBehind DEF ExecPcs, EvmPcs, SolPcs, CallPcs

LEMMA StopUpdated ==
  ASSUME LInv, IInv', Follows(srv'), LandedKept, NEW d, Stop(d),
         loc.a \in Actions, NEW x, x.step \in Int, Recorded(loc.a, x),
         d.act = [mem.act EXCEPT ![loc.a] = x]
  PROVE  LInv'
<1>1. mem' = d /\ disk' = d /\ pc' = "idle"
  BY DEF Stop
<1> PICK b : b = loc.a
  OBVIOUS
<1>2. Recorded(b, x)'
  <2>1. WorldOK /\ WorldOK' /\ Recorded(b, x)
    BY DEF LInv, IInv
  <2> QED BY <2>1, RecordedKept
<1>3. RecordsOK'
  BY <1>1, <1>2, RecordsUpdated
<1> QED BY <1>1, <1>3, OutStep, SessionBehind DEF ExecPcs, EvmPcs, SolPcs, CallPcs

\* Back to the loop with what memory and file both hold.
LEMMA LoopStep ==
  ASSUME LInv, IInv', Follows(srv'), LandedKept, mem = disk, Keep, pc' \in {"top", "sleep"}
  PROVE  LInv'
<1>1. RecordsOK' /\ mem' = disk'
  BY RecordsKept DEF Keep
<1> QED BY <1>1, OutStep, SessionBehind DEF ExecPcs, EvmPcs, SolPcs, CallPcs

LEMMA QuietFollows ==
  ASSUME LInv, Quiet
  PROVE  Follows(srv') /\ LandedKept
BY SameFollows, ChainSame DEF LInv, IInv, Quiet

(*--------------------------- the record being executed ---------------------------*)
LEMMA Typed ==
  ASSUME LInv, pc \in ExecPcs \/ (pc \in {"key", "store", "source"} /\ loc.op = "source")
  PROVE  /\ IInv /\ Sound(mem) /\ Sound(disk) /\ loc \in Local /\ loc.a \in Actions
         /\ loc.step \in Steps /\ mem.act \in [Actions -> ActionRec] /\ Cur = mem.act[loc.a]
         /\ Cur \in ActionRec /\ Cur.step \in Int /\ Recorded(loc.a, Cur)
         /\ Cur.item \in [Idx -> {"none", "sent", "done"}] /\ Cur.attempt \in Nat
<1>1. IInv /\ RecordsOK
  BY DEF LInv
<1>2. pc \in ActionPcs \/ (pc \in {"key", "store"} /\ loc.op = "source")
  BY DEF ExecPcs, EvmPcs, SolPcs, ActionPcs
<1>3. loc \in Local /\ loc.a \in Actions /\ Sound(mem) /\ Sound(disk)
  BY <1>1, <1>2 DEF IInv, Fits
<1>4. loc.step \in Steps /\ mem.act \in [Actions -> ActionRec] /\ Cur = mem.act[loc.a]
  BY <1>3 DEF Local, Sound, State, Cur
<1>5. Cur \in ActionRec /\ Cur.step \in Int /\ Recorded(loc.a, Cur)
  BY <1>1, <1>3, <1>4, RecordTyped DEF RecordsOK
<1> QED BY <1>1, <1>3, <1>4, <1>5 DEF ActionRec

LEMMA Executed ==
  ASSUME LInv, pc \in ExecPcs
  PROVE  /\ Executing /\ srv.a = loc.a /\ srv.a <= srv.last /\ srv.step = loc.step
         /\ Cur.status # "absent" => Cur.step = loc.step
         /\ pc # "settle" => Cur.status \notin {"confirmed", "observed"}
         /\ StepReserve[loc.step] \in Nat \ {0}
<1>1. Executing /\ srv.a <= srv.last
  BY DEF LInv
<1>2. srv.a = loc.a /\ srv.step = loc.step
  BY <1>1 DEF Executing
<1>3. Cur.status # "absent" => Cur.step = loc.step
  BY <1>2, Typed DEF Recorded
<1>4. ASSUME pc # "settle" PROVE Cur.status \notin {"confirmed", "observed"}
  <2>1. Untold(mem.act, loc.step)
    BY <1>1, <1>4 DEF Executing
  <2>2. Cur.status \in {"confirmed", "observed"} => Cur.step # loc.step
    BY <2>1, Typed DEF Untold
  <2> QED BY <1>3, <2>2
<1>5. StepReserve[loc.step] \in Nat \ {0}
  BY Typed, PolicyAssumption
<1> QED BY <1>1, <1>2, <1>3, <1>4, <1>5

\* A new status, or another sum paid, changes nothing else.
LEMMA Restatus ==
  ASSUME LInv, pc \in ExecPcs, NEW x,
         x.status \notin {"absent", "confirmed", "observed"}, Cur.status # "absent",
         x.step = Cur.step, x.attempt = Cur.attempt, x.item = Cur.item,
         x.reserve \in {0, Cur.reserve}
  PROVE  Recorded(loc.a, x) /\ x.step \in Int
BY Typed, Executed DEF Recorded

\* What ActionState makes of the record.
LEMMA Opened ==
  ASSUME LInv, pc \in ExecPcs, pc # "settle"
  PROVE  LET m == ActionState(mem) x == m.act[loc.a]
         IN  /\ m.act = [mem.act EXCEPT ![loc.a] = x]
             /\ x \in ActionRec /\ x.step \in Int /\ Recorded(loc.a, x)
             /\ x.status \notin {"absent", "confirmed", "observed"}
             /\ x.reserve = Cur.reserve /\ x.item = Cur.item /\ x.attempt = Cur.attempt
             /\ x.step = loc.step /\ x.status \in {"ready", Cur.status}
<1> PICK m, x : m = ActionState(mem) /\ x = m.act[loc.a]
  OBVIOUS
<1>1. /\ mem \in State /\ mem.act \in [Actions -> ActionRec] /\ loc.a \in Actions
      /\ Cur = mem.act[loc.a] /\ Cur \in ActionRec /\ loc.step \in Steps
  BY Typed DEF Sound
<1>2. CASE Cur.status # "absent"
  <2>1. m = mem
    BY <1>1, <1>2 DEF ActionState
  <2>2. x = Cur /\ m.act = [mem.act EXCEPT ![loc.a] = x]
    BY <1>1, <2>1
  <2> QED BY <1>2, <2>2, Typed, Executed
<1>3. CASE Cur.status = "absent"
  <2>1. m = [mem EXCEPT !.act[loc.a].status = "ready", !.act[loc.a].step = loc.step]
    BY <1>1, <1>3 DEF ActionState
  <2>2. m.act = [mem.act EXCEPT ![loc.a] = [Cur EXCEPT !.status = "ready", !.step = loc.step]]
    <3> DEFINE one == [mem.act EXCEPT ![loc.a] = [@ EXCEPT !.status = "ready"]]
               two == [one EXCEPT ![loc.a] = [@ EXCEPT !.step = loc.step]]
    <3>1. m.act = two
      BY <1>1, <2>1 DEF State
    <3>2. one[loc.a] = [Cur EXCEPT !.status = "ready"]
      BY <1>1
    <3>3. two = [one EXCEPT ![loc.a] = [[Cur EXCEPT !.status = "ready"] EXCEPT !.step = loc.step]]
      BY <3>2
    <3>4. [[Cur EXCEPT !.status = "ready"] EXCEPT !.step = loc.step]
            = [Cur EXCEPT !.status = "ready", !.step = loc.step]
      OBVIOUS
    <3> QED BY <1>1, <3>1, <3>3, <3>4
  <2>3. x = [Cur EXCEPT !.status = "ready", !.step = loc.step]
    BY <1>1, <2>2
  <2>4. /\ x \in ActionRec /\ x.status = "ready" /\ x.step = loc.step /\ x.reserve = Cur.reserve
        /\ x.item = Cur.item /\ x.attempt = Cur.attempt
    BY <1>1, <2>3 DEF ActionRec, Status
  <2>5. Cur = NoAction
    BY <1>3, Typed DEF Recorded
  <2>6. \A i \in Idx : x.item[i] # "done"
    BY <2>4, <2>5 DEF NoAction, NoRows
  <2>7. x.reserve = 0
    BY <2>4, <2>5 DEF NoAction
  <2>8. Recorded(loc.a, x)
    BY <2>4, <2>6, <2>7, Executed DEF Recorded
  <2>9. x.step \in Int
    BY <1>1, <2>4, Sizes DEF Steps
  <2> QED BY <2>2, <2>3, <2>4, <2>8, <2>9
<1> QED BY <1>2, <1>3

(*------------------ the records that the helpers leave ------------------*)
\* Each helper writes one record; counter and keys stay as they are.
SameKeys(s) == s.ctr = mem.ctr /\ s.srcKey = mem.srcKey /\ s.outKey = mem.outKey

LEMMA StatusOnly ==
  ASSUME NEW s, s \in State, NEW a \in Actions, NEW st
  PROVE  /\ [s EXCEPT !.act[a].status = st].act
              = [s.act EXCEPT ![a] = [s.act[a] EXCEPT !.status = st]]
         /\ [s.act[a] EXCEPT !.status = st] =
              [status |-> st, step |-> s.act[a].step, attempt |-> s.act[a].attempt,
               paid |-> s.act[a].paid, reserve |-> s.act[a].reserve, item |-> s.act[a].item]
BY DEF State, ActionRec

LEMMA StatusKeys ==
  ASSUME mem \in State, NEW a, NEW st, NEW s, s = [mem EXCEPT !.act[a].status = st]
  PROVE  SameKeys(s)
BY DEF State, SameKeys

\* An action's row is being worked on.
AtRow == /\ mem \in State /\ mem.act \in [Actions -> ActionRec] /\ loc.a \in Actions
         /\ Cur = mem.act[loc.a] /\ Cur \in ActionRec /\ loc.idx \in Idx
HashRow(s) == s = RecordHash(mem)
ActualRow(s, fee) == s = RecordActual(mem, fee)

LEMMA HashRecord ==
  ASSUME AtRow, NEW s, HashRow(s)
  PROVE  LET x == [Cur EXCEPT !.item = [@ EXCEPT ![loc.idx] = "sent"],
                              !.paid = @ + Value[loc.step][loc.idx], !.status = "submitted"]
         IN  s.act = [mem.act EXCEPT ![loc.a] = x] /\ SameKeys(s)
<1> PICK x : x = [Cur EXCEPT !.item = [@ EXCEPT ![loc.idx] = "sent"],
                             !.paid = @ + Value[loc.step][loc.idx], !.status = "submitted"]
  OBVIOUS
<1>0. /\ mem \in State /\ mem.act \in [Actions -> ActionRec] /\ loc.a \in Actions
      /\ Cur = mem.act[loc.a] /\ Cur \in ActionRec /\ loc.idx \in Idx
  BY DEF AtRow
<1>1. s = [mem EXCEPT !.act[loc.a].item[loc.idx] = "sent",
                         !.act[loc.a].paid = @ + Value[loc.step][loc.idx],
                         !.act[loc.a].status = "submitted", !.txs = @ + 1]
  BY DEF RecordHash, HashRow
<1>2. s.act[loc.a] = x
  BY <1>0, <1>1 DEF State, ActionRec
<1>3. \A a \in Actions : a # loc.a => s.act[a] = mem.act[a]
  BY <1>0, <1>1 DEF State
<1>4. s.act = [a \in Actions |-> s.act[a]]
  BY <1>0, <1>1 DEF State
<1>5. SameKeys(s)
  BY <1>0, <1>1 DEF State, SameKeys
<1> QED BY <1>0, <1>2, <1>3, <1>4, <1>5

LEMMA ActualRecord ==
  ASSUME AtRow, NEW fee, NEW s, ActualRow(s, fee)
  PROVE  LET x == [Cur EXCEPT !.item = [@ EXCEPT ![loc.idx] = "done"], !.paid = @ + fee]
         IN  s.act = [mem.act EXCEPT ![loc.a] = x] /\ SameKeys(s)
<1> PICK x : x = [Cur EXCEPT !.item = [@ EXCEPT ![loc.idx] = "done"], !.paid = @ + fee]
  OBVIOUS
<1>0. /\ mem \in State /\ mem.act \in [Actions -> ActionRec] /\ loc.a \in Actions
      /\ Cur = mem.act[loc.a] /\ Cur \in ActionRec /\ loc.idx \in Idx
  BY DEF AtRow
<1>1. s = [mem EXCEPT !.act[loc.a].item[loc.idx] = "done", !.act[loc.a].paid = @ + fee,
                         !.spent = @ + fee + Value[loc.step][loc.idx]]
  BY DEF RecordActual, ActualRow
<1>2. s.act[loc.a] = x
  BY <1>0, <1>1 DEF State, ActionRec
<1>3. \A a \in Actions : a # loc.a => s.act[a] = mem.act[a]
  BY <1>0, <1>1 DEF State
<1>4. s.act = [a \in Actions |-> s.act[a]]
  BY <1>0, <1>1 DEF State
<1>5. SameKeys(s)
  BY <1>0, <1>1 DEF State, SameKeys
<1> QED BY <1>0, <1>2, <1>3, <1>4, <1>5

LEMMA ReleasedRecord ==
  ASSUME mem \in State, mem.act \in [Actions -> ActionRec], loc.a \in Actions,
         Cur \in ActionRec, Cur = mem.act[loc.a],
         NEW s, s = ReleaseUnsubmitted(mem),
         NEW x, x = [Cur EXCEPT !.reserve = 0, !.status = Released]
  PROVE  s.act = [mem.act EXCEPT ![loc.a] = x] /\ SameKeys(s)
<1> PICK st, r : st = Released /\ r = mem.resv - mem.act[loc.a].reserve
  OBVIOUS
<1>1. s = [mem EXCEPT !.resv = r, !.act[loc.a].reserve = 0, !.act[loc.a].status = st]
  BY DEF ReleaseUnsubmitted, State
<1> PICK one : one = [mem EXCEPT !.resv = r, !.act[loc.a].reserve = 0]
  OBVIOUS
<1>2. one.act = [mem.act EXCEPT ![loc.a] = [Cur EXCEPT !.reserve = 0]]
  BY DEF State
<1>3. s = [one EXCEPT !.act[loc.a].status = st]
  BY <1>1
<1>4. one.act[loc.a] = [Cur EXCEPT !.reserve = 0]
  BY <1>2 DEF State
<1>5. s.act = [one.act EXCEPT ![loc.a] = [one.act[loc.a] EXCEPT !.status = st]]
  BY <1>3 DEF State
<1>6. [one.act[loc.a] EXCEPT !.status = st] = x
  BY <1>4 DEF ActionRec
<1>7. SameKeys(s)
  BY <1>1 DEF State, SameKeys
<1> QED BY <1>2, <1>5, <1>6, <1>7 DEF State

(*------------------------------ executeEvm ------------------------------*)
LEMMA EvmReserveLands == LInv /\ IInv' /\ EvmReserve => LInv'
<1> SUFFICES ASSUME LInv, IInv', EvmReserve PROVE LInv'
  OBVIOUS
<1>1. pc = "evm" /\ pc \in ExecPcs /\ pc \in EvmPcs /\ Quiet
  BY DEF EvmReserve, ExecPcs, EvmPcs
<1>2. Follows(srv') /\ LandedKept /\ UNCHANGED srv
  BY <1>1, QuietFollows DEF Quiet
<1>3. CASE Stop(disk)
  BY <1>2, <1>3, StopStep
<1>4. CASE ~Stop(disk)
  <2> PICK r : r = StepReserve[loc.step]
    OBVIOUS
  <2> PICK m, o : m = ActionState(mem) /\ o = m.act[loc.a]
    OBVIOUS
  <2>1. /\ m.act = [mem.act EXCEPT ![loc.a] = o] /\ o \in ActionRec /\ o.step \in Int
        /\ Recorded(loc.a, o) /\ o.status \notin {"absent", "confirmed", "observed"}
        /\ o.reserve = Cur.reserve /\ o.item = Cur.item /\ o.attempt = Cur.attempt
        /\ o.step = loc.step
    BY <1>1, Opened
  <2>2. /\ Write(IF Cur.reserve = 0 THEN ReserveFor(m, r) ELSE m) /\ Goto("rows")
    BY <1>4 DEF EvmReserve
  <2> PICK x : x = IF Cur.reserve = 0 THEN [o EXCEPT !.reserve = r] ELSE o
    OBVIOUS
  <2>3. /\ mem \in State /\ mem.act \in [Actions -> ActionRec] /\ loc.a \in Actions
        /\ Cur = mem.act[loc.a] /\ Sound(ActionState(mem)) /\ loc.step \in Steps
        /\ Cur \in ActionRec /\ Recorded(loc.a, Cur)
    BY <1>1, Typed, ActionStateSound DEF Sound
  <2>4. m \in State /\ m.act[loc.a] = o
    BY <2>3 DEF Sound
  <2>5. mem'.act = [mem.act EXCEPT ![loc.a] = x]
    <3>1. CASE Cur.reserve = 0
      <4>1. mem' = [m EXCEPT !.resv = @ + r, !.act[loc.a].reserve = r]
        BY <2>2, <3>1 DEF Write, ReserveFor
      <4>2. mem'.act = [m.act EXCEPT ![loc.a] = [o EXCEPT !.reserve = r]]
        BY <2>4, <4>1 DEF State
      <4>3. mem'.act = [m.act EXCEPT ![loc.a] = x]
        BY <3>1, <4>2
      <4> QED BY <2>1, <2>3, <4>3
    <3>2. CASE Cur.reserve # 0
      BY <2>1, <2>2, <3>2 DEF Write
    <3> QED BY <3>1, <3>2
  <2>6. /\ x.status = o.status /\ x.step = loc.step /\ x.item = o.item /\ x.attempt = o.attempt
        /\ x.reserve = StepReserve[loc.step]
    <3>1. Cur.reserve # 0 => Cur.reserve = StepReserve[loc.step]
      <4>1. Cur.reserve # 0 => Cur.status # "absent"
        BY <2>3 DEF Recorded, NoAction
      <4> QED BY <1>1, <2>3, <4>1, Executed DEF Recorded
    <3> QED BY <2>1, <3>1 DEF ActionRec
  <2>7. Recorded(loc.a, x) /\ x.step \in Int
    BY <2>1, <2>6 DEF Recorded
  <2>8. pc' = "rows" /\ loc' = loc /\ mem' = disk' /\ loc.idx = 0
    BY <1>1, <2>2, Executed DEF Goto, Write, Executing
  <2>9. \A i \in 0 .. loc'.idx - 1 : x.item[i] = "done"
    BY <2>8
  <2> QED BY <1>1, <1>2, <2>1, <2>5, <2>6, <2>7, <2>8, <2>9, ExecStep DEF ExecPcs, EvmPcs
<1> QED BY <1>3, <1>4

\* A step within an execution that writes no record.
LEMMA ExecKeep ==
  ASSUME LInv, IInv', pc \in ExecPcs, pc' \in ExecPcs, UNCHANGED srv, LandedKept, Keep,
         loc'.a = loc.a, loc'.step = loc.step, pc # "settle", pc' # "settle",
         pc' \in EvmPcs <=> pc \in EvmPcs, pc' \notin {"evm", "sol", "submit"},
         Cur.status # "absent",
         pc' \in RowPcs \union {"rows"} =>
           /\ Cur.reserve = StepReserve[loc.step]
           /\ \A i \in 0 .. loc'.idx - 1 : Cur.item[i] = "done",
         pc' \in {"rprepare", "rsubmit", "rconfirm", "sdone"} => Cur.item[0] = "done"
  PROVE  LInv'
<1> PICK x : x = Cur
  OBVIOUS
<1>1. Recorded(loc.a, x) /\ x.step \in Int /\ mem.act \in [Actions -> ActionRec]
      /\ mem.act[loc.a] = x
  BY Typed
<1>2. mem'.act = [mem.act EXCEPT ![loc.a] = x] /\ disk' = disk
  BY <1>1 DEF Keep
<1>3. x.status \notin {"confirmed", "observed"}
  BY Executed
<1> QED BY <1>1, <1>2, <1>3, ExecStep

LEMMA EvmRowLands == LInv /\ IInv' /\ EvmRow => LInv'
<1> SUFFICES ASSUME LInv, IInv', EvmRow PROVE LInv'
  OBVIOUS
<1>1. pc = "rows" /\ pc \in ExecPcs /\ pc \in EvmPcs /\ Quiet
  BY DEF EvmRow, ExecPcs, EvmPcs
<1>2. LandedKept /\ UNCHANGED srv
  BY <1>1, QuietFollows DEF Quiet
<1>3. /\ Cur.reserve = StepReserve[loc.step] /\ Cur.status # "absent"
      /\ \A i \in 0 .. loc.idx - 1 : Cur.item[i] = "done"
  BY <1>1, Executed DEF Executing
<1>4. /\ mem \in State /\ mem.act \in [Actions -> ActionRec] /\ loc.a \in Actions
      /\ Cur = mem.act[loc.a] /\ loc \in Local /\ loc.idx \in Nat /\ loc.step \in Steps
      /\ Cur \in ActionRec
  BY <1>1, Typed DEF Sound, Local
<1>5. CASE loc.idx = Rows[loc.step]
  <2> PICK x : x = [Cur EXCEPT !.status = "confirmed"]
    OBVIOUS
  <2>1. /\ mem' = [mem EXCEPT !.act[loc.a].status = "confirmed"]
        /\ UNCHANGED disk /\ pc' = "settle" /\ UNCHANGED loc
    BY <1>5 DEF EvmRow, Goto
  <2>2. mem'.act = [mem.act EXCEPT ![loc.a] = x]
    BY <1>4, <2>1 DEF State
  <2>3. /\ x.status = "confirmed" /\ x.step = Cur.step /\ x.item = Cur.item
        /\ x.attempt = Cur.attempt /\ x.reserve = Cur.reserve /\ x.step = loc.step
    BY <1>1, <1>3, <1>4, Executed DEF ActionRec
  <2>4. Recorded(loc.a, x) /\ x.step \in Int
    BY <1>1, <1>3, <1>5, <2>3, Typed, Executed DEF Recorded
  <2> QED BY <1>1, <1>2, <2>1, <2>2, <2>3, <2>4, ExecStep DEF ExecPcs, EvmPcs, RowPcs
<1>6. CASE loc.idx # Rows[loc.step]
  <2>1. Keep
    BY <1>6 DEF EvmRow
  <2>2. CASE Cur.item[loc.idx] = "done"
    <3>1. pc' = pc /\ loc' = [loc EXCEPT !.idx = @ + 1]
      BY <1>6, <2>2 DEF EvmRow
    <3>2. loc'.a = loc.a /\ loc'.step = loc.step /\ loc'.idx = loc.idx + 1
      BY <1>4, <3>1 DEF Local
    <3>3. \A i \in 0 .. loc'.idx - 1 : Cur.item[i] = "done"
      <4> SUFFICES ASSUME NEW i \in 0 .. loc.idx PROVE Cur.item[i] = "done"
        BY <1>4, <3>2
      <4>1. i = loc.idx \/ i \in 0 .. loc.idx - 1
        BY <1>4
      <4> QED BY <1>3, <2>2, <4>1
    <3> QED BY <1>1, <1>2, <1>3, <2>1, <3>1, <3>2, <3>3, ExecKeep
  <2>3. CASE Cur.item[loc.idx] # "done"
    <3>1. pc' \in {"confirm", "prepare", "catch"} /\ UNCHANGED loc
      BY <1>6, <2>3 DEF EvmRow, Goto
    <3> QED BY <1>1, <1>2, <1>3, <2>1, <3>1, ExecKeep DEF ExecPcs, EvmPcs
  <2> QED BY <2>2, <2>3
<1> QED BY <1>5, <1>6

LEMMA EvmPrepareLands == LInv /\ IInv' /\ EvmPrepare => LInv'
<1> SUFFICES ASSUME LInv, IInv', EvmPrepare PROVE LInv'
  OBVIOUS
<1>1. pc = "prepare" /\ pc \in ExecPcs /\ pc \in EvmPcs /\ Quiet
  BY DEF EvmPrepare, ExecPcs, EvmPcs
<1>2. LandedKept /\ UNCHANGED srv
  BY <1>1, QuietFollows DEF Quiet
<1>3. /\ Cur.reserve = StepReserve[loc.step] /\ Cur.status # "absent"
      /\ \A i \in 0 .. loc.idx - 1 : Cur.item[i] = "done"
  BY <1>1, Executed DEF Executing, RowPcs
<1>4. /\ mem \in State /\ mem.act \in [Actions -> ActionRec] /\ loc.a \in Actions
      /\ Cur = mem.act[loc.a] /\ loc \in Local
  BY <1>1, Typed DEF Sound
<1>5. CASE Keep /\ Goto("catch")
  <2>1. pc' = "catch" /\ loc' = loc
    BY <1>5 DEF Goto
  <2> QED BY <1>1, <1>2, <1>3, <1>5, <2>1, ExecKeep DEF ExecPcs, EvmPcs
<1>6. ASSUME NEW gas, NEW l, l = [loc EXCEPT !.gas = gas, !.tried = TRUE],
             (Write(Announce(mem)) /\ pc' = "submit" /\ loc' = l) \/ SaveFails(Announce(mem), l)
      PROVE  LInv'
  <2> PICK x : x = [Cur EXCEPT !.status = Attempted]
    OBVIOUS
  <2>1. mem' = Announce(mem) /\ pc' \in {"submit", "catch"} /\ loc' = l
    BY <1>6 DEF Write, SaveFails
  <2>2. pc' = "submit" => disk' = mem'
    BY <1>6 DEF Write, SaveFails
  <2>3. disk' = disk \/ disk' = mem'
    BY <1>6 DEF Write, SaveFails
  <2>4. /\ mem'.act = [mem.act EXCEPT ![loc.a] = x] /\ x.status = Attempted /\ x.step = Cur.step
        /\ x.attempt = Cur.attempt /\ x.item = Cur.item /\ x.reserve = Cur.reserve
    BY <1>4, <2>1, StatusOnly DEF Announce
  <2>5. Attempted \notin {"absent", "confirmed", "observed"}
    BY DEF Attempted
  <2>6. Recorded(loc.a, x) /\ x.step \in Int
    BY <1>1, <1>3, <2>4, <2>5, Restatus
  <2>7. loc'.a = loc.a /\ loc'.step = loc.step /\ loc'.idx = loc.idx
    BY <1>4, <1>6, <2>1 DEF Local
  <2>8. \A i \in 0 .. loc'.idx - 1 : x.item[i] = "done"
    BY <1>3, <2>4, <2>7
  <2> QED BY <1>1, <1>2, <1>3, <2>1, <2>2, <2>3, <2>4, <2>5, <2>6, <2>7, <2>8, ExecStep
          DEF ExecPcs, EvmPcs
<1> QED BY <1>5, <1>6 DEF EvmPrepare

LEMMA BroadcastLands ==
  ASSUME WorldOK, NEW a, NEW t, NEW s, NEW i, NEW g, Broadcast(a, t, s, i, g)
  PROVE  LandedKept
<1> PICK c, d : c = chain /\ d = chain'
  OBVIOUS
<1>1. c \in Seq(Tx) /\ Len(c) \in Nat
  BY DEF WorldOK, WorldTypeOK
<1>2. \A k \in DOMAIN c : k \in DOMAIN d /\ d[k] = c[k]
  BY <1>1 DEF Broadcast
<1>3. ASSUME NEW b, NEW u, NEW j, Landed(b, u, j) PROVE Landed(b, u, j)'
  BY <1>2, <1>3 DEF Landed, TxOf
<1> QED BY <1>3 DEF LandedKept

LEMMA EvmSubmitLands == LInv /\ IInv' /\ EvmSubmit => LInv'
<1> SUFFICES ASSUME LInv, IInv', EvmSubmit PROVE LInv'
  OBVIOUS
<1>1. /\ pc = "submit" /\ pc \in ExecPcs /\ pc \in EvmPcs /\ Keep /\ UNCHANGED srv
      /\ pc' \in {"record", "catch"} /\ UNCHANGED loc
  BY DEF EvmSubmit, ExecPcs, EvmPcs, OnlyNet, Goto
<1>2. LandedKept
  BY BroadcastLands, ChainSame DEF EvmSubmit, Send, LInv, IInv
<1>3. /\ Cur.reserve = StepReserve[loc.step] /\ Cur.status # "absent"
      /\ \A i \in 0 .. loc.idx - 1 : Cur.item[i] = "done"
  BY <1>1, Executed DEF Executing, RowPcs
<1> QED BY <1>1, <1>2, <1>3, ExecKeep DEF ExecPcs, EvmPcs

LEMMA EvmRecordLands == LInv /\ IInv' /\ EvmRecord => LInv'
<1> SUFFICES ASSUME LInv, IInv', EvmRecord PROVE LInv'
  OBVIOUS
<1>1. pc = "record" /\ pc \in ExecPcs /\ pc \in EvmPcs /\ Quiet /\ pc \in RowPcs
  BY DEF EvmRecord, ExecPcs, EvmPcs, RowPcs
<1>2. LandedKept /\ UNCHANGED srv
  BY <1>1, QuietFollows DEF Quiet
<1>3. /\ Cur.reserve = StepReserve[loc.step] /\ Cur.status # "absent"
      /\ \A i \in 0 .. loc.idx - 1 : Cur.item[i] = "done"
  BY <1>1, Executed DEF Executing
<1>4. /\ mem \in State /\ mem.act \in [Actions -> ActionRec] /\ loc.a \in Actions
      /\ Cur = mem.act[loc.a] /\ Cur \in ActionRec /\ loc.idx \in Idx /\ loc.idx \in Int
  BY <1>1, Typed, Inside DEF Sound, Idx
<1>5. mem' = RecordHash(mem) /\ (disk' = disk \/ disk' = mem') /\ pc' \in {"confirm", "catch"}
      /\ loc' = loc
  BY DEF EvmRecord, Write, SaveFails, Goto
<1> PICK x : x = [Cur EXCEPT !.item = [@ EXCEPT ![loc.idx] = "sent"],
                             !.paid = @ + Value[loc.step][loc.idx], !.status = "submitted"]
  OBVIOUS
<1> PICK s : s = RecordHash(mem)
  OBVIOUS
<1>6. mem'.act = [mem.act EXCEPT ![loc.a] = x]
  <2>1. AtRow /\ HashRow(mem')
    BY <1>4, <1>5 DEF AtRow, HashRow
  <2> QED BY <2>1, HashRecord
<1>7. /\ x.status = "submitted" /\ x.step = Cur.step /\ x.attempt = Cur.attempt
      /\ x.reserve = Cur.reserve /\ x.item[loc.idx] = "sent"
      /\ \A i \in Idx : i # loc.idx => x.item[i] = Cur.item[i]
  BY <1>4 DEF ActionRec
<1>8. Recorded(loc.a, x) /\ x.step \in Int
  BY <1>1, <1>3, <1>7, Typed, Executed DEF Recorded
<1>9. \A i \in 0 .. loc'.idx - 1 : x.item[i] = "done"
  <2> SUFFICES ASSUME NEW i \in 0 .. loc.idx - 1 PROVE x.item[i] = "done"
    BY <1>5
  <2>1. i \in Idx /\ i # loc.idx
    BY <1>4, Sizes, ShapeAssumption DEF Idx
  <2> QED BY <1>3, <1>7, <2>1
<1> QED BY <1>1, <1>2, <1>3, <1>5, <1>6, <1>7, <1>8, <1>9, ExecStep DEF ExecPcs, EvmPcs

\* A receipt says that the row landed.
LEMMA ReceiptLands ==
  ASSUME NEW i, Receipts(i) # {}
  PROVE  Landed(loc.a, Cur.attempt, i)
BY DEF Receipts, Landed

LEMMA EvmConfirmLands == LInv /\ IInv' /\ EvmConfirm => LInv'
<1> SUFFICES ASSUME LInv, IInv', EvmConfirm PROVE LInv'
  OBVIOUS
<1>1. pc = "confirm" /\ pc \in ExecPcs /\ pc \in EvmPcs /\ Quiet /\ pc \in RowPcs
  BY DEF EvmConfirm, ExecPcs, EvmPcs, RowPcs
<1>2. LandedKept /\ UNCHANGED srv
  BY <1>1, QuietFollows DEF Quiet
<1>3. /\ Cur.reserve = StepReserve[loc.step] /\ Cur.status # "absent"
      /\ \A i \in 0 .. loc.idx - 1 : Cur.item[i] = "done"
  BY <1>1, Executed DEF Executing
<1>4. /\ mem \in State /\ mem.act \in [Actions -> ActionRec] /\ loc.a \in Actions
      /\ Cur = mem.act[loc.a] /\ Cur \in ActionRec /\ loc.idx \in Idx /\ loc.idx \in Nat
      /\ loc \in Local
  BY <1>1, Typed, Inside DEF Sound, Idx
<1>5. CASE Keep /\ Goto("catch")
  <2>1. pc' = "catch" /\ loc' = loc
    BY <1>5 DEF Goto
  <2> QED BY <1>1, <1>2, <1>3, <1>5, <2>1, ExecKeep DEF ExecPcs, EvmPcs
<1>6. ASSUME NEW k \in Receipts(loc.idx), NEW s, s = RecordActual(mem, chain[k].fee),
             IF ~SpendFits(mem, s) THEN mem' = s /\ UNCHANGED disk /\ Goto("catch")
             ELSE \/ Write(s) /\ pc' = "rows" /\ loc' = [loc EXCEPT !.idx = @ + 1]
                  \/ SaveFails(s, loc)
      PROVE  LInv'
  <2> PICK x, fee : /\ fee = chain[k].fee
                    /\ x = [Cur EXCEPT !.item = [@ EXCEPT ![loc.idx] = "done"], !.paid = @ + fee]
    OBVIOUS
  <2>1. /\ mem' = s /\ (disk' = disk \/ disk' = mem') /\ pc' \in {"rows", "catch"}
        /\ loc'.a = loc.a /\ loc'.step = loc.step
        /\ loc' = loc \/ loc'.idx = loc.idx + 1
    BY <1>4, <1>6 DEF Write, SaveFails, Goto, Local
  <2>2. mem'.act = [mem.act EXCEPT ![loc.a] = x]
    <3>1. AtRow /\ ActualRow(mem', fee)
      BY <1>4, <1>6, <2>1 DEF AtRow, ActualRow
    <3> QED BY <3>1, ActualRecord
  <2>3. /\ x.status = Cur.status /\ x.step = Cur.step /\ x.attempt = Cur.attempt
        /\ x.reserve = Cur.reserve /\ x.item[loc.idx] = "done"
        /\ \A i \in Idx : i # loc.idx => x.item[i] = Cur.item[i]
    BY <1>4 DEF ActionRec
  <2>4. Recorded(loc.a, x) /\ x.step \in Int
    <3>1. Landed(loc.a, Cur.attempt, loc.idx)
      BY <1>6, ReceiptLands
    <3> QED BY <1>1, <1>3, <2>3, <3>1, Typed, Executed DEF Recorded
  <2>5. \A i \in 0 .. loc'.idx - 1 : x.item[i] = "done"
    <3> SUFFICES ASSUME NEW i \in 0 .. loc.idx PROVE i < loc'.idx => x.item[i] = "done"
      BY <1>4, <2>1
    <3>1. i \in Idx
      BY <1>4, Sizes, ShapeAssumption DEF Idx
    <3>2. i = loc.idx \/ i \in 0 .. loc.idx - 1
      BY <1>4
    <3> QED BY <1>3, <2>3, <3>1, <3>2
  <2>6. x.status \notin {"confirmed", "observed"} /\ x.status # "absent"
    BY <1>1, <1>3, <2>3, Executed
  <2> QED BY <1>1, <1>2, <1>3, <2>1, <2>2, <2>3, <2>4, <2>5, <2>6, ExecStep DEF ExecPcs, EvmPcs
<1> QED BY <1>5, <1>6 DEF EvmConfirm

\* A settled action gives its reserve back, wherever its record is kept.
LEMMA ReleaseLands == LInv /\ IInv' /\ ReleaseOne => LInv'
<1> SUFFICES ASSUME LInv, IInv', ReleaseOne PROVE LInv'
  OBVIOUS
<1>1. Follows(srv') /\ LandedKept /\ UNCHANGED srv /\ pc \in {"restart", "settle"}
  BY QuietFollows DEF ReleaseOne, Quiet
<1>2. CASE Stop(disk)
  BY <1>1, <1>2, StopStep
<1>3. ASSUME NEW a \in Settled(mem), mem' = ReleaseReserve(mem, a), UNCHANGED <<disk, pc, loc>>
      PROVE  LInv'
  <2>1. /\ a \in Actions /\ mem \in State /\ mem.act \in [Actions -> ActionRec] /\ RecordsOK
        /\ WorldOK /\ WorldOK' /\ srv.a <= srv.last
    BY <1>3 DEF Settled, LInv, IInv, Sound, State
  <2> PICK x, y : y = mem.act[a] /\ x = [y EXCEPT !.reserve = 0]
    OBVIOUS
  <2>2. mem'.act = [mem.act EXCEPT ![a] = x]
    BY <1>3, <2>1 DEF ReleaseReserve, State
  <2>3. /\ x.status = y.status /\ x.step = y.step /\ x.attempt = y.attempt
        /\ x.reserve = 0 /\ x.item = y.item /\ y.step \in Int
    BY <2>1, Sizes DEF ActionRec, Steps
  <2>4. y.status # "absent"
    BY <1>3 DEF Settled
  <2>5. Recorded(a, x)
    BY <2>1, <2>3, <2>4 DEF Recorded, RecordsOK
  <2>6. Recorded(a, x)'
    BY <1>1, <2>1, <2>3, <2>5, RecordedKept
  <2>7. RecordsOK'
    BY <1>1, <1>3, <2>1, <2>2, <2>6, RecordsUpdated
  <2>8. CASE pc = "restart"
    BY <1>1, <1>3, <2>1, <2>7, <2>8, OutStep DEF ExecPcs, EvmPcs, SolPcs, CallPcs, SyncPcs
  <2>9. CASE pc = "settle"
    <3>1. pc \in ExecPcs /\ Executing /\ loc.a \in Actions
      BY <2>9, Typed, Executed DEF ExecPcs, EvmPcs
    <3>2. Cur'.status = Cur.status
      BY <1>3, <2>1, <2>2, <2>3, <3>1 DEF Cur
    <3>3. Executing'
      BY <1>1, <1>3, <2>9, <3>1, <3>2 DEF Executing, RowPcs, EvmPcs
    <3> QED BY <1>1, <1>3, <2>1, <2>7, <2>9, <3>3 DEF LInv, SyncPcs, CallPcs
  <2> QED BY <1>1, <2>8, <2>9
<1> QED BY <1>2, <1>3 DEF ReleaseOne

\* From the end of an execution to the observation of its source.
LEMMA ToSource ==
  ASSUME LInv, IInv', RecordsOK', pc \in ExecPcs, pc' = "key", UNCHANGED srv, mem' = disk',
         loc' = [NoLocals EXCEPT !.op = "source", !.a = loc.a, !.step = loc.step],
         mem'.act[loc.a].status # "absent", mem'.act[loc.a].step = loc.step
  PROVE  LInv'
<1>1. srv.step = loc.step /\ srv.a <= srv.last
  BY Executed
<1>2. loc'.op = "source" /\ loc'.a = loc.a /\ loc'.step = loc.step
  BY DEF NoLocals
<1>3. Calling'
  BY <1>1, <1>2 DEF Calling, Cur
<1> QED BY <1>1, <1>3, CallStep DEF CallPcs

LEMMA EvmSettledLands == LInv /\ IInv' /\ EvmSettled => LInv'
<1> SUFFICES ASSUME LInv, IInv', EvmSettled PROVE LInv'
  OBVIOUS
<1>1. pc = "settle" /\ pc \in ExecPcs /\ Quiet /\ mem' = mem /\ disk' = mem
  BY DEF EvmSettled, Write, ExecPcs, EvmPcs
<1>2. Follows(srv') /\ LandedKept /\ UNCHANGED srv
  BY <1>1, QuietFollows DEF Quiet
<1>3. RecordsOK'
  BY <1>1, <1>2, RecordsKept
<1>4. Cur.status # "absent" /\ Cur.step = loc.step
  BY <1>1, Executed DEF Executing
<1> QED BY <1>1, <1>2, <1>3, <1>4, ToSource DEF EvmSettled, Cur

LEMMA EvmCatchLands == LInv /\ IInv' /\ EvmCatch => LInv'
<1> SUFFICES ASSUME LInv, IInv', EvmCatch PROVE LInv'
  OBVIOUS
<1>1. pc = "catch" /\ pc \in ExecPcs /\ pc \in EvmPcs /\ Quiet
  BY DEF EvmCatch, ExecPcs, EvmPcs
<1>2. Follows(srv') /\ LandedKept /\ UNCHANGED srv
  BY <1>1, QuietFollows DEF Quiet
<1>3. Cur.status # "absent"
  BY <1>1, Executed DEF Executing
<1>4. /\ mem \in State /\ mem.act \in [Actions -> ActionRec] /\ loc.a \in Actions
      /\ Cur = mem.act[loc.a] /\ Cur \in ActionRec
  BY <1>1, Typed DEF Sound
<1>5. CASE NeedsRecovery(Cur) /\ Keep /\ Goto("rprepare")
  <2>1. Cur.item[0] = "done" /\ pc' = "rprepare" /\ loc' = loc
    BY <1>5 DEF NeedsRecovery, ApprovalDone, Goto
  <2> QED BY <1>1, <1>2, <1>3, <1>5, <2>1, ExecKeep DEF ExecPcs, EvmPcs, RowPcs
<1>6. CASE Stop(Caught(mem))
  <2> PICK d : d = Caught(mem)
    OBVIOUS
  <2>0. Stop(d)
    BY <1>6
  <2>1. CASE d = disk
    BY <1>2, <2>0, <2>1, StopStep
  <2>2. CASE d = OutcomeUnknown(mem)
    <3> PICK x : x = [Cur EXCEPT !.status = Unknown]
      OBVIOUS
    <3>1. /\ d.act = [mem.act EXCEPT ![loc.a] = x]
          /\ x.status = Unknown /\ x.step = Cur.step /\ x.attempt = Cur.attempt
          /\ x.item = Cur.item /\ x.reserve = Cur.reserve
      BY <1>4, <2>2, StatusOnly DEF OutcomeUnknown
    <3>2. Recorded(loc.a, x) /\ x.step \in Int
      BY <1>1, <1>3, <3>1, Restatus DEF Unknown
    <3> QED BY <1>2, <1>4, <2>0, <3>1, <3>2, StopUpdated
  <2>3. CASE d = ReleaseUnsubmitted(mem)
    <3> PICK x : x = [Cur EXCEPT !.reserve = 0, !.status = Released]
      OBVIOUS
    <3>1. d.act = [mem.act EXCEPT ![loc.a] = x]
      BY <1>4, <2>3, ReleasedRecord
    <3>2. /\ x.status = Released /\ x.step = Cur.step /\ x.attempt = Cur.attempt
          /\ x.item = Cur.item /\ x.reserve = 0
      BY <1>4 DEF ActionRec
    <3>3. Recorded(loc.a, x) /\ x.step \in Int
      BY <1>1, <1>3, <3>2, Restatus DEF Released
    <3> QED BY <1>2, <1>4, <2>0, <3>1, <3>3, StopUpdated
  <2> QED BY <2>1, <2>2, <2>3 DEF Caught
<1> QED BY <1>5, <1>6 DEF EvmCatch

\* What Recovered makes of the record.
LEMMA ReopenedRecord ==
  ASSUME LInv, pc \in ExecPcs, Cur.status # "absent", NEW fee,
         NEW s, s = Recovered(mem, fee), NEW x, x = Reopened(Cur)
  PROVE  /\ s.act = [mem.act EXCEPT ![loc.a] = x] /\ Recorded(loc.a, x) /\ x.step \in Int
         /\ x.attempt = Cur.attempt + 1 /\ x.item = NoRows /\ x.status = Retryable
         /\ x.step = Cur.step
<1>1. /\ mem \in State /\ mem.act \in [Actions -> ActionRec] /\ loc.a \in Actions
      /\ Cur = mem.act[loc.a] /\ Cur \in ActionRec
  BY Typed DEF Sound
<1>2. s = [mem EXCEPT !.txs = @ + 1, !.spent = @ + fee, !.act[loc.a] = x]
  BY <1>1 DEF Recovered
<1>3. s.act = [mem.act EXCEPT ![loc.a] = x]
  BY <1>1, <1>2 DEF State
<1>4. /\ x.attempt = Cur.attempt + 1 /\ x.item = NoRows /\ x.status = Retryable
      /\ x.step = Cur.step /\ x.reserve = Cur.reserve
  BY <1>1 DEF Reopened, ActionRec
<1>5. \A i \in Idx : x.item[i] = "none"
  BY <1>4 DEF NoRows
<1>6. Retryable \notin {"absent", "confirmed", "observed"}
  BY DEF Retryable
<1>7. Recorded(loc.a, x) /\ x.step \in Int
  BY <1>4, <1>5, <1>6, Typed, Executed DEF Recorded
<1> QED BY <1>3, <1>4, <1>7

LEMMA RevokeLands ==
  LInv /\ IInv' /\ (RevokePrepare \/ RevokeSubmit \/ RevokeConfirm) => LInv'
<1> SUFFICES ASSUME LInv, IInv', RevokePrepare \/ RevokeSubmit \/ RevokeConfirm PROVE LInv'
  OBVIOUS
<1>1. pc \in {"rprepare", "rsubmit", "rconfirm"} /\ pc \in ExecPcs /\ pc \in EvmPcs
  BY DEF RevokePrepare, RevokeSubmit, RevokeConfirm, ExecPcs, EvmPcs
<1>2. Follows(srv') /\ LandedKept /\ UNCHANGED srv
  <2>1. CASE RevokePrepare \/ RevokeConfirm
    BY <2>1, QuietFollows DEF RevokePrepare, RevokeConfirm, Quiet
  <2>2. CASE RevokeSubmit
    BY <2>2, SameFollows, BroadcastLands, ChainSame DEF RevokeSubmit, Send, OnlyNet, LInv, IInv
  <2> QED BY <2>1, <2>2
<1>3. Cur.status # "absent" /\ Cur.item[0] = "done"
  BY <1>1, Executed DEF Executing
<1>4. CASE Stop(disk)
  BY <1>2, <1>4, StopStep
<1>5. CASE Keep /\ pc' \in {"rsubmit", "rconfirm"} /\ loc'.a = loc.a /\ loc'.step = loc.step
  BY <1>1, <1>2, <1>3, <1>5, ExecKeep DEF ExecPcs, EvmPcs, RowPcs
<1>6. ASSUME NEW fee, Stop(Recovered(mem, fee)) PROVE LInv'
  <2> PICK s, x : s = Recovered(mem, fee) /\ x = Reopened(Cur)
    OBVIOUS
  <2>1. s.act = [mem.act EXCEPT ![loc.a] = x] /\ Recorded(loc.a, x) /\ x.step \in Int
    BY <1>1, <1>3, ReopenedRecord
  <2>2. loc.a \in Actions
    BY <1>1, Typed
  <2> QED BY <1>2, <1>6, <2>1, <2>2, StopUpdated
<1>7. loc \in Local
  BY <1>1, Typed
<1> QED BY <1>4, <1>5, <1>6, <1>7 DEF RevokePrepare, RevokeSubmit, RevokeConfirm, Goto, Local

(*---------------------------- executeSolana ----------------------------*)
LEMMA SolBeginLands == LInv /\ IInv' /\ SolBegin => LInv'
<1> SUFFICES ASSUME LInv, IInv', SolBegin PROVE LInv'
  OBVIOUS
<1>1. pc = "sol" /\ pc \in ExecPcs /\ pc \notin EvmPcs /\ Quiet
  BY DEF SolBegin, ExecPcs, EvmPcs, SolPcs
<1>2. Follows(srv') /\ LandedKept /\ UNCHANGED srv
  BY <1>1, QuietFollows DEF Quiet
<1>3. CASE Stop(disk)
  BY <1>2, <1>3, StopStep
<1>4. CASE ~Stop(disk)
  <2> PICK m, x : m = ActionState(mem) /\ x = m.act[loc.a]
    OBVIOUS
  <2>1. /\ m.act = [mem.act EXCEPT ![loc.a] = x] /\ x.step \in Int
        /\ Recorded(loc.a, x) /\ x.status \notin {"absent", "confirmed", "observed"}
        /\ x.item = Cur.item
    BY <1>1, Opened
  <2>2. /\ mem' = m /\ UNCHANGED <<disk, loc>> /\ pc' \in {"sdone", "sconfirm", "sprepare"}
        /\ pc' = "sdone" => Cur.item[0] = "done"
    BY <1>4 DEF SolBegin, Goto
  <2> QED BY <1>1, <1>2, <2>1, <2>2, ExecStep DEF ExecPcs, EvmPcs, SolPcs, RowPcs
<1> QED BY <1>3, <1>4

LEMMA SolSubmitLands == LInv /\ IInv' /\ (SolPrepare \/ SolSubmit) => LInv'
<1> SUFFICES ASSUME LInv, IInv', SolPrepare \/ SolSubmit PROVE LInv'
  OBVIOUS
<1>1. pc \in {"sprepare", "ssubmit"} /\ pc \in ExecPcs /\ pc \notin EvmPcs
  BY DEF SolPrepare, SolSubmit, ExecPcs, EvmPcs, SolPcs
<1>2. Follows(srv') /\ LandedKept /\ UNCHANGED srv
  <2>1. CASE SolPrepare
    BY <2>1, QuietFollows DEF SolPrepare, Quiet
  <2>2. CASE SolSubmit
    BY <2>2, SameFollows, BroadcastLands, ChainSame DEF SolSubmit, Send, OnlyNet, LInv, IInv
  <2> QED BY <2>1, <2>2
<1>3. CASE Stop(disk)
  BY <1>2, <1>3, StopStep
<1>4. CASE ~Stop(disk)
  <2>1. loc \in Local /\ mem.act \in [Actions -> ActionRec] /\ Cur = mem.act[loc.a]
    BY <1>1, Typed
  <2>2. /\ mem' = mem /\ (disk' = disk \/ disk' = mem) /\ pc' \in {"ssubmit", "srecord"}
        /\ loc'.a = loc.a /\ loc'.step = loc.step
    BY <1>4, <2>1 DEF SolPrepare, SolSubmit, Keep, Write, Goto, Local
  <2> PICK x : x = Cur
    OBVIOUS
  <2>3. /\ Recorded(loc.a, x) /\ x.step \in Int /\ x.status \notin {"confirmed", "observed"}
        /\ x.status # "absent"
    BY <1>1, Typed, Executed DEF Executing
  <2>4. mem'.act = [mem.act EXCEPT ![loc.a] = x]
    BY <2>1, <2>2
  <2> QED BY <1>1, <1>2, <2>1, <2>2, <2>3, <2>4, ExecStep DEF ExecPcs, EvmPcs, SolPcs, RowPcs
<1> QED BY <1>3, <1>4

LEMMA SolRecordLands == LInv /\ IInv' /\ SolRecord => LInv'
<1> SUFFICES ASSUME LInv, IInv', SolRecord PROVE LInv'
  OBVIOUS
<1>1. pc = "srecord" /\ pc \in ExecPcs /\ pc \notin EvmPcs /\ Quiet
  BY DEF SolRecord, ExecPcs, EvmPcs, SolPcs
<1>2. LandedKept /\ UNCHANGED srv
  BY <1>1, QuietFollows DEF Quiet
<1>3. Cur.status # "absent"
  BY <1>1, Executed DEF Executing
<1>4. /\ mem \in State /\ mem.act \in [Actions -> ActionRec] /\ loc.a \in Actions
      /\ Cur = mem.act[loc.a] /\ Cur \in ActionRec /\ 0 \in Idx
  BY <1>1, Typed, Sizes, ShapeAssumption DEF Sound, Idx
<1> PICK x : x = [Cur EXCEPT !.item = [@ EXCEPT ![0] = "sent"], !.status = "submitted"]
  OBVIOUS
<1>5. /\ mem' = [mem EXCEPT !.act[loc.a].item[0] = "sent", !.act[loc.a].status = "submitted",
                            !.soltxs = @ + 1]
      /\ disk' = mem' /\ pc' = "sconfirm" /\ loc' = loc
  BY DEF SolRecord, Write, Goto
<1>6. mem'.act = [mem.act EXCEPT ![loc.a] = x]
  <2>1. mem'.act[loc.a] = x
    BY <1>4, <1>5 DEF State, ActionRec
  <2>2. \A a \in Actions : a # loc.a => mem'.act[a] = mem.act[a]
    BY <1>4, <1>5 DEF State
  <2>3. mem'.act = [a \in Actions |-> mem'.act[a]]
    BY <1>4, <1>5 DEF State
  <2> QED BY <1>4, <2>1, <2>2, <2>3
<1>7. /\ x.status = "submitted" /\ x.step = Cur.step /\ x.attempt = Cur.attempt
      /\ x.reserve = Cur.reserve /\ x.item[0] = "sent"
      /\ \A i \in Idx : i # 0 => x.item[i] = Cur.item[i]
  BY <1>4 DEF ActionRec
<1>8. Recorded(loc.a, x) /\ x.step \in Int
  BY <1>1, <1>3, <1>7, Typed, Executed DEF Recorded
<1> QED BY <1>1, <1>2, <1>5, <1>6, <1>7, <1>8, ExecStep DEF ExecPcs, EvmPcs, SolPcs, RowPcs

LEMMA SolConfirmLands == LInv /\ IInv' /\ SolConfirm => LInv'
<1> SUFFICES ASSUME LInv, IInv', SolConfirm PROVE LInv'
  OBVIOUS
<1>1. pc = "sconfirm" /\ pc \in ExecPcs /\ pc \notin EvmPcs /\ Quiet
  BY DEF SolConfirm, ExecPcs, EvmPcs, SolPcs
<1>2. Follows(srv') /\ LandedKept /\ UNCHANGED srv
  BY <1>1, QuietFollows DEF Quiet
<1>3. Cur.status # "absent"
  BY <1>1, Executed DEF Executing
<1>4. /\ mem \in State /\ mem.act \in [Actions -> ActionRec] /\ loc.a \in Actions
      /\ Cur = mem.act[loc.a] /\ Cur \in ActionRec /\ 0 \in Idx
  BY <1>1, Typed, Sizes, ShapeAssumption DEF Sound, Idx
<1>5. CASE Stop(disk)
  BY <1>2, <1>5, StopStep
<1>6. ASSUME NEW k \in Receipts(0), NEW fee, Goto("sdone"),
             Write([mem EXCEPT !.act[loc.a].item[0] = "done", !.sol = @ + fee])
      PROVE  LInv'
  <2> PICK x : x = [Cur EXCEPT !.item = [@ EXCEPT ![0] = "done"]]
    OBVIOUS
  <2>1. /\ mem' = [mem EXCEPT !.act[loc.a].item[0] = "done", !.sol = @ + fee]
        /\ disk' = mem' /\ pc' = "sdone" /\ loc' = loc
    BY <1>6 DEF Write, Goto
  <2>2. mem'.act = [mem.act EXCEPT ![loc.a] = x]
    <3>1. mem'.act[loc.a] = x
      BY <1>4, <2>1 DEF State, ActionRec
    <3>2. \A a \in Actions : a # loc.a => mem'.act[a] = mem.act[a]
      BY <1>4, <2>1 DEF State
    <3>3. mem'.act = [a \in Actions |-> mem'.act[a]]
      BY <1>4, <2>1 DEF State
    <3> QED BY <1>4, <3>1, <3>2, <3>3
  <2>3. /\ x.status = Cur.status /\ x.step = Cur.step /\ x.attempt = Cur.attempt
        /\ x.reserve = Cur.reserve /\ x.item[0] = "done"
        /\ \A i \in Idx : i # 0 => x.item[i] = Cur.item[i]
    BY <1>4 DEF ActionRec
  <2>4. Landed(loc.a, Cur.attempt, 0)
    BY <1>6, ReceiptLands
  <2>5. Recorded(loc.a, x) /\ x.step \in Int
    BY <1>1, <1>3, <2>3, <2>4, Typed, Executed DEF Recorded
  <2>6. x.status \notin {"confirmed", "observed"} /\ x.status # "absent"
    BY <1>1, <1>3, <2>3, Executed
  <2> QED BY <1>1, <1>2, <2>1, <2>2, <2>3, <2>5, <2>6, ExecStep
          DEF ExecPcs, EvmPcs, SolPcs, RowPcs
<1> QED BY <1>5, <1>6 DEF SolConfirm

\* A Solana step has one transaction, so its action is confirmed with it.
LEMMA SolDoneLands == LInv /\ IInv' /\ SolDone => LInv'
<1> SUFFICES ASSUME LInv, IInv', SolDone PROVE LInv'
  OBVIOUS
<1>1. pc = "sdone" /\ pc \in ExecPcs /\ pc \notin EvmPcs /\ Quiet
  BY DEF SolDone, ExecPcs, EvmPcs, SolPcs
<1>2. Follows(srv') /\ LandedKept /\ UNCHANGED srv
  BY <1>1, QuietFollows DEF Quiet
<1>3. /\ Cur.status # "absent" /\ Cur.item[0] = "done" /\ Cur.step = loc.step
      /\ Family[loc.step] = "solana"
  BY <1>1, Executed DEF Executing
<1>4. /\ mem \in State /\ mem.act \in [Actions -> ActionRec] /\ loc.a \in Actions
      /\ Cur = mem.act[loc.a] /\ Cur \in ActionRec /\ loc.step \in Steps
  BY <1>1, Typed DEF Sound
<1> PICK x : x = [Cur EXCEPT !.status = "confirmed"]
  OBVIOUS
<1>5. /\ mem' = [mem EXCEPT !.act[loc.a].status = "confirmed"] /\ disk' = mem' /\ pc' = "key"
      /\ loc' = [NoLocals EXCEPT !.op = "source", !.a = loc.a, !.step = loc.step]
  BY DEF SolDone, Write
<1>6. mem'.act = [mem.act EXCEPT ![loc.a] = x]
  BY <1>4, <1>5, StatusOnly
<1>7. /\ x.status = "confirmed" /\ x.step = Cur.step /\ x.item = Cur.item
      /\ x.attempt = Cur.attempt /\ x.reserve = Cur.reserve
  BY <1>4 DEF ActionRec
<1>8. Rows[loc.step] = 1
  BY <1>3, <1>4, ShapeAssumption
<1>9. Recorded(loc.a, x) /\ x.step \in Int
  <2>1. \A i \in 0 .. Rows[x.step] - 1 : x.item[i] = "done"
    BY <1>3, <1>7, <1>8
  <2> QED BY <1>1, <1>3, <1>7, <2>1, Typed, Executed DEF Recorded
<1> PICK b : b = loc.a
  OBVIOUS
<1>10. Recorded(b, x)'
  <2>1. WorldOK /\ WorldOK' /\ Recorded(b, x) /\ b \in Actions
    BY <1>4, <1>9 DEF LInv, IInv
  <2> QED BY <1>2, <1>9, <2>1, RecordedKept
<1>11. RecordsOK'
  BY <1>2, <1>4, <1>5, <1>6, <1>10, RecordsUpdated
<1>12. mem'.act[loc.a] = x
  BY <1>4, <1>6
<1> QED BY <1>1, <1>2, <1>3, <1>5, <1>7, <1>11, <1>12, ToSource

\* Every step of executeSolana.
LEMMA SolLands ==
  LInv /\ IInv' /\ (SolBegin \/ SolPrepare \/ SolSubmit \/ SolRecord \/ SolConfirm \/ SolDone)
    => LInv'
BY SolBeginLands, SolSubmitLands, SolRecordLands, SolConfirmLands, SolDoneLands

(*------------------------------ the main loop ------------------------------*)
\* Where nothing of the step is pending and the session waits, nothing was confirmed.
LEMMA NoneTold ==
  ASSUME LInv, NonePending, srv.phase \notin Shown, mem = disk
  PROVE  Untold(mem.act, srv.step) /\ Untold(disk.act, srv.step)
<1>1. RecordsOK /\ WorldOK /\ Sound(mem)
  BY DEF LInv, IInv
<1> SUFFICES ASSUME NEW a \in Actions, mem.act[a].status \in {"confirmed", "observed"},
                    mem.act[a].step = srv.step
             PROVE  FALSE
  BY DEF Untold
<1> PICK y : y = mem.act[a]
  OBVIOUS
<1>2. /\ Recorded(a, y) /\ y.step \in Steps /\ y.step \in Int /\ srv.step \in Int
      /\ y.step = srv.step /\ y.status \in {"confirmed", "observed"}
  BY <1>1, RecordTyped, SessionTyped DEF RecordsOK
<1>3. CASE y.status = "observed"
  BY <1>2, <1>3 DEF Recorded, Past
<1>4. CASE y.status = "confirmed"
  <2>1. Rows[y.step] \in Nat \ {0} /\ 0 \in Idx
    BY <1>2, Sizes, ShapeAssumption DEF Idx
  <2>2. y.item[0] = "done"
    BY <1>2, <1>4, <2>1 DEF Recorded
  <2>3. 0 \in Sent(y)
    BY <2>1, <2>2 DEF Sent
  <2>4. Pending(y, srv.step)
    BY <1>2, <1>4, <2>3 DEF Pending
  <2> QED BY <2>4 DEF NonePending
<1> QED BY <1>2, <1>3, <1>4

\* An action of the session is taken up for execution.
LEMMA TakenUp ==
  ASSUME LInv, IInv', Follows(srv'), LandedKept, Keep, mem = disk,
         NonePending, srv.phase \notin Shown, srv'.step = srv.step,
         srv'.phase = "ready", Execute(srv')
  PROVE  LInv'
<1>1. WorldOK /\ WorldOK' /\ mem' = mem /\ disk' = disk
  BY DEF LInv, IInv, Keep
<1>2. RecordsOK'
  BY <1>1, RecordsKept
<1>3. srv'.step \in Steps
  BY <1>1, SessionTyped
<1>4. loc'.a = srv'.a /\ loc'.step = srv'.step /\ loc'.idx = 0
  BY DEF Execute, NoLocals
<1>5. /\ pc' \in {"evm", "sol"}
      /\ Family[srv'.step] = IF pc' \in EvmPcs THEN "evm" ELSE "solana"
  <2>1. Family[srv'.step] \in {"evm", "solana"}
    BY <1>3, ShapeAssumption
  <2> QED BY <2>1 DEF Execute, EvmPcs
<1>6. Untold(mem'.act, loc'.step) /\ Untold(disk'.act, loc'.step)
  BY <1>1, <1>4, NoneTold
<1>7. Executing'
  BY <1>4, <1>5, <1>6 DEF Executing, RowPcs
<1> QED BY <1>2, <1>5, <1>7, SessionBehind
        DEF LInv, SyncPcs, CallPcs

LEMMA ReadyLands == LInv /\ IInv' /\ GetReady => LInv'
<1> SUFFICES ASSUME LInv, IInv', GetReady PROVE LInv'
  OBVIOUS
<1>1. /\ pc = "top" /\ Quiet /\ NonePending /\ srv.phase = "ready" /\ Keep /\ Execute(srv)
  BY DEF GetReady, Looking
<1>2. Follows(srv') /\ LandedKept /\ srv' = srv /\ mem = disk
  BY <1>1, QuietFollows DEF Quiet, LInv, SyncPcs
<1>3. srv'.phase = "ready" /\ srv'.step = srv.step /\ Execute(srv') /\ srv.phase \notin Shown
  BY <1>1, <1>2 DEF Shown
<1> QED BY <1>1, <1>2, <1>3, TakenUp

LEMMA KeyLands == LInv /\ IInv' /\ (GetPending \/ GetInFlight \/ GetExpired) => LInv'
<1> SUFFICES ASSUME LInv, IInv', GetPending \/ GetInFlight \/ GetExpired PROVE LInv'
  OBVIOUS
<1>1. pc = "top" /\ Quiet
  BY DEF GetPending, GetInFlight, GetExpired, Looking
<1>2. Follows(srv') /\ LandedKept /\ srv' = srv /\ mem = disk /\ srv.a <= srv.last
  BY <1>1, QuietFollows DEF Quiet, LInv, SyncPcs
<1> PICK op, a : ToKey(op, a) /\ \/ op = "source" /\ Pending(mem.act[a], srv.step)
                                 \/ op = "output"
                                 \/ op = "refresh" /\ NonePending
  BY DEF GetPending, GetInFlight, GetExpired
<1>3. /\ pc' = "key" /\ mem' = mem /\ disk' = disk /\ loc'.op = op /\ loc'.a = a
      /\ loc'.step = srv.step
  BY DEF ToKey, Keep, NoLocals
<1>4. RecordsOK'
  BY <1>2, <1>3, RecordsKept
<1>5. Calling'
  <2>1. op = "source" => mem.act[a].status # "absent" /\ mem.act[a].step = srv.step
    BY DEF Pending
  <2>2. op = "refresh" => NonePending'
    BY <1>2, <1>3 DEF NonePending
  <2> QED BY <1>2, <1>3, <2>1, <2>2 DEF Calling, Cur
<1> QED BY <1>2, <1>3, <1>4, <1>5, CallStep DEF CallPcs

LEMMA LoopLands ==
  LInv /\ IInv' /\ (GiveUp \/ Asleep \/ GetComplete \/ GetUnsupported \/ GetShort) => LInv'
<1> SUFFICES ASSUME LInv, IInv', GiveUp \/ Asleep \/ GetComplete \/ GetUnsupported \/ GetShort
             PROVE  LInv'
  OBVIOUS
<1>1. pc \in {"top", "sleep"} /\ Quiet
  BY DEF GiveUp, Asleep, GetComplete, GetUnsupported, GetShort, Looking
<1>2. Follows(srv') /\ LandedKept /\ mem = disk
  BY <1>1, QuietFollows DEF LInv, SyncPcs
<1>3. CASE Keep /\ pc' \in {"top", "sleep"}
  BY <1>2, <1>3, LoopStep
<1>4. ASSUME NEW d, Stop(d), d.act = mem.act PROVE LInv'
  BY <1>2, <1>4, StopStep
<1>5. Stop(disk) => LInv'
  BY <1>2, <1>4
<1>6. CASE GetComplete
  <2> PICK d : d = IF srv.enough THEN [mem EXCEPT !.status = "complete"] ELSE disk
    OBVIOUS
  <2>1. Stop(d)
    BY <1>6 DEF GetComplete
  <2>2. d.act = mem.act
    <3>1. mem \in State
      BY DEF LInv, IInv, Sound
    <3> QED BY <1>2, <3>1 DEF State
  <2> QED BY <1>4, <2>1, <2>2
<1> QED BY <1>3, <1>5, <1>6 DEF GiveUp, Asleep, GetUnsupported, GetShort, Again, SleepUntil

LEMMA StartLands == LInv /\ IInv' /\ (Start \/ Restarted) => LInv'
<1> SUFFICES ASSUME LInv, IInv', Start \/ Restarted PROVE LInv'
  OBVIOUS
<1>1. WorldOK /\ srv.a <= srv.last /\ disk \in State
  BY DEF LInv, IInv, Sound
<1>2. Follows(srv') /\ LandedKept
  BY <1>1, SameFollows, ChainSame DEF Start, Restarted, Quiet, world
<1>3. CASE Start
  <2>1. LoadState(disk).act = disk.act
    BY <1>1 DEF LoadState, State
  <2>2. mem'.act = disk.act /\ disk'.act = disk.act /\ mem' = disk' /\ pc' = "restart"
    BY <1>3, <2>1 DEF Start, Write, Goto
  <2>3. RecordsOK'
    BY <1>2, <2>2, RecordsKept
  <2> QED BY <1>2, <2>2, <2>3, OutStep, SessionBehind DEF ExecPcs, EvmPcs, SolPcs, CallPcs
<1>4. CASE Restarted
  <2>1. Stop(mem) => LInv'
    BY <1>2, StopStep
  <2>2. CASE Write(mem) /\ Again
    <3>1. mem' = mem /\ disk' = mem /\ pc' = "top"
      BY <2>2 DEF Write, Again
    <3>2. RecordsOK'
      BY <1>2, <3>1, RecordsKept
    <3> QED BY <1>2, <3>1, <3>2, OutStep, SessionBehind DEF ExecPcs, EvmPcs, SolPcs, CallPcs
  <2> QED BY <1>4, <2>1, <2>2 DEF Restarted
<1> QED BY <1>3, <1>4

(*-------------------- idempotency keys and session calls --------------------*)
\* A step on the way to a call of the session that changes no record.
LEMMA CallOn ==
  ASSUME LInv, IInv', Quiet, pc \in {"key", "store"}, pc' \in CallPcs,
         mem' = disk', mem'.act = mem.act,
         loc'.op = loc.op, loc'.a = loc.a, loc'.step = loc.step,
         pc' \in {"source", "output", "refresh"} => loc.op = pc'
  PROVE  LInv'
<1>1. Follows(srv') /\ LandedKept /\ Calling /\ srv' = srv
  BY QuietFollows DEF LInv, CallPcs, Quiet
<1>2. RecordsOK'
  BY <1>1, RecordsKept
<1>3. NonePending => NonePending'
  BY <1>1 DEF NonePending
<1>4. Calling'
  BY <1>1, <1>3 DEF Calling, Cur
<1> QED BY <1>1, <1>2, <1>4, CallStep, SessionBehind

LEMMA OperationLands == LInv /\ IInv' /\ (NextOperation \/ StoreKey) => LInv'
<1> SUFFICES ASSUME LInv, IInv', NextOperation \/ StoreKey PROVE LInv'
  OBVIOUS
<1>1. /\ pc \in {"key", "store"} /\ Quiet /\ mem = disk /\ mem \in State /\ loc \in Local
      /\ Calling
  BY DEF NextOperation, StoreKey, LInv, SyncPcs, CallPcs, IInv, Sound, Fits
<1>2. Follows(srv') /\ LandedKept
  BY <1>1, QuietFollows
<1>3. CASE Stop(disk)
  BY <1>2, <1>3, StopStep
<1>4. CASE NextOperation /\ ~Stop(disk)
  <2>1. pc' \in {"store", "refresh"} /\ (pc' = "refresh" => loc.op = "refresh")
        /\ loc'.op = loc.op /\ loc'.a = loc.a /\ loc'.step = loc.step
    BY <1>1, <1>4 DEF NextOperation, Local
  <2>2. mem' = disk' /\ mem'.act = mem.act
    BY <1>1, <1>4 DEF NextOperation, Keep, Write, CountUp, State
  <2> QED BY <1>1, <2>1, <2>2, CallOn DEF CallPcs
<1>5. CASE StoreKey
  <2>1. pc' = loc.op /\ loc' = loc /\ loc.op \in {"source", "output", "refresh"}
    BY <1>1, <1>5 DEF StoreKey, Goto, Local
  <2>2. mem' = disk' /\ mem'.act = mem.act
    BY <1>1, <1>5 DEF StoreKey, Write, State
  <2> QED BY <1>1, <2>1, <2>2, CallOn DEF CallPcs
<1> QED BY <1>3, <1>4, <1>5

\* A session that logged a call, or answered it with its next step, follows.
LEMMA StepTyped ==
  ASSUME WorldOK, srv.a <= srv.last, NEW a, NEW n, NEW r, r = Delivered(a, n)
  PROVE  /\ r.phase = srv.phase /\ r.step = srv.step /\ r.a = srv.a /\ r.last = srv.last
         /\ srv \in Session /\ srv.step \in Int /\ srv.last \in Nat /\ r.exp = srv.exp
         /\ r \in [phase : {"build", "ready", "flight", "halted", "complete"}, step : Steps,
                   a : Actions \union {NoAct}, exp : Nat, last : Actions \union {NoAct},
                   obs : Actions \union {NoAct}, enough : BOOLEAN, log : {r.log}]
BY SessionTyped DEF Delivered, Session

LEMMA DeliveredFollows ==
  ASSUME WorldOK, srv.a <= srv.last, NEW a, NEW n
  PROVE  Follows(Delivered(a, n))
<1> PICK r : r = Delivered(a, n)
  OBVIOUS
<1>1. Follows(r)
  BY StepTyped DEF Follows
<1> QED BY <1>1

LEMMA FlightFollows ==
  ASSUME WorldOK, srv.a <= srv.last, NEW a, NEW n, NEW b
  PROVE  Follows([Delivered(a, n) EXCEPT !.phase = "flight", !.obs = b])
<1> PICK r, q : r = Delivered(a, n) /\ q = [r EXCEPT !.phase = "flight", !.obs = b]
  OBVIOUS
<1>1. q.phase = "flight" /\ q.step = r.step /\ q.a = r.a /\ q.last = r.last
  BY StepTyped
<1>2. Follows(q)
  BY <1>1, StepTyped DEF Follows, Shown
<1> QED BY <1>2

\* The next step is over the one before; it is another, or the last one is complete.
LEMMA NextFollows ==
  ASSUME WorldOK, srv.a <= srv.last, NEW a, NEW n, NEW q \in NextStep(Delivered(a, n))
  PROVE  Follows(q) /\ (srv.step < q.step \/ (q.step = srv.step /\ q.phase = "complete"))
<1> PICK r : r = Delivered(a, n)
  OBVIOUS
<1>1. q \in NextStep(r)
  OBVIOUS
<1>2. CASE r.step = NSteps - 1
  <2>1. PICK e \in BOOLEAN : q = [r EXCEPT !.phase = "complete", !.a = NoAct, !.enough = e]
    BY <1>1, <1>2 DEF NextStep
  <2>2. q.phase = "complete" /\ q.step = r.step /\ q.a = 0 /\ q.last = r.last
    BY <2>1, StepTyped DEF NoAct
  <2> QED BY <2>2, StepTyped, Sizes DEF Follows, Shown, Actions
<1>3. CASE r.step # NSteps - 1
  <2> PICK m : m = [r EXCEPT !.step = @ + 1, !.obs = NoAct]
    OBVIOUS
  <2>1. m.step = r.step + 1 /\ m.last = r.last
    BY StepTyped
  <2>2. \/ q = [m EXCEPT !.phase = "build", !.a = NoAct]
        \/ q = [m EXCEPT !.phase = "ready", !.a = r.last + 1, !.last = r.last + 1,
                         !.exp = now + Ttl]
    BY <1>1, <1>3 DEF NextStep
  <2>3. q.step = srv.step + 1 /\ \/ q.a = 0 /\ q.last = srv.last
                                 \/ q.a = srv.last + 1 /\ q.last = srv.last + 1
    <3>1. r \in [phase : {"build", "ready", "flight", "halted", "complete"}, step : Steps,
                a : Actions \union {NoAct}, exp : Nat, last : Actions \union {NoAct},
                obs : Actions \union {NoAct}, enough : BOOLEAN, log : {r.log}]
      BY StepTyped
    <3>2. m = [phase |-> r.phase, step |-> r.step + 1, a |-> r.a, exp |-> r.exp,
               last |-> r.last, obs |-> NoAct, enough |-> r.enough, log |-> r.log]
      BY <3>1
    <3>3. r.step = srv.step /\ r.last = srv.last
      BY StepTyped
    <3>4. m.step = srv.step + 1 /\ m.last = srv.last
      BY <3>2, <3>3
    <3>5. ASSUME q = [m EXCEPT !.phase = "build", !.a = NoAct]
          PROVE  q.step = m.step /\ q.a = 0 /\ q.last = m.last
      BY <3>2, <3>5 DEF NoAct
    <3>6. ASSUME q = [m EXCEPT !.phase = "ready", !.a = r.last + 1, !.last = r.last + 1,
                               !.exp = now + Ttl]
          PROVE  q.step = m.step /\ q.a = r.last + 1 /\ q.last = r.last + 1
      BY <3>2, <3>6
    <3> QED BY <2>2, <3>3, <3>4, <3>5, <3>6
  <2> QED BY <2>3, StepTyped, Sizes DEF Follows, Actions
<1> QED BY <1>2, <1>3

\* A refreshed action is of the same step: the same one, or the next to be built.
LEMMA RefreshedFollows ==
  ASSUME WorldOK, srv.a <= srv.last, Refreshable,
         NEW a, NEW n, NEW q \in Refreshed(Delivered(a, n))
  PROVE  Follows(q) /\ q.phase = "ready" /\ q.step = srv.step
<1> PICK r : r = Delivered(a, n)
  OBVIOUS
<1>1. PICK b : /\ q = [r EXCEPT !.phase = "ready", !.a = b, !.last = IF b > @ THEN b ELSE @,
                                !.exp = now + Ttl]
               /\ (r.phase = "ready" /\ b = r.a) \/ b = r.last + 1
  BY DEF Refreshed
<1> PICK last : last = IF b > r.last THEN b ELSE r.last
  OBVIOUS
<1>2. r \in [phase : {"build", "ready", "flight", "halted", "complete"}, step : Steps,
             a : Actions \union {NoAct}, exp : Nat, last : Actions \union {NoAct},
             obs : Actions \union {NoAct}, enough : BOOLEAN, log : {r.log}]
  BY StepTyped
<1>3. q = [r EXCEPT !.phase = "ready", !.a = b, !.last = last, !.exp = now + Ttl]
  BY <1>1, <1>2
<1>4. q.phase = "ready" /\ q.step = r.step /\ q.a = b /\ q.last = last
  BY <1>2, <1>3
<1>5. /\ r.phase = srv.phase /\ r.step = srv.step /\ r.a = srv.a /\ r.last = srv.last
      /\ srv.step \in Int /\ srv.last \in Nat /\ srv.a \in Nat
  BY StepTyped, SessionTyped
<1>6. /\ last \in Int /\ srv.last <= last /\ b <= last
      /\ b <= srv.last => b = srv.a
  BY <1>1, <1>5
<1>7. srv.phase \notin Shown
  BY DEF Refreshable, Shown
<1>8. srv.step <= q.step /\ srv.last <= q.last /\ q.a <= q.last
  BY <1>4, <1>5, <1>6
<1>9. q.a \in Actions /\ q.a <= srv.last => q.a = srv.a /\ q.step = srv.step
  BY <1>4, <1>5, <1>6
<1> QED BY <1>4, <1>5, <1>7, <1>8, <1>9 DEF Follows

\* What the session did when a call of the runner reached it, or not.
LEMMA SourceFollows ==
  ASSUME WorldOK, srv.a <= srv.last, NEW q \in SourceEffect \union {srv}
  PROVE  Follows(q)
<1> PICK n : n = Cardinality(Sent(Cur))
  OBVIOUS
<1> PICK r : r = Delivered(loc.a, n)
  OBVIOUS
<1>1. \/ q = srv \/ q = r
      \/ q = [Delivered(loc.a, n) EXCEPT !.phase = "flight", !.obs = loc.a]
      \/ q \in NextStep(Delivered(loc.a, n))
  BY DEF SourceEffect
<1>2. Follows(srv)
  BY SessionTyped DEF Follows
<1>3. Follows(r)
  BY DeliveredFollows
<1>4. \A p \in NextStep(Delivered(loc.a, n)) : Follows(p)
  BY NextFollows
<1>5. Follows([Delivered(loc.a, n) EXCEPT !.phase = "flight", !.obs = loc.a])
  BY FlightFollows
<1> QED BY <1>1, <1>2, <1>3, <1>4, <1>5

LEMMA OutputFollows ==
  ASSUME WorldOK, srv.a <= srv.last, NEW q \in OutputEffect \union {srv}
  PROVE  Follows(q)
<1> PICK r : r = Delivered(NoAct, 0)
  OBVIOUS
<1>1. q = srv \/ q = r \/ q \in NextStep(Delivered(NoAct, 0))
  BY DEF OutputEffect
<1>2. Follows(srv)
  BY SessionTyped DEF Follows
<1>3. Follows(r)
  BY DeliveredFollows
<1> QED BY <1>1, <1>2, <1>3, NextFollows

\* An accepted observation moves the session behind the step of the action.
LEMMA AcceptedIsPast ==
  ASSUME WorldOK, srv.a <= srv.last, NEW step, step = srv.step,
         SourceFresh(loc.a, Cur.attempt, Cardinality(Sent(Cur))) \/ SourceReplay(loc.a),
         NEW q \in SourceEffect
  PROVE  step < q.step \/ (step = q.step /\ q.phase \in Shown)
<1> PICK n : n = Cardinality(Sent(Cur))
  OBVIOUS
<1> PICK r : r = Delivered(loc.a, n)
  OBVIOUS
<1>1. \/ q = r /\ SourceReplay(loc.a)
      \/ q = [r EXCEPT !.phase = "flight", !.obs = loc.a]
      \/ q \in NextStep(Delivered(loc.a, n))
  BY DEF SourceEffect
<1>2. CASE q = r /\ SourceReplay(loc.a)
  BY <1>2, StepTyped DEF SourceReplay, Shown
<1>3. CASE q = [r EXCEPT !.phase = "flight", !.obs = loc.a]
  BY <1>3, StepTyped DEF Shown
<1>4. CASE q \in NextStep(Delivered(loc.a, n))
  BY <1>4, NextFollows DEF Shown
<1> QED BY <1>1, <1>2, <1>3, <1>4

LEMMA ObserveSourceLands == LInv /\ IInv' /\ ObserveSource => LInv'
<1> SUFFICES ASSUME LInv, IInv', ObserveSource PROVE LInv'
  OBVIOUS
<1>1. /\ pc = "source" /\ OnlySrv /\ mem = disk /\ Calling /\ WorldOK /\ WorldOK'
      /\ srv.a <= srv.last
  BY DEF ObserveSource, LInv, IInv, SyncPcs, CallPcs
<1>2. Follows(srv')
  BY <1>1, SourceFollows DEF ObserveSource
<1>3. LandedKept
  BY <1>1, ChainSame DEF OnlySrv
<1>4. CASE Stop(disk)
  BY <1>2, <1>3, <1>4, StopStep
<1>5. CASE Keep /\ SleepUntil(now + 1)
  BY <1>1, <1>2, <1>3, <1>5, LoopStep DEF SleepUntil
<1>6. CASE /\ SourceFresh(loc.a, Cur.attempt, Cardinality(Sent(Cur))) \/ SourceReplay(loc.a)
           /\ srv' \in SourceEffect
           /\ Write([mem EXCEPT !.act[loc.a].status = "observed"]) /\ Again
  <2>1. /\ loc.op = "source" /\ Cur.status # "absent" /\ Cur.step = loc.step
        /\ loc.step = srv.step
    BY <1>1 DEF Calling
  <2>2. /\ mem \in State /\ mem.act \in [Actions -> ActionRec] /\ loc.a \in Actions
        /\ Cur = mem.act[loc.a] /\ Cur \in ActionRec /\ Recorded(loc.a, Cur) /\ Cur.step \in Int
    BY <1>1, <2>1, Typed DEF Sound
  <2> PICK b, y, x : b = loc.a /\ y = Cur /\ x = [y EXCEPT !.status = "observed"]
    OBVIOUS
  <2>3. mem' = [mem EXCEPT !.act[b].status = "observed"] /\ disk' = mem' /\ pc' = "top"
    BY <1>6 DEF Write, Again
  <2>4. mem'.act = [mem.act EXCEPT ![b] = x]
    BY <2>2, <2>3, StatusOnly
  <2>5. /\ x.status = "observed" /\ x.step = y.step /\ x.item = y.item
        /\ x.attempt = y.attempt /\ x.reserve = y.reserve
    BY <2>2 DEF ActionRec
  <2>6. Recorded(b, y)'
    BY <1>1, <1>2, <1>3, <2>2, RecordedKept
  <2> PICK step : step = y.step
    OBVIOUS
  <2>7. step < srv'.step \/ (step = srv'.step /\ srv'.phase \in Shown)
    BY <1>1, <1>6, <2>1, AcceptedIsPast
  <2>8. Past(step)'
    BY <2>7 DEF Past
  <2>9. Recorded(b, x)'
    BY <2>1, <2>5, <2>6, <2>8 DEF Recorded
  <2>10. RecordsOK'
    BY <1>2, <1>3, <2>2, <2>3, <2>4, <2>9, RecordsUpdated
  <2> QED BY <1>2, <2>3, <2>10, OutStep, SessionBehind DEF ExecPcs, EvmPcs, SolPcs, CallPcs
<1> QED BY <1>4, <1>5, <1>6 DEF ObserveSource

LEMMA ObserveOutputLands == LInv /\ IInv' /\ ObserveOutput => LInv'
<1> SUFFICES ASSUME LInv, IInv', ObserveOutput PROVE LInv'
  OBVIOUS
<1>1. /\ pc = "output" /\ OnlySrv /\ mem = disk /\ WorldOK /\ srv.a <= srv.last
  BY DEF ObserveOutput, LInv, IInv, SyncPcs
<1>2. Follows(srv')
  BY <1>1, OutputFollows DEF ObserveOutput
<1>3. LandedKept
  BY <1>1, ChainSame DEF OnlySrv
<1>4. CASE Stop(disk)
  BY <1>2, <1>3, <1>4, StopStep
<1>5. CASE Keep /\ pc' \in {"top", "sleep"}
  BY <1>1, <1>2, <1>3, <1>5, LoopStep
<1> QED BY <1>4, <1>5 DEF ObserveOutput, Again, SleepUntil

LEMMA RefreshLands == LInv /\ IInv' /\ Refresh => LInv'
<1> SUFFICES ASSUME LInv, IInv', Refresh PROVE LInv'
  OBVIOUS
<1>1. /\ pc = "refresh" /\ OnlySrv /\ mem = disk /\ Calling /\ WorldOK /\ srv.a <= srv.last
  BY DEF Refresh, LInv, IInv, SyncPcs, CallPcs
<1> PICK r : r = Delivered(srv.a, srv.exp)
  OBVIOUS
<1>2. NonePending
  BY <1>1 DEF Calling
<1>3. LandedKept
  BY <1>1, ChainSame DEF OnlySrv
<1>4. Refreshable => \A q \in Refreshed(r) :
                        Follows(q) /\ q.phase = "ready" /\ q.step = srv.step
  BY <1>1, RefreshedFollows
<1>5. Follows(srv) /\ Follows(r)
  <2>1. Follows(srv)
    BY <1>1, SessionTyped DEF Follows
  <2> QED BY <1>1, <2>1, DeliveredFollows
<1>6. CASE /\ Refreshable /\ srv' \in Refreshed(r) /\ Keep /\ Execute(srv')
  <2>1. srv.phase \notin Shown
    BY <1>6 DEF Refreshable, Shown
  <2> QED BY <1>1, <1>2, <1>3, <1>4, <1>6, <2>1, TakenUp
<1>7. CASE Refreshable /\ srv' = [r EXCEPT !.phase = "build", !.a = NoAct] /\ Keep /\ Again
  <2>1. /\ srv'.phase = "build" /\ srv'.step = srv.step /\ srv'.a = 0 /\ srv'.last = srv.last
        /\ srv.last \in Nat /\ srv.step \in Int
    BY <1>1, <1>7, StepTyped DEF NoAct
  <2>2. srv.phase \notin Shown
    BY <1>7 DEF Refreshable, Shown
  <2>3. Follows(srv')
    BY <2>1, <2>2, Sizes DEF Follows, Actions
  <2> QED BY <1>1, <1>3, <1>7, <2>3, LoopStep DEF Again
<1>8. CASE (srv' \in {srv, r} \/ (Refreshable /\ srv' \in Refreshed(r))) /\ Stop(disk)
  <2>1. Follows(srv')
    BY <1>4, <1>5, <1>8
  <2> QED BY <1>3, <1>8, <2>1, StopStep
<1> QED BY <1>6, <1>7, <1>8 DEF Refresh

(*------------------------- the world and the process -------------------------*)
\* A step of the world, which leaves the process where it is.
LEMMA WorldStep ==
  ASSUME LInv, IInv', UNCHANGED process, Follows(srv'), LandedKept,
         srv'.step = srv.step, srv'.a = srv.a, srv.phase = "ready" => srv'.phase = "ready"
  PROVE  LInv'
<1>1. mem' = mem /\ disk' = disk /\ pc' = pc /\ loc' = loc
  BY DEF process
<1>2. RecordsOK'
  BY <1>1, RecordsKept
<1>3. pc \in ExecPcs => Executing'
  BY <1>1 DEF LInv, Executing, Untold, Cur
<1>4. pc \in CallPcs => Calling'
  BY <1>1 DEF LInv, Calling, Cur, NonePending
<1>5. pc \in SyncPcs => mem = disk
  BY DEF LInv
<1> QED BY <1>1, <1>2, <1>3, <1>4, <1>5, SessionBehind DEF LInv

LEMMA MiningLands ==
  ASSUME WorldOK, Mine
  PROVE  LandedKept
<1>1. PICK k \in DOMAIN chain :
        /\ chain[k].st = "pending"
        /\ \E st \in {"ok", "failed"}, fee \in 0 .. chain[k].gas :
             chain' = [chain EXCEPT ![k].st = st, ![k].fee = fee]
  BY DEF Mine
<1>2. PICK st \in {"ok", "failed"}, fee \in 0 .. chain[k].gas :
        chain' = [chain EXCEPT ![k].st = st, ![k].fee = fee]
  BY <1>1
<1> PICK c, d : c = chain /\ d = chain'
  OBVIOUS
<1>3. c \in Seq(Tx)
  BY DEF WorldOK, WorldTypeOK
<1>4. \A j \in DOMAIN c : j # k => j \in DOMAIN d /\ d[j] = c[j]
  BY <1>2, <1>3
<1>5. ASSUME NEW b, NEW u, NEW j, Landed(b, u, j) PROVE Landed(b, u, j)'
  <2>1. PICK m \in DOMAIN c : c[m].a = b /\ c[m].attempt = u /\ c[m].idx = j /\ c[m].st = "ok"
    BY <1>5 DEF Landed, TxOf
  <2>2. m # k
    BY <1>1, <2>1
  <2> QED BY <1>4, <2>1, <2>2 DEF Landed, TxOf
<1> QED BY <1>5 DEF LandedKept

LEMMA EnvironmentLands == LInv /\ IInv' /\ (Crash \/ Time \/ Mining \/ Halting) => LInv'
<1> SUFFICES ASSUME LInv, IInv', Crash \/ Time \/ Mining \/ Halting PROVE LInv'
  OBVIOUS
<1>1. WorldOK /\ srv.a <= srv.last
  BY DEF LInv, IInv
<1>2. CASE Crash
  BY <1>2, QuietFollows, StopStep DEF Crash
<1>3. CASE Time
  BY <1>1, <1>3, SameFollows, ChainSame, WorldStep DEF Time, Tick
<1>4. CASE Mining
  BY <1>1, <1>4, SameFollows, MiningLands, WorldStep DEF Mining, Mine
<1>5. CASE Halting
  <2>1. /\ srv.phase = "flight" /\ srv' = [srv EXCEPT !.phase = "halted"] /\ UNCHANGED chain
        /\ UNCHANGED process
    BY <1>5 DEF Halting, Halt
  <2>2. srv \in Session /\ srv.step \in Int /\ srv.last \in Nat
    BY <1>1, SessionTyped
  <2>3. /\ srv'.phase = "halted" /\ srv'.step = srv.step /\ srv'.a = srv.a
        /\ srv'.last = srv.last
    BY <2>1, <2>2 DEF Session
  <2>4. Follows(srv')
    BY <1>1, <2>2, <2>3 DEF Follows, Shown
  <2> QED BY <2>1, <2>3, <2>4, ChainSame, WorldStep
<1> QED BY <1>2, <1>3, <1>4, <1>5

LEMMA EvmLands ==
  LInv /\ IInv' /\ (\/ EvmReserve \/ EvmRow \/ EvmPrepare \/ EvmSubmit \/ EvmRecord
                    \/ EvmConfirm \/ EvmSettled \/ EvmCatch
                    \/ RevokePrepare \/ RevokeSubmit \/ RevokeConfirm)
    => LInv'
BY EvmReserveLands, EvmRowLands, EvmPrepareLands, EvmSubmitLands, EvmRecordLands,
   EvmConfirmLands, EvmSettledLands, EvmCatchLands, RevokeLands

LEMMA StutterLands ==
  ASSUME LInv, IInv', UNCHANGED vars
  PROVE  LInv'
<1>1. WorldOK /\ srv.a <= srv.last
  BY DEF LInv, IInv
<1>2. UNCHANGED process /\ UNCHANGED srv /\ UNCHANGED chain
  BY DEF vars, process
<1> QED BY <1>1, <1>2, SameFollows, ChainSame, WorldStep

LEMMA NextLands == LInv /\ IInv' /\ [Next]_vars => LInv'
<1> SUFFICES ASSUME LInv, IInv', [Next]_vars PROVE LInv'
  OBVIOUS
<1>1. CASE RunnerStep
  BY <1>1, ReleaseLands, StartLands, LoopLands, KeyLands, ReadyLands, OperationLands,
     ObserveSourceLands, ObserveOutputLands, RefreshLands, EvmLands, SolLands DEF RunnerStep
<1> QED BY <1>1, StartLands, EnvironmentLands, StutterLands DEF Next

LEMMA InitLands == Init => LInv
<1> SUFFICES ASSUME Init PROVE LInv
  OBVIOUS
<1>1. IInv
  BY InitSafe
<1>2. \A a \in Actions : mem.act[a] = NoAction /\ disk.act[a] = NoAction
  BY DEF Init, InitialState
<1>3. 0 \in {0, StepReserve[0]} /\ NoAction.reserve = 0 /\ NoAction.status = "absent"
  BY DEF NoAction
<1>4. \A i \in Idx : NoAction.item[i] = "none"
  BY DEF NoAction, NoRows
<1>5. RecordsOK
  BY <1>2, <1>3, <1>4 DEF RecordsOK, Recorded
<1>6. srv.a = 1 /\ srv.last = 1 /\ pc = "idle"
  BY DEF Init, WorldInit
<1> QED BY <1>1, <1>5, <1>6 DEF LInv, SyncPcs, ExecPcs, EvmPcs, SolPcs, CallPcs

LEMMA LandingInductive == Spec => []LInv
<1>1. LInv /\ [Next]_vars => LInv'
  <2>1. LInv => IInv
    BY DEF LInv
  <2> QED BY <2>1, NextSafe, NextLands
<1> QED BY <1>1, InitLands, PTL DEF Spec

\* Whenever the state file says that an action is confirmed, all its requests landed.
THEOREM ConfirmedHasLanded == Spec => []ConfirmedLanded
<1>1. LInv => ConfirmedLanded
  <2> SUFFICES ASSUME LInv, NEW a \in Actions, disk.act[a].status = "confirmed",
                      NEW i \in 0 .. Rows[disk.act[a].step] - 1
               PROVE  Landed(a, disk.act[a].attempt, i)
    BY DEF ConfirmedLanded
  <2>1. Sound(disk) /\ RecordsOK
    BY DEF LInv, IInv
  <2>2. disk.act[a].step \in Steps /\ Recorded(a, disk.act[a])
    BY <2>1, RecordTyped DEF RecordsOK
  <2>3. i \in Idx
    BY <2>2, RowIsIndex
  <2> QED BY <2>2, <2>3 DEF Recorded
<1> QED BY <1>1, LandingInductive, PTL

(*------------------------------ what is broadcast ------------------------------*)
LEMMA SentIsNew ==
  ASSUME WorldOK, NEW a, NEW t, NEW s, NEW i, NEW g, Broadcast(a, t, s, i, g), NEW k \in New
  PROVE  chain'[k].a = a /\ chain'[k].attempt = t /\ chain'[k].step = s /\ chain'[k].idx = i
<1>1. chain \in Seq(Tx) /\ Len(chain) \in Nat
  BY DEF WorldOK, WorldTypeOK
<1> PICK x : x = [a |-> a, attempt |-> t, step |-> s, idx |-> i, gas |-> g, fee |-> 0,
                  st |-> "pending"]
  OBVIOUS
<1>2. chain' = Append(chain, x)
  <2>1. chain' # chain
    BY <1>1 DEF New
  <2> QED BY <2>1 DEF Broadcast
<1>3. k = Len(chain) + 1
  BY <1>1, <1>2 DEF New
<1>4. chain'[k] = x
  BY <1>1, <1>2, <1>3
<1> QED BY <1>4

\* Only the three submissions make a transaction appear.
LEMMA WhoSends ==
  ASSUME LInv, [Next]_vars, NEW k \in New
  PROVE  EvmSubmit \/ RevokeSubmit \/ SolSubmit
<1>1. WorldOK
  BY DEF LInv, IInv
<1>2. CASE UNCHANGED vars \/ Start \/ Crash \/ Time \/ Mining \/ Halting
  BY <1>1, <1>2, NothingNew, MiningAddsNothing
     DEF vars, Start, world, Crash, Quiet, Time, Tick, Mining, Halting, Halt
<1>3. CASE ObserveSource \/ ObserveOutput \/ Refresh
  BY <1>1, <1>3, NothingNew DEF ObserveSource, ObserveOutput, Refresh, OnlySrv
<1>4. CASE RunnerStep /\ Quiet
  BY <1>1, <1>4, NothingNew DEF Quiet
<1>5. RunnerStep => \/ Quiet \/ EvmSubmit \/ RevokeSubmit \/ SolSubmit
                    \/ ObserveSource \/ ObserveOutput \/ Refresh
  BY DEF RunnerStep, ReleaseOne, Restarted, GiveUp, Asleep, Looking, GetComplete, GetPending,
         GetInFlight, GetUnsupported, GetShort, GetExpired, GetReady, NextOperation, StoreKey,
         EvmReserve, EvmRow, EvmPrepare, EvmRecord, EvmConfirm, EvmSettled, EvmCatch,
         RevokePrepare, RevokeConfirm, SolBegin, SolPrepare, SolRecord, SolConfirm, SolDone
<1> QED BY <1>2, <1>3, <1>4, <1>5 DEF Next

\* What is broadcast is of the action being executed.
LEMMA SentByExecution ==
  ASSUME LInv, [Next]_vars, NEW k \in New
  PROVE  /\ pc \in {"submit", "rsubmit", "ssubmit"}
         /\ chain'[k].a = loc.a /\ chain'[k].attempt = Cur.attempt /\ chain'[k].step = loc.step
         /\ chain'[k].idx = CASE pc = "submit" -> loc.idx [] pc = "rsubmit" -> Revoke [] OTHER -> 0
<1>1. WorldOK
  BY DEF LInv, IInv
<1>2. ~UNCHANGED chain
  BY <1>1, NothingNew
<1>3. CASE EvmSubmit
  <2>1. pc = "submit" /\ Send(loc.idx)
    BY <1>2, <1>3 DEF EvmSubmit
  <2> QED BY <1>1, <2>1, SentIsNew DEF Send
<1>4. CASE RevokeSubmit
  <2>1. pc = "rsubmit" /\ Send(Revoke)
    BY <1>2, <1>4 DEF RevokeSubmit
  <2> QED BY <1>1, <2>1, SentIsNew DEF Send
<1>5. CASE SolSubmit
  <2>1. pc = "ssubmit" /\ Send(0)
    BY <1>2, <1>5 DEF SolSubmit
  <2> QED BY <1>1, <2>1, SentIsNew DEF Send
<1> QED BY <1>3, <1>4, <1>5, WhoSends

\* An EVM request is broadcast only when the file announces the attempt, holds the worst
\* case reserve and records every row before it as confirmed, and those rows landed.
THEOREM BroadcastAnnounced == Spec => BroadcastIsAnnounced
<1>1. ASSUME LInv, [Next]_vars PROVE Announced
  <2> SUFFICES ASSUME NEW k \in New, NEW t, t = chain'[k],
                      t.idx # Revoke, Family[t.step] = "evm"
               PROVE  /\ disk.act[t.a].status = Attempted
                      /\ disk.act[t.a].reserve = StepReserve[t.step]
                      /\ \A i \in 0 .. t.idx - 1 :
                           disk.act[t.a].item[i] = "done" /\ Landed(t.a, t.attempt, i)
    BY DEF Announced
  <2>1. /\ pc \in {"submit", "rsubmit", "ssubmit"}
        /\ t.a = loc.a /\ t.attempt = Cur.attempt /\ t.step = loc.step
        /\ t.idx = CASE pc = "submit" -> loc.idx [] pc = "rsubmit" -> Revoke [] OTHER -> 0
    BY <1>1, SentByExecution
  <2>2. pc \in ExecPcs /\ (pc \in EvmPcs => pc # "ssubmit")
    BY <2>1 DEF ExecPcs, EvmPcs, SolPcs
  <2>3. Executing
    BY <1>1, <2>2 DEF LInv
  <2>4. pc = "submit"
    BY <2>1, <2>2, <2>3 DEF Executing, EvmPcs
  <2>5. /\ mem = disk /\ Cur.status = Attempted /\ Cur.reserve = StepReserve[loc.step]
        /\ \A i \in 0 .. loc.idx - 1 : Cur.item[i] = "done"
    BY <1>1, <2>3, <2>4 DEF LInv, SyncPcs, Executing, RowPcs
  <2>6. Cur = disk.act[loc.a] /\ Recorded(loc.a, Cur) /\ loc.idx \in Idx /\ t.idx = loc.idx
    BY <1>1, <2>1, <2>2, <2>4, <2>5, Typed, Inside DEF RowPcs
  <2>7. \A i \in 0 .. loc.idx - 1 : Landed(loc.a, Cur.attempt, i)
    <3> SUFFICES ASSUME NEW i \in 0 .. loc.idx - 1 PROVE Landed(loc.a, Cur.attempt, i)
      OBVIOUS
    <3>1. i \in Idx
      BY <2>6, Sizes, ShapeAssumption DEF Idx
    <3> QED BY <2>5, <2>6, <3>1 DEF Recorded
  <2> QED BY <2>1, <2>5, <2>6, <2>7
<1>2. LInv /\ [Next]_vars => [Announced]_vars
  BY <1>1
<1> QED BY <1>2, LandingInductive, PTL DEF BroadcastIsAnnounced, Spec

\* Once the file records an action of a step as confirmed or observed, no transaction
\* of that step is broadcast any more, by whatever run.
THEOREM NotResubmitted == Spec => ConfirmedNotResubmitted
<1> DEFINE Apart == \A k \in New : \A a \in Actions :
                      disk.act[a].status \in {"confirmed", "observed"}
                        => disk.act[a].step # chain'[k].step
<1>1. ASSUME LInv, [Next]_vars PROVE Apart
  <2> SUFFICES ASSUME NEW k \in New PROVE Untold(disk.act, chain'[k].step)
    BY DEF Untold
  <2>1. pc \in {"submit", "rsubmit", "ssubmit"} /\ chain'[k].step = loc.step
    BY <1>1, SentByExecution
  <2>2. pc \in ExecPcs /\ pc # "settle"
    BY <2>1 DEF ExecPcs, EvmPcs, SolPcs
  <2>3. Executing
    BY <1>1, <2>2 DEF LInv
  <2> QED BY <2>1, <2>2, <2>3 DEF Executing
<1>2. LInv /\ [Next]_vars => [Apart]_vars
  BY <1>1
<1> QED BY <1>2, LandingInductive, PTL DEF ConfirmedNotResubmitted, Spec

(*---------------------- keys, calls and attempts: the invariant ----------------------*)
\* The call of a source is of these rows of this record.
SentAs(c, act) ==
  /\ act.status \in {"submitted", "confirmed", "observed"} /\ act.step = c.step
  /\ Sent(act) # {} /\ c.n = Cardinality(Sent(act))

\* What the state says of a call in the session's log.
Told(c) ==
  /\ 0 < c.key /\ c.key <= mem.ctr
  /\ c.op = "source" => /\ c.a \in Actions /\ c.key = mem.srcKey[c.a]
                        /\ SentAs(c, mem.act[c.a]) /\ SentAs(c, disk.act[c.a])
  /\ c.op = "output" => c.key = mem.outKey[c.step] /\ c.a = NoAct /\ c.n = 0
LogOK ==
  /\ \A c \in srv.log : Told(c)
  /\ \A c, d \in srv.log : c.op = "refresh" /\ d.op = "refresh" /\ c.key = d.key => c = d

\* Counter and keys are never ahead of the file, and no two actions share a key.
KeysOK ==
  /\ mem.ctr = disk.ctr /\ mem.srcKey = disk.srcKey /\ mem.outKey = disk.outKey
  /\ \A a \in Actions : mem.srcKey[a] <= mem.ctr
  /\ \A s \in Steps : mem.outKey[s] <= mem.ctr
  /\ \A a, b \in Actions : mem.srcKey[a] = mem.srcKey[b] /\ a # b => mem.srcKey[a] = 0

\* The key at hand, and the action whose source is to be observed.
KeyAtHand ==
  /\ pc \in {"store", "source", "output", "refresh"} => 0 < loc.key /\ loc.key <= mem.ctr
  /\ pc = "store" => loc.op # "refresh"
  /\ pc = "store" /\ loc.op = "source" =>
       /\ mem.srcKey[loc.a] \in {0, loc.key}
       /\ \A b \in Actions : b # loc.a => mem.srcKey[b] # loc.key
  /\ pc = "store" /\ loc.op = "output" => mem.outKey[loc.step] \in {0, loc.key}
  /\ pc = "source" => loc.key = mem.srcKey[loc.a]
  /\ pc = "output" => loc.key = mem.outKey[loc.step]
  /\ pc = "refresh" => \A c \in srv.log : c.op = "refresh" => c.key # loc.key
  /\ pc \in {"key", "store", "source"} /\ loc.op = "source" =>
       Cur.status \in {"submitted", "confirmed"} /\ Sent(Cur) # {}
  /\ pc \in ExecPcs => \A c \in srv.log : c.op = "source" => c.a # loc.a

\* The revocation of this attempt landed, and no approval of the action was sent after it.
Cleared(a, t) ==
  \E k \in TxOf(a, t, Revoke) :
    /\ chain[k].st = "ok"
    /\ \A j \in k + 1 .. Len(chain) : ~(chain[j].a = a /\ chain[j].idx = 0)
Reopening(a, act) ==
  act.status = Retryable =>
    /\ Family[act.step] = "evm" /\ Cleared(a, act.attempt - 1)
    /\ \A k \in DOMAIN chain : chain[k].a = a => chain[k].attempt # act.attempt
AttemptsOK ==
  /\ \A a \in Actions : /\ mem.act[a].attempt = disk.act[a].attempt
                        /\ Reopening(a, mem.act[a]) /\ Reopening(a, disk.act[a])
  /\ \A k \in DOMAIN chain : chain[k].attempt <= mem.act[chain[k].a].attempt
\* A revocation follows the approval of its attempt, and no approval of it follows.
RevokesOK ==
  \A k \in DOMAIN chain : chain[k].idx = Revoke =>
    /\ TxOf(chain[k].a, chain[k].attempt, 0) # {}
    /\ \A j \in DOMAIN chain :
         j > k /\ chain[j].a = chain[k].a /\ chain[j].idx = 0
           => chain[j].attempt > chain[k].attempt

KInv == LInv /\ KeysOK /\ LogOK /\ KeyAtHand
RInv == LInv /\ AttemptsOK /\ RevokesOK

(*------------------------------ what a step writes ------------------------------*)
\* x is y for all that calls and attempts depend on.
Alike(x, y) ==
  x.status = y.status /\ x.step = y.step /\ x.attempt = y.attempt /\ x.item = y.item
Close(s, m) == \A a \in Actions : Alike(s.act[a], m.act[a])

\* s has the records of m, but perhaps for the action being worked on; its attempt is the
\* same too, and it is not opened again.
Near(s, m) ==
  \A a \in Actions :
    /\ s.act[a].attempt = m.act[a].attempt
    /\ s.act[a].status = Retryable => m.act[a].status = Retryable /\ s.act[a].step = m.act[a].step
    /\ a # loc.a => Alike(s.act[a], m.act[a])

Nearby(s)  == Near(s, mem) \/ Near(s, disk)
Closeby(s) == Close(s, mem) \/ Close(s, disk)
Quietly    == Nearby(mem') /\ Nearby(disk')
Unmoved    == Closeby(mem') /\ Closeby(disk')
KeysStay   == SameKeys(disk) => SameKeys(mem') /\ SameKeys(disk')

LEMMA UnmovedIsQuiet == Unmoved => Quietly
BY DEF Unmoved, Quietly, Closeby, Nearby, Close, Near, Alike

LEMMA Unwritten ==
  ASSUME mem' \in {mem, disk}, disk' \in {mem, disk}
  PROVE  Unmoved /\ KeysStay
BY DEF Unmoved, Closeby, Close, Alike, KeysStay, SameKeys

\* Memory is written, and perhaps saved.
LEMMA Written ==
  ASSUME Nearby(mem'), SameKeys(mem'), disk' \in {mem', mem, disk}
  PROVE  Quietly /\ KeysStay
<1>1. Nearby(mem) /\ Nearby(disk) /\ SameKeys(mem)
  BY DEF Nearby, Near, Alike, SameKeys
<1> QED BY <1>1 DEF Quietly, KeysStay

LEMMA NearOne ==
  ASSUME Sound(mem), loc.a \in Actions, NEW s, NEW x,
         s.act = [mem.act EXCEPT ![loc.a] = x], x.attempt = Cur.attempt,
         x.status = Retryable => Cur.status = Retryable /\ x.step = Cur.step
  PROVE  Nearby(s)
<1>1. mem.act \in [Actions -> ActionRec] /\ Cur = mem.act[loc.a]
  BY DEF Sound, State, Cur
<1>2. \A a \in Actions : s.act[a] = IF a = loc.a THEN x ELSE mem.act[a]
  BY <1>1
<1> QED BY <1>1, <1>2 DEF Nearby, Near, Alike

StatusRow(s, st) == s = [mem EXCEPT !.act[loc.a].status = st]
ReleasedRow(s) == s = ReleaseUnsubmitted(mem)

LEMMA WorkedOn ==
  ASSUME LInv, pc \in ExecPcs
  PROVE  /\ Sound(mem) /\ loc.a \in Actions /\ Cur \in ActionRec
         /\ (pc \in {"record", "confirm"} => AtRow)
<1>1. /\ mem \in State /\ mem.act \in [Actions -> ActionRec] /\ loc.a \in Actions
      /\ Cur = mem.act[loc.a] /\ Cur \in ActionRec /\ Sound(mem)
  BY Typed DEF Sound
<1>2. ASSUME pc \in {"record", "confirm"} PROVE loc.idx \in Idx
  <2>1. pc \in RowPcs
    BY <1>2 DEF RowPcs
  <2> QED BY <2>1, Inside DEF LInv
<1> QED BY <1>1, <1>2 DEF AtRow

LEMMA HashNear ==
  ASSUME LInv, pc = "record", NEW s, HashRow(s)
  PROVE  Nearby(s) /\ SameKeys(s)
<1>1. Sound(mem) /\ loc.a \in Actions /\ Cur \in ActionRec /\ AtRow
  BY WorkedOn DEF ExecPcs, EvmPcs
<1> PICK x : x = [Cur EXCEPT !.item = [@ EXCEPT ![loc.idx] = "sent"],
                             !.paid = @ + Value[loc.step][loc.idx], !.status = "submitted"]
  OBVIOUS
<1>2. s.act = [mem.act EXCEPT ![loc.a] = x] /\ SameKeys(s)
  BY <1>1, HashRecord
<1>3. x.attempt = Cur.attempt /\ x.status # Retryable
  BY <1>1 DEF ActionRec, Retryable
<1> QED BY <1>1, <1>2, <1>3, NearOne

LEMMA ActualNear ==
  ASSUME LInv, pc = "confirm", NEW s, NEW fee, ActualRow(s, fee)
  PROVE  Nearby(s) /\ SameKeys(s)
<1>1. Sound(mem) /\ loc.a \in Actions /\ Cur \in ActionRec /\ AtRow
  BY WorkedOn DEF ExecPcs, EvmPcs
<1> PICK x : x = [Cur EXCEPT !.item = [@ EXCEPT ![loc.idx] = "done"], !.paid = @ + fee]
  OBVIOUS
<1>2. s.act = [mem.act EXCEPT ![loc.a] = x] /\ SameKeys(s)
  BY <1>1, ActualRecord
<1>3. x.attempt = Cur.attempt /\ x.status = Cur.status /\ x.step = Cur.step
  BY <1>1 DEF ActionRec
<1> QED BY <1>1, <1>2, <1>3, NearOne

LEMMA StatusNear ==
  ASSUME Sound(mem), loc.a \in Actions, NEW s, NEW st, st # Retryable, StatusRow(s, st)
  PROVE  Nearby(s) /\ SameKeys(s)
<1>1. mem \in State /\ Cur = mem.act[loc.a] /\ Cur \in ActionRec
  BY DEF Sound, State, Cur
<1> PICK x : x = [Cur EXCEPT !.status = st]
  OBVIOUS
<1>2. s.act = [mem.act EXCEPT ![loc.a] = x] /\ SameKeys(s)
  BY <1>1 DEF StatusRow, State, SameKeys
<1>3. x.attempt = Cur.attempt /\ x.status = st
  BY <1>1 DEF ActionRec
<1> QED BY <1>2, <1>3, NearOne

(*--------------------------- the steps, one by one ---------------------------*)
\* Outside the execution of an action no record changes, but for a settled reserve.
LEMMA StartStays == LInv /\ Start => Unmoved /\ KeysStay
<1> SUFFICES ASSUME LInv, Start PROVE Unmoved /\ KeysStay
  OBVIOUS
<1>1. mem' = LoadState(disk) /\ disk' = mem' /\ disk \in State
  BY DEF Start, Write, LInv, IInv, Sound
<1>2. mem'.act = disk.act /\ mem'.ctr = disk.ctr /\ mem'.srcKey = disk.srcKey
      /\ mem'.outKey = disk.outKey
  BY <1>1 DEF LoadState, State
<1> QED BY <1>1, <1>2 DEF Unmoved, Closeby, Close, Alike, KeysStay, SameKeys

LEMMA ReleaseStays == LInv /\ ReleaseOne => Unmoved /\ KeysStay
<1> SUFFICES ASSUME LInv, ReleaseOne PROVE Unmoved /\ KeysStay
  OBVIOUS
<1>1. CASE Stop(disk)
  BY <1>1, Unwritten DEF Stop
<1>2. ASSUME NEW a \in Settled(mem), mem' = ReleaseReserve(mem, a), UNCHANGED <<disk, pc, loc>>
      PROVE  Unmoved /\ KeysStay
  <2>1. a \in Actions /\ mem \in State /\ mem.act \in [Actions -> ActionRec]
    BY DEF Settled, LInv, IInv, Sound, State
  <2> PICK x : x = [mem.act[a] EXCEPT !.reserve = 0]
    OBVIOUS
  <2>2. mem'.act = [mem.act EXCEPT ![a] = x]
    BY <1>2, <2>1 DEF ReleaseReserve, State
  <2>3. mem'.ctr = mem.ctr /\ mem'.srcKey = mem.srcKey /\ mem'.outKey = mem.outKey
    BY <1>2, <2>1 DEF ReleaseReserve, State
  <2>4. Alike(x, mem.act[a])
    BY <2>1 DEF Alike, ActionRec
  <2>5. Close(mem', mem)
    BY <2>1, <2>2, <2>4 DEF Close, Alike
  <2>6. Close(disk', disk)
    BY <1>2 DEF Close, Alike
  <2> QED BY <1>2, <2>3, <2>5, <2>6 DEF Unmoved, Closeby, KeysStay, SameKeys
<1> QED BY <1>1, <1>2 DEF ReleaseOne

LEMMA CompleteStays == LInv /\ GetComplete => Unmoved /\ KeysStay
<1> SUFFICES ASSUME LInv, GetComplete PROVE Unmoved /\ KeysStay
  OBVIOUS
<1>1. mem \in State
  BY DEF LInv, IInv, Sound
<1>2. CASE Stop(disk)
  BY <1>2, Unwritten DEF Stop
<1>3. CASE Stop([mem EXCEPT !.status = "complete"])
  <2>1. mem' = [mem EXCEPT !.status = "complete"] /\ disk' = mem'
    BY <1>3 DEF Stop
  <2>2. mem'.act = mem.act /\ mem'.ctr = mem.ctr /\ mem'.srcKey = mem.srcKey
        /\ mem'.outKey = mem.outKey
    BY <1>1, <2>1 DEF State
  <2> QED BY <2>1, <2>2 DEF Unmoved, Closeby, Close, Alike, KeysStay, SameKeys
<1> QED BY <1>2, <1>3 DEF GetComplete

LEMMA LoopStays ==
  ASSUME \/ Restarted \/ GiveUp \/ Asleep \/ GetPending \/ GetInFlight \/ GetUnsupported
         \/ GetShort \/ GetExpired \/ GetReady \/ ObserveOutput \/ Refresh \/ Crash
  PROVE  Unmoved /\ KeysStay
<1>1. CASE Restarted \/ GiveUp \/ GetUnsupported \/ Crash
  BY <1>1, Unwritten DEF Restarted, GiveUp, GetUnsupported, Crash, Stop, Write
<1>2. CASE Asleep \/ GetPending \/ GetInFlight \/ GetShort \/ GetExpired \/ GetReady
  BY <1>2, Unwritten DEF Asleep, GetPending, GetInFlight, GetShort, GetExpired, GetReady, Keep,
     ToKey
<1>3. CASE ObserveOutput \/ Refresh
  BY <1>3, Unwritten DEF ObserveOutput, Refresh, Keep, Stop
<1> QED BY <1>1, <1>2, <1>3

\* The two steps that change counter and keys.
LEMMA OperationStays == LInv /\ (NextOperation \/ StoreKey) => Unmoved
<1> SUFFICES ASSUME LInv, NextOperation \/ StoreKey PROVE Unmoved
  OBVIOUS
<1>1. mem \in State
  BY DEF LInv, IInv, Sound
<1>2. CASE Keep \/ Stop(disk)
  BY <1>2, Unwritten DEF Keep, Stop
<1>3. CASE \/ Write(CountUp(mem)) \/ Write([mem EXCEPT !.srcKey[loc.a] = loc.key])
           \/ Write([mem EXCEPT !.outKey[loc.step] = loc.key])
  <2>1. disk' = mem' /\ mem'.act = mem.act
    BY <1>1, <1>3 DEF Write, CountUp, State
  <2> QED BY <2>1 DEF Unmoved, Closeby, Close, Alike
<1> QED BY <1>2, <1>3 DEF NextOperation, StoreKey

LEMMA SourceStays == LInv /\ ObserveSource => Quietly /\ KeysStay
<1> SUFFICES ASSUME LInv, ObserveSource PROVE Quietly /\ KeysStay
  OBVIOUS
<1>1. Sound(mem) /\ loc.a \in Actions
  BY Inside DEF LInv, IInv, ObserveSource, ActionPcs
<1>2. CASE Keep \/ Stop(disk)
  BY <1>2, Unwritten, UnmovedIsQuiet DEF Keep, Stop
<1>3. CASE Write([mem EXCEPT !.act[loc.a].status = "observed"])
  <2>1. StatusRow(mem', "observed") /\ disk' = mem' /\ "observed" # Retryable
    BY <1>3 DEF StatusRow, Write, Retryable
  <2>2. Nearby(mem') /\ SameKeys(mem')
    BY <1>1, <2>1, StatusNear
  <2> QED BY <2>1, <2>2, Written
<1> QED BY <1>2, <1>3 DEF ObserveSource

\* The execution of an action changes its record only, and keeps its attempt.
LEMMA OpenedNear ==
  ASSUME LInv, pc \in ExecPcs, pc # "settle", NEW m, m = ActionState(mem)
  PROVE  Nearby(m) /\ SameKeys(m)
<1> PICK x : x = m.act[loc.a]
  OBVIOUS
<1>1. /\ m.act = [mem.act EXCEPT ![loc.a] = x] /\ x.attempt = Cur.attempt
      /\ x.step = loc.step /\ x.status \in {"ready", Cur.status} /\ x.status # "absent"
  BY Opened
<1>2. Sound(mem) /\ loc.a \in Actions
  BY WorkedOn
<1>3. x.status = Retryable => Cur.status = Retryable /\ x.step = Cur.step
  BY <1>1, Executed DEF Retryable
<1>4. SameKeys(m)
  BY <1>2 DEF Sound, ActionState, SameKeys, State
<1> QED BY <1>1, <1>2, <1>3, <1>4, NearOne

LEMMA ReserveStays == LInv /\ EvmReserve => Quietly /\ KeysStay
<1> SUFFICES ASSUME LInv, EvmReserve PROVE Quietly /\ KeysStay
  OBVIOUS
<1>1. pc = "evm" /\ pc \in ExecPcs /\ pc # "settle"
  BY DEF EvmReserve, ExecPcs, EvmPcs
<1> PICK m, r, x : m = ActionState(mem) /\ r = StepReserve[loc.step] /\ x = m.act[loc.a]
  OBVIOUS
<1>2. Nearby(m) /\ SameKeys(m)
  BY <1>1, OpenedNear
<1>3. CASE Stop(disk)
  BY <1>3, Unwritten, UnmovedIsQuiet DEF Stop
<1>4. CASE Write(m)
  BY <1>2, <1>4, Written DEF Write
<1>5. CASE Write(ReserveFor(m, r))
  <2>1. /\ Sound(mem) /\ loc.a \in Actions /\ Sound(m)
    BY <1>1, Typed, ActionStateSound
  <2>2. m \in State /\ m.act \in [Actions -> ActionRec] /\ x \in ActionRec
    BY <2>1 DEF Sound, State
  <2> PICK y : y = [x EXCEPT !.reserve = r]
    OBVIOUS
  <2>3. mem' = [m EXCEPT !.resv = @ + r, !.act[loc.a].reserve = r] /\ disk' = mem'
    BY <1>5 DEF Write, ReserveFor
  <2>4. mem'.act = [m.act EXCEPT ![loc.a] = y]
    BY <2>1, <2>2, <2>3 DEF State
  <2>5. y.attempt = x.attempt /\ y.step = x.step /\ y.status = x.status
    BY <2>2 DEF ActionRec
  <2>6. \A a \in Actions : /\ mem'.act[a].attempt = m.act[a].attempt
                           /\ mem'.act[a].status = m.act[a].status
                           /\ mem'.act[a].step = m.act[a].step
                           /\ a # loc.a => mem'.act[a] = m.act[a]
    BY <2>1, <2>2, <2>4, <2>5
  <2>7. Nearby(mem')
    BY <1>2, <2>6 DEF Nearby, Near, Alike
  <2>8. SameKeys(mem')
    BY <1>2, <2>2, <2>3 DEF SameKeys, State
  <2> QED BY <2>3, <2>7, <2>8, Written
<1> QED BY <1>3, <1>4, <1>5 DEF EvmReserve

LEMMA RowStays == LInv /\ (EvmRow \/ SolDone) => Quietly /\ KeysStay
<1> SUFFICES ASSUME LInv, EvmRow \/ SolDone PROVE Quietly /\ KeysStay
  OBVIOUS
<1>1. pc \in ExecPcs
  BY DEF EvmRow, SolDone, ExecPcs, EvmPcs, SolPcs
<1>2. CASE Keep
  BY <1>2, Unwritten, UnmovedIsQuiet DEF Keep
<1>3. CASE mem' = [mem EXCEPT !.act[loc.a].status = "confirmed"] /\ disk' \in {mem', disk}
  <2>1. StatusRow(mem', "confirmed") /\ "confirmed" # Retryable
    BY <1>3 DEF StatusRow, Retryable
  <2>2. Nearby(mem') /\ SameKeys(mem')
    BY <1>1, <2>1, WorkedOn, StatusNear
  <2> QED BY <1>3, <2>2, Written
<1> QED BY <1>2, <1>3 DEF EvmRow, SolDone, Write

LEMMA PrepareStays == LInv /\ EvmPrepare => Quietly /\ KeysStay
<1> SUFFICES ASSUME LInv, EvmPrepare PROVE Quietly /\ KeysStay
  OBVIOUS
<1>1. pc \in ExecPcs
  BY DEF EvmPrepare, ExecPcs, EvmPcs
<1>2. CASE Keep
  BY <1>2, Unwritten, UnmovedIsQuiet DEF Keep
<1>3. CASE mem' = Announce(mem) /\ disk' \in {mem', disk}
  <2>1. StatusRow(mem', Attempted) /\ Attempted # Retryable
    BY <1>3 DEF StatusRow, Announce, Attempted, Retryable
  <2>2. Nearby(mem') /\ SameKeys(mem')
    BY <1>1, <2>1, WorkedOn, StatusNear
  <2> QED BY <1>3, <2>2, Written
<1> QED BY <1>2, <1>3 DEF EvmPrepare, Write, SaveFails

LEMMA RecordStays == LInv /\ EvmRecord => Quietly /\ KeysStay
<1> SUFFICES ASSUME LInv, EvmRecord PROVE Quietly /\ KeysStay
  OBVIOUS
<1>1. pc = "record" /\ HashRow(mem') /\ disk' \in {mem', disk}
  BY DEF EvmRecord, Write, SaveFails, HashRow
<1>2. Nearby(mem') /\ SameKeys(mem')
  BY <1>1, HashNear
<1> QED BY <1>1, <1>2, Written

LEMMA ConfirmStays == LInv /\ EvmConfirm => Quietly /\ KeysStay
<1> SUFFICES ASSUME LInv, EvmConfirm PROVE Quietly /\ KeysStay
  OBVIOUS
<1>1. pc = "confirm"
  BY DEF EvmConfirm
<1>2. CASE Keep
  BY <1>2, Unwritten, UnmovedIsQuiet DEF Keep
<1>3. ASSUME NEW fee, mem' = RecordActual(mem, fee), disk' \in {mem', disk}
      PROVE  Quietly /\ KeysStay
  <2>1. ActualRow(mem', fee)
    BY <1>3 DEF ActualRow
  <2>2. Nearby(mem') /\ SameKeys(mem')
    BY <1>1, <2>1, ActualNear
  <2> QED BY <1>3, <2>2, Written
<1> QED BY <1>2, <1>3 DEF EvmConfirm, Write, SaveFails

LEMMA CatchStays == LInv /\ EvmCatch => Quietly /\ KeysStay
<1> SUFFICES ASSUME LInv, EvmCatch PROVE Quietly /\ KeysStay
  OBVIOUS
<1>1. pc \in ExecPcs
  BY DEF EvmCatch, ExecPcs, EvmPcs
<1>2. Sound(mem) /\ mem \in State /\ mem.act \in [Actions -> ActionRec] /\ loc.a \in Actions
      /\ Cur = mem.act[loc.a] /\ Cur \in ActionRec
  BY <1>1, Typed DEF Sound
<1>3. CASE Keep \/ Stop(disk)
  BY <1>3, Unwritten, UnmovedIsQuiet DEF Keep, Stop
<1>4. CASE Stop(OutcomeUnknown(mem))
  <2>1. StatusRow(mem', Unknown) /\ disk' = mem' /\ Unknown # Retryable
    BY <1>4 DEF StatusRow, OutcomeUnknown, Stop, Unknown, Retryable
  <2>2. Nearby(mem') /\ SameKeys(mem')
    BY <1>2, <2>1, StatusNear
  <2> QED BY <2>1, <2>2, Written
<1>5. CASE Stop(ReleaseUnsubmitted(mem))
  <2> PICK s, x : s = ReleaseUnsubmitted(mem) /\ x = [Cur EXCEPT !.reserve = 0, !.status = Released]
    OBVIOUS
  <2>1. s.act = [mem.act EXCEPT ![loc.a] = x] /\ SameKeys(s)
    BY <1>2, ReleasedRecord
  <2>2. x.attempt = Cur.attempt /\ x.status # Retryable
    BY <1>2 DEF ActionRec, Retryable, Released
  <2>3. Nearby(s)
    BY <1>2, <2>1, <2>2, NearOne
  <2>4. mem' = s /\ disk' = s
    BY <1>5 DEF Stop
  <2> QED BY <2>1, <2>3, <2>4, Written
<1> QED BY <1>3, <1>4, <1>5 DEF EvmCatch, Caught

LEMMA SolStays == LInv /\ (SolBegin \/ SolPrepare \/ SolRecord \/ SolConfirm) => Quietly /\ KeysStay
<1> SUFFICES ASSUME LInv, SolBegin \/ SolPrepare \/ SolRecord \/ SolConfirm
             PROVE  Quietly /\ KeysStay
  OBVIOUS
<1>1. pc \in ExecPcs /\ pc # "settle"
  BY DEF SolBegin, SolPrepare, SolRecord, SolConfirm, ExecPcs, SolPcs
<1>2. /\ Sound(mem) /\ mem \in State /\ mem.act \in [Actions -> ActionRec] /\ loc.a \in Actions
      /\ Cur = mem.act[loc.a] /\ Cur \in ActionRec /\ 0 \in Idx
  BY <1>1, Typed, FirstRow DEF Sound
<1>3. CASE Stop(disk) \/ Write(mem)
  BY <1>3, Unwritten, UnmovedIsQuiet DEF Stop, Write
<1>4. CASE mem' = ActionState(mem) /\ UNCHANGED disk
  BY <1>1, <1>4, OpenedNear, Written
<1>5. CASE SolRecord
  <2> PICK x : x = [Cur EXCEPT !.item = [@ EXCEPT ![0] = "sent"], !.status = "submitted"]
    OBVIOUS
  <2>1. /\ mem' = [mem EXCEPT !.act[loc.a].item[0] = "sent", !.act[loc.a].status = "submitted",
                              !.soltxs = @ + 1]
        /\ disk' = mem'
    BY <1>5 DEF SolRecord, Write
  <2>2. mem'.act[loc.a] = x
    BY <1>2, <2>1 DEF State, ActionRec
  <2>3. \A a \in Actions : a # loc.a => mem'.act[a] = mem.act[a]
    BY <1>2, <2>1 DEF State
  <2>4. SameKeys(mem')
    BY <1>2, <2>1 DEF SameKeys, State
  <2>5. x.attempt = Cur.attempt /\ x.status # Retryable
    BY <1>2 DEF ActionRec, Retryable
  <2>6. Nearby(mem')
    BY <1>2, <2>2, <2>3, <2>5 DEF Nearby, Near, Alike
  <2> QED BY <2>1, <2>4, <2>6, Written
<1>6. ASSUME NEW fee, Write([mem EXCEPT !.act[loc.a].item[0] = "done", !.sol = @ + fee])
      PROVE  Quietly /\ KeysStay
  <2> PICK x : x = [Cur EXCEPT !.item = [@ EXCEPT ![0] = "done"]]
    OBVIOUS
  <2>1. mem' = [mem EXCEPT !.act[loc.a].item[0] = "done", !.sol = @ + fee] /\ disk' = mem'
    BY <1>6 DEF Write
  <2>2. mem'.act[loc.a] = x
    BY <1>2, <2>1 DEF State, ActionRec
  <2>3. \A a \in Actions : a # loc.a => mem'.act[a] = mem.act[a]
    BY <1>2, <2>1 DEF State
  <2>4. SameKeys(mem')
    BY <1>2, <2>1 DEF SameKeys, State
  <2>5. x.attempt = Cur.attempt /\ x.status = Cur.status /\ x.step = Cur.step
    BY <1>2 DEF ActionRec
  <2>6. Nearby(mem')
    BY <1>2, <2>2, <2>3, <2>5 DEF Nearby, Near, Alike
  <2> QED BY <2>1, <2>4, <2>6, Written
<1> QED BY <1>3, <1>4, <1>5, <1>6 DEF SolBegin, SolPrepare, SolConfirm

LEMMA SendStays ==
  ASSUME EvmSettled \/ RevokePrepare \/ EvmSubmit \/ RevokeSubmit \/ SolSubmit
  PROVE  Unmoved /\ KeysStay
BY Unwritten DEF EvmSettled, RevokePrepare, EvmSubmit, RevokeSubmit, SolSubmit, Write, Keep, Stop

(*------------------------------ RInv is inductive ------------------------------*)
\* Nothing is broadcast; what landed stays.
SameTxs ==
  /\ DOMAIN chain' = DOMAIN chain /\ Len(chain') = Len(chain)
  /\ \A k \in DOMAIN chain :
       /\ chain'[k].a = chain[k].a /\ chain'[k].attempt = chain[k].attempt
       /\ chain'[k].idx = chain[k].idx
       /\ chain[k].st = "ok" => chain'[k].st = "ok"

LEMMA MinedSame == ASSUME WorldOK, Mine PROVE SameTxs
<1>1. PICK k \in DOMAIN chain :
        /\ chain[k].st = "pending"
        /\ \E st \in {"ok", "failed"}, fee \in 0 .. chain[k].gas :
             chain' = [chain EXCEPT ![k].st = st, ![k].fee = fee]
  BY DEF Mine
<1>2. PICK st \in {"ok", "failed"}, fee \in 0 .. chain[k].gas :
        chain' = [chain EXCEPT ![k].st = st, ![k].fee = fee]
  BY <1>1
<1> PICK c, d : c = chain /\ d = chain'
  OBVIOUS
<1>3. c \in Seq(Tx)
  BY DEF WorldOK, WorldTypeOK
<1>4. d \in [1 .. Len(c) -> Tx] => DOMAIN d = 1 .. Len(c)
  OBVIOUS
<1>5. d = [c EXCEPT ![k] = [[c[k] EXCEPT !.st = st] EXCEPT !.fee = fee]]
  BY <1>1, <1>2, <1>3
<1>6. DOMAIN d = DOMAIN c /\ Len(d) = Len(c)
  BY <1>3, <1>5
<1>7. \A j \in DOMAIN c : j # k => d[j] = c[j]
  BY <1>3, <1>5
<1>8. d[k] = [[c[k] EXCEPT !.st = st] EXCEPT !.fee = fee] /\ c[k] \in Tx
  BY <1>1, <1>3, <1>5
<1>9. d[k].a = c[k].a /\ d[k].attempt = c[k].attempt /\ d[k].idx = c[k].idx
  BY <1>8 DEF Tx
<1> QED BY <1>1, <1>6, <1>7, <1>9 DEF SameTxs

LEMMA ChainTyped ==
  ASSUME WorldOK
  PROVE  /\ chain \in Seq(Tx) /\ Len(chain) \in Nat /\ DOMAIN chain = 1 .. Len(chain)
         /\ \A k \in DOMAIN chain : chain[k].a \in Actions /\ chain[k].attempt \in Nat
<1>1. chain \in Seq(Tx)
  BY DEF WorldOK, WorldTypeOK
<1>2. \A k \in DOMAIN chain : chain[k] \in Tx
  BY <1>1
<1> QED BY <1>1, <1>2 DEF Tx

LEMMA ReopeningKept ==
  ASSUME SameTxs, NEW a, NEW x, NEW u, Reopening(a, x), u.attempt = x.attempt,
         u.status = Retryable => x.status = Retryable /\ u.step = x.step
  PROVE  Reopening(a, u)'
<1> SUFFICES ASSUME u.status = Retryable
             PROVE  /\ Family[u.step] = "evm" /\ Cleared(a, u.attempt - 1)'
                    /\ \A k \in DOMAIN chain' : chain'[k].a = a => chain'[k].attempt # u.attempt
  BY DEF Reopening
<1>1. /\ Family[u.step] = "evm" /\ Cleared(a, u.attempt - 1)
      /\ \A k \in DOMAIN chain : chain[k].a = a => chain[k].attempt # u.attempt
  BY DEF Reopening
<1>2. Cleared(a, u.attempt - 1)'
  <2> PICK t : t = u.attempt - 1
    OBVIOUS
  <2>1. PICK k \in DOMAIN chain :
          /\ chain[k].a = a /\ chain[k].attempt = t /\ chain[k].idx = Revoke /\ chain[k].st = "ok"
          /\ \A j \in k + 1 .. Len(chain) : ~(chain[j].a = a /\ chain[j].idx = 0)
    BY <1>1 DEF Cleared, TxOf
  <2>2. /\ k \in DOMAIN chain' /\ chain'[k].a = a /\ chain'[k].attempt = t
        /\ chain'[k].idx = Revoke /\ chain'[k].st = "ok"
    BY <2>1 DEF SameTxs
  <2>3. \A j \in k + 1 .. Len(chain') : ~(chain'[j].a = a /\ chain'[j].idx = 0)
    <3> SUFFICES ASSUME NEW j \in k + 1 .. Len(chain')
                 PROVE  ~(chain'[j].a = a /\ chain'[j].idx = 0)
      OBVIOUS
    <3>1. j \in k + 1 .. Len(chain) /\ j \in DOMAIN chain
      BY <2>1 DEF SameTxs
    <3> QED BY <2>1, <3>1 DEF SameTxs
  <2> QED BY <2>2, <2>3 DEF Cleared, TxOf
<1> QED BY <1>1, <1>2 DEF SameTxs

LEMMA QuietAttempts ==
  ASSUME RInv, Quietly, SameTxs
  PROVE  AttemptsOK' /\ RevokesOK'
<1>1. AttemptsOK /\ RevokesOK
  BY DEF RInv
<1>2. ASSUME NEW a \in Actions
      PROVE  /\ mem'.act[a].attempt = disk'.act[a].attempt
             /\ mem'.act[a].attempt = mem.act[a].attempt
             /\ Reopening(a, mem.act[a])' /\ Reopening(a, disk.act[a])'
  <2> PICK x, y, u, v : x = mem.act[a] /\ y = disk.act[a] /\ u = mem'.act[a] /\ v = disk'.act[a]
    OBVIOUS
  <2>1. x.attempt = y.attempt /\ Reopening(a, x) /\ Reopening(a, y)
    BY <1>1 DEF AttemptsOK
  <2>2. \E o \in {x, y} : /\ u.attempt = o.attempt
                          /\ u.status = Retryable => o.status = Retryable /\ u.step = o.step
    BY DEF Quietly, Nearby, Near
  <2>3. \E o \in {x, y} : /\ v.attempt = o.attempt
                          /\ v.status = Retryable => o.status = Retryable /\ v.step = o.step
    BY DEF Quietly, Nearby, Near
  <2>4. Reopening(a, u)' /\ Reopening(a, v)'
    BY <2>1, <2>2, <2>3, ReopeningKept
  <2> QED BY <2>1, <2>2, <2>3, <2>4
<1>3. \A k \in DOMAIN chain' : chain'[k].attempt <= mem'.act[chain'[k].a].attempt
  <2>1. \A k \in DOMAIN chain : chain[k].a \in Actions
    BY ChainTyped DEF RInv, LInv, IInv
  <2> QED BY <1>1, <1>2, <2>1 DEF AttemptsOK, SameTxs
<1>4. RevokesOK'
  BY <1>1 DEF RevokesOK, SameTxs, TxOf
<1> QED BY <1>2, <1>3, <1>4 DEF AttemptsOK

\* The three submissions: what is appended is of an action that is not to be opened again.
LEMMA SentAttempts ==
  ASSUME RInv, IInv', Unmoved, NEW i \in Int,
         Broadcast(loc.a, Cur.attempt, loc.step, i, loc.gas), loc.a \in Actions,
         mem.act[loc.a].status # Retryable, disk.act[loc.a].status # Retryable,
         i = Revoke => TxOf(loc.a, Cur.attempt, 0) # {}
  PROVE  AttemptsOK' /\ RevokesOK'
<1> PICK c, d, b, t : c = chain /\ d = chain' /\ b = loc.a /\ t = Cur.attempt
  OBVIOUS
<1>1. AttemptsOK /\ RevokesOK /\ WorldOK
  BY DEF RInv, LInv, IInv
<1>2. CASE d = c
  <2>1. SameTxs
    BY <1>2 DEF SameTxs
  <2> QED BY <2>1, UnmovedIsQuiet, QuietAttempts
<1>3. CASE d # c
  <2> PICK n, new : /\ n = Len(c) + 1
                    /\ new = [a |-> b, attempt |-> t, step |-> loc.step, idx |-> i,
                              gas |-> loc.gas, fee |-> 0, st |-> "pending"]
    OBVIOUS
  <2>1. d = Append(c, new) /\ \A k \in DOMAIN c :
          ~(c[k].a = b /\ c[k].attempt = t /\ c[k].idx = i)
    BY <1>3 DEF Broadcast, TxOf
  <2>2. c \in Seq(Tx) /\ Len(c) \in Nat /\ DOMAIN c = 1 .. Len(c)
        /\ \A k \in DOMAIN c : c[k].a \in Actions /\ c[k].attempt \in Nat
    BY <1>1, ChainTyped
  <2>3. /\ DOMAIN d = 1 .. n /\ n \in Nat /\ Len(d) = n /\ d[n] = new
        /\ \A k \in DOMAIN c : d[k] = c[k]
    BY <2>1, <2>2
  <2>4. t \in Nat /\ t = mem.act[b].attempt /\ b \in Actions
    BY Typed, RecordTyped DEF Cur, RInv, LInv, IInv
  <2>5. ASSUME NEW a \in Actions, NEW x, Reopening(a, x), x.attempt = mem.act[a].attempt,
               a = b => x.status # Retryable
        PROVE  Reopening(a, x)'
    <3> SUFFICES ASSUME x.status = Retryable
                 PROVE  /\ Family[x.step] = "evm" /\ Cleared(a, x.attempt - 1)'
                        /\ \A k \in DOMAIN d : d[k].a = a => d[k].attempt # x.attempt
      BY DEF Reopening
    <3>1. a # b /\ Family[x.step] = "evm" /\ Cleared(a, x.attempt - 1)
          /\ \A k \in DOMAIN c : c[k].a = a => c[k].attempt # x.attempt
      BY <2>5 DEF Reopening
    <3>2. \A k \in DOMAIN d : d[k].a = a => k \in DOMAIN c /\ d[k] = c[k]
      BY <2>2, <2>3, <3>1
    <3>3. Cleared(a, x.attempt - 1)'
      <4> PICK u : u = x.attempt - 1
        OBVIOUS
      <4>1. PICK k \in DOMAIN c :
              /\ c[k].a = a /\ c[k].attempt = u /\ c[k].idx = Revoke /\ c[k].st = "ok"
              /\ \A j \in k + 1 .. Len(c) : ~(c[j].a = a /\ c[j].idx = 0)
        BY <3>1 DEF Cleared, TxOf
      <4>2. k \in DOMAIN d /\ d[k] = c[k]
        BY <2>2, <2>3
      <4>3. \A j \in k + 1 .. Len(d) : ~(d[j].a = a /\ d[j].idx = 0)
        BY <2>2, <2>3, <3>2, <4>1
      <4> QED BY <4>1, <4>2, <4>3 DEF Cleared, TxOf
    <3> QED BY <3>1, <3>2, <3>3
  <2>6. ASSUME NEW a \in Actions
        PROVE  /\ mem'.act[a].attempt = disk'.act[a].attempt
               /\ mem'.act[a].attempt = mem.act[a].attempt
               /\ Reopening(a, mem.act[a])' /\ Reopening(a, disk.act[a])'
    <3> PICK x, y, u, v :
          x = mem.act[a] /\ y = disk.act[a] /\ u = mem'.act[a] /\ v = disk'.act[a]
      OBVIOUS
    <3>1. /\ x.attempt = y.attempt /\ Reopening(a, x) /\ Reopening(a, y)
          /\ a = b => x.status # Retryable /\ y.status # Retryable
      BY <1>1 DEF AttemptsOK
    <3>2. Reopening(a, x)' /\ Reopening(a, y)'
      BY <2>5, <3>1
    <3>3. (Alike(u, x) \/ Alike(u, y)) /\ (Alike(v, x) \/ Alike(v, y))
      BY DEF Unmoved, Closeby, Close
    <3>4. Reopening(a, u)' /\ Reopening(a, v)' /\ u.attempt = v.attempt /\ u.attempt = x.attempt
      BY <3>1, <3>2, <3>3 DEF Reopening, Alike
    <3> QED BY <3>4
  <2>7. \A k \in DOMAIN d : d[k].attempt <= mem'.act[d[k].a].attempt
    <3> SUFFICES ASSUME NEW k \in DOMAIN d
                 PROVE  d[k].attempt <= mem'.act[d[k].a].attempt
      OBVIOUS
    <3>1. CASE k = n
      BY <2>3, <2>4, <2>6, <3>1
    <3>2. CASE k # n
      <4>1. k \in DOMAIN c /\ d[k] = c[k] /\ c[k].a \in Actions
        BY <2>2, <2>3, <3>2
      <4> QED BY <1>1, <2>6, <4>1 DEF AttemptsOK
    <3> QED BY <3>1, <3>2
  <2>8. RevokesOK'
    <3> SUFFICES ASSUME NEW k \in DOMAIN d, d[k].idx = Revoke
                 PROVE  /\ \E m \in DOMAIN d : /\ d[m].a = d[k].a /\ d[m].idx = 0
                                               /\ d[m].attempt = d[k].attempt
                        /\ \A j \in DOMAIN d :
                             j > k /\ d[j].a = d[k].a /\ d[j].idx = 0
                               => d[j].attempt > d[k].attempt
      BY DEF RevokesOK, TxOf
    <3>1. CASE k = n
      <4>1. i = Revoke
        BY <2>3, <3>1
      <4>2. PICK m \in DOMAIN c : c[m].a = b /\ c[m].attempt = t /\ c[m].idx = 0
        BY <4>1 DEF TxOf
      <4>3. m \in DOMAIN d /\ d[m] = c[m]
        BY <2>2, <2>3
      <4> QED BY <2>2, <2>3, <3>1, <4>2, <4>3
    <3>2. CASE k # n
      <4>1. k \in DOMAIN c /\ d[k] = c[k]
        BY <2>2, <2>3, <3>2
      <4>2. PICK m \in DOMAIN c :
              c[m].a = c[k].a /\ c[m].idx = 0 /\ c[m].attempt = c[k].attempt
        BY <1>1, <4>1 DEF RevokesOK, TxOf
      <4>3. m \in DOMAIN d /\ d[m] = c[m]
        BY <2>2, <2>3
      <4>4. ASSUME NEW j \in DOMAIN d, j > k, d[j].a = d[k].a, d[j].idx = 0
            PROVE  d[j].attempt > d[k].attempt
        <5>1. CASE j = n
          <6>1. c[k].a = b /\ i = 0 /\ d[j].attempt = t
            BY <2>3, <4>1, <4>4, <5>1
          <6>2. c[k].attempt <= t
            BY <1>1, <2>4, <4>1, <6>1 DEF AttemptsOK
          <6>3. c[k].attempt # t
            BY <2>1, <4>2, <6>1
          <6> QED BY <2>2, <2>4, <4>1, <6>1, <6>2, <6>3
        <5>2. CASE j # n
          <6>1. j \in DOMAIN c /\ d[j] = c[j]
            BY <2>2, <2>3, <5>2
          <6> QED BY <1>1, <4>1, <4>4, <6>1 DEF RevokesOK
        <5> QED BY <5>1, <5>2
      <4> QED BY <4>1, <4>2, <4>3, <4>4
    <3> QED BY <3>1, <3>2
  <2> QED BY <2>6, <2>7, <2>8 DEF AttemptsOK
<1> QED BY <1>2, <1>3

LEMMA EvmSubmitAttempts == RInv /\ IInv' /\ EvmSubmit => AttemptsOK' /\ RevokesOK'
<1> SUFFICES ASSUME RInv, IInv', EvmSubmit PROVE AttemptsOK' /\ RevokesOK'
  OBVIOUS
<1>1. LInv /\ pc = "submit" /\ pc \in ExecPcs /\ pc \in RowPcs /\ Unmoved
  BY SendStays DEF RInv, EvmSubmit, ExecPcs, EvmPcs, RowPcs
<1>2. CASE UNCHANGED chain
  <2>1. SameTxs
    BY <1>2 DEF SameTxs
  <2> QED BY <1>1, <2>1, UnmovedIsQuiet, QuietAttempts
<1>3. CASE Send(loc.idx)
  <2>1. loc.a \in Actions /\ loc.idx \in Idx /\ Cur = mem.act[loc.a]
    BY <1>1, Typed, Inside DEF LInv
  <2>2. mem = disk /\ Cur.status = Attempted
    BY <1>1, Executed DEF LInv, SyncPcs, Executing
  <2>3. Attempted # Retryable /\ loc.idx \in Int /\ loc.idx # Revoke
    BY <2>1, ShapeAssumption DEF Attempted, Retryable, Idx, Revoke
  <2> QED BY <1>1, <1>3, <2>1, <2>2, <2>3, SentAttempts DEF Send
<1> QED BY <1>2, <1>3 DEF EvmSubmit

LEMMA RevokeSubmitAttempts == RInv /\ IInv' /\ RevokeSubmit => AttemptsOK' /\ RevokesOK'
<1> SUFFICES ASSUME RInv, IInv', RevokeSubmit PROVE AttemptsOK' /\ RevokesOK'
  OBVIOUS
<1>1. LInv /\ pc = "rsubmit" /\ pc \in ExecPcs /\ Unmoved
  BY SendStays DEF RInv, RevokeSubmit, ExecPcs, EvmPcs
<1>2. CASE UNCHANGED chain
  <2>1. SameTxs
    BY <1>2 DEF SameTxs
  <2> QED BY <1>1, <2>1, UnmovedIsQuiet, QuietAttempts
<1>3. CASE Send(Revoke)
  <2>1. loc.a \in Actions /\ Cur = mem.act[loc.a] /\ 0 \in Idx /\ Recorded(loc.a, Cur)
    BY <1>1, Typed, FirstRow
  <2>2. Cur.item[0] = "done"
    BY <1>1, Executed DEF Executing
  <2>3. Landed(loc.a, Cur.attempt, 0)
    BY <2>1, <2>2 DEF Recorded
  <2>4. PICK k \in DOMAIN chain :
          chain[k].a = loc.a /\ chain[k].attempt = Cur.attempt /\ chain[k].idx = 0
    BY <2>3 DEF Landed, TxOf
  <2>5. mem.act[loc.a].status # Retryable /\ disk.act[loc.a].status # Retryable
    BY <2>1, <2>4 DEF RInv, AttemptsOK, Reopening
  <2>6. Revoke \in Int /\ TxOf(loc.a, Cur.attempt, 0) # {}
    BY <2>4 DEF Revoke, TxOf
  <2> QED BY <1>1, <1>3, <2>1, <2>5, <2>6, SentAttempts DEF Send
<1> QED BY <1>2, <1>3 DEF RevokeSubmit

LEMMA SolSubmitAttempts == RInv /\ IInv' /\ SolSubmit => AttemptsOK' /\ RevokesOK'
<1> SUFFICES ASSUME RInv, IInv', SolSubmit PROVE AttemptsOK' /\ RevokesOK'
  OBVIOUS
<1>1. LInv /\ pc = "ssubmit" /\ pc \in ExecPcs /\ pc \notin EvmPcs /\ Unmoved
  BY SendStays DEF RInv, SolSubmit, ExecPcs, EvmPcs, SolPcs
<1>2. CASE UNCHANGED chain
  <2>1. SameTxs
    BY <1>2 DEF SameTxs
  <2> QED BY <1>1, <2>1, UnmovedIsQuiet, QuietAttempts
<1>3. CASE Send(0)
  <2>1. loc.a \in Actions /\ Cur = mem.act[loc.a]
    BY <1>1, Typed
  <2>2. Family[loc.step] = "solana" /\ srv.a = loc.a /\ srv.step = loc.step
    BY <1>1, Executed DEF Executing
  <2>3. Recorded(loc.a, mem.act[loc.a]) /\ Recorded(loc.a, disk.act[loc.a])
    BY <1>1, <2>1 DEF LInv, RecordsOK
  <2>4. ASSUME NEW x, Recorded(loc.a, x), Reopening(loc.a, x) PROVE x.status # Retryable
    BY <2>2, <2>4 DEF Recorded, Reopening, Retryable
  <2>5. mem.act[loc.a].status # Retryable /\ disk.act[loc.a].status # Retryable
    BY <2>1, <2>3, <2>4 DEF RInv, AttemptsOK
  <2>6. 0 \in Int /\ 0 # Revoke
    BY DEF Revoke
  <2> QED BY <1>1, <1>3, <2>1, <2>5, <2>6, SentAttempts DEF Send
<1> QED BY <1>2, <1>3 DEF SolSubmit

\* A confirmed revocation begins the next attempt.
LEMMA RevokeConfirmAttempts == RInv /\ IInv' /\ RevokeConfirm => AttemptsOK' /\ RevokesOK'
<1> SUFFICES ASSUME RInv, IInv', RevokeConfirm PROVE AttemptsOK' /\ RevokesOK'
  OBVIOUS
<1>1. /\ LInv /\ pc = "rconfirm" /\ pc \in ExecPcs /\ pc \in EvmPcs /\ Quiet
      /\ AttemptsOK /\ RevokesOK
  BY DEF RInv, RevokeConfirm, ExecPcs, EvmPcs
<1>2. SameTxs /\ chain' = chain
  BY <1>1 DEF SameTxs, Quiet
<1>3. CASE Stop(disk)
  <2>1. Quietly
    BY <1>3, Unwritten, UnmovedIsQuiet DEF Stop
  <2> QED BY <1>2, <2>1, QuietAttempts
<1>4. ASSUME NEW k \in Receipts(Revoke), NEW fee, Stop(Recovered(mem, fee))
      PROVE  AttemptsOK' /\ RevokesOK'
  <2> PICK b, s, x, t : b = loc.a /\ s = Recovered(mem, fee) /\ x = Reopened(Cur) /\ t = Cur.attempt
    OBVIOUS
  <2>1. /\ b \in Actions /\ mem.act \in [Actions -> ActionRec] /\ Cur = mem.act[b]
        /\ Cur.status # "absent" /\ Cur.step = loc.step /\ Family[loc.step] = "evm" /\ t \in Nat
    BY <1>1, Typed, Executed DEF Executing
  <2>2. /\ s.act = [mem.act EXCEPT ![b] = x] /\ x.attempt = t + 1 /\ x.status = Retryable
        /\ x.step = loc.step
    BY <1>1, <2>1, ReopenedRecord
  <2>3. mem' = s /\ disk' = s
    BY <1>4 DEF Stop
  <2>4. /\ WorldOK /\ chain \in Seq(Tx) /\ Len(chain) \in Nat /\ DOMAIN chain = 1 .. Len(chain)
        /\ \A j \in DOMAIN chain : chain[j].a \in Actions /\ chain[j].attempt \in Nat
    BY <1>1, ChainTyped DEF LInv, IInv
  <2>5. \A j \in DOMAIN chain : chain[j].a = b => chain[j].attempt <= t
    BY <1>1, <2>1 DEF AttemptsOK
  <2>6. Cleared(b, t)
    <3>1. /\ k \in DOMAIN chain /\ chain[k].a = b /\ chain[k].attempt = t
          /\ chain[k].idx = Revoke /\ chain[k].st = "ok"
      BY <1>4 DEF Receipts, TxOf
    <3>2. \A j \in k + 1 .. Len(chain) : ~(chain[j].a = b /\ chain[j].idx = 0)
      <4> SUFFICES ASSUME NEW j \in k + 1 .. Len(chain), chain[j].a = b, chain[j].idx = 0
                   PROVE  FALSE
        OBVIOUS
      <4>1. j \in DOMAIN chain /\ j > k
        BY <2>4, <3>1
      <4>2. chain[j].attempt > t
        BY <1>1, <3>1, <4>1 DEF RevokesOK
      <4> QED BY <2>1, <2>4, <2>5, <4>1, <4>2
    <3> QED BY <3>1, <3>2 DEF Cleared, TxOf
  <2>7. Reopening(b, x)
    <3>1. x.attempt - 1 = t
      BY <2>1, <2>2
    <3>2. \A j \in DOMAIN chain : chain[j].a = b => chain[j].attempt # x.attempt
      BY <2>1, <2>2, <2>4, <2>5
    <3> QED BY <2>1, <2>2, <2>6, <3>1, <3>2 DEF Reopening
  <2>8. ASSUME NEW a \in Actions
        PROVE  /\ mem'.act[a].attempt = disk'.act[a].attempt
               /\ mem'.act[a] = IF a = b THEN x ELSE mem.act[a]
               /\ Reopening(a, mem.act[a])' /\ Reopening(a, disk.act[a])'
    <3> PICK u, o : u = mem'.act[a] /\ o = mem.act[a]
      OBVIOUS
    <3>1. u = IF a = b THEN x ELSE o
      BY <2>1, <2>2, <2>3
    <3>2. Reopening(a, u)
      BY <1>1, <2>7, <3>1 DEF AttemptsOK
    <3>3. Reopening(a, u)'
      BY <1>2, <3>2, ReopeningKept
    <3> QED BY <2>3, <3>1, <3>3
  <2>9. \A j \in DOMAIN chain' : chain'[j].attempt <= mem'.act[chain'[j].a].attempt
    <3> SUFFICES ASSUME NEW j \in DOMAIN chain
                 PROVE  chain[j].attempt <= mem'.act[chain[j].a].attempt
      BY <1>2
    <3>1. CASE chain[j].a = b
      BY <2>1, <2>2, <2>4, <2>5, <2>8, <3>1
    <3>2. CASE chain[j].a # b
      BY <1>1, <2>4, <2>8, <3>2 DEF AttemptsOK
    <3> QED BY <3>1, <3>2
  <2>10. RevokesOK'
    BY <1>1, <1>2 DEF RevokesOK, TxOf
  <2> QED BY <2>8, <2>9, <2>10 DEF AttemptsOK
<1> QED BY <1>3, <1>4 DEF RevokeConfirm

\* Every other step of the runner is quiet and leaves the chains alone.
LEMMA QuietSteps ==
  ASSUME LInv, RunnerStep, ~(EvmSubmit \/ RevokeSubmit \/ SolSubmit \/ RevokeConfirm)
  PROVE  Quietly
<1>1. CASE ReleaseOne \/ GetComplete \/ NextOperation \/ StoreKey \/ ObserveSource
  BY <1>1, ReleaseStays, CompleteStays, OperationStays, SourceStays, UnmovedIsQuiet
<1>2. CASE \/ Restarted \/ GiveUp \/ Asleep \/ GetPending \/ GetInFlight \/ GetUnsupported
           \/ GetShort \/ GetExpired \/ GetReady \/ ObserveOutput \/ Refresh
  BY <1>2, LoopStays, UnmovedIsQuiet
<1>3. CASE \/ EvmReserve \/ EvmRow \/ EvmPrepare \/ EvmRecord \/ EvmConfirm \/ EvmSettled
           \/ EvmCatch \/ RevokePrepare
  BY <1>3, ReserveStays, RowStays, PrepareStays, RecordStays, ConfirmStays, CatchStays,
     SendStays, UnmovedIsQuiet
<1>4. CASE SolBegin \/ SolPrepare \/ SolRecord \/ SolConfirm \/ SolDone
  BY <1>4, SolStays, RowStays
<1> QED BY <1>1, <1>2, <1>3, <1>4 DEF RunnerStep

LEMMA NextAttempts == RInv /\ LInv' /\ [Next]_vars => RInv'
<1> SUFFICES ASSUME RInv, LInv', [Next]_vars PROVE AttemptsOK' /\ RevokesOK'
  BY DEF RInv
<1>1. LInv /\ WorldOK /\ IInv'
  BY DEF RInv, LInv, IInv
<1>2. CASE EvmSubmit \/ RevokeSubmit \/ SolSubmit \/ RevokeConfirm
  BY <1>1, <1>2, EvmSubmitAttempts, RevokeSubmitAttempts, SolSubmitAttempts,
     RevokeConfirmAttempts
<1>3. CASE ~(EvmSubmit \/ RevokeSubmit \/ SolSubmit \/ RevokeConfirm)
  <2>1. SameTxs
    <3>1. CASE UNCHANGED chain
      BY <3>1 DEF SameTxs
    <3>2. CASE Mining
      BY <1>1, <3>2, MinedSame DEF Mining
    <3>3. UNCHANGED chain \/ Mining
      <4>1. CASE RunnerStep
        BY <1>3, <4>1
           DEF RunnerStep, ReleaseOne, Restarted, GiveUp, Asleep, Looking, GetComplete,
               GetPending, GetInFlight, GetUnsupported, GetShort, GetExpired, GetReady,
               NextOperation, StoreKey, ObserveSource, ObserveOutput, Refresh, EvmReserve,
               EvmRow, EvmPrepare, EvmRecord, EvmConfirm, EvmSettled, EvmCatch, RevokePrepare,
               SolBegin, SolPrepare, SolRecord, SolConfirm, SolDone, Quiet, OnlySrv
      <4> QED BY <4>1 DEF Next, vars, Start, world, Crash, Quiet, Time, Tick, Halting, Halt
    <3> QED BY <3>1, <3>2, <3>3
  <2>2. Quietly
    <3>1. CASE UNCHANGED process \/ UNCHANGED vars
      BY <3>1, Unwritten, UnmovedIsQuiet DEF process, vars
    <3>2. CASE Start \/ Crash
      BY <1>1, <3>2, StartStays, LoopStays, UnmovedIsQuiet
    <3> QED BY <1>1, <1>3, <3>1, <3>2, QuietSteps DEF Next, Time, Mining, Halting
  <2> QED BY <2>1, <2>2, QuietAttempts
<1> QED BY <1>2, <1>3

LEMMA InitAttempts == Init => AttemptsOK /\ RevokesOK
<1> SUFFICES ASSUME Init PROVE AttemptsOK /\ RevokesOK
  OBVIOUS
<1>1. chain = <<>> /\ DOMAIN chain = {}
  BY DEF Init, WorldInit
<1>2. \A a \in Actions : mem.act[a] = NoAction /\ disk.act[a] = NoAction
  BY DEF Init, InitialState
<1>3. NoAction.status # Retryable
  BY DEF NoAction, Retryable
<1> QED BY <1>1, <1>2, <1>3 DEF AttemptsOK, RevokesOK, Reopening

\* Whenever the file says "retryable after approval recovery" the revocation of the attempt
\* before landed, and no approval of that action was broadcast after it.
THEOREM RecoveryExact == Spec => []RecoveryIsExactZero
<1>1. Init => RInv
  BY InitLands, InitAttempts DEF RInv
<1>2. RInv /\ [Next]_vars => RInv'
  <2>1. RInv => LInv /\ IInv
    BY DEF RInv, LInv
  <2> QED BY <2>1, NextSafe, NextLands, NextAttempts
<1>3. RInv => RecoveryIsExactZero
  BY DEF RInv, AttemptsOK, Reopening, Cleared, RecoveryIsExactZero
<1> QED BY <1>1, <1>2, <1>3, PTL DEF Spec

(*------------------------------ KInv is inductive ------------------------------*)
\* A step keeps what the records of action a say of call c.
SentKept(c, a) ==
  SentAs(c, mem.act[a]) /\ SentAs(c, disk.act[a])
    => SentAs(c, mem.act[a])' /\ SentAs(c, disk.act[a])'

LEMMA AlikeSent ==
  ASSUME NEW c, NEW x, NEW y, SentAs(c, x), Alike(y, x)
  PROVE  SentAs(c, y)
BY DEF SentAs, Alike, Sent

LEMMA StillSent ==
  ASSUME NEW c, NEW a \in Actions, Unmoved \/ (Quietly /\ a # loc.a)
  PROVE  SentKept(c, a)
<1> PICK x, y, u, v : x = mem.act[a] /\ y = disk.act[a] /\ u = mem'.act[a] /\ v = disk'.act[a]
  OBVIOUS
<1>1. (Alike(u, x) \/ Alike(u, y)) /\ (Alike(v, x) \/ Alike(v, y))
  BY DEF Unmoved, Closeby, Close, Quietly, Nearby, Near
<1>2. SentAs(c, x) /\ SentAs(c, y) => SentAs(c, u) /\ SentAs(c, v)
  BY <1>1, AlikeSent
<1>3. SentAs(c, u) /\ SentAs(c, v) => SentAs(c, mem.act[a])' /\ SentAs(c, disk.act[a])'
  BY DEF SentAs, Sent
<1> QED BY <1>2, <1>3 DEF SentKept

LEMMA KeysTyped ==
  ASSUME LInv
  PROVE  /\ mem \in State /\ disk \in State /\ mem.ctr \in Nat
         /\ mem.srcKey \in [Actions -> Nat] /\ mem.outKey \in [Steps -> Nat]
         /\ \A c \in srv.log : c \in Call /\ c.key \in Nat /\ c.step \in Steps
BY DEF LInv, IInv, Sound, State, WorldOK, WorldTypeOK, Session, Call

LEMMA KeysCarried ==
  ASSUME KInv, KeysStay
  PROVE  KeysOK' /\ SameKeys(mem') /\ SameKeys(disk')
<1>1. KeysOK
  BY DEF KInv
<1>2. SameKeys(mem') /\ SameKeys(disk')
  BY <1>1 DEF KeysOK, KeysStay, SameKeys
<1> QED BY <1>1, <1>2 DEF KeysOK, SameKeys

LEMMA ToldKept ==
  ASSUME KInv, KeysStay, NEW c, Told(c), c.op = "source" => SentKept(c, c.a)
  PROVE  Told(c)'
<1>1. SameKeys(mem')
  BY KeysCarried
<1>2. mem'.ctr = mem.ctr /\ mem'.srcKey = mem.srcKey /\ mem'.outKey = mem.outKey
  BY <1>1 DEF SameKeys
<1>3. c.op = "source" => SentAs(c, mem.act[c.a])' /\ SentAs(c, disk.act[c.a])'
  BY DEF Told, SentKept
<1> QED BY <1>2, <1>3 DEF Told

\* No call reaches the session.
LEMMA LogCarried ==
  ASSUME KInv, KeysStay, srv'.log = srv.log,
         \/ Unmoved
         \/ Quietly /\ \A c \in srv.log : c.op = "source" => c.a # loc.a
  PROVE  LogOK'
<1>1. LogOK
  BY DEF KInv
<1>2. ASSUME NEW c \in srv.log PROVE Told(c)'
  <2>1. Told(c)
    BY <1>1 DEF LogOK
  <2>2. c.op = "source" => SentKept(c, c.a)
    BY <2>1, StillSent DEF Told
  <2> QED BY <2>1, <2>2, ToldKept
<1> QED BY <1>1, <1>2 DEF LogOK

\* Where the runner is after a step, and what it then knows.
RestPcs == {"idle", "restart", "top", "sleep"}

LEMMA AtRest == pc' \in RestPcs => KeyAtHand'
BY DEF RestPcs, KeyAtHand, ExecPcs, EvmPcs, SolPcs

LEMMA StillExecuting ==
  ASSUME KInv, pc \in ExecPcs, pc' \in ExecPcs, loc'.a = loc.a, srv'.log = srv.log
  PROVE  KeyAtHand'
BY DEF KInv, KeyAtHand, ExecPcs, EvmPcs, SolPcs

LEMMA AtKey ==
  ASSUME pc' = "key",
         loc'.op = "source" => Cur'.status \in {"submitted", "confirmed"} /\ Sent(Cur') # {}
  PROVE  KeyAtHand'
BY DEF KeyAtHand, ExecPcs, EvmPcs, SolPcs, Sent

LEMMA NoCallYet ==
  ASSUME KInv, pc \in ExecPcs
  PROVE  \A c \in srv.log : c.op = "source" => c.a # loc.a
BY DEF KInv, KeyAtHand

\* A step within the execution of an action, or out of it by an error.
LEMMA ExecutionKept ==
  ASSUME KInv, pc \in ExecPcs, Quietly, KeysStay, srv' = srv,
         (pc' \in ExecPcs /\ loc'.a = loc.a) \/ pc' \in RestPcs \/ KeyAtHand'
  PROVE  KeysOK' /\ LogOK' /\ KeyAtHand'
BY KeysCarried, LogCarried, NoCallYet, AtRest, StillExecuting

LEMMA LoopKept ==
  ASSUME KInv, Unmoved, KeysStay, srv'.log = srv.log, pc' \in RestPcs \/ KeyAtHand'
  PROVE  KeysOK' /\ LogOK' /\ KeyAtHand'
BY KeysCarried, LogCarried, AtRest

\* Where an execution goes.
LEMMA WhereExecution ==
  ASSUME LInv, \/ EvmReserve \/ EvmRow \/ EvmPrepare \/ EvmSubmit \/ EvmRecord \/ EvmConfirm
               \/ EvmCatch \/ RevokePrepare \/ RevokeSubmit \/ RevokeConfirm
               \/ SolBegin \/ SolPrepare \/ SolSubmit \/ SolRecord \/ SolConfirm
  PROVE  /\ pc \in ExecPcs /\ srv' = srv
         /\ (pc' \in ExecPcs /\ loc'.a = loc.a) \/ pc' \in RestPcs
<1>1. pc \in ExecPcs /\ srv' = srv
  BY DEF EvmReserve, EvmRow, EvmPrepare, EvmSubmit, EvmRecord, EvmConfirm, EvmCatch,
         RevokePrepare, RevokeSubmit, RevokeConfirm, SolBegin, SolPrepare, SolSubmit, SolRecord,
         SolConfirm, ExecPcs, EvmPcs, SolPcs, Quiet, OnlyNet
<1>2. loc \in Local
  BY <1>1, Typed
<1>3. CASE EvmReserve \/ EvmRow \/ EvmSubmit \/ EvmRecord \/ EvmCatch
  BY <1>1, <1>2, <1>3
     DEF EvmReserve, EvmRow, EvmSubmit, EvmRecord, EvmCatch, Goto, Stop, SaveFails, ExecPcs,
         EvmPcs, RestPcs, Local
<1>4. CASE EvmPrepare \/ EvmConfirm
  BY <1>1, <1>2, <1>4
     DEF EvmPrepare, EvmConfirm, Goto, Stop, SaveFails, ExecPcs, EvmPcs, RestPcs, Local
<1>5. CASE RevokePrepare \/ RevokeSubmit \/ RevokeConfirm
  BY <1>1, <1>2, <1>5
     DEF RevokePrepare, RevokeSubmit, RevokeConfirm, Goto, Stop, ExecPcs, EvmPcs, RestPcs, Local
<1>6. CASE SolBegin \/ SolPrepare \/ SolSubmit \/ SolRecord \/ SolConfirm
  BY <1>1, <1>2, <1>6
     DEF SolBegin, SolPrepare, SolSubmit, SolRecord, SolConfirm, Goto, Stop, ExecPcs, SolPcs,
         RestPcs, Local
<1> QED BY <1>1, <1>3, <1>4, <1>5, <1>6

LEMMA ExecutionKeys ==
  ASSUME KInv, \/ EvmReserve \/ EvmRow \/ EvmPrepare \/ EvmSubmit \/ EvmRecord \/ EvmConfirm
               \/ EvmCatch \/ RevokePrepare \/ RevokeSubmit
               \/ SolBegin \/ SolPrepare \/ SolSubmit \/ SolRecord \/ SolConfirm
  PROVE  KeysOK' /\ LogOK' /\ KeyAtHand'
<1>1. LInv
  BY DEF KInv
<1>2. /\ pc \in ExecPcs /\ srv' = srv
      /\ (pc' \in ExecPcs /\ loc'.a = loc.a) \/ pc' \in RestPcs
  BY <1>1, WhereExecution
<1>3. Quietly /\ KeysStay
  BY <1>1, ReserveStays, RowStays, PrepareStays, RecordStays, ConfirmStays, CatchStays, SolStays,
     SendStays, UnmovedIsQuiet
<1> QED BY <1>2, <1>3, ExecutionKept

\* An attempt that ended in a revocation was not told to the session, so nothing told of it
\* is lost with its rows.
LEMMA RevokeConfirmKeys == KInv /\ RevokeConfirm => KeysOK' /\ LogOK' /\ KeyAtHand'
<1> SUFFICES ASSUME KInv, RevokeConfirm PROVE KeysOK' /\ LogOK' /\ KeyAtHand'
  OBVIOUS
<1>1. LInv /\ LogOK /\ pc = "rconfirm" /\ pc \in ExecPcs /\ srv' = srv
  BY DEF KInv, RevokeConfirm, ExecPcs, EvmPcs, Quiet
<1>2. CASE Stop(disk)
  <2>1. Quietly /\ KeysStay /\ pc' \in RestPcs
    BY <1>2, Unwritten, UnmovedIsQuiet DEF Stop, RestPcs
  <2> QED BY <1>1, <2>1, ExecutionKept
<1>3. ASSUME NEW fee, Stop(Recovered(mem, fee)) PROVE KeysOK' /\ LogOK' /\ KeyAtHand'
  <2> PICK b, s, x : b = loc.a /\ s = Recovered(mem, fee) /\ x = Reopened(Cur)
    OBVIOUS
  <2>1. /\ b \in Actions /\ mem \in State /\ mem.act \in [Actions -> ActionRec]
        /\ Cur.status # "absent"
    BY <1>1, Typed, Executed DEF Executing, Sound
  <2>2. s.act = [mem.act EXCEPT ![b] = x] /\ mem' = s /\ disk' = s /\ pc' \in RestPcs
    BY <1>1, <1>3, <2>1, ReopenedRecord DEF Stop, RestPcs
  <2>3. SameKeys(s)
    BY <2>1 DEF Recovered, SameKeys, State
  <2>4. KeysStay
    BY <2>2, <2>3 DEF KeysStay
  <2>5. ASSUME NEW c \in srv.log PROVE Told(c)'
    <3>1. Told(c)
      BY <1>1 DEF LogOK
    <3>2. ASSUME c.op = "source" PROVE SentKept(c, c.a)
      <4>1. c.a \in Actions /\ c.a # b
        BY <1>1, <3>1, <3>2, NoCallYet DEF Told
      <4>2. mem'.act[c.a] = mem.act[c.a] /\ disk'.act[c.a] = mem.act[c.a]
        BY <2>1, <2>2, <4>1
      <4> QED BY <4>2 DEF SentKept, SentAs, Sent
    <3> QED BY <2>4, <3>1, <3>2, ToldKept
  <2>6. LogOK'
    BY <1>1, <2>5 DEF LogOK
  <2> QED BY <2>2, <2>4, <2>6, KeysCarried, AtRest
<1> QED BY <1>2, <1>3 DEF RevokeConfirm

\* The end of an execution: the confirmed rows are what is observed next.
LEMMA SettledKeys == KInv /\ (EvmSettled \/ SolDone) => KeysOK' /\ LogOK' /\ KeyAtHand'
<1> SUFFICES ASSUME KInv, EvmSettled \/ SolDone PROVE KeysOK' /\ LogOK' /\ KeyAtHand'
  OBVIOUS
<1>1. LInv /\ pc \in ExecPcs /\ srv' = srv
  BY DEF KInv, EvmSettled, SolDone, ExecPcs, EvmPcs, SolPcs, Quiet
<1>2. Quietly /\ KeysStay
  BY <1>1, SendStays, RowStays, UnmovedIsQuiet
<1>3. /\ loc.a \in Actions /\ mem \in State /\ mem.act \in [Actions -> ActionRec]
      /\ Cur = mem.act[loc.a] /\ Cur \in ActionRec /\ Recorded(loc.a, Cur)
      /\ Cur.step \in Steps /\ 0 \in Idx
  BY <1>1, Typed, FirstRow DEF Sound, ActionRec
<1>4. pc' = "key" /\ loc'.a = loc.a
  BY DEF EvmSettled, SolDone, NoLocals
<1>5. Cur.item[0] = "done"
  <2>1. CASE SolDone
    BY <1>1, <2>1, Executed DEF SolDone, Executing
  <2>2. CASE EvmSettled
    <3>1. Cur.status = "confirmed"
      BY <1>1, <2>2, Executed DEF EvmSettled, Executing
    <3>2. Rows[Cur.step] \in Nat \ {0}
      BY <1>3, ShapeAssumption
    <3> QED BY <1>3, <3>1, <3>2 DEF Recorded
  <2> QED BY <2>1, <2>2
<1> PICK b, x, u : b = loc.a /\ x = Cur /\ u = mem'.act[b]
  OBVIOUS
<1>6. u.status = "confirmed" /\ u.item = x.item
  <2>1. CASE EvmSettled
    <3>1. Cur.status = "confirmed"
      BY <1>1, <2>1, Executed DEF EvmSettled, Executing
    <3> QED BY <1>3, <2>1, <3>1 DEF EvmSettled, Write
  <2>2. CASE SolDone
    <3>1. mem' = [mem EXCEPT !.act[b].status = "confirmed"]
      BY <2>2 DEF SolDone, Write
    <3>2. mem'.act = [mem.act EXCEPT ![b] = [x EXCEPT !.status = "confirmed"]]
      BY <1>3, <3>1, StatusOnly
    <3>3. u = [x EXCEPT !.status = "confirmed"]
      BY <1>3, <3>2
    <3> QED BY <1>3, <3>3 DEF ActionRec
  <2> QED BY <2>1, <2>2
<1>7. 0 \in Sent(u)
  BY <1>3, <1>5, <1>6 DEF Sent
<1>8. Cur' = u
  BY <1>4 DEF Cur
<1>9. KeyAtHand'
  BY <1>4, <1>6, <1>7, <1>8, AtKey
<1> QED BY <1>1, <1>2, <1>9, ExecutionKept

(*------------------------- the loop and the way to a call -------------------------*)
LEMMA RestKeys ==
  ASSUME KInv, \/ Restarted \/ GiveUp \/ Asleep \/ GetComplete \/ GetUnsupported \/ GetShort
               \/ Start \/ Crash
  PROVE  KeysOK' /\ LogOK' /\ KeyAtHand'
<1>1. LInv
  BY DEF KInv
<1>2. Unmoved /\ KeysStay
  BY <1>1, LoopStays, CompleteStays, StartStays
<1>3. srv' = srv
  BY DEF Restarted, GiveUp, Asleep, GetComplete, GetUnsupported, GetShort, Looking, Quiet, Start,
         Crash, world
<1>4. pc' \in RestPcs
  BY DEF Restarted, GiveUp, Asleep, GetComplete, GetUnsupported, GetShort, Start, Crash, Stop,
         Again, SleepUntil, Goto, RestPcs
<1> QED BY <1>2, <1>3, <1>4, LoopKept

LEMMA ReleaseKeys == KInv /\ ReleaseOne => KeysOK' /\ LogOK' /\ KeyAtHand'
<1> SUFFICES ASSUME KInv, ReleaseOne PROVE KeysOK' /\ LogOK' /\ KeyAtHand'
  OBVIOUS
<1>1. LInv /\ Unmoved /\ KeysStay /\ srv' = srv
  BY ReleaseStays DEF KInv, ReleaseOne, Quiet
<1>2. pc' \in RestPcs \/ (pc = "settle" /\ pc' = pc /\ loc' = loc)
  BY DEF ReleaseOne, Stop, RestPcs
<1>3. CASE pc' \in RestPcs
  BY <1>1, <1>3, LoopKept
<1>4. CASE pc = "settle" /\ pc' = pc /\ loc' = loc
  <2>1. KeyAtHand'
    BY <1>1, <1>4, StillExecuting DEF ExecPcs, EvmPcs
  <2> QED BY <1>1, <2>1, LoopKept
<1> QED BY <1>2, <1>3, <1>4

LEMMA GetKeys ==
  KInv /\ (GetPending \/ GetInFlight \/ GetExpired) => KeysOK' /\ LogOK' /\ KeyAtHand'
<1> SUFFICES ASSUME KInv, GetPending \/ GetInFlight \/ GetExpired
             PROVE  KeysOK' /\ LogOK' /\ KeyAtHand'
  OBVIOUS
<1>1. Unmoved /\ KeysStay /\ srv' = srv
  BY LoopStays DEF GetPending, GetInFlight, GetExpired, Looking, Quiet
<1> PICK op, a : ToKey(op, a) /\ (op = "source" => Pending(mem.act[a], srv.step))
  BY DEF GetPending, GetInFlight, GetExpired
<1>2. pc' = "key" /\ mem' = mem /\ loc'.op = op /\ loc'.a = a
  BY DEF ToKey, Keep, NoLocals
<1>3. Cur' = mem.act[a]
  BY <1>2 DEF Cur
<1>4. KeyAtHand'
  BY <1>2, <1>3, AtKey DEF Pending
<1> QED BY <1>1, <1>4, LoopKept

\* No call has told of the action that the runner is about to execute.
LEMMA NotToldYet ==
  ASSUME KInv, mem = disk, NonePending, srv.phase \notin Shown,
         NEW b \in Actions, b = srv.a \/ b > srv.last, NEW c \in srv.log, c.op = "source"
  PROVE  c.a # b
<1> SUFFICES ASSUME c.a = b PROVE FALSE
  OBVIOUS
<1> PICK x : x = mem.act[b]
  OBVIOUS
<1>1. LInv /\ LogOK /\ Recorded(b, x) /\ srv.last \in Nat
  BY SessionTyped DEF KInv, LInv, RecordsOK, IInv
<1>2. SentAs(c, x)
  BY <1>1 DEF LogOK, Told
<1>3. x.status # "absent" /\ x.status \in {"submitted", "confirmed", "observed"} /\ Sent(x) # {}
  BY <1>2 DEF SentAs
<1>4. b <= srv.last /\ b \in Nat
  BY <1>1, <1>3 DEF Recorded, Actions
<1>5. x.step = srv.step
  BY <1>1, <1>3, <1>4 DEF Recorded
<1>6. x.status \notin {"confirmed", "observed"}
  BY <1>1, <1>5, NoneTold DEF Untold
<1> QED BY <1>3, <1>5, <1>6 DEF NonePending, Pending

LEMMA ExecutingKeys ==
  ASSUME pc' \in {"evm", "sol"}, \A c \in srv'.log : c.op = "source" => c.a # loc'.a
  PROVE  KeyAtHand'
BY DEF KeyAtHand

LEMMA ReadyKeys == KInv /\ GetReady => KeysOK' /\ LogOK' /\ KeyAtHand'
<1> SUFFICES ASSUME KInv, GetReady PROVE KeysOK' /\ LogOK' /\ KeyAtHand'
  OBVIOUS
<1>1. Unmoved /\ KeysStay /\ srv' = srv
  BY LoopStays DEF GetReady, Looking, Quiet
<1>2. /\ mem = disk /\ NonePending /\ srv.phase = "ready" /\ srv.phase \notin Shown
      /\ srv.a \in Actions
  BY DEF KInv, LInv, SyncPcs, IInv, WorldOK, GetReady, Looking, Shown
<1>3. pc' \in {"evm", "sol"} /\ loc'.a = srv.a
  BY DEF GetReady, Execute, NoLocals
<1> PICK b : b = srv.a
  OBVIOUS
<1>4. \A c \in srv.log : c.op = "source" => c.a # b
  BY <1>2, NotToldYet
<1> QED BY <1>1, <1>3, <1>4, ExecutingKeys, LoopKept

LEMMA RefreshingKeys ==
  ASSUME pc' = "refresh", 0 < loc'.key, loc'.key <= mem'.ctr,
         \A c \in srv'.log : c.op = "refresh" => c.key # loc'.key
  PROVE  KeyAtHand'
BY DEF KeyAtHand, ExecPcs, EvmPcs, SolPcs

\* The counter is saved before the key is used; what it counted names nothing else.
LEMMA OperationKeys == KInv /\ NextOperation => KeysOK' /\ LogOK' /\ KeyAtHand'
<1> SUFFICES ASSUME KInv, NextOperation PROVE KeysOK' /\ LogOK' /\ KeyAtHand'
  OBVIOUS
<1>1. /\ LInv /\ KeysOK /\ LogOK /\ KeyAtHand /\ pc = "key" /\ srv' = srv /\ loc \in Local
      /\ loc.op = "source" => loc.a \in Actions /\ Cur.status \in {"submitted", "confirmed"}
                                /\ Sent(Cur) # {}
      /\ loc.step \in Steps
  BY DEF KInv, KeyAtHand, NextOperation, Quiet, LInv, IInv, Fits, Local
<1>2. /\ mem \in State /\ disk \in State /\ mem.ctr \in Nat /\ mem.srcKey \in [Actions -> Nat]
      /\ mem.outKey \in [Steps -> Nat] /\ \A c \in srv.log : c.key \in Nat
  BY <1>1, KeysTyped
<1>3. Unmoved
  BY <1>1, OperationStays
<1>4. CASE Stop(disk)
  <2>1. KeysStay /\ pc' \in RestPcs
    BY <1>4, Unwritten DEF Stop, RestPcs
  <2> QED BY <1>1, <1>3, <2>1, LoopKept
<1>5. CASE KnownKey # 0 /\ Keep /\ pc' = "store" /\ loc' = [loc EXCEPT !.key = KnownKey]
  <2>1. KeysStay /\ mem' = mem
    BY <1>5, Unwritten DEF Keep
  <2> PICK k, l : k = KnownKey /\ l = loc'
    OBVIOUS
  <2>2. /\ l.op = loc.op /\ l.a = loc.a /\ l.step = loc.step /\ l.key = k /\ l.op # "refresh"
        /\ l.op = "source" => k = mem.srcKey[l.a]
        /\ l.op = "output" => k = mem.outKey[l.step]
    BY <1>1, <1>5 DEF KnownKey, Local
  <2>3. k # 0 /\ k \in Nat /\ k <= mem.ctr /\ (l.op = "source" => l.a \in Actions)
        /\ l.step \in Steps
    <3>1. loc.op \in {"source", "output", "refresh"}
      BY <1>1 DEF Local
    <3> QED BY <1>1, <1>2, <1>5, <2>2, <3>1 DEF KeysOK
  <2>4. l.op = "source" => \A b \in Actions : b # l.a => mem.srcKey[b] # k
    BY <1>1, <2>2, <2>3 DEF KeysOK
  <2>5. Cur' = Cur /\ pc' = "store"
    BY <1>5, <2>1, <2>2 DEF Cur
  <2>6. l.op = "source" => Cur'.status \in {"submitted", "confirmed"} /\ Sent(Cur') # {}
    BY <1>1, <2>2, <2>5
  <2>7. KeyAtHand'
    BY <2>1, <2>2, <2>3, <2>4, <2>5, <2>6 DEF KeyAtHand, ExecPcs, EvmPcs, SolPcs, Sent
  <2> QED BY <1>1, <1>3, <2>1, <2>7, LoopKept
<1>6. CASE /\ KnownKey = 0 /\ Write(CountUp(mem))
           /\ pc' = IF loc.op = "refresh" THEN "refresh" ELSE "store"
           /\ loc' = [loc EXCEPT !.key = mem.ctr + 1]
  <2> PICK k, l, s : k = mem.ctr + 1 /\ l = loc' /\ s = CountUp(mem)
    OBVIOUS
  <2>1. /\ s.ctr = k /\ s.srcKey = mem.srcKey /\ s.outKey = mem.outKey /\ s.act = mem.act
        /\ mem' = s /\ disk' = s /\ k \in Nat /\ k # 0 /\ mem.ctr < k
    BY <1>2, <1>6 DEF CountUp, State, Write
  <2>2. KeysOK'
    <3>1. \A a \in Actions : mem.srcKey[a] <= k
      BY <1>1, <1>2, <2>1 DEF KeysOK
    <3>2. \A t \in Steps : mem.outKey[t] <= k
      BY <1>1, <1>2, <2>1 DEF KeysOK
    <3> QED BY <1>1, <2>1, <3>1, <3>2 DEF KeysOK
  <2>3. ASSUME NEW c \in srv.log PROVE Told(c)'
    <3>1. Told(c)
      BY <1>1 DEF LogOK
    <3>2. c.op = "source" => SentAs(c, mem.act[c.a])' /\ SentAs(c, disk.act[c.a])'
      BY <1>3, <3>1, StillSent DEF Told, SentKept
    <3>3. 0 < c.key /\ c.key <= k
      BY <1>2, <2>1, <3>1 DEF Told
    <3> QED BY <2>1, <3>1, <3>2, <3>3 DEF Told
  <2>4. LogOK'
    BY <1>1, <2>3 DEF LogOK
  <2>5. l.op = loc.op /\ l.a = loc.a /\ l.step = loc.step /\ l.key = k
    BY <1>1, <1>6 DEF Local
  <2>6. l.op = "source" => mem.srcKey[l.a] = 0 /\ l.a \in Actions
    BY <1>1, <1>6, <2>5 DEF KnownKey
  <2>7. l.op = "output" => mem.outKey[l.step] = 0
    BY <1>6, <2>5 DEF KnownKey
  <2>8. \A b \in Actions : mem.srcKey[b] # k
    BY <1>1, <1>2, <2>1 DEF KeysOK
  <2>9. \A c \in srv.log : c.key # k
    BY <1>1, <1>2, <2>1 DEF LogOK, Told
  <2>10. /\ pc' \in {"store", "refresh"}
         /\ pc' = "store" => l.op # "refresh"
         /\ Cur' = Cur
    BY <1>6, <2>1, <2>5 DEF Cur
  <2>11. l.op = "source" => Cur'.status \in {"submitted", "confirmed"} /\ Sent(Cur') # {}
    BY <1>1, <2>5, <2>10
  <2>12. pc' = "refresh" => l.op = "refresh"
    BY <1>6, <2>5
  <2>13. KeyAtHand'
    <3>1. /\ loc'.key = k /\ mem'.ctr = k /\ mem'.srcKey = mem.srcKey /\ mem'.outKey = mem.outKey
          /\ loc'.op = l.op /\ loc'.a = l.a /\ loc'.step = l.step /\ srv'.log = srv.log
          /\ 0 < k /\ k <= k
      BY <1>1, <2>1, <2>5
    <3>2. CASE pc' = "store"
      BY <2>6, <2>7, <2>8, <2>10, <2>11, <3>1, <3>2 DEF KeyAtHand, ExecPcs, EvmPcs, SolPcs, Sent
    <3>3. CASE pc' = "refresh"
      <4>1. \A c \in srv'.log : c.op = "refresh" => c.key # loc'.key
        BY <2>9, <3>1
      <4>2. 0 < loc'.key /\ loc'.key <= mem'.ctr
        BY <3>1
      <4> QED BY <3>3, <4>1, <4>2, RefreshingKeys
    <3> QED BY <2>10, <3>2, <3>3
  <2> QED BY <2>2, <2>4, <2>13
<1> QED BY <1>4, <1>5, <1>6 DEF NextOperation

\* The key is saved before the call; a key that was told is the one that is stored.
LEMMA StoreKeys == KInv /\ StoreKey => KeysOK' /\ LogOK' /\ KeyAtHand'
<1> SUFFICES ASSUME KInv, StoreKey PROVE KeysOK' /\ LogOK' /\ KeyAtHand'
  OBVIOUS
<1>1. /\ LInv /\ KeysOK /\ LogOK /\ KeyAtHand /\ pc = "store" /\ srv' = srv /\ loc \in Local
      /\ pc' = loc.op /\ loc' = loc /\ loc.op \in {"source", "output"} /\ loc.key \in Nat
      /\ 0 < loc.key /\ loc.key <= mem.ctr /\ loc.step \in Steps
      /\ loc.op = "source" => loc.a \in Actions /\ Cur.status \in {"submitted", "confirmed"}
                                /\ Sent(Cur) # {}
  BY DEF KInv, KeyAtHand, StoreKey, Quiet, Goto, LInv, IInv, Fits, Local
<1>2. /\ mem \in State /\ disk \in State /\ mem.ctr \in Nat /\ mem.srcKey \in [Actions -> Nat]
      /\ mem.outKey \in [Steps -> Nat] /\ \A c \in srv.log : c.key \in Nat /\ c.step \in Steps
  BY <1>1, KeysTyped
<1>3. Unmoved
  BY <1>1, OperationStays
<1> PICK k, b, t : k = loc.key /\ b = loc.a /\ t = loc.step
  OBVIOUS
<1>4. ASSUME NEW c \in srv.log
      PROVE  c.op = "source" => SentAs(c, mem.act[c.a])' /\ SentAs(c, disk.act[c.a])'
  BY <1>1, <1>3, StillSent DEF LogOK, Told, SentKept
<1>5. CASE loc.op = "source"
  <2>1. /\ mem' = [mem EXCEPT !.srcKey[b] = k] /\ disk' = mem' /\ b \in Actions
        /\ mem.srcKey[b] \in {0, k} /\ \A a \in Actions : a # b => mem.srcKey[a] # k
    BY <1>1, <1>5 DEF StoreKey, Write, KeyAtHand
  <2>2. /\ mem'.ctr = mem.ctr /\ mem'.outKey = mem.outKey /\ mem'.act = mem.act
        /\ mem'.srcKey = [mem.srcKey EXCEPT ![b] = k]
    BY <1>2, <2>1 DEF State
  <2>3. \A a \in Actions : mem'.srcKey[a] = IF a = b THEN k ELSE mem.srcKey[a]
    BY <1>2, <2>1, <2>2
  <2>4. KeysOK'
    BY <1>1, <2>1, <2>2, <2>3 DEF KeysOK
  <2>5. ASSUME NEW c \in srv.log PROVE Told(c)'
    <3>1. Told(c)
      BY <1>1 DEF LogOK
    <3>2. c.op = "source" => c.key = mem'.srcKey[c.a]
      BY <1>2, <2>1, <2>3, <3>1 DEF Told
    <3> QED BY <1>4, <2>2, <3>1, <3>2 DEF Told
  <2>6. LogOK'
    BY <1>1, <2>5 DEF LogOK
  <2>7. Cur' = Cur
    BY <1>1, <2>2 DEF Cur
  <2>8. KeyAtHand'
    BY <1>1, <1>5, <2>1, <2>2, <2>3, <2>7 DEF KeyAtHand, ExecPcs, EvmPcs, SolPcs, Sent
  <2> QED BY <2>4, <2>6, <2>8
<1>6. CASE loc.op = "output"
  <2>1. mem' = [mem EXCEPT !.outKey[t] = k] /\ disk' = mem' /\ mem.outKey[t] \in {0, k}
    BY <1>1, <1>6 DEF StoreKey, Write, KeyAtHand
  <2>2. /\ mem'.ctr = mem.ctr /\ mem'.srcKey = mem.srcKey /\ mem'.act = mem.act
        /\ mem'.outKey = [mem.outKey EXCEPT ![t] = k]
    BY <1>2, <2>1 DEF State
  <2>3. \A s \in Steps : mem'.outKey[s] = IF s = t THEN k ELSE mem.outKey[s]
    BY <1>1, <1>2, <2>2
  <2>4. KeysOK'
    BY <1>1, <2>1, <2>2, <2>3 DEF KeysOK
  <2>5. ASSUME NEW c \in srv.log PROVE Told(c)'
    <3>1. Told(c) /\ c.step \in Steps
      BY <1>1, <1>2 DEF LogOK
    <3>2. c.op = "output" => c.key = mem'.outKey[c.step]
      BY <1>2, <2>1, <2>3, <3>1 DEF Told
    <3> QED BY <1>4, <2>2, <3>1, <3>2 DEF Told
  <2>6. LogOK'
    BY <1>1, <2>5 DEF LogOK
  <2>7. KeyAtHand'
    BY <1>1, <1>6, <2>2, <2>3 DEF KeyAtHand, ExecPcs, EvmPcs, SolPcs
  <2> QED BY <2>4, <2>6, <2>7
<1> QED BY <1>1, <1>5, <1>6

(*------------------------------ the calls ------------------------------*)
\* What the session logs of a call that reaches it.
TheCall(a, n) == [key |-> loc.key, op |-> loc.op, step |-> loc.step, a |-> a, n |-> n]

LEMMA DeliveredLog ==
  ASSUME WorldOK, NEW a, NEW n, NEW r, r = Delivered(a, n)
  PROVE  r.log = srv.log \union {TheCall(a, n)}
BY SessionTyped DEF Delivered, Logged, Session, TheCall

LEMMA NextLog ==
  ASSUME WorldOK, srv.a <= srv.last, NEW a, NEW n, NEW q \in NextStep(Delivered(a, n))
  PROVE  q.log = srv.log \union {TheCall(a, n)}
<1> PICK r : r = Delivered(a, n)
  OBVIOUS
<1>1. r \in [phase : {"build", "ready", "flight", "halted", "complete"}, step : Steps,
             a : Actions \union {NoAct}, exp : Nat, last : Actions \union {NoAct},
             obs : Actions \union {NoAct}, enough : BOOLEAN, log : {r.log}]
  BY StepTyped
<1>2. q \in NextStep(r)
  OBVIOUS
<1>3. q.log = r.log
  <2>1. CASE r.step = NSteps - 1
    <3>1. PICK e \in BOOLEAN :
             q = [r EXCEPT !.phase = "complete", !.a = NoAct, !.enough = e]
      BY <1>2, <2>1 DEF NextStep
    <3> QED BY <1>1, <3>1
  <2>2. CASE r.step # NSteps - 1
    <3> PICK m : m = [r EXCEPT !.step = @ + 1, !.obs = NoAct]
      OBVIOUS
    <3>1. m = [phase |-> r.phase, step |-> r.step + 1, a |-> r.a, exp |-> r.exp,
               last |-> r.last, obs |-> NoAct, enough |-> r.enough, log |-> r.log]
      BY <1>1
    <3>2. \/ q = [m EXCEPT !.phase = "build", !.a = NoAct]
          \/ q = [m EXCEPT !.phase = "ready", !.a = r.last + 1, !.last = r.last + 1,
                           !.exp = now + Ttl]
      BY <1>2, <2>2 DEF NextStep
    <3> QED BY <3>1, <3>2
  <2> QED BY <2>1, <2>2
<1> QED BY <1>3, DeliveredLog

LEMMA SourceLog ==
  ASSUME WorldOK, srv.a <= srv.last, NEW q \in SourceEffect \union {srv}
  PROVE  q.log \in {srv.log, srv.log \union {TheCall(loc.a, Cardinality(Sent(Cur)))}}
<1> PICK n : n = Cardinality(Sent(Cur))
  OBVIOUS
<1> PICK r : r = Delivered(loc.a, n)
  OBVIOUS
<1>1. \/ q = srv \/ q = r
      \/ q = [r EXCEPT !.phase = "flight", !.obs = loc.a]
      \/ q \in NextStep(Delivered(loc.a, n))
  BY DEF SourceEffect
<1>2. r.log = srv.log \union {TheCall(loc.a, n)}
  BY DeliveredLog
<1>3. [r EXCEPT !.phase = "flight", !.obs = loc.a].log = r.log
  BY StepTyped
<1> QED BY <1>1, <1>2, <1>3, NextLog

LEMMA OutputLog ==
  ASSUME WorldOK, srv.a <= srv.last, NEW q \in OutputEffect \union {srv}
  PROVE  q.log \in {srv.log, srv.log \union {TheCall(NoAct, 0)}}
<1>1. q = srv \/ q = Delivered(NoAct, 0) \/ q \in NextStep(Delivered(NoAct, 0))
  BY DEF OutputEffect
<1> QED BY <1>1, DeliveredLog, NextLog

LEMMA RefreshedLog ==
  ASSUME WorldOK, srv.a <= srv.last, NEW a, NEW n, NEW q \in Refreshed(Delivered(a, n))
  PROVE  q.log = srv.log \union {TheCall(a, n)}
<1> PICK r : r = Delivered(a, n)
  OBVIOUS
<1>1. PICK b : q = [r EXCEPT !.phase = "ready", !.a = b, !.last = IF b > @ THEN b ELSE @,
                             !.exp = now + Ttl]
  BY DEF Refreshed
<1>2. r \in [phase : {"build", "ready", "flight", "halted", "complete"}, step : Steps,
             a : Actions \union {NoAct}, exp : Nat, last : Actions \union {NoAct},
             obs : Actions \union {NoAct}, enough : BOOLEAN, log : {r.log}]
  BY StepTyped
<1>3. q.log = r.log
  BY <1>1, <1>2
<1> QED BY <1>3, DeliveredLog

\* One more call in the log, of which the state tells.
LEMMA CallLogged ==
  ASSUME LogOK, \A c \in srv.log : Told(c)', NEW d, Told(d)',
         srv'.log \in {srv.log, srv.log \union {d}},
         d.op = "refresh" => \A c \in srv.log : c.op = "refresh" => c.key # d.key
  PROVE  LogOK'
BY DEF LogOK

LEMMA ObserveSourceKeys == KInv /\ ObserveSource => KeysOK' /\ LogOK' /\ KeyAtHand'
<1> SUFFICES ASSUME KInv, ObserveSource PROVE KeysOK' /\ LogOK' /\ KeyAtHand'
  OBVIOUS
<1>1. /\ LInv /\ KeysOK /\ LogOK /\ KeyAtHand /\ pc = "source" /\ WorldOK /\ srv.a <= srv.last
      /\ mem = disk /\ Calling /\ loc.op = "source"
  BY DEF KInv, ObserveSource, LInv, IInv, SyncPcs, CallPcs, Calling
<1>2. Quietly /\ KeysStay
  BY <1>1, SourceStays
<1>3. /\ mem \in State /\ mem.act \in [Actions -> ActionRec] /\ loc.a \in Actions
      /\ Cur = mem.act[loc.a] /\ Cur \in ActionRec
  BY <1>1, Typed DEF Sound
<1> PICK b, x, n : b = loc.a /\ x = Cur /\ n = Cardinality(Sent(Cur))
  OBVIOUS
<1> PICK d : d = TheCall(b, n)
  OBVIOUS
<1>4. SentAs(d, x)
  BY <1>1 DEF KeyAtHand, Calling, SentAs, TheCall
<1>5. srv'.log \in {srv.log, srv.log \union {d}} /\ pc' \in RestPcs
  <2>1. srv' \in SourceEffect \union {srv} /\ pc' \in RestPcs
    BY DEF ObserveSource, Again, SleepUntil, Stop, RestPcs
  <2> QED BY <1>1, <2>1, SourceLog
<1> PICK u : u = [x EXCEPT !.status = "observed"]
  OBVIOUS
<1>6. mem'.act[b] \in {x, u} /\ disk'.act[b] \in {x, u}
  <2>1. CASE Keep \/ Stop(disk)
    BY <1>1, <1>3, <2>1 DEF Keep, Stop
  <2>2. CASE Write([mem EXCEPT !.act[loc.a].status = "observed"])
    <3>1. mem' = [mem EXCEPT !.act[b].status = "observed"] /\ disk' = mem'
      BY <2>2 DEF Write
    <3>2. mem'.act[b] = u
      BY <1>3, <3>1 DEF State, ActionRec
    <3> QED BY <3>1, <3>2
  <2> QED BY <2>1, <2>2 DEF ObserveSource
<1>7. ASSUME NEW c, SentAs(c, x) PROVE SentAs(c, mem.act[b])' /\ SentAs(c, disk.act[b])'
  <2>1. u.status = "observed" /\ u.step = x.step /\ u.item = x.item
    BY <1>3 DEF ActionRec
  <2>2. SentAs(c, u)
    BY <1>7, <2>1 DEF SentAs, Sent
  <2> PICK v, w : v = mem'.act[b] /\ w = disk'.act[b]
    OBVIOUS
  <2>3. SentAs(c, v) /\ SentAs(c, w)
    BY <1>6, <1>7, <2>2
  <2> QED BY <2>3 DEF SentAs, Sent
<1>8. ASSUME NEW c \in srv.log PROVE Told(c)'
  <2>1. Told(c)
    BY <1>1 DEF LogOK
  <2>2. c.op = "source" => SentKept(c, c.a)
    <3>1. ASSUME c.op = "source", c.a = b PROVE SentKept(c, c.a)
      BY <1>3, <1>7, <3>1 DEF SentKept
    <3>2. ASSUME c.op = "source", c.a # b PROVE SentKept(c, c.a)
      BY <1>2, <2>1, <3>2, StillSent DEF Told
    <3> QED BY <3>1, <3>2
  <2> QED BY <1>2, <2>1, <2>2, ToldKept
<1>9. Told(d)'
  <2>1. SameKeys(mem')
    BY <1>2, KeysCarried
  <2>2. /\ d.key = loc.key /\ d.a = b /\ d.op = "source" /\ 0 < loc.key /\ loc.key <= mem.ctr
        /\ loc.key = mem.srcKey[b]
    BY <1>1 DEF KeyAtHand, TheCall
  <2>3. SentAs(d, mem.act[d.a])' /\ SentAs(d, disk.act[d.a])'
    BY <1>4, <1>7, <2>2
  <2> QED BY <1>3, <2>1, <2>2, <2>3 DEF Told, SameKeys
<1>10. d.op = "source"
  BY <1>1 DEF TheCall
<1>11. LogOK'
  BY <1>1, <1>5, <1>8, <1>9, <1>10, CallLogged
<1> QED BY <1>2, <1>5, <1>11, KeysCarried, AtRest

LEMMA ObserveOutputKeys == KInv /\ ObserveOutput => KeysOK' /\ LogOK' /\ KeyAtHand'
<1> SUFFICES ASSUME KInv, ObserveOutput PROVE KeysOK' /\ LogOK' /\ KeyAtHand'
  OBVIOUS
<1>1. /\ LInv /\ KeysOK /\ LogOK /\ KeyAtHand /\ pc = "output" /\ WorldOK /\ srv.a <= srv.last
      /\ Calling /\ loc.op = "output"
  BY DEF KInv, ObserveOutput, LInv, IInv, CallPcs, Calling
<1>2. Unmoved /\ KeysStay
  BY LoopStays
<1> PICK d : d = TheCall(NoAct, 0)
  OBVIOUS
<1>3. srv'.log \in {srv.log, srv.log \union {d}} /\ pc' \in RestPcs
  <2>1. srv' \in OutputEffect \union {srv} /\ pc' \in RestPcs
    BY DEF ObserveOutput, Again, SleepUntil, Stop, RestPcs
  <2> QED BY <1>1, <2>1, OutputLog
<1>4. ASSUME NEW c \in srv.log PROVE Told(c)'
  BY <1>1, <1>2, StillSent, ToldKept DEF LogOK, Told
<1>5. Told(d)'
  <2>1. SameKeys(mem')
    BY <1>2, KeysCarried
  <2>2. /\ d.key = loc.key /\ d.a = NoAct /\ d.n = 0 /\ d.op = "output" /\ d.step = loc.step
        /\ 0 < loc.key /\ loc.key <= mem.ctr /\ loc.key = mem.outKey[loc.step]
    BY <1>1 DEF KeyAtHand, TheCall
  <2> QED BY <2>1, <2>2 DEF Told, SameKeys
<1>6. d.op = "output"
  BY <1>1 DEF TheCall
<1>7. LogOK'
  BY <1>1, <1>3, <1>4, <1>5, <1>6, CallLogged
<1> QED BY <1>2, <1>3, <1>7, KeysCarried, AtRest

LEMMA RefreshKeys == KInv /\ Refresh => KeysOK' /\ LogOK' /\ KeyAtHand'
<1> SUFFICES ASSUME KInv, Refresh PROVE KeysOK' /\ LogOK' /\ KeyAtHand'
  OBVIOUS
<1>1. /\ LInv /\ KeysOK /\ LogOK /\ KeyAtHand /\ pc = "refresh" /\ WorldOK /\ WorldOK'
      /\ srv.a <= srv.last /\ mem = disk /\ Calling /\ loc.op = "refresh" /\ NonePending
  <2>1. LInv /\ pc = "refresh"
    BY DEF KInv, Refresh
  <2>2. IInv'
    BY <2>1, NextSafe DEF LInv, Next, RunnerStep
  <2> QED BY <2>1, <2>2 DEF KInv, LInv, IInv, SyncPcs, CallPcs, Calling
<1>2. Unmoved /\ KeysStay
  BY LoopStays
<1> PICK r, d : r = Delivered(srv.a, srv.exp) /\ d = TheCall(srv.a, srv.exp)
  OBVIOUS
<1>3. srv'.log \in {srv.log, srv.log \union {d}}
  <2>1. r.log = srv.log \union {d}
    BY <1>1, DeliveredLog
  <2>2. \A q \in Refreshed(r) : q.log = srv.log \union {d}
    BY <1>1, RefreshedLog
  <2>3. [r EXCEPT !.phase = "build", !.a = NoAct].log = r.log
    BY <1>1, StepTyped
  <2> QED BY <2>1, <2>2, <2>3 DEF Refresh
<1>4. ASSUME NEW c \in srv.log PROVE Told(c)'
  BY <1>1, <1>2, StillSent, ToldKept DEF LogOK, Told
<1>5. /\ d.key = loc.key /\ d.op = "refresh" /\ 0 < loc.key /\ loc.key <= mem.ctr
      /\ \A c \in srv.log : c.op = "refresh" => c.key # loc.key
  BY <1>1 DEF KeyAtHand, TheCall
<1>6. Told(d)'
  <2>1. SameKeys(mem')
    BY <1>2, KeysCarried
  <2> QED BY <1>5, <2>1 DEF Told, SameKeys
<1>7. LogOK'
  BY <1>1, <1>3, <1>4, <1>5, <1>6, CallLogged
<1>8. pc' \in RestPcs \/ (Refreshable /\ srv' \in Refreshed(r) /\ Execute(srv'))
  BY DEF Refresh, Again, Stop, RestPcs
<1>9. CASE Refreshable /\ srv' \in Refreshed(r) /\ Execute(srv')
  <2>1. Follows(srv') /\ srv'.phase = "ready"
    BY <1>1, <1>9, RefreshedFollows
  <2>2. srv'.a \in Actions /\ (srv'.a = srv.a \/ srv'.a > srv.last) /\ srv.phase \notin Shown
    BY <1>1, <1>9, <2>1, SessionTyped DEF WorldOK, Follows, Refreshable, Shown, Actions
  <2> PICK b : b = srv'.a
    OBVIOUS
  <2>3. \A c \in srv.log : c.op = "source" => c.a # b
    BY <1>1, <2>2, NotToldYet
  <2>4. pc' \in {"evm", "sol"} /\ loc'.a = b
    BY <1>9 DEF Execute, NoLocals
  <2>5. \A c \in srv'.log : c.op = "source" => c.a # loc'.a
    BY <1>3, <1>5, <2>3, <2>4
  <2>6. KeyAtHand'
    BY <2>4, <2>5, ExecutingKeys
  <2> QED BY <1>2, <1>7, <2>6, KeysCarried
<1> QED BY <1>2, <1>7, <1>8, <1>9, KeysCarried, AtRest

\* The world moves, or nothing does: the process and the session's log are as they were.
LEMMA WorldKeys ==
  ASSUME KInv, UNCHANGED process, srv'.log = srv.log
  PROVE  KeysOK' /\ LogOK' /\ KeyAtHand'
<1>1. mem' = mem /\ disk' = disk /\ pc' = pc /\ loc' = loc
  BY DEF process
<1>2. Unmoved /\ KeysStay
  BY <1>1, Unwritten
<1>3. KeyAtHand
  BY DEF KInv
<1>4. KeyAtHand'
  BY <1>1, <1>3 DEF KeyAtHand, Cur
<1> QED BY <1>2, <1>4, LoopKept

LEMMA EnvironmentKeys ==
  KInv /\ (Time \/ Mining \/ Halting \/ UNCHANGED vars) => KeysOK' /\ LogOK' /\ KeyAtHand'
<1> SUFFICES ASSUME KInv, Time \/ Mining \/ Halting \/ UNCHANGED vars
             PROVE  KeysOK' /\ LogOK' /\ KeyAtHand'
  OBVIOUS
<1>1. UNCHANGED process
  BY DEF Time, Mining, Halting, vars, process
<1>2. srv \in Session
  BY SessionTyped DEF KInv, LInv, IInv
<1>3. srv'.log = srv.log
  BY <1>2 DEF Time, Tick, Mining, Mine, Halting, Halt, vars, Session
<1> QED BY <1>1, <1>3, WorldKeys

LEMMA NextKeys == KInv /\ LInv' /\ [Next]_vars => KInv'
<1> SUFFICES ASSUME KInv, LInv', [Next]_vars PROVE KeysOK' /\ LogOK' /\ KeyAtHand'
  BY DEF KInv
<1>1. CASE \/ EvmReserve \/ EvmRow \/ EvmPrepare \/ EvmSubmit \/ EvmRecord \/ EvmConfirm
           \/ EvmSettled \/ EvmCatch \/ RevokePrepare \/ RevokeSubmit \/ RevokeConfirm
           \/ SolBegin \/ SolPrepare \/ SolSubmit \/ SolRecord \/ SolConfirm \/ SolDone
  BY <1>1, ExecutionKeys, RevokeConfirmKeys, SettledKeys
<1>2. CASE \/ ReleaseOne \/ Restarted \/ GiveUp \/ Asleep \/ GetComplete \/ GetPending
           \/ GetInFlight \/ GetUnsupported \/ GetShort \/ GetExpired \/ GetReady
           \/ Start \/ Crash
  BY <1>2, RestKeys, ReleaseKeys, GetKeys, ReadyKeys
<1>3. CASE NextOperation \/ StoreKey \/ ObserveSource \/ ObserveOutput \/ Refresh
  BY <1>3, OperationKeys, StoreKeys, ObserveSourceKeys, ObserveOutputKeys, RefreshKeys
<1> QED BY <1>1, <1>2, <1>3, EnvironmentKeys DEF Next, RunnerStep

LEMMA InitKeys == Init => KeysOK /\ LogOK /\ KeyAtHand
<1> SUFFICES ASSUME Init PROVE KeysOK /\ LogOK /\ KeyAtHand
  OBVIOUS
<1>1. mem = InitialState /\ disk = InitialState /\ pc = "idle" /\ srv.log = {}
  BY DEF Init, WorldInit
<1>2. /\ mem.ctr = 0 /\ \A a \in Actions : mem.srcKey[a] = 0
      /\ \A s \in Steps : mem.outKey[s] = 0
  BY <1>1 DEF InitialState
<1> QED BY <1>1, <1>2 DEF KeysOK, LogOK, KeyAtHand, ExecPcs, EvmPcs, SolPcs

\* Two calls with one key, or of one source or one output, are one call.
LEMMA OneCall == KInv => KeysNameOneMutation
<1> SUFFICES ASSUME KInv, NEW c \in srv.log, NEW d \in srv.log
             PROVE  /\ c.op = d.op /\ c.step = d.step /\ c.key = d.key => c = d
                    /\ c.op = "source" /\ d.op = "source" /\ c.a = d.a => c = d
                    /\ c.op = "output" /\ d.op = "output" /\ c.step = d.step => c = d
  BY DEF KeysNameOneMutation
<1>1. Told(c) /\ Told(d) /\ KeysOK /\ LogOK
  BY DEF KInv, LogOK
<1>2. c \in Call /\ d \in Call
  BY KeysTyped DEF KInv
<1>3. ASSUME c.op = d.op, c.step = d.step, c.key = d.key, c.a = d.a, c.n = d.n PROVE c = d
  BY <1>2, <1>3 DEF Call
<1>4. ASSUME c.op = "source", d.op = "source", c.a = d.a PROVE c = d
  <2>1. c.key = d.key /\ c.step = d.step /\ c.n = d.n
    BY <1>1, <1>4 DEF Told, SentAs
  <2> QED BY <1>3, <1>4, <2>1
<1>5. ASSUME c.op = "source", d.op = "source", c.key = d.key PROVE c.a = d.a
  BY <1>1, <1>2, <1>5 DEF Told, KeysOK, Call
<1>6. ASSUME c.op = "output", d.op = "output", c.step = d.step PROVE c = d
  <2>1. c.key = d.key /\ c.a = d.a /\ c.n = d.n
    BY <1>1, <1>6 DEF Told
  <2> QED BY <1>3, <1>6, <2>1
<1>7. c.op = "refresh" /\ d.op = "refresh" /\ c.key = d.key => c = d
  BY <1>1 DEF LogOK
<1>8. c.op \in {"source", "output", "refresh"}
  BY <1>2 DEF Call
<1> QED BY <1>4, <1>5, <1>6, <1>7, <1>8

\* In the session's log one idempotency key of one operation names one call, and a source
\* or an output is told with one key and one content only, over retries and restarts.
THEOREM OneKeyOneMutation == Spec => []KeysNameOneMutation
<1>1. Init => KInv
  BY InitLands, InitKeys DEF KInv
<1>2. KInv /\ [Next]_vars => KInv'
  <2>1. KInv => LInv /\ IInv
    BY DEF KInv, LInv
  <2> QED BY <2>1, NextSafe, NextLands, NextKeys
<1> QED BY <1>1, <1>2, OneCall, PTL DEF Spec
=============================================================================
