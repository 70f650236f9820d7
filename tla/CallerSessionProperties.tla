---------------------- MODULE CallerSessionProperties ----------------------
(***************************************************************************)
(* What the command line tools promise the caller of a session.            *)
(***************************************************************************)
EXTENDS CallerSession

Saved(i) == sessions[i].saved

\* States the program can be in: the file and every process that drives a session
\* name one the service knows.
Contexts == [intent : {Intent}, wallets : WalletMaps,
             approval : ({approval} \ {None}) \union
               {ExactApproval(quote.continuation, m, k) :
                  m \in {"one_shot", "session"}, k \in 0 .. tokens}]
TypeOK ==
  /\ now \in 0 .. MaxTime /\ quote \in Quotes /\ tokens \in 0 .. MaxTokens
  /\ file # None => file.ctx \in Contexts /\ file.sid \in 0 .. Len(sessions)
  /\ \A p \in Procs : proc[p].pc # "idle" =>
       /\ proc[p].pc \in {"wait", "gone", "reply"}
       /\ proc[p].ctx \in Contexts /\ proc[p].sid \in 0 .. Len(sessions)
  /\ \A i \in DOMAIN sessions : sessions[i].stage \in {"ready", "sent", "done"}
                                /\ sessions[i].step \in 0 .. Steps - 1
  /\ \A h \in handoffs : h.sid \in 0 .. Len(sessions)

\* A session whose token went to a file can always be taken up again from that
\* file: after a crash, a lost answer or a second run it still holds the session's
\* token, key, wallets and approval, and names no other session (runPlan,
\* writeSessionToken, updateSessionCapability).
SavedIsRecoverable ==
  \A i \in DOMAIN sessions : Saved(i) =>
    /\ file # None /\ file.token = sessions[i].token
    /\ file.ctx.approval = sessions[i].approval /\ file.ctx.wallets = sessions[i].wallets
    /\ file.sid \in {0, i}

\* No action of a saved session reaches the wallet before its id is on record: the file
\* names the session by then, or the caller named it with --session-id and so holds the
\* id.  One that nobody can take up again never moved anything (runPlan binds the file
\* before it verifies the action).
BoundBeforeHandoff ==
  [][\A h \in handoffs' \ handoffs : h.sid # 0 /\ sessions'[h.sid].saved =>
       \/ file' # None /\ file'.sid = h.sid
       \/ \E p \in Procs : /\ proc[p].pc = "reply" /\ proc[p].named
                           /\ proc[p].sid = h.sid /\ proc'[p] # proc[p]]_vars

\* Whatever the service offers, the route takes no more from the caller and ends
\* with no less than the approval says (verifyApprovalBundleBounds at each step).
BoundsOf(sid) == IF sid = 0 THEN [maxIn |-> First(Summary).expIn, minOut |-> Final(Summary).minOut]
                 ELSE sessions[sid].approval
ApprovedBounds ==
  \A row \in chain :
    /\ row.step = 0 => row.spend <= BoundsOf(row.sid).maxIn
    /\ row.step = Steps - 1 => row.out >= BoundsOf(row.sid).minOut

\* A later step spends what the step before it really returned and nothing else the wallet
\* holds, as long as the service tells that output as it recorded it; one that misreports
\* it is believed, and only held to the step's least input (the continuity checks of
\* verifyPlanBundle and verifyApprovalBundleBounds compare numbers of one bundle).
NextSpendsOutput ==
  \A row \in chain : row.step > 0 =>
    /\ row.spend >= Summary[row.step + 1].minIn
    /\ \E before \in chain : /\ before.sid = row.sid /\ before.step = row.step - 1
                             /\ row.told => before.out = row.spend

\* A caller who approved the quote's own bounds is never stranded half way: an
\* action that returns the quoted minimum for what the step before returned is
\* accepted, however little that was (the summary's minimum chain).
HonestIsAccepted ==
  \A i \in DOMAIN sessions :
    LET s == sessions[i]
    IN  /\ s.stage = "ready" /\ ~ActionExpired(s)
        /\ s.approval.minOut = Final(Summary).minOut
        => Accepted(BundleOf(s),
                    [intent |-> Intent, wallets |-> s.wallets, approval |-> s.approval], Summary, now)

\* An action is handed to the wallet while it is live, and by wallet-ready with the
\* minimum still to run, however long its requests took (runSession reads the clock
\* after its last await).
FreshWhenHandedOff ==
  [][\A h \in handoffs' \ handoffs :
       /\ now < h.expires
       /\ \A p \in Procs : proc[p] # proc'[p] /\ proc[p].pc = "reply" /\ proc[p].ready
                             => h.expires - now >= ReadyMin]_vars
=============================================================================
