------------------------ MODULE TokenPool_refinement ------------------------
(* TokenPool implements RunLease, and who may replace a session in use.    *)
EXTENDS TokenPool_proofs

\* The run lent to the owner, as RunLease sees it.
Lent == IF reqMu = Nobody THEN NoRun ELSE lease[reqMu]

\* A leased run is open upstream, and so is a run that somebody finishes unless
\* it is finished already; no process claims a leased run.
LEMMA RunsInUse ==
  ASSUME TypeInv, LockInv, RunInv
  PROVE  /\ \A q \in Req : lease[q] # NoRun =>
              /\ lease[q] \in RunIds
              /\ upRun[lease[q]] \in {"running", "gone"}
         /\ \A p \in Proc : pc[p] \in Claiming =>
              /\ fin[p] \in RunIds
              /\ upRun[fin[p]] # "unused"
              /\ \A q \in Req : lease[q] # fin[p]
         /\ \A a \in Agents : runs[a] # NoRun =>
              /\ runs[a] \in RunIds
              /\ upRun[runs[a]] \in {"running", "gone"}
<1> USE DEF TypeInv, LockInv, RunInv, TypeOK
<1>1. ASSUME NEW q \in Req, lease[q] # NoRun
      PROVE  lease[q] \in RunIds /\ inflight[lease[q]] = 1
  BY <1>1 DEF LeaseAccounting
<1>2. ASSUME NEW q \in Req, lease[q] # NoRun
      PROVE  upRun[lease[q]] \in {"running", "gone"}
  BY <1>1, <1>2 DEF Retired, Fresh, Unheard
<1>3. ASSUME NEW p \in Proc, pc[p] \in Claiming
      PROVE  fin[p] \in RunIds /\ upRun[fin[p]] # "unused" /\ inflight[fin[p]] = 0
  BY <1>3 DEF Claims, Fresh, Unheard, Retired
<1>4. ASSUME NEW p \in Proc, pc[p] \in Claiming, NEW q \in Req
      PROVE  lease[q] # fin[p]
  BY <1>1, <1>3, <1>4, PoolAssumption
<1>5. ASSUME NEW a \in Agents, runs[a] # NoRun
      PROVE  runs[a] \in RunIds /\ upRun[runs[a]] \in {"running", "gone"}
  BY <1>5 DEF Retired, Fresh, Unheard, CurrentRuns
<1> QED
  BY <1>1, <1>2, <1>3, <1>4, <1>5

\* A step that moves neither the token nor a lease nor a run upstream does not
\* concern RunLease.
LEMMA Unconcerned ==
  ASSUME UNCHANGED <<reqMu, lease, upRun>>
  PROVE  UNCHANGED Lease!vars
  BY DEF Lease!vars, Life

\* Every step of the pool is a step of RunLease or leaves its state alone, also in a
\* pool that is being shut down, where NoRunLost does not hold.
LEMMA LeaseStep ==
  ASSUME TypeInv, LockInv, RunInv, [Next]_vars
  PROVE  [Lease!Next]_Lease!vars
<1> USE PoolAssumption DEF TypeInv, TypeOK, vars, lockVars, runVars,
   sessionVars, leaseVars, workVars, upRunVars
<1>0. /\ Lease!vars = <<reqMu, Lent, Life>>
      /\ Lease!vars' = <<reqMu', Lent', Life'>>
  BY DEF Lease!vars, Lent
<1>1. ASSUME NEW q \in Req, Lock(q) PROVE Lease!Take(q)
  <2>1. lease[q] = NoRun
    BY <1>1 DEF Lock, LockInv, LeaseAccounting
  <2> QED
    BY <1>1, <2>1 DEF Lock, TokenFree, Lease!Take, Life
<1>2. ASSUME NEW q \in Req, Grant(q)
      PROVE  Lease!Next \/ UNCHANGED Lease!vars
  <2>1. reqMu = q /\ lease[q] = NoRun
    BY <1>2 DEF Grant, LockInv, LeaseAccounting, OneRequestPerToken, Holding, PCs
  <2>2. CASE UNCHANGED lease
    BY <1>2, <2>2, Unconcerned DEF Grant
  <2>3. ASSUME NEW r \in RunIds, runs[agent[q]] = r, lease' = [lease EXCEPT ![q] = r]
        PROVE  Lease!Lend(r)
    <3>1. agent[q] \in Agents
      BY <1>2 DEF Grant, AgentKnown
    <3>2. upRun[r] \in {"running", "gone"}
      BY <2>3, <3>1, RunsInUse
    <3>3. Life[r] = "open" /\ Life' = Life
      BY <1>2, <3>2 DEF Grant, Life
    <3> QED
      BY <1>2, <2>1, <2>3, <3>3 DEF Grant, Lease!Lend, Proc
  <2> QED
    BY <1>2, <2>2, <2>3 DEF Grant, Lease!Next
<1>3. ASSUME NEW q \in Req, Release(q) PROVE Lease!Return
  <2>1. reqMu = q /\ lease[q] # NoRun
    BY <1>3 DEF Release, LockInv, LeaseAccounting, OneRequestPerToken, Holding, PCs
  <2> QED
    BY <1>3, <2>1 DEF Release, Lease!Return, Life, Proc
<1>4. ASSUME NEW q \in Req, Unlock(q) PROVE Lease!GiveBack
  <2>1. reqMu = q /\ lease[q] = NoRun
    BY <1>4 DEF Unlock, LockInv, LeaseAccounting, OneRequestPerToken, Holding, PCs
  <2> QED
    BY <1>4, <2>1 DEF Unlock, Lease!GiveBack, Life, Proc
<1>5. ASSUME NEW q \in Req, Chat(q) PROVE UNCHANGED Lease!vars
  <2>1. lease[q] # NoRun
    BY <1>5 DEF Chat, LockInv, LeaseAccounting
  <2>2. lease[q] \in RunIds /\ upRun[lease[q]] \in {"running", "gone"}
    BY <2>1, RunsInUse
  <2>3. upRun' = upRun \/ upRun' = [upRun EXCEPT ![lease[q]] = "gone"]
    BY <1>5 DEF Chat
  <2>4. Life' = Life
    BY <2>2, <2>3 DEF Life
  <2> QED
    BY <1>0, <1>5, <2>4 DEF Chat, Lent
<1>6. ASSUME NEW p \in Req \cup {Maint, Warm}, StartRun(p) PROVE Lease!Next
  <2>1. PICK r \in RunIds : /\ upRun[r] = "unused"
                            /\ upRun' = [upRun EXCEPT ![r] = "running"]
    BY <1>6 DEF StartRun
  <2>2. Life[r] = "new" /\ Life' = [Life EXCEPT ![r] = "open"]
    BY <2>1 DEF Life
  <2>3. Lease!Open(r)
    BY <1>6, <2>2 DEF StartRun, Lease!Open
  <2> QED
    BY <2>3 DEF Lease!Next
<1>7. ASSUME NEW p \in Proc, pc[p] \in Claiming,
             upRun' = [upRun EXCEPT ![fin[p]] = "finished"],
             UNCHANGED <<reqMu, lease>>
      PROVE  Lease!Next \/ UNCHANGED Lease!vars
  <2>1. /\ fin[p] \in RunIds
        /\ upRun[fin[p]] # "unused"
        /\ \A q \in Req : lease[q] # fin[p]
    BY <1>7, RunsInUse
  <2>2. CASE upRun[fin[p]] = "finished"
    <3>1. Life' = Life
      BY <1>7, <2>1, <2>2 DEF Life
    <3> QED
      BY <1>0, <1>7, <3>1 DEF Lent
  <2>3. CASE upRun[fin[p]] # "finished"
    <3>1. Life[fin[p]] = "open" /\ Life' = [Life EXCEPT ![fin[p]] = "closed"]
      BY <1>7, <2>1, <2>3 DEF Life
    <3>2. Lease!Close(fin[p])
      BY <1>7, <2>1, <3>1 DEF Lease!Close
    <3> QED
      BY <2>1, <3>2 DEF Lease!Next
  <2> QED
    BY <2>2, <2>3
<1>8. ASSUME NEW p \in Proc, NEW r \in RunIds, FinishAcked(p, r)
      PROVE  Lease!Next \/ UNCHANGED Lease!vars
  BY <1>7, <1>8 DEF FinishAcked, Claiming
<1>9. ASSUME NEW p \in Proc, FinishFails(p)
      PROVE  Lease!Next \/ UNCHANGED Lease!vars
  BY <1>7, <1>9, Unconcerned DEF FinishFails, Claiming
<1>10. ASSUME NEW q \in Req,
              \/ Arrive(q) \/ Recheck(q) \/ ReadInstance(q) \/ Cooldown(q)
              \/ InvalidateSession(q) \/ InvalidateRun(q)
       PROVE  UNCHANGED Lease!vars
  BY <1>10, Unconcerned DEF Arrive, Recheck, ReadInstance, Cooldown,
     InvalidateSession, InvalidateRun
<1>11. ASSUME NEW p \in Proc, SessionStep(p) PROVE UNCHANGED Lease!vars
  BY <1>11, Unconcerned DEF SessionStep, SessionProgress, EnsureSession, EnsureCancelled,
     DeleteSession, CreateSession, PollSession, SessionWithoutInstance,
     ClearRuns, StoreSession
<1>12. ASSUME NEW p \in Proc,
              \/ RotateCheck(p) \/ StartRunFails(p) \/ InstallRun(p)
              \/ FinishCheck(p) \/ FinishDone(p) \/ FinishUndo(p) \/ LoopStep(p)
       PROVE  UNCHANGED Lease!vars
  BY <1>12, Unconcerned DEF RotateCheck, StartRunFails, InstallRun, FinishCheck,
     FinishDone, FinishUndo, LoopStep, NextRotation, LoopDone
<1>13. ASSUME MaintainTick \/ NextDrained \/ Time PROVE UNCHANGED Lease!vars
  BY <1>13, Unconcerned DEF MaintainTick, NextDrained, Time, RunAges,
     SessionExpires, CooldownEnds
<1>14. CASE UNCHANGED vars
  BY <1>14, Unconcerned
<1> QED
  BY <1>1, <1>2, <1>3, <1>4, <1>5, <1>6, <1>8, <1>9, <1>10, <1>11, <1>12, <1>13,
     <1>14 DEF Next, RequestStep, RotateStep, FinishStep, Proc, Lease!Next

\* The pool implements RunLease: for any number of requests and runs, a run is
\* lent to one request at a time and closed once, when nobody has it.
THEOREM Refinement == Spec => ImplementsRunLease
<1>1. Init => Lease!Init
  BY DEF Init, Lease!Init, Life
<1>2. IInv /\ [Next]_vars => [Lease!Next]_Lease!vars
  BY LeaseStep DEF IInv
<1> QED
  BY <1>1, <1>2, Invariance, PTL DEF Spec, ImplementsRunLease, Lease!Spec
-----------------------------------------------------------------------------
\* One process at a time deletes, creates and stores the account's session.
THEOREM SwitchesExclude == Spec => []SwitchExclusive
<1>1. IInv => SwitchExclusive
  BY DEF IInv, LockInv
<1> QED
  BY <1>1, Invariance, PTL

\* run.inflight is the number of requests that lease the run.
THEOREM LeasesAreCounted == Spec => []LeaseAccounting
<1>1. IInv => LeaseAccounting
  BY DEF IInv, LockInv
<1> QED
  BY <1>1, Invariance, PTL

\* A run is current for one agent at most, and does not drain at the same time.
THEOREM RunsKeptApart == Spec => []RunsDisjoint
<1>1. IInv => RunsDisjoint
  BY DEF IInv, RunInv
<1> QED
  BY <1>1, Invariance, PTL

\* A step that replaces the session under a request is the prewarmer's.
LEMMA SessionReplaced ==
  ASSUME IInv, [Next]_vars, NEW q \in Req,
         pc[q] \in Using, pc'[q] \in Using, session' # session
  PROVE  switcher = Warm \/ session' = [session EXCEPT !.fresh = FALSE]
<1> USE DEF IInv, LockInv, OneRequestPerToken, Holding, Using, PCs
<1>1. reqMu = q
  OBVIOUS
<1>2. ASSUME NEW p \in Req \cup {Warm}, StoreSession(p) PROVE switcher = Warm
  <2>1. switcher = p
    BY <1>2 DEF StoreSession, SwitchExclusive, Switching, Proc
  <2>2. p \notin Req
    BY <1>1, <1>2 DEF StoreSession
  <2> QED
    BY <1>2, <2>1, <2>2
<1>3. ASSUME NEW o \in Req, InvalidateSession(o) PROVE FALSE
  BY <1>1, <1>3 DEF InvalidateSession
<1>4. CASE SessionExpires
  BY <1>4 DEF SessionExpires
<1> USE DEF vars, lockVars, runVars, sessionVars, leaseVars, workVars, upRunVars
<1>5. ASSUME NEW o \in Req,
             \/ Arrive(o) \/ Lock(o) \/ Recheck(o) \/ Grant(o) \/ ReadInstance(o)
             \/ Chat(o) \/ Cooldown(o) \/ InvalidateRun(o) \/ Release(o) \/ Unlock(o)
      PROVE  FALSE
  BY <1>5 DEF Arrive, Lock, Recheck, Grant, ReadInstance, Chat, Cooldown,
     InvalidateRun, Release, Unlock
<1>6. ASSUME NEW p \in Proc,
             \/ EnsureSession(p) \/ EnsureCancelled(p) \/ DeleteSession(p)
             \/ CreateSession(p) \/ PollSession(p) \/ SessionWithoutInstance(p)
             \/ ClearRuns(p)
      PROVE  FALSE
  BY <1>6 DEF EnsureSession, EnsureCancelled, DeleteSession, CreateSession,
     PollSession, SessionWithoutInstance, ClearRuns
<1>7. ASSUME NEW p \in Proc, RotateStep(p) \/ FinishStep(p) \/ LoopStep(p)
      PROVE  FALSE
  BY <1>7 DEF RotateStep, RotateCheck, StartRun, StartRunFails, InstallRun,
     FinishStep, FinishCheck, FinishAcked, FinishFails, FinishDone, FinishUndo,
     LoopStep, NextRotation, LoopDone
<1>8. CASE MaintainTick \/ NextDrained \/ RunAges \/ CooldownEnds
  BY <1>8 DEF MaintainTick, NextDrained, RunAges, CooldownEnds
<1>9. CASE UNCHANGED vars
  BY <1>9
<1> QED
  BY <1>2, <1>3, <1>4, <1>5, <1>6, <1>7, <1>8, <1>9
  DEF Next, RequestStep, SessionStep, SessionProgress, Time, Proc

\* While a request uses the session, only the prewarmer can replace it, however
\* many requests, sessions and failures there are.
THEOREM SessionsKept == Spec => OnlyPrewarmReplacesUsedSession
<1>1. IInv /\ [Next]_vars =>
        [\A q \in Req :
           pc[q] \in Using /\ pc'[q] \in Using /\ session' # session =>
             \/ switcher = Warm
             \/ session' = [session EXCEPT !.fresh = FALSE]]_vars
  BY SessionReplaced
<1> QED
  BY <1>1, Invariance, PTL DEF Spec, OnlyPrewarmReplacesUsedSession
=============================================================================
