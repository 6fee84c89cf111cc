-------------------------- MODULE TokenPool_proofs --------------------------
(* Proofs of the safety invariants of TokenPool for every instance.        *)
EXTENDS TokenPool, TLAPS

\* The places each kind of process can be at.
Places ==
  /\ \A q \in Req : pc[q] \in PCs \ {"next", "done"}
  /\ pc[Maint] \in {"idle", "next", "rotate", "start", "install"} \cup
                   {"fcheck"} \cup Claiming
  /\ pc[Warm] \in {"idle", "ensure", "next", "rotate", "start", "install",
                   "done"} \cup Switching
  /\ \A r \in RunIds : pc[r] \in {"idle", "fcheck", "done"} \cup Claiming

\* A process that looks into p.runs knows its agent.
AgentKnown ==
  /\ \A q \in Req : pc[q] # "idle" => agent[q] \in Agents
  /\ \A p \in {Maint, Warm} :
       pc[p] \in {"rotate", "start", "install"} => agent[p] \in Agents

\* A request that is about to take p.reqMu has an attempt left.
AttemptLeft == \A q \in Req : pc[q] \in {"idle", "lock"} => attempt[q] < MaxAttempts

\* The claimed runs: finishing is set, by one process alone, and an
\* acknowledged run stays claimed.
Claims ==
  /\ \A p \in Proc : pc[p] \in {"fcheck"} \cup Claiming => fin[p] \in RunIds
  /\ \A p \in Proc : pc[p] \in Claiming => finishing[fin[p]]
  /\ \A p \in Proc : pc[p] = "fok" => upRun[fin[p]] = "finished"
  /\ \A r \in acked : finishing[r]

\* A run that is being finished or was finished is neither current nor leased.
Retired ==
  \A r \in RunIds : finishing[r] \/ upRun[r] = "finished" =>
    /\ r \notin CurrentRuns
    /\ inflight[r] = 0

\* A run nobody has heard of yet.
Unheard(r) ==
  /\ ~finishing[r]
  /\ inflight[r] = 0
  /\ r \notin CurrentRuns \cup draining \cup finishTodo
  /\ \A p \in Proc : fin[p] # r

\* A run StartRun returned is unheard of until it is installed, and no two
\* processes hold the same one.
Fresh ==
  /\ \A r \in RunIds : upRun[r] = "unused" =>
       Unheard(r) /\ \A p \in Proc : got[p] # r
  /\ \A p \in Proc : got[p] # NoRun =>
       /\ Unheard(got[p])
       /\ upRun[got[p]] = "running"
       /\ \A o \in Proc \ {p} : got[o] # got[p]
  /\ \A p \in Proc : pc[p] = "install" <=> got[p] # NoRun

\* A run that is taken out of p.runs by invalidate is gone upstream.
Dropped == \A q \in Req : pc[q] = "drop" => upRun[lease[q]] = "gone"

\* Types, places and what a place says of a process's own variables.
TypeInv == TypeOK /\ Places /\ AgentKnown /\ AttemptLeft

\* Who holds the token, the session switch and a lease.
LockInv ==
  OneRequestPerToken /\ SwitchExclusive /\ CooldownSeen /\ LeaseAccounting

\* What becomes of the runs.
RunInv ==
  /\ Claims /\ FinishExclusive /\ Retired /\ Fresh /\ Dropped
  /\ RunsDisjoint

\* The inductive invariant.
IInv == TypeInv /\ LockInv /\ RunInv /\ NoRunLost
-----------------------------------------------------------------------------
\* No step leaves the types or takes a process to a place it does not know.
LEMMA TypeStep ==
  ASSUME TypeInv, LockInv, [Next]_vars
  PROVE  TypeInv'
<1> USE PoolAssumption DEF TypeInv, TypeOK, Places, AgentKnown, AttemptLeft,
   Proc, PCs, Switching, Claiming, MaxAttempts, Goto, CurrentRuns, vars,
   lockVars, runVars, sessionVars, leaseVars, workVars, upRunVars
<1>1. ASSUME NEW q \in Req, Arrive(q) PROVE TypeInv'
  BY <1>1 DEF Arrive
<1>2. ASSUME NEW q \in Req, Lock(q) PROVE TypeInv'
  BY <1>2 DEF Lock, TokenFree
<1>3. ASSUME NEW q \in Req, Recheck(q) PROVE TypeInv'
  BY <1>3 DEF Recheck
<1>4. ASSUME NEW q \in Req, Grant(q) PROVE TypeInv'
  <2>1. inflight' \in [RunIds -> Nat] /\ lease' \in [Req -> RunIds \cup
     {NoRun}]
    BY <1>4 DEF Grant
  <2>2. pc' \in [Proc -> PCs]
    BY <1>4 DEF Grant
  <2>3. TypeOK'
    BY <2>1, <2>2, <1>4 DEF Grant
  <2>4. Places'
    BY <1>4 DEF Grant
  <2>5. AgentKnown' /\ AttemptLeft'
    BY <1>4 DEF Grant
  <2> QED
    BY <2>1, <2>2, <2>3, <2>4, <2>5
<1>5. ASSUME NEW q \in Req, ReadInstance(q) PROVE TypeInv'
  <2>1. session # NoSession => session.inst \in 0..MaxSess
    BY DEF Session
  <2>2. sent' \in [Req -> 0..MaxSess]
    BY <2>1, <1>5 DEF ReadInstance
  <2>3. TypeOK'
    BY <2>2, <1>5 DEF ReadInstance
  <2>4. Places' /\ AgentKnown' /\ AttemptLeft'
    BY <1>5 DEF ReadInstance
  <2> QED
    BY <2>1, <2>2, <2>3, <2>4
<1>6. ASSUME NEW q \in Req, Chat(q) PROVE TypeInv'
  <2>1. upRun' = upRun \/ upRun' = [upRun EXCEPT ![lease[q]] = "gone"]
    BY <1>6 DEF Chat
  <2>2. upRun' \in [RunIds -> {"unused", "running", "gone", "finished"}]
    BY <2>1
  <2>3. TypeOK'
    BY <2>2, <1>6 DEF Chat
  <2>4. Places'
    BY <1>6 DEF Chat
  <2>5. AgentKnown' /\ AttemptLeft'
    BY <1>6 DEF Chat
  <2> QED
    BY <2>1, <2>2, <2>3, <2>4, <2>5
<1>7. ASSUME NEW q \in Req, Cooldown(q) PROVE TypeInv'
  BY <1>7 DEF Cooldown
<1>8. ASSUME NEW q \in Req, InvalidateSession(q) PROVE TypeInv'
  BY <1>8 DEF InvalidateSession
<1>9. ASSUME NEW q \in Req, InvalidateRun(q) PROVE TypeInv'
  BY <1>9 DEF InvalidateRun
<1>10. ASSUME NEW q \in Req, Release(q) PROVE TypeInv'
  <2>1. lease[q] \in RunIds
    BY <1>10 DEF Release, LockInv, LeaseAccounting
  <2>2. (IF inflight[lease[q]] > 0 THEN inflight[lease[q]] - 1 ELSE 0) \in
     Nat
    BY <2>1
  <2>3. inflight' \in [RunIds -> Nat]
    BY <2>1, <2>2, <1>10 DEF Release
  <2>4. TypeOK'
    BY <2>3, <1>10 DEF Release
  <2>5. Places'
    BY <1>10 DEF Release
  <2>6. AgentKnown' /\ AttemptLeft'
    BY <1>10 DEF Release
  <2> QED
    BY <2>1, <2>2, <2>3, <2>4, <2>5, <2>6
<1>11. ASSUME NEW q \in Req, Unlock(q) PROVE TypeInv'
  <2>1. attempt' \in [Req -> 0..MaxAttempts]
    BY <1>11 DEF Unlock
  <2>2. model' \in [Proc -> Models]
    BY <1>11 DEF Unlock
  <2>3. agent' \in [Proc -> Agents \cup {NoAgent}]
    BY <1>11 DEF Unlock
  <2>4. pc' \in [Proc -> PCs]
    BY <1>11 DEF Unlock
  <2>5. TypeOK'
    BY <2>1, <2>2, <2>3, <2>4, <1>11 DEF Unlock
  <2>6. Places'
    BY SMTT(30), <1>11 DEF Unlock, Retries
  <2>7. AgentKnown' /\ AttemptLeft'
    BY <1>11 DEF Unlock, Retries
  <2> QED
    BY <2>1, <2>2, <2>3, <2>4, <2>5, <2>6, <2>7
<1>12. ASSUME NEW p \in Req \cup {Warm}, EnsureSession(p) PROVE TypeInv'
  <2>1. TypeOK'
    BY <1>12 DEF EnsureSession, MaySwitch, Ready, AfterEnsure
  <2>2. Places'
    BY SMTT(30), <1>12 DEF EnsureSession, MaySwitch, Ready, AfterEnsure
  <2>3. AgentKnown' /\ AttemptLeft'
    BY <1>12 DEF EnsureSession, MaySwitch, Ready, AfterEnsure
  <2> QED
    BY <2>1, <2>2, <2>3
<1>13. ASSUME NEW p \in Req \cup {Warm}, EnsureCancelled(p) PROVE TypeInv'
  BY <1>13 DEF EnsureCancelled, Ready, AfterEnsure
<1>14. ASSUME NEW p \in Req \cup {Warm}, DeleteSession(p) PROVE TypeInv'
  BY <1>14 DEF DeleteSession
<1>15. ASSUME NEW p \in Req \cup {Warm}, CreateSession(p) PROVE TypeInv'
  <2>1. Active(model[p], instances + 1) \in Session \/ instances \notin
     0..(MaxSess - 1)
    BY DEF Active, Session
  <2>2. TypeOK'
    BY <2>1, <1>15 DEF CreateSession
  <2>3. Places' /\ AgentKnown' /\ AttemptLeft'
    BY <1>15 DEF CreateSession
  <2> QED
    BY <2>1, <2>2, <2>3
<1>16. ASSUME NEW p \in Req \cup {Warm}, PollSession(p) PROVE TypeInv'
  BY <1>16 DEF PollSession
<1>17. ASSUME NEW p \in Req \cup {Warm}, SessionWithoutInstance(p)
       PROVE  TypeInv'
  <2>1. Disabled(model[p]) \in Session
    BY DEF Disabled, Session
  <2>2. made' \in [Proc -> Session \cup {NoSession}]
    BY <2>1, <1>17 DEF SessionWithoutInstance
  <2>3. TypeOK'
    BY <2>2, <1>17 DEF SessionWithoutInstance
  <2>4. Places' /\ AgentKnown' /\ AttemptLeft'
    BY <1>17 DEF SessionWithoutInstance
  <2> QED
    BY <2>1, <2>2, <2>3, <2>4
<1>18. ASSUME NEW p \in Req \cup {Warm}, ClearRuns(p) PROVE TypeInv'
  BY <1>18 DEF ClearRuns
<1>19. ASSUME NEW p \in Req \cup {Warm}, StoreSession(p) PROVE TypeInv'
  BY <1>19 DEF StoreSession, AfterEnsure
<1>20. ASSUME NEW p \in Req \cup {Maint, Warm}, RotateCheck(p) PROVE TypeInv'
  BY <1>20 DEF RotateCheck, AfterRotate
<1>21. ASSUME NEW p \in Req \cup {Maint, Warm}, StartRun(p) PROVE TypeInv'
  BY <1>21 DEF StartRun
<1>22. ASSUME NEW p \in Req \cup {Maint, Warm}, StartRunFails(p)
       PROVE  TypeInv'
  BY <1>22 DEF StartRunFails, AfterRotate
<1>23. ASSUME NEW p \in Req \cup {Maint, Warm}, InstallRun(p) PROVE TypeInv'
  <2>1. pc' \in [Proc -> PCs]
    BY <1>23 DEF InstallRun, AfterRotate
  <2>2. fin' = fin \/ \E old \in RunIds : fin' = [fin EXCEPT ![old] = old]
    BY <1>23 DEF InstallRun
  <2>3. fin' \in [Proc -> RunIds \cup {NoRun}]
    BY <2>2
  <2>4. draining' = draining \/ \E old \in RunIds : draining' = draining \cup
     {old}
    BY <1>23 DEF InstallRun
  <2>5. TypeOK'
    <3>1. runs' \in [Agents -> RunIds \cup {NoRun}]
      BY <1>23 DEF InstallRun
    <3>2. got' \in [Proc -> RunIds \cup {NoRun}] /\ aged' \subseteq RunIds
      BY <1>23 DEF InstallRun
    <3> QED
      BY SMTT(30), <2>1, <2>3, <2>4, <3>1, <3>2, <1>23 DEF InstallRun
  <2>6. Places'
    <3>1. CASE Goto(p, AfterRotate(p, TRUE))
      BY <3>1 DEF AfterRotate
    <3>2. ASSUME NEW old \in RunIds,
                 pc' = [pc EXCEPT ![p] = AfterRotate(p, TRUE), ![old] = "fcheck"]
          PROVE  Places'
      BY <3>2 DEF AfterRotate
    <3> QED
      BY <3>1, <3>2, <1>23 DEF InstallRun
  <2>7. AgentKnown' /\ AttemptLeft'
    BY SMTT(30), <1>23 DEF InstallRun, AfterRotate
  <2> QED
    BY <2>1, <2>2, <2>3, <2>4, <2>5, <2>6, <2>7
<1>24. ASSUME NEW p \in Req \cup {Maint} \cup RunIds, NEW r \in RunIds, FinishAcked(p, r)
       PROVE  TypeInv'
  BY <1>24 DEF FinishAcked
<1>25. ASSUME NEW p \in Req \cup {Maint} \cup RunIds, FinishCheck(p)
       PROVE  TypeInv'
  <2>1. finishing' = finishing \/ finishing' = [finishing EXCEPT ![fin[p]] =
     TRUE]
    BY <1>25 DEF FinishCheck
  <2>2. finishing' \in [RunIds -> BOOLEAN]
    BY <2>1, Zenon
  <2>3. fin' \in [Proc -> RunIds \cup {NoRun}]
    BY <1>25 DEF FinishCheck, FinishReturns
  <2>4. pc' \in [Proc -> PCs]
    BY <1>25 DEF FinishCheck, FinishReturns
  <2>5. TypeOK'
    BY <2>2, <2>3, <2>4, <1>25 DEF FinishCheck
  <2>6. Places'
    BY SMTT(30), <1>25 DEF FinishCheck, FinishReturns
  <2>7. AgentKnown' /\ AttemptLeft'
    BY <1>25 DEF FinishCheck, FinishReturns
  <2> QED
    BY <2>1, <2>2, <2>3, <2>4, <2>5, <2>6, <2>7
<1>26. ASSUME NEW p \in Req \cup {Maint} \cup RunIds, FinishFails(p)
       PROVE  TypeInv'
  BY <1>26 DEF FinishFails
<1>27. ASSUME NEW p \in Req \cup {Maint} \cup RunIds, FinishDone(p)
       PROVE  TypeInv'
  BY <1>27 DEF FinishDone, FinishReturns
<1>28. ASSUME NEW p \in Req \cup {Maint} \cup RunIds, FinishUndo(p)
       PROVE  TypeInv'
  <2>1. finishing' = [finishing EXCEPT ![fin[p]] = FALSE]
    BY <1>28 DEF FinishUndo
  <2>2. finishing' \in [RunIds -> BOOLEAN]
    BY <2>1, Zenon
  <2>3. TypeOK'
    BY <2>2, <1>28 DEF FinishUndo, FinishReturns
  <2>4. Places'
    BY <1>28 DEF FinishUndo, FinishReturns
  <2>5. AgentKnown' /\ AttemptLeft'
    BY <1>28 DEF FinishUndo, FinishReturns
  <2> QED
    BY <2>1, <2>2, <2>3, <2>4, <2>5
<1>29. ASSUME NEW p \in {Maint, Warm}, NextRotation(p) PROVE TypeInv'
  BY <1>29 DEF NextRotation
<1>30. ASSUME NEW p \in {Maint, Warm}, LoopDone(p) PROVE TypeInv'
  BY <1>30 DEF LoopDone
<1>31. ASSUME MaintainTick PROVE TypeInv'
  BY <1>31 DEF MaintainTick
<1>32. ASSUME NextDrained PROVE TypeInv'
  BY <1>32 DEF NextDrained
<1>33. ASSUME RunAges PROVE TypeInv'
  BY <1>33 DEF RunAges
<1>34. ASSUME SessionExpires PROVE TypeInv'
  <2>1. session \in Session
    BY <1>34 DEF SessionExpires
  <2>2. [session EXCEPT !.fresh = FALSE] \in Session
    BY <2>1 DEF Session
  <2>3. TypeOK'
    BY <2>2, <1>34 DEF SessionExpires
  <2>4. Places' /\ AgentKnown' /\ AttemptLeft'
    BY <1>34 DEF SessionExpires
  <2> QED
    BY <2>1, <2>2, <2>3, <2>4
<1>35. ASSUME CooldownEnds PROVE TypeInv'
  <2>1. TypeOK'
    BY <1>35 DEF CooldownEnds
  <2>2. Places'
    BY <1>35 DEF CooldownEnds
  <2>3. AgentKnown' /\ AttemptLeft'
    BY <1>35 DEF CooldownEnds
  <2> QED
    BY <2>1, <2>2, <2>3
<1>36. CASE UNCHANGED vars
  BY <1>36
<1> HIDE DEF TypeInv
<1> QED
  BY <1>1, <1>2, <1>3, <1>4, <1>5, <1>6, <1>7, <1>8, <1>9, <1>10, <1>11,
     <1>12, <1>13, <1>14, <1>15, <1>16, <1>17, <1>18, <1>19, <1>20, <1>21,
     <1>22, <1>23, <1>24, <1>25, <1>26, <1>27, <1>28, <1>29, <1>30, <1>31,
     <1>32, <1>33, <1>34, <1>35, <1>36
     DEF Next, RequestStep, SessionStep, SessionProgress,
     RotateStep, FinishStep, LoopStep, Time

\* Every step keeps the exclusion of requests and of session switches.
LEMMA LockStep ==
  ASSUME TypeInv, LockInv, TypeInv', [Next]_vars
  PROVE  LockInv'
<1> USE PoolAssumption DEF LockInv, TypeInv, TypeOK, Places, Proc, PCs,
   Switching, Claiming, Goto, OneRequestPerToken, SwitchExclusive,
   CooldownSeen, LeaseAccounting, Holding, Using, vars, lockVars, runVars,
   sessionVars, leaseVars, workVars, upRunVars
<1>1. ASSUME NEW q \in Req, Arrive(q) PROVE LockInv'
  BY <1>1 DEF Arrive
<1>2. ASSUME NEW q \in Req, Lock(q) PROVE LockInv'
  BY <1>2 DEF Lock, TokenFree
<1>3. ASSUME NEW q \in Req, Recheck(q) PROVE LockInv'
  BY <1>3 DEF Recheck
<1>4. ASSUME NEW q \in Req, Grant(q) PROVE LockInv'
  <2>1. OneRequestPerToken' /\ SwitchExclusive' /\ CooldownSeen'
    BY <1>4 DEF Grant
  <2>2. LeaseAccounting'
    <3>1. \A o \in Req : lease[o] = NoRun
      BY SMTT(30), <1>4 DEF Grant
    <3>2. CASE Goto(q, "unlock") /\ UNCHANGED <<inflight, lease>>
      BY <3>1, <3>2
    <3>3. ASSUME NEW r \in RunIds, inflight' = [inflight EXCEPT ![r] = @ + 1],
                 lease' = [lease EXCEPT ![q] = r], Goto(q, "read")
          PROVE  LeaseAccounting'
      BY <3>1, <3>3, <1>4 DEF Grant
    <3> QED
      BY <3>2, <3>3, <1>4 DEF Grant
  <2> QED
    BY <2>1, <2>2
<1>5. ASSUME NEW q \in Req, ReadInstance(q) PROVE LockInv'
  BY <1>5 DEF ReadInstance
<1>6. ASSUME NEW q \in Req, Chat(q) PROVE LockInv'
  BY <1>6 DEF Chat
<1>7. ASSUME NEW q \in Req, Cooldown(q) PROVE LockInv'
  BY <1>7 DEF Cooldown
<1>8. ASSUME NEW q \in Req, InvalidateSession(q) PROVE LockInv'
  BY <1>8 DEF InvalidateSession
<1>9. ASSUME NEW q \in Req, InvalidateRun(q) PROVE LockInv'
  BY <1>9 DEF InvalidateRun
<1>10. ASSUME NEW q \in Req, Release(q) PROVE LockInv'
  <2>1. OneRequestPerToken' /\ SwitchExclusive' /\ CooldownSeen'
    BY <1>10 DEF Release
  <2>2. LeaseAccounting'
    BY SMTT(30), <1>10 DEF Release
  <2> QED
    BY <2>1, <2>2
<1>11. ASSUME NEW q \in Req, Unlock(q) PROVE LockInv'
  BY <1>11 DEF Unlock, Retries
<1>12. ASSUME NEW p \in Req \cup {Warm}, EnsureSession(p) PROVE LockInv'
  BY <1>12 DEF EnsureSession, MaySwitch, Ready, AfterEnsure
<1>13. ASSUME NEW p \in Req \cup {Warm}, EnsureCancelled(p) PROVE LockInv'
  BY <1>13 DEF EnsureCancelled, Ready, AfterEnsure
<1>14. ASSUME NEW p \in Req \cup {Warm}, DeleteSession(p) PROVE LockInv'
  BY <1>14 DEF DeleteSession
<1>15. ASSUME NEW p \in Req \cup {Warm}, CreateSession(p) PROVE LockInv'
  BY <1>15 DEF CreateSession
<1>16. ASSUME NEW p \in Req \cup {Warm}, PollSession(p) PROVE LockInv'
  BY <1>16 DEF PollSession
<1>17. ASSUME NEW p \in Req \cup {Warm}, SessionWithoutInstance(p)
       PROVE  LockInv'
  BY <1>17 DEF SessionWithoutInstance
<1>18. ASSUME NEW p \in Req \cup {Warm}, ClearRuns(p) PROVE LockInv'
  BY <1>18 DEF ClearRuns
<1>19. ASSUME NEW p \in Req \cup {Warm}, StoreSession(p) PROVE LockInv'
  BY <1>19 DEF StoreSession, AfterEnsure
<1>20. ASSUME NEW p \in Req \cup {Maint, Warm}, RotateCheck(p) PROVE LockInv'
  BY <1>20 DEF RotateCheck, AfterRotate
<1>21. ASSUME NEW p \in Req \cup {Maint, Warm}, StartRun(p) PROVE LockInv'
  BY <1>21 DEF StartRun
<1>22. ASSUME NEW p \in Req \cup {Maint, Warm}, StartRunFails(p)
       PROVE  LockInv'
  BY <1>22 DEF StartRunFails, AfterRotate
<1>23. ASSUME NEW p \in Req \cup {Maint, Warm}, InstallRun(p) PROVE LockInv'
  BY SMTT(30), <1>23 DEF InstallRun, AfterRotate
<1>24. ASSUME NEW p \in Req \cup {Maint} \cup RunIds, NEW r \in RunIds, FinishAcked(p, r)
       PROVE  LockInv'
  BY <1>24 DEF FinishAcked
<1>25. ASSUME NEW p \in Req \cup {Maint} \cup RunIds, FinishCheck(p)
       PROVE  LockInv'
  <2>1. OneRequestPerToken' /\ SwitchExclusive' /\ CooldownSeen'
    BY <1>25 DEF FinishCheck, FinishReturns, Finishable
  <2>2. LeaseAccounting'
    BY <1>25 DEF FinishCheck, FinishReturns, Finishable
  <2> QED
    BY <2>1, <2>2
<1>26. ASSUME NEW p \in Req \cup {Maint} \cup RunIds, FinishFails(p)
       PROVE  LockInv'
  BY <1>26 DEF FinishFails
<1>27. ASSUME NEW p \in Req \cup {Maint} \cup RunIds, FinishDone(p)
       PROVE  LockInv'
  BY <1>27 DEF FinishDone, FinishReturns
<1>28. ASSUME NEW p \in Req \cup {Maint} \cup RunIds, FinishUndo(p)
       PROVE  LockInv'
  BY <1>28 DEF FinishUndo, FinishReturns
<1>29. ASSUME NEW p \in {Maint, Warm}, NextRotation(p) PROVE LockInv'
  BY <1>29 DEF NextRotation
<1>30. ASSUME NEW p \in {Maint, Warm}, LoopDone(p) PROVE LockInv'
  BY <1>30 DEF LoopDone
<1>31. ASSUME MaintainTick PROVE LockInv'
  BY <1>31 DEF MaintainTick
<1>32. ASSUME NextDrained PROVE LockInv'
  BY <1>32 DEF NextDrained
<1>33. ASSUME RunAges PROVE LockInv'
  BY <1>33 DEF RunAges
<1>34. ASSUME SessionExpires PROVE LockInv'
  BY <1>34 DEF SessionExpires
<1>35. ASSUME CooldownEnds PROVE LockInv'
  BY <1>35 DEF CooldownEnds
<1>36. CASE UNCHANGED vars
  BY <1>36
<1> QED
  BY <1>1, <1>2, <1>3, <1>4, <1>5, <1>6, <1>7, <1>8, <1>9, <1>10, <1>11,
     <1>12, <1>13, <1>14, <1>15, <1>16, <1>17, <1>18, <1>19, <1>20, <1>21,
     <1>22, <1>23, <1>24, <1>25, <1>26, <1>27, <1>28, <1>29, <1>30, <1>31,
     <1>32, <1>33, <1>34, <1>35, <1>36
     DEF Next, RequestStep, SessionStep, SessionProgress,
     RotateStep, FinishStep, LoopStep, Time

-----------------------------------------------------------------------------
\* The places at which a process deals with a run of its own.
Loud == {"fcheck", "fcall", "fok", "ferr", "install", "drop"}

\* A step that neither touches a run nor takes a process to or from such a place.
Quiet ==
  /\ UNCHANGED <<runs, draining, inflight, finishing, got, fin, finishTodo,
                 lease, upRun, acked>>
  /\ \A p \in Proc, l \in Loud : pc'[p] = l <=> pc[p] = l

\* Such a step keeps everything that is known of the runs.
LEMMA QuietStep ==
  ASSUME RunInv, Quiet
  PROVE  RunInv'
<1> USE DEF RunInv, Quiet, Loud, Claiming
<1>1. Claims' /\ FinishExclusive'
  BY DEF Claims, FinishExclusive
<1>2. CurrentRuns' = CurrentRuns
  BY DEF CurrentRuns
<1>3. Retired' /\ RunsDisjoint'
  BY <1>2 DEF Retired, RunsDisjoint
<1>5. Dropped'
  BY DEF Dropped, Proc
<1>6. Fresh'
  BY <1>2 DEF Fresh, Unheard
<1> QED
  BY <1>1, <1>3, <1>5, <1>6

\* Every step keeps what is known of the runs.
LEMMA RunStep ==
  ASSUME TypeInv, LockInv, RunInv, TypeInv', LockInv', [Next]_vars
  PROVE  RunInv'
<1> USE PoolAssumption DEF LockInv, RunInv, TypeInv, TypeOK, Places,
   AgentKnown, Proc, PCs, Switching, Claiming, Goto, vars, lockVars, runVars,
   sessionVars, leaseVars, workVars, upRunVars
<1>1. ASSUME NEW q \in Req, Arrive(q) PROVE RunInv'
  BY <1>1, QuietStep DEF Arrive, Quiet, Loud
<1>2. ASSUME NEW q \in Req, Lock(q) PROVE RunInv'
  BY <1>2, QuietStep DEF Lock, TokenFree, Quiet, Loud
<1>3. ASSUME NEW q \in Req, Recheck(q) PROVE RunInv'
  BY <1>3, QuietStep DEF Recheck, Quiet, Loud
<1>4. ASSUME NEW q \in Req, Grant(q) PROVE RunInv'
  <2>1. Claims'
    BY <1>4 DEF Grant, CurrentRuns, Claims, FinishExclusive, Retired,
       LeaseAccounting, Fresh, Unheard
  <2>2. FinishExclusive'
    BY <1>4 DEF Grant, CurrentRuns, Claims, FinishExclusive
  <2>3. Retired'
    BY <1>4 DEF Grant, CurrentRuns, Retired, Claims, Fresh, Unheard,
       LeaseAccounting
  <2>4. Fresh'
    BY <1>4 DEF Grant, CurrentRuns, Fresh, Unheard, LeaseAccounting, Claims,
       RunsDisjoint, OneRequestPerToken, Holding, Retired
  <2>5. Dropped'
    BY <1>4 DEF Grant, CurrentRuns, Dropped, LeaseAccounting, Claims,
       Retired, OneRequestPerToken, Holding
  <2>6. RunsDisjoint'
    BY <1>4 DEF Grant, CurrentRuns, RunsDisjoint, Fresh, Unheard
  <2> QED
    BY <2>1, <2>2, <2>3, <2>4, <2>5, <2>6
<1>5. ASSUME NEW q \in Req, ReadInstance(q) PROVE RunInv'
  BY <1>5, QuietStep DEF ReadInstance, Quiet, Loud
<1>6. ASSUME NEW q \in Req, Chat(q) PROVE RunInv'
  <2>1. CurrentRuns' = CurrentRuns
    BY <1>6 DEF Chat, CurrentRuns
  <2>2. Claims'
    BY <2>1, <1>6 DEF Chat, Claims, FinishExclusive, Retired,
       LeaseAccounting, Fresh, Unheard
  <2>3. FinishExclusive'
    BY <2>1, <1>6 DEF Chat, Claims, FinishExclusive
  <2>4. Retired'
    BY <2>1, <1>6 DEF Chat, Retired, Claims, Fresh, Unheard, LeaseAccounting
  <2>5. Fresh'
    BY <2>1, <1>6 DEF Chat, Fresh, Unheard, LeaseAccounting, Claims,
       RunsDisjoint, OneRequestPerToken, Holding, Retired
  <2>6. Dropped'
    BY <2>1, <1>6 DEF Chat, Dropped, LeaseAccounting, Claims, Retired,
       OneRequestPerToken, Holding
  <2>7. RunsDisjoint'
    BY <2>1, <1>6 DEF Chat, RunsDisjoint, Fresh, Unheard
  <2> QED
    BY <2>1, <2>2, <2>3, <2>4, <2>5, <2>6, <2>7
<1>7. ASSUME NEW q \in Req, Cooldown(q) PROVE RunInv'
  BY <1>7, QuietStep DEF Cooldown, Quiet, Loud
<1>8. ASSUME NEW q \in Req, InvalidateSession(q) PROVE RunInv'
  BY <1>8, QuietStep DEF InvalidateSession, Quiet, Loud
<1>9. ASSUME NEW q \in Req, InvalidateRun(q) PROVE RunInv'
  <2>1. Claims'
    BY <1>9 DEF InvalidateRun, CurrentRuns, Claims, FinishExclusive, Retired,
       LeaseAccounting, Fresh, Unheard
  <2>2. FinishExclusive'
    BY <1>9 DEF InvalidateRun, CurrentRuns, Claims, FinishExclusive
  <2>3. Retired'
    BY <1>9 DEF InvalidateRun, CurrentRuns, Retired, Claims, Fresh, Unheard,
       LeaseAccounting
  <2>4. Fresh'
    BY <1>9 DEF InvalidateRun, CurrentRuns, Fresh, Unheard, LeaseAccounting,
       Claims, RunsDisjoint, OneRequestPerToken, Holding, Retired
  <2>5. Dropped'
    BY <1>9 DEF InvalidateRun, CurrentRuns, Dropped, LeaseAccounting, Claims,
       Retired, OneRequestPerToken, Holding
  <2>6. RunsDisjoint'
    BY <1>9 DEF InvalidateRun, CurrentRuns, RunsDisjoint, Fresh, Unheard
  <2> QED
    BY <2>1, <2>2, <2>3, <2>4, <2>5, <2>6
<1>10. ASSUME NEW q \in Req, Release(q) PROVE RunInv'
  <2>1. CurrentRuns' = CurrentRuns
    BY <1>10 DEF Release, CurrentRuns
  <2>2. Claims'
    BY <2>1, <1>10 DEF Release, Claims, FinishExclusive, Retired,
       LeaseAccounting, Fresh, Unheard
  <2>3. FinishExclusive'
    BY <2>1, <1>10 DEF Release, Claims, FinishExclusive
  <2>4. Retired'
    BY <2>1, <1>10 DEF Release, Retired, Claims, Fresh, Unheard,
       LeaseAccounting
  <2>5. Fresh'
    BY <2>1, <1>10 DEF Release, Fresh, Unheard, LeaseAccounting, Claims,
       RunsDisjoint, OneRequestPerToken, Holding, Retired
  <2>6. Dropped'
    BY <2>1, <1>10 DEF Release, Dropped, LeaseAccounting, Claims, Retired,
       OneRequestPerToken, Holding
  <2>7. RunsDisjoint'
    BY <2>1, <1>10 DEF Release, RunsDisjoint, Fresh, Unheard
  <2> QED
    BY <2>1, <2>2, <2>3, <2>4, <2>5, <2>6, <2>7
<1>11. ASSUME NEW q \in Req, Unlock(q) PROVE RunInv'
  BY <1>11, QuietStep DEF Unlock, Retries, Quiet, Loud
<1>12. ASSUME NEW p \in Req \cup {Warm}, EnsureSession(p) PROVE RunInv'
  BY <1>12, QuietStep DEF EnsureSession, MaySwitch, Ready, AfterEnsure,
     Quiet, Loud
<1>13. ASSUME NEW p \in Req \cup {Warm}, EnsureCancelled(p) PROVE RunInv'
  BY <1>13, QuietStep DEF EnsureCancelled, Ready, AfterEnsure, Quiet, Loud
<1>14. ASSUME NEW p \in Req \cup {Warm}, DeleteSession(p) PROVE RunInv'
  BY <1>14, QuietStep DEF DeleteSession, Quiet, Loud
<1>15. ASSUME NEW p \in Req \cup {Warm}, CreateSession(p) PROVE RunInv'
  BY <1>15, QuietStep DEF CreateSession, Quiet, Loud
<1>16. ASSUME NEW p \in Req \cup {Warm}, PollSession(p) PROVE RunInv'
  BY <1>16, QuietStep DEF PollSession, Quiet, Loud
<1>17. ASSUME NEW p \in Req \cup {Warm}, SessionWithoutInstance(p)
       PROVE  RunInv'
  BY <1>17, QuietStep DEF SessionWithoutInstance, Quiet, Loud
<1>18. ASSUME NEW p \in Req \cup {Warm}, ClearRuns(p) PROVE RunInv'
  <2>1. Claims'
    BY <1>18 DEF ClearRuns, CurrentRuns, Claims, FinishExclusive, Retired,
       LeaseAccounting, Fresh, Unheard
  <2>2. FinishExclusive'
    BY <1>18 DEF ClearRuns, CurrentRuns, Claims, FinishExclusive
  <2>3. Retired'
    BY <1>18 DEF ClearRuns, CurrentRuns, Retired, Claims, Fresh, Unheard,
       LeaseAccounting
  <2>4. Fresh'
    BY <1>18 DEF ClearRuns, CurrentRuns, Fresh, Unheard, LeaseAccounting,
       Claims, RunsDisjoint, OneRequestPerToken, Holding, Retired
  <2>5. Dropped'
    BY <1>18 DEF ClearRuns, CurrentRuns, Dropped, LeaseAccounting, Claims,
       Retired, OneRequestPerToken, Holding
  <2>6. RunsDisjoint'
    BY <1>18 DEF ClearRuns, CurrentRuns, RunsDisjoint, Fresh, Unheard
  <2> QED
    BY <2>1, <2>2, <2>3, <2>4, <2>5, <2>6
<1>19. ASSUME NEW p \in Req \cup {Warm}, StoreSession(p) PROVE RunInv'
  BY <1>19, QuietStep DEF StoreSession, AfterEnsure, Quiet, Loud
<1>20. ASSUME NEW p \in Req \cup {Maint, Warm}, RotateCheck(p) PROVE RunInv'
  BY <1>20, QuietStep DEF RotateCheck, AfterRotate, Quiet, Loud
<1>21. ASSUME NEW p \in Req \cup {Maint, Warm}, StartRun(p) PROVE RunInv'
  <2>1. CurrentRuns' = CurrentRuns
    BY <1>21 DEF StartRun, CurrentRuns
  <2>2. Claims'
    BY <2>1, <1>21 DEF StartRun, Claims, FinishExclusive, Retired,
       LeaseAccounting, Fresh, Unheard
  <2>3. FinishExclusive'
    BY <2>1, <1>21 DEF StartRun, Claims, FinishExclusive
  <2>4. Retired'
    BY <2>1, <1>21 DEF StartRun, Retired, Claims, Fresh, Unheard,
       LeaseAccounting
  <2>5. Fresh'
    BY <2>1, <1>21 DEF StartRun, Fresh, Unheard, LeaseAccounting, Claims,
       RunsDisjoint, OneRequestPerToken, Holding, Retired
  <2>6. Dropped'
    BY <2>1, <1>21 DEF StartRun, Dropped, LeaseAccounting, Claims, Retired,
       OneRequestPerToken, Holding
  <2>7. RunsDisjoint'
    BY <2>1, <1>21 DEF StartRun, RunsDisjoint, Fresh, Unheard
  <2> QED
    BY <2>1, <2>2, <2>3, <2>4, <2>5, <2>6, <2>7
<1>22. ASSUME NEW p \in Req \cup {Maint, Warm}, StartRunFails(p)
       PROVE  RunInv'
  BY <1>22, QuietStep DEF StartRunFails, AfterRotate, Quiet, Loud
<1>23. ASSUME NEW p \in Req \cup {Maint, Warm}, InstallRun(p) PROVE RunInv'
  <2>1. Claims'
    BY SMTT(30), <1>23 DEF InstallRun, AfterRotate, CurrentRuns, Claims,
       FinishExclusive, Retired, LeaseAccounting, Fresh, Unheard
  <2>2. FinishExclusive'
    BY <1>23 DEF InstallRun, AfterRotate, CurrentRuns, Claims,
       FinishExclusive
  <2>3. Retired'
    BY <1>23 DEF InstallRun, AfterRotate, CurrentRuns, Retired, Claims,
       Fresh, Unheard, LeaseAccounting
  <2>4. Fresh'
    BY <1>23 DEF InstallRun, AfterRotate, CurrentRuns, Fresh, Unheard,
       LeaseAccounting, Claims, RunsDisjoint, OneRequestPerToken, Holding,
       Retired
  <2>5. Dropped'
    BY <1>23 DEF InstallRun, AfterRotate, CurrentRuns, Dropped,
       LeaseAccounting, Claims, Retired, OneRequestPerToken, Holding
  <2>6. RunsDisjoint'
    BY <1>23 DEF InstallRun, AfterRotate, CurrentRuns, RunsDisjoint, Fresh,
       Unheard
  <2> QED
    BY <2>1, <2>2, <2>3, <2>4, <2>5, <2>6
<1>24. ASSUME NEW p \in Req \cup {Maint} \cup RunIds, NEW r \in RunIds, FinishAcked(p, r)
       PROVE  RunInv'
  <2>1. CurrentRuns' = CurrentRuns
    BY <1>24 DEF FinishAcked, CurrentRuns
  <2>2. Claims'
    BY <2>1, <1>24 DEF FinishAcked, Claims, FinishExclusive, Retired,
       LeaseAccounting, Fresh, Unheard
  <2>3. FinishExclusive'
    BY <2>1, <1>24 DEF FinishAcked, Claims, FinishExclusive
  <2>4. Retired'
    BY <2>1, <1>24 DEF FinishAcked, Retired, Claims, Fresh, Unheard,
       LeaseAccounting
  <2>5. Fresh'
    BY <2>1, <1>24 DEF FinishAcked, Fresh, Unheard, LeaseAccounting, Claims,
       RunsDisjoint, OneRequestPerToken, Holding, Retired
  <2>6. Dropped'
    BY <2>1, <1>24 DEF FinishAcked, Dropped, LeaseAccounting, Claims,
       Retired, OneRequestPerToken, Holding
  <2>7. RunsDisjoint'
    BY <2>1, <1>24 DEF FinishAcked, RunsDisjoint, Fresh, Unheard
  <2> QED
    BY <2>1, <2>2, <2>3, <2>4, <2>5, <2>6, <2>7
<1>25. ASSUME NEW p \in Req \cup {Maint} \cup RunIds, FinishCheck(p)
       PROVE  RunInv'
  <2>1. CurrentRuns' = CurrentRuns
    BY <1>25 DEF FinishCheck, CurrentRuns
  <2>2. Claims'
    BY <2>1, <1>25 DEF FinishCheck, FinishReturns, Finishable, Claims,
       FinishExclusive, Retired, LeaseAccounting, Fresh, Unheard
  <2>3. FinishExclusive'
    BY <2>1, <1>25 DEF FinishCheck, FinishReturns, Finishable, Claims,
       FinishExclusive
  <2>4. Retired'
    BY <2>1, <1>25 DEF FinishCheck, FinishReturns, Finishable, Retired,
       Claims, Fresh, Unheard, LeaseAccounting
  <2>5. Fresh'
    BY <2>1, <1>25 DEF FinishCheck, FinishReturns, Finishable, Fresh,
       Unheard, LeaseAccounting, Claims, RunsDisjoint, OneRequestPerToken,
       Holding, Retired
  <2>6. Dropped'
    BY <2>1, <1>25 DEF FinishCheck, FinishReturns, Finishable, Dropped,
       LeaseAccounting, Claims, Retired, OneRequestPerToken, Holding
  <2>7. RunsDisjoint'
    BY <2>1, <1>25 DEF FinishCheck, FinishReturns, Finishable, RunsDisjoint,
       Fresh, Unheard
  <2> QED
    BY <2>1, <2>2, <2>3, <2>4, <2>5, <2>6, <2>7
<1>26. ASSUME NEW p \in Req \cup {Maint} \cup RunIds, FinishFails(p)
       PROVE  RunInv'
  <2>1. CurrentRuns' = CurrentRuns
    BY <1>26 DEF FinishFails, CurrentRuns
  <2>2. Claims'
    BY <2>1, <1>26 DEF FinishFails, Claims, FinishExclusive, Retired,
       LeaseAccounting, Fresh, Unheard
  <2>3. FinishExclusive'
    BY <2>1, <1>26 DEF FinishFails, Claims, FinishExclusive
  <2>4. Retired'
    BY <2>1, <1>26 DEF FinishFails, Retired, Claims, Fresh, Unheard,
       LeaseAccounting
  <2>5. Fresh'
    BY <2>1, <1>26 DEF FinishFails, Fresh, Unheard, LeaseAccounting, Claims,
       RunsDisjoint, OneRequestPerToken, Holding, Retired
  <2>6. Dropped'
    BY <2>1, <1>26 DEF FinishFails, Dropped, LeaseAccounting, Claims,
       Retired, OneRequestPerToken, Holding
  <2>7. RunsDisjoint'
    BY <2>1, <1>26 DEF FinishFails, RunsDisjoint, Fresh, Unheard
  <2> QED
    BY <2>1, <2>2, <2>3, <2>4, <2>5, <2>6, <2>7
<1>27. ASSUME NEW p \in Req \cup {Maint} \cup RunIds, FinishDone(p)
       PROVE  RunInv'
  <2>1. CurrentRuns' = CurrentRuns
    BY <1>27 DEF FinishDone, CurrentRuns
  <2>2. Claims'
    BY <2>1, <1>27 DEF FinishDone, FinishReturns, Claims, FinishExclusive,
       Retired, LeaseAccounting, Fresh, Unheard
  <2>3. FinishExclusive'
    BY <2>1, <1>27 DEF FinishDone, FinishReturns, Claims, FinishExclusive
  <2>4. Retired'
    BY <2>1, <1>27 DEF FinishDone, FinishReturns, Retired, Claims, Fresh,
       Unheard, LeaseAccounting
  <2>5. Fresh'
    BY <2>1, <1>27 DEF FinishDone, FinishReturns, Fresh, Unheard,
       LeaseAccounting, Claims, RunsDisjoint, OneRequestPerToken, Holding,
       Retired
  <2>6. Dropped'
    BY <2>1, <1>27 DEF FinishDone, FinishReturns, Dropped, LeaseAccounting,
       Claims, Retired, OneRequestPerToken, Holding
  <2>7. RunsDisjoint'
    BY <2>1, <1>27 DEF FinishDone, FinishReturns, RunsDisjoint, Fresh,
       Unheard
  <2> QED
    BY <2>1, <2>2, <2>3, <2>4, <2>5, <2>6, <2>7
<1>28. ASSUME NEW p \in Req \cup {Maint} \cup RunIds, FinishUndo(p)
       PROVE  RunInv'
  <2>1. CurrentRuns' = CurrentRuns
    BY <1>28 DEF FinishUndo, CurrentRuns
  <2>2. Claims'
    BY <2>1, <1>28 DEF FinishUndo, FinishReturns, Claims, FinishExclusive,
       Retired, LeaseAccounting, Fresh, Unheard
  <2>3. FinishExclusive'
    BY <2>1, <1>28 DEF FinishUndo, FinishReturns, Claims, FinishExclusive
  <2>4. Retired'
    BY <2>1, <1>28 DEF FinishUndo, FinishReturns, Retired, Claims, Fresh,
       Unheard, LeaseAccounting
  <2>5. Fresh'
    BY <2>1, <1>28 DEF FinishUndo, FinishReturns, Fresh, Unheard,
       LeaseAccounting, Claims, RunsDisjoint, OneRequestPerToken, Holding,
       Retired
  <2>6. Dropped'
    BY <2>1, <1>28 DEF FinishUndo, FinishReturns, Dropped, LeaseAccounting,
       Claims, Retired, OneRequestPerToken, Holding
  <2>7. RunsDisjoint'
    BY <2>1, <1>28 DEF FinishUndo, FinishReturns, RunsDisjoint, Fresh,
       Unheard
  <2> QED
    BY <2>1, <2>2, <2>3, <2>4, <2>5, <2>6, <2>7
<1>29. ASSUME NEW p \in {Maint, Warm}, NextRotation(p) PROVE RunInv'
  BY <1>29, QuietStep DEF NextRotation, Quiet, Loud
<1>30. ASSUME NEW p \in {Maint, Warm}, LoopDone(p) PROVE RunInv'
  BY <1>30, QuietStep DEF LoopDone, Quiet, Loud
<1>31. ASSUME MaintainTick PROVE RunInv'
  <2>1. CurrentRuns' = CurrentRuns
    BY <1>31 DEF MaintainTick, CurrentRuns
  <2>2. Claims'
    BY <2>1, <1>31 DEF MaintainTick, Claims, FinishExclusive, Retired,
       LeaseAccounting, Fresh, Unheard
  <2>3. FinishExclusive'
    BY <2>1, <1>31 DEF MaintainTick, Claims, FinishExclusive
  <2>4. Retired'
    BY <2>1, <1>31 DEF MaintainTick, Retired, Claims, Fresh, Unheard,
       LeaseAccounting
  <2>5. Fresh'
    BY <2>1, <1>31 DEF MaintainTick, Fresh, Unheard, LeaseAccounting, Claims,
       RunsDisjoint, OneRequestPerToken, Holding, Retired
  <2>6. Dropped'
    BY <2>1, <1>31 DEF MaintainTick, Dropped, LeaseAccounting, Claims,
       Retired, OneRequestPerToken, Holding
  <2>7. RunsDisjoint'
    BY <2>1, <1>31 DEF MaintainTick, RunsDisjoint, Fresh, Unheard
  <2> QED
    BY <2>1, <2>2, <2>3, <2>4, <2>5, <2>6, <2>7
<1>32. ASSUME NextDrained PROVE RunInv'
  <2>1. CurrentRuns' = CurrentRuns
    BY <1>32 DEF NextDrained, CurrentRuns
  <2>2. Claims'
    BY <2>1, <1>32 DEF NextDrained, Claims, FinishExclusive, Retired,
       LeaseAccounting, Fresh, Unheard
  <2>3. FinishExclusive'
    BY <2>1, <1>32 DEF NextDrained, Claims, FinishExclusive
  <2>4. Retired'
    BY <2>1, <1>32 DEF NextDrained, Retired, Claims, Fresh, Unheard,
       LeaseAccounting
  <2>5. Fresh'
    BY <2>1, <1>32 DEF NextDrained, Fresh, Unheard, LeaseAccounting, Claims,
       RunsDisjoint, OneRequestPerToken, Holding, Retired
  <2>6. Dropped'
    BY <2>1, <1>32 DEF NextDrained, Dropped, LeaseAccounting, Claims,
       Retired, OneRequestPerToken, Holding
  <2>7. RunsDisjoint'
    BY <2>1, <1>32 DEF NextDrained, RunsDisjoint, Fresh, Unheard
  <2> QED
    BY <2>1, <2>2, <2>3, <2>4, <2>5, <2>6, <2>7
<1>33. ASSUME RunAges PROVE RunInv'
  BY <1>33, QuietStep DEF RunAges, Quiet, Loud
<1>34. ASSUME SessionExpires PROVE RunInv'
  BY <1>34, QuietStep DEF SessionExpires, Quiet, Loud
<1>35. ASSUME CooldownEnds PROVE RunInv'
  BY <1>35, QuietStep DEF CooldownEnds, Quiet, Loud
<1>36. CASE UNCHANGED vars
  BY <1>36, QuietStep DEF Quiet
<1> QED
  BY <1>1, <1>2, <1>3, <1>4, <1>5, <1>6, <1>7, <1>8, <1>9, <1>10, <1>11,
     <1>12, <1>13, <1>14, <1>15, <1>16, <1>17, <1>18, <1>19, <1>20, <1>21,
     <1>22, <1>23, <1>24, <1>25, <1>26, <1>27, <1>28, <1>29, <1>30, <1>31,
     <1>32, <1>33, <1>34, <1>35, <1>36
     DEF Next, RequestStep, SessionStep, SessionProgress,
     RotateStep, FinishStep, LoopStep, Time
-----------------------------------------------------------------------------
\* No step of the pool forgets a run the upstream runs: a run that was known,
\* or not running, is known, or not running, afterwards.
LEMMA KnownStep ==
  ASSUME TypeInv, LockInv, RunInv, [Next]_vars, NEW r \in RunIds,
         upRun[r] = "running" => Known(r)
  PROVE  (upRun[r] = "running" => Known(r))'
<1> DEFINE Kept == (upRun[r] = "running" => Known(r))'
<1> USE PoolAssumption DEF TypeInv, TypeOK, Known, Proc, Goto, vars,
   lockVars, runVars, sessionVars, leaseVars, workVars, upRunVars
<1>1. ASSUME runs' = runs, draining' = draining, got' = got, upRun' = upRun,
             \A p \in Proc : pc'[p] = "install" <=> pc[p] = "install"
      PROVE  Kept
  BY <1>1 DEF CurrentRuns
<1>2. ASSUME NEW q \in Req, Arrive(q) \/ Lock(q) \/ RequestStep(q) PROVE Kept
  <2>1. ASSUME Chat(q) PROVE Kept
    BY <2>1 DEF Chat, CurrentRuns
  <2>2. ASSUME InvalidateRun(q) PROVE Kept
    BY <2>2 DEF InvalidateRun, CurrentRuns, RunInv, Dropped
  <2>3. ASSUME Arrive(q) \/ Lock(q) PROVE Kept
    BY <1>1, <2>3 DEF Arrive, Lock
  <2>4. ASSUME \/ Recheck(q) \/ Grant(q) \/ ReadInstance(q) \/ Cooldown(q)
               \/ InvalidateSession(q) \/ Release(q) \/ Unlock(q)
        PROVE  Kept
    BY <1>1, <2>4 DEF Recheck, Grant, ReadInstance, Cooldown, Unlock,
       InvalidateSession, Release
  <2> QED
    BY <1>2, <2>1, <2>2, <2>3, <2>4 DEF RequestStep
<1>3. ASSUME NEW p \in Req \cup {Warm}, SessionStep(p) PROVE Kept
  <2>1. ASSUME ClearRuns(p) PROVE Kept
    BY <2>1 DEF ClearRuns, CurrentRuns
  <2>2. ASSUME \/ EnsureSession(p) \/ EnsureCancelled(p) \/ DeleteSession(p)
               \/ CreateSession(p) \/ PollSession(p)
               \/ SessionWithoutInstance(p) \/ StoreSession(p)
        PROVE  Kept
    BY <1>1, <2>2 DEF EnsureSession, EnsureCancelled, DeleteSession,
       CreateSession, PollSession, SessionWithoutInstance, StoreSession,
       AfterEnsure
  <2> QED
    BY <1>3, <2>1, <2>2 DEF SessionStep, SessionProgress
<1>4. ASSUME NEW p \in Req \cup {Maint, Warm}, RotateStep(p) PROVE Kept
  <2>1. ASSUME StartRun(p) PROVE Kept
    <3>1. CurrentRuns' = CurrentRuns
      BY <2>1 DEF StartRun, CurrentRuns
    <3>2. got[p] = NoRun
      BY <2>1 DEF StartRun, RunInv, Fresh
    <3> QED
      BY <2>1, <3>1, <3>2 DEF StartRun
  <2>2. ASSUME InstallRun(p) PROVE Kept
    <3>1. agent[p] \in Agents
      BY <2>2 DEF InstallRun, AgentKnown, Places
    <3>2. runs' = [runs EXCEPT ![agent[p]] = got[p]] /\ upRun' = upRun
      BY <2>2 DEF InstallRun
    <3>3. CASE r = got[p]
      BY <3>1, <3>2, <3>3 DEF CurrentRuns
    <3>4. CASE r = runs[agent[p]]
      <4>1. r \in draining'
        BY <2>2, <3>4 DEF InstallRun
      <4> QED
        BY <4>1
    <3>5. CASE r # got[p] /\ r # runs[agent[p]]
      <4>1. r \in CurrentRuns => r \in CurrentRuns'
        BY <3>1, <3>2, <3>5 DEF CurrentRuns
      <4>2. draining \subseteq draining'
        BY <2>2 DEF InstallRun
      <4>3. ASSUME NEW o \in Proc, pc[o] = "install", got[o] = r
            PROVE  pc'[o] = "install" /\ got'[o] = r
        <5>1. o # p /\ got' = [got EXCEPT ![p] = NoRun]
          BY <2>2, <3>5, <4>3 DEF InstallRun
        <5>2. o \notin RunIds
          BY <4>3 DEF Places, Claiming
        <5>3. pc'[o] = pc[o]
          <6>1. \/ Goto(p, AfterRotate(p, TRUE))
                \/ \E old \in RunIds :
                     pc' = [pc EXCEPT ![p] = AfterRotate(p, TRUE), ![old] = "fcheck"]
            BY <2>2 DEF InstallRun
          <6> QED
            BY <5>1, <5>2, <6>1
        <5> QED
          BY <4>3, <5>1, <5>3
      <4> QED
        BY <3>2, <4>1, <4>2, <4>3
    <3> QED
      BY <3>3, <3>4, <3>5
  <2>3. ASSUME RotateCheck(p) \/ StartRunFails(p) PROVE Kept
    BY <1>1, <2>3 DEF RotateCheck, StartRunFails, AfterRotate
  <2> QED
    BY <1>4, <2>1, <2>2, <2>3 DEF RotateStep
<1>5. ASSUME NEW p \in Req \cup {Maint} \cup RunIds, FinishStep(p) PROVE Kept
  <2>1. ASSUME NEW o \in RunIds, FinishAcked(p, o) PROVE Kept
    BY <2>1 DEF FinishAcked, CurrentRuns
  <2>2. ASSUME FinishFails(p) PROVE Kept
    BY <2>2 DEF FinishFails, CurrentRuns
  <2>3. ASSUME FinishDone(p) PROVE Kept
    BY <2>3 DEF FinishDone, FinishReturns, CurrentRuns, RunInv, Claims, Claiming
  <2>4. ASSUME FinishCheck(p) \/ FinishUndo(p) PROVE Kept
    BY <1>1, <2>4 DEF FinishCheck, FinishUndo, FinishReturns
  <2> QED
    BY <1>5, <2>1, <2>2, <2>3, <2>4 DEF FinishStep
<1>6. ASSUME \/ \E p \in {Maint, Warm} : LoopStep(p)
             \/ MaintainTick \/ NextDrained \/ Time \/ UNCHANGED vars
      PROVE  Kept
  BY <1>1, <1>6 DEF LoopStep, NextRotation, LoopDone, MaintainTick,
     NextDrained, Time, RunAges, SessionExpires, CooldownEnds
<1> QED
  BY <1>2, <1>3, <1>4, <1>5, <1>6 DEF Next
-----------------------------------------------------------------------------
\* The invariant holds at the start.
LEMMA InitIInv == Init => IInv
<1> SUFFICES ASSUME Init PROVE IInv
  OBVIOUS
<1> USE PoolAssumption DEF Init, Proc, PCs, Switching, Claiming, CurrentRuns
<1>1. TypeInv
  <2>1. TypeOK
    <3>1. rotateTodo \in [{Maint, Warm} -> SUBSET Agents]
      OBVIOUS
    <3>2. finishing \in [RunIds -> BOOLEAN] /\ cooling \in BOOLEAN
      BY Zenon
    <3>3. attempt \in [Req -> 0..MaxAttempts] /\ sent \in [Req -> 0..MaxSess]
          /\ root \in [RunIds -> 0..MaxSess] /\ instances \in 0..MaxSess
      BY DEF MaxAttempts
    <3>4. pc \in [Proc -> PCs]
      OBVIOUS
    <3> QED
      BY <3>1, <3>2, <3>3, <3>4 DEF TypeOK
  <2> QED
    BY <2>1 DEF TypeInv, Places, AgentKnown, AttemptLeft, MaxAttempts
<1>2. LockInv
  BY DEF LockInv, OneRequestPerToken, Holding, SwitchExclusive, CooldownSeen,
     Using, LeaseAccounting
<1>3. RunInv
  BY DEF RunInv, Claims, FinishExclusive, Retired, Fresh, Unheard, Dropped,
     RunsDisjoint
<1>4. NoRunLost
  BY DEF NoRunLost
<1> QED
  BY <1>1, <1>2, <1>3, <1>4 DEF IInv

\* The invariant is inductive.
LEMMA StepIInv == IInv /\ [Next]_vars => IInv'
<1> SUFFICES ASSUME IInv, [Next]_vars PROVE IInv'
  OBVIOUS
<1>1. NoRunLost'
  BY KnownStep DEF IInv, NoRunLost
<1> QED
  BY <1>1, TypeStep, LockStep, RunStep DEF IInv

\* Every reachable state of every instance satisfies the invariant.
THEOREM Invariance == Spec => []IInv
  BY InitIInv, StepIInv, PTL DEF Spec

\* The variables keep their types.
THEOREM TypeCorrect == Spec => []TypeOK
<1>1. IInv => TypeOK
  BY DEF IInv, TypeInv
<1> QED
  BY <1>1, Invariance, PTL

\* acquire and release let one request at a time work with the token, whatever
\* number of requests, models, agents and background loops there is.
THEOREM MutualExclusion == Spec => []OneRequestPerToken
<1>1. IInv => OneRequestPerToken
  BY DEF IInv, LockInv
<1> QED
  BY <1>1, Invariance, PTL

\* A run is never finished, nor being finished, while a request leases it.
THEOREM LeasedRunsStayOpen == Spec => []NoFinishWhileLeased
<1>1. ASSUME IInv, NEW q \in Req, lease[q] # NoRun
      PROVE  /\ upRun[lease[q]] # "finished"
             /\ \A p \in Proc : ~(pc[p] \in Claiming /\ fin[p] = lease[q])
  <2>1. lease[q] \in RunIds
    BY <1>1 DEF IInv, TypeInv, TypeOK
  <2>2. inflight[lease[q]] = 1
    BY <1>1, <2>1 DEF IInv, LockInv, LeaseAccounting
  <2>3. ~finishing[lease[q]] /\ upRun[lease[q]] # "finished"
    BY <1>1, <2>1, <2>2 DEF IInv, RunInv, Retired
  <2> QED
    BY <1>1, <2>3 DEF IInv, RunInv, Claims
<1>2. IInv => NoFinishWhileLeased
  BY <1>1 DEF NoFinishWhileLeased
<1> QED
  BY <1>2, Invariance, PTL

\* FINISH is sent by one process at a time and never after its acknowledgement.
THEOREM FinishedOnce == Spec => []FinishExclusive
<1>1. IInv => FinishExclusive
  BY DEF IInv, RunInv
<1> QED
  BY <1>1, Invariance, PTL

\* No running run is forgotten by rotations, session switches or failures.
THEOREM RunsAccountedFor == Spec => []NoRunLost
<1>1. IInv => NoRunLost
  BY DEF IInv, RunInv
<1> QED
  BY <1>1, Invariance, PTL

\* The answer acquire gives about the cooldown stays true under the lease.
THEOREM CooldownStaysSeen == Spec => []CooldownSeen
<1>1. IInv => CooldownSeen
  BY DEF IInv, LockInv
<1> QED
  BY <1>1, Invariance, PTL
=============================================================================
