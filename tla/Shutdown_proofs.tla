-------------------------- MODULE Shutdown_proofs ---------------------------
(* Proofs of the safety properties of Shutdown for every instance.  The     *)
(* lemmas about the steps of the pool are those of TokenPool_proofs and,     *)
(* for RunLease, of TokenPool_refinement; what is added says how far the     *)
(* pool has come to rest in each phase.                                      *)
EXTENDS Shutdown, TokenPool_refinement

\* The run is one that shutdown took out of the pool: started, and on nobody's
\* way back into it.
Out(r) == upRun[r] # "unused" /\ r \notin CurrentRuns /\ \A p \in Proc : got[p] # r

\* The waits of main and Close: once they are over, and for as long as a
\* FINISH can leave the program, no request and no ticker is at work.
Waited ==
  /\ phase \notin {"serving", "closing"} /\ ~expired => RequestsIdle
  /\ ~Ticking => pc[Maint] = "idle"

\* Nothing is at work but the goroutines that finish rotated runs, and there
\* is nothing in the pool.
AtRest ==
  /\ RequestsIdle
  /\ pc[Maint] = "idle"
  /\ pc[Warm] \in {"idle", "done"}
  /\ CurrentRuns = {}
  /\ draining = {}

CloseInv ==
  /\ phase \in Phases /\ expired \in BOOLEAN /\ alone \in BOOLEAN
  /\ todo \subseteq RunIds /\ gaveUp \subseteq RunIds
  /\ Waited
  /\ \A r \in todo : Out(r)
  /\ todo # {} => phase = "finishing"
  /\ alone => phase \in {"finishing", "ending", "exited"} /\ AtRest

\* The inductive invariant.
ShutInv == TypeInv /\ LockInv /\ RunInv /\ CloseInv /\ NoRunForgotten
-----------------------------------------------------------------------------
\* A step of the pool during the shutdown is a step of TokenPool.
LEMMA GoingIsNext == Going(PoolStep) => Next /\ UNCHANGED closeVars
  BY DEF Going, PoolStep, Next

\* A process at rest is woken by the arrival of a request or a tick only.
LEMMA RestStep ==
  ASSUME TypeInv, PoolStep, NEW o \in Proc, o \notin RunIds,
         pc[o] \in {"idle", "done"}, ~Accepting,
         o = Maint => ~Ticking
  PROVE  pc'[o] = pc[o]
<1> USE PoolAssumption DEF TypeInv, TypeOK, Proc, Goto
<1>1. ASSUME NEW q \in Req, Lock(q) \/ RequestStep(q) PROVE pc'[o] = pc[o]
  BY <1>1 DEF Lock, RequestStep, Recheck, Grant, ReadInstance, Chat, Cooldown,
     InvalidateSession, InvalidateRun, Release, Unlock
<1>2. ASSUME NEW p \in Req \cup {Warm}, SessionStep(p) PROVE pc'[o] = pc[o]
  BY <1>2 DEF SessionStep, SessionProgress, EnsureSession, EnsureCancelled, DeleteSession,
     CreateSession, PollSession, SessionWithoutInstance, ClearRuns, StoreSession
<1>3. ASSUME NEW p \in Req \cup {Maint, Warm}, RotateStep(p)
      PROVE  pc'[o] = pc[o]
  BY <1>3 DEF RotateStep, RotateCheck, StartRun, StartRunFails, InstallRun
<1>4. ASSUME NEW p \in Req \cup {Maint} \cup RunIds, FinishStep(p)
      PROVE  pc'[o] = pc[o]
  BY <1>4 DEF FinishStep, FinishCheck, FinishAcked, FinishFails, FinishDone,
     FinishUndo, FinishReturns
<1>5. ASSUME NEW p \in {Maint, Warm}, LoopStep(p) PROVE pc'[o] = pc[o]
  BY <1>5 DEF LoopStep, NextRotation, LoopDone
<1>6. ASSUME Ticking /\ MaintainTick PROVE pc'[o] = pc[o]
  BY <1>6 DEF MaintainTick
<1>7. ASSUME NextDrained \/ Time PROVE pc'[o] = pc[o]
  BY <1>7 DEF NextDrained, Time, RunAges, SessionExpires, CooldownEnds
<1> QED
  BY <1>1, <1>2, <1>3, <1>4, <1>5, <1>6, <1>7 DEF PoolStep

\* No step of the pool takes a run back that shutdown has taken out.
LEMMA OutStep ==
  ASSUME TypeInv, RunInv, Next, NEW r \in RunIds, Out(r)
  PROVE  Out(r)'
<1> USE PoolAssumption DEF TypeInv, TypeOK, Out, Proc, CurrentRuns
<1>1. ASSUME runs' = runs, got' = got,
             \/ upRun' = upRun
             \/ \E o \in RunIds, u \in {"gone", "finished"} :
                  upRun' = [upRun EXCEPT ![o] = u]
      PROVE  Out(r)'
  BY <1>1
<1>2. ASSUME NEW q \in Req, Arrive(q) \/ Lock(q) \/ RequestStep(q)
      PROVE  Out(r)'
  <2>1. ASSUME Chat(q) PROVE Out(r)'
    BY <2>1 DEF Chat, runVars, workVars
  <2>2. ASSUME InvalidateRun(q) PROVE Out(r)'
    BY <2>2 DEF InvalidateRun, upRunVars, workVars
  <2>3. ASSUME \/ Arrive(q) \/ Lock(q)
               \/ Recheck(q) \/ Grant(q) \/ ReadInstance(q) \/ Cooldown(q)
               \/ InvalidateSession(q) \/ Release(q) \/ Unlock(q)
        PROVE  Out(r)'
    BY <1>1, <2>3 DEF Arrive, Lock, Recheck, Grant, ReadInstance, Cooldown,
       Unlock, InvalidateSession, Release, runVars, upRunVars, workVars
  <2> QED
    BY <1>2, <2>1, <2>2, <2>3 DEF RequestStep
<1>3. ASSUME NEW p \in Req \cup {Warm}, SessionStep(p) PROVE Out(r)'
  <2>1. ASSUME ClearRuns(p) PROVE Out(r)'
    BY <2>1 DEF ClearRuns, workVars, upRunVars
  <2>2. ASSUME \/ EnsureSession(p) \/ EnsureCancelled(p) \/ DeleteSession(p)
               \/ CreateSession(p) \/ PollSession(p)
               \/ SessionWithoutInstance(p) \/ StoreSession(p)
        PROVE  Out(r)'
    BY <1>1, <2>2 DEF EnsureSession, EnsureCancelled, DeleteSession,
       CreateSession, PollSession, SessionWithoutInstance, StoreSession,
       runVars, upRunVars, workVars
  <2> QED
    BY <1>3, <2>1, <2>2 DEF SessionStep, SessionProgress
<1>4. ASSUME NEW p \in Req \cup {Maint, Warm}, RotateStep(p) PROVE Out(r)'
  <2>1. ASSUME StartRun(p) PROVE Out(r)'
    BY <2>1 DEF StartRun, runVars
  <2>2. ASSUME InstallRun(p) PROVE Out(r)'
    BY <2>2 DEF InstallRun, upRunVars
  <2>3. ASSUME RotateCheck(p) \/ StartRunFails(p) PROVE Out(r)'
    BY <1>1, <2>3 DEF RotateCheck, StartRunFails, runVars, upRunVars, workVars
  <2> QED
    BY <1>4, <2>1, <2>2, <2>3 DEF RotateStep
<1>5. ASSUME NEW p \in Req \cup {Maint} \cup RunIds, FinishStep(p)
      PROVE  Out(r)'
  <2>1. ASSUME NEW o \in RunIds, FinishAcked(p, o) PROVE Out(r)'
    BY <1>1, <2>1 DEF FinishAcked, runVars, workVars
  <2>2. ASSUME FinishFails(p) PROVE Out(r)'
    BY <2>2 DEF FinishFails, runVars, workVars
  <2>3. ASSUME FinishDone(p) \/ FinishCheck(p) \/ FinishUndo(p) PROVE Out(r)'
    BY <1>1, <2>3 DEF FinishDone, FinishCheck, FinishUndo, FinishReturns,
       runVars, upRunVars
  <2> QED
    BY <1>5, <2>1, <2>2, <2>3 DEF FinishStep
<1>6. ASSUME \/ \E p \in {Maint, Warm} : LoopStep(p)
             \/ MaintainTick \/ NextDrained \/ Time
      PROVE  Out(r)'
  BY <1>1, <1>6 DEF LoopStep, NextRotation, LoopDone, MaintainTick,
     NextDrained, Time, RunAges, SessionExpires, CooldownEnds, runVars,
     upRunVars, workVars
<1> QED
  BY <1>2, <1>3, <1>4, <1>5, <1>6 DEF Next

\* Once the pool is at rest it stays so: only finishing goes on.
LEMMA AtRestStep ==
  ASSUME TypeInv, LockInv, RunInv, PoolStep, AtRest, ~Accepting, ~Ticking
  PROVE  AtRest'
<1> USE PoolAssumption DEF AtRest, RequestsIdle, Proc
<1>1. RequestsIdle' /\ pc'[Maint] = "idle" /\ pc'[Warm] \in {"idle", "done"}
  BY RestStep
<1>2. \A q \in Req : ~(Lock(q) \/ RequestStep(q))
  BY DEF Lock, RequestStep, Recheck, Grant, ReadInstance, Chat, Cooldown,
     InvalidateSession, InvalidateRun, Release, Unlock
<1>3. \A p \in Req \cup {Warm} : ~SessionStep(p)
  BY DEF SessionStep, SessionProgress, EnsureSession, EnsureCancelled, DeleteSession,
     CreateSession, PollSession, SessionWithoutInstance, ClearRuns, StoreSession
<1>4. \A p \in Req \cup {Maint, Warm} : ~RotateStep(p)
  BY DEF RotateStep, RotateCheck, StartRun, StartRunFails, InstallRun
<1>5. \A p \in {Maint, Warm} : ~LoopStep(p)
  BY DEF LoopStep, NextRotation, LoopDone
<1>6. runs' = runs /\ draining' \subseteq draining
  <2>1. ASSUME NEW p \in Req \cup {Maint} \cup RunIds, FinishStep(p)
        PROVE  runs' = runs /\ draining' \subseteq draining
    BY <2>1 DEF FinishStep, FinishCheck, FinishAcked, FinishFails, FinishDone,
       FinishUndo, FinishReturns, runVars
  <2>2. ASSUME NextDrained \/ Time PROVE runs' = runs /\ draining' = draining
    BY <2>2 DEF NextDrained, Time, RunAges, SessionExpires, CooldownEnds,
       runVars
  <2> QED
    BY <1>2, <1>3, <1>4, <1>5, <2>1, <2>2 DEF PoolStep
<1> QED
  BY <1>1, <1>6 DEF CurrentRuns

\* A step of the pool keeps everything.
LEMMA PoolKeeps ==
  ASSUME ShutInv, Going(PoolStep)
  PROVE  ShutInv'
<1>1. Next /\ PoolStep /\ UNCHANGED closeVars
  BY GoingIsNext DEF Going
<1>2. TypeInv' /\ LockInv' /\ RunInv'
  BY <1>1, TypeStep, LockStep, RunStep DEF ShutInv
<1>3. Waited'
  <2>1. ASSUME phase \notin {"serving", "closing"}, ~expired
        PROVE  RequestsIdle'
    BY <2>1, <1>1, RestStep, PoolAssumption DEF ShutInv, CloseInv, Waited,
       RequestsIdle, Accepting, Proc
  <2>2. ASSUME ~Ticking PROVE pc'[Maint] = "idle"
    BY <2>2, <1>1, RestStep, PoolAssumption DEF ShutInv, CloseInv, Waited,
       Accepting, Ticking, Proc
  <2> QED
    BY <1>1, <2>1, <2>2 DEF Waited, closeVars, Ticking
<1>4. \A r \in todo : Out(r)'
  BY <1>1, OutStep DEF ShutInv, CloseInv
<1>5. alone => AtRest'
  BY <1>1, AtRestStep DEF ShutInv, CloseInv, Accepting, Ticking
<1>6. CloseInv'
  BY <1>1, <1>3, <1>4, <1>5 DEF ShutInv, CloseInv, closeVars
<1>7. NoRunForgotten'
  <2> SUFFICES ASSUME NEW r \in RunIds, r \notin todo \cup gaveUp
               PROVE  (upRun[r] = "running" => Known(r))'
    BY <1>1 DEF NoRunForgotten, closeVars
  <2> QED
    BY <1>1, KnownStep DEF ShutInv, NoRunForgotten
<1> QED
  BY <1>2, <1>6, <1>7 DEF ShutInv

\* The steps of main and Close that leave the pool alone.
LEMMA MainKeeps ==
  ASSUME ShutInv, Signal \/ Expire \/ Stop \/ TickerStops \/ Exit
  PROVE  ShutInv'
<1>1. UNCHANGED vars /\ UNCHANGED <<todo, gaveUp, alone>>
  BY DEF Signal, Expire, Stop, TickerStops, Exit
<1>2. TypeInv' /\ LockInv' /\ RunInv'
  BY <1>1, TypeStep, LockStep, RunStep DEF ShutInv
<1>3. /\ (RequestsIdle <=> RequestsIdle')
      /\ (AtRest <=> AtRest')
      /\ \A r \in RunIds : (Out(r) <=> Out(r)') /\ (Known(r) <=> Known(r)')
      /\ upRun' = upRun /\ pc' = pc
  BY <1>1 DEF RequestsIdle, AtRest, Out, Known, CurrentRuns, vars, runVars,
     workVars, upRunVars
<1>4. CloseInv'
  <2>1. ASSUME Signal PROVE CloseInv'
    BY <1>1, <1>3, <2>1 DEF ShutInv, CloseInv, Signal, Waited, Phases, Ticking
  <2>2. ASSUME Expire PROVE CloseInv'
    BY <1>1, <1>3, <2>2 DEF ShutInv, CloseInv, Expire, Waited, Ticking
  <2>3. ASSUME Stop PROVE CloseInv'
    BY <1>1, <1>3, <2>3 DEF ShutInv, CloseInv, Stop, Waited, Phases, Ticking,
       HttpReturns
  <2>4. ASSUME TickerStops PROVE CloseInv'
    BY <1>1, <1>3, <2>4 DEF ShutInv, CloseInv, TickerStops, Waited, Phases,
       Ticking, TickerGone
  <2>5. ASSUME Exit PROVE CloseInv'
    BY <1>1, <1>3, <2>5 DEF ShutInv, CloseInv, Exit, Waited, Phases, Ticking
  <2> QED
    BY <2>1, <2>2, <2>3, <2>4, <2>5
<1>5. NoRunForgotten'
  BY <1>1, <1>3 DEF ShutInv, NoRunForgotten
<1> QED
  BY <1>2, <1>4, <1>5 DEF ShutInv

\* shutdown takes the runs out of the pool.
LEMMA TakeKeeps ==
  ASSUME ShutInv, TakeRuns
  PROVE  ShutInv'
<1> USE PoolAssumption DEF ShutInv, TakeRuns, AllRuns, lockVars, sessionVars,
   leaseVars, workVars, upRunVars
<1>1. CurrentRuns' = {}
  BY DEF CurrentRuns
<1>2. TypeInv'
  BY DEF TypeInv, TypeOK, Places, AgentKnown, AttemptLeft
<1>3. LockInv'
  BY DEF LockInv, OneRequestPerToken, SwitchExclusive, CooldownSeen,
     LeaseAccounting
<1>4. RunInv'
  <2>1. Claims' /\ FinishExclusive' /\ Dropped'
    BY DEF RunInv, Claims, FinishExclusive, Dropped
  <2>2. Retired' /\ RunsDisjoint'
    BY <1>1 DEF RunInv, Retired, RunsDisjoint
  <2>3. Fresh'
    BY <1>1 DEF RunInv, Fresh, Unheard
  <2> QED
    BY <2>1, <2>2, <2>3 DEF RunInv
<1>5. \A r \in todo' : Out(r)'
  BY <1>1 DEF Out, RunInv, Fresh, Unheard, TypeInv, TypeOK, CurrentRuns
<1>6. CurrentRuns \cup draining \subseteq RunIds
  BY DEF TypeInv, TypeOK, CurrentRuns
<1>7. CloseInv'
  BY <1>1, <1>5, <1>6 DEF CloseInv, Waited, RequestsIdle, AtRest, Phases,
     Ticking
<1>8. NoRunForgotten'
  BY DEF NoRunForgotten, CloseInv, Known
<1> QED
  BY <1>2, <1>3, <1>4, <1>7, <1>8

\* shutdown finishes a run: while a FINISH leaves the program nobody leases.
LEMMA CloseRunKeeps ==
  ASSUME ShutInv, NEW r \in RunIds, CloseRun(r)
  PROVE  ShutInv'
<1> USE PoolAssumption DEF ShutInv, CloseRun, lockVars, runVars, sessionVars,
   leaseVars, workVars
<1>1. CurrentRuns' = CurrentRuns /\ (RequestsIdle <=> RequestsIdle')
      /\ (AtRest <=> AtRest')
  BY DEF CurrentRuns, RequestsIdle, AtRest
<1>2. upRun' # upRun => RequestsIdle /\ upRun' = [upRun EXCEPT ![r] = "finished"]
  BY DEF CloseInv, Waited
<1>3. RequestsIdle => inflight[r] = 0 /\ \A q \in Req : pc[q] # "drop"
  BY DEF RequestsIdle, LockInv, LeaseAccounting
<1>4. TypeInv'
  BY DEF TypeInv, TypeOK, Places, AgentKnown, AttemptLeft
<1>5. LockInv'
  BY DEF LockInv, OneRequestPerToken, SwitchExclusive, CooldownSeen,
     LeaseAccounting
<1>6. RunInv'
  <2>1. Out(r)
    BY DEF CloseInv
  <2>2. Claims' /\ FinishExclusive'
    <3>1. \A o \in RunIds : upRun[o] = "finished" => upRun'[o] = "finished"
      BY <1>2 DEF TypeInv, TypeOK
    <3>2. UNCHANGED <<pc, fin, finishing, acked>>
      OBVIOUS
    <3> QED
      BY <3>1, <3>2 DEF RunInv, Claims, Claiming, FinishExclusive
  <2>3. Dropped'
    BY <1>2, <1>3 DEF RunInv, Dropped
  <2>4. Retired' /\ RunsDisjoint'
    BY <1>1, <1>2, <1>3, <2>1 DEF RunInv, Retired, RunsDisjoint, Out, TypeInv,
       TypeOK
  <2>5. Fresh'
    BY <1>1, <2>1 DEF RunInv, Fresh, Unheard, Out, TypeInv, TypeOK
  <2> QED
    BY <2>2, <2>3, <2>4, <2>5 DEF RunInv
<1>7. \A o \in todo : Out(o)'
  BY <1>1 DEF CloseInv, Out, TypeInv, TypeOK
<1>8. CloseInv'
  BY <1>1, <1>7 DEF CloseInv, Waited, Ticking
<1>9. NoRunForgotten'
  BY <1>1 DEF NoRunForgotten, Known, TypeInv, TypeOK
<1> QED
  BY <1>4, <1>5, <1>6, <1>8, <1>9

\* endSession forgets the session.
LEMMA EndSessionKeeps ==
  ASSUME ShutInv, EndSession
  PROVE  ShutInv'
<1> USE PoolAssumption DEF ShutInv, EndSession, lockVars, leaseVars, workVars,
   upRunVars, runVars
<1>1. CurrentRuns' = CurrentRuns
  BY DEF CurrentRuns
<1>2. TypeInv'
  BY DEF TypeInv, TypeOK, Places, AgentKnown, AttemptLeft
<1>3. LockInv'
  BY DEF LockInv, OneRequestPerToken, SwitchExclusive, CooldownSeen,
     LeaseAccounting
<1>4. RunInv'
  BY <1>1 DEF RunInv, Claims, FinishExclusive, Retired, Fresh, Unheard,
     Dropped, RunsDisjoint
<1>5. CloseInv'
  BY <1>1 DEF CloseInv, Waited, Ticking, RequestsIdle, AtRest, Phases, Out
<1>6. NoRunForgotten'
  BY <1>1 DEF NoRunForgotten, Known
<1> QED
  BY <1>2, <1>3, <1>4, <1>5, <1>6
-----------------------------------------------------------------------------
\* At the start nothing has been shut down.
LEMMA InitShut == InitClose => ShutInv
<1> SUFFICES ASSUME InitClose PROVE ShutInv
  OBVIOUS
<1>1. IInv
  BY InitIInv DEF InitClose
<1>2. CloseInv
  BY DEF InitClose, CloseInv, Waited, Ticking, Phases
<1>3. NoRunForgotten
  BY <1>1 DEF IInv, NoRunLost, NoRunForgotten
<1> QED
  BY <1>1, <1>2, <1>3 DEF IInv, ShutInv

LEMMA StepShut == ShutInv /\ [NextClose]_allVars => ShutInv'
<1> SUFFICES ASSUME ShutInv, [NextClose]_allVars PROVE ShutInv'
  OBVIOUS
<1>1. CASE UNCHANGED allVars
  <2>1. UNCHANGED vars /\ UNCHANGED closeVars
    BY <1>1 DEF allVars
  <2>2. TypeInv' /\ LockInv' /\ RunInv'
    BY <2>1, TypeStep, LockStep, RunStep DEF ShutInv
  <2>3. CloseInv' /\ NoRunForgotten'
    BY <2>1 DEF ShutInv, CloseInv, Waited, Ticking, RequestsIdle, AtRest, Out,
       NoRunForgotten, Known, CurrentRuns, closeVars, vars, runVars, workVars,
       upRunVars
  <2> QED
    BY <2>2, <2>3 DEF ShutInv
<1> QED
  BY <1>1, PoolKeeps, MainKeeps, TakeKeeps, CloseRunKeeps, EndSessionKeeps
     DEF NextClose, CloseStep

\* The invariant of the program with its end: the pool's own invariant, and
\* what main and Close have waited for.
THEOREM ShutdownInvariance == SpecClose => []ShutInv
  BY InitShut, StepShut, PTL DEF SpecClose

\* shutdown finishes runs whatever their inflight counter says; that it never
\* finishes one under a request is the merit of httpServer.Shutdown before it.
THEOREM ShutdownSparesLeases == SpecClose => []NoFinishWhileLeased
<1>1. ASSUME ShutInv, NEW q \in Req, lease[q] # NoRun
      PROVE  /\ upRun[lease[q]] # "finished"
             /\ \A p \in Proc : ~(pc[p] \in Claiming /\ fin[p] = lease[q])
  <2>1. lease[q] \in RunIds
    BY <1>1 DEF ShutInv, TypeInv, TypeOK
  <2>2. inflight[lease[q]] = 1
    BY <1>1, <2>1 DEF ShutInv, LockInv, LeaseAccounting
  <2>3. ~finishing[lease[q]] /\ upRun[lease[q]] # "finished"
    BY <2>1, <2>2, <1>1 DEF ShutInv, RunInv, Retired
  <2> QED
    BY <2>3, <1>1 DEF ShutInv, RunInv, Claims
<1>2. ShutInv => NoFinishWhileLeased
  BY <1>1 DEF NoFinishWhileLeased
<1> QED
  BY <1>2, ShutdownInvariance, PTL

\* No run of the account is forgotten before or during the shutdown.
THEOREM ShutdownForgetsNoRun == SpecClose => []NoRunForgotten
<1>1. ShutInv => NoRunForgotten
  BY DEF ShutInv
<1> QED
  BY <1>1, ShutdownInvariance, PTL

\* What a program leaves open that had come to rest is what the upstream has
\* refused to finish.
THEOREM ExitLeavesNothing == SpecClose => []NothingLeftOpen
<1>1. ASSUME ShutInv, phase = "exited", alone, NEW r \in RunIds,
             upRun[r] = "running"
      PROVE  r \in gaveUp
  <2>1. AtRest /\ todo = {}
    BY <1>1 DEF ShutInv, CloseInv
  <2>2. \A p \in Proc : pc[p] # "install"
    BY <1>1, <2>1 DEF AtRest, RequestsIdle, Proc, ShutInv, TypeInv, Places,
       Claiming
  <2> QED
    BY <1>1, <2>1, <2>2 DEF ShutInv, NoRunForgotten, Known, AtRest
<1>2. ShutInv => NothingLeftOpen
  BY <1>1 DEF NothingLeftOpen
<1> QED
  BY <1>2, ShutdownInvariance, PTL

\* The types of Shutdown.
THEOREM ShutdownTypes == SpecClose => []TypeOKClose
<1>1. ShutInv => TypeOKClose
  BY DEF ShutInv, TypeInv, CloseInv, TypeOKClose
<1> QED
  BY <1>1, ShutdownInvariance, PTL
-----------------------------------------------------------------------------
\* A FINISH that shutdown sends closes a run that nobody has, or one that is closed.
LEMMA CloseRunCloses ==
  ASSUME ShutInv, NEW r \in RunIds, CloseRun(r)
  PROVE  Lease!Close(r) \/ UNCHANGED Lease!vars
<1> USE DEF ShutInv, CloseRun, lockVars, leaseVars
<1>1. CASE UNCHANGED upRun
  BY <1>1, Unconcerned
<1>2. CASE ~expired /\ upRun' = [upRun EXCEPT ![r] = "finished"]
  <2>1. upRun \in [RunIds -> {"unused", "running", "gone", "finished"}]
    BY DEF TypeInv, TypeOK
  <2>2. upRun[r] # "unused"
    BY DEF CloseInv, Out
  <2>3. Lent = NoRun
    <3>1. RequestsIdle
      BY <1>2 DEF CloseInv, Waited
    <3>2. \A q \in Req : lease[q] = NoRun
      BY <3>1 DEF RequestsIdle, LockInv, LeaseAccounting
    <3>3. reqMu \in Req \cup {Nobody}
      BY DEF TypeInv, TypeOK
    <3> QED
      BY <3>2, <3>3 DEF Lent
  <2>4. UNCHANGED <<reqMu, Lent>>
    BY DEF Lent
  <2>5. CASE upRun[r] = "finished"
    <3>1. upRun' = upRun
      BY <1>2, <2>1, <2>5
    <3> QED
      BY <3>1, Unconcerned
  <2>6. CASE upRun[r] # "finished"
    <3>1. Life[r] = "open" /\ Life' = [Life EXCEPT ![r] = "closed"]
      BY <1>2, <2>1, <2>2, <2>6 DEF Life
    <3>2. Lent # r
      BY <2>3, PoolAssumption
    <3> QED
      BY <2>4, <3>1, <3>2 DEF Lent, Lease!Close
  <2> QED
    BY <2>5, <2>6
<1> QED
  BY <1>1, <1>2

\* Until the program has exited, and whatever goes on in it by then, the pool keeps
\* what it promises to requests: shutdown closes the runs it has taken, at any
\* moment, side by side with rotations that finish the same ones.
THEOREM ShutdownImplementsLease == SpecClose => ImplementsRunLease
<1>1. InitClose => Lease!Init
  BY DEF InitClose, Init, Lease!Init, Life
<1>2. ASSUME ShutInv, [NextClose]_allVars
      PROVE  [Lease!Next]_Lease!vars
  <2>1. CASE Going(PoolStep)
    BY <1>2, <2>1, GoingIsNext, LeaseStep DEF ShutInv
  <2>2. ASSUME NEW r \in RunIds, CloseRun(r) PROVE [Lease!Next]_Lease!vars
    BY <1>2, <2>2, CloseRunCloses DEF Lease!Next
  <2>3. CASE \/ Signal \/ Expire \/ Stop \/ TickerStops \/ TakeRuns \/ EndSession \/ Exit
             \/ UNCHANGED allVars
    <3>1. UNCHANGED <<reqMu, lease, upRun>>
      BY <2>3 DEF Signal, Expire, Stop, TickerStops, TakeRuns, EndSession, Exit,
         allVars, vars, lockVars, leaseVars, upRunVars
    <3> QED
      BY <3>1, Unconcerned
  <2> QED
    BY <1>2, <2>1, <2>2, <2>3 DEF NextClose, CloseStep
<1> QED
  BY <1>1, <1>2, ShutdownInvariance, PTL DEF SpecClose, ImplementsRunLease, Lease!Spec
=============================================================================
