----------------------------- MODULE TokenPool -----------------------------
(***************************************************************************)
(* One upstream token and everything that works on it at the same time:    *)
(* the client requests that lease a run (run_manager.go acquire / release, *)
(* server.go proxyChatRequest), the free session they share                *)
(* (free_session.go ensureSession / switchSession), the prewarmer started  *)
(* with the pool, the maintenance ticker, and the goroutines that finish   *)
(* rotated runs.                                                           *)
(*                                                                         *)
(* One action is one critical section of p.mu, or one call of the upstream *)
(* together with its reply.  Between two of them every other process may   *)
(* run, which is exactly what the Go code allows.                          *)
(***************************************************************************)
EXTENDS Naturals

CONSTANTS
  Req,           \* client requests (the goroutines net/http runs handlers in)
  Models,        \* model names the registry exposes
  Agents,        \* agent ids
  Serves,        \* pairs <<model, agent>> that AgentForModel may return
  DefaultModel,  \* the model ensureSession substitutes for ""
  WarmAgents,    \* the agents prewarm rotates
  RunIds,        \* bound: the run ids the upstream can hand out
  MaxSess,       \* bound: how many session instances the upstream creates
  Maint, Warm,   \* the maintenance ticker and the prewarmer
  Background,    \* bound: which of the two are at work in an instance
  Nobody, NoRun, NoAgent, NoSession

\* The retry loop of proxyChatRequest runs at most twice.
MaxAttempts == 2

\* finishIfReady of a rotated run runs in a goroutine of its own: that
\* goroutine is named after the run.
Proc == Req \cup {Maint, Warm} \cup RunIds

ASSUME PoolAssumption ==
  /\ Serves \subseteq Models \X Agents
  /\ DefaultModel \in Models
  /\ WarmAgents \subseteq Agents
  /\ MaxSess \in Nat
  /\ Maint # Warm
  /\ Background \subseteq {Maint, Warm}
  /\ Req \cap RunIds = {}
  /\ {Maint, Warm} \cap (Req \cup RunIds) = {}
  /\ Nobody \notin Proc
  /\ NoRun \notin RunIds
  /\ NoAgent \notin Agents
  /\ NoSession \notin [st : {"active", "disabled"}, model : Models,
                       inst : Nat, fresh : BOOLEAN]

VARIABLES
  pc,          \* where each process is
  reqMu,       \* the process holding p.reqMu, or Nobody
  runs,        \* p.runs: the current run of each agent, or NoRun
  draining,    \* p.draining (a set: see RunsDisjoint)
  inflight,    \* run.inflight
  finishing,   \* run.finishing
  aged,        \* current runs with time.Since(startedAt) >= RotationInterval
  session,     \* p.session together with p.sessionModel
  switcher,    \* the process that created p.sessionRefreshCh, or Nobody
  cooling,     \* now is before p.cooldownUntil
  model,       \* the model each process works for
  agent,       \* the agent each process acquires or rotates
  got,         \* the run id StartRun returned to a process
  made,        \* the session switchSession returned to a process
  fin,         \* the run a process passed to finishIfReady
  lease,       \* the run a request leases
  sent,        \* the session instance a request put in its metadata
  attempt,     \* iterations of the retry loop a request has begun
  result,      \* what the current attempt of a request came to
  rotateTodo,  \* agents maintain or prewarm have still to rotate
  finishTodo,  \* drained runs maintain has still to finish
  upRun,       \* upstream: the state of each run
  root,        \* upstream: the session instance an open run was started under
  instances,   \* upstream: session instances created so far; a new one
               \* supersedes the one before
  acked        \* history: runs whose FINISH the upstream acknowledged

lockVars    == <<reqMu, attempt, result>>
runVars     == <<runs, draining, inflight, finishing, aged>>
sessionVars == <<session, switcher, made, instances>>
leaseVars   == <<lease, sent>>
workVars    == <<model, agent, got, fin, rotateTodo, finishTodo>>
upRunVars   == <<upRun, root, acked>>
vars == <<pc, lockVars, runVars, sessionVars, cooling, leaseVars, workVars,
          upRunVars>>

Session == [st : {"active", "disabled"}, model : Models,
            inst : 0..MaxSess, fresh : BOOLEAN]

\* The sessions switchSession returns.
Active(m, i) == [st |-> "active", model |-> m, inst |-> i, fresh |-> TRUE]

Disabled(m) == [st |-> "disabled", model |-> m, inst |-> 0, fresh |-> TRUE]

PCs == {"idle", "lock", "ensure", "delete", "create", "poll", "clear", "store",
        "recheck", "rotate", "start", "install", "grant", "read", "chat",
        "cool", "inval", "drop", "release", "fcheck", "fcall", "fok", "ferr",
        "unlock", "next", "done"}

\* The runs some agent currently uses.
CurrentRuns == {runs[a] : a \in Agents} \ {NoRun}

Goto(p, l) == pc' = [pc EXCEPT ![p] = l]

Init ==
  /\ pc = [p \in Proc |-> IF p = Warm /\ p \in Background THEN "ensure"
                         ELSE "idle"]
  /\ reqMu = Nobody
  /\ attempt = [q \in Req |-> 0]
  /\ result = [q \in Req |-> "error"]
  /\ runs = [a \in Agents |-> NoRun]
  /\ draining = {}
  /\ inflight = [r \in RunIds |-> 0]
  /\ finishing = [r \in RunIds |-> FALSE]
  /\ aged = {}
  /\ session = NoSession
  /\ switcher = Nobody
  /\ made = [p \in Proc |-> NoSession]
  /\ instances = 0
  /\ cooling = FALSE
  /\ lease = [q \in Req |-> NoRun]
  /\ sent = [q \in Req |-> 0]
  /\ model = [p \in Proc |-> DefaultModel]
  /\ agent = [p \in Proc |-> NoAgent]
  /\ got = [p \in Proc |-> NoRun]
  /\ fin = [p \in Proc |-> NoRun]
  /\ rotateTodo = [p \in {Maint, Warm} |->
                     IF p = Warm THEN WarmAgents ELSE {}]
  /\ finishTodo = {}
  /\ upRun = [r \in RunIds |-> "unused"]
  /\ root = [r \in RunIds |-> 0]
  /\ acked = {}
-----------------------------------------------------------------------------
(* Where a process goes on when a shared procedure returns.                *)

\* (Variant: the error return of acquire that forgets p.reqMu.)
AfterEnsureKeepsLock(p, ok) ==
  IF p = Warm THEN "next" ELSE IF ok THEN "recheck" ELSE "idle"

AfterEnsure(p, ok) ==
  IF p = Warm THEN "next" ELSE IF ok THEN "recheck" ELSE "unlock"

AfterRotate(p, ok) ==
  IF p \in {Maint, Warm} THEN "next" ELSE IF ok THEN "grant" ELSE "unlock"

FinishReturns(p) ==
  /\ Goto(p, IF p \in Req THEN "unlock"
             ELSE IF p = Maint THEN "next" ELSE "done")
  /\ fin' = [fin EXCEPT ![p] = NoRun]
-----------------------------------------------------------------------------
(* A client request: proxyChatRequest and acquire.                         *)

\* A request for model m arrives; the registry maps it to agent a.
Arrive(q) ==
  /\ pc[q] = "idle"
  /\ \E ma \in Serves :
       /\ model' = [model EXCEPT ![q] = ma[1]]
       /\ agent' = [agent EXCEPT ![q] = ma[2]]
  /\ Goto(q, "lock")
  /\ UNCHANGED <<lockVars, runVars, sessionVars, cooling, leaseVars,
                 got, fin, rotateTodo, finishTodo, upRunVars>>

\* (Variant: p.reqMu is not taken into account.)
TokenFreeAlways == TRUE

TokenFree == reqMu = Nobody

\* acquire takes p.reqMu and turns the request away while cooling down.
Lock(q) ==
  /\ pc[q] = "lock"
  /\ TokenFree
  /\ reqMu' = q
  /\ attempt' = [attempt EXCEPT ![q] = @ + 1]
  /\ Goto(q, IF cooling THEN "unlock" ELSE "ensure")
  /\ UNCHANGED <<result, runVars, sessionVars, cooling, leaseVars, workVars,
                 upRunVars>>

\* acquire decides again, after ensureSession, whether a new run is needed.
Recheck(q) ==
  /\ pc[q] = "recheck"
  /\ Goto(q, IF runs[agent[q]] = NoRun \/ runs[agent[q]] \in aged
             THEN "rotate" ELSE "grant")
  /\ UNCHANGED <<lockVars, runVars, sessionVars, cooling, leaseVars, workVars,
                 upRunVars>>

\* acquire counts the request in; "run missing after rotation" otherwise.
Grant(q) ==
  /\ pc[q] = "grant"
  /\ \/ /\ runs[agent[q]] = NoRun
        /\ Goto(q, "unlock")
        /\ UNCHANGED <<inflight, lease>>
     \/ \E r \in RunIds :
          /\ runs[agent[q]] = r
          /\ inflight' = [inflight EXCEPT ![r] = @ + 1]
          /\ lease' = [lease EXCEPT ![q] = r]
          /\ Goto(q, "read")
  /\ UNCHANGED <<lockVars, runs, draining, finishing, aged, sessionVars,
                 cooling, sent, workVars, upRunVars>>

\* currentSessionInstanceID, read after acquire has returned the lease.
ReadInstance(q) ==
  /\ pc[q] = "read"
  /\ sent' = [sent EXCEPT ![q] = IF session = NoSession THEN 0
                                 ELSE session.inst]
  /\ Goto(q, "chat")
  /\ UNCHANGED <<lockVars, runVars, sessionVars, cooling, lease, workVars,
                 upRunVars>>

\* ChatCompletions and the classification of its outcome.  A reply
\* "runid not found / not running" says that the upstream gave the run up.
Chat(q) ==
  /\ pc[q] = "chat"
  /\ \E reply \in {"ok", "failed", "sessionInvalid", "runInvalid", "denied"} :
       /\ result' = [result EXCEPT ![q] =
            CASE reply = "ok" -> "ok"
              [] reply \in {"sessionInvalid", "runInvalid"} -> "retry"
              [] OTHER -> "error"]
       /\ Goto(q, CASE reply = "sessionInvalid" -> "inval"
                    [] reply = "runInvalid" -> "drop"
                    [] reply = "denied" -> "cool"
                    [] OTHER -> "release")
       /\ upRun' = IF reply = "runInvalid"
                   THEN [upRun EXCEPT ![lease[q]] = "gone"] ELSE upRun
  /\ UNCHANGED <<reqMu, attempt, runVars, sessionVars, cooling, leaseVars,
                 workVars, root, acked>>

\* markCooldown after a 401 of the upstream.
Cooldown(q) ==
  /\ pc[q] = "cool"
  /\ cooling' = TRUE
  /\ Goto(q, "inval")
  /\ UNCHANGED <<lockVars, runVars, sessionVars, leaseVars, workVars, upRunVars>>

\* invalidateSession forgets whatever session is cached now.
InvalidateSession(q) ==
  /\ pc[q] = "inval"
  /\ session' = NoSession
  /\ Goto(q, "release")
  /\ UNCHANGED <<lockVars, runVars, switcher, made, instances, cooling,
                 leaseVars, workVars, upRunVars>>

\* (Variant: the count of the run is reset with it.)
InvalidateRunResetsCount(q) ==
  /\ pc[q] = "drop"
  /\ runs' = [a \in Agents |->
                IF a = agent[q] /\ runs[a] = lease[q] THEN NoRun ELSE runs[a]]
  /\ draining' = draining \ {lease[q]}
  /\ aged' = aged \ {lease[q]}
  /\ inflight' = [inflight EXCEPT ![lease[q]] = 0]
  /\ Goto(q, "release")
  /\ UNCHANGED <<lockVars, finishing, sessionVars, cooling,
                 leaseVars, workVars, upRunVars>>

\* invalidate takes the run out of p.runs, if it is current, and p.draining.
InvalidateRun(q) ==
  /\ pc[q] = "drop"
  /\ runs' = [a \in Agents |->
                IF a = agent[q] /\ runs[a] = lease[q] THEN NoRun ELSE runs[a]]
  /\ draining' = draining \ {lease[q]}
  /\ aged' = aged \ {lease[q]}
  /\ Goto(q, "release")
  /\ UNCHANGED <<lockVars, inflight, finishing, sessionVars, cooling,
                 leaseVars, workVars, upRunVars>>

\* release counts the request out and calls finishIfReady.
Release(q) ==
  /\ pc[q] = "release"
  /\ inflight' = [inflight EXCEPT ![lease[q]] = IF @ > 0 THEN @ - 1 ELSE 0]
  /\ fin' = [fin EXCEPT ![q] = lease[q]]
  /\ lease' = [lease EXCEPT ![q] = NoRun]
  /\ sent' = [sent EXCEPT ![q] = 0]
  /\ Goto(q, "fcheck")
  /\ UNCHANGED <<lockVars, runs, draining, finishing, aged, sessionVars,
                 cooling, model, agent, got, rotateTodo, finishTodo,
                 upRunVars>>

\* (Variant: the loop's bound is one too many.)
RetriesOnceMore(q) == result[q] = "retry" /\ attempt[q] <= MaxAttempts

Retries(q) == result[q] = "retry" /\ attempt[q] < MaxAttempts

\* p.reqMu is released last; an invalid session or run is worth one retry.
Unlock(q) ==
  /\ pc[q] = "unlock"
  /\ reqMu' = Nobody
  /\ result' = [result EXCEPT ![q] = "error"]
  /\ \/ /\ Retries(q)
        /\ Goto(q, "lock")
        /\ UNCHANGED <<attempt, model, agent>>
     \/ /\ ~Retries(q)
        /\ Goto(q, "idle")
        /\ attempt' = [attempt EXCEPT ![q] = 0]
        /\ model' = [model EXCEPT ![q] = DefaultModel]
        /\ agent' = [agent EXCEPT ![q] = NoAgent]
  /\ UNCHANGED <<runVars, sessionVars, cooling, leaseVars, got, fin,
                 rotateTodo, finishTodo, upRunVars>>
-----------------------------------------------------------------------------
(* The session: ensureSession and switchSession.                           *)

\* readySessionLocked.
Ready(m) ==
  /\ session # NoSession
  /\ session.model = m
  /\ session.st = "disabled" \/ session.fresh

\* (Variant: nobody looks whether another process switches.)
MaySwitchAlways == TRUE

MaySwitch == switcher = Nobody

\* The cached session will do, or this process becomes the one that switches.
EnsureSession(p) ==
  /\ pc[p] = "ensure"
  /\ \/ /\ Ready(model[p])
        /\ Goto(p, AfterEnsure(p, TRUE))
        /\ UNCHANGED switcher
     \/ /\ ~Ready(model[p])
        /\ MaySwitch
        /\ switcher' = p
        /\ Goto(p, "delete")
  /\ UNCHANGED <<lockVars, runVars, session, made, instances, cooling,
                 leaseVars, workVars, upRunVars>>

\* The context ends while the process waits for another one to switch.
EnsureCancelled(p) ==
  /\ pc[p] = "ensure"
  /\ ~Ready(model[p])
  /\ switcher # Nobody
  /\ Goto(p, AfterEnsure(p, FALSE))
  /\ UNCHANGED <<lockVars, runVars, sessionVars, cooling, leaseVars, workVars,
                 upRunVars>>

\* DELETE of the old session, its failure ignored, and one second of sleep
\* that the context may cut short.
DeleteSession(p) ==
  /\ pc[p] = "delete"
  /\ \E cancelled \in BOOLEAN :
       Goto(p, IF cancelled THEN "store" ELSE "create")
  /\ UNCHANGED <<lockVars, runVars, sessionVars, cooling, leaseVars, workVars,
                 upRunVars>>

\* POST that creates a session: active at once, or queued.
CreateSession(p) ==
  /\ pc[p] = "create"
  /\ instances < MaxSess
  /\ instances' = instances + 1
  /\ made' = [made EXCEPT ![p] = Active(model[p], instances + 1)]
  /\ \E queued \in BOOLEAN : Goto(p, IF queued THEN "poll" ELSE "clear")
  /\ UNCHANGED <<lockVars, runVars, session, switcher, cooling, leaseVars,
                 workVars, upRunVars>>

\* GET of a queued session: admitted, or lost and to be created again.
\* (A reply "queued" leaves everything as it is.)
PollSession(p) ==
  /\ pc[p] = "poll"
  /\ \E l \in {"clear", "create"} : Goto(p, l)
  /\ UNCHANGED <<lockVars, runVars, sessionVars, cooling, leaseVars, workVars,
                 upRunVars>>

\* POST or GET answers "disabled", or fails, or the context ends.
SessionWithoutInstance(p) ==
  /\ pc[p] \in {"create", "poll"}
  /\ \E s \in {NoSession, Disabled(model[p])} : made' = [made EXCEPT ![p] = s]
  /\ Goto(p, "store")
  /\ UNCHANGED <<lockVars, runVars, session, switcher, instances,
                 cooling, leaseVars, workVars, upRunVars>>

\* (Variants: the old runs are dropped, or stay current.)
ClearRunsForgets(p) ==
  /\ pc[p] = "clear"
  /\ runs' = [a \in Agents |-> NoRun]
  /\ aged' = {}
  /\ Goto(p, "store")
  /\ UNCHANGED <<lockVars, draining, inflight, finishing, sessionVars, cooling,
                 leaseVars, workVars, upRunVars>>

ClearRunsKeeps(p) ==
  /\ pc[p] = "clear"
  /\ draining' = draining \cup CurrentRuns
  /\ Goto(p, "store")
  /\ UNCHANGED <<lockVars, runs, aged, inflight, finishing, sessionVars, cooling,
                 leaseVars, workVars, upRunVars>>

\* switchSession drains every current run: they belong to the old session.
ClearRuns(p) ==
  /\ pc[p] = "clear"
  /\ draining' = draining \cup CurrentRuns
  /\ runs' = [a \in Agents |-> NoRun]
  /\ aged' = {}
  /\ Goto(p, "store")
  /\ UNCHANGED <<lockVars, inflight, finishing, sessionVars, cooling,
                 leaseVars, workVars, upRunVars>>

\* (Variant: a switch that failed returns without closing the channel.)
StoreSessionWakesNobody(p) ==
  /\ pc[p] = "store"
  /\ session' = made[p]
  /\ switcher' = IF made[p] = NoSession THEN switcher ELSE Nobody
  /\ made' = [made EXCEPT ![p] = NoSession]
  /\ Goto(p, AfterEnsure(p, made[p] # NoSession))
  /\ UNCHANGED <<lockVars, runVars, instances, cooling,
                 leaseVars, workVars, upRunVars>>

\* ensureSession publishes the outcome and wakes the waiting processes.
StoreSession(p) ==
  /\ pc[p] = "store"
  /\ session' = made[p]
  /\ switcher' = Nobody
  /\ made' = [made EXCEPT ![p] = NoSession]
  /\ Goto(p, AfterEnsure(p, made[p] # NoSession))
  /\ UNCHANGED <<lockVars, runVars, instances, cooling,
                 leaseVars, workVars, upRunVars>>
-----------------------------------------------------------------------------
(* The runs: rotateAgent and finishIfReady.                                *)

RotateCheck(p) ==
  /\ pc[p] = "rotate"
  /\ Goto(p, IF cooling THEN AfterRotate(p, FALSE) ELSE "start")
  /\ UNCHANGED <<lockVars, runVars, sessionVars, cooling, leaseVars, workVars,
                 upRunVars>>

\* START: the upstream starts a run under the account's session of this moment.
StartRun(p) ==
  /\ pc[p] = "start"
  /\ \E r \in RunIds :
       /\ upRun[r] = "unused"
       /\ upRun' = [upRun EXCEPT ![r] = "running"]
       /\ root' = [root EXCEPT ![r] = instances]
       /\ got' = [got EXCEPT ![p] = r]
  /\ Goto(p, "install")
  /\ UNCHANGED <<lockVars, runVars, sessionVars, cooling, leaseVars, model,
                 agent, fin, rotateTodo, finishTodo, acked>>

StartRunFails(p) ==
  /\ pc[p] = "start"
  /\ Goto(p, AfterRotate(p, FALSE))
  /\ UNCHANGED <<lockVars, runVars, sessionVars, cooling, leaseVars, workVars,
                 upRunVars>>

\* The new run becomes current; a goroutine takes care of the old one.
InstallRun(p) ==
  /\ pc[p] = "install"
  /\ runs' = [runs EXCEPT ![agent[p]] = got[p]]
  /\ got' = [got EXCEPT ![p] = NoRun]
  /\ \/ /\ runs[agent[p]] = NoRun
        /\ Goto(p, AfterRotate(p, TRUE))
        /\ UNCHANGED <<draining, aged, fin>>
     \/ \E old \in RunIds :
          /\ runs[agent[p]] = old
          /\ draining' = draining \cup {old}
          /\ aged' = aged \ {old}
          /\ fin' = [fin EXCEPT ![old] = old]
          /\ pc' = [pc EXCEPT ![p] = AfterRotate(p, TRUE), ![old] = "fcheck"]
  /\ UNCHANGED <<lockVars, inflight, finishing, sessionVars, cooling,
                 leaseVars, model, agent, rotateTodo, finishTodo, upRunVars>>

\* (Variants: a condition of finishIfReady is missing.)
FinishableLeased(r) == ~finishing[r] /\ r \notin CurrentRuns

FinishableTwice(r) == inflight[r] = 0 /\ r \notin CurrentRuns

\* finishIfReady claims a run nobody leases, finishes or uses as current.
\* (p.runs is only ever looked up under the run's own agent.)
Finishable(r) == inflight[r] = 0 /\ ~finishing[r] /\ r \notin CurrentRuns

FinishCheck(p) ==
  /\ pc[p] = "fcheck"
  /\ IF Finishable(fin[p])
     THEN /\ finishing' = [finishing EXCEPT ![fin[p]] = TRUE]
          /\ Goto(p, "fcall")
          /\ UNCHANGED fin
     ELSE /\ FinishReturns(p)
          /\ UNCHANGED finishing
  /\ UNCHANGED <<lockVars, runs, draining, inflight, aged, sessionVars,
                 cooling, leaseVars, model, agent, got, rotateTodo, finishTodo,
                 upRunVars>>

\* FINISH is acknowledged (a run the upstream gave up may be, too).
FinishAcked(p, r) ==
  /\ pc[p] = "fcall"
  /\ fin[p] = r
  /\ upRun' = [upRun EXCEPT ![r] = "finished"]
  /\ root' = [root EXCEPT ![r] = 0]
  /\ acked' = acked \cup {r}
  /\ Goto(p, "fok")
  /\ UNCHANGED <<lockVars, runVars, sessionVars, cooling, leaseVars, workVars>>

\* FINISH fails; the upstream may have carried it out all the same.
FinishFails(p) ==
  /\ pc[p] = "fcall"
  /\ upRun' \in {upRun, [upRun EXCEPT ![fin[p]] = "finished"]}
  /\ Goto(p, "ferr")
  /\ UNCHANGED <<lockVars, runVars, sessionVars, cooling, leaseVars, workVars,
                 root, acked>>

FinishDone(p) ==
  /\ pc[p] = "fok"
  /\ draining' = draining \ {fin[p]}
  /\ FinishReturns(p)
  /\ UNCHANGED <<lockVars, runs, inflight, finishing, aged, sessionVars,
                 cooling, leaseVars, model, agent, got, rotateTodo, finishTodo,
                 upRunVars>>

\* (Variant: a failed FINISH leaves run.finishing set.)
FinishUndoForgets(p) ==
  /\ pc[p] = "ferr"
  /\ FinishReturns(p)
  /\ UNCHANGED <<lockVars, runVars, sessionVars, cooling, leaseVars, model,
                 agent, got, rotateTodo, finishTodo, upRunVars>>

FinishUndo(p) ==
  /\ pc[p] = "ferr"
  /\ finishing' = [finishing EXCEPT ![fin[p]] = FALSE]
  /\ FinishReturns(p)
  /\ UNCHANGED <<lockVars, runs, draining, inflight, aged, sessionVars,
                 cooling, leaseVars, model, agent, got, rotateTodo, finishTodo,
                 upRunVars>>
-----------------------------------------------------------------------------
(* The maintenance ticker and the loops of maintain and prewarm.           *)

\* maintain takes its two snapshots in one critical section.
MaintainTick ==
  /\ pc[Maint] = "idle"
  /\ Maint \in Background
  /\ rotateTodo' = [rotateTodo EXCEPT ![Maint] =
                      {a \in Agents : runs[a] \in aged}]
  /\ finishTodo' = draining
  /\ Goto(Maint, "next")
  /\ UNCHANGED <<lockVars, runVars, sessionVars, cooling, leaseVars, model,
                 agent, got, fin, upRunVars>>

NextRotation(p) ==
  /\ pc[p] = "next"
  /\ \E a \in rotateTodo[p] :
       /\ agent' = [agent EXCEPT ![p] = a]
       /\ rotateTodo' = [rotateTodo EXCEPT ![p] = @ \ {a}]
  /\ Goto(p, "rotate")
  /\ UNCHANGED <<lockVars, runVars, sessionVars, cooling, leaseVars, model,
                 got, fin, finishTodo, upRunVars>>

NextDrained ==
  /\ pc[Maint] = "next"
  /\ rotateTodo[Maint] = {}
  /\ \E r \in finishTodo :
       /\ fin' = [fin EXCEPT ![Maint] = r]
       /\ finishTodo' = finishTodo \ {r}
  /\ Goto(Maint, "fcheck")
  /\ UNCHANGED <<lockVars, runVars, sessionVars, cooling, leaseVars, model,
                 agent, got, rotateTodo, upRunVars>>

LoopDone(p) ==
  /\ pc[p] = "next"
  /\ rotateTodo[p] = {}
  /\ p = Maint => finishTodo = {}
  /\ agent' = [agent EXCEPT ![p] = NoAgent]
  /\ Goto(p, IF p = Maint THEN "idle" ELSE "done")
  /\ UNCHANGED <<lockVars, runVars, sessionVars, cooling, leaseVars, model,
                 got, fin, rotateTodo, finishTodo, upRunVars>>
-----------------------------------------------------------------------------
(* The passing of time.                                                    *)

RunAges ==
  /\ \E r \in CurrentRuns \ aged : aged' = aged \cup {r}
  /\ UNCHANGED <<pc, lockVars, runs, draining, inflight, finishing,
                 sessionVars, cooling, leaseVars, workVars, upRunVars>>

SessionExpires ==
  /\ session # NoSession
  /\ session.st = "active"
  /\ session.fresh
  /\ session' = [session EXCEPT !.fresh = FALSE]
  /\ UNCHANGED <<pc, lockVars, runVars, switcher, made, instances,
                 cooling, leaseVars, workVars, upRunVars>>

CooldownEnds ==
  /\ cooling
  /\ cooling' = FALSE
  /\ UNCHANGED <<pc, lockVars, runVars, sessionVars, leaseVars, workVars,
                 upRunVars>>
-----------------------------------------------------------------------------
RequestStep(q) ==
  \/ Recheck(q) \/ Grant(q) \/ ReadInstance(q) \/ Chat(q) \/ Cooldown(q)
  \/ InvalidateSession(q) \/ InvalidateRun(q) \/ Release(q) \/ Unlock(q)

\* What a process does of its own accord in ensureSession.
SessionProgress(p) ==
  \/ EnsureSession(p) \/ DeleteSession(p) \/ CreateSession(p) \/ PollSession(p)
  \/ SessionWithoutInstance(p) \/ ClearRuns(p) \/ StoreSession(p)

SessionStep(p) == SessionProgress(p) \/ EnsureCancelled(p)

RotateStep(p) ==
  RotateCheck(p) \/ StartRun(p) \/ StartRunFails(p) \/ InstallRun(p)

FinishStep(p) ==
  \/ FinishCheck(p) \/ FinishFails(p) \/ FinishDone(p) \/ FinishUndo(p)
  \/ \E r \in RunIds : FinishAcked(p, r)

LoopStep(p) == NextRotation(p) \/ LoopDone(p)

Time == RunAges \/ SessionExpires \/ CooldownEnds

Next ==
  \/ \E q \in Req : Arrive(q) \/ Lock(q) \/ RequestStep(q)
  \/ \E p \in Req \cup {Warm} : SessionStep(p)
  \/ \E p \in Req \cup {Maint, Warm} : RotateStep(p)
  \/ \E p \in Req \cup {Maint} \cup RunIds : FinishStep(p)
  \/ \E p \in {Maint, Warm} : LoopStep(p)
  \/ MaintainTick
  \/ NextDrained
  \/ Time

Spec == Init /\ [][Next]_vars
-----------------------------------------------------------------------------
(* Safety.                                                                 *)

\* The types of the variables.  A process waiting at a lock, a call or a loop
\* has a pc of its kind; ids of runs and sessions are ids that were handed out.
TypeOK ==
  /\ pc \in [Proc -> PCs]
  /\ reqMu \in Req \cup {Nobody}
  /\ attempt \in [Req -> 0..MaxAttempts]
  /\ result \in [Req -> {"ok", "error", "retry"}]
  /\ runs \in [Agents -> RunIds \cup {NoRun}]
  /\ draining \subseteq RunIds
  /\ inflight \in [RunIds -> Nat]
  /\ finishing \in [RunIds -> BOOLEAN]
  /\ aged \subseteq RunIds
  /\ session \in Session \cup {NoSession}
  /\ switcher \in Req \cup {Warm, Nobody}
  /\ made \in [Proc -> Session \cup {NoSession}]
  /\ instances \in 0..MaxSess
  /\ cooling \in BOOLEAN
  /\ lease \in [Req -> RunIds \cup {NoRun}]
  /\ sent \in [Req -> 0..MaxSess]
  /\ model \in [Proc -> Models]
  /\ agent \in [Proc -> Agents \cup {NoAgent}]
  /\ got \in [Proc -> RunIds \cup {NoRun}]
  /\ fin \in [Proc -> RunIds \cup {NoRun}]
  /\ rotateTodo \in [{Maint, Warm} -> SUBSET Agents]
  /\ finishTodo \subseteq RunIds
  /\ upRun \in [RunIds -> {"unused", "running", "gone", "finished"}]
  /\ root \in [RunIds -> 0..MaxSess]
  /\ acked \subseteq RunIds

\* Places of a request between taking p.reqMu and giving it back.
Holding == PCs \ {"idle", "lock", "next", "done"}

\* Places of a request between the end of its ensureSession and the end of
\* the upstream call made with the session.
Using == {"recheck", "rotate", "start", "install", "grant", "read", "chat"}

\* Places of a process inside switchSession.
Switching == {"delete", "create", "poll", "clear", "store"}

\* Places of a process that has claimed a run in finishIfReady.
Claiming == {"fcall", "fok", "ferr"}

\* One request per token at a time: the process that owns p.reqMu is the only
\* one inside acquire, the upstream call or release.
OneRequestPerToken == \A q \in Req : pc[q] \in Holding <=> reqMu = q

\* The inflight counter of a run says whether a request leases it; a request
\* holds a lease exactly from the end of acquire to the beginning of release.
LeaseAccounting ==
  /\ \A r \in RunIds :
       inflight[r] = IF \E q \in Req : lease[q] = r THEN 1 ELSE 0
  /\ \A q \in Req : lease[q] # NoRun <=>
       pc[q] \in {"read", "chat", "cool", "inval", "drop", "release"}

\* A run is finished upstream only after the last request has let go of it,
\* whoever finishes it and whatever calls failed before.
NoFinishWhileLeased ==
  \A q \in Req : lease[q] # NoRun =>
    /\ upRun[lease[q]] # "finished"
    /\ \A p \in Proc : ~(pc[p] \in Claiming /\ fin[p] = lease[q])

\* FINISH is never sent again for a run whose FINISH was acknowledged, and
\* never twice at the same time: release, maintain and the goroutine of a
\* rotation may all try to finish the same run.
FinishExclusive ==
  \A p \in Proc : pc[p] \in Claiming =>
    /\ \A o \in Proc \ {p} : pc[o] \in Claiming => fin[o] # fin[p]
    /\ pc[p] # "fok" => fin[p] \notin acked

\* The pool knows of a run, or is about to.
Known(r) ==
  \/ r \in CurrentRuns \cup draining
  \/ \E p \in Proc : pc[p] = "install" /\ got[p] = r

\* No run the upstream runs on behalf of this token is forgotten: it is
\* current, or waits to be finished, or is on its way into p.runs.
NoRunLost == \A r \in RunIds : upRun[r] = "running" => Known(r)

\* A run is current for one agent at most and then does not drain; this is
\* what makes the list p.draining a set and Finishable right about p.runs.
RunsDisjoint ==
  /\ CurrentRuns \cap draining = {}
  /\ \A a, b \in Agents : runs[a] = runs[b] /\ runs[a] # NoRun => a = b

\* One process at a time deletes, creates and stores the session.
SwitchExclusive ==
  \A p \in Proc : pc[p] \in Switching <=> switcher = p

\* acquire's look at the cooldown is still true when it hands out the lease:
\* no request works on a token that another request has had rejected since.
CooldownSeen ==
  \A q \in Req : pc[q] \in {"ensure"} \cup Switching \cup Using => ~cooling

\* While a request uses the session, only the prewarmer can replace it: the
\* other requests wait at p.reqMu and maintain leaves the session alone.
OnlyPrewarmReplacesUsedSession ==
  [][\A q \in Req :
       pc[q] \in Using /\ pc'[q] \in Using /\ session' # session =>
         \/ switcher = Warm
         \/ session' = [session EXCEPT !.fresh = FALSE]]_vars

\* What comments of the code say of this state, and what it does not keep.

\* server.go:347: acquire has made sure that a session for the model is ready,
\* and nobody switches it until the lease is returned.
SessionKeptUnderLease ==
  \A q \in Req : pc[q] = "read" =>
    session # NoSession /\ session.model = model[q]

\* free_session.go:130, :163: after a switch no run of the old session is used.
RunBelongsToSession ==
  \A q \in Req : pc[q] = "chat" /\ sent[q] # 0 => root[lease[q]] = sent[q]
-----------------------------------------------------------------------------
(* Liveness.  Go schedules every goroutine; its mutexes hand themselves to a *)
(* waiter that has starved for a millisecond; every upstream call ends, by   *)
(* its timeout if not by a reply; a session that is polled is given or       *)
(* refused some day; the ticker ticks; a FINISH that is sent over and over   *)
(* for the same run is acknowledged some day.  Nothing ends the context of a *)
(* request that waits for another process to switch: r.Context() has no      *)
(* deadline, so EnsureCancelled is not fair, and only the end of the switch  *)
(* is sure to wake the request.                                              *)

Fairness ==
  /\ \A q \in Req :
       /\ SF_vars(Lock(q))
       /\ WF_vars(RequestStep(q) \/ SessionProgress(q) \/ RotateStep(q)
                  \/ FinishStep(q))
  /\ WF_vars(SessionProgress(Warm) \/ RotateStep(Warm) \/ LoopStep(Warm))
  /\ WF_vars(MaintainTick \/ RotateStep(Maint) \/ FinishStep(Maint)
             \/ LoopStep(Maint) \/ NextDrained)
  /\ \A r \in RunIds :
       /\ WF_vars(FinishStep(r))
       /\ SF_vars(\E p \in Proc : FinishAcked(p, r))

LiveSpec == Spec /\ Fairness

\* A request that asks for the token gets an answer, whoever holds p.reqMu,
\* whoever switches the session it waits for, and however the calls end.
RequestReturns == \A q \in Req : pc[q] = "lock" ~> pc[q] = "idle"

\* A run that has been replaced is finished upstream in the end, although each
\* of its FINISH calls may fail and a request may still lease it.
DrainingEnds == \A r \in RunIds : r \in draining ~> r \notin draining
-----------------------------------------------------------------------------
(* The pool implements RunLease.                                           *)

Life == [r \in RunIds |->
           CASE upRun[r] = "unused" -> "new"
             [] upRun[r] = "finished" -> "closed"
             [] OTHER -> "open"]

Lease == INSTANCE RunLease
           WITH owner <- reqMu,
                lent <- IF reqMu = Nobody THEN NoRun ELSE lease[reqMu],
                life <- Life

\* Every step of the pool is a step of RunLease or does not concern it: a run
\* is closed once and never under the request that leases it, in any order of
\* rotations, session switches, failed and repeated FINISH calls.
ImplementsRunLease == Lease!Spec
=============================================================================
