------------------------------ MODULE Shutdown ------------------------------
(***************************************************************************)
(* The end of the program (main.go, RunManager.Close, tokenPool.shutdown,  *)
(* endSession) around one token pool that is still at work.  The HTTP      *)
(* server waits for its requests and the run manager for the maintenance   *)
(* ticker; nobody waits for the prewarmer or for the goroutines that       *)
(* finish rotated runs.  All of it shares one context of 30 seconds.       *)
(***************************************************************************)
EXTENDS TokenPool

VARIABLES
  phase,    \* how far the end has come
  expired,  \* the 30 seconds of shutdownCtx are over
  todo,     \* allRuns: the runs shutdown has still to finish
  gaveUp,   \* runs whose FINISH by shutdown failed
  alone     \* history: shutdown cleared the pool when neither a request nor
            \* the prewarmer was at work

closeVars == <<phase, expired, todo, gaveUp, alone>>
allVars == <<vars, closeVars>>

Phases == {"serving", "closing", "stopping", "stopped", "finishing", "ending",
           "exited"}

InitClose ==
  /\ Init
  /\ phase = "serving"
  /\ expired = FALSE
  /\ todo = {}
  /\ gaveUp = {}
  /\ alone = FALSE
-----------------------------------------------------------------------------
(* The pool goes on until the program exits.                               *)

\* After the signal no connection is accepted any more.
Accepting == phase = "serving"

\* The ticker's goroutine chooses at random between a tick and stopCh.
Ticking == phase \in {"serving", "closing", "stopping"}

PoolStep ==
  \/ \E q \in Req : \/ Accepting /\ Arrive(q)
                    \/ Lock(q) \/ RequestStep(q)
  \/ \E p \in Req \cup {Warm} : SessionStep(p)
  \/ \E p \in Req \cup {Maint, Warm} : RotateStep(p)
  \/ \E p \in Req \cup {Maint} \cup RunIds : FinishStep(p)
  \/ \E p \in {Maint, Warm} : LoopStep(p)
  \/ Ticking /\ MaintainTick
  \/ NextDrained
  \/ Time

Going(A) == phase # "exited" /\ A /\ UNCHANGED closeVars
-----------------------------------------------------------------------------
(* The end.                                                                *)

RequestsIdle == \A q \in Req : pc[q] = "idle"

\* SIGINT or SIGTERM: httpServer.Shutdown closes the listener.
Signal ==
  /\ phase = "serving"
  /\ phase' = "closing"
  /\ UNCHANGED <<vars, expired, todo, gaveUp, alone>>

Expire ==
  /\ phase \notin {"serving", "exited"}
  /\ ~expired
  /\ expired' = TRUE
  /\ UNCHANGED <<vars, phase, todo, gaveUp, alone>>

\* (Variant: the server is closed without waiting, as Close would.)
HttpReturnsAtOnce == TRUE

\* httpServer.Shutdown waits for the handlers as long as its context lasts.
HttpReturns == RequestsIdle \/ expired

\* main goes on with cancelRun and closes stopCh.
Stop ==
  /\ phase = "closing"
  /\ HttpReturns
  /\ phase' = "stopping"
  /\ UNCHANGED <<vars, expired, todo, gaveUp, alone>>

\* (Variant: nobody waits for the ticker's goroutine.)
TickerGoneAlways == TRUE

\* (Variant: the ticker's goroutine ignores stopCh.)
TickerGoneNever == FALSE

\* The ticker's goroutine is between two ticks and sees stopCh.
TickerGone == pc[Maint] = "idle"

\* wg.Wait returns.
TickerStops ==
  /\ phase = "stopping"
  /\ TickerGone
  /\ phase' = "stopped"
  /\ UNCHANGED <<vars, expired, todo, gaveUp, alone>>

\* (Variant: the runs that wait to be finished are forgotten.)
AllRunsCurrent == CurrentRuns

AllRuns == CurrentRuns \cup draining

\* shutdown takes every run out of the pool in one critical section.
TakeRuns ==
  /\ phase = "stopped"
  /\ phase' = "finishing"
  /\ todo' = AllRuns
  /\ runs' = [a \in Agents |-> NoRun]
  /\ aged' = {}
  /\ draining' = {}
  /\ alone' = (RequestsIdle /\ pc[Warm] \in {"idle", "done"})
  /\ UNCHANGED <<pc, lockVars, inflight, finishing, sessionVars, cooling,
                 leaseVars, workVars, upRunVars, expired, gaveUp>>

\* FINISH, whatever run.inflight and run.finishing say.  A call with an
\* expired context does not leave the program.
CloseRun(r) ==
  /\ phase = "finishing"
  /\ r \in todo
  /\ todo' = todo \ {r}
  /\ \/ /\ ~expired
        /\ upRun' = [upRun EXCEPT ![r] = "finished"]
        /\ gaveUp' \in {gaveUp, gaveUp \cup {r}}
     \/ /\ gaveUp' = gaveUp \cup {r}
        /\ UNCHANGED upRun
  /\ UNCHANGED <<pc, lockVars, runVars, sessionVars, cooling, leaseVars,
                 workVars, root, acked, phase, expired, alone>>

\* endSession forgets the session before it sends the DELETE.
EndSession ==
  /\ phase = "finishing"
  /\ todo = {}
  /\ phase' = "ending"
  /\ session' = NoSession
  /\ UNCHANGED <<pc, lockVars, runVars, switcher, made, instances, cooling,
                 leaseVars, workVars, upRunVars, expired, todo, gaveUp, alone>>

\* The DELETE has returned, in whatever way, and so does main.
Exit ==
  /\ phase = "ending"
  /\ phase' = "exited"
  /\ UNCHANGED <<vars, expired, todo, gaveUp, alone>>

CloseStep ==
  \/ Stop \/ TakeRuns \/ EndSession \/ Exit
  \/ \E r \in RunIds : CloseRun(r)

NextClose == Going(PoolStep) \/ Signal \/ Expire \/ CloseStep \/ TickerStops

SpecClose == InitClose /\ [][NextClose]_allVars

\* What TokenPool assumes, as long as the program runs; the timer of the
\* context fires, and a ticker that may choose stopCh over and over does so.
FairnessClose ==
  /\ \A q \in Req :
       /\ SF_allVars(Going(Lock(q)))
       /\ WF_allVars(Going(RequestStep(q) \/ SessionProgress(q) \/ RotateStep(q)
                           \/ FinishStep(q)))
  /\ WF_allVars(Going(SessionProgress(Warm) \/ RotateStep(Warm) \/ LoopStep(Warm)))
  /\ WF_allVars(Going(RotateStep(Maint) \/ FinishStep(Maint) \/ LoopStep(Maint)
                      \/ NextDrained))
  /\ WF_allVars(Expire)
  /\ WF_allVars(CloseStep)
  /\ SF_allVars(TickerStops)

LiveSpecClose == SpecClose /\ FairnessClose
-----------------------------------------------------------------------------
(* Properties.  Those of TokenPool go on to hold, except NoRunLost.  The    *)
(* one that shutdown puts at risk is NoFinishWhileLeased: it looks at no    *)
(* inflight counter and still finishes no run under a request, since it     *)
(* gets that far either after the last request or with a context that lets  *)
(* no FINISH out.                                                           *)

TypeOKClose ==
  /\ TypeOK
  /\ phase \in Phases
  /\ expired \in BOOLEAN
  /\ todo \subseteq RunIds
  /\ gaveUp \subseteq RunIds
  /\ alone \in BOOLEAN

\* No run of the account is forgotten on the way out: the pool knows it, or
\* shutdown has still to finish it, or its FINISH failed.
NoRunForgotten ==
  \A r \in RunIds : upRun[r] = "running" => r \in todo \cup gaveUp \/ Known(r)

\* When the program exits, a run is left open upstream only if its FINISH
\* failed, or if shutdown did not wait for a request or the prewarmer.
NothingLeftOpen ==
  phase = "exited" /\ alone =>
    \A r \in RunIds : upRun[r] = "running" => r \in gaveUp

\* The program ends, although the ticker's goroutine may be in the middle of
\* its calls and requests and the prewarmer may hold every lock of the pool.
ShutdownEnds == phase = "closing" ~> phase = "exited"

\* Every request is answered, or is cut off by the end of the program.
AnsweredOrCutOff ==
  \A q \in Req : pc[q] = "lock" ~> pc[q] = "idle" \/ phase = "exited"
=============================================================================
