----------------------------- MODULE RunManager -----------------------------
(* Several accounts: RunManager spreads requests over token pools, while an *)
(* administrator adds and removes accounts.                                *)
(*                                                                         *)
(* A pool is seen from outside, as a lock (p.reqMu) and an acquire that    *)
(* succeeds or fails.  What happens inside is the subject of TokenPool.    *)
EXTENDS Naturals, Sequences, FiniteSets

CONSTANTS
  Tokens,      \* accounts
  MaxPools,    \* bound: the *tokenPool objects that may be created
  Configured,  \* accounts in the configuration at start-up, in order
  Req,         \* requests
  Nobody, NoPool, NoToken

\* Pools are numbered in the order of their creation.
Pool == 1..MaxPools

ASSUME ManagerAssumption ==
  /\ MaxPools \in Nat /\ Configured \in Seq(Tokens) /\ Len(Configured) <= MaxPools
  /\ \A i, j \in DOMAIN Configured : Configured[i] = Configured[j] => i = j
  /\ IsFiniteSet(Tokens)
  /\ Nobody \notin Req /\ NoToken \notin Tokens
  /\ NoPool \notin Pool

VARIABLES
  pools,    \* m.pools
  tokenOf,  \* the account of a pool
  reqMu,    \* the owner of a pool's reqMu
  pc,       \* where a request is
  first,    \* startIndex of its Acquire
  offset,   \* the pools its Acquire has tried
  at,       \* the pool it tries or has a lease of
  due,      \* history: pools listed since its Acquire began and not yet tried
  shrunk    \* history: requests whose list lost a pool since their Acquire began

poolVars == <<pools, tokenOf>>
reqVars == <<pc, first, offset, at, due, shrunk>>
vars == <<poolVars, reqMu, reqVars>>

Listed == {pools[i] : i \in DOMAIN pools}

Go(q, place) == pc' = [pc EXCEPT ![q] = place]

\* NewRunManager: a pool per configured account.
Init ==
  /\ pools = [i \in DOMAIN Configured |-> i]
  /\ tokenOf = [pl \in Pool |->
       IF pl \in DOMAIN Configured THEN Configured[pl] ELSE NoToken]
  /\ reqMu = [pl \in Pool |-> Nobody]
  /\ pc = [q \in Req |-> "idle"]
  /\ first = [q \in Req |-> 0]
  /\ offset = [q \in Req |-> 0]
  /\ at = [q \in Req |-> NoPool]
  /\ due = [q \in Req |-> {}]
  /\ shrunk = {}
-----------------------------------------------------------------------------
(* Acquire and Release.                                                    *)

\* A client calls.  m.next, which every Acquire moves on, says where to begin.
Acquire(q) ==
  /\ pc[q] = "idle"
  /\ \/ /\ pools = <<>>
        /\ Go(q, "refused")
        /\ UNCHANGED first
     \/ /\ \E i \in 0..(Len(pools) - 1) : first' = [first EXCEPT ![q] = i]
        /\ Go(q, "trying")
  /\ due' = [due EXCEPT ![q] = Listed]
  /\ shrunk' = shrunk \ {q}
  /\ UNCHANGED <<poolVars, reqMu, offset, at>>

\* (Variants: the loop of Acquire turns once too often, or once too seldom.)
TurnsOneMore == IF pools = <<>> THEN 0 ELSE Len(pools) + 1

TurnsOneLess == Len(pools) - 1

\* The loop of Acquire ends after as many turns as there are pools now.
Turns == Len(pools)

\* The next pool in the ring; m.pools is read anew every time.
TryNext(q) ==
  /\ pc[q] = "trying"
  /\ IF offset[q] < Turns
     THEN LET pl == pools[((first[q] + offset[q]) % Len(pools)) + 1]
          IN  /\ at' = [at EXCEPT ![q] = pl]
              /\ due' = [due EXCEPT ![q] = @ \ {pl}]
              /\ Go(q, "waiting")
     ELSE /\ Go(q, "refused")
          /\ UNCHANGED <<at, due>>
  /\ UNCHANGED <<poolVars, reqMu, first, offset, shrunk>>

\* pool.acquire waits for the pool's requests.
Lock(q) ==
  /\ pc[q] = "waiting"
  /\ reqMu[at[q]] = Nobody
  /\ reqMu' = [reqMu EXCEPT ![at[q]] = q]
  /\ Go(q, "acquiring")
  /\ UNCHANGED <<poolVars, first, offset, at, due, shrunk>>

\* (Variant: a pool that fails stays locked while the next one is tried.)
AcquireFailsKeepsLock(q) ==
  /\ pc[q] = "acquiring"
  /\ offset' = [offset EXCEPT ![q] = @ + 1]
  /\ at' = [at EXCEPT ![q] = NoPool]
  /\ Go(q, "trying")
  /\ UNCHANGED <<poolVars, reqMu, first, due, shrunk>>

\* pool.acquire fails: on to the next pool.
AcquireFails(q) ==
  /\ pc[q] = "acquiring"
  /\ reqMu' = [reqMu EXCEPT ![at[q]] = Nobody]
  /\ offset' = [offset EXCEPT ![q] = @ + 1]
  /\ at' = [at EXCEPT ![q] = NoPool]
  /\ Go(q, "trying")
  /\ UNCHANGED <<poolVars, first, due, shrunk>>

\* Acquire returns.
Forget(q) ==
  /\ first' = [first EXCEPT ![q] = 0]
  /\ offset' = [offset EXCEPT ![q] = 0]
  /\ due' = [due EXCEPT ![q] = {}]

\* pool.acquire finds a session and a run, or has opened them upstream.
Granted(q) ==
  /\ pc[q] = "acquiring"
  /\ Forget(q)
  /\ Go(q, "leased")
  /\ UNCHANGED <<poolVars, reqMu, at, shrunk>>

Release(q) ==
  /\ pc[q] = "leased"
  /\ reqMu' = [reqMu EXCEPT ![at[q]] = Nobody]
  /\ at' = [at EXCEPT ![q] = NoPool]
  /\ Go(q, "idle")
  /\ UNCHANGED <<poolVars, first, offset, due, shrunk>>

Refused(q) ==
  /\ pc[q] = "refused"
  /\ Forget(q)
  /\ Go(q, "idle")
  /\ UNCHANGED <<poolVars, reqMu, at, shrunk>>
-----------------------------------------------------------------------------
(* Accounts that come and go (one administrator).                          *)

\* (Variant: AddToken does not look for the token.)
KnownNever(t) == FALSE

\* AddToken does nothing for a token that has a pool.
Known(t) == \E pl \in Listed : tokenOf[pl] = t

AddToken(t) ==
  /\ ~Known(t)
  /\ \E pl \in Pool :
       /\ tokenOf[pl] = NoToken
       /\ \A older \in 1..(pl - 1) : tokenOf[older] # NoToken
       /\ tokenOf' = [tokenOf EXCEPT ![pl] = t]
       /\ pools' = Append(pools, pl)
  /\ UNCHANGED <<reqMu, reqVars>>

\* RemoveToken takes the pool out of the slice, and does nothing else to it.
RemoveToken(t) ==
  /\ \E i \in DOMAIN pools :
       /\ tokenOf[pools[i]] = t
       /\ \A j \in 1..(i - 1) : tokenOf[pools[j]] # t
       /\ pools' = SubSeq(pools, 1, i - 1) \o SubSeq(pools, i + 1, Len(pools))
       /\ due' = [q \in Req |-> due[q] \ {pools[i]}]
  /\ shrunk' = Req
  /\ UNCHANGED <<tokenOf, reqMu, pc, first, offset, at>>
-----------------------------------------------------------------------------
RequestStep(q) ==
  \/ TryNext(q) \/ Lock(q) \/ AcquireFails(q) \/ Granted(q)
  \/ Release(q) \/ Refused(q)

Next ==
  \/ \E q \in Req : Acquire(q) \/ RequestStep(q)
  \/ \E t \in Tokens : AddToken(t) \/ RemoveToken(t)

Spec == Init /\ [][Next]_vars
-----------------------------------------------------------------------------
(* Safety.                                                                 *)

\* The types of the variables; an Acquire tries no more pools than there are
\* accounts.
TypeOK ==
  /\ pools \in Seq(Pool)
  /\ tokenOf \in [Pool -> Tokens \cup {NoToken}]
  /\ reqMu \in [Pool -> Req \cup {Nobody}]
  /\ pc \in [Req -> {"idle", "trying", "waiting", "acquiring", "leased", "refused"}]
  /\ first \in [Req -> 0..MaxPools]
  /\ offset \in [Req -> 0..Cardinality(Tokens)]
  /\ at \in [Req -> Pool \cup {NoPool}]
  /\ due \in [Req -> SUBSET Pool]
  /\ shrunk \subseteq Req

\* Requests that work with a pool.
Working == {q \in Req : pc[q] \in {"acquiring", "leased"}}

\* A request is refused only after every account that was there when its Acquire
\* began has been tried, although accounts are added while it goes round and
\* m.pools is read anew at each turn.  This is not so when an account is deleted
\* meanwhile: the pools behind it move up and Acquire may miss one.
RefusedTriedAll ==
  \A q \in Req : pc[q] = "refused" /\ q \notin shrunk => due[q] = {}

\* Two requests use one account at the same time only if it was deleted under one
\* of them and imported again for the other.
OneRequestPerAccount ==
  \A q, o \in Working :
    q # o /\ tokenOf[at[q]] = tokenOf[at[o]] => ~({at[q], at[o]} \subseteq Listed)
-----------------------------------------------------------------------------
(* Liveness.  Goroutines are scheduled, a pool's acquire and a chat call end *)
(* (TokenPool), and mutexes hand themselves to starving waiters.            *)

Fairness == \A q \in Req : WF_vars(RequestStep(q)) /\ SF_vars(Lock(q))

LiveSpec == Spec /\ Fairness

\* Every Acquire returns, although it waits for the requests of one pool after the
\* other, and these for it.
AcquireReturns == \A q \in Req : pc[q] = "trying" ~> pc[q] \in {"leased", "refused"}
=============================================================================
