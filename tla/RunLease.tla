------------------------------ MODULE RunLease ------------------------------
(***************************************************************************)
(* What a token pool promises to the requests, without sessions, rotation, *)
(* draining or retries: one request at a time owns the token, an owner is  *)
(* lent one open run, and a run is closed once, never while it is lent.    *)
(***************************************************************************)
CONSTANTS Req, RunIds, Nobody, NoRun

VARIABLES owner,  \* the request that owns the token
          lent,   \* the run lent to the owner
          life    \* what became of each run

vars == <<owner, lent, life>>

Init ==
  /\ owner = Nobody
  /\ lent = NoRun
  /\ life = [r \in RunIds |-> "new"]

Take(q) == owner = Nobody /\ owner' = q /\ UNCHANGED <<lent, life>>

Open(r) ==
  /\ life[r] = "new"
  /\ life' = [life EXCEPT ![r] = "open"]
  /\ UNCHANGED <<owner, lent>>

Lend(r) ==
  /\ owner # Nobody
  /\ lent = NoRun
  /\ life[r] = "open"
  /\ lent' = r
  /\ UNCHANGED <<owner, life>>

Return == lent # NoRun /\ lent' = NoRun /\ UNCHANGED <<owner, life>>

GiveBack ==
  /\ owner # Nobody
  /\ lent = NoRun
  /\ owner' = Nobody
  /\ UNCHANGED <<lent, life>>

Close(r) ==
  /\ life[r] = "open"
  /\ lent # r
  /\ life' = [life EXCEPT ![r] = "closed"]
  /\ UNCHANGED <<owner, lent>>

Next ==
  \/ \E q \in Req : Take(q)
  \/ \E r \in RunIds : Open(r) \/ Lend(r) \/ Close(r)
  \/ Return
  \/ GiveBack

Spec == Init /\ [][Next]_vars
=============================================================================
