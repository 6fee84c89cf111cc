-------------------------- MODULE RunManager_proofs -------------------------
(* Proofs about RunManager for any accounts, requests and number of pools.  *)
EXTENDS RunManager, SequenceTheorems, FiniteSetTheorems, TLAPS

\* Every listed pool has an account, and no account is listed twice.
ListInv ==
  /\ \A i \in DOMAIN pools : tokenOf[pools[i]] # NoToken
  /\ \A i, j \in DOMAIN pools : tokenOf[pools[i]] = tokenOf[pools[j]] => i = j

\* Where a request is, and what it holds there.
PlaceInv ==
  \A q \in Req :
    /\ pc[q] \in {"waiting", "acquiring", "leased"} => at[q] \in Pool
    /\ pc[q] \in {"waiting", "acquiring"} => offset[q] < Cardinality(Tokens)
    /\ pc[q] \in {"idle", "leased"} => offset[q] = 0
    /\ q \in Working => reqMu[at[q]] = q

\* The pools whose turn is still to come when n turns of the ring are over.
Ahead(q, n) ==
  {pools[j] : j \in {k \in DOMAIN pools :
     k > first[q] + n \/ (k <= first[q] /\ k > first[q] + n - Len(pools))}}

\* The turns that are over or under way.
Turn(q) == IF pc[q] \in {"waiting", "acquiring"} THEN offset[q] + 1 ELSE offset[q]

\* What is due is still ahead, also when pools were added meanwhile, as long as
\* none was removed.
RoundInv ==
  \A q \in Req : q \notin shrunk =>
    /\ pc[q] \in {"idle", "leased", "refused"} => due[q] = {}
    /\ due[q] # {} => first[q] < Len(pools)
    /\ due[q] \subseteq Ahead(q, Turn(q))

\* The inductive invariant.
ManagerInv == TypeOK /\ ListInv /\ PlaceInv /\ RoundInv
-----------------------------------------------------------------------------
(* Arithmetic and sequences.                                               *)

\* The remainder of up to two rounds.
LEMMA Round ==
  ASSUME NEW n \in Nat \ {0}, NEW x \in Nat
  PROVE  /\ x % n \in 0..(n - 1)
         /\ x < 2 * n => x % n = IF x < n THEN x ELSE x - n
<1>1. x % n \in 0..(n - 1)
  OBVIOUS
<1>2. ASSUME x < 2 * n PROVE x % n = IF x < n THEN x ELSE x - n
  BY <1>2, Z3
<1> QED
  BY <1>1, <1>2

\* A sequence without one of its elements: those behind it move up.
LEMMA CutOut ==
  ASSUME NEW S, NEW s \in Seq(S), NEW i \in DOMAIN s
  PROVE  LET t == SubSeq(s, 1, i - 1) \o SubSeq(s, i + 1, Len(s))
         IN  /\ t \in Seq(S)
             /\ Len(t) = Len(s) - 1
             /\ \A k \in 1..(Len(s) - 1) : t[k] = IF k < i THEN s[k] ELSE s[k + 1]
<1> DEFINE a == SubSeq(s, 1, i - 1)
           b == SubSeq(s, i + 1, Len(s))
           t == a \o b
<1>1. Len(s) \in Nat /\ i \in 1..Len(s)
  OBVIOUS
<1>2. a \in Seq(S) /\ Len(a) = i - 1 /\ \A k \in 1..(i - 1) : a[k] = s[k]
  OBVIOUS
<1>3. b \in Seq(S) /\ Len(b) = Len(s) - i /\ \A k \in 1..(Len(s) - i) : b[k] = s[k + i]
  OBVIOUS
<1> HIDE DEF a, b
<1>4. /\ t \in Seq(S)
      /\ Len(t) = Len(a) + Len(b)
      /\ \A k \in 1..(Len(a) + Len(b)) : t[k] = IF k <= Len(a) THEN a[k] ELSE b[k - Len(a)]
  <2>1. a \in Seq(S) /\ b \in Seq(S)
    BY <1>2, <1>3
  <2> QED
    BY <2>1
<1>5. /\ Len(t) = Len(s) - 1
      /\ \A k \in 1..(Len(s) - 1) : t[k] = IF k < i THEN a[k] ELSE b[k - (i - 1)]
  <2>1. Len(a) = i - 1 /\ Len(b) = Len(s) - i
    BY <1>2, <1>3
  <2> HIDE DEF t
  <2> QED
    BY SMTT(30), <1>1, <1>4, <2>1
<1> HIDE DEF t
<1>6. ASSUME NEW k \in 1..(Len(s) - 1)
      PROVE  t[k] = IF k < i THEN s[k] ELSE s[k + 1]
  <2>1. CASE k < i
    BY <1>1, <1>2, <1>5, <2>1
  <2>2. CASE k >= i
    <3>1. k - (i - 1) \in 1..(Len(s) - i) /\ (k - (i - 1)) + i = k + 1
      BY <1>1, <2>2
    <3> QED
      BY SMTT(30), <1>1, <1>3, <1>5, <2>2, <3>1
  <2> QED
    BY <1>1, <2>1, <2>2
<1> QED
  BY <1>4, <1>5, <1>6, Zenon DEF a, b, t

\* No more pools are listed than there are accounts, or pools.
LEMMA ListBound ==
  ASSUME TypeOK, ListInv
  PROVE  /\ Cardinality(Tokens) \in Nat
         /\ Len(pools) <= Cardinality(Tokens)
         /\ Len(pools) <= MaxPools
<1> DEFINE D == 1..Len(pools)
<1>1. Len(pools) \in Nat /\ DOMAIN pools = D /\ \A i \in D : pools[i] \in Pool
  BY DEF TypeOK
<1>2. IsFiniteSet(D) /\ Cardinality(D) = Len(pools)
  BY <1>1, FS_Interval
<1>3. Len(pools) <= Cardinality(Tokens)
  <2> DEFINE f == [i \in D |-> tokenOf[pools[i]]]
  <2>1. f \in Injection(D, Tokens)
    BY <1>1 DEF TypeOK, ListInv, Injection, IsInjective
  <2> QED
    BY <1>2, <2>1, FS_Injection, ManagerAssumption
<1>4. Len(pools) <= MaxPools
  <2> DEFINE f == [i \in D |-> pools[i]]
  <2>1. f \in Injection(D, Pool)
    BY <1>1 DEF ListInv, Injection, IsInjective
  <2>2. IsFiniteSet(Pool) /\ Cardinality(Pool) = MaxPools
    BY FS_Interval, ManagerAssumption DEF Pool
  <2> QED
    BY <1>2, <2>1, <2>2, FS_Injection
<1>5. Cardinality(Tokens) \in Nat
  BY FS_CardinalityType, ManagerAssumption
<1> QED
  BY <1>3, <1>4, <1>5
-----------------------------------------------------------------------------
(* The steps.                                                              *)

\* What TryNext reads: the pool whose turn it is.
LEMMA NextInRing ==
  ASSUME TypeOK, NEW q \in Req, offset[q] < Len(pools)
  PROVE  /\ ((first[q] + offset[q]) % Len(pools)) + 1 \in DOMAIN pools
         /\ first[q] < Len(pools) =>
              ((first[q] + offset[q]) % Len(pools)) + 1
                = IF first[q] + offset[q] < Len(pools)
                  THEN first[q] + offset[q] + 1
                  ELSE first[q] + offset[q] - Len(pools) + 1
<1> DEFINE n == Len(pools)
           x == first[q] + offset[q]
<1>1. n \in Nat /\ offset[q] \in Nat /\ first[q] \in Nat /\ DOMAIN pools = 1..n
  <2>1. Cardinality(Tokens) \in Nat
    BY FS_CardinalityType, ManagerAssumption
  <2> QED
    BY <2>1, ManagerAssumption DEF TypeOK
<1>2. n \in Nat \ {0} /\ x \in Nat /\ (first[q] < n => x < 2 * n)
  BY <1>1
<1>3. /\ x % n \in 0..(n - 1)
      /\ x < 2 * n => x % n = IF x < n THEN x ELSE x - n
  BY <1>2, Round
<1> QED
  BY <1>1, <1>2, <1>3

\* RemoveToken takes one pool out of the list; the others keep their order.
LEMMA Removed ==
  ASSUME TypeOK, NEW t \in Tokens, RemoveToken(t)
  PROVE  /\ pools' \in Seq(Pool)
         /\ \E i \in DOMAIN pools :
              /\ Len(pools') = Len(pools) - 1
              /\ \A k \in DOMAIN pools' :
                   pools'[k] = IF k < i THEN pools[k] ELSE pools[k + 1]
<1>1. pools \in Seq(Pool)
  BY DEF TypeOK
<1>2. PICK i \in DOMAIN pools :
        pools' = SubSeq(pools, 1, i - 1) \o SubSeq(pools, i + 1, Len(pools))
  BY DEF RemoveToken
<1>3. /\ pools' \in Seq(Pool)
      /\ Len(pools') = Len(pools) - 1
      /\ \A k \in 1..(Len(pools) - 1) :
           pools'[k] = IF k < i THEN pools[k] ELSE pools[k + 1]
  BY <1>1, <1>2, CutOut, Zenon
<1>4. DOMAIN pools' = 1..(Len(pools) - 1)
  BY <1>3
<1>5. \A k \in DOMAIN pools' : pools'[k] = IF k < i THEN pools[k] ELSE pools[k + 1]
  BY <1>3, <1>4, Zenon
<1> QED
  BY <1>2, <1>3, <1>5

LEMMA InitManager == Init => ManagerInv
<1> SUFFICES ASSUME Init PROVE ManagerInv
  OBVIOUS
<1> USE ManagerAssumption DEF Init
<1>1. Cardinality(Tokens) \in Nat
  BY FS_CardinalityType
<1>2. DOMAIN Configured = 1..Len(Configured) /\ Len(Configured) \in 0..MaxPools
      /\ \A i \in DOMAIN Configured : Configured[i] \in Tokens /\ i \in Pool
  BY DEF Pool
<1>3. pools \in Seq(Pool)
  BY <1>2
<1>4. TypeOK
  BY <1>1, <1>2, <1>3 DEF TypeOK
<1>5. ListInv
  BY <1>2 DEF ListInv
<1>6. PlaceInv /\ RoundInv
  BY DEF PlaceInv, RoundInv, Working
<1> QED
  BY <1>4, <1>5, <1>6 DEF ManagerInv

\* The types, and no Acquire takes more turns than there are accounts.
LEMMA TypeStep ==
  ASSUME ManagerInv, [Next]_vars
  PROVE  TypeOK'
<1>1. /\ Cardinality(Tokens) \in Nat /\ MaxPools \in Nat
      /\ Len(pools) \in Nat /\ DOMAIN pools = 1..Len(pools)
      /\ Len(pools) <= Cardinality(Tokens) /\ Len(pools) <= MaxPools
  BY ListBound, ManagerAssumption DEF ManagerInv, TypeOK
<1> USE DEF ManagerInv, TypeOK, Go, poolVars, reqVars
<1>2. ASSUME NEW q \in Req, Acquire(q)
      PROVE  TypeOK'
  <2>1. Listed \in SUBSET Pool
    BY DEF Listed
  <2>2. due' \in [Req -> SUBSET Pool]
    BY <1>2, <2>1 DEF Acquire
  <2>3. first' \in [Req -> 0..MaxPools]
    <3>1. CASE UNCHANGED first
      BY <3>1
    <3>2. CASE \E i \in 0..(Len(pools) - 1) : first' = [first EXCEPT ![q] = i]
      BY <1>1, <3>2
    <3> QED
      BY <1>2, <3>1, <3>2 DEF Acquire
  <2>4. pc' \in [Req -> {"idle", "trying", "waiting", "acquiring", "leased", "refused"}]
    BY <1>2 DEF Acquire
  <2> QED
    BY <1>2, <2>2, <2>3, <2>4 DEF Acquire
<1>3. ASSUME NEW q \in Req, TryNext(q)
      PROVE  TypeOK'
  <2>1. CASE offset[q] < Len(pools)
    <3> DEFINE pl == pools[((first[q] + offset[q]) % Len(pools)) + 1]
    <3>1. pl \in Pool
      BY <2>1, NextInRing
    <3>2. /\ at' = [at EXCEPT ![q] = pl]
          /\ due' = [due EXCEPT ![q] = @ \ {pl}]
          /\ pc' = [pc EXCEPT ![q] = "waiting"]
          /\ UNCHANGED <<pools, tokenOf, reqMu, first, offset, shrunk>>
      BY <1>3, <2>1 DEF TryNext, Turns
    <3> HIDE DEF pl
    <3> QED
      BY <3>1, <3>2
  <2>2. CASE ~(offset[q] < Len(pools))
    BY <1>3, <2>2 DEF TryNext, Turns
  <2> QED
    BY <2>1, <2>2
<1>4. ASSUME NEW q \in Req, Lock(q) \/ Release(q)
      PROVE  TypeOK'
  <2>1. CASE Lock(q)
    <3>1. /\ reqMu' = [reqMu EXCEPT ![at[q]] = q]
          /\ pc' = [pc EXCEPT ![q] = "acquiring"]
          /\ UNCHANGED <<pools, tokenOf, first, offset, at, due, shrunk>>
      BY <2>1 DEF Lock
    <3> QED
      BY <3>1
  <2>2. CASE Release(q)
    <3>1. /\ reqMu' = [reqMu EXCEPT ![at[q]] = Nobody]
          /\ at' = [at EXCEPT ![q] = NoPool]
          /\ pc' = [pc EXCEPT ![q] = "idle"]
          /\ UNCHANGED <<pools, tokenOf, first, offset, due, shrunk>>
      BY <2>2 DEF Release
    <3> QED
      BY <3>1
  <2> QED
    BY <1>4, <2>1, <2>2
<1>5. ASSUME NEW q \in Req, AcquireFails(q)
      PROVE  TypeOK'
  <2>1. offset[q] + 1 \in 0..Cardinality(Tokens)
    BY <1>1, <1>5 DEF AcquireFails, PlaceInv
  <2> QED
    BY <1>5, <2>1 DEF AcquireFails
<1>6. ASSUME NEW q \in Req, Granted(q) \/ Refused(q)
      PROVE  TypeOK'
  <2>1. 0 \in 0..MaxPools /\ 0 \in 0..Cardinality(Tokens)
    BY <1>1
  <2>2. /\ first' = [first EXCEPT ![q] = 0]
        /\ offset' = [offset EXCEPT ![q] = 0]
        /\ due' = [due EXCEPT ![q] = {}]
        /\ pc' = [pc EXCEPT ![q] = "leased"] \/ pc' = [pc EXCEPT ![q] = "idle"]
        /\ UNCHANGED <<pools, tokenOf, reqMu, at, shrunk>>
    BY <1>6 DEF Granted, Refused, Forget
  <2> QED
    BY <2>1, <2>2
<1>7. ASSUME NEW t \in Tokens, AddToken(t)
      PROVE  TypeOK'
  BY <1>7 DEF AddToken
<1>8. ASSUME NEW t \in Tokens, RemoveToken(t)
      PROVE  TypeOK'
  <2>1. due' \in [Req -> SUBSET Pool]
    BY <1>8 DEF RemoveToken
  <2> QED
    BY <1>8, <2>1, Removed DEF RemoveToken
<1>9. CASE UNCHANGED vars
  BY <1>9 DEF vars
<1> QED
  BY <1>2, <1>3, <1>4, <1>5, <1>6, <1>7, <1>8, <1>9 DEF Next, RequestStep

\* No account is listed twice: AddToken looks for it, and its pool is a new one.
LEMMA ListStep ==
  ASSUME ManagerInv, [Next]_vars
  PROVE  ListInv'
<1>1. pools \in Seq(Pool) /\ tokenOf \in [Pool -> Tokens \cup {NoToken}]
  BY DEF ManagerInv, TypeOK
<1> USE DEF ManagerInv, ListInv
<1>2. ASSUME NEW t \in Tokens, AddToken(t)
      PROVE  ListInv'
  <2>1. PICK pl \in Pool : /\ tokenOf[pl] = NoToken
                           /\ tokenOf' = [tokenOf EXCEPT ![pl] = t]
                           /\ pools' = Append(pools, pl)
    BY <1>2 DEF AddToken
  <2>2. \A i \in DOMAIN pools : tokenOf[pools[i]] # t /\ pools[i] # pl
    BY <1>2, <2>1 DEF AddToken, Known, Listed
  <2>3. \A i \in DOMAIN pools' :
          \/ i \in DOMAIN pools /\ pools'[i] = pools[i]
          \/ i = Len(pools) + 1 /\ pools'[i] = pl
    BY <1>1, <2>1
  <2>4. \A i \in DOMAIN pools :
          pools[i] \in Pool /\ tokenOf'[pools[i]] = tokenOf[pools[i]]
    BY <1>1, <2>1, <2>2
  <2>5. tokenOf'[pl] = t /\ t # NoToken
    BY <1>1, <2>1, ManagerAssumption
  <2> QED
    BY <2>2, <2>3, <2>4, <2>5
<1>3. ASSUME NEW t \in Tokens, RemoveToken(t)
      PROVE  ListInv'
  <2>1. PICK i \in DOMAIN pools :
          /\ Len(pools') = Len(pools) - 1
          /\ \A k \in DOMAIN pools' :
               pools'[k] = IF k < i THEN pools[k] ELSE pools[k + 1]
    BY <1>3, Removed
  <2>2. pools' \in Seq(Pool) /\ tokenOf' = tokenOf
    BY <1>3, Removed DEF RemoveToken
  <2>3. \A k \in DOMAIN pools' : k \in DOMAIN pools /\ k + 1 \in DOMAIN pools /\ k \in Int
    BY <1>1, <2>1, <2>2
  <2>4. i \in Int
    BY <1>1
  <2> QED
    BY <2>1, <2>2, <2>3, <2>4
<1>4. ASSUME pools' = pools, tokenOf' = tokenOf
      PROVE  ListInv'
  BY <1>4
<1> QED
  BY <1>2, <1>3, <1>4 DEF Next, RequestStep, Acquire, TryNext, Lock, AcquireFails,
     Granted, Release, Refused, vars, poolVars

\* A pool belongs to the request that is at work with it.
LEMMA PlaceStep ==
  ASSUME ManagerInv, [Next]_vars
  PROVE  PlaceInv'
<1>1. /\ Cardinality(Tokens) \in Nat
      /\ Len(pools) \in Nat /\ Len(pools) <= Cardinality(Tokens)
  BY ListBound DEF ManagerInv, TypeOK
<1> USE ManagerAssumption DEF ManagerInv, TypeOK, PlaceInv, Working, Go, poolVars, reqVars
<1>2. ASSUME NEW q \in Req, Acquire(q) \/ Granted(q) \/ Refused(q)
      PROVE  PlaceInv'
  BY <1>2 DEF Acquire, Granted, Refused, Forget
<1>3. ASSUME NEW q \in Req, TryNext(q)
      PROVE  PlaceInv'
  <2>1. CASE offset[q] < Len(pools)
    <3> DEFINE pl == pools[((first[q] + offset[q]) % Len(pools)) + 1]
    <3>1. pl \in Pool
      BY <2>1, NextInRing
    <3>2. /\ at' = [at EXCEPT ![q] = pl]
          /\ pc' = [pc EXCEPT ![q] = "waiting"]
          /\ UNCHANGED <<reqMu, offset>>
      BY <1>3, <2>1 DEF TryNext, Turns
    <3>3. offset[q] < Cardinality(Tokens)
      BY <1>1, <2>1
    <3> HIDE DEF pl
    <3> QED
      BY <3>1, <3>2, <3>3
  <2>2. CASE ~(offset[q] < Len(pools))
    BY <1>3, <2>2 DEF TryNext, Turns
  <2> QED
    BY <2>1, <2>2
<1>4. ASSUME NEW q \in Req, Lock(q)
      PROVE  PlaceInv'
  BY <1>4 DEF Lock
<1>5. ASSUME NEW q \in Req, AcquireFails(q) \/ Release(q)
      PROVE  PlaceInv'
  <2>1. q \in Working /\ reqMu[at[q]] = q /\ at[q] \in Pool
    BY <1>5 DEF AcquireFails, Release
  <2>2. \A o \in Req \ {q} : o \in Working => at[o] # at[q]
    BY <2>1
  <2>3. CASE AcquireFails(q)
    BY <2>1, <2>2, <2>3 DEF AcquireFails
  <2>4. CASE Release(q)
    BY <2>1, <2>2, <2>4 DEF Release
  <2> QED
    BY <1>5, <2>3, <2>4
<1>6. ASSUME NEW t \in Tokens, AddToken(t) \/ RemoveToken(t)
      PROVE  PlaceInv'
  BY <1>6 DEF AddToken, RemoveToken
<1>7. CASE UNCHANGED vars
  BY <1>7 DEF vars
<1> QED
  BY <1>2, <1>3, <1>4, <1>5, <1>6, <1>7 DEF Next, RequestStep

\* Turns only bring the requests round what is due; a pool that is added leaves
\* everything that was ahead of a request ahead of it.  After a removal nothing is
\* said of the requests that are under way.
LEMMA RoundStep ==
  ASSUME ManagerInv, [Next]_vars
  PROVE  RoundInv'
<1>1. /\ Len(pools) \in Nat /\ DOMAIN pools = 1..Len(pools)
      /\ pools \in Seq(Pool)
      /\ \A q \in Req : first[q] \in Nat /\ offset[q] \in Nat /\ Turn(q) \in Nat
  <2>1. Cardinality(Tokens) \in Nat
    BY ListBound DEF ManagerInv
  <2> QED
    BY <2>1, ManagerAssumption DEF ManagerInv, TypeOK, Turn
\* A step of one request that leaves the list, its round and what is due.
<1>2. ASSUME NEW q \in Req, UNCHANGED <<pools, first, due, shrunk>>,
             Turn(q)' = Turn(q), \A o \in Req \ {q} : Turn(o)' = Turn(o),
             \A o \in Req \ shrunk :
               pc'[o] \in {"idle", "leased", "refused"} => due[o] = {}
      PROVE  RoundInv'
  <2>1. \A o \in Req : Turn(o)' = Turn(o)
    BY <1>2
  <2> QED
    BY <1>2, <2>1 DEF ManagerInv, RoundInv, Ahead
\* Nothing is due for the request any more.
<1>3. ASSUME NEW q \in Req, UNCHANGED <<pools, shrunk>>,
             due' = [due EXCEPT ![q] = {}],
             \A o \in Req \ {q} : /\ Turn(o)' = Turn(o) /\ first'[o] = first[o]
                                  /\ pc'[o] = pc[o]
      PROVE  RoundInv'
  <2>1. due'[q] = {} /\ \A o \in Req \ {q} : due'[o] = due[o]
    BY <1>3 DEF ManagerInv, TypeOK
  <2> QED
    BY <1>3, <2>1 DEF ManagerInv, RoundInv, Ahead
<1>4. ASSUME NEW q \in Req, Acquire(q)
      PROVE  RoundInv'
  <2>1. /\ pc[q] = "idle" /\ offset[q] = 0 /\ offset' = offset /\ pools' = pools
        /\ due' = [due EXCEPT ![q] = Listed] /\ shrunk' = shrunk \ {q}
        /\ \A o \in Req \ {q} : /\ pc'[o] = pc[o] /\ first'[o] = first[o]
                               /\ due'[o] = due[o]
    <3>1. /\ pc[q] = "idle" /\ offset[q] = 0
          /\ due' = [due EXCEPT ![q] = Listed] /\ shrunk' = shrunk \ {q}
          /\ UNCHANGED <<pools, offset>>
      BY <1>4 DEF ManagerInv, PlaceInv, Acquire, poolVars
    <3>2. \A o \in Req \ {q} : pc'[o] = pc[o] /\ first'[o] = first[o]
      BY <1>4 DEF ManagerInv, TypeOK, Acquire, Go
    <3>3. \A o \in Req \ {q} : due'[o] = due[o]
      BY <3>1 DEF ManagerInv, TypeOK
    <3> QED
      BY <3>1, <3>2, <3>3
  <2>2. due'[q] = Listed
    BY <2>1 DEF ManagerInv, TypeOK
  <2>3. CASE pools = <<>>
    <3>1. Listed = {} /\ pc'[q] \in {"refused", "trying"}
      BY <1>4, <2>3 DEF Listed, Acquire, Go, ManagerInv, TypeOK
    <3>2. due'[q] = {} /\ \A o \in Req \ {q} : due'[o] = due[o]
      BY <2>1, <2>2, <3>1
    <3>3. \A o \in Req \ {q} : Turn(o)' = Turn(o)
      BY <2>1 DEF Turn
    <3> QED
      BY <2>1, <3>2, <3>3 DEF ManagerInv, RoundInv, Ahead
  <2>4. CASE pools # <<>>
    <3>1. /\ first'[q] \in 0..(Len(pools) - 1)
          /\ pc'[q] = "trying"
      BY <1>4, <2>4 DEF Acquire, Go, ManagerInv, TypeOK
    <3>2. Turn(q)' = 0 /\ \A o \in Req \ {q} : Turn(o)' = Turn(o)
      BY <2>1, <3>1 DEF Turn
    <3>3. \A j \in DOMAIN pools :
            j > first'[q] + 0 \/ (j <= first'[q] /\ j > first'[q] + 0 - Len(pools))
      BY <1>1, <3>1
    <3>4. Listed = Ahead(q, 0)'
      BY <2>1, <3>3 DEF Listed, Ahead
    <3>5. first'[q] < Len(pools')
      BY <1>1, <2>1, <3>1
    <3> QED
      BY <2>1, <2>2, <3>1, <3>2, <3>4, <3>5 DEF ManagerInv, RoundInv, Ahead
  <2> QED
    BY <2>3, <2>4
\* The pool that is tried is the next one in the ring.
<1>5. ASSUME NEW q \in Req, TryNext(q), offset[q] < Len(pools)
      PROVE  RoundInv'
  <2> DEFINE i == ((first[q] + offset[q]) % Len(pools)) + 1
  <2>1. /\ pc[q] = "trying" /\ pc' = [pc EXCEPT ![q] = "waiting"]
        /\ due' = [due EXCEPT ![q] = @ \ {pools[i]}]
        /\ UNCHANGED <<pools, first, offset, shrunk>>
    BY <1>5 DEF TryNext, Turns, Go, poolVars
  <2>2. /\ i \in DOMAIN pools
        /\ first[q] < Len(pools) =>
             i = IF first[q] + offset[q] < Len(pools)
                 THEN first[q] + offset[q] + 1
                 ELSE first[q] + offset[q] - Len(pools) + 1
    BY <1>5, NextInRing DEF ManagerInv
  <2> HIDE DEF i
  <2>3. /\ due'[q] = due[q] \ {pools[i]} /\ \A o \in Req \ {q} : due'[o] = due[o]
        /\ pc'[q] = "waiting" /\ \A o \in Req \ {q} : pc'[o] = pc[o]
    BY <2>1 DEF ManagerInv, TypeOK
  <2>4. /\ Turn(q) = offset[q] /\ Turn(q)' = offset[q] + 1
        /\ \A o \in Req \ {q} : Turn(o)' = Turn(o)
    BY <2>1, <2>3 DEF Turn
  <2>5. q \notin shrunk => due'[q] \subseteq Ahead(q, Turn(q))'
    <3> SUFFICES ASSUME q \notin shrunk, NEW pl \in due'[q] PROVE pl \in Ahead(q, Turn(q))'
      OBVIOUS
    <3>1. pl \in due[q] /\ pl # pools[i] /\ first[q] < Len(pools)
      BY <2>3 DEF ManagerInv, RoundInv
    <3>2. PICK k \in DOMAIN pools :
            /\ pl = pools[k]
            /\ \/ k > first[q] + offset[q]
               \/ k <= first[q] /\ k > first[q] + offset[q] - Len(pools)
      BY <2>4, <3>1 DEF ManagerInv, RoundInv, Ahead
    <3>3. k # i
      BY <3>1, <3>2
    <3>4. \/ k > first[q] + (offset[q] + 1)
          \/ k <= first[q] /\ k > first[q] + (offset[q] + 1) - Len(pools)
      BY SMTT(30), <1>1, <2>2, <3>1, <3>2, <3>3
    <3> QED
      BY <2>1, <2>4, <3>2, <3>4 DEF Ahead
  <2> QED
    BY <2>1, <2>3, <2>4, <2>5 DEF ManagerInv, RoundInv, Ahead
\* After the last turn nothing is ahead.
<1>6. ASSUME NEW q \in Req, TryNext(q), ~(offset[q] < Len(pools))
      PROVE  RoundInv'
  <2>1. pc[q] = "trying" /\ pc' = [pc EXCEPT ![q] = "refused"]
        /\ UNCHANGED <<pools, first, offset, due, shrunk>>
    BY <1>6 DEF TryNext, Turns, Go, poolVars
  <2>2. Turn(q) = offset[q]
    BY <2>1 DEF Turn
  <2>3. Ahead(q, offset[q]) = {}
    BY <1>1, <1>6 DEF Ahead
  <2>4. q \notin shrunk => due[q] = {}
    BY <2>2, <2>3 DEF ManagerInv, RoundInv
  <2>5. pc'[q] = "refused" /\ \A o \in Req \ {q} : pc'[o] = pc[o]
    BY <2>1 DEF ManagerInv, TypeOK
  <2>6. \A o \in Req : Turn(o)' = Turn(o)
    BY <2>1, <2>5 DEF Turn
  <2> QED
    BY <1>2, <2>1, <2>4, <2>5, <2>6 DEF ManagerInv, RoundInv
<1>7. ASSUME NEW q \in Req, Lock(q) \/ AcquireFails(q) \/ Release(q)
      PROVE  RoundInv'
  <2>1. UNCHANGED <<pools, first, due, shrunk>>
    BY <1>7 DEF Lock, AcquireFails, Release, poolVars
  <2>2. /\ \A o \in Req \ {q} : pc'[o] = pc[o] /\ offset'[o] = offset[o]
        /\ \/ pc[q] = "waiting" /\ pc'[q] = "acquiring" /\ offset'[q] = offset[q]
           \/ pc[q] = "acquiring" /\ pc'[q] = "trying" /\ offset'[q] = offset[q] + 1
           \/ pc[q] = "leased" /\ pc'[q] = "idle" /\ offset'[q] = offset[q]
    BY <1>7 DEF Lock, AcquireFails, Release, Go, ManagerInv, TypeOK
  <2>3. Turn(q)' = Turn(q) /\ \A o \in Req \ {q} : Turn(o)' = Turn(o)
    BY <2>2 DEF Turn
  <2> QED
    BY <1>2, <2>1, <2>2, <2>3 DEF ManagerInv, RoundInv
<1>8. ASSUME NEW q \in Req, Granted(q) \/ Refused(q)
      PROVE  RoundInv'
  <2>1. /\ UNCHANGED <<pools, shrunk>> /\ due' = [due EXCEPT ![q] = {}]
        /\ \A o \in Req \ {q} : /\ pc'[o] = pc[o] /\ offset'[o] = offset[o]
                               /\ first'[o] = first[o]
    BY <1>8 DEF Granted, Refused, Forget, Go, poolVars, ManagerInv, TypeOK
  <2>2. \A o \in Req \ {q} : Turn(o)' = Turn(o)
    BY <2>1 DEF Turn
  <2> QED
    BY <1>3, <2>1, <2>2
<1>9. ASSUME NEW t \in Tokens, AddToken(t)
      PROVE  RoundInv'
  <2>1. PICK pl \in Pool : pools' = Append(pools, pl)
    BY <1>9 DEF AddToken
  <2>2. UNCHANGED <<pc, first, offset, due, shrunk>>
    BY <1>9 DEF AddToken, reqVars
  <2>3. /\ Len(pools') = Len(pools) + 1 /\ DOMAIN pools' = 1..(Len(pools) + 1)
        /\ \A k \in DOMAIN pools : pools'[k] = pools[k]
    BY <1>1, <2>1
  <2>4. ASSUME NEW q \in Req PROVE Turn(q)' = Turn(q)
    BY <2>2 DEF Turn
  <2>5. ASSUME NEW q \in Req PROVE Ahead(q, Turn(q)) \subseteq Ahead(q, Turn(q))'
    <3>1. \A k \in DOMAIN pools :
            /\ k \in DOMAIN pools'
            /\ k > first[q] + Turn(q) - Len(pools) => k > first[q] + Turn(q) - Len(pools')
      BY <1>1, <2>3
    <3> QED
      BY <2>2, <2>3, <2>4, <3>1 DEF Ahead
  <2>6. ASSUME NEW q \in Req, first[q] < Len(pools) PROVE first[q] < Len(pools')
    BY <1>1, <2>3, <2>6
  <2> QED
    BY <2>2, <2>4, <2>5, <2>6 DEF ManagerInv, RoundInv
<1>10. ASSUME NEW t \in Tokens, RemoveToken(t)
       PROVE  RoundInv'
  BY <1>10 DEF RemoveToken, RoundInv
<1>11. CASE UNCHANGED vars
  BY <1>11 DEF vars, poolVars, reqVars, ManagerInv, RoundInv, Ahead, Turn
<1> QED
  BY <1>4, <1>5, <1>6, <1>7, <1>8, <1>9, <1>10, <1>11 DEF Next, RequestStep
-----------------------------------------------------------------------------
(* The theorems.                                                           *)

\* Every reachable state of every instance satisfies the invariant.
THEOREM ManagerInvariance == Spec => []ManagerInv
<1>1. ManagerInv /\ [Next]_vars => ManagerInv'
  BY TypeStep, ListStep, PlaceStep, RoundStep DEF ManagerInv
<1> QED
  BY InitManager, <1>1, PTL DEF Spec

\* The variables keep their types; no Acquire makes more turns than there are
\* accounts, although it reads the length of the list anew every time.
THEOREM ManagerTypes == Spec => []TypeOK
<1>1. ManagerInv => TypeOK
  BY DEF ManagerInv
<1> QED
  BY <1>1, ManagerInvariance, PTL

\* However many accounts are added while it goes round, an Acquire that is refused
\* has tried every account that was there when it began, unless an account was
\* deleted meanwhile (RunManager.Acquire).
THEOREM RefusedAfterAll == Spec => []RefusedTriedAll
<1>1. ManagerInv => RefusedTriedAll
  BY DEF ManagerInv, RoundInv, RefusedTriedAll
<1> QED
  BY <1>1, ManagerInvariance, PTL

\* Two requests never work under one account, unless it was deleted under one of
\* them: listed pools have different accounts, and a pool has one request.
THEOREM AccountsSerialise == Spec => []OneRequestPerAccount
<1>1. ASSUME ManagerInv, NEW q \in Working, NEW o \in Working,
             tokenOf[at[q]] = tokenOf[at[o]], {at[q], at[o]} \subseteq Listed
      PROVE  q = o
  <2>1. PICK i, j \in DOMAIN pools : at[q] = pools[i] /\ at[o] = pools[j]
    BY <1>1 DEF Listed
  <2>2. at[q] = at[o]
    BY <1>1, <2>1 DEF ManagerInv, ListInv
  <2> QED
    BY <1>1, <2>2 DEF ManagerInv, PlaceInv, Working
<1>2. ManagerInv => OneRequestPerAccount
  BY <1>1 DEF OneRequestPerAccount
<1> QED
  BY <1>2, ManagerInvariance, PTL
=============================================================================
