-------------------------- MODULE ProxyPool_proofs --------------------------
(* Proofs about ProxyPool for any addresses, handlers and requests.        *)
EXTENDS ProxyPool, TLAPS

\* The entry CheckProxy has a result for is the entry it asked through.
ResultIsOfTarget ==
  \A p \in Checkers : pc[p] \in {"lock", "detect"} => at[p] \in probed

\* What the variables are functions of; their ranges do not matter here.
Domains ==
  DOMAIN pc = Proc /\ DOMAIN alive = Entry /\ DOMAIN at = Checkers

\* The inductive invariant.
PoolInv == Domains /\ ResultIsOfTarget /\ AliveWasChecked /\ OwnerIsAtWork
-----------------------------------------------------------------------------
LEMMA PoolInvInit == Init => PoolInv
<1> SUFFICES ASSUME Init PROVE PoolInv
  OBVIOUS
<1>1. Domains /\ \A p \in Checkers : pc[p] = "idle"
  BY DEF Init, Domains, Proc
<1> QED
  BY <1>1, ProxyAssumption DEF Init, PoolInv, ResultIsOfTarget, AliveWasChecked,
     OwnerIsAtWork, Proc

LEMMA PoolInvStep ==
  ASSUME PoolInv, [Next]_vars
  PROVE  PoolInv'
<1> USE ProxyAssumption DEF PoolInv, Domains, ResultIsOfTarget, AliveWasChecked,
   OwnerIsAtWork, Proc, Checkers, Goto, listVars, entryVars, fileVars, workVars
\* A request changes nothing but its place and p.current.
<1>1. ASSUME NEW q \in Requests, Arrive(q) \/ SelectBest(q)
      PROVE  PoolInv'
  <2>1. /\ UNCHANGED <<mu, alive, at, probed>>
        /\ \E place : pc' = [pc EXCEPT ![q] = place]
    BY <1>1 DEF Arrive, SelectBest
  <2>2. \A p \in Checkers : pc'[p] = pc[p]
    BY <2>1
  <2> QED
    BY <2>1, <2>2
\* An edit takes a free lock and goes on to the file.
<1>2. ASSUME NEW h \in Handlers,
             \/ \E e \in Entry : AddBatch(h, e)
             \/ \E i \in 1..size : Remove(h, i)
      PROVE  PoolInv'
  <2>1. /\ UNCHANGED <<alive, at, probed>>
        /\ mu = Nobody /\ mu' = h
        /\ pc' = [pc EXCEPT ![h] = "open"]
    BY <1>2 DEF AddBatch, Remove, SaveLocked
  <2> QED
    BY <2>1
\* A process that begins is idle and so does not own the lock.
<1>3. ASSUME NEW p \in Checkers,
             \/ p \in Handlers /\ (BeginSave(p) \/ BeginCheck(p))
             \/ BeginAll(p)
      PROVE  PoolInv'
  <2>1. /\ UNCHANGED <<mu, alive, at, probed>>
        /\ pc[p] = "idle"
        /\ pc' = [pc EXCEPT ![p] = "marshal"] \/ pc' = [pc EXCEPT ![p] = "next"]
    BY <1>3 DEF BeginSave, BeginCheck, BeginAll
  <2> QED
    BY <2>1
\* From here on the entry is one that a check was sent out for.
<1>4. ASSUME NEW p \in Checkers, Probe(p)
      PROVE  PoolInv'
  <2>1. /\ UNCHANGED <<mu, alive>>
        /\ pc[p] = "next" /\ pc' = [pc EXCEPT ![p] = "lock"]
        /\ at' = [at EXCEPT ![p] = Head(todo[p])]
        /\ probed' = probed \cup {Head(todo[p])}
    BY <1>4 DEF Probe
  <2> QED
    BY <2>1
<1>5. ASSUME NEW p \in Checkers, ProbeFailed(p)
      PROVE  PoolInv'
  <2>1. /\ UNCHANGED <<mu, at, probed>>
        /\ mu = Nobody
        /\ pc' = [pc EXCEPT ![p] = "marshal"]
        /\ alive' = [alive EXCEPT ![at[p]] = FALSE]
    BY <1>5 DEF ProbeFailed, Target, AfterCheck
  <2> QED
    BY <2>1
<1>6. ASSUME NEW p \in Checkers, ProbeOk(p)
      PROVE  PoolInv'
  <2>1. /\ UNCHANGED <<at, probed>>
        /\ mu = Nobody /\ mu' = p
        /\ pc[p] = "lock" /\ pc' = [pc EXCEPT ![p] = "detect"]
        /\ alive' = [alive EXCEPT ![at[p]] = TRUE]
    BY <1>6 DEF ProbeOk, Target
  <2>2. at[p] \in probed
    BY <2>1
  <2> QED
    BY <2>1, <2>2
<1>7. ASSUME NEW p \in Checkers, DetectMode(p)
      PROVE  PoolInv'
  <2>1. /\ UNCHANGED <<alive, at, probed>>
        /\ mu' = Nobody
        /\ pc' = [pc EXCEPT ![p] = "marshal"]
    BY <1>7 DEF DetectMode, AfterCheck
  <2> QED
    BY <2>1
<1>8. ASSUME NEW p \in Checkers, LoopEnds(p) \/ Marshal(p)
      PROVE  PoolInv'
  <2>1. /\ UNCHANGED <<mu, alive, probed>>
        /\ pc[p] \in {"next", "marshal"}
        /\ \E place \in {"idle", "marshal", "open"} : pc' = [pc EXCEPT ![p] = place]
        /\ \E e : at' = at \/ at' = [at EXCEPT ![p] = e]
    BY <1>8 DEF LoopEnds, Marshal
  <2> QED
    BY <2>1
<1>9. ASSUME NEW p \in Checkers, OpenFile(p)
      PROVE  PoolInv'
  <2>1. /\ UNCHANGED <<mu, alive, at, probed>>
        /\ pc' = [pc EXCEPT ![p] = "write"]
    BY <1>9 DEF OpenFile
  <2> QED
    BY <2>1
<1>10. ASSUME NEW p \in Checkers, WriteFile(p)
       PROVE  PoolInv'
  <2>1. /\ UNCHANGED <<alive, at, probed>>
        /\ mu' = IF mu = p THEN Nobody ELSE mu
        /\ pc' = [pc EXCEPT ![p] = "next"] \/ pc' = [pc EXCEPT ![p] = "idle"]
    BY <1>10 DEF WriteFile, AfterSave
  <2> QED
    BY <2>1
<1>11. CASE UNCHANGED vars \/ \E e \in Entry : CooldownEnds(e)
  BY <1>11 DEF vars, CooldownEnds
<1> QED
  BY <1>1, <1>2, <1>3, <1>4, <1>5, <1>6, <1>7, <1>8, <1>9, <1>10, <1>11
  DEF Next, Edit, Work

\* The invariant holds in every reachable state.
THEOREM PoolInvariance == Spec => []PoolInv
BY PoolInvInit, PoolInvStep, PTL DEF Spec

\* An exit that may be selected was checked since it was added, however often its
\* address was removed and added during a check.
THEOREM CheckedSinceAdded == Spec => []AliveWasChecked
<1>1. PoolInv => AliveWasChecked
  BY DEF PoolInv
<1> QED
  BY <1>1, PoolInvariance, PTL

\* p.mu is never left behind: its owner is in a call or a write that ends.
THEOREM NoLostLock == Spec => []OwnerIsAtWork
<1>1. PoolInv => OwnerIsAtWork
  BY DEF PoolInv
<1> QED
  BY <1>1, PoolInvariance, PTL
-----------------------------------------------------------------------------
(* Types.  What save has marshalled is never longer than the array, which  *)
(* only grows: reading its elements late stays inside the array.           *)

TextFits == \A p \in Checkers : Len(text[p]) <= Len(array)

TypeInv == TypeOK /\ TextFits

\* A list of entries stays one when more entries exist.
LEMMA MoreEntries ==
  ASSUME NEW S, NEW T, S \subseteq T
  PROVE  Seq(S) \subseteq Seq(T)
  OBVIOUS

\* p.entries and what it lists.
LEMMA EntriesType ==
  ASSUME NEW S, NEW a \in Seq(S), NEW n \in 0..Len(a)
  PROVE  /\ SubSeq(a, 1, n) \in Seq(S) /\ Len(SubSeq(a, 1, n)) = n
         /\ \A i \in 1..n : SubSeq(a, 1, n)[i] \in S
<1>1. Len(a) \in Nat
  OBVIOUS
<1>2. SubSeq(a, 1, n) \in Seq(S) /\ Len(SubSeq(a, 1, n)) = n
  BY <1>1
<1> QED
  BY <1>2

\* The first exit of a list, if it works.
LEMMA LoadedType ==
  ASSUME NEW e \in Entry
  PROVE  Loaded(<<>>) \in Addr \cup {NoAddr} /\ Loaded(<<e>>) \in Addr \cup {NoAddr}
<1>1. Loaded(<<>>) = NoAddr
  BY DEF Loaded
<1>2. CASE mode[e] = "full" /\ alive[e]
  <2> DEFINE Good == {i \in DOMAIN <<e>> : mode[<<e>>[i]] = "full" /\ alive[<<e>>[i]]}
  <2>1. Good = {1}
    BY <1>2
  <2>2. (CHOOSE i \in Good : \A j \in Good : i <= j) = 1
    BY <2>1
  <2>3. Loaded(<<e>>) = e[1]
    BY <2>1, <2>2 DEF Loaded
  <2> QED
    BY <1>1, <2>3, ProxyAssumption
<1>3. CASE ~(mode[e] = "full" /\ alive[e])
  <2>1. Loaded(<<e>>) = NoAddr
    BY <1>3 DEF Loaded
  <2> QED
    BY <1>1, <2>1
<1> QED
  BY <1>2, <1>3

LEMMA TypeInit == Init => TypeInv
<1> SUFFICES ASSUME Init PROVE TypeInv
  OBVIOUS
<1>1. /\ array \in Seq(Entry) /\ array \in Seq(added) /\ size = Len(array)
      /\ size \in 0..Len(array) /\ added \subseteq Entry
      /\ current \in Addr \cup {NoAddr}
  <2>1. CASE array = <<>>
    <3>1. size = 0 /\ added = {}
      BY <2>1 DEF Init, Listed
    <3>2. Loaded(<<>>) \in Addr \cup {NoAddr}
      BY DEF Loaded
    <3> QED
      BY <2>1, <3>1, <3>2 DEF Init
  <2>2. CASE array # <<>>
    <3>1. PICK e \in Entry : array = <<e>>
      BY <2>2 DEF Init
    <3>2. size = 1
      BY <3>1 DEF Init
    <3>3. SubSeq(<<e>>, 1, 1)[1] = e
      OBVIOUS
    <3>4. Entries[1] = e
      BY <3>1, <3>2, <3>3 DEF Entries
    <3>5. added = {e}
      BY <3>2, <3>4 DEF Init, Listed
    <3> QED
      BY <3>1, <3>2, <3>5, LoadedType DEF Init
  <2> QED
    BY <2>1, <2>2
<1>2. pc \in [Proc -> {"idle", "select", "next", "lock", "detect", "marshal",
                       "open", "write"}]
  BY DEF Init
<1>3. /\ fails \in [Entry -> 0..FailLimit] /\ cooling \in [Entry -> BOOLEAN]
      /\ todo \in [Checkers -> Seq(added)] /\ text \in [Checkers -> Seq(added)]
      /\ at \in [Checkers -> added \cup {NoEntry}]
  BY ProxyAssumption DEF Init
<1>4. TextFits
  BY <1>1 DEF Init, TextFits
<1> QED
  BY <1>1, <1>2, <1>3, <1>4 DEF Init, TypeInv, TypeOK

LEMMA TypeStep ==
  ASSUME TypeInv, PoolInv, [Next]_vars
  PROVE  TypeInv'
<1> USE DEF Goto
<1> DEFINE Places == {"idle", "select", "next", "lock", "detect", "marshal", "open", "write"}
<1>1. /\ TypeOK /\ TextFits
      /\ array \in Seq(added) /\ Len(array) \in Nat /\ size \in 0..Len(array)
  BY DEF TypeInv, TypeOK
<1>2. Entries \in Seq(added) /\ Len(Entries) = size /\ Listed \subseteq added
  BY <1>1, EntriesType DEF Entries, Listed
\* Entries that are added do not disturb the lists there are.
<1>3. ASSUME added \subseteq added'
      PROVE  /\ todo \in [Checkers -> Seq(added')] /\ text \in [Checkers -> Seq(added')]
             /\ at \in [Checkers -> added' \cup {NoEntry}]
             /\ file \in Seq(added') \cup {Garbled}
             /\ probed \subseteq added'
  <2>1. Seq(added) \subseteq Seq(added')
    BY <1>3, MoreEntries
  <2> QED
    BY <1>1, <1>3, <2>1 DEF TypeOK
<1>4. ASSUME NEW q \in Requests, Arrive(q)
      PROVE  TypeInv'
  BY <1>1, <1>4 DEF Arrive, TypeInv, TypeOK, TextFits, Proc, listVars, entryVars,
     workVars, fileVars
<1>5. ASSUME NEW q \in Requests, SelectBest(q)
      PROVE  TypeInv'
  <2>1. current' \in Addr \cup {NoAddr}
    <3>1. ASSUME NEW e \in Listed PROVE e[1] \in Addr
      BY <1>1, <1>2, <3>1, ProxyAssumption DEF TypeOK
    <3> QED
      BY <1>1, <1>5, <3>1 DEF SelectBest, Offered, TypeOK
  <2> QED
    BY <1>1, <1>5, <2>1 DEF SelectBest, TypeInv, TypeOK, TextFits, Proc, listVars,
       entryVars, workVars, fileVars
\* An edit marshals the new list.
<1>6. ASSUME NEW h \in Handlers, UNCHANGED <<entryVars, current, workVars, fileVars, probed>>,
             SaveLocked(h, SubSeq(array', 1, size')),
             added \subseteq added', added' \subseteq Entry,
             array' \in Seq(added'), size' \in 0..Len(array'), Len(array) <= Len(array')
      PROVE  TypeInv'
  <2> DEFINE list == SubSeq(array', 1, size')
  <2>1. list \in Seq(added') /\ Len(list) <= Len(array') /\ Len(array') \in Nat
    BY <1>6, EntriesType
  <2> HIDE DEF list
  <2>2. h \in Checkers /\ h \in Proc
    BY DEF Checkers, Proc
  <2>3. text' = [text EXCEPT ![h] = list]
    BY <1>6 DEF SaveLocked, list
  <2>4. text' \in [Checkers -> Seq(added')]
    BY <1>3, <1>6, <2>1, <2>2, <2>3
  <2>5. TextFits'
    <3> SUFFICES ASSUME NEW p \in Checkers PROVE Len(text'[p]) <= Len(array')
      BY DEF TextFits
    <3>1. CASE p = h
      BY <1>1, <2>1, <2>3, <3>1 DEF TypeOK
    <3>2. CASE p # h
      <4>1. text'[p] = text[p] /\ Len(text[p]) \in Nat
        BY <1>1, <2>3, <3>2 DEF TypeOK
      <4> QED
        BY <1>1, <1>6, <2>1, <4>1 DEF TextFits
    <3> QED
      BY <3>1, <3>2
  <2>6. pc' \in [Proc -> Places] /\ mu' \in Checkers \cup {Nobody}
    BY <1>1, <1>6, <2>2 DEF SaveLocked, TypeOK
  <2> QED
    BY <1>1, <1>3, <1>6, <2>4, <2>5, <2>6 DEF TypeInv, TypeOK, entryVars, workVars, fileVars
<1>7. ASSUME NEW h \in Handlers, NEW e \in Entry, AddBatch(h, e)
      PROVE  TypeInv'
  <2>1. /\ UNCHANGED <<entryVars, current, workVars, fileVars, probed>>
        /\ SaveLocked(h, SubSeq(array', 1, size'))
    BY <1>7 DEF AddBatch
  <2>2. CASE UNCHANGED listVars
    BY <1>1, <1>6, <2>1, <2>2 DEF listVars, TypeOK
  <2>3. CASE ~UNCHANGED listVars
    <3>1. /\ array' = IF size < Len(array) THEN [array EXCEPT ![size + 1] = e]
                                           ELSE Append(array, e)
          /\ size' = size + 1 /\ added' = added \cup {e}
      BY <1>7, <2>3 DEF AddBatch
    <3>2. array \in Seq(added')
      BY <1>1, <3>1, MoreEntries
    <3>3. /\ array' \in Seq(added') /\ Len(array) <= Len(array')
          /\ size' \in 0..Len(array')
      <4>1. CASE size < Len(array)
        BY <1>1, <3>1, <3>2, <4>1
      <4>2. CASE size = Len(array)
        BY <1>1, <3>1, <3>2, <4>2
      <4> QED
        BY <1>1, <4>1, <4>2
    <3> QED
      BY <1>1, <1>6, <2>1, <3>1, <3>3 DEF TypeOK
  <2> QED
    BY <2>2, <2>3
<1>8. ASSUME NEW h \in Handlers, NEW i \in 1..size, Remove(h, i)
      PROVE  TypeInv'
  <2>1. /\ array' = [k \in 1..Len(array) |->
                      IF k \in i..(size - 1) THEN array[k + 1] ELSE array[k]]
        /\ size' = size - 1 /\ added' = added
        /\ UNCHANGED <<entryVars, current, workVars, fileVars, probed>>
        /\ SaveLocked(h, SubSeq(array', 1, size'))
    BY <1>8 DEF Remove
  <2>2. array' \in Seq(added) /\ Len(array') = Len(array)
    BY <1>1, <2>1
  <2>3. size' \in 0..Len(array') /\ Len(array) <= Len(array')
    BY <1>1, <2>1, <2>2
  <2>4. array' \in Seq(added') /\ added' \subseteq Entry /\ added \subseteq added'
    BY <1>1, <2>1, <2>2 DEF TypeOK
  <2> QED
    BY <1>6, <2>1, <2>3, <2>4
\* Nobody but an edit changes the list.
<1>9. ASSUME NEW p \in Checkers, UNCHANGED listVars,
             pc' \in [Proc -> Places], mu' \in Checkers \cup {Nobody},
             alive' \in [Entry -> BOOLEAN],
             mode' \in [Entry -> {"unknown", "limited", "full"}],
             fails' \in [Entry -> 0..FailLimit], cooling' \in [Entry -> BOOLEAN],
             UNCHANGED current, viewers' \subseteq Handlers,
             todo' \in [Checkers -> Seq(added)], at' \in [Checkers -> added \cup {NoEntry}],
             text' = text
             \/ \E list \in Seq(added) : /\ text' = [text EXCEPT ![p] = list]
                                        /\ Len(list) <= Len(array),
             file' \in Seq(added) \cup {Garbled}, overlaid' \subseteq Checkers,
             probed' \subseteq added
      PROVE  TypeInv'
  <2>1. UNCHANGED <<array, size, added>>
    BY <1>9 DEF listVars
  <2>2. text' \in [Checkers -> Seq(added)] /\ TextFits'
    BY <1>1, <1>9, <2>1 DEF TypeOK, TextFits
  <2> QED
    BY <1>1, <1>9, <2>1, <2>2 DEF TypeInv, TypeOK
<1>10. ASSUME NEW p \in Checkers
       PROVE  p \in Proc
  BY <1>10 DEF Proc
<1>11. ASSUME NEW h \in Handlers, BeginSave(h)
       PROVE  TypeInv'
  <2>1. h \in Checkers /\ h \in Proc
    BY DEF Checkers, Proc
  <2> QED
    BY <1>1, <1>9, <1>11, <2>1 DEF BeginSave, TypeOK, listVars, entryVars, workVars, fileVars
<1>12. ASSUME NEW h \in Handlers, BeginCheck(h)
       PROVE  TypeInv'
  <2>1. h \in Checkers /\ h \in Proc
    BY DEF Checkers, Proc
  <2>2. todo' \in [Checkers -> Seq(added)]
    <3>1. PICK e \in Listed : todo' = [todo EXCEPT ![h] = <<e>>]
      BY <1>12 DEF BeginCheck
    <3>2. <<e>> \in Seq(added)
      BY <1>2
    <3> QED
      BY <1>1, <3>1, <3>2 DEF TypeOK
  <2> QED
    BY <1>1, <1>9, <1>12, <2>1, <2>2 DEF BeginCheck, TypeOK, listVars, entryVars, fileVars
<1>13. ASSUME NEW p \in Checkers, BeginAll(p)
       PROVE  TypeInv'
  <2>1. todo' \in [Checkers -> Seq(added)]
    BY <1>1, <1>2, <1>13 DEF BeginAll, TypeOK
  <2>2. viewers' \subseteq Handlers
    BY <1>1, <1>13 DEF BeginAll, TypeOK, Checkers
  <2> QED
    BY <1>1, <1>9, <1>10, <1>13, <2>1, <2>2 DEF BeginAll, TypeOK, listVars, entryVars, fileVars
<1>14. ASSUME NEW p \in Checkers, Probe(p)
       PROVE  TypeInv'
  <2>1. todo[p] \in Seq(added) /\ todo[p] # <<>>
    BY <1>1, <1>14 DEF Probe, TypeOK
  <2>2. Head(todo[p]) \in added /\ Tail(todo[p]) \in Seq(added)
    BY <2>1
  <2> QED
    BY <1>1, <1>9, <1>10, <1>14, <2>2 DEF Probe, TypeOK, listVars, entryVars, fileVars
<1>15. ASSUME NEW p \in Checkers, ProbeFailed(p)
       PROVE  TypeInv'
  <2>1. at[p] \in Entry
    BY <1>1, <1>15 DEF ProbeFailed, PoolInv, ResultIsOfTarget, TypeOK
  <2>2. fails' \in [Entry -> 0..FailLimit]
    BY <1>1, <1>15, <2>1, ProxyAssumption DEF ProbeFailed, Target, TypeOK
  <2> QED
    BY <1>1, <1>9, <1>10, <1>15, <2>1, <2>2
       DEF ProbeFailed, Target, AfterCheck, TypeOK, listVars, workVars, fileVars
<1>16. ASSUME NEW p \in Checkers, ProbeOk(p)
       PROVE  TypeInv'
  <2>1. fails' \in [Entry -> 0..FailLimit] /\ alive' \in [Entry -> BOOLEAN]
    <3>1. 0 \in 0..FailLimit
      BY ProxyAssumption
    <3> QED
      BY <1>1, <1>16, <3>1 DEF ProbeOk, TypeOK
  <2>2. pc' \in [Proc -> Places] /\ mu' \in Checkers \cup {Nobody}
    BY <1>1, <1>10, <1>16 DEF ProbeOk, TypeOK
  <2> QED
    BY <1>1, <1>9, <1>16, <2>1, <2>2 DEF ProbeOk, TypeOK, listVars, workVars, fileVars
<1>17. ASSUME NEW p \in Checkers, DetectMode(p)
       PROVE  TypeInv'
  BY <1>1, <1>9, <1>10, <1>17
     DEF DetectMode, Target, AfterCheck, TypeOK, listVars, workVars, fileVars
<1>18. ASSUME NEW p \in Checkers, LoopEnds(p)
       PROVE  TypeInv'
  <2>1. pc' \in [Proc -> Places] /\ viewers' \subseteq Handlers
    BY <1>1, <1>10, <1>18 DEF LoopEnds, TypeOK
  <2>2. <<>> \in Seq(added)
    OBVIOUS
  <2>3. todo' \in [Checkers -> Seq(added)] /\ at' \in [Checkers -> added \cup {NoEntry}]
    BY <1>1, <1>18, <2>2 DEF LoopEnds, TypeOK
  <2> QED
    BY <1>1, <1>9, <1>18, <2>1, <2>3 DEF LoopEnds, TypeOK, listVars, entryVars, fileVars
<1>19. ASSUME NEW p \in Checkers, Marshal(p)
       PROVE  TypeInv'
  <2>1. /\ text' = [text EXCEPT ![p] = Entries]
        /\ Entries \in Seq(added) /\ Len(Entries) <= Len(array)
    BY <1>1, <1>2, <1>19 DEF Marshal
  <2>2. pc' \in [Proc -> Places]
    BY <1>1, <1>10, <1>19 DEF Marshal, TypeOK
  <2> QED
    BY <1>1, <1>9, <1>19, <2>1, <2>2
       DEF Marshal, TypeOK, listVars, entryVars, workVars, fileVars
\* Reading late gives another entry of the array, for the text fits into it.
<1>20. ASSUME NEW p \in Checkers, OpenFile(p)
       PROVE  TypeInv'
  <2>1. PICK late \in SUBSET DOMAIN text[p] :
          text' = [text EXCEPT ![p] =
            [k \in DOMAIN text[p] |-> IF k \in late THEN array[k] ELSE text[p][k]]]
    BY <1>1, <1>20 DEF OpenFile, TypeOK
  <2> DEFINE list == [k \in DOMAIN text[p] |-> IF k \in late THEN array[k] ELSE text[p][k]]
  <2>2. text[p] \in Seq(added) /\ Len(text[p]) <= Len(array)
    BY <1>1 DEF TypeOK, TextFits
  <2>3. list \in Seq(added) /\ Len(list) <= Len(array)
    BY <1>1, <2>2
  <2> HIDE DEF list
  <2>4. text' = [text EXCEPT ![p] = list]
    BY <2>1 DEF list
  <2>5. /\ pc' \in [Proc -> Places]
        /\ file' \in Seq(added) \cup {Garbled} /\ overlaid' \subseteq Checkers
    BY <1>1, <1>10, <1>20 DEF OpenFile, TypeOK
  <2>6. UNCHANGED <<mu, listVars, entryVars, current, workVars, probed>>
    BY <1>20 DEF OpenFile
  <2> QED
    BY <1>1, <1>9, <2>3, <2>4, <2>5, <2>6 DEF TypeOK, listVars, entryVars, workVars
<1>21. ASSUME NEW p \in Checkers, WriteFile(p)
       PROVE  TypeInv'
  <2>1. /\ text' = [text EXCEPT ![p] = <<>>]
        /\ <<>> \in Seq(added) /\ Len(<<>>) <= Len(array)
    BY <1>1, <1>21 DEF WriteFile
  <2>2. file' \in Seq(added) \cup {Garbled} /\ overlaid' \subseteq Checkers
    BY <1>1, <1>21 DEF WriteFile, TypeOK
  <2>3. pc' \in [Proc -> Places] /\ mu' \in Checkers \cup {Nobody}
    BY <1>1, <1>10, <1>21 DEF WriteFile, AfterSave, TypeOK
  <2> QED
    BY <1>1, <1>9, <1>21, <2>1, <2>2, <2>3 DEF WriteFile, TypeOK, listVars, entryVars, workVars
<1>22. ASSUME NEW e \in Entry, CooldownEnds(e)
       PROVE  TypeInv'
  BY <1>1, <1>22 DEF CooldownEnds, TypeInv, TypeOK, TextFits, listVars, workVars, fileVars
<1>23. CASE UNCHANGED vars
  BY <1>1, <1>23 DEF vars, TypeInv, TypeOK, TextFits, listVars, entryVars, workVars, fileVars
<1> QED
  BY <1>4, <1>5, <1>7, <1>8, <1>11, <1>12, <1>13, <1>14, <1>15, <1>16, <1>17, <1>18,
     <1>19, <1>20, <1>21, <1>22, <1>23 DEF Next, Edit, Work

\* The variables keep their types: a save that marshals without the lock reads
\* past no array, and a check writes only to entries that were added
\* (ProxyPool.save, ProxyPool.CheckProxy).
THEOREM PoolTypes == Spec => []TypeOK
<1>1. TypeInv /\ PoolInv /\ [Next]_vars => TypeInv'
  BY TypeStep
<1>2. TypeInv => TypeOK
  BY DEF TypeInv
<1> QED
  BY TypeInit, <1>1, <1>2, PoolInvariance, PTL DEF Spec
=============================================================================
