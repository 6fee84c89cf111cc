----------------------------- MODULE ProxyPool ------------------------------
(* The pool of egress proxies (exits) and its file proxy_pool.json.        *)
(*                                                                         *)
(* Requests select an exit, handlers of the Web UI add, remove, check and  *)
(* save exits, and a ticker checks all of them.  Code that runs under p.mu *)
(* without a network call or a write in it is one action.  An entry is an  *)
(* address with a number: an address that was removed and added again is a *)
(* new *ProxyEntry, while a check that is under way still holds the old.   *)
EXTENDS Naturals, Sequences

CONSTANTS
  Addr,        \* addresses an administrator may enter
  Entry,       \* bound: the entries that may be created
  Undialable,  \* addresses AddBatch accepts and buildTransport does not (socks4)
  FailLimit,   \* failed checks in a row that send an exit into cooldown (3)
  Handlers,    \* Web UI handlers at work at the same time
  Requests,    \* requests to the upstream
  Tick,        \* the self-check goroutine
  Nobody, NoEntry, NoAddr,
  Garbled      \* the contents of a file two writers have written over

Checkers == Handlers \cup {Tick}

Proc == Checkers \cup Requests

ASSUME ProxyAssumption ==
  /\ Entry \subseteq Addr \X Nat /\ FailLimit \in Nat \ {0}
  /\ Undialable \subseteq Addr
  /\ Handlers \cap Requests = {} /\ Tick \notin Handlers \cup Requests
  /\ Nobody \notin Proc /\ NoEntry \notin Entry /\ NoAddr \notin Addr

VARIABLES
  pc,       \* where a process is
  mu,       \* the owner of p.mu between two actions
  array,    \* the array behind p.entries; a removal shifts it in place
  size,     \* the length of p.entries
  added,    \* entries that were ever created
  alive, mode, fails, cooling,     \* the fields of the entries
  current,  \* p.current
  viewers,  \* handlers that stream the progress of their checks to a client
  todo,     \* entries a check loop has yet to check
  at,       \* the entry CheckProxy works on
  text,     \* what save has marshalled
  file,     \* proxy_pool.json: the entries in it
  overlaid, \* writers that have opened the file before the last write to it
  probed    \* entries a check was sent out for since they were added

entryVars == <<alive, mode, fails, cooling>>
listVars == <<array, size, added>>
fileVars == <<file, overlaid>>
workVars == <<viewers, todo, at>>
vars == <<pc, mu, listVars, entryVars, current, workVars, text, fileVars, probed>>

\* p.entries
Entries == SubSeq(array, 1, size)

Listed == {Entries[i] : i \in 1..size}

Goto(p, place) == pc' = [pc EXCEPT ![p] = place]

\* load: the first exit that worked when the file was written.
Loaded(list) ==
  LET Good == {i \in DOMAIN list : mode[list[i]] = "full" /\ alive[list[i]]}
  IN  IF Good = {} THEN NoAddr
      ELSE list[CHOOSE i \in Good : \A j \in Good : i <= j][1]

\* The file holds at most one exit, checked in an earlier life of the program.
Init ==
  /\ pc = [p \in Proc |-> "idle"]
  /\ mu = Nobody
  /\ array \in {<<>>} \cup {<<e>> : e \in {o \in Entry : o[2] = 0}}
  /\ size = Len(array)
  /\ added = Listed
  /\ alive \in [Entry -> BOOLEAN]
  /\ mode \in [Entry -> {"unknown", "limited", "full"}]
  /\ \A e \in Entry :
       /\ alive[e] => e \in added /\ e[1] \notin Undialable
       /\ mode[e] # "unknown" => alive[e]
  /\ fails = [e \in Entry |-> 0]
  /\ cooling = [e \in Entry |-> FALSE]
  /\ current = Loaded(array)
  /\ viewers = {}
  /\ todo = [p \in Checkers |-> <<>>]
  /\ at = [p \in Checkers |-> NoEntry]
  /\ text = [p \in Checkers |-> <<>>]
  /\ file = array
  /\ overlaid = {}
  /\ probed = added
-----------------------------------------------------------------------------
(* SelectBest, before every call of the upstream.                          *)

Arrive(q) ==
  /\ pc[q] = "idle"
  /\ Goto(q, "select")
  /\ UNCHANGED <<mu, listVars, entryVars, current, workVars, text, fileVars, probed>>

\* Exits of a mode that SelectBest does not pass over.
Offered(m) == {e \in Listed : alive[e] /\ ~cooling[e] /\ mode[e] = m}

\* (Variant: a request waits until there is an exit.)
SelectBestInsists(q) ==
  /\ pc[q] = "select"
  /\ mu = Nobody
  /\ \E e \in Offered("full") \cup Offered("limited") : current' = e[1]
  /\ Goto(q, "idle")
  /\ UNCHANGED <<mu, listVars, entryVars, workVars, text, fileVars, probed>>

\* A full exit before a limited one; without either p.current stays.  (Which one
\* of several has the lowest latency is anybody's guess.)
SelectBest(q) ==
  /\ pc[q] = "select"
  /\ mu = Nobody
  /\ LET best == IF Offered("full") # {} THEN Offered("full") ELSE Offered("limited")
     IN  IF best = {} THEN UNCHANGED current ELSE \E e \in best : current' = e[1]
  /\ Goto(q, "idle")
  /\ UNCHANGED <<mu, listVars, entryVars, workVars, text, fileVars, probed>>
-----------------------------------------------------------------------------
(* Adding and removing, with the save under p.mu.                          *)

\* save inside the lock: the marshalled list cannot change before it is written.
SaveLocked(h, list) ==
  /\ mu' = h
  /\ text' = [text EXCEPT ![h] = list]
  /\ Goto(h, "open")

\* AddBatch skips an address it has.  append reuses the slot a removal left.
AddBatch(h, e) ==
  /\ pc[h] = "idle"
  /\ mu = Nobody
  /\ IF \E o \in Listed : o[1] = e[1]
     THEN UNCHANGED listVars
     ELSE /\ e \notin added
          /\ \A o \in Entry : o[1] = e[1] /\ o[2] < e[2] => o \in added
          /\ array' = IF size < Len(array) THEN [array EXCEPT ![size + 1] = e]
                                           ELSE Append(array, e)
          /\ size' = size + 1
          /\ added' = added \cup {e}
  /\ SaveLocked(h, SubSeq(array', 1, size'))
  /\ UNCHANGED <<entryVars, current, workVars, fileVars, probed>>

Remove(h, i) ==
  /\ pc[h] = "idle"
  /\ mu = Nobody
  /\ i \in 1..size
  /\ array' = [k \in 1..Len(array) |->
                 IF k \in i..(size - 1) THEN array[k + 1] ELSE array[k]]
  /\ size' = size - 1
  /\ SaveLocked(h, SubSeq(array', 1, size'))
  /\ UNCHANGED <<added, entryVars, current, workVars, fileVars, probed>>
-----------------------------------------------------------------------------
(* Checks: one entry, all entries for an administrator, all by the ticker. *)

BeginSave(h) ==
  /\ pc[h] = "idle"
  /\ Goto(h, "marshal")
  /\ UNCHANGED <<mu, listVars, entryVars, current, workVars, text, fileVars, probed>>

\* (Variant: an address that Find does not know is checked all the same.)
BeginCheckUnfound(h) ==
  /\ pc[h] = "idle"
  /\ mu = Nobody
  /\ \E e \in Listed \cup {NoEntry} : todo' = [todo EXCEPT ![h] = <<e>>]
  /\ Goto(h, "next")
  /\ UNCHANGED <<mu, listVars, entryVars, current, viewers, at, text, fileVars, probed>>

\* handleProxyPool, action "check": Find, then CheckProxy, then save.
BeginCheck(h) ==
  /\ pc[h] = "idle"
  /\ mu = Nobody
  /\ \E e \in Listed : todo' = [todo EXCEPT ![h] = <<e>>]
  /\ Goto(h, "next")
  /\ UNCHANGED <<mu, listVars, entryVars, current, viewers, at, text, fileVars, probed>>

\* Entries() for handleProxyRefresh and checkAll.
BeginAll(p) ==
  /\ pc[p] = "idle"
  /\ mu = Nobody
  /\ todo' = [todo EXCEPT ![p] = Entries]
  /\ viewers' = viewers \cup ({p} \ {Tick})
  /\ Goto(p, "next")
  /\ UNCHANGED <<mu, listVars, entryVars, current, at, text, fileVars, probed>>

\* CheckProxy asks for a page through the exit, without the lock.
Probe(p) ==
  /\ pc[p] = "next"
  /\ todo[p] # <<>>
  /\ at' = [at EXCEPT ![p] = Head(todo[p])]
  /\ todo' = [todo EXCEPT ![p] = Tail(todo[p])]
  /\ probed' = probed \cup {Head(todo[p])}
  /\ Goto(p, "lock")
  /\ UNCHANGED <<mu, listVars, entryVars, current, viewers, text, fileVars>>

\* (Variant: the entry is looked up by its address again.)
TargetByAddress(p) ==
  IF \E e \in Listed : e[1] = at[p][1]
  THEN CHOOSE e \in Listed : e[1] = at[p][1] ELSE at[p]

\* The entry CheckProxy writes to is the one it was given, listed or not.
Target(p) == at[p]

\* (Variant: CheckProxy leaves saving to its callers.)
AfterCheckNext(p) == "next"

\* CheckProxy ends with a save of its own.
AfterCheck(p) == "marshal"

\* The page did not come.
ProbeFailed(p) ==
  LET e == Target(p)
      n == fails[e] + 1
  IN  /\ pc[p] = "lock"
      /\ mu = Nobody
      /\ alive' = [alive EXCEPT ![e] = FALSE]
      /\ mode' = [mode EXCEPT ![e] = "unknown"]
      /\ fails' = [fails EXCEPT ![e] = IF n > FailLimit THEN FailLimit ELSE n]
      /\ cooling' = [cooling EXCEPT ![e] = @ \/ n >= FailLimit]
      /\ Goto(p, AfterCheck(p))
      /\ UNCHANGED <<mu, listVars, current, workVars, text, fileVars, probed>>

\* The page came, also if it came directly because the exit cannot be dialled.
\* p.mu is kept for the next call.
ProbeOk(p) ==
  LET e == Target(p)
  IN  /\ pc[p] = "lock"
      /\ mu = Nobody
      /\ mu' = p
      /\ alive' = [alive EXCEPT ![e] = TRUE]
      /\ fails' = [fails EXCEPT ![e] = 0]
      /\ Goto(p, "detect")
      /\ UNCHANGED <<listVars, mode, cooling, current, workVars, text, fileVars, probed>>

\* (Variant: an error of detectMode makes CheckProxy return with the lock.)
DetectModeKeepsLock(p) ==
  /\ pc[p] = "detect"
  /\ \/ \E m \in {"limited", "full"} :
          mode' = [mode EXCEPT ![Target(p)] = m] /\ mu' = Nobody
     \/ mode' = [mode EXCEPT ![Target(p)] = "unknown"] /\ mu' = mu
  /\ Goto(p, AfterCheck(p))
  /\ UNCHANGED <<listVars, alive, fails, cooling, current, workVars, text, fileVars, probed>>

\* detectMode, a call of the upstream under p.mu.
DetectMode(p) ==
  /\ pc[p] = "detect"
  /\ \E m \in {"unknown", "limited", "full"} : mode' = [mode EXCEPT ![Target(p)] = m]
  /\ mu' = Nobody
  /\ Goto(p, AfterCheck(p))
  /\ UNCHANGED <<listVars, alive, fails, cooling, current, workVars, text, fileVars, probed>>

\* The loop is over (or the administrator has gone).  checkAll saves again if a
\* mode or a detail has changed, the handlers always do.
LoopEnds(p) ==
  /\ pc[p] = "next"
  /\ \/ todo[p] = <<>> /\ (p = Tick => at[p] # NoEntry) /\ Goto(p, "marshal")
     \/ todo[p] = <<>> /\ p = Tick /\ Goto(p, "idle")
     \/ p \in viewers /\ at[p] # NoEntry /\ Goto(p, "idle")
  /\ viewers' = viewers \ {p}
  /\ at' = [at EXCEPT ![p] = NoEntry]
  /\ todo' = [todo EXCEPT ![p] = <<>>]
  /\ UNCHANGED <<mu, listVars, entryVars, current, text, fileVars, probed>>
-----------------------------------------------------------------------------
(* save, with or without p.mu.                                             *)

\* Marshalling without the lock begins with the length and the array of now.
Marshal(p) ==
  /\ pc[p] = "marshal"
  /\ text' = [text EXCEPT ![p] = Entries]
  /\ Goto(p, "open")
  /\ UNCHANGED <<mu, listVars, entryVars, current, workVars, fileVars, probed>>

\* It reads each element before or after the removals that go on meanwhile.
\* Then os.WriteFile empties the file.
OpenFile(p) ==
  /\ pc[p] = "open"
  /\ \E late \in SUBSET {k \in DOMAIN text[p] : array[k] # text[p][k]} :
       text' = [text EXCEPT ![p] = [k \in DOMAIN @ |-> IF k \in late THEN array[k] ELSE @[k]]]
  /\ file' = <<>>
  /\ overlaid' = {}
  /\ Goto(p, "write")
  /\ UNCHANGED <<mu, listVars, entryVars, current, workVars, probed>>

\* Where a save leaves off: CheckProxy's goes on with the loop.
AfterSave(p) == IF at[p] # NoEntry THEN "next" ELSE "idle"

\* It writes from the start: what is longer shows behind what is written over it.
WriteFile(p) ==
  /\ pc[p] = "write"
  /\ \/ file' = text[p]
     \/ p \in overlaid /\ file # text[p] /\ file' = Garbled
  /\ overlaid' = {o \in Checkers \ {p} : pc[o] = "write"}
  /\ mu' = IF mu = p THEN Nobody ELSE mu
  /\ text' = [text EXCEPT ![p] = <<>>]
  /\ Goto(p, AfterSave(p))
  /\ UNCHANGED <<listVars, entryVars, current, workVars, probed>>
-----------------------------------------------------------------------------
CooldownEnds(e) ==
  /\ cooling[e]
  /\ cooling' = [cooling EXCEPT ![e] = FALSE]
  /\ UNCHANGED <<pc, mu, listVars, alive, mode, fails, current, workVars, text, fileVars, probed>>

Edit(h) ==
  \/ \E e \in Entry : AddBatch(h, e)
  \/ \E i \in 1..size : Remove(h, i)
  \/ BeginSave(h) \/ BeginCheck(h)

Work(p) ==
  \/ Probe(p) \/ ProbeFailed(p) \/ ProbeOk(p) \/ DetectMode(p) \/ LoopEnds(p)
  \/ Marshal(p) \/ OpenFile(p) \/ WriteFile(p)

Next ==
  \/ \E q \in Requests : Arrive(q) \/ SelectBest(q)
  \/ \E h \in Handlers : Edit(h)
  \/ \E p \in Checkers : BeginAll(p) \/ Work(p)
  \/ \E e \in Entry : CooldownEnds(e)

Spec == Init /\ [][Next]_vars
-----------------------------------------------------------------------------
(* Safety.                                                                 *)

\* The types of the variables.
TypeOK ==
  /\ pc \in [Proc -> {"idle", "select", "next", "lock", "detect", "marshal",
                       "open", "write"}]
  /\ mu \in Checkers \cup {Nobody}
  /\ array \in Seq(added)
  /\ size \in 0..Len(array)
  /\ added \subseteq Entry
  /\ alive \in [Entry -> BOOLEAN]
  /\ mode \in [Entry -> {"unknown", "limited", "full"}]
  /\ fails \in [Entry -> 0..FailLimit]
  /\ cooling \in [Entry -> BOOLEAN]
  /\ current \in Addr \cup {NoAddr}
  /\ viewers \subseteq Handlers
  /\ todo \in [Checkers -> Seq(added)]
  /\ at \in [Checkers -> added \cup {NoEntry}]
  /\ text \in [Checkers -> Seq(added)]
  /\ file \in Seq(added) \cup {Garbled}
  /\ overlaid \subseteq Checkers
  /\ probed \subseteq added

\* An exit that requests may be sent through was checked since it was added: the
\* result of a check that was under way when its address was removed and added
\* again is not taken for the new entry's.
AliveWasChecked == \A e \in Entry : alive[e] => e \in probed

\* Whoever owns p.mu between two actions is in a call or a write that ends; else
\* every request would wait for ever.
OwnerIsAtWork ==
  \A p \in Checkers : mu = p => pc[p] \in {"detect", "open", "write"}

\* What a comment of the code says, and the code does not do.

\* proxy_pool.go:149: an exit whose transport cannot be built is checked
\* directly, but marked as not usable.
UndialableIsMarked ==
  \A e \in Listed : e[1] \in Undialable => ~(alive[e] /\ mode[e] # "unknown")
-----------------------------------------------------------------------------
(* Liveness.  Goroutines are scheduled, mutexes hand themselves to starving *)
(* waiters, calls of the upstream end by their timeout, the ticker ticks.  *)

Fairness ==
  /\ \A q \in Requests : SF_vars(SelectBest(q))
  /\ \A p \in Checkers : WF_vars(Work(p)) /\ SF_vars(ProbeFailed(p) \/ ProbeOk(p))
  /\ SF_vars(BeginAll(Tick))

LiveSpec == Spec /\ Fairness

\* A request gets its exit, although a check keeps p.mu during a call of the
\* upstream and an edit during a write.
SelectReturns == \A q \in Requests : pc[q] = "select" ~> pc[q] = "idle"

\* A save without the lock may put a removed exit back into the file, leave a new
\* one out, or spoil the file.  Whatever it did, the self-check repairs it as long
\* as there is an exit to check.
FileCatchesUp == []<>(file = Entries \/ size = 0)
=============================================================================
