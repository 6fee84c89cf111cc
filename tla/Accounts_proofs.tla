--------------------------- MODULE Accounts_proofs --------------------------
(* Proofs about Accounts for any accounts, keys, handlers and faults.       *)
(*                                                                         *)
(* Nothing in the code keeps two handlers apart, and two that overlap do   *)
(* lose each other's changes (run accounts_two_admins).  What the handlers *)
(* promise is therefore proved of the behaviours in which they follow each *)
(* other; crashes, restarts and disk errors are still free to happen.      *)
EXTENDS Accounts, TLAPS

\* No handler starts while another is at work.
Serial == \A a, b \in Admins : pc[a] # "idle" /\ pc[b] # "idle" => a = b

\* Whether config.json can be read, and that a handler at work has a job.
FileOf(a) ==
  /\ pc[a] = "truncate" => form = "good"
  /\ pc[a] = "write" => form = "empty"
  /\ pc[a] # "idle" => up /\ job[a] \in Jobs
  /\ pc[a] = "idle" => job[a] = NoJob

FileInv == form # "mixed" /\ \A a \in Admins : FileOf(a)

\* What a handler the disk obeyed has brought into line at each of its steps.
AgreeOf(a) ==
  /\ pc[a] \in {"read", "reload", "answer"} => form = "good"
  /\ pc[a] \in {"read", "truncate", "write", "answer"} => pools = content.tokens
  /\ OnToken(a) \/ pc[a] = "answer" => keys = content.keys
  /\ pc[a] \in {"truncate", "write"} => snap[a] = Changed(a)
  /\ pc[a] = "reload" =>
       content.tokens = IF job[a].do = "import" THEN pools \cup {job[a].arg}
                        ELSE pools \ {job[a].arg}
  /\ pc[a] = "answer" /\ OnToken(a) =>
       (job[a].arg \in pools <=> job[a].do = "import")
  /\ pc[a] # "fail"

AgreeInv ==
  /\ FileAndMemoryAgree
  /\ ~diskFailed /\ up => \A a \in Admins : AgreeOf(a)

\* Nothing has been answered about an account that is at work.
OpenOf(a) == OnToken(a) => promised[job[a].arg] = "open"

\* What was answered is recorded.
Recorded ==
  ~diskFailed => \A t \in Tokens :
    /\ promised[t] = "in" => t \in content.tokens
    /\ promised[t] = "out" => t \notin content.tokens

PromiseInv == Recorded /\ \A a \in Admins : OpenOf(a)

\* The accounts that a deletion takes away when it reaches the run manager.
Leaving(a) == IF job[a].do = "delete" THEN {job[a].arg} ELSE {}

\* No account is served that is not recorded, or about to go.
ServedOf(a) ==
  /\ pc[a] \in {"read", "truncate", "answer", "fail"} /\ form = "good" =>
       pools \subseteq content.tokens
  /\ pc[a] \in {"truncate", "write"} =>
       /\ pools \subseteq snap[a].tokens \cup Leaving(a)
       /\ job[a].do = "import" => job[a].arg \in snap[a].tokens
  /\ pc[a] = "reload" /\ form = "good" =>
       /\ pools \subseteq content.tokens \cup Leaving(a)
       /\ job[a].do = "import" => job[a].arg \in content.tokens

ServedInv ==
  /\ ServedIsRecorded
  /\ up => \A a \in Admins : ServedOf(a)

\* The inductive invariant of handlers that follow each other.
SerialInv == TypeOK /\ FileInv /\ AgreeInv /\ PromiseInv /\ ServedInv
-----------------------------------------------------------------------------
(* Type correctness, of handlers that overlap as well.                     *)

\* What config.json becomes is what config.json may hold.
LEMMA ChangedType ==
  ASSUME TypeOK, NEW a \in Admins, job[a] \in Jobs
  PROVE  /\ Changed(a) \in Content
         /\ WithoutFile(a) \in {"fail", "reload", "answer"}
         /\ WithoutFile(a) = "reload" => OnToken(a)
         /\ WithoutFile(a) = "fail" => job[a].do = "import"
<1>1. CASE job[a].do = "import"
  BY <1>1 DEF TypeOK, Jobs, Content, Changed, WithoutFile, OnToken
<1>2. CASE job[a].do = "delete"
  BY <1>2 DEF TypeOK, Jobs, Content, Changed, WithoutFile, OnToken
<1>3. CASE job[a].do \notin {"import", "delete"}
  BY <1>3 DEF TypeOK, Jobs, Content, Changed, WithoutFile, OnToken
<1> QED
  BY <1>1, <1>2, <1>3

\* A handler at work has a job: needed for the types, kept by every step.
JobInv == \A a \in Admins : pc[a] # "idle" => job[a] \in Jobs

LEMMA TypeInit == Init => TypeOK /\ JobInv
<1> SUFFICES ASSUME Init PROVE TypeOK /\ JobInv
  OBVIOUS
<1>1. \A a \in Admins : pc[a] = "idle"
  BY DEF Init
<1>2. content \in Content /\ snap \in [Admins -> Content] /\ pools \subseteq Tokens
  BY AccountsAssumption DEF Init, Content, NoContent
<1>3. faults \in 0..Faults
  BY AccountsAssumption DEF Init
<1>4. /\ job \in [Admins -> Jobs \cup {NoJob}]
      /\ promised \in [Tokens -> {"in", "out", "open"}]
  BY DEF Init
<1>5. keys \subseteq Keys
  BY AccountsAssumption DEF Init
<1> QED
  BY <1>1, <1>2, <1>3, <1>4, <1>5 DEF Init, TypeOK, JobInv

LEMMA TypeStep ==
  ASSUME TypeOK, JobInv, [Next]_vars
  PROVE  TypeOK' /\ JobInv'
<1> USE DEF TypeOK, JobInv, Goto
<1>1. ASSUME NEW a \in Admins, NEW j \in Jobs, BeginToken(a, j)
      PROVE  TypeOK' /\ JobInv'
  <2>1. j.arg \in Tokens
    BY <1>1 DEF BeginToken, Jobs
  <2> QED
    BY <1>1, <2>1 DEF BeginToken, OnToken, fileVars, memory
<1>2. ASSUME NEW a \in Admins, NEW j \in Jobs, BeginKey(a, j)
      PROVE  TypeOK' /\ JobInv'
  <2>1. j.arg \in Keys
    BY <1>2 DEF BeginKey, Jobs
  <2> QED
    BY <1>2, <2>1 DEF BeginKey, OnToken, fileVars, history
<1>3. ASSUME NEW a \in Admins, Answer(a)
      PROVE  TypeOK' /\ JobInv'
  BY <1>3 DEF Answer, Leave, OnToken, fileVars, memory, Content, NoContent
<1>4. ASSUME NEW a \in Admins, Fail(a)
      PROVE  TypeOK' /\ JobInv'
  BY <1>4 DEF Fail, Leave, OnToken, fileVars, memory, history, Content, NoContent
<1>5. ASSUME NEW a \in Admins, ReadConfig(a)
      PROVE  TypeOK' /\ JobInv'
  BY <1>5, ChangedType DEF ReadConfig, OnToken, fileVars, memory, history
<1>6. ASSUME NEW a \in Admins, Truncate(a)
      PROVE  TypeOK' /\ JobInv'
  BY <1>6 DEF Truncate, OnToken, memory, locals, history
<1>7. ASSUME NEW a \in Admins, WriteConfig(a)
      PROVE  TypeOK' /\ JobInv'
  BY <1>7 DEF WriteConfig, AfterWrite, OnToken, memory, locals, history
<1>8. ASSUME NEW a \in Admins, DiskFails(a)
      PROVE  TypeOK' /\ JobInv'
  BY <1>8, ChangedType, AccountsAssumption
     DEF DiskFails, OnToken, fileVars, memory, locals
<1>9. ASSUME NEW a \in Admins, Reload(a)
      PROVE  TypeOK' /\ JobInv'
  <2>1. job[a].arg \in Tokens
    BY <1>9 DEF Reload, Jobs, OnToken
  <2> QED
    BY <1>9, <2>1 DEF Reload, OnToken, fileVars, locals, history
<1>10. CASE Crash
  <2>1. \A a \in Admins : pc'[a] = "idle"
    BY <1>10 DEF Crash
  <2>2. snap' \in [Admins -> Content] /\ job' \in [Admins -> Jobs \cup {NoJob}]
    BY <1>10 DEF Crash, Content, NoContent
  <2>3. faults' \in 0..Faults
    BY <1>10, AccountsAssumption DEF Crash
  <2> QED
    BY <1>10, <2>1, <2>2, <2>3 DEF Crash, fileVars
<1>11. CASE Restart
  BY <1>11 DEF Restart, fileVars, locals, history, Content, OnToken
<1>12. CASE UNCHANGED vars
  BY <1>12 DEF vars, fileVars, memory, locals, history, OnToken
<1> QED
  BY <1>1, <1>2, <1>3, <1>4, <1>5, <1>6, <1>7, <1>8, <1>9, <1>10, <1>11, <1>12
     DEF Next

\* Whatever overlaps, crashes or fails, the variables keep their types, only
\* handlers of accounts reach the run manager and only an import reports an error.
THEOREM AccountTypes == Spec => []TypeOK
<1>1. TypeOK /\ JobInv /\ [Next]_vars => TypeOK' /\ JobInv'
  BY TypeStep
<1> QED
  BY TypeInit, <1>1, PTL DEF Spec
-----------------------------------------------------------------------------
(* Handlers that follow each other.                                        *)

\* An idle handler takes part in nothing.
LEMMA Idle ==
  ASSUME NEW b \in Admins, pc'[b] = "idle", job'[b] = NoJob
  PROVE  FileOf(b)' /\ AgreeOf(b)' /\ OpenOf(b)' /\ ServedOf(b)'
  BY DEF FileOf, AgreeOf, OpenOf, ServedOf, OnToken, NoJob

\* So a step of one handler is judged by what holds of that handler after it.
LEMMA OneHandler ==
  ASSUME NEW a \in Admins,
         \A b \in Admins \ {a} : pc'[b] = "idle" /\ job'[b] = NoJob,
         form' # "mixed", FileOf(a)', OpenOf(a)', Recorded',
         ~diskFailed' /\ up' => AgreeOf(a)',
         up' => ServedOf(a)',
         pc'[a] = "idle" => FileAndMemoryAgree' /\ ServedIsRecorded'
  PROVE  FileInv' /\ AgreeInv' /\ PromiseInv' /\ ServedInv'
<1>1. \A b \in Admins \ {a} : FileOf(b)' /\ AgreeOf(b)' /\ OpenOf(b)' /\ ServedOf(b)'
  BY Idle
<1>2. FileAndMemoryAgree' /\ ServedIsRecorded'
  BY DEF FileAndMemoryAgree, ServedIsRecorded, AtRest
<1> QED
  BY <1>1, <1>2 DEF FileInv, AgreeInv, PromiseInv, ServedInv

\* A handler at work is alone, before and after its step.
LEMMA Alone ==
  ASSUME FileInv, Serial, Serial', NEW a \in Admins,
         pc[a] # "idle" \/ pc'[a] # "idle",
         \A b \in Admins \ {a} : pc'[b] = pc[b] /\ job'[b] = job[b]
  PROVE  \A b \in Admins \ {a} : pc'[b] = "idle" /\ job'[b] = NoJob
<1>1. \A b \in Admins \ {a} : pc[b] = "idle"
  BY DEF Serial
<1> QED
  BY <1>1 DEF FileInv, FileOf

LEMMA SerialInit == Init => SerialInv
<1> SUFFICES ASSUME Init PROVE SerialInv
  OBVIOUS
<1>1. \A a \in Admins : pc[a] = "idle" /\ job[a] = NoJob
  BY DEF Init
<1>2. ASSUME NEW a \in Admins
      PROVE  FileOf(a) /\ AgreeOf(a) /\ OpenOf(a) /\ ServedOf(a)
  <2>1. pc[a] = "idle" /\ job[a] = NoJob /\ ~OnToken(a)
    BY <1>1 DEF OnToken, NoJob
  <2> QED
    BY <2>1 DEF FileOf, AgreeOf, OpenOf, ServedOf
<1>3. Recorded /\ FileAndMemoryAgree /\ ServedIsRecorded /\ form # "mixed"
  BY DEF Init, Recorded, FileAndMemoryAgree, ServedIsRecorded
<1> QED
  BY <1>2, <1>3, TypeInit DEF SerialInv, FileInv, AgreeInv, PromiseInv, ServedInv

LEMMA SerialStep ==
  ASSUME SerialInv, Serial, Serial', [Next]_vars
  PROVE  FileInv' /\ AgreeInv' /\ PromiseInv' /\ ServedInv'
<1> DEFINE Good == FileInv' /\ AgreeInv' /\ PromiseInv' /\ ServedInv'
\* Before: what holds of a handler, and, when all are idle, of the whole.
<1>1. ASSUME NEW a \in Admins
      PROVE  /\ FileOf(a) /\ OpenOf(a) /\ Recorded
             /\ ~diskFailed /\ up => AgreeOf(a)
             /\ up => ServedOf(a)
  BY <1>1 DEF SerialInv, FileInv, AgreeInv, PromiseInv, ServedInv
<1>2. TypeOK /\ FileInv /\ FileAndMemoryAgree /\ ServedIsRecorded /\ form # "mixed"
  BY DEF SerialInv, FileInv, AgreeInv, ServedInv
<1> HIDE DEF Good
<1>3. ASSUME NEW a \in Admins, NEW j \in Jobs, BeginToken(a, j)
      PROVE  Good
  <2>1. \A b \in Admins \ {a} : pc'[b] = "idle" /\ job'[b] = NoJob
    <3>1. pc'[a] # "idle" /\ \A b \in Admins \ {a} : pc'[b] = pc[b] /\ job'[b] = job[b]
      BY <1>2, <1>3 DEF TypeOK, BeginToken, Goto
    <3> QED
      BY <1>2, <3>1, Alone
  <2>2. AtRest
    BY <1>2, <1>3, <2>1 DEF BeginToken, AtRest, TypeOK, Goto
  <2>3. /\ pc'[a] = "read" /\ job'[a] = j
        /\ promised' = [promised EXCEPT ![j.arg] = "open"]
        /\ UNCHANGED <<form, content, pools, keys, up, diskFailed>>
        /\ up /\ j.do \in {"import", "delete"} /\ j.arg \in Tokens
    BY <1>2, <1>3 DEF BeginToken, Goto, TypeOK, Jobs, fileVars, memory
  <2>4. FileOf(a)' /\ OpenOf(a)' /\ Recorded'
    BY <1>1, <1>2, <2>3 DEF FileOf, OpenOf, Recorded, TypeOK
  <2>5. /\ ~diskFailed' /\ up' => AgreeOf(a)'
        /\ up' => ServedOf(a)'
    BY <1>2, <2>2, <2>3 DEF AgreeOf, ServedOf, FileAndMemoryAgree, ServedIsRecorded
  <2> QED
    BY <1>2, <2>1, <2>3, <2>4, <2>5, OneHandler DEF Good
<1>4. ASSUME NEW a \in Admins, NEW j \in Jobs, BeginKey(a, j)
      PROVE  Good
  <2>1. \A b \in Admins \ {a} : pc'[b] = "idle" /\ job'[b] = NoJob
    <3>1. pc'[a] # "idle" /\ \A b \in Admins \ {a} : pc'[b] = pc[b] /\ job'[b] = job[b]
      BY <1>2, <1>4 DEF TypeOK, BeginKey, Goto
    <3> QED
      BY <1>2, <3>1, Alone
  <2>2. AtRest
    BY <1>2, <1>4, <2>1 DEF BeginKey, AtRest, TypeOK, Goto
  <2>3. /\ job'[a] = j
        /\ UNCHANGED <<form, content, pools, up, diskFailed, promised>>
        /\ up /\ j.do \in {"addKey", "deleteKey", "password"} /\ j \in Jobs
    BY <1>2, <1>4 DEF BeginKey, TypeOK, fileVars, history
  <2>4. \/ pc'[a] = "read"
        \/ pc'[a] = "answer" /\ keys' = keys
    BY <1>2, <1>4 DEF BeginKey, Goto, TypeOK
  <2>5. FileOf(a)' /\ OpenOf(a)' /\ Recorded'
    BY <1>1, <2>3, <2>4 DEF FileOf, OpenOf, OnToken, Recorded
  <2>6. /\ ~diskFailed' /\ up' => AgreeOf(a)'
        /\ up' => ServedOf(a)'
    BY <1>2, <2>2, <2>3, <2>4
       DEF AgreeOf, ServedOf, OnToken, FileAndMemoryAgree, ServedIsRecorded
  <2> QED
    BY <1>2, <2>1, <2>3, <2>4, <2>5, <2>6, OneHandler DEF Good
<1>5. ASSUME NEW a \in Admins, Answer(a)
      PROVE  Good
  <2>1. /\ pc[a] = "answer" /\ pc'[a] = "idle" /\ job'[a] = NoJob
        /\ \A b \in Admins \ {a} : pc'[b] = pc[b] /\ job'[b] = job[b]
        /\ UNCHANGED <<form, content, pools, keys, up, diskFailed>>
    BY <1>2, <1>5 DEF TypeOK, Answer, Leave, Goto, fileVars, memory
  <2>2. \A b \in Admins \ {a} : pc'[b] = "idle" /\ job'[b] = NoJob
    BY <1>2, <2>1, Alone
  <2>3. FileOf(a)' /\ AgreeOf(a)' /\ OpenOf(a)' /\ ServedOf(a)'
    BY <2>1, Idle
  <2>4. FileAndMemoryAgree' /\ ServedIsRecorded'
    BY <1>1, <2>1 DEF FileAndMemoryAgree, ServedIsRecorded, AtRest, FileOf, AgreeOf, ServedOf
  <2>5. Recorded'
    <3>1. CASE ~OnToken(a)
      BY <1>1, <1>5, <2>1, <3>1 DEF Answer, Recorded
    <3>2. CASE OnToken(a)
      <4>1. \A t \in Tokens : promised'[t] =
              IF t = job[a].arg THEN IF job[a].do = "import" THEN "in" ELSE "out"
              ELSE promised[t]
        BY <1>2, <1>5, <3>2 DEF Answer, TypeOK
      <4>2. ~diskFailed =>
              /\ job[a].arg \in content.tokens <=> job[a].do = "import"
        BY <1>1, <2>1, <3>2 DEF FileOf, AgreeOf
      <4> QED
        BY <1>1, <2>1, <3>2, <4>1, <4>2 DEF Recorded
    <3> QED
      BY <3>1, <3>2
  <2> QED
    BY <1>2, <2>1, <2>2, <2>3, <2>4, <2>5, OneHandler DEF Good
<1>6. ASSUME NEW a \in Admins, Fail(a)
      PROVE  Good
  <2>1. /\ pc[a] = "fail" /\ pc'[a] = "idle" /\ job'[a] = NoJob
        /\ \A b \in Admins \ {a} : pc'[b] = pc[b] /\ job'[b] = job[b]
        /\ UNCHANGED <<form, content, pools, keys, up, diskFailed, promised>>
    BY <1>2, <1>6 DEF TypeOK, Fail, Leave, Goto, fileVars, memory, history
  <2>2. \A b \in Admins \ {a} : pc'[b] = "idle" /\ job'[b] = NoJob
    BY <1>2, <2>1, Alone
  <2>3. FileOf(a)' /\ AgreeOf(a)' /\ OpenOf(a)' /\ ServedOf(a)'
    BY <2>1, Idle
  <2>4. FileAndMemoryAgree' /\ ServedIsRecorded'
    BY <1>1, <2>1 DEF FileAndMemoryAgree, ServedIsRecorded, AtRest, FileOf, AgreeOf, ServedOf
  <2>5. Recorded'
    BY <1>1, <2>1 DEF Recorded
  <2> QED
    BY <1>2, <2>1, <2>2, <2>3, <2>4, <2>5, OneHandler DEF Good
\* The steps of a handler that stays at work.
<1>7. ASSUME NEW a \in Admins, pc[a] # "idle", job' = job,
             \A b \in Admins \ {a} : pc'[b] = pc[b]
      PROVE  /\ \A b \in Admins \ {a} : pc'[b] = "idle" /\ job'[b] = NoJob
             /\ job[a] \in Jobs /\ up
             /\ OnToken(a)' <=> OnToken(a)
             /\ Leaving(a)' = Leaving(a)
  BY <1>1, <1>2, <1>7, Alone DEF FileOf, OnToken, Leaving
<1>8. ASSUME NEW a \in Admins, ReadConfig(a)
      PROVE  Good
  <2>1. /\ pc[a] = "read"
        /\ \A b \in Admins \ {a} : pc'[b] = pc[b] /\ snap'[b] = snap[b]
        /\ UNCHANGED <<form, content, pools, keys, up, diskFailed, promised, job>>
    BY <1>2, <1>8 DEF TypeOK, ReadConfig, Goto, fileVars, memory, history
  <2>2. /\ \A b \in Admins \ {a} : pc'[b] = "idle" /\ job'[b] = NoJob
        /\ job[a] \in Jobs /\ up
        /\ OnToken(a)' <=> OnToken(a)
        /\ Leaving(a)' = Leaving(a)
    BY <1>7, <2>1
  <2>3. Recorded' /\ OpenOf(a)'
    BY <1>1, <2>1, <2>2 DEF Recorded, OpenOf
  <2>4. CASE form = "good"
    <3>1. /\ snap'[a] = Changed(a) /\ Changed(a)' = Changed(a)
          /\ \/ pc'[a] = "truncate"
             \/ pc'[a] = "answer" /\ job[a].do = "import" /\ job[a].arg \in content.tokens
      BY <1>2, <1>8, <2>1, <2>4 DEF ReadConfig, Goto, TypeOK, Changed
    <3>2. pools \subseteq content.tokens
      BY <1>1, <2>1, <2>2, <2>4 DEF ServedOf
    <3>3. /\ content.tokens \subseteq Changed(a).tokens \cup Leaving(a)
          /\ job[a].do = "import" => job[a].arg \in Changed(a).tokens
      BY <1>2, <2>2 DEF Changed, Leaving, TypeOK, Content, Jobs
    <3>4. FileOf(a)' /\ ServedOf(a)'
      BY <2>1, <2>2, <2>4, <3>1, <3>2, <3>3 DEF FileOf, ServedOf
    <3>5. ~diskFailed => AgreeOf(a)'
      BY <1>1, <2>1, <2>2, <2>4, <3>1 DEF AgreeOf, OnToken
    <3> QED
      BY <1>2, <2>1, <2>2, <2>3, <3>1, <3>4, <3>5, OneHandler DEF Good
  <2>5. CASE form # "good"
    <3>1. diskFailed /\ pc'[a] = WithoutFile(a)
      BY <1>1, <1>2, <1>8, <2>1, <2>2, <2>5 DEF AgreeOf, ReadConfig, Goto, TypeOK
    <3>2. pc'[a] \in {"fail", "reload", "answer"}
      BY <1>2, <2>2, <3>1, ChangedType
    <3>3. FileOf(a)' /\ ServedOf(a)'
      BY <2>1, <2>2, <2>5, <3>2 DEF FileOf, ServedOf
    <3> QED
      BY <1>2, <2>1, <2>2, <2>3, <3>1, <3>2, <3>3, OneHandler DEF Good
  <2> QED
    BY <2>4, <2>5
<1>9. ASSUME NEW a \in Admins, Truncate(a)
      PROVE  Good
  <2>1. /\ pc[a] = "truncate" /\ pc'[a] = "write" /\ form' = "empty"
        /\ \A b \in Admins \ {a} : pc'[b] = pc[b]
        /\ UNCHANGED <<content, pools, keys, up, diskFailed, promised, job, snap>>
    BY <1>2, <1>9 DEF TypeOK, Truncate, Goto, memory, locals, history
  <2>2. /\ \A b \in Admins \ {a} : pc'[b] = "idle" /\ job'[b] = NoJob
        /\ job[a] \in Jobs /\ up
        /\ OnToken(a)' <=> OnToken(a)
        /\ Leaving(a)' = Leaving(a)
    BY <1>7, <2>1
  <2>3. Recorded' /\ OpenOf(a)' /\ FileOf(a)'
    BY <1>1, <2>1, <2>2 DEF Recorded, OpenOf, FileOf
  <2>4. ServedOf(a)'
    BY <1>1, <2>1, <2>2 DEF ServedOf
  <2>5. ~diskFailed => AgreeOf(a)'
    <3>1. Changed(a)' = Changed(a)
      BY <2>1 DEF Changed
    <3> QED
      BY <1>1, <2>1, <2>2, <3>1 DEF AgreeOf
  <2> QED
    BY <2>1, <2>2, <2>3, <2>4, <2>5, OneHandler DEF Good
<1>10. ASSUME NEW a \in Admins, WriteConfig(a)
       PROVE  Good
  <2>1. /\ pc[a] = "write" /\ pc'[a] = AfterWrite(a) /\ content' = snap[a]
        /\ \A b \in Admins \ {a} : pc'[b] = pc[b]
        /\ UNCHANGED <<pools, keys, up, diskFailed, promised, job, snap>>
    BY <1>2, <1>10 DEF TypeOK, WriteConfig, Goto, memory, locals, history
  <2>2. form' = "good"
    BY <1>1, <1>10, <2>1 DEF FileOf, WriteConfig
  <2>3. /\ \A b \in Admins \ {a} : pc'[b] = "idle" /\ job'[b] = NoJob
        /\ job[a] \in Jobs /\ up
        /\ OnToken(a)' <=> OnToken(a)
        /\ Leaving(a)' = Leaving(a)
    BY <1>7, <2>1
  <2>4. pc'[a] = IF OnToken(a) THEN "reload" ELSE "answer"
    BY <2>1 DEF AfterWrite
  <2>5. FileOf(a)' /\ OpenOf(a)'
    BY <1>1, <2>1, <2>2, <2>3, <2>4 DEF FileOf, OpenOf
  <2>6. ~diskFailed => snap[a] = Changed(a) /\ pools = content.tokens
    BY <1>1, <2>1, <2>3 DEF AgreeOf
  <2>7. CASE job[a].do \in {"import", "delete"}
    <3>1. OnToken(a) /\ pc'[a] = "reload"
      BY <2>4, <2>7 DEF OnToken
    <3>2. ~diskFailed =>
            /\ content'.tokens = IF job[a].do = "import" THEN content.tokens \cup {job[a].arg}
                                 ELSE content.tokens \ {job[a].arg}
            /\ content'.keys = content.keys
      BY <1>2, <2>1, <2>6, <2>7 DEF Changed, TypeOK, Content
    <3>3. Recorded'
      BY <1>1, <2>1, <3>1, <3>2 DEF Recorded, OpenOf
    <3>4. ~diskFailed => AgreeOf(a)'
      BY <1>1, <2>1, <2>2, <2>3, <2>6, <2>7, <3>1, <3>2 DEF AgreeOf
    <3>5. ServedOf(a)'
      BY <1>1, <2>1, <2>2, <2>3, <3>1 DEF ServedOf
    <3> QED
      BY <2>1, <2>2, <2>3, <2>5, <3>1, <3>3, <3>4, <3>5, OneHandler DEF Good
  <2>8. CASE job[a].do \notin {"import", "delete"}
    <3>1. ~OnToken(a) /\ pc'[a] = "answer" /\ Leaving(a) = {}
      BY <2>4, <2>8 DEF OnToken, Leaving
    <3>2. ~diskFailed => content'.tokens = content.tokens /\ content'.keys = keys
      BY <1>2, <2>1, <2>6, <2>8 DEF Changed, TypeOK, Content
    <3>3. Recorded'
      BY <1>1, <2>1, <3>2 DEF Recorded
    <3>4. ~diskFailed => AgreeOf(a)'
      BY <2>1, <2>2, <2>3, <2>6, <3>1, <3>2 DEF AgreeOf
    <3>5. ServedOf(a)'
      BY <1>1, <2>1, <2>3, <3>1 DEF ServedOf
    <3> QED
      BY <2>1, <2>2, <2>3, <2>5, <3>1, <3>3, <3>4, <3>5, OneHandler DEF Good
  <2> QED
    BY <2>7, <2>8
<1>11. ASSUME NEW a \in Admins, DiskFails(a)
       PROVE  Good
  <2>1. /\ pc[a] \in {"read", "truncate", "write"} /\ pc'[a] = WithoutFile(a)
        /\ \A b \in Admins \ {a} : pc'[b] = pc[b]
        /\ UNCHANGED <<form, content, pools, keys, up, promised, job, snap>>
        /\ diskFailed'
    BY <1>2, <1>11 DEF TypeOK, DiskFails, Goto, fileVars, memory, locals
  <2>2. /\ \A b \in Admins \ {a} : pc'[b] = "idle" /\ job'[b] = NoJob
        /\ job[a] \in Jobs /\ up
        /\ OnToken(a)' <=> OnToken(a)
        /\ Leaving(a)' = Leaving(a)
    BY <1>7, <2>1
  <2>3. Recorded' /\ OpenOf(a)'
    BY <1>1, <2>1, <2>2 DEF Recorded, OpenOf
  <2>4. /\ pc'[a] \in {"fail", "reload", "answer"}
        /\ pc'[a] = "reload" => job[a].do # "import"
    <3>1. WithoutFile(a) = "reload" => job[a].do # "import"
      BY DEF WithoutFile
    <3> QED
      BY <1>2, <2>1, <2>2, <3>1, ChangedType
  <2>5. FileOf(a)' /\ ServedOf(a)'
    BY <1>1, <2>1, <2>2, <2>4 DEF FileOf, ServedOf
  <2> QED
    BY <1>2, <2>1, <2>2, <2>3, <2>4, <2>5, OneHandler DEF Good
<1>12. ASSUME NEW a \in Admins, Reload(a)
       PROVE  Good
  <2>1. /\ pc[a] = "reload" /\ pc'[a] = "answer" /\ OnToken(a)
        /\ pools' = IF job[a].do = "import" THEN pools \cup {job[a].arg}
                    ELSE pools \ {job[a].arg}
        /\ \A b \in Admins \ {a} : pc'[b] = pc[b]
        /\ UNCHANGED <<form, content, keys, up, diskFailed, promised, job, snap>>
    BY <1>2, <1>12 DEF TypeOK, Reload, Goto, fileVars, locals, history
  <2>2. /\ \A b \in Admins \ {a} : pc'[b] = "idle" /\ job'[b] = NoJob
        /\ job[a] \in Jobs /\ up
        /\ OnToken(a)' <=> OnToken(a)
        /\ Leaving(a)' = Leaving(a)
    BY <1>7, <2>1
  <2>3. Recorded' /\ OpenOf(a)' /\ FileOf(a)'
    BY <1>1, <2>1, <2>2 DEF Recorded, OpenOf, FileOf
  <2>4. ~diskFailed => AgreeOf(a)'
    BY <1>1, <2>1, <2>2 DEF AgreeOf
  <2>5. ServedOf(a)'
    BY <1>1, <2>1, <2>2 DEF ServedOf, Leaving, OnToken
  <2> QED
    BY <1>2, <2>1, <2>2, <2>3, <2>4, <2>5, OneHandler DEF Good
<1>13. CASE Crash
  <2>1. /\ ~up' /\ \A a \in Admins : pc'[a] = "idle" /\ job'[a] = NoJob
        /\ UNCHANGED <<form, content, promised, diskFailed>>
    BY <1>13 DEF Crash, fileVars
  <2>2. \A a \in Admins : FileOf(a)' /\ OpenOf(a)'
    BY <2>1, Idle
  <2>3. Recorded' /\ FileAndMemoryAgree' /\ ServedIsRecorded'
    BY <2>1 DEF SerialInv, PromiseInv, Recorded, FileAndMemoryAgree, ServedIsRecorded, AtRest
  <2> QED
    BY <1>2, <2>1, <2>2, <2>3 DEF Good, FileInv, AgreeInv, PromiseInv, ServedInv
<1>14. CASE Restart
  <2>1. /\ ~up /\ form' = "good" /\ pools' = content'.tokens /\ keys' = content'.keys
        /\ UNCHANGED <<content, pc, job, promised, diskFailed>>
    BY <1>14 DEF Restart, fileVars, locals, history
  <2>2. \A a \in Admins : pc'[a] = "idle" /\ job'[a] = NoJob
    BY <1>1, <2>1 DEF FileOf
  <2>3. \A a \in Admins : FileOf(a)' /\ AgreeOf(a)' /\ OpenOf(a)' /\ ServedOf(a)'
    BY <2>2, Idle
  <2>4. Recorded' /\ FileAndMemoryAgree' /\ ServedIsRecorded'
    BY <2>1 DEF SerialInv, PromiseInv, Recorded, FileAndMemoryAgree, ServedIsRecorded
  <2> QED
    BY <2>1, <2>3, <2>4 DEF Good, FileInv, AgreeInv, PromiseInv, ServedInv
<1>15. CASE UNCHANGED vars
  BY <1>15 DEF Good, SerialInv, vars, fileVars, memory, locals, history,
     FileInv, FileOf, AgreeInv, AgreeOf, PromiseInv, Recorded, OpenOf, ServedInv,
     ServedOf, FileAndMemoryAgree, ServedIsRecorded, AtRest, Leaving, OnToken, Changed
<1> QED
  BY <1>3, <1>4, <1>5, <1>6, <1>8, <1>9, <1>10, <1>11, <1>12, <1>13, <1>14, <1>15
     DEF Next, Good
-----------------------------------------------------------------------------
(* The theorems.                                                           *)

\* As long as no two handlers overlap, every state satisfies the invariant,
\* whatever crashes and fails.
THEOREM SerialInvariance == Spec /\ []Serial => []SerialInv
<1>1. SerialInv /\ Serial /\ Serial' /\ [Next]_vars => SerialInv'
  <2> SUFFICES ASSUME SerialInv, Serial, Serial', [Next]_vars PROVE SerialInv'
    OBVIOUS
  <2>1. TypeOK /\ JobInv
    BY DEF SerialInv, FileInv, FileOf, JobInv
  <2> QED
    BY <2>1, TypeStep, SerialStep DEF SerialInv
<1> QED
  BY SerialInit, <1>1, PTL DEF Spec

\* Handlers that follow each other leave config.json and the memory with the same
\* accounts and keys (handleAuthImport, handleAuthAccountDelete, saveConfig),
\* also after crashes, unless the disk refused something.
THEOREM SerialHandlersAgree == Spec /\ []Serial => []FileAndMemoryAgree
<1>1. SerialInv => FileAndMemoryAgree
  BY DEF SerialInv, AgreeInv
<1> QED
  BY <1>1, SerialInvariance, PTL

\* Their answers outlive crashes and restarts: an imported account is recorded and
\* served, a deleted one is neither.
THEOREM SerialAnswersKept == Spec /\ []Serial => []AnswersKept
<1>1. ASSUME SerialInv, NEW t \in Tokens, ~diskFailed, up, promised[t] \in {"in", "out"}
      PROVE  t \in pools <=> t \in content.tokens
  <2>1. CASE AtRest
    BY <1>1, <2>1 DEF SerialInv, AgreeInv, FileAndMemoryAgree
  <2>2. CASE ~AtRest
    <3>1. PICK a \in Admins : pc[a] # "idle"
      BY <1>1, <2>2 DEF AtRest
    <3>2. pools = content.tokens \/ pc[a] = "reload"
      BY <1>1, <3>1 DEF SerialInv, TypeOK, AgreeInv, AgreeOf
    <3>3. pc[a] = "reload" => job[a].arg # t
      BY <1>1, <3>1 DEF SerialInv, TypeOK, PromiseInv, OpenOf
    <3> QED
      BY <1>1, <3>1, <3>2, <3>3 DEF SerialInv, AgreeInv, AgreeOf
  <2> QED
    BY <2>1, <2>2
<1>2. SerialInv => AnswersKept
  BY <1>1 DEF SerialInv, PromiseInv, Recorded, AnswersKept
<1> QED
  BY <1>2, SerialInvariance, PTL

\* Even when the disk refuses, they leave no account in service that a restart
\* would forget: an import that cannot be written is not added to the pools.
THEOREM SerialServedIsRecorded == Spec /\ []Serial => []ServedIsRecorded
<1>1. SerialInv => ServedIsRecorded
  BY DEF SerialInv, ServedInv
<1> QED
  BY <1>1, SerialInvariance, PTL
=============================================================================
