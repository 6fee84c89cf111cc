------------------------------ MODULE Accounts ------------------------------
(***************************************************************************)
(* The administration handlers and what they change: config.json, the      *)
(* accounts in the run manager's pool list and the API keys in memory.     *)
(* Handlers run in goroutines of their own and take no lock; config.json   *)
(* is read, emptied and written in separate steps.  An update in memory is *)
(* one step: what a data race inside it can do is not modelled here.  The  *)
(* process may crash at any point and be started again from config.json,   *)
(* and the disk may refuse a read or a write.                              *)
(***************************************************************************)
EXTENDS Naturals

CONSTANTS
  Admins,                  \* handler goroutines
  Tokens,                  \* account tokens
  Keys,                    \* API keys and passwords (a password is a key)
  FirstTokens, FirstKeys,  \* what config.json holds at the start
  Faults                   \* bound: disk errors and crashes in a behaviour

ASSUME AccountsAssumption ==
  /\ FirstTokens \subseteq Tokens
  /\ FirstTokens # {}
  /\ FirstKeys \subseteq Keys
  /\ Faults \in Nat

\* What a handler is asked to do.
Jobs == [do : {"import", "delete"}, arg : Tokens]
        \cup [do : {"addKey", "deleteKey", "password"}, arg : Keys]

Content == [tokens : SUBSET Tokens, keys : SUBSET Keys]

VARIABLES
  form,       \* config.json is "good", "empty" (os.WriteFile empties it
              \* first) or "mixed" (what two writers left is no JSON)
  content,    \* what config.json holds when it is good
  pools,      \* the tokens of m.pools
  keys,       \* s.cfg.APIKeys
  up,         \* the process runs
  pc,         \* where each handler is
  job,        \* what it does
  snap,       \* config.json as the handler read and changed it
  promised,   \* history: what the last answer said of a token: "in", "out",
              \* or "open" when no handler answered since one began
  diskFailed, \* history: the disk refused something
  faults      \* disk errors and crashes so far, at most Faults

fileVars == <<form, content>>
memory == <<pools, keys, up>>
locals == <<job, snap>>
history == <<promised, diskFailed, faults>>
vars == <<fileVars, memory, pc, locals, history>>

NoJob == [do |-> "none"]
NoContent == [tokens |-> {}, keys |-> {}]

Goto(a, l) == pc' = [pc EXCEPT ![a] = l]
OnToken(a) == job[a].do \in {"import", "delete"}

\* Bound on the requests: no two about the same token or key at a time.
Undisputed(j) == \A a \in Admins : pc[a] # "idle" => job[a].arg # j.arg

Init ==
  /\ form = "good"
  /\ content = [tokens |-> FirstTokens, keys |-> FirstKeys]
  /\ pools = FirstTokens
  /\ keys = FirstKeys
  /\ up = TRUE
  /\ pc = [a \in Admins |-> "idle"]
  /\ job = [a \in Admins |-> NoJob]
  /\ snap = [a \in Admins |-> NoContent]
  /\ promised = [t \in Tokens |-> IF t \in FirstTokens THEN "in" ELSE "open"]
  /\ diskFailed = FALSE
  /\ faults = 0
-----------------------------------------------------------------------------
(* Requests and answers.                                                   *)

\* An account is imported or deleted: the handler goes to config.json.
BeginToken(a, j) ==
  /\ up
  /\ pc[a] = "idle"
  /\ Undisputed(j)
  /\ j.do \in {"import", "delete"}
  /\ job' = [job EXCEPT ![a] = j]
  /\ Goto(a, "read")
  /\ promised' = [promised EXCEPT ![j.arg] = "open"]
  /\ UNCHANGED <<fileVars, memory, snap, diskFailed, faults>>

\* A key or password changes in memory first, then saveConfig writes it.  A key
\* that exists is answered at once; a password is put in front all the same.
BeginKey(a, j) ==
  /\ up
  /\ pc[a] = "idle"
  /\ Undisputed(j)
  /\ j.do \in {"addKey", "deleteKey", "password"}
  /\ job' = [job EXCEPT ![a] = j]
  /\ keys' = IF j.do = "deleteKey" THEN keys \ {j.arg} ELSE keys \cup {j.arg}
  /\ Goto(a, IF j.do = "addKey" /\ j.arg \in keys THEN "answer" ELSE "read")
  /\ UNCHANGED <<fileVars, pools, up, snap, history>>

Leave(a) ==
  /\ Goto(a, "idle")
  /\ job' = [job EXCEPT ![a] = NoJob]
  /\ snap' = [snap EXCEPT ![a] = NoContent]

\* The handler answers "ok".
Answer(a) ==
  /\ pc[a] = "answer"
  /\ promised' = IF OnToken(a)
                 THEN [promised EXCEPT ![job[a].arg] =
                         IF job[a].do = "import" THEN "in" ELSE "out"]
                 ELSE promised
  /\ Leave(a)
  /\ UNCHANGED <<fileVars, memory, diskFailed, faults>>

\* The handler answers with an error.
Fail(a) ==
  /\ pc[a] = "fail"
  /\ Leave(a)
  /\ UNCHANGED <<fileVars, memory, history>>
-----------------------------------------------------------------------------
(* config.json.                                                            *)

\* (Variant: the keys are added to those in the file.)
ChangedOnlyAdds(a) ==
  CASE job[a].do = "import" -> [content EXCEPT !.tokens = @ \cup {job[a].arg}]
    [] job[a].do = "delete" -> [content EXCEPT !.tokens = @ \ {job[a].arg}]
    [] OTHER -> [content EXCEPT !.keys = @ \cup keys]

\* What the handler makes of the file's content.
Changed(a) ==
  CASE job[a].do = "import" -> [content EXCEPT !.tokens = @ \cup {job[a].arg}]
    [] job[a].do = "delete" -> [content EXCEPT !.tokens = @ \ {job[a].arg}]
    [] OTHER -> [content EXCEPT !.keys = keys]

\* (Variant: an import goes on to the pool when the file could not be written.)
WithoutFileGoesOn(a) ==
  IF job[a].do \in {"import", "delete"} THEN "reload" ELSE "answer"

\* (Variant: saveConfig's failure is treated like an import's.)
WithoutFileFails(a) == IF job[a].do = "delete" THEN "reload" ELSE "fail"

\* Without the file an import is an error, a deletion still removes the pool,
\* and saveConfig gives up in silence.
WithoutFile(a) ==
  CASE job[a].do = "import" -> "fail"
    [] job[a].do = "delete" -> "reload"
    [] OTHER -> "answer"

\* Read, parse and change.  An import of a token that is there changes nothing.
ReadConfig(a) ==
  /\ pc[a] = "read"
  /\ IF form = "good"
     THEN /\ snap' = [snap EXCEPT ![a] = Changed(a)]
          /\ Goto(a, IF job[a].do = "import" /\ job[a].arg \in content.tokens
                     THEN "answer" ELSE "truncate")
     ELSE /\ Goto(a, WithoutFile(a))
          /\ UNCHANGED snap
  /\ UNCHANGED <<fileVars, memory, job, history>>

\* os.WriteFile: the file is emptied ...
Truncate(a) ==
  /\ pc[a] = "truncate"
  /\ form' = "empty"
  /\ Goto(a, "write")
  /\ UNCHANGED <<content, memory, locals, history>>

\* (Variant: a deletion changes the file and leaves the pool.)
AfterWriteKeepsPool(a) == IF job[a].do = "import" THEN "reload" ELSE "answer"

AfterWrite(a) == IF OnToken(a) THEN "reload" ELSE "answer"

\* ... and written from its start.  If somebody wrote since it was emptied, the
\* end of a longer text may stay behind.
WriteConfig(a) ==
  /\ pc[a] = "write"
  /\ content' = snap[a]
  /\ form' \in IF form = "empty" THEN {"good"} ELSE {"good", "mixed"}
  /\ Goto(a, AfterWrite(a))
  /\ UNCHANGED <<memory, locals, history>>

\* The disk refuses a read, the opening (the file stays) or the writing (the
\* file is empty by then).
DiskFails(a) ==
  /\ pc[a] \in {"read", "truncate", "write"}
  /\ faults < Faults
  /\ faults' = faults + 1
  /\ diskFailed' = TRUE
  /\ Goto(a, WithoutFile(a))
  /\ UNCHANGED <<fileVars, memory, locals, promised>>

\* AddToken and RemoveToken: the pool of the token is appended unless it is
\* there, or cut out.
Reload(a) ==
  /\ pc[a] = "reload"
  /\ pools' = IF job[a].do = "import" THEN pools \cup {job[a].arg}
              ELSE pools \ {job[a].arg}
  /\ Goto(a, "answer")
  /\ UNCHANGED <<fileVars, keys, up, locals, history>>
-----------------------------------------------------------------------------
(* The process.                                                            *)

\* A crash ends every handler without an answer.
Crash ==
  /\ up
  /\ faults < Faults
  /\ faults' = faults + 1
  /\ up' = FALSE
  /\ pc' = [a \in Admins |-> "idle"]
  /\ job' = [a \in Admins |-> NoJob]
  /\ snap' = [a \in Admins |-> NoContent]
  /\ UNCHANGED <<fileVars, pools, keys, promised, diskFailed>>

\* loadConfig and NewRunManager.  Without a readable config.json, or without a
\* token in it, the program does not start.
Restart ==
  /\ ~up
  /\ form = "good"
  /\ content.tokens # {}
  /\ up' = TRUE
  /\ pools' = content.tokens
  /\ keys' = content.keys
  /\ UNCHANGED <<fileVars, pc, locals, history>>

Next ==
  \/ \E a \in Admins :
       \/ \E j \in Jobs : BeginToken(a, j) \/ BeginKey(a, j)
       \/ Answer(a) \/ Fail(a)
       \/ ReadConfig(a) \/ Truncate(a) \/ WriteConfig(a) \/ DiskFails(a)
       \/ Reload(a)
  \/ Crash
  \/ Restart

Spec == Init /\ [][Next]_vars
-----------------------------------------------------------------------------
(* Properties.                                                             *)

\* Type correctness, and only handlers of accounts reach the run manager or
\* report an error.
TypeOK ==
  /\ form \in {"good", "empty", "mixed"}
  /\ content \in Content
  /\ pools \subseteq Tokens
  /\ keys \subseteq Keys
  /\ up \in BOOLEAN
  /\ pc \in [Admins -> {"idle", "read", "truncate", "write", "reload", "answer", "fail"}]
  /\ job \in [Admins -> Jobs \cup {NoJob}]
  /\ snap \in [Admins -> Content]
  /\ \A a \in Admins : /\ pc[a] = "reload" => OnToken(a)
                       /\ pc[a] = "fail" => job[a].do = "import"
  /\ promised \in [Tokens -> {"in", "out", "open"}]
  /\ diskFailed \in BOOLEAN
  /\ faults \in 0..Faults

AtRest == up /\ \A a \in Admins : pc[a] = "idle"

\* Between requests, memory and config.json say the same, whatever crashed
\* before, as long as the disk did what it was told (handleAuthImport,
\* handleAuthAccountDelete and saveConfig each change both).
FileAndMemoryAgree ==
  AtRest /\ ~diskFailed
    => form = "good" /\ pools = content.tokens /\ keys = content.keys

\* What a handler answered about an account outlives crashes and restarts: an
\* imported account is served and recorded, a deleted one neither.
AnswersKept ==
  \A t \in Tokens :
    /\ promised[t] = "in" /\ ~diskFailed
         => (form = "good" => t \in content.tokens) /\ (up => t \in pools)
    /\ promised[t] = "out" /\ ~diskFailed
         => (form = "good" => t \notin content.tokens) /\ (up => t \notin pools)

\* Even when the disk fails, no account is served that a restart would forget
\* (handleAuthImport returns before AddToken when it cannot write).
ServedIsRecorded == AtRest /\ form = "good" => pools \subseteq content.tokens

\* "Writes the token obtained into config.json and hot-reloads" (auth.go:151):
\* once an import has answered ok, config.json holds the token.
ImportRecorded ==
  \A t \in Tokens : promised[t] = "in" /\ form = "good" => t \in content.tokens
=============================================================================
