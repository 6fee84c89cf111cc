--------------------------- MODULE ClaudeProtocol ---------------------------
(***************************************************************************)
(* The stream of events a Claude client can follow: a message is opened,   *)
(* its content blocks get the indexes 0, 1, 2, ..., each is opened, filled *)
(* and closed, and the message ends once, when no block is open.  Several  *)
(* blocks may be open at the same time.                                    *)
(***************************************************************************)
EXTENDS Naturals, FiniteSets

CONSTANTS Kinds, Reasons, NoReason

VARIABLES
  phase,   \* of the message: "none", "open", "ended"
  blocks,  \* index -> block: its kind, whether it is open, how much it holds
  reason   \* the stop reason of the message_delta event, or NoReason

vars == <<phase, blocks, reason>>

Init == phase = "none" /\ blocks = <<>> /\ reason = NoReason

MessageStart == phase = "none" /\ phase' = "open" /\ UNCHANGED <<blocks, reason>>

BlockStart(k) ==
  /\ phase = "open"
  /\ reason = NoReason
  /\ LET n == Cardinality(DOMAIN blocks)
     IN  blocks' = [i \in DOMAIN blocks \cup {n} |->
           IF i = n THEN [kind |-> k, open |-> TRUE, size |-> 0] ELSE blocks[i]]
  /\ UNCHANGED <<phase, reason>>

BlockDelta(i) ==
  /\ blocks[i].open
  /\ blocks'[i].size > blocks[i].size
  /\ blocks' = [blocks EXCEPT ![i].size = blocks'[i].size]
  /\ UNCHANGED <<phase, reason>>

BlockStop(i) ==
  /\ blocks[i].open
  /\ blocks' = [blocks EXCEPT ![i].open = FALSE]
  /\ UNCHANGED <<phase, reason>>

\* A message may end before it was opened: the upstream said nothing.
MessageDelta(r) ==
  /\ phase # "ended"
  /\ reason = NoReason
  /\ \A i \in DOMAIN blocks : ~blocks[i].open
  /\ reason' = r
  /\ UNCHANGED <<phase, blocks>>

MessageStop ==
  /\ phase # "ended"
  /\ reason # NoReason
  /\ phase' = "ended"
  /\ UNCHANGED <<blocks, reason>>

Next ==
  \/ MessageStart
  \/ \E k \in Kinds : BlockStart(k)
  \/ \E i \in DOMAIN blocks : BlockDelta(i) \/ BlockStop(i)
  \/ \E r \in Reasons : MessageDelta(r)
  \/ MessageStop

Spec == Init /\ [][Next]_vars
=============================================================================
