------------------------- MODULE ClaudeStream_proofs ------------------------
(***************************************************************************)
(* Proofs about ClaudeStream for any tools, payloads and lengths of        *)
(* streams.  The inductive invariant StreamInv links three things that are *)
(* never up to date at the same time: the blocks the client has, the events *)
(* converted and not yet written, and the converter's state.  A conversion *)
(* appends to the events and changes the state (the lemmas up to           *)
(* FinalizeLink); a write takes the first event and changes the blocks     *)
(* (those up to EventSeen).  BlocksAgree and the others are what is left   *)
(* of the link when no event is on its way.                                *)
(***************************************************************************)
EXTENDS ClaudeStream, FiniteSetTheorems, TLAPS

\* What a block, an event and the converter's state are made of.
Kinds == {Kind(k, NoTool) : k \in {"text", "thinking"}} \cup {Kind("tool", t) : t \in Tools}

Reasons == {"tool_use", "max_tokens", "end_turn"}

BlockType == [kind : Kinds, open : BOOLEAN, size : Nat]

Event ==
  [type : {"message_start", "message_stop"}]
    \cup [type : {"content_block_start"}, index : Nat, kind : Kinds]
    \cup [type : {"content_block_delta"}, index : Nat, size : Nat \ {0}]
    \cup [type : {"content_block_stop"}, index : Nat]
    \cup [type : {"message_delta"}, reason : Reasons]

BlockNo == Nat \cup {NoBlock}

ConvType ==
  [started : BOOLEAN, text : BlockNo, thinking : BlockNo, next : Nat,
   opened : [Tools -> BlockNo], args : [Tools -> Nat],
   finish : {"", "stop", "length", "tool_calls"}, sawTool : BOOLEAN, closed : BOOLEAN,
   deltaSent : BOOLEAN, stopSent : BOOLEAN, events : Seq(Event)]

IsStart(e) == e.type = "content_block_start"
IsDelta(e) == e.type = "content_block_delta"
IsStop(e) == e.type = "content_block_stop"
OfBlock(e) == IsStart(e) \/ IsDelta(e) \/ IsStop(e)

\* The client has the blocks bl, 0 .. b-1.  With the events es it will have n blocks, those
\* of O open: a block is started once, in the order of the indexes, and nothing
\* comes before its start or after its stop.
BlockLink(bl, b, n, O, es) ==
  /\ b \in 0..n /\ O \subseteq 0..(n - 1)
  /\ bl \in [0..(b - 1) -> BlockType]
  /\ es \in Seq(Event)
  /\ \A m \in DOMAIN es : OfBlock(es[m]) => es[m].index \in 0..(n - 1)
  /\ \A m \in DOMAIN es : IsStart(es[m]) => es[m].index >= b
  /\ \A i \in b..(n - 1) : \E m \in DOMAIN es : IsStart(es[m]) /\ es[m].index = i
  /\ \A l, m \in DOMAIN es :
       l < m /\ IsStart(es[l]) /\ IsStart(es[m]) => es[l].index < es[m].index
  /\ \A l, m \in DOMAIN es :
       l < m /\ OfBlock(es[l]) /\ OfBlock(es[m]) /\ es[l].index = es[m].index
         => ~IsStop(es[l]) /\ ~IsStart(es[m])
  /\ \A m \in DOMAIN es :
       OfBlock(es[m]) /\ ~IsStart(es[m]) /\ es[m].index < b => bl[es[m].index].open
  /\ \A i \in 0..(n - 1) :
       i \in O <=> /\ i < b => bl[i].open
                   /\ \A m \in DOMAIN es : ~(IsStop(es[m]) /\ es[m].index = i)

\* The message is started and ended once, around its blocks; st and sent say that
\* both was converted, r is the reason to end it.
MessageLink(ph, rs, st, sent, r, es) ==
  /\ ph \in {"none", "open", "ended"} /\ rs \in Reasons \cup {"none"}
  /\ \A m \in DOMAIN es : es[m].type = "message_start" => m = 1 /\ ph = "none" /\ st
  /\ st => ph # "none" \/ (es # <<>> /\ es[1].type = "message_start")
  /\ ph = "open" => st
  /\ \A m \in DOMAIN es : OfBlock(es[m]) => st
  /\ ~sent =>
       /\ rs = "none" /\ ph # "ended"
       /\ \A m \in DOMAIN es : es[m].type \notin {"message_delta", "message_stop"}
  /\ sent /\ ph # "ended" =>
       /\ es # <<>> /\ es[Len(es)].type = "message_stop"
       /\ rs = "none" => Len(es) > 1 /\ es[Len(es) - 1].type = "message_delta"
  /\ \A m \in DOMAIN es :
       /\ es[m].type = "message_stop" => m = Len(es)
       /\ es[m].type = "message_delta" => es[m].reason = r /\ m = Len(es) - 1
  /\ rs # "none" => rs = r /\ Len(es) <= 1 /\ \A m \in DOMAIN es : es[m].type = "message_stop"
  /\ ph = "ended" => es = <<>> /\ rs # "none"

\* The blocks the converter works on are different, and there.
Distinct(s) ==
  /\ {s.text, s.thinking} \subseteq {NoBlock} \cup 0..(s.next - 1)
  /\ NoBlock \in {s.text, s.thinking}
  /\ \A t \in Tools : s.opened[t] # NoBlock =>
       /\ s.opened[t] \in 0..(s.next - 1) \ {s.text, s.thinking}
       /\ \A u \in Tools \ {t} : s.opened[u] # s.opened[t]

\* The block of a tool call is known to be one.
ToolLink(bl, b, s, es) ==
  /\ \A i \in 0..(b - 1) : bl[i].kind.kind = "tool" =>
       s.sawTool /\ s.opened[bl[i].kind.tool] = i
  /\ \A m \in DOMAIN es : IsStart(es[m]) /\ es[m].kind.kind = "tool" =>
       s.sawTool /\ s.opened[es[m].kind.tool] = es[m].index

\* Block i holds n, or holds nothing yet and gets n in one delta.
Fills(bl, b, i, n, es) ==
  LET now == IF i < b THEN bl[i].size ELSE 0
      deltas == {m \in DOMAIN es : IsDelta(es[m]) /\ es[m].index = i}
  IN  \/ now = n /\ deltas = {}
      \/ now = 0 /\ \E m \in deltas : es[m].size = n /\ deltas = {m}

\* The block of a tool call gets the arguments when the content ends, not before.
ArgsLink(bl, b, s, es) ==
  \A t \in Tools : s.opened[t] # NoBlock =>
    Fills(bl, b, s.opened[t], IF s.closed THEN s.args[t] ELSE 0, es)

\* What the converter's state says by itself.
ConvOK(s) ==
  /\ s \in ConvType
  /\ Distinct(s)
  /\ s.deltaSent = s.stopSent
  /\ s.stopSent => s.closed
  /\ s.closed => s.text = NoBlock /\ s.thinking = NoBlock
  /\ ~s.started => s.next = 0
  /\ s.finish # "" => s.started

\* The client has b blocks; the events es on their way will bring it to where the
\* converter's state s is.
Link(bl, b, ph, rs, s, es) ==
  /\ BlockLink(bl, b, s.next, Open(s), es)
  /\ MessageLink(ph, rs, s.started, s.stopSent, StopReason(s), es)
  /\ ToolLink(bl, b, s, es)
  /\ ArgsLink(bl, b, s, es)

\* The loop: at most one payload is being written, nothing follows [DONE].
LoopInv ==
  /\ conv.events = <<>>
  /\ conv.args = argsHeard
  /\ pc \in {"read", "write", "done", "failed"}
  /\ sawDone \in BOOLEAN /\ eof \in BOOLEAN /\ payloads \in Nat
  /\ pc \in {"read", "done"} => pending = <<>>
  /\ conv.finish # "" => conv.closed
  /\ conv.closed => conv.finish # "" \/ sawDone \/ eof
  /\ sawDone \/ eof => conv.stopSent
  /\ pc = "done" => eof
  /\ pc = "read" => ~eof

\* The inductive invariant.
StreamInv ==
  /\ ConvOK(conv)
  /\ \E b \in Nat : Link(blocks, b, phase, reason, conv, pending)
  /\ LoopInv
-----------------------------------------------------------------------------
(* What the events on their way make of the client's blocks.               *)

\* An event of a block has an index.
LEMMA EventIndex ==
  ASSUME NEW e \in Event, OfBlock(e)
  PROVE  e.index \in Nat
  BY DEF Event, OfBlock, IsStart, IsDelta, IsStop

\* The events of blocks.
LEMMA BlockEvent ==
  /\ \A i \in Nat : /\ Stop(i) \in Event /\ Stop(i).index = i
                    /\ IsStop(Stop(i)) /\ ~IsStart(Stop(i)) /\ ~IsDelta(Stop(i))
  /\ \A i \in Nat, n \in Nat \ {0} :
       /\ Delta(i, n) \in Event /\ Delta(i, n).index = i /\ Delta(i, n).size = n
       /\ IsDelta(Delta(i, n)) /\ ~IsStart(Delta(i, n)) /\ ~IsStop(Delta(i, n))
  /\ \A i \in Nat, k \in Kinds :
       /\ Start(i, k) \in Event /\ Start(i, k).index = i /\ Start(i, k).kind = k
       /\ IsStart(Start(i, k)) /\ ~IsDelta(Start(i, k)) /\ ~IsStop(Start(i, k))
  BY DEF Event, Stop, Delta, Start, IsStart, IsDelta, IsStop

\* Appending to a list of events.
LEMMA Appended ==
  ASSUME NEW es \in Seq(Event), NEW more \in Seq(Event)
  PROVE  /\ es \o more \in Seq(Event)
         /\ Len(es \o more) = Len(es) + Len(more)
         /\ DOMAIN (es \o more) = 1..(Len(es) + Len(more))
         /\ \A m \in DOMAIN es : m \in DOMAIN (es \o more) /\ (es \o more)[m] = es[m]
         /\ \A m \in DOMAIN more : /\ Len(es) + m \in DOMAIN (es \o more)
                                   /\ (es \o more)[Len(es) + m] = more[m]
         /\ \A m \in DOMAIN (es \o more) :
              \/ m \in DOMAIN es
              \/ m - Len(es) \in DOMAIN more /\ (es \o more)[m] = more[m - Len(es)]
  OBVIOUS

\* A block is started under the next index.
LEMMA StartLink ==
  ASSUME NEW bl, NEW b, NEW n \in Nat, NEW O, NEW es, BlockLink(bl, b, n, O, es), NEW k \in Kinds
  PROVE  BlockLink(bl, b, n + 1, O \cup {n}, es \o <<Start(n, k)>>)
<1> DEFINE e == Start(n, k)
           t == es \o <<e>>
<1>1. e \in Event /\ IsStart(e) /\ OfBlock(e) /\ ~IsStop(e) /\ e.index = n
  BY DEF Start, Event, IsStart, IsStop, OfBlock
<1>2. es \in Seq(Event) /\ b \in 0..n /\ O \subseteq 0..(n - 1)
  BY DEF BlockLink
<1> HIDE DEF e
<1>3. /\ t \in Seq(Event) /\ DOMAIN t = 1..(Len(es) + 1) /\ Len(es) \in Nat
      /\ \A m \in DOMAIN es : m \in DOMAIN t /\ m < Len(es) + 1 /\ t[m] = es[m]
      /\ t[Len(es) + 1] = e
      /\ \A m \in DOMAIN t : m \in DOMAIN es \/ m = Len(es) + 1
  BY <1>1, <1>2
<1> HIDE DEF t
<1>4. b \in 0..(n + 1) /\ O \cup {n} \subseteq 0..n /\ 0..(n + 1 - 1) = 0..(n - 1) \cup {n}
  BY <1>2
<1>5. \A m \in DOMAIN es : OfBlock(es[m]) => es[m].index \in 0..(n - 1)
  BY DEF BlockLink
<1>6. \A m \in DOMAIN t : OfBlock(t[m]) => t[m].index \in 0..n
  BY <1>1, <1>2, <1>3, <1>5
<1>7. \A m \in DOMAIN t : IsStart(t[m]) => t[m].index >= b
  BY <1>1, <1>2, <1>3 DEF BlockLink
<1>8. \A i \in b..n : \E m \in DOMAIN t : IsStart(t[m]) /\ t[m].index = i
  <2> SUFFICES ASSUME NEW i \in b..n
               PROVE  \E m \in DOMAIN t : IsStart(t[m]) /\ t[m].index = i
    OBVIOUS
  <2>1. CASE i = n
    BY <1>1, <1>3, <2>1
  <2>2. CASE i # n
    <3>1. i \in b..(n - 1)
      BY <1>2, <2>2
    <3> QED
      BY <1>3, <3>1 DEF BlockLink
  <2> QED
    BY <2>1, <2>2
<1>9. \A l, m \in DOMAIN t :
        l < m /\ IsStart(t[l]) /\ IsStart(t[m]) => t[l].index < t[m].index
  <2> SUFFICES ASSUME NEW l \in DOMAIN t, NEW m \in DOMAIN t,
                      l < m, IsStart(t[l]), IsStart(t[m])
               PROVE  t[l].index < t[m].index
    OBVIOUS
  <2>1. l \in DOMAIN es
    BY <1>3
  <2>2. CASE m \in DOMAIN es
    BY <1>3, <2>1, <2>2 DEF BlockLink
  <2>3. CASE m = Len(es) + 1
    BY <1>1, <1>2, <1>3, <1>5, <2>1, <2>3 DEF OfBlock
  <2> QED
    BY <1>3, <2>2, <2>3
<1>10. \A l, m \in DOMAIN t :
         l < m /\ OfBlock(t[l]) /\ OfBlock(t[m]) /\ t[l].index = t[m].index
           => ~IsStop(t[l]) /\ ~IsStart(t[m])
  <2> SUFFICES ASSUME NEW l \in DOMAIN t, NEW m \in DOMAIN t,
                      l < m, OfBlock(t[l]), OfBlock(t[m]), t[l].index = t[m].index
               PROVE  ~IsStop(t[l]) /\ ~IsStart(t[m])
    OBVIOUS
  <2>1. l \in DOMAIN es
    BY <1>3
  <2>2. CASE m \in DOMAIN es
    BY <1>3, <2>1, <2>2 DEF BlockLink
  <2>3. CASE m = Len(es) + 1
    BY <1>1, <1>2, <1>3, <1>5, <2>1, <2>3
  <2> QED
    BY <1>3, <2>2, <2>3
<1>11. \A m \in DOMAIN t :
         OfBlock(t[m]) /\ ~IsStart(t[m]) /\ t[m].index < b => bl[t[m].index].open
  BY <1>1, <1>3 DEF BlockLink
<1>12. \A i \in 0..n :
         i \in O \cup {n} <=> /\ i < b => bl[i].open
                              /\ \A m \in DOMAIN t : ~(IsStop(t[m]) /\ t[m].index = i)
  <2> SUFFICES ASSUME NEW i \in 0..n
               PROVE  i \in O \cup {n} <=>
                        /\ i < b => bl[i].open
                        /\ \A m \in DOMAIN t : ~(IsStop(t[m]) /\ t[m].index = i)
    OBVIOUS
  <2>1. (\A m \in DOMAIN t : ~(IsStop(t[m]) /\ t[m].index = i))
           <=> \A m \in DOMAIN es : ~(IsStop(es[m]) /\ es[m].index = i)
    BY <1>1, <1>3
  <2>2. CASE i = n
    BY <1>2, <1>5, <2>1, <2>2 DEF OfBlock
  <2>3. CASE i # n
    <3>1. i \in 0..(n - 1)
      BY <1>2, <2>3
    <3> QED
      BY <2>1, <2>3, <3>1 DEF BlockLink
  <2> QED
    BY <2>2, <2>3
<1>13. 0..((n + 1) - 1) = 0..n /\ b..((n + 1) - 1) = b..n
  OBVIOUS
<1>14. bl \in [0..(b - 1) -> BlockType]
  BY DEF BlockLink
<1>15. BlockLink(bl, b, n + 1, O \cup {n}, t)
  BY <1>3, <1>4, <1>6, <1>7, <1>8, <1>9, <1>10, <1>11, <1>12, <1>13, <1>14 DEF BlockLink
<1> QED
  BY <1>15 DEF t, e

\* Open blocks are filled and stopped, each at most once and at the end.
LEMMA EndLink ==
  ASSUME NEW bl, NEW b, NEW n \in Nat, NEW O, NEW es, BlockLink(bl, b, n, O, es),
         NEW more \in Seq(Event), NEW P,
         \A m \in DOMAIN more : OfBlock(more[m]) => ~IsStart(more[m]) /\ more[m].index \in O,
         \A l, m \in DOMAIN more :
           l < m /\ OfBlock(more[l]) /\ OfBlock(more[m]) /\ more[l].index = more[m].index
             => ~IsStop(more[l]),
         \A i \in O : i \in P <=> \A m \in DOMAIN more : ~(IsStop(more[m]) /\ more[m].index = i),
         P \subseteq O
  PROVE  BlockLink(bl, b, n, P, es \o more)
<1> DEFINE t == es \o more
           u == Len(es)
<1>1. es \in Seq(Event) /\ b \in 0..n /\ O \subseteq 0..(n - 1) /\ P \subseteq 0..(n - 1)
  BY DEF BlockLink
<1>2. /\ t \in Seq(Event) /\ DOMAIN es = 1..u /\ u \in Nat
      /\ \A m \in DOMAIN es : m \in DOMAIN t /\ t[m] = es[m]
      /\ \A m \in DOMAIN more : u + m \in DOMAIN t /\ t[u + m] = more[m]
      /\ \A m \in DOMAIN t : \/ m \in DOMAIN es
                             \/ m - u \in DOMAIN more /\ t[m] = more[m - u]
  BY <1>1, Appended
<1> HIDE DEF t, u
<1>3. \A m \in DOMAIN t : OfBlock(t[m]) => t[m].index \in 0..(n - 1)
  <2>1. \A m \in DOMAIN es : OfBlock(es[m]) => es[m].index \in 0..(n - 1)
    BY DEF BlockLink
  <2>2. \A m \in DOMAIN more : OfBlock(more[m]) => more[m].index \in 0..(n - 1)
    BY <1>1
  <2>3. ASSUME NEW m \in DOMAIN t, OfBlock(t[m])
        PROVE  t[m].index \in 0..(n - 1)
    <3>1. CASE m \in DOMAIN es
      BY <1>2, <2>1, <2>3, <3>1
    <3>2. CASE m - u \in DOMAIN more /\ t[m] = more[m - u]
      BY <2>2, <2>3, <3>2
    <3> QED
      BY <1>2, <3>1, <3>2
  <2> QED
    BY <2>3
<1>4. \A m \in DOMAIN t : IsStart(t[m]) => m \in DOMAIN es /\ t[m] = es[m]
  BY <1>2 DEF OfBlock
<1>5. /\ \A m \in DOMAIN t : IsStart(t[m]) => t[m].index >= b
      /\ \A i \in b..(n - 1) : \E m \in DOMAIN t : IsStart(t[m]) /\ t[m].index = i
      /\ \A l, m \in DOMAIN t :
           l < m /\ IsStart(t[l]) /\ IsStart(t[m]) => t[l].index < t[m].index
  <2>1. \A m \in DOMAIN t : IsStart(t[m]) => t[m].index >= b
    BY <1>4 DEF BlockLink
  <2>2. \A i \in b..(n - 1) : \E m \in DOMAIN t : IsStart(t[m]) /\ t[m].index = i
    <3>1. \A i \in b..(n - 1) : \E m \in DOMAIN es : IsStart(es[m]) /\ es[m].index = i
      BY DEF BlockLink
    <3> QED
      BY <1>2, <3>1
  <2>3. \A l, m \in DOMAIN t :
           l < m /\ IsStart(t[l]) /\ IsStart(t[m]) => t[l].index < t[m].index
    BY <1>4 DEF BlockLink
  <2> QED
    BY <2>1, <2>2, <2>3
\* A block that is open has not been stopped.
<1>6. \A i \in O : /\ i < b => bl[i].open
                   /\ \A m \in DOMAIN es : ~(IsStop(es[m]) /\ es[m].index = i)
  BY <1>1 DEF BlockLink
<1>7. \A l, m \in DOMAIN t :
        l < m /\ OfBlock(t[l]) /\ OfBlock(t[m]) /\ t[l].index = t[m].index
          => ~IsStop(t[l]) /\ ~IsStart(t[m])
  <2> SUFFICES ASSUME NEW l \in DOMAIN t, NEW m \in DOMAIN t,
                      l < m, OfBlock(t[l]), OfBlock(t[m]), t[l].index = t[m].index
               PROVE  ~IsStop(t[l]) /\ ~IsStart(t[m])
    OBVIOUS
  <2>1. l \in Nat /\ m \in Nat
    BY <1>2
  <2>2. CASE m \in DOMAIN es
    <3>1. l \in DOMAIN es
      BY <1>2, <2>1, <2>2
    <3> QED
      BY <1>2, <2>2, <3>1 DEF BlockLink
  <2>3. CASE m \notin DOMAIN es
    <3>1. m - u \in DOMAIN more /\ t[m] = more[m - u]
      BY <1>2, <2>3
    <3>2. ~IsStart(t[m]) /\ t[m].index \in O
      BY <3>1
    <3>3. CASE l \in DOMAIN es
      BY <1>2, <1>6, <3>2, <3>3
    <3>4. CASE l \notin DOMAIN es
      <4>1. l - u \in DOMAIN more /\ t[l] = more[l - u]
        BY <1>2, <3>4
      <4>2. l - u < m - u
        BY <1>2, <2>1
      <4> QED
        BY <3>1, <3>2, <4>1, <4>2
    <3> QED
      BY <3>3, <3>4
  <2> QED
    BY <2>2, <2>3
<1>8. \A m \in DOMAIN t :
        OfBlock(t[m]) /\ ~IsStart(t[m]) /\ t[m].index < b => bl[t[m].index].open
  <2>1. \A m \in DOMAIN es :
          OfBlock(es[m]) /\ ~IsStart(es[m]) /\ es[m].index < b => bl[es[m].index].open
    BY DEF BlockLink
  <2> QED
    BY <1>2, <1>6, <2>1
<1>9. \A i \in 0..(n - 1) :
         i \in P <=> /\ i < b => bl[i].open
                     /\ \A m \in DOMAIN t : ~(IsStop(t[m]) /\ t[m].index = i)
  <2> SUFFICES ASSUME NEW i \in 0..(n - 1)
               PROVE  i \in P <=>
                        /\ i < b => bl[i].open
                        /\ \A m \in DOMAIN t : ~(IsStop(t[m]) /\ t[m].index = i)
    OBVIOUS
  <2>1. (\A m \in DOMAIN t : ~(IsStop(t[m]) /\ t[m].index = i))
           <=> /\ \A m \in DOMAIN es : ~(IsStop(es[m]) /\ es[m].index = i)
               /\ \A m \in DOMAIN more : ~(IsStop(more[m]) /\ more[m].index = i)
    BY <1>2
  <2>2. i \in O <=> /\ i < b => bl[i].open
                    /\ \A m \in DOMAIN es : ~(IsStop(es[m]) /\ es[m].index = i)
    BY DEF BlockLink
  <2> QED
    BY <2>1, <2>2
<1>10. bl \in [0..(b - 1) -> BlockType]
  BY DEF BlockLink
<1>11. BlockLink(bl, b, n, P, t)
  BY <1>1, <1>2, <1>3, <1>5, <1>7, <1>8, <1>9, <1>10 DEF BlockLink
<1> QED
  BY <1>11 DEF t
-----------------------------------------------------------------------------
(* An event reaches the client.                                            *)

\* The first event and those behind it.
LEMMA Rest ==
  ASSUME NEW es \in Seq(Event), es # <<>>
  PROVE  /\ Head(es) = es[1] /\ es[1] \in Event
         /\ Len(es) \in Nat /\ Len(es) >= 1 /\ DOMAIN es = 1..Len(es)
         /\ Tail(es) \in Seq(Event)
         /\ Len(Tail(es)) = Len(es) - 1
         /\ DOMAIN Tail(es) = 1..(Len(es) - 1)
         /\ \A m \in DOMAIN Tail(es) : /\ m + 1 \in DOMAIN es
                                       /\ Tail(es)[m] = es[m + 1]
         /\ \A m \in DOMAIN es : \/ m = 1
                                 \/ m - 1 \in DOMAIN Tail(es) /\ Tail(es)[m - 1] = es[m]
  OBVIOUS

\* What the order of the events says is said of the later ones as well.
LEMMA RestLink ==
  ASSUME NEW bl, NEW b, NEW n \in Nat, NEW O, NEW es, BlockLink(bl, b, n, O, es), es # <<>>
  PROVE  LET t == Tail(es)
         IN  /\ t \in Seq(Event)
             /\ \A m \in DOMAIN t : OfBlock(t[m]) => t[m].index \in 0..(n - 1)
             /\ \A l, m \in DOMAIN t :
                  l < m /\ IsStart(t[l]) /\ IsStart(t[m]) => t[l].index < t[m].index
             /\ \A l, m \in DOMAIN t :
                  l < m /\ OfBlock(t[l]) /\ OfBlock(t[m]) /\ t[l].index = t[m].index
                    => ~IsStop(t[l]) /\ ~IsStart(t[m])
             /\ OfBlock(es[1]) => \A m \in DOMAIN t :
                  OfBlock(t[m]) /\ es[1].index = t[m].index
                    => ~IsStop(es[1]) /\ ~IsStart(t[m])
<1> DEFINE t == Tail(es)
<1>1. /\ es \in Seq(Event) /\ Len(es) \in Nat /\ DOMAIN es = 1..Len(es) /\ 1 \in DOMAIN es
      /\ t \in Seq(Event) /\ DOMAIN t = 1..(Len(es) - 1)
      /\ \A m \in DOMAIN t : m + 1 \in DOMAIN es /\ t[m] = es[m + 1]
  BY Rest DEF BlockLink
<1> HIDE DEF t
<1>2. \A m \in DOMAIN t : OfBlock(t[m]) => t[m].index \in 0..(n - 1)
  BY <1>1 DEF BlockLink
<1>3. \A l, m \in DOMAIN t : l < m => l + 1 < m + 1
  BY <1>1
<1>4. \A l, m \in DOMAIN t :
        l < m /\ IsStart(t[l]) /\ IsStart(t[m]) => t[l].index < t[m].index
  BY <1>1, <1>3 DEF BlockLink
<1>5. \A l, m \in DOMAIN t :
        l < m /\ OfBlock(t[l]) /\ OfBlock(t[m]) /\ t[l].index = t[m].index
          => ~IsStop(t[l]) /\ ~IsStart(t[m])
  BY <1>1, <1>3 DEF BlockLink
<1>6. OfBlock(es[1]) => \A m \in DOMAIN t :
        OfBlock(t[m]) /\ es[1].index = t[m].index => ~IsStop(es[1]) /\ ~IsStart(t[m])
  <2>1. \A m \in DOMAIN t : 1 < m + 1
    BY <1>1
  <2> QED
    BY SMTT(30), <1>1, <2>1 DEF BlockLink
<1> QED
  BY <1>1, <1>2, <1>4, <1>5, <1>6 DEF t

\* The client's blocks when e starts one.
WithStart(bl, e) ==
  [i \in DOMAIN bl \cup {e.index} |->
    IF i = e.index THEN [kind |-> e.kind, open |-> TRUE, size |-> 0] ELSE bl[i]]

\* The first block to be started is the next one the client expects.
LEMMA SeesStart ==
  ASSUME NEW bl, NEW b, NEW n \in Nat, NEW O, NEW es, BlockLink(bl, b, n, O, es), es # <<>>,
         IsStart(es[1]), NEW now, now = WithStart(bl, es[1])
  PROVE  /\ es[1].index = b /\ DOMAIN bl = 0..(b - 1)
         /\ BlockLink(now, b + 1, n, O, Tail(es))
<1> DEFINE t == Tail(es)
           e == es[1]
<1>1. /\ es \in Seq(Event) /\ Len(es) \in Nat /\ DOMAIN es = 1..Len(es) /\ 1 \in DOMAIN es
      /\ t \in Seq(Event) /\ DOMAIN t = 1..(Len(es) - 1)
      /\ \A m \in DOMAIN t : m + 1 \in DOMAIN es /\ t[m] = es[m + 1]
      /\ \A m \in DOMAIN es : m = 1 \/ (m - 1 \in DOMAIN t /\ t[m - 1] = es[m])
      /\ e \in Event
  <2>1. es \in Seq(Event)
    BY DEF BlockLink
  <2>2. /\ Len(es) \in Nat /\ DOMAIN es = 1..Len(es) /\ 1 \in DOMAIN es
        /\ t \in Seq(Event) /\ DOMAIN t = 1..(Len(es) - 1) /\ e \in Event
    BY <2>1, Rest
  <2>3. \A m \in DOMAIN t : m + 1 \in DOMAIN es /\ t[m] = es[m + 1]
    BY <2>1, Rest
  <2>4. \A m \in DOMAIN es : m = 1 \/ (m - 1 \in DOMAIN t /\ t[m - 1] = es[m])
    BY <2>1, Rest
  <2> QED
    BY <2>1, <2>2, <2>3, <2>4
<1>2. /\ b \in 0..n /\ O \subseteq 0..(n - 1) /\ DOMAIN bl = 0..(b - 1)
      /\ bl \in [0..(b - 1) -> BlockType]
  BY DEF BlockLink
<1>3. /\ OfBlock(e) /\ ~IsStop(e) /\ ~IsDelta(e) /\ IsStart(e)
      /\ e.index \in Nat /\ e.kind \in Kinds
  BY <1>1 DEF OfBlock, IsStop, IsDelta, IsStart, Event
<1>4. e.index >= b /\ e.index \in 0..(n - 1)
  BY <1>1, <1>3 DEF BlockLink
<1>5. e.index = b
  <2> SUFFICES ASSUME e.index > b PROVE FALSE
    BY <1>2, <1>4
  <2>1. PICK m \in DOMAIN es : IsStart(es[m]) /\ es[m].index = b
    BY <1>2, <1>4 DEF BlockLink
  <2>2. m # 1 /\ 1 < m
    BY <1>1, <1>2, <2>1
  <2>3. es[1].index < es[m].index
    BY <1>1, <1>3, <2>1, <2>2 DEF BlockLink
  <2> QED
    BY <1>2, <1>4, <2>1, <2>3
<1> HIDE DEF t, e
<1>6. /\ b + 1 \in 0..n /\ 0..((b + 1) - 1) = 0..(b - 1) \cup {b}
      /\ now \in [0..((b + 1) - 1) -> BlockType]
      /\ \A i \in 0..(b - 1) : now[i] = bl[i]
      /\ now[b].open
  <2>1. b + 1 \in 0..n /\ 0..((b + 1) - 1) = 0..(b - 1) \cup {b} /\ b \notin 0..(b - 1)
    BY <1>2, <1>4, <1>5
  <2>2. now = [i \in 0..(b - 1) \cup {b} |->
                IF i = b THEN [kind |-> e.kind, open |-> TRUE, size |-> 0] ELSE bl[i]]
    BY <1>2, <1>5 DEF e, WithStart
  <2>3. [kind |-> e.kind, open |-> TRUE, size |-> 0] \in BlockType
    BY <1>3 DEF BlockType
  <2>4. now \in [0..((b + 1) - 1) -> BlockType]
    <3>1. \A i \in 0..(b - 1) : bl[i] \in BlockType
      BY <1>2
    <3> QED
      BY <2>1, <2>2, <2>3, <3>1
  <2>5. \A i \in 0..(b - 1) : now[i] = bl[i]
    BY <2>1, <2>2
  <2>6. now[b].open
    <3>1. now[b] = [kind |-> e.kind, open |-> TRUE, size |-> 0]
      BY <2>2
    <3> QED
      BY <3>1
  <2> QED
    BY <2>1, <2>4, <2>5, <2>6
<1>7. /\ \A m \in DOMAIN t : OfBlock(t[m]) => t[m].index \in 0..(n - 1)
      /\ \A l, m \in DOMAIN t :
           l < m /\ IsStart(t[l]) /\ IsStart(t[m]) => t[l].index < t[m].index
      /\ \A l, m \in DOMAIN t :
           l < m /\ OfBlock(t[l]) /\ OfBlock(t[m]) /\ t[l].index = t[m].index
             => ~IsStop(t[l]) /\ ~IsStart(t[m])
  BY RestLink DEF t
<1>8. \A m \in DOMAIN t : IsStart(t[m]) => t[m].index >= b + 1
  <2> SUFFICES ASSUME NEW m \in DOMAIN t, IsStart(t[m]) PROVE t[m].index >= b + 1
    OBVIOUS
  <2>1. es[1].index < es[m + 1].index
    <3>1. 1 < m + 1
      BY <1>1
    <3> QED
      BY <1>1, <1>3, <3>1 DEF BlockLink, e
  <2>2. t[m].index \in 0..(n - 1)
    BY <1>7 DEF OfBlock
  <2> QED
    BY <1>1, <1>2, <1>5, <2>1, <2>2 DEF e
<1>9. \A i \in (b + 1)..(n - 1) : \E m \in DOMAIN t : IsStart(t[m]) /\ t[m].index = i
  <2> SUFFICES ASSUME NEW i \in (b + 1)..(n - 1)
               PROVE  \E m \in DOMAIN t : IsStart(t[m]) /\ t[m].index = i
    OBVIOUS
  <2>1. i \in b..(n - 1) /\ i # b
    BY <1>2
  <2>2. PICK m \in DOMAIN es : IsStart(es[m]) /\ es[m].index = i
    BY <2>1 DEF BlockLink
  <2>3. m # 1
    BY <1>5, <2>1, <2>2 DEF e
  <2> QED
    BY <1>1, <2>2, <2>3
<1>10. \A m \in DOMAIN t :
         OfBlock(t[m]) /\ ~IsStart(t[m]) /\ t[m].index < b + 1 => now[t[m].index].open
  <2> SUFFICES ASSUME NEW m \in DOMAIN t, OfBlock(t[m]), ~IsStart(t[m]), t[m].index < b + 1
               PROVE  now[t[m].index].open
    OBVIOUS
  <2>1. CASE t[m].index = b
    BY <1>6, <2>1
  <2>2. CASE t[m].index # b
    <3>1. t[m].index \in 0..(b - 1) /\ t[m].index < b
      BY <1>2, <1>7, <2>2
    <3>2. bl[t[m].index].open
      BY <1>1, <3>1 DEF BlockLink
    <3> QED
      BY <1>6, <3>1, <3>2
  <2> QED
    BY <2>1, <2>2
<1>11. \A i \in 0..(n - 1) :
         i \in O <=> /\ i < b + 1 => now[i].open
                     /\ \A m \in DOMAIN t : ~(IsStop(t[m]) /\ t[m].index = i)
  <2> SUFFICES ASSUME NEW i \in 0..(n - 1)
               PROVE  i \in O <=>
                        /\ i < b + 1 => now[i].open
                        /\ \A m \in DOMAIN t : ~(IsStop(t[m]) /\ t[m].index = i)
    OBVIOUS
  <2>1. (\A m \in DOMAIN t : ~(IsStop(t[m]) /\ t[m].index = i))
           <=> \A m \in DOMAIN es : ~(IsStop(es[m]) /\ es[m].index = i)
    BY <1>1, <1>3 DEF e
  <2>2. (i < b + 1 => now[i].open) <=> (i < b => bl[i].open)
    <3>1. CASE i = b
      BY <1>2, <1>6, <3>1
    <3>2. CASE i < b
      <4>1. i \in 0..(b - 1) /\ i < b + 1
        BY <1>2, <3>2
      <4> QED
        BY <1>6, <3>2, <4>1
    <3>3. CASE i > b
      BY <1>2, <3>3
    <3> QED
      BY <1>2, <3>1, <3>2, <3>3
  <2>3. i \in O <=> /\ i < b => bl[i].open
                    /\ \A m \in DOMAIN es : ~(IsStop(es[m]) /\ es[m].index = i)
    BY DEF BlockLink
  <2> QED
    BY <2>1, <2>2, <2>3
<1>12. BlockLink(now, b + 1, n, O, t)
  BY <1>1, <1>2, <1>6, <1>7, <1>8, <1>9, <1>10, <1>11 DEF BlockLink
<1> QED
  BY <1>2, <1>5, <1>12 DEF t, e

\* An event that starts no block is for one that is there and open.
LEMMA HeadIsOpen ==
  ASSUME NEW bl, NEW b, NEW n \in Nat, NEW O, NEW es, BlockLink(bl, b, n, O, es), es # <<>>,
         OfBlock(es[1]), ~IsStart(es[1])
  PROVE  es[1].index \in 0..(b - 1) /\ bl[es[1].index].open
<1> DEFINE e == es[1]
<1>1. es \in Seq(Event) /\ b \in 0..n
  BY DEF BlockLink
<1>2. 1 \in DOMAIN es /\ Len(es) \in Nat /\ DOMAIN es = 1..Len(es)
  BY <1>1, Rest
<1>3. e.index \in 0..(n - 1)
  BY <1>2 DEF BlockLink
<1>4. e.index < b
  <2> SUFFICES ASSUME e.index >= b PROVE FALSE
    BY <1>1, <1>3
  <2>1. e.index \in b..(n - 1)
    BY <1>1, <1>3
  <2>2. PICK m \in DOMAIN es : IsStart(es[m]) /\ es[m].index = e.index
    BY <2>1 DEF BlockLink
  <2>3. 1 < m /\ OfBlock(es[m])
    BY <1>2, <2>2 DEF OfBlock
  <2> QED
    BY <1>2, <2>2, <2>3 DEF BlockLink
<1>5. bl[e.index].open
  BY <1>2, <1>4 DEF BlockLink
<1> QED
  BY <1>1, <1>3, <1>4, <1>5

\* Such an event takes the client to where the later ones can go on.
LEMMA SeesOther ==
  ASSUME NEW bl, NEW b, NEW n \in Nat, NEW O, NEW es, BlockLink(bl, b, n, O, es), es # <<>>,
         ~IsStart(es[1]), NEW now \in [0..(b - 1) -> BlockType],
         \A i \in 0..(b - 1) :
           now[i].open = (bl[i].open /\ ~(IsStop(es[1]) /\ es[1].index = i))
  PROVE  BlockLink(now, b, n, O, Tail(es))
<1> DEFINE t == Tail(es)
           e == es[1]
<1>1. /\ es \in Seq(Event) /\ Len(es) \in Nat /\ DOMAIN es = 1..Len(es) /\ 1 \in DOMAIN es
      /\ t \in Seq(Event) /\ DOMAIN t = 1..(Len(es) - 1)
      /\ \A m \in DOMAIN t : m + 1 \in DOMAIN es /\ t[m] = es[m + 1]
      /\ \A m \in DOMAIN es : m = 1 \/ (m - 1 \in DOMAIN t /\ t[m - 1] = es[m])
      /\ e \in Event
  <2>1. es \in Seq(Event)
    BY DEF BlockLink
  <2>2. /\ Len(es) \in Nat /\ DOMAIN es = 1..Len(es) /\ 1 \in DOMAIN es
        /\ t \in Seq(Event) /\ DOMAIN t = 1..(Len(es) - 1) /\ e \in Event
    BY <2>1, Rest
  <2>3. \A m \in DOMAIN t : m + 1 \in DOMAIN es /\ t[m] = es[m + 1]
    BY <2>1, Rest
  <2>4. \A m \in DOMAIN es : m = 1 \/ (m - 1 \in DOMAIN t /\ t[m - 1] = es[m])
    BY <2>1, Rest
  <2> QED
    BY <2>1, <2>2, <2>3, <2>4
<1>2. b \in 0..n /\ O \subseteq 0..(n - 1)
  BY DEF BlockLink
<1>3. OfBlock(e) => e.index \in 0..(b - 1)
  BY HeadIsOpen
<1> HIDE DEF t, e
<1>4. /\ \A m \in DOMAIN t : OfBlock(t[m]) => t[m].index \in 0..(n - 1)
      /\ \A l, m \in DOMAIN t :
           l < m /\ IsStart(t[l]) /\ IsStart(t[m]) => t[l].index < t[m].index
      /\ \A l, m \in DOMAIN t :
           l < m /\ OfBlock(t[l]) /\ OfBlock(t[m]) /\ t[l].index = t[m].index
             => ~IsStop(t[l]) /\ ~IsStart(t[m])
  BY RestLink DEF t
<1>5. \A m \in DOMAIN t : IsStart(t[m]) => t[m].index >= b
  BY <1>1 DEF BlockLink
<1>6. \A i \in b..(n - 1) : \E m \in DOMAIN t : IsStart(t[m]) /\ t[m].index = i
  <2> SUFFICES ASSUME NEW i \in b..(n - 1)
               PROVE  \E m \in DOMAIN t : IsStart(t[m]) /\ t[m].index = i
    OBVIOUS
  <2>1. PICK m \in DOMAIN es : IsStart(es[m]) /\ es[m].index = i
    BY DEF BlockLink
  <2>2. m # 1
    BY <2>1
  <2> QED
    BY <1>1, <2>1, <2>2
<1>7. \A m \in DOMAIN t :
         OfBlock(t[m]) /\ ~IsStart(t[m]) /\ t[m].index < b => now[t[m].index].open
  <2> SUFFICES ASSUME NEW m \in DOMAIN t, OfBlock(t[m]), ~IsStart(t[m]), t[m].index < b
               PROVE  now[t[m].index].open
    OBVIOUS
  <2>1. t[m].index \in 0..(b - 1)
    BY <1>2, <1>4
  <2>2. bl[t[m].index].open
    BY <1>1 DEF BlockLink
  <2>3. ~(IsStop(e) /\ e.index = t[m].index)
    BY RestLink DEF t, e, OfBlock
  <2> QED
    BY <2>1, <2>2, <2>3 DEF e
<1>8. \A i \in 0..(n - 1) :
         i \in O <=> /\ i < b => now[i].open
                     /\ \A m \in DOMAIN t : ~(IsStop(t[m]) /\ t[m].index = i)
  <2> SUFFICES ASSUME NEW i \in 0..(n - 1)
               PROVE  i \in O <=>
                        /\ i < b => now[i].open
                        /\ \A m \in DOMAIN t : ~(IsStop(t[m]) /\ t[m].index = i)
    OBVIOUS
  <2>1. (\A m \in DOMAIN es : ~(IsStop(es[m]) /\ es[m].index = i))
           <=> /\ \A m \in DOMAIN t : ~(IsStop(t[m]) /\ t[m].index = i)
               /\ ~(IsStop(e) /\ e.index = i)
    <3>1. e = es[1] /\ 1 \in DOMAIN es
      BY <1>1 DEF e
    <3>2. ASSUME \A m \in DOMAIN es : ~(IsStop(es[m]) /\ es[m].index = i)
          PROVE  /\ \A m \in DOMAIN t : ~(IsStop(t[m]) /\ t[m].index = i)
                 /\ ~(IsStop(e) /\ e.index = i)
      <4>1. \A m \in DOMAIN t : m + 1 \in DOMAIN es /\ t[m] = es[m + 1]
        BY <1>1
      <4> QED
        BY <3>1, <3>2, <4>1
    <3>3. ASSUME \A m \in DOMAIN t : ~(IsStop(t[m]) /\ t[m].index = i),
                 ~(IsStop(e) /\ e.index = i)
          PROVE  \A m \in DOMAIN es : ~(IsStop(es[m]) /\ es[m].index = i)
      <4>1. \A m \in DOMAIN es : es[m] = e \/ \E l \in DOMAIN t : t[l] = es[m]
        BY <1>1, <3>1
      <4> QED
        BY <3>3, <4>1
    <3> QED
      BY <3>2, <3>3
  <2>2. (i < b => now[i].open) <=> ((i < b => bl[i].open) /\ ~(IsStop(e) /\ e.index = i))
    <3>1. CASE i < b
      <4>1. i \in 0..(b - 1)
        BY <1>2, <3>1
      <4> QED
        BY <3>1, <4>1 DEF e
    <3>2. CASE ~(i < b)
      <4>1. ~(IsStop(e) /\ e.index = i)
        BY <1>2, <1>3, <3>2 DEF OfBlock
      <4> QED
        BY <3>2, <4>1
    <3> QED
      BY <3>1, <3>2
  <2>3. i \in O <=> /\ i < b => bl[i].open
                    /\ \A m \in DOMAIN es : ~(IsStop(es[m]) /\ es[m].index = i)
    BY DEF BlockLink
  <2> QED
    BY <2>1, <2>2, <2>3
<1>9. BlockLink(now, b, n, O, t)
  BY <1>1, <1>2, <1>4, <1>5, <1>6, <1>7, <1>8 DEF BlockLink
<1> QED
  BY <1>9 DEF t

-----------------------------------------------------------------------------
(* The order in which the tool calls are ended.                            *)

\* A finite set of numbers can be put in ascending order: the rank of an
\* element is how many are not above it.
LEMMA AscendingExists ==
  ASSUME NEW S \in SUBSET Nat, IsFiniteSet(S)
  PROVE  \E s \in [1..Cardinality(S) -> S] : \A i, j \in DOMAIN s : i < j => s[i] < s[j]
<1> DEFINE N == Cardinality(S)
           below(x) == {y \in S : y <= x}
           rank == [x \in S |-> Cardinality(below(x))]
<1>1. N \in Nat
  BY FS_CardinalityType
<1>2. \A x \in S : IsFiniteSet(below(x)) /\ rank[x] \in 1..N
  <2> SUFFICES ASSUME NEW x \in S PROVE IsFiniteSet(below(x)) /\ rank[x] \in 1..N
    OBVIOUS
  <2>1. below(x) \in SUBSET S /\ x \in below(x)
    OBVIOUS
  <2> HIDE DEF below
  <2>2. IsFiniteSet(below(x)) /\ Cardinality(below(x)) <= N
    BY <2>1, FS_Subset
  <2>3. Cardinality(below(x)) \in Nat /\ Cardinality(below(x)) # 0
    BY <2>1, <2>2, FS_CardinalityType, FS_EmptySet
  <2> QED
    BY <1>1, <2>2, <2>3
<1>3. \A x, y \in S : x < y => rank[x] < rank[y]
  <2> SUFFICES ASSUME NEW x \in S, NEW y \in S, x < y PROVE rank[x] < rank[y]
    OBVIOUS
  <2>1. x \in Nat /\ y \in Nat /\ \A z \in S : z \in Nat
    OBVIOUS
  <2>2. below(x) \in SUBSET below(y) /\ y \in below(y) /\ y \notin below(x)
    <3>1. \A z \in S : z <= x => z <= y
      BY <2>1
    <3>2. y <= y /\ ~(y <= x)
      BY <2>1
    <3> QED
      BY <3>1, <3>2
  <2> HIDE DEF below
  <2>3. Cardinality(below(x)) <= Cardinality(below(y))
        /\ Cardinality(below(x)) # Cardinality(below(y))
    BY <1>2, <2>2, FS_Subset
  <2>4. Cardinality(below(x)) \in Nat /\ Cardinality(below(y)) \in Nat
    BY <1>2, FS_CardinalityType
  <2> QED
    BY <2>3, <2>4
<1> HIDE DEF rank, N, below
<1>4. rank \in [S -> 1..N]
  BY <1>2 DEF rank
<1>5. rank \in Injection(S, 1..N)
  <2>1. \A x, y \in S : rank[x] = rank[y] => x = y
    <3> SUFFICES ASSUME NEW x \in S, NEW y \in S, rank[x] = rank[y] PROVE x = y
      OBVIOUS
    <3>1. rank[x] \in Nat /\ rank[y] \in Nat
      BY <1>1, <1>2
    <3>2. x \in Nat /\ y \in Nat
      OBVIOUS
    <3> QED
      BY <1>3, <3>1, <3>2
  <2> QED
    BY <1>4, <2>1 DEF Injection, IsInjective
<1>6. rank \in Surjection(S, 1..N)
  <2>1. IsFiniteSet(1..N) /\ Cardinality(1..N) = Cardinality(S)
    BY <1>1, FS_Interval DEF N
  <2> QED
    BY <1>5, <2>1, FS_Injection
<1> DEFINE s == [k \in 1..N |-> CHOOSE x \in S : rank[x] = k]
<1>7. \A k \in 1..N : s[k] \in S /\ rank[s[k]] = k
  BY <1>6 DEF Surjection
<1>8. s \in [1..N -> S]
  BY <1>7
<1> HIDE DEF s
<1>9. \A i, j \in 1..N : i < j => s[i] < s[j]
  <2> SUFFICES ASSUME NEW i \in 1..N, NEW j \in 1..N, i < j, ~(s[i] < s[j]) PROVE FALSE
    OBVIOUS
  <2>1. s[i] \in Nat /\ s[j] \in Nat
    BY <1>7
  <2>2. s[j] < s[i] \/ s[j] = s[i]
    BY <2>1
  <2>3. s[i] \in S /\ s[j] \in S /\ rank[s[i]] = i /\ rank[s[j]] = j
    BY <1>7
  <2>4. ~(rank[s[j]] < rank[s[i]]) /\ rank[s[i]] # rank[s[j]]
    BY <1>1, <2>3
  <2> QED
    BY <1>3, <2>2, <2>3, <2>4
<1> QED
  BY <1>8, <1>9 DEF N

\* Ascending has every element once, the smaller ones first.
LEMMA AscendingWorks ==
  ASSUME NEW S \in SUBSET Nat, IsFiniteSet(S)
  PROVE  /\ Cardinality(S) \in Nat
         /\ Ascending(S) \in [1..Cardinality(S) -> S]
         /\ \A i, j \in 1..Cardinality(S) : i < j => Ascending(S)[i] < Ascending(S)[j]
         /\ \A x \in S : \E i \in 1..Cardinality(S) : Ascending(S)[i] = x
<1> DEFINE N == Cardinality(S)
           a == Ascending(S)
<1>1. N \in Nat
  BY FS_CardinalityType
<1>2. a \in [1..N -> S] /\ \A i, j \in DOMAIN a : i < j => a[i] < a[j]
  BY AscendingExists DEF Ascending
<1> HIDE DEF a
<1>3. \A i, j \in 1..N : i < j => a[i] < a[j]
  BY <1>2
<1>4. a \in Injection(1..N, S)
  <2>1. \A i, j \in 1..N : a[i] = a[j] => i = j
    <3> SUFFICES ASSUME NEW i \in 1..N, NEW j \in 1..N, a[i] = a[j] PROVE i = j
      OBVIOUS
    <3>1. a[i] \in Nat
      BY <1>2
    <3> QED
      BY <1>3, <3>1
  <2> QED
    BY <1>2, <2>1 DEF Injection, IsInjective
<1>5. a \in Surjection(1..N, S)
  <2>1. Cardinality(1..N) = N
    BY <1>1, FS_Interval
  <2> QED
    BY <1>4, <2>1, FS_Injection
<1> QED
  BY <1>1, <1>2, <1>3, <1>5 DEF Surjection, a

\* Every started tool call gets its arguments, if it has any, and then its end.
LEMMA ToolEndsWork ==
  ASSUME NEW s \in ConvType, Distinct(s)
  PROVE  /\ ToolEnds(s) \in Seq(Event)
         /\ \A m \in DOMAIN ToolEnds(s) :
              \E t \in Tools :
                /\ s.opened[t] # NoBlock /\ ToolEnds(s)[m].index = s.opened[t]
                /\ \/ IsStop(ToolEnds(s)[m])
                   \/ IsDelta(ToolEnds(s)[m]) /\ ToolEnds(s)[m].size = s.args[t]
         /\ \A l, m \in DOMAIN ToolEnds(s) :
              l < m /\ ToolEnds(s)[l].index = ToolEnds(s)[m].index
                => IsDelta(ToolEnds(s)[l]) /\ IsStop(ToolEnds(s)[m])
         /\ \A t \in Tools : s.opened[t] # NoBlock =>
              /\ \E m \in DOMAIN ToolEnds(s) :
                   IsStop(ToolEnds(s)[m]) /\ ToolEnds(s)[m].index = s.opened[t]
              /\ s.args[t] > 0 => \E m \in DOMAIN ToolEnds(s) :
                   IsDelta(ToolEnds(s)[m]) /\ ToolEnds(s)[m].index = s.opened[t]
<1> DEFINE open == {t \in Tools : s.opened[t] # NoBlock}
           filled == {t \in open : s.args[t] > 0}
           S == {2 * t + 1 : t \in open} \cup {2 * t : t \in filled}
           N == Cardinality(S)
           order == Ascending(S)
           call(k) == order[k] \div 2
           ends == [k \in 1..N |->
                      IF order[k] % 2 = 0 THEN Delta(s.opened[call(k)], s.args[call(k)])
                      ELSE Stop(s.opened[call(k)])]
<1>1. \A t \in open : t \in Nat /\ s.opened[t] \in Nat /\ s.args[t] \in Nat
  BY StreamAssumption DEF ConvType, BlockNo
<1>2. S \in SUBSET Nat /\ IsFiniteSet(S)
  <2>1. IsFiniteSet(open) /\ IsFiniteSet(filled)
    <3>1. open \in SUBSET Tools /\ filled \in SUBSET Tools
      OBVIOUS
    <3> QED
      BY <3>1, FS_Subset, StreamAssumption
  <2>2. IsFiniteSet({2 * t + 1 : t \in open})
    <3> DEFINE f == [t \in open |-> 2 * t + 1]
    <3>1. f \in Surjection(open, {2 * t + 1 : t \in open})
      BY DEF Surjection
    <3> QED
      BY <2>1, <3>1, FS_Surjection
  <2>3. IsFiniteSet({2 * t : t \in filled})
    <3> DEFINE f == [t \in filled |-> 2 * t]
    <3>1. f \in Surjection(filled, {2 * t : t \in filled})
      BY DEF Surjection
    <3> QED
      BY <2>1, <3>1, FS_Surjection
  <2>4. IsFiniteSet(S)
    BY <2>2, <2>3, FS_Union
  <2>5. S \subseteq Nat
    BY <1>1
  <2> QED
    BY <2>4, <2>5
<1>3. \A x \in S : /\ x \in Nat /\ x \div 2 \in open
                   /\ \/ x = 2 * (x \div 2) /\ x % 2 = 0 /\ x \div 2 \in filled
                      \/ x = 2 * (x \div 2) + 1 /\ x % 2 # 0
  <2>1. \A t \in Nat : /\ (2 * t) \div 2 = t /\ (2 * t) % 2 = 0
                       /\ (2 * t + 1) \div 2 = t /\ (2 * t + 1) % 2 = 1
    OBVIOUS
  <2> QED
    BY <1>1, <2>1
<1>4. \A t \in open : /\ 2 * t + 1 \in S /\ (2 * t + 1) \div 2 = t /\ (2 * t + 1) % 2 # 0
                      /\ t \in filled => /\ 2 * t \in S /\ (2 * t) \div 2 = t
                                         /\ (2 * t) % 2 = 0
  <2>1. \A t \in Nat : /\ (2 * t) \div 2 = t /\ (2 * t) % 2 = 0
                       /\ (2 * t + 1) \div 2 = t /\ (2 * t + 1) % 2 = 1
    OBVIOUS
  <2> QED
    BY <1>1, <2>1
<1> HIDE DEF S
<1>5. /\ N \in Nat /\ order \in [1..N -> S]
      /\ \A i, j \in 1..N : i < j => order[i] < order[j]
      /\ \A x \in S : \E i \in 1..N : order[i] = x
  BY <1>2, AscendingWorks
<1>6. ToolEnds(s) = ends
  <2>1. DOMAIN order = 1..N
    BY <1>5
  <2>2. S = {2 * t + 1 : t \in open} \cup {2 * t : t \in {u \in open : s.args[u] > 0}}
    BY DEF S
  <2> HIDE DEF order, N
  <2>3. ToolEnds(s) = [k \in DOMAIN order |->
          LET t == order[k] \div 2
          IN  IF order[k] % 2 = 0 THEN Delta(s.opened[t], s.args[t]) ELSE Stop(s.opened[t])]
    BY <2>2 DEF ToolEnds, order
  <2> QED
    BY <2>1, <2>3
<1> HIDE DEF order, N, open
<1>7. \A k \in 1..N :
        /\ order[k] \in Nat /\ call(k) \in open
        /\ \/ /\ order[k] = 2 * call(k) /\ call(k) \in filled
              /\ ends[k] = Delta(s.opened[call(k)], s.args[call(k)])
           \/ order[k] = 2 * call(k) + 1 /\ ends[k] = Stop(s.opened[call(k)])
  BY <1>3, <1>5
<1>8. \A k \in 1..N : order[k] \in S /\ call(k) = order[k] \div 2
  BY <1>5
<1>9. /\ ends \in [1..N -> Event] /\ DOMAIN ends = 1..N
      /\ \A k \in 1..N : ends[k].index = s.opened[call(k)]
      /\ \A k \in 1..N : \/ /\ order[k] = 2 * call(k) /\ IsDelta(ends[k])
                            /\ ends[k].size = s.args[call(k)]
                         \/ order[k] = 2 * call(k) + 1 /\ IsStop(ends[k])
      /\ \A k \in 1..N : ends[k] \in Event
  <2>1. \A k \in 1..N : s.args[call(k)] \in Nat /\ s.opened[call(k)] \in Nat
                        /\ (call(k) \in filled => s.args[call(k)] > 0)
    BY <1>1, <1>7
  <2> HIDE DEF ends, call, filled
  <2>2. ASSUME NEW k \in 1..N
        PROVE  /\ ends[k] \in Event /\ ends[k].index = s.opened[call(k)]
               /\ \/ /\ order[k] = 2 * call(k) /\ IsDelta(ends[k])
                     /\ ends[k].size = s.args[call(k)]
                  \/ order[k] = 2 * call(k) + 1 /\ IsStop(ends[k])
    <3>1. CASE /\ order[k] = 2 * call(k) /\ call(k) \in filled
               /\ ends[k] = Delta(s.opened[call(k)], s.args[call(k)])
      <4>1. s.args[call(k)] \in Nat \ {0} /\ s.opened[call(k)] \in Nat
        BY <2>1, <3>1
      <4> QED
        BY <3>1, <4>1, BlockEvent
    <3>2. CASE order[k] = 2 * call(k) + 1 /\ ends[k] = Stop(s.opened[call(k)])
      BY <2>1, <3>2, BlockEvent
    <3> QED
      BY <1>7, <3>1, <3>2
  <2>3. \A k \in 1..N : ends[k] \in Event
    BY <2>2
  <2>4. \A k \in 1..N : ends[k].index = s.opened[call(k)]
    BY <2>2
  <2>5. \A k \in 1..N : \/ /\ order[k] = 2 * call(k) /\ IsDelta(ends[k])
                           /\ ends[k].size = s.args[call(k)]
                        \/ order[k] = 2 * call(k) + 1 /\ IsStop(ends[k])
    BY <2>2
  <2>6. DOMAIN ends = 1..N
    BY DEF ends
  <2>7. ends \in [1..N -> Event]
    BY <2>3 DEF ends
  <2> QED
    BY <2>3, <2>4, <2>5, <2>6, <2>7
<1>10. \A t \in open : \E k \in 1..N : call(k) = t /\ order[k] = 2 * t + 1
  BY <1>4, <1>5
<1>11. \A t \in filled : \E k \in 1..N : call(k) = t /\ order[k] = 2 * t
  BY <1>4, <1>5
<1> HIDE DEF ends, call
<1>12. ends \in Seq(Event)
  BY <1>5, <1>9
<1>13. \A m \in 1..N :
         \E t \in Tools : /\ s.opened[t] # NoBlock /\ ends[m].index = s.opened[t]
                          /\ \/ IsStop(ends[m])
                             \/ IsDelta(ends[m]) /\ ends[m].size = s.args[t]
  <2> SUFFICES ASSUME NEW m \in 1..N
               PROVE  \E t \in Tools : /\ s.opened[t] # NoBlock /\ ends[m].index = s.opened[t]
                                       /\ \/ IsStop(ends[m])
                                          \/ IsDelta(ends[m]) /\ ends[m].size = s.args[t]
    OBVIOUS
  <2>1. call(m) \in Tools /\ s.opened[call(m)] # NoBlock
    BY <1>7 DEF open
  <2> QED
    BY <1>9, <2>1
<1>14. \A l, m \in 1..N : l < m /\ ends[l].index = ends[m].index
                            => IsDelta(ends[l]) /\ IsStop(ends[m])
  <2> SUFFICES ASSUME NEW l \in 1..N, NEW m \in 1..N, l < m, ends[l].index = ends[m].index
               PROVE  IsDelta(ends[l]) /\ IsStop(ends[m])
    OBVIOUS
  <2>1. call(l) = call(m)
    <3>1. s.opened[call(l)] = s.opened[call(m)]
      BY <1>9
    <3>2. call(l) \in open /\ call(m) \in open
      BY <1>7
    <3> QED
      BY <3>1, <3>2 DEF open, Distinct
  <2>2. order[l] < order[m]
    BY <1>5
  <2>3. call(m) \in Nat
    BY <1>1, <1>7
  <2> QED
    BY <1>9, <2>1, <2>2, <2>3
<1>15. \A t \in open : \E m \in 1..N : IsStop(ends[m]) /\ ends[m].index = s.opened[t]
  <2> SUFFICES ASSUME NEW t \in open
               PROVE  \E m \in 1..N : IsStop(ends[m]) /\ ends[m].index = s.opened[t]
    OBVIOUS
  <2>1. PICK k \in 1..N : call(k) = t /\ order[k] = 2 * t + 1
    BY <1>10
  <2>2. t \in Nat
    BY <1>1
  <2>3. order[k] # 2 * call(k)
    BY <2>1, <2>2
  <2> QED
    BY <1>9, <2>1, <2>3
<1>16. \A t \in filled : \E m \in 1..N : IsDelta(ends[m]) /\ ends[m].index = s.opened[t]
  <2> SUFFICES ASSUME NEW t \in filled
               PROVE  \E m \in 1..N : IsDelta(ends[m]) /\ ends[m].index = s.opened[t]
    OBVIOUS
  <2>1. PICK k \in 1..N : call(k) = t /\ order[k] = 2 * t
    BY <1>11
  <2>2. t \in Nat
    BY <1>1
  <2>3. order[k] # 2 * call(k) + 1
    BY <2>1, <2>2
  <2> QED
    BY <1>9, <2>1, <2>3
<1>17. \A t \in Tools : s.opened[t] # NoBlock =>
         /\ \E m \in 1..N : IsStop(ends[m]) /\ ends[m].index = s.opened[t]
         /\ s.args[t] > 0 => \E m \in 1..N : IsDelta(ends[m]) /\ ends[m].index = s.opened[t]
  BY <1>15, <1>16 DEF open
<1>18. DOMAIN ends = 1..N
  BY <1>9
<1> QED
  BY SMTT(30), <1>6, <1>12, <1>13, <1>14, <1>17, <1>18

-----------------------------------------------------------------------------
(* The other parts of Link when events are appended.                       *)

\* The end of an open block.
LEMMA StopLink ==
  ASSUME NEW bl, NEW b, NEW n \in Nat, NEW O, NEW es, BlockLink(bl, b, n, O, es), NEW i \in O
  PROVE  BlockLink(bl, b, n, O \ {i}, es \o <<Stop(i)>>)
<1>1. i \in Nat
  BY DEF BlockLink
<1> DEFINE e == Stop(i)
           more == <<e>>
<1>2. e \in Event /\ IsStop(e) /\ ~IsStart(e) /\ e.index = i
  BY <1>1, BlockEvent
<1> HIDE DEF e
<1>3. more \in Seq(Event) /\ DOMAIN more = {1} /\ more[1] = e
  BY <1>2
<1> HIDE DEF more
<1>4. \A m \in DOMAIN more : OfBlock(more[m]) => ~IsStart(more[m]) /\ more[m].index \in O
  BY <1>2, <1>3
<1>5. \A l, m \in DOMAIN more :
        l < m /\ OfBlock(more[l]) /\ OfBlock(more[m]) /\ more[l].index = more[m].index
          => ~IsStop(more[l])
  BY <1>3
<1>6. \A j \in O : j \in O \ {i}
                     <=> \A m \in DOMAIN more : ~(IsStop(more[m]) /\ more[m].index = j)
  BY <1>2, <1>3
<1>7. O \ {i} \subseteq O
  OBVIOUS
<1>8. BlockLink(bl, b, n, O \ {i}, es \o more)
  BY <1>3, <1>4, <1>5, <1>6, <1>7, EndLink
<1> QED
  BY <1>8 DEF more, e

\* Something for an open block.
LEMMA FillLink ==
  ASSUME NEW bl, NEW b, NEW n \in Nat, NEW O, NEW es, BlockLink(bl, b, n, O, es), NEW i \in O,
         NEW k \in Nat \ {0}
  PROVE  BlockLink(bl, b, n, O, es \o <<Delta(i, k)>>)
<1>1. i \in Nat
  BY DEF BlockLink
<1> DEFINE e == Delta(i, k)
           more == <<e>>
<1>2. e \in Event /\ ~IsStop(e) /\ ~IsStart(e) /\ e.index = i
  BY <1>1, BlockEvent
<1> HIDE DEF e
<1>3. more \in Seq(Event) /\ DOMAIN more = {1} /\ more[1] = e
  BY <1>2
<1> HIDE DEF more
<1>4. \A m \in DOMAIN more : OfBlock(more[m]) => ~IsStart(more[m]) /\ more[m].index \in O
  BY <1>2, <1>3
<1>5. \A l, m \in DOMAIN more :
        l < m /\ OfBlock(more[l]) /\ OfBlock(more[m]) /\ more[l].index = more[m].index
          => ~IsStop(more[l])
  BY <1>3
<1>6. \A j \in O : j \in O <=> \A m \in DOMAIN more : ~(IsStop(more[m]) /\ more[m].index = j)
  BY <1>2, <1>3
<1>7. BlockLink(bl, b, n, O, es \o more)
  BY <1>3, <1>4, <1>5, <1>6, EndLink
<1> QED
  BY <1>7 DEF more, e

\* Events of the message alone do not touch the blocks.
LEMMA MessageOnly ==
  ASSUME NEW bl, NEW b, NEW n \in Nat, NEW O, NEW es, BlockLink(bl, b, n, O, es),
         NEW more \in Seq(Event), \A m \in DOMAIN more : ~OfBlock(more[m])
  PROVE  BlockLink(bl, b, n, O, es \o more)
<1>1. \A m \in DOMAIN more : ~IsStop(more[m])
  BY DEF OfBlock
<1> QED
  BY <1>1, EndLink

\* The content comes between the start of the message and its end, so the reason to
\* stop may still change.
LEMMA ContentInMessage ==
  ASSUME NEW ph, NEW rs, NEW r, NEW q, NEW es \in Seq(Event), NEW more \in Seq(Event),
         MessageLink(ph, rs, TRUE, FALSE, r, es), \A m \in DOMAIN more : OfBlock(more[m])
  PROVE  MessageLink(ph, rs, TRUE, FALSE, q, es \o more)
<1> DEFINE t == es \o more
           u == Len(es)
<1>1. /\ t \in Seq(Event) /\ DOMAIN es = 1..u /\ u \in Nat
      /\ \A m \in DOMAIN es : m \in DOMAIN t /\ t[m] = es[m]
      /\ \A m \in DOMAIN t : \/ m \in DOMAIN es
                             \/ m - u \in DOMAIN more /\ t[m] = more[m - u]
  BY Appended
<1>2. es # <<>> => t # <<>> /\ t[1] = es[1]
  BY <1>1
<1> HIDE DEF t, u
<1>3. \A m \in DOMAIN more : more[m].type \notin {"message_start", "message_delta", "message_stop"}
  BY DEF OfBlock, IsStart, IsDelta, IsStop
<1>4. ph \in {"none", "open"} /\ rs = "none"
  BY DEF MessageLink
<1>5. \A m \in DOMAIN es : /\ es[m].type = "message_start" => m = 1 /\ ph = "none"
                           /\ es[m].type \notin {"message_delta", "message_stop"}
  BY DEF MessageLink
<1>6. \A m \in DOMAIN t : /\ t[m].type = "message_start" => m = 1 /\ ph = "none"
                          /\ t[m].type \notin {"message_delta", "message_stop"}
  BY <1>1, <1>3, <1>5
<1>7. ph # "none" \/ (t # <<>> /\ t[1].type = "message_start")
  BY <1>2 DEF MessageLink
<1>8. MessageLink(ph, rs, TRUE, FALSE, q, t)
  BY <1>4, <1>6, <1>7 DEF MessageLink
<1> QED
  BY <1>8 DEF t

\* The message is started once.
LEMMA StartOfMessage ==
  ASSUME NEW ph, NEW rs, NEW r, NEW q, MessageLink(ph, rs, FALSE, FALSE, r, <<>>)
  PROVE  MessageLink(ph, rs, TRUE, FALSE, q, <<[type |-> "message_start"]>>)
<1>1. ph = "none" /\ rs = "none"
  BY DEF MessageLink
<1> DEFINE e == [type |-> "message_start"]
           t == <<e>>
<1>2. t # <<>> /\ DOMAIN t = {1} /\ t[1] = e /\ e.type = "message_start"
  OBVIOUS
<1>3. ~OfBlock(e)
  BY DEF OfBlock, IsStart, IsDelta, IsStop
<1> HIDE DEF t, e
<1>4. MessageLink(ph, rs, TRUE, FALSE, q, t)
  BY <1>1, <1>2, <1>3 DEF MessageLink
<1> QED
  BY <1>4 DEF t, e

\* The end of the message is converted once, after all content, with the reason to stop.
LEMMA EndOfMessage ==
  ASSUME NEW ph, NEW rs, NEW st \in BOOLEAN, NEW r \in Reasons, NEW es \in Seq(Event),
         MessageLink(ph, rs, st, FALSE, r, es)
  PROVE  MessageLink(ph, rs, st, TRUE, r,
           es \o <<[type |-> "message_delta", reason |-> r], [type |-> "message_stop"]>>)
<1> DEFINE d == [type |-> "message_delta", reason |-> r]
           e == [type |-> "message_stop"]
           more == <<d, e>>
           t == es \o more
           u == Len(es)
<1>1. /\ u \in Nat /\ DOMAIN es = 1..u /\ Len(t) = u + 2 /\ DOMAIN t = 1..(u + 2)
      /\ \A m \in DOMAIN es : m \in DOMAIN t /\ t[m] = es[m]
      /\ t[u + 1] = d /\ t[u + 2] = e
      /\ \A m \in DOMAIN t : m \in DOMAIN es \/ m = u + 1 \/ m = u + 2
  OBVIOUS
<1>2. t # <<>> /\ (es # <<>> => t[1] = es[1])
  OBVIOUS
<1>3. /\ d.type = "message_delta" /\ d.reason = r /\ e.type = "message_stop"
      /\ ~OfBlock(d) /\ ~OfBlock(e)
  BY DEF OfBlock, IsStart, IsDelta, IsStop
<1> HIDE DEF t, u, d, e
<1>4. ph \in {"none", "open"} /\ rs = "none" /\ (ph = "open" => st)
  BY DEF MessageLink
<1>5. \A m \in DOMAIN es : /\ es[m].type = "message_start" => m = 1 /\ ph = "none" /\ st
                           /\ OfBlock(es[m]) => st
                           /\ es[m].type \notin {"message_delta", "message_stop"}
  BY DEF MessageLink
<1>6. \A m \in DOMAIN t : /\ t[m].type = "message_start" => m = 1 /\ ph = "none" /\ st
                          /\ OfBlock(t[m]) => st
                          /\ t[m].type = "message_stop" => m = u + 2
                          /\ t[m].type = "message_delta" => t[m].reason = r /\ m = u + 1
  BY <1>1, <1>3, <1>5
<1>7. st => ph # "none" \/ (t # <<>> /\ t[1].type = "message_start")
  BY <1>2 DEF MessageLink
<1>8. /\ Len(t) > 1 /\ t[Len(t)].type = "message_stop" /\ t[Len(t) - 1].type = "message_delta"
      /\ u + 2 = Len(t) /\ u + 1 = Len(t) - 1
  BY <1>1, <1>3
<1>9. MessageLink(ph, rs, st, TRUE, r, t)
  BY <1>2, <1>4, <1>6, <1>7, <1>8 DEF MessageLink
<1> QED
  BY <1>9 DEF t, d, e

\* Events that start no tool block, whatever else the converter's state becomes.
LEMMA NoToolStarted ==
  ASSUME NEW bl, NEW b, NEW s, NEW u, NEW es \in Seq(Event), NEW more \in Seq(Event),
         ToolLink(bl, b, s, es), u.opened = s.opened, s.sawTool => u.sawTool,
         \A m \in DOMAIN more : IsStart(more[m]) => more[m].kind.kind # "tool"
  PROVE  ToolLink(bl, b, u, es \o more)
<1> DEFINE t == es \o more
<1>1. /\ \A m \in DOMAIN es : m \in DOMAIN t /\ t[m] = es[m]
      /\ \A m \in DOMAIN t : \/ m \in DOMAIN es
                             \/ m - Len(es) \in DOMAIN more /\ t[m] = more[m - Len(es)]
  BY Appended
<1> HIDE DEF t
<1>2. \A m \in DOMAIN t : IsStart(t[m]) /\ t[m].kind.kind = "tool" =>
        u.sawTool /\ u.opened[t[m].kind.tool] = t[m].index
  BY <1>1 DEF ToolLink
<1>3. \A i \in 0..(b - 1) : bl[i].kind.kind = "tool" =>
        u.sawTool /\ u.opened[bl[i].kind.tool] = i
  BY DEF ToolLink
<1>4. ToolLink(bl, b, u, t)
  BY <1>2, <1>3 DEF ToolLink
<1> QED
  BY <1>4 DEF t

\* A tool call is started.
LEMMA ToolStarted ==
  ASSUME NEW bl, NEW b \in Nat, bl \in [0..(b - 1) -> BlockType],
         NEW s, s.opened \in [Tools -> BlockNo], NEW es \in Seq(Event),
         ToolLink(bl, b, s, es), NEW c \in Tools, s.opened[c] = NoBlock, NEW n \in Nat,
         NEW u, u.opened = [s.opened EXCEPT ![c] = n], u.sawTool
  PROVE  ToolLink(bl, b, u, es \o <<Start(n, Kind("tool", c))>>)
<1> DEFINE e == Start(n, Kind("tool", c))
           more == <<e>>
           t == es \o more
<1>1. e \in Event /\ IsStart(e) /\ e.index = n /\ e.kind.kind = "tool" /\ e.kind.tool = c
  <2>1. Kind("tool", c) \in Kinds /\ Kind("tool", c).kind = "tool" /\ Kind("tool", c).tool = c
    BY DEF Kinds, Kind
  <2> QED
    BY <2>1, BlockEvent
<1> HIDE DEF e
<1>2. more \in Seq(Event) /\ DOMAIN more = {1} /\ more[1] = e
  BY <1>1
<1> HIDE DEF more
<1>3. /\ \A m \in DOMAIN es : m \in DOMAIN t /\ t[m] = es[m] /\ es[m] \in Event
      /\ \A m \in DOMAIN t : m \in DOMAIN es \/ t[m] = e
  <2>1. /\ \A m \in DOMAIN es : m \in DOMAIN t /\ t[m] = es[m]
        /\ \A m \in DOMAIN t : \/ m \in DOMAIN es
                               \/ m - Len(es) \in DOMAIN more /\ t[m] = more[m - Len(es)]
    BY <1>2, Appended
  <2>2. \A m \in DOMAIN es : es[m] \in Event
    OBVIOUS
  <2> QED
    BY <1>2, <2>1, <2>2
<1> HIDE DEF t
<1>4. \A k \in Kinds : k.kind = "tool" => k.tool \in Tools
  BY DEF Kinds, Kind
<1>5. \A m \in DOMAIN es : IsStart(es[m]) => es[m].index \in Nat /\ es[m].kind \in Kinds
  BY <1>3 DEF Event, IsStart
<1>6. \A x \in Tools : s.opened[x] # NoBlock => u.opened[x] = s.opened[x]
  OBVIOUS
<1>7. \A m \in DOMAIN t : IsStart(t[m]) /\ t[m].kind.kind = "tool" =>
        u.sawTool /\ u.opened[t[m].kind.tool] = t[m].index
  <2> SUFFICES ASSUME NEW m \in DOMAIN t, IsStart(t[m]), t[m].kind.kind = "tool"
               PROVE  u.opened[t[m].kind.tool] = t[m].index
    OBVIOUS
  <2>1. CASE m \in DOMAIN es
    <3>1. t[m] = es[m] /\ es[m].index \in Nat /\ es[m].kind.tool \in Tools
      BY <1>3, <1>4, <1>5, <2>1
    <3>2. s.opened[es[m].kind.tool] = es[m].index
      BY <2>1, <3>1 DEF ToolLink
    <3> QED
      BY <1>6, <3>1, <3>2 DEF NoBlock
  <2>2. CASE t[m] = e
    BY <1>1, <2>2
  <2> QED
    BY <1>3, <2>1, <2>2
<1>8. \A i \in 0..(b - 1) : bl[i].kind.kind = "tool" =>
        u.sawTool /\ u.opened[bl[i].kind.tool] = i
  <2> SUFFICES ASSUME NEW i \in 0..(b - 1), bl[i].kind.kind = "tool"
               PROVE  u.opened[bl[i].kind.tool] = i
    OBVIOUS
  <2>1. bl[i].kind.tool \in Tools /\ i # NoBlock
    BY <1>4 DEF BlockType, NoBlock
  <2>2. s.opened[bl[i].kind.tool] = i
    BY DEF ToolLink
  <2> QED
    BY <1>6, <2>1, <2>2
<1>9. ToolLink(bl, b, u, t)
  BY <1>7, <1>8 DEF ToolLink
<1> QED
  BY <1>9 DEF t, more, e

\* What block i gets is left as it is by events that bring it nothing.
LEMMA FillsStays ==
  ASSUME NEW bl, NEW b, NEW i, NEW n, NEW es \in Seq(Event), Fills(bl, b, i, n, es),
         NEW more \in Seq(Event),
         \A m \in DOMAIN more : ~(IsDelta(more[m]) /\ more[m].index = i)
  PROVE  Fills(bl, b, i, n, es \o more)
<1> DEFINE t == es \o more
           deltas == {m \in DOMAIN es : IsDelta(es[m]) /\ es[m].index = i}
           later == {m \in DOMAIN t : IsDelta(t[m]) /\ t[m].index = i}
<1>1. /\ \A m \in DOMAIN es : m \in DOMAIN t /\ t[m] = es[m]
      /\ \A m \in DOMAIN t : \/ m \in DOMAIN es
                             \/ m - Len(es) \in DOMAIN more /\ t[m] = more[m - Len(es)]
  BY Appended
<1> HIDE DEF t
<1>2. later = deltas /\ \A m \in deltas : t[m] = es[m]
  BY <1>1
<1>3. Fills(bl, b, i, n, t)
  BY <1>2 DEF Fills
<1> QED
  BY <1>3 DEF t

\* An empty block gets n.
LEMMA FillsNow ==
  ASSUME NEW bl, NEW b, NEW i, NEW n, NEW es \in Seq(Event), Fills(bl, b, i, 0, es),
         NEW more \in Seq(Event), NEW m \in DOMAIN more,
         IsDelta(more[m]), more[m].index = i, more[m].size = n,
         \A l \in DOMAIN more : IsDelta(more[l]) /\ more[l].index = i => l = m
  PROVE  Fills(bl, b, i, n, es \o more)
<1> DEFINE t == es \o more
           u == Len(es)
           later == {l \in DOMAIN t : IsDelta(t[l]) /\ t[l].index = i}
<1>1. (IF i < b THEN bl[i].size ELSE 0) = 0
      /\ \A l \in DOMAIN es : ~(IsDelta(es[l]) /\ es[l].index = i)
  <2>1. \A l \in DOMAIN es : IsDelta(es[l]) => es[l].size # 0
    <3>1. \A e \in Event : IsDelta(e) => e.size # 0
      BY DEF Event, IsDelta
    <3> QED
      BY <3>1
  <2> QED
    BY <2>1 DEF Fills
<1>2. /\ \A l \in DOMAIN es : l \in DOMAIN t /\ t[l] = es[l]
      /\ u + m \in DOMAIN t /\ t[u + m] = more[m]
      /\ \A l \in DOMAIN t : \/ l \in DOMAIN es
                             \/ l - u \in DOMAIN more /\ t[l] = more[l - u]
      /\ DOMAIN t = 1..(u + Len(more)) /\ u \in Nat /\ m \in Nat
  <2>1. DOMAIN t = 1..(u + Len(more)) /\ u \in Nat /\ m \in Nat
    OBVIOUS
  <2> QED
    BY <2>1, Appended
<1> HIDE DEF t, u
<1>3. later = {u + m}
  <2>1. u + m \in later
    BY <1>2
  <2>2. ASSUME NEW l \in later PROVE l = u + m
    <3>1. l - u \in DOMAIN more /\ t[l] = more[l - u]
      BY <1>1, <1>2
    <3>2. l - u = m
      BY <3>1
    <3> QED
      BY <1>2, <3>2
  <2> QED
    BY <2>1, <2>2
<1>4. t[u + m].size = n
  BY <1>2
<1> HIDE DEF later
<1>5. Fills(bl, b, i, n, t)
  BY <1>1, <1>3, <1>4 DEF Fills, later
<1> QED
  BY <1>5 DEF t

\* A block that is not mentioned yet is empty.
LEMMA FillsNothing ==
  ASSUME NEW bl, NEW b \in Nat, NEW i \in Nat, ~(i < b), NEW es \in Seq(Event),
         \A m \in DOMAIN es : OfBlock(es[m]) => es[m].index # i
  PROVE  Fills(bl, b, i, 0, es)
<1>1. {m \in DOMAIN es : IsDelta(es[m]) /\ es[m].index = i} = {}
  BY DEF OfBlock
<1> QED
  BY <1>1 DEF Fills

-----------------------------------------------------------------------------
(* The conversion keeps the link: its events so far are those on their way. *)

Converting(bl, b, ph, rs, s) == ConvOK(s) /\ Link(bl, b, ph, rs, s, s.events)

\* What all of the content leaves alone, and what only tool calls and new blocks change.
Kept(s, u) ==
  /\ u.started = s.started /\ u.finish = s.finish /\ u.closed = s.closed
  /\ u.deltaSent = s.deltaSent /\ u.stopSent = s.stopSent

Same(s, u) ==
  /\ Kept(s, u)
  /\ u.args = s.args /\ u.opened = s.opened /\ u.sawTool = s.sawTool

\* The converter's state.
LEMMA ConvFields ==
  ASSUME NEW s \in ConvType
  PROVE  /\ s.text \in Nat \cup {NoBlock} /\ s.thinking \in Nat \cup {NoBlock}
         /\ s.next \in Nat
         /\ s.opened \in [Tools -> BlockNo] /\ s.args \in [Tools -> Nat]
         /\ s.started \in BOOLEAN /\ s.closed \in BOOLEAN /\ s.sawTool \in BOOLEAN
         /\ s.deltaSent \in BOOLEAN /\ s.stopSent \in BOOLEAN
         /\ s.finish \in {"", "stop", "length", "tool_calls"}
         /\ s.events \in Seq(Event)
  BY DEF ConvType, BlockNo

\* Content that keeps the blocks in order keeps the message in order.
LEMMA ContentLink ==
  ASSUME NEW bl, NEW b, NEW ph, NEW rs, NEW s, NEW u, NEW more \in Seq(Event),
         Converting(bl, b, ph, rs, s), ~s.closed, s.started, Kept(s, u), ConvOK(u),
         u.events = s.events \o more, \A m \in DOMAIN more : OfBlock(more[m]),
         BlockLink(bl, b, u.next, Open(u), u.events),
         ToolLink(bl, b, u, u.events), ArgsLink(bl, b, u, u.events)
  PROVE  Converting(bl, b, ph, rs, u)
<1>1. /\ s.events \in Seq(Event) /\ s.stopSent = FALSE /\ s.started = TRUE
      /\ u.stopSent = FALSE /\ u.started = TRUE
  BY ConvFields DEF Converting, ConvOK, Kept
<1>2. MessageLink(ph, rs, TRUE, FALSE, StopReason(s), s.events)
  BY <1>1 DEF Converting, Link
<1>3. MessageLink(ph, rs, TRUE, FALSE, StopReason(u), u.events)
  BY <1>1, <1>2, ContentInMessage
<1> QED
  BY <1>1, <1>3 DEF Converting, Link

\* The tool calls' blocks get nothing from events of other blocks.
LEMMA ArgsStay ==
  ASSUME NEW bl, NEW b, NEW s, NEW u, NEW es \in Seq(Event), NEW more \in Seq(Event),
         ArgsLink(bl, b, s, es), u.opened = s.opened, u.closed = s.closed, u.args = s.args,
         \A t \in Tools, m \in DOMAIN more :
           s.opened[t] # NoBlock => ~(IsDelta(more[m]) /\ more[m].index = s.opened[t])
  PROVE  ArgsLink(bl, b, u, es \o more)
<1> SUFFICES ASSUME NEW t \in Tools, s.opened[t] # NoBlock
             PROVE  Fills(bl, b, s.opened[t], IF s.closed THEN s.args[t] ELSE 0, es \o more)
  BY DEF ArgsLink
<1> DEFINE n == IF s.closed THEN s.args[t] ELSE 0
           i == s.opened[t]
<1>1. Fills(bl, b, i, n, es)
  BY DEF ArgsLink
<1>2. \A m \in DOMAIN more : ~(IsDelta(more[m]) /\ more[m].index = i)
  OBVIOUS
<1> HIDE DEF n, i
<1>3. Fills(bl, b, i, n, es \o more)
  BY <1>1, <1>2, FillsStays
<1> QED
  BY <1>3 DEF n, i

\* The current text or reasoning block ends.
LEMMA TextStopped ==
  ASSUME NEW bl, NEW b, NEW ph, NEW rs, NEW s, Converting(bl, b, ph, rs, s), ~s.closed,
         NEW i \in {s.text, s.thinking} \ {NoBlock}, NEW u \in ConvType,
         u.events = s.events \o <<Stop(i)>>, u.text = NoBlock, u.thinking = NoBlock,
         u.next = s.next, Same(s, u)
  PROVE  Converting(bl, b, ph, rs, u)
<1> DEFINE more == <<Stop(i)>>
<1>1. /\ s.events \in Seq(Event) /\ s.next \in Nat /\ i \in 0..(s.next - 1)
      /\ s.opened \in [Tools -> BlockNo]
  BY ConvFields DEF Converting, ConvOK, Distinct
<1>2. s.started /\ i \in Nat
  <2>1. s.next # 0 /\ i \in Nat
    BY <1>1
  <2>2. s.started
    BY <2>1 DEF Converting, ConvOK
  <2> QED
    BY <2>1, <2>2
<1>3. more \in Seq(Event) /\ DOMAIN more = {1} /\ more[1] = Stop(i)
  BY <1>2, BlockEvent
<1>4. /\ \A m \in DOMAIN more : OfBlock(more[m]) /\ ~IsStart(more[m]) /\ ~IsDelta(more[m])
  BY <1>2, <1>3, BlockEvent DEF OfBlock
<1>5. Open(u) = Open(s) \ {i} /\ i \in Open(s)
  <2>1. {s.text, s.thinking} = {i, NoBlock} /\ i # NoBlock
    BY DEF Converting, ConvOK, Distinct
  <2>2. \A t \in Tools : s.opened[t] # i
    BY <2>1 DEF Converting, ConvOK, Distinct
  <2> QED
    BY <2>1, <2>2 DEF Open, Same, Kept
<1>6. BlockLink(bl, b, u.next, Open(u), u.events)
  BY <1>1, <1>5, StopLink DEF Converting, Link
<1>7. /\ u.events = s.events \o more
      /\ ToolLink(bl, b, s, s.events) /\ ArgsLink(bl, b, s, s.events)
      /\ u.opened = s.opened /\ u.closed = s.closed /\ u.args = s.args
      /\ u.sawTool = s.sawTool
  BY DEF Converting, Link, Same, Kept
<1> HIDE DEF more
<1>8. ToolLink(bl, b, u, u.events)
  BY <1>7, <1>1, <1>3, <1>4, NoToolStarted
<1>9. ArgsLink(bl, b, u, u.events)
  BY <1>7, <1>1, <1>3, <1>4, ArgsStay
<1>10. ConvOK(u)
  <2>1. Distinct(u)
    BY DEF Converting, ConvOK, Distinct, Same
  <2> QED
    BY <1>2, <2>1 DEF Converting, ConvOK, Same, Kept
<1> QED
  BY <1>2, <1>3, <1>4, <1>6, <1>8, <1>9, <1>10, ContentLink DEF Same, more

\* A text or reasoning block starts.
LEMMA TextStarted ==
  ASSUME NEW bl, NEW b, NEW ph, NEW rs, NEW s, Converting(bl, b, ph, rs, s), ~s.closed,
         s.started, s.text = NoBlock, s.thinking = NoBlock, NEW k \in Kinds, k.kind # "tool",
         NEW u \in ConvType, u.events = s.events \o <<Start(s.next, k)>>,
         {u.text, u.thinking} = {NoBlock, s.next}, u.next = s.next + 1, Same(s, u)
  PROVE  Converting(bl, b, ph, rs, u)
<1> DEFINE more == <<Start(s.next, k)>>
<1>1. s.events \in Seq(Event) /\ s.next \in Nat /\ s.opened \in [Tools -> BlockNo]
  BY ConvFields DEF Converting, ConvOK
<1>2. more \in Seq(Event) /\ DOMAIN more = {1} /\ more[1] = Start(s.next, k)
  BY <1>1, BlockEvent
<1>3. /\ \A m \in DOMAIN more : OfBlock(more[m]) /\ ~IsDelta(more[m])
      /\ \A m \in DOMAIN more : more[m].kind.kind # "tool"
  BY <1>1, <1>2, BlockEvent DEF OfBlock
<1>4. Open(u) = Open(s) \cup {s.next}
  <2>1. s.next # NoBlock
    BY <1>1 DEF NoBlock
  <2> QED
    BY ZenonT(60), <2>1 DEF Open, Same, Kept
<1>5. BlockLink(bl, b, u.next, Open(u), u.events)
  BY <1>1, <1>4, StartLink DEF Converting, Link
<1>6. /\ u.events = s.events \o more
      /\ ToolLink(bl, b, s, s.events) /\ ArgsLink(bl, b, s, s.events)
      /\ u.opened = s.opened /\ u.closed = s.closed /\ u.args = s.args
      /\ u.sawTool = s.sawTool
  BY DEF Converting, Link, Same, Kept
<1> HIDE DEF more
<1>7. ToolLink(bl, b, u, u.events)
  BY <1>6, <1>1, <1>2, <1>3, NoToolStarted
<1>8. ArgsLink(bl, b, u, u.events)
  BY <1>6, <1>1, <1>2, <1>3, ArgsStay
<1>9. ConvOK(u)
  <2>1. Distinct(u)
    <3>1. s.next \in 0..(u.next - 1) /\ \A j \in 0..(s.next - 1) :
            j \in 0..(u.next - 1) /\ j # s.next /\ j # NoBlock
      BY <1>1 DEF NoBlock
    <3>2. {u.text, u.thinking} \subseteq {NoBlock} \cup 0..(u.next - 1)
      BY <3>1
    <3>3. \A t \in Tools : u.opened[t] # NoBlock =>
            /\ u.opened[t] \in 0..(u.next - 1) \ {u.text, u.thinking}
            /\ \A x \in Tools \ {t} : u.opened[x] # u.opened[t]
      BY ZenonT(60), <3>1 DEF Converting, ConvOK, Distinct, Same
    <3> QED
      BY <3>2, <3>3 DEF Distinct
  <2> QED
    BY <2>1 DEF Converting, ConvOK, Same, Kept
<1> QED
  BY <1>2, <1>3, <1>5, <1>7, <1>8, <1>9, ContentLink DEF Same, more

\* The current text or reasoning block gets some of it.
LEMMA TextFilled ==
  ASSUME NEW bl, NEW b, NEW ph, NEW rs, NEW s, Converting(bl, b, ph, rs, s), ~s.closed,
         NEW i \in {s.text, s.thinking} \ {NoBlock}, NEW u \in ConvType,
         u.events = s.events \o <<Delta(i, 1)>>, u.text = s.text, u.thinking = s.thinking,
         u.next = s.next, Same(s, u)
  PROVE  Converting(bl, b, ph, rs, u)
<1> DEFINE more == <<Delta(i, 1)>>
<1>1. /\ s.events \in Seq(Event) /\ s.next \in Nat /\ i \in 0..(s.next - 1)
      /\ s.opened \in [Tools -> BlockNo]
  BY ConvFields DEF Converting, ConvOK, Distinct
<1>2. s.started /\ i \in Nat /\ 1 \in Nat \ {0}
  <2>1. s.next # 0 /\ i \in Nat
    BY <1>1
  <2>2. s.started
    BY <2>1 DEF Converting, ConvOK
  <2> QED
    BY <2>1, <2>2
<1>3. more \in Seq(Event) /\ DOMAIN more = {1} /\ more[1] = Delta(i, 1)
  BY <1>2, BlockEvent
<1>4. /\ \A m \in DOMAIN more : OfBlock(more[m]) /\ ~IsStart(more[m])
      /\ \A m \in DOMAIN more : more[m].index = i
  BY <1>2, <1>3, BlockEvent DEF OfBlock
<1>5. Open(u) = Open(s) /\ i \in Open(s)
  BY DEF Open, Same, Kept
<1>6. BlockLink(bl, b, u.next, Open(u), u.events)
  BY <1>1, <1>2, <1>5, FillLink DEF Converting, Link
<1>7. /\ u.events = s.events \o more
      /\ ToolLink(bl, b, s, s.events) /\ ArgsLink(bl, b, s, s.events)
      /\ u.opened = s.opened /\ u.closed = s.closed /\ u.args = s.args
      /\ u.sawTool = s.sawTool
  BY DEF Converting, Link, Same, Kept
<1> HIDE DEF more
<1>8. ToolLink(bl, b, u, u.events)
  BY <1>7, <1>1, <1>3, <1>4, NoToolStarted
<1>9. ArgsLink(bl, b, u, u.events)
  <2>1. \A t \in Tools : s.opened[t] # NoBlock => s.opened[t] # i
    BY DEF Converting, ConvOK, Distinct
  <2> QED
    BY <1>7, <1>1, <1>3, <1>4, <2>1, ArgsStay
<1>10. ConvOK(u)
  <2>1. Distinct(u)
    BY DEF Converting, ConvOK, Distinct, Same
  <2> QED
    BY <1>2, <2>1 DEF Converting, ConvOK, Same, Kept
<1> QED
  BY <1>2, <1>3, <1>4, <1>6, <1>8, <1>9, <1>10, ContentLink DEF Same, more

\* StopThinking and StopText.
LEMMA StopThinkingLink ==
  ASSUME NEW bl, NEW b, NEW ph, NEW rs, NEW s, Converting(bl, b, ph, rs, s), ~s.closed
  PROVE  /\ Converting(bl, b, ph, rs, StopThinking(s)) /\ Same(s, StopThinking(s))
         /\ StopThinking(s).thinking = NoBlock /\ StopThinking(s).text = s.text
<1>1. s \in ConvType /\ NoBlock \in {s.text, s.thinking}
  BY DEF Converting, ConvOK, Distinct
<1>2. CASE s.thinking = NoBlock
  BY <1>2 DEF StopThinking, Same, Kept
<1>3. CASE s.thinking # NoBlock
  <2> DEFINE u == StopThinking(s)
  <2>1. /\ u = [s EXCEPT !.events = @ \o <<Stop(s.thinking)>>, !.thinking = NoBlock]
        /\ s.thinking \in Nat /\ s.text = NoBlock
    BY <1>1, <1>3, ConvFields DEF StopThinking, Emit, ConvType
  <2>2. s.events \o <<Stop(s.thinking)>> \in Seq(Event)
    <3>1. s.events \in Seq(Event) /\ Stop(s.thinking) \in Event
      BY <1>1, <2>1, BlockEvent, ConvFields
    <3> QED
      BY <3>1
  <2> HIDE DEF u
  <2>3. /\ u \in ConvType /\ u.events = s.events \o <<Stop(s.thinking)>>
        /\ u.thinking = NoBlock /\ u.text = NoBlock
    BY <1>1, <2>1, <2>2 DEF ConvType, BlockNo
  <2>4. u.next = s.next /\ Same(s, u)
    BY <1>1, <2>1 DEF ConvType, Same, Kept
  <2>5. Converting(bl, b, ph, rs, u)
    BY <1>3, <2>3, <2>4, TextStopped
  <2> QED
    BY <2>1, <2>3, <2>4, <2>5 DEF u
<1> QED
  BY <1>2, <1>3

\* The text block is closed.
LEMMA StopTextLink ==
  ASSUME NEW bl, NEW b, NEW ph, NEW rs, NEW s, Converting(bl, b, ph, rs, s), ~s.closed
  PROVE  /\ Converting(bl, b, ph, rs, StopText(s)) /\ Same(s, StopText(s))
         /\ StopText(s).text = NoBlock /\ StopText(s).thinking = s.thinking
<1>1. s \in ConvType /\ NoBlock \in {s.text, s.thinking}
  BY DEF Converting, ConvOK, Distinct
<1>2. CASE s.text = NoBlock
  BY <1>2 DEF StopText, Same, Kept
<1>3. CASE s.text # NoBlock
  <2> DEFINE u == StopText(s)
  <2>1. /\ u = [s EXCEPT !.events = @ \o <<Stop(s.text)>>, !.text = NoBlock]
        /\ s.text \in Nat /\ s.thinking = NoBlock
    BY <1>1, <1>3, ConvFields DEF StopText, Emit, ConvType
  <2>2. s.events \o <<Stop(s.text)>> \in Seq(Event)
    <3>1. s.events \in Seq(Event) /\ Stop(s.text) \in Event
      BY <1>1, <2>1, BlockEvent, ConvFields
    <3> QED
      BY <3>1
  <2> HIDE DEF u
  <2>3. /\ u \in ConvType /\ u.events = s.events \o <<Stop(s.text)>>
        /\ u.thinking = NoBlock /\ u.text = NoBlock
    BY <1>1, <2>1, <2>2 DEF ConvType, BlockNo
  <2>4. u.next = s.next /\ Same(s, u)
    BY <1>1, <2>1 DEF ConvType, Same, Kept
  <2>5. Converting(bl, b, ph, rs, u)
    BY <1>3, <2>3, <2>4, TextStopped
  <2> QED
    BY <2>1, <2>3, <2>4, <2>5 DEF u
<1> QED
  BY <1>2, <1>3

\* A reasoning text.
LEMMA ThinkingLink ==
  ASSUME NEW bl, NEW b, NEW ph, NEW rs, NEW s, Converting(bl, b, ph, rs, s),
         ~s.closed, s.started
  PROVE  Converting(bl, b, ph, rs, Thinking(s)) /\ Same(s, Thinking(s))
<1> DEFINE s1 == StopText(s)
           k == Kind("thinking", NoTool)
           s2 == IF s1.thinking # NoBlock THEN s1
                 ELSE [Emit(s1, <<Start(s1.next, k)>>)
                         EXCEPT !.thinking = s1.next, !.next = @ + 1]
           s3 == Emit(s2, <<Delta(s2.thinking, 1)>>)
<1>1. /\ Converting(bl, b, ph, rs, s1) /\ Same(s, s1) /\ s1.text = NoBlock
      /\ ~s1.closed /\ s1.started
  <2>1. Converting(bl, b, ph, rs, s1) /\ Same(s, s1) /\ s1.text = NoBlock
    BY StopTextLink
  <2> QED
    BY <2>1 DEF Same, Kept
<1>2. k \in Kinds /\ k.kind # "tool"
  BY DEF Kinds, Kind
<1> HIDE DEF s1, k
<1>3. Converting(bl, b, ph, rs, s2) /\ Same(s1, s2) /\ s2.text = NoBlock /\ s2.thinking # NoBlock
  <2>1. CASE s1.thinking # NoBlock
    BY <1>1, <2>1 DEF Same, Kept
  <2>2. CASE s1.thinking = NoBlock
    <3>1. s1 \in ConvType /\ s1.next \in Nat /\ s1.events \in Seq(Event)
      BY <1>1, ConvFields DEF Converting, ConvOK
    <3>2. s2 = [s1 EXCEPT !.events = @ \o <<Start(s1.next, k)>>,
                          !.thinking = s1.next, !.next = @ + 1]
      BY <2>2, <3>1 DEF Emit, ConvType
    <3>3. s1.events \o <<Start(s1.next, k)>> \in Seq(Event)
      BY <1>2, <3>1, BlockEvent
    <3> HIDE DEF s2
    <3>4. /\ s2 \in ConvType /\ s2.events = s1.events \o <<Start(s1.next, k)>>
          /\ s2.text = s1.text /\ s2.thinking = s1.next /\ s2.next = s1.next + 1
      <4> DEFINE es == s1.events \o <<Start(s1.next, k)>>
      <4>1. es \in Seq(Event) /\ s1.next \in BlockNo /\ s1.next + 1 \in Nat
        BY <3>1, <3>3 DEF BlockNo
      <4>2. s2 = [s1 EXCEPT !.events = es, !.thinking = s1.next, !.next = s1.next + 1]
        BY <3>1, <3>2
      <4> HIDE DEF es
      <4>3. s2 \in ConvType
        BY <3>1, <4>1, <4>2 DEF ConvType
      <4>4. s2.events = es /\ s2.text = s1.text /\ s2.thinking = s1.next /\ s2.next = s1.next + 1
        BY <3>1, <4>2 DEF ConvType
      <4> QED
        BY <4>3, <4>4 DEF es
    <3>5. Same(s1, s2) /\ s2.thinking # NoBlock
      <4>1. s2.thinking # NoBlock
        BY <3>1, <3>4 DEF NoBlock
      <4>2. Same(s1, s2)
        BY <3>1, <3>2 DEF ConvType, Same, Kept
      <4> QED
        BY <4>1, <4>2
    <3>6. {s2.text, s2.thinking} = {NoBlock, s1.next}
      BY <1>1, <3>4
    <3>7. Converting(bl, b, ph, rs, s2)
      BY <1>1, <1>2, <2>2, <3>4, <3>5, <3>6, TextStarted
    <3> QED
      BY <1>1, <3>4, <3>5, <3>7
  <2> QED
    BY <2>1, <2>2
<1> HIDE DEF s2
<1>4. Converting(bl, b, ph, rs, s3) /\ Same(s2, s3)
  <2>1. s2 \in ConvType /\ s2.thinking \in Nat /\ s2.events \in Seq(Event) /\ ~s2.closed
    BY <1>1, <1>3, ConvFields DEF Converting, ConvOK, Same, Kept
  <2>2. s2.events \o <<Delta(s2.thinking, 1)>> \in Seq(Event)
    BY <2>1, BlockEvent
  <2>3. /\ s3 \in ConvType /\ s3.events = s2.events \o <<Delta(s2.thinking, 1)>>
        /\ s3.text = s2.text /\ s3.thinking = s2.thinking /\ s3.next = s2.next
    BY <2>1, <2>2 DEF Emit, ConvType
  <2>4. Same(s2, s3)
    BY <2>1 DEF Emit, ConvType, Same, Kept
  <2> HIDE DEF s3
  <2>5. s2.thinking \in {s2.text, s2.thinking} \ {NoBlock}
    BY <1>3
  <2> QED
    BY <1>3, <2>1, <2>3, <2>4, <2>5, TextFilled
<1> HIDE DEF s3
<1>5. Same(s, s3)
  BY <1>1, <1>3, <1>4 DEF Same, Kept
<1>6. Thinking(s) = s3
  BY DEF Thinking, s3, s2, s1, k
<1> QED
  BY <1>4, <1>5, <1>6

\* A text.
LEMMA TextLink ==
  ASSUME NEW bl, NEW b, NEW ph, NEW rs, NEW s, Converting(bl, b, ph, rs, s),
         ~s.closed, s.started
  PROVE  Converting(bl, b, ph, rs, Text(s)) /\ Same(s, Text(s))
<1> DEFINE s1 == StopThinking(s)
           k == Kind("text", NoTool)
           s2 == IF s1.text # NoBlock THEN s1
                 ELSE [Emit(s1, <<Start(s1.next, k)>>)
                         EXCEPT !.text = s1.next, !.next = @ + 1]
           s3 == Emit(s2, <<Delta(s2.text, 1)>>)
<1>1. /\ Converting(bl, b, ph, rs, s1) /\ Same(s, s1) /\ s1.thinking = NoBlock
      /\ ~s1.closed /\ s1.started
  <2>1. Converting(bl, b, ph, rs, s1) /\ Same(s, s1) /\ s1.thinking = NoBlock
    BY StopThinkingLink
  <2> QED
    BY <2>1 DEF Same, Kept
<1>2. k \in Kinds /\ k.kind # "tool"
  BY DEF Kinds, Kind
<1> HIDE DEF s1, k
<1>3. Converting(bl, b, ph, rs, s2) /\ Same(s1, s2) /\ s2.thinking = NoBlock /\ s2.text # NoBlock
  <2>1. CASE s1.text # NoBlock
    BY <1>1, <2>1 DEF Same, Kept
  <2>2. CASE s1.text = NoBlock
    <3>1. s1 \in ConvType /\ s1.next \in Nat /\ s1.events \in Seq(Event)
      BY <1>1, ConvFields DEF Converting, ConvOK
    <3>2. s2 = [s1 EXCEPT !.events = @ \o <<Start(s1.next, k)>>,
                          !.text = s1.next, !.next = @ + 1]
      BY <2>2, <3>1 DEF Emit, ConvType
    <3>3. s1.events \o <<Start(s1.next, k)>> \in Seq(Event)
      BY <1>2, <3>1, BlockEvent
    <3> HIDE DEF s2
    <3>4. /\ s2 \in ConvType /\ s2.events = s1.events \o <<Start(s1.next, k)>>
          /\ s2.thinking = s1.thinking /\ s2.text = s1.next /\ s2.next = s1.next + 1
      <4> DEFINE es == s1.events \o <<Start(s1.next, k)>>
      <4>1. es \in Seq(Event) /\ s1.next \in BlockNo /\ s1.next + 1 \in Nat
        BY <3>1, <3>3 DEF BlockNo
      <4>2. s2 = [s1 EXCEPT !.events = es, !.text = s1.next, !.next = s1.next + 1]
        BY <3>1, <3>2
      <4> HIDE DEF es
      <4>3. s2 \in ConvType
        BY <3>1, <4>1, <4>2 DEF ConvType
      <4>4. /\ s2.events = es /\ s2.thinking = s1.thinking
            /\ s2.text = s1.next /\ s2.next = s1.next + 1
        BY <3>1, <4>2 DEF ConvType
      <4> QED
        BY <4>3, <4>4 DEF es
    <3>5. Same(s1, s2) /\ s2.text # NoBlock
      <4>1. s2.text # NoBlock
        BY <3>1, <3>4 DEF NoBlock
      <4>2. Same(s1, s2)
        BY <3>1, <3>2 DEF ConvType, Same, Kept
      <4> QED
        BY <4>1, <4>2
    <3>6. {s2.text, s2.thinking} = {NoBlock, s1.next}
      BY <1>1, <3>4
    <3>7. Converting(bl, b, ph, rs, s2)
      BY <1>1, <1>2, <2>2, <3>4, <3>5, <3>6, TextStarted
    <3> QED
      BY <1>1, <3>4, <3>5, <3>7
  <2> QED
    BY <2>1, <2>2
<1> HIDE DEF s2
<1>4. Converting(bl, b, ph, rs, s3) /\ Same(s2, s3)
  <2>1. s2 \in ConvType /\ s2.text \in Nat /\ s2.events \in Seq(Event) /\ ~s2.closed
    BY <1>1, <1>3, ConvFields DEF Converting, ConvOK, Same, Kept
  <2>2. s2.events \o <<Delta(s2.text, 1)>> \in Seq(Event)
    BY <2>1, BlockEvent
  <2>3. /\ s3 \in ConvType /\ s3.events = s2.events \o <<Delta(s2.text, 1)>>
        /\ s3.text = s2.text /\ s3.thinking = s2.thinking /\ s3.next = s2.next
    BY <2>1, <2>2 DEF Emit, ConvType
  <2>4. Same(s2, s3)
    BY <2>1 DEF Emit, ConvType, Same, Kept
  <2> HIDE DEF s3
  <2>5. s2.text \in {s2.text, s2.thinking} \ {NoBlock}
    BY <1>3
  <2> QED
    BY <1>3, <2>1, <2>3, <2>4, <2>5, TextFilled
<1> HIDE DEF s3
<1>5. Same(s, s3)
  BY <1>1, <1>3, <1>4 DEF Same, Kept
<1>6. Text(s) = s3
  BY DEF Text, s3, s2, s1, k
<1> QED
  BY <1>4, <1>5, <1>6

\* A tool call is seen, with or without arguments: nothing is sent for it yet.
LEMMA ToolSeen ==
  ASSUME NEW bl, NEW b, NEW ph, NEW rs, NEW s, Converting(bl, b, ph, rs, s),
         ~s.closed, s.started, NEW u \in ConvType, u.events = s.events, u.text = s.text,
         u.thinking = s.thinking, u.next = s.next, u.opened = s.opened, u.sawTool, Kept(s, u)
  PROVE  Converting(bl, b, ph, rs, u)
<1>1. s.events \in Seq(Event)
  BY ConvFields DEF Converting, ConvOK
<1> DEFINE none == <<>>
<1>2. none \in Seq(Event) /\ DOMAIN none = {} /\ s.events \o none = s.events
  BY <1>1
<1> HIDE DEF none
<1>3. Open(u) = Open(s)
  BY DEF Open, Kept
<1>4. BlockLink(bl, b, u.next, Open(u), u.events)
  BY <1>3 DEF Converting, Link
<1>5. ToolLink(bl, b, u, u.events)
  BY DEF Converting, Link, ToolLink
<1>6. ArgsLink(bl, b, u, u.events)
  BY DEF Converting, Link, ArgsLink, Kept
<1>7. ConvOK(u)
  <2>1. Distinct(u)
    BY DEF Converting, ConvOK, Distinct
  <2> QED
    BY <2>1 DEF Converting, ConvOK, Kept
<1> QED
  BY <1>2, <1>4, <1>5, <1>6, <1>7, ContentLink

\* The block of a tool call starts.
LEMMA ToolOpened ==
  ASSUME NEW bl, NEW b \in Nat, NEW ph, NEW rs, NEW s, Converting(bl, b, ph, rs, s),
         ~s.closed, s.started, s.sawTool, NEW c \in Tools, s.opened[c] = NoBlock,
         s.text = NoBlock, s.thinking = NoBlock,
         NEW u \in ConvType, u.events = s.events \o <<Start(s.next, Kind("tool", c))>>,
         u.opened = [s.opened EXCEPT ![c] = s.next], u.next = s.next + 1,
         u.text = s.text, u.thinking = s.thinking, u.args = s.args, u.sawTool = s.sawTool,
         Kept(s, u)
  PROVE  Converting(bl, b, ph, rs, u)
<1> DEFINE n == s.next
           k == Kind("tool", c)
           more == <<Start(n, k)>>
<1>1. /\ s.events \in Seq(Event) /\ n \in Nat /\ n # NoBlock /\ n + 1 \in Nat
      /\ s.opened \in [Tools -> BlockNo] /\ k \in Kinds
  <2>1. s \in ConvType
    BY DEF Converting, ConvOK
  <2>2. s.events \in Seq(Event) /\ n \in Nat /\ s.opened \in [Tools -> BlockNo]
    BY <2>1, ConvFields
  <2>3. n # NoBlock /\ n + 1 \in Nat
    BY <2>2 DEF NoBlock
  <2>4. k \in Kinds
    BY DEF Kinds
  <2> QED
    BY <2>2, <2>3, <2>4
<1>2. more \in Seq(Event) /\ DOMAIN more = {1} /\ more[1] = Start(n, k)
  BY <1>1, BlockEvent
<1>3. \A m \in DOMAIN more : OfBlock(more[m]) /\ ~IsDelta(more[m])
  BY <1>1, <1>2, BlockEvent DEF OfBlock
<1>4. /\ BlockLink(bl, b, n, Open(s), s.events)
      /\ ToolLink(bl, b, s, s.events) /\ ArgsLink(bl, b, s, s.events)
  BY DEF Converting, Link
<1>5. /\ bl \in [0..(b - 1) -> BlockType] /\ ~(n < b)
      /\ \A m \in DOMAIN s.events : OfBlock(s.events[m]) => s.events[m].index # n
  <2>1. b \in 0..n /\ \A m \in DOMAIN s.events :
          OfBlock(s.events[m]) => s.events[m].index \in 0..(n - 1)
    BY <1>4 DEF BlockLink
  <2>2. bl \in [0..(b - 1) -> BlockType]
    BY <1>4 DEF BlockLink
  <2> QED
    BY <1>1, <2>1, <2>2
<1>6. Open(u) = Open(s) \cup {n}
  BY <1>1 DEF Open, Kept
<1> HIDE DEF k
<1>7. BlockLink(bl, b, u.next, Open(u), u.events)
  <2>1. BlockLink(bl, b, n + 1, Open(s) \cup {n}, s.events \o <<Start(n, k)>>)
    BY <1>1, <1>4, StartLink
  <2>2. u.events = s.events \o <<Start(n, k)>> /\ u.next = n + 1
    BY DEF k
  <2> QED
    BY <1>6, <2>1, <2>2
<1>8. ToolLink(bl, b, u, u.events)
  <2>1. ToolLink(bl, b, u, s.events \o <<Start(n, Kind("tool", c))>>)
    BY <1>1, <1>4, <1>5, ToolStarted
  <2> QED
    BY <2>1
<1>9. u.events = s.events \o more /\ u.closed = s.closed
  BY DEF k, Kept
<1> HIDE DEF more
<1>10. ArgsLink(bl, b, u, u.events)
  <2> SUFFICES ASSUME NEW t \in Tools, u.opened[t] # NoBlock
               PROVE  Fills(bl, b, u.opened[t], 0, s.events \o more)
    BY <1>9 DEF ArgsLink
  <2>1. Fills(bl, b, u.opened[t], 0, s.events)
    <3>1. CASE t = c
      <4>1. u.opened[t] = n
        BY <1>1, <3>1
      <4> QED
        BY <1>1, <1>5, <4>1, FillsNothing
    <3>2. CASE t # c
      <4>1. u.opened[t] = s.opened[t]
        BY <1>1, <3>2
      <4> QED
        BY <1>4, <4>1 DEF ArgsLink
    <3> QED
      BY <3>1, <3>2
  <2> QED
    BY <1>1, <1>2, <1>3, <2>1, FillsStays
<1>11. ConvOK(u)
  <2>1. n \in 0..(u.next - 1) /\ \A j \in 0..(n - 1) : j \in 0..(u.next - 1) /\ j # n
    BY <1>1
  <2>2. \A t \in Tools : s.opened[t] # NoBlock => s.opened[t] \in 0..(n - 1)
    BY DEF Converting, ConvOK, Distinct
  <2>3. \A t \in Tools : u.opened[t] # NoBlock =>
          /\ u.opened[t] \in 0..(u.next - 1) \ {u.text, u.thinking}
          /\ \A x \in Tools \ {t} : u.opened[x] # u.opened[t]
    <3> SUFFICES ASSUME NEW t \in Tools, u.opened[t] # NoBlock
                 PROVE  /\ u.opened[t] \in 0..(u.next - 1) \ {u.text, u.thinking}
                        /\ \A x \in Tools \ {t} : u.opened[x] # u.opened[t]
      OBVIOUS
    <3>1. \A x \in Tools \ {c} : u.opened[x] = s.opened[x]
      BY <1>1
    <3>2. u.opened[c] = n
      BY <1>1
    <3>3. CASE t = c
      BY <1>1, <2>1, <2>2, <3>1, <3>2, <3>3
    <3>4. CASE t # c
      <4>1. u.opened[t] = s.opened[t] /\ s.opened[t] \in 0..(n - 1)
        BY <2>2, <3>1, <3>4
      <4>2. u.opened[t] \in 0..(u.next - 1) \ {u.text, u.thinking}
        BY <2>1, <4>1
      <4>3. \A x \in Tools \ {t} : s.opened[x] # s.opened[t]
        BY <3>1, <3>4 DEF Converting, ConvOK, Distinct
      <4>4. \A x \in Tools \ {t} : u.opened[x] # u.opened[t]
        BY <2>1, <3>1, <3>2, <4>1, <4>3
      <4> QED
        BY <4>2, <4>4
    <3> QED
      BY <3>3, <3>4
  <2>4. Distinct(u)
    BY <2>3 DEF Distinct
  <2> QED
    BY <2>4 DEF Converting, ConvOK, Kept
<1> QED
  BY <1>2, <1>3, <1>7, <1>8, <1>9, <1>10, <1>11, ContentLink

\* The fragments of arguments, with those of one call more.
Counted(n, c) == [t \in Tools |-> IF t = c.tool /\ c.args THEN n[t] + 1 ELSE n[t]]

\* The state u has these fragments.
Counts(s, u, c) == u.args = Counted(s.args, c)

\* A tool call.
LEMMA ToolCallLink ==
  ASSUME NEW bl, NEW b \in Nat, NEW ph, NEW rs, NEW s, Converting(bl, b, ph, rs, s),
         ~s.closed, s.started, NEW c \in CallType
  PROVE  /\ Converting(bl, b, ph, rs, ToolCall(s, c)) /\ Kept(s, ToolCall(s, c))
         /\ ToolCall(s, c).args = Counted(s.args, c)
<1> DEFINE s0 == StopThinking(s)
           s1 == StopText(s0)
           s2 == [s1 EXCEPT !.sawTool = TRUE, !.args[c.tool] = IF c.args THEN @ + 1 ELSE @]
           args == Counted(s.args, c)
           k == Kind("tool", c.tool)
           u == [Emit(s2, <<Start(s2.next, k)>>)
                   EXCEPT !.opened[c.tool] = s2.next, !.next = @ + 1]
<1>1. c.tool \in Tools /\ c.args \in BOOLEAN /\ c.named \in BOOLEAN
  BY DEF CallType
<1>2. /\ Converting(bl, b, ph, rs, s0) /\ Same(s, s0) /\ s0.thinking = NoBlock /\ ~s0.closed
  <2>1. Converting(bl, b, ph, rs, s0) /\ Same(s, s0) /\ s0.thinking = NoBlock
    BY StopThinkingLink
  <2> QED
    BY <2>1 DEF Same, Kept
<1> HIDE DEF s0
<1>3. /\ Converting(bl, b, ph, rs, s1) /\ Same(s, s1) /\ s1.thinking = NoBlock
      /\ s1.text = NoBlock /\ ~s1.closed /\ s1.started
  <2>1. Converting(bl, b, ph, rs, s1) /\ Same(s0, s1) /\ s1.text = NoBlock
        /\ s1.thinking = NoBlock
    BY <1>2, StopTextLink
  <2> QED
    BY <1>2, <2>1 DEF Same, Kept
<1> HIDE DEF s1
<1>4. s1 \in ConvType /\ s1.args = s.args /\ s.args \in [Tools -> Nat]
  BY <1>3, ConvFields DEF Converting, ConvOK, Same
<1>5. args \in [Tools -> Nat]
  BY <1>4 DEF Counted
<1>6. s2 = [s1 EXCEPT !.sawTool = TRUE, !.args = args]
  <2>1. [s1.args EXCEPT ![c.tool] = IF c.args THEN @ + 1 ELSE @] = args
    BY <1>1, <1>4 DEF Counted
  <2> HIDE DEF args
  <2>2. s2 = [s1 EXCEPT !.sawTool = TRUE,
                        !.args = [s1.args EXCEPT ![c.tool] = IF c.args THEN @ + 1 ELSE @]]
    BY <1>4 DEF ConvType
  <2> QED
    BY <2>1, <2>2
<1> HIDE DEF s2, args, u, k
<1>7. /\ Converting(bl, b, ph, rs, s2) /\ Kept(s1, s2) /\ s2.text = NoBlock
      /\ s2.thinking = NoBlock /\ s2.opened = s1.opened /\ s2.args = args /\ s2.sawTool = TRUE
  <2>1. s2 \in ConvType /\ s2.events = s1.events /\ s2.next = s1.next
    BY <1>4, <1>5, <1>6 DEF ConvType
  <2>2. /\ s2.text = s1.text /\ s2.thinking = s1.thinking /\ s2.opened = s1.opened
        /\ s2.args = args /\ s2.sawTool = TRUE
    BY <1>4, <1>6 DEF ConvType
  <2>3. Kept(s1, s2)
    BY <1>4, <1>6 DEF ConvType, Kept
  <2>4. Converting(bl, b, ph, rs, s2)
    BY <1>3, <2>1, <2>2, <2>3, ToolSeen
  <2> QED
    BY <1>3, <2>2, <2>3, <2>4
<1>8. Kept(s, s2) /\ ~s2.closed /\ s2.started
  BY <1>3, <1>7 DEF Same, Kept
<1>9. ToolCall(s, c) = IF c.named /\ s2.opened[c.tool] = NoBlock THEN u ELSE s2
  BY DEF ToolCall, s2, s1, s0, u, k
<1>10. CASE ~(c.named /\ s2.opened[c.tool] = NoBlock)
  BY <1>5, <1>7, <1>8, <1>9, <1>10 DEF args
<1>11. CASE c.named /\ s2.opened[c.tool] = NoBlock
  <2>1. s2 \in ConvType /\ s2.next \in Nat /\ s2.events \in Seq(Event) /\ k \in Kinds
    BY <1>1, <1>7, ConvFields DEF Converting, ConvOK, Kinds, k
  <2> DEFINE es == s2.events \o <<Start(s2.next, k)>>
             opened == [s2.opened EXCEPT ![c.tool] = s2.next]
  <2>2. es \in Seq(Event) /\ opened \in [Tools -> BlockNo] /\ s2.next + 1 \in Nat
    <3>1. es \in Seq(Event)
      BY <2>1, BlockEvent
    <3>2. s2.opened \in [Tools -> BlockNo] /\ s2.next \in BlockNo
      BY <2>1, ConvFields DEF BlockNo
    <3>3. opened \in [Tools -> BlockNo]
      BY <3>2
    <3> QED
      BY <2>1, <3>1, <3>3
  <2>3. u = [s2 EXCEPT !.events = es, !.opened = opened, !.next = s2.next + 1]
    BY <2>1 DEF Emit, ConvType, u
  <2> HIDE DEF es, opened
  <2>4. u \in ConvType
    BY <2>1, <2>2, <2>3 DEF ConvType
  <2>5. /\ u.events = es /\ u.opened = opened /\ u.next = s2.next + 1 /\ u.text = s2.text
        /\ u.thinking = s2.thinking /\ u.args = s2.args /\ u.sawTool = s2.sawTool
    BY <2>1, <2>3 DEF ConvType
  <2>6. Kept(s2, u)
    BY <2>1, <2>3 DEF ConvType, Kept
  <2>7. Converting(bl, b, ph, rs, u)
    <3>1. u.events = s2.events \o <<Start(s2.next, Kind("tool", c.tool))>>
      BY <2>5 DEF es, k
    <3>2. u.opened = [s2.opened EXCEPT ![c.tool] = s2.next]
      BY <2>5 DEF opened
    <3>3. s2.opened[c.tool] = NoBlock
      BY <1>11
    <3> QED
      BY <1>1, <1>7, <1>8, <2>4, <2>5, <2>6, <3>1, <3>2, <3>3, ToolOpened
  <2>8. Kept(s, u)
    BY <1>8, <2>6 DEF Kept
  <2> QED
    BY <1>5, <1>7, <1>9, <1>11, <2>5, <2>7, <2>8 DEF args
<1> QED
  BY <1>10, <1>11

\* What the upstream says about the end counts once the message ends.
LEMMA FinishSaid ==
  ASSUME NEW bl, NEW b, NEW ph, NEW rs, NEW s, Converting(bl, b, ph, rs, s),
         ~s.closed, s.started, NEW u \in ConvType, u.events = s.events, u.text = s.text,
         u.thinking = s.thinking, u.next = s.next, u.opened = s.opened, u.args = s.args,
         u.sawTool = s.sawTool, u.started = s.started, u.closed = s.closed,
         u.deltaSent = s.deltaSent, u.stopSent = s.stopSent
  PROVE  Converting(bl, b, ph, rs, u)
<1>1. s \in ConvType /\ s.events \in Seq(Event) /\ ~s.stopSent /\ s.stopSent \in BOOLEAN
  BY ConvFields DEF Converting, ConvOK
<1>2. ConvOK(u)
  <2>1. Distinct(u)
    BY DEF Converting, ConvOK, Distinct
  <2> QED
    BY <2>1 DEF Converting, ConvOK
<1>3. BlockLink(bl, b, u.next, Open(u), u.events)
  <2>1. Open(u) = Open(s)
    BY DEF Open
  <2> QED
    BY <2>1 DEF Converting, Link
<1>4. ToolLink(bl, b, u, u.events) /\ ArgsLink(bl, b, u, u.events)
  BY DEF Converting, Link, ToolLink, ArgsLink
<1>5. MessageLink(ph, rs, u.started, u.stopSent, StopReason(u), u.events)
  <2> DEFINE none == <<>>
  <2>1. none \in Seq(Event) /\ DOMAIN none = {} /\ s.events \o none = s.events
    BY <1>1
  <2> HIDE DEF none
  <2>2. s.started = TRUE /\ s.stopSent = FALSE
    BY <1>1 DEF ConvType
  <2>3. MessageLink(ph, rs, TRUE, FALSE, StopReason(s), s.events)
    BY <2>2 DEF Converting, Link
  <2>4. MessageLink(ph, rs, TRUE, FALSE, StopReason(u), s.events \o none)
    BY <1>1, <2>1, <2>3, ContentInMessage
  <2> QED
    BY <2>1, <2>2, <2>4
<1> QED
  BY <1>2, <1>3, <1>4, <1>5 DEF Converting, Link

\* Events of the message alone leave the blocks to those that are there.
LEMMA MessageEvents ==
  ASSUME NEW bl, NEW b, NEW ph, NEW rs, NEW s, Converting(bl, b, ph, rs, s),
         NEW more \in Seq(Event), \A m \in DOMAIN more : ~OfBlock(more[m]),
         NEW u, u.events = s.events \o more, u.text = s.text, u.thinking = s.thinking,
         u.next = s.next, u.opened = s.opened, u.args = s.args, u.sawTool = s.sawTool,
         u.closed = s.closed
  PROVE  /\ BlockLink(bl, b, u.next, Open(u), u.events)
         /\ ToolLink(bl, b, u, u.events) /\ ArgsLink(bl, b, u, u.events)
<1>1. s.next \in Nat /\ s.events \in Seq(Event)
  BY ConvFields DEF Converting, ConvOK
<1>2. /\ BlockLink(bl, b, s.next, Open(s), s.events)
      /\ ToolLink(bl, b, s, s.events) /\ ArgsLink(bl, b, s, s.events)
  BY DEF Converting, Link
<1>3. Open(u) = Open(s)
  BY DEF Open
<1>4. \A m \in DOMAIN more : ~IsStart(more[m]) /\ ~IsDelta(more[m])
  BY DEF OfBlock
<1>5. BlockLink(bl, b, u.next, Open(u), u.events)
  BY <1>1, <1>2, <1>3, MessageOnly
<1>6. ToolLink(bl, b, u, u.events)
  BY <1>1, <1>2, <1>4, NoToolStarted
<1>7. ArgsLink(bl, b, u, u.events)
  BY <1>1, <1>2, <1>4, ArgsStay
<1> QED
  BY <1>5, <1>6, <1>7

\* The start of the message, before anything else of it.
LEMMA MessageStartedLink ==
  ASSUME NEW bl, NEW b, NEW ph, NEW rs, NEW s, Converting(bl, b, ph, rs, s),
         s.events = <<>>, s.closed => s.started
  PROVE  LET u == MessageStarted(s)
         IN  /\ Converting(bl, b, ph, rs, u) /\ u.started /\ Same([s EXCEPT !.started = TRUE], u)
<1>1. s \in ConvType
  BY DEF Converting, ConvOK
<1>2. CASE s.started
  <2>1. [s EXCEPT !.started = TRUE] = s
    BY <1>1, <1>2 DEF ConvType
  <2> QED
    BY <1>2, <2>1 DEF MessageStarted, Same, Kept
<1>3. CASE ~s.started
  <2> DEFINE e == [type |-> "message_start"]
             more == <<e>>
             u == MessageStarted(s)
  <2>1. e \in Event /\ ~OfBlock(e)
    BY DEF Event, OfBlock, IsStart, IsDelta, IsStop
  <2>2. more \in Seq(Event) /\ DOMAIN more = {1} /\ more[1] = e
    BY <2>1
  <2>3. s.events \o more = more
    BY <2>1
  <2>4. u = [s EXCEPT !.events = s.events \o more, !.started = TRUE]
    BY <1>1, <1>3 DEF MessageStarted, Emit, ConvType
  <2>5. s.events \in Seq(Event) /\ s.events \o more \in Seq(Event)
    <3>1. s.events \in Seq(Event)
      BY <1>1, ConvFields
    <3> QED
      BY <2>2, <3>1
  <2> HIDE DEF more, u
  <2>6. /\ u.events = s.events \o more /\ u.text = s.text /\ u.thinking = s.thinking
        /\ u.next = s.next /\ u.opened = s.opened /\ u.args = s.args /\ u.sawTool = s.sawTool
        /\ u.started = TRUE /\ u.closed = s.closed /\ u.deltaSent = s.deltaSent
        /\ u.stopSent = s.stopSent /\ u.finish = s.finish
    BY <1>1, <2>4 DEF ConvType
  <2>7. u \in ConvType
    BY <1>1, <2>4, <2>5 DEF ConvType
  <2>8. ConvOK(u)
    <3>1. Distinct(u)
      BY ZenonT(60), <2>6 DEF Converting, ConvOK, Distinct
    <3> QED
      BY <2>6, <2>7, <3>1 DEF Converting, ConvOK
  <2>9. /\ BlockLink(bl, b, u.next, Open(u), u.events)
        /\ ToolLink(bl, b, u, u.events) /\ ArgsLink(bl, b, u, u.events)
    <3>1. \A m \in DOMAIN more : ~OfBlock(more[m])
      BY <2>1, <2>2
    <3> QED
      BY <2>2, <2>6, <3>1, MessageEvents
  <2>10. MessageLink(ph, rs, u.started, u.stopSent, StopReason(u), u.events)
    <3>1. s.started = FALSE /\ s.stopSent = FALSE
      BY <1>1, <1>3, ConvFields DEF Converting, ConvOK
    <3>2. MessageLink(ph, rs, FALSE, FALSE, StopReason(s), <<>>)
      BY <3>1 DEF Converting, Link
    <3>3. MessageLink(ph, rs, TRUE, FALSE, StopReason(u), <<e>>)
      BY <3>2, StartOfMessage
    <3> QED
      BY <2>3, <2>6, <3>1, <3>3 DEF more
  <2>11. Same([s EXCEPT !.started = TRUE], u)
    BY <1>1, <2>6 DEF Same, Kept, ConvType
  <2>12. Converting(bl, b, ph, rs, u)
    BY <2>8, <2>9, <2>10 DEF Converting, Link
  <2> QED
    BY <2>6, <2>11, <2>12 DEF u
<1> QED
  BY <1>2, <1>3

\* The reason to stop.
LEMMA StopReasonType ==
  ASSUME NEW s, NEW u
  PROVE  /\ StopReason(s) \in Reasons
         /\ u.finish = s.finish /\ u.sawTool = s.sawTool => StopReason(u) = StopReason(s)
  BY DEF StopReason, Reasons

\* A list of two events put together from two lists.
LEMMA TwoEvents ==
  ASSUME NEW x \in Event, NEW y \in Event
  PROVE  <<x>> \o <<y>> = <<x, y>>
<1> DEFINE p == <<x>> \o <<y>>
           q == <<x, y>>
<1>1. /\ p \in Seq(Event) /\ q \in Seq(Event) /\ Len(p) = 2 /\ Len(q) = 2
      /\ p[1] = q[1] /\ p[2] = q[2]
  OBVIOUS
<1> HIDE DEF p, q
<1>2. p \in [1..2 -> Event] /\ q \in [1..2 -> Event]
  <2>1. \A z \in Seq(Event) : z \in [1..Len(z) -> Event]
    OBVIOUS
  <2> QED
    BY <1>1, <2>1
<1>3. \A i \in 1..2 : p[i] = q[i]
  <2>1. \A i \in 1..2 : i = 1 \/ i = 2
    OBVIOUS
  <2> QED
    BY <1>1, <2>1
<1>4. p = q
  BY <1>2, <1>3
<1> QED
  BY <1>4 DEF p, q

\* The end of the message, after all content.
LEMMA DeltaAndStopLink ==
  ASSUME NEW bl, NEW b, NEW ph, NEW rs, NEW s, Converting(bl, b, ph, rs, s), s.closed
  PROVE  LET u == DeltaAndStop(s)
         IN  /\ Converting(bl, b, ph, rs, u) /\ u.stopSent /\ u.closed /\ u.args = s.args
             /\ u.finish = s.finish
<1>1. s \in ConvType /\ s.deltaSent = s.stopSent /\ s.stopSent \in BOOLEAN
  BY ConvFields DEF Converting, ConvOK
<1>2. CASE s.stopSent
  <2>1. DeltaAndStop(s) = [[s EXCEPT !.events = s.events \o <<>>]
                             EXCEPT !.deltaSent = TRUE, !.stopSent = TRUE]
    BY <1>1, <1>2 DEF DeltaAndStop, Emit
  <2>2. s.events \o <<>> = s.events
    <3>1. s.events \in Seq(Event)
      BY <1>1, ConvFields
    <3> QED
      BY <3>1
  <2>3. DeltaAndStop(s) = s
    BY ZenonT(60), <1>1, <1>2, <2>1, <2>2 DEF ConvType
  <2> QED
    BY <1>2, <2>3
<1>3. CASE ~s.stopSent
  <2> DEFINE r == StopReason(s)
             d == [type |-> "message_delta", reason |-> r]
             e == [type |-> "message_stop"]
             more == <<d, e>>
             u == DeltaAndStop(s)
  <2>1. r \in Reasons
    BY StopReasonType
  <2> HIDE DEF r
  <2>2. /\ d \in Event /\ ~OfBlock(d)
        /\ e \in Event /\ ~OfBlock(e)
    BY <2>1 DEF Event, OfBlock, IsStart, IsDelta, IsStop
  <2>3. more \in Seq(Event) /\ DOMAIN more = {1, 2} /\ more[1] = d /\ more[2] = e
    BY <2>2
  <2>4. u = [s EXCEPT !.events = s.events \o more, !.deltaSent = TRUE, !.stopSent = TRUE]
    <3>1. <<d>> \o <<e>> = more
      <4> HIDE DEF d, e
      <4> QED
        BY <2>2, TwoEvents
    <3>2. u = [[s EXCEPT !.events = s.events \o (<<d>> \o <<e>>)]
                 EXCEPT !.deltaSent = TRUE, !.stopSent = TRUE]
      BY <1>1, <1>3 DEF DeltaAndStop, Emit, r
    <3> HIDE DEF d, e, more, u
    <3> QED
      BY <1>1, <3>1, <3>2 DEF ConvType
  <2>5. s.events \in Seq(Event) /\ s.events \o more \in Seq(Event)
    <3>1. s.events \in Seq(Event)
      BY <1>1, ConvFields
    <3> QED
      BY <2>3, <3>1
  <2> HIDE DEF more, u, d, e
  <2>6. /\ u.events = s.events \o more /\ u.text = s.text /\ u.thinking = s.thinking
        /\ u.next = s.next /\ u.opened = s.opened /\ u.args = s.args /\ u.sawTool = s.sawTool
        /\ u.started = s.started /\ u.closed = s.closed /\ u.deltaSent = TRUE
        /\ u.stopSent = TRUE /\ u.finish = s.finish
    BY <1>1, <2>4 DEF ConvType
  <2>7. u \in ConvType
    BY <1>1, <2>4, <2>5 DEF ConvType
  <2>8. ConvOK(u)
    <3>1. Distinct(u)
      BY ZenonT(60), <2>6 DEF Converting, ConvOK, Distinct
    <3> QED
      BY <2>6, <2>7, <3>1 DEF Converting, ConvOK
  <2>9. /\ BlockLink(bl, b, u.next, Open(u), u.events)
        /\ ToolLink(bl, b, u, u.events) /\ ArgsLink(bl, b, u, u.events)
    <3>1. \A m \in DOMAIN more : ~OfBlock(more[m])
      BY <2>2, <2>3
    <3> QED
      BY <2>3, <2>6, <3>1, MessageEvents
  <2>10. MessageLink(ph, rs, u.started, u.stopSent, StopReason(u), u.events)
    <3>1. s.stopSent = FALSE /\ s.started \in BOOLEAN
      BY <1>1, <1>3, ConvFields
    <3>2. MessageLink(ph, rs, s.started, FALSE, r, s.events)
      BY <3>1 DEF Converting, Link, r
    <3>3. MessageLink(ph, rs, s.started, TRUE, r, s.events \o more)
      BY <2>1, <2>5, <3>1, <3>2, EndOfMessage DEF more, d, e
    <3>4. StopReason(u) = r
      BY <2>6, StopReasonType DEF r
    <3> QED
      BY <2>6, <3>3, <3>4
  <2>11. Converting(bl, b, ph, rs, u)
    BY <2>8, <2>9, <2>10 DEF Converting, Link
  <2> QED
    BY <2>6, <2>11 DEF u
<1> QED
  BY <1>1, <1>2, <1>3

\* The end of the content: all blocks are stopped, the tool calls' after their arguments.
LEMMA ToolEndsLink ==
  ASSUME NEW bl, NEW b, NEW ph, NEW rs, NEW s, Converting(bl, b, ph, rs, s), ~s.closed,
         s.text = NoBlock, s.thinking = NoBlock,
         NEW u \in ConvType, u.events = s.events \o ToolEnds(s), u.text = NoBlock,
         u.thinking = NoBlock, u.next = s.next, u.opened = s.opened, u.args = s.args,
         u.sawTool = s.sawTool, u.started = s.started, u.finish = s.finish, u.closed,
         u.deltaSent = s.deltaSent, u.stopSent = s.stopSent
  PROVE  Converting(bl, b, ph, rs, u)
<1> DEFINE more == ToolEnds(s)
           O == Open(s)
<1>1. s \in ConvType /\ Distinct(s)
  BY DEF Converting, ConvOK
<1>2. s.events \in Seq(Event) /\ s.next \in Nat /\ s.stopSent = FALSE /\ s.started \in BOOLEAN
  BY <1>1, ConvFields DEF Converting, ConvOK
<1>3. /\ BlockLink(bl, b, s.next, O, s.events)
      /\ ToolLink(bl, b, s, s.events) /\ ArgsLink(bl, b, s, s.events)
      /\ MessageLink(ph, rs, s.started, FALSE, StopReason(s), s.events)
  BY <1>2 DEF Converting, Link
<1>4. more \in Seq(Event)
  BY <1>1, ToolEndsWork
<1>5. \A m \in DOMAIN more :
        \E t \in Tools : /\ s.opened[t] # NoBlock /\ more[m].index = s.opened[t]
                         /\ \/ IsStop(more[m])
                            \/ IsDelta(more[m]) /\ more[m].size = s.args[t]
  BY <1>1, ToolEndsWork
<1>6. \A l, m \in DOMAIN more :
        l < m /\ more[l].index = more[m].index => IsDelta(more[l]) /\ IsStop(more[m])
  BY <1>1, ToolEndsWork
<1>7. \A t \in Tools : s.opened[t] # NoBlock =>
        /\ \E m \in DOMAIN more : IsStop(more[m]) /\ more[m].index = s.opened[t]
        /\ s.args[t] > 0 => \E m \in DOMAIN more : IsDelta(more[m]) /\ more[m].index = s.opened[t]
  BY <1>1, ToolEndsWork
<1> HIDE DEF more
<1>8. \A x : IsDelta(x) => ~IsStop(x) /\ ~IsStart(x)
  BY DEF IsDelta, IsStop, IsStart
<1>9. \A x : IsStop(x) => ~IsDelta(x) /\ ~IsStart(x)
  BY DEF IsDelta, IsStop, IsStart
<1>10. \A m \in DOMAIN more : OfBlock(more[m]) /\ ~IsStart(more[m]) /\ more[m].index \in O
  <2>1. \A t \in Tools : s.opened[t] # NoBlock => s.opened[t] \in O
    BY DEF Open
  <2> QED
    BY <1>5, <1>8, <1>9, <2>1 DEF OfBlock
<1>11. BlockLink(bl, b, u.next, Open(u), u.events)
  <2>1. \A l, m \in DOMAIN more :
          l < m /\ OfBlock(more[l]) /\ OfBlock(more[m]) /\ more[l].index = more[m].index
            => ~IsStop(more[l])
    BY <1>6, <1>8
  <2>2. \A i \in O : i \in {} <=> \A m \in DOMAIN more : ~(IsStop(more[m]) /\ more[m].index = i)
    <3>1. \A i \in O : \E t \in Tools : s.opened[t] = i /\ s.opened[t] # NoBlock
      BY DEF Open
    <3> QED
      BY <1>7, <3>1
  <2> HIDE DEF O
  <2>3. BlockLink(bl, b, s.next, {}, s.events \o more)
    BY <1>2, <1>3, <1>4, <1>10, <2>1, <2>2, EndLink
  <2>4. Open(u) = {}
    BY DEF Open
  <2> QED
    BY <2>3, <2>4 DEF more
<1>12. ToolLink(bl, b, u, u.events)
  <2>1. ToolLink(bl, b, u, s.events \o more)
    BY <1>2, <1>3, <1>4, <1>10, NoToolStarted
  <2> QED
    BY <2>1 DEF more
<1>13. ArgsLink(bl, b, u, u.events)
  <2> SUFFICES ASSUME NEW t \in Tools, s.opened[t] # NoBlock
               PROVE  Fills(bl, b, s.opened[t], s.args[t], s.events \o more)
    BY DEF ArgsLink, more
  <2>1. Fills(bl, b, s.opened[t], 0, s.events)
    BY <1>3 DEF ArgsLink
  <2>2. \A m \in DOMAIN more :
          IsDelta(more[m]) /\ more[m].index = s.opened[t] => more[m].size = s.args[t]
    <3> SUFFICES ASSUME NEW m \in DOMAIN more, IsDelta(more[m]), more[m].index = s.opened[t]
                 PROVE  more[m].size = s.args[t]
      OBVIOUS
    <3>1. PICK x \in Tools : /\ s.opened[x] # NoBlock /\ more[m].index = s.opened[x]
                             /\ more[m].size = s.args[x]
      BY <1>5, <1>8
    <3>2. x = t
      BY <1>1, <3>1 DEF Distinct
    <3> QED
      BY <3>1, <3>2
  <2>3. s.args[t] \in Nat
    BY <1>1, ConvFields
  <2>4. CASE s.args[t] > 0
    <3>1. PICK m \in DOMAIN more : IsDelta(more[m]) /\ more[m].index = s.opened[t]
      BY <1>7, <2>4
    <3>2. \A l \in DOMAIN more : IsDelta(more[l]) /\ more[l].index = s.opened[t] => l = m
      <4> SUFFICES ASSUME NEW l \in DOMAIN more, IsDelta(more[l]),
                          more[l].index = s.opened[t], l # m
                   PROVE  FALSE
        OBVIOUS
      <4>1. l < m \/ m < l
        BY <1>4
      <4> QED
        BY <1>6, <1>8, <3>1, <4>1
    <3> QED
      BY <1>2, <1>4, <2>1, <2>2, <3>1, <3>2, FillsNow
  <2>5. CASE s.args[t] = 0
    <3>1. \A m \in DOMAIN more : IsDelta(more[m]) => more[m].size # 0
      <4>1. \A x \in Event : IsDelta(x) => x.size # 0
        BY DEF Event, IsDelta
      <4>2. \A m \in DOMAIN more : more[m] \in Event
        BY <1>4
      <4> QED
        BY <4>1, <4>2
    <3>2. \A m \in DOMAIN more : ~(IsDelta(more[m]) /\ more[m].index = s.opened[t])
      BY <2>2, <2>5, <3>1
    <3> QED
      BY <1>2, <1>4, <2>1, <2>5, <3>2, FillsStays
  <2> QED
    BY <2>3, <2>4, <2>5
<1>14. MessageLink(ph, rs, u.started, u.stopSent, StopReason(u), u.events)
  <2>1. StopReason(u) = StopReason(s)
    BY StopReasonType
  <2>2. CASE s.started
    <3>1. MessageLink(ph, rs, TRUE, FALSE, StopReason(s), s.events)
      BY <1>2, <1>3, <2>2
    <3>2. MessageLink(ph, rs, TRUE, FALSE, StopReason(s), s.events \o more)
      BY <1>2, <1>4, <1>10, <3>1, ContentInMessage
    <3> QED
      BY <1>2, <2>1, <2>2, <3>2 DEF more
  <2>3. CASE ~s.started
    <3>1. s.next = 0
      BY <2>3 DEF Converting, ConvOK
    <3>2. \A t \in Tools : s.opened[t] = NoBlock
      <4>1. 0..(s.next - 1) = {}
        BY <3>1
      <4> QED
        BY <1>1, <4>1 DEF Distinct
    <3>3. DOMAIN more = {}
      BY <1>5, <3>2
    <3>4. more = <<>>
      BY <1>4, <3>3
    <3>5. s.events \o <<>> = s.events
      BY <1>2
    <3> QED
      BY <1>2, <1>3, <2>1, <3>4, <3>5 DEF more
  <2> QED
    BY <2>2, <2>3
<1>15. ConvOK(u)
  <2>1. Distinct(u)
    BY <1>1 DEF Distinct
  <2> QED
    BY <2>1 DEF Converting, ConvOK
<1> QED
  BY <1>11, <1>12, <1>13, <1>14, <1>15 DEF Converting, Link

\* The end of the content, the first time: all blocks are closed, and the tool calls' blocks
\* get their arguments before.
LEMMA FinalContentLink ==
  ASSUME NEW bl, NEW b, NEW ph, NEW rs, NEW s, Converting(bl, b, ph, rs, s)
  PROVE  LET u == FinalContent(s)
         IN  /\ Converting(bl, b, ph, rs, u) /\ u.closed /\ u.args = s.args
             /\ u.finish = s.finish
<1>1. CASE s.closed
  BY <1>1 DEF FinalContent
<1>2. CASE ~s.closed
  <2> DEFINE s0 == StopThinking(s)
             s1 == StopText(s0)
             u == FinalContent(s)
  <2>1. Converting(bl, b, ph, rs, s0) /\ Same(s, s0) /\ s0.thinking = NoBlock
    BY <1>2, StopThinkingLink
  <2>2. ~s0.closed
    BY <1>2, <2>1 DEF Same, Kept
  <2> HIDE DEF s0
  <2>3. /\ Converting(bl, b, ph, rs, s1) /\ Same(s0, s1) /\ s1.text = NoBlock
        /\ s1.thinking = NoBlock
    BY <2>1, <2>2, StopTextLink
  <2>4. ~s1.closed /\ s1.args = s.args /\ s1.finish = s.finish
    BY <2>1, <2>2, <2>3 DEF Same, Kept
  <2> HIDE DEF s1
  <2>5. s1 \in ConvType /\ Distinct(s1) /\ s1.events \in Seq(Event)
    BY <2>3, ConvFields DEF Converting, ConvOK
  <2>6. s1.events \o ToolEnds(s1) \in Seq(Event)
    <3>1. ToolEnds(s1) \in Seq(Event)
      BY <2>5, ToolEndsWork
    <3> QED
      BY <2>5, <3>1
  <2> DEFINE es == s1.events \o ToolEnds(s1)
  <2>7. u = [s1 EXCEPT !.events = es, !.closed = TRUE]
    <3>1. u = [Emit(s1, ToolEnds(s1)) EXCEPT !.closed = TRUE]
      BY <1>2 DEF FinalContent, s1, s0
    <3> QED
      BY <2>5, <3>1 DEF Emit
  <2> HIDE DEF es, u
  <2>8. u \in ConvType
    BY <2>5, <2>6, <2>7 DEF ConvType, es
  <2>9. /\ u.events = es /\ u.text = s1.text /\ u.thinking = s1.thinking
        /\ u.next = s1.next /\ u.opened = s1.opened /\ u.args = s1.args
        /\ u.sawTool = s1.sawTool /\ u.started = s1.started /\ u.finish = s1.finish
        /\ u.closed = TRUE /\ u.deltaSent = s1.deltaSent /\ u.stopSent = s1.stopSent
    BY <2>5, <2>7 DEF ConvType
  <2>10. Converting(bl, b, ph, rs, u)
    BY <2>3, <2>4, <2>8, <2>9, ToolEndsLink DEF es
  <2> QED
    BY <2>4, <2>9, <2>10 DEF u
<1> QED
  BY <1>1, <1>2

\* The arguments of a tool call are counted.
LEMMA ToolCallCounts ==
  ASSUME NEW bl, NEW b \in Nat, NEW ph, NEW rs, NEW s, Converting(bl, b, ph, rs, s),
         ~s.closed, s.started, NEW c \in CallType, NEW u, u = ToolCall(s, c)
  PROVE  Counts(s, u, c)
<1>1. ToolCall(s, c).args = Counted(s.args, c)
  BY ToolCallLink
<1> QED
  BY <1>1 DEF Counts

\* What the conversion of the payload p makes of s is u.
ChunkConverted(bl, b, ph, rs, s, p, u) ==
  /\ Converting(bl, b, ph, rs, u)
  /\ u.finish # "" <=> u.closed
  /\ u.args = [t \in Tools |-> IF p.calls # <<>> /\ p.calls[1].tool = t /\ p.calls[1].args
                               THEN s.args[t] + 1 ELSE s.args[t]]

\* A chunk of the upstream's stream.
LEMMA ConvertLink ==
  ASSUME NEW bl, NEW b \in Nat, NEW ph, NEW rs, NEW s, Converting(bl, b, ph, rs, s),
         s.events = <<>>, s.finish # "" <=> s.closed, NEW p \in PayloadType,
         s.finish # "" => ~p.thinking /\ ~p.text /\ p.calls = <<>> /\ p.finish = ""
  PROVE  ChunkConverted(bl, b, ph, rs, s, p, Convert(s, p))
<1> DEFINE s1 == MessageStarted(s)
           s2 == IF p.thinking THEN Thinking(s1) ELSE s1
           s3 == IF p.text THEN Text(s2) ELSE s2
           s4 == IF p.calls = <<>> THEN s3 ELSE ToolCall(s3, p.calls[1])
           s5 == IF p.finish = "" THEN s4 ELSE FinalContent([s4 EXCEPT !.finish = p.finish])
           u == Convert(s, p)
           args == [t \in Tools |-> IF p.calls # <<>> /\ p.calls[1].tool = t /\ p.calls[1].args
                                    THEN s.args[t] + 1 ELSE s.args[t]]
<1>1. s \in ConvType /\ s.args \in [Tools -> Nat]
  BY ConvFields DEF Converting, ConvOK
<1>2. [s EXCEPT !.events = <<>>] = s
  BY <1>1 DEF ConvType
<1>3. u = IF s5.finish # "" /\ p.usage THEN DeltaAndStop(s5) ELSE s5
  BY <1>2 DEF Convert
<1>4. s.closed => s.started
  BY DEF Converting, ConvOK
<1>5. /\ Converting(bl, b, ph, rs, s1) /\ s1.started
      /\ s1.closed = s.closed /\ s1.finish = s.finish /\ s1.args = s.args
  <2>1. Converting(bl, b, ph, rs, s1) /\ s1.started /\ Same([s EXCEPT !.started = TRUE], s1)
    BY <1>4, MessageStartedLink
  <2>2. s1.closed = s.closed /\ s1.finish = s.finish /\ s1.args = s.args
    BY <1>1, <2>1 DEF Same, Kept, ConvType
  <2> QED
    BY <2>1, <2>2
<1> HIDE DEF s1, u
<1>6. /\ Converting(bl, b, ph, rs, s5) /\ s5.args = args
      /\ s5.finish # "" <=> s5.closed
  <2>1. CASE s.closed
    <3>1. s5 = s1 /\ p.calls = <<>>
      BY <2>1
    <3>2. args = s.args
      BY <1>1, <3>1
    <3> HIDE DEF s5, args
    <3> QED
      BY <1>5, <2>1, <3>1, <3>2
  <2>2. CASE ~s.closed
    <3>1. Converting(bl, b, ph, rs, s2) /\ Same(s1, s2)
      <4>1. CASE p.thinking
        BY <1>5, <2>2, <4>1, ThinkingLink
      <4>2. CASE ~p.thinking
        BY <1>5, <4>2 DEF Same, Kept
      <4> QED
        BY <4>1, <4>2
    <3>2. ~s2.closed /\ s2.started /\ s2.finish = "" /\ s2.args = s.args
      BY <1>5, <2>2, <3>1 DEF Same, Kept
    <3> HIDE DEF s2
    <3>3. Converting(bl, b, ph, rs, s3) /\ Same(s2, s3)
      <4>1. CASE p.text
        BY <3>1, <3>2, <4>1, TextLink
      <4>2. CASE ~p.text
        BY <3>1, <4>2 DEF Same, Kept
      <4> QED
        BY <4>1, <4>2
    <3>4. ~s3.closed /\ s3.started /\ s3.finish = "" /\ s3.args = s.args
      BY <3>2, <3>3 DEF Same, Kept
    <3> HIDE DEF s3
    <3>5. Converting(bl, b, ph, rs, s4) /\ Kept(s3, s4) /\ s4.args = args
      <4>1. CASE p.calls = <<>>
        <5>1. args = s.args
          BY <1>1, <4>1
        <5> HIDE DEF args
        <5> QED
          BY <3>3, <3>4, <4>1, <5>1 DEF Kept
      <4>2. CASE p.calls # <<>>
        <5> DEFINE c == p.calls[1]
        <5>1. c \in CallType
          <6>1. PICK x \in CallType : p.calls = <<x>>
            BY <4>2 DEF PayloadType
          <6>2. <<x>>[1] = x /\ c = <<x>>[1]
            BY <6>1
          <6> QED
            BY <6>2
        <5>2. args = Counted(s.args, c)
          BY <4>2 DEF Counted
        <5>3. s4 = ToolCall(s3, c)
          BY <4>2
        <5> HIDE DEF args, c, s4
        <5>4. s3.started /\ ~s3.closed
          BY <3>4
        <5>5. Converting(bl, b, ph, rs, s4) /\ Kept(s3, s4)
          BY <3>3, <5>1, <5>3, <5>4, ToolCallLink
        <5>6. Counts(s3, s4, c)
          BY <3>3, <5>1, <5>3, <5>4, ToolCallCounts
        <5>7. s4.args = args
          BY <3>4, <5>2, <5>6 DEF Counts
        <5> QED
          BY <5>5, <5>7
      <4> QED
        BY <4>1, <4>2
    <3>6. ~s4.closed /\ s4.started /\ s4.finish = ""
      BY <3>4, <3>5 DEF Kept
    <3> HIDE DEF s4, args
    <3>7. CASE p.finish = ""
      BY <3>5, <3>6, <3>7
    <3>8. CASE p.finish # ""
      <4> DEFINE f == [s4 EXCEPT !.finish = p.finish]
      <4>1. p.finish \in {"stop", "length", "tool_calls"}
        BY <3>8 DEF PayloadType
      <4>2. Converting(bl, b, ph, rs, f) /\ f.finish = p.finish /\ f.args = s4.args
        <5>1. s4 \in ConvType
          BY <3>5 DEF Converting, ConvOK
        <5>2. f \in ConvType
          BY <4>1, <5>1 DEF ConvType
        <5>3. /\ f.events = s4.events /\ f.text = s4.text /\ f.thinking = s4.thinking
              /\ f.next = s4.next /\ f.opened = s4.opened /\ f.args = s4.args
              /\ f.sawTool = s4.sawTool /\ f.started = s4.started /\ f.closed = s4.closed
              /\ f.deltaSent = s4.deltaSent /\ f.stopSent = s4.stopSent
              /\ f.finish = p.finish
          BY <5>1 DEF ConvType
        <5> HIDE DEF f
        <5>4. Converting(bl, b, ph, rs, f)
          BY <3>5, <3>6, <5>2, <5>3, FinishSaid
        <5> QED
          BY <5>3, <5>4
      <4>3. s5 = FinalContent(f)
        BY <3>8
      <4> HIDE DEF f, s5
      <4>4. /\ Converting(bl, b, ph, rs, s5) /\ s5.closed /\ s5.args = f.args
            /\ s5.finish = f.finish
        BY <4>2, <4>3, FinalContentLink
      <4> QED
        BY <3>5, <3>8, <4>2, <4>4
    <3> QED
      BY <3>7, <3>8
  <2> QED
    BY <2>1, <2>2
<1> HIDE DEF s5, args
<1>7. Converting(bl, b, ph, rs, u) /\ (u.finish # "" <=> u.closed) /\ u.args = args
  <2>1. CASE s5.finish # "" /\ p.usage
    <3>1. /\ Converting(bl, b, ph, rs, u) /\ u.closed /\ u.args = s5.args
          /\ u.finish = s5.finish
      BY ZenonT(60), <1>3, <1>6, <2>1, DeltaAndStopLink
    <3> QED
      BY <1>6, <2>1, <3>1
  <2>2. CASE ~(s5.finish # "" /\ p.usage)
    BY <1>3, <1>6, <2>2
  <2> QED
    BY <2>1, <2>2
<1> QED
  BY <1>7 DEF u, args, ChunkConverted

\* The end of the upstream's stream.
LEMMA FinalizeLink ==
  ASSUME NEW bl, NEW b, NEW ph, NEW rs, NEW s, Converting(bl, b, ph, rs, s), s.events = <<>>
  PROVE  LET u == Finalize(s)
         IN  /\ Converting(bl, b, ph, rs, u) /\ u.stopSent /\ u.closed /\ u.args = s.args
             /\ u.finish = s.finish
<1>1. s \in ConvType
  BY DEF Converting, ConvOK
<1>2. [s EXCEPT !.events = <<>>] = s
  BY <1>1 DEF ConvType
<1> DEFINE f == FinalContent(s)
<1>3. Finalize(s) = DeltaAndStop(f)
  BY <1>2 DEF Finalize
<1>4. /\ Converting(bl, b, ph, rs, f) /\ f.closed /\ f.args = s.args /\ f.finish = s.finish
  BY FinalContentLink
<1> HIDE DEF f
<1> QED
  BY <1>3, <1>4, DeltaAndStopLink

-----------------------------------------------------------------------------
(* The first event, once seen, leaves the others linked.                   *)

\* The link of the message, for the converter's state s.
MessageOf(ph, rs, s, es) == MessageLink(ph, rs, s.started, s.stopSent, StopReason(s), es)

\* The order of the events of the message: what has been seen of it when the first
\* event comes, and what is still to come.
LEMMA MessageRest ==
  ASSUME NEW ph, NEW rs, NEW s \in ConvType, NEW es \in Seq(Event),
         MessageOf(ph, rs, s, es), es # <<>>
  PROVE  /\ OfBlock(es[1]) => ph = "open" /\ rs = "none" /\ MessageOf(ph, rs, s, Tail(es))
         /\ es[1].type = "message_start" => ph = "none" /\ MessageOf("open", rs, s, Tail(es))
         /\ es[1].type = "message_delta" =>
              /\ ph # "ended" /\ rs = "none" /\ es[1].reason = StopReason(s) /\ s.stopSent
              /\ Len(es) = 2 /\ es[2].type = "message_stop"
              /\ MessageOf(ph, StopReason(s), s, Tail(es))
         /\ es[1].type = "message_stop" =>
              ph # "ended" /\ rs # "none" /\ MessageOf("ended", rs, s, Tail(es))
<1> DEFINE e == es[1]
           t == Tail(es)
           N == Len(es)
           st == s.started
           sent == s.stopSent
           r == StopReason(s)
<1>1. /\ MessageLink(ph, rs, st, sent, r, es)
      /\ st \in BOOLEAN /\ sent \in BOOLEAN /\ r \in Reasons
  BY ConvFields, StopReasonType DEF MessageOf
<1> HIDE DEF st, sent, r
<1>2. /\ N \in Nat /\ N >= 1 /\ DOMAIN es = 1..N /\ 1 \in DOMAIN es /\ N \in DOMAIN es
      /\ t \in Seq(Event) /\ Len(t) = N - 1 /\ DOMAIN t = 1..(N - 1)
  BY Rest
<1>3. \A m \in DOMAIN t : m + 1 \in DOMAIN es /\ m + 1 # 1 /\ t[m] = es[m + 1]
  <2>1. \A m \in DOMAIN t : m + 1 \in DOMAIN es /\ t[m] = es[m + 1]
    BY Rest
  <2>2. \A m \in DOMAIN t : m + 1 # 1
    BY <1>2
  <2> QED
    BY <2>1, <2>2
<1>4. /\ ph \in {"none", "open", "ended"} /\ rs \in Reasons \cup {"none"} /\ ph # "ended"
      /\ "none" \notin Reasons
  BY <1>1 DEF MessageLink, Reasons
<1>5. N > 1 => N - 1 \in DOMAIN t /\ t[N - 1] = es[N] /\ t # <<>>
  <2> SUFFICES ASSUME N > 1 PROVE N - 1 \in DOMAIN t /\ t[N - 1] = es[N] /\ t # <<>>
    OBVIOUS
  <2>1. N - 1 \in DOMAIN t /\ (N - 1) + 1 = N
    BY <1>2
  <2>2. t # <<>>
    <3>1. DOMAIN <<>> = {}
      OBVIOUS
    <3> QED
      BY <2>1, <3>1, Zenon
  <2>3. t[N - 1] = es[(N - 1) + 1]
    BY <1>3, <2>1
  <2> QED
    BY <2>1, <2>2, <2>3
<1>6. N > 2 => N - 2 \in DOMAIN t /\ t[N - 2] = es[N - 1]
  <2> SUFFICES ASSUME N > 2 PROVE N - 2 \in DOMAIN t /\ t[N - 2] = es[N - 1]
    OBVIOUS
  <2>1. N - 2 \in DOMAIN t /\ (N - 2) + 1 = N - 1
    BY <1>2
  <2> QED
    BY <1>3, <2>1
<1>7. N = 1 => t = <<>>
  BY <1>2
<1>8. /\ e.type = "message_start" => ~OfBlock(e)
      /\ e.type = "message_delta" => ~OfBlock(e)
      /\ e.type = "message_stop" => ~OfBlock(e)
  BY DEF OfBlock, IsStart, IsDelta, IsStop
<1> HIDE DEF e, t, N
\* What is said of each of the later events.
<1>9. /\ \A m \in DOMAIN t : t[m].type # "message_start"
      /\ \A m \in DOMAIN t : OfBlock(t[m]) => st
      /\ ~sent => \A m \in DOMAIN t : t[m].type \notin {"message_delta", "message_stop"}
      /\ rs # "none" => \A m \in DOMAIN t : t[m].type = "message_stop"
  BY <1>1, <1>3 DEF MessageLink
<1>10. \A m \in DOMAIN t : t[m].type = "message_stop" => m = Len(t)
  <2> SUFFICES ASSUME NEW m \in DOMAIN t, t[m].type = "message_stop" PROVE m = Len(t)
    OBVIOUS
  <2>1. m + 1 = N
    BY <1>1, <1>3 DEF MessageLink, N
  <2> QED
    BY <1>2, <2>1
<1>11. \A m \in DOMAIN t : t[m].type = "message_delta" => t[m].reason = r /\ m = Len(t) - 1
  <2> SUFFICES ASSUME NEW m \in DOMAIN t, t[m].type = "message_delta"
               PROVE  t[m].reason = r /\ m = Len(t) - 1
    OBVIOUS
  <2>1. t[m].reason = r /\ m + 1 = N - 1
    BY <1>1, <1>3 DEF MessageLink, N
  <2> QED
    BY <1>2, <2>1
<1>12. ~sent => rs = "none"
  BY <1>1 DEF MessageLink
<1>13. rs # "none" => rs = r /\ N <= 1 /\ e.type = "message_stop"
  BY <1>1, <1>2 DEF MessageLink, N, e
<1>14. sent => /\ es[N].type = "message_stop"
               /\ rs = "none" => N > 1 /\ es[N - 1].type = "message_delta"
  BY <1>1, <1>4 DEF MessageLink, N
<1>15. /\ e.type = "message_stop" => N = 1 /\ sent
       /\ e.type = "message_delta" => N = 2 /\ sent /\ e.reason = r
  <2>1. e.type = "message_stop" => N = 1 /\ sent
    BY <1>1, <1>2 DEF MessageLink, N, e
  <2>2. e.type = "message_delta" => 1 = N - 1 /\ sent /\ e.reason = r
    BY <1>1, <1>2 DEF MessageLink, N, e
  <2> QED
    BY <1>2, <2>1, <2>2
\* Events before the end.
<1>16. e.type \notin {"message_delta", "message_stop"} => rs = "none"
  BY <1>13
<1>17. ASSUME sent, e.type \notin {"message_delta", "message_stop"}
       PROVE  /\ t # <<>> /\ t[Len(t)].type = "message_stop"
              /\ Len(t) > 1 /\ t[Len(t) - 1].type = "message_delta"
  <2>1. N > 1 /\ es[N - 1].type = "message_delta" /\ es[N].type = "message_stop"
    BY <1>14, <1>16, <1>17
  <2>2. N # 2
    BY <1>17, <2>1 DEF e
  <2>3. Len(t) = N - 1 /\ Len(t) - 1 = N - 2 /\ N > 2
    BY <1>2, <2>1, <2>2
  <2> QED
    BY <1>5, <1>6, <2>1, <2>3
<1>18. ASSUME OfBlock(e)
       PROVE  ph = "open" /\ rs = "none" /\ MessageLink(ph, rs, st, sent, r, t)
  <2>1. e.type \notin {"message_delta", "message_stop", "message_start"} /\ rs = "none"
    BY <1>8, <1>16, <1>18
  <2>2. st /\ ph # "none"
    <3>1. st
      BY <1>1, <1>2, <1>18 DEF MessageLink, e
    <3>2. ph # "none"
      BY <1>1, <2>1, <3>1 DEF MessageLink, e
    <3> QED
      BY <3>1, <3>2
  <2>3. ph = "open"
    BY <1>4, <2>2
  <2> QED
    BY <1>1, <1>4, <1>9, <1>10, <1>11, <1>17, <2>1, <2>2, <2>3 DEF MessageLink
<1>19. ASSUME e.type = "message_start"
       PROVE  ph = "none" /\ MessageLink("open", rs, st, sent, r, t)
  <2>1. ph = "none" /\ st
    BY <1>1, <1>2, <1>19 DEF MessageLink, e
  <2>2. rs = "none"
    BY <1>16, <1>19
  <2> QED
    BY <1>1, <1>4, <1>9, <1>10, <1>11, <1>17, <1>19, <2>1, <2>2 DEF MessageLink
<1>20. ASSUME e.type = "message_delta"
       PROVE  /\ rs = "none" /\ e.reason = r /\ sent /\ N = 2
              /\ es[2].type = "message_stop" /\ MessageLink(ph, r, st, sent, r, t)
  <2>1. N = 2 /\ sent /\ e.reason = r /\ rs = "none"
    BY <1>13, <1>15, <1>20
  <2>2. es[2].type = "message_stop"
    BY <1>14, <2>1
  <2>3. Len(t) = 1 /\ DOMAIN t = {1} /\ t[1].type = "message_stop" /\ t # <<>>
    BY <1>2, <1>5, <2>1, <2>2
  <2>4. st => ph # "none"
    BY <1>1, <1>20 DEF MessageLink, e
  <2>5. ph = "open" => st
    BY <1>1 DEF MessageLink
  <2> QED
    BY <1>1, <1>4, <1>9, <2>1, <2>2, <2>3, <2>4, <2>5 DEF MessageLink
<1>21. ASSUME e.type = "message_stop"
       PROVE  rs # "none" /\ MessageLink("ended", rs, st, sent, r, t)
  <2>1. N = 1 /\ sent
    BY <1>15, <1>21
  <2>2. rs # "none"
    BY <1>14, <2>1
  <2>3. rs = r
    BY <1>13, <2>2
  <2>4. t = <<>> /\ Len(t) = 0 /\ DOMAIN t = {}
    BY <1>2, <1>7, <2>1
  <2> QED
    BY <1>1, <1>4, <2>1, <2>2, <2>3, <2>4 DEF MessageLink
<1> QED
  BY <1>4, <1>18, <1>19, <1>20, <1>21 DEF MessageOf, e, t, N, st, sent, r

\* What the first event brings to the tool calls' blocks.
LEMMA ToolRest ==
  ASSUME NEW bl, NEW b, NEW s, NEW es \in Seq(Event), ToolLink(bl, b, s, es), es # <<>>,
         NEW now, \A i \in 0..(b - 1) : now[i].kind = bl[i].kind
  PROVE  /\ ToolLink(now, b, s, Tail(es))
         /\ b \in Nat /\ IsStart(es[1]) /\ es[1].index = b /\ now[b].kind = es[1].kind =>
              ToolLink(now, b + 1, s, Tail(es))
<1> DEFINE t == Tail(es)
<1>1. /\ 1 \in DOMAIN es
      /\ \A m \in DOMAIN t : m + 1 \in DOMAIN es /\ t[m] = es[m + 1]
  BY Rest
<1> HIDE DEF t
<1>2. \A m \in DOMAIN t : IsStart(t[m]) /\ t[m].kind.kind = "tool" =>
        s.sawTool /\ s.opened[t[m].kind.tool] = t[m].index
  BY <1>1 DEF ToolLink
<1>3. \A i \in 0..(b - 1) : now[i].kind.kind = "tool" =>
        s.sawTool /\ s.opened[now[i].kind.tool] = i
  BY DEF ToolLink
<1>4. ASSUME b \in Nat, IsStart(es[1]), es[1].index = b, now[b].kind = es[1].kind
      PROVE  ToolLink(now, b + 1, s, t)
  <2>1. now[b].kind.kind = "tool" => s.sawTool /\ s.opened[now[b].kind.tool] = b
    BY <1>1, <1>4 DEF ToolLink
  <2>2. \A i \in 0..((b + 1) - 1) : i = b \/ i \in 0..(b - 1)
    BY <1>4
  <2> QED
    BY <1>2, <1>3, <2>1, <2>2 DEF ToolLink
<1>5. ToolLink(now, b, s, t)
  BY <1>2, <1>3 DEF ToolLink
<1> QED
  BY <1>4, <1>5 DEF t

\* What block i gets, whatever of it the first event brings.
LEMMA FillsRest ==
  ASSUME NEW bl, NEW b, NEW i, NEW n, NEW es \in Seq(Event), Fills(bl, b, i, n, es), es # <<>>,
         NEW now, NEW c,
         ~(IsDelta(es[1]) /\ es[1].index = i) =>
           (IF i < c THEN now[i].size ELSE 0) = (IF i < b THEN bl[i].size ELSE 0),
         IsDelta(es[1]) /\ es[1].index = i =>
           i < b /\ i < c /\ bl[i].size \in Nat /\ now[i].size = bl[i].size + es[1].size
  PROVE  Fills(now, c, i, n, Tail(es))
<1> DEFINE t == Tail(es)
           D == {m \in DOMAIN es : IsDelta(es[m]) /\ es[m].index = i}
           E == {m \in DOMAIN t : IsDelta(t[m]) /\ t[m].index = i}
           had == IF i < b THEN bl[i].size ELSE 0
           has == IF i < c THEN now[i].size ELSE 0
<1>1. /\ Len(es) \in Nat /\ DOMAIN es = 1..Len(es) /\ 1 \in DOMAIN es
      /\ DOMAIN t = 1..(Len(es) - 1) /\ es[1] \in Event
  BY Rest
<1>2. \A m \in DOMAIN t : m + 1 \in DOMAIN es /\ m + 1 # 1 /\ t[m] = es[m + 1]
  <2>1. \A m \in DOMAIN t : m + 1 \in DOMAIN es /\ t[m] = es[m + 1]
    BY Rest
  <2>2. \A m \in DOMAIN t : m + 1 # 1
    BY <1>1
  <2> QED
    BY <2>1, <2>2
<1>3. \A m \in DOMAIN es : m = 1 \/ (m - 1 \in DOMAIN t /\ t[m - 1] = es[m])
  BY Rest
<1>4. \/ had = n /\ D = {}
      \/ had = 0 /\ \E m \in D : es[m].size = n /\ D = {m}
  BY DEF Fills
<1> HIDE DEF t
<1>5. \A m \in E : m + 1 \in D /\ m + 1 # 1
  BY <1>2
<1>6. \A m \in D : m = 1 \/ (m - 1 \in E /\ t[m - 1] = es[m])
  BY <1>3
<1>7. 1 \in D <=> IsDelta(es[1]) /\ es[1].index = i
  BY <1>1
<1>8. E \subseteq DOMAIN t /\ D \subseteq DOMAIN es
  OBVIOUS
<1>9. Fills(now, c, i, n, t) <=>
        \/ has = n /\ E = {}
        \/ has = 0 /\ \E m \in E : t[m].size = n /\ E = {m}
  BY DEF Fills
<1> HIDE DEF D, E
<1>10. CASE 1 \in D
  <2>1. had = 0 /\ es[1].size = n /\ D = {1}
    BY <1>4, <1>10
  <2>2. E = {}
    BY <1>5, <2>1
  <2>3. es[1].size \in Nat
    BY <1>1, <1>7, <1>10 DEF IsDelta, Event
  <2>4. has = n
    BY <1>7, <1>10, <2>1, <2>3
  <2> QED
    BY <1>9, <2>2, <2>4 DEF t
<1>11. CASE 1 \notin D
  <2>1. has = had
    BY <1>7, <1>11
  <2> HIDE DEF has, had
  <2>2. CASE had = n /\ D = {}
    <3>1. E = {}
      BY <1>5, <2>2
    <3> QED
      BY <1>9, <2>1, <2>2, <3>1 DEF t
  <2>3. ASSUME had = 0, NEW m \in D, es[m].size = n, D = {m}
        PROVE  Fills(now, c, i, n, t)
    <3>1. m - 1 \in E /\ t[m - 1].size = n
      BY <1>6, <1>11, <2>3
    <3>2. \A k \in E : k = m - 1
      <4> SUFFICES ASSUME NEW k \in E PROVE k = m - 1
        OBVIOUS
      <4>1. k + 1 = m
        BY <1>5, <2>3
      <4>2. k \in Int
        BY <1>1, <1>8
      <4> QED
        BY <4>1, <4>2
    <3>3. E = {m - 1}
      BY <3>1, <3>2
    <3> QED
      BY <1>9, <2>1, <2>3, <3>1, <3>3
  <2> QED
    BY <1>4, <2>2, <2>3 DEF t
<1> QED
  BY <1>10, <1>11

\* A block the client has.
LEMMA BlocksTyped ==
  ASSUME NEW bl, NEW b, NEW n \in Nat, NEW O, NEW es, BlockLink(bl, b, n, O, es)
  PROVE  /\ b \in Nat /\ DOMAIN bl = 0..(b - 1) /\ es \in Seq(Event)
         /\ bl \in [0..(b - 1) -> BlockType]
         /\ \A i \in 0..(b - 1) : /\ i \in Nat /\ i < b
                                  /\ bl[i].kind \in Kinds
                                  /\ bl[i].open \in BOOLEAN /\ bl[i].size \in Nat
<1>1. b \in Nat /\ bl \in [0..(b - 1) -> BlockType] /\ es \in Seq(Event)
  BY DEF BlockLink
<1>2. \A i \in 0..(b - 1) : i \in Nat /\ i < b
  BY <1>1
<1>3. \A i \in 0..(b - 1) :
        bl[i].kind \in Kinds /\ bl[i].open \in BOOLEAN /\ bl[i].size \in Nat
  BY <1>1 DEF BlockType
<1> QED
  BY <1>1, <1>2, <1>3

\* The client sees a block start.
LEMMA StartSeen ==
  ASSUME NEW bl, NEW b, NEW ph, NEW rs, NEW s \in ConvType, NEW es, Link(bl, b, ph, rs, s, es),
         es # <<>>, IsStart(es[1]), NEW now, now = WithStart(bl, es[1])
  PROVE  /\ ph = "open" /\ rs = "none" /\ DOMAIN bl = 0..(b - 1) /\ es[1].index = b
         /\ es[1].kind \in Kinds
         /\ Link(now, b + 1, ph, rs, s, Tail(es))
<1> DEFINE e == es[1]
           t == Tail(es)
           O == Open(s)
<1>1. s.next \in Nat /\ s.opened \in [Tools -> BlockNo]
  BY ConvFields
<1>2. MessageOf(ph, rs, s, es)
  BY DEF Link, MessageOf
<1>3. BlockLink(bl, b, s.next, O, es)
  BY DEF Link
<1>4. /\ b \in Nat /\ DOMAIN bl = 0..(b - 1) /\ es \in Seq(Event)
      /\ \A i \in 0..(b - 1) : i \in Nat /\ i < b
  BY <1>1, <1>3, BlocksTyped
<1> HIDE DEF O
<1>5. e.index = b /\ BlockLink(now, b + 1, s.next, O, t)
  BY <1>1, <1>3, SeesStart
<1>6. e \in Event /\ OfBlock(e) /\ ~IsDelta(e)
  BY <1>4, Rest DEF OfBlock, IsStart, IsDelta
<1>7. e.kind \in Kinds
  BY <1>6 DEF Event, IsStart
<1>8. /\ now[b].kind = e.kind /\ now[b].size = 0
      /\ \A i \in 0..(b - 1) : now[i] = bl[i]
  <2>1. \A i \in 0..(b - 1) : i # b
    BY <1>4
  <2>2. now[b] = [kind |-> e.kind, open |-> TRUE, size |-> 0]
    BY <1>5 DEF WithStart
  <2>3. \A i \in 0..(b - 1) : now[i] = bl[i]
    BY <1>4, <1>5, <2>1 DEF WithStart
  <2> QED
    BY <2>2, <2>3
<1>9. ph = "open" /\ rs = "none" /\ MessageOf(ph, rs, s, t)
  BY <1>2, <1>4, <1>6, MessageRest
<1>10. ToolLink(now, b + 1, s, t)
  <2>1. ToolLink(bl, b, s, es)
    BY DEF Link
  <2>2. \A i \in 0..(b - 1) : now[i].kind = bl[i].kind
    BY <1>8
  <2> QED
    BY <1>4, <1>5, <1>8, <2>1, <2>2, ToolRest
<1>11. ArgsLink(now, b + 1, s, t)
  <2> SUFFICES ASSUME NEW c \in Tools, s.opened[c] # NoBlock
               PROVE  Fills(now, b + 1, s.opened[c], IF s.closed THEN s.args[c] ELSE 0, t)
    BY DEF ArgsLink
  <2> DEFINE i == s.opened[c]
             n == IF s.closed THEN s.args[c] ELSE 0
  <2>1. Fills(bl, b, i, n, es)
    BY DEF Link, ArgsLink
  <2>2. i \in Nat
    BY <1>1 DEF BlockNo
  <2> HIDE DEF i, n, t
  <2>3. (IF i < b + 1 THEN now[i].size ELSE 0) = (IF i < b THEN bl[i].size ELSE 0)
    <3>1. CASE i < b
      <4>1. i \in 0..(b - 1) /\ i < b + 1
        BY <1>4, <2>2, <3>1
      <4>2. now[i] = bl[i]
        BY <1>8, <4>1
      <4> QED
        BY <3>1, <4>1, <4>2
    <3>2. CASE i = b
      BY <1>4, <1>8, <3>2
    <3>3. CASE i > b
      BY <1>4, <2>2, <3>3
    <3> QED
      BY <1>4, <2>2, <3>1, <3>2, <3>3
  <2> QED
    BY <1>4, <1>6, <2>1, <2>3, FillsRest DEF i, n, t
<1> QED
  BY <1>4, <1>5, <1>7, <1>9, <1>10, <1>11 DEF Link, MessageOf, O

\* The client sees something else: only the block it is for changes.
LEMMA OtherSeen ==
  ASSUME NEW bl, NEW b, NEW ph, NEW rs, NEW s \in ConvType, NEW es, Link(bl, b, ph, rs, s, es),
         es # <<>>, ~IsStart(es[1]), NEW now \in [0..(b - 1) -> BlockType],
         \A i \in 0..(b - 1) :
           now[i].open = (bl[i].open /\ ~(IsStop(es[1]) /\ es[1].index = i)),
         \A i \in 0..(b - 1) : now[i].kind = bl[i].kind,
         \A i \in 0..(b - 1) : now[i].size =
           IF IsDelta(es[1]) /\ es[1].index = i THEN bl[i].size + es[1].size ELSE bl[i].size,
         NEW ph2, NEW rs2,
         MessageOf(ph2, rs2, s, Tail(es))
  PROVE  Link(now, b, ph2, rs2, s, Tail(es))
<1> DEFINE e == es[1]
           t == Tail(es)
           O == Open(s)
<1>1. s.next \in Nat /\ s.opened \in [Tools -> BlockNo]
  BY ConvFields
<1>2. BlockLink(bl, b, s.next, O, es)
  BY DEF Link
<1>3. /\ b \in Nat /\ es \in Seq(Event)
      /\ \A i \in 0..(b - 1) : i < b /\ bl[i].size \in Nat
  BY <1>1, <1>2, BlocksTyped
<1> HIDE DEF O
<1>4. /\ OfBlock(e) => e.index \in 0..(b - 1)
      /\ BlockLink(now, b, s.next, O, t)
  <2>1. OfBlock(e) => e.index \in 0..(b - 1)
    BY <1>1, <1>2, HeadIsOpen
  <2>2. BlockLink(now, b, s.next, O, t)
    BY <1>1, <1>2, SeesOther
  <2> QED
    BY <2>1, <2>2
<1>5. ToolLink(now, b, s, t)
  <2>1. ToolLink(bl, b, s, es)
    BY DEF Link
  <2> QED
    BY <1>3, <2>1, ToolRest
<1>6. ArgsLink(now, b, s, t)
  <2> SUFFICES ASSUME NEW c \in Tools, s.opened[c] # NoBlock
               PROVE  Fills(now, b, s.opened[c], IF s.closed THEN s.args[c] ELSE 0, t)
    BY DEF ArgsLink
  <2> DEFINE i == s.opened[c]
             n == IF s.closed THEN s.args[c] ELSE 0
  <2>1. Fills(bl, b, i, n, es)
    BY DEF Link, ArgsLink
  <2>2. i \in Nat
    BY <1>1 DEF BlockNo
  <2> HIDE DEF i, n, t
  <2>3. ~(IsDelta(es[1]) /\ es[1].index = i) =>
          (IF i < b THEN now[i].size ELSE 0) = (IF i < b THEN bl[i].size ELSE 0)
    <3> SUFFICES ASSUME ~(IsDelta(es[1]) /\ es[1].index = i), i < b
                 PROVE  now[i].size = bl[i].size
      OBVIOUS
    <3>1. i \in 0..(b - 1)
      BY <1>3, <2>2
    <3> QED
      BY <3>1
  <2>4. IsDelta(es[1]) /\ es[1].index = i =>
          i < b /\ bl[i].size \in Nat /\ now[i].size = bl[i].size + es[1].size
    <3> SUFFICES ASSUME IsDelta(es[1]), es[1].index = i
                 PROVE  i < b /\ bl[i].size \in Nat /\ now[i].size = bl[i].size + es[1].size
      OBVIOUS
    <3>1. i \in 0..(b - 1)
      BY <1>4 DEF OfBlock
    <3> QED
      BY <1>3, <3>1
  <2> QED
    BY <1>3, <2>1, <2>3, <2>4, FillsRest DEF i, n, t
<1> QED
  BY <1>4, <1>5, <1>6 DEF Link, MessageOf, O

\* The client's blocks when e fills one or stops one.
WithDelta(bl, e) == [bl EXCEPT ![e.index].size = @ + e.size]
WithStop(bl, e) == [bl EXCEPT ![e.index].open = FALSE]

\* The client sees a delta or the stop of a block.
LEMMA BlockSeen ==
  ASSUME NEW bl, NEW b, NEW ph, NEW rs, NEW s \in ConvType, NEW es, Link(bl, b, ph, rs, s, es),
         es # <<>>, IsDelta(es[1]) \/ IsStop(es[1]), NEW now,
         IsDelta(es[1]) => now = WithDelta(bl, es[1]),
         IsStop(es[1]) => now = WithStop(bl, es[1])
  PROVE  /\ ph = "open" /\ rs = "none" /\ es[1].index \in DOMAIN bl /\ bl[es[1].index].open
         /\ IsDelta(es[1]) => bl[es[1].index].size \in Nat /\ es[1].size \in Nat \ {0}
         /\ Link(now, b, ph, rs, s, Tail(es))
<1> DEFINE e == es[1]
           t == Tail(es)
           O == Open(s)
<1>1. s.next \in Nat
  BY ConvFields
<1>2. MessageOf(ph, rs, s, es)
  BY DEF Link, MessageOf
<1>3. BlockLink(bl, b, s.next, O, es)
  BY DEF Link
<1> HIDE DEF O
<1>4. /\ DOMAIN bl = 0..(b - 1) /\ es \in Seq(Event) /\ bl \in [0..(b - 1) -> BlockType]
      /\ \A i \in 0..(b - 1) : bl[i].size \in Nat
  BY <1>1, <1>3, BlocksTyped
<1>5. e \in Event /\ OfBlock(e) /\ ~IsStart(e) /\ ~(IsDelta(e) /\ IsStop(e))
  BY <1>4, Rest DEF OfBlock, IsStart, IsDelta, IsStop
<1>6. IsDelta(e) => e.size \in Nat \ {0}
  BY <1>5 DEF Event, IsDelta
<1>7. e.index \in 0..(b - 1) /\ bl[e.index].open
  BY <1>1, <1>3, <1>4, <1>5, HeadIsOpen
<1>8. /\ now \in [0..(b - 1) -> BlockType]
      /\ \A i \in 0..(b - 1) : now[i].open = (bl[i].open /\ ~(IsStop(e) /\ e.index = i))
      /\ \A i \in 0..(b - 1) : now[i].kind = bl[i].kind
      /\ \A i \in 0..(b - 1) : now[i].size =
           IF IsDelta(e) /\ e.index = i THEN bl[i].size + e.size ELSE bl[i].size
  <2> HIDE DEF e
  <2>1. CASE IsDelta(e)
    <3> DEFINE x == [bl[e.index] EXCEPT !.size = bl[e.index].size + e.size]
    <3>1. now = [bl EXCEPT ![e.index] = x]
      BY <2>1 DEF e, WithDelta
    <3>2. /\ x \in BlockType /\ x.open = bl[e.index].open /\ x.kind = bl[e.index].kind
          /\ x.size = bl[e.index].size + e.size
      <4>1. bl[e.index] \in BlockType /\ bl[e.index].size + e.size \in Nat
        BY <1>4, <1>6, <1>7, <2>1
      <4> QED
        BY <4>1 DEF BlockType
    <3> HIDE DEF x
    <3>3. now \in [0..(b - 1) -> BlockType]
      BY <1>4, <1>7, <3>1, <3>2
    <3>4. now[e.index] = x /\ \A i \in 0..(b - 1) : i # e.index => now[i] = bl[i]
      BY <1>4, <1>7, <3>1
    <3>5. ~IsStop(e)
      BY <1>5, <2>1
    <3>6. \A i \in 0..(b - 1) : now[i].open = bl[i].open /\ now[i].kind = bl[i].kind
      BY <3>2, <3>4
    <3>7. \A i \in 0..(b - 1) : bl[i].open \in BOOLEAN
      BY <1>4 DEF BlockType
    <3>8. \A i \in 0..(b - 1) : now[i].size =
            IF e.index = i THEN bl[i].size + e.size ELSE bl[i].size
      BY <3>2, <3>4
    <3> QED
      BY <2>1, <3>3, <3>5, <3>6, <3>7, <3>8
  <2>2. CASE IsStop(e)
    <3> DEFINE x == [bl[e.index] EXCEPT !.open = FALSE]
    <3>1. now = [bl EXCEPT ![e.index] = x]
      BY <2>2 DEF e, WithStop
    <3>2. x \in BlockType /\ x.open = FALSE /\ x.kind = bl[e.index].kind
          /\ x.size = bl[e.index].size
      BY <1>4, <1>7 DEF BlockType
    <3> HIDE DEF x
    <3>3. now \in [0..(b - 1) -> BlockType]
      BY <1>4, <1>7, <3>1, <3>2
    <3>4. now[e.index] = x /\ \A i \in 0..(b - 1) : i # e.index => now[i] = bl[i]
      BY <1>4, <1>7, <3>1
    <3>5. \A i \in 0..(b - 1) : now[i].open = (bl[i].open /\ ~(IsStop(e) /\ e.index = i))
      <4> SUFFICES ASSUME NEW i \in 0..(b - 1)
                   PROVE  now[i].open = (bl[i].open /\ ~(IsStop(e) /\ e.index = i))
        OBVIOUS
      <4>1. bl[i].open \in BOOLEAN
        BY <1>4 DEF BlockType
      <4> QED
        BY <2>2, <3>2, <3>4, <4>1
    <3> QED
      BY <1>5, <2>2, <3>2, <3>3, <3>4, <3>5 DEF e
  <2> QED
    BY <2>1, <2>2 DEF e
<1>9. ph = "open" /\ rs = "none" /\ MessageOf(ph, rs, s, t)
  BY <1>2, <1>4, <1>5, MessageRest
<1>10. Link(now, b, ph, rs, s, t)
  BY <1>5, <1>8, <1>9, OtherSeen
<1> QED
  BY <1>4, <1>6, <1>7, <1>9, <1>10

\* The client sees an event of the message.
LEMMA MessageSeen ==
  ASSUME NEW bl, NEW b, NEW ph, NEW rs, NEW s \in ConvType, NEW es, Link(bl, b, ph, rs, s, es),
         es # <<>>, ~OfBlock(es[1]), NEW ph2, NEW rs2,
         MessageOf(ph2, rs2, s, Tail(es))
  PROVE  Link(bl, b, ph2, rs2, s, Tail(es))
<1>1. s.next \in Nat
  BY ConvFields
<1>2. BlockLink(bl, b, s.next, Open(s), es)
  BY DEF Link
<1>3. /\ bl \in [0..(b - 1) -> BlockType] /\ es \in Seq(Event)
      /\ \A i \in 0..(b - 1) : bl[i].open \in BOOLEAN
  BY <1>1, <1>2, BlocksTyped
<1>4. ~IsStart(es[1]) /\ ~IsStop(es[1]) /\ ~IsDelta(es[1])
  BY DEF OfBlock
<1> QED
  BY <1>3, <1>4, OtherSeen

\* Once the content has ended no block is open for the converter.
LEMMA NothingOpen ==
  ASSUME NEW s, ConvOK(s), s.closed
  PROVE  Open(s) = {}
  BY DEF ConvOK, Open

\* With the end of the message on its way, all blocks of the client are closed.
LEMMA AllClosed ==
  ASSUME NEW bl, NEW b, NEW n \in Nat, NEW es, BlockLink(bl, b, n, {}, es), Len(es) = 2,
         ~IsStop(es[1]), ~IsStop(es[2])
  PROVE  \A i \in DOMAIN bl : ~bl[i].open
<1>1. DOMAIN bl = 0..(b - 1) /\ b \in 0..n /\ es \in Seq(Event)
  BY DEF BlockLink
<1>2. \A m \in DOMAIN es : ~IsStop(es[m])
  BY <1>1
<1> SUFFICES ASSUME NEW i \in DOMAIN bl, bl[i].open PROVE FALSE
  OBVIOUS
<1>3. i \in 0..(n - 1)
  BY <1>1
<1> QED
  BY <1>2, <1>3 DEF BlockLink

\* The client sees the message start.
LEMMA MessageStartSeen ==
  ASSUME NEW bl, NEW b, NEW ph, NEW rs, NEW s \in ConvType, NEW es, Link(bl, b, ph, rs, s, es),
         es # <<>>, es[1].type = "message_start"
  PROVE  ph = "none" /\ Link(bl, b, "open", rs, s, Tail(es))
<1>1. s.next \in Nat
  BY ConvFields
<1>2. es \in Seq(Event) /\ MessageOf(ph, rs, s, es)
  BY <1>1, BlocksTyped DEF Link, MessageOf
<1>3. ph = "none" /\ MessageOf("open", rs, s, Tail(es))
  BY <1>1, <1>2, MessageRest
<1>4. ~OfBlock(es[1])
  BY DEF OfBlock, IsStart, IsDelta, IsStop
<1> QED
  BY <1>3, <1>4, MessageSeen

\* The client sees why the message ends: all its blocks are closed.
LEMMA MessageDeltaSeen ==
  ASSUME NEW bl, NEW b, NEW ph, NEW rs, NEW s, ConvOK(s), NEW es, Link(bl, b, ph, rs, s, es),
         es # <<>>, es[1].type = "message_delta"
  PROVE  /\ ph # "ended" /\ rs = "none"
         /\ es[1].reason = StopReason(s) /\ StopReason(s) \in Reasons
         /\ \A i \in DOMAIN bl : ~bl[i].open
         /\ Link(bl, b, ph, StopReason(s), s, Tail(es))
<1>1. s \in ConvType /\ s.next \in Nat /\ StopReason(s) \in Reasons
  BY ConvFields, StopReasonType DEF ConvOK
<1>2. es \in Seq(Event) /\ MessageOf(ph, rs, s, es)
  BY <1>1, BlocksTyped DEF Link, MessageOf
<1>3. /\ ph # "ended" /\ rs = "none" /\ es[1].reason = StopReason(s) /\ s.stopSent
      /\ Len(es) = 2 /\ es[2].type = "message_stop"
      /\ MessageOf(ph, StopReason(s), s, Tail(es))
  BY <1>1, <1>2, MessageRest
<1>4. ~OfBlock(es[1])
  BY DEF OfBlock, IsStart, IsDelta, IsStop
<1>5. Link(bl, b, ph, StopReason(s), s, Tail(es))
  BY <1>1, <1>3, <1>4, MessageSeen
<1>6. \A i \in DOMAIN bl : ~bl[i].open
  <2>1. Open(s) = {}
    BY <1>3, NothingOpen DEF ConvOK
  <2>2. ~IsStop(es[1]) /\ ~IsStop(es[2])
    BY <1>3 DEF IsStop
  <2>3. BlockLink(bl, b, s.next, {}, es)
    BY <2>1 DEF Link
  <2> QED
    BY <1>1, <1>3, <2>2, <2>3, AllClosed
<1> QED
  BY <1>1, <1>3, <1>5, <1>6

\* The client sees the message end.
LEMMA MessageStopSeen ==
  ASSUME NEW bl, NEW b, NEW ph, NEW rs, NEW s \in ConvType, NEW es, Link(bl, b, ph, rs, s, es),
         es # <<>>, es[1].type = "message_stop"
  PROVE  ph # "ended" /\ rs # "none" /\ Link(bl, b, "ended", rs, s, Tail(es))
<1>1. s.next \in Nat
  BY ConvFields
<1>2. es \in Seq(Event) /\ MessageOf(ph, rs, s, es)
  BY <1>1, BlocksTyped DEF Link, MessageOf
<1>3. ph # "ended" /\ rs # "none" /\ MessageOf("ended", rs, s, Tail(es))
  BY <1>1, <1>2, MessageRest
<1>4. ~OfBlock(es[1])
  BY DEF OfBlock, IsStart, IsDelta, IsStop
<1> QED
  BY <1>3, <1>4, MessageSeen

-----------------------------------------------------------------------------
(* The steps of the loop.                                                  *)

\* The client can follow the event written next, and stays linked.
LEMMA EventSeen ==
  ASSUME ConvOK(conv), NEW b \in Nat, Link(blocks, b, phase, reason, conv, pending), WriteEvent
  PROVE  /\ \E c \in Nat : Link(blocks', c, phase', reason', conv, pending')
         /\ Protocol!Next
<1> DEFINE e == pending[1]
<1>1. conv \in ConvType /\ conv.next \in Nat
  BY ConvFields DEF ConvOK
<1>2. BlockLink(blocks, b, conv.next, Open(conv), pending)
  BY DEF Link
<1>3. pending # <<>>
  BY DEF WriteEvent
<1>4. pending' = Tail(pending)
  BY DEF WriteEvent
<1>5. /\ DOMAIN blocks = 0..(b - 1) /\ pending \in Seq(Event)
      /\ blocks \in [0..(b - 1) -> BlockType]
  BY <1>1, <1>2, BlocksTyped
<1>6. e = Head(pending) /\ e \in Event
  BY <1>3, <1>5, Rest
<1>7. Sees(e)
  BY <1>6 DEF WriteEvent
<1> HIDE DEF e
<1>8. CASE IsStart(e)
  <2>1. blocks' = WithStart(blocks, e) /\ phase' = phase /\ reason' = reason
    BY <1>7, <1>8 DEF Sees, IsStart, WithStart
  <2>2. /\ phase = "open" /\ reason = "none" /\ e.index = b /\ e.kind \in Kinds
        /\ Link(blocks', b + 1, phase, reason, conv, pending')
    BY <1>1, <1>3, <1>4, <1>8, <2>1, StartSeen DEF e
  <2>3. Protocol!BlockStart(e.kind)
    <3>1. Protocol!Cardinality(DOMAIN blocks) = b
      <4>1. Cardinality(0..(b - 1)) = b
        BY FS_Interval
      <4>2. Protocol!Cardinality(DOMAIN blocks) = Cardinality(DOMAIN blocks)
        BY DEF Cardinality, Protocol!Cardinality
      <4> QED
        BY <1>5, <4>1, <4>2
    <3>2. blocks' = [i \in DOMAIN blocks \cup {b} |->
                      IF i = b THEN [kind |-> e.kind, open |-> TRUE, size |-> 0] ELSE blocks[i]]
      <4>1. e.index = b
        BY <2>2
      <4> QED
        BY <2>1, <4>1, Zenon DEF WithStart
    <3> QED
      BY <2>1, <2>2, <3>1, <3>2, Zenon DEF Protocol!BlockStart
  <2> QED
    BY <2>1, <2>2, <2>3 DEF Protocol!Next, Kinds
<1>9. CASE IsDelta(e)
  <2>1. blocks' = WithDelta(blocks, e) /\ phase' = phase /\ reason' = reason
    BY <1>7, <1>9 DEF Sees, IsDelta, WithDelta
  <2>2. ~IsStop(e)
    BY <1>9 DEF IsDelta, IsStop
  <2>3. /\ e.index \in DOMAIN blocks /\ blocks[e.index].open
        /\ blocks[e.index].size \in Nat /\ e.size \in Nat \ {0}
        /\ Link(blocks', b, phase, reason, conv, pending')
    BY <1>1, <1>3, <1>4, <1>9, <2>1, <2>2, BlockSeen DEF e
  <2>4. Protocol!BlockDelta(e.index)
    <3> DEFINE x == blocks[e.index].size + e.size
    <3>1. x > blocks[e.index].size
      BY <2>3
    <3>2. blocks' = [blocks EXCEPT ![e.index].size = x]
      BY <2>1 DEF WithDelta
    <3> HIDE DEF x
    <3>3. blocks'[e.index].size = x
      <4>1. blocks[e.index] \in BlockType
        BY <1>5, <2>3
      <4>2. blocks'[e.index] = [blocks[e.index] EXCEPT !.size = x]
        BY <2>3, <3>2
      <4> QED
        BY <4>1, <4>2 DEF BlockType
    <3> QED
      BY <2>1, <2>3, <3>1, <3>2, <3>3, Zenon DEF Protocol!BlockDelta
  <2> QED
    BY <2>1, <2>3, <2>4 DEF Protocol!Next
<1>10. CASE IsStop(e)
  <2>1. blocks' = WithStop(blocks, e) /\ phase' = phase /\ reason' = reason
    BY <1>7, <1>10 DEF Sees, IsStop, WithStop
  <2>2. ~IsDelta(e)
    BY <1>10 DEF IsDelta, IsStop
  <2>3. /\ e.index \in DOMAIN blocks /\ blocks[e.index].open
        /\ Link(blocks', b, phase, reason, conv, pending')
    BY <1>1, <1>3, <1>4, <1>10, <2>1, <2>2, BlockSeen DEF e
  <2>4. Protocol!BlockStop(e.index)
    BY <2>1, <2>3 DEF Protocol!BlockStop, WithStop
  <2> QED
    BY <2>1, <2>3, <2>4 DEF Protocol!Next
<1>11. CASE e.type = "message_start"
  <2>1. phase' = "open" /\ blocks' = blocks /\ reason' = reason
    BY <1>7, <1>11 DEF Sees
  <2>2. phase = "none" /\ Link(blocks, b, "open", reason, conv, Tail(pending))
    BY <1>1, <1>3, <1>11, MessageStartSeen DEF e
  <2>3. Protocol!MessageStart
    BY <2>1, <2>2 DEF Protocol!MessageStart
  <2> QED
    BY <1>4, <2>1, <2>2, <2>3 DEF Protocol!Next
<1>12. CASE e.type = "message_delta"
  <2> DEFINE r == StopReason(conv)
  <2>1. /\ phase # "ended" /\ reason = "none" /\ e.reason = r /\ r \in Reasons
        /\ \A i \in DOMAIN blocks : ~blocks[i].open
        /\ Link(blocks, b, phase, r, conv, Tail(pending))
    BY <1>3, <1>12, MessageDeltaSeen DEF e
  <2> HIDE DEF r
  <2>2. reason' = r /\ blocks' = blocks /\ phase' = phase
    BY <1>7, <1>12, <2>1 DEF Sees
  <2>3. Protocol!MessageDelta(r)
    BY <2>1, <2>2 DEF Protocol!MessageDelta
  <2>4. Protocol!Next
    BY <2>1, <2>3 DEF Protocol!Next, Reasons
  <2> QED
    BY <1>4, <2>1, <2>2, <2>4
<1>13. CASE e.type = "message_stop"
  <2>1. phase' = "ended" /\ blocks' = blocks /\ reason' = reason
    BY <1>7, <1>13 DEF Sees
  <2>2. /\ phase # "ended" /\ reason # "none"
        /\ Link(blocks, b, "ended", reason, conv, Tail(pending))
    BY <1>1, <1>3, <1>13, MessageStopSeen DEF e
  <2>3. Protocol!MessageStop
    BY <2>1, <2>2 DEF Protocol!MessageStop
  <2> QED
    BY <1>4, <2>1, <2>2, <2>3 DEF Protocol!Next
<1>14. IsStart(e) \/ IsDelta(e) \/ IsStop(e)
         \/ e.type \in {"message_start", "message_delta", "message_stop"}
  BY <1>6 DEF Event, IsStart, IsDelta, IsStop
<1> QED
  BY <1>8, <1>9, <1>10, <1>11, <1>12, <1>13, <1>14

\* The link does not depend on the list in which the converter keeps its events.
LEMMA OtherEvents ==
  ASSUME NEW s \in ConvType, NEW u \in ConvType,
         u.started = s.started /\ u.text = s.text /\ u.thinking = s.thinking /\ u.next = s.next,
         u.opened = s.opened /\ u.args = s.args /\ u.finish = s.finish,
         u.sawTool = s.sawTool /\ u.closed = s.closed,
         u.deltaSent = s.deltaSent /\ u.stopSent = s.stopSent
  PROVE  /\ ConvOK(s) => ConvOK(u)
         /\ \A bl, b, ph, rs, es : Link(bl, b, ph, rs, s, es) => Link(bl, b, ph, rs, u, es)
<1>1. ConvOK(s) => ConvOK(u)
  BY ZenonT(60) DEF ConvOK, Distinct
<1>2. Open(u) = Open(s) /\ StopReason(u) = StopReason(s)
  BY DEF Open, StopReason
<1>3. ASSUME NEW bl, NEW b, NEW es, ToolLink(bl, b, s, es) PROVE ToolLink(bl, b, u, es)
  BY <1>3 DEF ToolLink
<1>4. ASSUME NEW bl, NEW b, NEW es, ArgsLink(bl, b, s, es) PROVE ArgsLink(bl, b, u, es)
  BY <1>4 DEF ArgsLink
<1>5. ASSUME NEW bl, NEW b, NEW ph, NEW rs, NEW es, Link(bl, b, ph, rs, s, es)
      PROVE  Link(bl, b, ph, rs, u, es)
  BY <1>2, <1>3, <1>4, <1>5 DEF Link
<1> QED
  BY <1>1, <1>5

\* What was converted is handed over to be written.
LEMMA HandedOver ==
  ASSUME NEW bl, NEW b, NEW ph, NEW rs, NEW s, Converting(bl, b, ph, rs, s)
  PROVE  LET u == [s EXCEPT !.events = <<>>]
         IN  /\ ConvOK(u) /\ Link(bl, b, ph, rs, u, s.events)
             /\ u.events = <<>> /\ u.args = s.args /\ u.finish = s.finish
             /\ u.closed = s.closed /\ u.stopSent = s.stopSent
<1> DEFINE u == [s EXCEPT !.events = <<>>]
<1>1. s \in ConvType /\ ConvOK(s) /\ Link(bl, b, ph, rs, s, s.events)
  BY DEF Converting, ConvOK
<1>2. u \in ConvType
  <2>1. <<>> \in Seq(Event)
    OBVIOUS
  <2> QED
    BY <1>1, <2>1 DEF ConvType
<1>3. /\ u.started = s.started /\ u.text = s.text /\ u.thinking = s.thinking /\ u.next = s.next
      /\ u.opened = s.opened /\ u.args = s.args /\ u.finish = s.finish
      /\ u.sawTool = s.sawTool /\ u.closed = s.closed
      /\ u.deltaSent = s.deltaSent /\ u.stopSent = s.stopSent
      /\ u.events = <<>>
  BY <1>1 DEF ConvType
<1> HIDE DEF u
<1>4. ConvOK(u)
  BY <1>1, <1>2, <1>3, OtherEvents
<1>5. Link(bl, b, ph, rs, u, s.events)
  BY <1>1, <1>2, <1>3, OtherEvents
<1> QED
  BY <1>3, <1>4, <1>5 DEF u

\* Nothing has been converted, nothing is on its way.
LEMMA InitLinked == Init => StreamInv
<1> SUFFICES ASSUME Init PROVE StreamInv
  OBVIOUS
<1>1. conv = Conv0 /\ pending = <<>> /\ blocks = <<>> /\ phase = "none" /\ reason = "none"
  BY DEF Init
<1>2. /\ Conv0.started = FALSE /\ Conv0.text = NoBlock /\ Conv0.thinking = NoBlock
      /\ Conv0.next = 0 /\ Conv0.opened = [t \in Tools |-> NoBlock]
      /\ Conv0.args = [t \in Tools |-> 0] /\ Conv0.finish = "" /\ Conv0.closed = FALSE
      /\ Conv0.deltaSent = FALSE /\ Conv0.stopSent = FALSE /\ Conv0.events = <<>>
  BY DEF Conv0
<1>3. Conv0 \in ConvType
  BY DEF Conv0, ConvType, BlockNo
<1>4. ConvOK(Conv0)
  BY <1>2, <1>3 DEF ConvOK, Distinct
<1>5. Open(Conv0) = {}
  BY <1>2 DEF Open
<1>6. BlockLink(<<>>, 0, 0, {}, <<>>)
  <2>1. <<>> \in [0..(0 - 1) -> BlockType] /\ <<>> \in Seq(Event) /\ DOMAIN <<>> = {}
    OBVIOUS
  <2>2. 0 \in 0..0 /\ 0..(0 - 1) = {}
    OBVIOUS
  <2> QED
    BY <2>1, <2>2 DEF BlockLink
<1>7. MessageLink("none", "none", FALSE, FALSE, StopReason(Conv0), <<>>)
  <2>1. DOMAIN <<>> = {}
    OBVIOUS
  <2> QED
    BY <2>1 DEF MessageLink
<1>8. ToolLink(<<>>, 0, Conv0, <<>>) /\ ArgsLink(<<>>, 0, Conv0, <<>>)
  <2>1. DOMAIN <<>> = {} /\ 0..(0 - 1) = {}
    OBVIOUS
  <2> QED
    BY <1>2, <2>1 DEF ToolLink, ArgsLink
<1>9. Link(<<>>, 0, "none", "none", Conv0, <<>>)
  BY <1>2, <1>5, <1>6, <1>7, <1>8 DEF Link
<1>10. LoopInv
  BY <1>1, <1>2 DEF Init, LoopInv
<1> QED
  BY <1>1, <1>4, <1>9, <1>10 DEF StreamInv

\* Reading and writing keep the converter, the events on their way and the client's
\* blocks linked.
LEMMA StepLinked == StreamInv /\ [Next]_vars => StreamInv'
<1> SUFFICES ASSUME StreamInv, [Next]_vars PROVE StreamInv'
  OBVIOUS
<1>1. ConvOK(conv) /\ LoopInv
  BY DEF StreamInv
<1>2. PICK b \in Nat : Link(blocks, b, phase, reason, conv, pending)
  BY DEF StreamInv
<1>3. ASSUME pc = "read" PROVE Converting(blocks, b, phase, reason, conv)
  BY <1>1, <1>2, <1>3 DEF LoopInv, Converting
<1>4. ASSUME NEW s, Converting(blocks, b, phase, reason, s), Converted(s), UNCHANGED clientVars
      PROVE  /\ ConvOK(conv') /\ \E c \in Nat : Link(blocks', c, phase', reason', conv', pending')
             /\ conv'.events = <<>> /\ conv'.args = s.args /\ conv'.finish = s.finish
             /\ conv'.closed = s.closed /\ conv'.stopSent = s.stopSent /\ pc' = "write"
  <2>1. blocks' = blocks /\ phase' = phase /\ reason' = reason
    BY <1>4 DEF clientVars
  <2>2. pending' = s.events /\ conv' = [s EXCEPT !.events = <<>>] /\ pc' = "write"
    BY <1>4 DEF Converted
  <2>3. /\ ConvOK(conv') /\ Link(blocks, b, phase, reason, conv', s.events)
        /\ conv'.events = <<>> /\ conv'.args = s.args /\ conv'.finish = s.finish
        /\ conv'.closed = s.closed /\ conv'.stopSent = s.stopSent
    BY <1>4, <2>2, HandedOver
  <2> QED
    BY <2>1, <2>2, <2>3
<1>5. ASSUME NEW p \in Payloads, ReadPayload(p) PROVE StreamInv'
  <2> DEFINE u == Convert(conv, p)
  <2>1. /\ pc = "read" /\ ~sawDone /\ payloads' = payloads + 1 /\ UNCHANGED clientVars
        /\ conv.finish # "" => ~p.thinking /\ ~p.text /\ p.calls = <<>> /\ p.finish = ""
        /\ sawDone' = sawDone /\ eof' = eof /\ Converted(u)
    BY <1>5 DEF ReadPayload
  <2>2. p \in PayloadType /\ conv.events = <<>> /\ (conv.finish # "" <=> conv.closed) /\ ~eof
    BY <1>1, <2>1, StreamAssumption DEF LoopInv
  <2>3. ChunkConverted(blocks, b, phase, reason, conv, p, u)
    BY <1>3, <2>1, <2>2, ConvertLink
  <2> HIDE DEF u
  <2>4. Converting(blocks, b, phase, reason, u) /\ (u.finish # "" <=> u.closed)
    BY <2>3 DEF ChunkConverted
  <2>5. u.args = argsHeard'
    BY <1>1, <1>5, <2>3 DEF ReadPayload, LoopInv, ChunkConverted
  <2>6. /\ ConvOK(conv') /\ \E c \in Nat : Link(blocks', c, phase', reason', conv', pending')
        /\ conv'.events = <<>> /\ conv'.args = u.args /\ conv'.finish = u.finish
        /\ conv'.closed = u.closed /\ pc' = "write"
    BY <1>4, <2>1, <2>4
  <2>7. conv'.args = argsHeard' /\ (conv'.finish # "" <=> conv'.closed)
    BY <2>4, <2>5, <2>6
  <2>8. ~sawDone' /\ ~eof' /\ eof' \in BOOLEAN /\ sawDone' \in BOOLEAN /\ payloads' \in Nat
    <3>1. sawDone \in BOOLEAN /\ eof \in BOOLEAN /\ payloads \in Nat
      BY <1>1 DEF LoopInv
    <3>2. payloads' \in Nat
      <4>1. payloads' = payloads + 1
        BY <2>1
      <4> QED
        BY <3>1, <4>1
    <3>3. sawDone' = FALSE /\ eof' = FALSE
      BY <2>1, <2>2, <3>1, Zenon
    <3> QED
      BY <3>2, <3>3
  <2>9. conv'.events = <<>> /\ pc' = "write"
    BY <2>6
  <2>10. LoopInv'
    BY <2>7, <2>8, <2>9 DEF LoopInv
  <2> QED
    BY <2>6, <2>10 DEF StreamInv
<1>6. ASSUME pc = "read"
      PROVE  LET u == Finalize(conv)
             IN  /\ Converting(blocks, b, phase, reason, u) /\ u.stopSent /\ u.closed
                 /\ u.args = argsHeard
  <2>1. conv.events = <<>> /\ conv.args = argsHeard
    BY <1>1 DEF LoopInv
  <2> QED
    BY <1>3, <1>6, <2>1, FinalizeLink
<1>7. ASSUME ReadDone PROVE StreamInv'
  <2> DEFINE u == Finalize(conv)
  <2>1. /\ pc = "read" /\ sawDone' = TRUE /\ Converted(u) /\ UNCHANGED clientVars
        /\ eof' = eof /\ payloads' = payloads /\ argsHeard' = argsHeard
    BY <1>7 DEF ReadDone, heardVars
  <2>2. /\ Converting(blocks, b, phase, reason, u) /\ u.stopSent /\ u.closed
        /\ u.args = argsHeard
    BY <1>6, <2>1
  <2> HIDE DEF u
  <2>3. /\ ConvOK(conv') /\ \E c \in Nat : Link(blocks', c, phase', reason', conv', pending')
        /\ conv'.events = <<>> /\ conv'.args = u.args
        /\ conv'.closed = u.closed /\ conv'.stopSent = u.stopSent /\ pc' = "write"
    BY <1>4, <2>1, <2>2
  <2>4. LoopInv'
    BY <1>1, <2>1, <2>2, <2>3 DEF LoopInv
  <2> QED
    BY <2>3, <2>4 DEF StreamInv
<1>8. ASSUME ReadEOF PROVE StreamInv'
  <2> DEFINE u == IF sawDone THEN conv ELSE Finalize(conv)
  <2>1. /\ pc = "read" /\ eof' = TRUE /\ Converted(u) /\ UNCHANGED clientVars
        /\ sawDone' = sawDone /\ payloads' = payloads /\ argsHeard' = argsHeard
    BY <1>8 DEF ReadEOF, heardVars
  <2>2. /\ Converting(blocks, b, phase, reason, u) /\ u.stopSent /\ u.closed
        /\ u.args = argsHeard
    <3>1. CASE sawDone
      <4>1. conv.stopSent /\ conv.closed /\ conv.args = argsHeard
        BY <1>1, <3>1 DEF LoopInv, ConvOK
      <4> QED
        BY <1>3, <2>1, <3>1, <4>1
    <3>2. CASE ~sawDone
      BY <1>6, <2>1, <3>2
    <3> QED
      BY <3>1, <3>2
  <2> HIDE DEF u
  <2>3. /\ ConvOK(conv') /\ \E c \in Nat : Link(blocks', c, phase', reason', conv', pending')
        /\ conv'.events = <<>> /\ conv'.args = u.args
        /\ conv'.closed = u.closed /\ conv'.stopSent = u.stopSent /\ pc' = "write"
    BY <1>4, <2>1, <2>2
  <2>4. LoopInv'
    BY <1>1, <2>1, <2>2, <2>3 DEF LoopInv
  <2> QED
    BY <2>3, <2>4 DEF StreamInv
<1>9. ASSUME WriteEvent PROVE StreamInv'
  <2>1. \E c \in Nat : Link(blocks', c, phase', reason', conv, pending')
    BY <1>1, <1>2, <1>9, EventSeen
  <2>2. /\ pc = "write" /\ pc' = pc /\ conv' = conv /\ sawDone' = sawDone /\ eof' = eof
        /\ payloads' = payloads /\ argsHeard' = argsHeard
    BY <1>9 DEF WriteEvent, heardVars
  <2>3. LoopInv'
    BY <1>1, <2>2 DEF LoopInv
  <2>4. ConvOK(conv')
    BY <1>1, <2>2
  <2> QED
    BY <2>1, <2>2, <2>3, <2>4 DEF StreamInv
<1>10. ASSUME UNCHANGED <<conv, pending, sawDone, eof, payloads, heardVars, clientVars>>,
              LoopInv'
       PROVE  StreamInv'
  <2>1. /\ conv' = conv /\ pending' = pending /\ blocks' = blocks /\ phase' = phase
        /\ reason' = reason
    BY <1>10 DEF clientVars
  <2> QED
    BY <1>1, <1>2, <1>10, <2>1 DEF StreamInv
<1>11. ASSUME ReadFails \/ WriteFails \/ WriteDone \/ UNCHANGED vars PROVE StreamInv'
  <2>1. UNCHANGED <<conv, pending, sawDone, eof, payloads, heardVars, clientVars>>
    BY <1>11 DEF ReadFails, WriteFails, WriteDone, vars
  <2>2. /\ conv' = conv /\ pending' = pending /\ sawDone' = sawDone /\ eof' = eof
        /\ payloads' = payloads /\ argsHeard' = argsHeard
    BY <2>1 DEF heardVars
  <2>3. \/ pc' = "failed" \/ pc' = pc
        \/ pending = <<>> /\ pc' = IF eof THEN "done" ELSE "read"
    BY <1>11 DEF ReadFails, WriteFails, WriteDone, vars
  <2>4. LoopInv'
    BY <1>1, <2>2, <2>3 DEF LoopInv
  <2> QED
    BY <1>10, <2>1, <2>4
<1> QED
  BY <1>5, <1>7, <1>8, <1>9, <1>11 DEF Next

-----------------------------------------------------------------------------
(* The theorems.                                                           *)

\* However the upstream's payloads, its end, the writes and their failures come after each
\* other: the client's blocks, with the events converted and not yet written, are always
\* what the converter's state says.
THEOREM StreamInvariance == Spec => []StreamInv
<1>1. Init => StreamInv
  BY InitLinked
<1>2. StreamInv /\ [Next]_vars => StreamInv'
  BY StepLinked
<1> QED
  BY <1>1, <1>2, PTL DEF Spec

\* Between two payloads the client's open blocks are those claudeStreamState believes to be
\* open, and no index was left out.
THEOREM StreamBlocksAgree == Spec => []BlocksAgree
<1>1. StreamInv => BlocksAgree
  <2> SUFFICES ASSUME StreamInv, pc = "read"
               PROVE  /\ {i \in DOMAIN blocks : blocks[i].open} = Open(conv)
                      /\ DOMAIN blocks = 0..(conv.next - 1)
    BY DEF BlocksAgree
  <2>1. PICK b \in Nat : Link(blocks, b, phase, reason, conv, pending)
    BY DEF StreamInv
  <2>2. pending = <<>> /\ conv.next \in Nat
    BY ConvFields DEF StreamInv, LoopInv, ConvOK
  <2> DEFINE n == conv.next
             O == Open(conv)
  <2>3. BlockLink(blocks, b, n, O, <<>>)
    BY <2>1, <2>2 DEF Link
  <2> HIDE DEF n, O
  <2>4. b \in 0..n /\ O \subseteq 0..(n - 1) /\ DOMAIN blocks = 0..(b - 1)
    BY <2>3 DEF BlockLink
  <2>5. b..(n - 1) = {}
    BY <2>3 DEF BlockLink
  <2>6. b = n
    <3>1. n \in Nat
      BY <2>2 DEF n
    <3>2. b < n => b \in b..(n - 1)
      BY <2>4, <3>1
    <3>3. ~(b < n)
      BY <2>5, <3>2
    <3> QED
      BY <2>4, <3>1, <3>3
  <2>7. \A i \in 0..(n - 1) : i \in O <=> blocks[i].open
    <3> SUFFICES ASSUME NEW i \in 0..(n - 1) PROVE i \in O <=> blocks[i].open
      OBVIOUS
    <3>1. i < b
      BY <2>2, <2>6 DEF n
    <3>2. \A m \in DOMAIN <<>> : FALSE
      OBVIOUS
    <3> QED
      BY <2>3, <3>1, <3>2 DEF BlockLink
  <2> QED
    BY <2>4, <2>6, <2>7 DEF n, O
<1> QED
  BY <1>1, StreamInvariance, PTL

\* A stream whose handler returns without an error has ended its message.
THEOREM StreamDoneMeansEnded == Spec => []DoneMeansEnded
<1>1. StreamInv => DoneMeansEnded
  <2> SUFFICES ASSUME StreamInv, pc = "done" PROVE phase = "ended"
    BY DEF DoneMeansEnded
  <2>1. pending = <<>> /\ conv.stopSent
    BY DEF StreamInv, LoopInv
  <2>2. \E b \in Nat : MessageOf(phase, reason, conv, <<>>)
    BY <2>1 DEF StreamInv, Link, MessageOf
  <2> QED
    BY <2>1, <2>2 DEF MessageOf, MessageLink
<1> QED
  BY <1>1, StreamInvariance, PTL

\* A client that saw the message end has nothing more to come, and has its reason.
LEMMA Ended ==
  ASSUME StreamInv, phase = "ended", NEW b \in Nat,
         Link(blocks, b, phase, reason, conv, pending)
  PROVE  pending = <<>> /\ conv.closed /\ reason = StopReason(conv)
<1>1. MessageOf(phase, reason, conv, pending)
  BY DEF Link, MessageOf
<1>2. conv.stopSent \in BOOLEAN /\ (conv.stopSent => conv.closed)
  BY ConvFields DEF StreamInv, ConvOK
<1>3. pending = <<>> /\ reason # "none"
  BY <1>1 DEF MessageOf, MessageLink
<1>4. conv.stopSent
  BY <1>1, <1>2 DEF MessageOf, MessageLink
<1>5. reason = StopReason(conv)
  BY <1>1, <1>3 DEF MessageOf, MessageLink
<1> QED
  BY <1>2, <1>3, <1>4, <1>5

\* A message that started a tool call's block says tool_use when it ends, whatever the
\* upstream's finish reason is.
THEOREM StreamAnnouncesToolCalls == Spec => []ToolCallsAreAnnounced
<1>1. StreamInv => ToolCallsAreAnnounced
  <2> SUFFICES ASSUME StreamInv, phase = "ended",
                      NEW i \in DOMAIN blocks, blocks[i].kind.kind = "tool"
               PROVE  reason = "tool_use"
    BY DEF ToolCallsAreAnnounced
  <2>1. PICK b \in Nat : Link(blocks, b, phase, reason, conv, pending)
    BY DEF StreamInv
  <2>2. reason = StopReason(conv)
    BY <2>1, Ended
  <2>3. i \in 0..(b - 1)
    BY <2>1 DEF Link, BlockLink
  <2>4. conv.sawTool
    BY <2>1, <2>3 DEF Link, ToolLink
  <2> QED
    BY <2>2, <2>4 DEF StopReason
<1> QED
  BY <1>1, StreamInvariance, PTL

\* A client that saw the message end has all arguments of each tool call, no fragment
\* twice, also those that came before the call's name.
THEOREM StreamArgumentsComplete == Spec => []ArgumentsComplete
<1>1. StreamInv => ArgumentsComplete
  <2> SUFFICES ASSUME StreamInv, phase = "ended",
                      NEW i \in DOMAIN blocks, blocks[i].kind.kind = "tool"
               PROVE  blocks[i].size = argsHeard[blocks[i].kind.tool]
    BY DEF ArgumentsComplete
  <2> DEFINE t == blocks[i].kind.tool
  <2>1. PICK b \in Nat : Link(blocks, b, phase, reason, conv, pending)
    BY DEF StreamInv
  <2>2. pending = <<>> /\ conv.closed /\ conv.args = argsHeard
    BY <2>1, Ended DEF StreamInv, LoopInv
  <2>3. i \in 0..(b - 1) /\ i < b /\ blocks[i].kind \in Kinds /\ i \in Nat
    <3>1. conv.next \in Nat
      BY ConvFields DEF StreamInv, ConvOK
    <3> QED
      BY <2>1, <3>1, BlocksTyped DEF Link
  <2>4. t \in Tools
    BY <2>3 DEF Kinds, Kind
  <2>5. conv.opened[t] = i
    BY <2>1, <2>3 DEF Link, ToolLink
  <2>6. Fills(blocks, b, i, conv.args[t], <<>>)
    <3>1. i # NoBlock
      BY <2>3 DEF NoBlock
    <3> QED
      BY <2>1, <2>2, <2>4, <2>5, <3>1 DEF Link, ArgsLink
  <2>7. blocks[i].size = conv.args[t]
    <3>1. DOMAIN <<>> = {}
      OBVIOUS
    <3> QED
      BY <2>3, <2>6, <3>1 DEF Fills
  <2> QED
    BY <2>2, <2>7
<1> QED
  BY <1>1, StreamInvariance, PTL

\* Whatever the upstream sends and wherever it stops: each event written is one that a
\* client of ClaudeProtocol can follow, and no other step touches what the client has.
THEOREM StreamImplementsProtocol == Spec => ImplementsClaudeProtocol
<1>1. Init => Protocol!Init
  BY DEF Init, Protocol!Init
<1>2. StreamInv /\ [Next]_vars => [Protocol!Next]_Protocol!vars
  <2> SUFFICES ASSUME StreamInv, [Next]_vars PROVE [Protocol!Next]_Protocol!vars
    OBVIOUS
  <2>1. ASSUME WriteEvent PROVE Protocol!Next
    <3>1. ConvOK(conv)
      BY DEF StreamInv
    <3>2. PICK b \in Nat : Link(blocks, b, phase, reason, conv, pending)
      BY DEF StreamInv
    <3> QED
      BY <2>1, <3>1, <3>2, EventSeen
  <2>2. ASSUME UNCHANGED clientVars PROVE UNCHANGED Protocol!vars
    BY <2>2 DEF clientVars, Protocol!vars
  <2>3. WriteEvent \/ UNCHANGED clientVars
    <3>1. CASE Next
      BY <3>1 DEF Next, ReadPayload, ReadDone, ReadEOF, ReadFails, WriteFails, WriteDone
    <3>2. CASE UNCHANGED vars
      BY <3>2 DEF vars, clientVars
    <3> QED
      BY <3>1, <3>2
  <2> QED
    BY <2>1, <2>2, <2>3
<1> QED
  BY <1>1, <1>2, StreamInvariance, PTL DEF Spec, ImplementsClaudeProtocol, Protocol!Spec
=============================================================================
