--------------------------- MODULE BoardTabProofs ---------------------------
(* What a tab shows and keeps, for any boards, changes and calls under way:   *)
(* nothing it was not told by the server, and each board's documents apart.   *)
EXTENDS BoardTab, FiniteSetTheorems, SequenceTheorems, TLAPS

---------------------------------------------------------------------------
(* The inductive invariant.  It speaks of the frames of every call.           *)

\* A document the server had of board b, where `srv` is what the server has.
Copy(d, b, srv) ==
  /\ d = [board |-> d.board, marks |-> d.marks, ver |-> d.ver, ghosts |-> d.ghosts]
  /\ d.board = b /\ d.marks \subseteq srv[b] /\ d.ghosts = {} /\ d.ver = Version(d.marks)
Seeded(d, b, srv) == Copy(d, b, srv) /\ d.marks # {}

InnerStages == {"get", "got", "seed", "again", "fresh"}
OuterStages == InnerStages \cup {"list", "listed", "reget", "synced"}

\* A load holds a copy from its answer on, and a seeded one once it is shown.
Loads(f, srv) ==
  /\ DOMAIN f = {"call", "at", "board", "sync", "silent", "doc", "missing"}
  /\ f.call = "load" /\ f.board \in Boards /\ f.missing \subseteq Tasks
  /\ f.at = "got" => Copy(f.doc, f.board, srv)
  /\ f.at = "again" => srv[f.board] # {}
  /\ f.at \in {"fresh", "list", "listed", "spawn", "reget", "synced"} => Seeded(f.doc, f.board, srv)
Sends(f) ==
  /\ DOMAIN f = {"call", "at", "board", "cmd", "refresh", "retry", "ver", "newVer"}
  /\ f.call = "send" /\ f.board \in Boards /\ f.cmd \in Marks
  /\ f.at = "ok" => f.newVer \in 0..Cardinality(Marks)
Boots(f) == DOMAIN f = {"call", "at", "board"} /\ f.call = "boot" /\ f.at = "cache" /\ f.board \in Boards

Asking == {"ask", "ok", "conflict", "refused"}
\* The calls a load or a gesture makes, and those within them, innermost first.
OneFrame(f, srv) ==
  \/ Boots(f)
  \/ Loads(f, srv) /\ f.at \in OuterStages
  \/ Sends(f) /\ f.at \in Asking /\ f.refresh = TRUE
LoadInSend(l, s, srv) ==
  /\ Loads(l, srv) /\ l.at \in InnerStages /\ l.sync = FALSE
  /\ Sends(s) /\ s.at \in {"refreshing", "reloading"} /\ s.refresh = TRUE
SendInLoad(s, l, srv) ==
  /\ Sends(s) /\ s.at \in Asking /\ s.refresh = FALSE
  /\ Loads(l, srv) /\ l.at = "spawn"
LoadInSendInLoad(m, s, l, srv) ==
  /\ Loads(m, srv) /\ m.at \in InnerStages /\ m.sync = FALSE
  /\ Sends(s) /\ s.at = "reloading" /\ s.refresh = FALSE
  /\ Loads(l, srv) /\ l.at = "spawn"
Chained(fs, srv) ==
  \/ fs = <<>>
  \/ Len(fs) = 1 /\ fs = <<fs[1]>> /\ OneFrame(fs[1], srv)
  \/ Len(fs) = 2 /\ fs = <<fs[1], fs[2]>> /\ (LoadInSend(fs[1], fs[2], srv) \/ SendInLoad(fs[1], fs[2], srv))
  \/ Len(fs) = 3 /\ fs = <<fs[1], fs[2], fs[3]>> /\ LoadInSendInLoad(fs[1], fs[2], fs[3], srv)

\* What is shown may carry the ghosts of gestures and a version it was told.
Shows(d, srv) ==
  /\ d = [board |-> d.board, marks |-> d.marks, ver |-> d.ver, ghosts |-> d.ghosts] /\ d.board \in Boards
  /\ d.marks # {} /\ d.marks \subseteq srv[d.board] /\ d.ver \in 0..Cardinality(Marks) /\ d.ghosts \subseteq Gestures

Signals == active \in Boards /\ loading \in BOOLEAN /\ busy \in BOOLEAN
World == server \in [Boards -> SUBSET Marks] /\ rows \subseteq Tasks
Shown == shown = NoDoc \/ Shows(shown, server)
Cached == cache = [b \in Boards |-> cache[b]] /\ \A b \in Boards : cache[b] = NoDoc \/ Seeded(cache[b], b, server)
Calls == DOMAIN jobs = Jobs /\ \A j \in Jobs : Chained(jobs[j], server)

IInv == Signals /\ World /\ Shown /\ Cached /\ Calls
---------------------------------------------------------------------------
(* Facts about versions, documents and frames.                                *)

\* A concatenation is known by its elements.
LEMMA ConcatIs ==
  ASSUME NEW S, NEW s \in Seq(S), NEW t \in Seq(S), NEW u \in Seq(S), NEW n \in Nat, NEW m \in Nat,
         Len(s) = n, Len(t) = m, Len(u) = n + m,
         \A i \in 1..n + m : u[i] = IF i <= n THEN s[i] ELSE t[i - n]
  PROVE  s \o t = u
  <1>1. s \o t \in Seq(S) /\ Len(s \o t) = Len(u) /\ \A i \in 1..Len(u) : (s \o t)[i] = u[i]
    BY ConcatProperties
  <1> QED BY <1>1, SeqEqual

\* Frames put on top of the rest of a call.
LEMMA PushOnNone == \A x, y : <<x>> \o <<>> = <<x>> /\ <<x, y>> \o <<>> = <<x, y>>
  <1>1. ASSUME NEW x, NEW y PROVE <<x>> \o <<>> = <<x>> /\ <<x, y>> \o <<>> = <<x, y>>
    <2> DEFINE S == {x, y}
    <2>1. <<x>> \in Seq(S) /\ <<x, y>> \in Seq(S)
      OBVIOUS
    <2> HIDE DEF S
    <2> QED BY <2>1, ConcatEmptySeq
  <1> QED BY <1>1
LEMMA PushOnOne == \A x, g : <<x>> \o <<g>> = <<x, g>>
  <1>1. ASSUME NEW x, NEW g PROVE <<x>> \o <<g>> = <<x, g>>
    <2> DEFINE S == {x, g}
    <2>1. <<x>> \in Seq(S) /\ <<g>> \in Seq(S) /\ <<x, g>> \in Seq(S)
      OBVIOUS
    <2> HIDE DEF S
    <2>2. 1 \in Nat /\ 1 \in Nat /\ Len(<<x>>) = 1 /\ Len(<<g>>) = 1 /\ Len(<<x, g>>) = 1 + 1
      OBVIOUS
    <2>3. \A i \in 1..1 + 1 : <<x, g>>[i] = IF i <= 1 THEN <<x>>[i] ELSE <<g>>[i - 1]
      OBVIOUS
    <2> QED BY <2>1, <2>2, <2>3, ConcatIs, ZenonT(60)
  <1> QED BY <1>1
LEMMA PushOnTwo == \A x, g, h : <<x>> \o <<g, h>> = <<x, g, h>>
  <1>1. ASSUME NEW x, NEW g, NEW h PROVE <<x>> \o <<g, h>> = <<x, g, h>>
    <2> DEFINE S == {x, g, h}
    <2>1. <<x>> \in Seq(S) /\ <<g, h>> \in Seq(S) /\ <<x, g, h>> \in Seq(S)
      OBVIOUS
    <2> HIDE DEF S
    <2>2. 1 \in Nat /\ 2 \in Nat /\ Len(<<x>>) = 1 /\ Len(<<g, h>>) = 2 /\ Len(<<x, g, h>>) = 1 + 2
      OBVIOUS
    <2>3. \A i \in 1..1 + 2 : <<x, g, h>>[i] = IF i <= 1 THEN <<x>>[i] ELSE <<g, h>>[i - 1]
      OBVIOUS
    <2> QED BY <2>1, <2>2, <2>3, ConcatIs, ZenonT(60)
  <1> QED BY <1>1
LEMMA PushTwoOnOne == \A x, y, g : <<x, y>> \o <<g>> = <<x, y, g>>
  <1>1. ASSUME NEW x, NEW y, NEW g PROVE <<x, y>> \o <<g>> = <<x, y, g>>
    <2> DEFINE S == {x, y, g}
    <2>1. <<x, y>> \in Seq(S) /\ <<g>> \in Seq(S) /\ <<x, y, g>> \in Seq(S)
      OBVIOUS
    <2> HIDE DEF S
    <2>2. 2 \in Nat /\ 1 \in Nat /\ Len(<<x, y>>) = 2 /\ Len(<<g>>) = 1 /\ Len(<<x, y, g>>) = 2 + 1
      OBVIOUS
    <2>3. \A i \in 1..2 + 1 : <<x, y, g>>[i] = IF i <= 2 THEN <<x, y>>[i] ELSE <<g>>[i - 2]
      OBVIOUS
    <2> QED BY <2>1, <2>2, <2>3, ConcatIs, ZenonT(60)
  <1> QED BY <1>1

\* A version never exceeds the number of marks, so NoVer is no version.
LEMMA VersionBounds ==
  ASSUME NEW marks \in SUBSET Marks
  PROVE  Version(marks) \in 0..Cardinality(Marks)
  <1>1. marks \ Quiet \subseteq Marks
    OBVIOUS
  <1>2. IsFiniteSet(Marks)
    BY MarksAssumption
  <1>3. Cardinality(marks \ Quiet) <= Cardinality(Marks) /\ IsFiniteSet(marks \ Quiet)
    BY <1>1, <1>2, FS_Subset
  <1> QED BY <1>2, <1>3, FS_CardinalityType DEF Version

\* What the server answers a read with is a copy, seeded when the board is.
LEMMA FetchedIsCopy ==
  ASSUME NEW b
  PROVE  /\ Copy(Fetched(b), b, server)
         /\ server[b] # {} => Seeded(Fetched(b), b, server)
  BY DEF Copy, Seeded, Fetched

\* A seeded copy of a board may be shown.
LEMMA CopyMayBeShown ==
  ASSUME World, NEW b \in Boards, NEW d, Seeded(d, b, server)
  PROVE  Shows(d, server)
  <1>1. d.marks \in SUBSET Marks
    BY DEF World, Seeded, Copy
  <1> QED BY <1>1, VersionBounds DEF Shows, Seeded, Copy

\* The server only gains marks, and what was a copy stays one.
LEMMA LoadsGrow ==
  ASSUME NEW old, NEW new, \A b \in Boards : old[b] \subseteq new[b], NEW f, Loads(f, old)
  PROVE  Loads(f, new)
  BY DEF Loads, Seeded, Copy

LEMMA ChainsGrow ==
  ASSUME NEW old, NEW new, \A b \in Boards : old[b] \subseteq new[b], NEW fs, Chained(fs, old)
  PROVE  Chained(fs, new)
  <1>1. \A f : Loads(f, old) => Loads(f, new)
    BY LoadsGrow
  <1> QED BY <1>1 DEF Chained, OneFrame, LoadInSend, SendInLoad, LoadInSendInLoad

\* One call moves on, and the others' frames still say what is so.
LEMMA OneCallMoves ==
  ASSUME Calls, NEW srv, \A b \in Boards : server[b] \subseteq srv[b],
         NEW j \in Jobs, NEW fs, Chained(fs, srv), NEW new, new = [jobs EXCEPT ![j] = fs]
  PROVE  DOMAIN new = Jobs /\ \A k \in Jobs : Chained(new[k], srv)
  <1>1. \A k \in Jobs : Chained(jobs[k], srv)
    BY ChainsGrow DEF Calls
  <1>2. \A k \in Jobs : new[k] = IF k = j THEN fs ELSE jobs[k]
    BY DEF Calls
  <1> QED BY <1>1, <1>2 DEF Calls

---------------------------------------------------------------------------
(* What may stand on what: the frames after one step of a call.               *)

\* A call in progress is one of four chains of frames.
LEMMA Chains ==
  ASSUME NEW srv, NEW fs
  PROVE  Chained(fs, srv) <=>
           \/ fs = <<>>
           \/ \E f : fs = <<f>> /\ OneFrame(f, srv)
           \/ \E l, s : fs = <<l, s>> /\ LoadInSend(l, s, srv)
           \/ \E s, l : fs = <<s, l>> /\ SendInLoad(s, l, srv)
           \/ \E m, s, l : fs = <<m, s, l>> /\ LoadInSendInLoad(m, s, l, srv)
  <1>1. ASSUME NEW f, fs = <<f>> PROVE Len(fs) = 1 /\ fs[1] = f
    BY <1>1
  <1>2. ASSUME NEW f, NEW g, fs = <<f, g>> PROVE Len(fs) = 2 /\ fs[1] = f /\ fs[2] = g
    BY <1>2
  <1>3. ASSUME NEW f, NEW g, NEW h, fs = <<f, g, h>> PROVE Len(fs) = 3 /\ fs[1] = f /\ fs[2] = g /\ fs[3] = h
    BY <1>3
  <1>4. ASSUME NEW f, fs = <<f>>, OneFrame(f, srv) PROVE Chained(fs, srv)
    BY <1>1, <1>4, Zenon DEF Chained
  <1>5. ASSUME NEW l, NEW s, fs = <<l, s>>, LoadInSend(l, s, srv) \/ SendInLoad(l, s, srv) PROVE Chained(fs, srv)
    BY <1>2, <1>5, Zenon DEF Chained
  <1>6. ASSUME NEW m, NEW s, NEW l, fs = <<m, s, l>>, LoadInSendInLoad(m, s, l, srv) PROVE Chained(fs, srv)
    BY <1>3, <1>6, Zenon DEF Chained
  <1>7. ASSUME fs = <<>> PROVE Chained(fs, srv)
    BY <1>7 DEF Chained
  <1>8. ASSUME Chained(fs, srv)
        PROVE  \/ fs = <<>>
               \/ fs = <<fs[1]>> /\ OneFrame(fs[1], srv)
               \/ fs = <<fs[1], fs[2]>> /\ (LoadInSend(fs[1], fs[2], srv) \/ SendInLoad(fs[1], fs[2], srv))
               \/ fs = <<fs[1], fs[2], fs[3]>> /\ LoadInSendInLoad(fs[1], fs[2], fs[3], srv)
    BY <1>8, Zenon DEF Chained
  <1> QED BY <1>4, <1>5, <1>6, <1>7, <1>8, Zenon

\* Under a load there is nothing, a send that waits for it, or that send's load.
LEMMA UnderLoad ==
  ASSUME NEW srv, NEW fs, Chained(fs, srv), fs # <<>>, Head(fs).call = "load"
  PROVE  /\ Loads(Head(fs), srv)
         /\ \/ Tail(fs) = <<>> /\ Head(fs).at \in OuterStages
            \/ \E s : Tail(fs) = <<s>> /\ LoadInSend(Head(fs), s, srv)
            \/ \E s, l : Tail(fs) = <<s, l>> /\ LoadInSendInLoad(Head(fs), s, l, srv)
  <1>1. ASSUME NEW f, fs = <<f>>, OneFrame(f, srv)
        PROVE  Loads(Head(fs), srv) /\ Tail(fs) = <<>> /\ Head(fs).at \in OuterStages
    <2>1. Head(fs) = f /\ Tail(fs) = <<>>
      BY <1>1
    <2> QED BY <1>1, <2>1 DEF OneFrame, Boots, Sends
  <1>2. ASSUME NEW l, NEW s, fs = <<l, s>>, LoadInSend(l, s, srv)
        PROVE  Loads(Head(fs), srv) /\ Tail(fs) = <<s>> /\ LoadInSend(Head(fs), s, srv)
    <2>1. Head(fs) = l /\ Tail(fs) = <<s>>
      BY <1>2
    <2> QED BY <1>2, <2>1 DEF LoadInSend
  <1>3. ASSUME NEW s, NEW l, fs = <<s, l>>, SendInLoad(s, l, srv)
        PROVE  FALSE
    <2>1. Head(fs) = s
      BY <1>3
    <2> QED BY <1>3, <2>1 DEF SendInLoad, Sends
  <1>4. ASSUME NEW m, NEW s, NEW l, fs = <<m, s, l>>, LoadInSendInLoad(m, s, l, srv)
        PROVE  Loads(Head(fs), srv) /\ Tail(fs) = <<s, l>> /\ LoadInSendInLoad(Head(fs), s, l, srv)
    <2>1. Head(fs) = m /\ Tail(fs) = <<s, l>>
      BY <1>4
    <2> QED BY <1>4, <2>1 DEF LoadInSendInLoad
  <1> QED BY <1>1, <1>2, <1>3, <1>4, Chains, Zenon

\* Under a send there is nothing, or the load that places tasks.
LEMMA UnderSend ==
  ASSUME NEW srv, NEW fs, Chained(fs, srv), fs # <<>>, Head(fs).call = "send"
  PROVE  /\ Sends(Head(fs)) /\ Head(fs).at \in Asking
         /\ \/ Tail(fs) = <<>> /\ Len(fs) = 1 /\ Head(fs).refresh = TRUE
            \/ \E l : Tail(fs) = <<l>> /\ Len(fs) = 2 /\ fs[2] = l /\ SendInLoad(Head(fs), l, srv)
  <1>1. ASSUME NEW f, fs = <<f>>, OneFrame(f, srv)
        PROVE  /\ Sends(Head(fs)) /\ Head(fs).at \in Asking
               /\ Tail(fs) = <<>> /\ Len(fs) = 1 /\ Head(fs).refresh = TRUE
    <2>1. Head(fs) = f /\ Tail(fs) = <<>> /\ Len(fs) = 1
      BY <1>1
    <2> QED BY <1>1, <2>1 DEF OneFrame, Boots, Loads
  <1>2. ASSUME NEW l, NEW s, fs = <<l, s>>, LoadInSend(l, s, srv)
        PROVE  FALSE
    <2>1. Head(fs) = l
      BY <1>2
    <2> QED BY <1>2, <2>1 DEF LoadInSend, Loads
  <1>3. ASSUME NEW s, NEW l, fs = <<s, l>>, SendInLoad(s, l, srv)
        PROVE  /\ Sends(Head(fs)) /\ Head(fs).at \in Asking
               /\ Tail(fs) = <<l>> /\ Len(fs) = 2 /\ fs[2] = l /\ SendInLoad(Head(fs), l, srv)
    <2>1. Head(fs) = s /\ Tail(fs) = <<l>> /\ Len(fs) = 2 /\ fs[2] = l
      BY <1>3
    <2> QED BY <1>3, <2>1 DEF SendInLoad
  <1>4. ASSUME NEW m, NEW s, NEW l, fs = <<m, s, l>>, LoadInSendInLoad(m, s, l, srv)
        PROVE  FALSE
    <2>1. Head(fs) = m
      BY <1>4
    <2> QED BY <1>4, <2>1 DEF LoadInSendInLoad, Loads
  <1> QED BY <1>1, <1>2, <1>3, <1>4, Chains, Zenon

LEMMA UnderBoot ==
  ASSUME NEW srv, NEW fs, Chained(fs, srv), fs # <<>>, Head(fs).call = "boot"
  PROVE  Tail(fs) = <<>> /\ Boots(Head(fs))
  <1>1. ASSUME NEW f, fs = <<f>>, OneFrame(f, srv)
        PROVE  Tail(fs) = <<>> /\ Boots(Head(fs))
    <2>1. Head(fs) = f /\ Tail(fs) = <<>>
      BY <1>1
    <2> QED BY <1>1, <2>1 DEF OneFrame, Loads, Sends
  <1>2. ASSUME NEW f, NEW g, fs = <<f, g>> PROVE Head(fs) = f
    BY <1>2
  <1>3. ASSUME NEW f, NEW g, NEW h, fs = <<f, g, h>> PROVE Head(fs) = f
    BY <1>3
  <1>4. \A l, s : LoadInSend(l, s, srv) => l.call = "load"
    BY DEF LoadInSend, Loads
  <1>5. \A s, l : SendInLoad(s, l, srv) => s.call = "send"
    BY DEF SendInLoad, Sends
  <1>6. \A m, s, l : LoadInSendInLoad(m, s, l, srv) => m.call = "load"
    BY DEF LoadInSendInLoad, Loads
  <1>7. ~(\E l, s : fs = <<l, s>> /\ LoadInSend(l, s, srv)) /\ ~(\E s, l : fs = <<s, l>> /\ SendInLoad(s, l, srv))
    BY <1>2, <1>4, <1>5
  <1>8. ~(\E m, s, l : fs = <<m, s, l>> /\ LoadInSendInLoad(m, s, l, srv))
    BY <1>3, <1>6
  <1> QED BY <1>1, <1>7, <1>8, Chains, Zenon

\* The first frames and the rest of a call.
LEMMA Taken ==
  ASSUME NEW f, NEW g
  PROVE  Head(<<f>>) = f /\ Tail(<<f>>) = <<>> /\ Head(<<f, g>>) = f /\ Tail(<<f, g>>) = <<g>>
  OBVIOUS

\* The chains, built from their frames.
LEMMA BuildsOne == \A srv, f : OneFrame(f, srv) => Chained(<<f>>, srv)
  BY Chains, Zenon
LEMMA BuildsWaiting == \A srv, l, s : LoadInSend(l, s, srv) => Chained(<<l, s>>, srv)
  BY Chains, Zenon
LEMMA BuildsPlacing == \A srv, s, l : SendInLoad(s, l, srv) => Chained(<<s, l>>, srv)
  BY Chains, Zenon
LEMMA BuildsRetrying == \A srv, m, s, l : LoadInSendInLoad(m, s, l, srv) => Chained(<<m, s, l>>, srv)
  BY Chains, Zenon

\* A load goes on.
LEMMA LoadMoves ==
  ASSUME NEW srv, NEW fs, Chained(fs, srv), fs # <<>>, Head(fs).call = "load",
         NEW f, Loads(f, srv), f.sync = Head(fs).sync,
         f.at \in InnerStages \/ (f.at \in OuterStages /\ Head(fs).at \notin InnerStages)
                              \/ (f.at \in OuterStages /\ Head(fs).sync = TRUE)
  PROVE  Chained(<<f>> \o Tail(fs), srv)
  <1>1. CASE Tail(fs) = <<>>
    <2>1. OneFrame(f, srv)
      BY DEF OneFrame, OuterStages
    <2> QED BY <1>1, <2>1, PushOnNone, BuildsOne, Zenon
  <1>2. CASE \E s : Tail(fs) = <<s>> /\ LoadInSend(Head(fs), s, srv)
    <2>1. PICK s : Tail(fs) = <<s>> /\ LoadInSend(Head(fs), s, srv)
      BY <1>2
    <2>2. LoadInSend(f, s, srv)
      BY <2>1 DEF LoadInSend
    <2> QED BY <2>1, <2>2, PushOnOne, BuildsWaiting, Zenon
  <1>3. CASE \E s, l : Tail(fs) = <<s, l>> /\ LoadInSendInLoad(Head(fs), s, l, srv)
    <2>1. PICK s, l : Tail(fs) = <<s, l>> /\ LoadInSendInLoad(Head(fs), s, l, srv)
      BY <1>3
    <2>2. LoadInSendInLoad(f, s, l, srv)
      BY <2>1 DEF LoadInSendInLoad
    <2>3. <<f>> \o Tail(fs) = <<f, s, l>>
      BY <2>1, PushOnTwo, Zenon
    <2> QED BY <2>2, <2>3, BuildsRetrying, Zenon
  <1> QED BY <1>1, <1>2, <1>3, UnderLoad, Zenon

\* A send goes on.
LEMMA SendMoves ==
  ASSUME NEW srv, NEW fs, Chained(fs, srv), fs # <<>>, Head(fs).call = "send",
         NEW s, Sends(s), s.at \in Asking, s.refresh = Head(fs).refresh
  PROVE  Chained(<<s>> \o Tail(fs), srv)
  <1>1. CASE Tail(fs) = <<>> /\ Head(fs).refresh = TRUE
    <2>1. OneFrame(s, srv)
      BY <1>1 DEF OneFrame
    <2> QED BY <1>1, <2>1, PushOnNone, BuildsOne, Zenon
  <1>2. CASE \E l : Tail(fs) = <<l>> /\ SendInLoad(Head(fs), l, srv)
    <2>1. PICK l : Tail(fs) = <<l>> /\ SendInLoad(Head(fs), l, srv)
      BY <1>2
    <2>2. SendInLoad(s, l, srv)
      BY <2>1 DEF SendInLoad
    <2> QED BY <2>1, <2>2, PushOnOne, BuildsPlacing, Zenon
  <1> QED BY <1>1, <1>2, UnderSend, Zenon

\* A send loads its board: after it succeeded, or to retry it.
LEMMA SendLoads ==
  ASSUME NEW srv, NEW fs, Chained(fs, srv), fs # <<>>, Head(fs).call = "send",
         NEW m, Loads(m, srv), m.at = "get", m.sync = FALSE,
         NEW s, Sends(s), s.refresh = Head(fs).refresh,
         s.at = "reloading" \/ (s.at = "refreshing" /\ s.refresh = TRUE)
  PROVE  Chained(<<m, s>> \o Tail(fs), srv)
  <1>0. m.at \in InnerStages
    BY DEF InnerStages
  <1>1. CASE Tail(fs) = <<>> /\ Head(fs).refresh = TRUE
    <2>1. LoadInSend(m, s, srv)
      BY <1>0, <1>1 DEF LoadInSend
    <2> QED BY <1>1, <2>1, PushOnNone, BuildsWaiting, Zenon
  <1>2. CASE \E l : Tail(fs) = <<l>> /\ SendInLoad(Head(fs), l, srv)
    <2>1. PICK l : Tail(fs) = <<l>> /\ SendInLoad(Head(fs), l, srv)
      BY <1>2
    <2>2. LoadInSendInLoad(m, s, l, srv)
      BY <1>0, <2>1 DEF SendInLoad, LoadInSendInLoad
    <2>3. <<m, s>> \o Tail(fs) = <<m, s, l>>
      BY <2>1, PushTwoOnOne, Zenon
    <2> QED BY <2>2, <2>3, BuildsRetrying, Zenon
  <1> QED BY <1>1, <1>2, UnderSend, Zenon

\* The send that reloaded is made once more.
LEMMA SendRetries ==
  ASSUME NEW srv, NEW fs, Chained(fs, srv), fs # <<>>, Head(fs).call = "load",
         Tail(fs) # <<>>, Head(Tail(fs)).at = "reloading"
  PROVE  /\ Sends(Head(Tail(fs)))
         /\ \A s : Sends(s) /\ s.at = "ask" /\ s.refresh = Head(Tail(fs)).refresh
                   => Chained(<<s>> \o Tail(Tail(fs)), srv)
  <1>1. ASSUME NEW r, Tail(fs) = <<r>>, LoadInSend(Head(fs), r, srv)
        PROVE  /\ Sends(Head(Tail(fs)))
               /\ \A s : Sends(s) /\ s.at = "ask" /\ s.refresh = Head(Tail(fs)).refresh
                         => Chained(<<s>> \o Tail(Tail(fs)), srv)
    <2>1. Head(Tail(fs)) = r /\ Tail(Tail(fs)) = <<>>
      BY <1>1, Taken, Zenon
    <2>2. \A s : Sends(s) /\ s.at = "ask" /\ s.refresh = r.refresh => OneFrame(s, srv)
      BY <1>1 DEF OneFrame, LoadInSend, Asking
    <2>3. Sends(r)
      BY <1>1 DEF LoadInSend
    <2> QED BY <2>1, <2>2, <2>3, PushOnNone, BuildsOne, Zenon
  <1>2. ASSUME NEW r, NEW l, Tail(fs) = <<r, l>>, LoadInSendInLoad(Head(fs), r, l, srv)
        PROVE  /\ Sends(Head(Tail(fs)))
               /\ \A s : Sends(s) /\ s.at = "ask" /\ s.refresh = Head(Tail(fs)).refresh
                         => Chained(<<s>> \o Tail(Tail(fs)), srv)
    <2>1. Head(Tail(fs)) = r /\ Tail(Tail(fs)) = <<l>>
      BY <1>2, Taken, Zenon
    <2>2. \A s : Sends(s) /\ s.at = "ask" /\ s.refresh = r.refresh => SendInLoad(s, l, srv)
      BY <1>2 DEF SendInLoad, LoadInSendInLoad, Asking
    <2>3. Sends(r)
      BY <1>2 DEF LoadInSendInLoad
    <2> QED BY <2>1, <2>2, <2>3, PushOnOne, BuildsPlacing, Zenon
  <1> QED BY <1>1, <1>2, UnderLoad, Zenon

---------------------------------------------------------------------------
(* The parts of the handlers.                                                 *)

\* The frame a boot starts with.
LEMMA BootStarts == \A b \in Boards : Boots(BootFrame(b))
  BY DEF Boots, BootFrame

\* A call in progress is a chain.
LEMMA Running ==
  ASSUME Calls, NEW j \in Jobs, NEW call, NEW at, Is(j, call, at)
  PROVE  Chained(jobs[j], server) /\ jobs[j] # <<>> /\ Head(jobs[j]).call = call /\ Head(jobs[j]).at = at
  BY DEF Calls, Is, Idle, Top

\* Calls are as before when the server gained marks and slot j became `fs`.
LEMMA CallsAfter ==
  ASSUME Calls, NEW j \in Jobs, NEW fs, \A b \in Boards : server[b] \subseteq server'[b],
         jobs' = [jobs EXCEPT ![j] = fs], Chained(fs, server')
  PROVE  Calls'
  <1>1. DOMAIN jobs' = Jobs /\ \A k \in Jobs : Chained(jobs'[k], server')
    BY OneCallMoves
  <1> QED BY <1>1 DEF Calls

\* A load that ends leaves nothing, or the retry of the send that waited.
LEMMA LoadEndsWell ==
  ASSUME Calls, server' = server, NEW j \in Jobs, NEW at, Is(j, "load", at),
         busy \in BOOLEAN, loading \in BOOLEAN, NEW doc, LoadEnds(j, doc)
  PROVE  Calls' /\ busy' \in BOOLEAN /\ loading' \in BOOLEAN
  <1> DEFINE fs == jobs[j]
             rest == Tail(fs)
             retried == SendFrame(Head(rest).cmd, Head(rest).board, Head(rest).refresh, FALSE, doc)
  <1>1. Chained(fs, server) /\ fs # <<>> /\ Head(fs).call = "load"
    BY Running
  <1>2. CASE rest # <<>> /\ Head(rest).at = "reloading"
    <2>1. Sends(Head(rest)) /\ \A s : Sends(s) /\ s.at = "ask" /\ s.refresh = Head(rest).refresh => Chained(<<s>> \o Tail(rest), server)
      BY <1>1, <1>2, SendRetries
    <2>2. Sends(retried) /\ retried.at = "ask" /\ retried.refresh = Head(rest).refresh
      BY <2>1 DEF Sends, SendFrame
    <2>3. jobs' = [jobs EXCEPT ![j] = <<retried>> \o Tail(rest)]
      BY <1>2 DEF LoadEnds, Become
    <2> QED BY <2>1, <2>2, <2>3, CallsAfter DEF LoadEnds
  <1>3. CASE ~(rest # <<>> /\ Head(rest).at = "reloading")
    <2>1. jobs' = [jobs EXCEPT ![j] = <<>>]
      BY <1>3 DEF LoadEnds, Become
    <2>2. Chained(<<>>, server')
      BY DEF Chained
    <2> QED BY <2>1, <2>2, CallsAfter DEF LoadEnds
  <1> QED BY <1>2, <1>3

\* The next task is placed by a send on top of the load, which waits.
LEMMA SpawnNextWell ==
  ASSUME Calls, server' = server, active \in Boards, NEW j \in Jobs, NEW load, Loads(load, server),
         load.at \in {"listed", "spawn"}, NEW doc, SpawnNext(j, load, doc)
  PROVE  Calls' /\ busy' \in BOOLEAN
  <1>1. CASE load.missing = {}
    <2> DEFINE f == [load EXCEPT !.at = "reget"]
    <2>1. Loads(f, server) /\ f.at \in OuterStages
      BY DEF Loads, OuterStages
    <2>2. Chained(<<f>>, server) /\ jobs' = [jobs EXCEPT ![j] = <<f>>]
      BY <1>1, <2>1, BuildsOne DEF SpawnNext, Become, OneFrame
    <2> QED BY <1>1, <2>2, CallsAfter DEF SpawnNext
  <1>2. CASE load.missing # {}
    <2> DEFINE t == CHOOSE t \in load.missing : TRUE
               s == SendFrame(t, active, FALSE, TRUE, doc)
               l == [load EXCEPT !.at = "spawn", !.missing = @ \ {t}]
    <2>1. t \in Marks
      BY <1>2 DEF Loads, Marks
    <2>2. Sends(s) /\ s.at = "ask" /\ s.refresh = FALSE
      BY <2>1 DEF Sends, SendFrame
    <2>3. Loads(l, server) /\ l.at = "spawn"
      BY DEF Loads
    <2>4. jobs' = [jobs EXCEPT ![j] = <<s, l>>] /\ busy' = TRUE
      BY <1>2 DEF SpawnNext, Become
    <2> HIDE DEF s, l
    <2>5. Chained(<<s, l>>, server)
      BY <2>2, <2>3, BuildsPlacing DEF SendInLoad, Asking
    <2> QED BY <2>4, <2>5, CallsAfter
  <1> QED BY <1>1, <1>2

\* A send that loads its board waits for it.
LEMMA LoadWithinWell ==
  ASSUME Calls, server' = server, NEW j \in Jobs, NEW at, Is(j, "send", at), loading \in BOOLEAN,
         NEW label, label = "reloading" \/ (label = "refreshing" /\ Top(j).refresh = TRUE),
         NEW doc, LoadWithin(j, label, doc)
  PROVE  Calls' /\ loading' \in BOOLEAN
  <1> DEFINE m == LoadFrame(Top(j).board, FALSE, doc)
             s == [Top(j) EXCEPT !.at = label]
  <1>1. Chained(jobs[j], server) /\ jobs[j] # <<>> /\ Top(j).call = "send" /\ Top(j) = Head(jobs[j])
    BY Running DEF Top
  <1>2. Sends(Top(j))
    BY <1>1, UnderSend
  <1>3. Loads(m, server) /\ m.at = "get" /\ m.sync = FALSE
    BY <1>2 DEF Sends, Loads, LoadFrame
  <1>4. Sends(s) /\ s.at = label /\ s.refresh = Top(j).refresh
    BY <1>2 DEF Sends
  <1>5. jobs' = [jobs EXCEPT ![j] = <<m, s>> \o Tail(jobs[j])]
    BY DEF LoadWithin, Become
  <1> HIDE DEF m, s
  <1>6. Chained(<<m, s>> \o Tail(jobs[j]), server)
    BY <1>1, <1>3, <1>4, SendLoads
  <1> QED BY <1>5, <1>6, CallsAfter DEF LoadWithin

\* The load on top goes on to another stage.
LEMMA LoadStep ==
  ASSUME Calls, \A b \in Boards : server[b] \subseteq server'[b], NEW j \in Jobs, NEW at, Is(j, "load", at),
         NEW f, Loads(f, server'), f.sync = Top(j).sync, SetTop(j, f),
         f.at \in InnerStages \/ (f.at \in OuterStages /\ (at \notin InnerStages \/ Top(j).sync = TRUE))
  PROVE  Calls'
  <1>1. Chained(jobs[j], server) /\ jobs[j] # <<>> /\ Head(jobs[j]).call = "load" /\ Head(jobs[j]).at = at
    BY Running
  <1>2. Chained(jobs[j], server')
    BY <1>1, ChainsGrow
  <1>3. Chained(<<f>> \o Tail(jobs[j]), server')
    BY <1>1, <1>2, LoadMoves DEF Top
  <1>4. jobs' = [jobs EXCEPT ![j] = <<f>> \o Tail(jobs[j])]
    BY DEF SetTop
  <1> QED BY <1>3, <1>4, CallsAfter

\* The send on top goes on to another stage.
LEMMA SendStep ==
  ASSUME Calls, \A b \in Boards : server[b] \subseteq server'[b], NEW j \in Jobs, NEW at, Is(j, "send", at),
         NEW s, Sends(s), s.refresh = Top(j).refresh, s.at \in Asking, SetTop(j, s)
  PROVE  Calls'
  <1>1. Chained(jobs[j], server) /\ jobs[j] # <<>> /\ Head(jobs[j]).call = "send"
    BY Running
  <1>2. Chained(jobs[j], server')
    BY <1>1, ChainsGrow
  <1>3. Chained(<<s>> \o Tail(jobs[j]), server')
    BY <1>1, <1>2, SendMoves DEF Top
  <1>4. jobs' = [jobs EXCEPT ![j] = <<s>> \o Tail(jobs[j])]
    BY DEF SetTop
  <1> QED BY <1>3, <1>4, CallsAfter

---------------------------------------------------------------------------
(* The invariant holds at the start, and every step keeps it.                 *)

LEMMA IInvInit == Init => IInv
  <1> SUFFICES ASSUME Init PROVE IInv
    OBVIOUS
  <1>1. Signals /\ World /\ Shown
    BY BoardsAssumption DEF Init, Signals, World, Shown
  <1>2. Cached
    BY DEF Init, Cached
  <1>3. Chained(<<BootFrame(Default)>>, server) /\ Chained(<<>>, server)
    BY BoardsAssumption, BootStarts, BuildsOne DEF OneFrame, Chained
  <1>4. Calls
    BY <1>3 DEF Init, Calls
  <1> QED BY <1>1, <1>2, <1>4 DEF IInv

\* What is shown and kept outlasts whatever the server gains.
LEMMA Outlasts ==
  ASSUME IInv, \A b \in Boards : server[b] \subseteq server'[b]
  PROVE  /\ shown' = shown => Shown'
         /\ cache' = cache => Cached'
  <1>1. ASSUME shown' = shown PROVE Shown'
    BY <1>1 DEF IInv, Shown, Shows
  <1>2. ASSUME cache' = cache PROVE Cached'
    BY <1>2 DEF IInv, Cached, Seeded, Copy
  <1> QED BY <1>1, <1>2

\* A load ends by keeping its own copy under its own board.
LEMMA FinishLoadWell ==
  ASSUME IInv, server' = server, NEW j \in Jobs, NEW at, Is(j, "load", at),
         Seeded(Top(j).doc, Top(j).board, server), FinishLoad(j, Top(j))
  PROVE  Cached' /\ Calls' /\ busy' \in BOOLEAN /\ loading' \in BOOLEAN
  <1>1. Cached'
    BY DEF IInv, Cached, FinishLoad
  <1>2. ASSUME NEW doc, LoadEnds(j, doc)
        PROVE  Calls' /\ busy' \in BOOLEAN /\ loading' \in BOOLEAN
    BY <1>2, LoadEndsWell DEF IInv, Signals
  <1>3. LoadEnds(j, shown')
    BY DEF FinishLoad
  <1> QED BY <1>1, <1>2, <1>3

LEMMA BootKeeps ==
  ASSUME IInv, NEW b \in Boards, NEW j \in Jobs, Boot(b, j), shown' \in {NoDoc, shown}
  PROVE  IInv'
  <1>1. Chained(<<BootFrame(b)>>, server) /\ server' = server
    BY BootStarts, BuildsOne DEF OneFrame, Boot, world
  <1>2. Calls'
    BY <1>1, CallsAfter DEF Boot, Become, IInv
  <1>3. Signals' /\ World' /\ Shown'
    BY DEF IInv, Signals, World, Shown, Boot, world
  <1>4. Cached'
    BY <1>1, Outlasts DEF Boot
  <1> QED BY <1>2, <1>3, <1>4 DEF IInv

LEMMA CacheAnswersKeeps ==
  ASSUME IInv, NEW j \in Jobs, CacheAnswers(j)
  PROVE  IInv'
  <1>1. PICK c \in CachedBoardState(Top(j).board) :
          /\ shown' = c /\ loading' = (c = NoDoc)
          /\ Become(j, <<LoadFrame(Top(j).board, TRUE, c)>>)
    BY DEF CacheAnswers
  <1>2. Boots(Top(j)) /\ Top(j).board \in Boards
    BY Running, UnderBoot DEF IInv, CacheAnswers, Top, Boots
  <1>3. Loads(LoadFrame(Top(j).board, TRUE, c), server) /\ LoadFrame(Top(j).board, TRUE, c).at \in OuterStages
    BY <1>2 DEF Loads, LoadFrame, OuterStages, InnerStages
  <1>4. server' = server /\ Chained(<<LoadFrame(Top(j).board, TRUE, c)>>, server)
    BY <1>3, BuildsOne DEF OneFrame, CacheAnswers, world
  <1>5. Calls'
    BY <1>1, <1>4, CallsAfter DEF Become, IInv
  <1>6. Signals' /\ World'
    BY <1>1 DEF IInv, Signals, World, CacheAnswers, world
  <1>7. Shown'
    <2>1. CASE c = NoDoc
      BY <1>1, <2>1 DEF Shown
    <2>2. CASE c # NoDoc
      <3>1. Seeded(c, Top(j).board, server)
        BY <1>1, <1>2, <2>2 DEF IInv, Cached, CachedBoardState
      <3>2. Shows(c, server)
        BY <1>2, <3>1, CopyMayBeShown DEF IInv
      <3> QED BY <1>1, <1>4, <3>2 DEF Shown
    <2> QED BY <2>1, <2>2
  <1>8. Cached'
    BY <1>4, Outlasts DEF CacheAnswers
  <1> QED BY <1>5, <1>6, <1>7, <1>8 DEF IInv

\* A load begins, of the board active now.
LEMMA LoadBegins ==
  ASSUME IInv, NEW j \in Jobs, NEW sync, Become(j, <<LoadFrame(active, sync, shown)>>),
         loading' = (loading \/ shown = NoDoc), UNCHANGED <<active, shown, busy, cache, madeOn, world>>
  PROVE  IInv'
  <1>1. Loads(LoadFrame(active, sync, shown), server) /\ LoadFrame(active, sync, shown).at \in OuterStages
    BY DEF IInv, Signals, Loads, LoadFrame, OuterStages, InnerStages
  <1>2. server' = server /\ Chained(<<LoadFrame(active, sync, shown)>>, server)
    BY <1>1, BuildsOne DEF OneFrame, world
  <1>3. Calls'
    BY <1>2, CallsAfter DEF Become, IInv
  <1>4. Signals' /\ World'
    BY DEF IInv, Signals, World, world
  <1>5. Shown' /\ Cached'
    BY <1>2, Outlasts
  <1> QED BY <1>3, <1>4, <1>5 DEF IInv

\* A load that reads, and changes nothing else, keeps the invariant.
LEMMA LoadReads ==
  ASSUME IInv, NEW j \in Jobs, NEW at, Is(j, "load", at), NEW f, Loads(f, server), f.sync = Top(j).sync,
         f.at \in InnerStages \/ (f.at \in OuterStages /\ (at \notin InnerStages \/ Top(j).sync = TRUE)),
         SetTop(j, f), UNCHANGED <<tab, world>>
  PROVE  IInv'
  <1>1. server' = server
    BY DEF world
  <1>2. Calls'
    BY <1>1, LoadStep DEF IInv
  <1>3. Signals' /\ World'
    BY DEF IInv, Signals, World, tab, world
  <1>4. Shown' /\ Cached'
    BY <1>1, Outlasts DEF tab
  <1> QED BY <1>2, <1>3, <1>4 DEF IInv

\* What the load on top holds.
LEMMA TopLoads ==
  ASSUME IInv, NEW j \in Jobs, NEW at, Is(j, "load", at)
  PROVE  Loads(Top(j), server) /\ Top(j).at = at
  BY Running, UnderLoad DEF IInv, Top

LEMMA ServeGetKeeps ==
  ASSUME IInv, NEW j \in Jobs, ServeGet(j)
  PROVE  IInv'
  <1>1. PICK at \in {"get", "again", "reget"} :
          /\ Is(j, "load", at)
          /\ SetTop(j, [Top(j) EXCEPT !.doc = Fetched(Top(j).board),
                          !.at = CASE at = "get" -> "got" [] at = "again" -> "fresh" [] at = "reget" -> "synced"])
    BY DEF ServeGet
  <1>2. UNCHANGED <<tab, world>>
    BY DEF ServeGet
  <1>3. Loads(Top(j), server) /\ Top(j).at = at /\ Top(j).board \in Boards
    BY <1>1, TopLoads DEF Loads
  <1>4. /\ Copy(Fetched(Top(j).board), Top(j).board, server)
        /\ server[Top(j).board] # {} => Seeded(Fetched(Top(j).board), Top(j).board, server)
    BY FetchedIsCopy
  <1>5. CASE at = "get"
    <2> DEFINE f == [Top(j) EXCEPT !.doc = Fetched(Top(j).board), !.at = "got"]
    <2>1. SetTop(j, f)
      BY <1>1, <1>5
    <2>2. Loads(f, server) /\ f.at \in InnerStages /\ f.sync = Top(j).sync
      BY <1>3, <1>4 DEF Loads, InnerStages
    <2> HIDE DEF f
    <2> QED BY <1>1, <1>2, <2>1, <2>2, LoadReads
  <1>6. CASE at = "again"
    <2> DEFINE f == [Top(j) EXCEPT !.doc = Fetched(Top(j).board), !.at = "fresh"]
    <2>1. SetTop(j, f)
      BY <1>1, <1>6
    <2>2. server[Top(j).board] # {}
      BY <1>3, <1>6 DEF Loads
    <2>3. Loads(f, server) /\ f.at \in InnerStages /\ f.sync = Top(j).sync
      BY <1>3, <1>4, <2>2 DEF Loads, InnerStages
    <2> HIDE DEF f
    <2> QED BY <1>1, <1>2, <2>1, <2>3, LoadReads
  <1>7. CASE at = "reget"
    <2> DEFINE f == [Top(j) EXCEPT !.doc = Fetched(Top(j).board), !.at = "synced"]
    <2>1. SetTop(j, f)
      BY <1>1, <1>7
    <2>2. server[Top(j).board] # {}
      BY <1>3, <1>7 DEF Loads, Seeded, Copy
    <2>3. Loads(f, server) /\ f.at \in OuterStages /\ f.sync = Top(j).sync /\ at \notin InnerStages
      BY <1>3, <1>4, <1>7, <2>2 DEF Loads, OuterStages, InnerStages
    <2> HIDE DEF f
    <2> QED BY <1>1, <1>2, <2>1, <2>3, LoadReads
  <1> QED BY <1>5, <1>6, <1>7

LEMMA ServeSeedKeeps ==
  ASSUME IInv, NEW j \in Jobs, ServeSeed(j)
  PROVE  IInv'
  <1> DEFINE f == [Top(j) EXCEPT !.at = "again"]
  <1>1. Is(j, "load", "seed") /\ SetTop(j, f) /\ UNCHANGED <<tab, rows, failures>>
    BY DEF ServeSeed, At
  <1>2. Loads(Top(j), server) /\ Top(j).at = "seed" /\ Top(j).board \in Boards
    BY <1>1, TopLoads DEF Loads
  <1>3. /\ \A b \in Boards : server[b] \subseteq server'[b]
        /\ server' \in [Boards -> SUBSET Marks] /\ server'[Top(j).board] # {}
    BY <1>2 DEF ServeSeed, IInv, World, Marks
  <1>4. Loads(f, server') /\ f.sync = Top(j).sync /\ f.at \in InnerStages
    <2>1. Loads(Top(j), server')
      BY <1>2, <1>3, LoadsGrow
    <2> QED BY <1>3, <2>1 DEF Loads, InnerStages
  <1> HIDE DEF f
  <1>5. Calls'
    BY <1>1, <1>3, <1>4, LoadStep DEF IInv
  <1>6. Shown' /\ Cached'
    BY <1>1, <1>3, Outlasts DEF tab
  <1> QED BY <1>1, <1>3, <1>5, <1>6 DEF IInv, Signals, World, tab

LEMMA GotEmptyBoardKeeps ==
  ASSUME IInv, NEW j \in Jobs, GotEmptyBoard(j)
  PROVE  IInv'
  <1> DEFINE f == [Top(j) EXCEPT !.at = "seed"]
  <1>1. Is(j, "load", "got") /\ SetTop(j, f) /\ UNCHANGED <<tab, world>>
    BY DEF GotEmptyBoard, At
  <1>2. Loads(Top(j), server)
    BY <1>1, TopLoads
  <1>3. Loads(f, server) /\ f.sync = Top(j).sync /\ f.at \in InnerStages
    BY <1>2 DEF Loads, InnerStages
  <1> HIDE DEF f
  <1> QED BY <1>1, <1>3, LoadReads

LEMMA ShowLoadedKeeps ==
  ASSUME IInv, NEW j \in Jobs, ShowLoaded(j)
  PROVE  IInv'
  <1>1. /\ server' = server /\ rows' = rows /\ active' = active /\ shown' = Top(j).doc
        /\ Is(j, "load", "fresh") \/ (Is(j, "load", "got") /\ ~NeedsSeed(Top(j).doc))
    BY DEF ShowLoaded, world
  <1>2. Loads(Top(j), server) /\ Top(j).at \in {"fresh", "got"}
    BY <1>1, TopLoads
  <1>3. Top(j).board \in Boards /\ Seeded(Top(j).doc, Top(j).board, server)
    BY <1>1, <1>2, TopLoads DEF Loads, Seeded, NeedsSeed
  <1>4. Shown' /\ World'
    <2>1. Shows(Top(j).doc, server)
      BY <1>3, CopyMayBeShown DEF IInv
    <2> QED BY <1>1, <2>1 DEF Shown, World, IInv
  <1>5. CASE Top(j).sync
    <2> DEFINE f == [Top(j) EXCEPT !.at = "list"]
    <2>1. SetTop(j, f) /\ UNCHANGED <<loading, busy, cache>>
      BY <1>5 DEF ShowLoaded, At
    <2>2. Loads(f, server') /\ f.sync = Top(j).sync /\ f.at \in OuterStages
      BY <1>1, <1>2, <1>3 DEF Loads, OuterStages
    <2> HIDE DEF f
    <2>3. Calls'
      BY <1>1, <1>5, <2>1, <2>2, LoadStep DEF IInv
    <2>4. Cached'
      BY <1>1, <2>1, Outlasts
    <2> QED BY <1>1, <1>4, <2>1, <2>3, <2>4 DEF IInv, Signals
  <1>6. CASE ~Top(j).sync
    <2>1. FinishLoad(j, Top(j))
      BY <1>6 DEF ShowLoaded
    <2>2. Cached' /\ Calls' /\ busy' \in BOOLEAN /\ loading' \in BOOLEAN
      BY <1>1, <1>3, <2>1, FinishLoadWell
    <2> QED BY <1>1, <1>4, <2>2 DEF IInv, Signals
  <1> QED BY <1>5, <1>6

LEMMA ServeListKeeps ==
  ASSUME IInv, NEW j \in Jobs, ServeList(j)
  PROVE  IInv'
  <1> DEFINE f == [Top(j) EXCEPT !.at = "listed", !.missing = MissingRows(Top(j))]
  <1>1. Is(j, "load", "list") /\ SetTop(j, f) /\ UNCHANGED <<tab, world>>
    BY DEF ServeList
  <1>2. Loads(Top(j), server) /\ Top(j).at = "list"
    BY <1>1, TopLoads
  <1>3. MissingRows(Top(j)) \subseteq Tasks
    BY DEF MissingRows, IInv, World
  <1>4. Loads(f, server) /\ f.sync = Top(j).sync /\ f.at \in OuterStages /\ "list" \notin InnerStages
    BY <1>2, <1>3 DEF Loads, OuterStages, InnerStages
  <1> HIDE DEF f
  <1> QED BY <1>1, <1>4, LoadReads

LEMMA ListedKeeps ==
  ASSUME IInv, NEW j \in Jobs, Listed(j)
  PROVE  IInv'
  <1>1. Is(j, "load", "listed") /\ server' = server /\ rows' = rows /\ active' = active /\ shown' = shown
    BY DEF Listed, world
  <1>2. Loads(Top(j), server) /\ Top(j).at = "listed"
    BY <1>1, TopLoads
  <1>3. Seeded(Top(j).doc, Top(j).board, server)
    BY <1>2 DEF Loads
  <1>4. Shown' /\ World'
    BY <1>1, Outlasts DEF World, IInv
  <1>5. CASE Top(j).missing = {}
    <2>1. FinishLoad(j, Top(j))
      BY <1>5 DEF Listed
    <2>2. Cached' /\ Calls' /\ busy' \in BOOLEAN /\ loading' \in BOOLEAN
      BY <1>1, <1>3, <2>1, FinishLoadWell
    <2> QED BY <1>1, <1>4, <2>2 DEF IInv, Signals
  <1>6. CASE Top(j).missing # {}
    <2>1. SpawnNext(j, Top(j), shown) /\ UNCHANGED <<loading, cache>>
      BY <1>6 DEF Listed
    <2>2. Calls' /\ busy' \in BOOLEAN
      BY <1>1, <1>2, <2>1, SpawnNextWell DEF IInv, Signals
    <2>3. Cached'
      BY <1>1, <2>1, Outlasts
    <2> QED BY <1>1, <1>4, <2>1, <2>2, <2>3 DEF IInv, Signals
  <1> QED BY <1>5, <1>6

LEMMA SyncedKeeps ==
  ASSUME IInv, NEW j \in Jobs, Synced(j)
  PROVE  IInv'
  <1>1. /\ Is(j, "load", "synced") /\ server' = server /\ rows' = rows /\ active' = active
        /\ shown' = Top(j).doc /\ FinishLoad(j, Top(j))
    BY DEF Synced, world
  <1>2. Top(j).board \in Boards /\ Seeded(Top(j).doc, Top(j).board, server)
    BY <1>1, TopLoads DEF Loads
  <1>3. Shows(Top(j).doc, server)
    BY <1>2, CopyMayBeShown DEF IInv
  <1>4. Cached' /\ Calls' /\ busy' \in BOOLEAN /\ loading' \in BOOLEAN
    BY <1>1, <1>2, FinishLoadWell
  <1> QED BY <1>1, <1>3, <1>4 DEF IInv, Signals, World, Shown

LEMMA LoadFailsKeeps ==
  ASSUME IInv, NEW j \in Jobs, LoadFails(j)
  PROVE  IInv'
  <1>1. server' = server /\ rows' = rows /\ active' = active /\ shown' = shown
    BY DEF LoadFails
  <1>2. Shown' /\ World' /\ active' \in Boards
    BY <1>1, Outlasts DEF World, IInv, Signals
  <1>3. CASE /\ \E at \in {"get", "seed", "again"} : Is(j, "load", at)
             /\ LoadEnds(j, shown) /\ UNCHANGED <<shown, cache>>
    <2>1. PICK at \in {"get", "seed", "again"} : Is(j, "load", at)
      BY <1>3
    <2>2. Calls' /\ busy' \in BOOLEAN /\ loading' \in BOOLEAN
      BY <1>1, <1>3, <2>1, LoadEndsWell DEF IInv, Signals
    <2>3. Cached'
      BY <1>1, <1>3, Outlasts
    <2> QED BY <1>2, <2>2, <2>3 DEF IInv, Signals
  <1>4. CASE /\ \E at \in {"list", "reget"} : Is(j, "load", at)
             /\ UNCHANGED shown /\ FinishLoad(j, Top(j))
    <2>1. PICK at \in {"list", "reget"} : Is(j, "load", at)
      BY <1>4
    <2>2. Seeded(Top(j).doc, Top(j).board, server)
      BY <2>1, TopLoads DEF Loads
    <2>3. Cached' /\ Calls' /\ busy' \in BOOLEAN /\ loading' \in BOOLEAN
      BY <1>1, <1>4, <2>1, <2>2, FinishLoadWell
    <2> QED BY <1>2, <2>3 DEF IInv, Signals
  <1> QED BY <1>3, <1>4 DEF LoadFails

LEMMA GestureKeeps ==
  ASSUME IInv, NEW g \in Gestures, NEW j \in Jobs, Gesture(g, j)
  PROVE  IInv'
  <1> DEFINE s == SendFrame(g, active, TRUE, TRUE, shown)
  <1>1. /\ server' = server /\ rows' = rows /\ active' = active /\ loading' = loading /\ busy' = TRUE
        /\ cache' = cache /\ shown # NoDoc /\ jobs' = [jobs EXCEPT ![j] = <<s>>]
        /\ shown' = IF g \in Optimistic THEN [shown EXCEPT !.ghosts = @ \cup {g}] ELSE shown
    BY DEF Gesture, world, Become
  <1>2. Sends(s) /\ s.at = "ask" /\ s.refresh = TRUE
    BY DEF Sends, SendFrame, Marks, IInv, Signals
  <1> HIDE DEF s
  <1>3. Chained(<<s>>, server)
    BY <1>2, BuildsOne DEF OneFrame, Asking
  <1>4. Calls'
    BY <1>1, <1>3, CallsAfter DEF IInv
  <1>5. Shown'
    BY <1>1 DEF IInv, Shown, Shows
  <1>6. Cached'
    BY <1>1, Outlasts
  <1> QED BY <1>1, <1>4, <1>5, <1>6 DEF IInv, Signals, World

\* What the send on top holds.
LEMMA TopSends ==
  ASSUME IInv, NEW j \in Jobs, NEW at, Is(j, "send", at)
  PROVE  Sends(Top(j)) /\ Top(j).at = at
  BY Running, UnderSend DEF IInv, Top

LEMMA ServeSendKeeps ==
  ASSUME IInv, NEW j \in Jobs, ServeSend(j)
  PROVE  IInv'
  <1>1. Is(j, "send", "ask") /\ UNCHANGED <<tab, rows, failures>>
    BY DEF ServeSend
  <1>2. Sends(Top(j)) /\ Top(j).board \in Boards /\ Top(j).cmd \in Marks
    BY <1>1, TopSends DEF Sends
  <1>3. ASSUME \A b \in Boards : server[b] \subseteq server'[b], server' \in [Boards -> SUBSET Marks],
               NEW s, Sends(s), s.refresh = Top(j).refresh, s.at \in Asking, SetTop(j, s)
        PROVE  IInv'
    <2>1. Calls'
      BY <1>1, <1>3, SendStep DEF IInv
    <2>2. Shown' /\ Cached'
      BY <1>1, <1>3, Outlasts DEF tab
    <2> QED BY <1>1, <1>3, <2>1, <2>2 DEF IInv, Signals, World, tab
  <1>4. ASSUME NEW label \in {"conflict", "refused"}, At(j, label), UNCHANGED server
        PROVE  IInv'
    <2> DEFINE s == [Top(j) EXCEPT !.at = label]
    <2>1. Sends(s) /\ s.refresh = Top(j).refresh /\ s.at \in Asking /\ SetTop(j, s)
      BY <1>2, <1>4 DEF Sends, Asking, At
    <2> HIDE DEF s
    <2> QED BY <1>3, <1>4, <2>1 DEF IInv, World
  <1>5. ASSUME server' = [server EXCEPT ![Top(j).board] = @ \cup {Top(j).cmd}],
               SetTop(j, [Top(j) EXCEPT !.at = "ok", !.newVer = Version(server'[Top(j).board])])
        PROVE  IInv'
    <2> DEFINE s == [Top(j) EXCEPT !.at = "ok", !.newVer = Version(server'[Top(j).board])]
    <2>1. server' \in [Boards -> SUBSET Marks] /\ \A b \in Boards : server[b] \subseteq server'[b]
      BY <1>2, <1>5 DEF IInv, World
    <2>2. Version(server'[Top(j).board]) \in 0..Cardinality(Marks)
      BY <1>2, <2>1, VersionBounds
    <2>3. Sends(s) /\ s.refresh = Top(j).refresh /\ s.at \in Asking /\ SetTop(j, s)
      BY <1>2, <1>5, <2>2 DEF Sends, Asking
    <2> HIDE DEF s
    <2> QED BY <1>3, <2>1, <2>3
  <1> QED BY <1>4, <1>5 DEF ServeSend

\* A send made within a load stands on that load.
LEMMA PlacingLoad ==
  ASSUME IInv, NEW j \in Jobs, NEW at, Is(j, "send", at), Len(jobs[j]) # 1 \/ ~Top(j).refresh
  PROVE  Loads(jobs[j][2], server) /\ jobs[j][2].at = "spawn"
  <1>1. \/ Tail(jobs[j]) = <<>> /\ Len(jobs[j]) = 1 /\ Top(j).refresh = TRUE
        \/ \E l : Tail(jobs[j]) = <<l>> /\ Len(jobs[j]) = 2 /\ jobs[j][2] = l /\ SendInLoad(Top(j), l, server)
    BY Running, UnderSend DEF IInv, Top
  <1> QED BY <1>1 DEF SendInLoad

LEMMA SendSucceedsKeeps ==
  ASSUME IInv, NEW j \in Jobs, SendSucceeds(j)
  PROVE  IInv'
  <1>1. /\ Is(j, "send", "ok") /\ server' = server /\ rows' = rows /\ active' = active
        /\ shown' = IF shown = NoDoc THEN NoDoc ELSE [shown EXCEPT !.ver = Top(j).newVer]
    BY DEF SendSucceeds, world
  <1>2. Sends(Top(j)) /\ Top(j).newVer \in 0..Cardinality(Marks)
    BY <1>1, TopSends DEF Sends
  <1>3. Shown' /\ World'
    BY <1>1, <1>2 DEF Shown, Shows, World, IInv
  <1>4. CASE Top(j).refresh
    <2>1. LoadWithin(j, "refreshing", shown')
      BY <1>4 DEF SendSucceeds
    <2>2. ASSUME NEW doc, LoadWithin(j, "refreshing", doc)
          PROVE  Calls' /\ loading' \in BOOLEAN
      BY <1>1, <1>4, <2>2, LoadWithinWell DEF IInv, Signals
    <2>3. Calls' /\ loading' \in BOOLEAN
      BY <2>1, <2>2
    <2>4. busy' = busy /\ Cached'
      BY <1>1, <2>1, Outlasts DEF LoadWithin
    <2> QED BY <1>1, <1>3, <2>3, <2>4 DEF IInv, Signals
  <1>5. CASE ~Top(j).refresh
    <2>1. SpawnNext(j, jobs[j][2], shown') /\ UNCHANGED <<loading, cache>>
      BY <1>5 DEF SendSucceeds
    <2>2. ASSUME NEW doc, SpawnNext(j, jobs[j][2], doc)
          PROVE  Calls' /\ busy' \in BOOLEAN
      <3>1. Loads(jobs[j][2], server) /\ jobs[j][2].at = "spawn"
        BY <1>1, <1>5, PlacingLoad
      <3> QED BY <1>1, <2>2, <3>1, SpawnNextWell DEF IInv, Signals
    <2>3. Calls' /\ busy' \in BOOLEAN
      BY <2>1, <2>2
    <2>4. Cached'
      BY <1>1, <2>1, Outlasts
    <2> QED BY <1>1, <1>3, <2>1, <2>3, <2>4 DEF IInv, Signals
  <1> QED BY <1>4, <1>5

LEMMA SendConflictsKeeps ==
  ASSUME IInv, NEW j \in Jobs, SendConflicts(j)
  PROVE  IInv'
  <1>1. /\ Is(j, "send", "conflict") /\ server' = server /\ rows' = rows /\ active' = active
        /\ shown' = shown /\ LoadWithin(j, "reloading", shown)
    BY DEF SendConflicts, world
  <1>2. Calls' /\ loading' \in BOOLEAN
    BY <1>1, LoadWithinWell DEF IInv, Signals
  <1>3. busy' = busy /\ Shown' /\ Cached'
    BY <1>1, Outlasts DEF LoadWithin
  <1> QED BY <1>1, <1>2, <1>3 DEF IInv, Signals, World

LEMMA SendThrowsKeeps ==
  ASSUME IInv, NEW j \in Jobs, SendThrows(j)
  PROVE  IInv'
  <1>1. /\ server' = server /\ rows' = rows /\ active' = active /\ shown' = shown /\ busy' = FALSE
        /\ jobs' = [jobs EXCEPT ![j] = <<>>]
    BY DEF SendThrows, Become
  <1>2. PICK at : Is(j, "send", at)
    BY DEF SendThrows
  <1>3. Calls'
    BY <1>1, CallsAfter DEF IInv, Chained
  <1>4. Shown' /\ World'
    BY <1>1, Outlasts DEF World, IInv
  <1>5. CASE Len(jobs[j]) = 1
    <2>1. loading' = loading /\ cache' = cache
      BY <1>5 DEF SendThrows
    <2> QED BY <1>1, <1>3, <1>4, <2>1, Outlasts DEF IInv, Signals
  <1>6. CASE Len(jobs[j]) # 1
    <2> DEFINE l == jobs[j][2]
    <2>1. Loads(l, server) /\ Seeded(l.doc, l.board, server)
      BY <1>2, <1>6, PlacingLoad DEF Loads
    <2>2. cache' = [cache EXCEPT ![l.board] = l.doc] /\ loading' \in BOOLEAN
      BY <1>6 DEF SendThrows, IInv, Signals
    <2> HIDE DEF l
    <2>3. Cached'
      BY <1>1, <2>1, <2>2 DEF IInv, Cached
    <2> QED BY <1>1, <1>3, <1>4, <2>2, <2>3 DEF IInv, Signals
  <1> QED BY <1>5, <1>6

LEMMA SpawnAlreadyDoneKeeps ==
  ASSUME IInv, NEW j \in Jobs, SpawnAlreadyDone(j)
  PROVE  IInv'
  <1>1. /\ Is(j, "send", "refused") /\ Len(jobs[j]) = 2 /\ SpawnNext(j, jobs[j][2], shown)
        /\ active' = active /\ shown' = shown /\ loading' = loading /\ cache' = cache
        /\ server' = server /\ rows' = rows
    BY DEF SpawnAlreadyDone, world
  <1>2. Loads(jobs[j][2], server) /\ jobs[j][2].at = "spawn"
    BY <1>1, PlacingLoad
  <1>3. Calls' /\ busy' \in BOOLEAN
    BY <1>1, <1>2, SpawnNextWell DEF IInv, Signals
  <1> QED BY <1>1, <1>3, Outlasts DEF IInv, Signals, World

LEMMA ForeignCommandKeeps ==
  ASSUME IInv, NEW f \in Foreign, NEW b \in Boards, ForeignCommand(f, b)
  PROVE  IInv'
  <1>1. /\ server' = [server EXCEPT ![b] = @ \cup {f}] /\ UNCHANGED <<tab, jobs, rows>>
        /\ server' \in [Boards -> SUBSET Marks] /\ \A c \in Boards : server[c] \subseteq server'[c]
    BY DEF ForeignCommand, IInv, World, Marks
  <1>2. Calls'
    BY <1>1, ChainsGrow DEF IInv, Calls
  <1>3. Shown' /\ Cached'
    BY <1>1, Outlasts DEF tab
  <1> QED BY <1>1, <1>2, <1>3 DEF IInv, Signals, World, tab

LEMMA RowCreatedKeeps ==
  ASSUME IInv, NEW t \in Tasks, RowCreated(t)
  PROVE  IInv'
  <1>1. UNCHANGED <<tab, jobs, server>> /\ rows' = rows \cup {t}
    BY DEF RowCreated
  <1> QED BY <1>1 DEF IInv, Signals, World, Shown, Cached, Calls, tab

LEMMA StepKeeps ==
  ASSUME IInv, NEW j \in Jobs, Step(j)
  PROVE  IInv'
  BY CacheAnswersKeeps, ServeGetKeeps, ServeSeedKeeps, GotEmptyBoardKeeps, ShowLoadedKeeps, ServeListKeeps,
     ListedKeeps, SyncedKeeps, ServeSendKeeps, SendSucceedsKeeps, SendConflictsKeeps, SendThrowsKeeps,
     SpawnAlreadyDoneKeeps DEF Step

LEMMA IInvNext == IInv /\ [Next]_vars => IInv'
  <1> SUFFICES ASSUME IInv, [Next]_vars PROVE IInv'
    OBVIOUS
  <1>1. CASE UNCHANGED vars
    BY <1>1 DEF vars, IInv, Signals, World, Shown, Cached, Calls
  <1>2. ASSUME NEW j \in Jobs, Step(j) \/ Poll(j) \/ Refresh(j) \/ LoadFails(j)
        PROVE  IInv'
    <2>1. CASE Step(j)
      BY <2>1, StepKeeps
    <2>2. CASE Poll(j)
      BY <2>2, LoadBegins DEF Poll
    <2>3. CASE Refresh(j)
      BY <2>3, LoadBegins DEF Refresh
    <2>4. CASE LoadFails(j)
      BY <2>4, LoadFailsKeeps
    <2> QED BY <1>2, <2>1, <2>2, <2>3, <2>4
  <1>3. ASSUME NEW j \in Jobs, NEW b \in Boards, switchBoard(b, j) \/ GoBack(b, j)
        PROVE  IInv'
    BY <1>3, BootKeeps DEF switchBoard, GoBack
  <1> QED BY <1>1, <1>2, <1>3, GestureKeeps, ForeignCommandKeeps, RowCreatedKeeps DEF Next

LEMMA Always == Spec => []IInv
  BY IInvInit, IInvNext, PTL DEF Spec

---------------------------------------------------------------------------
(* The theorems.                                                              *)

\* What IndexedDB keeps for a board is a seeded copy of that very board's
\* document, whatever loads, switches, sends, retries and failures overlap: the
\* write of loadBoard uses its own board and its own answer (Data:634).
THEOREM CacheIsTrue == Spec => []CacheKeepsBoards
  <1>1. IInv => CacheKeepsBoards
    BY DEF IInv, Cached, Seeded, Copy, CacheKeepsBoards
  <1> QED BY <1>1, Always, PTL

\* A call never has more than three frames, each of a board.
LEMMA FramesName ==
  ASSUME NEW srv, NEW fs, Chained(fs, srv)
  PROVE  Len(fs) <= 3 /\ \A i \in DOMAIN fs : fs[i].board \in Boards
  <1>1. CASE fs = <<>>
    BY <1>1
  <1>2. ASSUME NEW f, fs = <<f>>, OneFrame(f, srv)
        PROVE  Len(fs) <= 3 /\ \A i \in DOMAIN fs : fs[i].board \in Boards
    BY <1>2 DEF OneFrame, Boots, Loads, Sends
  <1>3. ASSUME NEW f, NEW g, fs = <<f, g>>, f.board \in Boards, g.board \in Boards
        PROVE  Len(fs) <= 3 /\ \A i \in DOMAIN fs : fs[i].board \in Boards
    BY <1>3
  <1>4. ASSUME NEW f, NEW g, NEW h, fs = <<f, g, h>>, f.board \in Boards, g.board \in Boards, h.board \in Boards
        PROVE  Len(fs) <= 3 /\ \A i \in DOMAIN fs : fs[i].board \in Boards
    BY <1>4
  <1>5. \A l, s : LoadInSend(l, s, srv) => l.board \in Boards /\ s.board \in Boards
    BY DEF LoadInSend, Loads, Sends
  <1>6. \A s, l : SendInLoad(s, l, srv) => s.board \in Boards /\ l.board \in Boards
    BY DEF SendInLoad, Loads, Sends
  <1>7. \A m, s, l : LoadInSendInLoad(m, s, l, srv) => m.board \in Boards /\ s.board \in Boards /\ l.board \in Boards
    BY DEF LoadInSendInLoad, Loads, Sends
  <1> QED BY <1>1, <1>2, <1>3, <1>4, <1>5, <1>6, <1>7, Chains, Zenon

\* Apart from its own optimistic gestures a tab shows only what its board's
\* server document contained, never an unseeded board, and no call ever stands
\* on more than a load, its send and that send's reload (Data:611-660, Sync:37-98).
THEOREM ShownIsTrue == Spec => []ShowsServerContent
  <1>1. ASSUME IInv PROVE ShowsServerContent
    <2>1. shown \in Docs
      BY <1>1 DEF IInv, Shown, Shows, World, Docs
    <2>2. cache \in [Boards -> Docs]
      <3>1. ASSUME NEW b \in Boards PROVE cache[b] \in Docs
        <4>1. CASE cache[b] = NoDoc
          BY <4>1 DEF Docs
        <4>2. CASE cache[b] # NoDoc
          <5>1. Seeded(cache[b], b, server)
            BY <1>1, <4>2 DEF IInv, Cached
          <5>2. Shows(cache[b], server)
            BY <1>1, <5>1, CopyMayBeShown DEF IInv
          <5> QED BY <1>1, <5>2 DEF Shows, Docs, IInv, World
        <4> QED BY <4>1, <4>2
      <3> QED BY <1>1, <3>1 DEF IInv, Cached
    <2>3. \A j \in Jobs : Len(jobs[j]) <= 3 /\ \A i \in DOMAIN jobs[j] : jobs[j][i].board \in Boards
      BY <1>1, FramesName DEF IInv, Calls
    <2>4. TypeOK
      BY <1>1, <2>1, <2>2, <2>3 DEF TypeOK, IInv, Signals, World
    <2> QED BY <1>1, <2>4 DEF ShowsServerContent, IInv, Shown, Shows
  <1> QED BY <1>1, Always, PTL
=============================================================================
