------------------------- MODULE TerminalStreamProofs -------------------------
(***************************************************************************)
(* A console shows a run's output whole and in order (NoGap) and catches   *)
(* up with it (CaughtUp), for any number of pages, batches and connects.   *)
(* What the worker has put into the delivery queue is a sequence without   *)
(* holes; what is queued for a page is always a tail of it; and the page   *)
(* has, or its init frame brings, everything before that tail.             *)
(***************************************************************************)
EXTENDS TerminalStream, TLAPS

Over == at \in {"finish", "over"}

Frames == [kind : {"init", "start", "data", "end"}, seq : Nat \union {-1}]

Consoles == [rows : Seq(Nat), live : BOOLEAN, last : Nat \union {-1},
             confirmed : Nat \union {-1}, text : Seq(Nat)]

\* The worker has put out the start, numbered 0, then its batches, then the end:
\* the number of the last of these, and that of the last batch
Put ==
    IF at = "start" THEN -1
    ELSE IF at \in {"wait", "feed", "push"} THEN seq - 1 ELSE seq

Pushed == IF at = "note" THEN seq ELSE seq - 1

FrameOf(k, ended, end) ==
    IF k = 0 THEN Frame("start", 0)
    ELSE IF ended /\ k = end THEN Frame("end", 0)
    ELSE Frame("data", k)

FrameAt(k) == FrameOf(k, Over, seq)

\* The history runs ahead of what has been put out, what is noted as sent behind
WorkerInv ==
    /\ at \in {"start", "wait", "feed", "push", "note", "finish", "over"}
    /\ seq \in Nat \ {0} /\ (at = "start" => seq = 1)
    /\ hist = IF at \in {"push", "note"} THEN seq ELSE seq - 1
    /\ sent = seq - 1

\* The delivery queue holds the last frames put out
LineInv ==
    /\ line \in Seq(Frames)
    /\ Len(line) <= Put + 1
    /\ \A i \in 1..Len(line) : line[i] = FrameAt(Put - Len(line) + i)

\* An init frame is on its way to the page
Pending(p) == wire[p] # << >> /\ wire[p][1].kind = "init"

\* The number of the next frame page p receives that is not an init frame
Coming(p) == Put + 1 - Len(line) - Len(wire[p]) + (IF Pending(p) THEN 1 ELSE 0)

\* A console with the batches up to n lacks none of those before Coming(p)
Reach(p, n) == n >= Coming(p) - 1 \/ n >= Pushed

\* A socket carries the frames before those in the delivery queue, behind an init
\* frame whose history has all the batches before them, if the run is not over
WireOf(p) ==
    /\ wire[p] \in Seq(Frames)
    /\ ~on[p] => wire[p] = << >>
    /\ on[p] => Coming(p) >= 0
    /\ \A j \in 1..Len(wire[p]) :
          \/ j = 1 /\ Pending(p)
          \/ wire[p][j] = FrameAt(Put - Len(line) - Len(wire[p]) + j)
    /\ Pending(p) => IF wire[p][1].seq = -1 THEN at = "over" ELSE Reach(p, wire[p][1].seq)

\* The batches up to n are the last of q, each once and in order
Shows(q, n) == n <= Len(q) /\ \A i \in 1..n : q[Len(q) - n + i] = i

ShowsLive(t) == t.live => Shows(t.rows \o t.text, t.last)

\* A console shows what it has received, and has received what was sent to it
ConsoleOf(p) ==
    /\ page[p] \in Consoles
    /\ ShowsLive(page[p])
    /\ on[p] /\ ~Pending(p) /\ page[p].live =>
          Reach(p, IF page[p].last = -1 THEN 0 ELSE page[p].last)
    /\ on[p] /\ ~Pending(p) /\ ~Over => page[p].live

StreamInv ==
    /\ WorkerInv
    /\ LineInv
    /\ on \in [Pages -> BOOLEAN] /\ wire \in [Pages -> Seq(Frames)] /\ page \in [Pages -> Consoles]
    /\ \A p \in Pages : WireOf(p) /\ ConsoleOf(p)

-----------------------------------------------------------------------------
(* The console *)

\* What a console shows, in the words of the property.
LEMMA ShowsSuffix ==
    ASSUME NEW q \in Seq(Nat), NEW n \in Nat \union {-1}, Shows(q, n)
    PROVE  IsSuffix(Upto(n), q)
<1> DEFINE s == Reverse(Upto(n))
           t == Reverse(q)
           m == IF n = -1 THEN 0 ELSE n
<1>1. /\ Upto(n) = [i \in 1..m |-> i] /\ m \in Nat /\ m <= Len(q) /\ Len(q) \in Nat
      /\ \A i \in 1..m : q[Len(q) - m + i] = i
  <2>1. CASE n = -1
    <3>1. 1..n = {} /\ 1..0 = {} /\ m = 0
      BY <2>1
    <3> QED  BY <3>1 DEF Upto
  <2>2. CASE n \in Nat
    <3>1. m = n
      BY <2>2
    <3> HIDE DEF m
    <3> QED  BY <2>2, <3>1 DEF Upto, Shows
  <2> QED  BY <2>1, <2>2
<1>2. Upto(n) \in Seq(Nat) /\ Len(Upto(n)) = m
  BY <1>1
<1> HIDE DEF m
<1>3. s = [i \in 1..m |-> m - i + 1]
  <2>1. \A i \in 1..m : Upto(n)[m - i + 1] = m - i + 1
    BY <1>1
  <2> QED  BY <1>1, <1>2, <2>1 DEF Reverse
<1>4. t = [i \in 1..Len(q) |-> q[(Len(q) - i) + 1]]
  BY DEF Reverse
<1>5. s \in Seq(Nat) /\ Len(s) = m /\ t \in Seq(Nat) /\ Len(t) = Len(q)
  <2>1. \A i \in 1..m : m - i + 1 \in Nat
    BY <1>1
  <2>2. \A i \in 1..Len(q) : q[(Len(q) - i) + 1] \in Nat
    BY <1>1
  <2> QED  BY <1>1, <1>3, <1>4, <2>1, <2>2
<1>6. \A i \in 1..m : s[i] = t[i]
  <2> SUFFICES ASSUME NEW i \in 1..m
               PROVE  s[i] = t[i]
    OBVIOUS
  <2>1. m - i + 1 \in 1..m /\ Len(q) - m + (m - i + 1) = (Len(q) - i) + 1 /\ i \in 1..Len(q)
    BY <1>1
  <2>2. q[Len(q) - m + (m - i + 1)] = m - i + 1
    BY <1>1, <2>1
  <2>3. s[i] = m - i + 1
    BY <1>3
  <2>4. t[i] = q[(Len(q) - i) + 1]
    BY <1>4, <2>1
  <2> QED  BY <2>1, <2>2, <2>3, <2>4
<1> HIDE DEF s, t
<1>7. SubSeq(s, 1, m) = SubSeq(t, 1, m)
  BY <1>1, <1>5, <1>6
<1> QED  BY <1>1, <1>5, <1>7 DEF IsSuffix, IsPrefix, s, t

\* The next batch, below the ones that are there.
LEMMA ShowsNext ==
    ASSUME NEW rows \in Seq(Nat), NEW text \in Seq(Nat), NEW n \in Nat \union {-1},
           Shows(rows \o text, n), NEW k \in Nat, k = (IF n = -1 THEN 0 ELSE n) + 1
    PROVE  Shows(rows \o Append(text, k), k)
<1> DEFINE q == rows \o text
           r == rows \o Append(text, k)
<1>1. /\ q \in Seq(Nat) /\ r \in Seq(Nat) /\ Len(r) = Len(q) + 1 /\ Len(q) \in Nat
      /\ \A i \in 1..Len(q) : r[i] = q[i]
      /\ r[Len(q) + 1] = k
  OBVIOUS
<1>2. n <= Len(q) /\ \A i \in 1..n : q[Len(q) - n + i] = i
  BY DEF Shows
<1> HIDE DEF q, r
<1>3. k <= Len(r)
  BY <1>1, <1>2
<1>4. ASSUME NEW i \in 1..k
      PROVE  r[Len(r) - k + i] = i
  <2>1. CASE i = k
    BY <1>1, <2>1
  <2>2. CASE i # k
    <3>1. n \in Nat /\ k = n + 1
      BY <2>2
    <3>2. i \in 1..n
      BY <2>2, <3>1
    <3>3. Len(r) - k + i = Len(q) - n + i /\ Len(q) - n + i \in 1..Len(q)
      BY <1>1, <1>2, <3>1, <3>2
    <3> QED  BY <1>1, <1>2, <3>2, <3>3
  <2> QED  BY <2>1, <2>2
<1>5. Shows(r, k)
  BY <1>3, <1>4 DEF Shows
<1> QED  BY <1>5 DEF r

\* The history, below what was there.
LEMMA ShowsHistory ==
    ASSUME NEW rows \in Seq(Nat), NEW n \in Nat
    PROVE  rows \o Upto(n) \in Seq(Nat) /\ Shows((rows \o Upto(n)) \o << >>, n)
<1>1. Upto(n) \in Seq(Nat) /\ Len(Upto(n)) = n /\ \A i \in 1..n : Upto(n)[i] = i
  BY DEF Upto
<1> DEFINE u == Upto(n)
           q == rows \o u
<1> HIDE DEF u
<1>2. /\ q \in Seq(Nat) /\ q \o << >> = q /\ Len(q) = Len(rows) + n /\ Len(rows) \in Nat
      /\ \A i \in 1..n : q[Len(rows) + i] = u[i]
  BY <1>1 DEF u
<1> HIDE DEF q
<1>3. n <= Len(q) /\ \A i \in 1..n : Len(q) - n + i = Len(rows) + i
  BY <1>2
<1> QED  BY <1>1, <1>2, <1>3 DEF Shows, u, q

\* A console that is folded is one without a live terminal.
LEMMA FoldConsole ==
    ASSUME NEW t \in Consoles
    PROVE  Fold(t) \in Consoles /\ ~Fold(t).live /\ Fold(t).last = -1 /\ Fold(t).text = << >>
<1>1. NoTerminal \in Consoles /\ t.rows \o t.text \in Seq(Nat)
  BY DEF NoTerminal, Consoles
<1> QED  BY <1>1 DEF Fold, Consoles, NoTerminal

\* A new live terminal shows nothing yet.
LEMMA StartConsole ==
    ASSUME NEW t \in Consoles
    PROVE  /\ StartLive(t) \in Consoles
           /\ StartLive(t).live /\ StartLive(t).last = -1
           /\ ShowsLive(StartLive(t))
<1> DEFINE f == Fold(t)
           u == StartLive(t)
<1>1. f \in Consoles /\ f.last = -1 /\ u = [f EXCEPT !.live = TRUE]
  BY FoldConsole DEF StartLive
<1> HIDE DEF f, u
<1>2. u \in Consoles /\ u.live /\ u.last = -1
  BY <1>1 DEF Consoles
<1>3. u.rows \in Seq(Nat) /\ u.text \in Seq(Nat)
  BY <1>2 DEF Consoles
<1>4. ShowsLive(u)
  <2> DEFINE q == u.rows \o u.text
  <2>1. q \in Seq(Nat)
    BY <1>3
  <2> HIDE DEF q
  <2>2. Shows(q, -1)
    BY <2>1 DEF Shows
  <2> QED  BY <1>2, <2>2 DEF ShowsLive, q
<1> QED  BY <1>2, <1>4 DEF u

\* A console is rebuilt from a history, or found to have all of it.
LEMMA RebuildConsole ==
    ASSUME NEW t \in Consoles, ShowsLive(t), NEW n \in Nat \union {-1}
    PROVE  /\ Rebuild(t, n) \in Consoles
           /\ ShowsLive(Rebuild(t, n))
           /\ IF n = -1 THEN ~Rebuild(t, n).live
              ELSE Rebuild(t, n).live /\ Rebuild(t, n).last >= n
<1>1. CASE n = -1
  BY <1>1, FoldConsole DEF Rebuild, ShowsLive
<1>2. CASE n # -1 /\ t.live /\ t.last >= n
  BY <1>2 DEF Rebuild
<1>3. CASE n # -1 /\ ~(t.live /\ t.last >= n)
  <2> DEFINE u == Restore(t, n)
  <2>1. Rebuild(t, n) = u /\ n \in Nat
    BY <1>3 DEF Rebuild
  <2>2. t.rows \in Seq(Nat)
    BY DEF Consoles
  <2>3. t.rows \o Upto(n) \in Seq(Nat) /\ Shows((t.rows \o Upto(n)) \o << >>, n)
    BY <2>1, <2>2, ShowsHistory
  <2> DEFINE r == t.rows \o Upto(n)
  <2>4. u = [t EXCEPT !.rows = r, !.live = TRUE, !.last = n, !.confirmed = n, !.text = << >>]
    BY DEF Restore
  <2> HIDE DEF r, u
  <2>5. r \in Seq(Nat)
    BY <2>3 DEF r
  <2>6. u.rows = r /\ u.text = << >> /\ u.last = n /\ u.live
    BY <2>4 DEF Consoles
  <2>7. u \in Consoles
    <3>1. TRUE \in BOOLEAN /\ n \in Nat \union {-1} /\ << >> \in Seq(Nat)
      BY <2>1
    <3> QED  BY <2>4, <2>5, <3>1 DEF Consoles
  <2>8. ShowsLive(u)
    BY <2>3, <2>6 DEF ShowsLive, r
  <2> QED  BY <1>3, <2>1, <2>6, <2>7, <2>8
<1> QED  BY <1>1, <1>2, <1>3

\* The next batch is shown, and one that is there already is not shown again.
LEMMA WriteConsole ==
    ASSUME NEW t \in Consoles, ShowsLive(t), NEW k \in Nat,
           t.live => 1 <= k /\ k <= (IF t.last = -1 THEN 0 ELSE t.last) + 1
    PROVE  /\ Write(t, k) \in Consoles
           /\ ShowsLive(Write(t, k))
           /\ Write(t, k).live = t.live
           /\ t.live => Write(t, k).last >= t.last /\ Write(t, k).last >= k
<1>1. CASE ~(t.live /\ k > t.last)
  BY <1>1 DEF Write, Consoles
<1>2. CASE t.live /\ k > t.last
  <2> DEFINE a == Append(t.text, k)
             u == [t EXCEPT !.last = k, !.text = a]
  <2>1. Write(t, k) = u
    BY <1>2 DEF Write
  <2>2. t.rows \in Seq(Nat) /\ t.text \in Seq(Nat) /\ t.last \in Nat \union {-1}
    BY DEF Consoles
  <2>3. k = (IF t.last = -1 THEN 0 ELSE t.last) + 1
    BY <1>2, <2>2
  <2>4. Shows(t.rows \o a, k)
    BY <1>2, <2>2, <2>3, ShowsNext DEF ShowsLive
  <2>5. a \in Seq(Nat)
    BY <2>2
  <2> HIDE DEF a
  <2>6. u \in Consoles /\ u.rows = t.rows /\ u.text = a /\ u.last = k /\ u.live = t.live
    BY <2>5 DEF Consoles
  <2> HIDE DEF u
  <2>7. ShowsLive(u)
    BY <2>4, <2>6 DEF ShowsLive
  <2>8. u.last >= t.last /\ u.last >= k
    BY <1>2, <2>2, <2>6
  <2> QED  BY <2>1, <2>6, <2>7, <2>8
<1> QED  BY <1>1, <1>2

-----------------------------------------------------------------------------
(* The steps *)

\* Initially nothing has been put out, and no page has a socket.
LEMMA StreamInit == SInit => StreamInv
  <1> SUFFICES ASSUME SInit
               PROVE  StreamInv
    OBVIOUS
  <1> USE DEF SInit
  <1>1. NoTerminal \in Consoles /\ ~NoTerminal.live
    BY DEF NoTerminal, Consoles
  <1>2. WorkerInv /\ Put = -1 /\ Len(line) = 0
    BY DEF WorkerInv, Put
  <1>3. LineInv
    BY <1>2 DEF LineInv
  <1>4. << >> \in Seq(Frames)
    OBVIOUS
  <1>5. ASSUME NEW p \in Pages
        PROVE  WireOf(p) /\ ConsoleOf(p)
    <2>1. WireOf(p)
      BY <1>4 DEF WireOf, Pending
    <2>2. ConsoleOf(p)
      BY <1>1 DEF ConsoleOf, ShowsLive
    <2> QED
      BY <2>1, <2>2
  <1> QED
    BY <1>1, <1>2, <1>3, <1>4, <1>5 DEF StreamInv

\* A frame is put out: those before it keep their numbers.
LEMMA FramePut ==
    ASSUME WorkerInv, StartRun \/ PushBatch \/ EndRun
    PROVE  /\ WorkerInv' /\ ~Over
           /\ Put \in Nat \union {-1} /\ Put' = Put + 1
           /\ Pushed \in Nat /\ Pushed' \in Nat /\ Put <= Pushed /\ Pushed <= Pushed'
           /\ FrameOf(Put + 1, Over', seq') \in Frames
           /\ line' = Append(line, FrameOf(Put + 1, Over', seq'))
           /\ \A k \in Int : k <= Put => FrameOf(k, Over', seq') = FrameAt(k)
  <1>0. /\ seq \in Nat \ {0} /\ sent = seq - 1 /\ (at = "start" => seq = 1)
        /\ hist = IF at \in {"push", "note"} THEN seq ELSE seq - 1
    BY DEF WorkerInv
  <1>1. CASE StartRun
    <2>1. /\ at = "start" /\ at' = "wait" /\ line' = Append(line, Frame("start", 0))
          /\ seq' = seq /\ hist' = hist /\ sent' = sent
      BY <1>1 DEF StartRun, ackVars
    <2>2. Put = -1 /\ Put' = seq - 1 /\ Pushed = seq - 1 /\ Pushed' = seq - 1 /\ ~Over /\ ~Over'
      BY <2>1 DEF Put, Pushed, Over
    <2>3. WorkerInv'
      BY <1>0, <2>1 DEF WorkerInv
    <2> QED
      BY <1>0, <2>1, <2>2, <2>3 DEF FrameOf, FrameAt, Frame, Frames
  <1>2. CASE PushBatch
    <2>1. /\ at = "push" /\ at' = "note" /\ line' = Append(line, Frame("data", seq))
          /\ seq' = seq /\ hist' = hist /\ sent' = sent
      BY <1>2 DEF PushBatch, ackVars
    <2>2. Put = seq - 1 /\ Put' = seq /\ Pushed = seq - 1 /\ Pushed' = seq /\ ~Over /\ ~Over'
      BY <2>1 DEF Put, Pushed, Over
    <2>3. WorkerInv'
      BY <1>0, <2>1 DEF WorkerInv
    <2> QED
      BY <1>0, <2>1, <2>2, <2>3 DEF FrameOf, FrameAt, Frame, Frames
  <1>3. CASE EndRun
    <2>1. /\ at = "wait" /\ at' = "finish" /\ line' = Append(line, Frame("end", 0))
          /\ seq' = seq /\ hist' = hist /\ sent' = sent
      BY <1>3 DEF EndRun, ackVars
    <2>2. Put = seq - 1 /\ Put' = seq /\ Pushed = seq - 1 /\ Pushed' = seq - 1 /\ ~Over /\ Over'
      BY <2>1 DEF Put, Pushed, Over
    <2>3. WorkerInv'
      BY <1>0, <2>1 DEF WorkerInv
    <2> QED
      BY <1>0, <2>1, <2>2, <2>3 DEF FrameOf, FrameAt, Frame, Frames
  <1> QED
    BY <1>1, <1>2, <1>3

\* ... and so do those on their way to a page.
LEMMA PutStep ==
    ASSUME StreamInv, StartRun \/ PushBatch \/ EndRun
    PROVE  StreamInv'
  <1>0. WorkerInv /\ LineInv
    BY DEF StreamInv
  <1>1. wire' = wire /\ on' = on /\ page' = page
    BY DEF StartRun, PushBatch, EndRun, pageVars
  <1> DEFINE f == FrameOf(Put + 1, Over', seq')
  <1>2. /\ WorkerInv' /\ ~Over
        /\ Put \in Nat \union {-1} /\ Put' = Put + 1
        /\ Pushed \in Nat /\ Pushed' \in Nat /\ Put <= Pushed /\ Pushed <= Pushed'
        /\ f \in Frames /\ line' = Append(line, f)
        /\ \A k \in Int : k <= Put => FrameOf(k, Over', seq') = FrameAt(k)
    BY <1>0, FramePut
  <1>3. f = FrameOf(Put', Over', seq')
    BY <1>2
  <1> HIDE DEF f
  <1>4. /\ line \in Seq(Frames) /\ Len(line) \in Nat /\ Len(line) <= Put + 1
        /\ line' \in Seq(Frames) /\ Len(line') = Len(line) + 1
        /\ \A i \in 1..Len(line) : line'[i] = line[i]
        /\ line'[Len(line) + 1] = f
    BY <1>0, <1>2 DEF LineInv
  <1>5. Put' - Len(line') = Put - Len(line)
    BY <1>2, <1>4
  <1>6. LineInv'
    <2>1. ASSUME NEW i \in 1..Len(line')
          PROVE  line'[i] = FrameOf(Put' - Len(line') + i, Over', seq')
      <3>1. CASE i = Len(line) + 1
        <4>1. Put' - Len(line') + i = Put'
          BY <1>2, <1>4, <3>1
        <4> QED
          BY <1>3, <1>4, <3>1, <4>1
      <3>2. CASE i \in 1..Len(line)
        <4>1. Put - Len(line) + i \in Int /\ Put - Len(line) + i <= Put
          BY <1>2, <1>4, <3>2
        <4>2. line[i] = FrameAt(Put - Len(line) + i)
          BY <1>0, <3>2 DEF LineInv
        <4> QED
          BY <1>2, <1>4, <1>5, <3>2, <4>1, <4>2
      <3> QED
        BY <1>4, <3>1, <3>2
    <2>2. Len(line') <= Put' + 1
      BY <1>2, <1>4
    <2> QED
      BY <1>4, <2>1, <2>2 DEF LineInv, FrameAt
  <1>7. ASSUME NEW p \in Pages
        PROVE  WireOf(p)' /\ ConsoleOf(p)'
    <2>1. /\ WireOf(p) /\ ConsoleOf(p)
          /\ wire[p] \in Seq(Frames) /\ Len(wire[p]) \in Nat
      BY DEF StreamInv
    <2>2. Pending(p)' = Pending(p)
      BY <1>1 DEF Pending
    <2>3. Coming(p)' = Coming(p) /\ Coming(p) \in Int /\ Coming(p) <= Put + 1
      <3> DEFINE x == IF Pending(p) THEN 1 ELSE 0
                 w == Len(wire[p])
      <3>1. x \in {0, 1} /\ w \in Nat /\ w >= x
        BY <2>1 DEF Pending
      <3>2. Coming(p) = Put + 1 - Len(line) - w + x
        BY DEF Coming
      <3>3. Coming(p)' = Put' + 1 - Len(line') - w + x
        BY <1>1, <2>2 DEF Coming
      <3> HIDE DEF x, w
      <3> QED
        BY <1>2, <1>4, <3>1, <3>2, <3>3
    <2>4. ASSUME NEW n \in Int, Reach(p, n)
          PROVE  n >= Coming(p)' - 1 \/ n >= Pushed'
      BY <1>2, <2>3, <2>4 DEF Reach
    <2>5. ASSUME NEW j \in 1..Len(wire[p]), ~(j = 1 /\ Pending(p))
          PROVE  wire'[p][j] = FrameOf(Put' - Len(line') - Len(wire'[p]) + j, Over', seq')
      <3>1. wire[p][j] = FrameAt(Put - Len(line) - Len(wire[p]) + j)
        BY <2>1, <2>5 DEF WireOf
      <3>2. /\ Put - Len(line) - Len(wire[p]) + j \in Int
            /\ Put - Len(line) - Len(wire[p]) + j <= Put
        BY <1>2, <1>4, <2>1
      <3> QED
        BY <1>1, <1>2, <1>5, <3>1, <3>2
    <2>6. Pending(p) => wire[p][1].seq # -1 /\ wire[p][1].seq \in Int
      <3>1. Pending(p) => wire[p][1] \in Frames
        BY <2>1 DEF Pending
      <3> QED
        BY <1>2, <2>1, <3>1 DEF WireOf, Over, Frames
    <2>7. WireOf(p)'
      BY <1>1, <2>1, <2>2, <2>3, <2>4, <2>5, <2>6 DEF WireOf, Reach, FrameAt
    <2>8. page[p].live => page[p].last \in Nat \union {-1}
      BY <2>1 DEF ConsoleOf, Consoles
    <2>9. ConsoleOf(p)'
      BY <1>1, <1>2, <2>1, <2>2, <2>4, <2>8 DEF ConsoleOf, Reach, ShowsLive
    <2> QED
      BY <2>7, <2>9
  <1> QED
    BY <1>1, <1>2, <1>6, <1>7 DEF StreamInv

\* What the steps that put nothing out leave as it is.
Unput ==
    /\ WorkerInv' /\ Put' = Put /\ Pushed' = Pushed /\ Over' = Over
    /\ (Over => seq' = seq) /\ (at = "over" => at' = "over")

\* The frames keep their numbers.
LEMMA UnputFrames ==
    ASSUME Unput
    PROVE  \A k \in Int : FrameAt(k)' = FrameAt(k)
  BY DEF Unput, FrameAt, FrameOf

\* A page that keeps its socket, its frames and what its console shows is as well
\* off as before.
LEMMA PageKept ==
    ASSUME StreamInv, Unput, line' = line, NEW p \in Pages,
           on'[p] = on[p], wire'[p] = wire[p], page'[p] \in Consoles,
           page'[p].live = page[p].live, page'[p].last = page[p].last,
           page'[p].rows = page[p].rows, page'[p].text = page[p].text
    PROVE  WireOf(p)' /\ ConsoleOf(p)'
  <1>1. /\ WireOf(p) /\ ConsoleOf(p) /\ wire[p] \in Seq(Frames) /\ Len(wire[p]) \in Nat
        /\ WorkerInv /\ LineInv
    BY DEF StreamInv
  <1>2. Pending(p)' = Pending(p) /\ Coming(p)' = Coming(p)
    BY DEF Pending, Coming, Unput
  <1>3. \A n : Reach(p, n) => n >= Coming(p)' - 1 \/ n >= Pushed'
    BY <1>2 DEF Reach, Unput
  <1>4. ASSUME NEW j \in 1..Len(wire[p]), ~(j = 1 /\ Pending(p))
        PROVE  wire'[p][j] = FrameOf(Put' - Len(line') - Len(wire'[p]) + j, Over', seq')
    <2>1. wire[p][j] = FrameAt(Put - Len(line) - Len(wire[p]) + j)
      BY <1>1, <1>4 DEF WireOf
    <2> DEFINE w == Len(wire[p])
               k == Put - Len(line) - Len(wire[p]) + j
    <2>2. Put \in Int /\ Len(line) \in Nat /\ w \in Nat /\ j \in Nat
      BY <1>1 DEF WorkerInv, LineInv, Put
    <2>3. k \in Int
      <3>1. k = Put - Len(line) - w + j
        OBVIOUS
      <3> HIDE DEF k, w
      <3> QED
        BY <2>2, <3>1
    <2>4. k = Put' - Len(line') - Len(wire'[p]) + j
      BY DEF Unput
    <2> HIDE DEF k
    <2>5. FrameOf(k, Over', seq') = FrameAt(k)
      BY <2>3 DEF Unput, FrameAt, FrameOf
    <2> QED
      BY <2>1, <2>4, <2>5 DEF k
  <1>5. WireOf(p)'
    BY <1>1, <1>2, <1>3, <1>4 DEF WireOf, Reach, FrameAt, Unput
  <1>6. ConsoleOf(p)'
    BY <1>1, <1>2, <1>3 DEF ConsoleOf, Reach, ShowsLive, Unput
  <1> QED
    BY <1>5, <1>6

\* The delivery queue keeps its frames.
LEMMA LineKept ==
    ASSUME WorkerInv, LineInv, Unput, line' = line
    PROVE  LineInv'
  <1>1. Put \in Int /\ Len(line) \in Nat /\ Put' = Put
    <2>1. seq \in Nat /\ line \in Seq(Frames)
      BY DEF WorkerInv, LineInv
    <2> QED
      BY <2>1 DEF Put, Unput
  <1>2. ASSUME NEW i \in 1..Len(line)
        PROVE  line[i] = FrameOf(Put - Len(line) + i, Over', seq')
    <2> DEFINE k == Put - Len(line) + i
    <2>1. k \in Int /\ line[i] = FrameAt(k)
      BY <1>1 DEF LineInv
    <2> HIDE DEF k
    <2>2. FrameOf(k, Over', seq') = FrameAt(k)
      BY <2>1 DEF Unput, FrameAt, FrameOf
    <2> QED
      BY <2>1, <2>2 DEF k
  <1> QED
    BY <1>1, <1>2 DEF LineInv, FrameAt

\* The steps of the worker that put nothing out, acknowledgements on their way back
\* and a page that confirms what it has drawn.
LEMMA QuietStep ==
    ASSUME StreamInv,
           \/ WaitOver \/ Stall \/ Feed \/ NoteSent \/ FinishRun \/ Stop
           \/ \E p \in Pages : ReceiveAck(p) \/ \E n \in 1..MaxSeq : Confirm(p, n)
           \/ UNCHANGED streamVars
    PROVE  StreamInv'
  <1>0. WorkerInv /\ LineInv /\ page \in [Pages -> Consoles]
    BY DEF StreamInv
  <1>1. UNCHANGED <<line, on, wire>>
    BY DEF WaitOver, Stall, Feed, NoteSent, FinishRun, Stop, ReceiveAck, Confirm, streamVars,
           workerVars, ackVars, pageVars
  <1>2. Unput
    <2>1. CASE WaitOver \/ Stall \/ Feed \/ NoteSent \/ FinishRun
      BY <1>0, <2>1 DEF WaitOver, Stall, Feed, NoteSent, FinishRun, WorkerInv, Unput, Put, Pushed,
                        Over, ackVars
    <2>2. CASE UNCHANGED <<at, seq, hist, sent>>
      BY <1>0, <2>2 DEF WorkerInv, Unput, Put, Pushed, Over
    <2>3. CASE \/ Stop \/ UNCHANGED streamVars
               \/ \E p \in Pages : ReceiveAck(p) \/ \E n \in 1..MaxSeq : Confirm(p, n)
      BY <2>2, <2>3 DEF Stop, ReceiveAck, Confirm, streamVars, workerVars, ackVars
    <2> QED
      BY <2>1, <2>3
  <1>3. /\ page' \in [Pages -> Consoles]
        /\ \A p \in Pages : /\ page'[p].live = page[p].live /\ page'[p].last = page[p].last
                            /\ page'[p].rows = page[p].rows /\ page'[p].text = page[p].text
    <2>1. ASSUME NEW p \in Pages, NEW n \in 1..MaxSeq, Confirm(p, n)
          PROVE  <1>3
      <3> DEFINE t == page[p]
                 u == [t EXCEPT !.confirmed = n]
      <3>1. page' = [page EXCEPT ![p] = u] /\ n \in Nat
        BY <1>0, <2>1, StreamAssumption DEF Confirm
      <3>2. t \in Consoles
        BY <1>0
      <3> HIDE DEF t
      <3>3. u \in Consoles /\ u.live = t.live /\ u.last = t.last /\ u.rows = t.rows /\ u.text = t.text
        BY <3>1, <3>2 DEF Consoles
      <3> HIDE DEF u
      <3> QED
        BY <1>0, <3>1, <3>3 DEF t
    <2>2. CASE page' = page
      BY <1>0, <2>2
    <2>3. ASSUME ~\E p \in Pages : \E n \in 1..MaxSeq : Confirm(p, n)
          PROVE  page' = page
      BY <2>3 DEF WaitOver, Stall, Feed, NoteSent, FinishRun, Stop, ReceiveAck, streamVars,
                  pageVars
    <2> QED
      BY <2>1, <2>2, <2>3
  <1>4. LineInv'
    BY <1>0, <1>1, <1>2, LineKept
  <1>5. \A p \in Pages : WireOf(p)' /\ ConsoleOf(p)'
    BY <1>1, <1>2, <1>3, PageKept
  <1> QED
    BY <1>1, <1>2, <1>3, <1>4, <1>5 DEF StreamInv, Unput

\* Numbered frames are not init frames.
LEMMA NumberedKind ==
    ASSUME NEW k, NEW ended, NEW end
    PROVE  FrameOf(k, ended, end).kind # "init"
  BY DEF FrameOf, Frame

\* What the event loop and the pages do leaves the worker alone.
LEMMA WorkerKept ==
    ASSUME StreamInv, UNCHANGED workerVars, sent' = sent
    PROVE  /\ Unput /\ Over' = Over /\ seq' = seq /\ at' = at
           /\ Put \in Int /\ Pushed \in Int /\ Put' = Put /\ Pushed' = Pushed
           /\ \A k \in Int : FrameOf(k, Over, seq)' = FrameOf(k, Over, seq)
  <1>1. WorkerInv /\ UNCHANGED <<at, seq, hist>> /\ seq \in Nat
    BY DEF StreamInv, WorkerInv, workerVars
  <1>2. Unput /\ Over' = Over /\ seq' = seq /\ at' = at
    BY <1>1 DEF Unput, WorkerInv, Put, Pushed, Over
  <1> QED
    BY <1>1, <1>2 DEF Put, Pushed, Unput

\* A frame passes from the delivery queue to the sockets.
LEMMA DeliverStep ==
    ASSUME StreamInv, DeliverFrame
    PROVE  StreamInv'
  <1>0. WorkerInv /\ LineInv
    BY DEF StreamInv
  <1>1. /\ line # << >> /\ line' = Tail(line)
        /\ wire' = [p \in Pages |-> IF on[p] THEN Append(wire[p], Head(line)) ELSE wire[p]]
        /\ UNCHANGED <<on, page, workerVars, sent>>
    BY DEF DeliverFrame, ackVars
  <1>2. /\ Unput /\ Over' = Over /\ seq' = seq /\ at' = at
        /\ Put \in Int /\ Pushed \in Int /\ Put' = Put /\ Pushed' = Pushed
    BY <1>1, WorkerKept
  <1>3. /\ line \in Seq(Frames) /\ Len(line) \in Nat \ {0} /\ Len(line) <= Put + 1
        /\ line' \in Seq(Frames) /\ Len(line') = Len(line) - 1
        /\ \A i \in 1..Len(line') : line'[i] = line[i + 1]
        /\ Head(line) = line[1] /\ Head(line) \in Frames
    BY <1>0, <1>1 DEF LineInv
  <1>4. \A i \in 1..Len(line) : line[i] = FrameOf(Put - Len(line) + i, Over, seq)
    BY <1>0 DEF LineInv, FrameAt
  <1> DEFINE f == Head(line)
  <1>5. f = FrameOf(Put - Len(line'), Over, seq) /\ f.kind # "init" /\ f \in Frames
    <2>1. Put - Len(line) + 1 = Put - Len(line')
      BY <1>2, <1>3
    <2> QED
      BY <1>3, <1>4, <2>1, NumberedKind
  <1> HIDE DEF f
  <1>6. LineInv'
    <2>1. ASSUME NEW i \in 1..Len(line')
          PROVE  line'[i] = FrameOf(Put - Len(line') + i, Over, seq)
      <3>1. i + 1 \in 1..Len(line) /\ Put - Len(line) + (i + 1) = Put - Len(line') + i
        BY <1>2, <1>3
      <3> QED
        BY <1>3, <1>4, <3>1
    <2> QED
      BY <1>2, <1>3, <2>1 DEF LineInv, FrameAt
  <1>7. ASSUME NEW p \in Pages, on[p]
        PROVE  WireOf(p)' /\ ConsoleOf(p)'
    <2> DEFINE w == Len(wire[p])
               v == Len(wire'[p])
    <2>1. /\ WireOf(p) /\ ConsoleOf(p) /\ wire[p] \in Seq(Frames)
          /\ wire'[p] = Append(wire[p], f)
      BY <1>1, <1>7 DEF StreamInv, f
    <2>2. /\ wire'[p] \in Seq(Frames) /\ w \in Nat /\ v = w + 1
          /\ \A j \in 1..w : wire'[p][j] = wire[p][j]
          /\ wire'[p][v] = f
      BY <1>5, <2>1
    <2>3. Pending(p)' = Pending(p)
      <3>1. CASE wire[p] = << >>
        <4>1. v = 1 /\ wire'[p][1] = f
          BY <2>2, <3>1
        <4> QED
          BY <1>5, <3>1, <4>1 DEF Pending
      <3>2. CASE wire[p] # << >>
        <4>1. w >= 1 /\ wire'[p][1] = wire[p][1] /\ wire'[p] # << >>
          BY <2>1, <2>2, <3>2
        <4> QED
          BY <3>2, <4>1 DEF Pending
      <3> QED
        BY <3>1, <3>2
    <2>4. Pending(p) => w >= 1 /\ wire'[p][1] = wire[p][1]
      BY <2>1, <2>2 DEF Pending
    <2>5. Coming(p)' = Coming(p)
      <3> DEFINE x == IF Pending(p) THEN 1 ELSE 0
      <3>1. Coming(p) = Put + 1 - Len(line) - w + x
        BY DEF Coming
      <3>2. Coming(p)' = Put + 1 - Len(line') - v + x
        BY <1>2, <2>3 DEF Coming
      <3>3. x \in Int
        OBVIOUS
      <3> HIDE DEF x, w, v
      <3> QED
        BY <1>2, <1>3, <2>2, <3>1, <3>2, <3>3
    <2>6. ASSUME NEW j \in 1..v, ~(j = 1 /\ Pending(p))
          PROVE  wire'[p][j] = FrameOf(Put - Len(line') - v + j, Over, seq)
      <3>1. CASE j = v
        <4>1. Put - Len(line') - v + j = Put - Len(line')
          <5> HIDE DEF v, w
          <5> QED
            BY <1>2, <1>3, <2>2, <3>1
        <4> QED
          BY <1>5, <2>2, <3>1, <4>1
      <3>2. CASE j # v
        <4>1. j \in 1..w
          BY <2>2, <3>2
        <4>2. wire[p][j] = FrameOf(Put - Len(line) - w + j, Over, seq)
          BY <2>1, <2>6, <4>1 DEF WireOf, FrameAt
        <4>3. Put - Len(line) - w + j = Put - Len(line') - v + j
          <5> HIDE DEF v, w
          <5> QED
            BY <1>2, <1>3, <2>2, <4>1
        <4> QED
          BY <2>2, <4>1, <4>2, <4>3
      <3> QED
        BY <3>1, <3>2
    <2>7. WireOf(p)'
      BY <1>1, <1>2, <2>1, <2>2, <2>3, <2>4, <2>5, <2>6 DEF WireOf, Reach, FrameAt
    <2>8. ConsoleOf(p)'
      BY <1>1, <1>2, <2>1, <2>3, <2>5 DEF ConsoleOf, Reach, ShowsLive
    <2> QED
      BY <2>7, <2>8
  <1>8. ASSUME NEW p \in Pages, ~on[p]
        PROVE  WireOf(p)' /\ ConsoleOf(p)'
    <2>1. /\ WireOf(p) /\ ConsoleOf(p) /\ wire'[p] = wire[p] /\ wire[p] = << >>
          /\ wire[p] \in Seq(Frames)
      BY <1>1, <1>8 DEF StreamInv, WireOf
    <2>2. ~on'[p] /\ page'[p] = page[p] /\ wire'[p] = << >> /\ ~Pending(p)'
      BY <1>1, <1>8, <2>1 DEF Pending
    <2>3. WireOf(p)'
      BY <2>1, <2>2 DEF WireOf
    <2>4. ConsoleOf(p)'
      BY <2>1, <2>2 DEF ConsoleOf, ShowsLive
    <2> QED
      BY <2>3, <2>4
  <1>9. wire' \in [Pages -> Seq(Frames)]
    BY <1>1, <1>5 DEF StreamInv, f
  <1> QED
    BY <1>1, <1>2, <1>6, <1>7, <1>8, <1>9 DEF StreamInv, Unput

\* A socket opens with the history in its init frame, or closes.
LEMMA SocketStep ==
    ASSUME StreamInv, NEW p \in Pages, NEW loaded \in BOOLEAN,
           Connect(p, loaded) \/ Disconnect(p)
    PROVE  StreamInv'
  <1>0. /\ WorkerInv /\ LineInv /\ page \in [Pages -> Consoles]
        /\ on \in [Pages -> BOOLEAN] /\ wire \in [Pages -> Seq(Frames)]
    BY DEF StreamInv
  <1>1. UNCHANGED <<workerVars, sent, line>>
    BY DEF Connect, Disconnect, ackVars
  <1>2. /\ Unput /\ Over' = Over /\ seq' = seq /\ at' = at
        /\ Put \in Int /\ Pushed \in Int /\ Put' = Put /\ Pushed' = Pushed
    BY <1>1, WorkerKept
  <1>3. LineInv'
    BY <1>0, <1>1, <1>2, LineKept
  <1>4. NoTerminal \in Consoles /\ ~NoTerminal.live
    BY DEF NoTerminal, Consoles
  <1>5. /\ page' \in [Pages -> Consoles]
        /\ page'[p] = page[p] \/ page'[p] = NoTerminal
        /\ on' \in [Pages -> BOOLEAN]
        /\ \A q \in Pages : q # p => page'[q] = page[q] /\ on'[q] = on[q] /\ wire'[q] = wire[q]
    BY <1>0, <1>4 DEF Connect, Disconnect
  <1>6. ASSUME NEW q \in Pages, q # p
        PROVE  WireOf(q)' /\ ConsoleOf(q)'
    BY <1>0, <1>1, <1>2, <1>5, <1>6, PageKept
  <1>7. ShowsLive(page'[p])
    BY <1>4, <1>5 DEF StreamInv, ConsoleOf, ShowsLive
  <1>8. CASE Disconnect(p)
    <2>1. ~on'[p] /\ wire' = [wire EXCEPT ![p] = << >>] /\ << >> \in Seq(Frames)
      BY <1>0, <1>8 DEF Disconnect
    <2>2. wire'[p] = << >> /\ wire' \in [Pages -> Seq(Frames)]
      BY <1>0, <2>1
    <2>3. ~Pending(p)'
      BY <2>2 DEF Pending
    <2>4. WireOf(p)'
      BY <2>1, <2>2, <2>3 DEF WireOf
    <2>5. ConsoleOf(p)'
      BY <1>5, <1>7, <2>1, <2>3 DEF ConsoleOf, ShowsLive
    <2> QED
      BY <1>2, <1>3, <1>5, <1>6, <2>2, <2>4, <2>5 DEF StreamInv, Unput
  <1>9. CASE Connect(p, loaded)
    <2> DEFINE n == IF at = "over" THEN -1 ELSE hist
               f == Frame("init", n)
    <2>1. wire' = [wire EXCEPT ![p] = <<f>>] /\ on'[p]
      BY <1>0, <1>9 DEF Connect
    <2>2. /\ n \in Nat \union {-1} /\ (n = -1 => at = "over")
          /\ n # -1 => n >= Put \/ n >= Pushed
      BY <1>0 DEF WorkerInv, Put, Pushed
    <2> HIDE DEF n
    <2>3. f \in Frames /\ f.kind = "init" /\ f.seq = n
      BY <2>2 DEF Frame, Frames
    <2> HIDE DEF f
    <2>4. /\ wire'[p] = <<f>> /\ <<f>> \in Seq(Frames) /\ Len(<<f>>) = 1 /\ <<f>>[1] = f
          /\ <<f>> # << >>
      BY <1>0, <2>1, <2>3
    <2>5. Pending(p)'
      BY <2>3, <2>4 DEF Pending
    <2>6. Coming(p)' \in Int /\ Coming(p)' = Put + 1 - Len(line)
      <3>1. Len(line) \in Nat /\ Len(wire'[p]) = 1
        BY <1>0, <2>4 DEF LineInv
      <3>2. Coming(p)' = Put' + 1 - Len(line') - Len(wire'[p]) + 1
        BY <2>5 DEF Coming
      <3> QED
        BY <1>1, <1>2, <3>1, <3>2
    <2>7. Coming(p)' >= 0 /\ Coming(p)' <= Put + 1
      BY <1>0, <1>2, <2>6 DEF LineInv
    <2>8. n # -1 => n >= Coming(p)' - 1 \/ n >= Pushed
      BY <1>2, <2>2, <2>6, <2>7
    <2>9. WireOf(p)'
      <3>1. \A j \in 1..Len(wire'[p]) : j = 1
        BY <2>4
      <3> QED
        BY <1>2, <2>1, <2>2, <2>3, <2>4, <2>5, <2>7, <2>8, <3>1 DEF WireOf, Reach
    <2>10. ConsoleOf(p)'
      BY <1>5, <1>7, <2>5 DEF ConsoleOf, ShowsLive
    <2>11. wire' \in [Pages -> Seq(Frames)]
      BY <1>0, <2>1, <2>4
    <2> QED
      BY <1>2, <1>3, <1>5, <1>6, <2>9, <2>10, <2>11 DEF StreamInv, Unput
  <1> QED
    BY <1>8, <1>9

\* A page receives the next frame: from an init frame it has all that came before
\* it, and each numbered frame is the one after the last.
LEMMA ReceiveStep ==
    ASSUME StreamInv, NEW p \in Pages, Receive(p)
    PROVE  StreamInv'
  <1> DEFINE w == Len(wire[p])
             v == Len(wire'[p])
             f == wire[p][1]
             t == page[p]
             u == page'[p]
  <1>0. /\ WorkerInv /\ LineInv /\ page \in [Pages -> Consoles]
        /\ on \in [Pages -> BOOLEAN] /\ wire \in [Pages -> Seq(Frames)]
        /\ WireOf(p) /\ ConsoleOf(p) /\ t \in Consoles /\ ShowsLive(t)
    BY DEF StreamInv, ConsoleOf
  <1>1. UNCHANGED <<workerVars, sent, line, on>>
    BY DEF Receive, ackVars
  <1>2. /\ Unput /\ Over' = Over /\ seq' = seq /\ at' = at
        /\ Put \in Int /\ Pushed \in Int /\ Put' = Put /\ Pushed' = Pushed
    BY <1>1, WorkerKept
  <1>3. LineInv'
    BY <1>0, <1>1, <1>2, LineKept
  <1>4. /\ wire[p] # << >> /\ wire' = [wire EXCEPT ![p] = Tail(wire[p])] /\ on[p]
        /\ Head(wire[p]) = f /\ f \in Frames
    BY <1>0 DEF Receive, WireOf
  <1>5. /\ wire'[p] \in Seq(Frames) /\ w \in Nat \ {0} /\ v = w - 1
        /\ \A j \in 1..v : wire'[p][j] = wire[p][j + 1]
        /\ Len(line) \in Nat /\ v \in Nat
    BY <1>0, <1>4 DEF LineInv
  <1>6. /\ wire' \in [Pages -> Seq(Frames)]
        /\ \A q \in Pages : q # p => page'[q] = page[q] /\ on'[q] = on[q] /\ wire'[q] = wire[q]
    BY <1>0, <1>1, <1>4 DEF Receive
  <1>7. ASSUME NEW q \in Pages, q # p
        PROVE  WireOf(q)' /\ ConsoleOf(q)'
    BY <1>0, <1>1, <1>2, <1>6, <1>7, PageKept
  <1>8. u = CASE f.kind = "init"  -> Rebuild(t, f.seq)
              [] f.kind = "start" -> StartLive(t)
              [] f.kind = "data"  -> Write(t, f.seq)
              [] f.kind = "end"   -> Fold(t)
    BY <1>0, <1>4 DEF Receive
  <1>9. Put \in Int /\ Len(line) \in Nat /\ w \in Nat /\ w >= 1 /\ v = w - 1
    BY <1>2, <1>5
  <1>10. \A j \in 1..v : wire'[p][j] = FrameOf(Put - Len(line) - v + j, Over, seq)
    <2> SUFFICES ASSUME NEW j \in 1..v
                 PROVE  wire'[p][j] = FrameOf(Put - Len(line) - v + j, Over, seq)
      OBVIOUS
    <2>1. j + 1 \in 1..w /\ j + 1 # 1
      BY <1>5
    <2>2. wire[p][j + 1] = FrameOf(Put - Len(line) - w + (j + 1), Over, seq)
      BY <1>0, <2>1 DEF WireOf, FrameAt
    <2>3. Put - Len(line) - w + (j + 1) = Put - Len(line) - v + j
      <3> HIDE DEF v, w
      <3> QED
        BY <1>2, <1>5
    <2> QED
      BY <1>5, <2>2, <2>3
  <1>11. ~Pending(p)'
    <2> SUFFICES ASSUME wire'[p] # << >>
                 PROVE  wire'[p][1].kind # "init"
      BY DEF Pending
    <2>1. 1 \in 1..v
      BY <1>5
    <2> QED
      BY <1>10, <2>1, NumberedKind
  <1>12. Coming(p)' = Put + 1 - Len(line) - v /\ Coming(p)' \in Int
    <2>1. Coming(p)' = Put' + 1 - Len(line') - v + 0
      BY <1>11 DEF Coming
    <2>2. Coming(p)' = Put + 1 - Len(line) - v + 0
      BY <1>1, <1>2, <2>1
    <2> HIDE DEF v, w
    <2> QED
      BY <1>9, <2>2
  <1>13. WireOf(p)' <=> Coming(p)' >= 0
    BY <1>1, <1>2, <1>4, <1>5, <1>10, <1>11 DEF WireOf, FrameAt
  <1>14. /\ Coming(p)' >= 0
         /\ u \in Consoles /\ ShowsLive(u)
         /\ u.live => \/ (IF u.last = -1 THEN 0 ELSE u.last) >= Coming(p)' - 1
                      \/ (IF u.last = -1 THEN 0 ELSE u.last) >= Pushed
         /\ ~Over => u.live
    <2>1. CASE Pending(p)
      <3> DEFINE n == f.seq
      <3>1. f.kind = "init" /\ n \in Nat \union {-1} /\ u = Rebuild(t, n)
        BY <1>4, <1>8, <2>1 DEF Pending, Frames
      <3>2. IF n = -1 THEN at = "over" ELSE Reach(p, n)
        BY <1>0, <2>1 DEF WireOf
      <3>3. Coming(p)' = Coming(p)
        <4>1. Coming(p) = Put + 1 - Len(line) - w + 1
          BY <2>1 DEF Coming
        <4> HIDE DEF v, w
        <4> QED
          BY <1>9, <1>12, <4>1
      <3>4. Coming(p) >= 0
        BY <1>0, <1>4 DEF WireOf
      <3> HIDE DEF n, f, t, u
      <3>5. /\ u \in Consoles /\ ShowsLive(u)
            /\ IF n = -1 THEN ~u.live ELSE u.live /\ u.last >= n
        BY <1>0, <3>1, RebuildConsole
      <3>6. u.last \in Nat \union {-1}
        BY <3>5 DEF Consoles
      <3>7. CASE n = -1
        BY <3>2, <3>3, <3>4, <3>5, <3>7 DEF Over
      <3>8. CASE n # -1
        <4>1. n >= Coming(p)' - 1 \/ n >= Pushed
          BY <3>2, <3>3, <3>8 DEF Reach
        <4>2. n \in Nat /\ u.last \in Nat /\ u.last >= n /\ u.live
          BY <3>1, <3>5, <3>6, <3>8
        <4>3. u.last >= Coming(p)' - 1 \/ u.last >= Pushed
          <5> DEFINE l == u.last
                     c == Coming(p)'
          <5>1. l \in Nat /\ l >= n /\ c \in Int /\ Pushed \in Int /\ n \in Nat
            BY <1>2, <1>12, <4>2
          <5>2. n >= c - 1 \/ n >= Pushed
            BY <4>1
          <5> HIDE DEF l, c
          <5>3. l >= c - 1 \/ l >= Pushed
            BY <5>1, <5>2
          <5> QED
            BY <5>3 DEF l, c
        <4> QED
          BY <3>3, <3>4, <3>5, <4>2, <4>3
      <3> QED
        BY <3>7, <3>8
    <2>2. CASE ~Pending(p)
      <3> DEFINE k == Put - Len(line) - w + 1
                 m == IF t.last = -1 THEN 0 ELSE t.last
      <3>1. f = FrameOf(k, Over, seq)
        BY <1>0, <1>5, <2>2 DEF WireOf, FrameAt
      <3>2. /\ k = Coming(p) /\ k \in Int /\ Coming(p)' = k + 1 /\ k <= Put
        <4>1. Coming(p) = Put + 1 - Len(line) - w + 0
          BY <2>2 DEF Coming
        <4>2. k = Put - Len(line) - w + 1
          OBVIOUS
        <4> HIDE DEF v, w, k
        <4> QED
          BY <1>9, <1>12, <4>1, <4>2
      <3>3. k >= 0
        BY <1>0, <1>4, <3>2 DEF WireOf
      <3>4. /\ t.live => m >= k - 1 \/ m >= Pushed
            /\ ~Over => t.live
        BY <1>0, <1>4, <2>2, <3>2 DEF ConsoleOf, Reach
      <3>5. t.last \in Nat \union {-1}
        BY <1>0 DEF Consoles
      <3> HIDE DEF k, f, t, u
      <3>6. CASE k = 0
        <4>1. f.kind = "start"
          BY <3>1, <3>6 DEF FrameOf, Frame
        <4>2. u = StartLive(t)
          BY <1>8, <4>1
        <4>3. u \in Consoles /\ ShowsLive(u) /\ u.live /\ u.last = -1
          BY <1>0, <4>2, StartConsole
        <4> QED
          BY <3>2, <3>6, <4>3
      <3>7. CASE k # 0 /\ Over /\ k = seq
        <4>1. f.kind = "end"
          BY <3>1, <3>7 DEF FrameOf, Frame
        <4>2. u = Fold(t)
          BY <1>8, <4>1
        <4>3. u \in Consoles /\ ShowsLive(u) /\ ~u.live
          BY <1>0, <4>2, FoldConsole DEF ShowsLive
        <4> QED
          BY <3>2, <3>3, <3>7, <4>3
      <3>8. CASE k # 0 /\ ~(Over /\ k = seq)
        <4>1. f.kind = "data" /\ f.seq = k
          BY <3>1, <3>8 DEF FrameOf, Frame
        <4>2. u = Write(t, k)
          BY <1>8, <4>1
        <4>3. k <= Pushed /\ k \in Nat
          BY <1>0, <3>2, <3>3, <3>8 DEF WorkerInv, Put, Pushed, Over
        <4>4. t.live => 1 <= k /\ k <= m + 1
          BY <1>2, <3>2, <3>4, <3>5, <3>8, <4>3
        <4>5. /\ u \in Consoles /\ ShowsLive(u) /\ u.live = t.live
              /\ t.live => u.last >= t.last /\ u.last >= k
          BY <1>0, <4>2, <4>3, <4>4, WriteConsole
        <4>6. u.last \in Nat \union {-1}
          BY <4>5 DEF Consoles
        <4> QED
          BY <3>2, <3>3, <3>4, <4>3, <4>5, <4>6
      <3> QED
        BY <3>6, <3>7, <3>8
    <2> QED
      BY <2>1, <2>2
  <1> HIDE DEF u, w, v, f, t
  <1>15. ConsoleOf(p)'
    BY <1>2, <1>14 DEF ConsoleOf, Reach, u
  <1>16. page' \in [Pages -> Consoles]
    BY <1>0, <1>14 DEF Receive, u
  <1> QED
    BY <1>0, <1>1, <1>2, <1>3, <1>6, <1>7, <1>13, <1>14, <1>15, <1>16 DEF StreamInv, Unput

-----------------------------------------------------------------------------
(* The theorems *)

\* The worker, the delivery queue, the sockets and the consoles of a run's output
\* are always in one of the states described above.
THEOREM StreamInvariant == SSpec => []StreamInv
  <1>1. SInit => StreamInv
    BY StreamInit
  <1>2. StreamInv /\ [SNext]_streamVars => StreamInv'
    BY PutStep, QuietStep, DeliverStep, SocketStep, ReceiveStep DEF SNext, Worker
  <1> QED
    BY <1>1, <1>2, PTL DEF SSpec

\* A console with a live terminal ends with the run's output from its first batch
\* to the last received, each once and in order (writeTerminalData,
\* rebuildLiveTerminals, owner_terminal_snapshot).
THEOREM OutputHasNoGap == SSpec => []NoGap
  <1>1. StreamInv => NoGap
    <2> SUFFICES ASSUME StreamInv, NEW p \in Pages, page[p].live
                 PROVE  IsSuffix(Upto(page[p].last), page[p].rows \o page[p].text)
      BY DEF NoGap
    <2> DEFINE t == page[p]
               q == t.rows \o t.text
    <2>1. t \in Consoles /\ ShowsLive(t)
      BY DEF StreamInv, ConsoleOf
    <2> HIDE DEF t
    <2>2. t.rows \in Seq(Nat) /\ t.text \in Seq(Nat) /\ t.last \in Nat \union {-1}
      BY <2>1 DEF Consoles
    <2>3. Shows(q, t.last)
      BY <2>1 DEF ShowsLive, t
    <2>4. q \in Seq(Nat)
      BY <2>2
    <2> HIDE DEF q
    <2>5. IsSuffix(Upto(t.last), q)
      BY <2>2, <2>3, <2>4, ShowsSuffix
    <2> QED
      BY <2>5 DEF t, q
  <1> QED
    BY <1>1, StreamInvariant, PTL

\* While the run goes on, a connected page whose frames have all arrived shows all
\* that has been noted as sent, however it was loaded or reconnected in between.
THEOREM PagesCatchUp == SSpec => []CaughtUp
  <1>1. StreamInv => CaughtUp
    <2> SUFFICES ASSUME StreamInv, NEW p \in Pages,
                        on[p], wire[p] = << >>, line = << >>,
                        at \notin {"start", "finish", "over"}
                 PROVE  page[p].live /\ (sent > 0 => page[p].last >= sent)
      BY DEF CaughtUp
    <2>1. WorkerInv /\ WireOf(p) /\ ConsoleOf(p)
      BY DEF StreamInv
    <2>2. ~Pending(p) /\ ~Over /\ Len(line) = 0 /\ Len(wire[p]) = 0
      BY DEF Pending, Over
    <2>3. Put = Pushed /\ Put \in Nat /\ sent <= Put /\ sent \in Nat
      BY <2>1 DEF WorkerInv, Put, Pushed
    <2>4. Coming(p) = Put + 1
      BY <2>2, <2>3 DEF Coming
    <2>5. page[p].live /\ Reach(p, IF page[p].last = -1 THEN 0 ELSE page[p].last)
      BY <2>1, <2>2 DEF ConsoleOf
    <2> DEFINE n == page[p].last
    <2>6. n \in Nat \union {-1}
      BY <2>1 DEF ConsoleOf, Consoles
    <2> HIDE DEF n
    <2>7. (IF n = -1 THEN 0 ELSE n) >= Put
      BY <2>3, <2>4, <2>5 DEF Reach, n
    <2>8. sent > 0 => n >= sent
      BY <2>3, <2>6, <2>7
    <2> QED
      BY <2>5, <2>8 DEF n
  <1> QED
    BY <1>1, StreamInvariant, PTL
=============================================================================
