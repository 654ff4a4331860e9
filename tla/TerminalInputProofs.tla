------------------------- MODULE TerminalInputProofs -------------------------
(***************************************************************************)
(* The safety of the terminal's input for any number of tabs, claims and   *)
(* messages.  First what pages know of control: news of a claim travel to  *)
(* every open socket, so what a page believes may be out of date; the last *)
(* news under way never is.  Then what travels from the tabs to the loop,  *)
(* and last the writer's queue: the password, then what the tab in control *)
(* has typed since its claim, as it reaches the device.                    *)
(***************************************************************************)
EXTENDS TerminalInput, FiniteSetTheorems, WellFoundedInduction, TLAPS

News == [yours: BOOLEAN, rev: Nat]

ControlType ==
    /\ socket \in [Sockets -> {"new", "open", "dropped", "gone"}]
    /\ page \in [Sockets -> [yours: BOOLEAN, rev: Nat, claiming: BOOLEAN]]
    /\ down \in [Sockets -> Seq(News)]
    /\ controller \in Sockets \union {NoSocket}
    /\ rev \in Nat
    /\ over \in BOOLEAN

\* Control as news or a page have it is control as the session has it
Holds(s, news) == news.yours => controller = s /\ rev = news.rev

\* Nobody has told a page anything before its socket opens
QuietBefore == \A s \in Sockets : socket[s] = "new" => ~page[s].yours /\ down[s] = << >>

LastNewsTrue ==
    \A s \in Sockets :
        ~over /\ socket[s] = "open" =>
            Holds(s, IF down[s] = << >> THEN page[s] ELSE down[s][Len(down[s])])

ControlInv == ControlType /\ QuietBefore /\ LastNewsTrue

-----------------------------------------------------------------------------
\* The initial state.
LEMMA ControlInit == IInit => ControlInv
  <1> SUFFICES ASSUME IInit
               PROVE  ControlInv
    OBVIOUS
  <1>1. << >> \in Seq(News)
    OBVIOUS
  <1>2. ControlType
    BY <1>1 DEF IInit, ControlType, NoControl
  <1>3. QuietBefore
    BY DEF IInit, QuietBefore, NoControl
  <1>4. LastNewsTrue
    BY DEF IInit, LastNewsTrue
  <1> QED
    BY <1>2, <1>3, <1>4 DEF ControlInv

\* A step that leaves control and what is known of it alone
LEMMA ControlFrame ==
    ASSUME ControlInv, UNCHANGED <<socket, page, down, controller, rev>>,
           over' \in BOOLEAN, over => over'
    PROVE  ControlInv'
  BY DEF ControlInv, ControlType, QuietBefore, LastNewsTrue, Holds

\* A page changes its mind only about whether its claim is on the way
LEMMA ControlClaiming ==
    ASSUME ControlInv, NEW s \in Sockets, NEW b \in BOOLEAN,
           page' = [page EXCEPT ![s].claiming = b],
           UNCHANGED <<socket, down, controller, rev, over>>
    PROVE  ControlInv'
  <1>1. ControlType'
    BY DEF ControlInv, ControlType
  <1>2. \A t \in Sockets : page'[t].yours = page[t].yours /\ page'[t].rev = page[t].rev
    BY DEF ControlInv, ControlType
  <1> QED
    BY <1>1, <1>2 DEF ControlInv, QuietBefore, LastNewsTrue, Holds

\* A page takes the first of the news: the last of it is still under way, or
\* is what the page takes.
LEMMA ControlPageLearns ==
    ASSUME ControlInv, NEW s \in Sockets, PageLearns(s)
    PROVE  ControlInv'
  <1> DEFINE news == Head(down[s])
  <1>1. /\ down[s] \in Seq(News) /\ down[s] # << >>
        /\ UNCHANGED <<socket, controller, rev, over>>
    BY DEF ControlInv, ControlType, PageLearns, runVars
  <1>2. news \in News /\ Tail(down[s]) \in Seq(News)
    BY <1>1
  <1>3. /\ page' = [page EXCEPT ![s] = [yours |-> news.yours, rev |-> news.rev,
                                        claiming |-> FALSE]]
        /\ down' = [down EXCEPT ![s] = Tail(down[s])]
    BY DEF PageLearns
  <1>4. ControlType'
    BY <1>1, <1>2, <1>3 DEF ControlInv, ControlType, News
  <1>5. QuietBefore'
    BY <1>1, <1>3 DEF ControlInv, ControlType, QuietBefore
  <1>6. LastNewsTrue'
    <2> SUFFICES ASSUME NEW t \in Sockets, ~over', socket'[t] = "open"
                 PROVE  Holds(t, IF down[t] = << >> THEN page[t] ELSE down[t][Len(down[t])])'
      BY DEF LastNewsTrue
    <2>1. CASE t # s
      <3>1. down'[t] = down[t] /\ page'[t] = page[t]
        BY <2>1, <1>3 DEF ControlInv, ControlType
      <3>2. Holds(t, IF down[t] = << >> THEN page[t] ELSE down[t][Len(down[t])])
        BY <1>1 DEF ControlInv, LastNewsTrue
      <3> QED
        BY <3>1, <3>2, <1>1 DEF Holds
    <2>2. CASE t = s
      <3>1. Holds(s, down[s][Len(down[s])])
        BY <2>2, <1>1 DEF ControlInv, LastNewsTrue
      <3>2. down'[s] = Tail(down[s]) /\ page'[s].yours = news.yours /\ page'[s].rev = news.rev
        BY <1>3 DEF ControlInv, ControlType
      <3>3. CASE Tail(down[s]) = << >>
        <4>1. Len(Tail(down[s])) = Len(down[s]) - 1
          BY <1>1
        <4>2. Len(down[s]) = 1
          <5>0. \A seq : seq = << >> => Len(seq) = 0
            OBVIOUS
          <5>1. Len(Tail(down[s])) = 0
            BY <5>0, <3>3
          <5>2. Len(down[s]) \in Nat
            BY <1>1
          <5> QED
            BY <4>1, <5>1, <5>2
        <4>3. news = down[s][Len(down[s])]
          BY <4>2, <1>1
        <4>4. page'[s].yours => controller = s /\ rev = page'[s].rev
          BY <4>3, <3>1, <3>2 DEF Holds
        <4> QED
          BY <4>4, <3>2, <3>3, <2>2, <1>1 DEF Holds
      <3>4. CASE Tail(down[s]) # << >>
        <4>1. Tail(down[s])[Len(Tail(down[s]))] = down[s][Len(down[s])]
          BY <1>1, <3>4
        <4> QED
          BY <4>1, <3>1, <3>2, <3>4, <2>2, <1>1 DEF Holds
      <3> QED
        BY <3>3, <3>4
    <2> QED
      BY <2>1, <2>2
  <1> QED
    BY <1>4, <1>5, <1>6 DEF ControlInv

\* Sockets come and go
LEMMA ControlSockets ==
    ASSUME ControlInv, NEW s \in Sockets,
           (\E fullscreen \in BOOLEAN : Open(s, fullscreen)) \/ Drop(s) \/ Leave(s)
    PROVE  ControlInv'
  <1>1. UNCHANGED <<controller, rev, over>>
    BY DEF Open, Drop, Leave, runVars
  <1>2. CASE \E fullscreen \in BOOLEAN : Open(s, fullscreen)
    <2>1. /\ socket[s] = "new" /\ socket' = [socket EXCEPT ![s] = "open"]
          /\ UNCHANGED <<page, down>>
      BY <1>2 DEF Open
    <2> QED
      BY <1>1, <2>1 DEF ControlInv, ControlType, QuietBefore, LastNewsTrue, Holds
  <1>3. CASE Drop(s)
    <2>1. socket' = [socket EXCEPT ![s] = "dropped"] /\ UNCHANGED <<page, down>>
      BY <1>3 DEF Drop
    <2> QED
      BY <1>1, <2>1 DEF ControlInv, ControlType, QuietBefore, LastNewsTrue, Holds
  <1>4. CASE Leave(s)
    <2>1. /\ socket' = [socket EXCEPT ![s] = "gone"]
          /\ page' = [page EXCEPT ![s] = NoControl]
          /\ down' = [down EXCEPT ![s] = << >>]
      BY <1>4 DEF Leave
    <2>2. ControlType'
      BY <1>1, <2>1 DEF ControlInv, ControlType, NoControl
    <2> QED
      BY <1>1, <2>1, <2>2 DEF ControlInv, ControlType, QuietBefore, LastNewsTrue, Holds
  <1> QED
    BY <1>2, <1>3, <1>4

\* A claim tells every open socket who has control now
LEMMA ControlClaim ==
    ASSUME ControlInv, NEW s \in Sockets, Claim(s)
    PROVE  ControlInv'
  <1>1. UNCHANGED <<socket, page, over>>
    BY DEF Claim
  <1>2. CASE over
    <2>1. UNCHANGED <<controller, rev, down>>
      BY <1>2 DEF Claim
    <2> QED
      BY <1>1, <2>1, ControlFrame DEF ControlInv, ControlType
  <1>3. CASE ~over
    <2> DEFINE Told(t) == [yours |-> t = SocketId(s), rev |-> rev + 1]
    <2>1. /\ controller' = SocketId(s) /\ rev' = rev + 1
          /\ down' = [t \in Sockets |-> IF socket[t] = "open" THEN Append(down[t], Told(t))
                                        ELSE down[t]]
      BY <1>3 DEF Claim
    <2>2. \A t \in Sockets : Told(t) \in News
      BY DEF ControlInv, ControlType, News
    <2>3. SocketId(s) \in Sockets \union {NoSocket}
      BY DEF SocketId
    <2>4. \A t \in Sockets : down[t] \in Seq(News) /\ Append(down[t], Told(t)) \in Seq(News)
      BY <2>2 DEF ControlInv, ControlType
    <2>5. ControlType'
      <3>1. down' \in [Sockets -> Seq(News)]
        BY <2>1, <2>4
      <3> QED
        BY <1>1, <2>1, <2>3, <3>1 DEF ControlInv, ControlType
    <2>6. QuietBefore'
      BY <1>1, <2>1 DEF ControlInv, QuietBefore
    <2>7. LastNewsTrue'
      <3> SUFFICES ASSUME NEW t \in Sockets, socket'[t] = "open"
                   PROVE  Holds(t, IF down[t] = << >> THEN page[t]
                                   ELSE down[t][Len(down[t])])'
        BY DEF LastNewsTrue
      <3>1. down'[t] = Append(down[t], Told(t))
        BY <1>1, <2>1
      <3>2. down'[t] # << >> /\ down'[t][Len(down'[t])] = Told(t)
        BY <3>1, <2>4
      <3>3. Told(t).yours => controller' = t
        BY <2>1
      <3>4. Told(t).rev = rev'
        BY <2>1
      <3> HIDE DEF Told
      <3> QED
        BY <3>2, <3>3, <3>4 DEF Holds
    <2> QED
      BY <2>5, <2>6, <2>7 DEF ControlInv
  <1> QED
    BY <1>2, <1>3

\* Every step keeps the invariant.
LEMMA ControlStep == ControlInv /\ [INext]_inputVars => ControlInv'
  <1> SUFFICES ASSUME ControlInv, [INext]_inputVars
               PROVE  ControlInv'
    OBVIOUS
  <1>0. over \in BOOLEAN
    BY DEF ControlInv, ControlType
  <1>1. CASE \E s \in Sockets : PageClaim(s) \/ PageBlur(s)
    <2>1. PICK s \in Sockets : PageClaim(s) \/ PageBlur(s)
      BY <1>1
    <2>2. PICK b \in BOOLEAN : page' = [page EXCEPT ![s].claiming = b]
      BY <2>1 DEF PageClaim, PageBlur
    <2>3. UNCHANGED <<socket, down, controller, rev, over>>
      BY <2>1 DEF PageClaim, PageBlur, runVars
    <2> QED
      BY <2>2, <2>3, ControlClaiming
  <1>2. CASE \E s \in Sockets : PageType(s) \/ (\E n \in 1..MaxSize : PageResize(s, n))
    BY <1>0, <1>2, ControlFrame DEF PageType, PageResize, runVars
  <1>3. CASE \E s \in Sockets : PageLearns(s)
    BY <1>3, ControlPageLearns
  <1>4. CASE \E s \in Sockets :
               (\E fullscreen \in BOOLEAN : Open(s, fullscreen)) \/ Drop(s) \/ Leave(s)
    BY <1>4, ControlSockets
  <1>5. CASE \E s \in Sockets : Claim(s)
    BY <1>5, ControlClaim
  <1>6. CASE \E s \in Sockets : Input(s) \/ ResizeRun(s)
    BY <1>0, <1>6, ControlFrame DEF Input, ResizeRun, runVars
  <1>7. CASE Cancel \/ StartWriter \/ AskPassword \/ PassGate \/ CloseChannel \/ Finish
    BY <1>0, <1>7, ControlFrame
       DEF Cancel, StartWriter, AskPassword, PassGate, CloseChannel, Finish, pageVars, runVars
  <1>8. CASE Writer
    BY <1>0, <1>8, ControlFrame
       DEF Writer, Take, Sent, SendFails, WriterEnds, pageVars, runVars
  <1>9. CASE UNCHANGED inputVars
    BY <1>0, <1>9, ControlFrame DEF inputVars, pageVars, runVars
  <1> QED
    BY <1>1, <1>2, <1>3, <1>4, <1>5, <1>6, <1>7, <1>8, <1>9 DEF INext, Handle

\* Whatever tabs claim, come and go: with no news under way, a page that takes
\* itself to be in control of a running command is, at the session's revision.
THEOREM ControlIsKnown == ISpec => []ControlKnown
  <1>1. ControlInv => ControlKnown
    BY DEF ControlInv, LastNewsTrue, Holds, ControlKnown
  <1> QED
    BY <1>1, ControlInit, ControlStep, PTL DEF ISpec

-----------------------------------------------------------------------------
(* A queue without what was typed *)

\* Induction over the natural numbers, for a set of them.
LEMMA NatSetInduction ==
    ASSUME NEW S \in SUBSET Nat, 0 \in S, \A n \in S : n + 1 \in S
    PROVE  S = Nat
  <1>1. SUFFICES ASSUME Nat \ S # {}
                 PROVE  FALSE
    OBVIOUS
  <1>2. \E x \in Nat \ S : \A y \in Nat \ S : ~(<<y, x>> \in OpToRel(<, Nat))
    BY <1>1, NatLessThanWellFounded, WFMin, Zenon
  <1>3. PICK x \in Nat \ S : \A y \in Nat \ S : ~(<<y, x>> \in OpToRel(<, Nat))
    BY <1>2
  <1>4. \A y \in Nat \ S : ~(y < x)
    BY <1>3 DEF OpToRel
  <1> QED
    BY <1>4

Items == [kind : {"password", "interrupt", "input", "resize", "claim"},
          from : Sockets \union {NoSocket}, rev : Nat, n : Int]

\* What clear_input has kept of the first items of q, for each number of them
KeptOf(kept, q, m) ==
    /\ kept = [i \in 0..m |-> kept[i]]
    /\ kept[0] = << >>
    /\ \A i \in 1..m : kept[i] = IF IsInput(q[i]) THEN kept[i - 1]
                                 ELSE Append(kept[i - 1], q[i])

\* The definition of WithoutInput defines what it means to.
LEMMA KeptExists ==
    ASSUME NEW q, NEW m \in Nat
    PROVE  \E kept : KeptOf(kept, q, m)
  <1> DEFINE S == {n \in Nat : \E kept : KeptOf(kept, q, n)}
  <1>1. 0 \in S
    <2>1. KeptOf([i \in 0..0 |-> << >>], q, 0)
      BY DEF KeptOf
    <2> QED
      BY <2>1
  <1>2. ASSUME NEW n \in S
        PROVE  n + 1 \in S
    <2>1. PICK kept : KeptOf(kept, q, n)
      BY <1>2
    <2>2. n \in Nat
      BY <1>2
    <2> DEFINE last == IF IsInput(q[n + 1]) THEN kept[n] ELSE Append(kept[n], q[n + 1])
               more == [i \in 0..(n + 1) |-> IF i = n + 1 THEN last ELSE kept[i]]
    <2>3. /\ more = [i \in 0..(n + 1) |-> more[i]] /\ more[n + 1] = last
          /\ \A i \in 0..n : more[i] = kept[i]
      BY <2>2
    <2>4. last = IF IsInput(q[n + 1]) THEN more[n] ELSE Append(more[n], q[n + 1])
      BY <2>2, <2>3
    <2> HIDE DEF last, more
    <2>5. more[0] = << >>
      BY <2>1, <2>2, <2>3 DEF KeptOf
    <2>6. ASSUME NEW i \in 1..(n + 1)
          PROVE  more[i] = IF IsInput(q[i]) THEN more[i - 1] ELSE Append(more[i - 1], q[i])
      <3>1. CASE i = n + 1
        <4>1. i - 1 = n
          BY <2>2, <3>1
        <4> QED
          BY <2>3, <2>4, <3>1, <4>1
      <3>2. CASE i \in 1..n
        <4>1. i \in 0..n /\ i - 1 \in 0..n
          BY <2>2, <3>2
        <4>2. more[i] = kept[i] /\ more[i - 1] = kept[i - 1]
          BY <2>3, <4>1
        <4>3. kept[i] = IF IsInput(q[i]) THEN kept[i - 1] ELSE Append(kept[i - 1], q[i])
          BY <2>1, <3>2 DEF KeptOf
        <4> QED
          BY <4>2, <4>3
      <3> QED
        BY <2>2, <3>1, <3>2
    <2>7. KeptOf(more, q, n + 1)
      BY <2>3, <2>5, <2>6 DEF KeptOf
    <2> QED
      BY <2>2, <2>7
  <1>3. S = Nat
    <2> HIDE DEF S
    <2>1. S \in SUBSET Nat
      BY DEF S
    <2> QED
      BY <1>1, <1>2, <2>1, NatSetInduction
  <1> QED
    BY <1>3

\* WithoutInput is what is kept of all of the queue.
LEMMA WithoutInputKept ==
    ASSUME NEW q \in Seq(Items)
    PROVE  \E kept : KeptOf(kept, q, Len(q)) /\ WithoutInput(q) = kept[Len(q)]
  <1> DEFINE D(f) == [i \in 0..Len(q) |->
                        IF i = 0 THEN << >>
                        ELSE IF IsInput(q[i]) THEN f[i - 1] ELSE Append(f[i - 1], q[i])]
             kept == CHOOSE f : f = D(f)
  <1>1. WithoutInput(q) = kept[Len(q)]
    BY DEF WithoutInput
  <1>2. PICK g : KeptOf(g, q, Len(q))
    BY KeptExists
  <1>3. D(g) = g
    <2>1. Len(q) \in Nat /\ g = [i \in 0..Len(q) |-> g[i]]
      BY <1>2 DEF KeptOf
    <2>2. ASSUME NEW i \in 0..Len(q)
          PROVE  g[i] = IF i = 0 THEN << >>
                        ELSE IF IsInput(q[i]) THEN g[i - 1] ELSE Append(g[i - 1], q[i])
      <3>1. CASE i = 0
        BY <1>2, <3>1 DEF KeptOf
      <3>2. CASE i # 0
        <4>1. i \in 1..Len(q)
          BY <2>1, <3>2
        <4> QED
          BY <1>2, <3>2, <4>1 DEF KeptOf
      <3> QED
        BY <3>1, <3>2
    <2> QED
      BY <2>1, <2>2
  <1>4. kept = D(kept)
    BY <1>3
  <1> HIDE DEF kept
  <1>5. Len(q) \in Nat
    OBVIOUS
  <1>6. KeptOf(kept, q, Len(q))
    <2>1. kept = [i \in 0..Len(q) |-> kept[i]]
      BY <1>4
    <2>2. ASSUME NEW i \in 0..Len(q)
          PROVE  kept[i] = IF i = 0 THEN << >>
                           ELSE IF IsInput(q[i]) THEN kept[i - 1] ELSE Append(kept[i - 1], q[i])
      BY <1>4
    <2>3. kept[0] = << >>
      BY <1>5, <2>2
    <2>4. ASSUME NEW i \in 1..Len(q)
          PROVE  kept[i] = IF IsInput(q[i]) THEN kept[i - 1] ELSE Append(kept[i - 1], q[i])
      <3>1. i \in 0..Len(q) /\ i # 0
        BY <1>5
      <3> QED
        BY <2>2, <3>1
    <2> QED
      BY <2>1, <2>3, <2>4 DEF KeptOf
  <1> QED
    BY <1>1, <1>6 DEF kept

\* c holds the first m items of q, in order and without the inputs among them, as
\* far as the invariants below ask
KeptFrom(c, q, m) ==
    /\ c \in Seq(Items)
    /\ \A i \in 1..Len(c) : ~IsInput(c[i]) /\ \E j \in 1..m : c[i] = q[j]
    /\ \A j \in 1..m : ~IsInput(q[j]) => \E i \in 1..Len(c) : c[i] = q[j]
    /\ m >= 1 /\ ~IsInput(q[1]) => Len(c) >= 1 /\ c[1] = q[1]
    /\ \A j \in 1..m :
          q[j].kind = "resize" /\ (\A l \in (j + 1)..m : q[l].kind # "resize") =>
              \E i \in 1..Len(c) : /\ c[i] = q[j]
                                   /\ \A l \in (i + 1)..Len(c) : c[l].kind # "resize"

\* One more item of the queue is looked at.
LEMMA KeptNext ==
    ASSUME NEW q \in Seq(Items), NEW m \in Nat, m + 1 <= Len(q), NEW c, KeptFrom(c, q, m)
    PROVE  KeptFrom(IF IsInput(q[m + 1]) THEN c ELSE Append(c, q[m + 1]), q, m + 1)
  <1> DEFINE x == q[m + 1]
  <1>0. x \in Items /\ c \in Seq(Items) /\ Len(c) \in Nat
    <2>1. m + 1 \in 1..Len(q)
      OBVIOUS
    <2>2. c \in Seq(Items)
      BY DEF KeptFrom
    <2> QED
      BY <2>1, <2>2
  <1>1. CASE IsInput(x)
    <2>1. x.kind # "resize"
      BY <1>1 DEF IsInput
    <2>2. ASSUME NEW i \in 1..Len(c)
          PROVE  ~IsInput(c[i]) /\ \E j \in 1..(m + 1) : c[i] = q[j]
      <3>1. ~IsInput(c[i]) /\ \E j \in 1..m : c[i] = q[j]
        BY DEF KeptFrom
      <3>2. PICK j \in 1..m : c[i] = q[j]
        BY <3>1
      <3>3. j \in 1..(m + 1)
        OBVIOUS
      <3> QED
        BY <3>1, <3>2, <3>3
    <2>3. ASSUME NEW j \in 1..(m + 1), ~IsInput(q[j])
          PROVE  \E i \in 1..Len(c) : c[i] = q[j]
      <3>1. j \in 1..m
        BY <1>1, <2>3
      <3> QED
        BY <2>3, <3>1 DEF KeptFrom
    <2>4. ~IsInput(q[1]) => Len(c) >= 1 /\ c[1] = q[1]
      <3>1. ~IsInput(q[1]) => m >= 1
        BY <1>1
      <3> QED
        BY <3>1 DEF KeptFrom
    <2>5. ASSUME NEW j \in 1..(m + 1), q[j].kind = "resize",
                 \A l \in (j + 1)..(m + 1) : q[l].kind # "resize"
          PROVE  \E i \in 1..Len(c) : /\ c[i] = q[j]
                                      /\ \A l \in (i + 1)..Len(c) : c[l].kind # "resize"
      <3>1. j \in 1..m
        BY <2>1, <2>5
      <3>2. \A l \in (j + 1)..m : q[l].kind # "resize"
        BY <2>5
      <3> QED
        BY <2>5, <3>1, <3>2 DEF KeptFrom
    <2> HIDE DEF x
    <2>6. KeptFrom(c, q, m + 1)
      BY <1>0, <2>2, <2>3, <2>4, <2>5 DEF KeptFrom
    <2> QED
      BY <1>1, <2>6 DEF x
  <1>2. CASE ~IsInput(x)
    <2> DEFINE d == Append(c, x)
               w == Len(c)
    <2>1. /\ d \in Seq(Items) /\ Len(d) = w + 1 /\ d[w + 1] = x /\ w \in Nat
          /\ \A i \in 1..w : d[i] = c[i]
      BY <1>0
    <2> HIDE DEF d
    <2>2. ASSUME NEW i \in 1..Len(d)
          PROVE  ~IsInput(d[i]) /\ \E j \in 1..(m + 1) : d[i] = q[j]
      <3>1. CASE i \in 1..w
        <4>1. ~IsInput(c[i]) /\ \E j \in 1..m : c[i] = q[j]
          BY <3>1 DEF KeptFrom
        <4>2. PICK j \in 1..m : c[i] = q[j]
          BY <4>1
        <4>3. j \in 1..(m + 1)
          OBVIOUS
        <4>4. d[i] = c[i]
          BY <2>1, <3>1
        <4> QED
          BY <4>1, <4>2, <4>3, <4>4
      <3>2. CASE i = w + 1
        BY <1>2, <2>1, <3>2
      <3> QED
        BY <2>1, <3>1, <3>2
    <2>3. ASSUME NEW j \in 1..(m + 1), ~IsInput(q[j])
          PROVE  \E i \in 1..Len(d) : d[i] = q[j]
      <3>1. CASE j \in 1..m
        <4>1. PICK i \in 1..w : c[i] = q[j]
          BY <2>3, <3>1 DEF KeptFrom
        <4> QED
          BY <2>1, <4>1
      <3>2. CASE j = m + 1
        BY <2>1, <3>2
      <3> QED
        BY <3>1, <3>2
    <2>4. ~IsInput(q[1]) => Len(d) >= 1 /\ d[1] = q[1]
      <3>1. CASE m = 0
        <4>1. w = 0
          <5>1. \A i \in 1..w : FALSE
            BY <3>1 DEF KeptFrom
          <5> QED
            BY <2>1, <5>1
        <4> QED
          BY <2>1, <3>1, <4>1
      <3>2. CASE m >= 1
        <4>1. ~IsInput(q[1]) => w >= 1 /\ c[1] = q[1]
          BY <3>2 DEF KeptFrom
        <4> QED
          BY <2>1, <4>1
      <3> QED
        BY <3>1, <3>2
    <2>5. ASSUME NEW j \in 1..(m + 1), q[j].kind = "resize",
                 \A l \in (j + 1)..(m + 1) : q[l].kind # "resize"
          PROVE  \E i \in 1..Len(d) : /\ d[i] = q[j]
                                      /\ \A l \in (i + 1)..Len(d) : d[l].kind # "resize"
      <3>1. CASE j = m + 1
        <4>1. w + 1 \in 1..Len(d) /\ \A l \in ((w + 1) + 1)..Len(d) : FALSE
          BY <2>1
        <4> QED
          BY <2>1, <3>1, <4>1
      <3>2. CASE j \in 1..m
        <4>1. m + 1 \in (j + 1)..(m + 1) /\ \A l \in (j + 1)..m : l \in (j + 1)..(m + 1)
          BY <3>2
        <4>2. x.kind # "resize" /\ \A l \in (j + 1)..m : q[l].kind # "resize"
          BY <2>5, <4>1
        <4>3. PICK i \in 1..w : c[i] = q[j] /\ \A l \in (i + 1)..w : c[l].kind # "resize"
          BY <2>5, <3>2, <4>2 DEF KeptFrom
        <4>4. ASSUME NEW l \in (i + 1)..Len(d)
              PROVE  d[l].kind # "resize"
          <5>1. l = w + 1 \/ l \in (i + 1)..w
            BY <2>1
          <5>2. l \in (i + 1)..w => l \in 1..w
            BY <4>3
          <5> QED
            BY <2>1, <4>2, <4>3, <5>1, <5>2
        <4>5. i \in 1..Len(d) /\ d[i] = q[j]
          BY <2>1, <4>3
        <4> QED
          BY <4>4, <4>5
      <3> QED
        BY <3>1, <3>2
    <2>6. KeptFrom(d, q, m + 1)
      BY <2>1, <2>2, <2>3, <2>4, <2>5 DEF KeptFrom
    <2> QED
      BY <1>2, <2>6 DEF d
  <1> QED
    BY <1>1, <1>2

\* What clear_input leaves of a queue.
LEMMA WithoutInputFacts ==
    ASSUME NEW q \in Seq(Items)
    PROVE  KeptFrom(WithoutInput(q), q, Len(q))
  <1>1. PICK kept : KeptOf(kept, q, Len(q)) /\ WithoutInput(q) = kept[Len(q)]
    BY WithoutInputKept
  <1>2. Len(q) \in Nat
    OBVIOUS
  <1> DEFINE S == {n \in Nat : n <= Len(q) => KeptFrom(kept[n], q, n)}
  <1>3. 0 \in S
    <2>1. KeptFrom(<< >>, q, 0)
      <3>1. << >> \in Seq(Items) /\ Len(<< >>) = 0 /\ 1..0 = {}
        OBVIOUS
      <3> QED
        BY <3>1 DEF KeptFrom
    <2> QED
      BY <1>1, <2>1 DEF KeptOf
  <1>4. ASSUME NEW n \in S
        PROVE  n + 1 \in S
    <2>1. n \in Nat /\ (n <= Len(q) => KeptFrom(kept[n], q, n))
      BY <1>4
    <2>2. ASSUME n + 1 <= Len(q)
          PROVE  KeptFrom(kept[n + 1], q, n + 1)
      <3>1. KeptFrom(kept[n], q, n)
        BY <1>2, <2>1, <2>2
      <3>2. n + 1 \in 1..Len(q) /\ (n + 1) - 1 = n
        BY <1>2, <2>1, <2>2
      <3>3. kept[n + 1] = IF IsInput(q[n + 1]) THEN kept[n] ELSE Append(kept[n], q[n + 1])
        BY <1>1, <3>2 DEF KeptOf
      <3> QED
        BY <2>1, <2>2, <3>1, <3>3, KeptNext
    <2> QED
      BY <2>1, <2>2
  <1>5. S = Nat
    <2> HIDE DEF S
    <2>1. S \in SUBSET Nat
      BY DEF S
    <2> QED
      BY <1>3, <1>4, <2>1, NatSetInduction
  <1>6. KeptFrom(kept[Len(q)], q, Len(q))
    BY <1>2, <1>5
  <1> QED
    BY <1>1, <1>6

-----------------------------------------------------------------------------
(* Queues and their elements *)

\* The elements of a queue, after each thing that is done to it.
LEMMA RangeAppend ==
    ASSUME NEW q \in Seq(Items), NEW x \in Items
    PROVE  Append(q, x) \in Seq(Items) /\ Range(Append(q, x)) = Range(q) \union {x}
  <1> DEFINE d == Append(q, x)
             w == Len(q)
  <1>1. /\ d \in Seq(Items) /\ Len(d) = w + 1 /\ d[w + 1] = x /\ w \in Nat
        /\ \A i \in 1..w : d[i] = q[i]
        /\ DOMAIN d = 1..(w + 1) /\ DOMAIN q = 1..w
    OBVIOUS
  <1> HIDE DEF d, w
  <1>2. 1..(w + 1) = 1..w \union {w + 1}
    BY <1>1
  <1>3. Range(d) = Range(q) \union {x}
    BY <1>1, <1>2 DEF Range
  <1> QED
    BY <1>1, <1>3 DEF d

\* A queue holds its first item and the rest.
LEMMA RangeTail ==
    ASSUME NEW q \in Seq(Items), q # << >>
    PROVE  /\ Head(q) \in Items /\ Tail(q) \in Seq(Items)
           /\ Range(q) = {Head(q)} \union Range(Tail(q))
  <1> DEFINE d == Tail(q)
             w == Len(q)
  <1>1. /\ d \in Seq(Items) /\ Len(d) = w - 1 /\ w \in Nat \ {0} /\ Head(q) = q[1]
        /\ \A i \in 1..(w - 1) : d[i] = q[i + 1]
        /\ DOMAIN d = 1..(w - 1) /\ DOMAIN q = 1..w /\ q[1] \in Items
    OBVIOUS
  <1> HIDE DEF d, w
  <1>2. \A i \in 1..w : i = 1 \/ (i - 1 \in 1..(w - 1) /\ (i - 1) + 1 = i)
    BY <1>1
  <1>3. ASSUME NEW i \in 1..w
        PROVE  q[i] \in {q[1]} \union Range(d)
    <2>1. CASE i = 1
      BY <2>1
    <2>2. CASE i # 1
      <3>1. PICK j \in 1..(w - 1) : j + 1 = i
        BY <1>2, <2>2
      <3>2. q[i] = d[j]
        BY <1>1, <3>1
      <3> QED
        BY <1>1, <3>2 DEF Range
    <2> QED
      BY <2>1, <2>2
  <1>4. ASSUME NEW i \in 1..(w - 1)
        PROVE  d[i] \in Range(q)
    <2>1. i + 1 \in 1..w
      BY <1>1
    <2> QED
      BY <1>1, <2>1 DEF Range
  <1>5. q[1] \in Range(q)
    BY <1>1 DEF Range
  <1>6. Range(q) \subseteq {q[1]} \union Range(d)
    BY <1>1, <1>3 DEF Range
  <1>7. Range(d) \subseteq Range(q)
    BY <1>1, <1>4 DEF Range
  <1> QED
    BY <1>1, <1>5, <1>6, <1>7 DEF d

\* An item put in front, as the password and Ctrl+C are.
LEMMA RangeFront ==
    ASSUME NEW q \in Seq(Items), NEW x \in Items
    PROVE  /\ <<x>> \o q \in Seq(Items) /\ <<x>> \o q # << >>
           /\ Head(<<x>> \o q) = x /\ Tail(<<x>> \o q) = q
           /\ Range(<<x>> \o q) = {x} \union Range(q)
  <1> DEFINE d == <<x>> \o q
             w == Len(q)
  <1>1. /\ d \in Seq(Items) /\ Len(d) = w + 1 /\ w \in Nat /\ d[1] = x
        /\ \A i \in 1..w : d[i + 1] = q[i]
    OBVIOUS
  <1>2. d # << >> /\ Head(d) = x
    BY <1>1
  <1>3. Tail(d) = q
    <2> DEFINE t == Tail(d)
    <2>1. t \in Seq(Items) /\ Len(t) = w /\ \A i \in 1..w : t[i] = d[i + 1]
      BY <1>1
    <2>2. \A i \in 1..w : t[i] = q[i]
      BY <1>1, <2>1
    <2> HIDE DEF t, d
    <2>3. t = q
      BY <2>1, <2>2
    <2> QED
      BY <2>3 DEF t
  <1> HIDE DEF d
  <1>4. Range(d) = {x} \union Range(q)
    BY <1>1, <1>2, <1>3, RangeTail
  <1> QED
    BY <1>1, <1>2, <1>3, <1>4 DEF d

\* An empty queue.
LEMMA RangeEmpty == << >> \in Seq(Items) /\ Len(<< >>) = 0 /\ Range(<< >>) = {}
  BY DEF Range

\* A queue of one item, as the writer takes them.
LEMMA RangeOne ==
    ASSUME NEW q \in Seq(Items), Len(q) = 1
    PROVE  q = <<q[1]>> /\ q[1] \in Items /\ Range(q) = {q[1]}
  <1>1. q = <<q[1]>> /\ q[1] \in Items /\ DOMAIN q = {1}
    OBVIOUS
  <1> QED
    BY <1>1 DEF Range

\* The elements are in the queue, each at some place of it.
LEMMA RangePlaces ==
    ASSUME NEW q \in Seq(Items)
    PROVE  /\ Range(q) \subseteq Items /\ Len(q) \in Nat
           /\ \A x : x \in Range(q) <=> \E i \in 1..Len(q) : x = q[i]
  <1>1. DOMAIN q = 1..Len(q) /\ \A i \in 1..Len(q) : q[i] \in Items
    OBVIOUS
  <1> QED
    BY <1>1 DEF Range

\* Clearing the input keeps all else, and nothing more.
LEMMA RangeKept ==
    ASSUME NEW q \in Seq(Items)
    PROVE  /\ WithoutInput(q) \in Seq(Items)
           /\ Range(WithoutInput(q)) = {x \in Range(q) : ~IsInput(x)}
  <1> DEFINE c == WithoutInput(q)
  <1>1. KeptFrom(c, q, Len(q))
    BY WithoutInputFacts
  <1> HIDE DEF c
  <1>2. /\ c \in Seq(Items)
        /\ \A i \in 1..Len(c) : ~IsInput(c[i]) /\ \E j \in 1..Len(q) : c[i] = q[j]
        /\ \A j \in 1..Len(q) : ~IsInput(q[j]) => \E i \in 1..Len(c) : c[i] = q[j]
    BY <1>1 DEF KeptFrom
  <1>3. Range(c) = {x \in Range(q) : ~IsInput(x)}
    <2>1. ASSUME NEW x \in Range(c)
          PROVE  x \in Range(q) /\ ~IsInput(x)
      <3>1. PICK i \in 1..Len(c) : x = c[i]
        BY <1>2, <2>1, RangePlaces
      <3> QED
        BY <1>2, <3>1, RangePlaces
    <2>2. ASSUME NEW x \in Range(q), ~IsInput(x)
          PROVE  x \in Range(c)
      <3>1. PICK i \in 1..Len(q) : x = q[i]
        BY <2>2, RangePlaces
      <3> QED
        BY <1>2, <2>2, <3>1, RangePlaces
    <2> QED
      BY <2>1, <2>2
  <1> QED
    BY <1>2, <1>3 DEF c

\* Items nobody typed are items.
LEMMA ItemTypes ==
    /\ Password \in Items /\ Interrupt \in Items
    /\ \A n \in Int : Resize(n) \in Items
  BY DEF Password, Interrupt, Resize, Item, Items

\* And so are the messages of a page.
LEMMA MessageTypes ==
    ASSUME NEW kind \in {"claim", "input", "resize"}, NEW s \in Sockets,
           NEW r \in Nat, NEW n \in Int
    PROVE  /\ Item(kind, s, r, n) \in Items
           /\ Item(kind, s, r, n).from = s /\ Item(kind, s, r, n).rev = r
           /\ Item(kind, s, r, n).n = n
           /\ IsInput(Item(kind, s, r, n)) <=> kind = "input"
  BY DEF Item, Items, IsInput

-----------------------------------------------------------------------------
(* What pages know, and what they send *)

\* News of a claim, or what a page keeps of them: if they are of the last
\* claim, they are right about who has control
Knows(s, news) == news.rev <= rev /\ (news.yours /\ news.rev = rev => controller = s)

\* A message of the page on socket s; input or a resize rests on control the
\* page has, or had
AskedBy(s, m) ==
    m.kind \in {"input", "resize"} =>
        /\ m.from = s
        /\ m.rev <= rev
        /\ m.rev = rev => controller = s
        /\ IsInput(m) => m.n <= typed

\* Inputs travel in the order typed
Increasing(q) ==
    \A i, j \in 1..Len(q) : i < j /\ IsInput(q[i]) /\ IsInput(q[j]) => q[i].n < q[j].n

WireType == up \in [Sockets -> Seq(Items)] /\ typed \in Nat

WireInv ==
    /\ WireType
    /\ \A s \in Sockets :
          /\ Knows(s, page[s])
          /\ \A i \in 1..Len(down[s]) : Knows(s, down[s][i])
          /\ \A m \in Range(up[s]) : AskedBy(s, m)
          /\ Increasing(up[s])

\* One message more, typed after those before.
LEMMA IncreasingAppend ==
    ASSUME NEW q \in Seq(Items), NEW x \in Items, Increasing(q),
           IsInput(x) => \A y \in Range(q) : IsInput(y) => y.n < x.n
    PROVE  Increasing(Append(q, x))
  <1> DEFINE d == Append(q, x)
             w == Len(q)
  <1>1. Len(d) = w + 1 /\ d[w + 1] = x /\ w \in Nat /\ \A i \in 1..w : d[i] = q[i]
    OBVIOUS
  <1> HIDE DEF d
  <1>2. ASSUME NEW i \in 1..Len(d), NEW j \in 1..Len(d), i < j, IsInput(d[i]), IsInput(d[j])
        PROVE  d[i].n < d[j].n
    <2>1. i \in 1..w
      BY <1>1, <1>2
    <2>2. CASE j \in 1..w
      BY <1>1, <1>2, <2>1, <2>2 DEF Increasing
    <2>3. CASE j = w + 1
      <3>1. q[i] \in Range(q)
        BY <2>1, RangePlaces
      <3> QED
        BY <1>1, <1>2, <2>1, <2>3, <3>1
    <2> QED
      BY <1>1, <2>2, <2>3
  <1>3. Increasing(d)
    BY <1>2 DEF Increasing
  <1> QED
    BY <1>3 DEF d

\* The first message is gone: it was typed before the others.
LEMMA IncreasingTail ==
    ASSUME NEW q \in Seq(Items), q # << >>, Increasing(q)
    PROVE  /\ Increasing(Tail(q))
           /\ IsInput(Head(q)) => \A y \in Range(Tail(q)) : IsInput(y) => Head(q).n < y.n
  <1> DEFINE d == Tail(q)
             w == Len(q)
  <1>1. /\ d \in Seq(Items) /\ Len(d) = w - 1 /\ w \in Nat \ {0} /\ Head(q) = q[1]
        /\ \A i \in 1..(w - 1) : d[i] = q[i + 1]
    OBVIOUS
  <1> HIDE DEF d
  <1>2. ASSUME NEW i \in 1..(w - 1), NEW j \in 1..(w - 1), i < j, IsInput(d[i]), IsInput(d[j])
        PROVE  d[i].n < d[j].n
    <2>1. i + 1 \in 1..w /\ j + 1 \in 1..w /\ i + 1 < j + 1
      BY <1>1, <1>2
    <2> QED
      BY <1>1, <1>2, <2>1 DEF Increasing
  <1>3. ASSUME IsInput(q[1]), NEW y \in Range(d), IsInput(y)
        PROVE  q[1].n < y.n
    <2>1. PICK i \in 1..(w - 1) : y = d[i]
      BY <1>1, <1>3, RangePlaces
    <2>2. i + 1 \in 1..w /\ 1 \in 1..w /\ 1 < i + 1
      BY <1>1
    <2> QED
      BY <1>1, <1>3, <2>1, <2>2 DEF Increasing
  <1>4. Increasing(d)
    BY <1>1, <1>2 DEF Increasing
  <1> QED
    BY <1>1, <1>3, <1>4 DEF d

\* Nothing has been said yet.
LEMMA WireInit == IInit => WireInv
  <1> SUFFICES ASSUME IInit
               PROVE  WireInv
    OBVIOUS
  <1>1. WireType
    BY RangeEmpty DEF IInit, WireType
  <1>2. ASSUME NEW s \in Sockets
        PROVE  /\ Knows(s, page[s])
               /\ \A i \in 1..Len(down[s]) : Knows(s, down[s][i])
               /\ \A m \in Range(up[s]) : AskedBy(s, m)
               /\ Increasing(up[s])
    <2>1. up[s] = << >> /\ down[s] = << >> /\ page[s] = NoControl /\ rev = 0
      BY DEF IInit
    <2>2. Len(<< >>) = 0 /\ 1..0 = {}
      OBVIOUS
    <2> QED
      BY <2>1, <2>2, RangeEmpty DEF Knows, Increasing, NoControl
  <1> QED
    BY <1>1, <1>2 DEF WireInv

\* A step without messages.
LEMMA WireFrame ==
    ASSUME WireInv, UNCHANGED <<page, down, up, controller, rev, typed>>
    PROVE  WireInv'
  BY DEF WireInv, WireType, Knows, AskedBy, Increasing

\* A page sends a message: a claim, or what its control allows.
LEMMA WireSends ==
    ASSUME WireInv, NEW s \in Sockets, NEW m \in Items, Send(s, m),
           AskedBy(s, m)', IsInput(m) => m.n = typed + 1,
           typed' \in {typed, typed + 1},
           \A t \in Sockets : page'[t].yours = page[t].yours /\ page'[t].rev = page[t].rev,
           UNCHANGED <<down, controller, rev>>
    PROVE  WireInv'
  <1>1. \A t \in Sockets : up[t] \in Seq(Items)
    BY DEF WireInv, WireType
  <1>2. /\ up' = [up EXCEPT ![s] = Append(up[s], m)]
        /\ up[s] \in Seq(Items) /\ typed \in Nat
        /\ Append(up[s], m) \in Seq(Items) /\ Range(Append(up[s], m)) = Range(up[s]) \union {m}
    BY <1>1, RangeAppend DEF WireInv, WireType, Send
  <1>3. WireType'
    BY <1>2 DEF WireInv, WireType
  <1>4. ASSUME NEW t \in Sockets, NEW x \in Range(up[t])
        PROVE  AskedBy(t, x)'
    <2>1. x \in Items
      BY <1>1, RangePlaces
    <2>2. AskedBy(t, x)
      BY DEF WireInv
    <2> QED
      BY <1>2, <2>1, <2>2 DEF AskedBy, Items
  <1>5. Increasing(Append(up[s], m))
    <2>1. ASSUME NEW y \in Range(up[s]), IsInput(m), IsInput(y)
          PROVE  y.n < m.n
      <3>1. y \in Items /\ m.n = typed + 1
        BY <1>1, <2>1, RangePlaces
      <3>2. AskedBy(s, y)
        BY DEF WireInv
      <3>3. y.n <= typed /\ y.n \in Int
        BY <2>1, <3>1, <3>2 DEF AskedBy, IsInput, Items
      <3> QED
        BY <1>2, <3>1, <3>3
    <2> QED
      BY <1>2, <2>1, IncreasingAppend DEF WireInv
  <1>6. ASSUME NEW t \in Sockets
        PROVE  /\ Knows(t, page[t])'
               /\ \A i \in 1..Len(down'[t]) : Knows(t, down[t][i])'
               /\ \A x \in Range(up'[t]) : AskedBy(t, x)'
               /\ Increasing(up'[t])
    <2>1. Knows(t, page[t])' /\ \A i \in 1..Len(down'[t]) : Knows(t, down[t][i])'
      BY DEF WireInv, Knows
    <2>2. CASE t = s
      <3>1. up'[t] = Append(up[s], m)
        BY <1>2, <2>2 DEF WireInv, WireType
      <3> QED
        BY <1>2, <1>4, <1>5, <2>1, <2>2, <3>1
    <2>3. CASE t # s
      <3>1. up'[t] = up[t]
        BY <1>2, <2>3 DEF WireInv, WireType
      <3> QED
        BY <1>4, <2>1, <3>1 DEF WireInv
    <2> QED
      BY <2>2, <2>3
  <1> QED
    BY <1>3, <1>6 DEF WireInv, Increasing

\* A message is taken from the wire, for the writer or the session.
LEMMA WireConsumed ==
    ASSUME WireInv, NEW s \in Sockets, up[s] # << >>, Consume(s),
           UNCHANGED <<page, down, controller, rev, typed>>
    PROVE  WireInv'
  <1>1. /\ up' = [up EXCEPT ![s] = Tail(up[s])] /\ up[s] \in Seq(Items)
        /\ Tail(up[s]) \in Seq(Items) /\ Range(Tail(up[s])) \subseteq Range(up[s])
        /\ Increasing(Tail(up[s]))
    BY RangeTail, IncreasingTail DEF WireInv, WireType, Consume
  <1>2. WireType'
    BY <1>1 DEF WireInv, WireType
  <1>3. \A t \in Sockets : Range(up'[t]) \subseteq Range(up[t]) /\ Increasing(up'[t])
    BY <1>1 DEF WireInv, WireType
  <1>4. \A t \in Sockets : \A m \in Range(up'[t]) : AskedBy(t, m)'
    BY <1>3 DEF WireInv, AskedBy
  <1>5. \A t \in Sockets : /\ Knows(t, page[t])'
                          /\ \A i \in 1..Len(down'[t]) : Knows(t, down[t][i])'
    BY DEF WireInv, Knows
  <1> QED
    BY <1>2, <1>3, <1>4, <1>5 DEF WireInv, Increasing

\* A page learns what was under way to it.
LEMMA WireLearns ==
    ASSUME ControlInv, WireInv, NEW s \in Sockets, PageLearns(s)
    PROVE  WireInv'
  <1> DEFINE news == Head(down[s])
             w == Len(down[s])
  <1>1. /\ down[s] \in Seq(News) /\ down[s] # << >>
        /\ UNCHANGED <<up, controller, rev, typed>>
        /\ page' = [page EXCEPT ![s] = [yours |-> news.yours, rev |-> news.rev,
                                        claiming |-> FALSE]]
        /\ down' = [down EXCEPT ![s] = Tail(down[s])]
    BY DEF ControlInv, ControlType, PageLearns, runVars
  <1>2. /\ news = down[s][1] /\ w \in Nat /\ 1 \in 1..w /\ Len(Tail(down[s])) = w - 1
        /\ \A i \in 1..(w - 1) : Tail(down[s])[i] = down[s][i + 1] /\ i + 1 \in 1..w
    BY <1>1
  <1>3. ASSUME NEW t \in Sockets
        PROVE  Knows(t, page'[t]) /\ \A i \in 1..Len(down'[t]) : Knows(t, down'[t][i])
    <2>1. CASE t = s
      <3>1. page'[t].yours = news.yours /\ page'[t].rev = news.rev /\ down'[t] = Tail(down[s])
        BY <1>1, <2>1 DEF ControlInv, ControlType
      <3>2. \A i \in 1..w : Knows(s, down[s][i])
        BY DEF WireInv
      <3>3. Knows(s, news)
        BY <1>2, <3>2
      <3>4. Knows(t, page'[t])
        BY <2>1, <3>1, <3>3 DEF Knows
      <3>5. \A i \in 1..(w - 1) : Knows(s, Tail(down[s])[i])
        BY <1>2, <3>2
      <3> QED
        BY <1>2, <2>1, <3>1, <3>4, <3>5
    <2>2. CASE t # s
      <3>1. page'[t] = page[t] /\ down'[t] = down[t]
        BY <1>1, <2>2 DEF ControlInv, ControlType
      <3> QED
        BY <3>1 DEF WireInv
    <2> QED
      BY <2>1, <2>2
  <1>4. \A t \in Sockets : Knows(t, page[t])' /\ \A i \in 1..Len(down'[t]) : Knows(t, down[t][i])'
    BY <1>1, <1>3 DEF Knows
  <1>5. \A t \in Sockets : Increasing(up'[t]) /\ \A m \in Range(up'[t]) : AskedBy(t, m)'
    BY <1>1 DEF WireInv, AskedBy
  <1> QED
    BY <1>1, <1>4, <1>5 DEF WireInv, WireType, Increasing

\* A page leaves, and all that was under way to it or from it.
LEMMA WireLeaves ==
    ASSUME ControlInv, WireInv, NEW s \in Sockets, Leave(s)
    PROVE  WireInv'
  <1>1. /\ page' = [page EXCEPT ![s] = NoControl]
        /\ up' = [up EXCEPT ![s] = << >>]
        /\ down' = [down EXCEPT ![s] = << >>]
        /\ UNCHANGED <<controller, rev, typed>>
    BY DEF Leave, runVars
  <1>2. Len(<< >>) = 0 /\ 1..0 = {} /\ rev \in Nat
    BY DEF ControlInv, ControlType
  <1>3. ASSUME NEW t \in Sockets
        PROVE  /\ Knows(t, page[t])'
               /\ \A i \in 1..Len(down'[t]) : Knows(t, down[t][i])'
               /\ \A m \in Range(up'[t]) : AskedBy(t, m)'
               /\ Increasing(up'[t])
    <2>1. CASE t = s
      <3>1. page'[t] = NoControl /\ up'[t] = << >> /\ down'[t] = << >>
        BY <1>1, <2>1 DEF ControlInv, ControlType, WireInv, WireType
      <3> QED
        BY <1>1, <1>2, <3>1, RangeEmpty DEF Knows, NoControl, Increasing
    <2>2. CASE t # s
      <3>1. page'[t] = page[t] /\ up'[t] = up[t] /\ down'[t] = down[t]
        BY <1>1, <2>2 DEF ControlInv, ControlType, WireInv, WireType
      <3> QED
        BY <1>1, <3>1 DEF WireInv, Knows, AskedBy
    <2> QED
      BY <2>1, <2>2
  <1>4. WireType'
    BY <1>1, RangeEmpty DEF WireInv, WireType
  <1> QED
    BY <1>3, <1>4 DEF WireInv, Increasing

\* A claim makes all that is known or under way out of date, but its own news.
LEMMA WireClaim ==
    ASSUME ControlInv, WireInv, NEW s \in Sockets, Claim(s)
    PROVE  WireInv'
  <1>0. up[s] # << >> /\ Consume(s) /\ UNCHANGED <<page, typed>>
    BY DEF Claim
  <1>1. CASE over
    BY <1>0, <1>1, WireConsumed DEF Claim
  <1>2. CASE ~over
    <2> DEFINE Told(t) == [yours |-> t = SocketId(s), rev |-> rev + 1]
    <2>1. /\ controller' = SocketId(s) /\ rev' = rev + 1 /\ rev \in Nat
          /\ down' = [t \in Sockets |-> IF socket[t] = "open" THEN Append(down[t], Told(t))
                                        ELSE down[t]]
      BY <1>2 DEF Claim, ControlInv, ControlType
    <2>2. /\ up' = [up EXCEPT ![s] = Tail(up[s])] /\ up[s] \in Seq(Items)
          /\ Tail(up[s]) \in Seq(Items) /\ Range(Tail(up[s])) \subseteq Range(up[s])
          /\ Increasing(Tail(up[s]))
      BY <1>0, RangeTail, IncreasingTail DEF WireInv, WireType, Consume
    <2>3. WireType'
      BY <1>0, <2>2 DEF WireInv, WireType
    <2>4. ASSUME NEW t \in Sockets
          PROVE  /\ Range(up'[t]) \subseteq Range(up[t]) /\ Increasing(up'[t])
                 /\ up[t] \in Seq(Items)
      BY <2>2 DEF WireInv, WireType
    <2>5. ASSUME NEW t \in Sockets, NEW m \in Range(up'[t])
          PROVE  AskedBy(t, m)'
      <3>1. AskedBy(t, m) /\ m \in Items
        BY <2>4, <2>5, RangePlaces DEF WireInv
      <3>2. m.rev \in Nat
        BY <3>1 DEF Items
      <3> QED
        BY <1>0, <2>1, <3>1, <3>2 DEF AskedBy
    <2> DEFINE KnowsNow(t, news) ==
                 news.rev <= rev' /\ (news.yours /\ news.rev = rev' => controller' = t)
    <2>6. ASSUME NEW t \in Sockets, NEW news, news.rev \in Nat, Knows(t, news)
          PROVE  KnowsNow(t, news)
      BY <2>1, <2>6 DEF Knows
    <2>7. ASSUME NEW t \in Sockets
          PROVE  Knows(t, page[t])'
      <3>1. page'[t] = page[t] /\ page[t].rev \in Nat /\ Knows(t, page[t])
        BY <1>0 DEF WireInv, ControlInv, ControlType
      <3> QED
        BY <2>6, <3>1 DEF Knows
    <2>8. ASSUME NEW t \in Sockets
          PROVE  \A i \in 1..Len(down'[t]) : Knows(t, down[t][i])'
      <3> DEFINE w == Len(down[t])
      <3>1. /\ down[t] \in Seq(News) /\ w \in Nat
            /\ \A i \in 1..w : down[t][i] \in News /\ Knows(t, down[t][i])
        BY DEF WireInv, ControlInv, ControlType
      <3>2. \A i \in 1..w : KnowsNow(t, down[t][i])
        BY <2>6, <3>1 DEF News
      <3>3. CASE socket[t] # "open"
        <4>1. down'[t] = down[t]
          BY <2>1, <3>3
        <4> QED
          BY <3>2, <4>1 DEF Knows
      <3>4. CASE socket[t] = "open"
        <4>1. PICK told : told = Told(t)
          OBVIOUS
        <4>2. PICK d : d = Append(down[t], told)
          OBVIOUS
        <4>3. down'[t] = d
          BY <2>1, <3>4, <4>1, <4>2
        <4>4. Len(d) = w + 1 /\ d[w + 1] = told /\ \A i \in 1..w : d[i] = down[t][i]
          BY <3>1, <4>2
        <4>5. KnowsNow(t, told)
          <5>1. told.rev = rev + 1 /\ (told.yours => t = SocketId(s))
            BY <4>1
          <5> QED
            BY <2>1, <5>1
        <4> HIDE DEF w, KnowsNow
        <4>6. ASSUME NEW i \in 1..(w + 1)
              PROVE  KnowsNow(t, d[i])
          <5>1. CASE i \in 1..w
            BY <3>2, <4>4, <5>1
          <5>2. CASE i = w + 1
            BY <4>4, <4>5, <5>2
          <5> QED
            BY <3>1, <5>1, <5>2
        <4> QED
          BY <4>3, <4>4, <4>6 DEF Knows, KnowsNow
      <3> QED
        BY <3>3, <3>4
    <2> QED
      BY <2>3, <2>4, <2>5, <2>7, <2>8 DEF WireInv, Increasing
  <1> QED
    BY <1>1, <1>2

\* Every step keeps it.
LEMMA WireStep == ControlInv /\ WireInv /\ [INext]_inputVars => WireInv'
  <1> SUFFICES ASSUME ControlInv, WireInv, [INext]_inputVars
               PROVE  WireInv'
    OBVIOUS
  <1>0. typed \in Nat /\ \A s \in Sockets : page[s].rev \in Nat
    BY DEF WireInv, WireType, ControlInv, ControlType
  <1>1. CASE \E s \in Sockets : PageClaim(s)
    <2>1. PICK s \in Sockets : PageClaim(s)
      BY <1>1
    <2> DEFINE m == Item("claim", s, 0, 0)
    <2>2. Send(s, m) /\ UNCHANGED <<down, controller, rev, typed>>
      BY <2>1 DEF PageClaim, runVars
    <2>3. \A t \in Sockets : page'[t].yours = page[t].yours /\ page'[t].rev = page[t].rev
      BY <2>1 DEF PageClaim, ControlInv, ControlType
    <2>4. m.kind = "claim"
      BY DEF Item
    <2>5. m \in Items
      BY MessageTypes
    <2> HIDE DEF m
    <2> QED
      BY <2>2, <2>3, <2>4, <2>5, WireSends DEF AskedBy, IsInput
  <1>2. CASE \E s \in Sockets : PageBlur(s)
    <2>1. PICK s \in Sockets : PageBlur(s)
      BY <1>2
    <2>2. UNCHANGED <<up, down, controller, rev, typed>>
      BY <2>1 DEF PageBlur, runVars
    <2>3. \A t \in Sockets : page'[t].yours = page[t].yours /\ page'[t].rev = page[t].rev
      BY <2>1 DEF PageBlur, ControlInv, ControlType
    <2> QED
      BY <2>2, <2>3 DEF WireInv, WireType, Knows, AskedBy, Increasing
  <1>3. CASE \E s \in Sockets : PageType(s) \/ \E n \in 1..MaxSize : PageResize(s, n)
    <2>1. PICK s \in Sockets : PageType(s) \/ \E n \in 1..MaxSize : PageResize(s, n)
      BY <1>3
    <2>2. PICK m : /\ Send(s, m) /\ m \in Items /\ m.from = s /\ m.rev = page[s].rev
                   /\ IsInput(m) => m.n = typed + 1
      <3>1. CASE PageType(s)
        <4> DEFINE m == Item("input", s, page[s].rev, typed + 1)
        <4>1. Send(s, m) /\ m \in Items /\ m.from = s /\ m.rev = page[s].rev /\ m.n = typed + 1
          BY <1>0, <3>1, MessageTypes DEF PageType
        <4> QED
          BY <4>1
      <3>2. CASE \E n \in 1..MaxSize : PageResize(s, n)
        <4>1. PICK n \in 1..MaxSize : PageResize(s, n)
          BY <3>2
        <4> DEFINE m == Item("resize", s, page[s].rev, n)
        <4>2. Send(s, m) /\ m \in Items /\ m.from = s /\ m.rev = page[s].rev /\ ~IsInput(m)
          BY <1>0, <4>1, MessageTypes DEF PageResize
        <4> QED
          BY <4>2
      <3> QED
        BY <2>1, <3>1, <3>2
    <2>3. /\ page[s].yours /\ typed' = typed + 1 /\ UNCHANGED <<page, down, controller, rev>>
      BY <2>1 DEF PageType, PageResize, runVars
    <2>4. AskedBy(s, m)'
      BY <1>0, <2>2, <2>3 DEF AskedBy, WireInv, Knows
    <2> QED
      BY <2>2, <2>3, <2>4, WireSends
  <1>4. CASE \E s \in Sockets : PageLearns(s)
    BY <1>4, WireLearns
  <1>5. CASE \E s \in Sockets : (\E fullscreen \in BOOLEAN : Open(s, fullscreen)) \/ Drop(s)
    BY <1>5, WireFrame DEF Open, Drop, runVars
  <1>6. CASE \E s \in Sockets : Leave(s)
    BY <1>6, WireLeaves
  <1>7. CASE \E s \in Sockets : Claim(s)
    BY <1>7, WireClaim
  <1>8. CASE \E s \in Sockets : Input(s) \/ ResizeRun(s)
    BY <1>8, WireConsumed DEF Input, ResizeRun, runVars
  <1>9. CASE Cancel \/ StartWriter \/ AskPassword \/ PassGate \/ CloseChannel \/ Finish
    BY <1>9, WireFrame
       DEF Cancel, StartWriter, AskPassword, PassGate, CloseChannel, Finish, pageVars, runVars
  <1>10. CASE Writer
    BY <1>10, WireFrame DEF Writer, Take, Sent, SendFails, WriterEnds, pageVars, runVars
  <1>11. CASE UNCHANGED inputVars
    BY <1>11, WireFrame DEF inputVars, pageVars, runVars
  <1> QED
    BY <1>1, <1>2, <1>3, <1>4, <1>5, <1>6, <1>7, <1>8, <1>9, <1>10, <1>11 DEF INext, Handle

\* What pages know of control, and the messages they have sent, are right as far
\* as the last claim goes.
THEOREM WireInvariant == ISpec => [](ControlInv /\ WireInv)
  BY ControlInit, ControlStep, WireInit, WireStep, PTL DEF ISpec

-----------------------------------------------------------------------------
(* What was typed, from the queue to the device *)

\* x was typed under the claim of a tab, before all that tab has under way
TypedIn(x) ==
    /\ x.from \in Sockets
    /\ x.rev <= rev
    /\ x.rev = rev => x.from = controller
    /\ x.n <= typed
    /\ \A m \in Range(up[x.from]) : IsInput(m) => x.n < m.n

\* What the writer has taken from its queue or will take
Taken == Range(items) \union Range(writing) \union Range(received)

TakenTyped == \A x \in Taken : IsInput(x) => TypedIn(x)

\* What is so of an item taken stays so.
LEMMA TypedInStays ==
    ASSUME ControlInv, WireInv, WireInv', [INext]_inputVars,
           NEW x \in Items, IsInput(x), TypedIn(x)
    PROVE  TypedIn(x)'
  <1>1. /\ typed \in Nat /\ rev \in Nat /\ x.from \in Sockets
        /\ x.rev \in Nat /\ x.n \in Int /\ up[x.from] \in Seq(Items)
    BY DEF WireInv, WireType, ControlInv, ControlType, TypedIn, Items
  <1>2. ASSUME NEW s \in Sockets, NEW m, m \in Items, Send(s, m),
               IsInput(m) => m.n = typed + 1, typed' \in {typed, typed + 1},
               UNCHANGED <<controller, rev>>
        PROVE  TypedIn(x)'
    <2>1. Range(up'[x.from]) \subseteq Range(up[x.from]) \union {m}
      <3>1. CASE s = x.from
        BY <1>1, <1>2, <3>1, RangeAppend DEF Send, WireInv, WireType
      <3>2. CASE s # x.from
        BY <1>1, <1>2, <3>2 DEF Send, WireInv, WireType
      <3> QED
        BY <3>1, <3>2
    <2>2. x.n < typed + 1
      BY <1>1 DEF TypedIn
    <2> QED
      BY <1>1, <1>2, <2>1, <2>2 DEF TypedIn
  <1> DEFINE Quiet == /\ Range(up'[x.from]) \subseteq Range(up[x.from])
                      /\ typed' = typed
                      /\ rev' = rev + 1 \/ (rev' = rev /\ controller' = controller)
  <1>3. ASSUME Quiet
        PROVE  TypedIn(x)'
    BY <1>1, <1>3 DEF TypedIn
  <1>4. ASSUME NEW s \in Sockets, up[s] # << >>, Consume(s)
        PROVE  Range(up'[x.from]) \subseteq Range(up[x.from])
    BY <1>1, <1>4, RangeTail DEF Consume, WireInv, WireType
  <1>5. ASSUME NEW s \in Sockets, PageClaim(s)
        PROVE  TypedIn(x)'
    <2>1. Item("claim", s, 0, 0) \in Items /\ ~IsInput(Item("claim", s, 0, 0))
      BY MessageTypes
    <2> QED
      BY <1>2, <1>5, <2>1 DEF PageClaim, runVars
  <1>6. ASSUME NEW s \in Sockets, PageType(s)
        PROVE  TypedIn(x)'
    <2>1. page[s].rev \in Nat
      BY DEF ControlInv, ControlType
    <2>2. /\ Item("input", s, page[s].rev, typed + 1) \in Items
          /\ Item("input", s, page[s].rev, typed + 1).n = typed + 1
      BY <1>1, <2>1, MessageTypes
    <2> QED
      BY <1>2, <1>6, <2>2 DEF PageType, runVars
  <1>7. ASSUME NEW s \in Sockets, NEW n \in 1..MaxSize, PageResize(s, n)
        PROVE  TypedIn(x)'
    <2>1. page[s].rev \in Nat
      BY DEF ControlInv, ControlType
    <2>2. /\ Item("resize", s, page[s].rev, n) \in Items
          /\ ~IsInput(Item("resize", s, page[s].rev, n))
      BY <2>1, MessageTypes
    <2> QED
      BY <1>2, <1>7, <2>2 DEF PageResize, runVars
  <1>8. ASSUME NEW s \in Sockets, Leave(s)
        PROVE  TypedIn(x)'
    <2>1. Range(up'[x.from]) \subseteq Range(up[x.from])
      BY <1>1, <1>8, RangeEmpty DEF Leave, WireInv, WireType
    <2> QED
      BY <1>3, <1>8, <2>1 DEF Leave, runVars
  <1>9. ASSUME NEW s \in Sockets, Claim(s)
        PROVE  TypedIn(x)'
    BY <1>3, <1>4, <1>9 DEF Claim
  <1>10. ASSUME NEW s \in Sockets, Input(s) \/ ResizeRun(s)
         PROVE  TypedIn(x)'
    BY <1>3, <1>4, <1>10 DEF Input, ResizeRun, runVars
  <1>11. ASSUME UNCHANGED <<up, typed, rev, controller>>
         PROVE  TypedIn(x)'
    BY <1>3, <1>11
  <1> HIDE DEF Quiet
  <1>12. CASE \E s \in Sockets : /\ \/ PageBlur(s) \/ PageLearns(s) \/ Drop(s)
                                     \/ \E fullscreen \in BOOLEAN : Open(s, fullscreen)
    BY <1>11, <1>12 DEF PageBlur, PageLearns, Drop, Open, runVars
  <1>13. CASE Cancel \/ StartWriter \/ AskPassword \/ PassGate \/ CloseChannel \/ Finish
    BY <1>11, <1>13
       DEF Cancel, StartWriter, AskPassword, PassGate, CloseChannel, Finish, pageVars, runVars
  <1>14. CASE Writer
    BY <1>11, <1>14 DEF Writer, Take, Sent, SendFails, WriterEnds, pageVars, runVars
  <1>15. CASE UNCHANGED inputVars
    BY <1>11, <1>15 DEF inputVars, pageVars, runVars
  <1> QED
    BY <1>5, <1>6, <1>7, <1>8, <1>9, <1>10, <1>12, <1>13, <1>14, <1>15 DEF INext, Handle

-----------------------------------------------------------------------------
(* The order of what the device gets *)

\* b may come after a
Follows(a, b) ==
    /\ IsInput(a) /\ IsInput(b) => a.rev < b.rev \/ (a.rev = b.rev /\ a.n < b.n)
    /\ b.kind = "password" => ~IsInput(a)

InLine(q) == \A i, j \in 1..Len(q) : i < j => Follows(q[i], q[j])

Before(p, q) == \A a \in Range(p), b \in Range(q) : Follows(a, b)

\* All that was taken from the queue, what is being written and what waits
Ordered(gone, now, next) ==
    /\ gone \in Seq(Items) /\ now \in Seq(Items) /\ next \in Seq(Items)
    /\ InLine(gone) /\ InLine(next)
    /\ Before(gone, now) /\ Before(gone, next) /\ Before(now, next)

\* One more item, that may come after all the others.
LEMMA InLineAppend ==
    ASSUME NEW q \in Seq(Items), NEW x \in Items, InLine(q), \A a \in Range(q) : Follows(a, x)
    PROVE  InLine(Append(q, x))
  <1> DEFINE d == Append(q, x)
             w == Len(q)
  <1>1. Len(d) = w + 1 /\ d[w + 1] = x /\ w \in Nat /\ \A i \in 1..w : d[i] = q[i]
    OBVIOUS
  <1> HIDE DEF d
  <1>2. ASSUME NEW i \in 1..Len(d), NEW j \in 1..Len(d), i < j
        PROVE  Follows(d[i], d[j])
    <2>1. i \in 1..w
      BY <1>1, <1>2
    <2>2. CASE j \in 1..w
      BY <1>1, <1>2, <2>1, <2>2 DEF InLine
    <2>3. CASE j = w + 1
      <3>1. q[i] \in Range(q)
        BY <2>1, RangePlaces
      <3> QED
        BY <1>1, <2>1, <2>3, <3>1
    <2> QED
      BY <1>1, <2>2, <2>3
  <1>3. InLine(d)
    BY <1>2 DEF InLine
  <1> QED
    BY <1>3 DEF d

\* The first item is taken: the others may come after it.
LEMMA InLineTail ==
    ASSUME NEW q \in Seq(Items), q # << >>, InLine(q)
    PROVE  InLine(Tail(q)) /\ \A b \in Range(Tail(q)) : Follows(Head(q), b)
  <1> DEFINE d == Tail(q)
             w == Len(q)
  <1>1. /\ d \in Seq(Items) /\ Len(d) = w - 1 /\ w \in Nat \ {0} /\ Head(q) = q[1]
        /\ \A i \in 1..(w - 1) : d[i] = q[i + 1]
    OBVIOUS
  <1> HIDE DEF d
  <1>2. ASSUME NEW i \in 1..(w - 1), NEW j \in 1..(w - 1), i < j
        PROVE  Follows(d[i], d[j])
    <2>1. i + 1 \in 1..w /\ j + 1 \in 1..w /\ i + 1 < j + 1
      BY <1>1, <1>2
    <2> QED
      BY <1>1, <2>1 DEF InLine
  <1>3. ASSUME NEW b \in Range(d)
        PROVE  Follows(q[1], b)
    <2>1. PICK i \in 1..(w - 1) : b = d[i]
      BY <1>1, RangePlaces
    <2>2. i + 1 \in 1..w /\ 1 \in 1..w /\ 1 < i + 1
      BY <1>1
    <2> QED
      BY <1>1, <2>1, <2>2 DEF InLine
  <1>4. InLine(d)
    BY <1>1, <1>2 DEF InLine
  <1> QED
    BY <1>1, <1>3, <1>4 DEF d

\* An item ahead of all the others.
LEMMA InLineFront ==
    ASSUME NEW q \in Seq(Items), NEW x \in Items, InLine(q), \A b \in Range(q) : Follows(x, b)
    PROVE  InLine(<<x>> \o q)
  <1> DEFINE d == <<x>> \o q
             w == Len(q)
  <1>1. Len(d) = w + 1 /\ w \in Nat /\ d[1] = x /\ \A i \in 1..w : d[i + 1] = q[i]
    OBVIOUS
  <1> HIDE DEF d
  <1>2. ASSUME NEW i \in 1..(w + 1), NEW j \in 1..(w + 1), i < j
        PROVE  Follows(d[i], d[j])
    <2>1. PICK k \in 1..w : j = k + 1
      <3>1. j - 1 \in 1..w /\ (j - 1) + 1 = j
        BY <1>1, <1>2
      <3> QED
        BY <3>1
    <2>2. CASE i = 1
      <3>1. q[k] \in Range(q)
        BY <2>1, RangePlaces
      <3> QED
        BY <1>1, <2>1, <2>2, <3>1
    <2>3. CASE i # 1
      <3>1. i - 1 \in 1..w /\ (i - 1) + 1 = i /\ i - 1 < k
        BY <1>1, <1>2, <2>1, <2>3
      <3>2. d[i] = q[i - 1] /\ d[j] = q[k]
        BY <1>1, <2>1, <3>1
      <3> QED
        BY <2>1, <3>1, <3>2 DEF InLine
    <2> QED
      BY <2>2, <2>3
  <1>3. InLine(d)
    BY <1>1, <1>2 DEF InLine
  <1> QED
    BY <1>3 DEF d

\* Nothing stands in the way of an empty queue, or of one nobody typed in.
LEMMA InLineUntyped ==
    ASSUME NEW q \in Seq(Items), \A x \in Range(q) : ~IsInput(x)
    PROVE  InLine(q)
  <1>1. \A i \in 1..Len(q) : ~IsInput(q[i])
    BY RangePlaces
  <1> QED
    BY <1>1 DEF InLine, Follows

\* What the actions do to the queues keeps their order.
LEMMA OrderedQueues ==
    ASSUME NEW gone, NEW now, NEW next, Ordered(gone, now, next)
    PROVE  /\ \A x \in Items :
                 (\A a \in Range(gone) \union Range(now) \union Range(next) : Follows(a, x))
                 => Ordered(gone, now, Append(next, x))
           /\ Ordered(gone, now, <<Interrupt>> \o next)
           /\ Ordered(gone, now, WithoutInput(next))
           /\ Ordered(gone, << >>, next) /\ Ordered(gone, now, << >>)
  <1>1. /\ gone \in Seq(Items) /\ now \in Seq(Items) /\ next \in Seq(Items)
        /\ InLine(gone) /\ InLine(next)
        /\ Before(gone, now) /\ Before(gone, next) /\ Before(now, next)
    BY DEF Ordered
  <1>2. ASSUME NEW x \in Items,
               \A a \in Range(gone) \union Range(now) \union Range(next) : Follows(a, x)
        PROVE  Ordered(gone, now, Append(next, x))
    <2>1. /\ Append(next, x) \in Seq(Items) /\ InLine(Append(next, x))
          /\ Range(Append(next, x)) = Range(next) \union {x}
      BY <1>1, <1>2, InLineAppend, RangeAppend
    <2> QED
      BY <1>1, <1>2, <2>1 DEF Ordered, Before
  <1>3. Ordered(gone, now, <<Interrupt>> \o next)
    <2>1. /\ \A b : Follows(Interrupt, b) /\ Follows(b, Interrupt)
          /\ Interrupt \in Items
      BY ItemTypes DEF Follows, Interrupt, Item, IsInput
    <2>2. /\ <<Interrupt>> \o next \in Seq(Items) /\ InLine(<<Interrupt>> \o next)
          /\ Range(<<Interrupt>> \o next) = {Interrupt} \union Range(next)
      BY <1>1, <2>1, InLineFront, RangeFront
    <2> QED
      BY <1>1, <2>1, <2>2 DEF Ordered, Before
  <1>4. Ordered(gone, now, WithoutInput(next))
    <2>1. /\ WithoutInput(next) \in Seq(Items)
          /\ Range(WithoutInput(next)) = {x \in Range(next) : ~IsInput(x)}
      BY <1>1, RangeKept
    <2>2. InLine(WithoutInput(next))
      BY <2>1, InLineUntyped
    <2> QED
      BY <1>1, <2>1, <2>2 DEF Ordered, Before
  <1>5. Ordered(gone, << >>, next) /\ Ordered(gone, now, << >>)
    <2>1. InLine(<< >>)
      BY RangeEmpty, InLineUntyped
    <2> QED
      BY <1>1, <2>1, RangeEmpty DEF Ordered, Before
  <1> QED
    BY <1>2, <1>3, <1>4, <1>5

\* The writer takes the first item, and sends it.
LEMMA OrderedWriter ==
    ASSUME NEW gone, NEW now, NEW next, Ordered(gone, now, next)
    PROVE  /\ now = << >> /\ next # << >> =>
                 /\ Ordered(gone, <<Head(next)>>, Tail(next))
                 /\ Ordered(gone, << >>, Tail(next))
           /\ Len(now) = 1 => Ordered(gone \o now, << >>, next)
  <1>1. /\ gone \in Seq(Items) /\ now \in Seq(Items) /\ next \in Seq(Items)
        /\ InLine(gone) /\ InLine(next)
        /\ Before(gone, now) /\ Before(gone, next) /\ Before(now, next)
    BY DEF Ordered
  <1>2. ASSUME next # << >>
        PROVE  Ordered(gone, <<Head(next)>>, Tail(next)) /\ Ordered(gone, << >>, Tail(next))
    <2>1. PICK x : x = Head(next)
      OBVIOUS
    <2>2. /\ x \in Items /\ Tail(next) \in Seq(Items) /\ InLine(Tail(next))
          /\ Range(next) = {x} \union Range(Tail(next))
          /\ \A b \in Range(Tail(next)) : Follows(x, b)
      BY <1>1, <1>2, <2>1, RangeTail, InLineTail
    <2>3. <<x>> \in Seq(Items) /\ Range(<<x>>) = {x}
      BY <2>2 DEF Range
    <2> QED
      BY <1>1, <2>1, <2>2, <2>3, RangeEmpty DEF Ordered, Before
  <1>3. ASSUME Len(now) = 1
        PROVE  Ordered(gone \o now, << >>, next)
    <2>1. PICK x \in Items : now = <<x>> /\ Range(now) = {x}
      BY <1>1, <1>3, RangeOne
    <2>2. gone \o now = Append(gone, x)
      BY <1>1, <2>1
    <2>3. /\ Append(gone, x) \in Seq(Items) /\ InLine(Append(gone, x))
          /\ Range(Append(gone, x)) = Range(gone) \union {x}
      BY <1>1, <2>1, InLineAppend, RangeAppend DEF Before
    <2> QED
      BY <1>1, <2>1, <2>2, <2>3, RangeEmpty DEF Ordered, Before
  <1> QED
    BY <1>2, <1>3

-----------------------------------------------------------------------------
(* The bytes that wait *)

Inputs(q) == {i \in 1..Len(q) : IsInput(q[i])}

\* There are finitely many.
LEMMA InputsFinite ==
    ASSUME NEW q \in Seq(Items)
    PROVE  IsFiniteSet(Inputs(q)) /\ Cardinality(Inputs(q)) \in Nat /\ Inputs(q) \subseteq Nat
  <1>1. IsFiniteSet(1..Len(q))
    BY FS_Interval
  <1>2. Inputs(q) \in SUBSET (1..Len(q))
    BY DEF Inputs
  <1>3. IsFiniteSet(Inputs(q))
    BY <1>1, <1>2, FS_Subset
  <1> QED
    BY <1>2, <1>3, FS_CardinalityType

\* As many numbers, each one higher.
LEMMA ShiftCount ==
    ASSUME NEW S \in SUBSET Nat, NEW T, IsFiniteSet(S), T = {i + 1 : i \in S}
    PROVE  IsFiniteSet(T) /\ Cardinality(T) = Cardinality(S)
  <1> DEFINE f == [i \in S |-> i + 1]
  <1>1. f \in [S -> T] /\ \A i \in S : f[i] = i + 1
    OBVIOUS
  <1> HIDE DEF f
  <1>2. \A i, j \in S : f[i] = f[j] => i = j
    BY <1>1
  <1>3. \A t \in T : \E i \in S : f[i] = t
    BY <1>1
  <1>4. f \in Bijection(S, T)
    BY <1>1, <1>2, <1>3 DEF Bijection, Injection, Surjection, IsInjective
  <1> QED
    BY <1>4, FS_Bijection DEF ExistsBijection

\* One more item, one more input if it is one.
LEMMA InputsAppend ==
    ASSUME NEW q \in Seq(Items), NEW x \in Items
    PROVE  Cardinality(Inputs(Append(q, x))) =
               IF IsInput(x) THEN Cardinality(Inputs(q)) + 1 ELSE Cardinality(Inputs(q))
  <1> DEFINE d == Append(q, x)
             w == Len(q)
  <1>1. Len(d) = w + 1 /\ d[w + 1] = x /\ w \in Nat /\ \A i \in 1..w : d[i] = q[i]
    OBVIOUS
  <1> HIDE DEF d, w
  <1>2. 1..(w + 1) = 1..w \union {w + 1} /\ w + 1 \notin 1..w
    BY <1>1
  <1>3. Inputs(d) = IF IsInput(x) THEN Inputs(q) \union {w + 1} ELSE Inputs(q)
    BY <1>1, <1>2 DEF Inputs, w
  <1>4. w + 1 \notin Inputs(q)
    BY <1>2 DEF Inputs, w
  <1>5. IsFiniteSet(Inputs(q))
    BY InputsFinite
  <1>6. Cardinality(Inputs(q) \union {w + 1}) = Cardinality(Inputs(q)) + 1
    BY <1>4, <1>5, FS_AddElement
  <1>7. Cardinality(Inputs(d)) =
            IF IsInput(x) THEN Cardinality(Inputs(q)) + 1 ELSE Cardinality(Inputs(q))
    BY <1>3, <1>6
  <1> QED
    BY <1>7 DEF d

\* The first item is taken: one input less if it is one.
LEMMA InputsTail ==
    ASSUME NEW q \in Seq(Items), q # << >>
    PROVE  Cardinality(Inputs(q)) =
               IF IsInput(Head(q)) THEN Cardinality(Inputs(Tail(q))) + 1
               ELSE Cardinality(Inputs(Tail(q)))
  <1> DEFINE d == Tail(q)
             w == Len(q)
             S == Inputs(d)
             T == {i + 1 : i \in S}
  <1>1. /\ d \in Seq(Items) /\ Len(d) = w - 1 /\ w \in Nat \ {0} /\ Head(q) = q[1]
        /\ \A i \in 1..(w - 1) : d[i] = q[i + 1]
    OBVIOUS
  <1> HIDE DEF d
  <1>2. IsFiniteSet(S) /\ S \subseteq Nat /\ S = {i \in 1..(w - 1) : IsInput(q[i + 1])}
    BY <1>1, InputsFinite DEF Inputs
  <1>3. Inputs(q) = IF IsInput(Head(q)) THEN T \union {1} ELSE T
    <2>1. ASSUME NEW i \in Inputs(q), i # 1
          PROVE  i \in T
      <3>1. i \in 1..w /\ IsInput(q[i])
        BY DEF Inputs
      <3>2. i - 1 \in 1..(w - 1) /\ (i - 1) + 1 = i
        BY <1>1, <2>1, <3>1
      <3>3. i - 1 \in S
        BY <1>2, <3>1, <3>2
      <3> QED
        BY <3>2, <3>3
    <2>2. ASSUME NEW i \in T
          PROVE  i \in Inputs(q)
      <3>1. PICK j \in S : i = j + 1
        OBVIOUS
      <3>2. j \in 1..(w - 1) /\ IsInput(q[j + 1])
        BY <1>2
      <3>3. j + 1 \in 1..w
        BY <1>1, <3>2
      <3> QED
        BY <3>1, <3>2, <3>3 DEF Inputs
    <2>3. 1 \in Inputs(q) <=> IsInput(Head(q))
      <3>1. 1 \in 1..w
        BY <1>1
      <3> QED
        BY <1>1, <3>1 DEF Inputs
    <2>4. 1 \notin T
      <3>1. 0 \notin S
        BY <1>2
      <3> QED
        BY <1>2, <3>1
    <2> HIDE DEF T
    <2>5. Inputs(q) \subseteq T \union {1} /\ T \subseteq Inputs(q)
      BY <2>1, <2>2
    <2>6. CASE IsInput(Head(q))
      <3>1. T \union {1} \subseteq Inputs(q)
        BY <2>3, <2>5, <2>6
      <3>2. Inputs(q) = T \union {1}
        BY <2>5, <3>1
      <3> QED
        BY <2>6, <3>2
    <2>7. CASE ~IsInput(Head(q))
      <3>1. Inputs(q) \subseteq T
        BY <2>3, <2>5, <2>7
      <3>2. Inputs(q) = T
        BY <2>5, <3>1
      <3> QED
        BY <2>7, <3>2
    <2> QED
      BY <2>6, <2>7
  <1>4. IsFiniteSet(T) /\ Cardinality(T) = Cardinality(S)
    BY <1>2, ShiftCount
  <1>5. 1 \notin T
    <2>1. 0 \notin S
      BY <1>2
    <2> QED
      BY <1>2, <2>1
  <1> HIDE DEF S, T
  <1>6. Cardinality(T \union {1}) = Cardinality(S) + 1
    BY <1>4, <1>5, FS_AddElement
  <1>7. Cardinality(Inputs(q)) = IF IsInput(Head(q)) THEN Cardinality(S) + 1
                                 ELSE Cardinality(S)
    BY <1>3, <1>4, <1>6
  <1> QED
    BY <1>7 DEF S, d

\* Nobody typed what has no inputs.
LEMMA InputsNone ==
    ASSUME NEW q \in Seq(Items), \A x \in Range(q) : ~IsInput(x)
    PROVE  Cardinality(Inputs(q)) = 0
  <1>1. Inputs(q) = {}
    BY RangePlaces DEF Inputs
  <1> QED
    BY <1>1, FS_EmptySet

-----------------------------------------------------------------------------
(* The size the device will have *)

\* Among numbers there is a least one, and among finitely many a greatest.
LEMMA NatMin ==
    ASSUME NEW S \in SUBSET Nat, S # {}
    PROVE  \E x \in S : \A y \in S : x <= y
  <1>1. \E x \in S : \A y \in S : ~(<<y, x>> \in OpToRel(<, Nat))
    BY NatLessThanWellFounded, WFMin, Zenon
  <1>2. PICK x \in S : \A y \in S : ~(<<y, x>> \in OpToRel(<, Nat))
    BY <1>1
  <1>3. \A y \in S : ~(y < x)
    BY <1>2 DEF OpToRel
  <1> QED
    BY <1>3

\* The greatest of some places of a queue.
LEMMA MaxIs ==
    ASSUME NEW n \in Nat, NEW S \in SUBSET (1..n), S # {}
    PROVE  Max(S) \in S /\ \A y \in S : Max(S) >= y
  <1> DEFINE T == {n - x : x \in S}
  <1>1. T \in SUBSET Nat /\ T # {}
    OBVIOUS
  <1>2. PICK t \in T : \A y \in T : t <= y
    BY <1>1, NatMin
  <1>3. PICK x \in S : t = n - x
    OBVIOUS
  <1>4. ASSUME NEW y \in S
        PROVE  x >= y
    <2>1. n - y \in T
      OBVIOUS
    <2> HIDE DEF T
    <2>2. t <= n - y
      BY <1>2, <2>1
    <2>3. x \in Nat /\ y \in Nat
      OBVIOUS
    <2> QED
      BY <1>3, <2>2, <2>3
  <1>5. \E z \in S : \A y \in S : z >= y
    BY <1>4
  <1> QED
    BY <1>5 DEF Max

IsResize(x) == x.kind = "resize"

\* j is the place of the last resize of q
LastResize(q, j) ==
    j \in 1..Len(q) /\ IsResize(q[j]) /\ \A l \in (j + 1)..Len(q) : ~IsResize(q[l])

\* Once all of q is done, a terminal of size p has size sz
SettlesTo(q, p, sz) ==
    /\ (\A x \in Range(q) : ~IsResize(x)) => p = sz
    /\ \A j \in 1..Len(q) : LastResize(q, j) => q[j].n = sz

\* There is a last resize where there is one.
LEMMA LastResizeExists ==
    ASSUME NEW q \in Seq(Items), NEW x \in Range(q), IsResize(x)
    PROVE  LastResize(q, Max({i \in 1..Len(q) : IsResize(q[i])}))
  <1> DEFINE S == {i \in 1..Len(q) : IsResize(q[i])}
             m == Max(S)
  <1>1. S \in SUBSET (1..Len(q)) /\ S # {} /\ Len(q) \in Nat
    BY RangePlaces
  <1>2. m \in S /\ \A y \in S : m >= y
    BY <1>1, MaxIs
  <1> HIDE DEF m
  <1>3. ASSUME NEW l \in (m + 1)..Len(q)
        PROVE  ~IsResize(q[l])
    <2>1. l \in 1..Len(q) /\ ~(m >= l)
      BY <1>1, <1>2
    <2> QED
      BY <1>2, <2>1
  <1>4. LastResize(q, m)
    BY <1>2, <1>3 DEF LastResize
  <1> QED
    BY <1>4 DEF m

\* There is only one.
LEMMA LastResizeUnique ==
    ASSUME NEW q \in Seq(Items), NEW i, NEW j, LastResize(q, i), LastResize(q, j)
    PROVE  i = j
  <1>1. i \in 1..Len(q) /\ j \in 1..Len(q) /\ Len(q) \in Nat
    BY DEF LastResize
  <1>2. i < j => j \in (i + 1)..Len(q)
    BY <1>1
  <1>3. j < i => i \in (j + 1)..Len(q)
    BY <1>1
  <1>4. ~(i < j) /\ ~(j < i)
    BY <1>2, <1>3 DEF LastResize
  <1> QED
    BY <1>1, <1>4

\* This is what SizeSettles says of the queue.
LEMMA SettlesMax ==
    ASSUME NEW q \in Seq(Items), NEW p, NEW sz, SettlesTo(q, p, sz)
    PROVE  LET resizes == {i \in 1..Len(q) : q[i].kind = "resize"}
           IN  sz = IF resizes = {} THEN p ELSE q[Max(resizes)].n
  <1> DEFINE resizes == {i \in 1..Len(q) : IsResize(q[i])}
  <1>1. CASE resizes = {}
    <2>1. \A x \in Range(q) : ~IsResize(x)
      BY <1>1, RangePlaces
    <2> QED
      BY <1>1, <2>1 DEF SettlesTo, IsResize
  <1>2. CASE resizes # {}
    <2>1. PICK r \in 1..Len(q) : IsResize(q[r])
      BY <1>2
    <2>2. q[r] \in Range(q)
      BY <2>1, RangePlaces
    <2>3. LastResize(q, Max(resizes))
      BY <2>1, <2>2, LastResizeExists
    <2>4. Max(resizes) \in 1..Len(q)
      BY <2>3 DEF LastResize
    <2>5. q[Max(resizes)].n = sz
      BY <2>3, <2>4 DEF SettlesTo
    <2>6. resizes = {i \in 1..Len(q) : q[i].kind = "resize"}
      BY DEF IsResize
    <2> HIDE DEF resizes
    <2> QED
      BY <1>2, <2>5, <2>6
  <1> QED
    BY <1>1, <1>2

\* A resize at the end is the last one, another item changes nothing.
LEMMA SettlesAppend ==
    ASSUME NEW q \in Seq(Items), NEW x \in Items, NEW p, NEW sz
    PROVE  /\ IsResize(x) => SettlesTo(Append(q, x), p, x.n)
           /\ ~IsResize(x) /\ SettlesTo(q, p, sz) => SettlesTo(Append(q, x), p, sz)
  <1> DEFINE d == Append(q, x)
             w == Len(q)
  <1>1. /\ d \in Seq(Items) /\ Len(d) = w + 1 /\ d[w + 1] = x /\ w \in Nat
        /\ \A i \in 1..w : d[i] = q[i]
        /\ Range(d) = Range(q) \union {x}
    BY RangeAppend
  <1> HIDE DEF d
  <1>2. ASSUME IsResize(x)
        PROVE  SettlesTo(d, p, x.n)
    <2>1. ASSUME NEW j \in 1..(w + 1), LastResize(d, j)
          PROVE  d[j].n = x.n
      <3>1. j < w + 1 => w + 1 \in (j + 1)..(w + 1)
        BY <1>1, <2>1
      <3>2. j = w + 1
        BY <1>1, <1>2, <2>1, <3>1 DEF LastResize
      <3> QED
        BY <1>1, <3>2
    <2> QED
      BY <1>1, <1>2, <2>1 DEF SettlesTo
  <1>3. ASSUME ~IsResize(x), SettlesTo(q, p, sz)
        PROVE  SettlesTo(d, p, sz)
    <2>1. ASSUME NEW j \in 1..(w + 1), LastResize(d, j)
          PROVE  d[j].n = sz
      <3>1. j \in 1..w
        BY <1>1, <1>3, <2>1 DEF LastResize
      <3>2. ASSUME NEW l \in (j + 1)..w
            PROVE  ~IsResize(q[l])
        <4>1. l \in (j + 1)..(w + 1) /\ l \in 1..w
          BY <1>1, <3>1
        <4> QED
          BY <1>1, <2>1, <4>1 DEF LastResize
      <3>3. IsResize(q[j])
        BY <1>1, <2>1, <3>1 DEF LastResize
      <3>4. LastResize(q, j)
        BY <3>1, <3>2, <3>3 DEF LastResize
      <3> QED
        BY <1>1, <1>3, <3>1, <3>4 DEF SettlesTo
    <2>2. (\A y \in Range(d) : ~IsResize(y)) => p = sz
      BY <1>1, <1>3 DEF SettlesTo
    <2> QED
      BY <1>1, <2>1, <2>2 DEF SettlesTo
  <1> QED
    BY <1>2, <1>3 DEF d

\* A resize that is taken is done.
LEMMA SettlesTail ==
    ASSUME NEW q \in Seq(Items), q # << >>, NEW p, NEW sz, SettlesTo(q, p, sz)
    PROVE  SettlesTo(Tail(q), IF IsResize(Head(q)) THEN Head(q).n ELSE p, sz)
  <1> DEFINE d == Tail(q)
             w == Len(q)
  <1>1. /\ d \in Seq(Items) /\ Len(d) = w - 1 /\ w \in Nat \ {0} /\ Head(q) = q[1]
        /\ \A i \in 1..(w - 1) : d[i] = q[i + 1]
        /\ Range(q) = {Head(q)} \union Range(d)
    BY RangeTail
  <1> HIDE DEF d
  <1>2. ASSUME NEW j \in 1..(w - 1), LastResize(d, j)
        PROVE  d[j].n = sz
    <2>1. j + 1 \in 1..w /\ d[j] = q[j + 1]
      BY <1>1
    <2>2. ASSUME NEW l \in ((j + 1) + 1)..w
          PROVE  ~IsResize(q[l])
      <3>1. l - 1 \in (j + 1)..(w - 1) /\ l - 1 \in 1..(w - 1) /\ (l - 1) + 1 = l
        BY <1>1
      <3>2. ~IsResize(d[l - 1])
        BY <1>1, <1>2, <3>1 DEF LastResize
      <3>3. d[l - 1] = q[l]
        BY <1>1, <3>1
      <3> QED
        BY <3>2, <3>3
    <2>3. IsResize(q[j + 1])
      BY <1>2, <2>1 DEF LastResize
    <2>4. LastResize(q, j + 1)
      BY <2>1, <2>2, <2>3 DEF LastResize
    <2> QED
      BY <2>1, <2>4 DEF SettlesTo
  <1>3. ASSUME \A x \in Range(d) : ~IsResize(x)
        PROVE  sz = IF IsResize(Head(q)) THEN Head(q).n ELSE p
    <2>1. CASE IsResize(Head(q))
      <3>1. ASSUME NEW l \in 2..w
            PROVE  ~IsResize(q[l])
        <4>1. l - 1 \in 1..(w - 1) /\ (l - 1) + 1 = l
          BY <1>1
        <4>2. q[l] = d[l - 1] /\ d[l - 1] \in Range(d)
          BY <1>1, <4>1, RangePlaces
        <4> QED
          BY <1>3, <4>2
      <3>2. 1 \in 1..w /\ 1 + 1 = 2
        BY <1>1
      <3>3. LastResize(q, 1)
        BY <1>1, <2>1, <3>1, <3>2 DEF LastResize
      <3> QED
        BY <1>1, <2>1, <3>2, <3>3 DEF SettlesTo
    <2>2. CASE ~IsResize(Head(q))
      BY <1>1, <1>3, <2>2 DEF SettlesTo
    <2> QED
      BY <2>1, <2>2
  <1>4. SettlesTo(d, IF IsResize(Head(q)) THEN Head(q).n ELSE p, sz)
    BY <1>1, <1>2, <1>3 DEF SettlesTo
  <1> QED
    BY <1>4 DEF d

\* An item ahead of all the others is no resize: the last one stays the last.
LEMMA SettlesFront ==
    ASSUME NEW q \in Seq(Items), NEW x \in Items, ~IsResize(x),
           NEW p, NEW sz, SettlesTo(q, p, sz)
    PROVE  SettlesTo(<<x>> \o q, p, sz)
  <1> DEFINE d == <<x>> \o q
             w == Len(q)
  <1>1. /\ d \in Seq(Items) /\ Len(d) = w + 1 /\ w \in Nat /\ d[1] = x
        /\ \A i \in 1..w : d[i + 1] = q[i]
        /\ Range(d) = {x} \union Range(q)
    BY RangeFront
  <1> HIDE DEF d
  <1>2. ASSUME NEW j \in 1..(w + 1), LastResize(d, j)
        PROVE  d[j].n = sz
    <2>1. j # 1
      BY <1>1, <1>2 DEF LastResize
    <2>2. PICK k \in 1..w : j = k + 1
      <3>1. j - 1 \in 1..w /\ (j - 1) + 1 = j
        BY <1>1, <2>1
      <3> QED
        BY <3>1
    <2>3. ASSUME NEW l \in (k + 1)..w
          PROVE  ~IsResize(q[l])
      <3>1. l \in 1..w /\ l + 1 \in (j + 1)..(w + 1)
        BY <1>1, <2>2
      <3>2. ~IsResize(d[l + 1])
        BY <1>1, <1>2, <3>1 DEF LastResize
      <3> QED
        BY <1>1, <3>1, <3>2
    <2>4. d[j] = q[k] /\ IsResize(d[j])
      BY <1>1, <1>2, <2>2 DEF LastResize
    <2>5. LastResize(q, k)
      BY <2>2, <2>3, <2>4 DEF LastResize
    <2> QED
      BY <2>2, <2>4, <2>5 DEF SettlesTo
  <1>3. (\A y \in Range(d) : ~IsResize(y)) => p = sz
    BY <1>1 DEF SettlesTo
  <1>4. SettlesTo(d, p, sz)
    BY <1>1, <1>2, <1>3 DEF SettlesTo
  <1> QED
    BY <1>4 DEF d

\* A claim takes no resize away.
LEMMA SettlesKept ==
    ASSUME NEW q \in Seq(Items), NEW p, NEW sz, SettlesTo(q, p, sz)
    PROVE  SettlesTo(WithoutInput(q), p, sz)
  <1> DEFINE c == WithoutInput(q)
  <1>1. KeptFrom(c, q, Len(q))
    BY WithoutInputFacts
  <1>2. c \in Seq(Items) /\ Range(c) = {x \in Range(q) : ~IsInput(x)}
    BY RangeKept
  <1> HIDE DEF c
  <1>3. \A x : IsResize(x) => ~IsInput(x)
    BY DEF IsResize, IsInput
  <1>4. (\A x \in Range(c) : ~IsResize(x)) => p = sz
    BY <1>2, <1>3 DEF SettlesTo
  <1>5. ASSUME NEW j \in 1..Len(c), LastResize(c, j)
        PROVE  c[j].n = sz
    <2>1. c[j] \in Range(c) /\ IsResize(c[j])
      BY <1>2, <1>5, RangePlaces DEF LastResize
    <2>2. PICK m : LastResize(q, m)
      BY <1>2, <2>1, LastResizeExists
    <2>3. m \in 1..Len(q) /\ q[m].n = sz
      BY <2>2 DEF LastResize, SettlesTo
    <2>4. PICK i \in 1..Len(c) : /\ c[i] = q[m]
                                /\ \A l \in (i + 1)..Len(c) : c[l].kind # "resize"
      BY <1>1, <2>2 DEF KeptFrom, LastResize, IsResize
    <2>5. LastResize(c, i)
      BY <2>2, <2>4 DEF LastResize, IsResize
    <2>6. i = j
      BY <1>2, <1>5, <2>5, LastResizeUnique
    <2> QED
      BY <2>3, <2>4, <2>6
  <1>6. SettlesTo(c, p, sz)
    BY <1>4, <1>5 DEF SettlesTo
  <1> QED
    BY <1>6 DEF c

-----------------------------------------------------------------------------
(* The queue, the writer and the device *)

QueueType ==
    /\ size \in Int /\ pty \in Int
    /\ auth \in BOOLEAN /\ gate \in {"waiting", "asked"} /\ stopping \in BOOLEAN
    /\ open \in BOOLEAN
    /\ writer \in {"absent", "idle", "sending", "ended"}
    /\ writer # "sending" => writing = << >>
    /\ writer = "sending" => Len(writing) = 1

\* Nobody's input before sudo is through, nothing at all before there is a writer
GateInv ==
    /\ ~auth => \A x \in Taken : ~IsInput(x)
    /\ writer = "absent" => ~auth /\ items = << >>

\* What waits is of the tab in control
Controllers ==
    /\ \A x \in Range(items) : IsInput(x) => x.rev = rev /\ x.from = controller
    /\ pending = Cardinality(Inputs(items))

Settling == open /\ writer # "ended" /\ ~over => SettlesTo(items, pty, size)

QueueInv ==
    /\ QueueType
    /\ Ordered(received, writing, items)
    /\ TakenTyped
    /\ GateInv
    /\ Controllers
    /\ Settling
    /\ PasswordKept
    /\ InterruptNext

\* The empty queue.
LEMMA QueueInit == IInit => QueueInv
  <1> SUFFICES ASSUME IInit
               PROVE  QueueInv
    OBVIOUS
  <1>1. /\ items = << >> /\ writing = << >> /\ received = << >> /\ pending = 0
        /\ size = 1 /\ pty = 1 /\ auth = FALSE /\ gate = "waiting" /\ stopping = FALSE
        /\ open = TRUE /\ writer = "absent"
    BY DEF IInit
  <1>2. Taken = {}
    BY <1>1, RangeEmpty DEF Taken
  <1>3. QueueType
    <2>1. size \in Int /\ pty \in Int
      BY <1>1
    <2>2. auth \in BOOLEAN /\ stopping \in BOOLEAN /\ open \in BOOLEAN
      BY <1>1, Zenon
    <2>3. writer # "sending" /\ writer \in {"absent", "idle", "sending", "ended"}
      BY <1>1
    <2> QED
      BY <1>1, <2>1, <2>2, <2>3 DEF QueueType
  <1>4. Ordered(<< >>, << >>, << >>)
    <2>1. InLine(<< >>)
      BY RangeEmpty, InLineUntyped
    <2> QED
      BY <2>1, RangeEmpty DEF Ordered, Before
  <1>5. Cardinality(Inputs(<< >>)) = 0
    BY RangeEmpty, InputsNone
  <1>6. SettlesTo(<< >>, 1, 1)
    <2>1. 1..0 = {}
      OBVIOUS
    <2> QED
      BY <2>1, RangeEmpty DEF SettlesTo
  <1>7. TakenTyped /\ GateInv /\ Controllers
    BY <1>1, <1>2, <1>5, RangeEmpty DEF TakenTyped, GateInv, Controllers
  <1>8. Settling /\ PasswordKept /\ InterruptNext
    BY <1>1, <1>6 DEF Settling, PasswordKept, InterruptNext
  <1> QED
    BY <1>1, <1>3, <1>4, <1>7, <1>8 DEF QueueInv

\* What was taken before needs no second look.
LEMMA TakenStays ==
    ASSUME ControlInv, WireInv, WireInv', [INext]_inputVars, QueueInv,
           \A x \in Taken' : IsInput(x) => x \in Taken \/ TypedIn(x)'
    PROVE  TakenTyped'
  <1>1. ASSUME NEW x \in Taken', IsInput(x), x \in Taken
        PROVE  TypedIn(x)'
    <2>1. x \in Items
      BY <1>1, RangePlaces DEF Taken, QueueInv, Ordered
    <2>2. TypedIn(x)
      BY <1>1 DEF QueueInv, TakenTyped
    <2> QED
      BY <1>1, <2>1, <2>2, TypedInStays
  <1> QED
    BY <1>1 DEF TakenTyped

\* Steps that leave the queue, the writer and the device alone.
LEMMA QueueFrame ==
    ASSUME ControlInv, WireInv, WireInv', [INext]_inputVars, QueueInv,
           UNCHANGED <<controller, rev, gate, stopping, size, writerVars, received, pty>>,
           auth' = auth \/ (auth' = TRUE /\ writer # "absent"),
           open' \in BOOLEAN, open' => open, over => over'
    PROVE  QueueInv'
  <1>1. UNCHANGED <<items, pending, writer, writing, Taken>>
    BY DEF writerVars, Taken
  <1>2. TakenTyped'
    BY <1>1, TakenStays
  <1>3. QueueType'
    BY <1>1 DEF QueueInv, QueueType
  <1>4. GateInv'
    BY <1>1 DEF QueueInv, QueueType, GateInv
  <1>5. Controllers'
    BY <1>1 DEF QueueInv, Controllers, Inputs
  <1>6. Settling'
    BY <1>1 DEF QueueInv, Settling, SettlesTo, LastResize
  <1>7. PasswordKept' /\ InterruptNext'
    BY <1>1 DEF QueueInv, PasswordKept, InterruptNext
  <1>8. Ordered(received', writing', items')
    BY <1>1 DEF QueueInv
  <1> QED
    BY <1>2, <1>3, <1>4, <1>5, <1>6, <1>7, <1>8 DEF QueueInv, Ordered, InLine, Before, Follows

\* An item at the end leaves the first one first.
LEMMA HeadAppend ==
    ASSUME NEW q \in Seq(Items), NEW x \in Items
    PROVE  Append(q, x) # << >> /\ (q # << >> => Head(Append(q, x)) = Head(q))
  <1> DEFINE d == Append(q, x)
             w == Len(q)
  <1>1. d \in Seq(Items) /\ Len(d) = w + 1 /\ w \in Nat /\ \A i \in 1..w : d[i] = q[i]
    OBVIOUS
  <1>2. q # << >> => w >= 1 /\ Head(q) = q[1]
    OBVIOUS
  <1>3. d # << >> /\ Head(d) = d[1]
    BY <1>1
  <1> QED
    BY <1>1, <1>2, <1>3

\* An item nobody typed goes to the end of a queue.
LEMMA UntypedAppend ==
    ASSUME NEW q \in Seq(Items), NEW x \in Items, ~IsInput(x)
    PROVE  /\ Append(q, x) \in Seq(Items) /\ Append(q, x) # << >>
           /\ Range(Append(q, x)) = Range(q) \union {x}
           /\ Cardinality(Inputs(Append(q, x))) = Cardinality(Inputs(q))
           /\ q # << >> => Head(Append(q, x)) = Head(q)
           /\ x.kind # "password" =>
                 \A gone, now : Ordered(gone, now, q) => Ordered(gone, now, Append(q, x))
  <1>1. ASSUME x.kind # "password", NEW gone, NEW now, Ordered(gone, now, q)
        PROVE  Ordered(gone, now, Append(q, x))
    <2>1. \A a : Follows(a, x)
      BY <1>1 DEF Follows
    <2> QED
      BY <1>1, <2>1, OrderedQueues
  <1> QED
    BY <1>1, HeadAppend, RangeAppend, InputsAppend

\* Resizes at the end of the queue: of a page, or of a redraw.
LEMMA QueueResized ==
    ASSUME ControlInv, WireInv, WireInv', [INext]_inputVars, QueueInv,
           NEW more, NEW n \in Int, writer # "absent",
           \/ more = Append(items, Resize(n))
           \/ more = items \o <<Resize(n - 1), Resize(n)>>,
           items' = more, size' = n,
           UNCHANGED <<controller, rev, auth, gate, stopping, over, pending, writer, writing,
                       deviceVars>>
    PROVE  QueueInv'
  <1>0. /\ UNCHANGED <<open, received, pty>> /\ items \in Seq(Items)
        /\ Ordered(received, writing, items)
    BY DEF deviceVars, QueueInv, Ordered
  <1>1. /\ Resize(n) \in Items /\ ~IsInput(Resize(n)) /\ IsResize(Resize(n))
        /\ Resize(n).kind # "password" /\ Resize(n).n = n
        /\ Resize(n - 1) \in Items /\ ~IsInput(Resize(n - 1))
        /\ Resize(n - 1).kind # "password"
    <2>1. n - 1 \in Int
      OBVIOUS
    <2>2. Resize(n) \in Items /\ Resize(n - 1) \in Items
      BY <2>1, ItemTypes
    <2>3. \A k : ~IsInput(Resize(k)) /\ IsResize(Resize(k)) /\ Resize(k).kind # "password"
                 /\ Resize(k).n = k
      BY DEF Resize, Item, IsInput, IsResize
    <2> QED
      BY <2>2, <2>3
  <1>2. PICK q : /\ q \in Seq(Items) /\ more = Append(q, Resize(n))
                 /\ Ordered(received, writing, q)
                 /\ Cardinality(Inputs(q)) = Cardinality(Inputs(items))
                 /\ Range(items) \subseteq Range(q)
                 /\ \A x \in Range(q) : IsInput(x) => x \in Range(items)
                 /\ items # << >> => q # << >> /\ Head(q) = Head(items)
    <2>1. CASE more = Append(items, Resize(n))
      BY <1>0, <2>1
    <2>2. CASE more = items \o <<Resize(n - 1), Resize(n)>>
      <3> DEFINE q == Append(items, Resize(n - 1))
      <3>1. more = Append(q, Resize(n))
        BY <1>0, <1>1, <2>2
      <3>2. /\ q \in Seq(Items) /\ q # << >>
            /\ Ordered(received, writing, q)
            /\ Cardinality(Inputs(q)) = Cardinality(Inputs(items))
            /\ Range(q) = Range(items) \union {Resize(n - 1)}
            /\ items # << >> => Head(q) = Head(items)
        BY <1>0, <1>1, UntypedAppend
      <3> HIDE DEF q
      <3>3. \A x \in Range(q) : IsInput(x) => x \in Range(items)
        BY <1>1, <3>2
      <3> QED
        BY <3>1, <3>2, <3>3
    <2> QED
      BY <2>1, <2>2
  <1>3. /\ items' \in Seq(Items) /\ items' # << >>
        /\ Range(items') = Range(q) \union {Resize(n)}
        /\ Cardinality(Inputs(items')) = Cardinality(Inputs(items))
        /\ items # << >> => Head(items') = Head(items)
        /\ Ordered(received, writing, items')
    BY <1>1, <1>2, UntypedAppend
  <1>4. \A x \in Range(items') : IsInput(x) => x \in Range(items)
    BY <1>1, <1>2, <1>3
  <1>5. \A x \in Taken' : IsInput(x) => x \in Taken
    BY <1>0, <1>4 DEF Taken
  <1>6. TakenTyped'
    BY <1>5, TakenStays
  <1>7. QueueType'
    BY <1>0 DEF QueueInv, QueueType
  <1>8. GateInv'
    BY <1>0, <1>5 DEF QueueInv, GateInv
  <1>9. Controllers'
    BY <1>3, <1>4 DEF QueueInv, Controllers
  <1>10. Settling'
    <2>1. SettlesTo(items', pty', size')
      BY <1>1, <1>2, SettlesAppend
    <2> QED
      BY <2>1 DEF Settling
  <1>11. PasswordKept'
    BY <1>0, <1>2, <1>3 DEF QueueInv, PasswordKept
  <1>12. InterruptNext'
    BY <1>0, <1>3 DEF QueueInv, InterruptNext
  <1>13. Ordered(received', writing', items')
    BY <1>0, <1>3
  <1> QED
    BY <1>6, <1>7, <1>8, <1>9, <1>10, <1>11, <1>12, <1>13 DEF QueueInv

\* The password sudo asks for goes to the end of the queue: nobody's input is in
\* it yet, or on its way to the device.
LEMMA QueueAsked ==
    ASSUME ControlInv, WireInv, WireInv', [INext]_inputVars, QueueInv, AskPassword
    PROVE  QueueInv'
  <1>0. /\ writer # "absent" /\ ~over /\ ~auth
        /\ gate' = "asked" /\ items' = Append(items, Password)
        /\ UNCHANGED <<controller, rev, auth, stopping, over, size, pending, writer, writing,
                       open, received, pty>>
        /\ items \in Seq(Items) /\ Ordered(received, writing, items)
    BY DEF AskPassword, deviceVars, QueueInv, Ordered
  <1>1. Password \in Items /\ ~IsInput(Password) /\ ~IsResize(Password)
    BY ItemTypes DEF Password, Item, IsInput, IsResize
  <1>2. /\ items' # << >> /\ Range(items') = Range(items) \union {Password}
        /\ Cardinality(Inputs(items')) = Cardinality(Inputs(items))
        /\ items # << >> => Head(items') = Head(items)
    BY <1>0, <1>1, UntypedAppend
  <1>3. Ordered(received', writing', items')
    <2>1. \A a \in Taken : Follows(a, Password)
      BY <1>0, <1>1 DEF QueueInv, GateInv, Follows
    <2> QED
      BY <1>0, <1>1, <2>1, OrderedQueues DEF Taken
  <1>4. \A x \in Taken' : IsInput(x) => x \in Taken
    BY <1>0, <1>1, <1>2 DEF Taken
  <1>5. TakenTyped'
    BY <1>4, TakenStays
  <1>6. QueueType'
    BY <1>0 DEF QueueInv, QueueType
  <1>7. GateInv'
    BY <1>0, <1>4 DEF QueueInv, GateInv
  <1>8. Controllers'
    BY <1>0, <1>1, <1>2 DEF QueueInv, Controllers
  <1>9. Settling'
    <2>1. SettlesTo(items, pty, size) => SettlesTo(items', pty, size)
      BY <1>0, <1>1, SettlesAppend
    <2> QED
      BY <1>0, <2>1 DEF QueueInv, Settling
  <1>10. PasswordKept'
    BY <1>2 DEF PasswordKept
  <1>11. InterruptNext'
    BY <1>0, <1>2 DEF QueueInv, InterruptNext
  <1> QED
    BY <1>3, <1>5, <1>6, <1>7, <1>8, <1>9, <1>10, <1>11 DEF QueueInv

\* Ctrl+C goes ahead of the queue.
LEMMA QueueCancelled ==
    ASSUME ControlInv, WireInv, WireInv', [INext]_inputVars, QueueInv, Cancel
    PROVE  QueueInv'
  <1>0. /\ ~over /\ auth /\ stopping' = TRUE /\ items' = <<Interrupt>> \o items
        /\ UNCHANGED <<controller, rev, auth, gate, over, size, pending, writer, writing,
                       open, received, pty>>
        /\ items \in Seq(Items) /\ Ordered(received, writing, items)
    BY DEF Cancel, deviceVars, QueueInv, Ordered
  <1>1. Interrupt \in Items /\ ~IsInput(Interrupt) /\ ~IsResize(Interrupt)
    BY ItemTypes DEF Interrupt, Item, IsInput, IsResize
  <1>2. /\ items' \in Seq(Items) /\ items' # << >>
        /\ Head(items') = Interrupt /\ Tail(items') = items
        /\ Range(items') = {Interrupt} \union Range(items)
    BY <1>0, <1>1, RangeFront
  <1>3. Ordered(received', writing', items')
    BY <1>0, OrderedQueues
  <1>4. \A x \in Taken' : IsInput(x) => x \in Taken
    BY <1>0, <1>1, <1>2 DEF Taken
  <1>5. TakenTyped'
    BY <1>4, TakenStays
  <1>6. QueueType'
    BY <1>0 DEF QueueInv, QueueType
  <1>7. GateInv'
    BY <1>0 DEF QueueInv, GateInv
  <1>8. Controllers'
    <2>1. Cardinality(Inputs(items')) = Cardinality(Inputs(items))
      BY <1>1, <1>2, InputsTail
    <2> QED
      BY <1>0, <1>1, <1>2, <2>1 DEF QueueInv, Controllers
  <1>9. Settling'
    <2>1. SettlesTo(items, pty, size) => SettlesTo(items', pty, size)
      BY <1>0, <1>1, SettlesFront
    <2> QED
      BY <1>0, <2>1 DEF QueueInv, Settling
  <1>10. PasswordKept'
    BY <1>0, <1>2 DEF QueueInv, PasswordKept
  <1>11. InterruptNext'
    BY <1>2 DEF InterruptNext
  <1> QED
    BY <1>3, <1>5, <1>6, <1>7, <1>8, <1>9, <1>10, <1>11 DEF QueueInv

\* A claim clears the input of the tabs before: what is left was typed by nobody.
LEMMA QueueClaimed ==
    ASSUME ControlInv, WireInv, WireInv', [INext]_inputVars, QueueInv,
           NEW s \in Sockets, Claim(s)
    PROVE  QueueInv'
  <1>0. /\ UNCHANGED <<auth, gate, stopping, over, size, writer, writing, open, received, pty>>
        /\ items \in Seq(Items) /\ Ordered(received, writing, items)
    BY DEF Claim, deviceVars, QueueInv, Ordered
  <1>1. CASE over
    <2>1. UNCHANGED <<controller, rev, items, pending>>
      BY <1>1 DEF Claim
    <2> QED
      BY <1>0, <2>1, QueueFrame DEF writerVars, QueueInv, QueueType
  <1>2. CASE ~over
    <2>1. items' = WithoutInput(items) /\ pending' = 0
      BY <1>2 DEF Claim, ClearInput
    <2>2. /\ items' \in Seq(Items)
          /\ Range(items') = {x \in Range(items) : ~IsInput(x)}
          /\ Ordered(received', writing', items')
      BY <1>0, <2>1, RangeKept, OrderedQueues
    <2>3. \A x \in Taken' : x \in Taken
      BY <1>0, <2>2 DEF Taken
    <2>4. TakenTyped'
      BY <2>3, TakenStays
    <2>5. QueueType'
      BY <1>0 DEF QueueInv, QueueType
    <2>6. KeptFrom(items', items, Len(items))
      BY <1>0, <2>1, WithoutInputFacts
    <2>7. GateInv'
      <3>1. ASSUME items = << >>
            PROVE  items' = << >>
        <4>1. Len(items) = 0 /\ 1..0 = {}
          BY <3>1
        <4>2. \A i \in 1..Len(items') : FALSE
          BY <2>6, <4>1 DEF KeptFrom
        <4>3. Len(items') = 0
          BY <2>2, <4>2
        <4> QED
          BY <2>2, <4>3
      <3> QED
        BY <1>0, <2>3, <3>1 DEF QueueInv, GateInv
    <2>8. Controllers'
      <3>1. Cardinality(Inputs(items')) = 0
        BY <2>2, InputsNone
      <3> QED
        BY <2>1, <2>2, <3>1 DEF Controllers
    <2>9. Settling'
      <3>1. SettlesTo(items, pty, size) => SettlesTo(items', pty, size)
        BY <1>0, <2>1, SettlesKept
      <3> QED
        BY <1>0, <3>1 DEF QueueInv, Settling
    <2>10. PasswordKept'
      <3>1. ~IsInput(Password)
        BY DEF Password, Item, IsInput
      <3> QED
        BY <1>0, <2>2, <3>1 DEF QueueInv, PasswordKept
    <2>11. InterruptNext'
      <3>1. ASSUME items # << >>, Head(items) = Interrupt
            PROVE  items' # << >> /\ Head(items') = Interrupt
        <4>1. Len(items) >= 1 /\ items[1] = Interrupt
          BY <1>0, <3>1
        <4>2. ~IsInput(Interrupt)
          BY DEF Interrupt, Item, IsInput
        <4>3. Len(items') >= 1 /\ items'[1] = Interrupt
          BY <2>6, <4>1, <4>2 DEF KeptFrom
        <4> QED
          BY <2>2, <4>3
      <3> QED
        BY <1>0, <3>1 DEF QueueInv, InterruptNext
    <2> QED
      BY <2>2, <2>4, <2>5, <2>7, <2>8, <2>9, <2>10, <2>11 DEF QueueInv
  <1> QED
    BY <1>1, <1>2 DEF ControlInv, ControlType

\* Input that is let in was typed after all that has been let in.
LEMMA QueueTyped ==
    ASSUME ControlInv, WireInv, WireInv', [INext]_inputVars, QueueInv,
           NEW s \in Sockets, Input(s)
    PROVE  QueueInv'
  <1>. PICK m : m = Head(up[s])
    OBVIOUS
  <1>0. /\ UNCHANGED <<controller, rev, auth, gate, stopping, over, size, writer, writing,
                       open, received, pty, typed>>
        /\ up[s] # << >> /\ IsInput(m) /\ up' = [up EXCEPT ![s] = Tail(up[s])]
        /\ items \in Seq(Items) /\ Ordered(received, writing, items)
    BY DEF Input, Consume, runVars, deviceVars, QueueInv, Ordered
  <1>1. /\ up \in [Sockets -> Seq(Items)] /\ up[s] \in Seq(Items)
        /\ up'[s] = Tail(up[s])
        /\ m \in Items /\ m \in Range(up[s])
        /\ Increasing(up[s]) /\ AskedBy(s, m)
    <2>1. up \in [Sockets -> Seq(Items)] /\ up[s] \in Seq(Items) /\ Increasing(up[s])
      BY DEF WireInv, WireType
    <2>2. m \in Items /\ m \in Range(up[s])
      BY <1>0, <2>1, RangeTail
    <2>3. AskedBy(s, m)
      BY <2>2 DEF WireInv
    <2> QED
      BY <1>0, <2>1, <2>2, <2>3
  <1>2. CASE ~(MayInput(s, m) /\ pending < MaxPending)
    <2>1. UNCHANGED <<items, pending>>
      BY <1>2 DEF Input
    <2> QED
      BY <1>0, <2>1, QueueFrame DEF writerVars, QueueInv, QueueType
  <1>3. CASE MayInput(s, m) /\ pending < MaxPending
    <2>0. items' = Append(items, m) /\ pending' = pending + 1
      BY <1>3 DEF Input
    <2>1. /\ ~over /\ controller = SocketId(s) /\ rev = m.rev /\ auth /\ writer # "absent"
      BY <1>3 DEF MayInput
    <2>2. \A y \in Range(Tail(up[s])) : IsInput(y) => m.n < y.n
      BY <1>0, <1>1, IncreasingTail
    <2>3. m.from = s /\ controller = s /\ m.n <= typed /\ m.kind = "input"
      BY <1>0, <1>1, <2>1 DEF AskedBy, IsInput
    <2>4. TypedIn(m)'
      BY <1>0, <1>1, <2>1, <2>2, <2>3 DEF TypedIn, ControlInv, ControlType
    <2>5. /\ items' \in Seq(Items) /\ Range(items') = Range(items) \union {m}
          /\ Cardinality(Inputs(items')) = Cardinality(Inputs(items)) + 1
      BY <1>0, <1>1, <2>0, RangeAppend, InputsAppend
    <2>6. TakenTyped'
      <3>1. \A x \in Taken' : IsInput(x) => x \in Taken \/ TypedIn(x)'
        BY <1>0, <2>4, <2>5 DEF Taken
      <3> QED
        BY <3>1, TakenStays
    <2>7. Ordered(received', writing', items')
      <3>1. ASSUME NEW a \in Taken, IsInput(a)
            PROVE  a.rev < m.rev \/ (a.rev = m.rev /\ a.n < m.n)
        <4>1. TypedIn(a) /\ a \in Items
          BY <3>1, RangePlaces DEF QueueInv, TakenTyped, Taken, Ordered
        <4>2. a.rev \in Nat /\ rev \in Nat
          BY <4>1 DEF Items, ControlInv, ControlType
        <4>3. a.rev = rev => a.n < m.n
          BY <1>0, <1>1, <2>3, <4>1 DEF TypedIn
        <4> QED
          BY <2>1, <4>1, <4>2, <4>3 DEF TypedIn
      <3>2. \A a \in Taken : Follows(a, m)
        BY <2>3, <3>1 DEF Follows
      <3> QED
        BY <1>0, <1>1, <2>0, <3>2, OrderedQueues DEF Taken
    <2>8. QueueType'
      BY <1>0 DEF QueueInv, QueueType
    <2>9. GateInv'
      BY <1>0, <2>1 DEF QueueInv, GateInv
    <2>10. Controllers'
      BY <1>0, <2>0, <2>1, <2>3, <2>5 DEF QueueInv, Controllers
    <2>11. Settling'
      <3>1. SettlesTo(items, pty, size) => SettlesTo(items', pty, size)
        BY <1>0, <1>1, <2>0, <2>3, SettlesAppend DEF IsResize
      <3> QED
        BY <1>0, <3>1 DEF QueueInv, Settling
    <2>12. PasswordKept'
      BY <1>0, <2>5 DEF QueueInv, PasswordKept
    <2>13. InterruptNext'
      <3>1. items # << >> => items' # << >> /\ Head(items') = Head(items)
        BY <1>0, <1>1, <2>0, HeadAppend
      <3> QED
        BY <1>0, <3>1 DEF QueueInv, InterruptNext
    <2> QED
      BY <2>6, <2>7, <2>8, <2>9, <2>10, <2>11, <2>12, <2>13 DEF QueueInv
  <1> QED
    BY <1>2, <1>3

\* A resize that is let in.
LEMMA QueueResizes ==
    ASSUME ControlInv, WireInv, WireInv', [INext]_inputVars, QueueInv,
           NEW s \in Sockets, ResizeRun(s)
    PROVE  QueueInv'
  <1>1. PICK m : m = Head(up[s])
    OBVIOUS
  <1>2. /\ UNCHANGED <<controller, rev, auth, gate, stopping, over, pending, writer, writing,
                       deviceVars>>
        /\ up[s] # << >>
        /\ size' = IF MayInput(s, m) THEN m.n ELSE size
        /\ items' = IF MayInput(s, m) THEN Append(items, Resize(m.n)) ELSE items
    BY <1>1 DEF ResizeRun
  <1>3. CASE ~MayInput(s, m)
    BY <1>2, <1>3, QueueFrame DEF writerVars, deviceVars, QueueInv, QueueType
  <1>4. CASE MayInput(s, m)
    <2>1. m \in Items
      BY <1>1, <1>2, RangeTail DEF WireInv, WireType
    <2>2. m.n \in Int
      BY <2>1 DEF Items
    <2>3. writer # "absent"
      BY <1>4 DEF MayInput
    <2> QED
      BY <1>2, <1>4, <2>2, <2>3, QueueResized
  <1> QED
    BY <1>3, <1>4

\* The writer takes the first item; a resize is done at once.
LEMMA QueueTake ==
    ASSUME ControlInv, WireInv, WireInv', [INext]_inputVars, QueueInv, Take
    PROVE  QueueInv'
  <1>1. PICK item : item = Head(items)
    OBVIOUS
  <1>2. /\ writer = "idle" /\ items # << >> /\ ~over
        /\ items' = Tail(items)
        /\ pending' = IF IsInput(item) THEN pending - 1 ELSE pending
        /\ UNCHANGED <<controller, rev, auth, gate, stopping, over, size, open, received>>
        /\ writing = << >>
        /\ items \in Seq(Items) /\ received \in Seq(Items)
        /\ Ordered(received, writing, items)
    BY <1>1 DEF Take, runVars, QueueInv, QueueType, Ordered
  <1>3. \/ /\ IsResize(item)
           /\ pty' = (IF open THEN item.n ELSE pty) /\ UNCHANGED <<writer, writing>>
        \/ /\ ~IsResize(item)
           /\ writer' = "sending" /\ writing' = <<item>> /\ UNCHANGED pty
    BY <1>1 DEF Take, IsResize
  <1>4. /\ item \in Items /\ items' \in Seq(Items)
        /\ Range(items) = {item} \union Range(items')
        /\ <<item>> \in Seq(Items) /\ Range(<<item>>) = {item} /\ Len(<<item>>) = 1
    <2>1. /\ item \in Items /\ items' \in Seq(Items)
          /\ Range(items) = {item} \union Range(items')
      BY <1>1, <1>2, RangeTail
    <2>2. <<item>> \in Seq(Items) /\ Len(<<item>>) = 1 /\ <<item>>[1] = item
      BY <2>1
    <2> QED
      BY <2>1, <2>2, RangeOne
  <1>5. Ordered(received', writing', items')
    BY <1>1, <1>2, <1>3, OrderedWriter
  <1>6. \A x \in Taken' : x \in Taken
    BY <1>2, <1>3, <1>4 DEF Taken
  <1>7. TakenTyped'
    BY <1>6, TakenStays
  <1>8. QueueType'
    BY <1>2, <1>3, <1>4 DEF QueueInv, QueueType, Items
  <1>9. GateInv'
    BY <1>2, <1>3, <1>6 DEF QueueInv, GateInv
  <1>10. Controllers'
    <2>1. Cardinality(Inputs(items)) = IF IsInput(item) THEN Cardinality(Inputs(items')) + 1
                                       ELSE Cardinality(Inputs(items'))
      BY <1>1, <1>2, InputsTail
    <2>2. Cardinality(Inputs(items')) \in Nat
      BY <1>4, InputsFinite
    <2>3. pending' = Cardinality(Inputs(items'))
      BY <1>2, <2>1, <2>2 DEF QueueInv, Controllers
    <2> QED
      BY <1>2, <1>4, <2>3 DEF QueueInv, Controllers
  <1>11. Settling'
    <2>1. SettlesTo(items, pty, size) =>
              SettlesTo(items', IF IsResize(item) THEN item.n ELSE pty, size)
      BY <1>1, <1>2, SettlesTail
    <2> QED
      BY <1>2, <1>3, <2>1 DEF QueueInv, Settling
  <1>12. PasswordKept'
    <2>1. ~IsResize(Password)
      BY DEF Password, Item, IsResize
    <2> QED
      BY <1>2, <1>3, <1>4, <2>1, RangeEmpty DEF QueueInv, PasswordKept
  <1>13. InterruptNext'
    <2>1. ~IsResize(Interrupt)
      BY DEF Interrupt, Item, IsResize
    <2> QED
      BY <1>1, <1>2, <1>3, <1>4, <2>1, RangeEmpty DEF QueueInv, InterruptNext
  <1> QED
    BY <1>5, <1>7, <1>8, <1>9, <1>10, <1>11, <1>12, <1>13 DEF QueueInv

\* The device takes what the writer sends.
LEMMA QueueSent ==
    ASSUME ControlInv, WireInv, WireInv', [INext]_inputVars, QueueInv, Sent
    PROVE  QueueInv'
  <1>1. /\ writer = "sending" /\ open
        /\ received' = received \o writing /\ writing' = << >> /\ writer' = "idle"
        /\ UNCHANGED <<controller, rev, auth, gate, stopping, over, size, items, pending,
                       open, pty>>
        /\ received \in Seq(Items) /\ writing \in Seq(Items) /\ Len(writing) = 1
        /\ Ordered(received, writing, items)
    BY DEF Sent, runVars, QueueInv, QueueType, Ordered
  <1>2. PICK x \in Items : writing = <<x>> /\ Range(writing) = {x}
    BY <1>1, RangeOne
  <1>3. Range(received') = Range(received) \union Range(writing)
    <2>1. received' = Append(received, x)
      BY <1>1, <1>2
    <2>2. Range(Append(received, x)) = Range(received) \union {x}
      BY <1>1, RangeAppend
    <2> QED
      BY <1>2, <2>1, <2>2
  <1>4. Ordered(received', writing', items')
    BY <1>1, OrderedWriter
  <1>5. Taken' = Taken
    BY <1>1, <1>3, RangeEmpty DEF Taken
  <1>6. TakenTyped'
    BY <1>5, TakenStays
  <1>7. QueueType'
    BY <1>1 DEF QueueInv, QueueType
  <1>8. GateInv' /\ Controllers' /\ Settling'
    BY <1>1, <1>5 DEF QueueInv, GateInv, Controllers, Settling
  <1>9. PasswordKept' /\ InterruptNext'
    BY <1>1, <1>3 DEF QueueInv, PasswordKept, InterruptNext
  <1> QED
    BY <1>4, <1>6, <1>7, <1>8, <1>9 DEF QueueInv

\* The writer gives up, or ends; a writer starts; the run ends.
LEMMA QueueEnds ==
    ASSUME ControlInv, WireInv, WireInv', [INext]_inputVars, QueueInv,
           SendFails \/ WriterEnds \/ StartWriter \/ Finish
    PROVE  QueueInv'
  <1>1. /\ UNCHANGED <<controller, rev, auth, gate, stopping, size, received, pty>>
        /\ open' \in BOOLEAN /\ (open' => open)
        /\ Ordered(received, writing, items)
    <2>1. Ordered(received, writing, items) /\ open \in BOOLEAN
      BY DEF QueueInv, QueueType
    <2>2. UNCHANGED <<controller, rev, auth, gate, stopping, size, received, pty>>
      BY DEF SendFails, WriterEnds, StartWriter, Finish, runVars, deviceVars
    <2>3. open' = open \/ open' = FALSE
      BY DEF SendFails, WriterEnds, StartWriter, Finish, deviceVars
    <2>4. open' \in BOOLEAN /\ (open' => open)
      <3>1. CASE open' = open
        BY <2>1, <2>3, <3>1
      <3>2. CASE open' = FALSE
        BY <3>2
      <3> QED
        BY <2>1, <2>3, <3>1, <3>2
    <2> QED
      BY <2>1, <2>2, <2>4
  <1>2. CASE SendFails
    <2>1. /\ writer = "sending" /\ writer' = "ended" /\ writing' = << >> /\ open' = FALSE
          /\ UNCHANGED <<items, pending, over>>
      BY <1>2 DEF SendFails, runVars
    <2>2. Ordered(received', writing', items')
      BY <1>1, <2>1, OrderedQueues
    <2>3. \A x \in Taken' : x \in Taken
      BY <1>1, <2>1, RangeEmpty DEF Taken
    <2>4. TakenTyped'
      BY <2>3, TakenStays
    <2>5. QueueType'
      BY <1>1, <2>1 DEF QueueInv, QueueType
    <2>6. GateInv' /\ Controllers' /\ Settling'
      BY <1>1, <2>1, <2>3 DEF QueueInv, GateInv, Controllers, Settling
    <2>7. PasswordKept' /\ InterruptNext'
      BY <2>1 DEF PasswordKept, InterruptNext
    <2> QED
      BY <2>2, <2>4, <2>5, <2>6, <2>7 DEF QueueInv
  <1>3. CASE WriterEnds \/ StartWriter
    <2>1. /\ UNCHANGED <<items, pending, writing, over, open>>
          /\ \/ writer = "idle" /\ writer' = "ended"
             \/ writer = "absent" /\ writer' = "idle"
          /\ writing = << >>
      BY <1>3 DEF WriterEnds, StartWriter, runVars, deviceVars, QueueInv, QueueType
    <2>2. UNCHANGED Taken
      BY <1>1, <2>1 DEF Taken
    <2>3. TakenTyped'
      BY <2>2, TakenStays
    <2>4. QueueType'
      BY <1>1, <2>1 DEF QueueInv, QueueType
    <2>5. GateInv'
      BY <1>1, <2>1, <2>2 DEF QueueInv, GateInv
    <2>6. Controllers'
      BY <1>1, <2>1 DEF QueueInv, Controllers
    <2>7. Settling'
      BY <1>1, <2>1 DEF QueueInv, Settling
    <2>8. PasswordKept' /\ InterruptNext'
      BY <1>1, <2>1 DEF QueueInv, PasswordKept, InterruptNext
    <2>9. Ordered(received', writing', items')
      BY <1>1, <2>1
    <2> QED
      BY <2>3, <2>4, <2>5, <2>6, <2>7, <2>8, <2>9 DEF QueueInv
  <1>4. CASE Finish
    <2>1. /\ ~open /\ over' = TRUE /\ items' = << >> /\ pending' = 0
          /\ UNCHANGED <<writer, writing, open>>
      BY <1>4 DEF Finish, deviceVars
    <2>2. Ordered(received', writing', items')
      BY <1>1, <2>1, OrderedQueues
    <2>3. \A x \in Taken' : x \in Taken
      BY <1>1, <2>1, RangeEmpty DEF Taken
    <2>4. TakenTyped'
      BY <2>3, TakenStays
    <2>5. QueueType'
      BY <1>1, <2>1 DEF QueueInv, QueueType
    <2>6. GateInv'
      BY <1>1, <2>1, <2>3 DEF QueueInv, GateInv
    <2>7. Controllers'
      <3>1. Cardinality(Inputs(<< >>)) = 0
        BY RangeEmpty, InputsNone
      <3> QED
        BY <2>1, <3>1, RangeEmpty DEF Controllers
    <2>8. Settling' /\ PasswordKept' /\ InterruptNext'
      BY <2>1 DEF Settling, PasswordKept, InterruptNext
    <2> QED
      BY <2>2, <2>4, <2>5, <2>6, <2>7, <2>8 DEF QueueInv
  <1> QED
    BY <1>2, <1>3, <1>4

\* Every step keeps it.
LEMMA QueueStep ==
    ControlInv /\ WireInv /\ WireInv' /\ QueueInv /\ [INext]_inputVars => QueueInv'
  <1> SUFFICES ASSUME ControlInv, WireInv, WireInv', QueueInv, [INext]_inputVars
               PROVE  QueueInv'
    OBVIOUS
  <1>0. open \in BOOLEAN
    BY DEF QueueInv, QueueType
  <1>1. CASE \E s \in Sockets : PageClaim(s) \/ PageBlur(s) \/ PageType(s) \/ PageLearns(s)
    <2>1. UNCHANGED <<runVars, writerVars, deviceVars>>
      BY <1>1 DEF PageClaim, PageBlur, PageType, PageLearns
    <2> QED
      BY <1>0, <2>1, QueueFrame DEF runVars, deviceVars
  <1>2. CASE \E s \in Sockets : \/ Drop(s) \/ Leave(s)
                                \/ \E n \in 1..MaxSize : PageResize(s, n)
    <2>1. UNCHANGED <<runVars, writerVars, deviceVars>>
      BY <1>2 DEF Drop, Leave, PageResize
    <2> QED
      BY <1>0, <2>1, QueueFrame DEF runVars, deviceVars
  <1>3. CASE \E s \in Sockets : \E fullscreen \in BOOLEAN : Open(s, fullscreen)
    <2>1. PICK s \in Sockets, fullscreen \in BOOLEAN : Open(s, fullscreen)
      BY <1>3
    <2>2. UNCHANGED <<runVars, pending, writer, writing, deviceVars>> /\ size \in Int
      BY <2>1 DEF Open, QueueInv, QueueType
    <2>3. CASE fullscreen /\ ~over /\ writer # "absent"
      <3>1. items' = items \o <<Resize(size - 1), Resize(size)>>
        BY <2>1, <2>3 DEF Open
      <3>2. QueueInv'
        BY <2>2, <2>3, <3>1, QueueResized DEF runVars
      <3> QED
        BY <3>2
    <2>4. CASE ~(fullscreen /\ ~over /\ writer # "absent")
      <3>1. items' = items
        BY <2>1, <2>4 DEF Open
      <3> QED
        BY <1>0, <2>2, <3>1, QueueFrame DEF runVars, writerVars, deviceVars
    <2> QED
      BY <2>3, <2>4
  <1>4. CASE \E s \in Sockets : Claim(s)
    BY <1>4, QueueClaimed
  <1>5. CASE \E s \in Sockets : Input(s)
    BY <1>5, QueueTyped
  <1>6. CASE \E s \in Sockets : ResizeRun(s)
    BY <1>6, QueueResizes
  <1>7. CASE Cancel
    BY <1>7, QueueCancelled
  <1>8. CASE AskPassword
    BY <1>8, QueueAsked
  <1>9. CASE PassGate \/ CloseChannel
    <2>1. /\ UNCHANGED <<controller, rev, gate, stopping, over, size, writerVars, received, pty>>
          /\ \/ UNCHANGED open /\ auth' = TRUE /\ writer # "absent"
             \/ UNCHANGED auth /\ open' = FALSE
      BY <1>9 DEF PassGate, CloseChannel, runVars, deviceVars
    <2>2. open' \in BOOLEAN /\ (open' => open)
      <3>1. CASE open' = open
        BY <1>0, <2>1, <3>1
      <3>2. CASE open' = FALSE
        BY <3>2
      <3> QED
        BY <1>0, <2>1, <3>1, <3>2
    <2> QED
      BY <2>1, <2>2, QueueFrame
  <1>10. CASE Take
    BY <1>10, QueueTake
  <1>11. CASE Sent
    BY <1>11, QueueSent
  <1>12. CASE SendFails \/ WriterEnds \/ StartWriter \/ Finish
    BY <1>12, QueueEnds
  <1>13. CASE UNCHANGED inputVars
    BY <1>0, <1>13, QueueFrame DEF inputVars, runVars, writerVars, deviceVars
  <1> QED
    BY <1>1, <1>2, <1>3, <1>4, <1>5, <1>6, <1>7, <1>8, <1>9, <1>10, <1>11, <1>12, <1>13
       DEF INext, Handle, Writer

\* The inductive invariant of the terminal's input.
THEOREM InputInvariant == ISpec => [](ControlInv /\ WireInv /\ QueueInv)
  BY ControlInit, ControlStep, WireInit, WireStep, QueueInit, QueueStep, PTL DEF ISpec

\* Whatever tabs claim, type and leave: what waits to be written was typed by the
\* tab in control since its last claim, and the bytes pending are those.
THEOREM ControllersType == ISpec => []OnlyControllers
  <1>1. QueueInv => OnlyControllers
    <2> SUFFICES ASSUME QueueInv
                 PROVE  OnlyControllers
      OBVIOUS
    <2>1. items \in Seq(Items)
      BY DEF QueueInv, Ordered
    <2>2. \A i \in 1..Len(items) : items[i] \in Range(items)
      BY <2>1, RangePlaces
    <2> QED
      BY <2>2 DEF QueueInv, Controllers, OnlyControllers, Inputs
  <1> QED
    BY <1>1, InputInvariant, PTL

\* The device gets the input of one tab after that of the other, each in the order
\* typed, and none of it before the password of sudo.
THEOREM DeviceInOrder == ISpec => []InOrder
  <1>1. QueueInv => InOrder
    <2> SUFFICES ASSUME QueueInv, NEW i \in 1..Len(received), NEW j \in 1..Len(received)
                 PROVE  /\ i < j /\ IsInput(received[i]) /\ IsInput(received[j]) =>
                             \/ received[i].rev < received[j].rev
                             \/ /\ received[i].rev = received[j].rev
                                /\ received[i].n < received[j].n
                        /\ received[i].kind = "password" /\ IsInput(received[j]) => i < j
      BY DEF InOrder
    <2>1. InLine(received) /\ received \in Seq(Items)
      BY DEF QueueInv, Ordered
    <2>2. i < j => Follows(received[i], received[j])
      BY <2>1 DEF InLine
    <2>3. j < i => Follows(received[j], received[i])
      BY <2>1 DEF InLine
    <2>4. ASSUME received[i].kind = "password", IsInput(received[j])
          PROVE  i < j
      <3>1. i # j
        BY <2>4 DEF IsInput
      <3>2. ~(j < i)
        BY <2>3, <2>4 DEF Follows
      <3>3. i \in Nat /\ j \in Nat
        OBVIOUS
      <3> QED
        BY <3>1, <3>2, <3>3
    <2> QED
      BY <2>2, <2>4 DEF Follows
  <1> QED
    BY <1>1, InputInvariant, PTL

\* Whatever resizes and redraws are queued, once they are done the device's
\* terminal has the size the session remembers.
THEOREM SizesSettle == ISpec => []SizeSettles
  <1>1. QueueInv => SizeSettles
    <2> SUFFICES ASSUME QueueInv, open, writer # "ended", ~over
                 PROVE  LET resizes == {i \in 1..Len(items) : items[i].kind = "resize"}
                        IN  size = IF resizes = {} THEN pty ELSE items[Max(resizes)].n
      BY DEF SizeSettles
    <2>1. items \in Seq(Items) /\ SettlesTo(items, pty, size)
      BY DEF QueueInv, Ordered, Settling
    <2> QED
      BY <2>1, SettlesMax
  <1> QED
    BY <1>1, InputInvariant, PTL

\* A password sudo waits for is never lost on the way to an open channel.
THEOREM PasswordIsKept == ISpec => []PasswordKept
  BY InputInvariant, PTL DEF QueueInv

\* A Ctrl+C is what is written next.
THEOREM InterruptIsNext == ISpec => []InterruptNext
  BY InputInvariant, PTL DEF QueueInv
=============================================================================
