---------------------------- MODULE OutputProofs ----------------------------
(***************************************************************************)
(* What holds of the way a command's output takes to a page, for chunks,   *)
(* batches and messages of any size and number. Of DeliveryQueue: its      *)
(* types, that the drain task never sleeps on a queue that holds messages, *)
(* that the queue implements the line of Handoff, and that the bytes       *)
(* counted are those of the messages in it. Of TerminalText: that the sudo *)
(* gate does with chunks what it would do with all the output at once, and *)
(* that the history and the batcher hold between them every character      *)
(* there is to show.                                                       *)
(***************************************************************************)
EXTENDS DeliveryQueue, TerminalText, SequenceTheorems, FiniteSetTheorems,
        WellFoundedInduction, TLAPS

-----------------------------------------------------------------------------
(* The queue: sequences. *)

\* An element joins a concatenation at its end.
LEMMA AppendBehind ==
  ASSUME NEW S, NEW s \in Seq(S), NEW t \in Seq(S), NEW x \in S
  PROVE  s \o Append(t, x) = Append(s \o t, x)
  OBVIOUS

\* A one-element sequence in front of another one is its head.
LEMMA FirstOfOne ==
  ASSUME NEW S, NEW s \in Seq(S), Len(s) = 1, NEW t \in Seq(S), NEW u \in Seq(S)
  PROVE  /\ s \o t # << >>
         /\ Head(s \o t) = s[1]
         /\ Tail(s \o t) = t
         /\ u \o s = Append(u, s[1])
  <1>1. s[1] \in S
    OBVIOUS
  <1>2. /\ s \o t \in Seq(S)
        /\ Len(s \o t) = 1 + Len(t)
        /\ \A i \in 1 .. 1 + Len(t) : (s \o t)[i] = IF i <= 1 THEN s[i] ELSE t[i - 1]
    <2>1. /\ s \o t \in Seq(S)
          /\ Len(s \o t) = Len(s) + Len(t)
          /\ \A i \in 1 .. Len(s) + Len(t) :
                (s \o t)[i] = IF i <= Len(s) THEN s[i] ELSE t[i - Len(s)]
      BY ConcatProperties
    <2> QED
      BY <2>1
  <1>3. s \o t # << >>
    BY <1>2
  <1>4. Head(s \o t) = s[1]
    BY <1>2, <1>3
  <1>5. Tail(s \o t) = t
    <2>1. Tail(s \o t) \in Seq(S) /\ Len(Tail(s \o t)) = Len(t)
      BY <1>2, <1>3
    <2>2. ASSUME NEW i \in 1..Len(t)
          PROVE  Tail(s \o t)[i] = t[i]
      <3>1. Tail(s \o t)[i] = (s \o t)[i + 1]
        BY <1>2, <1>3, <2>1
      <3> QED
        BY <1>2, <3>1
    <2> QED
      BY <2>1, <2>2, SeqEqual
  <1>6. u \o s = Append(u, s[1])
    <2>1. s = <<s[1]>>
      BY <1>1, SeqEqual
    <2> QED
      BY <1>1, <2>1, AppendIsConcat
  <1> QED
    BY <1>3, <1>4, <1>5, <1>6

\* The head of a sequence and the rest of it make the sequence.
LEMMA HeadMoved ==
  ASSUME NEW S, NEW s \in Seq(S), s # << >>
  PROVE  /\ <<Head(s)>> \in Seq(S) /\ Len(<<Head(s)>>) = 1
         /\ Head(s) \in S /\ Tail(s) \in Seq(S)
         /\ <<Head(s)>> \o Tail(s) = s
  OBVIOUS

-----------------------------------------------------------------------------
(* The queue: types and the wake-up. *)

\* The size of a message is a number.
LEMMA ItemSize ==
  ASSUME NEW item \in Items
  PROVE  item.size \in Int
  <1>1. Sizes \subseteq Nat
    BY DeliveryAssumption
  <1>2. item.size \in Sizes
    BY DEF Items
  <1>3. item.size \in Nat
    BY <1>1, <1>2
  <1> QED
    BY <1>3

\* Enqueueing a message keeps the types of what it changes.
LEMMA EnqueueType ==
  ASSUME DTypeOK, NEW item \in Items, Enqueue(item)
  PROVE  queue' \in Seq(Items) /\ bytes' \in Int /\ wakeup' \in BOOLEAN
  <1>1. item.size \in Int
    BY ItemSize
  <1> QED
    BY <1>1 DEF DTypeOK, Enqueue

\* The initial state is typed, and nothing waits in it.
LEMMA InitType == DInit => DTypeOK /\ NoLostWakeup
  <1> SUFFICES ASSUME DInit PROVE DTypeOK /\ NoLostWakeup
    OBVIOUS
  <1>1. (CHOOSE size \in Sizes : TRUE) \in Sizes
    BY DeliveryAssumption
  <1>2. queue \in Seq(Items) /\ inFlight \in Seq(Items) /\ handed \in Seq(Items) /\ Len(inFlight) = 0
    BY DEF DInit
  <1>3. bytes \in Int
    BY DEF DInit
  <1>4. offered \in [Workers -> Sizes]
    BY <1>1 DEF DInit
  <1>5. sent \in [Senders -> 0..(MaxBatches + MaxNotices)]
    BY DeliveryAssumption DEF DInit
  <1>6. /\ event \in BOOLEAN /\ wakeup \in BOOLEAN /\ shutdown \in BOOLEAN
        /\ cancelling \in BOOLEAN
        /\ current \in [Workers -> BOOLEAN]
    BY DEF DInit
  <1>7. /\ drain \in {"wait", "take", "deliver", "yield", "ended"} /\ drain # "deliver"
        /\ worker \in [Workers -> {"idle", "offering", "ended"}]
    BY DEF DInit
  <1>8. DTypeOK
    BY <1>2, <1>3, <1>4, <1>5, <1>6, <1>7 DEF DTypeOK
  <1>9. NoLostWakeup
    BY DEF DInit, NoLostWakeup
  <1> QED
    BY <1>8, <1>9

\* The steps of the threads that push.
LEMMA ProducerType ==
  ASSUME DTypeOK,
         \/ \E size \in Sizes : Push(size)
         \/ \E w \in Workers, size \in Sizes : Offer(w, size)
         \/ \E w \in Workers : Admit(w) \/ GiveUp(w) \/ Replace(w)
  PROVE  DTypeOK'
  <1> USE DEF DTypeOK, loopVars
  <1>1. MaxBatches \in Nat /\ MaxNotices \in Nat
    BY DeliveryAssumption
  <1>2. ASSUME NEW size \in Sizes, Push(size)
        PROVE  DTypeOK'
    <2>1. Notice \in Senders /\ sent[Notice] \in 0..(MaxBatches + MaxNotices)
      BY DEF Senders
    <2>2. sent' \in [Senders -> 0..(MaxBatches + MaxNotices)]
      BY <1>1, <1>2, <2>1 DEF Push
    <2>3. [from |-> Notice, nr |-> sent[Notice] + 1, size |-> size] \in Items
      BY <1>1, <1>2, <2>1 DEF Push, Items
    <2>4. queue' \in Seq(Items) /\ bytes' \in Int /\ wakeup' \in BOOLEAN
      <3>1. CASE shutdown
        BY <1>2, <3>1 DEF Push
      <3>2. CASE ~shutdown
        BY <1>2, <2>3, <3>2, EnqueueType DEF Push
      <3> QED
        BY <3>1, <3>2
    <2> QED
      BY <1>2, <2>2, <2>4 DEF Push
  <1>3. ASSUME NEW w \in Workers, NEW size \in Sizes, Offer(w, size)
        PROVE  DTypeOK'
    <2>1. w \in Senders /\ sent[w] \in 0..(MaxBatches + MaxNotices)
      BY DEF Senders
    <2>2. sent' \in [Senders -> 0..(MaxBatches + MaxNotices)]
      BY <1>1, <1>3, <2>1 DEF Offer
    <2>3. worker' \in [Workers -> {"idle", "offering", "ended"}] /\ offered' \in [Workers -> Sizes]
      BY <1>3 DEF Offer
    <2> QED
      BY <1>3, <2>2, <2>3 DEF Offer
  <1>4. ASSUME NEW w \in Workers, Admit(w)
        PROVE  DTypeOK'
    <2>1. [from |-> w, nr |-> sent[w], size |-> offered[w]] \in Items
      BY DEF Items, Senders
    <2>2. queue' \in Seq(Items) /\ bytes' \in Int /\ wakeup' \in BOOLEAN
      BY <1>4, <2>1, EnqueueType DEF Admit
    <2>3. worker' \in [Workers -> {"idle", "offering", "ended"}]
      BY <1>4 DEF Admit
    <2> QED
      BY <1>4, <2>2, <2>3 DEF Admit
  <1>5. ASSUME NEW w \in Workers, GiveUp(w)
        PROVE  DTypeOK'
    BY <1>5 DEF GiveUp
  <1>6. ASSUME NEW w \in Workers, Replace(w)
        PROVE  DTypeOK'
    BY <1>6 DEF Replace
  <1> HIDE DEF DTypeOK
  <1> QED
    BY <1>2, <1>3, <1>4, <1>5, <1>6

\* The steps of the event loop.
LEMMA LoopType ==
  ASSUME DTypeOK, SetEvent \/ DrainTask \/ Shutdown \/ CancelDrain
  PROVE  DTypeOK'
  <1> USE DEF DTypeOK, loopVars
  <1>1. CASE SetEvent
    BY <1>1 DEF SetEvent
  <1>2. CASE Wake \/ Resume
    BY <1>2 DEF Wake, Resume
  <1>3. CASE Take
    <2>1. CASE queue = << >>
      BY <1>3, <2>1 DEF Take
    <2>2. CASE queue # << >>
      <3>1. Head(queue).size \in Int
        <4>1. Head(queue) \in Items
          BY <2>2, HeadMoved
        <4> QED
          BY <4>1, ItemSize
      <3>2. /\ inFlight' \in Seq(Items) /\ Len(inFlight') = 1
            /\ queue' \in Seq(Items)
        BY <1>3, <2>2, HeadMoved DEF Take
      <3>3. bytes' \in Int /\ drain' = "deliver"
        BY <1>3, <2>2, <3>1 DEF Take
      <3> QED
        BY <1>3, <2>2, <3>2, <3>3 DEF Take
    <2> QED
      BY <2>1, <2>2
  <1>4. ASSUME NEW ok \in BOOLEAN, Deliver(ok)
        PROVE  DTypeOK'
    <2>1. handed' \in Seq(Items)
      BY <1>4, ConcatProperties DEF Deliver
    <2>2. inFlight' \in Seq(Items) /\ Len(inFlight') = 0 /\ drain' = "yield"
      BY <1>4 DEF Deliver
    <2> QED
      BY <1>4, <2>1, <2>2 DEF Deliver
  <1>5. CASE Shutdown
    BY <1>5 DEF Shutdown
  <1>6. CASE CancelDrain
    <2>1. inFlight' \in Seq(Items) /\ Len(inFlight') = 0 /\ drain' = "ended"
      BY <1>6 DEF CancelDrain
    <2>2. cancelling' \in BOOLEAN
      BY <1>6 DEF CancelDrain
    <2>3. UNCHANGED <<queue, bytes, event, wakeup, handed, shutdown, worker, offered, current, sent>>
      BY <1>6 DEF CancelDrain
    <2> QED
      BY <2>1, <2>2, <2>3
  <1> HIDE DEF DTypeOK
  <1> QED
    BY <1>1, <1>2, <1>3, <1>4, <1>5, <1>6 DEF DrainTask

\* Every step keeps the types.
LEMMA NextType ==
  ASSUME DTypeOK, [DNext]_deliveryVars
  PROVE  DTypeOK'
  <1>1. CASE UNCHANGED deliveryVars
    BY <1>1 DEF deliveryVars, loopVars, DTypeOK
  <1> QED
    BY <1>1, ProducerType, LoopType DEF DNext

\* Every step keeps a wake-up for what is queued.
LEMMA NextWakeup ==
  ASSUME DTypeOK, NoLostWakeup, [DNext]_deliveryVars
  PROVE  NoLostWakeup'
  <1> USE DEF NoLostWakeup, loopVars
  <1>1. ASSUME NEW item, Enqueue(item), UNCHANGED <<event, drain>>
        PROVE  NoLostWakeup'
    BY <1>1 DEF Enqueue
  <1>2. ASSUME NEW size \in Sizes, Push(size)
        PROVE  NoLostWakeup'
    BY <1>1, <1>2 DEF Push
  <1>3. ASSUME NEW w \in Workers, Admit(w)
        PROVE  NoLostWakeup'
    BY <1>1, <1>3 DEF Admit
  <1>4. CASE UNCHANGED <<queue, event, wakeup, drain>>
    BY <1>4
  <1>5. CASE SetEvent \/ DrainTask \/ CancelDrain
    BY <1>5 DEF SetEvent, DrainTask, Wake, Take, Deliver, Resume, CancelDrain
  <1>6. CASE \/ \E w \in Workers, size \in Sizes : Offer(w, size)
             \/ \E w \in Workers : GiveUp(w) \/ Replace(w)
             \/ Shutdown
             \/ UNCHANGED deliveryVars
    BY <1>4, <1>6 DEF Offer, GiveUp, Replace, Shutdown, deliveryVars
  <1> HIDE DEF NoLostWakeup
  <1> QED
    BY <1>2, <1>3, <1>5, <1>6 DEF DNext

\* A queue that holds messages never finds the drain task asleep with no
\* wake-up on its way (push, push_terminal, _drain).
THEOREM WakeupNotLost == DSpec => [](DTypeOK /\ NoLostWakeup)
  <1>1. DTypeOK /\ NoLostWakeup /\ [DNext]_deliveryVars => (DTypeOK /\ NoLostWakeup)'
    BY NextType, NextWakeup
  <1> QED
    BY <1>1, InitType, PTL DEF DSpec

-----------------------------------------------------------------------------
(* The queue: it implements the line of Handoff. *)

\* The queue starts out as an empty line.
LEMMA InitLine == DInit => Line!HInit
  <1> SUFFICES ASSUME DInit PROVE Line!HInit
    OBVIOUS
  <1>1. inFlight \o queue = << >>
    BY DEF DInit
  <1> QED
    BY <1>1 DEF DInit, Line!HInit

\* Enqueueing a message accepts it at the end of the line.
LEMMA EnqueueAccepts ==
  ASSUME DTypeOK, ~shutdown, NEW item \in Items, Enqueue(item),
         UNCHANGED <<inFlight, handed, shutdown>>
  PROVE  Line!Accept(item)
  <1>1. (inFlight \o queue)' = Append(inFlight \o queue, item)
    <2>1. inFlight \in Seq(Items) /\ queue \in Seq(Items)
      BY DEF DTypeOK
    <2>2. inFlight \o Append(queue, item) = Append(inFlight \o queue, item)
      BY <2>1, AppendBehind
    <2> QED
      BY <2>2 DEF Enqueue
  <1> QED
    BY <1>1 DEF Line!Accept

\* Every step is one of the line, or changes nothing of it.
LEMMA NextLine ==
  ASSUME DTypeOK, [DNext]_deliveryVars
  PROVE  [Line!HNext]_(Line!lineVars)
  <1> USE DEF loopVars, Line!lineVars, Line!HNext
  <1>1. inFlight \in Seq(Items) /\ queue \in Seq(Items) /\ handed \in Seq(Items)
    BY DEF DTypeOK
  <1>2. ASSUME UNCHANGED <<inFlight, queue, handed, shutdown>>
        PROVE  UNCHANGED Line!lineVars
    BY <1>2
  <1>3. ASSUME NEW size \in Sizes, Push(size)
        PROVE  [Line!HNext]_(Line!lineVars)
    <2>1. CASE shutdown
      BY <1>2, <1>3, <2>1 DEF Push
    <2>2. CASE ~shutdown
      <3>1. [from |-> Notice, nr |-> sent[Notice] + 1, size |-> size] \in Items
        <4>1. sent[Notice] \in 0..(MaxBatches + MaxNotices) /\ MaxBatches \in Nat /\ MaxNotices \in Nat
          BY DeliveryAssumption DEF DTypeOK, Senders
        <4> QED
          BY <1>3, <4>1 DEF Push, Items, Senders
      <3> QED
        BY <1>3, <2>2, <3>1, EnqueueAccepts DEF Push
    <2> QED
      BY <2>1, <2>2
  <1>4. ASSUME NEW w \in Workers, Admit(w)
        PROVE  [Line!HNext]_(Line!lineVars)
    <2>1. [from |-> w, nr |-> sent[w], size |-> offered[w]] \in Items
      BY DEF DTypeOK, Items, Senders
    <2>2. ~shutdown
      BY <1>4 DEF Admit, Stopped
    <2> QED
      BY <1>4, <2>1, <2>2, EnqueueAccepts DEF Admit
  <1>5. CASE Take
    <2>1. CASE queue = << >>
      BY <1>2, <1>5, <2>1 DEF Take
    <2>2. CASE queue # << >>
      <3>1. inFlight = << >>
        BY <1>1, <1>5 DEF DTypeOK, Take
      <3>2. (inFlight \o queue)' = inFlight \o queue
        <4>1. inFlight' = <<Head(queue)>> /\ queue' = Tail(queue)
          BY <1>5, <2>2 DEF Take
        <4>2. <<Head(queue)>> \o Tail(queue) = queue
          BY <1>1, <2>2, HeadMoved
        <4>3. inFlight \o queue = queue
          BY <1>1, <3>1
        <4> QED
          BY <4>1, <4>2, <4>3
      <3> QED
        BY <1>5, <3>2 DEF Take
    <2> QED
      BY <2>1, <2>2
  <1>6. ASSUME NEW ok \in BOOLEAN, Deliver(ok)
        PROVE  [Line!HNext]_(Line!lineVars)
    <2>1. Len(inFlight) = 1
      BY <1>6 DEF DTypeOK, Deliver
    <2>2. /\ inFlight \o queue # << >>
          /\ Head(inFlight \o queue) = inFlight[1]
          /\ Tail(inFlight \o queue) = queue
          /\ handed \o inFlight = Append(handed, inFlight[1])
      BY <1>1, <2>1, FirstOfOne
    <2>3. (inFlight \o queue)' = queue
      BY <1>1, <1>6 DEF Deliver
    <2>4. CASE ok
      <3>1. Line!Hand
        BY <1>6, <2>2, <2>3, <2>4 DEF Deliver, Line!Hand
      <3> QED
        BY <3>1
    <2>5. CASE ~ok
      <3>1. Line!Drop
        BY <1>6, <2>2, <2>3, <2>5 DEF Deliver, Line!Drop
      <3> QED
        BY <3>1
    <2> QED
      BY <2>4, <2>5
  <1>7. CASE Shutdown
    <2>1. Line!CloseLine
      BY <1>7 DEF Shutdown, Line!CloseLine
    <2> QED
      BY <2>1
  <1>8. CASE CancelDrain
    <2>1. (inFlight \o queue)' = queue
      BY <1>1, <1>8 DEF CancelDrain
    <2>2. CASE drain = "deliver"
      <3>1. Len(inFlight) = 1
        BY <2>2 DEF DTypeOK
      <3>2. inFlight \o queue # << >> /\ Tail(inFlight \o queue) = queue
        BY <1>1, <3>1, FirstOfOne
      <3>3. Line!Drop
        BY <1>8, <2>1, <3>2 DEF CancelDrain, Line!Drop
      <3> QED
        BY <3>3
    <2>3. CASE drain # "deliver"
      <3>1. inFlight = << >>
        BY <1>1, <2>3 DEF DTypeOK
      <3>2. inFlight \o queue = queue
        BY <1>1, <3>1
      <3> QED
        BY <1>8, <2>1, <3>2 DEF CancelDrain
    <2> QED
      BY <2>2, <2>3
  <1>9. CASE \/ \E w \in Workers, size \in Sizes : Offer(w, size)
             \/ \E w \in Workers : GiveUp(w) \/ Replace(w)
             \/ SetEvent \/ Wake \/ Resume
             \/ UNCHANGED deliveryVars
    <2>1. UNCHANGED <<inFlight, queue, handed, shutdown>>
      BY <1>9 DEF Offer, GiveUp, Replace, SetEvent, Wake, Resume, deliveryVars
    <2> QED
      BY <1>2, <2>1
  <1> HIDE DEF Line!HNext, Line!lineVars
  <1> QED
    BY <1>3, <1>4, <1>5, <1>6, <1>7, <1>8, <1>9 DEF DNext, DrainTask

\* Messages leave in the order in which they were accepted, each at most once,
\* and none is accepted after shutdown (delivery_queue.py).
THEOREM QueueImplementsHandoff == DSpec => ImplementsHandoff
  <1>1. DTypeOK /\ [DNext]_deliveryVars => [Line!HNext]_(Line!lineVars)
    BY NextLine
  <1>2. DSpec => []DTypeOK
    BY WakeupNotLost, PTL
  <1> QED
    BY <1>1, <1>2, InitLine, PTL DEF DSpec, ImplementsHandoff, Line!HSpec

-----------------------------------------------------------------------------
(* The queue: the bytes counted. *)

\* Induction over the natural numbers, for a set of them.
LEMMA NatSetInduction ==
  ASSUME NEW S \in SUBSET Nat, 0 \in S, \A n \in S : n + 1 \in S
  PROVE  S = Nat
  <1>1. SUFFICES ASSUME Nat \ S # {}
                 PROVE  FALSE
    OBVIOUS
  <1>2. \E x \in Nat \ S : \A y \in Nat \ S : ~(<<y, x>> \in OpToRel(<, Nat))
    BY <1>1, NatLessThanWellFounded, WFMin, Zenon
  <1>3. PICK x \in Nat \ S : \A y \in Nat \ S : ~(<<y, x>> \in OpToRel(<, Nat))
    BY <1>2
  <1>4. \A y \in Nat \ S : ~(y < x)
    BY <1>3 DEF OpToRel
  <1> QED
    BY <1>4

\* sum[i] is what the first i messages of q come to, for each i up to m.
Sums(sum, q, m) ==
  /\ sum = [i \in 0..m |-> sum[i]]
  /\ sum[0] = 0
  /\ \A i \in 1..m : sum[i] = sum[i - 1] + q[i].size

\* There are such sums.
LEMMA SumsExist ==
  ASSUME NEW q, NEW m \in Nat
  PROVE  \E sum : Sums(sum, q, m)
  <1> DEFINE S == {n \in Nat : \E sum : Sums(sum, q, n)}
  <1>1. 0 \in S
    <2>1. Sums([i \in 0..0 |-> 0], q, 0)
      BY DEF Sums
    <2> QED
      BY <2>1
  <1>2. ASSUME NEW n \in S
        PROVE  n + 1 \in S
    <2>1. PICK sum : Sums(sum, q, n)
      BY <1>2
    <2>2. n \in Nat
      BY <1>2
    <2> DEFINE last == sum[n] + q[n + 1].size
               more == [i \in 0..(n + 1) |-> IF i = n + 1 THEN last ELSE sum[i]]
    <2>3. /\ more = [i \in 0..(n + 1) |-> more[i]] /\ more[n + 1] = last
          /\ \A i \in 0..n : more[i] = sum[i]
      BY <2>2
    <2>4. last = more[n] + q[n + 1].size
      BY <2>2, <2>3
    <2> HIDE DEF last, more
    <2>5. more[0] = 0
      <3>1. 0 \in 0..n /\ sum[0] = 0
        BY <2>1, <2>2 DEF Sums
      <3> QED
        BY <2>3, <3>1
    <2>6. ASSUME NEW i \in 1..(n + 1)
          PROVE  more[i] = more[i - 1] + q[i].size
      <3>1. CASE i = n + 1
        <4>1. i - 1 = n
          BY <2>2, <3>1
        <4> QED
          BY <2>3, <2>4, <3>1, <4>1
      <3>2. CASE i \in 1..n
        <4>1. i \in 0..n /\ i - 1 \in 0..n
          BY <2>2, <3>2
        <4>2. more[i] = sum[i] /\ more[i - 1] = sum[i - 1]
          BY <2>3, <4>1
        <4>3. sum[i] = sum[i - 1] + q[i].size
          BY <2>1, <3>2 DEF Sums
        <4> QED
          BY <4>2, <4>3
      <3> QED
        BY <2>2, <3>1, <3>2
    <2>7. Sums(more, q, n + 1)
      BY <2>3, <2>5, <2>6 DEF Sums
    <2> QED
      BY <2>2, <2>7
  <1>3. S = Nat
    <2> HIDE DEF S
    <2>1. S \in SUBSET Nat
      BY DEF S
    <2> QED
      BY <1>1, <1>2, <2>1, NatSetInduction
  <1> QED
    BY <1>3

\* BytesOf is the last of them.
LEMMA BytesOfSums ==
  ASSUME NEW q \in Seq(Items)
  PROVE  \E sum : Sums(sum, q, Len(q)) /\ BytesOf(q) = sum[Len(q)]
  <1> DEFINE D(f) == [i \in 0..Len(q) |-> IF i = 0 THEN 0 ELSE f[i - 1] + q[i].size]
             sum == CHOOSE f : f = D(f)
  <1>1. BytesOf(q) = sum[Len(q)]
    BY DEF BytesOf
  <1>2. PICK g : Sums(g, q, Len(q))
    BY SumsExist
  <1>3. D(g) = g
    <2>1. Len(q) \in Nat /\ g = [i \in 0..Len(q) |-> g[i]]
      BY <1>2 DEF Sums
    <2>2. ASSUME NEW i \in 0..Len(q)
          PROVE  g[i] = IF i = 0 THEN 0 ELSE g[i - 1] + q[i].size
      <3>1. CASE i = 0
        BY <1>2, <3>1 DEF Sums
      <3>2. CASE i # 0
        <4>1. i \in 1..Len(q)
          BY <2>1, <3>2
        <4> QED
          BY <1>2, <3>2, <4>1 DEF Sums
      <3> QED
        BY <3>1, <3>2
    <2> QED
      BY <2>1, <2>2
  <1>4. sum = D(sum)
    BY <1>3
  <1> HIDE DEF sum
  <1>5. Len(q) \in Nat
    OBVIOUS
  <1>6. Sums(sum, q, Len(q))
    <2>1. sum = [i \in 0..Len(q) |-> sum[i]]
      BY <1>4
    <2>2. ASSUME NEW i \in 0..Len(q)
          PROVE  sum[i] = IF i = 0 THEN 0 ELSE sum[i - 1] + q[i].size
      BY <1>4
    <2>3. sum[0] = 0
      BY <1>5, <2>2
    <2>4. ASSUME NEW i \in 1..Len(q)
          PROVE  sum[i] = sum[i - 1] + q[i].size
      <3>1. i \in 0..Len(q) /\ i # 0
        BY <1>5
      <3> QED
        BY <2>2, <3>1
    <2> QED
      BY <2>1, <2>3, <2>4 DEF Sums
  <1> QED
    BY <1>1, <1>6 DEF sum

\* The first k messages of p and q are as large as each other.
Alike(p, q, k) == \A i \in 1..k : p[i].size = q[i].size

\* Sums of sequences that begin alike are alike as far as that.
LEMMA SumsAgree ==
  ASSUME NEW p, NEW q, NEW m \in Nat, NEW k \in 0..m, NEW f, NEW g,
         Sums(f, p, k), Sums(g, q, m), Alike(p, q, k)
  PROVE  f[k] = g[k]
  <1> DEFINE S == {n \in Nat : n <= k => f[n] = g[n]}
  <1>1. 0 \in S
    BY DEF Sums
  <1>2. ASSUME NEW n \in S
        PROVE  n + 1 \in S
    <2>1. n \in Nat
      BY <1>2
    <2>2. ASSUME n + 1 <= k
          PROVE  f[n + 1] = g[n + 1]
      <3>1. /\ n + 1 \in 1..k /\ n + 1 \in 1..m /\ (n + 1) - 1 = n
            /\ n <= k
        BY <2>1, <2>2
      <3>2. f[n] = g[n]
        BY <1>2, <3>1
      <3>3. f[n + 1] = f[n] + p[n + 1].size /\ g[n + 1] = g[n] + q[n + 1].size
        BY <3>1 DEF Sums
      <3> QED
        BY <3>1, <3>2, <3>3 DEF Alike
    <2> QED
      BY <2>1, <2>2
  <1>3. S = Nat
    <2> HIDE DEF S
    <2>1. S \in SUBSET Nat
      BY DEF S
    <2> QED
      BY <1>1, <1>2, <2>1, NatSetInduction
  <1> QED
    BY <1>3

\* A message more adds its size.
LEMMA BytesAppend ==
  ASSUME NEW q \in Seq(Items), NEW x \in Items
  PROVE  BytesOf(Append(q, x)) = BytesOf(q) + x.size
  <1> DEFINE d == Append(q, x)
             w == Len(q)
  <1>1. /\ d \in Seq(Items) /\ Len(d) = w + 1 /\ d[w + 1] = x /\ w \in Nat
        /\ \A i \in 1..w : d[i] = q[i]
    OBVIOUS
  <1>2. PICK f : Sums(f, q, w) /\ BytesOf(q) = f[w]
    BY BytesOfSums
  <1>3. PICK g : Sums(g, d, w + 1) /\ BytesOf(d) = g[w + 1]
    BY <1>1, BytesOfSums
  <1> HIDE DEF d, w
  <1>4. f[w] = g[w]
    <2>1. w \in 0..(w + 1) /\ w + 1 \in Nat
      BY <1>1
    <2>2. Alike(q, d, w)
      BY <1>1 DEF Alike
    <2>3. Sums(f, q, w) /\ Sums(g, d, w + 1)
      BY <1>2, <1>3
    <2> QED
      BY <2>1, <2>2, <2>3, SumsAgree
  <1>5. g[w + 1] = g[w] + d[w + 1].size
    <2>1. w + 1 \in 1..(w + 1) /\ (w + 1) - 1 = w
      BY <1>1
    <2> QED
      BY <1>3, <2>1 DEF Sums
  <1>6. BytesOf(d) = BytesOf(q) + x.size
    BY <1>1, <1>2, <1>3, <1>4, <1>5
  <1> QED
    BY <1>6 DEF d

\* The first message taken takes its size with it.
LEMMA BytesTail ==
  ASSUME NEW q \in Seq(Items), q # << >>
  PROVE  BytesOf(Tail(q)) = BytesOf(q) - Head(q).size
  <1> DEFINE d == Tail(q)
             w == Len(q)
             x == Head(q)
  <1>1. /\ d \in Seq(Items) /\ Len(d) = w - 1 /\ w \in Nat \ {0} /\ x = q[1] /\ x \in Items
        /\ \A i \in 1..(w - 1) : d[i] = q[i + 1] /\ d[i] \in Items
    OBVIOUS
  <1>2. PICK f : Sums(f, q, w) /\ BytesOf(q) = f[w]
    BY BytesOfSums
  <1>3. PICK g : Sums(g, d, w - 1) /\ BytesOf(d) = g[w - 1]
    BY <1>1, BytesOfSums
  <1> HIDE DEF d, w, x
  <1> DEFINE S == {n \in Nat : n <= w - 1 => g[n] \in Int /\ f[n + 1] = g[n] + x.size}
  <1>4. 0 \in S
    <2>1. 1 \in 1..w /\ 1 - 1 = 0
      BY <1>1
    <2>2. f[1] = f[0] + q[1].size /\ f[0] = 0 /\ g[0] = 0
      BY <1>2, <1>3, <2>1 DEF Sums
    <2>3. x.size \in Int
      BY <1>1, ItemSize
    <2>4. f[0 + 1] = g[0] + x.size /\ g[0] \in Int
      BY <1>1, <2>2, <2>3
    <2> QED
      BY <2>4
  <1>5. ASSUME NEW n \in S
        PROVE  n + 1 \in S
    <2>1. n \in Nat
      BY <1>5
    <2>2. ASSUME n + 1 <= w - 1
          PROVE  g[n + 1] \in Int /\ f[(n + 1) + 1] = g[n + 1] + x.size
      <3>1. /\ n + 1 \in 1..(w - 1) /\ (n + 1) + 1 \in 1..w /\ n <= w - 1
            /\ (n + 1) - 1 = n /\ ((n + 1) + 1) - 1 = n + 1
        BY <1>1, <2>1, <2>2
      <3>2. g[n] \in Int /\ f[n + 1] = g[n] + x.size
        BY <1>5, <3>1
      <3>3. g[n + 1] = g[n] + d[n + 1].size
        BY <1>3, <3>1 DEF Sums
      <3>4. f[(n + 1) + 1] = f[n + 1] + q[(n + 1) + 1].size
        BY <1>2, <3>1 DEF Sums
      <3>5. d[n + 1] = q[(n + 1) + 1] /\ d[n + 1].size \in Int /\ x.size \in Int
        BY <1>1, <3>1, ItemSize
      <3> DEFINE a == g[n]
                 b == d[n + 1].size
                 c == x.size
      <3>6. /\ a \in Int /\ b \in Int /\ c \in Int
            /\ g[n + 1] = a + b /\ f[(n + 1) + 1] = (a + c) + b
        BY <3>2, <3>3, <3>4, <3>5
      <3> HIDE DEF a, b, c
      <3>7. (a + c) + b = (a + b) + c /\ a + b \in Int
        BY <3>6
      <3> QED
        BY <3>6, <3>7 DEF c
    <2> QED
      BY <2>1, <2>2
  <1>6. S = Nat
    <2> HIDE DEF S
    <2>1. S \in SUBSET Nat
      BY DEF S
    <2> QED
      BY <1>4, <1>5, <2>1, NatSetInduction
  <1>7. g[w - 1] \in Int /\ f[w] = g[w - 1] + x.size
    <2>1. w - 1 \in Nat /\ (w - 1) + 1 = w
      BY <1>1
    <2>2. g[w - 1] \in Int /\ f[(w - 1) + 1] = g[w - 1] + x.size
      BY <1>6, <2>1
    <2> QED
      BY <2>1, <2>2
  <1>8. x.size \in Int
    BY <1>1, ItemSize
  <1> DEFINE a == g[w - 1]
             c == x.size
  <1>9. a \in Int /\ c \in Int /\ BytesOf(q) = a + c /\ BytesOf(d) = a
    BY <1>2, <1>3, <1>7, <1>8
  <1> HIDE DEF a, c
  <1>10. BytesOf(d) = BytesOf(q) - c
    BY <1>9
  <1> QED
    BY <1>10 DEF c, d, x

\* Every step keeps the count right.
LEMMA NextBytes ==
  ASSUME DTypeOK, BytesExact, [DNext]_deliveryVars
  PROVE  BytesExact'
  <1> USE DEF BytesExact, loopVars
  <1>1. queue \in Seq(Items)
    BY DEF DTypeOK
  <1>2. ASSUME NEW item \in Items, Enqueue(item)
        PROVE  BytesExact'
    <2>1. BytesOf(Append(queue, item)) = BytesOf(queue) + item.size
      BY <1>1, BytesAppend
    <2> QED
      BY <1>2, <2>1 DEF Enqueue
  <1>3. ASSUME UNCHANGED <<queue, bytes>>
        PROVE  BytesExact'
    BY <1>3
  <1>4. ASSUME NEW size \in Sizes, Push(size)
        PROVE  BytesExact'
    <2>1. CASE shutdown
      BY <1>3, <1>4, <2>1 DEF Push
    <2>2. CASE ~shutdown
      <3>1. [from |-> Notice, nr |-> sent[Notice] + 1, size |-> size] \in Items
        <4>1. sent[Notice] \in 0..(MaxBatches + MaxNotices) /\ MaxBatches \in Nat /\ MaxNotices \in Nat
          BY DeliveryAssumption DEF DTypeOK, Senders
        <4> QED
          BY <1>4, <4>1 DEF Push, Items, Senders
      <3> QED
        BY <1>2, <1>4, <2>2, <3>1 DEF Push
    <2> QED
      BY <2>1, <2>2
  <1>5. ASSUME NEW w \in Workers, Admit(w)
        PROVE  BytesExact'
    <2>1. [from |-> w, nr |-> sent[w], size |-> offered[w]] \in Items
      BY DEF DTypeOK, Items, Senders
    <2> QED
      BY <1>2, <1>5, <2>1 DEF Admit
  <1>6. CASE Take
    <2>1. CASE queue = << >>
      BY <1>3, <1>6, <2>1 DEF Take
    <2>2. CASE queue # << >>
      <3>1. BytesOf(Tail(queue)) = BytesOf(queue) - Head(queue).size
        BY <1>1, <2>2, BytesTail
      <3> QED
        BY <1>6, <2>2, <3>1 DEF Take
    <2> QED
      BY <2>1, <2>2
  <1>7. CASE \/ \E w \in Workers, size \in Sizes : Offer(w, size)
             \/ \E w \in Workers : GiveUp(w) \/ Replace(w)
             \/ SetEvent \/ Wake \/ Resume \/ Shutdown \/ CancelDrain
             \/ \E ok \in BOOLEAN : Deliver(ok)
             \/ UNCHANGED deliveryVars
    BY <1>3, <1>7 DEF Offer, GiveUp, Replace, SetEvent, Wake, Resume, Shutdown, CancelDrain,
                      Deliver, deliveryVars
  <1> HIDE DEF BytesExact
  <1> QED
    BY <1>4, <1>5, <1>6, <1>7 DEF DNext, DrainTask

\* The bytes counted are those of what is queued, whatever is pushed, admitted,
\* taken or dropped.
THEOREM BytesAreExact == DSpec => []BytesExact
  <1>1. DInit => BytesExact
    <2>1. << >> \in Seq(Items) /\ Len(<< >>) = 0
      OBVIOUS
    <2>2. PICK sum : Sums(sum, << >>, 0) /\ BytesOf(<< >>) = sum[0]
      BY <2>1, BytesOfSums
    <2>3. BytesOf(<< >>) = 0
      BY <2>2 DEF Sums
    <2> QED
      BY <2>3 DEF DInit, BytesExact
  <1>2. DTypeOK /\ BytesExact /\ [DNext]_deliveryVars => BytesExact'
    BY NextBytes
  <1>3. DSpec => []DTypeOK
    BY WakeupNotLost, PTL
  <1> QED
    BY <1>1, <1>2, <1>3, PTL DEF DSpec

-----------------------------------------------------------------------------
(* The text: the gate. *)

\* Among numbers there is a least one.
LEMMA LeastIs ==
  ASSUME NEW S \in SUBSET Nat, S # {}
  PROVE  Min(S) \in S /\ \A y \in S : Min(S) <= y
  <1>1. \E x \in S : \A y \in S : ~(<<y, x>> \in OpToRel(<, Nat))
    BY NatLessThanWellFounded, WFMin, Zenon
  <1>2. PICK x \in S : \A y \in S : ~(<<y, x>> \in OpToRel(<, Nat))
    BY <1>1
  <1>3. \A y \in S : ~(y < x)
    BY <1>2 DEF OpToRel
  <1>4. \A y \in S : x <= y
    BY <1>3
  <1> QED
    BY <1>4 DEF Min

\* Among the first numbers there is a greatest one.
LEMMA GreatestIs ==
  ASSUME NEW n \in Nat, NEW S \in SUBSET (0..n), S # {}
  PROVE  Max(S) \in S /\ \A y \in S : Max(S) >= y
  <1> DEFINE T == {n - x : x \in S}
  <1>1. T \in SUBSET Nat /\ T # {}
    <2>1. PICK x \in S : TRUE
      OBVIOUS
    <2>2. n - x \in T
      BY <2>1
    <2>3. \A y \in S : n - y \in Nat
      OBVIOUS
    <2> QED
      BY <2>2, <2>3
  <1>2. PICK t \in T : \A y \in T : t <= y
    <2> HIDE DEF T
    <2> QED
      BY <1>1, LeastIs
  <1>3. PICK x \in S : t = n - x
    OBVIOUS
  <1>4. ASSUME NEW y \in S
        PROVE  x >= y
    <2>1. n - y \in T
      OBVIOUS
    <2> HIDE DEF T
    <2>2. t <= n - y
      BY <1>2, <2>1
    <2>3. x \in Nat /\ y \in Nat
      OBVIOUS
    <2> QED
      BY <1>3, <2>2, <2>3
  <1>5. \E z \in S : \A y \in S : z >= y
    BY <1>4
  <1> QED
    BY <1>5 DEF Max

\* Two sequences of n elements that are the same
SameTo(p, q, n) == Len(p) = n /\ Len(q) = n /\ \A i \in 1..n : p[i] = q[i]

\* Sequences that have the same elements are the same.
LEMMA SameSeq ==
  ASSUME NEW A, NEW p \in Seq(A), NEW q \in Seq(A), NEW n \in Nat, SameTo(p, q, n)
  PROVE  p = q
  BY DEF SameTo

\* d is what is left of q after its first m elements, and has k
EndOf(d, q, m, k) == Len(q) = m + k /\ d = SubSeq(q, m + 1, Len(q))

\* The end of a sequence.
LEMMA EndIs ==
  ASSUME NEW A, NEW q \in Seq(A), NEW m \in Nat, NEW k \in Nat, NEW d, EndOf(d, q, m, k)
  PROVE  /\ d \in Seq(A)
         /\ Len(d) = k
         /\ \A i \in 1..k : d[i] = q[m + i]
  <1>1. PICK a \in Int : a = m + 1
    OBVIOUS
  <1>2. PICK w \in Int : w = Len(q)
    OBVIOUS
  <1>3. \A i \in a..w : q[i] \in A
    BY <1>1, <1>2
  <1>4. /\ d \in Seq(A)
        /\ Len(d) = IF a <= w THEN w - a + 1 ELSE 0
        /\ \A i \in 1..(w - a + 1) : d[i] = q[a + i - 1]
    <2>1. d = SubSeq(q, a, w)
      BY <1>1, <1>2 DEF EndOf
    <2>2. SubSeq(q, a, w) \in Seq(A)
      BY <1>3, SubSeqProperties
    <2>3. Len(SubSeq(q, a, w)) = IF a <= w THEN w - a + 1 ELSE 0
      BY <1>3, SubSeqProperties
    <2>4. \A i \in 1..(w - a + 1) : SubSeq(q, a, w)[i] = q[a + i - 1]
      BY <1>3, SubSeqProperties
    <2> QED
      BY <2>1, <2>2, <2>3, <2>4
  <1>5. w - a + 1 = k /\ \A i \in 1..k : a + i - 1 = m + i
    BY <1>1, <1>2 DEF EndOf
  <1>6. d \in Seq(A) /\ Len(d) = k /\ \A i \in 1..k : d[i] = q[m + i]
    <2>1. Len(d) = k
      BY <1>4, <1>5
    <2>2. \A i \in 1..k : d[i] = q[m + i]
      BY <1>4, <1>5
    <2> QED
      BY <1>4, <2>1, <2>2
  <1> QED
    BY <1>6

\* A word of three bytes, as the gate's are, is at place i of q
WordAt(q, i, c) == i \in 1..(Len(q) - 2) /\ q[i] = "s" /\ q[i + 1] = "n" /\ q[i + 2] = c

\* Where the gate's words are.
LEMMA PlacesAre ==
  ASSUME NEW A, NEW q \in Seq(A), NEW c
  PROVE  \A i : i \in Places(<<"s", "n", c>>, q) <=> WordAt(q, i, c)
  <1> DEFINE w == <<"s", "n", c>>
  <1>1. Len(w) = 3 /\ w[1] = "s" /\ w[2] = "n" /\ w[3] = c
    OBVIOUS
  <1>2. Places(w, q) = {i \in 1..(Len(q) - 2) : SubSeq(q, i, i + 2) = w}
    <2> HIDE DEF w
    <2>1. Places(w, q) = {i \in 1..(Len(q) - 3 + 1) : SubSeq(q, i, i + 3 - 1) = w}
      BY <1>1 DEF Places
    <2>2. Len(q) - 3 + 1 = Len(q) - 2 /\ \A i \in Int : i + 3 - 1 = i + 2
      OBVIOUS
    <2> QED
      BY <2>1, <2>2
  <1>3. ASSUME NEW i \in 1..(Len(q) - 2)
        PROVE  SubSeq(q, i, i + 2) = w <=> q[i] = "s" /\ q[i + 1] = "n" /\ q[i + 2] = c
    <2> DEFINE d == SubSeq(q, i, i + 2)
    <2>1. d \in Seq(A) /\ Len(d) = 3 /\ d[1] = q[i] /\ d[2] = q[i + 1] /\ d[3] = q[i + 2]
      OBVIOUS
    <2> HIDE DEF d
    <2>2. d = <<d[1], d[2], d[3]>>
      BY <2>1
    <2>3. d = w <=> d[1] = "s" /\ d[2] = "n" /\ d[3] = c
      BY <2>2
    <2> QED
      BY <2>1, <2>3 DEF d
  <1> HIDE DEF w
  <1>4. \A i : i \in Places(w, q) <=> WordAt(q, i, c)
    BY <1>2, <1>3 DEF WordAt
  <1> QED
    BY <1>4 DEF w

\* Where the phrase and the mark are, and the first of the marks.
LEMMA WordsAre ==
  ASSUME NEW A, NEW q \in Seq(A)
  PROVE  /\ \A i : i \in Places(Phrase, q) <=> WordAt(q, i, "p")
         /\ \A i : i \in Places(Mark, q) <=> WordAt(q, i, "m")
         /\ Places(Phrase, q) \in SUBSET (1..Len(q))
         /\ Places(Mark, q) \in SUBSET (1..Len(q))
  <1>1. /\ \A i : i \in Places(Phrase, q) <=> WordAt(q, i, "p")
        /\ \A i : i \in Places(Mark, q) <=> WordAt(q, i, "m")
    BY PlacesAre DEF Phrase, Mark
  <1>2. \A i, c : WordAt(q, i, c) => i \in 1..Len(q)
    BY DEF WordAt
  <1> QED
    BY <1>1, <1>2

\* The first mark, or one past the end.
LEMMA MarkIs ==
  ASSUME NEW A, NEW q \in Seq(A)
  PROVE  /\ MarkAt(q) \in 1..(Len(q) + 1)
         /\ MarkAt(q) = Len(q) + 1 <=> Places(Mark, q) = {}
         /\ MarkAt(q) # Len(q) + 1 => MarkAt(q) \in Places(Mark, q)
         /\ \A i \in Places(Mark, q) : MarkAt(q) <= i
  <1> DEFINE P == Places(Mark, q)
             S == P \union {Len(q) + 1}
  <1>1. P \in SUBSET (1..Len(q)) /\ Len(q) \in Nat
    BY WordsAre
  <1>2. MarkAt(q) = Min(S)
    BY DEF MarkAt
  <1> HIDE DEF P
  <1>3. PICK w \in Nat : w = Len(q)
    BY <1>1
  <1>4. S = P \union {w + 1} /\ P \in SUBSET (1..w)
    BY <1>1, <1>3
  <1> HIDE DEF S
  <1>5. S \in SUBSET Nat /\ S # {}
    BY <1>4
  <1>6. Min(S) \in S /\ \A y \in S : Min(S) <= y
    BY <1>5, LeastIs
  <1>7. w + 1 \notin P /\ \A y \in P : y \in Nat /\ y >= 1 /\ y <= w
    BY <1>4
  <1>8. MarkAt(q) \in P \union {w + 1} /\ \A y \in P : MarkAt(q) <= y
    BY <1>2, <1>4, <1>6
  <1>9. MarkAt(q) = w + 1 <=> P = {}
    <2>1. ASSUME MarkAt(q) = w + 1, NEW y \in P
          PROVE  FALSE
      BY <1>7, <1>8, <2>1
    <2> QED
      BY <1>8, <2>1
  <1>10. MarkAt(q) \in 1..(w + 1) /\ (MarkAt(q) # w + 1 => MarkAt(q) \in P)
    BY <1>7, <1>8
  <1> QED
    BY <1>3, <1>8, <1>9, <1>10 DEF P

\* Nothing that begins at place i of q will be one of the gate's words that is not
\* yet
Dead(q, i) == q[i] = "s" => i + 1 <= Len(q) /\ (q[i + 1] = "n" => i + 2 <= Len(q))

\* p is what the gate has to keep of q: its end, as much as may begin a word
Waits(q, p) ==
  \E k \in 0..2 :
     /\ k <= Len(q)
     /\ p = SubSeq(q, Len(q) - k + 1, Len(q))
     /\ \A i \in 1..(Len(q) - k) : Dead(q, i)

\* What _suffix_prefix finds is what may begin a word.
LEMMA SuffixWaits ==
  ASSUME NEW A, NEW q \in Seq(A)
  PROVE  Waits(q, SuffixPrefix(q))
  <1> DEFINE end(n) == SubSeq(q, Len(q) - n + 1, Len(q))
             most == Min({Len(q), Len(Mark) - 1})
             begins == {n \in 0..most : IsPrefix(end(n), Phrase) \/ IsPrefix(end(n), Mark)}
             k == Max(begins)
  <1>1. SuffixPrefix(q) = end(k)
    BY DEF SuffixPrefix
  <1>2. Len(q) \in Nat /\ Len(Mark) = 3 /\ Len(Phrase) = 3
    BY DEF Mark, Phrase
  <1>3. most \in Nat /\ most <= 2 /\ most <= Len(q) /\ (most = 2 \/ most = Len(q))
    <2>1. {Len(q), Len(Mark) - 1} = {Len(q), 2}
      BY <1>2
    <2>2. {Len(q), 2} \in SUBSET Nat /\ {Len(q), 2} # {}
      BY <1>2
    <2>3. Min({Len(q), 2}) \in {Len(q), 2} /\ \A y \in {Len(q), 2} : Min({Len(q), 2}) <= y
      BY <2>2, LeastIs
    <2> QED
      BY <1>2, <2>1, <2>3
  <1> HIDE DEF most
  <1>4. 0 \in begins
    <2>1. end(0) = << >>
      BY <1>2
    <2>2. IsPrefix(<< >>, Phrase)
      BY DEF IsPrefix, Phrase
    <2>3. 0 \in 0..most
      BY <1>3
    <2> HIDE DEF end
    <2> QED
      BY <2>1, <2>2, <2>3
  <1>5. begins \in SUBSET (0..most)
    OBVIOUS
  <1>6. k \in begins /\ \A n \in begins : k >= n
    <2> HIDE DEF begins
    <2> QED
      BY <1>3, <1>4, <1>5, GreatestIs
  <1>7. k \in 0..2 /\ k <= Len(q) /\ k \in Nat
    <2> HIDE DEF begins, k
    <2> QED
      BY <1>2, <1>3, <1>5, <1>6
  <1>8. ASSUME NEW i \in 1..(Len(q) - k)
        PROVE  Dead(q, i)
    <2> SUFFICES ASSUME ~Dead(q, i)
                 PROVE  FALSE
      OBVIOUS
    <2> DEFINE n == Len(q) - i + 1
    <2>1. i \in Nat /\ i >= 1 /\ i <= Len(q) - k
      <3> HIDE DEF k
      <3> QED
        BY <1>2, <1>7
    <2>2. q[i] = "s" /\ (i + 1 > Len(q) \/ (q[i + 1] = "n" /\ i + 2 > Len(q)))
      BY <1>2, <2>1 DEF Dead
    <2>3. CASE i = Len(q)
      <3>1. end(1) = <<"s">>
        <4>1. end(1) = SubSeq(q, Len(q), Len(q)) /\ Len(q) >= 1 /\ q[Len(q)] = "s"
          BY <1>2, <2>1, <2>2, <2>3
        <4> HIDE DEF end, k
        <4> QED
          BY <4>1
      <3>2. IsPrefix(<<"s">>, Phrase)
        BY DEF IsPrefix, Phrase
      <3>3. 1 \in 0..most
        <4> HIDE DEF k
        <4> QED
          BY <1>2, <1>3, <2>1, <2>3
      <3>4. 1 \in begins
        <4> HIDE DEF end
        <4> QED
          BY <3>1, <3>2, <3>3
      <3> HIDE DEF begins, k
      <3> QED
        BY <1>2, <1>6, <1>7, <2>1, <2>3, <3>4
    <2>4. CASE i # Len(q)
      <3>0. i = Len(q) - 1 /\ q[Len(q)] = "n" /\ q[Len(q) - 1] = "s" /\ Len(q) >= 2
        <4> HIDE DEF k
        <4> QED
          BY <1>2, <1>7, <2>1, <2>2, <2>4
      <3>1. end(2) = <<"s", "n">>
        <4>1. end(2) = SubSeq(q, Len(q) - 1, Len(q))
          BY <1>2, <3>0
        <4> DEFINE d == end(2)
        <4> HIDE DEF end, k
        <4>0. PICK w \in Nat : w = Len(q)
          BY <1>2
        <4>2. d = SubSeq(q, w - 1, w) /\ w >= 2 /\ q[w - 1] = "s" /\ q[w] = "n"
          BY <3>0, <4>0, <4>1
        <4> HIDE DEF d
        <4>4. d \in Seq(A) /\ Len(d) = 2 /\ d[1] = "s" /\ d[2] = "n"
          <5>1. w - (w - 1) + 1 = 2 /\ w - 1 + 1 = w /\ (w - 1) + 2 - 1 = w /\ w - 1 \in Nat
            BY <4>2
          <5> QED
            BY <4>0, <4>2, <5>1
        <4> HIDE DEF d
        <4>3. d = <<d[1], d[2]>>
          BY <4>4
        <4> QED
          BY <4>4, <4>3 DEF d
      <3>2. IsPrefix(<<"s", "n">>, Phrase)
        BY DEF IsPrefix, Phrase
      <3>3. 2 \in 0..most
        BY <1>2, <1>3, <3>0
      <3>4. 2 \in begins
        <4> HIDE DEF end
        <4> QED
          BY <3>1, <3>2, <3>3
      <3> HIDE DEF begins, k
      <3> QED
        BY <1>2, <1>6, <1>7, <2>1, <3>0, <3>4
    <2> QED
      BY <2>3, <2>4
  <1> HIDE DEF k, begins
  <1> QED
    BY <1>1, <1>7, <1>8 DEF Waits

\* r is q and more, b is r from place o on, and no word waits before o in q
Joined(q, r, b, o) ==
  /\ o \in Nat /\ o <= Len(q) /\ Len(q) <= o + 2
  /\ Len(q) <= Len(r) /\ Len(r) = o + Len(b)
  /\ \A i \in 1..Len(b) : r[o + i] = b[i]
  /\ \A i \in 1..Len(q) : r[i] = q[i]
  /\ \A i \in 1..o : Dead(q, i)

\* What was kept and the chunk read after it, in all that was read.
LEMMA WaitsJoin ==
  ASSUME NEW A, NEW q \in Seq(A), NEW c \in Seq(A), NEW p, Waits(q, p)
  PROVE  /\ p \o c \in Seq(A) /\ q \o c \in Seq(A)
         /\ \E o \in Nat : Joined(q, q \o c, p \o c, o)
  <1>1. PICK k \in 0..2 : /\ k <= Len(q)
                          /\ p = SubSeq(q, Len(q) - k + 1, Len(q))
                          /\ \A i \in 1..(Len(q) - k) : Dead(q, i)
    BY DEF Waits
  <1>2. PICK w \in Nat : w = Len(q)
    OBVIOUS
  <1>3. PICK o \in Nat : o = w - k
    <2>1. k \in Nat /\ k <= w
      BY <1>1, <1>2
    <2>2. w - k \in Nat
      BY <2>1
    <2> QED
      BY <2>2
  <1>4. /\ p \in Seq(A) /\ Len(p) = k
        /\ \A i \in 1..k : p[i] = q[o + i]
    <2>1. p = SubSeq(q, o + 1, w)
      BY <1>1, <1>2, <1>3
    <2>2. w = o + k /\ k \in Nat
      BY <1>3
    <2>3. p \in Seq(A) /\ Len(p) = k
      <3>1. \A i \in (o + 1)..w : q[i] \in A
        BY <1>2
      <3>2. p \in Seq(A) /\ Len(p) = IF o + 1 <= w THEN w - (o + 1) + 1 ELSE 0
        BY <2>1, <3>1, SubSeqProperties
      <3>3. (IF o + 1 <= w THEN w - (o + 1) + 1 ELSE 0) = k
        BY <2>2
      <3> QED
        BY <3>2, <3>3
    <2>4. ASSUME NEW i \in 1..k
          PROVE  p[i] = q[o + i]
      <3>1. p = SubSeq(q, o + 1, o + k) /\ o + 1 \in Nat \ {0} /\ o + k \in Nat
            /\ o + k <= Len(q) /\ i \in 1..((o + k) - (o + 1) + 1)
        BY <1>2, <2>1, <2>2
      <3>2. p[i] = q[(o + 1) + i - 1]
        BY <3>1
      <3>3. (o + 1) + i - 1 = o + i
        OBVIOUS
      <3> QED
        BY <3>2, <3>3
    <2> QED
      BY <2>3, <2>4
  <1> DEFINE b == p \o c
  <1>5. /\ b \in Seq(A) /\ Len(b) = k + Len(c)
        /\ \A i \in 1..k : b[i] = p[i]
        /\ \A i \in (k + 1)..(k + Len(c)) : b[i] = c[i - k]
    <2>1. k \in Nat /\ p \in Seq(A) /\ Len(p) = k
      BY <1>1, <1>4
    <2> QED
      BY <2>1
  <1> DEFINE r == q \o c
  <1>6. /\ r \in Seq(A) /\ Len(r) = w + Len(c)
        /\ \A i \in 1..w : r[i] = q[i]
        /\ \A i \in (w + 1)..(w + Len(c)) : r[i] = c[i - w]
    BY <1>2
  <1> HIDE DEF b, r
  <1>7. ASSUME NEW i \in 1..Len(b)
        PROVE  r[o + i] = b[i]
    <2>1. PICK l \in Nat : l = Len(c)
      OBVIOUS
    <2>2. i \in 1..(k + l)
      BY <1>5, <2>1
    <2>3. CASE i <= k
      <3>1. i \in 1..k /\ o + i \in 1..w
        BY <1>1, <1>3, <2>2, <2>3
      <3> QED
        BY <1>4, <1>5, <1>6, <3>1
    <2>4. CASE i > k
      <3>1. i \in (k + 1)..(k + l) /\ o + i \in (w + 1)..(w + l) /\ (o + i) - w = i - k
        BY <1>1, <1>3, <2>2, <2>4
      <3> QED
        BY <1>5, <1>6, <2>1, <3>1
    <2> QED
      BY <1>1, <2>2, <2>3, <2>4
  <1>8. /\ Len(q) = o + Len(p) /\ Len(p) <= 2
        /\ Len(r) = o + Len(b)
    <2>1. PICK l \in Nat : l = Len(c)
      OBVIOUS
    <2> QED
      BY <1>1, <1>2, <1>3, <1>4, <1>5, <1>6, <2>1
  <1>9. \A i \in 1..o : Dead(q, i)
    BY <1>1, <1>2, <1>3
  <1>10. \A i \in 1..Len(q) : r[i] = q[i]
    BY <1>2, <1>6
  <1>11. Joined(q, r, b, o)
    <2>1. PICK l \in Nat : l = Len(c)
      OBVIOUS
    <2>2. o <= Len(q) /\ Len(q) <= o + 2 /\ Len(q) <= Len(r)
      BY <1>1, <1>2, <1>3, <1>6, <2>1
    <2> QED
      BY <1>7, <1>8, <1>9, <1>10, <2>2 DEF Joined
  <1> QED
    BY <1>5, <1>6, <1>11 DEF b, r

\* Its words are those of q and, further on, those of b
WordsAlike(q, r, b, o, c) ==
  /\ \A i : WordAt(q, i, c) => i \in 1..o
  /\ \A i \in 1..o : WordAt(r, i, c) <=> WordAt(q, i, c)
  /\ \A i \in Nat \ {0} : WordAt(r, o + i, c) <=> WordAt(b, i, c)

\* The words in all that was read are those that were there before, none of them
\* in what was kept, and those that are found in it and the new chunk.
LEMMA WordsJoin ==
  ASSUME NEW A, NEW q \in Seq(A), NEW r \in Seq(A), NEW b \in Seq(A), NEW o \in Nat,
         Joined(q, r, b, o),
         NEW c
  PROVE  WordsAlike(q, r, b, o, c)
  <1> USE DEF Joined
  <1>1. PICK w \in Nat : w = Len(q)
    OBVIOUS
  <1>2. PICK l \in Nat : l = Len(b)
    OBVIOUS
  <1>3. \A i : WordAt(q, i, c) => i \in 1..o
    BY <1>1 DEF WordAt
  <1>4. ASSUME NEW i \in 1..o
        PROVE  WordAt(r, i, c) <=> WordAt(q, i, c)
    <2>1. CASE i + 2 <= w
      <3>1. i \in 1..w /\ i + 1 \in 1..w /\ i + 2 \in 1..w /\ i \in 1..(w - 2)
            /\ i \in 1..(o + l - 2)
        BY <1>1, <1>2, <2>1
      <3> QED
        BY <1>1, <1>2, <3>1 DEF WordAt
    <2>2. CASE i + 2 > w
      <3>1. ~WordAt(q, i, c)
        BY <1>1, <2>2 DEF WordAt
      <3>2. i \in 1..w /\ Dead(q, i) /\ r[i] = q[i]
        BY <1>1
      <3>3. CASE q[i] = "s"
        <4>1. i + 1 \in 1..w /\ q[i + 1] # "n"
          BY <1>1, <2>2, <3>2, <3>3 DEF Dead
        <4>2. r[i + 1] = q[i + 1]
          BY <1>1, <4>1
        <4> QED
          BY <3>1, <4>1, <4>2 DEF WordAt
      <3>4. CASE q[i] # "s"
        BY <3>1, <3>2, <3>4 DEF WordAt
      <3> QED
        BY <3>3, <3>4
    <2> QED
      BY <1>1, <2>1, <2>2
  <1>5. ASSUME NEW i \in Nat \ {0}
        PROVE  WordAt(r, o + i, c) <=> WordAt(b, i, c)
    <2>1. o + i \in 1..(o + l - 2) <=> i \in 1..(l - 2)
      BY <1>2
    <2>2. ASSUME i \in 1..(l - 2)
          PROVE  r[o + i] = b[i] /\ r[o + i + 1] = b[i + 1] /\ r[o + i + 2] = b[i + 2]
      <3>1. i \in 1..l /\ i + 1 \in 1..l /\ i + 2 \in 1..l
            /\ o + (i + 1) = o + i + 1 /\ o + (i + 2) = o + i + 2
        BY <1>2, <2>2
      <3>2. r[o + i] = b[i] /\ r[o + (i + 1)] = b[i + 1] /\ r[o + (i + 2)] = b[i + 2]
        BY <1>2, <3>1
      <3> QED
        BY <3>1, <3>2
    <2> QED
      BY <1>2, <2>1, <2>2 DEF WordAt
  <1> QED
    BY <1>3, <1>4, <1>5 DEF WordsAlike

\* The same of the mark's first place and of the requests before it, of output in
\* which there was no mark.
LEMMA GateJoin ==
  ASSUME NEW A, NEW q \in Seq(A), NEW r \in Seq(A), NEW b \in Seq(A), NEW o \in Nat,
         Joined(q, r, b, o),
         Places(Mark, q) = {}
  PROVE  /\ MarkAt(r) = o + MarkAt(b)
         /\ Places(Mark, r) = {} <=> Places(Mark, b) = {}
         /\ Asks(q) \in SUBSET (1..o) /\ Asks(r) \in SUBSET (1..Len(r))
         /\ Asks(b) \in SUBSET (1..Len(b))
         /\ \A i \in 1..o : i \in Asks(r) <=> i \in Asks(q)
         /\ \A i \in Nat \ {0} : o + i \in Asks(r) <=> i \in Asks(b)
  <1>1. PICK l \in Nat : l = Len(b)
    OBVIOUS
  <1>2. \A c : /\ \A i : WordAt(q, i, c) => i \in 1..o
               /\ \A i \in 1..o : WordAt(r, i, c) <=> WordAt(q, i, c)
               /\ \A i \in Nat \ {0} : WordAt(r, o + i, c) <=> WordAt(b, i, c)
    <2> TAKE c
    <2>1. WordsAlike(q, r, b, o, c)
      BY WordsJoin
    <2> QED
      BY <2>1 DEF WordsAlike
  <1> USE DEF Joined
  <1>3. /\ \A i : ~WordAt(q, i, "m")
        /\ MarkAt(q) = Len(q) + 1
    BY WordsAre, MarkIs
  <1>4. /\ MarkAt(b) \in 1..(l + 1)
        /\ MarkAt(b) = l + 1 <=> Places(Mark, b) = {}
        /\ MarkAt(b) # l + 1 => WordAt(b, MarkAt(b), "m")
        /\ \A i : WordAt(b, i, "m") => MarkAt(b) <= i
    BY <1>1, MarkIs, WordsAre
  <1>5. /\ MarkAt(r) \in 1..(o + l + 1)
        /\ MarkAt(r) = o + l + 1 <=> Places(Mark, r) = {}
        /\ MarkAt(r) # o + l + 1 => WordAt(r, MarkAt(r), "m")
        /\ \A i : WordAt(r, i, "m") => MarkAt(r) <= i
    BY <1>1, MarkIs, WordsAre
  <1>6. ASSUME NEW i, WordAt(r, i, "m")
        PROVE  i - o \in Nat \ {0} /\ WordAt(b, i - o, "m") /\ i = o + (i - o)
    <2>1. i \in Nat \ {0}
      BY <1>1, <1>6 DEF WordAt
    <2>2. ~(i \in 1..o)
      BY <1>2, <1>3, <1>6
    <2>3. i - o \in Nat \ {0} /\ i = o + (i - o)
      BY <2>1, <2>2
    <2> QED
      BY <1>2, <1>6, <2>3
  <1>7. PICK m \in 1..(l + 1) : m = MarkAt(b)
    BY <1>4
  <1>8. MarkAt(r) = o + MarkAt(b)
    <2>1. CASE MarkAt(b) = l + 1
      <3>1. MarkAt(r) = o + l + 1
        <4> SUFFICES ASSUME MarkAt(r) # o + l + 1
                     PROVE  FALSE
          OBVIOUS
        <4>1. WordAt(b, MarkAt(r) - o, "m")
          BY <1>5, <1>6
        <4>2. MarkAt(r) - o \in 1..(l - 2)
          BY <1>1, <4>1 DEF WordAt
        <4> QED
          BY <1>4, <2>1, <4>1, <4>2
      <3> QED
        BY <2>1, <3>1
    <2>2. CASE MarkAt(b) # l + 1
      <3>1. WordAt(r, o + MarkAt(b), "m") /\ MarkAt(b) \in Nat \ {0} /\ MarkAt(b) <= l
        <4>1. m \in Nat \ {0} /\ m <= l /\ WordAt(b, m, "m")
          BY <1>4, <1>7, <2>2
        <4> QED
          BY <1>2, <1>7, <4>1
      <3>2. MarkAt(r) <= o + MarkAt(b)
        BY <1>5, <3>1
      <3>3. MarkAt(r) # o + l + 1
        BY <1>5, <3>1, <3>2
      <3>4. WordAt(b, MarkAt(r) - o, "m") /\ MarkAt(r) - o \in Nat
        BY <1>5, <1>6, <3>3
      <3>5. MarkAt(b) <= MarkAt(r) - o
        BY <1>4, <3>4
      <3> QED
        BY <1>5, <3>1, <3>2, <3>4, <3>5
    <2> QED
      BY <2>1, <2>2
  <1>9. Places(Mark, r) = {} <=> Places(Mark, b) = {}
    <2>1. MarkAt(r) = o + m
      BY <1>8, <1>7
    <2>2. o + m = o + l + 1 <=> m = l + 1
      OBVIOUS
    <2> QED
      BY <1>4, <1>5, <1>7, <2>1, <2>2
  <1>10. /\ \A i : i \in Asks(q) <=> WordAt(q, i, "p") /\ i < MarkAt(q)
         /\ \A i : i \in Asks(b) <=> WordAt(b, i, "p") /\ i < MarkAt(b)
         /\ \A i : i \in Asks(r) <=> WordAt(r, i, "p") /\ i < MarkAt(r)
    BY WordsAre DEF Asks
  <1>11. /\ Asks(q) \in SUBSET (1..o) /\ Asks(r) \in SUBSET (1..Len(r))
         /\ Asks(b) \in SUBSET (1..Len(b))
    <2>1. \A i : WordAt(r, i, "p") => i \in 1..Len(r)
      BY DEF WordAt
    <2>2. \A i : WordAt(b, i, "p") => i \in 1..Len(b)
      BY DEF WordAt
    <2> QED
      BY <1>2, <1>10, <2>1, <2>2
  <1>12. ASSUME NEW i \in 1..o
         PROVE  i \in Asks(r) <=> i \in Asks(q)
    <2>1. i < MarkAt(r)
      BY <1>4, <1>8
    <2>2. i < MarkAt(q)
      BY <1>3
    <2> QED
      BY <1>2, <1>10, <2>1, <2>2
  <1>13. ASSUME NEW i \in Nat \ {0}
         PROVE  o + i \in Asks(r) <=> i \in Asks(b)
    <2>1. o + i < MarkAt(r) <=> i < MarkAt(b)
      BY <1>4, <1>8
    <2> QED
      BY <1>2, <1>10, <2>1
  <1> QED
    BY <1>8, <1>9, <1>11, <1>12, <1>13

\* What is left of b after the last request, or all of it
RestOf(b) == IF Asks(b) = {} THEN b ELSE After(Phrase, Max(Asks(b)), b)

\* What is left after the last request, or all there is, is the end of all that was
\* read, and no word waits before it.
LEMMA RestJoin ==
  ASSUME NEW A, NEW q \in Seq(A), NEW r \in Seq(A), NEW b \in Seq(A), NEW o \in Nat,
         Joined(q, r, b, o),
         Asks(b) \in SUBSET (1..Len(b))
  PROVE  /\ RestOf(b) \in Seq(A)
         /\ \E n \in Nat : /\ Len(r) = n + Len(RestOf(b))
                           /\ \A i \in 1..Len(RestOf(b)) : r[n + i] = RestOf(b)[i]
                           /\ \A i \in 1..n : Dead(r, i)
  <1> DEFINE rest == RestOf(b)
  <1> HIDE DEF rest
  <1> USE DEF Joined
  <1>1. PICK l \in Nat : l = Len(b)
    OBVIOUS
  <1>2. PICK w \in Nat : w = Len(q)
    OBVIOUS
  <1>3. ASSUME NEW i \in 1..o
        PROVE  Dead(r, i)
    <2>1. i \in 1..w /\ Dead(q, i) /\ r[i] = q[i]
      BY <1>2
    <2>2. ASSUME i + 1 <= w
          PROVE  r[i + 1] = q[i + 1] /\ i + 1 <= Len(r)
      BY <1>2, <2>1, <2>2
    <2>3. i + 2 <= w => i + 2 <= Len(r)
      BY <1>2, <2>1
    <2> QED
      BY <1>2, <2>1, <2>2, <2>3 DEF Dead
  <1>4. CASE Asks(b) = {}
    <2>1. rest = b
      BY <1>4 DEF rest, RestOf
    <2> QED
      BY <1>3, <2>1 DEF rest
  <1>5. CASE Asks(b) # {}
    <2>1. Asks(b) \in SUBSET (0..Len(b))
      BY <1>1
    <2>2. PICK j \in 1..l : j = Max(Asks(b)) /\ j \in Asks(b)
      BY <1>1, <1>5, <2>1, GreatestIs
    <2>3. WordAt(b, j, "p")
      BY <2>2, WordsAre DEF Asks
    <2>4. j + 2 <= l /\ b[j + 1] = "n" /\ b[j + 2] = "p"
      BY <1>1, <2>3 DEF WordAt
    <2>5. rest = SubSeq(b, j + 3, l)
      BY <1>1, <1>5, <2>2 DEF After, Phrase, rest, RestOf
    <2>6. PICK n \in Nat : n = o + j + 2
      OBVIOUS
    <2>7. /\ rest \in Seq(A) /\ Len(r) = n + Len(rest)
          /\ \A i \in 1..Len(rest) : r[n + i] = rest[i]
      <3>1. PICK m \in Nat : m = j + 2
        OBVIOUS
      <3>2. m + 1 = j + 3 /\ rest = SubSeq(b, m + 1, Len(b))
        BY <1>1, <2>5, <3>1
      <3>3. PICK k \in Nat : k = l - (j + 2)
        BY <2>4
      <3>4. /\ rest \in Seq(A) /\ Len(rest) = k
            /\ \A i \in 1..k : rest[i] = b[m + i]
        <4>1. Len(b) = m + k
          BY <1>1, <3>1, <3>3
        <4>2. EndOf(rest, b, m, k)
          BY <3>2, <4>1 DEF EndOf
        <4> QED
          BY <4>2, EndIs
      <3>5. Len(r) = n + k
        BY <1>1, <2>6, <3>3
      <3>6. ASSUME NEW i \in 1..k
            PROVE  r[n + i] = rest[i]
        <4>1. m + i = j + 2 + i /\ n + i = o + (j + 2 + i) /\ j + 2 + i \in 1..l
          BY <2>4, <2>6, <3>1, <3>3
        <4>2. rest[i] = b[j + 2 + i]
          BY <3>4, <4>1
        <4>3. r[o + (j + 2 + i)] = b[j + 2 + i]
          BY <1>1, <4>1
        <4> QED
          BY <4>1, <4>2, <4>3
      <3> QED
        BY <3>4, <3>5, <3>6
    <2>8. ASSUME NEW i \in 1..n
          PROVE  Dead(r, i)
      <3>1. CASE i \in 1..o
        BY <1>3, <3>1
      <3>2. CASE i \notin 1..o
        <4>1. PICK x \in 1..(j + 2) : i = o + x
          <5>1. i - o \in 1..(j + 2) /\ i = o + (i - o)
            BY <2>6, <3>2
          <5> QED
            BY <5>1
        <4>2. x \in 1..l /\ r[i] = b[x]
          BY <1>1, <2>4, <4>1
        <4>3. CASE x <= j
          <5>1. i + 2 <= Len(r) /\ i + 1 <= Len(r)
            BY <1>1, <2>4, <4>1, <4>3
          <5> QED
            BY <5>1 DEF Dead
        <4>4. CASE x = j + 1 \/ x = j + 2
          <5>1. r[i] # "s"
            BY <2>4, <4>2, <4>4
          <5> QED
            BY <5>1 DEF Dead
        <4> QED
          BY <4>1, <4>3, <4>4
      <3> QED
        BY <3>1, <3>2
    <2> QED
      BY <2>7, <2>8 DEF rest
  <1> QED
    BY <1>4, <1>5

\* So what the gate keeps for the next chunk is what it has to keep.
LEMMA KeptWaits ==
  ASSUME NEW A, NEW r \in Seq(A), NEW rest \in Seq(A), NEW n \in Nat,
         Len(r) = n + Len(rest),
         \A i \in 1..Len(rest) : r[n + i] = rest[i],
         \A i \in 1..n : Dead(r, i)
  PROVE  Waits(r, SuffixPrefix(rest)) /\ SuffixPrefix(rest) \in Seq(A)
  <1>1. PICK k \in 0..2 : /\ k <= Len(rest)
                          /\ SuffixPrefix(rest) = SubSeq(rest, Len(rest) - k + 1, Len(rest))
                          /\ \A i \in 1..(Len(rest) - k) : Dead(rest, i)
    BY SuffixWaits DEF Waits
  <1>2. PICK l \in Nat : l = Len(rest)
    OBVIOUS
  <1>3. PICK e \in Nat : e = l - k
    <2>1. l - k \in Nat
      BY <1>1, <1>2
    <2> QED
      BY <2>1
  <1>4. k \in Nat /\ l = e + k /\ Len(r) = n + e + k
    BY <1>2, <1>3
  <1> DEFINE s == SubSeq(rest, e + 1, l)
             t == SubSeq(r, n + e + 1, Len(r))
  <1>5. SuffixPrefix(rest) = s
    BY <1>1, <1>2, <1>3
  <1>6. s \in Seq(A) /\ Len(s) = k /\ \A i \in 1..k : s[i] = rest[e + i]
    <2>1. Len(rest) = e + k /\ s = SubSeq(rest, e + 1, Len(rest))
      BY <1>2, <1>4
    <2> HIDE DEF s
    <2>2. k \in Nat /\ EndOf(s, rest, e, k)
      BY <1>4, <2>1 DEF EndOf
    <2> QED
      BY <2>2, EndIs
  <1>7. t \in Seq(A) /\ Len(t) = k /\ \A i \in 1..k : t[i] = r[n + e + i]
    <2>1. PICK m \in Nat : m = n + e
      OBVIOUS
    <2>2. Len(r) = m + k /\ t = SubSeq(r, m + 1, Len(r))
      BY <1>4, <2>1
    <2> HIDE DEF t
    <2>3. k \in Nat /\ EndOf(t, r, m, k)
      BY <1>4, <2>2 DEF EndOf
    <2>4. t \in Seq(A) /\ Len(t) = k /\ \A i \in 1..k : t[i] = r[m + i]
      BY <2>3, EndIs
    <2> QED
      BY <2>1, <2>4
  <1> HIDE DEF s, t
  <1>8. \A i \in 1..k : s[i] = t[i]
    <2> TAKE i \in 1..k
    <2>1. e + i \in 1..l /\ n + (e + i) = n + e + i
      BY <1>4
    <2>2. r[n + (e + i)] = rest[e + i]
      BY <1>2, <2>1
    <2> QED
      BY <1>6, <1>7, <2>1, <2>2
  <1>9. s = t
    <2>1. s \in Seq(A) /\ t \in Seq(A) /\ SameTo(s, t, k)
      BY <1>6, <1>7, <1>8 DEF SameTo
    <2>2. k \in Nat
      BY <1>4
    <2> QED
      BY <2>1, <2>2, SameSeq
  <1>10. ASSUME NEW i \in 1..(n + e)
         PROVE  Dead(r, i)
    <2>1. CASE i \in 1..n
      BY <2>1
    <2>2. CASE i \notin 1..n
      <3>1. PICK x \in 1..e : i = n + x
        <4>1. i - n \in 1..e /\ i = n + (i - n)
          BY <2>2
        <4> QED
          BY <4>1
      <3>2. Dead(rest, x) /\ x \in 1..l /\ r[i] = rest[x]
        BY <1>1, <1>2, <1>3, <1>4, <3>1
      <3>3. ASSUME x + 1 <= l
            PROVE  r[i + 1] = rest[x + 1] /\ i + 1 <= Len(r)
        <4>1. x + 1 \in 1..l /\ n + (x + 1) = i + 1
          BY <3>1, <3>3
        <4>2. r[n + (x + 1)] = rest[x + 1]
          BY <1>2, <4>1
        <4>3. i + 1 <= Len(r)
          BY <1>4, <3>1, <3>3
        <4> QED
          BY <4>1, <4>2, <4>3
      <3>4. x + 2 <= l => i + 2 <= Len(r)
        BY <1>4, <3>1
      <3> QED
        BY <1>2, <3>2, <3>3, <3>4 DEF Dead
    <2> QED
      BY <2>1, <2>2
  <1>11. Waits(r, t)
    <2>1. k <= Len(r) /\ Len(r) - k = n + e
      BY <1>4
    <2>2. t = SubSeq(r, Len(r) - k + 1, Len(r))
      BY <2>1 DEF t
    <2> QED
      BY <1>10, <2>1, <2>2 DEF Waits
  <1> QED
    BY <1>5, <1>6, <1>9, <1>11

\* Counting requests: one, or more than one.
LEMMA CountIs ==
  ASSUME NEW n \in Nat, NEW S \in SUBSET (1..n)
  PROVE  /\ Cardinality(S) \in Nat
         /\ Cardinality(S) > 0 <=> S # {}
         /\ Cardinality(S) > 1 <=> \E x, y \in S : x # y
  <1>1. IsFiniteSet(S)
    <2>1. IsFiniteSet(1..n)
      BY FS_Interval
    <2> QED
      BY <2>1, FS_Subset
  <1>2. Cardinality(S) \in Nat /\ (Cardinality(S) = 0 <=> S = {})
    BY <1>1, FS_CardinalityType, FS_EmptySet
  <1>3. ASSUME NEW x \in S
        PROVE  Cardinality(S) > 1 <=> S \ {x} # {}
    <2>1. IsFiniteSet(S \ {x}) /\ Cardinality(S \ {x}) = Cardinality(S) - 1
      BY <1>1, FS_RemoveElement
    <2>2. Cardinality(S \ {x}) \in Nat /\ (Cardinality(S \ {x}) = 0 <=> S \ {x} = {})
      BY <2>1, FS_CardinalityType, FS_EmptySet
    <2>3. Cardinality(S) > 1 <=> Cardinality(S \ {x}) # 0
      BY <1>2, <2>1, <2>2
    <2> QED
      BY <2>2, <2>3
  <1>4. ASSUME Cardinality(S) > 1
        PROVE  \E x, y \in S : x # y
    <2>1. S # {}
      BY <1>2, <1>4
    <2>2. PICK x \in S : TRUE
      BY <2>1
    <2>3. S \ {x} # {}
      BY <1>3, <1>4
    <2> QED
      BY <2>3
  <1>5. ASSUME NEW x \in S, NEW y \in S, x # y
        PROVE  Cardinality(S) > 1
    <2>1. S \ {x} # {}
      BY <1>5
    <2> QED
      BY <1>3, <2>1
  <1>6. Cardinality(S) > 0 <=> S # {}
    <2>1. PICK c \in Nat : c = Cardinality(S)
      BY <1>2
    <2>2. c > 0 <=> c # 0
      OBVIOUS
    <2> QED
      BY <1>2, <2>1, <2>2
  <1> QED
    BY <1>2, <1>4, <1>5, <1>6

\* A gate that is closed, and what it is given
Bytes == GateBytes \union OutputBytes
Gates == [pending : Seq(Bytes), asked : BOOLEAN, refused : BOOLEAN, passed : BOOLEAN]

\* More than one request in all, if there was none, or there was one, before.
LEMMA CountJoin ==
  ASSUME NEW A, NEW q \in Seq(A), NEW r \in Seq(A), NEW b \in Seq(A), NEW o \in Nat,
         Joined(q, r, b, o), Places(Mark, q) = {}, Cardinality(Asks(q)) <= 1
  PROVE  /\ Asks(r) = {} <=> Asks(q) = {} /\ Asks(b) = {}
         /\ Cardinality(Asks(r)) > 1 <=>
               Cardinality(Asks(b)) > (IF Asks(q) # {} THEN 0 ELSE 1)
  <1>1. /\ Asks(q) \in SUBSET (1..o) /\ Asks(r) \in SUBSET (1..Len(r))
        /\ Asks(b) \in SUBSET (1..Len(b))
        /\ \A i \in 1..o : i \in Asks(r) <=> i \in Asks(q)
        /\ \A i \in Nat \ {0} : o + i \in Asks(r) <=> i \in Asks(b)
    BY GateJoin
  <1>2. /\ \A i \in Asks(q) : i \in 1..o /\ i \in Asks(r)
        /\ \A i \in Asks(b) : i \in Nat \ {0} /\ o + i \in Asks(r)
    BY <1>1
  <1>3. \A i \in Asks(r) : i \in Asks(q) \/ \E j \in Asks(b) : i = o + j
    <2> TAKE i \in Asks(r)
    <2>1. CASE i \in 1..o
      BY <1>1, <2>1
    <2>2. CASE i \notin 1..o
      <3>1. i \in Nat \ {0}
        BY <1>1
      <3>2. i - o \in Nat \ {0} /\ i = o + (i - o)
        BY <2>2, <3>1
      <3>3. i - o \in Asks(b)
        BY <1>1, <3>2
      <3> QED
        BY <3>2, <3>3
    <2> QED
      BY <2>1, <2>2
  <1>4. Asks(r) = {} <=> Asks(q) = {} /\ Asks(b) = {}
    <2>1. Asks(r) = {} => Asks(q) = {} /\ Asks(b) = {}
      BY <1>2
    <2>2. Asks(q) = {} /\ Asks(b) = {} => Asks(r) = {}
      BY <1>3
    <2> QED
      BY <2>1, <2>2
  <1>5. /\ Cardinality(Asks(q)) > 1 <=> \E x, y \in Asks(q) : x # y
        /\ Cardinality(Asks(b)) > 1 <=> \E x, y \in Asks(b) : x # y
        /\ Cardinality(Asks(r)) > 1 <=> \E x, y \in Asks(r) : x # y
        /\ Cardinality(Asks(b)) > 0 <=> Asks(b) # {}
        /\ Cardinality(Asks(q)) \in Nat
    <2>1. Len(r) \in Nat /\ Len(b) \in Nat
      OBVIOUS
    <2> QED
      BY <1>1, <2>1, CountIs
  <1>6. \A x, y \in Asks(q) : x = y
    <2>1. ~(Cardinality(Asks(q)) > 1)
      BY <1>5
    <2> QED
      BY <1>5, <2>1
  <1>7. \A x \in Asks(b), y \in Asks(b) : x # y => o + x # o + y
    BY <1>2
  <1>8. \A x \in Asks(q), y \in Asks(b) : x # o + y
    BY <1>2
  <1>9. CASE Asks(q) = {}
    <2>1. (\E x, y \in Asks(r) : x # y) <=> \E x, y \in Asks(b) : x # y
      BY <1>2, <1>3, <1>7, <1>9
    <2> QED
      BY <1>4, <1>5, <1>9, <2>1
  <1>10. CASE Asks(q) # {}
    <2>1. (\E x, y \in Asks(r) : x # y) <=> Asks(b) # {}
      <3>1. ASSUME Asks(b) = {}
            PROVE  ~\E x, y \in Asks(r) : x # y
        BY <1>3, <1>6, <3>1
      <3>2. ASSUME Asks(b) # {}
            PROVE  \E x, y \in Asks(r) : x # y
        <4>1. PICK x \in Asks(q), y \in Asks(b) : TRUE
          BY <1>10, <3>2
        <4>2. x \in Asks(r) /\ o + y \in Asks(r) /\ x # o + y
          BY <1>2, <1>8, <4>1
        <4> QED
          BY <4>2
      <3> QED
        BY <3>1, <3>2
    <2> QED
      BY <1>4, <1>5, <1>10, <2>1
  <1> QED
    BY <1>9, <1>10

\* What follows the mark is the same of all as of what was kept and the chunk.
LEMMA AfterJoin ==
  ASSUME NEW A, NEW q \in Seq(A), NEW r \in Seq(A), NEW b \in Seq(A), NEW o \in Nat,
         Joined(q, r, b, o), Places(Mark, q) = {}, Places(Mark, b) # {}
  PROVE  After(Mark, MarkAt(r), r) = After(Mark, MarkAt(b), b)
  <1>1. PICK j \in Nat \ {0} : j = MarkAt(b) /\ j + 2 <= Len(b)
    <2>1. /\ MarkAt(b) \in 1..(Len(b) + 1)
          /\ WordAt(b, MarkAt(b), "m")
      BY MarkIs, WordsAre
    <2>2. PICK j \in 1..(Len(b) + 1) : j = MarkAt(b)
      BY <2>1
    <2>3. j \in 1..(Len(b) - 2)
      BY <2>1, <2>2 DEF WordAt
    <2>4. PICK l \in Nat : l = Len(b)
      OBVIOUS
    <2>5. j \in Nat \ {0} /\ j + 2 <= Len(b)
      BY <2>3, <2>4
    <2> QED
      BY <2>2, <2>5
  <1>2. MarkAt(r) = o + j
    BY <1>1, GateJoin
  <1>3. PICK k \in Nat : Len(b) = j + 2 + k
    <2>1. PICK l \in Nat : l = Len(b)
      OBVIOUS
    <2>2. l - (j + 2) \in Nat /\ l = j + 2 + (l - (j + 2))
      BY <1>1, <2>1
    <2> QED
      BY <2>1, <2>2
  <1>4. PICK m \in Nat : m = j + 2
    OBVIOUS
  <1>5. PICK n \in Nat : n = o + j + 2
    OBVIOUS
  <1>6. Len(b) = m + k /\ Len(r) = n + k
    BY <1>3, <1>4, <1>5 DEF Joined
  <1> DEFINE s == SubSeq(b, m + 1, Len(b))
             t == SubSeq(r, n + 1, Len(r))
  <1>7. After(Mark, MarkAt(b), b) = s
    <2>1. MarkAt(b) + Len(Mark) = m + 1
      BY <1>1, <1>4 DEF Mark
    <2> QED
      BY <2>1 DEF After
  <1>8. After(Mark, MarkAt(r), r) = t
    <2>1. MarkAt(r) + Len(Mark) = n + 1
      BY <1>2, <1>5 DEF Mark
    <2> QED
      BY <2>1 DEF After
  <1>9. s = SubSeq(b, m + 1, Len(b)) /\ t = SubSeq(r, n + 1, Len(r))
    OBVIOUS
  <1> HIDE DEF s, t
  <1>10. s \in Seq(A) /\ Len(s) = k /\ \A i \in 1..k : s[i] = b[m + i]
    <2>1. EndOf(s, b, m, k)
      BY <1>6, <1>9 DEF EndOf
    <2> QED
      BY <2>1, EndIs
  <1>11. t \in Seq(A) /\ Len(t) = k /\ \A i \in 1..k : t[i] = r[n + i]
    <2>1. EndOf(t, r, n, k)
      BY <1>6, <1>9 DEF EndOf
    <2> QED
      BY <2>1, EndIs
  <1>12. \A i \in 1..k : s[i] = t[i]
    <2> TAKE i \in 1..k
    <2>1. m + i \in 1..Len(b) /\ o + (m + i) = n + i
      BY <1>4, <1>5, <1>6
    <2>2. r[o + (m + i)] = b[m + i]
      BY <2>1 DEF Joined
    <2> QED
      BY <1>10, <1>11, <2>1, <2>2
  <1>13. s = t
    <2>1. s \in Seq(A) /\ t \in Seq(A) /\ SameTo(s, t, k)
      BY <1>10, <1>11, <1>12 DEF SameTo
    <2> QED
      BY <2>1, SameSeq
  <1> QED
    BY <1>7, <1>8, <1>13

\* All that was read in terms of what was kept and the chunk.
LEMMA GateRead ==
  ASSUME NEW A, NEW q \in Seq(A), NEW r \in Seq(A), NEW b \in Seq(A), NEW o \in Nat,
         Joined(q, r, b, o), Places(Mark, q) = {}, Cardinality(Asks(q)) <= 1
  PROVE  /\ Places(Mark, r) = {} <=> Places(Mark, b) = {}
         /\ Asks(r) = {} <=> Asks(q) = {} /\ Asks(b) = {}
         /\ Cardinality(Asks(r)) > 1 <=>
               Cardinality(Asks(b)) > (IF Asks(q) # {} THEN 0 ELSE 1)
         /\ Places(Mark, b) # {} => After(Mark, MarkAt(r), r) = After(Mark, MarkAt(b), b)
         /\ Waits(r, SuffixPrefix(RestOf(b))) /\ SuffixPrefix(RestOf(b)) \in Seq(A)
  <1>1. Places(Mark, r) = {} <=> Places(Mark, b) = {}
    BY GateJoin
  <1>2. Asks(b) \in SUBSET (1..Len(b))
    BY GateJoin
  <1>3. /\ Asks(r) = {} <=> Asks(q) = {} /\ Asks(b) = {}
        /\ Cardinality(Asks(r)) > 1 <=>
              Cardinality(Asks(b)) > (IF Asks(q) # {} THEN 0 ELSE 1)
    BY CountJoin
  <1>4. Places(Mark, b) # {} => After(Mark, MarkAt(r), r) = After(Mark, MarkAt(b), b)
    BY AfterJoin
  <1>5. /\ RestOf(b) \in Seq(A)
        /\ \E n \in Nat : /\ Len(r) = n + Len(RestOf(b))
                          /\ \A i \in 1..Len(RestOf(b)) : r[n + i] = RestOf(b)[i]
                          /\ \A i \in 1..n : Dead(r, i)
    BY <1>2, RestJoin
  <1>6. Waits(r, SuffixPrefix(RestOf(b))) /\ SuffixPrefix(RestOf(b)) \in Seq(A)
    BY <1>5, KeptWaits
  <1> QED
    BY <1>1, <1>3, <1>4, <1>6

\* What the gate does with a chunk is what it would do with all that was read at
\* once (SudoGate.feed).
LEMMA GateStep ==
  ASSUME got \in Seq(Bytes), NEW c \in Seq(Bytes), gate \in Gates,
         gate.asked <=> Asks(got) # {}, Cardinality(Asks(got)) <= 1,
         Places(Mark, got) = {}, Waits(got, gate.pending),
         NEW f, f = FeedGate(c), NEW r, r = got \o c
  PROVE  /\ r \in Seq(Bytes)
         /\ f.gate \in Gates
         /\ f.gate.asked <=> Asks(r) # {}
         /\ gate.asked => f.gate.asked
         /\ f.gate.refused <=> Cardinality(Asks(r)) > 1
         /\ f.gate.passed <=> Places(Mark, r) # {} /\ ~f.gate.refused
         /\ ~f.gate.passed /\ ~f.gate.refused => Waits(r, f.gate.pending)
         /\ f.sends <=> Asks(got) = {} /\ Asks(r) # {}
         /\ f.output = IF f.gate.passed THEN After(Mark, MarkAt(r), r) ELSE << >>
  <1> DEFINE b == gate.pending \o c
             asks == Asks(b)
             refused == Cardinality(asks) > (IF gate.asked THEN 0 ELSE 1)
             passed == ~refused /\ Places(Mark, b) # {}
             keep == IF refused \/ passed THEN << >> ELSE SuffixPrefix(RestOf(b))
  <1>1. /\ f.gate = [pending |-> keep, asked |-> gate.asked \/ asks # {},
                     refused |-> refused, passed |-> passed]
        /\ f.sends = (~gate.asked /\ asks # {})
        /\ f.output = IF passed THEN After(Mark, MarkAt(b), b) ELSE << >>
    BY DEF FeedGate, RestOf
  <1>2. r \in Seq(Bytes) /\ b \in Seq(Bytes)
    BY WaitsJoin
  <1>3. PICK o \in Nat : Joined(got, r, b, o)
    BY WaitsJoin
  <1> HIDE DEF b
  <1>4. /\ Places(Mark, r) = {} <=> Places(Mark, b) = {}
        /\ Asks(r) = {} <=> Asks(got) = {} /\ asks = {}
        /\ Cardinality(Asks(r)) > 1 <=>
              Cardinality(asks) > (IF Asks(got) # {} THEN 0 ELSE 1)
        /\ Places(Mark, b) # {} => After(Mark, MarkAt(r), r) = After(Mark, MarkAt(b), b)
        /\ Waits(r, SuffixPrefix(RestOf(b))) /\ SuffixPrefix(RestOf(b)) \in Seq(Bytes)
    <2>1. Places(Mark, r) = {} <=> Places(Mark, b) = {}
      BY <1>2, <1>3, GateRead
    <2>2. Asks(r) = {} <=> Asks(got) = {} /\ asks = {}
      BY <1>2, <1>3, CountJoin
    <2>3. Cardinality(Asks(r)) > 1 <=>
             Cardinality(asks) > (IF Asks(got) # {} THEN 0 ELSE 1)
      BY <1>2, <1>3, CountJoin
    <2>4. Places(Mark, b) # {} => After(Mark, MarkAt(r), r) = After(Mark, MarkAt(b), b)
      BY <1>2, <1>3, GateRead
    <2>5. Waits(r, SuffixPrefix(RestOf(b))) /\ SuffixPrefix(RestOf(b)) \in Seq(Bytes)
      BY <1>2, <1>3, GateRead
    <2> QED
      BY <2>1, <2>2, <2>3, <2>4, <2>5
  <1>5. Cardinality(Asks(r)) > 1 <=> refused
    BY <1>4
  <1> HIDE DEF refused
  <1>6. passed <=> ~refused /\ Places(Mark, r) # {}
    BY <1>4
  <1>7. passed => After(Mark, MarkAt(b), b) = After(Mark, MarkAt(r), r)
    BY <1>4
  <1> HIDE DEF passed
  <1>8. keep \in Seq(Bytes) /\ (~refused /\ ~passed => keep = SuffixPrefix(RestOf(b)))
    BY <1>4
  <1> HIDE DEF keep, asks
  <1>9. refused \in BOOLEAN /\ passed \in BOOLEAN
    BY DEF refused, passed
  <1>10. /\ f.gate.pending = keep /\ f.gate.asked = (gate.asked \/ asks # {})
         /\ f.gate.refused = refused /\ f.gate.passed = passed
    BY <1>1
  <1>11. f.gate \in Gates
    BY <1>1, <1>8, <1>9 DEF Gates
  <1>12. f.gate.asked <=> Asks(r) # {}
    BY <1>4, <1>10
  <1>13. ~f.gate.passed /\ ~f.gate.refused => Waits(r, f.gate.pending)
    BY <1>4, <1>8, <1>10
  <1>14. f.sends <=> Asks(got) = {} /\ Asks(r) # {}
    BY <1>1, <1>4
  <1>15. f.output = IF f.gate.passed THEN After(Mark, MarkAt(r), r) ELSE << >>
    BY <1>1, <1>7, <1>10
  <1> QED
    BY <1>2, <1>5, <1>6, <1>10, <1>11, <1>12, <1>13, <1>14, <1>15

\* What comes after the first mark changes neither it nor what was before it.
LEMMA MarkStays ==
  ASSUME NEW A, NEW q \in Seq(A), NEW c \in Seq(A), Places(Mark, q) # {}
  PROVE  /\ q \o c \in Seq(A)
         /\ Places(Mark, q \o c) # {}
         /\ Asks(q \o c) = Asks(q)
         /\ After(Mark, MarkAt(q), q) \in Seq(A)
         /\ After(Mark, MarkAt(q \o c), q \o c) = After(Mark, MarkAt(q), q) \o c
  <1> DEFINE r == q \o c
  <1>1. PICK w \in Nat : w = Len(q)
    OBVIOUS
  <1>2. PICK l \in Nat : l = Len(c)
    OBVIOUS
  <1>3. /\ r \in Seq(A) /\ Len(r) = w + l
        /\ \A i \in 1..w : r[i] = q[i]
        /\ \A i \in (w + 1)..(w + l) : r[i] = c[i - w]
    BY <1>1, <1>2
  <1>4. r = q \o c
    OBVIOUS
  <1> HIDE DEF r
  <1>5. \A d, i : i \in 1..(w - 2) => (WordAt(r, i, d) <=> WordAt(q, i, d))
    <2> TAKE d, i
    <2> HAVE i \in 1..(w - 2)
    <2>1. i \in 1..w /\ i + 1 \in 1..w /\ i + 2 \in 1..w /\ i \in 1..(w + l - 2)
      OBVIOUS
    <2>2. r[i] = q[i] /\ r[i + 1] = q[i + 1] /\ r[i + 2] = q[i + 2]
      BY <1>3, <2>1
    <2> QED
      BY <1>1, <1>3, <2>1, <2>2 DEF WordAt
  <1>6. PICK j \in 1..(w - 2) : j = MarkAt(q) /\ WordAt(q, j, "m")
    <2>1. WordAt(q, MarkAt(q), "m")
      BY MarkIs, WordsAre
    <2>2. MarkAt(q) \in 1..(w - 2)
      BY <1>1, <2>1 DEF WordAt
    <2> QED
      BY <2>1, <2>2
  <1>7. \A i : WordAt(q, i, "m") => j <= i
    BY <1>6, MarkIs, WordsAre
  <1>8. WordAt(r, j, "m")
    BY <1>5, <1>6
  <1>9. MarkAt(r) = j /\ Places(Mark, r) # {}
    <2>1. Places(Mark, r) # {} /\ MarkAt(r) <= j
      BY <1>3, <1>8, MarkIs, WordsAre
    <2>2. WordAt(r, MarkAt(r), "m") /\ MarkAt(r) \in 1..(Len(r) + 1)
      BY <1>3, <2>1, MarkIs, WordsAre
    <2>3. PICK m \in 1..(w + l + 1) : m = MarkAt(r)
      BY <1>3, <2>2
    <2>4. m \in 1..(w - 2) /\ WordAt(r, m, "m")
      BY <1>6, <2>1, <2>2, <2>3
    <2>5. j <= m
      BY <1>5, <1>7, <2>4
    <2> QED
      BY <1>6, <2>1, <2>3, <2>5
  <1>10. Asks(r) = Asks(q)
    <2>1. /\ \A i : i \in Asks(q) <=> WordAt(q, i, "p") /\ i < j
          /\ \A i : i \in Asks(r) <=> WordAt(r, i, "p") /\ i < j
      BY <1>3, <1>6, <1>9, WordsAre DEF Asks
    <2>2. \A i : WordAt(q, i, "p") => i \in 1..(w - 2)
      BY <1>1 DEF WordAt
    <2>3. \A i : WordAt(r, i, "p") /\ i < j => i \in 1..(w - 2)
      BY <1>3 DEF WordAt
    <2>4. \A i : i \in Asks(q) <=> i \in Asks(r)
      BY <1>5, <2>1, <2>2, <2>3
    <2> QED
      BY <2>4
  <1>11. PICK m \in Nat : m = j + 2
    OBVIOUS
  <1>12. PICK k \in Nat : w = m + k
    <2>1. w - m \in Nat /\ w = m + (w - m)
      BY <1>11
    <2> QED
      BY <2>1
  <1> DEFINE s == SubSeq(q, m + 1, Len(q))
             t == SubSeq(r, m + 1, Len(r))
  <1>13. After(Mark, j, q) = s /\ After(Mark, j, r) = t
    <2>1. j + Len(Mark) = m + 1
      BY <1>11 DEF Mark
    <2> QED
      BY <2>1 DEF After
  <1>14. s = SubSeq(q, m + 1, Len(q)) /\ t = SubSeq(r, m + 1, Len(r))
    OBVIOUS
  <1> HIDE DEF s, t
  <1>15. s \in Seq(A) /\ Len(s) = k /\ \A i \in 1..k : s[i] = q[m + i]
    <2>1. Len(q) = m + k
      BY <1>1, <1>12
    <2>2. EndOf(s, q, m, k)
      BY <1>14, <2>1 DEF EndOf
    <2> QED
      BY <2>2, EndIs
  <1>16. t \in Seq(A) /\ Len(t) = k + l /\ \A i \in 1..(k + l) : t[i] = r[m + i]
    <2>1. PICK n \in Nat : n = k + l
      BY <1>2, <1>12
    <2>2. Len(r) = m + n
      BY <1>3, <1>12, <2>1
    <2>3. t \in Seq(A) /\ Len(t) = n /\ \A i \in 1..n : t[i] = r[m + i]
      <3>1. r \in Seq(A)
        BY <1>3
      <3>2. EndOf(t, r, m, n)
        BY <1>14, <2>2 DEF EndOf
      <3> QED
        BY <3>1, <3>2, EndIs
    <2> QED
      BY <2>1, <2>3
  <1>17. t = s \o c
    <2> DEFINE u == s \o c
    <2>1. /\ u \in Seq(A) /\ Len(u) = k + l
          /\ \A i \in 1..k : u[i] = s[i]
          /\ \A i \in (k + 1)..(k + l) : u[i] = c[i - k]
      <3>1. u \in Seq(A) /\ Len(u) = Len(s) + Len(c)
        BY <1>15
      <3>2. \A i \in 1..Len(s) : u[i] = s[i]
        BY <1>15
      <3>3. \A i \in (Len(s) + 1)..(Len(s) + Len(c)) : u[i] = c[i - Len(s)]
        BY <1>15
      <3> HIDE DEF u
      <3> QED
        BY <1>2, <1>15, <3>1, <3>2, <3>3
    <2> HIDE DEF u
    <2>2. \A i \in 1..(k + l) : t[i] = u[i]
      <3> TAKE i \in 1..(k + l)
      <3>1. CASE i \in 1..k
        <4>1. m + i \in 1..w
          BY <1>12, <3>1
        <4> QED
          BY <1>3, <1>15, <1>16, <2>1, <3>1, <4>1
      <3>2. CASE i \in (k + 1)..(k + l)
        <4>1. m + i \in (w + 1)..(w + l) /\ (m + i) - w = i - k
          BY <1>12, <3>2
        <4> QED
          BY <1>3, <1>16, <2>1, <3>2, <4>1
      <3> QED
        BY <3>1, <3>2
    <2>3. t = u
      <3>1. PICK n \in Nat : n = k + l
        OBVIOUS
      <3>2. t \in Seq(A) /\ u \in Seq(A) /\ Len(t) = n /\ Len(u) = n
        BY <1>16, <2>1, <3>1
      <3>3. \A i \in 1..n : t[i] = u[i]
        BY <2>2, <3>1
      <3> QED
        BY <3>2, <3>3
    <2> QED
      BY <2>3 DEF u
  <1> QED
    BY <1>3, <1>6, <1>9, <1>10, <1>13, <1>15, <1>17 DEF r

-----------------------------------------------------------------------------
(* The text: the decoder. *)

\* Induction over sequences, for a set of them.
LEMMA SeqSetInduction ==
  ASSUME NEW A, NEW S \in SUBSET Seq(A), << >> \in S,
         \A q \in S, x \in A : Append(q, x) \in S
  PROVE  S = Seq(A)
  <1> DEFINE N == {n \in Nat : \A q \in Seq(A) : Len(q) = n => q \in S}
  <1>1. 0 \in N
    <2>1. \A q \in Seq(A) : Len(q) = 0 => q = << >>
      OBVIOUS
    <2> QED
      BY <2>1
  <1>2. ASSUME NEW n \in N
        PROVE  n + 1 \in N
    <2>1. n \in Nat /\ \A q \in Seq(A) : Len(q) = n => q \in S
      OBVIOUS
    <2> HIDE DEF N
    <2>2. ASSUME NEW q \in Seq(A), Len(q) = n + 1
          PROVE  q \in S
      <3> DEFINE front == SubSeq(q, 1, n)
      <3>1. front \in Seq(A) /\ Len(front) = n /\ \A i \in 1..n : front[i] = q[i]
        <4>1. \A i \in 1..n : q[i] \in A
          BY <2>1, <2>2
        <4>2. n \in Int
          BY <2>1
        <4>3. front \in Seq(A)
          BY <4>1, <4>2, SubSeqProperties
        <4>4. Len(front) = IF 1 <= n THEN n - 1 + 1 ELSE 0
          BY <4>1, <4>2, SubSeqProperties
        <4>5. \A i \in 1..(n - 1 + 1) : front[i] = q[1 + i - 1]
          BY <4>1, <4>2, SubSeqProperties
        <4> HIDE DEF front
        <4>6. Len(front) = n
          BY <2>1, <4>4
        <4>7. \A i \in 1..n : front[i] = q[i]
          BY <4>2, <4>5
        <4> QED
          BY <4>3, <4>6, <4>7
      <3> HIDE DEF front
      <3>2. q[n + 1] \in A /\ q = Append(front, q[n + 1])
        <4>1. q[n + 1] \in A
          BY <2>1, <2>2
        <4>5. PICK y \in A : y = q[n + 1]
          BY <4>1
        <4> DEFINE d == Append(front, y)
        <4>6. d \in Seq(A) /\ Len(d) = Len(front) + 1 /\ d[Len(front) + 1] = y
          BY <3>1
        <4>7. \A i \in 1..Len(front) : d[i] = front[i]
          BY <3>1
        <4>2. /\ d \in Seq(A) /\ Len(d) = n + 1 /\ d[n + 1] = q[n + 1]
              /\ \A i \in 1..n : d[i] = q[i]
          <5> HIDE DEF d
          <5> QED
            BY <3>1, <4>5, <4>6, <4>7
        <4> HIDE DEF d
        <4>3. \A i \in 1..(n + 1) : d[i] = q[i]
          <5> TAKE i \in 1..(n + 1)
          <5>1. i = n + 1 \/ i \in 1..n
            BY <2>1
          <5> QED
            BY <4>2, <5>1
        <4>4. d = q
          BY <2>1, <2>2, <4>2, <4>3
        <4> QED
          BY <4>1, <4>4, <4>5 DEF d
      <3>3. front \in S
        BY <2>1, <3>1
      <3> HIDE DEF front
      <3> QED
        BY <3>2, <3>3
    <2> QED
      BY <2>1, <2>2 DEF N
  <1>3. N = Nat
    <2>1. N \in SUBSET Nat
      OBVIOUS
    <2> HIDE DEF N
    <2> QED
      BY <1>1, <1>2, <2>1, NatSetInduction
  <1>4. ASSUME NEW q \in Seq(A)
        PROVE  q \in S
    <2>1. Len(q) \in N
      BY <1>3
    <2> QED
      BY <2>1
  <1> QED
    BY <1>4

\* A byte that begins a character is the last of q
Begun(q) == q # << >> /\ q[Len(q)] = "lead"

\* What the byte at place i of q adds
Part(q, i) == CharsOf(q[i], i > 1 /\ q[i - 1] = "lead")

\* f[i] is what the first i bytes of q are decoded to, for each i up to m.
Decodes(f, q, m) ==
  /\ f = [i \in 0..m |-> f[i]]
  /\ f[0] = << >>
  /\ \A i \in 1..m : f[i] = f[i - 1] \o Part(q, i)

\* There is such a function.
LEMMA DecodesExist ==
  ASSUME NEW q, NEW m \in Nat
  PROVE  \E f : Decodes(f, q, m)
  <1> DEFINE S == {n \in Nat : \E f : Decodes(f, q, n)}
  <1>1. 0 \in S
    <2>1. Decodes([i \in 0..0 |-> << >>], q, 0)
      BY DEF Decodes
    <2> QED
      BY <2>1
  <1>2. ASSUME NEW n \in S
        PROVE  n + 1 \in S
    <2>1. PICK f : Decodes(f, q, n)
      BY <1>2
    <2>2. n \in Nat
      BY <1>2
    <2> DEFINE last == f[n] \o Part(q, n + 1)
               more == [i \in 0..(n + 1) |-> IF i = n + 1 THEN last ELSE f[i]]
    <2>3. /\ more = [i \in 0..(n + 1) |-> more[i]] /\ more[n + 1] = last
          /\ \A i \in 0..n : more[i] = f[i]
      BY <2>2
    <2>4. last = more[n] \o Part(q, n + 1)
      BY <2>2, <2>3
    <2> HIDE DEF last, more
    <2>5. more[0] = << >>
      <3>1. 0 \in 0..n /\ f[0] = << >>
        BY <2>1, <2>2 DEF Decodes
      <3> QED
        BY <2>3, <3>1
    <2>6. ASSUME NEW i \in 1..(n + 1)
          PROVE  more[i] = more[i - 1] \o Part(q, i)
      <3>1. CASE i = n + 1
        <4>1. i - 1 = n
          BY <2>2, <3>1
        <4> QED
          BY <2>3, <2>4, <3>1, <4>1
      <3>2. CASE i \in 1..n
        <4>1. i \in 0..n /\ i - 1 \in 0..n
          BY <2>2, <3>2
        <4>2. more[i] = f[i] /\ more[i - 1] = f[i - 1]
          BY <2>3, <4>1
        <4>3. f[i] = f[i - 1] \o Part(q, i)
          BY <2>1, <3>2 DEF Decodes
        <4> QED
          BY <4>2, <4>3
      <3> QED
        BY <2>2, <3>1, <3>2
    <2>7. Decodes(more, q, n + 1)
      BY <2>3, <2>5, <2>6 DEF Decodes
    <2> QED
      BY <2>2, <2>7
  <1>3. S = Nat
    <2> HIDE DEF S
    <2>1. S \in SUBSET Nat
      BY DEF S
    <2> QED
      BY <1>1, <1>2, <2>1, NatSetInduction
  <1> QED
    BY <1>3

\* It depends on that byte and the one before.
LEMMA PartAgrees ==
  ASSUME NEW p, NEW q, NEW m \in Nat, NEW i \in Nat, i + 1 \in 1..m,
         \A j \in 1..m : p[j] = q[j]
  PROVE  Part(p, i + 1) = Part(q, i + 1)
  <1>1. p[i + 1] = q[i + 1]
    OBVIOUS
  <1>2. i + 1 > 1 => p[(i + 1) - 1] = q[(i + 1) - 1]
    OBVIOUS
  <1>3. CASE i + 1 > 1
    <2>1. p[(i + 1) - 1] = q[(i + 1) - 1]
      BY <1>2, <1>3
    <2> QED
      BY <1>1, <1>3, <2>1 DEF Part
  <1>4. CASE ~(i + 1 > 1)
    BY <1>1, <1>4 DEF Part, CharsOf
  <1> QED
    BY <1>3, <1>4

\* There is one only.
LEMMA DecodesAgree ==
  ASSUME NEW f, NEW g, NEW p, NEW q, NEW m \in Nat, NEW n \in Nat, m <= n,
         Decodes(f, p, m), Decodes(g, q, n), \A i \in 1..m : p[i] = q[i]
  PROVE  f[m] = g[m]
  <1> DEFINE S == {i \in Nat : i <= m => f[i] = g[i]}
  <1>1. 0 \in S
    BY DEF Decodes
  <1>2. ASSUME NEW i \in S
        PROVE  i + 1 \in S
    <2>1. i \in Nat /\ (i <= m => f[i] = g[i])
      BY <1>2
    <2>2. ASSUME i + 1 <= m
          PROVE  f[i + 1] = g[i + 1]
      <3>1. i + 1 \in 1..m /\ i + 1 \in 1..n /\ (i + 1) - 1 = i /\ i <= m
        BY <2>1, <2>2
      <3>2. f[i + 1] = f[i] \o Part(p, i + 1) /\ g[i + 1] = g[i] \o Part(q, i + 1)
        BY <3>1 DEF Decodes
      <3>3. Part(p, i + 1) = Part(q, i + 1)
        BY <2>1, <3>1, PartAgrees
      <3> QED
        BY <2>1, <3>1, <3>2, <3>3
    <2> QED
      BY <2>1, <2>2
  <1>3. S = Nat
    <2> HIDE DEF S
    <2>1. S \in SUBSET Nat
      BY DEF S
    <2> QED
      BY <1>1, <1>2, <2>1, NatSetInduction
  <1>4. m \in S
    BY <1>3
  <1> QED
    BY <1>4

\* Decode is that function's last value.
LEMMA DecodeIs ==
  ASSUME NEW A, NEW q \in Seq(A)
  PROVE  \E f : Decodes(f, q, Len(q)) /\ Decode(q) = f[Len(q)]
  <1> DEFINE D(f) == [i \in 0..Len(q) |-> IF i = 0 THEN << >>
                        ELSE f[i - 1] \o Part(q, i)]
             g == CHOOSE f : f = D(f)
  <1>1. Decode(q) = g[Len(q)]
    BY DEF Decode, Part
  <1>2. PICK n \in Nat : n = Len(q)
    OBVIOUS
  <1>3. PICK f : Decodes(f, q, n)
    BY DecodesExist
  <1>4. D(f) = f
    <2>1. f = [i \in 0..n |-> f[i]]
      BY <1>3 DEF Decodes
    <2>2. ASSUME NEW i \in 0..n
          PROVE  f[i] = IF i = 0 THEN << >>
                        ELSE f[i - 1] \o Part(q, i)
      <3>1. CASE i = 0
        BY <1>3, <3>1 DEF Decodes
      <3>2. CASE i # 0
        <4>1. i \in 1..n
          BY <3>2
        <4> QED
          BY <1>3, <3>2, <4>1 DEF Decodes
      <3> QED
        BY <3>1, <3>2
    <2> QED
      BY <1>2, <2>1, <2>2
  <1>5. g = D(g)
    BY <1>4
  <1> HIDE DEF g
  <1>6. Decodes(g, q, n)
    <2>1. g = [i \in 0..n |-> g[i]]
      BY <1>2, <1>5
    <2>2. ASSUME NEW i \in 0..n
          PROVE  g[i] = IF i = 0 THEN << >>
                        ELSE g[i - 1] \o Part(q, i)
      BY <1>2, <1>5
    <2>3. g[0] = << >>
      BY <2>2
    <2>4. ASSUME NEW i \in 1..n
          PROVE  g[i] = g[i - 1] \o Part(q, i)
      <3>1. i \in 0..n /\ i # 0
        OBVIOUS
      <3> QED
        BY <2>2, <3>1
    <2> QED
      BY <2>1, <2>3, <2>4 DEF Decodes
  <1> QED
    BY <1>1, <1>2, <1>6 DEF g

\* One byte more.
LEMMA DecodeNext ==
  ASSUME NEW A, NEW q \in Seq(A), NEW x \in A
  PROVE  Decode(Append(q, x)) = Decode(q) \o CharsOf(x, Begun(q))
  <1> DEFINE r == Append(q, x)
  <1>1. PICK n \in Nat : n = Len(q)
    OBVIOUS
  <1>2. r \in Seq(A) /\ Len(r) = n + 1 /\ r[n + 1] = x /\ \A i \in 1..n : r[i] = q[i]
    BY <1>1
  <1> HIDE DEF r
  <1>3. PICK f : Decodes(f, q, n) /\ Decode(q) = f[n]
    BY <1>1, DecodeIs
  <1>4. PICK g : Decodes(g, r, n + 1) /\ Decode(r) = g[n + 1]
    BY <1>2, DecodeIs
  <1>5. f[n] = g[n]
    <2>1. n + 1 \in Nat /\ n <= n + 1 /\ \A i \in 1..n : q[i] = r[i]
      BY <1>2
    <2> QED
      BY <1>3, <1>4, <2>1, DecodesAgree
  <1>6. g[n + 1] = g[n] \o Part(r, n + 1)
    <2>1. n + 1 \in 1..(n + 1) /\ (n + 1) - 1 = n
      OBVIOUS
    <2> QED
      BY <1>4, <2>1 DEF Decodes
  <1>7. Part(r, n + 1) = CharsOf(x, Begun(q))
    <2>1. CASE n = 0
      <3>1. q = << >> /\ ~(n + 1 > 1)
        <4>1. Len(q) = 0
          BY <1>1, <2>1
        <4>2. q = << >>
          BY <4>1
        <4> QED
          BY <2>1, <4>2
      <3>2. ~Begun(q) /\ r[n + 1] = x
        BY <1>2, <3>1 DEF Begun
      <3> QED
        BY <3>1, <3>2 DEF Part, CharsOf
    <2>2. CASE n # 0
      <3>1. q # << >> /\ n + 1 > 1 /\ (n + 1) - 1 = n /\ r[n] = q[n] /\ r[n + 1] = x
        BY <1>1, <1>2, <2>2
      <3>2. Begun(q) <=> r[n] = "lead"
        BY <1>1, <3>1 DEF Begun
      <3> QED
        BY <3>1, <3>2 DEF Part, CharsOf
    <2> QED
      BY <2>1, <2>2
  <1> QED
    BY <1>3, <1>4, <1>5, <1>6, <1>7 DEF r

\* What bytes are decoded to
Chars == Bytes \union {"wide", "?"}

\* Nothing, and no other characters.
LEMMA DecodeType ==
  /\ Decode(<< >>) = << >>
  /\ \A q \in Seq(Bytes) : Decode(q) \in Seq(Chars)
  <1>1. Decode(<< >>) = << >>
    <2>1. << >> \in Seq(Bytes) /\ Len(<< >>) = 0
      OBVIOUS
    <2>2. PICK f : Decodes(f, << >>, 0) /\ Decode(<< >>) = f[0]
      BY <2>1, DecodeIs
    <2> QED
      BY <2>2 DEF Decodes
  <1> DEFINE S == {q \in Seq(Bytes) : Decode(q) \in Seq(Chars)}
  <1>2. << >> \in S
    <2>1. << >> \in Seq(Bytes) /\ << >> \in Seq(Chars)
      OBVIOUS
    <2> QED
      BY <1>1, <2>1
  <1>3. ASSUME NEW q \in S, NEW x \in Bytes
        PROVE  Append(q, x) \in S
    <2>1. q \in Seq(Bytes) /\ Decode(q) \in Seq(Chars) /\ Append(q, x) \in Seq(Bytes)
      OBVIOUS
    <2>2. Decode(Append(q, x)) = Decode(q) \o CharsOf(x, Begun(q))
      BY <2>1, DecodeNext
    <2>3. x \in Chars /\ "?" \in Chars /\ "wide" \in Chars
      BY DEF Chars
    <2>4. CharsOf(x, Begun(q)) \in Seq(Chars)
      <3>1. CASE Begun(q)
        BY <2>3, <3>1 DEF CharsOf
      <3>2. CASE ~Begun(q)
        BY <2>3, <3>2 DEF CharsOf
      <3> QED
        BY <3>1, <3>2
    <2>5. Decode(Append(q, x)) \in Seq(Chars)
      BY <2>1, <2>2, <2>4
    <2> QED
      BY <2>1, <2>5
  <1>4. S = Seq(Bytes)
    <2>1. S \in SUBSET Seq(Bytes)
      OBVIOUS
    <2> HIDE DEF S
    <2> QED
      BY <1>2, <1>3, <2>1, SeqSetInduction
  <1> QED
    BY <1>1, <1>4

\* Two sequences joined.
LEMMA JoinIs ==
  ASSUME NEW A, NEW p \in Seq(A), NEW q \in Seq(A), NEW m \in Nat, NEW n \in Nat,
         m = Len(p), n = Len(q)
  PROVE  /\ p \o q \in Seq(A)
         /\ Len(p \o q) = m + n
         /\ \A i \in 1..m : (p \o q)[i] = p[i]
         /\ \A i \in (m + 1)..(m + n) : (p \o q)[i] = q[i - m]
  OBVIOUS

\* Three sequences, joined either way.
LEMMA ThreeJoin ==
  ASSUME NEW A, NEW a \in Seq(A), NEW b \in Seq(A), NEW c \in Seq(A)
  PROVE  (a \o b) \o c = a \o (b \o c)
  <1> DEFINE ab == a \o b
             bc == b \o c
             left == ab \o c
             right == a \o bc
  <1>1. PICK k \in Nat, m \in Nat, n \in Nat : k = Len(a) /\ m = Len(b) /\ n = Len(c)
    OBVIOUS
  <1>2. /\ ab \in Seq(A) /\ Len(ab) = k + m
        /\ \A i \in 1..k : ab[i] = a[i]
        /\ \A i \in (k + 1)..(k + m) : ab[i] = b[i - k]
    BY <1>1
  <1>3. /\ bc \in Seq(A) /\ Len(bc) = m + n
        /\ \A i \in 1..m : bc[i] = b[i]
        /\ \A i \in (m + 1)..(m + n) : bc[i] = c[i - m]
    BY <1>1
  <1> HIDE DEF ab, bc
  <1>4. /\ left \in Seq(A) /\ Len(left) = k + m + n
        /\ \A i \in 1..(k + m) : left[i] = ab[i]
        /\ \A i \in (k + m + 1)..(k + m + n) : left[i] = c[i - (k + m)]
    <2>1. PICK d \in Nat : d = k + m
      OBVIOUS
    <2>2. /\ left \in Seq(A) /\ Len(left) = d + n
          /\ \A i \in 1..d : left[i] = ab[i]
          /\ \A i \in (d + 1)..(d + n) : left[i] = c[i - d]
      <3>1. ab \in Seq(A) /\ d = Len(ab)
        BY <1>2, <2>1
      <3> QED
        BY <1>1, <3>1, JoinIs
    <2> HIDE DEF left
    <2> QED
      BY <2>1, <2>2
  <1>5. /\ right \in Seq(A) /\ Len(right) = k + m + n
        /\ \A i \in 1..k : right[i] = a[i]
        /\ \A i \in (k + 1)..(k + m + n) : right[i] = bc[i - k]
    <2>1. PICK d \in Nat : d = m + n
      OBVIOUS
    <2>2. /\ right \in Seq(A) /\ Len(right) = k + d
          /\ \A i \in 1..k : right[i] = a[i]
          /\ \A i \in (k + 1)..(k + d) : right[i] = bc[i - k]
      <3>1. bc \in Seq(A) /\ d = Len(bc)
        BY <1>3, <2>1
      <3> QED
        BY <1>1, <3>1, JoinIs
    <2> HIDE DEF right
    <2> QED
      BY <2>1, <2>2
  <1> HIDE DEF left, right
  <1>6. ASSUME NEW i \in 1..(k + m + n)
        PROVE  left[i] = right[i]
    <2>1. CASE i \in 1..k
      BY <1>2, <1>4, <1>5, <2>1
    <2>2. CASE i \in (k + 1)..(k + m)
      <3>1. i - k \in 1..m /\ i \in 1..(k + m) /\ i \in (k + 1)..(k + m + n)
        BY <2>2
      <3> QED
        BY <1>2, <1>3, <1>4, <1>5, <2>2, <3>1
    <2>3. CASE i \in (k + m + 1)..(k + m + n)
      <3>1. /\ i - k \in (m + 1)..(m + n) /\ i \in (k + 1)..(k + m + n)
            /\ (i - k) - m = i - (k + m)
        BY <2>3
      <3> QED
        BY <1>3, <1>4, <1>5, <2>3, <3>1
    <2> QED
      BY <2>1, <2>2, <2>3
  <1>7. left = right
    <2>1. PICK d \in Nat : d = k + m + n
      BY <1>1
    <2>2. Len(left) = d /\ Len(right) = d /\ \A i \in 1..d : left[i] = right[i]
      <3>1. Len(left) = d
        BY <1>4, <2>1
      <3>2. Len(right) = d
        BY <1>5, <2>1
      <3>3. \A i \in 1..d : left[i] = right[i]
        BY <1>6, <2>1
      <3> QED
        BY <3>1, <3>2, <3>3
    <2>3. left \in Seq(A) /\ right \in Seq(A)
      BY <1>4, <1>5
    <2>4. SameTo(left, right, d)
      BY <2>2 DEF SameTo
    <2> QED
      BY <2>3, <2>4, SameSeq
  <1> QED
    BY <1>7 DEF left, right, ab, bc

\* What a byte adds is characters.
LEMMA CharsOfType ==
  ASSUME NEW x \in Bytes, NEW q
  PROVE  CharsOf(x, Begun(q)) \in Seq(Chars)
  <1>1. x \in Chars /\ "?" \in Chars /\ "wide" \in Chars
    BY DEF Chars
  <1>2. <<"?">> \in Seq(Chars) /\ <<"wide">> \in Seq(Chars) /\ << >> \in Seq(Chars)
    BY <1>1
  <1>3. Append(<<"?">>, x) \in Seq(Chars) /\ Append(<< >>, x) \in Seq(Chars)
    BY <1>1, <1>2
  <1>4. CASE Begun(q)
    <2>1. CharsOf(x, Begun(q)) \in {<<"wide">>, <<"?">>, Append(<<"?">>, x)}
      BY <1>4 DEF CharsOf
    <2> QED
      BY <1>2, <1>3, <2>1
  <1>5. CASE ~Begun(q)
    <2>1. CharsOf(x, Begun(q)) \in {<<"?">>, << >>, Append(<< >>, x)}
      BY <1>5 DEF CharsOf
    <2> QED
      BY <1>2, <1>3, <2>1
  <1> QED
    BY <1>4, <1>5

\* A byte more, and the character it leaves begun or not.
LEMMA BegunNext ==
  ASSUME NEW p \in Seq(Bytes), NEW x \in Bytes
  PROVE  Begun(Append(p, x)) <=> x = "lead"
  <1> DEFINE r == Append(p, x)
  <1>1. PICK n \in Nat : n = Len(p)
    OBVIOUS
  <1>2. Len(r) = n + 1 /\ r[n + 1] = x /\ r # << >>
    BY <1>1
  <1> HIDE DEF r
  <1>3. Begun(r) <=> x = "lead"
    BY <1>1, <1>2 DEF Begun
  <1> QED
    BY <1>3 DEF r

\* Text joined either way.
LEMMA CharsJoin ==
  ASSUME NEW a \in Seq(Chars), NEW b \in Seq(Chars), NEW c \in Seq(Chars)
  PROVE  (a \o b) \o c = a \o (b \o c)
  BY ThreeJoin

\* What the decoder keeps.
LEMMA UnfinishedIs ==
  ASSUME NEW q
  PROVE  /\ Unfinished(q) = IF Begun(q) THEN <<"lead">> ELSE << >>
         /\ Unfinished(q) \in Seq(Bytes)
         /\ Begun(Unfinished(q)) <=> Begun(q)
         /\ Decode(Unfinished(q)) = << >>
  <1>1. Unfinished(q) = IF Begun(q) THEN <<"lead">> ELSE << >>
    BY DEF Unfinished, Begun, Last
  <1>2. "lead" \in Bytes
    BY DEF Bytes, OutputBytes
  <1>3. <<"lead">> \in Seq(Bytes) /\ << >> \in Seq(Bytes)
    BY <1>2
  <1>4. Begun(<<"lead">>) /\ ~Begun(<< >>)
    BY DEF Begun
  <1>5. Decode(<<"lead">>) = << >>
    <2>1. <<"lead">> = Append(<< >>, "lead")
      OBVIOUS
    <2>2. Decode(<<"lead">>) = << >> \o CharsOf("lead", Begun(<< >>))
      BY <1>2, <1>3, <2>1, DecodeNext, DecodeType
    <2>3. CharsOf("lead", Begun(<< >>)) = << >>
      BY <1>4 DEF CharsOf
    <2> QED
      BY <2>2, <2>3
  <1>6. CASE Begun(q)
    BY <1>1, <1>3, <1>4, <1>5, <1>6
  <1>7. CASE ~Begun(q)
    BY <1>1, <1>3, <1>4, <1>7, DecodeType
  <1> QED
    BY <1>1, <1>6, <1>7

\* Decoding in two parts: what the decoder keeps of the first is decoded with the
\* second.
LEMMA DecodeJoin ==
  ASSUME NEW q \in Seq(Bytes), NEW c \in Seq(Bytes)
  PROVE  /\ Decode(q \o c) = Decode(q) \o Decode(Unfinished(q) \o c)
         /\ Unfinished(q \o c) = Unfinished(Unfinished(q) \o c)
  <1>1. PICK u \in Seq(Bytes) : u = Unfinished(q)
    BY UnfinishedIs
  <1>2. Decode(q) \in Seq(Chars)
    BY DecodeType
  <1>3. (Begun(u) <=> Begun(q)) /\ Decode(u) = << >>
    BY <1>1, UnfinishedIs
  <1> DEFINE S == {b \in Seq(Bytes) : /\ Decode(q \o b) = Decode(q) \o Decode(u \o b)
                                      /\ Begun(q \o b) <=> Begun(u \o b)}
  <1>4. << >> \in S
    <2>1. q \o << >> = q /\ u \o << >> = u /\ << >> \in Seq(Bytes)
      OBVIOUS
    <2>2. Decode(q) = Decode(q) \o << >>
      BY <1>2
    <2> QED
      BY <1>3, <2>1, <2>2
  <1>5. ASSUME NEW b \in S, NEW x \in Bytes
        PROVE  Append(b, x) \in S
    <2>1. /\ b \in Seq(Bytes) /\ Append(b, x) \in Seq(Bytes)
          /\ Decode(q \o b) = Decode(q) \o Decode(u \o b)
          /\ Begun(q \o b) <=> Begun(u \o b)
      OBVIOUS
    <2>2. /\ q \o b \in Seq(Bytes) /\ u \o b \in Seq(Bytes)
          /\ q \o Append(b, x) = Append(q \o b, x)
          /\ u \o Append(b, x) = Append(u \o b, x)
      BY <2>1
    <2>3. /\ Decode(Append(q \o b, x)) = Decode(q \o b) \o CharsOf(x, Begun(q \o b))
          /\ Decode(Append(u \o b, x)) = Decode(u \o b) \o CharsOf(x, Begun(u \o b))
      BY <2>2, DecodeNext
    <2>4. CharsOf(x, Begun(q \o b)) = CharsOf(x, Begun(u \o b))
      <3>1. CASE Begun(q \o b)
        BY <2>1, <3>1 DEF CharsOf
      <3>2. CASE ~Begun(q \o b)
        BY <2>1, <3>2 DEF CharsOf
      <3> QED
        BY <3>1, <3>2
    <2>5. Decode(u \o b) \in Seq(Chars) /\ CharsOf(x, Begun(u \o b)) \in Seq(Chars)
      BY <2>2, DecodeType, CharsOfType
    <2>6. Decode(q \o Append(b, x)) = Decode(q) \o Decode(u \o Append(b, x))
      <3>1. PICK z \in Seq(Chars) : z = CharsOf(x, Begun(u \o b))
        BY <2>5
      <3>2. PICK d \in Seq(Chars) : d = Decode(q)
        BY <1>2
      <3>3. PICK e \in Seq(Chars) : e = Decode(u \o b)
        BY <2>5
      <3>4. (d \o e) \o z = d \o (e \o z)
        BY CharsJoin
      <3> QED
        BY <2>1, <2>2, <2>3, <2>4, <3>1, <3>2, <3>3, <3>4
    <2>7. Begun(q \o Append(b, x)) <=> Begun(u \o Append(b, x))
      <3>1. \A p \in Seq(Bytes) : Begun(Append(p, x)) <=> x = "lead"
        BY BegunNext
      <3> QED
        BY <2>2, <3>1
    <2> QED
      BY <2>1, <2>6, <2>7
  <1>6. S = Seq(Bytes)
    <2>1. S \in SUBSET Seq(Bytes)
      OBVIOUS
    <2> HIDE DEF S
    <2> QED
      BY <1>4, <1>5, <2>1, SeqSetInduction
  <1>7. Decode(q \o c) = Decode(q) \o Decode(u \o c) /\ (Begun(q \o c) <=> Begun(u \o c))
    BY <1>6
  <1>8. Unfinished(q \o c) = Unfinished(u \o c)
    BY <1>7, UnfinishedIs
  <1> QED
    BY <1>1, <1>7, <1>8

-----------------------------------------------------------------------------
(* The text: the history. *)

\* f[i] is what h is after the first i characters of q, for each i up to m.
Feeds(f, h, q, m) ==
  /\ f = [i \in 0..m |-> f[i]]
  /\ f[0] = h
  /\ \A i \in 1..m : f[i] = FeedChar(f[i - 1], q[i])

\* There is such a function.
LEMMA FeedsExist ==
  ASSUME NEW h, NEW q, NEW m \in Nat
  PROVE  \E f : Feeds(f, h, q, m)
  <1> DEFINE S == {n \in Nat : \E f : Feeds(f, h, q, n)}
  <1>1. 0 \in S
    <2>1. Feeds([i \in 0..0 |-> h], h, q, 0)
      BY DEF Feeds
    <2> QED
      BY <2>1
  <1>2. ASSUME NEW n \in S
        PROVE  n + 1 \in S
    <2>1. PICK f : Feeds(f, h, q, n)
      BY <1>2
    <2>2. n \in Nat
      BY <1>2
    <2> DEFINE last == FeedChar(f[n], q[n + 1])
               more == [i \in 0..(n + 1) |-> IF i = n + 1 THEN last ELSE f[i]]
    <2>3. /\ more = [i \in 0..(n + 1) |-> more[i]] /\ more[n + 1] = last
          /\ \A i \in 0..n : more[i] = f[i]
      BY <2>2
    <2>4. last = FeedChar(more[n], q[n + 1])
      BY <2>2, <2>3
    <2> HIDE DEF last, more
    <2>5. more[0] = h
      <3>1. 0 \in 0..n /\ f[0] = h
        BY <2>1, <2>2 DEF Feeds
      <3> QED
        BY <2>3, <3>1
    <2>6. ASSUME NEW i \in 1..(n + 1)
          PROVE  more[i] = FeedChar(more[i - 1], q[i])
      <3>1. CASE i = n + 1
        <4>1. i - 1 = n
          BY <2>2, <3>1
        <4> QED
          BY <2>3, <2>4, <3>1, <4>1
      <3>2. CASE i \in 1..n
        <4>1. i \in 0..n /\ i - 1 \in 0..n
          BY <2>2, <3>2
        <4>2. more[i] = f[i] /\ more[i - 1] = f[i - 1]
          BY <2>3, <4>1
        <4>3. f[i] = FeedChar(f[i - 1], q[i])
          BY <2>1, <3>2 DEF Feeds
        <4> QED
          BY <4>2, <4>3
      <3> QED
        BY <2>2, <3>1, <3>2
    <2>7. Feeds(more, h, q, n + 1)
      BY <2>3, <2>5, <2>6 DEF Feeds
    <2> QED
      BY <2>2, <2>7
  <1>3. S = Nat
    <2> HIDE DEF S
    <2>1. S \in SUBSET Nat
      BY DEF S
    <2> QED
      BY <1>1, <1>2, <2>1, NatSetInduction
  <1> QED
    BY <1>3

\* There is one only.
LEMMA FeedsAgree ==
  ASSUME NEW f, NEW g, NEW h, NEW p, NEW q, NEW m \in Nat, NEW n \in Nat, m <= n,
         Feeds(f, h, p, m), Feeds(g, h, q, n), \A i \in 1..m : p[i] = q[i]
  PROVE  f[m] = g[m]
  <1> DEFINE S == {i \in Nat : i <= m => f[i] = g[i]}
  <1>1. 0 \in S
    BY DEF Feeds
  <1>2. ASSUME NEW i \in S
        PROVE  i + 1 \in S
    <2>1. i \in Nat /\ (i <= m => f[i] = g[i])
      BY <1>2
    <2>2. ASSUME i + 1 <= m
          PROVE  f[i + 1] = g[i + 1]
      <3>1. i + 1 \in 1..m /\ i + 1 \in 1..n /\ (i + 1) - 1 = i /\ i <= m
        BY <2>1, <2>2
      <3>2. /\ f[i + 1] = FeedChar(f[i], p[i + 1])
            /\ g[i + 1] = FeedChar(g[i], q[i + 1])
        BY <3>1 DEF Feeds
      <3> QED
        BY <2>1, <3>1, <3>2
    <2> QED
      BY <2>1, <2>2
  <1>3. S = Nat
    <2> HIDE DEF S
    <2>1. S \in SUBSET Nat
      BY DEF S
    <2> QED
      BY <1>1, <1>2, <2>1, NatSetInduction
  <1>4. m \in S
    BY <1>3
  <1> QED
    BY <1>4

\* Feed is that function's last value.
LEMMA FeedIs ==
  ASSUME NEW A, NEW h, NEW q \in Seq(A)
  PROVE  \E f : Feeds(f, h, q, Len(q)) /\ Feed(h, q) = f[Len(q)]
  <1> DEFINE D(f) == [i \in 0..Len(q) |-> IF i = 0 THEN h ELSE FeedChar(f[i - 1], q[i])]
             g == CHOOSE f : f = D(f)
  <1>1. Feed(h, q) = g[Len(q)]
    BY DEF Feed
  <1>2. PICK n \in Nat : n = Len(q)
    OBVIOUS
  <1>3. PICK f : Feeds(f, h, q, n)
    BY FeedsExist
  <1>4. D(f) = f
    <2>1. f = [i \in 0..n |-> f[i]]
      BY <1>3 DEF Feeds
    <2>2. ASSUME NEW i \in 0..n
          PROVE  f[i] = IF i = 0 THEN h ELSE FeedChar(f[i - 1], q[i])
      <3>1. CASE i = 0
        BY <1>3, <3>1 DEF Feeds
      <3>2. CASE i # 0
        <4>1. i \in 1..n
          BY <3>2
        <4> QED
          BY <1>3, <3>2, <4>1 DEF Feeds
      <3> QED
        BY <3>1, <3>2
    <2> QED
      BY <1>2, <2>1, <2>2
  <1>5. g = D(g)
    BY <1>4
  <1> HIDE DEF g
  <1>6. Feeds(g, h, q, n)
    <2>1. g = [i \in 0..n |-> g[i]]
      BY <1>2, <1>5
    <2>2. ASSUME NEW i \in 0..n
          PROVE  g[i] = IF i = 0 THEN h ELSE FeedChar(g[i - 1], q[i])
      BY <1>2, <1>5
    <2>3. g[0] = h
      BY <2>2
    <2>4. ASSUME NEW i \in 1..n
          PROVE  g[i] = FeedChar(g[i - 1], q[i])
      <3>1. i \in 0..n /\ i # 0
        OBVIOUS
      <3> QED
        BY <2>2, <3>1
    <2> QED
      BY <2>1, <2>3, <2>4 DEF Feeds
  <1> QED
    BY <1>1, <1>2, <1>6 DEF g

\* No character at all.
LEMMA FeedNone ==
  ASSUME NEW h
  PROVE  Feed(h, << >>) = h
  <1>1. << >> \in Seq({}) /\ Len(<< >>) = 0
    OBVIOUS
  <1>2. PICK e : Feeds(e, h, << >>, 0) /\ Feed(h, << >>) = e[0]
    BY <1>1, FeedIs
  <1> QED
    BY <1>2 DEF Feeds

\* One character more.
LEMMA FeedNext ==
  ASSUME NEW A, NEW h, NEW q \in Seq(A), NEW x \in A
  PROVE  Feed(h, Append(q, x)) = FeedChar(Feed(h, q), x)
  <1> DEFINE r == Append(q, x)
  <1>1. PICK n \in Nat : n = Len(q)
    OBVIOUS
  <1>2. r \in Seq(A) /\ Len(r) = n + 1 /\ r[n + 1] = x /\ \A i \in 1..n : r[i] = q[i]
    BY <1>1
  <1> HIDE DEF r
  <1>3. PICK f : Feeds(f, h, q, n) /\ Feed(h, q) = f[n]
    BY <1>1, FeedIs
  <1>4. PICK g : Feeds(g, h, r, n + 1) /\ Feed(h, r) = g[n + 1]
    BY <1>2, FeedIs
  <1>5. f[n] = g[n]
    <2>1. n + 1 \in Nat /\ n <= n + 1 /\ \A i \in 1..n : q[i] = r[i]
      BY <1>2
    <2> QED
      BY <1>3, <1>4, <2>1, FeedsAgree
  <1>6. g[n + 1] = FeedChar(g[n], x)
    <2>1. n + 1 \in 1..(n + 1) /\ (n + 1) - 1 = n
      OBVIOUS
    <2>2. g[n + 1] = FeedChar(g[(n + 1) - 1], r[n + 1])
      BY <1>4, <2>1 DEF Feeds
    <2> QED
      BY <1>2, <2>1, <2>2
  <1> QED
    BY <1>3, <1>4, <1>5, <1>6 DEF r

\* Two parts.
LEMMA FeedJoin ==
  ASSUME NEW A, NEW h, NEW a \in Seq(A), NEW c \in Seq(A)
  PROVE  Feed(h, a \o c) = Feed(Feed(h, a), c)
  <1> DEFINE S == {b \in Seq(A) : Feed(h, a \o b) = Feed(Feed(h, a), b)}
  <1>1. << >> \in S
    <2>1. a \o << >> = a /\ << >> \in Seq(A)
      OBVIOUS
    <2>2. Feed(Feed(h, a), << >>) = Feed(h, a)
      <3>1. PICK g : g = Feed(h, a)
        OBVIOUS
      <3>2. Feed(g, << >>) = g
        <4>1. g = Feed(g, << >>)
          BY FeedNone
        <4> QED
          BY <4>1
      <3> QED
        BY <3>1, <3>2
    <2> QED
      BY <2>1, <2>2
  <1>2. ASSUME NEW b \in S, NEW x \in A
        PROVE  Append(b, x) \in S
    <2>1. /\ b \in Seq(A) /\ Append(b, x) \in Seq(A)
          /\ Feed(h, a \o b) = Feed(Feed(h, a), b)
      OBVIOUS
    <2>2. a \o b \in Seq(A) /\ a \o Append(b, x) = Append(a \o b, x)
      BY <2>1
    <2>3. Feed(h, Append(a \o b, x)) = FeedChar(Feed(h, a \o b), x)
      <3>1. PICK p \in Seq(A) : p = a \o b
        BY <2>2
      <3>2. Feed(h, Append(p, x)) = FeedChar(Feed(h, p), x)
        BY FeedNext
      <3> QED
        BY <3>1, <3>2
    <2>4. Feed(Feed(h, a), Append(b, x)) = FeedChar(Feed(Feed(h, a), b), x)
      BY <2>1, FeedNext
    <2> QED
      BY <2>1, <2>2, <2>3, <2>4
  <1>3. S = Seq(A)
    <2>1. S \in SUBSET Seq(A)
      OBVIOUS
    <2> HIDE DEF S
    <2> QED
      BY <1>1, <1>2, <2>1, SeqSetInduction
  <1> QED
    BY <1>3

\* A record with the fields of a history
IsHistory(h) ==
  h = [lines |-> h.lines, line |-> h.line, position |-> h.position,
       fullscreen |-> h.fullscreen, seq |-> h.seq]

\* A history at another batch
At(h, n) == [h EXCEPT !.seq = n]

\* The batch that a history is at does not matter to what a character does to it.
LEMMA CharApart ==
  ASSUME NEW h, IsHistory(h), NEW x, NEW n
  PROVE  /\ IsHistory(FeedChar(h, x))
         /\ FeedChar(At(h, n), x) = At(FeedChar(h, x), n)
  <1> DEFINE g == At(h, n)
  <1>1. /\ g.lines = h.lines /\ g.line = h.line /\ g.position = h.position
        /\ g.fullscreen = h.fullscreen
        /\ g = [lines |-> h.lines, line |-> h.line, position |-> h.position,
                fullscreen |-> h.fullscreen, seq |-> n]
    BY DEF IsHistory, At
  <1>2. /\ IsHistory(WriteLetter(h, x))
        /\ WriteLetter(g, x) = At(WriteLetter(h, x), n)
    BY <1>1 DEF WriteLetter, IsHistory, At
  <1>3. /\ IsHistory(FinishLine(h))
        /\ FinishLine(g) = At(FinishLine(h), n)
    <2> DEFINE all == Append(h.lines, h.line)
               kept == SubSeq(all, Max({0, Len(all) - MaxLines}) + 1, Len(all))
    <2>1. /\ FinishLine(h) = [h EXCEPT !.lines = kept, !.line = << >>, !.position = 0]
          /\ FinishLine(g) = [g EXCEPT !.lines = kept, !.line = << >>, !.position = 0]
      BY <1>1 DEF FinishLine, At
    <2> HIDE DEF kept, g
    <2> QED
      BY <1>1, <2>1 DEF IsHistory, At, g
  <1> QED
    BY <1>1, <1>2, <1>3 DEF FeedChar, IsHistory, At

\* Nor to what any text does.
LEMMA FeedApart ==
  ASSUME NEW A, NEW h, IsHistory(h), NEW n, NEW t \in Seq(A)
  PROVE  /\ IsHistory(Feed(h, t))
         /\ Feed(At(h, n), t) = At(Feed(h, t), n)
  <1> DEFINE S == {q \in Seq(A) : /\ IsHistory(Feed(h, q))
                                  /\ Feed(At(h, n), q) = At(Feed(h, q), n)}
  <1>1. << >> \in S
    <2>1. << >> \in Seq(A) /\ Feed(h, << >>) = h
      BY FeedNone
    <2>2. Feed(At(h, n), << >>) = At(h, n)
      BY FeedNone
    <2> QED
      BY <2>1, <2>2
  <1>2. ASSUME NEW q \in S, NEW x \in A
        PROVE  Append(q, x) \in S
    <2>1. /\ q \in Seq(A) /\ Append(q, x) \in Seq(A)
          /\ IsHistory(Feed(h, q))
          /\ Feed(At(h, n), q) = At(Feed(h, q), n)
      OBVIOUS
    <2>2. Feed(h, Append(q, x)) = FeedChar(Feed(h, q), x)
      BY <2>1, FeedNext
    <2>3. Feed(At(h, n), Append(q, x)) = FeedChar(Feed(At(h, n), q), x)
      BY <2>1, FeedNext
    <2>4. /\ IsHistory(FeedChar(Feed(h, q), x))
          /\ FeedChar(At(Feed(h, q), n), x) = At(FeedChar(Feed(h, q), x), n)
      <3>1. PICK k : k = Feed(h, q)
        OBVIOUS
      <3>2. IsHistory(k)
        BY <2>1, <3>1
      <3>3. IsHistory(FeedChar(k, x))
        BY <3>2, CharApart
      <3>4. FeedChar(At(k, n), x) = At(FeedChar(k, x), n)
        BY <3>2, CharApart
      <3> QED
        BY <3>1, <3>3, <3>4
    <2> QED
      BY <2>1, <2>2, <2>3, <2>4
  <1>3. S = Seq(A)
    <2>1. S \in SUBSET Seq(A)
      OBVIOUS
    <2> HIDE DEF S
    <2> QED
      BY <1>1, <1>2, <2>1, SeqSetInduction
  <1> QED
    BY <1>3

-----------------------------------------------------------------------------
(* The text: its invariant. *)

\* The command's own output, of what was read
Heard == IF gate.passed THEN After(Mark, MarkAt(got), got) ELSE << >>

\* What the history keeps is the text t.
Shown(t) == history = At(Feed(NoHistory, t), seq)

\* The gate: as GateExact says, and it keeps what may begin a word.
GateInv ==
  /\ got \in Seq(Bytes)
  /\ gate \in Gates
  /\ gate.asked <=> Asks(got) # {}
  /\ gate.passed \/ gate.refused \/ Waits(got, gate.pending)
  /\ GateExact

\* The batcher and the history: each character to be shown is in one of them.
TextInv ==
  /\ text \in Seq(Chars)
  /\ ended \in BOOLEAN
  /\ decoder = IF ended THEN << >> ELSE Unfinished(Heard)
  /\ \E t \in Seq(Chars) : ToShow = t \o text /\ Shown(t)
  /\ ended => text = << >>

LEMMA HeardType ==
  ASSUME got \in Seq(Bytes), GateExact
  PROVE  Heard \in Seq(Bytes) /\ (gate.refused => Heard = << >>)
  <1>1. CASE gate.passed
    <2>1. Places(Mark, got) # {} /\ ~gate.refused
      BY <1>1 DEF GateExact
    <2>2. After(Mark, MarkAt(got), got) \in Seq(Bytes)
      <3>1. << >> \in Seq(Bytes)
        OBVIOUS
      <3> QED
        BY <2>1, <3>1, MarkStays
    <2> QED
      BY <1>1, <2>1, <2>2 DEF Heard
  <1>2. CASE ~gate.passed
    BY <1>2 DEF Heard
  <1> QED
    BY <1>1, <1>2

\* A batch leaves the batcher.
LEMMA EmitShows ==
  ASSUME NEW t \in Seq(Chars), NEW c \in Seq(Chars), Shown(t), Emit(c)
  PROVE  t \o c \in Seq(Chars) /\ text' = << >> /\ Shown(t \o c)'
  <1>1. t \o c \in Seq(Chars)
    OBVIOUS
  <1>2. CASE c = << >>
    <2>1. t \o c = t
      BY <1>2
    <2>2. text' = << >> /\ seq' = seq /\ history' = history
      BY <1>2 DEF Emit
    <2> QED
      BY <1>1, <2>1, <2>2 DEF Shown
  <1>3. CASE c # << >>
    <2>1. text' = << >> /\ seq' = seq + 1 /\ history' = At(Feed(history, c), seq + 1)
      BY <1>3 DEF Emit, At
    <2>2. IsHistory(NoHistory)
      BY DEF IsHistory, NoHistory
    <2>3. PICK h : h = Feed(NoHistory, t)
      OBVIOUS
    <2>4. IsHistory(h)
      BY <2>2, <2>3, FeedApart
    <2>5. history = At(h, seq)
      BY <2>3 DEF Shown
    <2>6. Feed(At(h, seq), c) = At(Feed(h, c), seq)
      BY <2>4, FeedApart
    <2>7. IsHistory(Feed(h, c))
      BY <2>4, FeedApart
    <2>8. PICK g : g = Feed(h, c)
      OBVIOUS
    <2>9. At(At(g, seq), seq + 1) = At(g, seq + 1)
      BY <2>7, <2>8 DEF At, IsHistory
    <2>10. Feed(NoHistory, t \o c) = g
      BY <2>3, <2>8, FeedJoin
    <2>11. history' = At(g, seq + 1)
      BY <2>1, <2>5, <2>6, <2>8, <2>9
    <2> QED
      BY <1>1, <2>1, <2>10, <2>11 DEF Shown
  <1> QED
    BY <1>2, <1>3

\* What is to be shown is what the output decodes to, and at the end what is left
\* of a character.
LEMMA ToShowIs ==
  ASSUME Heard \in Seq(Bytes)
  PROVE  /\ ToShow = Decode(Heard) \o (IF ended /\ Unfinished(Heard) # << >>
                                      THEN <<"?">> ELSE << >>)
         /\ ~ended => ToShow = Decode(Heard)
  <1>1. ToShow = Decode(Heard) \o (IF ended /\ Unfinished(Heard) # << >>
                                 THEN <<"?">> ELSE << >>)
    BY DEF ToShow, Heard
  <1>2. ASSUME ~ended
        PROVE  ToShow = Decode(Heard)
    <2>1. PICK d \in Seq(Chars) : d = Decode(Heard)
      BY DecodeType
    <2>2. ToShow = d \o << >>
      BY <1>1, <1>2, <2>1
    <2> QED
      BY <2>1, <2>2
  <1> QED
    BY <1>1, <1>2

\* The batcher is given more output.
LEMMA AddShows ==
  ASSUME NEW d \in Seq(Bytes), Heard \in Seq(Bytes), Heard' = Heard \o d,
         TextInv, ~ended, ended' = ended, Add(d)
  PROVE  TextInv'
  <1>1. PICK u \in Seq(Bytes), p \in Seq(Bytes) : u = Unfinished(Heard) /\ p = u \o d
    <2>1. PICK u \in Seq(Bytes) : u = Unfinished(Heard)
      BY UnfinishedIs
    <2>2. u \o d \in Seq(Bytes)
      OBVIOUS
    <2> QED
      BY <2>1, <2>2
  <1>2. PICK more \in Seq(Chars) : more = Decode(p)
    BY DecodeType
  <1>3. PICK t \in Seq(Chars) : ToShow = t \o text /\ Shown(t)
    BY DEF TextInv
  <1>4. decoder = u /\ text \in Seq(Chars)
    BY <1>1 DEF TextInv
  <1>5. ToShow' = t \o (text \o more)
    <2>1. ToShow = Decode(Heard)
      BY ToShowIs
    <2>2. ~ended'
      OBVIOUS
    <2>3. ToShow' = Decode(Heard')
      <3>1. Heard' \in Seq(Bytes)
        OBVIOUS
      <3>2. PICK b \in Seq(Chars) : b = Decode(Heard')
        BY <3>1, DecodeType
      <3>3. ToShow' = Decode(Heard') \o << >>
        BY <2>2 DEF ToShow, Heard
      <3> QED
        BY <3>2, <3>3
    <2>4. Decode(Heard \o d) = Decode(Heard) \o Decode(u \o d)
      BY <1>1, DecodeJoin
    <2>5. (t \o text) \o more = t \o (text \o more)
      BY <1>4, CharsJoin
    <2> QED
      BY <1>1, <1>2, <1>3, <2>1, <2>3, <2>4, <2>5
  <1>6. decoder' = Unfinished(Heard')
    <2>1. decoder' = Unfinished(u \o d)
      BY <1>4 DEF Add
    <2>2. Unfinished(Heard \o d) = Unfinished(u \o d)
      BY <1>1, DecodeJoin
    <2> QED
      BY <2>1, <2>2
  <1>7. PICK c \in Seq(Chars) : c = text \o more
    <2>1. text \in Seq(Chars)
      BY <1>4
    <2>2. text \o more \in Seq(Chars)
      BY <2>1
    <2> QED
      BY <2>2
  <1>8. CASE Emit(c)
    <2>1. t \o c \in Seq(Chars) /\ text' = << >> /\ Shown(t \o c)'
      BY <1>3, <1>8, EmitShows
    <2>2. ToShow' = (t \o c) \o text'
      BY <1>5, <1>7, <2>1
    <2>3. << >> \in Seq(Chars)
      OBVIOUS
    <2> QED
      BY <1>6, <2>1, <2>2, <2>3 DEF TextInv
  <1>9. CASE text' = c /\ UNCHANGED <<seq, history>>
    <2>1. Shown(t)'
      BY <1>3, <1>9 DEF Shown
    <2>2. ToShow' = t \o text'
      BY <1>5, <1>7, <1>9
    <2> QED
      BY <1>6, <1>9, <2>1, <2>2 DEF TextInv
  <1>10. Emit(c) \/ (text' = c /\ UNCHANGED <<seq, history>>)
    BY <1>1, <1>2, <1>4, <1>7 DEF Add
  <1> QED
    BY <1>8, <1>9, <1>10

\* A chunk drawn from some bytes is a sequence of them.
LEMMA PiecesAre ==
  ASSUME NEW A, NEW m, NEW p \in Pieces(A, m)
  PROVE  p \in Seq(A)
  <1>1. PICK n \in 0..m : p \in [1..n -> A]
    BY DEF Pieces
  <1>2. n \in Nat
    OBVIOUS
  <1> QED
    BY <1>1, <1>2

\* Text goes on with the end of what is shown.
LEMMA BytesJoin ==
  ASSUME NEW a \in Seq(Bytes), NEW b \in Seq(Bytes)
  PROVE  a \o b \in Seq(Bytes)
  OBVIOUS

\* At first, and without sudo from the first.
LEMMA InitGate ==
  TInit => GateInv
  <1> SUFFICES ASSUME TInit
               PROVE  GateInv
    OBVIOUS
  <1>1. PICK sudo \in BOOLEAN :
           /\ got = IF sudo THEN << >> ELSE Mark
           /\ gate = [pending |-> << >>, asked |-> FALSE, refused |-> FALSE, passed |-> ~sudo]
    BY DEF TInit
  <1>2. gate \in Gates /\ << >> \in Seq(Bytes)
    <2>1. << >> \in Seq(Bytes)
      OBVIOUS
    <2> QED
      BY <1>1, <2>1 DEF Gates
  <1>3. CASE sudo
    <2>1. got = << >> /\ got \in Seq(Bytes)
      BY <1>1, <1>2, <1>3
    <2>2. Places(Mark, got) = {} /\ Asks(got) = {}
      <3>1. \A i : ~WordAt(got, i, "m") /\ ~WordAt(got, i, "p")
        BY <2>1 DEF WordAt
      <3>2. Places(Mark, got) = {} /\ Places(Phrase, got) = {}
        <4>1. /\ \A i : i \in Places(Phrase, got) <=> WordAt(got, i, "p")
              /\ \A i : i \in Places(Mark, got) <=> WordAt(got, i, "m")
          BY <2>1, WordsAre
        <4> QED
          BY <3>1, <4>1
      <3> QED
        BY <3>2 DEF Asks
    <2>3. Cardinality(Asks(got)) = 0
      BY <2>2, FS_EmptySet
    <2>4. Waits(got, << >>)
      <3>1. 0 \in 0..2 /\ 0 <= Len(got) /\ Len(got) = 0
        BY <2>1
      <3>2. << >> = SubSeq(got, Len(got) - 0 + 1, Len(got))
        BY <2>1
      <3>3. \A i \in 1..(Len(got) - 0) : Dead(got, i)
        BY <3>1
      <3> QED
        BY <3>1, <3>2, <3>3 DEF Waits
    <2>5. passwords = 0
      BY DEF TInit
    <2>6. ~gate.passed /\ ~gate.refused /\ ~gate.asked /\ gate.pending = << >>
      BY <1>1, <1>3
    <2>7. GateExact
      BY <2>2, <2>3, <2>5, <2>6 DEF GateExact
    <2> QED
      BY <1>2, <2>1, <2>2, <2>4, <2>6, <2>7 DEF GateInv
  <1>4. CASE ~sudo
    <2>1. got = Mark
      BY <1>1, <1>4
    <2>2. got \in Seq(Bytes) /\ Len(got) = 3 /\ got[1] = "s" /\ got[2] = "n" /\ got[3] = "m"
      <3>1. "s" \in Bytes /\ "n" \in Bytes /\ "m" \in Bytes
        BY DEF Bytes, GateBytes
      <3> QED
        BY <2>1, <3>1 DEF Mark
    <2>3. WordAt(got, 1, "m") /\ \A i : ~WordAt(got, i, "p")
      <3>1. ASSUME NEW i, WordAt(got, i, "p")
            PROVE  FALSE
        <4>1. i = 1
          BY <2>2, <3>1 DEF WordAt
        <4> QED
          BY <2>2, <3>1, <4>1 DEF WordAt
      <3> QED
        BY <2>2, <3>1 DEF WordAt
    <2>4. Places(Mark, got) # {} /\ Places(Phrase, got) = {}
      <3>1. /\ \A i : i \in Places(Phrase, got) <=> WordAt(got, i, "p")
            /\ \A i : i \in Places(Mark, got) <=> WordAt(got, i, "m")
        BY <2>2, WordsAre
      <3> QED
        BY <2>3, <3>1
    <2>5. Asks(got) = {} /\ Cardinality(Asks(got)) = 0
      BY <2>4, FS_EmptySet DEF Asks
    <2>6. gate.passed /\ ~gate.refused /\ ~gate.asked
      BY <1>1, <1>4
    <2>7. passwords = 0
      BY DEF TInit
    <2>8. GateExact
      BY <2>4, <2>5, <2>6, <2>7 DEF GateExact
    <2> QED
      BY <1>2, <2>2, <2>5, <2>6, <2>8 DEF GateInv
  <1> QED
    BY <1>3, <1>4

\* At first there is nothing to show.
LEMMA InitText ==
  TInit => TextInv
  <1> SUFFICES ASSUME TInit
               PROVE  TextInv
    OBVIOUS
  <1>1. GateInv
    BY InitGate
  <1>2. Heard = << >>
    <2>1. PICK sudo \in BOOLEAN :
             /\ got = IF sudo THEN << >> ELSE Mark
             /\ gate = [pending |-> << >>, asked |-> FALSE, refused |-> FALSE, passed |-> ~sudo]
      BY DEF TInit
    <2>2. CASE sudo
      BY <2>1, <2>2 DEF Heard
    <2>3. CASE ~sudo
      <3>1. got = Mark /\ Len(got) = 3
        BY <2>1, <2>3 DEF Mark
      <3>2. MarkAt(got) \in Nat /\ MarkAt(got) >= 1
        BY <1>1, MarkIs DEF GateInv
      <3>3. After(Mark, MarkAt(got), got) = << >>
        BY <3>1, <3>2 DEF After
      <3> QED
        BY <3>3 DEF Heard
    <2> QED
      BY <2>2, <2>3
  <1>3. /\ text = << >> /\ decoder = << >> /\ seq = 0 /\ history = NoHistory /\ ended = FALSE
        /\ << >> \in Seq(Bytes) /\ << >> \in Seq(Chars)
    BY DEF TInit
  <1>4. ~Begun(<< >>)
    BY DEF Begun
  <1>5. decoder = Unfinished(Heard)
    BY <1>2, <1>3, <1>4, UnfinishedIs
  <1>6. ToShow = << >> \o text
    <2>1. ToShow = Decode(Heard)
      BY <1>2, <1>3, ToShowIs
    <2>2. Decode(<< >>) = << >>
      BY DecodeType
    <2> QED
      BY <1>2, <1>3, <2>1, <2>2
  <1>7. Shown(<< >>)
    <2>1. Feed(NoHistory, << >>) = NoHistory
      BY FeedNone
    <2>2. At(NoHistory, 0) = NoHistory
      BY DEF At, NoHistory
    <2> QED
      BY <1>3, <2>1, <2>2 DEF Shown
  <1> QED
    BY <1>3, <1>5, <1>6, <1>7 DEF TextInv

\* What the gate is at does not change but with what is read.
LEMMA GateKept ==
  ASSUME GateInv, got' = got, gate' = gate, passwords' = passwords
  PROVE  GateInv' /\ Heard' = Heard
  BY DEF GateInv, GateExact, Heard

\* A chunk of output, with the gate open.
LEMMA ReadOutputKeeps ==
  ASSUME GateInv, TextInv, ReadOutput
  PROVE  GateInv' /\ TextInv'
  <1>1. PICK chunk \in Pieces(OutputBytes, Room) : got' = got \o chunk /\ Add(chunk)
    BY DEF ReadOutput
  <1>2. /\ ~ended /\ gate.passed
        /\ gate' = gate /\ passwords' = passwords /\ ended' = ended
    BY DEF ReadOutput
  <1>3. PICK d \in Seq(Bytes) : d = chunk
    <2>1. chunk \in Seq(OutputBytes)
      BY PiecesAre
    <2>2. OutputBytes \in SUBSET Bytes
      BY DEF Bytes
    <2> QED
      BY <2>1, <2>2
  <1>4. got \in Seq(Bytes) /\ Places(Mark, got) # {} /\ GateExact
    BY <1>2 DEF GateInv, GateExact
  <1>5. /\ got' \in Seq(Bytes)
        /\ Places(Mark, got') # {}
        /\ Asks(got') = Asks(got)
        /\ After(Mark, MarkAt(got'), got') = After(Mark, MarkAt(got), got) \o d
    <2>1. got \o d \in Seq(Bytes)
      BY <1>4, BytesJoin
    <2>2. Places(Mark, got \o d) # {}
      BY <1>4, MarkStays
    <2>3. Asks(got \o d) = Asks(got)
      BY <1>4, MarkStays
    <2>4. After(Mark, MarkAt(got \o d), got \o d) = After(Mark, MarkAt(got), got) \o d
      BY <1>4, MarkStays
    <2> QED
      BY <1>1, <1>3, <2>1, <2>2, <2>3, <2>4
  <1>6. GateInv'
    BY <1>2, <1>4, <1>5 DEF GateInv, GateExact
  <1>7. Heard' = Heard \o d
    BY <1>2, <1>5 DEF Heard
  <1>8. TextInv'
    <2>1. Heard \in Seq(Bytes)
      BY <1>4, HeardType
    <2> QED
      BY <1>1, <1>2, <1>3, <1>7, <2>1, AddShows
  <1> QED
    BY <1>6, <1>8

\* A chunk with the gate closed.
LEMMA ReadGatedKeeps ==
  ASSUME GateInv, TextInv, ReadGated
  PROVE  GateInv' /\ TextInv'
  <1>1. PICK chunk \in Pieces(GateBytes, Room) :
           \E more \in IF FeedGate(chunk).gate.passed
                      THEN Pieces(OutputBytes, Room - Len(chunk)) ELSE {<< >>} :
              LET fed == FeedGate(chunk \o more)
              IN  /\ got' = got \o chunk \o more
                  /\ gate' = fed.gate
                  /\ passwords' = IF fed.sends THEN passwords + 1 ELSE passwords
                  /\ Add(fed.output)
    BY DEF ReadGated
  <1>2. PICK more \in (IF FeedGate(chunk).gate.passed
                        THEN Pieces(OutputBytes, Room - Len(chunk)) ELSE {<< >>}) :
              LET fed == FeedGate(chunk \o more)
              IN  /\ got' = got \o chunk \o more
                  /\ gate' = fed.gate
                  /\ passwords' = IF fed.sends THEN passwords + 1 ELSE passwords
                  /\ Add(fed.output)
    BY <1>1
  <1>3. ~ended /\ ~gate.passed /\ ~gate.refused /\ ended' = ended
    BY DEF ReadGated
  <1>4. chunk \in Seq(Bytes) /\ more \in Seq(Bytes)
    <2>1. GateBytes \in SUBSET Bytes /\ OutputBytes \in SUBSET Bytes
      BY DEF Bytes
    <2>2. chunk \in Seq(GateBytes)
      BY PiecesAre
    <2>3. more \in Seq(OutputBytes)
      <3>1. CASE more = << >>
        BY <3>1
      <3>2. CASE more \in Pieces(OutputBytes, Room - Len(chunk))
        BY <3>2, PiecesAre
      <3> QED
        BY <3>1, <3>2
    <2> QED
      BY <2>1, <2>2, <2>3
  <1>5. PICK c \in Seq(Bytes) : c = chunk \o more
    <2>1. chunk \o more \in Seq(Bytes)
      BY <1>4
    <2> QED
      BY <2>1
  <1>6. PICK f : f = FeedGate(c)
    OBVIOUS
  <1>7. PICK r : r = got \o c
    OBVIOUS
  <1>8. /\ got \in Seq(Bytes) /\ gate \in Gates /\ (gate.asked <=> Asks(got) # {})
        /\ Places(Mark, got) = {} /\ Waits(got, gate.pending)
        /\ ~(Cardinality(Asks(got)) > 1)
        /\ passwords = IF Asks(got) = {} THEN 0 ELSE 1
    BY <1>3 DEF GateInv, GateExact
  <1>9. got' = r
    <2>1. (got \o chunk) \o more = got \o (chunk \o more)
      <3>1. got \in Seq(Bytes)
        BY <1>8
      <3> QED
        BY <1>4, <3>1, ThreeJoin
    <2> QED
      BY <1>2, <1>5, <1>7, <2>1
  <1>10. gate' = f.gate
    BY <1>2, <1>5, <1>6
  <1>11. passwords' = IF f.sends THEN passwords + 1 ELSE passwords
    BY <1>2, <1>5, <1>6
  <1>12. Add(f.output)
    BY <1>2, <1>5, <1>6
  <1>13. Cardinality(Asks(got)) <= 1
    <2>1. Asks(got) \in SUBSET (1..Len(got)) /\ Len(got) \in Nat
      BY <1>8, WordsAre DEF Asks
    <2>2. Cardinality(Asks(got)) \in Nat
      BY <2>1, CountIs
    <2> QED
      BY <1>8, <2>2
  <1>14. r \in Seq(Bytes) /\ f.gate \in Gates
    BY <1>6, <1>7, <1>8, <1>13, GateStep
  <1>15. (f.gate.asked <=> Asks(r) # {}) /\ (gate.asked => f.gate.asked)
    BY <1>6, <1>7, <1>8, <1>13, GateStep
  <1>16. f.gate.refused <=> Cardinality(Asks(r)) > 1
    BY <1>6, <1>7, <1>8, <1>13, GateStep
  <1>17. f.gate.passed <=> Places(Mark, r) # {} /\ ~f.gate.refused
    BY <1>6, <1>7, <1>8, <1>13, GateStep
  <1>18. ~f.gate.passed /\ ~f.gate.refused => Waits(r, f.gate.pending)
    BY <1>6, <1>7, <1>8, <1>13, GateStep
  <1>19. f.sends <=> Asks(got) = {} /\ Asks(r) # {}
    BY <1>6, <1>7, <1>8, <1>13, GateStep
  <1>20. f.output = IF f.gate.passed THEN After(Mark, MarkAt(r), r) ELSE << >>
    BY <1>6, <1>7, <1>8, <1>13, GateStep
  <1>21. passwords' = IF Asks(r) = {} THEN 0 ELSE 1
    BY <1>8, <1>15, <1>19, <1>11
  <1>22. GateInv'
    BY <1>9, <1>10, <1>14, <1>15, <1>16, <1>17, <1>18, <1>21 DEF GateInv, GateExact
  <1>23. Heard' = f.output
    BY <1>9, <1>10, <1>20 DEF Heard
  <1>24. TextInv'
    <2>1. Heard = << >> /\ << >> \in Seq(Bytes)
      BY <1>3 DEF Heard
    <2>2. Heard' \in Seq(Bytes)
      <3>1. got' \in Seq(Bytes) /\ GateExact'
        BY <1>22 DEF GateInv
      <3>2. CASE gate'.passed
        <4>1. Places(Mark, r) # {}
          BY <1>10, <1>17, <3>2
        <4>2. After(Mark, MarkAt(r), r) \in Seq(Bytes)
          BY <1>14, <2>1, <4>1, MarkStays
        <4> QED
          BY <1>9, <3>2, <4>2 DEF Heard
      <3>3. CASE ~gate'.passed
        BY <2>1, <3>3 DEF Heard
      <3> QED
        BY <3>2, <3>3
    <2>3. PICK d \in Seq(Bytes) : d = f.output
      BY <1>23, <2>2
    <2>4. Heard' = Heard \o d
      BY <1>23, <2>1, <2>3
    <2>5. Add(d)
      BY <1>12, <2>3
    <2> QED
      BY <1>3, <2>1, <2>4, <2>5, AddShows
  <1> QED
    BY <1>22, <1>24

\* A batch that has waited long enough.
LEMMA FlushKeeps ==
  ASSUME GateInv, TextInv, Flush
  PROVE  GateInv' /\ TextInv'
  <1>1. /\ ~ended /\ Emit(text) /\ ended' = ended /\ decoder' = decoder
        /\ got' = got /\ gate' = gate /\ passwords' = passwords
    BY DEF Flush
  <1>2. GateInv' /\ Heard' = Heard
    BY <1>1, GateKept
  <1>3. PICK t \in Seq(Chars) : ToShow = t \o text /\ Shown(t)
    BY DEF TextInv
  <1>4. text \in Seq(Chars) /\ << >> \in Seq(Chars)
    BY DEF TextInv
  <1>5. PICK c \in Seq(Chars) : c = text
    BY <1>4
  <1>6. PICK u \in Seq(Chars) : u = t \o c
    <2>1. t \o c \in Seq(Chars)
      OBVIOUS
    <2> QED
      BY <2>1
  <1>7. text' = << >> /\ Shown(u)'
    <2>1. Emit(c)
      BY <1>1, <1>5
    <2>2. text' = << >> /\ Shown(t \o c)'
      BY <1>3, <2>1, EmitShows
    <2> QED
      BY <1>6, <2>2
  <1>8. ToShow' = u \o text'
    <2>1. ToShow' = ToShow
      BY <1>1 DEF ToShow
    <2> QED
      BY <1>3, <1>4, <1>5, <1>6, <1>7, <2>1
  <1>9. TextInv'
    BY <1>1, <1>2, <1>4, <1>8, <1>7 DEF TextInv
  <1> QED
    BY <1>2, <1>9

\* The end of the output.
LEMMA EndOfOutputKeeps ==
  ASSUME GateInv, TextInv, EndOfOutput
  PROVE  GateInv' /\ TextInv'
  <1>1. /\ ~ended /\ ended' = TRUE /\ decoder' = << >>
        /\ got' = got /\ gate' = gate /\ passwords' = passwords
    BY DEF EndOfOutput
  <1>2. GateInv' /\ Heard' = Heard
    BY <1>1, GateKept
  <1>3. PICK t \in Seq(Chars) : ToShow = t \o text /\ Shown(t)
    BY DEF TextInv
  <1>4. /\ text \in Seq(Chars) /\ << >> \in Seq(Chars) /\ <<"?">> \in Seq(Chars)
        /\ decoder = Unfinished(Heard)
    <2>1. "?" \in Chars
      BY DEF Chars
    <2> QED
      BY <1>1, <2>1 DEF TextInv
  <1>5. Heard \in Seq(Bytes) /\ (gate.refused => Heard = << >>)
    BY HeardType DEF GateInv
  <1>6. ToShow = Decode(Heard)
    BY <1>1, <1>5, ToShowIs
  <1>7. ToShow' = Decode(Heard) \o (IF Unfinished(Heard) # << >> THEN <<"?">> ELSE << >>)
    BY <1>1, <1>2 DEF ToShow, Heard
  <1>8. PICK rest \in Seq(Chars) :
           rest = IF Unfinished(Heard) # << >> THEN <<"?">> ELSE << >>
    BY <1>4
  <1>9. CASE gate.refused
    <2>1. text' = text /\ seq' = seq /\ history' = history
      BY <1>9 DEF EndOfOutput
    <2>2. Unfinished(Heard) = << >> /\ Decode(Heard) = << >>
      <3>1. ~Begun(<< >>)
        BY DEF Begun
      <3>2. Decode(<< >>) = << >>
        BY DecodeType
      <3> QED
        BY <1>5, <1>9, <3>1, <3>2, UnfinishedIs
    <2>3. t = << >> /\ text = << >>
      <3>1. t \o text = << >>
        BY <1>3, <1>6, <2>2
      <3> QED
        BY <1>3, <1>4, <3>1
    <2>4. ToShow' = t \o text'
      BY <1>7, <2>1, <2>2, <2>3
    <2>5. Shown(t)'
      BY <1>3, <2>1 DEF Shown
    <2>6. text' = << >>
      BY <2>1, <2>3
    <2>7. TextInv'
      BY <1>1, <1>3, <1>4, <2>4, <2>5, <2>6 DEF TextInv
    <2> QED
      BY <1>2, <2>7
  <1>10. CASE ~gate.refused
    <2>1. PICK c \in Seq(Chars) : c = text \o rest
      <3>1. text \o rest \in Seq(Chars)
        BY <1>4, <1>8
      <3> QED
        BY <3>1
    <2>2. Emit(c)
      <3>1. Emit(IF decoder = << >> THEN text ELSE Append(text, "?"))
        BY <1>10 DEF EndOfOutput
      <3>2. CASE decoder = << >>
        <4>1. c = text
          BY <1>4, <1>8, <2>1, <3>2
        <4> QED
          BY <3>1, <3>2, <4>1
      <3>3. CASE decoder # << >>
        <4>1. c = Append(text, "?")
          BY <1>4, <1>8, <2>1, <3>3
        <4> QED
          BY <3>1, <3>3, <4>1
      <3> QED
        BY <3>2, <3>3
    <2>3. t \o c \in Seq(Chars) /\ text' = << >> /\ Shown(t \o c)'
      BY <1>3, <2>2, EmitShows
    <2>4. ToShow' = (t \o c) \o text'
      <3>1. (t \o text) \o rest = t \o c
        BY <1>4, <2>1, CharsJoin
      <3>2. ToShow' = t \o c
        BY <1>3, <1>6, <1>7, <1>8, <3>1
      <3>3. (t \o c) \o << >> = t \o c
        BY <2>3
      <3> QED
        BY <2>3, <3>2, <3>3
    <2>5. TextInv'
      BY <1>1, <1>4, <2>3, <2>4 DEF TextInv
    <2> QED
      BY <1>2, <2>5
  <1> QED
    BY <1>9, <1>10

\* Nothing changes.
LEMMA TextStutters ==
  ASSUME GateInv, TextInv, UNCHANGED textVars
  PROVE  GateInv' /\ TextInv'
  BY DEF textVars, GateInv, GateExact, TextInv, ToShow, Heard, Shown

\* A sequence ends with the second of the two it is made of, and what is before is
\* the first.
LEMMA EndsWith ==
  ASSUME NEW A, NEW a \in Seq(A), NEW b \in Seq(A), NEW r, r = a \o b
  PROVE  IsSuffix(b, r) /\ SubSeq(r, 1, Len(r) - Len(b)) = a
  <1> DEFINE s == Reverse(b)
             z == Reverse(r)
  <1>1. PICK m \in Nat, n \in Nat : m = Len(a) /\ n = Len(b)
    OBVIOUS
  <1>2. PICK l \in Nat : l = m + n
    OBVIOUS
  <1>3. /\ r \in Seq(A) /\ Len(r) = l
        /\ \A i \in 1..m : r[i] = a[i]
        /\ \A i \in (m + 1)..l : r[i] = b[i - m]
    <2>1. r \in Seq(A) /\ Len(r) = m + n
      BY <1>1, JoinIs
    <2>2. \A i \in 1..m : r[i] = a[i]
      BY <1>1, JoinIs
    <2>3. \A i \in (m + 1)..(m + n) : r[i] = b[i - m]
      BY <1>1, JoinIs
    <2> QED
      BY <1>2, <2>1, <2>2, <2>3
  <1>4. s = [i \in 1..n |-> b[n - i + 1]] /\ z = [i \in 1..l |-> r[l - i + 1]]
    BY <1>1, <1>3 DEF Reverse
  <1>5. s \in Seq(A) /\ Len(s) = n
    <2>1. \A i \in 1..n : b[n - i + 1] \in A
      BY <1>1
    <2> HIDE DEF s
    <2> QED
      BY <1>4, <2>1
  <1>6. z \in Seq(A) /\ Len(z) = l
    <2>1. \A i \in 1..l : r[l - i + 1] \in A
      BY <1>3
    <2>2. z = [i \in 1..l |-> r[l - i + 1]]
      BY <1>4
    <2> HIDE DEF z
    <2>3. z \in [1..l -> A]
      BY <2>1, <2>2
    <2> QED
      BY <2>3
  <1>7. ASSUME NEW i \in 1..n
        PROVE  s[i] = z[i]
    <2>1. i \in 1..l /\ l - i + 1 \in (m + 1)..l /\ (l - i + 1) - m = n - i + 1
      BY <1>2
    <2>2. z[i] = r[l - i + 1]
      BY <1>4, <2>1
    <2>3. r[l - i + 1] = b[n - i + 1]
      BY <1>3, <2>1
    <2>4. s[i] = b[n - i + 1]
      BY <1>4
    <2> QED
      BY <2>2, <2>3, <2>4
  <1> HIDE DEF s, z
  <1>8. SubSeq(s, 1, n) = SubSeq(z, 1, n)
    <2>1. n <= l
      BY <1>2
    <2> QED
      BY <1>5, <1>7, <1>6, <2>1
  <1>9. IsSuffix(b, r)
    <2>1. n <= l
      BY <1>2
    <2> QED
      BY <1>5, <1>8, <1>6, <2>1 DEF IsSuffix, IsPrefix, s, z
  <1>10. SubSeq(r, 1, Len(r) - Len(b)) = a
    <2>1. Len(r) - Len(b) = m /\ m <= l
      BY <1>1, <1>2, <1>3
    <2>2. SubSeq(r, 1, m) = a
      BY <1>1, <1>3, <2>1
    <2> QED
      BY <2>1, <2>2
  <1> QED
    BY <1>9, <1>10

\* The batcher and the history hold, between them, all the text there is to show.
LEMMA TextHolds ==
  GateInv /\ TextInv => GateExact /\ OutputWhole
  <1> SUFFICES ASSUME GateInv, TextInv
               PROVE  GateExact /\ OutputWhole
    OBVIOUS
  <1>1. PICK t \in Seq(Chars) : ToShow = t \o text /\ Shown(t)
    BY DEF TextInv
  <1>2. text \in Seq(Chars)
    BY DEF TextInv
  <1>3. IsSuffix(text, ToShow)
    BY <1>1, <1>2, EndsWith
  <1>4. SubSeq(ToShow, 1, Len(ToShow) - Len(text)) = t
    BY <1>1, <1>2, EndsWith
  <1>5. history = [Feed(NoHistory, SubSeq(ToShow, 1, Len(ToShow) - Len(text)))
                      EXCEPT !.seq = seq]
    BY <1>1, <1>4 DEF Shown, At
  <1> QED
    BY <1>3, <1>5 DEF GateInv, TextInv, OutputWhole

\* The invariant, from its beginning and through each action.
THEOREM TextInvariant == TSpec => [](GateInv /\ TextInv)
  <1>1. TInit => GateInv /\ TextInv
    BY InitGate, InitText
  <1>2. GateInv /\ TextInv /\ [TNext]_textVars => (GateInv /\ TextInv)'
    <2> SUFFICES ASSUME GateInv, TextInv, [TNext]_textVars
                 PROVE  GateInv' /\ TextInv'
      OBVIOUS
    <2>1. CASE ReadOutput
      BY <2>1, ReadOutputKeeps
    <2>2. CASE ReadGated
      BY <2>2, ReadGatedKeeps
    <2>3. CASE Flush
      BY <2>3, FlushKeeps
    <2>4. CASE EndOfOutput
      BY <2>4, EndOfOutputKeeps
    <2>5. CASE UNCHANGED textVars
      BY <2>5, TextStutters
    <2> QED
      BY <2>1, <2>2, <2>3, <2>4, <2>5 DEF TNext
  <1> QED
    BY <1>1, <1>2, PTL DEF TSpec

\* However the channel's output is cut into chunks, the gate opens at the first mark,
\* refuses when the phrase comes twice before it, and has the password sent once, at
\* the first (SudoGate.feed).
THEOREM GateIsExact == TSpec => []GateExact
  BY TextInvariant, TextHolds, PTL

\* What a reloaded page is given is what the command put out after the mark, all of it
\* but what waits in the batcher, however it was cut into chunks and batches
\* (read_channel, OutputBatcher, TerminalHistory).
THEOREM OutputIsWhole == TSpec => []OutputWhole
  BY TextInvariant, TextHolds, PTL
=============================================================================
