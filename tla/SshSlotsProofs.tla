--------------------------- MODULE SshSlotsProofs ---------------------------
(***************************************************************************)
(* Proofs about SshSlots and SshBrowsers for every set of devices, owners  *)
(* and sign-out threads and every number of connects: one live session in  *)
(* a slot and never another owner's, every client closed in the end, and   *)
(* what the browsers are told of it.                                       *)
(***************************************************************************)
EXTENDS SshBrowsers, TLAPS

\* A handler starts from a typed record.
LEMMA StartType ==
  ASSUME NEW operation \in Ops, NEW phase \in Phases, NEW who \in Owners \union {NoOwner}
  PROVE  Start(operation, phase, who) \in Jobs
  BY SlotsAssumption DEF Start, Jobs, Gens

\* ... and stays typed when it moves on to another phase, or has its fields
\* replaced by typed values.
LEMMA PhaseType ==
  ASSUME NEW j \in Jobs, NEW p \in Phases
  PROVE  [j EXCEPT !.phase = p] \in Jobs
  BY DEF Jobs

\* A job that closes sessions stays a job.
LEMMA CloseJobType ==
  ASSUME NEW j \in Jobs, NEW p \in Phases, NEW n \in 0..MaxGen,
         NEW t \in SUBSET Gens, NEW a \in SUBSET Devices
  PROVE  /\ [j EXCEPT !.todo = t, !.cur = n, !.at = a, !.phase = p] \in Jobs
         /\ [j EXCEPT !.phase = p, !.cur = n, !.at = a] \in Jobs
  BY DEF Jobs

\* A caller that does nothing has a job, the free one.
LEMMA FreeJobType == FreeJob \in Jobs
  BY StartType DEF FreeJob, Ops, Phases

\* The initial states are typed: every row of the tables starts out empty.
LEMMA InitTypeOK == Init => TypeOK
  <1>1. SomeDevice \in Devices
    BY SlotsAssumption DEF SomeDevice
  <1> QED
    BY <1>1, FreeJobType, SlotsAssumption DEF Init, TypeOK, Live, Steps, Gens

\* The steps of a connect thread keep the types.
LEMMA ConnectTypeOK ==
  ASSUME TypeOK, NEW g \in Gens, Connect(g) \/ Announce(g)
  PROVE  TypeOK'
  <1> USE SlotsAssumption DEF TypeOK, Steps, Live, sessVars, keyVars
  <1>1. CASE ThreadClose(g)
    BY <1>1 DEF ThreadClose, CloseClient
  <1>2. CASE Dial(g)
    BY <1>2 DEF Dial
  <1>3. CASE RaisePrompt(g)
    <2>1. CASE Current(g)
      <3>1. g \in 0..MaxGen
        BY DEF Gens
      <3> QED
        BY <1>3, <2>1, <3>1 DEF RaisePrompt
    <2>2. CASE ~Current(g)
      BY <1>3, <2>2 DEF RaisePrompt
    <2> QED
      BY <2>1, <2>2
  <1>4. CASE FailConnect(g)
    BY <1>4 DEF FailConnect
  <1>5. CASE Promote(g)
    BY <1>5 DEF Promote
  <1>6. CASE Superseded(g)
    BY <1>6 DEF Superseded
  <1>7. CASE Touch(g)
    BY <1>7 DEF Touch
  <1>8. CASE Announce(g)
    BY <1>8 DEF Announce
  <1> QED
    BY <1>1, <1>2, <1>3, <1>4, <1>5, <1>6, <1>7, <1>8 DEF Connect

\* Reserving a slot keeps the types.
LEMMA ReserveTypeOK ==
  ASSUME TypeOK, NEW d \in Devices, NEW o \in Owners, Reserve(d, o)
  PROVE  TypeOK'
  <1> USE SlotsAssumption DEF TypeOK, Reserve
  <1>1. genCounter' \in Gens
    BY DEF Gens
  <1>2. genCounter' \in 0..MaxGen /\ sessions' \in [Devices -> 0..MaxGen]
    BY <1>1 DEF Gens
  <1>5. owner' = [owner EXCEPT ![genCounter'] = o]
    OBVIOUS
  <1>6. device' = [device EXCEPT ![genCounter'] = d]
    OBVIOUS
  <1>7. /\ owner' \in [Gens -> Owners \union {NoOwner}]
        /\ device' \in [Gens -> Devices]
    <2> HIDE DEF Reserve
    <2> QED
      BY <1>1, <1>5, <1>6
  <1>3. state' \in [Gens -> Live \union {"closed"}]
    BY DEF Live
  <1>4. oldSess' \in [Gens -> 0..MaxGen] /\ pc' \in [Gens -> Steps]
    BY <1>1 DEF Steps
  <1> QED
    BY <1>2, <1>3, <1>4, <1>7 DEF keyVars

\* Answering a prompt and writing the key keep the types.
LEMMA PromptTypeOK ==
  ASSUME TypeOK,
         \/ \E d \in Devices, o \in Owners, code \in Gens, trusts \in BOOLEAN :
                AnswerPrompt(d, code, o, trusts)
         \/ \E saved \in BOOLEAN : KeyWritten(saved)
  PROVE  TypeOK'
  <1> USE SlotsAssumption DEF TypeOK, sessVars, keyVars, Callers
  <1>1. ASSUME NEW d \in Devices, NEW o \in Owners, NEW code \in Gens, NEW trusts \in BOOLEAN,
               AnswerPrompt(d, code, o, trusts)
        PROVE  TypeOK'
    <2>1. Start(IF trusts THEN "trust" ELSE "reject", IF trusts THEN "saving" ELSE "close", o)
              \in Jobs
      BY StartType DEF Ops, Phases
    <2>2. sessions[d] \in Gens
      BY <1>1 DEF AnswerPrompt, ValidPrompt
    <2> QED
      BY <1>1, <2>1, <2>2 DEF AnswerPrompt, Jobs
  <1>2. ASSUME NEW saved \in BOOLEAN, KeyWritten(saved)
        PROVE  TypeOK'
    <2>1. [job[Loop] EXCEPT !.phase = "close"] \in Jobs
      BY PhaseType DEF Phases
    <2> QED
      BY <1>2, <2>1, FreeJobType DEF KeyWritten
  <1> HIDE DEF TypeOK
  <1> QED
    BY <1>1, <1>2

\* The steps of a teardown and of release_owner keep the types.
LEMMA CloseTypeOK ==
  ASSUME TypeOK, NEW c \in Callers, Teardown(c) \/ AnnounceClosed(c) \/ Release(c)
  PROVE  TypeOK'
  <1> USE SlotsAssumption DEF TypeOK, sessVars, keyVars
  <1>1. ASSUME NEW g \in Gens, Close(c, g)
        PROVE  TypeOK'
    <2>1. [job[c] EXCEPT !.todo = job[c].todo \ {g}, !.cur = g, !.at = {device[g]}, !.phase = "clear"] \in Jobs
      <3>1. /\ g \in 0..MaxGen
            /\ device[g] \in Devices
            /\ job[c] \in Jobs
        BY DEF Gens
      <3>2. job[c].todo \ {g} \in SUBSET Gens
        BY <3>1 DEF Jobs
      <3>3. "clear" \in Phases /\ {device[g]} \in SUBSET Devices
        BY <3>1 DEF Phases
      <3> HIDE DEF TypeOK
      <3> QED
        BY <3>1, <3>2, <3>3, CloseJobType
    <2>2. [job[c] EXCEPT !.todo = job[c].todo \ {g}] \in Jobs
      BY DEF Jobs
    <2>3. CASE Current(g)
      BY <1>1, <2>1, <2>3 DEF Close, TakeOut, Live
    <2>4. CASE ~Current(g)
      BY <1>1, <2>2, <2>4 DEF Close
    <2> QED
      BY <2>3, <2>4
  <1>2. CASE ClearPending(c)
    <2>1. [job[c] EXCEPT !.phase = "shut"] \in Jobs
      BY PhaseType DEF Phases
    <2> QED
      BY <1>2, <2>1 DEF ClearPending
  <1>3. CASE ShutPopped(c)
    <2>1. [job[c] EXCEPT !.phase = "announce"] \in Jobs
      BY PhaseType DEF Phases
    <2> QED
      BY <1>3, <2>1 DEF ShutPopped, CloseClient
  <1>4. CASE AnnounceClosed(c)
    <2>1. [job[c] EXCEPT !.phase = "close", !.cur = 0, !.at = {}] \in Jobs
      <3>1. "close" \in Phases /\ 0 \in 0..MaxGen /\ {} \in SUBSET Devices /\ job[c] \in Jobs
        BY DEF Phases
      <3> HIDE DEF TypeOK
      <3> QED
        BY <3>1, CloseJobType
    <2> QED
      BY <1>4, <2>1 DEF AnnounceClosed
  <1>5. CASE Closed(c)
    <2>1. \A p \in {"prompts", "sweep", "forget"} : [job[c] EXCEPT !.phase = p] \in Jobs
      BY PhaseType DEF Phases
    <2> QED
      BY <1>5, <2>1, FreeJobType DEF Closed
  <1>6. CASE ListPrompts(c)
    <2> DEFINE listed == {d \in Devices : pending[d] \in Gens /\ owner[pending[d]] = job[c].who}
    <2>1. [job[c] EXCEPT !.phase = "unprompt", !.devs = listed] \in Jobs
      <3>1. job[c] \in Jobs /\ listed \in SUBSET Devices
        OBVIOUS
      <3> HIDE DEF TypeOK, listed
      <3> QED
        BY <3>1 DEF Jobs, Phases
    <2> QED
      BY <1>6, <2>1 DEF ListPrompts
  <1>7. CASE ClearListed(c)
    <2>1. \A d \in Devices : [job[c] EXCEPT !.devs = job[c].devs \ {d}] \in Jobs
      BY DEF Jobs
    <2>2. job[c].devs \subseteq Devices
      BY DEF Jobs
    <2> QED
      BY <1>7, <2>1, <2>2 DEF ClearListed
  <1>8. CASE PromptsCleared(c)
    <2>1. [job[c] EXCEPT !.phase = "forget"] \in Jobs
      BY PhaseType DEF Phases
    <2> QED
      BY <1>8, <2>1 DEF PromptsCleared
  <1>9. CASE Forget(c)
    <2>1. [job[c] EXCEPT !.phase = "owners", !.who = NoOwner] \in Jobs
      <3>1. job[c] \in Jobs
        OBVIOUS
      <3> HIDE DEF TypeOK
      <3> QED
        BY <3>1 DEF Jobs, Phases
    <2> QED
      BY <1>9, <2>1, FreeJobType DEF Forget
  <1> QED
    BY <1>1, <1>2, <1>3, <1>4, <1>5, <1>6, <1>7, <1>8, <1>9 DEF Teardown, Release

\* Disconnecting, releasing an owner and ticking keep the types.
LEMMA HandlerTypeOK ==
  ASSUME TypeOK,
         \/ \E d \in Devices, o \in Owners \union {NoOwner} : Disconnect(d, o)
         \/ \E c \in Callers, o \in Owners : ReleaseOwner(c, o)
         \/ Tick
  PROVE  TypeOK'
  <1> USE SlotsAssumption DEF TypeOK, sessVars, keyVars, Callers
  <1>1. ASSUME NEW d \in Devices, NEW o \in Owners \union {NoOwner}, Disconnect(d, o)
        PROVE  TypeOK'
    <2>1. Start("disconnect", IF sessions[d] = 0 THEN "announce" ELSE "clear", o) \in Jobs
      BY StartType DEF Ops, Phases
    <2>2. [Start("disconnect", IF sessions[d] = 0 THEN "announce" ELSE "clear", o)
               EXCEPT !.at = {d}, !.cur = sessions[d]] \in Jobs
      BY <2>1 DEF Jobs
    <2>3. job' \in [Callers -> Jobs]
      BY <1>1, <2>2 DEF Disconnect
    <2>4. CASE sessions[d] # 0
      <3>1. TakeOut(sessions[d])
        BY <1>1, <2>4 DEF Disconnect
      <3>2. UNCHANGED <<client, pc, keyVars, activity>>
        BY <1>1 DEF Disconnect
      <3>3. sessions[d] \in Gens
        BY <2>4 DEF Gens
      <3> QED
        BY <2>3, <3>1, <3>2, <3>3 DEF TakeOut
    <2>5. CASE sessions[d] = 0
      BY <1>1, <2>3, <2>5 DEF Disconnect
    <2> QED
      BY <2>4, <2>5
  <1>2. ASSUME NEW c \in Callers, NEW o \in Owners, ReleaseOwner(c, o)
        PROVE  TypeOK'
    <2>1. Start("release", "close", o) \in Jobs
      BY StartType DEF Ops, Phases
    <2> QED
      BY <1>2, <2>1 DEF ReleaseOwner, OwnedBy, Jobs
  <1>3. CASE TickIdle
    <2>1. Start("sweep", "sweep", NoOwner) \in Jobs
      BY StartType DEF Ops, Phases
    <2> QED
      BY <1>3, <2>1 DEF TickIdle, Jobs
  <1>4. CASE ListOwners
    <2> DEFINE listed == {o \in Owners : activity[o] # "absent"}
    <2>1. [job[Loop] EXCEPT !.op = "tick", !.phase = "owners", !.owners = listed] \in Jobs
      <3>1. job[Loop] \in Jobs /\ listed \in SUBSET Owners
        OBVIOUS
      <3> HIDE DEF TypeOK, listed
      <3> QED
        BY <3>1 DEF Jobs, Ops, Phases
    <2> QED
      BY <1>4, <2>1 DEF ListOwners
  <1>5. CASE CheckIdle
    <2>1. [job[Loop] EXCEPT !.phase = "close"] \in Jobs
      BY PhaseType DEF Phases
    <2>2. [job[Loop] EXCEPT !.phase = "owners", !.who = NoOwner, !.todo = {}] \in Jobs
      <3>1. job[Loop] \in Jobs
        OBVIOUS
      <3> HIDE DEF TypeOK
      <3> QED
        BY <3>1 DEF Jobs, Phases
    <2> QED
      BY <1>5, <2>1, <2>2 DEF CheckIdle
  <1>6. CASE TickDone
    BY <1>6, FreeJobType DEF TickDone
  <1>7. ASSUME NEW d \in Devices, SweepPrompt(d)
        PROVE  TypeOK'
    <2>1. \A p \in {"close", "sweep"}, t \in SUBSET Gens :
              [job[Loop] EXCEPT !.devs = job[Loop].devs \ {d}, !.phase = p, !.todo = t] \in Jobs
      <3>1. job[Loop] \in Jobs
        OBVIOUS
      <3> HIDE DEF TypeOK
      <3> QED
        BY <3>1 DEF Jobs, Phases
    <2>2. job' \in [Callers -> Jobs]
      BY <1>7, <2>1 DEF SweepPrompt
    <2> QED
      BY <1>7, <2>2 DEF SweepPrompt
  <1>8. ASSUME NEW o \in Owners, TickOwner(o)
        PROVE  TypeOK'
    <2>1. \A p \in {"forget", "check"} :
              [job[Loop] EXCEPT !.owners = job[Loop].owners \ {o}, !.who = o, !.todo = OwnedBy(o), !.phase = p]
                  \in Jobs
      <3>1. job[Loop] \in Jobs /\ OwnedBy(o) \in SUBSET Gens
        BY DEF OwnedBy
      <3> HIDE DEF TypeOK
      <3> QED
        BY <3>1 DEF Jobs, Phases
    <2> QED
      BY <1>8, <2>1 DEF TickOwner
  <1> QED
    BY <1>1, <1>2, <1>3, <1>4, <1>5, <1>6, <1>7, <1>8 DEF Tick

\* Every step of the specification keeps the types.
LEMMA NextTypeOK == TypeOK /\ [Next]_slotVars => TypeOK'
  <1> SUFFICES ASSUME TypeOK, [Next]_slotVars
               PROVE  TypeOK'
    OBVIOUS
  <1>1. CASE \E o \in Owners : StayConnected(o) \/ GrowIdle(o)
    BY <1>1 DEF TypeOK, StayConnected, GrowIdle, sessVars, keyVars
  <1>2. CASE \E d \in Devices : ExpirePrompt(d)
    BY <1>2 DEF TypeOK, ExpirePrompt, sessVars
  <1>3. CASE UNCHANGED slotVars
    BY <1>3 DEF TypeOK, slotVars, sessVars, keyVars
  <1> QED
    BY <1>1, <1>2, <1>3, ConnectTypeOK, ReserveTypeOK, PromptTypeOK, CloseTypeOK, HandlerTypeOK
    DEF Next, Quiet

\* TypeOK is an invariant of SshSlots: whatever the handlers, the threads and
\* the clock do, every table keeps holding what its type says.
THEOREM TypeCorrect == Spec => []TypeOK
  BY InitTypeOK, NextTypeOK, PTL DEF Spec

-----------------------------------------------------------------------------
\* Nothing is in a slot and nothing is under way at first.
LEMMA InitSlotInv == Init => SlotInv
  <1>1. \A c \in Callers : Init => job[c].todo = {} /\ job[c].phase = "free"
    BY DEF Init, FreeJob, Start
  <1> QED
    BY <1>1, InitTypeOK
    DEF SlotInv, SlotFacts, Init, Unborn, SlotHoldsLive, ThreadState, DoomedWaits, TickTurns,
        OneLiveSession

\* A reservation replaces a session of its own owner and closes it first.
LEMMA ReserveSlotFacts ==
  ASSUME SlotInv, NEW d \in Devices, NEW o \in Owners, Reserve(d, o)
  PROVE  SlotFacts'
  <1> DEFINE g == genCounter + 1
  <1> USE SlotsAssumption DEF SlotInv, SlotFacts, TypeOK, Gens
  <1>1. /\ g \in Gens
        /\ genCounter' = g
        /\ sessions' = [sessions EXCEPT ![d] = g]
        /\ device' = [device EXCEPT ![g] = d]
        /\ state'[g] = "connecting"
        /\ \A h \in Gens \ {g} : state'[h] \in {state[h], "closed"}
        /\ UNCHANGED job
    BY DEF Reserve
  <1>2. \A h \in Gens : h # g /\ h = sessions[d] => state'[h] = "closed"
    BY DEF Reserve, InUse, SlotHoldsLive
  <1>3. Unborn'
    <2>1. pc' \in [Gens -> Steps] /\ \A h \in Gens \ {g} : pc'[h] = pc[h]
      BY DEF Reserve, Steps
    <2>2. \A h \in Gens : h > genCounter' => h # g /\ h > genCounter
      BY <1>1
    <2> QED
      BY <1>1, <2>1, <2>2 DEF Unborn
  <1>4. SlotHoldsLive'
    <2>1. \A h \in Gens : h # g /\ h # sessions[d] => state'[h] = state[h]
      BY DEF Reserve
    <2>2. ASSUME NEW e \in Devices, sessions'[e] # 0
          PROVE  /\ sessions'[e] <= genCounter'
                 /\ device'[sessions'[e]] = e
                 /\ state'[sessions'[e]] \in Live
      <3>1. CASE e = d
        BY <1>1, <3>1 DEF Live
      <3>2. CASE e # d
        <4>1. /\ sessions'[e] = sessions[e]
              /\ sessions[e] \in Gens
              /\ sessions[e] <= genCounter
              /\ device[sessions[e]] = e
              /\ state[sessions[e]] \in Live
          <5>1. sessions'[e] = sessions[e]
            BY <1>1, <3>2
          <5>2. sessions[e] \in Gens
            BY <2>2, <5>1
          <5> QED
            BY <2>2, <5>1, <5>2 DEF SlotHoldsLive
        <4>2. sessions[e] # g
          BY <4>1
        <4>3. sessions[e] # sessions[d]
          BY <4>1, <3>2 DEF SlotHoldsLive
        <4>4. device'[sessions[e]] = device[sessions[e]] /\ state'[sessions[e]] = state[sessions[e]]
          BY <1>1, <2>1, <4>1, <4>2, <4>3
        <4>5. sessions[e] <= genCounter'
          BY <1>1, <4>1
        <4> QED
          BY <4>1, <4>4, <4>5
      <3> QED
        BY <3>1, <3>2
    <2> QED
      BY <2>2 DEF SlotHoldsLive
  <1>5. ThreadState'
    BY <1>1 DEF Reserve, ThreadState
  <1>6. DoomedWaits'
    <2>1. \A c \in Callers : job[c].todo \subseteq Gens
      BY DEF Jobs
    <2>2. ASSUME NEW c \in Callers, NEW h \in job[c].todo
          PROVE  /\ h <= genCounter'
                 /\ job[c].op \in {"trust", "reject", "sweep"} =>
                        state'[h] \in {"host_key_pending", "closed"}
      <3>1. h \in Gens /\ h <= genCounter
        BY <2>1 DEF DoomedWaits
      <3>2. h \in Gens \ {g}
        BY <3>1
      <3>3. state'[h] \in {state[h], "closed"}
        BY <1>1, <3>2
      <3>4. h <= genCounter'
        BY <1>1, <3>1
      <3> QED
        BY <3>3, <3>4 DEF DoomedWaits
    <2> QED
      BY <1>1, <2>2 DEF DoomedWaits
  <1>7. OneLiveSession'
    BY <1>1, <1>2 DEF OneLiveSession, Current
  <1>8. TickTurns'
    BY <1>1 DEF TickTurns
  <1> QED
    BY <1>3, <1>4, <1>5, <1>6, <1>7, <1>8

\* The steps of a connect thread change only its own session's state, and
\* only while that session holds its slot.
LEMMA ConnectSlotFacts ==
  ASSUME SlotInv, NEW g \in Gens, Connect(g) \/ Announce(g)
  PROVE  SlotFacts'
  <1> USE SlotsAssumption DEF SlotInv, SlotFacts, TypeOK, sessVars
  <1>0. /\ UNCHANGED <<genCounter, device, job>>
        /\ pc[g] # "absent"
        /\ \A h \in Gens \ {g} : pc'[h] = pc[h] /\ state'[h] = state[h]
        /\ pc'[g] # "absent"
        /\ pc'[g] \in {"retire", "dial", "settle"} => pc[g] \in {"retire", "dial"} /\ state'[g] = state[g]
    BY DEF Connect, Announce, ThreadClose, Dial, RaisePrompt, FailConnect, Promote, Superseded, Touch
  <1>1. Unborn' /\ TickTurns'
    BY <1>0 DEF Unborn, TickTurns
  <1>2. CASE UNCHANGED <<sessions, state>>
    <2>1. SlotHoldsLive' /\ OneLiveSession'
      BY <1>0, <1>2 DEF SlotHoldsLive, OneLiveSession, Current
    <2>2. ThreadState'
      BY <1>0, <1>2 DEF ThreadState, Connect, Announce, ThreadClose, Dial, RaisePrompt,
                        FailConnect, Promote, Superseded, Touch
    <2>3. DoomedWaits'
      BY <1>0, <1>2 DEF DoomedWaits
    <2> QED
      BY <1>1, <2>1, <2>2, <2>3
  <1>3. CASE FailConnect(g) /\ Current(g)
    <2>1. /\ sessions' = [sessions EXCEPT ![device[g]] = 0]
          /\ UNCHANGED state
          /\ pc[g] = "dial"
          /\ pc' [g] \in {"sayIdle", "done"}
      BY <1>3 DEF FailConnect
    <2>2. SlotHoldsLive'
      BY <1>0, <2>1 DEF SlotHoldsLive
    <2>3. ThreadState'
      BY <1>0, <2>1 DEF ThreadState
    <2>4. DoomedWaits'
      BY <1>0, <2>1 DEF DoomedWaits
    <2>5. OneLiveSession'
      BY <1>0, <1>3, <2>1 DEF OneLiveSession, ThreadState, Current
    <2> QED
      BY <1>1, <2>2, <2>3, <2>4, <2>5
  <1>4. CASE (RaisePrompt(g) \/ Promote(g)) /\ Current(g)
    <2>1. /\ UNCHANGED sessions
          /\ pc[g] \in {"dial", "settle"}
          /\ \/ state'[g] = "host_key_pending" /\ pc'[g] = "done"
             \/ state'[g] = "connected" /\ pc'[g] = "touch"
      BY <1>4 DEF RaisePrompt, Promote
    <2>2. state[g] = "connecting"
      <3>1. sessions[device[g]] = g /\ g # 0 /\ device[g] \in Devices
        BY <1>4 DEF Current, Gens
      <3>2. state[g] \in Live
        BY <3>1 DEF SlotHoldsLive
      <3>3. state[g] \in {"connecting", "closed"}
        BY <2>1 DEF ThreadState
      <3> QED
        BY <3>2, <3>3 DEF Live
    <2>3. SlotHoldsLive'
      <3>1. state'[g] \in Live
        BY <2>1 DEF Live
      <3>2. \A e \in Devices : sessions[e] # 0 => sessions[e] \in Gens
        BY DEF Gens
      <3> QED
        BY <1>0, <2>1, <3>1, <3>2 DEF SlotHoldsLive
    <2>4. ThreadState'
      BY <1>0, <2>1 DEF ThreadState
    <2>5. DoomedWaits'
      <3>1. \A c \in Callers : job[c].todo \subseteq Gens
        BY DEF Jobs
      <3> QED
        BY <1>0, <2>2, <3>1 DEF DoomedWaits
    <2>6. OneLiveSession'
      BY <1>0, <1>4, <2>1 DEF OneLiveSession, Current
    <2> QED
      BY <1>1, <2>3, <2>4, <2>5, <2>6
  <1> HIDE DEF SlotFacts, TypeOK
  <1> QED
    BY <1>2, <1>3, <1>4
    DEF Connect, Announce, ThreadClose, Dial, RaisePrompt, FailConnect, Promote, Superseded, Touch

\* A step of a caller that leaves the sessions and the threads alone has only
\* DoomedWaits and TickTurns to keep.
LEMMA CallerSlotFacts ==
  ASSUME SlotInv, UNCHANGED <<sessVars, pc>>, DoomedWaits', TickTurns'
  PROVE  SlotFacts'
  BY DEF SlotInv, SlotFacts, sessVars, Unborn, SlotHoldsLive, ThreadState, OneLiveSession, Current

\* Every caller goes on with part of the sessions it had to close, or none.
Narrowed ==
  \A c \in Callers :
     \/ job'[c].todo = {}
     \/ job'[c].todo \subseteq job[c].todo /\ job'[c].op = job[c].op

\* A caller that only narrows what it is about to close keeps the invariant.
LEMMA NarrowedSlotFacts ==
  ASSUME SlotInv, UNCHANGED <<sessVars, pc>>, Narrowed, TickTurns'
  PROVE  SlotFacts'
  <1>1. DoomedWaits'
    BY DEF SlotInv, SlotFacts, DoomedWaits, Narrowed, sessVars
  <1> QED
    BY <1>1, CallerSlotFacts

\* Taking the current session out of its slot closes it and no other.
LEMMA TakeOutSlotFacts ==
  ASSUME SlotInv, NEW g \in Gens, Current(g), TakeOut(g), UNCHANGED pc, Narrowed, TickTurns'
  PROVE  SlotFacts'
  <1> USE DEF SlotInv, SlotFacts, TypeOK, TakeOut, Current
  <1>1. g # 0 /\ \A h \in Gens : h # 0
    BY SlotsAssumption DEF Gens
  <1>2. Unborn'
    BY DEF Unborn
  <1>3. SlotHoldsLive'
    <2>1. \A d \in Devices : sessions[d] # 0 => sessions[d] \in Gens
      BY SlotsAssumption DEF Gens
    <2> QED
      BY <1>1, <2>1 DEF SlotHoldsLive
  <1>4. ThreadState'
    BY DEF ThreadState
  <1>5. DoomedWaits'
    <2>1. \A c \in Callers : job[c].todo \subseteq Gens
      BY DEF Jobs
    <2>2. ASSUME NEW c \in Callers, NEW h \in job'[c].todo
          PROVE  /\ h <= genCounter'
                 /\ job'[c].op \in {"trust", "reject", "sweep"} =>
                        state'[h] \in {"host_key_pending", "closed"}
      BY <2>1, <2>2 DEF Narrowed, DoomedWaits
    <2> QED
      BY <2>2 DEF DoomedWaits
  <1>6. OneLiveSession'
    BY <1>1 DEF OneLiveSession
  <1> QED
    BY <1>2, <1>3, <1>4, <1>5, <1>6

\* A caller that only drops sessions from what it has to close, or gives up
\* the list altogether, and takes owners' turns in an idle tick only.
LEMMA OneJobNarrowed ==
  ASSUME SlotInv, NEW c \in Callers,
         job' = [job EXCEPT ![c] = job'[c]],
         job'[c].todo = {} \/ (job'[c].todo \subseteq job[c].todo /\ job'[c].op = job[c].op),
         job'[c].phase \in {"owners", "check"} => job'[c].op = "tick"
  PROVE  Narrowed /\ TickTurns'
  <1>1. job \in [Callers -> Jobs]
    BY DEF SlotInv, TypeOK
  <1>2. \A e \in Callers \ {c} : job'[e] = job[e]
    BY <1>1
  <1>3. Narrowed
    BY <1>2 DEF Narrowed
  <1>4. TickTurns'
    BY <1>2 DEF SlotInv, SlotFacts, TickTurns
  <1> QED
    BY <1>3, <1>4

\* The steps of a teardown and of release_owner.
LEMMA CloseSlotFacts ==
  ASSUME SlotInv, NEW c \in Callers, Teardown(c) \/ AnnounceClosed(c) \/ Release(c)
  PROVE  SlotFacts'
  <1>0. job[c] \in Jobs /\ job \in [Callers -> Jobs]
    BY DEF SlotInv, TypeOK
  <1> DEFINE kept == job'[c].todo \subseteq job[c].todo /\ job'[c].op = job[c].op
             one  == job' = [job EXCEPT ![c] = job'[c]]
  <1>1. ASSUME NEW g \in Gens, Close(c, g)
        PROVE  SlotFacts'
    <2>1. CASE Current(g)
      <3>1. one /\ kept /\ job'[c].phase = "clear"
        <4>1. job' = [job EXCEPT ![c] = [job[c] EXCEPT !.todo = job[c].todo \ {g}, !.cur = g,
                                           !.at = {device[g]}, !.phase = "clear"]]
          BY <1>1, <2>1 DEF Close
        <4>2. one /\ job'[c] = [job[c] EXCEPT !.todo = job[c].todo \ {g}, !.cur = g,
                                  !.at = {device[g]}, !.phase = "clear"]
          BY <1>0, <4>1
        <4> QED
          BY <1>0, <4>2 DEF Jobs
      <3>2. Narrowed /\ TickTurns'
        BY <3>1, OneJobNarrowed
      <3> QED
        BY <1>1, <2>1, <3>2, TakeOutSlotFacts DEF Close
    <2>2. CASE ~Current(g)
      <3>1. one /\ kept /\ job'[c].phase = "close"
        BY <1>0, <1>1, <2>2 DEF Close, Jobs
      <3>2. Narrowed /\ TickTurns'
        BY <3>1, OneJobNarrowed
      <3> QED
        BY <1>1, <2>2, <3>2, NarrowedSlotFacts DEF Close
    <2> QED
      BY <2>1, <2>2
  <1>2. CASE ClearPending(c) \/ ShutPopped(c) \/ AnnounceClosed(c)
    <2>1. one /\ kept /\ job'[c].phase \in {"shut", "announce", "close"}
      <3>1. CASE ClearPending(c)
        BY <1>0, <3>1 DEF Jobs, ClearPending
      <3>2. CASE ShutPopped(c)
        BY <1>0, <3>2 DEF Jobs, ShutPopped
      <3>3. CASE AnnounceClosed(c)
        BY <1>0, <3>3 DEF Jobs, AnnounceClosed
      <3> QED
        BY <1>2, <3>1, <3>2, <3>3
    <2>2. Narrowed /\ TickTurns'
      BY <2>1, OneJobNarrowed
    <2> QED
      BY <1>2, <2>2, NarrowedSlotFacts DEF ClearPending, ShutPopped, AnnounceClosed
  <1>3. CASE ListPrompts(c) \/ ClearListed(c) \/ PromptsCleared(c)
    <2>1. one /\ kept /\ job'[c].phase \in {"unprompt", "forget"}
      <3>1. CASE ListPrompts(c)
        BY <1>0, <3>1 DEF Jobs, ListPrompts
      <3>2. CASE ClearListed(c)
        BY <1>0, <3>2 DEF Jobs, ClearListed
      <3>3. CASE PromptsCleared(c)
        BY <1>0, <3>3 DEF Jobs, PromptsCleared
      <3> QED
        BY <1>3, <3>1, <3>2, <3>3
    <2>2. Narrowed /\ TickTurns'
      BY <2>1, OneJobNarrowed
    <2> QED
      BY <1>3, <2>2, NarrowedSlotFacts DEF ListPrompts, ClearListed, PromptsCleared
  <1>4. CASE Closed(c)
    <2>1. one /\ job'[c].todo = {} /\ job'[c].phase \in {"prompts", "sweep", "forget", "free"}
      <3>1. CASE job[c].op \in {"release", "sweep", "tick"}
        BY <1>0, <1>4, <3>1 DEF Jobs, Closed
      <3>2. CASE job[c].op \notin {"release", "sweep", "tick"}
        BY <1>0, <1>4, <3>2 DEF Closed, FreeJob, Start
      <3> QED
        BY <3>1, <3>2
    <2>2. Narrowed /\ TickTurns'
      BY <2>1, OneJobNarrowed
    <2> QED
      BY <1>4, <2>2, NarrowedSlotFacts DEF Closed
  <1>5. CASE Forget(c)
    <2>1. /\ one
          /\ job'[c].todo = {} \/ kept
          /\ job'[c].phase = "free" \/ (job'[c].phase = "owners" /\ job'[c].op = "tick")
      <3>1. CASE job[c].op = "tick"
        BY <1>0, <1>5, <3>1 DEF Jobs, Forget
      <3>2. CASE job[c].op # "tick"
        BY <1>0, <1>5, <3>2 DEF Forget, FreeJob, Start
      <3> QED
        BY <3>1, <3>2
    <2>2. Narrowed /\ TickTurns'
      BY <2>1, OneJobNarrowed
    <2> QED
      BY <1>5, <2>2, NarrowedSlotFacts DEF Forget
  <1> QED
    BY <1>1, <1>2, <1>3, <1>4, <1>5 DEF Teardown, Release

\* The event loop's handlers.  A prompt's session is closed only while it
\* waits there, and the other lists hold sessions that are in their slots.
LEMMA HandlerSlotFacts ==
  ASSUME SlotInv,
         \/ \E d \in Devices, o \in Owners, code \in Gens, trusts \in BOOLEAN :
                AnswerPrompt(d, code, o, trusts)
         \/ \E saved \in BOOLEAN : KeyWritten(saved)
         \/ \E d \in Devices, o \in Owners \union {NoOwner} : Disconnect(d, o)
         \/ \E c \in Callers, o \in Owners : ReleaseOwner(c, o)
         \/ Tick
  PROVE  SlotFacts'
  <1>0. /\ Loop \in Callers
        /\ job \in [Callers -> Jobs]
        /\ job[Loop] \in Jobs
        /\ pending \in [Devices -> 0..MaxGen]
        /\ sessions \in [Devices -> 0..MaxGen]
        /\ state \in [Gens -> Live \union {"closed"}]
        /\ device \in [Gens -> Devices]
    BY DEF SlotInv, TypeOK, Callers
  <1> DEFINE one(c) == job' = [job EXCEPT ![c] = job'[c]]
             kept   == job'[Loop].todo \subseteq job[Loop].todo /\ job'[Loop].op = job[Loop].op
  \* a caller that takes sessions on
  <1>1. ASSUME NEW c \in Callers, one(c), UNCHANGED <<sessVars, pc>>,
               \A g \in job'[c].todo :
                  /\ g <= genCounter
                  /\ job'[c].op \in {"trust", "reject", "sweep"} =>
                         state[g] \in {"host_key_pending", "closed"},
               job'[c].phase \in {"owners", "check"} => job'[c].op = "tick"
        PROVE  SlotFacts'
    <2>1. \A e \in Callers \ {c} : job'[e] = job[e]
      BY <1>0, <1>1
    <2>2. DoomedWaits'
      BY <1>1, <2>1 DEF SlotInv, SlotFacts, DoomedWaits, sessVars
    <2>3. TickTurns'
      BY <1>1, <2>1 DEF SlotInv, SlotFacts, TickTurns
    <2> QED
      BY <1>1, <2>2, <2>3, CallerSlotFacts
  <1>2. \A d \in Devices : sessions[d] \in Gens => sessions[d] <= genCounter
    BY <1>0, SlotsAssumption DEF SlotInv, SlotFacts, SlotHoldsLive, Gens
  <1>3. \A o \in Owners : \A g \in OwnedBy(o) : g \in Gens /\ g <= genCounter
    BY <1>0, <1>2 DEF OwnedBy, Current
  <1>4. ASSUME NEW d \in Devices, NEW o \in Owners, NEW code \in Gens, NEW trusts \in BOOLEAN,
               AnswerPrompt(d, code, o, trusts)
        PROVE  SlotFacts'
    <2>1. /\ one(Loop)
          /\ job'[Loop].todo = {sessions[d]}
          /\ job'[Loop].phase \in {"saving", "close"}
      BY <1>0, <1>4 DEF AnswerPrompt, Start
    <2>2. sessions[d] \in Gens /\ state[sessions[d]] = "host_key_pending"
      BY <1>4 DEF AnswerPrompt, ValidPrompt
    <2> QED
      BY <1>0, <1>1, <1>2, <1>4, <2>1, <2>2 DEF AnswerPrompt
  <1>5. ASSUME NEW saved \in BOOLEAN, KeyWritten(saved)
        PROVE  SlotFacts'
    <2>1. /\ one(Loop)
          /\ job'[Loop].todo = {} \/ kept
          /\ job'[Loop].phase \in {"free", "close"}
      <3>1. CASE saved
        BY <1>0, <1>5, <3>1 DEF KeyWritten, FreeJob, Start
      <3>2. CASE ~saved
        BY <1>0, <1>5, <3>2 DEF KeyWritten, Jobs
      <3> QED
        BY <3>1, <3>2
    <2>2. Narrowed /\ TickTurns'
      BY <1>0, <2>1, OneJobNarrowed
    <2> QED
      BY <1>5, <2>2, NarrowedSlotFacts DEF KeyWritten
  <1>6. ASSUME NEW d \in Devices, NEW o \in Owners \union {NoOwner}, Disconnect(d, o)
        PROVE  SlotFacts'
    <2>1. one(Loop) /\ job'[Loop].todo = {} /\ job'[Loop].phase \in {"announce", "clear"}
      BY <1>0, <1>6 DEF Disconnect, Start
    <2>2. Narrowed /\ TickTurns'
      BY <1>0, <2>1, OneJobNarrowed
    <2>3. CASE sessions[d] = 0
      BY <1>6, <2>2, <2>3, NarrowedSlotFacts DEF Disconnect
    <2>4. CASE sessions[d] # 0
      <3>1. sessions[d] \in Gens
        BY <1>0, <2>4, SlotsAssumption DEF Gens
      <3>2. Current(sessions[d])
        BY <2>4 DEF SlotInv, SlotFacts, SlotHoldsLive, Current
      <3> QED
        BY <1>6, <2>2, <2>4, <3>1, <3>2, TakeOutSlotFacts DEF Disconnect
    <2> QED
      BY <2>3, <2>4
  <1>7. ASSUME NEW c \in Callers, NEW o \in Owners, ReleaseOwner(c, o)
        PROVE  SlotFacts'
    <2>1. /\ one(c)
          /\ job'[c].todo = OwnedBy(o) /\ job'[c].op = "release" /\ job'[c].phase = "close"
      BY <1>0, <1>7 DEF ReleaseOwner, Start
    <2> QED
      BY <1>1, <1>3, <1>7, <2>1 DEF ReleaseOwner
  <1>8. CASE TickIdle
    <2>1. one(Loop) /\ job'[Loop].todo = {} /\ job'[Loop].phase = "sweep"
      BY <1>0, <1>8 DEF TickIdle, Start
    <2> QED
      BY <1>0, <1>1, <1>8, <2>1 DEF TickIdle
  <1>9. ASSUME NEW d \in Devices, SweepPrompt(d)
        PROVE  SlotFacts'
    <2> DEFINE bound == /\ pending[d] \in Gens
                        /\ sessions[d] = pending[d]
                        /\ state[pending[d]] = "host_key_pending"
    <2>1. one(Loop) /\ job'[Loop].phase \in {"close", "sweep"}
      BY <1>0, <1>9 DEF SweepPrompt, Jobs
    <2>2. job'[Loop].todo = {} \/ (job'[Loop].todo = {pending[d]} /\ bound)
      BY <1>0, <1>9 DEF SweepPrompt, Jobs
    <2>3. \A g \in job'[Loop].todo : g <= genCounter /\ state[g] = "host_key_pending"
      BY <1>0, <1>2, <2>2
    <2>4. UNCHANGED <<sessVars, pc>>
      BY <1>9 DEF SweepPrompt
    <2> HIDE DEF bound
    <2> QED
      BY <1>0, <1>1, <2>1, <2>3, <2>4
  <1>10. CASE ListOwners
    <2>1. /\ one(Loop)
          /\ job'[Loop].todo = job[Loop].todo
          /\ job'[Loop].op = "tick"
      BY <1>0, <1>10 DEF ListOwners, Jobs
    <2>2. \A g \in job'[Loop].todo : g <= genCounter
      BY <1>0, <2>1 DEF SlotInv, SlotFacts, DoomedWaits
    <2> QED
      BY <1>0, <1>1, <1>10, <2>1, <2>2 DEF ListOwners
  <1>11. ASSUME NEW o \in Owners, TickOwner(o)
         PROVE  SlotFacts'
    <2>1. job[Loop].op = "tick"
      BY <1>0, <1>11 DEF TickOwner, SlotInv, SlotFacts, TickTurns
    <2>2. one(Loop) /\ job'[Loop].todo = OwnedBy(o) /\ job'[Loop].op = "tick"
      BY <1>0, <1>11, <2>1 DEF TickOwner, Jobs
    <2> QED
      BY <1>0, <1>1, <1>3, <1>11, <2>2 DEF TickOwner
  <1>12. CASE CheckIdle \/ TickDone
    <2>1. /\ one(Loop)
          /\ job'[Loop].todo = {} \/ kept
          /\ job'[Loop].phase \in {"owners", "check"} => job'[Loop].op = "tick"
      <3>1. CASE TickDone
        BY <1>0, <3>1 DEF TickDone, FreeJob, Start
      <3>2. CASE CheckIdle /\ activity[job[Loop].who] = "idle"
        BY <1>0, <3>2 DEF CheckIdle, Jobs
      <3>3. CASE CheckIdle /\ activity[job[Loop].who] # "idle"
        <4>1. job[Loop].op = "tick"
          BY <1>0, <3>3 DEF CheckIdle, SlotInv, SlotFacts, TickTurns
        <4> QED
          BY <1>0, <3>3, <4>1 DEF CheckIdle, Jobs
      <3> QED
        BY <1>12, <3>1, <3>2, <3>3
    <2>2. Narrowed /\ TickTurns'
      BY <1>0, <2>1, OneJobNarrowed
    <2> QED
      BY <1>12, <2>2, NarrowedSlotFacts DEF CheckIdle, TickDone
  <1> QED
    BY <1>4, <1>5, <1>6, <1>7, <1>8, <1>9, <1>10, <1>11, <1>12 DEF Tick

\* The idle clocks, the prompts' age and a stuttering step.
LEMMA ClockSlotFacts ==
  ASSUME SlotInv, UNCHANGED <<sessVars, pc, job>>
  PROVE  SlotFacts'
  BY CallerSlotFacts DEF SlotInv, SlotFacts, DoomedWaits, TickTurns, sessVars

\* Every step keeps the invariant.
LEMMA NextSlotInv ==
  ASSUME SlotInv, [Next]_slotVars
  PROVE  SlotInv'
  <1>1. SUFFICES SlotFacts'
    BY NextTypeOK DEF SlotInv
  <1>2. ASSUME NEW d \in Devices, NEW o \in Owners, Reserve(d, o)
        PROVE  SlotFacts'
    BY <1>2, ReserveSlotFacts
  <1>3. ASSUME NEW g \in Gens, Connect(g) \/ Announce(g)
        PROVE  SlotFacts'
    BY <1>3, ConnectSlotFacts
  <1>4. ASSUME NEW c \in Callers, Teardown(c) \/ AnnounceClosed(c) \/ Release(c)
        PROVE  SlotFacts'
    BY <1>4, CloseSlotFacts
  <1>5. CASE \/ \E o \in Owners : StayConnected(o) \/ GrowIdle(o)
             \/ \E d \in Devices : ExpirePrompt(d)
             \/ UNCHANGED slotVars
    BY <1>5, ClockSlotFacts DEF StayConnected, GrowIdle, ExpirePrompt, slotVars
  <1>6. CASE \/ \E d \in Devices, o \in Owners, code \in Gens, trusts \in BOOLEAN :
                    AnswerPrompt(d, code, o, trusts)
             \/ \E saved \in BOOLEAN : KeyWritten(saved)
             \/ \E d \in Devices, o \in Owners \union {NoOwner} : Disconnect(d, o)
             \/ \E c \in Callers, o \in Owners : ReleaseOwner(c, o)
             \/ Tick
    BY <1>6, HandlerSlotFacts
  <1> QED
    BY <1>2, <1>3, <1>4, <1>5, <1>6 DEF Next, Quiet

\* The inductive invariant holds in every reachable state.
THEOREM SlotsInvariant == Spec => []SlotInv
  <1>1. Init => SlotInv
    BY InitSlotInv
  <1>2. SlotInv /\ [Next]_slotVars => SlotInv'
    BY NextSlotInv
  <1> QED
    BY <1>1, <1>2, PTL DEF Spec

\* A session that runs commands or waits at a prompt holds its device's slot
\* (connect, _close, disconnect), for any number of connects and callers.
THEOREM OneSessionPerDevice == Spec => []OneLiveSession
  <1>1. SlotInv => OneLiveSession
    BY DEF SlotInv, SlotFacts
  <1> QED
    BY <1>1, SlotsInvariant, PTL

-----------------------------------------------------------------------------
(* Action properties. *)

StealFree ==
  \A d \in Devices :
     LET g == sessions[d]
         h == sessions'[d]
     IN  g # 0 /\ h # 0 /\ h # g => owner[g] = owner'[h]

\* No step replaces a session in a slot by another owner's.
LEMMA NextStealFree ==
  ASSUME SlotInv, [Next]_slotVars
  PROVE  StealFree
  <1> USE DEF SlotInv, TypeOK
  <1>1. ASSUME NEW d \in Devices, NEW o \in Owners, Reserve(d, o)
        PROVE  StealFree
    <2>1. genCounter + 1 \in Gens
      BY <1>1, SlotsAssumption DEF Reserve, Gens
    <2>2. /\ \A e \in Devices \ {d} : sessions'[e] = sessions[e]
          /\ sessions'[d] = genCounter + 1
          /\ owner'[genCounter + 1] = o
      BY <1>1, <2>1 DEF Reserve
    <2>3. sessions[d] # 0 => owner[sessions[d]] = o
      BY <1>1 DEF Reserve, InUse, SlotFacts, SlotHoldsLive
    <2> QED
      BY <2>2, <2>3 DEF StealFree
  <1>2. CASE \A d \in Devices : sessions'[d] \in {0, sessions[d]}
    BY <1>2 DEF StealFree
  <1>3. ASSUME NEW g \in Gens, Connect(g) \/ Announce(g)
        PROVE  \A d \in Devices : sessions'[d] \in {0, sessions[d]}
    BY <1>3 DEF Connect, Announce, ThreadClose, Dial, RaisePrompt, FailConnect, Promote,
                Superseded, Touch, sessVars
  <1>4. ASSUME NEW c \in Callers, Teardown(c) \/ AnnounceClosed(c) \/ Release(c)
        PROVE  \A d \in Devices : sessions'[d] \in {0, sessions[d]}
    BY <1>4 DEF Teardown, Release, Close, TakeOut, ClearPending, ShutPopped, AnnounceClosed,
                Closed, ListPrompts, ClearListed, PromptsCleared, Forget, sessVars
  <1>5. ASSUME \/ \E d \in Devices, o \in Owners, code \in Gens, trusts \in BOOLEAN :
                      AnswerPrompt(d, code, o, trusts)
               \/ \E saved \in BOOLEAN : KeyWritten(saved)
               \/ \E d \in Devices, o \in Owners \union {NoOwner} : Disconnect(d, o)
               \/ \E c \in Callers, o \in Owners : ReleaseOwner(c, o)
               \/ Tick
               \/ \E o \in Owners : StayConnected(o) \/ GrowIdle(o)
               \/ \E d \in Devices : ExpirePrompt(d)
               \/ UNCHANGED slotVars
        PROVE  \A d \in Devices : sessions'[d] \in {0, sessions[d]}
    BY <1>5 DEF AnswerPrompt, KeyWritten, Disconnect, TakeOut, ReleaseOwner, Tick, TickIdle,
                SweepPrompt, ListOwners, TickOwner, CheckIdle, TickDone, StayConnected, GrowIdle,
                ExpirePrompt, sessVars, slotVars
  <1> HIDE DEF SlotInv, TypeOK
  <1> QED
    BY <1>1, <1>2, <1>3, <1>4, <1>5 DEF Next, Quiet

\* A slot in use never passes from one owner to another without being freed
\* first (the in_use refusal of connect).
THEOREM SlotsNeverStolen == Spec => NeverStolen
  <1>1. SlotInv /\ [Next]_slotVars => [StealFree]_slotVars
    BY NextStealFree
  <1> QED
    BY <1>1, SlotsInvariant, PTL DEF Spec, NeverStolen, StealFree

\* What an answer or an expiry is about to pop was waiting at a prompt.
WaitingPopped ==
  \A c \in Callers, g \in Gens :
     /\ job'[c].op \in {"trust", "reject", "sweep"}
     /\ job[c].cur = 0 /\ job'[c].cur = g
     => state[g] = "host_key_pending"

\* What an answer or a sweep begins to close waits at its prompt.
LEMMA CloseWaitingPopped ==
  ASSUME SlotInv, NEW c \in Callers, NEW g \in Gens, NEW h \in Gens, Close(c, h),
         job'[c].op \in {"trust", "reject", "sweep"}, job[c].cur = 0, job'[c].cur = g
  PROVE  state[g] = "host_key_pending"
  <1>1. job \in [Callers -> Jobs] /\ job[c] \in Jobs /\ g # 0
    BY SlotsAssumption DEF SlotInv, TypeOK, Gens
  <1>2. CASE Current(h)
    <2>1. job' = [job EXCEPT ![c] = [job[c] EXCEPT !.todo = job[c].todo \ {h}, !.cur = h,
                                       !.at = {device[h]}, !.phase = "clear"]]
      BY <1>2 DEF Close
    <2>2. job'[c] = [job[c] EXCEPT !.todo = job[c].todo \ {h}, !.cur = h,
                        !.at = {device[h]}, !.phase = "clear"]
      BY <1>1, <2>1
    <2>3. g = h /\ job'[c].op = job[c].op
      BY <1>1, <2>2 DEF Jobs
    <2>4. h \in job[c].todo
      BY DEF Close
    <2>5. state[h] \in {"host_key_pending", "closed"}
      BY <2>3, <2>4 DEF SlotInv, SlotFacts, DoomedWaits
    <2>6. state[h] \in Live
      <3>1. sessions[device[h]] = h /\ device[h] \in Devices /\ h # 0
        BY <1>2, SlotsAssumption DEF Current, SlotInv, TypeOK, Gens
      <3> QED
        BY <3>1 DEF SlotInv, SlotFacts, SlotHoldsLive
    <2> QED
      BY <2>3, <2>5, <2>6 DEF Live
  <1>3. CASE ~Current(h)
    <2>1. job'[c] = [job[c] EXCEPT !.todo = job[c].todo \ {h}]
      BY <1>1, <1>3 DEF Close
    <2> QED
      BY <1>1, <2>1 DEF Jobs
  <1> QED
    BY <1>2, <1>3

\* No step of an answer or a sweep begins to close a session that does not wait.
LEMMA NextWaitingPopped ==
  ASSUME SlotInv, [Next]_slotVars
  PROVE  WaitingPopped
  <1>1. SUFFICES ASSUME NEW c \in Callers, NEW g \in Gens,
                        job'[c].op \in {"trust", "reject", "sweep"},
                        job[c].cur = 0, job'[c].cur = g
                 PROVE  state[g] = "host_key_pending"
    BY DEF WaitingPopped
  <1>2. /\ job \in [Callers -> Jobs] /\ job[c] \in Jobs
        /\ Loop \in Callers
        /\ g # 0
    BY SlotsAssumption DEF SlotInv, TypeOK, Gens, Callers
  <1>3. job'[c].cur # job[c].cur
    BY <1>1, <1>2
  <1>4. ASSUME NEW e \in Callers, e # c, job' = [job EXCEPT ![e] = job'[e]]
        PROVE  FALSE
    BY <1>2, <1>3, <1>4
  <1>5. ASSUME NEW e \in Callers,
               job' = [job EXCEPT ![e] = job'[e]],
               job'[e].cur \in {0, job[e].cur} \/ job'[e].op = "disconnect"
        PROVE  FALSE
    BY <1>1, <1>2, <1>4, <1>5
  <1>6. ASSUME UNCHANGED job
        PROVE  FALSE
    BY <1>3, <1>6
  <1>7. ASSUME NEW e \in Callers, NEW h \in Gens, Close(e, h)
        PROVE  state[g] = "host_key_pending"
    <2>1. job' = [job EXCEPT ![e] = job'[e]]
      BY <1>2, <1>7 DEF Close
    <2>2. e = c
      BY <1>4, <2>1
    <2> QED
      BY <1>1, <1>7, <2>2, CloseWaitingPopped
  <1> DEFINE one(e) == job' = [job EXCEPT ![e] = job'[e]]
  <1>8. ASSUME NEW e \in Callers,
               \/ ClearPending(e) \/ ShutPopped(e) \/ AnnounceClosed(e) \/ Closed(e) \/ Release(e)
        PROVE  one(e) /\ job'[e].cur \in {0, job[e].cur}
    <2>1. job[e] \in Jobs
      BY <1>2
    <2>2. CASE ClearPending(e) \/ ShutPopped(e)
      BY <1>2, <2>1, <2>2 DEF ClearPending, ShutPopped, Jobs
    <2>6. CASE AnnounceClosed(e)
      BY <1>2, <2>1, <2>6 DEF AnnounceClosed, Jobs
    <2>3. CASE Closed(e)
      BY <1>2, <2>1, <2>3 DEF Closed, Jobs, FreeJob, Start
    <2>4. CASE ListPrompts(e)
      BY <1>2, <2>1, <2>4 DEF ListPrompts, Jobs
    <2>7. CASE ClearListed(e)
      BY <1>2, <2>1, <2>7 DEF ClearListed, Jobs
    <2>8. CASE PromptsCleared(e)
      BY <1>2, <2>1, <2>8 DEF PromptsCleared, Jobs
    <2>5. CASE Forget(e)
      BY <1>2, <2>1, <2>5 DEF Forget, Jobs, FreeJob, Start
    <2> QED
      BY <1>8, <2>2, <2>3, <2>4, <2>5, <2>6, <2>7, <2>8 DEF Release
  <1>9. ASSUME NEW d \in Devices, NEW o \in Owners, NEW code \in Gens, NEW trusts \in BOOLEAN,
               AnswerPrompt(d, code, o, trusts)
        PROVE  one(Loop) /\ job'[Loop].cur = 0
    BY <1>2, <1>9 DEF AnswerPrompt, Start
  <1>10. ASSUME NEW saved \in BOOLEAN, KeyWritten(saved)
         PROVE  one(Loop) /\ job'[Loop].cur \in {0, job[Loop].cur}
    BY <1>2, <1>10 DEF KeyWritten, Jobs, FreeJob, Start
  <1>11. ASSUME NEW d \in Devices, NEW o \in Owners \union {NoOwner}, Disconnect(d, o)
         PROVE  one(Loop) /\ job'[Loop].op = "disconnect"
    BY <1>2, <1>11 DEF Disconnect, Start
  <1>12. ASSUME NEW e \in Callers, NEW o \in Owners, ReleaseOwner(e, o)
         PROVE  one(e) /\ job'[e].cur = 0
    BY <1>2, <1>12 DEF ReleaseOwner, Start
  <1>13. ASSUME Tick
         PROVE  one(Loop) /\ job'[Loop].cur \in {0, job[Loop].cur}
    <2>1. job[Loop] \in Jobs
      BY <1>2
    <2>2. CASE TickIdle \/ TickDone
      BY <1>2, <2>2 DEF TickIdle, TickDone, FreeJob, Start
    <2>3. ASSUME NEW d \in Devices, SweepPrompt(d)
          PROVE  one(Loop) /\ job'[Loop].cur = job[Loop].cur
      BY <1>2, <2>1, <2>3 DEF SweepPrompt, Jobs
    <2>4. CASE ListOwners
      BY <1>2, <2>1, <2>4 DEF ListOwners, Jobs
    <2>5. ASSUME NEW o \in Owners, TickOwner(o)
          PROVE  one(Loop) /\ job'[Loop].cur = job[Loop].cur
      BY <1>2, <2>1, <2>5 DEF TickOwner, Jobs
    <2>6. CASE CheckIdle
      BY <1>2, <2>1, <2>6 DEF CheckIdle, Jobs
    <2> QED
      BY <1>13, <2>2, <2>3, <2>4, <2>5, <2>6 DEF Tick
  <1>14. ASSUME \/ \E d \in Devices, o \in Owners : Reserve(d, o)
                \/ \E h \in Gens : Connect(h) \/ Announce(h)
                \/ \E o \in Owners : StayConnected(o) \/ GrowIdle(o)
                \/ \E d \in Devices : ExpirePrompt(d)
                \/ UNCHANGED slotVars
         PROVE  UNCHANGED job
    BY <1>14 DEF Reserve, Connect, Announce, ThreadClose, Dial, RaisePrompt, FailConnect, Promote,
                 Superseded, Touch, StayConnected, GrowIdle, ExpirePrompt, slotVars
  <1>15. CASE Quiet
    BY <1>2, <1>5, <1>6, <1>7, <1>8, <1>9, <1>10, <1>12, <1>13, <1>14, <1>15 DEF Quiet, Teardown
  <1> QED
    BY <1>2, <1>5, <1>6, <1>8, <1>11, <1>14, <1>15 DEF Next

\* A rejection, a failed approval or an expiry tears down the session that
\* waits at the prompt and never its replacement.
THEOREM AnswersHarmless == Spec => AnswerHarmless
  <1>1. SlotInv /\ [Next]_slotVars => [WaitingPopped]_slotVars
    BY NextWaitingPopped
  <1> QED
    BY <1>1, SlotsInvariant, PTL DEF Spec, AnswerHarmless, WaitingPopped

-----------------------------------------------------------------------------
(* Clients.  A client whose session has lost its slot is still in the hands  *)
(* of a thread that will close it: its own connect's, the connect's that     *)
(* retired it, or the caller's that took it out.                             *)

Popping == {"clear", "shut", "announce"}

\* A disconnect request has no other session to close
Bare ==
  \A c \in Callers : job[c].op = "disconnect" =>
      job[c].todo = {} /\ job[c].phase \in Popping \union {"close"}

\* The steps that neither take a session out nor are part of its closing
Elsewhere ==
  \/ \E d \in Devices, o \in Owners : Reserve(d, o)
  \/ \E g \in Gens : Connect(g) \/ Announce(g)
  \/ \E d \in Devices, o \in Owners, code \in Gens, trusts \in BOOLEAN :
         AnswerPrompt(d, code, o, trusts)
  \/ \E saved \in BOOLEAN : KeyWritten(saved)
  \/ \E c \in Callers, o \in Owners : ReleaseOwner(c, o)
  \/ \E c \in Callers : Closed(c) \/ Release(c)
  \/ Tick
  \/ \E o \in Owners : StayConnected(o) \/ GrowIdle(o)
  \/ \E d \in Devices : ExpirePrompt(d)
  \/ UNCHANGED slotVars

\* Those steps leave alone the callers that are closing a session, start no
\* closing and no disconnect request.
Undisturbed ==
  \A c \in Callers :
     \/ job'[c] = job[c]
     \/ /\ job[c].phase \notin Popping
        /\ job'[c].phase \notin Popping
        /\ job'[c].op # "disconnect"

\* One caller's step, from a phase that is not part of a closing, disturbs
\* no closing.
LEMMA OneUndisturbed ==
  ASSUME TypeOK, NEW c \in Callers, job' = [job EXCEPT ![c] = job'[c]],
         job[c].phase \notin Popping, job'[c].phase \notin Popping,
         job'[c].op # "disconnect"
  PROVE  Undisturbed
  <1>1. \A e \in Callers \ {c} : job'[e] = job[e]
    BY DEF TypeOK
  <1> QED
    BY <1>1 DEF Undisturbed

\* The handlers of the event loop disturb no closing.
LEMMA TickUndisturbed ==
  ASSUME TypeOK, Bare, Tick
  PROVE  Undisturbed
  <1> DEFINE one == /\ job' = [job EXCEPT ![Loop] = job'[Loop]]
                    /\ job[Loop].phase \notin Popping
                    /\ job'[Loop].phase \notin Popping
                    /\ job'[Loop].op # "disconnect"
  <1>1. Loop \in Callers /\ job \in [Callers -> Jobs] /\ job[Loop] \in Jobs
    BY DEF TypeOK, Callers
  <1>2. job[Loop].op # "disconnect" \/ job[Loop].phase \in Popping \union {"close"}
    BY <1>1 DEF Bare
  <1>3. CASE TickIdle \/ TickDone
    <2>1. one
      BY <1>1, <1>3 DEF TickIdle, TickDone, Free, FreeJob, Start, Popping
    <2> QED
      BY <1>1, <2>1, OneUndisturbed
  <1>4. ASSUME NEW d \in Devices, SweepPrompt(d)
        PROVE  Undisturbed
    <2>1. one
      BY <1>1, <1>2, <1>4 DEF SweepPrompt, Popping, Jobs
    <2> QED
      BY <1>1, <2>1, OneUndisturbed
  <1>5. CASE ListOwners
    <2>1. one
      BY <1>1, <1>5 DEF ListOwners, Popping, Jobs
    <2> QED
      BY <1>1, <2>1, OneUndisturbed
  <1>6. ASSUME NEW o \in Owners, TickOwner(o)
        PROVE  Undisturbed
    <2>1. one
      BY <1>1, <1>2, <1>6 DEF TickOwner, Popping, Jobs
    <2> QED
      BY <1>1, <2>1, OneUndisturbed
  <1>7. CASE CheckIdle
    <2>1. one
      BY <1>1, <1>2, <1>7 DEF CheckIdle, Popping, Jobs
    <2> QED
      BY <1>1, <2>1, OneUndisturbed
  <1> QED
    BY <1>3, <1>4, <1>5, <1>6, <1>7 DEF Tick

\* Nor does any other step but those of the closing itself.
LEMMA ElsewhereUndisturbed ==
  ASSUME TypeOK, Bare, Elsewhere
  PROVE  Undisturbed
  <1> DEFINE one(c) == /\ job' = [job EXCEPT ![c] = job'[c]]
                       /\ job[c].phase \notin Popping
                       /\ job'[c].phase \notin Popping
                       /\ job'[c].op # "disconnect"
  <1>1. Loop \in Callers /\ job \in [Callers -> Jobs]
    BY DEF TypeOK, Callers
  <1>2. CASE UNCHANGED job
    BY <1>2 DEF Undisturbed
  <1>3. CASE Tick
    BY <1>3, TickUndisturbed
  <1>4. CASE \E d \in Devices, o \in Owners, code \in Gens, trusts \in BOOLEAN :
                AnswerPrompt(d, code, o, trusts)
    <2>1. one(Loop)
      BY <1>1, <1>4 DEF AnswerPrompt, Free, Start, Popping
    <2> QED
      BY <1>1, <2>1, OneUndisturbed
  <1>5. CASE \E saved \in BOOLEAN : KeyWritten(saved)
    <2>1. job[Loop] \in Jobs /\ (job[Loop].phase = "saving" => job[Loop].op # "disconnect")
      BY <1>1 DEF Bare, Popping
    <2>2. one(Loop)
      BY <1>1, <1>5, <2>1 DEF KeyWritten, FreeJob, Start, Popping, Jobs
    <2> QED
      BY <1>1, <2>2, OneUndisturbed
  <1>6. ASSUME NEW c \in Callers, NEW o \in Owners, ReleaseOwner(c, o)
        PROVE  Undisturbed
    <2>1. one(c)
      BY <1>1, <1>6 DEF ReleaseOwner, Free, Start, Popping
    <2> QED
      BY <2>1, OneUndisturbed
  <1>7. ASSUME NEW c \in Callers, Closed(c)
        PROVE  Undisturbed
    <2>1. job[c] \in Jobs
      BY <1>1
    <2>2. one(c)
      BY <1>1, <1>7, <2>1 DEF Closed, FreeJob, Start, Popping, Jobs
    <2> QED
      BY <2>2, OneUndisturbed
  <1>8. ASSUME NEW c \in Callers, Release(c)
        PROVE  Undisturbed
    <2>1. job[c] \in Jobs /\ (job[c].phase \notin Popping \union {"close"} =>
                                  job[c].op # "disconnect")
      BY <1>1 DEF Bare
    <2>2. CASE ListPrompts(c)
      <3>1. one(c)
        BY <1>1, <2>1, <2>2 DEF ListPrompts, Popping, Jobs
      <3> QED
        BY <3>1, OneUndisturbed
    <2>3. CASE ClearListed(c)
      <3>1. one(c)
        BY <1>1, <2>1, <2>3 DEF ClearListed, Popping, Jobs
      <3> QED
        BY <3>1, OneUndisturbed
    <2>4. CASE PromptsCleared(c)
      <3>1. one(c)
        BY <1>1, <2>1, <2>4 DEF PromptsCleared, Popping, Jobs
      <3> QED
        BY <3>1, OneUndisturbed
    <2>5. CASE Forget(c)
      <3>1. one(c)
        BY <1>1, <2>1, <2>5 DEF Forget, FreeJob, Start, Popping, Jobs
      <3> QED
        BY <3>1, OneUndisturbed
    <2> QED
      BY <1>8, <2>2, <2>3, <2>4, <2>5 DEF Release
  <1>9. ASSUME \/ \E d \in Devices, o \in Owners : Reserve(d, o)
               \/ \E h \in Gens : Connect(h) \/ Announce(h)
               \/ \E o \in Owners : StayConnected(o) \/ GrowIdle(o)
               \/ \E d \in Devices : ExpirePrompt(d)
               \/ UNCHANGED slotVars
        PROVE  UNCHANGED job
    BY <1>9 DEF Reserve, Connect, Announce, ThreadClose, Dial, RaisePrompt, FailConnect, Promote,
                Superseded, Touch, StayConnected, GrowIdle, ExpirePrompt, slotVars
  <1> QED
    BY <1>2, <1>3, <1>4, <1>5, <1>6, <1>7, <1>8, <1>9 DEF Elsewhere

\* Taking session g out leaves caller c closing it and every other caller as
\* it was.
Popped(c, g, d) ==
  /\ job' = [job EXCEPT ![c] = job'[c]]
  /\ job[c].phase \notin Popping
  /\ job'[c].phase = IF g = 0 THEN "announce" ELSE "clear"
  /\ job'[c].cur = g /\ job'[c].at = {d}

\* A close and a disconnect request take out the session in the slot, which
\* is the one the caller then closes and announces.
LEMMA CloseJob ==
  ASSUME TypeOK, NEW c \in Callers, NEW g \in Gens, Close(c, g), Current(g)
  PROVE  /\ Popped(c, g, device[g]) /\ TakeOut(g)
         /\ job'[c].op = job[c].op /\ job'[c].who = job[c].who
         /\ job'[c].todo \subseteq job[c].todo /\ g \in job[c].todo
         /\ UNCHANGED <<client, pc, keyVars, activity>>
  <1>1. job \in [Callers -> Jobs] /\ job[c] \in Jobs
    BY DEF TypeOK
  <1>2. /\ job' = [job EXCEPT ![c] = [job[c] EXCEPT !.todo = job[c].todo \ {g}, !.cur = g,
                                        !.at = {device[g]}, !.phase = "clear"]]
        /\ job[c].phase = "close"
    BY DEF Close
  <1>3. job'[c] = [job[c] EXCEPT !.todo = job[c].todo \ {g}, !.cur = g,
                                 !.at = {device[g]}, !.phase = "clear"]
    BY <1>1, <1>2
  <1>4. g # 0
    BY DEF Gens
  <1>5. /\ job'[c].todo = job[c].todo \ {g} /\ job'[c].cur = g /\ job'[c].at = {device[g]}
        /\ job'[c].phase = "clear" /\ job'[c].op = job[c].op /\ job'[c].who = job[c].who
    BY <1>1, <1>3 DEF Jobs
  <1>6. job' = [job EXCEPT ![c] = job'[c]]
    BY <1>2, <1>3
  <1> QED
    BY <1>2, <1>4, <1>5, <1>6 DEF Close, Popped, Popping

\* ... for the owner that asked, or whoever owned it for a deleted device.
LEMMA DisconnectJob ==
  ASSUME TypeOK, NEW d \in Devices, NEW o \in Owners \union {NoOwner}, Disconnect(d, o)
  PROVE  /\ Popped(Loop, sessions[d], d)
         /\ IF sessions[d] = 0 THEN UNCHANGED sessVars ELSE TakeOut(sessions[d])
         /\ sessions[d] # 0 /\ o # NoOwner => owner[sessions[d]] = o
         /\ job'[Loop].op = "disconnect" /\ job'[Loop].who = o /\ job'[Loop].todo = {}
         /\ UNCHANGED <<client, pc, keyVars, activity>>
  <1>1. job \in [Callers -> Jobs] /\ Loop \in Callers
    BY DEF TypeOK, Callers
  <1> DEFINE g == sessions[d]
  <1>2. /\ job' = [job EXCEPT ![Loop] =
                     [Start("disconnect", IF g = 0 THEN "announce" ELSE "clear", o)
                         EXCEPT !.at = {d}, !.cur = g]]
        /\ job[Loop].phase = "free"
    BY DEF Disconnect, Free
  <1>3. job'[Loop] = [Start("disconnect", IF g = 0 THEN "announce" ELSE "clear", o)
                         EXCEPT !.at = {d}, !.cur = g]
    BY <1>1, <1>2
  <1>4. /\ job'[Loop].phase = IF g = 0 THEN "announce" ELSE "clear"
        /\ job'[Loop].cur = g /\ job'[Loop].at = {d} /\ job'[Loop].todo = {}
        /\ job'[Loop].op = "disconnect" /\ job'[Loop].who = o
    BY <1>3 DEF Start
  <1>5. job' = [job EXCEPT ![Loop] = job'[Loop]]
    BY <1>2, <1>3
  <1> QED
    BY <1>2, <1>4, <1>5 DEF Disconnect, Popped, Popping

\* A caller moves on with its closing without forgetting what it closes.
LEMMA ClosingJob ==
  ASSUME TypeOK, NEW c \in Callers, ClearPending(c) \/ ShutPopped(c) \/ AnnounceClosed(c)
  PROVE  /\ job' = [job EXCEPT ![c] = job'[c]]
         /\ job'[c].op = job[c].op /\ job'[c].who = job[c].who /\ job'[c].todo = job[c].todo
         /\ \/ job[c].phase = "clear" /\ job'[c].phase = "shut" /\ ClearPending(c)
            \/ job[c].phase = "shut" /\ job'[c].phase = "announce" /\ ShutPopped(c)
            \/ job[c].phase = "announce" /\ job'[c].phase = "close" /\ AnnounceClosed(c)
         /\ job[c].phase # "announce" => job'[c].cur = job[c].cur /\ job'[c].at = job[c].at
         /\ UNCHANGED <<sessVars, pc, expired, activity>>
  <1>1. job \in [Callers -> Jobs] /\ job[c] \in Jobs
    BY DEF TypeOK
  <1>2. CASE ClearPending(c)
    BY <1>1, <1>2 DEF ClearPending, AnnounceClosed, Jobs
  <1>3. CASE ShutPopped(c)
    BY <1>1, <1>3 DEF ShutPopped, AnnounceClosed, Jobs, keyVars
  <1>4. CASE AnnounceClosed(c)
    BY <1>1, <1>4 DEF AnnounceClosed, Jobs, keyVars
  <1> QED
    BY <1>2, <1>3, <1>4

\* Every step is one of those.
LEMMA NextSplit ==
  ASSUME [Next]_slotVars
  PROVE  \/ Elsewhere
         \/ \E c \in Callers : \E g \in Gens : Close(c, g)
         \/ \E d \in Devices, o \in Owners \union {NoOwner} : Disconnect(d, o)
         \/ \E c \in Callers : ClearPending(c) \/ ShutPopped(c) \/ AnnounceClosed(c)
  <1>1. CASE Quiet
    BY <1>1 DEF Quiet, Teardown, Elsewhere
  <1> QED
    BY <1>1 DEF Next, Elsewhere

\* A close that finds its session gone only crosses it off.
LEMMA ClosePassed ==
  ASSUME TypeOK, NEW c \in Callers, NEW g \in Gens, Close(c, g), ~Current(g)
  PROVE  /\ job' = [job EXCEPT ![c] = job'[c]]
         /\ job[c].phase = "close" /\ job'[c].phase = "close" /\ job'[c].op = job[c].op
         /\ g \in job[c].todo /\ job'[c].todo \subseteq job[c].todo
         /\ UNCHANGED <<sessVars, client, pc, keyVars, activity>>
  <1>1. job \in [Callers -> Jobs] /\ job[c] \in Jobs
    BY DEF TypeOK
  <1> QED
    BY <1>1 DEF Close, Jobs

\* A disconnect request keeps to its one session.
LEMMA NextBare ==
  ASSUME TypeOK, Bare, [Next]_slotVars
  PROVE  Bare'
  <1> DEFINE others(c) == \A e \in Callers \ {c} : job'[e] = job[e]
  <1>1. \A c \in Callers : job' = [job EXCEPT ![c] = job'[c]] => others(c)
    BY DEF TypeOK
  <1>2. CASE Elsewhere
    BY <1>2, ElsewhereUndisturbed DEF Bare, Undisturbed
  <1>3. ASSUME NEW c \in Callers, NEW g \in Gens, Close(c, g)
        PROVE  Bare'
    <2>1. others(c) /\ job'[c].op = job[c].op /\ g \in job[c].todo
      BY <1>1, <1>3, CloseJob, ClosePassed DEF Popped
    <2> QED
      BY <2>1 DEF Bare
  <1>4. ASSUME NEW d \in Devices, NEW o \in Owners \union {NoOwner}, Disconnect(d, o)
        PROVE  Bare'
    <2>1. /\ others(Loop) /\ job'[Loop].todo = {}
          /\ job'[Loop].phase \in {"announce", "clear"}
      BY <1>1, <1>4, DisconnectJob DEF Popped, Callers
    <2> QED
      BY <2>1 DEF Bare, Popping
  <1>5. ASSUME NEW c \in Callers, ClearPending(c) \/ ShutPopped(c) \/ AnnounceClosed(c)
        PROVE  Bare'
    <2>1. /\ others(c) /\ job'[c].todo = job[c].todo /\ job'[c].op = job[c].op
          /\ job'[c].phase \in Popping \union {"close"}
      BY <1>1, <1>5, ClosingJob DEF Popping
    <2> QED
      BY <2>1 DEF Bare
  <1> QED
    BY <1>2, <1>3, <1>4, <1>5, NextSplit

\* Of the steps elsewhere only the connects change sessions and threads.
LEMMA ElsewhereSplit ==
  ASSUME Elsewhere
  PROVE  \/ \E d \in Devices, o \in Owners : Reserve(d, o)
         \/ \E g \in Gens : Connect(g) \/ Announce(g)
         \/ UNCHANGED <<sessVars, client, pc>>
  <1>1. CASE \/ \E d \in Devices, o \in Owners, code \in Gens, trusts \in BOOLEAN :
                    AnswerPrompt(d, code, o, trusts)
             \/ \E saved \in BOOLEAN : KeyWritten(saved)
             \/ \E c \in Callers, o \in Owners : ReleaseOwner(c, o)
             \/ \E c \in Callers : Closed(c) \/ Release(c)
    BY <1>1 DEF AnswerPrompt, KeyWritten, ReleaseOwner, Closed, Release, ListPrompts, ClearListed,
                PromptsCleared, Forget
  <1>2. CASE Tick
    BY <1>2 DEF Tick, TickIdle, SweepPrompt, ListOwners, TickOwner, CheckIdle, TickDone
  <1>3. CASE \/ \E o \in Owners : StayConnected(o) \/ GrowIdle(o)
             \/ \E d \in Devices : ExpirePrompt(d)
             \/ UNCHANGED slotVars
    BY <1>3 DEF StayConnected, GrowIdle, ExpirePrompt, slotVars
  <1> QED
    BY <1>1, <1>2, <1>3 DEF Elsewhere

\* A connect thread has still to close the session it retired; a caller has
\* still to close the one it took out
Retiring(g) == \E h \in Gens : pc[h] = "retire" /\ oldSess[h] = g
Shutting(g) == \E c \in Callers : job[c].phase \in {"clear", "shut"} /\ job[c].cur = g

\* Every client in being has a thread that answers for it
ClientHeld ==
  \A g \in Gens : client[g] =>
     \/ pc[g] \in {"settle", "discard"}
     \/ /\ pc[g] \in {"touch", "sayConnected", "done"}
        /\ Current(g) \/ Retiring(g) \/ Shutting(g)

ClientInv == SlotInv /\ Bare /\ ClientHeld

\* A step that leaves the sessions, the threads and the closings alone changes
\* nothing for the clients.
LEMMA ClientFrame ==
  ASSUME TypeOK, ClientHeld, Undisturbed, UNCHANGED <<sessions, device, oldSess, client, pc>>
  PROVE  ClientHeld'
  <1>1. \A g \in Gens : Shutting(g) => Shutting(g)'
    BY DEF Shutting, Undisturbed, Popping
  <1>2. \A g \in Gens : (Current(g)' <=> Current(g)) /\ (Retiring(g)' <=> Retiring(g))
    BY DEF Current, Retiring
  <1> QED
    BY <1>1, <1>2 DEF ClientHeld

\* Taking a session out hands its client to the caller.
LEMMA ClientPopped ==
  ASSUME SlotInv, ClientHeld, NEW c \in Callers, NEW g \in Gens, Current(g), TakeOut(g),
         Popped(c, g, device[g]), UNCHANGED <<client, pc>>
  PROVE  ClientHeld'
  <1>1. g # 0 /\ job \in [Callers -> Jobs] /\ device \in [Gens -> Devices]
        /\ sessions \in [Devices -> 0..MaxGen]
    BY DEF SlotInv, TypeOK, Gens
  <1>2. Shutting(g)'
    BY <1>1 DEF Popped, Shutting
  <1>3. \A h \in Gens : Shutting(h) => Shutting(h)'
    BY <1>1 DEF Popped, Shutting, Popping
  <1>4. \A h \in Gens : h # g /\ Current(h) => Current(h)'
    BY <1>1 DEF TakeOut, Current
  <1>5. \A h \in Gens : Retiring(h) => Retiring(h)'
    BY DEF TakeOut, Retiring
  <1> QED
    BY <1>2, <1>3, <1>4, <1>5 DEF ClientHeld

\* The closings keep every other client where it is.
LEMMA ClientClosing ==
  ASSUME SlotInv, ClientHeld, NEW c \in Callers,
         ClearPending(c) \/ ShutPopped(c) \/ AnnounceClosed(c)
  PROVE  ClientHeld'
  <1> USE DEF SlotInv, TypeOK
  <1>1. \A e \in Callers \ {c} : job'[e] = job[e]
    BY ClosingJob
  <1>2. UNCHANGED <<sessions, device, oldSess, pc>>
    BY ClosingJob DEF sessVars
  <1>3. \A g \in Gens : (Current(g)' <=> Current(g)) /\ (Retiring(g)' <=> Retiring(g))
    BY <1>2 DEF Current, Retiring
  <1>4. CASE ShutPopped(c)
    <2>1. client' = [client EXCEPT ![job[c].cur] = FALSE]
      BY <1>4 DEF ShutPopped, CloseClient
    <2>2. \A g \in Gens : g # job[c].cur /\ Shutting(g) => Shutting(g)'
      BY <1>1 DEF Shutting
    <2> QED
      BY <1>2, <1>3, <2>1, <2>2 DEF ClientHeld
  <1>5. CASE ClearPending(c)
    <2>1. client' = client
      BY <1>5 DEF ClearPending
    <2>2. job'[c].phase = "shut" /\ job'[c].cur = job[c].cur
      <3>1. job[c].phase = "clear"
        BY <1>5 DEF ClearPending
      <3> QED
        BY <1>5, <3>1, ClosingJob
    <2>3. \A g \in Gens : Shutting(g) => Shutting(g)'
      BY <1>1, <2>2 DEF Shutting
    <2> QED
      BY <1>2, <1>3, <2>1, <2>3 DEF ClientHeld
  <1>6. CASE AnnounceClosed(c)
    <2>1. client' = client /\ job[c].phase = "announce"
      BY <1>6 DEF AnnounceClosed
    <2>2. \A g \in Gens : Shutting(g) => Shutting(g)'
      BY <1>1, <2>1 DEF Shutting
    <2> QED
      BY <1>2, <1>3, <2>1, <2>2 DEF ClientHeld
  <1> QED
    BY <1>4, <1>5, <1>6

\* A session a connect retires has a client that the connect closes next.
LEMMA ClientReserve ==
  ASSUME SlotInv, ClientHeld, NEW d \in Devices, NEW o \in Owners, Reserve(d, o)
  PROVE  ClientHeld'
  <1> DEFINE n == genCounter + 1
  <1>0. n \in Gens /\ pc[n] = "absent"
    BY SlotsAssumption DEF SlotInv, SlotFacts, TypeOK, Unborn, Reserve, Gens
  <1>1. /\ ~client[n] /\ client' = client /\ job' = job
        /\ sessions' = [sessions EXCEPT ![d] = n] /\ device' = [device EXCEPT ![n] = d]
        /\ \A g \in Gens \ {n} : /\ pc'[g] = pc[g] /\ oldSess'[g] = oldSess[g]
                                 /\ device'[g] = device[g]
    BY <1>0 DEF Reserve, SlotInv, TypeOK, ClientHeld
  <1> HIDE DEF n
  <1>2. ASSUME NEW g \in Gens, g # n, Current(g)
        PROVE  Current(g)' \/ Retiring(g)'
    <2>1. CASE device[g] = d
      <3>1. InUse(g) /\ sessions[d] = g
        BY <1>2, <2>1 DEF Current, InUse, Gens, SlotInv, SlotFacts, SlotHoldsLive
      <3>2. pc' = [pc EXCEPT ![n] = "retire"] /\ oldSess' = [oldSess EXCEPT ![n] = g]
        BY <3>1 DEF Reserve, n
      <3>3. pc'[n] = "retire" /\ oldSess'[n] = g
        BY <1>0, <3>2 DEF SlotInv, TypeOK
      <3> QED
        BY <1>0, <3>3 DEF Retiring
    <2>2. CASE device[g] # d
      BY <1>1, <1>2, <2>2 DEF Current, SlotInv, TypeOK
    <2> QED
      BY <2>1, <2>2
  <1>3. ASSUME NEW g \in Gens, Retiring(g)
        PROVE  Retiring(g)'
    <2>1. PICK h \in Gens : pc[h] = "retire" /\ oldSess[h] = g
      BY <1>3 DEF Retiring
    <2>2. h # n
      BY <1>0, <2>1
    <2> QED
      BY <1>1, <2>1, <2>2 DEF Retiring
  <1>4. \A g \in Gens : Shutting(g) => Shutting(g)'
    BY <1>1 DEF Shutting
  <1> QED
    BY <1>1, <1>2, <1>3, <1>4 DEF ClientHeld

\* A connect thread sets a client only to look at its slot afterwards, and
\* leaves one behind only in the slot.
LEMMA ClientConnect ==
  ASSUME SlotInv, ClientHeld, NEW g \in Gens, Connect(g) \/ Announce(g)
  PROVE  ClientHeld'
  <1> USE DEF SlotInv, TypeOK
  <1>0. job' = job /\ oldSess' = oldSess /\ device' = device
    BY DEF Connect, Announce, ThreadClose, Dial, RaisePrompt, FailConnect, Promote, Superseded,
           Touch, sessVars
  <1>1. \A h \in Gens : Shutting(h) <=> Shutting(h)'
    BY <1>0 DEF Shutting
  <1>2. \A h \in Gens : pc[g] # "retire" /\ Retiring(h)
                           /\ pc' \in [Gens -> Steps] /\ (\A e \in Gens \ {g} : pc'[e] = pc[e])
                           => Retiring(h)'
    BY <1>0 DEF Retiring
  <1>3. CASE ThreadClose(g)
    <2>1. /\ client' = [client EXCEPT ![IF pc[g] = "retire" THEN oldSess[g] ELSE g] = FALSE]
          /\ pc' = [pc EXCEPT ![g] = IF @ = "retire" THEN "dial" ELSE "done"]
          /\ sessions' = sessions /\ pc[g] \in {"retire", "discard"}
      BY <1>3 DEF ThreadClose, CloseClient, sessVars
    <2>2. CASE pc[g] = "retire"
      <3>1. /\ \A h \in Gens : h # g => pc'[h] = pc[h]
            /\ \A h \in Gens : client'[h] => client[h] /\ h # oldSess[g]
            /\ ~client[g]
        BY <2>1, <2>2 DEF ClientHeld
      <3>2. \A h \in Gens : h # oldSess[g] /\ Retiring(h) => Retiring(h)'
        BY <1>0, <3>1 DEF Retiring
      <3> QED
        BY <1>0, <1>1, <2>1, <3>1, <3>2 DEF ClientHeld, Current
    <2>3. CASE pc[g] = "discard"
      <3>1. /\ \A h \in Gens : h # g => pc'[h] = pc[h]
            /\ \A h \in Gens : client'[h] => client[h] /\ h # g
        BY <2>1, <2>3
      <3>2. \A h \in Gens : Retiring(h) => Retiring(h)'
        BY <1>0, <2>3, <3>1 DEF Retiring
      <3> QED
        BY <1>0, <1>1, <2>1, <3>1, <3>2 DEF ClientHeld, Current
    <2> QED
      BY <2>1, <2>2, <2>3
  <1>4. CASE Dial(g)
    <2>1. /\ \A h \in Gens : h # g => pc'[h] = pc[h] /\ client'[h] = client[h]
          /\ pc[g] = "dial" /\ pc'[g] = "settle" /\ sessions' = sessions
      BY <1>4 DEF Dial, sessVars
    <2>2. \A h \in Gens : Retiring(h) => Retiring(h)'
      BY <1>0, <2>1 DEF Retiring
    <2> QED
      BY <1>0, <1>1, <2>1, <2>2 DEF ClientHeld, Current
  <1>5. CASE RaisePrompt(g) \/ FailConnect(g)
    <2>1. /\ pc[g] = "dial" /\ client' = client /\ ~client[g]
          /\ \A h \in Gens : h # g => pc'[h] = pc[h]
      BY <1>5 DEF RaisePrompt, FailConnect, ClientHeld
    <2>2. \A h \in Gens : Retiring(h) => Retiring(h)'
      BY <1>0, <2>1 DEF Retiring
    <2>3. ASSUME NEW h \in Gens, h # g, Current(h)
          PROVE  Current(h)'
      BY <1>0, <1>5, <2>3 DEF RaisePrompt, FailConnect, Current
    <2> QED
      BY <1>1, <2>1, <2>2, <2>3 DEF ClientHeld
  <1>6. CASE Promote(g) \/ Superseded(g) \/ Touch(g) \/ Announce(g)
    <2>1. /\ client' = client /\ sessions' = sessions
          /\ \A h \in Gens : h # g => pc'[h] = pc[h]
          /\ \/ pc[g] = "settle" /\ pc'[g] = "touch" /\ Current(g)
             \/ pc[g] = "settle" /\ pc'[g] = "discard"
             \/ /\ pc[g] \in {"touch", "sayConnected", "sayIdle"}
                /\ pc'[g] \in {"sayConnected", "done"}
      BY <1>6 DEF Promote, Superseded, Touch, Announce, sessVars
    <2>2. \A h \in Gens : Retiring(h) => Retiring(h)'
      BY <1>0, <2>1 DEF Retiring
    <2> QED
      BY <1>0, <1>1, <2>1, <2>2 DEF ClientHeld, Current
  <1> QED
    BY <1>3, <1>4, <1>5, <1>6 DEF Connect

\* Every step keeps every client in somebody's hands.
LEMMA NextClientHeld ==
  ASSUME ClientInv, [Next]_slotVars
  PROVE  ClientHeld'
  <1> USE DEF ClientInv
  <1>0. TypeOK
    BY DEF SlotInv
  <1>1. ASSUME NEW c \in Callers, NEW g \in Gens, Close(c, g)
        PROVE  ClientHeld'
    <2>1. CASE Current(g)
      BY <1>0, <1>1, <2>1, CloseJob, ClientPopped
    <2>2. CASE ~Current(g)
      <3>1. Undisturbed \/ \A e \in Callers : job[e].phase \in Popping => job'[e] = job[e]
        BY <1>0, <1>1, <2>2, ClosePassed DEF TypeOK, Popping
      <3>2. \A h \in Gens : Shutting(h) => Shutting(h)'
        BY <3>1 DEF Shutting, Undisturbed, Popping
      <3>3. UNCHANGED <<sessions, device, oldSess, client, pc>>
        BY <1>0, <1>1, <2>2, ClosePassed DEF sessVars
      <3> QED
        BY <3>2, <3>3 DEF ClientHeld, Current, Retiring
    <2> QED
      BY <2>1, <2>2
  <1>2. ASSUME NEW d \in Devices, NEW o \in Owners \union {NoOwner}, Disconnect(d, o)
        PROVE  ClientHeld'
    <2>0. Loop \in Callers
      BY DEF Callers
    <2>1. CASE sessions[d] = 0
      <3>1. /\ \A e \in Callers : job[e].phase \in Popping => job'[e] = job[e]
            /\ UNCHANGED <<sessions, device, oldSess, client, pc>>
        BY <1>0, <1>2, <2>0, <2>1, DisconnectJob DEF TypeOK, Popped, sessVars
      <3>2. \A h \in Gens : Shutting(h) => Shutting(h)'
        BY <3>1 DEF Shutting, Popping
      <3> QED
        BY <3>1, <3>2 DEF ClientHeld, Current, Retiring
    <2>2. CASE sessions[d] # 0
      <3>1. sessions[d] \in Gens /\ device[sessions[d]] = d
        <4>1. SlotHoldsLive
          BY DEF SlotInv, SlotFacts
        <4>2. sessions[d] \in 0..MaxGen /\ MaxGen \in Nat
          BY <1>0, SlotsAssumption DEF TypeOK
        <4> QED
          BY <2>2, <4>1, <4>2 DEF SlotHoldsLive, Gens
      <3>2. Current(sessions[d])
        BY <3>1 DEF Current
      <3> QED
        BY <1>0, <1>2, <2>0, <2>2, <3>1, <3>2, DisconnectJob, ClientPopped
    <2> QED
      BY <2>1, <2>2
  <1>3. ASSUME NEW c \in Callers, ClearPending(c) \/ ShutPopped(c) \/ AnnounceClosed(c)
        PROVE  ClientHeld'
    BY <1>3, ClientClosing
  <1>4. CASE Elsewhere
    <2>1. Undisturbed
      BY <1>0, <1>4, ElsewhereUndisturbed
    <2>2. ASSUME NEW d \in Devices, NEW o \in Owners, Reserve(d, o)
          PROVE  ClientHeld'
      BY <2>2, ClientReserve
    <2>3. ASSUME NEW g \in Gens, Connect(g) \/ Announce(g)
          PROVE  ClientHeld'
      BY <2>3, ClientConnect
    <2>4. CASE UNCHANGED <<sessions, device, oldSess, client, pc>>
      BY <1>0, <2>1, <2>4, ClientFrame
    <2> QED
      BY <1>4, <2>2, <2>3, <2>4, ElsewhereSplit DEF sessVars
  <1> QED
    BY <1>1, <1>2, <1>3, <1>4, NextSplit

\* The invariant holds in every reachable state.
THEOREM ClientsInvariant == Spec => []ClientInv
  <1>1. Init => Bare /\ ClientHeld
    BY DEF Init, Bare, ClientHeld, FreeJob, Start
  <1>2. ClientInv /\ [Next]_slotVars => Bare' /\ ClientHeld'
    BY NextBare, NextClientHeld DEF ClientInv, SlotInv
  <1>3. SlotInv /\ Bare /\ ClientHeld => ClientInv
    BY DEF ClientInv
  <1>4. ClientInv => Bare /\ ClientHeld
    BY DEF ClientInv
  <1> QED
    BY <1>1, <1>2, <1>3, <1>4, SlotsInvariant, PTL DEF Spec

\* Once every connect and handler has finished, no SSH client is left open
\* outside the slots (connect's own discard, _close and the retirement of the
\* session a connect replaces).
THEOREM ClientsReleased == Spec => []ClientReleased
  <1>1. ClientInv => ClientReleased
    BY DEF ClientInv, ClientHeld, ClientReleased, AtRest, Retiring, Shutting, Free
  <1> QED
    BY <1>1, ClientsInvariant, PTL

-----------------------------------------------------------------------------
(* The browsers.  What a browser shows of a device is covered: by a session  *)
(* in the slot whose end will be announced, or by an idle message that is    *)
(* queued or that a thread has still to push.                                *)

Messages == [kind: {"status", "lock"}, dev: Devices, on: BOOLEAN, to: Owners \union {NoOwner},
             gen: 0..MaxGen]

Elements(s) == {s[i] : i \in DOMAIN s}
Queued == Elements(queue)

BrowserTypes ==
  /\ queue \in Seq(Messages)
  /\ view \in [Owners -> [Devices -> BOOLEAN]]
  /\ lockView \in [Owners -> [Devices -> BOOLEAN]]

\* A caller that closes a session closes one that was connected, at one device
PoppedBorn ==
  \A c \in Callers : job[c].phase \in Popping =>
      /\ job[c].cur <= genCounter
      /\ \A d, e \in job[c].at : d = e

\* A session whose connection was promised to its owner's browser was
\* established, and stays so until it is closed
Established(g) ==
  /\ pc[g] \in {"touch", "sayConnected", "done"}
  /\ state[g] \in {"connected", "closed"}

\* Idle messages carry no stamp, and messages about a connection that of a
\* connect that has finished
Stamped(m) ==
  /\ m.on <=> m.gen # 0
  /\ m.gen # 0 => /\ Established(m.gen) /\ pc[m.gen] = "done" /\ device[m.gen] = m.dev
                  /\ m.kind = "status" => m.to = owner[m.gen]
  /\ m.kind = "lock" => m.to = NoOwner

Stamps ==
  /\ \A g \in Gens : pc[g] \in {"touch", "sayConnected"} => Established(g)
  /\ \A g \in Gens : pc[g] # "absent" => owner[g] \in Owners
  /\ \A m \in Queued : Stamped(m)

\* The end of this session will be announced, whoever brings it about
Known(g) == pc[g] \in {"retire", "dial"} => oldSess[g] # 0
Held(d) == sessions[d] # 0 /\ Known(sessions[d])

Closing(c, d) == job[c].phase \in Popping /\ d \in job[c].at
Tells(c, o) ==
  IF job[c].op = "disconnect" /\ job[c].who # NoOwner
  THEN job[c].who = o
  ELSE job[c].cur # 0 /\ owner[job[c].cur] = o

\* An idle status of d is on its way to o, an unlock of d to everyone
IdleComing(o, d) ==
  \/ \E m \in Queued : m.kind = "status" /\ m.dev = d /\ m.to = o /\ m.gen = 0
  \/ \E g \in Gens : pc[g] = "sayIdle" /\ device[g] = d /\ owner[g] = o
  \/ \E c \in Callers : Closing(c, d) /\ Tells(c, o)
UnlockComing(d) ==
  \/ \E m \in Queued : m.kind = "lock" /\ m.dev = d /\ m.gen = 0
  \/ \E g \in Gens : pc[g] = "sayIdle" /\ device[g] = d
  \/ \E c \in Callers : Closing(c, d)

Covered ==
  \A o \in Owners, d \in Devices :
     /\ view[o][d] => IdleComing(o, d) \/ (Held(d) /\ owner[sessions[d]] = o)
     /\ lockView[o][d] => UnlockComing(d) \/ Held(d)

BrowsersInv == ClientInv /\ BrowserTypes /\ PoppedBorn /\ Stamps /\ Covered

\* Pushing two messages adds them to those queued.
LEMMA PushedTwo ==
  ASSUME NEW q \in Seq(Messages), NEW a \in Messages, NEW b \in Messages
  PROVE  /\ q \o <<a, b>> \in Seq(Messages)
         /\ Elements(q \o <<a, b>>) = Elements(q) \union {a, b}
  <1> DEFINE p == q \o <<a, b>>
  <1>1. /\ p \in Seq(Messages) /\ Len(p) = Len(q) + 2 /\ Len(q) \in Nat
        /\ DOMAIN p = 1..(Len(q) + 2) /\ DOMAIN q = 1..Len(q)
        /\ \A i \in 1..Len(q) : p[i] = q[i]
        /\ p[Len(q) + 1] = a /\ p[Len(q) + 2] = b
    OBVIOUS
  <1> HIDE DEF p
  <1>2. Elements(p) \subseteq Elements(q) \union {a, b}
    <2> SUFFICES ASSUME NEW i \in 1..(Len(q) + 2)
                 PROVE  p[i] \in Elements(q) \union {a, b}
      BY <1>1 DEF Elements
    <2>1. i \in 1..Len(q) \/ i = Len(q) + 1 \/ i = Len(q) + 2
      BY <1>1
    <2> QED
      BY <1>1, <2>1 DEF Elements
  <1>3. Elements(q) \union {a, b} \subseteq Elements(p)
    <2>1. \A i \in 1..Len(q) : q[i] \in Elements(p)
      BY <1>1 DEF Elements
    <2>2. Len(q) + 1 \in DOMAIN p /\ Len(q) + 2 \in DOMAIN p
      BY <1>1
    <2>3. a \in Elements(p) /\ b \in Elements(p)
      BY <1>1, <2>2 DEF Elements
    <2> QED
      BY <1>1, <2>1, <2>3 DEF Elements
  <1> QED
    BY <1>1, <1>2, <1>3 DEF p

\* Delivering the first message leaves the others queued.
LEMMA TookFirst ==
  ASSUME NEW q \in Seq(Messages), q # << >>
  PROVE  /\ Tail(q) \in Seq(Messages) /\ Head(q) \in Messages
         /\ Elements(q) = {Head(q)} \union Elements(Tail(q))
  <1> DEFINE p == Tail(q)
  <1>1. /\ p \in Seq(Messages) /\ Len(q) \in Nat \ {0} /\ Head(q) = q[1] /\ q[1] \in Messages
        /\ DOMAIN p = 1..(Len(q) - 1) /\ DOMAIN q = 1..Len(q)
        /\ \A i \in 1..(Len(q) - 1) : p[i] = q[i + 1]
    OBVIOUS
  <1> HIDE DEF p
  <1>2. \A i \in 1..(Len(q) - 1) : i + 1 \in DOMAIN q
    BY <1>1
  <1>3. Elements(p) \subseteq Elements(q) /\ q[1] \in Elements(q)
    BY <1>1, <1>2 DEF Elements
  <1>4. ASSUME NEW i \in 1..Len(q), i # 1
        PROVE  q[i] \in Elements(p)
    <2>1. i - 1 \in 1..(Len(q) - 1) /\ (i - 1) + 1 = i
      BY <1>1, <1>4
    <2>2. p[i - 1] = q[i]
      BY <1>1, <2>1
    <2> QED
      BY <1>1, <2>1, <2>2 DEF Elements
  <1>5. Elements(q) \subseteq {q[1]} \union Elements(p)
    BY <1>1, <1>4 DEF Elements
  <1> QED
    BY <1>1, <1>3, <1>5 DEF p

\* A connect keeps its owner and device, a finished one stays finished, and
\* one that was established stays so until it is closed.
LEMMA BornStays ==
  ASSUME SlotInv, [Next]_slotVars, NEW g \in Gens
  PROVE  /\ g <= genCounter => owner'[g] = owner[g] /\ device'[g] = device[g]
         /\ pc[g] # "absent" => g <= genCounter
         /\ pc[g] = "done" => pc'[g] = "done"
         /\ pc[g] = "sayIdle" => pc'[g] = "sayIdle" \/ Announce(g)
         /\ Established(g) => Established(g)'
         /\ pc'[g] \in {"touch", "sayConnected"} =>
                pc[g] \in {"touch", "sayConnected"} \/ Established(g)'
         /\ pc'[g] # "absent" => pc[g] # "absent" \/ owner'[g] \in Owners
         /\ genCounter' \in Nat /\ genCounter <= genCounter'
  <1> USE DEF SlotInv, TypeOK
  <1>0. genCounter \in Nat /\ (pc[g] # "absent" => g <= genCounter)
    BY SlotsAssumption DEF SlotFacts, Unborn, Gens
  <1>1. ASSUME NEW d \in Devices, NEW o \in Owners, Reserve(d, o)
        PROVE  /\ genCounter' = genCounter + 1
               /\ g # genCounter + 1 =>
                     /\ owner'[g] = owner[g] /\ device'[g] = device[g] /\ pc'[g] = pc[g]
                     /\ state'[g] \in {state[g], "closed"}
               /\ g = genCounter + 1 => /\ pc[g] = "absent" /\ pc'[g] \in {"retire", "dial"}
                                        /\ owner'[g] = o
    <2>1. g > genCounter => pc[g] = "absent"
      BY DEF SlotFacts, Unborn
    <2> QED
      BY <1>0, <1>1, <2>1 DEF Reserve
  <1>2. CASE \E d \in Devices, o \in Owners : Reserve(d, o)
    <2>1. PICK d \in Devices, o \in Owners : Reserve(d, o)
      BY <1>2
    <2>2. CASE g = genCounter + 1
      BY <1>0, <1>1, <2>1, <2>2 DEF Established
    <2>3. CASE g # genCounter + 1
      BY <1>0, <1>1, <2>1, <2>3 DEF Established
    <2> QED
      BY <2>2, <2>3
  <1>3. ASSUME NEW h \in Gens, Connect(h) \/ Announce(h)
        PROVE  /\ UNCHANGED <<genCounter, owner, device>>
               /\ h # g => pc'[g] = pc[g] /\ state'[g] = state[g]
               /\ h = g => /\ pc[g] \notin {"absent", "done"} /\ pc'[g] # "absent"
                           /\ pc[g] = "sayIdle" => Announce(g)
                           /\ pc[g] \in {"touch", "sayConnected"} =>
                                 pc'[g] \in {"sayConnected", "done"} /\ state'[g] = state[g]
                           /\ pc'[g] \in {"touch", "sayConnected"} =>
                                 pc[g] = "touch" \/ state'[g] = "connected"
    BY <1>3 DEF Connect, Announce, ThreadClose, Dial, RaisePrompt, FailConnect, Promote,
                Superseded, Touch, sessVars
  <1>4. CASE \E h \in Gens : Connect(h) \/ Announce(h)
    <2>1. PICK h \in Gens : Connect(h) \/ Announce(h)
      BY <1>4
    <2>2. CASE h = g
      BY <1>0, <1>3, <2>1, <2>2 DEF Established
    <2>3. CASE h # g
      BY <1>0, <1>3, <2>1, <2>3 DEF Established
    <2> QED
      BY <2>2, <2>3
  <1>5. CASE \E h \in Gens : TakeOut(h) /\ UNCHANGED pc
    BY <1>0, <1>5 DEF TakeOut, Established
  <1>6. CASE UNCHANGED <<sessVars, pc>>
    BY <1>0, <1>6 DEF sessVars, Established
  <1>7. ASSUME NEW c \in Callers, NEW h \in Gens, Close(c, h)
        PROVE  UNCHANGED <<sessVars, pc>> \/ (TakeOut(h) /\ UNCHANGED pc)
    BY <1>7 DEF Close
  <1>8. ASSUME NEW d \in Devices, NEW o \in Owners \union {NoOwner}, Disconnect(d, o)
        PROVE  UNCHANGED <<sessVars, pc>> \/ \E h \in Gens : TakeOut(h) /\ UNCHANGED pc
    <2>1. sessions[d] # 0 => sessions[d] \in Gens
      BY SlotsAssumption DEF Gens
    <2> QED
      BY <1>8, <2>1 DEF Disconnect
  <1>9. ASSUME NEW c \in Callers, ClearPending(c) \/ ShutPopped(c) \/ AnnounceClosed(c)
        PROVE  UNCHANGED <<sessVars, pc>>
    BY <1>9, ClosingJob
  <1> QED
    BY <1>2, <1>4, <1>5, <1>6, <1>7, <1>8, <1>9, NextSplit, ElsewhereSplit

\* What a caller closes was handed out, and it announces one device.
LEMMA NextPoppedBorn ==
  ASSUME SlotInv, Bare, PoppedBorn, [Next]_slotVars
  PROVE  PoppedBorn'
  <1>0. TypeOK /\ genCounter \in Nat /\ genCounter' \in Nat /\ genCounter <= genCounter'
    <2>1. TypeOK /\ TypeOK' /\ MaxGen \in Nat
      BY NextTypeOK, SlotsAssumption DEF SlotInv
    <2>2. CASE Gens = {}
      <3>1. UNCHANGED genCounter
        <4>1. MaxGen = 0
          BY <2>1, <2>2 DEF Gens
        <4> QED
          BY <2>1, <4>1 DEF TypeOK
      <3> QED
        BY <2>1, <3>1 DEF TypeOK
    <2>3. CASE Gens # {}
      BY <2>1, <2>3, BornStays DEF TypeOK
    <2> QED
      BY <2>1, <2>2, <2>3
  <1> DEFINE good(c) == job'[c].phase \in Popping =>
                           /\ job'[c].cur <= genCounter'
                           /\ \A d, e \in job'[c].at : d = e
  <1>1. ASSUME NEW c \in Callers, job'[c] = job[c]
        PROVE  good(c)
    <2>1. job[c].cur \in Nat
      BY <1>0, SlotsAssumption DEF TypeOK, Jobs
    <2> QED
      BY <1>0, <1>1, <2>1 DEF PoppedBorn
  <1>2. \A c \in Callers : job' = [job EXCEPT ![c] = job'[c]]
                               => \A e \in Callers \ {c} : job'[e] = job[e]
    BY <1>0 DEF TypeOK
  <1>3. CASE Elsewhere
    BY <1>0, <1>1, <1>3, ElsewhereUndisturbed DEF PoppedBorn, Undisturbed
  <1>4. ASSUME NEW c \in Callers, NEW g \in Gens, Close(c, g)
        PROVE  PoppedBorn'
    <2>1. CASE Current(g)
      <3>1. g <= genCounter
        <4>1. device[g] \in Devices /\ g # 0 /\ sessions[device[g]] = g
          <5>1. g # 0
            BY DEF Gens
          <5> QED
            BY <1>0, <2>1, <5>1 DEF TypeOK, Current
        <4> QED
          BY <4>1 DEF SlotInv, SlotFacts, SlotHoldsLive
      <3>2. good(c)
        BY <1>0, <1>4, <2>1, <3>1, CloseJob DEF Popped, TakeOut
      <3> QED
        BY <1>0, <1>1, <1>2, <1>4, <2>1, <3>2, CloseJob DEF Popped, PoppedBorn
    <2>2. CASE ~Current(g)
      BY <1>0, <1>1, <1>2, <1>4, <2>2, ClosePassed DEF PoppedBorn, Popping
    <2> QED
      BY <2>1, <2>2
  <1>5. ASSUME NEW d \in Devices, NEW o \in Owners \union {NoOwner}, Disconnect(d, o)
        PROVE  PoppedBorn'
    <2>1. sessions[d] <= genCounter
      BY <1>0 DEF SlotInv, SlotFacts, SlotHoldsLive
    <2>2. genCounter' = genCounter
      BY <1>0, <1>5, DisconnectJob DEF TakeOut, sessVars
    <2>3. good(Loop) /\ Loop \in Callers
      BY <1>0, <1>5, <2>1, <2>2, DisconnectJob DEF Popped, Callers
    <2> QED
      BY <1>0, <1>1, <1>2, <1>5, <2>3, DisconnectJob DEF Popped, PoppedBorn
  <1>6. ASSUME NEW c \in Callers, ClearPending(c) \/ ShutPopped(c) \/ AnnounceClosed(c)
        PROVE  PoppedBorn'
    <2>1. /\ job[c].phase \in Popping /\ UNCHANGED genCounter
          /\ job'[c].phase \in Popping => job'[c].cur = job[c].cur /\ job'[c].at = job[c].at
      BY <1>0, <1>6, ClosingJob DEF Popping, sessVars
    <2>2. good(c)
      BY <2>1 DEF PoppedBorn
    <2> QED
      BY <1>0, <1>1, <1>2, <1>6, <2>2, ClosingJob DEF PoppedBorn
  <1> QED
    BY <1>0, <1>3, <1>4, <1>5, <1>6, NextSplit

\* A caller keeps to what it has to announce, until it does.
LEMMA CallerTells ==
  ASSUME SlotInv, Bare, PoppedBorn, [Next]_slotVars,
         NEW c \in Callers, NEW d \in Devices, Closing(c, d), ~AnnounceClosed(c)
  PROVE  Closing(c, d)' /\ \A o \in Owners : Tells(c, o) => Tells(c, o)'
  <1>0. TypeOK /\ job[c].phase \in Popping /\ job[c] \in Jobs
    BY DEF SlotInv, TypeOK, Closing
  <1> DEFINE kept ==
        /\ job'[c].phase \in Popping /\ job'[c].cur = job[c].cur /\ job'[c].at = job[c].at
        /\ job'[c].op = job[c].op /\ job'[c].who = job[c].who
  <1>1. kept
    <2>1. CASE Elsewhere
      BY <1>0, <2>1, ElsewhereUndisturbed DEF Undisturbed
    <2>2. ASSUME NEW e \in Callers, NEW g \in Gens, Close(e, g)
          PROVE  job'[c] = job[c]
      <3>1. job' = [job EXCEPT ![e] = job'[e]] /\ e # c
        BY <1>0, <2>2, CloseJob, ClosePassed DEF Popped, Popping
      <3> QED
        BY <1>0, <3>1 DEF TypeOK
    <2>3. ASSUME NEW e \in Devices, NEW o \in Owners \union {NoOwner}, Disconnect(e, o)
          PROVE  job'[c] = job[c]
      <3>1. job' = [job EXCEPT ![Loop] = job'[Loop]] /\ Loop # c
        BY <1>0, <2>3, DisconnectJob DEF Popped
      <3> QED
        BY <1>0, <3>1 DEF TypeOK
    <2>4. ASSUME NEW e \in Callers, ClearPending(e) \/ ShutPopped(e) \/ AnnounceClosed(e)
          PROVE  kept
      <3>1. CASE e = c
        BY <1>0, <2>4, <3>1, ClosingJob DEF Popping
      <3>2. CASE e # c
        <4>1. job'[c] = job[c]
          BY <1>0, <2>4, <3>2, ClosingJob DEF TypeOK
        <4> QED
          BY <1>0, <4>1
      <3> QED
        BY <3>1, <3>2
    <2> QED
      BY <1>0, <2>1, <2>2, <2>3, <2>4, NextSplit
  <1>2. job[c].cur # 0 => owner'[job[c].cur] = owner[job[c].cur]
    <2>1. job[c].cur <= genCounter
      BY <1>0 DEF PoppedBorn
    <2>2. job[c].cur # 0 => job[c].cur \in Gens
      BY <1>0, SlotsAssumption DEF Jobs, Gens
    <2> QED
      BY <2>1, <2>2, BornStays
  <1> QED
    BY <1>1, <1>2 DEF Closing, Tells

\* What browsers know of is announced by whatever ends it: a connect that
\* replaces a session knows what it retired, and a close tells its owner.
LEMMA HeldStep ==
  ASSUME SlotInv, Bare, [Next]_slotVars, NEW d \in Devices, Held(d)
  PROVE  \/ Held(d)' /\ owner'[sessions'[d]] = owner[sessions[d]]
         \/ \E g \in Gens : pc'[g] = "sayIdle" /\ device'[g] = d /\ owner'[g] = owner[sessions[d]]
         \/ \E c \in Callers : Closing(c, d)' /\ \A o \in Owners :
                                   o = owner[sessions[d]] => Tells(c, o)'
  <1> DEFINE g == sessions[d]
  <1>0. TypeOK /\ g # 0
    BY DEF SlotInv, Held
  <1>1. g \in Gens /\ g <= genCounter /\ device[g] = d /\ state[g] \in Live
    <2>1. g \in 0..MaxGen /\ MaxGen \in Nat
      BY <1>0, SlotsAssumption DEF TypeOK
    <2> QED
      BY <1>0, <2>1 DEF SlotInv, SlotFacts, SlotHoldsLive, Gens
  <1>2. owner'[g] = owner[g] /\ device'[g] = device[g]
    BY <1>1, BornStays
  <1> HIDE DEF g
  <1>3. CASE UNCHANGED <<sessVars, pc>>
    BY <1>3 DEF sessVars, Held, Known
  <1>4. ASSUME NEW e \in Devices, NEW o \in Owners, Reserve(e, o)
        PROVE  Held(d)' /\ owner'[sessions'[d]] = owner[g]
    <2> DEFINE n == genCounter + 1
    <2>1. n \in Gens /\ n # g
      BY <1>0, <1>1, <1>4, SlotsAssumption DEF TypeOK, Reserve, Gens
    <2>2. /\ sessions' = [sessions EXCEPT ![e] = n] /\ pc'[g] = pc[g] /\ oldSess'[g] = oldSess[g]
      BY <1>0, <1>1, <1>4, <2>1 DEF TypeOK, Reserve
    <2>3. CASE e = d
      <3>1. InUse(g) /\ owner[g] = o
        BY <1>0, <1>1, <1>4, <2>3 DEF InUse, Reserve, g
      <3>2. oldSess' = [oldSess EXCEPT ![n] = g] /\ owner' = [owner EXCEPT ![n] = o]
        BY <1>4, <2>3, <3>1 DEF Reserve, g
      <3>3. oldSess'[n] = g /\ owner'[n] = o /\ sessions'[d] = n
        BY <1>0, <2>1, <2>2, <2>3, <3>2 DEF TypeOK
      <3> QED
        BY <1>0, <2>1, <3>1, <3>3 DEF Held, Known, Gens
    <2>4. CASE e # d
      <3>1. sessions'[d] = g
        BY <1>0, <2>2, <2>4 DEF TypeOK, g
      <3> QED
        BY <1>0, <1>2, <2>2, <3>1 DEF Held, Known, g
    <2> QED
      BY <2>3, <2>4
  <1>5. ASSUME NEW h \in Gens, Connect(h) \/ Announce(h)
        PROVE  \/ Held(d)' /\ owner'[sessions'[d]] = owner[g]
               \/ pc'[g] = "sayIdle"
    <2>1. CASE h = g
      <3>1. Current(g)
        BY <1>1 DEF Current, g
      <3>2. oldSess' = oldSess
        BY <1>5 DEF Connect, Announce, ThreadClose, Dial, RaisePrompt, FailConnect, Promote,
                    Superseded, Touch, sessVars
      <3>3. CASE FailConnect(g)
        BY <1>0, <1>1, <3>1, <3>3 DEF FailConnect, Held, Known, TypeOK, g
      <3>4. CASE ~FailConnect(g)
        <4>1. sessions' = sessions
          BY <1>5, <2>1, <3>4 DEF Connect, Announce, ThreadClose, Dial, RaisePrompt, Promote,
                                  Superseded, Touch, sessVars
        <4>2. pc'[g] \in {"retire", "dial"} => pc[g] \in {"retire", "dial"}
          BY <1>0, <1>1, <1>5, <2>1, <3>4
          DEF Connect, Announce, ThreadClose, Dial, RaisePrompt, Promote, Superseded, Touch, TypeOK
        <4> QED
          BY <1>2, <3>2, <4>1, <4>2 DEF Held, Known, g
      <3> QED
        BY <3>3, <3>4
    <2>2. CASE h # g
      <3>1. pc'[g] = pc[g] /\ oldSess' = oldSess
        BY <1>0, <1>1, <1>5, <2>2
        DEF Connect, Announce, ThreadClose, Dial, RaisePrompt, FailConnect, Promote, Superseded,
            Touch, sessVars, TypeOK
      <3>2. sessions'[d] = g
        <4>1. \/ sessions' = sessions
              \/ Current(h) /\ sessions' = [sessions EXCEPT ![device[h]] = 0]
          BY <1>5 DEF Connect, Announce, ThreadClose, Dial, RaisePrompt, FailConnect, Promote,
                      Superseded, Touch, sessVars
        <4>2. Current(h) => device[h] # d
          BY <2>2 DEF Current, g
        <4> QED
          BY <1>0, <4>1, <4>2 DEF TypeOK, g
      <3> QED
        BY <1>0, <1>2, <3>1, <3>2 DEF Held, Known, g
    <2> QED
      BY <2>1, <2>2
  <1>6. ASSUME NEW h \in Gens, TakeOut(h), UNCHANGED pc, Current(h), h # g
        PROVE  Held(d)' /\ owner'[sessions'[d]] = owner[g]
    <2>1. sessions'[d] = g
      BY <1>0, <1>6 DEF TypeOK, TakeOut, Current, g
    <2> QED
      BY <1>0, <1>2, <1>6, <2>1 DEF Held, Known, TakeOut, g
  <1>7. ASSUME NEW c \in Callers, Close(c, g), Current(g)
        PROVE  Closing(c, d)' /\ \A o \in Owners : o = owner[g] => Tells(c, o)'
    <2>1. job'[c].phase = "clear" /\ job'[c].cur = g /\ job'[c].at = {d} /\ job'[c].op = job[c].op
          /\ g \in job[c].todo
      BY <1>0, <1>1, <1>7, CloseJob DEF Popped
    <2>2. job[c].op # "disconnect"
      BY <2>1 DEF Bare
    <2> QED
      BY <1>0, <1>2, <2>1, <2>2 DEF Closing, Tells, Popping
  <1>8. ASSUME NEW c \in Callers, NEW h \in Gens, Close(c, h)
        PROVE  \/ UNCHANGED <<sessVars, pc>>
               \/ h = g /\ Current(g)
               \/ TakeOut(h) /\ UNCHANGED pc /\ Current(h) /\ h # g
    BY <1>0, <1>8, CloseJob, ClosePassed
  <1>9. ASSUME NEW o \in Owners \union {NoOwner}, Disconnect(d, o)
        PROVE  Closing(Loop, d)' /\ \A p \in Owners : p = owner[g] => Tells(Loop, p)'
    <2>1. /\ job'[Loop].phase = "clear" /\ job'[Loop].cur = g /\ job'[Loop].at = {d}
          /\ job'[Loop].op = "disconnect" /\ job'[Loop].who = o
          /\ o # NoOwner => owner[g] = o
      BY <1>0, <1>9, DisconnectJob DEF Popped, g
    <2> QED
      BY <1>0, <1>2, <2>1 DEF Closing, Tells, Popping
  <1>10. ASSUME NEW e \in Devices, NEW o \in Owners \union {NoOwner}, Disconnect(e, o), e # d
         PROVE  \/ UNCHANGED <<sessVars, pc>>
                \/ Held(d)' /\ owner'[sessions'[d]] = owner[g]
    <2>1. CASE sessions[e] = 0
      BY <1>0, <1>10, <2>1, DisconnectJob
    <2>2. CASE sessions[e] # 0
      <3>1. sessions[e] \in Gens /\ device[sessions[e]] = e
        <4>1. sessions[e] \in 0..MaxGen /\ MaxGen \in Nat
          BY <1>0, SlotsAssumption DEF TypeOK
        <4> QED
          BY <2>2, <4>1 DEF SlotInv, SlotFacts, SlotHoldsLive, Gens
      <3>2. sessions[e] # g /\ Current(sessions[e])
        BY <1>1, <1>10, <3>1 DEF Current
      <3>3. TakeOut(sessions[e]) /\ UNCHANGED pc
        BY <1>0, <1>10, <2>2, DisconnectJob
      <3> QED
        BY <1>6, <3>1, <3>2, <3>3
    <2> QED
      BY <2>1, <2>2
  <1>11. ASSUME NEW c \in Callers, ClearPending(c) \/ ShutPopped(c) \/ AnnounceClosed(c)
         PROVE  UNCHANGED <<sessVars, pc>>
    BY <1>0, <1>11, ClosingJob
  <1>12. CASE Elsewhere
    BY <1>1, <1>2, <1>3, <1>4, <1>5, <1>12, ElsewhereSplit DEF g
  <1>13. CASE \E c \in Callers : \E h \in Gens : Close(c, h)
    BY <1>3, <1>6, <1>7, <1>8, <1>13 DEF g
  <1>14. CASE \E e \in Devices, o \in Owners \union {NoOwner} : Disconnect(e, o)
    <2>1. Loop \in Callers
      BY DEF Callers
    <2> QED
      BY <1>3, <1>9, <1>10, <1>14, <2>1 DEF g
  <1> QED
    BY <1>3, <1>11, <1>12, <1>13, <1>14, NextSplit

\* A message stays well stamped while the sessions move on.
LEMMA StampStays ==
  ASSUME SlotInv, [Next]_slotVars, NEW m \in Messages, Stamped(m)
  PROVE  Stamped(m)'
  <1>1. CASE m.gen = 0
    BY <1>1 DEF Stamped
  <1>2. CASE m.gen # 0
    <2>1. m.gen \in Gens
      BY <1>2, SlotsAssumption DEF Messages, Gens
    <2>2. /\ Established(m.gen)' /\ pc'[m.gen] = "done"
          /\ owner'[m.gen] = owner[m.gen] /\ device'[m.gen] = device[m.gen]
      BY <1>2, <2>1, BornStays DEF Stamped
    <2> QED
      BY <1>2, <2>2 DEF Stamped
  <1> QED
    BY <1>1, <1>2

\* ... and so does the queue, if what is pushed is.
LEMMA StampsStep ==
  ASSUME SlotInv, BrowserTypes, Stamps, [Next]_slotVars,
         \A m \in Queued' : m \in Queued \/ Stamped(m)'
  PROVE  Stamps'
  <1>1. \A m \in Queued : m \in Messages
    BY DEF BrowserTypes, Queued, Elements
  <1>2. \A m \in Queued' : Stamped(m)'
    BY <1>1, StampStays DEF Stamps
  <1>3. ASSUME NEW g \in Gens
        PROVE  /\ pc'[g] \in {"touch", "sayConnected"} => Established(g)'
               /\ pc'[g] # "absent" => owner'[g] \in Owners
    BY BornStays DEF Stamps
  <1> QED
    BY <1>2, <1>3 DEF Stamps

IdleMessage(kind, d, o) == [kind |-> kind, dev |-> d, on |-> FALSE, to |-> o, gen |-> 0]

\* An idle message on its way arrives in the queue or stays on its way.
LEMMA ComingStays ==
  ASSUME SlotInv, Bare, PoppedBorn, [Next]_slotVars,
         \A m \in Queued : m.gen = 0 => m \in Queued',
         \A g \in Gens : pc[g] = "sayIdle" =>
             \/ pc'[g] = "sayIdle"
             \/ /\ IdleMessage("status", device[g], owner[g]) \in Queued'
                /\ IdleMessage("lock", device[g], NoOwner) \in Queued',
         \A c \in Callers, d \in Devices : Closing(c, d) =>
             \/ ~AnnounceClosed(c)
             \/ /\ IdleMessage("lock", d, NoOwner) \in Queued'
                /\ \A o \in Owners : Tells(c, o) => IdleMessage("status", d, o) \in Queued'
  PROVE  \A o \in Owners, d \in Devices :
            /\ IdleComing(o, d) => IdleComing(o, d)'
            /\ UnlockComing(d) => UnlockComing(d)'
  <1> SUFFICES ASSUME NEW o \in Owners, NEW d \in Devices
               PROVE  /\ IdleComing(o, d) => IdleComing(o, d)'
                      /\ UnlockComing(d) => UnlockComing(d)'
    OBVIOUS
  <1>1. \A m \in Queued : m.gen = 0 => m \in Queued'
    OBVIOUS
  <1>2. ASSUME NEW g \in Gens, pc[g] = "sayIdle", device[g] = d
        PROVE  UnlockComing(d)' /\ (owner[g] = o => IdleComing(o, d)')
    <2>1. owner'[g] = owner[g] /\ device'[g] = device[g]
      BY <1>2, BornStays
    <2>2. CASE pc'[g] = "sayIdle"
      BY <1>2, <2>1, <2>2 DEF UnlockComing, IdleComing
    <2>3. CASE /\ IdleMessage("status", device[g], owner[g]) \in Queued'
               /\ IdleMessage("lock", device[g], NoOwner) \in Queued'
      BY <1>2, <2>3 DEF UnlockComing, IdleComing, IdleMessage
    <2> QED
      BY <1>2, <2>2, <2>3
  <1>3. ASSUME NEW c \in Callers, Closing(c, d)
        PROVE  UnlockComing(d)' /\ (Tells(c, o) => IdleComing(o, d)')
    <2>1. CASE ~AnnounceClosed(c)
      BY <1>3, <2>1, CallerTells DEF UnlockComing, IdleComing
    <2>2. CASE /\ IdleMessage("lock", d, NoOwner) \in Queued'
               /\ Tells(c, o) => IdleMessage("status", d, o) \in Queued'
      BY <2>2 DEF UnlockComing, IdleComing, IdleMessage
    <2> QED
      BY <1>3, <2>1, <2>2
  <1>4. IdleComing(o, d) => IdleComing(o, d)'
    <2>1. CASE \E m \in Queued : m.kind = "status" /\ m.dev = d /\ m.to = o /\ m.gen = 0
      BY <1>1, <2>1 DEF IdleComing
    <2> QED
      BY <1>2, <1>3, <2>1 DEF IdleComing
  <1>5. UnlockComing(d) => UnlockComing(d)'
    <2>1. CASE \E m \in Queued : m.kind = "lock" /\ m.dev = d /\ m.gen = 0
      BY <1>1, <2>1 DEF UnlockComing
    <2> QED
      BY <1>2, <1>3, <2>1 DEF UnlockComing
  <1> QED
    BY <1>4, <1>5

\* While nothing is delivered, what browsers show stays covered.
LEMMA CoveredStays ==
  ASSUME SlotInv, Bare, PoppedBorn, Covered, [Next]_slotVars, UNCHANGED <<view, lockView>>,
         \A o \in Owners, d \in Devices :
            /\ IdleComing(o, d) => IdleComing(o, d)'
            /\ UnlockComing(d) => UnlockComing(d)'
  PROVE  Covered'
  <1> SUFFICES ASSUME NEW o \in Owners, NEW d \in Devices
               PROVE  /\ view[o][d] => IdleComing(o, d)'
                                          \/ (Held(d)' /\ owner'[sessions'[d]] = o)
                      /\ lockView[o][d] => UnlockComing(d)' \/ Held(d)'
    BY DEF Covered
  <1>1. ASSUME Held(d)
        PROVE  /\ UnlockComing(d)' \/ Held(d)'
               /\ owner[sessions[d]] = o =>
                     IdleComing(o, d)' \/ (Held(d)' /\ owner'[sessions'[d]] = o)
    <2>1. CASE Held(d)' /\ owner'[sessions'[d]] = owner[sessions[d]]
      BY <2>1
    <2>2. CASE \E g \in Gens : pc'[g] = "sayIdle" /\ device'[g] = d
                                  /\ owner'[g] = owner[sessions[d]]
      BY <2>2 DEF UnlockComing, IdleComing
    <2>3. CASE \E c \in Callers : Closing(c, d)' /\ \A p \in Owners :
                                      p = owner[sessions[d]] => Tells(c, p)'
      BY <2>3 DEF UnlockComing, IdleComing
    <2> QED
      BY <1>1, <2>1, <2>2, <2>3, HeldStep
  <1> QED
    BY <1>1 DEF Covered

\* Only its own announcement takes a thread or a caller from announcing.
LEMMA QuietKeeps ==
  ASSUME SlotInv, Bare,
         \/ Quiet
         \/ \E d \in Devices, o \in Owners \union {NoOwner} : Disconnect(d, o)
         \/ UNCHANGED slotVars
  PROVE  /\ \A g \in Gens : pc[g] = "sayIdle" => pc'[g] = "sayIdle"
         /\ \A c \in Callers : ~AnnounceClosed(c)
  <1>0. TypeOK
    BY DEF SlotInv
  <1>1. ASSUME NEW g \in Gens, pc[g] = "sayIdle"
        PROVE  pc'[g] = "sayIdle"
    <2>1. g # genCounter + 1
      <3>1. Unborn
        BY DEF SlotInv, SlotFacts
      <3>2. genCounter \in 0..MaxGen /\ MaxGen \in Nat
        BY <1>0, SlotsAssumption DEF TypeOK
      <3> QED
        BY <1>1, <3>1, <3>2 DEF Unborn, Gens
    <2>2. ASSUME NEW d \in Devices, NEW o \in Owners, Reserve(d, o)
          PROVE  pc'[g] = pc[g]
      BY <1>0, <2>1, <2>2 DEF Reserve, TypeOK
    <2>3. ASSUME NEW h \in Gens, Connect(h)
          PROVE  pc'[g] = pc[g]
      <3>1. h # g
        BY <1>1, <2>3 DEF Connect, ThreadClose, Dial, RaisePrompt, FailConnect, Promote,
                          Superseded, Touch
      <3> QED
        BY <1>0, <2>3, <3>1 DEF Connect, ThreadClose, Dial, RaisePrompt, FailConnect, Promote,
                                Superseded, Touch, TypeOK
    <2>4. CASE UNCHANGED pc
      BY <1>1, <2>4
    <2>5. CASE Quiet
      <3>1. ASSUME NEW c \in Callers, Teardown(c) \/ Release(c)
            PROVE  UNCHANGED pc
        BY <3>1 DEF Teardown, Release, Close, ClearPending, ShutPopped, Closed, ListPrompts,
                    ClearListed, PromptsCleared, Forget
      <3>2. ASSUME Tick
            PROVE  UNCHANGED pc
        BY <3>2 DEF Tick, TickIdle, SweepPrompt, ListOwners, TickOwner, CheckIdle, TickDone
      <3>3. ASSUME \/ \E d \in Devices, o \in Owners, code \in Gens, trusts \in BOOLEAN :
                          AnswerPrompt(d, code, o, trusts)
                   \/ \E saved \in BOOLEAN : KeyWritten(saved)
                   \/ \E c \in Callers, o \in Owners : ReleaseOwner(c, o)
                   \/ \E o \in Owners : StayConnected(o) \/ GrowIdle(o)
                   \/ \E d \in Devices : ExpirePrompt(d)
            PROVE  UNCHANGED pc
        BY <3>3 DEF AnswerPrompt, KeyWritten, ReleaseOwner, StayConnected, GrowIdle, ExpirePrompt
      <3> QED
        BY <1>1, <2>2, <2>3, <2>4, <2>5, <3>1, <3>2, <3>3 DEF Quiet
    <2>6. CASE \E d \in Devices, o \in Owners \union {NoOwner} : Disconnect(d, o)
      BY <2>4, <2>6 DEF Disconnect
    <2>7. CASE UNCHANGED slotVars
      BY <2>4, <2>7 DEF slotVars
    <2> QED
      BY <2>5, <2>6, <2>7
  <1>2. ASSUME NEW c \in Callers, AnnounceClosed(c)
        PROVE  FALSE
    <2>1. job[c].phase = "announce" /\ job'[c].phase = "close"
      BY <1>0, <1>2, ClosingJob DEF AnnounceClosed
    <2>2. CASE Elsewhere
      BY <1>0, <2>1, <2>2, ElsewhereUndisturbed DEF Undisturbed, Popping
    <2>3. ASSUME NEW e \in Callers, NEW g \in Gens, Close(e, g)
          PROVE  FALSE
      <3>1. job' = [job EXCEPT ![e] = job'[e]] /\ job[e].phase = "close"
        BY <1>0, <2>3, CloseJob, ClosePassed DEF Popped, Close
      <3> QED
        BY <1>0, <2>1, <3>1 DEF TypeOK
    <2>4. ASSUME NEW e \in Callers, ClearPending(e) \/ ShutPopped(e)
          PROVE  FALSE
      <3>1. job' = [job EXCEPT ![e] = job'[e]] /\ job[e].phase \in {"clear", "shut"}
        BY <1>0, <2>4, ClosingJob DEF ClearPending, ShutPopped
      <3> QED
        BY <1>0, <2>1, <3>1 DEF TypeOK
    <2>5. ASSUME NEW d \in Devices, NEW o \in Owners \union {NoOwner}, Disconnect(d, o)
          PROVE  FALSE
      <3>1. job' = [job EXCEPT ![Loop] = job'[Loop]] /\ job'[Loop].phase \in {"announce", "clear"}
        BY <1>0, <2>5, DisconnectJob DEF Popped
      <3> QED
        BY <1>0, <2>1, <3>1 DEF TypeOK
    <2>6. CASE Quiet
      BY <2>2, <2>3, <2>4, <2>6 DEF Quiet, Teardown, Elsewhere
    <2>7. CASE UNCHANGED slotVars
      BY <2>2, <2>7 DEF Elsewhere
    <2> QED
      BY <2>5, <2>6, <2>7
  <1> QED
    BY <1>1, <1>2

\* The steps that push and deliver nothing.
LEMMA QuietBrowsers ==
  ASSUME BrowsersInv, UNCHANGED browserVars,
         \/ Quiet
         \/ \E d \in Devices, o \in Owners \union {NoOwner} : Disconnect(d, o)
         \/ UNCHANGED slotVars
  PROVE  BrowserTypes' /\ Stamps' /\ Covered'
  <1> USE DEF BrowsersInv, ClientInv
  <1>1. [Next]_slotVars
    BY DEF Next
  <1>2. Queued' = Queued /\ UNCHANGED <<queue, view, lockView>>
    BY DEF browserVars, Queued
  <1>3. BrowserTypes'
    BY <1>2 DEF BrowserTypes
  <1>4. Stamps'
    BY <1>1, <1>2, StampsStep
  <1>5. \A o \in Owners, d \in Devices :
            /\ IdleComing(o, d) => IdleComing(o, d)'
            /\ UnlockComing(d) => UnlockComing(d)'
    BY <1>1, <1>2, QuietKeeps, ComingStays
  <1>6. Covered'
    BY <1>1, <1>2, <1>5, CoveredStays
  <1> QED
    BY <1>3, <1>4, <1>6

\* A connect announces its end: what it says was true of its session.
LEMMA PushConnectStep ==
  ASSUME BrowsersInv, NEW g \in Gens, PushConnect(g)
  PROVE  BrowserTypes' /\ Stamps' /\ Covered'
  <1> USE DEF BrowsersInv, ClientInv
  <1>0. TypeOK /\ [Next]_slotVars /\ UNCHANGED <<view, lockView>>
    BY DEF SlotInv, Next, PushConnect
  <1>1. /\ pc[g] \in {"sayConnected", "sayIdle"}
        /\ pc' = [pc EXCEPT ![g] = "done"]
        /\ UNCHANGED <<sessVars, client, keyVars, activity, job>>
    BY DEF PushConnect, Announce
  <1> DEFINE on == pc[g] = "sayConnected"
             gen == IF pc[g] = "sayConnected" THEN g ELSE 0
  <1>3. PICK a \in Messages, b \in Messages :
           /\ a = [kind |-> "status", dev |-> device[g], on |-> on, to |-> owner[g],
                   gen |-> gen]
           /\ b = [kind |-> "lock", dev |-> device[g], on |-> on, to |-> NoOwner, gen |-> gen]
    <2>1. gen \in 0..MaxGen /\ device[g] \in Devices /\ owner[g] \in Owners \union {NoOwner}
      BY <1>0, SlotsAssumption DEF TypeOK, Gens
    <2>2. on \in BOOLEAN
      OBVIOUS
    <2> HIDE DEF on, gen
    <2> QED
      BY <2>1, <2>2 DEF Messages
  <1>2. queue' = queue \o <<a, b>>
    BY <1>1, <1>3 DEF PushConnect, Push, Announcement
  <1>4. queue' \in Seq(Messages) /\ Queued' = Queued \union {a, b}
    BY <1>2, PushedTwo DEF BrowserTypes, Queued
  <1>5. BrowserTypes'
    BY <1>0, <1>4 DEF BrowserTypes
  <1>6. Stamped(a)' /\ Stamped(b)'
    <2>1. g # 0 /\ pc'[g] = "done" /\ UNCHANGED <<device, owner, state>>
      BY <1>0, <1>1 DEF Gens, TypeOK, sessVars
    <2>2. pc[g] = "sayConnected" => Established(g)'
      BY <1>1, <2>1 DEF Stamps, Established
    <2> QED
      BY <1>1, <1>3, <2>1, <2>2 DEF Stamped
  <1>7. Stamps'
    BY <1>0, <1>4, <1>6, StampsStep
  <1>8. \A h \in Gens : pc[h] = "sayIdle" =>
             \/ pc'[h] = "sayIdle"
             \/ /\ IdleMessage("status", device[h], owner[h]) \in Queued'
                /\ IdleMessage("lock", device[h], NoOwner) \in Queued'
    <2>1. \A h \in Gens : h # g => pc'[h] = pc[h]
      BY <1>0, <1>1 DEF TypeOK
    <2>2. pc[g] = "sayIdle" => /\ a = IdleMessage("status", device[g], owner[g])
                               /\ b = IdleMessage("lock", device[g], NoOwner)
      BY <1>3 DEF IdleMessage
    <2> QED
      BY <1>4, <2>1, <2>2
  <1>9. \A c \in Callers : ~AnnounceClosed(c)
    <2> SUFFICES ASSUME NEW c \in Callers, AnnounceClosed(c)
                 PROVE  FALSE
      OBVIOUS
    <2>1. job[c].phase = "announce" /\ job'[c].phase = "close"
      BY <1>0, ClosingJob DEF AnnounceClosed
    <2> QED
      BY <1>1, <2>1
  <1>10. Covered'
    <2>1. \A o \in Owners, d \in Devices :
             /\ IdleComing(o, d) => IdleComing(o, d)'
             /\ UnlockComing(d) => UnlockComing(d)'
      BY <1>0, <1>4, <1>8, <1>9, ComingStays
    <2> QED
      BY <1>0, <2>1, CoveredStays
  <1> QED
    BY <1>5, <1>7, <1>10

\* A caller announces the end of what it closed to whom it has to tell.
LEMMA PushClosedStep ==
  ASSUME BrowsersInv, NEW c \in Callers, PushClosed(c)
  PROVE  BrowserTypes' /\ Stamps' /\ Covered'
  <1> USE DEF BrowsersInv, ClientInv
  <1>0. /\ TypeOK /\ [Next]_slotVars /\ UNCHANGED <<view, lockView>>
        /\ AnnounceClosed(c) /\ job[c].phase = "announce" /\ UNCHANGED <<sessVars, pc>>
    BY DEF SlotInv, Next, PushClosed, AnnounceClosed
  <1>1. job[c] \in Jobs /\ job' = [job EXCEPT ![c] = job'[c]]
    BY <1>0, ClosingJob DEF TypeOK
  <1>2. PICK d \in job[c].at : Push(Announcement(d, FALSE, Addressee(c, d), 0))
    BY DEF PushClosed
  <1>3. d \in Devices /\ Addressee(c, d) \in Owners \union {NoOwner}
    <2>1. d \in Devices /\ job[c].who \in Owners \union {NoOwner} /\ job[c].cur \in 0..MaxGen
      BY <1>1 DEF Jobs
    <2>2. \A g \in 0..MaxGen : g # 0 => owner[g] \in Owners \union {NoOwner}
      BY <1>0, SlotsAssumption DEF TypeOK, Gens
    <2>3. sessions[d] \in 0..MaxGen
      BY <1>0, <2>1 DEF TypeOK
    <2> QED
      BY <2>1, <2>2, <2>3 DEF Addressee
  <1>4. PICK a \in Messages, b \in Messages :
           /\ a = IdleMessage("status", d, Addressee(c, d))
           /\ b = IdleMessage("lock", d, NoOwner)
    <2>1. \A o \in Owners \union {NoOwner} : /\ IdleMessage("status", d, o) \in Messages
                                            /\ IdleMessage("lock", d, o) \in Messages
      BY <1>3, SlotsAssumption DEF IdleMessage, Messages
    <2> HIDE DEF BrowsersInv, ClientInv
    <2> QED
      BY <1>3, <2>1
  <1>5. queue' = queue \o <<a, b>>
    BY <1>2, <1>4 DEF Push, Announcement, IdleMessage
  <1>6. queue' \in Seq(Messages) /\ Queued' = Queued \union {a, b}
    BY <1>5, PushedTwo DEF BrowserTypes, Queued
  <1>7. BrowserTypes'
    BY <1>0, <1>6 DEF BrowserTypes
  <1>8. Stamped(a)' /\ Stamped(b)'
    BY <1>4 DEF Stamped, IdleMessage
  <1>9. Stamps'
    BY <1>0, <1>6, <1>8, StampsStep
  <1>10. \A e \in Callers, f \in Devices : Closing(e, f) =>
             \/ ~AnnounceClosed(e)
             \/ /\ IdleMessage("lock", f, NoOwner) \in Queued'
                /\ \A o \in Owners : Tells(e, o) => IdleMessage("status", f, o) \in Queued'
    <2> SUFFICES ASSUME NEW e \in Callers, NEW f \in Devices, Closing(e, f), AnnounceClosed(e)
                 PROVE  /\ IdleMessage("lock", f, NoOwner) \in Queued'
                        /\ \A o \in Owners :
                              Tells(e, o) => IdleMessage("status", f, o) \in Queued'
      OBVIOUS
    <2>1. e = c
      <3>1. job[e].phase = "announce" /\ job'[e].phase = "close"
        BY <1>0, ClosingJob DEF AnnounceClosed
      <3> QED
        BY <1>0, <1>1, <3>1 DEF TypeOK
    <2>2. f = d
      BY <1>2, <2>1 DEF Closing, PoppedBorn
    <2>3. \A o \in Owners : Tells(c, o) => Addressee(c, d) = o
      BY SlotsAssumption DEF Tells, Addressee
    <2> QED
      BY <1>4, <1>6, <2>1, <2>2, <2>3
  <1>11. Covered'
    <2>1. \A o \in Owners, f \in Devices :
             /\ IdleComing(o, f) => IdleComing(o, f)'
             /\ UnlockComing(f) => UnlockComing(f)'
      BY <1>0, <1>6, <1>10, ComingStays
    <2> QED
      BY <1>0, <2>1, CoveredStays
  <1> QED
    BY <1>7, <1>9, <1>11

\* A message is delivered: what is shown then is true of the session in the
\* slot, and an idle message has put out what it covered.
LEMMA DeliverStep ==
  ASSUME BrowsersInv, Deliver
  PROVE  BrowserTypes' /\ Stamps' /\ Covered'
  <1> USE DEF BrowsersInv, ClientInv
  <1>0. /\ TypeOK /\ [Next]_slotVars /\ UNCHANGED slotVars /\ queue # << >> /\ queue' = Tail(queue)
        /\ queue \in Seq(Messages)
        /\ view \in [Owners -> [Devices -> BOOLEAN]]
        /\ lockView \in [Owners -> [Devices -> BOOLEAN]]
    BY DEF SlotInv, Deliver, BrowserTypes
  <1>1. PICK m \in Messages :
           m = Head(queue) /\ queue' \in Seq(Messages) /\ Queued = {m} \union Queued'
    BY <1>0, TookFirst DEF Queued
  <1>2. PICK browsers \in SUBSET (Owners \union {NoOwner}) :
           browsers = IF ~StillCurrent(m) THEN {}
                      ELSE IF m.to = NoOwner THEN Owners ELSE {m.to}
    BY <1>1 DEF Messages
  <1>3. /\ view' = IF m.kind = "status" THEN Show(browsers, view, m) ELSE view
        /\ lockView' = IF m.kind = "lock" THEN Show(browsers, lockView, m) ELSE lockView
    BY <1>1, <1>2 DEF Deliver
  <1>4. \A o \in Owners, d \in Devices :
           /\ view'[o][d] = IF m.kind = "status" /\ o \in browsers /\ d = m.dev
                            THEN m.on ELSE view[o][d]
           /\ lockView'[o][d] = IF m.kind = "lock" /\ o \in browsers /\ d = m.dev
                                THEN m.on ELSE lockView[o][d]
    BY <1>0, <1>3 DEF Show
  <1>5. BrowserTypes'
    <2>1. m.dev \in Devices /\ m.on \in BOOLEAN
      BY DEF Messages
    <2>2. Show(browsers, view, m) \in [Owners -> [Devices -> BOOLEAN]]
      BY <1>0, <2>1 DEF Show
    <2>3. Show(browsers, lockView, m) \in [Owners -> [Devices -> BOOLEAN]]
      BY <1>0, <2>1 DEF Show
    <2> QED
      BY <1>0, <1>1, <1>3, <2>2, <2>3 DEF BrowserTypes
  <1>6. Stamps'
    BY <1>0, <1>1, StampsStep
  <1>7. Stamped(m)
    BY <1>1 DEF Stamps
  <1>8. /\ \A d \in Devices : Held(d)' <=> Held(d)
        /\ UNCHANGED <<owner, sessions, pc, device, job, state>>
    BY <1>0 DEF slotVars, sessVars, Held, Known
  <1>9. m.on => /\ m.gen # 0 /\ pc[m.gen] = "done" /\ device[m.gen] = m.dev
                /\ browsers # {} => sessions[m.dev] = m.gen /\ Held(m.dev)
                /\ m.kind = "status" => m.to = owner[m.gen]
    BY <1>2, <1>7 DEF Stamped, StillCurrent, Held, Known
  <1>10. ASSUME NEW o \in Owners, NEW d \in Devices, view'[o][d]
         PROVE  IdleComing(o, d)' \/ (Held(d)' /\ owner'[sessions'[d]] = o)
    <2>1. CASE m.kind = "status" /\ o \in browsers /\ d = m.dev
      <3>1. m.on
        BY <1>4, <1>10, <2>1
      <3>2. m.to = owner[m.gen] /\ sessions[d] = m.gen /\ Held(d) /\ m.gen # 0
        BY <1>9, <2>1, <3>1
      <3>3. m.to = o
        <4>1. pc[m.gen] # "absent" /\ m.gen \in Gens
          BY <1>9, <3>1, SlotsAssumption DEF Messages, Gens
        <4>2. m.to # NoOwner
          BY <3>2, <4>1, SlotsAssumption DEF Stamps
        <4> QED
          BY <1>2, <2>1, <4>2
      <3> QED
        BY <1>8, <3>2, <3>3
    <2>2. CASE ~(m.kind = "status" /\ o \in browsers /\ d = m.dev)
      <3>1. view[o][d]
        BY <1>4, <1>10, <2>2
      <3>2. CASE Held(d) /\ owner[sessions[d]] = o
        BY <1>8, <3>2
      <3>3. CASE IdleComing(o, d)
        <4>1. ASSUME NEW x \in Queued, x.kind = "status", x.dev = d, x.to = o, x.gen = 0
              PROVE  x \in Queued'
          <5>1. x # m
            BY <1>2, <2>2, <4>1, SlotsAssumption DEF StillCurrent
          <5> QED
            BY <1>1, <5>1
        <4> QED
          BY <1>8, <3>3, <4>1 DEF IdleComing, Closing, Tells
      <3> QED
        BY <3>1, <3>2, <3>3 DEF Covered
    <2> QED
      BY <2>1, <2>2
  <1>11. ASSUME NEW o \in Owners, NEW d \in Devices, lockView'[o][d]
         PROVE  UnlockComing(d)' \/ Held(d)'
    <2>1. CASE m.kind = "lock" /\ o \in browsers /\ d = m.dev
      BY <1>4, <1>8, <1>9, <1>11, <2>1
    <2>2. CASE ~(m.kind = "lock" /\ o \in browsers /\ d = m.dev)
      <3>1. lockView[o][d]
        BY <1>4, <1>11, <2>2
      <3>2. CASE Held(d)
        BY <1>8, <3>2
      <3>3. CASE UnlockComing(d)
        <4>1. ASSUME NEW x \in Queued, x.kind = "lock", x.dev = d, x.gen = 0
              PROVE  x \in Queued'
          <5>1. x # m
            BY <1>2, <1>7, <2>2, <4>1 DEF StillCurrent, Stamped
          <5> QED
            BY <1>1, <5>1
        <4> QED
          BY <1>8, <3>3, <4>1 DEF UnlockComing, Closing
      <3> QED
        BY <3>1, <3>2, <3>3 DEF Covered
    <2> QED
      BY <2>1, <2>2
  <1>12. Covered'
    BY <1>10, <1>11 DEF Covered
  <1> QED
    BY <1>5, <1>6, <1>12

\* A page that loads is shown what is in the slots.
LEMMA LoadPageStep ==
  ASSUME BrowsersInv, NEW o \in Owners, LoadPage(o)
  PROVE  BrowserTypes' /\ Stamps' /\ Covered'
  <1> USE DEF BrowsersInv, ClientInv
  <1>0. /\ TypeOK /\ [Next]_slotVars /\ UNCHANGED <<slotVars, queue>> /\ Queued' = Queued
        /\ view \in [Owners -> [Devices -> BOOLEAN]]
        /\ lockView \in [Owners -> [Devices -> BOOLEAN]]
    BY DEF SlotInv, LoadPage, BrowserTypes, Queued
  <1>1. /\ UNCHANGED <<owner, sessions, pc, device, job, state, oldSess>>
        /\ view' = [view EXCEPT ![o] = [d \in Devices |-> Connected(d) /\ owner[sessions[d]] = o]]
        /\ lockView' = [lockView EXCEPT ![o] = [d \in Devices |-> Connected(d)]]
    BY DEF LoadPage, slotVars, sessVars
  <1>2. \A d \in Devices : Connected(d) => Held(d)
    <2> SUFFICES ASSUME NEW d \in Devices, Connected(d)
                 PROVE  Held(d)
      OBVIOUS
    <2>1. sessions[d] # 0 /\ sessions[d] \in Gens /\ state[sessions[d]] = "connected"
      BY <1>0, SlotsAssumption DEF Connected, TypeOK, Gens
    <2>2. pc[sessions[d]] \notin {"retire", "dial"}
      BY <2>1 DEF SlotInv, SlotFacts, ThreadState
    <2> QED
      BY <2>1, <2>2 DEF Held, Known
  <1>3. BrowserTypes'
    <2>1. [d \in Devices |-> Connected(d) /\ owner[sessions[d]] = o] \in [Devices -> BOOLEAN]
      BY DEF Connected
    <2>2. [d \in Devices |-> Connected(d)] \in [Devices -> BOOLEAN]
      BY DEF Connected
    <2> QED
      BY <1>0, <1>1, <2>1, <2>2 DEF BrowserTypes
  <1>4. Stamps'
    BY <1>0, StampsStep
  <1>5. /\ \A d \in Devices : Held(d) => Held(d)'
        /\ \A p \in Owners, d \in Devices : IdleComing(p, d) => IdleComing(p, d)'
        /\ \A d \in Devices : UnlockComing(d) => UnlockComing(d)'
    BY <1>0, <1>1 DEF Held, Known, IdleComing, UnlockComing, Closing, Tells
  <1>6. Covered'
    <2> SUFFICES ASSUME NEW p \in Owners, NEW d \in Devices
                 PROVE  /\ view'[p][d] => IdleComing(p, d)'
                                            \/ (Held(d)' /\ owner'[sessions'[d]] = p)
                        /\ lockView'[p][d] => UnlockComing(d)' \/ Held(d)'
      BY DEF Covered
    <2>1. CASE p = o
      BY <1>0, <1>1, <1>2, <1>5, <2>1
    <2>2. CASE p # o
      BY <1>0, <1>1, <1>5, <2>2 DEF Covered
    <2> QED
      BY <2>1, <2>2
  <1> QED
    BY <1>3, <1>4, <1>6

\* Every step of the browsers' specification is one of the slots' or leaves
\* them alone, and keeps the invariant.
LEMMA BrowsersStep ==
  ASSUME BrowsersInv, [BNext]_vars
  PROVE  [Next]_slotVars /\ PoppedBorn' /\ BrowserTypes' /\ Stamps' /\ Covered'
  <1> USE DEF BrowsersInv, ClientInv
  <1>1. [Next]_slotVars
    BY DEF BNext, Next, PushConnect, PushClosed, Deliver, LoadPage, vars
  <1>2. PoppedBorn'
    BY <1>1, NextPoppedBorn
  <1>3. CASE \/ Quiet /\ UNCHANGED browserVars
             \/ UNCHANGED vars
             \/ \E d \in Devices, o \in Owners \union {NoOwner} :
                    Disconnect(d, o) /\ UNCHANGED browserVars
    BY <1>1, <1>2, <1>3, QuietBrowsers DEF vars
  <1>4. ASSUME NEW g \in Gens, PushConnect(g)
        PROVE  BrowserTypes' /\ Stamps' /\ Covered'
    BY <1>4, PushConnectStep
  <1>5. ASSUME NEW c \in Callers, PushClosed(c)
        PROVE  BrowserTypes' /\ Stamps' /\ Covered'
    BY <1>5, PushClosedStep
  <1>6. CASE Deliver
    BY <1>1, <1>2, <1>6, DeliverStep
  <1>7. ASSUME NEW o \in Owners, LoadPage(o)
        PROVE  BrowserTypes' /\ Stamps' /\ Covered'
    BY <1>7, LoadPageStep
  <1> QED
    BY <1>1, <1>2, <1>3, <1>4, <1>5, <1>6, <1>7 DEF BNext

\* The initial states satisfy it: nothing is shown, queued or closing.
LEMMA BrowsersInit ==
  ASSUME BInit
  PROVE  Init /\ PoppedBorn /\ BrowserTypes /\ Stamps /\ Covered
  <1>1. Queued = {}
    BY DEF BInit, Queued, Elements
  <1>2. BrowserTypes
    BY DEF BInit, BrowserTypes
  <1>3. PoppedBorn
    BY DEF BInit, Init, PoppedBorn, FreeJob, Start, Popping
  <1>4. Stamps
    BY <1>1 DEF BInit, Init, Stamps
  <1>5. Covered
    BY DEF BInit, Covered
  <1> QED
    BY <1>2, <1>3, <1>4, <1>5 DEF BInit

\* The browsers see a system of slots.
THEOREM BrowsersSlots == BSpec => Spec
  <1>1. BInit => Init
    BY DEF BInit
  <1>2. [BNext]_vars => [Next]_slotVars
    BY DEF BNext, Next, PushConnect, PushClosed, Deliver, LoadPage, vars
  <1> QED
    BY <1>1, <1>2, PTL DEF BSpec, Spec

\* The invariant of the browsers holds in every reachable state.
THEOREM BrowsersInvariant == BSpec => []BrowsersInv
  <1>1. BInit => PoppedBorn /\ BrowserTypes /\ Stamps /\ Covered
    BY BrowsersInit
  <1>2. BrowsersInv /\ [BNext]_vars => PoppedBorn' /\ BrowserTypes' /\ Stamps' /\ Covered'
    BY BrowsersStep
  <1>3. BrowsersInv <=> /\ ClientInv /\ BrowserTypes
                        /\ PoppedBorn /\ Stamps /\ Covered
    BY DEF BrowsersInv
  <1> QED
    BY <1>1, <1>2, <1>3, BrowsersSlots, ClientsInvariant, PTL DEF BSpec

\* When everything has finished and been delivered, no browser shows a
\* connection or a lock for a device without a session: every way a slot is
\* emptied announces it (connect's failure, _close, disconnect), and what was
\* overtaken is dropped (_deliver).
THEOREM NoGhosts == BSpec => []NoGhost
  <1>1. ASSUME BrowsersInv, Settled, NEW d \in Devices, sessions[d] = 0, NEW o \in Owners
        PROVE  ~view[o][d] /\ ~lockView[o][d]
    <2>1. Queued = {}
      BY <1>1 DEF Settled, Queued, Elements
    <2>2. \A g \in Gens : pc[g] # "sayIdle"
      BY <1>1 DEF Settled, AtRest
    <2>3. \A c \in Callers : ~Closing(c, d)
      BY <1>1 DEF Settled, AtRest, Free, Closing, Popping
    <2> QED
      BY <1>1, <2>1, <2>2, <2>3 DEF BrowsersInv, Covered, IdleComing, UnlockComing, Held
  <1>2. BrowsersInv => NoGhost
    BY <1>1 DEF NoGhost
  <1> QED
    BY <1>2, BrowsersInvariant, PTL

\* A browser lights up only for what is there.
ShownTrue ==
  \A o \in Owners, d \in Devices :
     /\ ~view[o][d] /\ view'[o][d] => Connected(d) /\ owner[sessions[d]] = o
     /\ ~lockView[o][d] /\ lockView'[o][d] => Connected(d)

\* The step behind the next theorem: a message stamped with the generation in
\* the slot tells of a session that is still connected.
LEMMA NextShownTrue ==
  ASSUME BrowsersInv, [BNext]_vars
  PROVE  ShownTrue
  <1> USE DEF BrowsersInv, ClientInv
  <1>1. CASE UNCHANGED <<view, lockView>>
    BY <1>1 DEF ShownTrue
  <1>2. ASSUME NEW p \in Owners, LoadPage(p)
        PROVE  ShownTrue
    BY <1>2 DEF LoadPage, ShownTrue, BrowserTypes
  <1>3. CASE Deliver
    <2>1. /\ TypeOK /\ queue # << >> /\ queue \in Seq(Messages)
          /\ view \in [Owners -> [Devices -> BOOLEAN]]
          /\ lockView \in [Owners -> [Devices -> BOOLEAN]]
      BY <1>3 DEF SlotInv, Deliver, BrowserTypes
    <2>2. PICK m \in Messages : m = Head(queue) /\ m \in Queued
      BY <2>1, TookFirst DEF Queued
    <2>3. PICK browsers \in SUBSET (Owners \union {NoOwner}) :
             browsers = IF ~StillCurrent(m) THEN {}
                        ELSE IF m.to = NoOwner THEN Owners ELSE {m.to}
      BY DEF Messages
    <2>4. /\ view' = IF m.kind = "status" THEN Show(browsers, view, m) ELSE view
          /\ lockView' = IF m.kind = "lock" THEN Show(browsers, lockView, m) ELSE lockView
      BY <1>3, <2>2, <2>3 DEF Deliver
    <2>5. ASSUME NEW o \in Owners, NEW d \in Devices,
                 \/ ~view[o][d] /\ view'[o][d]
                 \/ ~lockView[o][d] /\ lockView'[o][d]
          PROVE  m.on /\ o \in browsers /\ d = m.dev
      BY <2>1, <2>4, <2>5 DEF Show
    <2>6. ASSUME m.on, browsers # {}
          PROVE  Connected(m.dev) /\ (m.kind = "status" => m.to = owner[sessions[m.dev]])
      <3>1. Stamped(m)
        BY <2>2 DEF Stamps
      <3>2. sessions[m.dev] = m.gen /\ m.gen # 0 /\ Established(m.gen)
        BY <2>3, <2>6, <3>1 DEF Stamped, StillCurrent
      <3>3. state[m.gen] \in Live
        BY <3>2 DEF Messages, SlotInv, SlotFacts, SlotHoldsLive
      <3> QED
        BY <3>1, <3>2, <3>3 DEF Connected, Established, Live, Stamped
    <2>7. ASSUME m.on, m.kind = "status", NEW o \in browsers
          PROVE  o = m.to
      <3>1. Stamped(m)
        BY <2>2 DEF Stamps
      <3>2. m.gen \in Gens /\ pc[m.gen] = "done" /\ m.to = owner[m.gen]
        BY <2>7, <3>1, SlotsAssumption DEF Stamped, Messages, Gens
      <3>3. m.to # NoOwner
        BY <3>2, SlotsAssumption DEF Stamps
      <3> QED
        BY <2>3, <2>7, <3>3
    <2>8. ASSUME NEW o \in Owners, NEW d \in Devices, ~view[o][d] /\ view'[o][d]
          PROVE  Connected(d) /\ owner[sessions[d]] = o
      <3>1. m.kind = "status"
        BY <2>4, <2>8
      <3> QED
        BY <2>5, <2>6, <2>7, <2>8, <3>1
    <2>9. ASSUME NEW o \in Owners, NEW d \in Devices, ~lockView[o][d] /\ lockView'[o][d]
          PROVE  Connected(d)
      BY <2>5, <2>6, <2>9
    <2> QED
      BY <2>8, <2>9 DEF ShownTrue
  <1> QED
    BY <1>1, <1>2, <1>3 DEF BNext, PushConnect, PushClosed, browserVars, vars

\* No browser is told of a connection that is already gone, however long the
\* message was queued (_deliver and the generation stamp).
THEOREM ShownAreConnected == BSpec => ShownWhileConnected
  <1>1. BrowsersInv /\ [BNext]_vars => [ShownTrue]_vars
    BY NextShownTrue
  <1> QED
    BY <1>1, BrowsersInvariant, PTL DEF BSpec, ShownWhileConnected, ShownTrue
=============================================================================
