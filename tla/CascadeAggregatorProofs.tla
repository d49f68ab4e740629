---------------------- MODULE CascadeAggregatorProofs ----------------------
(***************************************************************************)
(* TLAPS proofs about CASCADE aggregation, for any set of answers, any     *)
(* expected counts and any number of rounds.                               *)
(***************************************************************************)
EXTENDS CascadeAggregator, FiniteSetTheorems, TLAPS

USE DEF mapperVars, Closed, LockToEmit, StartTimer, Buffered

\* An entry of the delivery log names a round and an answer.
LEMMA DeliveryType ==
  ASSUME TypeOK, NEW i \in DOMAIN delivered
  PROVE  delivered[i] \in [round: Rounds, answer: Answers]
<1> DEFINE D == [round: Rounds, answer: Answers]
<1>1. delivered \in Seq(D)
  BY DEF TypeOK
<1> HIDE DEF D
<1>2. i \in 1 .. Len(delivered)
  BY <1>1
<1>3. delivered[i] \in D
  BY <1>1, <1>2
<1> QED BY <1>3 DEF D

\* No aggregator exists and nothing is buffered before the first response.
LEMMA InitIInv == Init => IInv
<1> SUFFICES ASSUME Init PROVE IInv
  OBVIOUS
<1>1. TypeOK
  <2>1. mapperSet \in BOOLEAN /\ resolved \in [Rounds -> BOOLEAN]
    BY DEF Init
  <2> QED BY <2>1, CascadeAssumption DEF Init, TypeOK, Idle
<1>2. LockHeldToEmit /\ ElectedWasCollected /\ DeliveredWasElected /\ RoundsDisjoint
  BY DEF Init, LockHeldToEmit, ElectedWasCollected, DeliveredWasElected, RoundsDisjoint,
         Idle
<1>3. AnswersAccountedFor
  BY DEF Init, AnswersAccountedFor, Idle
<1> QED BY <1>1, <1>2, <1>3 DEF IInv

\* Steps that touch neither an election, a delivery nor a collection: what they
\* change of the receive thread and the timers is the caller's to show.
LEMMA FrameStep ==
  ASSUME IInv, TypeOK',
         UNCHANGED <<lock, selected, delivered, collected>>,
         \A r \in Rounds : responses'[r] \subseteq responses[r],
         \A r \in Rounds : responses'[r] = responses[r] \/ resolved'[r],
         \A r \in Rounds : resolved[r] => resolved'[r],
         rx.pc = "emitting" => rx' = rx,
         rx'.pc = "emitting" => rx' = rx,
         AnswersAccountedFor'
  PROVE  IInv'
<1>1. LockHeldToEmit'
  BY DEF IInv, LockHeldToEmit
<1>2. ElectedWasCollected'
  BY DEF IInv, ElectedWasCollected
<1>3. DeliveredWasElected' /\ RoundsDisjoint'
  BY DEF IInv, DeliveredWasElected, RoundsDisjoint
<1> QED BY <1>1, <1>2, <1>3 DEF IInv

\* A round that resolves with buffered answers elects one of them or none; the
\* resolving thread keeps the lock exactly when there is something to emit.
LEMMA ResolveStep ==
  ASSUME IInv, NEW r \in Rounds, NEW pool, NEW holder \in {"rx", "timer"},
         DoResolve(r, pool, holder), pool \subseteq collected'[r], pool \subseteq Answers,
         collected' \in [Rounds -> SUBSET Answers],
         \A s \in Rounds : collected[s] \subseteq collected'[s],
         \A s \in Rounds : s # r => collected[s] = collected'[s]
  PROVE  /\ ElectedWasCollected'
         /\ selected' \in [Rounds -> Answers \cup {None}]
         /\ lock' \in [Rounds -> {"free", "rx", "timer"}]
         /\ resolved' \in [Rounds -> BOOLEAN]
         /\ responses' \in [Rounds -> SUBSET Answers]
<1>1. PICK w \in pool \cup {None} :
        /\ selected' = [selected EXCEPT ![r] = w]
        /\ lock' = [lock EXCEPT ![r] = IF w = None THEN "free" ELSE holder]
  BY DEF DoResolve
<1>2. TypeOK /\ ElectedWasCollected
  BY DEF IInv
<1>3. /\ resolved' = [resolved EXCEPT ![r] = TRUE]
      /\ responses' = [responses EXCEPT ![r] = {}]
  BY DEF DoResolve
<1>4. ElectedWasCollected'
  <2> SUFFICES ASSUME NEW s \in Rounds
               PROVE /\ responses'[s] \subseteq collected'[s]
                     /\ ~resolved'[s] => responses'[s] = collected'[s]
                     /\ selected'[s] # None => resolved'[s] /\ selected'[s] \in collected'[s]
    BY DEF ElectedWasCollected
  <2>1. CASE s = r
    BY <1>1, <1>2, <1>3, <2>1 DEF TypeOK
  <2>2. CASE s # r
    BY <1>1, <1>2, <1>3, <2>2 DEF TypeOK, ElectedWasCollected
  <2> QED BY <2>1, <2>2
<1> QED BY <1>1, <1>2, <1>3, <1>4 DEF TypeOK

\* Handing the elected answer of a locked round to the bus.
LEMMA EmitStep ==
  ASSUME IInv, NEW r \in Rounds, EmitSelected(r), lock[r] # "free",
         UNCHANGED <<collected, resolved, responses, selected>>
  PROVE  /\ delivered' \in Seq([round: Rounds, answer: Answers])
         /\ lock' \in [Rounds -> {"free", "rx", "timer"}]
         /\ DeliveredWasElected'
         /\ \A s \in Rounds : s # r =>
              (lock'[s] # "free" => /\ selected'[s] # None
                                    /\ \A i \in DOMAIN delivered' : delivered'[i].round # s)
         /\ lock'[r] = "free"
<1> DEFINE d == [round |-> r, answer |-> selected[r]]
<1>1. TypeOK /\ LockHeldToEmit /\ DeliveredWasElected
  BY DEF IInv
<1>2. d \in [round: Rounds, answer: Answers]
  BY <1>1 DEF TypeOK, LockHeldToEmit
<1>3. delivered' = Append(delivered, d) /\ lock' = [lock EXCEPT ![r] = "free"]
  BY DEF EmitSelected
<1>4. /\ delivered \in Seq([round: Rounds, answer: Answers])
      /\ Len(delivered) \in Nat /\ DOMAIN delivered = 1 .. Len(delivered)
  BY <1>1 DEF TypeOK
<1> HIDE DEF d
<1>5. /\ delivered' \in Seq([round: Rounds, answer: Answers])
      /\ Len(delivered') = Len(delivered) + 1
      /\ DOMAIN delivered' = 1 .. Len(delivered) + 1
      /\ \A i \in 1 .. Len(delivered) : delivered'[i] = delivered[i]
      /\ delivered'[Len(delivered) + 1] = d
  BY <1>2, <1>3, <1>4
<1>6. d.round = r /\ d.answer = selected[r]
  BY DEF d
<1>7. \A i \in DOMAIN delivered : delivered[i].round # r
  BY <1>1 DEF LockHeldToEmit
<1>8. DeliveredWasElected'
  <2>1. ASSUME NEW i \in DOMAIN delivered'
        PROVE delivered'[i].answer = selected'[delivered'[i].round]
    BY <1>1, <1>4, <1>5, <1>6 DEF DeliveredWasElected
  <2>2. ASSUME NEW i \in DOMAIN delivered', NEW j \in DOMAIN delivered', i # j
        PROVE delivered'[i].round # delivered'[j].round
    BY <1>1, <1>4, <1>5, <1>6, <1>7, <2>2 DEF DeliveredWasElected
  <2> QED BY <2>1, <2>2 DEF DeliveredWasElected
<1>9. ASSUME NEW s \in Rounds, s # r, lock'[s] # "free"
      PROVE selected'[s] # None /\ \A i \in DOMAIN delivered' : delivered'[i].round # s
  <2>1. lock[s] # "free"
    BY <1>1, <1>3, <1>9 DEF TypeOK
  <2> QED BY <1>1, <1>4, <1>5, <1>6, <1>9, <2>1 DEF LockHeldToEmit
<1>10. lock'[r] = "free" /\ lock' \in [Rounds -> {"free", "rx", "timer"}]
  BY <1>1, <1>3 DEF TypeOK
<1> QED BY <1>5, <1>8, <1>9, <1>10

\* What the receive thread holds while it is inside add_response or emitting.
LEMMA RxInRound ==
  ASSUME TypeOK, rx # Idle
  PROVE  /\ rx \in [pc: {"adding", "emitting"}, round: Rounds, msg: Answers]
         /\ rx.round \in Rounds /\ rx.msg \in Answers
BY DEF TypeOK

\* An answer on its way into a round is in no round yet.
LEMMA InHandIsNew ==
  ASSUME IInv, rx.pc = "adding"
  PROVE  rx.msg \notin inbox /\ rx.msg \notin dropped
         /\ \A s \in Rounds : rx.msg \notin collected[s]
<1>1. rx # Idle
  BY DEF Idle
<1>2. rx.msg \in Answers
  BY <1>1, RxInRound DEF IInv
<1> QED BY <1>2 DEF IInv, AnswersAccountedFor

\* Buffering the answer in hand moves it from the hand into a round.
LEMMA CollectKeeps ==
  ASSUME IInv, rx.pc = "adding", rx'.pc # "adding",
         collected' = [collected EXCEPT ![rx.round] = collected[rx.round] \cup {rx.msg}],
         UNCHANGED <<inbox, dropped>>
  PROVE  AnswersAccountedFor'
<1> DEFINE kept == UNION {collected[s] : s \in Rounds}
           keptN == UNION {collected'[s] : s \in Rounds}
<1>0. TypeOK /\ AnswersAccountedFor
  BY DEF IInv
<1>1. rx.round \in Rounds /\ rx.msg \in Answers
  BY <1>0, RxInRound DEF Idle
<1>2. keptN = kept \cup {rx.msg}
  BY <1>0, <1>1 DEF TypeOK
<1>3. /\ Answers \ inbox = {rx.msg} \cup kept \cup dropped
      /\ {rx.msg} \cap (kept \cup dropped) = {}
      /\ kept \cap dropped = {}
  BY <1>0 DEF AnswersAccountedFor
<1> HIDE DEF kept, keptN
<1>4. Answers \ inbox' = keptN \cup dropped' /\ keptN \cap dropped' = {}
  BY <1>2, <1>3
<1> QED BY <1>4 DEF AnswersAccountedFor, keptN

\* handle_cascade and the two ends of add_response on the receive thread.
LEMMA TakeStep ==
  ASSUME IInv, NEW m \in inbox, DiscardControl(m) \/ HandleCascade(m)
  PROVE  IInv'
<1> USE CascadeAssumption DEF IInv
<1>1. CASE DiscardControl(m)
  <2>1. TypeOK'
    BY <1>1 DEF TypeOK, DiscardControl, aggVars, histVars
  <2>2. AnswersAccountedFor'
    <3>1. m \in Controls
      BY <1>1 DEF DiscardControl
    <3>2. Answers \ inbox' = Answers \ inbox
      BY <1>1, <3>1 DEF DiscardControl
    <3> QED BY <1>1, <3>2 DEF DiscardControl, AnswersAccountedFor, histVars
  <2> QED BY <1>1, <2>1, <2>2, FrameStep DEF DiscardControl, aggVars, histVars
<1>2. CASE HandleCascade(m)
  <2>1. TypeOK'
    <3>1. CASE ReuseAggregator(m)
      BY <1>2, <3>1 DEF TypeOK, HandleCascade, ReuseAggregator, histVars, Rounds
    <3>2. CASE NewAggregator(m)
      BY <1>2, <3>2 DEF TypeOK, HandleCascade, NewAggregator, histVars, Rounds
    <3> QED BY <1>2, <3>1, <3>2 DEF HandleCascade
  <2>2. /\ rx = Idle /\ rx'.pc = "adding" /\ rx'.msg = m
        /\ m \in Answers /\ inbox' = inbox \ {m}
    BY <1>2 DEF HandleCascade, ReuseAggregator, NewAggregator
  <2>3. UNCHANGED <<responses, resolved, timer, lock, selected, cancelled, collected,
                    dropped, delivered>>
    BY <1>2 DEF HandleCascade, histVars
  <2>4. AnswersAccountedFor'
    BY <2>2, <2>3 DEF AnswersAccountedFor, Idle
  <2> QED BY <2>1, <2>2, <2>3, <2>4, FrameStep DEF Idle
<1> QED BY <1>1, <1>2

LEMMA AddStep ==
  ASSUME IInv, AddRefused \/ AddBuffered
  PROVE  IInv'
<1>0. TypeOK /\ AnswersAccountedFor
  BY DEF IInv
<1>1. rx.pc = "adding" /\ rx' = Idle
  BY DEF AddRefused, AddBuffered
<1>2. rx.round \in Rounds /\ rx.msg \in Answers
  BY <1>0, <1>1, RxInRound DEF Idle
<1>3. CASE AddRefused
  <2>1. TypeOK'
    BY <1>0, <1>2, <1>3 DEF TypeOK, AddRefused, aggVars
  <2>2. AnswersAccountedFor'
    BY <1>0, <1>1, <1>3, InHandIsNew DEF AddRefused, aggVars, AnswersAccountedFor, Idle
  <2> QED BY <1>1, <1>3, <2>1, <2>2, FrameStep DEF AddRefused, aggVars, Idle
<1>4. CASE AddBuffered
  <2> DEFINE r == rx.round
  <2>1. /\ responses' = [responses EXCEPT ![r] = responses[r] \cup {rx.msg}]
        /\ collected' = [collected EXCEPT ![r] = collected[r] \cup {rx.msg}]
        /\ UNCHANGED <<inbox, resolved, lock, selected, dropped, delivered>>
    BY <1>4 DEF AddBuffered
  <2>2. TypeOK'
    BY <1>0, <1>2, <1>4 DEF TypeOK, AddBuffered
  <2>3. LockHeldToEmit'
    BY <1>1, <2>1 DEF IInv, LockHeldToEmit, Idle
  <2>4. ElectedWasCollected'
    BY <1>0, <1>2, <2>1 DEF IInv, ElectedWasCollected, TypeOK
  <2>5. DeliveredWasElected'
    BY <2>1 DEF IInv, DeliveredWasElected
  <2>6. RoundsDisjoint'
    BY <1>0, <1>1, <1>2, <2>1, InHandIsNew DEF IInv, RoundsDisjoint, TypeOK
  <2>7. AnswersAccountedFor'
    <3>1. rx'.pc # "adding"
      BY <1>1 DEF Idle
    <3> QED BY <1>1, <2>1, <3>1, CollectKeeps
  <2> QED BY <2>2, <2>3, <2>4, <2>5, <2>6, <2>7 DEF IInv
<1> QED BY <1>3, <1>4

\* The answer that completes the expected number: the receive thread resolves.
LEMMA AddResolvingStep ==
  ASSUME IInv, AddResolving
  PROVE  IInv'
<1> DEFINE r == rx.round
           pool == responses[r] \cup {rx.msg}
<1>0. TypeOK /\ LockHeldToEmit /\ ElectedWasCollected
  BY DEF IInv
<1>1. rx.pc = "adding" /\ lock[r] = "free" /\ ~resolved[r]
  BY DEF AddResolving
<1>2. /\ rx \in [pc: {"adding", "emitting"}, round: Rounds, msg: Answers]
      /\ r \in Rounds /\ rx.msg \in Answers
  BY <1>0, <1>1, RxInRound DEF Idle
<1>3. /\ collected' = [collected EXCEPT ![r] = collected[r] \cup {rx.msg}]
      /\ DoResolve(r, pool, "rx")
      /\ rx' = IF selected'[r] = None THEN Idle ELSE [rx EXCEPT !.pc = "emitting"]
      /\ UNCHANGED <<inbox, dropped, delivered>>
  BY DEF AddResolving
<1>4. /\ pool \subseteq collected'[r] /\ pool \subseteq Answers
      /\ collected' \in [Rounds -> SUBSET Answers]
      /\ \A s \in Rounds : collected[s] \subseteq collected'[s]
      /\ \A s \in Rounds : s # r => collected[s] = collected'[s]
  BY <1>0, <1>2, <1>3 DEF TypeOK, ElectedWasCollected
<1>5. /\ ElectedWasCollected'
      /\ selected' \in [Rounds -> Answers \cup {None}]
      /\ lock' \in [Rounds -> {"free", "rx", "timer"}]
      /\ resolved' \in [Rounds -> BOOLEAN]
      /\ responses' \in [Rounds -> SUBSET Answers]
  <2> HIDE DEF pool, r
  <2> QED BY <1>2, <1>3, <1>4, ResolveStep DEF r
<1>6. PICK w \in pool \cup {None} :
        /\ selected' = [selected EXCEPT ![r] = w]
        /\ lock' = [lock EXCEPT ![r] = IF w = None THEN "free" ELSE "rx"]
  BY <1>3 DEF DoResolve
<1>7. TypeOK'
  <2>1. rx' \in {Idle} \cup [pc: {"adding", "emitting"}, round: Rounds, msg: Answers]
    BY <1>2, <1>3
  <2>2. timer' \in [Rounds -> {"off", "waiting", "fired", "done"}]
    BY <1>0, <1>2 DEF AddResolving, StopTimer, TypeOK
  <2> QED BY <1>0, <1>4, <1>5, <2>1, <2>2 DEF TypeOK, AddResolving
<1>8. selected[r] = None
  BY <1>0, <1>1, <1>2 DEF ElectedWasCollected
<1>9. \A i \in DOMAIN delivered : delivered[i].round # r
  \* A delivery of round r would carry its elected answer, and there is none.
  <2> SUFFICES ASSUME NEW i \in DOMAIN delivered, delivered[i].round = r PROVE FALSE
    OBVIOUS
  <2>1. delivered[i].answer \in Answers
    BY <1>0, DeliveryType
  <2>2. delivered[i].answer = None
    BY <1>8 DEF IInv, DeliveredWasElected
  <2> QED BY <2>1, <2>2, CascadeAssumption
<1>10. LockHeldToEmit'
  <2> SUFFICES ASSUME NEW s \in Rounds
       PROVE /\ lock'[s] = "rx" <=> rx'.pc = "emitting" /\ rx'.round = s
             /\ lock'[s] # "free" => /\ selected'[s] # None
                                     /\ \A i \in DOMAIN delivered' : delivered'[i].round # s
    BY DEF LockHeldToEmit
  <2>1. CASE s = r
    <3>1. selected'[s] = w /\ lock'[s] = IF w = None THEN "free" ELSE "rx"
      BY <1>0, <1>2, <1>6, <2>1 DEF TypeOK
    <3>2. w = None => rx'.pc = "idle"
      BY <1>3, <2>1, <3>1 DEF Idle
    <3>3. w # None => rx'.pc = "emitting" /\ rx'.round = s
      BY <1>2, <1>3, <2>1, <3>1
    <3> QED BY <1>3, <1>9, <2>1, <3>1, <3>2, <3>3
  <2>2. CASE s # r
    <3>1. lock'[s] = lock[s] /\ selected'[s] = selected[s] /\ lock[s] # "rx"
      BY <1>0, <1>1, <1>2, <1>6, <2>2 DEF TypeOK, LockHeldToEmit
    <3>2. rx'.pc = "emitting" => rx'.round = r
      BY <1>2, <1>3 DEF Idle
    <3> QED BY <1>0, <1>3, <2>2, <3>1, <3>2 DEF LockHeldToEmit
  <2> QED BY <2>1, <2>2
<1>11. DeliveredWasElected'
  BY <1>0, <1>2, <1>3, <1>6, <1>9 DEF IInv, DeliveredWasElected, TypeOK
<1>12. RoundsDisjoint'
  BY <1>0, <1>1, <1>2, <1>3, InHandIsNew DEF IInv, RoundsDisjoint, TypeOK
<1>13. AnswersAccountedFor'
  <2>1. rx'.pc # "adding"
    BY <1>2, <1>3 DEF Idle
  <2> QED BY <1>1, <1>3, <2>1, CollectKeeps
<1> QED BY <1>5, <1>7, <1>10, <1>11, <1>12, <1>13 DEF IInv

\* A thread that holds a round's lock hands its elected answer to the bus.
LEMMA EmittingStep ==
  ASSUME IInv, RxEmit \/ \E r \in Rounds : TimerEmit(r)
  PROVE  IInv'
<1>0. TypeOK /\ LockHeldToEmit
  BY DEF IInv
<1>1. CASE RxEmit
  <2> DEFINE r == rx.round
  <2>1. r \in Rounds
    BY <1>0, <1>1, RxInRound DEF RxEmit, Idle
  <2>2. /\ lock[r] = "rx" /\ EmitSelected(r) /\ rx' = Idle /\ rx.pc = "emitting"
        /\ UNCHANGED <<hiveMapper, mapperSet, inbox, current, expected, responses,
                       resolved, timer, selected, cancelled, collected, dropped>>
    BY <1>0, <1>1, <2>1 DEF RxEmit, LockHeldToEmit, histVars
  <2> HIDE DEF r
  <2>3. /\ delivered' \in Seq([round: Rounds, answer: Answers])
        /\ lock' \in [Rounds -> {"free", "rx", "timer"}]
        /\ DeliveredWasElected'
        /\ \A s \in Rounds : s # r =>
             (lock'[s] # "free" => /\ selected'[s] # None
                                   /\ \A i \in DOMAIN delivered' : delivered'[i].round # s)
        /\ lock'[r] = "free"
    BY <2>1, <2>2, EmitStep
  <2>4. \A s \in Rounds : lock'[s] # "rx"
    <3> SUFFICES ASSUME NEW s \in Rounds, s # r PROVE lock[s] # "rx" /\ lock'[s] = lock[s]
      BY <2>3
    <3> QED BY <1>0, <2>1, <2>2 DEF LockHeldToEmit, TypeOK, EmitSelected, r
  <2>5. LockHeldToEmit'
    BY <2>1, <2>2, <2>3, <2>4 DEF LockHeldToEmit, Idle
  <2>6. TypeOK'
    BY <1>0, <2>2, <2>3 DEF TypeOK
  <2>7. ElectedWasCollected' /\ RoundsDisjoint'
    BY <2>2 DEF IInv, ElectedWasCollected, RoundsDisjoint
  <2>8. AnswersAccountedFor'
    BY <2>2 DEF IInv, AnswersAccountedFor, Idle
  <2> QED BY <2>3, <2>5, <2>6, <2>7, <2>8 DEF IInv
<1>2. ASSUME NEW r \in Rounds, TimerEmit(r) PROVE IInv'
  <2>1. /\ lock[r] = "timer" /\ EmitSelected(r)
        /\ UNCHANGED <<hiveMapper, mapperSet, inbox, current, expected, responses,
                       resolved, timer, selected, rx, cancelled, collected, dropped>>
    BY <1>2 DEF TimerEmit, histVars
  <2>2. /\ delivered' \in Seq([round: Rounds, answer: Answers])
        /\ lock' \in [Rounds -> {"free", "rx", "timer"}]
        /\ DeliveredWasElected'
        /\ \A s \in Rounds : s # r =>
             (lock'[s] # "free" => /\ selected'[s] # None
                                   /\ \A i \in DOMAIN delivered' : delivered'[i].round # s)
        /\ lock'[r] = "free"
    BY <2>1, EmitStep
  <2>3. LockHeldToEmit'
    <3> SUFFICES ASSUME NEW s \in Rounds
                 PROVE lock'[s] = "rx" <=> rx'.pc = "emitting" /\ rx'.round = s
      BY <2>2 DEF LockHeldToEmit
    <3>1. CASE s = r
      BY <1>0, <2>1, <2>2, <3>1 DEF LockHeldToEmit
    <3>2. CASE s # r
      BY <1>0, <2>1, <3>2 DEF LockHeldToEmit, EmitSelected, TypeOK
    <3> QED BY <3>1, <3>2
  <2>4. TypeOK'
    BY <1>0, <2>1, <2>2 DEF TypeOK
  <2>5. ElectedWasCollected' /\ RoundsDisjoint' /\ AnswersAccountedFor'
    BY <2>1 DEF IInv, ElectedWasCollected, RoundsDisjoint, AnswersAccountedFor
  <2> QED BY <2>2, <2>3, <2>4, <2>5 DEF IInv
<1> QED BY <1>1, <1>2

\* The timer thread expiring, coming too late, or resolving; and cancel().
LEMMA TimerResolvesStep ==
  ASSUME IInv, NEW r \in Rounds, TimerResolves(r)
  PROVE  IInv'
<1>0. TypeOK /\ LockHeldToEmit /\ ElectedWasCollected
  BY DEF IInv
<1>1. /\ lock[r] = "free" /\ ~resolved[r]
      /\ DoResolve(r, responses[r], "timer")
      /\ UNCHANGED <<inbox, current, expected, rx, cancelled, collected, dropped, delivered>>
  BY DEF TimerResolves, histVars
<1>2. /\ responses[r] \subseteq collected'[r] /\ responses[r] \subseteq Answers
      /\ collected' \in [Rounds -> SUBSET Answers]
      /\ \A s \in Rounds : collected[s] \subseteq collected'[s]
      /\ \A s \in Rounds : s # r => collected[s] = collected'[s]
  BY <1>0, <1>1 DEF TypeOK, ElectedWasCollected
<1>3. /\ ElectedWasCollected'
      /\ selected' \in [Rounds -> Answers \cup {None}]
      /\ lock' \in [Rounds -> {"free", "rx", "timer"}]
      /\ resolved' \in [Rounds -> BOOLEAN]
      /\ responses' \in [Rounds -> SUBSET Answers]
  BY <1>1, <1>2, ResolveStep
<1>4. TypeOK'
  BY <1>0, <1>1, <1>3 DEF TypeOK, TimerResolves
<1>5. PICK w \in responses[r] \cup {None} :
        /\ selected' = [selected EXCEPT ![r] = w]
        /\ lock' = [lock EXCEPT ![r] = IF w = None THEN "free" ELSE "timer"]
  BY <1>1 DEF DoResolve
<1>6. \A i \in DOMAIN delivered : delivered[i].round # r
  <2> SUFFICES ASSUME NEW i \in DOMAIN delivered, delivered[i].round = r PROVE FALSE
    OBVIOUS
  <2>1. delivered[i].answer \in Answers
    BY <1>0, DeliveryType
  <2>2. delivered[i].answer = None
    BY <1>0, <1>1 DEF IInv, DeliveredWasElected, ElectedWasCollected
  <2> QED BY <2>1, <2>2, CascadeAssumption
<1>7. LockHeldToEmit'
  <2> SUFFICES ASSUME NEW s \in Rounds
       PROVE /\ lock'[s] = "rx" <=> rx'.pc = "emitting" /\ rx'.round = s
             /\ lock'[s] # "free" => /\ selected'[s] # None
                                     /\ \A i \in DOMAIN delivered' : delivered'[i].round # s
    BY DEF LockHeldToEmit
  <2>1. CASE s = r
    BY <1>0, <1>1, <1>5, <1>6, <2>1 DEF TypeOK, LockHeldToEmit
  <2>2. CASE s # r
    BY <1>0, <1>1, <1>5, <2>2 DEF TypeOK, LockHeldToEmit
  <2> QED BY <2>1, <2>2
<1>8. DeliveredWasElected'
  BY <1>0, <1>1, <1>5, <1>6 DEF IInv, DeliveredWasElected, TypeOK
<1>9. RoundsDisjoint' /\ AnswersAccountedFor'
  BY <1>1 DEF IInv, RoundsDisjoint, AnswersAccountedFor
<1> QED BY <1>3, <1>4, <1>7, <1>8, <1>9 DEF IInv

LEMMA QuietStep ==
  ASSUME IInv, NEW r \in Rounds, TimerExpires(r) \/ TimerTooLate(r) \/ Cancel(r)
  PROVE  IInv'
<1>0. TypeOK
  BY DEF IInv
<1>1. TypeOK'
  BY <1>0 DEF TypeOK, TimerExpires, TimerTooLate, Cancel, StopTimer, histVars
<1>2. /\ UNCHANGED <<inbox, lock, selected, rx, collected, dropped, delivered>>
      /\ \A s \in Rounds : responses'[s] \subseteq responses[s]
      /\ \A s \in Rounds : resolved[s] => resolved'[s]
      /\ \A s \in Rounds : responses'[s] = responses[s] \/ resolved'[s]
  BY <1>0 DEF TypeOK, TimerExpires, TimerTooLate, Cancel, histVars
<1>3. AnswersAccountedFor'
  BY <1>2 DEF IInv, AnswersAccountedFor
<1> QED BY <1>1, <1>2, <1>3, FrameStep

LEMMA MapperStep ==
  ASSUME IInv, HandlePing \/ \E k \in KnownNodes : SetMapper(k)
  PROVE  IInv'
<1>0. TypeOK
  BY DEF IInv
<1>1. UNCHANGED <<inbox, current, expected, responses, resolved, timer, lock, selected, rx,
                  cancelled, collected, dropped, delivered>>
  BY DEF HandlePing, SetMapper, aggVars, histVars
<1>2. TypeOK'
  BY <1>0, <1>1 DEF TypeOK, HandlePing, SetMapper
<1>3. AnswersAccountedFor'
  BY <1>1 DEF IInv, AnswersAccountedFor
<1> QED BY <1>1, <1>2, <1>3, FrameStep

LEMMA NextIInv == IInv /\ [Next]_vars => IInv'
<1> SUFFICES ASSUME IInv, [Next]_vars PROVE IInv'
  OBVIOUS
<1>1. CASE UNCHANGED vars
  BY <1>1 DEF vars, aggVars, histVars, IInv, TypeOK, LockHeldToEmit, ElectedWasCollected,
              DeliveredWasElected, RoundsDisjoint, AnswersAccountedFor
<1> QED
  BY <1>1, TakeStep, AddStep, AddResolvingStep, EmittingStep, TimerResolvesStep, QuietStep,
     MapperStep
  DEF Next, RxStep, TimerStep

\* The invariant of CASCADE aggregation: every lock, election and delivery is
\* consistent, whichever of the receive thread, the timers and cancel() acts.
THEOREM Invariance == Spec => []IInv
BY InitIInv, NextIInv, PTL DEF Spec

\* Every field of the aggregators and of the receive thread keeps its type.
THEOREM TypeCorrect == Spec => []TypeOK
<1>1. IInv => TypeOK
  BY DEF IInv
<1> QED BY Invariance, <1>1, PTL

\* No round delivers twice and no answer is delivered twice.
THEOREM DeliversOnce == Spec => []OneDeliveryPerRound
<1>1. IInv => OneDeliveryPerRound
  <2> SUFFICES ASSUME IInv, NEW i \in DOMAIN delivered, NEW j \in DOMAIN delivered, i # j
               PROVE /\ delivered[i].round # delivered[j].round
                     /\ delivered[i].answer # delivered[j].answer
    BY DEF OneDeliveryPerRound
  <2>1. delivered[i].round # delivered[j].round
    BY DEF IInv, DeliveredWasElected
  <2>2. /\ delivered[i] \in [round: Rounds, answer: Answers]
        /\ delivered[j] \in [round: Rounds, answer: Answers]
    BY DeliveryType DEF IInv
  <2>3. /\ delivered[i].answer \in collected[delivered[i].round]
        /\ delivered[j].answer \in collected[delivered[j].round]
    BY <2>2, CascadeAssumption DEF IInv, DeliveredWasElected, ElectedWasCollected
  <2> QED BY <2>1, <2>2, <2>3 DEF IInv, RoundsDisjoint
<1> QED BY Invariance, <1>1, PTL

\* No answer the receive thread took up is lost or counted twice, and an open
\* round still holds all it took in.
THEOREM NoAnswerLost == Spec => []NothingLost
<1>1. IInv => NothingLost
  BY DEF IInv, ElectedWasCollected, NothingLost
<1> QED BY Invariance, <1>1, PTL

-----------------------------------------------------------------------------
(* The windows of the rounds: how full an open one is, what ends it, and what *)
(* cancel() rules out.                                                        *)

\* Steps that put no answer into a round: a buffer is kept or is emptied with
\* its round resolved, and a timer changes only while it runs or for good.
LEMMA WindowFrame ==
  ASSUME TypeOK, WindowInv, TypeOK',
         \A r \in Rounds : responses'[r] = responses[r] \/ (responses'[r] = {} /\ resolved'[r]),
         \A r \in Rounds : resolved[r] => resolved'[r],
         \A r \in Rounds : \/ timer'[r] = timer[r] \/ resolved'[r]
                           \/ timer[r] = "waiting" /\ timer'[r] = "fired",
         \A r \in Rounds : r <= current => expected'[r] = expected[r],
         current <= current',
         rx'.pc = "adding" => rx'.round <= current',
         CancelledIsClosed'
  PROVE  WindowInv'
<1>0. current \in Nat /\ current' \in Nat /\ Rounds \subseteq Nat
  BY CascadeAssumption DEF TypeOK, Rounds
<1>1. WindowsExist'
  <2>1. ASSUME NEW r \in Rounds, r > current' PROVE responses'[r] = {}
    BY <1>0, <2>1 DEF WindowInv, WindowsExist
  <2>2. ASSUME NEW r \in Rounds PROVE IsFiniteSet(responses'[r])
    BY FS_EmptySet DEF WindowInv, WindowsExist
  <2> QED BY <2>1, <2>2 DEF WindowsExist
<1>2. DoneIsResolved'
  BY DEF WindowInv, DoneIsResolved
<1>3. OpenRoundHasTimer'
  BY DEF WindowInv, OpenRoundHasTimer
<1>4. ExpectedResolvesEarly'
  <2> SUFFICES ASSUME NEW r \in Rounds,
                      ~resolved'[r], responses'[r] # {}, expected'[r] # None
               PROVE Cardinality(responses'[r]) < expected'[r]
    BY DEF ExpectedResolvesEarly
  <2>1. responses'[r] = responses[r] /\ ~resolved[r]
    OBVIOUS
  <2>2. r <= current
    BY <1>0, <2>1 DEF WindowInv, WindowsExist
  <2>3. expected'[r] = expected[r]
    BY <2>2
  <2> QED BY <2>1, <2>3 DEF WindowInv, ExpectedResolvesEarly
<1> QED BY <1>1, <1>2, <1>3, <1>4 DEF WindowInv

\* The answer that does not complete the expected number: the window it enters
\* is still short of that number, and its timer runs.
LEMMA WindowAddBuffered ==
  ASSUME IInv, WindowInv, TypeOK', AddBuffered
  PROVE  WindowInv'
<1>0. TypeOK /\ rx.pc = "adding" /\ rx' = Idle
  BY DEF IInv, AddBuffered
<1>1. PICK r \in Rounds, m \in Answers : r = rx.round /\ m = rx.msg
  BY <1>0, RxInRound DEF Idle
<1>2. PICK pool : pool = responses[r] \cup {m}
  OBVIOUS
<1>3. /\ responses' = [responses EXCEPT ![r] = pool]
      /\ timer' = [timer EXCEPT ![r] = StartTimer(timer[r])]
      /\ ~resolved[r]
      /\ expected[r] # None => ~(Cardinality(pool) >= expected[r])
      /\ UNCHANGED <<current, expected, resolved, lock, cancelled>>
  BY <1>1, <1>2 DEF AddBuffered, EnoughResponses
<1>4. r <= current /\ IsFiniteSet(responses[r])
  BY <1>0, <1>1 DEF WindowInv, WindowsExist
<1>5. IsFiniteSet(pool) /\ Cardinality(pool) \in Nat
  BY <1>2, <1>4, FS_AddElement, FS_CardinalityType
<1>6. current \in Nat /\ Rounds \subseteq Nat
  BY <1>0, CascadeAssumption DEF TypeOK, Rounds
<1>7. /\ responses'[r] = pool /\ timer'[r] = StartTimer(timer[r])
      /\ \A s \in Rounds : s # r => responses'[s] = responses[s] /\ timer'[s] = timer[s]
  BY <1>0, <1>3 DEF TypeOK
<1>8. WindowsExist'
  BY <1>0, <1>3, <1>4, <1>5, <1>6, <1>7 DEF WindowInv, WindowsExist, Idle
<1>9. timer[r] # "done" /\ timer'[r] \in {"waiting", "fired"}
  <2>1. timer[r] # "done"
    BY <1>3 DEF WindowInv, DoneIsResolved
  <2> QED BY <1>0, <1>7, <2>1 DEF TypeOK
<1>10. DoneIsResolved' /\ OpenRoundHasTimer'
  BY <1>3, <1>7, <1>9 DEF WindowInv, DoneIsResolved, OpenRoundHasTimer
<1>11. ExpectedResolvesEarly'
  <2>1. expected[r] # None => expected[r] \in Nat
    <3>1. expected[r] \in KnownNodes \cup {0, None}
      BY <1>0 DEF TypeOK
    <3>2. KnownNodes \cup {0} \subseteq Nat
      BY CascadeAssumption
    <3> QED BY <3>1, <3>2
  <2>2. expected[r] # None => Cardinality(pool) < expected[r]
    BY <1>3, <1>5, <2>1
  <2> QED BY <1>3, <1>7, <2>2 DEF WindowInv, ExpectedResolvesEarly
<1>12. CancelledIsClosed'
  BY <1>3 DEF WindowInv, CancelledIsClosed
<1> QED BY <1>8, <1>10, <1>11, <1>12 DEF WindowInv

\* Whoever resolves a round finds it open, so cancel() has not closed it.
LEMMA WindowResolve ==
  ASSUME IInv, WindowInv, TypeOK', NEW r \in Rounds, NEW pool, NEW holder,
         DoResolve(r, pool, holder), ~resolved[r],
         \A s \in Rounds : s # r => timer'[s] = timer[s],
         rx'.pc # "adding" \/ rx' = rx,
         UNCHANGED <<current, expected, cancelled>>
  PROVE  WindowInv'
<1>0. TypeOK
  BY DEF IInv
<1>1. PICK w \in pool \cup {None} : lock' = [lock EXCEPT ![r] = LockToEmit(w, holder)]
  BY DEF DoResolve
<1>2. /\ responses' = [responses EXCEPT ![r] = {}]
      /\ resolved' = [resolved EXCEPT ![r] = TRUE]
  BY DEF DoResolve
<1>3. CancelledIsClosed'
  <2> SUFFICES ASSUME NEW s \in cancelled PROVE resolved'[s] /\ lock'[s] = "free"
    BY DEF CancelledIsClosed
  <2>1. s \in Rounds /\ s # r /\ resolved[s] /\ lock[s] = "free"
    BY <1>0 DEF WindowInv, CancelledIsClosed, TypeOK
  <2> HIDE DEF LockToEmit
  <2> QED BY <1>0, <1>1, <1>2, <2>1 DEF TypeOK
<1>4. /\ \A s \in Rounds : responses'[s] = responses[s] \/ (responses'[s] = {} /\ resolved'[s])
      /\ \A s \in Rounds : resolved[s] => resolved'[s]
      /\ \A s \in Rounds : timer'[s] = timer[s] \/ resolved'[s]
  BY <1>0, <1>2 DEF TypeOK
<1>5. current \in Nat
  BY <1>0, CascadeAssumption DEF TypeOK
<1>6. rx'.pc = "adding" => rx'.round <= current'
  BY DEF WindowInv, WindowsExist
<1> QED BY <1>0, <1>3, <1>4, <1>5, <1>6, WindowFrame

LEMMA NextWindow == IInv /\ TypeOK' /\ WindowInv /\ [Next]_vars => WindowInv'
<1> SUFFICES ASSUME IInv, TypeOK', WindowInv, [Next]_vars PROVE WindowInv'
  OBVIOUS
<1>0. TypeOK /\ LockHeldToEmit /\ CancelledIsClosed
  BY DEF IInv, WindowInv
<1>a. current \in Nat /\ Rounds \subseteq Nat /\ (rx.pc = "adding" => rx.round <= current)
  BY <1>0, CascadeAssumption DEF TypeOK, Rounds, WindowInv, WindowsExist
<1>1. ASSUME UNCHANGED <<current, expected, responses, resolved, timer, cancelled>>,
             rx'.pc # "adding" \/ rx' = rx,
             \A r \in cancelled : lock'[r] = "free"
      PROVE WindowInv'
  <2>1. CancelledIsClosed'
    BY <1>0, <1>1 DEF CancelledIsClosed
  <2> QED BY <1>0, <1>a, <1>1, <2>1, WindowFrame
<1>2. ASSUME NEW m \in inbox, DiscardControl(m) PROVE WindowInv'
  BY <1>0, <1>1, <1>2 DEF DiscardControl, aggVars, histVars, CancelledIsClosed
<1>3. ASSUME NEW m \in inbox, HandleCascade(m) PROVE WindowInv'
  <2>1. UNCHANGED <<responses, resolved, timer, lock, cancelled>>
    BY <1>3 DEF HandleCascade, histVars
  <2>2. CASE ReuseAggregator(m)
    BY <1>0, <1>a, <2>1, <2>2, WindowFrame DEF ReuseAggregator, CancelledIsClosed
  <2>3. CASE NewAggregator(m)
    <3>1. current' = current + 1 /\ rx'.round = current'
          /\ expected' = [expected EXCEPT ![current + 1] = hiveMapper]
      BY <2>3 DEF NewAggregator
    <3>2. \A r \in Rounds : r <= current => expected'[r] = expected[r]
      BY <1>0, <1>a, <3>1 DEF TypeOK
    <3>3. current <= current' /\ rx'.round <= current'
      BY <1>a, <3>1
    <3> QED BY <1>0, <2>1, <3>2, <3>3, WindowFrame DEF CancelledIsClosed
  <2> QED BY <1>3, <2>2, <2>3 DEF HandleCascade
<1>4. CASE HandlePing \/ \E k \in KnownNodes : SetMapper(k)
  BY <1>0, <1>1, <1>4 DEF HandlePing, SetMapper, aggVars, histVars, CancelledIsClosed
<1>5. CASE AddRefused
  BY <1>0, <1>1, <1>5 DEF AddRefused, aggVars, CancelledIsClosed, Idle
<1>6. CASE AddBuffered
  BY <1>6, WindowAddBuffered
<1>7. CASE AddResolving
  <2>1. PICK r \in Rounds, m \in Answers : r = rx.round /\ m = rx.msg
    BY <1>0, <1>7, RxInRound DEF AddResolving, Idle
  <2>2. PICK pool : pool = responses[r] \cup {m}
    OBVIOUS
  <2>3. DoResolve(r, pool, "rx")
    BY <1>7, <2>1, <2>2 DEF AddResolving, DoResolve
  <2>4. /\ ~resolved[r]
        /\ timer' = [timer EXCEPT ![r] = StopTimer(StartTimer(timer[r]))]
        /\ rx' = IF selected'[r] = None THEN Idle ELSE [rx EXCEPT !.pc = "emitting"]
        /\ UNCHANGED <<current, expected, cancelled>>
    BY <1>7, <2>1 DEF AddResolving
  <2>5. rx'.pc # "adding"
    <3>1. rx \in [pc: {"adding", "emitting"}, round: Rounds, msg: Answers]
      BY <1>0, <1>7, RxInRound DEF AddResolving, Idle
    <3> QED BY <2>4, <3>1 DEF Idle
  <2>6. \A s \in Rounds : s # r => timer'[s] = timer[s]
    BY <1>0, <2>4 DEF TypeOK
  <2> QED BY <2>3, <2>4, <2>5, <2>6, WindowResolve
<1>8. CASE RxEmit
  <2>1. PICK r \in Rounds : r = rx.round
    BY <1>0, <1>8, RxInRound DEF RxEmit, Idle
  <2>2. lock' = [lock EXCEPT ![r] = "free"] /\ rx' = Idle
        /\ UNCHANGED <<current, expected, responses, resolved, timer, cancelled>>
    BY <1>8, <2>1 DEF RxEmit, EmitSelected, histVars
  <2>3. \A s \in cancelled : lock'[s] = "free"
    BY <1>0, <2>2 DEF CancelledIsClosed, TypeOK
  <2> QED BY <1>1, <2>2, <2>3 DEF Idle
<1>9. ASSUME NEW r \in Rounds, TimerEmit(r) PROVE WindowInv'
  <2>1. lock' = [lock EXCEPT ![r] = "free"]
        /\ UNCHANGED <<current, expected, responses, resolved, timer, rx, cancelled>>
    BY <1>9 DEF TimerEmit, EmitSelected, histVars
  <2>2. \A s \in cancelled : lock'[s] = "free"
    BY <1>0, <2>1 DEF CancelledIsClosed, TypeOK
  <2> QED BY <1>1, <2>1, <2>2
<1>10. ASSUME NEW r \in Rounds, TimerExpires(r) \/ TimerTooLate(r) PROVE WindowInv'
  <2>1. /\ UNCHANGED <<current, expected, responses, resolved, lock, rx, cancelled>>
        /\ \A s \in Rounds : \/ timer'[s] = timer[s] \/ resolved'[s]
                             \/ timer[s] = "waiting" /\ timer'[s] = "fired"
    BY <1>0, <1>10 DEF TimerExpires, TimerTooLate, histVars, TypeOK
  <2> QED BY <1>0, <1>a, <2>1, WindowFrame DEF CancelledIsClosed
<1>11. ASSUME NEW r \in Rounds, TimerResolves(r) PROVE WindowInv'
  <2>1. PICK pool : pool = responses[r]
    OBVIOUS
  <2>2. /\ ~resolved[r] /\ DoResolve(r, pool, "timer")
        /\ timer' = [timer EXCEPT ![r] = "done"]
        /\ UNCHANGED <<current, expected, rx, cancelled>>
    BY <1>11, <2>1 DEF TimerResolves, histVars, DoResolve
  <2>3. \A s \in Rounds : s # r => timer'[s] = timer[s]
    BY <1>0, <2>2 DEF TypeOK
  <2> QED BY <2>2, <2>3, WindowResolve
<1>12. ASSUME NEW r \in Rounds, Cancel(r) PROVE WindowInv'
  <2>1. /\ lock[r] = "free" /\ cancelled' = cancelled \cup {r}
        /\ resolved' = [resolved EXCEPT ![r] = TRUE]
        /\ responses' = [responses EXCEPT ![r] = {}]
        /\ timer' = [timer EXCEPT ![r] = StopTimer(timer[r])]
        /\ UNCHANGED <<current, expected, lock, rx>>
    BY <1>12 DEF Cancel
  <2>2. CancelledIsClosed'
    BY <1>0, <2>1 DEF CancelledIsClosed, TypeOK
  <2>3. \A s \in Rounds : responses'[s] = responses[s] \/ (responses'[s] = {} /\ resolved'[s])
    BY <1>0, <2>1 DEF TypeOK
  <2>4. \A s \in Rounds : /\ resolved[s] => resolved'[s]
                          /\ timer'[s] = timer[s] \/ resolved'[s]
    BY <1>0, <2>1 DEF TypeOK
  <2> QED BY <1>0, <1>a, <2>1, <2>2, <2>3, <2>4, WindowFrame
<1>13. CASE UNCHANGED vars
  BY <1>0, <1>1, <1>13 DEF vars, aggVars, histVars, CancelledIsClosed
<1> QED
  BY <1>2, <1>3, <1>4, <1>5, <1>6, <1>7, <1>8, <1>9, <1>10, <1>11, <1>12, <1>13
  DEF Next, RxStep, TimerStep

\* Every open window has its timer, is short of the expected number, and no
\* thread holds a round that cancel() has closed.
THEOREM WindowInvariance == Spec => []WindowInv
<1>1. Init => WindowInv
  <2> SUFFICES ASSUME Init PROVE WindowInv
    OBVIOUS
  <2>1. \A r \in Rounds : responses[r] = {} /\ timer[r] = "off"
    BY DEF Init
  <2>2. rx.pc # "adding" /\ cancelled = {}
    BY DEF Init, Idle
  <2> QED BY <2>1, <2>2, FS_EmptySet
          DEF WindowInv, WindowsExist, DoneIsResolved, CancelledIsClosed,
              OpenRoundHasTimer, ExpectedResolvesEarly
<1> QED BY <1>1, NextWindow, TypeCorrect, Invariance, PTL DEF Spec

\* An open round never sits on as many answers as it was told to expect.
THEOREM ResolvesWhenExpected == Spec => []ExpectedResolvesEarly
<1>1. WindowInv => ExpectedResolvesEarly
  BY DEF WindowInv
<1> QED BY WindowInvariance, <1>1, PTL

\* A step that hands an answer to the bus holds the lock of its round, and no
\* thread holds the lock of a cancelled one.
LEMMA CancelledStaysSilent ==
  ASSUME IInv, WindowInv, [Next]_vars, NEW r \in cancelled, delivered' # delivered
  PROVE  delivered'[Len(delivered')].round # r
<1>0. TypeOK /\ LockHeldToEmit /\ CancelledIsClosed
  BY DEF IInv, WindowInv
<1>1. ASSUME NEW s \in Rounds, EmitSelected(s), lock[s] # "free"
      PROVE delivered'[Len(delivered')].round # r
  <2>1. s # r
    BY <1>0, <1>1 DEF CancelledIsClosed
  <2> DEFINE d == [round |-> s, answer |-> selected[s]]
             D == [round: Rounds, answer: Answers]
  <2>2. d \in D /\ d.round = s
    BY <1>0, <1>1 DEF TypeOK, LockHeldToEmit
  <2>3. delivered \in Seq(D) /\ delivered' = Append(delivered, d)
    BY <1>0, <1>1 DEF TypeOK, EmitSelected
  <2> HIDE DEF d, D
  <2>4. delivered'[Len(delivered')] = d
    BY <2>2, <2>3
  <2> QED BY <2>1, <2>2, <2>4
<1>2. CASE RxEmit
  <2>1. PICK s \in Rounds : s = rx.round
    BY <1>0, <1>2, RxInRound DEF RxEmit, Idle
  <2>2. EmitSelected(s) /\ lock[s] # "free"
    BY <1>0, <1>2, <2>1 DEF RxEmit, EmitSelected, LockHeldToEmit
  <2> QED BY <1>1, <2>2
<1>3. ASSUME NEW s \in Rounds, TimerEmit(s) PROVE delivered'[Len(delivered')].round # r
  BY <1>1, <1>3 DEF TimerEmit
<1>4. \/ RxEmit \/ \E s \in Rounds : TimerEmit(s)
  BY DEF Next, RxStep, TimerStep, DiscardControl, HandleCascade, HandlePing, SetMapper,
         AddRefused, AddBuffered, AddResolving, TimerExpires, TimerTooLate, TimerResolves,
         Cancel, vars
<1> QED BY <1>2, <1>3, <1>4

\* cancel() is silent: after it returned, no answer of its round reaches the
\* bus, also when the timer had expired and was waiting for the lock.
THEOREM CancelSilences == Spec => CancelIsSilent
<1>1. IInv /\ WindowInv /\ [Next]_vars =>
        [ \A r \in cancelled :
            delivered' # delivered => delivered'[Len(delivered')].round # r ]_vars
  BY CancelledStaysSilent
<1> QED BY <1>1, Invariance, WindowInvariance, PTL DEF Spec, CancelIsSilent

-----------------------------------------------------------------------------
(* The aggregator implements its contract: a round is open until _resolved. *)

\* Resolving takes the round out of the open ones, electing from `pool'.
LEMMA ResolveCloses ==
  ASSUME TypeOK, NEW r \in Rounds, NEW pool, NEW holder, DoResolve(r, pool, holder)
  PROVE  /\ {s \in Rounds : ~resolved'[s]} = {s \in Rounds : ~resolved[s]} \ {r}
         /\ \E w \in pool \cup {None} : selected' = [selected EXCEPT ![r] = w]
BY DEF DoResolve, TypeOK

LEMMA ContractStep ==
  ASSUME IInv, [Next]_vars
  PROVE  [Contract!ContractNext]_Contract!contractVars
<1> DEFINE Step == [Contract!ContractNext]_Contract!contractVars
           Stutter == UNCHANGED <<collected, resolved, selected, delivered>>
<1>0. TypeOK /\ LockHeldToEmit /\ ElectedWasCollected
  BY DEF IInv
<1>1. Stutter => Step
  BY DEF Contract!contractVars
<1>2. ASSUME NEW m \in inbox, DiscardControl(m) \/ HandleCascade(m) PROVE Step
  BY <1>1, <1>2 DEF DiscardControl, HandleCascade, aggVars, histVars
<1>14. ASSUME HandlePing \/ \E k \in KnownNodes : SetMapper(k) PROVE Step
  BY <1>1, <1>14 DEF HandlePing, SetMapper, aggVars, histVars
<1>3. CASE AddRefused
  BY <1>1, <1>3 DEF AddRefused, aggVars
<1>4. ASSUME rx.pc = "adding"
      PROVE rx.round \in Rounds /\ rx.msg \in Answers
            /\ \A s \in Rounds : rx.msg \notin collected[s]
  BY <1>0, <1>4, RxInRound, InHandIsNew DEF Idle
<1>5. CASE AddBuffered
  <2>1. Contract!CollectMore(rx.round, rx.msg)
    BY <1>4, <1>5 DEF AddBuffered, Contract!CollectMore, Contract!Collect
  <2> QED BY <1>4, <1>5, <2>1 DEF AddBuffered, Contract!ContractNext
<1>6. CASE AddResolving
  <2>1. PICK r \in Rounds, m \in Answers : r = rx.round /\ m = rx.msg
    BY <1>4, <1>6 DEF AddResolving
  <2>2. /\ \A s \in Rounds : m \notin collected[s]
        /\ ~resolved[r]
        /\ collected' = [collected EXCEPT ![r] = collected[r] \cup {m}]
        /\ UNCHANGED delivered
    BY <1>4, <1>6, <2>1 DEF AddResolving
  <2>3. PICK pool : pool = responses[r] \cup {m}
    OBVIOUS
  <2>4. DoResolve(r, pool, "rx")
    BY <1>6, <2>1, <2>3 DEF AddResolving, DoResolve
  <2>5. pool \subseteq collected'[r]
    BY <1>0, <2>2, <2>3 DEF TypeOK, ElectedWasCollected
  <2>6. Contract!CollectLast(r, m)
    BY <1>0, <2>2, <2>4, <2>5, ResolveCloses
    DEF Contract!CollectLast, Contract!Collect, Contract!Close
  <2> QED BY <2>6 DEF Contract!ContractNext
<1>7. ASSUME NEW r \in Rounds, TimerResolves(r) PROVE Step
  <2>1. PICK pool : pool = responses[r]
    OBVIOUS
  <2>2. /\ ~resolved[r] /\ DoResolve(r, pool, "timer")
        /\ UNCHANGED <<collected, delivered>>
    BY <1>7, <2>1 DEF TimerResolves, histVars, DoResolve
  <2>3. pool \subseteq collected[r]
    BY <1>0, <2>1 DEF ElectedWasCollected
  <2>4. Contract!CloseRound(r)
    BY <1>0, <2>2, <2>3, ResolveCloses DEF Contract!CloseRound, Contract!Close
  <2> QED BY <2>4 DEF Contract!ContractNext
<1>8. ASSUME NEW r \in Rounds, lock[r] # "free", EmitSelected(r),
             UNCHANGED <<collected, resolved, selected>>
      PROVE Step
  <2>1. selected[r] # None /\ \A i \in DOMAIN delivered : delivered[i].round # r
    BY <1>0, <1>8 DEF LockHeldToEmit
  <2>2. Contract!Deliver(r)
    BY <1>8, <2>1 DEF EmitSelected, Contract!Deliver
  <2> QED BY <2>2 DEF Contract!ContractNext
<1>9. CASE RxEmit
  <2>1. PICK r \in Rounds : r = rx.round
    BY <1>0, <1>9, RxInRound DEF RxEmit, Idle
  <2>2. lock[r] # "free"
    BY <1>0, <1>9, <2>1 DEF LockHeldToEmit, RxEmit
  <2>3. EmitSelected(r) /\ UNCHANGED <<collected, resolved, selected>>
    BY <1>9, <2>1 DEF RxEmit, histVars, EmitSelected
  <2> QED BY <1>8, <2>2, <2>3
<1>10. ASSUME NEW r \in Rounds, TimerEmit(r) PROVE Step
  BY <1>8, <1>10 DEF TimerEmit, histVars
<1>11. ASSUME NEW r \in Rounds, TimerExpires(r) \/ TimerTooLate(r) PROVE Step
  BY <1>1, <1>11 DEF TimerExpires, TimerTooLate, histVars
<1>12. ASSUME NEW r \in Rounds, Cancel(r) PROVE Step
  <2>1. /\ resolved' = [resolved EXCEPT ![r] = TRUE]
        /\ UNCHANGED <<collected, selected, delivered>>
    BY <1>12 DEF Cancel
  <2>2. CASE resolved[r]
    <3>1. resolved' = resolved
      BY <1>0, <2>1, <2>2 DEF TypeOK
    <3> QED BY <1>1, <2>1, <3>1
  <2>3. CASE ~resolved[r]
    <3>1. {s \in Rounds : ~resolved'[s]} = {s \in Rounds : ~resolved[s]} \ {r}
      BY <1>0, <2>1 DEF TypeOK
    <3>2. selected' = [selected EXCEPT ![r] = None]
      BY <1>0, <2>1, <2>3 DEF TypeOK, ElectedWasCollected
    <3>3. Contract!CloseRound(r)
      BY <2>1, <2>3, <3>1, <3>2 DEF Contract!CloseRound, Contract!Close
    <3> QED BY <3>3 DEF Contract!ContractNext
  <2> QED BY <2>2, <2>3
<1>13. CASE UNCHANGED vars
  BY <1>1, <1>13 DEF vars, aggVars, histVars
<1> QED
  BY <1>2, <1>3, <1>5, <1>6, <1>7, <1>9, <1>10, <1>11, <1>12, <1>13, <1>14
  DEF Next, RxStep, TimerStep

\* CascadeAggregator implements CascadeContract: rounds collect, close once and
\* deliver what they elected once, whatever the threads and cancel() do.
THEOREM Refinement == Spec => ContractHolds
<1>1. Init => Contract!ContractInit
  BY DEF Init, Contract!ContractInit
<1> QED
  BY <1>1, ContractStep, Invariance, PTL DEF Spec, ContractHolds, Contract!ContractSpec
=============================================================================
