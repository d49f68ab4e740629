------------------------- MODULE CascadeAggregator -------------------------
(***************************************************************************)
(* CASCADE response aggregation: class CascadeAggregator and               *)
(* HiveMindSlaveProtocol.handle_cascade (protocol.py).                     *)
(*                                                                         *)
(* Three kinds of threads meet here: the receive thread, which runs        *)
(* handle_cascade for every CASCADE frame; one threading.Timer thread per  *)
(* aggregator, which runs _resolve; and an application thread that may     *)
(* call cancel().  The aggregator's fields are written under its _lock,    *)
(* but handle_cascade reads _resolved without it, and the winner is handed *)
(* to the bus while the lock is held.                                      *)
(*                                                                         *)
(* A round r is the r-th aggregator object that handle_cascade creates.    *)
(***************************************************************************)
EXTENDS Naturals, Sequences, FiniteSets

CONSTANTS Answers,    \* CASCADE responses that wrap a BUS message
          Controls,   \* end-of-stream markers and payloads of a wrong type
          KnownNodes, \* sizes a mapper set by the application may have
          MaxRounds,  \* bound: aggregator objects created in a behaviour
          None        \* Python's None

ASSUME CascadeAssumption ==
  /\ None \notin Answers \cup KnownNodes \cup {0}
  /\ KnownNodes \subseteq Nat
  /\ MaxRounds \in Nat
  /\ Answers \cap Controls = {}

Rounds == 1 .. MaxRounds

VARIABLES
  inbox,      \* CASCADE frames the receive thread has yet to handle
  current,    \* protocol.cascade_aggregator; 0 is None
  hiveMapper, \* len(protocol.hive_mapper.nodes); None: there is no mapper
  mapperSet,  \* history: the application has set hive_mapper
  expected,   \* aggregator.expected_responses
  responses,  \* aggregator.responses
  resolved,   \* aggregator._resolved
  timer,      \* the aggregator's Timer thread
  lock,       \* holder of aggregator._lock across the emit callback
  selected,   \* what select_callback returned
  rx,         \* what the receive thread is doing
  cancelled,  \* history: rounds on which cancel() has returned
  collected,  \* history: answers each round ever buffered
  dropped,    \* history: answers add_response refused
  delivered   \* history: messages handed to handle_bus, in order

mapperVars == <<hiveMapper, mapperSet>>
aggVars == <<expected, responses, resolved, timer, lock, selected>>
histVars == <<cancelled, collected, dropped>>
vars == <<mapperVars, inbox, current, aggVars, rx, histVars, delivered>>

\* handle_cascade has returned, or is about to call add_response(msg) on
\* aggregator `round', or is inside emit_callback there.
Idle == [pc |-> "idle", round |-> 0, msg |-> None]

Init ==
  /\ inbox = Answers \cup Controls
  /\ current = 0
  /\ hiveMapper = None /\ mapperSet = FALSE
  /\ expected = [r \in Rounds |-> None]
  /\ responses = [r \in Rounds |-> {}]
  /\ resolved = [r \in Rounds |-> FALSE]
  /\ timer = [r \in Rounds |-> "off"]
  /\ lock = [r \in Rounds |-> "free"]
  /\ selected = [r \in Rounds |-> None]
  /\ rx = Idle
  /\ cancelled = {}
  /\ collected = [r \in Rounds |-> {}]
  /\ dropped = {}
  /\ delivered = << >>

-----------------------------------------------------------------------------
(* The receive thread *)

\* handle_cascade returns at once on an end-of-stream marker and raises on a
\* payload that is not a BUS message: neither touches an aggregator.
DiscardControl(m) ==
  /\ rx = Idle
  /\ m \in inbox \cap Controls
  /\ inbox' = inbox \ {m}
  /\ UNCHANGED <<mapperVars, current, aggVars, rx, histVars, delivered>>

\* handle_cascade up to the call of add_response: the current aggregator is
\* kept when it is (seen, without its lock, to be) unresolved, and replaced
\* otherwise.
ReuseAggregator(m) ==
  /\ current # 0
  /\ ~resolved[current]
  /\ rx' = [pc |-> "adding", round |-> current, msg |-> m]
  /\ UNCHANGED <<current, expected>>

NewAggregator(m) ==
  /\ current # 0 => resolved[current]
  /\ current < MaxRounds
  /\ current' = current + 1
  /\ expected' = [expected EXCEPT ![current'] = hiveMapper]
  /\ rx' = [pc |-> "adding", round |-> current', msg |-> m]

HandleCascade(m) ==
  /\ rx = Idle
  /\ m \in inbox \cap Answers
  /\ inbox' = inbox \ {m}
  /\ ReuseAggregator(m) \/ NewAggregator(m)
  /\ UNCHANGED <<mapperVars, responses, resolved, timer, lock, selected, histVars, delivered>>

\* handle_ping creates an empty mapper when there is none, and never adds a
\* node to it (its flood cache and its answer are the subject of PingFlood).
HandlePing ==
  /\ rx = Idle
  /\ hiveMapper = None
  /\ hiveMapper' = 0
  /\ UNCHANGED <<mapperSet, inbox, current, aggVars, rx, histVars, delivered>>

\* Faulty variant: the flag _resolved is not set.
StaysOpen(r) == resolved

Closed(r) == [resolved EXCEPT ![r] = TRUE]

\* Faulty variants: emit_callback is called without a selection, too; it is
\* never called.
EmitsAlways(w, holder) == holder
EmitsNever(w, holder) == "free"

\* The resolving thread keeps the lock through emit_callback(w), if w is not None.
LockToEmit(w, holder) == IF w = None THEN "free" ELSE holder

\* _do_resolve up to emit_callback, by `holder', with `pool' buffered: the
\* callback may pick any buffered answer, return None or raise.
DoResolve(r, pool, holder) ==
  /\ resolved' = Closed(r)
  /\ responses' = [responses EXCEPT ![r] = {}]
  /\ \E w \in pool \cup {None} :
       /\ selected' = [selected EXCEPT ![r] = w]
       /\ lock' = [lock EXCEPT ![r] = LockToEmit(w, holder)]

\* Faulty variant: waits for one answer more than expected.
EnoughResponsesOffByOne(r, pool) ==
  /\ expected[r] # None
  /\ Cardinality(pool) > expected[r]

EnoughResponses(r, pool) ==
  /\ expected[r] # None
  /\ Cardinality(pool) >= expected[r]

\* Faulty variant: the timer is not started.
StartTimerNot(state) == state

\* The first response starts the timer.
StartTimer(state) == IF state = "off" THEN "waiting" ELSE state

\* Timer.cancel() stops a timer that still waits; one that has already
\* expired runs its callback regardless.
StopTimer(state) == IF state = "waiting" THEN "done" ELSE state

\* Faulty variant: the new answer overwrites the buffered ones.
BufferedOverwrites(r, m) == {m}

Buffered(r, m) == responses[r] \cup {m}

\* add_response on a resolved aggregator returns without buffering.
AddRefused ==
  /\ rx.pc = "adding"
  /\ lock[rx.round] = "free"
  /\ resolved[rx.round]
  /\ rx' = Idle
  /\ dropped' = dropped \cup {rx.msg}
  /\ UNCHANGED <<mapperVars, inbox, current, aggVars, cancelled, collected, delivered>>

\* add_response that buffers, starting the timer on the first response.
AddBuffered ==
  LET r == rx.round
      pool == Buffered(r, rx.msg)
  IN
  /\ rx.pc = "adding"
  /\ lock[r] = "free"
  /\ ~resolved[r]
  /\ ~EnoughResponses(r, pool)
  /\ responses' = [responses EXCEPT ![r] = pool]
  /\ timer' = [timer EXCEPT ![r] = StartTimer(@)]
  /\ collected' = [collected EXCEPT ![r] = @ \cup {rx.msg}]
  /\ rx' = Idle
  /\ UNCHANGED <<mapperVars, inbox, current, expected, resolved, lock, selected, cancelled,
                 dropped, delivered>>

\* add_response that completes the expected number: the timer is started and
\* cancelled, and the receive thread resolves.
AddResolving ==
  LET r == rx.round
      pool == Buffered(r, rx.msg)
  IN
  /\ rx.pc = "adding"
  /\ lock[r] = "free"
  /\ ~resolved[r]
  /\ EnoughResponses(r, pool)
  /\ timer' = [timer EXCEPT ![r] = StopTimer(StartTimer(@))]
  /\ collected' = [collected EXCEPT ![r] = @ \cup {rx.msg}]
  /\ DoResolve(r, pool, "rx")
  /\ rx' = IF selected'[r] = None THEN Idle ELSE [rx EXCEPT !.pc = "emitting"]
  /\ UNCHANGED <<mapperVars, inbox, current, expected, cancelled, dropped, delivered>>

\* emit_callback(selected): handle_bus on the winner, then the lock is released.
EmitSelected(r) ==
  /\ delivered' = Append(delivered, [round |-> r, answer |-> selected[r]])
  /\ lock' = [lock EXCEPT ![r] = "free"]

RxEmit ==
  /\ rx.pc = "emitting"
  /\ EmitSelected(rx.round)
  /\ rx' = Idle
  /\ UNCHANGED <<mapperVars, inbox, current, expected, responses, resolved, timer, selected,
                 histVars>>

-----------------------------------------------------------------------------
(* The timer thread of a round *)

TimerExpires(r) ==
  /\ timer[r] = "waiting"
  /\ timer' = [timer EXCEPT ![r] = "fired"]
  /\ UNCHANGED <<mapperVars, inbox, current, expected, responses, resolved, lock, selected,
                 rx, histVars, delivered>>

\* _resolve takes the lock; a round that was resolved meanwhile is left alone.
TimerTooLate(r) ==
  /\ timer[r] = "fired"
  /\ lock[r] = "free"
  /\ resolved[r]
  /\ timer' = [timer EXCEPT ![r] = "done"]
  /\ UNCHANGED <<mapperVars, inbox, current, expected, responses, resolved, lock, selected,
                 rx, histVars, delivered>>

TimerResolves(r) ==
  /\ timer[r] = "fired"
  /\ lock[r] = "free"
  /\ ~resolved[r]
  /\ DoResolve(r, responses[r], "timer")
  /\ timer' = [timer EXCEPT ![r] = "done"]
  /\ UNCHANGED <<mapperVars, inbox, current, expected, rx, histVars, delivered>>

TimerEmit(r) ==
  /\ lock[r] = "timer"
  /\ EmitSelected(r)
  /\ UNCHANGED <<mapperVars, inbox, current, expected, responses, resolved, timer, selected,
                 rx, histVars>>

-----------------------------------------------------------------------------
(* An application thread *)

\* proto.hive_mapper = mapper, with the nodes of an earlier discovery.
SetMapper(k) ==
  /\ ~mapperSet
  /\ hiveMapper' = k
  /\ mapperSet' = TRUE
  /\ UNCHANGED <<inbox, current, aggVars, rx, histVars, delivered>>

Cancel(r) ==
  /\ r <= current
  /\ r \notin cancelled
  /\ lock[r] = "free"
  /\ timer' = [timer EXCEPT ![r] = StopTimer(@)]
  /\ responses' = [responses EXCEPT ![r] = {}]
  /\ resolved' = Closed(r)
  /\ cancelled' = cancelled \cup {r}
  /\ UNCHANGED <<mapperVars, inbox, current, expected, lock, selected, rx, collected, dropped,
                 delivered>>

-----------------------------------------------------------------------------
RxStep == AddRefused \/ AddBuffered \/ AddResolving \/ RxEmit
TimerStep(r) == TimerExpires(r) \/ TimerTooLate(r) \/ TimerResolves(r) \/ TimerEmit(r)

Next ==
  \/ \E m \in inbox : DiscardControl(m) \/ HandleCascade(m)
  \/ RxStep
  \/ HandlePing
  \/ \E k \in KnownNodes : SetMapper(k)
  \/ \E r \in Rounds : TimerStep(r) \/ Cancel(r)

Spec == Init /\ [][Next]_vars

\* Timers expire and threads that can run do run; frames need not arrive and
\* nobody has to call cancel().
FairSpec ==
  /\ Spec
  /\ WF_vars(RxStep)
  /\ \A r \in Rounds : WF_vars(TimerStep(r))

-----------------------------------------------------------------------------
(* Properties *)

TypeOK ==
  /\ inbox \subseteq Answers \cup Controls
  /\ current \in 0 .. MaxRounds
  /\ expected \in [Rounds -> KnownNodes \cup {0, None}]
  /\ hiveMapper \in KnownNodes \cup {0, None} /\ mapperSet \in BOOLEAN
  /\ responses \in [Rounds -> SUBSET Answers]
  /\ resolved \in [Rounds -> BOOLEAN]
  /\ timer \in [Rounds -> {"off", "waiting", "fired", "done"}]
  /\ lock \in [Rounds -> {"free", "rx", "timer"}]
  /\ selected \in [Rounds -> Answers \cup {None}]
  /\ rx \in {Idle} \cup [pc: {"adding", "emitting"}, round: Rounds, msg: Answers]
  /\ cancelled \subseteq Rounds
  /\ collected \in [Rounds -> SUBSET Answers]
  /\ dropped \subseteq Answers
  /\ delivered \in Seq([round: Rounds, answer: Answers])

\* A round hands at most one answer to the bus, and no answer reaches the bus
\* through two rounds, whoever of the timer and the receive thread resolves.
OneDeliveryPerRound ==
  \A i, j \in DOMAIN delivered :
    i # j => /\ delivered[i].round # delivered[j].round
             /\ delivered[i].answer # delivered[j].answer

\* A round that has buffered answers and is not resolved has a live timer, so
\* its answers cannot be forgotten in the buffer.
OpenRoundHasTimer ==
  \A r \in Rounds :
    ~resolved[r] /\ responses[r] # {} => timer[r] \in {"waiting", "fired"}

\* An unresolved round never sits on as many answers as it was told to expect
\* (a map with no nodes expects 0: the first answer resolves it).
ExpectedResolvesEarly ==
  \A r \in Rounds :
    /\ ~resolved[r] /\ responses[r] # {} /\ expected[r] # None
    => Cardinality(responses[r]) < expected[r]

\* cancel() is silent: no answer of a round reaches the bus after cancel()
\* returned, even when the timer had expired and was waiting for the lock.
CancelIsSilent ==
  [][ \A r \in cancelled :
        delivered' # delivered => delivered'[Len(delivered')].round # r ]_vars

\* Every answer the receive thread took up is in exactly one place: on its way
\* into a round, taken in by some round, or refused by a resolved one.
AnswersAccountedFor ==
  LET inHand == IF rx.pc = "adding" THEN {rx.msg} ELSE {}
      kept == UNION {collected[r] : r \in Rounds}
  IN /\ Answers \ inbox = inHand \cup kept \cup dropped
     /\ inHand \cap (kept \cup dropped) = {}
     /\ kept \cap dropped = {}

\* No answer is lost before a winner is chosen: the window of an open round
\* still holds all it took in, whatever arrived, expired or raced meanwhile.
NothingLost ==
  /\ AnswersAccountedFor
  /\ \A r \in Rounds : ~resolved[r] => responses[r] = collected[r]

\* The inductive invariant behind the safety properties: who holds a lock, what
\* an elected answer and a delivery refer to, and that no answer is in two rounds.
LockHeldToEmit ==
  \A r \in Rounds :
    /\ lock[r] = "rx" <=> rx.pc = "emitting" /\ rx.round = r
    /\ lock[r] # "free" => /\ selected[r] # None
                           /\ \A i \in DOMAIN delivered : delivered[i].round # r

ElectedWasCollected ==
  \A r \in Rounds :
    /\ responses[r] \subseteq collected[r]
    /\ ~resolved[r] => responses[r] = collected[r]
    /\ selected[r] # None => resolved[r] /\ selected[r] \in collected[r]

DeliveredWasElected ==
  /\ \A i \in DOMAIN delivered : delivered[i].answer = selected[delivered[i].round]
  /\ \A i, j \in DOMAIN delivered : i # j => delivered[i].round # delivered[j].round

RoundsDisjoint ==
  \A r, s \in Rounds : r # s => collected[r] \cap collected[s] = {}

IInv == /\ TypeOK /\ LockHeldToEmit /\ ElectedWasCollected /\ DeliveredWasElected
        /\ RoundsDisjoint /\ AnswersAccountedFor

\* What the window of a round relies on: no answer enters a round that does not
\* exist yet, the timer of an open round has not run out unnoticed, and a round
\* that cancel() closed is out of every thread's hands.
WindowsExist ==
  /\ rx.pc = "adding" => rx.round <= current
  /\ \A r \in Rounds : r > current => responses[r] = {}
  /\ \A r \in Rounds : IsFiniteSet(responses[r])

DoneIsResolved == \A r \in Rounds : timer[r] = "done" => resolved[r]

CancelledIsClosed == \A r \in cancelled : resolved[r] /\ lock[r] = "free"

WindowInv == /\ WindowsExist /\ DoneIsResolved /\ CancelledIsClosed
             /\ OpenRoundHasTimer /\ ExpectedResolvesEarly

\* Buffered answers are resolved: some time after the first one arrives the
\* round elects a winner or is cancelled.
BufferedRoundsResolve ==
  \A r \in Rounds : responses[r] # {} ~> resolved[r]

\* An elected answer reaches the bus: the thread that holds the lock emits.
ElectedIsDelivered ==
  \A r \in Rounds :
    selected[r] # None ~> \E i \in DOMAIN delivered :
                            delivered[i] = [round |-> r, answer |-> selected[r]]

\* The aggregator implements the contract: a round is open until _resolved.
Contract == INSTANCE CascadeContract
  WITH open <- {r \in Rounds : ~resolved[r]}, elected <- selected
ContractHolds == Contract!ContractSpec
=============================================================================
