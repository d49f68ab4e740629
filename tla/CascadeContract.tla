-------------------------- MODULE CascadeContract --------------------------
(***************************************************************************)
(* What CASCADE aggregation promises its user, without threads, timers or  *)
(* locks: answers are collected in rounds; a round closes once, electing   *)
(* one of the answers it collected or none; a closed round delivers the    *)
(* answer it elected to the agent bus, once.                               *)
(***************************************************************************)
EXTENDS Naturals, Sequences

CONSTANTS Answers,  \* CASCADE responses that wrap a BUS message
          Rounds,   \* one per CascadeAggregator object
          None      \* "no answer"

VARIABLES collected,  \* the answers each round took in
          open,       \* the rounds that still collect
          elected,    \* the answer a closed round elected, or None
          delivered   \* what reached the agent bus, in order

contractVars == <<collected, open, elected, delivered>>

Delivery == [round: Rounds, answer: Answers]

ContractInit ==
  /\ collected = [r \in Rounds |-> {}]
  /\ open = Rounds
  /\ elected = [r \in Rounds |-> None]
  /\ delivered = << >>

Collect(r, m) ==
  /\ r \in open
  /\ \A s \in Rounds : m \notin collected[s]
  /\ collected' = [collected EXCEPT ![r] = @ \cup {m}]

\* The round stops collecting; `pool' is what it may elect from.
Close(r, pool) ==
  /\ r \in open
  /\ open' = open \ {r}
  /\ \E w \in pool \cup {None} : elected' = [elected EXCEPT ![r] = w]

CollectMore(r, m) == Collect(r, m) /\ UNCHANGED <<open, elected, delivered>>

CollectLast(r, m) ==
  /\ Collect(r, m)
  /\ Close(r, collected'[r])
  /\ UNCHANGED delivered

CloseRound(r) == Close(r, collected[r]) /\ UNCHANGED <<collected, delivered>>

Deliver(r) ==
  /\ elected[r] # None
  /\ \A i \in DOMAIN delivered : delivered[i].round # r
  /\ delivered' = Append(delivered, [round |-> r, answer |-> elected[r]])
  /\ UNCHANGED <<collected, open, elected>>

ContractNext ==
  \E r \in Rounds :
    \/ \E m \in Answers : CollectMore(r, m) \/ CollectLast(r, m)
    \/ CloseRound(r)
    \/ Deliver(r)

ContractSpec == ContractInit /\ [][ContractNext]_contractVars
=============================================================================
