---------------------------- MODULE AtomicCounter ---------------------------
(***************************************************************************)
(* What src/atomic.s promises to those who increment a word with it:       *)
(* between call and return the word goes up by one, once, at one moment.   *)
(* atomic_incr returns a value the word had since that moment, its own     *)
(* count if nobody else came in between; it may return the same value to   *)
(* two callers.                                                            *)
(***************************************************************************)
EXTENDS Integers

CONSTANTS Processors, Width

VARIABLES
  word,             \* the counter
  phase,            \* of each processor's call
  own,              \* the count a processor in atomic_incr made
  result            \* of its last atomic_incr

counterVars == <<word, phase, own, result>>

CounterInit ==
  /\ word \in 0 .. Width - 1
  /\ phase  = [p \in Processors |-> "out"]
  /\ own    = [p \in Processors |-> 0]
  /\ result = [p \in Processors |-> 0]

Next(w) == (w + 1) % Width

\* The values from a to b, rolling over
Between(a, b) ==
  {w \in 0 .. Width - 1 : IF a <= b THEN a <= w /\ w <= b ELSE w >= a \/ w <= b}

Enter(p, from, to) == phase[p] = from /\ phase' = [phase EXCEPT ![p] = to]

Call(p) ==
  /\ Enter(p, "out", "incr") \/ Enter(p, "out", "cas")
  /\ UNCHANGED <<word, own, result>>

CountIncr(p) ==
  /\ Enter(p, "incr", "counted")
  /\ word' = Next(word)
  /\ own' = [own EXCEPT ![p] = Next(word)]
  /\ UNCHANGED result

CountCas(p) ==
  /\ Enter(p, "cas", "set")
  /\ word' = Next(word)
  /\ UNCHANGED <<own, result>>

ReturnIncr(p) ==
  /\ Enter(p, "counted", "out")
  /\ \E w \in Between(own[p], word) : result' = [result EXCEPT ![p] = w]
  /\ own' = [own EXCEPT ![p] = 0]
  /\ UNCHANGED word

ReturnCas(p) ==
  /\ Enter(p, "set", "out")
  /\ UNCHANGED <<word, own, result>>

CounterNext ==
  \E p \in Processors :
    Call(p) \/ CountIncr(p) \/ CountCas(p) \/ ReturnIncr(p) \/ ReturnCas(p)

CounterSpec == CounterInit /\ [][CounterNext]_counterVars
=============================================================================
