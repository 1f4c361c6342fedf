------------------------------- MODULE Atomic -------------------------------
(***************************************************************************)
(* The operations of src/atomic.s, instruction by instruction, by          *)
(* processors that increment one word of shared memory: with atomic_incr8, *)
(* 16 or 32, or with atomic_compare_and_set8, 16 or 32 in the loop of      *)
(* many_thread_function_cas in tests/verify-atomic.c.  The variants of an  *)
(* operation differ in the width of the word alone; so does                *)
(* atomic_compare_and_set64, but that it overwrites its caller's EBX and   *)
(* ESI, which is left out.  Instructions that touch a processor's own      *)
(* registers and stack only are part of the step before or after them.     *)
(***************************************************************************)
EXTENDS Integers

CONSTANTS
  Processors,
  Width             \* 2^8, 2^16 or 2^32: how many values the word has

ASSUME AtomicAssumption == Width \in Nat \ {0}

VARIABLES
  word,             \* the shared memory
  at,               \* the instruction a processor is about to execute
  value,            \* local `value` of its loop, 0 where it is dead
  zf,               \* its zero flag between CMPXCHG and SETE
  result,           \* what its last atomic_incr returned
  own               \* history: the word right after its LOCK INC, until it returns

atomicVars == <<word, at, value, zf, result, own>>

Words == 0 .. Width - 1

AtomicTypeOK ==
  /\ word \in Words
  /\ at \in [Processors -> {"idle", "inc", "mov", "load", "cmpxchg", "sete"}]
  /\ value \in [Processors -> Words]
  /\ zf \in [Processors -> BOOLEAN]
  /\ result \in [Processors -> Words] /\ own \in [Processors -> Words]

AtomicInit ==
  /\ word \in Words
  /\ at     = [p \in Processors |-> "idle"]
  /\ value  = [p \in Processors |-> 0]
  /\ zf     = [p \in Processors |-> FALSE]
  /\ result = [p \in Processors |-> 0]
  /\ own    = [p \in Processors |-> 0]

Successor(w) == (w + 1) % Width

Goto(p, from, to) == at[p] = from /\ at' = [at EXCEPT ![p] = to]

-----------------------------------------------------------------------------
(***************************************************************************)
(* atomic_incr                                                             *)
(***************************************************************************)
IncrCall(p) ==
  /\ Goto(p, "idle", "inc")
  /\ UNCHANGED <<word, value, zf, result, own>>

\* LOCK INC [EAX]
IncrInc(p) ==
  /\ Goto(p, "inc", "mov")
  /\ word' = Successor(word)
  /\ own' = [own EXCEPT ![p] = Successor(word)]
  /\ UNCHANGED <<value, zf, result>>

\* MOV EAX, [EAX]: the word may have changed since.
IncrMov(p) ==
  /\ Goto(p, "mov", "idle")
  /\ result' = [result EXCEPT ![p] = word]
  /\ own' = [own EXCEPT ![p] = 0]
  /\ UNCHANGED <<word, value, zf>>

-----------------------------------------------------------------------------
(***************************************************************************)
(* atomic_compare_and_set(valuep, value, value + 1), in a loop             *)
(***************************************************************************)
CasCall(p) ==
  /\ Goto(p, "idle", "load")
  /\ UNCHANGED <<word, value, zf, result, own>>

\* value = *valuep
CasLoad(p) ==
  /\ Goto(p, "load", "cmpxchg")
  /\ value' = [value EXCEPT ![p] = word]
  /\ UNCHANGED <<word, zf, result, own>>

\* Mutant of CasExchange: the word is not compared.
CasExchangeAlways(p) ==
  word' = Successor(value[p]) /\ zf' = [zf EXCEPT ![p] = TRUE]

\* LOCK CMPXCHG [ECX], EDX with the arguments in EAX and EDX
CasExchange(p) ==
  \/ /\ word = value[p]
     /\ word' = Successor(value[p])
     /\ zf' = [zf EXCEPT ![p] = TRUE]
  \/ /\ word # value[p]
     /\ zf' = [zf EXCEPT ![p] = FALSE]
     /\ UNCHANGED word

CasCmpxchg(p) ==
  /\ Goto(p, "cmpxchg", "sete")
  /\ CasExchange(p)
  /\ value' = [value EXCEPT ![p] = 0]
  /\ UNCHANGED <<result, own>>

\* Mutant of Retry: the loop does not read the word again.
RetryWithOldValue == "cmpxchg"

\* Where the loop goes on after a compare-and-set that failed
Retry == "load"

\* SETE AL; AND EAX, 0xFF; and the caller's test of it
CasSete(p) ==
  /\ Goto(p, "sete", IF zf[p] THEN "idle" ELSE Retry)
  /\ zf' = [zf EXCEPT ![p] = FALSE]
  /\ UNCHANGED <<word, value, result, own>>

-----------------------------------------------------------------------------
AtomicCall(p) == IncrCall(p) \/ CasCall(p)
AtomicStep(p) == IncrInc(p) \/ IncrMov(p) \/ CasLoad(p) \/ CasCmpxchg(p) \/ CasSete(p)

AtomicNext == \E p \in Processors : AtomicCall(p) \/ AtomicStep(p)

\* A processor in the middle of a call goes on.
AtomicSpec ==
  /\ AtomicInit /\ [][AtomicNext]_atomicVars
  /\ \A p \in Processors : WF_atomicVars(AtomicStep(p))

-----------------------------------------------------------------------------
(***************************************************************************)
(* Properties                                                              *)
(***************************************************************************)
Phase(p) ==
  IF at[p] = "idle" THEN "out"
  ELSE IF at[p] = "inc" THEN "incr"
  ELSE IF at[p] = "mov" THEN "counted"
  ELSE IF at[p] = "sete" /\ zf[p] THEN "set"
  ELSE "cas"

phase == [p \in Processors |-> Phase(p)]

Counter == INSTANCE AtomicCounter

\* Every call, of either kind, makes the counter one larger exactly once while
\* it runs, whatever the others do between its instructions, what the threads
\* of tests/verify-atomic.c add up to; and atomic_incr returns a value the
\* counter had since.
ImplementsCounter == Counter!CounterSpec

\* The loop around atomic_compare_and_set is lock-free: while a processor is
\* in it, somebody counts, if not always the same.
SomebodyCounts ==
  (\E p \in Processors : Phase(p) \in {"incr", "cas"})
    ~> (\E p \in Processors : Phase(p) \in {"counted", "set"})
=============================================================================
