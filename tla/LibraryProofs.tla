---------------------------- MODULE LibraryProofs ----------------------------
(***************************************************************************)
(* The kernel's library: the operations of Atomic keep their types and     *)
(* implement AtomicCounter, for any number of processors and any width of  *)
(* the word; the functions of Strings and Stream do what their properties  *)
(* say, for a memory of any size with characters of any width.             *)
(***************************************************************************)
EXTENDS Atomic, Stream, OrderLemmas, SequenceTheorems

-----------------------------------------------------------------------------
(***************************************************************************)
(* Atomic operations                                                       *)
(***************************************************************************)
\* A word that is incremented stays a word: it rolls over.
LEMMA SuccessorIsWord ==
  ASSUME NEW w \in Words
  PROVE  Successor(w) \in Words
BY AtomicAssumption, SMT DEF Words, Successor

\* What atomic_incr reads back lies between any word and itself.
LEMMA BetweenEndsInWord ==
  ASSUME NEW a \in Words, NEW w \in Words
  PROVE  w \in Counter!Between(a, w)
BY AtomicAssumption, SMT DEF Words, Counter!Between

\* Every variable of the processors and of the word they share keeps its type.
THEOREM AtomicTypeCorrect == AtomicSpec => []AtomicTypeOK
<1>1. AtomicInit => AtomicTypeOK
  BY AtomicAssumption, SMT DEF AtomicInit, AtomicTypeOK, Words
<1>2. AtomicTypeOK /\ [AtomicNext]_atomicVars => AtomicTypeOK'
  <2> SUFFICES ASSUME AtomicTypeOK, [AtomicNext]_atomicVars
               PROVE  AtomicTypeOK'
    OBVIOUS
  <2>1. Successor(word) \in Words
    BY SuccessorIsWord DEF AtomicTypeOK
  <2>2. CASE UNCHANGED atomicVars
    BY <2>2 DEF AtomicTypeOK, atomicVars
  <2>3. ASSUME NEW p \in Processors, AtomicCall(p)
        PROVE  AtomicTypeOK'
    BY <2>3 DEF AtomicTypeOK, AtomicCall, IncrCall, CasCall, Goto
  <2>4. ASSUME NEW p \in Processors, AtomicStep(p)
        PROVE  AtomicTypeOK'
    <3> USE DEF AtomicTypeOK, Goto
    <3>0. 0 \in Words
      BY AtomicAssumption, SMT DEF Words
    <3>1. CASE IncrInc(p)
      BY <2>1, <3>1 DEF IncrInc
    <3>2. CASE IncrMov(p)
      BY <3>0, <3>2 DEF IncrMov
    <3>3. CASE CasLoad(p)
      BY <3>3 DEF CasLoad
    <3>4. CASE CasCmpxchg(p)
      <4>1. Successor(value[p]) \in Words
        BY SuccessorIsWord
      <4>2. word' \in Words /\ zf' \in [Processors -> BOOLEAN]
        BY <3>4, <4>1 DEF CasCmpxchg, CasExchange
      <4>3. QED
        BY <3>0, <3>4, <4>2 DEF CasCmpxchg
    <3>5. CASE CasSete(p)
      BY <3>5 DEF CasSete, Retry
    <3>6. QED
      BY <2>4, <3>1, <3>2, <3>3, <3>4, <3>5 DEF AtomicStep
  <2>5. QED
    BY <2>2, <2>3, <2>4 DEF AtomicNext
<1>3. QED
  BY <1>1, <1>2, PTL DEF AtomicSpec

\* A step of one processor changes that processor's phase only.
LEMMA PhaseOfGoto ==
  ASSUME AtomicTypeOK, NEW p \in Processors, NEW from, NEW to, Goto(p, from, to),
         \A q \in Processors \ {p} : zf'[q] = zf[q]
  PROVE  /\ phase[p] = Phase(p)
         /\ phase' = [phase EXCEPT ![p] = Phase(p)']
BY DEF AtomicTypeOK, phase, Phase, Goto

\* The instructions of src/atomic.s implement the abstract counter: no call is
\* lost or counted twice, and what atomic_incr returns is no older than it.
THEOREM AtomicImplementsCounter == AtomicSpec => ImplementsCounter
<1>1. AtomicInit => Counter!CounterInit
  BY DEF AtomicInit, Counter!CounterInit, Words, phase, Phase
<1>2. AtomicTypeOK /\ AtomicTypeOK' /\ [AtomicNext]_atomicVars
        => [Counter!CounterNext]_(Counter!counterVars)
  <2> SUFFICES ASSUME AtomicTypeOK, [AtomicNext]_atomicVars
               PROVE  [Counter!CounterNext]_(Counter!counterVars)
    OBVIOUS
  <2> USE DEF Counter!Enter
  <2>1. CASE UNCHANGED atomicVars
    BY <2>1 DEF atomicVars, Counter!counterVars, phase, Phase
  <2>2. ASSUME NEW p \in Processors, AtomicCall(p)
        PROVE  Counter!Call(p)
    <3>1. phase[p] = Phase(p) /\ phase' = [phase EXCEPT ![p] = Phase(p)']
      BY <2>2, PhaseOfGoto DEF AtomicCall, IncrCall, CasCall
    <3>2. Phase(p) = "out" /\ Phase(p)' \in {"incr", "cas"}
      BY <2>2 DEF AtomicCall, IncrCall, CasCall, Goto, Phase, AtomicTypeOK
    <3>3. UNCHANGED <<word, own, result>>
      BY <2>2 DEF AtomicCall, IncrCall, CasCall
    <3>4. QED
      BY <3>1, <3>2, <3>3 DEF Counter!Call
  <2>3. ASSUME NEW p \in Processors, IncrInc(p)
        PROVE  Counter!CountIncr(p)
    <3>1. phase[p] = Phase(p) /\ phase' = [phase EXCEPT ![p] = Phase(p)']
      BY <2>3, PhaseOfGoto DEF IncrInc
    <3>2. Phase(p) = "incr" /\ Phase(p)' = "counted"
      BY <2>3 DEF IncrInc, Goto, Phase, AtomicTypeOK
    <3>3. QED
      BY <2>3, <3>1, <3>2 DEF IncrInc, Counter!CountIncr, Counter!Next, Successor
  <2>4. ASSUME NEW p \in Processors, IncrMov(p)
        PROVE  Counter!ReturnIncr(p)
    <3>1. phase[p] = Phase(p) /\ phase' = [phase EXCEPT ![p] = Phase(p)']
      BY <2>4, PhaseOfGoto DEF IncrMov
    <3>2. Phase(p) = "counted" /\ Phase(p)' = "out"
      BY <2>4 DEF IncrMov, Goto, Phase, AtomicTypeOK
    <3>3. word \in Counter!Between(own[p], word)
      BY BetweenEndsInWord DEF AtomicTypeOK
    <3>4. QED
      BY <2>4, <3>1, <3>2, <3>3 DEF IncrMov, Counter!ReturnIncr
  <2>5. ASSUME NEW p \in Processors, CasLoad(p)
        PROVE  UNCHANGED Counter!counterVars
    <3>1. phase[p] = Phase(p) /\ phase' = [phase EXCEPT ![p] = Phase(p)']
      BY <2>5, PhaseOfGoto DEF CasLoad
    <3>2. Phase(p) = "cas" /\ Phase(p)' = "cas"
      BY <2>5 DEF CasLoad, Goto, Phase, AtomicTypeOK
    <3>3. QED
      BY <2>5, <3>1, <3>2 DEF CasLoad, Counter!counterVars, phase
  <2>6. ASSUME NEW p \in Processors, CasCmpxchg(p)
        PROVE  Counter!CountCas(p) \/ UNCHANGED Counter!counterVars
    <3>1. phase[p] = Phase(p) /\ phase' = [phase EXCEPT ![p] = Phase(p)']
      <4>1. \A q \in Processors \ {p} : zf'[q] = zf[q]
        BY <2>6 DEF CasCmpxchg, CasExchange, AtomicTypeOK
      <4>2. QED
        BY <2>6, <4>1, PhaseOfGoto DEF CasCmpxchg
    <3>2. Phase(p) = "cas"
      BY <2>6 DEF CasCmpxchg, Goto, Phase
    <3>3. CASE word = value[p] /\ word' = Successor(value[p]) /\ zf' = [zf EXCEPT ![p] = TRUE]
      <4>1. Phase(p)' = "set"
        BY <2>6, <3>3 DEF CasCmpxchg, Goto, Phase, AtomicTypeOK
      <4>2. QED
        BY <2>6, <3>1, <3>2, <3>3, <4>1
           DEF CasCmpxchg, Counter!CountCas, Counter!Next, Successor
    <3>4. CASE word # value[p] /\ UNCHANGED word /\ zf' = [zf EXCEPT ![p] = FALSE]
      <4>1. Phase(p)' = "cas"
        BY <2>6, <3>4 DEF CasCmpxchg, Goto, Phase, AtomicTypeOK
      <4>2. QED
        BY <2>6, <3>1, <3>2, <3>4, <4>1 DEF CasCmpxchg, Counter!counterVars, phase
    <3>5. QED
      BY <2>6, <3>3, <3>4 DEF CasCmpxchg, CasExchange
  <2>7. ASSUME NEW p \in Processors, CasSete(p)
        PROVE  Counter!ReturnCas(p) \/ UNCHANGED Counter!counterVars
    <3>1. phase[p] = Phase(p) /\ phase' = [phase EXCEPT ![p] = Phase(p)']
      <4>1. \A q \in Processors \ {p} : zf'[q] = zf[q]
        BY <2>7 DEF CasSete, AtomicTypeOK
      <4>2. QED
        BY <2>7, <4>1, PhaseOfGoto DEF CasSete
    <3>2. CASE zf[p]
      <4>1. Phase(p) = "set" /\ Phase(p)' = "out"
        BY <2>7, <3>2 DEF CasSete, Goto, Phase, AtomicTypeOK
      <4>2. QED
        BY <2>7, <3>1, <4>1 DEF CasSete, Counter!ReturnCas
    <3>3. CASE ~zf[p]
      <4>1. Phase(p) = "cas" /\ Phase(p)' = "cas"
        BY <2>7, <3>3 DEF CasSete, Retry, Goto, Phase, AtomicTypeOK
      <4>2. QED
        BY <2>7, <3>1, <4>1 DEF CasSete, Counter!counterVars, phase
    <3>4. QED
      BY <3>2, <3>3
  <2>8. QED
    BY <2>1, <2>2, <2>3, <2>4, <2>5, <2>6, <2>7
       DEF AtomicNext, AtomicStep, Counter!CounterNext
<1>3. QED
  BY <1>1, <1>2, AtomicTypeCorrect, PTL DEF AtomicSpec, ImplementsCounter, Counter!CounterSpec

-----------------------------------------------------------------------------
(***************************************************************************)
(* Copies of bytes                                                         *)
(***************************************************************************)
\* What the memory can hold
Memories == [Addresses -> Chars]

\* Min is the least element.
LEMMA MinIs ==
  ASSUME NEW S \in SUBSET Nat, S # {}
  PROVE  Min(S) \in S /\ \A x \in S : Min(S) <= x
BY LeastElement DEF Min

\* Whatever is so at 0 and at each number if it is so at the one before is
\* so at all numbers up to n.
LEMMA Upwards ==
  ASSUME NEW n \in Nat, NEW Good, 0 \in Good,
         \A k \in 1 .. n : k - 1 \in Good => k \in Good
  PROVE  \A k \in 0 .. n : k \in Good
<1> DEFINE Bad == {k \in 0 .. n : k \notin Good}
<1> SUFFICES ASSUME Bad # {}
             PROVE  FALSE
  OBVIOUS
<1>1. PICK k \in Bad : \A i \in Bad : k <= i
  <2>1. Bad \in SUBSET Nat
    OBVIOUS
  <2> HIDE DEF Bad
  <2> QED  BY <2>1, LeastElement
<1>2. k # 0 /\ k \in 1 .. n /\ k - 1 \in 0 .. n
  BY <1>1
<1>3. k - 1 \notin Bad
  BY <1>1, <1>2
<1> QED
  BY <1>1, <1>2, <1>3

-----------------------------------------------------------------------------
(***************************************************************************)
(* Copies                                                                  *)
(***************************************************************************)

\* A byte copied leaves a memory.
LEMMA CopyByteType ==
  ASSUME NEW m \in Memories, NEW dest \in Nat, NEW src \in Nat, NEW i \in Nat
  PROVE  CopyByte(m, dest, src, i) \in Memories
BY StringsAssumption DEF CopyByte, Memories, Inside, Addresses

\* The memory after each byte of a copy, as a function
Copying(f, m, dest, src, order) ==
  f = [k \in 0 .. Len(order) |->
         IF k = 0 THEN m ELSE CopyByte(f[k - 1], dest, src, order[k])]

\* There is such a function, as far as any length.
LEMMA CopyingExists ==
  ASSUME NEW m, NEW dest, NEW src, NEW order \in Seq(Nat)
  PROVE  \E f : Copying(f, m, dest, src, order)
<1> DEFINE Upto(f, n) ==
             f = [k \in 0 .. n |->
                    IF k = 0 THEN m ELSE CopyByte(f[k - 1], dest, src, order[k])]
           Good == {n \in Nat : \E f : Upto(f, n)}
<1>1. 0 \in Good
  <2> DEFINE f == [k \in 0 .. 0 |-> m]
  <2>1. Upto(f, 0)
    OBVIOUS
  <2> HIDE DEF f, Upto
  <2> QED  BY <2>1
<1>2. ASSUME NEW n \in Nat \ {0}, n - 1 \in Good
      PROVE  n \in Good
  <2>1. PICK f : Upto(f, n - 1)
    BY <1>2
  <2> DEFINE g == [k \in 0 .. n |->
                     IF k = n THEN CopyByte(f[n - 1], dest, src, order[n]) ELSE f[k]]
  <2>2. \A k \in 0 .. n :
          g[k] = IF k = 0 THEN m ELSE CopyByte(g[k - 1], dest, src, order[k])
    <3> SUFFICES ASSUME NEW k \in 0 .. n
                 PROVE  g[k] = IF k = 0 THEN m ELSE CopyByte(g[k - 1], dest, src, order[k])
      OBVIOUS
    <3>1. CASE k = n
      <4>1. g[n - 1] = f[n - 1]
        OBVIOUS
      <4> HIDE DEF Upto
      <4> QED  BY <3>1, <4>1
    <3>2. CASE k # n /\ k # 0
      <4>1. g[k - 1] = f[k - 1] /\ g[k] = f[k]
        BY <3>2
      <4>2. f[k] = CopyByte(f[k - 1], dest, src, order[k])
        BY <2>1, <3>2
      <4> QED  BY <3>2, <4>1, <4>2
    <3>3. CASE k = 0 /\ k # n
      <4>1. g[k] = f[k]
        BY <3>3
      <4>2. f[k] = m
        BY <2>1, <3>3
      <4> QED  BY <3>3, <4>1, <4>2
    <3> QED  BY <3>1, <3>2, <3>3
  <2>3. Upto(g, n)
    <3>1. g = [k \in 0 .. n |-> g[k]]
      OBVIOUS
    <3> HIDE DEF g
    <3> QED  BY <2>2, <3>1
  <2> HIDE DEF Upto, g
  <2> QED  BY <2>3
<1>3. Len(order) \in Nat
  OBVIOUS
<1>4. Len(order) \in Good
  <2> HIDE DEF Good
  <2>1. \A n \in 1 .. Len(order) : n - 1 \in Good => n \in Good
    BY <1>2, <1>3
  <2>2. \A n \in 0 .. Len(order) : n \in Good
    BY <1>1, <1>3, <2>1, Upwards
  <2> QED  BY <1>3, <2>2
<1> QED
  BY <1>4 DEF Copying

\* What Copy returns is where such a function ends.
LEMMA CopyIs ==
  ASSUME NEW m, NEW dest, NEW src, NEW order \in Seq(Nat)
  PROVE  \E f : /\ Copying(f, m, dest, src, order)
                /\ Copy(m, dest, src, order) = f[Len(order)]
<1> DEFINE f == CHOOSE f : Copying(f, m, dest, src, order)
<1>1. Copying(f, m, dest, src, order)
  BY CopyingExists
<1>2. Copy(m, dest, src, order) = f[Len(order)]
  BY Zenon DEF Copy, Copying
<1> QED
  BY <1>1, <1>2

\* Such a function begins with the memory and goes on byte by byte.
LEMMA CopyingSteps ==
  ASSUME NEW f, NEW m, NEW dest, NEW src, NEW order, Len(order) \in Nat,
         Copying(f, m, dest, src, order)
  PROVE  /\ f[0] = m
         /\ \A k \in 1 .. Len(order) : f[k] = CopyByte(f[k - 1], dest, src, order[k])
<1>1. \A k \in 0 .. Len(order) :
        f[k] = IF k = 0 THEN m ELSE CopyByte(f[k - 1], dest, src, order[k])
  <2> DEFINE g == [k \in 0 .. Len(order) |->
                     IF k = 0 THEN m ELSE CopyByte(f[k - 1], dest, src, order[k])]
  <2>1. f = g
    BY Zenon DEF Copying
  <2>2. \A k \in 0 .. Len(order) :
          g[k] = IF k = 0 THEN m ELSE CopyByte(f[k - 1], dest, src, order[k])
    OBVIOUS
  <2> HIDE DEF g
  <2> QED  BY <2>1, <2>2
<1>2. 0 \in 0 .. Len(order) /\ \A k \in 1 .. Len(order) : k \in 0 .. Len(order) /\ k # 0
  OBVIOUS
<1> QED
  BY <1>1, <1>2

\* Copying leaves a memory, however far it gets.
LEMMA CopyType ==
  ASSUME NEW m \in Memories, NEW dest \in Nat, NEW src \in Nat, NEW order \in Seq(Nat)
  PROVE  Copy(m, dest, src, order) \in Memories
<1>1. PICK f : Copying(f, m, dest, src, order) /\ Copy(m, dest, src, order) = f[Len(order)]
  BY CopyIs
<1>2. Len(order) \in Nat
  OBVIOUS
<1> DEFINE Good == {k \in 0 .. Len(order) : f[k] \in Memories}
<1>3. f[0] = m /\ \A k \in 1 .. Len(order) : f[k] = CopyByte(f[k - 1], dest, src, order[k])
  BY <1>1, <1>2, CopyingSteps
<1>4. ASSUME NEW k \in 1 .. Len(order), k - 1 \in Good
      PROVE  k \in Good
  <2>1. order[k] \in Nat /\ f[k - 1] \in Memories
    BY <1>4
  <2>2. CopyByte(f[k - 1], dest, src, order[k]) \in Memories
    BY <2>1, CopyByteType
  <2> QED  BY <1>3, <2>2
<1>5. 0 \in Good
  BY <1>2, <1>3
<1>6. \A k \in 0 .. Len(order) : k \in Good
  <2> HIDE DEF Good
  <2> QED  BY <1>2, <1>4, <1>5, Upwards
<1>7. Len(order) \in Good
  BY <1>2, <1>6
<1> QED
  BY <1>1, <1>7

\* A byte that is inside is memory.
LEMMA InsideIs ==
  ASSUME NEW s \in Nat, NEW i \in Nat, Inside(s, i + 1)
  PROVE  s + i \in Addresses
BY StringsAssumption DEF Inside, Addresses

\* A copy through a buffer
Buffered(m, dest, src, order) ==
  [a \in Addresses |-> IF \E k \in 1 .. Len(order) : a = dest + order[k]
                       THEN m[src + (a - dest)] ELSE m[a]]

\* Where no byte is read after it has been overwritten, a copy is what it
\* would be through a buffer.
LEMMA CopyInSafeOrder ==
  ASSUME NEW m \in Memories, NEW dest \in Nat, NEW src \in Nat, NEW order \in Seq(Nat),
         \A k \in 1 .. Len(order) : Inside(dest, order[k] + 1) /\ Inside(src, order[k] + 1),
         \A j, k \in 1 .. Len(order) : j < k => dest + order[j] # src + order[k]
  PROVE  Copy(m, dest, src, order) = Buffered(m, dest, src, order)
<1>1. PICK f : Copying(f, m, dest, src, order) /\ Copy(m, dest, src, order) = f[Len(order)]
  BY CopyIs
<1>2. Len(order) \in Nat
  OBVIOUS
<1>3. f[0] = m /\ \A k \in 1 .. Len(order) : f[k] = CopyByte(f[k - 1], dest, src, order[k])
  BY <1>1, <1>2, CopyingSteps
<1> DEFINE Copied(n) == [a \in Addresses |-> IF \E k \in 1 .. n : a = dest + order[k]
                                             THEN m[src + (a - dest)] ELSE m[a]]
           Good == {n \in 0 .. Len(order) : f[n] = Copied(n)}
<1>4. 0 \in Good
  BY <1>2, <1>3 DEF Memories
<1>5. ASSUME NEW n \in 1 .. Len(order), n - 1 \in Good
      PROVE  n \in Good
  <2>1. order[n] \in Nat /\ n \in Nat /\ Bytes \in Nat
    BY StringsAssumption
  <2>2. f[n - 1] = Copied(n - 1)
    BY <1>5
  <2>3. src + order[n] \in Addresses /\ dest + order[n] \in Addresses
    <3>1. Inside(dest, order[n] + 1) /\ Inside(src, order[n] + 1)
      BY <1>5
    <3> QED  BY <2>1, <3>1, InsideIs
  <2>4. f[n - 1][src + order[n]] = m[src + order[n]]
    <3>1. \A k \in 1 .. n - 1 : src + order[n] # dest + order[k]
      BY <1>2, SMTT(20)
    <3> QED  BY <2>2, <2>3, <3>1
  <2>5. f[n] = [f[n - 1] EXCEPT ![dest + order[n]] = m[src + order[n]]]
    BY <1>3, <2>4 DEF CopyByte
  <2>6. f[n] = [a \in Addresses |-> IF a = dest + order[n] THEN m[src + order[n]]
                                    ELSE f[n - 1][a]]
    BY <2>2, <2>5
  <2>7. ASSUME NEW a \in Addresses
        PROVE  f[n][a] = Copied(n)[a]
    <3>1. CASE a = dest + order[n]
      <4>1. src + (a - dest) = src + order[n]
        BY <2>1, <3>1
      <4>2. f[n][a] = m[src + order[n]]
        BY <2>6, <3>1
      <4>3. \E k \in 1 .. n : a = dest + order[k]
        BY <2>1, <3>1
      <4>4. Copied(n)[a] = m[src + (a - dest)]
        BY <4>3
      <4> HIDE DEF Copied
      <4> QED  BY <4>1, <4>2, <4>4
    <3>2. CASE a # dest + order[n]
      <4>1. f[n][a] = Copied(n - 1)[a]
        <5> HIDE DEF Copied
        <5>1. f[n][a] = f[n - 1][a]
          BY <2>6, <3>2
        <5> QED  BY <2>2, <5>1
      <4>2. (\E k \in 1 .. n : a = dest + order[k]) <=> \E k \in 1 .. n - 1 : a = dest + order[k]
        BY <2>1, <3>2, SMTT(20)
      <4> QED  BY <4>1, <4>2
    <3> QED  BY <3>1, <3>2
  <2>8. f[n] = [a \in Addresses |-> f[n][a]]
    BY <2>6
  <2>9. f[n] = Copied(n)
    BY <2>7, <2>8
  <2> QED  BY <2>9
<1>6. \A n \in 0 .. Len(order) : n \in Good
  <2> HIDE DEF Good
  <2> QED  BY <1>2, <1>4, <1>5, Upwards
<1>7. Len(order) \in Good
  <2> HIDE DEF Good
  <2> QED  BY <1>2, <1>6
<1>8. f[Len(order)] = Copied(Len(order))
  BY <1>7
<1> QED
  BY <1>1, <1>8 DEF Buffered

\* The orders of the two loops
LEMMA OrdersAre ==
  ASSUME NEW n \in Nat
  PROVE  /\ Ascending(n) \in Seq(Nat) /\ Len(Ascending(n)) = n
         /\ \A k \in 1 .. n : Ascending(n)[k] = k - 1
         /\ Descending(n) \in Seq(Nat) /\ Len(Descending(n)) = n
         /\ \A k \in 1 .. n : Descending(n)[k] = n - k
<1>1. \A k \in 1 .. n : k - 1 \in Nat /\ n - k \in Nat
  OBVIOUS
<1> QED
  BY <1>1 DEF Ascending, Descending

\* ... and of all bytes it is what the property names.
LEMMA CopyOfAll ==
  ASSUME mem \in Memories, NEW d \in Addresses, NEW s \in Addresses, NEW n \in Nat,
         Inside(d, n), Inside(s, n),
         NEW order \in Seq(Nat), Len(order) = n,
         \A k \in 1 .. n : order[k] < n,
         \A i \in 0 .. n - 1 : \E k \in 1 .. n : order[k] = i,
         \A j, k \in 1 .. n : j < k => d + order[j] # s + order[k]
  PROVE  Copy(mem, d, s, order) = Moved(d, s, n)
<1>1. d \in Nat /\ s \in Nat /\ Bytes \in Nat /\ d + n <= Bytes /\ s + n <= Bytes
  BY StringsAssumption DEF Addresses, Inside
<1>2. \A k \in 1 .. n : order[k] \in Nat /\ Inside(d, order[k] + 1) /\ Inside(s, order[k] + 1)
  <2>1. \A k \in 1 .. n : order[k] \in Nat /\ order[k] < n
    OBVIOUS
  <2> QED  BY <1>1, <2>1 DEF Inside
<1>3. Copy(mem, d, s, order) =
        [a \in Addresses |-> IF \E k \in 1 .. n : a = d + order[k]
                             THEN mem[s + (a - d)] ELSE mem[a]]
  <2>1. \A k \in 1 .. Len(order) : Inside(d, order[k] + 1) /\ Inside(s, order[k] + 1)
    BY <1>2
  <2>2. \A j, k \in 1 .. Len(order) : j < k => d + order[j] # s + order[k]
    OBVIOUS
  <2>3. Copy(mem, d, s, order) = Buffered(mem, d, s, order)
    BY <1>1, <2>1, <2>2, CopyInSafeOrder
  <2> QED  BY <2>3 DEF Buffered
<1>4. \A a \in Addresses : (\E k \in 1 .. n : a = d + order[k]) <=> a \in d .. d + n - 1
  <2> SUFFICES ASSUME NEW a \in Addresses
               PROVE  (\E k \in 1 .. n : a = d + order[k]) <=> a \in d .. d + n - 1
    OBVIOUS
  <2>1. a \in Nat
    BY <1>1 DEF Addresses
  <2>2. ASSUME a \in d .. d + n - 1
        PROVE  \E k \in 1 .. n : a = d + order[k]
    <3>1. PICK i \in 0 .. n - 1 : a = d + i
      <4>1. a - d \in 0 .. n - 1 /\ a = d + (a - d)
        BY <1>1, <2>1, <2>2
      <4> QED  BY <4>1
    <3>2. PICK k \in 1 .. n : order[k] = i
      BY <3>1
    <3> QED  BY <3>1, <3>2
  <2>3. ASSUME NEW k \in 1 .. n, a = d + order[k]
        PROVE  a \in d .. d + n - 1
    <3>1. order[k] \in Nat /\ order[k] < n
      BY <1>2
    <3> QED  BY <1>1, <2>1, <2>3, <3>1
  <2> QED  BY <2>2, <2>3
<1> QED
  BY <1>3, <1>4 DEF Moved

\* memmove chooses the order in which no byte is read too late.
LEMMA MemmoveIsExact ==
  ASSUME mem \in Memories, NEW d \in Addresses, NEW s \in Addresses, NEW n \in Nat,
         Inside(d, n), Inside(s, n)
  PROVE  AfterMemmove(d, s, n) = Moved(d, s, n)
<1>1. d \in Nat /\ s \in Nat
  BY StringsAssumption DEF Addresses
<1>2. CASE d < s
  <2>0. /\ Ascending(n) \in Seq(Nat) /\ Len(Ascending(n)) = n
        /\ \A k \in 1 .. n : Ascending(n)[k] = k - 1
    BY OrdersAre
  <2>1. \A i \in 0 .. n - 1 : i + 1 \in 1 .. n /\ Ascending(n)[i + 1] = i
    BY <2>0
  <2>2. \A j, k \in 1 .. n : j < k => d + Ascending(n)[j] # s + Ascending(n)[k]
    BY <1>1, <1>2, <2>0
  <2>3. \A k \in 1 .. n : Ascending(n)[k] < n
    BY <2>0
  <2>4. Copy(mem, d, s, Ascending(n)) = Moved(d, s, n)
    BY <2>1, <2>2, <2>3, <2>0, CopyOfAll
  <2> QED  BY <1>2, <2>4 DEF AfterMemmove
<1>3. CASE ~(d < s)
  <2>0. /\ Descending(n) \in Seq(Nat) /\ Len(Descending(n)) = n
        /\ \A k \in 1 .. n : Descending(n)[k] = n - k
    BY OrdersAre
  <2>1. \A i \in 0 .. n - 1 : n - i \in 1 .. n /\ Descending(n)[n - i] = i
    BY <2>0
  <2>2. \A j, k \in 1 .. n : j < k => d + Descending(n)[j] # s + Descending(n)[k]
    BY <1>1, <1>3, <2>0
  <2>3. \A k \in 1 .. n : Descending(n)[k] < n
    BY <2>0
  <2>4. Copy(mem, d, s, Descending(n)) = Moved(d, s, n)
    BY <2>1, <2>2, <2>3, <2>0, CopyOfAll
  <2> QED  BY <1>3, <2>4 DEF AfterMemmove
<1> QED
  BY <1>2, <1>3

\* memcpy does if the regions do not overlap.
LEMMA MemcpyIsExact ==
  ASSUME mem \in Memories, NEW d \in Addresses, NEW s \in Addresses, NEW n \in Nat,
         Inside(d, n), Inside(s, n), Disjoint(d, n, s, n)
  PROVE  AfterMemcpy(d, s, n) = Moved(d, s, n)
<1>1. d \in Nat /\ s \in Nat /\ Bytes \in Nat
  BY StringsAssumption DEF Addresses
<1>0. /\ Ascending(n) \in Seq(Nat) /\ Len(Ascending(n)) = n
      /\ \A k \in 1 .. n : Ascending(n)[k] = k - 1
  BY OrdersAre
<1>2. \A i \in 0 .. n - 1 : i + 1 \in 1 .. n /\ Ascending(n)[i + 1] = i
  BY <1>0
<1>3. \A j, k \in 1 .. n : j < k => d + Ascending(n)[j] # s + Ascending(n)[k]
  <2>1. \A j, k \in 1 .. n : d + (j - 1) # s + (k - 1)
    BY <1>1 DEF Disjoint
  <2> QED  BY <1>0, <2>1
<1>4. \A k \in 1 .. n : Ascending(n)[k] < n
  BY <1>0
<1>5. Copy(mem, d, s, Ascending(n)) = Moved(d, s, n)
  BY <1>2, <1>3, <1>4, <1>0, CopyOfAll
<1>6. Min({n, Bytes}) = n
  <2>1. n <= Bytes
    BY <1>1 DEF Inside
  <2>2. {n, Bytes} \in SUBSET Nat
    BY <1>1
  <2>3. Min({n, Bytes}) \in {n, Bytes} /\ Min({n, Bytes}) <= n
    BY <2>2, MinIs
  <2> QED  BY <1>1, <2>1, <2>3
<1> QED
  BY <1>5, <1>6 DEF AfterMemcpy

\* Whatever the memory holds, copies are exact.
LEMMA CopiesExact ==
  ASSUME mem \in Memories PROVE CopiesAreExact
<1>1. \A n \in 0 .. Bytes : n \in Nat
  BY StringsAssumption
<1> QED
  BY <1>1, MemmoveIsExact, MemcpyIsExact DEF CopiesAreExact

-----------------------------------------------------------------------------
(***************************************************************************)
(* strlen, memcmp and strcmp                                               *)
(***************************************************************************)
-----------------------------------------------------------------------------
(***************************************************************************)
(* Strings                                                                 *)
(***************************************************************************)

\* n is the length of the string at s in memory m.
HasLength(m, s, n) ==
  /\ s + n \in Addresses /\ m[s + n] = NUL
  /\ \A i \in 0 .. n - 1 : m[s + i] # NUL

\* strlen finds it.
LEMMA StrlenIs ==
  ASSUME NEW s \in Addresses, IsString(s)
  PROVE  Strlen(s) \in Nat /\ HasLength(mem, s, Strlen(s))
<1> DEFINE Ends == {n \in 0 .. Bytes - 1 - s : mem[s + n] = NUL}
<1>1. s \in Nat /\ Bytes \in Nat
  BY StringsAssumption DEF Addresses
<1>2. Ends # {}
  <2>1. PICK e \in s .. Bytes - 1 : mem[e] = NUL
    BY DEF IsString
  <2>2. e - s \in 0 .. Bytes - 1 - s /\ s + (e - s) = e
    BY <1>1
  <2> QED  BY <2>1, <2>2
<1>3. Ends \in SUBSET Nat
  BY <1>1
<1>4. Min(Ends) \in Ends /\ \A n \in Ends : Min(Ends) <= n
  <2> HIDE DEF Ends
  <2> QED  BY <1>2, <1>3, MinIs
<1>5. Strlen(s) = Min(Ends)
  BY DEF Strlen
<1>6. ASSUME NEW i \in 0 .. Min(Ends) - 1, mem[s + i] = NUL
      PROVE  FALSE
  <2>1. Min(Ends) \in 0 .. Bytes - 1 - s
    BY <1>4
  <2>2. i \in Ends
    BY <1>1, <1>6, <2>1
  <2>3. Min(Ends) <= i
    BY <1>4, <2>2
  <2> QED  BY <2>1, <2>3
<1>7. Min(Ends) \in Nat /\ s + Min(Ends) \in Addresses /\ mem[s + Min(Ends)] = NUL
  BY <1>1, <1>4 DEF Addresses
<1> QED
  BY <1>5, <1>6, <1>7 DEF HasLength

\* A string is its characters.
LEMMA TextIs ==
  ASSUME NEW m, NEW s \in Addresses, NEW n \in Nat, HasLength(m, s, n)
  PROVE  Text(m, s) = [i \in 1 .. n |-> m[s + i - 1]]
<1> DEFINE Ends == {a \in s .. Bytes - 1 : m[a] = NUL}
<1>1. s \in Nat /\ Bytes \in Nat /\ s + n <= Bytes - 1
  BY StringsAssumption DEF Addresses, HasLength
<1>2. s + n \in Ends
  BY <1>1 DEF HasLength
<1>3. \A a \in Ends : s + n <= a
  <2> SUFFICES ASSUME NEW a \in Ends, a < s + n
               PROVE  FALSE
    BY <1>1
  <2>1. a - s \in 0 .. n - 1 /\ s + (a - s) = a
    BY <1>1
  <2>2. m[s + (a - s)] # NUL
    BY <2>1 DEF HasLength
  <2> QED  BY <2>1, <2>2
<1>4. Min(Ends) = s + n
  <2>1. Ends \in SUBSET Nat
    BY <1>1
  <2>2. Min(Ends) \in Ends /\ Min(Ends) <= s + n
    <3> HIDE DEF Ends
    <3> QED  BY <1>2, <2>1, MinIs
  <2>3. s + n <= Min(Ends)
    <3> HIDE DEF Ends
    <3> QED  BY <1>3, <2>2
  <2>4. Min(Ends) \in Nat
    <3> HIDE DEF Ends
    <3> QED  BY <2>1, <2>2
  <2> QED  BY <1>1, <2>2, <2>3, <2>4
<1>5. Text(m, s) = [i \in 1 .. Min(Ends) - s |-> m[s + i - 1]]
  BY DEF Text
<1>6. Min(Ends) - s = n
  <2> HIDE DEF Ends
  <2> QED  BY <1>1, <1>4
<1> QED
  <2> HIDE DEF Ends
  <2> QED  BY <1>5, <1>6

\* n characters are the same.
Agree(l, r, n) == \A i \in 0 .. n - 1 : mem[l + i] = mem[r + i]

\* A char is a number, another one for each byte.
LEMMA SignedChars ==
  ASSUME NEW a \in Chars, NEW b \in Chars
  PROVE  /\ Signed(a) \in Int /\ Signed(b) \in Int
         /\ Signed(a) = Signed(b) <=> a = b
BY StringsAssumption, SMT DEF Signed, Chars

\* memcmp is decided by the first difference, if there is one.
LEMMA MemcmpIs ==
  ASSUME mem \in Memories, NEW l \in Nat, NEW r \in Nat, NEW n \in Nat,
         Inside(l, n), Inside(r, n)
  PROVE  \/ Agree(l, r, n) /\ Memcmp(l, r, n) = 0
         \/ \E d \in 0 .. n - 1 :
              /\ Agree(l, r, d) /\ mem[l + d] # mem[r + d]
              /\ Memcmp(l, r, n) = Signed(mem[l + d]) - Signed(mem[r + d])
<1> DEFINE D == {i \in 0 .. n - 1 : /\ Inside(l, i + 1) /\ Inside(r, i + 1)
                                    /\ mem[l + i] # mem[r + i]}
<1>1. D = {i \in 0 .. n - 1 : mem[l + i] # mem[r + i]}
  BY StringsAssumption DEF Inside
<1>2. Memcmp(l, r, n) = IF D = {} THEN 0 ELSE Signed(mem[l + Min(D)]) - Signed(mem[r + Min(D)])
  BY DEF Memcmp
<1>3. CASE D = {}
  BY <1>1, <1>2, <1>3 DEF Agree
<1>4. CASE D # {}
  <2>1. Min(D) \in D /\ \A i \in D : Min(D) <= i
    <3>1. D \in SUBSET Nat
      OBVIOUS
    <3> HIDE DEF D
    <3> QED  BY <1>4, <3>1, MinIs
  <2>2. PICK d \in D : d = Min(D)
    BY <2>1
  <2>3. d \in 0 .. n - 1 /\ mem[l + d] # mem[r + d]
    BY <1>1, <2>2
  <2>4. ASSUME NEW i \in 0 .. d - 1, mem[l + i] # mem[r + i]
        PROVE  FALSE
    <3>1. i \in 0 .. n - 1
      BY <2>3
    <3>2. i \in D
      BY <1>1, <2>4, <3>1
    <3>3. d <= i
      BY <2>1, <2>2, <3>2
    <3> QED  BY <2>3, <3>3
  <2>5. Memcmp(l, r, n) = Signed(mem[l + d]) - Signed(mem[r + d])
    BY <1>2, <1>4, <2>2
  <2> QED  BY <2>3, <2>4, <2>5 DEF Agree
<1> QED
  BY <1>3, <1>4

\* What two strings' characters are to each other, in memory
LEMMA BelowIs ==
  ASSUME NEW l \in Addresses, NEW r \in Addresses, IsString(l), IsString(r),
         NEW n \in Nat, n = Min({Strlen(l), Strlen(r)})
  PROVE  Below(Text(mem, l), Text(mem, r)) <=>
           \E d \in 0 .. n - 1 :
             /\ Signed(mem[l + d]) < Signed(mem[r + d])
             /\ \A i \in 0 .. d - 1 : mem[l + i] = mem[r + i]
<1> DEFINE t == Text(mem, l)  u == Text(mem, r)
<1>1. l \in Nat /\ r \in Nat /\ Bytes \in Nat
  BY StringsAssumption DEF Addresses
<1>2. Strlen(l) \in Nat /\ Strlen(r) \in Nat
  BY StrlenIs
<1>3. /\ t = [i \in 1 .. Strlen(l) |-> mem[l + i - 1]]
      /\ u = [i \in 1 .. Strlen(r) |-> mem[r + i - 1]]
  BY StrlenIs, TextIs
<1>4. Len(t) = Strlen(l) /\ Len(u) = Strlen(r)
  BY <1>2, <1>3
<1>5. n <= Strlen(l) /\ n <= Strlen(r)
  <2>1. {Strlen(l), Strlen(r)} \in SUBSET Nat
    BY <1>2
  <2> QED  BY <2>1, MinIs
<1>6. \A i \in 1 .. n : t[i] = mem[l + (i - 1)] /\ u[i] = mem[r + (i - 1)]
  <2> SUFFICES ASSUME NEW i \in 1 .. n
               PROVE  t[i] = mem[l + (i - 1)] /\ u[i] = mem[r + (i - 1)]
    OBVIOUS
  <2>1. i \in 1 .. Strlen(l) /\ i \in 1 .. Strlen(r)
    BY <1>2, <1>5
  <2>2. l + i - 1 = l + (i - 1) /\ r + i - 1 = r + (i - 1)
    BY <1>1
  <2> QED  BY <1>3, <2>1, <2>2
<1>7. Below(t, u) <=> \E i \in 1 .. n : Signed(t[i]) < Signed(u[i]) /\ \A j \in 1 .. i - 1 : t[j] = u[j]
  <2> HIDE DEF t, u
  <2> QED  BY <1>4 DEF Below
<1> HIDE DEF t, u
<1>8. ASSUME NEW i \in 1 .. n, Signed(t[i]) < Signed(u[i]), \A j \in 1 .. i - 1 : t[j] = u[j]
      PROVE  \E d \in 0 .. n - 1 :
               /\ Signed(mem[l + d]) < Signed(mem[r + d])
               /\ \A k \in 0 .. d - 1 : mem[l + k] = mem[r + k]
  <2>1. i - 1 \in 0 .. n - 1 /\ Signed(mem[l + (i - 1)]) < Signed(mem[r + (i - 1)])
    <3>1. t[i] = mem[l + (i - 1)] /\ u[i] = mem[r + (i - 1)]
      BY <1>6
    <3>2. i - 1 \in 0 .. n - 1
      OBVIOUS
    <3> QED  BY <1>8, <3>1, <3>2
  <2>2. ASSUME NEW k \in 0 .. (i - 1) - 1
        PROVE  mem[l + k] = mem[r + k]
    <3>1. k + 1 \in 1 .. i - 1 /\ k + 1 \in 1 .. n /\ (k + 1) - 1 = k
      OBVIOUS
    <3>2. t[k + 1] = u[k + 1]
      BY <1>8, <3>1
    <3> QED  BY <1>6, <3>1, <3>2
  <2> QED  BY <2>1, <2>2
<1>9. ASSUME NEW d \in 0 .. n - 1, Signed(mem[l + d]) < Signed(mem[r + d]),
             \A k \in 0 .. d - 1 : mem[l + k] = mem[r + k]
      PROVE  \E i \in 1 .. n : Signed(t[i]) < Signed(u[i]) /\ \A j \in 1 .. i - 1 : t[j] = u[j]
  <2>1. d + 1 \in 1 .. n /\ (d + 1) - 1 = d
    OBVIOUS
  <2>2. Signed(t[d + 1]) < Signed(u[d + 1])
    BY <1>6, <1>9, <2>1
  <2>3. ASSUME NEW j \in 1 .. (d + 1) - 1
        PROVE  t[j] = u[j]
    <3>1. j - 1 \in 0 .. d - 1 /\ j \in 1 .. n
      OBVIOUS
    <3>2. mem[l + (j - 1)] = mem[r + (j - 1)]
      BY <1>9, <3>1
    <3> QED  BY <1>6, <3>1, <3>2
  <2> QED  BY <2>1, <2>2, <2>3
<1>10. Below(t, u) <=> \E d \in 0 .. n - 1 :
                         /\ Signed(mem[l + d]) < Signed(mem[r + d])
                         /\ \A i \in 0 .. d - 1 : mem[l + i] = mem[r + i]
  BY <1>7, <1>8, <1>9
<1> QED
  BY <1>10 DEF t, u

\* One of two strings begins with the other if they are the same as far as
\* both go.
LEMMA PrefixIs ==
  ASSUME mem \in Memories,
         NEW l \in Addresses, NEW r \in Addresses, IsString(l), IsString(r),
         NEW n \in Nat, n = Min({Strlen(l), Strlen(r)})
  PROVE  \/ IsPrefix(Text(mem, l), Text(mem, r))
         \/ IsPrefix(Text(mem, r), Text(mem, l))
         <=> Agree(l, r, n)
<1>1. l \in Nat /\ r \in Nat /\ Bytes \in Nat
  BY StringsAssumption DEF Addresses
<1>2. Strlen(l) \in Nat /\ Strlen(r) \in Nat
  BY StrlenIs
<1>3. /\ Text(mem, l) = [i \in 1 .. Strlen(l) |-> mem[l + i - 1]]
      /\ Text(mem, r) = [i \in 1 .. Strlen(r) |-> mem[r + i - 1]]
  BY StrlenIs, TextIs
<1>4. n <= Strlen(l) /\ n <= Strlen(r) /\ (n = Strlen(l) \/ n = Strlen(r))
  <2>1. {Strlen(l), Strlen(r)} \in SUBSET Nat
    BY <1>2
  <2> QED  BY <2>1, MinIs
<1>5. /\ l + Strlen(l) < Bytes /\ r + Strlen(r) < Bytes
  BY <1>1, StrlenIs DEF HasLength, Addresses
<1>6. ASSUME NEW a \in Addresses, NEW b \in Addresses, NEW p \in Nat, NEW q \in Nat,
             a + p < Bytes, b + q < Bytes,
             NEW t, t = [i \in 1 .. p |-> mem[a + i - 1]],
             NEW u, u = [i \in 1 .. q |-> mem[b + i - 1]]
      PROVE  IsPrefix(t, u) <=> p <= q /\ Agree(a, b, p)
  <2>1. a \in Nat /\ b \in Nat
    BY DEF Addresses
  <2>2. t \in Seq(Chars) /\ Len(t) = p
    <3>1. \A i \in 1 .. p : a + i - 1 \in Addresses
      BY <1>1, <1>6, <2>1 DEF Addresses
    <3>2. t \in [1 .. p -> Chars]
      BY <1>6, <3>1 DEF Memories
    <3> QED  BY <3>2, <1>6
  <2>3. u \in Seq(Chars) /\ Len(u) = q
    <3>1. \A i \in 1 .. q : b + i - 1 \in Addresses
      BY <1>1, <1>6, <2>1 DEF Addresses
    <3>2. u \in [1 .. q -> Chars]
      BY <1>6, <3>1 DEF Memories
    <3> QED  BY <3>2, <1>6
  <2>4. Agree(a, b, p) <=> \A i \in 1 .. p : mem[a + i - 1] = mem[b + i - 1]
    <3>1. ASSUME Agree(a, b, p), NEW i \in 1 .. p
          PROVE  mem[a + i - 1] = mem[b + i - 1]
      <4>1. i - 1 \in 0 .. p - 1 /\ a + (i - 1) = a + i - 1 /\ b + (i - 1) = b + i - 1
        BY <2>1
      <4> QED  BY <3>1, <4>1 DEF Agree
    <3>2. ASSUME \A i \in 1 .. p : mem[a + i - 1] = mem[b + i - 1], NEW k \in 0 .. p - 1
          PROVE  mem[a + k] = mem[b + k]
      <4>1. k + 1 \in 1 .. p /\ a + (k + 1) - 1 = a + k /\ b + (k + 1) - 1 = b + k
        BY <2>1
      <4> QED  BY <3>2, <4>1
    <3> QED  BY <3>1, <3>2 DEF Agree
  <2>5. SubSeq(t, 1, p) = t
    BY <2>2, SubSeqFull
  <2>6. IsPrefix(t, u) <=> p <= q /\ t = SubSeq(u, 1, p)
    BY <2>2, <2>3, <2>5 DEF IsPrefix
  <2>7. ASSUME p <= q
        PROVE  t = SubSeq(u, 1, p) <=> Agree(a, b, p)
    <3>1. 1 .. p \subseteq 1 .. q
      BY <2>7
    <3>2. SubSeq(u, 1, p) = [i \in 1 .. p |-> u[i]]
      BY <2>3, <2>7, <3>1, SMTT(20)
    <3>3. \A i \in 1 .. p : u[i] = mem[b + i - 1]
      BY <1>6, <3>1
    <3>4. SubSeq(u, 1, p) = [i \in 1 .. p |-> mem[b + i - 1]]
      BY <3>2, <3>3
    <3> QED  BY <1>6, <2>4, <3>4
  <2> QED  BY <2>6, <2>7
<1>7. IsPrefix(Text(mem, l), Text(mem, r)) <=>
        Strlen(l) <= Strlen(r) /\ Agree(l, r, Strlen(l))
  BY <1>2, <1>3, <1>5, <1>6
<1>8. IsPrefix(Text(mem, r), Text(mem, l)) <=>
        Strlen(r) <= Strlen(l) /\ Agree(r, l, Strlen(r))
  BY <1>2, <1>3, <1>5, <1>6
<1>9. Agree(r, l, n) <=> Agree(l, r, n)
  BY DEF Agree
<1> QED
  BY <1>2, <1>4, <1>7, <1>8, <1>9

\* strcmp orders strings by their first difference.
LEMMA ComparisonExact ==
  ASSUME mem \in Memories
  PROVE  ComparisonIsLexicographic
<1> SUFFICES ASSUME NEW l \in Addresses, NEW r \in Addresses, IsString(l), IsString(r)
             PROVE  /\ Strcmp(l, r) < 0 <=> Below(Text(mem, l), Text(mem, r))
                    /\ Strcmp(l, r) > 0 <=> Below(Text(mem, r), Text(mem, l))
                    /\ Strcmp(l, r) = 0 <=> \/ IsPrefix(Text(mem, l), Text(mem, r))
                                            \/ IsPrefix(Text(mem, r), Text(mem, l))
  BY Zenon DEF ComparisonIsLexicographic
<1> DEFINE n == Min({Strlen(l), Strlen(r)})
<1>1. l \in Nat /\ r \in Nat /\ Bytes \in Nat
  BY StringsAssumption DEF Addresses
<1>2. /\ Strlen(l) \in Nat /\ Strlen(r) \in Nat
      /\ l + Strlen(l) < Bytes /\ r + Strlen(r) < Bytes
  BY <1>1, StrlenIs DEF HasLength, Addresses
<1>3. n \in Nat /\ n <= Strlen(l) /\ n <= Strlen(r)
  <2>1. {Strlen(l), Strlen(r)} \in SUBSET Nat
    BY <1>2
  <2> QED  BY <1>2, <2>1, MinIs
<1>4. Inside(l, n) /\ Inside(r, n)
  <2> HIDE DEF n
  <2> QED  BY <1>1, <1>2, <1>3 DEF Inside
<1>5. Strcmp(l, r) = Memcmp(l, r, n)
  BY DEF Strcmp
<1>6. n = Min({Strlen(r), Strlen(l)})
  <2>1. {Strlen(r), Strlen(l)} = {Strlen(l), Strlen(r)}
    OBVIOUS
  <2> QED  BY <2>1
<1>7. Below(Text(mem, l), Text(mem, r)) <=>
        \E d \in 0 .. n - 1 : /\ Signed(mem[l + d]) < Signed(mem[r + d])
                              /\ \A i \in 0 .. d - 1 : mem[l + i] = mem[r + i]
  BY <1>3, BelowIs
<1>8. Below(Text(mem, r), Text(mem, l)) <=>
        \E d \in 0 .. n - 1 : /\ Signed(mem[r + d]) < Signed(mem[l + d])
                              /\ \A i \in 0 .. d - 1 : mem[r + i] = mem[l + i]
  <2> HIDE DEF n
  <2> QED  BY <1>3, <1>6, BelowIs
<1>14. n = Min({Strlen(l), Strlen(r)})
  OBVIOUS
<1>13. (\/ IsPrefix(Text(mem, l), Text(mem, r))
        \/ IsPrefix(Text(mem, r), Text(mem, l)))
       <=> Agree(l, r, n)
  <2> HIDE DEF n
  <2> QED  BY <1>3, <1>14, PrefixIs
<1> HIDE DEF n
<1>9. \A i \in 0 .. n - 1 :
        /\ Signed(mem[l + i]) \in Int /\ Signed(mem[r + i]) \in Int
        /\ Signed(mem[l + i]) = Signed(mem[r + i]) <=> mem[l + i] = mem[r + i]
  <2>1. \A i \in 0 .. n - 1 : l + i \in Addresses /\ r + i \in Addresses
    BY <1>1, <1>3, <1>4 DEF Inside, Addresses
  <2> QED  BY <2>1, SignedChars DEF Memories
<1>10. CASE Agree(l, r, n) /\ Memcmp(l, r, n) = 0
  BY <1>5, <1>7, <1>8, <1>9, <1>10, <1>13 DEF Agree
<1>11. ASSUME NEW d \in 0 .. n - 1,
              \A i \in 0 .. d - 1 : mem[l + i] = mem[r + i],
              mem[l + d] # mem[r + d],
              Memcmp(l, r, n) = Signed(mem[l + d]) - Signed(mem[r + d])
       PROVE  /\ Strcmp(l, r) < 0 <=> Below(Text(mem, l), Text(mem, r))
              /\ Strcmp(l, r) > 0 <=> Below(Text(mem, r), Text(mem, l))
              /\ Strcmp(l, r) = 0 <=> \/ IsPrefix(Text(mem, l), Text(mem, r))
                                      \/ IsPrefix(Text(mem, r), Text(mem, l))
  <2>1. ASSUME NEW e \in 0 .. n - 1, mem[l + e] # mem[r + e],
               \A i \in 0 .. e - 1 : mem[l + i] = mem[r + i]
        PROVE  e = d
    <3>1. ~(e \in 0 .. d - 1) /\ ~(d \in 0 .. e - 1)
      BY <1>11, <2>1
    <3> QED  BY <1>3, <3>1
  <2>2. (\E e \in 0 .. n - 1 : /\ Signed(mem[l + e]) < Signed(mem[r + e])
                               /\ \A i \in 0 .. e - 1 : mem[l + i] = mem[r + i])
          <=> Signed(mem[l + d]) < Signed(mem[r + d])
    BY <1>9, <1>11, <2>1
  <2>3. (\E e \in 0 .. n - 1 : /\ Signed(mem[r + e]) < Signed(mem[l + e])
                               /\ \A i \in 0 .. e - 1 : mem[r + i] = mem[l + i])
          <=> Signed(mem[r + d]) < Signed(mem[l + d])
    BY <1>9, <1>11, <2>1
  <2>4. /\ Signed(mem[l + d]) - Signed(mem[r + d]) < 0 <=> Signed(mem[l + d]) < Signed(mem[r + d])
        /\ Signed(mem[l + d]) - Signed(mem[r + d]) > 0 <=> Signed(mem[r + d]) < Signed(mem[l + d])
    BY <1>9
  <2>5. Strcmp(l, r) # 0
    BY <1>5, <1>9, <1>11
  <2>6. ~ Agree(l, r, n)
    BY <1>11 DEF Agree
  <2> QED  BY <1>5, <1>7, <1>8, <1>11, <1>13, <2>2, <2>3, <2>4, <2>5, <2>6
<1>12. \/ Agree(l, r, n) /\ Memcmp(l, r, n) = 0
       \/ \E d \in 0 .. n - 1 :
            /\ Agree(l, r, d) /\ mem[l + d] # mem[r + d]
            /\ Memcmp(l, r, n) = Signed(mem[l + d]) - Signed(mem[r + d])
  BY <1>1, <1>3, <1>4, MemcmpIs
<1> QED
  BY <1>10, <1>11, <1>12 DEF Agree

-----------------------------------------------------------------------------
(***************************************************************************)
(* strncat                                                                 *)
(***************************************************************************)
\* The memory strncat leaves
LEMMA StrncatIs ==
  ASSUME mem \in Memories, NEW l \in Addresses, NEW r \in Addresses, NEW n \in 0 .. Bytes,
         Concatenable(l, r, n), NEW d, d = l + Strlen(l)
  PROVE  /\ d \in Addresses /\ d + n \in Addresses
         /\ AfterStrncat(l, r, n) =
              [a \in Addresses |-> IF a = d + n THEN NUL
                                   ELSE IF a \in d .. d + n - 1 THEN mem[r + (a - d)]
                                   ELSE mem[a]]
         /\ d + n + 1 <= r \/ (r + n <= l /\ r + Strlen(r) < l)
<1>1. /\ l \in Nat /\ r \in Nat /\ n \in Nat
      /\ Bytes \in Nat /\ SizeModulus \in Nat /\ Bytes < SizeModulus
  BY StringsAssumption DEF Addresses
<1>2. Strlen(l) \in Nat /\ Strlen(r) \in Nat
  BY StrlenIs DEF Concatenable
<1>3. d \in Addresses /\ d + n \in Addresses
  BY <1>1, <1>2 DEF Concatenable, Inside, Addresses
<1>4. d + n + 1 <= r \/ (r + n <= l /\ r + Strlen(r) < l)
  <2> DEFINE big == Max({n, Strlen(r) + 1})
  <2>1. n <= big /\ Strlen(r) + 1 <= big /\ big \in Nat
    <3>1. CASE n <= Strlen(r) + 1
      <4>1. big = Strlen(r) + 1
        BY <1>1, <1>2, <3>1 DEF Max
      <4> QED  BY <1>1, <1>2, <3>1, <4>1
    <3>2. CASE ~(n <= Strlen(r) + 1)
      <4>1. big = n
        BY <1>1, <1>2, <3>2 DEF Max
      <4> QED  BY <1>1, <1>2, <3>2, <4>1
    <3> QED  BY <3>1, <3>2
  <2>2. l + (Strlen(l) + n + 1) <= r \/ r + big <= l
    BY DEF Concatenable, Disjoint
  <2> HIDE DEF big
  <2> QED  BY <1>1, <1>2, <2>1, <2>2
<1>5. CopyLength(n + 1) = n
  BY <1>1 DEF CopyLength
<1>6. AfterMemcpy(d, r, n) = Moved(d, r, n)
  <2>1. Disjoint(d, n, r, n)
    BY <1>1, <1>2, <1>4 DEF Disjoint
  <2>2. Inside(d, n) /\ Inside(r, n)
    BY <1>1, <1>2 DEF Concatenable, Inside
  <2> QED  BY <1>1, <1>3, <2>1, <2>2, MemcpyIsExact
<1>7. AfterStrncat(l, r, n) = [Moved(d, r, n) EXCEPT ![d + n] = NUL]
  <2>1. d + (n + 1) - 1 = d + n
    BY <1>1, <1>2
  <2> QED  BY <1>5, <1>6, <2>1 DEF AfterStrncat, AfterStrncpy
<1>8. AfterStrncat(l, r, n) =
        [a \in Addresses |-> IF a = d + n THEN NUL
                             ELSE IF a \in d .. d + n - 1 THEN mem[r + (a - d)]
                             ELSE mem[a]]
  BY <1>3, <1>7 DEF Moved
<1> QED
  BY <1>3, <1>4, <1>8

\* What stands behind a string's beginning, and what was in front of it
LEMMA ConcatenationIs ==
  ASSUME mem \in Memories, NEW l \in Addresses, NEW r \in Addresses, NEW n \in 0 .. Bytes,
         Concatenable(l, r, n), NEW k, k = Min({n, Strlen(r)}),
         NEW after, after = AfterStrncat(l, r, n)
  PROVE  /\ k \in Nat /\ k <= Strlen(r)
         /\ HasLength(after, l, Strlen(l) + k)
         /\ \A i \in 0 .. Strlen(l) - 1 : after[l + i] = mem[l + i]
         /\ \A i \in 0 .. k - 1 : after[l + Strlen(l) + i] = mem[r + i]
<1> DEFINE d == l + Strlen(l)
<1>1. l \in Nat /\ r \in Nat /\ n \in Nat /\ Bytes \in Nat
  BY StringsAssumption DEF Addresses
<1>2. /\ Strlen(l) \in Nat /\ Strlen(r) \in Nat
      /\ HasLength(mem, l, Strlen(l)) /\ HasLength(mem, r, Strlen(r))
  BY StrlenIs DEF Concatenable
<1>3. /\ d \in Addresses /\ d + n \in Addresses
      /\ after = [a \in Addresses |-> IF a = d + n THEN NUL
                                      ELSE IF a \in d .. d + n - 1 THEN mem[r + (a - d)]
                                      ELSE mem[a]]
  BY StrncatIs
<1>4. k \in Nat /\ k <= n /\ k <= Strlen(r) /\ (k = n \/ k = Strlen(r))
  <2>1. {n, Strlen(r)} \in SUBSET Nat
    BY <1>1, <1>2
  <2> QED  BY <1>1, <1>2, <2>1, MinIs
<1>5. ASSUME NEW i \in 0 .. Strlen(l) - 1
      PROVE  after[l + i] = mem[l + i]
  <2>1. l + i \in Addresses /\ l + i < d
    BY <1>1, <1>2, <1>3, SMTT(20) DEF Addresses
  <2> HIDE DEF d
  <2> QED  BY <1>1, <1>2, <1>3, <2>1 DEF Addresses
<1>6. ASSUME NEW i \in 0 .. n - 1
      PROVE  after[d + i] = mem[r + i]
  <2>1. d + i \in Addresses /\ d + i # d + n /\ d + i \in d .. d + n - 1 /\ (d + i) - d = i
    BY <1>1, <1>2, <1>3, SMTT(20) DEF Addresses
  <2> HIDE DEF d
  <2> QED  BY <1>3, <2>1
<1>7. after[d + k] = NUL
  <2>1. CASE k = n
    <3> HIDE DEF d
    <3> QED  BY <1>3, <2>1
  <2>2. CASE k # n
    <3>1. k \in 0 .. n - 1 /\ k = Strlen(r)
      BY <1>1, <1>4, <2>2
    <3>2. mem[r + k] = NUL
      BY <1>2, <3>1 DEF HasLength
    <3> HIDE DEF d
    <3> QED  BY <1>6, <3>1, <3>2
  <2> QED  BY <2>1, <2>2
<1>11. PICK m \in Nat : m = Strlen(l) + k
  BY <1>2, <1>4
<1>8. ASSUME NEW i \in 0 .. m - 1
      PROVE  after[l + i] # NUL
  <2>1. CASE i < Strlen(l)
    <3>1. i \in 0 .. Strlen(l) - 1
      BY <1>2, <2>1
    <3>2. mem[l + i] # NUL
      BY <1>2, <3>1 DEF HasLength
    <3> QED  BY <1>5, <3>1, <3>2
  <2>2. CASE ~(i < Strlen(l))
    <3>1. PICK j \in 0 .. k - 1 : i = Strlen(l) + j
      <4>1. i - Strlen(l) \in 0 .. k - 1 /\ i = Strlen(l) + (i - Strlen(l))
        BY <1>2, <1>4, <1>11, <2>2
      <4> QED  BY <4>1
    <3>2. j \in 0 .. n - 1 /\ j \in 0 .. Strlen(r) - 1 /\ l + i = d + j
      BY <1>1, <1>2, <1>4, <3>1
    <3>3. mem[r + j] # NUL
      BY <1>2, <3>2 DEF HasLength
    <3> HIDE DEF d
    <3> QED  BY <1>6, <3>2, <3>3
  <2> QED  BY <2>1, <2>2
<1>9. HasLength(after, l, Strlen(l) + k)
  <2>1. l + m = d + k /\ d + k \in Addresses
    BY <1>1, <1>2, <1>3, <1>4, <1>11, SMTT(20) DEF Addresses
  <2>2. HasLength(after, l, m)
    BY <1>7, <1>8, <2>1 DEF HasLength
  <2> QED  BY <1>11, <2>2
<1>10. \A i \in 0 .. k - 1 : i \in 0 .. n - 1
  BY <1>1, <1>4
<1> QED
  BY <1>4, <1>5, <1>6, <1>9, <1>10

\* A sequence followed by another
LEMMA Joined ==
  ASSUME NEW S, NEW s \in Seq(S), NEW t \in Seq(S)
  PROVE  s \o t = [i \in 1 .. Len(s) + Len(t) |->
                     IF i <= Len(s) THEN s[i] ELSE t[i - Len(s)]]
<1> DEFINE u == s \o t
<1>1. /\ u \in Seq(S) /\ Len(u) = Len(s) + Len(t)
      /\ \A i \in 1 .. Len(s) + Len(t) : u[i] = IF i <= Len(s) THEN s[i] ELSE t[i - Len(s)]
  BY ConcatProperties
<1>2. u = [i \in 1 .. Len(u) |-> u[i]]
  <2>1. DOMAIN u = 1 .. Len(u) /\ u = [i \in DOMAIN u |-> u[i]]
    <3> HIDE DEF u
    <3> QED  BY <1>1
  <2> QED  BY <2>1, Zenon
<1> HIDE DEF u
<1>3. u = [i \in 1 .. Len(s) + Len(t) |-> IF i <= Len(s) THEN s[i] ELSE t[i - Len(s)]]
  BY <1>1, <1>2
<1> QED
  BY <1>3 DEF u

\* strncat leaves the first string, the characters taken from the second, and
\* the end.
LEMMA ConcatenationExact ==
  ASSUME mem \in Memories
  PROVE  ConcatenationIsExact
<1> SUFFICES ASSUME NEW l \in Addresses, NEW r \in Addresses, NEW n \in 0 .. Bytes,
                    Concatenable(l, r, n)
             PROVE  LET after == AfterStrncat(l, r, n)
                        more  == Text(mem, r)
                    IN  /\ Text(after, l) = Text(mem, l) \o SubSeq(more, 1, Min({n, Len(more)}))
                        /\ \A a \in Addresses :
                             a \notin l + Strlen(l) .. l + Strlen(l) + n => after[a] = mem[a]
  BY DEF ConcatenationIsExact
<1> DEFINE after == AfterStrncat(l, r, n)
           more  == Text(mem, r)
<1> SUFFICES /\ Text(after, l) = Text(mem, l) \o SubSeq(more, 1, Min({n, Len(more)}))
             /\ \A a \in Addresses :
                  a \notin l + Strlen(l) .. l + Strlen(l) + n => after[a] = mem[a]
  OBVIOUS
<1>1. l \in Nat /\ r \in Nat /\ n \in Nat
  BY StringsAssumption DEF Addresses
<1>2. /\ Strlen(l) \in Nat /\ Strlen(r) \in Nat
      /\ HasLength(mem, l, Strlen(l)) /\ HasLength(mem, r, Strlen(r))
  BY StrlenIs DEF Concatenable
<1>3. more = [i \in 1 .. Strlen(r) |-> mem[r + i - 1]] /\ Len(more) = Strlen(r)
  <2>1. more = [i \in 1 .. Strlen(r) |-> mem[r + i - 1]]
    BY <1>2, TextIs
  <2> QED  BY <1>2, <2>1
<1> DEFINE k == Min({n, Strlen(r)})
           first == Text(mem, l)
           taken == SubSeq(more, 1, k)
<1>4. first = [i \in 1 .. Strlen(l) |-> mem[l + i - 1]] /\ Len(first) = Strlen(l)
  <2>1. first = [i \in 1 .. Strlen(l) |-> mem[l + i - 1]]
    BY <1>2, TextIs
  <2> QED  BY <1>2, <2>1
<1>5. /\ k \in Nat /\ k <= Strlen(r)
      /\ HasLength(after, l, Strlen(l) + k)
      /\ \A i \in 0 .. Strlen(l) - 1 : after[l + i] = mem[l + i]
      /\ \A i \in 0 .. k - 1 : after[l + Strlen(l) + i] = mem[r + i]
  <2>1. k = Min({n, Strlen(r)}) /\ after = AfterStrncat(l, r, n)
    OBVIOUS
  <2> HIDE DEF k, after
  <2> QED  BY <2>1, ConcatenationIs
<1> HIDE DEF k, after, more
<1>6. taken = [i \in 1 .. k |-> mem[r + i - 1]] /\ Len(taken) = k
  <2>1. taken = [i \in 1 .. k |-> more[i]]
    BY <1>2, <1>3, <1>5
  <2>2. \A i \in 1 .. k : more[i] = mem[r + i - 1]
    BY <1>2, <1>3, <1>5
  <2>3. taken = [i \in 1 .. k |-> mem[r + i - 1]]
    <3> HIDE DEF taken
    <3> QED  BY <2>1, <2>2
  <2> HIDE DEF taken
  <2> QED  BY <1>5, <2>3
<1>7. Text(after, l) = [i \in 1 .. Strlen(l) + k |-> after[l + i - 1]]
  <2>1. Strlen(l) + k \in Nat
    BY <1>2, <1>5
  <2> QED  BY <1>5, <2>1, TextIs
<1> HIDE DEF first, taken
<1>8. first \o taken = [i \in 1 .. Strlen(l) + k |->
                          IF i <= Strlen(l) THEN first[i] ELSE taken[i - Strlen(l)]]
  <2>1. \A i \in 1 .. Strlen(l) : l + i - 1 \in Addresses
    BY <1>1, <1>2, StringsAssumption DEF HasLength, Addresses
  <2>2. \A i \in 1 .. k : r + i - 1 \in Addresses
    BY <1>1, <1>2, <1>5, StringsAssumption DEF HasLength, Addresses
  <2>3. first \in Seq(Chars) /\ taken \in Seq(Chars)
    <3>1. \A i \in 1 .. Strlen(l) : mem[l + i - 1] \in Chars
      BY <2>1 DEF Memories
    <3>2. \A i \in 1 .. k : mem[r + i - 1] \in Chars
      BY <2>2 DEF Memories
    <3>3. first \in Seq(Chars)
      BY <1>2, <1>4, <3>1
    <3>4. taken \in Seq(Chars)
      BY <1>5, <1>6, <3>2
    <3> QED  BY <3>3, <3>4
  <2>4. first \o taken = [i \in 1 .. Len(first) + Len(taken) |->
                            IF i <= Len(first) THEN first[i] ELSE taken[i - Len(first)]]
    BY <2>3, Joined
  <2>5. Len(first) = Strlen(l) /\ Len(taken) = k
    BY <1>4, <1>6
  <2> QED  BY <2>4, <2>5, Zenon
<1>9. ASSUME NEW i \in 1 .. Strlen(l) + k
      PROVE  after[l + i - 1] = IF i <= Strlen(l) THEN first[i] ELSE taken[i - Strlen(l)]
  <2>1. CASE i <= Strlen(l)
    <3>1. i - 1 \in 0 .. Strlen(l) - 1 /\ l + i - 1 = l + (i - 1) /\ i \in 1 .. Strlen(l)
      BY <1>1, <1>2, <2>1
    <3>2. after[l + (i - 1)] = mem[l + (i - 1)]
      BY <1>5, <3>1
    <3> QED  BY <1>4, <2>1, <3>1, <3>2
  <2>2. CASE ~(i <= Strlen(l))
    <3>1. PICK j \in 1 .. k : i = Strlen(l) + j
      <4>1. i - Strlen(l) \in 1 .. k /\ i = Strlen(l) + (i - Strlen(l))
        BY <1>2, <1>5, <2>2
      <4> QED  BY <4>1
    <3>2. /\ j - 1 \in 0 .. k - 1 /\ i - Strlen(l) = j
          /\ l + i - 1 = l + Strlen(l) + (j - 1) /\ r + j - 1 = r + (j - 1)
      BY <1>1, <1>2, <1>5, <3>1
    <3>3. after[l + Strlen(l) + (j - 1)] = mem[r + (j - 1)]
      BY <1>5, <3>2
    <3>4. taken[j] = mem[r + j - 1]
      BY <1>6, <3>1
    <3> QED  BY <2>2, <3>2, <3>3, <3>4
  <2> QED  BY <2>1, <2>2
<1>10. Text(after, l) = first \o taken
  BY <1>7, <1>8, <1>9
<1>11. ASSUME NEW a \in Addresses, a \notin l + Strlen(l) .. l + Strlen(l) + n
       PROVE  after[a] = mem[a]
  <2> DEFINE d == l + Strlen(l)
  <2>1. after = [b \in Addresses |-> IF b = d + n THEN NUL
                                     ELSE IF b \in d .. d + n - 1 THEN mem[r + (b - d)]
                                     ELSE mem[b]]
    BY StrncatIs DEF after
  <2>2. a # d + n /\ a \notin d .. d + n - 1
    BY <1>1, <1>2, <1>11
  <2> HIDE DEF d
  <2> QED  BY <2>1, <2>2
<1> QED
  BY <1>3, <1>10, <1>11 DEF k, first, taken

-----------------------------------------------------------------------------
(***************************************************************************)
(* strchr and strstr                                                       *)
(***************************************************************************)
\* Where strings start
Starts == {a \in Addresses : IsString(a)}

\* A string's tail is a string, and ends where it ends.
LEMMA TailIs ==
  ASSUME NEW h \in Starts, NEW i \in 0 .. Strlen(h)
  PROVE  h + i \in Starts /\ Strlen(h + i) = Strlen(h) - i
<1>1. h \in Nat /\ Bytes \in Nat /\ h \in Addresses /\ IsString(h)
  BY StringsAssumption DEF Addresses, Starts
<1>2. Strlen(h) \in Nat /\ HasLength(mem, h, Strlen(h))
  BY <1>1, StrlenIs
<1>3. h + i \in Addresses
  BY <1>1, <1>2 DEF HasLength, Addresses
<1>4. IsString(h + i)
  <2>1. h + Strlen(h) \in h + i .. Bytes - 1 /\ mem[h + Strlen(h)] = NUL
    BY <1>1, <1>2 DEF HasLength, Addresses
  <2> QED  BY <1>3, <2>1 DEF IsString
<1>5. PICK n \in Nat : n = Strlen(h + i)
  BY <1>3, <1>4, StrlenIs
<1>6. HasLength(mem, h + i, n)
  BY <1>3, <1>4, <1>5, StrlenIs
<1>7. ~(n < Strlen(h) - i)
  <2> SUFFICES ASSUME n < Strlen(h) - i
               PROVE  FALSE
    OBVIOUS
  <2>1. i + n \in 0 .. Strlen(h) - 1 /\ h + (i + n) = h + i + n
    BY <1>1, <1>2
  <2>2. mem[h + (i + n)] # NUL
    BY <1>2, <2>1 DEF HasLength
  <2> QED  BY <1>6, <2>1, <2>2 DEF HasLength
<1>8. ~(Strlen(h) - i < n)
  <2> SUFFICES ASSUME Strlen(h) - i < n
               PROVE  FALSE
    OBVIOUS
  <2>1. Strlen(h) - i \in 0 .. n - 1 /\ h + i + (Strlen(h) - i) = h + Strlen(h)
    BY <1>1, <1>2
  <2>2. mem[h + i + (Strlen(h) - i)] # NUL
    BY <1>6, <2>1 DEF HasLength
  <2> QED  BY <1>2, <2>1, <2>2 DEF HasLength
<1> QED
  BY <1>1, <1>2, <1>3, <1>4, <1>5, <1>7, <1>8 DEF Starts

\* What comparing a string with what stands somewhere in memory says
LEMMA MatchesIs ==
  ASSUME mem \in Memories, NEW a \in Addresses, NEW needle \in Starts
  PROVE  Matches(a, needle) <=>
           \A j \in 0 .. Strlen(needle) - 1 : a + j < Bytes => mem[a + j] = mem[needle + j]
<1>1. a \in Nat /\ needle \in Nat /\ Bytes \in Nat /\ needle \in Addresses /\ IsString(needle)
  BY StringsAssumption DEF Addresses, Starts
<1>2. PICK n \in Nat : n = Strlen(needle)
  BY <1>1, StrlenIs
<1>3. needle + n < Bytes
  BY <1>1, <1>2, StrlenIs DEF HasLength, Addresses
<1> DEFINE D == {i \in 0 .. n - 1 : /\ Inside(a, i + 1) /\ Inside(needle, i + 1)
                                    /\ mem[a + i] # mem[needle + i]}
<1>4. Memcmp(a, needle, n) = IF D = {} THEN 0
           ELSE Signed(mem[a + Min(D)]) - Signed(mem[needle + Min(D)])
  BY DEF Memcmp
<1>5. D # {} => Memcmp(a, needle, n) # 0
  <2> SUFFICES ASSUME D # {}
               PROVE  Memcmp(a, needle, n) # 0
    OBVIOUS
  <2>1. Min(D) \in D
    <3>1. D \in SUBSET Nat
      OBVIOUS
    <3> HIDE DEF D
    <3> QED  BY <3>1, MinIs
  <2>2. PICK d \in D : d = Min(D)
    BY <2>1
  <2>3. a + d \in Addresses /\ needle + d \in Addresses
    BY <1>1, <2>2 DEF Inside, Addresses
  <2>4. /\ Signed(mem[a + d]) \in Int /\ Signed(mem[needle + d]) \in Int
        /\ Signed(mem[a + d]) = Signed(mem[needle + d]) <=> mem[a + d] = mem[needle + d]
    BY <2>3, SignedChars DEF Memories
  <2>5. mem[a + d] # mem[needle + d]
    BY <2>2
  <2>6. Memcmp(a, needle, n) = Signed(mem[a + d]) - Signed(mem[needle + d])
    <3> HIDE DEF D
    <3> QED  BY <1>4, <2>2
  <2> QED  BY <2>4, <2>5, <2>6
<1>6. Matches(a, needle) <=> D = {}
  <2> HIDE DEF D
  <2> QED  BY <1>2, <1>4, <1>5 DEF Matches
<1>7. \A i \in 0 .. n - 1 :
        i \in D <=> a + i < Bytes /\ mem[a + i] # mem[needle + i]
  BY <1>1, <1>3 DEF Inside
<1>8. D \subseteq 0 .. n - 1
  OBVIOUS
<1>9. D = {} <=> \A i \in 0 .. n - 1 : i \notin D
  <2> HIDE DEF D
  <2> QED  BY <1>8
<1> HIDE DEF D
<1> QED
  BY <1>2, <1>6, <1>7, <1>9

\* strchr finds the first, but for the terminator.
LEMMA StrchrIs ==
  ASSUME mem \in Memories, NEW h \in Starts, NEW c \in Chars, c # NUL
  PROVE  \/ /\ Strchr(h, Signed(c)) = NULL
            /\ \A i \in 0 .. Strlen(h) : mem[h + i] # c
         \/ \E i \in 0 .. Strlen(h) - 1 :
              /\ Strchr(h, Signed(c)) = h + i /\ mem[h + i] = c
              /\ \A j \in 0 .. i - 1 : mem[h + j] # c
<1>1. h \in Nat /\ h \in Addresses /\ IsString(h)
  BY StringsAssumption DEF Addresses, Starts
<1>2. PICK n \in Nat : n = Strlen(h)
  BY <1>1, StrlenIs
<1>3. mem[h + n] # c
  BY <1>1, <1>2, StrlenIs DEF HasLength
<1> DEFINE hits == {i \in 0 .. n - 1 : mem[h + i] = c}
<1>4. Strchr(h, Signed(c)) = IF hits = {} THEN NULL ELSE h + Min(hits)
  <2>1. hits = {i \in 0 .. n - 1 : Signed(mem[h + i]) = Signed(c)}
    <3>0. Bytes \in Nat /\ h + n < Bytes
      BY <1>1, <1>2, StrlenIs, StringsAssumption DEF HasLength, Addresses
    <3>1. \A i \in 0 .. n - 1 : h + i \in Addresses
      BY <1>1, <3>0 DEF Addresses
    <3>2. \A i \in 0 .. n - 1 : Signed(mem[h + i]) = Signed(c) <=> mem[h + i] = c
      BY <3>1, SignedChars DEF Memories
    <3> QED  BY <3>2
  <2> QED  BY <1>2, <2>1 DEF Strchr, Memchr
<1>5. CASE hits = {}
  <2>1. \A i \in 0 .. n : i \in 0 .. n - 1 \/ i = n
    OBVIOUS
  <2> QED  BY <1>2, <1>3, <1>4, <1>5, <2>1
<1>6. CASE hits # {}
  <2>1. Min(hits) \in hits /\ \A i \in hits : Min(hits) <= i
    <3>1. hits \in SUBSET Nat
      OBVIOUS
    <3> HIDE DEF hits
    <3> QED  BY <1>6, <3>1, MinIs
  <2>2. PICK i \in hits : i = Min(hits)
    BY <2>1
  <2>3. i \in 0 .. n - 1 /\ mem[h + i] = c
    BY <2>2
  <2>4. ASSUME NEW j \in 0 .. i - 1, mem[h + j] = c
        PROVE  FALSE
    <3>1. j \in hits
      BY <2>3, <2>4
    <3>2. i <= j
      BY <2>1, <2>2, <3>1
    <3> QED  BY <2>3, <3>2
  <2>5. Strchr(h, Signed(c)) = h + i
    BY <1>4, <1>6, <2>2
  <2> QED  BY <1>2, <2>3, <2>4, <2>5
<1> QED
  BY <1>5, <1>6

\* Where in the string at h the needle stands, as far as there is memory
Hits(h, needle) ==
  {i \in 0 .. Strlen(h) : mem[h + i] = mem[needle] /\ Matches(h + i, needle)}

\* The search as a function
Searching(f, needle) ==
  f = [h \in Starts |->
         LET find == Strchr(h, Signed(mem[needle]))
         IN  IF find = NULL \/ Matches(find, needle) THEN find ELSE f[find + 1]]

\* What the search should find from each start
FirstHit(needle) ==
  [h \in Starts |-> IF Hits(h, needle) = {} THEN NULL ELSE h + Min(Hits(h, needle))]

\* One turn of the loop finds the needle, or that there is none, or that the
\* next turn will find what there is.
LEMMA SearchTurn ==
  ASSUME mem \in Memories, NEW needle \in Starts, mem[needle] # NUL,
         NEW h \in Starts, NEW find, find = Strchr(h, Signed(mem[needle]))
  PROVE  \/ find = NULL /\ FirstHit(needle)[h] = NULL
         \/ find # NULL /\ Matches(find, needle) /\ FirstHit(needle)[h] = find
         \/ /\ find # NULL /\ ~Matches(find, needle)
            /\ find + 1 \in Starts /\ find + 1 > h
            /\ FirstHit(needle)[h] = FirstHit(needle)[find + 1]
<1> DEFINE c == mem[needle]
           H == Hits(h, needle)
<1>1. h \in Nat /\ h \in Addresses /\ IsString(h)
  BY StringsAssumption DEF Addresses, Starts
<1>2. PICK n \in Nat : n = Strlen(h)
  BY <1>1, StrlenIs
<1>3. H = {i \in 0 .. n : mem[h + i] = c /\ Matches(h + i, needle)}
  BY <1>2 DEF Hits
<1>4. FirstHit(needle)[h] = IF H = {} THEN NULL ELSE h + Min(H)
  BY DEF FirstHit
<1>5. \/ find = NULL /\ \A i \in 0 .. n : mem[h + i] # c
      \/ \E i \in 0 .. n - 1 :
           /\ find = h + i /\ mem[h + i] = c
           /\ \A j \in 0 .. i - 1 : mem[h + j] # c
  <2>1. c \in Chars
    BY DEF Memories, Starts
  <2> QED  BY <1>2, <2>1, StrchrIs
<1>6. CASE find = NULL /\ \A i \in 0 .. n : mem[h + i] # c
  <2>1. H = {}
    BY <1>3, <1>6
  <2> HIDE DEF H
  <2> QED  BY <1>4, <1>6, <2>1
<1>7. CASE \E i \in 0 .. n - 1 : /\ find = h + i /\ mem[h + i] = c
                                 /\ \A j \in 0 .. i - 1 : mem[h + j] # c
  <2>1. PICK i \in 0 .. n - 1 : /\ find = h + i /\ mem[h + i] = c
                                /\ \A j \in 0 .. i - 1 : mem[h + j] # c
    BY <1>7
  <2>2. find # NULL
    BY <1>1, <2>1 DEF NULL
  <2>3. \A j \in H : i <= j
    BY <1>3, <2>1
  <2>4. H \in SUBSET Nat
    BY <1>3
  <2>5. CASE Matches(find, needle)
    <3>1. i \in H
      BY <1>3, <2>1, <2>5
    <3> HIDE DEF H
    <3>2. Min(H) \in H /\ Min(H) <= i
      BY <2>4, <3>1, MinIs
    <3>3. Min(H) = i
      <4>1. i <= Min(H) /\ Min(H) \in Nat
        BY <2>3, <2>4, <3>2
      <4> QED  BY <3>2, <4>1
    <3>4. H # {}
      BY <3>1
    <3> QED  BY <1>4, <2>1, <2>2, <2>5, <3>3, <3>4
  <2>6. CASE ~Matches(find, needle)
    <3>1. i + 1 \in 0 .. Strlen(h)
      BY <1>2
    <3>2. h + (i + 1) \in Starts /\ Strlen(h + (i + 1)) = n - (i + 1)
      BY <1>2, <3>1, TailIs
    <3>3. find + 1 = h + (i + 1) /\ find + 1 > h
      BY <1>1, <2>1
    <3> DEFINE g == h + (i + 1)
               G == Hits(g, needle)
    <3>4. G = {j \in 0 .. n - (i + 1) : mem[g + j] = c /\ Matches(g + j, needle)}
      BY <3>2 DEF Hits
    <3>5. ASSUME NEW j \in H
          PROVE  j - (i + 1) \in G
      <4>1. j # i
        BY <1>3, <2>1, <2>6
      <4>2. j - (i + 1) \in 0 .. n - (i + 1) /\ g + (j - (i + 1)) = h + j
        BY <1>1, <1>3, <2>3, <4>1
      <4> QED  BY <1>3, <3>4, <4>2
    <3>6. ASSUME NEW j \in G
          PROVE  j + (i + 1) \in H
      <4>1. j + (i + 1) \in 0 .. n /\ g + j = h + (j + (i + 1))
        BY <1>1, <3>4
      <4> QED  BY <1>3, <3>4, <4>1
    <3>7. FirstHit(needle)[g] = IF G = {} THEN NULL ELSE g + Min(G)
      BY <3>2 DEF FirstHit
    <3>8. G \in SUBSET Nat
      BY <3>4
    <3> HIDE DEF G, H
    <3>9. CASE H = {}
      <4>1. G = {}
        BY <3>6, <3>9
      <4> QED  BY <1>4, <2>2, <2>6, <3>2, <3>3, <3>7, <3>9, <4>1
    <3>10. CASE H # {}
      <4>1. G # {}
        BY <3>5, <3>10
      <4>2. Min(H) \in H /\ \A j \in H : Min(H) <= j
        BY <2>4, <3>10, MinIs
      <4>3. Min(G) \in G /\ \A j \in G : Min(G) <= j
        BY <3>8, <4>1, MinIs
      <4>4. Min(H) \in Nat /\ Min(G) \in Nat
        BY <2>4, <3>8, <4>2, <4>3
      <4>5. Min(H) <= Min(G) + (i + 1) /\ Min(G) <= Min(H) - (i + 1)
        BY <3>5, <3>6, <4>2, <4>3
      <4>6. g + Min(G) = h + Min(H)
        BY <1>1, <4>4, <4>5
      <4> HIDE DEF g
      <4>7. FirstHit(needle)[h] = FirstHit(needle)[g]
        BY <1>4, <3>7, <3>10, <4>1, <4>6
      <4> QED  BY <2>2, <2>6, <3>2, <3>3, <4>7 DEF g
    <3> QED  BY <3>9, <3>10
  <2> QED  BY <2>5, <2>6
<1> QED
  BY <1>5, <1>6, <1>7

\* strstr finds the first place.
LEMMA StrstrIs ==
  ASSUME mem \in Memories, NEW needle \in Starts, mem[needle] # NUL, NEW h \in Starts
  PROVE  Strstr(h, needle) = FirstHit(needle)[h]
<1> DEFINE W == FirstHit(needle)
           turn(f, s) == LET find == Strchr(s, Signed(mem[needle]))
                         IN  IF find = NULL \/ Matches(find, needle) THEN find
                             ELSE f[find + 1]
<1>1. Searching(W, needle)
  <2>1. ASSUME NEW s \in Starts
        PROVE  W[s] = turn(W, s)
    <3> HIDE DEF W
    <3>1. PICK find : find = Strchr(s, Signed(mem[needle]))
      OBVIOUS
    <3>2. \/ find = NULL /\ W[s] = NULL
          \/ find # NULL /\ Matches(find, needle) /\ W[s] = find
          \/ /\ find # NULL /\ ~Matches(find, needle)
             /\ W[s] = W[find + 1]
      BY <3>1, SearchTurn DEF W
    <3> QED  BY <3>1, <3>2
  <2>2. W = [s \in Starts |-> W[s]]
    BY DEF FirstHit
  <2> HIDE DEF W
  <2>3. W = [s \in Starts |-> turn(W, s)]
    BY <2>1, <2>2
  <2> QED  BY <2>3 DEF Searching
<1> DEFINE f == CHOOSE f : Searching(f, needle)
<1>2. Searching(f, needle)
  BY <1>1
<1>3. Strstr(h, needle) = f[h]
  BY Zenon DEF Strstr, Searching, Starts
<1> HIDE DEF f, W
<1>4. \A s \in Starts : f[s] = turn(f, s)
  <2> DEFINE g == [s \in Starts |-> turn(f, s)]
  <2>1. f = g
    BY <1>2, Zenon DEF Searching
  <2>2. \A s \in Starts : g[s] = turn(f, s)
    OBVIOUS
  <2> HIDE DEF g, turn
  <2> QED  BY <2>1, <2>2
<1> DEFINE Bad == {s \in Starts : f[s] # W[s]}
<1>5. Bad = {}
  <2> SUFFICES ASSUME Bad # {}
               PROVE  FALSE
    OBVIOUS
  <2>1. Bytes \in Nat /\ Bad \in SUBSET (0 .. Bytes)
    BY StringsAssumption DEF Starts, Addresses
  <2>2. PICK s \in Bad : \A t \in Bad : t <= s
    <3> HIDE DEF Bad
    <3> QED  BY <2>1, GreatestElement
  <2>3. PICK find : find = Strchr(s, Signed(mem[needle]))
    OBVIOUS
  <2>4. \/ find = NULL /\ W[s] = NULL
        \/ find # NULL /\ Matches(find, needle) /\ W[s] = find
        \/ /\ find # NULL /\ ~Matches(find, needle)
           /\ find + 1 \in Starts /\ find + 1 > s
           /\ W[s] = W[find + 1]
    BY <2>2, <2>3, SearchTurn DEF W
  <2>5. f[s] = IF find = NULL \/ Matches(find, needle) THEN find ELSE f[find + 1]
    BY <1>4, <2>2, <2>3
  <2>6. f[s] # W[s]
    BY <2>2
  <2>7. CASE find + 1 \in Starts /\ find + 1 > s
    <3>1. find + 1 \in Nat /\ s \in Nat
      BY <2>1, <2>2, <2>7, StringsAssumption DEF Starts, Addresses
    <3>2. find + 1 \notin Bad
      BY <2>2, <2>7, <3>1
    <3>3. f[find + 1] = W[find + 1]
      BY <2>7, <3>2
    <3> QED  BY <2>4, <2>5, <2>6, <3>3
  <2> QED  BY <2>4, <2>5, <2>6, <2>7
<1>6. f[h] = W[h]
  BY <1>5
<1> QED
  BY <1>3, <1>6 DEF W

\* ... which is where all of the needle stands.
LEMMA StrstrExact ==
  ASSUME mem \in Memories
  PROVE  StrstrFindsFirst
<1> SUFFICES ASSUME NEW h \in Addresses, NEW needle \in Addresses,
                    IsString(h), IsString(needle), mem[needle] # NUL
             PROVE  LET found == {i \in 0 .. Strlen(h) - Strlen(needle) :
                                    \A j \in 0 .. Strlen(needle) - 1 :
                                      mem[h + i + j] = mem[needle + j]}
                    IN  Strstr(h, needle) = IF found = {} THEN NULL ELSE h + Min(found)
  BY DEF StrstrFindsFirst
<1> DEFINE found == {i \in 0 .. Strlen(h) - Strlen(needle) :
                       \A j \in 0 .. Strlen(needle) - 1 : mem[h + i + j] = mem[needle + j]}
<1>1. h \in Starts /\ needle \in Starts /\ h \in Nat /\ needle \in Nat /\ Bytes \in Nat
  BY StringsAssumption DEF Starts, Addresses
<1>2. PICK m \in Nat : m = Strlen(h)
  BY StrlenIs
<1>3. PICK n \in Nat : n = Strlen(needle)
  BY StrlenIs
<1>4. h + m < Bytes /\ mem[h + m] = NUL
  BY <1>1, <1>2, StrlenIs DEF HasLength, Addresses
<1>5. mem[needle + n] = NUL /\ \A j \in 0 .. n - 1 : mem[needle + j] # NUL
  BY <1>3, StrlenIs DEF HasLength
<1>6. n > 0
  <2>1. n # 0
    BY <1>1, <1>5
  <2> QED  BY <2>1
<1>7. ASSUME NEW i \in 0 .. m
      PROVE  i \in Hits(h, needle) <=> i \in found
  <2>1. h + i \in Addresses
    BY <1>1, <1>4 DEF Addresses
  <2>2. Matches(h + i, needle) <=>
          \A j \in 0 .. n - 1 : h + i + j < Bytes => mem[h + i + j] = mem[needle + j]
    BY <1>1, <1>3, <2>1, MatchesIs
  <2>3. i \in Hits(h, needle) <=> mem[h + i] = mem[needle] /\ Matches(h + i, needle)
    BY <1>2 DEF Hits
  <2>4. i \in found <=> /\ i <= m - n
                        /\ \A j \in 0 .. n - 1 : mem[h + i + j] = mem[needle + j]
    BY <1>2, <1>3
  <2>5. ASSUME i \in Hits(h, needle)
        PROVE  i \in found
    <3>1. i <= m - n
      <4> SUFFICES ASSUME ~(i <= m - n)
                   PROVE  FALSE
        OBVIOUS
      <4>1. m - i \in 0 .. n - 1 /\ h + i + (m - i) = h + m
        BY <1>1
      <4>2. mem[h + m] = mem[needle + (m - i)]
        BY <1>4, <2>2, <2>3, <2>5, <4>1
      <4> QED  BY <1>4, <1>5, <4>1, <4>2
    <3>2. \A j \in 0 .. n - 1 : h + i + j < Bytes
      BY <1>1, <1>4, <3>1
    <3> QED  BY <2>2, <2>3, <2>4, <2>5, <3>1, <3>2
  <2>6. ASSUME i \in found
        PROVE  i \in Hits(h, needle)
    <3>1. 0 \in 0 .. n - 1 /\ h + i + 0 = h + i /\ needle + 0 = needle
      BY <1>1, <1>6
    <3>2. mem[h + i] = mem[needle]
      BY <2>4, <2>6, <3>1
    <3> QED  BY <2>2, <2>3, <2>4, <2>6, <3>2
  <2> QED  BY <2>5, <2>6
<1>8. Hits(h, needle) = found
  <2>1. Hits(h, needle) \subseteq 0 .. m
    BY <1>2 DEF Hits
  <2>2. found \subseteq 0 .. m
    BY <1>2, <1>3
  <2> HIDE DEF found
  <2> QED  BY <1>7, <2>1, <2>2
<1>9. Strstr(h, needle) = IF Hits(h, needle) = {} THEN NULL ELSE h + Min(Hits(h, needle))
  BY <1>1, StrstrIs DEF FirstHit
<1> HIDE DEF found
<1>10. Strstr(h, needle) = IF found = {} THEN NULL ELSE h + Min(found)
  BY <1>8, <1>9
<1> QED
  BY <1>10 DEF found

-----------------------------------------------------------------------------
(***************************************************************************)
(* Numbers                                                                 *)
(***************************************************************************)
\* The numbers read so far, as a function
Reading(f, s, radix) ==
  f = [i \in 0 .. Len(s) |->
         IF i = 0 THEN 0 ELSE f[i - 1] * radix + (s[i] - DigitZero)]

\* There is such a function for every sequence.
LEMMA ReadingExists ==
  ASSUME NEW s \in Seq(Int), NEW radix \in Nat
  PROVE  \E f : Reading(f, s, radix)
<1> DEFINE Upto(f, n) ==
             f = [i \in 0 .. n |->
                    IF i = 0 THEN 0 ELSE f[i - 1] * radix + (s[i] - DigitZero)]
           Good == {n \in Nat : \E f : Upto(f, n)}
<1>1. 0 \in Good
  <2> DEFINE f == [i \in 0 .. 0 |-> 0]
  <2>1. Upto(f, 0)
    OBVIOUS
  <2> HIDE DEF f, Upto
  <2> QED  BY <2>1
<1>2. ASSUME NEW n \in Nat \ {0}, n - 1 \in Good
      PROVE  n \in Good
  <2>1. PICK f : Upto(f, n - 1)
    BY <1>2
  <2> DEFINE g == [i \in 0 .. n |->
                     IF i = n THEN f[n - 1] * radix + (s[n] - DigitZero) ELSE f[i]]
  <2>2. \A i \in 0 .. n :
          g[i] = IF i = 0 THEN 0 ELSE g[i - 1] * radix + (s[i] - DigitZero)
    <3> SUFFICES ASSUME NEW i \in 0 .. n
                 PROVE  g[i] = IF i = 0 THEN 0 ELSE g[i - 1] * radix + (s[i] - DigitZero)
      OBVIOUS
    <3>1. CASE i = n
      <4>1. g[n - 1] = f[n - 1]
        OBVIOUS
      <4> HIDE DEF Upto
      <4> QED  BY <3>1, <4>1
    <3>2. CASE i # n /\ i # 0
      <4>1. g[i - 1] = f[i - 1] /\ g[i] = f[i]
        BY <3>2
      <4>2. f[i] = f[i - 1] * radix + (s[i] - DigitZero)
        BY <2>1, <3>2
      <4> QED  BY <3>2, <4>1, <4>2
    <3>3. CASE i = 0 /\ i # n
      <4>1. g[i] = f[i]
        BY <3>3
      <4>2. f[i] = 0
        BY <2>1, <3>3
      <4> QED  BY <3>3, <4>1, <4>2
    <3> QED  BY <3>1, <3>2, <3>3
  <2>3. Upto(g, n)
    <3>1. g = [i \in 0 .. n |-> g[i]]
      OBVIOUS
    <3> HIDE DEF g
    <3> QED  BY <2>2, <3>1
  <2> HIDE DEF Upto, g
  <2> QED  BY <2>3
<1>3. Len(s) \in Nat
  OBVIOUS
<1>4. Len(s) \in Good
  <2> HIDE DEF Good
  <2>1. \A n \in 1 .. Len(s) : n - 1 \in Good => n \in Good
    BY <1>2, <1>3
  <2>2. \A n \in 0 .. Len(s) : n \in Good
    BY <1>1, <1>3, <2>1, Upwards
  <2> QED  BY <1>3, <2>2
<1> QED
  BY <1>4 DEF Reading

\* Such a function starts with 0 and takes a digit at a time.
LEMMA ReadingSteps ==
  ASSUME NEW f, NEW s, NEW radix, Len(s) \in Nat, Reading(f, s, radix)
  PROVE  /\ f[0] = 0
         /\ \A i \in 1 .. Len(s) : f[i] = f[i - 1] * radix + (s[i] - DigitZero)
<1>1. \A i \in 0 .. Len(s) :
        f[i] = IF i = 0 THEN 0 ELSE f[i - 1] * radix + (s[i] - DigitZero)
  <2> DEFINE g == [i \in 0 .. Len(s) |->
                     IF i = 0 THEN 0 ELSE f[i - 1] * radix + (s[i] - DigitZero)]
  <2>1. f = g
    BY Zenon DEF Reading
  <2>2. \A i \in 0 .. Len(s) :
          g[i] = IF i = 0 THEN 0 ELSE f[i - 1] * radix + (s[i] - DigitZero)
    OBVIOUS
  <2> HIDE DEF g
  <2> QED  BY <2>1, <2>2
<1>2. 0 \in 0 .. Len(s) /\ \A i \in 1 .. Len(s) : i \in 0 .. Len(s) /\ i # 0
  OBVIOUS
<1> QED
  BY <1>1, <1>2

\* ReadBack is what such a function ends with.
LEMMA ReadBackIs ==
  ASSUME NEW s \in Seq(Int), NEW radix \in Nat
  PROVE  \E f : Reading(f, s, radix) /\ ReadBack(s, radix) = f[Len(s)]
<1> DEFINE f == CHOOSE f : Reading(f, s, radix)
<1>1. Reading(f, s, radix)
  BY ReadingExists
<1>2. ReadBack(s, radix) = f[Len(s)]
  BY Zenon DEF ReadBack, Reading
<1> QED
  BY <1>1, <1>2

\* A digit more
LEMMA ReadBackAppend ==
  ASSUME NEW s \in Seq(Int), NEW d \in Int, NEW radix \in Nat
  PROVE  ReadBack(Append(s, d), radix) = ReadBack(s, radix) * radix + (d - DigitZero)
<1> DEFINE t == Append(s, d)
<1>1. /\ t \in Seq(Int) /\ Len(t) = Len(s) + 1 /\ Len(s) \in Nat
      /\ t[Len(s) + 1] = d /\ \A i \in 1 .. Len(s) : t[i] = s[i]
  OBVIOUS
<1> HIDE DEF t
<1>2. PICK f : Reading(f, s, radix) /\ ReadBack(s, radix) = f[Len(s)]
  BY ReadBackIs
<1>3. PICK g : Reading(g, t, radix) /\ ReadBack(t, radix) = g[Len(t)]
  BY <1>1, ReadBackIs
<1>4. f[0] = 0 /\ \A i \in 1 .. Len(s) : f[i] = f[i - 1] * radix + (s[i] - DigitZero)
  BY <1>1, <1>2, ReadingSteps
<1>5. g[0] = 0 /\ \A i \in 1 .. Len(t) : g[i] = g[i - 1] * radix + (t[i] - DigitZero)
  <2>1. Len(t) \in Nat
    BY <1>1
  <2> QED  BY <1>3, <2>1, ReadingSteps
<1> DEFINE Good == {i \in 0 .. Len(s) : g[i] = f[i]}
<1>6. 0 \in Good
  BY <1>1, <1>4, <1>5
<1>7. ASSUME NEW i \in 1 .. Len(s), i - 1 \in Good
      PROVE  i \in Good
  <2>1. i \in 1 .. Len(t) /\ t[i] = s[i] /\ g[i - 1] = f[i - 1]
    BY <1>1, <1>7
  <2>2. f[i] = f[i - 1] * radix + (s[i] - DigitZero)
    BY <1>4
  <2>3. g[i] = g[i - 1] * radix + (t[i] - DigitZero)
    BY <1>5, <2>1
  <2>4. g[i] = f[i]
    BY <2>1, <2>2, <2>3
  <2> QED  BY <2>4
<1>8. \A i \in 0 .. Len(s) : i \in Good
  <2> HIDE DEF Good
  <2> QED  BY <1>1, <1>6, <1>7, Upwards
<1>9. g[Len(s)] = f[Len(s)]
  BY <1>1, <1>8
<1>10. g[Len(t)] = g[Len(s)] * radix + (d - DigitZero)
  <2>1. Len(t) \in 1 .. Len(t) /\ Len(t) - 1 = Len(s)
    BY <1>1
  <2> QED  BY <1>1, <1>5, <2>1
<1>11. ReadBack(t, radix) = ReadBack(s, radix) * radix + (d - DigitZero)
  BY <1>2, <1>3, <1>9, <1>10
<1> QED
  BY <1>11 DEF t

\* One digit
LEMMA ReadBackOne ==
  ASSUME NEW d \in Int, NEW radix \in Nat
  PROVE  ReadBack(<<d>>, radix) = d - DigitZero
<1> DEFINE s == <<d>>
<1>1. s \in Seq(Int) /\ Len(s) = 1 /\ s[1] = d
  OBVIOUS
<1> HIDE DEF s
<1>2. PICK f : Reading(f, s, radix) /\ ReadBack(s, radix) = f[Len(s)]
  BY <1>1, ReadBackIs
<1>3. f[0] = 0 /\ \A i \in 1 .. Len(s) : f[i] = f[i - 1] * radix + (s[i] - DigitZero)
  BY <1>1, <1>2, ReadingSteps
<1>4. f[1] = f[0] * radix + (s[1] - DigitZero)
  <2>1. 1 \in 1 .. Len(s) /\ 1 - 1 = 0
    BY <1>1
  <2> QED  BY <1>3, <2>1
<1>5. f[1] = d - DigitZero
  BY <1>1, <1>3, <1>4, StreamAssumption
<1> QED
  BY <1>1, <1>2, <1>5 DEF s

\* What itoa makes of each number up to n, as a function
Numerals(f, n, radix) ==
  f = [v \in 0 .. n |->
         IF MoreDigits(v, radix)
         THEN Append(f[v \div radix], Digit(v % radix))
         ELSE <<Digit(v)>>]

\* Division takes the last digit off.
LEMMA LastDigit ==
  ASSUME NEW radix \in {10, 16}, NEW v \in Nat
  PROVE  /\ v \div radix \in Nat /\ v % radix \in 0 .. radix - 1
         /\ (v \div radix) * radix + (v % radix) = v
         /\ v >= radix => v \div radix < v /\ v \div radix >= 1
<1>1. CASE radix = 10
  BY <1>1
<1>2. CASE radix = 16
  BY <1>2
<1> QED
  BY <1>1, <1>2

\* There is such a function for every number.
LEMMA NumeralsExist ==
  ASSUME NEW n \in Nat, NEW radix \in {10, 16}
  PROVE  \E f : Numerals(f, n, radix)
<1> DEFINE numeral(f, v) == IF MoreDigits(v, radix)
                            THEN Append(f[v \div radix], Digit(v % radix))
                            ELSE <<Digit(v)>>
           Good == {k \in Nat : \E f : Numerals(f, k, radix)}
<1>1. 0 \in Good
  <2> DEFINE f == [v \in 0 .. 0 |-> <<Digit(0)>>]
  <2>1. \A v \in 0 .. 0 : ~MoreDigits(v, radix) /\ v = 0
    BY DEF MoreDigits
  <2>2. f = [v \in 0 .. 0 |-> IF MoreDigits(v, radix)
                              THEN Append(f[v \div radix], Digit(v % radix))
                              ELSE <<Digit(v)>>]
    BY <2>1
  <2>3. Numerals(f, 0, radix)
    <3> HIDE DEF f
    <3> QED  BY <2>2 DEF Numerals
  <2> HIDE DEF f
  <2> QED  BY <2>3
<1>2. ASSUME NEW k \in Nat \ {0}, k - 1 \in Good
      PROVE  k \in Good
  <2>1. PICK f : Numerals(f, k - 1, radix)
    BY <1>2
  <2>2. \A v \in 0 .. k - 1 : f[v] = numeral(f, v)
    <3> DEFINE h == [v \in 0 .. k - 1 |-> numeral(f, v)]
    <3>1. f = h
      BY <2>1, Zenon DEF Numerals
    <3>2. \A v \in 0 .. k - 1 : h[v] = numeral(f, v)
      OBVIOUS
    <3> HIDE DEF h, numeral
    <3> QED  BY <3>1, <3>2
  <2> DEFINE g == [v \in 0 .. k |-> IF v = k THEN numeral(f, k) ELSE f[v]]
  <2>3. \A v \in 0 .. k : MoreDigits(v, radix) => v \div radix \in 0 .. k - 1
    <3> SUFFICES ASSUME NEW v \in 0 .. k, MoreDigits(v, radix)
                 PROVE  v \div radix \in 0 .. k - 1
      OBVIOUS
    <3>1. v \in Nat /\ v >= radix
      BY DEF MoreDigits
    <3>2. v \div radix \in Nat /\ v \div radix < v
      BY <3>1, LastDigit
    <3> QED  BY <3>1, <3>2
  <2>4. \A v \in 0 .. k - 1 : g[v] = f[v]
    OBVIOUS
  <2>5. \A v \in 0 .. k : numeral(g, v) = numeral(f, v)
    <3> HIDE DEF g
    <3> QED  BY <2>3, <2>4
  <2>6. \A v \in 0 .. k : g[v] = numeral(g, v)
    <3> SUFFICES ASSUME NEW v \in 0 .. k
                 PROVE  g[v] = numeral(f, v)
      BY <2>5
    <3> HIDE DEF numeral
    <3>1. CASE v = k
      BY <3>1
    <3>2. CASE v # k
      <4>1. v \in 0 .. k - 1
        BY <3>2
      <4> QED  BY <2>2, <2>4, <4>1
    <3> QED  BY <3>1, <3>2
  <2>7. g = [v \in 0 .. k |-> numeral(g, v)]
    <3>1. g = [v \in 0 .. k |-> g[v]]
      OBVIOUS
    <3> HIDE DEF g, numeral
    <3> QED  BY <2>6, <3>1
  <2>8. Numerals(g, k, radix)
    <3> HIDE DEF g
    <3> QED  BY <2>7, Zenon DEF Numerals
  <2> HIDE DEF g
  <2> QED  BY <2>8
<1>3. \A k \in 0 .. n : k \in Good
  <2> HIDE DEF Good
  <2>1. \A k \in 1 .. n : k - 1 \in Good => k \in Good
    BY <1>2
  <2> QED  BY <1>1, <2>1, Upwards
<1>4. n \in Good
  <2> HIDE DEF Good
  <2> QED  BY <1>3
<1> QED
  BY <1>4

\* A numeral of v: its digits stand for v, and the first is not 0 unless v is.
IsNumeral(s, v, radix) ==
  /\ s \in Seq(Int) /\ Len(s) >= 1
  /\ ReadBack(s, radix) = v
  /\ \A i \in 1 .. Len(s) : s[i] - DigitZero \in 0 .. radix - 1
  /\ v < radix => Len(s) = 1
  /\ v >= 1 => s[1] # Digit(0)

\* A digit more makes the numeral of a larger number.
LEMMA NumeralLonger ==
  ASSUME NEW radix \in {10, 16}, NEW v \in Nat, v >= radix,
         NEW s, IsNumeral(s, v \div radix, radix)
  PROVE  IsNumeral(Append(s, Digit(v % radix)), v, radix)
<1> DEFINE d == Digit(v % radix)
           t == Append(s, d)
<1>1. /\ v \div radix \in Nat /\ v % radix \in 0 .. radix - 1 /\ v \div radix >= 1
      /\ (v \div radix) * radix + (v % radix) = v /\ radix \in Nat
  BY LastDigit
<1>2. d \in Int /\ d - DigitZero = v % radix
  BY <1>1, StreamAssumption DEF Digit
<1>3. s \in Seq(Int) /\ Len(s) \in Nat /\ Len(s) >= 1
  BY DEF IsNumeral
<1> HIDE DEF d
<1>4. /\ t \in Seq(Int) /\ Len(t) = Len(s) + 1
      /\ t[Len(s) + 1] = d /\ \A i \in 1 .. Len(s) : t[i] = s[i]
  BY <1>2, <1>3
<1>5. ReadBack(t, radix) = v
  <2>1. ReadBack(t, radix) = ReadBack(s, radix) * radix + (d - DigitZero)
    BY <1>1, <1>2, <1>3, ReadBackAppend
  <2>2. ReadBack(s, radix) = v \div radix
    BY DEF IsNumeral
  <2> QED  BY <1>1, <1>2, <2>1, <2>2
<1> HIDE DEF t
<1>6. ASSUME NEW i \in 1 .. Len(t)
      PROVE  t[i] - DigitZero \in 0 .. radix - 1
  <2>1. CASE i = Len(s) + 1
    BY <1>1, <1>2, <1>4, <2>1
  <2>2. CASE i # Len(s) + 1
    <3>1. i \in 1 .. Len(s)
      BY <1>3, <1>4, <2>2
    <3> QED  BY <1>4, <3>1 DEF IsNumeral
  <2> QED  BY <2>1, <2>2
<1>7. t[1] # Digit(0)
  <2>1. 1 \in 1 .. Len(s)
    BY <1>3
  <2>2. s[1] # Digit(0)
    BY <1>1 DEF IsNumeral
  <2> QED  BY <1>4, <2>1, <2>2
<1>8. IsNumeral(t, v, radix)
  BY <1>1, <1>3, <1>4, <1>5, <1>6, <1>7 DEF IsNumeral
<1> QED
  BY <1>8 DEF t, d

\* A number below the radix has one digit.
LEMMA NumeralOfOne ==
  ASSUME NEW radix \in {10, 16}, NEW v \in Nat, v < radix
  PROVE  IsNumeral(<<Digit(v)>>, v, radix)
<1>1. Digit(v) \in Int /\ Digit(v) - DigitZero = v /\ radix \in Nat
  BY StreamAssumption DEF Digit
<1>2. v >= 1 => Digit(v) # Digit(0)
  BY StreamAssumption DEF Digit
<1>3. ReadBack(<<Digit(v)>>, radix) = v
  BY <1>1, ReadBackOne
<1>4. PICK s : s = <<Digit(v)>>
  OBVIOUS
<1>5. s \in Seq(Int) /\ Len(s) = 1 /\ s[1] = Digit(v)
  BY <1>1, <1>4
<1>6. \A i \in 1 .. Len(s) : s[i] - DigitZero \in 0 .. radix - 1
  BY <1>1, <1>5
<1>7. IsNumeral(s, v, radix)
  BY <1>2, <1>3, <1>4, <1>5, <1>6 DEF IsNumeral
<1> QED
  BY <1>4, <1>7

\* itoa makes the numeral of every number.
LEMMA ItoaIs ==
  ASSUME NEW n \in Nat, NEW radix \in {10, 16}
  PROVE  IsNumeral(Itoa(n, radix), n, radix)
<1> DEFINE f == CHOOSE f : Numerals(f, n, radix)
<1>1. Numerals(f, n, radix)
  BY NumeralsExist
<1>2. Itoa(n, radix) = f[n]
  BY Zenon DEF Itoa, Numerals
<1> HIDE DEF f
<1> DEFINE numeral(v) == IF MoreDigits(v, radix)
                         THEN Append(f[v \div radix], Digit(v % radix))
                         ELSE <<Digit(v)>>
<1>3. \A v \in 0 .. n : f[v] = numeral(v)
  <2> DEFINE h == [v \in 0 .. n |-> numeral(v)]
  <2>1. f = h
    BY <1>1, Zenon DEF Numerals
  <2>2. \A v \in 0 .. n : h[v] = numeral(v)
    OBVIOUS
  <2> HIDE DEF h, numeral
  <2> QED  BY <2>1, <2>2
<1> DEFINE Bad == {v \in 0 .. n : ~IsNumeral(f[v], v, radix)}
<1>4. Bad = {}
  <2> SUFFICES ASSUME Bad # {}
               PROVE  FALSE
    OBVIOUS
  <2>1. Bad \in SUBSET Nat
    OBVIOUS
  <2>2. PICK v \in Bad : \A w \in Bad : v <= w
    <3> HIDE DEF Bad
    <3> QED  BY <2>1, LeastElement
  <2>3. v \in 0 .. n /\ ~IsNumeral(f[v], v, radix)
    BY <2>2
  <2>4. CASE v >= radix
    <3>1. v \div radix \in Nat /\ v \div radix < v
      BY <2>3, <2>4, LastDigit
    <3>2. v \div radix \notin Bad
      BY <2>2, <2>3, <3>1
    <3>3. IsNumeral(f[v \div radix], v \div radix, radix)
      BY <2>3, <3>1, <3>2
    <3>4. f[v] = Append(f[v \div radix], Digit(v % radix))
      BY <1>3, <2>3, <2>4 DEF MoreDigits
    <3>5. IsNumeral(f[v], v, radix)
      BY <2>3, <2>4, <3>3, <3>4, NumeralLonger
    <3> QED  BY <2>3, <3>5
  <2>5. CASE ~(v >= radix)
    <3>1. f[v] = <<Digit(v)>>
      BY <1>3, <2>3, <2>5 DEF MoreDigits
    <3>2. v \in Nat /\ v < radix
      BY <2>3, <2>5
    <3> QED  BY <2>3, <3>1, <3>2, NumeralOfOne
  <2> QED  BY <2>4, <2>5
<1>5. IsNumeral(f[n], n, radix)
  BY <1>4
<1> QED
  BY <1>2, <1>5

\* Whatever the memory holds, its numbers read back.
LEMMA NumbersExact ==
  ASSUME mem \in Memories
  PROVE  NumbersReadBack
<1> SUFFICES ASSUME NEW a \in 0 .. Bytes - 3, NEW radix \in {10, 16}
             PROVE  LET s == Itoa(NumberAt(a), radix)
                    IN  /\ ReadBack(s, radix) = NumberAt(a)
                        /\ \A i \in DOMAIN s : s[i] - DigitZero \in 0 .. radix - 1
                        /\ Len(s) > 1 => s[1] # Digit(0)
  BY DEF NumbersReadBack
<1>1. PICK n \in Nat : n = NumberAt(a)
  <2>1. a \in Addresses /\ a + 1 \in Addresses /\ a + 2 \in Addresses
    BY StringsAssumption DEF Addresses
  <2>2. mem[a] \in Nat /\ mem[a + 1] \in Nat /\ mem[a + 2] \in Nat
    BY <2>1 DEF Memories, Chars
  <2>3. ASSUME NEW x \in Nat, NEW y \in Nat
        PROVE  x + CharModulus * y \in Nat
    <3>1. CharModulus * y >= 0 /\ CharModulus * y \in Int
      BY StringsAssumption
    <3> QED  BY <3>1
  <2>4. mem[a + 1] + CharModulus * mem[a + 2] \in Nat
    BY <2>2, <2>3
  <2>5. NumberAt(a) \in Nat
    BY <2>2, <2>3, <2>4 DEF NumberAt
  <2> QED  BY <2>5
<1>2. PICK s : s = Itoa(n, radix)
  OBVIOUS
<1>3. IsNumeral(s, n, radix)
  BY <1>2, ItoaIs
<1>4. DOMAIN s = 1 .. Len(s)
  BY <1>3 DEF IsNumeral
<1>5. Len(s) > 1 => n >= 1
  <2> SUFFICES ASSUME ~(n >= 1)
               PROVE  ~(Len(s) > 1)
    OBVIOUS
  <2>1. n < radix
    OBVIOUS
  <2>2. Len(s) = 1
    BY <1>3, <2>1 DEF IsNumeral
  <2> QED  BY <2>2
<1>6. /\ ReadBack(s, radix) = n
      /\ \A i \in DOMAIN s : s[i] - DigitZero \in 0 .. radix - 1
      /\ Len(s) > 1 => s[1] # Digit(0)
  BY <1>3, <1>4, <1>5 DEF IsNumeral
<1> QED
  BY <1>1, <1>2, <1>6

-----------------------------------------------------------------------------
(***************************************************************************)
(* Formats                                                                 *)
(***************************************************************************)
\* n '%' stand directly before character i, and no more.
Run(t, i, n) ==
  /\ n \in 0 .. i - 1
  /\ \A j \in i - n .. i - 1 : t[j] = Percent
  /\ n + 1 < i => t[i - n - 1] # Percent

\* There is such a number,
LEMMA RunExists ==
  ASSUME NEW t, NEW i \in Nat \ {0}
  PROVE  \E n \in Nat : Run(t, i, n)
<1> DEFINE Ends == {n \in Nat : n + 1 < i => t[i - n - 1] # Percent}
<1>1. i - 1 \in Ends
  OBVIOUS
<1>2. PICK n \in Ends : \A m \in Ends : n <= m
  <2>1. Ends \in SUBSET Nat /\ Ends # {}
    BY <1>1
  <2> HIDE DEF Ends
  <2> QED  BY <2>1, LeastElement
<1>3. n \in Nat /\ n <= i - 1 /\ (n + 1 < i => t[i - n - 1] # Percent)
  BY <1>1, <1>2
<1>4. ASSUME NEW j \in i - n .. i - 1, t[j] # Percent
      PROVE  FALSE
  <2>1. i - j - 1 \in Nat /\ i - j - 1 < n /\ i - (i - j - 1) - 1 = j
    BY <1>3
  <2>2. i - j - 1 \in Ends
    BY <1>4, <2>1
  <2> HIDE DEF Ends
  <2> QED  BY <1>2, <1>3, <2>1, <2>2
<1> HIDE DEF Ends
<1>5. Run(t, i, n)
  BY <1>3, <1>4 DEF Run
<1> QED
  BY <1>3, <1>5

\* and only one.
LEMMA RunUnique ==
  ASSUME NEW t, NEW i \in Nat \ {0}, NEW n \in Nat, NEW m \in Nat, Run(t, i, n), Run(t, i, m)
  PROVE  n = m
<1>1. ASSUME NEW a \in Nat, NEW b \in Nat, Run(t, i, a), Run(t, i, b), a < b
      PROVE  FALSE
  <2>1. i - a - 1 \in i - b .. i - 1 /\ a + 1 < i
    BY <1>1 DEF Run
  <2> QED  BY <1>1, <2>1 DEF Run
<1>2. ~(n < m) /\ ~(m < n)
  BY <1>1
<1> QED
  BY <1>2

\* The '%' before a character are those before the one before it and, if it
\* is one, that.
LEMMA RunLonger ==
  ASSUME NEW t, NEW i \in Nat \ {0}, NEW n \in Nat, Run(t, i, n)
  PROVE  IF t[i] = Percent THEN Run(t, i + 1, n + 1) ELSE Run(t, i + 1, 0)
<1>1. n <= i - 1
  BY DEF Run
<1>2. CASE t[i] = Percent
  <2>1. n + 1 \in 0 .. (i + 1) - 1
    BY <1>1
  <2>2. ASSUME NEW j \in (i + 1) - (n + 1) .. (i + 1) - 1
        PROVE  t[j] = Percent
    <3>1. CASE j = i
      BY <1>2, <3>1
    <3>2. CASE j # i
      <4>1. j \in i - n .. i - 1
        BY <1>1, <3>2
      <4> QED  BY <4>1 DEF Run
    <3> QED  BY <3>1, <3>2
  <2>3. (n + 1) + 1 < i + 1 => t[(i + 1) - (n + 1) - 1] # Percent
    <3>1. (i + 1) - (n + 1) - 1 = i - n - 1 /\ ((n + 1) + 1 < i + 1 <=> n + 1 < i)
      BY <1>1
    <3> QED  BY <3>1 DEF Run
  <2> QED  BY <1>2, <2>1, <2>2, <2>3 DEF Run
<1>3. CASE t[i] # Percent
  <2>1. (i + 1) - 0 - 1 = i /\ (i + 1) - 0 .. (i + 1) - 1 = {} /\ 0 \in 0 .. (i + 1) - 1
    OBVIOUS
  <2> QED  BY <1>3, <2>1 DEF Run
<1> QED
  BY <1>2, <1>3

\* A '%' begins a conversion if their number is even.
LEMMA BeginsIs ==
  ASSUME NEW t, NEW i \in Nat \ {0}, NEW n \in Nat, Run(t, i, n)
  PROVE  BeginsAt(t, i) <=> t[i] = Percent /\ n % 2 = 0
<1>1. ASSUME BeginsAt(t, i)
      PROVE  t[i] = Percent /\ n % 2 = 0
  <2>1. PICK m \in 0 .. i - 1 : m % 2 = 0 /\ Run(t, i, m)
    BY <1>1 DEF BeginsAt, Run
  <2>2. n = m
    BY <2>1, RunUnique
  <2> QED  BY <1>1, <2>1, <2>2 DEF BeginsAt
<1>2. ASSUME t[i] = Percent, n % 2 = 0
      PROVE  BeginsAt(t, i)
  BY <1>2 DEF BeginsAt, Run
<1> QED
  BY <1>1, <1>2

\* A '%' begins a conversion if the character before it does not.
LEMMA BeginsNext ==
  ASSUME NEW t, NEW i \in Nat \ {0}
  PROVE  BeginsAt(t, i + 1) <=> t[i + 1] = Percent /\ ~BeginsAt(t, i)
<1>1. PICK n \in Nat : Run(t, i, n)
  BY RunExists
<1>2. BeginsAt(t, i) <=> t[i] = Percent /\ n % 2 = 0
  BY <1>1, BeginsIs
<1>3. CASE t[i] = Percent
  <2>1. Run(t, i + 1, n + 1)
    BY <1>1, <1>3, RunLonger
  <2>2. BeginsAt(t, i + 1) <=> t[i + 1] = Percent /\ (n + 1) % 2 = 0
    <3>1. i + 1 \in Nat \ {0} /\ n + 1 \in Nat
      OBVIOUS
    <3> QED  BY <2>1, <3>1, BeginsIs
  <2>3. (n + 1) % 2 = 0 <=> n % 2 # 0
    OBVIOUS
  <2> QED  BY <1>2, <1>3, <2>2, <2>3
<1>4. CASE t[i] # Percent
  <2>1. Run(t, i + 1, 0)
    BY <1>1, <1>4, RunLonger
  <2>2. BeginsAt(t, i + 1) <=> t[i + 1] = Percent /\ 0 % 2 = 0
    <3>1. i + 1 \in Nat \ {0} /\ 0 \in Nat
      OBVIOUS
    <3> QED  BY <2>1, <3>1, BeginsIs
  <2> QED  BY <1>2, <1>4, <2>2
<1> QED
  BY <1>3, <1>4

\* So does one at the beginning.
LEMMA BeginsFirst ==
  ASSUME NEW t
  PROVE  BeginsAt(t, 1) <=> t[1] = Percent
<1>1. Run(t, 1, 0)
  BY DEF Run
<1>2. BeginsAt(t, 1) <=> t[1] = Percent /\ 0 % 2 = 0
  <2>1. 1 \in Nat \ {0} /\ 0 \in Nat
    OBVIOUS
  <2> QED  BY <1>1, <2>1, BeginsIs
<1> QED
  BY <1>2

\* The conversions before character i that take an argument, as a set
Taking(t, i) ==
  {j \in Conversions(t) : j < i /\ t[j + 1] \in {LetterD, LetterX, LetterP, LetterS}}

\* Going past a character takes an argument if it begins such a conversion.
LEMMA TakenNext ==
  ASSUME NEW t, Len(t) \in Nat, NEW i \in Nat \ {0}
  PROVE  /\ Taken(t, i) \in Nat /\ Taken(t, 1) = 0
         /\ i \in Conversions(t) => Taken(t, i + 1) = Taken(t, i) + Consumes(t[i + 1])
         /\ i \notin Conversions(t) => Taken(t, i + 1) = Taken(t, i)
<1>1. \A k \in Nat : IsFiniteSet(Taking(t, k))
  <2> SUFFICES ASSUME NEW k \in Nat
               PROVE  IsFiniteSet(Taking(t, k))
    OBVIOUS
  <2>1. Taking(t, k) \subseteq 1 .. Len(t)
    BY DEF Taking, Conversions
  <2>2. IsFiniteSet(1 .. Len(t))
    BY FS_Interval
  <2> QED  BY <2>1, <2>2, FS_Subset
<1>2. \A k \in Nat : Taken(t, k) = Cardinality(Taking(t, k))
  BY DEF Taken, Taking
<1>3. \A k \in Nat : Taken(t, k) \in Nat
  BY <1>1, <1>2, FS_CardinalityType
<1>4. Taken(t, 1) = 0
  <2>1. Taking(t, 1) = {}
    BY DEF Taking, Conversions
  <2> QED  BY <1>2, <2>1, FS_EmptySet
<1>5. \A j \in Conversions(t) : j \in Nat
  BY DEF Conversions
<1>6. CASE i \in Conversions(t) /\ t[i + 1] \in {LetterD, LetterX, LetterP, LetterS}
  <2>1. Taking(t, i + 1) = Taking(t, i) \cup {i}
    <3>1. \A j \in Conversions(t) : j < i + 1 <=> j < i \/ j = i
      BY <1>5
    <3> QED  BY <1>6, <3>1 DEF Taking
  <2>0. i \notin Taking(t, i)
    BY DEF Taking
  <2>2. Taken(t, i + 1) = Taken(t, i) + 1
    BY <1>1, <1>2, <2>0, <2>1, FS_AddElement
  <2> QED  BY <1>3, <1>4, <1>6, <2>2 DEF Consumes
<1>7. CASE ~(i \in Conversions(t) /\ t[i + 1] \in {LetterD, LetterX, LetterP, LetterS})
  <2>1. Taking(t, i + 1) = Taking(t, i)
    BY <1>5, <1>7 DEF Taking
  <2>2. Taken(t, i + 1) = Taken(t, i)
    BY <1>2, <2>1
  <2> QED  BY <1>3, <1>4, <1>7, <2>2 DEF Consumes
<1> QED
  BY <1>6, <1>7

-----------------------------------------------------------------------------
(***************************************************************************)
(* Sequences one after the other                                           *)
(***************************************************************************)

\* The first of the sequences together, as a function
Flattening(f, seqs, n) ==
  f = [i \in 1 .. n |-> IF i = 1 THEN seqs[i] ELSE f[i - 1] \o seqs[i]]

\* Each value of such a function
LEMMA FlatteningSteps ==
  ASSUME NEW f, NEW seqs, NEW n \in Nat, Flattening(f, seqs, n), NEW i \in 1 .. n
  PROVE  f[i] = IF i = 1 THEN seqs[i] ELSE f[i - 1] \o seqs[i]
<1> DEFINE g == [k \in 1 .. n |-> IF k = 1 THEN seqs[k] ELSE f[k - 1] \o seqs[k]]
<1>1. f = g
  BY Zenon DEF Flattening
<1>2. g[i] = IF i = 1 THEN seqs[i] ELSE f[i - 1] \o seqs[i]
  OBVIOUS
<1> HIDE DEF g
<1> QED
  BY <1>1, <1>2

\* There is such a function for any number of sequences.
LEMMA FlatteningExists ==
  ASSUME NEW seqs, NEW n \in Nat
  PROVE  \E f : Flattening(f, seqs, n)
<1> DEFINE Good == {k \in Nat : \E f : Flattening(f, seqs, k)}
<1>1. 0 \in Good
  <2> DEFINE f == [i \in 1 .. 0 |-> {}]
  <2>1. f = [i \in 1 .. 0 |-> IF i = 1 THEN seqs[i] ELSE f[i - 1] \o seqs[i]]
    OBVIOUS
  <2> HIDE DEF f
  <2>2. Flattening(f, seqs, 0)
    BY <2>1, Zenon DEF Flattening
  <2> QED  BY <2>2
<1>2. ASSUME NEW k \in 1 .. n, k - 1 \in Good
      PROVE  k \in Good
  <2>1. PICK f : Flattening(f, seqs, k - 1)
    BY <1>2
  <2> DEFINE joined(h, i) == IF i = 1 THEN seqs[i] ELSE h[i - 1] \o seqs[i]
             g == [i \in 1 .. k |-> IF i = k THEN joined(f, k) ELSE f[i]]
  <2>2. \A i \in 1 .. k - 1 : f[i] = joined(f, i)
    <3>1. k - 1 \in Nat
      OBVIOUS
    <3> QED  BY <2>1, <3>1, FlatteningSteps
  <2>3. \A i \in 1 .. k : joined(g, i) = joined(f, i)
    <3>1. \A i \in 1 .. k : i = 1 \/ g[i - 1] = f[i - 1]
      OBVIOUS
    <3> HIDE DEF g
    <3> QED  BY <3>1
  <2>4. \A i \in 1 .. k : g[i] = joined(g, i)
    <3> SUFFICES ASSUME NEW i \in 1 .. k
                 PROVE  g[i] = joined(f, i)
      BY <2>3
    <3> HIDE DEF joined
    <3>1. CASE i = k
      BY <3>1
    <3>2. CASE i # k
      <4>1. i \in 1 .. k - 1 /\ g[i] = f[i]
        BY <3>2
      <4> QED  BY <2>2, <4>1
    <3> QED  BY <3>1, <3>2
  <2>5. g = [i \in 1 .. k |-> joined(g, i)]
    <3>1. g = [i \in 1 .. k |-> g[i]]
      OBVIOUS
    <3> HIDE DEF g, joined
    <3> QED  BY <2>4, <3>1
  <2>6. Flattening(g, seqs, k)
    <3> HIDE DEF g
    <3> QED  BY <2>5, Zenon DEF Flattening
  <2> HIDE DEF g
  <2> QED  BY <2>6
<1>3. \A k \in 0 .. n : k \in Good
  <2> HIDE DEF Good
  <2> QED  BY <1>1, <1>2, Upwards
<1>4. n \in Good
  <2> HIDE DEF Good
  <2> QED  BY <1>3
<1> QED
  BY <1>4

\* Each part of what FlattenSeq makes is the part before and a sequence more.
LEMMA FlattenIs ==
  ASSUME NEW S, NEW seqs \in Seq(Seq(S))
  PROVE  \E f : /\ f[0] = <<>> /\ FlattenSeq(seqs) = f[Len(seqs)]
                /\ \A i \in 0 .. Len(seqs) : f[i] \in Seq(S)
                /\ \A i \in 1 .. Len(seqs) : f[i] = f[i - 1] \o seqs[i]
<1>1. Len(seqs) \in Nat /\ \A i \in 1 .. Len(seqs) : seqs[i] \in Seq(S)
  OBVIOUS
<1>2. PICK n \in Nat : n = Len(seqs)
  BY <1>1
<1> DEFINE g == CHOOSE f : Flattening(f, seqs, n)
<1>3. Flattening(g, seqs, n)
  BY FlatteningExists
<1>4. n # 0 => FlattenSeq(seqs) = g[n]
  BY <1>2, Zenon DEF FlattenSeq, Flattening
<1>5. n = 0 => FlattenSeq(seqs) = seqs /\ seqs = <<>>
  <2>1. Len(seqs) = 0 => FlattenSeq(seqs) = seqs
    BY Zenon DEF FlattenSeq
  <2> QED  BY <1>2, <2>1, EmptySeq
<1> HIDE DEF g
<1>6. \A i \in 1 .. n : g[i] = IF i = 1 THEN seqs[i] ELSE g[i - 1] \o seqs[i]
  BY <1>3, FlatteningSteps
<1> DEFINE f == [i \in 0 .. n |-> IF i = 0 THEN <<>> ELSE g[i]]
           Good == {i \in 0 .. n : f[i] \in Seq(S)}
<1>7. f[0] = <<>> /\ \A i \in 1 .. n : f[i] = g[i]
  OBVIOUS
<1> HIDE DEF f
<1>8. 0 \in Good
  <2>1. <<>> \in Seq(S) /\ 0 \in 0 .. n
    OBVIOUS
  <2> QED  BY <1>7, <2>1
<1>9. ASSUME NEW i \in 1 .. n, i - 1 \in Good
      PROVE  f[i] = f[i - 1] \o seqs[i] /\ i \in Good
  <2>1. f[i - 1] \in Seq(S) /\ seqs[i] \in Seq(S)
    BY <1>1, <1>2, <1>9
  <2>2. f[i] = IF i = 1 THEN seqs[i] ELSE g[i - 1] \o seqs[i]
    BY <1>6, <1>7
  <2>3. f[i] = f[i - 1] \o seqs[i]
    <3>1. CASE i = 1
      <4>1. f[i - 1] = <<>> /\ f[i] = seqs[i]
        BY <1>7, <2>2, <3>1
      <4> QED  BY <2>1, <4>1, ConcatEmptySeq
    <3>2. CASE i # 1
      <4>1. f[i - 1] = g[i - 1]
        BY <1>7, <3>2
      <4> QED  BY <2>2, <3>2, <4>1
    <3> QED  BY <3>1, <3>2
  <2>4. f[i] \in Seq(S)
    BY <2>1, <2>3, ConcatProperties
  <2>5. i \in 0 .. n
    OBVIOUS
  <2> QED  BY <2>3, <2>4, <2>5
<1>10. \A i \in 0 .. n : i \in Good
  <2> HIDE DEF Good
  <2> QED  BY <1>8, <1>9, Upwards
<1>11. /\ \A i \in 0 .. n : f[i] \in Seq(S)
       /\ \A i \in 1 .. n : f[i] = f[i - 1] \o seqs[i]
  <2>1. \A i \in 1 .. n : i - 1 \in 0 .. n
    OBVIOUS
  <2> QED  BY <1>9, <1>10, <2>1
<1>12. FlattenSeq(seqs) = f[n]
  <2>1. CASE n = 0
    BY <1>5, <1>7, <2>1
  <2>2. CASE n # 0
    BY <1>4, <1>7, <2>2
  <2> QED  BY <2>1, <2>2
<1> QED
  BY <1>2, <1>7, <1>11, <1>12

\* What a conversion writes is a sequence of characters.
LEMMA ConvertedType ==
  ASSUME mem \in Memories, NEW next \in Int, NEW a \in Int,
         next = LetterS /\ a # NULL => IsString(a)
  PROVE  Converted(next, a) \in Seq(Int)
<1>1. ASSUME NEW radix \in {10, 16}
      PROVE  Integer(a, radix) \in Seq(Int)
  <2>1. a % IntModulus \in Nat
    BY StreamAssumption
  <2>2. IsNumeral(Itoa(a % IntModulus, radix), a % IntModulus, radix)
    BY <2>1, ItoaIs
  <2> QED  BY <2>2 DEF Integer, IsNumeral
<1>2. <<Digit(0), LetterX>> \o Integer(a, 16) \in Seq(Int)
  <2>1. <<Digit(0), LetterX>> \in Seq(Int)
    BY StreamAssumption DEF Digit
  <2> QED  BY <1>1, <2>1, ConcatProperties
<1>3. ASSUME IsString(a)
      PROVE  StringAt(a) \in Seq(Int)
  <2>1. a \in Addresses /\ a \in Nat
    BY <1>3, StringsAssumption DEF IsString, Addresses
  <2>2. PICK n \in Nat : n = Strlen(a) /\ HasLength(mem, a, n)
    BY <1>3, <2>1, StrlenIs
  <2>3. \A i \in 1 .. n : mem[a + i - 1] \in Int
    <3> SUFFICES ASSUME NEW i \in 1 .. n
                 PROVE  mem[a + i - 1] \in Int
      OBVIOUS
    <3>1. a + i - 1 \in Addresses
      BY <2>1, <2>2, StringsAssumption DEF HasLength, Addresses
    <3> QED  BY <3>1, StringsAssumption DEF Memories, Chars
  <2>4. [i \in 1 .. n |-> mem[a + i - 1]] \in Seq(Int)
    BY <2>3
  <2> QED  BY <2>2, <2>4 DEF StringAt
<1>4. <<Percent, next>> \in Seq(Int)
  BY StreamAssumption
<1>5. Nil \in Seq(Int)
  BY StreamAssumption
<1> QED
  BY <1>1, <1>2, <1>3, <1>4, <1>5 DEF Converted

\* No more arguments are taken than half the characters in front.
LEMMA TakenSmall ==
  ASSUME NEW t, Len(t) \in Nat, NEW i \in Conversions(t)
  PROVE  i \in 1 .. Len(t) - 1 /\ Taken(t, i) \in Nat /\ 2 * Taken(t, i) <= i - 1
<1> DEFINE C == Conversions(t)
           Good == {k \in Nat : 2 * Taken(t, k + 1) <= IF k \in C THEN k + 1 ELSE k}
<1>1. i \in 1 .. Len(t) - 1 /\ BeginsAt(t, i)
  BY DEF Conversions
<1>2. 0 \in Good
  <2>1. Taken(t, 1) = 0
    <3>1. 1 \in Nat \ {0}
      OBVIOUS
    <3> QED  BY <3>1, TakenNext
  <2> QED  BY <2>1
<1>3. ASSUME NEW k \in 1 .. i, k - 1 \in Good
      PROVE  k \in Good
  <2>1. /\ Taken(t, k) \in Nat /\ Taken(t, k + 1) \in Nat
        /\ k \in C => Taken(t, k + 1) = Taken(t, k) + Consumes(t[k + 1])
        /\ k \notin C => Taken(t, k + 1) = Taken(t, k)
    <3>1. k \in Nat \ {0} /\ k + 1 \in Nat \ {0}
      OBVIOUS
    <3> QED  BY <3>1, TakenNext
  <2>2. 2 * Taken(t, k) <= IF k - 1 \in C THEN k ELSE k - 1
    <3>1. (k - 1) + 1 = k
      OBVIOUS
    <3> QED  BY <1>3, <3>1
  <2>3. k \in C => k - 1 \notin C
    <3> SUFFICES ASSUME k \in C, k - 1 \in C
                 PROVE  FALSE
      OBVIOUS
    <3>1. BeginsAt(t, k) /\ BeginsAt(t, k - 1) /\ k - 1 \in Nat \ {0} /\ (k - 1) + 1 = k
      BY DEF Conversions
    <3> QED  BY <3>1, BeginsNext
  <2>4. Consumes(t[k + 1]) \in {0, 1}
    BY DEF Consumes
  <2>5. 2 * Taken(t, k + 1) <= IF k \in C THEN k + 1 ELSE k
    <3> HIDE DEF C
    <3>1. CASE k \in C
      <4>1. 2 * Taken(t, k) <= k - 1
        BY <2>2, <2>3, <3>1
      <4> QED  BY <2>1, <2>4, <3>1, <4>1
    <3>2. CASE k \notin C
      BY <2>1, <2>2, <3>2
    <3> QED  BY <3>1, <3>2
  <2> QED  BY <2>5
<1>4. \A k \in 0 .. i : k \in Good
  <2>1. i \in Nat
    BY <1>1
  <2> HIDE DEF Good
  <2> QED  BY <1>2, <1>3, <2>1, Upwards
<1>5. i - 1 \in Good /\ (i - 1) + 1 = i
  BY <1>1, <1>4
<1>6. i - 1 \notin C
  <2> SUFFICES ASSUME i - 1 \in C
               PROVE  FALSE
    OBVIOUS
  <2>1. BeginsAt(t, i - 1) /\ i - 1 \in Nat \ {0} /\ (i - 1) + 1 = i
    BY <1>1 DEF Conversions
  <2> QED  BY <1>1, <2>1, BeginsNext
<1>7. 2 * Taken(t, i) <= i - 1
  BY <1>5, <1>6
<1>8. Taken(t, i) \in Nat
  <2>1. i \in Nat \ {0}
    BY <1>1
  <2> QED  BY <2>1, TakenNext
<1> QED
  BY <1>1, <1>7, <1>8

\* What a format stands for is made of sequences of characters.
LEMMA ExpansionType ==
  ASSUME mem \in Memories, NEW t \in Seq(Chars), Len(t) < Bytes,
         NEW args \in [1 .. Bytes \div 2 -> Arguments], StringsPassed(t, args),
         NEW i \in 1 .. Len(t)
  PROVE  Expansion(t, args, i) \in Seq(Int)
<1>1. Len(t) \in Nat /\ Bytes \in Nat /\ \A j \in 1 .. Len(t) : t[j] \in Int
  BY StringsAssumption DEF Chars
<1>2. CASE i \in Conversions(t)
  <2>1. i \in 1 .. Len(t) - 1 /\ Taken(t, i) \in Nat /\ 2 * Taken(t, i) <= i - 1
    BY <1>1, <1>2, TakenSmall
  <2>2. Taken(t, i) + 1 \in 1 .. Bytes \div 2
    BY <1>1, <2>1
  <2>3. PICK a \in Int : a = args[Taken(t, i) + 1]
    BY <2>2, StreamAssumption
  <2>4. t[i + 1] = LetterS /\ a # NULL => IsString(a)
    BY <1>2, <2>3 DEF StringsPassed
  <2>5. PICK c \in Int : c = t[i + 1]
    BY <1>1, <2>1
  <2>6. Converted(c, a) \in Seq(Int)
    BY <2>4, <2>5, ConvertedType
  <2> QED  BY <1>2, <2>3, <2>5, <2>6 DEF Expansion
<1>3. CASE i \notin Conversions(t)
  <2>1. <<t[i]>> \in Seq(Int) /\ <<>> \in Seq(Int)
    BY <1>1
  <2> QED  BY <1>3, <2>1 DEF Expansion
<1> QED
  BY <1>2, <1>3

\* Where stream_vprintf starts
Begun(fmt) == [at |-> fmt, taken |-> 0, out |-> <<>>, written |-> 0]

\* The turns of the loop, as a function
Printing(f, fmt, args, n) ==
  f = [turn \in 0 .. n |-> IF turn = 0 THEN Begun(fmt) ELSE Turn(f[turn - 1], args)]

\* Such a function begins at the start of the format and goes on turn by turn.
LEMMA PrintingSteps ==
  ASSUME NEW f, NEW fmt, NEW args, NEW n \in Nat, Printing(f, fmt, args, n)
  PROVE  /\ f[0] = Begun(fmt)
         /\ \A turn \in 1 .. n : f[turn] = Turn(f[turn - 1], args)
<1>1. \A turn \in 0 .. n : f[turn] = IF turn = 0 THEN Begun(fmt) ELSE Turn(f[turn - 1], args)
  <2> DEFINE g == [turn \in 0 .. n |->
                     IF turn = 0 THEN Begun(fmt) ELSE Turn(f[turn - 1], args)]
  <2>1. f = g
    BY Zenon DEF Printing
  <2>2. \A turn \in 0 .. n :
          g[turn] = IF turn = 0 THEN Begun(fmt) ELSE Turn(f[turn - 1], args)
    OBVIOUS
  <2> HIDE DEF g
  <2> QED  BY <2>1, <2>2
<1>2. 0 \in 0 .. n /\ \A turn \in 1 .. n : turn \in 0 .. n /\ turn # 0
  OBVIOUS
<1> QED
  BY <1>1, <1>2

\* There is such a function for any number of turns.
LEMMA PrintingExists ==
  ASSUME NEW fmt, NEW args, NEW n \in Nat
  PROVE  \E f : Printing(f, fmt, args, n)
<1> DEFINE Good == {k \in Nat : \E f : Printing(f, fmt, args, k)}
           turned(f, k) == IF k = 0 THEN Begun(fmt) ELSE Turn(f[k - 1], args)
<1>1. 0 \in Good
  <2> DEFINE f == [k \in 0 .. 0 |-> Begun(fmt)]
  <2>1. f = [k \in 0 .. 0 |-> turned(f, k)]
    OBVIOUS
  <2> HIDE DEF f
  <2>2. Printing(f, fmt, args, 0)
    BY <2>1, Zenon DEF Printing
  <2> QED  BY <2>2
<1>2. ASSUME NEW k \in 1 .. n, k - 1 \in Good
      PROVE  k \in Good
  <2>1. PICK f : Printing(f, fmt, args, k - 1)
    BY <1>2
  <2> DEFINE g == [i \in 0 .. k |-> IF i = k THEN turned(f, k) ELSE f[i]]
  <2>2. \A i \in 0 .. k - 1 : f[i] = turned(f, i)
    <3>1. k - 1 \in Nat
      OBVIOUS
    <3>2. /\ f[0] = Begun(fmt)
          /\ \A i \in 1 .. k - 1 : f[i] = Turn(f[i - 1], args)
      BY <2>1, <3>1, PrintingSteps
    <3> QED  BY <3>2
  <2>3. \A i \in 0 .. k : turned(g, i) = turned(f, i)
    <3>1. \A i \in 0 .. k : i = 0 \/ g[i - 1] = f[i - 1]
      OBVIOUS
    <3> HIDE DEF g
    <3> QED  BY <3>1
  <2>4. \A i \in 0 .. k : g[i] = turned(g, i)
    <3> SUFFICES ASSUME NEW i \in 0 .. k
                 PROVE  g[i] = turned(f, i)
      BY <2>3
    <3> HIDE DEF turned
    <3>1. CASE i = k
      BY <3>1
    <3>2. CASE i # k
      <4>1. i \in 0 .. k - 1 /\ g[i] = f[i]
        BY <3>2
      <4> QED  BY <2>2, <4>1
    <3> QED  BY <3>1, <3>2
  <2>5. g = [i \in 0 .. k |-> turned(g, i)]
    <3>1. g = [i \in 0 .. k |-> g[i]]
      OBVIOUS
    <3> HIDE DEF g, turned
    <3> QED  BY <2>4, <3>1
  <2>6. Printing(g, fmt, args, k)
    <3> HIDE DEF g
    <3> QED  BY <2>5, Zenon DEF Printing
  <2> HIDE DEF g
  <2> QED  BY <2>6
<1>3. \A k \in 0 .. n : k \in Good
  <2> HIDE DEF Good
  <2> QED  BY <1>1, <1>2, Upwards
<1>4. n \in Good
  <2> HIDE DEF Good
  <2> QED  BY <1>3
<1> QED
  BY <1>4

\* Vprintf is where such a function ends.
LEMMA VprintfIs ==
  ASSUME NEW fmt, NEW args, Strlen(fmt) \in Nat
  PROVE  \E f : Printing(f, fmt, args, Strlen(fmt)) /\ Vprintf(fmt, args) = f[Strlen(fmt)]
<1> DEFINE f == CHOOSE f : Printing(f, fmt, args, Strlen(fmt))
<1>1. Printing(f, fmt, args, Strlen(fmt))
  BY PrintingExists
<1>2. Vprintf(fmt, args) = f[Strlen(fmt)]
  BY Zenon DEF Vprintf, Printing, Begun
<1> QED
  BY <1>1, <1>2

\* g[i] is what the first i characters of a format stand for.
Expanded(g, t, args) ==
  /\ g[0] = <<>>
  /\ \A i \in 0 .. Len(t) : g[i] \in Seq(Int)
  /\ \A i \in 1 .. Len(t) : /\ Expansion(t, args, i) \in Seq(Int)
                            /\ g[i] = g[i - 1] \o Expansion(t, args, i)

\* stream_vprintf has printed p characters of the format: it is not in the
\* middle of a conversion.
Printed(v, fmt, t, g, p) ==
  /\ p \in 0 .. Len(t)
  /\ p # 0 /\ p # Len(t) => ~BeginsAt(t, p)
  /\ v = [at |-> fmt + p, taken |-> Taken(t, p + 1), out |-> g[p], written |-> Len(g[p])]

\* A turn prints one character or two, until there are none.
LEMMA TurnIs ==
  ASSUME NEW t \in Seq(Int), NEW fmt \in Nat, NEW args, NEW g, Expanded(g, t, args),
         \A i \in 1 .. Len(t) : t[i] = mem[fmt + i - 1] /\ t[i] # NUL,
         mem[fmt + Len(t)] = NUL,
         NEW v, NEW p, Printed(v, fmt, t, g, p)
  PROVE  IF p = Len(t) THEN Turn(v, args) = v
         ELSE Printed(Turn(v, args), fmt, t, g, p + 1)
              \/ Printed(Turn(v, args), fmt, t, g, p + 2)
<1>1. PICK L \in Nat : L = Len(t)
  OBVIOUS
<1>2. p \in 0 .. L /\ p + 1 \in Nat \ {0} /\ p + 2 \in Nat \ {0} /\ p \in Nat
  BY <1>1 DEF Printed
<1>3. /\ v.at = fmt + p /\ v.taken = Taken(t, p + 1)
      /\ v.out = g[p] /\ v.written = Len(g[p])
      /\ v = [at |-> v.at, taken |-> v.taken, out |-> v.out, written |-> v.written]
  BY DEF Printed
<1>4. \A i \in 1 .. L - 1 : i \in Conversions(t) <=> BeginsAt(t, i)
  BY <1>1 DEF Conversions
<1>5. \A i \in Conversions(t) : i \in 1 .. L - 1
  BY <1>1 DEF Conversions
<1>6. p # L => (BeginsAt(t, p + 1) <=> t[p + 1] = Percent)
  <2>1. CASE p = 0
    BY <2>1, BeginsFirst
  <2>2. CASE p # 0 /\ p # L
    <3>1. p \in Nat \ {0} /\ ~BeginsAt(t, p)
      BY <1>1, <1>2, <2>2 DEF Printed
    <3> QED  BY <3>1, BeginsNext
  <2> QED  BY <2>1, <2>2
<1>7. p # L => p \notin Conversions(t)
  <2>1. p # 0 /\ p # L => ~BeginsAt(t, p)
    BY <1>1 DEF Printed
  <2> QED  BY <1>4, <1>5, <2>1
<1>8. /\ Taken(t, p + 1) \in Nat
      /\ p + 1 \in Conversions(t) =>
           Taken(t, p + 2) = Taken(t, p + 1) + Consumes(t[p + 2])
      /\ p + 1 \notin Conversions(t) => Taken(t, p + 2) = Taken(t, p + 1)
      /\ p + 2 \notin Conversions(t) => Taken(t, p + 3) = Taken(t, p + 2)
  <2>1. (p + 1) + 1 = p + 2 /\ (p + 2) + 1 = p + 3 /\ Len(t) \in Nat
    BY <1>1, <1>2
  <2>2. /\ Taken(t, p + 1) \in Nat
        /\ p + 1 \in Conversions(t) =>
             Taken(t, (p + 1) + 1) = Taken(t, p + 1) + Consumes(t[(p + 1) + 1])
        /\ p + 1 \notin Conversions(t) => Taken(t, (p + 1) + 1) = Taken(t, p + 1)
    BY <1>2, <2>1, TakenNext
  <2>3. p + 2 \notin Conversions(t) => Taken(t, (p + 2) + 1) = Taken(t, p + 2)
    BY <1>2, <2>1, TakenNext
  <2> QED  BY <2>1, <2>2, <2>3
<1>9. \A i \in 0 .. L : g[i] \in Seq(Int) /\ Len(g[i]) \in Nat
  BY <1>1 DEF Expanded
<1>10. CASE p = L
  <2>1. mem[v.at] = NUL
    BY <1>1, <1>3, <1>10
  <2>2. Turn(v, args) = v
    BY <2>1, StreamAssumption DEF Turn
  <2> QED  BY <1>1, <1>10, <2>2
<1>11. CASE p # L
  <2>1. /\ p + 1 \in 1 .. L /\ mem[v.at] = t[p + 1] /\ t[p + 1] # NUL
        /\ g[p] \in Seq(Int) /\ g[p + 1] = g[p] \o Expansion(t, args, p + 1)
    <3>1. p + 1 \in 1 .. L /\ p \in 0 .. L /\ fmt + (p + 1) - 1 = fmt + p /\ (p + 1) - 1 = p
      BY <1>2, <1>11
    <3> QED  BY <1>1, <1>3, <1>9, <3>1 DEF Expanded
  <2>2. CASE t[p + 1] = Percent /\ p + 1 = L
    <3>1. mem[v.at + 1] = NUL
      <4>1. v.at + 1 = fmt + L
        BY <1>2, <1>3, <2>2
      <4> QED  BY <1>1, <4>1
    <3>2. Turn(v, args) = [v EXCEPT !.at = @ + 1]
      BY <2>1, <2>2, <3>1 DEF Turn
    <3>3. p + 1 \notin Conversions(t) /\ p \notin Conversions(t) /\ BeginsAt(t, p + 1)
      BY <1>5, <1>6, <1>7, <1>11, <2>2
    <3>4. Expansion(t, args, p + 1) = <<>>
      BY <3>3 DEF Expansion
    <3>5. g[p + 1] = g[p]
      BY <2>1, <3>4, ConcatEmptySeq
    <3>6. Taken(t, p + 2) = Taken(t, p + 1)
      BY <1>8, <3>3
    <3>7. Turn(v, args) = [at |-> fmt + (p + 1), taken |-> Taken(t, (p + 1) + 1),
                           out |-> g[p + 1], written |-> Len(g[p + 1])]
      <4>1. v.at + 1 = fmt + (p + 1) /\ (p + 1) + 1 = p + 2
        BY <1>2, <1>3
      <4> QED  BY <1>3, <3>2, <3>5, <3>6, <4>1
    <3>8. Printed(Turn(v, args), fmt, t, g, p + 1)
      BY <1>1, <2>1, <2>2, <3>7 DEF Printed
    <3> QED  BY <1>1, <1>11, <3>8
  <2>3. CASE t[p + 1] = Percent /\ p + 1 # L
    <3>1. p + 2 \in 1 .. L /\ mem[v.at + 1] = t[p + 2] /\ t[p + 2] # NUL
      <4>0. p + 2 \in 1 .. L
        BY <1>2, <2>1, <2>3
      <4>1. p + 2 \in 1 .. L /\ v.at + 1 = fmt + (p + 2) - 1
        BY <1>2, <1>3, <4>0
      <4> QED  BY <1>1, <4>1
    <3>2. p + 1 \in Conversions(t) /\ BeginsAt(t, p + 1)
      <4>1. p + 1 \in 1 .. L - 1
        BY <2>1, <2>3
      <4> QED  BY <1>4, <1>6, <1>11, <2>3, <4>1
    <3>3. ~BeginsAt(t, p + 2) /\ p + 2 \notin Conversions(t)
      <4>1. (p + 1) + 1 = p + 2
        BY <1>2
      <4>2. ~BeginsAt(t, p + 2)
        BY <1>2, <3>2, <4>1, BeginsNext
      <4> QED  BY <4>2 DEF Conversions
    <3>4. PICK item : item = Converted(t[p + 2], args[Taken(t, p + 1) + 1])
      OBVIOUS
    <3>5. Turn(v, args) = [at      |-> v.at + 2,
                           taken   |-> v.taken + Consumes(t[p + 2]),
                           out     |-> v.out \o item,
                           written |-> v.written + Len(item)]
      BY <1>3, <2>1, <2>3, <3>1, <3>4 DEF Turn
    <3>6. Expansion(t, args, p + 1) = item
      <4>1. (p + 1) + 1 = p + 2
        BY <1>2
      <4> QED  BY <3>2, <3>4, <4>1 DEF Expansion
    <3>7. Expansion(t, args, p + 2) = <<>>
      <4>1. (p + 2) - 1 = p + 1
        BY <1>2
      <4> QED  BY <3>2, <3>3, <4>1 DEF Expansion
    <3>8. g[p + 1] = g[p] \o item /\ g[p + 2] = g[p + 1]
      <4>0. (p + 2) - 1 = p + 1 /\ p + 1 \in 0 .. L
        BY <1>2, <2>1
      <4>1. g[p + 1] \in Seq(Int) /\ (p + 2) - 1 = p + 1
        BY <1>9, <4>0
      <4>2. g[p + 2] = g[p + 1] \o <<>>
        BY <1>1, <3>1, <3>7, <4>1 DEF Expanded
      <4>3. g[p + 1] \o <<>> = g[p + 1]
        BY <4>1, ConcatEmptySeq
      <4> QED  BY <2>1, <3>6, <4>2, <4>3
    <3>9. Len(g[p + 2]) = Len(g[p]) + Len(item)
      <4>1. item \in Seq(Int)
        BY <1>1, <2>1, <3>6 DEF Expanded
      <4>2. Len(g[p] \o item) = Len(g[p]) + Len(item)
        BY <2>1, <4>1, ConcatProperties
      <4> QED  BY <3>8, <4>2
    <3>10. Taken(t, p + 3) = Taken(t, p + 1) + Consumes(t[p + 2])
      BY <1>8, <3>2, <3>3
    <3>11. Turn(v, args) = [at |-> fmt + (p + 2), taken |-> Taken(t, (p + 2) + 1),
                            out |-> g[p + 2], written |-> Len(g[p + 2])]
      <4>1. v.at + 2 = fmt + (p + 2) /\ (p + 2) + 1 = p + 3
        BY <1>2, <1>3
      <4> QED  BY <1>3, <3>5, <3>8, <3>9, <3>10, <4>1
    <3>12. Printed(Turn(v, args), fmt, t, g, p + 2)
      BY <1>1, <1>2, <3>1, <3>3, <3>11 DEF Printed
    <3> QED  BY <1>1, <1>11, <3>12
  <2>4. CASE t[p + 1] # Percent
    <3>1. Turn(v, args) = [v EXCEPT !.at = @ + 1, !.out = @ \o <<mem[v.at]>>,
                                    !.written = @ + 1]
      BY <2>1, <2>4 DEF Turn
    <3>2. ~BeginsAt(t, p + 1) /\ p + 1 \notin Conversions(t)
      BY <1>6, <1>11, <2>4 DEF Conversions
    <3>3. Expansion(t, args, p + 1) = <<t[p + 1]>>
      <4>1. (p + 1) - 1 = p
        BY <1>2
      <4> QED  BY <1>7, <1>11, <3>2, <4>1 DEF Expansion
    <3>4. g[p + 1] = g[p] \o <<t[p + 1]>>
      BY <2>1, <3>3
    <3>5. Len(g[p + 1]) = Len(g[p]) + 1
      <4>1. <<t[p + 1]>> \in Seq(Int) /\ Len(<<t[p + 1]>>) = 1
        BY <1>1, <2>1
      <4>2. PICK s \in Seq(Int) : s = <<t[p + 1]>>
        BY <4>1
      <4>3. Len(g[p] \o s) = Len(g[p]) + Len(s)
        BY <2>1, ConcatProperties
      <4> QED  BY <3>4, <4>1, <4>2, <4>3
    <3>6. Taken(t, p + 2) = Taken(t, p + 1)
      BY <1>8, <3>2
    <3>7. Turn(v, args) = [at |-> fmt + (p + 1), taken |-> Taken(t, (p + 1) + 1),
                           out |-> g[p + 1], written |-> Len(g[p + 1])]
      <4>1. v.at + 1 = fmt + (p + 1) /\ (p + 1) + 1 = p + 2
        BY <1>2, <1>3
      <4> QED  BY <1>3, <2>1, <3>1, <3>4, <3>5, <3>6, <4>1
    <3>8. Printed(Turn(v, args), fmt, t, g, p + 1)
      BY <1>1, <2>1, <3>2, <3>7 DEF Printed
    <3> QED  BY <1>1, <1>11, <3>8
  <2> QED  BY <2>2, <2>3, <2>4
<1> QED
  BY <1>10, <1>11

\* Whatever the memory holds, formats are expanded.
LEMMA PrintfExact ==
  ASSUME mem \in Memories
  PROVE  PrintfExpandsFormat
<1> SUFFICES ASSUME NEW fmt \in Addresses, NEW args \in [1 .. Bytes \div 2 -> Arguments],
                    IsString(fmt), StringsPassed(Text(mem, fmt), args)
             PROVE  LET t      == Text(mem, fmt)
                        v == Vprintf(fmt, args)
                    IN  /\ v.out = FlattenSeq([i \in 1 .. Len(t) |-> Expansion(t, args, i)])
                        /\ v.written = Len(v.out)
                        /\ v.at = fmt + Len(t)
  BY DEF PrintfExpandsFormat
<1>1. PICK L \in Nat : L = Strlen(fmt) /\ HasLength(mem, fmt, L)
  BY StrlenIs
<1>2. fmt \in Nat /\ Bytes \in Nat /\ fmt + L < Bytes
  BY <1>1, StringsAssumption DEF HasLength, Addresses
<1>3. PICK t : t = Text(mem, fmt)
  OBVIOUS
<1>4. /\ t \in Seq(Chars) /\ Len(t) = L
      /\ \A i \in 1 .. L : t[i] = mem[fmt + i - 1] /\ t[i] # NUL
  <2>1. t = [i \in 1 .. L |-> mem[fmt + i - 1]]
    BY <1>1, <1>3, TextIs
  <2>2. ASSUME NEW i \in 1 .. L
        PROVE  mem[fmt + i - 1] \in Chars /\ mem[fmt + i - 1] # NUL
    <3>1. fmt + i - 1 \in Addresses /\ i - 1 \in 0 .. L - 1 /\ fmt + (i - 1) = fmt + i - 1
      BY <1>2 DEF Addresses
    <3>2. mem[fmt + (i - 1)] # NUL
      BY <1>1, <3>1 DEF HasLength
    <3> QED  BY <3>1, <3>2 DEF Memories
  <2> QED  BY <2>1, <2>2
<1>5. t \in Seq(Int)
  <2>1. Chars \subseteq Int
    BY StringsAssumption DEF Chars
  <2> QED  BY <1>4, <2>1, SeqMonotonic
<1> DEFINE seqs == [i \in 1 .. L |-> Expansion(t, args, i)]
<1>6. \A i \in 1 .. L : Expansion(t, args, i) \in Seq(Int)
  <2>1. Len(t) < Bytes /\ StringsPassed(t, args)
    BY <1>2, <1>3, <1>4
  <2> QED  BY <1>4, <2>1, ExpansionType
<1>7. /\ seqs \in Seq(Seq(Int)) /\ Len(seqs) = L
      /\ \A i \in 1 .. L : seqs[i] = Expansion(t, args, i)
  BY <1>6
<1> HIDE DEF seqs
<1>8. PICK g : /\ g[0] = <<>> /\ FlattenSeq(seqs) = g[Len(seqs)]
               /\ \A i \in 0 .. Len(seqs) : g[i] \in Seq(Int)
               /\ \A i \in 1 .. Len(seqs) : g[i] = g[i - 1] \o seqs[i]
  BY <1>7, FlattenIs
<1>9. Expanded(g, t, args)
  BY <1>4, <1>6, <1>7, <1>8 DEF Expanded
<1>10. PICK f : Printing(f, fmt, args, L) /\ Vprintf(fmt, args) = f[L]
  BY <1>1, VprintfIs
<1>11. f[0] = Begun(fmt) /\ \A n \in 1 .. L : f[n] = Turn(f[n - 1], args)
  BY <1>10, PrintingSteps
<1> DEFINE Good == {n \in 0 .. L : \E p \in n .. L : Printed(f[n], fmt, t, g, p)}
<1>12. 0 \in Good
  <2>1. Taken(t, 1) = 0
    <3>1. Len(t) \in Nat /\ 1 \in Nat \ {0}
      BY <1>4
    <3> QED  BY <3>1, TakenNext
  <2>2. Len(g[0]) = 0
    BY <1>8
  <2>3. f[0] = [at |-> fmt + 0, taken |-> Taken(t, 0 + 1), out |-> g[0], written |-> Len(g[0])]
    BY <1>2, <1>8, <1>11, <2>1, <2>2 DEF Begun
  <2>4. Printed(f[0], fmt, t, g, 0)
    BY <1>4, <2>3 DEF Printed
  <2> QED  BY <2>4
<1>13. ASSUME NEW n \in 1 .. L, n - 1 \in Good
       PROVE  n \in Good
  <2>1. PICK p \in n - 1 .. L : Printed(f[n - 1], fmt, t, g, p)
    BY <1>13
  <2>2. PICK v : v = f[n - 1]
    OBVIOUS
  <2>3. f[n] = Turn(v, args)
    BY <1>11, <2>2
  <2>4. mem[fmt + Len(t)] = NUL
    BY <1>1, <1>4 DEF HasLength
  <2>5. IF p = Len(t) THEN Turn(v, args) = v
        ELSE Printed(Turn(v, args), fmt, t, g, p + 1)
             \/ Printed(Turn(v, args), fmt, t, g, p + 2)
    <3>1. /\ t \in Seq(Int) /\ fmt \in Nat /\ Expanded(g, t, args)
          /\ \A i \in 1 .. Len(t) : t[i] = mem[fmt + i - 1] /\ t[i] # NUL
          /\ mem[fmt + Len(t)] = NUL /\ Printed(v, fmt, t, g, p)
      BY <1>2, <1>4, <1>5, <1>9, <2>1, <2>2, <2>4
    <3> QED  BY <3>1, TurnIs
  <2>6. CASE p = L
    <3>1. Printed(f[n], fmt, t, g, L)
      BY <1>4, <2>1, <2>2, <2>3, <2>5, <2>6
    <3> QED  BY <3>1
  <2>7. CASE p # L
    <3>1. PICK q \in {p + 1, p + 2} : Printed(f[n], fmt, t, g, q)
      BY <1>4, <2>3, <2>5, <2>7
    <3>2. q \in n .. L
      <4>1. q \in 0 .. L
        BY <1>4, <3>1 DEF Printed
      <4> QED  BY <3>1, <4>1
    <3> QED  BY <3>1, <3>2
  <2> QED  BY <2>6, <2>7
<1>14. \A n \in 0 .. L : n \in Good
  <2> HIDE DEF Good
  <2> QED  BY <1>12, <1>13, Upwards
<1>15. Printed(f[L], fmt, t, g, L)
  BY <1>14
<1>16. PICK u : u = Vprintf(fmt, args)
  OBVIOUS
<1>17. u.at = fmt + L /\ u.out = g[L] /\ u.written = Len(g[L])
  BY <1>10, <1>15, <1>16 DEF Printed
<1>18. FlattenSeq(seqs) = g[L]
  BY <1>7, <1>8
<1> QED
  BY <1>3, <1>4, <1>16, <1>17, <1>18 DEF seqs

-----------------------------------------------------------------------------
(***************************************************************************)
(* What holds in every memory                                              *)
(***************************************************************************)
\* The memory holds characters: the invariant the theorems rest on.
StringsTypeOK == mem \in Memories /\ faulted \in BOOLEAN

\* memcpy leaves a memory, also where it leaves the memory.
LEMMA MemcpyType ==
  ASSUME mem \in Memories, NEW d \in Addresses, NEW s \in Addresses, NEW n \in Nat
  PROVE  AfterMemcpy(d, s, n) \in Memories
<1>1. d \in Nat /\ s \in Nat /\ Bytes \in Nat
  BY StringsAssumption DEF Addresses
<1>2. {n, Bytes} \in SUBSET Nat /\ {n, Bytes} # {}
  BY <1>1
<1>3. Min({n, Bytes}) \in Nat
  BY <1>2, MinIs
<1>4. Ascending(Min({n, Bytes})) \in Seq(Nat)
  BY <1>3, OrdersAre
<1> QED
  BY <1>1, <1>4, CopyType DEF AfterMemcpy

\* memmove does.
LEMMA MemmoveType ==
  ASSUME mem \in Memories, NEW d \in Addresses, NEW s \in Addresses, NEW n \in Nat
  PROVE  AfterMemmove(d, s, n) \in Memories
<1>1. d \in Nat /\ s \in Nat
  BY StringsAssumption DEF Addresses
<1>2. Ascending(n) \in Seq(Nat) /\ Descending(n) \in Seq(Nat)
  BY OrdersAre
<1>3. Copy(mem, d, s, Ascending(n)) \in Memories /\ Copy(mem, d, s, Descending(n)) \in Memories
  BY <1>1, <1>2, CopyType
<1> QED
  BY <1>3 DEF AfterMemmove

\* strncpy does.
LEMMA StrncpyType ==
  ASSUME mem \in Memories, NEW d \in Addresses, NEW s \in Addresses, NEW n \in Nat
  PROVE  /\ AfterMemcpy(d, s, CopyLength(n)) \in Memories
         /\ AfterStrncpy(d, s, n) \in Memories
<1>1. CopyLength(n) \in Nat
  BY StringsAssumption DEF CopyLength
<1>2. AfterMemcpy(d, s, CopyLength(n)) \in Memories
  BY <1>1, MemcpyType
<1>3. NUL \in Chars
  BY StringsAssumption DEF NUL, Chars
<1> QED
  BY <1>2, <1>3 DEF AfterStrncpy, Memories

\* ... whoever calls it.
LEMMA StrncpyKeepsType ==
  ASSUME StringsTypeOK, NEW d \in Addresses, NEW s \in Addresses, NEW n \in Nat,
         Strncpy(d, s, n)
  PROVE  StringsTypeOK'
<1>1. AfterMemcpy(d, s, CopyLength(n)) \in Memories /\ AfterStrncpy(d, s, n) \in Memories
  BY StrncpyType DEF StringsTypeOK
<1> QED
  BY <1>1 DEF StringsTypeOK, Strncpy, Memories

\* strncat does, with the length of any string.
LEMMA StrncatKeepsType ==
  ASSUME StringsTypeOK, NEW d \in Addresses, NEW s \in Addresses, NEW n \in Nat,
         Strncat(d, s, n)
  PROVE  StringsTypeOK'
<1>1. d + Strlen(d) \in Addresses
  BY StrlenIs DEF Strncat, HasLength
<1>2. AfterStrncpy(d + Strlen(d), s, n + 1) \in Memories
  BY <1>1, StrncpyType DEF StringsTypeOK
<1> QED
  BY <1>2 DEF StringsTypeOK, Strncat, AfterStrncat, Memories

\* The memory holds characters, whatever is called.
LEMMA StringsTypeKept ==
  ASSUME StringsTypeOK, [StringsNext]_stringVars
  PROVE  StringsTypeOK'
<1>1. CASE UNCHANGED stringVars
  BY <1>1 DEF stringVars, StringsTypeOK, Memories
<1>2. ASSUME NEW d \in Addresses, NEW s \in Addresses, Strcpy(d, s)
      PROVE  StringsTypeOK'
  <2>1. Strlen(s) \in Nat /\ Strncpy(d, s, Strlen(s))
    BY <1>2, StrlenIs DEF Strcpy
  <2> QED  BY <2>1, StrncpyKeepsType
<1>3. ASSUME NEW d \in Addresses, NEW s \in Addresses, Strcat(d, s)
      PROVE  StringsTypeOK'
  <2>1. Strlen(s) \in Nat /\ Strncat(d, s, Strlen(s))
    BY <1>3, StrlenIs DEF Strcat
  <2> QED  BY <2>1, StrncatKeepsType
<1>4. ASSUME NEW s \in Addresses, NEW n \in 0 .. Bytes, NEW c \in 0 .. CharModulus,
             Memset(s, c, n)
      PROVE  StringsTypeOK'
  <2>1. Stored(c) \in Chars
    BY StringsAssumption DEF Stored, Chars
  <2> QED  BY <1>4, <2>1 DEF StringsTypeOK, Memset, Memories
<1>5. ASSUME NEW d \in Addresses, NEW s \in Addresses, NEW n \in 0 .. Bytes,
             Memcpy(d, s, n) \/ Memmove(d, s, n)
      PROVE  StringsTypeOK'
  <2>1. n \in Nat
    BY StringsAssumption
  <2>2. AfterMemcpy(d, s, n) \in Memories /\ AfterMemmove(d, s, n) \in Memories
    BY <2>1, MemcpyType, MemmoveType DEF StringsTypeOK
  <2> QED  BY <1>5, <2>2 DEF StringsTypeOK, Memcpy, Memmove, Memories
<1>6. ASSUME NEW d \in Addresses, NEW s \in Addresses, NEW n \in 0 .. Bytes,
             Strncpy(d, s, n) \/ Strncat(d, s, n)
      PROVE  StringsTypeOK'
  <2>1. n \in Nat
    BY StringsAssumption
  <2> QED  BY <1>6, <2>1, StrncpyKeepsType, StrncatKeepsType
<1> QED
  BY <1>1, <1>2, <1>3, <1>4, <1>5, <1>6 DEF StringsNext

\* The memory keeps its type, for a memory of any size, whatever is called.
THEOREM StringsTypeCorrect == StringsSpec => []StringsTypeOK
<1>1. StringsInit => StringsTypeOK
  <2>1. NUL \in Chars
    BY StringsAssumption DEF Chars, NUL
  <2> QED  BY <2>1 DEF StringsInit, StringsTypeOK, Memories
<1>2. StringsTypeOK /\ [StringsNext]_stringVars => StringsTypeOK'
  BY StringsTypeKept
<1> QED  BY <1>1, <1>2, PTL DEF StringsSpec

\* In every memory the calls can leave, memmove copies as if through a buffer,
\* and memcpy does so for regions that do not overlap.
THEOREM StringsCopyExactly == StringsSpec => []CopiesAreExact
<1>1. StringsTypeOK => CopiesAreExact
  BY CopiesExact DEF StringsTypeOK
<1> QED  BY <1>1, StringsTypeCorrect, PTL

\* In every memory the calls can leave, strncat appends what its arguments say
\* and ends the string.
THEOREM StringsConcatenateExactly == StringsSpec => []ConcatenationIsExact
<1>1. StringsTypeOK => ConcatenationIsExact
  BY ConcatenationExact DEF StringsTypeOK
<1> QED  BY <1>1, StringsTypeCorrect, PTL

\* In every memory the calls can leave, strcmp orders strings as its property
\* says.
THEOREM StringsCompare == StringsSpec => []ComparisonIsLexicographic
<1>1. StringsTypeOK => ComparisonIsLexicographic
  BY ComparisonExact DEF StringsTypeOK
<1> QED  BY <1>1, StringsTypeCorrect, PTL

\* In every memory the calls can leave, strstr finds the first occurrence.
THEOREM StrstrCorrect == StringsSpec => []StrstrFindsFirst
<1>1. StringsTypeOK => StrstrFindsFirst
  BY StrstrExact DEF StringsTypeOK
<1> QED  BY <1>1, StringsTypeCorrect, PTL

\* In every memory the calls can leave, itoa prints each number of three bytes
\* so that it reads back.
THEOREM ItoaCorrect == StringsSpec => []NumbersReadBack
<1>1. StringsTypeOK => NumbersReadBack
  BY NumbersExact DEF StringsTypeOK
<1> QED  BY <1>1, StringsTypeCorrect, PTL

\* In every memory the calls can leave, stream_vprintf expands each format in
\* it: all its characters in order, each argument once, to its end.
THEOREM PrintfCorrect == StringsSpec => []PrintfExpandsFormat
<1>1. StringsTypeOK => PrintfExpandsFormat
  BY PrintfExact DEF StringsTypeOK
<1> QED  BY <1>1, StringsTypeCorrect, PTL
=============================================================================
